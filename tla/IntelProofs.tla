----------------------------- MODULE IntelProofs -----------------------------
(***************************************************************************)
(* Proofs about the stores that steer what is scanned: the known-bad cache *)
(* of known_bad_deps.py, the maintainer pivot and watch, the focus list    *)
(* and the automatic watchlist.                                            *)
(***************************************************************************)
EXTENDS KnownBad, Maintainers, Focus, Watchlist, DataLemmas

-----------------------------------------------------------------------------
(* The known-bad cache                                                     *)

LoaderRec == [at : {"idle", "query", "store", "answered"}, age : 0 .. CacheTtl, names : SUBSET KNames]

\* A set with a stamp of that age tells the truth of every name that has been left
\* alone for longer.
Truthful(age, names) == \A n \in KNames : steady[n] > age => (n \in names <=> n \in listed)

\* The inductive invariant.  A load is over before the life of a cached set is, and
\* the stamp is taken before the query: what is about to be stored is truthful.
KInv ==
    /\ KnownBadTypeOK
    /\ Truthful(cache.age, cache.names)
    /\ \A l \in Loaders : loader[l].age < CacheTtl
    /\ \A l \in Loaders : loader[l].at = "store" => Truthful(loader[l].age, loader[l].names)
    /\ KnownBadFresh

LEMMA KnownBadInitInv == KnownBadInit => KInv
BY CacheAssumption DEF KnownBadInit, KInv, KnownBadTypeOK, Truthful, KnownBadFresh, NoCache, IdleLoader

LEMMA KnownBadStep == KInv /\ [KnownBadNext]_knownBadVars => KInv'
<1> SUFFICES ASSUME KInv, [KnownBadNext]_knownBadVars PROVE KInv'
    OBVIOUS
<1> USE CacheAssumption
<1>1. ASSUME NEW n \in KNames, EditList(n) PROVE KInv'
    <2>1. KnownBadTypeOK'
        BY <1>1 DEF KInv, KnownBadTypeOK, EditList
    <2>2. \A m \in KNames : m # n => steady'[m] = steady[m] /\ (m \in listed' <=> m \in listed)
        BY <1>1 DEF KInv, KnownBadTypeOK, EditList
    <2>3. steady'[n] = 0
        BY <1>1 DEF KInv, KnownBadTypeOK, EditList
    <2>4. loader' = loader /\ cache' = cache
        BY <1>1 DEF EditList
    <2>5. \A l \in Loaders : loader[l].age \in 0 .. CacheTtl
        BY DEF KInv, KnownBadTypeOK
    <2>6. cache.age \in 0 .. CacheTtl
        BY DEF KInv, KnownBadTypeOK
    <2>7. Truthful(cache.age, cache.names)'
        BY <2>2, <2>3, <2>4, <2>6 DEF KInv, Truthful
    <2>8. \A l \in Loaders : (loader[l].at = "store" => Truthful(loader[l].age, loader[l].names))'
        BY <2>2, <2>3, <2>4, <2>5 DEF KInv, Truthful
    <2>9. KnownBadFresh'
        BY <2>2, <2>3, <2>4 DEF KInv, KnownBadFresh
    <2>10. QED
        BY <2>1, <2>4, <2>7, <2>8, <2>9 DEF KInv
<1>2. ASSUME NEW l \in Loaders, NEW q \in LoaderRec, loader' = [loader EXCEPT ![l] = q], q.age < CacheTtl,
             q.at = "store" => Truthful(q.age, q.names),
             q.at = "answered" => \A n \in KNames : steady[n] = CacheTtl => (n \in q.names <=> n \in listed),
             UNCHANGED <<listed, steady>>, edits' \in 0 .. MaxEdits,
             cache' \in [age : 0 .. CacheTtl, names : SUBSET KNames],
             Truthful(cache'.age, cache'.names)
      PROVE KInv'
    <2>1. KnownBadTypeOK'
        BY <1>2 DEF KInv, KnownBadTypeOK, LoaderRec
    <2>2. \A m \in Loaders : loader'[m] = IF m = l THEN q ELSE loader[m]
        BY <1>2 DEF KInv, KnownBadTypeOK
    <2>3. Truthful(cache.age, cache.names)'
        BY <1>2 DEF Truthful
    <2>4. \A m \in Loaders : loader'[m].age < CacheTtl
        BY <1>2, <2>2 DEF KInv
    <2>5. \A m \in Loaders : (loader[m].at = "store" => Truthful(loader[m].age, loader[m].names))'
        BY <1>2, <2>2 DEF KInv, Truthful
    <2>6. KnownBadFresh'
        BY <1>2, <2>2 DEF KInv, KnownBadFresh
    <2>7. QED
        BY <2>1, <2>3, <2>4, <2>5, <2>6 DEF KInv
<1>3. ASSUME NEW l \in Loaders, LookUp(l) PROVE KInv'
    <2> DEFINE q == IF cache.age < CacheTtl THEN [at |-> "answered", age |-> 0, names |-> cache.names]
                    ELSE [at |-> "query", age |-> 0, names |-> {}]
    <2>1. q \in LoaderRec /\ q.age < CacheTtl /\ q.at # "store"
        BY DEF KInv, KnownBadTypeOK, LoaderRec
    <2>2. q.at = "answered" => \A n \in KNames : steady[n] = CacheTtl => (n \in q.names <=> n \in listed)
        BY DEF KInv, KnownBadTypeOK, Truthful
    <2>3. loader' = [loader EXCEPT ![l] = q] /\ UNCHANGED <<listed, steady, cache, edits>>
        BY <1>3 DEF LookUp
    <2>4. Truthful(cache'.age, cache'.names)
        BY <2>3 DEF KInv
    <2>5. edits' \in 0 .. MaxEdits /\ cache' \in [age : 0 .. CacheTtl, names : SUBSET KNames]
        BY <2>3 DEF KInv, KnownBadTypeOK
    <2> HIDE DEF q
    <2>6. QED
        BY <1>2, <2>1, <2>2, <2>3, <2>4, <2>5
<1>4. ASSUME NEW l \in Loaders, QueryKnownBad(l) PROVE KInv'
    <2> DEFINE q == [loader[l] EXCEPT !.at = "store", !.names = listed]
    <2>1. q \in LoaderRec /\ q.age < CacheTtl /\ q.at = "store" /\ q.names = listed
        BY DEF KInv, KnownBadTypeOK, LoaderRec
    <2>2. loader' = [loader EXCEPT ![l] = q] /\ UNCHANGED <<listed, steady, cache, edits>>
        BY <1>4 DEF QueryKnownBad
    <2>3. Truthful(cache'.age, cache'.names)
        BY <2>2 DEF KInv
    <2>4. edits' \in 0 .. MaxEdits /\ cache' \in [age : 0 .. CacheTtl, names : SUBSET KNames]
        BY <2>2 DEF KInv, KnownBadTypeOK
    <2> HIDE DEF q
    <2>5. Truthful(q.age, q.names)
        BY <2>1 DEF Truthful
    <2>6. QED
        BY <1>2, <2>1, <2>2, <2>3, <2>4, <2>5
<1>5. ASSUME NEW l \in Loaders, QueryFails(l) PROVE KInv'
    <2>1. IdleLoader \in LoaderRec /\ IdleLoader.age < CacheTtl /\ IdleLoader.at = "idle"
        BY DEF LoaderRec, IdleLoader
    <2>2. loader' = [loader EXCEPT ![l] = IdleLoader] /\ UNCHANGED <<listed, steady, cache>>
        BY <1>5 DEF QueryFails
    <2>3. Truthful(cache'.age, cache'.names)
        BY <2>2 DEF KInv
    <2>4. edits' \in 0 .. MaxEdits /\ cache' \in [age : 0 .. CacheTtl, names : SUBSET KNames]
        BY <1>5, <2>2 DEF KInv, KnownBadTypeOK, QueryFails
    <2>5. QED
        BY <1>2, <2>1, <2>2, <2>3, <2>4
<1>6. ASSUME NEW l \in Loaders, StoreKnownBad(l) PROVE KInv'
    <2> DEFINE q == [loader[l] EXCEPT !.at = "answered"]
    <2>1. q \in LoaderRec /\ q.age < CacheTtl /\ q.at = "answered" /\ q.names = loader[l].names
        BY DEF KInv, KnownBadTypeOK, LoaderRec
    <2>2. loader' = [loader EXCEPT ![l] = q] /\ UNCHANGED <<listed, steady, edits>>
        BY <1>6 DEF StoreKnownBad
    <2>3. cache' = [age |-> loader[l].age, names |-> loader[l].names]
        BY <1>6 DEF StoreKnownBad
    <2>4. edits' \in 0 .. MaxEdits /\ cache' \in [age : 0 .. CacheTtl, names : SUBSET KNames]
        BY <2>2, <2>3 DEF KInv, KnownBadTypeOK
    <2> HIDE DEF q
    <2>5. Truthful(loader[l].age, loader[l].names)
        BY <1>6 DEF KInv, StoreKnownBad
    <2>6. Truthful(cache'.age, cache'.names)
        BY <2>3, <2>5
    <2>7. \A n \in KNames : steady[n] = CacheTtl => (n \in q.names <=> n \in listed)
        BY <2>1, <2>5 DEF KInv, KnownBadTypeOK, Truthful
    <2>8. QED
        BY <1>2, <2>1, <2>2, <2>4, <2>6, <2>7
<1>7. ASSUME NEW l \in Loaders, MatchKnownBad(l) PROVE KInv'
    <2>1. IdleLoader \in LoaderRec /\ IdleLoader.age < CacheTtl /\ IdleLoader.at = "idle"
        BY DEF LoaderRec, IdleLoader
    <2>2. loader' = [loader EXCEPT ![l] = IdleLoader] /\ UNCHANGED <<listed, steady, cache, edits>>
        BY <1>7 DEF MatchKnownBad
    <2>3. Truthful(cache'.age, cache'.names)
        BY <2>2 DEF KInv
    <2>4. edits' \in 0 .. MaxEdits /\ cache' \in [age : 0 .. CacheTtl, names : SUBSET KNames]
        BY <2>2 DEF KInv, KnownBadTypeOK
    <2>5. QED
        BY <1>2, <2>1, <2>2, <2>3, <2>4
<1>8. CASE InvalidateCache
    <2>1. KnownBadTypeOK'
        BY <1>8 DEF KInv, KnownBadTypeOK, InvalidateCache, NoCache
    <2>2. Truthful(cache.age, cache.names)'
        BY <1>8 DEF KInv, KnownBadTypeOK, InvalidateCache, NoCache, Truthful
    <2>3. UNCHANGED <<listed, steady, loader>>
        BY <1>8 DEF InvalidateCache
    <2>4. QED
        BY <2>1, <2>2, <2>3 DEF KInv, Truthful, KnownBadFresh
<1>9. CASE CacheAges
    <2>1. \A n \in KNames : steady[n] \in 0 .. CacheTtl /\ steady'[n] = Aged(steady[n])
        BY <1>9 DEF KInv, KnownBadTypeOK, CacheAges
    <2>2. cache'.age = Aged(cache.age) /\ cache'.names = cache.names /\ cache.age \in 0 .. CacheTtl
          /\ cache' \in [age : 0 .. CacheTtl, names : SUBSET KNames]
        BY <1>9 DEF KInv, KnownBadTypeOK, CacheAges, Aged
    <2>3. \A l \in Loaders :
            /\ loader'[l] \in LoaderRec
            /\ loader'[l].at = loader[l].at /\ loader'[l].names = loader[l].names
            /\ loader[l].age \in 0 .. CacheTtl /\ loader'[l].age < CacheTtl
            /\ loader[l].at = "store" => loader'[l].age = Aged(loader[l].age)
            /\ loader[l].at # "answered"
        BY <1>9 DEF KInv, KnownBadTypeOK, CacheAges, Aged, LoaderRec
    <2>4. listed' = listed /\ edits' = edits
        BY <1>9 DEF CacheAges
    <2>5. KnownBadTypeOK'
        <3>1. steady' \in [KNames -> 0 .. CacheTtl]
            BY <1>9 DEF KInv, KnownBadTypeOK, CacheAges, Aged
        <3>2. loader' \in [Loaders -> LoaderRec]
            BY <1>9, <2>3 DEF CacheAges
        <3>3. QED
            BY <2>2, <2>4, <3>1, <3>2 DEF KInv, KnownBadTypeOK, LoaderRec
    <2>6. ASSUME NEW a \in 0 .. CacheTtl, NEW s \in 0 .. CacheTtl, Aged(s) > Aged(a) PROVE s > a
        BY <2>6 DEF Aged
    <2>7. Truthful(cache.age, cache.names)'
        BY <2>1, <2>2, <2>4, <2>6 DEF KInv, Truthful
    <2>8. \A l \in Loaders : (loader[l].at = "store" => Truthful(loader[l].age, loader[l].names))'
        BY <2>1, <2>3, <2>4, <2>6 DEF KInv, Truthful
    <2>9. KnownBadFresh'
        BY <2>3 DEF KnownBadFresh
    <2>10. QED
        BY <2>3, <2>5, <2>7, <2>8, <2>9 DEF KInv
<1>10. CASE UNCHANGED knownBadVars
    BY <1>10 DEF knownBadVars, KInv, KnownBadTypeOK, Truthful, KnownBadFresh
<1>11. QED
    BY <1>1, <1>3, <1>4, <1>5, <1>6, <1>7, <1>8, <1>9, <1>10 DEF KnownBadNext

\* However many threads load, store and drop the cached set, and however often the list
\* changes, an answer of load_known_bad shows every name that was listed or
\* unlisted a cache life ago.
THEOREM KnownBadAnswersFresh == KnownBadSpec => []KnownBadFresh
<1>1. KInv => KnownBadFresh
    BY DEF KInv
<1>2. QED
    BY KnownBadInitInv, KnownBadStep, <1>1, PTL DEF KnownBadSpec

-----------------------------------------------------------------------------
(* The maintainer pivot and watch                                          *)

PivotRec ==
    [at : {"idle", "commit", "resolve", "correlate", "enqueue", "watch"},
     pkg : SUBSET Catalog, strong : BOOLEAN, bad : SUBSET Catalog]

\* A worker that has committed its verdict and not yet looked at the others'.
Inquiring(w) == At(w, "resolve") \/ At(w, "correlate")

\* CampaignNoticed holds when all are idle; until then someone who committed before
\* the sweep is yet to look.
CampaignInv ==
    mfaults = 0 /\ Cardinality(convicted) >= 2 /\ sweptAge = NotSwept => \E w \in Pivoters : Inquiring(w)

MInv == MaintainersTypeOK /\ WatchBounded /\ CampaignInv

LEMMA MaintainersInitInv == MaintainersInit => MaintainersTypeOK /\ WatchBounded
BY MaintainersAssumption
   DEF MaintainersInit, MaintainersTypeOK, WatchBounded, NotSwept, NotWatched, IdlePivot

\* A step of one worker writes its own record.
PivotMoves(w) == \E q \in PivotRec : pivot' = [pivot EXCEPT ![w] = q]

LEMMA PivotTyped ==
    ASSUME MaintainersTypeOK, NEW w \in Pivoters, PivotMoves(w)
    PROVE  /\ pivot' \in [Pivoters -> PivotRec]
           /\ \A v \in Pivoters : v # w => pivot'[v] = pivot[v]
BY DEF MaintainersTypeOK, PivotMoves, PivotRec

LEMMA PivotOver ==
    ASSUME MaintainersTypeOK, NEW w \in Pivoters, Over(w)
    PROVE  PivotMoves(w)
<1>1. IdlePivot \in PivotRec
    BY DEF IdlePivot, PivotRec
<1>2. QED
    BY <1>1 DEF Over, PivotMoves

LEMMA PivotGoes ==
    ASSUME MaintainersTypeOK, NEW w \in Pivoters,
           NEW place \in {"idle", "commit", "resolve", "correlate", "enqueue", "watch"}, Go(w, place)
    PROVE  PivotMoves(w) /\ pivot'[w].at = place
<1> DEFINE q == [pivot[w] EXCEPT !.at = place]
<1>1. q \in PivotRec /\ q.at = place
    BY DEF MaintainersTypeOK, PivotRec
<1>2. pivot' = [pivot EXCEPT ![w] = q]
    BY DEF Go
<1>3. pivot'[w] = q
    BY <1>2 DEF MaintainersTypeOK
<1>4. QED
    BY <1>1, <1>2, <1>3 DEF PivotMoves

\* What each worker's step does to what the campaign is recognised by.
LEMMA PivotStep ==
    ASSUME MaintainersTypeOK, NEW w \in Pivoters,
           \/ \E p \in Catalog, strong \in BOOLEAN : Convict(w, p, strong)
           \/ CommitVerdict(w) \/ Resolve(w) \/ ResolveFails(w)
           \/ Correlate(w) \/ CorrelateFails(w)
           \/ EnqueueCatalog(w) \/ EnqueueFails(w) \/ RegisterWatches(w) \/ RegisterFails(w)
    PROVE  /\ PivotMoves(w)
           /\ sweptAge' \in {0, sweptAge}
           /\ convicted' \subseteq Catalog /\ swept' \subseteq Catalog
           /\ convictions' \in 0 .. MaxConvictions /\ mfaults' \in 0 .. MaxMFaults
           /\ mfaults' = 0 => mfaults = 0
           /\ \/ UNCHANGED watchVars
              \/ \E clean \in SUBSET Catalog :
                    /\ watch' = [c \in Catalog |-> IF c \in clean THEN 0 ELSE watch[c]]
                    /\ scanned' = [c \in Catalog |-> IF c \in clean THEN 0 ELSE scanned[c]]
                    /\ UNCHANGED <<pending, published>>
           /\ \/ Inquiring(w)'
              \/ convicted' = convicted /\ ~Inquiring(w)
              \/ mfaults' # 0
              \/ sweptAge' # NotSwept
              \/ convicted' = convicted /\ ~(Cardinality(convicted) >= 2)
<1> USE MaintainersAssumption
<1>1. CASE \E p \in Catalog, strong \in BOOLEAN : Convict(w, p, strong)
    <2>1. PICK p \in Catalog, strong \in BOOLEAN : Convict(w, p, strong)
        BY <1>1
    <2>2. [at |-> "commit", pkg |-> {p}, strong |-> strong, bad |-> {}] \in PivotRec
        BY DEF PivotRec
    <2>3. PivotMoves(w)
        BY <2>1, <2>2 DEF Convict, PivotMoves
    <2>4. ~Inquiring(w)
        BY <2>1 DEF Convict, At, Inquiring
    <2>5. QED
        BY <2>1, <2>3, <2>4 DEF Convict, MaintainersTypeOK
<1>2. CASE CommitVerdict(w)
    <2>1. PivotMoves(w) /\ pivot'[w].at = "resolve"
        BY <1>2, PivotGoes DEF CommitVerdict
    <2>2. Inquiring(w)'
        BY <2>1 DEF Inquiring, At
    <2>3. pivot[w].pkg \subseteq Catalog
        BY DEF MaintainersTypeOK
    <2>4. QED
        BY <1>2, <2>1, <2>2, <2>3 DEF CommitVerdict, MaintainersTypeOK
<1>3. CASE Resolve(w)
    <2>1. CASE sweptAge < DedupTtl /\ Over(w) /\ UNCHANGED sweptAge
        <3>1. PivotMoves(w) /\ sweptAge' # NotSwept
            BY <2>1, PivotOver DEF NotSwept, MaintainersTypeOK
        <3>2. QED
            BY <1>3, <2>1, <3>1 DEF Resolve, MaintainersTypeOK
    <2>2. CASE Over(w) /\ sweptAge' = 0
        <3>1. PivotMoves(w) /\ sweptAge' # NotSwept
            BY <2>2, PivotOver DEF NotSwept, MaintainersTypeOK
        <3>2. QED
            BY <1>3, <2>2, <3>1 DEF Resolve, MaintainersTypeOK
    <2>3. CASE Go(w, "correlate") /\ UNCHANGED sweptAge
        <3>1. PivotMoves(w) /\ pivot'[w].at = "correlate"
            BY <2>3, PivotGoes
        <3>2. Inquiring(w)'
            BY <3>1 DEF Inquiring, At
        <3>3. QED
            BY <1>3, <2>3, <3>1, <3>2 DEF Resolve, MaintainersTypeOK
    <2>4. QED
        BY <1>3, <2>1, <2>2, <2>3 DEF Resolve
<1>4. CASE ResolveFails(w)
    <2>1. PivotMoves(w)
        BY <1>4, PivotOver DEF ResolveFails
    <2>2. mfaults' # 0 /\ mfaults' \in 0 .. MaxMFaults
        BY <1>4 DEF ResolveFails, MFault, MaintainersTypeOK
    <2>3. QED
        BY <1>4, <2>1, <2>2 DEF ResolveFails, MaintainersTypeOK
<1>5. ASSUME NEW bad \in SUBSET Catalog, CorrelateWith(w, bad)
      PROVE  /\ PivotMoves(w) /\ sweptAge' \in {0, sweptAge}
             /\ sweptAge' # NotSwept \/ ~(Cardinality(bad) >= 2)
    <2>1. CASE pivot[w].strong \/ Cardinality(bad) >= 2
        <3>1. sweptAge' = 0
            BY <1>5, <2>1 DEF CorrelateWith
        <3>2. CASE shadow
            BY <1>5, <2>1, <3>1, <3>2, PivotOver DEF CorrelateWith, NotSwept
        <3>3. CASE ~shadow
            <4> DEFINE q == [pivot[w] EXCEPT !.at = "enqueue", !.bad = bad]
            <4>1. q \in PivotRec
                BY DEF MaintainersTypeOK, PivotRec
            <4>2. pivot' = [pivot EXCEPT ![w] = q]
                BY <1>5, <2>1, <3>3 DEF CorrelateWith
            <4>3. PivotMoves(w)
                BY <4>1, <4>2 DEF PivotMoves
            <4>4. QED
                BY <3>1, <4>3 DEF NotSwept
        <3>4. QED
            BY <3>2, <3>3
    <2>2. CASE ~(pivot[w].strong \/ Cardinality(bad) >= 2)
        BY <1>5, <2>2, PivotOver DEF CorrelateWith
    <2>3. QED
        BY <2>1, <2>2
<1>6. CASE Correlate(w)
    <2>1. CorrelateWith(w, convicted) /\ convicted \in SUBSET Catalog
        BY <1>6 DEF Correlate, MaintainersTypeOK
    <2>2. /\ PivotMoves(w) /\ sweptAge' \in {0, sweptAge}
          /\ sweptAge' # NotSwept \/ ~(Cardinality(convicted) >= 2)
        BY <1>5, <2>1
    <2>3. QED
        BY <1>6, <2>2 DEF Correlate, MaintainersTypeOK
<1>7. CASE CorrelateFails(w)
    <2>1. CorrelateWith(w, {})
        BY <1>7 DEF CorrelateFails
    <2>2. PivotMoves(w) /\ sweptAge' \in {0, sweptAge}
        BY <1>5, <2>1
    <2>3. mfaults' # 0 /\ mfaults' \in 0 .. MaxMFaults
        BY <1>7 DEF CorrelateFails, MFault, MaintainersTypeOK
    <2>4. QED
        BY <1>7, <2>2, <2>3 DEF CorrelateFails, MaintainersTypeOK
<1>8. CASE EnqueueCatalog(w)
    <2>1. PivotMoves(w) /\ ~Inquiring(w)
        BY <1>8, PivotGoes DEF EnqueueCatalog, At, Inquiring
    <2>2. QED
        BY <1>8, <2>1 DEF EnqueueCatalog, MaintainersTypeOK
<1>9. CASE EnqueueFails(w)
    <2>1. PivotMoves(w)
        BY <1>9, PivotOver DEF EnqueueFails
    <2>2. mfaults' # 0 /\ mfaults' \in 0 .. MaxMFaults
        BY <1>9 DEF EnqueueFails, MFault, MaintainersTypeOK
    <2>3. QED
        BY <1>9, <2>1, <2>2 DEF EnqueueFails, MaintainersTypeOK
<1>10. CASE RegisterWatches(w)
    <2>1. PivotMoves(w) /\ ~Inquiring(w)
        BY <1>10, PivotOver DEF RegisterWatches, At, Inquiring
    <2>2. \E clean \in SUBSET Catalog :
            /\ watch' = [c \in Catalog |-> IF c \in clean THEN 0 ELSE watch[c]]
            /\ scanned' = [c \in Catalog |-> IF c \in clean THEN 0 ELSE scanned[c]]
            /\ UNCHANGED <<pending, published>>
        <3> DEFINE clean == Catalog \ (pivot[w].pkg \union pivot[w].bad)
        <3>1. clean \in SUBSET Catalog
            OBVIOUS
        <3>2. QED
            BY <1>10, <3>1 DEF RegisterWatches
    <2>3. QED
        BY <1>10, <2>1, <2>2 DEF RegisterWatches, MaintainersTypeOK
<1>11. CASE RegisterFails(w)
    <2>1. PivotMoves(w)
        BY <1>11, PivotOver DEF RegisterFails
    <2>2. mfaults' # 0 /\ mfaults' \in 0 .. MaxMFaults
        BY <1>11 DEF RegisterFails, MFault, MaintainersTypeOK
    <2>3. QED
        BY <1>11, <2>1, <2>2 DEF RegisterFails, MaintainersTypeOK
<1>12. QED
    BY <1>1, <1>2, <1>3, <1>4, <1>6, <1>7, <1>8, <1>9, <1>10, <1>11

LEMMA MaintainersStep == MInv /\ [MaintainersNext]_maintainersVars => MInv'
<1> SUFFICES ASSUME MInv, [MaintainersNext]_maintainersVars PROVE MInv'
    OBVIOUS
<1> USE MaintainersAssumption
<1>1. MaintainersTypeOK /\ WatchBounded /\ CampaignInv
    BY DEF MInv
<1>2. ASSUME NEW w \in Pivoters, UNCHANGED <<prolific, shadow>>,
           \/ \E p \in Catalog, strong \in BOOLEAN : Convict(w, p, strong)
           \/ CommitVerdict(w) \/ Resolve(w) \/ ResolveFails(w)
           \/ Correlate(w) \/ CorrelateFails(w)
           \/ EnqueueCatalog(w) \/ EnqueueFails(w) \/ RegisterWatches(w) \/ RegisterFails(w)
      PROVE MInv'
    <2>1. /\ PivotMoves(w)
          /\ sweptAge' \in {0, sweptAge}
          /\ convicted' \subseteq Catalog /\ swept' \subseteq Catalog
          /\ convictions' \in 0 .. MaxConvictions /\ mfaults' \in 0 .. MaxMFaults
          /\ mfaults' = 0 => mfaults = 0
          /\ \/ UNCHANGED watchVars
             \/ \E clean \in SUBSET Catalog :
                    /\ watch' = [c \in Catalog |-> IF c \in clean THEN 0 ELSE watch[c]]
                    /\ scanned' = [c \in Catalog |-> IF c \in clean THEN 0 ELSE scanned[c]]
                    /\ UNCHANGED <<pending, published>>
          /\ \/ Inquiring(w)'
             \/ convicted' = convicted /\ ~Inquiring(w)
             \/ mfaults' # 0
             \/ sweptAge' # NotSwept
             \/ convicted' = convicted /\ ~(Cardinality(convicted) >= 2)
        BY <1>1, <1>2, PivotStep
    <2>2. /\ pivot' \in [Pivoters -> PivotRec]
          /\ \A v \in Pivoters : v # w => pivot'[v] = pivot[v]
        BY <1>1, <2>1, PivotTyped
    <2>3. /\ watch' \in [Catalog -> -1 .. WatchTtl + 1] /\ pending' \in [Catalog -> Nat]
          /\ scanned' \in [Catalog -> Nat] /\ published' = published
          /\ \A c \in Catalog : pending'[c] = pending[c] /\ scanned'[c] \in {0, scanned[c]}
        <3>1. CASE UNCHANGED watchVars
            BY <1>1, <3>1 DEF watchVars, MaintainersTypeOK
        <3>2. CASE \E clean \in SUBSET Catalog :
                    /\ watch' = [c \in Catalog |-> IF c \in clean THEN 0 ELSE watch[c]]
                    /\ scanned' = [c \in Catalog |-> IF c \in clean THEN 0 ELSE scanned[c]]
                    /\ UNCHANGED <<pending, published>>
            BY <1>1, <3>2 DEF MaintainersTypeOK
        <3>3. QED
            BY <2>1, <3>1, <3>2
    <2>4. MaintainersTypeOK'
        BY <1>1, <1>2, <2>1, <2>2, <2>3 DEF MaintainersTypeOK, PivotRec
    <2>5. WatchBounded'
        BY <1>1, <2>3 DEF WatchBounded, MaintainersTypeOK
    <2>6. CampaignInv'
        <3> SUFFICES ASSUME mfaults' = 0, Cardinality(convicted') >= 2, sweptAge' = NotSwept
                     PROVE  \E v \in Pivoters : Inquiring(v)'
            BY DEF CampaignInv, NotSwept
        <3>1. CASE Inquiring(w)'
            BY <3>1
        <3>2. CASE convicted' = convicted /\ ~Inquiring(w)
            <4>1. sweptAge = NotSwept /\ mfaults = 0
                BY <2>1 DEF NotSwept
            <4>2. PICK v \in Pivoters : Inquiring(v)
                BY <1>1, <3>2, <4>1 DEF CampaignInv
            <4>3. pivot'[v] = pivot[v]
                BY <2>2, <3>2, <4>2
            <4>4. Inquiring(v)'
                BY <4>2, <4>3 DEF Inquiring, At
            <4>5. QED
                BY <4>4
        <3>3. QED
            BY <2>1, <3>1, <3>2
    <2>7. QED
        BY <2>4, <2>5, <2>6 DEF MInv
<1>3. ASSUME NEW c \in Catalog, UNCHANGED <<prolific, shadow>>, Release(c) \/ ReleaseScanned(c) \/ PruneWatch(c)
      PROVE MInv'
    <2>1. UNCHANGED <<pivot, convicted, sweptAge, swept, convictions, mfaults>>
        BY <1>3 DEF Release, ReleaseScanned, PruneWatch
    <2>2. CampaignInv'
        BY <1>1, <2>1 DEF CampaignInv, Inquiring, At
    <2>3. MaintainersTypeOK' /\ WatchBounded'
        <3>1. CASE Release(c)
            <4>1. MaintainersTypeOK'
                BY <1>1, <1>3, <2>1, <3>1 DEF MaintainersTypeOK, Release
            <4>2. WatchBounded'
                BY <1>1, <2>1, <3>1 DEF MaintainersTypeOK, Release, WatchBounded, Watched
            <4>3. QED
                BY <4>1, <4>2
        <3>2. CASE ReleaseScanned(c)
            <4>1. MaintainersTypeOK'
                BY <1>1, <1>3, <2>1, <3>2 DEF MaintainersTypeOK, ReleaseScanned
            <4>2. WatchBounded'
                BY <1>1, <2>1, <3>2 DEF MaintainersTypeOK, ReleaseScanned, WatchBounded
            <4>3. QED
                BY <4>1, <4>2
        <3>3. CASE PruneWatch(c)
            <4>1. MaintainersTypeOK'
                BY <1>1, <1>3, <2>1, <3>3 DEF MaintainersTypeOK, PruneWatch, NotWatched
            <4>2. WatchBounded'
                BY <1>1, <2>1, <3>3 DEF MaintainersTypeOK, PruneWatch, WatchBounded
            <4>3. QED
                BY <4>1, <4>2
        <3>4. QED
            BY <1>3, <3>1, <3>2, <3>3
    <2>4. QED
        BY <2>2, <2>3 DEF MInv
<1>4. CASE UNCHANGED <<prolific, shadow>> /\ PivotTime
    <2>1. UNCHANGED <<pivot, convicted, swept, pending, scanned, published, convictions, mfaults>>
        BY <1>4 DEF PivotTime
    <2>2. sweptAge' \in 0 .. DedupTtl + 1 /\ (sweptAge' = NotSwept => sweptAge = NotSwept)
        BY <1>1, <1>4 DEF PivotTime, MaintainersTypeOK, NotSwept
    <2>3. watch' \in [Catalog -> -1 .. WatchTtl + 1]
        BY <1>1, <1>4 DEF PivotTime, MaintainersTypeOK
    <2>4. MaintainersTypeOK'
        BY <1>1, <1>4, <2>1, <2>2, <2>3 DEF MaintainersTypeOK
    <2>5. WatchBounded'
        BY <1>1, <2>1 DEF WatchBounded
    <2>6. CampaignInv'
        BY <1>1, <2>1, <2>2 DEF CampaignInv, Inquiring, At, NotSwept
    <2>7. QED
        BY <2>4, <2>5, <2>6 DEF MInv
<1>5. CASE UNCHANGED maintainersVars
    BY <1>1, <1>5 DEF maintainersVars, MInv, MaintainersTypeOK, WatchBounded, CampaignInv, Inquiring, At, NotSwept
<1>6. QED
    BY <1>2, <1>3, <1>4, <1>5 DEF MaintainersNext

LEMMA MaintainersInvariant == MaintainersSpec => []MInv
<1>1. MaintainersInit => MInv
    <2> SUFFICES ASSUME MaintainersInit PROVE MInv
        OBVIOUS
    <2>1. ~(Cardinality(convicted) >= 2)
        BY FS_EmptySet DEF MaintainersInit
    <2>2. QED
        BY <2>1, MaintainersInitInv DEF MInv, CampaignInv
<1>2. QED
    BY <1>1, MaintainersStep, PTL DEF MaintainersSpec

\* Two workers that convict a package of the same maintainer each, in any order of their
\* commits and queries, never both conclude that theirs is the only one: without
\* a failed fetch or transaction the catalog is swept (or found too large).
THEOREM CampaignsNoticed == MaintainersSpec => []CampaignNoticed
<1>1. MInv => CampaignNoticed
    BY DEF MInv, CampaignInv, CampaignNoticed, Inquiring, At
<1>2. QED
    BY <1>1, MaintainersInvariant, PTL

\* The scans that the watch of a package forces stay within the releases configured and
\* those let in while earlier ones still waited, whatever prunes and renews it.
THEOREM WatchesBounded == MaintainersSpec => []WatchBounded
<1>1. MInv => WatchBounded
    BY DEF MInv
<1>2. QED
    BY <1>1, MaintainersInvariant, PTL

-----------------------------------------------------------------------------
(* The focus list                                                          *)

\* The pin that upsert_focus stores is the row's own or that of a line of the file.
LEMMA UpsertedPin ==
    ASSUME NEW f \in FocusFiles, NEW e, NEW list, NEW n \in FocusNames
    PROVE  \/ /\ UpsertFocus(list, f, e)[n] = list[n]
              /\ \A i \in EntryLines(f, e) : f.lines[i].name # n
           \/ \E i \in EntryLines(f, e) : f.lines[i].name = n /\ UpsertFocus(list, f, e)[n] = PinAt(f, i)
<1> DEFINE lines == {i \in EntryLines(f, e) : f.lines[i].name = n}
<1>1. UpsertFocus(list, f, e)[n] = IF lines = {} THEN list[n] ELSE PinAt(f, Max(lines))
    BY DEF UpsertFocus
<1>2. CASE lines = {}
    BY <1>1, <1>2
<1>3. CASE lines # {}
    <2>1. Len(f.lines) \in Nat /\ lines \in SUBSET (1 .. Len(f.lines))
        BY FocusAssumption DEF EntryLines
    <2>4. lines \in SUBSET (0 .. Len(f.lines))
        BY <2>1
    <2>2. Max(lines) \in lines
        <3> HIDE DEF lines
        <3>1. QED
            BY <1>3, <2>1, <2>4, MaxOfNaturals
    <2>3. QED
        BY <1>1, <1>3, <2>2
<1>4. QED
    BY <1>2, <1>3

LEMMA PinIsListed == \A f, i : PinAt(f, i) # Unlisted
BY DEF PinAt, FloorVersion, NoPin, Unlisted, Wildcard

LoadRec == [busy : BOOLEAN, file : FocusFiles \union {NoFile}, enqueuePinned : BOOLEAN]
AllKeys == {Key(e, n) : e \in FocusEcos, n \in FocusNames}

FocusFrame ==
    /\ loading \in [FLoaders -> LoadRec]
    /\ polled \in [FocusEcos -> SUBSET FocusNames]
    /\ focusNames \in [FocusEcos -> SUBSET AllKeys]

\* Only a file that parsed is on its way into the list.
ParsedInv == \A l \in FLoaders : loading[l].busy => loading[l].file \in FocusFiles /\ ~Malformed(loading[l].file)

\* What the pollers and the feeds hold was on the list when they read it.
ListedInv ==
    /\ \A e \in FocusEcos, n \in FocusNames : flist[e][n] # Unlisted => <<e, n>> \in listedEver
    /\ \A e \in FocusEcos : \A n \in polled[e] : <<e, n>> \in listedEver
    /\ \A e \in FocusEcos : \A k \in focusNames[e] :
        \E n \in FocusNames : <<e, n>> \in listedEver /\ Key(e, n) = k

FInv == FocusFrame /\ ParsedInv /\ ListedInv /\ FocusHonoured

LEMMA FocusInitInv == FocusInit => FInv
<1> SUFFICES ASSUME FocusInit PROVE FInv
    OBVIOUS
<1>1. FocusFrame /\ ParsedInv
    BY DEF FocusInit, FocusFrame, ParsedInv, LoadRec, IdleLoad
<1>2. \A e \in FocusEcos, n \in FocusNames : flist[e][n] = Unlisted
    BY DEF FocusInit, Emptied
<1>3. ListedInv
    BY <1>2 DEF FocusInit, ListedInv
<1>4. PinsQueued
    BY <1>2 DEF PinsQueued, Unlisted
<1>5. ExclusiveKept
    BY DEF FocusInit, ExclusiveKept
<1>6. QED
    BY <1>1, <1>3, <1>4, <1>5 DEF FInv, FocusHonoured

\* Of what the exclusive mode lets in, more is remembered, never less.
LEMMA ExclusiveGrows ==
    ASSUME ExclusiveKept, fexclusive' = fexclusive, listedEver \subseteq listedEver',
           \A q \in fqueue' \ fqueue : fexclusive => \E n \in FocusNames :
                <<q[1], n>> \in listedEver' /\ (Key(q[1], n) = Key(q[1], q[2]) \/ ProxyPath(q[1], n) = q[2])
    PROVE  ExclusiveKept'
BY DEF ExclusiveKept, Key

LEMMA FocusLoadCommits ==
    ASSUME FInv, NEW l \in FLoaders, CommitLoad(l)
    PROVE  FInv'
<1>1. PICK f \in FocusFiles : f = loading[l].file /\ ~Malformed(f)
    BY DEF CommitLoad, FInv, ParsedInv
<1>2. flist' = Applied(f)
    BY <1>1 DEF CommitLoad
<1>3. /\ fqueue \union PinsOf(f) \subseteq fqueue' \union excused'
      /\ fqueue \subseteq fqueue' /\ excused \subseteq excused' /\ fqueue' \subseteq fqueue \union PinsOf(f)
    BY <1>1 DEF CommitLoad
<1>4. UNCHANGED <<fexclusive, polled, focusNames>>
    BY DEF CommitLoad
<1>5. listedEver' = listedEver \union {p \in FocusEcos \X FocusNames : flist'[p[1]][p[2]] # Unlisted}
    BY DEF CommitLoad, Remember
<1>6. /\ listedEver \subseteq listedEver'
      /\ \A e \in FocusEcos, n \in FocusNames : flist'[e][n] # Unlisted => <<e, n>> \in listedEver'
    BY <1>5
<1>7. FocusFrame' /\ ParsedInv'
    <2>1. IdleLoad \in LoadRec /\ ~IdleLoad.busy
        BY DEF IdleLoad, LoadRec
    <2>2. loading' = [loading EXCEPT ![l] = IdleLoad]
        BY DEF CommitLoad
    <2>3. \A m \in FLoaders : loading'[m] = IF m = l THEN IdleLoad ELSE loading[m]
        BY <2>2 DEF FInv, FocusFrame
    <2>4. QED
        BY <1>4, <2>1, <2>2, <2>3 DEF FInv, FocusFrame, ParsedInv
<1>8. ASSUME NEW e \in FocusEcos, NEW n \in FocusNames
      PROVE  \/ flist'[e][n] \in {flist[e][n], Unlisted}
             \/ /\ e \in Sections(f)
                /\ \E i \in EntryLines(f, e) : f.lines[i].name = n /\ flist'[e][n] = PinAt(f, i)
    <2>1. flist'[e] = IF e \notin Sections(f) THEN flist[e]
                      ELSE IF f.flat = "" THEN UpsertFocus(Emptied, f, e) ELSE UpsertFocus(flist[e], f, e)
        BY <1>2 DEF Applied, SyncFocus
    <2>2. Emptied[n] = Unlisted
        BY DEF Emptied
    <2>3. CASE e \notin Sections(f)
        BY <2>1, <2>3
    <2>4. CASE e \in Sections(f) /\ f.flat = ""
        <3>1. flist'[e] = UpsertFocus(Emptied, f, e)
            BY <2>1, <2>4
        <3>2. \/ UpsertFocus(Emptied, f, e)[n] = Emptied[n]
              \/ \E i \in EntryLines(f, e) : f.lines[i].name = n /\ UpsertFocus(Emptied, f, e)[n] = PinAt(f, i)
            BY UpsertedPin
        <3>3. QED
            BY <2>2, <2>4, <3>1, <3>2
    <2>5. CASE e \in Sections(f) /\ f.flat # ""
        <3>1. PICK list : list = flist[e]
            OBVIOUS
        <3>2. flist'[e] = UpsertFocus(list, f, e)
            BY <2>1, <2>5, <3>1
        <3>3. \/ UpsertFocus(list, f, e)[n] = list[n]
              \/ \E i \in EntryLines(f, e) : f.lines[i].name = n /\ UpsertFocus(list, f, e)[n] = PinAt(f, i)
            BY UpsertedPin
        <3>4. QED
            BY <2>5, <3>1, <3>2, <3>3
    <2>6. QED
        BY <2>3, <2>4, <2>5
<1>9. ASSUME NEW e \in Sections(f) \intersect FocusEcos, NEW i \in EntryLines(f, e)
      PROVE  f.lines[i].name \in FocusNames /\ flist'[e][f.lines[i].name] # Unlisted
    <2>1. PICK n \in FocusNames : n = f.lines[i].name
        BY <1>9, FocusAssumption DEF EntryLines, IsHeader
    <2>2. \E list : flist'[e] = UpsertFocus(list, f, e)
        BY <1>2, <1>9 DEF Applied, SyncFocus
    <2>3. PICK list : flist'[e] = UpsertFocus(list, f, e)
        BY <2>2
    <2>4. \E j \in EntryLines(f, e) : flist'[e][n] = PinAt(f, j)
        BY <1>9, <2>1, <2>3, UpsertedPin
    <2>5. QED
        BY <2>1, <2>4, PinIsListed
<1>10. ListedInv'
    <2>1. \A e \in FocusEcos : (\A n \in polled[e] : <<e, n>> \in listedEver)'
        BY <1>4, <1>6 DEF FInv, ListedInv
    <2>2. \A e \in FocusEcos : (\A k \in focusNames[e] :
            \E n \in FocusNames : <<e, n>> \in listedEver /\ Key(e, n) = k)'
        BY <1>4, <1>6 DEF FInv, ListedInv, Key
    <2>3. QED
        BY <1>6, <2>1, <2>2 DEF ListedInv
<1>11. PinsQueued'
    <2> SUFFICES ASSUME NEW e \in FocusEcos, NEW n \in FocusNames, flist'[e][n] \in 1 .. Newest
                 PROVE  <<e, n, flist'[e][n]>> \in fqueue' \union excused'
        BY DEF PinsQueued
    <2>1. CASE flist'[e][n] = flist[e][n]
        BY <1>3, <2>1 DEF FInv, FocusHonoured, PinsQueued
    <2>2. CASE flist'[e][n] = Unlisted
        BY <2>2 DEF Unlisted
    <2>3. ASSUME e \in Sections(f), NEW i \in EntryLines(f, e), f.lines[i].name = n, flist'[e][n] = PinAt(f, i)
          PROVE  <<e, n, flist'[e][n]>> \in PinsOf(f)
        <3>1. PinAt(f, i) # NoPin
            BY <2>3 DEF NoPin
        <3>2. QED
            BY <2>3, <3>1 DEF PinsOf
    <2>4. QED
        BY <1>3, <1>8, <2>1, <2>2, <2>3
<1>12. ExclusiveKept'
    <2>1. ASSUME NEW q \in fqueue' \ fqueue
          PROVE  \E n \in FocusNames : <<q[1], n>> \in listedEver' /\ Key(q[1], n) = Key(q[1], q[2])
        <3>1. q \in PinsOf(f)
            BY <1>3
        <3>2. PICK e \in Sections(f) : \E i \in EntryLines(f, e) : q = <<e, f.lines[i].name, PinAt(f, i)>>
            BY <3>1 DEF PinsOf
        <3> PICK i \in EntryLines(f, e) : q = <<e, f.lines[i].name, PinAt(f, i)>>
            BY <3>2
        <3>3. e \in FocusEcos
            BY <1>1 DEF Malformed, EntryLines
        <3>4. f.lines[i].name \in FocusNames /\ <<e, f.lines[i].name>> \in listedEver'
            BY <1>6, <1>9, <3>3
        <3>5. q[1] = e /\ q[2] = f.lines[i].name
            OBVIOUS
        <3>6. QED
            BY <3>4, <3>5
    <2>2. ExclusiveKept
        BY DEF FInv, FocusHonoured
    <2>3. QED
        BY <1>4, <1>6, <2>1, <2>2, ExclusiveGrows
<1>13. QED
    BY <1>7, <1>10, <1>11, <1>12 DEF FInv, FocusHonoured

LEMMA FocusStep == FInv /\ [FocusNext]_focusVars => FInv'
<1> SUFFICES ASSUME FInv, [FocusNext]_focusVars PROVE FInv'
    OBVIOUS
<1>0. FocusFrame /\ ParsedInv /\ ListedInv /\ PinsQueued /\ ExclusiveKept
    BY DEF FInv, FocusHonoured
<1>1. ASSUME NEW l \in FLoaders, NEW f \in FocusFiles, NEW enqueuePinned \in BOOLEAN, BeginLoad(l, f, enqueuePinned)
      PROVE FInv'
    <2> DEFINE q == [busy |-> TRUE, file |-> f, enqueuePinned |-> enqueuePinned]
    <2>1. q \in LoadRec /\ q.file = f
        BY DEF LoadRec
    <2>2. UNCHANGED <<fexclusive, flist, fqueue, excused, listedEver, polled, focusNames>>
        BY <1>1 DEF BeginLoad
    <2>3. CASE Malformed(f)
        <3>1. loading' = loading
            BY <1>1, <2>3 DEF BeginLoad
        <3>2. QED
            BY <1>0, <2>2, <3>1
               DEF FInv, FocusFrame, ParsedInv, ListedInv, FocusHonoured, PinsQueued, ExclusiveKept
    <2>4. CASE ~Malformed(f)
        <3>1. loading' = [loading EXCEPT ![l] = q]
            BY <1>1, <2>4 DEF BeginLoad
        <3> HIDE DEF q
        <3>2. \A m \in FLoaders : loading'[m] = IF m = l THEN q ELSE loading[m]
            BY <1>0, <3>1 DEF FocusFrame
        <3>3. FocusFrame' /\ ParsedInv'
            BY <1>0, <2>1, <2>2, <2>4, <3>1, <3>2 DEF FocusFrame, ParsedInv
        <3>4. QED
            BY <1>0, <2>2, <3>3 DEF FInv, ListedInv, FocusHonoured, PinsQueued, ExclusiveKept
    <2>5. QED
        BY <2>3, <2>4
<1>2. ASSUME NEW l \in FLoaders, loading' = [loading EXCEPT ![l] = IdleLoad],
             UNCHANGED <<fexclusive, flist, fqueue, excused, listedEver>>,
             \A e \in FocusEcos : polled'[e] \subseteq polled[e] /\ focusNames'[e] \subseteq focusNames[e],
             polled' \in [FocusEcos -> SUBSET FocusNames], focusNames' \in [FocusEcos -> SUBSET AllKeys]
      PROVE FInv'
    <2>1. IdleLoad \in LoadRec /\ ~IdleLoad.busy
        BY DEF IdleLoad, LoadRec
    <2>2. \A m \in FLoaders : loading'[m] = IF m = l THEN IdleLoad ELSE loading[m]
        BY <1>0, <1>2 DEF FocusFrame
    <2>3. FocusFrame' /\ ParsedInv'
        BY <1>0, <1>2, <2>1, <2>2 DEF FocusFrame, ParsedInv
    <2>4. ListedInv'
        BY <1>0, <1>2 DEF ListedInv
    <2>5. QED
        BY <1>0, <1>2, <2>3, <2>4 DEF FInv, FocusHonoured, PinsQueued, ExclusiveKept
<1>3. ASSUME NEW l \in FLoaders, LoadFails(l) PROVE FInv'
    BY <1>0, <1>2, <1>3 DEF LoadFails, FocusFrame
<1>4. CASE FocusRestart
    <2>1. /\ loading' = [loading EXCEPT !["boot"] = IdleLoad] /\ "boot" \in FLoaders
          /\ UNCHANGED <<fexclusive, flist, fqueue, excused, listedEver>>
          /\ \A e \in FocusEcos : polled'[e] \subseteq polled[e] /\ focusNames'[e] \subseteq focusNames[e]
          /\ polled' \in [FocusEcos -> SUBSET FocusNames] /\ focusNames' \in [FocusEcos -> SUBSET AllKeys]
        BY <1>4 DEF FocusRestart, FLoaders
    <2>2. QED
        BY <1>2, <2>1
<1>5. ASSUME NEW ecos, ClearFocus(ecos) PROVE FInv'
    <2>1. UNCHANGED <<fexclusive, loading, fqueue, excused, listedEver, polled, focusNames>>
        BY <1>5 DEF ClearFocus
    <2>2. \A e \in FocusEcos, n \in FocusNames : flist'[e][n] \in {flist[e][n], Unlisted}
        BY <1>5 DEF ClearFocus, Emptied
    <2>3. FocusFrame' /\ ParsedInv'
        BY <1>0, <2>1 DEF FocusFrame, ParsedInv
    <2>4. ListedInv'
        BY <1>0, <2>1, <2>2 DEF ListedInv
    <2>5. PinsQueued'
        BY <1>0, <2>1, <2>2 DEF PinsQueued, Unlisted
    <2>6. QED
        BY <1>0, <2>1, <2>3, <2>4, <2>5 DEF FInv, FocusHonoured, ExclusiveKept
<1>6. ASSUME NEW e \in FocusEcos, ReadFocusNames(e) PROVE FInv'
    <2>1. UNCHANGED <<fexclusive, flist, loading, fqueue, excused, listedEver, focusNames>>
        BY <1>6 DEF ReadFocusNames
    <2>2. polled' = [polled EXCEPT ![e] = NamesOf(e)] /\ NamesOf(e) \in SUBSET FocusNames
        BY <1>6 DEF ReadFocusNames, NamesOf
    <2>3. \A d \in FocusEcos : polled'[d] = IF d = e THEN NamesOf(e) ELSE polled[d]
        BY <1>0, <2>2 DEF FocusFrame
    <2>4. FocusFrame' /\ ParsedInv'
        BY <1>0, <2>1, <2>2 DEF FocusFrame, ParsedInv
    <2>5. ListedInv'
        BY <1>0, <2>1, <2>3 DEF ListedInv, NamesOf
    <2>6. QED
        BY <1>0, <2>1, <2>4, <2>5 DEF FInv, FocusHonoured, PinsQueued, ExclusiveKept
<1>7. ASSUME NEW e \in FocusEcos, NEW n \in FocusNames, NEW resolved \in BOOLEAN, EnqueueLatest(e, n, resolved)
      PROVE FInv'
    <2>1. UNCHANGED <<fexclusive, flist, loading, excused, listedEver, focusNames>>
        BY <1>7 DEF EnqueueLatest
    <2>2. \A d \in FocusEcos : polled'[d] \subseteq polled[d]
        BY <1>0, <1>7 DEF EnqueueLatest, FocusFrame
    <2>3. FocusFrame' /\ ParsedInv'
        BY <1>0, <1>7, <2>1 DEF EnqueueLatest, FocusFrame, ParsedInv
    <2>4. ListedInv'
        BY <1>0, <2>1, <2>2 DEF ListedInv
    <2>5. fqueue \subseteq fqueue' /\ fqueue' \subseteq fqueue \union {<<e, ProxyPath(e, n), Newest>>}
        BY <1>7 DEF EnqueueLatest
    <2>6. PinsQueued'
        BY <1>0, <2>1, <2>5 DEF PinsQueued
    <2>7. <<e, n>> \in listedEver
        BY <1>0, <1>7 DEF EnqueueLatest, ListedInv
    <2>8. \A q \in fqueue' \ fqueue : <<q[1], n>> \in listedEver' /\ ProxyPath(q[1], n) = q[2]
        BY <2>1, <2>5, <2>7
    <2>9. ExclusiveKept'
        BY <1>0, <2>1, <2>8, ExclusiveGrows
    <2>10. QED
        BY <2>3, <2>4, <2>6, <2>9 DEF FInv, FocusHonoured
<1>8. ASSUME NEW e \in FocusEcos, LoadFocusNames(e) PROVE FInv'
    <2> DEFINE keys == {Key(e, n) : n \in NamesOf(e)}
    <2>1. UNCHANGED <<fexclusive, flist, loading, fqueue, excused, listedEver, polled>>
        BY <1>8 DEF LoadFocusNames
    <2>2. focusNames' = [focusNames EXCEPT ![e] = keys]
        BY <1>8 DEF LoadFocusNames
    <2>3. keys \in SUBSET AllKeys
        BY DEF AllKeys, NamesOf
    <2>4. \A k \in keys : \E n \in FocusNames : <<e, n>> \in listedEver /\ Key(e, n) = k
        BY <1>0 DEF ListedInv, NamesOf
    <2> HIDE DEF keys
    <2>5. \A d \in FocusEcos : focusNames'[d] = IF d = e THEN keys ELSE focusNames[d]
        BY <1>0, <2>2 DEF FocusFrame
    <2>6. FocusFrame' /\ ParsedInv'
        BY <1>0, <2>1, <2>2, <2>3 DEF FocusFrame, ParsedInv
    <2>7. ListedInv'
        BY <1>0, <2>1, <2>4, <2>5 DEF ListedInv
    <2>8. QED
        BY <1>0, <2>1, <2>6, <2>7 DEF FInv, FocusHonoured, PinsQueued, ExclusiveKept
<1>9. ASSUME NEW e \in FocusEcos, NEW n \in FocusNames, GateRelease(e, n) PROVE FInv'
    <2>1. UNCHANGED <<fexclusive, flist, loading, excused, listedEver, polled, focusNames>>
        BY <1>9 DEF GateRelease
    <2>2. fqueue' = fqueue \union {<<e, n, Newest>>}
        BY <1>9 DEF GateRelease
    <2>3. FocusFrame' /\ ParsedInv' /\ ListedInv'
        BY <1>0, <2>1 DEF FocusFrame, ParsedInv, ListedInv
    <2>4. PinsQueued'
        BY <1>0, <2>1, <2>2 DEF PinsQueued
    <2>5. \A q \in fqueue' \ fqueue : q[1] = e /\ q[2] = n
        BY <2>2
    <2>6. fexclusive => \E m \in FocusNames : <<e, m>> \in listedEver /\ Key(e, m) = Key(e, n)
        BY <1>0, <1>9 DEF GateRelease, Admits, ListedInv
    <2>7. \A q \in fqueue' \ fqueue : fexclusive => \E m \in FocusNames :
            <<q[1], m>> \in listedEver' /\ (Key(q[1], m) = Key(q[1], q[2]) \/ ProxyPath(q[1], m) = q[2])
        BY <2>1, <2>5, <2>6
    <2>8. ExclusiveKept'
        BY <1>0, <2>1, <2>7, ExclusiveGrows
    <2>9. QED
        BY <2>3, <2>4, <2>8 DEF FInv, FocusHonoured
<1>10. CASE UNCHANGED focusVars
    <2>1. UNCHANGED <<fexclusive, flist, loading, fqueue, excused, listedEver, polled, focusNames>>
        BY <1>10 DEF focusVars
    <2>2. QED
        BY <1>0, <2>1 DEF FInv, FocusFrame, ParsedInv, ListedInv, FocusHonoured, PinsQueued, ExclusiveKept
<1>11. QED
    BY <1>1, <1>3, <1>4, <1>5, <1>6, <1>7, <1>8, <1>9, <1>10, FocusLoadCommits DEF FocusNext

\* Whatever loads overlap, fail or are cut off by a restart, a version the operator pins is
\* in the scan queue once its row is committed, or was kept out by a lock or the operator;
\* and in exclusive mode the pollers and the gate enqueue only what was on the list, even
\* when they act on a list that has been replaced since.
THEOREM FocusAlwaysHonoured == FocusSpec => []FocusHonoured
<1>1. FInv => FocusHonoured
    BY DEF FInv
<1>2. QED
    BY FocusInitInv, FocusStep, <1>1, PTL DEF FocusSpec

-----------------------------------------------------------------------------
(* The automatic watchlist                                                 *)

Inserting == {w \in Promoters : promoter[w] # NoName}
Staying == Autos \ Picked
Restarted == AddsPerHour * wrestarts
\* What earlier restarts may have left over the cap, until the janitor has looked again.
Leftover == IF Picked = {} THEN 2 * Restarted ELSE 0

WFrame ==
    /\ rows \in [WNames -> Row]
    /\ promoter \in [Promoters -> WNames \union {NoName}]
    /\ recentAdds \in 0 .. AddsPerHour /\ wrestarts \in Nat

\* Every insert under way has its slot; the rows that stay are within the cap and the slots
\* used since the janitor last looked; what it has picked is what was over the cap.
AutoInv ==
    /\ Picked \subseteq Autos
    /\ Cardinality(Inserting) <= recentAdds
    /\ Cardinality(Staying) + Cardinality(Inserting) <= AutoCap + recentAdds + Leftover
    /\ Cardinality(Picked) <= AddsPerHour + 2 * Restarted

WInv == WFrame /\ AutoInv

\* Every set counted here is finite.
LEMMA Counts ==
    /\ \A S \in SUBSET WNames : IsFiniteSet(S) /\ Cardinality(S) \in Nat
    /\ \A S \in SUBSET Promoters : IsFiniteSet(S) /\ Cardinality(S) \in Nat
    /\ \A S, T \in SUBSET WNames : S \subseteq T => Cardinality(S) <= Cardinality(T)
    /\ AddsPerHour \in Nat /\ AutoCap \in Nat /\ RowTtl \in Nat
<1>1. \A S \in SUBSET WNames : IsFiniteSet(S) /\ Cardinality(S) \in Nat
    BY WatchlistAssumption, FS_Subset, FS_CardinalityType
<1>2. \A S \in SUBSET Promoters : IsFiniteSet(S) /\ Cardinality(S) \in Nat
    BY WatchlistAssumption, FS_Subset, FS_CardinalityType
<1>3. ASSUME NEW S \in SUBSET WNames, NEW T \in SUBSET WNames, S \subseteq T
      PROVE  Cardinality(S) <= Cardinality(T)
    BY <1>1, <1>3, FS_Subset
<1>4. QED
    BY <1>1, <1>2, <1>3, WatchlistAssumption

LEMMA WatchSets ==
    /\ Autos \in SUBSET WNames /\ Picked \in SUBSET WNames /\ Staying \in SUBSET WNames
    /\ Inserting \in SUBSET Promoters
BY DEF Autos, OfRank, Picked, Staying, Inserting

LEMMA RestartedNat == WFrame => Restarted \in Nat
BY Counts DEF WFrame, Restarted

LEMMA WInvBounds == WInv => AutoListBounded
<1> SUFFICES ASSUME WInv PROVE AutoListBounded
    OBVIOUS
<1>1. AddsPerHour * (1 + 2 * wrestarts) = AddsPerHour + 2 * Restarted
    BY Counts DEF WInv, WFrame, Restarted
<1>2. Restarted \in Nat /\ Cardinality(Inserting) \in Nat /\ Cardinality(Staying) \in Nat
    BY Counts, WatchSets, RestartedNat DEF WInv
<1>3. Cardinality(Staying) <= AutoCap + AddsPerHour + 2 * Restarted
    BY <1>2, Counts DEF WInv, WFrame, AutoInv, Leftover
<1>4. QED
    BY <1>1, <1>2, <1>3, Counts DEF AutoListBounded, Staying

\* A step that leaves the slots alone and adds no sentinel row.
LEMMA WatchShrinks ==
    ASSUME WInv, UNCHANGED <<promoter, recentAdds, wrestarts>>, rows' \in [WNames -> Row],
           Picked' \subseteq Autos', Cardinality(Staying') <= Cardinality(Staying),
           Cardinality(Picked') <= Cardinality(Picked)
    PROVE  WInv'
<1>1. WFrame'
    BY DEF WInv, WFrame
<1>2. Inserting' = Inserting /\ Restarted' = Restarted
    BY DEF Inserting, Restarted
<1>3. /\ Cardinality(Inserting) \in Nat /\ Cardinality(Staying) \in Nat /\ Cardinality(Picked) \in Nat
      /\ Restarted \in Nat
    BY Counts, WatchSets, RestartedNat DEF WInv
<1>4. Cardinality(Staying') \in Nat /\ Cardinality(Picked') \in Nat /\ IsFiniteSet(Picked')
    <2>1. Staying' \in SUBSET WNames /\ Picked' \in SUBSET WNames
        BY DEF Staying, Autos, OfRank, Picked
    <2>2. QED
        BY <2>1, Counts
<1>5. Picked = {} => Picked' = {}
    <2> SUFFICES ASSUME Picked = {} PROVE Picked' = {}
        OBVIOUS
    <2>1. Cardinality(Picked) = 0
        BY FS_EmptySet
    <2>2. Cardinality(Picked') = 0
        BY <1>4, <2>1
    <2>3. QED
        BY <1>4, <2>2, FS_EmptySet
<1>6. Leftover' >= Leftover /\ Leftover \in Nat /\ Leftover' \in Nat
    BY <1>2, <1>3, <1>5 DEF Leftover
<1>7. AutoInv'
    BY <1>2, <1>3, <1>4, <1>6, Counts DEF WInv, WFrame, AutoInv
<1>8. QED
    BY <1>1, <1>7 DEF WInv

\* The same, when each row is what it was, or gone, or a ranked one.
LEMMA WatchThins ==
    ASSUME WInv, UNCHANGED <<promoter, recentAdds, wrestarts>>, rows' \in [WNames -> Row],
           \A n \in WNames : \/ rows'[n].rank = rows[n].rank /\ rows'[n].picked = rows[n].picked
                             \/ rows'[n].rank # "auto" /\ rows'[n].picked = FALSE
    PROVE  WInv'
<1>1. Picked' \subseteq Autos' /\ Staying' \subseteq Staying /\ Picked' \subseteq Picked
    BY DEF WInv, AutoInv, Picked, Autos, OfRank, Staying
<1>2. Staying \in SUBSET WNames /\ Picked \in SUBSET WNames
    BY WatchSets
<1>3. Cardinality(Staying') <= Cardinality(Staying) /\ Cardinality(Picked') <= Cardinality(Picked)
    BY <1>1, <1>2, Counts
<1>4. QED
    BY <1>1, <1>3, WatchShrinks

LEMMA WatchIdle ==
    ASSUME WInv, UNCHANGED <<rows, promoter, recentAdds, wrestarts>>
    PROVE  WInv'
BY DEF WInv, WFrame, AutoInv, Inserting, Staying, Restarted, Leftover, Picked, Autos, OfRank

LEMMA AddConfirmedStep ==
    ASSUME WInv, NEW w \in Promoters, NEW n \in WNames, AddConfirmed(w, n)
    PROVE  WInv'
<1>1. CASE rows[n].rank = "auto" /\ rows' = [rows EXCEPT ![n].age = 0] /\ UNCHANGED <<recentAdds, promoter>>
    <2>1. rows' \in [WNames -> Row]
        BY <1>1, Counts DEF WInv, WFrame, Row
    <2>2. \A m \in WNames : rows'[m].rank = rows[m].rank /\ rows'[m].picked = rows[m].picked
        BY <1>1 DEF WInv, WFrame, Row
    <2>3. QED
        BY <1>1, <2>1, <2>2, WatchThins DEF AddConfirmed
<1>2. CASE /\ recentAdds < AddsPerHour /\ recentAdds' = recentAdds + 1
           /\ promoter' = [promoter EXCEPT ![w] = n] /\ UNCHANGED rows
    <2>1. WFrame' /\ wrestarts' = wrestarts
        BY <1>2, Counts DEF WInv, WFrame, AddConfirmed
    <2>2. Inserting' \subseteq Inserting \union {w}
        BY <1>2 DEF Inserting, WInv, WFrame
    <2>3. /\ Inserting \in SUBSET Promoters /\ IsFiniteSet(Inserting) /\ Cardinality(Inserting) \in Nat
          /\ Inserting' \in SUBSET Promoters /\ Cardinality(Inserting') \in Nat
        BY <2>2, WatchSets, Counts
    <2>4. Cardinality(Inserting \union {w}) <= Cardinality(Inserting) + 1 /\ IsFiniteSet(Inserting \union {w})
        <3>1. /\ IsFiniteSet(Inserting \union {w})
              /\ Cardinality(Inserting \union {w}) = IF w \in Inserting THEN Cardinality(Inserting) ELSE Cardinality(Inserting) + 1
            BY <2>3, FS_AddElement
        <3>2. QED
            BY <2>3, <3>1
    <2>5. Cardinality(Inserting \union {w}) \in Nat
        BY <2>4, FS_CardinalityType
    <2>6. Cardinality(Inserting') <= Cardinality(Inserting \union {w})
        BY <2>2, <2>4, FS_Subset
    <2>7. Staying' = Staying /\ Picked' = Picked /\ Autos' = Autos /\ Leftover' = Leftover /\ Restarted' = Restarted
        BY <1>2, <2>1 DEF Staying, Picked, Autos, OfRank, Leftover, Restarted
    <2>8. Cardinality(Staying) \in Nat /\ Cardinality(Picked) \in Nat /\ Leftover \in Nat
        BY Counts, WatchSets, RestartedNat DEF WInv, Leftover
    <2>9. AutoInv'
        BY <1>2, <2>3, <2>4, <2>5, <2>6, <2>7, <2>8, Counts DEF WInv, WFrame, AutoInv
    <2>10. QED
        BY <2>1, <2>9 DEF WInv
<1>3. QED
    BY <1>1, <1>2 DEF AddConfirmed

LEMMA InsertConfirmedStep ==
    ASSUME WInv, NEW w \in Promoters, InsertConfirmed(w) \/ PromoteFails(w)
    PROVE  WInv'
<1>1. promoter[w] # NoName /\ promoter' = [promoter EXCEPT ![w] = NoName] /\ UNCHANGED <<recentAdds, wrestarts>>
    BY DEF InsertConfirmed, PromoteFails
<1>2. PICK n \in WNames : n = promoter[w]
    BY <1>1 DEF WInv, WFrame
<1>3. Inserting' = Inserting \ {w} /\ w \in Inserting
    BY <1>1 DEF Inserting, WInv, WFrame
<1>4. IsFiniteSet(Inserting) /\ Cardinality(Inserting) \in Nat
    BY WatchSets, Counts
<1>5. Cardinality(Inserting') = Cardinality(Inserting) - 1
    BY <1>3, <1>4, FS_RemoveElement
<1>6. rows' = rows \/ (rows[n].rank = "none" /\ rows' = [rows EXCEPT ![n] = SentinelRow])
    BY <1>2 DEF InsertConfirmed, PromoteFails
<1>7. SentinelRow \in Row /\ SentinelRow.rank = "auto" /\ SentinelRow.picked = FALSE
    BY Counts DEF SentinelRow, Row
<1>8. WFrame'
    BY <1>1, <1>6, <1>7 DEF WInv, WFrame
<1>9. Picked' = Picked /\ Staying' \subseteq Staying \union {n} /\ Picked' \subseteq Autos'
    <2>1. CASE rows' = rows
        BY <2>1 DEF WInv, AutoInv, Picked, Staying, Autos, OfRank
    <2>2. CASE rows[n].rank = "none" /\ rows' = [rows EXCEPT ![n] = SentinelRow]
        <3>1. \A m \in WNames : rows'[m] = IF m = n THEN SentinelRow ELSE rows[m]
            BY <2>2 DEF WInv, WFrame
        <3>2. n \notin Picked
            BY <2>2 DEF WInv, AutoInv, Autos, OfRank
        <3>3. QED
            BY <1>7, <3>1, <3>2 DEF WInv, AutoInv, Picked, Staying, Autos, OfRank
    <2>3. QED
        BY <1>6, <2>1, <2>2
<1>10. Leftover' = Leftover /\ Restarted' = Restarted
    BY <1>1, <1>9 DEF Leftover, Restarted
<1>11. Cardinality(Staying') \in Nat /\ Cardinality(Staying) \in Nat /\ Cardinality(Staying') <= Cardinality(Staying) + 1
    <2>1. Staying \in SUBSET WNames /\ Staying' \in SUBSET WNames /\ IsFiniteSet(Staying)
        BY <1>9, WatchSets, Counts
    <2>2. Cardinality(Staying \union {n}) <= Cardinality(Staying) + 1
        BY <2>1, Counts, FS_AddElement
    <2>3. Cardinality(Staying') <= Cardinality(Staying \union {n}) /\ Cardinality(Staying \union {n}) \in Nat
        BY <1>9, <2>1, WatchSets, Counts
    <2>4. QED
        BY <2>1, <2>2, <2>3, Counts
<1>12. Leftover \in Nat
    BY RestartedNat DEF WInv, Leftover
<1>13. AutoInv'
    BY <1>1, <1>4, <1>5, <1>9, <1>10, <1>11, <1>12, Counts DEF WInv, WFrame, AutoInv
<1>14. QED
    BY <1>8, <1>13 DEF WInv

LEMMA JanitorReadsStep ==
    ASSUME WInv, JanitorReads
    PROVE  WInv'
<1> DEFINE kept == {n \in Autos : ~Expired(n)}
           excess == Cardinality(kept) - AutoCap
<1>1. Picked = {} /\ recentAdds' = Cardinality(Inserting) /\ UNCHANGED <<promoter, wrestarts>>
    BY DEF JanitorReads, Inserting
<1>2. PICK ids \in SUBSET kept :
        /\ Cardinality(ids) = (IF excess > 0 THEN excess ELSE 0)
        /\ rows' = [n \in WNames |-> IF Expired(n) THEN NoRow ELSE [Older[n] EXCEPT !.picked = n \in ids]]
    BY DEF JanitorReads
<1>3. kept \in SUBSET WNames /\ kept \subseteq Autos /\ ids \in SUBSET WNames
    BY WatchSets
<1>4. \A n \in kept : n \in Autos /\ ~Expired(n)
    OBVIOUS
<1>5. \A n \in WNames : n \in Autos /\ ~Expired(n) => n \in kept
    OBVIOUS
<1>6. \A n \in WNames : Older[n] \in Row /\ Older[n].rank = rows[n].rank /\ Older[n].age \in 0 .. RowTtl + 1
    BY Counts DEF Older, WInv, WFrame, Row
<1>7. ASSUME NEW n \in WNames
      PROVE  /\ rows'[n] \in Row
             /\ Expired(n) => rows'[n].rank = "none" /\ rows'[n].picked = FALSE
             /\ ~Expired(n) => rows'[n].rank = rows[n].rank /\ rows'[n].picked = (n \in ids)
    <2>1. CASE Expired(n)
        BY <1>2, <2>1, Counts DEF NoRow, Row
    <2>2. CASE ~Expired(n)
        <3>1. rows'[n] = [Older[n] EXCEPT !.picked = n \in ids]
            BY <1>2, <2>2
        <3>2. (n \in ids) \in BOOLEAN
            OBVIOUS
        <3>3. QED
            BY <1>6, <2>2, <3>1, <3>2 DEF Row
    <2>3. QED
        BY <2>1, <2>2
<1> HIDE DEF kept, excess
<1>8. Autos' = kept /\ Picked' = ids
    <2>1. \A n \in WNames : n \in Autos <=> rows[n].rank = "auto"
        BY DEF Autos, OfRank
    <2>2. \A n \in WNames : n \in Autos' <=> rows'[n].rank = "auto"
        BY DEF Autos, OfRank
    <2>3. Autos' \subseteq WNames /\ Picked' \subseteq WNames
        BY DEF Autos, OfRank, Picked
    <2>4. Autos' = kept
        BY <1>3, <1>4, <1>5, <1>7, <2>1, <2>2, <2>3
    <2>5. \A n \in WNames : n \in Picked' <=> rows'[n].picked
        BY DEF Picked
    <2>6. Picked' = ids
        BY <1>2, <1>3, <1>4, <1>7, <2>3, <2>5
    <2>7. QED
        BY <2>4, <2>6
<1>9. rows' \in [WNames -> Row]
    BY <1>2, <1>7
<1>10. /\ Cardinality(Inserting) \in Nat /\ Cardinality(kept) \in Nat /\ Cardinality(ids) \in Nat
       /\ Restarted \in Nat /\ Cardinality(Autos) \in Nat /\ Cardinality(kept) <= Cardinality(Autos)
       /\ Cardinality(Staying) = Cardinality(Autos)
    <2>1. Staying = Autos
        BY <1>1 DEF Staying
    <2>2. QED
        BY <1>3, <2>1, WatchSets, Counts, RestartedNat DEF WInv
<1>11. Cardinality(Autos) <= AutoCap + AddsPerHour + 2 * Restarted
    BY <1>1, <1>10, Counts DEF WInv, WFrame, AutoInv, Leftover
<1>12. Cardinality(ids) <= AddsPerHour + 2 * Restarted
    BY <1>2, <1>10, <1>11, Counts DEF excess
<1>13. Cardinality(kept \ ids) <= AutoCap /\ Cardinality(kept \ ids) \in Nat
    <2>1. IsFiniteSet(kept)
        BY <1>3, Counts
    <2>2. kept \intersect ids = ids
        BY <1>2
    <2>3. Cardinality(kept \ ids) = Cardinality(kept) - Cardinality(ids)
        BY <2>1, <2>2, FS_Difference
    <2>4. kept \ ids \in SUBSET WNames
        BY <1>3
    <2>5. Cardinality(kept \ ids) \in Nat
        BY <2>4, Counts
    <2>6. QED
        BY <1>2, <1>10, <2>3, <2>5, Counts DEF excess
<1>14. Staying' = kept \ ids /\ Inserting' = Inserting /\ Restarted' = Restarted
    BY <1>1, <1>8 DEF Staying, Inserting, Restarted
<1>15. Leftover' \in Nat
    BY <1>10, <1>14 DEF Leftover
<1>16. WFrame'
    <2>1. Cardinality(Inserting) <= AddsPerHour
        BY <1>10, Counts DEF WInv, WFrame, AutoInv
    <2>2. QED
        BY <1>1, <1>9, <1>10, <2>1, Counts DEF WInv, WFrame
<1>17. AutoInv'
    BY <1>1, <1>2, <1>8, <1>10, <1>12, <1>13, <1>14, <1>15, Counts DEF AutoInv
<1>18. QED
    BY <1>16, <1>17 DEF WInv

\* A restart puts the picked rows back, and the slots of the hour are free.
LEMMA WProcessDiesStep ==
    ASSUME WInv, WProcessDies
    PROVE  WInv'
<1>1. /\ recentAdds' = 0 /\ promoter' = [w \in Promoters |-> NoName] /\ wrestarts' = wrestarts + 1
      /\ rows' = [n \in WNames |-> [rows[n] EXCEPT !.picked = FALSE]]
    BY DEF WProcessDies
<1>2. rows' \in [WNames -> Row] /\ \A n \in WNames : rows'[n].rank = rows[n].rank /\ rows'[n].picked = FALSE
    BY <1>1 DEF WInv, WFrame, Row
<1>3. WFrame'
    BY <1>1, <1>2, Counts DEF WInv, WFrame
<1>4. Inserting' = {} /\ Picked' = {} /\ Autos' = Autos
    BY <1>1, <1>2 DEF Inserting, Picked, Autos, OfRank
<1>5. Restarted' = Restarted + AddsPerHour /\ Restarted \in Nat /\ Restarted' \in Nat
    BY <1>1, <1>3, RestartedNat, Counts DEF WInv, WFrame, Restarted
<1>6. Leftover' = 2 * Restarted' /\ Staying' = Autos
    BY <1>4 DEF Leftover, Staying
<1>7. /\ Cardinality(Staying) \in Nat /\ Cardinality(Picked) \in Nat /\ Cardinality(Autos) \in Nat
      /\ Cardinality(Inserting) \in Nat
      /\ Cardinality(Autos) = Cardinality(Staying) + Cardinality(Picked)
    <2>1. IsFiniteSet(Autos) /\ Autos \intersect Picked = Picked
        BY WatchSets, Counts DEF WInv, AutoInv
    <2>2. Cardinality(Staying) = Cardinality(Autos) - Cardinality(Picked)
        BY <2>1, FS_Difference DEF Staying
    <2>3. QED
        BY <2>2, WatchSets, Counts
<1>8. Cardinality(Autos) <= AutoCap + 2 * Restarted'
    <2>1. CASE Picked = {}
        <3>1. Cardinality(Picked) = 0
            BY <2>1, FS_EmptySet
        <3>2. QED
            BY <1>5, <1>7, <2>1, <3>1, Counts DEF WInv, WFrame, AutoInv, Leftover
    <2>2. CASE Picked # {}
        BY <1>5, <1>7, <2>2, Counts DEF WInv, WFrame, AutoInv, Leftover
    <2>3. QED
        BY <2>1, <2>2
<1>9. AutoInv'
    <2>1. Cardinality({}) = 0
        BY FS_EmptySet
    <2>2. QED
        BY <1>1, <1>4, <1>5, <1>6, <1>7, <1>8, <2>1, Counts DEF AutoInv
<1>10. QED
    BY <1>3, <1>9 DEF WInv

\* The rows that Go's seeding moves: no two end up as one and count as two.
LEMMA RenamedCounts ==
    ASSUME NEW moved \in SUBSET WNames, NEW S \in SUBSET WNames, NEW T \in SUBSET WNames,
           \A n \in T : n \notin moved,
           \A n \in T : n \in S \/ \E m \in moved \intersect S : Canonical(m) = n
    PROVE  Cardinality(T) <= Cardinality(S)
<1> DEFINE g == [n \in T |-> IF n \in S THEN n ELSE CHOOSE m \in moved \intersect S : Canonical(m) = n]
<1>1. \A n \in T : g[n] \in S /\ (n \notin S => g[n] \in moved /\ Canonical(g[n]) = n) /\ (n \in S => g[n] = n)
    OBVIOUS
<1>2. g \in [T -> S]
    BY <1>1
<1> HIDE DEF g
<1>3. \A a, b \in T : g[a] = g[b] => a = b
    BY <1>1
<1>4. g \in Injection(T, S)
    BY <1>2, <1>3 DEF Injection, IsInjective
<1>5. QED
    BY <1>4, Counts, FS_Injection

LEMMA SeedFlushesGoStep ==
    ASSUME WInv, seeding \subseteq WNames, NEW answer \in [seeding -> Answers], SeedFlushesGo(answer)
    PROVE  WInv'
<1>1. PICK moved \in SUBSET WNames : rows' = Renamed(moved)
    <2> DEFINE moved == {n \in DropPseudo(answer) : Canonical(n) # n /\ rows[n].rank # "none"}
    <2>1. moved \in SUBSET WNames
        BY DEF DropPseudo
    <2>2. rows' = Renamed(moved)
        BY DEF SeedFlushesGo
    <2>3. QED
        BY <2>1, <2>2
<1>2. \A n \in WNames : \/ rows'[n] = NoRow /\ n \in moved
                        \/ n \notin moved /\ rows'[n] = rows[n]
                        \/ n \notin moved /\ \E m \in moved : Canonical(m) = n /\ rows'[n] = rows[m]
    BY <1>1 DEF Renamed
<1>3. NoRow \in Row /\ NoRow.rank = "none" /\ NoRow.picked = FALSE
    BY Counts DEF NoRow, Row
<1>4. rows' \in [WNames -> Row]
    <2>1. \A n \in WNames : rows'[n] \in Row
        BY <1>1, <1>2, <1>3 DEF WInv, WFrame
    <2>2. QED
        BY <1>1, <2>1 DEF Renamed
<1>5. ASSUME NEW n \in WNames, rows'[n].rank = "auto" \/ rows'[n].picked
      PROVE  /\ n \notin moved
             /\ \/ rows'[n] = rows[n]
                \/ \E m \in moved : Canonical(m) = n /\ rows'[n] = rows[m]
    BY <1>2, <1>3, <1>5
<1>6. \A n \in WNames : rows[n].picked => rows[n].rank = "auto"
    BY DEF WInv, AutoInv, Picked, Autos, OfRank
<1>7. Picked' \subseteq Autos'
    BY <1>1, <1>5, <1>6 DEF Picked, Autos, OfRank
<1>8. \A n \in Staying' : n \in WNames /\ rows'[n].rank = "auto" /\ ~rows'[n].picked
    BY DEF Staying, Autos, OfRank, Picked
<1>9. \A n \in WNames : rows[n].rank = "auto" /\ ~rows[n].picked => n \in Staying
    BY DEF Staying, Autos, OfRank, Picked
<1>10. Cardinality(Staying') <= Cardinality(Staying)
    <2>1. /\ \A n \in Staying' : n \notin moved
          /\ \A n \in Staying' : n \in Staying \/ \E m \in moved \intersect Staying : Canonical(m) = n
        BY <1>1, <1>5, <1>8, <1>9
    <2>2. Staying' \in SUBSET WNames /\ Staying \in SUBSET WNames
        BY <1>8, WatchSets
    <2>3. QED
        BY <1>1, <2>1, <2>2, RenamedCounts
<1>11. Cardinality(Picked') <= Cardinality(Picked)
    <2>1. \A n \in Picked' : n \in WNames /\ rows'[n].picked
        BY DEF Picked
    <2>2. \A n \in WNames : rows[n].picked => n \in Picked
        BY DEF Picked
    <2>3. /\ \A n \in Picked' : n \notin moved
          /\ \A n \in Picked' : n \in Picked \/ \E m \in moved \intersect Picked : Canonical(m) = n
        BY <1>1, <1>5, <2>1, <2>2
    <2>4. Picked' \in SUBSET WNames /\ Picked \in SUBSET WNames
        BY <2>1, WatchSets
    <2>5. QED
        BY <1>1, <2>3, <2>4, RenamedCounts
<1>12. UNCHANGED <<promoter, recentAdds, wrestarts>>
    BY DEF SeedFlushesGo
<1>13. QED
    BY <1>4, <1>7, <1>10, <1>11, <1>12, WatchShrinks

\* A refresh and the deletes take rows away or make them ranked ones.
LEMMA RefreshStep ==
    ASSUME WInv, UNCHANGED <<promoter, recentAdds, wrestarts>>,
           \/ rows' = rows
           \/ \E top : rows' = Rebuild(top)
           \/ \E S : rows' = Drop(S)
    PROVE  WInv'
<1>1. NoRow \in Row /\ NoRow.rank # "auto" /\ NoRow.picked = FALSE
    BY Counts DEF NoRow, Row
<1>2. PopularRow \in Row /\ PopularRow.rank # "auto" /\ PopularRow.picked = FALSE
    BY Counts DEF PopularRow, Row
<1>3. CASE rows' = rows
    BY <1>3, WatchIdle
<1>4. ASSUME rows' # rows
      PROVE  /\ rows' \in [WNames -> Row]
             /\ \A n \in WNames : rows'[n] = rows[n] \/ rows'[n] = NoRow \/ rows'[n] = PopularRow
    <2>1. CASE \E top : rows' = Rebuild(top)
        BY <1>1, <1>2, <1>4, <2>1 DEF Rebuild, WInv, WFrame
    <2>2. CASE \E S : rows' = Drop(S)
        BY <1>1, <2>2 DEF Drop, WInv, WFrame
    <2>3. QED
        BY <1>4, <2>1, <2>2
<1>5. CASE rows' # rows
    <2>1. \A n \in WNames : \/ rows'[n].rank = rows[n].rank /\ rows'[n].picked = rows[n].picked
                            \/ rows'[n].rank # "auto" /\ rows'[n].picked = FALSE
        BY <1>1, <1>2, <1>4, <1>5
    <2>2. QED
        BY <1>4, <1>5, <2>1, WatchThins
<1>6. QED
    BY <1>3, <1>5

\* Only listed names are resolved.
SeedsListed == seeding \subseteq WNames

LEMMA SeedsListedStep == SeedsListed /\ [WatchlistNext]_watchlistVars => SeedsListed'
<1> SUFFICES ASSUME SeedsListed, [WatchlistNext]_watchlistVars PROVE SeedsListed'
    OBVIOUS
<1>1. OnList \subseteq WNames
    BY DEF OnList, Autos, OfRank
<1>2. CASE PollWatchlist \/ SeedMissing
    BY <1>1, <1>2 DEF PollWatchlist, SeedMissing, Seeds, SeedsListed
<1>3. CASE ~(PollWatchlist \/ SeedMissing)
    <2>1. seeding' = seeding \/ seeding' = {}
        BY <1>3 DEF WatchlistNext, watchlistVars, InsertConfirmed, PromoteFails, AddConfirmed, JanitorReads, JanitorDeletes,
            RemoveAuto, RefreshPypi, RefreshCrates, RefreshNpm, RefreshGomod, Refreshes, SeedFlushes, SeedFlushesGo,
            WProcessDies
    <2>2. QED
        BY <2>1 DEF SeedsListed
<1>4. QED
    BY <1>2, <1>3

LEMMA WatchlistStep == WInv /\ SeedsListed /\ [WatchlistNext]_watchlistVars => WInv'
<1> SUFFICES ASSUME WInv, SeedsListed, [WatchlistNext]_watchlistVars PROVE WInv'
    OBVIOUS
<1>1. ASSUME NEW w \in Promoters,
             InsertConfirmed(w) \/ PromoteFails(w) \/ \E n \in WNames : AddConfirmed(w, n)
      PROVE WInv'
    BY <1>1, InsertConfirmedStep, AddConfirmedStep
<1>2. CASE JanitorDeletes \/ \E n \in WNames : RemoveAuto(n)
    BY <1>2, RefreshStep DEF JanitorDeletes, RemoveAuto
<1>3. ASSUME NEW one, NEW other,
             RefreshPypi(one) \/ RefreshCrates(one, other) \/ RefreshNpm(one, other) \/ RefreshGomod(one, other)
      PROVE WInv'
    <2>1. UNCHANGED <<promoter, recentAdds, wrestarts>>
        BY <1>3 DEF RefreshPypi, RefreshCrates, RefreshNpm, RefreshGomod, Refreshes
    <2>2. rows' = rows \/ \E top : rows' = Rebuild(top)
        BY <1>3 DEF RefreshPypi, RefreshCrates, RefreshNpm, RefreshGomod
    <2>3. QED
        BY <2>1, <2>2, RefreshStep
<1>4. CASE PollWatchlist \/ SeedMissing \/ \E resolved \in SUBSET seeding : SeedFlushes(resolved)
    BY <1>4, WatchIdle DEF PollWatchlist, SeedMissing, Seeds, SeedFlushes
<1>5. CASE UNCHANGED watchlistVars
    BY <1>5, WatchIdle DEF watchlistVars
<1>6. CASE \E one \in TopLists :
        \/ RefreshPypi(one)
        \/ \E other \in TopLists : RefreshCrates(one, other) \/ RefreshNpm(one, other) \/ RefreshGomod(one, other)
    BY <1>3, <1>6
<1>7. CASE \E answer \in [seeding -> Answers] : SeedFlushesGo(answer)
    BY <1>7, SeedFlushesGoStep DEF SeedsListed
<1>8. QED
    BY <1>1, <1>2, <1>4, <1>5, <1>6, <1>7, JanitorReadsStep, WProcessDiesStep DEF WatchlistNext

LEMMA WatchlistInitInv == WatchlistInit => WInv
<1> SUFFICES ASSUME WatchlistInit PROVE WInv
    OBVIOUS
<1>1. NoRow \in Row /\ NoRow.rank = "none" /\ NoRow.picked = FALSE
    BY Counts DEF NoRow, Row
<1>2. WFrame
    BY <1>1, Counts DEF WatchlistInit, WFrame
<1>3. Inserting = {} /\ Picked = {} /\ Staying = {}
    BY <1>1 DEF WatchlistInit, Inserting, Picked, Staying, Autos, OfRank
<1>4. Restarted \in Nat /\ Leftover \in Nat
    BY <1>2, RestartedNat DEF Leftover
<1>5. AutoInv
    BY <1>2, <1>3, <1>4, FS_EmptySet, Counts DEF AutoInv, WFrame
<1>6. QED
    BY <1>2, <1>5 DEF WInv

\* The hourly slots and the hourly cap together bound the sentinel rows that stay, for every
\* number of workers, whatever refreshes, renames and deletes happen in between;
\* each restart adds at most two hours' worth of slots.
THEOREM AutoListStaysBounded == WatchlistSpec => []AutoListBounded
<1>1. WatchlistInit => SeedsListed
    BY DEF WatchlistInit, SeedsListed
<1>2. QED
    BY WatchlistInitInv, SeedsListedStep, WatchlistStep, WInvBounds, <1>1, PTL DEF WatchlistSpec

\* The step that takes a sentinel row away, and its reason.
StaysListedStep ==
    \A n \in Autos : n \notin Autos' =>
        Expired(n) \/ n \in Picked \/ RemoveAuto(n) \/ (registry = "gomod" /\ Canonical(n) # n)

LEMMA StaysListed == WFrame /\ [WatchlistNext]_watchlistVars => StaysListedStep
<1> SUFFICES ASSUME WFrame, [WatchlistNext]_watchlistVars, NEW n \in Autos, n \notin Autos'
             PROVE  Expired(n) \/ n \in Picked \/ RemoveAuto(n) \/ (registry = "gomod" /\ Canonical(n) # n)
    BY DEF StaysListedStep
<1>1. n \in WNames /\ rows[n].rank = "auto" /\ rows'[n].rank # "auto" /\ rows' # rows
    BY DEF Autos, OfRank
<1>2. ASSUME NEW w \in Promoters, NEW m \in WNames, AddConfirmed(w, m) PROVE FALSE
    BY <1>1, <1>2 DEF AddConfirmed, WFrame, Row
<1>3. ASSUME NEW w \in Promoters, InsertConfirmed(w) PROVE FALSE
    BY <1>1, <1>3 DEF InsertConfirmed, WFrame, SentinelRow
<1>4. CASE JanitorReads
    <2>1. SUFFICES ASSUME ~Expired(n) PROVE FALSE
        OBVIOUS
    <2>2. PICK ids : rows' = [m \in WNames |-> IF Expired(m) THEN NoRow ELSE [Older[m] EXCEPT !.picked = m \in ids]]
        BY <1>4 DEF JanitorReads
    <2>3. rows'[n] = [Older[n] EXCEPT !.picked = n \in ids]
        BY <1>1, <2>1, <2>2
    <2>4. Older[n].rank = rows[n].rank /\ Older[n] \in Row
        BY <1>1, Counts DEF Older, WFrame, Row
    <2>5. rows'[n].rank = rows[n].rank
        BY <2>3, <2>4 DEF Row
    <2>6. QED
        BY <1>1, <2>5
<1>5. CASE JanitorDeletes
    BY <1>1, <1>5 DEF JanitorDeletes, Drop
<1>6. ASSUME NEW m \in WNames, RemoveAuto(m) PROVE RemoveAuto(n)
    <2>1. n = m
        BY <1>1, <1>6 DEF RemoveAuto, Drop
    <2>2. QED
        BY <1>6, <2>1
<1>7. ASSUME NEW top, rows' = Rebuild(top) PROVE FALSE
    BY <1>1, <1>7 DEF Rebuild
<1>8. ASSUME NEW one, NEW other,
             RefreshPypi(one) \/ RefreshCrates(one, other) \/ RefreshNpm(one, other) \/ RefreshGomod(one, other)
      PROVE  FALSE
    BY <1>1, <1>7, <1>8 DEF RefreshPypi, RefreshCrates, RefreshNpm, RefreshGomod
<1>9. ASSUME NEW answer, SeedFlushesGo(answer) PROVE registry = "gomod" /\ Canonical(n) # n
    <2>1. PICK moved : /\ \A m \in moved : Canonical(m) # m
                       /\ rows' = Renamed(moved) /\ registry = "gomod"
        <3> DEFINE moved == {m \in DropPseudo(answer) : Canonical(m) # m /\ rows[m].rank # "none"}
        <3>1. \A m \in moved : Canonical(m) # m
            OBVIOUS
        <3>2. rows' = Renamed(moved) /\ registry = "gomod"
            BY <1>9 DEF SeedFlushesGo
        <3>3. QED
            BY <3>1, <3>2
    <2>2. n \in moved
        BY <1>1, <2>1 DEF Renamed
    <2>3. QED
        BY <2>1, <2>2
<1>10. CASE WProcessDies
    BY <1>1, <1>10 DEF WProcessDies, WFrame, Row
<1>11. CASE \/ \E w \in Promoters : PromoteFails(w)
            \/ PollWatchlist \/ SeedMissing \/ (\E resolved \in SUBSET seeding : SeedFlushes(resolved))
            \/ UNCHANGED watchlistVars
    BY <1>1, <1>11 DEF PromoteFails, PollWatchlist, SeedMissing, Seeds, SeedFlushes, watchlistVars
<1>12. QED
    BY <1>2, <1>3, <1>4, <1>5, <1>6, <1>8, <1>9, <1>10, <1>11 DEF WatchlistNext

\* Neither a popularity refresh, nor a restart, nor a promotion that races with another
\* takes a confirmed name off the list: only its age, the cap, the operator, or for Go the
\* move to its canonical path.
THEOREM ConfirmedNamesStay == WatchlistSpec => ConfirmedStaysListed
<1>1. WInv => WFrame
    BY DEF WInv
<1>2. WatchlistInit => SeedsListed
    BY DEF WatchlistInit, SeedsListed
<1>3. WFrame /\ [WatchlistNext]_watchlistVars => [StaysListedStep]_watchlistVars
    BY StaysListed
<1>4. WatchlistSpec => [][StaysListedStep]_watchlistVars
    BY WatchlistInitInv, SeedsListedStep, WatchlistStep, <1>1, <1>2, <1>3, PTL DEF WatchlistSpec
<1>5. QED
    BY <1>4 DEF ConfirmedStaysListed, StaysListedStep

-----------------------------------------------------------------------------
(* The types of the parts                                                  *)

LEMMA KnownBadTypeCorrect == KnownBadSpec => []KnownBadTypeOK
<1>1. KInv => KnownBadTypeOK
    BY DEF KInv
<1>2. QED
    BY KnownBadInitInv, KnownBadStep, <1>1, PTL DEF KnownBadSpec

LEMMA MaintainersTypeCorrect == MaintainersSpec => []MaintainersTypeOK
<1>1. MInv => MaintainersTypeOK
    BY DEF MInv
<1>2. QED
    BY <1>1, MaintainersInvariant, PTL

\* What WInv leaves out of the watchlist's state.
WCounted ==
    /\ registry \in Registries /\ seeded \subseteq WNames /\ seeding \subseteq WNames
    /\ refreshes \in 0 .. MaxRefreshes /\ seedings \in 0 .. MaxSeedings /\ wrestarts \in 0 .. MaxWRestarts

LEMMA WCountedSteps == WCounted /\ [WatchlistNext]_watchlistVars => WCounted'
<1> SUFFICES ASSUME WCounted, [WatchlistNext]_watchlistVars PROVE WCounted'
    OBVIOUS
<1>0. {MaxRefreshes, MaxSeedings, MaxWRestarts} \subseteq Nat
    BY WatchlistAssumption
<1>1. ASSUME UNCHANGED <<registry, seeded, seeding, refreshes, seedings, wrestarts>> PROVE WCounted'
    BY <1>1 DEF WCounted
<1>2. ASSUME NEW w \in Promoters, InsertConfirmed(w) \/ PromoteFails(w) \/ \E n \in WNames : AddConfirmed(w, n)
      PROVE  WCounted'
    BY <1>1, <1>2 DEF InsertConfirmed, PromoteFails, AddConfirmed
<1>3. CASE JanitorReads \/ JanitorDeletes \/ \E n \in WNames : RemoveAuto(n)
    BY <1>1, <1>3 DEF JanitorReads, JanitorDeletes, RemoveAuto
<1>4. ASSUME NEW r, Refreshes(r) PROVE WCounted'
    BY <1>0, <1>4 DEF Refreshes, WCounted
<1>5. ASSUME NEW one, NEW other,
             RefreshPypi(one) \/ RefreshCrates(one, other) \/ RefreshNpm(one, other) \/ RefreshGomod(one, other)
      PROVE  WCounted'
    BY <1>4, <1>5 DEF RefreshPypi, RefreshCrates, RefreshNpm, RefreshGomod
<1>6. ASSUME NEW names \in SUBSET WNames, Seeds(names) PROVE WCounted'
    BY <1>0, <1>6 DEF Seeds, WCounted
<1>7. CASE PollWatchlist \/ SeedMissing
    <2>1. OnList \in SUBSET WNames /\ OnList \ seeded \in SUBSET WNames
        BY DEF OnList, Autos, OfRank
    <2>2. QED
        BY <1>6, <1>7, <2>1 DEF PollWatchlist, SeedMissing
<1>8. ASSUME NEW resolved \in SUBSET seeding, SeedFlushes(resolved) PROVE WCounted'
    BY <1>8 DEF SeedFlushes, WCounted
<1>9. ASSUME NEW answer \in [seeding -> Answers], SeedFlushesGo(answer) PROVE WCounted'
    <2>1. DropPseudo(answer) \subseteq WNames /\ Unscannable(answer) \subseteq WNames
        BY DEF DropPseudo, Unscannable, WCounted
    <2>2. {Canonical(n) : n \in DropPseudo(answer)} \subseteq WNames
        BY <2>1, WatchlistAssumption
    <2>3. QED
        BY <1>9, <2>1, <2>2 DEF SeedFlushesGo, WCounted
<1>10. CASE WProcessDies
    BY <1>0, <1>10 DEF WProcessDies, WCounted
<1>11. CASE UNCHANGED watchlistVars
    BY <1>1, <1>11 DEF watchlistVars
<1>12. QED
    BY <1>2, <1>3, <1>5, <1>7, <1>8, <1>9, <1>10, <1>11 DEF WatchlistNext

LEMMA WatchlistTypeCorrect == WatchlistSpec => []WatchlistTypeOK
<1>1. WatchlistInit => WCounted /\ SeedsListed
    BY WatchlistAssumption DEF WatchlistInit, WCounted, SeedsListed
<1>2. WInv /\ WCounted => WatchlistTypeOK
    <2> SUFFICES ASSUME WInv, WCounted PROVE WatchlistTypeOK
        OBVIOUS
    <2>1. recentAdds \in Nat
        BY WatchlistAssumption DEF WInv, WFrame
    <2>2. QED
        BY <2>1 DEF WInv, WFrame, WCounted, WatchlistTypeOK
<1>3. QED
    BY <1>1, <1>2, WatchlistInitInv, SeedsListedStep, WatchlistStep, WCountedSteps, PTL DEF WatchlistSpec

Pins == {Unlisted} \union 0 .. Newest
Rows3 == FocusEcos \X FocusNames \X (1 .. Newest)

\* What FInv leaves out of the state of the focus list.
FocusKept ==
    /\ fexclusive \in BOOLEAN
    /\ flist \in [FocusEcos -> [FocusNames -> Pins]]
    /\ fqueue \subseteq Rows3 /\ excused \subseteq Rows3
    /\ listedEver \subseteq FocusEcos \X FocusNames
    /\ focusNames \in [FocusEcos -> SUBSET FocusNames]
    /\ loads \in 0 .. MaxLoads /\ frestarts \in 0 .. MaxFRestarts

LEMMA FocusBounds == MaxLoads \in Nat /\ MaxFRestarts \in Nat /\ Newest \in Nat \ {0}
BY FocusAssumption, Zenon

\* A line pins a version there is, or none.
LEMMA PinTyped ==
    ASSUME NEW f \in FocusFiles, NEW e, NEW i \in EntryLines(f, e)
    PROVE  PinAt(f, i) \in 0 .. Newest /\ f.lines[i].name \in FocusNames
<1> DEFINE bounds == f.lines[i].bounds
<1>1. i \in DOMAIN f.lines /\ f.lines[i].head = ""
    BY DEF EntryLines, IsHeader
<1>2. bounds \in Seq({Wildcard} \union 1 .. Newest) /\ f.lines[i].name \in FocusNames /\ Newest \in Nat
    BY <1>1, FocusAssumption
<1> HIDE DEF bounds
<1>3. CASE bounds = <<>> \/ Head(bounds) = Wildcard
    BY <1>2, <1>3 DEF PinAt, FloorVersion, NoPin, bounds
<1>4. CASE ~(bounds = <<>> \/ Head(bounds) = Wildcard)
    <2>1. Head(bounds) \in {Wildcard} \union 1 .. Newest
        BY <1>2, <1>4
    <2>2. PinAt(f, i) = Head(bounds)
        BY <1>4 DEF PinAt, FloorVersion, bounds
    <2>3. QED
        BY <1>2, <1>4, <2>1, <2>2
<1>5. QED
    BY <1>3, <1>4

LEMMA PinsTyped ==
    ASSUME NEW f \in FocusFiles, ~Malformed(f)
    PROVE  PinsOf(f) \subseteq Rows3
<1> SUFFICES ASSUME NEW q \in PinsOf(f) PROVE q \in Rows3
    OBVIOUS
<1>1. PICK e \in Sections(f) : \E i \in EntryLines(f, e) : PinAt(f, i) # NoPin /\ q = <<e, f.lines[i].name, PinAt(f, i)>>
    BY DEF PinsOf
<1> PICK i \in EntryLines(f, e) : PinAt(f, i) # NoPin /\ q = <<e, f.lines[i].name, PinAt(f, i)>>
    BY <1>1
<1>2. e \in FocusEcos
    BY DEF Malformed, EntryLines
<1>3. PinAt(f, i) \in 0 .. Newest /\ f.lines[i].name \in FocusNames
    BY PinTyped
<1>4. PinAt(f, i) \in 1 .. Newest
    BY <1>3 DEF NoPin
<1>5. QED
    BY <1>2, <1>3, <1>4 DEF Rows3

LEMMA UpsertTyped ==
    ASSUME NEW f \in FocusFiles, NEW e, NEW list \in [FocusNames -> Pins]
    PROVE  UpsertFocus(list, f, e) \in [FocusNames -> Pins]
<1>1. ASSUME NEW n \in FocusNames PROVE UpsertFocus(list, f, e)[n] \in Pins
    <2>1. \/ UpsertFocus(list, f, e)[n] = list[n]
          \/ \E i \in EntryLines(f, e) : UpsertFocus(list, f, e)[n] = PinAt(f, i)
        BY UpsertedPin
    <2>2. \A i \in EntryLines(f, e) : PinAt(f, i) \in Pins
        BY PinTyped DEF Pins
    <2>3. QED
        BY <2>1, <2>2
<1>2. \E F : UpsertFocus(list, f, e) = [n \in FocusNames |-> F[n]]
    <2>1. UpsertFocus(list, f, e) = [n \in FocusNames |-> UpsertFocus(list, f, e)[n]]
        BY DEF UpsertFocus
    <2>2. QED
        BY <2>1
<1>3. QED
    BY <1>1, <1>2

LEMMA FocusKeptSteps == FInv /\ FocusKept /\ [FocusNext]_focusVars => FocusKept'
<1> SUFFICES ASSUME FInv, FocusKept, [FocusNext]_focusVars PROVE FocusKept'
    OBVIOUS
<1>0. MaxLoads \in Nat /\ MaxFRestarts \in Nat /\ Newest \in 1 .. Newest
    BY FocusBounds
<1>1. Emptied \in [FocusNames -> Pins]
    BY DEF Emptied, Pins
<1>2. ASSUME NEW l \in FLoaders, NEW f \in FocusFiles, NEW enqueuePinned \in BOOLEAN, BeginLoad(l, f, enqueuePinned)
      PROVE  FocusKept'
    <2>0. loads < MaxLoads /\ loads' = loads + 1 /\ loads \in 0 .. MaxLoads
        BY <1>2, Zenon DEF BeginLoad, FocusKept
    <2>1. loads' \in 0 .. MaxLoads
        BY <1>0, <2>0
    <2>2. QED
        BY <1>2, <2>1 DEF BeginLoad, FocusKept
<1>3. ASSUME NEW l \in FLoaders, CommitLoad(l) PROVE FocusKept'
    <2>1. PICK f \in FocusFiles : f = loading[l].file /\ ~Malformed(f)
        BY <1>3 DEF CommitLoad, FInv, ParsedInv
    <2>2. flist' = Applied(f) /\ listedEver' \subseteq listedEver \union (FocusEcos \X FocusNames)
        BY <1>3, <2>1 DEF CommitLoad, Remember
    <2>3. fqueue' \subseteq fqueue \union PinsOf(f) /\ excused' \subseteq excused \union PinsOf(f)
        BY <1>3, <2>1 DEF CommitLoad
    <2>4. PinsOf(f) \subseteq Rows3
        BY <2>1, PinsTyped
    <2>5. ASSUME NEW e \in FocusEcos
          PROVE  (IF e \notin Sections(f) THEN flist[e]
                  ELSE IF f.flat = "" THEN SyncFocus(f, e) ELSE UpsertFocus(flist[e], f, e)) \in [FocusNames -> Pins]
        <3>1. PICK list \in [FocusNames -> Pins] : list = flist[e]
            BY DEF FocusKept
        <3>2. UpsertFocus(list, f, e) \in [FocusNames -> Pins] /\ UpsertFocus(Emptied, f, e) \in [FocusNames -> Pins]
            BY <1>1, UpsertTyped
        <3>3. QED
            BY <3>1, <3>2 DEF SyncFocus
    <2>6. flist' \in [FocusEcos -> [FocusNames -> Pins]]
        BY <2>2, <2>5 DEF Applied
    <2>7. QED
        BY <1>3, <2>2, <2>3, <2>4, <2>6 DEF CommitLoad, FocusKept
<1>4. ASSUME NEW l \in FLoaders, LoadFails(l) PROVE FocusKept'
    BY <1>4 DEF LoadFails, FocusKept
<1>5. ASSUME NEW ecos, ClearFocus(ecos) PROVE FocusKept'
    BY <1>0, <1>1, <1>5 DEF ClearFocus, FocusKept
<1>6. ASSUME NEW e \in FocusEcos, ReadFocusNames(e) PROVE FocusKept'
    BY <1>6 DEF ReadFocusNames, FocusKept
<1>7. ASSUME NEW e \in FocusEcos, NEW n \in FocusNames, NEW resolved \in BOOLEAN, EnqueueLatest(e, n, resolved)
      PROVE  FocusKept'
    <2>1. <<e, ProxyPath(e, n), Newest>> \in Rows3
        BY <1>0, FocusAssumption DEF Rows3
    <2>2. fqueue' \subseteq Rows3
        BY <1>7, <2>1 DEF EnqueueLatest, FocusKept
    <2>3. QED
        BY <1>7, <2>2 DEF EnqueueLatest, FocusKept
<1>8. ASSUME NEW e \in FocusEcos, LoadFocusNames(e) PROVE FocusKept'
    <2>1. {Key(e, n) : n \in NamesOf(e)} \in SUBSET FocusNames
        BY FocusAssumption DEF Key, NamesOf
    <2>2. focusNames' \in [FocusEcos -> SUBSET FocusNames]
        BY <1>8, <2>1 DEF LoadFocusNames, FocusKept
    <2>3. QED
        BY <1>8, <2>2 DEF LoadFocusNames, FocusKept
<1>9. ASSUME NEW e \in FocusEcos, NEW n \in FocusNames, GateRelease(e, n) PROVE FocusKept'
    <2>1. <<e, n, Newest>> \in Rows3
        BY <1>0 DEF Rows3
    <2>2. QED
        BY <1>9, <2>1 DEF GateRelease, FocusKept
<1>10. CASE FocusRestart
    BY <1>0, <1>10 DEF FocusRestart, FocusKept
<1>11. CASE UNCHANGED focusVars
    BY <1>11 DEF focusVars, FocusKept
<1>12. QED
    BY <1>2, <1>3, <1>4, <1>5, <1>6, <1>7, <1>8, <1>9, <1>10, <1>11 DEF FocusNext

LEMMA FocusTypeCorrect == FocusSpec => []FocusTypeOK
<1>1. FocusInit => FocusKept
    <2> SUFFICES ASSUME FocusInit PROVE FocusKept
        OBVIOUS
    <2>1. flist \in [FocusEcos -> [FocusNames -> Pins]]
        BY DEF FocusInit, Emptied, Pins
    <2>2. loads \in 0 .. MaxLoads /\ frestarts \in 0 .. MaxFRestarts
        BY FocusBounds DEF FocusInit
    <2>3. QED
        BY <2>1, <2>2 DEF FocusInit, FocusKept
<1>2. FInv /\ FocusKept => FocusTypeOK
    <2> SUFFICES ASSUME FInv, FocusKept PROVE FocusTypeOK
        OBVIOUS
    <2>1. \A l \in FLoaders : loading[l] \in LoadRec
        BY DEF FInv, FocusFrame
    <2>2. \A l \in FLoaders : loading[l].file \in FocusFiles \union {NoFile} /\ loading[l].busy \in BOOLEAN
        BY <2>1 DEF LoadRec
    <2>3. fqueue \union excused \subseteq FocusEcos \X FocusNames \X (1 .. Newest)
        BY DEF FocusKept, Rows3
    <2>4. QED
        BY <2>2, <2>3 DEF FInv, FocusFrame, FocusKept, FocusTypeOK, Pins
<1>3. QED
    BY <1>1, <1>2, FocusInitInv, FocusStep, FocusKeptSteps, PTL DEF FocusSpec
=============================================================================
