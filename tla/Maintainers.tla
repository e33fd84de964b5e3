----------------------------- MODULE Maintainers -----------------------------
(***************************************************************************)
(* From one convicted package to the others of its maintainer.  After the  *)
(* transaction that finalizes a confirmed scan the worker resolves the     *)
(* maintainer's catalog and sweeps it, if the conviction is a strong one   *)
(* or a second package of the catalog is convicted as well                 *)
(* (maintainer_pivot.py).  Clean siblings are watched: their next few      *)
(* releases are scanned whatever the ingest gate says                      *)
(* (maintainer_watch.py).                                                  *)
(***************************************************************************)
EXTENDS Integers, FiniteSets, FiniteSetsExt

CONSTANTS
    Catalog,        \* the maintainer's packages
    Pivoters,       \* workers
    DedupTtl,       \* PKGWARD_MAINTAINER_PIVOT_DEDUP_TTL, in ticks
    WatchReleases,  \* PKGWARD_MAINTAINER_WATCH_RELEASES
    WatchTtl,       \* PKGWARD_MAINTAINER_WATCH_TTL_DAYS, in ticks
    MaxConvictions, \* bound: confirmed scans
    MaxMFaults,     \* bound: failed fetches and transactions
    MaxPublished,   \* bound: releases of watched packages
    MaxWaiting      \* bound: releases of a package that wait for their scan

ASSUME MaintainersAssumption ==
    /\ {DedupTtl, WatchReleases, WatchTtl, MaxConvictions, MaxMFaults, MaxPublished, MaxWaiting} \subseteq Nat
    /\ WatchReleases > 0 /\ WatchTtl > 0

VARIABLES
    prolific,    \* more packages than PKGWARD_MAINTAINER_PIVOT_MAX_PKGS?
    shadow,      \* PKGWARD_MAINTAINER_PIVOT_SHADOW
    pivot,       \* per worker: its sweep
    convicted,   \* packages with a recent scan that rules and LLM call malicious
    sweptAge,    \* _recent_sweeps of the maintainer: the age of the entry, or NotSwept
    swept,       \* packages a sweep has enqueued
    watch,       \* per package: the age of its MaintainerWatch row, or NotWatched
    pending, scanned,   \* per package: releases enqueued, releases scanned since added_at
    convictions, mfaults, published

maintainersVars ==
    <<prolific, shadow, pivot, convicted, sweptAge, swept, watch, pending, scanned, convictions, mfaults, published>>
watchVars == <<watch, pending, scanned, published>>

NotSwept == DedupTtl + 1
NotWatched == -1
IdlePivot == [at |-> "idle", pkg |-> {}, strong |-> FALSE, bad |-> {}]

MaintainersTypeOK ==
    /\ pivot \in [Pivoters ->
        [at : {"idle", "commit", "resolve", "correlate", "enqueue", "watch"},
         pkg : SUBSET Catalog, strong : BOOLEAN, bad : SUBSET Catalog]]
    /\ {prolific, shadow} \subseteq BOOLEAN
    /\ convicted \subseteq Catalog /\ swept \subseteq Catalog
    /\ sweptAge \in 0 .. DedupTtl + 1
    /\ watch \in [Catalog -> -1 .. WatchTtl + 1]
    /\ pending \in [Catalog -> Nat] /\ scanned \in [Catalog -> Nat]
    /\ convictions \in 0 .. MaxConvictions /\ mfaults \in 0 .. MaxMFaults /\ published \in 0 .. MaxPublished

MaintainersInit ==
    /\ prolific \in BOOLEAN /\ shadow \in BOOLEAN
    /\ pivot = [w \in Pivoters |-> IdlePivot]
    /\ convicted = {} /\ sweptAge = NotSwept /\ swept = {}
    /\ watch = [c \in Catalog |-> NotWatched]
    /\ pending = [c \in Catalog |-> 0] /\ scanned = [c \in Catalog |-> 0]
    /\ convictions = 0 /\ mfaults = 0 /\ published = 0

-----------------------------------------------------------------------------
(* The pivot                                                               *)

At(w, place) == pivot[w].at = place
Go(w, place) == pivot' = [pivot EXCEPT ![w].at = place]
Over(w) == pivot' = [pivot EXCEPT ![w] = IdlePivot]
MFault == mfaults < MaxMFaults /\ mfaults' = mfaults + 1

\* A worker finalizes a scan that qualifies, with evidence that may trigger a sweep
\* (_trigger_eligible_findings); strong: _high_fidelity.
Convict(w, p, strong) ==
    /\ At(w, "idle") /\ convictions < MaxConvictions
    /\ convictions' = convictions + 1
    /\ pivot' = [pivot EXCEPT ![w] = [at |-> "commit", pkg |-> {p}, strong |-> strong, bad |-> {}]]
    /\ UNCHANGED <<convicted, sweptAge, swept, watchVars, mfaults>>

\* The sweep is called after the transaction with the verdicts is committed.
CommitVerdict(w) ==
    /\ At(w, "commit")
    /\ convicted' = convicted \union pivot[w].pkg
    /\ Go(w, "resolve")
    /\ UNCHANGED <<sweptAge, swept, watchVars, convictions, mfaults>>

\* _pypi_resolve, _npm_resolve, and the cut by the recent sweeps and the catalog's size.
Resolve(w) ==
    /\ At(w, "resolve")
    /\ \/ /\ sweptAge < DedupTtl
          /\ Over(w) /\ UNCHANGED sweptAge
       \/ /\ sweptAge >= DedupTtl /\ prolific
          /\ Over(w) /\ sweptAge' = 0
       \/ /\ sweptAge >= DedupTtl /\ ~prolific
          /\ Go(w, "correlate") /\ UNCHANGED sweptAge
    /\ UNCHANGED <<convicted, swept, watchVars, convictions, mfaults>>

\* Without an answer there is no maintainer.
ResolveFails(w) ==
    /\ At(w, "resolve") /\ MFault
    /\ Over(w)
    /\ UNCHANGED <<convicted, sweptAge, swept, watchVars, convictions>>

\* _double_confirmed_names; on an error nothing is correlated.  A sweep is marked
\* before it is made.
CorrelateWith(w, bad) ==
    /\ At(w, "correlate")
    /\ IF pivot[w].strong \/ Cardinality(bad) >= 2
       THEN /\ sweptAge' = 0
            /\ IF shadow THEN Over(w) ELSE pivot' = [pivot EXCEPT ![w].at = "enqueue", ![w].bad = bad]
       ELSE Over(w) /\ UNCHANGED sweptAge
\* Mutant: packages that were convicted before, without this one.
CorrelateEarly(w) ==
    /\ CorrelateWith(w, convicted \ pivot[w].pkg)
    /\ UNCHANGED <<convicted, swept, watchVars, convictions, mfaults>>

Correlate(w) ==
    /\ CorrelateWith(w, convicted)
    /\ UNCHANGED <<convicted, swept, watchVars, convictions, mfaults>>
CorrelateFails(w) ==
    /\ MFault /\ CorrelateWith(w, {})
    /\ UNCHANGED <<convicted, swept, watchVars, convictions>>

\* _enqueue_catalog
EnqueueCatalog(w) ==
    /\ At(w, "enqueue")
    /\ swept' = swept \union (Catalog \ pivot[w].pkg)
    /\ Go(w, "watch")
    /\ UNCHANGED <<convicted, sweptAge, watchVars, convictions, mfaults>>

\* An error of its transaction leaves the sweep: nothing is watched either.
EnqueueFails(w) ==
    /\ At(w, "enqueue") /\ MFault
    /\ Over(w)
    /\ UNCHANGED <<convicted, sweptAge, swept, watchVars, convictions>>

\* _register_clean_watches, add_watch: a watch that is there starts again.
RegisterWatches(w) ==
    LET clean == Catalog \ (pivot[w].pkg \union pivot[w].bad) IN
    /\ At(w, "watch")
    /\ watch' = [c \in Catalog |-> IF c \in clean THEN 0 ELSE watch[c]]
    /\ scanned' = [c \in Catalog |-> IF c \in clean THEN 0 ELSE scanned[c]]
    /\ Over(w)
    /\ UNCHANGED <<convicted, sweptAge, swept, pending, published, convictions, mfaults>>

RegisterFails(w) ==
    /\ At(w, "watch") /\ MFault
    /\ Over(w)
    /\ UNCHANGED <<convicted, sweptAge, swept, watchVars, convictions>>

-----------------------------------------------------------------------------
(* The watches                                                             *)

\* Mutant: the count is left to the janitor.
WatchedUntilPruned(c) == watch[c] # NotWatched

\* is_maintainer_watched, on a name of the set loaded for the poll.
Watched(c) == watch[c] # NotWatched /\ watch[c] <= WatchTtl /\ scanned[c] < WatchReleases

\* A poll sees a release of a package that only a watch would let in.
Release(c) ==
    /\ pending[c] < MaxWaiting
    /\ published < MaxPublished /\ published' = published + 1
    /\ pending' = IF Watched(c) THEN [pending EXCEPT ![c] = @ + 1] ELSE pending
    /\ UNCHANGED <<pivot, convicted, sweptAge, swept, watch, scanned, convictions, mfaults>>

ReleaseScanned(c) ==
    /\ pending[c] > 0
    /\ pending' = [pending EXCEPT ![c] = @ - 1]
    /\ scanned' = [scanned EXCEPT ![c] = IF watch[c] = NotWatched THEN @ ELSE @ + 1]
    /\ UNCHANGED <<pivot, convicted, sweptAge, swept, watch, published, convictions, mfaults>>

\* prune: exhausted and expired rows; remove_watch drops a row as well.
PruneWatch(c) ==
    /\ watch[c] # NotWatched /\ ~Watched(c)
    /\ watch' = [watch EXCEPT ![c] = NotWatched]
    /\ scanned' = [scanned EXCEPT ![c] = 0]
    /\ UNCHANGED <<pivot, convicted, sweptAge, swept, pending, published, convictions, mfaults>>

\* A sweep takes seconds: an entry cannot expire between its check and its use.
PivotTime ==
    /\ sweptAge <= DedupTtl \/ \E c \in Catalog : watch[c] \in 0 .. WatchTtl
    /\ \A w \in Pivoters : At(w, "idle")
    /\ sweptAge' = IF sweptAge < DedupTtl THEN sweptAge + 1 ELSE sweptAge
    /\ watch' = [c \in Catalog |-> IF watch[c] \in 0 .. WatchTtl THEN watch[c] + 1 ELSE watch[c]]
    /\ UNCHANGED <<pivot, convicted, swept, pending, scanned, published, convictions, mfaults>>

MaintainersNext ==
  /\ UNCHANGED <<prolific, shadow>>
  /\ \/ \E w \in Pivoters :
         \/ \E p \in Catalog, strong \in BOOLEAN : Convict(w, p, strong)
         \/ CommitVerdict(w) \/ Resolve(w) \/ ResolveFails(w)
         \/ Correlate(w) \/ CorrelateFails(w)
         \/ EnqueueCatalog(w) \/ EnqueueFails(w) \/ RegisterWatches(w) \/ RegisterFails(w)
     \/ \E c \in Catalog : Release(c) \/ ReleaseScanned(c) \/ PruneWatch(c)
     \/ PivotTime

MaintainersSpec == MaintainersInit /\ [][MaintainersNext]_maintainersVars

-----------------------------------------------------------------------------
(* Properties                                                              *)

\* A campaign is not missed: when two packages of a maintainer are convicted, by
\* workers that do not know of each other, and nothing has failed, a sweep of the
\* catalog has been triggered (or the catalog is too large for one).
CampaignNoticed ==
    (\A w \in Pivoters : At(w, "idle")) /\ mfaults = 0 /\ Cardinality(convicted) >= 2 =>
        sweptAge # NotSwept

\* A watch forces no more scans than it is meant to, even between two runs of the
\* janitor, but for the releases let in while earlier ones still wait.
WatchBounded ==
    \A c \in Catalog : scanned[c] + pending[c] < WatchReleases + MaxWaiting
=============================================================================
