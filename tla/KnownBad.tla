------------------------------- MODULE KnownBad -------------------------------
(***************************************************************************)
(* The known-bad gate: known_bad_deps.py answers, for the ingest polls and *)
(* the scans, which names are confirmed malicious.  The set is queried     *)
(* from the watchlist and kept in the process under a lock; the query runs *)
(* outside the lock, so a slow one may store its set after a newer one, or *)
(* after the cache has been dropped.                                       *)
(***************************************************************************)
EXTENDS Integers, FiniteSets

CONSTANTS
    KNames,      \* package names, normalized
    Loaders,     \* threads that ask
    CacheTtl,    \* KNOWN_BAD_DEPS_CACHE_TTL, in ticks
    MaxEdits     \* bound: changes of the list, and of it failed queries

ASSUME CacheAssumption == CacheTtl \in Nat \ {0} /\ MaxEdits \in Nat

VARIABLES
    listed,      \* names with a row of the sentinel rank, not on the blocklist
    steady,      \* per name: the ticks since it was last listed or unlisted
    cache,       \* the cached set and the age of its time stamp
    loader,      \* per thread: where it is, its stamp's age, its set
    edits

knownBadVars == <<listed, steady, cache, loader, edits>>

NoCache == [age |-> CacheTtl, names |-> {}]
IdleLoader == [at |-> "idle", age |-> 0, names |-> {}]
Aged(a) == IF a < CacheTtl THEN a + 1 ELSE a

KnownBadTypeOK ==
    /\ listed \subseteq KNames
    /\ steady \in [KNames -> 0 .. CacheTtl]
    /\ cache \in [age : 0 .. CacheTtl, names : SUBSET KNames]
    /\ loader \in [Loaders -> [at : {"idle", "query", "store", "answered"}, age : 0 .. CacheTtl, names : SUBSET KNames]]
    /\ edits \in 0 .. MaxEdits

KnownBadInit ==
    /\ listed \in SUBSET KNames
    /\ steady = [n \in KNames |-> CacheTtl]
    /\ cache = NoCache
    /\ loader = [l \in Loaders |-> IdleLoader]
    /\ edits = 0

\* A confirmed scan, the janitor or the operator changes the list.
EditList(n) ==
    /\ edits < MaxEdits /\ edits' = edits + 1
    /\ listed' = IF n \in listed THEN listed \ {n} ELSE listed \union {n}
    /\ steady' = [steady EXCEPT ![n] = 0]
    /\ UNCHANGED <<cache, loader>>

\* load_known_bad: the time is taken first, then the cache is looked at.
LookUp(l) ==
    /\ loader[l].at = "idle"
    /\ loader' = [loader EXCEPT ![l] =
        IF cache.age < CacheTtl THEN [at |-> "answered", age |-> 0, names |-> cache.names]
        ELSE [at |-> "query", age |-> 0, names |-> {}]]
    /\ UNCHANGED <<listed, steady, cache, edits>>

\* _query_known_bad
QueryKnownBad(l) ==
    /\ loader[l].at = "query"
    /\ loader' = [loader EXCEPT ![l].at = "store", ![l].names = listed]
    /\ UNCHANGED <<listed, steady, cache, edits>>

\* A failed query answers with the empty set, which is not cached.
QueryFails(l) ==
    /\ loader[l].at = "query" /\ edits < MaxEdits /\ edits' = edits + 1
    /\ loader' = [loader EXCEPT ![l] = IdleLoader]
    /\ UNCHANGED <<listed, steady, cache>>

\* Mutant: the time of the store.
StoreKnownBadNow(l) ==
    /\ loader[l].at = "store"
    /\ cache' = [age |-> 0, names |-> loader[l].names]
    /\ loader' = [loader EXCEPT ![l].at = "answered"]
    /\ UNCHANGED <<listed, steady, edits>>

\* The set is stored with the time taken before the query.
StoreKnownBad(l) ==
    /\ loader[l].at = "store"
    /\ cache' = [age |-> loader[l].age, names |-> loader[l].names]
    /\ loader' = [loader EXCEPT ![l].at = "answered"]
    /\ UNCHANGED <<listed, steady, edits>>

\* match_known_bad, dep_intel: the caller has compared the dependencies.
MatchKnownBad(l) ==
    /\ loader[l].at = "answered"
    /\ loader' = [loader EXCEPT ![l] = IdleLoader]
    /\ UNCHANGED <<listed, steady, cache, edits>>

InvalidateCache ==
    /\ cache # NoCache
    /\ cache' = NoCache
    /\ UNCHANGED <<listed, steady, loader, edits>>

\* A load takes less time than a cached set lives, and an answer is used at once.
CacheAges ==
    /\ \A l \in Loaders : loader[l].at # "answered" /\ loader[l].age + 1 < CacheTtl
    /\ cache' = [cache EXCEPT !.age = Aged(@)]
    /\ loader' = [l \in Loaders |-> IF loader[l].at = "idle" THEN loader[l] ELSE [loader[l] EXCEPT !.age = Aged(@)]]
    /\ steady' = [n \in KNames |-> Aged(steady[n])]
    /\ UNCHANGED <<listed, edits>>

KnownBadNext ==
    \/ \E n \in KNames : EditList(n)
    \/ \E l \in Loaders :
        LookUp(l) \/ QueryKnownBad(l) \/ QueryFails(l) \/ StoreKnownBad(l) \/ MatchKnownBad(l)
    \/ InvalidateCache \/ CacheAges

KnownBadSpec == KnownBadInit /\ [][KnownBadNext]_knownBadVars

-----------------------------------------------------------------------------

\* An answer is never staler than the life of the cache: what was listed or
\* unlisted that long ago is seen, however loads, stores and drops interleave.
\* The empty answer of a failed query is the exception.
KnownBadFresh ==
    \A l \in Loaders : loader[l].at = "answered" =>
        \A n \in KNames : steady[n] = CacheTtl => (n \in loader[l].names <=> n \in listed)
=============================================================================
