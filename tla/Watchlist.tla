------------------------------ MODULE Watchlist ------------------------------
(***************************************************************************)
(* The watchlist of one ecosystem.  Its rows come from two sides: the      *)
(* popularity refresh rebuilds the ranked rows, and a confirmed scan adds  *)
(* its package with the sentinel rank (watchlist_auto.py), under a rate    *)
(* limit kept in the process; an hourly janitor expires and caps those.    *)
(* The refresh differs between the ecosystems in where its names come from *)
(* and in what a failed source does.  Seeding puts the latest version of   *)
(* the listed names into the scan queue, and for Go moves a row to the     *)
(* canonical path of its module.                                           *)
(***************************************************************************)
EXTENDS Integers, FiniteSets, FiniteSetsExt, Sequences, SequencesExt

CONSTANTS
    Registries,    \* the ecosystems examined
    WNames,        \* package names
    TopLists,      \* what a source of popular names may answer
    CriticalInfra, \* CRITICAL_INFRA of npm and Go
    Canonical(_),  \* the path under which the Go proxy serves a module
    Blocklist,     \* WATCHLIST_AUTO_BLOCKLIST
    Promoters,     \* workers that finalize confirmed scans
    AddsPerHour,   \* WATCHLIST_AUTO_MAX_ADDS_PER_HOUR
    AutoCap,       \* cap of sentinel rows per ecosystem
    RowTtl,        \* life of a sentinel row, in hours
    MaxWRestarts,  \* bound: process restarts
    MaxRefreshes,  \* bound: popularity refreshes
    MaxSeedings    \* bound: seedings

ASSUME WatchlistAssumption ==
    /\ {AddsPerHour, AutoCap, RowTtl, MaxWRestarts, MaxRefreshes, MaxSeedings} \subseteq Nat
    /\ IsFiniteSet(WNames) /\ IsFiniteSet(Promoters)
    /\ AddsPerHour > 0 /\ AutoCap > 0 /\ RowTtl > 0 /\ Blocklist \union CriticalInfra \subseteq WNames
    /\ \A n \in WNames : Canonical(n) \in WNames
    /\ TopLists \subseteq SUBSET WNames /\ Registries \subseteq {"pypi", "npm", "crates", "gomod"}

VARIABLES
    registry,    \* the ecosystem of this watchlist
    rows,        \* per name: its rank, the hours since refreshed_at, and whether the
                 \* janitor is about to delete the row by its id
    seeded,      \* names with a row in the scan queue, the unscannable included
    recentAdds,  \* _recent_adds: slots taken in the last hour
    promoter,    \* per worker: the name it is about to insert
    seeding,     \* the names being resolved
    refreshes, seedings, wrestarts

watchlistVars == <<registry, rows, seeded, recentAdds, promoter, seeding, refreshes, seedings, wrestarts>>

NoName == "none"
NoRow == [rank |-> "none", age |-> 0, picked |-> FALSE]
Row == [rank : {"none", "popular", "auto"}, age : 0 .. RowTtl + 1, picked : BOOLEAN]
OfRank(r) == {n \in WNames : rows[n].rank = r}
Autos == OfRank("auto")
Picked == {n \in WNames : rows[n].picked}
OnList == Autos \union OfRank("popular")

WatchlistTypeOK ==
    /\ registry \in Registries /\ rows \in [WNames -> Row] /\ seeded \subseteq WNames
    /\ recentAdds \in Nat
    /\ promoter \in [Promoters -> WNames \union {NoName}]
    /\ seeding \subseteq WNames
    /\ refreshes \in 0 .. MaxRefreshes /\ seedings \in 0 .. MaxSeedings /\ wrestarts \in 0 .. MaxWRestarts

WatchlistInit ==
    /\ registry \in Registries
    /\ rows = [n \in WNames |-> NoRow] /\ seeded = {}
    /\ recentAdds = 0
    /\ promoter = [w \in Promoters |-> NoName]
    /\ seeding = {} /\ refreshes = 0 /\ seedings = 0 /\ wrestarts = 0

PopularRow == [rank |-> "popular", age |-> 0, picked |-> FALSE]
SentinelRow == [rank |-> "auto", age |-> 0, picked |-> FALSE]

-----------------------------------------------------------------------------
(* Confirmed scans                                                         *)

\* Mutant: the slot is looked for, and taken only with the insert.
AddConfirmedUncounted(w, n) ==
    /\ promoter[w] = NoName /\ n \notin Blocklist
    /\ rows[n].rank = "none" /\ recentAdds < AddsPerHour
    /\ promoter' = [promoter EXCEPT ![w] = n]
    /\ UNCHANGED <<registry, rows, seeded, recentAdds, seeding, refreshes, seedings, wrestarts>>

\* add_confirmed_malicious up to the insert: a sentinel row is refreshed, a ranked
\* one left alone; a new one takes its slot of the hour before it is inserted.
AddConfirmed(w, n) ==
    /\ promoter[w] = NoName /\ n \notin Blocklist
    /\ \/ /\ rows[n].rank = "auto"
          /\ rows' = [rows EXCEPT ![n].age = 0]
          /\ UNCHANGED <<recentAdds, promoter>>
       \/ /\ rows[n].rank = "none" /\ recentAdds < AddsPerHour
          /\ recentAdds' = recentAdds + 1
          /\ promoter' = [promoter EXCEPT ![w] = n]
          /\ UNCHANGED rows
    /\ UNCHANGED <<registry, seeded, seeding, refreshes, seedings, wrestarts>>

\* The insert in its savepoint: another transaction may have been faster.
InsertConfirmed(w) ==
    LET n == promoter[w] IN
    /\ n # NoName
    /\ rows' = IF rows[n].rank = "none" THEN [rows EXCEPT ![n] = SentinelRow] ELSE rows
    /\ promoter' = [promoter EXCEPT ![w] = NoName]
    /\ UNCHANGED <<registry, seeded, recentAdds, seeding, refreshes, seedings, wrestarts>>

\* The scan's transaction fails: the slot stays taken.
PromoteFails(w) ==
    /\ promoter[w] # NoName
    /\ promoter' = [promoter EXCEPT ![w] = NoName]
    /\ UNCHANGED <<registry, rows, seeded, recentAdds, seeding, refreshes, seedings, wrestarts>>

-----------------------------------------------------------------------------
(* The janitor and the operator                                            *)

Drop(S) == [n \in WNames |-> IF n \in S THEN NoRow ELSE rows[n]]

\* An hour has passed.
Older == [n \in WNames |-> [rows[n] EXCEPT !.age = IF rows[n].rank = "auto" /\ @ <= RowTtl THEN @ + 1 ELSE @]]
Expired(n) == rows[n].rank = "auto" /\ Older[n].age > RowTtl

\* An hour after its last run, or after the start: prune_expired, one DELETE, and the
\* ids that prune_over_cap selects.  The slots of the hour are free again, but
\* for those of inserts under way.
JanitorReads ==
    LET kept == {n \in Autos : ~Expired(n)}
        excess == Cardinality(kept) - AutoCap IN
    /\ Picked = {}
    /\ recentAdds' = Cardinality({w \in Promoters : promoter[w] # NoName})
    /\ \E ids \in SUBSET kept :
        /\ Cardinality(ids) = (IF excess > 0 THEN excess ELSE 0)
        /\ \A n \in ids, m \in kept \ ids : rows[n].age >= rows[m].age
        /\ rows' = [n \in WNames |-> IF Expired(n) THEN NoRow ELSE [Older[n] EXCEPT !.picked = n \in ids]]
    /\ UNCHANGED <<registry, seeded, promoter, seeding, refreshes, seedings, wrestarts>>

\* The DELETE by id, whatever has become of the rows.
JanitorDeletes ==
    /\ Picked # {}
    /\ rows' = Drop(Picked)
    /\ UNCHANGED <<registry, seeded, recentAdds, promoter, seeding, refreshes, seedings, wrestarts>>

\* remove_auto_entry
RemoveAuto(n) ==
    /\ n \in Autos
    /\ rows' = Drop({n})
    /\ UNCHANGED <<registry, seeded, recentAdds, promoter, seeding, refreshes, seedings, wrestarts>>

-----------------------------------------------------------------------------
(* refresh_watchlist of the four ecosystems                                *)

\* Mutant: wipe and reinsert, the sentinel rows included.
RebuildWipes(top) == [n \in WNames |-> IF n \in top THEN PopularRow ELSE NoRow]

\* The ranked rows become the names fetched.  One that has a sentinel row breaks the unique
\* key, and the transaction is rolled back.
Rebuild(top) ==
    IF top \intersect Autos # {} THEN rows
    ELSE [n \in WNames |-> IF n \in top THEN PopularRow ELSE IF n \in Autos THEN rows[n] ELSE NoRow]

Refreshes(r) ==
    /\ registry = r /\ refreshes < MaxRefreshes /\ refreshes' = refreshes + 1
    /\ UNCHANGED <<registry, seeded, recentAdds, promoter, seeding, seedings, wrestarts>>

\* One request: without an answer nothing changes, and an answer without names
\* empties the ranked list.
RefreshPypi(top) ==
    /\ Refreshes("pypi")
    /\ rows' = Rebuild(top)

\* _search_popular and _fetch_awesome give what they could fetch; the critical names are
\* always there.
RefreshNpm(search, awesome) ==
    /\ Refreshes("npm")
    /\ rows' = Rebuild(CriticalInfra \union search \union awesome)

\* The pages up to the first that fails.  None leaves the list; a crate that moved from
\* one page to the next is inserted twice, and the transaction is rolled back.
RefreshCrates(first, second) ==
    /\ Refreshes("crates")
    /\ first = {} => second = {}
    /\ rows' = IF first = {} \/ first \intersect second # {} THEN rows ELSE Rebuild(first \union second)

\* _fetch_github_top_go_repos: the star buckets, each up to its first error; and awesome-go.
RefreshGomod(starred, awesome) ==
    /\ Refreshes("gomod")
    /\ rows' = Rebuild(CriticalInfra \union starred \union awesome)

-----------------------------------------------------------------------------
(* Seeding, at boot and by schedule                                        *)

Seeds(names) ==
    /\ seeding = {} /\ seeding' = names
    /\ seedings < MaxSeedings /\ seedings' = seedings + 1
    /\ UNCHANGED <<registry, rows, seeded, recentAdds, promoter, refreshes, wrestarts>>

\* poll_watchlist_releases, for Go seed_watchlist_queue: every name of the list.
PollWatchlist == Seeds(OnList)

\* seed_missing_watchlist: the listed names without a queue row; PyPI has none.
SeedMissing == registry # "pypi" /\ Seeds(OnList \ seeded)

\* The latest versions that resolved are enqueued, in chunks whose failure is logged; a name
\* that did not resolve is left for the next time.
SeedFlushes(resolved) ==
    /\ registry # "gomod" /\ seeding # {}
    /\ seeding' = {}
    /\ seeded' = seeded \union resolved
    /\ UNCHANGED <<registry, rows, recentAdds, promoter, refreshes, seedings, wrestarts>>

\* _rename_watchlist_to_canonical: the row moves unless there is one at its new name.
Renamed(moved) ==
    [n \in WNames |->
        IF n \in moved THEN NoRow
        ELSE IF rows[n].rank = "none" /\ \E m \in moved : Canonical(m) = n
        THEN rows[CHOOSE m \in moved : Canonical(m) = n]
        ELSE rows[n]]

\* Go: _resolve_latest_canonical probes the path and its /v2 to /v5 variants.
Answers == {"version", "pseudo-version", "refused", "error"}

\* _drop_pseudo
DropPseudo(answer) == {n \in DOMAIN answer : answer[n] = "version"}

\* _record_unscannable: a failed row, so that the path is not probed again.
Unscannable(answer) == {n \in DOMAIN answer : answer[n] = "refused"}

\* What resolved is enqueued at its canonical path; a transient error leaves the name.
SeedFlushesGo(answer) ==
    LET resolved == DropPseudo(answer) IN
    /\ registry = "gomod" /\ seeding # {}
    /\ seeding' = {}
    /\ seeded' = seeded \union {Canonical(n) : n \in resolved} \union Unscannable(answer)
    /\ rows' = Renamed({n \in resolved : Canonical(n) # n /\ rows[n].rank # "none"})
    /\ UNCHANGED <<registry, recentAdds, promoter, refreshes, seedings, wrestarts>>

-----------------------------------------------------------------------------

\* The slots and the jobs are in memory only.
WProcessDies ==
    /\ wrestarts < MaxWRestarts /\ wrestarts' = wrestarts + 1
    /\ recentAdds' = 0
    /\ promoter' = [w \in Promoters |-> NoName]
    /\ seeding' = {}
    /\ rows' = [n \in WNames |-> [rows[n] EXCEPT !.picked = FALSE]]
    /\ UNCHANGED <<registry, seeded, refreshes, seedings>>

WatchlistNext ==
    \/ \E w \in Promoters :
        InsertConfirmed(w) \/ PromoteFails(w) \/ \E n \in WNames : AddConfirmed(w, n)
    \/ JanitorReads \/ JanitorDeletes \/ \E n \in WNames : RemoveAuto(n)
    \/ \E one \in TopLists :
        \/ RefreshPypi(one)
        \/ \E other \in TopLists : RefreshCrates(one, other) \/ RefreshNpm(one, other) \/ RefreshGomod(one, other)
    \/ PollWatchlist \/ SeedMissing
    \/ \E resolved \in SUBSET seeding : SeedFlushes(resolved)
    \/ \E answer \in [seeding -> Answers] : SeedFlushesGo(answer)
    \/ WProcessDies

WatchlistSpec == WatchlistInit /\ [][WatchlistNext]_watchlistVars

-----------------------------------------------------------------------------
(* Properties                                                              *)

\* The rate limit, which knows an hour, and the cap, which is applied once an hour,
\* together bound the sentinel rows that stay; a restart frees the slots of its hour,
\* and may cut off the janitor.
AutoListBounded == Cardinality(Autos \ Picked) <= AutoCap + AddsPerHour * (1 + 2 * wrestarts)

\* A confirmed name leaves the list by its age, by the cap, or by the operator's
\* hand; popularity never takes it over.  (For Go, seeding moves the row.)
ConfirmedStaysListed ==
    [][\A n \in Autos : n \notin Autos' =>
        Expired(n) \/ n \in Picked \/ RemoveAuto(n) \/ (registry = "gomod" /\ Canonical(n) # n)]_watchlistVars
=============================================================================
