----------------------------- MODULE IngestCrates -----------------------------
(***************************************************************************)
(* How crates.io releases are found, without a cursor: a snapshot of two   *)
(* RSS feeds (poll_feeds_once), and a reconciliation with the newest       *)
(* crates of the API (reconcile_new_crates) for what a feed missed.  The   *)
(* version of a brand-new crate may have to be resolved first.             *)
(***************************************************************************)
EXTENDS Ingest, SequencesExt

CONSTANTS
    Crates,         \* the names that are crates
    RssWindow,      \* the entries of a feed
    ApiWindow,      \* RECONCILE_PAGES pages
    MaxUpdates      \* bound: new versions of crates

ASSUME CratesBoundAssumption == {RssWindow, ApiWindow, MaxUpdates} \subseteq Nat
ASSUME CratesAssumption == Crates \subseteq Names

VARIABLES
    crates,      \* the registry: crates in the order of their creation
    updates,     \* the crates with a new version, in the order of publication
    rss,         \* the feed polls under way
    reconcile,   \* the reconciliation under way
    crateQueue   \* crates in the scan queue, with a version or with the placeholder "latest"

cratesOwn == <<crates, updates, rss, reconcile, crateQueue>>
cratesVars == <<sharedVars, cratesOwn>>

\* new, resolved: the crates of the new-crates feed, and those with a version.
IdleRss == [pc |-> "idle", new |-> {}, resolved |-> {}, bumped |-> {}, suspects |-> {}]
IdleReconcile == [pc |-> "idle", items |-> {}]

CratesTypeOK ==
    /\ IngestTypeOK
    /\ ToSet(crates) \subseteq Crates /\ ToSet(updates) \subseteq Crates
    /\ \A p \in Polls :
        /\ rss[p].pc \in {"idle", "updates", "resolve", "gate", "anomaly"}
        /\ rss[p].resolved \subseteq rss[p].new /\ rss[p].new \union rss[p].bumped \subseteq Crates
    /\ reconcile.pc \in {"idle", "enqueue"} /\ reconcile.items \subseteq Crates
    /\ crateQueue \subseteq Crates \X {"latest", "concrete"}

CratesInit ==
    /\ IngestInit
    /\ crates = <<>> /\ updates = <<>>
    /\ rss = [p \in Polls |-> IdleRss] /\ reconcile = IdleReconcile
    /\ crateQueue = {}

Newer(s, k) == ToSet(SubSeq(s, Max({1, Len(s) - k + 1}), Len(s)))
Queued == {e[1] : e \in crateQueue}

-----------------------------------------------------------------------------
(* crates.io                                                               *)

NewCrate(n) ==
    /\ n \notin ToSet(crates)
    /\ crates' = Append(crates, n)
    /\ UNCHANGED <<sharedVars, updates, rss, reconcile, crateQueue>>

NewVersion(n) ==
    /\ n \in ToSet(crates) /\ Len(updates) < MaxUpdates
    /\ updates' = Append(updates, n)
    /\ UNCHANGED <<sharedVars, crates, rss, reconcile, crateQueue>>

-----------------------------------------------------------------------------
(* poll_feeds_once                                                         *)

\* A feed that cannot be fetched or parsed counts as empty.
ReadFeed(items, got) ==
    \/ got = items /\ UNCHANGED errors
    \/ items # {} /\ got = {} /\ Fault

ReadNewCrates(p) ==
    /\ rss[p].pc = "idle" /\ MayBegin(p)
    /\ \E got \in {Newer(crates, RssWindow), {}} :
        /\ ReadFeed(Newer(crates, RssWindow), got)
        /\ rss' = [rss EXCEPT ![p] = [IdleRss EXCEPT !.pc = "updates", !.new = got]]
    /\ UNCHANGED <<cursor, known, listVars, restarts, crates, updates, reconcile, crateQueue>>

\* _dedup_new_items drops the crates that are queued already.
ReadVersions(p) ==
    /\ rss[p].pc = "updates"
    /\ \E got \in {Newer(updates, RssWindow), {}} :
        /\ ReadFeed(Newer(updates, RssWindow), got)
        /\ rss' = [rss EXCEPT ![p].bumped = got, ![p].new = @ \ Queued,
                              ![p].pc = IF rss[p].new \subseteq Queued THEN "gate" ELSE "resolve"]
    /\ UNCHANGED <<cursor, known, listVars, booted, restarts, crates, updates, reconcile, crateQueue>>

\* _resolve_new_latest: a name that does not resolve keeps its placeholder.
ResolveNew(p) ==
    /\ rss[p].pc = "resolve"
    /\ \E got \in SUBSET rss[p].new :
        rss' = [rss EXCEPT ![p].resolved = got, ![p].pc = "gate"]
    /\ UNCHANGED <<sharedVars, crates, updates, reconcile, crateQueue>>

\* enqueue of each version, in one transaction; an error of one is passed over.
EnqueueCrates(S) ==
    \E dropped \in SUBSET S :
        /\ errors + Cardinality(dropped) <= MaxErrors
        /\ errors' = errors + Cardinality(dropped)
        /\ crateQueue' = crateQueue \union (S \ dropped)
        /\ Learn({e[1] : e \in S \ dropped})

AdmittedNew(n) == n \in focus \/ ~exclusive

GateRss(p) ==
    LET new == {n \in rss[p].new : AdmittedNew(n)}
        bumped == {n \in rss[p].bumped : Listed(n)}
        rest == IF exclusive THEN {} ELSE rss[p].bumped \ bumped IN
    /\ rss[p].pc = "gate"
    /\ EnqueueCrates((bumped \union (new \intersect rss[p].resolved)) \X {"concrete"}
                     \union (new \ rss[p].resolved) \X {"latest"})
    /\ rss' = [rss EXCEPT ![p] = IF rest = {} THEN IdleRss
                                 ELSE [IdleRss EXCEPT !.pc = "anomaly", !.suspects = rest]]
    /\ UNCHANGED <<cursor, listVars, booted, restarts, crates, updates, reconcile>>

\* check_candidates
RssAnomalies(p) ==
    /\ rss[p].pc = "anomaly"
    /\ \E hits \in SUBSET rss[p].suspects :
        Cardinality(hits) <= FeedChecks /\ EnqueueCrates(hits \X {"concrete"})
    /\ rss' = [rss EXCEPT ![p] = IdleRss]
    /\ UNCHANGED <<cursor, listVars, booted, restarts, crates, updates, reconcile>>

-----------------------------------------------------------------------------
(* reconcile_new_crates                                                    *)

\* The pages of the newest crates, up to the first that cannot be read.
FetchNewCrates ==
    /\ reconcile.pc = "idle" /\ ~exclusive
    /\ \E k \in 0 .. Min({ApiWindow, Len(crates)}) :
        /\ \/ k = Min({ApiWindow, Len(crates)}) /\ UNCHANGED errors
           \/ k < Min({ApiWindow, Len(crates)}) /\ Fault
        /\ reconcile' = IF k = 0 THEN IdleReconcile ELSE [pc |-> "enqueue", items |-> Newer(crates, k)]
    /\ UNCHANGED <<cursor, known, listVars, booted, restarts, crates, updates, rss, crateQueue>>

\* Mutant: the loop stops at the first crate that is queued.
MissedUntilKnown(items) ==
    {n \in items : \A m \in items \intersect Queued :
        \E i, j \in DOMAIN crates : crates[i] = n /\ crates[j] = m /\ i > j}

Missed(items) == items \ Queued

EnqueueMissed ==
    /\ reconcile.pc = "enqueue"
    /\ EnqueueCrates({n \in Missed(reconcile.items) : AdmittedNew(n)} \X {"concrete"})
    /\ reconcile' = IdleReconcile
    /\ UNCHANGED <<cursor, listVars, booted, restarts, crates, updates, rss>>

-----------------------------------------------------------------------------

\* A transaction fails.
RssAborts(p) ==
    /\ rss[p].pc # "idle" /\ Fault
    /\ rss' = [rss EXCEPT ![p] = IdleRss]
    /\ UNCHANGED <<cursor, known, listVars, booted, restarts, crates, updates, reconcile, crateQueue>>

ReconcileAborts ==
    /\ reconcile.pc # "idle" /\ Fault
    /\ reconcile' = IdleReconcile
    /\ UNCHANGED <<cursor, known, listVars, booted, restarts, crates, updates, rss, crateQueue>>

CratesRestart ==
    /\ ProcessDies
    /\ rss' = [p \in Polls |-> IdleRss] /\ reconcile' = IdleReconcile
    /\ UNCHANGED <<cursor, known, listVars, errors, crates, updates, crateQueue>>

RssStep(p) == ReadNewCrates(p) \/ ReadVersions(p) \/ ResolveNew(p) \/ GateRss(p) \/ RssAnomalies(p)
ReconcileStep == FetchNewCrates \/ EnqueueMissed

CratesNext ==
    \/ \E n \in Crates : NewCrate(n) \/ NewVersion(n)
    \/ \E p \in Polls : RssStep(p) \/ RssAborts(p)
    \/ ReconcileStep \/ ReconcileAborts
    \/ CratesRestart

-----------------------------------------------------------------------------
(* Properties                                                              *)

\* No new crate slips through a failed poll, a burst larger than the feed, a version that does
\* not resolve, an enqueue that gives up or a restart: as long as it is among the newest of the
\* API it gets into the scan queue, unless the focus mode excludes it.
NewCratesFound ==
    ~exclusive => \A n \in Crates :
        (n \in ToSet(crates)) ~> (n \in Queued \/ n \notin Newer(crates, ApiWindow))
=============================================================================
