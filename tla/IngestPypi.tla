------------------------------ MODULE IngestPypi ------------------------------
(***************************************************************************)
(* The two ways PyPI releases are found: the changelog, pulled from the    *)
(* cursor on (cursor.py), and a snapshot of two RSS feeds (feeds.py).  A   *)
(* package is brand new to a pull if its creation is in the same pull, and *)
(* to a feed poll if it is in the packages feed.  A serial is a position   *)
(* of the changelog and names the release it is about.                     *)
(***************************************************************************)
EXTENDS Ingest

CONSTANTS
    Projects,      \* the names that are PyPI packages
    MaxLog,        \* bound: events in the changelog
    MaxItems,      \* DEFAULT_MAX_ITEMS, the events of a pull
    FeedWindow     \* the entries of a feed

ASSUME PypiBoundAssumption == {MaxLog, MaxItems, FeedWindow} \subseteq Nat /\ MaxItems > 0
ASSUME ProjectsAssumption == Projects \subseteq Names

VARIABLES
    changelog,
    pypiBoot,    \* the serial the cursor was bootstrapped to
    pull,        \* the pulls under way
    feed,        \* the feed polls under way
    released,    \* serials of the releases put into the scan queue
    forgone      \* serials enqueue gave up on, and those of updates a pull does not admit

pypiOwn == <<changelog, pypiBoot, pull, feed, released, forgone>>
pypiVars == <<sharedVars, pypiOwn>>

Serials == 0 .. MaxLog
Event == [name : Projects, act : {"create", "release", "remove"}]
IdlePull == [pc |-> "idle", start |-> 0, to |-> 0]
IdleFeed == [pc |-> "idle", updates |-> {}, suspects |-> {}]

PypiTypeOK ==
    /\ IngestTypeOK
    /\ changelog \in Seq(Event) /\ Len(changelog) <= MaxLog
    /\ pypiBoot \in Serials
    /\ pull \in [Polls -> [pc : {"idle", "bootstrap", "fetch", "gate", "save"}, start : Serials, to : Serials]]
    /\ \A p \in Polls : feed[p].pc \in {"idle", "packages", "anomaly"}
                        /\ {feed[p].updates, feed[p].suspects} \subseteq SUBSET Serials
    /\ released \subseteq Serials /\ forgone \subseteq Serials

PypiInit ==
    /\ IngestInit
    /\ changelog \in Seq(Event) /\ Len(changelog) <= MaxLog
    /\ pypiBoot = 0 /\ released = {} /\ forgone = {}
    /\ pull = [p \in Polls |-> IdlePull] /\ feed = [p \in Polls |-> IdleFeed]

-----------------------------------------------------------------------------
(* PyPI                                                                    *)

Created(n, S) == \E s \in S : changelog[s] = [name |-> n, act |-> "create"]
Releases(S) == {s \in S : changelog[s].act = "release"}
NameOf(s) == changelog[s].name

\* A package is created before its first release.
RegistryEvent(e) ==
    /\ Len(changelog) < MaxLog
    /\ (e.act = "create") = ~Created(e.name, DOMAIN changelog)
    /\ changelog' = Append(changelog, e)
    /\ UNCHANGED <<sharedVars, pypiBoot, pull, feed, released, forgone>>

\* The newest entries of a feed.
Newest(S) == {s \in S : Cardinality({t \in S : t > s}) < FeedWindow}

-----------------------------------------------------------------------------
(* pull_since                                                              *)

BeginPull(p) ==
    /\ pull[p].pc = "idle" /\ MayBegin(p)
    /\ pull' = [pull EXCEPT ![p] =
          IF cursor = NoCursor THEN [IdlePull EXCEPT !.pc = "bootstrap"]
          ELSE [IdlePull EXCEPT !.pc = "fetch", !.start = cursor]]
    /\ UNCHANGED <<cursor, known, listVars, errors, restarts, changelog, pypiBoot, feed, released, forgone>>

\* get_last_serial: the cursor starts at the current serial; another poll may have
\* inserted the row meanwhile, which ends this one.  Without an answer the pull is
\* made from serial 0.
BootstrapSerial(p) ==
    /\ pull[p].pc = "bootstrap"
    /\ \/ /\ cursor = NoCursor
          /\ cursor' = Len(changelog) /\ pypiBoot' = Len(changelog)
          /\ pull' = [pull EXCEPT ![p].pc = "fetch", ![p].start = Len(changelog)]
          /\ UNCHANGED errors
       \/ /\ cursor # NoCursor
          /\ pull' = [pull EXCEPT ![p] = IdlePull]
          /\ UNCHANGED <<cursor, pypiBoot, errors>>
       \/ /\ Fault
          /\ pull' = [pull EXCEPT ![p].pc = "fetch"]
          /\ UNCHANGED <<cursor, pypiBoot>>
    /\ UNCHANGED <<known, listVars, booted, restarts, changelog, feed, released, forgone>>

FetchEntries(p) ==
    LET to == Min({Len(changelog), pull[p].start + MaxItems}) IN
    /\ pull[p].pc = "fetch"
    /\ pull' = [pull EXCEPT ![p] = IF to = pull[p].start THEN IdlePull ELSE [@ EXCEPT !.pc = "gate", !.to = to]]
    /\ UNCHANGED <<sharedVars, changelog, pypiBoot, feed, released, forgone>>

\* A transaction that enqueues the releases; enqueue gives up on some (None).
EnqueueReleases(S, skipped) ==
    \E dropped \in SUBSET S :
        /\ errors + Cardinality(dropped) <= MaxErrors
        /\ errors' = errors + Cardinality(dropped)
        /\ released' = released \union (S \ dropped)
        /\ Learn({NameOf(s) : s \in S \ dropped})
        /\ forgone' = forgone \union dropped \union skipped

\* brand_new: created in this batch, before the release.
NewInBatch(s, start) == Created(NameOf(s), start + 1 .. s)

GatePull(p) ==
    LET q == pull[p]
        batch == Releases(q.start + 1 .. q.to)
        admitted == {s \in batch : Listed(NameOf(s)) \/ (~exclusive /\ NewInBatch(s, q.start))} IN
    /\ q.pc = "gate"
    /\ EnqueueReleases(admitted, {s \in batch \ admitted : ~Listed(NameOf(s))})
    /\ pull' = [pull EXCEPT ![p].pc = "save"]
    /\ UNCHANGED <<cursor, listVars, booted, restarts, changelog, pypiBoot, feed>>

\* Mutant: the serial of the last event fetched, not of the last one kept.
SavedSerialUncut(q) == Len(changelog)
\* max_serial
SavedSerial(q) == q.to

SaveSerial(p) ==
    /\ pull[p].pc = "save"
    /\ cursor' = SavedSerial(pull[p])
    /\ pull' = [pull EXCEPT ![p] = IdlePull]
    /\ UNCHANGED <<known, listVars, booted, errors, restarts, changelog, pypiBoot, feed, released, forgone>>

\* The XML-RPC call or a transaction fails.
PullAborts(p) ==
    /\ pull[p].pc \in {"fetch", "gate", "save"} /\ Fault
    /\ pull' = [pull EXCEPT ![p] = IdlePull]
    /\ UNCHANGED <<cursor, known, listVars, booted, restarts, changelog, pypiBoot, feed, released, forgone>>

-----------------------------------------------------------------------------
(* poll_feeds_once: the boot polls the feeds before it pulls               *)

ReadUpdates(p) ==
    /\ feed[p].pc = "idle" /\ (p = "boot" => ~booted)
    /\ feed' = [feed EXCEPT ![p] = [IdleFeed EXCEPT !.pc = "packages", !.updates = Newest(Releases(DOMAIN changelog))]]
    /\ UNCHANGED <<sharedVars, changelog, pypiBoot, pull, released, forgone>>

\* The packages feed is read, and what the gate admits is enqueued; the rest goes to the
\* anomaly gate.
GateFeed(p) ==
    LET creations == Newest({s \in DOMAIN changelog : changelog[s].act = "create"})
        admitted == {s \in feed[p].updates :
            Listed(NameOf(s)) \/ (~exclusive /\ Created(NameOf(s), creations))}
        rest == IF exclusive THEN {} ELSE feed[p].updates \ admitted IN
    /\ feed[p].pc = "packages"
    /\ EnqueueReleases(admitted, {})
    /\ feed' = [feed EXCEPT ![p] = IF rest = {} THEN IdleFeed
                                   ELSE [IdleFeed EXCEPT !.pc = "anomaly", !.suspects = rest]]
    /\ UNCHANGED <<cursor, listVars, booted, restarts, changelog, pypiBoot, pull>>

\* check_candidates: the newest release of some names differs from the one before.
FeedAnomalies(p) ==
    /\ feed[p].pc = "anomaly"
    /\ \E hits \in SUBSET {NameOf(s) : s \in feed[p].suspects} :
        /\ Cardinality(hits) <= FeedChecks
        /\ EnqueueReleases({Max({s \in Releases(DOMAIN changelog) : NameOf(s) = n}) : n \in hits}, {})
    /\ feed' = [feed EXCEPT ![p] = IdleFeed]
    /\ UNCHANGED <<cursor, listVars, booted, restarts, changelog, pypiBoot, pull>>

\* A feed cannot be fetched, or a transaction fails.
FeedAborts(p) ==
    /\ feed[p].pc # "idle" /\ Fault
    /\ feed' = [feed EXCEPT ![p] = IdleFeed]
    /\ UNCHANGED <<cursor, known, listVars, booted, restarts, changelog, pypiBoot, pull, released, forgone>>

-----------------------------------------------------------------------------

PypiRestart ==
    /\ ProcessDies
    /\ pull' = [p \in Polls |-> IdlePull] /\ feed' = [p \in Polls |-> IdleFeed]
    /\ UNCHANGED <<cursor, known, listVars, errors, changelog, pypiBoot, released, forgone>>

PypiOthers == \E n \in Projects : OthersEnqueue(n) /\ UNCHANGED pypiOwn

PypiNext ==
    \/ \E e \in Event : RegistryEvent(e)
    \/ \E p \in Polls :
        \/ BeginPull(p) \/ BootstrapSerial(p) \/ FetchEntries(p) \/ GatePull(p) \/ SaveSerial(p) \/ PullAborts(p)
        \/ ReadUpdates(p) \/ GateFeed(p) \/ FeedAnomalies(p) \/ FeedAborts(p)
    \/ PypiRestart
    \/ PypiOthers

PypiSpec == PypiInit /\ [][PypiNext]_pypiVars

-----------------------------------------------------------------------------
(* Properties                                                              *)

\* Behind the saved serial no release is lost: that of a listed package, or one pulled together
\* with the creation of its package, is in the scan queue, whatever pulls overlap, fail or are
\* cut off by a restart; excepted is what enqueue visibly gave up on.  A release whose creation
\* was read by an earlier pull is left to the feed.
PypiNothingLost ==
    \A s \in Releases(DOMAIN changelog) :
        pypiBoot < s /\ s <= cursor /\ s \notin forgone /\ (exclusive => NameOf(s) \in focus) => s \in released
=============================================================================
