------------------------------ MODULE ScanQueue ------------------------------
(***************************************************************************)
(* The scan queue of pkgward and everybody who writes its rows: the ingest *)
(* pollers and the rescan command (queue.enqueue), the worker pool         *)
(* (workers._worker_loop), the scan it runs (pipeline.process_one and      *)
(* pipeline._persist_and_finalize), and the janitors (sweep_stale_claims,  *)
(* prune_terminal).                                                        *)
(*                                                                         *)
(* The database runs READ COMMITTED.  Only claim_next compares and sets in *)
(* SQL; every other writer loads the row into its session, decides on the  *)
(* loaded copy, and later issues UPDATE ... WHERE id = ..., so each is two *)
(* actions: one that reads and decides (the decision is all that survives  *)
(* of the copy), and one that applies the decision to the row as it then   *)
(* is.  An UPDATE that finds its row deleted raises and rolls back.        *)
(*                                                                         *)
(* A claim is named by its token (a uuid); run[t] is the worker coroutine  *)
(* of claim t with the thread it awaits.  A worker timeout cancels the     *)
(* coroutine only: the thread goes on, which is why both are kept.         *)
(* Time is counted in ticks; ages are saturated at AgeCap.                 *)
(***************************************************************************)
EXTENDS Integers, FiniteSets

CONSTANTS
    Items,           \* the (ecosystem, name, version) keys
    Tokens,          \* claim tokens; a token is taken again only once nobody holds it
    Pollers,         \* sessions that may be inside enqueue at the same time
    Sweepers,        \* hosts whose scheduler runs sweep_stale_claims
    HotItems,        \* the packages whose rule verdict is malicious or suspicious
    NumWorkers,      \* worker coroutines, over all hosts
    MaxAttempts,     \* queue.MAX_AUTO_ATTEMPTS
    ProcessTimeout,  \* workers.PROCESS_TIMEOUT_SECONDS, in ticks
    Lag,             \* how late a timed-out worker may let go (cleanup, slow loop, slow DB)
    StaleTimeout,    \* queue.STALE_CLAIM_TIMEOUT_SECONDS, in ticks
    Retention,       \* queue.QUEUE_RETENTION_DAYS, in ticks
    MaxRescans,      \* bound: how often the rescan command is used
    NoToken, NoItem

ASSUME HotAssumption == HotItems \subseteq Items
ASSUME BoundAssumption ==
    /\ NumWorkers \in Nat /\ MaxAttempts \in Nat /\ MaxRescans \in Nat
    /\ ProcessTimeout \in Nat /\ Lag \in Nat /\ StaleTimeout \in Nat /\ Retention \in Nat
\* What queue.py asks of the two timeouts: clear daylight between them.
ASSUME DaylightAssumption == ProcessTimeout + Lag <= StaleTimeout
ASSUME RetentionAssumption == StaleTimeout <= Retention
ASSUME NoneAssumption == NoToken \notin Tokens /\ NoItem \notin Items
ASSUME HostsAssumption == IsFiniteSet(Pollers) /\ IsFiniteSet(Sweepers)

VARIABLES
    row,      \* the scan_queue table
    run,      \* the claims being worked on
    plan,     \* per poller: what enqueue decided and has not flushed yet
    sweep,    \* per sweeper and item: what sweep_stale_claims decided and has not flushed
    rescans,  \* rescan commands used so far
    scans,    \* per item: the kinds of Scan persisted for it so far
    handled   \* items whose alert decision has been carried out

vars == <<row, run, plan, sweep, rescans, scans, handled>>

AgeCap == Retention + 1
Older(n) == IF n < AgeCap THEN n + 1 ELSE n

-----------------------------------------------------------------------------
(* State                                                                   *)

Statuses == {"absent", "pending", "claimed", "done", "failed"}
Terminal == {"done", "failed"}

\* age counts from claimed_at while claimed and from finished_at once terminal.
Row == [status : Statuses, attempts : Nat, token : Tokens \union {NoToken}, age : 0 .. AgeCap]
AbsentRow == [status |-> "absent", attempts |-> 0, token |-> NoToken, age |-> 0]

\* Where the coroutine is: between claim and _load_claimed, fetching and
\* analysing, awaiting a thread, or inside _fail_row (before and after its read).
CoStates == {"idle", "load", "work", "await", "fail", "failing"}
\* Where the thread is: transaction 1 (before and after reading the row), LLM
\* triage and alert, the final mark_done, the rule-hit bump, _mark_queue_failed.
ThStates == {"none", "tx1", "tx1ing", "triage", "final", "finaling", "bump", "qfail", "qfailing"}
Fetches == {"none", "ok", "no_files", "mismatch", "no_adapter"}
Persisted == {"ok", "no_files", "mismatch"}
\* A status write that is due, one that leaves the loaded status as it was (the
\* ORM then updates finished_at only), or none because the token did not match.
Decisions == {"none", "write", "touch", "skip"}

Run == [item : Items \union {NoItem}, co : CoStates, th : ThStates, fetch : Fetches,
        due : Decisions, timer : 0 .. ProcessTimeout + Lag]
IdleRun == [item |-> NoItem, co |-> "idle", th |-> "none", fetch |-> "none",
            due |-> "none", timer |-> 0]
ClaimedRun(i) == [item |-> i, co |-> "load", th |-> "none", fetch |-> "none",
                  due |-> "none", timer |-> 0]

\* The ORM writes only the columns that differ from the loaded copy: clear says
\* whether the copy had a claim_token to reset.
NoPlan == [op |-> "none", item |-> NoItem, clear |-> FALSE]
Plan == [op : {"none", "insert", "promote"}, item : Items \union {NoItem}, clear : BOOLEAN]
InsertPlan(i) == [op |-> "insert", item |-> i, clear |-> FALSE]
\* A hot Scan owes an alert decision; the two fetch errors leave a Scan as well.
ScanKinds == {"clean", "hot", "no_files", "mismatch"}
SweepPlans == {"keep", "requeue", "fail"}

TypeOK ==
    /\ row \in [Items -> Row]
    /\ run \in [Tokens -> Run]
    /\ plan \in [Pollers -> Plan]
    /\ sweep \in [Sweepers -> [Items -> SweepPlans]]
    /\ rescans \in 0 .. MaxRescans
    /\ scans \in [Items -> SUBSET ScanKinds]
    /\ handled \subseteq Items

Init ==
    /\ row = [i \in Items |-> AbsentRow]
    /\ run = [t \in Tokens |-> IdleRun]
    /\ plan = [p \in Pollers |-> NoPlan]
    /\ sweep = [s \in Sweepers |-> [i \in Items |-> "keep"]]
    /\ rescans = 0
    /\ scans = [i \in Items |-> {}]
    /\ handled = {}

Item(t) == run[t].item
Busy == {t \in Tokens : run[t].co # "idle"}

\* The ORM writes of a terminal status: mark_done and mark_failed keep the
\* token and the attempts and stamp finished_at.
Finish(i, status) == [row EXCEPT ![i].status = status, ![i].age = 0]
\* Setting a status the loaded copy already had stamps finished_at alone.
Touch(i) == [row EXCEPT ![i].age = IF row[i].status \in Terminal THEN 0 ELSE @]
\* Back to pending, the attempts kept.
Released(r, clear) == [status |-> "pending", attempts |-> r.attempts,
                       token |-> IF clear THEN NoToken ELSE r.token, age |-> 0]
Apply(i, due, status) ==
    CASE due = "write" -> Finish(i, status)
      [] due = "touch" -> Touch(i)
      [] OTHER -> row

-----------------------------------------------------------------------------
(* queue.enqueue                                                           *)

PromotePlan(i) == [op |-> "promote", item |-> i, clear |-> row[i].token # NoToken]

\* Mutant: the attempts cap is not looked at.
RetriableUncapped(i) == row[i].status = "failed"

\* A failed row is retried by ingest only below the cap.
Retriable(i) == row[i].status = "failed" /\ row[i].attempts < MaxAttempts

\* The SELECT of enqueue(allow_rescan=False), where it leads to a write.
EnqueueRead(p, i) ==
    /\ plan[p] = NoPlan
    /\ \/ row[i].status = "absent" /\ plan' = [plan EXCEPT ![p] = InsertPlan(i)]
       \/ Retriable(i) /\ plan' = [plan EXCEPT ![p] = PromotePlan(i)]
    /\ UNCHANGED <<row, run, sweep, rescans, scans, handled>>

\* The SELECT of enqueue(allow_rescan=True): any terminal row is reset.
RescanRead(p, i) ==
    /\ plan[p] = NoPlan /\ rescans < MaxRescans
    /\ \/ row[i].status = "absent" /\ plan' = [plan EXCEPT ![p] = InsertPlan(i)]
       \/ row[i].status \in Terminal /\ plan' = [plan EXCEPT ![p] = PromotePlan(i)]
    /\ rescans' = rescans + 1
    /\ UNCHANGED <<row, run, sweep, scans, handled>>

\* The INSERT: a concurrent insert of the same key makes it return None.
InsertFlush(p) ==
    /\ plan[p].op = "insert"
    /\ LET i == plan[p].item IN
       row' = IF row[i].status = "absent" THEN [row EXCEPT ![i] = [AbsentRow EXCEPT !.status = "pending"]]
              ELSE row
    /\ plan' = [plan EXCEPT ![p] = NoPlan]
    /\ UNCHANGED <<run, sweep, rescans, scans, handled>>

\* The UPDATE back to pending; the attempts stay.  A deleted row: StaleDataError.
PromoteFlush(p) ==
    /\ plan[p].op = "promote"
    /\ LET i == plan[p].item IN
       row' = IF row[i].status = "absent" THEN row
              ELSE [row EXCEPT ![i] = Released(row[i], plan[p].clear)]
    /\ plan' = [plan EXCEPT ![p] = NoPlan]
    /\ UNCHANGED <<run, sweep, rescans, scans, handled>>

\* Deadlock or lock timeout on the unique index until the retries are used up,
\* or any error that rolls the poll's transaction back.
EnqueueGiveUp(p) ==
    /\ plan[p] # NoPlan
    /\ plan' = [plan EXCEPT ![p] = NoPlan]
    /\ UNCHANGED <<row, run, sweep, rescans, scans, handled>>

-----------------------------------------------------------------------------
(* queue.claim_next and workers._worker_loop                               *)

Fresh(t) == run[t] = IdleRun /\ \A i \in Items : row[i].token # t

\* The UPDATE ... WHERE status = 'pending' of claim_next, by a free worker.
\* Which pending row is offered (tier, ecosystem, age) is left open here.
ClaimNext(t, i) ==
    /\ Fresh(t) /\ Cardinality(Busy) < NumWorkers
    /\ row[i].status = "pending"
    /\ row' = [row EXCEPT ![i] = [status |-> "claimed", attempts |-> row[i].attempts + 1,
                                  token |-> t, age |-> 0]]
    /\ run' = [run EXCEPT ![t] = ClaimedRun(i)]
    /\ UNCHANGED <<plan, sweep, rescans, scans, handled>>

\* The coroutine ends; a thread it no longer awaits keeps the claim's run alive.
CoEnds(t) ==
    IF run[t].th = "none" THEN IdleRun ELSE [run[t] EXCEPT !.co = "idle", !.timer = 0]
\* The thread ends; the coroutine that awaited it returns with it.
ThEnds(t) ==
    IF run[t].co \in {"fail", "failing"}
    THEN [run[t] EXCEPT !.th = "none", !.fetch = "none", !.due = "none"]
    ELSE IdleRun

InScan == {"load", "work", "await"}

\* asyncio.wait_for gives up: the coroutine is cancelled and turns to _fail_row.
\* A thread that runs is not stopped; one still queued in the executor is dropped.
WorkerTimeout(t) ==
    /\ run[t].co \in InScan /\ run[t].timer >= ProcessTimeout
    /\ \/ run' = [run EXCEPT ![t].co = "fail"]
       \/ run[t].th \in {"tx1", "qfail"}
          /\ run' = [run EXCEPT ![t].co = "fail", ![t].th = "none", ![t].fetch = "none"]
    /\ UNCHANGED <<row, plan, sweep, rescans, scans, handled>>

\* _fail_row reads: it acts on rows that are not yet terminal and still carry its token.
FailRowRead(t) ==
    /\ run[t].co = "fail"
    /\ LET i == Item(t) IN
       run' = [run EXCEPT ![t] =
                 IF row[i].status \notin Terminal \union {"absent"} /\ row[i].token = t
                 THEN [@ EXCEPT !.co = "failing"] ELSE CoEnds(t)]
    /\ UNCHANGED <<row, plan, sweep, rescans, scans, handled>>

\* _fail_row writes, or its own error is logged and swallowed.
FailRowFlush(t) ==
    /\ run[t].co = "failing"
    /\ \/ row[Item(t)].status # "absent" /\ row' = Finish(Item(t), "failed")
       \/ UNCHANGED row
    /\ run' = [run EXCEPT ![t] = CoEnds(t)]
    /\ UNCHANGED <<plan, sweep, rescans, scans, handled>>

-----------------------------------------------------------------------------
(* pipeline.process_one                                                    *)

\* _load_claimed: a row that is gone, no longer claimed, or claimed by another
\* token ends the scan; an ecosystem without adapter, or an error, fails it.
LoadClaimed(t) ==
    /\ run[t].co = "load"
    /\ LET i == Item(t) IN
       IF row[i].status = "claimed" /\ row[i].token = t
       THEN \/ run' = [run EXCEPT ![t].co = "work"]
            \/ run' = [run EXCEPT ![t].co = "await", ![t].th = "qfail", ![t].fetch = "no_adapter"]
            \/ run' = [run EXCEPT ![t].co = "fail"]
       ELSE run' = [run EXCEPT ![t] = IdleRun]
    /\ UNCHANGED <<row, plan, sweep, rescans, scans, handled>>

\* Fetch, extraction and analysis end: with archives, with one of the two fetch
\* errors that are persisted too, or with an exception.
ScanWork(t) ==
    /\ run[t].co = "work"
    /\ \/ \E f \in Persisted :
            run' = [run EXCEPT ![t].co = "await", ![t].th = "tx1", ![t].fetch = f]
       \/ run' = [run EXCEPT ![t].co = "await", ![t].th = "qfail"]
    /\ UNCHANGED <<row, plan, sweep, rescans, scans, handled>>

\* What an exception in the thread leads to: process_one catches it and calls
\* _mark_queue_failed if it is still awaiting; nobody hears a cancelled one.
ThRaises(t) ==
    IF run[t].co = "await"
    THEN [run[t] EXCEPT !.th = "qfail", !.fetch = "none", !.due = "none"]
    ELSE ThEnds(t)

\* mark_done / mark_failed on the loaded copy.
Decide(t, status) ==
    CASE row[Item(t)].token # t -> "skip"
      [] row[Item(t)].token = t /\ row[Item(t)].status = status -> "touch"
      [] OTHER -> "write"

\* _mark_queue_failed reads: anything but a done row that carries its token.
MarkQueueFailedRead(t) ==
    /\ run[t].th = "qfail"
    /\ LET i == Item(t) IN
       run' = [run EXCEPT ![t] =
                 IF row[i].status \in {"absent", "done"} \/ row[i].token # t THEN ThEnds(t)
                 ELSE [@ EXCEPT !.th = "qfailing", !.due = Decide(t, "failed")]]
    /\ UNCHANGED <<row, plan, sweep, rescans, scans, handled>>

\* Its own error is swallowed by process_one, except where no adapter was found:
\* that call stands outside the try, and the worker loop answers with _fail_row.
MarkQueueFailedFlush(t) ==
    /\ run[t].th = "qfailing"
    /\ \/ /\ row[Item(t)].status # "absent"
          /\ row' = Apply(Item(t), run[t].due, "failed")
          /\ run' = [run EXCEPT ![t] = ThEnds(t)]
       \/ /\ run' = [run EXCEPT ![t] =
                      IF run[t].fetch = "no_adapter" /\ run[t].co = "await"
                      THEN [@ EXCEPT !.co = "fail", !.th = "none", !.fetch = "none", !.due = "none"]
                      ELSE ThEnds(t)]
          /\ UNCHANGED row
    /\ UNCHANGED <<plan, sweep, rescans, scans, handled>>

-----------------------------------------------------------------------------
(* pipeline._persist_and_finalize, in its own thread                       *)

\* Does this scan end in transaction 1, or does it defer mark_done to triage?
Triaged(t) == run[t].fetch = "ok" /\ Item(t) \in HotItems
ScanKind(t) == CASE run[t].fetch # "ok" -> run[t].fetch
                 [] Triaged(t) -> "hot"
                 [] OTHER -> "clean"
\* Mutant: a release without files is marked done like the other fetch error.
Tx1StatusDone(t) == "done"
Tx1Status(t) == IF run[t].fetch = "no_files" THEN "failed" ELSE "done"

\* Mutant: transaction 1 finalizes the row of a scan that still goes to triage.
Tx1ReadEager(t) ==
    /\ run[t].th = "tx1"
    /\ run' = [run EXCEPT ![t] =
                 IF row[Item(t)].status = "absent" THEN ThEnds(t)
                 ELSE [@ EXCEPT !.th = "tx1ing", !.due = Decide(t, Tx1Status(t))]]
    /\ UNCHANGED <<row, plan, sweep, rescans, scans, handled>>

\* Transaction 1 reads the queue row (only its existence is checked here; the
\* token is compared by mark_done, on this copy, at the end of the transaction).
Tx1Read(t) ==
    /\ run[t].th = "tx1"
    /\ run' = [run EXCEPT ![t] =
                 IF row[Item(t)].status = "absent" THEN ThEnds(t)
                 ELSE [@ EXCEPT !.th = "tx1ing",
                                !.due = IF Triaged(t) THEN "skip" ELSE Decide(t, Tx1Status(t))]]
    /\ UNCHANGED <<row, plan, sweep, rescans, scans, handled>>

\* Transaction 1 commits: the Scan with its findings, and the queue row unless
\* triage is still to come.
Tx1Commit(t) ==
    /\ run[t].th = "tx1ing"
    /\ row[Item(t)].status = "absent" => run[t].due = "skip"
    /\ row' = Apply(Item(t), run[t].due, Tx1Status(t))
    /\ scans' = [scans EXCEPT ![Item(t)] = @ \union {ScanKind(t)}]
    /\ run' = [run EXCEPT ![t] =
                 CASE run[t].fetch # "ok" -> ThEnds(t)
                   [] Triaged(t) -> [@ EXCEPT !.th = "triage", !.due = "none"]
                   [] OTHER -> [@ EXCEPT !.th = "bump", !.due = "none"]]
    /\ UNCHANGED <<plan, sweep, rescans, handled>>

\* Any error before the commit (a deleted queue row and, for the fetch errors,
\* the rule-hit bump included) rolls all of transaction 1 back.
Tx1Abort(t) ==
    /\ run[t].th = "tx1ing"
    /\ run' = [run EXCEPT ![t] = ThRaises(t)]
    /\ UNCHANGED <<row, plan, sweep, rescans, scans, handled>>

\* LLM triage, the transaction that records it, vault and alert: no queue row is
\* touched.  An error in between ends the thread before the alert.
TriageAlert(t) ==
    /\ run[t].th = "triage"
    /\ \/ handled' = handled \union {Item(t)} /\ run' = [run EXCEPT ![t].th = "final"]
       \/ UNCHANGED handled /\ run' = [run EXCEPT ![t] = ThRaises(t)]
    /\ UNCHANGED <<row, plan, sweep, rescans, scans>>

\* The final mark_done, after the alert.
FinalRead(t) ==
    /\ run[t].th = "final"
    /\ run' = [run EXCEPT ![t] =
                 IF row[Item(t)].status = "absent" \/ row[Item(t)].token # t
                 THEN [@ EXCEPT !.th = "bump"]
                 ELSE [@ EXCEPT !.th = "finaling", !.due = Decide(t, "done")]]
    /\ UNCHANGED <<row, plan, sweep, rescans, scans, handled>>

FinalFlush(t) ==
    /\ run[t].th = "finaling"
    /\ \/ /\ row[Item(t)].status # "absent"
          /\ row' = Apply(Item(t), run[t].due, "done")
          /\ run' = [run EXCEPT ![t].th = "bump", ![t].due = "none"]
       \/ UNCHANGED row /\ run' = [run EXCEPT ![t] = ThRaises(t)]
    /\ UNCHANGED <<plan, sweep, rescans, scans, handled>>

\* Maintainer pivot (never raises) and the rule-hit counters (may raise).
BumpRuleHits(t) ==
    /\ run[t].th = "bump"
    /\ \/ run' = [run EXCEPT ![t] = ThEnds(t)]
       \/ run' = [run EXCEPT ![t] = ThRaises(t)]
    /\ UNCHANGED <<row, plan, sweep, rescans, scans, handled>>

-----------------------------------------------------------------------------
(* The janitors, the clock and crashes                                     *)

\* Mutants: the stale cutoff is the process timeout; rows out of attempts are
\* left out of the sweep's SELECT.
StaleAtTimeout(i) == row[i].status = "claimed" /\ row[i].age > ProcessTimeout
StaleWithAttemptsLeft(i) ==
    row[i].status = "claimed" /\ row[i].age > StaleTimeout /\ row[i].attempts < MaxAttempts

\* claimed_at < now - STALE_CLAIM_TIMEOUT_SECONDS
Stale(i) == row[i].status = "claimed" /\ row[i].age > StaleTimeout

\* Mutant: the row status is used where the decision belongs.
SweepDecisionStatus(i) == IF row[i].attempts >= MaxAttempts THEN "failed" ELSE "pending"

\* What the sweep does with a stale claim: back to pending until the attempts
\* are used up.
SweepDecision(i) == IF row[i].attempts >= MaxAttempts THEN "fail" ELSE "requeue"

SweepRead(s) ==
    /\ \A i \in Items : sweep[s][i] = "keep"
    /\ \E i \in Items : Stale(i)
    /\ sweep' = [sweep EXCEPT ![s] = [i \in Items |-> IF Stale(i) THEN SweepDecision(i) ELSE "keep"]]
    /\ UNCHANGED <<row, run, plan, rescans, scans, handled>>

\* Mutant: the status is guarded by WHERE claimed_at < cutoff, the token is not.
SweepFlushHalf(s) ==
    /\ \E i \in Items : sweep[s][i] # "keep"
    /\ row' = [i \in Items |->
                 CASE sweep[s][i] = "fail" /\ Stale(i) -> [row[i] EXCEPT !.status = "failed", !.age = 0]
                   [] sweep[s][i] = "requeue" -> [row[i] EXCEPT !.token = NoToken,
                                                 !.status = IF Stale(i) THEN "pending" ELSE @]
                   [] OTHER -> row[i]]
    /\ sweep' = [sweep EXCEPT ![s] = [i \in Items |-> "keep"]]
    /\ UNCHANGED <<run, plan, rescans, scans, handled>>

\* One flush for all of them; a row deleted meanwhile rolls all of them back.
SweepFlush(s) ==
    /\ \E i \in Items : sweep[s][i] # "keep"
    /\ row' = IF \E i \in Items : sweep[s][i] # "keep" /\ row[i].status = "absent" THEN row
              ELSE [i \in Items |->
                      CASE sweep[s][i] = "fail" -> [row[i] EXCEPT !.status = "failed", !.age = 0]
                        [] sweep[s][i] = "requeue" -> Released(row[i], TRUE)
                        [] OTHER -> row[i]]
    /\ sweep' = [sweep EXCEPT ![s] = [i \in Items |-> "keep"]]
    /\ UNCHANGED <<run, plan, rescans, scans, handled>>

\* One DELETE for every terminal row past the retention.
PruneTerminal ==
    /\ \E i \in Items : row[i].status \in Terminal /\ row[i].age > Retention
    /\ row' = [i \in Items |-> IF row[i].status \in Terminal /\ row[i].age > Retention
                               THEN AbsentRow ELSE row[i]]
    /\ UNCHANGED <<run, plan, sweep, rescans, scans, handled>>

\* A worker that is due to let go does so within Lag ticks.
Tick ==
    /\ \A t \in Busy : run[t].timer < ProcessTimeout + Lag
    /\ row' = [i \in Items |-> IF row[i].status \in Terminal \union {"claimed"}
                               THEN [row[i] EXCEPT !.age = Older(@)] ELSE row[i]]
    /\ run' = [t \in Tokens |-> IF t \in Busy THEN [run[t] EXCEPT !.timer = @ + 1] ELSE run[t]]
    /\ UNCHANGED <<plan, sweep, rescans, scans, handled>>

\* The process of a worker dies (or is restarted), with the threads it started.
Crash(t) ==
    /\ run[t] # IdleRun
    /\ run' = [run EXCEPT ![t] = IdleRun]
    /\ UNCHANGED <<row, plan, sweep, rescans, scans, handled>>

RunStep(t) ==
    \/ WorkerTimeout(t) \/ FailRowRead(t) \/ FailRowFlush(t)
    \/ LoadClaimed(t) \/ ScanWork(t)
    \/ MarkQueueFailedRead(t) \/ MarkQueueFailedFlush(t)
    \/ Tx1Read(t) \/ Tx1Commit(t) \/ Tx1Abort(t)
    \/ TriageAlert(t) \/ FinalRead(t) \/ FinalFlush(t) \/ BumpRuleHits(t)

PollerStep(p) ==
    \/ \E i \in Items : EnqueueRead(p, i) \/ RescanRead(p, i)
    \/ InsertFlush(p) \/ PromoteFlush(p) \/ EnqueueGiveUp(p)

JanitorStep ==
    \/ \E s \in Sweepers : SweepRead(s) \/ SweepFlush(s)
    \/ PruneTerminal

Next ==
    \/ \E p \in Pollers : PollerStep(p)
    \/ \E t \in Tokens, i \in Items : ClaimNext(t, i)
    \/ \E t \in Tokens : RunStep(t) \/ Crash(t)
    \/ JanitorStep \/ Tick

Spec == Init /\ [][Next]_vars

\* Workers poll every second, threads and coroutines are scheduled, every call
\* they wait for has a timeout, and the scheduler runs the sweep every 2 minutes.
\* Nothing is assumed of the feeds, of crashes, or of an error not happening.
Fairness ==
    /\ \A p \in Pollers : WF_vars(InsertFlush(p) \/ PromoteFlush(p) \/ EnqueueGiveUp(p))
    /\ \A i \in Items : SF_vars(\E t \in Tokens : ClaimNext(t, i))
    /\ \A t \in Tokens : WF_vars(RunStep(t))
    /\ \A s \in Sweepers : WF_vars(SweepRead(s)) /\ WF_vars(SweepFlush(s))
    /\ WF_vars(Tick)

FairSpec == Spec /\ Fairness

-----------------------------------------------------------------------------
(* Properties                                                              *)

\* Whatever stale decision is flushed over it, a claimed row still carries a
\* token: without one neither _load_claimed nor mark_done nor mark_failed would
\* answer to its worker.  (The converse fails: a promote decided on a copy
\* without token leaves the token of a newer claim on the row it releases.)
ClaimHasToken == \A i \in Items : row[i].status = "claimed" => row[i].token # NoToken

\* The sweeper never finds stale a claim whose worker coroutine has not let go
\* of it: PROCESS_TIMEOUT_SECONDS plus the lag stays inside the stale timeout.
LiveClaimFresh ==
    \A i \in Items, t \in Tokens :
        Stale(i) /\ row[i].token = t => run[t].co = "idle"

\* A queue row is done only if its package was really judged: a Scan other than
\* the empty one that no_files leaves is persisted.
DoneHasScan == \A i \in Items : row[i].status = "done" => scans[i] \ {"no_files"} # {}

\* A package the rules convict is done only after its alert decision was carried
\* out, whichever of its claims finished first; the one exception the code has
\* is a fetch that ends in a checksum mismatch, which is never triaged.
DoneHandled ==
    \A i \in HotItems :
        row[i].status = "done" /\ "mismatch" \notin scans[i] => i \in handled

\* Attempts exceed the cap only by the stale decisions that can be in flight at
\* once (one per poller and one per sweeper) and by explicit rescans.
RetryBudget ==
    \A i \in Items :
        row[i].attempts <= MaxAttempts + Cardinality(Pollers) + Cardinality(Sweepers) + rescans

\* Whatever crashes, every pending row is settled: the attempts counted at claim
\* time run out even for a package that kills its worker each time.
PendingSettles ==
    \A i \in Items : row[i].status = "pending" ~> row[i].status \in Terminal

\* A run that really works on the package, in its coroutine or in its thread.
Scanning(t) == run[t].co = "work" \/ run[t].th \in {"tx1", "tx1ing", "triage", "final", "finaling"}

\* Two claims never work on the same package version at once: "additional hosts
\* can drain the same queues with no double-work" (docs/operations.md).
NoDoubleWork ==
    \A t, u \in Tokens : t # u /\ Scanning(t) /\ Scanning(u) => Item(t) # Item(u)

\* A convicting Scan whose alert decision is still open keeps somebody who will
\* come back to it, a run or a row that is retried: "a crash in this window
\* re-scans (and re-alerts) rather than losing the alert" (pipeline.py).
AlertNotLost ==
    \A i \in {j \in Items : "hot" \in scans[j]} \ handled :
        \/ \E t \in Tokens : Item(t) = i
        \/ row[i].status \in {"absent", "pending", "claimed"} \/ Retriable(i)
=============================================================================
