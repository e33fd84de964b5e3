------------------------------ MODULE Detonation ------------------------------
(***************************************************************************)
(* The detonation queue, its worker pool and the Scan row both it and the  *)
(* LLM triage of the scan pipeline write: detonation_queue.py,             *)
(* detonation_worker.py and the triage part of _persist_and_finalize.      *)
(*                                                                         *)
(* As in ScanQueue, only claim_next and the first UPDATE of                *)
(* expire_stale_clean test and set in one statement.  Every other writer   *)
(* decides on a copy it has loaded, and writes the columns that differ     *)
(* from the copy by primary key: it is a reading and a writing action.     *)
(*                                                                         *)
(* run[t] is the worker coroutine of claim t together with the thread it   *)
(* awaits.  The wall-clock timeout covers the network phase alone.  An     *)
(* exception that leaves _detonation_loop ends run_detonation_pool, which  *)
(* cancels its sibling coroutines; a thread one of them awaited goes on.   *)
(***************************************************************************)
EXTENDS Integers, FiniteSets, FiniteSetsExt

CONSTANTS
    Jobs,          \* scans that are detonated; a job is named by its scan_id
    Tokens,        \* claim tokens; taken again only once nobody holds them
    Sweepers,      \* hosts that run the stale-claim sweep
    NumWorkers,    \* detonation workers
    MaxAttempts,   \* detonation_queue.MAX_AUTO_ATTEMPTS
    NetTimeout,    \* DETONATION_PROCESS_TIMEOUT, in ticks
    FinLag,        \* how long finalize and the other database calls may take after it
    StaleTimeout,  \* detonation_queue.STALE_CLAIM_TIMEOUT_SECONDS, in ticks
    Cap,           \* CLEAN_BACKLOG_CAP
    MaxRestarts,   \* bound: process restarts
    MaxDbErrors,   \* bound: database errors outside of the finalize transaction
    NoToken, NoJob

ASSUME BoundAssumption ==
    {NumWorkers, MaxAttempts, NetTimeout, FinLag, StaleTimeout, Cap, MaxRestarts, MaxDbErrors}
        \subseteq Nat
ASSUME AttemptsAssumption == MaxAttempts > 0
\* 300 s for the network, 900 s until a claim is stale.
ASSUME DaylightAssumption == NetTimeout + FinLag <= StaleTimeout
ASSUME NoneAssumption == NoToken \notin Tokens /\ NoJob \notin Jobs

VARIABLES
    job,       \* the detonation_queue table
    run,       \* the claims being worked on
    pool,      \* is run_detonation_pool still running?
    sweep,     \* per sweeper and job: a sweep decision not flushed yet
    doomed,    \* ids expire_stale_clean has selected and not updated yet
    verdict,   \* Scan.verdict
    triage,    \* the pipeline thread that triages the scan
    dets,      \* Detonation rows persisted per scan
    alerted,   \* scans an alert was sent for
    restarts, dbErrors

vars == <<job, run, pool, sweep, doomed, verdict, triage, dets, alerted, restarts, dbErrors>>
scanVars == <<verdict, triage, dets, alerted>>
boundVars == <<restarts, dbErrors>>

-----------------------------------------------------------------------------
(* State                                                                   *)

RuleVerdicts == {"clean", "suspicious", "malicious"}
Verdicts == RuleVerdicts \union {"benign", "inconclusive"}
Settled == {"done", "failed", "expired"}
JobStatuses == {"absent", "pending", "claimed"} \union Settled

\* static is static_verdict, the rule verdict at enqueue time; age counts from claimed_at.
Job == [status : JobStatuses, static : RuleVerdicts, low : BOOLEAN,
        attempts : Nat, token : Tokens \union {NoToken}, age : 0 .. StaleTimeout + 1]
AbsentJob == [status |-> "absent", static |-> "clean", low |-> FALSE,
              attempts |-> 0, token |-> NoToken, age |-> 0]

\* net: fetch and detonate; adapterless: about to _mark_failed; giveup: about to
\* _requeue_or_fail; settling: either of them has read; fin, fining: finalize
\* before and after its read; bump: the rule hits; alert: the flip alert.
CoStates == {"idle", "net", "adapterless", "giveup", "settling", "fin", "fining", "bump", "alert"}
Dues == {"none", "requeue", "fail", "reject"}
\* outer: the call stands in the exception handler of _detonation_loop.
\* awaited: the coroutine is still there.  seen: the copy of Scan.verdict.
Run == [job : Jobs \union {NoJob}, co : CoStates, due : Dues, attempts : Nat, outer : BOOLEAN,
        awaited : BOOLEAN, flip : BOOLEAN, seen : Verdicts, timer : 0 .. NetTimeout + FinLag]
IdleRun == [job |-> NoJob, co |-> "idle", due |-> "none", attempts |-> 0, outer |-> FALSE,
            awaited |-> FALSE, flip |-> FALSE, seen |-> "clean", timer |-> 0]
ClaimedRun(j, phase) == [IdleRun EXCEPT !.job = j, !.co = phase, !.awaited = TRUE]

\* What triage came back with; low_malicious is below MALICIOUS_CONF_FLOOR, none
\* means disabled, crashed or out of budget.
TriageResults == {"none", "malicious", "low_malicious", "suspicious", "benign", "inconclusive"}
Triage == [at : {"none", "llm", "tx", "txing", "alert", "over", "lost"},
           tri : TriageResults, seen : Verdicts]
NoTriage == [at |-> "none", tri |-> "none", seen |-> "clean"]

SweepPlans == {"keep", "requeue", "fail"}

TypeOK ==
    /\ job \in [Jobs -> Job]
    /\ run \in [Tokens -> Run]
    /\ pool \in {"up", "down"}
    /\ sweep \in [Sweepers -> [Jobs -> SweepPlans]]
    /\ doomed \subseteq Jobs
    /\ verdict \in [Jobs -> Verdicts]
    /\ triage \in [Jobs -> Triage]
    /\ dets \in [Jobs -> Nat]
    /\ alerted \subseteq Jobs
    /\ restarts \in 0 .. MaxRestarts /\ dbErrors \in 0 .. MaxDbErrors

Init ==
    /\ job = [j \in Jobs |-> AbsentJob]
    /\ run = [t \in Tokens |-> IdleRun]
    /\ pool = "up"
    /\ sweep = [s \in Sweepers |-> [j \in Jobs |-> "keep"]]
    /\ doomed = {}
    /\ verdict = [j \in Jobs |-> "clean"]
    /\ triage = [j \in Jobs |-> NoTriage]
    /\ dets = [j \in Jobs |-> 0]
    /\ alerted = {}
    /\ restarts = 0 /\ dbErrors = 0

Of(t) == run[t].job
Owns(t) == job[Of(t)].status = "claimed" /\ job[Of(t)].token = t
Working == {t \in Tokens : run[t].awaited}

-----------------------------------------------------------------------------
(* The scan: transaction 1 and triage in pipeline._persist_and_finalize    *)

\* Transaction 1 commits the Scan with its rule verdict and the job.  A package
\* of the watchlist is high priority whatever its verdict.
Enqueue(j) ==
    /\ job[j].status = "absent"
    /\ \E v \in RuleVerdicts, watched \in BOOLEAN :
         /\ job' = [job EXCEPT ![j] = [AbsentJob EXCEPT !.status = "pending", !.static = v,
                                                        !.low = v = "clean" /\ ~watched]]
         /\ verdict' = [verdict EXCEPT ![j] = v]
         /\ triage' = [triage EXCEPT ![j] = IF v = "clean" THEN [@ EXCEPT !.at = "over"]
                                            ELSE [@ EXCEPT !.at = "llm"]]
    /\ UNCHANGED <<run, pool, sweep, doomed, dets, alerted, boundVars>>

\* The LLM answers, is disabled, or crashes.
TriageLlm(j) ==
    /\ triage[j].at = "llm"
    /\ \E r \in TriageResults : triage' = [triage EXCEPT ![j].at = "tx", ![j].tri = r]
    /\ UNCHANGED <<job, run, pool, sweep, doomed, verdict, dets, alerted, boundVars>>

TriageRead(j) ==
    /\ triage[j].at = "tx"
    /\ triage' = [triage EXCEPT ![j].at = "txing", ![j].seen = verdict[j]]
    /\ UNCHANGED <<job, run, pool, sweep, doomed, verdict, dets, alerted, boundVars>>

\* The verdict triage assigns to the Scan: an unsure malicious does not escalate,
\* an inconclusive only softens a verdict below malicious.
Adjudicated(j) ==
    LET rule == job[j].static
        tri == triage[j].tri IN
    CASE tri = "low_malicious" /\ rule # "malicious" -> triage[j].seen
      [] tri = "low_malicious" /\ rule = "malicious" -> "malicious"
      [] tri \in {"malicious", "suspicious", "benign"} -> tri
      [] tri = "inconclusive" /\ rule # "malicious" -> "inconclusive"
      [] OTHER -> triage[j].seen

\* A column is written by the ORM only if it differs from the loaded copy.
Overwrite(current, seen, new) == IF new = seen THEN current ELSE new

TriageCommit(j) ==
    /\ triage[j].at = "txing"
    /\ verdict' = [verdict EXCEPT ![j] = Overwrite(@, triage[j].seen, Adjudicated(j))]
    /\ triage' = [triage EXCEPT ![j].at = "alert"]
    /\ UNCHANGED <<job, run, pool, sweep, doomed, dets, alerted, boundVars>>

\* Mutant: fail closed, alert only if the LLM confirms.
ShouldAlertClosed(j) == triage[j].tri = "malicious"

\* Fail open: alert unless the LLM explicitly cleared it.
ShouldAlert(j) ==
    \/ job[j].static = "malicious" /\ triage[j].tri \notin {"benign", "suspicious"}
    \/ triage[j].tri = "malicious"

TriageAlert(j) ==
    /\ triage[j].at = "alert"
    /\ alerted' = IF ShouldAlert(j) THEN alerted \union {j} ELSE alerted
    /\ triage' = [triage EXCEPT ![j].at = "over"]
    /\ UNCHANGED <<job, run, pool, sweep, doomed, verdict, dets, boundVars>>

\* The thread dies; the queue row is retried, with a Scan and a job of its own.
TriageLost(j) ==
    /\ triage[j].at \in {"llm", "tx", "txing", "alert"}
    /\ triage' = [triage EXCEPT ![j].at = "lost"]
    /\ UNCHANGED <<job, run, pool, sweep, doomed, verdict, dets, alerted, boundVars>>

-----------------------------------------------------------------------------
(* detonation_queue.claim_next and detonation_worker._detonation_loop      *)

Fresh(t) == run[t] = IdleRun /\ \A j \in Jobs : job[j].token # t

\* The attempts are not counted here: a claim is not a failure.  A host without
\* an adapter for the ecosystem has no network phase.
ClaimNext(t, j) ==
    /\ pool = "up" /\ Fresh(t) /\ Cardinality(Working) < NumWorkers
    /\ job[j].status = "pending"
    /\ job' = [job EXCEPT ![j] = [@ EXCEPT !.status = "claimed", !.token = t, !.age = 0]]
    /\ \E phase \in {"net", "adapterless"} : run' = [run EXCEPT ![t] = ClaimedRun(j, phase)]
    /\ UNCHANGED <<pool, sweep, doomed, scanVars, boundVars>>

\* A cancelled coroutine leaves at once in the network phase; a thread it awaits
\* elsewhere ends on its own, but nothing follows it.
Cancelled(r) == IF r.co = "net" THEN IdleRun ELSE [r EXCEPT !.awaited = FALSE]

\* An exception that leaves _detonation_loop ends the pool: gather raises and
\* every other task is cancelled.  raised is the run it came from, if any.
PoolDies(raised) ==
    /\ pool' = "down"
    /\ run' = [u \in Tokens |-> CASE u \in raised -> IdleRun
                                  [] u \in Working \ raised -> Cancelled(run[u])
                                  [] OTHER -> run[u]]

\* _claim_job raises; the loop has no handler for it.
ClaimError ==
    /\ pool = "up" /\ Cardinality(Working) < NumWorkers /\ dbErrors < MaxDbErrors
    /\ PoolDies({})
    /\ dbErrors' = dbErrors + 1
    /\ UNCHANGED <<job, sweep, doomed, scanVars, restarts>>

-----------------------------------------------------------------------------
(* detonation_worker._process_detonation                                   *)

\* The network phase ends with a result or one of the failures that requeue
\* (timeout, no files, fetch error, no answer, status error).
NetEnds(t) ==
    /\ run[t].co = "net"
    /\ \E c \in {"fin", "giveup"} : run' = [run EXCEPT ![t].co = c]
    /\ UNCHANGED <<job, pool, sweep, doomed, scanVars, boundVars>>

\* _mark_failed: the token alone is compared, on the copy.
MarkFailedRead(t) ==
    /\ run[t].co = "adapterless"
    /\ run' = [run EXCEPT ![t] = IF job[Of(t)].token # t THEN IdleRun
                                 ELSE [@ EXCEPT !.co = "settling", !.due = "reject"]]
    /\ UNCHANGED <<job, pool, sweep, doomed, scanVars, boundVars>>

\* Mutant: a failed attempt is never the last.
RequeueDueAlways(t) == "requeue"
RequeueDue(t) == IF job[Of(t)].attempts + 1 >= MaxAttempts THEN "fail" ELSE "requeue"

\* _requeue_or_fail reads: only its own claim, and this failure counts.
RequeueRead(t) ==
    /\ run[t].co = "giveup"
    /\ run' = [run EXCEPT ![t] =
                 IF ~Owns(t) THEN IdleRun
                 ELSE [@ EXCEPT !.co = "settling", !.due = RequeueDue(t),
                                !.attempts = job[Of(t)].attempts + 1]]
    /\ UNCHANGED <<job, pool, sweep, doomed, scanVars, boundVars>>

SettleFlush(t) ==
    /\ run[t].co = "settling"
    /\ job' = [job EXCEPT ![Of(t)] =
                 CASE run[t].due = "requeue" -> [@ EXCEPT !.status = "pending", !.token = NoToken,
                                                          !.attempts = run[t].attempts, !.age = 0]
                   [] run[t].due = "fail" -> [@ EXCEPT !.status = "failed", !.attempts = run[t].attempts]
                   [] OTHER -> [@ EXCEPT !.status = "failed"]]
    /\ run' = [run EXCEPT ![t] = IdleRun]
    /\ UNCHANGED <<pool, sweep, doomed, scanVars, boundVars>>

\* Where an exception of a thread leads: into the handler of _detonation_loop,
\* which calls _requeue_or_fail; nobody hears that of a cancelled coroutine.
ToHandler(t) ==
    IF run[t].awaited THEN [run[t] EXCEPT !.co = "giveup", !.due = "none", !.outer = TRUE] ELSE IdleRun

\* _requeue_or_fail or _mark_failed raises.
SettleError(t) ==
    /\ run[t].co \in {"adapterless", "giveup", "settling"} /\ dbErrors < MaxDbErrors
    /\ IF run[t].awaited /\ run[t].outer THEN PoolDies({t})
       ELSE run' = [run EXCEPT ![t] = ToHandler(t)] /\ UNCHANGED pool
    /\ dbErrors' = dbErrors + 1
    /\ UNCHANGED <<job, sweep, doomed, scanVars, restarts>>

-----------------------------------------------------------------------------
(* detonation_worker._finalize_detonation and the flip alert               *)

\* A job that was taken away meanwhile is dropped.  (The Scan of a job is there:
\* it is deleted only together with the job.)
FinRead(t) ==
    /\ run[t].co = "fin"
    /\ run' = [run EXCEPT ![t] = IF ~Owns(t) THEN IdleRun
                                 ELSE [@ EXCEPT !.co = "fining", !.seen = verdict[Of(t)]]]
    /\ UNCHANGED <<job, pool, sweep, doomed, scanVars, boundVars>>

\* Trace and Detonation row, the new verdict of static and dynamic findings, and
\* mark_done, in one transaction.  Without dynamic findings the verdict stays.
FinCommit(t) ==
    /\ run[t].co = "fining"
    /\ job' = [job EXCEPT ![Of(t)].status = "done"]
    /\ dets' = [dets EXCEPT ![Of(t)] = @ + 1]
    /\ \/ UNCHANGED verdict /\ run' = [run EXCEPT ![t] = IdleRun]
       \/ \E v \in RuleVerdicts :
            /\ verdict' = [verdict EXCEPT ![Of(t)] = Overwrite(@, run[t].seen, v)]
            /\ run' = [run EXCEPT ![t].co = "bump",
                                  ![t].flip = v = "malicious" /\ job[Of(t)].static # "malicious"]
    /\ UNCHANGED <<pool, sweep, doomed, triage, alerted, boundVars>>

\* Any error inside the transaction rolls it back.
FinAbort(t) ==
    /\ run[t].co = "fining"
    /\ run' = [run EXCEPT ![t] = ToHandler(t)]
    /\ UNCHANGED <<job, pool, sweep, doomed, scanVars, boundVars>>

\* The rule hits are counted after the commit, and before the alert.
Bump(t) ==
    /\ run[t].co = "bump"
    /\ \/ run' = [run EXCEPT ![t] = IF run[t].flip /\ run[t].awaited THEN [@ EXCEPT !.co = "alert"]
                                    ELSE IdleRun]
       \/ run' = [run EXCEPT ![t] = ToHandler(t)]
    /\ UNCHANGED <<job, pool, sweep, doomed, scanVars, boundVars>>

SendAlert(t) ==
    /\ run[t].co = "alert"
    /\ alerted' = alerted \union {Of(t)}
    /\ run' = [run EXCEPT ![t] = IdleRun]
    /\ UNCHANGED <<job, pool, sweep, doomed, verdict, triage, dets, boundVars>>

-----------------------------------------------------------------------------
(* The janitors, the clock and restarts                                    *)

\* Mutant: the cutoff is the network timeout.
StaleAtTimeout(j) == job[j].status = "claimed" /\ job[j].age > NetTimeout
\* Mutant: the sweep takes only jobs that have failed before.
StaleAttempted(j) == job[j].status = "claimed" /\ job[j].age > StaleTimeout /\ job[j].attempts > 0
Stale(j) == job[j].status = "claimed" /\ job[j].age > StaleTimeout

\* Mutant: a status instead of a decision.
SweepDecisionStatus(j) == IF job[j].attempts >= MaxAttempts THEN "failed" ELSE "pending"
SweepDecision(j) == IF job[j].attempts >= MaxAttempts THEN "fail" ELSE "requeue"

SweepRead(s) ==
    /\ \A j \in Jobs : sweep[s][j] = "keep"
    /\ \E j \in Jobs : Stale(j)
    /\ sweep' = [sweep EXCEPT ![s] =
                   [j \in Jobs |-> IF Stale(j) THEN SweepDecision(j) ELSE "keep"]]
    /\ UNCHANGED <<job, run, pool, doomed, scanVars, boundVars>>

SweepFlush(s) ==
    /\ \E j \in Jobs : sweep[s][j] # "keep"
    /\ job' = [j \in Jobs |->
                 CASE sweep[s][j] = "fail" -> [job[j] EXCEPT !.status = "failed"]
                   [] sweep[s][j] = "requeue" -> [job[j] EXCEPT !.status = "pending",
                                                               !.token = NoToken, !.age = 0]
                   [] OTHER -> job[j]]
    /\ sweep' = [sweep EXCEPT ![s] = [j \in Jobs |-> "keep"]]
    /\ UNCHANGED <<run, pool, doomed, scanVars, boundVars>>

PendingLow == {j \in Jobs : job[j].status = "pending" /\ job[j].low}
Expired(S) == [j \in Jobs |-> IF j \in S THEN [job[j] EXCEPT !.status = "expired"] ELSE job[j]]

\* expire_stale_clean: the first UPDATE takes the low jobs past their TTL (which
\* ones that are is left open), then the oldest beyond the cap are selected.
ExpireRead ==
    /\ doomed = {} /\ PendingLow # {}
    /\ \E old \in SUBSET PendingLow :
         /\ job' = Expired(old)
         /\ LET rest == PendingLow \ old
                excess == Cardinality(rest) - Cap IN
            doomed' \in IF excess > 0 THEN kSubset(excess, rest) ELSE {{}}
         /\ old # {} \/ doomed' # {}
    /\ UNCHANGED <<run, pool, sweep, scanVars, boundVars>>

\* The second UPDATE goes by id alone.
ExpireFlush ==
    /\ doomed # {}
    /\ job' = Expired(doomed)
    /\ doomed' = {}
    /\ UNCHANGED <<run, pool, sweep, scanVars, boundVars>>

\* The network phase ends by its timeout, everything else within FinLag.
Tick ==
    /\ \A t \in Tokens : run[t].co # "idle" =>
         run[t].timer < (IF run[t].co = "net" THEN NetTimeout ELSE NetTimeout + FinLag)
    /\ \E j \in Jobs : job[j].status = "claimed" /\ job[j].age <= StaleTimeout
    /\ job' = [j \in Jobs |-> IF job[j].status = "claimed" /\ job[j].age <= StaleTimeout
                              THEN [job[j] EXCEPT !.age = @ + 1] ELSE job[j]]
    /\ run' = [t \in Tokens |-> IF run[t].co = "idle" THEN run[t] ELSE [run[t] EXCEPT !.timer = @ + 1]]
    /\ UNCHANGED <<pool, sweep, doomed, scanVars, boundVars>>

\* The process with the pool is restarted.
Restart ==
    /\ restarts < MaxRestarts
    /\ run' = [t \in Tokens |-> IdleRun]
    /\ pool' = "up" /\ restarts' = restarts + 1
    /\ UNCHANGED <<job, sweep, doomed, scanVars, dbErrors>>

RunStep(t) ==
    \/ NetEnds(t) \/ MarkFailedRead(t) \/ RequeueRead(t) \/ SettleFlush(t) \/ SettleError(t)
    \/ FinRead(t) \/ FinCommit(t) \/ FinAbort(t) \/ Bump(t) \/ SendAlert(t)

TriageStep(j) ==
    TriageLlm(j) \/ TriageRead(j) \/ TriageCommit(j) \/ TriageAlert(j) \/ TriageLost(j)

Next ==
    \/ \E j \in Jobs : Enqueue(j) \/ TriageStep(j)
    \/ \E t \in Tokens, j \in Jobs : ClaimNext(t, j)
    \/ \E t \in Tokens : RunStep(t)
    \/ \E s \in Sweepers : SweepRead(s) \/ SweepFlush(s)
    \/ ClaimError \/ ExpireRead \/ ExpireFlush \/ Tick \/ Restart

Spec == Init /\ [][Next]_vars

\* Idle workers poll every second, threads and coroutines are scheduled, and the
\* sweep is a job of every scheduler.  Nothing is assumed of the janitor that
\* expires, of triage, of errors and of restarts.
Fairness ==
    /\ \A j \in Jobs : SF_vars(\E t \in Tokens : ClaimNext(t, j))
    /\ \A t \in Tokens : WF_vars(RunStep(t))
    /\ \A s \in Sweepers : WF_vars(SweepRead(s)) /\ WF_vars(SweepFlush(s))
    /\ WF_vars(Tick)

FairSpec == Spec /\ Fairness

-----------------------------------------------------------------------------
(* Properties                                                              *)

\* However a claim is lost, swept and taken again, a scan is detonated at most
\* once into the database: one Detonation row, one re-score, one flip alert.
OneDetonation == \A j \in Jobs : dets[j] <= 1

\* A job that failed for good has used up its attempts or has no adapter, and no
\* stale write ever pushes the count past the cap.
AttemptsWithinCap == \A j \in Jobs : job[j].attempts <= MaxAttempts

\* No stale decision of a sweep, a requeue or an expiry opens a job again whose
\* result is in the database already.
DetonatedSettled == \A j \in Jobs : dets[j] > 0 => job[j].status \in Settled

\* What triage writes into the Scan and what it alerts on are decided apart, with
\* a fail-open rule in one and a confidence floor in the other: once it is over,
\* a scan that stands malicious, and not by its detonation, has been alerted.
ConvictionAlerted ==
    \A j \in Jobs :
        triage[j].at = "over" /\ dets[j] = 0 /\ verdict[j] = "malicious" => j \in alerted

\* Every job is settled, whatever fails, unless the pool itself has died: then
\* nobody claims again until the process is restarted.
JobSettles ==
    \A j \in Jobs : job[j].status = "pending" ~> (job[j].status \in Settled \/ pool = "down")

\* No alert is sent for a scan whose rule verdict was malicious already, because
\* "static path already alerted on malicious" (tests/test_detonation_worker.py):
\* once both are through, a scan that stands malicious was alerted.
StaticPathAlerted ==
    \A j \in Jobs :
        ( /\ job[j].static = "malicious" /\ verdict[j] = "malicious"
          /\ job[j].status = "done" /\ triage[j].at = "over" )
        => j \in alerted

\* "Expires pending low jobs" (expire_stale_clean): a job that is being worked on
\* is not expired under its worker.
ExpiresPending ==
    [][\A j \in Jobs : job'[j].status = "expired" => job[j].status \in {"pending", "expired"}]_vars
=============================================================================
