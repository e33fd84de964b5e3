-------------------------- MODULE DetonationProofs --------------------------
(***************************************************************************)
(* Safety of Detonation for every number of jobs, workers and claims, and  *)
(* for every choice of timeouts with the daylight detonation_queue.py has  *)
(* between the network timeout and the stale-claim cutoff.                 *)
(***************************************************************************)
EXTENDS Detonation, TLAPS

-----------------------------------------------------------------------------
(* Type correctness: a run that does anything is about a job.              *)

Sound(q) == q \in Run /\ (q.co # "idle" => q.job \in Jobs)

TInv == TypeOK /\ \A t \in Tokens : Sound(run[t])

\* The runs that the steps of the pool leave behind are sound.
LEMMA RunsSound ==
    ASSUME TInv, NEW t \in Tokens
    PROVE  /\ Sound(IdleRun) /\ Sound(Cancelled(run[t]))
           /\ \A j \in Jobs, c \in {"net", "adapterless"} : Sound(ClaimedRun(j, c))
           /\ run[t].co # "idle" =>
                Sound(ToHandler(t)) /\ \A c \in CoStates : Sound([run[t] EXCEPT !.co = c])
  <1>1. 0 \in 0 .. NetTimeout + FinLag
    BY BoundAssumption
  <1>2. run[t] \in Run /\ (run[t].co # "idle" => run[t].job \in Jobs)
    BY DEF TInv, Sound
  <1>3. Sound(IdleRun)
    BY <1>1 DEF Sound, IdleRun, Run, CoStates, Dues, Verdicts, RuleVerdicts
  <1>4. Sound(Cancelled(run[t]))
    <2> DEFINE q == [run[t] EXCEPT !.awaited = FALSE]
    <2>1. q \in Run /\ q.co = run[t].co /\ q.job = run[t].job
      BY <1>2 DEF Run
    <2> QED
      BY <1>2, <1>3, <2>1 DEF Sound, Cancelled
  <1>5. ASSUME run[t].co # "idle", NEW c \in CoStates
        PROVE  Sound([run[t] EXCEPT !.co = c])
    <2> DEFINE q == [run[t] EXCEPT !.co = c]
    <2>1. q \in Run /\ q.job = run[t].job
      BY <1>2 DEF Run
    <2> QED
      BY <1>2, <1>5, <2>1 DEF Sound
  <1>6. ASSUME run[t].co # "idle"
        PROVE  Sound(ToHandler(t))
    <2> DEFINE q == [run[t] EXCEPT !.co = "giveup", !.due = "none", !.outer = TRUE]
    <2>1. q \in Run /\ q.job = run[t].job
      BY <1>2 DEF Run, CoStates, Dues
    <2>2. Sound(q)
      BY <1>2, <1>6, <2>1 DEF Sound
    <2> QED
      BY <1>3, <2>2 DEF ToHandler
  <1>7. ASSUME NEW j \in Jobs, NEW c \in {"net", "adapterless"}
        PROVE  Sound(ClaimedRun(j, c))
    BY <1>1 DEF Sound, ClaimedRun, IdleRun, Run, CoStates, Dues, Verdicts, RuleVerdicts
  <1> QED
    BY <1>3, <1>4, <1>5, <1>6, <1>7

\* A step that replaces one run by a sound one and writes jobs, verdicts, counts
\* and alerts of their types keeps the type invariant.
LEMMA RunReplaced ==
    ASSUME TInv, NEW t \in Tokens, NEW q, Sound(q), run' = [run EXCEPT ![t] = q],
           job' \in [Jobs -> Job], verdict' \in [Jobs -> Verdicts], dets' \in [Jobs -> Nat],
           alerted' \subseteq Jobs, UNCHANGED <<pool, sweep, doomed, triage, boundVars>>
    PROVE  TInv'
  <1>1. run' \in [Tokens -> Run] /\ \A u \in Tokens : Sound(run'[u])
    BY DEF TInv, TypeOK, Sound
  <1>2. TypeOK'
    BY <1>1 DEF TInv, TypeOK, boundVars
  <1> QED
    BY <1>1, <1>2 DEF TInv, Sound

\* When the pool dies every run is idle, cancelled or left alone.
LEMMA PoolDiesType ==
    ASSUME TInv, NEW raised, PoolDies(raised)
    PROVE  run' \in [Tokens -> Run] /\ pool' = "down" /\ \A u \in Tokens : Sound(run'[u])
  <1>1. \A u \in Tokens : Sound(IdleRun) /\ Sound(Cancelled(run[u])) /\ Sound(run[u])
    BY RunsSound DEF TInv
  <1>2. ASSUME NEW u \in Tokens
        PROVE  run'[u] \in {IdleRun, Cancelled(run[u]), run[u]}
    BY DEF PoolDies
  <1>3. \A u \in Tokens : Sound(run'[u])
    BY <1>1, <1>2
  <1>4. \A u \in Tokens : run'[u] \in Run
    BY <1>3 DEF Sound
  <1> QED
    BY <1>3, <1>4 DEF PoolDies

\* What SettleFlush and FinCommit write is a job again.
LEMMA JobWrites ==
    ASSUME TInv, NEW j \in Jobs, NEW n \in Nat
    PROVE  /\ [job[j] EXCEPT !.status = "pending", !.token = NoToken, !.attempts = n, !.age = 0] \in Job
           /\ [job[j] EXCEPT !.status = "pending", !.token = NoToken, !.age = 0] \in Job
           /\ [job[j] EXCEPT !.status = "failed", !.attempts = n] \in Job
           /\ \A s \in JobStatuses : [job[j] EXCEPT !.status = s] \in Job
  <1>1. 0 \in 0 .. StaleTimeout + 1 /\ job[j] \in Job
    BY BoundAssumption DEF TInv, TypeOK
  <1> QED
    BY <1>1 DEF Job, JobStatuses, Settled

\* Every step of a run keeps the type invariant.
LEMMA RunTypeStep ==
    ASSUME TInv, NEW t \in Tokens, RunStep(t)
    PROVE  TInv'
  <1>1. run[t] \in Run /\ (run[t].co # "idle" => Of(t) \in Jobs)
    BY DEF TInv, Sound, Of
  <1>2. Sound(IdleRun)
    BY RunsSound
  <1>3. run[t].co # "idle" =>
          Sound(ToHandler(t)) /\ \A c \in CoStates : Sound([run[t] EXCEPT !.co = c])
    BY RunsSound
  <1>4. /\ job \in [Jobs -> Job] /\ verdict \in [Jobs -> Verdicts] /\ dets \in [Jobs -> Nat]
        /\ alerted \subseteq Jobs /\ run \in [Tokens -> Run]
    BY DEF TInv, TypeOK
  <1>5. \A j \in Jobs : job[j] \in Job /\ job[j].attempts \in Nat
    BY <1>4 DEF Job
  <1>6. ASSUME NEW q, Sound(q), run' = [run EXCEPT ![t] = q],
               UNCHANGED <<job, pool, sweep, doomed, scanVars, boundVars>>
        PROVE  TInv'
    BY <1>4, <1>6, RunReplaced DEF scanVars
  <1>7. CASE NetEnds(t)
    <2>1. PICK c \in {"fin", "giveup"} : run' = [run EXCEPT ![t] = [run[t] EXCEPT !.co = c]]
      BY <1>7 DEF NetEnds
    <2>2. Sound([run[t] EXCEPT !.co = c])
      BY <1>3, <1>7 DEF NetEnds, CoStates
    <2> QED
      BY <1>6, <1>7, <2>1, <2>2 DEF NetEnds
  <1>8. CASE MarkFailedRead(t)
    <2> DEFINE q == [run[t] EXCEPT !.co = "settling", !.due = "reject"]
    <2>1. q \in Run /\ q.job = run[t].job
      BY <1>1 DEF Run, CoStates, Dues
    <2>2. Sound(q)
      BY <1>1, <1>8, <2>1 DEF Sound, Of, MarkFailedRead
    <2> QED
      BY <1>2, <1>6, <1>8, <2>2 DEF MarkFailedRead
  <1>9. CASE RequeueRead(t)
    <2> DEFINE q == [run[t] EXCEPT !.co = "settling", !.due = RequeueDue(t),
                                   !.attempts = job[Of(t)].attempts + 1]
    <2>1. Of(t) \in Jobs
      BY <1>1, <1>9 DEF RequeueRead
    <2>2. RequeueDue(t) \in Dues /\ job[Of(t)].attempts + 1 \in Nat
      BY <1>5, <2>1 DEF RequeueDue, Dues
    <2>3. q \in Run /\ q.job = run[t].job
      BY <1>1, <2>2 DEF Run, CoStates
    <2>4. Sound(q)
      BY <2>1, <2>3 DEF Sound, Of
    <2> QED
      BY <1>2, <1>6, <1>9, <2>4 DEF RequeueRead
  <1>10. CASE SettleFlush(t)
    <2>1. Of(t) \in Jobs /\ run[t].attempts \in Nat
      BY <1>1, <1>10 DEF SettleFlush, Run
    <2>2. job' \in [Jobs -> Job]
      <3>1. \E w \in Job : job' = [job EXCEPT ![Of(t)] = w]
        BY <1>10, <2>1, JobWrites DEF SettleFlush, JobStatuses, Settled
      <3> QED
        BY <1>4, <3>1
    <2> QED
      BY <1>2, <1>4, <1>10, <2>2, RunReplaced DEF SettleFlush, scanVars
  <1>11. CASE SettleError(t)
    <2>1. CASE run[t].awaited /\ run[t].outer
      <3>1. PoolDies({t})
        BY <1>11, <2>1 DEF SettleError
      <3>2. run' \in [Tokens -> Run] /\ pool' = "down" /\ \A u \in Tokens : Sound(run'[u])
        BY <3>1, PoolDiesType
      <3>3. TypeOK'
        BY <1>11, <3>2, BoundAssumption DEF TInv, TypeOK, SettleError, scanVars
      <3> QED
        BY <3>2, <3>3 DEF TInv, Sound
    <2>2. CASE ~(run[t].awaited /\ run[t].outer)
      <3>1. run' = [run EXCEPT ![t] = ToHandler(t)] /\ Sound(ToHandler(t))
        BY <1>3, <1>11, <2>2 DEF SettleError
      <3>2. run' \in [Tokens -> Run] /\ \A u \in Tokens : Sound(run'[u])
        BY <3>1 DEF TInv, TypeOK, Sound
      <3>3. TypeOK'
        BY <1>11, <2>2, <3>2, BoundAssumption DEF TInv, TypeOK, SettleError, scanVars
      <3> QED
        BY <3>2, <3>3 DEF TInv, Sound
    <2> QED
      BY <2>1, <2>2
  <1>12. CASE FinRead(t)
    <2> DEFINE q == [run[t] EXCEPT !.co = "fining", !.seen = verdict[Of(t)]]
    <2>1. Of(t) \in Jobs
      BY <1>1, <1>12 DEF FinRead
    <2>2. q \in Run /\ q.job = run[t].job
      BY <1>1, <1>4, <2>1 DEF Run, CoStates
    <2>3. Sound(q)
      BY <2>1, <2>2 DEF Sound, Of
    <2> QED
      BY <1>2, <1>6, <1>12, <2>3 DEF FinRead
  <1>13. CASE FinCommit(t)
    <2>1. Of(t) \in Jobs
      BY <1>1, <1>13 DEF FinCommit
    <2>2. job' \in [Jobs -> Job]
      <3>1. [job[Of(t)] EXCEPT !.status = "done"] \in Job
        BY <2>1, JobWrites DEF JobStatuses, Settled
      <3> QED
        BY <1>4, <1>13, <3>1 DEF FinCommit
    <2>3. dets' \in [Jobs -> Nat]
      BY <1>4, <1>13, <2>1 DEF FinCommit
    <2>4. CASE UNCHANGED verdict /\ run' = [run EXCEPT ![t] = IdleRun]
      BY <1>2, <1>4, <1>13, <2>2, <2>3, <2>4, RunReplaced DEF FinCommit
    <2>5. CASE ~(UNCHANGED verdict /\ run' = [run EXCEPT ![t] = IdleRun])
      <3>1. PICK v \in RuleVerdicts :
              /\ verdict' = [verdict EXCEPT ![Of(t)] = Overwrite(@, run[t].seen, v)]
              /\ run' = [run EXCEPT ![t].co = "bump",
                                    ![t].flip = v = "malicious" /\ job[Of(t)].static # "malicious"]
        BY <1>13, <2>5 DEF FinCommit
      <3> DEFINE b == v = "malicious" /\ job[Of(t)].static # "malicious"
                 q == [run[t] EXCEPT !.co = "bump", !.flip = b]
      <3>2. b \in BOOLEAN
        OBVIOUS
      <3> HIDE DEF b
      <3>3. q \in Run /\ q.job = run[t].job
        BY <1>1, <3>2 DEF Run, CoStates
      <3>4. Sound(q)
        BY <2>1, <3>3 DEF Sound, Of
      <3>5. run' = [run EXCEPT ![t] = q]
        BY <1>4, <3>1 DEF b
      <3>6. verdict' \in [Jobs -> Verdicts]
        BY <1>4, <3>1 DEF Overwrite, Verdicts
      <3> QED
        BY <1>4, <1>13, <2>2, <2>3, <3>4, <3>5, <3>6, RunReplaced DEF FinCommit
    <2> QED
      BY <2>4, <2>5
  <1>14. CASE FinAbort(t)
    BY <1>3, <1>6, <1>14 DEF FinAbort
  <1>15. CASE Bump(t)
    <2>1. Sound([run[t] EXCEPT !.co = "alert"]) /\ Sound(ToHandler(t))
      BY <1>3, <1>15 DEF Bump, CoStates
    <2> QED
      BY <1>2, <1>6, <1>15, <2>1 DEF Bump
  <1>16. CASE SendAlert(t)
    BY <1>1, <1>2, <1>4, <1>16, RunReplaced DEF SendAlert
  <1> QED
    BY <1>7, <1>8, <1>9, <1>10, <1>11, <1>12, <1>13, <1>14, <1>15, <1>16 DEF RunStep

\* Triage writes the verdict, its own record and the alerts of one scan.
LEMMA TriageTypeStep ==
    ASSUME TInv, NEW j \in Jobs, Enqueue(j) \/ TriageStep(j)
    PROVE  TInv'
  <1>1. /\ job \in [Jobs -> Job] /\ verdict \in [Jobs -> Verdicts] /\ triage \in [Jobs -> Triage]
        /\ alerted \subseteq Jobs /\ triage[j] \in Triage /\ verdict[j] \in Verdicts
    BY DEF TInv, TypeOK
  <1>2. ASSUME NEW a \in {"none", "llm", "tx", "txing", "alert", "over", "lost"}, NEW r \in TriageResults
        PROVE  /\ [triage[j] EXCEPT !.at = a] \in Triage
               /\ [triage[j] EXCEPT !.at = a, !.tri = r] \in Triage
               /\ [triage[j] EXCEPT !.at = a, !.seen = verdict[j]] \in Triage
    BY <1>1 DEF Triage
  <1>3. "none" \in TriageResults
    BY DEF TriageResults
  <1>4. ASSUME job' \in [Jobs -> Job], verdict' \in [Jobs -> Verdicts], triage' \in [Jobs -> Triage],
               alerted' \subseteq Jobs, UNCHANGED <<run, pool, sweep, doomed, dets, boundVars>>
        PROVE  TInv'
    BY <1>4 DEF TInv, TypeOK, Sound, boundVars
  <1>5. CASE Enqueue(j)
    <2>1. PICK v \in RuleVerdicts, watched \in BOOLEAN :
            /\ job' = [job EXCEPT ![j] = [AbsentJob EXCEPT !.status = "pending", !.static = v,
                                                           !.low = v = "clean" /\ ~watched]]
            /\ verdict' = [verdict EXCEPT ![j] = v]
            /\ triage' = [triage EXCEPT ![j] = IF v = "clean" THEN [@ EXCEPT !.at = "over"]
                                               ELSE [@ EXCEPT !.at = "llm"]]
      BY <1>5 DEF Enqueue
    <2> DEFINE low == v = "clean" /\ ~watched
    <2>2. low \in BOOLEAN
      OBVIOUS
    <2> HIDE DEF low
    <2>3. [AbsentJob EXCEPT !.status = "pending", !.static = v, !.low = low] \in Job
      <3>1. 0 \in 0 .. StaleTimeout + 1
        BY BoundAssumption
      <3> QED
        BY <2>2, <3>1 DEF AbsentJob, Job, JobStatuses, RuleVerdicts
    <2>4. job' \in [Jobs -> Job]
      BY <1>1, <2>1, <2>3 DEF low
    <2>5. verdict' \in [Jobs -> Verdicts]
      BY <1>1, <2>1 DEF Verdicts
    <2>6. triage' \in [Jobs -> Triage]
      BY <1>1, <1>2, <1>3, <2>1
    <2> QED
      BY <1>1, <1>4, <1>5, <2>4, <2>5, <2>6 DEF Enqueue
  <1>6. CASE TriageLlm(j)
    BY <1>1, <1>2, <1>4, <1>6 DEF TriageLlm
  <1>7. CASE TriageRead(j)
    BY <1>1, <1>2, <1>3, <1>4, <1>7 DEF TriageRead
  <1>8. CASE TriageCommit(j)
    <2>1. Adjudicated(j) \in Verdicts
      BY <1>1 DEF Adjudicated, Verdicts, RuleVerdicts, Triage
    <2>2. verdict' \in [Jobs -> Verdicts]
      BY <1>1, <1>8, <2>1 DEF TriageCommit, Overwrite
    <2> QED
      BY <1>1, <1>2, <1>3, <1>4, <1>8, <2>2 DEF TriageCommit
  <1>9. CASE TriageAlert(j)
    BY <1>1, <1>2, <1>3, <1>4, <1>9 DEF TriageAlert
  <1>10. CASE TriageLost(j)
    BY <1>1, <1>2, <1>3, <1>4, <1>10 DEF TriageLost
  <1> QED
    BY <1>5, <1>6, <1>7, <1>8, <1>9, <1>10 DEF TriageStep

\* The second selection of expire_stale_clean takes pending low jobs only.
LEMMA DoomedPending ==
    ASSUME NEW rest, NEW n, NEW D, D \in (IF n > 0 THEN kSubset(n, rest) ELSE {{}})
    PROVE  D \subseteq rest
  BY DEF kSubset

\* Every step of the system keeps the type invariant.
LEMMA TypeStep ==
    ASSUME TInv, Next
    PROVE  TInv'
  <1>1. /\ job \in [Jobs -> Job] /\ run \in [Tokens -> Run] /\ \A j \in Jobs : job[j] \in Job
        /\ \A t \in Tokens : run[t] \in Run /\ Sound(run[t])
    BY DEF TInv, TypeOK
  <1>2. ASSUME job' \in [Jobs -> Job], UNCHANGED <<run, pool, scanVars, boundVars>>,
               sweep' \in [Sweepers -> [Jobs -> SweepPlans]], doomed' \subseteq Jobs
        PROVE  TInv'
    BY <1>2 DEF TInv, TypeOK, Sound, boundVars, scanVars
  <1>3. \A S : Expired(S) \in [Jobs -> Job]
    <2>1. \A j \in Jobs : [job[j] EXCEPT !.status = "expired"] \in Job
      BY JobWrites DEF JobStatuses, Settled
    <2> QED
      BY <1>1, <2>1 DEF Expired
  <1>4. ASSUME NEW j \in Jobs, Enqueue(j) \/ TriageStep(j)
        PROVE  TInv'
    BY <1>4, TriageTypeStep
  <1>5. ASSUME NEW t \in Tokens, NEW j \in Jobs, ClaimNext(t, j)
        PROVE  TInv'
    <2>1. [job[j] EXCEPT !.status = "claimed", !.token = t, !.age = 0] \in Job
      <3>1. 0 \in 0 .. StaleTimeout + 1
        BY BoundAssumption
      <3> QED
        BY <1>1, <3>1 DEF Job, JobStatuses
    <2>2. job' \in [Jobs -> Job]
      BY <1>1, <1>5, <2>1 DEF ClaimNext
    <2>3. PICK c \in {"net", "adapterless"} : run' = [run EXCEPT ![t] = ClaimedRun(j, c)]
      BY <1>5 DEF ClaimNext
    <2>4. Sound(ClaimedRun(j, c))
      BY RunsSound
    <2> QED
      BY <1>5, <2>2, <2>3, <2>4, RunReplaced DEF ClaimNext, scanVars, TInv, TypeOK
  <1>6. ASSUME NEW t \in Tokens, RunStep(t)
        PROVE  TInv'
    BY <1>6, RunTypeStep
  <1>7. ASSUME NEW s \in Sweepers, SweepRead(s)
        PROVE  TInv'
    <2>1. sweep' \in [Sweepers -> [Jobs -> SweepPlans]]
      BY <1>7 DEF SweepRead, SweepDecision, SweepPlans, TInv, TypeOK
    <2> QED
      BY <1>1, <1>2, <1>7, <2>1 DEF SweepRead, TInv, TypeOK
  <1>8. ASSUME NEW s \in Sweepers, SweepFlush(s)
        PROVE  TInv'
    <2>1. sweep' \in [Sweepers -> [Jobs -> SweepPlans]]
      BY <1>8 DEF SweepFlush, SweepPlans, TInv, TypeOK
    <2>2. \A j \in Jobs : /\ [job[j] EXCEPT !.status = "pending", !.token = NoToken, !.age = 0] \in Job
                          /\ [job[j] EXCEPT !.status = "failed"] \in Job
      BY JobWrites DEF JobStatuses, Settled
    <2>3. job' \in [Jobs -> Job]
      BY <1>1, <1>8, <2>2 DEF SweepFlush
    <2> QED
      BY <1>2, <1>8, <2>1, <2>3 DEF SweepFlush, TInv, TypeOK
  <1>9. CASE ClaimError
    <2>1. run' \in [Tokens -> Run] /\ pool' = "down" /\ \A u \in Tokens : Sound(run'[u])
      BY <1>9, PoolDiesType DEF ClaimError
    <2>2. TypeOK'
      BY <1>9, <2>1, BoundAssumption DEF ClaimError, TInv, TypeOK, scanVars
    <2> QED
      BY <2>1, <2>2 DEF TInv, Sound
  <1>10. CASE ExpireRead
    <2>1. PICK old \in SUBSET PendingLow :
            /\ job' = Expired(old)
            /\ LET rest == PendingLow \ old
                   excess == Cardinality(rest) - Cap IN
               doomed' \in IF excess > 0 THEN kSubset(excess, rest) ELSE {{}}
      BY <1>10 DEF ExpireRead
    <2>2. doomed' \subseteq PendingLow \ old
      BY <2>1, DoomedPending
    <2>3. doomed' \subseteq Jobs
      BY <2>2 DEF PendingLow
    <2> QED
      BY <1>2, <1>3, <1>10, <2>1, <2>3 DEF ExpireRead, TInv, TypeOK
  <1>11. CASE ExpireFlush
    BY <1>2, <1>3, <1>11 DEF ExpireFlush, TInv, TypeOK
  <1>12. CASE Tick
    <2>1. job' \in [Jobs -> Job]
      <3>1. ASSUME NEW j \in Jobs, job[j].age <= StaleTimeout
            PROVE  [job[j] EXCEPT !.age = @ + 1] \in Job
        <4>1. job[j].age + 1 \in 0 .. StaleTimeout + 1
          BY <1>1, <3>1, BoundAssumption DEF Job
        <4> QED
          BY <1>1, <4>1 DEF Job
      <3> QED
        BY <1>1, <1>12, <3>1 DEF Tick
    <2>2. \A t \in Tokens : Sound(run'[t])
      <3>1. ASSUME NEW t \in Tokens, run[t].co # "idle"
            PROVE  Sound([run[t] EXCEPT !.timer = @ + 1])
        <4> DEFINE q == [run[t] EXCEPT !.timer = @ + 1]
        <4>1. run[t].timer + 1 \in 0 .. NetTimeout + FinLag
          BY <1>1, <1>12, <3>1, BoundAssumption DEF Tick, Run
        <4>2. q \in Run /\ q.job = run[t].job
          BY <1>1, <4>1 DEF Run
        <4> QED
          BY <1>1, <3>1, <4>2 DEF Sound
      <3> QED
        BY <1>1, <1>12, <3>1 DEF Tick
    <2>3. run' \in [Tokens -> Run]
      BY <1>12, <2>2 DEF Tick, Sound
    <2>4. TypeOK'
      BY <1>12, <2>1, <2>3 DEF Tick, TInv, TypeOK, scanVars, boundVars
    <2> QED
      BY <2>2, <2>4 DEF TInv, Sound
  <1>13. CASE Restart
    <2>1. Sound(IdleRun)
      <3>1. 0 \in 0 .. NetTimeout + FinLag
        BY BoundAssumption
      <3> QED
        BY <3>1 DEF Sound, IdleRun, Run, CoStates, Dues, Verdicts, RuleVerdicts
    <2>2. \A t \in Tokens : run'[t] = IdleRun
      BY <1>13 DEF Restart
    <2>3. TypeOK'
      BY <1>13, <2>1, BoundAssumption DEF Restart, TInv, TypeOK, scanVars, Sound
    <2> QED
      BY <2>1, <2>2, <2>3 DEF TInv, Sound
  <1> QED
    BY <1>4, <1>5, <1>6, <1>7, <1>8, <1>9, <1>10, <1>11, <1>12, <1>13 DEF Next

\* The initial state is well-typed.
LEMMA InitType ==
    ASSUME Init
    PROVE  TInv
  <1>1. 0 \in 0 .. NetTimeout + FinLag /\ 0 \in 0 .. StaleTimeout + 1 /\ 0 \in Nat
    BY BoundAssumption
  <1>2. Sound(IdleRun)
    BY <1>1 DEF Sound, IdleRun, Run, CoStates, Dues, Verdicts, RuleVerdicts
  <1>3. AbsentJob \in Job
    BY <1>1 DEF AbsentJob, Job, JobStatuses, RuleVerdicts
  <1>4. NoTriage \in Triage
    BY DEF NoTriage, Triage, TriageResults, Verdicts, RuleVerdicts
  <1>5. TypeOK
    BY <1>1, <1>2, <1>3, <1>4, BoundAssumption
       DEF Init, TypeOK, Sound, SweepPlans, Verdicts, RuleVerdicts
  <1> QED
    BY <1>2, <1>5 DEF Init, TInv

\* The type invariant, and a job behind every active run, hold throughout.
LEMMA TypeInvariant == Spec => []TInv
  <1>1. TInv /\ UNCHANGED vars => TInv'
    BY DEF TInv, TypeOK, Sound, vars
  <1> QED
    BY <1>1, InitType, TypeStep, PTL DEF Spec

\* Type correctness of the tables, the runs, the sweeps and the triage threads,
\* with the ages and the timers bounded.
THEOREM TypeCorrect == Spec => []TypeOK
  <1>1. TInv => TypeOK
    BY DEF TInv
  <1> QED
    BY <1>1, TypeInvariant, PTL

-----------------------------------------------------------------------------
(* The inductive invariant of triage.  As long as no detonation has been   *)
(* persisted, triage is the only writer of the verdict after transaction 1 *)
(* and its copy is never stale.                                            *)

TriageConsistent(j) ==
    /\ triage[j].at \in {"llm", "tx", "txing"} => verdict[j] = job[j].static
    /\ triage[j].at = "txing" => triage[j].seen = job[j].static
    /\ triage[j].at = "alert" /\ verdict[j] = "malicious" => ShouldAlert(j)
    /\ triage[j].at = "over" /\ verdict[j] = "malicious" => j \in alerted

TriageInv == \A j \in Jobs : dets[j] = 0 => TriageConsistent(j)

\* No write to the queue table changes a static verdict.
LEMMA StaticKept ==
    ASSUME TInv, NEW j \in Jobs, NEW n \in Nat, NEW tk
    PROVE  /\ [job[j] EXCEPT !.status = "pending", !.token = tk, !.attempts = n, !.age = 0].static = job[j].static
           /\ [job[j] EXCEPT !.status = "pending", !.token = tk, !.age = 0].static = job[j].static
           /\ [job[j] EXCEPT !.status = "claimed", !.token = tk, !.age = 0].static = job[j].static
           /\ [job[j] EXCEPT !.status = "failed", !.attempts = n].static = job[j].static
           /\ [job[j] EXCEPT !.age = @ + 1].static = job[j].static
           /\ \A s : [job[j] EXCEPT !.status = s].static = job[j].static
  <1>1. job[j] \in Job
    BY DEF TInv, TypeOK
  <1> QED
    BY <1>1 DEF Job

\* Apart from transaction 1 and triage, a step leaves the static verdicts and the
\* triage threads alone, takes back no alert, and touches the verdict of a scan
\* only together with persisting its detonation.
LEMMA QueueStepsFrame ==
    ASSUME TInv, NEW j \in Jobs,
           \/ \E t \in Tokens, i \in Jobs : ClaimNext(t, i)
           \/ \E t \in Tokens : RunStep(t)
           \/ \E s \in Sweepers : SweepRead(s) \/ SweepFlush(s)
           \/ ClaimError \/ ExpireRead \/ ExpireFlush \/ Tick \/ Restart
    PROVE  /\ triage' = triage /\ job'[j].static = job[j].static /\ alerted \subseteq alerted'
           /\ dets'[j] = 0 => dets[j] = 0 /\ verdict'[j] = verdict[j]
  <1>1. job \in [Jobs -> Job] /\ dets \in [Jobs -> Nat] /\ verdict \in [Jobs -> Verdicts]
    BY DEF TInv, TypeOK
  <1>2. ASSUME NEW t \in Tokens, NEW i \in Jobs, ClaimNext(t, i)
        PROVE  UNCHANGED scanVars /\ job'[j].static = job[j].static
    BY <1>1, <1>2, StaticKept DEF ClaimNext
  <1>3. ASSUME NEW t \in Tokens, RunStep(t)
        PROVE  /\ triage' = triage /\ job'[j].static = job[j].static /\ alerted \subseteq alerted'
               /\ dets'[j] = 0 => dets[j] = 0 /\ verdict'[j] = verdict[j]
    <2>1. run[t] \in Run /\ (run[t].co # "idle" => Of(t) \in Jobs)
      BY DEF TInv, Sound, Of
    <2>2. CASE SettleFlush(t)
      <3>1. run[t].attempts \in Nat /\ Of(t) \in Jobs
        BY <2>1, <2>2 DEF Run, SettleFlush
      <3>2. job'[j].static = job[j].static
        BY <1>1, <2>2, <3>1, StaticKept DEF SettleFlush
      <3> QED
        BY <2>2, <3>2 DEF SettleFlush, scanVars
    <2>3. CASE FinCommit(t)
      <3>1. Of(t) \in Jobs
        BY <2>1, <2>3 DEF FinCommit
      <3>2. job'[j].static = job[j].static
        BY <1>1, <2>3, <3>1, StaticKept DEF FinCommit
      <3>3. dets'[j] = 0 => dets[j] = 0 /\ j # Of(t)
        BY <1>1, <2>3, <3>1 DEF FinCommit
      <3>4. j # Of(t) => verdict'[j] = verdict[j]
        BY <1>1, <2>3, <3>1 DEF FinCommit
      <3> QED
        BY <2>3, <3>2, <3>3, <3>4 DEF FinCommit
    <2>4. CASE SendAlert(t)
      BY <2>4 DEF SendAlert
    <2>5. CASE NetEnds(t) \/ MarkFailedRead(t) \/ RequeueRead(t) \/ SettleError(t)
               \/ FinRead(t) \/ FinAbort(t) \/ Bump(t)
      BY <2>5 DEF NetEnds, MarkFailedRead, RequeueRead, SettleError, FinRead, FinAbort, Bump, scanVars
    <2> QED
      BY <1>3, <2>2, <2>3, <2>4, <2>5 DEF RunStep
  <1>4. ASSUME NEW s \in Sweepers, SweepRead(s) \/ SweepFlush(s)
        PROVE  UNCHANGED scanVars /\ job'[j].static = job[j].static
    <2>1. CASE SweepRead(s)
      BY <2>1 DEF SweepRead
    <2>2. CASE SweepFlush(s)
      <3>1. \/ job'[j] = [job[j] EXCEPT !.status = "failed"]
            \/ job'[j] = [job[j] EXCEPT !.status = "pending", !.token = NoToken, !.age = 0]
            \/ job'[j] = job[j]
        BY <2>2 DEF SweepFlush
      <3>2. [job[j] EXCEPT !.status = "pending", !.token = NoToken, !.age = 0].static = job[j].static
        BY StaticKept, 0 \in Nat
      <3>3. [job[j] EXCEPT !.status = "failed"].static = job[j].static
        BY StaticKept, 0 \in Nat
      <3> QED
        BY <2>2, <3>1, <3>2, <3>3 DEF SweepFlush
    <2> QED
      BY <1>4, <2>1, <2>2
  <1>5. CASE ClaimError \/ Restart
    BY <1>5 DEF ClaimError, Restart, scanVars
  <1>6. \A S : Expired(S)[j].static = job[j].static
    BY StaticKept DEF Expired
  <1>7. CASE ExpireRead \/ ExpireFlush
    BY <1>6, <1>7 DEF ExpireRead, ExpireFlush, scanVars
  <1>8. CASE Tick
    BY <1>8, StaticKept DEF Tick, scanVars
  <1> QED
    BY <1>2, <1>3, <1>4, <1>5, <1>7, <1>8 DEF scanVars

\* Every step keeps the invariant of triage.
LEMMA TriageInvStep ==
    ASSUME TInv, TriageInv, Next
    PROVE  TriageInv'
  <1> SUFFICES ASSUME NEW j \in Jobs, dets'[j] = 0
               PROVE  TriageConsistent(j)'
    BY DEF TriageInv
  <1>1. /\ job \in [Jobs -> Job] /\ verdict \in [Jobs -> Verdicts] /\ triage \in [Jobs -> Triage]
        /\ dets \in [Jobs -> Nat] /\ triage[j] \in Triage
    BY DEF TInv, TypeOK
  <1>2. ASSUME dets[j] = 0, triage'[j] = triage[j], job'[j].static = job[j].static,
               alerted \subseteq alerted', verdict'[j] = verdict[j]
        PROVE  TriageConsistent(j)'
    BY <1>2 DEF TriageInv, TriageConsistent, ShouldAlert
  <1>3. CASE \/ \E t \in Tokens, i \in Jobs : ClaimNext(t, i)
             \/ \E t \in Tokens : RunStep(t)
             \/ \E s \in Sweepers : SweepRead(s) \/ SweepFlush(s)
             \/ ClaimError \/ ExpireRead \/ ExpireFlush \/ Tick \/ Restart
    BY <1>2, <1>3, QueueStepsFrame
  <1>4. ASSUME NEW i \in Jobs, Enqueue(i) \/ TriageStep(i), i # j
        PROVE  TriageConsistent(j)'
    <2>1. /\ dets'[j] = dets[j] /\ triage'[j] = triage[j] /\ job'[j].static = job[j].static
          /\ alerted \subseteq alerted' /\ verdict'[j] = verdict[j]
      BY <1>1, <1>4 DEF Enqueue, TriageStep, TriageLlm, TriageRead, TriageCommit, TriageAlert, TriageLost
    <2> QED
      BY <1>2, <2>1
  <1>5. CASE Enqueue(j)
    <2>1. PICK v \in RuleVerdicts, watched \in BOOLEAN :
            /\ job' = [job EXCEPT ![j] = [AbsentJob EXCEPT !.status = "pending", !.static = v,
                                                           !.low = v = "clean" /\ ~watched]]
            /\ verdict' = [verdict EXCEPT ![j] = v]
            /\ triage' = [triage EXCEPT ![j] = IF v = "clean" THEN [@ EXCEPT !.at = "over"]
                                               ELSE [@ EXCEPT !.at = "llm"]]
      BY <1>5 DEF Enqueue
    <2>2. job'[j].static = v /\ verdict'[j] = v
      BY <1>1, <2>1 DEF AbsentJob
    <2>3. triage'[j].at = IF v = "clean" THEN "over" ELSE "llm"
      BY <1>1, <2>1 DEF Triage
    <2> QED
      BY <2>2, <2>3 DEF TriageConsistent
  <1>6. CASE TriageStep(j)
    <2>1. dets[j] = 0 /\ TriageConsistent(j)
      BY <1>6 DEF TriageStep, TriageLlm, TriageRead, TriageCommit, TriageAlert, TriageLost, TriageInv
    <2>2. CASE TriageLlm(j)
      <3>1. triage'[j].at = "tx" /\ verdict' = verdict /\ job' = job
        BY <1>1, <2>2 DEF TriageLlm, Triage
      <3> QED
        BY <2>1, <2>2, <3>1 DEF TriageConsistent, TriageLlm
    <2>3. CASE TriageRead(j)
      <3>1. triage'[j].at = "txing" /\ triage'[j].seen = verdict[j] /\ verdict' = verdict /\ job' = job
        BY <1>1, <2>3 DEF TriageRead, Triage
      <3> QED
        BY <2>1, <2>3, <3>1 DEF TriageConsistent, TriageRead
    <2>4. CASE TriageCommit(j)
      <3>1. triage'[j].at = "alert" /\ triage'[j].tri = triage[j].tri /\ job' = job
        BY <1>1, <2>4 DEF TriageCommit, Triage
      <3>2. verdict[j] = job[j].static /\ triage[j].seen = job[j].static
        BY <2>1, <2>4 DEF TriageConsistent, TriageCommit
      <3>3. verdict'[j] = Adjudicated(j)
        BY <1>1, <2>4, <3>2 DEF TriageCommit, Overwrite
      <3>4. Adjudicated(j) = "malicious" => ShouldAlert(j)
        BY <3>2 DEF Adjudicated, ShouldAlert
      <3>5. ShouldAlert(j)' = ShouldAlert(j)
        BY <3>1 DEF ShouldAlert
      <3> QED
        BY <3>1, <3>3, <3>4, <3>5 DEF TriageConsistent
    <2>5. CASE TriageAlert(j)
      <3>1. triage'[j].at = "over" /\ verdict' = verdict
        BY <1>1, <2>5 DEF TriageAlert, Triage
      <3>2. ShouldAlert(j) => j \in alerted'
        BY <2>5 DEF TriageAlert
      <3> QED
        BY <2>1, <2>5, <3>1, <3>2 DEF TriageConsistent, TriageAlert
    <2>6. CASE TriageLost(j)
      <3>1. triage'[j].at = "lost"
        BY <1>1, <2>6 DEF TriageLost, Triage
      <3> QED
        BY <3>1 DEF TriageConsistent
    <2> QED
      BY <1>6, <2>2, <2>3, <2>4, <2>5, <2>6 DEF TriageStep
  <1> QED
    BY <1>3, <1>4, <1>5, <1>6 DEF Next

\* What triage writes into the Scan and what it alerts on are decided apart.  They
\* agree: once triage is over, a scan that stands malicious, and not by its
\* detonation, has been alerted.  Nothing is assumed of the sweepers.
THEOREM TriageAlertsConvictions == Spec => []ConvictionAlerted
  <1>1. Init => TriageInv
    BY DEF Init, TriageInv, TriageConsistent, NoTriage
  <1>2. TInv /\ TriageInv /\ [Next]_vars => TriageInv'
    <2>1. UNCHANGED vars /\ TriageInv => TriageInv'
      BY DEF vars, TriageInv, TriageConsistent, ShouldAlert
    <2> QED
      BY <2>1, TriageInvStep
  <1>3. TriageInv => ConvictionAlerted
    BY DEF TriageInv, TriageConsistent, ConvictionAlerted
  <1> QED
    BY <1>1, <1>2, <1>3, TypeInvariant, PTL DEF Spec

-----------------------------------------------------------------------------
(* The inductive invariant of the claims.                                  *)

\* The phases in which a run may still write the job or a Detonation row.
Undetonated == {"net", "adapterless", "settling", "fin", "fining"}

\* A run that does anything holds the token of its job, has claimed it no later
\* than the job says, and has not detonated it before it is done with it.
RunInv(t) ==
    run[t].co # "idle" =>
        /\ job[Of(t)].token = t
        /\ job[Of(t)].status = "claimed" => job[Of(t)].age <= run[t].timer
        /\ run[t].co \in Undetonated => dets[Of(t)] = 0
        /\ run[t].co = "settling" /\ run[t].due \in {"requeue", "fail"} =>
             /\ run[t].attempts <= MaxAttempts
             /\ run[t].due = "requeue" => run[t].attempts < MaxAttempts

JobInv(j) ==
    /\ job[j].status \in {"absent", "pending"} => job[j].token = NoToken
    /\ dets[j] <= 1
    /\ dets[j] > 0 => job[j].status \in {"done", "expired"}
    /\ job[j].attempts <= MaxAttempts
    /\ job[j].status \in {"absent", "pending", "claimed"} => job[j].attempts < MaxAttempts

\* A job a sweep is about to write: its claim has outlived its run, and nothing
\* but an expiry has touched it since.
SweepInv(s, j) ==
    sweep[s][j] # "keep" =>
        /\ job[j].status \in {"claimed", "expired"}
        /\ dets[j] = 0
        /\ job[j].attempts < MaxAttempts
        /\ \A t \in Tokens : run[t].co # "idle" => Of(t) # j

ClaimInv ==
    /\ \A t \in Tokens : RunInv(t)
    /\ \A j \in Jobs : JobInv(j)
    /\ \A s \in Sweepers, j \in Jobs : SweepInv(s, j)

\* A run keeps its job and its timer, or goes idle, and enters a phase that writes
\* only with a job that is not detonated and, to settle, with a count in bounds.
Tame(t) ==
    run'[t].co # "idle" =>
        /\ run[t].co # "idle" /\ run'[t].job = run[t].job /\ run'[t].timer = run[t].timer
        /\ run'[t].co \in Undetonated => dets[Of(t)] = 0
        /\ run'[t].co = "settling" /\ run'[t].due \in {"requeue", "fail"} =>
             /\ run'[t].attempts <= MaxAttempts
             /\ run'[t].due = "requeue" => run'[t].attempts < MaxAttempts

\* A step of tame runs that writes no job and no Detonation row keeps the claims.
LEMMA TameStep ==
    ASSUME TInv, ClaimInv, \A t \in Tokens : Tame(t), UNCHANGED <<job, dets, sweep>>
    PROVE  ClaimInv'
  <1>1. \A t \in Tokens : RunInv(t)'
    BY DEF ClaimInv, RunInv, Tame, Of
  <1>2. \A j \in Jobs : JobInv(j)'
    BY DEF ClaimInv, JobInv
  <1>3. \A s \in Sweepers, j \in Jobs : SweepInv(s, j)'
    BY DEF ClaimInv, SweepInv, Tame, Of
  <1> QED
    BY <1>1, <1>2, <1>3 DEF ClaimInv

\* An idle run, a cancelled one and one sent to the handler are tame.
LEMMA TameRuns ==
    ASSUME TInv, ClaimInv, NEW t \in Tokens,
           \/ run'[t] = IdleRun \/ run'[t] = run[t] \/ run'[t] = Cancelled(run[t])
           \/ run'[t] = ToHandler(t) /\ run[t].co # "idle"
    PROVE  Tame(t)
  <1>1. run[t] \in Run
    BY DEF TInv, Sound
  <1>2. RunInv(t)
    BY DEF ClaimInv
  <1>3. CASE run'[t] = IdleRun
    BY <1>3 DEF Tame, IdleRun
  <1>4. CASE run'[t] = run[t]
    BY <1>2, <1>4 DEF Tame, RunInv
  <1>5. CASE run'[t] = Cancelled(run[t]) /\ run[t].co # "net"
    <2> DEFINE q == [run[t] EXCEPT !.awaited = FALSE]
    <2>1. /\ q.co = run[t].co /\ q.job = run[t].job /\ q.timer = run[t].timer
          /\ q.due = run[t].due /\ q.attempts = run[t].attempts
      BY <1>1 DEF Run
    <2>2. run'[t] = q
      BY <1>5 DEF Cancelled
    <2> QED
      BY <1>2, <2>1, <2>2 DEF Tame, RunInv
  <1>6. CASE run'[t] = ToHandler(t) /\ run[t].co # "idle"
    <2> DEFINE q == [run[t] EXCEPT !.co = "giveup", !.due = "none", !.outer = TRUE]
    <2>1. q.co = "giveup" /\ q.job = run[t].job /\ q.timer = run[t].timer
      BY <1>1 DEF Run
    <2>2. run'[t] = q \/ run'[t] = IdleRun
      BY <1>6 DEF ToHandler
    <2> QED
      BY <1>3, <1>6, <2>1, <2>2 DEF Tame, Undetonated
  <1> QED
    BY <1>3, <1>4, <1>5, <1>6 DEF Cancelled

\* The steps of a run that write neither the queue nor a Detonation row.
LEMMA RunReadSteps ==
    ASSUME TInv, ClaimInv, NEW t \in Tokens,
           \/ NetEnds(t) \/ MarkFailedRead(t) \/ RequeueRead(t) \/ SettleError(t)
           \/ FinRead(t) \/ FinAbort(t) \/ Bump(t) \/ SendAlert(t)
    PROVE  ClaimInv'
  <1>1. run[t] \in Run /\ RunInv(t) /\ run \in [Tokens -> Run]
    BY DEF TInv, TypeOK, Sound, ClaimInv
  <1>2. run[t].co # "idle" => Of(t) \in Jobs /\ JobInv(Of(t)) /\ job[Of(t)] \in Job
    BY DEF TInv, TypeOK, Sound, ClaimInv, Of
  <1>3. UNCHANGED <<job, dets, sweep>>
    BY DEF NetEnds, MarkFailedRead, RequeueRead, SettleError, FinRead, FinAbort, Bump, SendAlert, scanVars
  <1>4. ASSUME NEW q, run' = [run EXCEPT ![t] = q], Tame(t)
        PROVE  ClaimInv'
    <2>1. \A u \in Tokens \ {t} : run'[u] = run[u]
      BY <1>1, <1>4
    <2>2. \A u \in Tokens : Tame(u)
      BY <1>4, <2>1, TameRuns
    <2> QED
      BY <1>3, <2>2, TameStep
  <1>5. CASE NetEnds(t)
    <2>1. PICK c \in {"fin", "giveup"} : run' = [run EXCEPT ![t] = [run[t] EXCEPT !.co = c]]
      BY <1>5 DEF NetEnds
    <2>2. run'[t].co = c /\ run'[t].job = run[t].job /\ run'[t].timer = run[t].timer
      BY <1>1, <2>1 DEF Run
    <2>3. dets[Of(t)] = 0
      BY <1>1, <1>5 DEF NetEnds, RunInv, Undetonated
    <2>4. Tame(t)
      BY <1>5, <2>2, <2>3 DEF Tame, NetEnds
    <2> QED
      BY <1>4, <2>1, <2>4
  <1>6. CASE MarkFailedRead(t)
    <2> DEFINE q == [run[t] EXCEPT !.co = "settling", !.due = "reject"]
    <2>1. q.co = "settling" /\ q.due = "reject" /\ q.job = run[t].job /\ q.timer = run[t].timer
      BY <1>1 DEF Run
    <2>2. run'[t] = q \/ run'[t] = IdleRun
      BY <1>1, <1>6 DEF MarkFailedRead
    <2>3. dets[Of(t)] = 0
      BY <1>1, <1>6 DEF MarkFailedRead, RunInv, Undetonated
    <2>4. Tame(t)
      BY <1>6, <2>1, <2>2, <2>3, TameRuns DEF Tame, MarkFailedRead
    <2> QED
      BY <1>4, <1>6, <2>4 DEF MarkFailedRead
  <1>7. CASE RequeueRead(t)
    <2> DEFINE n == job[Of(t)].attempts + 1
               q == [run[t] EXCEPT !.co = "settling", !.due = RequeueDue(t), !.attempts = n]
    <2>1. /\ q.co = "settling" /\ q.due = RequeueDue(t) /\ q.attempts = n
          /\ q.job = run[t].job /\ q.timer = run[t].timer
      BY <1>1 DEF Run
    <2>2. Of(t) \in Jobs /\ JobInv(Of(t)) /\ job[Of(t)].attempts \in Nat
      BY <1>2, <1>7 DEF RequeueRead, Job
    <2>3. Tame(t)
      <3>1. CASE ~Owns(t)
        <4>1. run'[t] = IdleRun
          BY <1>1, <1>7, <3>1 DEF RequeueRead
        <4> QED
          BY <4>1, TameRuns
      <3>2. CASE Owns(t)
        <4>1. job[Of(t)].attempts < MaxAttempts /\ ~(dets[Of(t)] > 0)
          BY <2>2, <3>2 DEF JobInv, Owns
        <4>2. dets[Of(t)] = 0
          BY <2>2, <4>1 DEF TInv, TypeOK
        <4>3. n <= MaxAttempts /\ (RequeueDue(t) = "requeue" => n < MaxAttempts)
          BY <2>2, <4>1, BoundAssumption DEF RequeueDue
        <4>4. run'[t] = q
          BY <1>1, <1>7, <3>2 DEF RequeueRead
        <4> QED
          BY <1>7, <2>1, <4>2, <4>3, <4>4 DEF Tame, RequeueRead
      <3> QED
        BY <3>1, <3>2
    <2> QED
      BY <1>4, <1>7, <2>3 DEF RequeueRead
  <1>8. CASE SettleError(t)
    <2>1. CASE run[t].awaited /\ run[t].outer
      <3>1. \A u \in Tokens : run'[u] \in {IdleRun, Cancelled(run[u]), run[u]}
        BY <1>8, <2>1 DEF SettleError, PoolDies
      <3>2. \A u \in Tokens : Tame(u)
        BY <3>1, TameRuns
      <3> QED
        BY <1>3, <3>2, TameStep
    <2>2. CASE ~(run[t].awaited /\ run[t].outer)
      <3>1. run' = [run EXCEPT ![t] = ToHandler(t)] /\ run[t].co # "idle"
        BY <1>8, <2>2 DEF SettleError
      <3>2. Tame(t)
        BY <1>1, <3>1, TameRuns
      <3> QED
        BY <1>4, <3>1, <3>2
    <2> QED
      BY <2>1, <2>2
  <1>9. CASE FinRead(t)
    <2> DEFINE q == [run[t] EXCEPT !.co = "fining", !.seen = verdict[Of(t)]]
    <2>1. q.co = "fining" /\ q.job = run[t].job /\ q.timer = run[t].timer
      BY <1>1 DEF Run
    <2>2. run'[t] = q \/ run'[t] = IdleRun
      BY <1>1, <1>9 DEF FinRead
    <2>3. dets[Of(t)] = 0
      BY <1>1, <1>9 DEF FinRead, RunInv, Undetonated
    <2>4. Tame(t)
      BY <1>9, <2>1, <2>2, <2>3, TameRuns DEF Tame, FinRead
    <2> QED
      BY <1>4, <1>9, <2>4 DEF FinRead
  <1>10. CASE FinAbort(t)
    <2>1. run' = [run EXCEPT ![t] = ToHandler(t)] /\ run[t].co # "idle"
      BY <1>10 DEF FinAbort
    <2>2. Tame(t)
      BY <1>1, <2>1, TameRuns
    <2> QED
      BY <1>4, <2>1, <2>2
  <1>11. CASE Bump(t)
    <2> DEFINE q == [run[t] EXCEPT !.co = "alert"]
    <2>1. q.co = "alert" /\ q.job = run[t].job /\ q.timer = run[t].timer
      BY <1>1 DEF Run
    <2>2. run'[t] = q \/ run'[t] = IdleRun \/ run'[t] = ToHandler(t)
      BY <1>1, <1>11 DEF Bump
    <2>3. run[t].co # "idle"
      BY <1>11 DEF Bump
    <2>4. Tame(t)
      BY <2>1, <2>2, <2>3, TameRuns DEF Tame, Undetonated
    <2> QED
      BY <1>4, <1>11, <2>4 DEF Bump
  <1>12. CASE SendAlert(t)
    <2>1. run' = [run EXCEPT ![t] = IdleRun] /\ run'[t] = IdleRun
      BY <1>1, <1>12 DEF SendAlert
    <2>2. Tame(t)
      BY <2>1, TameRuns
    <2> QED
      BY <1>4, <2>1, <2>2
  <1> QED
    BY <1>5, <1>6, <1>7, <1>8, <1>9, <1>10, <1>11, <1>12

\* No run is on a job that is not claimed yet, and no two runs are on one job.
LEMMA SoleRun ==
    ASSUME TInv, ClaimInv, NEW t \in Tokens, run[t].co # "idle"
    PROVE  /\ Of(t) \in Jobs /\ job[Of(t)].token = t
           /\ job[Of(t)].status \notin {"absent", "pending"}
           /\ \A u \in Tokens : run[u].co # "idle" /\ Of(u) = Of(t) => u = t
           /\ \A s \in Sweepers : sweep[s][Of(t)] = "keep"
  <1>1. RunInv(t) /\ Of(t) \in Jobs
    BY DEF ClaimInv, TInv, Sound, Of
  <1>2. JobInv(Of(t)) /\ job[Of(t)].token = t
    BY <1>1 DEF ClaimInv, RunInv
  <1>3. job[Of(t)].status \notin {"absent", "pending"}
    BY <1>2, NoneAssumption DEF JobInv
  <1>4. \A u \in Tokens : run[u].co # "idle" /\ Of(u) = Of(t) => u = t
    BY <1>2 DEF ClaimInv, RunInv
  <1>5. \A s \in Sweepers : sweep[s][Of(t)] = "keep"
    BY <1>1 DEF ClaimInv, SweepInv
  <1> QED
    BY <1>1, <1>2, <1>3, <1>4, <1>5

\* A step that writes one job, which nobody but possibly run t is on and no sweep
\* has decided about, keeps the claims if that job, its Detonation rows and run t
\* do; every other run and every other job is left as it is.
LEMMA OneJobStep ==
    ASSUME TInv, ClaimInv, NEW j \in Jobs, NEW t,
           \A i \in Jobs : i # j => job'[i] = job[i] /\ dets'[i] = dets[i],
           \A u \in Tokens : u # t => run'[u] = run[u] /\ (run[u].co # "idle" => Of(u) # j),
           t \in Tokens => RunInv(t)' /\ (run'[t].co # "idle" => run'[t].job = j),
           \A s \in Sweepers : sweep[s][j] = "keep", sweep' = sweep,
           JobInv(j)'
    PROVE  ClaimInv'
  <1>1. ASSUME NEW u \in Tokens
        PROVE  RunInv(u)'
    <2>1. CASE u # t
      <3>1. RunInv(u) /\ run'[u] = run[u] /\ (run[u].co # "idle" => Of(u) \in Jobs \ {j})
        BY <2>1 DEF ClaimInv, TInv, Sound, Of
      <3> QED
        BY <3>1 DEF RunInv, Of
    <2> QED
      BY <2>1
  <1>2. \A i \in Jobs : JobInv(i)'
    BY DEF ClaimInv, JobInv
  <1>3. ASSUME NEW s \in Sweepers, NEW i \in Jobs, sweep[s][i] # "keep"
        PROVE  SweepInv(s, i)'
    <2>1. i # j /\ job'[i] = job[i] /\ dets'[i] = dets[i] /\ SweepInv(s, i)
      BY <1>3 DEF ClaimInv
    <2>2. \A u \in Tokens : run'[u].co # "idle" => Of(u)' # i
      BY <1>3, <2>1 DEF SweepInv, Of
    <2> QED
      BY <1>3, <2>1, <2>2 DEF SweepInv
  <1>4. \A s \in Sweepers, i \in Jobs : SweepInv(s, i)'
    BY <1>3 DEF SweepInv
  <1> QED
    BY <1>1, <1>2, <1>4 DEF ClaimInv

\* The steps that open, claim and settle a job.
LEMMA JobSteps ==
    ASSUME TInv, ClaimInv,
           \/ \E j \in Jobs : Enqueue(j)
           \/ \E t \in Tokens, j \in Jobs : ClaimNext(t, j)
           \/ \E t \in Tokens : SettleFlush(t) \/ FinCommit(t)
    PROVE  ClaimInv'
  <1>1. /\ job \in [Jobs -> Job] /\ run \in [Tokens -> Run] /\ dets \in [Jobs -> Nat]
        /\ \A j \in Jobs : job[j] \in Job /\ dets[j] \in Nat /\ JobInv(j) /\ job[j].attempts \in Nat
        /\ \A t \in Tokens : run[t] \in Run
    BY DEF TInv, TypeOK, ClaimInv, Job
  <1>2. ASSUME NEW j \in Jobs, job[j].status \in {"absent", "pending"}
        PROVE  /\ \A u \in Tokens : run[u].co # "idle" => Of(u) # j
               /\ \A s \in Sweepers : sweep[s][j] = "keep"
               /\ dets[j] = 0
    <2>1. \A u \in Tokens : run[u].co # "idle" => Of(u) # j
      BY <1>2, SoleRun
    <2>2. \A s \in Sweepers : sweep[s][j] = "keep"
      BY <1>2 DEF ClaimInv, SweepInv
    <2>3. ~(dets[j] > 0)
      BY <1>1, <1>2 DEF JobInv
    <2> QED
      BY <1>1, <2>1, <2>2, <2>3
  <1>3. ASSUME NEW j \in Jobs, Enqueue(j)
        PROVE  ClaimInv'
    <2>1. job[j].status = "absent" /\ run' = run /\ dets' = dets /\ sweep' = sweep
      BY <1>3 DEF Enqueue
    <2>2. job'[j].status = "pending" /\ job'[j].token = NoToken /\ job'[j].attempts = 0
      <3>1. PICK v, low : job' = [job EXCEPT ![j] = [AbsentJob EXCEPT !.status = "pending", !.static = v,
                                                                      !.low = low]]
        BY <1>3 DEF Enqueue
      <3> QED
        BY <1>1, <3>1 DEF AbsentJob
    <2>3. JobInv(j)'
      BY <1>2, <2>1, <2>2, AttemptsAssumption, BoundAssumption DEF JobInv
    <2>4. \A i \in Jobs : i # j => job'[i] = job[i] /\ dets'[i] = dets[i]
      BY <1>1, <1>3 DEF Enqueue
    <2>5. \A u \in Tokens : run'[u] = run[u] /\ (run[u].co # "idle" => Of(u) # j)
      BY <1>2, <2>1
    <2>6. \A s \in Sweepers : sweep[s][j] = "keep"
      BY <1>2, <2>1
    <2> QED
      BY <2>1, <2>3, <2>4, <2>5, <2>6, OneJobStep, NoneAssumption
  <1>4. ASSUME NEW t \in Tokens, NEW j \in Jobs, ClaimNext(t, j)
        PROVE  ClaimInv'
    <2>1. job[j].status = "pending" /\ dets' = dets /\ sweep' = sweep
      BY <1>4 DEF ClaimNext, scanVars
    <2>2. /\ job'[j].status = "claimed" /\ job'[j].token = t /\ job'[j].age = 0
          /\ job'[j].attempts = job[j].attempts
      BY <1>1, <1>4 DEF ClaimNext, Job
    <2>3. JobInv(j)'
      BY <1>1, <1>2, <2>1, <2>2 DEF JobInv
    <2>4. /\ run'[t].job = j /\ run'[t].co \in {"net", "adapterless"} /\ run'[t].timer = 0
          /\ \A u \in Tokens \ {t} : run'[u] = run[u]
      BY <1>1, <1>4 DEF ClaimNext, ClaimedRun, IdleRun
    <2>5. RunInv(t)'
      BY <1>2, <2>1, <2>2, <2>4 DEF RunInv, Of
    <2>6. \A i \in Jobs : i # j => job'[i] = job[i] /\ dets'[i] = dets[i]
      BY <1>1, <1>4, <2>1 DEF ClaimNext
    <2>7. \A u \in Tokens : u # t => run'[u] = run[u] /\ (run[u].co # "idle" => Of(u) # j)
      BY <1>2, <2>1, <2>4
    <2>8. RunInv(t)' /\ (run'[t].co # "idle" => run'[t].job = j)
      BY <2>4, <2>5
    <2>9. \A s \in Sweepers : sweep[s][j] = "keep"
      BY <1>2, <2>1
    <2> QED
      BY <2>1, <2>3, <2>6, <2>7, <2>8, <2>9, OneJobStep
  <1>5. ASSUME NEW t \in Tokens, SettleFlush(t)
        PROVE  ClaimInv'
    <2>0. PICK j \in Jobs : j = Of(t)
      BY <1>5, SoleRun DEF SettleFlush
    <2>1. run[t].co = "settling" /\ dets' = dets /\ sweep' = sweep
      BY <1>5 DEF SettleFlush, scanVars
    <2>2. /\ \A u \in Tokens : u # t /\ run[u].co # "idle" => Of(u) # j
          /\ \A s \in Sweepers : sweep[s][j] = "keep"
      BY <2>0, <2>1, SoleRun
    <2>3. dets[j] = 0 /\ RunInv(t)
      BY <2>0, <2>1 DEF ClaimInv, RunInv, Undetonated
    <2>4. run' = [run EXCEPT ![t] = IdleRun] /\ run'[t] = IdleRun
      BY <1>1, <1>5 DEF SettleFlush
    <2>5. RunInv(t)' /\ (run'[t].co # "idle" => run'[t].job = j)
      BY <2>4 DEF RunInv, IdleRun
    <2>6. JobInv(j)'
      <3>1. CASE run[t].due = "requeue"
        <4>1. job'[j] = [job[j] EXCEPT !.status = "pending", !.token = NoToken,
                                       !.attempts = run[t].attempts, !.age = 0]
          BY <1>1, <1>5, <2>0, <3>1 DEF SettleFlush
        <4>2. job'[j].status = "pending" /\ job'[j].token = NoToken /\ job'[j].attempts = run[t].attempts
          BY <1>1, <4>1 DEF Job
        <4>3. run[t].attempts <= MaxAttempts /\ run[t].attempts < MaxAttempts
          BY <2>1, <2>3, <3>1 DEF RunInv
        <4> QED
          BY <2>1, <2>3, <4>2, <4>3 DEF JobInv
      <3>2. CASE run[t].due = "fail"
        <4>1. job'[j] = [job[j] EXCEPT !.status = "failed", !.attempts = run[t].attempts]
          BY <1>1, <1>5, <2>0, <3>2 DEF SettleFlush
        <4>2. job'[j].status = "failed" /\ job'[j].attempts = run[t].attempts
          BY <1>1, <4>1 DEF Job
        <4>3. run[t].attempts <= MaxAttempts
          BY <2>1, <2>3, <3>2 DEF RunInv
        <4> QED
          BY <2>1, <2>3, <4>2, <4>3 DEF JobInv
      <3>3. CASE run[t].due \notin {"requeue", "fail"}
        <4>1. job'[j] = [job[j] EXCEPT !.status = "failed"]
          BY <1>1, <1>5, <2>0, <3>3 DEF SettleFlush
        <4>2. job'[j].status = "failed" /\ job'[j].attempts = job[j].attempts
          BY <1>1, <4>1 DEF Job
        <4> QED
          BY <1>1, <2>1, <2>2, <2>3, <4>2 DEF JobInv
      <3> QED
        BY <3>1, <3>2, <3>3
    <2>7. \A i \in Jobs : i # j => job'[i] = job[i] /\ dets'[i] = dets[i]
      BY <1>1, <1>5, <2>0, <2>1 DEF SettleFlush
    <2>8. \A u \in Tokens : u # t => run'[u] = run[u] /\ (run[u].co # "idle" => Of(u) # j)
      BY <1>1, <2>2, <2>4
    <2> QED
      BY <2>1, <2>2, <2>5, <2>6, <2>7, <2>8, OneJobStep
  <1>6. ASSUME NEW t \in Tokens, FinCommit(t)
        PROVE  ClaimInv'
    <2>0. PICK j \in Jobs : j = Of(t)
      BY <1>6, SoleRun DEF FinCommit
    <2>1. run[t].co = "fining" /\ sweep' = sweep
      BY <1>6 DEF FinCommit
    <2>2. /\ \A u \in Tokens : u # t /\ run[u].co # "idle" => Of(u) # j
          /\ \A s \in Sweepers : sweep[s][j] = "keep"
          /\ job[j].token = t
      BY <2>0, <2>1, SoleRun
    <2>3. dets[j] = 0
      BY <2>0, <2>1 DEF ClaimInv, RunInv, Undetonated
    <2>4. /\ job'[j].status = "done" /\ job'[j].token = t /\ job'[j].attempts = job[j].attempts
          /\ dets'[j] = 1
      BY <1>1, <1>6, <2>0, <2>2, <2>3 DEF FinCommit, Job
    <2>5. JobInv(j)'
      BY <1>1, <2>2, <2>4 DEF JobInv
    <2>6. \A i \in Jobs : i # j => job'[i] = job[i] /\ dets'[i] = dets[i]
      BY <1>1, <1>6, <2>0 DEF FinCommit
    <2>7. run'[t].co = "idle" \/ (run'[t].co = "bump" /\ run'[t].job = j)
      <3>1. CASE run' = [run EXCEPT ![t] = IdleRun]
        BY <1>1, <3>1 DEF IdleRun
      <3>2. CASE run' # [run EXCEPT ![t] = IdleRun]
        <4>1. PICK v \in RuleVerdicts :
                run' = [run EXCEPT ![t].co = "bump",
                                   ![t].flip = v = "malicious" /\ job[Of(t)].static # "malicious"]
          BY <1>6, <3>2 DEF FinCommit
        <4>2. run'[t].co = "bump" /\ run'[t].job = run[t].job
          BY <1>1, <4>1 DEF Run
        <4> QED
          BY <2>0, <4>2 DEF Of
      <3> QED
        BY <3>1, <3>2
    <2>8. RunInv(t)' /\ (run'[t].co # "idle" => run'[t].job = j)
      BY <2>4, <2>7 DEF RunInv, Undetonated, Of
    <2>9. \A u \in Tokens : u # t => run'[u] = run[u] /\ (run[u].co # "idle" => Of(u) # j)
      BY <1>1, <1>6, <2>2 DEF FinCommit
    <2> QED
      BY <2>1, <2>2, <2>5, <2>6, <2>8, <2>9, OneJobStep
  <1> QED
    BY <1>3, <1>4, <1>5, <1>6

\* A claim is stale only when its run is over: a run that does anything has been
\* at it for at most NetTimeout + FinLag, and the cutoff lies beyond that.
LEMMA StaleMeansOver ==
    ASSUME TInv, ClaimInv, NEW j \in Jobs, Stale(j), NEW t \in Tokens, run[t].co # "idle"
    PROVE  Of(t) # j
  <1> SUFFICES ASSUME Of(t) = j
               PROVE  FALSE
    OBVIOUS
  <1>1. job[j].age <= run[t].timer
    BY DEF ClaimInv, RunInv, Stale
  <1>2. run[t].timer \in 0 .. NetTimeout + FinLag /\ job[j].age \in 0 .. StaleTimeout + 1
    BY DEF TInv, TypeOK, Run, Job
  <1> QED
    BY <1>1, <1>2, DaylightAssumption, BoundAssumption DEF Stale

\* The janitors and the clock.  Only here it matters that there is one sweeper: a
\* second one could flush what it decided about an earlier claim of the job.
LEMMA JanitorSteps ==
    ASSUME TInv, ClaimInv, \A a, b \in Sweepers : a = b,
           \/ \E s \in Sweepers : SweepRead(s) \/ SweepFlush(s)
           \/ ExpireRead \/ ExpireFlush \/ Tick
    PROVE  ClaimInv'
  <1>1. /\ job \in [Jobs -> Job] /\ run \in [Tokens -> Run] /\ dets \in [Jobs -> Nat]
        /\ \A j \in Jobs : job[j] \in Job /\ dets[j] \in Nat /\ JobInv(j) /\ job[j].attempts \in Nat
        /\ \A t \in Tokens : run[t] \in Run /\ RunInv(t) /\ (run[t].co # "idle" => Of(t) \in Jobs)
        /\ \A s \in Sweepers : sweep[s] \in [Jobs -> SweepPlans]
    BY DEF TInv, TypeOK, ClaimInv, Job, Sound, Of
  <1>2. ASSUME NEW s \in Sweepers, SweepRead(s)
        PROVE  ClaimInv'
    <2>1. UNCHANGED <<job, run, dets>>
      BY <1>2 DEF SweepRead, scanVars
    <2>2. ASSUME NEW r \in Sweepers, NEW j \in Jobs, sweep'[r][j] # "keep"
          PROVE  SweepInv(r, j)'
      <3>1. Stale(j)
        BY <1>2, <2>2 DEF SweepRead, TInv, TypeOK
      <3>2. job[j].status = "claimed" /\ job[j].attempts < MaxAttempts /\ ~(dets[j] > 0)
        BY <1>1, <3>1 DEF Stale, JobInv
      <3>3. dets[j] = 0
        BY <1>1, <3>2
      <3>4. \A t \in Tokens : run[t].co # "idle" => Of(t) # j
        BY <3>1, StaleMeansOver
      <3> QED
        BY <2>1, <3>2, <3>3, <3>4 DEF SweepInv, Of
    <2>3. \A r \in Sweepers, j \in Jobs : SweepInv(r, j)'
      BY <2>2 DEF SweepInv
    <2> QED
      BY <2>1, <2>3 DEF ClaimInv, RunInv, JobInv, Of
  <1>3. ASSUME NEW s \in Sweepers, SweepFlush(s)
        PROVE  ClaimInv'
    <2>1. UNCHANGED <<run, dets>>
      BY <1>3 DEF SweepFlush, scanVars
    <2>2. ASSUME NEW j \in Jobs, sweep[s][j] # "keep"
          PROVE  JobInv(j)' /\ \A t \in Tokens : run[t].co # "idle" => Of(t) # j
      <3>1. SweepInv(s, j)
        BY DEF ClaimInv
      <3>2. \/ job'[j] = [job[j] EXCEPT !.status = "failed"]
            \/ job'[j] = [job[j] EXCEPT !.status = "pending", !.token = NoToken, !.age = 0]
        BY <1>1, <1>3, <2>2 DEF SweepFlush, SweepPlans
      <3>3. /\ job'[j].attempts = job[j].attempts
            /\ job'[j].status = "failed" \/ (job'[j].status = "pending" /\ job'[j].token = NoToken)
        BY <1>1, <3>2 DEF Job
      <3> QED
        BY <1>1, <2>1, <2>2, <3>1, <3>3, BoundAssumption DEF JobInv, SweepInv
    <2>3. \A j \in Jobs : sweep[s][j] = "keep" => job'[j] = job[j]
      BY <1>3 DEF SweepFlush
    <2>4. \A j \in Jobs : JobInv(j)'
      BY <1>1, <2>1, <2>2, <2>3 DEF JobInv
    <2>5. \A t \in Tokens : RunInv(t)'
      BY <1>1, <2>1, <2>2, <2>3 DEF RunInv, Of
    <2>6. \A r \in Sweepers, j \in Jobs : sweep'[r][j] = "keep"
      BY <1>3 DEF SweepFlush, TInv, TypeOK
    <2> QED
      BY <2>4, <2>5, <2>6 DEF ClaimInv, SweepInv
  <1>4. ASSUME NEW S, job' = Expired(S), UNCHANGED <<run, dets, sweep>>
        PROVE  ClaimInv'
    <2>1. ASSUME NEW j \in Jobs
          PROVE  /\ job'[j].token = job[j].token /\ job'[j].attempts = job[j].attempts
                 /\ job'[j].age = job[j].age
                 /\ job'[j].status \in {job[j].status, "expired"}
      BY <1>1, <1>4 DEF Expired, Job
    <2>2. \A t \in Tokens : RunInv(t)'
      BY <1>1, <1>4, <2>1 DEF RunInv, Of
    <2>3. \A j \in Jobs : JobInv(j)'
      BY <1>1, <1>4, <2>1 DEF JobInv
    <2>4. \A s \in Sweepers, j \in Jobs : SweepInv(s, j)'
      BY <1>4, <2>1 DEF ClaimInv, SweepInv, Of
    <2> QED
      BY <2>2, <2>3, <2>4 DEF ClaimInv
  <1>5. CASE ExpireRead
    BY <1>4, <1>5 DEF ExpireRead, scanVars
  <1>6. CASE ExpireFlush
    BY <1>4, <1>6 DEF ExpireFlush, scanVars
  <1>7. CASE Tick
    <2>1. UNCHANGED <<dets, sweep>>
      BY <1>7 DEF Tick, scanVars
    <2>2. ASSUME NEW j \in Jobs
          PROVE  /\ job'[j].token = job[j].token /\ job'[j].attempts = job[j].attempts
                 /\ job'[j].status = job[j].status /\ job'[j].age <= job[j].age + 1
      BY <1>1, <1>7 DEF Tick, Job
    <2>3. ASSUME NEW t \in Tokens
          PROVE  /\ run'[t].co = run[t].co /\ run'[t].job = run[t].job /\ run'[t].due = run[t].due
                 /\ run'[t].attempts = run[t].attempts
                 /\ run[t].co # "idle" => run'[t].timer = run[t].timer + 1
      BY <1>1, <1>7 DEF Tick, Run
    <2>4. ASSUME NEW t \in Tokens
          PROVE  RunInv(t)'
      <3>1. CASE run[t].co = "idle"
        BY <2>3, <3>1 DEF RunInv
      <3>2. CASE run[t].co # "idle"
        <4>1. Of(t)' = Of(t) /\ Of(t) \in Jobs
          BY <1>1, <2>3, <3>2 DEF Of
        <4>2. job[Of(t)].status = "claimed" => job'[Of(t)].age <= run'[t].timer
          <5>1. job[Of(t)].age \in Nat /\ run[t].timer \in Nat /\ job'[Of(t)].age \in Int
            BY <1>1, <1>7, <4>1, BoundAssumption DEF Job, Run, Tick
          <5> QED
            BY <1>1, <2>2, <2>3, <3>2, <4>1, <5>1 DEF RunInv
        <4> QED
          BY <1>1, <2>1, <2>2, <2>3, <3>2, <4>1, <4>2 DEF RunInv
      <3> QED
        BY <3>1, <3>2
    <2>5. \A j \in Jobs : JobInv(j)'
      BY <1>1, <2>1, <2>2 DEF JobInv
    <2>6. \A s \in Sweepers, j \in Jobs : SweepInv(s, j)'
      BY <2>1, <2>2, <2>3 DEF ClaimInv, SweepInv, Of
    <2> QED
      BY <2>4, <2>5, <2>6 DEF ClaimInv
  <1> QED
    BY <1>2, <1>3, <1>5, <1>6, <1>7

\* Every step keeps the invariant of the claims.
LEMMA ClaimInvStep ==
    ASSUME TInv, ClaimInv, \A a, b \in Sweepers : a = b, Next
    PROVE  ClaimInv'
  <1>1. ASSUME NEW j \in Jobs, TriageStep(j)
        PROVE  ClaimInv'
    <2>1. UNCHANGED <<job, run, dets, sweep>>
      BY <1>1 DEF TriageStep, TriageLlm, TriageRead, TriageCommit, TriageAlert, TriageLost
    <2>2. \A t \in Tokens : Tame(t)
      BY <2>1, TameRuns
    <2> QED
      BY <2>1, <2>2, TameStep
  <1>2. CASE ClaimError \/ Restart
    <2>1. \A u \in Tokens : run'[u] \in {IdleRun, Cancelled(run[u]), run[u]}
      BY <1>2 DEF ClaimError, PoolDies, Restart
    <2>2. \A t \in Tokens : Tame(t)
      BY <2>1, TameRuns
    <2>3. UNCHANGED <<job, dets, sweep>>
      BY <1>2 DEF ClaimError, Restart, scanVars
    <2> QED
      BY <2>2, <2>3, TameStep
  <1> QED
    BY <1>1, <1>2, RunReadSteps, JobSteps, JanitorSteps DEF Next, RunStep

\* With one sweeper the claims are consistent throughout.
LEMMA ClaimsConsistent ==
    ASSUME \A a, b \in Sweepers : a = b
    PROVE  Spec => []ClaimInv
  <1>1. Init => ClaimInv
    BY AttemptsAssumption, BoundAssumption
       DEF Init, ClaimInv, RunInv, JobInv, SweepInv, IdleRun, AbsentJob
  <1>2. TInv /\ ClaimInv /\ [Next]_vars => ClaimInv'
    <2>1. ClaimInv /\ UNCHANGED vars => ClaimInv'
      BY DEF vars, ClaimInv, RunInv, JobInv, SweepInv, Of
    <2> QED
      BY <2>1, ClaimInvStep
  <1> QED
    BY <1>1, <1>2, TypeInvariant, PTL DEF Spec

\* With one sweeper, however a claim is lost, swept and taken again, whichever
\* thread outlives its coroutine or the pool, and whatever the expiry by id does
\* to a claimed job, a scan gets at most one Detonation row.
THEOREM DetonatedOnce ==
    ASSUME \A a, b \in Sweepers : a = b
    PROVE  Spec => []OneDetonation
  <1>1. ClaimInv => OneDetonation
    BY DEF ClaimInv, JobInv, OneDetonation
  <1> QED
    BY <1>1, ClaimsConsistent, PTL

\* With one sweeper, no decision taken on an old copy of a job - of the sweep, of
\* _requeue_or_fail or of the expiry - opens a job again whose result is persisted.
THEOREM ResultsStaySettled ==
    ASSUME \A a, b \in Sweepers : a = b
    PROVE  Spec => []DetonatedSettled
  <1>1. ClaimInv => DetonatedSettled
    BY DEF ClaimInv, JobInv, DetonatedSettled, Settled
  <1> QED
    BY <1>1, ClaimsConsistent, PTL

\* With one sweeper, no job is charged more than MAX_AUTO_ATTEMPTS attempts.
THEOREM AttemptsCapped ==
    ASSUME \A a, b \in Sweepers : a = b
    PROVE  Spec => []AttemptsWithinCap
  <1>1. ClaimInv => AttemptsWithinCap
    BY DEF ClaimInv, JobInv, AttemptsWithinCap
  <1> QED
    BY <1>1, ClaimsConsistent, PTL
=============================================================================
