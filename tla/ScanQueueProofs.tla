--------------------------- MODULE ScanQueueProofs ---------------------------
(***************************************************************************)
(* Safety of ScanQueue for every number of packages, workers, pollers and  *)
(* claims, and for every choice of timeouts with the daylight queue.py     *)
(* asks for.                                                               *)
(***************************************************************************)
EXTENDS ScanQueue, TLAPS, FiniteSetTheorems

(***************************************************************************)
(* Type correctness, with what a run record says by itself: one that does  *)
(* anything is about an item, transaction 1 has a fetch outcome to         *)
(* persist, and it leaves the queue row alone if triage is to follow.      *)
(***************************************************************************)
Sound(q) ==
    /\ q \in Run
    /\ q.co # "idle" \/ q.th # "none" => q.item \in Items
    /\ q.th \in {"tx1", "tx1ing"} => q.fetch \in Persisted
    /\ q.th = "tx1ing" /\ q.fetch = "ok" /\ q.item \in HotItems => q.due = "skip"

RunsSound == \A t \in Tokens : Sound(run[t])
PlanHasItem == \A p \in Pollers : plan[p].op # "none" => plan[p].item \in Items

TInv == TypeOK /\ RunsSound /\ PlanHasItem

\* Apply, Finish and Touch map tables to tables.
LEMMA ApplyType ==
    ASSUME TypeOK, NEW i \in Items, NEW due, NEW s \in Terminal
    PROVE  /\ Apply(i, due, s) \in [Items -> Row]
           /\ Finish(i, s) \in [Items -> Row]
  <1>1. 0 \in 0 .. AgeCap
    BY BoundAssumption DEF AgeCap
  <1>2. Finish(i, s) \in [Items -> Row]
    BY <1>1 DEF TypeOK, Finish, Row, Terminal, Statuses
  <1>3. Touch(i) \in [Items -> Row]
    BY <1>1 DEF TypeOK, Touch, Row
  <1> QED
    BY <1>2, <1>3 DEF Apply, TypeOK

\* The idle run, and what the end of a coroutine or of a thread leaves, is sound.
LEMMA EndsSound ==
    ASSUME TInv, NEW t \in Tokens
    PROVE  Sound(IdleRun) /\ Sound(CoEnds(t)) /\ Sound(ThEnds(t)) /\ Sound(ThRaises(t))
  <1>1. 0 \in 0 .. ProcessTimeout + Lag
    BY BoundAssumption
  <1>2. run[t] \in Run /\ Sound(run[t])
    BY DEF TInv, RunsSound, Sound
  <1>3. Sound(IdleRun)
    BY <1>1 DEF Sound, IdleRun, Run, CoStates, ThStates, Fetches, Decisions
  <1>4. Sound(CoEnds(t))
    <2>1. CASE run[t].th = "none"
      BY <1>3, <2>1 DEF CoEnds
    <2>2. CASE run[t].th # "none"
      <3> DEFINE q == [run[t] EXCEPT !.co = "idle", !.timer = 0]
      <3>1. q \in Run
        BY <1>1, <1>2 DEF Run, CoStates
      <3>2. q.item = run[t].item /\ q.th = run[t].th /\ q.fetch = run[t].fetch /\ q.due = run[t].due
        BY <1>2 DEF Run
      <3>3. Sound(q)
        BY <1>2, <2>2, <3>1, <3>2 DEF Sound
      <3> QED
        BY <2>2, <3>3 DEF CoEnds
    <2> QED
      BY <2>1, <2>2
  <1>5. Sound(ThEnds(t))
    <2>1. CASE run[t].co \in {"fail", "failing"}
      <3> DEFINE q == [run[t] EXCEPT !.th = "none", !.fetch = "none", !.due = "none"]
      <3>1. q \in Run
        BY <1>2 DEF Run, ThStates, Fetches, Decisions
      <3>2. q.item = run[t].item /\ q.co = run[t].co /\ q.th = "none"
        BY <1>2 DEF Run
      <3>3. Sound(q)
        BY <1>2, <2>1, <3>1, <3>2 DEF Sound
      <3> QED
        BY <2>1, <3>3 DEF ThEnds
    <2>2. CASE run[t].co \notin {"fail", "failing"}
      BY <1>3, <2>2 DEF ThEnds
    <2> QED
      BY <2>1, <2>2
  <1>6. Sound(ThRaises(t))
    <2>1. CASE run[t].co = "await"
      <3> DEFINE q == [run[t] EXCEPT !.th = "qfail", !.fetch = "none", !.due = "none"]
      <3>1. q \in Run
        BY <1>2 DEF Run, ThStates, Fetches, Decisions
      <3>2. q.item = run[t].item /\ q.co = run[t].co /\ q.th = "qfail"
        BY <1>2 DEF Run
      <3>3. Sound(q)
        BY <1>2, <2>1, <3>1, <3>2 DEF Sound
      <3> QED
        BY <2>1, <3>3 DEF ThRaises
    <2>2. CASE run[t].co # "await"
      BY <1>5, <2>2 DEF ThRaises
    <2> QED
      BY <2>1, <2>2
  <1> QED
    BY <1>3, <1>4, <1>5, <1>6

\* Replacing one run by a sound one, with the tables kept well-formed.
LEMMA RunStepType ==
    ASSUME TInv, NEW t \in Tokens, NEW q, Sound(q),
           run' = [run EXCEPT ![t] = q],
           row' \in [Items -> Row],
           UNCHANGED <<plan, sweep, rescans>>,
           scans' \in [Items -> SUBSET ScanKinds], handled' \subseteq Items
    PROVE  TInv'
  <1>1. q \in Run
    BY DEF Sound
  <1>2. TypeOK'
    BY <1>1 DEF TInv, TypeOK
  <1>3. RunsSound'
    BY DEF TInv, TypeOK, RunsSound
  <1>4. PlanHasItem'
    BY DEF TInv, PlanHasItem
  <1> QED
    BY <1>2, <1>3, <1>4 DEF TInv

\* Every step of a run keeps the type invariant.
LEMMA RunTypeStep ==
    ASSUME TInv, NEW t \in Tokens, RunStep(t)
    PROVE  TInv'
  <1>1. Sound(run[t]) /\ run[t] \in Run
    BY DEF TInv, RunsSound, Sound
  <1>2. Sound(CoEnds(t)) /\ Sound(ThEnds(t)) /\ Sound(ThRaises(t)) /\ Sound(IdleRun)
    BY EndsSound
  <1>3. row \in [Items -> Row] /\ scans \in [Items -> SUBSET ScanKinds] /\ handled \subseteq Items
    BY DEF TInv, TypeOK
  <1>4. \A i \in Items, due \in Decisions, s \in Terminal :
          Apply(i, due, s) \in [Items -> Row] /\ Finish(i, s) \in [Items -> Row]
    BY ApplyType DEF TInv
  <1>5. \A s : Decide(t, s) \in Decisions
    BY DEF Decide, Decisions
  <1>6. run \in [Tokens -> Run]
    BY DEF TInv, TypeOK
  <1>7. CASE WorkerTimeout(t)
    <2>1. run[t].item \in Items
      BY <1>1, <1>7 DEF WorkerTimeout, InScan, Sound
    <2>2. Sound([run[t] EXCEPT !.co = "fail"])
      <3> DEFINE q == [run[t] EXCEPT !.co = "fail"]
      <3>1. q \in Run
        BY <1>1 DEF Run, CoStates
      <3>2. q.item = run[t].item /\ q.th = run[t].th /\ q.fetch = run[t].fetch /\ q.due = run[t].due
        BY <1>1 DEF Run
      <3> QED
        BY <1>1, <1>7, <2>1, <3>1, <3>2 DEF Sound, WorkerTimeout, InScan
    <2>3. Sound([run[t] EXCEPT !.co = "fail", !.th = "none", !.fetch = "none"])
      <3> DEFINE q == [run[t] EXCEPT !.co = "fail", !.th = "none", !.fetch = "none"]
      <3>1. q \in Run
        BY <1>1 DEF Run, CoStates, Fetches, ThStates
      <3>2. q.item = run[t].item /\ q.th = "none" /\ q.fetch = "none" /\ q.due = run[t].due
        BY <1>1 DEF Run
      <3> QED
        BY <1>1, <1>7, <2>1, <3>1, <3>2 DEF Sound, WorkerTimeout, InScan
    <2>4. \E q : Sound(q) /\ run' = [run EXCEPT ![t] = q]
      BY <1>2, <1>6, <1>7, <2>2, <2>3 DEF WorkerTimeout
    <2> QED
      BY <1>3, <1>7, <2>4, RunStepType DEF WorkerTimeout
  <1>8. CASE FailRowRead(t)
    <2>1. run[t].item \in Items
      BY <1>1, <1>8 DEF FailRowRead, Sound
    <2>2. Sound([run[t] EXCEPT !.co = "failing"])
      <3> DEFINE q == [run[t] EXCEPT !.co = "failing"]
      <3>1. q \in Run
        BY <1>1 DEF Run, CoStates
      <3>2. q.item = run[t].item /\ q.th = run[t].th /\ q.fetch = run[t].fetch /\ q.due = run[t].due
        BY <1>1 DEF Run
      <3> QED
        BY <1>1, <1>8, <2>1, <3>1, <3>2 DEF Sound, FailRowRead
    <2>3. \E q : Sound(q) /\ run' = [run EXCEPT ![t] = q]
      BY <1>2, <1>6, <1>8, <2>2 DEF FailRowRead
    <2> QED
      BY <1>3, <1>8, <2>3, RunStepType DEF FailRowRead
  <1>9. CASE FailRowFlush(t)
    <2>1. run[t].item \in Items
      BY <1>1, <1>9 DEF FailRowFlush, Sound
    <2>2. \E q : Sound(q) /\ run' = [run EXCEPT ![t] = q]
      BY <1>2, <1>6, <1>9 DEF FailRowFlush
    <2>3. row' \in [Items -> Row]
      BY <1>1, <1>3, <1>4, <1>9, <2>1 DEF FailRowFlush, Terminal, Item, Run
    <2> QED
      BY <1>3, <1>9, <2>2, <2>3, RunStepType DEF FailRowFlush
  <1>10. CASE LoadClaimed(t)
    <2>1. run[t].item \in Items
      BY <1>1, <1>10 DEF LoadClaimed, Sound
    <2>2. Sound([run[t] EXCEPT !.co = "work"])
      <3> DEFINE q == [run[t] EXCEPT !.co = "work"]
      <3>1. q \in Run
        BY <1>1 DEF Run, CoStates
      <3>2. q.item = run[t].item /\ q.th = run[t].th /\ q.fetch = run[t].fetch /\ q.due = run[t].due
        BY <1>1 DEF Run
      <3> QED
        BY <1>1, <1>10, <2>1, <3>1, <3>2 DEF Sound, LoadClaimed
    <2>3. Sound([run[t] EXCEPT !.co = "await", !.th = "qfail", !.fetch = "no_adapter"])
      <3> DEFINE q == [run[t] EXCEPT !.co = "await", !.th = "qfail", !.fetch = "no_adapter"]
      <3>1. q \in Run
        BY <1>1 DEF Run, CoStates, Fetches, ThStates
      <3>2. q.item = run[t].item /\ q.th = "qfail" /\ q.fetch = "no_adapter" /\ q.due = run[t].due
        BY <1>1 DEF Run
      <3> QED
        BY <1>1, <1>10, <2>1, <3>1, <3>2 DEF Sound, LoadClaimed
    <2>4. Sound([run[t] EXCEPT !.co = "fail"])
      <3> DEFINE q == [run[t] EXCEPT !.co = "fail"]
      <3>1. q \in Run
        BY <1>1 DEF Run, CoStates
      <3>2. q.item = run[t].item /\ q.th = run[t].th /\ q.fetch = run[t].fetch /\ q.due = run[t].due
        BY <1>1 DEF Run
      <3> QED
        BY <1>1, <1>10, <2>1, <3>1, <3>2 DEF Sound, LoadClaimed
    <2>5. \E q : Sound(q) /\ run' = [run EXCEPT ![t] = q]
      BY <1>2, <1>6, <1>10, <2>2, <2>3, <2>4 DEF LoadClaimed
    <2> QED
      BY <1>3, <1>10, <2>5, RunStepType DEF LoadClaimed
  <1>11. CASE ScanWork(t)
    <2>1. run[t].item \in Items
      BY <1>1, <1>11 DEF ScanWork, Sound
    <2>2. \A f \in Persisted : Sound([run[t] EXCEPT !.co = "await", !.th = "tx1", !.fetch = f])
      <3> TAKE f \in Persisted
      <3> DEFINE q == [run[t] EXCEPT !.co = "await", !.th = "tx1", !.fetch = f]
      <3>1. q \in Run
        BY <1>1 DEF Run, CoStates, Fetches, ThStates, Persisted
      <3>2. q.item = run[t].item /\ q.th = "tx1" /\ q.fetch = f /\ q.due = run[t].due
        BY <1>1 DEF Run
      <3> QED
        BY <1>1, <1>11, <2>1, <3>1, <3>2 DEF Sound, ScanWork
    <2>3. Sound([run[t] EXCEPT !.co = "await", !.th = "qfail"])
      <3> DEFINE q == [run[t] EXCEPT !.co = "await", !.th = "qfail"]
      <3>1. q \in Run
        BY <1>1 DEF Run, CoStates, ThStates
      <3>2. q.item = run[t].item /\ q.th = "qfail" /\ q.fetch = run[t].fetch /\ q.due = run[t].due
        BY <1>1 DEF Run
      <3> QED
        BY <1>1, <1>11, <2>1, <3>1, <3>2 DEF Sound, ScanWork
    <2>4. \E q : Sound(q) /\ run' = [run EXCEPT ![t] = q]
      BY <1>2, <1>6, <1>11, <2>2, <2>3 DEF ScanWork
    <2> QED
      BY <1>3, <1>11, <2>4, RunStepType DEF ScanWork
  <1>12. CASE MarkQueueFailedRead(t)
    <2>1. run[t].item \in Items
      BY <1>1, <1>12 DEF MarkQueueFailedRead, Sound
    <2>2. \A d \in Decisions : Sound([run[t] EXCEPT !.th = "qfailing", !.due = d])
      <3> TAKE d \in Decisions
      <3> DEFINE q == [run[t] EXCEPT !.th = "qfailing", !.due = d]
      <3>1. q \in Run
        BY <1>1 DEF Run, Decisions, ThStates
      <3>2. q.item = run[t].item /\ q.th = "qfailing" /\ q.fetch = run[t].fetch /\ q.due = d
        BY <1>1 DEF Run
      <3> QED
        BY <1>1, <1>12, <2>1, <3>1, <3>2 DEF Sound, MarkQueueFailedRead
    <2>3. \E q : Sound(q) /\ run' = [run EXCEPT ![t] = q]
      BY <1>2, <1>5, <1>6, <1>12, <2>2 DEF MarkQueueFailedRead
    <2> QED
      BY <1>3, <1>12, <2>3, RunStepType DEF MarkQueueFailedRead
  <1>13. CASE MarkQueueFailedFlush(t)
    <2>1. run[t].item \in Items
      BY <1>1, <1>13 DEF MarkQueueFailedFlush, Sound
    <2>2. Sound([run[t] EXCEPT !.co = "fail", !.th = "none", !.fetch = "none", !.due = "none"])
      <3> DEFINE q == [run[t] EXCEPT !.co = "fail", !.th = "none", !.fetch = "none", !.due = "none"]
      <3>1. q \in Run
        BY <1>1 DEF Run, CoStates, Decisions, Fetches, ThStates
      <3>2. q.item = run[t].item /\ q.th = "none" /\ q.fetch = "none" /\ q.due = "none"
        BY <1>1 DEF Run
      <3> QED
        BY <1>1, <1>13, <2>1, <3>1, <3>2 DEF Sound, MarkQueueFailedFlush
    <2>3. \E q : Sound(q) /\ run' = [run EXCEPT ![t] = q]
      BY <1>2, <1>6, <1>13, <2>2 DEF MarkQueueFailedFlush
    <2>4. row' \in [Items -> Row]
      BY <1>1, <1>3, <1>4, <1>13, <2>1 DEF MarkQueueFailedFlush, Terminal, Item, Run
    <2> QED
      BY <1>3, <1>13, <2>3, <2>4, RunStepType DEF MarkQueueFailedFlush
  <1>14. CASE Tx1Read(t)
    <2>1. run[t].item \in Items
      BY <1>1, <1>14 DEF Tx1Read, Sound
    <2>2. \A d \in Decisions : (Triaged(t) => d = "skip") => Sound([run[t] EXCEPT !.th = "tx1ing", !.due = d])
      <3> TAKE d \in Decisions
      <3> HAVE Triaged(t) => d = "skip"
      <3> DEFINE q == [run[t] EXCEPT !.th = "tx1ing", !.due = d]
      <3>1. q \in Run
        BY <1>1 DEF Run, Decisions, ThStates
      <3>2. q.item = run[t].item /\ q.th = "tx1ing" /\ q.fetch = run[t].fetch /\ q.due = d
        BY <1>1 DEF Run
      <3> QED
        BY <1>1, <1>14, <2>1, <3>1, <3>2 DEF Sound, Tx1Read, Triaged, Item
    <2>3. \E q : Sound(q) /\ run' = [run EXCEPT ![t] = q]
      <3> DEFINE d == IF Triaged(t) THEN "skip" ELSE Decide(t, Tx1Status(t))
      <3>1. d \in Decisions /\ (Triaged(t) => d = "skip")
        BY <1>5 DEF Decisions
      <3>2. Sound([run[t] EXCEPT !.th = "tx1ing", !.due = d])
        BY <2>2, <3>1
      <3> QED
        BY <1>2, <1>6, <1>14, <3>2 DEF Tx1Read
    <2> QED
      BY <1>3, <1>14, <2>3, RunStepType DEF Tx1Read
  <1>15. CASE Tx1Commit(t)
    <2>1. run[t].item \in Items
      BY <1>1, <1>15 DEF Tx1Commit, Sound
    <2>2. Sound([run[t] EXCEPT !.th = "triage", !.due = "none"])
      <3> DEFINE q == [run[t] EXCEPT !.th = "triage", !.due = "none"]
      <3>1. q \in Run
        BY <1>1 DEF Run, Decisions, ThStates
      <3>2. q.item = run[t].item /\ q.th = "triage" /\ q.fetch = run[t].fetch /\ q.due = "none"
        BY <1>1 DEF Run
      <3> QED
        BY <1>1, <1>15, <2>1, <3>1, <3>2 DEF Sound, Tx1Commit
    <2>3. Sound([run[t] EXCEPT !.th = "bump", !.due = "none"])
      <3> DEFINE q == [run[t] EXCEPT !.th = "bump", !.due = "none"]
      <3>1. q \in Run
        BY <1>1 DEF Run, Decisions, ThStates
      <3>2. q.item = run[t].item /\ q.th = "bump" /\ q.fetch = run[t].fetch /\ q.due = "none"
        BY <1>1 DEF Run
      <3> QED
        BY <1>1, <1>15, <2>1, <3>1, <3>2 DEF Sound, Tx1Commit
    <2>4. \E q : Sound(q) /\ run' = [run EXCEPT ![t] = q]
      BY <1>2, <1>6, <1>15, <2>2, <2>3 DEF Tx1Commit
    <2>5. row' \in [Items -> Row]
      BY <1>1, <1>3, <1>4, <1>15, <2>1 DEF Tx1Commit, Terminal, Item, Run, Tx1Status
    <2>6. scans' \in [Items -> SUBSET ScanKinds]
      <3>1. ScanKind(t) \in ScanKinds
        BY <1>1, <1>15 DEF ScanKind, ScanKinds, Persisted, Tx1Commit, Sound
      <3> QED
        BY <1>3, <1>15, <2>1, <3>1 DEF Tx1Commit, Item
    <2> QED
      BY <1>3, <1>15, <2>4, <2>5, <2>6, RunStepType DEF Tx1Commit
  <1>16. CASE Tx1Abort(t)
    <2>1. \E q : Sound(q) /\ run' = [run EXCEPT ![t] = q]
      BY <1>2, <1>6, <1>16 DEF Tx1Abort
    <2> QED
      BY <1>3, <1>16, <2>1, RunStepType DEF Tx1Abort
  <1>17. CASE TriageAlert(t)
    <2>1. run[t].item \in Items
      BY <1>1, <1>17 DEF TriageAlert, Sound
    <2>2. Sound([run[t] EXCEPT !.th = "final"])
      <3> DEFINE q == [run[t] EXCEPT !.th = "final"]
      <3>1. q \in Run
        BY <1>1 DEF Run, ThStates
      <3>2. q.item = run[t].item /\ q.th = "final" /\ q.fetch = run[t].fetch /\ q.due = run[t].due
        BY <1>1 DEF Run
      <3> QED
        BY <1>1, <1>17, <2>1, <3>1, <3>2 DEF Sound, TriageAlert
    <2>3. \E q : Sound(q) /\ run' = [run EXCEPT ![t] = q]
      BY <1>2, <1>6, <1>17, <2>2 DEF TriageAlert
    <2>4. handled' \subseteq Items
      BY <1>3, <1>17, <2>1 DEF TriageAlert, Item
    <2> QED
      BY <1>3, <1>17, <2>3, <2>4, RunStepType DEF TriageAlert
  <1>18. CASE FinalRead(t)
    <2>1. run[t].item \in Items
      BY <1>1, <1>18 DEF FinalRead, Sound
    <2>2. Sound([run[t] EXCEPT !.th = "bump"])
      <3> DEFINE q == [run[t] EXCEPT !.th = "bump"]
      <3>1. q \in Run
        BY <1>1 DEF Run, ThStates
      <3>2. q.item = run[t].item /\ q.th = "bump" /\ q.fetch = run[t].fetch /\ q.due = run[t].due
        BY <1>1 DEF Run
      <3> QED
        BY <1>1, <1>18, <2>1, <3>1, <3>2 DEF Sound, FinalRead
    <2>3. \A d \in Decisions : Sound([run[t] EXCEPT !.th = "finaling", !.due = d])
      <3> TAKE d \in Decisions
      <3> DEFINE q == [run[t] EXCEPT !.th = "finaling", !.due = d]
      <3>1. q \in Run
        BY <1>1 DEF Run, Decisions, ThStates
      <3>2. q.item = run[t].item /\ q.th = "finaling" /\ q.fetch = run[t].fetch /\ q.due = d
        BY <1>1 DEF Run
      <3> QED
        BY <1>1, <1>18, <2>1, <3>1, <3>2 DEF Sound, FinalRead
    <2>4. \E q : Sound(q) /\ run' = [run EXCEPT ![t] = q]
      BY <1>2, <1>5, <1>6, <1>18, <2>2, <2>3 DEF FinalRead
    <2> QED
      BY <1>3, <1>18, <2>4, RunStepType DEF FinalRead
  <1>19. CASE FinalFlush(t)
    <2>1. run[t].item \in Items
      BY <1>1, <1>19 DEF FinalFlush, Sound
    <2>2. Sound([run[t] EXCEPT !.th = "bump", !.due = "none"])
      <3> DEFINE q == [run[t] EXCEPT !.th = "bump", !.due = "none"]
      <3>1. q \in Run
        BY <1>1 DEF Run, Decisions, ThStates
      <3>2. q.item = run[t].item /\ q.th = "bump" /\ q.fetch = run[t].fetch /\ q.due = "none"
        BY <1>1 DEF Run
      <3> QED
        BY <1>1, <1>19, <2>1, <3>1, <3>2 DEF Sound, FinalFlush
    <2>3. \E q : Sound(q) /\ run' = [run EXCEPT ![t] = q]
      BY <1>2, <1>6, <1>19, <2>2 DEF FinalFlush
    <2>4. row' \in [Items -> Row]
      BY <1>1, <1>3, <1>4, <1>19, <2>1 DEF FinalFlush, Terminal, Item, Run
    <2> QED
      BY <1>3, <1>19, <2>3, <2>4, RunStepType DEF FinalFlush
  <1>20. CASE BumpRuleHits(t)
    <2>1. \E q : Sound(q) /\ run' = [run EXCEPT ![t] = q]
      BY <1>2, <1>6, <1>20 DEF BumpRuleHits
    <2> QED
      BY <1>3, <1>20, <2>1, RunStepType DEF BumpRuleHits
  <1> QED
    BY <1>7, <1>8, <1>9, <1>10, <1>11, <1>12, <1>13, <1>14, <1>15, <1>16, <1>17, <1>18, <1>19, <1>20
    DEF RunStep

LEMMA TypeInit == Init => TInv
  <1> SUFFICES ASSUME Init PROVE TInv
    OBVIOUS
  <1>1. AbsentRow \in Row
    BY BoundAssumption DEF AbsentRow, Row, Statuses, AgeCap
  <1>2. Sound(IdleRun) /\ IdleRun \in Run
    BY BoundAssumption DEF Sound, IdleRun, Run, CoStates, ThStates, Fetches, Decisions
  <1>3. TypeOK
    BY <1>1, <1>2, BoundAssumption DEF Init, TypeOK, NoPlan, Plan, SweepPlans
  <1>4. RunsSound
    BY <1>2 DEF Init, RunsSound
  <1>5. PlanHasItem
    BY DEF Init, PlanHasItem, NoPlan
  <1> QED
    BY <1>3, <1>4, <1>5 DEF TInv

\* A step that touches neither runs nor plans.
LEMMA TableStepType ==
    ASSUME TInv, row' \in [Items -> Row], sweep' \in [Sweepers -> [Items -> SweepPlans]],
           UNCHANGED <<run, plan, rescans, scans, handled>>
    PROVE  TInv'
  BY DEF TInv, TypeOK, RunsSound, PlanHasItem

LEMMA PollerTypeStep ==
    ASSUME TInv, NEW p \in Pollers, PollerStep(p)
    PROVE  TInv'
  <1>1. TypeOK /\ RunsSound /\ PlanHasItem
    BY DEF TInv
  <1>2. NoPlan \in Plan /\ NoPlan.op = "none"
    BY DEF NoPlan, Plan
  <1>3. \A i \in Items : /\ InsertPlan(i) \in Plan /\ InsertPlan(i).item \in Items
                         /\ PromotePlan(i) \in Plan /\ PromotePlan(i).item \in Items
    BY DEF Plan, InsertPlan, PromotePlan
  <1>4. 0 \in 0 .. AgeCap
    BY BoundAssumption DEF AgeCap
  <1>5. CASE \E i \in Items : EnqueueRead(p, i)
    BY <1>1, <1>3, <1>5 DEF EnqueueRead, TInv, TypeOK, RunsSound, PlanHasItem
  <1>6. CASE \E i \in Items : RescanRead(p, i)
    <2>1. rescans' \in 0 .. MaxRescans
      BY <1>1, <1>6, BoundAssumption DEF RescanRead, TypeOK
    <2> QED
      BY <1>1, <1>3, <1>6, <2>1 DEF RescanRead, TInv, TypeOK, RunsSound, PlanHasItem
  <1>7. CASE InsertFlush(p)
    <2>1. plan[p].item \in Items
      BY <1>1, <1>7 DEF InsertFlush, PlanHasItem
    <2>2. [AbsentRow EXCEPT !.status = "pending"] \in Row
      BY <1>4 DEF AbsentRow, Row, Statuses
    <2>3. row' \in [Items -> Row]
      BY <1>1, <1>7, <2>1, <2>2 DEF InsertFlush, TypeOK
    <2> QED
      BY <1>1, <1>2, <1>7, <2>3 DEF InsertFlush, TInv, TypeOK, RunsSound, PlanHasItem
  <1>8. CASE PromoteFlush(p)
    <2>1. plan[p].item \in Items
      BY <1>1, <1>8 DEF PromoteFlush, PlanHasItem
    <2> DEFINE i == plan[p].item
    <2> DEFINE q == Released(row[i], plan[p].clear)
    <2>2. q \in Row
      BY <1>1, <1>4, <2>1 DEF TypeOK, Row, Statuses, Released
    <2>3. row' = row \/ row' = [row EXCEPT ![i] = q]
      BY <1>8 DEF PromoteFlush
    <2>4. row' \in [Items -> Row]
      BY <1>1, <2>1, <2>2, <2>3 DEF TypeOK
    <2> QED
      BY <1>1, <1>2, <1>8, <2>4 DEF PromoteFlush, TInv, TypeOK, RunsSound, PlanHasItem
  <1>9. CASE EnqueueGiveUp(p)
    BY <1>1, <1>2, <1>9 DEF EnqueueGiveUp, TInv, TypeOK, RunsSound, PlanHasItem
  <1> QED
    BY <1>5, <1>6, <1>7, <1>8, <1>9 DEF PollerStep

LEMMA ClaimTypeStep ==
    ASSUME TInv, NEW t \in Tokens, NEW i \in Items, ClaimNext(t, i)
    PROVE  TInv'
  <1>1. Sound(ClaimedRun(i))
    BY BoundAssumption DEF Sound, ClaimedRun, Run, CoStates, ThStates, Fetches, Decisions
  <1>2. row[i] \in Row /\ 0 \in 0 .. AgeCap
    BY BoundAssumption DEF TInv, TypeOK, AgeCap
  <1>3. [status |-> "claimed", attempts |-> row[i].attempts + 1, token |-> t, age |-> 0] \in Row
    BY <1>2 DEF Row, Statuses
  <1>4. row' \in [Items -> Row]
    BY <1>3 DEF ClaimNext, TInv, TypeOK
  <1> QED
    BY <1>1, <1>4, RunStepType DEF ClaimNext, TInv, TypeOK

LEMMA SweepTypeStep ==
    ASSUME TInv, JanitorStep
    PROVE  TInv'
  <1>1. TypeOK
    BY DEF TInv
  <1>2. 0 \in 0 .. AgeCap
    BY BoundAssumption DEF AgeCap
  <1>3. ASSUME NEW s \in Sweepers, SweepRead(s)
        PROVE  TInv'
    <2>1. [i \in Items |-> IF Stale(i) THEN SweepDecision(i) ELSE "keep"] \in [Items -> SweepPlans]
      BY DEF SweepDecision, SweepPlans
    <2>2. sweep' \in [Sweepers -> [Items -> SweepPlans]]
      BY <1>1, <1>3, <2>1 DEF SweepRead, TypeOK
    <2> QED
      BY <1>1, <1>3, <2>2, TableStepType DEF SweepRead, TypeOK
  <1>4. ASSUME NEW s \in Sweepers, SweepFlush(s)
        PROVE  TInv'
    <2>1. \A i \in Items : [row[i] EXCEPT !.status = "failed", !.age = 0] \in Row
      BY <1>1, <1>2 DEF TypeOK, Row, Statuses
    <2>2. \A i \in Items : Released(row[i], TRUE) \in Row
      BY <1>1, <1>2 DEF TypeOK, Row, Statuses, Released
    <2>3. \A i \in Items : row[i] \in Row
      BY <1>1 DEF TypeOK
    <2>4. row' \in [Items -> Row]
      BY <1>1, <1>4, <2>1, <2>2, <2>3 DEF SweepFlush, TypeOK
    <2>5. sweep' \in [Sweepers -> [Items -> SweepPlans]]
      BY <1>1, <1>4 DEF SweepFlush, SweepPlans, TypeOK
    <2> QED
      BY <1>4, <2>4, <2>5, TableStepType DEF SweepFlush
  <1>5. CASE PruneTerminal
    <2>1. AbsentRow \in Row
      BY <1>2 DEF AbsentRow, Row, Statuses
    <2>2. row' \in [Items -> Row]
      BY <1>1, <1>5, <2>1 DEF PruneTerminal, TypeOK
    <2> QED
      BY <1>1, <1>5, <2>2, TableStepType DEF PruneTerminal, TypeOK
  <1> QED
    BY <1>3, <1>4, <1>5 DEF JanitorStep

\* The age of a row and the timer of a run stay within their bounds.
LEMMA TickTypeStep ==
    ASSUME TInv, Tick
    PROVE  TInv'
  <1>1. TypeOK /\ RunsSound /\ PlanHasItem
    BY DEF TInv
  <1>2. \A n \in 0 .. AgeCap : Older(n) \in 0 .. AgeCap
    BY BoundAssumption DEF AgeCap, Older
  <1>3. \A i \in Items : [row[i] EXCEPT !.age = Older(row[i].age)] \in Row
    BY <1>1, <1>2 DEF TypeOK, Row
  <1>4. row' \in [Items -> Row]
    BY <1>1, <1>3 DEF Tick, TypeOK
  <1>5. ASSUME NEW t \in Tokens
        PROVE  Sound(run'[t])
    <2>1. Sound(run[t]) /\ run[t] \in Run
      BY <1>1 DEF RunsSound, Sound
    <2>2. CASE t \in Busy
      <3> DEFINE q == [run[t] EXCEPT !.timer = @ + 1]
      <3>1. run[t].timer + 1 \in 0 .. ProcessTimeout + Lag
        BY <2>1, <2>2, BoundAssumption DEF Tick, Run
      <3>2. q \in Run
        BY <2>1, <3>1 DEF Run
      <3>3. q.item = run[t].item /\ q.co = run[t].co /\ q.th = run[t].th
            /\ q.fetch = run[t].fetch /\ q.due = run[t].due
        BY <2>1 DEF Run
      <3>4. Sound(q)
        BY <2>1, <3>2, <3>3 DEF Sound
      <3>5. run'[t] = q
        BY <2>2 DEF Tick
      <3> QED
        BY <3>4, <3>5
    <2>3. CASE t \notin Busy
      BY <2>1, <2>3 DEF Tick
    <2> QED
      BY <2>2, <2>3
  <1>6. run' \in [Tokens -> Run]
    <2>1. \A t \in Tokens : run'[t] \in Run
      BY <1>5 DEF Sound
    <2> QED
      BY <2>1 DEF Tick
  <1> QED
    BY <1>1, <1>4, <1>5, <1>6 DEF Tick, TInv, TypeOK, RunsSound, PlanHasItem

LEMMA TypeStep == TInv /\ [Next]_vars => TInv'
  <1> SUFFICES ASSUME TInv, [Next]_vars PROVE TInv'
    OBVIOUS
  <1>1. CASE \E p \in Pollers : PollerStep(p)
    BY <1>1, PollerTypeStep
  <1>2. CASE \E t \in Tokens, i \in Items : ClaimNext(t, i)
    BY <1>2, ClaimTypeStep
  <1>3. CASE \E t \in Tokens : RunStep(t)
    BY <1>3, RunTypeStep
  <1>4. CASE \E t \in Tokens : Crash(t)
    <2>1. PICK t \in Tokens : Crash(t)
      BY <1>4
    <2>2. Sound(IdleRun)
      BY EndsSound
    <2> QED
      BY <2>1, <2>2, RunStepType DEF Crash, TInv, TypeOK
  <1>5. CASE JanitorStep
    BY <1>5, SweepTypeStep
  <1>6. CASE Tick
    BY <1>6, TickTypeStep
  <1>7. CASE UNCHANGED vars
    BY <1>7 DEF vars, TInv, TypeOK, RunsSound, PlanHasItem
  <1> QED
    BY <1>1, <1>2, <1>3, <1>4, <1>5, <1>6, <1>7 DEF Next

\* Every reachable state of the queue and its writers is well-typed.
THEOREM TypeCorrect == Spec => []TypeOK
  <1>1. TInv => TypeOK
    BY DEF TInv
  <1> QED
    BY TypeInit, TypeStep, <1>1, PTL DEF Spec

(***************************************************************************)
(* What the steps of a run do to the table and to the runs.                *)
(***************************************************************************)

\* The ORM writes end in a terminal status and touch no other row.
LEMMA ApplyEffect ==
    ASSUME TypeOK, NEW i \in Items, NEW due, NEW s \in Terminal, NEW j \in Items
    PROVE  /\ Apply(i, due, s)[j].status \notin Terminal => Apply(i, due, s)[j] = row[j]
           /\ Apply(i, due, s)[j].status # row[j].status =>
                j = i /\ due = "write" /\ Apply(i, due, s)[j].status = s
           /\ Finish(i, s)[j].status \notin Terminal => Finish(i, s)[j] = row[j]
           /\ Finish(i, s)[j].status # row[j].status => Finish(i, s)[j].status = s
  <1>1. row[j] \in Row
    BY DEF TypeOK
  <1>2. /\ Finish(i, s)[j].status \notin Terminal => Finish(i, s)[j] = row[j]
        /\ Finish(i, s)[j].status # row[j].status => j = i /\ Finish(i, s)[j].status = s
    BY <1>1 DEF TypeOK, Finish, Row
  <1>3. /\ Touch(i)[j].status \notin Terminal => Touch(i)[j] = row[j]
        /\ Touch(i)[j].status = row[j].status
    BY <1>1 DEF TypeOK, Touch, Row
  <1> QED
    BY <1>2, <1>3 DEF Apply

\* A run never leaves a row unclaimed or claimed that it did not find so; the only
\* rows that become done are those of a transaction 1 or a final mark_done.
LEMMA RunRowEffect ==
    ASSUME TInv, NEW t \in Tokens, RunStep(t), NEW j \in Items
    PROVE  /\ row'[j].status \notin Terminal => row'[j] = row[j]
           /\ row'[j].status = "done" /\ row[j].status # "done" =>
                /\ j = Item(t)
                /\ \/ Tx1Commit(t) /\ run[t].due = "write" /\ Tx1Status(t) = "done"
                   \/ FinalFlush(t)
  <1>1. TypeOK /\ Sound(run[t]) /\ run[t].due \in Decisions
    BY DEF TInv, RunsSound, Sound, Run
  <1>2. CASE UNCHANGED row
    BY <1>2
  <1>3. CASE FailRowFlush(t) /\ row' = Finish(Item(t), "failed")
    <2>1. Item(t) \in Items
      BY <1>1, <1>3 DEF FailRowFlush, Sound, Item
    <2> QED
      BY <1>1, <1>3, <2>1, ApplyEffect DEF Terminal
  <1>4. CASE MarkQueueFailedFlush(t) /\ row' = Apply(Item(t), run[t].due, "failed")
    <2>1. Item(t) \in Items
      BY <1>1, <1>4 DEF MarkQueueFailedFlush, Sound, Item
    <2> QED
      BY <1>1, <1>4, <2>1, ApplyEffect DEF Terminal
  <1>5. CASE Tx1Commit(t)
    <2>1. Item(t) \in Items /\ Tx1Status(t) \in Terminal
      BY <1>1, <1>5 DEF Tx1Commit, Sound, Item, Tx1Status, Terminal
    <2>2. row' = Apply(Item(t), run[t].due, Tx1Status(t))
      BY <1>5 DEF Tx1Commit
    <2> QED
      BY <1>1, <1>5, <2>1, <2>2, ApplyEffect
  <1>6. CASE FinalFlush(t) /\ row' = Apply(Item(t), run[t].due, "done")
    <2>1. Item(t) \in Items
      BY <1>1, <1>6 DEF FinalFlush, Sound, Item
    <2> QED
      BY <1>1, <1>6, <2>1, ApplyEffect DEF Terminal
  <1> QED
    BY <1>2, <1>3, <1>4, <1>5, <1>6
    DEF RunStep, WorkerTimeout, FailRowRead, FailRowFlush, LoadClaimed, ScanWork,
        MarkQueueFailedRead, MarkQueueFailedFlush, Tx1Read, Tx1Abort, TriageAlert,
        FinalRead, FinalFlush, BumpRuleHits

\* A run step never makes an idle coroutine busy and never turns a timer back.
LEMMA RunTimerEffect ==
    ASSUME TInv, NEW t \in Tokens, RunStep(t), NEW u \in Tokens, run'[u].co # "idle"
    PROVE  run[u].co # "idle" /\ run'[u].timer = run[u].timer
  <1>1. run \in [Tokens -> Run] /\ run[u] \in Run
    BY DEF TInv, TypeOK
  <1>2. CASE u # t
    <2>1. \E q : run' = [run EXCEPT ![t] = q]
      BY <1>1
      DEF RunStep, WorkerTimeout, FailRowRead, FailRowFlush, LoadClaimed, ScanWork,
          MarkQueueFailedRead, MarkQueueFailedFlush, Tx1Read, Tx1Commit, Tx1Abort,
          TriageAlert, FinalRead, FinalFlush, BumpRuleHits
    <2> QED
      BY <1>1, <1>2, <2>1
  <1>3. CASE u = t
    <2>1. run[t] \in Run
      BY <1>1
    <2>2. IdleRun.co = "idle" /\ CoEnds(t).co = "idle"
      BY <2>1 DEF CoEnds, IdleRun, Run
    <2>3. ThEnds(t).co # "idle" => run[t].co # "idle" /\ ThEnds(t).timer = run[t].timer
      BY <2>1, <2>2 DEF ThEnds, Run
    <2>4. ThRaises(t).co # "idle" => run[t].co # "idle" /\ ThRaises(t).timer = run[t].timer
      BY <2>1, <2>3 DEF ThRaises, Run
    <2>5. CASE WorkerTimeout(t) \/ LoadClaimed(t) \/ ScanWork(t)
      BY <1>1, <1>3, <2>1, <2>2, <2>5 DEF WorkerTimeout, InScan, LoadClaimed, ScanWork, Run
    <2>6. CASE FailRowRead(t) \/ FailRowFlush(t)
      BY <1>1, <1>3, <2>1, <2>2, <2>6 DEF FailRowRead, FailRowFlush, Run
    <2>7. CASE MarkQueueFailedRead(t)
      <3> DEFINE q1 == [run[t] EXCEPT !.th = "qfailing", !.due = Decide(t, "failed")]
      <3>1. run'[t] = ThEnds(t) \/ run'[t] = q1
        BY <1>1, <2>7 DEF MarkQueueFailedRead
      <3>2. q1.co = run[t].co /\ q1.timer = run[t].timer
        BY <2>1 DEF Run
      <3> QED
        BY <1>3, <2>3, <2>4, <3>1, <3>2
    <2>8. CASE MarkQueueFailedFlush(t)
      <3> DEFINE q == [run[t] EXCEPT !.co = "fail", !.th = "none", !.fetch = "none", !.due = "none"]
      <3>1. run'[t] = ThEnds(t) \/ (run[t].co = "await" /\ run'[t] = q)
        BY <1>1, <2>8 DEF MarkQueueFailedFlush
      <3>2. q.timer = run[t].timer
        BY <2>1 DEF Run
      <3> QED
        BY <1>3, <2>3, <3>1, <3>2
    <2>9. CASE Tx1Read(t)
      <3> DEFINE q1 == [run[t] EXCEPT !.th = "tx1ing",
                                         !.due = IF Triaged(t) THEN "skip" ELSE Decide(t, Tx1Status(t))]
      <3>1. run'[t] = ThEnds(t) \/ run'[t] = q1
        BY <1>1, <2>9 DEF Tx1Read
      <3>2. q1.co = run[t].co /\ q1.timer = run[t].timer
        BY <2>1 DEF Run
      <3> QED
        BY <1>3, <2>3, <2>4, <3>1, <3>2
    <2>10. CASE Tx1Commit(t)
      <3> DEFINE q1 == [run[t] EXCEPT !.th = "triage", !.due = "none"]
      <3> DEFINE q2 == [run[t] EXCEPT !.th = "bump", !.due = "none"]
      <3>1. run'[t] = ThEnds(t) \/ run'[t] = q1 \/ run'[t] = q2
        BY <1>1, <2>10 DEF Tx1Commit
      <3>2. q1.co = run[t].co /\ q1.timer = run[t].timer
        BY <2>1 DEF Run
      <3>3. q2.co = run[t].co /\ q2.timer = run[t].timer
        BY <2>1 DEF Run
      <3> QED
        BY <1>3, <2>3, <2>4, <3>1, <3>2, <3>3
    <2>11. CASE Tx1Abort(t)
      <3>1. run'[t] = ThRaises(t)
        BY <1>1, <2>11 DEF Tx1Abort
      <3> QED
        BY <1>3, <2>3, <2>4, <3>1
    <2>12. CASE BumpRuleHits(t)
      <3>1. run'[t] = ThEnds(t) \/ run'[t] = ThRaises(t)
        BY <1>1, <2>12 DEF BumpRuleHits
      <3> QED
        BY <1>3, <2>3, <2>4, <3>1
    <2>13. CASE TriageAlert(t)
      <3> DEFINE q1 == [run[t] EXCEPT !.th = "final"]
      <3>1. run'[t] = ThRaises(t) \/ run'[t] = q1
        BY <1>1, <2>13 DEF TriageAlert
      <3>2. q1.co = run[t].co /\ q1.timer = run[t].timer
        BY <2>1 DEF Run
      <3> QED
        BY <1>3, <2>3, <2>4, <3>1, <3>2
    <2>14. CASE FinalRead(t)
      <3> DEFINE q1 == [run[t] EXCEPT !.th = "bump"]
      <3> DEFINE q2 == [run[t] EXCEPT !.th = "finaling", !.due = Decide(t, "done")]
      <3>1. run'[t] = q1 \/ run'[t] = q2
        BY <1>1, <2>14 DEF FinalRead
      <3>2. q1.co = run[t].co /\ q1.timer = run[t].timer
        BY <2>1 DEF Run
      <3>3. q2.co = run[t].co /\ q2.timer = run[t].timer
        BY <2>1 DEF Run
      <3> QED
        BY <1>3, <2>3, <2>4, <3>1, <3>2, <3>3
    <2>15. CASE FinalFlush(t)
      <3> DEFINE q1 == [run[t] EXCEPT !.th = "bump", !.due = "none"]
      <3>1. run'[t] = ThRaises(t) \/ run'[t] = q1
        BY <1>1, <2>15 DEF FinalFlush
      <3>2. q1.co = run[t].co /\ q1.timer = run[t].timer
        BY <2>1 DEF Run
      <3> QED
        BY <1>3, <2>3, <2>4, <3>1, <3>2
    <2> QED
      BY <2>5, <2>6, <2>7, <2>8, <2>9, <2>10, <2>11, <2>12, <2>13, <2>14, <2>15 DEF RunStep
  <1> QED
    BY <1>2, <1>3

\* A poller leaves a row alone or releases it.
LEMMA PollerRowEffect ==
    ASSUME TInv, NEW p \in Pollers, PollerStep(p), NEW j \in Items
    PROVE  /\ run' = run
           /\ row'[j] = row[j] \/ row'[j].status = "pending"
  <1>1. row \in [Items -> Row] /\ row[j] \in Row
    BY DEF TInv, TypeOK
  <1>2. CASE UNCHANGED <<row, run>>
    BY <1>2
  <1>3. CASE InsertFlush(p)
    <2> DEFINE q == [AbsentRow EXCEPT !.status = "pending"]
    <2>1. row' = row \/ row' = [row EXCEPT ![plan[p].item] = q]
      BY <1>3 DEF InsertFlush
    <2>2. q.status = "pending"
      BY DEF AbsentRow
    <2> QED
      BY <1>1, <1>3, <2>1, <2>2 DEF InsertFlush
  <1>4. CASE PromoteFlush(p)
    <2> DEFINE q == Released(row[j], plan[p].clear)
    <2>1. row'[j] = row[j] \/ row'[j] = q
      BY <1>1, <1>4 DEF PromoteFlush
    <2>2. q.status = "pending"
      BY DEF Released
    <2> QED
      BY <1>4, <2>1, <2>2 DEF PromoteFlush
  <1> QED
    BY <1>2, <1>3, <1>4 DEF PollerStep, EnqueueRead, RescanRead, EnqueueGiveUp

\* A janitor leaves a row alone, fails it, releases it, or deletes it.
LEMMA SweepRowEffect ==
    ASSUME TInv, JanitorStep, NEW j \in Items
    PROVE  /\ run' = run
           /\ \/ row'[j] = row[j] \/ row'[j] = AbsentRow \/ row'[j].status = "failed"
              \/ row'[j].status = "pending"
  <1>1. row \in [Items -> Row] /\ row[j] \in Row
    BY DEF TInv, TypeOK
  <1>2. CASE \E s \in Sweepers : SweepRead(s)
    BY <1>2 DEF SweepRead
  <1>3. CASE \E s \in Sweepers : SweepFlush(s)
    <2> DEFINE f == [row[j] EXCEPT !.status = "failed", !.age = 0]
    <2> DEFINE q == Released(row[j], TRUE)
    <2>1. row'[j] = row[j] \/ row'[j] = f \/ row'[j] = q
      BY <1>1, <1>3 DEF SweepFlush
    <2>2. f.status = "failed" /\ q.status = "pending"
      BY <1>1 DEF Row, Released
    <2> QED
      BY <1>3, <2>1, <2>2 DEF SweepFlush
  <1>4. CASE PruneTerminal
    BY <1>1, <1>4 DEF PruneTerminal
  <1> QED
    BY <1>2, <1>3, <1>4 DEF JanitorStep

(***************************************************************************)
(* The sweep spares live claims.  LiveClaimFresh is not inductive by       *)
(* itself: it needs that a claim is never older than its worker's timer.   *)
(***************************************************************************)
Clocked ==
    \A i \in Items, t \in Tokens :
        row[i].status = "claimed" /\ row[i].token = t /\ run[t].co # "idle"
            => row[i].age <= run[t].timer

LEMMA ClockedStep == TInv /\ Clocked /\ [Next]_vars => Clocked'
  <1> SUFFICES ASSUME TInv, Clocked, [Next]_vars,
                      NEW i \in Items, NEW t \in Tokens,
                      row'[i].status = "claimed", row'[i].token = t, run'[t].co # "idle"
               PROVE  row'[i].age <= run'[t].timer
    BY DEF Clocked
  <1>1. TypeOK /\ row[i] \in Row /\ run[t] \in Run
    BY DEF TInv, TypeOK
  <1>2. ASSUME row'[i] = row[i], run[t].co # "idle", run'[t].timer = run[t].timer
        PROVE  row'[i].age <= run'[t].timer
    BY <1>2 DEF Clocked
  <1>3. CASE \E p \in Pollers : PollerStep(p)
    BY <1>2, <1>3, PollerRowEffect
  <1>4. ASSUME NEW u \in Tokens, NEW j \in Items, ClaimNext(u, j)
        PROVE  row'[i].age <= run'[t].timer
    <2>1. CASE i = j
      BY <1>1, <1>4, <2>1 DEF ClaimNext, TInv, TypeOK, ClaimedRun
    <2>2. CASE i # j
      <3>1. row'[i] = row[i] /\ t # u
        BY <1>1, <1>4, <2>2 DEF ClaimNext, Fresh, TypeOK
      <3>2. run'[t] = run[t]
        BY <1>1, <1>4, <3>1 DEF ClaimNext, TypeOK
      <3> QED
        BY <1>2, <3>1, <3>2
    <2> QED
      BY <2>1, <2>2
  <1>5. ASSUME NEW u \in Tokens, RunStep(u)
        PROVE  row'[i].age <= run'[t].timer
    <2>1. row'[i] = row[i]
      BY <1>5, RunRowEffect DEF Terminal
    <2>2. run[t].co # "idle" /\ run'[t].timer = run[t].timer
      BY <1>5, RunTimerEffect
    <2> QED
      BY <1>2, <2>1, <2>2
  <1>6. ASSUME NEW u \in Tokens, Crash(u)
        PROVE  row'[i].age <= run'[t].timer
    BY <1>1, <1>2, <1>6 DEF Crash, IdleRun, TypeOK
  <1>7. CASE JanitorStep
    BY <1>2, <1>7, SweepRowEffect DEF AbsentRow
  <1>8. CASE Tick
    <2>1. row[i].status = "claimed" /\ row[i].token = t /\ row'[i].age = Older(row[i].age)
      BY <1>1, <1>8 DEF Tick, Row
    <2>2. run[t].co # "idle" /\ run'[t].timer = run[t].timer + 1
      BY <1>1, <1>8 DEF Tick, Busy, Run
    <2>3. row[i].age <= run[t].timer
      BY <2>1, <2>2 DEF Clocked
    <2>4. row[i].age \in Int /\ run[t].timer \in Int /\ AgeCap \in Int
      BY <1>1, BoundAssumption DEF Row, Run, AgeCap
    <2> QED
      BY <2>1, <2>2, <2>3, <2>4 DEF Older
  <1>9. CASE UNCHANGED vars
    BY <1>2, <1>9 DEF vars
  <1> QED
    BY <1>3, <1>4, <1>5, <1>6, <1>7, <1>8, <1>9 DEF Next

\* For every choice of timeouts with PROCESS_TIMEOUT_SECONDS plus the lag inside
\* STALE_CLAIM_TIMEOUT_SECONDS, and for any number of hosts and packages, the
\* sweep never selects a claim that its worker has not let go of.
THEOREM SweepSparesLive == Spec => []LiveClaimFresh
  <1>1. Init => Clocked
    BY DEF Init, Clocked, AbsentRow
  <1>2. TInv /\ Clocked => LiveClaimFresh
    <2> SUFFICES ASSUME TInv, Clocked, NEW i \in Items, NEW t \in Tokens,
                        Stale(i), row[i].token = t, run[t].co # "idle"
                 PROVE  FALSE
      BY DEF LiveClaimFresh
    <2>1. row[i].age <= run[t].timer /\ row[i].age > StaleTimeout
      BY DEF Clocked, Stale
    <2>2. run[t].timer \in 0 .. ProcessTimeout + Lag /\ row[i].age \in Int
      BY BoundAssumption DEF TInv, TypeOK, Run, Row
    <2> QED
      BY <2>1, <2>2, BoundAssumption, DaylightAssumption
  <1> QED
    BY TypeInit, TypeStep, ClockedStep, <1>1, <1>2, PTL DEF Spec

(***************************************************************************)
(* No claim loses its token: only the compare-and-set of claim_next makes  *)
(* a row claimed, and whoever clears a token releases the row with it.     *)
(***************************************************************************)
LEMMA TokenStep == TInv /\ ClaimHasToken /\ [Next]_vars => ClaimHasToken'
  <1> SUFFICES ASSUME TInv, ClaimHasToken, [Next]_vars, NEW i \in Items, row'[i].status = "claimed"
               PROVE  row'[i].token # NoToken
    BY DEF ClaimHasToken
  <1>1. TypeOK /\ row[i] \in Row
    BY DEF TInv, TypeOK
  <1>2. row[i].status = "claimed" => row[i].token # NoToken
    BY DEF ClaimHasToken
  <1>3. CASE \E p \in Pollers : PollerStep(p)
    BY <1>2, <1>3, PollerRowEffect
  <1>4. CASE \E u \in Tokens, j \in Items : ClaimNext(u, j)
    BY <1>1, <1>2, <1>4, NoneAssumption DEF ClaimNext, TypeOK
  <1>5. CASE \E u \in Tokens : RunStep(u)
    <2>1. row'[i].status \notin Terminal => row'[i] = row[i]
      BY <1>5, RunRowEffect
    <2> QED
      BY <1>2, <2>1 DEF Terminal
  <1>6. CASE JanitorStep
    BY <1>2, <1>6, SweepRowEffect DEF AbsentRow
  <1>7. CASE Tick
    BY <1>1, <1>2, <1>7 DEF Tick, Row
  <1>8. CASE UNCHANGED row
    BY <1>2, <1>8
  <1> QED
    BY <1>3, <1>4, <1>5, <1>6, <1>7, <1>8 DEF Next, Crash, vars

\* Whatever stale decision is flushed over a row, by any number of pollers,
\* workers and sweeps, a claimed row still carries a token.
THEOREM ClaimsNamed == Spec => []ClaimHasToken
  <1>1. Init => ClaimHasToken
    BY DEF Init, ClaimHasToken, AbsentRow
  <1> QED
    BY TypeInit, TypeStep, TokenStep, <1>1, PTL DEF Spec

(***************************************************************************)
(* Done means judged, and for a convicted package, handled.  A thread past *)
(* transaction 1 has its hot Scan behind it, one past the alert has the    *)
(* alert behind it, and neither record is ever taken back.                 *)
(***************************************************************************)
HasVerdict == \A t \in Tokens : run[t].th \in {"triage", "final", "finaling"} => "hot" \in scans[run[t].item]
HasAlerted == \A t \in Tokens : run[t].th \in {"final", "finaling"} => run[t].item \in handled

DInv == HasVerdict /\ HasAlerted /\ DoneHasScan /\ DoneHandled

\* The two records only grow.
LEMMA RecordsGrow ==
    ASSUME TInv, [Next]_vars
    PROVE  handled \subseteq handled' /\ \A j \in Items : scans[j] \subseteq scans'[j]
  <1>1. scans \in [Items -> SUBSET ScanKinds]
    BY DEF TInv, TypeOK
  <1>2. CASE \E t \in Tokens : Tx1Commit(t)
    <2>1. PICK t \in Tokens : scans' = [scans EXCEPT ![Item(t)] = @ \union {ScanKind(t)}]
      BY <1>2 DEF Tx1Commit
    <2>2. \A j \in Items : scans[j] \subseteq scans'[j]
      BY <1>1, <2>1
    <2> QED
      BY <1>2, <2>2 DEF Tx1Commit
  <1>3. CASE \E t \in Tokens : TriageAlert(t)
    BY <1>3 DEF TriageAlert
  <1>4. CASE UNCHANGED <<scans, handled>>
    BY <1>4
  <1>5. CASE \E t \in Tokens : RunStep(t)
    BY <1>2, <1>3, <1>4, <1>5
    DEF RunStep, WorkerTimeout, FailRowRead, FailRowFlush, LoadClaimed, ScanWork,
        MarkQueueFailedRead, MarkQueueFailedFlush, Tx1Read, Tx1Abort, FinalRead,
        FinalFlush, BumpRuleHits
  <1> QED
    BY <1>4, <1>5
    DEF Next, vars, PollerStep, EnqueueRead, RescanRead, InsertFlush, PromoteFlush,
        EnqueueGiveUp, ClaimNext, Crash, JanitorStep, SweepRead, SweepFlush, PruneTerminal, Tick

\* How a thread gets where it has something behind it.
LEMMA RunThreadEffect ==
    ASSUME TInv, NEW t \in Tokens, RunStep(t), NEW u \in Tokens,
           run'[u].th \in {"triage", "final", "finaling"}
    PROVE  /\ run'[u].item = run[u].item
           /\ \/ run'[u].th = run[u].th
              \/ u = t /\ run'[u].th = "triage" /\ Tx1Commit(t) /\ Triaged(t)
              \/ /\ u = t /\ run'[u].th = "final" /\ run[u].th = "triage"
                 /\ handled' = handled \union {Item(t)}
              \/ run'[u].th = "finaling" /\ run[u].th = "final"
  <1>1. run \in [Tokens -> Run] /\ run[u] \in Run
    BY DEF TInv, TypeOK
  <1>2. CASE u # t
    <2>1. \E q : run' = [run EXCEPT ![t] = q]
      BY <1>1
      DEF RunStep, WorkerTimeout, FailRowRead, FailRowFlush, LoadClaimed, ScanWork,
          MarkQueueFailedRead, MarkQueueFailedFlush, Tx1Read, Tx1Commit, Tx1Abort,
          TriageAlert, FinalRead, FinalFlush, BumpRuleHits
    <2> QED
      BY <1>1, <1>2, <2>1
  <1>3. CASE u = t
    <2>1. run[t] \in Run
      BY <1>1
    <2>2. /\ IdleRun.th = "none" /\ ThEnds(t).th = "none" /\ ThRaises(t).th \in {"none", "qfail"}
          /\ CoEnds(t).th = "none" \/ (CoEnds(t).th = run[t].th /\ CoEnds(t).item = run[t].item)
      BY <2>1 DEF IdleRun, ThEnds, ThRaises, CoEnds, Run
    <2>3. CASE WorkerTimeout(t)
      <3> DEFINE q1 == [run[t] EXCEPT !.co = "fail"]
      <3> DEFINE q2 == [run[t] EXCEPT !.co = "fail", !.th = "none", !.fetch = "none"]
      <3>1. \/ run'[t] = q1
            \/ run'[t] = q2
        BY <1>1, <2>3 DEF WorkerTimeout
      <3>2. q1.item = run[t].item /\ q1.th = run[t].th
        BY <2>1 DEF Run
      <3>3. q2.item = run[t].item /\ q2.th = "none"
        BY <2>1 DEF Run
      <3> QED
        BY <1>3, <2>2, <2>3, <3>1, <3>2, <3>3 DEF WorkerTimeout
    <2>4. CASE FailRowRead(t)
      <3> DEFINE q1 == [run[t] EXCEPT !.co = "failing"]
      <3>1. \/ run'[t] = CoEnds(t)
            \/ run'[t] = q1
        BY <1>1, <2>4 DEF FailRowRead
      <3>2. q1.item = run[t].item /\ q1.th = run[t].th
        BY <2>1 DEF Run
      <3> QED
        BY <1>3, <2>2, <2>4, <3>1, <3>2 DEF FailRowRead
    <2>5. CASE FailRowFlush(t)
      <3>1. \/ run'[t] = CoEnds(t)
        BY <1>1, <2>5 DEF FailRowFlush
      <3> QED
        BY <1>3, <2>2, <2>5, <3>1 DEF FailRowFlush
    <2>6. CASE LoadClaimed(t)
      <3> DEFINE q1 == [run[t] EXCEPT !.co = "work"]
      <3> DEFINE q2 == [run[t] EXCEPT !.co = "await", !.th = "qfail", !.fetch = "no_adapter"]
      <3> DEFINE q3 == [run[t] EXCEPT !.co = "fail"]
      <3>1. \/ run'[t] = IdleRun
            \/ run'[t] = q1
            \/ run'[t] = q2
            \/ run'[t] = q3
        BY <1>1, <2>6 DEF LoadClaimed
      <3>2. q1.item = run[t].item /\ q1.th = run[t].th
        BY <2>1 DEF Run
      <3>3. q2.item = run[t].item /\ q2.th = "qfail"
        BY <2>1 DEF Run
      <3>4. q3.item = run[t].item /\ q3.th = run[t].th
        BY <2>1 DEF Run
      <3> QED
        BY <1>3, <2>2, <2>6, <3>1, <3>2, <3>3, <3>4 DEF LoadClaimed
    <2>7. CASE MarkQueueFailedRead(t)
      <3> DEFINE q1 == [run[t] EXCEPT !.th = "qfailing", !.due = Decide(t, "failed")]
      <3>1. \/ run'[t] = ThEnds(t)
            \/ run'[t] = q1
        BY <1>1, <2>7 DEF MarkQueueFailedRead
      <3>2. q1.item = run[t].item /\ q1.th = "qfailing"
        BY <2>1 DEF Run
      <3> QED
        BY <1>3, <2>2, <2>7, <3>1, <3>2 DEF MarkQueueFailedRead
    <2>8. CASE MarkQueueFailedFlush(t)
      <3> DEFINE q1 == [run[t] EXCEPT !.co = "fail", !.th = "none", !.fetch = "none", !.due = "none"]
      <3>1. \/ run'[t] = ThEnds(t)
            \/ run'[t] = q1
        BY <1>1, <2>8 DEF MarkQueueFailedFlush
      <3>2. q1.item = run[t].item /\ q1.th = "none"
        BY <2>1 DEF Run
      <3> QED
        BY <1>3, <2>2, <2>8, <3>1, <3>2 DEF MarkQueueFailedFlush
    <2>9. CASE Tx1Read(t)
      <3> DEFINE q1 == [run[t] EXCEPT !.th = "tx1ing",
                                         !.due = IF Triaged(t) THEN "skip" ELSE Decide(t, Tx1Status(t))]
      <3>1. \/ run'[t] = ThEnds(t)
            \/ run'[t] = q1
        BY <1>1, <2>9 DEF Tx1Read
      <3>2. q1.item = run[t].item /\ q1.th = "tx1ing"
        BY <2>1 DEF Run
      <3> QED
        BY <1>3, <2>2, <2>9, <3>1, <3>2 DEF Tx1Read
    <2>10. CASE Tx1Commit(t)
      <3> DEFINE q1 == [run[t] EXCEPT !.th = "triage", !.due = "none"]
      <3> DEFINE q2 == [run[t] EXCEPT !.th = "bump", !.due = "none"]
      <3>1. \/ run'[t] = ThEnds(t)
            \/ (Triaged(t) /\ run'[t] = q1)
            \/ run'[t] = q2
        BY <1>1, <2>10 DEF Tx1Commit
      <3>2. q1.item = run[t].item /\ q1.th = "triage"
        BY <2>1 DEF Run
      <3>3. q2.item = run[t].item /\ q2.th = "bump"
        BY <2>1 DEF Run
      <3> QED
        BY <1>3, <2>2, <2>10, <3>1, <3>2, <3>3 DEF Tx1Commit
    <2>11. CASE Tx1Abort(t)
      <3>1. \/ run'[t] = ThRaises(t)
        BY <1>1, <2>11 DEF Tx1Abort
      <3> QED
        BY <1>3, <2>2, <2>11, <3>1 DEF Tx1Abort
    <2>12. CASE TriageAlert(t)
      <3> DEFINE q1 == [run[t] EXCEPT !.th = "final"]
      <3>1. \/ run'[t] = ThRaises(t)
            \/ (handled' = handled \union {Item(t)} /\ run'[t] = q1)
        BY <1>1, <2>12 DEF TriageAlert
      <3>2. q1.item = run[t].item /\ q1.th = "final"
        BY <2>1 DEF Run
      <3> QED
        BY <1>3, <2>2, <2>12, <3>1, <3>2 DEF TriageAlert
    <2>13. CASE FinalRead(t)
      <3> DEFINE q1 == [run[t] EXCEPT !.th = "bump"]
      <3> DEFINE q2 == [run[t] EXCEPT !.th = "finaling", !.due = Decide(t, "done")]
      <3>1. \/ run'[t] = q1
            \/ run'[t] = q2
        BY <1>1, <2>13 DEF FinalRead
      <3>2. q1.item = run[t].item /\ q1.th = "bump"
        BY <2>1 DEF Run
      <3>3. q2.item = run[t].item /\ q2.th = "finaling"
        BY <2>1 DEF Run
      <3> QED
        BY <1>3, <2>2, <2>13, <3>1, <3>2, <3>3 DEF FinalRead
    <2>14. CASE FinalFlush(t)
      <3> DEFINE q1 == [run[t] EXCEPT !.th = "bump", !.due = "none"]
      <3>1. \/ run'[t] = ThRaises(t)
            \/ run'[t] = q1
        BY <1>1, <2>14 DEF FinalFlush
      <3>2. q1.item = run[t].item /\ q1.th = "bump"
        BY <2>1 DEF Run
      <3> QED
        BY <1>3, <2>2, <2>14, <3>1, <3>2 DEF FinalFlush
    <2>15. CASE BumpRuleHits(t)
      <3>1. \/ run'[t] = ThEnds(t)
            \/ run'[t] = ThRaises(t)
        BY <1>1, <2>15 DEF BumpRuleHits
      <3> QED
        BY <1>3, <2>2, <2>15, <3>1 DEF BumpRuleHits
    <2>16. CASE ScanWork(t)
      <3>1. run'[t].th \in {"tx1", "qfail"}
        BY <1>1, <2>1, <2>16 DEF ScanWork, Run
      <3> QED
        BY <1>3, <3>1
    <2> QED
      BY <2>3, <2>4, <2>5, <2>6, <2>7, <2>8, <2>9, <2>10, <2>11, <2>12, <2>13, <2>14, <2>15, <2>16 DEF RunStep
  <1> QED
    BY <1>2, <1>3

\* A thread keeps what it has behind it.
LEMMA RecordsStep ==
    ASSUME TInv, HasVerdict, HasAlerted, [Next]_vars
    PROVE  HasVerdict' /\ HasAlerted'
  <1>1. run \in [Tokens -> Run] /\ scans \in [Items -> SUBSET ScanKinds] /\ RunsSound
    BY DEF TInv, TypeOK
  <1>2. handled \subseteq handled' /\ \A j \in Items : scans[j] \subseteq scans'[j]
    BY RecordsGrow
  <1> SUFFICES ASSUME NEW u \in Tokens, run'[u].th \in {"triage", "final", "finaling"}
               PROVE  /\ "hot" \in scans'[run'[u].item]
                      /\ run'[u].th \in {"final", "finaling"} => run'[u].item \in handled'
    BY DEF HasVerdict, HasAlerted
  <1>3. ASSUME run'[u].th = run[u].th, run'[u].item = run[u].item
        PROVE  /\ "hot" \in scans'[run'[u].item]
               /\ run'[u].th \in {"final", "finaling"} => run'[u].item \in handled'
    <2>1. run[u].item \in Items
      BY <1>1, <1>3 DEF RunsSound, Sound
    <2> QED
      BY <1>2, <1>3, <2>1 DEF HasVerdict, HasAlerted
  <1>4. ASSUME NEW t \in Tokens, RunStep(t)
        PROVE  /\ "hot" \in scans'[run'[u].item]
               /\ run'[u].th \in {"final", "finaling"} => run'[u].item \in handled'
    <2>1. /\ run'[u].item = run[u].item
          /\ \/ run'[u].th = run[u].th
             \/ u = t /\ run'[u].th = "triage" /\ Tx1Commit(t) /\ Triaged(t)
             \/ /\ u = t /\ run'[u].th = "final" /\ run[u].th = "triage"
                /\ handled' = handled \union {Item(t)}
             \/ run'[u].th = "finaling" /\ run[u].th = "final"
      BY <1>4, RunThreadEffect
    <2>2. CASE run'[u].th = run[u].th
      BY <1>3, <2>1, <2>2
    <2>3. CASE u = t /\ run'[u].th = "triage" /\ Tx1Commit(t) /\ Triaged(t)
      <3>1. run[t].item \in Items
        BY <1>1, <2>3 DEF RunsSound, Sound, Tx1Commit
      <3>2. scans' = [scans EXCEPT ![run[t].item] = @ \union {"hot"}]
        <4>1. ScanKind(t) = "hot"
          BY <2>3 DEF ScanKind, Triaged
        <4> QED
          BY <2>3, <4>1 DEF Tx1Commit, Item
      <3> QED
        BY <1>1, <2>1, <2>3, <3>1, <3>2
    <2>4. CASE /\ u = t /\ run'[u].th = "final" /\ run[u].th = "triage"
               /\ handled' = handled \union {Item(t)}
      <3>1. run[u].item \in Items /\ "hot" \in scans[run[u].item]
        BY <1>1, <2>4 DEF RunsSound, Sound, HasVerdict
      <3> QED
        BY <1>2, <2>1, <2>4, <3>1 DEF Item
    <2>5. CASE run'[u].th = "finaling" /\ run[u].th = "final"
      <3>1. run[u].item \in Items /\ "hot" \in scans[run[u].item] /\ run[u].item \in handled
        BY <1>1, <2>5 DEF RunsSound, Sound, HasVerdict, HasAlerted
      <3> QED
        BY <1>2, <2>1, <3>1
    <2> QED
      BY <2>1, <2>2, <2>3, <2>4, <2>5
  <1>5. CASE \E t \in Tokens, j \in Items : ClaimNext(t, j)
    <2>1. run'[u] = run[u]
      BY <1>1, <1>5 DEF ClaimNext, ClaimedRun
    <2> QED
      BY <1>3, <2>1
  <1>6. CASE \E t \in Tokens : Crash(t)
    <2>1. run'[u] = run[u]
      BY <1>1, <1>6 DEF Crash, IdleRun
    <2> QED
      BY <1>3, <2>1
  <1>7. CASE Tick
    <2>1. run'[u].th = run[u].th /\ run'[u].item = run[u].item
      BY <1>1, <1>7 DEF Tick, Run
    <2> QED
      BY <1>3, <2>1
  <1>8. CASE UNCHANGED run
    BY <1>3, <1>8
  <1> QED
    BY <1>4, <1>5, <1>6, <1>7, <1>8
    DEF Next, vars, PollerStep, EnqueueRead, RescanRead, InsertFlush, PromoteFlush,
        EnqueueGiveUp, JanitorStep, SweepRead, SweepFlush, PruneTerminal

\* A row turns done only by a run that has judged its package, and handled it
\* if it is convicted.
LEMMA DoneByRun ==
    ASSUME TInv, HasVerdict, HasAlerted, NEW t \in Tokens, RunStep(t), NEW i \in Items,
           row'[i].status = "done", row[i].status # "done"
    PROVE  /\ scans'[i] \ {"no_files"} # {}
           /\ i \in HotItems /\ "mismatch" \notin scans'[i] => i \in handled'
  <1>1. /\ scans \in [Items -> SUBSET ScanKinds] /\ handled \subseteq handled'
        /\ scans[i] \subseteq scans'[i] /\ Sound(run[t])
    BY RecordsGrow DEF TInv, TypeOK, RunsSound, Next
  <1>2. /\ i = Item(t)
        /\ \/ Tx1Commit(t) /\ run[t].due = "write" /\ Tx1Status(t) = "done"
           \/ FinalFlush(t)
    BY RunRowEffect
  <1>3. CASE Tx1Commit(t) /\ run[t].due = "write" /\ Tx1Status(t) = "done"
    <2>1. ScanKind(t) \in scans'[i]
      BY <1>1, <1>2, <1>3 DEF Tx1Commit
    <2>2. run[t].fetch \in {"ok", "mismatch"}
      BY <1>1, <1>3 DEF Tx1Commit, Sound, Persisted, Tx1Status
    <2>3. ~Triaged(t)
      BY <1>1, <1>3 DEF Tx1Commit, Sound, Triaged, Item
    <2>4. CASE run[t].fetch = "mismatch"
      BY <2>1, <2>3, <2>4 DEF ScanKind
    <2>5. CASE run[t].fetch = "ok"
      BY <1>2, <2>1, <2>3, <2>5 DEF ScanKind, Triaged
    <2> QED
      BY <2>2, <2>4, <2>5
  <1>4. CASE FinalFlush(t)
    BY <1>1, <1>2, <1>4 DEF FinalFlush, HasVerdict, HasAlerted, Item
  <1> QED
    BY <1>2, <1>3, <1>4

\* Who is not a run never turns a row done.
LEMMA DoneOnlyByRun ==
    ASSUME TInv, [Next]_vars, ~ \E t \in Tokens : RunStep(t), NEW i \in Items,
           row'[i].status = "done"
    PROVE  row[i].status = "done"
  <1>1. row \in [Items -> Row] /\ row[i] \in Row
    BY DEF TInv, TypeOK
  <1>2. CASE \E p \in Pollers : PollerStep(p)
    BY <1>2, PollerRowEffect
  <1>3. CASE \E t \in Tokens, j \in Items : ClaimNext(t, j)
    BY <1>1, <1>3 DEF ClaimNext
  <1>4. CASE JanitorStep
    BY <1>4, SweepRowEffect DEF AbsentRow
  <1>5. CASE Tick
    BY <1>1, <1>5 DEF Tick, Row
  <1>6. CASE UNCHANGED row
    BY <1>6
  <1> QED
    BY <1>2, <1>3, <1>4, <1>5, <1>6 DEF Next, Crash, vars

LEMMA DoneStep == TInv /\ DInv /\ [Next]_vars => DInv'
  <1> SUFFICES ASSUME TInv, DInv, [Next]_vars
               PROVE  DInv'
    OBVIOUS
  <1>1. HasVerdict' /\ HasAlerted'
    BY RecordsStep DEF DInv
  <1>2. ASSUME NEW i \in Items, row'[i].status = "done"
        PROVE  /\ scans'[i] \ {"no_files"} # {}
               /\ i \in HotItems /\ "mismatch" \notin scans'[i] => i \in handled'
    <2>1. handled \subseteq handled' /\ scans[i] \subseteq scans'[i]
      BY RecordsGrow
    <2>2. CASE row[i].status = "done"
      BY <2>1, <2>2 DEF DInv, DoneHasScan, DoneHandled
    <2>3. CASE row[i].status # "done"
      <3>1. PICK t \in Tokens : RunStep(t)
        BY <1>2, <2>3, DoneOnlyByRun
      <3> QED
        BY <1>2, <2>3, <3>1, DoneByRun DEF DInv
    <2> QED
      BY <2>2, <2>3
  <1>3. DoneHasScan' /\ DoneHandled'
    BY <1>2, HotAssumption DEF DoneHasScan, DoneHandled
  <1> QED
    BY <1>1, <1>3 DEF DInv

LEMMA DoneInit == Init => DInv
  BY HotAssumption
  DEF Init, DInv, HasVerdict, HasAlerted, DoneHasScan, DoneHandled, AbsentRow, IdleRun

\* However many workers, hosts and stale writers race, a queue row is done only
\* if its package has a Scan other than the empty one of a release without files.
THEOREM DoneJudged == Spec => []DoneHasScan
  <1>1. DInv => DoneHasScan
    BY DEF DInv
  <1> QED
    BY TypeInit, TypeStep, DoneInit, DoneStep, <1>1, PTL DEF Spec

\* A convicted package is done only once its alert decision was carried out, or
\* a checksum mismatch kept it from being judged.
THEOREM DoneAlerted == Spec => []DoneHandled
  <1>1. DInv => DoneHandled
    BY DEF DInv
  <1> QED
    BY TypeInit, TypeStep, DoneInit, DoneStep, <1>1, PTL DEF Spec

(***************************************************************************)
(* The attempts stay in their budget.  RetryBudget is not inductive: a     *)
(* promote or a requeue decided below the cap is flushed on a row that may *)
(* have used more attempts since.  Each decision in flight is charged one  *)
(* attempt at once, and a pending row the one its claim will count.        *)
(***************************************************************************)
Promoting(pl, i) == {p \in Pollers : pl[p].op = "promote" /\ pl[p].item = i}
Requeuing(sw, i) == {s \in Sweepers : sw[s][i] = "requeue"}
Charge(r) == r.attempts + (IF r.status = "pending" THEN 1 ELSE 0)
Afford == MaxAttempts + Cardinality(Pollers) + Cardinality(Sweepers) + rescans

BInv ==
    \A i \in Items :
        Charge(row[i]) + Cardinality(Promoting(plan, i)) + Cardinality(Requeuing(sweep, i)) <= Afford

\* At most every poller promotes a row, and every sweeper requeues it.
LEMMA InFlightBounded ==
    ASSUME NEW pl, NEW sw, NEW i
    PROVE  /\ IsFiniteSet(Promoting(pl, i)) /\ Cardinality(Promoting(pl, i)) \in Nat
           /\ Cardinality(Promoting(pl, i)) <= Cardinality(Pollers) /\ Cardinality(Pollers) \in Nat
           /\ IsFiniteSet(Requeuing(sw, i)) /\ Cardinality(Requeuing(sw, i)) \in Nat
           /\ Cardinality(Requeuing(sw, i)) <= Cardinality(Sweepers) /\ Cardinality(Sweepers) \in Nat
  <1>1. Promoting(pl, i) \in SUBSET Pollers /\ Requeuing(sw, i) \in SUBSET Sweepers
    BY DEF Promoting, Requeuing
  <1>2. IsFiniteSet(Pollers) /\ IsFiniteSet(Sweepers)
    BY HostsAssumption
  <1>3. /\ IsFiniteSet(Promoting(pl, i)) /\ Cardinality(Promoting(pl, i)) <= Cardinality(Pollers)
        /\ IsFiniteSet(Requeuing(sw, i)) /\ Cardinality(Requeuing(sw, i)) <= Cardinality(Sweepers)
    BY <1>1, <1>2, FS_Subset
  <1> QED
    BY <1>2, <1>3, FS_CardinalityType

\* A smaller set of decisions in flight is charged no more, and one added at most one more.
LEMMA FewerInFlight ==
    ASSUME NEW S, IsFiniteSet(S), NEW T, T \subseteq S, NEW x
    PROVE  /\ Cardinality(T) <= Cardinality(S)
           /\ x \in S /\ x \notin T => Cardinality(T) <= Cardinality(S) - 1
           /\ Cardinality(S \union {x}) <= Cardinality(S) + 1 /\ IsFiniteSet(S \union {x})
  <1>1. Cardinality(S) \in Nat
    BY FS_CardinalityType
  <1>2. Cardinality(T) <= Cardinality(S)
    BY FS_Subset
  <1>3. ASSUME x \in S, x \notin T PROVE Cardinality(T) <= Cardinality(S) - 1
    <2>1. T \in SUBSET (S \ {x})
      BY <1>3
    <2>2. IsFiniteSet(S \ {x}) /\ Cardinality(S \ {x}) = Cardinality(S) - 1
      BY <1>3, FS_RemoveElement
    <2>3. Cardinality(T) <= Cardinality(S \ {x})
      BY <2>1, <2>2, FS_Subset
    <2> QED
      BY <2>2, <2>3
  <1>4. IsFiniteSet(S \union {x}) /\ Cardinality(S \union {x}) = IF x \in S THEN Cardinality(S) ELSE Cardinality(S) + 1
    BY FS_AddElement
  <1>5. Cardinality(S \union {x}) <= Cardinality(S) + 1
    BY <1>1, <1>4
  <1> QED
    BY <1>2, <1>3, <1>4, <1>5

\* A run never counts an attempt.
LEMMA RunKeepsAttempts ==
    ASSUME TInv, NEW t \in Tokens, RunStep(t), NEW j \in Items
    PROVE  row'[j].attempts = row[j].attempts
  <1>1. row \in [Items -> Row] /\ row[j] \in Row
    BY DEF TInv, TypeOK
  <1>2. ASSUME NEW i, NEW s PROVE Finish(i, s)[j].attempts = row[j].attempts
    BY <1>1 DEF Finish, Row
  <1>3. ASSUME NEW i PROVE Touch(i)[j].attempts = row[j].attempts
    BY <1>1 DEF Touch, Row
  <1>4. ASSUME NEW i, NEW due, NEW s PROVE Apply(i, due, s)[j].attempts = row[j].attempts
    <2>1. Apply(i, due, s) = Finish(i, s) \/ Apply(i, due, s) = Touch(i) \/ Apply(i, due, s) = row
      BY DEF Apply
    <2> QED
      BY <1>2, <1>3, <2>1
  <1>5. \/ row' = row \/ row' = Finish(Item(t), "failed") \/ row' = Apply(Item(t), run[t].due, "failed")
        \/ row' = Apply(Item(t), run[t].due, Tx1Status(t)) \/ row' = Apply(Item(t), run[t].due, "done")
    BY DEF RunStep, WorkerTimeout, FailRowRead, FailRowFlush, LoadClaimed, ScanWork,
        MarkQueueFailedRead, MarkQueueFailedFlush, Tx1Read, Tx1Commit, Tx1Abort, TriageAlert,
        FinalRead, FinalFlush, BumpRuleHits
  <1> QED
    BY <1>2, <1>4, <1>5

\* A step that decides nothing charges no row more than before.
LEMMA NoDearer ==
    ASSUME TInv, NEW i \in Items,
           \/ \E t \in Tokens : RunStep(t) \/ Crash(t)
           \/ \E t \in Tokens, j \in Items : ClaimNext(t, j)
           \/ PruneTerminal \/ Tick \/ UNCHANGED vars
    PROVE  Charge(row'[i]) <= Charge(row[i]) /\ UNCHANGED <<plan, sweep, rescans>>
  <1>1. row \in [Items -> Row] /\ row[i] \in Row /\ row[i].attempts \in Nat
    BY DEF TInv, TypeOK, Row
  <1>2. CASE \E t \in Tokens : RunStep(t)
    <2>1. PICK t \in Tokens : RunStep(t)
      BY <1>2
    <2>2. row'[i].attempts = row[i].attempts
      BY <2>1, RunKeepsAttempts
    <2>3. row'[i].status = "pending" => row[i].status = "pending"
      BY <2>1, RunRowEffect DEF Terminal
    <2>4. UNCHANGED <<plan, sweep, rescans>>
      BY <2>1 DEF RunStep, WorkerTimeout, FailRowRead, FailRowFlush, LoadClaimed, ScanWork,
        MarkQueueFailedRead, MarkQueueFailedFlush, Tx1Read, Tx1Commit, Tx1Abort, TriageAlert,
        FinalRead, FinalFlush, BumpRuleHits
    <2> QED
      BY <1>1, <2>2, <2>3, <2>4 DEF Charge
  <1>3. CASE \E t \in Tokens, j \in Items : ClaimNext(t, j)
    <2>1. PICK t \in Tokens, j \in Items : ClaimNext(t, j)
      BY <1>3
    <2>2. CASE i = j
      <3>1. row'[i].attempts = row[i].attempts + 1 /\ row'[i].status = "claimed" /\ row[i].status = "pending"
        BY <1>1, <2>1, <2>2 DEF ClaimNext
      <3> QED
        BY <1>1, <2>1, <3>1 DEF Charge, ClaimNext
    <2>3. CASE i # j
      <3>1. row'[i] = row[i]
        BY <1>1, <2>1, <2>3 DEF ClaimNext
      <3> QED
        BY <1>1, <2>1, <3>1 DEF Charge, ClaimNext
    <2> QED
      BY <2>2, <2>3
  <1>4. CASE PruneTerminal
    <2>1. row'[i] = row[i] \/ row'[i] = AbsentRow
      BY <1>1, <1>4 DEF PruneTerminal
    <2>2. AbsentRow.attempts = 0 /\ AbsentRow.status # "pending"
      BY DEF AbsentRow
    <2> QED
      BY <1>1, <1>4, <2>1, <2>2 DEF PruneTerminal, Charge
  <1>5. CASE Tick
    <2>1. row'[i].attempts = row[i].attempts /\ row'[i].status = row[i].status
      BY <1>1, <1>5 DEF Tick, Row
    <2> QED
      BY <1>1, <1>5, <2>1 DEF Tick, Charge
  <1>6. CASE UNCHANGED <<row, plan, sweep, rescans>>
    BY <1>1, <1>6 DEF Charge
  <1> QED
    BY <1>2, <1>3, <1>4, <1>5, <1>6 DEF Crash, vars

\* Every decision of enqueue, and every write it makes, is charged.
LEMMA PollerAffords ==
    ASSUME TInv, BInv, NEW p \in Pollers, PollerStep(p), NEW i \in Items
    PROVE  Charge(row'[i]) + Cardinality(Promoting(plan', i)) + Cardinality(Requeuing(sweep', i)) <= Afford'
  <1>1. /\ row \in [Items -> Row] /\ row[i] \in Row /\ row[i].attempts \in Nat
        /\ plan \in [Pollers -> Plan] /\ rescans \in Nat /\ MaxAttempts \in Nat
    BY BoundAssumption DEF TInv, TypeOK, Row
  <1>2. /\ IsFiniteSet(Promoting(plan, i)) /\ Cardinality(Promoting(plan, i)) \in Nat
        /\ Cardinality(Promoting(plan', i)) \in Nat /\ Cardinality(Promoting(plan', i)) <= Cardinality(Pollers)
        /\ Cardinality(Promoting(plan, i)) <= Cardinality(Pollers)
        /\ Cardinality(Requeuing(sweep, i)) \in Nat /\ Cardinality(Requeuing(sweep, i)) <= Cardinality(Sweepers)
        /\ Cardinality(Pollers) \in Nat /\ Cardinality(Sweepers) \in Nat
    BY InFlightBounded
  <1>3. Charge(row[i]) + Cardinality(Promoting(plan, i)) + Cardinality(Requeuing(sweep, i)) <= Afford /\ Charge(row[i]) \in Nat
    BY <1>1 DEF BInv, Charge
  <1>4. sweep' = sweep
    BY DEF PollerStep, EnqueueRead, RescanRead, InsertFlush, PromoteFlush, EnqueueGiveUp
  <1>5. NoPlan.op = "none" /\ \A j : InsertPlan(j).op = "insert" /\ PromotePlan(j).item = j
    BY DEF NoPlan, InsertPlan, PromotePlan
  <1>6. ASSUME NEW q, plan' = [plan EXCEPT ![p] = q]
        PROVE  /\ Promoting(plan', i) \subseteq Promoting(plan, i) \union {p}
               /\ q.op # "promote" \/ q.item # i => Promoting(plan', i) \subseteq Promoting(plan, i) /\ p \notin Promoting(plan', i)
    BY <1>1, <1>6 DEF Promoting
  <1>7. CASE \E j \in Items : EnqueueRead(p, j)
    <2>1. PICK j \in Items : EnqueueRead(p, j)
      BY <1>7
    <2>2. row' = row /\ rescans' = rescans
      BY <2>1 DEF EnqueueRead
    <2>3. CASE Retriable(j) /\ j = i
      <3>1. Charge(row'[i]) = row[i].attempts /\ row[i].attempts < MaxAttempts
        BY <1>1, <2>2, <2>3 DEF Charge, Retriable
      <3> QED
        BY <1>1, <1>2, <1>4, <2>2, <3>1 DEF Afford
    <2>4. CASE ~(Retriable(j) /\ j = i)
      <3>1. PICK q : plan' = [plan EXCEPT ![p] = q] /\ (q = InsertPlan(j) \/ (Retriable(j) /\ q = PromotePlan(j)))
        BY <2>1 DEF EnqueueRead
      <3>2. q.op # "promote" \/ q.item # i
        BY <1>5, <2>4, <3>1
      <3>3. Promoting(plan', i) \subseteq Promoting(plan, i)
        BY <1>6, <3>1, <3>2
      <3>4. Cardinality(Promoting(plan', i)) <= Cardinality(Promoting(plan, i))
        BY <1>2, <3>3, FewerInFlight
      <3> QED
        BY <1>1, <1>2, <1>3, <1>4, <2>2, <3>4 DEF Afford
    <2> QED
      BY <2>3, <2>4
  <1>8. CASE \E j \in Items : RescanRead(p, j)
    <2>1. PICK j \in Items : RescanRead(p, j)
      BY <1>8
    <2>2. row' = row /\ rescans' = rescans + 1 /\ \E q : plan' = [plan EXCEPT ![p] = q]
      BY <2>1 DEF RescanRead
    <2>3. Promoting(plan', i) \subseteq Promoting(plan, i) \union {p}
      BY <1>6, <2>2
    <2>4. /\ IsFiniteSet(Promoting(plan, i) \union {p})
          /\ Cardinality(Promoting(plan, i) \union {p}) <= Cardinality(Promoting(plan, i)) + 1
      BY <1>2, FewerInFlight
    <2>5. Cardinality(Promoting(plan, i) \union {p}) \in Nat
      BY <2>4, FS_CardinalityType
    <2>6. Cardinality(Promoting(plan', i)) <= Cardinality(Promoting(plan, i) \union {p})
      BY <2>3, <2>4, FewerInFlight
    <2>7. Cardinality(Promoting(plan', i)) <= Cardinality(Promoting(plan, i)) + 1
      BY <1>2, <2>4, <2>5, <2>6
    <2> QED
      BY <1>1, <1>2, <1>3, <1>4, <2>2, <2>7 DEF Afford
  <1>9. CASE InsertFlush(p)
    <2>1. rescans' = rescans /\ plan' = [plan EXCEPT ![p] = NoPlan] /\ p \notin Promoting(plan, i)
      BY <1>9 DEF InsertFlush, Promoting
    <2>2. Promoting(plan', i) \subseteq Promoting(plan, i)
      BY <1>5, <1>6, <2>1
    <2>3. Cardinality(Promoting(plan', i)) <= Cardinality(Promoting(plan, i))
      BY <1>2, <2>2, FewerInFlight
    <2>4. CASE row'[i] = row[i]
      BY <1>1, <1>2, <1>3, <1>4, <2>1, <2>3, <2>4 DEF Afford
    <2>5. CASE row'[i] = [AbsentRow EXCEPT !.status = "pending"]
      <3>1. Charge(row'[i]) = 1
        BY <2>5 DEF Charge, AbsentRow
      <3>2. Promoting(plan, i) \subseteq Pollers /\ IsFiniteSet(Pollers)
        BY HostsAssumption DEF Promoting
      <3>3. Cardinality(Promoting(plan, i)) <= Cardinality(Pollers) - 1
        BY <2>1, <3>2, FewerInFlight
      <3> QED
        BY <1>1, <1>2, <1>4, <2>1, <2>3, <3>1, <3>3 DEF Afford
    <2>6. row'[i] = row[i] \/ row'[i] = [AbsentRow EXCEPT !.status = "pending"]
      BY <1>1, <1>9 DEF InsertFlush
    <2> QED
      BY <2>4, <2>5, <2>6
  <1>10. CASE PromoteFlush(p)
    <2>1. rescans' = rescans /\ plan' = [plan EXCEPT ![p] = NoPlan]
      BY <1>10 DEF PromoteFlush
    <2>2. Promoting(plan', i) \subseteq Promoting(plan, i) /\ p \notin Promoting(plan', i)
      BY <1>5, <1>6, <2>1
    <2>3. Cardinality(Promoting(plan', i)) <= Cardinality(Promoting(plan, i))
      BY <1>2, <2>2, FewerInFlight
    <2>4. CASE row'[i] = row[i]
      BY <1>1, <1>2, <1>3, <1>4, <2>1, <2>3, <2>4 DEF Afford
    <2>5. CASE plan[p].item = i /\ row'[i] = Released(row[i], plan[p].clear)
      <3>1. p \in Promoting(plan, i)
        BY <1>10, <2>5 DEF Promoting, PromoteFlush
      <3>2. Cardinality(Promoting(plan', i)) <= Cardinality(Promoting(plan, i)) - 1
        BY <1>2, <2>2, <3>1, FewerInFlight
      <3>3. Charge(row'[i]) = row[i].attempts + 1 /\ row[i].attempts <= Charge(row[i])
        BY <1>1, <2>5 DEF Charge, Released
      <3> QED
        BY <1>1, <1>2, <1>3, <1>4, <2>1, <3>2, <3>3 DEF Afford
    <2>6. row'[i] = row[i] \/ (plan[p].item = i /\ row'[i] = Released(row[i], plan[p].clear))
      BY <1>1, <1>10 DEF PromoteFlush
    <2> QED
      BY <2>4, <2>5, <2>6
  <1>11. CASE EnqueueGiveUp(p)
    <2>1. row' = row /\ rescans' = rescans /\ plan' = [plan EXCEPT ![p] = NoPlan]
      BY <1>11 DEF EnqueueGiveUp
    <2>2. Promoting(plan', i) \subseteq Promoting(plan, i)
      BY <1>5, <1>6, <2>1
    <2>3. Cardinality(Promoting(plan', i)) <= Cardinality(Promoting(plan, i))
      BY <1>2, <2>2, FewerInFlight
    <2> QED
      BY <1>1, <1>2, <1>3, <1>4, <2>1, <2>3 DEF Afford
  <1> QED
    BY <1>7, <1>8, <1>9, <1>10, <1>11 DEF PollerStep

\* So is every decision of the sweep.
LEMMA SweepAffords ==
    ASSUME TInv, BInv, NEW s \in Sweepers, SweepRead(s) \/ SweepFlush(s), NEW i \in Items
    PROVE  Charge(row'[i]) + Cardinality(Promoting(plan', i)) + Cardinality(Requeuing(sweep', i)) <= Afford'
  <1>1. /\ row \in [Items -> Row] /\ row[i] \in Row /\ row[i].attempts \in Nat
        /\ sweep \in [Sweepers -> [Items -> SweepPlans]] /\ rescans \in Nat /\ MaxAttempts \in Nat
    BY BoundAssumption DEF TInv, TypeOK, Row
  <1>2. /\ IsFiniteSet(Requeuing(sweep, i)) /\ Cardinality(Promoting(plan, i)) \in Nat
        /\ Cardinality(Requeuing(sweep', i)) \in Nat /\ Cardinality(Requeuing(sweep', i)) <= Cardinality(Sweepers)
        /\ Cardinality(Promoting(plan, i)) <= Cardinality(Pollers)
        /\ Cardinality(Requeuing(sweep, i)) \in Nat /\ Cardinality(Requeuing(sweep, i)) <= Cardinality(Sweepers)
        /\ Cardinality(Pollers) \in Nat /\ Cardinality(Sweepers) \in Nat
    BY InFlightBounded
  <1>3. Charge(row[i]) + Cardinality(Promoting(plan, i)) + Cardinality(Requeuing(sweep, i)) <= Afford /\ Charge(row[i]) \in Nat
    BY <1>1 DEF BInv, Charge
  <1>4. plan' = plan /\ rescans' = rescans
    BY DEF SweepRead, SweepFlush
  <1>5. CASE SweepRead(s)
    <2> DEFINE d == IF Stale(i) THEN SweepDecision(i) ELSE "keep"
    <2>1. row' = row /\ sweep' \in [Sweepers -> [Items -> SweepPlans]] /\ sweep'[s][i] = d
      BY <1>1, <1>5 DEF SweepRead, SweepPlans, SweepDecision
    <2>2. \A o \in Sweepers : o # s => sweep'[o] = sweep[o]
      BY <1>1, <1>5 DEF SweepRead
    <2>3. CASE d = "requeue"
      <3>1. Charge(row'[i]) = row[i].attempts /\ row[i].attempts < MaxAttempts
        BY <1>1, <2>1, <2>3 DEF Charge, Stale, SweepDecision
      <3> QED
        BY <1>1, <1>2, <1>4, <3>1 DEF Afford
    <2>4. CASE d # "requeue"
      <3>1. Requeuing(sweep', i) \subseteq Requeuing(sweep, i)
        BY <2>1, <2>2, <2>4 DEF Requeuing
      <3>2. Cardinality(Requeuing(sweep', i)) <= Cardinality(Requeuing(sweep, i))
        BY <1>2, <3>1, FewerInFlight
      <3> QED
        BY <1>1, <1>2, <1>3, <1>4, <2>1, <3>2 DEF Afford
    <2> QED
      BY <2>3, <2>4
  <1>6. CASE SweepFlush(s)
    <2>1. sweep'[s][i] = "keep" /\ \A o \in Sweepers : o # s => sweep'[o] = sweep[o]
      BY <1>1, <1>6 DEF SweepFlush
    <2>2. Requeuing(sweep', i) \subseteq Requeuing(sweep, i) /\ s \notin Requeuing(sweep', i)
      BY <2>1 DEF Requeuing
    <2>3. Cardinality(Requeuing(sweep', i)) <= Cardinality(Requeuing(sweep, i))
      BY <1>2, <2>2, FewerInFlight
    <2>4. CASE row'[i] = row[i]
      BY <1>1, <1>2, <1>3, <1>4, <2>3, <2>4 DEF Afford
    <2>5. CASE row'[i] = [row[i] EXCEPT !.status = "failed", !.age = 0]
      <3>1. Charge(row'[i]) <= Charge(row[i]) /\ Charge(row'[i]) \in Nat
        BY <1>1, <2>5 DEF Charge, Row
      <3> QED
        BY <1>1, <1>2, <1>3, <1>4, <2>3, <3>1 DEF Afford
    <2>6. CASE sweep[s][i] = "requeue" /\ row'[i] = Released(row[i], TRUE)
      <3>1. s \in Requeuing(sweep, i)
        BY <2>6 DEF Requeuing
      <3>2. Cardinality(Requeuing(sweep', i)) <= Cardinality(Requeuing(sweep, i)) - 1
        BY <1>2, <2>2, <3>1, FewerInFlight
      <3>3. Charge(row'[i]) = row[i].attempts + 1 /\ row[i].attempts <= Charge(row[i])
        BY <1>1, <2>6 DEF Charge, Released
      <3> QED
        BY <1>1, <1>2, <1>3, <1>4, <3>2, <3>3 DEF Afford
    <2>7. \/ row'[i] = row[i] \/ row'[i] = [row[i] EXCEPT !.status = "failed", !.age = 0]
          \/ sweep[s][i] = "requeue" /\ row'[i] = Released(row[i], TRUE)
      BY <1>1, <1>6 DEF SweepFlush
    <2> QED
      BY <2>4, <2>5, <2>6, <2>7
  <1> QED
    BY <1>5, <1>6

LEMMA BudgetStep == TInv /\ BInv /\ [Next]_vars => BInv'
  <1> SUFFICES ASSUME TInv, BInv, [Next]_vars, NEW i \in Items
               PROVE  Charge(row'[i]) + Cardinality(Promoting(plan', i)) + Cardinality(Requeuing(sweep', i)) <= Afford'
    BY DEF BInv
  <1>1. CASE \E p \in Pollers : PollerStep(p)
    BY <1>1, PollerAffords
  <1>2. CASE \E s \in Sweepers : SweepRead(s) \/ SweepFlush(s)
    BY <1>2, SweepAffords
  <1>3. CASE \/ \E t \in Tokens : RunStep(t) \/ Crash(t)
             \/ \E t \in Tokens, j \in Items : ClaimNext(t, j)
             \/ PruneTerminal \/ Tick \/ UNCHANGED vars
    <2>1. Charge(row'[i]) <= Charge(row[i]) /\ UNCHANGED <<plan, sweep, rescans>>
      BY <1>3, NoDearer
    <2>2. Charge(row[i]) + Cardinality(Promoting(plan, i)) + Cardinality(Requeuing(sweep, i)) <= Afford
      BY DEF BInv
    <2>3. Charge(row[i]) \in Nat /\ Charge(row'[i]) \in Nat
      <3>1. row[i] \in Row /\ row'[i] \in Row
        BY TypeStep DEF TInv, TypeOK
      <3> QED
        BY <3>1 DEF Charge, Row
    <2>4. Cardinality(Promoting(plan, i)) \in Nat /\ Cardinality(Requeuing(sweep, i)) \in Nat
      BY InFlightBounded
    <2>5. Afford \in Nat
      <3>1. rescans \in Nat /\ MaxAttempts \in Nat
        BY BoundAssumption DEF TInv, TypeOK
      <3> QED
        BY <3>1, InFlightBounded DEF Afford
    <2> QED
      BY <2>1, <2>2, <2>3, <2>4, <2>5 DEF Afford
  <1> QED
    BY <1>1, <1>2, <1>3 DEF Next, JanitorStep

LEMMA BudgetInit == Init => BInv
  <1> SUFFICES ASSUME Init, NEW i \in Items
               PROVE  Charge(row[i]) + Cardinality(Promoting(plan, i)) + Cardinality(Requeuing(sweep, i)) <= Afford
    BY DEF BInv
  <1>1. Charge(row[i]) = 0 /\ rescans = 0 /\ MaxAttempts \in Nat
    BY BoundAssumption DEF Init, Charge, AbsentRow
  <1> QED
    BY <1>1, InFlightBounded DEF Afford

\* However many stale promotes and requeues are flushed over it, a row is never claimed more
\* often than the cap, one per decision that can be in flight, and the explicit rescans allow.
THEOREM AttemptsBudgeted == Spec => []RetryBudget
  <1>1. TInv /\ BInv => RetryBudget
    <2> SUFFICES ASSUME TInv, BInv, NEW i \in Items
                 PROVE  row[i].attempts <= Afford
      BY DEF RetryBudget, Afford
    <2>1. row[i].attempts \in Nat /\ rescans \in Nat /\ MaxAttempts \in Nat
      BY BoundAssumption DEF TInv, TypeOK, Row
    <2>2. Charge(row[i]) + Cardinality(Promoting(plan, i)) + Cardinality(Requeuing(sweep, i)) <= Afford
      BY DEF BInv
    <2>3. Afford \in Nat
      BY <2>1, InFlightBounded DEF Afford
    <2>4. row[i].attempts <= Charge(row[i]) /\ Charge(row[i]) \in Nat
      BY <2>1 DEF Charge
    <2> QED
      BY <2>1, <2>2, <2>3, <2>4, InFlightBounded
  <1> QED
    BY TypeInit, TypeStep, BudgetInit, BudgetStep, <1>1, PTL DEF Spec
=============================================================================
