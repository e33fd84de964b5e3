---------------------------- MODULE PipelineProofs ----------------------------
(***************************************************************************)
(* Proofs about what one scan does: its working directories, what is       *)
(* analysed again of a new version, what the LLM is shown and may decide   *)
(* within its budget, what follows from the verdict, and how the alert is  *)
(* posted.  The parts share no variable; each has its own specification    *)
(* and inductive invariant.                                                *)
(***************************************************************************)
EXTENDS Workdirs, Republish, Evidence, Triage, Judgement, Alerts, DataLemmas

-----------------------------------------------------------------------------
(* The working directories                                                 *)

Stages == {"idle", "fetch", "analyse", "extract", "persist", "stage", "detonate", "finally", "done"}
ThreadsOf == {"none", "extract", "queued", "persist", "stage"}
JobRec ==
    [at : Stages, thread : ThreadsOf, fetcher : Fetchers, listed : BOOLEAN, failed : BOOLEAN,
     extracted : BOOLEAN, owned : BOOLEAN, run : 0 .. JobTimeout + ThreadMax]
Ages == Nat \union {Gone}
Running(r) == r.at \notin {"idle", "done"} \/ r.thread # "none"

\* Which threads a coroutine at a stage may have.
ThreadFits(r) ==
    /\ r.at = "idle" => r = NewJob
    /\ r.at \in {"fetch", "analyse", "detonate"} => r.thread = "none"
    /\ r.at \in {"fetch", "stage"} => ~r.extracted
    /\ r.thread = "queued" => r.at \in {"extract", "persist", "stage"}
    /\ r.thread = "extract" => r.at \in {"extract", "finally", "done"}
    /\ r.thread = "persist" => r.at \in {"persist", "finally", "done"} /\ r.owned
    /\ r.owned => r.at \in {"persist", "finally", "done"}
    /\ r.at = "persist" => r.owned

\* No directory of a job that runs is older than the job, which is what keeps the sweep away.
YoungEnough(r, dir, down) == Running(r) => dir <= r.run /\ down <= r.run

\* What a scan or a detonation at a stage finds on the disk.
Provided(j, r, dir, down, whole) ==
    /\ r.at = "idle" => dir = Gone /\ down = Gone
    /\ r.at = "detonate" => down # Gone
    /\ j \in Scans =>
        /\ r.at \in {"fetch", "analyse", "extract", "persist"} => dir # Gone
        /\ r.at \in {"analyse", "extract", "persist"} /\ ~r.failed => down # Gone
        /\ r.at = "analyse" /\ r.extracted => whole
        /\ r.at = "persist" /\ ~r.failed => whole
        /\ r.thread = "persist" /\ ~r.failed => whole /\ dir # Gone /\ down # Gone

JobOk(j, r, dir, down, whole) ==
    /\ r \in JobRec /\ dir \in Ages /\ down \in Ages
    /\ ThreadFits(r) /\ YoungEnough(r, dir, down) /\ Provided(j, r, dir, down, whole)

\* How old a directory may have become since the last sweep, given the crashes that put it off.
AgeLimit == SweepAge + sinceSweep + SweepPeriod * crashes

WorkdirsInv ==
    /\ job \in [Jobs -> JobRec] /\ trees \in [Jobs -> Ages] /\ dl \in [Jobs -> Ages]
    /\ sinceSweep \in 0 .. SweepPeriod /\ crashes \in Nat
    /\ \A j \in Jobs : JobOk(j, job[j], trees[j], dl[j], j \in full)
    /\ \A j \in Jobs : trees[j] <= AgeLimit /\ dl[j] <= AgeLimit

LEMMA AgeLimitNat == WorkdirsInv => AgeLimit \in Nat
<1> SUFFICES ASSUME WorkdirsInv PROVE AgeLimit \in Nat
    OBVIOUS
<1>1. SweepPeriod \in Nat /\ crashes \in Nat /\ sinceSweep \in Nat /\ SweepAge \in Nat
    BY WorkdirsAssumption DEF WorkdirsInv
<1>2. SweepPeriod * crashes \in Nat
    BY <1>1
<1>3. QED
    BY <1>1, <1>2 DEF AgeLimit

LEMMA NewJobIs == NewJob \in JobRec /\ ThreadFits(NewJob) /\ ~Running(NewJob)
<1>1. 0 \in 0 .. JobTimeout + ThreadMax
    BY WorkdirsAssumption
<1>2. QED
    BY <1>1 DEF NewJob, JobRec, Stages, ThreadsOf, Fetchers, Tidy, ThreadFits, Running

LEMMA WorkdirsStart == WorkdirsInit => WorkdirsInv
<1> SUFFICES ASSUME WorkdirsInit PROVE WorkdirsInv
    OBVIOUS
<1>1. /\ job = [j \in Jobs |-> NewJob] /\ trees = [j \in Jobs |-> Gone] /\ dl = [j \in Jobs |-> Gone]
      /\ sinceSweep = 0 /\ crashes = 0
    BY DEF WorkdirsInit
<1>2. Gone \in Ages /\ SweepAge \in Nat /\ SweepPeriod \in Nat
    BY WorkdirsAssumption DEF Ages
<1>3. ASSUME NEW j \in Jobs PROVE JobOk(j, NewJob, Gone, Gone, j \in full)
    BY <1>2, NewJobIs DEF JobOk, Provided, YoungEnough, NewJob
<1>4. AgeLimit \in Nat
    <2>1. SweepPeriod * 0 = 0
        BY <1>2
    <2>2. QED
        BY <1>1, <1>2, <2>1 DEF AgeLimit
<1>5. Gone <= AgeLimit
    BY <1>4 DEF Gone
<1>6. QED
    BY <1>1, <1>2, <1>3, <1>5, NewJobIs, WorkdirsAssumption DEF WorkdirsInv

\* A step of one job, which leaves its directories as they are, new or removed.
LEMMA OneJob ==
    ASSUME WorkdirsInv, NEW j \in Jobs, NEW r, NEW dir, NEW down, NEW whole \in BOOLEAN,
           JobOk(j, r, dir, down, whole),
           dir \in {trees[j], 0, Gone}, down \in {dl[j], 0, Gone},
           job' = [job EXCEPT ![j] = r], trees' = [trees EXCEPT ![j] = dir], dl' = [dl EXCEPT ![j] = down],
           \A o \in Jobs : o \in full' <=> IF o = j THEN whole ELSE o \in full,
           UNCHANGED <<sinceSweep, crashes>>
    PROVE  WorkdirsInv'
<1>1. r \in JobRec /\ dir \in Ages /\ down \in Ages
    BY DEF JobOk
<1>2. job' \in [Jobs -> JobRec] /\ trees' \in [Jobs -> Ages] /\ dl' \in [Jobs -> Ages]
    BY <1>1 DEF WorkdirsInv
<1>3. ASSUME NEW o \in Jobs PROVE JobOk(o, job'[o], trees'[o], dl'[o], o \in full')
    <2>1. CASE o = j
        <3>1. job'[o] = r /\ trees'[o] = dir /\ dl'[o] = down /\ (o \in full') = whole
            BY <2>1 DEF WorkdirsInv
        <3>2. QED
            BY <2>1, <3>1
    <2>2. CASE o # j
        <3>1. job'[o] = job[o] /\ trees'[o] = trees[o] /\ dl'[o] = dl[o] /\ (o \in full') = (o \in full)
            BY <2>2 DEF WorkdirsInv
        <3>2. JobOk(o, job[o], trees[o], dl[o], o \in full)
            BY DEF WorkdirsInv
        <3>3. QED
            BY <3>1, <3>2
    <2>3. QED
        BY <2>1, <2>2
<1>4. AgeLimit' = AgeLimit /\ AgeLimit \in Nat
    BY AgeLimitNat DEF AgeLimit
<1>5. ASSUME NEW o \in Jobs PROVE trees'[o] <= AgeLimit /\ dl'[o] <= AgeLimit
    <2>1. trees'[o] \in {trees[o], 0, Gone} /\ dl'[o] \in {dl[o], 0, Gone}
        BY DEF WorkdirsInv
    <2>2. QED
        BY <1>4, <2>1 DEF WorkdirsInv, Gone
<1>6. QED
    BY <1>2, <1>3, <1>4, <1>5 DEF WorkdirsInv, JobOk, Provided, ThreadFits, YoungEnough, Running

LEMMA SameAges ==
    ASSUME WorkdirsInv, NEW j \in Jobs
    PROVE  /\ trees = [trees EXCEPT ![j] = trees[j]] /\ dl = [dl EXCEPT ![j] = dl[j]]
           /\ job[j] \in JobRec /\ JobOk(j, job[j], trees[j], dl[j], j \in full)
BY DEF WorkdirsInv

\* The same where nothing happens to the directories.
LEMMA OneJobOnly ==
    ASSUME WorkdirsInv, NEW j \in Jobs, NEW r, JobOk(j, r, trees[j], dl[j], j \in full),
           job' = [job EXCEPT ![j] = r], UNCHANGED <<trees, full, dl, sinceSweep, crashes>>
    PROVE  WorkdirsInv'
<1>1. (j \in full) \in BOOLEAN
    OBVIOUS
<1>2. trees' = [trees EXCEPT ![j] = trees[j]] /\ dl' = [dl EXCEPT ![j] = dl[j]]
    BY SameAges
<1>3. \A o \in Jobs : o \in full' <=> IF o = j THEN j \in full ELSE o \in full
    OBVIOUS
<1>4. QED
    BY <1>1, <1>2, <1>3, OneJob

\* Its directories are removed: by its own cleanup, when it needs them no more.
LEMMA CleanedUp ==
    ASSUME WorkdirsInv, NEW j \in Jobs, NEW r \in JobRec, ThreadFits(r),
           r.at \in {"finally", "done"}, r.thread # "persist", r.run = job[j].run, Running(job[j]),
           job' = [job EXCEPT ![j] = r], Cleanup(j), UNCHANGED <<sinceSweep, crashes>>
    PROVE  WorkdirsInv'
<1>1. PICK down \in Ages : down \in {dl[j], Gone} /\ dl' = [dl EXCEPT ![j] = down]
    <2>1. dl[j] \in Ages /\ Gone \in Ages
        BY DEF WorkdirsInv, Ages
    <2>2. dl' = IF job[j].listed THEN [dl EXCEPT ![j] = Gone] ELSE dl
        BY DEF Cleanup
    <2>3. QED
        BY <2>1, <2>2, SameAges
<1>2. JobOk(j, r, Gone, down, FALSE)
    <2>1. r.run \in Nat /\ Gone \in Ages /\ Gone <= r.run
        BY WorkdirsAssumption DEF JobRec, Ages, Gone
    <2>2. dl[j] <= r.run
        BY SameAges DEF JobOk, YoungEnough
    <2>3. YoungEnough(r, Gone, down)
        BY <1>1, <2>1, <2>2 DEF YoungEnough
    <2>4. QED
        BY <2>1, <2>3 DEF JobOk, Provided
<1>3. trees' = [trees EXCEPT ![j] = Gone] /\ full' = full \ {j}
    BY DEF Cleanup
<1>4. \A o \in Jobs : o \in full' <=> IF o = j THEN FALSE ELSE o \in full
    BY <1>3
<1>5. QED
    BY <1>1, <1>2, <1>3, <1>4, OneJob

LEMMA FetchSteps ==
    ASSUME WorkdirsInv, NEW j \in Jobs,
           \/ MakeDownloadDir(j) \/ FetchOk(j)
           \/ \E recorded \in BOOLEAN : FetchFails(j, recorded)
    PROVE  WorkdirsInv'
<1>1. PICK q \in JobRec : q = job[j] /\ JobOk(j, q, trees[j], dl[j], j \in full)
    BY SameAges
<1>2. q.at = "fetch" /\ UNCHANGED <<trees, full, sinceSweep, crashes>>
    BY <1>1 DEF MakeDownloadDir, FetchOk, FetchFails, Quiet
<1>3. trees' = [trees EXCEPT ![j] = trees[j]] /\ \A o \in Jobs : o \in full' <=> IF o = j THEN j \in full ELSE o \in full
    BY <1>2, SameAges
<1>4. (j \in full) \in BOOLEAN /\ q.run \in Nat /\ 0 \in Ages /\ Gone \in Ages /\ Gone <= q.run /\ 0 <= q.run
    BY WorkdirsAssumption DEF JobRec, Ages, Gone
<1>5. CASE MakeDownloadDir(j)
    <2>1. JobOk(j, q, trees[j], 0, j \in full)
        BY <1>1, <1>2, <1>4 DEF JobOk, ThreadFits, YoungEnough, Provided, Gone
    <2>2. job' = [job EXCEPT ![j] = q] /\ dl' = [dl EXCEPT ![j] = 0]
        BY <1>1, <1>5 DEF MakeDownloadDir, WorkdirsInv
    <2>3. QED
        BY <1>2, <1>3, <1>4, <2>1, <2>2, OneJob
<1>6. CASE FetchOk(j)
    <2> DEFINE r == [q EXCEPT !.at = IF j \in Scans THEN "analyse" ELSE "detonate", !.listed = TRUE]
    <2>1. /\ r \in JobRec /\ r.at = (IF j \in Scans THEN "analyse" ELSE "detonate") /\ r.thread = q.thread
          /\ r.failed = q.failed /\ r.extracted = q.extracted /\ r.owned = q.owned /\ r.run = q.run
        BY DEF JobRec, Stages
    <2>2. dl[j] # Gone /\ UNCHANGED dl /\ job' = [job EXCEPT ![j] = r]
        BY <1>1, <1>6 DEF FetchOk, PutJob
    <2> HIDE DEF r
    <2>3. JobOk(j, r, trees[j], dl[j], j \in full)
        BY <1>1, <1>2, <2>1, <2>2 DEF JobOk, ThreadFits, YoungEnough, Provided, Running
    <2>4. QED
        BY <1>2, <2>2, <2>3, OneJobOnly
<1>7. ASSUME NEW recorded \in BOOLEAN, FetchFails(j, recorded) PROVE WorkdirsInv'
    <2> DEFINE r == [q EXCEPT !.failed = recorded, !.at = IF recorded THEN "analyse" ELSE "finally"]
    <2>1. /\ r \in JobRec /\ r.at = (IF recorded THEN "analyse" ELSE "finally") /\ r.thread = q.thread
          /\ r.failed = recorded /\ r.extracted = q.extracted /\ r.owned = q.owned /\ r.run = q.run
        BY DEF JobRec, Stages
    <2>2. job' = [job EXCEPT ![j] = r]
        BY <1>1, <1>7 DEF FetchFails, PutJob
    <2>3. PICK down \in Ages : down \in {dl[j], Gone} /\ dl' = [dl EXCEPT ![j] = down]
        <3>1. dl[j] \in Ages /\ Gone \in Ages
            BY DEF WorkdirsInv, Ages
        <3>2. dl' = IF job[j].fetcher \in Tidy THEN [dl EXCEPT ![j] = Gone] ELSE dl
            BY <1>7 DEF FetchFails, AfterFetchFault
        <3>3. QED
            BY <3>1, <3>2, SameAges
    <2> HIDE DEF r
    <2>4. down <= q.run /\ trees[j] <= q.run
        BY <1>1, <1>2, <1>4, <2>3 DEF JobOk, YoungEnough, Running
    <2>5. JobOk(j, r, trees[j], down, j \in full)
        BY <1>1, <1>2, <2>1, <2>3, <2>4 DEF JobOk, ThreadFits, YoungEnough, Provided
    <2>6. QED
        BY <1>2, <1>3, <1>4, <2>2, <2>3, <2>5, OneJob
<1>8. QED
    BY <1>5, <1>6, <1>7

LEMMA ScanSteps ==
    ASSUME WorkdirsInv, NEW s \in Scans,
           \/ \E f \in Fetchers : BeginScan(s, f)
           \/ StartExtract(s) \/ ExtractMember(s) \/ AnalysisFails(s)
           \/ SubmitPersist(s) \/ PersistEnds(s)
           \/ \E ok \in BOOLEAN : ExtractEnds(s, ok)
    PROVE  WorkdirsInv'
<1>0. s \in Jobs
    BY DEF Jobs
<1>1. PICK q \in JobRec : q = job[s] /\ JobOk(s, q, trees[s], dl[s], s \in full)
    BY <1>0, SameAges
<1>2. UNCHANGED <<sinceSweep, crashes>>
    BY DEF BeginScan, StartExtract, ExtractMember, AnalysisFails, SubmitPersist, PersistEnds, ExtractEnds, Quiet
<1>3. dl = [dl EXCEPT ![s] = dl[s]] /\ trees = [trees EXCEPT ![s] = trees[s]]
    BY <1>0, SameAges
<1>4. (s \in full) \in BOOLEAN /\ q.run \in Nat /\ 0 \in Ages /\ Gone \in Ages /\ Gone <= q.run /\ 0 <= q.run
    BY WorkdirsAssumption DEF JobRec, Ages, Gone
<1>5. ASSUME NEW f \in Fetchers, BeginScan(s, f) PROVE WorkdirsInv'
    <2> DEFINE r == [NewJob EXCEPT !.at = "fetch", !.fetcher = f]
    <2>1. /\ r \in JobRec /\ r.at = "fetch" /\ r.thread = "none" /\ r.extracted = FALSE /\ r.owned = FALSE /\ r.run = 0
        BY NewJobIs DEF JobRec, Stages, NewJob
    <2>2. /\ q.at = "idle" /\ job' = [job EXCEPT ![s] = r] /\ trees' = [trees EXCEPT ![s] = 0]
          /\ UNCHANGED <<full, dl>>
        BY <1>1, <1>5 DEF BeginScan, PutJob
    <2> HIDE DEF r
    <2>3. dl[s] = Gone
        BY <1>1, <2>2 DEF JobOk, Provided
    <2>4. JobOk(s, r, 0, dl[s], s \in full)
        BY <1>4, <2>1, <2>3 DEF JobOk, ThreadFits, YoungEnough, Provided, Gone
    <2>5. \A o \in Jobs : o \in full' <=> IF o = s THEN s \in full ELSE o \in full
        BY <2>2
    <2>6. QED
        BY <1>0, <1>2, <1>3, <1>4, <2>2, <2>4, <2>5, OneJob
<1>6. CASE StartExtract(s)
    <2> DEFINE r == [q EXCEPT !.at = "extract", !.thread = "queued"]
    <2>1. /\ r \in JobRec /\ r.at = "extract" /\ r.thread = "queued"
          /\ r.failed = q.failed /\ r.extracted = q.extracted /\ r.owned = q.owned /\ r.run = q.run
        BY DEF JobRec, Stages, ThreadsOf
    <2>2. /\ q.at = "analyse" /\ ~q.failed /\ job' = [job EXCEPT ![s] = r] /\ UNCHANGED <<trees, full, dl>>
        BY <1>1, <1>6 DEF StartExtract, PutJob
    <2> HIDE DEF r
    <2>3. JobOk(s, r, trees[s], dl[s], s \in full)
        BY <1>1, <2>1, <2>2 DEF JobOk, ThreadFits, YoungEnough, Provided, Running
    <2>4. QED
        BY <1>0, <1>2, <2>2, <2>3, OneJobOnly
<1>7. CASE ExtractMember(s)
    <2>1. PICK dir \in Ages : dir = IF trees[s] = Gone THEN 0 ELSE trees[s]
        BY <1>0, <1>4 DEF WorkdirsInv
    <2>2. /\ q.thread = "extract" /\ job' = [job EXCEPT ![s] = q] /\ trees' = [trees EXCEPT ![s] = dir]
          /\ UNCHANGED <<full, dl>>
        BY <1>0, <1>1, <1>7, <2>1 DEF ExtractMember, WorkdirsInv
    <2>3. trees[s] <= q.run /\ dl[s] <= q.run
        BY <1>1, <2>2 DEF JobOk, YoungEnough, Running
    <2>4. JobOk(s, q, dir, dl[s], s \in full)
        BY <1>1, <1>4, <2>1, <2>2, <2>3 DEF JobOk, ThreadFits, YoungEnough, Provided, Gone, NewJob
    <2>5. \A o \in Jobs : o \in full' <=> IF o = s THEN s \in full ELSE o \in full
        BY <2>2
    <2>6. dir \in {trees[s], 0, Gone}
        BY <2>1
    <2>7. QED
        BY <1>0, <1>2, <1>3, <1>4, <2>2, <2>4, <2>5, <2>6, OneJob
<1>8. CASE AnalysisFails(s)
    <2> DEFINE r == [q EXCEPT !.at = "finally"]
    <2>1. /\ r \in JobRec /\ r.at = "finally" /\ r.thread = q.thread
          /\ r.failed = q.failed /\ r.extracted = q.extracted /\ r.owned = q.owned /\ r.run = q.run
        BY DEF JobRec, Stages
    <2>2. /\ q.at = "analyse" /\ job' = [job EXCEPT ![s] = r] /\ UNCHANGED <<trees, full, dl>>
        BY <1>1, <1>8 DEF AnalysisFails, PutJob
    <2> HIDE DEF r
    <2>3. JobOk(s, r, trees[s], dl[s], s \in full)
        BY <1>1, <2>1, <2>2 DEF JobOk, ThreadFits, YoungEnough, Provided, Running
    <2>4. QED
        BY <1>0, <1>2, <2>2, <2>3, OneJobOnly
<1>9. CASE SubmitPersist(s)
    <2> DEFINE r == [q EXCEPT !.at = "persist", !.thread = "queued", !.owned = TRUE]
    <2>1. /\ r \in JobRec /\ r.at = "persist" /\ r.thread = "queued"
          /\ r.failed = q.failed /\ r.extracted = q.extracted /\ r.owned = TRUE /\ r.run = q.run
        BY DEF JobRec, Stages, ThreadsOf
    <2>2. /\ q.at = "analyse" /\ (q.failed \/ q.extracted)
          /\ job' = [job EXCEPT ![s] = r] /\ UNCHANGED <<trees, full, dl>>
        BY <1>1, <1>9 DEF SubmitPersist, PutJob
    <2> HIDE DEF r
    <2>3. JobOk(s, r, trees[s], dl[s], s \in full)
        BY <1>1, <2>1, <2>2 DEF JobOk, ThreadFits, YoungEnough, Provided, Running
    <2>4. QED
        BY <1>0, <1>2, <2>2, <2>3, OneJobOnly
<1>10. CASE PersistEnds(s)
    <2> DEFINE r == [q EXCEPT !.thread = "none", !.at = IF @ = "persist" THEN "done" ELSE @]
    <2>1. /\ r \in JobRec /\ r.at = (IF q.at = "persist" THEN "done" ELSE q.at) /\ r.thread = "none"
          /\ r.failed = q.failed /\ r.extracted = q.extracted /\ r.owned = q.owned /\ r.run = q.run
        BY DEF JobRec, Stages, ThreadsOf
    <2>2. /\ q.thread = "persist" /\ job' = [job EXCEPT ![s] = r] /\ Cleanup(s)
        BY <1>1, <1>10 DEF PersistEnds, PutJob
    <2> HIDE DEF r
    <2>3. q.at \in {"persist", "finally", "done"} /\ r.at \in {"finally", "done"}
        BY <1>1, <2>1, <2>2 DEF JobOk, ThreadFits
    <2>4. ThreadFits(r)
        BY <2>1, <2>3 DEF ThreadFits
    <2>5. QED
        BY <1>0, <1>1, <1>2, <2>1, <2>2, <2>3, <2>4, CleanedUp DEF Running
<1>11. ASSUME NEW ok \in BOOLEAN, ExtractEnds(s, ok) PROVE WorkdirsInv'
    <2> DEFINE r == [q EXCEPT !.thread = "none", !.extracted = ok,
                        !.at = IF q.at # "extract" THEN @ ELSE IF ok THEN "analyse" ELSE "finally"]
    <2>1. /\ r \in JobRec /\ r.at = (IF q.at # "extract" THEN q.at ELSE IF ok THEN "analyse" ELSE "finally")
          /\ r.thread = "none" /\ r.failed = q.failed /\ r.extracted = ok /\ r.owned = q.owned /\ r.run = q.run
        BY DEF JobRec, Stages, ThreadsOf
    <2>2. /\ q.thread = "extract" /\ job' = [job EXCEPT ![s] = r] /\ UNCHANGED <<trees, dl>>
          /\ full' = IF ok /\ trees[s] # Gone THEN full \union {s} ELSE full
        BY <1>1, <1>11 DEF ExtractEnds, PutJob
    <2> HIDE DEF r
    <2>3. (s \in full') \in BOOLEAN /\ s \in full' <=> s \in full \/ (ok /\ trees[s] # Gone)
        BY <2>2
    <2>5. q.at \in {"extract", "finally", "done"}
        BY <1>1, <2>2 DEF JobOk, ThreadFits
    <2>6. ThreadFits(r) /\ YoungEnough(r, trees[s], dl[s])
        BY <1>1, <2>1, <2>2, <2>5 DEF JobOk, ThreadFits, YoungEnough, Running
    <2>7. Provided(s, r, trees[s], dl[s], s \in full')
        BY <1>1, <2>1, <2>2, <2>3, <2>5 DEF JobOk, Provided
    <2>8. JobOk(s, r, trees[s], dl[s], s \in full')
        BY <1>1, <2>1, <2>6, <2>7 DEF JobOk
    <2>9. trees' = [trees EXCEPT ![s] = trees[s]] /\ dl' = [dl EXCEPT ![s] = dl[s]]
        BY <1>3, <2>2
    <2>10. CASE ok /\ trees[s] # Gone
        <3>1. JobOk(s, r, trees[s], dl[s], TRUE)
            BY <2>3, <2>8, <2>10
        <3>2. \A o \in Jobs : o \in full' <=> IF o = s THEN TRUE ELSE o \in full
            BY <2>2, <2>10
        <3>3. QED
            BY <1>0, <1>2, <2>2, <2>9, <3>1, <3>2, OneJob
    <2>11. CASE ~(ok /\ trees[s] # Gone)
        <3>1. full' = full
            BY <2>2, <2>11
        <3>2. QED
            BY <1>0, <1>2, <2>2, <2>8, <3>1, OneJobOnly
    <2>12. QED
        BY <2>10, <2>11
<1>12. QED
    BY <1>5, <1>6, <1>7, <1>8, <1>9, <1>10, <1>11

LEMMA DetonationSteps ==
    ASSUME WorkdirsInv, NEW d \in Detonations,
           \/ \E f \in Fetchers : BeginDetonation(d, f)
           \/ DetonateEnds(d)
           \/ \E vaulted \in BOOLEAN : StageEnds(d, vaulted)
    PROVE  WorkdirsInv'
<1>0. d \in Jobs /\ d \notin Scans
    BY WorkdirsAssumption DEF Jobs
<1>1. PICK q \in JobRec : q = job[d] /\ JobOk(d, q, trees[d], dl[d], d \in full)
    BY <1>0, SameAges
<1>2. UNCHANGED <<sinceSweep, crashes, trees, full>>
    BY DEF BeginDetonation, DetonateEnds, StageEnds, Quiet
<1>3. dl = [dl EXCEPT ![d] = dl[d]] /\ trees' = [trees EXCEPT ![d] = trees[d]]
    BY <1>0, <1>2, SameAges
<1>4. (d \in full) \in BOOLEAN /\ q.run \in Nat /\ 0 \in Ages /\ Gone \in Ages /\ Gone <= q.run /\ 0 <= q.run
    BY WorkdirsAssumption DEF JobRec, Ages, Gone
<1>5. ASSUME NEW f \in Fetchers, BeginDetonation(d, f) PROVE WorkdirsInv'
    <2> DEFINE r == [NewJob EXCEPT !.at = "stage", !.thread = "queued", !.fetcher = f]
    <2>1. /\ r \in JobRec /\ r.at = "stage" /\ r.thread = "queued" /\ r.extracted = FALSE /\ r.owned = FALSE /\ r.run = 0
        BY NewJobIs DEF JobRec, Stages, ThreadsOf, NewJob
    <2>2. /\ q.at = "idle" /\ job' = [job EXCEPT ![d] = r] /\ UNCHANGED dl
        BY <1>1, <1>5 DEF BeginDetonation, PutJob
    <2> HIDE DEF r
    <2>3. dl[d] = Gone /\ trees[d] = Gone /\ Gone <= 0
        BY <1>1, <2>2 DEF JobOk, Provided, Gone
    <2>4. JobOk(d, r, trees[d], dl[d], d \in full)
        BY <1>0, <1>4, <2>1, <2>3 DEF JobOk, ThreadFits, YoungEnough, Provided
    <2>5. QED
        BY <1>0, <1>2, <2>2, <2>4, OneJobOnly
<1>6. CASE DetonateEnds(d)
    <2> DEFINE r == [q EXCEPT !.at = "finally"]
    <2>1. /\ r \in JobRec /\ r.at = "finally" /\ r.thread = q.thread
          /\ r.failed = q.failed /\ r.extracted = q.extracted /\ r.owned = q.owned /\ r.run = q.run
        BY DEF JobRec, Stages
    <2>2. /\ q.at = "detonate" /\ job' = [job EXCEPT ![d] = r] /\ UNCHANGED dl
        BY <1>1, <1>6 DEF DetonateEnds, PutJob
    <2> HIDE DEF r
    <2>3. JobOk(d, r, trees[d], dl[d], d \in full)
        BY <1>0, <1>1, <2>1, <2>2 DEF JobOk, ThreadFits, YoungEnough, Provided, Running
    <2>4. QED
        BY <1>0, <1>2, <2>2, <2>3, OneJobOnly
<1>7. ASSUME NEW vaulted \in BOOLEAN, StageEnds(d, vaulted) PROVE WorkdirsInv'
    <2> DEFINE waited == q.at = "stage"
               r == [q EXCEPT !.thread = "none", !.listed = waited /\ vaulted,
                        !.at = IF ~waited THEN @ ELSE IF vaulted THEN "detonate" ELSE "fetch"]
    <2>1. /\ r \in JobRec /\ r.at = (IF ~waited THEN q.at ELSE IF vaulted THEN "detonate" ELSE "fetch")
          /\ r.thread = "none" /\ r.failed = q.failed /\ r.extracted = q.extracted /\ r.owned = q.owned /\ r.run = q.run
        <3>1. (waited /\ vaulted) \in BOOLEAN
            OBVIOUS
        <3>2. QED
            BY <3>1 DEF JobRec, Stages, ThreadsOf
    <2>2. /\ q.thread = "stage" /\ job' = [job EXCEPT ![d] = r]
          /\ dl' = IF vaulted THEN [dl EXCEPT ![d] = 0] ELSE dl
        BY <1>1, <1>7 DEF StageEnds, PutJob
    <2> HIDE DEF r
    <2>3. PICK down \in Ages : dl' = [dl EXCEPT ![d] = down] /\ down = IF vaulted THEN 0 ELSE dl[d]
        <3>1. dl[d] \in Ages
            BY <1>0 DEF WorkdirsInv
        <3>2. QED
            BY <1>3, <1>4, <2>2, <3>1
    <2>4. trees[d] <= q.run /\ dl[d] <= q.run /\ down <= q.run
        BY <1>1, <1>4, <2>2, <2>3 DEF JobOk, YoungEnough, Running
    <2>5. q.at # "idle"
        BY <1>1, <2>2, NewJobIs DEF JobOk, ThreadFits, NewJob
    <2>6. ThreadFits(r)
        BY <1>1, <2>1, <2>5 DEF JobOk, ThreadFits
    <2>7. Provided(d, r, trees[d], down, d \in full)
        <3>1. r.at = "detonate" => down # Gone
            <4>1. q.at # "detonate"
                BY <1>1, <2>2 DEF JobOk, ThreadFits
            <4>2. r.at = "detonate" => vaulted
                BY <2>1, <4>1
            <4>3. QED
                BY <2>3, <4>2 DEF Gone
        <3>2. r.at # "idle"
            BY <2>1, <2>5
        <3>3. QED
            BY <1>0, <3>1, <3>2 DEF Provided
    <2>8. JobOk(d, r, trees[d], down, d \in full)
        BY <1>1, <2>1, <2>3, <2>4, <2>6, <2>7 DEF JobOk, YoungEnough
    <2>9. \A o \in Jobs : o \in full' <=> IF o = d THEN d \in full ELSE o \in full
        BY <1>2
    <2>10. down \in {dl[d], 0, Gone}
        BY <2>3
    <2>11. job' = [job EXCEPT ![d] = r] /\ trees' = [trees EXCEPT ![d] = trees[d]] /\ dl' = [dl EXCEPT ![d] = down]
        BY <1>3, <2>2, <2>3
    <2>12. QED
        BY <1>0, <1>2, <1>4, <2>8, <2>9, <2>10, <2>11, OneJob
<1>8. QED
    BY <1>5, <1>6, <1>7

LEMMA CoroutineSteps ==
    ASSUME WorkdirsInv, NEW j \in Jobs, ThreadStarts(j) \/ TimeOut(j) \/ Finally(j)
    PROVE  WorkdirsInv'
<1>1. PICK q \in JobRec : q = job[j] /\ JobOk(j, q, trees[j], dl[j], j \in full)
    BY SameAges
<1>2. UNCHANGED <<sinceSweep, crashes>>
    BY DEF ThreadStarts, TimeOut, Finally, Quiet
<1>3. dl = [dl EXCEPT ![j] = dl[j]] /\ trees = [trees EXCEPT ![j] = trees[j]]
    BY SameAges
<1>4. (j \in full) \in BOOLEAN /\ q.run \in Nat /\ 0 \in Ages /\ Gone \in Ages /\ Gone <= q.run /\ 0 <= q.run
    BY WorkdirsAssumption DEF JobRec, Ages, Gone
<1>5. CASE ThreadStarts(j)
    <2>1. /\ q.thread = "queued" /\ job' = [job EXCEPT ![j] = [q EXCEPT !.thread = q.at]] /\ UNCHANGED <<full, dl>>
          /\ trees' = IF q.at = "extract" THEN [trees EXCEPT ![j] = 0] ELSE trees
        BY <1>1, <1>5 DEF ThreadStarts, PutJob
    <2>2. q.at \in {"extract", "persist", "stage"}
        BY <1>1, <2>1 DEF JobOk, ThreadFits
    <2> DEFINE r == [q EXCEPT !.thread = q.at]
    <2>3. /\ r \in JobRec /\ r.at = q.at /\ r.thread = q.at
          /\ r.failed = q.failed /\ r.extracted = q.extracted /\ r.owned = q.owned /\ r.run = q.run
        BY <2>2 DEF JobRec, ThreadsOf
    <2>4. job' = [job EXCEPT ![j] = r]
        BY <2>1
    <2> HIDE DEF r
    <2>5. PICK dir \in Ages : trees' = [trees EXCEPT ![j] = dir] /\ dir = IF q.at = "extract" THEN 0 ELSE trees[j]
        <3>1. trees[j] \in Ages
            BY DEF WorkdirsInv
        <3>2. QED
            BY <1>3, <1>4, <2>1, <3>1
    <2>6. q.at = "persist" => q.owned
        BY <1>1 DEF JobOk, ThreadFits
    <2>7. dir <= q.run /\ dl[j] <= q.run
        BY <1>1, <1>4, <2>1, <2>5 DEF JobOk, YoungEnough, Running
    <2>8. ThreadFits(r)
        BY <1>1, <2>2, <2>3, <2>6 DEF JobOk, ThreadFits
    <2>9. Provided(j, r, dir, dl[j], j \in full)
        BY <1>1, <2>2, <2>3, <2>5 DEF JobOk, Provided, Gone
    <2>10. JobOk(j, r, dir, dl[j], j \in full)
        BY <1>1, <2>3, <2>7, <2>8, <2>9 DEF JobOk, YoungEnough
    <2>11. \A o \in Jobs : o \in full' <=> IF o = j THEN j \in full ELSE o \in full
        BY <2>1
    <2>12. dir \in {trees[j], 0, Gone} /\ dl' = [dl EXCEPT ![j] = dl[j]]
        BY <1>3, <2>1, <2>5
    <2>13. QED
        BY <1>2, <1>4, <2>4, <2>5, <2>10, <2>11, <2>12, OneJob
<1>6. CASE TimeOut(j)
    <2> DEFINE r == [q EXCEPT !.at = "finally", !.thread = IF @ = "queued" THEN "none" ELSE @]
    <2>1. /\ r \in JobRec /\ r.at = "finally" /\ r.thread = (IF q.thread = "queued" THEN "none" ELSE q.thread)
          /\ r.failed = q.failed /\ r.extracted = q.extracted /\ r.owned = q.owned /\ r.run = q.run
        BY DEF JobRec, Stages, ThreadsOf
    <2>2. /\ q.at \in Waiting /\ job' = [job EXCEPT ![j] = r] /\ UNCHANGED <<trees, full>>
          /\ dl' = IF q.at = "fetch" /\ q.fetcher \in Tidy THEN [dl EXCEPT ![j] = Gone] ELSE dl
        BY <1>1, <1>6 DEF TimeOut, PutJob, AfterFetchFault
    <2> HIDE DEF r
    <2>3. PICK down \in Ages : /\ dl' = [dl EXCEPT ![j] = down]
                               /\ down = IF q.at = "fetch" /\ q.fetcher \in Tidy THEN Gone ELSE dl[j]
        <3>1. dl[j] \in Ages
            BY DEF WorkdirsInv
        <3>2. QED
            BY <1>3, <1>4, <2>2, <3>1
    <2>4. trees[j] <= q.run /\ down <= q.run
        BY <1>1, <1>4, <2>2, <2>3 DEF JobOk, YoungEnough, Running, Waiting
    <2>5. ThreadFits(r)
        BY <1>1, <2>1, <2>2 DEF JobOk, ThreadFits, Waiting
    <2>6. Provided(j, r, trees[j], down, j \in full)
        <3>1. r.thread = "persist" => q.thread = "persist" /\ q.at # "fetch"
            BY <1>1, <2>1 DEF JobOk, ThreadFits
        <3>2. QED
            BY <1>1, <2>1, <2>3, <3>1 DEF JobOk, Provided
    <2>7. JobOk(j, r, trees[j], down, j \in full)
        BY <1>1, <2>1, <2>3, <2>4, <2>5, <2>6 DEF JobOk, YoungEnough
    <2>8. \A o \in Jobs : o \in full' <=> IF o = j THEN j \in full ELSE o \in full
        BY <2>2
    <2>9. down \in {dl[j], 0, Gone} /\ trees' = [trees EXCEPT ![j] = trees[j]]
        BY <1>3, <2>2, <2>3
    <2>10. QED
        BY <1>2, <1>4, <2>2, <2>3, <2>7, <2>8, <2>9, OneJob
<1>7. CASE Finally(j)
    <2> DEFINE r == [q EXCEPT !.at = "done"]
    <2>1. /\ r \in JobRec /\ r.at = "done" /\ r.thread = q.thread
          /\ r.failed = q.failed /\ r.extracted = q.extracted /\ r.owned = q.owned /\ r.run = q.run
        BY DEF JobRec, Stages
    <2>2. /\ q.at = "finally" /\ job' = [job EXCEPT ![j] = r]
          /\ IF q.owned THEN UNCHANGED <<trees, full, dl>> ELSE Cleanup(j)
        BY <1>1, <1>7 DEF Finally, PutJob
    <2> HIDE DEF r
    <2>3. ThreadFits(r)
        BY <1>1, <2>1, <2>2 DEF JobOk, ThreadFits
    <2>4. CASE q.owned
        <3>1. JobOk(j, r, trees[j], dl[j], j \in full)
            BY <1>1, <2>1, <2>2, <2>3 DEF JobOk, YoungEnough, Provided, Running
        <3>2. QED
            BY <1>2, <2>2, <2>4, <3>1, OneJobOnly
    <2>5. CASE ~q.owned
        <3>1. r.thread # "persist" /\ Running(job[j])
            BY <1>1, <2>1, <2>2, <2>5 DEF JobOk, ThreadFits, Running
        <3>2. QED
            BY <1>1, <1>2, <2>1, <2>2, <2>3, <2>5, <3>1, CleanedUp
    <2>6. QED
        BY <2>4, <2>5
<1>8. QED
    BY <1>5, <1>6, <1>7

LEMMA TickKeeps == ASSUME WorkdirsInv, WorkTick PROVE WorkdirsInv'
<1>1. /\ sinceSweep < SweepPeriod /\ sinceSweep' = sinceSweep + 1 /\ UNCHANGED <<full, crashes>>
      /\ job' = [j \in Jobs |-> IF Active(j) THEN [job[j] EXCEPT !.run = @ + 1] ELSE job[j]]
      /\ trees' = Grown(trees) /\ dl' = Grown(dl)
      /\ \A j \in Jobs : Active(j) => job[j].run < JobTimeout + ThreadMax
    BY DEF WorkTick
<1>2. sinceSweep' \in 0 .. SweepPeriod /\ crashes' \in Nat
    BY <1>1, WorkdirsAssumption DEF WorkdirsInv
<1>3. AgeLimit' = AgeLimit + 1 /\ AgeLimit \in Nat
    <2>1. sinceSweep \in Nat /\ SweepAge \in Nat /\ SweepPeriod * crashes \in Nat
        <3>1. SweepPeriod \in Nat /\ crashes \in Nat
            BY WorkdirsAssumption DEF WorkdirsInv
        <3>2. SweepPeriod * crashes \in Nat
            BY <3>1
        <3>3. QED
            BY <3>2, WorkdirsAssumption DEF WorkdirsInv
    <2>2. QED
        BY <1>1, <2>1, AgeLimitNat DEF AgeLimit
<1>4. ASSUME NEW j \in Jobs
      PROVE  /\ JobOk(j, job'[j], trees'[j], dl'[j], j \in full)
             /\ trees'[j] <= AgeLimit' /\ dl'[j] <= AgeLimit'
    <2>1. PICK q \in JobRec : q = job[j] /\ JobOk(j, q, trees[j], dl[j], j \in full)
        BY SameAges
    <2>2. PICK dir \in Ages : dir = trees[j] /\ trees'[j] = (IF dir = Gone THEN Gone ELSE dir + 1) /\ dir <= AgeLimit
        BY <1>1 DEF WorkdirsInv, Grown
    <2>3. PICK down \in Ages : down = dl[j] /\ dl'[j] = (IF down = Gone THEN Gone ELSE down + 1) /\ down <= AgeLimit
        BY <1>1 DEF WorkdirsInv, Grown
    <2>4. /\ trees'[j] \in Ages /\ dl'[j] \in Ages /\ trees'[j] <= dir + 1 /\ dl'[j] <= down + 1
          /\ trees'[j] = Gone <=> dir = Gone
          /\ dl'[j] = Gone <=> down = Gone
        BY <2>2, <2>3 DEF Ages, Gone
    <2>5. dir + 1 <= AgeLimit + 1 /\ down + 1 <= AgeLimit + 1
        BY <1>3, <2>2, <2>3 DEF Ages, Gone
    <2>6. trees'[j] <= AgeLimit' /\ dl'[j] <= AgeLimit'
        BY <1>3, <2>2, <2>3, <2>4, <2>5 DEF Ages, Gone
    <2>7. CASE ~Active(j)
        <3>1. job'[j] = q /\ ~Running(q)
            BY <1>1, <2>1, <2>7 DEF Active, Running
        <3>2. Provided(j, q, trees'[j], dl'[j], j \in full)
            BY <2>1, <2>2, <2>3, <2>4 DEF JobOk, Provided
        <3>3. JobOk(j, q, trees'[j], dl'[j], j \in full)
            BY <2>1, <2>4, <3>1, <3>2 DEF JobOk, YoungEnough
        <3>4. QED
            BY <2>6, <3>1, <3>3
    <2>8. CASE Active(j)
        <3>1. q.run \in Nat /\ q.run + 1 \in 0 .. JobTimeout + ThreadMax /\ Running(q)
            BY <1>1, <2>1, <2>8, WorkdirsAssumption DEF JobRec, Active, Running
        <3> DEFINE r == [q EXCEPT !.run = q.run + 1]
        <3>2. /\ r \in JobRec /\ r.at = q.at /\ r.thread = q.thread /\ r.run = q.run + 1
              /\ r.failed = q.failed /\ r.extracted = q.extracted /\ r.owned = q.owned
            BY <3>1 DEF JobRec
        <3>3. job'[j] = r
            BY <1>1, <2>1, <2>8
        <3> HIDE DEF r
        <3>4. dir <= q.run /\ down <= q.run
            BY <2>1, <2>2, <2>3, <3>1 DEF JobOk, YoungEnough
        <3>5. trees'[j] <= r.run /\ dl'[j] <= r.run
            BY <2>2, <2>3, <2>4, <3>1, <3>2, <3>4 DEF Ages, Gone
        <3>6. q.at # "idle"
            BY <2>1, <3>1, NewJobIs DEF JobOk, ThreadFits
        <3>7. ThreadFits(r)
            BY <2>1, <3>2, <3>6 DEF JobOk, ThreadFits
        <3>8. Provided(j, r, trees'[j], dl'[j], j \in full)
            BY <2>1, <2>2, <2>3, <2>4, <3>2 DEF JobOk, Provided
        <3>9. JobOk(j, r, trees'[j], dl'[j], j \in full)
            BY <2>4, <3>2, <3>5, <3>7, <3>8 DEF JobOk, YoungEnough
        <3>10. QED
            BY <2>6, <3>3, <3>9
    <2>9. QED
        BY <2>7, <2>8
<1>5. job' \in [Jobs -> JobRec] /\ trees' \in [Jobs -> Ages] /\ dl' \in [Jobs -> Ages]
    <2>1. \A j \in Jobs : job'[j] \in JobRec /\ trees'[j] \in Ages /\ dl'[j] \in Ages
        BY <1>4 DEF JobOk
    <2>2. QED
        BY <1>1, <2>1 DEF Grown
<1>6. QED
    BY <1>1, <1>2, <1>4, <1>5 DEF WorkdirsInv

LEMMA SweepKeeps == ASSUME WorkdirsInv, SweepAll PROVE WorkdirsInv'
<1>1. /\ sinceSweep' = 0 /\ UNCHANGED <<job, crashes>> /\ trees' = Swept(trees) /\ dl' = Swept(dl)
      /\ full' = {s \in full : trees'[s] # Gone}
    BY DEF SweepAll
<1>2. sinceSweep' \in 0 .. SweepPeriod /\ SweepAge \in Nat
    BY <1>1, WorkdirsAssumption
<1>3. SweepAge <= AgeLimit' /\ AgeLimit' \in Nat
    <2>1. SweepPeriod \in Nat /\ crashes \in Nat
        BY WorkdirsAssumption DEF WorkdirsInv
    <2>2. SweepPeriod * crashes \in Nat
        BY <2>1
    <2>3. AgeLimit' = SweepAge + 0 + SweepPeriod * crashes
        BY <1>1 DEF AgeLimit
    <2>4. QED
        BY <1>2, <2>2, <2>3
<1>4. ASSUME NEW j \in Jobs
      PROVE  /\ JobOk(j, job[j], trees'[j], dl'[j], j \in full')
             /\ trees'[j] \in Ages /\ dl'[j] \in Ages
             /\ trees'[j] <= AgeLimit' /\ dl'[j] <= AgeLimit'
    <2>1. PICK q \in JobRec : q = job[j] /\ JobOk(j, q, trees[j], dl[j], j \in full)
        BY SameAges
    <2>2. PICK dir \in Ages : dir = trees[j] /\ trees'[j] = (IF dir > SweepAge THEN Gone ELSE dir)
        BY <1>1 DEF WorkdirsInv, Swept
    <2>3. PICK down \in Ages : down = dl[j] /\ dl'[j] = (IF down > SweepAge THEN Gone ELSE down)
        BY <1>1 DEF WorkdirsInv, Swept
    <2>4. trees'[j] \in Ages /\ dl'[j] \in Ages /\ trees'[j] <= AgeLimit' /\ dl'[j] <= AgeLimit'
        BY <1>2, <1>3, <2>2, <2>3 DEF Ages, Gone
    <2>5. CASE Running(q)
        <3>1. dir <= q.run /\ down <= q.run /\ q.run <= SweepAge /\ q.run \in Nat
            BY <2>1, <2>2, <2>3, <2>5, WorkdirsAssumption DEF JobOk, YoungEnough, JobRec
        <3>2. trees'[j] = trees[j] /\ dl'[j] = dl[j]
            BY <1>2, <2>2, <2>3, <3>1 DEF Ages, Gone
        <3>3. j \in full' <=> j \in full /\ trees[j] # Gone
            BY <1>1, <3>2
        <3>4. Provided(j, q, trees[j], dl[j], j \in full')
            BY <2>1, <3>3 DEF JobOk, Provided
        <3>5. QED
            BY <2>1, <2>4, <3>2, <3>4 DEF JobOk
    <2>6. CASE ~Running(q)
        <3>1. q.at \in {"idle", "done"} /\ q.thread = "none"
            BY <2>6 DEF Running
        <3>2. Provided(j, q, trees'[j], dl'[j], j \in full')
            BY <2>1, <2>2, <2>3, <3>1 DEF JobOk, Provided
        <3>3. QED
            BY <2>1, <2>4, <2>6, <3>2 DEF JobOk, YoungEnough
    <2>7. QED
        BY <2>5, <2>6
<1>5. trees' \in [Jobs -> Ages] /\ dl' \in [Jobs -> Ages]
    BY <1>1, <1>4 DEF Swept
<1>6. QED
    BY <1>1, <1>2, <1>4, <1>5 DEF WorkdirsInv

LEMMA CrashKeeps == ASSUME WorkdirsInv, Crash PROVE WorkdirsInv'
<1>1. /\ sinceSweep' = 0 /\ crashes' = crashes + 1 /\ UNCHANGED <<trees, full, dl>>
      /\ job' = [j \in Jobs |-> IF Active(j) THEN [NewJob EXCEPT !.at = "done"] ELSE job[j]]
    BY DEF Crash
<1>2. sinceSweep' \in 0 .. SweepPeriod /\ crashes' \in Nat
    BY <1>1, WorkdirsAssumption DEF WorkdirsInv
<1>3. AgeLimit <= AgeLimit' /\ AgeLimit \in Nat /\ AgeLimit' \in Nat
    <2>1. PICK c \in Nat : c = crashes
        BY DEF WorkdirsInv
    <2>2. PICK p \in Nat : p = SweepPeriod
        BY WorkdirsAssumption
    <2>3. p * (c + 1) = p * c + p /\ p * c \in Nat
        OBVIOUS
    <2>4. AgeLimit = SweepAge + sinceSweep + p * c /\ AgeLimit' = SweepAge + 0 + p * (c + 1)
        BY <1>1, <2>1, <2>2 DEF AgeLimit
    <2>5. sinceSweep \in 0 .. p /\ SweepAge \in Nat
        BY <2>2, WorkdirsAssumption DEF WorkdirsInv
    <2>6. QED
        BY <2>3, <2>4, <2>5
<1>4. ASSUME NEW j \in Jobs
      PROVE  JobOk(j, job'[j], trees[j], dl[j], j \in full) /\ trees[j] <= AgeLimit' /\ dl[j] <= AgeLimit'
    <2>1. trees[j] \in Ages /\ dl[j] \in Ages /\ trees[j] <= AgeLimit /\ dl[j] <= AgeLimit
        BY DEF WorkdirsInv
    <2>2. trees[j] <= AgeLimit' /\ dl[j] <= AgeLimit'
        BY <1>3, <2>1 DEF Ages, Gone
    <2>3. CASE ~Active(j)
        BY <1>1, <2>2, <2>3, SameAges
    <2>4. CASE Active(j)
        <3> DEFINE r == [NewJob EXCEPT !.at = "done"]
        <3>1. r \in JobRec /\ r.at = "done" /\ r.thread = "none" /\ r.owned = FALSE
            BY NewJobIs DEF NewJob, JobRec, Stages
        <3>2. job'[j] = r
            BY <1>1, <2>4
        <3> HIDE DEF r
        <3>3. JobOk(j, r, trees[j], dl[j], j \in full)
            BY <2>1, <3>1 DEF JobOk, ThreadFits, YoungEnough, Running, Provided
        <3>4. QED
            BY <2>2, <3>2, <3>3
    <2>5. QED
        BY <2>3, <2>4
<1>5. job' \in [Jobs -> JobRec]
    <2>1. \A j \in Jobs : job'[j] \in JobRec
        BY <1>4 DEF JobOk
    <2>2. QED
        BY <1>1, <2>1
<1>6. QED
    BY <1>1, <1>2, <1>4, <1>5 DEF WorkdirsInv

LEMMA WorkdirsSteps == WorkdirsInv /\ [WorkdirsNext]_workdirsVars => WorkdirsInv'
<1> SUFFICES ASSUME WorkdirsInv, [WorkdirsNext]_workdirsVars PROVE WorkdirsInv'
    OBVIOUS
<1>1. CASE WorkTick \/ SweepAll \/ Crash
    BY <1>1, TickKeeps, SweepKeeps, CrashKeeps
<1>2. CASE \E j \in Jobs : \/ MakeDownloadDir(j) \/ FetchOk(j) \/ ThreadStarts(j) \/ TimeOut(j) \/ Finally(j)
                           \/ \E recorded \in BOOLEAN : FetchFails(j, recorded)
    BY <1>2, FetchSteps, CoroutineSteps
<1>3. CASE \E s \in Scans :
            \/ \E f \in Fetchers : BeginScan(s, f)
            \/ StartExtract(s) \/ ExtractMember(s) \/ AnalysisFails(s)
            \/ SubmitPersist(s) \/ PersistEnds(s)
            \/ \E ok \in BOOLEAN : ExtractEnds(s, ok)
    BY <1>3, ScanSteps
<1>4. CASE \E d \in Detonations :
            \/ \E f \in Fetchers : BeginDetonation(d, f)
            \/ DetonateEnds(d)
            \/ \E vaulted \in BOOLEAN : StageEnds(d, vaulted)
    BY <1>4, DetonationSteps
<1>5. CASE UNCHANGED workdirsVars
    BY <1>5 DEF workdirsVars, WorkdirsInv, AgeLimit, JobOk, ThreadFits, YoungEnough, Running, Provided
<1>6. QED
    BY <1>1, <1>2, <1>3, <1>4, <1>5 DEF WorkdirsNext

LEMMA WorkdirsInvariant == WorkdirsSpec => []WorkdirsInv
BY WorkdirsStart, WorkdirsSteps, PTL DEF WorkdirsSpec

\* For any number of jobs, timeouts, crashes and sweeps, the persist thread of process_one and a
\* detonation find the files they read: neither a cleanup nor sweep_orphans takes them away.
THEOREM InputsAlwaysStay == WorkdirsSpec => []InputsStay
<1>1. WorkdirsInv => InputsStay
    <2> SUFFICES ASSUME WorkdirsInv PROVE InputsStay
        OBVIOUS
    <2>1. \A j \in Jobs : Provided(j, job[j], trees[j], dl[j], j \in full)
        BY DEF WorkdirsInv, JobOk
    <2>2. QED
        BY <2>1 DEF InputsStay, Provided, Jobs
<1>2. QED
    BY <1>1, WorkdirsInvariant, PTL

\* Whatever is left in WORK_ROOT, sweep_all removes it within a period of its reaching the
\* age, or one period more for every crash.
THEOREM LeftoversAreSwept == WorkdirsSpec => []LeftoversSwept
<1>1. WorkdirsInv => LeftoversSwept
    <2> SUFFICES ASSUME WorkdirsInv, NEW j \in Jobs, NEW age \in {trees[j], dl[j]}
                 PROVE  age <= SweepAge + SweepPeriod * (1 + crashes)
        BY DEF LeftoversSwept
    <2>1. PICK c \in Nat : c = crashes
        BY DEF WorkdirsInv
    <2>2. PICK p \in Nat : p = SweepPeriod
        BY WorkdirsAssumption
    <2>3. p * (1 + c) = p * c + p /\ p * c \in Nat
        OBVIOUS
    <2>4. age <= SweepAge + sinceSweep + p * c /\ age \in Ages
        BY <2>1, <2>2 DEF WorkdirsInv, AgeLimit
    <2>5. sinceSweep \in 0 .. p /\ SweepAge \in Nat
        BY <2>2, WorkdirsAssumption DEF WorkdirsInv
    <2>6. age <= SweepAge + p * (1 + c)
        BY <2>3, <2>4, <2>5 DEF Ages, Gone
    <2>7. QED
        BY <2>1, <2>2, <2>6
<1>2. QED
    BY <1>1, WorkdirsInvariant, PTL

-----------------------------------------------------------------------------
(* Successive versions of a package                                        *)

ArchivedScan == [ver : Nat, hashes : Trees, found : SUBSET Paths, age : Nat]

\* The payload at a path was reported by a scan that is persisted.
PayloadTold(p) == \E k \in DOMAIN archive : archive[k].hashes[p] = "mal" /\ p \in archive[k].found

RepublishFrame ==
    /\ archive \in Seq(ArchivedScan) /\ releases \in Seq(Trees)
    /\ scanning \in [Scanners -> [ver : Nat, baseline : Trees]]
    /\ \A w \in Scanners : scanning[w] # IdleScanner => scanning[w].ver \in DOMAIN releases

\* What a baseline lets the analysers pass over has been reported.
BaselineTold == \A w \in Scanners : \A p \in Paths : scanning[w].baseline[p] = "mal" => PayloadTold(p)

RepublishInv == RepublishFrame /\ BaselineTold /\ PayloadReported

LEMMA RowsTyped == ASSUME RepublishFrame, NEW i \in DOMAIN archive
                   PROVE  archive[i] \in ArchivedScan /\ archive[i].hashes \in Trees /\ archive[i].found \in SUBSET Paths
<1>1. archive[i] \in ArchivedScan
    BY DEF RepublishFrame
<1>2. QED
    BY <1>1 DEF ArchivedScan

LEMMA IdleScannerIs == IdleScanner \in [ver : Nat, baseline : Trees] /\ \A p \in Paths : IdleScanner.baseline[p] # "mal"
BY DEF IdleScanner, NoTree, Trees, Contents

\* The hashes compared with are those of a scan that is persisted.
LEMMA PrevHashesFrom ==
    ASSUME RepublishFrame, NEW v
    PROVE  \/ PrevHashes(v) = NoTree
           \/ \E i \in DOMAIN archive : PrevHashes(v) = archive[i].hashes
<1>1. PICK n \in Nat : n = Len(archive) /\ DOMAIN archive = 1 .. n
    BY DEF RepublishFrame
<1>2. CASE Others(v) = {}
    BY <1>2 DEF PrevHashes
<1>3. CASE Others(v) # {}
    <2>1. \A x \in Others(v) : {i \in 1 .. n : archive[i].ver = x} # {}
        BY <1>1 DEF Others
    <2>2. \A x \in Others(v) : FirstSeen(x) \in 0 .. n
        <3> TAKE x \in Others(v)
        <3> DEFINE at == {i \in 1 .. n : archive[i].ver = x}
        <3>1. at \in SUBSET Nat /\ at # {} /\ FirstSeen(x) = Min(at)
            BY <1>1, <2>1 DEF FirstSeen
        <3>2. Min(at) \in at
            <4> HIDE DEF at
            <4>1. QED
                BY <3>1, MinOfNaturals
        <3>3. QED
            BY <3>1, <3>2
    <2> DEFINE firsts == {FirstSeen(x) : x \in Others(v)}
    <2>3. firsts \in SUBSET (0 .. n) /\ firsts # {}
        BY <1>3, <2>2
    <2>4. Max(firsts) \in firsts /\ \A m \in firsts : m <= Max(firsts)
        <3> HIDE DEF firsts
        <3>1. QED
            BY <2>3, MaxOfNaturals
    <2>5. \E o \in Others(v) : \A x \in Others(v) : FirstSeen(x) <= FirstSeen(o)
        BY <2>4
    <2>6. PICK prev \in Others(v) :
            PrevHashes(v) = archive[Max({i \in DOMAIN archive : archive[i].ver = prev})].hashes
        BY <1>3, <2>5 DEF PrevHashes
    <2> DEFINE scans == {i \in 1 .. n : archive[i].ver = prev}
    <2>7. scans \in SUBSET (0 .. n) /\ scans # {}
        BY <2>1
    <2>8. Max(scans) \in scans
        <3> HIDE DEF scans
        <3>1. QED
            BY <2>7, MaxOfNaturals
    <2>9. QED
        BY <1>1, <2>6, <2>8
<1>4. QED
    BY <1>2, <1>3

LEMMA RepublishStarts == RepublishInit => RepublishInv
<1> SUFFICES ASSUME RepublishInit PROVE RepublishInv
    OBVIOUS
<1>1. archive = <<>> /\ releases = <<>> /\ scanning = [w \in Scanners |-> IdleScanner]
    BY DEF RepublishInit
<1>2. RepublishFrame
    BY <1>1, IdleScannerIs DEF RepublishFrame
<1>3. BaselineTold
    BY <1>1, IdleScannerIs DEF BaselineTold
<1>4. PayloadReported
    BY <1>1 DEF PayloadReported
<1>5. QED
    BY <1>2, <1>3, <1>4 DEF RepublishInv

\* A scan ends without a trace.
LEMMA ScannerFreed ==
    ASSUME RepublishInv, NEW w \in Scanners, scanning' = [scanning EXCEPT ![w] = IdleScanner],
           UNCHANGED releases, archive' \in Seq(ArchivedScan),
           \A p \in Paths : PayloadTold(p) => PayloadTold(p)'
    PROVE  RepublishFrame' /\ BaselineTold'
<1>1. scanning' \in [Scanners -> [ver : Nat, baseline : Trees]]
    BY IdleScannerIs DEF RepublishInv, RepublishFrame
<1>2. RepublishFrame'
    BY <1>1 DEF RepublishInv, RepublishFrame
<1>3. ASSUME NEW o \in Scanners, NEW p \in Paths, scanning'[o].baseline[p] = "mal" PROVE PayloadTold(p)'
    <2>1. o # w /\ scanning'[o] = scanning[o]
        BY <1>3, IdleScannerIs DEF RepublishInv, RepublishFrame
    <2>2. QED
        BY <1>3, <2>1 DEF RepublishInv, BaselineTold
<1>4. QED
    BY <1>2, <1>3 DEF BaselineTold

\* A row is added to those there are.
LEMMA ScanArchived ==
    ASSUME RepublishInv, NEW row \in ArchivedScan, archive' = Append(archive, row)
    PROVE  /\ archive' \in Seq(ArchivedScan)
           /\ \A p \in Paths : PayloadTold(p) => PayloadTold(p)'
           /\ (\A p \in Paths : row.hashes[p] = "mal" => p \in row.found \/ PayloadTold(p)) => PayloadReported'
<1>1. PICK n \in Nat : n = Len(archive)
    BY DEF RepublishInv, RepublishFrame
<1>2. /\ archive' \in Seq(ArchivedScan) /\ DOMAIN archive = 1 .. n /\ DOMAIN archive' = 1 .. (n + 1)
      /\ \A i \in 1 .. n : archive'[i] = archive[i]
      /\ archive'[n + 1] = row
    BY <1>1 DEF RepublishInv, RepublishFrame
<1>3. \A p \in Paths : PayloadTold(p) => PayloadTold(p)'
    BY <1>2 DEF PayloadTold
<1>4. ASSUME \A p \in Paths : row.hashes[p] = "mal" => p \in row.found \/ PayloadTold(p) PROVE PayloadReported'
    <2> SUFFICES ASSUME NEW i \in 1 .. (n + 1), NEW p \in Paths, archive'[i].hashes[p] = "mal"
                 PROVE  \E k \in 1 .. i : archive'[k].hashes[p] = "mal" /\ p \in archive'[k].found
        BY <1>2 DEF PayloadReported
    <2>1. CASE i \in 1 .. n
        <3>1. PICK k \in 1 .. i : archive[k].hashes[p] = "mal" /\ p \in archive[k].found
            BY <1>2, <2>1 DEF RepublishInv, PayloadReported
        <3>2. k \in 1 .. n
            BY <2>1
        <3>3. QED
            BY <1>2, <3>1, <3>2
    <2>2. CASE i = n + 1 /\ p \in row.found
        BY <1>2, <2>2
    <2>3. CASE i = n + 1 /\ PayloadTold(p)
        <3>1. PICK k \in 1 .. n : archive[k].hashes[p] = "mal" /\ p \in archive[k].found
            BY <1>2, <2>3 DEF PayloadTold
        <3>2. k \in 1 .. i
            BY <2>3
        <3>3. QED
            BY <1>2, <3>1, <3>2
    <2>4. i \in 1 .. n \/ i = n + 1
        OBVIOUS
    <2>5. QED
        BY <1>2, <1>4, <2>1, <2>2, <2>3, <2>4
<1>5. QED
    BY <1>2, <1>3, <1>4

LEMMA RepublishSteps == RepublishInv /\ [RepublishNext]_republishVars => RepublishInv'
<1> SUFFICES ASSUME RepublishInv, [RepublishNext]_republishVars PROVE RepublishInv'
    OBVIOUS
<1>1. ASSUME NEW files \in Trees \ {NoTree}, Publish(files) PROVE RepublishInv'
    <2>1. releases' = Append(releases, files) /\ UNCHANGED <<archive, scanning>> /\ releases \in Seq(Trees)
        BY <1>1 DEF Publish, RepublishInv, RepublishFrame
    <2>2. releases' \in Seq(Trees) /\ DOMAIN releases \subseteq DOMAIN releases'
        BY <2>1
    <2>3. RepublishFrame'
        BY <2>1, <2>2 DEF RepublishInv, RepublishFrame
    <2>4. QED
        BY <2>1, <2>3 DEF RepublishInv, BaselineTold, PayloadTold, PayloadReported
<1>2. ASSUME NEW w \in Scanners, NEW v \in DOMAIN releases, ReadBaseline(w, v) PROVE RepublishInv'
    <2>1. PICK base : base = PrevHashes(v)
        OBVIOUS
    <2>2. scanning' = [scanning EXCEPT ![w] = [ver |-> v, baseline |-> base]] /\ UNCHANGED <<releases, archive>>
        BY <1>2, <2>1 DEF ReadBaseline
    <2>3. base \in Trees /\ \A p \in Paths : base[p] = "mal" => PayloadTold(p)
        <3>1. CASE base = NoTree
            BY <3>1 DEF NoTree, Trees, Contents
        <3>2. ASSUME NEW i \in DOMAIN archive, base = archive[i].hashes
              PROVE  base \in Trees /\ \A p \in Paths : base[p] = "mal" => PayloadTold(p)
            <4>1. base \in Trees
                BY <3>2, RowsTyped DEF RepublishInv
            <4>2. ASSUME NEW p \in Paths, base[p] = "mal" PROVE PayloadTold(p)
                <5>1. PICK k \in 1 .. i : archive[k].hashes[p] = "mal" /\ p \in archive[k].found
                    BY <3>2, <4>2 DEF RepublishInv, PayloadReported
                <5>2. k \in DOMAIN archive
                    BY <3>2 DEF RepublishInv, RepublishFrame
                <5>3. QED
                    BY <5>1, <5>2 DEF PayloadTold
            <4>3. QED
                BY <4>1, <4>2
        <3>3. QED
            BY <2>1, <3>1, <3>2, PrevHashesFrom DEF RepublishInv
    <2>4. v \in Nat
        BY DEF RepublishInv, RepublishFrame
    <2>5. scanning' \in [Scanners -> [ver : Nat, baseline : Trees]]
        BY <2>2, <2>3, <2>4 DEF RepublishInv, RepublishFrame
    <2>6. RepublishFrame'
        BY <2>2, <2>5 DEF RepublishInv, RepublishFrame
    <2>7. BaselineTold'
        BY <2>2, <2>3 DEF RepublishInv, RepublishFrame, BaselineTold, PayloadTold
    <2>8. QED
        BY <2>2, <2>6, <2>7 DEF RepublishInv, PayloadReported
<1>3. ASSUME NEW w \in Scanners, PersistScan(w) PROVE RepublishInv'
    <2>1. PICK s \in [ver : Nat, baseline : Trees] : s = scanning[w] /\ s.ver \in DOMAIN releases
        BY <1>3 DEF PersistScan, RepublishInv, RepublishFrame
    <2>2. PICK cur \in Trees : cur = releases[s.ver]
        BY <2>1 DEF RepublishInv, RepublishFrame
    <2> DEFINE analysed == {p \in Changed(cur, s.baseline) : cur[p] = "mal"}
    <2>3. Forwarded(cur) \subseteq Paths
        <3>1. CASE Recent = {}
            BY <3>1 DEF Forwarded
        <3>2. CASE Recent # {}
            <4>1. PICK n \in Nat : DOMAIN archive = 1 .. n
                BY DEF RepublishInv, RepublishFrame
            <4>2. Recent \in SUBSET (0 .. n)
                BY <4>1 DEF Recent
            <4>3. Max(Recent) \in DOMAIN archive
                BY <3>2, <4>2, MaxOfNaturals DEF Recent
            <4>4. archive[Max(Recent)].found \subseteq Paths
                BY <4>3, RowsTyped DEF RepublishInv
            <4>5. QED
                BY <4>4 DEF Forwarded, Carried
        <3>3. QED
            BY <3>1, <3>2
    <2>4. PICK found \in SUBSET Paths : found = analysed \union Forwarded(cur)
        BY <2>3 DEF Changed
    <2> DEFINE row == [ver |-> s.ver, hashes |-> cur, found |-> found, age |-> 0]
    <2>5. row \in ArchivedScan
        BY <2>1, <2>2, <2>4 DEF ArchivedScan
    <2>6. archive' = Append(archive, row) /\ scanning' = [scanning EXCEPT ![w] = IdleScanner] /\ UNCHANGED releases
        BY <1>3, <2>1, <2>2, <2>4 DEF PersistScan, Record
    <2>7. ASSUME NEW p \in Paths, cur[p] = "mal" PROVE p \in found \/ PayloadTold(p)
        <3>1. CASE s.baseline[p] = "mal"
            BY <2>1, <3>1 DEF RepublishInv, BaselineTold
        <3>2. CASE s.baseline[p] # "mal"
            BY <2>4, <2>7, <3>2 DEF Changed
        <3>3. QED
            BY <3>1, <3>2
    <2>8. \A p \in Paths : row.hashes[p] = "mal" => p \in row.found \/ PayloadTold(p)
        BY <2>7
    <2> HIDE DEF row
    <2>9. /\ archive' \in Seq(ArchivedScan) /\ PayloadReported'
          /\ \A p \in Paths : PayloadTold(p) => PayloadTold(p)'
        BY <2>5, <2>6, <2>8, ScanArchived
    <2>10. RepublishFrame' /\ BaselineTold'
        BY <2>6, <2>9, ScannerFreed
    <2>11. QED
        BY <2>9, <2>10 DEF RepublishInv
<1>4. ASSUME NEW w \in Scanners, PersistFetchError(w) PROVE RepublishInv'
    <2> DEFINE row == [ver |-> scanning[w].ver, hashes |-> NoTree, found |-> {}, age |-> 0]
    <2>1. scanning[w].ver \in Nat /\ NoTree \in Trees
        BY DEF RepublishInv, RepublishFrame, NoTree, Trees, Contents
    <2>2. row \in ArchivedScan /\ \A p \in Paths : row.hashes[p] # "mal"
        BY <2>1 DEF ArchivedScan, NoTree
    <2>3. archive' = Append(archive, row) /\ scanning' = [scanning EXCEPT ![w] = IdleScanner] /\ UNCHANGED releases
        BY <1>4 DEF PersistFetchError, Record
    <2> HIDE DEF row
    <2>4. /\ archive' \in Seq(ArchivedScan) /\ PayloadReported'
          /\ \A p \in Paths : PayloadTold(p) => PayloadTold(p)'
        BY <2>2, <2>3, ScanArchived
    <2>5. RepublishFrame' /\ BaselineTold'
        BY <2>3, <2>4, ScannerFreed
    <2>6. QED
        BY <2>4, <2>5 DEF RepublishInv
<1>5. ASSUME NEW w \in Scanners, ScanLost(w) PROVE RepublishInv'
    <2>1. scanning' = [scanning EXCEPT ![w] = IdleScanner] /\ UNCHANGED <<releases, archive>>
        BY <1>5 DEF ScanLost
    <2>2. archive' \in Seq(ArchivedScan) /\ \A p \in Paths : PayloadTold(p) => PayloadTold(p)'
        BY <2>1 DEF RepublishInv, RepublishFrame, PayloadTold
    <2>3. RepublishFrame' /\ BaselineTold'
        BY <2>1, <2>2, ScannerFreed
    <2>4. QED
        BY <2>1, <2>3 DEF RepublishInv, PayloadReported
<1>6. CASE ScansAge
    <2>1. PICK n \in Nat : n = Len(archive) /\ DOMAIN archive = 1 .. n
        BY DEF RepublishInv, RepublishFrame
    <2>2. /\ archive' = [i \in 1 .. n |-> [archive[i] EXCEPT !.age = IF @ <= Window THEN @ + 1 ELSE @]]
          /\ UNCHANGED <<releases, scanning>>
        BY <1>6, <2>1 DEF ScansAge
    <2>3. ASSUME NEW i \in 1 .. n
          PROVE  /\ archive'[i] \in ArchivedScan
                 /\ archive'[i].hashes = archive[i].hashes /\ archive'[i].found = archive[i].found
        <3>1. archive[i] \in ArchivedScan
            BY <2>1 DEF RepublishInv, RepublishFrame
        <3>2. archive'[i] = [archive[i] EXCEPT !.age = IF @ <= Window THEN @ + 1 ELSE @]
            BY <2>2
        <3>3. QED
            BY <3>1, <3>2 DEF ArchivedScan
    <2>4. archive' \in Seq(ArchivedScan) /\ DOMAIN archive' = 1 .. n
        BY <2>2, <2>3
    <2>5. \A p : PayloadTold(p) => PayloadTold(p)'
        BY <2>1, <2>3, <2>4 DEF PayloadTold
    <2>6. PayloadReported'
        <3> SUFFICES ASSUME NEW i \in 1 .. n, NEW p \in Paths, archive'[i].hashes[p] = "mal"
                     PROVE  \E k \in 1 .. i : archive'[k].hashes[p] = "mal" /\ p \in archive'[k].found
            BY <2>4 DEF PayloadReported
        <3>1. PICK k \in 1 .. i : archive[k].hashes[p] = "mal" /\ p \in archive[k].found
            BY <2>1, <2>3 DEF RepublishInv, PayloadReported
        <3>2. k \in 1 .. n
            OBVIOUS
        <3>3. QED
            BY <2>3, <3>1, <3>2
    <2>7. RepublishFrame' /\ BaselineTold'
        BY <2>2, <2>4, <2>5 DEF RepublishInv, RepublishFrame, BaselineTold
    <2>8. QED
        BY <2>6, <2>7 DEF RepublishInv
<1>7. CASE AutoListing
    BY <1>7 DEF AutoListing, RepublishInv, RepublishFrame, BaselineTold, PayloadTold, PayloadReported
<1>8. CASE UNCHANGED republishVars
    BY <1>8 DEF republishVars, RepublishInv, RepublishFrame, BaselineTold, PayloadTold, PayloadReported
<1>9. QED
    BY <1>1, <1>2, <1>3, <1>4, <1>5, <1>6, <1>7, <1>8 DEF RepublishNext

\* For any number of versions, of scans that overlap, fail or come again, and of files, what
\* _find_changed_files lets the analysers pass over has been reported before.
THEOREM PayloadsReported == RepublishSpec => []PayloadReported
<1>1. RepublishInv => PayloadReported
    BY DEF RepublishInv
<1>2. QED
    BY <1>1, RepublishStarts, RepublishSteps, PTL DEF RepublishSpec

-----------------------------------------------------------------------------
(* What the LLM is shown                                                   *)

\* The only flagged file with the worst finding, readable or not.
SoleWorst(f) == f \in Flagged /\ \A g \in Flagged \ {f} : tree[f].sev < tree[g].sev

\* It comes next, with nothing but the reserve used up.
StillFirst(f) == f \in gtodo /\ f \notin seen /\ total <= Reserve

EvidenceInv ==
    /\ tree \in [Files -> FileKind] /\ total \in Nat /\ gpass \in Passes
    /\ gpass = "entry" => total <= Reserve /\ gtodo \subseteq EntryFiles /\ seen \subseteq EntryFiles
    /\ gpass = "convict" => gtodo \subseteq Flagged
    /\ gecosystem # "pypi" =>
        /\ gpass # "pth"
        /\ gpass = "convict" =>
            \A f \in Files \ EntryFiles : SoleWorst(f) => f \in shown \union gone \/ StillFirst(f)
        /\ gpass = "done" => \A f \in Files \ EntryFiles : SoleWorst(f) => f \in shown \union gone

LEMMA BlockFits == ASSUME tree \in [Files -> FileKind], NEW f \in Files
                   PROVE  BlockOf(f) \in Nat /\ BlockOf(f) <= FileCap + Marker
<1>1. tree[f].size \in Nat /\ {Excerpt, FileCap, Marker} \subseteq Nat
    BY EvidenceBoundAssumption DEF FileKind
<1>2. {Excerpt, tree[f].size} \in SUBSET Nat /\ {Excerpt, tree[f].size} # {}
    BY <1>1
<1>3. Min({Excerpt, tree[f].size}) \in Nat
    BY <1>2, MinOfNaturals
<1>4. PICK b \in Nat : b = IF tree[f].shape = "text" THEN tree[f].size ELSE Min({Excerpt, tree[f].size})
    BY <1>1, <1>3
<1>5. BlockOf(f) = Cut(b, FileCap)
    BY <1>4 DEF BlockOf
<1>6. QED
    BY <1>1, <1>5 DEF Cut

LEMMA CutNat == ASSUME NEW b \in Nat, NEW cap \in Nat PROVE Cut(b, cap) \in Nat
BY EvidenceBoundAssumption DEF Cut

LEMMA EvidenceStarts == EvidenceInit => EvidenceInv
<1> SUFFICES ASSUME EvidenceInit PROVE EvidenceInv
    OBVIOUS
<1>1. tree \in [Files -> FileKind]
    BY FileKindsAssumption DEF EvidenceInit
<1>2. QED
    BY <1>1, EvidenceBoundAssumption DEF EvidenceInit, EvidenceInv, Passes

LEMMA EvidenceSteps == EvidenceInv /\ [EvidenceNext]_evidenceVars => EvidenceInv'
<1> SUFFICES ASSUME EvidenceInv, [EvidenceNext]_evidenceVars PROVE EvidenceInv'
    OBVIOUS
<1>0. {MaxCode, Reserve, EntryCap, FileCap, Excerpt, Marker, MinTail} \subseteq Nat /\ total \in Nat
    BY EvidenceBoundAssumption DEF EvidenceInv
<1>1. ASSUME NEW f \in Files, EntryStep(f) PROVE EvidenceInv'
    <2>1. PICK bytes \in Nat : bytes = Cut(tree[f].size, EntryCap)
        <3>1. tree[f].size \in Nat
            BY DEF EvidenceInv, FileKind
        <3>2. QED
            BY <1>0, <3>1, CutNat
    <2>2. /\ gpass = "entry" /\ UNCHANGED <<tree, gecosystem, gpass, gone>> /\ gtodo' = gtodo \ {f} /\ f \in gtodo
          /\ IF f \in gone THEN UNCHANGED <<shown, total, seen>>
             ELSE /\ seen' = seen \union {f}
                  /\ IF total + bytes > Reserve THEN UNCHANGED <<shown, total>>
                     ELSE shown' = shown \union {f} /\ total' = total + bytes
        BY <1>1, <2>1 DEF EntryStep, Skip, Show, LookedAt, EntryFirst
    <2>3. total' \in Nat /\ total' <= Reserve
        BY <1>0, <2>1, <2>2 DEF EvidenceInv
    <2>4. EntryFiles' = EntryFiles
        BY <2>2 DEF EntryFiles, Flagged
    <2>5. gtodo' \subseteq EntryFiles /\ seen' \subseteq EntryFiles
        BY <2>2 DEF EvidenceInv
    <2>6. QED
        BY <2>2, <2>3, <2>4, <2>5 DEF EvidenceInv
<1>2. CASE EntryEnds
    <2>1. /\ gpass = "entry" /\ UNCHANGED <<tree, gecosystem, total, seen, shown, gone>>
          /\ IF gecosystem = "pypi" THEN gpass' = "pth" /\ gtodo' = Companions
             ELSE gpass' = "convict" /\ gtodo' = Flagged
        BY <1>2 DEF EntryEnds
    <2>2. EntryFiles' = EntryFiles /\ Flagged' = Flagged
        BY <2>1 DEF EntryFiles, Flagged
    <2>3. \A f : SoleWorst(f)' <=> SoleWorst(f)
        BY <2>1, <2>2 DEF SoleWorst
    <2>4. total <= Reserve /\ seen \subseteq EntryFiles
        BY <2>1 DEF EvidenceInv
    <2>5. gecosystem # "pypi" =>
            \A f \in Files \ EntryFiles : SoleWorst(f) => StillFirst(f)'
        BY <2>1, <2>4 DEF SoleWorst, StillFirst
    <2>6. QED
        BY <2>1, <2>2, <2>3, <2>5 DEF EvidenceInv, Passes
<1>3. ASSUME NEW f \in Files, Include(f) PROVE EvidenceInv'
    <2>1. gpass = "pth" /\ gecosystem = "pypi" /\ UNCHANGED <<tree, gecosystem>>
        BY <1>3 DEF Include, EvidenceInv
    <2>2. tree[f].size \in Nat
        BY DEF EvidenceInv, FileKind
    <2>3. total' \in Nat
        <3>1. total' \in {total, total + tree[f].size, total + ((MaxCode - total) + Marker)}
            BY <1>3 DEF Include, Show, Skip
        <3>2. total + ((MaxCode - total) + Marker) = MaxCode + Marker
            BY <1>0
        <3>3. QED
            BY <1>0, <2>2, <3>1, <3>2
    <2>4. gpass' = "pth" \/ (gpass' = "convict" /\ gtodo' = Flagged)
        BY <1>3, <2>1 DEF Include, ToConvict
    <2>5. Flagged' = Flagged
        BY <2>1 DEF Flagged
    <2>6. QED
        BY <2>1, <2>3, <2>4, <2>5 DEF EvidenceInv, Passes
<1>4. CASE CompanionsEnd
    <2>1. /\ gpass = "pth" /\ gecosystem = "pypi" /\ gpass' = "convict" /\ gtodo' = Flagged
          /\ UNCHANGED <<tree, gecosystem, total>>
        BY <1>4 DEF CompanionsEnd, ToConvict, EvidenceInv
    <2>2. Flagged' = Flagged
        BY <2>1 DEF Flagged
    <2>3. QED
        BY <2>1, <2>2 DEF EvidenceInv, Passes
<1>5. ASSUME NEW g \in Files, ConvictStep(g) PROVE EvidenceInv'
    <2>1. PICK block \in Nat : block = BlockOf(g) /\ block <= FileCap + Marker
        BY BlockFits DEF EvidenceInv
    <2>2. /\ gpass = "convict" /\ UNCHANGED <<tree, gecosystem, gone>>
          /\ g \in gtodo /\ \A h \in gtodo : tree[g].sev <= tree[h].sev
          /\ seen' = seen \union {g}
        BY <1>5 DEF ConvictStep, WorstFirst
    <2>3. \/ g \in seen \union gone /\ gtodo' = gtodo \ {g} /\ UNCHANGED <<shown, total, gpass>>
          \/ /\ g \notin seen \union gone
             /\ \/ total + block > MaxCode /\ gpass' = "done" /\ gtodo' = {} /\ UNCHANGED <<shown, total>>
                \/ /\ total + block <= MaxCode /\ gtodo' = gtodo \ {g} /\ UNCHANGED gpass
                   /\ shown' = shown \union {g} /\ total' = total + block
        <3>1. total + block > MaxCode \/ total + block <= MaxCode
            BY <1>0
        <3>2. QED
            BY <1>5, <2>1, <3>1 DEF ConvictStep, Skip, Show, LookedAt
    <2>4. EntryFiles' = EntryFiles /\ Flagged' = Flagged
        BY <2>2 DEF EntryFiles, Flagged
    <2>5. \A f : SoleWorst(f)' <=> SoleWorst(f)
        BY <2>2, <2>4 DEF SoleWorst
    <2>6. total' \in Nat /\ gpass' \in Passes
        BY <1>0, <2>2, <2>3 DEF Passes
    <2>7. gpass' = "convict" => gtodo' \subseteq Flagged
        BY <2>2, <2>3 DEF EvidenceInv
    <2>8. ASSUME gecosystem # "pypi", NEW f \in Files \ EntryFiles, SoleWorst(f) PROVE f \in shown' \union gone'
        <3>1. CASE f \in shown \union gone
            BY <2>2, <2>3, <3>1
        <3>2. CASE StillFirst(f)
            <4>1. g = f
                <5>1. g \in Flagged /\ f \in gtodo
                    BY <2>2, <3>2 DEF EvidenceInv, StillFirst
                <5>2. tree[g].sev \in Nat /\ tree[f].sev \in Nat
                    BY DEF EvidenceInv, FileKind, Severities, NoFinding
                <5>3. tree[g].sev <= tree[f].sev
                    BY <2>2, <5>1
                <5>4. QED
                    BY <2>8, <5>1, <5>2, <5>3 DEF SoleWorst
            <4>2. total + block <= MaxCode
                BY <1>0, <2>1, <3>2, ReserveAssumption DEF StillFirst
            <4>3. ~(total + block > MaxCode)
                BY <1>0, <4>2
            <4>4. QED
                BY <2>2, <2>3, <3>2, <4>1, <4>3 DEF StillFirst
        <3>3. QED
            BY <2>2, <2>8, <3>1, <3>2 DEF EvidenceInv
    <2>9. QED
        BY <2>2, <2>3, <2>4, <2>5, <2>6, <2>7, <2>8 DEF EvidenceInv
<1>6. CASE ConvictEnds
    <2>1. /\ gpass = "convict" /\ (total >= MaxCode \/ gtodo = {}) /\ gpass' = "done"
          /\ UNCHANGED <<tree, gecosystem, total, seen, shown, gone>>
        BY <1>6 DEF ConvictEnds
    <2>2. EntryFiles' = EntryFiles /\ Flagged' = Flagged
        BY <2>1 DEF EntryFiles, Flagged
    <2>3. \A f : SoleWorst(f)' <=> SoleWorst(f)
        BY <2>1, <2>2 DEF SoleWorst
    <2>4. \A f \in Files : ~StillFirst(f)
        BY <1>0, <2>1, ReserveAssumption DEF StillFirst
    <2>5. QED
        BY <2>1, <2>2, <2>3, <2>4 DEF EvidenceInv, Passes
<1>7. ASSUME NEW g \in Files, Vanish(g) PROVE EvidenceInv'
    <2>1. gone' = gone \union {g} /\ UNCHANGED <<tree, gecosystem, gpass, gtodo, total, seen, shown>>
        BY <1>7 DEF Vanish
    <2>2. EntryFiles' = EntryFiles /\ Flagged' = Flagged
        BY <2>1 DEF EntryFiles, Flagged
    <2>3. \A f : (SoleWorst(f)' <=> SoleWorst(f)) /\ (StillFirst(f)' <=> StillFirst(f))
        BY <2>1, <2>2 DEF SoleWorst, StillFirst
    <2>4. QED
        BY <2>1, <2>2, <2>3 DEF EvidenceInv
<1>8. CASE UNCHANGED evidenceVars
    BY <1>8 DEF evidenceVars, EvidenceInv, EntryFiles, Flagged, SoleWorst, StillFirst
<1>9. QED
    BY <1>1, <1>2, <1>3, <1>4, <1>5, <1>6, <1>7, <1>8 DEF EvidenceNext

\* For any package, any sizes and caps with room after the reserve, and any files that vanish
\* meanwhile, _gather_source shows the file with the worst finding.
THEOREM WorstFileIsShown == EvidenceSpec => []WorstFileShown
<1>1. EvidenceInv => WorstFileShown
    BY DEF EvidenceInv, WorstFileShown, Worst, SoleWorst
<1>2. QED
    BY <1>1, EvidenceStarts, EvidenceSteps, PTL DEF EvidenceSpec

-----------------------------------------------------------------------------
(* LLM triage                                                              *)

Young(calls) == {i \in DOMAIN calls : calls[i] <= Hour}

\* How many calls of the last hour the deque holds.
LEMMA YoungLength ==
    ASSUME NEW calls \in Seq(Nat)
    PROVE  /\ WithinHour(calls) \in Seq(Nat) /\ Len(WithinHour(calls)) \in Nat
           /\ Young(calls) = {} => Len(WithinHour(calls)) = 0
           /\ Young(calls) # {} =>
                /\ Min(Young(calls)) \in Young(calls)
                /\ \A i \in Young(calls) : Min(Young(calls)) <= i
                /\ WithinHour(calls) = SubSeq(calls, Min(Young(calls)), Len(calls))
                /\ Len(WithinHour(calls)) = Len(calls) - Min(Young(calls)) + 1
<1>1. CASE Young(calls) = {}
    BY <1>1 DEF WithinHour, Young
<1>2. CASE Young(calls) # {}
    <2>1. Young(calls) \in SUBSET Nat
        BY DEF Young
    <2>2. PICK m \in Young(calls) : m = Min(Young(calls)) /\ \A i \in Young(calls) : m <= i
        BY <1>2, <2>1, MinOfNaturals
    <2>3. m \in 1 .. Len(calls) /\ Len(calls) \in Nat
        BY <2>2 DEF Young
    <2>4. WithinHour(calls) = SubSeq(calls, m, Len(calls))
        BY <1>2, <2>2 DEF WithinHour, Young
    <2>5. SubSeq(calls, m, Len(calls)) \in Seq(Nat) /\ Len(SubSeq(calls, m, Len(calls))) = Len(calls) - m + 1
        BY <2>3
    <2>6. QED
        BY <1>2, <2>2, <2>3, <2>4, <2>5
<1>3. QED
    BY <1>1, <1>2

\* Looking twice drops no more.
LEMMA YoungTwice ==
    ASSUME NEW calls \in Seq(Nat)
    PROVE  Len(WithinHour(WithinHour(calls))) = Len(WithinHour(calls))
<1>1. CASE Young(calls) = {}
    <2>1. WithinHour(calls) = <<>>
        BY <1>1 DEF WithinHour, Young
    <2>2. Young(<<>>) = {}
        BY DEF Young
    <2>3. QED
        BY <2>1, <2>2, YoungLength
<1>2. CASE Young(calls) # {}
    <2>1. PICK m \in Young(calls) : m = Min(Young(calls)) /\ WithinHour(calls) = SubSeq(calls, m, Len(calls))
        BY <1>2, YoungLength
    <2>2. m \in 1 .. Len(calls) /\ Len(calls) \in Nat /\ calls[m] <= Hour
        BY <2>1 DEF Young
    <2>3. PICK w \in Seq(Nat) : w = WithinHour(calls)
        BY YoungLength
    <2>4. 1 \in DOMAIN w /\ w[1] = calls[m]
        BY <2>1, <2>2, <2>3
    <2>5. 1 \in Young(w)
        BY <2>2, <2>4 DEF Young
    <2>6. Min(Young(w)) \in Young(w) /\ Min(Young(w)) <= 1 /\ Len(WithinHour(w)) = Len(w) - Min(Young(w)) + 1
        BY <2>5, YoungLength
    <2>7. Young(w) \subseteq 1 .. Len(w)
        BY DEF Young
    <2>8. Min(Young(w)) = 1 /\ Len(w) \in Nat
        BY <2>6, <2>7
    <2>9. QED
        BY <2>3, <2>6, <2>8
<1>3. QED
    BY <1>1, <1>2

\* A call that is recorded counts as one.
LEMMA YoungRecorded ==
    ASSUME NEW calls \in Seq(Nat)
    PROVE  Len(WithinHour(Append(calls, 0))) = Len(WithinHour(calls)) + 1
<1>1. PICK more \in Seq(Nat) : more = Append(calls, 0)
    <2>1. Append(calls, 0) \in Seq(Nat)
        OBVIOUS
    <2>2. QED
        BY <2>1
<1>2. PICK n \in Nat : n = Len(calls)
    OBVIOUS
<1>3. Len(more) = n + 1 /\ more[n + 1] = 0 /\ \A i \in 1 .. n : more[i] = calls[i]
    BY <1>1, <1>2
<1>4. Young(more) = Young(calls) \union {n + 1}
    <2>1. 0 <= Hour
        BY TriageBoundAssumption
    <2>2. DOMAIN more = 1 .. (n + 1) /\ DOMAIN calls = 1 .. n
        BY <1>2, <1>3
    <2>3. QED
        BY <1>2, <1>3, <2>1, <2>2 DEF Young
<1>5. PICK k \in Young(more) : Len(WithinHour(more)) = (n + 1) - k + 1 /\ \A i \in Young(more) : k <= i
    <2>1. Young(more) # {}
        BY <1>4
    <2>2. Min(Young(more)) \in Young(more) /\ Len(WithinHour(more)) = Len(more) - Min(Young(more)) + 1
        BY <2>1, YoungLength
    <2>3. \A i \in Young(more) : Min(Young(more)) <= i
        BY <2>1, YoungLength
    <2>4. QED
        BY <1>3, <2>2, <2>3
<1>6. Young(calls) \subseteq 1 .. n
    BY <1>2 DEF Young
<1>7. CASE Young(calls) = {}
    <2>1. k = n + 1 /\ Len(WithinHour(calls)) = 0
        BY <1>4, <1>5, <1>7, YoungLength
    <2>2. QED
        BY <1>1, <1>5, <2>1
<1>8. CASE Young(calls) # {}
    <2>1. PICK m \in Young(calls) :
            Len(WithinHour(calls)) = n - m + 1 /\ \A i \in Young(calls) : m <= i
        BY <1>2, <1>8, YoungLength
    <2>2. m \in 1 .. n /\ k \in 1 .. (n + 1)
        BY <1>4, <1>5, <1>6, <2>1
    <2>3. k <= m
        BY <1>4, <1>5, <2>1
    <2>4. m <= k
        <3>1. CASE k \in Young(calls)
            BY <2>1, <3>1
        <3>2. CASE k = n + 1
            BY <2>2, <3>2
        <3>3. QED
            BY <1>4, <3>1, <3>2
    <2>5. k = m
        BY <2>2, <2>3, <2>4
    <2>6. QED
        BY <1>1, <1>5, <2>1, <2>2, <2>5
<1>9. QED
    BY <1>7, <1>8

\* The calls that are there only become older.
LEMMA YoungAged ==
    ASSUME NEW calls \in Seq(Nat), NEW aged \in Seq(Nat), Len(aged) = Len(calls),
           \A i \in 1 .. Len(calls) : calls[i] <= aged[i]
    PROVE  Len(WithinHour(aged)) <= Len(WithinHour(calls))
<1>1. Young(aged) \subseteq Young(calls)
    <2> SUFFICES ASSUME NEW i \in Young(aged) PROVE i \in Young(calls)
        OBVIOUS
    <2>1. i \in 1 .. Len(calls) /\ aged[i] <= Hour
        BY DEF Young
    <2>2. calls[i] <= aged[i] /\ calls[i] \in Nat /\ aged[i] \in Nat /\ Hour \in Nat
        BY <2>1, TriageBoundAssumption
    <2>3. QED
        BY <2>1, <2>2 DEF Young
<1>2. Len(WithinHour(calls)) \in Nat
    BY YoungLength
<1>3. CASE Young(aged) = {}
    BY <1>2, <1>3, YoungLength
<1>4. CASE Young(aged) # {}
    <2>1. Young(calls) \subseteq 1 .. Len(calls)
        BY DEF Young
    <2>2. PICK k \in Young(aged) : Len(WithinHour(aged)) = Len(calls) - k + 1
        BY <1>4, YoungLength
    <2>3. PICK m \in Young(calls) : Len(WithinHour(calls)) = Len(calls) - m + 1 /\ \A i \in Young(calls) : m <= i
        BY <1>1, <1>4, YoungLength
    <2>4. m <= k /\ k \in 1 .. Len(calls)
        BY <1>1, <2>1, <2>2, <2>3
    <2>5. QED
        BY <2>1, <2>2, <2>3, <2>4
<1>5. QED
    BY <1>3, <1>4

\* A thread between two attempts has one left, and what it returns rests on evidence.
Cleared(r) ==
    r.rule = "malicious" /\ r.result \in {"benign", "suspicious"} =>
        /\ ~r.reply.cut
        /\ "exact" \notin r.has
        /\ "chain" \in r.has => r.reply.conf = "high"
        /\ "injection" \in r.has => r.result # "benign"
ThreadSound(r) ==
    /\ r \in Thread
    /\ r.at \in {"check", "call"} => r.attempt <= MaxRetries
    /\ Cleared(r)
ThreadsInv == thread \in [Triagers -> Thread] /\ \A t \in Triagers : ThreadSound(thread[t])

LEMMA IdleSound == ThreadSound(IdleThread) /\ IdleThread.at = "idle"
<1>1. Tokens0 \in Nat /\ 0 \in 0 .. MaxRetries + 1
    BY TriageBoundAssumption
<1>2. IdleThread \in Thread
    BY <1>1 DEF IdleThread, Thread, RuleVerdictsAsked, Evidences, LlmVerdicts
<1>3. QED
    BY <1>2 DEF ThreadSound, Cleared, IdleThread

\* fresh of Begin, checked or skipped.
LEMMA BegunSound ==
    ASSUME NEW rule \in RuleVerdictsAsked, NEW has \in Evidences
    PROVE  LET fresh == [IdleThread EXCEPT !.rule = rule, !.has = has]
               skipped == [fresh EXCEPT !.at = "over", !.result = "skipped"]
               begun == [fresh EXCEPT !.at = "check"] IN
           /\ ThreadSound(skipped) /\ skipped.at # "call"
           /\ ThreadSound(begun) /\ begun.at # "call"
<1> DEFINE fresh == [IdleThread EXCEPT !.rule = rule, !.has = has]
           skipped == [fresh EXCEPT !.at = "over", !.result = "skipped"]
           begun == [fresh EXCEPT !.at = "check"]
<1>1. /\ IdleThread \in Thread /\ IdleThread.attempt = 0 /\ MaxRetries \in Nat
      /\ IdleThread.result = "none"
    BY IdleSound, TriageBoundAssumption DEF IdleThread, ThreadSound
<1>2. fresh \in Thread /\ fresh.attempt = 0 /\ fresh.result = "none"
    BY <1>1 DEF Thread
<1> HIDE DEF fresh
<1>3. skipped \in Thread /\ skipped.at = "over" /\ skipped.result = "skipped"
    BY <1>2 DEF Thread
<1>4. begun \in Thread /\ begun.at = "check" /\ begun.attempt = 0 /\ begun.result = "none"
    BY <1>2 DEF Thread
<1> HIDE DEF skipped, begun
<1>5. ThreadSound(skipped) /\ ThreadSound(begun)
    BY <1>1, <1>3, <1>4 DEF ThreadSound, Cleared
<1> USE DEF fresh, skipped, begun
<1>6. QED
    BY <1>3, <1>4, <1>5

\* The attempt after this one is within the limit, or the triage is over with an error.
LEMMA AgainSound ==
    ASSUME NEW t \in Triagers, ThreadsInv, thread[t].at = "call", NEW tokens \in Nat
    PROVE  ThreadSound(Again(t, tokens)) /\ Again(t, tokens).at # "call"
<1>1. PICK r \in Thread : r = thread[t] /\ r.attempt <= MaxRetries
    BY DEF ThreadsInv, ThreadSound
<1>2. PICK n \in Nat : n = r.attempt + 1
    BY <1>1 DEF Thread
<1>3. n \in 0 .. MaxRetries + 1
    BY <1>1, <1>2, TriageBoundAssumption DEF Thread
<1> DEFINE q == [r EXCEPT !.attempt = n, !.tokens = tokens,
                    !.at = IF n > MaxRetries THEN "over" ELSE "check",
                    !.result = IF n > MaxRetries THEN "error" ELSE "none"]
<1>4. Again(t, tokens) = q
    BY <1>1, <1>2 DEF Again
<1>5. q \in Thread /\ q.attempt = n /\ q.at = (IF n > MaxRetries THEN "over" ELSE "check")
      /\ q.result \notin {"benign", "suspicious"}
    BY <1>1, <1>3 DEF Thread
<1>6. QED
    BY <1>2, <1>3, <1>4, <1>5, TriageBoundAssumption DEF ThreadSound, Cleared

LEMMA EscalatedNat == ASSUME NEW n \in Nat PROVE Escalated(n) \in Nat
<1>1. (n * 3) \div 2 \in Nat
    OBVIOUS
<1>2. QED
    BY <1>1, TriageBoundAssumption DEF Escalated

\* _enforce_no_downgrade on a reply that is trusted.
LEMMA EndedSound ==
    ASSUME NEW t \in Triagers, ThreadsInv, NEW reply \in Replies \union {NoReply},
           NEW verdict \in LlmVerdicts \union {"none", "error", "skipped"},
           \/ verdict \in {"none", "error"}
           \/ /\ Trusted(reply)
              /\ verdict = EnforceNoDowngrade(reply.verdict, reply.conf, thread[t].rule, thread[t].has)
    PROVE  ThreadSound(Ended(t, reply, verdict)) /\ Ended(t, reply, verdict).at = "over"
<1>1. PICK r \in Thread : r = thread[t]
    BY DEF ThreadsInv
<1> DEFINE q == [r EXCEPT !.at = "over", !.reply = reply, !.result = verdict]
<1>2. Ended(t, reply, verdict) = q
    BY <1>1 DEF Ended
<1>3. q \in Thread /\ q.at = "over" /\ q.reply = reply /\ q.result = verdict /\ q.rule = r.rule /\ q.has = r.has
    BY DEF Thread
<1>4. Cleared(q)
    <2> HIDE DEF q
    <2>1. CASE verdict \in {"none", "error"}
        BY <1>3, <2>1 DEF Cleared
    <2>2. CASE Trusted(reply) /\ verdict = EnforceNoDowngrade(reply.verdict, reply.conf, r.rule, r.has)
        <3> SUFFICES ASSUME r.rule = "malicious", verdict \in {"benign", "suspicious"}
                     PROVE  /\ ~reply.cut
                            /\ "exact" \notin r.has
                            /\ "chain" \in r.has => reply.conf = "high"
                            /\ "injection" \in r.has => verdict # "benign"
            BY <1>3 DEF Cleared
        <3>1. verdict = reply.verdict
            BY <2>2 DEF EnforceNoDowngrade
        <3>2. QED
            BY <2>2, <3>1 DEF EnforceNoDowngrade, Trusted
    <2>3. QED
        BY <1>1, <2>1, <2>2
<1>5. QED
    BY <1>2, <1>3, <1>4 DEF ThreadSound

-----------------------------------------------------------------------------
(* Its budget                                                              *)

Flying == {t \in Triagers : thread[t].at = "call"}
TopCost == CHOOSE c \in CallCosts : \A d \in CallCosts : d <= c

CallsHold == Len(WithinHour(callTimes)) + Cardinality(Flying) <= MaxCalls + Cardinality(Triagers) - 1
DollarsHold ==
    MaxUsd > 0 => spent + TopCost * Cardinality(Flying) <= MaxUsd - 1 + TopCost * Cardinality(Triagers)

LEMMA BudgetIsBoth == BudgetHolds <=> CallsHold /\ DollarsHold
BY DEF BudgetHolds, CallsHold, DollarsHold, Flying, TopCost

LEMMA TopCostIs == TopCost \in Nat /\ \A d \in CallCosts : d \in Nat /\ d <= TopCost
BY TriageBoundAssumption DEF TopCost

LEMMA FlyingCount ==
    /\ IsFiniteSet(Flying) /\ Cardinality(Flying) \in Nat /\ Cardinality(Triagers) \in Nat
    /\ Cardinality(Flying) <= Cardinality(Triagers) /\ Cardinality(Triagers) >= 1
<1>1. Flying \subseteq Triagers /\ IsFiniteSet(Triagers) /\ Triagers # {}
    BY TriageBoundAssumption DEF Flying
<1>2. IsFiniteSet(Flying) /\ Cardinality(Flying) <= Cardinality(Triagers)
    BY <1>1, FS_Subset
<1>3. Cardinality(Flying) \in Nat /\ Cardinality(Triagers) \in Nat
    BY <1>1, <1>2, FS_CardinalityType
<1>4. Cardinality(Triagers) # 0
    BY <1>1, FS_EmptySet
<1>5. QED
    BY <1>2, <1>3, <1>4

LEMMA Times == \A c, a, b \in Nat : a <= b => c * a <= c * b
<1> TAKE c, a, b \in Nat
<1> HAVE a <= b
<1>1. PICK d \in Nat : b = a + d
    <2>1. b - a \in Nat /\ b = a + (b - a)
        OBVIOUS
    <2>2. QED
        BY <2>1
<1>2. c * (a + d) = c * a + c * d /\ c * d \in Nat /\ c * a \in Nat
    OBVIOUS
<1>3. QED
    BY <1>1, <1>2

TriageInv == ThreadsInv /\ spent \in Nat /\ callTimes \in Seq(Nat) /\ CallsHold /\ DollarsHold

LEMMA TriageStarts == TriageInit => TriageInv
<1> SUFFICES ASSUME TriageInit PROVE TriageInv
    OBVIOUS
<1>1. thread = [t \in Triagers |-> IdleThread] /\ spent = 0 /\ callTimes = <<>>
    BY DEF TriageInit
<1>2. ThreadsInv
    BY <1>1, IdleSound DEF ThreadsInv, ThreadSound
<1>3. Flying = {} /\ Cardinality(Flying) = 0
    <2>1. Flying = {}
        BY <1>1, IdleSound DEF Flying
    <2>2. QED
        BY <2>1, FS_EmptySet
<1>4. callTimes \in Seq(Nat) /\ Young(callTimes) = {}
    BY <1>1 DEF Young
<1>5. Len(WithinHour(callTimes)) = 0
    BY <1>4, YoungLength
<1>6. CallsHold
    BY <1>3, <1>5, FlyingCount, TriageBoundAssumption DEF CallsHold
<1>7. TopCost * 0 = 0 /\ TopCost * Cardinality(Triagers) \in Nat
    BY TopCostIs, FlyingCount
<1>8. DollarsHold
    BY <1>1, <1>3, <1>7, TriageBoundAssumption DEF DollarsHold
<1>9. QED
    BY <1>1, <1>2, <1>4, <1>6, <1>8 DEF TriageInv

\* A thread moves on; what that means for the calls in flight.
LEMMA ThreadMoves ==
    ASSUME ThreadsInv, NEW t \in Triagers, NEW q, ThreadSound(q), thread' = [thread EXCEPT ![t] = q]
    PROVE  /\ ThreadsInv'
           /\ q.at # "call" /\ thread[t].at # "call" => Flying' = Flying
           /\ q.at # "call" /\ thread[t].at = "call" => Cardinality(Flying') = Cardinality(Flying) - 1
<1>1. q \in Thread /\ thread \in [Triagers -> Thread]
    BY DEF ThreadSound, ThreadsInv
<1>2. ThreadsInv'
    <2>1. thread' \in [Triagers -> Thread]
        BY <1>1
    <2>2. ASSUME NEW o \in Triagers PROVE ThreadSound(thread'[o])
        BY <1>1 DEF ThreadsInv
    <2>3. QED
        BY <2>1, <2>2 DEF ThreadsInv, ThreadSound, Cleared
<1>3. q.at # "call" => Flying' = Flying \ {t}
    BY <1>1 DEF Flying
<1>4. thread[t].at # "call" => Flying \ {t} = Flying
    BY DEF Flying
<1>5. thread[t].at = "call" => t \in Flying
    BY DEF Flying
<1>6. t \in Flying => Cardinality(Flying \ {t}) = Cardinality(Flying) - 1
    BY FlyingCount, FS_RemoveElement
<1>7. QED
    BY <1>2, <1>3, <1>4, <1>5, <1>6

\* _check_budget changes nothing that counts.
LEMMA BudgetChecked ==
    ASSUME callTimes \in Seq(Nat), CheckBudget
    PROVE  callTimes' \in Seq(Nat) /\ Len(WithinHour(callTimes')) = Len(WithinHour(callTimes))
BY YoungLength, YoungTwice DEF CheckBudget

\* _record_call adds what the call has cost.
LEMMA CallRecorded ==
    ASSUME TriageInv, NEW t \in Triagers, thread[t].at = "call", NEW q, ThreadSound(q), q.at # "call",
           NEW cost \in Nat, cost <= TopCost, RecordCall(cost), Put(t, q)
    PROVE  TriageInv'
<1>1. ThreadsInv' /\ Cardinality(Flying') = Cardinality(Flying) - 1
    BY ThreadMoves DEF TriageInv, Put
<1>2. spent' = spent + cost /\ callTimes' = Append(callTimes, 0) /\ spent \in Nat /\ callTimes \in Seq(Nat)
    BY DEF RecordCall, TriageInv
<1>3. spent' \in Nat /\ callTimes' \in Seq(Nat)
    <2>1. Append(callTimes, 0) \in Seq(Nat)
        BY <1>2
    <2>2. QED
        BY <1>2, <2>1
<1>4. Len(WithinHour(callTimes')) = Len(WithinHour(callTimes)) + 1 /\ Len(WithinHour(callTimes)) \in Nat
    BY <1>2, YoungRecorded, YoungLength
<1>5. CallsHold'
    BY <1>1, <1>4, FlyingCount, TriageBoundAssumption DEF CallsHold, TriageInv
<1>6. DollarsHold'
    <2>1. PICK n \in Nat : n = Cardinality(Flying') /\ Cardinality(Flying) = n + 1
        <3>1. t \in Flying
            BY DEF Flying
        <3>2. Cardinality(Flying) # 0
            BY <3>1, FlyingCount, FS_EmptySet
        <3>3. QED
            BY <1>1, <3>2, FlyingCount
    <2>2. \A c \in Nat : c * (n + 1) = c * n + c /\ c * n \in Nat
        OBVIOUS
    <2>3. TopCost * (n + 1) = TopCost * n + TopCost /\ TopCost * n \in Nat /\ TopCost * Cardinality(Triagers) \in Nat
        BY <2>2, TopCostIs, FlyingCount
    <2>4. MaxUsd > 0 => spent + TopCost * (n + 1) <= MaxUsd - 1 + TopCost * Cardinality(Triagers)
        BY <2>1 DEF TriageInv, DollarsHold
    <2>5. MaxUsd > 0 => spent' + TopCost * n <= MaxUsd - 1 + TopCost * Cardinality(Triagers)
        <3>1. PICK x \in Nat : x = TopCost * n
            BY <2>3
        <3>2. PICK y \in Nat : y = TopCost * Cardinality(Triagers)
            BY <2>3
        <3>3. TopCost * (n + 1) = x + TopCost /\ TopCost \in Nat /\ MaxUsd \in Nat
            BY <2>3, <3>1, TopCostIs, TriageBoundAssumption
        <3>4. MaxUsd > 0 => spent + (x + TopCost) <= MaxUsd - 1 + y
            BY <2>4, <3>2, <3>3
        <3>5. MaxUsd > 0 => (spent + cost) + x <= MaxUsd - 1 + y
            BY <1>2, <3>3, <3>4
        <3>6. QED
            BY <1>2, <3>1, <3>2, <3>5
    <2>6. QED
        BY <2>1, <2>5 DEF DollarsHold, TopCost
<1>7. QED
    BY <1>1, <1>3, <1>5, <1>6 DEF TriageInv

LEMMA TriageSteps == TriageInv /\ [TriageNext]_triageVars => TriageInv'
<1> SUFFICES ASSUME TriageInv, [TriageNext]_triageVars PROVE TriageInv'
    OBVIOUS
<1> USE DEF TriageInv
<1>1. CASE HourPasses
    <2>1. PICK n \in Nat : n = Len(callTimes)
        OBVIOUS
    <2>2. /\ DOMAIN callTimes = 1 .. n /\ UNCHANGED <<thread, spent>>
          /\ callTimes' = [i \in 1 .. n |-> IF callTimes[i] <= Hour THEN callTimes[i] + 1 ELSE callTimes[i]]
        BY <1>1, <2>1 DEF HourPasses
    <2>3. \A i \in 1 .. n : callTimes[i] \in Nat
        BY <2>1
    <2>4. callTimes' \in Seq(Nat) /\ Len(callTimes') = Len(callTimes)
        BY <2>1, <2>2, <2>3
    <2>5. \A i \in 1 .. Len(callTimes) : callTimes[i] <= callTimes'[i]
        BY <2>1, <2>2, <2>3
    <2>6. Len(WithinHour(callTimes')) <= Len(WithinHour(callTimes))
        BY <2>4, <2>5, YoungAged
    <2>7. Len(WithinHour(callTimes')) \in Nat /\ Len(WithinHour(callTimes)) \in Nat
        BY <2>4, YoungLength
    <2>8. Flying' = Flying /\ ThreadsInv'
        BY <2>2 DEF Flying, ThreadsInv, ThreadSound, Cleared
    <2>9. CallsHold'
        BY <2>6, <2>7, <2>8, FlyingCount, TriageBoundAssumption DEF CallsHold
    <2>10. QED
        BY <2>2, <2>4, <2>8, <2>9 DEF DollarsHold, TopCost
<1>2. ASSUME NEW t \in Triagers, NEW case \in TriageCases, Begin(t, case[1], case[2]) PROVE TriageInv'
    <2>1. case[1] \in RuleVerdictsAsked /\ case[2] \in Evidences
        BY TriageCasesAssumption
    <2>2. PICK q : ThreadSound(q) /\ q.at # "call" /\ Put(t, q)
        <3> DEFINE fresh == [IdleThread EXCEPT !.rule = case[1], !.has = case[2]]
                   skipped == [fresh EXCEPT !.at = "over", !.result = "skipped"]
                   begun == [fresh EXCEPT !.at = "check"]
        <3>1. Put(t, skipped) \/ Put(t, begun)
            BY <1>2 DEF Begin
        <3>2. /\ ThreadSound(skipped) /\ skipped.at # "call"
              /\ ThreadSound(begun) /\ begun.at # "call"
            BY <2>1, BegunSound
        <3> HIDE DEF fresh, skipped, begun
        <3>3. QED
            BY <3>1, <3>2
    <2>3. thread[t].at # "call" /\ CheckBudget /\ spent' = spent
        BY <1>2 DEF Begin
    <2>4. ThreadsInv' /\ Flying' = Flying
        BY <2>2, <2>3, ThreadMoves DEF Put
    <2>5. QED
        BY <2>3, <2>4, BudgetChecked DEF CallsHold, DollarsHold, TopCost
<1>3. ASSUME NEW t \in Triagers, CheckBeforeCall(t) PROVE TriageInv'
    <2>1. thread[t].at = "check" /\ CheckBudget /\ spent' = spent
        BY <1>3 DEF CheckBeforeCall
    <2>2. callTimes' \in Seq(Nat) /\ Len(WithinHour(callTimes')) = Len(WithinHour(callTimes))
        BY <2>1, BudgetChecked
    <2>3. CASE BudgetBlocked
        <3>1. PICK q : ThreadSound(q) /\ q.at # "call" /\ Put(t, q)
            <4>1. ThreadSound(Ended(t, NoReply, "error")) /\ Ended(t, NoReply, "error").at = "over"
                BY EndedSound
            <4>2. QED
                BY <1>3, <2>3, <4>1 DEF CheckBeforeCall
        <3>2. ThreadsInv' /\ Flying' = Flying
            BY <2>1, <3>1, ThreadMoves DEF Put
        <3>3. QED
            BY <2>1, <2>2, <3>2 DEF CallsHold, DollarsHold, TopCost
    <2>4. CASE ~BudgetBlocked
        <3>1. PICK r \in Thread : r = thread[t] /\ ThreadSound(r)
            BY DEF ThreadsInv
        <3> DEFINE q == [r EXCEPT !.at = "call"]
        <3>2. q \in Thread /\ q.at = "call"
            BY DEF Thread
        <3>3. q.rule = r.rule /\ q.result = r.result /\ q.reply = r.reply /\ q.has = r.has /\ q.attempt = r.attempt
            BY DEF Thread
        <3>4. ThreadSound(q)
            BY <2>1, <3>1, <3>2, <3>3 DEF ThreadSound, Cleared
        <3>5. Put(t, q)
            BY <1>3, <2>4, <3>1 DEF CheckBeforeCall
        <3>6. ThreadsInv'
            BY <3>4, <3>5, ThreadMoves DEF Put
        <3>7. spent < MaxUsd /\ Len(WithinHour(callTimes)) < MaxCalls /\ Len(WithinHour(callTimes)) \in Nat
            BY <2>4, YoungLength, TriageBoundAssumption DEF BudgetBlocked
        <3>8. Cardinality(Flying') \in Nat /\ Cardinality(Flying') <= Cardinality(Triagers)
            <4>1. Flying' \subseteq Triagers /\ IsFiniteSet(Triagers)
                BY TriageBoundAssumption DEF Flying
            <4>2. IsFiniteSet(Flying') /\ Cardinality(Flying') <= Cardinality(Triagers)
                BY <4>1, FS_Subset
            <4>3. QED
                BY <4>2, FS_CardinalityType
        <3>9. CallsHold'
            BY <2>2, <3>7, <3>8, FlyingCount, TriageBoundAssumption DEF CallsHold
        <3>10. TopCost * Cardinality(Flying') <= TopCost * Cardinality(Triagers)
               /\ TopCost * Cardinality(Flying') \in Nat /\ TopCost * Cardinality(Triagers) \in Nat
            BY <3>8, Times, TopCostIs, FlyingCount
        <3>11. spent + TopCost * Cardinality(Flying') <= MaxUsd - 1 + TopCost * Cardinality(Triagers)
            BY <3>7, <3>10, TriageBoundAssumption
        <3>12. DollarsHold'
            BY <2>1, <3>11 DEF DollarsHold, TopCost
        <3>13. QED
            BY <2>1, <2>2, <3>6, <3>9, <3>12
    <2>5. QED
        BY <2>3, <2>4
<1>4. ASSUME NEW t \in Triagers, CallFails(t) PROVE TriageInv'
    <2>1. thread[t].at = "call" /\ RecordCall(0) /\ Put(t, Again(t, thread[t].tokens))
        BY <1>4 DEF CallFails
    <2>2. thread[t].tokens \in Nat /\ 0 \in Nat /\ 0 <= TopCost
        BY TopCostIs DEF ThreadsInv, Thread
    <2>3. ThreadSound(Again(t, thread[t].tokens)) /\ Again(t, thread[t].tokens).at # "call"
        BY <2>1, <2>2, AgainSound
    <2>4. QED
        BY <2>1, <2>2, <2>3, CallRecorded
<1>5. ASSUME NEW t \in Triagers, NEW reply \in Replies, NEW cost \in CallCosts, Reply(t, reply, cost)
      PROVE  TriageInv'
    <2>1. thread[t].at = "call" /\ RecordCall(cost)
        BY <1>5 DEF Reply
    <2>2. thread[t].tokens \in Nat /\ cost \in Nat /\ cost <= TopCost
        BY TopCostIs DEF ThreadsInv, Thread
    <2>3. PICK q : ThreadSound(q) /\ q.at # "call" /\ Put(t, q)
        <3> DEFINE verdict == EnforceNoDowngrade(reply.verdict, reply.conf, thread[t].rule, thread[t].has)
                   tokens == IF reply.cut /\ reply.verdict # "unknown" THEN Escalated(thread[t].tokens)
                             ELSE thread[t].tokens
        <3>1. CASE reply.verdict = "noobject"
            <4>1. ThreadSound(Ended(t, NoReply, "none")) /\ Ended(t, NoReply, "none").at = "over"
                BY EndedSound
            <4>2. QED
                BY <1>5, <3>1, <4>1 DEF Reply
        <3>2. CASE reply.verdict # "noobject" /\ Trusted(reply)
            <4>1. thread[t].rule \in RuleVerdictsAsked
                BY DEF ThreadsInv, Thread
            <4>2. verdict \in LlmVerdicts
                BY <3>2, <4>1 DEF EnforceNoDowngrade, Trusted, LlmVerdicts, RuleVerdictsAsked
            <4>3. ThreadSound(Ended(t, reply, verdict)) /\ Ended(t, reply, verdict).at = "over"
                BY <3>2, <4>2, EndedSound
            <4>4. QED
                BY <1>5, <3>2, <4>3 DEF Reply
        <3>3. CASE reply.verdict # "noobject" /\ ~Trusted(reply)
            <4>1. tokens \in Nat
                BY <2>2, EscalatedNat
            <4>2. ThreadSound(Again(t, tokens)) /\ Again(t, tokens).at # "call"
                <5> HIDE DEF tokens
                <5>1. QED
                    BY <2>1, <4>1, AgainSound
            <4>3. QED
                BY <1>5, <3>3, <4>2 DEF Reply
        <3>4. QED
            BY <3>1, <3>2, <3>3
    <2>4. QED
        BY <2>1, <2>2, <2>3, CallRecorded
<1>6. CASE UNCHANGED triageVars
    BY <1>6 DEF triageVars, ThreadsInv, ThreadSound, Cleared, CallsHold, DollarsHold, Flying, TopCost
<1>7. QED
    BY <1>1, <1>2, <1>3, <1>4, <1>5, <1>6 DEF TriageNext

LEMMA TriageInvariant == TriageSpec => []TriageInv
BY TriageStarts, TriageSteps, PTL DEF TriageSpec

\* Whatever the number of threads, retries, failures and replies, the spending of triage() is within
\* the budget but for the calls in flight, one per thread.
THEOREM BudgetIsHeld == TriageSpec => []BudgetHolds
<1>1. TriageInv => BudgetHolds
    BY BudgetIsBoth DEF TriageInv
<1>2. QED
    BY <1>1, TriageInvariant, PTL

\* _enforce_no_downgrade, with what triage() does around it, clears a convicted package on
\* evidence only.
THEOREM ClearedOnEvidenceOnly == TriageSpec => []ClearedOnEvidence
<1>1. TriageInv => ClearedOnEvidence
    BY DEF TriageInv, ThreadsInv, ThreadSound, Cleared, ClearedOnEvidence
<1>2. QED
    BY <1>1, TriageInvariant, PTL

-----------------------------------------------------------------------------
(* The score: no finding takes points away                                  *)

ScoringFold(it, s) ==
    it = [d \in SUBSET DOMAIN s |-> IF d = {} THEN <<>> ELSE KeepScoring(it[d \ {Max(d)}], s[Max(d)])]

\* What NotShadow has kept after the first k findings.
LEMMA ScoringFolds ==
    ASSUME NEW s \in Seq(Finding)
    PROVE  \E r : /\ r[0] = <<>>
                  /\ \A k \in 1 .. Len(s) : r[k] = KeepScoring(r[k - 1], s[k])
                  /\ NotShadow(s) = r[Len(s)]
<1> DEFINE V == Seq(Finding)
           step == [x \in V \X Finding |-> KeepScoring(x[1], x[2])]
           F == CHOOSE i : ScoringFold(i, s)
           r == [k \in 0 .. Len(s) |-> F[1 .. k]]
<1>1. <<>> \in V /\ DOMAIN s = 1 .. Len(s) /\ Len(s) \in Nat
    OBVIOUS
<1>2. step \in [V \X Finding -> V]
    BY DEF KeepScoring
<1>3. PICK it \in [SUBSET DOMAIN s -> V] :
        /\ it[{}] = <<>>
        /\ \A d \in SUBSET DOMAIN s :
            d # {} => it[d] = step[<<it[d \ {Max(d)}], s[Max(d)]>>] /\ Max(d) \in d
    <2> HIDE DEF V, step
    <2> QED
        BY <1>1, <1>2, LeftFoldExists
<1>4. ASSUME NEW d \in SUBSET DOMAIN s, d # {} PROVE it[d] = KeepScoring(it[d \ {Max(d)}], s[Max(d)])
    <2>1. Max(d) \in d /\ d \ {Max(d)} \in SUBSET DOMAIN s
        BY <1>3, <1>4
    <2>2. <<it[d \ {Max(d)}], s[Max(d)]>> \in V \X Finding
        BY <1>3, <2>1
    <2>3. QED
        BY <1>3, <1>4, <2>2
<1>5. ScoringFold(it, s)
    BY <1>3, <1>4 DEF ScoringFold
<1>6. ScoringFold(F, s)
    BY <1>5
<1>7. NotShadow(s) = F[DOMAIN s]
    BY Zenon DEF NotShadow, FoldLeft, MapThenFoldSet, ScoringFold
<1> HIDE DEF F
<1>8. F[{}] = <<>>
    BY <1>6 DEF ScoringFold
<1>9. ASSUME NEW k \in 1 .. Len(s) PROVE F[1 .. k] = KeepScoring(F[1 .. (k - 1)], s[k])
    <2>1. k \in Nat /\ k # 0 /\ 1 .. k \in SUBSET DOMAIN s
        BY <1>1
    <2>2. 1 .. k # {} /\ Max(1 .. k) = k /\ (1 .. k) \ {k} = 1 .. (k - 1)
        BY <2>1, PrefixMax
    <2>3. F[1 .. k] = KeepScoring(F[(1 .. k) \ {Max(1 .. k)}], s[Max(1 .. k)])
        BY <1>6, <2>1, <2>2 DEF ScoringFold
    <2>4. QED
        BY <2>2, <2>3
<1>10. r[0] = <<>>
    <2>1. 0 \in 0 .. Len(s) /\ 1 .. 0 = {}
        BY <1>1
    <2>2. QED
        BY <1>8, <2>1
<1>11. \A k \in 1 .. Len(s) : r[k] = KeepScoring(r[k - 1], s[k])
    <2> TAKE k \in 1 .. Len(s)
    <2>1. k \in 0 .. Len(s) /\ k - 1 \in 0 .. Len(s)
        BY <1>1
    <2>2. QED
        BY <1>9, <2>1
<1>12. r[Len(s)] = F[DOMAIN s]
    BY <1>1
<1>13. QED
    <2> HIDE DEF r
    <2> QED
        BY <1>7, <1>10, <1>11, <1>12

LEMMA ScoringNone == NotShadow(<<>>) = <<>>
<1>1. <<>> \in Seq(Finding) /\ Len(<<>>) = 0
    OBVIOUS
<1>2. QED
    BY <1>1, ScoringFolds

LEMMA ScoringSteps ==
    ASSUME NEW s \in Seq(Finding), NEW e \in Finding
    PROVE  NotShadow(Append(s, e)) = KeepScoring(NotShadow(s), e)
<1> DEFINE q == Append(s, e)
           n == Len(s)
<1>1. /\ q \in Seq(Finding) /\ Len(q) = n + 1 /\ q[n + 1] = e /\ n \in Nat
      /\ \A k \in 1 .. n : q[k] = s[k]
    OBVIOUS
<1> HIDE DEF q
<1>3. PICK r : r[0] = <<>> /\ (\A k \in 1 .. n : r[k] = KeepScoring(r[k - 1], s[k])) /\ NotShadow(s) = r[n]
    BY ScoringFolds
<1>4. PICK t : /\ t[0] = <<>>
               /\ \A k \in 1 .. (n + 1) : t[k] = KeepScoring(t[k - 1], q[k])
               /\ NotShadow(q) = t[n + 1]
    BY <1>1, ScoringFolds
<1> DEFINE P == {k \in Nat : k <= n => r[k] = t[k]}
<1>5. 0 \in P
    BY <1>3, <1>4
<1>6. ASSUME NEW k \in P PROVE k + 1 \in P
    <2>1. k \in Nat /\ (k <= n => r[k] = t[k])
        BY <1>6
    <2>2. SUFFICES ASSUME k + 1 <= n PROVE r[k + 1] = t[k + 1]
        BY <2>1
    <2>3. k + 1 \in 1 .. n /\ k + 1 \in 1 .. (n + 1) /\ (k + 1) - 1 = k /\ k <= n
        BY <1>1, <2>1, <2>2
    <2>4. r[k + 1] = KeepScoring(r[k], s[k + 1]) /\ t[k + 1] = KeepScoring(t[k], q[k + 1])
        BY <1>3, <1>4, <2>3
    <2>5. QED
        BY <1>1, <2>1, <2>3, <2>4
<1>7. P = Nat
    <2>1. P \in SUBSET Nat
        OBVIOUS
    <2> HIDE DEF P
    <2> QED
        BY <1>5, <1>6, <2>1, EveryNatural
<1>8. r[n] = t[n]
    BY <1>1, <1>7
<1>9. n + 1 \in 1 .. (n + 1) /\ (n + 1) - 1 = n
    BY <1>1
<1>10. t[n + 1] = KeepScoring(t[n], e)
    BY <1>1, <1>4, <1>9
<1>11. QED
    BY <1>3, <1>4, <1>8, <1>10 DEF q
NoPoints(B) == [b \in B |-> 0]
Points(B) == [B -> 0 .. CategoryCap]
PointsOf(B, s) == FoldLeft(AddPoints, NoPoints(B), s)

LEMMA PointsTyped ==
    ASSUME NEW B, NEW p \in Points(B), NEW f \in Finding
    PROVE  AddPoints(p, f) \in Points(B)
<1>1. Weights[f.sev] \in Nat /\ CategoryCap \in Nat
    BY JudgementAssumption, FindingAssumption DEF Finding
<1>2. ASSUME NEW x \in 0 .. CategoryCap PROVE SmallerOf(x + Weights[f.sev], CategoryCap) \in 0 .. CategoryCap
    BY <1>1, <1>2 DEF SmallerOf
<1>3. QED
    BY <1>2 DEF AddPoints, Points

PointsFold(it, B, s) ==
    it = [d \in SUBSET DOMAIN s |-> IF d = {} THEN NoPoints(B) ELSE AddPoints(it[d \ {Max(d)}], s[Max(d)])]

\* The points of the buckets after the first k findings.
LEMMA PointsFolds ==
    ASSUME NEW B, NEW s \in Seq(Finding)
    PROVE  \E r : /\ r[0] = NoPoints(B)
                  /\ \A k \in 1 .. Len(s) : r[k] = AddPoints(r[k - 1], s[k])
                  /\ PointsOf(B, s) = r[Len(s)]
<1> DEFINE V == Points(B)
           step == [x \in V \X Finding |-> AddPoints(x[1], x[2])]
           F == CHOOSE i : PointsFold(i, B, s)
           r == [k \in 0 .. Len(s) |-> F[1 .. k]]
<1>1. NoPoints(B) \in V /\ DOMAIN s = 1 .. Len(s) /\ Len(s) \in Nat
    BY JudgementAssumption DEF NoPoints, Points
<1>2. step \in [V \X Finding -> V]
    BY PointsTyped
<1>3. PICK it \in [SUBSET DOMAIN s -> V] :
        /\ it[{}] = NoPoints(B)
        /\ \A d \in SUBSET DOMAIN s :
            d # {} => it[d] = step[<<it[d \ {Max(d)}], s[Max(d)]>>] /\ Max(d) \in d
    <2> HIDE DEF V, step
    <2> QED
        BY <1>1, <1>2, LeftFoldExists
<1>4. ASSUME NEW d \in SUBSET DOMAIN s, d # {} PROVE it[d] = AddPoints(it[d \ {Max(d)}], s[Max(d)])
    <2>1. Max(d) \in d /\ d \ {Max(d)} \in SUBSET DOMAIN s
        BY <1>3, <1>4
    <2>2. <<it[d \ {Max(d)}], s[Max(d)]>> \in V \X Finding
        BY <1>3, <2>1
    <2>3. QED
        BY <1>3, <1>4, <2>2
<1>5. PointsFold(it, B, s)
    BY <1>3, <1>4 DEF PointsFold
<1>6. PointsFold(F, B, s)
    BY <1>5
<1>7. PointsOf(B, s) = F[DOMAIN s]
    BY Zenon DEF PointsOf, FoldLeft, MapThenFoldSet, PointsFold
<1> HIDE DEF F
<1>8. F[{}] = NoPoints(B)
    BY <1>6 DEF PointsFold
<1>9. ASSUME NEW k \in 1 .. Len(s) PROVE F[1 .. k] = AddPoints(F[1 .. (k - 1)], s[k])
    <2>1. k \in Nat /\ k # 0 /\ 1 .. k \in SUBSET DOMAIN s
        BY <1>1
    <2>2. 1 .. k # {} /\ Max(1 .. k) = k /\ (1 .. k) \ {k} = 1 .. (k - 1)
        BY <2>1, PrefixMax
    <2>3. F[1 .. k] = AddPoints(F[(1 .. k) \ {Max(1 .. k)}], s[Max(1 .. k)])
        BY <1>6, <2>1, <2>2 DEF PointsFold
    <2>4. QED
        BY <2>2, <2>3
<1>10. r[0] = NoPoints(B)
    <2>1. 0 \in 0 .. Len(s) /\ 1 .. 0 = {}
        BY <1>1
    <2>2. QED
        BY <1>8, <2>1
<1>11. \A k \in 1 .. Len(s) : r[k] = AddPoints(r[k - 1], s[k])
    <2> TAKE k \in 1 .. Len(s)
    <2>1. k \in 0 .. Len(s) /\ k - 1 \in 0 .. Len(s)
        BY <1>1
    <2>2. QED
        BY <1>9, <2>1
<1>12. r[Len(s)] = F[DOMAIN s]
    BY <1>1
<1>13. QED
    <2> HIDE DEF r
    <2> QED
        BY <1>7, <1>10, <1>11, <1>12

LEMMA PointsNone == ASSUME NEW B PROVE PointsOf(B, <<>>) = NoPoints(B)
<1>1. <<>> \in Seq(Finding) /\ Len(<<>>) = 0
    OBVIOUS
<1>2. QED
    BY <1>1, PointsFolds

LEMMA PointsSteps ==
    ASSUME NEW B, NEW s \in Seq(Finding), NEW e \in Finding
    PROVE  PointsOf(B, Append(s, e)) = AddPoints(PointsOf(B, s), e)
<1> DEFINE q == Append(s, e)
           n == Len(s)
<1>1. /\ q \in Seq(Finding) /\ Len(q) = n + 1 /\ q[n + 1] = e /\ n \in Nat
      /\ \A k \in 1 .. n : q[k] = s[k]
    OBVIOUS
<1> HIDE DEF q
<1>3. PICK r : r[0] = NoPoints(B) /\ (\A k \in 1 .. n : r[k] = AddPoints(r[k - 1], s[k])) /\ PointsOf(B, s) = r[n]
    BY PointsFolds
<1>4. PICK t : /\ t[0] = NoPoints(B)
               /\ \A k \in 1 .. (n + 1) : t[k] = AddPoints(t[k - 1], q[k])
               /\ PointsOf(B, q) = t[n + 1]
    BY <1>1, PointsFolds
<1> DEFINE P == {k \in Nat : k <= n => r[k] = t[k]}
<1>5. 0 \in P
    BY <1>3, <1>4
<1>6. ASSUME NEW k \in P PROVE k + 1 \in P
    <2>1. k \in Nat /\ (k <= n => r[k] = t[k])
        BY <1>6
    <2>2. SUFFICES ASSUME k + 1 <= n PROVE r[k + 1] = t[k + 1]
        BY <2>1
    <2>3. k + 1 \in 1 .. n /\ k + 1 \in 1 .. (n + 1) /\ (k + 1) - 1 = k /\ k <= n
        BY <1>1, <2>1, <2>2
    <2>4. r[k + 1] = AddPoints(r[k], s[k + 1]) /\ t[k + 1] = AddPoints(t[k], q[k + 1])
        BY <1>3, <1>4, <2>3
    <2>5. QED
        BY <1>1, <2>1, <2>3, <2>4
<1>7. P = Nat
    <2>1. P \in SUBSET Nat
        OBVIOUS
    <2> HIDE DEF P
    <2> QED
        BY <1>5, <1>6, <2>1, EveryNatural
<1>8. r[n] = t[n]
    BY <1>1, <1>7
<1>9. n + 1 \in 1 .. (n + 1) /\ (n + 1) - 1 = n
    BY <1>1
<1>10. t[n + 1] = AddPoints(t[n], e)
    BY <1>1, <1>4, <1>9
<1>11. QED
    BY <1>3, <1>4, <1>8, <1>10 DEF q

Has(s, f) == \E i \in DOMAIN s : s[i] = f

LEMMA HasAppended ==
    ASSUME NEW s \in Seq(Finding), NEW e \in Finding, NEW f
    PROVE  Has(Append(s, e), f) <=> Has(s, f) \/ f = e
<1> DEFINE q == Append(s, e)
<1>1. /\ DOMAIN q = 1 .. (Len(s) + 1) /\ DOMAIN s = 1 .. Len(s) /\ Len(s) \in Nat
      /\ \A i \in 1 .. Len(s) : q[i] = s[i]
      /\ q[Len(s) + 1] = e
    BY AppendProperties, LenProperties
<1> HIDE DEF q
<1>2. ASSUME Has(q, f) PROVE Has(s, f) \/ f = e
    BY <1>1, <1>2 DEF Has
<1>3. Has(s, f) => Has(q, f)
    BY <1>1 DEF Has
<1>4. f = e => Has(q, f)
    <2>1. Len(s) + 1 \in DOMAIN q
        BY <1>1
    <2>2. QED
        BY <1>1, <2>1 DEF Has
<1>5. QED
    BY <1>2, <1>3, <1>4 DEF q

\* What counts is what was found by a rule that is not a shadow.
LEMMA ScoringFound ==
    ASSUME NEW s \in Seq(Finding)
    PROVE  /\ NotShadow(s) \in Seq(Finding)
           /\ \A f : Has(NotShadow(s), f) <=> Has(s, f) /\ ~f.shadow
<1> DEFINE Ok(t) == NotShadow(t) \in Seq(Finding) /\ \A f : Has(NotShadow(t), f) <=> Has(t, f) /\ ~f.shadow
           Q == {t \in Seq(Finding) : Ok(t)}
<1>1. <<>> \in Q
    <2>1. NotShadow(<<>>) = <<>> /\ <<>> \in Seq(Finding)
        BY ScoringNone
    <2>2. \A f : ~Has(<<>>, f)
        BY DEF Has
    <2>3. QED
        BY <2>1, <2>2
<1>2. ASSUME NEW t \in Q, NEW e \in Finding PROVE Append(t, e) \in Q
    <2>1. t \in Seq(Finding) /\ Ok(t)
        BY <1>2
    <2>2. NotShadow(Append(t, e)) = KeepScoring(NotShadow(t), e)
        BY <2>1, ScoringSteps
    <2>3. Append(t, e) \in Seq(Finding) /\ \A f : Has(Append(t, e), f) <=> Has(t, f) \/ f = e
        BY <2>1, HasAppended
    <2>4. \A f : Has(Append(NotShadow(t), e), f) <=> Has(NotShadow(t), f) \/ f = e
        BY <2>1, HasAppended
    <2>5. NotShadow(Append(t, e)) \in Seq(Finding)
        BY <2>1, <2>2 DEF KeepScoring
    <2>6. CASE e.shadow
        <3>1. NotShadow(Append(t, e)) = NotShadow(t)
            BY <2>2, <2>6 DEF KeepScoring
        <3>2. QED
            BY <2>1, <2>3, <2>5, <2>6, <3>1
    <2>7. CASE ~e.shadow
        <3>1. NotShadow(Append(t, e)) = Append(NotShadow(t), e)
            BY <2>2, <2>7 DEF KeepScoring
        <3>2. QED
            BY <2>1, <2>3, <2>4, <2>5, <2>7, <3>1
    <2>8. QED
        BY <2>6, <2>7
<1>3. Q = Seq(Finding)
    <2>1. Q \in SUBSET Seq(Finding)
        OBVIOUS
    <2> HIDE DEF Q
    <2> QED
        BY <1>1, <1>2, <2>1, EverySequence
<1>4. QED
    BY <1>3

LEMMA PointsHeld ==
    ASSUME NEW B, NEW D, B \subseteq D, NEW s \in Seq(Finding)
    PROVE  /\ PointsOf(B, s) \in Points(B) /\ PointsOf(D, s) \in Points(D)
           /\ \A b \in B : PointsOf(B, s)[b] = PointsOf(D, s)[b]
<1> DEFINE Ok(t) == /\ PointsOf(B, t) \in Points(B) /\ PointsOf(D, t) \in Points(D)
                    /\ \A b \in B : PointsOf(B, t)[b] = PointsOf(D, t)[b]
           Q == {t \in Seq(Finding) : Ok(t)}
<1>1. <<>> \in Q
    <2>1. PointsOf(B, <<>>) = NoPoints(B) /\ PointsOf(D, <<>>) = NoPoints(D) /\ <<>> \in Seq(Finding)
        BY PointsNone
    <2>2. NoPoints(B) \in Points(B) /\ NoPoints(D) \in Points(D) /\ \A b \in B : NoPoints(B)[b] = NoPoints(D)[b]
        BY JudgementAssumption DEF NoPoints, Points
    <2>3. QED
        BY <2>1, <2>2
<1>2. ASSUME NEW t \in Q, NEW e \in Finding PROVE Append(t, e) \in Q
    <2>1. t \in Seq(Finding) /\ Ok(t)
        BY <1>2
    <2>2. /\ PointsOf(B, Append(t, e)) = AddPoints(PointsOf(B, t), e)
          /\ PointsOf(D, Append(t, e)) = AddPoints(PointsOf(D, t), e)
        BY <2>1, PointsSteps
    <2>3. AddPoints(PointsOf(B, t), e) \in Points(B) /\ AddPoints(PointsOf(D, t), e) \in Points(D)
        BY <2>1, PointsTyped
    <2>4. ASSUME NEW b \in B PROVE AddPoints(PointsOf(B, t), e)[b] = AddPoints(PointsOf(D, t), e)[b]
        BY <2>1 DEF AddPoints, Points
    <2>5. Append(t, e) \in Seq(Finding)
        BY <2>1
    <2>6. QED
        BY <2>2, <2>3, <2>4, <2>5
<1>3. Q = Seq(Finding)
    <2>1. Q \in SUBSET Seq(Finding)
        OBVIOUS
    <2> HIDE DEF Q
    <2> QED
        BY <1>1, <1>2, <2>1, EverySequence
<1>4. QED
    BY <1>3

\* A bucket that has no fewer points has no fewer after one more finding, and a finding takes
\* none away: the cap is never below what a bucket holds.
LEMMA AddingGrows ==
    ASSUME NEW B, NEW D, B \subseteq D, NEW p \in Points(B), NEW q \in Points(D), NEW e \in Finding,
           \A b \in B : p[b] <= q[b]
    PROVE  \A b \in B : /\ AddPoints(p, e)[b] <= AddPoints(q, e)[b]
                        /\ p[b] <= AddPoints(q, e)[b]
<1>1. Weights[e.sev] \in Nat /\ CategoryCap \in Nat
    BY JudgementAssumption, FindingAssumption DEF Finding
<1> TAKE b \in B
<1>2. p[b] \in 0 .. CategoryCap /\ q[b] \in 0 .. CategoryCap /\ p[b] <= q[b]
    BY DEF Points
<1>3. CASE b = Bucket(e)
    <2>1. /\ AddPoints(p, e)[b] = SmallerOf(p[b] + Weights[e.sev], CategoryCap)
          /\ AddPoints(q, e)[b] = SmallerOf(q[b] + Weights[e.sev], CategoryCap)
        BY <1>3 DEF AddPoints, Points
    <2>2. QED
        BY <1>1, <1>2, <2>1 DEF SmallerOf
<1>4. CASE b # Bucket(e)
    <2>1. AddPoints(p, e)[b] = p[b] /\ AddPoints(q, e)[b] = q[b]
        BY <1>4 DEF AddPoints, Points
    <2>2. QED
        BY <1>2, <2>1
<1>5. QED
    BY <1>3, <1>4

LEMMA PointsMonotone ==
    ASSUME NEW B, NEW D, B \subseteq D, NEW s \in Seq(Finding), NEW i \in 1 .. Len(s)
    PROVE  \A b \in B : PointsOf(B, NotShadow(RemoveAt(s, i)))[b] <= PointsOf(D, NotShadow(s))[b]
<1> DEFINE NoMore(u, t) == \A b \in B : PointsOf(B, NotShadow(u))[b] <= PointsOf(D, NotShadow(t))[b]
           Q == {t \in Seq(Finding) : \A k \in 1 .. Len(t) : NoMore(RemoveAt(t, k), t)}
<1>1. <<>> \in Q
    OBVIOUS
<1>2. ASSUME NEW t \in Q, NEW e \in Finding PROVE Append(t, e) \in Q
    <2>1. t \in Seq(Finding) /\ \A k \in 1 .. Len(t) : NoMore(RemoveAt(t, k), t)
        BY <1>2
    <2>2. Append(t, e) \in Seq(Finding) /\ Len(Append(t, e)) = Len(t) + 1 /\ Len(t) \in Nat
        BY <2>1
    <2>3. /\ NotShadow(t) \in Seq(Finding)
          /\ NotShadow(Append(t, e)) = KeepScoring(NotShadow(t), e)
        BY <2>1, ScoringFound, ScoringSteps
    <2>4. PointsOf(B, NotShadow(t)) \in Points(B) /\ PointsOf(D, NotShadow(t)) \in Points(D)
        BY <2>3, PointsHeld
    <2>5. PointsOf(D, Append(NotShadow(t), e)) = AddPoints(PointsOf(D, NotShadow(t)), e)
        BY <2>3, PointsSteps
    <2>6. ASSUME NEW k \in 1 .. Len(t) PROVE NoMore(RemoveAt(Append(t, e), k), Append(t, e))
        <3> DEFINE u == RemoveAt(t, k)
        <3>1. u \in Seq(Finding) /\ RemoveAt(Append(t, e), k) = Append(u, e)
            BY <2>1, RemoveFromAppended
        <3>2. NoMore(u, t)
            BY <2>1
        <3> HIDE DEF u
        <3>3. NotShadow(u) \in Seq(Finding) /\ NotShadow(Append(u, e)) = KeepScoring(NotShadow(u), e)
            BY <3>1, ScoringFound, ScoringSteps
        <3>4. CASE e.shadow
            BY <2>3, <3>1, <3>2, <3>3, <3>4 DEF KeepScoring
        <3>5. CASE ~e.shadow
            <4>1. PointsOf(B, Append(NotShadow(u), e)) = AddPoints(PointsOf(B, NotShadow(u)), e)
                BY <3>3, PointsSteps
            <4>2. PointsOf(B, NotShadow(u)) \in Points(B)
                BY <3>3, PointsHeld
            <4>3. \A b \in B : AddPoints(PointsOf(B, NotShadow(u)), e)[b] <= AddPoints(PointsOf(D, NotShadow(t)), e)[b]
                BY <2>4, <3>2, <4>2, AddingGrows
            <4>4. /\ NotShadow(Append(u, e)) = Append(NotShadow(u), e)
                  /\ NotShadow(Append(t, e)) = Append(NotShadow(t), e)
                BY <2>3, <3>3, <3>5 DEF KeepScoring
            <4>5. QED
                BY <2>5, <3>1, <4>1, <4>3, <4>4
        <3>6. QED
            BY <3>4, <3>5
    <2>7. NoMore(RemoveAt(Append(t, e), Len(t) + 1), Append(t, e))
        <3>1. RemoveAt(Append(t, e), Len(t) + 1) = t
            BY <2>1, RemoveFromAppended
        <3>2. \A b \in B : PointsOf(B, NotShadow(t))[b] = PointsOf(D, NotShadow(t))[b]
            <4>1. ASSUME NEW x \in Seq(Finding) 
                  PROVE  /\ PointsOf(B, x) \in Points(B) /\ PointsOf(D, x) \in Points(D)
                         /\ \A b \in B : PointsOf(B, x)[b] = PointsOf(D, x)[b]
                BY PointsHeld
            <4>2. QED
                BY <2>3, <4>1
        <3>3. \A b \in B : PointsOf(B, NotShadow(t))[b] <= PointsOf(D, NotShadow(t))[b]
            BY <2>4, <3>2 DEF Points
        <3>4. CASE e.shadow
            BY <2>3, <3>1, <3>3, <3>4 DEF KeepScoring
        <3>5. CASE ~e.shadow
            <4>1. \A b \in B : PointsOf(B, NotShadow(t))[b] <= AddPoints(PointsOf(D, NotShadow(t)), e)[b]
                BY <2>4, <3>3, AddingGrows
            <4>2. NotShadow(Append(t, e)) = Append(NotShadow(t), e)
                BY <2>3, <3>5 DEF KeepScoring
            <4>3. QED
                BY <2>5, <3>1, <4>1, <4>2
        <3>6. QED
            BY <3>4, <3>5
    <2>8. \A k \in 1 .. (Len(t) + 1) : k \in 1 .. Len(t) \/ k = Len(t) + 1
        BY <2>2
    <2> HIDE DEF NoMore
    <2>9. QED
        BY <2>2, <2>6, <2>7, <2>8
<1>3. Q = Seq(Finding)
    <2>1. Q \in SUBSET Seq(Finding)
        OBVIOUS
    <2> HIDE DEF Q
    <2> QED
        BY <1>1, <1>2, <2>1, EverySequence
<1>4. QED
    BY <1>3

BucketsOf(found) == {Bucket(found[i]) : i \in DOMAIN found}

LEMMA RawIsSum == ASSUME NEW found PROVE RawScore(found) = SumOf(PointsOf(BucketsOf(found), found))
BY Zenon DEF RawScore, SumOf, PointsOf, NoPoints, BucketsOf

\* Without one of the findings, nothing else is found.
LEMMA RemovedFound ==
    ASSUME NEW s \in Seq(Finding), NEW i \in 1 .. Len(s)
    PROVE  /\ NotShadow(RemoveAt(s, i)) \in Seq(Finding) /\ NotShadow(s) \in Seq(Finding)
           /\ \A f : Has(NotShadow(RemoveAt(s, i)), f) => Has(NotShadow(s), f)
<1> DEFINE t == RemoveAt(s, i)
           a == SubSeq(s, 1, i - 1)
           b == SubSeq(s, i + 1, Len(s))
<1>1. i \in Nat /\ i >= 1 /\ i <= Len(s) /\ Len(s) \in Nat /\ t = a \o b
    BY DEF RemoveAt
<1>2. a \in Seq(Finding) /\ Len(a) = i - 1 /\ \A k \in 1 .. (i - 1) : a[k] = s[k]
    BY <1>1
<1>3. b \in Seq(Finding)
    BY <1>1
<1>4. ASSUME NEW k \in 1 .. Len(b) PROVE b[k] = s[i + k] /\ i + k \in 1 .. Len(s)
    <2>1. \A j \in (i + 1) .. Len(s) : s[j] \in Finding
        BY <1>1
    <2>2. /\ Len(b) = IF i + 1 <= Len(s) THEN Len(s) - (i + 1) + 1 ELSE 0
          /\ \A j \in 1 .. (Len(s) - (i + 1) + 1) : b[j] = s[(i + 1) + j - 1]
        BY <1>1, <2>1, SubSeqProperties
    <2> HIDE DEF b
    <2>3. i + 1 <= Len(s) /\ k \in 1 .. (Len(s) - (i + 1) + 1)
        BY <1>1, <1>4, <2>2
    <2>4. (i + 1) + k - 1 = i + k /\ i + k \in 1 .. Len(s)
        BY <1>1, <2>3
    <2>5. QED
        BY <2>2, <2>3, <2>4
<1> HIDE DEF a, b, t
<1>5. t \in Seq(Finding)
    BY <1>1, <1>2, <1>3
<1>6. ASSUME NEW k \in DOMAIN t PROVE \E j \in DOMAIN s : t[k] = s[j]
    <2>1. k \in 1 .. (Len(a) + Len(b)) /\ Len(a) \in Nat /\ Len(b) \in Nat
        BY <1>1, <1>2, <1>3, <1>6
    <2>2. CASE k <= Len(a)
        <3>1. t[k] = a[k] /\ k \in 1 .. (i - 1) /\ k \in DOMAIN s
            BY <1>1, <1>2, <1>3, <2>1, <2>2
        <3>2. QED
            BY <1>2, <3>1
    <2>3. CASE ~(k <= Len(a))
        <3>1. t[k] = b[k - Len(a)] /\ k - Len(a) \in 1 .. Len(b)
            BY <1>1, <1>2, <1>3, <2>1, <2>3
        <3>2. QED
            BY <1>4, <3>1
    <2>4. QED
        BY <2>2, <2>3
<1>7. \A f : Has(t, f) => Has(s, f)
    BY <1>6 DEF Has
<1>8. /\ NotShadow(t) \in Seq(Finding) /\ \A f : Has(NotShadow(t), f) <=> Has(t, f) /\ ~f.shadow
      /\ NotShadow(s) \in Seq(Finding) /\ \A f : Has(NotShadow(s), f) <=> Has(s, f) /\ ~f.shadow
    BY <1>5, ScoringFound
<1>9. QED
    BY <1>7, <1>8 DEF t

\* No finding takes points away: without it the score is not higher.
LEMMA ScoreGrows ==
    ASSUME NEW s \in Seq(Finding), NEW i \in 1 .. Len(s)
    PROVE  /\ RawScore(NotShadow(RemoveAt(s, i))) \in Nat /\ RawScore(NotShadow(s)) \in Nat
           /\ RawScore(NotShadow(RemoveAt(s, i))) <= RawScore(NotShadow(s))
<1> DEFINE t == NotShadow(RemoveAt(s, i))
           u == NotShadow(s)
           B == BucketsOf(t)
           D == BucketsOf(u)
<1>1. t \in Seq(Finding) /\ u \in Seq(Finding) /\ \A f : Has(t, f) => Has(u, f)
    BY RemovedFound
<1> HIDE DEF t, u
<1>2. B \subseteq D
    BY <1>1 DEF BucketsOf, Has
<1>3. IsFiniteSet(D)
    <2>1. DOMAIN u = 1 .. Len(u) /\ Len(u) \in Nat
        BY <1>1
    <2>2. IsFiniteSet(DOMAIN u)
        BY <2>1, FS_Interval
    <2> DEFINE f == [k \in DOMAIN u |-> Bucket(u[k])]
    <2>3. f \in Surjection(DOMAIN u, D)
        BY DEF Surjection, BucketsOf
    <2> HIDE DEF f
    <2>4. QED
        BY <2>2, <2>3, FS_Surjection
<1> HIDE DEF B, D
<1>4. \A b \in B : PointsOf(B, t)[b] <= PointsOf(D, u)[b]
    BY <1>2, PointsMonotone DEF t, u
<1>5. PointsOf(B, t) \in Points(B)
    <2>1. B \subseteq B
        OBVIOUS
    <2>2. QED
        BY <1>1, <2>1, PointsHeld
<1>6. PointsOf(D, u) \in Points(D)
    <2>1. D \subseteq D
        OBVIOUS
    <2>2. QED
        BY <1>1, <2>1, PointsHeld
<1>7. PointsOf(B, t) \in [B -> Nat] /\ PointsOf(D, u) \in [D -> Nat]
    <2>1. 0 .. CategoryCap \subseteq Nat
        OBVIOUS
    <2>2. QED
        BY <1>5, <1>6, <2>1 DEF Points
<1>8. /\ SumOf(PointsOf(B, t)) \in Nat /\ SumOf(PointsOf(D, u)) \in Nat
      /\ SumOf(PointsOf(B, t)) <= SumOf(PointsOf(D, u))
    BY <1>2, <1>3, <1>4, <1>7, SumsGrow
<1>9. RawScore(t) = SumOf(PointsOf(B, t)) /\ RawScore(u) = SumOf(PointsOf(D, u))
    BY RawIsSum DEF B, D
<1>10. QED
    BY <1>8, <1>9 DEF t, u

\* Whatever one finding less leaves of the reasons to convict or to suspect was there before.
LEMMA VerdictGrows ==
    ASSUME NEW s \in Seq(Finding), NEW i \in 1 .. Len(s), NEW rank
    PROVE  VerdictOrder[ScoreAndVerdict(RemoveAt(s, i), rank)] <= VerdictOrder[ScoreAndVerdict(s, rank)]
<1> DEFINE t == NotShadow(RemoveAt(s, i))
           u == NotShadow(s)
<1>1. t \in Seq(Finding) /\ u \in Seq(Finding) /\ \A f : Has(t, f) => Has(u, f)
    BY RemovedFound
<1>2. RawScore(t) \in Nat /\ RawScore(u) \in Nat /\ RawScore(t) <= RawScore(u)
    BY ScoreGrows
<1> HIDE DEF t, u
<1>3. \A sevs : HasAny(t, sevs) => HasAny(u, sevs)
    BY <1>1 DEF HasAny, Has
<1>4. HasChain(t) => HasChain(u)
    <2>1. RulesOf(t) \subseteq RulesOf(u)
        BY <1>1 DEF RulesOf, Has
    <2>2. QED
        BY <2>1 DEF HasChain
<1>5. SuspiciousMin \in Nat /\ MaliciousMin \in Nat
    BY JudgementAssumption
<1>6. /\ RawScore(t) >= MaliciousMin => RawScore(u) >= MaliciousMin
      /\ RawScore(t) >= SuspiciousMin => RawScore(u) >= SuspiciousMin
    BY <1>2, <1>5
<1>7. TopAlert(t, rank) => TopAlert(u, rank)
    BY <1>3 DEF TopAlert
<1>8. /\ ScoredVerdict(t) = "malicious" => ScoredVerdict(u) = "malicious"
      /\ ScoredVerdict(u) = "clean" => ScoredVerdict(t) = "clean"
      /\ ScoredVerdict(t) \in {"clean", "suspicious", "malicious"}
      /\ ScoredVerdict(u) \in {"clean", "suspicious", "malicious"}
    BY <1>3, <1>4, <1>6 DEF ScoredVerdict
<1> DEFINE v == ScoreAndVerdict(RemoveAt(s, i), rank)
           w == ScoreAndVerdict(s, rank)
<1>9. v = IF TopAlert(t, rank) THEN "malicious"
          ELSE IF rank # NoRank /\ ScoredVerdict(t) = "clean" /\ HasAny(t, {"medium", "high", "critical"})
          THEN "suspicious" ELSE ScoredVerdict(t)
    BY DEF ScoreAndVerdict, t
<1>10. w = IF TopAlert(u, rank) THEN "malicious"
          ELSE IF rank # NoRank /\ ScoredVerdict(u) = "clean" /\ HasAny(u, {"medium", "high", "critical"})
          THEN "suspicious" ELSE ScoredVerdict(u)
    BY DEF ScoreAndVerdict, u
<1> HIDE DEF v, w
<1>11. /\ v \in {"clean", "suspicious", "malicious"} /\ w \in {"clean", "suspicious", "malicious"}
       /\ v = "malicious" => w = "malicious"
       /\ w = "clean" => v = "clean"
    BY <1>3, <1>7, <1>8, <1>9, <1>10
<1>12. VerdictOrder[v] <= VerdictOrder[w]
    BY <1>11 DEF VerdictOrder
<1>13. QED
    BY <1>12 DEF v, w

LEMMA ListingGrows ==
    ASSUME NEW s, NEW rank
    PROVE  VerdictOrder[ScoreAndVerdict(s, NoRank)] <= VerdictOrder[ScoreAndVerdict(s, rank)]
<1> DEFINE v == ScoreAndVerdict(s, NoRank)
           w == ScoreAndVerdict(s, rank)
<1>1. v = ScoredVerdict(NotShadow(s)) /\ v \in {"clean", "suspicious", "malicious"}
    BY DEF ScoreAndVerdict, TopAlert, ScoredVerdict
<1>2. w \in {v, "malicious"} \/ (w = "suspicious" /\ v = "clean")
    BY <1>1 DEF ScoreAndVerdict
<1> HIDE DEF v, w
<1>3. VerdictOrder[v] <= VerdictOrder[w]
    BY <1>1, <1>2 DEF VerdictOrder
<1>4. QED
    BY <1>3 DEF v, w

-----------------------------------------------------------------------------
(* The consequences of a verdict                                           *)

RuleVerdicts == {"clean", "suspicious", "malicious"}
Worth == {"suspicious", "malicious"}
Gate == {"detonate", "detonate_low"}

LEMMA RulesDecide == ASSUME NEW all, NEW rank PROVE ScoreAndVerdict(all, rank) \in RuleVerdicts
BY DEF ScoreAndVerdict, ScoredVerdict, RuleVerdicts

LEMMA GateDecides ==
    ASSUME NEW verdict, NEW found, NEW rank, NEW isNew
    PROVE  Detonate(verdict, found, rank, isNew) \subseteq Gate
BY DEF Detonate, Gate

\* What is known of a scan at each of its stages: until it is adjudicated the stored verdict is
\* the rules' and nothing but the detonation gate has acted on it; then the stored
\* verdict is the override and a promotion rests on a confident conviction.
JInv ==
    /\ jtri \in TriResults
    /\ jat = "analyse" => jdone = {}
    /\ jat \in {"triage", "adjudicate"} =>
        /\ jrule \in Worth
        /\ jdone \subseteq Gate
    /\ jat = "deliver" =>
        /\ jrule \in Worth
        /\ jstored = Overridden(jrule, jtri)
        /\ jdone \subseteq Gate \union {"promoted"}
        /\ "promoted" \in jdone => jtri.verdict = "malicious" /\ jtri.conf >= ConfFloor
    /\ ConvictionsHeard

LEMMA JudgementStarts == JudgementInit => JInv
BY DEF JudgementInit, JInv, ConvictionsHeard, Judged, TriResults

LEMMA JudgementSteps == JInv /\ [JudgementNext]_judgementVars => JInv'
<1> SUFFICES ASSUME JInv, [JudgementNext]_judgementVars PROVE JInv'
    OBVIOUS
<1>1. ASSUME NEW f \in FindingSorts, Analyse(f) PROVE JInv'
    BY <1>1 DEF Analyse, JInv, ConvictionsHeard, Judged
<1>2. ASSUME NEW f \in {Reported("no_release_files", "fetch", "medium"),
                        Reported("sha256_mismatch", "fetch", "critical")}, FetchError(f)
      PROVE  JInv'
    <2>1. jat' = "over" /\ jfindings' = <<f>> /\ f.cat = "fetch" /\ jtri' = jtri
        BY <1>2 DEF FetchError, Reported
    <2>2. 1 \in DOMAIN jfindings' /\ jfindings'[1].cat = "fetch"
        BY <2>1
    <2>3. ~Judged'
        BY <2>2 DEF Judged
    <2>4. QED
        BY <2>1, <2>3 DEF JInv, ConvictionsHeard
<1>3. ASSUME NEW p \in Fingerprints, Persist(p) PROVE JInv'
    <2>1. /\ jrule' \in RuleVerdicts /\ jstored' = jrule' /\ jdone' \subseteq Gate /\ jtri' = jtri
          /\ jat' = IF jrule' = "clean" THEN "over" ELSE "triage"
        BY <1>3, RulesDecide, GateDecides DEF Persist, Close
    <2>2. CASE jrule' = "clean"
        BY <2>1, <2>2 DEF JInv, ConvictionsHeard, Gate
    <2>3. CASE jrule' # "clean"
        BY <2>1, <2>3 DEF JInv, ConvictionsHeard, Judged, RuleVerdicts, Worth
    <2>4. QED
        BY <2>2, <2>3
<1>4. ASSUME NEW r \in TriResults, TriageResult(r) PROVE JInv'
    BY <1>4 DEF TriageResult, JInv, ConvictionsHeard, Judged
<1>5. CASE Adjudicate
    <2>1. /\ jat = "adjudicate" /\ jat' = "deliver" /\ jtri' = jtri /\ jrule' = jrule
          /\ jstored' = Overridden(jrule, jtri)
          /\ jdone' = jdone \union (IF Qualifies(jrule, jtri, jfindings) THEN {"promoted"} ELSE {})
        BY <1>5 DEF Adjudicate
    <2>2. jrule \in Worth /\ jdone \subseteq Gate
        BY <2>1 DEF JInv
    <2>3. Qualifies(jrule, jtri, jfindings) => jtri.verdict = "malicious" /\ jtri.conf >= ConfFloor
        BY DEF Qualifies
    <2>4. "promoted" \in jdone' => jtri'.verdict = "malicious" /\ jtri'.conf >= ConfFloor
        BY <2>1, <2>2, <2>3 DEF Gate
    <2>5. ~Judged'
        BY <2>1 DEF Judged
    <2>6. jstored' = Overridden(jrule', jtri') /\ jdone' \subseteq Gate \union {"promoted"}
        BY <2>1, <2>2
    <2>7. QED
        BY <2>1, <2>2, <2>4, <2>5, <2>6 DEF JInv, ConvictionsHeard
<1>6. CASE Deliver
    <2>1. /\ jat = "deliver" /\ jat' = "over" /\ jtri' = jtri /\ jstored' = jstored
          /\ jdone' = jdone \union (IF Vaults(jrule, jtri) THEN {"vaulted"} ELSE {})
                            \union (IF Alarms(jrule, jtri) THEN {"alarm"}
                                    ELSE IF jstored = "inconclusive" THEN {"review"} ELSE {})
        BY <1>6 DEF Deliver
    <2>2. /\ jrule \in Worth /\ jstored = Overridden(jrule, jtri)
          /\ jdone \subseteq Gate \union {"promoted"} /\ jtri \in TriResults
          /\ "promoted" \in jdone => jtri.verdict = "malicious" /\ jtri.conf >= ConfFloor
        BY <2>1 DEF JInv
    <2>3. jtri.conf \in {0, 5, 7, 9}
        BY <2>2 DEF TriResults, NoTri, LlmOff
    <2>4. jtri.conf < ConfFloor <=> ~(jtri.conf >= ConfFloor)
        BY <2>3 DEF ConfFloor
    <2>5. jstored = "malicious" <=> Alarms(jrule, jtri)
        BY <2>2, <2>4 DEF Overridden, Alarms, Worth
    <2>6. jstored = "malicious" <=> "alarm" \in jdone'
        BY <2>1, <2>2, <2>5 DEF Gate
    <2>7. "promoted" \in jdone' => {"alarm", "vaulted"} \subseteq jdone'
        BY <2>1, <2>2 DEF Gate, Alarms, Vaults
    <2>8. jstored = "inconclusive" <=> "review" \in jdone'
        BY <2>1, <2>2, <2>5 DEF Gate
    <2>9. QED
        BY <2>1, <2>2, <2>6, <2>7, <2>8 DEF JInv, ConvictionsHeard
<1>7. CASE UNCHANGED judgementVars
    BY <1>7 DEF judgementVars, JInv, ConvictionsHeard, Judged
<1>8. QED
    BY <1>1, <1>2, <1>3, <1>4, <1>5, <1>6, <1>7 DEF JudgementNext

\* For every mix of findings, predecessors, fingerprints and replies, the verdict that
\* _persist_and_finalize stores, its alert, its vault and its promotion agree.
THEOREM ConvictionsAreHeard == JudgementSpec => []ConvictionsHeard
<1>1. JInv => ConvictionsHeard
    BY DEF JInv
<1>2. QED
    BY <1>1, JudgementStarts, JudgementSteps, PTL DEF JudgementSpec

LEMMA SingleFinding == ASSUME NEW E, NEW e \in E PROVE <<e>> \in Seq(E)
OBVIOUS

LEMMA ReportedIsFinding ==
    /\ Reported("no_release_files", "fetch", "medium") \in Finding
    /\ Reported("sha256_mismatch", "fetch", "critical") \in Finding
    /\ Reported("clean_to_critical", "version_diff", "critical") \in Finding
    /\ Reported("new_rules_fired", "version_diff", "medium") \in Finding
    /\ Reported("author_changed", "version_diff", "high") \in Finding
    /\ Reported("dependency_spike", "version_diff", "medium") \in Finding
    /\ \A sev \in SeverityNames : Reported("intel", "threat_intel", sev) \in Finding
BY DEF Reported, Finding, SeverityNames, RuleNames, Categories

\* The findings that need the database are findings.
LEMMA DiffFinds ==
    ASSUME NEW found, NEW prev
    PROVE  VersionDiff(found, prev) \in Seq(Finding)
<1>1. <<>> \in Seq(Finding)
    OBVIOUS
<1>2. <<Reported("clean_to_critical", "version_diff", "critical")>> \in Seq(Finding)
    BY ReportedIsFinding, SingleFinding
<1>3. <<Reported("new_rules_fired", "version_diff", "medium")>> \in Seq(Finding)
    BY ReportedIsFinding, SingleFinding
<1>4. <<Reported("author_changed", "version_diff", "high")>> \in Seq(Finding)
    BY ReportedIsFinding, SingleFinding
<1>5. <<Reported("dependency_spike", "version_diff", "medium")>> \in Seq(Finding)
    BY ReportedIsFinding, SingleFinding
<1>6. \A a, b, c \in Seq(Finding) : a \o b \o c \in Seq(Finding)
    OBVIOUS
<1>7. QED
    BY <1>1, <1>2, <1>3, <1>4, <1>5, <1>6 DEF VersionDiff

LEMMA IntelFinds ==
    ASSUME NEW p \in Fingerprints
    PROVE  ThreatIntel(p) \in Seq(Finding)
<1>1. <<Reported("intel", "threat_intel", p.sev)>> \in Seq(Finding)
    BY FindingAssumption, ReportedIsFinding, SingleFinding
<1>2. <<>> \in Seq(Finding)
    OBVIOUS
<1>3. QED
    BY <1>1, <1>2 DEF ThreatIntel

LEMMA JudgementTypedFirst == JudgementInit => JudgementTypeOK
<1> SUFFICES ASSUME JudgementInit PROVE JudgementTypeOK
    OBVIOUS
<1>1. jfindings \in Seq(Finding)
    BY DEF JudgementInit
<1>2. QED
    BY <1>1 DEF JudgementInit, JudgementTypeOK, TriResults

Stored == {"none", "clean", "suspicious", "malicious", "benign", "inconclusive"}
Tags == {"none", "watchlist_top100", "needs_review", "llm_unverified"}

LEMMA VerdictNames == DOMAIN VerdictOrder = RuleVerdicts
BY DEF VerdictOrder, RuleVerdicts

LEMMA JudgementTyped == JudgementTypeOK /\ [JudgementNext]_judgementVars => JudgementTypeOK'
<1> SUFFICES ASSUME JudgementTypeOK, [JudgementNext]_judgementVars PROVE JudgementTypeOK'
    OBVIOUS
<1>1. ASSUME NEW f \in FindingSorts, Analyse(f) PROVE JudgementTypeOK'
    <2>1. jfindings' \in Seq(Finding)
        BY <1>1, FindingAssumption DEF Analyse, JudgementTypeOK
    <2>2. QED
        BY <1>1, <2>1 DEF Analyse, JudgementTypeOK
<1>2. ASSUME NEW f \in {Reported("no_release_files", "fetch", "medium"),
                        Reported("sha256_mismatch", "fetch", "critical")}, FetchError(f)
      PROVE  JudgementTypeOK'
    <2>1. jfindings' \in Seq(Finding)
        BY <1>2, ReportedIsFinding, SingleFinding DEF FetchError
    <2>2. jrule' \in RuleVerdicts /\ jstored' = jrule' /\ jtag' \in {"watchlist_top100", "none"}
        BY <1>2, RulesDecide DEF FetchError, Close
    <2>3. QED
        BY <1>2, <2>1, <2>2, VerdictNames DEF FetchError, JudgementTypeOK, RuleVerdicts
<1>3. ASSUME NEW p \in Fingerprints, Persist(p) PROVE JudgementTypeOK'
    <2>1. jfindings' \in Seq(Finding)
        <3>1. jfindings' = jfindings \o (IF jprev = NoPrev THEN <<>> ELSE VersionDiff(jfindings, jprev))
                           \o ThreatIntel(p)
            BY <1>3 DEF Persist
        <3>2. <<>> \in Seq(Finding) /\ jfindings \in Seq(Finding)
            BY DEF JudgementTypeOK
        <3>3. \A a, b, c \in Seq(Finding) : a \o b \o c \in Seq(Finding)
            OBVIOUS
        <3>4. QED
            BY <3>1, <3>2, <3>3, DiffFinds, IntelFinds
    <2>2. /\ jrule' \in RuleVerdicts /\ jstored' = jrule' /\ jtag' \in {"watchlist_top100", "none"}
          /\ jdone' \subseteq Gate /\ jat' \in {"over", "triage"} /\ UNCHANGED <<jrank, jprev, jtri>>
        BY <1>3, RulesDecide, GateDecides DEF Persist, Close
    <2>3. QED
        BY <2>1, <2>2, VerdictNames DEF JudgementTypeOK, RuleVerdicts, Gate, Consequences
<1>4. ASSUME NEW r \in TriResults, TriageResult(r) PROVE JudgementTypeOK'
    BY <1>4 DEF TriageResult, JudgementTypeOK
<1>5. CASE Adjudicate
    <2>1. Overridden(jrule, jtri) \in Stored
        BY VerdictNames DEF JudgementTypeOK, RuleVerdicts, Overridden, Stored
    <2>2. jtag' \in Tags
        BY <1>5 DEF Adjudicate, JudgementTypeOK, Tags
    <2>3. jdone' \subseteq Consequences
        BY <1>5 DEF Adjudicate, JudgementTypeOK, Consequences
    <2>4. QED
        BY <1>5, <2>1, <2>2, <2>3 DEF Adjudicate, JudgementTypeOK, Stored, Tags
<1>6. CASE Deliver
    <2>1. jdone' \subseteq Consequences
        BY <1>6 DEF Deliver, JudgementTypeOK, Consequences
    <2>2. QED
        BY <1>6, <2>1 DEF Deliver, JudgementTypeOK
<1>7. CASE UNCHANGED judgementVars
    BY <1>7 DEF judgementVars, JudgementTypeOK
<1>8. QED
    BY <1>1, <1>2, <1>3, <1>4, <1>5, <1>6, <1>7 DEF JudgementNext

LEMMA JudgementTypeCorrect == JudgementSpec => []JudgementTypeOK
BY JudgementTypedFirst, JudgementTyped, PTL DEF JudgementSpec

\* For any number of findings, any weights, thresholds and category cap, and any rank, the rules
\* of score_and_verdict never judge a package more severely for having one finding less or for not
\* being on the watchlist.
THEOREM EvidenceIsMonotone == JudgementSpec => []EvidenceMonotone
<1>1. JudgementTypeOK => EvidenceMonotone
    <2> SUFFICES ASSUME JudgementTypeOK PROVE EvidenceMonotone
        OBVIOUS
    <2>1. jfindings \in Seq(Finding) /\ DOMAIN jfindings = 1 .. Len(jfindings)
        BY DEF JudgementTypeOK
    <2>2. \A i \in DOMAIN jfindings :
            VerdictOrder[ScoreAndVerdict(RemoveAt(jfindings, i), jrank)] <= VerdictOrder[ScoreAndVerdict(jfindings, jrank)]
        BY <2>1, VerdictGrows
    <2>3. VerdictOrder[ScoreAndVerdict(jfindings, NoRank)] <= VerdictOrder[ScoreAndVerdict(jfindings, jrank)]
        BY ListingGrows
    <2>4. QED
        BY <2>2, <2>3 DEF EvidenceMonotone
<1>2. QED
    BY <1>1, JudgementTypeCorrect, PTL

-----------------------------------------------------------------------------
(* The Discord sender                                                      *)

AllEmbeds == {NoEmbed} \union {SanitizeEmbed(e) : e \in Embeds}
SenderRec ==
    [at : {"idle", "throttle", "sleep", "backoff", "sent", "dropped"}, attempt : 0 .. MaxPosts - 1,
     wait : Nat, faults : 0 .. MaxPosts, embed : AllEmbeds]

ATypes ==
    /\ sender \in [Senders -> SenderRec]
    /\ slot \in Nat /\ hookOk \in BOOLEAN /\ alerts \in 0 .. MaxAlerts

-----------------------------------------------------------------------------
(* The embed                                                               *)

LEMMA LeastOfTwo ==
    ASSUME NEW a \in Nat, NEW b \in Nat
    PROVE  Min({a, b}) \in Nat /\ Min({a, b}) <= a /\ Min({a, b}) <= b
<1>1. {a, b} \in SUBSET Nat /\ {a, b} # {}
    OBVIOUS
<1>2. QED
    BY <1>1, MinOfNaturals

LEMMA ClampedSeq == ASSUME NEW fields \in Seq(Nat) PROVE Clamped(fields) \in Seq(Nat)
<1>1. PICK m \in Nat : m = Min({Len(fields), FieldsMax}) /\ m <= Len(fields)
    <2>1. Len(fields) \in Nat /\ FieldsMax \in Nat
        BY AlertsAssumption
    <2>2. QED
        BY <2>1, LeastOfTwo
<1>2. \A i \in 1 .. m : Min({fields[i], FieldMax}) \in Nat
    <2> TAKE i \in 1 .. m
    <2>1. fields[i] \in Nat
        BY <1>1
    <2>2. FieldMax \in Nat
        BY AlertsAssumption
    <2>3. QED
        BY <2>1, <2>2, LeastOfTwo
<1>3. Clamped(fields) = [i \in 1 .. m |-> Min({fields[i], FieldMax})]
    BY <1>1 DEF Clamped
<1>4. QED
    BY <1>2, <1>3

\* What _sanitize_embed leaves fits, but for the footer.
BodyFits(e) == e.head + Total(e.fields) <= EmbedCap

LEMMA EmptyTotal == Total(<<>>) = 0
<1> DEFINE sums(it) == it = [d \in SUBSET DOMAIN <<>> |->
                IF d = {} THEN 0 ELSE it[d \ {Max(d)}] + <<>>[Max(d)]]
           F == CHOOSE i : sums(i)
<1>1. \A d \in SUBSET DOMAIN <<>> : d = {}
    OBVIOUS
<1>2. sums([d \in SUBSET DOMAIN <<>> |-> 0])
    BY <1>1
<1>3. sums(F)
    <2> HIDE DEF sums
    <2> QED
        BY <1>2
<1>4. Total(<<>>) = F[DOMAIN <<>>]
    BY Zenon DEF Total, FoldLeft, MapThenFoldSet
<1> HIDE DEF F
<1>5. F[DOMAIN <<>>] = 0
    BY <1>3
<1>6. QED
    BY <1>4, <1>5

LEMMA SanitizedFits == ASSUME NEW e \in Embeds PROVE BodyFits(SanitizeEmbed(e))
<1> DEFINE cut == Clamped(e.fields)
           fit == {k \in 0 .. Len(cut) : e.head + Total(SubSeq(cut, 1, k)) <= EmbedCap}
<1>1. cut \in Seq(Nat) /\ Len(cut) \in Nat
    BY ClampedSeq, AlertsAssumption
<1>2. SubSeq(cut, 1, 0) = <<>>
    BY <1>1
<1>3. 0 \in fit
    <2>1. e.head + Total(<<>>) <= EmbedCap
        BY HeadAssumption, EmptyTotal, AlertsAssumption
    <2>2. e.head + Total(SubSeq(cut, 1, 0)) <= EmbedCap
        BY <1>2, <2>1
    <2>3. 0 \in 0 .. Len(cut)
        BY <1>1
    <2>4. QED
        BY <2>2, <2>3
<1>4. fit \union {0} = fit /\ fit \in SUBSET (0 .. Len(cut)) /\ fit # {}
    BY <1>3
<1>5. Max(fit) \in fit
    <2> HIDE DEF fit, cut
    <2>1. QED
        BY <1>1, <1>4, MaxOfNaturals
<1>6. e.head + Total(SubSeq(cut, 1, Max(fit))) <= EmbedCap
    BY <1>5
<1>7. PICK kept : kept = SubSeq(cut, 1, Max(fit))
    OBVIOUS
<1>8. SanitizeEmbed(e) = [e EXCEPT !.fields = kept]
    BY <1>4, <1>7 DEF SanitizeEmbed
<1>9. SanitizeEmbed(e).head = e.head /\ SanitizeEmbed(e).fields = kept
    <2>1. e \in [head : Nat, fields : Seq(Nat), foot : Nat]
        BY AlertsAssumption
    <2>2. QED
        BY <1>8, <2>1
<1>10. QED
    BY <1>6, <1>7, <1>9 DEF BodyFits

-----------------------------------------------------------------------------
(* The slots                                                               *)

\* The time that those who sleep have reserved.
Reserved == Interval * Cardinality(Sleeping)

\* _last_send is at most an interval past what is reserved, every sleeper's slot is in what
\* is reserved, and no two slots are closer than an interval.
SlotInv ==
    /\ slot <= Reserved + Interval
    /\ \A t \in Sleeping : sender[t].wait + Interval <= slot /\ slot <= sender[t].wait + Reserved
    /\ \A t, u \in Sleeping : t # u =>
        \/ sender[t].wait >= sender[u].wait + Interval
        \/ sender[u].wait >= sender[t].wait + Interval

LEMMA Sleepers ==
    /\ Sleeping \in SUBSET Senders /\ IsFiniteSet(Sleeping) /\ Cardinality(Sleeping) \in Nat
    /\ Cardinality(Sleeping) <= Cardinality(Senders) /\ Cardinality(Senders) \in Nat
    /\ Interval \in Nat /\ Interval > 0 /\ MaxPosts \in Nat /\ MaxPosts > 0 /\ MaxAlerts \in Nat
    /\ Reserved \in Nat
<1>1. Sleeping \in SUBSET Senders
    BY DEF Sleeping
<1>2. IsFiniteSet(Sleeping) /\ Cardinality(Sleeping) <= Cardinality(Senders) /\ Cardinality(Senders) \in Nat
    BY <1>1, AlertsAssumption, FS_Subset, FS_CardinalityType
<1>3. Cardinality(Sleeping) \in Nat
    BY <1>2, FS_CardinalityType
<1>4. /\ Interval \in Nat /\ Interval > 0 /\ MaxPosts \in Nat /\ MaxPosts > 0 /\ MaxAlerts \in Nat
    BY AlertsAssumption
<1>5. Reserved \in Nat
    BY <1>3, <1>4 DEF Reserved
<1>6. QED
    BY <1>1, <1>2, <1>3, <1>4, <1>5

LEMMA SlotInvImplies == ATypes /\ SlotInv => SlotsApart
<1> SUFFICES ASSUME ATypes, SlotInv, NEW t \in Sleeping
             PROVE  /\ sender[t].wait + Interval <= slot
                    /\ sender[t].wait <= Interval * Cardinality(Senders)
                    /\ \A u \in Sleeping \ {t} :
                        \/ sender[t].wait >= sender[u].wait + Interval
                        \/ sender[u].wait >= sender[t].wait + Interval
    BY DEF SlotsApart
<1>1. Reserved <= Interval * Cardinality(Senders) /\ Interval * Cardinality(Senders) \in Nat
    <2>1. \A i, a, b \in Nat : a <= b => i * a <= i * b /\ i * b \in Nat
        OBVIOUS
    <2>2. QED
        BY <2>1, Sleepers DEF Reserved
<1>2. sender[t].wait \in Nat /\ slot \in Nat
    BY Sleepers DEF ATypes, SenderRec
<1>3. sender[t].wait <= Reserved
    BY <1>2, Sleepers DEF SlotInv
<1>4. sender[t].wait <= Interval * Cardinality(Senders)
    BY <1>1, <1>2, <1>3, Sleepers
<1>5. QED
    BY <1>4 DEF SlotInv

\* A step of a sender that is not asleep, and does not fall asleep, leaves the slots alone.
LEMMA SlotFrame ==
    ASSUME ATypes, SlotInv, NEW t \in Senders, NEW q \in SenderRec, t \notin Sleeping, q.at # "sleep",
           sender' = [sender EXCEPT ![t] = q], UNCHANGED slot
    PROVE  SlotInv'
<1>1. \A u \in Senders : sender'[u] = IF u = t THEN q ELSE sender[u]
    BY DEF ATypes
<1>2. Sleeping' = Sleeping
    BY <1>1 DEF Sleeping
<1>3. Reserved' = Reserved
    BY <1>2 DEF Reserved
<1>4. \A u \in Sleeping : sender'[u] = sender[u]
    BY <1>1, Sleepers
<1>5. QED
    BY <1>2, <1>3, <1>4 DEF SlotInv

LEMMA ThrottleStep ==
    ASSUME ATypes, SlotInv, NEW t \in Senders, Throttle(t)
    PROVE  SlotInv'
<1> DEFINE q == [sender[t] EXCEPT !.at = "sleep", !.wait = slot]
<1>1. q \in SenderRec /\ q.at = "sleep" /\ q.wait = slot
    BY DEF ATypes, SenderRec
<1>2. sender' = [sender EXCEPT ![t] = q] /\ slot' = slot + Interval
    BY DEF Throttle, PutSender
<1> HIDE DEF q
<1>3. \A u \in Senders : sender'[u] = IF u = t THEN q ELSE sender[u]
    BY <1>2 DEF ATypes
<1>4. t \notin Sleeping
    BY DEF Throttle, Sleeping
<1>5. slot \in Nat /\ \A u \in Sleeping : sender[u].wait \in Nat /\ sender[u].wait > 0 /\ sender'[u] = sender[u]
    BY <1>3, <1>4 DEF ATypes, SenderRec, Sleeping
<1>6. CASE slot = 0
    <2>1. Sleeping = {}
        BY <1>5, <1>6, Sleepers DEF SlotInv
    <2>2. Sleeping' = {}
        BY <1>1, <1>3, <1>6, <2>1 DEF Sleeping
    <2>3. Reserved' = Reserved
        BY <2>1, <2>2 DEF Reserved
    <2>4. QED
        BY <1>2, <1>6, <2>2, <2>3, Sleepers DEF SlotInv
<1>7. CASE slot > 0
    <2>1. Sleeping' = Sleeping \union {t}
        BY <1>1, <1>3, <1>7 DEF Sleeping
    <2>2. Cardinality(Sleeping') = Cardinality(Sleeping) + 1
        BY <1>4, <2>1, Sleepers, FS_AddElement
    <2>3. Reserved' = Reserved + Interval
        <3>1. \A i, n \in Nat : i * (n + 1) = i * n + i
            OBVIOUS
        <3>2. QED
            BY <2>2, <3>1, Sleepers DEF Reserved
    <2>4. slot' <= Reserved' + Interval
        BY <1>2, <1>5, <2>3, Sleepers DEF SlotInv
    <2>5. sender'[t].wait = slot
        BY <1>1, <1>3
    <2>6. ASSUME NEW u \in Sleeping'
          PROVE  sender'[u].wait + Interval <= slot' /\ slot' <= sender'[u].wait + Reserved'
        <3>1. CASE u = t
            BY <1>2, <1>5, <2>3, <2>5, <3>1, Sleepers
        <3>2. CASE u # t
            BY <1>2, <1>5, <2>1, <2>3, <2>6, <3>2, Sleepers DEF SlotInv
        <3>3. QED
            BY <3>1, <3>2
    <2>7. ASSUME NEW u \in Sleeping', NEW v \in Sleeping', u # v
          PROVE  \/ sender'[u].wait >= sender'[v].wait + Interval
                 \/ sender'[v].wait >= sender'[u].wait + Interval
        <3>1. CASE u = t
            BY <1>5, <2>1, <2>5, <2>7, <3>1, Sleepers DEF SlotInv
        <3>2. CASE v = t
            BY <1>5, <2>1, <2>5, <2>7, <3>2, Sleepers DEF SlotInv
        <3>3. CASE u # t /\ v # t
            BY <1>5, <2>1, <2>7, <3>3 DEF SlotInv
        <3>4. QED
            BY <3>1, <3>2, <3>3
    <2>8. QED
        BY <2>4, <2>6, <2>7 DEF SlotInv
<1>8. QED
    BY <1>5, <1>6, <1>7

\* When time passes at most one sleeper wakes.
LEMMA TickStep ==
    ASSUME ATypes, SlotInv, AlertTick
    PROVE  ATypes' /\ SlotInv'
<1>1. \A u \in Senders : /\ sender'[u] = [sender[u] EXCEPT !.wait = Less(sender[u].wait)]
                         /\ sender[u] \in SenderRec /\ sender[u].wait \in Nat
    BY DEF AlertTick, ATypes, SenderRec
<1>2. \A u \in Senders : /\ sender'[u] \in SenderRec /\ sender'[u].at = sender[u].at
                         /\ sender'[u].wait = Less(sender[u].wait)
    <2> TAKE u \in Senders
    <2>0. \A n \in Nat : Less(n) \in Nat
        BY DEF Less
    <2>1. PICK k \in Nat : k = Less(sender[u].wait)
        BY <1>1, <2>0
    <2>2. sender'[u] = [sender[u] EXCEPT !.wait = k] /\ sender[u] \in SenderRec
        BY <1>1, <2>1
    <2>3. QED
        BY <2>1, <2>2 DEF SenderRec
<1>3. slot' = Less(slot) /\ slot \in Nat /\ slot' \in Nat
    BY DEF AlertTick, ATypes, Less
<1>4. ATypes'
    <2>1. sender' \in [Senders -> SenderRec]
        BY <1>2 DEF AlertTick
    <2>2. QED
        BY <1>3, <2>1 DEF AlertTick, ATypes
<1>5. \A u \in Senders : u \in Sleeping <=> sender[u].at = "sleep" /\ sender[u].wait > 0
    BY DEF Sleeping
<1>6. \A u \in Senders : u \in Sleeping' <=> sender'[u].at = "sleep" /\ sender'[u].wait > 0
    BY DEF Sleeping
<1>7. Sleeping' \subseteq Senders
    BY DEF Sleeping
<1>8. \A u \in Senders : /\ u \in Sleeping' <=> u \in Sleeping /\ sender[u].wait # 1
                         /\ u \in Sleeping' => sender'[u].wait = sender[u].wait - 1
    <2> TAKE u \in Senders
    <2>1. PICK j \in Nat : j = sender[u].wait
        BY <1>1
    <2>2. sender'[u].wait = IF j = 0 THEN 0 ELSE j - 1
        BY <1>2, <2>1 DEF Less
    <2>3. u \in Sleeping <=> sender[u].at = "sleep" /\ j > 0
        BY <1>5, <2>1
    <2>4. u \in Sleeping' <=> sender[u].at = "sleep" /\ j > 1
        BY <1>2, <1>6, <2>1, <2>2
    <2>5. QED
        BY <2>1, <2>2, <2>3, <2>4
<1>9. \A u \in Sleeping' : u \in Sleeping /\ sender'[u].wait = sender[u].wait - 1 /\ sender[u].wait \in Nat
    BY <1>1, <1>7, <1>8
<1>10. \A t, u \in Sleeping' : t # u =>
        \/ sender'[t].wait >= sender'[u].wait + Interval
        \/ sender'[u].wait >= sender'[t].wait + Interval
    BY <1>9, Sleepers DEF SlotInv
<1>11. \A u \in Sleeping' : slot > 0 /\ sender'[u].wait + Interval <= slot'
    BY <1>3, <1>9, Sleepers DEF SlotInv, Less
<1>12. CASE \A u \in Sleeping : sender[u].wait # 1
    <2>1. Sleeping' = Sleeping
        BY <1>7, <1>8, <1>12, Sleepers
    <2>2. Reserved' = Reserved
        BY <2>1 DEF Reserved
    <2>3. slot' <= Reserved' + Interval
        BY <1>3, <2>2, Sleepers DEF SlotInv, Less
    <2>4. \A u \in Sleeping' : slot' <= sender'[u].wait + Reserved'
        BY <1>3, <1>9, <1>11, <2>2, Sleepers DEF SlotInv, Less
    <2>5. QED
        BY <1>4, <1>10, <1>11, <2>3, <2>4 DEF SlotInv
<1>13. ASSUME NEW w \in Sleeping, sender[w].wait = 1 PROVE ATypes' /\ SlotInv'
    <2>1. \A u \in Sleeping : u # w => sender[u].wait \in Nat /\ sender[u].wait >= 1 + Interval
        <3> SUFFICES ASSUME NEW u \in Sleeping, u # w PROVE sender[u].wait \in Nat /\ sender[u].wait >= 1 + Interval
            OBVIOUS
        <3>1. u \in Senders /\ sender[u].wait \in Nat /\ sender[u].wait > 0
            BY <1>1, <1>5, Sleepers
        <3>2. \/ sender[w].wait >= sender[u].wait + Interval
              \/ sender[u].wait >= sender[w].wait + Interval
            BY <1>13 DEF SlotInv
        <3>3. QED
            BY <1>13, <3>1, <3>2, Sleepers
    <2>2. Sleeping' = Sleeping \ {w}
        <3>1. \A u \in Senders : u \in Sleeping' <=> u \in Sleeping /\ u # w
            BY <1>8, <1>13, <2>1, Sleepers
        <3>2. QED
            BY <1>7, <3>1, Sleepers
    <2>3. Cardinality(Sleeping') = Cardinality(Sleeping) - 1
        BY <1>13, <2>2, Sleepers, FS_RemoveElement
    <2>4. Reserved' = Reserved - Interval /\ Reserved' \in Nat
        <3>1. Cardinality(Sleeping') \in Nat
            BY <2>2, <2>3, Sleepers, FS_RemoveElement, FS_CardinalityType
        <3>2. \A i, n \in Nat : i * (n + 1) = i * n + i /\ i * n \in Nat
            OBVIOUS
        <3>3. Reserved = Interval * (Cardinality(Sleeping') + 1)
            BY <2>3, <3>1, Sleepers DEF Reserved
        <3>4. Reserved = Reserved' + Interval /\ Reserved' \in Nat
            BY <3>1, <3>2, <3>3, Sleepers DEF Reserved
        <3>5. Interval \in Nat /\ Reserved \in Nat
            BY Sleepers
        <3>6. \A a, b, c \in Nat : a = b + c => b = a - c
            OBVIOUS
        <3>7. QED
            BY <3>4, <3>5, <3>6
    <2>5. slot <= 1 + Reserved /\ slot > 0 /\ slot' = slot - 1
        BY <1>3, <1>13, Sleepers DEF SlotInv, Less
    <2>6. slot' <= Reserved' + Interval
        BY <1>3, <2>4, <2>5, Sleepers
    <2>7. \A u \in Sleeping' : slot' <= sender'[u].wait + Reserved'
        BY <1>3, <1>9, <2>1, <2>2, <2>4, <2>5, Sleepers
    <2>8. QED
        BY <1>4, <1>10, <1>11, <2>6, <2>7 DEF SlotInv
<1>14. QED
    BY <1>12, <1>13

-----------------------------------------------------------------------------
(* The attempts                                                            *)

\* Until it is given up, every attempt of an alert but the one under way has met a fault.
SenderOk(r) ==
    /\ r.at \in {"throttle", "sleep", "backoff"} => r.faults = r.attempt /\ BodyFits(r.embed)
    /\ r.at = "dropped" => r.faults = MaxPosts \/ ~hookOk \/ FooterTips(r.embed)

AInv == ATypes /\ SlotInv /\ \A t \in Senders : SenderOk(sender[t])

LEMMA SenderMoves ==
    ASSUME AInv, NEW t \in Senders, NEW q \in SenderRec, sender' = [sender EXCEPT ![t] = q], SenderOk(q),
           slot' \in Nat, hookOk' = hookOk, alerts' \in 0 .. MaxAlerts, SlotInv'
    PROVE  AInv'
<1>1. \A u \in Senders : sender'[u] = IF u = t THEN q ELSE sender[u]
    BY DEF AInv, ATypes
<1>2. ATypes'
    BY DEF AInv, ATypes
<1>3. \A u \in Senders : SenderOk(sender'[u])
    BY <1>1 DEF AInv
<1>4. \A u \in Senders : SenderOk(sender[u])'
    BY <1>3 DEF SenderOk
<1>5. QED
    BY <1>2, <1>4 DEF AInv

LEMMA AlertsStep == AInv /\ [AlertsNext]_alertsVars => AInv'
<1> SUFFICES ASSUME AInv, [AlertsNext]_alertsVars PROVE AInv'
    OBVIOUS
<1>0. ATypes /\ SlotInv /\ \A t \in Senders : sender[t] \in SenderRec /\ SenderOk(sender[t])
    BY DEF AInv, ATypes
<1>1. CASE AlertTick
    <2>1. ATypes' /\ SlotInv' /\ hookOk' = hookOk
        BY <1>0, <1>1, TickStep DEF AlertTick
    <2>2. \A t \in Senders : /\ sender'[t].at = sender[t].at /\ sender'[t].faults = sender[t].faults
                             /\ sender'[t].attempt = sender[t].attempt /\ sender'[t].embed = sender[t].embed
        BY <1>0, <1>1 DEF AlertTick, ATypes, SenderRec
    <2>3. \A t \in Senders : SenderOk(sender[t])'
        BY <1>0, <2>1, <2>2 DEF SenderOk
    <2>4. QED
        BY <2>1, <2>3 DEF AInv
\* A step of one sender, but for the throttle.
<1>2. ASSUME NEW t \in Senders, NEW q \in SenderRec, SenderOk(q), sender' = [sender EXCEPT ![t] = q],
             t \notin Sleeping, q.at # "sleep", UNCHANGED <<slot, hookOk>>, alerts' \in 0 .. MaxAlerts
      PROVE AInv'
    <2>1. SlotInv'
        BY <1>0, <1>2, SlotFrame
    <2>2. slot' \in Nat
        BY <1>0, <1>2 DEF ATypes
    <2>3. QED
        BY <1>2, <2>1, <2>2, SenderMoves
<1>3. ASSUME NEW t \in Senders, NEW e \in Embeds, BeginAlert(t, e) PROVE AInv'
    <2> DEFINE q == [IdleSender EXCEPT !.at = "throttle", !.embed = SanitizeEmbed(e)]
    <2>1. /\ q \in SenderRec /\ q.at = "throttle" /\ q.faults = q.attempt /\ q.embed = SanitizeEmbed(e)
        <3>1. PICK b \in AllEmbeds : b = SanitizeEmbed(e)
            BY DEF AllEmbeds
        <3>2. q = [IdleSender EXCEPT !.at = "throttle", !.embed = b]
            BY <3>1
        <3>3. IdleSender \in SenderRec /\ IdleSender.faults = IdleSender.attempt
            BY Sleepers DEF IdleSender, SenderRec, AllEmbeds
        <3>4. QED
            BY <3>1, <3>2, <3>3 DEF SenderRec
    <2>2. sender' = [sender EXCEPT ![t] = q] /\ UNCHANGED <<slot, hookOk>> /\ t \notin Sleeping
        BY <1>3 DEF BeginAlert, PutSender, Sleeping
    <2>3. alerts' \in 0 .. MaxAlerts
        BY <1>0, <1>3, Sleepers DEF BeginAlert, ATypes
    <2> HIDE DEF q
    <2>4. SenderOk(q)
        BY <2>1, SanitizedFits DEF SenderOk
    <2>5. QED
        BY <1>2, <2>1, <2>2, <2>3, <2>4
<1>4. ASSUME NEW t \in Senders, Throttle(t) PROVE AInv'
    <2> DEFINE q == [sender[t] EXCEPT !.at = "sleep", !.wait = slot]
    <2>1. /\ q \in SenderRec /\ q.at = "sleep" /\ q.faults = sender[t].faults /\ q.attempt = sender[t].attempt
          /\ q.embed = sender[t].embed
        BY <1>0 DEF SenderRec, ATypes
    <2>2. sender' = [sender EXCEPT ![t] = q] /\ hookOk' = hookOk /\ alerts' = alerts
        BY <1>4 DEF Throttle, PutSender
    <2> HIDE DEF q
    <2>3. SenderOk(q)
        BY <1>0, <1>4, <2>1 DEF SenderOk, Throttle
    <2>4. SlotInv'
        BY <1>0, <1>4, ThrottleStep
    <2>5. slot' \in Nat /\ alerts' \in 0 .. MaxAlerts
        BY <1>0, <1>4, <2>2, Sleepers DEF Throttle, ATypes
    <2>6. QED
        BY <2>1, <2>2, <2>3, <2>4, <2>5, SenderMoves
<1>5. ASSUME NEW t \in Senders, NEW place \in {"sent", "dropped", "throttle"},
             PutSender(t, [sender[t] EXCEPT !.at = place]), UNCHANGED <<slot, hookOk, alerts>>,
             t \notin Sleeping, sender[t].at \in {"sleep", "backoff"},
             place = "dropped" => ~hookOk \/ TooLong(sender[t].embed)
      PROVE AInv'
    <2> DEFINE q == [sender[t] EXCEPT !.at = place]
    <2>1. /\ q \in SenderRec /\ q.at = place /\ q.faults = sender[t].faults /\ q.attempt = sender[t].attempt
          /\ q.embed = sender[t].embed
        BY <1>0 DEF SenderRec
    <2>2. sender' = [sender EXCEPT ![t] = q]
        BY <1>5 DEF PutSender
    <2> HIDE DEF q
    <2>3. SenderOk(q)
        BY <1>0, <1>5, <2>1 DEF SenderOk, FooterTips, BodyFits
    <2>4. alerts' \in 0 .. MaxAlerts
        BY <1>0, <1>5 DEF ATypes
    <2>5. QED
        BY <1>2, <1>5, <2>1, <2>2, <2>3, <2>4
<1>6. ASSUME NEW t \in Senders, PostOk(t) \/ PostRejected(t) \/ BackoffOver(t) PROVE AInv'
    <2>1. t \notin Sleeping
        BY <1>6 DEF PostOk, PostRejected, BackoffOver, Sleeping
    <2>2. CASE PostOk(t)
        BY <1>5, <2>1, <2>2 DEF PostOk
    <2>3. CASE PostRejected(t)
        BY <1>5, <2>1, <2>3 DEF PostRejected
    <2>4. CASE BackoffOver(t)
        BY <1>5, <2>1, <2>4 DEF BackoffOver
    <2>5. QED
        BY <1>6, <2>2, <2>3, <2>4
<1>7. ASSUME NEW t \in Senders, AlertReturns(t) PROVE AInv'
    <2>1. IdleSender \in SenderRec /\ IdleSender.at = "idle"
        BY Sleepers DEF IdleSender, SenderRec, AllEmbeds
    <2>2. SenderOk(IdleSender)
        BY <2>1 DEF SenderOk
    <2>3. /\ sender' = [sender EXCEPT ![t] = IdleSender] /\ UNCHANGED <<slot, hookOk>> /\ alerts' \in 0 .. MaxAlerts
          /\ t \notin Sleeping
        BY <1>0, <1>7 DEF AlertReturns, PutSender, Sleeping, ATypes
    <2>4. QED
        BY <1>2, <2>1, <2>2, <2>3
<1>8. ASSUME NEW t \in Senders, NEW wait \in 0 .. RetryCap, PostFails(t, wait) PROVE AInv'
    <2> DEFINE q == AfterFault(sender[t], wait)
    <2>1. wait \in Nat /\ sender[t].attempt \in 0 .. MaxPosts - 1 /\ sender[t].faults = sender[t].attempt
        BY <1>0, <1>8, AlertsAssumption DEF PostFails, SenderOk, SenderRec
    <2>2. /\ q \in SenderRec /\ q.at \in {"backoff", "dropped"} /\ q.embed = sender[t].embed
          /\ q.at = "backoff" => q.faults = q.attempt
          /\ q.at = "dropped" => q.faults = MaxPosts
        <3>1. PICK r \in SenderRec : r = sender[t]
            BY <1>0
        <3>2. PICK a \in 0 .. MaxPosts - 1 : r.attempt = a /\ r.faults = a
            BY <2>1, <3>1
        <3>3. a + 1 \in 0 .. MaxPosts
            BY <3>2, Sleepers
        <3>4. CASE a < MaxPosts - 1
            <4>1. q = [r EXCEPT !.at = "backoff", !.attempt = a + 1, !.faults = a + 1, !.wait = wait]
                BY <3>1, <3>2, <3>4 DEF AfterFault
            <4>2. a + 1 \in 0 .. MaxPosts - 1
                BY <3>2, <3>4, Sleepers
            <4>3. QED
                BY <2>1, <3>1, <3>3, <4>1, <4>2 DEF SenderRec
        <3>5. CASE ~(a < MaxPosts - 1)
            <4>1. q = [r EXCEPT !.at = "dropped", !.faults = a + 1]
                BY <3>1, <3>2, <3>5 DEF AfterFault
            <4>2. a + 1 = MaxPosts
                BY <3>2, <3>5, Sleepers
            <4>3. QED
                BY <3>1, <3>3, <4>1, <4>2 DEF SenderRec
        <3>6. QED
            BY <3>4, <3>5
    <2>4. sender' = [sender EXCEPT ![t] = q] /\ UNCHANGED <<slot, hookOk>> /\ t \notin Sleeping
        BY <1>8 DEF PostFails, PutSender, Sleeping
    <2>5. alerts' \in 0 .. MaxAlerts
        BY <1>0, <1>8 DEF PostFails, ATypes
    <2> HIDE DEF q
    <2>6. SenderOk(q)
        BY <1>0, <1>8, <2>2 DEF SenderOk, PostFails
    <2>7. QED
        BY <1>2, <2>2, <2>4, <2>5, <2>6
<1>9. CASE UNCHANGED alertsVars
    <2>1. UNCHANGED <<sender, slot, hookOk, alerts>>
        BY <1>9 DEF alertsVars
    <2>2. QED
        BY <2>1 DEF AInv, ATypes, SlotInv, SenderOk, Reserved, Sleeping
<1>10. QED
    BY <1>1, <1>3, <1>4, <1>6, <1>7, <1>8, <1>9 DEF AlertsNext

LEMMA AlertsInvariant == AlertsSpec => []AInv
<1>1. AlertsInit => AInv
    <2> SUFFICES ASSUME AlertsInit PROVE AInv
        OBVIOUS
    <2>1. IdleSender \in SenderRec /\ IdleSender.at = "idle"
        BY Sleepers DEF IdleSender, SenderRec, AllEmbeds
    <2>2. ATypes
        BY <2>1, Sleepers DEF AlertsInit, ATypes
    <2>3. Sleeping = {} /\ \A t \in Senders : SenderOk(sender[t])
        BY <2>1 DEF AlertsInit, Sleeping, SenderOk
    <2>4. SlotInv
        BY <2>3, Sleepers DEF AlertsInit, SlotInv
    <2>5. QED
        BY <2>2, <2>3, <2>4 DEF AInv
<1>2. QED
    BY <1>1, AlertsStep, PTL DEF AlertsSpec

\* For any number of threads: the sleep outside the lock never brings two posts closer than the
\* interval of _throttle, and no sender sleeps longer than an interval per sender.
THEOREM SlotsStayApart == AlertsSpec => []SlotsApart
<1>1. AInv => SlotsApart
    BY SlotInvImplies DEF AInv
<1>2. QED
    BY <1>1, AlertsInvariant, PTL

\* For any limits, any interval and any number of attempts: the sender gives up only on a
\* webhook that does not exist, on a fault in every attempt, or on an embed that the
\* footer, which _sanitize_embed does not count, makes too long.
THEOREM AlertsArePersistent == AlertsSpec => []AlertsPersist
<1>1. AInv => AlertsPersist
    BY DEF AInv, SenderOk, AlertsPersist
<1>2. QED
    BY <1>1, AlertsInvariant, PTL

LEMMA AlertsTypeCorrect == AlertsSpec => []AlertsTypeOK
<1>1. AInv => AlertsTypeOK
    <2> SUFFICES ASSUME AInv PROVE AlertsTypeOK
        OBVIOUS
    <2>1. ASSUME NEW t \in Senders PROVE sender[t] \in SenderRec
        BY DEF AInv, ATypes
    <2>2. QED
        BY <2>1 DEF AInv, ATypes, SenderRec, AlertsTypeOK
<1>2. QED
    BY <1>1, AlertsInvariant, PTL

-----------------------------------------------------------------------------
(* The types of the parts: directories                                     *)

\* Only scans extract, and the crashes are counted.
DirsBounded == full \subseteq Scans /\ crashes \in 0 .. MaxCrashes

LEMMA DirsBoundedSteps == DirsBounded /\ [WorkdirsNext]_workdirsVars => DirsBounded'
<1> SUFFICES ASSUME DirsBounded, [WorkdirsNext]_workdirsVars PROVE DirsBounded'
    OBVIOUS
<1>0. full \subseteq Scans /\ crashes \in 0 .. MaxCrashes /\ MaxCrashes \in Nat
    BY WorkdirsAssumption DEF DirsBounded
<1>1. ASSUME full' \subseteq full, crashes' = crashes PROVE DirsBounded'
    BY <1>0, <1>1 DEF DirsBounded
<1>2. CASE WorkTick
    BY <1>1, <1>2 DEF WorkTick
<1>3. CASE SweepAll
    BY <1>1, <1>3 DEF SweepAll
<1>4. CASE Crash
    BY <1>0, <1>4 DEF Crash, DirsBounded
<1>5. ASSUME NEW j \in Jobs, MakeDownloadDir(j) \/ FetchOk(j) \/ ThreadStarts(j) \/ TimeOut(j)
      PROVE  DirsBounded'
    BY <1>1, <1>5 DEF MakeDownloadDir, FetchOk, ThreadStarts, TimeOut, Quiet
<1>6. ASSUME NEW j \in Jobs, Finally(j) PROVE DirsBounded'
    BY <1>1, <1>6 DEF Finally, Cleanup, Quiet
<1>7. ASSUME NEW j \in Jobs, NEW recorded \in BOOLEAN, FetchFails(j, recorded) PROVE DirsBounded'
    BY <1>1, <1>7 DEF FetchFails, Quiet
<1>8. ASSUME NEW s \in Scans, NEW f \in Fetchers, BeginScan(s, f) PROVE DirsBounded'
    BY <1>1, <1>8 DEF BeginScan, Quiet
<1>9. ASSUME NEW s \in Scans, StartExtract(s) \/ ExtractMember(s) \/ AnalysisFails(s) \/ SubmitPersist(s)
      PROVE  DirsBounded'
    BY <1>1, <1>9 DEF StartExtract, ExtractMember, AnalysisFails, SubmitPersist, Quiet
<1>10. ASSUME NEW s \in Scans, PersistEnds(s) PROVE DirsBounded'
    BY <1>1, <1>10 DEF PersistEnds, Cleanup, Quiet
<1>11. ASSUME NEW s \in Scans, NEW ok \in BOOLEAN, ExtractEnds(s, ok) PROVE DirsBounded'
    BY <1>0, <1>11 DEF ExtractEnds, Quiet, DirsBounded
<1>12. ASSUME NEW d \in Detonations, NEW f \in Fetchers, BeginDetonation(d, f) PROVE DirsBounded'
    BY <1>1, <1>12 DEF BeginDetonation, Quiet
<1>13. ASSUME NEW d \in Detonations, DetonateEnds(d) PROVE DirsBounded'
    BY <1>1, <1>13 DEF DetonateEnds, Quiet
<1>14. ASSUME NEW d \in Detonations, NEW vaulted \in BOOLEAN, StageEnds(d, vaulted) PROVE DirsBounded'
    BY <1>1, <1>14 DEF StageEnds, Quiet
<1>15. CASE UNCHANGED workdirsVars
    BY <1>1, <1>15 DEF workdirsVars
<1>16. QED
    BY <1>2, <1>3, <1>4, <1>5, <1>6, <1>7, <1>8, <1>9, <1>10, <1>11, <1>12, <1>13, <1>14, <1>15
    DEF WorkdirsNext

LEMMA WorkdirsTypeCorrect == WorkdirsSpec => []WorkdirsTypeOK
<1>1. WorkdirsInit => DirsBounded
    BY WorkdirsAssumption DEF WorkdirsInit, DirsBounded
<1>2. WorkdirsInv /\ DirsBounded => WorkdirsTypeOK
    <2> SUFFICES ASSUME WorkdirsInv, DirsBounded PROVE WorkdirsTypeOK
        OBVIOUS
    <2>1. ASSUME NEW j \in Jobs PROVE job[j] \in JobRec /\ trees[j] \in Ages /\ dl[j] \in Ages
        BY DEF WorkdirsInv
    <2>2. QED
        BY <2>1 DEF WorkdirsInv, DirsBounded, WorkdirsTypeOK, JobRec, Stages, ThreadsOf, Ages
<1>3. QED
    BY <1>1, <1>2, DirsBoundedSteps, WorkdirsInvariant, PTL DEF WorkdirsSpec

-----------------------------------------------------------------------------
(* The types of the parts: versions                                        *)

\* The ages a row of the archive may have, and the versions it may be of.
LEMMA AgesWithin == {0} \subseteq 0 .. Window + 1 /\ \A a \in 0 .. Window + 1 : a <= Window => a + 1 \in 0 .. Window + 1
BY RepublishBoundAssumption

LEMMA RecordTyped ==
    ASSUME RepublishTypeOK, NEW v \in 1 .. MaxVersions, NEW hashes \in Trees, NEW found \in SUBSET Paths,
           Record(v, hashes, found)
    PROVE  archive' \in Seq(ScanRecord) /\ Len(archive') <= MaxPersisted
<1> DEFINE r == [ver |-> v, hashes |-> hashes, found |-> found, age |-> 0]
<1>1. r \in ScanRecord
    BY AgesWithin DEF ScanRecord
<1>2. archive \in Seq(ScanRecord) /\ Len(archive) < MaxPersisted /\ archive' = Append(archive, r)
    BY DEF RepublishTypeOK, Record
<1> HIDE DEF r
<1>3. archive' \in Seq(ScanRecord) /\ Len(archive') = Len(archive) + 1 /\ Len(archive) \in Nat
    BY <1>1, <1>2
<1>4. QED
    BY <1>2, <1>3, RepublishBoundAssumption

LEMMA RepublishTyped == RepublishFrame /\ RepublishTypeOK /\ [RepublishNext]_republishVars => RepublishTypeOK'
<1> SUFFICES ASSUME RepublishFrame, RepublishTypeOK, [RepublishNext]_republishVars PROVE RepublishTypeOK'
    OBVIOUS
<1> DEFINE S == [ver : 0 .. MaxVersions, baseline : Trees]
<1>0. /\ releases \in Seq(Trees) /\ Len(releases) <= MaxVersions /\ Len(releases) \in Nat
      /\ archive \in Seq(ScanRecord) /\ Len(archive) <= MaxPersisted
      /\ scanning \in [Scanners -> S] /\ autoListed \in BOOLEAN /\ MaxVersions \in Nat
    BY RepublishBoundAssumption DEF RepublishTypeOK
<1>1. IdleScanner \in S
    BY <1>0 DEF IdleScanner, NoTree, Trees, Contents
<1>2. ASSUME NEW w \in Scanners, scanning[w] # IdleScanner
      PROVE  /\ scanning[w].ver \in 1 .. MaxVersions
             /\ releases[scanning[w].ver] \in Trees
    <2>1. scanning[w].ver \in DOMAIN releases
        BY <1>2 DEF RepublishFrame
    <2>2. QED
        BY <1>0, <2>1
<1>3. ASSUME NEW files \in Trees, Publish(files) PROVE RepublishTypeOK'
    <2>1. /\ releases' = Append(releases, files) /\ Len(releases) < MaxVersions
          /\ UNCHANGED <<archive, scanning, autoListed>>
        BY <1>3 DEF Publish
    <2>2. releases' \in Seq(Trees) /\ Len(releases') = Len(releases) + 1
        BY <1>0, <2>1
    <2>3. Len(releases') <= MaxVersions
        BY <1>0, <2>1, <2>2
    <2>4. QED
        BY <1>0, <2>1, <2>2, <2>3 DEF RepublishTypeOK
<1>4. ASSUME NEW w \in Scanners, NEW v \in DOMAIN releases, ReadBaseline(w, v) PROVE RepublishTypeOK'
    <2>1. v \in 0 .. MaxVersions
        BY <1>0
    <2>2. PrevHashes(v) \in Trees
        <3>1. NoTree \in Trees
            BY DEF NoTree, Trees, Contents
        <3>2. \/ PrevHashes(v) = NoTree
              \/ \E i \in DOMAIN archive : PrevHashes(v) = archive[i].hashes
            BY PrevHashesFrom
        <3>3. QED
            BY <3>1, <3>2, RowsTyped
    <2>3. [ver |-> v, baseline |-> PrevHashes(v)] \in S
        BY <2>1, <2>2
    <2>4. QED
        BY <1>0, <1>4, <2>3 DEF ReadBaseline, RepublishTypeOK
<1>5. ASSUME NEW w \in Scanners, PersistScan(w) PROVE RepublishTypeOK'
    <2> DEFINE cur == releases[scanning[w].ver]
               found == {p \in Changed(cur, scanning[w].baseline) : cur[p] = "mal"} \union Forwarded(cur)
    <2>1. /\ scanning[w] # IdleScanner /\ Record(scanning[w].ver, cur, found)
          /\ scanning' = [scanning EXCEPT ![w] = IdleScanner] /\ UNCHANGED <<releases, autoListed>>
        BY <1>5 DEF PersistScan
    <2>2. scanning[w].ver \in 1 .. MaxVersions /\ cur \in Trees
        BY <1>2, <2>1
    <2>3. found \in SUBSET Paths
        <3>1. Forwarded(cur) \subseteq Paths
            <4>1. CASE ~(autoListed /\ Recent # {})
                BY <4>1 DEF Forwarded
            <4>2. CASE autoListed /\ Recent # {}
                <5>1. PICK n \in Nat : n = Len(archive) /\ DOMAIN archive = 1 .. n
                    BY <1>0
                <5>2. Max(Recent) \in DOMAIN archive
                    <6>1. Recent \in SUBSET (0 .. n) /\ Recent # {}
                        BY <4>2, <5>1 DEF Recent
                    <6>2. Max(Recent) \in Recent
                        BY <6>1, MaxOfNaturals
                    <6>3. QED
                        BY <6>2 DEF Recent
                <5>3. archive[Max(Recent)].found \in SUBSET Paths
                    BY <5>2, RowsTyped
                <5>4. QED
                    BY <4>2, <5>3 DEF Forwarded, Carried
            <4>3. QED
                BY <4>1, <4>2
        <3>2. QED
            BY <3>1 DEF Changed
    <2> HIDE DEF cur, found
    <2>4. archive' \in Seq(ScanRecord) /\ Len(archive') <= MaxPersisted
        BY <2>1, <2>2, <2>3, RecordTyped
    <2>5. QED
        BY <1>0, <1>1, <2>1, <2>4 DEF RepublishTypeOK
<1>6. ASSUME NEW w \in Scanners, PersistFetchError(w) PROVE RepublishTypeOK'
    <2>1. /\ scanning[w] # IdleScanner /\ Record(scanning[w].ver, NoTree, {})
          /\ scanning' = [scanning EXCEPT ![w] = IdleScanner] /\ UNCHANGED <<releases, autoListed>>
        BY <1>6 DEF PersistFetchError
    <2>2. scanning[w].ver \in 1 .. MaxVersions /\ NoTree \in Trees /\ {} \in SUBSET Paths
        BY <1>2, <2>1 DEF NoTree, Trees, Contents
    <2>3. archive' \in Seq(ScanRecord) /\ Len(archive') <= MaxPersisted
        BY <2>1, <2>2, RecordTyped
    <2>4. QED
        BY <1>0, <1>1, <2>1, <2>3 DEF RepublishTypeOK
<1>7. ASSUME NEW w \in Scanners, ScanLost(w) PROVE RepublishTypeOK'
    BY <1>0, <1>1, <1>7 DEF ScanLost, RepublishTypeOK
<1>8. CASE AutoListing
    BY <1>0, <1>8 DEF AutoListing, RepublishTypeOK
<1>9. CASE ScansAge
    <2>1. /\ archive' = [i \in DOMAIN archive |-> [archive[i] EXCEPT !.age = IF @ <= Window THEN @ + 1 ELSE @]]
          /\ UNCHANGED <<releases, scanning, autoListed>>
        BY <1>9 DEF ScansAge
    <2>2. ASSUME NEW i \in DOMAIN archive PROVE archive'[i] \in ScanRecord
        <3>1. archive[i] \in ScanRecord
            BY <1>0
        <3>2. (IF archive[i].age <= Window THEN archive[i].age + 1 ELSE archive[i].age) \in 0 .. Window + 1
            BY <3>1, AgesWithin DEF ScanRecord
        <3>3. archive'[i] = [archive[i] EXCEPT !.age = IF archive[i].age <= Window THEN archive[i].age + 1 ELSE archive[i].age]
            BY <2>1
        <3>4. QED
            BY <3>1, <3>2, <3>3 DEF ScanRecord
    <2>3. DOMAIN archive = 1 .. Len(archive) /\ Len(archive) \in Nat
        BY <1>0
    <2>4. archive' \in [1 .. Len(archive) -> ScanRecord]
        BY <2>1, <2>2, <2>3
    <2>5. archive' \in Seq(ScanRecord) /\ Len(archive') = Len(archive)
        BY <2>3, <2>4
    <2>6. QED
        BY <1>0, <2>1, <2>5 DEF RepublishTypeOK
<1>10. CASE UNCHANGED republishVars
    BY <1>0, <1>10 DEF republishVars, RepublishTypeOK
<1>11. QED
    BY <1>3, <1>4, <1>5, <1>6, <1>7, <1>8, <1>9, <1>10 DEF RepublishNext

LEMMA RepublishTypeCorrect == RepublishSpec => []RepublishTypeOK
<1>1. RepublishInit => RepublishTypeOK
    <2> SUFFICES ASSUME RepublishInit PROVE RepublishTypeOK
        OBVIOUS
    <2>1. releases = <<>> /\ archive = <<>> /\ autoListed = FALSE
        BY DEF RepublishInit
    <2>2. <<>> \in Seq(Trees) /\ <<>> \in Seq(ScanRecord) /\ Len(<<>>) = 0
        OBVIOUS
    <2>3. NoTree \in Trees
        BY DEF NoTree, Trees, Contents
    <2>4. scanning \in [Scanners -> [ver : 0 .. MaxVersions, baseline : Trees]]
        BY <2>3, RepublishBoundAssumption DEF RepublishInit, IdleScanner
    <2>5. /\ releases \in Seq(Trees) /\ Len(releases) <= MaxVersions
          /\ archive \in Seq(ScanRecord) /\ Len(archive) <= MaxPersisted
        <3>1. 0 <= MaxVersions /\ 0 <= MaxPersisted
            BY RepublishBoundAssumption
        <3>2. QED
            BY <2>1, <2>2, <3>1, Zenon
    <2>6. QED
        BY <2>1, <2>4, <2>5, Zenon DEF RepublishTypeOK
<1>2. RepublishInv => RepublishFrame
    BY DEF RepublishInv
<1>3. QED
    BY <1>1, <1>2, RepublishTyped, RepublishStarts, RepublishSteps, PTL DEF RepublishSpec

-----------------------------------------------------------------------------
(* The types of the parts: what the LLM is shown                           *)

\* The companions are cut where the limit is; a block of the other passes fits below it.
GatheredWithin ==
    /\ gecosystem \in {"pypi", "crates", "gomod", "npm"}
    /\ gpass = "pth" => total <= MaxCode
    /\ total <= MaxCode + Marker
    /\ gtodo \subseteq Files /\ seen \subseteq Files /\ shown \subseteq Files /\ gone \subseteq Files

LEMMA GatheredSteps == EvidenceInv /\ GatheredWithin /\ [EvidenceNext]_evidenceVars => GatheredWithin'
<1> SUFFICES ASSUME EvidenceInv, GatheredWithin, [EvidenceNext]_evidenceVars PROVE GatheredWithin'
    OBVIOUS
<1>0. /\ {MaxCode, Reserve, EntryCap, FileCap, Excerpt, Marker, MinTail} \subseteq Nat /\ total \in Nat
      /\ Reserve <= MaxCode
    BY EvidenceBoundAssumption, ReserveAssumption DEF EvidenceInv
<1>1. ASSUME NEW f \in Files, EntryStep(f) PROVE GatheredWithin'
    <2>1. PICK b \in Nat : b = Cut(tree[f].size, EntryCap)
        <3>1. tree[f].size \in Nat
            BY DEF EvidenceInv, FileKind
        <3>2. QED
            BY <1>0, <3>1, CutNat
    <2>2. total <= Reserve
        BY <1>1 DEF EntryStep, EvidenceInv
    <2>3. (total' = total \/ (total' = total + b /\ ~(total + b > Reserve))) /\ gpass' = "entry"
        BY <1>1, <2>1 DEF EntryStep, Skip, Show
    <2>4. total' <= MaxCode
        BY <1>0, <2>1, <2>2, <2>3
    <2>5. QED
        BY <1>0, <1>1, <2>3, <2>4 DEF EntryStep, Skip, Show, LookedAt, GatheredWithin
<1>2. ASSUME NEW f \in Files, Include(f) PROVE GatheredWithin'
    <2>0. tree[f].size \in Nat /\ total <= MaxCode /\ Flagged \subseteq Files
        BY <1>2 DEF EvidenceInv, FileKind, Include, GatheredWithin, Flagged
    <2>1. CASE f \in seen \union gone
        BY <1>2, <2>1 DEF Include, LookedAt, Skip, GatheredWithin
    <2>2. CASE f \notin seen \union gone /\ total + tree[f].size <= MaxCode
        BY <1>0, <1>2, <2>0, <2>2 DEF Include, LookedAt, Show, ToConvict, GatheredWithin
    <2>3. CASE f \notin seen \union gone /\ total + tree[f].size > MaxCode
        BY <1>0, <1>2, <2>0, <2>3 DEF Include, Show, Skip, ToConvict, GatheredWithin
    <2>4. QED
        BY <1>0, <2>0, <2>1, <2>2, <2>3
<1>3. ASSUME NEW f \in Files, ConvictStep(f) PROVE GatheredWithin'
    <2>1. PICK b \in Nat : b = BlockOf(f)
        BY BlockFits DEF EvidenceInv
    <2>2. total < MaxCode /\ (total' = total \/ (total' = total + b /\ ~(total + b > MaxCode))) /\ gpass' # "pth"
        BY <1>3, <2>1 DEF ConvictStep, Skip, Show
    <2>3. total' <= MaxCode + Marker
        BY <1>0, <2>1, <2>2
    <2>4. QED
        BY <1>3, <2>2, <2>3 DEF ConvictStep, Skip, Show, LookedAt, GatheredWithin
<1>4. ASSUME NEW f \in Files, Vanish(f) PROVE GatheredWithin'
    BY <1>4 DEF Vanish, GatheredWithin
<1>5. CASE EntryEnds
    <2>1. total <= MaxCode
        BY <1>0, <1>5 DEF EntryEnds, EvidenceInv
    <2>2. Companions \subseteq Files /\ Flagged \subseteq Files
        BY DEF Companions, Flagged
    <2>3. QED
        BY <1>5, <2>1, <2>2 DEF EntryEnds, GatheredWithin
<1>6. CASE CompanionsEnd
    BY <1>6 DEF CompanionsEnd, ToConvict, Flagged, GatheredWithin
<1>7. CASE ConvictEnds
    BY <1>7 DEF ConvictEnds, GatheredWithin
<1>8. CASE UNCHANGED evidenceVars
    BY <1>8 DEF evidenceVars, GatheredWithin
<1>9. QED
    BY <1>1, <1>2, <1>3, <1>4, <1>5, <1>6, <1>7, <1>8 DEF EvidenceNext

LEMMA EvidenceTypeCorrect == EvidenceSpec => []EvidenceTypeOK
<1>1. EvidenceInit => GatheredWithin
    <2> SUFFICES ASSUME EvidenceInit PROVE GatheredWithin
        OBVIOUS
    <2>1. EntryFiles \subseteq Files
        BY DEF EntryFiles
    <2>2. QED
        BY <2>1, EvidenceBoundAssumption DEF EvidenceInit, GatheredWithin
<1>2. EvidenceInv /\ GatheredWithin => EvidenceTypeOK
    <2> SUFFICES ASSUME EvidenceInv, GatheredWithin PROVE EvidenceTypeOK
        OBVIOUS
    <2>1. total \in 0 .. MaxCode + Marker
        BY EvidenceBoundAssumption DEF EvidenceInv, GatheredWithin
    <2>2. QED
        BY <2>1 DEF EvidenceInv, GatheredWithin, EvidenceTypeOK
<1>3. QED
    BY <1>1, <1>2, EvidenceStarts, EvidenceSteps, GatheredSteps, PTL DEF EvidenceSpec

-----------------------------------------------------------------------------
(* The types of the parts: triage                                          *)

\* The calls recorded are of the last hour, or have just left it.
CallAges == 0 .. Hour + 1
CallsAged == callTimes \in Seq(CallAges) /\ started \in 0 .. MaxTriages

LEMMA HourKeeps == ASSUME NEW calls \in Seq(CallAges) PROVE WithinHour(calls) \in Seq(CallAges)
<1>1. calls \in Seq(Nat)
    <2>1. Len(calls) \in Nat /\ calls \in [1 .. Len(calls) -> CallAges]
        OBVIOUS
    <2>2. CallAges \subseteq Nat
        BY TriageBoundAssumption DEF CallAges
    <2>3. calls \in [1 .. Len(calls) -> Nat]
        BY <2>1, <2>2
    <2>4. QED
        BY <2>1, <2>3
<1>2. CASE Young(calls) = {}
    BY <1>2 DEF WithinHour, Young
<1>3. CASE Young(calls) # {}
    <2>1. PICK m \in Young(calls) : WithinHour(calls) = SubSeq(calls, m, Len(calls))
        BY <1>1, <1>3, YoungLength
    <2>2. m \in 1 .. Len(calls) /\ Len(calls) \in Nat
        BY <2>1 DEF Young
    <2>3. QED
        BY <2>1, <2>2
<1>4. QED
    BY <1>2, <1>3

LEMMA CallsAgedSteps == CallsAged /\ [TriageNext]_triageVars => CallsAged'
<1> SUFFICES ASSUME CallsAged, [TriageNext]_triageVars PROVE CallsAged'
    OBVIOUS
<1>0. callTimes \in Seq(CallAges) /\ started \in 0 .. MaxTriages /\ MaxTriages \in Nat /\ 0 \in CallAges
    BY TriageBoundAssumption DEF CallsAged, CallAges
<1>1. ASSUME CheckBudget PROVE callTimes' \in Seq(CallAges)
    BY <1>0, <1>1, HourKeeps DEF CheckBudget
<1>2. ASSUME NEW cost, RecordCall(cost) PROVE callTimes' \in Seq(CallAges)
    BY <1>0, <1>2 DEF RecordCall
<1>3. CASE HourPasses
    <2>1. /\ callTimes' = [i \in DOMAIN callTimes |-> IF callTimes[i] <= Hour THEN callTimes[i] + 1 ELSE callTimes[i]]
          /\ started' = started
        BY <1>3 DEF HourPasses
    <2>2. DOMAIN callTimes = 1 .. Len(callTimes) /\ Len(callTimes) \in Nat
          /\ \A i \in DOMAIN callTimes : callTimes[i] \in CallAges
        BY <1>0
    <2>3. \A a \in CallAges : (IF a <= Hour THEN a + 1 ELSE a) \in CallAges
        BY TriageBoundAssumption DEF CallAges
    <2>4. callTimes' \in [1 .. Len(callTimes) -> CallAges]
        BY <2>1, <2>2, <2>3
    <2>5. callTimes' \in Seq(CallAges)
        BY <2>2, <2>4
    <2>6. QED
        BY <1>0, <2>1, <2>5 DEF CallsAged
<1>4. ASSUME NEW t \in Triagers, NEW case \in TriageCases, Begin(t, case[1], case[2]) PROVE CallsAged'
    BY <1>0, <1>1, <1>4 DEF Begin, CallsAged
<1>5. ASSUME NEW t \in Triagers, CheckBeforeCall(t) PROVE CallsAged'
    BY <1>0, <1>1, <1>5 DEF CheckBeforeCall, CallsAged
<1>6. ASSUME NEW t \in Triagers, CallFails(t) PROVE CallsAged'
    BY <1>0, <1>2, <1>6 DEF CallFails, CallsAged
<1>7. ASSUME NEW t \in Triagers, NEW reply \in Replies, NEW cost \in CallCosts, Reply(t, reply, cost)
      PROVE  CallsAged'
    BY <1>0, <1>2, <1>7 DEF Reply, CallsAged
<1>8. CASE UNCHANGED triageVars
    BY <1>8 DEF triageVars, CallsAged
<1>9. QED
    BY <1>3, <1>4, <1>5, <1>6, <1>7, <1>8 DEF TriageNext

LEMMA TriageTypeCorrect == TriageSpec => []TriageTypeOK
<1>1. TriageInit => CallsAged
    <2> SUFFICES ASSUME TriageInit PROVE CallsAged
        OBVIOUS
    <2>1. callTimes = <<>> /\ started = 0 /\ 0 \in 0 .. MaxTriages
        BY TriageBoundAssumption DEF TriageInit
    <2>2. QED
        BY <2>1 DEF CallsAged
<1>2. TriageInv /\ CallsAged => TriageTypeOK
    BY DEF TriageInv, ThreadsInv, CallsAged, CallAges, TriageTypeOK
<1>3. QED
    BY <1>1, <1>2, CallsAgedSteps, TriageInvariant, PTL DEF TriageSpec
=============================================================================
