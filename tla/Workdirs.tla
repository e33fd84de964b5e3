------------------------------- MODULE Workdirs -------------------------------
(***************************************************************************)
(* The directories of WORK_ROOT: the extract tree of a scan and the        *)
(* directory its archives are downloaded to, made and removed by           *)
(* process_one, its threads, the fetchers and the detonation workers, and  *)
(* by sweep_orphans when nobody did.  A cancelled coroutine does not stop  *)
(* the thread it waits for.  The files inside are not modelled: a tree is  *)
(* full once its archives are extracted.                                   *)
(***************************************************************************)
EXTENDS Integers, FiniteSets

CONSTANTS
    Scans, Detonations,   \* jobs, each of which runs once
    JobTimeout,           \* PROCESS_TIMEOUT_SECONDS, DETONATION_PROCESS_TIMEOUT
    ThreadMax,            \* how long a thread may outlive the start or the timeout of its job
    SweepAge,             \* max_age_seconds
    SweepPeriod,          \* the interval of the sweep_all job
    MaxCrashes            \* bound: process crashes

\* A thread ends before the directories it uses are old enough to be swept.
ASSUME WorkdirsAssumption ==
    /\ {JobTimeout, ThreadMax, SweepAge, SweepPeriod, MaxCrashes} \subseteq Nat
    /\ SweepPeriod > 0 /\ JobTimeout + ThreadMax <= SweepAge
    /\ Scans \intersect Detonations = {}

VARIABLES
    job,      \* per job: its coroutine and the thread it has started
    trees,    \* per job: the age of its extract tree, or Gone
    full,     \* the jobs whose tree holds all the files of the archives
    dl,       \* per job: the age of its download or staging directory, or Gone
    sinceSweep, crashes

workdirsVars == <<job, trees, full, dl, sinceSweep, crashes>>

Jobs == Scans \union Detonations
Gone == -1
\* Does the fetcher remove its directory when it fails or is cancelled?
Tidy == {"pypi"}
Fetchers == Tidy \union {"other"}

\* listed: does the list of archives name the download directory?
NewJob == [at |-> "idle", thread |-> "none", fetcher |-> "other", listed |-> FALSE, failed |-> FALSE,
           extracted |-> FALSE, owned |-> FALSE, run |-> 0]

WorkdirsTypeOK ==
    /\ \A j \in Jobs :
        /\ job[j].at \in {"idle", "fetch", "analyse", "extract", "persist", "stage", "detonate", "finally", "done"}
        /\ job[j].thread \in {"none", "extract", "queued", "persist", "stage"}
        /\ job[j].fetcher \in Fetchers /\ job[j].run \in 0 .. JobTimeout + ThreadMax
        /\ {job[j].listed, job[j].failed, job[j].extracted, job[j].owned} \subseteq BOOLEAN
        /\ {trees[j], dl[j]} \subseteq Nat \union {Gone}
    /\ full \subseteq Scans
    /\ sinceSweep \in 0 .. SweepPeriod /\ crashes \in 0 .. MaxCrashes

WorkdirsInit ==
    /\ job = [j \in Jobs |-> NewJob]
    /\ trees = [j \in Jobs |-> Gone] /\ full = {} /\ dl = [j \in Jobs |-> Gone]
    /\ sinceSweep = 0 /\ crashes = 0

PutJob(j, r) == job' = [job EXCEPT ![j] = r]
Quiet == UNCHANGED <<sinceSweep, crashes>>

-----------------------------------------------------------------------------
(* Fetching: adapter.fetch, of a scan or of a detonation                   *)

BeginScan(s, f) ==
    /\ job[s].at = "idle"
    /\ PutJob(s, [NewJob EXCEPT !.at = "fetch", !.fetcher = f])
    /\ trees' = [trees EXCEPT ![s] = 0]
    /\ UNCHANGED <<full, dl>> /\ Quiet

MakeDownloadDir(j) ==
    /\ job[j].at = "fetch" /\ dl[j] = Gone
    /\ dl' = [dl EXCEPT ![j] = 0]
    /\ UNCHANGED <<job, trees, full>> /\ Quiet

\* The archives are written and their digests match; a replay stages the vaulted archive.
FetchOk(j) ==
    /\ job[j].at = "fetch" /\ dl[j] # Gone
    /\ PutJob(j, [job[j] EXCEPT !.at = IF j \in Scans THEN "analyse" ELSE "detonate", !.listed = TRUE])
    /\ UNCHANGED <<trees, full, dl>> /\ Quiet

AfterFetchFault(j) == IF job[j].fetcher \in Tidy THEN [dl EXCEPT ![j] = Gone] ELSE dl

\* NoFilesError or IntegrityError: a scan goes on to record it.  Any other error ends the job.
FetchFails(j, recorded) ==
    /\ job[j].at = "fetch" /\ (recorded => j \in Scans)
    /\ PutJob(j, [job[j] EXCEPT !.failed = recorded, !.at = IF recorded THEN "analyse" ELSE "finally"])
    /\ dl' = AfterFetchFault(j)
    /\ UNCHANGED <<trees, full>> /\ Quiet

\* The executor starts the thread the coroutine waits for; an extraction begins with a
\* directory for the archive, which renews the age of the tree.
ThreadStarts(j) ==
    /\ job[j].thread = "queued"
    /\ PutJob(j, [job[j] EXCEPT !.thread = job[j].at])
    /\ trees' = IF job[j].at = "extract" THEN [trees EXCEPT ![j] = 0] ELSE trees
    /\ UNCHANGED <<full, dl>> /\ Quiet

-----------------------------------------------------------------------------
(* A scan                                                                  *)

StartExtract(s) ==
    /\ job[s].at = "analyse" /\ s \in Scans /\ ~job[s].failed /\ ~job[s].extracted
    /\ PutJob(s, [job[s] EXCEPT !.at = "extract", !.thread = "queued"])
    /\ UNCHANGED <<trees, full, dl>> /\ Quiet

\* safe_extract makes the parents of every member: also when the tree has been removed.
ExtractMember(s) ==
    /\ job[s].thread = "extract"
    /\ trees' = [trees EXCEPT ![s] = IF trees[s] = Gone THEN 0 ELSE trees[s]]
    /\ UNCHANGED <<job, full, dl>> /\ Quiet

\* _extract_and_hash returns, or raises ExtractionError.
ExtractEnds(s, ok) ==
    LET waited == job[s].at = "extract" IN
    /\ job[s].thread = "extract"
    /\ PutJob(s, [job[s] EXCEPT !.thread = "none", !.extracted = ok,
                    !.at = IF ~waited THEN @ ELSE IF ok THEN "analyse" ELSE "finally"])
    /\ full' = IF ok /\ trees[s] # Gone THEN full \union {s} ELSE full
    /\ UNCHANGED <<trees, dl>> /\ Quiet

AnalysisFails(s) ==
    /\ job[s].at = "analyse" /\ job[s].extracted
    /\ PutJob(s, [job[s] EXCEPT !.at = "finally"])
    /\ UNCHANGED <<trees, full, dl>> /\ Quiet

\* persist_started is set and _persist_thread is given to the executor.
SubmitPersist(s) ==
    /\ job[s].at = "analyse" /\ s \in Scans /\ (job[s].failed \/ job[s].extracted)
    /\ PutJob(s, [job[s] EXCEPT !.at = "persist", !.thread = "queued", !.owned = TRUE])
    /\ UNCHANGED <<trees, full, dl>> /\ Quiet

\* _cleanup_extract
Cleanup(j) ==
    /\ trees' = [trees EXCEPT ![j] = Gone]
    /\ full' = full \ {j}
    /\ dl' = IF job[j].listed THEN [dl EXCEPT ![j] = Gone] ELSE dl

\* _persist_and_finalize returns or raises: the thread's finally.
PersistEnds(s) ==
    /\ job[s].thread = "persist"
    /\ PutJob(s, [job[s] EXCEPT !.thread = "none", !.at = IF @ = "persist" THEN "done" ELSE @])
    /\ Cleanup(s) /\ Quiet

\* Mutant: the coroutine removes the tree although the persist thread has it.
FinallyAlways(j) ==
    /\ job[j].at = "finally"
    /\ PutJob(j, [job[j] EXCEPT !.at = "done"])
    /\ Cleanup(j) /\ Quiet

\* The finally of process_one, unless persist_started, or that of _process_detonation.
Finally(j) ==
    /\ job[j].at = "finally"
    /\ PutJob(j, [job[j] EXCEPT !.at = "done"])
    /\ IF job[j].owned THEN UNCHANGED <<trees, full, dl>> ELSE Cleanup(j)
    /\ Quiet

-----------------------------------------------------------------------------
(* A detonation                                                            *)

BeginDetonation(d, f) ==
    /\ job[d].at = "idle"
    /\ PutJob(d, [NewJob EXCEPT !.at = "stage", !.thread = "queued", !.fetcher = f])
    /\ UNCHANGED <<trees, full, dl>> /\ Quiet

\* _stage_from_vault: the archive is staged, or it is not in the vault and is fetched again.
StageEnds(d, vaulted) ==
    LET waited == job[d].at = "stage" IN
    /\ job[d].thread = "stage"
    /\ dl' = IF vaulted THEN [dl EXCEPT ![d] = 0] ELSE dl
    /\ PutJob(d, [job[d] EXCEPT !.thread = "none", !.listed = waited /\ vaulted,
                    !.at = IF ~waited THEN @ ELSE IF vaulted THEN "detonate" ELSE "fetch"])
    /\ UNCHANGED <<trees, full>> /\ Quiet

DetonateEnds(d) ==
    /\ job[d].at = "detonate"
    /\ PutJob(d, [job[d] EXCEPT !.at = "finally"])
    /\ UNCHANGED <<trees, full, dl>> /\ Quiet

-----------------------------------------------------------------------------
(* Timeouts, crashes and the sweep                                         *)

Waiting == {"fetch", "analyse", "extract", "persist", "stage", "detonate"}

\* wait_for cancels the coroutine: a thread that runs goes on, one that is queued
\* never starts.
TimeOut(j) ==
    /\ job[j].at \in Waiting /\ job[j].run = JobTimeout
    /\ PutJob(j, [job[j] EXCEPT !.at = "finally", !.thread = IF @ = "queued" THEN "none" ELSE @])
    /\ dl' = IF job[j].at = "fetch" THEN AfterFetchFault(j) ELSE dl
    /\ UNCHANGED <<trees, full>> /\ Quiet

Active(j) == job[j].at \notin {"idle", "done"} \/ job[j].thread # "none"

Crash ==
    /\ crashes < MaxCrashes /\ \E j \in Jobs : Active(j)
    /\ job' = [j \in Jobs |-> IF Active(j) THEN [NewJob EXCEPT !.at = "done"] ELSE job[j]]
    /\ sinceSweep' = 0 /\ crashes' = crashes + 1
    /\ UNCHANGED <<trees, full, dl>>

\* Mutant: only the extract trees are swept.
SweptTreesOnly(ages) == [j \in Jobs |-> IF ages = trees /\ ages[j] > SweepAge THEN Gone ELSE ages[j]]

\* sweep_orphans of every adapter, on the same directory.
Swept(ages) == [j \in Jobs |-> IF ages[j] > SweepAge THEN Gone ELSE ages[j]]
SweepAll ==
    /\ sinceSweep = SweepPeriod
    /\ sinceSweep' = 0
    /\ trees' = Swept(trees) /\ dl' = Swept(dl)
    /\ full' = {s \in full : trees'[s] # Gone}
    /\ UNCHANGED <<job, crashes>>

Grown(ages) == [j \in Jobs |-> IF ages[j] = Gone THEN Gone ELSE ages[j] + 1]
WorkTick ==
    /\ sinceSweep < SweepPeriod
    /\ \A j \in Jobs :
        /\ job[j].at \in Waiting => job[j].run < JobTimeout
        /\ Active(j) => job[j].run < JobTimeout + ThreadMax
    /\ \E j \in Jobs : Active(j) \/ trees[j] # Gone \/ dl[j] # Gone
    /\ job' = [j \in Jobs |-> IF Active(j) THEN [job[j] EXCEPT !.run = @ + 1] ELSE job[j]]
    /\ trees' = Grown(trees) /\ dl' = Grown(dl)
    /\ sinceSweep' = sinceSweep + 1
    /\ UNCHANGED <<full, crashes>>

WorkdirsNext ==
    \/ WorkTick \/ SweepAll \/ Crash
    \/ \E j \in Jobs :
        \/ MakeDownloadDir(j) \/ FetchOk(j) \/ ThreadStarts(j) \/ TimeOut(j) \/ Finally(j)
        \/ \E recorded \in BOOLEAN : FetchFails(j, recorded)
    \/ \E s \in Scans :
        \/ \E f \in Fetchers : BeginScan(s, f)
        \/ StartExtract(s) \/ ExtractMember(s) \/ AnalysisFails(s)
        \/ SubmitPersist(s) \/ PersistEnds(s)
        \/ \E ok \in BOOLEAN : ExtractEnds(s, ok)
    \/ \E d \in Detonations :
        \/ \E f \in Fetchers : BeginDetonation(d, f)
        \/ DetonateEnds(d)
        \/ \E vaulted \in BOOLEAN : StageEnds(d, vaulted)

WorkdirsSpec == WorkdirsInit /\ [][WorkdirsNext]_workdirsVars

-----------------------------------------------------------------------------
(* Properties                                                              *)

\* Nothing removes the files a job still reads: the triage in the persist thread finds the whole
\* extract tree and the archives for the vault, also after its coroutine was cancelled, and a
\* detonation finds its archive.
InputsStay ==
    /\ \A s \in Scans : job[s].thread = "persist" /\ ~job[s].failed =>
        s \in full /\ trees[s] # Gone /\ dl[s] # Gone
    /\ \A d \in Detonations : job[d].at = "detonate" => dl[d] # Gone

\* What a failed fetch, a cancelled job, a thread that wrote after the cleanup or a crash leaves
\* behind does not stay: it is swept within a period of reaching the age, one more per crash.
LeftoversSwept ==
    \A j \in Jobs : \A age \in {trees[j], dl[j]} : age <= SweepAge + SweepPeriod * (1 + crashes)
=============================================================================
