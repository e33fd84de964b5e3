------------------------------ MODULE Republish ------------------------------
(***************************************************************************)
(* Successive versions of one package.  The analysers look only at the     *)
(* files that differ from the last scan of the previous version            *)
(* (_find_changed_files of pipeline.py); for a name on the auto watchlist  *)
(* the findings on the other files are carried over from the most recent   *)
(* scan, if it is recent enough (finding_reuse.py).  The hashes are read   *)
(* before the archive is analysed, the findings to carry over in the       *)
(* transaction that persists the scan: scans of two versions overlap.      *)
(***************************************************************************)
EXTENDS Integers, FiniteSets, FiniteSetsExt, Sequences, SequencesExt

CONSTANTS
    Paths,         \* normalized file paths
    Base(_),       \* the basename of a path
    Scanners,      \* workers that scan versions of the package
    Window,        \* PKGWARD_FINDING_REUSE_DAYS, in ticks
    MaxVersions,   \* bound: versions published
    MaxPersisted   \* bound: scans persisted

ASSUME RepublishBoundAssumption == {Window, MaxVersions, MaxPersisted} \subseteq Nat

VARIABLES
    releases,   \* the contents of each version, in the order of publication
    archive,    \* the Scan rows with their file hashes and findings, in the order they finished
    scanning,   \* per worker: the version it scans and the baseline it has read
    autoListed  \* is the name on the watchlist with the sentinel rank?

republishVars == <<releases, archive, scanning, autoListed>>

\* Of a content that convicts, "mal", every analyser run reports the file.
Contents == {"none", "ok", "mal"}
Trees == [Paths -> Contents]
NoTree == [p \in Paths |-> "none"]

\* Scans of a version that could not be fetched have neither hashes nor files.
ScanRecord ==
    [ver : 1 .. MaxVersions, hashes : Trees, found : SUBSET Paths, age : 0 .. Window + 1]
IdleScanner == [ver |-> 0, baseline |-> NoTree]

RepublishTypeOK ==
    /\ releases \in Seq(Trees) /\ Len(releases) <= MaxVersions
    /\ archive \in Seq(ScanRecord) /\ Len(archive) <= MaxPersisted
    /\ scanning \in [Scanners -> [ver : 0 .. MaxVersions, baseline : Trees]]
    /\ autoListed \in BOOLEAN

RepublishInit ==
    /\ releases = <<>> /\ archive = <<>>
    /\ scanning = [w \in Scanners |-> IdleScanner]
    /\ autoListed = FALSE

-----------------------------------------------------------------------------

\* A Version row is made by the first scan of the version that is persisted:
\* their order is the order of first_seen_at.
FirstSeen(v) == Min({i \in DOMAIN archive : archive[i].ver = v})
Others(v) == {archive[i].ver : i \in DOMAIN archive} \ {v}

\* _get_prev_scan_hashes: the last scan of the version first seen last, this one
\* excluded; nothing if that scan has no hashes.
PrevHashes(v) ==
    IF Others(v) = {} THEN NoTree
    ELSE LET prev == CHOOSE o \in Others(v) : \A x \in Others(v) : FirstSeen(x) <= FirstSeen(o)
         IN  archive[Max({i \in DOMAIN archive : archive[i].ver = prev})].hashes

\* Mutant: a path that the baseline knows is taken to be unchanged.
ChangedPaths(cur, base) == {p \in Paths : cur[p] # "none" /\ base[p] = "none"}

\* _find_changed_files; without a baseline everything is analysed.
Changed(cur, base) == {p \in Paths : cur[p] # "none" /\ cur[p] # base[p]}

\* carry_forward_findings: by path, or by a basename no changed file has.
Unchanged(cur, prior) == {p \in Paths : cur[p] # "none" /\ cur[p] = prior[p]}
SafeBasenames(cur, prior) ==
    {Base(p) : p \in Unchanged(cur, prior)}
        \ {Base(p) : p \in {q \in Paths : cur[q] # "none"} \ Unchanged(cur, prior)}
Carried(cur, prior) ==
    {p \in prior.found : p \in Unchanged(cur, prior.hashes) \/ Base(p) \in SafeBasenames(cur, prior.hashes)}

\* The most recent finished scan within the window.
Recent == {i \in DOMAIN archive : archive[i].age <= Window}
Forwarded(cur) == IF autoListed /\ Recent # {} THEN Carried(cur, archive[Max(Recent)]) ELSE {}

-----------------------------------------------------------------------------

Publish(files) ==
    /\ Len(releases) < MaxVersions
    /\ releases' = Append(releases, files)
    /\ UNCHANGED <<archive, scanning, autoListed>>

\* A worker has fetched a version, for the first time or for a rescan.
ReadBaseline(w, v) ==
    /\ scanning[w] = IdleScanner
    /\ scanning' = [scanning EXCEPT ![w] = [ver |-> v, baseline |-> PrevHashes(v)]]
    /\ UNCHANGED <<releases, archive, autoListed>>

Record(v, hashes, found) ==
    /\ Len(archive) < MaxPersisted
    /\ archive' = Append(archive, [ver |-> v, hashes |-> hashes, found |-> found, age |-> 0])

\* The analysers' findings and the carried ones, persisted with the hashes.
PersistScan(w) ==
    LET s == scanning[w]
        cur == releases[s.ver]
        analysed == {p \in Changed(cur, s.baseline) : cur[p] = "mal"} IN
    /\ s # IdleScanner
    /\ Record(s.ver, cur, analysed \union Forwarded(cur))
    /\ scanning' = [scanning EXCEPT ![w] = IdleScanner]
    /\ UNCHANGED <<releases, autoListed>>

\* The archive could not be fetched, or its checksum did not match.
PersistFetchError(w) ==
    /\ scanning[w] # IdleScanner
    /\ Record(scanning[w].ver, NoTree, {})
    /\ scanning' = [scanning EXCEPT ![w] = IdleScanner]
    /\ UNCHANGED <<releases, autoListed>>

\* The scan fails, times out or dies before it persists anything.
ScanLost(w) ==
    /\ scanning[w] # IdleScanner
    /\ scanning' = [scanning EXCEPT ![w] = IdleScanner]
    /\ UNCHANGED <<releases, archive, autoListed>>

\* Triage has confirmed a scan that was persisted; the janitor or an operator
\* takes the name off again.
AutoListing ==
    /\ IF autoListed THEN autoListed' = FALSE
       ELSE autoListed' = TRUE /\ \E i \in DOMAIN archive : archive[i].found # {}
    /\ UNCHANGED <<releases, archive, scanning>>

ScansAge ==
    /\ \E i \in DOMAIN archive : archive[i].age <= Window
    /\ archive' = [i \in DOMAIN archive |->
                    [archive[i] EXCEPT !.age = IF @ <= Window THEN @ + 1 ELSE @]]
    /\ UNCHANGED <<releases, scanning, autoListed>>

RepublishNext ==
    \/ \E files \in Trees \ {NoTree} : Publish(files)
    \/ \E w \in Scanners :
        \/ \E v \in DOMAIN releases : ReadBaseline(w, v)
        \/ PersistScan(w) \/ PersistFetchError(w) \/ ScanLost(w)
    \/ AutoListing \/ ScansAge

RepublishSpec == RepublishInit /\ [][RepublishNext]_republishVars

-----------------------------------------------------------------------------
(* Properties                                                              *)

\* Skipping what has not changed loses no payload for good: a convicting file of a
\* scanned version was reported by that scan or by an earlier one, in whatever
\* order versions are scanned, scanned again, fail or overlap.
PayloadReported ==
    \A i \in DOMAIN archive : \A p \in Paths :
        archive[i].hashes[p] = "mal" =>
            \E k \in 1 .. i : archive[k].hashes[p] = "mal" /\ p \in archive[k].found
=============================================================================
