------------------------------ MODULE Judgement ------------------------------
(***************************************************************************)
(* From the findings of one scan to what is stored, sent and kept: the     *)
(* comparison with the previous version, the fingerprints of known         *)
(* malware, the score and the rule verdict, the detonation gate, the       *)
(* override by the LLM, promotion to the watchlist, the vault and the      *)
(* alerts (detect/score.py, detonate/gate.py, analyze/version_diff.py,     *)
(* analyze/threat_intel.py and _persist_and_finalize of pipeline.py).      *)
(* How these steps interleave with other workers is the subject of         *)
(* ScanQueue and Detonation; here one scan meets every mix of evidence.    *)
(***************************************************************************)
EXTENDS Integers, FiniteSets, FiniteSetsExt, Sequences, SequencesExt

CONSTANTS
    FindingSorts,     \* what the analysers may report, see Finding
    Fingerprints,     \* rows of threat_intel_hash and how a file of the package compares
    ChainRules,       \* behavioral_chain_ids
    Weights,          \* scoring_weights, per severity
    CategoryCap, SuspiciousMin, MaliciousMin,   \* thresholds
    TopRank,          \* ranks up to here are the top of the watchlist
    Ranks,            \* ranks a package may have, NoRank for one that is not listed
    NoRank,
    Prevs,            \* previous versions, see PrevVersion
    SsdeepBase, SsdeepPromoted, TlshBase, TlshPromoted,  \* thresholds of the fuzzy tiers
    MaxFindings       \* bound: findings of the analysers

ASSUME JudgementAssumption ==
    /\ {CategoryCap, SuspiciousMin, MaliciousMin, TopRank, MaxFindings} \subseteq Nat
    /\ SuspiciousMin <= MaliciousMin

VARIABLES
    jat,        \* where the scan is
    jfindings,  \* all_findings
    jrank,      \* watchlist_rank
    jprev,      \* the previous version, if there is one
    jrule,      \* the rule verdict
    jtri,       \* the LLM's result
    jstored,    \* scan.verdict
    jtag,       \* scan.alert_tag
    jdone       \* what was done about it: a set of consequences

judgementVars == <<jat, jfindings, jrank, jprev, jrule, jtri, jstored, jtag, jdone>>

SeverityNames == {"low", "medium", "high", "critical"}
RuleNames ==
    {f.rule : f \in FindingSorts}
        \union {"no_release_files", "sha256_mismatch", "clean_to_critical", "new_rules_fired",
                "author_changed", "dependency_spike", "intel"}
Categories == {f.cat : f \in FindingSorts} \union {"fetch", "version_diff", "threat_intel"}
Finding == [rule : RuleNames, cat : Categories, sev : SeverityNames, shadow : BOOLEAN]
ASSUME FindingAssumption ==
    /\ FindingSorts \subseteq Finding /\ \A p \in Fingerprints : p.sev \in SeverityNames
    /\ Weights \in [SeverityNames -> Nat]

VerdictOrder == [clean |-> 0, suspicious |-> 1, malicious |-> 2]

NoPrev == [verdict |-> "none", rules |-> {}, sameAuthor |-> TRUE, depSpike |-> FALSE]
\* No result: triage has crashed, or the LLM is not configured.
NoTri == [verdict |-> "none", conf |-> 0]
LlmOff == [verdict |-> "off", conf |-> 0]
\* Confidences as tenths: below the floor of 0.7, between, from 0.8 on.
TriResults ==
    [verdict : {"malicious"}, conf : {5, 7, 9}]
        \union [verdict : {"benign", "suspicious", "inconclusive", "error", "skipped"}, conf : {9}]
        \union {NoTri, LlmOff}
ConfFloor == 7
ConfHigh == 8

Consequences == {"promoted", "vaulted", "alarm", "review", "detonate", "detonate_low"}
JudgementTypeOK ==
    /\ jat \in {"analyse", "persist", "triage", "adjudicate", "deliver", "over"}
    /\ jfindings \in Seq(Finding)
    /\ jrank \in Ranks /\ jprev \in Prevs \union {NoPrev}
    /\ jrule \in DOMAIN VerdictOrder \union {"none"} /\ jtri \in TriResults
    /\ jstored \in {"none", "clean", "suspicious", "malicious", "benign", "inconclusive"}
    /\ jtag \in {"none", "watchlist_top100", "needs_review", "llm_unverified"}
    /\ jdone \subseteq Consequences

JudgementInit ==
    /\ jat = "analyse" /\ jfindings = <<>>
    /\ jrank \in Ranks /\ jprev \in Prevs \union {NoPrev}
    /\ jrule = "none" /\ jtri = NoTri /\ jstored = "none" /\ jtag = "none" /\ jdone = {}

-----------------------------------------------------------------------------
(* Findings                                                                *)

Reported(rule, cat, sev) == [rule |-> rule, cat |-> cat, sev |-> sev, shadow |-> FALSE]
RulesOf(found) == {found[i].rule : i \in DOMAIN found}

\* analyze_version_diff
VersionDiff(found, prev) ==
    LET new == RulesOf(found) \ prev.rules
        newCritical == {r \in new : \E i \in DOMAIN found : found[i].rule = r /\ found[i].sev = "critical"}
    IN  (IF prev.verdict # "clean" \/ new = {} THEN <<>>
         ELSE IF newCritical # {} THEN <<Reported("clean_to_critical", "version_diff", "critical")>>
         ELSE <<Reported("new_rules_fired", "version_diff", "medium")>>)
        \o (IF prev.sameAuthor THEN <<>> ELSE <<Reported("author_changed", "version_diff", "high")>>)
        \o (IF prev.depSpike THEN <<Reported("dependency_spike", "version_diff", "medium")>> ELSE <<>>)

\* check_file: an exact match first, then the two fuzzy ones; a fingerprint nobody
\* has reviewed matches exactly or not at all.
Fuzzy(p) == p.source # "auto" /\ p.patternOk
SsdeepMatch(p) == Fuzzy(p) /\ p.similarity >= (IF p.source = "promoted" THEN SsdeepPromoted ELSE SsdeepBase)
TlshMatch(p) == Fuzzy(p) /\ p.distance <= (IF p.source = "promoted" THEN TlshPromoted ELSE TlshBase)
Matches(p) == p.exact \/ SsdeepMatch(p) \/ TlshMatch(p)

\* check_files_batch, for the one file that resembles fingerprint p
ThreatIntel(p) == IF Matches(p) THEN <<Reported("intel", "threat_intel", p.sev)>> ELSE <<>>

-----------------------------------------------------------------------------
(* score_and_verdict                                                       *)

\* The findings of a shadow rule are stored and left out of the score.
KeepScoring(kept, f) == IF f.shadow THEN kept ELSE Append(kept, f)
NotShadow(found) == FoldLeft(KeepScoring, <<>>, found)
Bucket(f) == IF f.cat = "dynamic" THEN f.rule ELSE f.cat
SmallerOf(a, b) == IF a < b THEN a ELSE b

\* Mutant: the last finding of a bucket counts.
AddPointsLast(points, f) == [points EXCEPT ![Bucket(f)] = SmallerOf(Weights[f.sev], CategoryCap)]

\* One finding's points go to its bucket, which is capped.
AddPoints(points, f) == [points EXCEPT ![Bucket(f)] = SmallerOf(@ + Weights[f.sev], CategoryCap)]
RawScore(found) ==
    LET buckets == {Bucket(found[i]) : i \in DOMAIN found}
        points == FoldLeft(AddPoints, [b \in buckets |-> 0], found)
    IN  FoldFunction(+, 0, points)

HasAny(found, sevs) == \E i \in DOMAIN found : found[i].sev \in sevs
HasChain(found) == RulesOf(found) \intersect ChainRules # {}

ScoredVerdict(found) ==
    IF HasChain(found) \/ HasAny(found, {"critical"}) \/ RawScore(found) >= MaliciousMin THEN "malicious"
    ELSE IF HasAny(found, {"high"}) \/ RawScore(found) >= SuspiciousMin THEN "suspicious"
    ELSE "clean"
TopAlert(found, rank) == rank # NoRank /\ rank <= TopRank /\ HasAny(found, {"high", "critical"})
ScoreAndVerdict(all, rank) ==
    LET found == NotShadow(all) IN
    IF TopAlert(found, rank) THEN "malicious"
    ELSE IF rank # NoRank /\ ScoredVerdict(found) = "clean" /\ HasAny(found, {"medium", "high", "critical"})
    THEN "suspicious"
    ELSE ScoredVerdict(found)

\* should_detonate and _detonation_priority
ShouldDetonate(verdict, found, rank, isNew) ==
    \/ isNew \/ rank # NoRank
    \/ verdict = "suspicious" \/ (verdict = "malicious" /\ ~HasChain(found))
Detonate(verdict, found, rank, isNew) ==
    IF ~ShouldDetonate(verdict, found, rank, isNew) THEN {}
    ELSE IF verdict # "clean" \/ rank # NoRank THEN {"detonate"} ELSE {"detonate_low"}

-----------------------------------------------------------------------------
(* Transaction 1                                                           *)

Analyse(f) ==
    /\ jat = "analyse" /\ Len(jfindings) < MaxFindings
    /\ jfindings' = Append(jfindings, f)
    /\ UNCHANGED <<jat, jrank, jprev, jrule, jtri, jstored, jtag, jdone>>

Close(rule, found) ==
    /\ jrule' = rule /\ jstored' = rule
    /\ jtag' = IF TopAlert(NotShadow(found), jrank) THEN "watchlist_top100" ELSE "none"

\* The release has no files, or its checksum does not match: scored and stored, and
\* that is all.
FetchError(f) ==
    /\ jat = "analyse" /\ jfindings = <<>>
    /\ jfindings' = <<f>>
    /\ Close(ScoreAndVerdict(<<f>>, jrank), <<f>>)
    /\ jat' = "over"
    /\ UNCHANGED <<jrank, jprev, jtri, jdone>>

\* The findings that need the database are added, then everything is scored.
Persist(p) ==
    LET found == jfindings
                 \o (IF jprev = NoPrev THEN <<>> ELSE VersionDiff(jfindings, jprev))
                 \o ThreatIntel(p)
        rule == ScoreAndVerdict(found, jrank) IN
    /\ jat = "analyse"
    /\ jfindings' = found
    /\ Close(rule, found)
    /\ jdone' = Detonate(rule, found, jrank, jprev = NoPrev)
    /\ jat' = IF rule = "clean" THEN "over" ELSE "triage"
    /\ UNCHANGED <<jrank, jprev, jtri>>

-----------------------------------------------------------------------------
(* After triage                                                            *)

\* triage() returns or raises, or is not called; see Triage.
TriageResult(r) ==
    /\ jat = "triage"
    /\ jtri' = r
    /\ jat' = "adjudicate"
    /\ UNCHANGED <<jfindings, jrank, jprev, jrule, jstored, jtag, jdone>>

SoftCategories == {"iocs", "dep_intel", "metadata", "version_diff"}

\* _auto_watchlist_qualifies
Qualifies(rule, tri, found) ==
    LET cats == {found[i].cat : i \in {k \in DOMAIN found : ~found[k].shadow /\ found[k].sev \in {"high", "critical"}}} IN
    /\ tri.verdict = "malicious"
    /\ cats \ SoftCategories # {} \/ Cardinality(cats) >= 2
    /\ tri.conf >= ConfFloor
    /\ rule = "malicious" \/ tri.conf >= ConfHigh

Overridden(rule, tri) ==
    IF tri.verdict = "malicious" /\ tri.conf < ConfFloor /\ rule # "malicious" THEN rule
    ELSE IF tri.verdict \in {"malicious", "suspicious", "benign"} THEN tri.verdict
    ELSE IF tri.verdict = "inconclusive" /\ rule # "malicious" THEN "inconclusive"
    ELSE rule

Adjudicate ==
    LET final == Overridden(jrule, jtri) IN
    /\ jat = "adjudicate"
    /\ jstored' = final
    /\ jdone' = jdone \union (IF Qualifies(jrule, jtri, jfindings) THEN {"promoted"} ELSE {})
    /\ jtag' = IF jtag # "none" THEN jtag
               ELSE IF final = "inconclusive" THEN "needs_review"
               ELSE IF jtri.verdict \notin {"benign", "suspicious", "malicious"} THEN "llm_unverified"
               ELSE jtag
    /\ jat' = "deliver"
    /\ UNCHANGED <<jfindings, jrank, jprev, jrule, jtri>>

\* Mutant: only what the rules convicted is alarmed about.
AlarmsOnRulesOnly(rule, tri) == rule = "malicious" /\ tri.verdict \notin {"benign", "suspicious"}

\* should_alert
Alarms(rule, tri) ==
    \/ rule = "malicious" /\ tri.verdict \notin {"benign", "suspicious"}
    \/ tri.verdict = "malicious" /\ tri.conf >= ConfFloor
\* vault_keep: a crash of triage counts as a conviction, an LLM that is off does not.
Vaults(rule, tri) == tri.verdict = "malicious" \/ (rule = "malicious" /\ tri = NoTri)

Deliver ==
    /\ jat = "deliver"
    /\ jdone' = jdone \union (IF Vaults(jrule, jtri) THEN {"vaulted"} ELSE {})
                      \union (IF Alarms(jrule, jtri) THEN {"alarm"}
                              ELSE IF jstored = "inconclusive" THEN {"review"} ELSE {})
    /\ jat' = "over"
    /\ UNCHANGED <<jfindings, jrank, jprev, jrule, jtri, jstored, jtag>>

JudgementNext ==
    \/ \E f \in FindingSorts : Analyse(f)
    \/ \E f \in {Reported("no_release_files", "fetch", "medium"),
                 Reported("sha256_mismatch", "fetch", "critical")} : FetchError(f)
    \/ \E p \in Fingerprints : Persist(p)
    \/ \E r \in TriResults : TriageResult(r)
    \/ Adjudicate \/ Deliver

JudgementSpec == JudgementInit /\ [][JudgementNext]_judgementVars

-----------------------------------------------------------------------------
(* Properties                                                              *)

Judged == jat = "over" /\ "fetch" \notin {jfindings[i].cat : i \in DOMAIN jfindings}

\* The verdict column, the alarm, the vault and the watchlist agree, although each is decided
\* on its own: what is stored as malicious was alarmed about and nothing
\* else was, and a name is promoted only with both and with its sample kept.
ConvictionsHeard ==
    Judged =>
        /\ jstored = "malicious" <=> "alarm" \in jdone
        /\ "promoted" \in jdone => {"alarm", "vaulted"} \subseteq jdone
        /\ jstored = "inconclusive" <=> "review" \in jdone

\* Evidence only ever counts against a package: without any one of its findings, or off the
\* watchlist, the rules would not have judged it more severely.
EvidenceMonotone ==
    jat \in {"triage", "over"} /\ jfindings # <<>> =>
        LET judged == VerdictOrder[ScoreAndVerdict(jfindings, jrank)] IN
        /\ \A i \in DOMAIN jfindings : VerdictOrder[ScoreAndVerdict(RemoveAt(jfindings, i), jrank)] <= judged
        /\ VerdictOrder[ScoreAndVerdict(jfindings, NoRank)] <= judged
=============================================================================
