------------------------------ MODULE ScanProofs ------------------------------
(***************************************************************************)
(* Proofs about the parts of a scan side by side: the composition behaves, *)
(* as far as each part can tell, as that part alone, so that what the      *)
(* other modules prove of a part holds of it there.                        *)
(***************************************************************************)
EXTENDS ScanParts, ClaimOrderProofs, PipelineProofs, IntelProofs

\* A step of the composition is a step of the part that runs and a stutter of every other.
LEMMA PartSteps ==
    ASSUME [ScanPartsNext]_scanPartsVars
    PROVE  /\ [ClaimNextStep]_claimVars
           /\ [WorkdirsNext]_workdirsVars
           /\ [KnownBadNext]_knownBadVars
           /\ [RepublishNext]_republishVars
           /\ [EvidenceNext]_evidenceVars
           /\ [TriageNext]_triageVars
           /\ [JudgementNext]_judgementVars
           /\ [WatchlistNext]_watchlistVars
           /\ [FocusNext]_focusVars
           /\ [MaintainersNext]_maintainersVars
           /\ [AlertsNext]_alertsVars
<1>1. CASE Runs("claim") /\ ClaimNextStep
    BY <1>1 DEF Runs
<1>2. CASE Runs("dirs") /\ WorkdirsNext
    BY <1>2 DEF Runs
<1>3. CASE Runs("bad") /\ KnownBadNext
    BY <1>3 DEF Runs
<1>4. CASE Runs("republish") /\ RepublishNext
    BY <1>4 DEF Runs
<1>5. CASE Runs("evidence") /\ EvidenceNext
    BY <1>5 DEF Runs
<1>6. CASE Runs("triage") /\ TriageNext
    BY <1>6 DEF Runs
<1>7. CASE Runs("judge") /\ JudgementNext
    BY <1>7 DEF Runs
<1>8. CASE Runs("list") /\ WatchlistNext
    BY <1>8 DEF Runs
<1>9. CASE Runs("focus") /\ FocusNext
    BY <1>9 DEF Runs
<1>10. CASE Runs("pivot") /\ MaintainersNext
    BY <1>10 DEF Runs
<1>11. CASE Runs("alert") /\ AlertsNext
    BY <1>11 DEF Runs
<1>12. CASE UNCHANGED scanPartsVars
    BY <1>12 DEF scanPartsVars
<1>13. QED
    BY <1>1, <1>2, <1>3, <1>4, <1>5, <1>6, <1>7, <1>8, <1>9, <1>10, <1>11, <1>12 DEF ScanPartsNext

\* Every behaviour of the composition is one of the claim queue, of the working directories,
\* of triage and so on: putting the parts side by side gives none of them a new behaviour.
THEOREM PartsRunAlone ==
    ScanPartsSpec =>
        /\ ClaimSpec
        /\ WorkdirsSpec
        /\ KnownBadSpec
        /\ RepublishSpec
        /\ EvidenceSpec
        /\ TriageSpec
        /\ JudgementSpec
        /\ WatchlistSpec
        /\ FocusSpec
        /\ MaintainersSpec
        /\ AlertsSpec
<1>1. ScanPartsSpec => ClaimSpec
    <2>1. ScanPartsInit => ClaimInit
        BY DEF ScanPartsInit
    <2>2. [ScanPartsNext]_scanPartsVars => [ClaimNextStep]_claimVars
        BY PartSteps
    <2>3. QED
        BY <2>1, <2>2, PTL DEF ScanPartsSpec, ClaimSpec
<1>2. ScanPartsSpec => WorkdirsSpec
    <2>1. ScanPartsInit => WorkdirsInit
        BY DEF ScanPartsInit
    <2>2. [ScanPartsNext]_scanPartsVars => [WorkdirsNext]_workdirsVars
        BY PartSteps
    <2>3. QED
        BY <2>1, <2>2, PTL DEF ScanPartsSpec, WorkdirsSpec
<1>3. ScanPartsSpec => KnownBadSpec
    <2>1. ScanPartsInit => KnownBadInit
        BY DEF ScanPartsInit
    <2>2. [ScanPartsNext]_scanPartsVars => [KnownBadNext]_knownBadVars
        BY PartSteps
    <2>3. QED
        BY <2>1, <2>2, PTL DEF ScanPartsSpec, KnownBadSpec
<1>4. ScanPartsSpec => RepublishSpec
    <2>1. ScanPartsInit => RepublishInit
        BY DEF ScanPartsInit
    <2>2. [ScanPartsNext]_scanPartsVars => [RepublishNext]_republishVars
        BY PartSteps
    <2>3. QED
        BY <2>1, <2>2, PTL DEF ScanPartsSpec, RepublishSpec
<1>5. ScanPartsSpec => EvidenceSpec
    <2>1. ScanPartsInit => EvidenceInit
        BY DEF ScanPartsInit
    <2>2. [ScanPartsNext]_scanPartsVars => [EvidenceNext]_evidenceVars
        BY PartSteps
    <2>3. QED
        BY <2>1, <2>2, PTL DEF ScanPartsSpec, EvidenceSpec
<1>6. ScanPartsSpec => TriageSpec
    <2>1. ScanPartsInit => TriageInit
        BY DEF ScanPartsInit
    <2>2. [ScanPartsNext]_scanPartsVars => [TriageNext]_triageVars
        BY PartSteps
    <2>3. QED
        BY <2>1, <2>2, PTL DEF ScanPartsSpec, TriageSpec
<1>7. ScanPartsSpec => JudgementSpec
    <2>1. ScanPartsInit => JudgementInit
        BY DEF ScanPartsInit
    <2>2. [ScanPartsNext]_scanPartsVars => [JudgementNext]_judgementVars
        BY PartSteps
    <2>3. QED
        BY <2>1, <2>2, PTL DEF ScanPartsSpec, JudgementSpec
<1>8. ScanPartsSpec => WatchlistSpec
    <2>1. ScanPartsInit => WatchlistInit
        BY DEF ScanPartsInit
    <2>2. [ScanPartsNext]_scanPartsVars => [WatchlistNext]_watchlistVars
        BY PartSteps
    <2>3. QED
        BY <2>1, <2>2, PTL DEF ScanPartsSpec, WatchlistSpec
<1>9. ScanPartsSpec => FocusSpec
    <2>1. ScanPartsInit => FocusInit
        BY DEF ScanPartsInit
    <2>2. [ScanPartsNext]_scanPartsVars => [FocusNext]_focusVars
        BY PartSteps
    <2>3. QED
        BY <2>1, <2>2, PTL DEF ScanPartsSpec, FocusSpec
<1>10. ScanPartsSpec => MaintainersSpec
    <2>1. ScanPartsInit => MaintainersInit
        BY DEF ScanPartsInit
    <2>2. [ScanPartsNext]_scanPartsVars => [MaintainersNext]_maintainersVars
        BY PartSteps
    <2>3. QED
        BY <2>1, <2>2, PTL DEF ScanPartsSpec, MaintainersSpec
<1>11. ScanPartsSpec => AlertsSpec
    <2>1. ScanPartsInit => AlertsInit
        BY DEF ScanPartsInit
    <2>2. [ScanPartsNext]_scanPartsVars => [AlertsNext]_alertsVars
        BY PartSteps
    <2>3. QED
        BY <2>1, <2>2, PTL DEF ScanPartsSpec, AlertsSpec
<1>12. QED
    BY <1>1, <1>2, <1>3, <1>4, <1>5, <1>6, <1>7, <1>8, <1>9, <1>10, <1>11, PTL

\* For every number of workers, files, names, senders and attempts: the prompt stays within its
\* limit and one marker, the attempts of a claim, a triage or an alert within theirs, the
\* ages of rows, caches and directories in their range, and every part in its type.
THEOREM ScanTypeCorrect == ScanPartsSpec => []ScanTypeOK
<1>1. /\ ClaimTypeOK
      /\ WorkdirsTypeOK
      /\ KnownBadTypeOK
      /\ RepublishTypeOK
      /\ EvidenceTypeOK
      /\ TriageTypeOK
      /\ JudgementTypeOK
      /\ WatchlistTypeOK
      /\ FocusTypeOK
      /\ MaintainersTypeOK
      /\ AlertsTypeOK
      => ScanTypeOK
    BY DEF ScanTypeOK
<1>2. QED
    BY <1>1, PartsRunAlone, ClaimTypeCorrect, WorkdirsTypeCorrect, KnownBadTypeCorrect, RepublishTypeCorrect,
       EvidenceTypeCorrect, TriageTypeCorrect, JudgementTypeCorrect, WatchlistTypeCorrect,
       FocusTypeCorrect, MaintainersTypeCorrect, AlertsTypeCorrect, PTL
=============================================================================
