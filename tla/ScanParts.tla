------------------------------ MODULE ScanParts ------------------------------
(***************************************************************************)
(* What a scan meets on its way, side by side.  The parts share no         *)
(* variable; a behaviour runs one of them and leaves the others alone.     *)
(***************************************************************************)
EXTENDS ClaimOrder, Workdirs, KnownBad, Republish, Evidence, Triage, Judgement,
        Watchlist, Focus, Maintainers, Alerts

VARIABLE part    \* the part that runs

ScanPartsInit ==
    /\ part \in {"claim", "dirs", "bad", "republish", "evidence", "triage", "judge", "list", "focus", "pivot", "alert"}
    /\ ClaimInit /\ WorkdirsInit /\ KnownBadInit /\ RepublishInit /\ EvidenceInit /\ TriageInit
    /\ JudgementInit /\ WatchlistInit /\ FocusInit /\ MaintainersInit /\ AlertsInit

\* The variables of the other parts stay.
Runs(p) ==
    /\ part = p /\ UNCHANGED part
    /\ p # "claim" => UNCHANGED claimVars
    /\ p # "dirs" => UNCHANGED workdirsVars
    /\ p # "bad" => UNCHANGED knownBadVars
    /\ p # "republish" => UNCHANGED republishVars
    /\ p # "evidence" => UNCHANGED evidenceVars
    /\ p # "triage" => UNCHANGED triageVars
    /\ p # "judge" => UNCHANGED judgementVars
    /\ p # "list" => UNCHANGED watchlistVars
    /\ p # "focus" => UNCHANGED focusVars
    /\ p # "pivot" => UNCHANGED maintainersVars
    /\ p # "alert" => UNCHANGED alertsVars

ScanPartsNext ==
    \/ Runs("claim") /\ ClaimNextStep
    \/ Runs("dirs") /\ WorkdirsNext
    \/ Runs("bad") /\ KnownBadNext
    \/ Runs("republish") /\ RepublishNext
    \/ Runs("evidence") /\ EvidenceNext
    \/ Runs("triage") /\ TriageNext
    \/ Runs("judge") /\ JudgementNext
    \/ Runs("list") /\ WatchlistNext
    \/ Runs("focus") /\ FocusNext
    \/ Runs("pivot") /\ MaintainersNext
    \/ Runs("alert") /\ AlertsNext

scanPartsVars == <<part, claimVars, workdirsVars, knownBadVars, republishVars, evidenceVars, triageVars,
            judgementVars, watchlistVars, focusVars, maintainersVars, alertsVars>>

ScanPartsSpec == ScanPartsInit /\ [][ScanPartsNext]_scanPartsVars

-----------------------------------------------------------------------------
(* Properties                                                              *)

\* The state of every part keeps its type, the length of the prompt its limit, the attempts of
\* a claim, a triage or an alert theirs, and the ages of rows, caches and directories their range.
ScanTypeOK ==
    /\ part = "claim" => ClaimTypeOK
    /\ part = "dirs" => WorkdirsTypeOK
    /\ part = "bad" => KnownBadTypeOK
    /\ part = "republish" => RepublishTypeOK
    /\ part = "evidence" => EvidenceTypeOK
    /\ part = "triage" => TriageTypeOK
    /\ part = "judge" => JudgementTypeOK
    /\ part = "list" => WatchlistTypeOK
    /\ part = "focus" => FocusTypeOK
    /\ part = "pivot" => MaintainersTypeOK
    /\ part = "alert" => AlertsTypeOK
=============================================================================
