------------------------------- MODULE MCIngest -------------------------------
(* The pollers of the ecosystems for TLC; a behaviour runs one of them.      *)
EXTENDS Pollers, TLC

CONSTANTS
    n1, n2, n3,
    Parts,     \* the ecosystems of a run
    ListCases  \* the cases of Lists in a run

ThreeNames == {n1, n2, n3}
TwoPaths == {n1, n2}

\* Nothing is listed; one name is on the watchlist; focus mode with one name.
Lists ==
    \/ "none" \in ListCases /\ focus = {} /\ watchlist = {} /\ exclusive = FALSE
    \/ "watch" \in ListCases /\ focus = {} /\ watchlist = {n1} /\ exclusive = FALSE
    \/ "focus" \in ListCases /\ focus = {n1} /\ watchlist = {n2} /\ exclusive = TRUE

OneError == booted = TRUE /\ errors = 0 /\ restarts = MaxRestarts
\* After the restart the boot poll may overlap the job.
OneRestart == booted = TRUE /\ errors = MaxErrors /\ restarts = 0 /\ focus = {} /\ watchlist = {}

\* The packages with a change when the poller first runs, in this order.
OldChanges(names) == change = [n \in Names |->
    [seq |-> IF n \in ToSet(names) THEN Min({i \in DOMAIN names : names[i] = n}) ELSE 0,
     deleted |-> FALSE]]
OldEntry == <<[path |-> n2, ts |-> 0, kind |-> "tagged"]>>

\* Three changes to poll, of two new packages or none; a cursor to bootstrap.
NpmCases ==
    /\ index = <<>>
    /\ \/ OneError /\ cursor = 0 /\ known \in {{n3}, Names} /\ OldChanges(<<n1, n2, n3>>)
       \/ OneError /\ cursor = NoCursor /\ watchlist = {} /\ known = {n3} /\ OldChanges(<<n1, n2, n3>>)
       \/ OneRestart /\ cursor = NoCursor /\ known = {n3} /\ OldChanges(<<n2, n3>>)

GoCases ==
    /\ OldChanges(<<>>)
    /\ known = {}
    /\ \/ OneError /\ cursor = 0 /\ index = <<>>
       \/ OneRestart /\ cursor = NoCursor /\ index = OldEntry

\* A package with a release, before the cursor or after it.
OldRelease == <<[name |-> n1, act |-> "create"], [name |-> n1, act |-> "release"]>>
PypiCases ==
    /\ known = {}
    /\ \/ OneError /\ cursor = 0 /\ changelog = <<>>
       \/ OneRestart /\ cursor = NoCursor /\ changelog = OldRelease

CratesCases ==
    /\ known = {} /\ cursor = NoCursor
    /\ OneError \/ OneRestart

MCInit ==
    /\ eco \in Parts
    /\ Lists
    /\ \/ eco = "npm" /\ NpmCases
       \/ eco = "gomod" /\ GoCases
       \/ eco = "pypi" /\ PypiCases
       \/ eco = "crates" /\ CratesCases
    /\ eco \in {"pypi", "crates"} => OldChanges(<<>>) /\ index = <<>>
    /\ eco # "pypi" => changelog = <<>>
    /\ PollersInit

\* One step of a poll, of the ecosystem that runs.
PollStep(p) ==
    \/ eco = "npm" /\ NpmStep(p) /\ UNCHANGED <<eco, goOwn, pypiOwn, cratesOwn>>
    \/ eco = "gomod" /\ GoStep(p) /\ UNCHANGED <<eco, npmOwn, pypiOwn, cratesOwn>>
    \/ eco = "crates" /\ RssStep(p) /\ UNCHANGED <<eco, npmOwn, goOwn, pypiOwn>>

MCSpec ==
    /\ MCInit /\ [][PollersNext]_pollersVars
    /\ \A p \in Polls : WF_pollersVars(PollStep(p))
    /\ WF_pollersVars(eco = "crates" /\ ReconcileStep /\ UNCHANGED <<eco, npmOwn, goOwn, pypiOwn>>)
=============================================================================
