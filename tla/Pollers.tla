------------------------------- MODULE Pollers -------------------------------
(***************************************************************************)
(* The pollers of the ecosystems side by side.  Each process runs them all *)
(* on cursors of their own; what one of them meets is shown by behaviours  *)
(* that run it alone, with the variables of the others at rest.            *)
(***************************************************************************)
EXTENDS IngestNpm, IngestGomod, IngestPypi, IngestCrates

VARIABLE eco    \* the ecosystem whose poller runs

PollersInit ==
    /\ eco \in {"npm", "gomod", "pypi", "crates"}
    /\ NpmInit /\ GoInit /\ PypiInit /\ CratesInit

PollersNext ==
    \/ eco = "npm" /\ NpmNext /\ UNCHANGED <<eco, goOwn, pypiOwn, cratesOwn>>
    \/ eco = "gomod" /\ GoNext /\ UNCHANGED <<eco, npmOwn, pypiOwn, cratesOwn>>
    \/ eco = "pypi" /\ PypiNext /\ UNCHANGED <<eco, npmOwn, goOwn, cratesOwn>>
    \/ eco = "crates" /\ CratesNext /\ UNCHANGED <<eco, npmOwn, goOwn, pypiOwn>>

pollersVars == <<eco, npmVars, goVars, pypiVars, cratesVars>>

PollersSpec == PollersInit /\ [][PollersNext]_pollersVars

-----------------------------------------------------------------------------
(* Properties                                                              *)

\* The state of every poller keeps its type: positions stay within the feeds, retry counters
\* below their limit and the carry-over within its bound.
PollersTypeOK == NpmTypeOK /\ GoTypeOK /\ PypiTypeOK /\ CratesTypeOK
=============================================================================
