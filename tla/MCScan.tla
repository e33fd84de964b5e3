-------------------------------- MODULE MCScan --------------------------------
(* What a scan meets on its way, for TLC; a behaviour runs one part.         *)
EXTENDS ScanParts, TLC

CONSTANT Parts      \* the parts a run examines

-----------------------------------------------------------------------------
(* Constants                                                               *)

ScanRows == {"n1", "n2", "g1"}
RowEco(r) == IF r = "g1" THEN "gomod" ELSE "npm"
TwoPending == <<"n1", "n2">>

\* Entry files over the cap, around the reserve and small; flagged sources; companions.
PackageFiles ==
    {[role |-> k[1], size |-> k[2], sev |-> k[3], shape |-> k[4]] : k \in {
        <<"manifest", 20, 9, "text">>, <<"script", 7, 9, "text">>, <<"source", 10, 2, "text">>,
        <<"source", 3, 3, "lines">>, <<"pth", 30, 0, "text">>, <<"other", 40, 0, "text">>,
        <<"other", 12, 1, "binary">>}}

\* Two files of the same name in different directories.
TwoFiles == {"a/x", "b/x"}
SameName(p) == "x"

AskedCases ==
    {<<"malicious", {"chain", "injection"}>>, <<"malicious", {"exact", "chain"}>>}

Sort(r, c, s, unproven) == [rule |-> r, cat |-> c, sev |-> s, shadow |-> unproven]
Findings ==
    {Sort("ip", "iocs", "high", FALSE), Sort("dep", "dep_intel", "high", FALSE),
     Sort("squat", "metadata", "medium", FALSE), Sort("chain", "installer", "medium", FALSE),
     Sort("obf", "obfuscation", "high", FALSE), Sort("low", "obfuscation", "low", FALSE),
     Sort("new", "obfuscation", "critical", TRUE), Sort("dns", "dynamic", "high", FALSE)}
Match(exact, source, sim, dist, s) ==
    [exact |-> exact, source |-> source, similarity |-> sim, distance |-> dist, patternOk |-> TRUE, sev |-> s]
IntelRows ==
    {Match(FALSE, "auto", 90, 10, "critical"), Match(TRUE, "auto", 100, 0, "critical"),
     Match(FALSE, "promoted", 80, 30, "high"), Match(FALSE, "baseline", 75, 200, "medium")}
SeverityWeights == [low |-> 1, medium |-> 3, high |-> 5, critical |-> 9]
Predecessors ==
    {[verdict |-> "clean", rules |-> {"ip"}, sameAuthor |-> TRUE, depSpike |-> FALSE],
     [verdict |-> "suspicious", rules |-> {}, sameAuthor |-> FALSE, depSpike |-> TRUE]}

\* One module is served under the path of another; one name is never promoted.
Listable == {"a", "b", "c", "d"}
Served(n) == IF n = "b" THEN "a" ELSE n

\* Sections, one of them empty; a name of two spellings and two pins; a line above the first section.
Section(e) == [head |-> e, name |-> "", bounds |-> <<>>]
Line(n, bounds) == [head |-> "", name |-> n, bounds |-> bounds]
OperatorFiles ==
    {[flat |-> "", lines |-> <<Section("gomod"), Line("Lib", <<1>>), Line("lib", <<Wildcard>>), Section("pypi")>>],
     [flat |-> "pypi", lines |-> <<Line("Lib", <<>>), Line("lib", <<1, 2>>), Line("lib", <<2>>)>>],
     [flat |-> "", lines |-> <<Line("lib", <<1>>), Section("pypi"), Line("lib", <<1>>)>>]}
LowerCase(n) == "lib"
SameOrLower(e, n) == IF e = "gomod" THEN "lib" ELSE n

SmallAndLarge ==
    {[head |-> 1, fields |-> <<1, 2>>, foot |-> 1], [head |-> 1, fields |-> <<2, 7, 1, 2>>, foot |-> 1]}

Workers == Permutations(Scanners)

-----------------------------------------------------------------------------
(* The initial states                                                      *)

\* A part that does not run starts in one state.
MCInit ==
    /\ part \in Parts
    /\ part = "claim" \/ qrow = [r \in Rows |-> IF r \in ToSet(Backlog)
                                    THEN [NoRowYet EXCEPT !.st = "pending"] ELSE NoRowYet]
    /\ part = "bad" \/ listed = {}
    /\ part = "evidence" \/ (tree \in [Files -> {k \in PackageFiles : k.shape = "binary"}] /\ gecosystem = "pypi")
    /\ part = "judge" \/ (jrank = NoRank /\ jprev = NoPrev)
    /\ part = "list" \/ registry = "pypi"
    /\ part = "focus" \/ fexclusive = FALSE
    /\ part = "pivot" \/ (prolific = FALSE /\ shadow = FALSE)
    /\ part = "alert" \/ hookOk = TRUE
    /\ ScanPartsInit

MCSpec == MCInit /\ [][ScanPartsNext]_scanPartsVars
=============================================================================
