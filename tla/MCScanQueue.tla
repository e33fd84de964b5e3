---------------------------- MODULE MCScanQueue ----------------------------
(* Instances of ScanQueue for TLC.                                          *)
EXTENDS ScanQueue, TLC

CONSTANTS i1, i2, t1, t2, t3, p1, p2, s1, s2

OneItem == {i1}
NoHot == {}
TwoTokens == {t1, t2}
ThreeTokens == {t1, t2, t3}
OnePoller == {p1}
TwoPollers == {p1, p2}
OneSweeper == {s1}
TwoSweepers == {s1, s2}
Symmetry == Permutations(Tokens) \union Permutations(Pollers) \union Permutations(Sweepers)
=============================================================================
