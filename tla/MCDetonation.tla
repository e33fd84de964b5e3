----------------------------- MODULE MCDetonation -----------------------------
(* Small instances of Detonation for TLC.                                   *)
EXTENDS Detonation, TLC

CONSTANTS j1, j2, d1, d2, s1

OneJob == {j1}
TwoJobs == {j1, j2}
TwoTokens == {d1, d2}
OneSweeper == {s1}

Symmetry == Permutations(Tokens)
=============================================================================
