--------------------------- MODULE MCStripeSandbox ---------------------------
(***************************************************************************)
(* A small instance of StripeSandbox: two runs under one key, one lookup   *)
(* of each at a time, and one instant after the key may be forgotten.      *)
(***************************************************************************)
EXTENDS StripeSandbox, TLC

CONSTANTS r1, r2, p1

TwoRuns == {r1, r2}
OneProbe == {p1}

Symmetry == Permutations(TwoRuns)
=============================================================================
