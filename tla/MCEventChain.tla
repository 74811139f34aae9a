---------------------------- MODULE MCEventChain ----------------------------
(***************************************************************************)
(* A small instance of EventChain: two processes that append and one or    *)
(* two verifications, on a new file or one of version 0.1.                 *)
(***************************************************************************)
EXTENDS EventChain, TLC

CONSTANTS p1, p2, v1, v2

TwoProcesses == {p1, p2}
TwoVerifiers == {v1, v2}

Symmetry == Permutations(TwoProcesses) \cup Permutations(TwoVerifiers)
=============================================================================
