------------------------------ MODULE MCContainer ------------------------------
(***************************************************************************)
(* Instance of Container for TLC: three requests that share two ids, so    *)
(* that ids come back, a limit of one container and a command for one.     *)
(***************************************************************************)
EXTENDS Container, TLC

CONSTANTS r1, r2, r3, k1

RequestSymmetry == Permutations(Request)
=============================================================================
