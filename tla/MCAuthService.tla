----------------------------- MODULE MCAuthService -----------------------------
(***************************************************************************)
(* AuthService for TLC: one key configured, a second version to restore.   *)
(***************************************************************************)
EXTENDS AuthService, TLC

CONSTANTS r1, r2, r3, v1, k1

MCInitialKeys == v1 :> k1
RequestSymmetry == Permutations(Requests)
===============================================================================
