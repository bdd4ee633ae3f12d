------------------------------ MODULE MCAuditLog ------------------------------
(***************************************************************************)
(* AuditLog for TLC: calls for a known tenant, for an id without a row and *)
(* for the system, over more milliseconds than it takes to tell reading    *)
(* the clock from writing the entry.                                       *)
(***************************************************************************)
EXTENDS AuditLog, TLC

MCContents == {[hashed |-> "login", resource |-> "user"]}

CallSymmetry == Permutations(Calls)
===============================================================================
