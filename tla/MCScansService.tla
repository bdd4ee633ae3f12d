---------------------------- MODULE MCScansService ----------------------------
(***************************************************************************)
(* ScansService for TLC: the requests of one tenant, more than either of   *)
(* its limits and more than the queue has slots.                           *)
(***************************************************************************)
EXTENDS ScansService

OneTenant == [r \in Jobs |-> CHOOSE t \in Tenants : TRUE]
===============================================================================
