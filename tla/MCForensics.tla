------------------------------ MODULE MCForensics ------------------------------
(***************************************************************************)
(* Forensics for TLC: reports on the chain of the known tenant while calls *)
(* of log() are under way for it, for an id without a row and the system.  *)
(* All calls log the same, which makes them meet at the index on hashes;   *)
(* a forgery differs in the resource alone, or in all.                     *)
(***************************************************************************)
EXTENDS Forensics, TLC

Logged == [hashed |-> "login", resource |-> "user"]
MCContents == {Logged}
MCForgeries == {[Logged EXCEPT !.resource = "other"], [hashed |-> "nothing", resource |-> "other"]}

CallSymmetry == Permutations(Calls)
===============================================================================
