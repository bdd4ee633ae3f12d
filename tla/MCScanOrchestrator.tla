-------------------------- MODULE MCScanOrchestrator --------------------------
(***************************************************************************)
(* ScanOrchestrator for TLC.  Three classes of findings are enough to tell *)
(* every branch of the correlator and the auditor apart: a secret, a HIGH  *)
(* finding that is an unprotected route and an SSRF, and one that is none. *)
(***************************************************************************)
EXTENDS ScanOrchestrator, TLC

\* The scanners differ only in their names.
ModuleSymmetry == Permutations(Modules)
===============================================================================
