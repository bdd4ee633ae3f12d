--------------------------- MODULE ScanStateMachine ---------------------------
(***************************************************************************)
(* The states of a scan row and the transitions scan-state.machine.ts      *)
(* allows between them.  Pure operators; the modules that move a scan      *)
(* through its life EXTEND this one.                                       *)
(***************************************************************************)

\* types.ts: the values the column Scan.state may hold.
ScanState == {"AUTHORIZED", "PROVISIONING", "SCANNING", "CORRELATING",
              "REPORTING", "COMPLETE", "FAILED", "ARCHIVED"}

\* scans.service.ts: a scan in one of these does not count as in flight.
TERMINAL_STATES == {"COMPLETE", "FAILED", "ARCHIVED"}

VALID_TRANSITIONS ==
  [from \in ScanState |->
     CASE from = "AUTHORIZED"   -> {"PROVISIONING", "FAILED"}
       [] from = "PROVISIONING" -> {"SCANNING", "FAILED"}
       [] from = "SCANNING"     -> {"CORRELATING", "FAILED"}
       [] from = "CORRELATING"  -> {"REPORTING", "FAILED"}
       [] from = "REPORTING"    -> {"COMPLETE", "FAILED"}
       [] from = "COMPLETE"     -> {"ARCHIVED"}
       [] from = "FAILED"       -> {}
       [] from = "ARCHIVED"     -> {}]

\* assertValidTransition throws exactly when this is FALSE.
ValidTransition(from, to) == to \in VALID_TRANSITIONS[from]
===============================================================================
