----------------------------- MODULE ScanLifecycle -----------------------------
(***************************************************************************)
(* What the scan subsystem promises about a scan row: it is created        *)
(* AUTHORIZED and every later change of its state is one of the moves of   *)
(* VALID_TRANSITIONS -- no state is skipped, and COMPLETE, FAILED and      *)
(* ARCHIVED are never left except to archive a complete scan.              *)
(***************************************************************************)
EXTENDS ScanStateMachine

CONSTANT Scans         \* identifiers of scan rows

VARIABLE state         \* the column Scan.state of every row

TypeOK == state \in [Scans -> ScanState]

Init == state = [s \in Scans |-> "AUTHORIZED"]

Move(s, to) == /\ ValidTransition(state[s], to)
               /\ state' = [state EXCEPT ![s] = to]

Next == \E s \in Scans, to \in ScanState : Move(s, to)

Spec == Init /\ [][Next]_state
===============================================================================
