----------------------------- MODULE BoundedPool -----------------------------
(***************************************************************************)
(* What the in-memory scan queue promises: jobs start in the order they    *)
(* were submitted, at most Limit of them run at a time, a slot is not left *)
(* idle for ever while a job waits, and every job that runs ends.  A       *)
(* restart of the process empties it.                                      *)
(***************************************************************************)
EXTENDS Integers, Sequences, FiniteSets

CONSTANTS Jobs, Limit

VARIABLES queue,     \* submitted jobs that have not started, oldest first
          running    \* jobs that started and have not ended

poolVars == <<queue, running>>

Init == queue = <<>> /\ running = {}

Submit(j) == queue' = Append(queue, j) /\ UNCHANGED running

Start == /\ queue # <<>>
         /\ Cardinality(running) < Limit
         /\ queue' = Tail(queue)
         /\ running' = running \cup {Head(queue)}

End(j) == /\ j \in running
          /\ running' = running \ {j}
          /\ UNCHANGED queue

Wipe == queue' = <<>> /\ running' = {}

Next == Start \/ Wipe \/ \E j \in Jobs : Submit(j) \/ End(j)

Spec == Init /\ [][Next]_poolVars

FairSpec == Spec /\ WF_poolVars(Start) /\ \A j \in Jobs : WF_poolVars(End(j))
===============================================================================
