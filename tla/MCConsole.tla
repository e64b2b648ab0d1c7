----------------------------- MODULE MCConsole ------------------------------
(* Console for TLC.  A behaviour has some of the actors only: those of one *)
(* workload, with the places it lets the cursor start at.                  *)
EXTENDS Console

CONSTANTS p1, p2, c1, c2

VARIABLE workload

Workloads == {
  [actors |-> {p1, p2, Intr}, boots |-> {0}],
  [actors |-> {Intr, c1}, boots |-> {0}],
  [actors |-> {c1, c2}, boots |-> Positions]}

MCInit == Init /\ workload \in Workloads /\ boot \in workload.boots
MCNext == (\E a \in workload.actors : Step(a)) /\ UNCHANGED workload
MCSpec == MCInit /\ [][MCNext]_<<vars, workload>>
=============================================================================
