------------------------------ MODULE Processes ------------------------------
(***************************************************************************)
(* The processes that share a lock (modules Pipe and Sleeplock).           *)
(***************************************************************************)

CONSTANTS
  Procs,
  Nobody      \* the holder of a free lock; lk->pid = 0

ASSUME ProcessAssumption == Nobody \notin Procs
=============================================================================
