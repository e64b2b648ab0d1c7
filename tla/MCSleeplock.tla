----------------------------- MODULE MCSleeplock -----------------------------
(* Sleeplock for TLC.                                                      *)
EXTENDS Sleeplock
=============================================================================
