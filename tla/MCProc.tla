------------------------------- MODULE MCProc -------------------------------
(* Proc for TLC.                                                           *)
EXTENDS Proc
=============================================================================
