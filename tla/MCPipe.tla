------------------------------- MODULE MCPipe -------------------------------
(* Pipe for TLC.                                                           *)
EXTENDS Pipe, TLC

Symmetry == Permutations(Procs) \cup Permutations(Bytes)
=============================================================================
