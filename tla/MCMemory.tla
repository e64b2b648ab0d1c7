------------------------------ MODULE MCMemory ------------------------------
(* Memory for TLC: headers that load, and headers that exec refuses before *)
(* or after it has allocated their memory.                                 *)
EXTENDS Memory

Segment(vaddr, memsz, filesz) ==
  [vaddr |-> vaddr, memsz |-> memsz, filesz |-> filesz, short |-> FALSE]

MCSegments == {
  Segment(0, 1, 1),
  Segment(2, 2, 1),
  Segment(0, 0, 0),
  Segment(3, 1, 1),
  Segment(0, 9, 1),
  Segment(14, 3, 0),
  Segment(0, 1, 2),
  [Segment(0, 3, 3) EXCEPT !.short = TRUE]}
MCSbrkArgs == {-3, 2}
=============================================================================
