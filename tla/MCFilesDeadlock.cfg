SPECIFICATION Spec
CONSTANTS
  a = a
  b = b
  Procs = {p1, p2}
  Nobody = Nobody
  NInodes = 3
  Names = {a, b}
  Calls <- TreeCalls
  Blocks <- OneBlock
  MaxFile = 1
  MaxLinks = 2
  NFILE = 1
  NOFILE = 1
SYMMETRY Symmetry
INVARIANT NoLockCycle
