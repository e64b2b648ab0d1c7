CONSTANTS
  Procs = {p1, p2}
  InitProc = p1
  None = None
  Spare = {0, 1, 2, 3, 4, 5, 7}
  PGSIZE = 2
  TABSIZE = 2
  KERNBASE = 8
  UintMod = 16
  KTABS = 1
  Segments <- MCSegments
  MaxSegments = 2
  MaxArgs = 3
  SbrkArgs <- MCSbrkArgs
  WORD = 2
SPECIFICATION Spec
INVARIANTS AtRest ArgumentsMapped LoadedIntact
PROPERTY PagesConserved
