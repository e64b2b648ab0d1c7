CONSTANTS
  CPUs = {c0, c1}
  Cpu0 = c0
  NPROC = 3
  MaxPid = 4
  KillArgs = {0, 1, 2, 3}
  Ticks = Ticks
  None = None
SPECIFICATION Spec
INVARIANTS StackInUse NoOrphans WaitSleepsSoundly
CHECK_DEADLOCK FALSE
