CONSTANTS
  CPUs = {c0}
  Cpu0 = c0
  NPROC = 3
  MaxPid = 3
  KillArgs = {2, 3}
  Ticks = Ticks
  None = None
SPECIFICATION FairSpec
PROPERTIES RunnableRuns KilledExits WaitReturns
