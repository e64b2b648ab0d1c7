CONSTANTS
  Procs = {p1, p2, p3}
  Nobody = Nobody
SPECIFICATION LockFairSpec
INVARIANTS MutualExclusion NoLostWakeup
PROPERTY FreeLockIsTaken
