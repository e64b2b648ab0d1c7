\* Three slots and stamps that wrap at 5: the ring wraps several times before
\* the stamps do, and the two wraps fall at different places.
CONSTANTS
  Threads = {t1, t2}
  NoThread = NoThread
  Events = {e1, e2}
  NoEvent = NoEvent
  KLOG_SIZE = 3
  TempSize = 4
  UintMod = 5
  LenMod = 8
  MaxArgs <- MaxValues
SYMMETRY Symmetry
SPECIFICATION Spec
INVARIANT SnapshotIsGapFree
PROPERTY ImplementsRecorder
