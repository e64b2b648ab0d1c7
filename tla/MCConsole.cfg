CONSTANTS
  p1 = p1
  p2 = p2
  c1 = c1
  c2 = c2
  Readers = {p1, p2}
  Cpus = {c1, c2}
  Intr = Intr
  Nobody = Nobody
  Plain = {"x"}
  INPUT_BUF = 2
  UintMod = 4
  COLS = 2
  ROWS = 3
  BYTE = 3
  MaxRead = 2
  MaxPrint = 1
  PanicCalls = 1
SPECIFICATION MCSpec
INVARIANTS ReadersWait PanicProceeds CursorOnScreen
PROPERTY ImplementsLineInput
CHECK_DEADLOCK FALSE
