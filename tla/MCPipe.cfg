CONSTANTS
  Procs = {p1, p2}
  Nobody = Nobody
  Bytes = {a, b}
  PIPESIZE = 2
  UintMod = 4
  MaxCount = 3
  Killable = {p1}
SPECIFICATION FairSpec
INVARIANTS WritersMustWait UnkilledReadersMustWait FreedLast
PROPERTIES ImplementsFifo ReaderSeesEOF WriterSeesClose
CHECK_DEADLOCK FALSE
