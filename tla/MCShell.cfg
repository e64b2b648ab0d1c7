CONSTANTS
  Letters = {"c", "e"}
  Lines <- MCLines
  LaterLines <- MCLaterLines
  NPROC = 6
  MAXARGS = 3
  NOFILE = 5
  MaxLines = 2
  MaxFaults = 1
SPECIFICATION Spec
INVARIANTS ParserMatchesGrammar ForegroundDone
PROPERTY PromptReturns
CHECK_DEADLOCK FALSE
