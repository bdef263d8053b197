SPECIFICATION Spec
CONSTANTS
  LUAI_MAXVARS = 6
  LUAI_MAXUPVALUES = 3
  LUAI_MAXCCALLS = 16
  MAXSTACK = 12
  LFIELDS_PER_FLUSH = 2
  MAXINDEXRK = 3
  MAXARG_sBx = 20
  MAXARG_C = 3
  MAXTAGLOOP = 3
  BASIC_CI_SIZE = 5
  LUAI_MAXCALLS = 40
  Chunks <- MCChunks
  Globals <- MCGlobals
CHECK_DEADLOCK FALSE
INVARIANTS
  RunsAsMeant
  CodeChecked
  UpvaluesOpen
  CCallsCounted
