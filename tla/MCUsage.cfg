SPECIFICATION Spec
CONSTANTS
  Names <- MCNames
  Libraries <- MCLibraries
  Graphs <- MCGraphs
  Self = self
  OwnFlag = ownflag
  None = None
  a = a
  b = b
  c = c
  d = d
  lib = lib
CHECK_DEADLOCK FALSE
INVARIANTS
  LinkageCopied
PROPERTIES
  ConnectionsFound
  Terminates
