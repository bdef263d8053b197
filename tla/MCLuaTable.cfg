SPECIFICATION Spec
CONSTANTS
  IntKeys <- MCIntKeys
  Pow2Keys <- MCPow2Keys
  ModKeys <- MCModKeys
  Collectable = {str, obj}
  Events = {newindex}
  NewIndex = newindex
  Hash <- MCHash
  Vals = {v1}
  Nil = nil
  MAXBITS = 3
  MAX_INT = 4
  MaxOps = 5
  InitSizes <- MCInitSizes
  ListSizes = {3}
  newindex = newindex
  str = str
  obj = obj
  v1 = v1
INVARIANTS
  KeysPlaced
  LengthIsBorder
  CacheHonest
  LookupsAgree
PROPERTIES
  TableIsMap
