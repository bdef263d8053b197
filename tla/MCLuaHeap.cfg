SPECIFICATION Spec
CONSTANTS
  str = str
  ud = ud
  tab = tab
  weaktab = weaktab
  fun = fun
  fun2 = fun2
  upv = upv
  main = main
  co = co
  globals = globals
  nil = nil
  Strings = {str}
  Udata = {ud}
  Tables = {globals, tab, weaktab}
  Functions = {fun, fun2}
  UpVals = {upv}
  Threads = {main, co}
  Main = main
  Globals = globals
  Slots = {1, 2}
  WeakK = {}
  WeakV = {weaktab}
  HasGC = {ud}
  Nil = nil
  Pick <- First
  Heaps <- MCHeaps
  MaxOps = 2
CHECK_DEADLOCK FALSE
INVARIANTS
  ReachableLive
  TriColour
  GarbageCollected
PROPERTIES
  FinalizedOnce
  FullCollects
