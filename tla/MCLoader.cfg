SPECIFICATION Spec
CONSTANTS
  path = path
  wpath = wpath
  wroot = wroot
  any = any
  lfs = lfs
  ffi = ffi
  one = one
  two = two
  off = off
  Modules <- MCModules
  Requires <- MCRequires
  Style <- MCStyle
  Root <- MCRoot
  Candidates <- MCCandidates
  Worlds <- MCWorlds
  Default = Default
  Main = Main
  MaxRequires = 5
  Nil = Nil
  True = True
  False = False
  Sentinel = Sentinel
CHECK_DEADLOCK FALSE
INVARIANTS
  SameModule
  RunsOnce
  HalfOnlyRegistered
  FirstPlace
