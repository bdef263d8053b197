SPECIFICATION Spec
CONSTANTS
  NumProjects = 1
  Nil = Nil
  Values <- AnyValue
  Configs <- BugConfigs
  Platforms <- NoPlatforms
  Native <- MCNative
  NoSharedLibs <- MCNoShared
  StaticLib <- MCStatic
  SharedLib <- MCShared
  Env <- MCEnv
  Items <- MCItems
  Scripts <- BugScripts
CHECK_DEADLOCK FALSE
INVARIANT
  KindBlocksMerged
