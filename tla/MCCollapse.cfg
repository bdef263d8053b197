SPECIFICATION Spec
CONSTANTS
  NumProjects = 2
  Nil = Nil
  Values <- AnyValue
  Configs <- MCConfigs
  Platforms <- MCPlatforms
  Native <- MCNative
  NoSharedLibs <- MCNoShared
  StaticLib <- MCStatic
  SharedLib <- MCShared
  Env <- MCEnv
  Items <- MCItems
  Scripts <- MCScripts
CHECK_DEADLOCK FALSE
INVARIANTS
  MatchingBlocksMerged
  LinksInScriptOrder
  FileBlocksNameFile
  ExcludedFilesGone
  FileBlocksOfLastSharer
