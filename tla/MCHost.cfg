SPECIFICATION Spec
CONSTANTS
  Nil = Nil
  Macros = {"$x"}
  Drives = {"c:"}
  Worlds <- MCWorlds
  Options <- MCOptions
  Actions <- MCActions
  Names = {"d", "e"}
  Hidden = {".git"}
  PathArgs <- MCPathArgs
  Bases <- MCBases
  Patterns <- MCPatterns
  Subjects <- MCSubjects
  Letters = {"a", "b"}
  Digits = {"0", "1", "2"}
  Collate <- MCCollate
  LUA_MAXCAPTURES = 2
  MaxOps = 3
  MaxDepth = 3
CHECK_DEADLOCK FALSE
INVARIANTS
  ScriptDirectory
  ActionGuarded
  PathsKeepMeaning
  WalkFindsAll
  FindsPreferred
  GsubReplacesMatches
