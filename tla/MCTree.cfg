SPECIFICATION Spec
CONSTANTS
  Names <- MCNames
  Up = up
  Slash = slash
  Lproj <- MCLproj
  Lang <- MCLang
  Rank <- MCRank
  Projects <- MCProjects
  MaxNodes = 12
  a = a
  b = b
  C = C
  en = en
  fr = fr
  english = english
  french = french
  up = up
  slash = slash
CHECK_DEADLOCK FALSE
INVARIANTS
  TreeShape
  SplitOnlyByNamesakes
  FilesShown
  VisitedOnce
