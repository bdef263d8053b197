SPECIFICATION Spec
CONSTANTS
  Solutions = {S1, S2}
  Names = {A, B}
  Terms = {none, debug, number}
  EmptyTerms = none
  BadTerms = {number}
  Fields <- MCFields
  FieldKind <- MCFieldKind
  FieldScope <- MCFieldScope
  Words <- MCWords
  ListArgs <- MCListArgs
  Canonical <- MCCanonical
  Expand <- MCExpand
  Nil = Nil
  MaxProjects = 4
  MaxBlocks = 3
  MaxCalls = 6
  kind = kind
  flags = flags
  language = language
  configurations = configurations
  files = files
  vpaths = vpaths
  spelled = spelled
  canonical = canonical
  refused = refused
SYMMETRY Symmetry
CHECK_DEADLOCK FALSE
INVARIANTS
  SlotConsistent
PROPERTIES
  OnlyCurrentChanges
  FailedCallsLeaveNoTrace
