SPECIFICATION Spec
CONSTANTS
  Entries <- MCEntries
  Rank <- MCRank
  Inputs <- MCInputs
CHECK_DEADLOCK FALSE
INVARIANTS
  FirstSole
