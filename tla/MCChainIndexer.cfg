SPECIFICATION FairSpec
CONSTANTS
  Branches <- MCBranches
  Size <- MCSize
  Confirms <- MCConfirms
  MaxEvents = 2
  MaxFaults = 1
INVARIANTS
  ChainOfSections
  StoredCanonical
PROPERTIES
  CatchesUp
CHECK_DEADLOCK FALSE
