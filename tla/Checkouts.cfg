SPECIFICATION Spec
CONSTANTS
  WalkOrder <- MCWalkOrder
  Content = {1, 2}
  LinkTo <- MCLinkTo
  Skipped = {"node_modules"}
  Bases <- AllBases
  Homes <- MCHomes
  Root <- Share
  Run <- R1
  MaxOps = 5
INVARIANTS
  BoundaryIsTheRun
  ScoredIsTheWorkers
  TreesHold
PROPERTIES
  WritesStayPut
CHECK_DEADLOCK FALSE
