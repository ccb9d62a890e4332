SPECIFICATION Spec
CONSTANTS
  WalkOrder <- MCWalkOrder
  Content = {1, 2}
  LinkTo <- MCLinkTo
  Skipped = {"node_modules"}
  Bases <- VendoredOnly
  Homes <- MCHomes
  Root <- Share
  Run <- R1
  MaxOps = 1
INVARIANTS
  UntouchedScoresBase
CHECK_DEADLOCK FALSE
