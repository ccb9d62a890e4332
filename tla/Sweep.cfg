SPECIFICATION FairSpec
CONSTANTS
  small = small
  other = other
  sum = sum
  haiku = haiku
  opus = opus
  Arm = {small, other}
  Task = {sum}
  Model = {haiku, opus}
  TaskSeq <- MCTaskSeq
  ArmLists <- AloneOrMixed
  Repeats = 2
  ArmRepeats <- NoRepeats
  CapOf <- TwoEach
  Overshoot = 1
  FirstModel <- Haiku
  AdapterOf <- Adapters
  Budgets = {3, 4}
  EstimateTasks = 1
  MaxInvocations = 2
  MaxEdits = 1
  MaxRepoints = 1
  MaxRot = 0
INVARIANTS
  VerdictEndsItsRun
  NotPaidTwice
  NothingLeftUndone
  RunsAccounted
  BudgetHoldsButForTurns
  ScoredByACertifiedCheck
PROPERTIES
  InvocationReturns
CHECK_DEADLOCK FALSE
