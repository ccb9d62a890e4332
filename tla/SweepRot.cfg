SPECIFICATION RotSpec
CONSTANTS
  small = small
  other = other
  sum = sum
  haiku = haiku
  opus = opus
  Arm = {small}
  Task = {sum}
  Model = {haiku}
  TaskSeq <- MCTaskSeq
  ArmLists <- Alone
  Repeats = 1
  ArmRepeats <- NoRepeats
  CapOf <- TwoEach
  Overshoot = 1
  FirstModel <- Haiku
  AdapterOf <- Adapters
  Budgets = {6}
  EstimateTasks = 1
  MaxInvocations = 2
  MaxEdits = 0
  MaxRepoints = 0
  MaxRot = 1
INVARIANT
  VerdictEndsItsRun
CHECK_DEADLOCK FALSE
