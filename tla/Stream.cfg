SPECIFICATION Spec
CONSTANTS
  Id = {1, 2, 3}
  MaxCalls <- MCMaxCalls
  Model = {"arm", "helper"}
  Arm = "arm"
  Source = {"none", "key", ""}
  Injected = "subscription"
  WallMS = 2
  Durations <- MCDurations
  MaxGarbled = 1
INVARIANTS
  VerdictIsTrue
  RightFiguresAreKnown
  RefusalsCountOnce
  ProvenMeansUnseen
CHECK_DEADLOCK FALSE
