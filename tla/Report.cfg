SPECIFICATION Spec
CONSTANTS
  Cells <- MCCells
  Corpus = "main"
  ModelOf <- MCModelOf
  Class = {"defect", "feature"}
  ClassAtStart <- MCClassAtStart
  Reading <- MCReading
  PublicSince <- MCPublicSince
  Cutoffs <- MCCutoffs
  MonthLength = 10
  MaxRuns = 3
  MaxMishaps = 1
INVARIANTS
  FoldAgrees
  RowsAddUp
  RefusesExactly
  ReportIsOfReadings
CHECK_DEADLOCK FALSE
