\* Every log of up to three lines: three is the least at which a damaged seq can be
\* confirmed across an unparseable line, and one more seq than lines lets a line claim
\* a place past the end.
SPECIFICATION Spec
CONSTANTS
  MaxLines = 3
  MaxSeq = 4
  Logs <- MCLogs
INVARIANTS
  PositionIsSeq
  RefusesExactly
  ReportsExactly
  QuarantineSettles
CHECK_DEADLOCK FALSE
