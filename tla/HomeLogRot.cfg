\* Two processes, three takeovers and one line that stops parsing at any moment: also while an
\* Open is quarantining, and also the record of a quarantine itself.
SPECIFICATION FairSpec
CONSTANTS
  Proc = {p1, p2}
  NoProc = NoProc
  MaxOpens = 3
  MaxAppends = 0
  MaxRot = 1
  MaxPower = 0
  MaxTamper = 0
  Lengths <- SomeLengths
INVARIANTS
  OpenVerifies
  QuarantinedOnce
PROPERTIES
  TornMovedFirst
  CallsReturn
CHECK_DEADLOCK FALSE
