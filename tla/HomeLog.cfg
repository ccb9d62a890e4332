\* Two processes, three takeovers of the lock, one caller's append and one power loss: a
\* process can die in its write, lose power before its fsync, and be followed by another that
\* repairs and by a third that reads what the second made of it.
SPECIFICATION Spec
CONSTANTS
  Proc = {p1, p2}
  NoProc = NoProc
  MaxOpens = 3
  MaxAppends = 1
  MaxRot = 0
  MaxPower = 1
  MaxTamper = 0
  Lengths <- SomeLengths
SYMMETRY Processes
INVARIANTS
  TypeOK
  GaplessLog
  AckedKept
  EndsAreTold
  RepairIsFirst
PROPERTIES
  ImplementsEventLog
CHECK_DEADLOCK FALSE
