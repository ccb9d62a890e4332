\* Two processes that each take the home once, and home.lock removed or events.jsonl replaced twice
\* at any moment: the second time under a process whose lines the first has already shifted.
SPECIFICATION TamperSpec
CONSTANTS
  Proc = {p1, p2}
  NoProc = NoProc
  MaxOpens = 2
  MaxAppends = 1
  MaxRot = 0
  MaxPower = 0
  MaxTamper = 2
  Lengths <- SomeLengths
SYMMETRY Processes
INVARIANTS
  OneStrayLine

  
CHECK_DEADLOCK FALSE
