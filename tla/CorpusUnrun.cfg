\* A check that is wrong at landed, and one log file that cannot be created.
SPECIFICATION Spec
CONSTANTS
  sum = sum
  parse = parse
  lint = lint
  Task = {sum, parse, lint}
  Ids <- Chain
  RecordOf <- Records
  Jobs = 2
  Checks <- LandedWrong
  MaxEdits = 0
  MaxFaults = 0
  MaxUnrun = 1
INVARIANTS
  CertifiedIsSound
CHECK_DEADLOCK FALSE
