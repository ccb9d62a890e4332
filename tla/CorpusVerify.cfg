\* Three tasks of one repository, two at once: the second shares a suite with the first, the
\* third has its commit under another clock.
SPECIFICATION Spec
CONSTANTS
  sum = sum
  parse = parse
  lint = lint
  Task = {sum, parse, lint}
  Ids <- Chain
  RecordOf <- Records
  Jobs = 2
  Checks <- RightOrWrong
  MaxEdits = 1
  MaxFaults = 1
  MaxUnrun = 0
INVARIANTS
  TasksApart
  CertifiedIsSound
  VerifiedIsGreen
  OwnReading
PROPERTIES
  VerifyEnds
CHECK_DEADLOCK FALSE
