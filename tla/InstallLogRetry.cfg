SPECIFICATION Spec
CONSTANTS
  j1 = j1
  j2 = j2
  Hole = Hole
  NoFile = NoFile
  Jobs <- OneJob
  MaxWrites = 4
  ReadErrors = TRUE
INVARIANT InStep
CHECK_DEADLOCK FALSE
