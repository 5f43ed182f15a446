SPECIFICATION FairSpec
CONSTANTS
  j1 = j1
  j2 = j2
  Hole = Hole
  NoFile = NoFile
  Jobs <- TwoJobs
  MaxWrites = 4
  ReadErrors = FALSE
INVARIANTS
  InStep
  OldSkipped
  HolesNeedOverlap
PROPERTY StreamedIfNoticed
CHECK_DEADLOCK FALSE
