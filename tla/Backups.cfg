SPECIFICATION Spec
CONSTANTS
  f1 = f1
  f2 = f2
  a1 = a1
  c1 = c1
  c2 = c2
  Files <- OneFile
  Archives <- OneArchive
  Creates <- TwoCreates
  MaxChanges = 1
  Absent = Absent
  Mixed = Mixed
SYMMETRY Symmetric
INVARIANTS
  ReportedIntact
  FailedLeavesNothing
CHECK_DEADLOCK FALSE
