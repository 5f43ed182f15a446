SPECIFICATION Spec
CONSTANTS
  f1 = f1
  f2 = f2
  a1 = a1
  c1 = c1
  c2 = c2
  Files <- TwoFiles
  Archives <- OneArchive
  Creates <- OneCreate
  MaxChanges = 2
  Absent = Absent
  Mixed = Mixed
SYMMETRY Symmetric
INVARIANTS
  BackupComplete
  RestoreExact
  BackupRestores
CHECK_DEADLOCK FALSE
