SPECIFICATION Spec
CONSTANTS
  Requests = {r1, r2}
  Paths <- MCPaths
  Rels <- MCRels
  MaxChanges = 2
INVARIANTS SavedWhole HalfExplained ReadTrue DeleteGone
PROPERTY RootKept
SYMMETRY Symmetric
CHECK_DEADLOCK FALSE
