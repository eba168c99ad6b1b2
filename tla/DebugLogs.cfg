CONSTANTS
  None = None
  n1 = n1
  n2 = n2
  Nodes = {n1, n2}
  Window = 3
  Limit = 2
  PruneEvery = 2
  Keep = 1
  MaxTime = 4
  MaxLines = 3
  MaxFailures = 1
SPECIFICATION Spec
SYMMETRY Interchangeable
INVARIANTS
  TypeOK
  LinesAreStreamed
  LinesAreBounded
