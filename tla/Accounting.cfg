CONSTANTS
  None = None
  e1 = e1
  Sessions = {e1}
  Stamped = TRUE
  RetentionTime = 1
  MaxTime = 2
  MaxPackets = 4
  MaxThreads = 2
SPECIFICATION Spec
INVARIANTS
  TypeOK
  EndedIsClosed
  StopIsExact
  StartIsTrue
  RunningIsOpen
PROPERTIES
  OrphansGo
