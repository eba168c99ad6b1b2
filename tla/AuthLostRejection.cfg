CONSTANTS
  mab = mab
  alice1 = alice1
  alice2 = alice2
  g1 = g1
  p1 = p1
  r1 = r1
  r2 = r2
  r3 = r3
  sw1 = sw1
  sw2 = sw2
  m1 = m1
  m2 = m2
  None = None
  Texts <- MCTexts
  Groups <- MCGroups
  Attributes <- MCAttributes
  Decimal <- MCDecimal
  TextMatch <- MCTextMatch
  Endpoints <- Mab
  MacEndpoints <- Mab
  UserOf <- MCUserOf
  SwitchNames = {sw1, sw2}
  SwitchMacs = {m1, m2}
  PortNames = {"1"}
  PolicyIds = {p1}
  PolicyRows <- OverlapRows
  AuthOf <- MCAuthOf
  Requests = {r1, r2, r3}
  MaxChanges = 0
  Isolated = FALSE
SPECIFICATION Spec
SYMMETRY Interchangeable
INVARIANTS
  RejectionIsRecorded
\* Every request is served once.
CHECK_DEADLOCK FALSE
