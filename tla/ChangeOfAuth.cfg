CONSTANTS
  None = None
  mab1 = mab1
  alice1 = alice1
  mab2 = mab2
  m1 = m1
  m2 = m2
  p1 = p1
  p2 = p2
  n1 = n1
  n2 = n2
  Endpoints = {mab1, alice1, mab2}
  MacOf <- MCMacOf
  Ports = {p1, p2}
  NamesOf <- MCNamesOf
  NasOf <- MCNasOf
  Enabled = {n1}
  MaxEvents = 4
  MaxCalls = 2
SPECIFICATION Spec
INVARIANTS
  TypeOK
  WaitingIsServed
PROPERTIES
  NoStrangerBounced
  GroupChangeIsApplied
\* The devices come to rest.
CHECK_DEADLOCK FALSE
