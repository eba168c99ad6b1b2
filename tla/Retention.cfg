CONSTANTS
  p1 = p1
  None = None
  mac1 = mac1
  alice1 = alice1
  Users = {mac1}
  Macs = {mac1}
  Policies = {p1}
  JobDays <- MCJobDays
  PostauthDays = 3
  MaxTime = 11
  MaxChanges = 2
  MaxMisses = 1
SPECIFICATION Spec
CONSTRAINT SeenByThen
INVARIANTS
  TypeOK
  UnseenIsPruned
PROPERTIES
  KeptWhileSeen
  FollowsLifecycle
