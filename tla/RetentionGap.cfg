CONSTANTS
  p1 = p1
  None = None
  mac1 = mac1
  alice1 = alice1
  Users = {alice1}
  Macs = {}
  Policies = {p1}
  JobDays <- MCJobDays
  PostauthDays = 1
  MaxTime = 8
  MaxChanges = 0
  MaxMisses = 0
SPECIFICATION Spec
INVARIANTS
  RetentionIsKept
