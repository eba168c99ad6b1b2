CONSTANTS
  None = None
  c1 = c1
  a1 = a1
  small = small
  other = other
  large = large
  i1 = i1
  i2 = i2
  s1 = s1
  s2 = s2
  Conditions = {c1}
  Networks = {small, large}
  Addresses = {a1}
  HostsOf <- MCHosts
  AddressesOf <- MCAddresses
  Large = {large}
  Clients <- MCClients
  ClientIds = {i1}
  Secrets = {s1, s2}
  MaxEvents = 2
  MaxFailures = 1
  MaxSessions = 2
  NetworkFixed = TRUE
SPECIFICATION Spec
INVARIANTS
  EventTypeOK
  ClientTypeOK
  ExecutedInOrder
  MissedOnlyIfOverlapped
  StaleClientIsDue
PROPERTIES
  DebugSwitchSettles
  ReconciledAsRead
