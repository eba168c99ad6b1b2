CONSTANTS
  None = None
  c1 = c1
  a1 = a1
  small = small
  other = other
  large = large
  i1 = i1
  i2 = i2
  s1 = s1
  s2 = s2
  Conditions = {}
  Networks = {small, other}
  Addresses = {a1}
  HostsOf <- MCHosts
  AddressesOf <- MCAddresses
  Large = {}
  Clients <- MCClients
  ClientIds = {i1}
  Secrets = {s1, s2}
  MaxEvents = 2
  MaxFailures = 0
  MaxSessions = 2
  NetworkFixed = FALSE
SPECIFICATION Spec
INVARIANTS
  StaleClientIsDue
