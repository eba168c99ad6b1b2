CONSTANTS
  g5 = g5
  g7 = g7
  p1 = p1
  p2 = p2
  None = None
  Texts <- MCTexts
  Groups <- MCGroups
  Attributes <- MCAttributes
  Decimal <- MCDecimal
  TextMatch <- MCTextMatch
  PolicyIds <- MCPolicyIds
  PolicyRows <- MCPolicyRows
  Auths <- MCAuths
SPECIFICATION Spec
INVARIANTS
  MatchedIsFirst
  NoMatchOnlyIfNone
  FailureIsFirst
\* A request's selection ends.
CHECK_DEADLOCK FALSE
