SPECIFICATION Spec
CONSTANTS
  Backends <- MCBackends
  Escaped <- MCEscaped
  Sessions = {"proxy", "s1"}
  Labels = {"session", "proxy", "git"}
  Agents = {"coder"}
  MaxPolicies = 2
INVARIANTS
  AllowIsBeyondDoubt
  CreditedToItsOwn
  RejectedNamesSameAgent
CHECK_DEADLOCK FALSE
