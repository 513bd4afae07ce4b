SPECIFICATION Spec
CONSTANTS
  Characters <- MCCharacters
  Nodes <- MCNodes
  Height <- MCHeight
  Policies <- MCPolicies
  Queries <- MCQueries
  Tails <- MCTails
INVARIANTS
  QuietPermitNamesItsCommand
  LintedForAReason
  ShimPathDecidesNothing
  NamesStayNames
CHECK_DEADLOCK FALSE
