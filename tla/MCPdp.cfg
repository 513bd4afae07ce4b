SPECIFICATION PdpSpec
CONSTANTS
  Files = {1}
  Text = {good, blank}
  Broken = {}
  Invalid = {}
  Blank = {blank}
  Absent = Absent
  Nothing = Nothing
  Directory = Directory
  Ancestor = Ancestor
  Loosenable = {Directory}
  BlindEdits = FALSE
  Swaps = FALSE
  TrailFails = TRUE
  IoErrors = TRUE
  MaxEdits = 2
  MaxCrash = 1
  Requests = {q1}
INVARIANTS
  MisattributionNeedsRace
  DecidedBySetInForce
  NeverWithoutPolicies
  OneLinePerDecision
PROPERTY HealthTellsLastAttempt
CHECK_DEADLOCK FALSE
