SPECIFICATION PdpSpec
CONSTANTS
  Files = {1}
  Text = {good, other}
  Broken = {}
  Invalid = {}
  Blank = {}
  Absent = Absent
  Nothing = Nothing
  Directory = Directory
  Ancestor = Ancestor
  Loosenable = {}
  BlindEdits = FALSE
  Swaps = FALSE
  TrailFails = FALSE
  IoErrors = FALSE
  MaxEdits = 1
  MaxCrash = 0
  Requests = {q1}
INVARIANT TrailNamesDecider
CHECK_DEADLOCK FALSE
