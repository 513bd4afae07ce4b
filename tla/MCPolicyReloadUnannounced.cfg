SPECIFICATION Spec
CONSTANTS
  Files = {1, 2}
  Text = {good, bad, blank}
  Broken = {bad}
  Invalid = {}
  Blank = {blank}
  Absent = Absent
  Nothing = Nothing
  Directory = Directory
  Ancestor = Ancestor
  Loosenable = {Directory, Ancestor, 1}
  BlindEdits = TRUE
  Swaps = TRUE
  TrailFails = TRUE
  IoErrors = FALSE
  MaxEdits = 2
  MaxCrash = 1
INVARIANT EveryEditCounts
CHECK_DEADLOCK FALSE
