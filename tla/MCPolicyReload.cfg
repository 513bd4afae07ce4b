SPECIFICATION FairSpec
CONSTANTS
  Files = {1, 2}
  Text = {good, bad, blank}
  Broken = {bad}
  Invalid = {}
  Blank = {blank}
  Absent = Absent
  Nothing = Nothing
  Directory = Directory
  Ancestor = Ancestor
  Loosenable = {Directory, Ancestor, 1}
  BlindEdits = TRUE
  Swaps = TRUE
  TrailFails = TRUE
  IoErrors = TRUE
  MaxEdits = 2
  MaxCrash = 1
INVARIANTS
  TypeOK
  NoLostEdit
  HashNamesDecidingSet
  LastLoadedLineDecides
  HealthBehindTrail
  StaleIsTold
PROPERTIES
  LooseTreeIsNotAdopted
  ImplementsHotReload
  EditsTakeEffect
CHECK_DEADLOCK FALSE
