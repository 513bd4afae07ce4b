SPECIFICATION Spec
CONSTANTS
  Depth = 2
  Files = {f1}
  Modes <- MCModes
  Whats = {"policies", "audit log", "key"}
  Absent = Absent
INVARIANTS
  TrustedIsOutOfReach
  RefusedIsInReach
CHECK_DEADLOCK FALSE
