SPECIFICATION Spec
CONSTANTS
  serve = serve
  check = check
  Lone = r3
  Procs = {serve, check}
  Own <- MCOwn
  Recs = {r1, r2, r3}
  Inodes = {i1, i2}
  NoFile = NoFile
  Newline = Newline
  Zero = Zero
  Unknown = Unknown
  Readable = {TRUE, FALSE}
  Faults = {"stat", "reopen", "truncate", "size"}
  MaxMeddle = 1
  MaxCrash = 1
SYMMETRY Symmetry
INVARIANTS
  TypeOK
  FusedOnlyAfterForgottenBreak
  AckedRecordsSurvive
  WritesWherePathPoints
  ShrinkWarningIsExact
CHECK_DEADLOCK FALSE
