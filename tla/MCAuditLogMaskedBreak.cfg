SPECIFICATION Spec
CONSTANTS
  serve = serve
  check = check
  Lone = Lone
  Procs = {serve}
  Own <- MCOwn
  Recs = {r1, r2, r3}
  Inodes = {i1}
  NoFile = NoFile
  Newline = Newline
  Zero = Zero
  Unknown = Unknown
  Readable = {TRUE}
  Faults = {"truncate"}
  MaxMeddle = 0
  MaxCrash = 0
INVARIANT EveryLineOneRecord
CHECK_DEADLOCK FALSE
