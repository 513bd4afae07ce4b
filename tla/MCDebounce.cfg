SPECIFICATION FairSpec
CONSTANTS
  DEBOUNCE = 3
  CEILING = 10
  Lateness = 2
  MaxQueued = 2
INVARIANTS
  TypeOK
  EndsByCeiling
  OutcomeIsTruthful
PROPERTY DrainEnds
