SPECIFICATION Spec
CONSTANTS
  o1 = o1
  o2 = o2
  Objects <- MCObjects
  good = good
  selfSigned = selfSigned
  Contents <- MCContents
  Believed <- MCBelieved
  Insides <- MCInsides
  Link = Link
  None = None
INVARIANTS
  TypeOK
  OneObject
  NothingUnearned
  AtRiskIsHonest
PROPERTIES
  Settles
CHECK_DEADLOCK FALSE
