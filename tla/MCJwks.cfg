SPECIFICATION FairSpec
CONSTANTS
  Slots = {s1, s2}
  Kids = {k1, k2}
  Faults = {"redis", "github", "process"}
  MaxRotations = 3
  None = none
INVARIANTS
  TypeOK
  SteadyKeyIsFound
PROPERTIES
  KeySetsArePublished
  RotationSettles
