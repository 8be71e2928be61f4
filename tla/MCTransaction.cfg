SPECIFICATION FairSpec
CONSTANTS
  Callers = {c1, c2}
  Rows = {r1, r2}
  PoolSize = 1
  Faults = {"postgres"}
INVARIANTS
  TypeOK
  ResultIsTrue
  PoolIsWhole
PROPERTIES
  CommitsAreWhole
  CallsReturn
