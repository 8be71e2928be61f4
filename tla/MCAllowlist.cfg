SPECIFICATION FairSpec
CONSTANTS
  Slots = {s1, s2}
  Repos = {repo1, repo2}
  Faults = {"redis", "postgres", "process"}
  MaxChanges = 3
  None = none
INVARIANTS
  TypeOK
PROPERTIES
  NeverInvented
  CompleteRemovalHolds
  StalenessEnds
