SPECIFICATION FairSpec
CONSTANTS
  Slots = {s1}
  Users = {alice}
  Repos = {repo, REPO}
  Paths = {repo, REPO, other}
  Lower = repo
  Upper = REPO
  Fold <- MCFold
  Kids = {k1}
  SessionIDs = {i1, i2}
  Perms <- ReadOrWrite
  OidcSettings = {TRUE, FALSE}
  Faults = {"redis", "postgres", "github"}
  MaxChanges = 1
  None = none
INVARIANTS
  TypeOK
  PassedWasEntitled
  CookieBacksUpBasic
PROPERTIES
  WithdrawalTakesEffect
