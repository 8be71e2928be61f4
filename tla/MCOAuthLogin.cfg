SPECIFICATION Spec
CONSTANTS
  Slots = {s1, s2}
  Users = {alice, bob}
  Writer = alice
  Repos = {repo, hidden}
  Private = hidden
  URIs = {uri1, uri2}
  AllowedURIs = {uri1}
  States = {t1, t2}
  SessionIDs = {i1, i2}
  Access <- MCAccess
  Faults = {"redis", "github", "process"}
  None = none
SYMMETRY LoginSymmetry
INVARIANTS
  TypeOK
  OneSessionPerLogin
  SessionsAreEntitled
  OwnRedirectURI
  CodesAreAccepted
