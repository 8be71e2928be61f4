SPECIFICATION Spec
CONSTANTS
  Slots = {s1, s2}
  Users = {alice}
  Writer = alice
  Repos = {repo}
  Private = none
  URIs = {uri1, uri2}
  AllowedURIs = {uri1, uri2}
  States = {t1, t2}
  SessionIDs = {i1, i2}
  Access <- MCAccess
  Faults = {}
  None = none
SYMMETRY LoginSymmetry
INVARIANTS
  CodesAreAccepted
