SPECIFICATION Spec
CONSTANTS
  Slots = {s1, s2}
  Repos = {r1, r2}
  Oids = {o1}
  BadOid = badOid
  None = none
  MaxSize = 1
  MaxBatch = 1
  MCOps = {"batchUpload", "batchDownload", "proxyUpload"}
  Requests <- MCRequests
  Faults = {}
SYMMETRY SlotSymmetry
INVARIANTS
  UpdateRefreshesCache
