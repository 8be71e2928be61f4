SPECIFICATION FairSpec
CONSTANTS
  Slots = {s1, s2}
  Repos = {r1}
  Oids = {o1}
  BadOid = badOid
  None = none
  MaxSize = 1
  MaxBatch = 1
  MCOps = {"batchUpload", "batchDownload", "proxyUpload"}
  Requests <- MCRequests
  Faults = {"postgres", "redis", "s3", "process"}
INVARIANTS
  UploadedIsStored
PROPERTIES
  RequestsEnd
  StaleEntriesHeal
