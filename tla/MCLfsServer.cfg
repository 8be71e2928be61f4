SPECIFICATION Spec
CONSTANTS
  Slots = {s1, s2}
  Repos = {r1, r2}
  Oids = {o1}
  BadOid = badOid
  None = none
  MaxSize = 1
  MaxBatch = 2
  MCOps = {"batchUpload", "batchDownload", "proxyUpload", "proxyDownload", "verify"}
  Requests <- MCRequests
  Faults = {"postgres", "redis", "s3", "process"}
SYMMETRY SlotSymmetry
INVARIANTS
  TypeOK
  CacheNeverAhead
  StoredAsRegistered
  DownloadsComplete
  WritesFindTheirRow
  BatchAnswersHold
  AcceptedObjectsAreOwned
PROPERTIES
  RowsOnlyAdvance
  OwnersSettle
  CallsAreBounded
  ImplementsRegistry
