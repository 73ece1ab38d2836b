SPECIFICATION Spec
CONSTANTS
  leaf = leaf
  top = top
  Hash = {leaf, top}
  Refs <- TwoRefs
  RootUpdates <- TwoUpdates
  LeaseRequests = {0, 5}
  MinLease = 1
  MaxLease = 2
  UploadSession = 1
  CacheTTL = 1
  GcMaxNodes = 1
  UploadIds = {}
  NoId = none
  MaxRootRefs = 1
  MaxFaults = 0
  MaxEvents = 0
INVARIANT LiveReady
