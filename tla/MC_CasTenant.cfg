SPECIFICATION FairSpec
CONSTANTS
  leaf = leaf
  top = top
  Hash = {leaf, top}
  Refs <- TwoRefs
  RootUpdates <- TwoUpdates
  LeaseRequests = {0, 5}
  MinLease = 1
  MaxLease = 1
  UploadSession = 1
  CacheTTL = 1
  GcMaxNodes = 1
  UploadIds = {u1, u2}
  NoId = none
  MaxRootRefs = 1
  MaxFaults = 1
  MaxEvents = 2
INVARIANT StoreInv
PROPERTY RetainsProtected
PROPERTY LiveSessionKept
PROPERTY AbandonedReclaimed
