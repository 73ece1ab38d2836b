SPECIFICATION Spec
CONSTANTS
  Slots = {s1, s2}
  b1 = b1
  b2 = b2
  Batches = {b1, b2}
  Invalid = {}
  WithRefs = {b1, b2}
  InitialDocs <- UploadedDocs
  CloneDocs <- ClonedDocs
  NoDoc = nodoc
  DELTA_THRESHOLD = 2
  MaxAhead = 1
  MaxRequests = 4
  MaxFaults = 2
  MaxEvents = 4
SYMMETRY Symmetry
CHECK_DEADLOCK FALSE
INVARIANTS RestorePointsInv AcknowledgedKept ContentFaithful
