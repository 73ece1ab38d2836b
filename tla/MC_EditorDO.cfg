SPECIFICATION FairSpec
CONSTANTS
  OpIds = {o1, o2}
  NoOp = noop
  Batches = {b1, bad}
  Invalid = {bad}
  InitialDocs <- EmptyDocs
  NoDoc = nodoc
  DELTA_THRESHOLD = 2
  RECENT_OP_LIMIT = 1
  MaxVersion = 3
  MaxEnsures = 1
  MaxFaults = 2
INVARIANTS EditorInv  RootsExactUntilEnsured RecentOpsHonest ContentFaithful
PROPERTY KeepsCommitLog
PROPERTY IntentsSettle
