SPECIFICATION Spec
CONSTANTS
  Users = {u1, u2}
  Runs = {r1, r2}
  Threads = {t1, t2}
  Keys = {k1, k2}
  Bodies = {x}
  Blobs = {b1, b2}
  None = none
  MaxTries = 2
  MaxVersions = 3
  MaxComments = 2
  MaxEvents = 3
  MaxMoves = 1
  MaxFaults = 1
SYMMETRY Symmetry
INVARIANTS SubmittedOnce HistoryInv AnsweredOnce KeysOnce SnapshotsKept
PROPERTY PointerExplained
CHECK_DEADLOCK FALSE
