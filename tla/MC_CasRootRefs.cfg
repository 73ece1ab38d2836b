SPECIFICATION Spec
CONSTANTS
  Tenant = {t1, t2}
  Domain = {d1, d2}
  Hash = {h1}
  RequestId = {r1}
  Slot = {s1, s2}
  MaxAttempts = 2
  MaxRestarts = 0
  NoOne = none
SYMMETRY Symmetry
INVARIANTS EventLogGapFree AnswersHonest CountsReconcile CountedNodesKept
