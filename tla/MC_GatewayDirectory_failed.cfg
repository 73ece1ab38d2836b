SPECIFICATION Spec
CONSTANTS
  Slots = {s1, s2}
  Docs = {d1}
  Keys = {k1}
  None = none
  MaxSessions = 2
  MaxVersion = 2
SYMMETRY Symmetry
CHECK_DEADLOCK FALSE
INVARIANT FailedHasNoDocument
