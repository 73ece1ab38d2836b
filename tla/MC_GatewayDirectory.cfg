SPECIFICATION Spec
CONSTANTS
  Slots = {s1, s2}
  Docs = {d1}
  Keys = {k1}
  None = none
  MaxSessions = 3
  MaxVersion = 2
SYMMETRY Symmetry
CHECK_DEADLOCK FALSE
INVARIANTS RowsTruthful OneSessionPerKey
PROPERTY DecisionsFinal
