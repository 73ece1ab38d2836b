SPECIFICATION Spec
CONSTANTS
  Slots = {s1, s2}
  Clients = {c1, c2}
  TxnLife = 2
  CodeLife = 1
  RefreshLife = 2
  MaxTime = 3
  MaxMinted = 5
SYMMETRY Symmetry
INVARIANTS OneGrantPerApproval FamiliesInv ReplayEndsFamily
PROPERTY RevokedStaysDead
CHECK_DEADLOCK FALSE
