SPECIFICATION FairSpec
CONSTANTS
  Tenant = {t1}
  Domain = {d1}
  Hash = {h1}
  RequestId = {r1, r2}
  Slot = {s1, s2}
  MaxAttempts = 2
  MaxRestarts = 1
  NoOne = none
INVARIANTS LedgerInv AppliedOnce BalancesReconcile
PROPERTY GateReleased
