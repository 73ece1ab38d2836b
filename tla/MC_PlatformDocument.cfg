SPECIFICATION Spec
CONSTANTS
  Slots = {s1, s2}
  Identities = {i1, i2}
  Hashes = {h1, h2, h3}
  OpIds = {o1, o2, o3}
  None = none
  MaxVersion = 4
SYMMETRY Symmetry
INVARIANTS VersionsRetained RootsExact PlatformInv ReceiptsTrue
PROPERTY KeepsCommitLog
