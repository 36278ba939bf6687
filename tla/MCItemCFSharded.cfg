CONSTANTS
  User = {u1, u2}
  Item = {a, b}
  Mine = {a}
  Sharded = TRUE
  TopKs = {1}
  Modulus = 100
  MayCrash = TRUE
  WriteBack = TRUE
SPECIFICATION Spec
SYMMETRY Users
INVARIANTS SimIsNeverTooSmall NothingIsMadeUp
PROPERTY RebuildIsCurrent
