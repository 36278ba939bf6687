CONSTANTS
  User = {u1, u2}
  Item = {a, b}
  Mine = {a, b}
  Sharded = FALSE
  TopKs = {1}
  Modulus = 4
  MayCrash = FALSE
  WriteBack = FALSE
SPECIFICATION Spec
SYMMETRY Users
INVARIANT SimIsCurrent
