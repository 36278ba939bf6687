CONSTANTS
  User = {u1, u2}
  Item = {a, b}
  Mine = {a, b}
  Sharded = FALSE
  TopKs = {1}
  Modulus = 100
  MayCrash = TRUE
  WriteBack = FALSE
SPECIFICATION Spec
SYMMETRY UsersAndItems
INVARIANT FreqOfVisitedIsPositive
