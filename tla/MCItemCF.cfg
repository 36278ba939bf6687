CONSTANTS
  User = {u1, u2}
  Item = {a, b, c}
  Mine = {a, b, c}
  Sharded = FALSE
  TopKs = {1, 2}
  Modulus = 100
  MayCrash = FALSE
  WriteBack = FALSE
SPECIFICATION Spec
SYMMETRY UsersAndItems
INVARIANTS CountsUsers SimIsCurrent NeighborsAreTop RecommendsBoughtTogether
