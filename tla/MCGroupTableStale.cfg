CONSTANTS
  DocId = {a, b, c}
  SetData <- MCSetData
  MaxGroups = 2
  SetWithFreeIds = TRUE
SYMMETRY Symmetry
SPECIFICATION Spec
INVARIANT FindReturnsTheSameGroup
