CONSTANTS
  DocId = {a, b, c}
  SetData <- MCSetData
  MaxGroups = 2
  SetWithFreeIds = FALSE
SYMMETRY Symmetry
SPECIFICATION Spec
INVARIANTS
  TypeOK
  GroupsAgree
  FreeIdsAreUnused
  SavedIsSound
PROPERTIES
  DiscoveryIsReported
  ImplementsPartition
