CONSTANTS
  DocId = {1, 2, 3}
  Fp <- FarFp
  Length <- FarLength
  GetK <- MCGetK
  AttachDd <- FarAttachDd
  Masks <- MCMasks
  MaxTables = 0
  TrashMins = {3, 4}
  InsertWhileMarked = FALSE
SPECIFICATION Spec
INVARIANTS
  TypeOK
  GroupsAreChains
  EveryPairIsFound
  RemovedStayOut
  StorageIsCurrent
