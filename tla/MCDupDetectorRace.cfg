CONSTANTS
  DocId = {1, 2}
  Fp <- MCFp
  Length <- MCLength
  GetK <- MCGetK
  AttachDd <- MCAttachDd
  Masks <- MCMasks
  MaxTables = 0
  TrashMins = {200}
  InsertWhileMarked = TRUE
SPECIFICATION Spec
PROPERTIES
  InsertedAreNew
