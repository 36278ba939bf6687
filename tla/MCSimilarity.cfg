\* The terms part may stop for good: a program that is not started again.
CONSTANTS
 MaxSets = 3
 MaxSize = 2
 Inputs <- MCInputs
 MaxDocs = {0, 1}
 Weights <- MCWeights
 thresholdSim_ = 1
 Limit = 2
 Term = {1, 2, 3}
 Context = {1, 2}
 Dimension = {1, 2}
 DrawnVectors <- MCDrawn
 Items <- MCItems
 MinScore <- MCScore
 max_count_ = 1
 MaxAppends = 3
 MaxOpens = 2
SPECIFICATION SimilaritySpec
INVARIANTS IndexIsBest VectorsAreKept StorageIsSum TableIsBest
PROPERTIES EachPairOnce SearchEnds
CHECK_DEADLOCK FALSE
