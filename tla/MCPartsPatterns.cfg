CONSTANTS
  Chosen = {"patterns"}
  Contents = {c1, c2}
  MaxTime = 4
  MaxSize = 3
  MaxTrained = 1
  max_cache_count_ = 3
  WordSize = 3
  MaxF = 8
  MaxPartition = 6
  item_num_ = 4
  min_sup = 2
  Databases <- MCDatabases
  MaxItem = 3
  RamLimits = {4, 100}
  Sources <- MCSources
  Documents <- MCDocuments
  MaxDocs = 2
  SplitTerms = {3}
  max_phrase_len_ = 3
  ManyDocs = 2
  manmade_ <- MCPhrase
  Refusals <- MCRefusals
  Query <- MCQueries
  Chinese = {1, 2}
  popularNum_ = 2
  realTimeNum_ = 1
  PopularFactor = 1
  RealTimeFactor = 2
  MaxItems = 3
  Topic = {t1, t2}
  MaxDay = 4
  Bursts <- MCBursts
  MaxAdds = 3
SPECIFICATION PartsSpec
CHECK_DEADLOCK FALSE
INVARIANTS FrequentPatterns
