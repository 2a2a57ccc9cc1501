SPECIFICATION IndexesSpec
CONSTANTS
  Absent = Absent
  Short = Short
  bow = bow
  plain = plain
  Sources = {bow, plain}
  Targets = {d1, d2}
  d1 = d1
  d2 = d2
  NumDocs = 3
  Indexed <- SmallIndexed
  Order <- Rotation
  Originals <- SmallOriginals
  MaxJobs = 2
  MaxCalls = 3
  MaxCrashes = 1
  Compressions <- SmallCompressions
  BlockLen = 3
  Bits = 4
  PackedPerByte = 2
  ExceptionBytes = 3
  One = 4
  MaxLength = 7
  Base = 4
  MaxDigits = 4
  QMax = 3
  ScoreLevels = 4
  Superblock = 2
  Ranks <- SmallRanks
  MaxK = 4
  MaxTerms = 3
  Exports <- SmallExports
  Threads = {t1, t2}
  t1 = t1
  t2 = t2
  Collections <- SmallCollections
  ToReorder = 6
  LeafSize = 1
  MaxIters = 2
  MinDf = 2
  MaxDf = 4
  Cost <- SmallCost
  NoLimit = 6
  Texts <- SmallTexts
  Trees <- SmallTrees
  Resolve <- SmallResolve
  QueryIndexes <- SmallQueryIndexes
  DocShare = 2
  K3 = 1
  Unit = 60
INVARIANTS EmptyOnlyWithoutClauses
CHECK_DEADLOCK FALSE
