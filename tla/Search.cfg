SPECIFICATION Spec
CONSTANTS
  Searches <- SmallSearches
  BlockSize = 2
  Slack = 1
  WordBits = 2
  Segments = {1, 2, 3}
  Docs = {0, 1}
  MaxScoreOf = 2
  TopKs = {1, 2}
INVARIANTS TypeOK LoopInvariant BoundedWork
PROPERTIES SearchAdvances ImplementsContract
