SPECIFICATION StoresSpec
CONSTANTS
  Parts = {"builder"}
  id = id
  url = url
  KeyNames = {id, url}
  KeyValues = {1, 2, 3}
  Documents <- MixedDocuments
  BlockSize = 2
  Callers <- SteadyCallers
  NumWords = 3
  Collections <- SmallCollections
  Frequencies = {1, 2}
  MaxBatch = 3
  MaxCrashes = 2
  NoLimit = 6
  LeafDocs = {0, 1, 2, 3, 5}
  OperatorDocs = {0, 1, 2, 4}
  DocLengths <- Lens
  NormBase = 1
  NormSlope = 2
  Idf = 60
  Grain = 1
  ScoreChunkSize = 2
INVARIANTS LengthsExact
