SPECIFICATION Spec
CONSTANTS
  NumTerms = 2
  Documents <- WeightedDocuments
  MaxDocs = 3
  Frequencies = {0, 1}
  Threshold = 1
  CkptThreshold = 1
  MaxCrashes = 2
INVARIANTS PublishedFaithful
