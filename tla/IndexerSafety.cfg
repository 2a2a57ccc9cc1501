SPECIFICATION FairSpec
CONSTANTS
  NumTerms = 2
  Documents <- FlatDocuments
  MaxDocs = 3
  Frequencies = {1, 2}
  Threshold = 1
  CkptThreshold = 1
  MaxCrashes = 2
INVARIANTS TypeOK PublishedFaithful CheckpointRecoverable ResumeAccepted StatisticsExact
PROPERTIES EventuallyPublished CheckpointAdvances CheckpointOutlivesBuild ImplementsContract
