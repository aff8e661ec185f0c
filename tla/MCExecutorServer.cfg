CONSTANTS
  OutboundCapacity = 1
  MaxRecords = 4
  MaxBatch = 2
  MaxReconnects = 1
SPECIFICATION FairSpec
INVARIANTS
    NoSilentGap
    AuthorityMeansCollected
    FactualStopIsComplete
PROPERTIES
    StopEnds
CHECK_DEADLOCK FALSE
