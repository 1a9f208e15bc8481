SPECIFICATION FairSpec
CONSTANTS
    MaxReads = 3
    MaxTelegrams = 3
INVARIANT ReadsInOperation
INVARIANT ClientHeard
INVARIANT NoneSkipped
INVARIANT WaitsForClients
PROPERTY Served
