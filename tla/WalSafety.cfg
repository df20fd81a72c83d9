CONSTANTS
    MaxEvents = 4
    MaxFaults = 2
    SegmentSize = 2
    BatchSize = 2
    SinkSize = 2
SPECIFICATION FairSpec
INVARIANTS WalTypeOK PromisedKept RefusedOnlyHeaderless
PROPERTY Shipped
CHECK_DEADLOCK FALSE
