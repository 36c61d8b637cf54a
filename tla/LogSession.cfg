CONSTANTS
    Sample <- Samples
    NoSample = NoSample
    Pids = 1
    Capacity = 1
    Wraps = 4
    Depth = 2
    MaxPushes = 4
    Controllers = {main}
    MaxRuns = 2
    MaxReads = 2
    MaxBuffers = 1
SPECIFICATION FairSpec
INVARIANTS
    SessionTypeOK
    RingOfThisRun
    CountersAgree
    NoSharedSlot
    SnapshotIsRecent
PROPERTIES
    AttachListStable
    RestartsAnEmptyQueue
    StopReturns
