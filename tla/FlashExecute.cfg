SPECIFICATION FairSpec
CONSTANTS
    s1 = s1
    s2 = s2
    s3 = s3
    Sectors = {s1, s2}
    NoSector = NoSector
    Plan <- TwoSectors
    Blocks = 2
    CounterMod = 2
    Options <- EachOption
    Integrity = {NoSector, s1, s2}
    SharedJournal = FALSE
    MaxRuns = 2
INVARIANTS
    TypeOK
    ReportIsTrue
    SuccessIsComplete
    RestoredMeansAudible
    CancelIsPrompt
    ResumedChainIsComplete
PROPERTIES
    IntegritySectorLast
    ImplementsFlashJob
    ExecuteEnds
CHECK_DEADLOCK FALSE
