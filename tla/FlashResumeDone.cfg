SPECIFICATION Spec
CONSTANTS
    s1 = s1
    s2 = s2
    s3 = s3
    Sectors = {s1, s2}
    NoSector = NoSector
    Plan <- TwoSectors
    Blocks = 1
    CounterMod = 2
    Options <- Plain
    Integrity = {NoSector, s1}
    SharedJournal = TRUE
    MaxRuns = 1
INVARIANTS
    ResumeKeepsUnfinishedSectors
CHECK_DEADLOCK FALSE
