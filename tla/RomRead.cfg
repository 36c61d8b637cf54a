SPECIFICATION Spec
CONSTANTS
    Total = 3
    MaxChunk = 2
    MaxRuns = 2
    MaxLate = 1
    MaxTorn = 1
INVARIANTS
    TypeOK
    ImageFaithful
    
PROPERTIES
    ReadEnds
CHECK_DEADLOCK FALSE
