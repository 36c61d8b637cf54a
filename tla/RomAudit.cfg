SPECIFICATION Spec
CONSTANTS
    Total = 1
    MaxChunk = 1
    MaxRuns = 2
    MaxLate = 0
    MaxTorn = 1
INVARIANTS
    AuditLosesNothing
CHECK_DEADLOCK FALSE
