CONSTANTS
    Addr = {a1}
    Val = {v1, v2}
    Torn = Torn
    Additional = {alt}
    CheckpointId = {c1}
    Printed <- FirstTwoAlike
    Absent = Absent
    Garbled = Garbled
    MaxEdits = 2
    MaxCalls = 2
    MaxFaults = 2
SPECIFICATION SpecFromCopies
INVARIANTS
    TypeOK
    HistoryInStep
    SavedReopens
PROPERTIES
    CheckpointsKept
CHECK_DEADLOCK FALSE
