CONSTANTS
    Addr = {a1}
    Val = {v1, v2, v3}
    Torn = Torn
    Additional = {alt}
    CheckpointId = {c1}
    Printed <- FirstTwoAlike
    Absent = Absent
    Garbled = Garbled
    MaxEdits = 1
    MaxCalls = 1
    MaxFaults = 0
SPECIFICATION Spec
PROPERTY EditsUndo
CHECK_DEADLOCK FALSE
