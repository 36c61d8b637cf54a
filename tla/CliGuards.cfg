SPECIFICATION Spec
CONSTANTS
    RomSize = 5
    SectorSize = 2
    Values = {0, 1}
    Blank = 0
    Source <- Stock
    Tables <- TwoTables
    LayoutSectors = {1, 2}
    Signature = {3}
    Slots = 1
    Blocks = 2
    Targets <- NearTargets
    Applies <- OneApply
    Others = {}
    MaxCommands = 1
    MayLosePower = FALSE
INVARIANTS
    GuardSpansCommand
CHECK_DEADLOCK FALSE
