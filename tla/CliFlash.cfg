SPECIFICATION FairSpec
CONSTANTS
    RomSize = 5
    SectorSize = 2
    Values = {0, 1}
    Blank = 0
    Source <- Stock
    Tables <- TwoTables
    LayoutSectors = {1, 2}
    Signature = {3}
    Slots = 1
    Blocks = 2
    Targets <- NearTargets
    Applies <- ManyApplies
    Others <- ManyOthers
    MaxCommands = 2
    MayLosePower = TRUE
INVARIANTS
    TypeOK
    GateSeesEveryChange
    NothingLeftOn
    SuccessHolds
PROPERTIES
    OnlyOwnSectors
CHECK_DEADLOCK FALSE
