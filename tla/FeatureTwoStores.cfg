CONSTANTS
    Half = 4
    DispLimit = 16
    Low = 4
    Graphs <- TwoStores
    Packs <- OnePack
    RomSize = 268
    AddressLimit = 276
    SectorSize = 64
    RamWords = 16
    LengthLimit = 24
    ShortReach = 60
SPECIFICATION Spec
INVARIANT EveryStoreRuns
CHECK_DEADLOCK FALSE
