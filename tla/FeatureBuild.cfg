CONSTANTS
    Half = 4
    DispLimit = 16
    Low = 4
    Graphs <- Every
    Packs <- EveryPack
    RomSize = 268
    AddressLimit = 276
    SectorSize = 64
    RamWords = 16
    LengthLimit = 24
    ShortReach = 60
SPECIFICATION Spec
INVARIANTS
    TypeOK
    PinsHoldTheGraph
    PatchAccounted
    ClaimsApart
PROPERTIES
    OnlyOwnRam
CHECK_DEADLOCK FALSE
