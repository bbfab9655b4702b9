SPECIFICATION Spec
CONSTANTS
    Contents <- AllUnits
    Ranged <- FrameUnits
    DebugFiles <- SomeDebugFiles
    SymbolFiles <- SomeSymbolFiles
    Packs <- SomePacks
    UnitAddresses = {1, 2, 3}
    TableAddresses = {1, 2}
    SymbolAddresses = {0, 1, 2, 3}
    UUIDs = {"A", "B"}
    CanVanish = TRUE
    DepthMod = 32
    AddressMod = 64
    FileMod = 8
    NULL = NULL
    INVALID = INVALID
    BAD_ROW = BAD_ROW
    NoName = NoName
    NoIndex = NoIndex
    Idle = Idle
INVARIANTS
    TypeOK
    EntriesAreTheTree
    FramesAreTheUnits
    TablesAnswer
    NearestSymbolNamed
PROPERTY QuestionsEnd
\* A fault is a crash: nothing follows it.
CHECK_DEADLOCK FALSE
