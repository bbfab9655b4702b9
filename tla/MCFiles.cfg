SPECIFICATION Spec
CONSTANTS
    Contents <- MCContents
    Worlds <- MCWorlds
    Reports <- MCReports
    MaxLoads = 2
    MaxPath = 4
    MaxSymbols = 5
    MaxStrings = 3
    UUIDs = {u1, u2}
    NONE = NONE
    Idle = Idle
INVARIANTS
    ObjectsAreTheFiles
    ImagesAreTheTrees
    LogIsTheReports
    ReducedIsReadBack
PROPERTY CallsReturn
\* A search, a log and an object that are done stay so.
CHECK_DEADLOCK FALSE
