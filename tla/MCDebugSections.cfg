SPECIFICATION Spec
CONSTANTS
    RangeSections <- SomeRanges
    LineSections <- SomeLines
    Sets <- SomeSets
    Tails <- NextUnits
    Cuts <- SomeCuts
    Tables <- SomeTables
    Offsets = {0, 1, 2, 3, 4}
    Bases = {0, 1}
    LineAddresses = {0, 1, 2, 3, 4, 5}
    Header = 1
    Top = 4
    Codes = 16
    Kinds = 16
    MaxSets = 3
    MaxSz = 4
    MaxFiles = 4
    NULL = NULL
    Idle = Idle
INVARIANTS
    TypeOK
    KeptTablesAnswer
    ProducersAreRead
PROPERTY ParsesEnd
\* A parser that is done has nothing left to do.
CHECK_DEADLOCK FALSE
