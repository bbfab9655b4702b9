SPECIFICATION Spec
CONSTANTS
    Sources <- SomeSources
    Digits <- SomeDigits
    Entries <- SmallEntries
    Units <- SmallUnits
    Counts = {0, 1, 3}
    Forms <- SomeForms
    Base = 2
    MaxSize = 4
    kSIZE = 2
    DigitBits = 3
    IntBits = 8
    LongBits = 16
    MaxBytes = 6
    StringLimit = 3
    Slots = {s1, s2, s3}
    Idle = Idle
INVARIANT ValueRead
CHECK_DEADLOCK FALSE
