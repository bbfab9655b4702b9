SPECIFICATION Spec
CONSTANTS
    Top = 5
    NULL = NULL
    MaxSets = 2
    MaxRanges = 3
    MaxLength = 3
    Sections <- SmallSections
INVARIANTS
    TypeOK
    FoundIsRight
    InnerAddressFound
    LostOnlyBehindAnEnd
