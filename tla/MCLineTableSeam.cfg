SPECIFICATION Spec
CONSTANTS
    Prologue <- SmallPrologue
    Encoders <- SeamEncoders
    LastOpcode = 18
    Lines = 8
    Files = 4
    Top = 5
    MaxRows = 4
    BAD_ROW = BAD_ROW
INVARIANTS
    LineOfByte
