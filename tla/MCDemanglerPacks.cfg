CONSTANTS
  Entities <- Packs
  Others = {}
  OldStyle <- MCOldStyle
SPECIFICATION Spec
CHECK_DEADLOCK FALSE
INVARIANT
  TemplatesNeverShift
