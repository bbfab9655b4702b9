CONSTANTS
  Entities <- MCEntities
  Others <- MCOthers
  OldStyle <- MCOldStyle
SPECIFICATION Spec
CHECK_DEADLOCK FALSE
INVARIANTS
  TypeOK
  RoundTrip
  BoundsKept
  TemplatesNeverShift
