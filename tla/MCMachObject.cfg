CONSTANTS
    Programs <- SomePrograms
    MaxLoads = 1
    NULL = NULL
SPECIFICATION Spec
INVARIANTS TypeOK TablesFaithful LoadsAreWhole FaultsExplained
PROPERTIES NothingForgotten
\* A fault is a crash: nothing follows it.
CHECK_DEADLOCK FALSE
