SPECIFICATION LiveSpec
CONSTANTS
    Bodies <- SmallBodies
    Partial = TRUE
INVARIANTS TypeOK
PROPERTIES KeepsTheStream Completes
CHECK_DEADLOCK FALSE
