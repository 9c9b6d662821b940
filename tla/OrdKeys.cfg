SPECIFICATION Spec
CONSTANTS
    Nil = Nil
    Unit = 64
    MaxRows = 4
    MaxOps = 6
INVARIANTS TypeOK OrderAsRequested RoomLeft
CHECK_DEADLOCK FALSE
