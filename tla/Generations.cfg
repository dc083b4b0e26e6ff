CONSTANT MaxEdits = 2
SPECIFICATION LiveSpec
INVARIANTS
    OneRefresher
    KeyPresent
PROPERTIES
    SnapshotsForward
    Applied
    Terminates
CHECK_DEADLOCK FALSE
