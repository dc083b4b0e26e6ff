CONSTANTS
    Wants <- Mixed
    MaxChanges = 2
    MaxFails = 2
    None = None
SPECIFICATION LiveSpec
INVARIANTS
    ClosedAtRoot
    Exact
PROPERTIES
    EventuallyCurrent
CHECK_DEADLOCK FALSE
