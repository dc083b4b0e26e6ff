CONSTANTS
    Wants <- Prefixed
    MaxChanges = 1
    MaxFails = 0
    None = None
SPECIFICATION Spec
INVARIANTS
    ClosedUnderPrefix
CHECK_DEADLOCK FALSE
