CONSTANTS
    TokenIsContent = TRUE
    Digested = {2}
    Replaceable = TRUE
    SizeOf <- OneSize
    MaxRel = 2
    MaxBuild = 4
    None = None
SPECIFICATION LiveSpec
INVARIANTS
    UnchangedIsCurrent
PROPERTIES
    EventuallySettled
