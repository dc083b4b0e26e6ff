CONSTANTS
    Writers = {daemon}
    Inputs = {inA, inB}
    None = None
    MaxDay = 2
    MaxBuilds = 4
SPECIFICATION Spec
INVARIANTS
    DiskConsistent
    ServedCoherent
    VersionsNeverReused
PROPERTY UpgradesOnly
