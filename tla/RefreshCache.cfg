CONSTANTS
    s1 = s1
    s2 = s2
    Sources = {s1, s2}
    Archs <- OneArch
    PackageOf <- OwnPackages
    ArchsOf <- ForeignPossible
    Broken = {}
    Tokenless = {s2}
    Restless = {s1}
    Configs <- RekeyedOrRelabelled
    Initial <- Steady
    Retention = 2
    Interval = 1
    Timed = TRUE
    MaxTime = 3
    MaxBytes = 2
    MaxToken = 2
    MaxCrashes = 1
    MaxReloads = 1
    None = None
SPECIFICATION Spec
INVARIANTS
    TypeOK
    NoStalePackages
    NoStaleListing
    ServedIsDurable
    ByHashWindow
    PoolWindow
PROPERTIES
    HitWhenVendorsRest
CHECK_DEADLOCK FALSE
