CONSTANTS
    s1 = s1
    s2 = s2
    Sources = {s1, s2}
    Archs <- OneArch
    PackageOf <- OwnPackages
    ArchsOf <- AllAndNative
    Broken = {}
    Tokenless = {}
    Restless = {}
    Configs <- Steady
    Initial <- Steady
    Retention = 0
    Interval = 1
    Timed = TRUE
    MaxTime = 3
    MaxBytes = 2
    MaxToken = 1
    MaxCrashes = 1
    MaxReloads = 1
    None = None
SPECIFICATION Spec
INVARIANT NoStalePackages
CHECK_DEADLOCK FALSE
