CONSTANTS
    s1 = s1
    s2 = s2
    Sources = {s1, s2}
    Archs <- OneArch
    PackageOf <- OwnPackages
    ArchsOf <- BothAmd64
    Broken = {s2}
    Tokenless = {}
    Restless = {s1}
    Configs <- RekeyedOrReduced
    Initial <- Steady
    Retention = 0
    Interval = 1
    Timed = FALSE
    MaxTime = 3
    MaxBytes = 2
    MaxToken = 1
    MaxCrashes = 1
    MaxReloads = 2
    None = None
SPECIFICATION LiveSpec
PROPERTY HealthySourcesServed
CHECK_DEADLOCK FALSE
