CONSTANTS
    bin1 = bin1
    bin2 = bin2
    zip1 = zip1
    zip2 = zip2
    x1 = x1
    x2 = x2
    x3 = x3
    Nil = Nil
    Torn = Torn
    Plans <- MCPlans
    Refeed = TRUE
    Options <- MCOptions
    Offers <- ServedFiles
    EntriesOf <- ArchiveEntries
    Default <- Three
    Ceiling <- Four
    MaxRuns = 2
SPECIFICATION Spec
INVARIANTS
    TypeOK
    Faithful
    Reproducible
    NameIsVersion
    ReportedIsThere
    ExtractBounded
PROPERTIES
    ImplementsContract
CHECK_DEADLOCK FALSE
