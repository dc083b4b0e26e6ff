CONSTANTS
    bin1 = bin1
    bin2 = bin2
    bin3 = bin3
    old = old
    new = new
    typo = typo
    k1 = k1
    k2 = k2
    Nil = Nil
    VERSION = VERSION
    Digits <- ToDigits
    Foreign = {"_"}
    GnuArches = {"amd64", "arm64"}
    PageSize = 2
    Unrendered = {typo}
    Highest <- Limits
    Configs <- MCConfigs
    Offers <- Answers
    Edits <- Files
    MaxRuns = 2
    MaxChanges = 2
SPECIFICATION Spec
INVARIANTS
    TypeOK
    EveryDocAnswered
    OneRelease
    ValidatedEnough
    BuildAccepts
    Stable
    NewVersionNewHash
CHECK_DEADLOCK FALSE
