CONSTANTS
    r1 = r1
    r2 = r2
    p1 = p1
    p2 = p2
    e1 = e1
    e2 = e2
    e3 = e3
    None = None
    Runs = {r1}
    Recipes = {p1, p2}
    KeyOf <- OwnKeys
    Src <- Two
    LoseReplies = TRUE
    MaxRev = 2
SPECIFICATION Spec
INVARIANTS
    TypeOK
    OkMeansInRepo
    OkMeansAddedPublished
PROPERTIES
    ImplementsArchive
