CONSTANTS
    r1 = r1
    r2 = r2
    p1 = p1
    p2 = p2
    e1 = e1
    e2 = e2
    e3 = e3
    None = None
    Runs = {r1}
    Recipes = {p1}
    KeyOf <- OwnKeys
    Src <- One
    LoseReplies = FALSE
    MaxRev = 2
SPECIFICATION Spec
INVARIANTS
    OkMeansPublished
