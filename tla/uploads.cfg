CONSTANTS
    oldP = oldP
    oldQ = oldQ
    newP = newP
    old = old
    new = new
    u1 = u1
    u2 = u2
    u3 = u3
    u4 = u4
    u5 = u5
    w1 = w1
    Admin = Admin
    Nothing = Nothing
    Partial = Partial
    Mixed = Mixed
    Unknown = Unknown
    Paths = {oldP, oldQ, newP}
    Dirs = {old, new}
    DirOf <- MCDirOf
    Uploads = {u1, u2, u3, u4, u5}
    PathOf <- MCPathOf
    Quality <- MCQuality
    NewPath <- MCNewPath
    Workers = {w1}
    Callers <- MCCallers
    Starts <- MCStarts
    MaxFaults = 1
SPECIFICATION FairSpec
INVARIANTS TypeOK LibraryAsAsked
PROPERTIES ComesToRest PromisesKept
