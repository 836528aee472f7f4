CONSTANTS
    p1 = p1
    spaced = spaced
    front = front
    side = side
    other = other
    w1 = w1
    s1 = s1
    Ann = Ann
    NoName = NoName
    None = None
    Looks = {front, side, other}
    Similar <- MCSimilar
    Names = {Ann}
    PhotoRefs = {p1, spaced}
    Undecoded <- MCUndecoded
    Detected <- PlainAndSpaced
    ServiceWorkers = {w1}
    CronSlots = {s1}
    MaxCronRuns = 1
    Starts <- Administered
    MaxFaults = 1
SPECIFICATION FairSpec
INVARIANTS TypeOK CountsMatch FacesBelong
PROPERTIES PromisesKept EveryFaceRecorded
