CONSTANTS
    p1 = p1
    spaced = spaced
    front = front
    side = side
    other = other
    w1 = w1
    s1 = s1
    Ann = Ann
    NoName = NoName
    None = None
    Looks = {front, side, other}
    Similar <- MCSimilar
    Names = {Ann}
    PhotoRefs = {p1}
    Undecoded <- MCUndecoded
    Detected <- OnePhoto
    ServiceWorkers = {w1}
    CronSlots = {s1}
    MaxCronRuns = 1
    Starts <- LeftAlone
    MaxFaults = 0
SPECIFICATION Spec
INVARIANT RecordedOnce
