CONSTANTS
    p1 = p1
    p2 = p2
    front = front
    side = side
    other = other
    w1 = w1
    w2 = w2
    Ann = Ann
    NoName = NoName
    None = None
    Looks = {front, side, other}
    Similar <- MCSimilar
    Names = {Ann}
    PhotoRefs = {p1, p2}
    Undecoded <- PlainNames
    Detected <- TwoPhotos
    ServiceWorkers = {w1}
    CronSlots = {}
    MaxCronRuns = 0
    Starts <- JustFilling
    MaxFaults = 0
    m1 = m1
    m2 = m2
    Mergers = {}
    Stored <- MCStored
SPECIFICATION Spec
PROPERTY SaveKeepsName
