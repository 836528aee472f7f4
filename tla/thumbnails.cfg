CONSTANTS
    A = A
    B = B
    C = C
    x = x
    y = y
    z = z
    f = f
    g = g
    P1 = P1
    P2 = P2
    o90 = o90
    c1 = c1
    c2 = c2
    None = None
    NoBlob = NoBlob
    Collections = {A}
    Albums = {x}
    Files = {f, g}
    Photos = {P1, P2}
    Orientations = {o90}
    Libraries <- OneAlbum
    Clients = {c1, c2}
    Admins = {c1}
    Requests <- ThumbnailWorkload
    FirstFreeRow = 2
    MaxFaults = 0
SPECIFICATION Spec
INVARIANTS
    OneThumbnail
    OneAlbumThumbnail
