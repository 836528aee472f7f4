----------------------------- MODULE MCPhotoApi -----------------------------
(***************************************************************************)
(* Instances of PhotoApi for TLC: the libraries the container starts with  *)
(* and the workloads of the runs.                                          *)
(***************************************************************************)
EXTENDS OneAdministrator

CONSTANTS A, B, C,     \* collections
          x, y, z,     \* albums
          f, g,        \* file names
          P1, P2,      \* photos
          o90,         \* an orientation
          c1, c2       \* clients

\* every photo is somewhere at the start, each blob has a row of its own
ASSUME MCLibraryAssumption ==
    \A lib \in Libraries :
        /\ \A ph \in Photos : \E p \in Paths : lib[p] # NoBlob /\ lib[p].photo = ph
        /\ \A p, q \in Paths :
             lib[p] # NoBlob /\ lib[q] # NoBlob /\ p # q =>
                 lib[p].row < FirstFreeRow /\ lib[p].row # lib[q].row

\* a blob as upload and resize leave it
Uploaded(p, photo, row, collectionImage, albumImage) ==
    [photo |-> photo, row |-> row,
     tags |-> [collection |-> p[1], album |-> p[2], name |-> p, isDeleted |-> FALSE,
               collectionImage |-> collectionImage, albumImage |-> albumImage,
               orientation |-> None]]

\* P1 at p, marked as the thumbnail of its collection and album; P2 at q,
\* marked as given
Library(p, q, qCollectionImage, qAlbumImage) ==
    [r \in Paths |-> CASE r = p -> Uploaded(p, P1, 0, TRUE, TRUE)
                       [] r = q -> Uploaded(q, P2, 1, qCollectionImage, qAlbumImage)
                       [] OTHER -> NoBlob]

OneAlbum     == {Library(<<A, x, f>>, <<A, x, g>>, FALSE, FALSE)}
TwoAlbums    == {Library(<<A, x, f>>, <<A, y, g>>, FALSE, TRUE)}
TwoColls     == {Library(<<A, x, f>>, <<C, x, f>>, TRUE, TRUE)}
AlbumsAndMarks == OneAlbum \cup {Library(<<A, x, f>>, <<A, y, g>>, a, b) : a, b \in BOOLEAN}

Blank == [id |-> 0, kind |-> "browseCollections", collection |-> None, album |-> None,
          newName |-> None, image |-> None, orientation |-> None, tags |-> None]

OnCollection(kind, a)   == [Blank EXCEPT !.kind = kind, !.collection = a]
OnAlbum(kind, a, b)     == [Blank EXCEPT !.kind = kind, !.collection = a, !.album = b]
RenameColl(a, new)      == [OnCollection("renameCollection", a) EXCEPT !.newName = new]
RenameAlb(a, b, new)    == [OnAlbum("renameAlbum", a, b) EXCEPT !.newName = new]
Choose(a, image)        == [OnCollection("thumbnailCollection", a) EXCEPT !.image = image]
ChooseInAlbum(a, b, im) == [OnAlbum("thumbnailAlbum", a, b) EXCEPT !.image = im]
Rotate(a, o)            == [OnCollection("thumbnailCollection", a) EXCEPT !.orientation = o]
UpdateTags(image, tags) == [Blank EXCEPT !.kind = "update", !.image = image, !.tags = tags]
Again(r)                == [r EXCEPT !.id = 1]

Browsing == {Blank, OnAlbum("browseAlbums", A, None)}

\* an edit of the photo's tags that also takes over the collection thumbnail
Body(p) == Uploaded(p, P1, 0, TRUE, FALSE).tags

\* a rename of one collection and of an album of another, with page loads
\* and a soft-delete beside
RenameWorkload ==
    {Blank, RenameColl(A, B), RenameAlb(C, x, z), OnCollection("softDeleteCollection", A)}

ThumbnailWorkload ==
    Browsing \cup
    {Choose(A, <<A, x, f>>), Choose(A, <<A, x, g>>), ChooseInAlbum(A, x, <<A, x, g>>),
     UpdateTags(<<A, x, g>>, Body(<<A, x, g>>)),
     [ChooseInAlbum(A, x, None) EXCEPT !.orientation = o90], Rotate(A, o90),
     OnAlbum("softDeleteAlbum", A, x)}

\* two administrators choose a thumbnail each, of the collection and of the
\* album, and may fail to clear the old one or write a cleared mark back
ConvergeWorkload ==
    Browsing \cup {Choose(A, <<A, y, g>>), ChooseInAlbum(A, x, <<A, x, g>>)}

ConvergeLibraries ==
    {Library(<<A, x, f>>, <<A, x, g>>, FALSE, FALSE), Library(<<A, x, f>>, <<A, y, g>>, FALSE, TRUE)}

\* a second attempt at a rename, after the first was answered or cut off
RetryWorkload == {RenameColl(A, B), Again(RenameColl(A, B))}

StaleWorkload == {Blank, OnAlbum("softDeleteAlbum", A, x), OnCollection("restoreCollection", A)}

AnswerWorkload ==
    {RenameColl(A, B), RenameAlb(A, x, z), Choose(A, <<A, x, f>>),
     ChooseInAlbum(A, x, <<A, x, f>>), OnAlbum("softDeleteAlbum", A, y),
     OnAlbum("restoreAlbum", A, y), OnCollection("softDeleteCollection", A),
     OnCollection("restoreCollection", A)}

\* what the theorems of PhotoApiProofs ask of a library and a workload
ASSUME MCHypotheses ==
    /\ Requests = AnswerWorkload => OneClient /\ LibrariesInOrder /\ EditsInPlace
    /\ Requests = ThumbnailWorkload =>
         /\ OneAdmin /\ ThumbnailRequests /\ MaxFaults = 0
         /\ LibrariesInOrder /\ LibrariesMarked /\ EditsInPlace
=============================================================================
