---------------------------- MODULE OneConnection ----------------------------
(***************************************************************************)
(* Why the answers of the API are true when requests come one after        *)
(* another, on one connection: the invariants.  A handler answers for all  *)
(* that its first query could have found, and that is what they follow     *)
(* through its loop, as long as no result of the query broke off.          *)
(***************************************************************************)
EXTENDS PhotoApi

OneClient == \A c, d \in Clients : c = d

DeleteKinds  == {"softDeleteCollection", "softDeleteAlbum"}
RestoreKinds == {"restoreCollection", "restoreAlbum"}
QueryKinds   == DeleteKinds \cup RestoreKinds \cup RenameKinds \cup ThumbnailKinds

\* the query a handler starts with
Sought(op) ==
    CASE op.kind = "softDeleteCollection" -> CollectionBlobs(op, FALSE)
      [] op.kind = "softDeleteAlbum"      -> AlbumBlobs(op, FALSE)
      [] op.kind = "restoreCollection"    -> CollectionBlobs(op, TRUE)
      [] op.kind = "restoreAlbum"         -> AlbumBlobs(op, TRUE)
      [] op.kind = "thumbnailCollection"  -> CollectionImageQuery(op.collection)
      [] op.kind = "thumbnailAlbum"       -> AlbumImageQuery(op)
      [] OTHER                            -> RenameQuery(op)

\* what it would find now, and what its loop has before it
Found(op) == BlobsWith(Sought(op))
Left(s) == {j.path : j \in s.todo}

\* a live thumbnail of what was restored
LiveMark(op) ==
    IF op.kind = "restoreCollection"
    THEN [collection |-> op.collection, isDeleted |-> FALSE, collectionImage |-> TRUE]
    ELSE [collection |-> op.collection, album |-> op.album, isDeleted |-> FALSE, albumImage |-> TRUE]

-----------------------------------------------------------------------------

\* Between the two statements of a query nothing changes.
RowsCurrent(s) ==
    s.pc = "tags" /\ "rows" \notin s.cut => s.rows = MatchingRows(Sought(s.op))

\* A soft-delete or restore without an error has the rest in its loop.
MarkingAll(s) ==
    s.op.kind \in DeleteKinds \cup RestoreKinds /\ ~s.failed /\ "rows" \notin s.cut =>
        /\ s.pc = "each" => Found(s.op) \subseteq Left(s)
        /\ s.pc = "remaining" => Found(s.op) = {}

\* Once a restore has given a mark, the photo that got it is there.
MarkGiven(s) ==
    s.op.kind \in RestoreKinds =>
        /\ s.pc \in {"find", "tags"} => s.seen = {}
        /\ s.pc = "each" /\ s.cut = {} =>
             /\ \A j \in s.todo : j.tags = EmptyTags \/ Satisfies(j.tags, Sought(s.op))
             /\ \A j, k \in s.todo : j.path = k.path => j = k
             /\ ~s.failed /\ s.seen # {} => BlobsWith(LiveMark(s.op)) \ Left(s) # {}

\* While nothing fails, the old thumbnails are in the loop that clears them.
ClearingAll(s) ==
    s.op.kind \in ThumbnailKinds /\ Chooses(s.op) /\ faults = MaxFaults =>
        /\ s.cut = {}
        /\ s.pc # "rotate"
        /\ s.pc = "unmark" => Found(s.op) \subseteq Left(s) \cup {s.op.image}
        /\ s.pc \in {"get", "set"} => Found(s.op) \subseteq {s.op.image}

\* the blobs a rename has at hand
Moving(s) ==
    IF s.pc \in {"copyTags", "save", "delete"} THEN {s.job.path}
    ELSE IF s.pc = "retag" THEN {s.job.path, NewPath(s.op, s.job.path)} ELSE {}

\* A rename without an error has the rest in its loop or at hand, but for
\* blobs that a delete has silently failed to remove.
RenamingAll(s) ==
    s.op \in Renames /\ s.pc \notin {"find", "tags"} /\ ~s.failed /\ "rows" \notin s.cut =>
        \E lost \in SUBSET Paths :
            /\ IsFiniteSet(lost) /\ Cardinality(lost) <= MaxFaults - faults
            /\ Found(s.op) \subseteq Left(s) \cup Moving(s) \cup lost

OnCourse(s) ==
    s.op # None /\ s.op.kind \in QueryKinds =>
        RowsCurrent(s) /\ MarkingAll(s) /\ MarkGiven(s) /\ ClearingAll(s) /\ RenamingAll(s)

Complete == \A c \in Clients : OnCourse(req[c])

-----------------------------------------------------------------------------
(* Why blobs and their tags agree on where a photo is, as long as nothing  *)
(* fails.                                                                  *)

\* the tags that belong at a path
NamesPath(tags, p) == tags.name = p /\ tags.collection = p[1] /\ tags.album = p[2]

\* every library has each photo once, with its names; and an edit of the tags
\* of a photo leaves it in its collection and album
LibrariesInOrder ==
    \A lib \in Libraries :
        /\ \A p \in Paths : lib[p] # NoBlob => NamesPath(lib[p].tags, p)
        /\ \A p, q \in Paths :
             lib[p] # NoBlob /\ lib[q] # NoBlob /\ lib[p].photo = lib[q].photo => p = q

EditsInPlace ==
    \A r \in Requests :
        r.kind = "update" => r.tags.collection = r.image[1] /\ r.tags.album = r.image[2]

\* the copy a rename has at hand
Copy(s) == NewPath(s.op, s.job.path)

BlobsNamed ==
    \A p \in Paths : Has(p) =>
        \/ NamesPath(images[p].tags, p)
        \/ \E c \in Clients : req[c].pc = "retag" /\ p = Copy(req[c])

PhotosApart ==
    \A p, q \in Paths : Has(p) /\ Has(q) /\ images[p].photo = images[q].photo =>
        \/ p = q
        \/ \E c \in Clients : /\ req[c].pc \in {"retag", "delete"}
                              /\ {p, q} = {req[c].job.path, Copy(req[c])}

\* What a handler has read names the paths it came from.
NamesAtHand(s) ==
    /\ \A j \in s.todo \cup ({s.job} \ {None}) : NamesPath(j.tags, j.path)
    /\ s.op # None /\ s.op.kind \in ThumbnailKinds /\ s.pc = "set" => NamesPath(s.tags, s.op.image)

\* and the rows and the photo it has read are still there
StillThere(s) ==
    /\ s.pc = "tags" => \A r \in s.rows : Has(r[1]) /\ images[r[1]].row = r[2]
    /\ s.pc \in {"copyTags", "save"} => Has(s.job.path) /\ images[s.job.path].photo = s.photo

Orderly ==
    faults = MaxFaults =>
        /\ BlobsNamed /\ PhotosApart
        /\ \A c \in Clients : NamesAtHand(req[c]) /\ StillThere(req[c])
==============================================================================
