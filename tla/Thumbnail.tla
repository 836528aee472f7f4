----------------------------- MODULE Thumbnail -----------------------------
(***************************************************************************)
(* PUT /api/thumbnail (handler/thumbnail.go) and PUT /api/update           *)
(* (handler/update.go): choosing the photo that stands for a collection or *)
(* an album, by moving its collectionImage or albumImage tag.              *)
(***************************************************************************)
EXTENDS ApiRequests

\* faulty variants: each query looks for the other mark
CollectionImageQuerySwapped(collection) == [collection |-> collection, albumImage |-> TRUE]
AlbumImageQuerySwapped(op) ==
    [collection |-> op.collection, album |-> op.album, collectionImage |-> TRUE]

\* GetCollectionImage and the album query; neither looks at isDeleted
CollectionImageQuery(collection) == [collection |-> collection, collectionImage |-> TRUE]
AlbumImageQuery(op) ==
    [collection |-> op.collection, album |-> op.album, albumImage |-> TRUE]

MarkCollection(tags, value) == [tags EXCEPT !.collectionImage = value]
MarkAlbum(tags, value)      == [tags EXCEPT !.albumImage = value]

Marked(kind, tags, value) ==
    IF kind = "thumbnailCollection" THEN MarkCollection(tags, value) ELSE MarkAlbum(tags, value)

Rotated(tags, op) ==
    [tags EXCEPT !.orientation = IF op.orientation = None THEN @ ELSE op.orientation]

\* a request without imageName only rotates the current thumbnail
Chooses(op) == op.image # None

\* the query: without a result a choice goes on, a rotation is a 404
ThumbnailFind(c, kind, query) ==
    /\ At(c, kind, "find")
    /\ \/ FindBlobs(c, query)
       \/ /\ FindsNone(query) \/ FindFails
          /\ IF Chooses(req[c].op) THEN Continue(c, [req[c] EXCEPT !.pc = "get"])
                                   ELSE Answer(c, "404")

ThumbnailFetch(c, kind) ==
    /\ At(c, kind, "tags")
    /\ \E jobs \in Fetches(req[c].rows) :
         /\ FetchTags(c, jobs)
         /\ LET others == {j \in jobs : j.path # req[c].op.image}
                fetched == Fetched(c, jobs)
            IN  Continue(c,
                  IF ~Chooses(req[c].op) THEN [fetched EXCEPT !.pc = "rotate", !.todo = jobs]
                  ELSE IF others = {}    THEN [fetched EXCEPT !.pc = "get"]
                  ELSE                        [fetched EXCEPT !.pc = "unmark", !.todo = others])

\* clearing an old thumbnail; an error is only logged
ThumbnailClear(c, kind) ==
    /\ At(c, kind, "unmark")
    /\ \E j \in req[c].todo :
         \/ PanicOn(c, j)
         \/ /\ j.tags # EmptyTags
            /\ \E ok \in BOOLEAN : SetBlobTags(j.path, Marked(kind, j.tags, FALSE), ok)
            /\ Continue(c, [req[c] EXCEPT !.pc = IF req[c].todo = {j} THEN "get" ELSE "unmark",
                                          !.todo = @ \ {j}])

ThumbnailGet(c, kind) ==
    /\ At(c, kind, "get")
    /\ LET p == req[c].op.image
       IN  \/ \E n \in 1..7 :
                /\ ReadTags(p, n)
                /\ Continue(c, [req[c] EXCEPT !.pc = "set", !.tags = FirstTags(images[p].tags, n)])
           \/ ReadBlob(p, FALSE) /\ Answer(c, "404")

ThumbnailSet(c, kind) ==
    /\ At(c, kind, "set")
    /\ \E ok \in BOOLEAN :
         /\ SetBlobTags(req[c].op.image, Rotated(Marked(kind, req[c].tags, TRUE), req[c].op), ok)
         /\ Answer(c, IF ok THEN "200" ELSE "500")

\* rotating the first blob the query returned
ThumbnailRotate(c, kind) ==
    /\ At(c, kind, "rotate")
    /\ \E j \in req[c].todo :
         \/ PanicOn(c, j)
         \/ /\ j.tags # EmptyTags
            /\ \E ok \in BOOLEAN :
                 /\ SetBlobTags(j.path, Rotated(j.tags, req[c].op), ok)
                 /\ Answer(c, IF ok THEN "200" ELSE "500")

ThumbnailCollection(c) ==
    \/ ThumbnailFind(c, "thumbnailCollection", CollectionImageQuery(req[c].op.collection))
    \/ ThumbnailFetch(c, "thumbnailCollection")
    \/ ThumbnailClear(c, "thumbnailCollection")
    \/ ThumbnailGet(c, "thumbnailCollection")
    \/ ThumbnailSet(c, "thumbnailCollection")
    \/ ThumbnailRotate(c, "thumbnailCollection")

ThumbnailAlbum(c) ==
    \/ ThumbnailFind(c, "thumbnailAlbum", AlbumImageQuery(req[c].op))
    \/ ThumbnailFetch(c, "thumbnailAlbum")
    \/ ThumbnailClear(c, "thumbnailAlbum")
    \/ ThumbnailGet(c, "thumbnailAlbum")
    \/ ThumbnailSet(c, "thumbnailAlbum")
    \/ ThumbnailRotate(c, "thumbnailAlbum")

-----------------------------------------------------------------------------
(* UpdateHandler: the body replaces the whole tag set, except the name.    *)

BodyTags(op) == [op.tags EXCEPT !.name = op.image]

UpdateGet(c) ==
    /\ At(c, "update", "get")
    /\ LET p == req[c].op.image
       IN  \/ \E n \in 1..7 :
                LET tags == FirstTags(images[p].tags, n)
                IN  /\ ReadTags(p, n)
                    /\ IF tags = BodyTags(req[c].op) THEN Answer(c, "304")
                       ELSE Continue(c, [req[c] EXCEPT !.pc = "find", !.tags = tags])
           \/ ReadBlob(p, FALSE) /\ Answer(c, "500")

\* a failed or empty query for the current collection image is not fatal
UpdateFind(c) ==
    /\ At(c, "update", "find")
    /\ LET collection == req[c].tags.collection
           query == CollectionImageQuery(collection)
       IN  \/ collection # None /\ FindBlobs(c, query)
           \/ /\ \/ collection = None /\ UNCHANGED storeVars
                 \/ FindsNone(query)
                 \/ FindFails
              /\ Continue(c, [req[c] EXCEPT !.pc = "set", !.tags = None])

\* only the first current collection image is cleared, and only if the body
\* takes the mark over
UpdateFetch(c) ==
    /\ At(c, "update", "tags")
    /\ \E jobs \in Fetches(req[c].rows) :
         /\ FetchTags(c, jobs)
         /\ \E j \in jobs :
              LET replaced == BodyTags(req[c].op).collectionImage = TRUE
                              /\ j.tags.name # req[c].op.image
              IN  Continue(c, [Fetched(c, jobs) EXCEPT !.tags = None,
                                  !.pc = IF replaced THEN "clear" ELSE "set",
                                  !.job = IF replaced THEN j ELSE None])

UpdateClear(c) ==
    /\ At(c, "update", "clear")
    /\ LET j == req[c].job
       IN  \/ PanicOn(c, j)
           \/ /\ j.tags # EmptyTags
              /\ \E ok \in BOOLEAN :
                   /\ SetBlobTags(j.path, MarkCollection(j.tags, FALSE), ok)
                   /\ IF ok THEN Continue(c, [req[c] EXCEPT !.pc = "set", !.job = None])
                            ELSE Answer(c, "500")

UpdateSet(c) ==
    /\ At(c, "update", "set")
    /\ \E ok \in BOOLEAN :
         /\ SetBlobTags(req[c].op.image, BodyTags(req[c].op), ok)
         /\ Answer(c, IF ok THEN "200" ELSE "500")

Update(c) ==
    \/ UpdateGet(c)
    \/ UpdateFind(c)
    \/ UpdateFetch(c)
    \/ UpdateClear(c)
    \/ UpdateSet(c)
=============================================================================
