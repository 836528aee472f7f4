----------------------------- MODULE SoftDelete -----------------------------
(***************************************************************************)
(* DELETE and PATCH on a collection or an album (handler/softdelete.go):   *)
(* query the blobs, then write the whole tag set of each one back with     *)
(* isDeleted and the thumbnail marks changed.                              *)
(***************************************************************************)
EXTENDS ApiRequests

CollectionBlobs(op, deleted) == [collection |-> op.collection, isDeleted |-> deleted]
AlbumBlobs(op, deleted) ==
    [collection |-> op.collection, album |-> op.album, isDeleted |-> deleted]

\* the query and its two early returns
Locate(c, kind, query) ==
    /\ At(c, kind, "find")
    /\ \/ FindBlobs(c, query)
       \/ FindsNone(query) /\ Answer(c, "404")
       \/ FindFails /\ Answer(c, "500")

Fetch(c, kind) ==
    /\ At(c, kind, "tags")
    /\ \E jobs \in Fetches(req[c].rows) :
         /\ FetchTags(c, jobs)
         /\ Continue(c, [Fetched(c, jobs) EXCEPT !.pc = "each", !.todo = jobs])

-----------------------------------------------------------------------------

Deleted(tags) ==
    [tags EXCEPT !.isDeleted = TRUE, !.collectionImage = FALSE, !.albumImage = FALSE]

SoftDeleteCollectionBlob(c, j) ==
    /\ j.tags # EmptyTags
    /\ \E ok \in BOOLEAN :
         /\ SetBlobTags(j.path, Deleted(j.tags), ok)
         /\ NextOrAnswer(c, req[c].todo \ {j}, req[c].failed \/ ~ok, req[c])

SoftDeleteCollection(c) ==
    \/ Locate(c, "softDeleteCollection", CollectionBlobs(req[c].op, FALSE))
    \/ Fetch(c, "softDeleteCollection")
    \/ /\ At(c, "softDeleteCollection", "each")
       /\ \E j \in req[c].todo : PanicOn(c, j) \/ SoftDeleteCollectionBlob(c, j)

SoftDeleteAlbumBlob(c, j) ==
    /\ j.tags # EmptyTags
    /\ \E ok \in BOOLEAN :
         /\ SetBlobTags(j.path, Deleted(j.tags), ok)
         /\ Continue(c, [req[c] EXCEPT
               !.pc = IF req[c].todo = {j} THEN "remaining" ELSE "each",
               !.todo = @ \ {j}, !.failed = @ \/ ~ok])

\* whether the collection has a live blob left; an error counts as none left,
\* and a part of the blobs as well as all of them
Remaining(c) ==
    /\ At(c, "softDeleteAlbum", "remaining")
    /\ UNCHANGED <<images, nextRow>>
    /\ \/ /\ CallWorks
          /\ AnswerWith(c, IF req[c].failed THEN "206" ELSE "200",
                        MatchingRows(CollectionBlobs(req[c].op, FALSE)) = {})
       \/ /\ CallFails
          /\ \E rows \in {{}} \cup Shortened(MatchingRows(CollectionBlobs(req[c].op, FALSE))) :
               AnswerWith(c, IF req[c].failed THEN "206" ELSE "200", rows = {})

SoftDeleteAlbum(c) ==
    \/ Locate(c, "softDeleteAlbum", AlbumBlobs(req[c].op, FALSE))
    \/ Fetch(c, "softDeleteAlbum")
    \/ /\ At(c, "softDeleteAlbum", "each")
       /\ \E j \in req[c].todo : PanicOn(c, j) \/ SoftDeleteAlbumBlob(c, j)
    \/ Remaining(c)

-----------------------------------------------------------------------------
(* Restoring: seen holds the albums met so far, so the first blob is the   *)
(* one that finds it empty.                                                *)

RestoredInAlbum(tags, seen) ==
    [tags EXCEPT !.isDeleted = FALSE,
                 !.albumImage = IF seen = {} THEN TRUE ELSE @]

RestoredInCollection(tags, seen) ==
    [tags EXCEPT !.isDeleted = FALSE,
                 !.collectionImage = IF seen = {} THEN TRUE ELSE @,
                 !.albumImage = IF tags.album # None /\ tags.album \notin seen THEN TRUE ELSE @]

\* the mark counts as given whether or not the write succeeds
RestoreBlob(c, j, restored) ==
    /\ j.tags # EmptyTags
    /\ \E ok \in BOOLEAN :
         /\ SetBlobTags(j.path, restored, ok)
         /\ NextOrAnswer(c, req[c].todo \ {j}, req[c].failed \/ ~ok,
                         [req[c] EXCEPT !.seen = @ \cup {j.tags.album}])

RestoreAlbum(c) ==
    \/ Locate(c, "restoreAlbum", AlbumBlobs(req[c].op, TRUE))
    \/ Fetch(c, "restoreAlbum")
    \/ /\ At(c, "restoreAlbum", "each")
       /\ \E j \in req[c].todo :
            PanicOn(c, j) \/ RestoreBlob(c, j, RestoredInAlbum(j.tags, req[c].seen))

RestoreCollection(c) ==
    \/ Locate(c, "restoreCollection", CollectionBlobs(req[c].op, TRUE))
    \/ Fetch(c, "restoreCollection")
    \/ /\ At(c, "restoreCollection", "each")
       /\ \E j \in req[c].todo :
            PanicOn(c, j) \/ RestoreBlob(c, j, RestoredInCollection(j.tags, req[c].seen))
=============================================================================
