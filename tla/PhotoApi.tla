------------------------------ MODULE PhotoApi ------------------------------
(***************************************************************************)
(* The photo API: any number of connections, each running one handler at a *)
(* time against the shared images container, in any interleaving of their  *)
(* store calls.                                                            *)
(***************************************************************************)
EXTENDS SoftDelete, Rename, Thumbnail, Browse

Init == StoreInit /\ RequestInit

Step(c) ==
    \/ SoftDeleteCollection(c)
    \/ SoftDeleteAlbum(c)
    \/ RestoreCollection(c)
    \/ RestoreAlbum(c)
    \/ RenameCollection(c)
    \/ RenameAlbum(c)
    \/ ThumbnailCollection(c)
    \/ ThumbnailAlbum(c)
    \/ Update(c)
    \/ BrowseCollections(c)
    \/ BrowseAlbums(c)

Quiet == \A c \in Clients : req[c].pc = "idle"

\* everything asked for has been answered; nobody loads a page any more
Finished == pending = {} /\ Quiet /\ UNCHANGED vars

Next ==
    \/ \E c \in Clients, r \in Requests : Submit(c, r)
    \/ \E c \in Clients : Step(c)
    \/ \E c \in Clients : CutOff(c)
    \/ Finished

Spec == Init /\ [][Next]_vars

\* a handler that was started runs on; every request is sent, every page
\* loaded again and again
Fairness ==
    /\ \A c \in Clients : WF_vars(Step(c))
    /\ \A r \in Requests : SF_vars(\E c \in Clients : Submit(c, r))

FairSpec == Spec /\ Fairness

-----------------------------------------------------------------------------

\* Every variable holds a value of its type: handlers only ever store tag
\* sets, paths and photos they read from the container or from a request.
TypeOK == StoreTypeOK /\ RequestTypeOK

BlobsWith(query) == {p \in Paths : Has(p) /\ Satisfies(images[p].tags, query)}

\* the paths a rename takes blobs from, and those it takes them to
Source(r) == {p \in Paths : p[1] = r.collection /\ (r.kind = "renameAlbum" => p[2] = r.album)}
Target(r) == {NewPath(r, p) : p \in Source(r)}

\* No photo disappears: whatever requests run, interleave, fail or are cut
\* off, each photo of the library is the content of some blob.  Rename is the
\* only handler that deletes, and must have copied first (rename.go:76-101).
NoPhotoLost == \A f \in Photos : \E p \in Paths : Has(p) /\ images[p].photo = f

\* A path and the tags stored at it name the same place
TagsNamePath(p) ==
    LET tags == images[p].tags
    IN  tags.name = p /\ tags.collection = p[1] /\ tags.album = p[2]

\* When no handler is running and nothing has failed, every photo is in one
\* blob only, and the tags of that blob name the path it is at, so that the
\* tag queries and the paths agree on where a photo is.
Settled ==
    (Quiet /\ faults = MaxFaults) =>
        /\ \A p \in Paths : Has(p) => TagsNamePath(p)
        /\ \A p, q \in Paths : Has(p) /\ Has(q) /\ images[p].photo = images[q].photo => p = q

\* When no handler is running, no collection has two live blobs marked as its
\* thumbnail: moving the mark clears the old one (thumbnail.go:58-70,
\* update.go:86-98), and page loads never add one (collection.go:57-60).
OneThumbnail ==
    Quiet => \A a \in Collections :
        Cardinality(BlobsWith([collection |-> a, collectionImage |-> TRUE, isDeleted |-> FALSE])) <= 1

\* The same for albums and albumImage (thumbnail.go:160-172).
OneAlbumThumbnail ==
    Quiet => \A a \in Collections, b \in Albums :
        Cardinality(BlobsWith([collection |-> a, album |-> b,
                               albumImage |-> TRUE, isDeleted |-> FALSE])) <= 1

\* Once the administrators are done, repeated page loads clear every
\* duplicate thumbnail for good, even when they run at the same time and
\* write back each other's stale tags (collection.go:37-55, album.go:45-65).
ThumbnailsConverge ==
    <>[](\A a \in Collections :
           /\ Cardinality(BlobsWith([collection |-> a, collectionImage |-> TRUE,
                                     isDeleted |-> FALSE])) <= 1
           /\ \A b \in Albums :
                Cardinality(BlobsWith([collection |-> a, album |-> b,
                                       albumImage |-> TRUE, isDeleted |-> FALSE])) <= 1)

-----------------------------------------------------------------------------
(* Properties of the step that answers a request.                          *)

Answers(c, op, status) ==
    /\ req[c].op = op
    /\ req'[c].pc = "idle"
    /\ reply'[c].status = status

\* the matching blobs were all found, and with all their tags
FoundAll(c)   == "rows" \notin req[c].cut
FoundWhole(c) == req[c].cut = {}

\* A soft-delete answered 200 leaves no live blob under that collection or
\* album tag, a restore answered 200 leaves no deleted one and leaves a live
\* thumbnail, whatever failed on the way (softdelete.go), but for one error the
\* store never looks for: one that ends the loop over the matching rows
\* (store.go:368-376), or over their tags (store.go:394) where the thumbnail
\* is concerned.  The answer that the whole collection is deleted is true too,
\* unless the query it rests on failed itself (softdelete.go:125).
HonestAnswers ==
    [][/\ \A c \in Clients :
           req[c].pc = "remaining" /\ reply'[c].collectionDeleted /\ faults' = faults =>
             (BlobsWith([collection |-> reply[c].op.collection, isDeleted |-> FALSE]) = {})'
       /\ \A c \in Clients, op \in Requests : Answers(c, op, "200") /\ FoundAll(c) =>
            /\ op.kind = "softDeleteCollection" =>
                 (BlobsWith([collection |-> op.collection, isDeleted |-> FALSE]) = {})'
            /\ op.kind = "softDeleteAlbum" =>
                 (BlobsWith([collection |-> op.collection, album |-> op.album,
                             isDeleted |-> FALSE]) = {})'
            /\ op.kind = "restoreCollection" =>
                 /\ (BlobsWith([collection |-> op.collection, isDeleted |-> TRUE]) = {})'
                 /\ FoundWhole(c) =>
                      (BlobsWith([collection |-> op.collection, isDeleted |-> FALSE,
                                  collectionImage |-> TRUE]) # {})'
            /\ op.kind = "restoreAlbum" =>
                 /\ (BlobsWith([collection |-> op.collection, album |-> op.album,
                                isDeleted |-> TRUE]) = {})'
                 /\ FoundWhole(c) =>
                      (BlobsWith([collection |-> op.collection, album |-> op.album,
                                  isDeleted |-> FALSE, albumImage |-> TRUE]) # {})'
      ]_vars

\* A rename answered 200 leaves nothing under the old tag, deleted photos
\* included (rename.go:116-123), but what failing deletions have left there,
\* since DeleteBlob reports success when it cannot look a blob up
\* (store.go:207), and what it never found because an error ended the loop over
\* the matching rows unnoticed (store.go:368-376).  A
\* thumbnail choice answered 200 leaves no other photo of the collection or
\* album marked, if nothing failed before: a failed clearing is only logged
\* (thumbnail.go:58-93).
AnsweredChangesHold ==
    [][\A c \in Clients, op \in Requests : Answers(c, op, "200") =>
        /\ op.kind = "renameCollection" /\ FoundAll(c) =>
             (Cardinality(BlobsWith([collection |-> op.collection])) <= MaxFaults - faults)'
        /\ op.kind = "renameAlbum" /\ FoundAll(c) =>
             (Cardinality(BlobsWith([collection |-> op.collection, album |-> op.album]))
                <= MaxFaults - faults)'
        /\ op.kind = "thumbnailCollection" /\ Chooses(op) /\ faults = MaxFaults =>
             (BlobsWith([collection |-> op.collection, collectionImage |-> TRUE])
                \subseteq {op.image})'
        /\ op.kind = "thumbnailAlbum" /\ Chooses(op) /\ faults = MaxFaults =>
             (BlobsWith([collection |-> op.collection, album |-> op.album, albumImage |-> TRUE])
                \subseteq {op.image})'
      ]_vars

\* collection.go:37 "clear the stale collectionImage tag on any extras": a
\* page load changes no other tag of a blob.
BrowseOnlyClearsMarks ==
    [][\A c \in Clients, p \in Paths :
        (BrowseCollections(c) /\ Has(p)) =>
            images'[p].tags = [images[p].tags EXCEPT !.collectionImage = images'[p].tags.collectionImage]]_vars
=============================================================================
