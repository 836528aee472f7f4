-------------------------- MODULE OneAdministrator --------------------------
(***************************************************************************)
(* Why one administrator, with any number of people loading pages beside   *)
(* him, keeps one thumbnail for a collection and for an album: the         *)
(* invariant.  Nothing fails, and nobody restores or renames.              *)
(***************************************************************************)
EXTENDS OneConnection

BrowseKinds == {"browseCollections", "browseAlbums"}

CollectionMarked(tags) == tags.collectionImage = TRUE
AlbumMarked(tags)      == tags.albumImage = TRUE

\* a collection has one thumbnail at most, and an album too, hidden ones counted
MarksApart(blobs) ==
    \A p, q \in Paths : blobs[p] # NoBlob /\ blobs[q] # NoBlob /\ p[1] = q[1] =>
        /\ CollectionMarked(blobs[p].tags) /\ CollectionMarked(blobs[q].tags) => p = q
        /\ p[2] = q[2] /\ AlbumMarked(blobs[p].tags) /\ AlbumMarked(blobs[q].tags) => p = q

-----------------------------------------------------------------------------
(* The hypotheses.                                                         *)

OneAdmin == \A c, d \in Admins : c = d

\* requests that do not move or restore blobs, and mark one where it is; the
\* edit of a photo does not make it the thumbnail of its album, since the code
\* does not look for another
ThumbnailRequests ==
    \A r \in Requests :
        /\ r.kind \in DeleteKinds \cup ThumbnailKinds \cup {"update"} \cup BrowseKinds
        /\ r.kind \in ThumbnailKinds /\ Chooses(r) =>
             /\ r.image[1] = r.collection
             /\ r.kind = "thumbnailAlbum" => r.image[2] = r.album
        /\ r.kind = "update" => ~AlbumMarked(r.tags)

LibrariesMarked == \A lib \in Libraries : MarksApart(lib)

-----------------------------------------------------------------------------

\* the handlers that write, all of the administrator
Writes(s) == s.op # None /\ s.op.kind \notin BrowseKinds

\* A page load never has a mark to clear: its rows are of different
\* collections or albums.
OnlyReads(s) ==
    s.op # None /\ s.op.kind \in BrowseKinds =>
        /\ s.pc \in {"find", "tags"}
        /\ s.pc = "tags" =>
             \A r, t \in s.rows :
                /\ s.op.kind = "browseCollections" /\ r[1][1] = t[1][1] => r = t
                /\ s.op.kind = "browseAlbums" /\ r[1][2] = t[1][2] => r = t

\* who has blobs at hand
HoldsWork(s) ==
    /\ s.todo # {} => s.op # None /\ s.op.kind \in DeleteKinds \cup ThumbnailKinds
    /\ s.job # None => s.op # None /\ s.op.kind = "update" /\ s.pc = "clear"

\* when the tags at hand are those of the photo the request is about
TagsRead(s) ==
    s.op # None /\ \/ s.op.kind \in ThumbnailKinds /\ s.pc = "set"
                   \/ s.op.kind = "update" /\ s.pc = "find"

\* What a handler has read has not changed since.
Fresh(s) ==
    /\ \A j \in s.todo \cup ({s.job} \ {None}) : Has(j.path) /\ images[j.path].tags = j.tags
    /\ TagsRead(s) => Has(s.op.image) /\ images[s.op.image].tags = s.tags

\* An edit that takes the mark of the collection knows who has it.
Replaces(s) ==
    s.op # None /\ s.op.kind = "update" /\ CollectionMarked(s.op.tags) =>
        LET marked == BlobsWith(CollectionImageQuery(s.op.image[1]))
        IN  /\ s.pc = "tags"  => marked = {r[1] : r \in s.rows}
            /\ s.pc = "clear" => marked \subseteq {s.job.path}
            /\ s.pc = "set"   => marked \subseteq {s.op.image}

Tidy ==
    /\ \A p \in Paths : Has(p) => NamesPath(images[p].tags, p)
    /\ MarksApart(images)
    /\ \A c \in Clients :
         /\ Writes(req[c]) => c \in Admins
         /\ NamesAtHand(req[c]) /\ StillThere(req[c])
         /\ OnlyReads(req[c]) /\ HoldsWork(req[c]) /\ Fresh(req[c]) /\ Replaces(req[c])
    /\ Complete
============================================================================
