------------------------------- MODULE Browse -------------------------------
(***************************************************************************)
(* GET /api and GET /api/{collection} (handler/collection.go, album.go):   *)
(* the two page loads that write.  Both look for blobs marked as thumbnail *)
(* and clear the mark of every blob but the first of its collection, or    *)
(* album, by writing back the tags the query returned.  What they go on to *)
(* read for the page itself changes nothing and is left out.               *)
(***************************************************************************)
EXTENDS ApiRequests

MarkedCollections == [collectionImage |-> TRUE, isDeleted |-> FALSE]
MarkedAlbums(op) == [collection |-> op.collection, albumImage |-> TRUE, isDeleted |-> FALSE]

\* faulty variant: one mark is kept per album, not per collection
CollectionKeyAlbum(tags) == tags.album

CollectionKey(tags) == tags.collection
AlbumKey(tags)      == tags.album

Key(kind, tags) == IF kind = "browseCollections" THEN CollectionKey(tags) ELSE AlbumKey(tags)

\* the blobs the loop clears, when it keeps one of each key
Extras(kind, jobs) ==
    {jobs \ keep : keep \in {s \in SUBSET jobs :
        /\ \A j \in jobs : \E k \in s : Key(kind, k.tags) = Key(kind, j.tags)
        /\ \A j, k \in s : Key(kind, j.tags) = Key(kind, k.tags) => j = k}}

\* an error of the query is dropped: nothing is marked
BrowseFind(c, kind, query) ==
    /\ At(c, kind, "find")
    /\ \/ FindBlobs(c, query)
       \/ FindsNone(query) /\ Answer(c, "200")
       \/ FindFails /\ Answer(c, "200")

BrowseFetch(c, kind) ==
    /\ At(c, kind, "tags")
    /\ \E jobs \in Fetches(req[c].rows) :
         /\ FetchTags(c, jobs)
         /\ \E extras \in Extras(kind, jobs) :
              NextOrAnswer(c, extras, FALSE, Fetched(c, jobs))

CollectionCleared(tags) == [tags EXCEPT !.collectionImage = FALSE]
AlbumCleared(tags)      == [tags EXCEPT !.albumImage = FALSE]

Cleared(kind, tags) ==
    IF kind = "browseCollections" THEN CollectionCleared(tags) ELSE AlbumCleared(tags)

\* an error of the write is only logged
BrowseClear(c, kind) ==
    /\ At(c, kind, "each")
    /\ \E j \in req[c].todo :
         \/ PanicOn(c, j)
         \/ /\ j.tags # EmptyTags
            /\ \E ok \in BOOLEAN : SetBlobTags(j.path, Cleared(kind, j.tags), ok)
            /\ NextOrAnswer(c, req[c].todo \ {j}, FALSE, req[c])

\* the list of collections and albums comes first, and without it there is no page
NoTagList(c, kind) == At(c, kind, "find") /\ FindFails /\ Answer(c, "404")

BrowseCollections(c) ==
    \/ NoTagList(c, "browseCollections")
    \/ BrowseFind(c, "browseCollections", MarkedCollections)
    \/ BrowseFetch(c, "browseCollections")
    \/ BrowseClear(c, "browseCollections")

BrowseAlbums(c) ==
    \/ NoTagList(c, "browseAlbums")
    \/ BrowseFind(c, "browseAlbums", MarkedAlbums(req[c].op))
    \/ BrowseFetch(c, "browseAlbums")
    \/ BrowseClear(c, "browseAlbums")
=============================================================================
