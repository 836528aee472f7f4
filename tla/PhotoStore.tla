----------------------------- MODULE PhotoStore -----------------------------
(***************************************************************************)
(* The "images" container of the photo library, as the API handlers see it *)
(* through storage.BlobStore backed by LocalBlobStore and the blob         *)
(* emulator: a table from blob paths collection/album/file to a photo and  *)
(* its tags.  Every call of the interface is one atomic step here; a       *)
(* handler is several of them (module ApiRequests), with no lock and no    *)
(* etag between them.  A call may fail, before or after taking effect,     *)
(* while the fault budget lasts.                                           *)
(*                                                                         *)
(* A photo stands for the bytes of an image, a tag value of None for a key *)
(* the blob's tag map does not have.                                       *)
(***************************************************************************)
EXTENDS Naturals, FiniteSets

CONSTANTS
    Collections,   \* values of the first path segment and of tag "collection"
    Albums,        \* values of the second path segment and of tag "album"
    Files,         \* values of the last path segment
    Photos,        \* contents of images
    Orientations,  \* values of tag "orientation", the free-form payload tag
    None,          \* an absent tag, an absent request field
    NoBlob,        \* what a path without a blob holds
    Libraries,     \* the contents the container may start with
    FirstFreeRow,  \* the first row number no blob of a library has
    MaxFaults      \* bound: calls that fail and requests that are cut off

Paths == Collections \X Albums \X Files
Flags == {TRUE, FALSE, None}

Tags == [collection      : Collections \cup {None},
         album           : Albums \cup {None},
         name            : Paths \cup {None},
         isDeleted       : Flags,
         collectionImage : Flags,
         albumImage      : Flags,
         orientation     : Orientations \cup {None}]

EmptyTags == [collection |-> None, album |-> None, name |-> None,
              isDeleted |-> None, collectionImage |-> None,
              albumImage |-> None, orientation |-> None]

\* row is the AUTOINCREMENT key of the emulator's blobs table
Blobs == [photo : Photos, row : Nat, tags : Tags]

ASSUME NoneAssumption ==
    /\ None \notin Collections \cup Albums \cup Files \cup Photos
    /\ None \notin Orientations \cup BOOLEAN \cup Paths \cup Tags
    /\ NoBlob \notin Blobs

ASSUME LibraryAssumption ==
    /\ Libraries \subseteq [Paths -> Blobs \cup {NoBlob}]
    /\ FirstFreeRow \in Nat
    /\ MaxFaults \in Nat

VARIABLES
    images,   \* path -> blob or NoBlob
    nextRow,  \* the next key the blobs table hands out
    faults    \* failures still to come

storeVars == <<images, nextRow, faults>>

StoreTypeOK ==
    /\ images \in [Paths -> Blobs \cup {NoBlob}]
    /\ nextRow \in Nat
    /\ faults \in 0..MaxFaults

Has(p) == images[p] # NoBlob

StoreInit ==
    /\ images \in Libraries
    /\ nextRow = FirstFreeRow
    /\ faults = MaxFaults

-----------------------------------------------------------------------------
(* Reads.  A query is a record from some of the tag keys to the values     *)
(* they must have.                                                         *)

Satisfies(tags, query) == \A k \in DOMAIN query : tags[k] = query[k]

\* step 1 of FilterByTags: the rows that match
MatchingRows(query) ==
    {<<p, images[p].row>> : p \in {q \in Paths : Has(q) /\ Satisfies(images[q].tags, query)}}

\* step 2: the tags of those rows, read by a later statement: a row that is
\* gone by then, or whose path has a new row, comes back without tags
TagsOfRow(r) ==
    IF Has(r[1]) /\ images[r[1]].row = r[2] THEN images[r[1]].tags ELSE EmptyTags

WithTags(rows) == {[path |-> r[1], tags |-> TagsOfRow(r)] : r \in rows}

\* An error while a result is read ends the loop over its rows, and nobody asks
\* for it: the caller gets the part read so far for the whole.  Only an error
\* before the first row is reported.
Shortened(rows) == (SUBSET rows) \ {{}, rows}

\* the first n of the keys, in the order of the index they are read by
FirstTags(tags, n) ==
    [album           |-> IF n >= 1 THEN tags.album ELSE None,
     albumImage      |-> IF n >= 2 THEN tags.albumImage ELSE None,
     collection      |-> IF n >= 3 THEN tags.collection ELSE None,
     collectionImage |-> IF n >= 4 THEN tags.collectionImage ELSE None,
     isDeleted       |-> IF n >= 5 THEN tags.isDeleted ELSE None,
     name            |-> IF n >= 6 THEN tags.name ELSE None,
     orientation     |-> IF n >= 7 THEN tags.orientation ELSE None]

\* step 2 broken off after n tags of row last: rows with a higher number come
\* back without tags, and all do when the statement fails at once
WithSomeTags(rows, last, n) ==
    {[path |-> r[1], tags |-> IF r[2] < last[2] THEN TagsOfRow(r)
                              ELSE IF r = last THEN FirstTags(TagsOfRow(r), n)
                              ELSE EmptyTags] : r \in rows}

Fetches(rows) ==
    {WithTags(rows)} \cup {WithSomeTags(rows, r, n) : r \in rows, n \in 0..6}

-----------------------------------------------------------------------------
(* Outcomes of calls.  ok tells the caller whether the call returned an    *)
(* error.                                                                  *)

CallFails == faults > 0 /\ faults' = faults - 1
CallWorks == UNCHANGED faults

\* reading the tags of p, all 7 of them or the n before an error
ReadTags(p, n) ==
    /\ Has(p)
    /\ IF n = 7 THEN CallWorks ELSE CallFails /\ FirstTags(images[p].tags, n) # EmptyTags
    /\ UNCHANGED <<images, nextRow>>

\* reading the bytes of p; or the tags, when that is reported as an error
ReadBlob(p, ok) ==
    /\ \/ ok /\ Has(p) /\ CallWorks
       \/ ~ok /\ ~Has(p) /\ CallWorks
       \/ ~ok /\ CallFails
    /\ UNCHANGED <<images, nextRow>>

Retagged(p, tags) == [images EXCEPT ![p].tags = tags]

\* SetBlobTags replaces the whole tag set of an existing blob
SetBlobTags(p, tags, ok) ==
    /\ \/ ok /\ Has(p) /\ CallWorks /\ images' = Retagged(p, tags)
       \/ ~ok /\ ~Has(p) /\ CallWorks /\ UNCHANGED images
       \/ ~ok /\ CallFails /\ UNCHANGED images
       \/ ~ok /\ CallFails /\ Has(p) /\ images' = Retagged(p, tags)
    /\ UNCHANGED nextRow

\* the upsert of SaveBlob: an existing row is kept, its tags are replaced
Stored(p, photo, tags) ==
    /\ images' = [images EXCEPT ![p] =
          [photo |-> photo, row |-> IF Has(p) THEN images[p].row ELSE nextRow, tags |-> tags]]
    /\ nextRow' = IF Has(p) THEN nextRow ELSE nextRow + 1

SaveBlob(p, photo, tags, ok) ==
    \/ ok /\ CallWorks /\ Stored(p, photo, tags)
    \/ ~ok /\ CallFails /\ Stored(p, photo, tags)
    \/ ~ok /\ CallFails /\ UNCHANGED <<images, nextRow>>

\* deleting a blob that is not there is not an error, and neither is one that
\* could not be looked up: the emulator answers both with success
DeleteBlob(p, ok) ==
    /\ \/ ok /\ CallWorks /\ images' = [images EXCEPT ![p] = NoBlob]
       \/ ok /\ CallFails /\ UNCHANGED images
       \/ ~ok /\ CallFails /\ images' = [images EXCEPT ![p] = NoBlob]
       \/ ~ok /\ CallFails /\ UNCHANGED images
    /\ UNCHANGED nextRow
=============================================================================
