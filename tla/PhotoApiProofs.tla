--------------------------- MODULE PhotoApiProofs ---------------------------
(***************************************************************************)
(* Proofs about PhotoApi for any library, workload and number of clients.  *)
(***************************************************************************)
EXTENDS OneAdministrator, FiniteSetTheorems, TLAPS

LEMMA SetBlobTagsType ==
    ASSUME StoreTypeOK, NEW p \in Paths, NEW tags \in Tags, NEW ok \in BOOLEAN,
           SetBlobTags(p, tags, ok)
    PROVE  StoreTypeOK'
<1>1. Has(p) => Retagged(p, tags) \in [Paths -> Blobs \cup {NoBlob}]
  <2> SUFFICES ASSUME Has(p)
               PROVE  Retagged(p, tags) \in [Paths -> Blobs \cup {NoBlob}]
    OBVIOUS
  <2>1. images[p] \in Blobs
    BY DEF StoreTypeOK, Has
  <2>2. [images[p] EXCEPT !.tags = tags] \in Blobs
    BY <2>1 DEF Blobs
  <2> QED
    BY <2>2 DEF Retagged, StoreTypeOK
<1>2. images' \in [Paths -> Blobs \cup {NoBlob}]
  BY <1>1 DEF StoreTypeOK, SetBlobTags
<1> QED
  BY <1>2, LibraryAssumption DEF StoreTypeOK, SetBlobTags, CallWorks, CallFails

LEMMA SaveBlobType ==
    ASSUME StoreTypeOK, NEW p \in Paths, NEW photo \in Photos, NEW tags \in Tags,
           NEW ok \in BOOLEAN, SaveBlob(p, photo, tags, ok)
    PROVE  StoreTypeOK'
<1>1. ASSUME Stored(p, photo, tags)
      PROVE  images' \in [Paths -> Blobs \cup {NoBlob}] /\ nextRow' \in Nat
  <2>1. (IF Has(p) THEN images[p].row ELSE nextRow) \in Nat
    BY DEF StoreTypeOK, Has, Blobs
  <2>2. [photo |-> photo, row |-> IF Has(p) THEN images[p].row ELSE nextRow, tags |-> tags] \in Blobs
    BY <2>1 DEF Blobs
  <2> QED
    BY <1>1, <2>2 DEF Stored, StoreTypeOK
<1> QED
  BY <1>1, LibraryAssumption DEF SaveBlob, StoreTypeOK, CallWorks, CallFails

LEMMA DeleteBlobType ==
    ASSUME StoreTypeOK, NEW p \in Paths, NEW ok \in BOOLEAN, DeleteBlob(p, ok)
    PROVE  StoreTypeOK'
BY LibraryAssumption DEF StoreTypeOK, DeleteBlob, CallWorks, CallFails

-----------------------------------------------------------------------------
(* What a handler must have at hand at each point for its next call to be  *)
(* well typed: TypeOK alone is not inductive.                              *)

AtHand(s) ==
    /\ s.pc # "idle" => s.op # None
    /\ s.pc \in {"copyTags", "save", "retag", "delete", "clear"} => s.job # None
    /\ s.pc \in {"copyTags", "save"} => s.photo # None
    /\ s.pc = "save" => s.tags # None
    /\ s.op # None =>
         /\ s.op.kind \in ThumbnailKinds /\ s.pc \in {"unmark", "get", "set"} => Chooses(s.op)
         /\ s.op.kind \in ThumbnailKinds /\ s.pc = "set" => s.tags # None
         /\ s.op.kind = "update" /\ s.pc = "find" => s.tags # None

RequestsOK == RequestTypeOK /\ \A c \in Clients : AtHand(req[c])

TypeInv == StoreTypeOK /\ RequestsOK

LEMMA GoOn ==
    ASSUME RequestsOK, NEW c \in Clients, NEW s \in RequestState, AtHand(s), Continue(c, s)
    PROVE  RequestsOK'
<1>1. RequestTypeOK'
  BY DEF RequestsOK, RequestTypeOK, Continue
<1>2. \A d \in Clients : AtHand(req'[d])
  BY DEF RequestsOK, RequestTypeOK, Continue
<1>3. (\A d \in Clients : AtHand(req[d]))'
  BY <1>2 DEF AtHand, Chooses
<1> QED
  BY <1>1, <1>3 DEF RequestsOK

LEMMA IdleType == Idle \in RequestState /\ AtHand(Idle)
BY DEF Idle, RequestState, PCs, AtHand

LEMMA Reply ==
    ASSUME RequestsOK, NEW c \in Clients, NEW status \in Statuses, NEW d \in BOOLEAN,
           AnswerWith(c, status, d)
    PROVE  RequestsOK'
<1>1. RequestTypeOK'
  BY IdleType DEF RequestsOK, RequestTypeOK, AnswerWith, RequestState, Replies
<1>2. \A e \in Clients : AtHand(req'[e])
  BY IdleType DEF RequestsOK, RequestTypeOK, AnswerWith
<1>3. (\A e \in Clients : AtHand(req[e]))'
  BY <1>2 DEF AtHand, Chooses
<1> QED
  BY <1>1, <1>3 DEF RequestsOK

LEMMA ReplyPlain ==
    ASSUME RequestsOK, NEW c \in Clients, NEW status \in Statuses, Answer(c, status)
    PROVE  RequestsOK'
BY Reply DEF Answer

LEMMA GoOnOrReply ==
    ASSUME RequestsOK, NEW c \in Clients, NEW todo \in SUBSET Jobs, NEW failed \in BOOLEAN,
           NEW s \in RequestState, s.op # None, NextOrAnswer(c, todo, failed, s)
    PROVE  RequestsOK'
<1>1. CASE todo = {}
  BY <1>1, ReplyPlain DEF NextOrAnswer, Statuses
<1>2. CASE todo # {}
  <2> DEFINE t == [s EXCEPT !.pc = "each", !.todo = todo, !.failed = failed]
  <2>1. t \in RequestState /\ AtHand(t)
    BY DEF RequestState, PCs, AtHand
  <2> QED
    BY <1>2, <2>1, GoOn DEF NextOrAnswer
<1> QED
  BY <1>1, <1>2

-----------------------------------------------------------------------------
(* Values handlers compute.                                                *)

LEMMA RowsType ==
    ASSUME StoreTypeOK, NEW query
    PROVE  MatchingRows(query) \in SUBSET (Paths \X Nat)
BY DEF MatchingRows, StoreTypeOK, Has, Blobs

LEMMA EmptyTagsType == EmptyTags \in Tags
BY DEF EmptyTags, Tags, Flags

LEMMA FirstTagsType ==
    ASSUME NEW tags \in Tags, NEW n \in Nat
    PROVE  FirstTags(tags, n) \in Tags /\ (n = 7 => FirstTags(tags, n) = tags)
<1>1. FirstTags(tags, n).collection \in Collections \cup {None}
  BY DEF FirstTags, Tags
<1>2. FirstTags(tags, n).album \in Albums \cup {None}
  BY DEF FirstTags, Tags
<1>3. FirstTags(tags, n).name \in Paths \cup {None}
  BY DEF FirstTags, Tags
<1>4. FirstTags(tags, n).isDeleted \in Flags
  BY DEF FirstTags, Tags, Flags
<1>5. FirstTags(tags, n).collectionImage \in Flags
  BY DEF FirstTags, Tags, Flags
<1>6. FirstTags(tags, n).albumImage \in Flags
  BY DEF FirstTags, Tags, Flags
<1>7. FirstTags(tags, n).orientation \in Orientations \cup {None}
  BY DEF FirstTags, Tags
<1>8. FirstTags(tags, n) \in Tags
  BY <1>1, <1>2, <1>3, <1>4, <1>5, <1>6, <1>7 DEF FirstTags, Tags
<1>9. n = 7 => FirstTags(tags, n) = tags
  BY DEF FirstTags, Tags
<1> QED
  BY <1>8, <1>9

LEMMA FetchedType ==
    ASSUME StoreTypeOK, RequestsOK, NEW c \in Clients, NEW jobs \in Fetches(req[c].rows)
    PROVE  /\ jobs \in SUBSET Jobs
           /\ Fetched(c, jobs) \in RequestState
           /\ Fetched(c, jobs) = [req[c] EXCEPT !.rows = {}, !.cut = Fetched(c, jobs).cut]
<1>1. \A r \in req[c].rows : r[1] \in Paths /\ r[2] \in Nat
  BY DEF RequestsOK, RequestTypeOK, RequestState
<1>2. \A r \in req[c].rows : TagsOfRow(r) \in Tags
  BY <1>1, EmptyTagsType DEF TagsOfRow, StoreTypeOK, Has, Blobs
<1>3. jobs \in SUBSET Jobs
  <2>1. CASE jobs = WithTags(req[c].rows)
    BY <1>1, <1>2, <2>1 DEF WithTags, Jobs
  <2>2. ASSUME NEW last \in req[c].rows, NEW n \in 0..6, jobs = WithSomeTags(req[c].rows, last, n)
        PROVE  jobs \in SUBSET Jobs
    <3>1. \A r \in req[c].rows : FirstTags(TagsOfRow(r), n) \in Tags
      BY <1>2, FirstTagsType
    <3> QED
      BY <1>1, <1>2, <2>2, <3>1, EmptyTagsType DEF WithSomeTags, Jobs
  <2> QED
    BY <2>1, <2>2 DEF Fetches
<1>4. req[c] \in RequestState
  BY DEF RequestsOK, RequestTypeOK
<1> DEFINE cut == IF jobs = WithTags(req[c].rows) THEN req[c].cut ELSE req[c].cut \cup {"tags"}
<1>5. cut \in SUBSET {"rows", "tags"}
  BY <1>4 DEF RequestState
<1>6. Fetched(c, jobs) = [req[c] EXCEPT !.rows = {}, !.cut = cut]
  BY DEF Fetched
<1> HIDE DEF cut
<1>7. Fetched(c, jobs) \in RequestState /\ Fetched(c, jobs).cut = cut
  BY <1>4, <1>5, <1>6 DEF RequestState
<1> QED
  BY <1>3, <1>6, <1>7

LEMMA FetchedFields ==
    ASSUME NEW c \in Clients, req[c] \in RequestState, NEW jobs
    PROVE  LET s == Fetched(c, jobs)
           IN  /\ s.op = req[c].op /\ s.pc = req[c].pc /\ s.rows = {} /\ s.todo = req[c].todo
               /\ s.job = req[c].job /\ s.photo = req[c].photo /\ s.tags = req[c].tags
               /\ s.seen = req[c].seen /\ s.failed = req[c].failed
BY DEF Fetched, RequestState

LEMMA BlobType ==
    ASSUME StoreTypeOK, NEW p \in Paths, Has(p)
    PROVE  images[p].photo \in Photos /\ images[p].tags \in Tags
BY DEF StoreTypeOK, Has, Blobs

LEMMA NewTagsValuesType ==
    ASSUME NEW tags \in Tags
    PROVE  /\ Deleted(tags) \in Tags
           /\ \A seen : RestoredInAlbum(tags, seen) \in Tags
           /\ \A seen : RestoredInCollection(tags, seen) \in Tags
           /\ \A v \in BOOLEAN : MarkCollection(tags, v) \in Tags /\ MarkAlbum(tags, v) \in Tags
           /\ CollectionCleared(tags) \in Tags /\ AlbumCleared(tags) \in Tags
           /\ \A op \in Requests : Rotated(tags, op) \in Tags
<1>1. Deleted(tags) \in Tags
  BY DEF Tags, Flags, Deleted
<1>2. \A seen : RestoredInAlbum(tags, seen) \in Tags
  BY DEF Tags, Flags, RestoredInAlbum
<1>3. \A seen : RestoredInCollection(tags, seen) \in Tags
  BY DEF Tags, Flags, RestoredInCollection
<1>4. \A v \in BOOLEAN : MarkCollection(tags, v) \in Tags /\ MarkAlbum(tags, v) \in Tags
  BY DEF Tags, Flags, MarkCollection, MarkAlbum
<1>5. CollectionCleared(tags) \in Tags /\ AlbumCleared(tags) \in Tags
  BY DEF Tags, Flags, CollectionCleared, AlbumCleared
<1>6. \A op \in Requests : Rotated(tags, op) \in Tags
  BY RequestAssumption DEF Tags, Rotated, RequestType
<1> QED
  BY <1>1, <1>2, <1>3, <1>4, <1>5, <1>6

LEMMA NewPathType ==
    ASSUME NEW op \in Renames, NEW p \in Paths
    PROVE  NewPath(op, p) \in Paths
BY RequestAssumption DEF Renames, RenameKinds, NewPath, Paths

LEMMA RenameFields ==
    ASSUME NEW r \in Renames
    PROVE  /\ r \in Requests /\ r.collection \in Collections
           /\ r.kind \in RenameKinds
           /\ r.kind = "renameCollection" => r.newName \in Collections /\ r.newName # r.collection
           /\ r.kind = "renameAlbum" =>
                r.album \in Albums /\ r.newName \in Albums /\ r.newName # r.album
BY RequestAssumption DEF Renames, RenameKinds

LEMMA PathFields ==
    ASSUME NEW p \in Paths
    PROVE  /\ p[1] \in Collections /\ p[2] \in Albums /\ p[3] \in Files
           /\ p = <<p[1], p[2], p[3]>>
BY DEF Paths

LEMMA TargetPaths ==
    ASSUME NEW r \in Renames
    PROVE  /\ Source(r) \subseteq Paths /\ Target(r) \subseteq Paths
           /\ \A p \in Source(r) : NewPath(r, p) \in Target(r)
BY NewPathType DEF Source, Target

LEMMA NewTagsType ==
    ASSUME NEW op \in Renames, NEW j \in Jobs
    PROVE  NewTags(op, j) \in Tags
<1>1. j.tags \in Tags /\ NewPath(op, j.path) \in Paths
  BY NewPathType DEF Jobs
<1>2. CASE op.kind = "renameCollection"
  <2>1. op.newName \in Collections
    BY <1>2, RequestAssumption DEF Renames, RenameKinds
  <2> QED
    BY <1>1, <1>2, <2>1 DEF NewTags, Tags
<1>3. CASE op.kind = "renameAlbum"
  <2>1. op.newName \in Albums
    BY <1>3, RequestAssumption DEF Renames, RenameKinds
  <2> QED
    BY <1>1, <1>3, <2>1 DEF NewTags, Tags
<1> QED
  BY <1>2, <1>3 DEF Renames, RenameKinds

LEMMA BodyTagsType ==
    ASSUME NEW op \in Requests, op.kind = "update"
    PROVE  op.image \in Paths /\ BodyTags(op) \in Tags
BY RequestAssumption DEF BodyTags, Tags

LEMMA AtType ==
    ASSUME RequestsOK, NEW c \in Clients, NEW kind, NEW pc, At(c, kind, pc)
    PROVE  /\ req[c] \in RequestState /\ AtHand(req[c])
           /\ req[c].op \in Requests /\ req[c].op # None
           /\ req[c].op.kind = kind /\ req[c].pc = pc
           /\ req[c].todo \in SUBSET Jobs /\ req[c].failed \in BOOLEAN
           /\ req[c].job \in Jobs \cup {None}
BY DEF At, RequestsOK, RequestTypeOK, RequestState

-----------------------------------------------------------------------------
(* Steps the handlers share.                                               *)

LEMMA StoreUnread ==
    ASSUME StoreTypeOK, CallWorks \/ CallFails, UNCHANGED <<images, nextRow>>
    PROVE  StoreTypeOK'
BY LibraryAssumption DEF StoreTypeOK, CallWorks, CallFails

LEMMA StoreUnchanged ==
    ASSUME StoreTypeOK, UNCHANGED storeVars
    PROVE  StoreTypeOK'
BY DEF StoreTypeOK, storeVars

\* the rows a query brings, and whether they are all
LEMMA FindBlobsSteps ==
    ASSUME TypeInv, NEW c \in Clients, NEW query, FindBlobs(c, query)
    PROVE  \E rows \in SUBSET MatchingRows(query), cut \in SUBSET {"rows", "tags"} :
              /\ Continue(c, [req[c] EXCEPT !.pc = "tags", !.rows = rows, !.cut = cut])
              /\ UNCHANGED <<images, nextRow>>
              /\ \/ CallWorks /\ rows = MatchingRows(query) /\ cut = req[c].cut
                 \/ CallFails /\ cut = {"rows"}
<1>1. CASE FindAll(c, query)
  <2>1. req[c] \in RequestState
    BY DEF TypeInv, RequestsOK, RequestTypeOK
  <2>2. /\ req[c].cut \in SUBSET {"rows", "tags"}
        /\ [req[c] EXCEPT !.pc = "tags", !.rows = MatchingRows(query)]
             = [req[c] EXCEPT !.pc = "tags", !.rows = MatchingRows(query), !.cut = req[c].cut]
    BY <2>1 DEF RequestState
  <2> QED
    BY <1>1, <2>2 DEF FindAll, storeVars, CallWorks
<1>2. CASE FindSome(c, query)
  BY <1>2 DEF FindSome, Shortened
<1> QED
  BY <1>1, <1>2 DEF FindBlobs

LEMMA FindBlobsType ==
    ASSUME TypeInv, NEW c \in Clients, req[c].op # None, NEW query, FindBlobs(c, query)
    PROVE  TypeInv'
<1>1. PICK rows \in SUBSET MatchingRows(query), cut \in SUBSET {"rows", "tags"} :
         /\ Continue(c, [req[c] EXCEPT !.pc = "tags", !.rows = rows, !.cut = cut])
         /\ UNCHANGED <<images, nextRow>> /\ (CallWorks \/ CallFails)
  BY FindBlobsSteps
<1> DEFINE s == [req[c] EXCEPT !.pc = "tags", !.rows = rows, !.cut = cut]
<1>2. s \in RequestState /\ AtHand(s)
  <2>1. req[c] \in RequestState /\ rows \in SUBSET (Paths \X Nat)
    BY RowsType DEF TypeInv, RequestsOK, RequestTypeOK
  <2> QED
    BY <2>1 DEF RequestState, PCs, AtHand
<1>3. RequestsOK'
  BY <1>1, <1>2, GoOn DEF TypeInv
<1> QED
  BY <1>1, <1>3, StoreUnread DEF TypeInv

\* the tags of one blob, as many as come
LEMMA ReadTagsSteps ==
    ASSUME TypeInv, NEW p \in Paths, NEW n \in 1..7, ReadTags(p, n)
    PROVE  LET tags == FirstTags(images[p].tags, n)
           IN  /\ Has(p) /\ tags \in Tags /\ tags # None
               /\ images' = images /\ nextRow' = nextRow /\ StoreTypeOK'
               /\ (CallWorks /\ tags = images[p].tags) \/ CallFails
<1>1. Has(p) /\ images[p].tags \in Tags
  BY BlobType DEF ReadTags, TypeInv
<1>2. FirstTags(images[p].tags, n) \in Tags /\ (n = 7 => FirstTags(images[p].tags, n) = images[p].tags)
  BY <1>1, FirstTagsType
<1> QED
  BY <1>1, <1>2, NoneAssumption, StoreUnread DEF ReadTags, TypeInv

LEMMA PanicType ==
    ASSUME TypeInv, NEW c \in Clients, NEW j, PanicOn(c, j)
    PROVE  TypeInv'
BY ReplyPlain, StoreUnchanged DEF TypeInv, PanicOn, Statuses

\* the query of a handler and its two early returns
LEMMA FindOrReplyType ==
    ASSUME TypeInv, NEW c \in Clients, req[c].op # None, NEW query,
           NEW s1 \in Statuses, NEW s2 \in Statuses,
           \/ FindBlobs(c, query)
           \/ FindsNone(query) /\ Answer(c, s1)
           \/ FindFails /\ Answer(c, s2)
    PROVE  TypeInv'
<1>1. CASE FindBlobs(c, query)
  BY <1>1, FindBlobsType
<1>2. CASE FindsNone(query) /\ Answer(c, s1)
  BY <1>2, ReplyPlain, StoreUnchanged DEF TypeInv, FindsNone
<1>3. CASE FindFails /\ Answer(c, s2)
  BY <1>3, ReplyPlain, StoreUnread DEF TypeInv, FindFails
<1> QED
  BY <1>1, <1>2, <1>3

\* fetching the tags of the rows into the loop over the blobs
LEMMA FetchToLoopType ==
    ASSUME TypeInv, NEW c \in Clients, req[c].op # None, NEW jobs \in Fetches(req[c].rows), FetchTags(c, jobs),
           Continue(c, [Fetched(c, jobs) EXCEPT !.pc = "each", !.todo = jobs])
    PROVE  TypeInv'
<1> DEFINE s == [Fetched(c, jobs) EXCEPT !.pc = "each", !.todo = jobs]
<1>0. req[c] \in RequestState
  BY DEF TypeInv, RequestsOK, RequestTypeOK
<1>1. Fetched(c, jobs) \in RequestState /\ jobs \in SUBSET Jobs /\ Fetched(c, jobs).op = req[c].op
  BY <1>0, FetchedType, FetchedFields DEF TypeInv
<1>2. s \in RequestState /\ AtHand(s)
  BY <1>1 DEF RequestState, PCs, AtHand
<1>3. RequestsOK'
  BY <1>2, GoOn DEF TypeInv
<1>4. StoreTypeOK'
  BY StoreUnread DEF TypeInv, FetchTags
<1> QED
  BY <1>3, <1>4 DEF TypeInv

\* writing the tags of the blob at hand and going on with the loop
LEMMA WriteInLoopType ==
    ASSUME TypeInv, NEW c \in Clients, req[c].op # None, NEW j \in req[c].todo,
           NEW tags \in Tags, NEW ok \in BOOLEAN, NEW failed \in BOOLEAN,
           NEW s \in RequestState, s.op # None,
           SetBlobTags(j.path, tags, ok), NextOrAnswer(c, req[c].todo \ {j}, failed, s)
    PROVE  TypeInv'
<1>1. j \in Jobs /\ j.path \in Paths /\ req[c].todo \ {j} \in SUBSET Jobs
  BY DEF TypeInv, RequestsOK, RequestTypeOK, RequestState, Jobs
<1>2. StoreTypeOK'
  BY <1>1, SetBlobTagsType DEF TypeInv
<1>3. RequestsOK'
  BY <1>1, GoOnOrReply DEF TypeInv
<1> QED
  BY <1>2, <1>3 DEF TypeInv

-----------------------------------------------------------------------------
(* Soft-deleting and restoring.                                            *)

LEMMA SoftDeleteCollectionType ==
    ASSUME TypeInv, NEW c \in Clients, SoftDeleteCollection(c)
    PROVE  TypeInv'
<1> USE DEF SoftDeleteCollection
<1>1. CASE Locate(c, "softDeleteCollection", CollectionBlobs(req[c].op, FALSE))
  BY <1>1, AtType, FindOrReplyType DEF Locate, Statuses, TypeInv
<1>2. CASE Fetch(c, "softDeleteCollection")
  BY <1>2, AtType, FetchToLoopType DEF Fetch, TypeInv
<1>3. ASSUME At(c, "softDeleteCollection", "each"), NEW j \in req[c].todo, PanicOn(c, j)
      PROVE  TypeInv'
  BY <1>3, PanicType
<1>4. ASSUME At(c, "softDeleteCollection", "each"), NEW j \in req[c].todo,
             SoftDeleteCollectionBlob(c, j)
      PROVE  TypeInv'
  <2>1. req[c] \in RequestState /\ req[c].op # None /\ j \in Jobs /\ req[c].failed \in BOOLEAN
    BY <1>4, AtType DEF TypeInv
  <2>2. Deleted(j.tags) \in Tags
    BY <2>1, NewTagsValuesType DEF Jobs
  <2>3. PICK ok \in BOOLEAN :
            /\ SetBlobTags(j.path, Deleted(j.tags), ok)
            /\ NextOrAnswer(c, req[c].todo \ {j}, req[c].failed \/ ~ok, req[c])
    BY <1>4 DEF SoftDeleteCollectionBlob
  <2>4. (req[c].failed \/ ~ok) \in BOOLEAN
    OBVIOUS
  <2> QED
    BY <2>1, <2>2, <2>3, <2>4, WriteInLoopType
<1> QED
  BY <1>1, <1>2, <1>3, <1>4

LEMMA RemainingType ==
    ASSUME TypeInv, NEW c \in Clients, Remaining(c)
    PROVE  TypeInv'
<1> DEFINE status == IF req[c].failed THEN "206" ELSE "200"
<1>1. status \in Statuses
  BY DEF Statuses
<1>2. RequestsOK'
  <2>1. PICK none \in BOOLEAN : AnswerWith(c, status, none)
    BY DEF Remaining
  <2> QED
    BY <1>1, <2>1, Reply DEF TypeInv
<1>3. StoreTypeOK'
  BY StoreUnread DEF TypeInv, Remaining
<1> QED
  BY <1>2, <1>3 DEF TypeInv

LEMMA SoftDeleteAlbumType ==
    ASSUME TypeInv, NEW c \in Clients, SoftDeleteAlbum(c)
    PROVE  TypeInv'
<1> USE DEF SoftDeleteAlbum
<1>1. CASE Locate(c, "softDeleteAlbum", AlbumBlobs(req[c].op, FALSE))
  BY <1>1, AtType, FindOrReplyType DEF Locate, Statuses, TypeInv
<1>2. CASE Fetch(c, "softDeleteAlbum")
  BY <1>2, AtType, FetchToLoopType DEF Fetch, TypeInv
<1>3. ASSUME At(c, "softDeleteAlbum", "each"), NEW j \in req[c].todo, PanicOn(c, j)
      PROVE  TypeInv'
  BY <1>3, PanicType
<1>4. ASSUME At(c, "softDeleteAlbum", "each"), NEW j \in req[c].todo, SoftDeleteAlbumBlob(c, j)
      PROVE  TypeInv'
  <2>1. req[c] \in RequestState /\ req[c].op # None /\ j \in Jobs /\ j.path \in Paths
    BY <1>4, AtType DEF TypeInv, Jobs
  <2>2. Deleted(j.tags) \in Tags
    BY <2>1, NewTagsValuesType DEF Jobs
  <2>3. PICK ok \in BOOLEAN :
            /\ SetBlobTags(j.path, Deleted(j.tags), ok)
            /\ Continue(c, [req[c] EXCEPT
                  !.pc = IF req[c].todo = {j} THEN "remaining" ELSE "each",
                  !.todo = @ \ {j}, !.failed = @ \/ ~ok])
    BY <1>4 DEF SoftDeleteAlbumBlob
  <2> DEFINE s == [req[c] EXCEPT
                  !.pc = IF req[c].todo = {j} THEN "remaining" ELSE "each",
                  !.todo = @ \ {j}, !.failed = @ \/ ~ok]
  <2>4. s \in RequestState /\ AtHand(s)
    <3>1. s \in RequestState /\ s.op = req[c].op /\ s.pc \in {"remaining", "each"}
      BY <2>1 DEF RequestState, PCs
    <3> QED
      BY <2>1, <3>1 DEF AtHand
  <2> QED
    BY <2>1, <2>2, <2>3, <2>4, GoOn, SetBlobTagsType DEF TypeInv
<1>5. CASE Remaining(c)
  BY <1>5, RemainingType
<1> QED
  BY <1>1, <1>2, <1>3, <1>4, <1>5

LEMMA RestoreBlobType ==
    ASSUME TypeInv, NEW c \in Clients, NEW kind, At(c, kind, "each"), NEW j \in req[c].todo,
           NEW restored \in Tags, RestoreBlob(c, j, restored)
    PROVE  TypeInv'
<1>1. req[c] \in RequestState /\ req[c].op # None /\ j \in Jobs /\ req[c].failed \in BOOLEAN
  BY AtType DEF TypeInv
<1> DEFINE s == [req[c] EXCEPT !.seen = @ \cup {j.tags.album}]
<1>2. s \in RequestState /\ s.op # None
  <2>1. j.tags.album \in Albums \cup {None}
    BY <1>1 DEF Jobs, Tags
  <2> QED
    BY <1>1, <2>1 DEF RequestState
<1>3. PICK ok \in BOOLEAN :
          /\ SetBlobTags(j.path, restored, ok)
          /\ NextOrAnswer(c, req[c].todo \ {j}, req[c].failed \/ ~ok, s)
  BY DEF RestoreBlob
<1>4. (req[c].failed \/ ~ok) \in BOOLEAN
  OBVIOUS
<1> QED
  BY <1>1, <1>2, <1>3, <1>4, WriteInLoopType

LEMMA RestoreAlbumType ==
    ASSUME TypeInv, NEW c \in Clients, RestoreAlbum(c)
    PROVE  TypeInv'
<1> USE DEF RestoreAlbum
<1>1. CASE Locate(c, "restoreAlbum", AlbumBlobs(req[c].op, TRUE))
  BY <1>1, AtType, FindOrReplyType DEF Locate, Statuses, TypeInv
<1>2. CASE Fetch(c, "restoreAlbum")
  BY <1>2, AtType, FetchToLoopType DEF Fetch, TypeInv
<1>3. ASSUME At(c, "restoreAlbum", "each"), NEW j \in req[c].todo, PanicOn(c, j)
      PROVE  TypeInv'
  BY <1>3, PanicType
<1>4. ASSUME At(c, "restoreAlbum", "each"), NEW j \in req[c].todo,
             RestoreBlob(c, j, RestoredInAlbum(j.tags, req[c].seen))
      PROVE  TypeInv'
  <2>1. j \in Jobs
    BY <1>4, AtType DEF TypeInv
  <2>2. RestoredInAlbum(j.tags, req[c].seen) \in Tags
    BY <2>1, NewTagsValuesType DEF Jobs
  <2> QED
    BY <1>4, <2>2, RestoreBlobType
<1> QED
  BY <1>1, <1>2, <1>3, <1>4

LEMMA RestoreCollectionType ==
    ASSUME TypeInv, NEW c \in Clients, RestoreCollection(c)
    PROVE  TypeInv'
<1> USE DEF RestoreCollection
<1>1. CASE Locate(c, "restoreCollection", CollectionBlobs(req[c].op, TRUE))
  BY <1>1, AtType, FindOrReplyType DEF Locate, Statuses, TypeInv
<1>2. CASE Fetch(c, "restoreCollection")
  BY <1>2, AtType, FetchToLoopType DEF Fetch, TypeInv
<1>3. ASSUME At(c, "restoreCollection", "each"), NEW j \in req[c].todo, PanicOn(c, j)
      PROVE  TypeInv'
  BY <1>3, PanicType
<1>4. ASSUME At(c, "restoreCollection", "each"), NEW j \in req[c].todo,
             RestoreBlob(c, j, RestoredInCollection(j.tags, req[c].seen))
      PROVE  TypeInv'
  <2>1. j \in Jobs
    BY <1>4, AtType DEF TypeInv
  <2>2. RestoredInCollection(j.tags, req[c].seen) \in Tags
    BY <2>1, NewTagsValuesType DEF Jobs
  <2> QED
    BY <1>4, <2>2, RestoreBlobType
<1> QED
  BY <1>1, <1>2, <1>3, <1>4

-----------------------------------------------------------------------------
(* Renaming.                                                               *)

\* what is known of the request at a point of a rename
LEMMA RenameAt ==
    ASSUME TypeInv, NEW c \in Clients, NEW kind \in RenameKinds, NEW pc,
           At(c, kind, pc)
    PROVE  /\ req[c] \in RequestState /\ req[c].pc = pc
           /\ req[c].op \in Renames /\ req[c].op # None
           /\ req[c].todo \in SUBSET Jobs /\ req[c].failed \in BOOLEAN
           /\ pc \in {"copyTags", "save", "retag", "delete"} =>
                /\ req[c].job \in Jobs /\ req[c].job.path \in Paths
                /\ NewPath(req[c].op, req[c].job.path) \in Paths
           /\ pc = "save" => req[c].photo \in Photos /\ req[c].tags \in Tags
<1>1. req[c] \in RequestState /\ req[c].pc = pc /\ AtHand(req[c])
  BY AtType DEF TypeInv
<1>2. req[c].op \in Renames /\ req[c].op # None
  BY AtType DEF TypeInv, Renames, RenameKinds
<1>3. ASSUME pc \in {"copyTags", "save", "retag", "delete"}
      PROVE  /\ req[c].job \in Jobs /\ req[c].job.path \in Paths
             /\ NewPath(req[c].op, req[c].job.path) \in Paths
  <2>1. req[c].job \in Jobs /\ req[c].job.path \in Paths
    BY <1>1, <1>3 DEF AtHand, RequestState, Jobs
  <2> QED
    BY <1>2, <2>1, NewPathType
<1>4. pc = "save" => req[c].photo \in Photos /\ req[c].tags \in Tags
  BY <1>1 DEF AtHand, RequestState
<1> QED
  BY <1>1, <1>2, <1>3, <1>4 DEF RequestState

LEMMA RenameNextType ==
    ASSUME TypeInv, NEW c \in Clients, req[c].op # None, NEW failed \in BOOLEAN,
           RenameNext(c, failed)
    PROVE  RequestsOK'
<1> DEFINE s == [req[c] EXCEPT !.job = None, !.photo = None, !.tags = None]
<1>1. req[c] \in RequestState
  BY DEF TypeInv, RequestsOK, RequestTypeOK
<1>2. s \in RequestState /\ s.op # None /\ req[c].todo \in SUBSET Jobs
  BY <1>1 DEF RequestState
<1>3. (req[c].failed \/ failed) \in BOOLEAN
  BY <1>1 DEF RequestState
<1> QED
  BY <1>2, <1>3, GoOnOrReply DEF TypeInv, RenameNext

LEMMA RenameReadType ==
    ASSUME TypeInv, NEW c \in Clients, NEW kind \in RenameKinds,
           RenameRead(c, kind)
    PROVE  TypeInv'
<1>1. /\ At(c, kind, "each") /\ req[c] \in RequestState /\ req[c].op # None
      /\ req[c].todo \in SUBSET Jobs
  BY RenameAt DEF RenameRead
<1>2. PICK j \in req[c].todo, ok \in BOOLEAN :
          /\ ReadBlob(j.path, ok)
          /\ IF ok
             THEN Continue(c, [req[c] EXCEPT !.pc = "copyTags", !.todo = @ \ {j},
                                             !.job = j, !.photo = images[j.path].photo])
             ELSE NextOrAnswer(c, req[c].todo \ {j}, TRUE, req[c])
  BY DEF RenameRead
<1>3. j \in Jobs /\ j.path \in Paths
  BY <1>1 DEF Jobs
<1>4. CASE ok
  <2> DEFINE s == [req[c] EXCEPT !.pc = "copyTags", !.todo = @ \ {j},
                                 !.job = j, !.photo = images[j.path].photo]
  <2>1. images[j.path].photo \in Photos
    BY <1>2, <1>3, <1>4, BlobType DEF ReadBlob, TypeInv
  <2>2. j # None /\ images[j.path].photo # None
    BY <1>3, <2>1, NoneAssumption, RequestAssumption
  <2>3. s \in RequestState /\ AtHand(s)
    BY <1>1, <1>3, <2>1, <2>2 DEF RequestState, PCs, AtHand
  <2> QED
    BY <1>2, <1>4, <2>3, GoOn, StoreUnread DEF TypeInv, ReadBlob
<1>5. CASE ~ok
  <2>1. RequestsOK'
    BY <1>1, <1>2, <1>5, GoOnOrReply DEF TypeInv
  <2> QED
    BY <1>2, <2>1, StoreUnread DEF TypeInv, ReadBlob
<1> QED
  BY <1>4, <1>5

LEMMA RenameReadTagsType ==
    ASSUME TypeInv, NEW c \in Clients, NEW kind \in RenameKinds,
           RenameReadTags(c, kind)
    PROVE  TypeInv'
<1> DEFINE p == req[c].job.path
<1>1. /\ At(c, kind, "copyTags") /\ req[c] \in RequestState /\ req[c].op # None
      /\ req[c].job \in Jobs /\ p \in Paths
  BY RenameAt DEF RenameReadTags
<1>2. PICK t \in Tags :
          /\ Continue(c, [req[c] EXCEPT !.pc = "save", !.tags = t])
          /\ StoreTypeOK'
  <2>1. ASSUME NEW n \in 1..7, ReadTags(p, n)
        PROVE  FirstTags(images[p].tags, n) \in Tags /\ StoreTypeOK'
    BY <1>1, <2>1, ReadTagsSteps
  <2>2. ReadBlob(p, FALSE) => StoreTypeOK'
    BY StoreUnread DEF TypeInv, ReadBlob
  <2> QED
    BY <2>1, <2>2, EmptyTagsType DEF RenameReadTags
<1> DEFINE s == [req[c] EXCEPT !.pc = "save", !.tags = t]
<1>3. t \in Tags
  OBVIOUS
<1>4. req[c].photo # None /\ req[c].job # None /\ t # None
  BY <1>1, <1>3, NoneAssumption, AtType DEF AtHand, TypeInv
<1>5. s \in RequestState /\ AtHand(s)
  BY <1>1, <1>3, <1>4 DEF RequestState, PCs, AtHand
<1> QED
  BY <1>2, <1>5, GoOn DEF TypeInv

LEMMA RenameSaveType ==
    ASSUME TypeInv, NEW c \in Clients, NEW kind \in RenameKinds,
           RenameSave(c, kind)
    PROVE  TypeInv'
<1> DEFINE p == NewPath(req[c].op, req[c].job.path)
<1>1. /\ At(c, kind, "save") /\ req[c] \in RequestState /\ req[c].op # None
      /\ req[c].job \in Jobs /\ p \in Paths /\ req[c].photo \in Photos /\ req[c].tags \in Tags
  BY RenameAt DEF RenameSave
<1>2. PICK ok \in BOOLEAN :
          /\ SaveBlob(p, req[c].photo, req[c].tags, ok)
          /\ IF ok
             THEN Continue(c, [req[c] EXCEPT !.pc = "retag", !.photo = None, !.tags = None])
             ELSE RenameNext(c, TRUE)
  BY DEF RenameSave
<1>3. StoreTypeOK'
  BY <1>1, <1>2, SaveBlobType DEF TypeInv
<1> DEFINE s == [req[c] EXCEPT !.pc = "retag", !.photo = None, !.tags = None]
<1>4. s \in RequestState /\ AtHand(s)
  BY <1>1, RequestAssumption DEF RequestState, PCs, AtHand
<1>5. RequestsOK'
  BY <1>1, <1>2, <1>4, GoOn, RenameNextType DEF TypeInv
<1> QED
  BY <1>3, <1>5 DEF TypeInv

LEMMA RenameRetagType ==
    ASSUME TypeInv, NEW c \in Clients, NEW kind \in RenameKinds,
           RenameRetag(c, kind)
    PROVE  TypeInv'
<1> DEFINE p == NewPath(req[c].op, req[c].job.path)
<1>1. /\ At(c, kind, "retag") /\ req[c] \in RequestState /\ req[c].op # None
      /\ req[c].op \in Renames /\ req[c].job \in Jobs /\ p \in Paths
  BY RenameAt DEF RenameRetag
<1>2. PICK ok \in BOOLEAN :
          /\ SetBlobTags(p, NewTags(req[c].op, req[c].job), ok)
          /\ IF ok THEN Continue(c, [req[c] EXCEPT !.pc = "delete"])
                   ELSE RenameNext(c, TRUE)
  BY DEF RenameRetag
<1>3. StoreTypeOK'
  BY <1>1, <1>2, NewTagsType, SetBlobTagsType DEF TypeInv
<1> DEFINE s == [req[c] EXCEPT !.pc = "delete"]
<1>4. s \in RequestState /\ AtHand(s)
  BY <1>1, RequestAssumption DEF RequestState, PCs, AtHand
<1>5. RequestsOK'
  BY <1>1, <1>2, <1>4, GoOn, RenameNextType DEF TypeInv
<1> QED
  BY <1>3, <1>5 DEF TypeInv

LEMMA RenameDeleteType ==
    ASSUME TypeInv, NEW c \in Clients, NEW kind \in RenameKinds,
           RenameDelete(c, kind)
    PROVE  TypeInv'
<1>1. req[c].op # None /\ req[c].job.path \in Paths
  BY RenameAt DEF RenameDelete
<1>2. PICK ok \in BOOLEAN : DeleteBlob(req[c].job.path, ok) /\ RenameNext(c, ~ok)
  BY DEF RenameDelete
<1>3. StoreTypeOK'
  BY <1>1, <1>2, DeleteBlobType DEF TypeInv
<1>4. RequestsOK'
  BY <1>1, <1>2, RenameNextType
<1> QED
  BY <1>3, <1>4 DEF TypeInv

LEMMA RenameType ==
    ASSUME TypeInv, NEW c \in Clients, NEW kind \in RenameKinds,
           RenameSteps(c, kind)
    PROVE  TypeInv'
<1>1. CASE RenameFind(c, kind)
  BY <1>1, AtType, FindOrReplyType DEF RenameFind, Statuses, TypeInv
<1>2. CASE RenameFetch(c, kind)
  BY <1>2, AtType, FetchToLoopType DEF RenameFetch, TypeInv
<1>3. CASE RenameRead(c, kind)
  BY <1>3, RenameReadType
<1>4. CASE RenameReadTags(c, kind)
  BY <1>4, RenameReadTagsType
<1>5. CASE RenameSave(c, kind)
  BY <1>5, RenameSaveType
<1>6. CASE RenameRetag(c, kind)
  BY <1>6, RenameRetagType
<1>7. CASE RenameDelete(c, kind)
  BY <1>7, RenameDeleteType
<1> QED
  BY <1>1, <1>2, <1>3, <1>4, <1>5, <1>6, <1>7 DEF RenameSteps

-----------------------------------------------------------------------------
(* Choosing thumbnails.                                                    *)

LEMMA ThumbnailAt ==
    ASSUME TypeInv, NEW c \in Clients, NEW kind \in ThumbnailKinds, NEW pc, At(c, kind, pc)
    PROVE  /\ req[c] \in RequestState /\ req[c].op \in Requests /\ req[c].op # None
           /\ req[c].op.kind \in ThumbnailKinds
           /\ req[c].todo \in SUBSET Jobs
           /\ pc \in {"unmark", "get", "set"} => req[c].op.image \in Paths
           /\ pc = "set" => req[c].tags \in Tags
<1>1. /\ req[c] \in RequestState /\ AtHand(req[c]) /\ req[c].op \in Requests /\ req[c].op # None
      /\ req[c].op.kind \in ThumbnailKinds /\ req[c].todo \in SUBSET Jobs /\ req[c].pc = pc
  BY AtType DEF TypeInv
<1>2. pc \in {"unmark", "get", "set"} => req[c].op.image \in Paths
  BY <1>1, RequestAssumption DEF AtHand, ThumbnailKinds, Chooses, RequestType
<1>3. pc = "set" => req[c].tags \in Tags
  BY <1>1 DEF AtHand, ThumbnailKinds, RequestState
<1> QED
  BY <1>1, <1>2, <1>3

LEMMA ThumbnailFindType ==
    ASSUME TypeInv, NEW c \in Clients, NEW kind \in ThumbnailKinds, NEW query,
           ThumbnailFind(c, kind, query)
    PROVE  TypeInv'
<1>1. req[c] \in RequestState /\ req[c].op # None
  BY ThumbnailAt DEF ThumbnailFind
<1>2. CASE FindBlobs(c, query)
  BY <1>1, <1>2, FindBlobsType
<1>3. CASE /\ FindsNone(query) \/ FindFails
           /\ IF Chooses(req[c].op) THEN Continue(c, [req[c] EXCEPT !.pc = "get"])
                                    ELSE Answer(c, "404")
  <2>1. StoreTypeOK'
    BY <1>3, StoreUnread, StoreUnchanged DEF TypeInv, FindsNone, FindFails
  <2>2. CASE Chooses(req[c].op)
    <3>1. [req[c] EXCEPT !.pc = "get"] \in RequestState /\ AtHand([req[c] EXCEPT !.pc = "get"])
      BY <1>1, <2>2 DEF RequestState, PCs, AtHand
    <3> QED
      BY <1>3, <2>1, <2>2, <3>1, GoOn DEF TypeInv
  <2>3. CASE ~Chooses(req[c].op)
    BY <1>3, <2>1, <2>3, ReplyPlain DEF TypeInv, Statuses
  <2> QED
    BY <2>2, <2>3
<1> QED
  BY <1>2, <1>3 DEF ThumbnailFind

LEMMA ThumbnailFetchType ==
    ASSUME TypeInv, NEW c \in Clients, NEW kind \in ThumbnailKinds, ThumbnailFetch(c, kind)
    PROVE  TypeInv'
<1>1. req[c] \in RequestState /\ req[c].op # None
  BY ThumbnailAt DEF ThumbnailFetch
<1> DEFINE others(jobs) == {j \in jobs : j.path # req[c].op.image}
           s(jobs)      == IF ~Chooses(req[c].op)
                           THEN [Fetched(c, jobs) EXCEPT !.pc = "rotate", !.todo = jobs]
                           ELSE IF others(jobs) = {} THEN [Fetched(c, jobs) EXCEPT !.pc = "get"]
                           ELSE [Fetched(c, jobs) EXCEPT !.pc = "unmark", !.todo = others(jobs)]
<1>2. PICK jobs \in Fetches(req[c].rows) : FetchTags(c, jobs) /\ Continue(c, s(jobs))
  BY DEF ThumbnailFetch
<1> DEFINE fetched == Fetched(c, jobs)
<1>3. jobs \in SUBSET Jobs /\ others(jobs) \in SUBSET Jobs
  BY FetchedType DEF TypeInv
<1>4. fetched \in RequestState /\ fetched.op # None /\ fetched.op = req[c].op
  BY <1>1, FetchedType, FetchedFields DEF TypeInv
<1>5. CASE ~Chooses(req[c].op)
  <2> DEFINE t == [fetched EXCEPT !.pc = "rotate", !.todo = jobs]
  <2>1. t \in RequestState /\ AtHand(t)
    <3> HIDE DEF fetched
    <3> QED
      BY <1>3, <1>4 DEF RequestState, PCs, AtHand
  <2> QED
    BY <1>2, <1>5, <2>1, GoOn, StoreUnread DEF TypeInv, FetchTags
<1>6. CASE Chooses(req[c].op) /\ others(jobs) = {}
  <2> DEFINE t == [fetched EXCEPT !.pc = "get"]
  <2>1. t \in RequestState /\ AtHand(t)
    <3> HIDE DEF fetched
    <3> QED
      BY <1>4, <1>6 DEF RequestState, PCs, AtHand
  <2> QED
    BY <1>2, <1>6, <2>1, GoOn, StoreUnread DEF TypeInv, FetchTags
<1>7. CASE Chooses(req[c].op) /\ others(jobs) # {}
  <2> DEFINE t == [fetched EXCEPT !.pc = "unmark", !.todo = others(jobs)]
  <2>1. t \in RequestState /\ AtHand(t)
    <3> HIDE DEF fetched, others
    <3> QED
      BY <1>3, <1>4, <1>7 DEF RequestState, PCs, AtHand
  <2> QED
    BY <1>2, <1>7, <2>1, GoOn, StoreUnread DEF TypeInv, FetchTags
<1> QED
  BY <1>5, <1>6, <1>7

\* the two ways to move a mark
LEMMA ThumbnailClearType ==
    ASSUME TypeInv, NEW c \in Clients, NEW kind \in ThumbnailKinds,
           ThumbnailClear(c, kind)
    PROVE  TypeInv'
<1>1. /\ req[c] \in RequestState /\ req[c].op \in Requests /\ req[c].op # None
      /\ req[c].op.kind \in ThumbnailKinds /\ At(c, kind, "unmark")
      /\ req[c].todo \in SUBSET Jobs
  BY ThumbnailAt DEF ThumbnailClear
<1> DEFINE s(j) == [req[c] EXCEPT !.pc = IF req[c].todo = {j} THEN "get" ELSE "unmark",
                                  !.todo = @ \ {j}]
<1>2. PICK j \in req[c].todo :
          \/ PanicOn(c, j)
          \/ /\ Continue(c, s(j))
             /\ \E ok \in BOOLEAN : \/ SetBlobTags(j.path, MarkCollection(j.tags, FALSE), ok)
                                    \/ SetBlobTags(j.path, MarkAlbum(j.tags, FALSE), ok)
  BY DEF ThumbnailClear, Marked
<1>3. CASE PanicOn(c, j)
  BY <1>3, PanicType
<1>4. ASSUME Continue(c, s(j)),
             NEW ok \in BOOLEAN, \/ SetBlobTags(j.path, MarkCollection(j.tags, FALSE), ok)
                                 \/ SetBlobTags(j.path, MarkAlbum(j.tags, FALSE), ok)
      PROVE  TypeInv'
  <2>1. j \in Jobs /\ j.path \in Paths /\ j.tags \in Tags
    BY <1>1 DEF Jobs
  <2>2. StoreTypeOK'
    BY <1>4, <2>1, NewTagsValuesType, SetBlobTagsType DEF TypeInv
  <2>3. s(j) \in RequestState /\ AtHand(s(j))
    <3>1. Chooses(req[c].op)
      BY <1>1, AtType DEF AtHand, TypeInv
    <3> QED
      BY <1>1, <3>1, RequestAssumption DEF RequestState, PCs, AtHand
  <2> QED
    BY <1>4, <2>2, <2>3, GoOn DEF TypeInv
<1> QED
  BY <1>2, <1>3, <1>4

LEMMA ThumbnailGetType ==
    ASSUME TypeInv, NEW c \in Clients, NEW kind \in ThumbnailKinds, ThumbnailGet(c, kind)
    PROVE  TypeInv'
<1> DEFINE p       == req[c].op.image
           tags(n) == FirstTags(images[p].tags, n)
           s(n)    == [req[c] EXCEPT !.pc = "set", !.tags = tags(n)]
<1>1. /\ At(c, kind, "get") /\ req[c] \in RequestState /\ req[c].op # None /\ p \in Paths
  BY ThumbnailAt DEF ThumbnailGet
<1>2. ASSUME NEW n \in 1..7, ReadTags(p, n), Continue(c, s(n))
      PROVE  TypeInv'
  <2>1. tags(n) \in Tags /\ tags(n) # None /\ StoreTypeOK'
    BY <1>1, <1>2, ReadTagsSteps
  <2> HIDE DEF tags
  <2>2. Chooses(req[c].op)
    BY <1>1, AtType DEF AtHand, TypeInv
  <2>3. s(n) \in RequestState /\ AtHand(s(n))
    BY <1>1, <2>1, <2>2 DEF RequestState, PCs, AtHand
  <2> QED
    BY <1>2, <2>1, <2>3, GoOn DEF TypeInv
<1>3. CASE ReadBlob(p, FALSE) /\ Answer(c, "404")
  BY <1>3, StoreUnread, ReplyPlain DEF TypeInv, ReadBlob, Statuses
<1> QED
  BY <1>2, <1>3 DEF ThumbnailGet

LEMMA ThumbnailSetType ==
    ASSUME TypeInv, NEW c \in Clients, NEW kind \in ThumbnailKinds,
           ThumbnailSet(c, kind)
    PROVE  TypeInv'
<1>1. req[c].op \in Requests /\ req[c].op.image \in Paths /\ req[c].tags \in Tags
  BY ThumbnailAt DEF ThumbnailSet
<1>2. PICK ok \in BOOLEAN, tags \in {MarkCollection(req[c].tags, TRUE), MarkAlbum(req[c].tags, TRUE)} :
          /\ SetBlobTags(req[c].op.image, Rotated(tags, req[c].op), ok)
          /\ Answer(c, IF ok THEN "200" ELSE "500")
  BY DEF ThumbnailSet, Marked
<1>3. Rotated(tags, req[c].op) \in Tags
  <2>1. tags \in Tags
    BY <1>1, NewTagsValuesType
  <2> QED
    BY <1>1, <2>1, NewTagsValuesType
<1>4. StoreTypeOK'
  BY <1>1, <1>2, <1>3, SetBlobTagsType DEF TypeInv
<1>5. RequestsOK'
  BY <1>2, ReplyPlain DEF TypeInv, Statuses
<1> QED
  BY <1>4, <1>5 DEF TypeInv

LEMMA ThumbnailRotateType ==
    ASSUME TypeInv, NEW c \in Clients, NEW kind \in ThumbnailKinds, ThumbnailRotate(c, kind)
    PROVE  TypeInv'
<1>1. req[c].op \in Requests /\ req[c].todo \in SUBSET Jobs
  BY ThumbnailAt DEF ThumbnailRotate
<1>2. PICK j \in req[c].todo :
          \/ PanicOn(c, j)
          \/ \E ok \in BOOLEAN : /\ SetBlobTags(j.path, Rotated(j.tags, req[c].op), ok)
                                 /\ Answer(c, IF ok THEN "200" ELSE "500")
  BY DEF ThumbnailRotate
<1>3. CASE PanicOn(c, j)
  BY <1>3, PanicType
<1>4. ASSUME NEW ok \in BOOLEAN, SetBlobTags(j.path, Rotated(j.tags, req[c].op), ok),
             Answer(c, IF ok THEN "200" ELSE "500")
      PROVE  TypeInv'
  <2>1. j.path \in Paths /\ Rotated(j.tags, req[c].op) \in Tags
    BY <1>1, NewTagsValuesType DEF Jobs
  <2> QED
    BY <1>4, <2>1, SetBlobTagsType, ReplyPlain DEF TypeInv, Statuses
<1> QED
  BY <1>2, <1>3, <1>4

LEMMA ThumbnailType ==
    ASSUME TypeInv, NEW c \in Clients, ThumbnailCollection(c) \/ ThumbnailAlbum(c)
    PROVE  TypeInv'
<1>1. CASE ThumbnailCollection(c)
  BY <1>1, ThumbnailFindType, ThumbnailFetchType, ThumbnailClearType, ThumbnailGetType,
     ThumbnailSetType, ThumbnailRotateType DEF ThumbnailCollection, ThumbnailKinds
<1>2. CASE ThumbnailAlbum(c)
  BY <1>2, ThumbnailFindType, ThumbnailFetchType, ThumbnailClearType, ThumbnailGetType,
     ThumbnailSetType, ThumbnailRotateType DEF ThumbnailAlbum, ThumbnailKinds
<1> QED
  BY <1>1, <1>2

-----------------------------------------------------------------------------
(* Editing tags.                                                           *)

LEMMA UpdateAt ==
    ASSUME TypeInv, NEW c \in Clients, NEW pc, At(c, "update", pc)
    PROVE  /\ req[c] \in RequestState /\ req[c].op \in Requests /\ req[c].op # None
           /\ req[c].op.kind = "update"
           /\ req[c].op.image \in Paths /\ BodyTags(req[c].op) \in Tags
           /\ pc = "clear" => req[c].job \in Jobs
BY AtType, BodyTagsType DEF TypeInv, AtHand

LEMMA UpdateGetType ==
    ASSUME TypeInv, NEW c \in Clients, UpdateGet(c)
    PROVE  TypeInv'
<1> DEFINE p       == req[c].op.image
           tags(n) == FirstTags(images[p].tags, n)
           s(n)    == [req[c] EXCEPT !.pc = "find", !.tags = tags(n)]
<1>1. /\ req[c] \in RequestState /\ req[c].op # None /\ req[c].op.kind = "update" /\ p \in Paths
  BY UpdateAt DEF UpdateGet
<1>2. ASSUME NEW n \in 1..7, ReadTags(p, n), Answer(c, "304") \/ Continue(c, s(n))
      PROVE  TypeInv'
  <2>1. tags(n) \in Tags /\ tags(n) # None /\ StoreTypeOK'
    BY <1>1, <1>2, ReadTagsSteps
  <2> HIDE DEF tags
  <2>2. s(n) \in RequestState /\ AtHand(s(n))
    BY <1>1, <2>1 DEF RequestState, PCs, AtHand, ThumbnailKinds
  <2> QED
    BY <1>2, <2>1, <2>2, GoOn, ReplyPlain DEF TypeInv, Statuses
<1>3. CASE ReadBlob(p, FALSE) /\ Answer(c, "500")
  BY <1>3, StoreUnread, ReplyPlain DEF TypeInv, ReadBlob, Statuses
<1> QED
  BY <1>2, <1>3 DEF UpdateGet

LEMMA UpdateFindType ==
    ASSUME TypeInv, NEW c \in Clients, UpdateFind(c)
    PROVE  TypeInv'
<1> DEFINE query == CollectionImageQuery(req[c].tags.collection)
           s     == [req[c] EXCEPT !.pc = "set", !.tags = None]
<1>1. /\ req[c] \in RequestState /\ req[c].op # None /\ req[c].op.kind = "update"
  BY UpdateAt DEF UpdateFind
<1>2. CASE FindBlobs(c, query)
  BY <1>1, <1>2, FindBlobsType
<1>3. CASE /\ UNCHANGED storeVars \/ FindsNone(query) \/ FindFails
           /\ Continue(c, s)
  <2>1. StoreTypeOK'
    BY <1>3, StoreUnread, StoreUnchanged DEF TypeInv, FindsNone, FindFails
  <2>2. s \in RequestState /\ AtHand(s)
    BY <1>1 DEF RequestState, PCs, AtHand, ThumbnailKinds
  <2> QED
    BY <1>3, <2>1, <2>2, GoOn DEF TypeInv
<1> QED
  BY <1>2, <1>3 DEF UpdateFind

LEMMA UpdateFetchType ==
    ASSUME TypeInv, NEW c \in Clients, UpdateFetch(c)
    PROVE  TypeInv'
<1> DEFINE s(jobs, replaced, j) == [Fetched(c, jobs) EXCEPT !.tags = None,
                                        !.pc = IF replaced THEN "clear" ELSE "set",
                                        !.job = IF replaced THEN j ELSE None]
<1>1. /\ req[c] \in RequestState /\ req[c].op # None /\ req[c].op.kind = "update"
  BY UpdateAt DEF UpdateFetch
<1>2. PICK jobs \in Fetches(req[c].rows) :
          /\ FetchTags(c, jobs)
          /\ \E j \in jobs :
               LET replaced == BodyTags(req[c].op).collectionImage = TRUE
                               /\ j.tags.name # req[c].op.image
               IN  Continue(c, s(jobs, replaced, j))
  BY DEF UpdateFetch
<1>3. PICK j \in jobs, replaced \in BOOLEAN : Continue(c, s(jobs, replaced, j))
  BY <1>2
<1>4. /\ j \in Jobs /\ j # None
      /\ Fetched(c, jobs) \in RequestState /\ Fetched(c, jobs).op = req[c].op
  BY <1>1, FetchedType, FetchedFields, RequestAssumption DEF TypeInv
<1>5. s(jobs, replaced, j) \in RequestState /\ AtHand(s(jobs, replaced, j))
  <2>1. CASE replaced
    BY <1>1, <1>4, <2>1 DEF RequestState, PCs, AtHand, ThumbnailKinds
  <2>2. CASE ~replaced
    BY <1>1, <1>4, <2>2 DEF RequestState, PCs, AtHand, ThumbnailKinds
  <2> QED
    BY <2>1, <2>2
<1> QED
  BY <1>2, <1>3, <1>5, GoOn, StoreUnread DEF TypeInv, FetchTags

LEMMA UpdateClearType ==
    ASSUME TypeInv, NEW c \in Clients, UpdateClear(c)
    PROVE  TypeInv'
<1> DEFINE j == req[c].job
           s == [req[c] EXCEPT !.pc = "set", !.job = None]
<1>1. /\ req[c] \in RequestState /\ req[c].op # None /\ req[c].op.kind = "update" /\ j \in Jobs
  BY UpdateAt DEF UpdateClear
<1>2. CASE PanicOn(c, j)
  BY <1>2, PanicType
<1>3. ASSUME NEW ok \in BOOLEAN, SetBlobTags(j.path, MarkCollection(j.tags, FALSE), ok),
             IF ok THEN Continue(c, s) ELSE Answer(c, "500")
      PROVE  TypeInv'
  <2>1. j.path \in Paths /\ MarkCollection(j.tags, FALSE) \in Tags
    BY <1>1, NewTagsValuesType DEF Jobs
  <2>2. StoreTypeOK'
    BY <1>3, <2>1, SetBlobTagsType DEF TypeInv
  <2>3. s \in RequestState /\ AtHand(s)
    BY <1>1 DEF RequestState, PCs, AtHand, ThumbnailKinds
  <2> QED
    BY <1>3, <2>2, <2>3, GoOn, ReplyPlain DEF TypeInv, Statuses
<1> QED
  BY <1>2, <1>3 DEF UpdateClear

LEMMA UpdateSetType ==
    ASSUME TypeInv, NEW c \in Clients, UpdateSet(c)
    PROVE  TypeInv'
<1>1. req[c].op.image \in Paths /\ BodyTags(req[c].op) \in Tags
  BY UpdateAt DEF UpdateSet
<1> QED
  BY <1>1, SetBlobTagsType, ReplyPlain DEF TypeInv, UpdateSet, Statuses

LEMMA UpdateType ==
    ASSUME TypeInv, NEW c \in Clients, Update(c)
    PROVE  TypeInv'
BY UpdateGetType, UpdateFindType, UpdateFetchType, UpdateClearType, UpdateSetType DEF Update

-----------------------------------------------------------------------------
(* Loading pages.                                                          *)

LEMMA BrowseFindType ==
    ASSUME TypeInv, NEW c \in Clients, NEW kind \in BrowseKinds, NEW query,
           BrowseFind(c, kind, query)
    PROVE  TypeInv'
BY AtType, FindOrReplyType DEF BrowseFind, Statuses, TypeInv

LEMMA BrowseFetchType ==
    ASSUME TypeInv, NEW c \in Clients, NEW kind \in BrowseKinds,
           BrowseFetch(c, kind)
    PROVE  TypeInv'
<1>1. req[c] \in RequestState /\ req[c].op # None
  BY AtType DEF BrowseFetch, TypeInv
<1>2. PICK jobs \in Fetches(req[c].rows) :
          /\ FetchTags(c, jobs)
          /\ \E extras \in SUBSET jobs : NextOrAnswer(c, extras, FALSE, Fetched(c, jobs))
  BY DEF BrowseFetch, Extras
<1>3. Fetched(c, jobs) \in RequestState /\ Fetched(c, jobs).op # None
  BY <1>1, FetchedType, FetchedFields DEF TypeInv
<1>4. jobs \in SUBSET Jobs
  BY FetchedType DEF TypeInv
<1>5. RequestsOK'
  BY <1>2, <1>3, <1>4, GoOnOrReply DEF TypeInv
<1> QED
  BY <1>2, <1>5, StoreUnread DEF TypeInv, FetchTags

LEMMA BrowseClearType ==
    ASSUME TypeInv, NEW c \in Clients, NEW kind \in BrowseKinds,
           BrowseClear(c, kind)
    PROVE  TypeInv'
<1>1. req[c] \in RequestState /\ req[c].op # None /\ req[c].todo \in SUBSET Jobs
  BY AtType DEF BrowseClear, TypeInv
<1>2. PICK j \in req[c].todo :
          \/ PanicOn(c, j)
          \/ \E ok \in BOOLEAN, tags \in {CollectionCleared(j.tags), AlbumCleared(j.tags)} :
               /\ SetBlobTags(j.path, tags, ok)
               /\ NextOrAnswer(c, req[c].todo \ {j}, FALSE, req[c])
  BY DEF BrowseClear, Cleared
<1>3. CASE PanicOn(c, j)
  BY <1>3, PanicType
<1>4. ASSUME NEW ok \in BOOLEAN, NEW tags \in {CollectionCleared(j.tags), AlbumCleared(j.tags)},
             SetBlobTags(j.path, tags, ok), NextOrAnswer(c, req[c].todo \ {j}, FALSE, req[c])
      PROVE  TypeInv'
  <2>1. tags \in Tags
    BY <1>1, NewTagsValuesType DEF Jobs
  <2> QED
    BY <1>1, <1>4, <2>1, WriteInLoopType
<1> QED
  BY <1>2, <1>3, <1>4

LEMMA BrowseType ==
    ASSUME TypeInv, NEW c \in Clients, BrowseCollections(c) \/ BrowseAlbums(c)
    PROVE  TypeInv'
<1>1. CASE \E kind \in BrowseKinds : NoTagList(c, kind)
  BY <1>1, ReplyPlain, StoreUnread DEF NoTagList, FindFails, TypeInv, Statuses
<1> QED
  BY <1>1, BrowseFindType, BrowseFetchType, BrowseClearType
     DEF BrowseCollections, BrowseAlbums, BrowseKinds

-----------------------------------------------------------------------------
(* The whole API.                                                          *)

LEMMA StepType ==
    ASSUME TypeInv, NEW c \in Clients, Step(c)
    PROVE  TypeInv'
BY SoftDeleteCollectionType, SoftDeleteAlbumType, RestoreCollectionType, RestoreAlbumType,
   RenameType, ThumbnailType, UpdateType, BrowseType
   DEF Step, RenameCollection, RenameAlbum, RenameKinds

LEMMA SubmitType ==
    ASSUME TypeInv, NEW c \in Clients, NEW r \in Requests, Submit(c, r)
    PROVE  TypeInv'
<1> DEFINE s == [Idle EXCEPT !.pc = FirstCall(r), !.op = r]
<1>1. r # None /\ s \in RequestState /\ AtHand(s)
  BY IdleType, RequestAssumption
     DEF RequestState, PCs, FirstCall, AtHand, ThumbnailKinds, Idle
<1>2. StoreTypeOK'
  BY DEF Submit, StoreTypeOK, TypeInv
<1>3. RequestTypeOK'
  BY <1>1 DEF Submit, RequestTypeOK, TypeInv, RequestsOK
<1>4. \A d \in Clients : AtHand(req'[d])
  BY <1>1 DEF Submit, RequestTypeOK, TypeInv, RequestsOK
<1>5. (\A d \in Clients : AtHand(req[d]))'
  BY <1>4 DEF AtHand, Chooses
<1> QED
  BY <1>2, <1>3, <1>5 DEF TypeInv, RequestsOK

LEMMA CutOffType ==
    ASSUME TypeInv, NEW c \in Clients, CutOff(c)
    PROVE  TypeInv'
BY StoreUnread, ReplyPlain DEF CutOff, TypeInv, Statuses

LEMMA StutterType ==
    ASSUME TypeInv, UNCHANGED vars
    PROVE  TypeInv'
BY DEF vars, TypeInv, StoreTypeOK, RequestsOK, RequestTypeOK, AtHand, Chooses

LEMMA InitType ==
    ASSUME Init
    PROVE  TypeInv
<1>1. StoreTypeOK
  BY LibraryAssumption DEF Init, StoreInit, StoreTypeOK
<1>2. RequestsOK
  BY IdleType DEF Init, RequestInit, RequestsOK, RequestTypeOK, Replies, Statuses
<1> QED
  BY <1>1, <1>2 DEF TypeInv

LEMMA NextType ==
    ASSUME TypeInv, [Next]_vars
    PROVE  TypeInv'
BY StepType, SubmitType, CutOffType, StutterType DEF Next, Finished

\* The inductive invariant behind TypeOK: besides its type, every variable
\* holds what the handler's next call needs.
THEOREM TypeInvariant == Spec => []TypeInv
<1>1. Init => TypeInv
  BY InitType
<1>2. TypeInv /\ [Next]_vars => TypeInv'
  BY NextType
<1> QED
  BY <1>1, <1>2, PTL DEF Spec

\* Handlers store and pass on only tag sets, paths and photos of their types,
\* for every library, workload and number of clients: no update of a blob
\* ever meets a missing value.
THEOREM TypeCorrect == Spec => []TypeOK
<1>1. TypeInv => TypeOK
  BY DEF TypeInv, RequestsOK, TypeOK
<1> QED
  BY <1>1, TypeInvariant, PTL

-----------------------------------------------------------------------------
(* What a call can do to the container.                                    *)

SetsTags(p, t) == Has(p) /\ images' = Retagged(p, t)
Drops(p) == images' = [images EXCEPT ![p] = NoBlob]

LEMMA SetsTagsEffect ==
    ASSUME StoreTypeOK, NEW p \in Paths, NEW t \in Tags, SetsTags(p, t), NEW q \in Paths
    PROVE  /\ images'[q] # NoBlob <=> Has(q)
           /\ Has(q) => /\ images'[q].photo = images[q].photo
                        /\ images'[q].tags = IF q = p THEN t ELSE images[q].tags
<1>1. images[p] \in Blobs
  BY DEF SetsTags, StoreTypeOK, Has
<1>2. images'[q] = IF q = p THEN [images[p] EXCEPT !.tags = t] ELSE images[q]
  BY DEF SetsTags, Retagged, StoreTypeOK
<1>3. [images[p] EXCEPT !.tags = t] \in Blobs
  BY <1>1 DEF Blobs
<1>4. [images[p] EXCEPT !.tags = t] # NoBlob
  BY <1>3, NoneAssumption
<1> QED
  BY <1>1, <1>2, <1>4 DEF Has, Blobs, SetsTags

LEMMA DropsEffect ==
    ASSUME StoreTypeOK, NEW p \in Paths, Drops(p)
    PROVE  images'[p] = NoBlob /\ \A o \in Paths : o # p => images'[o] = images[o]
BY DEF Drops, StoreTypeOK

-----------------------------------------------------------------------------
(* How a handler goes on.                                                  *)

Others(c) == \A d \in Clients : d # c => req'[d] = req[d]

Ended(c, status) == Others(c) /\ req'[c] = Idle /\ reply'[c].status = status

Goes(c, pc, rows, todo, job, failed) ==
    /\ Others(c)
    /\ req'[c].op = req[c].op /\ req'[c].pc = pc
    /\ req'[c].rows = rows /\ req'[c].todo = todo /\ req'[c].job = job /\ req'[c].failed = failed
    /\ req'[c].cut = req[c].cut

LEMMA AnswerEnds ==
    ASSUME RequestsOK, NEW c \in Clients, NEW status \in Statuses, Answer(c, status)
    PROVE  Ended(c, status)
<1>1. reply'[c] = [op |-> req[c].op, status |-> status, collectionDeleted |-> FALSE]
  BY DEF Answer, AnswerWith, RequestsOK, RequestTypeOK
<1>2. Others(c) /\ req'[c] = Idle
  BY DEF Answer, AnswerWith, RequestsOK, RequestTypeOK, Others
<1> QED
  BY <1>1, <1>2 DEF Ended

LEMMA ContinueGoes ==
    ASSUME RequestsOK, NEW c \in Clients, NEW s, Continue(c, s)
    PROVE  Others(c) /\ req'[c] = s
BY DEF Continue, RequestsOK, RequestTypeOK, Others

LEMMA LoopGoes ==
    ASSUME RequestsOK, NEW c \in Clients, NEW todo, NEW failed, NEW s \in RequestState,
           s.op = req[c].op, s.cut = req[c].cut, NextOrAnswer(c, todo, failed, s)
    PROVE  \/ todo = {} /\ Ended(c, IF failed THEN "206" ELSE "200")
           \/ Goes(c, "each", s.rows, todo, s.job, failed)
<1>1. CASE todo = {}
  BY <1>1, AnswerEnds DEF NextOrAnswer, Statuses
<1>2. CASE todo # {}
  <2> DEFINE t == [s EXCEPT !.pc = "each", !.todo = todo, !.failed = failed]
  <2>1. Others(c) /\ req'[c] = t
    BY <1>2, ContinueGoes DEF NextOrAnswer
  <2>2. /\ t.op = s.op /\ t.pc = "each" /\ t.rows = s.rows /\ t.todo = todo
        /\ t.job = s.job /\ t.failed = failed /\ t.cut = s.cut
    BY DEF RequestState
  <2> HIDE DEF t
  <2> QED
    BY <2>1, <2>2 DEF Goes
<1> QED
  BY <1>1, <1>2

LEMMA RenameNextGoes ==
    ASSUME RequestsOK, NEW c \in Clients, req[c] \in RequestState, NEW failed,
           RenameNext(c, failed)
    PROVE  \/ /\ req[c].todo = {}
              /\ Ended(c, IF req[c].failed \/ failed THEN "206" ELSE "200")
           \/ Goes(c, "each", req[c].rows, req[c].todo, None, req[c].failed \/ failed)
<1> DEFINE s == [req[c] EXCEPT !.job = None, !.photo = None, !.tags = None]
<1>1. /\ s \in RequestState /\ s.op = req[c].op /\ s.rows = req[c].rows /\ s.job = None
      /\ s.cut = req[c].cut
  BY DEF RequestState
<1>2. NextOrAnswer(c, req[c].todo, req[c].failed \/ failed, s)
  BY DEF RenameNext
<1> HIDE DEF s
<1> QED
  BY <1>1, <1>2, LoopGoes

\* a rename that met an error with the blob at hand
GivesUp(c, todo) ==
    \/ Ended(c, "206")
    \/ \E job : Goes(c, "each", req[c].rows, todo, job, TRUE)

LEMMA RetagSteps ==
    ASSUME TypeInv, NEW c \in Clients, NEW kind \in RenameKinds, RenameRetag(c, kind)
    PROVE  LET j == req[c].job
               q == NewPath(req[c].op, j.path)
               t == NewTags(req[c].op, j)
           IN  /\ req[c].op \in Renames /\ req[c].pc = "retag"
               /\ j \in Jobs /\ j.path \in Paths /\ q \in Paths /\ t \in Tags
               /\ \/ /\ SetsTags(q, t) /\ CallWorks
                     /\ Goes(c, "delete", req[c].rows, req[c].todo, j, req[c].failed)
                  \/ /\ \/ images' = images /\ (CallFails \/ (CallWorks /\ ~Has(q)))
                        \/ SetsTags(q, t) /\ CallFails
                     /\ GivesUp(c, req[c].todo)
<1> DEFINE j == req[c].job
           q == NewPath(req[c].op, j.path)
           t == NewTags(req[c].op, j)
<1>1. /\ At(c, kind, "retag") /\ req[c] \in RequestState /\ req[c].pc = "retag"
      /\ req[c].op \in Renames /\ j \in Jobs /\ j.path \in Paths /\ q \in Paths
  BY RenameAt DEF RenameRetag
<1>2. t \in Tags
  BY <1>1, NewTagsType
<1>3. PICK ok \in BOOLEAN :
         /\ SetBlobTags(q, t, ok)
         /\ IF ok THEN Continue(c, [req[c] EXCEPT !.pc = "delete"]) ELSE RenameNext(c, TRUE)
  BY DEF RenameRetag
<1>4. CASE ok
  <2>1. SetsTags(q, t) /\ CallWorks
    BY <1>3, <1>4 DEF SetBlobTags, SetsTags
  <2>2. Others(c) /\ req'[c] = [req[c] EXCEPT !.pc = "delete"]
    BY <1>3, <1>4, ContinueGoes DEF TypeInv
  <2>3. Goes(c, "delete", req[c].rows, req[c].todo, j, req[c].failed)
    BY <1>1, <2>2 DEF Goes, RequestState
  <2> QED
    BY <1>1, <1>2, <2>1, <2>3
<1>5. CASE ~ok
  <2>1. \/ images' = images /\ CallFails
        \/ images' = images /\ CallWorks /\ ~Has(q)
        \/ SetsTags(q, t) /\ CallFails
    BY <1>3, <1>5 DEF SetBlobTags, SetsTags
  <2>2. RenameNext(c, TRUE)
    BY <1>3, <1>5
  <2>3. GivesUp(c, req[c].todo)
    BY <1>1, <2>2, RenameNextGoes DEF TypeInv, GivesUp
  <2> QED
    BY <1>1, <1>2, <2>1, <2>3
<1> QED
  BY <1>4, <1>5

LEMMA SubmitSteps ==
    ASSUME TypeInv, NEW c \in Clients, NEW r \in Requests, Submit(c, r)
    PROVE  /\ images' = images /\ faults' = faults /\ req[c].pc = "idle" /\ Others(c)
           /\ req'[c].op = r /\ req'[c].pc \in {"find", "get"}
           /\ req'[c].rows = {} /\ req'[c].todo = {} /\ req'[c].cut = {}
           /\ r \in Renames => req'[c].pc = "find"
BY DEF Submit, TypeInv, RequestsOK, RequestTypeOK, Others, Idle, FirstCall, Renames, RenameKinds

LEMMA CutOffSteps ==
    ASSUME TypeInv, NEW c \in Clients, CutOff(c)
    PROVE  images' = images /\ CallFails /\ Ended(c, "cut")
BY AnswerEnds DEF CutOff, TypeInv, Statuses

-----------------------------------------------------------------------------
(* What the answers say, on one connection: the invariants of              *)
(* OneConnection.                                                          *)

\* what the handler would find after a step
FoundNext(op) == {p \in Paths : images'[p] # NoBlob /\ Satisfies(images'[p].tags, Sought(op))}
LeftNext(c) == {j.path : j \in req'[c].todo}

LEMMA FoundAfter ==
    ASSUME NEW op
    PROVE  Found(op)' = FoundNext(op)
BY DEF Found, FoundNext, BlobsWith, Has, Satisfies, Sought, CollectionBlobs, AlbumBlobs,
       CollectionImageQuery, AlbumImageQuery, RenameQuery

LEMMA FoundRows ==
    ASSUME NEW op
    PROVE  MatchingRows(Sought(op)) = {<<p, images[p].row>> : p \in Found(op)}
BY DEF MatchingRows, Found, BlobsWith

LEMMA RowsAfter ==
    ASSUME NEW op, images' = images
    PROVE  /\ Found(op)' = Found(op) /\ FoundNext(op) = Found(op)
           /\ MatchingRows(Sought(op))' = MatchingRows(Sought(op))
<1>1. FoundNext(op) = Found(op) /\ Found(op)' = FoundNext(op)
  BY FoundAfter DEF Found, FoundNext, BlobsWith, Has
<1>2. MatchingRows(Sought(op))' = {<<p, images'[p].row>> : p \in FoundNext(op)}
  BY DEF MatchingRows, FoundNext, Has, Satisfies, Sought, CollectionBlobs, AlbumBlobs,
         CollectionImageQuery, AlbumImageQuery, RenameQuery
<1> QED
  BY <1>1, <1>2, FoundRows

LEMMA KindsApart ==
    /\ DeleteKinds \cap RestoreKinds = {} /\ DeleteKinds \cap ThumbnailKinds = {}
    /\ RestoreKinds \cap ThumbnailKinds = {} /\ RenameKinds \cap ThumbnailKinds = {}
    /\ RenameKinds \cap (DeleteKinds \cup RestoreKinds) = {}
BY DEF DeleteKinds, RestoreKinds, ThumbnailKinds, RenameKinds

LEMMA EndedOnCourse ==
    ASSUME NEW c \in Clients, NEW status, Ended(c, status)
    PROVE  OnCourse(req[c])'
BY DEF Ended, Idle, OnCourse

\* the parts of OnCourse after a step, one kind of handler at a time
LEMMA MarkingOnCourse ==
    ASSUME NEW c \in Clients, NEW op \in Requests, req'[c].op = op,
           op.kind \in DeleteKinds \cup RestoreKinds, req'[c].pc # "tags",
           ~req'[c].failed /\ "rows" \notin req'[c].cut =>
               /\ req'[c].pc = "each" => FoundNext(op) \subseteq LeftNext(c)
               /\ req'[c].pc = "remaining" => FoundNext(op) = {},
           MarkGiven(req[c])'
    PROVE  OnCourse(req[c])'
<1>1. op \notin Renames /\ op.kind \notin ThumbnailKinds
  BY KindsApart DEF Renames
<1>2. MarkingAll(req[c])'
  BY FoundAfter DEF MarkingAll, LeftNext, Left
<1> QED
  BY <1>1, <1>2 DEF OnCourse, RowsCurrent, ClearingAll, RenamingAll

LEMMA ClearingOnCourse ==
    ASSUME NEW c \in Clients, NEW op \in Requests, req'[c].op = op,
           op.kind \in ThumbnailKinds, req'[c].pc # "tags",
           Chooses(op) /\ faults' = MaxFaults =>
               /\ req'[c].cut = {} /\ req'[c].pc # "rotate"
               /\ req'[c].pc = "unmark" => FoundNext(op) \subseteq LeftNext(c) \cup {op.image}
               /\ req'[c].pc \in {"get", "set"} => FoundNext(op) \subseteq {op.image}
    PROVE  OnCourse(req[c])'
<1>1. op \notin Renames /\ op.kind \notin DeleteKinds \cup RestoreKinds
  BY KindsApart DEF Renames
<1>2. ClearingAll(req[c])'
  BY FoundAfter DEF ClearingAll, LeftNext, Left, Chooses
<1> QED
  BY <1>1, <1>2 DEF OnCourse, RowsCurrent, MarkingAll, MarkGiven, RenamingAll

MovingNext(c) ==
    IF req'[c].pc \in {"copyTags", "save", "delete"} THEN {req'[c].job.path}
    ELSE IF req'[c].pc = "retag" THEN {req'[c].job.path, NewPath(req'[c].op, req'[c].job.path)} ELSE {}

LEMMA RenamingOnCourse ==
    ASSUME NEW c \in Clients, NEW op \in Renames, req'[c].op = op, req'[c].pc # "tags",
           ~req'[c].failed /\ "rows" \notin req'[c].cut =>
             \E lost \in SUBSET Paths :
                /\ IsFiniteSet(lost) /\ Cardinality(lost) <= MaxFaults - faults'
                /\ FoundNext(op) \subseteq LeftNext(c) \cup MovingNext(c) \cup lost
    PROVE  OnCourse(req[c])'
<1>1. op.kind \in RenameKinds /\ op.kind \notin ThumbnailKinds \cup DeleteKinds \cup RestoreKinds
  BY KindsApart DEF Renames
<1>2. Moving(req[c])' = MovingNext(c)
  BY DEF Moving, MovingNext, NewPath
<1>3. RenamingAll(req[c])'
  BY <1>2, FoundAfter DEF RenamingAll, LeftNext, Left
<1> QED
  BY <1>1, <1>3 DEF OnCourse, RowsCurrent, MarkingAll, MarkGiven, ClearingAll

\* the step of c is a success
Succeeds(c) == req'[c].pc = "idle" /\ reply'[c].status = "200"

\* as long as nothing fails
LEMMA NothingFailed ==
    ASSUME StoreTypeOK, CallWorks \/ CallFails, faults' = MaxFaults
    PROVE  faults = MaxFaults /\ ~CallFails
BY LibraryAssumption DEF StoreTypeOK, CallWorks, CallFails

\* The query has just been asked; it may not have found everything.
Asks(c, query) ==
    /\ images' = images /\ Others(c)
    /\ req'[c].op = req[c].op /\ req'[c].pc = "tags" /\ req'[c].seen = req[c].seen
    /\ \/ CallWorks /\ req'[c].rows = MatchingRows(query) /\ req'[c].cut = req[c].cut
       \/ CallFails /\ req'[c].cut = {"rows"}

LEMMA FindBlobsAsks ==
    ASSUME TypeInv, NEW c \in Clients, NEW query, FindBlobs(c, query)
    PROVE  Asks(c, query)
<1>1. PICK rows \in SUBSET MatchingRows(query), cut \in SUBSET {"rows", "tags"} :
         /\ Continue(c, [req[c] EXCEPT !.pc = "tags", !.rows = rows, !.cut = cut])
         /\ UNCHANGED <<images, nextRow>>
         /\ \/ CallWorks /\ rows = MatchingRows(query) /\ cut = req[c].cut
            \/ CallFails /\ cut = {"rows"}
  BY FindBlobsSteps
<1>2. req[c] \in RequestState
  BY DEF TypeInv, RequestsOK, RequestTypeOK
<1>3. Others(c) /\ req'[c] = [req[c] EXCEPT !.pc = "tags", !.rows = rows, !.cut = cut]
  BY <1>1, ContinueGoes DEF TypeInv
<1>4. /\ req'[c].op = req[c].op /\ req'[c].pc = "tags" /\ req'[c].seen = req[c].seen
      /\ req'[c].rows = rows /\ req'[c].cut = cut
  BY <1>2, <1>3 DEF RequestState
<1> QED
  BY <1>1, <1>3, <1>4 DEF Asks

LEMMA AskedOnCourse ==
    ASSUME TypeInv, NEW c \in Clients, OnCourse(req[c]), req[c].op # None, req[c].pc = "find",
           Asks(c, Sought(req[c].op))
    PROVE  OnCourse(req[c])' /\ ~Succeeds(c)
<1>0. ~Succeeds(c)
  BY DEF Asks, Succeeds
<1> SUFFICES ASSUME req'[c].op # None, req'[c].op.kind \in QueryKinds
             PROVE  (RowsCurrent(req[c]) /\ MarkingAll(req[c]) /\ MarkGiven(req[c])
                        /\ ClearingAll(req[c]) /\ RenamingAll(req[c]))'
  BY <1>0 DEF OnCourse
<1>1. req'[c].op = req[c].op /\ req'[c].pc = "tags" /\ req'[c].seen = req[c].seen /\ images' = images
  BY DEF Asks
<1>2. RowsCurrent(req[c])'
  <2>1. CASE CallWorks /\ req'[c].rows = MatchingRows(Sought(req[c].op))
    BY <1>1, <2>1, RowsAfter DEF RowsCurrent
  <2>2. CASE req'[c].cut = {"rows"}
    BY <2>2 DEF RowsCurrent
  <2> QED
    BY <2>1, <2>2 DEF Asks
<1>3. MarkGiven(req[c])'
  BY <1>1 DEF OnCourse, MarkGiven
<1>4. ClearingAll(req[c])'
  <2> SUFFICES ASSUME req'[c].op.kind \in ThumbnailKinds, Chooses(req'[c].op), faults' = MaxFaults
               PROVE  req'[c].cut = {}
    BY <1>1 DEF ClearingAll, Chooses
  <2>1. faults = MaxFaults /\ ~CallFails
    BY NothingFailed DEF Asks, TypeInv
  <2> QED
    BY <1>1, <2>1 DEF Asks, OnCourse, ClearingAll
<1> QED
  BY <1>1, <1>2, <1>3, <1>4 DEF MarkingAll, RenamingAll

\* how a handler other than a thumbnail's begins
LEMMA BeginsOnCourse ==
    ASSUME TypeInv, NEW c \in Clients, OnCourse(req[c]), NEW kind,
           NEW s1 \in Statuses \ {"200"}, NEW s2 \in Statuses \ {"200"}, At(c, kind, "find"),
           \/ FindBlobs(c, Sought(req[c].op))
           \/ FindsNone(Sought(req[c].op)) /\ Answer(c, s1)
           \/ FindFails /\ Answer(c, s2)
    PROVE  OnCourse(req[c])' /\ ~Succeeds(c)
<1>1. req[c].op # None /\ req[c].pc = "find"
  BY DEF At
<1>2. ASSUME NEW s \in Statuses \ {"200"}, Answer(c, s)
      PROVE  OnCourse(req[c])' /\ ~Succeeds(c)
  BY <1>2, AnswerEnds, EndedOnCourse DEF Ended, Succeeds, TypeInv
<1>3. CASE FindBlobs(c, Sought(req[c].op))
  BY <1>1, <1>3, FindBlobsAsks, AskedOnCourse
<1> QED
  BY <1>2, <1>3

LEMMA LocateOnCourse ==
    ASSUME TypeInv, NEW c \in Clients, OnCourse(req[c]), NEW kind, Locate(c, kind, Sought(req[c].op))
    PROVE  OnCourse(req[c])' /\ ~Succeeds(c)
<1>1. "404" \in Statuses \ {"200"} /\ "500" \in Statuses \ {"200"}
  BY DEF Statuses
<1> QED
  BY <1>1, BeginsOnCourse DEF Locate

\* what the second statement of the query brings, and what it brings when
\* nothing has broken off
LEMMA FetchedPaths ==
    ASSUME NEW c \in Clients, NEW jobs \in Fetches(req[c].rows)
    PROVE  {j.path : j \in jobs} = {r[1] : r \in req[c].rows}
<1>1. CASE jobs = WithTags(req[c].rows)
  <2> DEFINE job(r) == [path |-> r[1], tags |-> TagsOfRow(r)]
  <2>1. jobs = {job(r) : r \in req[c].rows} /\ \A r : job(r).path = r[1]
    BY <1>1 DEF WithTags
  <2> HIDE DEF job
  <2> QED
    BY <2>1
<1>2. ASSUME NEW last \in req[c].rows, NEW n \in 0..6, jobs = WithSomeTags(req[c].rows, last, n)
      PROVE  {j.path : j \in jobs} = {r[1] : r \in req[c].rows}
  <2> DEFINE job(r) == [path |-> r[1], tags |-> IF r[2] < last[2] THEN TagsOfRow(r)
                                               ELSE IF r = last THEN FirstTags(TagsOfRow(r), n)
                                               ELSE EmptyTags]
  <2>1. jobs = {job(r) : r \in req[c].rows} /\ \A r : job(r).path = r[1]
    BY <1>2 DEF WithSomeTags
  <2> HIDE DEF job
  <2> QED
    BY <2>1
<1>3. \/ jobs = WithTags(req[c].rows)
      \/ \E last \in req[c].rows, n \in 0..6 : jobs = WithSomeTags(req[c].rows, last, n)
  BY DEF Fetches
<1> QED
  BY <1>1, <1>2, <1>3

LEMMA FetchedJobs ==
    ASSUME TypeInv, NEW c \in Clients, NEW op \in Requests, req[c].op = op,
           NEW jobs \in Fetches(req[c].rows), req[c].rows = MatchingRows(Sought(op))
    PROVE  /\ {j.path : j \in jobs} = Found(op)
           /\ jobs = WithTags(req[c].rows) =>
                /\ \A j \in jobs : Satisfies(j.tags, Sought(op)) /\ j.tags = images[j.path].tags
                /\ \A j, k \in jobs : j.path = k.path => j = k
<1> DEFINE row(p) == <<p, images[p].row>>
           brought(p) == [path |-> p, tags |-> images[p].tags]
<1>1. req[c].rows = {row(p) : p \in Found(op)}
  BY FoundRows
<1>2. \A p \in Found(op) : Has(p) /\ p \in Paths /\ Satisfies(images[p].tags, Sought(op))
  BY DEF Found, BlobsWith
<1>3. \A p \in Found(op) : TagsOfRow(row(p)) = images[p].tags
  BY <1>2 DEF TagsOfRow
<1>4. \A p : row(p)[1] = p
  OBVIOUS
<1> HIDE DEF row
<1>5. ASSUME jobs = WithTags(req[c].rows)
      PROVE  jobs = {brought(p) : p \in Found(op)}
  <2>1. jobs = {[path |-> r[1], tags |-> TagsOfRow(r)] : r \in req[c].rows}
    BY <1>5 DEF WithTags
  <2>2. @ = {[path |-> p, tags |-> TagsOfRow(row(p))] : p \in Found(op)}
    BY <1>1, <1>4
  <2>3. @ = {brought(p) : p \in Found(op)}
    BY <1>3
  <2> QED
    BY <2>1, <2>2, <2>3
<1>6. \A p \in Found(op) : brought(p).path = p /\ brought(p).tags = images[p].tags
  OBVIOUS
<1> HIDE DEF brought
<1>7. {j.path : j \in jobs} = Found(op)
  <2>1. {r[1] : r \in req[c].rows} = Found(op)
    BY <1>1, <1>4
  <2> QED
    BY <2>1, FetchedPaths
<1> QED
  BY <1>2, <1>5, <1>6, <1>7

\* the loop it goes on with, and whether it broke off
Brings(c, jobs) ==
    /\ images' = images /\ (CallWorks \/ CallFails)
    /\ req'[c].op = req[c].op /\ req'[c].seen = req[c].seen /\ req'[c].failed = req[c].failed
    /\ req[c].cut \subseteq req'[c].cut
    /\ "rows" \in req'[c].cut => "rows" \in req[c].cut
    /\ CallWorks => req'[c].cut = req[c].cut
    /\ req'[c].cut = {} \/ CallWorks => jobs = WithTags(req[c].rows)

LEMMA FetchedCut ==
    ASSUME NEW c \in Clients, req[c] \in RequestState, NEW jobs, FetchTags(c, jobs), StoreTypeOK
    PROVE  LET cut == Fetched(c, jobs).cut
           IN  /\ req[c].cut \subseteq cut /\ ("rows" \in cut => "rows" \in req[c].cut)
               /\ CallWorks => cut = req[c].cut /\ jobs = WithTags(req[c].rows)
               /\ cut = {} => jobs = WithTags(req[c].rows)
<1>1. Fetched(c, jobs).cut = IF jobs = WithTags(req[c].rows) THEN req[c].cut ELSE req[c].cut \cup {"tags"}
  BY DEF Fetched, RequestState
<1>2. ~(CallWorks /\ CallFails)
  BY DEF CallWorks, CallFails, StoreTypeOK
<1> QED
  BY <1>1, <1>2 DEF FetchTags

LEMMA FetchToLoopSteps ==
    ASSUME TypeInv, NEW c \in Clients, NEW kind, At(c, kind, "tags"),
           NEW jobs \in Fetches(req[c].rows), FetchTags(c, jobs),
           Continue(c, [Fetched(c, jobs) EXCEPT !.pc = "each", !.todo = jobs])
    PROVE  /\ Others(c) /\ Brings(c, jobs)
           /\ req'[c].pc = "each" /\ req'[c].todo = jobs
<1> DEFINE s == [Fetched(c, jobs) EXCEPT !.pc = "each", !.todo = jobs]
           cut == Fetched(c, jobs).cut
<1>1. req[c] \in RequestState
  BY AtType DEF TypeInv
<1>2. Others(c) /\ req'[c] = s
  BY ContinueGoes DEF TypeInv
<1>3. Fetched(c, jobs) = [req[c] EXCEPT !.rows = {}, !.cut = cut] /\ Fetched(c, jobs) \in RequestState
  <2>1. StoreTypeOK /\ RequestsOK
    BY DEF TypeInv
  <2> QED
    BY <2>1, FetchedType
<1>4. /\ req[c].cut \subseteq cut /\ ("rows" \in cut => "rows" \in req[c].cut)
      /\ CallWorks => cut = req[c].cut /\ jobs = WithTags(req[c].rows)
      /\ cut = {} => jobs = WithTags(req[c].rows)
  BY <1>1, FetchedCut DEF TypeInv
<1> HIDE DEF cut
<1>5. /\ Fetched(c, jobs).op = req[c].op /\ Fetched(c, jobs).seen = req[c].seen
      /\ Fetched(c, jobs).failed = req[c].failed /\ Fetched(c, jobs).cut = cut
  BY <1>1, <1>3 DEF RequestState, cut
<1>6. /\ req'[c].op = req[c].op /\ req'[c].seen = req[c].seen /\ req'[c].failed = req[c].failed
      /\ req'[c].cut = cut /\ req'[c].pc = "each" /\ req'[c].todo = jobs
  BY <1>2, <1>3, <1>5 DEF RequestState
<1> QED
  BY <1>2, <1>4, <1>6 DEF Brings, FetchTags

\* A write with other tags than those sought for brings nothing to find.
LEMMA WriteFinds ==
    ASSUME StoreTypeOK, NEW op \in Requests, NEW p \in Paths, NEW t \in Tags, NEW ok \in BOOLEAN,
           SetBlobTags(p, t, ok), ~Satisfies(t, Sought(op))
    PROVE  FoundNext(op) \subseteq Found(op) /\ (ok => p \notin FoundNext(op))
<1>1. CASE images' = images /\ ~ok
  BY <1>1, RowsAfter
<1>2. CASE SetsTags(p, t)
  <2>1. \A q \in Paths : /\ images'[q] # NoBlob <=> Has(q)
                         /\ Has(q) => images'[q].tags = IF q = p THEN t ELSE images[q].tags
    BY <1>2, SetsTagsEffect
  <2>2. p \notin FoundNext(op)
    BY <2>1 DEF FoundNext
  <2>3. \A q \in Paths \ {p} : q \in FoundNext(op) => q \in Found(op)
    BY <2>1 DEF FoundNext, Found, BlobsWith
  <2> QED
    BY <2>2, <2>3 DEF FoundNext
<1> QED
  BY <1>1, <1>2 DEF SetBlobTags, SetsTags

LEMMA WrittenUnfound ==
    ASSUME NEW op \in Requests, NEW tags \in Tags, NEW seen
    PROVE  /\ op.kind \in DeleteKinds => ~Satisfies(Deleted(tags), Sought(op))
           /\ op.kind \in RestoreKinds =>
                /\ ~Satisfies(RestoredInAlbum(tags, seen), Sought(op))
                /\ ~Satisfies(RestoredInCollection(tags, seen), Sought(op))
           /\ op.kind \in ThumbnailKinds => ~Satisfies(Marked(op.kind, tags, FALSE), Sought(op))
<1>1. Deleted(tags).isDeleted = TRUE /\ RestoredInAlbum(tags, seen).isDeleted = FALSE
      /\ RestoredInCollection(tags, seen).isDeleted = FALSE
  BY DEF Tags, Deleted, RestoredInAlbum, RestoredInCollection
<1>2. /\ MarkCollection(tags, FALSE).collectionImage = FALSE
      /\ MarkAlbum(tags, FALSE).albumImage = FALSE
  BY DEF Tags, MarkCollection, MarkAlbum
<1>3. op.kind \in DeleteKinds => ~Satisfies(Deleted(tags), Sought(op))
  BY <1>1 DEF DeleteKinds, Satisfies, Sought, CollectionBlobs, AlbumBlobs
<1>4. op.kind \in RestoreKinds =>
        /\ ~Satisfies(RestoredInAlbum(tags, seen), Sought(op))
        /\ ~Satisfies(RestoredInCollection(tags, seen), Sought(op))
  BY <1>1 DEF RestoreKinds, Satisfies, Sought, CollectionBlobs, AlbumBlobs
<1>5. op.kind \in ThumbnailKinds => ~Satisfies(Marked(op.kind, tags, FALSE), Sought(op))
  BY <1>2 DEF ThumbnailKinds, Marked, Satisfies, Sought, CollectionImageQuery, AlbumImageQuery
<1> QED
  BY <1>3, <1>4, <1>5

\* What is still to find is in the rest of the loop, if nothing fails.
LEMMA LoopShrinks ==
    ASSUME StoreTypeOK, NEW c \in Clients, NEW op \in Requests,
           NEW more, Found(op) \subseteq Left(req[c]) \cup more,
           NEW j \in req[c].todo, NEW t \in Tags, j.path \in Paths, SetBlobTags(j.path, t, TRUE),
           ~Satisfies(t, Sought(op))
    PROVE  FoundNext(op) \subseteq {k.path : k \in req[c].todo \ {j}} \cup more
<1>1. FoundNext(op) \subseteq Found(op) /\ j.path \notin FoundNext(op)
  BY WriteFinds
<1>2. \A k \in req[c].todo : k.path # j.path => k \in req[c].todo \ {j}
  OBVIOUS
<1> QED
  BY <1>1, <1>2 DEF Left

LEMMA LocateKinds ==
    ASSUME NEW op \in Requests
    PROVE  /\ op.kind = "softDeleteCollection" => Sought(op) = CollectionBlobs(op, FALSE)
           /\ op.kind = "softDeleteAlbum" => Sought(op) = AlbumBlobs(op, FALSE)
           /\ op.kind = "restoreCollection" => Sought(op) = CollectionBlobs(op, TRUE)
           /\ op.kind = "restoreAlbum" => Sought(op) = AlbumBlobs(op, TRUE)
           /\ op.kind = "thumbnailCollection" => Sought(op) = CollectionImageQuery(op.collection)
           /\ op.kind = "thumbnailAlbum" => Sought(op) = AlbumImageQuery(op)
           /\ op.kind \in RenameKinds => Sought(op) = RenameQuery(op)
BY DEF Sought, RenameKinds

\* the fetch of a soft-delete or restore
LEMMA FetchOnCourse ==
    ASSUME TypeInv, NEW c \in Clients, OnCourse(req[c]), NEW kind \in DeleteKinds \cup RestoreKinds,
           Fetch(c, kind)
    PROVE  OnCourse(req[c])' /\ req'[c].pc # "idle"
<1> DEFINE op == req[c].op
<1>1. /\ At(c, kind, "tags") /\ req[c].pc = "tags" /\ op \in Requests /\ op # None /\ op.kind = kind
  BY AtType DEF Fetch, TypeInv
<1>2. PICK jobs \in Fetches(req[c].rows) :
        Brings(c, jobs) /\ req'[c].pc = "each" /\ req'[c].todo = jobs
  BY <1>1, FetchToLoopSteps DEF Fetch
<1>3. OnCourse(req[c]) /\ op.kind \in QueryKinds
  BY <1>1 DEF QueryKinds
<1>4. "rows" \notin req'[c].cut => req[c].rows = MatchingRows(Sought(op))
  BY <1>1, <1>2, <1>3 DEF OnCourse, RowsCurrent, Brings
<1>5. req'[c].op = op /\ images' = images
  BY <1>2 DEF Brings
<1>6. req'[c].cut = {} => req[c].rows = MatchingRows(Sought(op)) /\ jobs = WithTags(req[c].rows)
  BY <1>2, <1>4 DEF Brings
<1>7. kind \in RestoreKinds => req'[c].seen = {}
  BY <1>1, <1>2, <1>3 DEF OnCourse, MarkGiven, Brings
<1> HIDE DEF op
<1>8. "rows" \notin req'[c].cut => FoundNext(op) \subseteq LeftNext(c)
  <2> SUFFICES ASSUME "rows" \notin req'[c].cut
               PROVE  FoundNext(op) \subseteq LeftNext(c)
    OBVIOUS
  <2>1. {j.path : j \in jobs} = Found(op)
    BY <1>1, <1>4, FetchedJobs DEF op
  <2> QED
    BY <1>2, <1>5, <2>1, RowsAfter DEF LeftNext
<1>9. MarkGiven(req[c])'
  <2>1. ASSUME req'[c].cut = {}
        PROVE  /\ \A j \in jobs : Satisfies(j.tags, Sought(op))
               /\ \A j, k \in jobs : j.path = k.path => j = k
    <3>1. req[c].rows = MatchingRows(Sought(op)) /\ jobs = WithTags(req[c].rows)
      BY <1>6, <2>1
    <3> QED
      BY <1>1, <3>1, FetchedJobs DEF op
  <2>2. req'[c].cut = {} => \A j \in req'[c].todo : j.tags = EmptyTags \/ Satisfies(j.tags, Sought(req'[c].op))
    BY <1>2, <1>5, <2>1
  <2>3. req'[c].cut = {} => \A j, k \in req'[c].todo : j.path = k.path => j = k
    BY <1>2, <2>1
  <2>4. req'[c].cut = {} =>
          (\A j \in req[c].todo : j.tags = EmptyTags \/ Satisfies(j.tags, Sought(req[c].op)))'
    BY <2>2 DEF Satisfies, EmptyTags, Sought, CollectionBlobs, AlbumBlobs, CollectionImageQuery,
                AlbumImageQuery, RenameQuery
  <2> QED
    BY <1>1, <1>2, <1>5, <1>7, <2>3, <2>4 DEF MarkGiven
<1>10. OnCourse(req[c])'
  BY <1>1, <1>2, <1>5, <1>8, <1>9, MarkingOnCourse
<1> QED
  BY <1>2, <1>10

LEMMA PanicOnCourse ==
    ASSUME TypeInv, NEW c \in Clients, NEW j, PanicOn(c, j)
    PROVE  OnCourse(req[c])' /\ ~Succeeds(c)
<1>1. Ended(c, "panic")
  BY AnswerEnds DEF PanicOn, TypeInv, Statuses
<1> QED
  BY <1>1, EndedOnCourse DEF Ended, Succeeds

\* marking a blob in the loop of a soft-delete
LEMMA SoftDeleteBlob ==
    ASSUME TypeInv, NEW c \in Clients, OnCourse(req[c]), NEW kind \in DeleteKinds, At(c, kind, "each"),
           NEW j \in req[c].todo, NEW ok \in BOOLEAN, SetBlobTags(j.path, Deleted(j.tags), ok)
    PROVE  ~(req[c].failed \/ ~ok) /\ FoundAll(c) =>
               FoundNext(req[c].op) \subseteq {k.path : k \in req[c].todo \ {j}}
<1> SUFFICES ASSUME ~req[c].failed, ok, FoundAll(c)
             PROVE  FoundNext(req[c].op) \subseteq {k.path : k \in req[c].todo \ {j}}
  OBVIOUS
<1>1. /\ req[c].op \in Requests /\ req[c].op # None /\ req[c].op.kind = kind /\ req[c].pc = "each"
      /\ j \in Jobs /\ j.path \in Paths /\ j.tags \in Tags
  BY AtType DEF TypeInv, Jobs
<1>2. Deleted(j.tags) \in Tags /\ ~Satisfies(Deleted(j.tags), Sought(req[c].op))
  BY <1>1, WrittenUnfound, NewTagsValuesType
<1>3. Found(req[c].op) \subseteq Left(req[c]) \cup {}
  BY <1>1 DEF OnCourse, MarkingAll, QueryKinds, FoundAll
<1>4. FoundNext(req[c].op) \subseteq {k.path : k \in req[c].todo \ {j}} \cup {}
  BY <1>1, <1>2, <1>3, LoopShrinks DEF TypeInv
<1> QED
  BY <1>4

LEMMA DeletingOnCourse ==
    ASSUME NEW c \in Clients, NEW op \in Requests, op.kind \in DeleteKinds, req'[c].op = op,
           req'[c].pc # "tags",
           ~req'[c].failed /\ "rows" \notin req'[c].cut =>
               /\ req'[c].pc = "each" => FoundNext(op) \subseteq LeftNext(c)
               /\ req'[c].pc = "remaining" => FoundNext(op) = {}
    PROVE  OnCourse(req[c])'
<1>1. MarkGiven(req[c])'
  BY KindsApart DEF MarkGiven
<1> QED
  BY <1>1, MarkingOnCourse

LEMMA SoftDeleteCollectionOnCourse ==
    ASSUME TypeInv, NEW c \in Clients, OnCourse(req[c]), SoftDeleteCollection(c)
    PROVE  OnCourse(req[c])' /\ (Succeeds(c) /\ FoundAll(c) => FoundNext(req[c].op) = {})
<1> DEFINE kind == "softDeleteCollection"
<1>0. kind \in DeleteKinds
  BY DEF DeleteKinds
<1>1. CASE Locate(c, kind, CollectionBlobs(req[c].op, FALSE))
  <2>1. Sought(req[c].op) = CollectionBlobs(req[c].op, FALSE)
    BY <1>1, AtType, LocateKinds DEF Locate, TypeInv
  <2> QED
    BY <1>1, <2>1, LocateOnCourse
<1>2. CASE Fetch(c, kind)
  BY <1>0, <1>2, FetchOnCourse DEF Succeeds
<1>3. ASSUME At(c, kind, "each"), NEW j \in req[c].todo, PanicOn(c, j)
      PROVE  OnCourse(req[c])' /\ ~Succeeds(c)
  BY <1>3, PanicOnCourse
<1>4. ASSUME At(c, kind, "each"), NEW j \in req[c].todo, SoftDeleteCollectionBlob(c, j)
      PROVE  OnCourse(req[c])' /\ (Succeeds(c) /\ FoundAll(c) => FoundNext(req[c].op) = {})
  <2>1. PICK ok \in BOOLEAN :
           /\ SetBlobTags(j.path, Deleted(j.tags), ok)
           /\ NextOrAnswer(c, req[c].todo \ {j}, req[c].failed \/ ~ok, req[c])
    BY <1>4 DEF SoftDeleteCollectionBlob
  <2>2. /\ req[c] \in RequestState /\ req[c].op \in Requests /\ req[c].op.kind = kind
        /\ req[c].failed \in BOOLEAN
    BY <1>4, AtType DEF TypeInv
  <2> DEFINE todo == req[c].todo \ {j}
             failed == req[c].failed \/ ~ok
  <2>3. ~failed /\ FoundAll(c) => FoundNext(req[c].op) \subseteq {k.path : k \in todo}
    BY <1>0, <1>4, <2>1, SoftDeleteBlob
  <2>4. \/ todo = {} /\ Ended(c, IF failed THEN "206" ELSE "200")
        \/ Goes(c, "each", req[c].rows, todo, req[c].job, failed)
    BY <2>1, <2>2, LoopGoes DEF TypeInv
  <2> HIDE DEF todo, failed
  <2>5. CASE todo = {} /\ Ended(c, IF failed THEN "206" ELSE "200")
    BY <2>3, <2>5, EndedOnCourse DEF Ended, Succeeds
  <2>6. CASE Goes(c, "each", req[c].rows, todo, req[c].job, failed)
    BY <1>0, <2>2, <2>3, <2>6, DeletingOnCourse DEF Goes, LeftNext, Succeeds, FoundAll
  <2> QED
    BY <2>4, <2>5, <2>6
<1> QED
  BY <1>1, <1>2, <1>3, <1>4 DEF SoftDeleteCollection

\* the closing query of an album's soft-delete
LEMMA RemainingOnCourse ==
    ASSUME TypeInv, NEW c \in Clients, OnCourse(req[c]), Remaining(c)
    PROVE  /\ OnCourse(req[c])'
           /\ Succeeds(c) /\ FoundAll(c) => FoundNext(req[c].op) = {}
           /\ reply'[c].collectionDeleted /\ faults' = faults =>
                /\ reply'[c].op = req[c].op
                /\ MatchingRows(CollectionBlobs(req[c].op, FALSE)) = {}
<1>1. /\ At(c, "softDeleteAlbum", "remaining") /\ req[c].op \in Requests /\ req[c].op # None
      /\ req[c].op.kind = "softDeleteAlbum" /\ req[c].pc = "remaining" /\ req[c].failed \in BOOLEAN
  BY AtType DEF Remaining, TypeInv
<1> DEFINE none == MatchingRows(CollectionBlobs(req[c].op, FALSE)) = {}
           status == IF req[c].failed THEN "206" ELSE "200"
<1>2. PICK deleted \in BOOLEAN :
        /\ AnswerWith(c, status, deleted)
        /\ CallFails \/ (deleted <=> none)
  <2>1. CASE CallWorks /\ AnswerWith(c, status, none)
    BY <2>1
  <2>2. ASSUME CallFails, NEW rows, AnswerWith(c, status, rows = {})
        PROVE  CallFails /\ \E deleted \in BOOLEAN : AnswerWith(c, status, deleted)
    <3>1. (rows = {}) \in BOOLEAN
      OBVIOUS
    <3> QED
      BY <2>2, <3>1
  <2> QED
    BY <2>1, <2>2 DEF Remaining
<1>3. /\ reply'[c] = [op |-> req[c].op, status |-> status, collectionDeleted |-> deleted]
      /\ Ended(c, status)
  BY <1>2 DEF AnswerWith, TypeInv, RequestsOK, RequestTypeOK, Others, Ended
<1>4. ~CallFails \/ faults' # faults
  BY DEF CallFails, TypeInv, StoreTypeOK
<1>5. ~req[c].failed /\ FoundAll(c) => FoundNext(req[c].op) = {}
  BY <1>1, RowsAfter DEF OnCourse, MarkingAll, QueryKinds, DeleteKinds, Remaining, FoundAll
<1>6. OnCourse(req[c])'
  BY <1>3, EndedOnCourse
<1>7. Succeeds(c) /\ FoundAll(c) => FoundNext(req[c].op) = {}
  BY <1>1, <1>3, <1>5 DEF Succeeds
<1>8. reply'[c].collectionDeleted = deleted /\ reply'[c].op = req[c].op
  BY <1>3
<1> HIDE DEF none
<1>9. reply'[c].collectionDeleted /\ faults' = faults => none
  BY <1>2, <1>4, <1>8
<1> QED
  BY <1>6, <1>7, <1>8, <1>9 DEF none

LEMMA SoftDeleteAlbumBlobOnCourse ==
    ASSUME TypeInv, NEW c \in Clients, OnCourse(req[c]), At(c, "softDeleteAlbum", "each"),
           NEW j \in req[c].todo, SoftDeleteAlbumBlob(c, j)
    PROVE  OnCourse(req[c])' /\ ~Succeeds(c)
<1>1. PICK ok \in BOOLEAN :
         /\ SetBlobTags(j.path, Deleted(j.tags), ok)
         /\ Continue(c, [req[c] EXCEPT
               !.pc = IF req[c].todo = {j} THEN "remaining" ELSE "each",
               !.todo = @ \ {j}, !.failed = @ \/ ~ok])
  BY DEF SoftDeleteAlbumBlob
<1>2. /\ req[c] \in RequestState /\ req[c].op \in Requests /\ req[c].op.kind = "softDeleteAlbum"
      /\ "softDeleteAlbum" \in DeleteKinds
  BY AtType DEF TypeInv, DeleteKinds
<1> DEFINE todo == req[c].todo \ {j}
           failed == req[c].failed \/ ~ok
           pc == IF req[c].todo = {j} THEN "remaining" ELSE "each"
<1>3. ~failed /\ FoundAll(c) => FoundNext(req[c].op) \subseteq {k.path : k \in todo}
  BY <1>1, <1>2, SoftDeleteBlob
<1>4. /\ req'[c].op = req[c].op /\ req'[c].pc = pc
      /\ req'[c].todo = todo /\ req'[c].failed = failed /\ req'[c].cut = req[c].cut
  <2>1. req'[c] = [req[c] EXCEPT !.pc = pc, !.todo = todo, !.failed = failed]
    BY <1>1, ContinueGoes DEF TypeInv
  <2> HIDE DEF pc, todo, failed
  <2> QED
    BY <1>2, <2>1 DEF RequestState
<1>5. pc = "remaining" => todo = {}
  OBVIOUS
<1>6. pc \in {"each", "remaining"}
  OBVIOUS
<1> HIDE DEF todo, failed, pc
<1>7. ~failed /\ "rows" \notin req'[c].cut =>
        /\ pc = "each" => FoundNext(req[c].op) \subseteq LeftNext(c)
        /\ pc = "remaining" => FoundNext(req[c].op) = {}
  BY <1>3, <1>4, <1>5 DEF LeftNext, FoundAll
<1> QED
  BY <1>2, <1>4, <1>6, <1>7, DeletingOnCourse DEF Succeeds

LEMMA SoftDeleteAlbumOnCourse ==
    ASSUME TypeInv, NEW c \in Clients, OnCourse(req[c]), SoftDeleteAlbum(c)
    PROVE  OnCourse(req[c])' /\ (Succeeds(c) /\ FoundAll(c) => FoundNext(req[c].op) = {})
<1> DEFINE kind == "softDeleteAlbum"
<1>1. CASE Locate(c, kind, AlbumBlobs(req[c].op, FALSE))
  <2>1. Sought(req[c].op) = AlbumBlobs(req[c].op, FALSE)
    BY <1>1, AtType, LocateKinds DEF Locate, TypeInv
  <2> QED
    BY <1>1, <2>1, LocateOnCourse
<1>2. CASE Fetch(c, kind)
  BY <1>2, FetchOnCourse DEF Succeeds, DeleteKinds
<1>3. ASSUME At(c, kind, "each"), NEW j \in req[c].todo, PanicOn(c, j)
      PROVE  OnCourse(req[c])' /\ ~Succeeds(c)
  BY <1>3, PanicOnCourse
<1>4. ASSUME At(c, kind, "each"), NEW j \in req[c].todo, SoftDeleteAlbumBlob(c, j)
      PROVE  OnCourse(req[c])' /\ ~Succeeds(c)
  BY <1>4, SoftDeleteAlbumBlobOnCourse
<1>5. CASE Remaining(c)
  BY <1>5, RemainingOnCourse
<1> QED
  BY <1>1, <1>2, <1>3, <1>4, <1>5 DEF SoftDeleteAlbum

-----------------------------------------------------------------------------
(* Restores: besides the blobs that are left, the mark that was given.     *)

MarkedNext(op) == {p \in Paths : images'[p] # NoBlob /\ Satisfies(images'[p].tags, LiveMark(op))}

LEMMA MarkedAfter ==
    ASSUME NEW op
    PROVE  BlobsWith(LiveMark(op))' = MarkedNext(op)
BY DEF BlobsWith, MarkedNext, LiveMark, Has, Satisfies

\* what a restore writes: a blob not deleted, with the mark if it is the first
Restored(kind, tags, seen) ==
    IF kind = "restoreAlbum" THEN RestoredInAlbum(tags, seen) ELSE RestoredInCollection(tags, seen)

LEMMA RestoredMarks ==
    ASSUME NEW op \in Requests, op.kind \in RestoreKinds, NEW tags \in Tags, Satisfies(tags, Sought(op))
    PROVE  Satisfies(Restored(op.kind, tags, {}), LiveMark(op))
<1>1. CASE op.kind = "restoreAlbum"
  <2>1. tags.collection = op.collection /\ tags.album = op.album
    BY <1>1 DEF Satisfies, Sought, AlbumBlobs
  <2> DEFINE t == RestoredInAlbum(tags, {})
  <2>2. t.collection = tags.collection /\ t.album = tags.album /\ t.isDeleted = FALSE /\ t.albumImage = TRUE
    BY DEF RestoredInAlbum, Tags
  <2> DEFINE q == LiveMark(op)
  <2>3. /\ DOMAIN q = {"collection", "album", "isDeleted", "albumImage"}
        /\ q["collection"] = op.collection /\ q["album"] = op.album
        /\ q["isDeleted"] = FALSE /\ q["albumImage"] = TRUE
    BY <1>1 DEF LiveMark
  <2> HIDE DEF t, q
  <2>4. /\ t["collection"] = q["collection"] /\ t["album"] = q["album"]
        /\ t["isDeleted"] = q["isDeleted"] /\ t["albumImage"] = q["albumImage"]
    BY <2>1, <2>2, <2>3
  <2>5. Satisfies(t, q)
    BY <2>3, <2>4 DEF Satisfies
  <2> QED
    BY <1>1, <2>5 DEF Restored, t, q
<1>2. CASE op.kind = "restoreCollection"
  <2>1. tags.collection = op.collection
    BY <1>2 DEF Satisfies, Sought, CollectionBlobs
  <2> DEFINE t == RestoredInCollection(tags, {})
  <2>2. t.collection = tags.collection /\ t.isDeleted = FALSE /\ t.collectionImage = TRUE
    BY DEF RestoredInCollection, Tags
  <2> DEFINE q == LiveMark(op)
  <2>3. /\ DOMAIN q = {"collection", "isDeleted", "collectionImage"}
        /\ q["collection"] = op.collection /\ q["isDeleted"] = FALSE /\ q["collectionImage"] = TRUE
    BY <1>2 DEF LiveMark
  <2> HIDE DEF t, q
  <2>4. /\ t["collection"] = q["collection"] /\ t["isDeleted"] = q["isDeleted"]
        /\ t["collectionImage"] = q["collectionImage"]
    BY <2>1, <2>2, <2>3
  <2>5. Satisfies(t, q)
    BY <2>3, <2>4 DEF Satisfies
  <2> QED
    BY <1>2, <2>5 DEF Restored, t, q
<1> QED
  BY <1>1, <1>2 DEF RestoreKinds

LEMMA RestoreBlobMarks ==
    ASSUME TypeInv, NEW c \in Clients, OnCourse(req[c]), NEW kind \in RestoreKinds, At(c, kind, "each"),
           NEW j \in req[c].todo, j.tags # EmptyTags, ~req[c].failed, FoundWhole(c),
           SetBlobTags(j.path, Restored(kind, j.tags, req[c].seen), TRUE)
    PROVE  MarkedNext(req[c].op) \ {k.path : k \in req[c].todo \ {j}} # {}
<1> DEFINE op == req[c].op
           t  == Restored(kind, j.tags, req[c].seen)
<1>1. /\ op \in Requests /\ op # None /\ op.kind = kind /\ req[c].pc = "each"
      /\ j \in Jobs /\ j.path \in Paths /\ j.tags \in Tags
  BY AtType DEF TypeInv, Jobs
<1>2. t \in Tags
  BY <1>1, NewTagsValuesType DEF Restored
<1>3. MarkGiven(req[c])
  BY <1>1 DEF OnCourse, QueryKinds
<1>4. /\ Satisfies(j.tags, Sought(op))
      /\ j.path \notin {k.path : k \in req[c].todo \ {j}}
  BY <1>1, <1>3 DEF MarkGiven, FoundWhole
<1>5. SetsTags(j.path, t)
  BY DEF SetBlobTags, SetsTags
<1> HIDE DEF t, op
<1>6. \A q \in Paths : /\ images'[q] # NoBlob <=> Has(q)
                       /\ Has(q) => images'[q].tags = IF q = j.path THEN t ELSE images[q].tags
  BY <1>1, <1>2, <1>5, SetsTagsEffect DEF TypeInv
<1>7. CASE req[c].seen = {}
  <2>1. Satisfies(t, LiveMark(op))
    BY <1>1, <1>4, <1>7, RestoredMarks DEF t
  <2>2. j.path \in MarkedNext(op)
    BY <1>1, <1>5, <1>6, <2>1 DEF SetsTags, MarkedNext
  <2> QED
    BY <1>4, <2>2 DEF op
<1>8. CASE req[c].seen # {}
  <2>1. PICK p \in BlobsWith(LiveMark(op)) : p \notin Left(req[c])
    BY <1>1, <1>3, <1>8 DEF MarkGiven, FoundWhole, op
  <2>2. p # j.path /\ p \notin {k.path : k \in req[c].todo \ {j}}
    BY <2>1 DEF Left
  <2>3. p \in MarkedNext(op)
    BY <1>6, <2>1, <2>2 DEF BlobsWith, MarkedNext
  <2> QED
    BY <2>2, <2>3 DEF op
<1> QED
  BY <1>7, <1>8

LEMMA LoopSeen ==
    ASSUME RequestsOK, NEW c \in Clients, NEW todo, NEW failed, NEW s \in RequestState,
           NextOrAnswer(c, todo, failed, s)
    PROVE  todo = {} \/ req'[c].seen = s.seen
<1> SUFFICES ASSUME todo # {} PROVE req'[c].seen = s.seen
  OBVIOUS
<1> DEFINE t == [s EXCEPT !.pc = "each", !.todo = todo, !.failed = failed]
<1>1. req'[c] = t
  BY ContinueGoes DEF NextOrAnswer
<1>2. t.seen = s.seen
  BY DEF RequestState
<1> QED
  BY <1>1, <1>2

\* a restore answered 200 has found all, and left a mark
RestoreDone(c, op) ==
    /\ FoundAll(c)   => FoundNext(op) = {}
    /\ FoundWhole(c) => MarkedNext(op) # {}

LEMMA RestoreBlobOnCourse ==
    ASSUME TypeInv, NEW c \in Clients, OnCourse(req[c]), NEW kind \in RestoreKinds, At(c, kind, "each"),
           NEW j \in req[c].todo, RestoreBlob(c, j, Restored(kind, j.tags, req[c].seen))
    PROVE  OnCourse(req[c])' /\ (Succeeds(c) => RestoreDone(c, req[c].op))
<1> DEFINE op == req[c].op
           t  == Restored(kind, j.tags, req[c].seen)
           todo == req[c].todo \ {j}
           seen == req[c].seen \cup {j.tags.album}
           s == [req[c] EXCEPT !.seen = seen]
<1>1. PICK ok \in BOOLEAN :
         /\ SetBlobTags(j.path, t, ok)
         /\ NextOrAnswer(c, todo, req[c].failed \/ ~ok, s)
  BY DEF RestoreBlob
<1> DEFINE failed == req[c].failed \/ ~ok
<1>2. /\ req[c] \in RequestState /\ op \in Requests /\ op # None /\ op.kind = kind
      /\ req[c].pc = "each" /\ req[c].failed \in BOOLEAN
      /\ j \in Jobs /\ j.path \in Paths /\ j.tags \in Tags /\ j.tags # EmptyTags
  BY AtType DEF TypeInv, Jobs, RestoreBlob
<1>3. t \in Tags /\ ~Satisfies(t, Sought(op))
  BY <1>2, NewTagsValuesType, WrittenUnfound DEF Restored
<1>4. MarkGiven(req[c]) /\ MarkingAll(req[c])
  BY <1>2 DEF OnCourse, QueryKinds
<1>5. ASSUME ~failed
      PROVE  /\ FoundAll(c) => FoundNext(op) \subseteq {k.path : k \in todo}
             /\ FoundWhole(c) => MarkedNext(op) \ {k.path : k \in todo} # {}
  <2>1. ok /\ ~req[c].failed
    BY <1>5
  <2>2. FoundAll(c) => Found(op) \subseteq Left(req[c]) \cup {}
    BY <1>2, <1>4, <2>1 DEF MarkingAll, FoundAll
  <2>3. SetBlobTags(j.path, t, TRUE)
    BY <1>1, <2>1
  <2>4. FoundAll(c) => FoundNext(op) \subseteq {k.path : k \in todo} \cup {}
    <3> HIDE DEF t, op
    <3> QED
      BY <1>2, <1>3, <2>2, <2>3, LoopShrinks DEF TypeInv
  <2>5. FoundWhole(c) => MarkedNext(op) \ {k.path : k \in todo} # {}
    BY <1>2, <2>1, <2>3, RestoreBlobMarks
  <2> QED
    BY <2>4, <2>5
<1>6. /\ s \in RequestState /\ s.op = op /\ s.rows = req[c].rows /\ s.job = req[c].job /\ s.seen = seen
      /\ s.cut = req[c].cut
  BY <1>2 DEF RequestState, Tags
<1> HIDE DEF s, t, failed
<1>7. \/ todo = {} /\ Ended(c, IF failed THEN "206" ELSE "200")
      \/ Goes(c, "each", req[c].rows, todo, req[c].job, failed) /\ req'[c].seen = seen
  <2>1. NextOrAnswer(c, todo, failed, s)
    BY <1>1 DEF failed
  <2>2. \/ todo = {} /\ Ended(c, IF failed THEN "206" ELSE "200")
        \/ Goes(c, "each", s.rows, todo, s.job, failed)
    BY <1>6, <2>1, LoopGoes DEF TypeInv
  <2>3. CASE todo = {}
    BY <2>1, <2>3, AnswerEnds DEF NextOrAnswer, TypeInv, Statuses
  <2>4. CASE todo # {}
    BY <1>6, <2>1, <2>2, <2>4, LoopSeen DEF TypeInv
  <2> QED
    BY <2>3, <2>4
<1> HIDE DEF seen, todo
<1>8. CASE todo = {} /\ Ended(c, IF failed THEN "206" ELSE "200")
  <2>1. OnCourse(req[c])'
    BY <1>8, EndedOnCourse
  <2>2. Succeeds(c) => ~failed
    BY <1>8 DEF Ended, Succeeds
  <2> QED
    BY <1>5, <1>8, <2>1, <2>2 DEF RestoreDone
<1>9. CASE Goes(c, "each", req[c].rows, todo, req[c].job, failed) /\ req'[c].seen = seen
  <2>1. /\ req'[c].op = op /\ req'[c].pc = "each" /\ req'[c].todo = todo /\ req'[c].failed = failed
        /\ req'[c].cut = req[c].cut
    BY <1>9 DEF Goes
  <2> HIDE DEF op
  <2>2. req[c].cut = {} =>
        /\ \A k \in todo : k.tags = EmptyTags \/ Satisfies(k.tags, Sought(op))
        /\ \A k, l \in todo : k.path = l.path => k = l
    BY <1>2, <1>4 DEF MarkGiven, todo, op
  <2>8. req'[c].cut = {} => \A k \in req'[c].todo : k.tags = EmptyTags \/ Satisfies(k.tags, Sought(req'[c].op))
    BY <2>1, <2>2
  <2>3. req'[c].cut = {} =>
          (\A k \in req[c].todo : k.tags = EmptyTags \/ Satisfies(k.tags, Sought(req[c].op)))'
    BY <2>8 DEF Satisfies, EmptyTags, Sought, CollectionBlobs, AlbumBlobs, CollectionImageQuery,
                AlbumImageQuery, RenameQuery
  <2>4. (req[c].cut = {} /\ ~req[c].failed /\ req[c].seen # {} =>
           BlobsWith(LiveMark(req[c].op)) \ Left(req[c]) # {})'
    BY <1>5, <2>1, MarkedAfter DEF Left, FoundWhole
  <2>5. MarkGiven(req[c])'
    BY <2>1, <2>2, <2>3, <2>4 DEF MarkGiven
  <2>6. ~failed /\ "rows" \notin req'[c].cut => FoundNext(op) \subseteq LeftNext(c)
    BY <1>5, <2>1 DEF LeftNext, FoundAll
  <2>7. OnCourse(req[c])'
    BY <1>2, <2>1, <2>5, <2>6, MarkingOnCourse
  <2> QED
    BY <2>1, <2>7 DEF Succeeds
<1> QED
  BY <1>7, <1>8, <1>9

LEMMA RestoreOnCourse ==
    ASSUME TypeInv, NEW c \in Clients, OnCourse(req[c]), RestoreCollection(c) \/ RestoreAlbum(c)
    PROVE  OnCourse(req[c])' /\ (Succeeds(c) => RestoreDone(c, req[c].op))
<1>1. ASSUME NEW kind \in RestoreKinds, Locate(c, kind, Sought(req[c].op))
      PROVE  OnCourse(req[c])' /\ ~Succeeds(c)
  BY <1>1, LocateOnCourse
<1>2. ASSUME NEW kind \in RestoreKinds, Fetch(c, kind)
      PROVE  OnCourse(req[c])' /\ ~Succeeds(c)
  BY <1>2, FetchOnCourse DEF Succeeds
<1>3. ASSUME NEW kind \in RestoreKinds, At(c, kind, "each"), NEW j \in req[c].todo,
             PanicOn(c, j) \/ RestoreBlob(c, j, Restored(kind, j.tags, req[c].seen))
      PROVE  OnCourse(req[c])' /\ (Succeeds(c) => RestoreDone(c, req[c].op))
  BY <1>3, PanicOnCourse, RestoreBlobOnCourse
<1>4. CASE RestoreCollection(c)
  <2> DEFINE kind == "restoreCollection"
  <2>1. kind \in RestoreKinds /\ \A tags, seen : Restored(kind, tags, seen) = RestoredInCollection(tags, seen)
    BY DEF RestoreKinds, Restored
  <2>2. Locate(c, kind, CollectionBlobs(req[c].op, TRUE)) => Locate(c, kind, Sought(req[c].op))
    BY AtType, LocateKinds DEF Locate, TypeInv
  <2> QED
    BY <1>1, <1>2, <1>3, <1>4, <2>1, <2>2 DEF RestoreCollection
<1>5. CASE RestoreAlbum(c)
  <2> DEFINE kind == "restoreAlbum"
  <2>1. kind \in RestoreKinds /\ \A tags, seen : Restored(kind, tags, seen) = RestoredInAlbum(tags, seen)
    BY DEF RestoreKinds, Restored
  <2>2. Locate(c, kind, AlbumBlobs(req[c].op, TRUE)) => Locate(c, kind, Sought(req[c].op))
    BY AtType, LocateKinds DEF Locate, TypeInv
  <2> QED
    BY <1>1, <1>2, <1>3, <1>5, <2>1, <2>2 DEF RestoreAlbum
<1> QED
  BY <1>4, <1>5

-----------------------------------------------------------------------------
(* Thumbnails: clearing the old ones, as long as nothing fails.            *)

ChoiceHolds(op) == Chooses(op) /\ faults = MaxFaults => FoundNext(op) \subseteq {op.image}

LEMMA ThumbnailOp ==
    ASSUME TypeInv, NEW c \in Clients, OnCourse(req[c]), NEW kind \in ThumbnailKinds, NEW pc,
           At(c, kind, pc)
    PROVE  /\ req[c] \in RequestState /\ req[c].pc = pc
           /\ req[c].op \in Requests /\ req[c].op # None /\ req[c].op.kind = kind
           /\ req[c].todo \in SUBSET Jobs
           /\ RowsCurrent(req[c]) /\ ClearingAll(req[c])
           /\ faults = MaxFaults /\ Chooses(req[c].op) =>
                /\ req[c].cut = {} /\ pc # "rotate"
                /\ pc = "unmark" => Found(req[c].op) \subseteq Left(req[c]) \cup {req[c].op.image}
                /\ pc \in {"get", "set"} => Found(req[c].op) \subseteq {req[c].op.image}
<1>1. /\ req[c] \in RequestState /\ req[c].pc = pc
      /\ req[c].op \in Requests /\ req[c].op # None /\ req[c].op.kind = kind
      /\ req[c].todo \in SUBSET Jobs
  BY AtType DEF TypeInv
<1>2. RowsCurrent(req[c]) /\ ClearingAll(req[c])
  BY <1>1 DEF OnCourse, QueryKinds
<1> QED
  BY <1>1, <1>2 DEF ClearingAll

LEMMA ThumbnailFindOnCourse ==
    ASSUME TypeInv, NEW c \in Clients, OnCourse(req[c]), NEW kind \in ThumbnailKinds,
           ThumbnailFind(c, kind, Sought(req[c].op))
    PROVE  OnCourse(req[c])' /\ ~Succeeds(c)
<1> DEFINE op == req[c].op
<1>1. /\ At(c, kind, "find") /\ req[c] \in RequestState /\ req[c].pc = "find"
      /\ op \in Requests /\ op # None /\ op.kind = kind
      /\ faults = MaxFaults /\ Chooses(op) => req[c].cut = {}
  BY ThumbnailOp DEF ThumbnailFind
<1>2. CASE FindBlobs(c, Sought(op))
  BY <1>1, <1>2, FindBlobsAsks, AskedOnCourse
<1>3. CASE (FindsNone(Sought(op)) \/ FindFails) /\ Answer(c, "404")
  BY <1>3, AnswerEnds, EndedOnCourse DEF Ended, Succeeds, TypeInv, Statuses
<1>4. CASE (FindsNone(Sought(op)) \/ FindFails) /\ Continue(c, [req[c] EXCEPT !.pc = "get"])
  <2>1. req'[c].op = op /\ req'[c].pc = "get" /\ req'[c].cut = req[c].cut
    BY <1>1, <1>4, ContinueGoes DEF TypeInv, RequestState
  <2>2. images' = images
    BY <1>4 DEF FindsNone, FindFails, storeVars
  <2>9. FindsNone(Sought(op)) => CallWorks
    BY DEF FindsNone, storeVars, CallWorks
  <2>3. faults' = MaxFaults => FindsNone(Sought(op)) /\ faults = MaxFaults
    BY <1>4, <2>9, NothingFailed DEF FindFails, TypeInv
  <2>4. FindsNone(Sought(op)) => FoundNext(op) = {}
    <3>1. FoundNext(op) = Found(op)
      BY <2>2, RowsAfter
    <3>2. MatchingRows(Sought(op)) = {<<p, images[p].row>> : p \in Found(op)}
      BY FoundRows
    <3> QED
      BY <3>1, <3>2 DEF FindsNone
  <2> HIDE DEF op
  <2> QED
    BY <1>1, <2>1, <2>3, <2>4, ClearingOnCourse DEF Succeeds
<1> QED
  BY <1>2, <1>3, <1>4 DEF ThumbnailFind

LEMMA ThumbnailFetchOnCourse ==
    ASSUME TypeInv, NEW c \in Clients, OnCourse(req[c]), NEW kind \in ThumbnailKinds,
           ThumbnailFetch(c, kind)
    PROVE  OnCourse(req[c])' /\ ~Succeeds(c)
<1> DEFINE op == req[c].op
           others(jobs) == {j \in jobs : j.path # op.image}
<1>1. /\ At(c, kind, "tags") /\ req[c] \in RequestState /\ req[c].pc = "tags"
      /\ op \in Requests /\ op # None /\ op.kind = kind /\ RowsCurrent(req[c])
      /\ faults = MaxFaults /\ Chooses(op) => req[c].cut = {}
  BY ThumbnailOp DEF ThumbnailFetch
<1>2. PICK jobs \in Fetches(req[c].rows) :
        /\ FetchTags(c, jobs)
        /\ LET fetched == Fetched(c, jobs)
           IN  Continue(c,
                 IF ~Chooses(op)
                 THEN [fetched EXCEPT !.pc = "rotate", !.todo = jobs]
                 ELSE IF others(jobs) = {} THEN [fetched EXCEPT !.pc = "get"]
                 ELSE                         [fetched EXCEPT !.pc = "unmark", !.todo = others(jobs)])
  BY DEF ThumbnailFetch
<1> DEFINE fetched == Fetched(c, jobs)
<1>3. fetched \in RequestState /\ fetched.op = op
  BY <1>1, FetchedType, FetchedFields DEF TypeInv
<1>4. images' = images /\ (CallWorks \/ CallFails)
  BY <1>2 DEF FetchTags
<1>5. CallWorks => fetched.cut = req[c].cut
  BY <1>1, <1>2, FetchedCut DEF TypeInv
<1> HIDE DEF fetched
<1> DEFINE plain == Chooses(op) /\ faults' = MaxFaults
<1>6. plain => fetched.cut = {} /\ {j.path : j \in jobs} = Found(op)
  <2> SUFFICES ASSUME plain PROVE fetched.cut = {} /\ {j.path : j \in jobs} = Found(op)
    OBVIOUS
  <2>1. CallWorks /\ req[c].cut = {}
    BY <1>1, <1>4, NothingFailed DEF TypeInv
  <2>2. req[c].rows = MatchingRows(Sought(op))
    BY <1>1, <2>1 DEF RowsCurrent
  <2> QED
    BY <1>1, <1>5, <2>1, <2>2, FetchedJobs
<1>7. FoundNext(op) = Found(op)
  BY <1>4, RowsAfter
<1> HIDE DEF op
<1>8. plain => fetched.cut = {} /\ FoundNext(op) \subseteq {j.path : j \in others(jobs)} \cup {op.image}
  BY <1>6, <1>7
<1> HIDE DEF others, plain
<1>9. CASE ~Chooses(op)
  <2>1. req'[c].op = op /\ req'[c].pc = "rotate"
    <3>1. req'[c] = [fetched EXCEPT !.pc = "rotate", !.todo = jobs]
      BY <1>2, <1>9, ContinueGoes DEF TypeInv, fetched
    <3> QED
      BY <1>3, <3>1 DEF RequestState
  <2> QED
    BY <1>1, <1>9, <2>1, ClearingOnCourse DEF Succeeds
<1>10. CASE Chooses(op) /\ others(jobs) = {}
  <2>1. req'[c].op = op /\ req'[c].pc = "get" /\ req'[c].cut = fetched.cut
    <3>1. req'[c] = [fetched EXCEPT !.pc = "get"]
      BY <1>2, <1>10, ContinueGoes DEF TypeInv, fetched
    <3> QED
      BY <1>3, <3>1 DEF RequestState
  <2>2. plain => FoundNext(op) \subseteq {op.image}
    BY <1>8, <1>10
  <2> QED
    BY <1>1, <1>8, <2>1, <2>2, ClearingOnCourse DEF Succeeds, plain
<1>11. CASE Chooses(op) /\ others(jobs) # {}
  <2>1. /\ req'[c].op = op /\ req'[c].pc = "unmark" /\ req'[c].todo = others(jobs)
        /\ req'[c].cut = fetched.cut
    <3>1. req'[c] = [fetched EXCEPT !.pc = "unmark", !.todo = others(jobs)]
      BY <1>2, <1>11, ContinueGoes DEF TypeInv, fetched
    <3> QED
      BY <1>3, <3>1 DEF RequestState
  <2>2. plain => FoundNext(op) \subseteq LeftNext(c) \cup {op.image}
    BY <1>8, <2>1 DEF LeftNext
  <2> QED
    BY <1>1, <1>8, <2>1, <2>2, ClearingOnCourse DEF Succeeds, plain
<1> QED
  BY <1>9, <1>10, <1>11

LEMMA ThumbnailClearOnCourse ==
    ASSUME TypeInv, NEW c \in Clients, OnCourse(req[c]), NEW kind \in ThumbnailKinds,
           ThumbnailClear(c, kind)
    PROVE  OnCourse(req[c])' /\ ~Succeeds(c)
<1> DEFINE op == req[c].op
<1>1. /\ At(c, kind, "unmark") /\ req[c] \in RequestState /\ req[c].pc = "unmark"
      /\ op \in Requests /\ op # None /\ op.kind = kind /\ req[c].todo \in SUBSET Jobs
      /\ faults = MaxFaults /\ Chooses(op) =>
           req[c].cut = {} /\ Found(op) \subseteq Left(req[c]) \cup {op.image}
  BY ThumbnailOp DEF ThumbnailClear
<1>2. PICK j \in req[c].todo :
         \/ PanicOn(c, j)
         \/ /\ \E ok \in BOOLEAN : SetBlobTags(j.path, Marked(kind, j.tags, FALSE), ok)
            /\ Continue(c, [req[c] EXCEPT !.pc = IF req[c].todo = {j} THEN "get" ELSE "unmark",
                                          !.todo = @ \ {j}])
  BY DEF ThumbnailClear
<1>3. CASE PanicOn(c, j)
  BY <1>3, PanicOnCourse
<1>4. ASSUME NEW ok \in BOOLEAN, SetBlobTags(j.path, Marked(kind, j.tags, FALSE), ok),
             Continue(c, [req[c] EXCEPT !.pc = IF req[c].todo = {j} THEN "get" ELSE "unmark",
                                        !.todo = @ \ {j}])
      PROVE  OnCourse(req[c])' /\ ~Succeeds(c)
  <2> DEFINE pc == IF req[c].todo = {j} THEN "get" ELSE "unmark"
             todo == req[c].todo \ {j}
             t == Marked(kind, j.tags, FALSE)
  <2>1. j.path \in Paths /\ t \in Tags /\ ~Satisfies(t, Sought(op))
    BY <1>1, NewTagsValuesType, WrittenUnfound DEF Jobs, Marked
  <2>2. req'[c].op = op /\ req'[c].pc = pc /\ req'[c].todo = todo /\ req'[c].cut = req[c].cut
    <3>1. req'[c] = [req[c] EXCEPT !.pc = pc, !.todo = todo]
      BY <1>4, ContinueGoes DEF TypeInv
    <3> HIDE DEF pc, todo
    <3> QED
      BY <1>1, <3>1 DEF RequestState
  <2>3. /\ pc \in {"get", "unmark"}
        /\ pc = "get" => todo = {}
    OBVIOUS
  <2> HIDE DEF pc, op, t
  <2>4. ASSUME Chooses(op), faults' = MaxFaults
        PROVE  req[c].cut = {} /\ FoundNext(op) \subseteq {k.path : k \in todo} \cup {op.image}
    <3>1. faults = MaxFaults /\ ~CallFails
      BY <1>4, <2>4, NothingFailed DEF SetBlobTags, TypeInv
    <3>2. req[c].cut = {} /\ Found(op) \subseteq Left(req[c]) \cup {op.image}
      BY <1>1, <2>4, <3>1
    <3>3. CASE ok
      <4>1. SetBlobTags(j.path, t, TRUE)
        BY <1>4, <3>3 DEF t
      <4> QED
        BY <1>1, <2>1, <3>2, <4>1, LoopShrinks DEF TypeInv
    <3>4. CASE ~ok
      <4>1. images' = images /\ ~Has(j.path)
        BY <1>4, <3>1, <3>4 DEF SetBlobTags
      <4>2. FoundNext(op) = Found(op) /\ j.path \notin Found(op)
        BY <4>1, RowsAfter DEF Found, BlobsWith
      <4> QED
        BY <3>2, <4>2 DEF Left
    <3> QED
      BY <3>3, <3>4
  <2> HIDE DEF todo
  <2>5. Chooses(op) /\ faults' = MaxFaults =>
          /\ req'[c].cut = {}
          /\ pc = "unmark" => FoundNext(op) \subseteq LeftNext(c) \cup {op.image}
          /\ pc = "get" => FoundNext(op) \subseteq {op.image}
    BY <2>2, <2>3, <2>4 DEF LeftNext
  <2> QED
    BY <1>1, <2>2, <2>3, <2>5, ClearingOnCourse DEF Succeeds
<1> QED
  BY <1>2, <1>3, <1>4

LEMMA ThumbnailGetOnCourse ==
    ASSUME TypeInv, NEW c \in Clients, OnCourse(req[c]), NEW kind \in ThumbnailKinds,
           ThumbnailGet(c, kind)
    PROVE  OnCourse(req[c])' /\ ~Succeeds(c)
<1> DEFINE op == req[c].op
<1>1. /\ At(c, kind, "get") /\ req[c] \in RequestState /\ req[c].pc = "get"
      /\ op \in Requests /\ op # None /\ op.kind = kind
      /\ faults = MaxFaults /\ Chooses(op) => req[c].cut = {} /\ Found(op) \subseteq {op.image}
  BY ThumbnailOp DEF ThumbnailGet
<1>2. ASSUME NEW n \in 1..7, ReadTags(op.image, n),
             Continue(c, [req[c] EXCEPT !.pc = "set", !.tags = FirstTags(images[op.image].tags, n)])
      PROVE  OnCourse(req[c])' /\ ~Succeeds(c)
  <2>1. req'[c].op = op /\ req'[c].pc = "set" /\ req'[c].cut = req[c].cut
    <3> DEFINE tags == FirstTags(images[op.image].tags, n)
    <3>1. req'[c] = [req[c] EXCEPT !.pc = "set", !.tags = tags]
      BY <1>2, ContinueGoes DEF TypeInv
    <3> HIDE DEF tags
    <3> QED
      BY <1>1, <3>1 DEF RequestState
  <2>2. images' = images /\ (CallWorks \/ CallFails)
    BY <1>2 DEF ReadTags
  <2>3. FoundNext(op) = Found(op)
    BY <2>2, RowsAfter
  <2>4. faults' = MaxFaults => faults = MaxFaults
    BY <2>2, NothingFailed DEF TypeInv
  <2> HIDE DEF op
  <2> QED
    BY <1>1, <2>1, <2>3, <2>4, ClearingOnCourse DEF Succeeds
<1>3. CASE Answer(c, "404")
  BY <1>3, AnswerEnds, EndedOnCourse DEF Ended, Succeeds, TypeInv, Statuses
<1> QED
  BY <1>2, <1>3 DEF ThumbnailGet

LEMMA ThumbnailSetOnCourse ==
    ASSUME TypeInv, NEW c \in Clients, OnCourse(req[c]), NEW kind \in ThumbnailKinds,
           ThumbnailSet(c, kind)
    PROVE  OnCourse(req[c])' /\ (Succeeds(c) => ChoiceHolds(req[c].op))
<1> DEFINE op == req[c].op
           t == Rotated(Marked(kind, req[c].tags, TRUE), op)
<1>1. /\ At(c, kind, "set")
      /\ faults = MaxFaults /\ Chooses(op) => Found(op) \subseteq {op.image}
  BY ThumbnailOp DEF ThumbnailSet
<1>2. PICK ok \in BOOLEAN : SetBlobTags(op.image, t, ok) /\ Answer(c, IF ok THEN "200" ELSE "500")
  BY DEF ThumbnailSet
<1>3. op \in Requests /\ op.image \in Paths /\ req[c].tags \in Tags
  BY <1>1, ThumbnailAt
<1>4. t \in Tags
  <2>1. Marked(kind, req[c].tags, TRUE) \in Tags
    BY <1>3, NewTagsValuesType DEF Marked
  <2> QED
    BY <1>3, <2>1, NewTagsValuesType
<1>5. (IF ok THEN "200" ELSE "500") \in Statuses
  BY DEF Statuses
<1>6. Ended(c, IF ok THEN "200" ELSE "500")
  BY <1>2, <1>5, AnswerEnds DEF TypeInv
<1> HIDE DEF op, t
<1>7. ASSUME Succeeds(c), Chooses(op), faults = MaxFaults
      PROVE  FoundNext(op) \subseteq {op.image}
  <2>1. ok
    BY <1>6, <1>7 DEF Ended, Succeeds
  <2>2. SetsTags(op.image, t) /\ CallWorks
    BY <1>2, <2>1 DEF SetBlobTags, SetsTags
  <2>3. Found(op) \subseteq {op.image}
    BY <1>1, <1>7
  <2>4. \A q \in Paths \ {op.image} : q \in FoundNext(op) => q \in Found(op)
    BY <1>3, <1>4, <2>2, SetsTagsEffect DEF FoundNext, Found, BlobsWith, TypeInv
  <2> QED
    BY <2>3, <2>4 DEF FoundNext
<1> QED
  BY <1>6, <1>7, EndedOnCourse DEF ChoiceHolds, op

LEMMA ThumbnailRotateOnCourse ==
    ASSUME TypeInv, NEW c \in Clients, OnCourse(req[c]), NEW kind \in ThumbnailKinds,
           ThumbnailRotate(c, kind)
    PROVE  OnCourse(req[c])' /\ (Succeeds(c) => ChoiceHolds(req[c].op))
<1>1. faults = MaxFaults => ~Chooses(req[c].op)
  BY ThumbnailOp DEF ThumbnailRotate
<1>2. PICK j \in req[c].todo :
         \/ PanicOn(c, j)
         \/ \E ok \in BOOLEAN : /\ SetBlobTags(j.path, Rotated(j.tags, req[c].op), ok)
                                /\ Answer(c, IF ok THEN "200" ELSE "500")
  BY DEF ThumbnailRotate
<1>3. CASE PanicOn(c, j)
  BY <1>3, PanicOnCourse
<1>4. ASSUME NEW ok \in BOOLEAN, SetBlobTags(j.path, Rotated(j.tags, req[c].op), ok),
             Answer(c, IF ok THEN "200" ELSE "500")
      PROVE  OnCourse(req[c])' /\ ChoiceHolds(req[c].op)
  <2>1. Ended(c, IF ok THEN "200" ELSE "500")
    BY <1>4, AnswerEnds DEF TypeInv, Statuses
  <2> QED
    BY <1>1, <2>1, EndedOnCourse DEF ChoiceHolds
<1> QED
  BY <1>2, <1>3, <1>4

LEMMA ThumbnailOnCourse ==
    ASSUME TypeInv, NEW c \in Clients, OnCourse(req[c]), ThumbnailCollection(c) \/ ThumbnailAlbum(c)
    PROVE  OnCourse(req[c])' /\ (Succeeds(c) => ChoiceHolds(req[c].op))
<1>1. ASSUME NEW kind \in ThumbnailKinds,
             \/ ThumbnailFind(c, kind, Sought(req[c].op)) \/ ThumbnailFetch(c, kind)
             \/ ThumbnailClear(c, kind) \/ ThumbnailGet(c, kind)
             \/ ThumbnailSet(c, kind) \/ ThumbnailRotate(c, kind)
      PROVE  OnCourse(req[c])' /\ (Succeeds(c) => ChoiceHolds(req[c].op))
  BY <1>1, ThumbnailFindOnCourse, ThumbnailFetchOnCourse, ThumbnailClearOnCourse,
     ThumbnailGetOnCourse, ThumbnailSetOnCourse, ThumbnailRotateOnCourse
<1>2. CASE ThumbnailCollection(c)
  <2> DEFINE kind == "thumbnailCollection"
  <2>1. kind \in ThumbnailKinds
    BY DEF ThumbnailKinds
  <2>2. ThumbnailFind(c, kind, CollectionImageQuery(req[c].op.collection)) =>
          ThumbnailFind(c, kind, Sought(req[c].op))
    BY AtType, LocateKinds DEF ThumbnailFind, TypeInv
  <2> QED
    BY <1>1, <1>2, <2>1, <2>2 DEF ThumbnailCollection
<1>3. CASE ThumbnailAlbum(c)
  <2> DEFINE kind == "thumbnailAlbum"
  <2>1. kind \in ThumbnailKinds
    BY DEF ThumbnailKinds
  <2>2. ThumbnailFind(c, kind, AlbumImageQuery(req[c].op)) =>
          ThumbnailFind(c, kind, Sought(req[c].op))
    BY AtType, LocateKinds DEF ThumbnailFind, TypeInv
  <2> QED
    BY <1>1, <1>3, <2>1, <2>2 DEF ThumbnailAlbum
<1> QED
  BY <1>2, <1>3

-----------------------------------------------------------------------------
(* Renames: the blobs still to come, the one at hand, and those a failed   *)
(* delete has left behind.                                                 *)

\* s has all that is found but for lost in its loop or at hand
AllBut(s, lost) ==
    /\ lost \in SUBSET Paths /\ IsFiniteSet(lost) /\ Cardinality(lost) <= MaxFaults - faults
    /\ Found(s.op) \subseteq Left(s) \cup Moving(s) \cup lost

RenameDone(op) == Cardinality(FoundNext(op)) <= MaxFaults - faults'

LEMMA RenameLost ==
    ASSUME TypeInv, NEW c \in Clients, OnCourse(req[c]), NEW kind \in RenameKinds, NEW pc,
           pc \notin {"find", "tags"}, At(c, kind, pc), ~req[c].failed, FoundAll(c)
    PROVE  \E lost : AllBut(req[c], lost)
<1>1. req[c].op \in Renames /\ req[c].op # None /\ req[c].pc = pc
  BY RenameAt
<1>2. req[c].op.kind \in QueryKinds
  BY <1>1 DEF Renames, QueryKinds
<1>3. \E lost \in SUBSET Paths :
          /\ IsFiniteSet(lost) /\ Cardinality(lost) <= MaxFaults - faults
          /\ Found(req[c].op) \subseteq Left(req[c]) \cup Moving(req[c]) \cup lost
  BY <1>1, <1>2 DEF OnCourse, RenamingAll, FoundAll
<1> QED
  BY <1>3 DEF AllBut

\* Some lost before the step are enough after it, if no call of it failed.
LEMMA StillLost ==
    ASSUME StoreTypeOK, CallWorks \/ CallFails, NEW s, NEW lost, AllBut(s, lost)
    PROVE  /\ lost \in SUBSET Paths /\ IsFiniteSet(lost) /\ Cardinality(lost) \in Nat
           /\ Cardinality(lost) <= MaxFaults - faults'
           /\ CallFails => Cardinality(lost) + 1 <= MaxFaults - faults'
<1>1. lost \in SUBSET Paths /\ IsFiniteSet(lost) /\ Cardinality(lost) <= MaxFaults - faults
  BY DEF AllBut
<1>2. Cardinality(lost) \in Nat
  BY <1>1, FS_CardinalityType
<1> QED
  BY <1>1, <1>2, LibraryAssumption DEF StoreTypeOK, CallWorks, CallFails

LEMMA FewLeft ==
    ASSUME NEW op, NEW lost, IsFiniteSet(lost), Cardinality(lost) \in Nat,
           Cardinality(lost) <= MaxFaults - faults', MaxFaults - faults' \in Int,
           FoundNext(op) \subseteq lost
    PROVE  RenameDone(op)
<1>1. IsFiniteSet(FoundNext(op)) /\ Cardinality(FoundNext(op)) <= Cardinality(lost)
  BY FS_Subset
<1>2. Cardinality(FoundNext(op)) \in Nat
  BY <1>1, FS_CardinalityType
<1> QED
  BY <1>1, <1>2 DEF RenameDone

LEMMA GivesUpOnCourse ==
    ASSUME TypeInv, NEW c \in Clients, req[c].op \in Renames, NEW todo, GivesUp(c, todo)
    PROVE  OnCourse(req[c])' /\ ~Succeeds(c)
<1>1. CASE Ended(c, "206")
  BY <1>1, EndedOnCourse DEF Ended, Succeeds
<1>2. CASE \E job : Goes(c, "each", req[c].rows, todo, job, TRUE)
  <2>1. req'[c].op = req[c].op /\ req'[c].pc = "each" /\ req'[c].failed = TRUE
    BY <1>2 DEF Goes
  <2> DEFINE op == req[c].op
  <2>2. op \in Renames /\ req'[c].op = op
    BY <2>1
  <2> HIDE DEF op
  <2> QED
    BY <2>1, <2>2, RenamingOnCourse DEF Succeeds
<1> QED
  BY <1>1, <1>2 DEF GivesUp

LEMMA RenameFetchOnCourse ==
    ASSUME TypeInv, NEW c \in Clients, OnCourse(req[c]), NEW kind \in RenameKinds,
           RenameFetch(c, kind)
    PROVE  OnCourse(req[c])' /\ ~Succeeds(c)
<1> DEFINE op == req[c].op
<1>1. /\ At(c, kind, "tags") /\ req[c].pc = "tags" /\ op \in Renames /\ op \in Requests /\ op # None
      /\ op.kind \in QueryKinds
  BY RenameAt DEF RenameFetch, Renames, QueryKinds
<1>2. "rows" \notin req[c].cut => req[c].rows = MatchingRows(Sought(op))
  BY <1>1 DEF OnCourse, RowsCurrent
<1>3. PICK jobs \in Fetches(req[c].rows) :
        Brings(c, jobs) /\ req'[c].pc = "each" /\ req'[c].todo = jobs
  BY <1>1, FetchToLoopSteps DEF RenameFetch
<1>4. req'[c].op = op /\ images' = images
  BY <1>3 DEF Brings
<1>5. IsFiniteSet({}) /\ Cardinality({}) = 0 /\ 0 <= MaxFaults - faults'
  BY <1>3, FS_EmptySet, LibraryAssumption DEF Brings, CallWorks, CallFails, TypeInv, StoreTypeOK
<1>6. ASSUME "rows" \notin req'[c].cut
      PROVE  FoundNext(op) \subseteq LeftNext(c) \cup MovingNext(c) \cup {}
  <2>1. "rows" \notin req[c].cut
    BY <1>3, <1>6 DEF Brings
  <2>2. {j.path : j \in jobs} = Found(op)
    BY <1>1, <1>2, <2>1, FetchedJobs
  <2>3. LeftNext(c) = Found(op)
    BY <1>3, <2>2 DEF LeftNext
  <2> QED
    BY <1>4, <2>3, RowsAfter
<1> HIDE DEF op
<1>7. OnCourse(req[c])'
  BY <1>1, <1>3, <1>4, <1>5, <1>6, RenamingOnCourse
<1> QED
  BY <1>3, <1>7 DEF Succeeds

\* the steps of a blob up to its copy
LEMMA RenameReadOnCourse ==
    ASSUME TypeInv, NEW c \in Clients, OnCourse(req[c]), NEW kind \in RenameKinds,
           RenameRead(c, kind)
    PROVE  OnCourse(req[c])' /\ ~Succeeds(c)
<1> DEFINE op == req[c].op
<1>1. /\ At(c, kind, "each") /\ req[c] \in RequestState /\ req[c].pc = "each"
      /\ op \in Renames /\ op # None
  BY RenameAt DEF RenameRead
<1>2. PICK j \in req[c].todo, ok \in BOOLEAN :
         /\ ReadBlob(j.path, ok)
         /\ IF ok
            THEN Continue(c, [req[c] EXCEPT !.pc = "copyTags", !.todo = @ \ {j},
                                            !.job = j, !.photo = images[j.path].photo])
            ELSE NextOrAnswer(c, req[c].todo \ {j}, TRUE, req[c])
  BY DEF RenameRead
<1>3. CASE ok
  <2> DEFINE todo == req[c].todo \ {j}
             photo == images[j.path].photo
  <2>1. req'[c] = [req[c] EXCEPT !.pc = "copyTags", !.todo = todo, !.job = j, !.photo = photo]
    BY <1>2, <1>3, ContinueGoes DEF TypeInv
  <2> HIDE DEF photo
  <2>2. /\ req'[c].op = op /\ req'[c].pc = "copyTags" /\ req'[c].todo = todo
        /\ req'[c].job = j /\ req'[c].failed = req[c].failed /\ req'[c].cut = req[c].cut
    <3> HIDE DEF todo
    <3> QED
      BY <1>1, <2>1 DEF RequestState
  <2>3. /\ FoundNext(op) = Found(op) /\ (CallWorks \/ CallFails)
    BY <1>2, RowsAfter DEF ReadBlob
  <2>4. LeftNext(c) = {k.path : k \in todo} /\ MovingNext(c) = {j.path}
    BY <2>2 DEF LeftNext, MovingNext
  <2>5. Left(req[c]) \subseteq LeftNext(c) \cup MovingNext(c)
    BY <2>4 DEF Left
  <2> HIDE DEF op, todo
  <2>6. ASSUME ~req[c].failed, FoundAll(c)
        PROVE  \E lost \in SUBSET Paths :
                  /\ IsFiniteSet(lost) /\ Cardinality(lost) <= MaxFaults - faults'
                  /\ FoundNext(op) \subseteq LeftNext(c) \cup MovingNext(c) \cup lost
    <3>1. PICK lost : AllBut(req[c], lost)
      BY <1>1, <2>6, RenameLost
    <3>2. Found(op) \subseteq Left(req[c]) \cup lost
      BY <1>1, <3>1 DEF AllBut, Moving, op
    <3> QED
      BY <2>3, <2>5, <3>1, <3>2, StillLost DEF TypeInv
  <2>7. OnCourse(req[c])'
    BY <1>1, <2>2, <2>6, RenamingOnCourse DEF FoundAll
  <2> QED
    BY <2>2, <2>7 DEF Succeeds
<1>4. CASE ~ok
  <2> DEFINE todo == req[c].todo \ {j}
  <2>1. NextOrAnswer(c, todo, TRUE, req[c])
    BY <1>2, <1>4
  <2> HIDE DEF todo
  <2>2. GivesUp(c, todo)
    BY <1>1, <2>1, LoopGoes DEF GivesUp, TypeInv
  <2> QED
    BY <1>1, <2>2, GivesUpOnCourse
<1> QED
  BY <1>3, <1>4

LEMMA RenameReadTagsOnCourse ==
    ASSUME TypeInv, NEW c \in Clients, OnCourse(req[c]), NEW kind \in RenameKinds,
           RenameReadTags(c, kind)
    PROVE  OnCourse(req[c])' /\ ~Succeeds(c)
<1> DEFINE op == req[c].op
<1>1. /\ At(c, kind, "copyTags") /\ req[c] \in RequestState /\ req[c].pc = "copyTags"
      /\ op \in Renames /\ op # None
  BY RenameAt DEF RenameReadTags
<1>2. PICK t : /\ images' = images /\ (CallWorks \/ CallFails)
               /\ Continue(c, [req[c] EXCEPT !.pc = "save", !.tags = t])
  BY DEF RenameReadTags, ReadTags, ReadBlob
<1>3. req'[c] = [req[c] EXCEPT !.pc = "save", !.tags = t]
  BY <1>2, ContinueGoes DEF TypeInv
<1>4. /\ req'[c].op = op /\ req'[c].pc = "save" /\ req'[c].todo = req[c].todo
      /\ req'[c].job = req[c].job /\ req'[c].failed = req[c].failed /\ req'[c].cut = req[c].cut
  BY <1>1, <1>3 DEF RequestState
<1>5. FoundNext(op) = Found(op) /\ (CallWorks \/ CallFails)
  BY <1>2, RowsAfter
<1>6. LeftNext(c) = Left(req[c]) /\ MovingNext(c) = Moving(req[c])
  BY <1>1, <1>4 DEF LeftNext, Left, MovingNext, Moving
<1> HIDE DEF op
<1>7. ASSUME ~req[c].failed, FoundAll(c)
      PROVE  \E lost \in SUBSET Paths :
                /\ IsFiniteSet(lost) /\ Cardinality(lost) <= MaxFaults - faults'
                /\ FoundNext(op) \subseteq LeftNext(c) \cup MovingNext(c) \cup lost
  <2>1. PICK lost : AllBut(req[c], lost)
    BY <1>1, <1>7, RenameLost
  <2>2. Found(op) \subseteq Left(req[c]) \cup Moving(req[c]) \cup lost
    BY <2>1 DEF AllBut, op
  <2> QED
    BY <1>5, <1>6, <2>1, <2>2, StillLost DEF TypeInv
<1>8. OnCourse(req[c])'
  BY <1>1, <1>4, <1>7, RenamingOnCourse DEF FoundAll
<1> QED
  BY <1>4, <1>8 DEF Succeeds

LEMMA RenameSaveOnCourse ==
    ASSUME TypeInv, NEW c \in Clients, OnCourse(req[c]), NEW kind \in RenameKinds,
           RenameSave(c, kind)
    PROVE  OnCourse(req[c])' /\ ~Succeeds(c)
<1> DEFINE op == req[c].op
           p == req[c].job.path
           q == NewPath(op, p)
<1>1. /\ At(c, kind, "save") /\ req[c] \in RequestState /\ req[c].pc = "save"
      /\ op \in Renames /\ op # None /\ q \in Paths
  BY RenameAt DEF RenameSave
<1>2. PICK ok \in BOOLEAN :
         /\ SaveBlob(q, req[c].photo, req[c].tags, ok)
         /\ IF ok THEN Continue(c, [req[c] EXCEPT !.pc = "retag", !.photo = None, !.tags = None])
                  ELSE RenameNext(c, TRUE)
  BY DEF RenameSave
<1>3. CASE ok
  <2>1. req'[c] = [req[c] EXCEPT !.pc = "retag", !.photo = None, !.tags = None]
    BY <1>2, <1>3, ContinueGoes DEF TypeInv
  <2>2. /\ req'[c].op = op /\ req'[c].pc = "retag" /\ req'[c].todo = req[c].todo
        /\ req'[c].job = req[c].job /\ req'[c].failed = req[c].failed /\ req'[c].cut = req[c].cut
    BY <1>1, <2>1 DEF RequestState
  <2>3. CallWorks /\ \A o \in Paths \ {q} : images'[o] = images[o]
    BY <1>2, <1>3 DEF SaveBlob, Stored, TypeInv, StoreTypeOK
  <2>4. FoundNext(op) \subseteq Found(op) \cup {q}
    BY <2>3 DEF FoundNext, Found, BlobsWith, Has
  <2>5. LeftNext(c) = Left(req[c]) /\ MovingNext(c) = {p, q} /\ Moving(req[c]) = {p}
    BY <1>1, <2>2 DEF LeftNext, Left, MovingNext, Moving
  <2> HIDE DEF op
  <2>6. ASSUME ~req[c].failed, FoundAll(c)
        PROVE  \E lost \in SUBSET Paths :
                  /\ IsFiniteSet(lost) /\ Cardinality(lost) <= MaxFaults - faults'
                  /\ FoundNext(op) \subseteq LeftNext(c) \cup MovingNext(c) \cup lost
    <3>1. PICK lost : AllBut(req[c], lost)
      BY <1>1, <2>6, RenameLost
    <3>2. Found(op) \subseteq Left(req[c]) \cup {p} \cup lost
      BY <2>5, <3>1 DEF AllBut, op
    <3>3. FoundNext(op) \subseteq LeftNext(c) \cup MovingNext(c) \cup lost
      BY <2>4, <2>5, <3>2
    <3> QED
      BY <2>3, <3>1, <3>3, StillLost DEF TypeInv
  <2>7. OnCourse(req[c])'
    BY <1>1, <2>2, <2>6, RenamingOnCourse DEF FoundAll
  <2> QED
    BY <2>2, <2>7 DEF Succeeds
<1>4. CASE ~ok
  <2>1. GivesUp(c, req[c].todo)
    BY <1>1, <1>2, <1>4, RenameNextGoes DEF GivesUp, TypeInv
  <2> QED
    BY <1>1, <2>1, GivesUpOnCourse
<1> QED
  BY <1>3, <1>4

\* a rename does not find its own copies
LEMMA CopyUnfound ==
    ASSUME NEW op \in Renames, NEW j \in Jobs
    PROVE  ~Satisfies(NewTags(op, j), Sought(op))
<1>1. Sought(op) = RenameQuery(op) /\ j.tags \in Tags
  BY LocateKinds DEF Renames, Jobs
<1>2. CASE op.kind = "renameCollection"
  <2>1. NewTags(op, j).collection = op.newName /\ op.newName # op.collection
    BY <1>1, <1>2, RenameFields DEF NewTags, Tags
  <2> QED
    BY <1>1, <1>2, <2>1 DEF Satisfies, RenameQuery
<1>3. CASE op.kind = "renameAlbum"
  <2>1. NewTags(op, j).album = op.newName /\ op.newName # op.album
    BY <1>1, <1>3, RenameFields DEF NewTags, Tags
  <2> QED
    BY <1>1, <1>3, <2>1 DEF Satisfies, RenameQuery
<1> QED
  BY <1>2, <1>3 DEF Renames, RenameKinds

LEMMA RenameRetagOnCourse ==
    ASSUME TypeInv, NEW c \in Clients, OnCourse(req[c]), NEW kind \in RenameKinds,
           RenameRetag(c, kind)
    PROVE  OnCourse(req[c])' /\ ~Succeeds(c)
<1> DEFINE op == req[c].op
           j == req[c].job
           q == NewPath(op, j.path)
           t == NewTags(op, j)
<1>1. /\ op \in Renames /\ req[c].pc = "retag" /\ j \in Jobs /\ q \in Paths /\ t \in Tags
      /\ \/ /\ SetsTags(q, t) /\ CallWorks
            /\ Goes(c, "delete", req[c].rows, req[c].todo, j, req[c].failed)
         \/ GivesUp(c, req[c].todo)
  BY RetagSteps
<1>2. At(c, kind, "retag")
  BY DEF RenameRetag
<1>3. CASE GivesUp(c, req[c].todo)
  BY <1>1, <1>3, GivesUpOnCourse
<1>4. CASE /\ SetsTags(q, t) /\ CallWorks
           /\ Goes(c, "delete", req[c].rows, req[c].todo, j, req[c].failed)
  <2>1. /\ req'[c].op = op /\ req'[c].pc = "delete" /\ req'[c].todo = req[c].todo
        /\ req'[c].job = j /\ req'[c].failed = req[c].failed /\ req'[c].cut = req[c].cut
    BY <1>4 DEF Goes
  <2>2. LeftNext(c) = Left(req[c]) /\ MovingNext(c) = {j.path} /\ Moving(req[c]) = {j.path, q}
    BY <1>1, <2>1 DEF LeftNext, Left, MovingNext, Moving
  <2> HIDE DEF op, j, q, t
  <2>3. ~Satisfies(t, Sought(op))
    BY <1>1, CopyUnfound DEF t
  <2>4. \A o \in Paths : /\ images'[o] # NoBlob <=> Has(o)
                         /\ Has(o) => images'[o].tags = IF o = q THEN t ELSE images[o].tags
    BY <1>1, <1>4, SetsTagsEffect DEF TypeInv
  <2>5. q \notin FoundNext(op) /\ \A o \in FoundNext(op) : o \in Found(op)
    BY <2>3, <2>4 DEF FoundNext, Found, BlobsWith
  <2>6. ASSUME ~req[c].failed, FoundAll(c)
        PROVE  \E lost \in SUBSET Paths :
                  /\ IsFiniteSet(lost) /\ Cardinality(lost) <= MaxFaults - faults'
                  /\ FoundNext(op) \subseteq LeftNext(c) \cup MovingNext(c) \cup lost
    <3>1. PICK lost : AllBut(req[c], lost)
      BY <1>2, <2>6, RenameLost
    <3>2. Found(op) \subseteq Left(req[c]) \cup {j.path, q} \cup lost
      BY <2>2, <3>1 DEF AllBut, op
    <3>3. FoundNext(op) \subseteq LeftNext(c) \cup MovingNext(c) \cup lost
      BY <2>2, <2>5, <3>2
    <3> QED
      BY <1>4, <3>1, <3>3, StillLost DEF TypeInv
  <2>7. OnCourse(req[c])'
    BY <1>1, <2>1, <2>6, RenamingOnCourse DEF FoundAll
  <2> QED
    BY <2>1, <2>7 DEF Succeeds
<1> QED
  BY <1>1, <1>3, <1>4

\* A delete that reports success has removed the blob, or used up a failure.
LEMMA RenameDeleteLoses ==
    ASSUME TypeInv, NEW c \in Clients, OnCourse(req[c]), NEW kind \in RenameKinds,
           At(c, kind, "delete"), DeleteBlob(req[c].job.path, TRUE), ~req[c].failed,
           FoundAll(c)
    PROVE  \E lost \in SUBSET Paths :
              /\ IsFiniteSet(lost) /\ Cardinality(lost) \in Nat
              /\ Cardinality(lost) <= MaxFaults - faults'
              /\ FoundNext(req[c].op) \subseteq Left(req[c]) \cup lost
<1> DEFINE op == req[c].op
           p == req[c].job.path
<1>1. op \in Renames /\ req[c].pc = "delete" /\ p \in Paths
  BY RenameAt
<1>2. PICK lost : AllBut(req[c], lost)
  BY RenameLost
<1>3. Found(op) \subseteq Left(req[c]) \cup {p} \cup lost
  BY <1>1, <1>2 DEF AllBut, Moving
<1> HIDE DEF op, p
<1>4. CASE CallWorks /\ Drops(p)
  <2>1. p \notin FoundNext(op) /\ \A o \in FoundNext(op) : o \in Found(op)
    BY <1>1, <1>4, DropsEffect DEF FoundNext, Found, BlobsWith, Has, TypeInv
  <2>2. FoundNext(op) \subseteq Left(req[c]) \cup lost
    BY <1>3, <2>1
  <2> QED
    BY <1>2, <1>4, <2>2, StillLost DEF TypeInv, op
<1>5. CASE CallFails /\ images' = images
  <2>1. FoundNext(op) = Found(op)
    BY <1>5, RowsAfter
  <2>2. /\ lost \in SUBSET Paths /\ IsFiniteSet(lost) /\ Cardinality(lost) \in Nat
        /\ Cardinality(lost) + 1 <= MaxFaults - faults'
    BY <1>2, <1>5, StillLost DEF TypeInv
  <2>3. /\ IsFiniteSet(lost \cup {p}) /\ Cardinality(lost \cup {p}) \in Nat
        /\ Cardinality(lost \cup {p}) <= Cardinality(lost) + 1
    <3>1. /\ IsFiniteSet(lost \cup {p})
          /\ \/ Cardinality(lost \cup {p}) = Cardinality(lost)
             \/ Cardinality(lost \cup {p}) = Cardinality(lost) + 1
      BY <2>2, FS_AddElement
    <3> QED
      BY <2>2, <3>1
  <2>4. Cardinality(lost \cup {p}) <= MaxFaults - faults'
    BY <1>5, <2>2, <2>3, LibraryAssumption DEF CallFails, TypeInv, StoreTypeOK
  <2>5. FoundNext(op) \subseteq Left(req[c]) \cup (lost \cup {p})
    BY <1>3, <2>1
  <2>6. lost \cup {p} \in SUBSET Paths
    BY <1>1, <2>2
  <2> QED
    BY <2>3, <2>4, <2>5, <2>6 DEF op
<1> QED
  BY <1>4, <1>5 DEF DeleteBlob, Drops, p

LEMMA RenameDeleteOnCourse ==
    ASSUME TypeInv, NEW c \in Clients, OnCourse(req[c]), NEW kind \in RenameKinds,
           RenameDelete(c, kind)
    PROVE  OnCourse(req[c])' /\ (Succeeds(c) /\ FoundAll(c) => RenameDone(req[c].op))
<1> DEFINE op == req[c].op
<1>1. /\ At(c, kind, "delete") /\ req[c] \in RequestState /\ op \in Renames
      /\ req[c].failed \in BOOLEAN
  BY RenameAt DEF RenameDelete
<1>2. PICK ok \in BOOLEAN : DeleteBlob(req[c].job.path, ok) /\ RenameNext(c, ~ok)
  BY DEF RenameDelete
<1> DEFINE failed == req[c].failed \/ ~ok
<1>3. \/ req[c].todo = {} /\ Ended(c, IF failed THEN "206" ELSE "200")
      \/ Goes(c, "each", req[c].rows, req[c].todo, None, failed)
  BY <1>1, <1>2, RenameNextGoes DEF TypeInv
<1>4. ~failed /\ FoundAll(c) =>
        \E lost \in SUBSET Paths :
           /\ IsFiniteSet(lost) /\ Cardinality(lost) \in Nat
           /\ Cardinality(lost) <= MaxFaults - faults'
           /\ FoundNext(op) \subseteq Left(req[c]) \cup lost
  BY <1>1, <1>2, RenameDeleteLoses
<1> HIDE DEF op, failed
<1>5. CASE req[c].todo = {} /\ Ended(c, IF failed THEN "206" ELSE "200")
  <2>1. ASSUME Succeeds(c), FoundAll(c)
        PROVE  RenameDone(op)
    <3>1. ~failed
      BY <1>5, <2>1 DEF Ended, Succeeds
    <3>2. Left(req[c]) = {}
      BY <1>5 DEF Left
    <3>3. PICK lost \in SUBSET Paths :
             /\ IsFiniteSet(lost) /\ Cardinality(lost) \in Nat
             /\ Cardinality(lost) <= MaxFaults - faults'
             /\ FoundNext(op) \subseteq lost
      BY <1>4, <2>1, <3>1, <3>2
    <3>4. MaxFaults - faults' \in Int
      BY <1>2, LibraryAssumption DEF DeleteBlob, CallWorks, CallFails, TypeInv, StoreTypeOK
    <3> QED
      BY <3>3, <3>4, FewLeft
  <2> QED
    BY <1>5, <2>1, EndedOnCourse DEF op
<1>6. CASE Goes(c, "each", req[c].rows, req[c].todo, None, failed)
  <2>1. /\ req'[c].op = op /\ req'[c].pc = "each" /\ LeftNext(c) = Left(req[c])
        /\ req'[c].failed = failed /\ req'[c].cut = req[c].cut
    BY <1>6 DEF Goes, LeftNext, Left, op
  <2>2. ~failed /\ FoundAll(c) => \E lost \in SUBSET Paths :
                      /\ IsFiniteSet(lost) /\ Cardinality(lost) <= MaxFaults - faults'
                      /\ FoundNext(op) \subseteq LeftNext(c) \cup MovingNext(c) \cup lost
    BY <1>4, <2>1
  <2>3. OnCourse(req[c])'
    BY <1>1, <2>1, <2>2, RenamingOnCourse DEF op, FoundAll
  <2> QED
    BY <2>1, <2>3 DEF Succeeds
<1> QED
  BY <1>3, <1>5, <1>6

LEMMA RenameOnCourse ==
    ASSUME TypeInv, NEW c \in Clients, OnCourse(req[c]), NEW kind \in RenameKinds,
           RenameSteps(c, kind)
    PROVE  OnCourse(req[c])' /\ (Succeeds(c) /\ FoundAll(c) => RenameDone(req[c].op))
<1>1. CASE RenameFind(c, kind)
  <2>1. At(c, kind, "find") /\ Sought(req[c].op) = RenameQuery(req[c].op)
    BY <1>1, AtType, LocateKinds DEF RenameFind, TypeInv
  <2>2. "404" \in Statuses \ {"200"} /\ "500" \in Statuses \ {"200"}
    BY DEF Statuses
  <2> QED
    BY <1>1, <2>1, <2>2, BeginsOnCourse DEF RenameFind
<1> QED
  BY <1>1, RenameFetchOnCourse, RenameReadOnCourse, RenameReadTagsOnCourse, RenameSaveOnCourse,
     RenameRetagOnCourse, RenameDeleteOnCourse DEF RenameSteps

-----------------------------------------------------------------------------
(* The other handlers, and all of them together.                           *)

\* the handler of c ends, or goes on with the same request
StaysOrEnds(c) == req'[c].op \in {None, req[c].op}

LEMMA OffCourse ==
    ASSUME TypeInv, NEW c \in Clients, req[c].op.kind \notin QueryKinds, StaysOrEnds(c)
    PROVE  OnCourse(req[c])'
BY DEF StaysOrEnds, OnCourse

LEMMA AnswerStays ==
    ASSUME TypeInv, NEW c \in Clients, NEW status, Answer(c, status)
    PROVE  StaysOrEnds(c)
BY DEF Answer, AnswerWith, TypeInv, RequestsOK, RequestTypeOK, StaysOrEnds, Idle

LEMMA ContinueStays ==
    ASSUME TypeInv, NEW c \in Clients, NEW s, Continue(c, s), s.op = req[c].op
    PROVE  StaysOrEnds(c)
BY ContinueGoes DEF StaysOrEnds, TypeInv

LEMMA LoopStays ==
    ASSUME TypeInv, NEW c \in Clients, NEW todo, NEW failed, NEW s \in RequestState,
           s.op = req[c].op, NextOrAnswer(c, todo, failed, s)
    PROVE  StaysOrEnds(c)
<1>1. CASE Answer(c, IF failed THEN "206" ELSE "200")
  BY <1>1, AnswerStays
<1>2. CASE Continue(c, [s EXCEPT !.pc = "each", !.todo = todo, !.failed = failed])
  <2> DEFINE t == [s EXCEPT !.pc = "each", !.todo = todo, !.failed = failed]
  <2>1. t.op = req[c].op
    BY DEF RequestState
  <2> QED
    BY <1>2, <2>1, ContinueStays
<1> QED
  BY <1>1, <1>2 DEF NextOrAnswer

LEMMA AskStays ==
    ASSUME TypeInv, NEW c \in Clients, NEW query, FindBlobs(c, query)
    PROVE  StaysOrEnds(c)
BY FindBlobsAsks DEF Asks, StaysOrEnds

LEMMA UpdateStays ==
    ASSUME TypeInv, NEW c \in Clients, Update(c)
    PROVE  StaysOrEnds(c) /\ req[c].op.kind \notin QueryKinds
<1>1. req[c] \in RequestState /\ req[c].op.kind = "update"
  BY UpdateAt DEF Update, UpdateGet, UpdateFind, UpdateFetch, UpdateClear, UpdateSet
<1>2. "update" \notin QueryKinds
  BY DEF QueryKinds, DeleteKinds, RestoreKinds, RenameKinds, ThumbnailKinds
<1>3. CASE UpdateGet(c)
  <2>1. ASSUME NEW tags, Continue(c, [req[c] EXCEPT !.pc = "find", !.tags = tags])
        PROVE  StaysOrEnds(c)
    <3>1. [req[c] EXCEPT !.pc = "find", !.tags = tags].op = req[c].op
      BY <1>1 DEF RequestState
    <3> QED
      BY <2>1, <3>1, ContinueStays
  <2>2. \/ \E tags : Continue(c, [req[c] EXCEPT !.pc = "find", !.tags = tags])
        \/ Answer(c, "500") \/ Answer(c, "304")
    BY <1>3 DEF UpdateGet
  <2> QED
    BY <1>1, <1>2, <2>1, <2>2, AnswerStays
<1>4. CASE UpdateFind(c)
  <2> DEFINE t == [req[c] EXCEPT !.pc = "set", !.tags = None]
  <2>1. t.op = req[c].op
    BY <1>1 DEF RequestState
  <2>2. FindBlobs(c, CollectionImageQuery(req[c].tags.collection)) \/ Continue(c, t)
    BY <1>4 DEF UpdateFind
  <2> QED
    BY <1>1, <1>2, <2>1, <2>2, ContinueStays, AskStays
<1>5. CASE UpdateFetch(c)
  <2>4. PICK jobs \in Fetches(req[c].rows) :
           \E pc, j : Continue(c, [Fetched(c, jobs) EXCEPT !.tags = None, !.pc = pc, !.job = j])
    BY <1>5 DEF UpdateFetch
  <2>1. PICK pc, j : Continue(c, [Fetched(c, jobs) EXCEPT !.tags = None, !.pc = pc, !.job = j])
    BY <2>4
  <2>2. Fetched(c, jobs) \in RequestState /\ Fetched(c, jobs).op = req[c].op
    BY <1>1, FetchedType, FetchedFields DEF TypeInv
  <2>3. [Fetched(c, jobs) EXCEPT !.tags = None, !.pc = pc, !.job = j].op = req[c].op
    BY <2>2 DEF RequestState
  <2> QED
    BY <1>1, <1>2, <2>1, <2>3, ContinueStays
<1>6. CASE UpdateClear(c)
  <2> DEFINE s == [req[c] EXCEPT !.pc = "set", !.job = None]
  <2>1. s.op = req[c].op
    BY <1>1 DEF RequestState
  <2>2. Continue(c, s) \/ Answer(c, "panic") \/ Answer(c, "500")
    BY <1>6 DEF UpdateClear, PanicOn
  <2> QED
    BY <1>1, <1>2, <2>1, <2>2, AnswerStays, ContinueStays
<1>7. CASE UpdateSet(c)
  BY <1>1, <1>2, <1>7, AnswerStays DEF UpdateSet
<1> QED
  BY <1>1, <1>2, <1>3, <1>4, <1>5, <1>6, <1>7 DEF Update

LEMMA BrowseStays ==
    ASSUME TypeInv, NEW c \in Clients, BrowseCollections(c) \/ BrowseAlbums(c)
    PROVE  StaysOrEnds(c) /\ req[c].op.kind \notin QueryKinds
<1>1. PICK kind, query :
        /\ kind \in BrowseKinds
        /\ \/ NoTagList(c, kind)
           \/ BrowseFind(c, kind, query)
           \/ BrowseFetch(c, kind)
           \/ BrowseClear(c, kind)
  BY DEF BrowseCollections, BrowseAlbums, BrowseKinds
<1>2. req[c] \in RequestState /\ req[c].op.kind \in BrowseKinds
  BY <1>1, AtType DEF NoTagList, BrowseFind, BrowseFetch, BrowseClear, BrowseKinds, TypeInv
<1>3. BrowseKinds \cap QueryKinds = {}
  BY DEF BrowseKinds, QueryKinds, DeleteKinds, RestoreKinds, RenameKinds, ThumbnailKinds
<1>4. CASE NoTagList(c, kind)
  BY <1>2, <1>3, <1>4, AnswerStays DEF NoTagList
<1>5. CASE BrowseFind(c, kind, query)
  BY <1>2, <1>3, <1>5, AnswerStays, AskStays DEF BrowseFind
<1>6. CASE BrowseFetch(c, kind)
  <2>1. PICK jobs \in Fetches(req[c].rows) :
          \E extras : NextOrAnswer(c, extras, FALSE, Fetched(c, jobs))
    BY <1>6 DEF BrowseFetch
  <2>2. Fetched(c, jobs) \in RequestState /\ Fetched(c, jobs).op = req[c].op
    BY <1>2, FetchedType, FetchedFields DEF TypeInv
  <2> QED
    BY <1>2, <1>3, <2>1, <2>2, LoopStays
<1>7. CASE BrowseClear(c, kind)
  <2>1. \/ Answer(c, "panic")
        \/ \E j : NextOrAnswer(c, req[c].todo \ {j}, FALSE, req[c])
    BY <1>7 DEF BrowseClear, PanicOn
  <2> QED
    BY <1>2, <1>3, <2>1, AnswerStays, LoopStays
<1> QED
  BY <1>1, <1>2, <1>3, <1>4, <1>5, <1>6, <1>7

\* what an answer 200 of a request says
Kept(c, op) ==
    /\ op.kind \in DeleteKinds /\ FoundAll(c) => FoundNext(op) = {}
    /\ op.kind \in RestoreKinds => RestoreDone(c, op)
    /\ op.kind \in RenameKinds /\ FoundAll(c) => RenameDone(op)
    /\ op.kind \in ThumbnailKinds => ChoiceHolds(op)

LEMMA StepKind ==
    ASSUME TypeInv, NEW c \in Clients
    PROVE  /\ SoftDeleteCollection(c) \/ SoftDeleteAlbum(c) => req[c].op.kind \in DeleteKinds
           /\ RestoreCollection(c) \/ RestoreAlbum(c) => req[c].op.kind \in RestoreKinds
           /\ \A kind \in RenameKinds : RenameSteps(c, kind) => req[c].op.kind \in RenameKinds
           /\ ThumbnailCollection(c) \/ ThumbnailAlbum(c) => req[c].op.kind \in ThumbnailKinds
<1>1. SoftDeleteCollection(c) \/ SoftDeleteAlbum(c) => req[c].op.kind \in DeleteKinds
  BY AtType DEF TypeInv, SoftDeleteCollection, SoftDeleteAlbum, Locate, Fetch, Remaining, DeleteKinds
<1>2. RestoreCollection(c) \/ RestoreAlbum(c) => req[c].op.kind \in RestoreKinds
  BY AtType DEF TypeInv, RestoreCollection, RestoreAlbum, Locate, Fetch, RestoreKinds
<1>3. ASSUME NEW kind \in RenameKinds, RenameSteps(c, kind)
      PROVE  req[c].op.kind \in RenameKinds
  BY <1>3, AtType DEF TypeInv, RenameSteps, RenameFind, RenameFetch, RenameRead, RenameReadTags,
                      RenameSave, RenameRetag, RenameDelete
<1>4. ThumbnailCollection(c) \/ ThumbnailAlbum(c) => req[c].op.kind \in ThumbnailKinds
  BY AtType DEF TypeInv, ThumbnailCollection, ThumbnailAlbum, ThumbnailFind, ThumbnailFetch,
                ThumbnailClear, ThumbnailGet, ThumbnailSet, ThumbnailRotate, ThumbnailKinds
<1> QED
  BY <1>1, <1>2, <1>3, <1>4

LEMMA StepOnCourse ==
    ASSUME TypeInv, NEW c \in Clients, OnCourse(req[c]), Step(c)
    PROVE  OnCourse(req[c])' /\ (Succeeds(c) => Kept(c, req[c].op))
<1>1. CASE SoftDeleteCollection(c) \/ SoftDeleteAlbum(c)
  BY <1>1, StepKind, SoftDeleteCollectionOnCourse, SoftDeleteAlbumOnCourse, KindsApart DEF Kept
<1>2. CASE RestoreCollection(c) \/ RestoreAlbum(c)
  BY <1>2, StepKind, RestoreOnCourse, KindsApart DEF Kept
<1>3. ASSUME NEW kind \in RenameKinds, RenameSteps(c, kind)
      PROVE  OnCourse(req[c])' /\ (Succeeds(c) => Kept(c, req[c].op))
  BY <1>3, StepKind, RenameOnCourse, KindsApart DEF Kept
<1>4. CASE ThumbnailCollection(c) \/ ThumbnailAlbum(c)
  BY <1>4, StepKind, ThumbnailOnCourse, KindsApart DEF Kept
<1>5. CASE Update(c) \/ BrowseCollections(c) \/ BrowseAlbums(c)
  BY <1>5, UpdateStays, BrowseStays, OffCourse DEF Kept, QueryKinds
<1> QED
  BY <1>1, <1>2, <1>3, <1>4, <1>5 DEF Step, RenameCollection, RenameAlbum, RenameKinds

LEMMA SubmitOnCourse ==
    ASSUME TypeInv, NEW c \in Clients, NEW r \in Requests, Submit(c, r)
    PROVE  OnCourse(req[c])' /\ ~Succeeds(c)
<1>1. /\ req'[c].op = r /\ req'[c].pc = FirstCall(r) /\ req'[c].seen = {}
      /\ req'[c].cut = {}
  BY DEF Submit, TypeInv, RequestsOK, RequestTypeOK, Idle
<1>2. r.kind \in QueryKinds => FirstCall(r) = "find"
  BY DEF FirstCall, QueryKinds, DeleteKinds, RestoreKinds, RenameKinds, ThumbnailKinds
<1>3. ~Succeeds(c)
  BY <1>1 DEF Succeeds, FirstCall
<1> QED
  BY <1>1, <1>2, <1>3
     DEF OnCourse, RowsCurrent, MarkingAll, MarkGiven, ClearingAll, RenamingAll

LEMMA InitOnCourse ==
    ASSUME Init
    PROVE  Complete
BY DEF Init, RequestInit, Idle, Complete, OnCourse

LEMMA StutterOnCourse ==
    ASSUME NEW c \in Clients, OnCourse(req[c]), images' = images, req'[c] = req[c], faults' = faults
    PROVE  OnCourse(req[c])'
<1> SUFFICES ASSUME req[c].op # None, req[c].op.kind \in QueryKinds
             PROVE  (RowsCurrent(req[c]) /\ MarkingAll(req[c]) /\ MarkGiven(req[c])
                        /\ ClearingAll(req[c]) /\ RenamingAll(req[c]))'
  BY DEF OnCourse
<1> DEFINE op == req[c].op
<1>1. /\ RowsCurrent(req[c]) /\ MarkingAll(req[c]) /\ MarkGiven(req[c])
      /\ ClearingAll(req[c]) /\ RenamingAll(req[c])
  BY DEF OnCourse
<1>2. Found(req[c].op)' = Found(op) /\ MatchingRows(Sought(req[c].op))' = MatchingRows(Sought(op))
  <2>1. Found(req[c].op)' = {p \in Paths : images[p] # NoBlob /\ Satisfies(images[p].tags, Sought(op))}
    BY DEF Found, BlobsWith, Has, Satisfies, Sought, CollectionBlobs, AlbumBlobs,
           CollectionImageQuery, AlbumImageQuery, RenameQuery
  <2>2. MatchingRows(Sought(req[c].op))' = MatchingRows(Sought(op))
    BY DEF MatchingRows, Has, Satisfies, Sought, CollectionBlobs, AlbumBlobs,
           CollectionImageQuery, AlbumImageQuery, RenameQuery
  <2> QED
    BY <2>1, <2>2 DEF Found, BlobsWith, Has
<1>3. RowsCurrent(req[c])'
  BY <1>1, <1>2 DEF RowsCurrent
<1>4. MarkingAll(req[c])'
  BY <1>1, <1>2 DEF MarkingAll, Left
<1>5. MarkGiven(req[c])'
  <2>1. (\A j \in req[c].todo : j.tags = EmptyTags \/ Satisfies(j.tags, Sought(req[c].op)))'
          <=> \A j \in req[c].todo : j.tags = EmptyTags \/ Satisfies(j.tags, Sought(op))
    BY DEF Satisfies, EmptyTags, Sought, CollectionBlobs, AlbumBlobs, CollectionImageQuery,
           AlbumImageQuery, RenameQuery
  <2>2. BlobsWith(LiveMark(req[c].op))' = BlobsWith(LiveMark(op))
    BY DEF BlobsWith, LiveMark, Has, Satisfies
  <2> QED
    BY <1>1, <2>1, <2>2 DEF MarkGiven, Left
<1>6. ClearingAll(req[c])'
  BY <1>1, <1>2 DEF ClearingAll, Left, Chooses
<1>7. RenamingAll(req[c])'
  <2>1. Moving(req[c])' = Moving(req[c])
    BY DEF Moving, NewPath
  <2> QED
    BY <1>1, <1>2, <2>1 DEF RenamingAll, Left
<1> QED
  BY <1>3, <1>4, <1>5, <1>6, <1>7

\* On one connection every step is one of its only handler.
LEMMA NextOnCourse ==
    ASSUME OneClient, TypeInv, Complete, [Next]_vars
    PROVE  Complete'
<1>1. CASE UNCHANGED vars
  BY <1>1, StutterOnCourse DEF Complete, vars
<1>2. ASSUME NEW c \in Clients, OnCourse(req[c])'
      PROVE  Complete'
  BY <1>2 DEF OneClient, Complete
<1>3. ASSUME NEW c \in Clients, CutOff(c)
      PROVE  OnCourse(req[c])'
  BY <1>3, CutOffSteps, EndedOnCourse
<1>4. ASSUME NEW c \in Clients, Step(c)
      PROVE  OnCourse(req[c])'
  BY <1>4, StepOnCourse DEF Complete
<1> QED
  BY <1>1, <1>2, <1>3, <1>4, SubmitOnCourse DEF Next, Finished

\* what the answer of a step says
LEMMA NextKept ==
    ASSUME OneClient, TypeInv, Complete, Next, ~UNCHANGED vars,
           NEW c \in Clients, Succeeds(c)
    PROVE  Kept(c, req[c].op)
<1>1. ASSUME NEW d \in Clients
      PROVE  d = c
  BY DEF OneClient
<1>2. ASSUME CutOff(c)
      PROVE  FALSE
  BY <1>2, CutOffSteps DEF Ended, Succeeds
<1>3. \A r \in Requests : ~Submit(c, r)
  BY SubmitOnCourse
<1>4. Step(c)
  BY <1>1, <1>2, <1>3 DEF Next, Finished
<1> QED
  BY <1>4, StepOnCourse DEF Complete

\* whose step follows "remaining"
LEMMA NextRemaining ==
    ASSUME OneClient, TypeInv, Complete, Next, ~UNCHANGED vars, NEW c \in Clients,
           req[c].pc = "remaining", reply'[c].collectionDeleted, faults' = faults
    PROVE  /\ reply'[c].op = req[c].op /\ images' = images
           /\ MatchingRows(CollectionBlobs(req[c].op, FALSE)) = {}
<1>1. ASSUME NEW d \in Clients
      PROVE  d = c
  BY DEF OneClient
<1>2. ASSUME CutOff(c)
      PROVE  FALSE
  BY <1>2 DEF CutOff, CallFails, TypeInv, StoreTypeOK
<1>3. \A r \in Requests : ~Submit(c, r)
  BY DEF Submit
<1>4. Step(c)
  BY <1>1, <1>2, <1>3 DEF Next, Finished
<1>5. Remaining(c)
  BY <1>4 DEF Step, At, SoftDeleteCollection, SoftDeleteAlbum, RestoreCollection, RestoreAlbum,
              Locate, Fetch, RenameCollection, RenameAlbum, RenameSteps, RenameFind, RenameFetch,
              RenameRead, RenameReadTags, RenameSave, RenameRetag, RenameDelete,
              ThumbnailCollection, ThumbnailAlbum, ThumbnailFind, ThumbnailFetch, ThumbnailClear,
              ThumbnailGet, ThumbnailSet, ThumbnailRotate,
              Update, UpdateGet, UpdateFind, UpdateFetch, UpdateClear, UpdateSet,
              BrowseCollections, BrowseAlbums, NoTagList, BrowseFind, BrowseFetch, BrowseClear
<1> QED
  BY <1>5, RemainingOnCourse DEF Complete, Remaining

\* the same in the words of the properties
LEMMA KeptInWords ==
    ASSUME NEW c \in Clients, NEW op \in Requests, Kept(c, op)
    PROVE  /\ FoundAll(c) =>
                /\ op.kind = "softDeleteCollection" =>
                     (BlobsWith([collection |-> op.collection, isDeleted |-> FALSE]) = {})'
                /\ op.kind = "softDeleteAlbum" =>
                     (BlobsWith([collection |-> op.collection, album |-> op.album,
                                 isDeleted |-> FALSE]) = {})'
                /\ op.kind = "restoreCollection" =>
                     /\ (BlobsWith([collection |-> op.collection, isDeleted |-> TRUE]) = {})'
                     /\ FoundWhole(c) =>
                          (BlobsWith([collection |-> op.collection, isDeleted |-> FALSE,
                                      collectionImage |-> TRUE]) # {})'
                /\ op.kind = "restoreAlbum" =>
                     /\ (BlobsWith([collection |-> op.collection, album |-> op.album,
                                    isDeleted |-> TRUE]) = {})'
                     /\ FoundWhole(c) =>
                          (BlobsWith([collection |-> op.collection, album |-> op.album,
                                      isDeleted |-> FALSE, albumImage |-> TRUE]) # {})'
           /\ op.kind = "renameCollection" /\ FoundAll(c) =>
                (Cardinality(BlobsWith([collection |-> op.collection])) <= MaxFaults - faults)'
           /\ op.kind = "renameAlbum" /\ FoundAll(c) =>
                (Cardinality(BlobsWith([collection |-> op.collection, album |-> op.album]))
                   <= MaxFaults - faults)'
           /\ op.kind = "thumbnailCollection" /\ Chooses(op) /\ faults = MaxFaults =>
                (BlobsWith([collection |-> op.collection, collectionImage |-> TRUE])
                   \subseteq {op.image})'
           /\ op.kind = "thumbnailAlbum" /\ Chooses(op) /\ faults = MaxFaults =>
                (BlobsWith([collection |-> op.collection, album |-> op.album, albumImage |-> TRUE])
                   \subseteq {op.image})'
<1> DEFINE With(query) == {p \in Paths : images'[p] # NoBlob /\ Satisfies(images'[p].tags, query)}
<1>1. FoundNext(op) = With(Sought(op)) /\ MarkedNext(op) = With(LiveMark(op))
  BY DEF FoundNext, MarkedNext
<1>2. CASE op.kind = "softDeleteCollection"
  <2>1. Sought(op) = CollectionBlobs(op, FALSE) /\ (FoundAll(c) => FoundNext(op) = {})
    BY <1>2, LocateKinds DEF Kept, DeleteKinds
  <2>2. BlobsWith([collection |-> op.collection, isDeleted |-> FALSE])' = FoundNext(op)
    BY <1>1, <2>1 DEF BlobsWith, Has, Satisfies, CollectionBlobs
  <2> QED
    BY <1>2, <2>1, <2>2
<1>3. CASE op.kind = "softDeleteAlbum"
  <2>1. Sought(op) = AlbumBlobs(op, FALSE) /\ (FoundAll(c) => FoundNext(op) = {})
    BY <1>3, LocateKinds DEF Kept, DeleteKinds
  <2>2. BlobsWith([collection |-> op.collection, album |-> op.album, isDeleted |-> FALSE])' = FoundNext(op)
    BY <1>1, <2>1 DEF BlobsWith, Has, Satisfies, AlbumBlobs
  <2> QED
    BY <1>3, <2>1, <2>2
<1>4. CASE op.kind = "restoreCollection"
  <2>1. /\ Sought(op) = CollectionBlobs(op, TRUE)
        /\ FoundAll(c) => FoundNext(op) = {}
        /\ FoundWhole(c) => MarkedNext(op) # {}
    BY <1>4, LocateKinds DEF Kept, RestoreKinds, RestoreDone
  <2>2. LiveMark(op) = [collection |-> op.collection, isDeleted |-> FALSE, collectionImage |-> TRUE]
    BY <1>4 DEF LiveMark
  <2>3. FoundAll(c) => (BlobsWith([collection |-> op.collection, isDeleted |-> TRUE]) = {})'
    BY <1>1, <2>1 DEF BlobsWith, Has, Satisfies, CollectionBlobs
  <2>4. BlobsWith([collection |-> op.collection, isDeleted |-> FALSE,
                   collectionImage |-> TRUE])' = MarkedNext(op)
    BY <1>1, <2>1, <2>2 DEF BlobsWith, Has, Satisfies
  <2> QED
    BY <1>4, <2>1, <2>3, <2>4
<1>5. CASE op.kind = "restoreAlbum"
  <2>1. /\ Sought(op) = AlbumBlobs(op, TRUE)
        /\ FoundAll(c) => FoundNext(op) = {}
        /\ FoundWhole(c) => MarkedNext(op) # {}
    BY <1>5, LocateKinds DEF Kept, RestoreKinds, RestoreDone
  <2>2. LiveMark(op) = [collection |-> op.collection, album |-> op.album, isDeleted |-> FALSE,
                        albumImage |-> TRUE]
    BY <1>5 DEF LiveMark
  <2>3. FoundAll(c) =>
          (BlobsWith([collection |-> op.collection, album |-> op.album, isDeleted |-> TRUE]) = {})'
    BY <1>1, <2>1 DEF BlobsWith, Has, Satisfies, AlbumBlobs
  <2>4. BlobsWith([collection |-> op.collection, album |-> op.album, isDeleted |-> FALSE,
                   albumImage |-> TRUE])' = MarkedNext(op)
    BY <1>1, <2>2 DEF BlobsWith, Has, Satisfies
  <2> QED
    BY <1>5, <2>1, <2>3, <2>4
<1>6. CASE op.kind = "renameCollection"
  <2>1. /\ Sought(op) = [collection |-> op.collection]
        /\ FoundAll(c) => Cardinality(FoundNext(op)) <= MaxFaults - faults'
    BY <1>6, LocateKinds DEF Kept, RenameKinds, RenameDone, RenameQuery
  <2>2. BlobsWith([collection |-> op.collection])' = FoundNext(op)
    BY <1>1, <2>1 DEF BlobsWith, Has, Satisfies
  <2> QED
    BY <1>6, <2>1, <2>2
<1>7. CASE op.kind = "renameAlbum"
  <2>1. /\ Sought(op) = [collection |-> op.collection, album |-> op.album]
        /\ FoundAll(c) => Cardinality(FoundNext(op)) <= MaxFaults - faults'
    BY <1>7, LocateKinds DEF Kept, RenameKinds, RenameDone, RenameQuery
  <2>2. BlobsWith([collection |-> op.collection, album |-> op.album])' = FoundNext(op)
    BY <1>1, <2>1 DEF BlobsWith, Has, Satisfies
  <2> QED
    BY <1>7, <2>1, <2>2
<1>8. CASE op.kind = "thumbnailCollection"
  <2>1. Sought(op) = CollectionImageQuery(op.collection) /\ ChoiceHolds(op)
    BY <1>8, LocateKinds DEF Kept, ThumbnailKinds
  <2>2. BlobsWith([collection |-> op.collection, collectionImage |-> TRUE])' = FoundNext(op)
    BY <1>1, <2>1 DEF BlobsWith, Has, Satisfies, CollectionImageQuery
  <2> QED
    BY <1>8, <2>1, <2>2 DEF ChoiceHolds
<1>9. CASE op.kind = "thumbnailAlbum"
  <2>1. Sought(op) = AlbumImageQuery(op) /\ ChoiceHolds(op)
    BY <1>9, LocateKinds DEF Kept, ThumbnailKinds
  <2>2. BlobsWith([collection |-> op.collection, album |-> op.album, albumImage |-> TRUE])' = FoundNext(op)
    BY <1>1, <2>1 DEF BlobsWith, Has, Satisfies, AlbumImageQuery
  <2> QED
    BY <1>9, <2>1, <2>2 DEF ChoiceHolds
<1> QED
  BY <1>2, <1>3, <1>4, <1>5, <1>6, <1>7, <1>8, <1>9

LEMMA CompleteAlways ==
    ASSUME OneClient
    PROVE  Spec => [](TypeInv /\ Complete)
<1>1. Init => TypeInv /\ Complete
  BY InitType, InitOnCourse
<1>2. TypeInv /\ Complete /\ [Next]_vars => (TypeInv /\ Complete)'
  BY NextType, NextOnCourse
<1> QED
  BY <1>1, <1>2, PTL DEF Spec

LEMMA NothingLive ==
    ASSUME NEW c \in Clients, reply'[c].op = req[c].op, images' = images,
           MatchingRows(CollectionBlobs(req[c].op, FALSE)) = {}
    PROVE  (BlobsWith([collection |-> reply[c].op.collection, isDeleted |-> FALSE]) = {})'
<1> DEFINE query == [collection |-> req[c].op.collection, isDeleted |-> FALSE]
           live  == {p \in Paths : images[p] # NoBlob /\ Satisfies(images[p].tags, query)}
<1>1. MatchingRows(CollectionBlobs(req[c].op, FALSE)) = {<<p, images[p].row>> : p \in live}
  BY DEF MatchingRows, Has, CollectionBlobs
<1>2. live = {}
  <2> HIDE DEF live
  <2> QED
    BY <1>1
<1>3. (BlobsWith([collection |-> reply[c].op.collection, isDeleted |-> FALSE]))' = live
  BY DEF BlobsWith, Has, Satisfies
<1> QED
  BY <1>2, <1>3

\* An administrator on one connection gets true answers: a soft-delete
\* answered 200 has left no live blob, a restore no deleted one and a live
\* thumbnail, and a collection reported deleted has no live blob, for every
\* library and workload (softdelete.go:45-125) and whatever calls failed,
\* unless the store took the rows before an error for all (store.go:368-376).
THEOREM AnswersHonest ==
    ASSUME OneClient
    PROVE  Spec => HonestAnswers
<1> DEFINE Deleted200 ==
             \A c \in Clients :
               req[c].pc = "remaining" /\ reply'[c].collectionDeleted /\ faults' = faults =>
                 (BlobsWith([collection |-> reply[c].op.collection, isDeleted |-> FALSE]) = {})'
           Marked200 ==
             \A c \in Clients, op \in Requests : Answers(c, op, "200") /\ FoundAll(c) =>
                /\ op.kind = "softDeleteCollection" =>
                     (BlobsWith([collection |-> op.collection, isDeleted |-> FALSE]) = {})'
                /\ op.kind = "softDeleteAlbum" =>
                     (BlobsWith([collection |-> op.collection, album |-> op.album,
                                 isDeleted |-> FALSE]) = {})'
                /\ op.kind = "restoreCollection" =>
                     /\ (BlobsWith([collection |-> op.collection, isDeleted |-> TRUE]) = {})'
                     /\ FoundWhole(c) =>
                          (BlobsWith([collection |-> op.collection, isDeleted |-> FALSE,
                                      collectionImage |-> TRUE]) # {})'
                /\ op.kind = "restoreAlbum" =>
                     /\ (BlobsWith([collection |-> op.collection, album |-> op.album,
                                    isDeleted |-> TRUE]) = {})'
                     /\ FoundWhole(c) =>
                          (BlobsWith([collection |-> op.collection, album |-> op.album,
                                      isDeleted |-> FALSE, albumImage |-> TRUE]) # {})'
           Honest == Deleted200 /\ Marked200
<1>1. ASSUME TypeInv, Complete, Next, ~UNCHANGED vars
      PROVE  Deleted200
  BY <1>1, NextRemaining, NothingLive
<1>2. ASSUME TypeInv, Complete, Next, ~UNCHANGED vars
      PROVE  Marked200
  <2> SUFFICES ASSUME NEW c \in Clients, NEW op \in Requests, Answers(c, op, "200")
               PROVE  Kept(c, op)
    BY KeptInWords
  <2>1. req[c].op = op /\ Succeeds(c)
    BY DEF Answers, Succeeds
  <2> QED
    BY <1>2, <2>1, NextKept
<1> HIDE DEF Deleted200, Marked200
<1>3. TypeInv /\ Complete /\ [Next]_vars => [Honest]_vars
  BY <1>1, <1>2
<1> HIDE DEF Honest
<1>4. Spec => [](TypeInv /\ Complete)
  BY CompleteAlways
<1>5. Spec => [][Honest]_vars
  BY <1>3, <1>4, PTL DEF Spec
<1>6. [][Honest]_vars => HonestAnswers
  BY PTL DEF Honest, Deleted200, Marked200, HonestAnswers
<1> QED
  BY <1>5, <1>6

\* On one connection a rename answered 200 that was given all the rows it asked
\* for has left no more blobs under the old name than deletes have silently
\* failed, and a thumbnail choice without failures no other mark, for every
\* library and workload (rename.go:80-123, thumbnail.go:58-93).
THEOREM ChangesHold ==
    ASSUME OneClient
    PROVE  Spec => AnsweredChangesHold
<1> DEFINE Hold ==
             \A c \in Clients, op \in Requests : Answers(c, op, "200") =>
                /\ op.kind = "renameCollection" /\ FoundAll(c) =>
                     (Cardinality(BlobsWith([collection |-> op.collection])) <= MaxFaults - faults)'
                /\ op.kind = "renameAlbum" /\ FoundAll(c) =>
                     (Cardinality(BlobsWith([collection |-> op.collection, album |-> op.album]))
                        <= MaxFaults - faults)'
                /\ op.kind = "thumbnailCollection" /\ Chooses(op) /\ faults = MaxFaults =>
                     (BlobsWith([collection |-> op.collection, collectionImage |-> TRUE])
                        \subseteq {op.image})'
                /\ op.kind = "thumbnailAlbum" /\ Chooses(op) /\ faults = MaxFaults =>
                     (BlobsWith([collection |-> op.collection, album |-> op.album, albumImage |-> TRUE])
                        \subseteq {op.image})'
<1>1. ASSUME TypeInv, Complete, Next, ~UNCHANGED vars
      PROVE  Hold
  <2> SUFFICES ASSUME NEW c \in Clients, NEW op \in Requests, Answers(c, op, "200")
               PROVE  Kept(c, op)
    BY KeptInWords
  <2>1. req[c].op = op /\ Succeeds(c)
    BY DEF Answers, Succeeds
  <2> QED
    BY <1>1, <2>1, NextKept
<1> HIDE DEF Hold
<1>2. TypeInv /\ Complete /\ [Next]_vars => [Hold]_vars
  BY <1>1
<1>3. Spec => [](TypeInv /\ Complete)
  BY CompleteAlways
<1>4. Spec => [][Hold]_vars
  BY <1>2, <1>3, PTL DEF Spec
<1>5. [][Hold]_vars => AnsweredChangesHold
  BY PTL DEF Hold, AnsweredChangesHold
<1> QED
  BY <1>4, <1>5

-----------------------------------------------------------------------------
(* Blobs and tags in order, as long as nothing fails.                      *)

LEMMA NamedWrites ==
    ASSUME NEW tags \in Tags, NEW p \in Paths, NamesPath(tags, p)
    PROVE  /\ NamesPath(Deleted(tags), p)
           /\ \A seen : /\ NamesPath(RestoredInAlbum(tags, seen), p)
                        /\ NamesPath(RestoredInCollection(tags, seen), p)
           /\ \A v : NamesPath(MarkCollection(tags, v), p) /\ NamesPath(MarkAlbum(tags, v), p)
           /\ NamesPath(CollectionCleared(tags), p) /\ NamesPath(AlbumCleared(tags), p)
           /\ \A op \in Requests : NamesPath(Rotated(tags, op), p)
BY DEF NamesPath, Tags, Deleted, RestoredInAlbum, RestoredInCollection, MarkCollection, MarkAlbum,
       CollectionCleared, AlbumCleared, Rotated

\* what a handler has at hand names the paths it came from
Named(jobs) == \A j \in jobs : NamesPath(j.tags, j.path)

\* A step of a handler that is not moving a blob: what it may write, and the
\* state it may go on with.
WritesPlainly == images' = images \/ \E p \in Paths, t \in Tags : SetsTags(p, t) /\ NamesPath(t, p)

PlainState(s) ==
    /\ NamesAtHand(s)
    /\ s.pc \notin {"copyTags", "save", "retag", "delete"}
    /\ s.pc = "tags" =>
         /\ images' = images
         /\ \E query : s.rows \subseteq MatchingRows(query)

\* what holds before a step of the only handler, when it is not moving a blob
InOrder(c) ==
    /\ NamesAtHand(req[c]) /\ StillThere(req[c])
    /\ \A p \in Paths : Has(p) => NamesPath(images[p].tags, p)

\* where nothing has failed, c takes a plain step
Plainly(c) ==
    /\ req[c].pc \notin {"retag", "delete"}
    /\ InOrder(c) /\ ~CallFails => WritesPlainly /\ PlainState(req'[c])

LEMMA PlainFields ==
    ASSUME NEW s, s.pc \notin {"tags", "copyTags", "save", "retag", "delete"},
           Named(s.todo), s.job = None \/ Named({s.job}),
           s.pc = "set" /\ s.op.kind \in ThumbnailKinds => NamesPath(s.tags, s.op.image)
    PROVE  PlainState(s)
BY DEF PlainState, NamesAtHand, Named

LEMMA NamedHere ==
    ASSUME NEW c, NamesAtHand(req[c])
    PROVE  Named(req[c].todo) /\ (req[c].job = None \/ Named({req[c].job}))
BY DEF NamesAtHand, Named

LEMMA AnswerPlain ==
    ASSUME RequestsOK, NEW c \in Clients, NEW status, NEW d, AnswerWith(c, status, d)
    PROVE  PlainState(req'[c])
<1>1. req'[c] = Idle
  BY DEF AnswerWith, RequestsOK, RequestTypeOK
<1> QED
  BY <1>1 DEF PlainState, NamesAtHand, Idle

LEMMA LoopPlain ==
    ASSUME RequestsOK, NEW c \in Clients, NEW todo, NEW failed, NEW s \in RequestState,
           NextOrAnswer(c, todo, failed, s), Named(todo), s.job = None \/ Named({s.job})
    PROVE  PlainState(req'[c])
<1>1. CASE todo = {}
  BY <1>1, AnswerPlain DEF NextOrAnswer, Answer
<1>2. CASE todo # {}
  <2> DEFINE t == [s EXCEPT !.pc = "each", !.todo = todo, !.failed = failed]
  <2>1. req'[c] = t
    BY <1>2, ContinueGoes DEF NextOrAnswer
  <2>2. t.op = s.op /\ t.pc = "each" /\ t.todo = todo /\ t.job = s.job
    BY DEF RequestState
  <2> HIDE DEF t
  <2>3. PlainState(t)
    BY <2>2, PlainFields
  <2> QED
    BY <2>1, <2>3
<1> QED
  BY <1>1, <1>2

LEMMA FindPlain ==
    ASSUME TypeInv, NEW c \in Clients, NEW query, InOrder(c), req[c].pc \notin {"copyTags", "save"},
           FindBlobs(c, query)
    PROVE  WritesPlainly /\ PlainState(req'[c])
<1>1. PICK rows \in SUBSET MatchingRows(query), cut \in SUBSET {"rows", "tags"} :
         /\ Continue(c, [req[c] EXCEPT !.pc = "tags", !.rows = rows, !.cut = cut])
         /\ images' = images
  BY FindBlobsSteps
<1> DEFINE s == [req[c] EXCEPT !.pc = "tags", !.rows = rows, !.cut = cut]
<1>2. req'[c] = s /\ req[c] \in RequestState
  BY <1>1, ContinueGoes DEF TypeInv, RequestsOK, RequestTypeOK
<1>3. /\ s.op = req[c].op /\ s.pc = "tags" /\ s.rows = rows
      /\ s.todo = req[c].todo /\ s.job = req[c].job
  BY <1>2 DEF RequestState
<1> HIDE DEF s
<1>4. NamesAtHand(s)
  BY <1>3 DEF InOrder, NamesAtHand
<1> QED
  BY <1>1, <1>2, <1>3, <1>4 DEF WritesPlainly, PlainState

\* what the second statement of a query brings, if it works
LEMMA FetchedNamed ==
    ASSUME TypeInv, NEW c \in Clients, InOrder(c), req[c].pc = "tags", ~CallFails,
           NEW jobs \in Fetches(req[c].rows), FetchTags(c, jobs)
    PROVE  images' = images /\ Named(jobs) /\ jobs \in SUBSET Jobs
<1>1. jobs = WithTags(req[c].rows) /\ images' = images
  BY DEF FetchTags
<1>2. \A r \in req[c].rows : r[1] \in Paths
  BY DEF TypeInv, RequestsOK, RequestTypeOK, RequestState
<1>3. \A r \in req[c].rows : Has(r[1]) /\ images[r[1]].row = r[2]
  BY DEF InOrder, StillThere
<1>4. \A r \in req[c].rows : TagsOfRow(r) = images[r[1]].tags
  BY <1>3 DEF TagsOfRow
<1>5. \A r \in req[c].rows : NamesPath(TagsOfRow(r), r[1])
  BY <1>2, <1>3, <1>4 DEF InOrder
<1>6. jobs = {[path |-> r[1], tags |-> TagsOfRow(r)] : r \in req[c].rows}
  BY <1>1 DEF WithTags
<1>7. Named(jobs)
  BY <1>5, <1>6 DEF Named
<1> QED
  BY <1>1, <1>7, FetchedType DEF TypeInv

LEMMA WritePlain ==
    ASSUME NEW p \in Paths, NEW t \in Tags, NamesPath(t, p), NEW ok, SetBlobTags(p, t, ok)
    PROVE  WritesPlainly
BY DEF WritesPlainly, SetBlobTags, SetsTags

\* the loops that write each blob's tags back with a change
LEMMA LoopWritesPlain ==
    ASSUME TypeInv, NEW c \in Clients, InOrder(c), NEW j \in req[c].todo, NEW t \in Tags,
           NamesPath(t, j.path), NEW ok \in BOOLEAN, SetBlobTags(j.path, t, ok),
           NEW failed, NEW s \in RequestState, s.op = req[c].op, s.job = req[c].job,
           NextOrAnswer(c, req[c].todo \ {j}, failed, s)
    PROVE  WritesPlainly /\ PlainState(req'[c])
<1>1. j.path \in Paths
  BY DEF TypeInv, RequestsOK, RequestTypeOK, RequestState, Jobs
<1>2. Named(req[c].todo \ {j}) /\ (s.job = None \/ Named({s.job}))
  BY NamedHere DEF InOrder, Named
<1> QED
  BY <1>1, <1>2, WritePlain, LoopPlain DEF TypeInv

LEMMA JobNamed ==
    ASSUME TypeInv, NEW c \in Clients, InOrder(c), NEW j \in req[c].todo
    PROVE  j \in Jobs /\ j.path \in Paths /\ j.tags \in Tags /\ NamesPath(j.tags, j.path)
BY NamedHere DEF InOrder, Named, TypeInv, RequestsOK, RequestTypeOK, RequestState, Jobs

LEMMA PanicPlain ==
    ASSUME TypeInv, NEW c \in Clients, NEW j, PanicOn(c, j)
    PROVE  WritesPlainly /\ PlainState(req'[c])
BY AnswerPlain DEF PanicOn, Answer, WritesPlainly, storeVars, TypeInv

LEMMA LocatePlain ==
    ASSUME TypeInv, NEW c \in Clients, NEW query, req[c].pc = "find",
           InOrder(c), ~CallFails,
           \/ FindBlobs(c, query)
           \/ FindsNone(query) /\ \E status : Answer(c, status)
           \/ FindFails
    PROVE  WritesPlainly /\ PlainState(req'[c])
BY FindPlain, AnswerPlain DEF FindsNone, FindFails, Answer, WritesPlainly, storeVars, TypeInv

LEMMA FetchPlain ==
    ASSUME TypeInv, NEW c \in Clients, req[c].pc = "tags", InOrder(c), ~CallFails,
           NEW jobs \in Fetches(req[c].rows), FetchTags(c, jobs),
           Continue(c, [Fetched(c, jobs) EXCEPT !.pc = "each", !.todo = jobs])
    PROVE  WritesPlainly /\ PlainState(req'[c])
<1> DEFINE fetched == Fetched(c, jobs)
           s == [fetched EXCEPT !.pc = "each", !.todo = jobs]
<1>1. images' = images /\ Named(jobs)
  BY FetchedNamed
<1>2. req'[c] = s
  BY ContinueGoes DEF TypeInv
<1>3. fetched \in RequestState /\ fetched.op = req[c].op /\ fetched.job = req[c].job
  BY FetchedType, FetchedFields DEF TypeInv, RequestsOK, RequestTypeOK
<1> HIDE DEF fetched
<1>4. s.op = req[c].op /\ s.pc = "each" /\ s.todo = jobs /\ s.job = req[c].job
  BY <1>3 DEF RequestState
<1> HIDE DEF s
<1>5. PlainState(s)
  BY <1>1, <1>4, NamedHere, PlainFields DEF InOrder
<1> QED
  BY <1>1, <1>2, <1>5 DEF WritesPlainly

LEMMA MarkingPlain ==
    ASSUME TypeInv, NEW c \in Clients, InOrder(c), ~CallFails,
           NEW kind \in DeleteKinds \cup RestoreKinds,
           \/ \E query : Locate(c, kind, query)
           \/ Fetch(c, kind)
           \/ At(c, kind, "each") /\ \E j \in req[c].todo : PanicOn(c, j)
    PROVE  WritesPlainly /\ PlainState(req'[c])
<1>2. CASE \E query : Locate(c, kind, query)
  <2>1. PICK query : Locate(c, kind, query)
    BY <1>2
  <2>2. req[c].pc = "find"
    BY <2>1 DEF Locate, At
  <2> QED
    BY <2>1, <2>2, LocatePlain DEF Locate
<1>3. CASE Fetch(c, kind)
  BY <1>3, AtType, FetchPlain DEF Fetch, TypeInv
<1> QED
  BY <1>2, <1>3, PanicPlain

LEMMA SoftDeletePlain ==
    ASSUME TypeInv, NEW c \in Clients, InOrder(c), ~CallFails,
           SoftDeleteCollection(c) \/ SoftDeleteAlbum(c)
    PROVE  WritesPlainly /\ PlainState(req'[c])
<1>0. "softDeleteCollection" \in DeleteKinds /\ "softDeleteAlbum" \in DeleteKinds
  BY DEF DeleteKinds
<1>1. req[c] \in RequestState
  BY DEF TypeInv, RequestsOK, RequestTypeOK
<1>2. ASSUME NEW j \in req[c].todo
      PROVE  /\ j.path \in Paths /\ Deleted(j.tags) \in Tags
             /\ NamesPath(Deleted(j.tags), j.path)
  BY JobNamed, NewTagsValuesType, NamedWrites
<1>3. ASSUME NEW j \in req[c].todo, SoftDeleteCollectionBlob(c, j)
      PROVE  WritesPlainly /\ PlainState(req'[c])
  BY <1>1, <1>2, <1>3, LoopWritesPlain DEF SoftDeleteCollectionBlob
<1>4. ASSUME NEW j \in req[c].todo, SoftDeleteAlbumBlob(c, j)
      PROVE  WritesPlainly /\ PlainState(req'[c])
  <2>1. PICK ok \in BOOLEAN :
           /\ SetBlobTags(j.path, Deleted(j.tags), ok)
           /\ Continue(c, [req[c] EXCEPT
                 !.pc = IF req[c].todo = {j} THEN "remaining" ELSE "each",
                 !.todo = @ \ {j}, !.failed = @ \/ ~ok])
    BY <1>4 DEF SoftDeleteAlbumBlob
  <2> DEFINE pc == IF req[c].todo = {j} THEN "remaining" ELSE "each"
             todo == req[c].todo \ {j}
             failed == req[c].failed \/ ~ok
             s == [req[c] EXCEPT !.pc = pc, !.todo = todo, !.failed = failed]
  <2>2. req'[c] = s
    BY <2>1, ContinueGoes DEF TypeInv
  <2>3. pc \in {"remaining", "each"}
    OBVIOUS
  <2>4. Named(todo)
    BY NamedHere DEF Named, InOrder
  <2> HIDE DEF pc, todo, failed
  <2>5. s.op = req[c].op /\ s.pc = pc /\ s.todo = todo /\ s.job = req[c].job
    BY <1>1 DEF RequestState
  <2> HIDE DEF s
  <2>6. PlainState(s)
    BY <2>3, <2>4, <2>5, NamedHere, PlainFields DEF InOrder
  <2> QED
    BY <1>2, <2>1, <2>2, <2>6, WritePlain
<1>5. CASE Remaining(c)
  BY <1>5, AnswerPlain DEF Remaining, WritesPlainly, TypeInv
<1> QED
  BY <1>0, <1>3, <1>4, <1>5, MarkingPlain DEF SoftDeleteCollection, SoftDeleteAlbum

LEMMA RestorePlain ==
    ASSUME TypeInv, NEW c \in Clients, InOrder(c), ~CallFails,
           RestoreCollection(c) \/ RestoreAlbum(c)
    PROVE  WritesPlainly /\ PlainState(req'[c])
<1>0. "restoreCollection" \in RestoreKinds /\ "restoreAlbum" \in RestoreKinds
  BY DEF RestoreKinds
<1>1. req[c] \in RequestState
  BY DEF TypeInv, RequestsOK, RequestTypeOK
<1>2. ASSUME NEW j \in req[c].todo, NEW t \in {RestoredInAlbum(j.tags, req[c].seen),
                                               RestoredInCollection(j.tags, req[c].seen)},
             RestoreBlob(c, j, t)
      PROVE  WritesPlainly /\ PlainState(req'[c])
  <2>1. t \in Tags /\ NamesPath(t, j.path) /\ j.tags.album \in Albums \cup {None}
    BY JobNamed, NewTagsValuesType, NamedWrites DEF Tags
  <2> DEFINE seen == req[c].seen \cup {j.tags.album}
             s == [req[c] EXCEPT !.seen = seen]
  <2>2. seen \in SUBSET (Albums \cup {None})
    BY <1>1, <2>1 DEF RequestState
  <2>3. PICK ok \in BOOLEAN :
           /\ SetBlobTags(j.path, t, ok)
           /\ NextOrAnswer(c, req[c].todo \ {j}, req[c].failed \/ ~ok, s)
    BY <1>2 DEF RestoreBlob
  <2> HIDE DEF seen
  <2>4. s \in RequestState /\ s.op = req[c].op /\ s.job = req[c].job
    BY <1>1, <2>2 DEF RequestState
  <2> HIDE DEF s
  <2> QED
    BY <2>1, <2>3, <2>4, LoopWritesPlain
<1> QED
  BY <1>0, <1>2, MarkingPlain DEF RestoreCollection, RestoreAlbum

LEMMA ThumbnailFetchPlain ==
    ASSUME TypeInv, NEW c \in Clients, InOrder(c), ~CallFails, NEW kind \in ThumbnailKinds,
           ThumbnailFetch(c, kind)
    PROVE  WritesPlainly /\ PlainState(req'[c])
<1> DEFINE op == req[c].op
           others(jobs) == {j \in jobs : j.path # op.image}
           fetched(jobs) == Fetched(c, jobs)
<1>1. req[c] \in RequestState /\ req[c].pc = "tags"
  BY AtType DEF ThumbnailFetch, TypeInv
<1>2. PICK jobs \in Fetches(req[c].rows) :
        /\ FetchTags(c, jobs)
        /\ Continue(c,
             IF ~Chooses(op)
             THEN [fetched(jobs) EXCEPT !.pc = "rotate", !.todo = jobs]
             ELSE IF others(jobs) = {} THEN [fetched(jobs) EXCEPT !.pc = "get"]
             ELSE                         [fetched(jobs) EXCEPT !.pc = "unmark", !.todo = others(jobs)])
  BY DEF ThumbnailFetch
<1>3. images' = images /\ Named(jobs)
  BY <1>1, <1>2, FetchedNamed
<1>4. Named(others(jobs))
  BY <1>3 DEF Named
<1>5. /\ fetched(jobs) \in RequestState /\ fetched(jobs).op = op
      /\ fetched(jobs).todo = req[c].todo /\ fetched(jobs).job = req[c].job
  BY <1>1, FetchedType, FetchedFields DEF TypeInv
<1>6. Named(req[c].todo) /\ (req[c].job = None \/ Named({req[c].job}))
  BY NamedHere DEF InOrder
<1> HIDE DEF fetched, others, op
<1>7. ASSUME NEW pc \in {"rotate", "unmark"}, NEW todo, Named(todo),
             Continue(c, [fetched(jobs) EXCEPT !.pc = pc, !.todo = todo])
      PROVE  PlainState(req'[c])
  <2> DEFINE s == [fetched(jobs) EXCEPT !.pc = pc, !.todo = todo]
  <2>1. s.op = op /\ s.pc = pc /\ s.todo = todo /\ s.job = req[c].job
    BY <1>5 DEF RequestState
  <2>2. req'[c] = s
    BY <1>7, ContinueGoes DEF TypeInv
  <2> HIDE DEF s
  <2>3. PlainState(s)
    BY <1>6, <1>7, <2>1, PlainFields
  <2> QED
    BY <2>2, <2>3
<1>8. ASSUME Continue(c, [fetched(jobs) EXCEPT !.pc = "get"])
      PROVE  PlainState(req'[c])
  <2> DEFINE s == [fetched(jobs) EXCEPT !.pc = "get"]
  <2>1. s.op = op /\ s.pc = "get" /\ s.todo = req[c].todo /\ s.job = req[c].job
    BY <1>5 DEF RequestState
  <2>2. req'[c] = s
    BY <1>8, ContinueGoes DEF TypeInv
  <2> HIDE DEF s
  <2>3. PlainState(s)
    BY <1>6, <2>1, PlainFields
  <2> QED
    BY <2>2, <2>3
<1>9. PlainState(req'[c])
  <2>1. CASE ~Chooses(op)
    BY <1>2, <1>3, <1>7, <2>1
  <2>2. CASE Chooses(op) /\ others(jobs) = {}
    BY <1>2, <1>8, <2>2
  <2>3. CASE Chooses(op) /\ others(jobs) # {}
    BY <1>2, <1>4, <1>7, <2>3
  <2> QED
    BY <2>1, <2>2, <2>3
<1> QED
  BY <1>3, <1>9 DEF WritesPlainly

LEMMA ThumbnailClearPlain ==
    ASSUME TypeInv, NEW c \in Clients, InOrder(c), NEW kind \in ThumbnailKinds, ThumbnailClear(c, kind)
    PROVE  WritesPlainly /\ PlainState(req'[c])
<1>1. req[c] \in RequestState
  BY DEF TypeInv, RequestsOK, RequestTypeOK
<1> DEFINE pc(j)   == IF req[c].todo = {j} THEN "get" ELSE "unmark"
           todo(j) == req[c].todo \ {j}
           s(j)    == [req[c] EXCEPT !.pc = pc(j), !.todo = todo(j)]
<1>2. PICK j \in req[c].todo :
         \/ PanicOn(c, j)
         \/ /\ \E ok \in BOOLEAN : SetBlobTags(j.path, Marked(kind, j.tags, FALSE), ok)
            /\ Continue(c, s(j))
  BY DEF ThumbnailClear
<1>3. CASE PanicOn(c, j)
  BY <1>3, PanicPlain
<1>4. ASSUME NEW ok \in BOOLEAN, SetBlobTags(j.path, Marked(kind, j.tags, FALSE), ok), Continue(c, s(j))
      PROVE  WritesPlainly /\ PlainState(req'[c])
  <2>1. /\ j.path \in Paths /\ Marked(kind, j.tags, FALSE) \in Tags
        /\ NamesPath(Marked(kind, j.tags, FALSE), j.path)
    BY JobNamed, NewTagsValuesType, NamedWrites DEF Marked
  <2>2. req'[c] = s(j)
    BY <1>4, ContinueGoes DEF TypeInv
  <2>3. pc(j) \in {"get", "unmark"} /\ Named(todo(j))
    BY NamedHere DEF Named, InOrder
  <2> HIDE DEF pc, todo
  <2>4. s(j).op = req[c].op /\ s(j).pc = pc(j) /\ s(j).todo = todo(j) /\ s(j).job = req[c].job
    BY <1>1 DEF RequestState
  <2> HIDE DEF s
  <2>5. PlainState(s(j))
    BY <2>3, <2>4, NamedHere, PlainFields DEF InOrder
  <2> QED
    BY <1>4, <2>1, <2>2, <2>5, WritePlain
<1> QED
  BY <1>2, <1>3, <1>4

LEMMA ThumbnailGetPlain ==
    ASSUME TypeInv, NEW c \in Clients, InOrder(c), ~CallFails, NEW kind \in ThumbnailKinds,
           ThumbnailGet(c, kind)
    PROVE  WritesPlainly /\ PlainState(req'[c])
<1> DEFINE p == req[c].op.image
           tags(n) == FirstTags(images[p].tags, n)
           s(n) == [req[c] EXCEPT !.pc = "set", !.tags = tags(n)]
<1>1. req[c] \in RequestState /\ p \in Paths
  BY ThumbnailAt DEF ThumbnailGet
<1>2. ASSUME NEW n \in 1..7, ReadTags(p, n), Continue(c, s(n))
      PROVE  WritesPlainly /\ PlainState(req'[c])
  <2>1. images' = images /\ Has(p) /\ tags(n) = images[p].tags
    BY <1>1, <1>2, ReadTagsSteps
  <2>2. NamesPath(tags(n), p)
    BY <1>1, <2>1 DEF InOrder
  <2>3. req'[c] = s(n)
    BY <1>2, ContinueGoes DEF TypeInv
  <2> HIDE DEF tags
  <2>4. /\ s(n).op = req[c].op /\ s(n).pc = "set" /\ s(n).todo = req[c].todo /\ s(n).job = req[c].job
        /\ s(n).tags = tags(n)
    BY <1>1 DEF RequestState
  <2> HIDE DEF s
  <2>5. PlainState(s(n))
    BY <2>2, <2>4, NamedHere, PlainFields DEF InOrder
  <2> QED
    BY <2>1, <2>3, <2>5 DEF WritesPlainly
<1>3. ASSUME ReadBlob(p, FALSE), Answer(c, "404")
      PROVE  WritesPlainly /\ PlainState(req'[c])
  BY <1>3, AnswerPlain DEF ReadBlob, Answer, WritesPlainly, TypeInv
<1>4. \/ \E n \in 1..7 : ReadTags(p, n) /\ Continue(c, s(n))
      \/ ReadBlob(p, FALSE) /\ Answer(c, "404")
  BY DEF ThumbnailGet
<1> QED
  BY <1>2, <1>3, <1>4

LEMMA ThumbnailPlain ==
    ASSUME TypeInv, NEW c \in Clients, InOrder(c), ~CallFails,
           ThumbnailCollection(c) \/ ThumbnailAlbum(c)
    PROVE  WritesPlainly /\ PlainState(req'[c])
<1>1. req[c] \in RequestState
  BY DEF TypeInv, RequestsOK, RequestTypeOK
<1>2. PICK kind, query :
        /\ kind \in ThumbnailKinds
        /\ \/ ThumbnailFind(c, kind, query)
           \/ ThumbnailFetch(c, kind)
           \/ ThumbnailClear(c, kind)
           \/ ThumbnailGet(c, kind)
           \/ ThumbnailSet(c, kind)
           \/ ThumbnailRotate(c, kind)
  BY DEF ThumbnailCollection, ThumbnailAlbum, ThumbnailKinds
<1>3. req[c].op \in Requests /\ req[c].op # None /\ req[c].op.kind = kind
  <2>1. \E pc : At(c, kind, pc)
    BY <1>2 DEF ThumbnailFind, ThumbnailFetch, ThumbnailClear, ThumbnailGet, ThumbnailSet,
                ThumbnailRotate
  <2> QED
    BY <2>1, AtType DEF TypeInv
<1>4. CASE ThumbnailFind(c, kind, query)
  <2> DEFINE s == [req[c] EXCEPT !.pc = "get"]
  <2>1. req[c].pc = "find"
    BY <1>4 DEF ThumbnailFind, At
  <2>2. CASE FindBlobs(c, query)
    BY <2>1, <2>2, FindPlain
  <2>3. CASE FindsNone(query) /\ Continue(c, s)
    <3>1. req'[c] = s /\ images' = images
      BY <2>3, ContinueGoes DEF FindsNone, storeVars, TypeInv
    <3>2. s.op = req[c].op /\ s.pc = "get" /\ s.todo = req[c].todo /\ s.job = req[c].job
      BY <1>1 DEF RequestState
    <3> HIDE DEF s
    <3>3. PlainState(s)
      BY <3>2, NamedHere, PlainFields DEF InOrder
    <3> QED
      BY <3>1, <3>3 DEF WritesPlainly
  <2>4. CASE FindsNone(query) /\ Answer(c, "404")
    BY <2>4, AnswerPlain DEF FindsNone, storeVars, Answer, WritesPlainly, TypeInv
  <2> QED
    BY <1>4, <2>2, <2>3, <2>4 DEF ThumbnailFind, FindFails
<1>5. CASE ThumbnailFetch(c, kind)
  BY <1>2, <1>5, ThumbnailFetchPlain
<1>6. CASE ThumbnailClear(c, kind)
  BY <1>2, <1>6, ThumbnailClearPlain
<1>7. CASE ThumbnailGet(c, kind)
  BY <1>2, <1>7, ThumbnailGetPlain
<1>8. CASE ThumbnailSet(c, kind)
  <2> DEFINE t == Rotated(Marked(kind, req[c].tags, TRUE), req[c].op)
  <2>1. /\ req[c].pc = "set" /\ req[c].op.image \in Paths /\ req[c].tags \in Tags
    BY <1>2, <1>8, ThumbnailAt DEF ThumbnailSet, At
  <2>2. NamesPath(req[c].tags, req[c].op.image)
    BY <1>2, <1>3, <2>1 DEF InOrder, NamesAtHand
  <2>3. /\ Marked(kind, req[c].tags, TRUE) \in Tags
        /\ NamesPath(Marked(kind, req[c].tags, TRUE), req[c].op.image)
    BY <2>1, <2>2, NewTagsValuesType, NamedWrites DEF Marked
  <2>4. t \in Tags /\ NamesPath(t, req[c].op.image)
    BY <1>3, <2>1, <2>3, NewTagsValuesType, NamedWrites
  <2> HIDE DEF t
  <2>5. PICK ok \in BOOLEAN : SetBlobTags(req[c].op.image, t, ok) /\ \E status : Answer(c, status)
    BY <1>8 DEF ThumbnailSet, t
  <2> QED
    BY <2>1, <2>4, <2>5, WritePlain, AnswerPlain DEF Answer, TypeInv
<1>9. CASE ThumbnailRotate(c, kind)
  <2>1. PICK j \in req[c].todo :
          \/ PanicOn(c, j)
          \/ \E ok \in BOOLEAN : /\ SetBlobTags(j.path, Rotated(j.tags, req[c].op), ok)
                                 /\ \E status : Answer(c, status)
    BY <1>9 DEF ThumbnailRotate
  <2>2. /\ j.path \in Paths /\ Rotated(j.tags, req[c].op) \in Tags
        /\ NamesPath(Rotated(j.tags, req[c].op), j.path)
    BY <1>3, JobNamed, NewTagsValuesType, NamedWrites
  <2> QED
    BY <2>1, <2>2, PanicPlain, WritePlain, AnswerPlain DEF Answer, TypeInv
<1> QED
  BY <1>2, <1>4, <1>5, <1>6, <1>7, <1>8, <1>9

LEMMA BodyNamed ==
    ASSUME EditsInPlace, NEW op \in Requests, op.kind = "update"
    PROVE  NamesPath(BodyTags(op), op.image)
<1>1. op.tags \in Tags /\ op.tags.collection = op.image[1] /\ op.tags.album = op.image[2]
  BY RequestAssumption DEF EditsInPlace
<1> QED
  BY <1>1 DEF NamesPath, BodyTags, Tags

LEMMA UpdateGetPlain ==
    ASSUME TypeInv, NEW c \in Clients, InOrder(c), UpdateGet(c)
    PROVE  WritesPlainly /\ PlainState(req'[c])
<1> DEFINE p == req[c].op.image
           s(tags) == [req[c] EXCEPT !.pc = "find", !.tags = tags]
<1>1. req[c] \in RequestState
  BY DEF TypeInv, RequestsOK, RequestTypeOK
<1>2. PICK tags : /\ images' = images
                  /\ Continue(c, s(tags)) \/ \E status : Answer(c, status)
  <2>1. CASE \E n \in 1..7 :
               /\ ReadTags(p, n)
               /\ \/ Continue(c, s(FirstTags(images[p].tags, n)))
                  \/ Answer(c, "304")
    BY <2>1 DEF ReadTags
  <2>2. CASE ReadBlob(p, FALSE) /\ Answer(c, "500")
    BY <2>2 DEF ReadBlob
  <2> QED
    BY <2>1, <2>2 DEF UpdateGet
<1>4. s(tags).op = req[c].op /\ s(tags).pc = "find" /\ s(tags).todo = req[c].todo /\ s(tags).job = req[c].job
  BY <1>1 DEF RequestState
<1>5. Continue(c, s(tags)) => req'[c] = s(tags)
  BY ContinueGoes DEF TypeInv
<1> HIDE DEF s
<1>6. PlainState(s(tags))
  BY <1>4, NamedHere, PlainFields DEF InOrder
<1> QED
  BY <1>2, <1>5, <1>6, AnswerPlain DEF Answer, WritesPlainly, TypeInv

LEMMA UpdateFindPlain ==
    ASSUME TypeInv, NEW c \in Clients, InOrder(c), ~CallFails, UpdateFind(c)
    PROVE  WritesPlainly /\ PlainState(req'[c])
<1> DEFINE query == CollectionImageQuery(req[c].tags.collection)
           s == [req[c] EXCEPT !.pc = "set", !.tags = None]
<1>1. /\ req[c] \in RequestState /\ req[c].op.kind = "update" /\ req[c].pc = "find"
  BY UpdateAt DEF UpdateFind, At
<1>2. FindBlobs(c, query) \/ (images' = images /\ Continue(c, s))
  BY DEF UpdateFind, FindsNone, FindFails, storeVars
<1>3. Continue(c, s) => req'[c] = s
  BY ContinueGoes DEF TypeInv
<1>4. s.op = req[c].op /\ s.pc = "set" /\ s.todo = req[c].todo /\ s.job = req[c].job
  BY <1>1 DEF RequestState
<1> HIDE DEF s
<1>5. PlainState(s)
  BY <1>1, <1>4, NamedHere, PlainFields DEF InOrder, ThumbnailKinds
<1> HIDE DEF query
<1>6. CASE FindBlobs(c, query)
  BY <1>1, <1>6, FindPlain
<1> QED
  BY <1>2, <1>3, <1>5, <1>6 DEF WritesPlainly

LEMMA UpdateFetchPlain ==
    ASSUME TypeInv, NEW c \in Clients, InOrder(c), ~CallFails, UpdateFetch(c)
    PROVE  WritesPlainly /\ PlainState(req'[c])
<1> DEFINE fetched(jobs) == Fetched(c, jobs)
           s(jobs, replaced, j) == [fetched(jobs) EXCEPT !.tags = None,
                                        !.pc = IF replaced THEN "clear" ELSE "set",
                                        !.job = IF replaced THEN j ELSE None]
<1>1. req[c] \in RequestState /\ req[c].op.kind = "update" /\ req[c].pc = "tags"
  BY UpdateAt DEF UpdateFetch, At
<1>2. PICK jobs \in Fetches(req[c].rows) :
        /\ FetchTags(c, jobs)
        /\ \E j \in jobs :
             LET replaced == BodyTags(req[c].op).collectionImage = TRUE
                             /\ j.tags.name # req[c].op.image
             IN  Continue(c, s(jobs, replaced, j))
  BY DEF UpdateFetch
<1>3. PICK j \in jobs, replaced \in BOOLEAN : Continue(c, s(jobs, replaced, j))
  BY <1>2
<1>4. images' = images /\ Named({j})
  BY <1>1, <1>2, FetchedNamed DEF Named
<1> DEFINE pc == IF replaced THEN "clear" ELSE "set"
           job == IF replaced THEN j ELSE None
           t == s(jobs, replaced, j)
<1>5. pc \in {"clear", "set"} /\ (job = None \/ Named({job}))
  BY <1>4
<1>9. /\ fetched(jobs) \in RequestState /\ fetched(jobs).op = req[c].op
      /\ fetched(jobs).todo = req[c].todo
  BY <1>1, FetchedType, FetchedFields DEF TypeInv
<1> HIDE DEF pc, job, fetched
<1>6. t.op = req[c].op /\ t.pc = pc /\ t.todo = req[c].todo /\ t.job = job
  BY <1>9 DEF RequestState, pc, job
<1>7. req'[c] = t
  BY <1>3, ContinueGoes DEF TypeInv
<1> HIDE DEF t, s
<1>8. PlainState(t)
  BY <1>1, <1>5, <1>6, NamedHere, PlainFields DEF InOrder, ThumbnailKinds
<1> QED
  BY <1>4, <1>7, <1>8 DEF WritesPlainly

LEMMA UpdateClearPlain ==
    ASSUME TypeInv, NEW c \in Clients, InOrder(c), UpdateClear(c)
    PROVE  WritesPlainly /\ PlainState(req'[c])
<1> DEFINE j == req[c].job
           t == MarkCollection(j.tags, FALSE)
           s == [req[c] EXCEPT !.pc = "set", !.job = None]
<1>1. req[c] \in RequestState /\ req[c].op.kind = "update" /\ j \in Jobs
  BY UpdateAt DEF UpdateClear
<1>2. CASE PanicOn(c, j)
  BY <1>2, PanicPlain
<1>3. ASSUME NEW ok \in BOOLEAN, SetBlobTags(j.path, t, ok),
             Continue(c, s) \/ \E status : Answer(c, status)
      PROVE  WritesPlainly /\ PlainState(req'[c])
  <2>1. j # None /\ j.path \in Paths /\ j.tags \in Tags
    BY <1>1, RequestAssumption DEF Jobs
  <2>2. NamesPath(j.tags, j.path)
    BY <2>1, NamedHere DEF InOrder, Named
  <2>3. t \in Tags /\ NamesPath(t, j.path)
    BY <2>1, <2>2, NewTagsValuesType, NamedWrites
  <2>4. s.op = req[c].op /\ s.pc = "set" /\ s.todo = req[c].todo /\ s.job = None
    BY <1>1 DEF RequestState
  <2>5. Continue(c, s) => req'[c] = s
    BY ContinueGoes DEF TypeInv
  <2> HIDE DEF s, t
  <2>6. PlainState(s)
    BY <1>1, <2>4, NamedHere, PlainFields DEF InOrder, ThumbnailKinds
  <2> QED
    BY <1>3, <2>1, <2>3, <2>5, <2>6, WritePlain, AnswerPlain DEF Answer, TypeInv
<1> QED
  BY <1>2, <1>3 DEF UpdateClear

LEMMA UpdatePlain ==
    ASSUME TypeInv, EditsInPlace, NEW c \in Clients, InOrder(c), ~CallFails, Update(c)
    PROVE  WritesPlainly /\ PlainState(req'[c])
<1>1. CASE UpdateSet(c)
  <2>1. /\ req[c].op \in Requests /\ req[c].op.kind = "update"
        /\ req[c].op.image \in Paths /\ BodyTags(req[c].op) \in Tags
    BY <1>1, UpdateAt DEF UpdateSet
  <2>2. PICK ok \in BOOLEAN : /\ SetBlobTags(req[c].op.image, BodyTags(req[c].op), ok)
                              /\ \E status : Answer(c, status)
    BY <1>1 DEF UpdateSet
  <2> QED
    BY <2>1, <2>2, BodyNamed, WritePlain, AnswerPlain DEF Answer, TypeInv
<1> QED
  BY <1>1, UpdateGetPlain, UpdateFindPlain, UpdateFetchPlain, UpdateClearPlain DEF Update

LEMMA BrowsePlain ==
    ASSUME TypeInv, NEW c \in Clients, InOrder(c), ~CallFails,
           BrowseCollections(c) \/ BrowseAlbums(c)
    PROVE  WritesPlainly /\ PlainState(req'[c])
<1>1. req[c] \in RequestState
  BY DEF TypeInv, RequestsOK, RequestTypeOK
<1>2. \A kind : ~NoTagList(c, kind)
  BY DEF NoTagList, FindFails
<1>3. PICK kind, query :
        /\ kind \in BrowseKinds
        /\ BrowseFind(c, kind, query) \/ BrowseFetch(c, kind) \/ BrowseClear(c, kind)
  BY <1>2 DEF BrowseCollections, BrowseAlbums, BrowseKinds
<1>4. /\ BrowseFind(c, kind, query) => req[c].pc = "find"
      /\ BrowseFetch(c, kind) => req[c].pc = "tags"
  BY DEF BrowseFind, BrowseFetch, At
<1>5. CASE BrowseFind(c, kind, query)
  BY <1>4, <1>5, LocatePlain DEF BrowseFind
<1>6. CASE BrowseFetch(c, kind)
  <2> DEFINE s(jobs) == Fetched(c, jobs)
  <2>1. PICK jobs \in Fetches(req[c].rows) :
          /\ FetchTags(c, jobs)
          /\ \E extras \in SUBSET jobs : NextOrAnswer(c, extras, FALSE, s(jobs))
    BY <1>6 DEF BrowseFetch, Extras
  <2>2. images' = images /\ Named(jobs)
    BY <1>4, <1>6, <2>1, FetchedNamed
  <2>3. PICK extras \in SUBSET jobs : NextOrAnswer(c, extras, FALSE, s(jobs))
    BY <2>1
  <2>4. Named(extras)
    BY <2>2, <2>3 DEF Named
  <2>5. s(jobs) \in RequestState /\ s(jobs).op = req[c].op /\ s(jobs).job = req[c].job
    BY <1>1, FetchedType, FetchedFields DEF TypeInv
  <2> HIDE DEF s
  <2>6. PlainState(req'[c])
    BY <2>3, <2>4, <2>5, NamedHere, LoopPlain DEF InOrder, TypeInv
  <2> QED
    BY <2>2, <2>6 DEF WritesPlainly
<1>7. CASE BrowseClear(c, kind)
  <2>1. PICK j \in req[c].todo :
          \/ PanicOn(c, j)
          \/ \E ok \in BOOLEAN, tags \in {CollectionCleared(j.tags), AlbumCleared(j.tags)} :
               /\ SetBlobTags(j.path, tags, ok)
               /\ NextOrAnswer(c, req[c].todo \ {j}, FALSE, req[c])
    BY <1>7 DEF BrowseClear, Cleared
  <2>2. ASSUME NEW tags \in {CollectionCleared(j.tags), AlbumCleared(j.tags)}
        PROVE  tags \in Tags /\ NamesPath(tags, j.path)
    BY JobNamed, NewTagsValuesType, NamedWrites
  <2>3. CASE PanicOn(c, j)
    BY <2>3, PanicPlain
  <2>4. ASSUME NEW ok \in BOOLEAN, NEW tags \in {CollectionCleared(j.tags), AlbumCleared(j.tags)},
               SetBlobTags(j.path, tags, ok), NextOrAnswer(c, req[c].todo \ {j}, FALSE, req[c])
        PROVE  WritesPlainly /\ PlainState(req'[c])
    BY <1>1, <2>2, <2>4, LoopWritesPlain
  <2> QED
    BY <2>1, <2>3, <2>4
<1> QED
  BY <1>3, <1>5, <1>6, <1>7

-----------------------------------------------------------------------------
(* The order is kept by every step.                                        *)

\* where every photo is in one place, as its tags say
PhotoOnce == \A p, q \in Paths : Has(p) /\ Has(q) /\ images[p].photo = images[q].photo => p = q

\* Orderly, where nothing has failed
Order == BlobsNamed /\ PhotosApart /\ \A c \in Clients : NamesAtHand(req[c]) /\ StillThere(req[c])

LEMMA OrderBefore ==
    ASSUME OneClient, Order, NEW c \in Clients
    PROVE  /\ NamesAtHand(req[c]) /\ StillThere(req[c])
           /\ \A p \in Paths : Has(p) =>
                \/ NamesPath(images[p].tags, p)
                \/ req[c].pc = "retag" /\ p = Copy(req[c])
           /\ \A p, q \in Paths : Has(p) /\ Has(q) /\ images[p].photo = images[q].photo =>
                \/ p = q
                \/ req[c].pc \in {"retag", "delete"} /\ {p, q} = {req[c].job.path, Copy(req[c])}
<1>1. \A d \in Clients : d = c
  BY DEF OneClient
<1> QED
  BY <1>1 DEF Order, BlobsNamed, PhotosApart

LEMMA InOrderBefore ==
    ASSUME OneClient, Order, NEW c \in Clients, req[c].pc \notin {"retag", "delete"}
    PROVE  InOrder(c) /\ PhotoOnce
BY OrderBefore DEF InOrder, PhotoOnce

\* the next state is in order, if it is for c
NamedNext(c) == \A p \in Paths : images'[p] # NoBlob =>
    \/ NamesPath(images'[p].tags, p)
    \/ req'[c].pc = "retag" /\ p = NewPath(req'[c].op, req'[c].job.path)

ApartNext(c) ==
    \A p, q \in Paths :
        images'[p] # NoBlob /\ images'[q] # NoBlob /\ images'[p].photo = images'[q].photo =>
            \/ p = q
            \/ /\ req'[c].pc \in {"retag", "delete"}
               /\ {p, q} = {req'[c].job.path, NewPath(req'[c].op, req'[c].job.path)}

ThereNext(c) ==
    /\ req'[c].pc = "tags" => \A r \in req'[c].rows : images'[r[1]] # NoBlob /\ images'[r[1]].row = r[2]
    /\ req'[c].pc \in {"copyTags", "save"} =>
         images'[req'[c].job.path] # NoBlob /\ images'[req'[c].job.path].photo = req'[c].photo

LEMMA OrderAfter ==
    ASSUME OneClient, NEW c \in Clients,
           NamedNext(c), ApartNext(c), ThereNext(c), NamesAtHand(req'[c])
    PROVE  Order'
<1>1. \A d \in Clients : d = c
  BY DEF OneClient
<1>2. BlobsNamed'
  BY DEF NamedNext, BlobsNamed, Copy, Has, NewPath, NamesPath
<1>3. PhotosApart'
  BY DEF ApartNext, PhotosApart, Copy, Has, NewPath
<1>4. NamesAtHand(req[c])'
  BY DEF NamesAtHand, NamesPath
<1>5. StillThere(req[c])'
  BY DEF ThereNext, StillThere, Has
<1> QED
  BY <1>1, <1>2, <1>3, <1>4, <1>5 DEF Order

\* a step that leaves the container alone
LEMMA ImagesKept ==
    ASSUME NEW c \in Clients, InOrder(c), PhotoOnce, images' = images
    PROVE  NamedNext(c) /\ ApartNext(c)
BY DEF InOrder, PhotoOnce, NamedNext, ApartNext, Has

LEMMA WrittenPlainly ==
    ASSUME TypeInv, NEW c \in Clients, InOrder(c), PhotoOnce, WritesPlainly
    PROVE  NamedNext(c) /\ ApartNext(c)
<1>1. CASE images' = images
  BY <1>1, ImagesKept
<1>2. CASE images' # images
  <2>1. PICK p \in Paths, t \in Tags : SetsTags(p, t) /\ NamesPath(t, p)
    BY <1>2 DEF WritesPlainly
  <2>2. \A q \in Paths : /\ images'[q] # NoBlob <=> Has(q)
                         /\ Has(q) => /\ images'[q].photo = images[q].photo
                                      /\ images'[q].tags = IF q = p THEN t ELSE images[q].tags
    BY <2>1, SetsTagsEffect DEF TypeInv
  <2> QED
    BY <2>1, <2>2 DEF InOrder, PhotoOnce, NamedNext, ApartNext
<1> QED
  BY <1>1, <1>2

LEMMA PlainOrderly ==
    ASSUME OneClient, TypeInv, NEW c \in Clients, InOrder(c), PhotoOnce, WritesPlainly, PlainState(req'[c])
    PROVE  Order'
<1>1. NamedNext(c) /\ ApartNext(c)
  BY WrittenPlainly
<1>2. ASSUME req'[c].pc = "tags"
      PROVE  \A r \in req'[c].rows : images'[r[1]] # NoBlob /\ images'[r[1]].row = r[2]
  <2>1. images' = images /\ \E query : req'[c].rows \subseteq MatchingRows(query)
    BY <1>2 DEF PlainState
  <2> QED
    BY <2>1 DEF MatchingRows, Has
<1>3. ThereNext(c)
  BY <1>2 DEF ThereNext, PlainState
<1> QED
  BY <1>1, <1>3, OrderAfter DEF PlainState

LEMMA RenameReadOrderly ==
    ASSUME OneClient, TypeInv, NEW c \in Clients, InOrder(c), PhotoOnce, ~CallFails,
           NEW kind \in RenameKinds, RenameRead(c, kind)
    PROVE  Order'
<1>1. req[c] \in RequestState
  BY RenameAt DEF RenameRead
<1> DEFINE photo(j) == images[j.path].photo
           todo(j)  == req[c].todo \ {j}
           s(j) == [req[c] EXCEPT !.pc = "copyTags", !.todo = todo(j), !.job = j, !.photo = photo(j)]
<1>2. PICK j \in req[c].todo, ok \in BOOLEAN :
        /\ ReadBlob(j.path, ok)
        /\ IF ok THEN Continue(c, s(j)) ELSE NextOrAnswer(c, req[c].todo \ {j}, TRUE, req[c])
  BY DEF RenameRead
<1>3. images' = images /\ (ok => Has(j.path))
  BY <1>2 DEF ReadBlob
<1>4. Named(todo(j)) /\ Named({j})
  BY NamedHere DEF InOrder, Named
<1>5. CASE ok
  <2>1. req'[c] = s(j)
    BY <1>2, <1>5, ContinueGoes DEF TypeInv
  <2>2. images'[j.path] # NoBlob /\ images'[j.path].photo = photo(j)
    BY <1>3, <1>5 DEF Has
  <2> HIDE DEF photo, todo
  <2>3. /\ s(j).pc = "copyTags" /\ s(j).todo = todo(j) /\ s(j).job = j
        /\ s(j).photo = photo(j) /\ s(j).op = req[c].op
    BY <1>1 DEF RequestState
  <2> HIDE DEF s
  <2>4. NamesAtHand(req'[c])
    BY <1>4, <2>1, <2>3 DEF NamesAtHand, Named
  <2>5. ThereNext(c)
    BY <2>1, <2>2, <2>3 DEF ThereNext
  <2> QED
    BY <1>3, <2>4, <2>5, ImagesKept, OrderAfter
<1>6. CASE ~ok
  <2>1. NextOrAnswer(c, req[c].todo \ {j}, TRUE, req[c])
    BY <1>2, <1>6
  <2>2. PlainState(req'[c])
    BY <1>1, <1>4, <2>1, LoopPlain, NamedHere DEF InOrder, TypeInv
  <2> QED
    BY <1>3, <2>2, PlainOrderly DEF WritesPlainly
<1> QED
  BY <1>5, <1>6

LEMMA RenameReadTagsOrderly ==
    ASSUME OneClient, TypeInv, NEW c \in Clients, InOrder(c), PhotoOnce,
           NEW kind \in RenameKinds, RenameReadTags(c, kind)
    PROVE  Order'
<1> DEFINE p == req[c].job.path
           s(tags) == [req[c] EXCEPT !.pc = "save", !.tags = tags]
<1>1. req[c] \in RequestState /\ req[c].pc = "copyTags"
  BY RenameAt DEF RenameReadTags
<1>2. PICK tags : images' = images /\ Continue(c, s(tags))
  BY DEF RenameReadTags, ReadTags, ReadBlob
<1>3. images' = images /\ req'[c] = s(tags)
  BY <1>2, ContinueGoes DEF TypeInv
<1>4. /\ s(tags).pc = "save" /\ s(tags).todo = req[c].todo /\ s(tags).job = req[c].job
      /\ s(tags).photo = req[c].photo /\ s(tags).op = req[c].op
  BY <1>1 DEF RequestState
<1> HIDE DEF s
<1>5. Has(p) /\ images[p].photo = req[c].photo
  BY <1>1 DEF InOrder, StillThere
<1>6. ThereNext(c)
  BY <1>3, <1>4, <1>5 DEF ThereNext, Has
<1>7. NamesAtHand(req'[c])
  BY <1>3, <1>4 DEF NamesAtHand, InOrder
<1> QED
  BY <1>3, <1>6, <1>7, ImagesKept, OrderAfter

\* the copy has the photo of the blob it was made of, and of no other
LEMMA RenameSaveOrderly ==
    ASSUME OneClient, TypeInv, NEW c \in Clients, InOrder(c), PhotoOnce, ~CallFails,
           NEW kind \in RenameKinds, RenameSave(c, kind)
    PROVE  Order'
<1> DEFINE j == req[c].job
           q == NewPath(req[c].op, j.path)
           s == [req[c] EXCEPT !.pc = "retag", !.photo = None, !.tags = None]
<1>1. req[c] \in RequestState /\ req[c].pc = "save" /\ q \in Paths /\ j.path \in Paths
  BY RenameAt DEF RenameSave
<1>2. Stored(q, req[c].photo, req[c].tags) /\ Continue(c, s)
  BY DEF RenameSave, SaveBlob
<1>3. req'[c] = s
  BY <1>2, ContinueGoes DEF TypeInv
<1>4. s.pc = "retag" /\ s.todo = req[c].todo /\ s.job = j /\ s.op = req[c].op
  BY <1>1 DEF RequestState
<1> HIDE DEF s
<1>5. /\ images'[q] # NoBlob => images'[q].photo = req[c].photo
      /\ \A p \in Paths : p # q => images'[p] = images[p]
  BY <1>1, <1>2 DEF Stored, TypeInv, StoreTypeOK
<1>6. Has(j.path) /\ images[j.path].photo = req[c].photo
  BY <1>1 DEF InOrder, StillThere
<1>7. NamedNext(c)
  BY <1>3, <1>4, <1>5 DEF NamedNext, InOrder, Has
<1>8. \A p \in Paths : Has(p) /\ images[p].photo = req[c].photo => p = j.path
  BY <1>1, <1>6 DEF PhotoOnce
<1>9. ApartNext(c)
  <2> SUFFICES ASSUME NEW p \in Paths, NEW r \in Paths, p # r,
                      images'[p] # NoBlob, images'[r] # NoBlob, images'[p].photo = images'[r].photo
               PROVE  {p, r} = {j.path, q}
    BY <1>3, <1>4 DEF ApartNext
  <2>1. CASE p # q /\ r # q
    BY <1>5, <2>1 DEF PhotoOnce, Has
  <2>2. CASE p = q
    BY <1>5, <1>8, <2>2 DEF Has
  <2>3. CASE r = q
    BY <1>5, <1>8, <2>3 DEF Has
  <2> QED
    BY <2>1, <2>2, <2>3
<1>10. NamesAtHand(req'[c])
  BY <1>3, <1>4 DEF NamesAtHand, InOrder
<1>11. ThereNext(c)
  BY <1>3, <1>4 DEF ThereNext
<1> QED
  BY <1>7, <1>9, <1>10, <1>11, OrderAfter

LEMMA NewTagsName ==
    ASSUME NEW op \in Renames, NEW j \in Jobs, NamesPath(j.tags, j.path)
    PROVE  NamesPath(NewTags(op, j), NewPath(op, j.path))
<1>1. j.tags \in Tags
  BY DEF Jobs
<1> QED
  BY <1>1 DEF NamesPath, NewTags, NewPath, Tags

\* the loop of a rename goes on, or the answer is out
LEMMA NextPlain ==
    ASSUME TypeInv, NEW c \in Clients, NamesAtHand(req[c]), NEW failed, RenameNext(c, failed)
    PROVE  PlainState(req'[c])
<1> DEFINE s == [req[c] EXCEPT !.job = None, !.photo = None, !.tags = None]
<1>1. req[c] \in RequestState
  BY DEF TypeInv, RequestsOK, RequestTypeOK
<1>2. NextOrAnswer(c, req[c].todo, req[c].failed \/ failed, s)
  BY DEF RenameNext
<1>3. s \in RequestState /\ s.job = None
  BY <1>1 DEF RequestState
<1> HIDE DEF s
<1> QED
  BY <1>2, <1>3, NamedHere, LoopPlain DEF TypeInv

LEMMA RenameRetagOrderly ==
    ASSUME OneClient, TypeInv, Order, NEW c \in Clients, ~CallFails,
           NEW kind \in RenameKinds, RenameRetag(c, kind)
    PROVE  Order'
<1> DEFINE j == req[c].job
           q == NewPath(req[c].op, j.path)
           t == NewTags(req[c].op, j)
           s == [req[c] EXCEPT !.pc = "delete"]
<1>1. /\ req[c] \in RequestState /\ req[c].pc = "retag" /\ req[c].op \in Renames /\ q \in Paths
      /\ j.path \in Paths /\ j \in Jobs /\ t \in Tags
  BY RenameAt, NewTagsType DEF RenameRetag
<1>2. /\ NamesAtHand(req[c])
      /\ \A p \in Paths : Has(p) => NamesPath(images[p].tags, p) \/ p = q
      /\ \A p, r \in Paths : Has(p) /\ Has(r) /\ images[p].photo = images[r].photo =>
           p = r \/ {p, r} = {j.path, q}
  BY <1>1, OrderBefore DEF Copy
<1>3. PICK ok \in BOOLEAN : /\ SetBlobTags(q, t, ok)
                            /\ IF ok THEN Continue(c, s) ELSE RenameNext(c, TRUE)
  BY DEF RenameRetag
<1>4. CASE ok
  <2>1. req'[c] = s /\ SetsTags(q, t)
    BY <1>3, <1>4, ContinueGoes DEF SetBlobTags, SetsTags, TypeInv
  <2>2. s.pc = "delete" /\ s.todo = req[c].todo /\ s.job = j /\ s.op = req[c].op
    BY <1>1 DEF RequestState
  <2> HIDE DEF s
  <2>3. j # None
    BY <1>1, RequestAssumption
  <2>4. NamesPath(t, q)
    BY <1>1, <1>2, <2>3, NewTagsName DEF NamesAtHand
  <2> HIDE DEF q, t
  <2>5. \A p \in Paths : /\ images'[p] # NoBlob <=> Has(p)
                         /\ Has(p) => /\ images'[p].photo = images[p].photo
                                      /\ images'[p].tags = IF p = q THEN t ELSE images[p].tags
    BY <1>1, <2>1, SetsTagsEffect DEF TypeInv
  <2>6. NamedNext(c)
    BY <1>2, <2>4, <2>5 DEF NamedNext
  <2>7. ApartNext(c)
    BY <1>2, <2>1, <2>2, <2>5 DEF ApartNext, q
  <2>8. NamesAtHand(req'[c]) /\ ThereNext(c)
    BY <1>2, <2>1, <2>2 DEF NamesAtHand, ThereNext
  <2> QED
    BY <2>6, <2>7, <2>8, OrderAfter
<1>5. CASE ~ok
  <2>1. ~Has(q) /\ images' = images /\ RenameNext(c, TRUE)
    BY <1>3, <1>5 DEF SetBlobTags
  <2>2. PlainState(req'[c])
    BY <1>2, <2>1, NextPlain
  <2>3. ThereNext(c) /\ NamesAtHand(req'[c])
    BY <2>1, <2>2 DEF ThereNext, PlainState, MatchingRows, Has
  <2>4. NamedNext(c)
    BY <1>2, <2>1 DEF NamedNext, Has
  <2>5. ApartNext(c)
    BY <1>2, <2>1 DEF ApartNext, Has
  <2> QED
    BY <2>3, <2>4, <2>5, OrderAfter
<1> QED
  BY <1>4, <1>5

LEMMA RenameDeleteOrderly ==
    ASSUME OneClient, TypeInv, Order, NEW c \in Clients, ~CallFails,
           NEW kind \in RenameKinds, RenameDelete(c, kind)
    PROVE  Order'
<1> DEFINE p == req[c].job.path
<1>1. /\ req[c].pc = "delete" /\ p \in Paths
  BY RenameAt DEF RenameDelete
<1>2. /\ NamesAtHand(req[c])
      /\ \A r \in Paths : Has(r) => NamesPath(images[r].tags, r)
      /\ \A q, r \in Paths : Has(q) /\ Has(r) /\ images[q].photo = images[r].photo =>
           q = r \/ p \in {q, r}
  BY <1>1, OrderBefore
<1>3. Drops(p) /\ \E failed \in BOOLEAN : RenameNext(c, failed)
  BY DEF RenameDelete, DeleteBlob, Drops
<1>4. images'[p] = NoBlob /\ \A r \in Paths : r # p => images'[r] = images[r]
  BY <1>1, <1>3, DropsEffect DEF TypeInv
<1>5. PlainState(req'[c])
  BY <1>2, <1>3, NextPlain
<1>6. req'[c].pc # "tags"
  <2>1. PICK failed \in BOOLEAN : RenameNext(c, failed)
    BY <1>3
  <2>2. req[c] \in RequestState
    BY DEF TypeInv, RequestsOK, RequestTypeOK
  <2> QED
    BY <2>1, <2>2, RenameNextGoes DEF Ended, Goes, Idle, TypeInv
<1>7. ThereNext(c) /\ NamesAtHand(req'[c])
  BY <1>5, <1>6 DEF ThereNext, PlainState
<1>8. NamedNext(c) /\ ApartNext(c)
  BY <1>2, <1>4 DEF NamedNext, ApartNext, Has
<1> QED
  BY <1>7, <1>8, OrderAfter

LEMMA RenameOrderly ==
    ASSUME OneClient, TypeInv, Order, NEW c \in Clients, ~CallFails,
           NEW kind \in RenameKinds, RenameSteps(c, kind)
    PROVE  Order'
<1>1. CASE RenameFind(c, kind)
  <2>1. req[c].pc = "find"
    BY <1>1 DEF RenameFind, At
  <2>2. InOrder(c) /\ PhotoOnce
    BY <2>1, InOrderBefore
  <2>3. WritesPlainly /\ PlainState(req'[c])
    BY <1>1, <2>1, <2>2, LocatePlain DEF RenameFind
  <2> QED
    BY <2>2, <2>3, PlainOrderly
<1>2. CASE RenameFetch(c, kind)
  <2>1. req[c].pc = "tags"
    BY <1>2 DEF RenameFetch, At
  <2>2. InOrder(c) /\ PhotoOnce
    BY <2>1, InOrderBefore
  <2>3. WritesPlainly /\ PlainState(req'[c])
    BY <1>2, <2>1, <2>2, FetchPlain DEF RenameFetch
  <2> QED
    BY <2>2, <2>3, PlainOrderly
<1>3. CASE RenameRead(c, kind)
  BY <1>3, InOrderBefore, RenameReadOrderly DEF RenameRead, At
<1>4. CASE RenameReadTags(c, kind)
  BY <1>4, InOrderBefore, RenameReadTagsOrderly DEF RenameReadTags, At
<1>5. CASE RenameSave(c, kind)
  BY <1>5, InOrderBefore, RenameSaveOrderly DEF RenameSave, At
<1> QED
  BY <1>1, <1>2, <1>3, <1>4, <1>5, RenameRetagOrderly, RenameDeleteOrderly DEF RenameSteps

LEMMA StepOrderly ==
    ASSUME OneClient, EditsInPlace, TypeInv, Order, NEW c \in Clients, ~CallFails, Step(c)
    PROVE  Order'
<1>1. CASE \E kind \in RenameKinds : RenameSteps(c, kind)
  BY <1>1, RenameOrderly
<1>2. CASE /\ \/ SoftDeleteCollection(c) \/ SoftDeleteAlbum(c)
              \/ RestoreCollection(c) \/ RestoreAlbum(c)
              \/ ThumbnailCollection(c) \/ ThumbnailAlbum(c)
              \/ Update(c) \/ BrowseCollections(c) \/ BrowseAlbums(c)
           /\ req[c].pc \notin {"retag", "delete"}
  <2>1. InOrder(c) /\ PhotoOnce
    BY <1>2, InOrderBefore
  <2>2. WritesPlainly /\ PlainState(req'[c])
    BY <1>2, <2>1, SoftDeletePlain, RestorePlain, ThumbnailPlain, UpdatePlain, BrowsePlain
  <2> QED
    BY <2>1, <2>2, PlainOrderly
<1>3. \/ SoftDeleteCollection(c) \/ SoftDeleteAlbum(c) \/ RestoreCollection(c) \/ RestoreAlbum(c)
      \/ ThumbnailCollection(c) \/ ThumbnailAlbum(c)
      \/ Update(c) \/ BrowseCollections(c) \/ BrowseAlbums(c)
      => req[c].pc \notin {"retag", "delete"}
  BY DEF At, SoftDeleteCollection, SoftDeleteAlbum, Remaining, RestoreCollection, RestoreAlbum,
         Locate, Fetch, ThumbnailCollection, ThumbnailAlbum, ThumbnailFind, ThumbnailFetch,
         ThumbnailClear, ThumbnailGet, ThumbnailSet, ThumbnailRotate,
         Update, UpdateGet, UpdateFind, UpdateFetch, UpdateClear, UpdateSet,
         BrowseCollections, BrowseAlbums, NoTagList, BrowseFind, BrowseFetch, BrowseClear
<1> QED
  BY <1>1, <1>2, <1>3 DEF Step, RenameCollection, RenameAlbum, RenameKinds

LEMMA SubmitOrderly ==
    ASSUME OneClient, TypeInv, Order, NEW c \in Clients, NEW r \in Requests, Submit(c, r)
    PROVE  Order'
<1> DEFINE s == [Idle EXCEPT !.pc = FirstCall(r), !.op = r]
<1>1. req'[c] = s /\ images' = images /\ req[c].pc = "idle"
  BY DEF Submit, TypeInv, RequestsOK, RequestTypeOK
<1>2. InOrder(c) /\ PhotoOnce
  BY <1>1, InOrderBefore
<1>3. s.pc \in {"find", "get"} /\ s.todo = {} /\ s.job = None
  BY DEF FirstCall, Idle
<1> HIDE DEF s
<1>4. PlainState(s)
  BY <1>3, PlainFields DEF Named
<1> QED
  BY <1>1, <1>2, <1>4, PlainOrderly DEF WritesPlainly

\* every step tells of a failing call
LEMMA NextFaults ==
    ASSUME Next
    PROVE  CallWorks \/ CallFails
<1>1. ASSUME NEW c \in Clients, Step(c)
      PROVE  CallWorks \/ CallFails
  BY <1>1 DEF Step, storeVars, CallWorks,
              SoftDeleteCollection, SoftDeleteAlbum, SoftDeleteCollectionBlob, SoftDeleteAlbumBlob,
              RestoreCollection, RestoreAlbum, RestoreBlob, PanicOn, SetBlobTags, ReadBlob, SaveBlob,
              DeleteBlob, FetchTags, FindBlobs, FindAll, FindSome, ReadTags, FindsNone, FindFails, Remaining,
              Locate, Fetch, RenameCollection, RenameAlbum, RenameSteps, RenameFind, RenameFetch,
              RenameRead, RenameReadTags, RenameSave, RenameRetag, RenameDelete,
              ThumbnailCollection, ThumbnailAlbum, ThumbnailFind, ThumbnailFetch, ThumbnailClear,
              ThumbnailGet, ThumbnailSet, ThumbnailRotate,
              Update, UpdateGet, UpdateFind, UpdateFetch, UpdateClear, UpdateSet,
              BrowseCollections, BrowseAlbums, NoTagList, BrowseFind, BrowseFetch, BrowseClear
<1> QED
  BY <1>1 DEF Next, Submit, CutOff, Finished, vars, CallWorks

LEMMA NextOrderly ==
    ASSUME OneClient, EditsInPlace, TypeInv, Orderly, [Next]_vars
    PROVE  Orderly'
<1>1. CASE UNCHANGED vars
  BY <1>1 DEF vars, Orderly, BlobsNamed, PhotosApart, NamesAtHand, StillThere, Has, Copy, NewPath,
              NamesPath
<1>2. CASE Next /\ ~UNCHANGED vars
  <2> SUFFICES ASSUME faults' = MaxFaults
               PROVE  Order'
    BY DEF Orderly, Order
  <2>1. CallWorks \/ CallFails
    BY <1>2, NextFaults
  <2>2. ~CallFails /\ faults = MaxFaults
    BY <2>1 DEF CallFails, CallWorks, TypeInv, StoreTypeOK
  <2>3. Order
    BY <2>2 DEF Orderly, Order
  <2>4. ASSUME NEW c \in Clients, Step(c)
        PROVE  Order'
    BY <2>2, <2>3, <2>4, StepOrderly
  <2>5. ASSUME NEW c \in Clients, NEW r \in Requests, Submit(c, r)
        PROVE  Order'
    BY <2>3, <2>5, SubmitOrderly
  <2> QED
    BY <1>2, <2>2, <2>4, <2>5 DEF Next, CutOff, Finished
<1> QED
  BY <1>1, <1>2

LEMMA InitOrderly ==
    ASSUME LibrariesInOrder, Init
    PROVE  Orderly
<1>1. images \in Libraries /\ req = [c \in Clients |-> Idle]
  BY DEF Init, StoreInit, RequestInit
<1>2. BlobsNamed /\ PhotosApart
  BY <1>1 DEF LibrariesInOrder, BlobsNamed, PhotosApart, Has
<1>3. \A c \in Clients : NamesAtHand(req[c]) /\ StillThere(req[c])
  BY <1>1 DEF NamesAtHand, StillThere, Idle
<1> QED
  BY <1>2, <1>3 DEF Orderly

\* On one connection, while nothing fails: between requests every photo is in
\* one blob only, whose tags name the path it is at, whatever was renamed,
\* hidden, restored, chosen or edited, for every library that starts that way
\* and every workload whose edits leave a photo where it is (rename.go:76-123,
\* update.go:101-117).
THEOREM SettledAlways ==
    ASSUME OneClient, LibrariesInOrder, EditsInPlace
    PROVE  Spec => []Settled
<1>1. Init => TypeInv /\ Orderly
  BY InitType, InitOrderly
<1>2. TypeInv /\ Orderly /\ [Next]_vars => (TypeInv /\ Orderly)'
  BY NextType, NextOrderly
<1>3. TypeInv /\ Orderly => Settled
  BY DEF Orderly, BlobsNamed, PhotosApart, NamesPath, Settled, Quiet, TagsNamePath
<1> QED
  BY <1>1, <1>2, <1>3, PTL DEF Spec

-----------------------------------------------------------------------------
(* One administrator and any number of page loads: Tidy is kept.           *)

\* what holds for a handler before its step
TidyAt(c) ==
    /\ InOrder(c) /\ MarksApart(images)
    /\ OnlyReads(req[c]) /\ HoldsWork(req[c]) /\ Fresh(req[c]) /\ Replaces(req[c])
    /\ OnCourse(req[c])

LEMMA TidyBefore ==
    ASSUME Tidy, NEW c \in Clients
    PROVE  TidyAt(c)
BY DEF Tidy, TidyAt, InOrder, Complete

\* a mark that p gets with tags t is nobody else's
MarksAlone(p, t) ==
    \A q \in Paths : Has(q) /\ q[1] = p[1] =>
        /\ CollectionMarked(t) /\ CollectionMarked(images[q].tags) => q = p
        /\ q[2] = p[2] /\ AlbumMarked(t) /\ AlbumMarked(images[q].tags) => q = p

\* what a step of c may write
WritesTidily(c) ==
    \/ images' = images
    \/ \E p \in Paths, t \in Tags :
         SetsTags(p, t) /\ NamesPath(t, p) /\ MarksAlone(p, t)

\* the state c goes on with
TidyNext(c) ==
    /\ HoldsWork(req'[c]) /\ OnlyReads(req'[c])
    /\ \A j \in req'[c].todo \cup ({req'[c].job} \ {None}) :
         images'[j.path] # NoBlob /\ images'[j.path].tags = j.tags
    /\ TagsRead(req'[c]) =>
         images'[req'[c].op.image] # NoBlob /\ images'[req'[c].op.image].tags = req'[c].tags
    /\ Replaces(req[c])'

LEMMA KindsOfWork ==
    /\ \A k \in DeleteKinds \cup ThumbnailKinds \cup {"update"} : k \notin BrowseKinds
    /\ \A k \in DeleteKinds \cup ThumbnailKinds : k # "update"
    /\ \A k \in BrowseKinds : k \notin QueryKinds /\ k # "update"
    /\ \A k \in DeleteKinds : k \notin ThumbnailKinds
BY DEF DeleteKinds, RestoreKinds, RenameKinds, ThumbnailKinds, BrowseKinds, QueryKinds

\* new tags without a new mark
LEMMA KeepsMarks ==
    ASSUME MarksApart(images), NEW p \in Paths, Has(p), NEW t,
           CollectionMarked(t) => CollectionMarked(images[p].tags),
           AlbumMarked(t) => AlbumMarked(images[p].tags)
    PROVE  MarksAlone(p, t)
BY DEF MarksApart, MarksAlone, Has

LEMMA WrittenTags ==
    ASSUME NEW tags \in Tags, NEW op \in Requests
    PROVE  /\ ~CollectionMarked(Deleted(tags)) /\ ~AlbumMarked(Deleted(tags))
           /\ \A t \in {MarkCollection(tags, FALSE), MarkAlbum(tags, FALSE), Rotated(tags, op)} :
                /\ CollectionMarked(t) => CollectionMarked(tags)
                /\ AlbumMarked(t) => AlbumMarked(tags)
BY DEF Tags, Deleted, MarkCollection, MarkAlbum, Rotated, CollectionMarked, AlbumMarked

LEMMA AnswerTidy ==
    ASSUME TypeInv, NEW c \in Clients, NEW status, NEW d, AnswerWith(c, status, d)
    PROVE  TidyNext(c)
<1>1. req'[c] = Idle
  BY DEF AnswerWith, TypeInv, RequestsOK, RequestTypeOK
<1> QED
  BY <1>1 DEF TidyNext, HoldsWork, OnlyReads, TagsRead, Replaces, Idle

\* the state of a soft-delete or thumbnail choice
LEMMA WorkTidy ==
    ASSUME NEW c \in Clients, req'[c].op # None, req'[c].op.kind \in DeleteKinds \cup ThumbnailKinds,
           req'[c].job = None,
           \A j \in req'[c].todo : images'[j.path] # NoBlob /\ images'[j.path].tags = j.tags,
           req'[c].op.kind \in ThumbnailKinds => req'[c].pc # "set"
    PROVE  TidyNext(c)
BY KindsOfWork DEF TidyNext, HoldsWork, OnlyReads, TagsRead, Replaces

LEMMA PanicTidy ==
    ASSUME TypeInv, NEW c \in Clients, NEW j, PanicOn(c, j)
    PROVE  WritesTidily(c) /\ TidyNext(c)
BY AnswerTidy DEF PanicOn, Answer, WritesTidily, storeVars, TypeInv

\* what the second statement of a query brings is there
LEMMA FetchedFresh ==
    ASSUME TypeInv, NEW c \in Clients, InOrder(c), req[c].pc = "tags", ~CallFails,
           NEW jobs \in Fetches(req[c].rows), FetchTags(c, jobs), NEW j \in jobs
    PROVE  /\ images' = images
           /\ Has(j.path) /\ images[j.path].tags = j.tags
           /\ \E r \in req[c].rows : j.path = r[1]
<1>1. jobs = WithTags(req[c].rows) /\ images' = images
  BY DEF FetchTags
<1>2. PICK r \in req[c].rows : j = [path |-> r[1], tags |-> TagsOfRow(r)]
  BY <1>1 DEF WithTags
<1>3. Has(r[1]) /\ images[r[1]].row = r[2]
  BY DEF InOrder, StillThere
<1> QED
  BY <1>1, <1>2, <1>3 DEF TagsOfRow

\* a write of a blob at hand leaves the others as they were read
LEMMA OthersFresh ==
    ASSUME TypeInv, NEW c \in Clients, Fresh(req[c]), ~CallFails,
           NEW j \in req[c].todo, NEW t \in Tags, NEW ok \in BOOLEAN, SetBlobTags(j.path, t, ok)
    PROVE  /\ Has(j.path) /\ images[j.path].tags = j.tags
           /\ SetsTags(j.path, t)
           /\ \A k \in req[c].todo \ {j} : images'[k.path] # NoBlob /\ images'[k.path].tags = k.tags
<1>1. req[c].todo \subseteq Jobs
  BY DEF TypeInv, RequestsOK, RequestTypeOK, RequestState
<1>2. \A k \in req[c].todo : Has(k.path) /\ images[k.path].tags = k.tags /\ k.path \in Paths
  BY <1>1 DEF Fresh, Jobs
<1>3. SetsTags(j.path, t)
  BY <1>2 DEF SetBlobTags, SetsTags
<1>4. \A k \in req[c].todo \ {j} : k.path # j.path
  BY <1>1, <1>2 DEF Jobs
<1>5. \A q \in Paths : /\ images'[q] # NoBlob <=> Has(q)
                       /\ Has(q) => images'[q].tags = IF q = j.path THEN t ELSE images[q].tags
  BY <1>2, <1>3, SetsTagsEffect DEF TypeInv
<1> QED
  BY <1>2, <1>3, <1>4, <1>5

\* the query of a soft-delete or thumbnail choice
LEMMA FindTidy ==
    ASSUME TypeInv, NEW c \in Clients, TidyAt(c), req[c].op # None,
           req[c].op.kind \in DeleteKinds \cup ThumbnailKinds, NEW query, FindBlobs(c, query)
    PROVE  WritesTidily(c) /\ TidyNext(c)
<1>7. PICK rows, cut :
         /\ Continue(c, [req[c] EXCEPT !.pc = "tags", !.rows = rows, !.cut = cut])
         /\ images' = images
  BY FindBlobsSteps
<1> DEFINE s == [req[c] EXCEPT !.pc = "tags", !.rows = rows, !.cut = cut]
<1>1. req'[c] = s /\ images' = images
  BY <1>7, ContinueGoes DEF TypeInv
<1>2. req[c] \in RequestState
  BY DEF TypeInv, RequestsOK, RequestTypeOK
<1>3. s.op = req[c].op /\ s.pc = "tags" /\ s.todo = req[c].todo /\ s.job = req[c].job
  BY <1>2 DEF RequestState
<1> HIDE DEF s
<1>4. req[c].job = None
  BY KindsOfWork DEF TidyAt, HoldsWork
<1>5. \A j \in req[c].todo : Has(j.path) /\ images[j.path].tags = j.tags
  BY DEF TidyAt, Fresh
<1>6. TidyNext(c)
  BY <1>1, <1>3, <1>4, <1>5, WorkTidy DEF Has
<1> QED
  BY <1>1, <1>6 DEF WritesTidily

\* a write in the loop of one
LEMMA LoopTidy ==
    ASSUME TypeInv, NEW c \in Clients, TidyAt(c), ~CallFails, req[c].op # None,
           req[c].op.kind \in DeleteKinds \cup ThumbnailKinds,
           NEW j \in req[c].todo, NEW t \in Tags, NamesPath(t, j.path),
           CollectionMarked(t) => CollectionMarked(j.tags), AlbumMarked(t) => AlbumMarked(j.tags),
           NEW ok \in BOOLEAN, SetBlobTags(j.path, t, ok),
           \/ \E status : Answer(c, status)
           \/ /\ req'[c].op = req[c].op /\ req'[c].job = req[c].job
              /\ req'[c].todo = req[c].todo \ {j} /\ req'[c].pc # "set"
    PROVE  WritesTidily(c) /\ TidyNext(c)
<1>1. /\ Has(j.path) /\ images[j.path].tags = j.tags /\ SetsTags(j.path, t)
      /\ \A k \in req[c].todo \ {j} : images'[k.path] # NoBlob /\ images'[k.path].tags = k.tags
  BY OthersFresh DEF TidyAt
<1>2. j.path \in Paths
  BY JobNamed DEF TidyAt
<1>3. MarksAlone(j.path, t)
  BY <1>1, <1>2, KeepsMarks DEF TidyAt
<1>4. WritesTidily(c)
  BY <1>1, <1>2, <1>3 DEF WritesTidily
<1>5. req[c].job = None
  BY KindsOfWork DEF TidyAt, HoldsWork
<1>6. CASE \E status : Answer(c, status)
  BY <1>4, <1>6, AnswerTidy DEF Answer
<1>7. CASE /\ req'[c].op = req[c].op /\ req'[c].job = req[c].job
           /\ req'[c].todo = req[c].todo \ {j} /\ req'[c].pc # "set"
  BY <1>1, <1>4, <1>5, <1>7, WorkTidy
<1> QED
  BY <1>6, <1>7

LEMMA SoftDeleteTidy ==
    ASSUME TypeInv, NEW c \in Clients, TidyAt(c), ~CallFails,
           SoftDeleteCollection(c) \/ SoftDeleteAlbum(c)
    PROVE  WritesTidily(c) /\ TidyNext(c)
<1>1. PICK kind, query :
        /\ kind \in DeleteKinds
        /\ \/ Locate(c, kind, query)
           \/ Fetch(c, kind)
           \/ /\ At(c, kind, "each")
              /\ \E j \in req[c].todo : \/ PanicOn(c, j)
                                        \/ SoftDeleteCollectionBlob(c, j)
                                        \/ SoftDeleteAlbumBlob(c, j)
           \/ Remaining(c) /\ kind = "softDeleteAlbum"
  <2>1. CASE SoftDeleteCollection(c)
    <3> WITNESS "softDeleteCollection", CollectionBlobs(req[c].op, FALSE)
    <3> QED
      BY <2>1 DEF SoftDeleteCollection, DeleteKinds
  <2>2. CASE SoftDeleteAlbum(c)
    <3> WITNESS "softDeleteAlbum", AlbumBlobs(req[c].op, FALSE)
    <3> QED
      BY <2>2 DEF SoftDeleteAlbum, DeleteKinds
  <2> QED
    BY <2>1, <2>2
<1>2. \E pc : At(c, kind, pc)
  BY <1>1 DEF Locate, Fetch, Remaining
<1>3. /\ req[c].op # None /\ req[c].op.kind \in DeleteKinds \cup ThumbnailKinds
      /\ req[c] \in RequestState /\ req[c].op \in Requests /\ req[c].op.kind \notin ThumbnailKinds
  BY <1>1, <1>2, AtType, KindsOfWork DEF TypeInv
<1>4. CASE Locate(c, kind, query)
  BY <1>3, <1>4, FindTidy, AnswerTidy DEF Locate, FindsNone, FindFails, Answer, WritesTidily, storeVars
<1>5. CASE Fetch(c, kind)
  <2>1. PICK jobs \in Fetches(req[c].rows) :
          /\ FetchTags(c, jobs)
          /\ Continue(c, [Fetched(c, jobs) EXCEPT !.pc = "each", !.todo = jobs])
    BY <1>5 DEF Fetch
  <2> DEFINE fetched == Fetched(c, jobs)
             s == [fetched EXCEPT !.pc = "each", !.todo = jobs]
  <2>2. req[c].pc = "tags" /\ images' = images
    BY <1>5, <2>1 DEF Fetch, At, FetchTags
  <2>3. \A j \in jobs : images'[j.path] # NoBlob /\ images'[j.path].tags = j.tags
    BY <2>1, <2>2, FetchedFresh DEF TidyAt, Has
  <2>4. req'[c] = s
    BY <2>1, ContinueGoes DEF TypeInv
  <2>8. fetched \in RequestState /\ fetched.op = req[c].op /\ fetched.job = req[c].job
    BY <1>3, FetchedType, FetchedFields DEF TypeInv
  <2> HIDE DEF fetched
  <2>5. s.op = req[c].op /\ s.pc = "each" /\ s.todo = jobs /\ s.job = req[c].job
    BY <2>8 DEF RequestState
  <2> HIDE DEF s
  <2>6. req[c].job = None
    BY <1>3, KindsOfWork DEF TidyAt, HoldsWork
  <2>7. TidyNext(c)
    BY <1>3, <2>3, <2>4, <2>5, <2>6, WorkTidy
  <2> QED
    BY <2>2, <2>7 DEF WritesTidily
<1>6. ASSUME NEW j \in req[c].todo, NEW ok \in BOOLEAN, SetBlobTags(j.path, Deleted(j.tags), ok),
             \/ \E status : Answer(c, status)
             \/ /\ req'[c].op = req[c].op /\ req'[c].job = req[c].job
                /\ req'[c].todo = req[c].todo \ {j} /\ req'[c].pc # "set"
      PROVE  WritesTidily(c) /\ TidyNext(c)
  <2>1. /\ j.path \in Paths /\ j.tags \in Tags /\ NamesPath(j.tags, j.path)
    BY JobNamed DEF TidyAt
  <2>2. Deleted(j.tags) \in Tags /\ NamesPath(Deleted(j.tags), j.path)
    BY <2>1, NewTagsValuesType, NamedWrites
  <2>3. /\ ~CollectionMarked(Deleted(j.tags)) /\ ~AlbumMarked(Deleted(j.tags))
    BY <1>3, <2>1, WrittenTags
  <2> QED
    BY <1>3, <1>6, <2>2, <2>3, LoopTidy
<1>7. ASSUME NEW j \in req[c].todo, SoftDeleteCollectionBlob(c, j)
      PROVE  WritesTidily(c) /\ TidyNext(c)
  <2>1. PICK ok \in BOOLEAN :
          /\ SetBlobTags(j.path, Deleted(j.tags), ok)
          /\ NextOrAnswer(c, req[c].todo \ {j}, req[c].failed \/ ~ok, req[c])
    BY <1>7 DEF SoftDeleteCollectionBlob
  <2>2. \/ \E status : Answer(c, status)
        \/ Goes(c, "each", req[c].rows, req[c].todo \ {j}, req[c].job, req[c].failed \/ ~ok)
    BY <1>3, <2>1, LoopGoes DEF NextOrAnswer, TypeInv
  <2> QED
    BY <1>6, <2>1, <2>2 DEF Goes
<1>8. ASSUME NEW j \in req[c].todo, SoftDeleteAlbumBlob(c, j)
      PROVE  WritesTidily(c) /\ TidyNext(c)
  <2> DEFINE pc == IF req[c].todo = {j} THEN "remaining" ELSE "each"
             todo == req[c].todo \ {j}
             s(ok) == [req[c] EXCEPT !.pc = pc, !.todo = todo, !.failed = @ \/ ~ok]
  <2>1. PICK ok \in BOOLEAN : SetBlobTags(j.path, Deleted(j.tags), ok) /\ Continue(c, s(ok))
    BY <1>8 DEF SoftDeleteAlbumBlob
  <2>2. req'[c] = s(ok)
    BY <2>1, ContinueGoes DEF TypeInv
  <2>3. pc # "set"
    OBVIOUS
  <2> HIDE DEF pc, todo
  <2>4. s(ok).op = req[c].op /\ s(ok).job = req[c].job /\ s(ok).todo = todo /\ s(ok).pc = pc
    BY <1>3 DEF RequestState
  <2> HIDE DEF s
  <2> QED
    BY <1>6, <2>1, <2>2, <2>3, <2>4 DEF todo
<1>9. CASE Remaining(c)
  BY <1>9, AnswerTidy DEF Remaining, WritesTidily
<1> QED
  BY <1>1, <1>4, <1>5, <1>7, <1>8, <1>9, PanicTidy

LEMMA ThumbnailFetchTidy ==
    ASSUME TypeInv, NEW c \in Clients, TidyAt(c), ~CallFails, NEW kind \in ThumbnailKinds,
           ThumbnailFetch(c, kind)
    PROVE  WritesTidily(c) /\ TidyNext(c)
<1> DEFINE op == req[c].op
           others(jobs) == {j \in jobs : j.path # op.image}
           fetched(jobs) == Fetched(c, jobs)
<1>1. /\ req[c] \in RequestState /\ req[c].pc = "tags" /\ req[c].op # None
      /\ req[c].op.kind \in ThumbnailKinds
  BY AtType DEF ThumbnailFetch, TypeInv
<1>2. PICK jobs \in Fetches(req[c].rows) :
        /\ FetchTags(c, jobs)
        /\ Continue(c,
             IF ~Chooses(op)
             THEN [fetched(jobs) EXCEPT !.pc = "rotate", !.todo = jobs]
             ELSE IF others(jobs) = {} THEN [fetched(jobs) EXCEPT !.pc = "get"]
             ELSE                         [fetched(jobs) EXCEPT !.pc = "unmark", !.todo = others(jobs)])
  BY DEF ThumbnailFetch
<1>3. images' = images
  BY <1>2 DEF FetchTags
<1>4. \A j \in jobs : Has(j.path) /\ images[j.path].tags = j.tags
  BY <1>1, <1>2, FetchedFresh DEF TidyAt
<1>5. \A j \in others(jobs) : Has(j.path) /\ images[j.path].tags = j.tags
  BY <1>4
<1>6. \A j \in req[c].todo : Has(j.path) /\ images[j.path].tags = j.tags
  BY DEF TidyAt, Fresh
<1>7. /\ fetched(jobs) \in RequestState /\ fetched(jobs).op = op
      /\ fetched(jobs).todo = req[c].todo /\ fetched(jobs).job = None
  BY <1>1, FetchedType, FetchedFields, KindsOfWork DEF TypeInv, TidyAt, HoldsWork
<1> HIDE DEF fetched, others
<1>8. ASSUME NEW pc \in {"rotate", "unmark"}, NEW todo,
             \A j \in todo : Has(j.path) /\ images[j.path].tags = j.tags,
             Continue(c, [fetched(jobs) EXCEPT !.pc = pc, !.todo = todo])
      PROVE  TidyNext(c)
  <2> DEFINE s == [fetched(jobs) EXCEPT !.pc = pc, !.todo = todo]
  <2>1. s.op = op /\ s.pc = pc /\ s.todo = todo /\ s.job = None
    BY <1>7 DEF RequestState
  <2>2. req'[c] = s
    BY <1>8, ContinueGoes DEF TypeInv
  <2> HIDE DEF s
  <2> QED
    BY <1>1, <1>3, <1>8, <2>1, <2>2, WorkTidy DEF Has
<1>9. ASSUME Continue(c, [fetched(jobs) EXCEPT !.pc = "get"])
      PROVE  TidyNext(c)
  <2> DEFINE s == [fetched(jobs) EXCEPT !.pc = "get"]
  <2>1. s.op = op /\ s.pc = "get" /\ s.todo = req[c].todo /\ s.job = None
    BY <1>7 DEF RequestState
  <2>2. req'[c] = s
    BY <1>9, ContinueGoes DEF TypeInv
  <2> HIDE DEF s
  <2> QED
    BY <1>1, <1>3, <1>6, <2>1, <2>2, WorkTidy DEF Has
<1>10. TidyNext(c)
  <2>1. CASE ~Chooses(op)
    BY <1>2, <1>4, <1>8, <2>1
  <2>2. CASE Chooses(op) /\ others(jobs) = {}
    BY <1>2, <1>9, <2>2
  <2>3. CASE Chooses(op) /\ others(jobs) # {}
    BY <1>2, <1>5, <1>8, <2>3
  <2> QED
    BY <2>1, <2>2, <2>3
<1> QED
  BY <1>3, <1>10 DEF WritesTidily

LEMMA ThumbnailClearTidy ==
    ASSUME TypeInv, NEW c \in Clients, TidyAt(c), ~CallFails, NEW kind \in ThumbnailKinds,
           ThumbnailClear(c, kind)
    PROVE  WritesTidily(c) /\ TidyNext(c)
<1>1. /\ req[c] \in RequestState /\ req[c].op # None /\ req[c].op \in Requests
      /\ req[c].op.kind \in ThumbnailKinds
  BY AtType DEF ThumbnailClear, TypeInv
<1> DEFINE pc(j)   == IF req[c].todo = {j} THEN "get" ELSE "unmark"
           todo(j) == req[c].todo \ {j}
           s(j)    == [req[c] EXCEPT !.pc = pc(j), !.todo = todo(j)]
           t(j)    == Marked(kind, j.tags, FALSE)
<1>2. PICK j \in req[c].todo :
         \/ PanicOn(c, j)
         \/ \E ok \in BOOLEAN : SetBlobTags(j.path, t(j), ok) /\ Continue(c, s(j))
  BY DEF ThumbnailClear
<1>3. ASSUME NEW ok \in BOOLEAN, SetBlobTags(j.path, t(j), ok), Continue(c, s(j))
      PROVE  WritesTidily(c) /\ TidyNext(c)
  <2>1. j.path \in Paths /\ j.tags \in Tags /\ NamesPath(j.tags, j.path)
    BY JobNamed DEF TidyAt
  <2>2. /\ t(j) \in Tags /\ NamesPath(t(j), j.path)
        /\ CollectionMarked(t(j)) => CollectionMarked(j.tags)
        /\ AlbumMarked(t(j)) => AlbumMarked(j.tags)
    BY <1>1, <2>1, NewTagsValuesType, NamedWrites, WrittenTags DEF Marked
  <2> HIDE DEF t
  <2>3. req'[c] = s(j)
    BY <1>3, ContinueGoes DEF TypeInv
  <2>4. pc(j) # "set"
    OBVIOUS
  <2> HIDE DEF pc, todo
  <2>5. s(j).op = req[c].op /\ s(j).pc = pc(j) /\ s(j).todo = todo(j) /\ s(j).job = req[c].job
    BY <1>1 DEF RequestState
  <2> HIDE DEF s
  <2> QED
    BY <1>1, <1>3, <2>2, <2>3, <2>4, <2>5, LoopTidy DEF todo
<1> QED
  BY <1>2, <1>3, PanicTidy

LEMMA ThumbnailGetTidy ==
    ASSUME TypeInv, NEW c \in Clients, TidyAt(c), ~CallFails, NEW kind \in ThumbnailKinds,
           ThumbnailGet(c, kind)
    PROVE  WritesTidily(c) /\ TidyNext(c)
<1> DEFINE p == req[c].op.image
           tags(n) == FirstTags(images[p].tags, n)
           s(n) == [req[c] EXCEPT !.pc = "set", !.tags = tags(n)]
<1>1. /\ req[c] \in RequestState /\ req[c].op.kind \in ThumbnailKinds /\ req[c].op # None
      /\ p \in Paths
  BY ThumbnailAt DEF ThumbnailGet
<1>2. ASSUME NEW n \in 1..7, ReadTags(p, n), Continue(c, s(n))
      PROVE  WritesTidily(c) /\ TidyNext(c)
  <2>1. images' = images /\ Has(p) /\ tags(n) = images[p].tags
    BY <1>1, <1>2, ReadTagsSteps
  <2>2. req'[c] = s(n)
    BY <1>2, ContinueGoes DEF TypeInv
  <2> HIDE DEF tags
  <2>3. /\ s(n).op = req[c].op /\ s(n).pc = "set" /\ s(n).todo = req[c].todo /\ s(n).job = req[c].job
        /\ s(n).tags = tags(n)
    BY <1>1 DEF RequestState
  <2> HIDE DEF s
  <2>4. /\ req[c].job = None /\ \A j \in req[c].todo : Has(j.path) /\ images[j.path].tags = j.tags
    BY <1>1, KindsOfWork DEF TidyAt, HoldsWork, Fresh
  <2>5. TidyNext(c)
    BY <1>1, <2>1, <2>2, <2>3, <2>4, KindsOfWork
       DEF TidyNext, HoldsWork, OnlyReads, TagsRead, Replaces, Has
  <2> QED
    BY <2>1, <2>5 DEF WritesTidily
<1>3. ASSUME ReadBlob(p, FALSE), Answer(c, "404")
      PROVE  WritesTidily(c) /\ TidyNext(c)
  BY <1>3, AnswerTidy DEF ReadBlob, Answer, WritesTidily
<1>4. \/ \E n \in 1..7 : ReadTags(p, n) /\ Continue(c, s(n))
      \/ ReadBlob(p, FALSE) /\ Answer(c, "404")
  BY DEF ThumbnailGet
<1> QED
  BY <1>2, <1>3, <1>4

\* the queries for the blobs that are marked
LEMMA MarksSought ==
    ASSUME NEW tags
    PROVE  /\ \A a : Satisfies(tags, CollectionImageQuery(a)) <=>
                      tags.collection = a /\ CollectionMarked(tags)
           /\ \A op : Satisfies(tags, AlbumImageQuery(op)) <=>
                      /\ tags.collection = op.collection /\ tags.album = op.album
                      /\ AlbumMarked(tags)
<1>1. ASSUME NEW a
      PROVE  Satisfies(tags, CollectionImageQuery(a)) <=> tags.collection = a /\ CollectionMarked(tags)
  <2> DEFINE q == CollectionImageQuery(a)
  <2>1. DOMAIN q = {"collection", "collectionImage"} /\ q["collection"] = a /\ q["collectionImage"] = TRUE
    BY DEF CollectionImageQuery
  <2> HIDE DEF q
  <2>2. Satisfies(tags, q) <=> tags["collection"] = a /\ tags["collectionImage"] = TRUE
    BY <2>1 DEF Satisfies
  <2> QED
    BY <2>2 DEF CollectionMarked, q
<1>2. ASSUME NEW op
      PROVE  Satisfies(tags, AlbumImageQuery(op)) <=>
               tags.collection = op.collection /\ tags.album = op.album /\ AlbumMarked(tags)
  <2> DEFINE q == AlbumImageQuery(op)
  <2>1. /\ DOMAIN q = {"collection", "album", "albumImage"}
        /\ q["collection"] = op.collection /\ q["album"] = op.album /\ q["albumImage"] = TRUE
    BY DEF AlbumImageQuery
  <2> HIDE DEF q
  <2>2. Satisfies(tags, q) <=> /\ tags["collection"] = op.collection /\ tags["album"] = op.album
                               /\ tags["albumImage"] = TRUE
    BY <2>1 DEF Satisfies
  <2> QED
    BY <2>2 DEF AlbumMarked, q
<1> QED
  BY <1>1, <1>2

\* The photo chosen gets the mark when no other photo has it any more.
LEMMA ThumbnailSetTidy ==
    ASSUME ThumbnailRequests, faults = MaxFaults, TypeInv, NEW c \in Clients, TidyAt(c), ~CallFails,
           NEW kind \in ThumbnailKinds, ThumbnailSet(c, kind)
    PROVE  WritesTidily(c) /\ TidyNext(c)
<1> DEFINE op == req[c].op
           p == op.image
           m == Marked(kind, req[c].tags, TRUE)
           t == Rotated(m, op)
<1>1. /\ req[c].pc = "set" /\ op \in Requests /\ op # None /\ p \in Paths /\ req[c].tags \in Tags
      /\ op.kind = kind
  BY ThumbnailAt DEF ThumbnailSet, At
<1>2. PICK ok \in BOOLEAN : SetBlobTags(p, t, ok) /\ \E status : Answer(c, status)
  BY DEF ThumbnailSet
<1>3. Has(p) /\ images[p].tags = req[c].tags
  BY <1>1 DEF TidyAt, Fresh, TagsRead
<1>4. SetsTags(p, t)
  BY <1>2, <1>3 DEF SetBlobTags, SetsTags
<1>5. NamesPath(req[c].tags, p)
  BY <1>1, <1>3 DEF TidyAt, InOrder
<1>6. /\ m \in Tags /\ NamesPath(m, p)
      /\ kind = "thumbnailCollection" => m.albumImage = req[c].tags.albumImage
      /\ kind = "thumbnailAlbum" => m.collectionImage = req[c].tags.collectionImage
  <2>1. m \in Tags /\ NamesPath(m, p)
    BY <1>1, <1>5, NewTagsValuesType, NamedWrites DEF Marked
  <2>2. /\ kind = "thumbnailCollection" => m.albumImage = req[c].tags.albumImage
        /\ kind = "thumbnailAlbum" => m.collectionImage = req[c].tags.collectionImage
    BY <1>1 DEF Marked, MarkCollection, MarkAlbum, Tags
  <2> QED
    BY <2>1, <2>2
<1> HIDE DEF m
<1>7. /\ t \in Tags /\ NamesPath(t, p)
      /\ t.albumImage = m.albumImage /\ t.collectionImage = m.collectionImage
  <2>1. t \in Tags /\ NamesPath(t, p)
    BY <1>1, <1>6, NewTagsValuesType, NamedWrites
  <2>2. /\ t.albumImage = m.albumImage /\ t.collectionImage = m.collectionImage
    BY <1>6 DEF Rotated, Tags
  <2> QED
    BY <2>1, <2>2
<1> HIDE DEF t
<1>9. Found(op) \subseteq {p}
  <2>1. op.kind \in ThumbnailKinds /\ op.kind \in QueryKinds
    BY <1>1 DEF QueryKinds
  <2>2. Chooses(op)
    BY <1>1, RequestAssumption, NoneAssumption DEF Chooses
  <2> QED
    BY <1>1, <2>1, <2>2 DEF TidyAt, OnCourse, ClearingAll
<1>10. /\ p[1] = op.collection
       /\ kind = "thumbnailAlbum" => p[2] = op.album
  <2>1. Chooses(op)
    BY <1>1, RequestAssumption, NoneAssumption DEF Chooses
  <2> QED
    BY <1>1, <2>1 DEF ThumbnailRequests
<1>11. \A q \in Paths : Has(q) => NamesPath(images[q].tags, q)
  BY DEF TidyAt, InOrder
<1>12. MarksAlone(p, t)
  <2>1. CASE kind = "thumbnailCollection"
    <3>1. Sought(op) = CollectionImageQuery(op.collection)
      BY <1>1, <2>1, LocateKinds
    <3>2. ASSUME NEW q \in Paths, Has(q), q[1] = p[1], CollectionMarked(images[q].tags)
          PROVE  q = p
      <4>1. Satisfies(images[q].tags, Sought(op))
        BY <1>10, <1>11, <3>1, <3>2, MarksSought DEF NamesPath
      <4> QED
        BY <1>9, <3>2, <4>1 DEF Found, BlobsWith
    <3>3. AlbumMarked(t) => AlbumMarked(images[p].tags)
      BY <1>3, <1>6, <1>7, <2>1 DEF AlbumMarked
    <3> QED
      BY <1>1, <1>3, <3>2, <3>3 DEF MarksAlone, TidyAt, MarksApart, Has
  <2>2. CASE kind = "thumbnailAlbum"
    <3>1. Sought(op) = AlbumImageQuery(op)
      BY <1>1, <2>2, LocateKinds
    <3>2. ASSUME NEW q \in Paths, Has(q), q[1] = p[1], q[2] = p[2], AlbumMarked(images[q].tags)
          PROVE  q = p
      <4>1. Satisfies(images[q].tags, Sought(op))
        BY <1>10, <1>11, <2>2, <3>1, <3>2, MarksSought DEF NamesPath
      <4> QED
        BY <1>9, <3>2, <4>1 DEF Found, BlobsWith
    <3>3. CollectionMarked(t) => CollectionMarked(images[p].tags)
      BY <1>3, <1>6, <1>7, <2>2 DEF CollectionMarked
    <3> QED
      BY <1>1, <1>3, <3>2, <3>3 DEF MarksAlone, TidyAt, MarksApart, Has
  <2> QED
    BY <2>1, <2>2 DEF ThumbnailKinds
<1>13. WritesTidily(c)
  BY <1>1, <1>4, <1>7, <1>12 DEF WritesTidily
<1> QED
  BY <1>2, <1>13, AnswerTidy DEF Answer

LEMMA ThumbnailTidy ==
    ASSUME ThumbnailRequests, faults = MaxFaults, TypeInv, NEW c \in Clients, TidyAt(c), ~CallFails,
           ThumbnailCollection(c) \/ ThumbnailAlbum(c)
    PROVE  WritesTidily(c) /\ TidyNext(c)
<1>1. PICK kind, query :
        /\ kind \in ThumbnailKinds
        /\ \/ ThumbnailFind(c, kind, query)
           \/ ThumbnailFetch(c, kind)
           \/ ThumbnailClear(c, kind)
           \/ ThumbnailGet(c, kind)
           \/ ThumbnailSet(c, kind)
           \/ ThumbnailRotate(c, kind)
  BY DEF ThumbnailCollection, ThumbnailAlbum, ThumbnailKinds
<1>2. /\ req[c].op \in Requests /\ req[c].op # None /\ req[c].op.kind \in ThumbnailKinds
      /\ req[c] \in RequestState
  <2>1. \E pc : At(c, kind, pc)
    BY <1>1 DEF ThumbnailFind, ThumbnailFetch, ThumbnailClear, ThumbnailGet, ThumbnailSet,
                ThumbnailRotate
  <2> QED
    BY <1>1, <2>1, AtType DEF TypeInv
<1>3. CASE ThumbnailFind(c, kind, query)
  <2> DEFINE s == [req[c] EXCEPT !.pc = "get"]
  <2>1. CASE FindBlobs(c, query)
    BY <1>2, <2>1, FindTidy
  <2>2. CASE FindsNone(query) /\ Continue(c, s)
    <3>1. req'[c] = s /\ images' = images
      BY <2>2, ContinueGoes DEF FindsNone, storeVars, TypeInv
    <3>2. s.op = req[c].op /\ s.pc = "get" /\ s.todo = req[c].todo /\ s.job = req[c].job
      BY <1>2 DEF RequestState
    <3> HIDE DEF s
    <3>3. /\ req[c].job = None /\ \A j \in req[c].todo : Has(j.path) /\ images[j.path].tags = j.tags
      BY <1>2, KindsOfWork DEF TidyAt, HoldsWork, Fresh
    <3> QED
      BY <1>2, <3>1, <3>2, <3>3, WorkTidy DEF WritesTidily, Has
  <2>3. CASE FindsNone(query) /\ Answer(c, "404")
    BY <2>3, AnswerTidy DEF FindsNone, storeVars, Answer, WritesTidily
  <2> QED
    BY <1>3, <2>1, <2>2, <2>3 DEF ThumbnailFind, FindFails
<1>4. CASE ThumbnailRotate(c, kind)
  <2>1. PICK j \in req[c].todo :
          \/ PanicOn(c, j)
          \/ \E ok \in BOOLEAN : /\ SetBlobTags(j.path, Rotated(j.tags, req[c].op), ok)
                                 /\ \E status : Answer(c, status)
    BY <1>4 DEF ThumbnailRotate
  <2>2. j.path \in Paths /\ j.tags \in Tags /\ NamesPath(j.tags, j.path)
    BY JobNamed DEF TidyAt
  <2> DEFINE t == Rotated(j.tags, req[c].op)
  <2>3. /\ t \in Tags /\ NamesPath(t, j.path)
        /\ CollectionMarked(t) => CollectionMarked(j.tags)
        /\ AlbumMarked(t) => AlbumMarked(j.tags)
    BY <1>2, <2>2, NewTagsValuesType, NamedWrites, WrittenTags
  <2> HIDE DEF t
  <2>4. ASSUME NEW ok \in BOOLEAN, SetBlobTags(j.path, t, ok), \E status : Answer(c, status)
        PROVE  WritesTidily(c) /\ TidyNext(c)
    BY <1>2, <2>3, <2>4, LoopTidy
  <2> QED
    BY <2>1, <2>4, PanicTidy DEF t
<1> QED
  BY <1>1, <1>3, <1>4, ThumbnailFetchTidy, ThumbnailClearTidy, ThumbnailGetTidy, ThumbnailSetTidy

\* the blobs marked as thumbnail of a, before and after a step
MarkedThen(a) ==
    {p \in Paths : /\ images'[p] # NoBlob
                   /\ images'[p].tags.collection = a /\ CollectionMarked(images'[p].tags)}

LEMMA MarkedBlobs ==
    ASSUME NEW a
    PROVE  BlobsWith(CollectionImageQuery(a)) =
             {p \in Paths : /\ Has(p)
                            /\ images[p].tags.collection = a /\ CollectionMarked(images[p].tags)}
<1>1. \A p \in Paths : Satisfies(images[p].tags, CollectionImageQuery(a)) <=>
         images[p].tags.collection = a /\ CollectionMarked(images[p].tags)
  BY MarksSought
<1> QED
  BY <1>1 DEF BlobsWith

\* the state of an edit
LEMMA EditTidy ==
    ASSUME NEW c \in Clients, NEW op, req'[c].op = op, op # None, op.kind = "update", req'[c].todo = {},
           \/ req'[c].job = None
           \/ /\ req'[c].pc = "clear" /\ images'[req'[c].job.path] # NoBlob
              /\ images'[req'[c].job.path].tags = req'[c].job.tags,
           req'[c].pc = "find" => images'[op.image] # NoBlob /\ images'[op.image].tags = req'[c].tags,
           CollectionMarked(op.tags) =>
             /\ req'[c].pc = "tags"  => MarkedThen(op.image[1]) = {r[1] : r \in req'[c].rows}
             /\ req'[c].pc = "clear" => MarkedThen(op.image[1]) \subseteq {req'[c].job.path}
             /\ req'[c].pc = "set"   => MarkedThen(op.image[1]) \subseteq {op.image}
    PROVE  TidyNext(c)
<1>1. BlobsWith(CollectionImageQuery(req[c].op.image[1]))' = MarkedThen(op.image[1])
  <2>1. BlobsWith(CollectionImageQuery(req[c].op.image[1]))' =
          {p \in Paths : images'[p] # NoBlob
                           /\ Satisfies(images'[p].tags, CollectionImageQuery(op.image[1]))}
    BY DEF BlobsWith, Has, Satisfies, CollectionImageQuery
  <2>2. \A p \in Paths : Satisfies(images'[p].tags, CollectionImageQuery(op.image[1])) <=>
           images'[p].tags.collection = op.image[1] /\ CollectionMarked(images'[p].tags)
    BY MarksSought
  <2> QED
    BY <2>1, <2>2 DEF MarkedThen
<1>2. Replaces(req[c])'
  BY <1>1 DEF Replaces, CollectionMarked
<1>3. HoldsWork(req'[c]) /\ OnlyReads(req'[c])
  BY KindsOfWork DEF HoldsWork, OnlyReads
<1>4. TagsRead(req'[c]) => req'[c].pc = "find"
  BY KindsOfWork DEF TagsRead
<1> QED
  BY <1>2, <1>3, <1>4 DEF TidyNext

LEMMA EditAt ==
    ASSUME TypeInv, NEW c \in Clients, TidyAt(c), NEW pc, At(c, "update", pc)
    PROVE  /\ req[c] \in RequestState /\ req[c].op \in Requests /\ req[c].op # None
           /\ req[c].op.kind = "update" /\ req[c].op.image \in Paths /\ req[c].op.tags \in Tags
           /\ req[c].pc = pc /\ req[c].todo = {} /\ (pc # "clear" => req[c].job = None)
<1>1. /\ req[c] \in RequestState /\ req[c].op \in Requests /\ req[c].op # None
      /\ req[c].op.kind = "update" /\ req[c].op.image \in Paths /\ req[c].pc = pc
  BY UpdateAt DEF At
<1>2. req[c].op.tags \in Tags
  BY <1>1, RequestAssumption
<1> QED
  BY <1>1, <1>2, KindsOfWork DEF TidyAt, HoldsWork

LEMMA UpdateGetTidy ==
    ASSUME TypeInv, NEW c \in Clients, TidyAt(c), ~CallFails, UpdateGet(c)
    PROVE  WritesTidily(c) /\ TidyNext(c)
<1> DEFINE op == req[c].op
           tags(n) == FirstTags(images[op.image].tags, n)
           s(n) == [req[c] EXCEPT !.pc = "find", !.tags = tags(n)]
<1>1. /\ req[c] \in RequestState /\ op # None /\ op.kind = "update" /\ op.image \in Paths
      /\ req[c].todo = {} /\ req[c].job = None
  BY EditAt DEF UpdateGet
<1>2. ASSUME NEW n \in 1..7, ReadTags(op.image, n), Continue(c, s(n))
      PROVE  WritesTidily(c) /\ TidyNext(c)
  <2>1. images' = images /\ Has(op.image) /\ tags(n) = images[op.image].tags
    BY <1>1, <1>2, ReadTagsSteps
  <2>2. req'[c] = s(n)
    BY <1>2, ContinueGoes DEF TypeInv
  <2> HIDE DEF tags
  <2>3. s(n).op = op /\ s(n).pc = "find" /\ s(n).todo = {} /\ s(n).job = None /\ s(n).tags = tags(n)
    BY <1>1 DEF RequestState
  <2> HIDE DEF s
  <2> QED
    BY <1>1, <2>1, <2>2, <2>3, EditTidy DEF WritesTidily, Has
<1>3. ASSUME images' = images, NEW status, Answer(c, status)
      PROVE  WritesTidily(c) /\ TidyNext(c)
  BY <1>3, AnswerTidy DEF Answer, WritesTidily
<1>4. \/ \E n \in 1..7 : ReadTags(op.image, n) /\ (Continue(c, s(n)) \/ Answer(c, "304"))
      \/ ReadBlob(op.image, FALSE) /\ Answer(c, "500")
  BY DEF UpdateGet
<1> QED
  BY <1>2, <1>3, <1>4 DEF ReadTags, ReadBlob

LEMMA UpdateFindTidy ==
    ASSUME TypeInv, NEW c \in Clients, TidyAt(c), ~CallFails, UpdateFind(c)
    PROVE  WritesTidily(c) /\ TidyNext(c)
<1> DEFINE op == req[c].op
           a == op.image[1]
           query == CollectionImageQuery(a)
           found == [req[c] EXCEPT !.pc = "tags", !.rows = MatchingRows(query)]
           s == [req[c] EXCEPT !.pc = "set", !.tags = None]
<1>1. /\ req[c] \in RequestState /\ op # None /\ op.kind = "update" /\ op.image \in Paths
      /\ req[c].pc = "find" /\ req[c].todo = {} /\ req[c].job = None
  BY EditAt DEF UpdateFind
<1>2. req[c].tags.collection = a /\ a # None
  <2>1. Has(op.image) /\ images[op.image].tags = req[c].tags
    BY <1>1 DEF TidyAt, Fresh, TagsRead
  <2>2. a \in Collections
    BY <1>1, PathFields
  <2> QED
    BY <1>1, <2>1, <2>2, NoneAssumption DEF TidyAt, InOrder, NamesPath
<1>3. FindAll(c, query) \/ (FindsNone(query) /\ Continue(c, s))
  BY <1>2 DEF UpdateFind, FindBlobs, FindSome, FindFails
<1>4. images' = images
  BY <1>3 DEF FindAll, FindsNone, storeVars
<1>5. MarkedThen(a) = BlobsWith(query)
  BY <1>4, MarkedBlobs DEF MarkedThen, Has
<1>6. MatchingRows(query) = {<<p, images[p].row>> : p \in BlobsWith(query)}
  BY DEF MatchingRows, BlobsWith
<1> HIDE DEF query
<1>7. CASE FindAll(c, query)
  <2>1. req'[c] = found
    BY <1>7, ContinueGoes DEF FindAll, TypeInv
  <2>2. /\ found.op = op /\ found.pc = "tags" /\ found.todo = {} /\ found.job = None
        /\ found.rows = MatchingRows(query)
    BY <1>1 DEF RequestState
  <2> HIDE DEF found
  <2>3. MarkedThen(a) = {r[1] : r \in MatchingRows(query)}
    <3> DEFINE rows == {<<p, images[p].row>> : p \in MarkedThen(a)}
    <3>1. \A p \in MarkedThen(a) : <<p, images[p].row>> \in rows /\ <<p, images[p].row>>[1] = p
      OBVIOUS
    <3>2. \A r \in rows : r[1] \in MarkedThen(a)
      OBVIOUS
    <3> QED
      BY <1>5, <1>6, <3>1, <3>2
  <2> QED
    BY <1>1, <1>4, <2>1, <2>2, <2>3, EditTidy DEF WritesTidily
<1>8. CASE FindsNone(query) /\ Continue(c, s)
  <2>1. req'[c] = s
    BY <1>8, ContinueGoes DEF TypeInv
  <2>2. s.op = op /\ s.pc = "set" /\ s.todo = {} /\ s.job = None
    BY <1>1 DEF RequestState
  <2> HIDE DEF s
  <2>3. MarkedThen(a) = {}
    BY <1>5, <1>6, <1>8 DEF FindsNone
  <2> QED
    BY <1>1, <1>4, <2>1, <2>2, <2>3, EditTidy DEF WritesTidily
<1> QED
  BY <1>3, <1>7, <1>8

\* The one blob that is marked is the one to clear, or the photo itself.
LEMMA UpdateFetchTidy ==
    ASSUME TypeInv, NEW c \in Clients, TidyAt(c), ~CallFails, UpdateFetch(c)
    PROVE  WritesTidily(c) /\ TidyNext(c)
<1> DEFINE op == req[c].op
           a == op.image[1]
           marked == BlobsWith(CollectionImageQuery(a))
           fetched(jobs) == Fetched(c, jobs)
           s(jobs, replaced, j) == [fetched(jobs) EXCEPT !.tags = None,
                                  !.pc = IF replaced THEN "clear" ELSE "set",
                                  !.job = IF replaced THEN j ELSE None]
<1>1. /\ req[c] \in RequestState /\ op \in Requests /\ op # None /\ op.kind = "update"
      /\ op.image \in Paths /\ op.tags \in Tags /\ req[c].pc = "tags" /\ req[c].todo = {}
  BY EditAt DEF UpdateFetch
<1>2. PICK jobs \in Fetches(req[c].rows) :
        /\ FetchTags(c, jobs)
        /\ \E j \in jobs :
             LET replaced == BodyTags(op).collectionImage = TRUE /\ j.tags.name # op.image
             IN  Continue(c, s(jobs, replaced, j))
  BY DEF UpdateFetch
<1>3. PICK j \in jobs, replaced \in BOOLEAN :
        /\ replaced <=> BodyTags(op).collectionImage = TRUE /\ j.tags.name # op.image
        /\ Continue(c, s(jobs, replaced, j))
  BY <1>2
<1>4. /\ images' = images /\ Has(j.path) /\ images[j.path].tags = j.tags
      /\ \E r \in req[c].rows : j.path = r[1]
  BY <1>1, <1>2, <1>3, FetchedFresh DEF TidyAt
<1>5. j.path \in Paths /\ NamesPath(j.tags, j.path)
  <2>1. j.path \in Paths
    BY <1>4 DEF TypeInv, RequestsOK, RequestTypeOK, RequestState
  <2> QED
    BY <1>4, <2>1 DEF TidyAt, InOrder
<1>6. BodyTags(op).collectionImage = op.tags.collectionImage
  BY <1>1 DEF BodyTags, Tags
<1>7. CollectionMarked(op.tags) => marked \subseteq {j.path}
  <2> SUFFICES ASSUME CollectionMarked(op.tags), NEW p \in marked
               PROVE  p = j.path
    OBVIOUS
  <2>1. j.path \in marked
    BY <1>1, <1>4 DEF TidyAt, Replaces
  <2>2. \A q \in marked : q \in Paths /\ Has(q) /\ q[1] = a /\ CollectionMarked(images[q].tags)
    BY MarkedBlobs DEF TidyAt, InOrder, NamesPath
  <2> HIDE DEF marked
  <2> QED
    BY <2>1, <2>2 DEF TidyAt, MarksApart, Has
<1>8. MarkedThen(a) = marked
  BY <1>4, MarkedBlobs DEF MarkedThen, Has
<1> HIDE DEF marked
<1> DEFINE pc == IF replaced THEN "clear" ELSE "set"
           job == IF replaced THEN j ELSE None
           t == s(jobs, replaced, j)
<1>9. /\ pc = "clear" => job = j
      /\ pc = "set" => job = None /\ (CollectionMarked(op.tags) => j.path = op.image)
      /\ pc \in {"clear", "set"}
  BY <1>3, <1>5, <1>6 DEF CollectionMarked, NamesPath
<1>13. fetched(jobs) \in RequestState /\ fetched(jobs).op = op /\ fetched(jobs).todo = {}
  BY <1>1, FetchedType, FetchedFields DEF TypeInv
<1> HIDE DEF pc, job, fetched
<1>10. t.op = op /\ t.pc = pc /\ t.todo = {} /\ t.job = job
  BY <1>13 DEF RequestState, pc, job
<1>11. req'[c] = t
  BY <1>3, ContinueGoes DEF TypeInv
<1> HIDE DEF t, s
<1>12. TidyNext(c)
  BY <1>1, <1>4, <1>7, <1>8, <1>9, <1>10, <1>11, EditTidy DEF Has
<1> QED
  BY <1>4, <1>12 DEF WritesTidily

LEMMA UpdateClearTidy ==
    ASSUME TypeInv, NEW c \in Clients, TidyAt(c), ~CallFails, UpdateClear(c)
    PROVE  WritesTidily(c) /\ TidyNext(c)
<1> DEFINE op == req[c].op
           a == op.image[1]
           j == req[c].job
           t == MarkCollection(j.tags, FALSE)
           s == [req[c] EXCEPT !.pc = "set", !.job = None]
<1>1. /\ req[c] \in RequestState /\ op \in Requests /\ op # None /\ op.kind = "update"
      /\ req[c].pc = "clear" /\ req[c].todo = {}
  BY EditAt DEF UpdateClear
<1>2. j \in Jobs /\ j # None /\ j.path \in Paths /\ j.tags \in Tags
  BY UpdateAt, RequestAssumption DEF UpdateClear, Jobs
<1>3. Has(j.path) /\ images[j.path].tags = j.tags /\ NamesPath(j.tags, j.path)
  BY <1>2 DEF TidyAt, Fresh, InOrder
<1>4. CASE PanicOn(c, j)
  BY <1>4, PanicTidy
<1>5. ASSUME NEW ok \in BOOLEAN, SetBlobTags(j.path, t, ok),
             Continue(c, s) \/ \E status : Answer(c, status)
      PROVE  WritesTidily(c) /\ TidyNext(c)
  <2>1. SetsTags(j.path, t)
    BY <1>3, <1>5 DEF SetBlobTags, SetsTags
  <2>2. /\ t \in Tags /\ NamesPath(t, j.path)
        /\ CollectionMarked(t) => CollectionMarked(j.tags)
        /\ AlbumMarked(t) => AlbumMarked(j.tags)
    BY <1>1, <1>2, <1>3, NewTagsValuesType, NamedWrites, WrittenTags
  <2>3. ~CollectionMarked(t)
    BY <1>2 DEF MarkCollection, CollectionMarked, Tags
  <2> HIDE DEF t
  <2>4. MarksAlone(j.path, t)
    BY <1>2, <1>3, <2>2, KeepsMarks DEF TidyAt
  <2>5. WritesTidily(c)
    BY <1>2, <2>1, <2>2, <2>4 DEF WritesTidily
  <2>6. CollectionMarked(op.tags) => MarkedThen(a) = {}
    <3> SUFFICES ASSUME CollectionMarked(op.tags), NEW p \in MarkedThen(a)
                 PROVE  FALSE
      OBVIOUS
    <3>1. BlobsWith(CollectionImageQuery(a)) \subseteq {j.path}
      BY <1>1 DEF TidyAt, Replaces
    <3>2. /\ images'[p] # NoBlob <=> Has(p)
          /\ Has(p) => images'[p].tags = IF p = j.path THEN t ELSE images[p].tags
      BY <1>2, <2>1, <2>2, SetsTagsEffect DEF MarkedThen, TypeInv
    <3> QED
      BY <2>3, <3>1, <3>2, MarkedBlobs DEF MarkedThen
  <2>7. CASE Continue(c, s)
    <3>1. req'[c] = s
      BY <2>7, ContinueGoes DEF TypeInv
    <3>2. s.op = op /\ s.pc = "set" /\ s.todo = {} /\ s.job = None
      BY <1>1 DEF RequestState
    <3> HIDE DEF s
    <3>3. TidyNext(c)
      BY <1>1, <2>6, <3>1, <3>2, EditTidy
    <3> QED
      BY <2>5, <3>3
  <2> QED
    BY <1>5, <2>5, <2>7, AnswerTidy DEF Answer
<1> QED
  BY <1>4, <1>5 DEF UpdateClear

LEMMA UpdateTidy ==
    ASSUME ThumbnailRequests, EditsInPlace, TypeInv, NEW c \in Clients, TidyAt(c), ~CallFails,
           Update(c)
    PROVE  WritesTidily(c) /\ TidyNext(c)
<1>1. CASE UpdateSet(c)
  <2> DEFINE op == req[c].op
             p == op.image
             t == BodyTags(op)
  <2>1. /\ op \in Requests /\ op # None /\ op.kind = "update" /\ p \in Paths /\ op.tags \in Tags
        /\ req[c].pc = "set"
    BY <1>1, EditAt DEF UpdateSet
  <2>2. t \in Tags /\ NamesPath(t, p)
    BY <2>1, BodyTagsType, BodyNamed
  <2>3. PICK ok \in BOOLEAN : SetBlobTags(p, t, ok) /\ \E status : Answer(c, status)
    BY <1>1 DEF UpdateSet
  <2>4. /\ CollectionMarked(t) => CollectionMarked(op.tags)
        /\ ~AlbumMarked(t)
    BY <2>1 DEF BodyTags, Tags, CollectionMarked, AlbumMarked, ThumbnailRequests
  <2>5. CollectionMarked(t) => BlobsWith(CollectionImageQuery(p[1])) \subseteq {p}
    BY <2>1, <2>4 DEF TidyAt, Replaces
  <2> HIDE DEF t
  <2>6. MarksAlone(p, t)
    <3>1. \A q \in Paths : Has(q) => images[q].tags.collection = q[1]
      BY DEF TidyAt, InOrder, NamesPath
    <3>2. \A q \in Paths : Has(q) /\ q[1] = p[1] /\ CollectionMarked(images[q].tags) =>
             q \in BlobsWith(CollectionImageQuery(p[1]))
      BY <3>1, MarkedBlobs
    <3> QED
      BY <2>4, <2>5, <3>2 DEF MarksAlone
  <2>7. images' = images \/ SetsTags(p, t)
    BY <2>3 DEF SetBlobTags, SetsTags
  <2> QED
    BY <1>1, <2>1, <2>2, <2>3, <2>6, <2>7, AnswerTidy DEF Answer, WritesTidily
<1> QED
  BY <1>1, UpdateGetTidy, UpdateFindTidy, UpdateFetchTidy, UpdateClearTidy DEF Update

\* the rows of a page load are of different collections or albums
LEMMA BrowseRows ==
    ASSUME TypeInv, NEW c \in Clients, TidyAt(c), NEW r \in MatchingRows(MarkedCollections),
           NEW t \in MatchingRows(MarkedCollections), r[1][1] = t[1][1]
    PROVE  r = t
<1>1. PICK p \in Paths : r = <<p, images[p].row>> /\ Has(p) /\ Satisfies(images[p].tags, MarkedCollections)
  BY DEF MatchingRows
<1>2. PICK q \in Paths : t = <<q, images[q].row>> /\ Has(q) /\ Satisfies(images[q].tags, MarkedCollections)
  BY DEF MatchingRows
<1>3. CollectionMarked(images[p].tags) /\ CollectionMarked(images[q].tags)
  BY <1>1, <1>2 DEF Satisfies, MarkedCollections, CollectionMarked
<1> QED
  BY <1>1, <1>2, <1>3 DEF TidyAt, MarksApart, Has

LEMMA BrowseAlbumRows ==
    ASSUME TypeInv, NEW c \in Clients, TidyAt(c), NEW op, NEW r \in MatchingRows(MarkedAlbums(op)),
           NEW t \in MatchingRows(MarkedAlbums(op)), r[1][2] = t[1][2]
    PROVE  r = t
<1>1. PICK p \in Paths : r = <<p, images[p].row>> /\ Has(p) /\ Satisfies(images[p].tags, MarkedAlbums(op))
  BY DEF MatchingRows
<1>2. PICK q \in Paths : t = <<q, images[q].row>> /\ Has(q) /\ Satisfies(images[q].tags, MarkedAlbums(op))
  BY DEF MatchingRows
<1>3. /\ AlbumMarked(images[p].tags) /\ AlbumMarked(images[q].tags)
      /\ images[p].tags.collection = op.collection /\ images[q].tags.collection = op.collection
  BY <1>1, <1>2 DEF Satisfies, MarkedAlbums, AlbumMarked
<1>4. p[1] = op.collection /\ q[1] = op.collection
  BY <1>1, <1>2, <1>3 DEF TidyAt, InOrder, NamesPath
<1> QED
  BY <1>1, <1>2, <1>3, <1>4 DEF TidyAt, MarksApart, Has

LEMMA BrowseFindTidy ==
    ASSUME TypeInv, NEW c \in Clients, TidyAt(c), req[c].op # None, req[c].op.kind \in BrowseKinds,
           NEW query, FindBlobs(c, query),
           req[c].op.kind = "browseCollections" => query = MarkedCollections,
           req[c].op.kind = "browseAlbums" => query = MarkedAlbums(req[c].op)
    PROVE  WritesTidily(c) /\ TidyNext(c)
<1>9. PICK rows \in SUBSET MatchingRows(query), cut \in SUBSET {"rows", "tags"} :
         /\ Continue(c, [req[c] EXCEPT !.pc = "tags", !.rows = rows, !.cut = cut])
         /\ images' = images
  BY FindBlobsSteps
<1> DEFINE s == [req[c] EXCEPT !.pc = "tags", !.rows = rows, !.cut = cut]
<1>1. req'[c] = s /\ images' = images
  BY <1>9, ContinueGoes DEF TypeInv
<1>2. req[c] \in RequestState
  BY DEF TypeInv, RequestsOK, RequestTypeOK
<1>3. /\ s.op = req[c].op /\ s.pc = "tags" /\ s.todo = req[c].todo /\ s.job = req[c].job
      /\ s.rows \subseteq MatchingRows(query)
  BY <1>2 DEF RequestState
<1> HIDE DEF s
<1>4. req[c].todo = {} /\ req[c].job = None
  BY KindsOfWork DEF TidyAt, HoldsWork
<1>5. OnlyReads(s)
  BY <1>3, BrowseRows, BrowseAlbumRows DEF OnlyReads
<1>6. Replaces(req[c])'
  BY <1>1, <1>3, KindsOfWork DEF Replaces
<1>7. ~TagsRead(s) /\ HoldsWork(s)
  BY <1>3, <1>4, KindsOfWork DEF TagsRead, HoldsWork
<1>8. TidyNext(c)
  BY <1>1, <1>3, <1>4, <1>5, <1>6, <1>7 DEF TidyNext
<1> QED
  BY <1>1, <1>8 DEF WritesTidily

\* A page load finds no mark to clear.
LEMMA NoExtras ==
    ASSUME TypeInv, NEW c \in Clients, TidyAt(c), ~CallFails, NEW kind \in BrowseKinds,
           At(c, kind, "tags"), NEW jobs \in Fetches(req[c].rows), FetchTags(c, jobs),
           NEW extras \in Extras(kind, jobs)
    PROVE  extras = {}
<1>1. jobs = WithTags(req[c].rows) /\ req[c].pc = "tags" /\ req[c].op # None /\ req[c].op.kind = kind
  BY DEF FetchTags, At
<1>2. \A j \in jobs : \E r \in req[c].rows : j = [path |-> r[1], tags |-> TagsOfRow(r)]
  BY <1>1 DEF WithTags
<1>3. \A j \in jobs : NamesPath(j.tags, j.path)
  BY <1>1, FetchedNamed DEF TidyAt, Named
<1>4. ASSUME NEW j \in jobs, NEW k \in jobs, Key(kind, j.tags) = Key(kind, k.tags)
      PROVE  j = k
  <2>1. PICK r \in req[c].rows : j = [path |-> r[1], tags |-> TagsOfRow(r)]
    BY <1>2
  <2>2. PICK t \in req[c].rows : k = [path |-> t[1], tags |-> TagsOfRow(t)]
    BY <1>2
  <2>3. /\ kind = "browseCollections" => r[1][1] = t[1][1]
        /\ kind = "browseAlbums" => r[1][2] = t[1][2]
    BY <1>3, <1>4, <2>1, <2>2 DEF Key, CollectionKey, AlbumKey, NamesPath
  <2>4. r = t
    BY <1>1, <2>3 DEF TidyAt, OnlyReads, BrowseKinds
  <2> QED
    BY <2>1, <2>2, <2>4
<1>5. PICK keep \in SUBSET jobs :
        /\ extras = jobs \ keep
        /\ \A j \in jobs : \E k \in keep : Key(kind, k.tags) = Key(kind, j.tags)
  BY DEF Extras
<1>6. jobs \subseteq keep
  BY <1>4, <1>5
<1> QED
  BY <1>5, <1>6

LEMMA BrowseTidy ==
    ASSUME TypeInv, NEW c \in Clients, TidyAt(c), ~CallFails, BrowseCollections(c) \/ BrowseAlbums(c)
    PROVE  WritesTidily(c) /\ TidyNext(c) /\ images' = images
<1>1. \A kind : ~NoTagList(c, kind)
  BY DEF NoTagList, FindFails
<1>2. PICK kind, query :
        /\ kind \in BrowseKinds
        /\ kind = "browseCollections" => query = MarkedCollections
        /\ kind = "browseAlbums" => query = MarkedAlbums(req[c].op)
        /\ BrowseFind(c, kind, query) \/ BrowseFetch(c, kind) \/ BrowseClear(c, kind)
  BY <1>1 DEF BrowseCollections, BrowseAlbums, BrowseKinds
<1>3. CASE BrowseFind(c, kind, query)
  <2>1. req[c].op # None /\ req[c].op.kind = kind
    BY <1>3 DEF BrowseFind, At
  <2>2. images' = images
    BY <1>3, FindBlobsSteps DEF BrowseFind, FindsNone, FindFails, storeVars
  <2>3. CASE FindBlobs(c, query)
    BY <1>2, <2>1, <2>2, <2>3, BrowseFindTidy
  <2> QED
    BY <1>3, <2>2, <2>3, AnswerTidy DEF BrowseFind, Answer, WritesTidily
<1>4. CASE BrowseFetch(c, kind)
  <2> DEFINE s(jobs) == Fetched(c, jobs)
  <2>1. PICK jobs \in Fetches(req[c].rows) :
          /\ FetchTags(c, jobs)
          /\ \E extras \in Extras(kind, jobs) : NextOrAnswer(c, extras, FALSE, s(jobs))
    BY <1>4 DEF BrowseFetch
  <2>2. At(c, kind, "tags") /\ images' = images
    BY <1>4, <2>1 DEF BrowseFetch, FetchTags
  <2>3. NextOrAnswer(c, {}, FALSE, s(jobs))
    BY <1>2, <2>1, <2>2, NoExtras
  <2>4. Answer(c, "200")
    BY <2>3 DEF NextOrAnswer
  <2> QED
    BY <2>2, <2>4, AnswerTidy DEF Answer, WritesTidily
<1>5. ~BrowseClear(c, kind)
  BY <1>2 DEF BrowseClear, At, TidyAt, OnlyReads
<1> QED
  BY <1>2, <1>3, <1>4, <1>5

-----------------------------------------------------------------------------

\* a step is of one handler, which stays with its request or ends it
LEMMA AnswerAlone ==
    ASSUME TypeInv, NEW c \in Clients, NEW status, NEW d, AnswerWith(c, status, d)
    PROVE  StaysOrEnds(c) /\ Others(c)
BY DEF AnswerWith, TypeInv, RequestsOK, RequestTypeOK, StaysOrEnds, Others, Idle

LEMMA ContinueAlone ==
    ASSUME TypeInv, NEW c \in Clients, NEW s, Continue(c, s)
    PROVE  Others(c) /\ (s.op = req[c].op => StaysOrEnds(c))
BY ContinueGoes DEF StaysOrEnds, TypeInv

LEMMA LoopAlone ==
    ASSUME TypeInv, NEW c \in Clients, NEW todo, NEW failed, NEW s, NextOrAnswer(c, todo, failed, s)
    PROVE  Others(c)
BY AnswerAlone, ContinueAlone DEF NextOrAnswer, Answer

LEMMA AskAlone ==
    ASSUME TypeInv, NEW c \in Clients, NEW query, FindBlobs(c, query)
    PROVE  StaysOrEnds(c) /\ Others(c)
BY FindBlobsAsks DEF Asks, StaysOrEnds

LEMMA DeletingAlone ==
    ASSUME TypeInv, NEW c \in Clients, SoftDeleteCollection(c) \/ SoftDeleteAlbum(c)
    PROVE  StaysOrEnds(c) /\ Others(c)
<1>1. req[c] \in RequestState
  BY DEF TypeInv, RequestsOK, RequestTypeOK
<1>2. ASSUME NEW kind, NEW query, Locate(c, kind, query)
      PROVE  StaysOrEnds(c) /\ Others(c)
  <2>1. FindBlobs(c, query) \/ \E status : AnswerWith(c, status, FALSE)
    BY <1>2 DEF Locate, Answer
  <2> QED
    BY <2>1, AnswerAlone, AskAlone
<1>3. ASSUME NEW kind, Fetch(c, kind)
      PROVE  StaysOrEnds(c) /\ Others(c)
  <2>1. PICK jobs \in Fetches(req[c].rows) :
          Continue(c, [Fetched(c, jobs) EXCEPT !.pc = "each", !.todo = jobs])
    BY <1>3 DEF Fetch
  <2>2. Fetched(c, jobs) \in RequestState /\ Fetched(c, jobs).op = req[c].op
    BY <1>1, FetchedType, FetchedFields DEF TypeInv
  <2>3. [Fetched(c, jobs) EXCEPT !.pc = "each", !.todo = jobs].op = req[c].op
    BY <2>2 DEF RequestState
  <2> QED
    BY <2>1, <2>3, ContinueAlone
<1>4. ASSUME NEW j, PanicOn(c, j) \/ SoftDeleteCollectionBlob(c, j)
      PROVE  StaysOrEnds(c) /\ Others(c)
  BY <1>1, <1>4, AnswerAlone, LoopAlone, LoopStays DEF PanicOn, Answer, SoftDeleteCollectionBlob
<1>5. ASSUME NEW j, SoftDeleteAlbumBlob(c, j)
      PROVE  StaysOrEnds(c) /\ Others(c)
  <2> DEFINE s(ok) == [req[c] EXCEPT !.pc = IF req[c].todo = {j} THEN "remaining" ELSE "each",
                                     !.todo = @ \ {j}, !.failed = @ \/ ~ok]
  <2>1. PICK ok : Continue(c, s(ok))
    BY <1>5 DEF SoftDeleteAlbumBlob
  <2>2. s(ok).op = req[c].op
    BY <1>1 DEF RequestState
  <2> QED
    BY <2>1, <2>2, ContinueAlone
<1>6. CASE Remaining(c)
  BY <1>6, AnswerAlone DEF Remaining
<1> QED
  BY <1>2, <1>3, <1>4, <1>5, <1>6 DEF SoftDeleteCollection, SoftDeleteAlbum

LEMMA ChoosingAlone ==
    ASSUME TypeInv, NEW c \in Clients, ThumbnailCollection(c) \/ ThumbnailAlbum(c)
    PROVE  StaysOrEnds(c) /\ Others(c)
<1>1. req[c] \in RequestState
  BY DEF TypeInv, RequestsOK, RequestTypeOK
<1>2. PICK kind, query :
        \/ ThumbnailFind(c, kind, query) \/ ThumbnailFetch(c, kind) \/ ThumbnailClear(c, kind)
        \/ ThumbnailGet(c, kind) \/ ThumbnailSet(c, kind) \/ ThumbnailRotate(c, kind)
  BY DEF ThumbnailCollection, ThumbnailAlbum
<1>3. CASE ThumbnailFind(c, kind, query)
  <2> DEFINE t == [req[c] EXCEPT !.pc = "get"]
  <2>1. t.op = req[c].op
    BY <1>1 DEF RequestState
  <2> HIDE DEF t
  <2>2. FindBlobs(c, query) \/ Continue(c, t) \/ AnswerWith(c, "404", FALSE)
    BY <1>3 DEF ThumbnailFind, Answer, t
  <2> QED
    BY <2>1, <2>2, AnswerAlone, ContinueAlone, AskAlone
<1>4. CASE ThumbnailFetch(c, kind)
  <2>1. PICK jobs \in Fetches(req[c].rows) : \E todo :
          \/ Continue(c, [Fetched(c, jobs) EXCEPT !.pc = "rotate", !.todo = todo])
          \/ Continue(c, [Fetched(c, jobs) EXCEPT !.pc = "get"])
          \/ Continue(c, [Fetched(c, jobs) EXCEPT !.pc = "unmark", !.todo = todo])
    BY <1>4 DEF ThumbnailFetch
  <2>2. Fetched(c, jobs) \in RequestState /\ Fetched(c, jobs).op = req[c].op
    BY <1>1, FetchedType, FetchedFields DEF TypeInv
  <2>3. /\ \A todo : [Fetched(c, jobs) EXCEPT !.pc = "rotate", !.todo = todo].op = req[c].op
        /\ [Fetched(c, jobs) EXCEPT !.pc = "get"].op = req[c].op
        /\ \A todo : [Fetched(c, jobs) EXCEPT !.pc = "unmark", !.todo = todo].op = req[c].op
    BY <2>2 DEF RequestState
  <2> QED
    BY <2>1, <2>3, ContinueAlone
<1>5. CASE ThumbnailClear(c, kind)
  <2> DEFINE s(j) == [req[c] EXCEPT !.pc = IF req[c].todo = {j} THEN "get" ELSE "unmark",
                                    !.todo = @ \ {j}]
  <2>1. \A j : s(j).op = req[c].op
    BY <1>1 DEF RequestState
  <2>2. AnswerWith(c, "panic", FALSE) \/ \E j : Continue(c, s(j))
    BY <1>5 DEF ThumbnailClear, PanicOn, Answer
  <2> HIDE DEF s
  <2> QED
    BY <2>1, <2>2, AnswerAlone, ContinueAlone
<1>6. CASE ThumbnailGet(c, kind)
  <2> DEFINE s(tags) == [req[c] EXCEPT !.pc = "set", !.tags = tags]
  <2>1. \A tags : s(tags).op = req[c].op
    BY <1>1 DEF RequestState
  <2>2. (\E tags : Continue(c, s(tags))) \/ AnswerWith(c, "404", FALSE)
    BY <1>6 DEF ThumbnailGet, Answer
  <2> HIDE DEF s
  <2> QED
    BY <2>1, <2>2, AnswerAlone, ContinueAlone
<1>7. CASE ThumbnailSet(c, kind) \/ ThumbnailRotate(c, kind)
  <2>1. \E status : AnswerWith(c, status, FALSE)
    BY <1>7 DEF ThumbnailSet, ThumbnailRotate, PanicOn, Answer
  <2> QED
    BY <2>1, AnswerAlone
<1> QED
  BY <1>2, <1>3, <1>4, <1>5, <1>6, <1>7

LEMMA UpdateAlone ==
    ASSUME TypeInv, NEW c \in Clients, Update(c)
    PROVE  StaysOrEnds(c) /\ Others(c)
<1>1. (\E s : Continue(c, s)) \/ \E status : AnswerWith(c, status, FALSE)
  BY DEF Update, UpdateGet, UpdateFind, UpdateFetch, UpdateClear, UpdateSet, FindBlobs, FindAll,
         FindSome, PanicOn, Answer
<1> QED
  BY <1>1, AnswerAlone, ContinueAlone, UpdateStays

LEMMA BrowseAlone ==
    ASSUME TypeInv, NEW c \in Clients, BrowseCollections(c) \/ BrowseAlbums(c)
    PROVE  StaysOrEnds(c) /\ Others(c)
<1>1. \/ \E s : Continue(c, s)
      \/ \E status : AnswerWith(c, status, FALSE)
      \/ \E todo, failed, s : NextOrAnswer(c, todo, failed, s)
  BY DEF BrowseCollections, BrowseAlbums, NoTagList, BrowseFind, BrowseFetch, BrowseClear,
         FindBlobs, FindAll, FindSome, PanicOn, Answer
<1> QED
  BY <1>1, AnswerAlone, ContinueAlone, LoopAlone, BrowseStays

\* the handlers a workload of thumbnails runs
LEMMA WorkSteps ==
    ASSUME ThumbnailRequests, TypeInv, NEW c \in Clients, Step(c)
    PROVE  \/ SoftDeleteCollection(c) \/ SoftDeleteAlbum(c)
           \/ ThumbnailCollection(c) \/ ThumbnailAlbum(c)
           \/ Update(c)
           \/ BrowseCollections(c) \/ BrowseAlbums(c)
<1>1. req[c].op \in Requests
      => req[c].op.kind \notin RestoreKinds \cup RenameKinds
  BY DEF ThumbnailRequests, DeleteKinds, RestoreKinds, RenameKinds, ThumbnailKinds, BrowseKinds
<1>2. ~RestoreCollection(c) /\ ~RestoreAlbum(c)
  BY <1>1, AtType, StepKind DEF TypeInv, RestoreCollection, RestoreAlbum, Locate, Fetch
<1>3. ASSUME NEW kind \in RenameKinds, RenameSteps(c, kind)
      PROVE  FALSE
  BY <1>1, <1>3, AtType, StepKind
     DEF TypeInv, RenameSteps, RenameFind, RenameFetch, RenameRead, RenameReadTags,
         RenameSave, RenameRetag, RenameDelete
<1> QED
  BY <1>2, <1>3 DEF Step, RenameCollection, RenameAlbum, RenameKinds

\* what a step of the workload does, when nothing fails
LEMMA StepTidy ==
    ASSUME ThumbnailRequests, EditsInPlace, TypeInv, ~CallFails, faults = MaxFaults,
           NEW c \in Clients, TidyAt(c), Step(c)
    PROVE  /\ WritesTidily(c) /\ TidyNext(c) /\ PlainState(req'[c])
           /\ OnCourse(req[c])' /\ StaysOrEnds(c) /\ Others(c)
           /\ ~Writes(req[c]) => images' = images
<1>1. InOrder(c) /\ OnCourse(req[c])
  BY DEF TidyAt
<1>2. OnCourse(req[c])'
  BY <1>1, StepOnCourse
<1>3. CASE SoftDeleteCollection(c) \/ SoftDeleteAlbum(c)
  <2>1. req[c].op # None /\ req[c].op.kind \in DeleteKinds
    BY <1>3, AtType, StepKind
       DEF TypeInv, SoftDeleteCollection, SoftDeleteAlbum, Locate, Fetch, Remaining
  <2> QED
    BY <1>1, <1>2, <1>3, <2>1, SoftDeleteTidy, SoftDeletePlain, DeletingAlone, KindsOfWork DEF Writes
<1>4. CASE ThumbnailCollection(c) \/ ThumbnailAlbum(c)
  <2>1. req[c].op # None /\ req[c].op.kind \in ThumbnailKinds
    BY <1>4, AtType, StepKind
       DEF TypeInv, ThumbnailCollection, ThumbnailAlbum, ThumbnailFind, ThumbnailFetch,
           ThumbnailClear, ThumbnailGet, ThumbnailSet, ThumbnailRotate
  <2> QED
    BY <1>1, <1>2, <1>4, <2>1, ThumbnailTidy, ThumbnailPlain, ChoosingAlone, KindsOfWork DEF Writes
<1>5. CASE Update(c)
  <2>1. req[c].op # None /\ req[c].op.kind = "update"
    BY <1>5, EditAt DEF Update, UpdateGet, UpdateFind, UpdateFetch, UpdateClear, UpdateSet
  <2> QED
    BY <1>1, <1>2, <1>5, <2>1, UpdateTidy, UpdatePlain, UpdateAlone, KindsOfWork DEF Writes
<1>6. CASE BrowseCollections(c) \/ BrowseAlbums(c)
  BY <1>1, <1>2, <1>6, BrowseTidy, BrowsePlain, BrowseAlone
<1> QED
  BY <1>3, <1>4, <1>5, <1>6, WorkSteps

\* a step keeps blobs where their tags say and the marks apart
LEMMA WrittenTidily ==
    ASSUME TypeInv, NEW c \in Clients, TidyAt(c), WritesTidily(c)
    PROVE  /\ \A p \in Paths : images'[p] # NoBlob => NamesPath(images'[p].tags, p)
           /\ MarksApart(images')
           /\ \A p \in Paths : Has(p) => images'[p] # NoBlob /\ images'[p].row = images[p].row
<1>1. CASE images' = images
  BY <1>1 DEF TidyAt, InOrder, Has
<1>2. CASE images' # images
  <2>1. PICK x \in Paths, t \in Tags :
          SetsTags(x, t) /\ NamesPath(t, x) /\ MarksAlone(x, t)
    BY <1>2 DEF WritesTidily
  <2>2. \A q \in Paths : /\ images'[q] # NoBlob <=> Has(q)
                         /\ Has(q) => /\ images'[q].photo = images[q].photo
                                      /\ images'[q].tags = IF q = x THEN t ELSE images[q].tags
    BY <2>1, SetsTagsEffect DEF TypeInv
  <2>3. \A p \in Paths : images'[p] # NoBlob => NamesPath(images'[p].tags, p)
    BY <2>1, <2>2 DEF TidyAt, InOrder
  <2>4. MarksApart(images')
    <3> SUFFICES ASSUME NEW p \in Paths, NEW q \in Paths, Has(p), Has(q), p[1] = q[1]
                 PROVE  /\ CollectionMarked(images'[p].tags) /\ CollectionMarked(images'[q].tags) => p = q
                        /\ p[2] = q[2] /\ AlbumMarked(images'[p].tags) /\ AlbumMarked(images'[q].tags)
                             => p = q
      BY <2>2 DEF MarksApart
    <3>1. CASE p # x /\ q # x
      BY <2>2, <3>1 DEF TidyAt, MarksApart, Has
    <3>2. CASE p = x
      BY <2>1, <2>2, <3>2 DEF MarksAlone
    <3>3. CASE q = x
      BY <2>1, <2>2, <3>3 DEF MarksAlone
    <3> QED
      BY <3>1, <3>2, <3>3
  <2>5. \A p \in Paths : Has(p) => images'[p].row = images[p].row
    BY <2>1 DEF SetsTags, Retagged, TypeInv, StoreTypeOK, Has, Blobs
  <2> QED
    BY <2>2, <2>3, <2>4, <2>5
<1> QED
  BY <1>1, <1>2

\* what Tidy says of one handler
TidyState(s) ==
    NamesAtHand(s) /\ StillThere(s) /\ OnlyReads(s) /\ HoldsWork(s) /\ Fresh(s) /\ Replaces(s) /\ OnCourse(s)

\* a handler that does not take the step
LEMMA OtherTidy ==
    ASSUME NEW d \in Clients, TidyState(req[d]), req'[d] = req[d], faults' = faults, images' = images
    PROVE  TidyState(req[d])'
<1>1. OnCourse(req[d])'
  BY StutterOnCourse DEF TidyState
<1>2. NamesAtHand(req[d])' /\ StillThere(req[d])' /\ OnlyReads(req[d])' /\ HoldsWork(req[d])'
  BY DEF TidyState, NamesAtHand, NamesPath, StillThere, Has, OnlyReads, HoldsWork
<1>3. Fresh(req[d])'
  BY DEF TidyState, Fresh, TagsRead, Has
<1>4. Replaces(req[d])'
  <2> DEFINE marked == BlobsWith(CollectionImageQuery(req[d].op.image[1]))
  <2>1. marked' = marked
    BY DEF BlobsWith, Has, Satisfies, CollectionImageQuery
  <2> QED
    BY <2>1 DEF TidyState, Replaces, CollectionMarked
<1> QED
  BY <1>1, <1>2, <1>3, <1>4 DEF TidyState

\* a page load beside a write
LEMMA ReaderTidy ==
    ASSUME TypeInv, NEW d \in Clients, TidyState(req[d]), req'[d] = req[d], ~Writes(req[d]),
           \A p \in Paths : Has(p) => images'[p] # NoBlob /\ images'[p].row = images[p].row
    PROVE  TidyState(req[d])'
<1>1. req[d] \in RequestState
  BY DEF TypeInv, RequestsOK, RequestTypeOK
<1>2. req[d].todo = {} /\ req[d].job = None
  BY KindsOfWork DEF TidyState, HoldsWork, Writes
<1>3. req[d].op = None \/ req[d].op.kind \in BrowseKinds
  BY DEF Writes
<1>4. OnCourse(req[d])'
  BY <1>3, KindsOfWork DEF OnCourse
<1>5. NamesAtHand(req[d])'
  BY <1>2, <1>3, KindsOfWork DEF NamesAtHand
<1>6. StillThere(req[d])'
  <2>1. req[d].pc \notin {"copyTags", "save"}
    BY <1>2 DEF TypeInv, RequestsOK, AtHand
  <2> QED
    BY <1>1, <2>1 DEF RequestState, TidyState, StillThere, Has
<1>7. OnlyReads(req[d])' /\ HoldsWork(req[d])'
  BY DEF TidyState, OnlyReads, HoldsWork
<1>8. Fresh(req[d])' /\ Replaces(req[d])'
  BY <1>2, <1>3, KindsOfWork DEF Fresh, TagsRead, Replaces
<1> QED
  BY <1>4, <1>5, <1>6, <1>7, <1>8 DEF TidyState

LEMMA OwnTidy ==
    ASSUME NEW c \in Clients, TidyNext(c), PlainState(req'[c]), OnCourse(req[c])'
    PROVE  TidyState(req[c])'
<1>1. NamesAtHand(req[c])'
  BY DEF PlainState, NamesAtHand, NamesPath
<1>2. StillThere(req[c])'
  <2>1. ASSUME req'[c].pc = "tags"
        PROVE  \A r \in req'[c].rows : images'[r[1]] # NoBlob /\ images'[r[1]].row = r[2]
    <3>1. images' = images /\ \E query : req'[c].rows \subseteq MatchingRows(query)
      BY <2>1 DEF PlainState
    <3> QED
      BY <3>1 DEF MatchingRows, Has
  <2> QED
    BY <2>1 DEF PlainState, StillThere, Has
<1>3. OnlyReads(req[c])' /\ HoldsWork(req[c])'
  BY DEF TidyNext, OnlyReads, HoldsWork
<1>4. Fresh(req[c])'
  BY DEF TidyNext, Fresh, TagsRead, Has
<1> QED
  BY <1>1, <1>2, <1>3, <1>4 DEF TidyState, TidyNext

\* only the administrator writes, so what is not a page load is alone
LEMMA TidyTogether ==
    ASSUME OneAdmin, TypeInv, Tidy, NEW c \in Clients, Others(c), WritesTidily(c),
           TidyState(req[c])', faults' = faults,
           ~Writes(req[c]) => images' = images,
           Writes(req'[c]) => c \in Admins
    PROVE  Tidy'
<1>1. TidyAt(c)
  BY TidyBefore
<1>2. /\ \A p \in Paths : images'[p] # NoBlob => NamesPath(images'[p].tags, p)
      /\ MarksApart(images')
      /\ \A p \in Paths : Has(p) => images'[p] # NoBlob /\ images'[p].row = images[p].row
  BY <1>1, WrittenTidily
<1>3. ASSUME NEW d \in Clients
      PROVE  TidyState(req[d])' /\ (Writes(req'[d]) => d \in Admins)
  <2>1. CASE d = c
    BY <2>1
  <2>2. CASE d # c
    <3>1. req'[d] = req[d] /\ TidyState(req[d]) /\ (Writes(req[d]) => d \in Admins)
      BY <2>2 DEF Others, Tidy, TidyState, Complete
    <3>2. CASE images' = images
      BY <3>1, <3>2, OtherTidy
    <3>3. CASE images' # images
      <4>1. Writes(req[c]) /\ c \in Admins
        BY <3>3 DEF Tidy
      <4>2. ~Writes(req[d])
        BY <2>2, <3>1, <4>1 DEF OneAdmin
      <4> QED
        BY <1>2, <3>1, <4>2, ReaderTidy
    <3> QED
      BY <3>2, <3>3
  <2> QED
    BY <2>1, <2>2
<1>4. (\A p \in Paths : Has(p) => NamesPath(images[p].tags, p))'
  BY <1>2 DEF Has, NamesPath
<1>5. MarksApart(images)'
  BY <1>2
<1>6. \A d \in Clients : (Writes(req[d]) => d \in Admins)'
  BY <1>3 DEF Writes
<1> QED
  BY <1>3, <1>4, <1>5, <1>6 DEF Tidy, TidyState, Complete

LEMMA SubmitTidy ==
    ASSUME OneAdmin, TypeInv, Tidy, faults' = faults, NEW c \in Clients, NEW r \in Requests, Submit(c, r)
    PROVE  Tidy' /\ images' = images
<1> DEFINE s == [Idle EXCEPT !.pc = FirstCall(r), !.op = r]
<1>1. req'[c] = s /\ images' = images /\ Others(c)
  BY DEF Submit, TypeInv, RequestsOK, RequestTypeOK, Others
<1>2. s.pc \in {"find", "get"} /\ s.op = r /\ s.todo = {} /\ s.job = None
  BY DEF FirstCall, Idle
<1>3. r.kind \in BrowseKinds => s.pc = "find"
  BY DEF FirstCall, BrowseKinds, Idle
<1>4. r.kind = "update" => s.pc = "get"
  BY DEF FirstCall, Idle
<1> HIDE DEF s
<1>5. PlainState(s)
  BY <1>2, PlainFields DEF Named
<1>6. TidyNext(c)
  BY <1>1, <1>2, <1>3, <1>4 DEF TidyNext, HoldsWork, OnlyReads, TagsRead, Replaces
<1>7. TidyState(req[c])'
  BY <1>1, <1>5, <1>6, SubmitOnCourse, OwnTidy
<1>8. Writes(req'[c]) => c \in Admins
  BY <1>1, <1>2 DEF Submit, Authorized, PageLoad, Writes, BrowseKinds
<1> QED
  BY <1>1, <1>7, <1>8, TidyTogether DEF WritesTidily

LEMMA NextTidy ==
    ASSUME OneAdmin, ThumbnailRequests, EditsInPlace, MaxFaults = 0, TypeInv, Tidy, [Next]_vars
    PROVE  Tidy'
<1>1. CASE UNCHANGED vars
  <2>1. \A d \in Clients : TidyState(req[d])'
    BY <1>1, OtherTidy DEF vars, Tidy, TidyState, Complete
  <2>2. (\A p \in Paths : Has(p) => NamesPath(images[p].tags, p))' /\ MarksApart(images)'
    BY <1>1 DEF vars, Tidy, Has, NamesPath
  <2>3. \A d \in Clients : (Writes(req[d]) => d \in Admins)'
    BY <1>1 DEF vars, Tidy, Writes
  <2> QED
    BY <1>1, <2>1, <2>2, <2>3 DEF Tidy, TidyState, Complete, vars
<1>2. CASE Next /\ ~UNCHANGED vars
  <2>1. faults = MaxFaults /\ ~CallFails
    BY DEF CallFails, TypeInv, StoreTypeOK
  <2>2. faults' = faults
    BY <1>2, <2>1, NextFaults DEF CallWorks
  <2>3. ASSUME NEW c \in Clients, Step(c)
        PROVE  Tidy'
    <3>1. TidyAt(c)
      BY TidyBefore
    <3>2. /\ WritesTidily(c) /\ TidyNext(c) /\ PlainState(req'[c])
          /\ OnCourse(req[c])' /\ StaysOrEnds(c) /\ Others(c)
          /\ ~Writes(req[c]) => images' = images
      BY <2>1, <2>3, <3>1, StepTidy
    <3>3. TidyState(req[c])'
      BY <3>2, OwnTidy
    <3>4. Writes(req'[c]) => c \in Admins
      BY <3>2 DEF StaysOrEnds, Writes, Tidy
    <3> QED
      BY <2>2, <3>1, <3>2, <3>3, <3>4, TidyTogether
  <2> QED
    BY <1>2, <2>1, <2>2, <2>3, SubmitTidy DEF Next, CutOff, Finished
<1> QED
  BY <1>1, <1>2

LEMMA InitTidy ==
    ASSUME LibrariesInOrder, LibrariesMarked, Init
    PROVE  Tidy
<1>1. images \in Libraries /\ req = [c \in Clients |-> Idle]
  BY DEF Init, StoreInit, RequestInit
<1>2. MarksApart(images) /\ \A p \in Paths : Has(p) => NamesPath(images[p].tags, p)
  BY <1>1 DEF LibrariesInOrder, LibrariesMarked, Has
<1>3. \A c \in Clients : /\ NamesAtHand(req[c]) /\ StillThere(req[c]) /\ OnlyReads(req[c])
                         /\ HoldsWork(req[c]) /\ Fresh(req[c]) /\ Replaces(req[c]) /\ ~Writes(req[c])
  BY <1>1 DEF NamesAtHand, StillThere, OnlyReads, HoldsWork, Fresh, TagsRead, Replaces, Writes, Idle
<1> QED
  BY <1>2, <1>3, InitOnCourse DEF Tidy

LEMMA TidyAlways ==
    ASSUME OneAdmin, ThumbnailRequests, LibrariesInOrder, LibrariesMarked, EditsInPlace, MaxFaults = 0
    PROVE  Spec => [](TypeInv /\ Tidy)
<1>1. Init => TypeInv /\ Tidy
  BY InitType, InitTidy
<1>2. TypeInv /\ Tidy /\ [Next]_vars => (TypeInv /\ Tidy)'
  BY NextType, NextTidy
<1> QED
  BY <1>1, <1>2, PTL DEF Spec

LEMMA AllTheSame ==
    ASSUME NEW S, \A x, y \in S : x = y
    PROVE  Cardinality(S) <= 1
<1>1. CASE S = {}
  BY <1>1, FS_EmptySet
<1>2. ASSUME NEW x \in S
      PROVE  Cardinality(S) <= 1
  <2>1. S = {x}
    BY <1>2
  <2> QED
    BY <2>1, FS_Singleton
<1> QED
  BY <1>1, <1>2

\* While nothing fails, one administrator who hides, chooses and edits photos,
\* with any number of people loading pages beside him, leaves every collection
\* with one thumbnail at most, and not only between requests: a choice or an
\* edit clears the old mark before it sets the new one, so that a page load that
\* runs in between never finds two of them to choose from (thumbnail.go:58-70,
\* update.go:86-98, collection.go:37-60).
THEOREM OneThumbnailAlways ==
    ASSUME OneAdmin, ThumbnailRequests, LibrariesInOrder, LibrariesMarked, EditsInPlace, MaxFaults = 0
    PROVE  Spec => []OneThumbnail
<1>1. Tidy => OneThumbnail
  <2> SUFFICES ASSUME Tidy, NEW a \in Collections
               PROVE  Cardinality(BlobsWith([collection |-> a, collectionImage |-> TRUE,
                                             isDeleted |-> FALSE])) <= 1
    BY DEF OneThumbnail
  <2> DEFINE S == BlobsWith([collection |-> a, collectionImage |-> TRUE, isDeleted |-> FALSE])
  <2>1. \A p \in S : /\ p \in Paths /\ Has(p) /\ p[1] = a /\ CollectionMarked(images[p].tags)
    BY DEF BlobsWith, Satisfies, Tidy, NamesPath, CollectionMarked
  <2> HIDE DEF S
  <2>2. \A p, q \in S : p = q
    BY <2>1 DEF Tidy, MarksApart, Has
  <2>3. Cardinality(S) <= 1
    BY <2>2, AllTheSame
  <2> QED
    BY <2>3 DEF S
<1> QED
  BY <1>1, TidyAlways, PTL

\* The same for the thumbnail of an album (thumbnail.go:160-172): the edits of
\* ThumbnailRequests make no photo that thumbnail, since UpdateHandler does
\* not look for another.
THEOREM OneAlbumThumbnailAlways ==
    ASSUME OneAdmin, ThumbnailRequests, LibrariesInOrder, LibrariesMarked, EditsInPlace, MaxFaults = 0
    PROVE  Spec => []OneAlbumThumbnail
<1>1. Tidy => OneAlbumThumbnail
  <2> SUFFICES ASSUME Tidy, NEW a \in Collections, NEW b \in Albums
               PROVE  Cardinality(BlobsWith([collection |-> a, album |-> b, albumImage |-> TRUE,
                                             isDeleted |-> FALSE])) <= 1
    BY DEF OneAlbumThumbnail
  <2> DEFINE S == BlobsWith([collection |-> a, album |-> b, albumImage |-> TRUE, isDeleted |-> FALSE])
  <2>1. \A p \in S : /\ p \in Paths /\ Has(p) /\ p[1] = a /\ p[2] = b /\ AlbumMarked(images[p].tags)
    BY DEF BlobsWith, Satisfies, Tidy, NamesPath, AlbumMarked
  <2> HIDE DEF S
  <2>2. \A p, q \in S : p = q
    BY <2>1 DEF Tidy, MarksApart, Has
  <2>3. Cardinality(S) <= 1
    BY <2>2, AllTheSame
  <2> QED
    BY <2>3 DEF S
<1> QED
  BY <1>1, TidyAlways, PTL

=============================================================================
