--------------------------- MODULE AzureApiProofs ---------------------------
(***************************************************************************)
(* Proofs about the handlers on the production store, for any library,     *)
(* workload and number of clients: their types, and the invariants of      *)
(* AzureRenames with what follows from them.                               *)
(***************************************************************************)
EXTENDS AzureRenames, PhotoApiProofs

-----------------------------------------------------------------------------
(* Types.                                                                  *)

GhostsOK == overlapped \in BOOLEAN /\ untagged \in BOOLEAN

AzureTypeInv == TypeInv /\ GhostsOK

LEMMA AzureCopyType ==
    ASSUME StoreTypeOK, NEW p \in Paths, NEW q \in Paths, NEW ok \in BOOLEAN, AzureCopy(p, q, ok)
    PROVE  StoreTypeOK'
<1>1. Has(p) => AzureCopied(p, q) \in [Paths -> Blobs \cup {NoBlob}]
  <2> SUFFICES ASSUME Has(p)
               PROVE  AzureCopied(p, q) \in [Paths -> Blobs \cup {NoBlob}]
    OBVIOUS
  <2>1. [photo |-> images[p].photo, row |-> 0, tags |-> EmptyTags] \in Blobs
    BY BlobType, EmptyTagsType DEF Blobs
  <2> QED
    BY <2>1 DEF AzureCopied, StoreTypeOK
<1>2. images' \in [Paths -> Blobs \cup {NoBlob}]
  BY <1>1 DEF StoreTypeOK, AzureCopy
<1> QED
  BY <1>2, LibraryAssumption DEF StoreTypeOK, AzureCopy, CallWorks, CallFails

LEMMA AzureDeleteType ==
    ASSUME StoreTypeOK, NEW p \in Paths, NEW ok \in BOOLEAN, AzureDelete(p, ok)
    PROVE  StoreTypeOK'
BY LibraryAssumption DEF StoreTypeOK, AzureDelete, CallWorks, CallFails

LEMMA AzureFindType ==
    ASSUME TypeInv, NEW c \in Clients, NEW kind, NEW query,
           NEW s1 \in Statuses, NEW s2 \in Statuses, AzureFind(c, kind, query, s1, s2)
    PROVE  TypeInv'
BY AtType, FindOrReplyType DEF AzureFind, FindBlobs, TypeInv

\* a page without the list of collections ends like one whose query failed
LEMMA NoTagListFinds ==
    ASSUME NEW c, NEW kind, NEW query, NoTagList(c, kind)
    PROVE  AzureFind(c, kind, query, "200", "404")
BY DEF NoTagList, AzureFind

\* what a query returns for one row
RowJob(r) == [path |-> r[1], tags |-> images[r[1]].tags]

LEMMA RowJobType ==
    ASSUME TypeInv, NEW c \in Clients, NEW r \in req[c].rows, Has(r[1])
    PROVE  RowJob(r) \in Jobs
<1>1. r[1] \in Paths
  BY DEF TypeInv, RequestsOK, RequestTypeOK, RequestState
<1> QED
  BY <1>1, BlobType DEF TypeInv, RowJob, Jobs

LEMMA AzureFetchType ==
    ASSUME TypeInv, NEW c \in Clients, NEW kind, NEW error \in Statuses,
           AzureFetch(c, kind, error)
    PROVE  TypeInv'
<1>1. req[c] \in RequestState /\ req[c].op # None /\ req[c].todo \in SUBSET Jobs
  BY AtType DEF AzureFetch, TypeInv
<1>2. PICK r \in req[c].rows, ok \in BOOLEAN :
         /\ ReadBlob(r[1], ok)
         /\ IF ok
            THEN Continue(c, [req[c] EXCEPT
                    !.pc = IF req[c].rows = {r} THEN "each" ELSE "tags",
                    !.rows = @ \ {r},
                    !.todo = @ \cup {[path |-> r[1], tags |-> images[r[1]].tags]}])
            ELSE Answer(c, error)
  BY DEF AzureFetch
<1>3. StoreTypeOK'
  BY <1>2, StoreUnread DEF TypeInv, ReadBlob
<1>4. CASE ok
  <2> DEFINE s == [req[c] EXCEPT !.pc = IF req[c].rows = {r} THEN "each" ELSE "tags",
                                 !.rows = @ \ {r}, !.todo = @ \cup {RowJob(r)}]
  <2>1. RowJob(r) \in Jobs
    BY <1>2, <1>4, RowJobType DEF ReadBlob
  <2>2. s \in RequestState /\ AtHand(s)
    BY <1>1, <2>1 DEF RequestState, PCs, AtHand
  <2>3. Continue(c, s)
    BY <1>2, <1>4 DEF RowJob
  <2> QED
    BY <1>3, <2>2, <2>3, GoOn DEF TypeInv
<1>5. CASE ~ok
  BY <1>2, <1>3, <1>5, ReplyPlain DEF TypeInv
<1> QED
  BY <1>4, <1>5

LEMMA AzureBrowseFetchType ==
    ASSUME TypeInv, NEW c \in Clients, AzureBrowseFetch(c)
    PROVE  TypeInv'
<1>1. req[c] \in RequestState /\ req[c].op # None /\ req[c].todo \in SUBSET Jobs
      /\ req[c].pc = "tags"
  BY AtType DEF AzureBrowseFetch, TypeInv
<1> DEFINE fetched(r) == req[c].todo \cup {RowJob(r)}
<1>2. PICK r \in req[c].rows, ok \in BOOLEAN :
         /\ ReadBlob(r[1], ok)
         /\ IF ~ok THEN Answer(c, "200")
            ELSE IF req[c].rows # {r}
            THEN Continue(c, [req[c] EXCEPT !.rows = @ \ {r}, !.todo = fetched(r)])
            ELSE \E extras \in Extras("browseCollections", fetched(r)) :
                   NextOrAnswer(c, extras, FALSE, [req[c] EXCEPT !.rows = {}])
  BY DEF AzureBrowseFetch, RowJob
<1>3. StoreTypeOK'
  BY <1>2, StoreUnread DEF TypeInv, ReadBlob
<1>4. ok => fetched(r) \in SUBSET Jobs
  BY <1>1, <1>2, RowJobType DEF ReadBlob
<1>5. CASE ~ok
  BY <1>2, <1>3, <1>5, ReplyPlain DEF TypeInv, Statuses
<1>6. CASE ok /\ req[c].rows # {r}
  <2> DEFINE s == [req[c] EXCEPT !.rows = @ \ {r}, !.todo = fetched(r)]
  <2>1. s \in RequestState /\ AtHand(s)
    BY <1>1, <1>4, <1>6 DEF RequestState, AtHand
  <2> QED
    BY <1>2, <1>3, <1>6, <2>1, GoOn DEF TypeInv
<1>7. CASE ok /\ req[c].rows = {r}
  <2> DEFINE s == [req[c] EXCEPT !.rows = {}]
  <2>1. PICK extras \in SUBSET fetched(r) : NextOrAnswer(c, extras, FALSE, s)
    BY <1>2, <1>7 DEF Extras
  <2>2. s \in RequestState /\ s.op # None /\ extras \in SUBSET Jobs
    BY <1>1, <1>4, <1>7 DEF RequestState
  <2> HIDE DEF s
  <2> QED
    BY <1>3, <2>1, <2>2, GoOnOrReply DEF TypeInv
<1> QED
  BY <1>5, <1>6, <1>7

LEMMA AzureRenameCopyType ==
    ASSUME TypeInv, NEW c \in Clients, NEW kind \in RenameKinds, AzureRenameCopy(c, kind)
    PROVE  TypeInv'
<1>1. /\ At(c, kind, "each") /\ req[c] \in RequestState /\ req[c].op # None
      /\ req[c].op \in Renames /\ req[c].todo \in SUBSET Jobs
  BY RenameAt DEF AzureRenameCopy
<1>2. PICK j \in req[c].todo, ok \in BOOLEAN :
         /\ AzureCopy(j.path, NewPath(req[c].op, j.path), ok)
         /\ IF ok
            THEN Continue(c, [req[c] EXCEPT !.pc = "retag", !.todo = @ \ {j}, !.job = j])
            ELSE NextOrAnswer(c, req[c].todo \ {j}, TRUE, req[c])
  BY DEF AzureRenameCopy
<1>3. j \in Jobs /\ j.path \in Paths /\ NewPath(req[c].op, j.path) \in Paths
  BY <1>1, NewPathType DEF Jobs
<1>4. StoreTypeOK'
  BY <1>2, <1>3, AzureCopyType DEF TypeInv
<1>5. CASE ok
  <2> DEFINE s == [req[c] EXCEPT !.pc = "retag", !.todo = @ \ {j}, !.job = j]
  <2>1. s \in RequestState /\ AtHand(s)
    BY <1>1, <1>3, RequestAssumption DEF RequestState, PCs, AtHand
  <2> QED
    BY <1>2, <1>4, <1>5, <2>1, GoOn DEF TypeInv
<1>6. CASE ~ok
  BY <1>1, <1>2, <1>4, <1>6, GoOnOrReply DEF TypeInv
<1> QED
  BY <1>5, <1>6

LEMMA AzureRenameDeleteType ==
    ASSUME TypeInv, NEW c \in Clients, NEW kind \in RenameKinds, AzureRenameDelete(c, kind)
    PROVE  TypeInv'
<1>1. req[c].op # None /\ req[c].job.path \in Paths
  BY RenameAt DEF AzureRenameDelete
<1>2. PICK ok \in BOOLEAN : AzureDelete(req[c].job.path, ok) /\ RenameNext(c, ~ok)
  BY DEF AzureRenameDelete
<1>3. StoreTypeOK'
  BY <1>1, <1>2, AzureDeleteType DEF TypeInv
<1>4. RequestsOK'
  BY <1>1, <1>2, RenameNextType
<1> QED
  BY <1>3, <1>4 DEF TypeInv

LEMMA AzureRenameType ==
    ASSUME TypeInv, NEW c \in Clients, NEW kind \in RenameKinds, AzureRename(c, kind)
    PROVE  TypeInv'
BY AzureFindType, AzureFetchType, AzureRenameCopyType, RenameRetagType, AzureRenameDeleteType
   DEF AzureRename, Statuses

LEMMA WriteBackType ==
    ASSUME TypeInv, NEW c \in Clients, NEW kind, WriteBack(c, kind)
    PROVE  TypeInv'
<1>1. /\ At(c, kind, "each") /\ req[c] \in RequestState /\ req[c].op # None
      /\ req[c].todo \in SUBSET Jobs /\ req[c].failed \in BOOLEAN
  BY AtType DEF WriteBack, TypeInv
<1> DEFINE t(j) == IF kind = "softDeleteCollection" THEN Deleted(j.tags)
                                                    ELSE CollectionCleared(j.tags)
<1>2. PICK j \in req[c].todo, ok \in BOOLEAN, failed \in BOOLEAN :
         SetBlobTags(j.path, t(j), ok) /\ NextOrAnswer(c, req[c].todo \ {j}, failed, req[c])
  <2> DEFINE deletes == kind = "softDeleteCollection"
  <2>1. PICK j \in req[c].todo, ok \in BOOLEAN :
           /\ SetBlobTags(j.path, t(j), ok)
           /\ NextOrAnswer(c, req[c].todo \ {j}, req[c].failed \/ (deletes /\ ~ok), req[c])
    BY DEF WriteBack
  <2>2. (req[c].failed \/ (deletes /\ ~ok)) \in BOOLEAN
    BY <1>1
  <2> QED
    BY <2>1, <2>2
<1>3. t(j) \in Tags
  BY <1>1, NewTagsValuesType DEF Jobs
<1> QED
  BY <1>1, <1>2, <1>3, WriteInLoopType

LEMMA AzureStepType ==
    ASSUME TypeInv, NEW c \in Clients, AzureStep(c)
    PROVE  TypeInv'
<1>1. CASE AzureRename(c, "renameCollection") \/ AzureRename(c, "renameAlbum")
  BY <1>1, AzureRenameType DEF RenameKinds
<1>2. CASE AzureSoftDelete(c)
  BY <1>2, AzureFindType, AzureFetchType, WriteBackType DEF AzureSoftDelete, Statuses
<1>3. CASE AzureBrowse(c)
  BY <1>3, NoTagListFinds, AzureFindType, AzureBrowseFetchType, WriteBackType DEF AzureBrowse, Statuses
<1> QED
  BY <1>1, <1>2, <1>3 DEF AzureStep

LEMMA AzureInitType ==
    ASSUME AzureInit
    PROVE  AzureTypeInv
<1>1. StoreTypeOK
  BY LibraryAssumption DEF AzureInit, StoreInit, StoreTypeOK
<1>2. pending \subseteq Requests
  BY WorkloadAssumption DEF AzureInit
<1>3. RequestsOK
  BY <1>2, IdleType DEF AzureInit, RequestsOK, RequestTypeOK, Replies, Statuses
<1> QED
  BY <1>1, <1>3 DEF AzureInit, AzureTypeInv, TypeInv, GhostsOK

LEMMA AzureNextType ==
    ASSUME AzureTypeInv, [AzureNext]_azureVars
    PROVE  AzureTypeInv'
<1>1. TypeInv'
  <2>1. CASE UNCHANGED vars
    BY <2>1, StutterType DEF AzureTypeInv
  <2> QED
    BY <2>1, SubmitType, AzureStepType, CutOffType
       DEF AzureNext, azureVars, Finished, AzureTypeInv
<1>2. GhostsOK'
  BY DEF AzureNext, azureVars, AzureTypeInv, GhostsOK
<1> QED
  BY <1>1, <1>2 DEF AzureTypeInv

\* On the production store too handlers store and pass on only tag sets, paths
\* and photos of their types, whichever tag maps queries return.
THEOREM AzureTypeCorrect == AzureSpec => []AzureTypeOK
<1>1. AzureInit => AzureTypeInv
  BY AzureInitType
<1>2. AzureTypeInv /\ [AzureNext]_azureVars => AzureTypeInv'
  BY AzureNextType
<1>3. AzureTypeInv => AzureTypeOK
  BY DEF AzureTypeInv, GhostsOK, TypeInv, RequestsOK, TypeOK, AzureTypeOK
<1> QED
  BY <1>1, <1>2, <1>3, PTL DEF AzureSpec

-----------------------------------------------------------------------------
(* Paths and their tags.                                                   *)

LEMMA NewPathElsewhere ==
    ASSUME NEW r \in Renames, NEW p \in Source(r)
    PROVE  /\ NewPath(r, p) \in Paths /\ NewPath(r, p) \in Targeted
           /\ NewPath(r, p) \notin Source(r)
<1>1. NewPath(r, p) \in Paths /\ NewPath(r, p) \in Targeted
  BY TargetPaths DEF Targeted
<1>2. NewPath(r, p) \notin Source(r)
  BY RenameFields DEF Source, NewPath, RenameKinds
<1> QED
  BY <1>1, <1>2

\* what a rename's query finds, by the tags, is under the old name by its path
LEMMA FoundInSource ==
    ASSUME NEW r \in Renames, NEW p \in Paths, NEW tags, AtPlace(p, tags),
           Satisfies(tags, RenameQuery(r))
    PROVE  p \in Source(r) /\ tags # EmptyTags
<1>1. tags.collection = r.collection /\ (r.kind = "renameAlbum" => tags.album = r.album)
  BY RenameFields DEF Satisfies, RenameQuery, RenameKinds
<1>2. r.collection # None /\ (r.kind = "renameAlbum" => r.album # None)
  BY RenameFields, NoneAssumption
<1> QED
  BY <1>1, <1>2 DEF AtPlace, Source, EmptyTags

LEMMA NamedAreFound ==
    ASSUME NEW r \in Renames, NEW p \in Source(r), NEW tags, Names(p, tags)
    PROVE  Satisfies(tags, RenameQuery(r))
BY RenameFields DEF Names, Source, Satisfies, RenameQuery, RenameKinds

LEMMA NamedAtPlace ==
    ASSUME NEW p \in Paths, NEW tags, Names(p, tags)
    PROVE  AtPlace(p, tags) /\ tags # EmptyTags
BY PathFields, NoneAssumption DEF AtPlace, Names, EmptyTags

LEMMA NewTagsPlace ==
    ASSUME NEW r \in Renames, NEW j \in Jobs, j.path \in Source(r), AtPlace(j.path, j.tags)
    PROVE  /\ AtPlace(NewPath(r, j.path), NewTags(r, j))
           /\ Names(j.path, j.tags) => Names(NewPath(r, j.path), NewTags(r, j))
<1> DEFINE q == NewPath(r, j.path)
           t == NewTags(r, j)
<1>1. j.tags \in Tags /\ q \in Targeted
  BY NewPathElsewhere DEF Jobs
<1>2. CASE r.kind = "renameCollection"
  <2>1. q[1] = r.newName /\ q[2] = j.path[2]
    BY <1>2 DEF NewPath
  <2>2. t.collection = r.newName /\ t.name = q /\ t.album = j.tags.album
    BY <1>1, <1>2 DEF NewTags, Tags
  <2> QED
    BY <1>1, <2>1, <2>2 DEF AtPlace, Names
<1>3. CASE r.kind = "renameAlbum"
  <2>1. q[1] = j.path[1] /\ q[2] = r.newName
    BY <1>3, RenameFields DEF NewPath
  <2>2. t.album = r.newName /\ t.name = q /\ t.collection = j.tags.collection
    BY <1>1, <1>3 DEF NewTags, Tags
  <2> QED
    BY <1>1, <2>1, <2>2 DEF AtPlace, Names
<1> QED
  BY <1>2, <1>3, RenameFields DEF RenameKinds

LEMMA WrittenBackPlace ==
    ASSUME NEW j \in Jobs, AtPlace(j.path, j.tags),
           NEW t \in {Deleted(j.tags), CollectionCleared(j.tags)}
    PROVE  /\ t \in Tags /\ AtPlace(j.path, t)
           /\ Names(j.path, j.tags) => Names(j.path, t)
<1>1. j.tags \in Tags
  BY DEF Jobs
<1>2. t \in Tags
  BY <1>1, NewTagsValuesType
<1>3. t.name = j.tags.name /\ t.collection = j.tags.collection /\ t.album = j.tags.album
  BY <1>1 DEF Deleted, CollectionCleared, Tags
<1> QED
  BY <1>2, <1>3 DEF AtPlace, Names

-----------------------------------------------------------------------------
(* What a call can do to the container.                                    *)

CopiesTo(p, q) == Has(p) /\ images' = AzureCopied(p, q)

LEMMA CopiesToEffect ==
    ASSUME StoreTypeOK, NEW p \in Paths, NEW q \in Paths, CopiesTo(p, q)
    PROVE  /\ images'[q] # NoBlob /\ images'[q].photo = images[p].photo
           /\ images'[q].tags = EmptyTags
           /\ \A o \in Paths : o # q => images'[o] = images[o]
<1> DEFINE b == [photo |-> images[p].photo, row |-> 0, tags |-> EmptyTags]
<1>1. b \in Blobs
  BY BlobType, EmptyTagsType DEF Blobs, CopiesTo
<1>2. b # NoBlob
  BY <1>1, NoneAssumption
<1>3. \A o \in Paths : images'[o] = IF o = q THEN b ELSE images[o]
  BY DEF CopiesTo, AzureCopied, StoreTypeOK
<1> QED
  BY <1>2, <1>3

-----------------------------------------------------------------------------
(* What each step does to the container and to its request.                *)

LEMMA AzureFindSteps ==
    ASSUME TypeInv, NEW c \in Clients, NEW kind, NEW query,
           NEW s1 \in Statuses, NEW s2 \in Statuses, AzureFind(c, kind, query, s1, s2)
    PROVE  /\ At(c, kind, "find") /\ images' = images /\ (CallWorks \/ CallFails)
           /\ \/ Ended(c, s1)
              \/ Ended(c, s2)
              \/ Goes(c, "tags", MatchingRows(query), req[c].todo, req[c].job, req[c].failed)
<1>1. At(c, kind, "find") /\ req[c] \in RequestState
  BY AtType DEF AzureFind, TypeInv
<1>2. images' = images /\ (CallWorks \/ CallFails)
  BY DEF AzureFind, FindAll, FindsNone, FindFails, storeVars, CallWorks
<1>3. CASE FindAll(c, query)
  <2> DEFINE s == [req[c] EXCEPT !.pc = "tags", !.rows = MatchingRows(query)]
  <2>1. Others(c) /\ req'[c] = s
    BY <1>3, ContinueGoes DEF FindAll, TypeInv
  <2> QED
    BY <1>1, <1>2, <2>1 DEF Goes, RequestState
<1> QED
  BY <1>1, <1>2, <1>3, AnswerEnds DEF AzureFind, TypeInv

LEMMA AzureFetchSteps ==
    ASSUME TypeInv, NEW c \in Clients, NEW kind, NEW error \in Statuses,
           AzureFetch(c, kind, error)
    PROVE  /\ At(c, kind, "tags") /\ images' = images /\ (CallWorks \/ CallFails)
           /\ \/ Ended(c, error)
              \/ \E r \in req[c].rows :
                   /\ Has(r[1]) /\ r[1] \in Paths
                   /\ Goes(c, IF req[c].rows = {r} THEN "each" ELSE "tags", req[c].rows \ {r},
                           req[c].todo \cup {RowJob(r)}, req[c].job, req[c].failed)
<1>1. At(c, kind, "tags") /\ req[c] \in RequestState
  BY AtType DEF AzureFetch, TypeInv
<1>2. PICK r \in req[c].rows, ok \in BOOLEAN :
         /\ ReadBlob(r[1], ok)
         /\ IF ok
            THEN Continue(c, [req[c] EXCEPT
                    !.pc = IF req[c].rows = {r} THEN "each" ELSE "tags",
                    !.rows = @ \ {r},
                    !.todo = @ \cup {[path |-> r[1], tags |-> images[r[1]].tags]}])
            ELSE Answer(c, error)
  BY DEF AzureFetch
<1>3. images' = images /\ (CallWorks \/ CallFails) /\ (ok => Has(r[1]))
  BY <1>2 DEF ReadBlob
<1>4. CASE ok
  <2> DEFINE s == [req[c] EXCEPT !.pc = IF req[c].rows = {r} THEN "each" ELSE "tags",
                                 !.rows = @ \ {r}, !.todo = @ \cup {RowJob(r)}]
  <2>1. Others(c) /\ req'[c] = s
    BY <1>2, <1>4, ContinueGoes DEF TypeInv, RowJob
  <2>2. r[1] \in Paths
    BY <1>1 DEF RequestState
  <2>3. Goes(c, IF req[c].rows = {r} THEN "each" ELSE "tags", req[c].rows \ {r},
             req[c].todo \cup {RowJob(r)}, req[c].job, req[c].failed)
    BY <1>1, <2>1 DEF Goes, RequestState
  <2> QED
    BY <1>1, <1>3, <1>4, <2>2, <2>3
<1>5. CASE ~ok
  BY <1>1, <1>2, <1>3, <1>5, AnswerEnds DEF TypeInv
<1> QED
  BY <1>4, <1>5

LEMMA AzureBrowseFetchSteps ==
    ASSUME TypeInv, NEW c \in Clients, AzureBrowseFetch(c)
    PROVE  /\ At(c, "browseCollections", "tags") /\ images' = images
           /\ CallWorks \/ CallFails
           /\ \/ Ended(c, "200")
              \/ \E r \in req[c].rows, pc \in {"tags", "each"}, rows \in SUBSET req[c].rows,
                    todo \in SUBSET Jobs, failed \in BOOLEAN :
                   /\ Has(r[1]) /\ r[1] \in Paths
                   /\ todo \subseteq req[c].todo \cup {RowJob(r)}
                   /\ Goes(c, pc, rows, todo, req[c].job, failed)
<1>1. At(c, "browseCollections", "tags") /\ req[c] \in RequestState /\ req[c].pc = "tags"
  BY AtType DEF AzureBrowseFetch, TypeInv
<1> DEFINE fetched(r) == req[c].todo \cup {RowJob(r)}
<1>2. PICK r \in req[c].rows, ok \in BOOLEAN :
         /\ ReadBlob(r[1], ok)
         /\ IF ~ok THEN Answer(c, "200")
            ELSE IF req[c].rows # {r}
            THEN Continue(c, [req[c] EXCEPT !.rows = @ \ {r}, !.todo = fetched(r)])
            ELSE \E extras \in Extras("browseCollections", fetched(r)) :
                   NextOrAnswer(c, extras, FALSE, [req[c] EXCEPT !.rows = {}])
  BY DEF AzureBrowseFetch, RowJob
<1>3. images' = images /\ (CallWorks \/ CallFails) /\ (ok => Has(r[1])) /\ r[1] \in Paths
  BY <1>1, <1>2 DEF ReadBlob, RequestState
<1>4. CASE ~ok
  BY <1>1, <1>2, <1>3, <1>4, AnswerEnds DEF TypeInv, Statuses
<1>5. CASE ok /\ req[c].rows # {r}
  <2> DEFINE s == [req[c] EXCEPT !.rows = @ \ {r}, !.todo = fetched(r)]
  <2>1. Others(c) /\ req'[c] = s
    BY <1>2, <1>5, ContinueGoes DEF TypeInv
  <2>2. Goes(c, "tags", req[c].rows \ {r}, fetched(r), req[c].job, req[c].failed)
    BY <1>1, <2>1 DEF Goes, RequestState
  <2>3. /\ req[c].rows \ {r} \in SUBSET req[c].rows /\ fetched(r) \in SUBSET Jobs
        /\ req[c].failed \in BOOLEAN
    BY <1>1, <1>2, <1>3, <1>5, RowJobType DEF RequestState
  <2> QED
    BY <1>1, <1>3, <1>5, <2>2, <2>3
<1>6. CASE ok /\ req[c].rows = {r}
  <2> DEFINE s == [req[c] EXCEPT !.rows = {}]
  <2>1. PICK extras \in SUBSET fetched(r) : NextOrAnswer(c, extras, FALSE, s)
    BY <1>2, <1>6 DEF Extras
  <2>2. /\ s \in RequestState /\ s.op = req[c].op /\ s.rows = {} /\ s.job = req[c].job
        /\ s.cut = req[c].cut
    BY <1>1 DEF RequestState
  <2> HIDE DEF s
  <2>3. Ended(c, "200") \/ Goes(c, "each", {}, extras, req[c].job, FALSE)
    BY <2>1, <2>2, LoopGoes DEF TypeInv
  <2>4. {} \in SUBSET req[c].rows /\ extras \in SUBSET Jobs /\ FALSE \in BOOLEAN
    BY <1>1, <1>2, <1>3, <1>6, RowJobType DEF RequestState
  <2> QED
    BY <1>1, <1>3, <1>6, <2>3, <2>4
<1> QED
  BY <1>4, <1>5, <1>6

LEMMA WriteBackSteps ==
    ASSUME TypeInv, NEW c \in Clients, NEW kind, WriteBack(c, kind)
    PROVE  /\ At(c, kind, "each") /\ (CallWorks \/ CallFails)
           /\ \E j \in req[c].todo : \E t \in {Deleted(j.tags), CollectionCleared(j.tags)} :
                /\ j \in Jobs /\ j.path \in Paths
                /\ images' = images \/ SetsTags(j.path, t)
                /\ \/ \E status \in Statuses : Ended(c, status)
                   \/ \E failed \in BOOLEAN :
                        Goes(c, "each", req[c].rows, req[c].todo \ {j}, req[c].job, failed)
<1>1. /\ At(c, kind, "each") /\ req[c] \in RequestState /\ req[c].todo \in SUBSET Jobs
      /\ req[c].failed \in BOOLEAN
  BY AtType DEF WriteBack, TypeInv
<1> DEFINE deletes == kind = "softDeleteCollection"
           t(j) == IF deletes THEN Deleted(j.tags) ELSE CollectionCleared(j.tags)
<1>2. PICK j \in req[c].todo, ok \in BOOLEAN :
         /\ SetBlobTags(j.path, t(j), ok)
         /\ NextOrAnswer(c, req[c].todo \ {j}, req[c].failed \/ (deletes /\ ~ok), req[c])
  BY DEF WriteBack
<1> DEFINE failed == req[c].failed \/ (deletes /\ ~ok)
<1>3. j \in Jobs /\ j.path \in Paths /\ failed \in BOOLEAN
  BY <1>1, <1>2 DEF Jobs
<1>4. (images' = images \/ SetsTags(j.path, t(j))) /\ (CallWorks \/ CallFails)
  BY <1>2 DEF SetBlobTags, SetsTags
<1>5. t(j) \in {Deleted(j.tags), CollectionCleared(j.tags)}
  OBVIOUS
<1>6. \/ Ended(c, IF failed THEN "206" ELSE "200")
      \/ Goes(c, "each", req[c].rows, req[c].todo \ {j}, req[c].job, failed)
  BY <1>1, <1>2, LoopGoes DEF TypeInv
<1>7. (IF failed THEN "206" ELSE "200") \in Statuses
  BY DEF Statuses
<1> HIDE DEF t, failed
<1>8. \/ \E status \in Statuses : Ended(c, status)
      \/ \E f \in BOOLEAN : Goes(c, "each", req[c].rows, req[c].todo \ {j}, req[c].job, f)
  BY <1>3, <1>6, <1>7
<1> QED
  BY <1>1, <1>3, <1>4, <1>5, <1>8

LEMMA AzureRenameCopySteps ==
    ASSUME TypeInv, NEW c \in Clients, NEW kind \in RenameKinds, AzureRenameCopy(c, kind)
    PROVE  /\ Renaming(c) /\ req[c].pc = "each"
           /\ \E j \in req[c].todo :
                LET q == NewPath(req[c].op, j.path)
                IN  /\ j \in Jobs /\ j.path \in Paths /\ q \in Paths
                    /\ \/ /\ CopiesTo(j.path, q) /\ CallWorks
                          /\ Goes(c, "retag", req[c].rows, req[c].todo \ {j}, j, req[c].failed)
                       \/ /\ \/ images' = images /\ (CallFails \/ CallWorks)
                             \/ CopiesTo(j.path, q) /\ CallFails
                          /\ GivesUp(c, req[c].todo \ {j})
<1>1. /\ At(c, kind, "each") /\ req[c] \in RequestState /\ req[c].pc = "each"
      /\ req[c].op \in Renames /\ req[c].todo \in SUBSET Jobs
  BY RenameAt DEF AzureRenameCopy
<1>2. PICK j \in req[c].todo, ok \in BOOLEAN :
         /\ AzureCopy(j.path, NewPath(req[c].op, j.path), ok)
         /\ IF ok
            THEN Continue(c, [req[c] EXCEPT !.pc = "retag", !.todo = @ \ {j}, !.job = j])
            ELSE NextOrAnswer(c, req[c].todo \ {j}, TRUE, req[c])
  BY DEF AzureRenameCopy
<1> DEFINE q == NewPath(req[c].op, j.path)
<1>3. j \in Jobs /\ j.path \in Paths /\ q \in Paths
  BY <1>1, NewPathType DEF Jobs
<1>4. Renaming(c)
  BY <1>1 DEF Renaming
<1>5. CASE ok
  <2>1. CopiesTo(j.path, q) /\ CallWorks
    BY <1>2, <1>5 DEF AzureCopy, CopiesTo
  <2> DEFINE s == [req[c] EXCEPT !.pc = "retag", !.todo = @ \ {j}, !.job = j]
  <2>2. Others(c) /\ req'[c] = s
    BY <1>2, <1>5, ContinueGoes DEF TypeInv
  <2>3. Goes(c, "retag", req[c].rows, req[c].todo \ {j}, j, req[c].failed)
    BY <1>1, <2>2 DEF Goes, RequestState
  <2> QED
    BY <1>1, <1>3, <1>4, <2>1, <2>3
<1>6. CASE ~ok
  <2>1. \/ images' = images /\ CallFails
        \/ images' = images /\ CallWorks
        \/ CopiesTo(j.path, q) /\ CallFails
    BY <1>2, <1>6 DEF AzureCopy, CopiesTo
  <2>2. GivesUp(c, req[c].todo \ {j})
    BY <1>1, <1>2, <1>6, LoopGoes DEF TypeInv, GivesUp
  <2> QED
    BY <1>1, <1>3, <1>4, <2>1, <2>2
<1> QED
  BY <1>5, <1>6

LEMMA RenameRetagSteps ==
    ASSUME TypeInv, NEW c \in Clients, NEW kind \in RenameKinds, RenameRetag(c, kind)
    PROVE  LET j == req[c].job
               q == NewPath(req[c].op, j.path)
               t == NewTags(req[c].op, j)
           IN  /\ Renaming(c) /\ req[c].pc = "retag"
               /\ j \in Jobs /\ j.path \in Paths /\ q \in Paths /\ t \in Tags
               /\ \/ /\ SetsTags(q, t) /\ CallWorks
                     /\ Goes(c, "delete", req[c].rows, req[c].todo, j, req[c].failed)
                  \/ /\ \/ images' = images /\ (CallFails \/ (CallWorks /\ ~Has(q)))
                        \/ SetsTags(q, t) /\ CallFails
                     /\ GivesUp(c, req[c].todo)
BY RetagSteps DEF Renaming

LEMMA AzureRenameDeleteSteps ==
    ASSUME TypeInv, NEW c \in Clients, NEW kind \in RenameKinds, AzureRenameDelete(c, kind)
    PROVE  /\ Renaming(c) /\ req[c].pc = "delete" /\ req[c].job.path \in Paths
           /\ CallWorks \/ CallFails
           /\ \/ /\ Drops(req[c].job.path)
                 /\ \/ /\ req[c].todo = {}
                       /\ Ended(c, IF req[c].failed THEN "206" ELSE "200")
                    \/ \E job : Goes(c, "each", req[c].rows, req[c].todo, job, req[c].failed)
              \/ /\ images' = images \/ Drops(req[c].job.path)
                 /\ GivesUp(c, req[c].todo)
<1>1. /\ req[c] \in RequestState /\ req[c].pc = "delete" /\ req[c].failed \in BOOLEAN
      /\ req[c].op \in Renames /\ req[c].job.path \in Paths
  BY RenameAt DEF AzureRenameDelete
<1>2. PICK ok \in BOOLEAN : AzureDelete(req[c].job.path, ok) /\ RenameNext(c, ~ok)
  BY DEF AzureRenameDelete
<1>3. Renaming(c) /\ (CallWorks \/ CallFails)
  BY <1>1, <1>2 DEF Renaming, AzureDelete
<1>4. CASE ok
  <2>1. Drops(req[c].job.path)
    BY <1>2, <1>4 DEF AzureDelete, Drops
  <2>2. (req[c].failed \/ ~ok) = req[c].failed
    BY <1>1, <1>4
  <2>3. \/ req[c].todo = {} /\ Ended(c, IF req[c].failed THEN "206" ELSE "200")
        \/ Goes(c, "each", req[c].rows, req[c].todo, None, req[c].failed)
    BY <1>1, <1>2, <2>2, RenameNextGoes DEF TypeInv
  <2> QED
    BY <1>1, <1>3, <2>1, <2>3
<1>5. CASE ~ok
  <2>1. images' = images \/ Drops(req[c].job.path)
    BY <1>2, <1>5 DEF AzureDelete, Drops
  <2>2. (req[c].failed \/ ~ok) = TRUE
    BY <1>5
  <2>3. GivesUp(c, req[c].todo)
    BY <1>1, <1>2, <2>2, RenameNextGoes DEF TypeInv, GivesUp
  <2> QED
    BY <1>1, <1>3, <2>1, <2>3
<1> QED
  BY <1>4, <1>5

-----------------------------------------------------------------------------
(* Every photo stays where it belongs.                                     *)

LEMMA WorkIdle == WorkInOrder(Idle)
BY RequestAssumption DEF WorkInOrder, Idle, AtWork, Renames

LEMMA WorkShrinks ==
    ASSUME NEW s, NEW t, WorkInOrder(s), t.op = s.op, t.pc = "each", s.pc # "tags",
           t.rows = s.rows, t.todo \subseteq s.todo
    PROVE  WorkInOrder(t)
<1>1. AtWork(t) = t.todo /\ AtWork(t) \subseteq AtWork(s)
  BY DEF AtWork
<1> QED
  BY <1>1 DEF WorkInOrder

LEMMA AtHomeGlue ==
    ASSUME AtHome, BlobsAtHome', NEW c \in Clients, Others(c), WorkInOrder(req'[c])
    PROVE  AtHome'
<1>1. \A d \in Clients : WorkInOrder(req'[d])
  BY DEF AtHome, Others
<1>2. (\A d \in Clients : WorkInOrder(req[d]))'
  BY <1>1 DEF WorkInOrder, AtWork, AtPlace, Names, Targeted, Source, Target, NewPath
<1> QED
  BY <1>2 DEF AtHome

LEMMA BlobsStay ==
    ASSUME BlobsAtHome, images' = images
    PROVE  BlobsAtHome'
BY DEF BlobsAtHome, Has, AtPlace, Names, Targeted, Source, Target, NewPath

LEMMA BlobsStaySetsTags ==
    ASSUME StoreTypeOK, BlobsAtHome, NEW p \in Paths, NEW t \in Tags, AtPlace(p, t), SetsTags(p, t)
    PROVE  BlobsAtHome'
<1>1. \A q \in Paths : images'[q] # NoBlob =>
          images'[q].photo = Home[q] /\ AtPlace(q, images'[q].tags)
  BY SetsTagsEffect DEF BlobsAtHome
<1> QED
  BY <1>1 DEF BlobsAtHome, Has, AtPlace, Names, Targeted, Source, Target, NewPath

LEMMA BlobsStayCopiesTo ==
    ASSUME NeverMixed, StoreTypeOK, BlobsAtHome, NEW r \in Renames, NEW p \in Source(r),
           CopiesTo(p, NewPath(r, p))
    PROVE  BlobsAtHome'
<1> DEFINE q == NewPath(r, p)
<1>1. p \in Paths /\ q \in Paths /\ q \in Targeted
  BY NewPathElsewhere DEF Source
<1>2. Home[q] = Home[p] /\ images[p].photo = Home[p]
  BY <1>1 DEF NeverMixed, BlobsAtHome, CopiesTo
<1>3. AtPlace(q, EmptyTags)
  BY <1>1 DEF AtPlace, EmptyTags
<1>4. \A o \in Paths : images'[o] # NoBlob =>
          images'[o].photo = Home[o] /\ AtPlace(o, images'[o].tags)
  <2> HIDE DEF q
  <2> SUFFICES ASSUME NEW o \in Paths, images'[o] # NoBlob
               PROVE  images'[o].photo = Home[o] /\ AtPlace(o, images'[o].tags)
    OBVIOUS
  <2>0. CopiesTo(p, q)
    BY DEF q
  <2>1. CASE o = q
    BY <1>1, <1>2, <1>3, <2>0, <2>1, CopiesToEffect
  <2>2. CASE o # q
    <3>1. images'[o] = images[o]
      BY <1>1, <2>0, <2>2, CopiesToEffect
    <3> QED
      BY <3>1 DEF BlobsAtHome, Has
  <2> QED
    BY <2>1, <2>2
<1> QED
  BY <1>4 DEF BlobsAtHome, Has, AtPlace, Names, Targeted, Source, Target, NewPath

LEMMA BlobsStayDrops ==
    ASSUME StoreTypeOK, BlobsAtHome, NEW p \in Paths, Drops(p)
    PROVE  BlobsAtHome'
<1>1. \A q \in Paths : images'[q] # NoBlob =>
          images'[q].photo = Home[q] /\ AtPlace(q, images'[q].tags)
  BY DropsEffect DEF BlobsAtHome, Has
<1> QED
  BY <1>1 DEF BlobsAtHome, Has, AtPlace, Names, Targeted, Source, Target, NewPath

LEMMA EndedAtHome ==
    ASSUME AtHome, BlobsAtHome', NEW c \in Clients, NEW status, Ended(c, status)
    PROVE  AtHome'
BY WorkIdle, AtHomeGlue DEF Ended

LEMMA ShrinksAtHome ==
    ASSUME AtHome, BlobsAtHome', NEW c \in Clients, req[c].pc # "tags",
           NEW todo, todo \subseteq req[c].todo, NEW job, NEW failed,
           Goes(c, "each", req[c].rows, todo, job, failed)
    PROVE  AtHome'
<1>1. WorkInOrder(req[c])
  BY DEF AtHome
<1>2. WorkInOrder(req'[c])
  BY <1>1, WorkShrinks DEF Goes
<1> QED
  BY <1>2, AtHomeGlue DEF Goes

LEMMA GivesUpAtHome ==
    ASSUME AtHome, BlobsAtHome', NEW c \in Clients, req[c].pc # "tags",
           NEW todo, todo \subseteq req[c].todo, GivesUp(c, todo)
    PROVE  AtHome'
BY EndedAtHome, ShrinksAtHome DEF GivesUp

LEMMA FindAtHome ==
    ASSUME TypeInv, AtHome, NEW c \in Clients, NEW kind, NEW query,
           NEW s1 \in Statuses, NEW s2 \in Statuses, AzureFind(c, kind, query, s1, s2),
           req[c].op \in Renames => query = RenameQuery(req[c].op)
    PROVE  AtHome'
<1>1. /\ req[c].pc = "find" /\ images' = images
      /\ \/ Ended(c, s1)
         \/ Ended(c, s2)
         \/ Goes(c, "tags", MatchingRows(query), req[c].todo, req[c].job, req[c].failed)
  BY AzureFindSteps DEF At
<1>2. BlobsAtHome' /\ BlobsAtHome /\ WorkInOrder(req[c])
  BY <1>1, BlobsStay DEF AtHome
<1>3. CASE Goes(c, "tags", MatchingRows(query), req[c].todo, req[c].job, req[c].failed)
  <2> DEFINE t == req'[c]
  <2>1. /\ t.op = req[c].op /\ t.pc = "tags" /\ t.rows = MatchingRows(query)
        /\ t.todo = req[c].todo /\ Others(c)
    BY <1>3 DEF Goes
  <2> HIDE DEF t
  <2>2. AtWork(t) = t.todo /\ AtWork(t) = AtWork(req[c])
    BY <1>1, <2>1 DEF AtWork
  <2>3. \A row \in t.rows : \E p \in Paths :
           row = <<p, images[p].row>> /\ Has(p) /\ Satisfies(images[p].tags, query)
    BY <2>1 DEF MatchingRows
  <2>4. \A row, other \in t.rows : row[1] = other[1] => row = other
    BY <2>3
  <2>5. ASSUME t.op \in Renames
        PROVE  t.todo = {} /\ \A row \in t.rows : row[1] \in Source(t.op)
    <3>1. query = RenameQuery(t.op) /\ t.todo = {}
      BY <1>1, <1>2, <2>1, <2>5 DEF WorkInOrder
    <3>2. \A p \in Paths : Has(p) => AtPlace(p, images[p].tags)
      BY <1>2 DEF BlobsAtHome
    <3>3. \A p \in Paths : Has(p) /\ Satisfies(images[p].tags, RenameQuery(t.op)) => p \in Source(t.op)
      BY <2>5, <3>2, FoundInSource
    <3> QED
      BY <2>3, <3>1, <3>3
  <2>6. WorkInOrder(t)
    BY <1>2, <2>1, <2>2, <2>4, <2>5 DEF WorkInOrder
  <2> QED
    BY <1>2, <2>1, <2>6, AtHomeGlue DEF t
<1> QED
  BY <1>1, <1>2, <1>3, EndedAtHome

LEMMA FetchAtHome ==
    ASSUME TypeInv, AtHome, NEW c \in Clients, NEW kind, NEW error \in Statuses,
           AzureFetch(c, kind, error)
    PROVE  AtHome'
<1>1. /\ req[c].pc = "tags" /\ images' = images
      /\ \/ Ended(c, error)
         \/ \E r \in req[c].rows :
              /\ Has(r[1]) /\ r[1] \in Paths
              /\ Goes(c, IF req[c].rows = {r} THEN "each" ELSE "tags", req[c].rows \ {r},
                      req[c].todo \cup {RowJob(r)}, req[c].job, req[c].failed)
  BY AzureFetchSteps DEF At
<1>2. BlobsAtHome' /\ BlobsAtHome /\ WorkInOrder(req[c])
  BY <1>1, BlobsStay DEF AtHome
<1>3. ASSUME NEW r \in req[c].rows, Has(r[1]), r[1] \in Paths,
             Goes(c, IF req[c].rows = {r} THEN "each" ELSE "tags", req[c].rows \ {r},
                  req[c].todo \cup {RowJob(r)}, req[c].job, req[c].failed)
      PROVE  AtHome'
  <2> DEFINE t == req'[c]
             n == RowJob(r)
  <2>1. /\ t.op = req[c].op /\ t.pc = IF req[c].rows = {r} THEN "each" ELSE "tags"
        /\ t.rows = req[c].rows \ {r} /\ t.todo = req[c].todo \cup {n} /\ Others(c)
    BY <1>3 DEF Goes
  <2>2. n.path = r[1] /\ AtPlace(n.path, n.tags)
    BY <1>2, <1>3 DEF RowJob, BlobsAtHome
  <2> HIDE DEF t, n
  <2>3. AtWork(t) = t.todo /\ AtWork(req[c]) = req[c].todo
    BY <1>1, <2>1 DEF AtWork
  <2>4. \A j \in AtWork(t) : AtPlace(j.path, j.tags)
    BY <1>2, <2>1, <2>2, <2>3 DEF WorkInOrder
  <2>5. ASSUME t.op \in Renames
        PROVE  /\ \A row \in t.rows : row[1] \in Source(t.op)
               /\ \A j \in AtWork(t) : j.path \in Source(t.op)
               /\ t.pc # "tags" => t.rows = {}
               /\ \A row, other \in t.rows : row[1] = other[1] => row = other
               /\ \A row \in t.rows, j \in t.todo : row[1] # j.path
               /\ \A j, k \in AtWork(t) : j.path = k.path => j = k
    <3>1. /\ \A row \in req[c].rows : row[1] \in Source(t.op)
          /\ \A j \in req[c].todo : j.path \in Source(t.op)
          /\ \A row, other \in req[c].rows : row[1] = other[1] => row = other
          /\ \A row \in req[c].rows, j \in req[c].todo : row[1] # j.path
          /\ \A j, k \in req[c].todo : j.path = k.path => j = k
      BY <1>2, <2>1, <2>3, <2>5 DEF WorkInOrder
    <3>2. t.pc # "tags" => t.rows = {}
      BY <2>1
    <3>3. \A row \in t.rows : row \in req[c].rows /\ row[1] # r[1]
      BY <1>3, <2>1, <3>1
    <3> QED
      BY <1>3, <2>1, <2>2, <2>3, <3>1, <3>2, <3>3
  <2>6. WorkInOrder(t)
    BY <2>1, <2>4, <2>5 DEF WorkInOrder
  <2> QED
    BY <1>2, <2>1, <2>6, AtHomeGlue DEF t
<1> QED
  BY <1>1, <1>2, <1>3, EndedAtHome

LEMMA BrowseFetchAtHome ==
    ASSUME TypeInv, AtHome, NEW c \in Clients, AzureBrowseFetch(c)
    PROVE  AtHome'
<1>1. /\ At(c, "browseCollections", "tags") /\ images' = images
      /\ \/ Ended(c, "200")
         \/ \E r \in req[c].rows, pc \in {"tags", "each"}, rows \in SUBSET req[c].rows,
               todo \in SUBSET Jobs, failed \in BOOLEAN :
              /\ Has(r[1]) /\ r[1] \in Paths
              /\ todo \subseteq req[c].todo \cup {RowJob(r)}
              /\ Goes(c, pc, rows, todo, req[c].job, failed)
  BY AzureBrowseFetchSteps
<1>2. BlobsAtHome' /\ BlobsAtHome /\ WorkInOrder(req[c]) /\ req[c].pc = "tags"
      /\ req[c].op \notin Renames
  BY <1>1, BlobsStay DEF AtHome, At, Renames, RenameKinds
<1>3. ASSUME NEW r \in req[c].rows, NEW pc \in {"tags", "each"}, NEW rows, NEW todo, NEW failed,
             Has(r[1]), r[1] \in Paths, todo \subseteq req[c].todo \cup {RowJob(r)},
             Goes(c, pc, rows, todo, req[c].job, failed)
      PROVE  AtHome'
  <2> DEFINE t == req'[c]
             n == RowJob(r)
  <2>1. /\ t.op = req[c].op /\ t.pc \in {"tags", "each"}
        /\ t.todo \subseteq req[c].todo \cup {n} /\ Others(c)
    BY <1>3 DEF Goes
  <2>2. n.path = r[1] /\ AtPlace(n.path, n.tags)
    BY <1>2, <1>3 DEF RowJob, BlobsAtHome
  <2> HIDE DEF t, n
  <2>3. AtWork(t) = t.todo /\ AtWork(req[c]) = req[c].todo
    BY <1>2, <2>1 DEF AtWork
  <2>4. \A j \in AtWork(t) : AtPlace(j.path, j.tags)
    BY <1>2, <2>1, <2>2, <2>3 DEF WorkInOrder
  <2>5. WorkInOrder(t)
    BY <1>2, <2>1, <2>4 DEF WorkInOrder
  <2> QED
    BY <1>2, <2>1, <2>5, AtHomeGlue DEF t
<1> QED
  BY <1>1, <1>2, <1>3, EndedAtHome

LEMMA WriteBackAtHome ==
    ASSUME TypeInv, AtHome, NEW c \in Clients, NEW kind, WriteBack(c, kind)
    PROVE  AtHome'
<1>1. At(c, kind, "each") /\ req[c].pc = "each"
  BY WriteBackSteps DEF At
<1>2. PICK j \in req[c].todo : \E t \in {Deleted(j.tags), CollectionCleared(j.tags)} :
                /\ j \in Jobs /\ j.path \in Paths
                /\ images' = images \/ SetsTags(j.path, t)
                /\ \/ \E status \in Statuses : Ended(c, status)
                   \/ \E failed \in BOOLEAN :
                        Goes(c, "each", req[c].rows, req[c].todo \ {j}, req[c].job, failed)
  BY WriteBackSteps
<1>3. AtPlace(j.path, j.tags)
  BY <1>1, <1>2 DEF AtHome, WorkInOrder, AtWork
<1>4. BlobsAtHome'
  BY <1>2, <1>3, BlobsStay, BlobsStaySetsTags, WrittenBackPlace DEF AtHome, TypeInv
<1>5. req[c].todo \ {j} \subseteq req[c].todo
  OBVIOUS
<1> QED
  BY <1>1, <1>2, <1>4, <1>5, EndedAtHome, ShrinksAtHome

LEMMA CopyAtHome ==
    ASSUME NeverMixed, TypeInv, AtHome, NEW c \in Clients, NEW kind \in RenameKinds,
           AzureRenameCopy(c, kind)
    PROVE  AtHome'
<1>1. Renaming(c) /\ req[c].pc = "each"
  BY AzureRenameCopySteps
<1> DEFINE q(j) == NewPath(req[c].op, j.path)
<1>2. PICK j \in req[c].todo :
          /\ j \in Jobs /\ j.path \in Paths /\ q(j) \in Paths
          /\ \/ /\ CopiesTo(j.path, q(j))
                /\ Goes(c, "retag", req[c].rows, req[c].todo \ {j}, j, req[c].failed)
             \/ /\ images' = images \/ CopiesTo(j.path, q(j))
                /\ GivesUp(c, req[c].todo \ {j})
  BY AzureRenameCopySteps
<1>3. WorkInOrder(req[c]) /\ req[c].op \in Renames /\ AtWork(req[c]) = req[c].todo
  BY <1>1 DEF AtHome, Renaming, AtWork
<1>4. j.path \in Source(req[c].op)
  BY <1>2, <1>3 DEF WorkInOrder
<1>5. BlobsAtHome'
  BY <1>2, <1>3, <1>4, BlobsStay, BlobsStayCopiesTo DEF AtHome, TypeInv
<1>6. CASE Goes(c, "retag", req[c].rows, req[c].todo \ {j}, j, req[c].failed)
  <2> DEFINE t == req'[c]
  <2>1. /\ t.op = req[c].op /\ t.pc = "retag" /\ t.rows = req[c].rows
        /\ t.todo = req[c].todo \ {j} /\ t.job = j /\ Others(c)
    BY <1>6 DEF Goes
  <2> HIDE DEF t
  <2>2. AtWork(t) = req[c].todo
    BY <1>2, <2>1 DEF AtWork
  <2>3. req[c].rows = {}
    BY <1>1, <1>3 DEF WorkInOrder
  <2>4. WorkInOrder(t)
    BY <1>3, <2>1, <2>2, <2>3 DEF WorkInOrder
  <2> QED
    BY <1>5, <2>1, <2>4, AtHomeGlue DEF t
<1>7. CASE GivesUp(c, req[c].todo \ {j})
  <2>1. req[c].todo \ {j} \subseteq req[c].todo
    OBVIOUS
  <2> QED
    BY <1>1, <1>5, <1>7, <2>1, GivesUpAtHome
<1> QED
  BY <1>2, <1>6, <1>7

LEMMA RetagAtHome ==
    ASSUME TypeInv, AtHome, NEW c \in Clients, NEW kind \in RenameKinds, RenameRetag(c, kind)
    PROVE  AtHome'
<1> DEFINE j == req[c].job
           q == NewPath(req[c].op, j.path)
           t == NewTags(req[c].op, j)
<1>1. /\ Renaming(c) /\ req[c].pc = "retag" /\ j \in Jobs /\ q \in Paths /\ t \in Tags
      /\ images' = images \/ SetsTags(q, t)
      /\ \/ Goes(c, "delete", req[c].rows, req[c].todo, j, req[c].failed)
         \/ GivesUp(c, req[c].todo)
  BY RenameRetagSteps
<1>2. WorkInOrder(req[c]) /\ req[c].op \in Renames /\ j \in AtWork(req[c])
  BY <1>1 DEF AtHome, Renaming, AtWork
<1>3. AtPlace(q, t)
  BY <1>1, <1>2, NewTagsPlace DEF WorkInOrder
<1>4. BlobsAtHome'
  BY <1>1, <1>3, BlobsStay, BlobsStaySetsTags DEF AtHome, TypeInv
<1>5. CASE Goes(c, "delete", req[c].rows, req[c].todo, j, req[c].failed)
  <2> DEFINE s == req'[c]
  <2>1. /\ s.op = req[c].op /\ s.pc = "delete" /\ s.rows = req[c].rows
        /\ s.todo = req[c].todo /\ s.job = req[c].job /\ Others(c)
    BY <1>5 DEF Goes
  <2> HIDE DEF s
  <2>2. AtWork(s) = AtWork(req[c])
    BY <1>1, <2>1 DEF AtWork
  <2>3. WorkInOrder(s)
    BY <1>1, <1>2, <2>1, <2>2 DEF WorkInOrder
  <2> QED
    BY <1>4, <2>1, <2>3, AtHomeGlue DEF s
<1> QED
  BY <1>1, <1>4, <1>5, GivesUpAtHome

LEMMA DeleteAtHome ==
    ASSUME TypeInv, AtHome, NEW c \in Clients, NEW kind \in RenameKinds,
           AzureRenameDelete(c, kind)
    PROVE  AtHome'
<1>1. /\ req[c].pc = "delete" /\ req[c].job.path \in Paths
      /\ images' = images \/ Drops(req[c].job.path)
      /\ \/ \E status : Ended(c, status)
         \/ \E job : Goes(c, "each", req[c].rows, req[c].todo, job, req[c].failed)
         \/ GivesUp(c, req[c].todo)
  BY AzureRenameDeleteSteps
<1>2. BlobsAtHome'
  BY <1>1, BlobsStay, BlobsStayDrops DEF AtHome, TypeInv
<1> QED
  BY <1>1, <1>2, EndedAtHome, ShrinksAtHome, GivesUpAtHome

\* a query, and what it is for a rename
Finds(c) ==
    \E kind : \E query : \E s1, s2 \in Statuses :
        /\ AzureFind(c, kind, query, s1, s2)
        /\ req[c].op \in Renames =>
             query = RenameQuery(req[c].op) /\ s1 # "200" /\ s2 # "200"

LEMMA StepCases ==
    ASSUME TypeInv, NEW c \in Clients, AzureStep(c)
    PROVE  \/ Finds(c)
           \/ \E kind : AzureFetch(c, kind, "500")
           \/ AzureBrowseFetch(c)
           \/ \E kind : WriteBack(c, kind) /\ req[c].op \notin Renames
           \/ \E kind \in RenameKinds : AzureRenameCopy(c, kind)
           \/ \E kind \in RenameKinds : RenameRetag(c, kind)
           \/ \E kind \in RenameKinds : AzureRenameDelete(c, kind)
<1>0. "200" \in Statuses /\ "404" \in Statuses /\ "500" \in Statuses /\ "404" # "200" /\ "500" # "200"
  BY DEF Statuses
<1>1. ASSUME NEW kind \in RenameKinds, AzureFind(c, kind, RenameQuery(req[c].op), "404", "500")
      PROVE  Finds(c)
  BY <1>0, <1>1 DEF Finds
<1>2. ASSUME NEW kind, kind \notin RenameKinds, NEW query, NEW s1 \in Statuses, NEW s2 \in Statuses,
             AzureFind(c, kind, query, s1, s2)
      PROVE  Finds(c)
  <2>1. req[c].op \notin Renames
    BY <1>2, AtType DEF AzureFind, TypeInv, Renames
  <2> QED
    BY <1>2, <2>1 DEF Finds
<1>3. CASE AzureRename(c, "renameCollection") \/ AzureRename(c, "renameAlbum")
  <2>1. PICK kind \in RenameKinds : AzureRename(c, kind)
    BY <1>3 DEF RenameKinds
  <2> QED
    BY <1>1, <2>1 DEF AzureRename
<1>4. ASSUME NEW kind, kind \notin RenameKinds, WriteBack(c, kind)
      PROVE  req[c].op \notin Renames
  BY <1>4, AtType DEF WriteBack, TypeInv, Renames
<1>5. "softDeleteCollection" \notin RenameKinds /\ "browseCollections" \notin RenameKinds
  BY DEF RenameKinds
<1>6. CASE AzureSoftDelete(c)
  BY <1>0, <1>2, <1>4, <1>5, <1>6 DEF AzureSoftDelete
<1>7. CASE AzureBrowse(c)
  BY <1>0, <1>2, <1>4, <1>5, <1>7, NoTagListFinds DEF AzureBrowse
<1> QED
  BY <1>3, <1>6, <1>7 DEF AzureStep

LEMMA StepAtHome ==
    ASSUME NeverMixed, TypeInv, AtHome, NEW c \in Clients, AzureStep(c)
    PROVE  AtHome'
<1>1. CASE Finds(c)
  BY <1>1, FindAtHome DEF Finds
<1>2. CASE \E kind : AzureFetch(c, kind, "500")
  BY <1>2, FetchAtHome DEF Statuses
<1> QED
  BY <1>1, <1>2, StepCases, BrowseFetchAtHome, WriteBackAtHome, CopyAtHome, RetagAtHome,
     DeleteAtHome

LEMMA SubmitAtHome ==
    ASSUME TypeInv, AtHome, NEW c \in Clients, NEW r \in Requests, Submit(c, r)
    PROVE  AtHome'
<1> DEFINE s == req'[c]
<1>1. /\ images' = images /\ Others(c)
      /\ s.op = r /\ s.pc \in {"find", "get"} /\ s.rows = {} /\ s.todo = {}
      /\ r \in Renames => s.pc = "find"
  BY SubmitSteps
<1>2. BlobsAtHome'
  BY <1>1, BlobsStay DEF AtHome
<1> HIDE DEF s
<1>3. AtWork(s) = {}
  BY <1>1 DEF AtWork
<1>4. WorkInOrder(s)
  BY <1>1, <1>3 DEF WorkInOrder
<1> QED
  BY <1>1, <1>2, <1>4, AtHomeGlue DEF s

LEMMA StutterAtHome ==
    ASSUME AtHome, UNCHANGED vars
    PROVE  AtHome'
<1>1. BlobsAtHome' /\ \A d \in Clients : WorkInOrder(req'[d])
  BY BlobsStay DEF AtHome, vars
<1>2. (\A d \in Clients : WorkInOrder(req[d]))'
  BY <1>1 DEF WorkInOrder, AtWork, AtPlace, Names, Targeted, Source, Target, NewPath
<1> QED
  BY <1>1, <1>2 DEF AtHome

LEMMA InitAtHome ==
    ASSUME NeverMixed, AzureInit
    PROVE  AtHome
<1>1. images \in Libraries /\ \A c \in Clients : req[c] = Idle
  BY DEF AzureInit, StoreInit
<1>2. BlobsAtHome
  BY <1>1, NamedAtPlace DEF BlobsAtHome, Has, NeverMixed
<1>3. \A c \in Clients : WorkInOrder(req[c])
  BY <1>1, WorkIdle
<1> QED
  BY <1>2, <1>3 DEF AtHome

LEMMA NextAtHome ==
    ASSUME NeverMixed, TypeInv, AtHome, [AzureNext]_azureVars
    PROVE  AtHome'
<1>1. ASSUME NEW c \in Clients, CutOff(c)
      PROVE  AtHome'
  BY <1>1, CutOffSteps, BlobsStay, EndedAtHome DEF AtHome
<1> QED
  BY <1>1, StepAtHome, SubmitAtHome, StutterAtHome DEF AzureNext, azureVars, Finished

-----------------------------------------------------------------------------
(* No photo is lost.                                                       *)

\* one step on the way from one path to another
LEMMA FurtherAhead ==
    ASSUME OneWay, NEW p \in Paths, NEW q \in Paths, NEW o \in Paths, Ahead(p, q), Ahead(q, o)
    PROVE  Ahead(p, o)
BY DEF Ahead, OneWay

LEMMA CopyAhead ==
    ASSUME OneWay, NeverMixed, NEW r \in Renames, NEW p \in Source(r), Has(NewPath(r, p))
    PROVE  Ahead(p, NewPath(r, p))
BY DEF Ahead, OneWay, NeverMixed

\* What a step may take away from the container: only what a rename that has
\* copied it deletes.
LEMMA StepKeeps ==
    ASSUME TypeInv, NEW c \in Clients, AzureStep(c)
    PROVE  \/ \A q \in Paths : Has(q) => images'[q] # NoBlob
           \/ /\ Renaming(c) /\ req[c].pc = "delete" /\ req[c].job.path \in Paths
              /\ \A q \in Paths : Has(q) /\ q # req[c].job.path => images'[q] # NoBlob
<1>0. StoreTypeOK
  BY DEF TypeInv
<1>1. CASE Finds(c)
  BY <1>1, AzureFindSteps DEF Finds, Has
<1>2. CASE \E kind : AzureFetch(c, kind, "500")
  BY <1>2, AzureFetchSteps DEF Has, Statuses
<1>3. CASE AzureBrowseFetch(c)
  BY <1>3, AzureBrowseFetchSteps DEF Has
<1>4. ASSUME NEW kind, WriteBack(c, kind)
      PROVE  \A q \in Paths : Has(q) => images'[q] # NoBlob
  <2>1. PICK j \in req[c].todo : \E t \in {Deleted(j.tags), CollectionCleared(j.tags)} :
                j \in Jobs /\ j.path \in Paths /\ (images' = images \/ SetsTags(j.path, t))
    BY <1>4, WriteBackSteps
  <2>2. PICK t \in Tags : images' = images \/ SetsTags(j.path, t)
    BY <2>1, NewTagsValuesType DEF Jobs
  <2> QED
    BY <1>0, <2>1, <2>2, SetsTagsEffect DEF Has
<1>5. ASSUME NEW kind \in RenameKinds, AzureRenameCopy(c, kind)
      PROVE  \A q \in Paths : Has(q) => images'[q] # NoBlob
  <2>1. PICK p \in Paths, q \in Paths : images' = images \/ CopiesTo(p, q)
    BY <1>5, AzureRenameCopySteps
  <2> QED
    BY <1>0, <2>1, CopiesToEffect DEF Has
<1>6. ASSUME NEW kind \in RenameKinds, RenameRetag(c, kind)
      PROVE  \A q \in Paths : Has(q) => images'[q] # NoBlob
  <2>1. PICK q \in Paths, t \in Tags : images' = images \/ SetsTags(q, t)
    BY <1>6, RenameRetagSteps
  <2> QED
    BY <1>0, <2>1, SetsTagsEffect DEF Has
<1>7. ASSUME NEW kind \in RenameKinds, AzureRenameDelete(c, kind)
      PROVE  /\ Renaming(c) /\ req[c].pc = "delete" /\ req[c].job.path \in Paths
             /\ \A q \in Paths : Has(q) /\ q # req[c].job.path => images'[q] # NoBlob
  <2>1. /\ Renaming(c) /\ req[c].pc = "delete" /\ req[c].job.path \in Paths
        /\ images' = images \/ Drops(req[c].job.path)
    BY <1>7, AzureRenameDeleteSteps
  <2> QED
    BY <1>0, <2>1, DropsEffect DEF Has
<1> QED
  BY <1>1, <1>2, <1>3, <1>4, <1>5, <1>6, <1>7, StepCases

\* whatever is ahead of a path stays so, or something further ahead does
LEMMA AheadKept ==
    ASSUME OneWay, TypeInv, Copied, NEW c \in Clients, AzureStep(c),
           NEW p \in Paths, \E q \in Paths : Ahead(p, q)
    PROVE  \E q \in Paths : Ahead(p, q)'
<1>1. PICK q \in Paths : Ahead(p, q)
  OBVIOUS
<1>2. CASE images'[q] # NoBlob
  BY <1>1, <1>2 DEF Ahead, Has
<1>3. CASE images'[q] = NoBlob
  <2>1. /\ Renaming(c) /\ req[c].pc = "delete" /\ q = req[c].job.path
        /\ \A o \in Paths : Has(o) /\ o # q => images'[o] # NoBlob
    BY <1>1, <1>3, StepKeeps DEF Ahead
  <2>2. PICK o \in Paths : Ahead(q, o)
    BY <2>1 DEF Copied
  <2>3. Ahead(p, o) /\ o # q
    BY <1>1, <2>2, FurtherAhead DEF Ahead, OneWay
  <2>4. images'[o] # NoBlob
    BY <2>1, <2>3 DEF Ahead
  <2> QED
    BY <2>3, <2>4 DEF Ahead, Has
<1> QED
  BY <1>2, <1>3

\* the only step that gets a rename to its deletion is the retagging of the
\* copy, which is there then
LEMMA ReachesDelete ==
    ASSUME TypeInv, NEW c \in Clients, AzureStep(c), req'[c].pc = "delete"
    PROVE  LET j == req[c].job
               q == NewPath(req[c].op, j.path)
               t == NewTags(req[c].op, j)
           IN  /\ Renaming(c) /\ req[c].pc = "retag" /\ CallWorks
               /\ j \in Jobs /\ j.path \in Paths /\ q \in Paths /\ t \in Tags
               /\ SetsTags(q, t)
               /\ Goes(c, "delete", req[c].rows, req[c].todo, j, req[c].failed)
<1>1. \A status : ~Ended(c, status)
  BY DEF Ended, Idle
<1>2. \A pc, rows, todo, job, failed : Goes(c, pc, rows, todo, job, failed) => pc = "delete"
  BY DEF Goes
<1>3. \A todo : ~GivesUp(c, todo)
  BY <1>1, <1>2 DEF GivesUp
<1>4. ~Finds(c)
  BY <1>1, <1>2, AzureFindSteps DEF Finds
<1>5. ASSUME NEW kind
      PROVE  ~AzureFetch(c, kind, "500")
  <2> SUFFICES ASSUME AzureFetch(c, kind, "500")
               PROVE  FALSE
    OBVIOUS
  <2>1. "500" \in Statuses
    BY DEF Statuses
  <2>2. PICK r \in req[c].rows :
              Goes(c, IF req[c].rows = {r} THEN "each" ELSE "tags", req[c].rows \ {r},
                      req[c].todo \cup {RowJob(r)}, req[c].job, req[c].failed)
    BY <1>1, <2>1, AzureFetchSteps
  <2>3. (IF req[c].rows = {r} THEN "each" ELSE "tags") = "delete"
    BY <1>2, <2>2
  <2> QED
    BY <2>3
<1>6. ~AzureBrowseFetch(c)
  BY <1>1, <1>2, AzureBrowseFetchSteps
<1>7. \A kind : ~WriteBack(c, kind)
  BY <1>1, <1>2, WriteBackSteps
<1>8. \A kind \in RenameKinds : ~AzureRenameCopy(c, kind)
  BY <1>2, <1>3, AzureRenameCopySteps
<1>9. \A kind \in RenameKinds : ~AzureRenameDelete(c, kind)
  BY <1>1, <1>2, <1>3, AzureRenameDeleteSteps
<1>10. PICK kind \in RenameKinds : RenameRetag(c, kind)
  BY <1>4, <1>5, <1>6, <1>7, <1>8, <1>9, StepCases
<1> QED
  BY <1>3, <1>10, RenameRetagSteps

LEMMA StepMoves ==
    ASSUME TypeInv, NEW c \in Clients, AzureStep(c)
    PROVE  Others(c) /\ req'[c].op \in {req[c].op, None}
<1>1. \A status : Ended(c, status) => Others(c) /\ req'[c].op = None
  BY DEF Ended, Idle
<1>2. \A pc, rows, todo, job, failed :
        Goes(c, pc, rows, todo, job, failed) => Others(c) /\ req'[c].op = req[c].op
  BY DEF Goes
<1>3. \A todo : GivesUp(c, todo) => Others(c) /\ req'[c].op \in {req[c].op, None}
  BY <1>1, <1>2 DEF GivesUp
<1>4. CASE Finds(c)
  BY <1>1, <1>2, <1>4, AzureFindSteps DEF Finds
<1>5. CASE \E kind : AzureFetch(c, kind, "500")
  BY <1>1, <1>2, <1>5, AzureFetchSteps DEF Statuses
<1>6. CASE AzureBrowseFetch(c)
  BY <1>1, <1>2, <1>6, AzureBrowseFetchSteps
<1>7. CASE \E kind : WriteBack(c, kind)
  BY <1>1, <1>2, <1>7, WriteBackSteps
<1>8. CASE \E kind \in RenameKinds : AzureRenameCopy(c, kind)
  BY <1>2, <1>3, <1>8, AzureRenameCopySteps
<1>9. CASE \E kind \in RenameKinds : RenameRetag(c, kind)
  BY <1>2, <1>3, <1>9, RenameRetagSteps
<1>10. CASE \E kind \in RenameKinds : AzureRenameDelete(c, kind)
  BY <1>1, <1>2, <1>3, <1>10, AzureRenameDeleteSteps
<1> QED
  BY <1>4, <1>5, <1>6, <1>7, <1>8, <1>9, <1>10, StepCases

LEMMA JobAtDelete ==
    ASSUME TypeInv, NEW c \in Clients, req[c].pc \in {"retag", "delete"}
    PROVE  req[c].job \in Jobs /\ req[c].job.path \in Paths
BY DEF TypeInv, RequestsOK, RequestTypeOK, AtHand, RequestState, Jobs

LEMMA StepCopied ==
    ASSUME OneWay, NeverMixed, TypeInv, AtHome, Copied, NEW c \in Clients, AzureStep(c)
    PROVE  Copied'
<1>1. Others(c) /\ req'[c].op \in {req[c].op, None}
  BY StepMoves
<1>2. ASSUME NEW d \in Clients, Renaming(d)', req'[d].pc = "delete"
      PROVE  \E p \in Paths : p = req'[d].job.path /\ \E q \in Paths : Ahead(p, q)'
  <2>1. CASE d # c
    <3>1. req'[d] = req[d] /\ Renaming(d) /\ req[d].pc = "delete"
      BY <1>1, <1>2, <2>1 DEF Others, Renaming
    <3>2. req[d].job.path \in Paths /\ \E q \in Paths : Ahead(req[d].job.path, q)
      BY <3>1, JobAtDelete DEF Copied
    <3>3. PICK p \in Paths : p = req[d].job.path
      BY <3>2
    <3>4. \E q \in Paths : Ahead(p, q)'
      BY <3>2, <3>3, AheadKept
    <3> QED
      BY <3>1, <3>3, <3>4
  <2>2. CASE d = c
    <3> DEFINE j == req[c].job
    <3>1. /\ Renaming(c) /\ req[c].pc = "retag" /\ j.path \in Paths
          /\ NewPath(req[c].op, j.path) \in Paths
          /\ \E t \in Tags : SetsTags(NewPath(req[c].op, j.path), t)
          /\ req'[c].job = j
      BY <1>2, <2>2, ReachesDelete DEF Goes
    <3>2. j.path \in Source(req[c].op) /\ req[c].op \in Renames
      BY <3>1 DEF AtHome, WorkInOrder, AtWork, Renaming
    <3>3. PICK p \in Paths, q \in Paths : p = j.path /\ q = NewPath(req[c].op, p)
      BY <3>1
    <3>4. Ahead(p, q)
      BY <3>1, <3>2, <3>3, CopyAhead DEF SetsTags
    <3>5. images'[q] # NoBlob
      BY <3>1, <3>3, <3>4, SetsTagsEffect DEF TypeInv, Ahead
    <3>6. Ahead(p, q)'
      BY <3>4, <3>5 DEF Ahead, Has
    <3> QED
      BY <2>2, <3>1, <3>3, <3>6
  <2> QED
    BY <2>1, <2>2
<1>3. \A d \in Clients : (Renaming(d) /\ req[d].pc = "delete")' =>
          \E q \in Paths : Ahead(req[d].job.path, q)'
  BY <1>2 DEF Ahead
<1> QED
  BY <1>3 DEF Copied

\* a step of a client that changes no blob and does not delete next
LEMMA IdleCopied ==
    ASSUME Copied, images' = images, NEW c \in Clients, Others(c), req'[c].pc # "delete"
    PROVE  Copied'
BY DEF Copied, Others, Renaming, Ahead, Has

LEMMA NextCopied ==
    ASSUME OneWay, NeverMixed, TypeInv, AtHome, Copied, [AzureNext]_azureVars
    PROVE  Copied'
<1>1. ASSUME NEW c \in Clients, CutOff(c)
      PROVE  Copied'
  BY <1>1, CutOffSteps, IdleCopied DEF Ended, Idle
<1>2. ASSUME NEW c \in Clients, NEW r \in Requests, Submit(c, r)
      PROVE  Copied'
  BY <1>2, SubmitSteps, IdleCopied
<1>3. CASE UNCHANGED vars
  BY <1>3 DEF vars, Copied, Renaming, Ahead, Has
<1> QED
  BY <1>1, <1>2, <1>3, StepCopied DEF AzureNext, azureVars, Finished

LEMMA NextKeepsPhotos ==
    ASSUME OneWay, TypeInv, AtHome, AtHome', Copied, NoPhotoLost, [AzureNext]_azureVars
    PROVE  NoPhotoLost'
<1>1. CASE images' = images
  BY <1>1 DEF NoPhotoLost, Has
<1>2. ASSUME NEW c \in Clients, AzureStep(c), NEW ph \in Photos
      PROVE  \E p \in Paths : images'[p] # NoBlob /\ images'[p].photo = ph
  <2>1. PICK p \in Paths : Has(p) /\ Home[p] = ph
    BY DEF NoPhotoLost, AtHome, BlobsAtHome
  <2>2. \A q \in Paths : images'[q] # NoBlob => images'[q].photo = Home[q]
    BY DEF AtHome, BlobsAtHome, Has
  <2>3. CASE images'[p] # NoBlob
    BY <2>1, <2>2, <2>3
  <2>4. CASE images'[p] = NoBlob
    <3>1. /\ Renaming(c) /\ req[c].pc = "delete" /\ p = req[c].job.path
          /\ \A q \in Paths : Has(q) /\ q # p => images'[q] # NoBlob
      BY <1>2, <2>1, <2>4, StepKeeps
    <3>2. PICK q \in Paths : Ahead(p, q)
      BY <3>1 DEF Copied
    <3>3. q # p
      BY <3>2 DEF Ahead, OneWay
    <3> QED
      BY <2>1, <2>2, <3>1, <3>2, <3>3 DEF Ahead
  <2> QED
    BY <2>3, <2>4
<1>3. ASSUME NEW c \in Clients, AzureStep(c)
      PROVE  NoPhotoLost'
  BY <1>2, <1>3 DEF NoPhotoLost, Has
<1> QED
  BY <1>1, <1>3, SubmitSteps, CutOffSteps DEF AzureNext, azureVars, vars, Finished

AzureSafe == AzureTypeInv /\ AtHome /\ Copied

LEMMA AzureSafeInit ==
    ASSUME NeverMixed, AzureInit
    PROVE  AzureSafe /\ NoPhotoLost
<1>1. images \in Libraries /\ \A c \in Clients : req[c] = Idle
  BY DEF AzureInit, StoreInit
<1>2. Copied
  BY <1>1 DEF Copied, Idle
<1>3. NoPhotoLost
  BY <1>1 DEF NoPhotoLost, NeverMixed, Has
<1> QED
  BY <1>2, <1>3, AzureInitType, InitAtHome DEF AzureSafe

LEMMA AzureSafeNext ==
    ASSUME OneWay, NeverMixed, AzureSafe, [AzureNext]_azureVars
    PROVE  AzureSafe'
BY AzureNextType, NextAtHome, NextCopied DEF AzureSafe, AzureTypeInv

\* On the production store no photo disappears, whether renames are repeated,
\* run at the same time, follow one another, fail between two requests or are
\* cut off, for any library, workload and number of clients, provided that
\* they take blobs one way only and never two photos to one path
\* (rename.go:76-101, azure.go:207-232).
THEOREM AzureRenamesLoseNoPhoto ==
    ASSUME OneWay, NeverMixed
    PROVE  AzureSpec => []NoPhotoLost
<1>1. AzureInit => AzureSafe /\ NoPhotoLost
  BY AzureSafeInit
<1>2. AzureSafe /\ NoPhotoLost /\ [AzureNext]_azureVars => (AzureSafe /\ NoPhotoLost)'
  BY AzureSafeNext, NextKeepsPhotos DEF AzureSafe, AzureTypeInv
<1> QED
  BY <1>1, <1>2, PTL DEF AzureSpec

-----------------------------------------------------------------------------
(* A rename that reports success has moved all it had to.                  *)

\* where no rename copies to, the old tag and the old path are the same
LEMMA UnderOldName ==
    ASSUME NEW r \in Renames, NEW p \in Paths, p \notin Targeted, NEW tags, AtPlace(p, tags)
    PROVE  Satisfies(tags, RenameQuery(r)) <=> p \in Source(r)
BY FoundInSource, NamedAreFound DEF AtPlace

\* no step puts a blob where no rename copies to
LEMMA StepAddsTargeted ==
    ASSUME TypeInv, AtHome, NEW c \in Clients, AzureStep(c)
    PROVE  \A p \in Paths \ Targeted : images'[p] # NoBlob => Has(p)
<1>0. StoreTypeOK
  BY DEF TypeInv
<1>1. CASE Finds(c)
  BY <1>1, AzureFindSteps DEF Finds, Has
<1>2. CASE \E kind : AzureFetch(c, kind, "500")
  BY <1>2, AzureFetchSteps DEF Has, Statuses
<1>3. CASE AzureBrowseFetch(c)
  BY <1>3, AzureBrowseFetchSteps DEF Has
<1>4. ASSUME NEW kind, WriteBack(c, kind)
      PROVE  \A q \in Paths : images'[q] # NoBlob => Has(q)
  <2>1. PICK j \in req[c].todo : \E t \in {Deleted(j.tags), CollectionCleared(j.tags)} :
                j \in Jobs /\ j.path \in Paths /\ (images' = images \/ SetsTags(j.path, t))
    BY <1>4, WriteBackSteps
  <2>2. PICK t \in Tags : images' = images \/ SetsTags(j.path, t)
    BY <2>1, NewTagsValuesType DEF Jobs
  <2> QED
    BY <1>0, <2>1, <2>2, SetsTagsEffect DEF Has
<1>5. ASSUME NEW kind \in RenameKinds, AzureRenameCopy(c, kind)
      PROVE  \A p \in Paths \ Targeted : images'[p] # NoBlob => Has(p)
  <2>1. Renaming(c) /\ req[c].pc = "each"
    BY <1>5, AzureRenameCopySteps
  <2>2. PICK j \in req[c].todo :
            /\ j.path \in Paths
            /\ images' = images \/ CopiesTo(j.path, NewPath(req[c].op, j.path))
    BY <1>5, AzureRenameCopySteps
  <2>3. j.path \in Source(req[c].op) /\ req[c].op \in Renames
    BY <2>1, <2>2 DEF AtHome, WorkInOrder, AtWork, Renaming
  <2>4. PICK q \in Paths : q \in Targeted /\ (images' = images \/ CopiesTo(j.path, q))
    BY <2>2, <2>3, NewPathElsewhere
  <2> QED
    BY <1>0, <2>2, <2>4, CopiesToEffect DEF Has
<1>6. ASSUME NEW kind \in RenameKinds, RenameRetag(c, kind)
      PROVE  \A q \in Paths : images'[q] # NoBlob => Has(q)
  <2>1. PICK q \in Paths, t \in Tags : images' = images \/ SetsTags(q, t)
    BY <1>6, RenameRetagSteps
  <2> QED
    BY <1>0, <2>1, SetsTagsEffect DEF Has
<1>7. ASSUME NEW kind \in RenameKinds, AzureRenameDelete(c, kind)
      PROVE  \A q \in Paths : images'[q] # NoBlob => Has(q)
  <2>1. PICK p \in Paths : images' = images \/ Drops(p)
    BY <1>7, AzureRenameDeleteSteps
  <2> QED
    BY <1>0, <2>1, DropsEffect DEF Has
<1> QED
  BY <1>1, <1>2, <1>3, <1>4, <1>5, <1>6, <1>7, StepCases

\* what a request that goes on still holds
LEMMA HoldsAllGlue ==
    ASSUME NoneMissed,
           \A p \in Paths \ Targeted : images'[p] # NoBlob => Has(p),
           NEW c \in Clients, Others(c), HoldsAll(req[c])'
    PROVE  NoneMissed'
<1>1. \A r \in Renames : Untaken(r)' \subseteq Untaken(r)
  BY DEF Untaken, Source, Has
<1>2. ASSUME NEW d \in Clients, d # c
      PROVE  HoldsAll(req[d])'
  <2>1. req'[d] = req[d] /\ HoldsAll(req[d])
    BY <1>2 DEF Others, NoneMissed
  <2>2. Within(req[d])' = Within(req[d])
    BY <2>1 DEF Within, AtWork
  <2> QED
    BY <1>1, <2>1, <2>2 DEF HoldsAll
<1> QED
  BY <1>2 DEF NoneMissed

LEMMA EndedHoldsAll ==
    ASSUME NEW c \in Clients, NEW status, Ended(c, status)
    PROVE  HoldsAll(req[c])'
BY RequestAssumption DEF Ended, Idle, HoldsAll, Renames

LEMMA GivesUpHoldsAll ==
    ASSUME NEW c \in Clients, NEW todo, GivesUp(c, todo)
    PROVE  HoldsAll(req[c])'
BY EndedHoldsAll DEF GivesUp, Goes, HoldsAll

LEMMA FindHoldsAll ==
    ASSUME TypeInv, AtHome, NEW c \in Clients, Finds(c)
    PROVE  HoldsAll(req[c])'
<1>0. PICK kind : \E query : \E s1, s2 \in Statuses :
          /\ AzureFind(c, kind, query, s1, s2)
          /\ req[c].op \in Renames => query = RenameQuery(req[c].op)
  BY DEF Finds
<1>1. PICK query : \E s1, s2 \in Statuses :
          /\ AzureFind(c, kind, query, s1, s2)
          /\ req[c].op \in Renames => query = RenameQuery(req[c].op)
  BY <1>0
<1>2. /\ images' = images
      /\ \/ \E status : Ended(c, status)
         \/ Goes(c, "tags", MatchingRows(query), req[c].todo, req[c].job, req[c].failed)
  BY <1>1, AzureFindSteps
<1>3. CASE Goes(c, "tags", MatchingRows(query), req[c].todo, req[c].job, req[c].failed)
  <2> SUFFICES ASSUME req[c].op \in Renames
               PROVE  Untaken(req[c].op)' \subseteq Within(req[c])'
    BY <1>3 DEF Goes, HoldsAll
  <2>1. req'[c].op = req[c].op /\ req'[c].rows = MatchingRows(RenameQuery(req[c].op))
    BY <1>1, <1>3 DEF Goes
  <2>2. ASSUME NEW p \in Source(req[c].op), p \notin Targeted, Has(p)
        PROVE  <<p, images[p].row>> \in req'[c].rows
    <3>1. p \in Paths /\ AtPlace(p, images[p].tags)
      BY <2>2 DEF AtHome, BlobsAtHome, Source
    <3>2. Satisfies(images[p].tags, RenameQuery(req[c].op))
      BY <2>2, <3>1, UnderOldName
    <3> QED
      BY <2>1, <2>2, <3>1, <3>2 DEF MatchingRows
  <2>3. \A p \in Untaken(req[c].op) : p \in Within(req[c])'
    <3>1. \A p \in Untaken(req[c].op) : <<p, images[p].row>>[1] = p
      OBVIOUS
    <3> QED
      BY <2>2, <3>1 DEF Untaken, Within
  <2>4. Untaken(req[c].op)' = Untaken(req'[c].op)
    BY <1>2 DEF Untaken, Has, Source
  <2> QED
    BY <2>1, <2>3, <2>4
<1> QED
  BY <1>2, <1>3, EndedHoldsAll

LEMMA FetchHoldsAll ==
    ASSUME TypeInv, NEW c \in Clients, HoldsAll(req[c]), NEW kind, AzureFetch(c, kind, "500")
    PROVE  HoldsAll(req[c])'
<1>1. /\ req[c].pc = "tags" /\ images' = images
      /\ \/ Ended(c, "500")
         \/ \E r \in req[c].rows :
              Goes(c, IF req[c].rows = {r} THEN "each" ELSE "tags", req[c].rows \ {r},
                      req[c].todo \cup {RowJob(r)}, req[c].job, req[c].failed)
  BY AzureFetchSteps DEF At, Statuses
<1>2. ASSUME NEW r \in req[c].rows,
             Goes(c, IF req[c].rows = {r} THEN "each" ELSE "tags", req[c].rows \ {r},
                     req[c].todo \cup {RowJob(r)}, req[c].job, req[c].failed)
      PROVE  HoldsAll(req[c])'
  <2>1. /\ req'[c].op = req[c].op /\ req'[c].pc \in {"tags", "each"}
        /\ req'[c].rows = req[c].rows \ {r} /\ req'[c].todo = req[c].todo \cup {RowJob(r)}
        /\ req'[c].failed = req[c].failed
    BY <1>2 DEF Goes
  <2>2. RowJob(r).path = r[1]
    BY DEF RowJob
  <2>3. Within(req[c]) = {row[1] : row \in req[c].rows} \cup {j.path : j \in req[c].todo}
    BY <1>1 DEF Within, AtWork
  <2>4. Within(req[c])' = {row[1] : row \in req'[c].rows} \cup {j.path : j \in req'[c].todo}
    BY <2>1 DEF Within, AtWork
  <2>5. Within(req[c]) \subseteq Within(req[c])'
    BY <2>1, <2>2, <2>3, <2>4
  <2>6. \A r2 \in Renames : Untaken(r2)' = Untaken(r2)
    BY <1>1 DEF Untaken, Has, Source
  <2> QED
    BY <1>1, <2>1, <2>5, <2>6 DEF HoldsAll
<1> QED
  BY <1>1, <1>2, EndedHoldsAll

\* the same blobs at hand, by the same rename
LEMMA GoesHoldsAll ==
    ASSUME NEW c \in Clients, HoldsAll(req[c]), NEW gone, req[c].pc # "find",
           req'[c].op = req[c].op, req'[c].failed = req[c].failed,
           \A p \in Paths \ Targeted : images'[p] # NoBlob => Has(p) /\ p \notin gone,
           Within(req[c]) \subseteq (Within(req[c])') \cup gone
    PROVE  HoldsAll(req[c])'
<1>1. \A r \in Renames : Untaken(r)' \subseteq Untaken(r) \ gone
  BY DEF Untaken, Source, Has
<1> QED
  BY <1>1 DEF HoldsAll

LEMMA StepHoldsAll ==
    ASSUME TypeInv, AtHome, NEW c \in Clients, AzureStep(c), HoldsAll(req[c])
    PROVE  HoldsAll(req[c])'
<1>0. /\ StoreTypeOK
      /\ \A p \in Paths \ Targeted : images'[p] # NoBlob => Has(p)
  BY StepAddsTargeted DEF TypeInv
<1>1. CASE Finds(c)
  BY <1>1, FindHoldsAll
<1>2. CASE \E kind : AzureFetch(c, kind, "500")
  BY <1>2, FetchHoldsAll
<1>3. CASE req[c].op \notin Renames
  BY <1>3, StepMoves, RequestAssumption DEF HoldsAll, Renames
<1>4. CASE AzureBrowseFetch(c)
  BY <1>3, <1>4, AzureBrowseFetchSteps DEF At, Renames, RenameKinds
<1>5. ASSUME NEW kind \in RenameKinds, AzureRenameCopy(c, kind)
      PROVE  HoldsAll(req[c])'
  <2>1. PICK j \in req[c].todo :
          \/ Goes(c, "retag", req[c].rows, req[c].todo \ {j}, j, req[c].failed)
          \/ GivesUp(c, req[c].todo \ {j})
    BY <1>5, AzureRenameCopySteps
  <2>2. CASE Goes(c, "retag", req[c].rows, req[c].todo \ {j}, j, req[c].failed)
    <3>1. /\ req'[c].op = req[c].op /\ req'[c].failed = req[c].failed
          /\ req'[c].rows = req[c].rows /\ AtWork(req[c])' = req[c].todo
      BY <2>1, <2>2 DEF Goes, AtWork
    <3>2. req[c].pc = "each" /\ AtWork(req[c]) = req[c].todo
      BY <1>5, AzureRenameCopySteps DEF AtWork
    <3>3. Within(req[c]) \subseteq (Within(req[c])') \cup {}
      BY <3>1, <3>2 DEF Within
    <3> QED
      BY <1>0, <3>1, <3>2, <3>3, GoesHoldsAll
  <2> QED
    BY <2>1, <2>2, GivesUpHoldsAll
<1>6. ASSUME NEW kind \in RenameKinds, RenameRetag(c, kind)
      PROVE  HoldsAll(req[c])'
  <2>1. /\ req[c].pc = "retag"
        /\ \/ Goes(c, "delete", req[c].rows, req[c].todo, req[c].job, req[c].failed)
           \/ GivesUp(c, req[c].todo)
    BY <1>6, RenameRetagSteps
  <2>2. CASE Goes(c, "delete", req[c].rows, req[c].todo, req[c].job, req[c].failed)
    <3>1. /\ req'[c].op = req[c].op /\ req'[c].failed = req[c].failed
          /\ req'[c].rows = req[c].rows /\ AtWork(req[c])' = AtWork(req[c])
      BY <2>1, <2>2 DEF Goes, AtWork
    <3>2. Within(req[c]) \subseteq (Within(req[c])') \cup {}
      BY <3>1 DEF Within
    <3> QED
      BY <1>0, <2>1, <3>1, <3>2, GoesHoldsAll
  <2> QED
    BY <2>1, <2>2, GivesUpHoldsAll
<1>7. ASSUME NEW kind \in RenameKinds, AzureRenameDelete(c, kind)
      PROVE  HoldsAll(req[c])'
  <2>1. /\ req[c].pc = "delete" /\ req[c].job.path \in Paths
        /\ \/ \E status : Ended(c, status)
           \/ GivesUp(c, req[c].todo)
           \/ /\ Drops(req[c].job.path)
              /\ \E job : Goes(c, "each", req[c].rows, req[c].todo, job, req[c].failed)
    BY <1>7, AzureRenameDeleteSteps
  <2>2. ASSUME Drops(req[c].job.path), NEW job,
               Goes(c, "each", req[c].rows, req[c].todo, job, req[c].failed)
        PROVE  HoldsAll(req[c])'
    <3>1. /\ req'[c].op = req[c].op /\ req'[c].failed = req[c].failed
          /\ req'[c].rows = req[c].rows /\ AtWork(req[c])' = req[c].todo
      BY <2>2 DEF Goes, AtWork
    <3>2. AtWork(req[c]) = req[c].todo \cup {req[c].job}
      BY <2>1 DEF AtWork
    <3>3. Within(req[c]) \subseteq (Within(req[c])') \cup {req[c].job.path}
      BY <3>1, <3>2 DEF Within
    <3>4. images'[req[c].job.path] = NoBlob
      BY <1>0, <2>1, <2>2, DropsEffect
    <3> QED
      BY <1>0, <2>1, <3>1, <3>3, <3>4, GoesHoldsAll
  <2> QED
    BY <2>1, <2>2, EndedHoldsAll, GivesUpHoldsAll
<1> QED
  BY <1>1, <1>2, <1>3, <1>4, <1>5, <1>6, <1>7, StepCases

LEMMA NextHoldsAll ==
    ASSUME TypeInv, AtHome, NoneMissed, [AzureNext]_azureVars
    PROVE  NoneMissed'
<1>1. ASSUME NEW c \in Clients, AzureStep(c)
      PROVE  NoneMissed'
  BY <1>1, StepHoldsAll, StepMoves, StepAddsTargeted, HoldsAllGlue DEF NoneMissed
<1>2. ASSUME NEW c \in Clients, CutOff(c)
      PROVE  NoneMissed'
  <2>1. images' = images /\ Ended(c, "cut")
    BY <1>2, CutOffSteps
  <2> QED
    BY <2>1, EndedHoldsAll, HoldsAllGlue DEF Ended, Has
<1>3. ASSUME NEW c \in Clients, NEW r \in Requests, Submit(c, r)
      PROVE  NoneMissed'
  <2>1. /\ images' = images /\ Others(c) /\ req'[c].op = r
        /\ r \in Renames => req'[c].pc = "find"
    BY <1>3, SubmitSteps
  <2>2. HoldsAll(req[c])'
    BY <2>1 DEF HoldsAll
  <2> QED
    BY <2>1, <2>2, HoldsAllGlue DEF Has
<1>4. CASE UNCHANGED vars
  BY <1>4 DEF vars, NoneMissed, HoldsAll, Untaken, Within, AtWork, Has
<1> QED
  BY <1>1, <1>2, <1>3, <1>4 DEF AzureNext, azureVars, Finished

\* a rename answers 200 only by the deletion of the last blob it had at hand
LEMMA SuccessDrops ==
    ASSUME TypeInv, AtHome, NEW c \in Clients, AzureStep(c), req[c].op \in Renames,
           req'[c].pc = "idle", reply'[c].status = "200"
    PROVE  /\ req[c].pc = "delete" /\ req[c].job.path \in Paths /\ Drops(req[c].job.path)
           /\ req[c].todo = {} /\ ~req[c].failed
<1>1. \A pc, rows, todo, job, failed : Goes(c, pc, rows, todo, job, failed) => pc = "idle"
  BY DEF Goes
<1>2. \A status : Ended(c, status) => status = "200"
  BY DEF Ended
<1>3. \A todo : ~GivesUp(c, todo)
  BY <1>1, <1>2 DEF GivesUp
<1>4. ~Finds(c)
  BY <1>1, <1>2, AzureFindSteps DEF Finds
<1>5. ASSUME NEW kind
      PROVE  ~AzureFetch(c, kind, "500")
  <2> SUFFICES ASSUME AzureFetch(c, kind, "500")
               PROVE  FALSE
    OBVIOUS
  <2>1. "500" \in Statuses
    BY DEF Statuses
  <2>2. PICK r \in req[c].rows :
              Goes(c, IF req[c].rows = {r} THEN "each" ELSE "tags", req[c].rows \ {r},
                      req[c].todo \cup {RowJob(r)}, req[c].job, req[c].failed)
    BY <1>2, <2>1, AzureFetchSteps
  <2>3. (IF req[c].rows = {r} THEN "each" ELSE "tags") = "idle"
    BY <1>1, <2>2
  <2> QED
    BY <2>3
<1>6. ~AzureBrowseFetch(c)
  BY AzureBrowseFetchSteps DEF At, Renames, RenameKinds
<1>7. \A kind \in RenameKinds : ~AzureRenameCopy(c, kind)
  BY <1>1, <1>3, AzureRenameCopySteps
<1>8. \A kind \in RenameKinds : ~RenameRetag(c, kind)
  BY <1>1, <1>3, RenameRetagSteps
<1>9. PICK kind \in RenameKinds : AzureRenameDelete(c, kind)
  BY <1>4, <1>5, <1>6, <1>7, <1>8, StepCases
<1>10. /\ req[c].pc = "delete" /\ req[c].job.path \in Paths /\ Drops(req[c].job.path)
       /\ req[c].todo = {} /\ Ended(c, IF req[c].failed THEN "206" ELSE "200")
  BY <1>1, <1>3, <1>9, AzureRenameDeleteSteps
<1> QED
  BY <1>2, <1>10

LEMMA SuccessMoved ==
    ASSUME TypeInv, AtHome, AtHome', NoneMissed,
           NEW c \in Clients, AzureStep(c), NEW op \in Renames, Answers(c, op, "200")
    PROVE  (BlobsWith(RenameQuery(op)))' \subseteq Targeted
<1>1. /\ req[c].op = op /\ req[c].pc = "delete" /\ req[c].job.path \in Paths
      /\ Drops(req[c].job.path) /\ req[c].todo = {} /\ ~req[c].failed
  BY SuccessDrops DEF Answers
<1>2. req[c].rows = {}
  BY <1>1 DEF AtHome, WorkInOrder
<1>3. Within(req[c]) = {req[c].job.path}
  BY <1>1, <1>2 DEF Within, AtWork
<1>4. Untaken(op) \subseteq {req[c].job.path}
  BY <1>1, <1>3 DEF NoneMissed, HoldsAll
<1>5. ASSUME NEW p \in Paths, images'[p] # NoBlob, Satisfies(images'[p].tags, RenameQuery(op)),
             p \notin Targeted
      PROVE  FALSE
  <2>1. AtPlace(p, images'[p].tags)
    BY <1>5 DEF AtHome, BlobsAtHome, Has
  <2>2. p \in Source(op)
    BY <1>5, <2>1, UnderOldName
  <2>3. Has(p) /\ p # req[c].job.path
    BY <1>1, <1>5, DropsEffect, StepAddsTargeted DEF TypeInv
  <2> QED
    BY <1>4, <1>5, <2>2, <2>3 DEF Untaken
<1> QED
  BY <1>5 DEF BlobsWith, Has, Satisfies, RenameQuery

LEMMA NextRenamedAway ==
    ASSUME TypeInv, AtHome, AtHome', NoneMissed, [AzureNext]_azureVars,
           NEW c \in Clients, NEW op \in Renames, Answers(c, op, "200"), ~UNCHANGED azureVars
    PROVE  (BlobsWith(RenameQuery(op)))' \subseteq Targeted
<1>1. req[c].op = op /\ req'[c].pc = "idle" /\ reply'[c].status = "200"
  BY DEF Answers
<1>2. req[c].pc # "idle"
  BY <1>1, RequestAssumption DEF AtHome, WorkInOrder, Renames
<1>3. ASSUME NEW d \in Clients, Others(d)
      PROVE  d = c
  BY <1>1, <1>2, <1>3 DEF Others
<1>4. \A d \in Clients, r \in Requests : ~Submit(d, r)
  BY <1>1, <1>3, SubmitSteps
<1>5. \A d \in Clients : ~CutOff(d)
  BY <1>1, <1>3, CutOffSteps DEF Ended
<1>6. PICK d \in Clients : AzureStep(d)
  BY <1>4, <1>5 DEF AzureNext, azureVars, Finished
<1>7. d = c
  BY <1>3, <1>6, StepMoves
<1> QED
  BY <1>6, <1>7, SuccessMoved

\* A rename answered 200 has left nothing under the old name, whatever runs
\* beside it or fails, for any library, workload and number of clients, but
\* where another rename moves photos to; provided that no two renames bring
\* different photos to one path (rename.go:97-123).
THEOREM AzureRenamesFinish ==
    ASSUME NeverMixed
    PROVE  AzureSpec => RenamedAway
<1> DEFINE Away == \A c \in Clients, op \in Renames :
                       Answers(c, op, "200") => (BlobsWith(RenameQuery(op)))' \subseteq Targeted
<1>1. AzureInit => AzureTypeInv /\ AtHome /\ NoneMissed
  <2>1. AzureInit => \A d \in Clients : req[d] = Idle
    BY DEF AzureInit
  <2>2. HoldsAll(Idle)
    BY RequestAssumption DEF HoldsAll, Idle, Renames
  <2> QED
    BY <2>1, <2>2, AzureInitType, InitAtHome DEF NoneMissed
<1>2. AzureTypeInv /\ AtHome /\ NoneMissed /\ [AzureNext]_azureVars
        => (AzureTypeInv /\ AtHome /\ NoneMissed)'
  BY AzureNextType, NextAtHome, NextHoldsAll DEF AzureTypeInv
<1>3. AzureTypeInv /\ AtHome /\ AtHome' /\ NoneMissed /\ [AzureNext]_azureVars => [Away]_azureVars
  BY NextRenamedAway DEF AzureTypeInv
<1>4. Targeted = UNION {Target(r) : r \in Renames}
  BY DEF Targeted
<1> HIDE DEF Away
<1>5. AzureSpec => [][Away]_azureVars
  BY <1>1, <1>2, <1>3, PTL DEF AzureSpec
<1>6. [][Away]_azureVars => RenamedAway
  BY <1>4, PTL DEF Away, RenamedAway, Targeted
<1> QED
  BY <1>5, <1>6

-----------------------------------------------------------------------------
(* What queries find.                                                      *)

\* all but some blobs are where they were, with their names
Keeps(some) ==
    \A q \in Paths \ some : (Has(q) => images'[q] # NoBlob) /\ (NamedAt(q) => NamedAt(q)')

LEMMA UnchangedKeeps ==
    ASSUME images' = images
    PROVE  Keeps({})
BY DEF Keeps, NamedAt, Has

LEMMA SetsTagsKeeps ==
    ASSUME StoreTypeOK, NEW p \in Paths, NEW t \in Tags, SetsTags(p, t), Names(p, t)
    PROVE  Keeps({}) /\ NamedAt(p)'
<1>1. \A q \in Paths :
        /\ images'[q] # NoBlob <=> Has(q)
        /\ Has(q) => images'[q].tags = IF q = p THEN t ELSE images[q].tags
  BY SetsTagsEffect
<1>2. Has(p)
  BY DEF SetsTags
<1>3. \A q \in Paths : NamedAt(q) => images'[q] # NoBlob /\ Names(q, images'[q].tags)
  BY <1>1 DEF NamedAt
<1>4. images'[p] # NoBlob /\ Names(p, images'[p].tags)
  BY <1>1, <1>2
<1> QED
  BY <1>1, <1>3, <1>4 DEF Keeps, NamedAt, Has, Names

LEMMA CopiesToKeeps ==
    ASSUME StoreTypeOK, NEW p \in Paths, NEW q \in Paths, CopiesTo(p, q)
    PROVE  Keeps({q}) /\ images'[q] # NoBlob /\ images'[q].tags = EmptyTags
<1>1. \A o \in Paths : o # q => images'[o] = images[o]
  BY CopiesToEffect
<1> QED
  BY <1>1, CopiesToEffect DEF Keeps, NamedAt, Has, Names

LEMMA DropsKeeps ==
    ASSUME StoreTypeOK, NEW p \in Paths, Drops(p)
    PROVE  Keeps({p})
BY DropsEffect DEF Keeps, NamedAt, Has, Names

\* What a client waits to give its tags to stays findable while it waits.
LEMMA FindableKept ==
    ASSUME NEW c \in Clients, Others(c), NEW some, Keeps(some),
           NEW q \in Paths, q \notin some, Findable(q),
           ~(Renaming(c) /\ req[c].pc = "retag" /\ q = NewPath(req[c].op, req[c].job.path))
    PROVE  Findable(q)'
<1>1. CASE NamedAt(q)
  BY <1>1 DEF Keeps, Findable
<1>2. CASE Has(q) /\ AwaitsTags(q)
  <2>1. PICK d \in Clients :
            Renaming(d) /\ req[d].pc = "retag" /\ q = NewPath(req[d].op, req[d].job.path)
    BY <1>2 DEF AwaitsTags
  <2>2. req'[d] = req[d]
    BY <2>1 DEF Others
  <2>3. AwaitsTags(q)'
    BY <2>1, <2>2 DEF AwaitsTags, Renaming
  <2> QED
    BY <1>2, <2>3 DEF Keeps, Findable, Has
<1> QED
  BY <1>1, <1>2 DEF Findable

-----------------------------------------------------------------------------
(* Only copies are without the tags of their path.                         *)

BlobsTagged == \A p \in Paths : Has(p) => images[p].tags = EmptyTags \/ Names(p, images[p].tags)
WorkTagged(s) == \A j \in AtWork(s) : Names(j.path, j.tags)

LEMMA TaggedGlue ==
    ASSUME Tagged, NEW c \in Clients, Others(c),
           BlobsTagged', WorkTagged(req'[c])
    PROVE  Tagged'
<1>1. \A d \in Clients : WorkTagged(req'[d])
  BY DEF Tagged, WorkTagged, Others
<1>2. (\A d \in Clients : \A j \in AtWork(req[d]) : Names(j.path, j.tags))'
  BY <1>1 DEF WorkTagged, AtWork, Names
<1> QED
  BY <1>2 DEF Tagged, BlobsTagged

LEMMA BlobsTaggedStay ==
    ASSUME BlobsTagged, images' = images
    PROVE  BlobsTagged'
BY DEF BlobsTagged, Has, Names

LEMMA BlobsTaggedSetsTags ==
    ASSUME StoreTypeOK, BlobsTagged, NEW p \in Paths, NEW t \in Tags, SetsTags(p, t), Names(p, t)
    PROVE  BlobsTagged'
<1>1. \A q \in Paths : images'[q] # NoBlob =>
          images'[q].tags = EmptyTags \/ Names(q, images'[q].tags)
  BY SetsTagsEffect DEF BlobsTagged
<1> QED
  BY <1>1 DEF BlobsTagged, Has, Names

LEMMA BlobsTaggedCopiesTo ==
    ASSUME StoreTypeOK, BlobsTagged, NEW p \in Paths, NEW q \in Paths, CopiesTo(p, q)
    PROVE  BlobsTagged'
<1>1. \A o \in Paths : images'[o] # NoBlob =>
          images'[o].tags = EmptyTags \/ Names(o, images'[o].tags)
  BY CopiesToEffect DEF BlobsTagged, Has
<1> QED
  BY <1>1 DEF BlobsTagged, Has, Names

LEMMA BlobsTaggedDrops ==
    ASSUME StoreTypeOK, BlobsTagged, NEW p \in Paths, Drops(p)
    PROVE  BlobsTagged'
<1>1. \A q \in Paths : images'[q] # NoBlob =>
          images'[q].tags = EmptyTags \/ Names(q, images'[q].tags)
  BY DropsEffect DEF BlobsTagged, Has
<1> QED
  BY <1>1 DEF BlobsTagged, Has, Names

\* a request that ended, or whose work is part of what it was
LEMMA WorkTaggedShrinks ==
    ASSUME NEW s, NEW t, WorkTagged(s), AtWork(t) \subseteq AtWork(s)
    PROVE  WorkTagged(t)
BY DEF WorkTagged

LEMMA WorkTaggedIdle == WorkTagged(Idle)
BY DEF WorkTagged, AtWork, Idle

LEMMA GoesOnTagged ==
    ASSUME NEW c \in Clients, WorkTagged(req[c]), NEW todo, todo \subseteq AtWork(req[c]),
           GivesUp(c, todo) \/ (\E status : Ended(c, status))
              \/ \E rows, job, failed : Goes(c, "each", rows, todo, job, failed)
    PROVE  WorkTagged(req'[c])
<1>1. req'[c] = Idle \/ (req'[c].pc = "each" /\ req'[c].todo = todo)
  BY DEF GivesUp, Ended, Goes
<1>2. req'[c].pc = "each" /\ req'[c].todo = todo => AtWork(req'[c]) = todo
  BY DEF AtWork
<1> QED
  BY <1>1, <1>2, WorkTaggedIdle, WorkTaggedShrinks

LEMMA ReadTagged ==
    ASSUME BlobsTagged, NEW c \in Clients, WorkTagged(req[c]), ~ReadsUntagged(c),
           req[c].pc = "tags", req'[c].pc \in {"tags", "each"},
           NEW r \in req[c].rows, Has(r[1]), r[1] \in Paths,
           req'[c].todo \subseteq req[c].todo \cup {RowJob(r)}
    PROVE  WorkTagged(req'[c])
<1>1. AtWork(req[c]) = req[c].todo /\ AtWork(req'[c]) = req'[c].todo
  BY DEF AtWork
<1>2. RowJob(r).path = r[1] /\ RowJob(r).tags = images[r[1]].tags
  BY DEF RowJob
<1>3. ASSUME NEW j \in req'[c].todo, j \notin req[c].todo
      PROVE  Names(j.path, j.tags)
  <2>1. j = RowJob(r) /\ j \in req'[c].todo \ req[c].todo
    BY <1>3
  <2>2. images[r[1]].tags # EmptyTags
    BY <1>2, <2>1 DEF ReadsUntagged
  <2> QED
    BY <1>2, <2>1, <2>2 DEF BlobsTagged
<1> QED
  BY <1>1, <1>3 DEF WorkTagged

LEMMA StepTagged ==
    ASSUME TypeInv, AtHome, Tagged, NEW c \in Clients, AzureStep(c), ~ReadsUntagged(c)
    PROVE  Tagged'
<1>0. StoreTypeOK /\ BlobsTagged /\ WorkTagged(req[c]) /\ Others(c)
  BY StepMoves DEF TypeInv, Tagged, BlobsTagged, WorkTagged
<1> SUFFICES BlobsTagged' /\ WorkTagged(req'[c])
  BY <1>0, TaggedGlue
<1>1. CASE Finds(c)
  <2>1. PICK rows : /\ req[c].pc = "find" /\ images' = images
                    /\ \/ \E status : Ended(c, status)
                       \/ Goes(c, "tags", rows, req[c].todo, req[c].job, req[c].failed)
    BY <1>1, AzureFindSteps DEF Finds, At
  <2>2. req'[c] = Idle \/ AtWork(req'[c]) \subseteq AtWork(req[c])
    BY <2>1 DEF Ended, Goes, AtWork
  <2> QED
    BY <1>0, <2>1, <2>2, BlobsTaggedStay, WorkTaggedShrinks, WorkTaggedIdle
<1>2. CASE \E kind : AzureFetch(c, kind, "500")
  <2>1. /\ req[c].pc = "tags" /\ images' = images
        /\ \/ Ended(c, "500")
           \/ \E r \in req[c].rows :
                /\ Has(r[1]) /\ r[1] \in Paths
                /\ Goes(c, IF req[c].rows = {r} THEN "each" ELSE "tags", req[c].rows \ {r},
                        req[c].todo \cup {RowJob(r)}, req[c].job, req[c].failed)
    BY <1>2, AzureFetchSteps DEF At, Statuses
  <2>2. ASSUME NEW r \in req[c].rows, Has(r[1]), r[1] \in Paths,
               Goes(c, IF req[c].rows = {r} THEN "each" ELSE "tags", req[c].rows \ {r},
                       req[c].todo \cup {RowJob(r)}, req[c].job, req[c].failed)
        PROVE  WorkTagged(req'[c])
    <3>1. req'[c].pc \in {"tags", "each"} /\ req'[c].todo = req[c].todo \cup {RowJob(r)}
      BY <2>2 DEF Goes
    <3> QED
      BY <1>0, <2>1, <2>2, <3>1, ReadTagged
  <2> QED
    BY <1>0, <2>1, <2>2, BlobsTaggedStay, WorkTaggedIdle DEF Ended
<1>3. CASE AzureBrowseFetch(c)
  <2>1. /\ req[c].pc = "tags" /\ images' = images
        /\ \/ Ended(c, "200")
           \/ \E r \in req[c].rows, pc \in {"tags", "each"}, rows \in SUBSET req[c].rows,
                 todo \in SUBSET Jobs, failed \in BOOLEAN :
                /\ Has(r[1]) /\ r[1] \in Paths
                /\ todo \subseteq req[c].todo \cup {RowJob(r)}
                /\ Goes(c, pc, rows, todo, req[c].job, failed)
    BY <1>3, AzureBrowseFetchSteps DEF At
  <2>2. \/ Ended(c, "200")
        \/ \E r \in req[c].rows : /\ Has(r[1]) /\ r[1] \in Paths
                                  /\ req'[c].todo \subseteq req[c].todo \cup {RowJob(r)}
                                  /\ req'[c].pc \in {"tags", "each"}
    BY <2>1 DEF Goes
  <2> QED
    BY <1>0, <2>1, <2>2, BlobsTaggedStay, WorkTaggedIdle, ReadTagged DEF Ended
<1>4. ASSUME NEW kind, WriteBack(c, kind)
      PROVE  BlobsTagged' /\ WorkTagged(req'[c])
  <2>1. req[c].pc = "each"
    BY <1>4, WriteBackSteps DEF At
  <2>2. PICK j \in req[c].todo : \E t \in {Deleted(j.tags), CollectionCleared(j.tags)} :
                /\ j \in Jobs /\ j.path \in Paths
                /\ images' = images \/ SetsTags(j.path, t)
                /\ \/ \E status \in Statuses : Ended(c, status)
                   \/ \E failed \in BOOLEAN :
                        Goes(c, "each", req[c].rows, req[c].todo \ {j}, req[c].job, failed)
    BY <1>4, WriteBackSteps
  <2>3. j \in AtWork(req[c]) /\ req[c].todo \ {j} \subseteq AtWork(req[c])
    BY DEF AtWork
  <2>4. Names(j.path, j.tags) /\ AtPlace(j.path, j.tags)
    BY <1>0, <2>3 DEF WorkTagged, AtHome, WorkInOrder
  <2>5. BlobsTagged'
    BY <1>0, <2>2, <2>4, WrittenBackPlace, BlobsTaggedStay, BlobsTaggedSetsTags
  <2>6. WorkTagged(req'[c])
    BY <1>0, <2>2, <2>3, GoesOnTagged
  <2> QED
    BY <2>5, <2>6
<1>5. ASSUME NEW kind \in RenameKinds, AzureRenameCopy(c, kind)
      PROVE  BlobsTagged' /\ WorkTagged(req'[c])
  <2>1. PICK j \in req[c].todo, q \in Paths :
            /\ j.path \in Paths
            /\ images' = images \/ CopiesTo(j.path, q)
            /\ \/ Goes(c, "retag", req[c].rows, req[c].todo \ {j}, j, req[c].failed)
               \/ GivesUp(c, req[c].todo \ {j})
    BY <1>5, AzureRenameCopySteps
  <2>2. req[c].todo \subseteq AtWork(req[c]) /\ req[c].todo \ {j} \subseteq AtWork(req[c])
    BY DEF AtWork
  <2>3. BlobsTagged'
    BY <1>0, <2>1, BlobsTaggedStay, BlobsTaggedCopiesTo
  <2>4. CASE Goes(c, "retag", req[c].rows, req[c].todo \ {j}, j, req[c].failed)
    <3>1. AtWork(req'[c]) \subseteq AtWork(req[c])
      BY <2>2, <2>4 DEF Goes, AtWork
    <3> QED
      BY <1>0, <2>3, <3>1, WorkTaggedShrinks
  <2> QED
    BY <1>0, <2>1, <2>2, <2>3, <2>4, GoesOnTagged
<1>6. ASSUME NEW kind \in RenameKinds, RenameRetag(c, kind)
      PROVE  BlobsTagged' /\ WorkTagged(req'[c])
  <2> DEFINE j == req[c].job
             q == NewPath(req[c].op, j.path)
             t == NewTags(req[c].op, j)
  <2>1. /\ Renaming(c) /\ req[c].pc = "retag" /\ j \in Jobs /\ q \in Paths /\ t \in Tags
        /\ images' = images \/ SetsTags(q, t)
        /\ \/ Goes(c, "delete", req[c].rows, req[c].todo, j, req[c].failed)
           \/ GivesUp(c, req[c].todo)
    BY <1>6, RenameRetagSteps
  <2>2. j \in AtWork(req[c]) /\ req[c].todo \subseteq AtWork(req[c])
    BY <2>1 DEF AtWork
  <2>3. Names(q, t)
    BY <1>0, <2>1, <2>2, NewTagsPlace DEF WorkTagged, AtHome, WorkInOrder, Renaming
  <2>4. BlobsTagged'
    BY <1>0, <2>1, <2>3, BlobsTaggedStay, BlobsTaggedSetsTags
  <2>5. CASE Goes(c, "delete", req[c].rows, req[c].todo, j, req[c].failed)
    <3>1. AtWork(req'[c]) \subseteq AtWork(req[c])
      BY <2>2, <2>5 DEF Goes, AtWork
    <3> QED
      BY <1>0, <2>4, <3>1, WorkTaggedShrinks
  <2> QED
    BY <1>0, <2>1, <2>2, <2>4, <2>5, GoesOnTagged
<1>7. ASSUME NEW kind \in RenameKinds, AzureRenameDelete(c, kind)
      PROVE  BlobsTagged' /\ WorkTagged(req'[c])
  <2>1. PICK p \in Paths :
          /\ images' = images \/ Drops(p)
          /\ \/ \E status : Ended(c, status)
             \/ \E job : Goes(c, "each", req[c].rows, req[c].todo, job, req[c].failed)
             \/ GivesUp(c, req[c].todo)
    BY <1>7, AzureRenameDeleteSteps
  <2>2. req[c].todo \subseteq AtWork(req[c])
    BY DEF AtWork
  <2> QED
    BY <1>0, <2>1, <2>2, BlobsTaggedStay, BlobsTaggedDrops, GoesOnTagged
<1> QED
  BY <1>1, <1>2, <1>3, <1>4, <1>5, <1>6, <1>7, StepCases

-----------------------------------------------------------------------------
(* What can be found stays so, or something further along can.             *)

NoneHides == \A q \in Paths : Findable(q) => Findable(q)'

FoundFurther ==
    \A q \in Paths : Findable(q) =>
        \/ Findable(q)'
        \/ \E o \in Paths : Home[o] = Home[q] /\ Rank[q] < Rank[o] /\ Findable(o)'

\* a failed call of a rename may hide one copy, but not what it was copied from
FallsBack(c) ==
    /\ CallFails /\ Renaming(c) /\ req'[c].pc # "delete"
    /\ \E p \in Within(req[c]) \cap Source(req[c].op) :
         /\ NamedAt(p) => NamedAt(p)'
         /\ \A o \in Paths : Findable(o) /\ o # NewPath(req[c].op, p) => Findable(o)'

LEMMA KeepsAll ==
    ASSUME NEW c \in Clients, Others(c), Keeps({}), ~(Renaming(c) /\ req[c].pc = "retag")
    PROVE  NoneHides
BY FindableKept DEF NoneHides

LEMMA CopyFindable ==
    ASSUME TypeInv, AtHome, NEW c \in Clients, NEW kind \in RenameKinds, AzureRenameCopy(c, kind)
    PROVE  NoneHides \/ FallsBack(c)
<1>1. Renaming(c) /\ req[c].pc = "each" /\ Others(c)
  BY AzureRenameCopySteps DEF Goes, GivesUp, Ended
<1>2. PICK j \in req[c].todo, q \in Paths :
          /\ j.path \in Paths /\ q = NewPath(req[c].op, j.path)
          /\ \/ /\ CopiesTo(j.path, q)
                /\ Goes(c, "retag", req[c].rows, req[c].todo \ {j}, j, req[c].failed)
             \/ /\ images' = images \/ (CopiesTo(j.path, q) /\ CallFails)
                /\ GivesUp(c, req[c].todo \ {j})
  BY AzureRenameCopySteps
<1>3. j.path \in Source(req[c].op) /\ j.path \in Within(req[c])
  BY <1>1, <1>2 DEF AtHome, WorkInOrder, AtWork, Renaming, Within
<1>4. q # j.path
  BY <1>1, <1>2, <1>3, NewPathElsewhere DEF Renaming
<1>5. CopiesTo(j.path, q) => Keeps({q}) /\ images'[q] # NoBlob
  BY <1>2, CopiesToKeeps DEF TypeInv
<1>6. CASE images' = images
  BY <1>1, <1>6, UnchangedKeeps, KeepsAll
<1>7. ASSUME CopiesTo(j.path, q), NEW o \in Paths, Findable(o), o # q
      PROVE  Findable(o)'
  BY <1>1, <1>5, <1>7, FindableKept
<1>8. CASE /\ CopiesTo(j.path, q)
           /\ Goes(c, "retag", req[c].rows, req[c].todo \ {j}, j, req[c].failed)
  <2>1. /\ req'[c].op = req[c].op /\ req'[c].pc = "retag" /\ req'[c].job = j
    BY <1>8 DEF Goes
  <2>2. AwaitsTags(q)'
    BY <1>1, <1>2, <2>1 DEF AwaitsTags, Renaming
  <2>3. Findable(q)'
    BY <1>5, <1>8, <2>2 DEF Findable, Has
  <2> QED
    BY <1>7, <1>8, <2>3 DEF NoneHides
<1>9. CASE CopiesTo(j.path, q) /\ CallFails /\ GivesUp(c, req[c].todo \ {j})
  <2>1. req'[c].pc # "delete"
    BY <1>9 DEF GivesUp, Ended, Idle, Goes
  <2>2. NamedAt(j.path) => NamedAt(j.path)'
    BY <1>2, <1>4, <1>5, <1>9 DEF Keeps
  <2> QED
    BY <1>1, <1>2, <1>3, <1>7, <1>9, <2>1, <2>2 DEF FallsBack
<1> QED
  BY <1>2, <1>6, <1>8, <1>9

LEMMA RetagFindable ==
    ASSUME TypeInv, AtHome, Tagged, NEW c \in Clients, NEW kind \in RenameKinds,
           RenameRetag(c, kind)
    PROVE  NoneHides \/ FallsBack(c)
<1>1. PICK j \in Jobs, q \in Paths, t \in Tags :
      /\ Renaming(c) /\ req[c].pc = "retag" /\ j = req[c].job /\ j.path \in Paths
      /\ q = NewPath(req[c].op, j.path) /\ t = NewTags(req[c].op, j)
      /\ \/ SetsTags(q, t)
         \/ images' = images /\ (CallFails \/ ~Has(q)) /\ GivesUp(c, req[c].todo)
  BY RenameRetagSteps
<1>2. Others(c)
  BY RenameRetagSteps DEF Goes, GivesUp, Ended
<1>3. j \in AtWork(req[c]) /\ j.path \in Within(req[c]) /\ j.path \in Source(req[c].op)
  BY <1>1 DEF AtHome, WorkInOrder, AtWork, Renaming, Within
<1>4. CASE SetsTags(q, t)
  <2>1. Names(q, t)
    BY <1>1, <1>3, NewTagsPlace DEF Tagged, AtHome, WorkInOrder, Renaming
  <2>2. Keeps({}) /\ NamedAt(q)'
    BY <1>1, <1>4, <2>1, SetsTagsKeeps DEF TypeInv
  <2>3. \A o \in Paths : Findable(o) /\ o # q => Findable(o)'
    BY <1>1, <1>2, <2>2, FindableKept
  <2> QED
    BY <2>2, <2>3 DEF NoneHides, Findable
<1>5. CASE images' = images /\ (CallFails \/ ~Has(q)) /\ GivesUp(c, req[c].todo)
  <2>1. \A o \in Paths : Findable(o) /\ o # q => Findable(o)'
    BY <1>1, <1>2, <1>5, UnchangedKeeps, FindableKept
  <2>2. ~Has(q) => NoneHides
    BY <2>1 DEF NoneHides, Findable, NamedAt
  <2>3. req'[c].pc # "delete"
    BY <1>5 DEF GivesUp, Ended, Idle, Goes
  <2>4. NamedAt(j.path) => NamedAt(j.path)'
    BY <1>1, <1>5, UnchangedKeeps DEF Keeps
  <2> QED
    BY <1>1, <1>3, <1>5, <2>1, <2>2, <2>3, <2>4 DEF FallsBack
<1> QED
  BY <1>1, <1>4, <1>5

LEMMA DeleteFindable ==
    ASSUME OneWay, TypeInv, CopiedFindable, NEW c \in Clients, NEW kind \in RenameKinds,
           AzureRenameDelete(c, kind)
    PROVE  FoundFurther
<1>1. PICK p \in Paths : /\ Renaming(c) /\ req[c].pc = "delete" /\ p = req[c].job.path
                         /\ images' = images \/ Drops(p)
  BY AzureRenameDeleteSteps
<1>2. Others(c)
  BY AzureRenameDeleteSteps DEF Goes, GivesUp, Ended
<1>3. Keeps({p})
  BY <1>1, UnchangedKeeps, DropsKeeps DEF TypeInv, Keeps
<1>4. \A o \in Paths : Findable(o) /\ o # p => Findable(o)'
  BY <1>1, <1>2, <1>3, FindableKept
<1>5. PICK q \in Paths : Ahead(p, q) /\ Findable(q)
  BY <1>1 DEF CopiedFindable
<1>6. Home[q] = Home[p] /\ Rank[p] < Rank[q] /\ q # p
  BY <1>5 DEF Ahead, OneWay
<1> QED
  BY <1>4, <1>5, <1>6 DEF FoundFurther

LEMMA StepFindable ==
    ASSUME OneWay, TypeInv, AtHome, Tagged, CopiedFindable, NEW c \in Clients, AzureStep(c)
    PROVE  FoundFurther \/ FallsBack(c)
<1>0. Others(c) /\ (NoneHides => FoundFurther)
  BY StepMoves DEF NoneHides, FoundFurther
<1>1. CASE Finds(c)
  <2>1. req[c].pc = "find" /\ images' = images
    BY <1>1, AzureFindSteps DEF Finds, At
  <2> QED
    BY <1>0, <2>1, UnchangedKeeps, KeepsAll
<1>2. CASE \E kind : AzureFetch(c, kind, "500")
  <2>1. req[c].pc = "tags" /\ images' = images
    BY <1>2, AzureFetchSteps DEF At, Statuses
  <2> QED
    BY <1>0, <2>1, UnchangedKeeps, KeepsAll
<1>3. CASE AzureBrowseFetch(c)
  <2>1. req[c].pc = "tags" /\ images' = images
    BY <1>3, AzureBrowseFetchSteps DEF At
  <2> QED
    BY <1>0, <2>1, UnchangedKeeps, KeepsAll
<1>4. ASSUME NEW kind, WriteBack(c, kind)
      PROVE  NoneHides
  <2>1. req[c].pc = "each"
    BY <1>4, WriteBackSteps DEF At
  <2>2. PICK j \in req[c].todo : \E t \in {Deleted(j.tags), CollectionCleared(j.tags)} :
                /\ j \in Jobs /\ j.path \in Paths
                /\ images' = images \/ SetsTags(j.path, t)
    BY <1>4, WriteBackSteps
  <2>3. Names(j.path, j.tags) /\ AtPlace(j.path, j.tags)
    BY DEF Tagged, AtHome, WorkInOrder, AtWork
  <2>4. Keeps({})
    BY <2>2, <2>3, WrittenBackPlace, UnchangedKeeps, SetsTagsKeeps DEF TypeInv
  <2> QED
    BY <1>0, <2>1, <2>4, KeepsAll
<1> QED
  BY <1>0, <1>1, <1>2, <1>3, <1>4, CopyFindable, RetagFindable, DeleteFindable, StepCases

-----------------------------------------------------------------------------
(* A rename that runs alone has what it found to fall back on.             *)

LEMMA HeldInSource ==
    ASSUME AtHome, NEW c \in Clients, Renaming(c)
    PROVE  Within(req[c]) \subseteq Source(req[c].op)
BY DEF AtHome, WorkInOrder, Renaming, Within

LEMMA HeldKept ==
    ASSUME AtHome, NEW c \in Clients, Renaming(c), \A p \in Within(req[c]) : NamedAt(p),
           NEW some, Keeps(some), Within(req'[c]) \subseteq Within(req[c]) \ some
    PROVE  \A p \in Within(req'[c]) : NamedAt(p)'
BY HeldInSource DEF Keeps, Source

\* a request with no error left to meet: nothing more at hand than before
LEMMA HeldShrinks ==
    ASSUME NEW c \in Clients, Renaming(c)', NEW todo, todo \subseteq req[c].todo,
           GivesUp(c, todo) \/ \E status : Ended(c, status)
              \/ \E job, failed : Goes(c, "each", req[c].rows, todo, job, failed)
    PROVE  Within(req'[c]) = {row[1] : row \in req[c].rows} \cup {j.path : j \in todo}
<1>1. req'[c] # Idle
  BY RequestAssumption DEF Renaming, Renames, Idle
<1>2. req'[c].pc = "each" /\ req'[c].rows = req[c].rows /\ req'[c].todo = todo
  BY <1>1 DEF GivesUp, Ended, Goes
<1> QED
  BY <1>2 DEF Within, AtWork

LEMMA FindAlone ==
    ASSUME TypeInv, AtHome, Tagged, NEW c \in Clients, Finds(c), Renaming(c), Renaming(c)'
    PROVE  \A p \in Within(req'[c]) : NamedAt(p)'
<1>0. PICK kind : \E query : \E s1, s2 \in Statuses :
          AzureFind(c, kind, query, s1, s2) /\ query = RenameQuery(req[c].op)
  BY DEF Finds, Renaming
<1>1. req'[c] # Idle
  BY RequestAssumption DEF Renaming, Renames, Idle
<1>2. PICK query : /\ req[c].pc = "find" /\ images' = images /\ query = RenameQuery(req[c].op)
                   /\ Goes(c, "tags", MatchingRows(query), req[c].todo, req[c].job, req[c].failed)
  BY <1>0, <1>1, AzureFindSteps DEF At, Ended
<1>3. req'[c].rows = MatchingRows(query) /\ AtWork(req'[c]) = {}
  BY <1>2 DEF Goes, AtWork, AtHome, WorkInOrder, Renaming
<1>4. Within(req'[c]) = {row[1] : row \in MatchingRows(query)}
  BY <1>3 DEF Within
<1>5. \A row \in MatchingRows(query) : \E p \in Paths :
          row[1] = p /\ Has(p) /\ Satisfies(images[p].tags, query)
  BY DEF MatchingRows
<1>6. ASSUME NEW p \in Paths, Has(p), Satisfies(images[p].tags, query)
      PROVE  NamedAt(p)
  <2>1. images[p].tags # EmptyTags
    BY <1>2, <1>6, FoundInSource DEF AtHome, BlobsAtHome, Renaming
  <2> QED
    BY <1>6, <2>1 DEF Tagged, NamedAt
<1>7. \A p \in Paths : NamedAt(p) => NamedAt(p)'
  BY <1>2 DEF NamedAt, Has
<1> QED
  BY <1>4, <1>5, <1>6, <1>7

LEMMA RenameAlone ==
    ASSUME TypeInv, AtHome, Tagged, NEW c \in Clients, AzureStep(c), Renaming(c), Renaming(c)',
           \A p \in Within(req[c]) : NamedAt(p)
    PROVE  \A p \in Within(req'[c]) : NamedAt(p)'
<1>0. StoreTypeOK /\ req[c].op \in Renames /\ Within(req[c]) \subseteq Source(req[c].op)
      /\ Within(req[c]) = Within(req[c]) \ {}
      /\ req'[c] # Idle
  BY HeldInSource, RequestAssumption DEF TypeInv, Renaming, Renames, Idle
<1>1. CASE Finds(c)
  BY <1>1, FindAlone
<1>2. CASE \E kind : AzureFetch(c, kind, "500")
  <2>1. req[c].pc = "tags" /\ images' = images
    BY <1>2, AzureFetchSteps DEF At, Statuses
  <2>2. PICK r \in req[c].rows :
            Goes(c, IF req[c].rows = {r} THEN "each" ELSE "tags", req[c].rows \ {r},
                    req[c].todo \cup {RowJob(r)}, req[c].job, req[c].failed)
    BY <1>0, <1>2, AzureFetchSteps DEF Statuses, Ended
  <2>3. /\ AtWork(req'[c]) = req[c].todo \cup {RowJob(r)} /\ req'[c].rows \subseteq req[c].rows
        /\ AtWork(req[c]) = req[c].todo /\ RowJob(r).path = r[1]
    BY <2>1, <2>2 DEF Goes, AtWork, RowJob
  <2>4. Within(req'[c]) \subseteq Within(req[c])
    BY <2>3 DEF Within
  <2> QED
    BY <1>0, <2>1, <2>4, UnchangedKeeps, HeldKept
<1>3. ASSUME NEW kind \in RenameKinds, AzureRenameCopy(c, kind)
      PROVE  \A p \in Within(req'[c]) : NamedAt(p)'
  <2>1. req[c].pc = "each"
    BY <1>3, AzureRenameCopySteps
  <2>2. PICK j \in req[c].todo, q \in Paths :
            /\ q = NewPath(req[c].op, j.path) /\ j.path \in Paths
            /\ images' = images \/ CopiesTo(j.path, q)
            /\ \/ Goes(c, "retag", req[c].rows, req[c].todo \ {j}, j, req[c].failed)
               \/ GivesUp(c, req[c].todo \ {j})
    BY <1>3, AzureRenameCopySteps
  <2>3. AtWork(req[c]) = req[c].todo /\ j.path \in Within(req[c])
    BY <2>1, <2>2 DEF AtWork, Within
  <2>4. q \notin Source(req[c].op)
    BY <1>0, <2>2, <2>3, NewPathElsewhere
  <2>5. Keeps({q})
    BY <1>0, <2>2, UnchangedKeeps, CopiesToKeeps DEF Keeps
  <2>6. Within(req'[c]) \subseteq Within(req[c])
    <3>1. CASE Goes(c, "retag", req[c].rows, req[c].todo \ {j}, j, req[c].failed)
      BY <2>2, <2>3, <3>1 DEF Goes, Within, AtWork
    <3>2. CASE GivesUp(c, req[c].todo \ {j})
      <4>1. Within(req'[c]) = {row[1] : row \in req[c].rows} \cup {k.path : k \in req[c].todo \ {j}}
        BY <3>2, HeldShrinks
      <4> QED
        BY <2>3, <4>1 DEF Within
    <3> QED
      BY <2>2, <3>1, <3>2
  <2> QED
    BY <1>0, <2>4, <2>5, <2>6, HeldKept
<1>4. ASSUME NEW kind \in RenameKinds, RenameRetag(c, kind)
      PROVE  \A p \in Within(req'[c]) : NamedAt(p)'
  <2>1. PICK j \in Jobs, q \in Paths, t \in Tags :
          /\ req[c].pc = "retag" /\ j = req[c].job
          /\ q = NewPath(req[c].op, j.path) /\ t = NewTags(req[c].op, j)
          /\ images' = images \/ SetsTags(q, t)
          /\ \/ Goes(c, "delete", req[c].rows, req[c].todo, j, req[c].failed)
             \/ GivesUp(c, req[c].todo)
    BY <1>4, RenameRetagSteps
  <2>2. j \in AtWork(req[c]) /\ AtWork(req[c]) = req[c].todo \cup {j}
    BY <2>1 DEF AtWork
  <2>3. Names(q, t)
    BY <1>0, <2>1, <2>2, NewTagsPlace DEF Tagged, AtHome, WorkInOrder
  <2>4. Keeps({})
    BY <1>0, <2>1, <2>3, UnchangedKeeps, SetsTagsKeeps
  <2>5. Within(req'[c]) \subseteq Within(req[c])
    <3>1. CASE Goes(c, "delete", req[c].rows, req[c].todo, j, req[c].failed)
      BY <2>1, <2>2, <3>1 DEF Goes, Within, AtWork
    <3>2. CASE GivesUp(c, req[c].todo)
      <4>1. Within(req'[c]) = {row[1] : row \in req[c].rows} \cup {k.path : k \in req[c].todo}
        BY <3>2, HeldShrinks
      <4> QED
        BY <2>2, <4>1 DEF Within
    <3> QED
      BY <2>1, <3>1, <3>2
  <2> QED
    BY <1>0, <2>4, <2>5, HeldKept
<1>5. ASSUME NEW kind \in RenameKinds, AzureRenameDelete(c, kind)
      PROVE  \A p \in Within(req'[c]) : NamedAt(p)'
  <2>1. PICK p \in Paths :
          /\ req[c].pc = "delete" /\ p = req[c].job.path
          /\ images' = images \/ Drops(p)
          /\ \/ \E status : Ended(c, status)
             \/ \E job : Goes(c, "each", req[c].rows, req[c].todo, job, req[c].failed)
             \/ GivesUp(c, req[c].todo)
    BY <1>5, AzureRenameDeleteSteps
  <2>2. AtWork(req[c]) = req[c].todo \cup {req[c].job}
    BY <2>1 DEF AtWork
  <2>3. req[c].rows = {} /\ \A j \in req[c].todo : j.path # p
    BY <1>0, <2>1, <2>2 DEF AtHome, WorkInOrder
  <2>4. Within(req'[c]) = {row[1] : row \in req[c].rows} \cup {j.path : j \in req[c].todo}
    BY <2>1, HeldShrinks
  <2>5. Within(req'[c]) \subseteq Within(req[c]) \ {p}
    BY <2>2, <2>3, <2>4 DEF Within
  <2>6. Keeps({p})
    BY <1>0, <2>1, UnchangedKeeps, DropsKeeps DEF Keeps
  <2> QED
    BY <1>0, <2>5, <2>6, HeldKept
<1>6. ~AzureBrowseFetch(c)
  BY <1>0, AzureBrowseFetchSteps DEF At, Renames, RenameKinds
<1> QED
  BY <1>0, <1>1, <1>2, <1>3, <1>4, <1>5, <1>6, StepCases

\* the other handlers take no name away
LEMMA OtherStepKeeps ==
    ASSUME TypeInv, AtHome, Tagged, NEW c \in Clients, AzureStep(c), ~Renaming(c)
    PROVE  Keeps({})
<1>1. CASE Finds(c)
  BY <1>1, AzureFindSteps, UnchangedKeeps DEF Finds
<1>2. CASE \E kind : AzureFetch(c, kind, "500")
  BY <1>2, AzureFetchSteps, UnchangedKeeps DEF Statuses
<1>3. CASE AzureBrowseFetch(c)
  BY <1>3, AzureBrowseFetchSteps, UnchangedKeeps
<1>4. ASSUME NEW kind, WriteBack(c, kind)
      PROVE  Keeps({})
  <2>1. PICK j \in req[c].todo : \E t \in {Deleted(j.tags), CollectionCleared(j.tags)} :
                j \in Jobs /\ j.path \in Paths /\ (images' = images \/ SetsTags(j.path, t))
    BY <1>4, WriteBackSteps
  <2>2. Names(j.path, j.tags) /\ AtPlace(j.path, j.tags)
    BY DEF Tagged, AtHome, WorkInOrder, AtWork
  <2> QED
    BY <2>1, <2>2, WrittenBackPlace, UnchangedKeeps, SetsTagsKeeps DEF TypeInv
<1>5. \A kind \in RenameKinds :
        ~AzureRenameCopy(c, kind) /\ ~RenameRetag(c, kind) /\ ~AzureRenameDelete(c, kind)
  BY AzureRenameCopySteps, RenameRetagSteps, AzureRenameDeleteSteps
<1> QED
  BY <1>1, <1>2, <1>3, <1>4, <1>5, StepCases

LEMMA StepAlone ==
    ASSUME TypeInv, AtHome, Tagged, Alone, NEW c \in Clients, AzureStep(c),
           overlapped' = overlapped
    PROVE  Alone'
<1> SUFFICES ASSUME ~overlapped
             PROVE  /\ \A d, e \in Clients : Renaming(d)' /\ Renaming(e)' => d = e
                    /\ \A d \in Clients : Renaming(d)' => \A p \in Within(req'[d]) : NamedAt(p)'
  BY DEF Alone, Within, AtWork
<1>1. Others(c) /\ \A d \in Clients : Renaming(d)' => Renaming(d)
  BY StepMoves, RequestAssumption DEF Others, Renaming, Renames
<1>2. /\ \A d, e \in Clients : Renaming(d) /\ Renaming(e) => d = e
      /\ \A d \in Clients : Renaming(d) => \A p \in Within(req[d]) : NamedAt(p)
  BY DEF Alone
<1>3. ASSUME NEW d \in Clients, Renaming(d)', NEW p \in Within(req'[d])
      PROVE  NamedAt(p)'
  <2>1. CASE d = c
    BY <1>1, <1>2, <1>3, <2>1, RenameAlone
  <2>2. CASE d # c
    <3>1. Renaming(d) /\ ~Renaming(c) /\ req'[d] = req[d]
      BY <1>1, <1>2, <1>3, <2>2 DEF Others
    <3>2. NamedAt(p) /\ p \in Paths
      BY <1>2, <1>3, <3>1, HeldInSource DEF Source
    <3> QED
      BY <3>1, <3>2, OtherStepKeeps DEF Keeps
  <2> QED
    BY <2>1, <2>2
<1> QED
  BY <1>1, <1>2, <1>3

-----------------------------------------------------------------------------
(* Nothing is lost to the queries.                                         *)

LEMMA FoundIs ==
    PhotosFound <=> untagged \/ (overlapped /\ faults < MaxFaults) \/ AllFound
<1>1. \A p \in Paths : Findable(p) <=> Has(p) /\ (TagsNamePath(p) \/ AwaitsTags(p))
  BY DEF Findable, NamedAt, Names, TagsNamePath
<1> QED
  BY <1>1 DEF PhotosFound, AllFound

\* what a client does to the rest of the state, whatever it does
LEMMA StillFound ==
    ASSUME NeverMixed, AtHome, AtHome', Alone, AllFound, NEW c \in Clients,
           FoundFurther \/ (~overlapped /\ FallsBack(c))
    PROVE  AllFound'
<1>1. \A p \in Paths : /\ Has(p) => images[p].photo = Home[p]
                       /\ Findable(p)' => images'[p].photo = Home[p]
  BY DEF AtHome, BlobsAtHome, Findable, NamedAt
<1>2. \A p \in Paths : Findable(p) => Has(p)
  BY DEF Findable, NamedAt
<1>3. ASSUME NEW ph \in Photos
      PROVE  \E p \in Paths : Findable(p)' /\ images'[p].photo = ph
  <2>1. PICK p \in Paths : Findable(p) /\ Home[p] = ph
    BY <1>1, <1>2 DEF AllFound
  <2>2. CASE FoundFurther
    BY <1>1, <2>1, <2>2 DEF FoundFurther
  <2>3. CASE ~overlapped /\ FallsBack(c)
    <3>1. PICK o \in Within(req[c]) \cap Source(req[c].op) :
            /\ NamedAt(o) => NamedAt(o)'
            /\ Findable(p) /\ p # NewPath(req[c].op, o) => Findable(p)'
      BY <2>3 DEF FallsBack
    <3>2. Renaming(c) /\ o \in Paths /\ NamedAt(o)'
      BY <2>3, <3>1 DEF FallsBack, Alone, Source
    <3>3. Findable(o)' /\ Home[NewPath(req[c].op, o)] = Home[o]
      BY <3>1, <3>2 DEF Findable, NeverMixed, Renaming
    <3> QED
      BY <1>1, <2>1, <3>1, <3>2, <3>3
  <2> QED
    BY <2>2, <2>3
<1> QED
  BY <1>3 DEF AllFound

LEMMA StillCopied ==
    ASSUME OneWay, TypeInv, Alone, CopiedFindable, NEW c \in Clients, Others(c),
           FoundFurther \/ (~overlapped /\ FallsBack(c)),
           Renaming(c)' /\ req'[c].pc = "delete" =>
             \E p \in Paths : p = req'[c].job.path /\ \E q \in Paths : (Ahead(p, q) /\ Findable(q))'
    PROVE  CopiedFindable'
<1>1. ASSUME NEW d \in Clients, Renaming(d)', req'[d].pc = "delete"
      PROVE  \E p \in Paths : p = req'[d].job.path /\ \E q \in Paths : (Ahead(p, q) /\ Findable(q))'
  <2>1. CASE d = c
    BY <1>1, <2>1
  <2>2. CASE d # c
    <3>1. req'[d] = req[d] /\ Renaming(d) /\ req[d].pc = "delete"
      BY <1>1, <2>2 DEF Others, Renaming
    <3>2. ~(~overlapped /\ FallsBack(c))
      BY <2>2, <3>1 DEF Alone, FallsBack
    <3>3. PICK p \in Paths, q \in Paths : p = req[d].job.path /\ Ahead(p, q) /\ Findable(q)
      BY <3>1, JobAtDelete DEF CopiedFindable
    <3>4. PICK o \in Paths : Home[o] = Home[p] /\ Rank[p] < Rank[o] /\ Findable(o)'
      <4>1. Home[q] = Home[p] /\ Rank[p] < Rank[q]
        BY <3>3 DEF Ahead
      <4>2. CASE Findable(q)'
        BY <4>1, <4>2
      <4>3. ASSUME NEW o \in Paths, Home[o] = Home[q], Rank[q] < Rank[o], Findable(o)'
            PROVE  Home[o] = Home[p] /\ Rank[p] < Rank[o]
        BY <4>1, <4>3 DEF OneWay
      <4> QED
        BY <3>2, <3>3, <4>2, <4>3 DEF FoundFurther
    <3>5. Ahead(p, o)'
      BY <3>4 DEF Ahead, Findable, NamedAt
    <3> QED
      BY <3>1, <3>3, <3>4, <3>5
  <2> QED
    BY <2>1, <2>2
<1>2. \A d \in Clients : (Renaming(d) /\ req[d].pc = "delete")' =>
          \E q \in Paths : (Ahead(req[d].job.path, q) /\ Findable(q))'
  BY <1>1 DEF Ahead
<1> QED
  BY <1>2 DEF CopiedFindable

LEMMA StepCalls ==
    ASSUME TypeInv, NEW c \in Clients, AzureStep(c)
    PROVE  CallWorks \/ CallFails
<1>1. CASE Finds(c)
  BY <1>1, AzureFindSteps DEF Finds
<1>2. CASE \E kind : AzureFetch(c, kind, "500")
  BY <1>2, AzureFetchSteps DEF Statuses
<1>3. ASSUME NEW kind \in RenameKinds, AzureRenameCopy(c, kind)
      PROVE  CallWorks \/ CallFails
  BY <1>3, AzureRenameCopySteps
<1>4. ASSUME NEW kind \in RenameKinds, RenameRetag(c, kind)
      PROVE  CallWorks \/ CallFails
  BY <1>4, RenameRetagSteps
<1> QED
  BY <1>1, <1>2, <1>3, <1>4, AzureBrowseFetchSteps, WriteBackSteps, AzureRenameDeleteSteps, StepCases

\* the retagged copy of what a rename deletes next can be found
LEMMA RetaggedFindable ==
    ASSUME OneWay, NeverMixed, TypeInv, AtHome, Tagged, NEW c \in Clients, AzureStep(c),
           req'[c].pc = "delete"
    PROVE  \E p \in Paths : p = req'[c].job.path /\ \E q \in Paths : (Ahead(p, q) /\ Findable(q))'
<1>1. PICK j \in Jobs, q \in Paths, t \in Tags :
        /\ Renaming(c) /\ req[c].pc = "retag" /\ j = req[c].job /\ j.path \in Paths
        /\ q = NewPath(req[c].op, j.path) /\ t = NewTags(req[c].op, j)
        /\ SetsTags(q, t) /\ req'[c].job = j
  BY ReachesDelete DEF Goes
<1>2. j.path \in Source(req[c].op) /\ req[c].op \in Renames /\ Names(j.path, j.tags)
      /\ AtPlace(j.path, j.tags)
  BY <1>1 DEF Tagged, AtHome, WorkInOrder, AtWork, Renaming
<1>3. Names(q, t)
  BY <1>1, <1>2, NewTagsPlace
<1>4. NamedAt(q)'
  BY <1>1, <1>3, SetsTagsKeeps DEF TypeInv
<1>5. Ahead(j.path, q)
  BY <1>1, <1>2, CopyAhead DEF SetsTags
<1>6. PICK p \in Paths : p = j.path
  BY <1>1
<1>7. (Ahead(p, q) /\ Findable(q))'
  BY <1>4, <1>5, <1>6 DEF Ahead, Findable, NamedAt
<1> QED
  BY <1>1, <1>6, <1>7

\* the exceptions stay exceptions
LEMMA ExceptionsStay ==
    ASSUME TypeInv, CallWorks \/ CallFails, overlapped => overlapped',
           ~(overlapped /\ faults < MaxFaults)'
    PROVE  /\ ~(overlapped /\ faults < MaxFaults)
           /\ CallFails => ~overlapped
BY LibraryAssumption DEF TypeInv, StoreTypeOK, CallWorks, CallFails

LEMMA StepNoneHidden ==
    ASSUME OneWay, NeverMixed, TypeInv, AtHome, AtHome', NoneHidden,
           NEW c \in Clients, AzureStep(c), untagged' = (untagged \/ ReadsUntagged(c)),
           overlapped' = overlapped
    PROVE  NoneHidden'
<1> SUFFICES ASSUME ~untagged'
             PROVE  /\ Tagged'
                    /\ ~(overlapped /\ faults < MaxFaults)' => (Alone /\ CopiedFindable /\ AllFound)'
  BY DEF NoneHidden
<1>1. Tagged /\ ~untagged /\ ~ReadsUntagged(c)
  BY DEF NoneHidden
<1>2. Tagged'
  BY <1>1, StepTagged
<1>3. ASSUME ~(overlapped /\ faults < MaxFaults)'
      PROVE  (Alone /\ CopiedFindable /\ AllFound)'
  <2>1. ~(overlapped /\ faults < MaxFaults) /\ (CallFails => ~overlapped)
    BY <1>3, StepCalls, ExceptionsStay
  <2>2. Alone /\ CopiedFindable /\ AllFound
    BY <1>1, <2>1 DEF NoneHidden
  <2>3. FoundFurther \/ (~overlapped /\ FallsBack(c))
    BY <1>1, <2>1, <2>2, StepFindable DEF FallsBack
  <2>4. Alone'
    BY <1>1, <2>2, StepAlone
  <2>5. CopiedFindable'
    BY <1>1, <2>2, <2>3, StepMoves, RetaggedFindable, StillCopied
  <2>6. AllFound'
    BY <2>2, <2>3, StillFound
  <2> QED
    BY <2>4, <2>5, <2>6
<1> QED
  BY <1>2, <1>3

\* a step that changes no blob and leaves the client nothing at hand
LEMMA FreshNoneHidden ==
    ASSUME OneWay, NeverMixed, TypeInv, AtHome, AtHome', NoneHidden,
           NEW c \in Clients, Others(c), images' = images, CallWorks \/ CallFails,
           AtWork(req'[c]) = {}, req'[c].rows = {}, req'[c].pc # "delete",
           CallWorks => ~(Renaming(c) /\ req[c].pc = "retag"),
           untagged' = untagged, overlapped => overlapped',
           overlapped' \/ \A d, e \in Clients : Renaming(d)' /\ Renaming(e)' => d = e
    PROVE  NoneHidden'
<1> SUFFICES ASSUME ~untagged'
             PROVE  /\ Tagged'
                    /\ ~(overlapped /\ faults < MaxFaults)' => (Alone /\ CopiedFindable /\ AllFound)'
  BY DEF NoneHidden
<1>1. Tagged
  BY DEF NoneHidden
<1>2. Tagged'
  <2>1. WorkTagged(req'[c]) /\ BlobsTagged
    BY <1>1 DEF WorkTagged, Tagged, BlobsTagged
  <2> QED
    BY <1>1, <2>1, BlobsTaggedStay, TaggedGlue
<1>3. ASSUME ~(overlapped /\ faults < MaxFaults)'
      PROVE  (Alone /\ CopiedFindable /\ AllFound)'
  <2>1. ~(overlapped /\ faults < MaxFaults) /\ (CallFails => ~overlapped)
    BY <1>3, ExceptionsStay
  <2>2. Alone /\ CopiedFindable /\ AllFound
    BY <1>1, <2>1 DEF NoneHidden
  <2>3. FoundFurther \/ (~overlapped /\ FallsBack(c))
    <3>1. CASE ~(Renaming(c) /\ req[c].pc = "retag")
      BY <3>1, UnchangedKeeps, KeepsAll DEF NoneHides, FoundFurther
    <3>2. CASE Renaming(c) /\ req[c].pc = "retag"
      <4>1. CallFails /\ ~overlapped
        BY <2>1, <3>2
      <4>2. PICK p \in Paths : p = req[c].job.path
        BY <3>2, JobAtDelete
      <4>3. p \in Within(req[c]) /\ p \in Source(req[c].op)
        BY <3>2, <4>2, HeldInSource DEF Within, AtWork
      <4>4. \A o \in Paths : Findable(o) /\ o # NewPath(req[c].op, p) => Findable(o)'
        BY <4>2, UnchangedKeeps, FindableKept
      <4>5. NamedAt(p) => NamedAt(p)'
        BY UnchangedKeeps DEF Keeps
      <4> QED
        BY <3>2, <4>1, <4>3, <4>4, <4>5 DEF FallsBack
    <3> QED
      BY <3>1, <3>2
  <2>4. Alone'
    <3> SUFFICES ASSUME ~overlapped'
                 PROVE  \A d \in Clients : Renaming(d)' => \A p \in Within(req'[d]) : NamedAt(p)'
      BY DEF Alone, Within, AtWork
    <3>1. Within(req'[c]) = {}
      BY DEF Within
    <3>2. ASSUME NEW d \in Clients, d # c, Renaming(d)', NEW p \in Within(req'[d])
          PROVE  NamedAt(p)'
      <4>1. req'[d] = req[d] /\ Renaming(d)
        BY <3>2 DEF Others, Renaming
      <4>2. NamedAt(p) /\ p \in Paths
        BY <2>2, <3>2, <4>1, HeldInSource DEF Alone, Source
      <4> QED
        BY <4>2, UnchangedKeeps DEF Keeps
    <3> QED
      BY <3>1, <3>2
  <2>5. CopiedFindable'
    BY <2>2, <2>3, StillCopied
  <2>6. AllFound'
    BY <2>2, <2>3, StillFound
  <2> QED
    BY <2>4, <2>5, <2>6
<1> QED
  BY <1>2, <1>3

LEMMA NextNoneHidden ==
    ASSUME OneWay, NeverMixed, AzureTypeInv, AtHome, AtHome', NoneHidden, [AzureNext]_azureVars
    PROVE  NoneHidden'
<1>0. TypeInv
  BY DEF AzureTypeInv
<1>1. ASSUME NEW c \in Clients, AzureStep(c), untagged' = (untagged \/ ReadsUntagged(c)),
             overlapped' = overlapped
      PROVE  NoneHidden'
  BY <1>0, <1>1, StepNoneHidden
<1>2. ASSUME NEW c \in Clients, CutOff(c), UNCHANGED <<overlapped, untagged>>
      PROVE  NoneHidden'
  <2>1. images' = images /\ CallFails /\ ~CallWorks /\ Others(c) /\ req'[c] = Idle
    BY <1>0, <1>2, CutOffSteps DEF Ended, CallFails, CallWorks, TypeInv, StoreTypeOK
  <2>2. AtWork(req'[c]) = {} /\ req'[c].rows = {} /\ req'[c].pc # "delete" /\ ~Renaming(c)'
    BY <2>1, RequestAssumption DEF AtWork, Idle, Renaming, Renames
  <2>3. \A d \in Clients : Renaming(d)' => Renaming(d)
    BY <2>1, <2>2 DEF Others, Renaming
  <2>4. untagged => NoneHidden'
    BY <1>2 DEF NoneHidden
  <2>5. ~untagged => overlapped \/ \A d, e \in Clients : Renaming(d) /\ Renaming(e) => d = e
    BY DEF NoneHidden, Alone
  <2>6. ~untagged => overlapped' \/ \A d, e \in Clients : Renaming(d)' /\ Renaming(e)' => d = e
    BY <1>2, <2>3, <2>5
  <2> QED
    BY <1>0, <1>2, <2>1, <2>2, <2>4, <2>6, FreshNoneHidden
<1>3. ASSUME NEW c \in Clients, NEW r \in Requests, Submit(c, r),
             overlapped' = (overlapped \/ RenamesOverlap'), untagged' = untagged
      PROVE  NoneHidden'
  <2>1. /\ images' = images /\ CallWorks /\ req[c].pc = "idle" /\ Others(c)
        /\ req'[c].pc \in {"find", "get"} /\ req'[c].rows = {} /\ req'[c].todo = {}
    BY <1>0, <1>3, SubmitSteps DEF CallWorks
  <2>2. AtWork(req'[c]) = {}
    BY <2>1 DEF AtWork
  <2>3. overlapped' \/ \A d, e \in Clients : Renaming(d)' /\ Renaming(e)' => d = e
    BY <1>3 DEF RenamesOverlap
  <2> QED
    BY <1>0, <1>3, <2>1, <2>2, <2>3, FreshNoneHidden
<1>4. CASE UNCHANGED azureVars
  BY <1>4 DEF azureVars, vars, NoneHidden, Tagged, Alone, CopiedFindable, AllFound, Findable,
              NamedAt, AwaitsTags, Ahead, Renaming, Has, Within, AtWork
<1> QED
  BY <1>1, <1>2, <1>3, <1>4 DEF AzureNext, azureVars, Finished, vars

LEMMA InitNoneHidden ==
    ASSUME NeverMixed, AzureInit
    PROVE  NoneHidden
<1>1. /\ images \in Libraries /\ \A c \in Clients : req[c] = Idle
      /\ overlapped = FALSE
  BY DEF AzureInit, StoreInit
<1>2. \A c \in Clients : ~Renaming(c) /\ AtWork(req[c]) = {}
  BY <1>1, RequestAssumption DEF Idle, Renaming, Renames, AtWork
<1>3. \A p \in Paths : Has(p) => Names(p, images[p].tags)
  BY <1>1 DEF NeverMixed, Has
<1>4. Tagged
  BY <1>2, <1>3 DEF Tagged
<1>5. Alone /\ CopiedFindable
  BY <1>2 DEF Alone, CopiedFindable
<1>6. AllFound
  BY <1>1, <1>3 DEF AllFound, Findable, NamedAt, NeverMixed, Has
<1> QED
  BY <1>4, <1>5, <1>6 DEF NoneHidden

\* On the production store a query finds every photo under the names of its
\* path, or will when the rename at hand has tagged it: unless renames overlap
\* and one fails, or a handler has read a copy without tags, for any library,
\* workload and number of clients, provided that renames take blobs one way
\* only and never two photos to one path (rename.go:76-101, azure.go:207-232).
THEOREM AzureRenamesHideNoPhoto ==
    ASSUME OneWay, NeverMixed
    PROVE  AzureSpec => []PhotosFound
<1>1. AzureInit => AzureTypeInv /\ AtHome /\ NoneHidden
  BY AzureInitType, InitAtHome, InitNoneHidden
<1>2. AzureTypeInv /\ AtHome /\ NoneHidden /\ [AzureNext]_azureVars
        => (AzureTypeInv /\ AtHome /\ NoneHidden)'
  BY AzureNextType, NextAtHome, NextNoneHidden DEF AzureTypeInv
<1>3. NoneHidden => PhotosFound
  BY FoundIs DEF NoneHidden
<1> QED
  BY <1>1, <1>2, <1>3, PTL DEF AzureSpec
==============================================================================
