-------------------------- MODULE SafeRenamesProofs --------------------------
(***************************************************************************)
(* Separate renames lose no photo: the invariant Safe of SafeRenames is    *)
(* inductive, for any library, workload and number of clients.             *)
(***************************************************************************)
EXTENDS SafeRenames, PhotoApiProofs

-----------------------------------------------------------------------------
(* Paths and places.                                                       *)

LEMMA NewPathInjective ==
    ASSUME NEW r \in Renames, NEW p \in Source(r), NEW q \in Source(r),
           NewPath(r, p) = NewPath(r, q)
    PROVE  p = q
<1>1. p \in Paths /\ q \in Paths /\ p[1] = r.collection /\ q[1] = r.collection
  BY DEF Source
<1>2. CASE r.kind = "renameCollection"
  <2>1. p[2] = q[2] /\ p[3] = q[3]
    BY <1>2 DEF NewPath
  <2> QED
    BY <1>1, <2>1, PathFields
<1>3. CASE r.kind = "renameAlbum"
  <2>1. p[2] = r.album /\ q[2] = r.album
    BY <1>3 DEF Source
  <2>2. p[3] = q[3]
    BY <1>3 DEF NewPath
  <2> QED
    BY <1>1, <2>1, <2>2, PathFields
<1> QED
  BY <1>2, <1>3, RenameFields DEF RenameKinds

\* no two renames meet, and none meets itself
LEMMA Apart ==
    ASSUME SeparateRenames, NEW r \in Renames, NEW s \in Renames
    PROVE  /\ \A p \in Source(r) : p \notin Target(s)
           /\ r # s => \A p \in Source(r) : p \notin Source(s)
           /\ r # s => \A p \in Target(r) : p \notin Target(s)
BY DEF SeparateRenames

LEMMA PlacedInSource ==
    ASSUME SeparateRenames, NEW r \in Renames, NEW p \in Source(r), NEW tags, Placed(p, tags)
    PROVE  tags.collection \in {p[1], None} /\ tags.album \in {p[2], None}
BY Apart DEF Placed

LEMMA PlacedAlike ==
    ASSUME NEW p, NEW tags, NEW t, Placed(p, tags),
           t.collection = tags.collection, t.album = tags.album
    PROVE  Placed(p, t)
BY DEF Placed

LEMMA EmptyTagsPlaced == ASSUME NEW p PROVE Placed(p, EmptyTags)
BY DEF Placed, EmptyTags

LEMMA FirstTagsPlaced ==
    ASSUME NEW p, NEW tags, NEW n, Placed(p, tags)
    PROVE  Placed(p, FirstTags(tags, n))
<1>1. /\ FirstTags(tags, n).collection \in {tags.collection, None}
      /\ FirstTags(tags, n).album \in {tags.album, None}
  BY DEF FirstTags
<1> QED
  BY <1>1 DEF Placed

\* what a rename finds is at its source, or is what it made itself
LEMMA FoundInRegion ==
    ASSUME SeparateRenames, NEW r \in Renames, NEW p \in Paths, NEW tags,
           Placed(p, tags), Satisfies(tags, RenameQuery(r))
    PROVE  p \in Source(r) \cup Target(r)
<1>1. r.collection \in Collections /\ r.collection # None
  BY RenameFields, NoneAssumption
<1>2. CASE r.kind = "renameCollection"
  <2>1. tags.collection = r.collection
    BY <1>2 DEF Satisfies, RenameQuery
  <2>2. CASE p[1] = r.collection
    BY <1>2, <2>2 DEF Source
  <2>3. ASSUME NEW s \in Renames, s.kind = "renameCollection", p \in Target(s),
               tags.collection = s.collection
        PROVE  p \in Target(r)
    <3>1. PICK q \in Source(s) : p = NewPath(s, q)
      BY <2>3 DEF Target
    <3>2. q \in Source(r)
      BY <1>2, <2>1, <2>3 DEF Source
    <3>3. r = s
      BY <3>2, Apart
    <3> QED
      BY <2>3, <3>3
  <2> QED
    BY <1>1, <2>1, <2>2, <2>3 DEF Placed
<1>3. CASE r.kind = "renameAlbum"
  <2>1. tags.collection = r.collection /\ tags.album = r.album
    BY <1>3 DEF Satisfies, RenameQuery
  <2>2. r.album \in Albums /\ r.album # None
    BY <1>3, RenameFields, NoneAssumption
  <2>3. p[1] = r.collection
    <3>1. ASSUME NEW s \in Renames, s.kind = "renameCollection", p \in Target(s),
                 tags.collection = s.collection
          PROVE  FALSE
      <4> DEFINE q == <<r.collection, r.album, p[3]>>
      <4>1. q \in Paths
        BY <1>1, <2>2, PathFields DEF Paths
      <4>2. q \in Source(r) /\ q \in Source(s)
        BY <1>3, <2>1, <3>1, <4>1 DEF Source
      <4> QED
        BY <1>3, <3>1, <4>2, Apart
    <3> QED
      BY <1>1, <2>1, <3>1 DEF Placed
  <2>4. CASE p[2] = r.album
    BY <2>3, <2>4 DEF Source
  <2>5. ASSUME NEW s \in Renames, s.kind = "renameAlbum", p \in Target(s), tags.album = s.album
        PROVE  p \in Target(r)
    <3>1. PICK q \in Source(s) : p = NewPath(s, q)
      BY <2>5 DEF Target
    <3>2. q \in Paths /\ q[1] = p[1] /\ q[2] = r.album
      BY <2>1, <2>5, <3>1 DEF Source, NewPath
    <3>3. q \in Source(r)
      BY <2>3, <3>2 DEF Source
    <3>4. r = s
      BY <3>3, Apart
    <3> QED
      BY <2>5, <3>4
  <2> QED
    BY <2>1, <2>2, <2>4, <2>5 DEF Placed
<1> QED
  BY <1>2, <1>3, RenameFields DEF RenameKinds

\* tags of a photo may travel with it
LEMMA PlacedCopy ==
    ASSUME SeparateRenames, NEW r \in Renames, NEW p \in Source(r), NEW tags, Placed(p, tags)
    PROVE  Placed(NewPath(r, p), tags)
<1> DEFINE q == NewPath(r, p)
<1>1. q \in Target(r) /\ p \in Paths /\ p[1] = r.collection
  BY TargetPaths DEF Source
<1>2. tags.collection \in {p[1], None} /\ tags.album \in {p[2], None}
  BY PlacedInSource
<1>3. CASE r.kind = "renameCollection"
  <2>1. q[2] = p[2]
    BY <1>3 DEF NewPath
  <2> QED
    BY <1>1, <1>2, <1>3, <2>1 DEF Placed
<1>4. CASE r.kind = "renameAlbum"
  <2>1. q[1] = p[1]
    BY <1>4 DEF NewPath
  <2>2. p[2] = r.album
    BY <1>4 DEF Source
  <2> QED
    BY <1>1, <1>2, <1>4, <2>1, <2>2 DEF Placed
<1> QED
  BY <1>3, <1>4, RenameFields DEF RenameKinds

LEMMA PlacedNewTags ==
    ASSUME SeparateRenames, NEW r \in Renames, NEW j \in Jobs, j.path \in Source(r),
           Placed(j.path, j.tags)
    PROVE  Placed(NewPath(r, j.path), NewTags(r, j))
<1> DEFINE p == j.path
           q == NewPath(r, p)
           t == NewTags(r, j)
<1>1. j.tags \in Tags
  BY DEF Jobs
<1>2. Placed(q, j.tags)
  BY PlacedCopy
<1>3. CASE r.kind = "renameCollection"
  <2>1. q[1] = r.newName /\ t.collection = r.newName /\ t.album = j.tags.album
    BY <1>1, <1>3 DEF NewPath, NewTags, Tags
  <2> QED
    BY <1>2, <2>1 DEF Placed
<1>4. CASE r.kind = "renameAlbum"
  <2>1. q[2] = r.newName /\ t.album = r.newName /\ t.collection = j.tags.collection
    BY <1>1, <1>4 DEF NewPath, NewTags, Tags
  <2> QED
    BY <1>2, <2>1 DEF Placed
<1> QED
  BY <1>3, <1>4, RenameFields DEF RenameKinds

-----------------------------------------------------------------------------
(* Steps that move no photo.                                               *)

SamePhotos ==
    \A p \in Paths : /\ (images'[p] # NoBlob) <=> Has(p)
                     /\ Has(p) => images'[p].photo = images[p].photo

\* tags are all such a step changes, and it places them
Retags == SamePhotos /\ BlobsPlaced'

LEMMA SameImages ==
    ASSUME Safe, UNCHANGED images
    PROVE  Retags
BY DEF Safe, Retags, SamePhotos, BlobsPlaced, Has, Placed

LEMMA SetBlobTagsSafe ==
    ASSUME StoreTypeOK, Safe, NEW p \in Paths, NEW tags \in Tags, Placed(p, tags),
           NEW ok \in BOOLEAN, SetBlobTags(p, tags, ok)
    PROVE  Retags
<1>1. CASE UNCHANGED images
  BY <1>1, SameImages
<1>2. CASE Has(p) /\ images' = Retagged(p, tags)
  <2>1. images[p] \in Blobs
    BY <1>2 DEF StoreTypeOK, Has
  <2>2. images'[p] = [images[p] EXCEPT !.tags = tags]
    BY <1>2 DEF Retagged, StoreTypeOK
  <2>3. images'[p] \in Blobs /\ images'[p].photo = images[p].photo /\ images'[p].tags = tags
    BY <2>1, <2>2 DEF Blobs
  <2>4. \A q \in Paths : q # p => images'[q] = images[q]
    BY <1>2 DEF Retagged, StoreTypeOK
  <2>5. SamePhotos
    BY <1>2, <2>3, <2>4, NoneAssumption DEF SamePhotos, Has
  <2>6. \A q \in Paths : images'[q] # NoBlob => Placed(q, images'[q].tags)
    BY <2>3, <2>4 DEF Safe, BlobsPlaced, Has
  <2> QED
    BY <2>5, <2>6 DEF Retags, BlobsPlaced, Has, Placed
<1> QED
  BY <1>1, <1>2 DEF SetBlobTags

\* what a handler relies on survives such a step
LEMMA WorkKept ==
    ASSUME TypeInv', SamePhotos, pending' \subseteq pending, NEW c \in Clients, NEW s,
           req'[c] = s, WorkSafe(s)
    PROVE  WorkSafe(req[c])'
<1> SUFFICES ASSUME s.op # None
             PROVE  WorkSafe(req[c])'
  BY DEF WorkSafe
<1>1. /\ \A j \in s.todo : Placed(j.path, j.tags)
      /\ s.job # None => Placed(s.job.path, s.job.tags)
      /\ s.pc = "set" /\ s.op.kind \in ThumbnailKinds => Placed(s.op.image, s.tags)
  BY DEF WorkSafe
<1>2. (/\ \A j \in req[c].todo : Placed(j.path, j.tags)
       /\ req[c].job # None => Placed(req[c].job.path, req[c].job.tags)
       /\ req[c].pc = "set" /\ req[c].op.kind \in ThumbnailKinds
            => Placed(req[c].op.image, req[c].tags))'
  BY <1>1 DEF Placed
<1>3. ASSUME s.op \in Renames
      PROVE  RenameSafe(req[c])'
  <2>1. RenameSafe(s)
    BY <1>3 DEF WorkSafe
  <2>2. s.pc \in {"copyTags", "save", "retag", "delete"} =>
            s.job.path \in Paths /\ NewPath(s.op, s.job.path) \in Paths
    <3>1. s \in RequestState /\ AtHand(s)
      BY DEF TypeInv, RequestsOK, RequestTypeOK, AtHand, Chooses
    <3> QED
      BY <1>3, <3>1, NewPathType DEF AtHand, RequestState, Jobs
  <2>3. Target(s.op) \subseteq Paths
    BY <1>3, TargetPaths
  <2>4. s.op \notin pending' /\ (s.pc = "find" => \A p \in Target(s.op) : images'[p] = NoBlob)
    BY <2>1, <2>3 DEF RenameSafe, Unused, SamePhotos, Has
  <2>5. s.pc \in {"copyTags", "save"} =>
            images'[s.job.path] # NoBlob /\ images'[s.job.path].photo = s.photo
    BY <2>1, <2>2 DEF RenameSafe, SamePhotos
  <2>6. s.pc \in {"retag", "delete"} =>
          LET dst == NewPath(s.op, s.job.path)
          IN  /\ images'[s.job.path] # NoBlob /\ images'[dst] # NoBlob
              /\ images'[dst].photo = images'[s.job.path].photo
    BY <2>1, <2>2 DEF RenameSafe, SamePhotos
  <2>7. /\ \A row \in s.rows : row[1] \in Source(s.op)
        /\ \A j \in s.todo : j.path \in Source(s.op)
        /\ s.job # None => s.job.path \in Source(s.op)
        /\ s.pc = "save" => Placed(s.job.path, s.tags)
    BY <2>1 DEF RenameSafe
  <2> QED
    BY <2>4, <2>5, <2>6, <2>7
       DEF RenameSafe, Unused, Has, Placed, Source, Target, NewPath
<1> QED
  BY <1>2, <1>3 DEF WorkSafe

LEMMA RetagStepSafe ==
    ASSUME TypeInv, TypeInv', Safe, Retags, pending' = pending, NEW c \in Clients, NEW s,
           req' = [req EXCEPT ![c] = s], s.op \in {req[c].op, None}, WorkSafe(s)
    PROVE  Safe'
<1>0. /\ \A d \in Clients : req'[d] = IF d = c THEN s ELSE req[d]
      /\ SamePhotos
  BY DEF TypeInv, RequestsOK, RequestTypeOK, Retags
<1>1. BlobsPlaced'
  BY DEF Retags
<1>2. (\A r \in Renames : r \in pending => Unused(r))'
  <2>1. \A r \in Renames : r \in pending' => \A p \in Target(r) : images'[p] = NoBlob
    BY <1>0, TargetPaths DEF Safe, Unused, SamePhotos, Has
  <2> QED
    BY <2>1 DEF Unused, Has, Target, Source, NewPath
<1>3. CopiesAgree'
  <2>1. \A r \in Renames : \A p \in Source(r) : p \in Paths /\ NewPath(r, p) \in Paths
    BY TargetPaths
  <2>2. \A r \in Renames : \A p \in Source(r) :
            images'[p] # NoBlob /\ images'[NewPath(r, p)] # NoBlob
              => images'[p].photo = images'[NewPath(r, p)].photo
    BY <1>0, <2>1 DEF Safe, CopiesAgree, SamePhotos
  <2> QED
    BY <2>2 DEF CopiesAgree, Has, Source, NewPath
<1>4. OneRunner'
  <2>1. \A d, e \in Clients :
            req'[d].op \in Renames /\ req'[d].op = req'[e].op => d = e
    BY <1>0, RequestAssumption DEF Safe, OneRunner, Renames
  <2> QED
    BY <2>1 DEF OneRunner
<1>5. ASSUME NEW d \in Clients
      PROVE  WorkSafe(req[d])'
  <2>1. CASE d = c
    BY <1>0, <2>1, WorkKept
  <2>2. CASE d # c
    <3>1. WorkSafe(req[d]) /\ req'[d] = req[d]
      BY <1>0, <2>2 DEF Safe
    <3> QED
      BY <1>0, <3>1, WorkKept
  <2> QED
    BY <2>1, <2>2
<1>6. NoPhotoLost'
  BY <1>0 DEF Safe, NoPhotoLost, SamePhotos, Has
<1> QED
  BY <1>1, <1>2, <1>3, <1>4, <1>5, <1>6 DEF Safe

LEMMA GoOnSafe ==
    ASSUME TypeInv, TypeInv', Safe, Retags, NEW c \in Clients, NEW s, Continue(c, s),
           s.op = req[c].op, WorkSafe(s)
    PROVE  Safe'
BY RetagStepSafe DEF Continue

LEMMA ReplySafe ==
    ASSUME TypeInv, TypeInv', Safe, Retags, NEW c \in Clients, NEW status, NEW d,
           AnswerWith(c, status, d)
    PROVE  Safe'
<1>1. Idle.op = None /\ WorkSafe(Idle)
  BY DEF Idle, WorkSafe
<1> QED
  BY <1>1, RetagStepSafe DEF AnswerWith

LEMMA ReplyPlainSafe ==
    ASSUME TypeInv, TypeInv', Safe, Retags, NEW c \in Clients, NEW status, Answer(c, status)
    PROVE  Safe'
BY ReplySafe DEF Answer

\* s goes on with the blobs of todo, which may all be its own
LEMMA LoopSafe ==
    ASSUME TypeInv, TypeInv', Safe, Retags, NEW c \in Clients, req[c].op # None,
           NEW todo, NEW failed, NEW s \in RequestState, NextOrAnswer(c, todo, failed, s),
           s.op = req[c].op,
           \A j \in todo : Placed(j.path, j.tags),
           s.job # None => Placed(s.job.path, s.job.tags),
           s.op \in Renames => /\ \A row \in s.rows : row[1] \in Source(s.op)
                               /\ \A j \in todo : j.path \in Source(s.op)
                               /\ s.job # None => s.job.path \in Source(s.op)
    PROVE  Safe'
<1>1. CASE todo = {}
  BY <1>1, ReplyPlainSafe DEF NextOrAnswer
<1>2. CASE todo # {}
  <2> DEFINE t == [s EXCEPT !.pc = "each", !.todo = todo, !.failed = failed]
  <2>1. /\ t.op = req[c].op /\ t.todo = todo /\ t.pc = "each"
        /\ t.job = s.job /\ t.rows = s.rows
    BY DEF RequestState
  <2>2. s.op \in Renames => s.op \notin pending
    BY DEF Safe, WorkSafe, RenameSafe
  <2> HIDE DEF t
  <2>3. t.op \in Renames => RenameSafe(t)
    BY <2>1, <2>2 DEF RenameSafe
  <2>4. WorkSafe(t)
    BY <2>1, <2>3 DEF WorkSafe
  <2>5. Continue(c, t)
    BY <1>2 DEF NextOrAnswer, t
  <2> QED
    BY <2>1, <2>4, <2>5, GoOnSafe
<1> QED
  BY <1>1, <1>2

LEMMA FetchedPlaced ==
    ASSUME TypeInv, Safe, NEW c \in Clients, NEW jobs \in Fetches(req[c].rows)
    PROVE  /\ \A j \in jobs : Placed(j.path, j.tags)
           /\ \A j \in jobs : \E row \in req[c].rows : j.path = row[1]
<1>1. \A row \in req[c].rows : row[1] \in Paths
  BY DEF TypeInv, RequestsOK, RequestTypeOK, RequestState
<1>2. \A row \in req[c].rows : Placed(row[1], TagsOfRow(row))
  BY <1>1, EmptyTagsPlaced DEF TagsOfRow, Safe, BlobsPlaced
<1>3. CASE jobs = WithTags(req[c].rows)
  BY <1>2, <1>3 DEF WithTags
<1>4. ASSUME NEW last \in req[c].rows, NEW n \in 0..6, jobs = WithSomeTags(req[c].rows, last, n)
      PROVE  \A j \in jobs : Placed(j.path, j.tags)
  <2>1. \A row \in req[c].rows : Placed(row[1], FirstTags(TagsOfRow(row), n))
    BY <1>2, FirstTagsPlaced
  <2> QED
    BY <1>2, <1>4, <2>1, EmptyTagsPlaced DEF WithSomeTags
<1> QED
  BY <1>3, <1>4, FetchedPaths DEF Fetches

-----------------------------------------------------------------------------
(* Steps the handlers share.                                               *)

LEMMA FindBlobsSafe ==
    ASSUME SeparateRenames, TypeInv, TypeInv', Safe, NEW c \in Clients, NEW query, FindBlobs(c, query),
           req[c].op # None,
           req[c].op \in Renames => query = RenameQuery(req[c].op) /\ req[c].pc = "find"
    PROVE  Safe'
<1>6. PICK rows \in SUBSET MatchingRows(query), cut \in SUBSET {"rows", "tags"} :
         /\ Continue(c, [req[c] EXCEPT !.pc = "tags", !.rows = rows, !.cut = cut])
         /\ images' = images
  BY FindBlobsSteps
<1> DEFINE s == [req[c] EXCEPT !.pc = "tags", !.rows = rows, !.cut = cut]
<1>0. Retags
  BY <1>6, SameImages
<1>1. /\ s.op = req[c].op /\ s.todo = req[c].todo /\ s.job = req[c].job /\ s.pc = "tags"
      /\ s.rows \subseteq MatchingRows(query)
  BY DEF TypeInv, RequestsOK, RequestTypeOK, RequestState
<1>2. WorkSafe(req[c])
  BY DEF Safe
<1>3. Continue(c, s)
  BY <1>6
<1> HIDE DEF s
<1>4. ASSUME s.op \in Renames
      PROVE  RenameSafe(s)
  <2>1. RenameSafe(req[c]) /\ Unused(s.op)
    BY <1>1, <1>2, <1>4 DEF WorkSafe, RenameSafe
  <2>2. ASSUME NEW row \in MatchingRows(RenameQuery(s.op))
        PROVE  row[1] \in Source(s.op)
    <3>1. row[1] \in Paths /\ Has(row[1]) /\ Satisfies(images[row[1]].tags, RenameQuery(s.op))
      BY <2>2 DEF MatchingRows
    <3>2. Placed(row[1], images[row[1]].tags)
      BY <3>1 DEF Safe, BlobsPlaced
    <3>3. row[1] \in Source(s.op) \cup Target(s.op)
      BY <1>4, <3>1, <3>2, FoundInRegion
    <3> QED
      BY <2>1, <3>1, <3>3 DEF Unused
  <2> QED
    BY <1>1, <1>4, <2>1, <2>2 DEF RenameSafe
<1>5. WorkSafe(s)
  BY <1>1, <1>2, <1>4 DEF WorkSafe
<1> QED
  BY <1>0, <1>1, <1>3, <1>5, GoOnSafe

LEMMA FindOrReplySafe ==
    ASSUME SeparateRenames, TypeInv, TypeInv', Safe, NEW c \in Clients, NEW query,
           req[c].op # None,
           req[c].op \in Renames => query = RenameQuery(req[c].op) /\ req[c].pc = "find",
           NEW s1, NEW s2,
           \/ FindBlobs(c, query)
           \/ FindsNone(query) /\ Answer(c, s1)
           \/ FindFails /\ Answer(c, s2)
    PROVE  Safe'
BY FindBlobsSafe, ReplyPlainSafe, SameImages DEF FindsNone, FindFails, storeVars

LEMMA FetchToLoopSafe ==
    ASSUME TypeInv, TypeInv', Safe, NEW c \in Clients, req[c].op # None, NEW jobs \in Fetches(req[c].rows),
           FetchTags(c, jobs),
           Continue(c, [Fetched(c, jobs) EXCEPT !.pc = "each", !.todo = jobs])
    PROVE  Safe'
<1> DEFINE fetched == Fetched(c, jobs)
           s == [fetched EXCEPT !.pc = "each", !.todo = jobs]
<1>5. /\ fetched \in RequestState /\ fetched.op = req[c].op /\ fetched.job = req[c].job
      /\ fetched.rows = {}
  BY FetchedType, FetchedFields DEF TypeInv, RequestsOK, RequestTypeOK
<1> HIDE DEF fetched
<1>1. /\ s.op = req[c].op /\ s.todo = jobs /\ s.job = req[c].job /\ s.pc = "each"
      /\ s.rows = {}
  BY <1>5 DEF RequestState
<1> HIDE DEF s
<1>2. WorkSafe(req[c]) /\ \A j \in s.todo : Placed(j.path, j.tags)
  BY <1>1, FetchedPlaced DEF Safe
<1>3. s.op \in Renames => RenameSafe(s)
  BY <1>1, <1>2, FetchedPlaced DEF WorkSafe, RenameSafe
<1>4. WorkSafe(s)
  BY <1>1, <1>2, <1>3 DEF WorkSafe
<1> QED
  BY <1>1, <1>4, GoOnSafe, SameImages DEF FetchTags, s, fetched

LEMMA PanicSafe ==
    ASSUME TypeInv, TypeInv', Safe, NEW c \in Clients, NEW j, PanicOn(c, j)
    PROVE  Safe'
BY ReplyPlainSafe, SameImages DEF PanicOn, storeVars

\* writing the tags of a blob back, and going on with the others
LEMMA WriteInLoopSafe ==
    ASSUME TypeInv, TypeInv', Safe, NEW c \in Clients, req[c].op # None,
           req[c].op \notin Renames, NEW j \in req[c].todo,
           NEW tags \in Tags, tags.collection = j.tags.collection, tags.album = j.tags.album,
           NEW ok \in BOOLEAN, NEW failed, NEW s \in RequestState,
           s.op = req[c].op, s.job = req[c].job,
           SetBlobTags(j.path, tags, ok), NextOrAnswer(c, req[c].todo \ {j}, failed, s)
    PROVE  Safe'
<1>1. /\ \A k \in req[c].todo : Placed(k.path, k.tags)
      /\ s.job # None => Placed(s.job.path, s.job.tags)
  BY DEF Safe, WorkSafe
<1>2. j \in Jobs /\ j.path \in Paths
  BY DEF TypeInv, RequestsOK, RequestTypeOK, RequestState, Jobs
<1>3. Placed(j.path, tags)
  BY <1>1, PlacedAlike
<1>4. Retags
  BY <1>2, <1>3, SetBlobTagsSafe DEF TypeInv
<1> QED
  BY <1>1, <1>4, LoopSafe

-----------------------------------------------------------------------------
(* Soft-deleting and restoring.                                            *)

KeepsPlace(t, tags) == t.collection = tags.collection /\ t.album = tags.album

LEMMA PlaceKept ==
    ASSUME NEW tags \in Tags
    PROVE  /\ KeepsPlace(Deleted(tags), tags)
           /\ \A seen : KeepsPlace(RestoredInAlbum(tags, seen), tags)
           /\ \A seen : KeepsPlace(RestoredInCollection(tags, seen), tags)
           /\ \A v \in BOOLEAN : KeepsPlace(MarkCollection(tags, v), tags)
           /\ \A v \in BOOLEAN : KeepsPlace(MarkAlbum(tags, v), tags)
           /\ KeepsPlace(CollectionCleared(tags), tags)
           /\ KeepsPlace(AlbumCleared(tags), tags)
           /\ \A op : KeepsPlace(Rotated(tags, op), tags)
BY DEF Tags, KeepsPlace, Deleted, CollectionCleared, AlbumCleared, RestoredInAlbum,
       RestoredInCollection, MarkCollection, MarkAlbum, Rotated

LEMMA NoRename ==
    ASSUME TypeInv, NEW c \in Clients, NEW kind, NEW pc, At(c, kind, pc), kind \notin RenameKinds
    PROVE  /\ req[c] \in RequestState /\ req[c].op # None /\ req[c].op \notin Renames
           /\ \A j \in req[c].todo : j \in Jobs /\ j.path \in Paths /\ j.tags \in Tags
BY AtType DEF Renames, TypeInv, Jobs

LEMMA LocateSafe ==
    ASSUME SeparateRenames, TypeInv, TypeInv', Safe, NEW c \in Clients, NEW kind, NEW query,
           kind \notin RenameKinds, Locate(c, kind, query)
    PROVE  Safe'
BY NoRename, FindOrReplySafe DEF Locate

LEMMA FetchSafe ==
    ASSUME TypeInv, TypeInv', Safe, NEW c \in Clients, NEW kind,
           kind \notin RenameKinds, Fetch(c, kind)
    PROVE  Safe'
BY NoRename, FetchToLoopSafe DEF Fetch

LEMMA SoftDeleteCollectionSafe ==
    ASSUME SeparateRenames, TypeInv, TypeInv', Safe, NEW c \in Clients, SoftDeleteCollection(c)
    PROVE  Safe'
<1>1. "softDeleteCollection" \notin RenameKinds
  BY DEF RenameKinds
<1>2. ASSUME At(c, "softDeleteCollection", "each"), NEW j \in req[c].todo,
             SoftDeleteCollectionBlob(c, j)
      PROVE  Safe'
  <2>1. /\ req[c] \in RequestState /\ req[c].op # None /\ req[c].op \notin Renames
        /\ j.tags \in Tags
    BY <1>1, <1>2, NoRename
  <2>2. PICK ok \in BOOLEAN :
            /\ SetBlobTags(j.path, Deleted(j.tags), ok)
            /\ NextOrAnswer(c, req[c].todo \ {j}, req[c].failed \/ ~ok, req[c])
    BY <1>2 DEF SoftDeleteCollectionBlob
  <2> DEFINE t == Deleted(j.tags)
  <2>3. t \in Tags /\ t.collection = j.tags.collection /\ t.album = j.tags.album
    BY <2>1, NewTagsValuesType, PlaceKept DEF KeepsPlace
  <2> HIDE DEF t
  <2> QED
    BY <2>1, <2>2, <2>3, WriteInLoopSafe DEF t
<1> QED
  BY <1>1, <1>2, LocateSafe, FetchSafe, PanicSafe DEF SoftDeleteCollection

LEMMA SoftDeleteAlbumSafe ==
    ASSUME SeparateRenames, TypeInv, TypeInv', Safe, NEW c \in Clients, SoftDeleteAlbum(c)
    PROVE  Safe'
<1>1. "softDeleteAlbum" \notin RenameKinds
  BY DEF RenameKinds
<1>2. ASSUME At(c, "softDeleteAlbum", "each"), NEW j \in req[c].todo, SoftDeleteAlbumBlob(c, j)
      PROVE  Safe'
  <2>1. /\ req[c] \in RequestState /\ req[c].op # None /\ req[c].op \notin Renames
        /\ j.path \in Paths /\ j.tags \in Tags
    BY <1>1, <1>2, NoRename
  <2> DEFINE s(ok) == [req[c] EXCEPT
                        !.pc = IF req[c].todo = {j} THEN "remaining" ELSE "each",
                        !.todo = @ \ {j}, !.failed = @ \/ ~ok]
             t == Deleted(j.tags)
  <2>2. PICK ok \in BOOLEAN : SetBlobTags(j.path, t, ok) /\ Continue(c, s(ok))
    BY <1>2 DEF SoftDeleteAlbumBlob
  <2>3. t \in Tags /\ t.collection = j.tags.collection /\ t.album = j.tags.album
    BY <2>1, NewTagsValuesType, PlaceKept DEF KeepsPlace
  <2>4. /\ s(ok).op = req[c].op /\ s(ok).todo \subseteq req[c].todo /\ s(ok).job = req[c].job
        /\ s(ok).pc # "set"
    BY <2>1 DEF RequestState
  <2> HIDE DEF s, t
  <2>5. WorkSafe(req[c])
    BY DEF Safe
  <2>6. Placed(j.path, t)
    BY <2>1, <2>3, <2>5, PlacedAlike DEF WorkSafe
  <2>7. Retags
    BY <2>1, <2>2, <2>3, <2>6, SetBlobTagsSafe DEF TypeInv
  <2>8. WorkSafe(s(ok))
    BY <2>1, <2>4, <2>5 DEF WorkSafe
  <2> QED
    BY <2>2, <2>4, <2>7, <2>8, GoOnSafe
<1>3. CASE Remaining(c)
  BY <1>3, ReplySafe, SameImages DEF Remaining
<1> QED
  BY <1>1, <1>2, <1>3, LocateSafe, FetchSafe, PanicSafe DEF SoftDeleteAlbum

LEMMA RestoreBlobSafe ==
    ASSUME TypeInv, TypeInv', Safe, NEW c \in Clients, NEW kind, kind \notin RenameKinds,
           At(c, kind, "each"), NEW j \in req[c].todo, NEW restored \in Tags,
           restored.collection = j.tags.collection, restored.album = j.tags.album,
           RestoreBlob(c, j, restored)
    PROVE  Safe'
<1>1. /\ req[c] \in RequestState /\ req[c].op # None /\ req[c].op \notin Renames
      /\ j.tags \in Tags
  BY NoRename
<1> DEFINE s == [req[c] EXCEPT !.seen = @ \cup {j.tags.album}]
<1>2. s \in RequestState /\ s.op = req[c].op /\ s.job = req[c].job
  BY <1>1 DEF RequestState, Tags
<1>3. PICK ok \in BOOLEAN :
          /\ SetBlobTags(j.path, restored, ok)
          /\ NextOrAnswer(c, req[c].todo \ {j}, req[c].failed \/ ~ok, s)
  BY DEF RestoreBlob
<1> QED
  BY <1>1, <1>2, <1>3, WriteInLoopSafe

LEMMA RestoreSafe ==
    ASSUME SeparateRenames, TypeInv, TypeInv', Safe, NEW c \in Clients,
           RestoreCollection(c) \/ RestoreAlbum(c)
    PROVE  Safe'
<1> DEFINE kinds == {"restoreCollection", "restoreAlbum"}
<1>1. \A kind \in kinds : kind \notin RenameKinds
  BY DEF RenameKinds
<1>2. ASSUME NEW kind \in kinds, At(c, kind, "each"), NEW j \in req[c].todo,
             \/ RestoreBlob(c, j, RestoredInAlbum(j.tags, req[c].seen))
             \/ RestoreBlob(c, j, RestoredInCollection(j.tags, req[c].seen))
      PROVE  Safe'
  <2>1. j.tags \in Tags /\ req[c].seen \in SUBSET (Albums \cup {None})
    BY <1>1, <1>2, NoRename DEF RequestState
  <2>2. PICK t \in {RestoredInAlbum(j.tags, req[c].seen),
                    RestoredInCollection(j.tags, req[c].seen)} : RestoreBlob(c, j, t)
    BY <1>2
  <2>3. t \in Tags /\ KeepsPlace(t, j.tags)
    BY <2>1, NewTagsValuesType, PlaceKept
  <2> QED
    BY <1>1, <1>2, <2>2, <2>3, RestoreBlobSafe DEF KeepsPlace
<1> QED
  BY <1>1, <1>2, LocateSafe, FetchSafe, PanicSafe DEF RestoreCollection, RestoreAlbum

-----------------------------------------------------------------------------
(* Choosing thumbnails and editing tags.                                   *)

\* a handler that renames nothing goes on, or answers
LEMMA PlainStepSafe ==
    ASSUME TypeInv, TypeInv', Safe, Retags, NEW c \in Clients, req[c].op # None,
           req[c].op \notin Renames, NEW s, NEW status,
           \/ Continue(c, s)
           \/ Answer(c, status),
           s.op = req[c].op,
           \A j \in s.todo : Placed(j.path, j.tags),
           s.job # None => Placed(s.job.path, s.job.tags),
           s.pc = "set" /\ s.op.kind \in ThumbnailKinds => Placed(s.op.image, s.tags)
    PROVE  Safe'
<1>1. WorkSafe(s)
  BY DEF WorkSafe
<1> QED
  BY <1>1, GoOnSafe, ReplyPlainSafe

LEMMA ThumbnailNoRename ==
    ASSUME TypeInv, Safe, NEW c \in Clients, NEW kind \in ThumbnailKinds, NEW pc, At(c, kind, pc)
    PROVE  /\ req[c] \in RequestState /\ req[c].op # None /\ req[c].op \notin Renames
           /\ \A j \in req[c].todo : j \in Jobs /\ j.path \in Paths /\ j.tags \in Tags
           /\ \A j \in req[c].todo : Placed(j.path, j.tags)
           /\ req[c].job # None => Placed(req[c].job.path, req[c].job.tags)
<1>1. kind \notin RenameKinds
  BY DEF ThumbnailKinds, RenameKinds
<1>2. WorkSafe(req[c])
  BY DEF Safe
<1> QED
  BY <1>1, <1>2, NoRename DEF WorkSafe

LEMMA ThumbnailFindSafe ==
    ASSUME SeparateRenames, TypeInv, TypeInv', Safe, NEW c \in Clients,
           NEW kind \in ThumbnailKinds, NEW query, ThumbnailFind(c, kind, query)
    PROVE  Safe'
<1> DEFINE s == [req[c] EXCEPT !.pc = "get"]
<1>1. /\ req[c].op # None /\ req[c].op \notin Renames
      /\ s.op = req[c].op /\ s.todo = req[c].todo /\ s.job = req[c].job /\ s.pc # "set"
      /\ \A j \in req[c].todo : Placed(j.path, j.tags)
      /\ req[c].job # None => Placed(req[c].job.path, req[c].job.tags)
  BY ThumbnailNoRename DEF ThumbnailFind, RequestState
<1>2. CASE FindBlobs(c, query)
  BY <1>1, <1>2, FindBlobsSafe
<1>3. CASE /\ FindsNone(query) \/ FindFails
           /\ Continue(c, s) \/ Answer(c, "404")
  <2> HIDE DEF s
  <2>1. Retags
    BY <1>3, SameImages DEF FindsNone, FindFails, storeVars
  <2> QED
    BY <1>1, <1>3, <2>1, PlainStepSafe
<1> QED
  BY <1>2, <1>3 DEF ThumbnailFind

LEMMA ThumbnailFetchSafe ==
    ASSUME TypeInv, TypeInv', Safe, NEW c \in Clients, NEW kind \in ThumbnailKinds,
           ThumbnailFetch(c, kind)
    PROVE  Safe'
<1>1. /\ req[c] \in RequestState /\ req[c].op # None /\ req[c].op \notin Renames
      /\ req[c].job # None => Placed(req[c].job.path, req[c].job.tags)
      /\ \A j \in req[c].todo : Placed(j.path, j.tags)
  BY ThumbnailNoRename DEF ThumbnailFetch
<1> DEFINE fetched(jobs) == Fetched(c, jobs)
           next(jobs, todo) == {[fetched(jobs) EXCEPT !.pc = "rotate", !.todo = todo],
                                [fetched(jobs) EXCEPT !.pc = "get"],
                                [fetched(jobs) EXCEPT !.pc = "unmark", !.todo = todo]}
<1> DEFINE others(jobs) == {j \in jobs : j.path # req[c].op.image}
<1>2. PICK jobs \in Fetches(req[c].rows) :
          /\ FetchTags(c, jobs)
          /\ Continue(c,
                IF ~Chooses(req[c].op)
                THEN [fetched(jobs) EXCEPT !.pc = "rotate", !.todo = jobs]
                ELSE IF others(jobs) = {} THEN [fetched(jobs) EXCEPT !.pc = "get"]
                ELSE                    [fetched(jobs) EXCEPT !.pc = "unmark", !.todo = others(jobs)])
  BY DEF ThumbnailFetch
<1>3. PICK todo \in {jobs, others(jobs)} : \E s \in next(jobs, todo) : Continue(c, s)
  <2> HIDE DEF others, fetched
  <2>1. CASE ~Chooses(req[c].op)
    BY <1>2, <2>1
  <2>2. CASE Chooses(req[c].op) /\ others(jobs) = {}
    BY <1>2, <2>2
  <2>3. CASE Chooses(req[c].op) /\ others(jobs) # {}
    BY <1>2, <2>3
  <2> QED
    BY <2>1, <2>2, <2>3
<1>7. PICK s \in next(jobs, todo) : Continue(c, s)
  BY <1>3
<1>4. \A j \in todo : Placed(j.path, j.tags)
  BY <1>2, FetchedPlaced
<1>8. /\ fetched(jobs) \in RequestState /\ fetched(jobs).op = req[c].op
      /\ fetched(jobs).job = req[c].job /\ fetched(jobs).todo = req[c].todo
  BY <1>1, FetchedType, FetchedFields DEF TypeInv
<1> HIDE DEF fetched
<1>5. /\ s.op = req[c].op /\ s.job = req[c].job /\ s.pc # "set"
      /\ s.todo = todo \/ s.todo = req[c].todo
  BY <1>7, <1>8 DEF RequestState
<1>6. Retags
  BY <1>2, SameImages DEF FetchTags
<1> HIDE DEF next
<1> QED
  BY <1>1, <1>4, <1>5, <1>6, <1>7, PlainStepSafe

LEMMA ThumbnailClearSafe ==
    ASSUME TypeInv, TypeInv', Safe, NEW c \in Clients, NEW kind \in ThumbnailKinds,
           ThumbnailClear(c, kind)
    PROVE  Safe'
<1> DEFINE s(j) == [req[c] EXCEPT !.pc = IF req[c].todo = {j} THEN "get" ELSE "unmark",
                                  !.todo = @ \ {j}]
<1>1. /\ req[c] \in RequestState /\ req[c].op # None /\ req[c].op \notin Renames
      /\ \A j \in req[c].todo : j.path \in Paths /\ j.tags \in Tags /\ Placed(j.path, j.tags)
      /\ req[c].job # None => Placed(req[c].job.path, req[c].job.tags)
  BY ThumbnailNoRename DEF ThumbnailClear
<1>2. PICK j \in req[c].todo :
          \/ PanicOn(c, j)
          \/ /\ Continue(c, s(j))
             /\ \E ok \in BOOLEAN, t \in {MarkCollection(j.tags, FALSE), MarkAlbum(j.tags, FALSE)} :
                  SetBlobTags(j.path, t, ok)
  BY DEF ThumbnailClear, Marked
<1>3. CASE PanicOn(c, j)
  BY <1>3, PanicSafe
<1>4. ASSUME Continue(c, s(j)), NEW ok \in BOOLEAN,
             NEW t \in {MarkCollection(j.tags, FALSE), MarkAlbum(j.tags, FALSE)},
             SetBlobTags(j.path, t, ok)
      PROVE  Safe'
  <2>1. t \in Tags /\ KeepsPlace(t, j.tags)
    BY <1>1, <1>2, NewTagsValuesType, PlaceKept
  <2>2. Retags
    BY <1>1, <1>4, <2>1, PlacedAlike, SetBlobTagsSafe DEF TypeInv, KeepsPlace
  <2>3. /\ s(j).op = req[c].op /\ s(j).job = req[c].job /\ s(j).pc # "set"
        /\ s(j).todo \subseteq req[c].todo
    BY <1>1 DEF RequestState
  <2> HIDE DEF s
  <2> QED
    BY <1>1, <1>4, <2>2, <2>3, PlainStepSafe
<1> QED
  BY <1>2, <1>3, <1>4

LEMMA ThumbnailGetSafe ==
    ASSUME TypeInv, TypeInv', Safe, NEW c \in Clients, NEW kind \in ThumbnailKinds,
           ThumbnailGet(c, kind)
    PROVE  Safe'
<1> DEFINE p == req[c].op.image
           tags(n) == FirstTags(images[p].tags, n)
           s(n) == [req[c] EXCEPT !.pc = "set", !.tags = tags(n)]
<1>1. /\ req[c] \in RequestState /\ req[c].op # None /\ req[c].op \notin Renames
      /\ \A j \in req[c].todo : Placed(j.path, j.tags)
      /\ req[c].job # None => Placed(req[c].job.path, req[c].job.tags)
      /\ p \in Paths
  BY ThumbnailNoRename, ThumbnailAt DEF ThumbnailGet
<1>2. ASSUME NEW n \in 1..7, ReadTags(p, n), Continue(c, s(n))
      PROVE  Safe'
  <2>1. Retags /\ Has(p)
    BY <1>2, SameImages DEF ReadTags
  <2>2. Placed(p, tags(n))
    BY <1>1, <2>1, FirstTagsPlaced DEF Safe, BlobsPlaced
  <2> HIDE DEF tags
  <2>3. /\ s(n).op = req[c].op /\ s(n).todo = req[c].todo /\ s(n).job = req[c].job
        /\ s(n).tags = tags(n)
    BY <1>1 DEF RequestState
  <2> HIDE DEF s
  <2>4. Placed(s(n).op.image, s(n).tags)
    BY <2>2, <2>3
  <2> QED
    BY <1>1, <1>2, <2>1, <2>3, <2>4, PlainStepSafe
<1>3. ASSUME ReadBlob(p, FALSE), Answer(c, "404")
      PROVE  Safe'
  BY <1>3, ReplyPlainSafe, SameImages DEF ReadBlob
<1>4. \/ \E n \in 1..7 : ReadTags(p, n) /\ Continue(c, s(n))
      \/ ReadBlob(p, FALSE) /\ Answer(c, "404")
  BY DEF ThumbnailGet
<1> QED
  BY <1>2, <1>3, <1>4

LEMMA ThumbnailSetSafe ==
    ASSUME TypeInv, TypeInv', Safe, NEW c \in Clients, NEW kind \in ThumbnailKinds,
           ThumbnailSet(c, kind)
    PROVE  Safe'
<1> DEFINE p == req[c].op.image
           marked == {MarkCollection(req[c].tags, TRUE), MarkAlbum(req[c].tags, TRUE)}
<1>1. /\ req[c].op \in Requests /\ req[c].op # None /\ p \in Paths /\ req[c].tags \in Tags
      /\ At(c, kind, "set")
  BY ThumbnailAt DEF ThumbnailSet
<1>2. Placed(p, req[c].tags)
  BY <1>1 DEF Safe, WorkSafe, At
<1>3. PICK ok \in BOOLEAN, m \in marked :
          /\ SetBlobTags(p, Rotated(m, req[c].op), ok)
          /\ Answer(c, IF ok THEN "200" ELSE "500")
  BY DEF ThumbnailSet, Marked
<1> DEFINE t == Rotated(m, req[c].op)
<1>4. m \in Tags /\ KeepsPlace(m, req[c].tags)
  BY <1>1, NewTagsValuesType, PlaceKept
<1>5. t \in Tags /\ KeepsPlace(t, m)
  BY <1>1, <1>4, NewTagsValuesType, PlaceKept
<1> HIDE DEF t
<1>6. Retags
  BY <1>1, <1>2, <1>3, <1>4, <1>5, PlacedAlike, SetBlobTagsSafe
     DEF TypeInv, KeepsPlace, t
<1> QED
  BY <1>3, <1>6, ReplyPlainSafe

LEMMA ThumbnailRotateSafe ==
    ASSUME TypeInv, TypeInv', Safe, NEW c \in Clients, NEW kind \in ThumbnailKinds,
           ThumbnailRotate(c, kind)
    PROVE  Safe'
<1>1. /\ req[c].op \in Requests
      /\ \A j \in req[c].todo : j.path \in Paths /\ j.tags \in Tags /\ Placed(j.path, j.tags)
  BY ThumbnailAt, ThumbnailNoRename DEF ThumbnailRotate
<1>2. PICK j \in req[c].todo :
          \/ PanicOn(c, j)
          \/ \E ok \in BOOLEAN : /\ SetBlobTags(j.path, Rotated(j.tags, req[c].op), ok)
                                 /\ Answer(c, IF ok THEN "200" ELSE "500")
  BY DEF ThumbnailRotate
<1>3. CASE PanicOn(c, j)
  BY <1>3, PanicSafe
<1>4. ASSUME NEW ok \in BOOLEAN, SetBlobTags(j.path, Rotated(j.tags, req[c].op), ok),
             Answer(c, IF ok THEN "200" ELSE "500")
      PROVE  Safe'
  <2> DEFINE t == Rotated(j.tags, req[c].op)
  <2>1. t \in Tags /\ t.collection = j.tags.collection /\ t.album = j.tags.album
    BY <1>1, <1>2, NewTagsValuesType, PlaceKept DEF KeepsPlace
  <2> HIDE DEF t
  <2>2. Retags
    BY <1>1, <1>4, <2>1, PlacedAlike, SetBlobTagsSafe DEF TypeInv, t
  <2> QED
    BY <1>4, <2>2, ReplyPlainSafe
<1> QED
  BY <1>2, <1>3, <1>4

LEMMA ThumbnailSafe ==
    ASSUME SeparateRenames, TypeInv, TypeInv', Safe, NEW c \in Clients,
           ThumbnailCollection(c) \/ ThumbnailAlbum(c)
    PROVE  Safe'
<1>1. CASE ThumbnailCollection(c)
  BY <1>1, ThumbnailFindSafe, ThumbnailFetchSafe, ThumbnailClearSafe, ThumbnailGetSafe,
     ThumbnailSetSafe, ThumbnailRotateSafe DEF ThumbnailCollection, ThumbnailKinds
<1>2. CASE ThumbnailAlbum(c)
  BY <1>2, ThumbnailFindSafe, ThumbnailFetchSafe, ThumbnailClearSafe, ThumbnailGetSafe,
     ThumbnailSetSafe, ThumbnailRotateSafe DEF ThumbnailAlbum, ThumbnailKinds
<1> QED
  BY <1>1, <1>2

LEMMA UpdateNoRename ==
    ASSUME TypeInv, Safe, NEW c \in Clients, NEW pc, At(c, "update", pc)
    PROVE  /\ req[c] \in RequestState /\ req[c].op # None /\ req[c].op \notin Renames
           /\ req[c].op.kind = "update" /\ req[c].op.kind \notin ThumbnailKinds
           /\ req[c].op.image \in Paths
           /\ \A j \in req[c].todo : Placed(j.path, j.tags)
           /\ req[c].job # None => Placed(req[c].job.path, req[c].job.tags)
<1>1. "update" \notin RenameKinds /\ "update" \notin ThumbnailKinds
  BY DEF RenameKinds, ThumbnailKinds
<1>2. WorkSafe(req[c])
  BY DEF Safe
<1> QED
  BY <1>1, <1>2, NoRename, UpdateAt DEF WorkSafe

LEMMA UpdateGetSafe ==
    ASSUME TypeInv, TypeInv', Safe, NEW c \in Clients, UpdateGet(c)
    PROVE  Safe'
<1> DEFINE p == req[c].op.image
           s(tags) == [req[c] EXCEPT !.pc = "find", !.tags = tags]
<1>1. /\ req[c] \in RequestState /\ req[c].op # None /\ req[c].op \notin Renames
      /\ \A j \in req[c].todo : Placed(j.path, j.tags)
      /\ req[c].job # None => Placed(req[c].job.path, req[c].job.tags)
  BY UpdateNoRename DEF UpdateGet
<1>2. PICK tags : /\ images' = images
                  /\ Answer(c, "500") \/ Answer(c, "304") \/ Continue(c, s(tags))
  <2>1. CASE \E n \in 1..7 :
               /\ ReadTags(p, n)
               /\ Continue(c, s(FirstTags(images[p].tags, n))) \/ Answer(c, "304")
    BY <2>1 DEF ReadTags
  <2>2. CASE ReadBlob(p, FALSE) /\ Answer(c, "500")
    BY <2>2 DEF ReadBlob
  <2> QED
    BY <2>1, <2>2 DEF UpdateGet
<1>3. Retags
  BY <1>2, SameImages
<1>4. /\ s(tags).op = req[c].op /\ s(tags).todo = req[c].todo /\ s(tags).job = req[c].job
      /\ s(tags).pc # "set"
  BY <1>1 DEF RequestState
<1> HIDE DEF s
<1> QED
  BY <1>1, <1>2, <1>3, <1>4, PlainStepSafe

LEMMA UpdateFindSafe ==
    ASSUME SeparateRenames, TypeInv, TypeInv', Safe, NEW c \in Clients, UpdateFind(c)
    PROVE  Safe'
<1> DEFINE query == CollectionImageQuery(req[c].tags.collection)
           s     == [req[c] EXCEPT !.pc = "set", !.tags = None]
<1>1. /\ req[c] \in RequestState /\ req[c].op # None /\ req[c].op \notin Renames
      /\ req[c].op.kind \notin ThumbnailKinds
      /\ \A j \in req[c].todo : Placed(j.path, j.tags)
      /\ req[c].job # None => Placed(req[c].job.path, req[c].job.tags)
  BY UpdateNoRename DEF UpdateFind
<1>2. CASE FindBlobs(c, query)
  BY <1>1, <1>2, FindBlobsSafe
<1>3. CASE /\ UNCHANGED storeVars \/ FindsNone(query) \/ FindFails
           /\ Continue(c, s)
  <2>1. Retags
    BY <1>3, SameImages DEF FindsNone, FindFails, storeVars
  <2>2. s.op = req[c].op /\ s.todo = req[c].todo /\ s.job = req[c].job
    BY <1>1 DEF RequestState
  <2> HIDE DEF s
  <2> QED
    BY <1>1, <1>3, <2>1, <2>2, PlainStepSafe
<1> QED
  BY <1>2, <1>3 DEF UpdateFind

LEMMA UpdateFetchSafe ==
    ASSUME TypeInv, TypeInv', Safe, NEW c \in Clients, UpdateFetch(c)
    PROVE  Safe'
<1> DEFINE fetched(jobs) == Fetched(c, jobs)
           s(jobs, replaced, j) == [fetched(jobs) EXCEPT !.tags = None,
                                  !.pc = IF replaced THEN "clear" ELSE "set",
                                  !.job = IF replaced THEN j ELSE None]
<1>1. /\ req[c] \in RequestState /\ req[c].op # None /\ req[c].op \notin Renames
      /\ req[c].op.kind \notin ThumbnailKinds
      /\ \A j \in req[c].todo : Placed(j.path, j.tags)
  BY UpdateNoRename DEF UpdateFetch
<1>2. PICK jobs \in Fetches(req[c].rows) :
          /\ FetchTags(c, jobs)
          /\ \E j \in jobs :
               LET replaced == BodyTags(req[c].op).collectionImage = TRUE
                               /\ j.tags.name # req[c].op.image
               IN  Continue(c, s(jobs, replaced, j))
  BY DEF UpdateFetch
<1>3. PICK j \in jobs, replaced \in BOOLEAN : Continue(c, s(jobs, replaced, j))
  BY <1>2
<1>4. Placed(j.path, j.tags)
  BY FetchedPlaced
<1>7. /\ fetched(jobs) \in RequestState /\ fetched(jobs).op = req[c].op
      /\ fetched(jobs).todo = req[c].todo
  BY <1>1, FetchedType, FetchedFields DEF TypeInv
<1> HIDE DEF fetched
<1>5. /\ s(jobs, replaced, j).op = req[c].op /\ s(jobs, replaced, j).todo = req[c].todo
      /\ s(jobs, replaced, j).job = IF replaced THEN j ELSE None
  BY <1>7 DEF RequestState
<1>6. Retags
  BY <1>2, SameImages DEF FetchTags
<1> HIDE DEF s
<1> QED
  BY <1>1, <1>3, <1>4, <1>5, <1>6, PlainStepSafe

LEMMA UpdateClearSafe ==
    ASSUME TypeInv, TypeInv', Safe, NEW c \in Clients, UpdateClear(c)
    PROVE  Safe'
<1> DEFINE j == req[c].job
           s == [req[c] EXCEPT !.pc = "set", !.job = None]
<1>1. /\ req[c] \in RequestState /\ req[c].op # None /\ req[c].op \notin Renames
      /\ req[c].op.kind \notin ThumbnailKinds
      /\ \A k \in req[c].todo : Placed(k.path, k.tags)
      /\ j # None => Placed(j.path, j.tags)
      /\ j \in Jobs
  BY UpdateNoRename, UpdateAt DEF UpdateClear
<1>2. CASE PanicOn(c, j)
  BY <1>2, PanicSafe
<1>3. ASSUME NEW ok \in BOOLEAN, SetBlobTags(j.path, MarkCollection(j.tags, FALSE), ok),
             Continue(c, s) \/ Answer(c, "500")
      PROVE  Safe'
  <2> DEFINE t == MarkCollection(j.tags, FALSE)
  <2>1. j # None /\ j.path \in Paths /\ j.tags \in Tags
    BY <1>1, RequestAssumption DEF Jobs
  <2>2. t \in Tags /\ KeepsPlace(t, j.tags)
    BY <2>1, NewTagsValuesType, PlaceKept
  <2> HIDE DEF t
  <2>3. Placed(j.path, t)
    BY <1>1, <2>1, <2>2, PlacedAlike DEF KeepsPlace
  <2>4. Retags
    BY <1>3, <2>1, <2>2, <2>3, SetBlobTagsSafe DEF TypeInv, t
  <2>5. s.op = req[c].op /\ s.todo = req[c].todo /\ s.job = None
    BY <1>1 DEF RequestState
  <2> HIDE DEF s
  <2> QED
    BY <1>1, <1>3, <2>4, <2>5, PlainStepSafe
<1> QED
  BY <1>2, <1>3 DEF UpdateClear

LEMMA UpdateSetSafe ==
    ASSUME EditsKeepPlace, TypeInv, TypeInv', Safe, NEW c \in Clients, UpdateSet(c)
    PROVE  Safe'
<1> DEFINE op == req[c].op
           t == BodyTags(op)
<1>1. op \in Requests /\ op.kind = "update" /\ op.image \in Paths /\ t \in Tags /\ op.tags \in Tags
  BY UpdateAt, RequestAssumption DEF UpdateSet
<1>2. t.collection = op.tags.collection /\ t.album = op.tags.album
  BY <1>1 DEF BodyTags, Tags
<1>3. Placed(op.image, op.tags)
  BY <1>1 DEF EditsKeepPlace
<1>4. PICK ok \in BOOLEAN :
          SetBlobTags(op.image, t, ok) /\ Answer(c, IF ok THEN "200" ELSE "500")
  BY DEF UpdateSet
<1> HIDE DEF t
<1>5. Retags
  BY <1>1, <1>2, <1>3, <1>4, PlacedAlike, SetBlobTagsSafe DEF TypeInv
<1> QED
  BY <1>4, <1>5, ReplyPlainSafe

LEMMA UpdateSafe ==
    ASSUME SeparateRenames, EditsKeepPlace, TypeInv, TypeInv', Safe, NEW c \in Clients, Update(c)
    PROVE  Safe'
BY UpdateGetSafe, UpdateFindSafe, UpdateFetchSafe, UpdateClearSafe, UpdateSetSafe DEF Update

-----------------------------------------------------------------------------
(* Loading pages.                                                          *)

LEMMA BrowseNoRename ==
    ASSUME TypeInv, NEW c \in Clients, NEW kind \in BrowseKinds, NEW pc, At(c, kind, pc)
    PROVE  /\ req[c] \in RequestState /\ req[c].op # None /\ req[c].op \notin Renames
           /\ \A j \in req[c].todo : j \in Jobs /\ j.path \in Paths /\ j.tags \in Tags
<1>1. kind \notin RenameKinds
  BY DEF BrowseKinds, RenameKinds
<1> QED
  BY <1>1, NoRename

LEMMA BrowseFindSafe ==
    ASSUME SeparateRenames, TypeInv, TypeInv', Safe, NEW c \in Clients,
           NEW kind \in BrowseKinds, NEW query, BrowseFind(c, kind, query)
    PROVE  Safe'
BY BrowseNoRename, FindOrReplySafe DEF BrowseFind

LEMMA BrowseFetchSafe ==
    ASSUME TypeInv, TypeInv', Safe, NEW c \in Clients, NEW kind \in BrowseKinds,
           BrowseFetch(c, kind)
    PROVE  Safe'
<1> DEFINE s(jobs) == Fetched(c, jobs)
<1>1. req[c] \in RequestState /\ req[c].op # None /\ req[c].op \notin Renames
  BY BrowseNoRename DEF BrowseFetch
<1>2. PICK jobs \in Fetches(req[c].rows) :
          /\ FetchTags(c, jobs)
          /\ \E extras \in SUBSET jobs : NextOrAnswer(c, extras, FALSE, s(jobs))
  BY DEF BrowseFetch, Extras
<1>3. s(jobs) \in RequestState /\ s(jobs).op = req[c].op /\ s(jobs).job = req[c].job
  BY <1>1, FetchedType, FetchedFields DEF TypeInv
<1>4. s(jobs).job # None => Placed(s(jobs).job.path, s(jobs).job.tags)
  BY <1>1, <1>3 DEF Safe, WorkSafe
<1>5. \A j \in jobs : Placed(j.path, j.tags)
  BY FetchedPlaced
<1>6. Retags
  BY <1>2, SameImages DEF FetchTags
<1> HIDE DEF s
<1> QED
  BY <1>1, <1>2, <1>3, <1>4, <1>5, <1>6, LoopSafe

LEMMA BrowseClearSafe ==
    ASSUME TypeInv, TypeInv', Safe, NEW c \in Clients, NEW kind \in BrowseKinds,
           BrowseClear(c, kind)
    PROVE  Safe'
<1>1. /\ req[c] \in RequestState /\ req[c].op # None /\ req[c].op \notin Renames
      /\ \A j \in req[c].todo : j.tags \in Tags
  BY BrowseNoRename DEF BrowseClear
<1>2. PICK j \in req[c].todo :
          \/ PanicOn(c, j)
          \/ \E ok \in BOOLEAN, t \in {CollectionCleared(j.tags), AlbumCleared(j.tags)} :
               /\ SetBlobTags(j.path, t, ok)
               /\ NextOrAnswer(c, req[c].todo \ {j}, FALSE, req[c])
  BY DEF BrowseClear, Cleared
<1>3. CASE PanicOn(c, j)
  BY <1>3, PanicSafe
<1>4. ASSUME NEW ok \in BOOLEAN, NEW t \in {CollectionCleared(j.tags), AlbumCleared(j.tags)},
             SetBlobTags(j.path, t, ok), NextOrAnswer(c, req[c].todo \ {j}, FALSE, req[c])
      PROVE  Safe'
  <2>1. t \in Tags /\ KeepsPlace(t, j.tags)
    BY <1>1, <1>2, NewTagsValuesType, PlaceKept
  <2> QED
    BY <1>1, <1>2, <1>4, <2>1, WriteInLoopSafe DEF KeepsPlace
<1> QED
  BY <1>2, <1>3, <1>4

LEMMA BrowseSafe ==
    ASSUME SeparateRenames, TypeInv, TypeInv', Safe, NEW c \in Clients,
           BrowseCollections(c) \/ BrowseAlbums(c)
    PROVE  Safe'
<1>1. CASE \E kind : NoTagList(c, kind)
  BY <1>1, ReplyPlainSafe, SameImages DEF NoTagList, FindFails
<1> QED
  BY <1>1, BrowseFindSafe, BrowseFetchSafe, BrowseClearSafe
     DEF BrowseCollections, BrowseAlbums, BrowseKinds

-----------------------------------------------------------------------------
(* The steps of a rename that move no photo.                               *)

LEMMA Renaming ==
    ASSUME TypeInv, Safe, NEW c \in Clients, NEW kind \in RenameKinds, NEW pc, At(c, kind, pc)
    PROVE  /\ req[c] \in RequestState /\ req[c].op \in Renames /\ req[c].op # None
           /\ req[c].pc = pc /\ req[c].todo \in SUBSET Jobs
           /\ RenameSafe(req[c])
           /\ \A j \in req[c].todo : Placed(j.path, j.tags)
           /\ req[c].job # None => Placed(req[c].job.path, req[c].job.tags)
           /\ pc \in {"copyTags", "save", "retag", "delete"} =>
                req[c].job \in Jobs /\ req[c].job # None /\ req[c].job.path \in Paths
<1>1. WorkSafe(req[c])
  BY DEF Safe
<1> QED
  BY <1>1, RenameAt, RequestAssumption DEF WorkSafe

LEMMA RenameNextSafe ==
    ASSUME TypeInv, TypeInv', Safe, Retags, NEW c \in Clients, req[c].op \in Renames,
           NEW failed, RenameNext(c, failed)
    PROVE  Safe'
<1> DEFINE s == [req[c] EXCEPT !.job = None, !.photo = None, !.tags = None]
<1>1. req[c] \in RequestState /\ req[c].op # None
  BY RequestAssumption DEF TypeInv, RequestsOK, RequestTypeOK, Renames
<1>2. s \in RequestState /\ s.op = req[c].op /\ s.job = None /\ s.rows = req[c].rows
  BY <1>1 DEF RequestState
<1>3. /\ \A j \in req[c].todo : Placed(j.path, j.tags) /\ j.path \in Source(req[c].op)
      /\ \A row \in req[c].rows : row[1] \in Source(req[c].op)
  BY <1>1 DEF Safe, WorkSafe, RenameSafe
<1>4. NextOrAnswer(c, req[c].todo, req[c].failed \/ failed, s)
  BY DEF RenameNext
<1> HIDE DEF s
<1> QED
  BY <1>1, <1>2, <1>3, <1>4, LoopSafe

LEMMA RenameReadSafe ==
    ASSUME TypeInv, TypeInv', Safe, NEW c \in Clients, NEW kind \in RenameKinds,
           RenameRead(c, kind)
    PROVE  Safe'
<1>1. /\ req[c] \in RequestState /\ req[c].op \in Renames /\ req[c].op # None
      /\ req[c].todo \in SUBSET Jobs
      /\ RenameSafe(req[c])
      /\ \A j \in req[c].todo : Placed(j.path, j.tags)
      /\ req[c].job # None => Placed(req[c].job.path, req[c].job.tags)
  BY Renaming DEF RenameRead
<1> DEFINE s(j) == [req[c] EXCEPT !.pc = "copyTags", !.todo = @ \ {j},
                                  !.job = j, !.photo = images[j.path].photo]
<1>2. PICK j \in req[c].todo, ok \in BOOLEAN :
          /\ ReadBlob(j.path, ok)
          /\ IF ok THEN Continue(c, s(j))
                   ELSE NextOrAnswer(c, req[c].todo \ {j}, TRUE, req[c])
  BY DEF RenameRead
<1>3. Retags
  BY <1>2, SameImages DEF ReadBlob
<1>4. CASE ok
  <2>1. /\ s(j).op = req[c].op /\ s(j).pc = "copyTags" /\ s(j).todo = req[c].todo \ {j}
        /\ s(j).job = j /\ s(j).photo = images[j.path].photo /\ s(j).rows = req[c].rows
    BY <1>1 DEF RequestState
  <2>2. Has(j.path)
    BY <1>2, <1>4 DEF ReadBlob
  <2> HIDE DEF s
  <2>3. RenameSafe(s(j))
    BY <1>1, <1>2, <2>1, <2>2 DEF RenameSafe
  <2>4. WorkSafe(s(j))
    BY <1>1, <1>2, <2>1, <2>3 DEF WorkSafe
  <2> QED
    BY <1>2, <1>3, <1>4, <2>1, <2>4, GoOnSafe
<1>5. CASE ~ok
  <2>1. /\ \A row \in req[c].rows : row[1] \in Source(req[c].op)
        /\ \A k \in req[c].todo : k.path \in Source(req[c].op)
        /\ req[c].job # None => req[c].job.path \in Source(req[c].op)
    BY <1>1 DEF RenameSafe
  <2> QED
    BY <1>1, <1>2, <1>3, <1>5, <2>1, LoopSafe
<1> QED
  BY <1>4, <1>5

LEMMA RenameReadTagsSafe ==
    ASSUME TypeInv, TypeInv', Safe, NEW c \in Clients, NEW kind \in RenameKinds,
           RenameReadTags(c, kind)
    PROVE  Safe'
<1> DEFINE p == req[c].job.path
           s(t) == [req[c] EXCEPT !.pc = "save", !.tags = t]
<1>1. /\ req[c] \in RequestState /\ req[c].op \in Renames
      /\ req[c].pc = "copyTags" /\ RenameSafe(req[c])
      /\ \A j \in req[c].todo : Placed(j.path, j.tags)
      /\ req[c].job # None /\ Placed(req[c].job.path, req[c].job.tags) /\ p \in Paths
  BY Renaming DEF RenameReadTags
<1>2. PICK t : images' = images /\ Placed(p, t) /\ Continue(c, s(t))
  <2>1. CASE \E n \in 1..7 : ReadTags(p, n) /\ Continue(c, s(FirstTags(images[p].tags, n)))
    BY <1>1, <2>1, FirstTagsPlaced DEF ReadTags, Safe, BlobsPlaced
  <2>2. CASE ReadBlob(p, FALSE) /\ Continue(c, s(EmptyTags))
    BY <2>2, EmptyTagsPlaced DEF ReadBlob
  <2> QED
    BY <2>1, <2>2 DEF RenameReadTags
<1>3. Retags
  BY <1>2, SameImages
<1>5. /\ s(t).op = req[c].op /\ s(t).pc = "save" /\ s(t).todo = req[c].todo
      /\ s(t).job = req[c].job /\ s(t).photo = req[c].photo /\ s(t).rows = req[c].rows
      /\ s(t).tags = t
  BY <1>1 DEF RequestState
<1> HIDE DEF s
<1>6. RenameSafe(s(t))
  BY <1>1, <1>2, <1>5 DEF RenameSafe
<1>7. WorkSafe(s(t))
  BY <1>1, <1>5, <1>6 DEF WorkSafe
<1> QED
  BY <1>2, <1>3, <1>5, <1>7, GoOnSafe

LEMMA RenameRetagSafe ==
    ASSUME SeparateRenames, TypeInv, TypeInv', Safe, NEW c \in Clients,
           NEW kind \in RenameKinds, RenameRetag(c, kind)
    PROVE  Safe'
<1> DEFINE j == req[c].job
           p == NewPath(req[c].op, j.path)
           s == [req[c] EXCEPT !.pc = "delete"]
<1>1. /\ req[c] \in RequestState /\ req[c].op \in Renames
      /\ req[c].pc = "retag" /\ RenameSafe(req[c])
      /\ \A k \in req[c].todo : Placed(k.path, k.tags)
      /\ j \in Jobs /\ j # None /\ Placed(j.path, j.tags)
  BY Renaming DEF RenameRetag
<1>2. PICK ok \in BOOLEAN :
          /\ SetBlobTags(p, NewTags(req[c].op, j), ok)
          /\ IF ok THEN Continue(c, s) ELSE RenameNext(c, TRUE)
  BY DEF RenameRetag
<1>3. Retags
  <2>1. p \in Paths /\ NewTags(req[c].op, j) \in Tags
    BY <1>1, NewPathType, NewTagsType DEF Jobs
  <2>2. Placed(p, NewTags(req[c].op, j))
    BY <1>1, PlacedNewTags DEF RenameSafe
  <2> QED
    BY <1>2, <2>1, <2>2, SetBlobTagsSafe DEF TypeInv
<1>4. CASE ok
  <2>1. /\ s.op = req[c].op /\ s.pc = "delete" /\ s.todo = req[c].todo
        /\ s.job = req[c].job /\ s.rows = req[c].rows
    BY <1>1 DEF RequestState
  <2> HIDE DEF s
  <2>2. RenameSafe(s)
    BY <1>1, <2>1 DEF RenameSafe
  <2>3. WorkSafe(s)
    BY <1>1, <2>1, <2>2 DEF WorkSafe
  <2> QED
    BY <1>2, <1>3, <1>4, <2>1, <2>3, GoOnSafe
<1>5. CASE ~ok
  BY <1>1, <1>2, <1>3, <1>5, RenameNextSafe
<1> QED
  BY <1>4, <1>5

-----------------------------------------------------------------------------
(* The two steps of a rename that do: copying to the new path, deleting    *)
(* the old one.                                                            *)

\* only path x, of the rename that client c runs, changes
MovesOnly(c, x) ==
    /\ x \in Source(req[c].op) \cup Target(req[c].op)
    /\ \A p \in Paths : p # x => images'[p] = images[p]
    /\ pending' = pending

\* the other clients do not notice
LEMMA MoveUnnoticed ==
    ASSUME SeparateRenames, TypeInv, Safe, NEW c \in Clients, req[c].op \in Renames,
           NEW x \in Paths, MovesOnly(c, x), NEW d \in Clients, d # c, req'[d] = req[d]
    PROVE  WorkSafe(req[d])'
<1> DEFINE s == req[d]
           r == s.op
<1>1. WorkSafe(s)
  BY DEF Safe
<1> SUFFICES ASSUME r # None
             PROVE  WorkSafe(req[d])'
  BY DEF WorkSafe
<1>2. (/\ \A j \in req[d].todo : Placed(j.path, j.tags)
       /\ req[d].job # None => Placed(req[d].job.path, req[d].job.tags)
       /\ req[d].pc = "set" /\ req[d].op.kind \in ThumbnailKinds
            => Placed(req[d].op.image, req[d].tags))'
  BY <1>1 DEF WorkSafe, Placed
<1>3. ASSUME r \in Renames
      PROVE  RenameSafe(req[d])'
  <2>1. RenameSafe(s)
    BY <1>1, <1>3 DEF WorkSafe
  <2>2. r # req[c].op
    BY <1>3 DEF Safe, OneRunner
  <2>3. x \notin Source(r) /\ x \notin Target(r)
    BY <1>3, <2>2, Apart DEF MovesOnly
  <2>4. \A p \in Source(r) \cup Target(r) : images'[p] = images[p]
    BY <1>3, <2>3, TargetPaths DEF MovesOnly
  <2>5. s.pc \in {"copyTags", "save", "retag", "delete"} => s.job # None
    BY DEF TypeInv, RequestsOK, AtHand
  <2>6. s.pc \in {"copyTags", "save", "retag", "delete"} =>
            s.job.path \in Source(r) /\ NewPath(r, s.job.path) \in Target(r)
    BY <1>3, <2>1, <2>5, TargetPaths DEF RenameSafe
  <2>7. r \notin pending' /\ (s.pc = "find" => \A p \in Target(r) : images'[p] = NoBlob)
    BY <2>1, <2>4 DEF RenameSafe, Unused, Has, MovesOnly
  <2>8. s.pc \in {"copyTags", "save"} =>
            images'[s.job.path] # NoBlob /\ images'[s.job.path].photo = s.photo
    BY <2>1, <2>4, <2>6 DEF RenameSafe, Has
  <2>9. s.pc \in {"retag", "delete"} =>
          LET dst == NewPath(r, s.job.path)
          IN  /\ images'[s.job.path] # NoBlob /\ images'[dst] # NoBlob
              /\ images'[dst].photo = images'[s.job.path].photo
    BY <2>1, <2>4, <2>6 DEF RenameSafe, Has
  <2>10. /\ \A row \in s.rows : row[1] \in Source(r)
         /\ \A j \in s.todo : j.path \in Source(r)
         /\ s.job # None => s.job.path \in Source(r)
         /\ s.pc = "save" => Placed(s.job.path, s.tags)
    BY <2>1 DEF RenameSafe
  <2> QED
    BY <2>7, <2>8, <2>9, <2>10
       DEF RenameSafe, Unused, Has, Placed, Source, Target, NewPath
<1> QED
  BY <1>2, <1>3 DEF WorkSafe

LEMMA MoveStepSafe ==
    ASSUME SeparateRenames, TypeInv, Safe, NEW c \in Clients, req[c].op \in Renames,
           NEW x \in Paths, MovesOnly(c, x), BlobsPlaced', CopiesAgree', NoPhotoLost',
           NEW s, req' = [req EXCEPT ![c] = s], s.op \in {req[c].op, None}, WorkSafe(req[c])'
    PROVE  Safe'
<1>1. \A d \in Clients : req'[d] = IF d = c THEN s ELSE req[d]
  BY DEF TypeInv, RequestsOK, RequestTypeOK
<1>2. (\A r \in Renames : r \in pending => Unused(r))'
  <2>1. req[c].op \notin pending
    BY RequestAssumption DEF Safe, WorkSafe, RenameSafe, Renames
  <2>2. ASSUME NEW r \in Renames, r \in pending', NEW p \in Target(r)
        PROVE  images'[p] = NoBlob
    <3>1. r \in pending /\ r # req[c].op
      BY <2>1, <2>2 DEF MovesOnly
    <3>2. images[p] = NoBlob /\ p \in Paths
      BY <2>2, <3>1, TargetPaths DEF Safe, Unused, Has
    <3>3. p # x
      BY <2>2, <3>1, Apart DEF MovesOnly
    <3> QED
      BY <3>2, <3>3 DEF MovesOnly
  <2> QED
    BY <2>2 DEF Unused, Has, Target, Source, NewPath
<1>3. OneRunner'
  <2>1. \A d, e \in Clients :
            req'[d].op \in Renames /\ req'[d].op = req'[e].op => d = e
    BY <1>1, RequestAssumption DEF Safe, OneRunner, Renames
  <2> QED
    BY <2>1 DEF OneRunner
<1>4. ASSUME NEW d \in Clients
      PROVE  WorkSafe(req[d])'
  BY <1>1, MoveUnnoticed
<1> QED
  BY <1>2, <1>3, <1>4 DEF Safe

LEMMA RenameNextWork ==
    ASSUME TypeInv, Safe, NEW c \in Clients, req[c].op \in Renames, NEW failed,
           RenameNext(c, failed)
    PROVE  /\ pending' = pending
           /\ \E s : req' = [req EXCEPT ![c] = s] /\ s.op \in {req[c].op, None}
           /\ WorkSafe(req[c])'
<1>1. req[c] \in RequestState /\ RenameSafe(req[c]) /\ \A j \in req[c].todo : Placed(j.path, j.tags)
  BY RequestAssumption DEF TypeInv, RequestsOK, RequestTypeOK, Safe, WorkSafe, Renames
<1> DEFINE todo == req[c].todo
           s == [req[c] EXCEPT !.job = None, !.photo = None, !.tags = None]
           t == [s EXCEPT !.pc = "each", !.todo = todo, !.failed = req[c].failed \/ failed]
<1>2. CASE todo = {}
  <2>1. pending' = pending /\ req' = [req EXCEPT ![c] = Idle]
    BY <1>2 DEF RenameNext, NextOrAnswer, Answer, AnswerWith
  <2>2. Idle.op = None /\ req'[c] = Idle
    BY <2>1 DEF Idle, TypeInv, RequestsOK, RequestTypeOK
  <2>3. WorkSafe(req[c])'
    BY <2>2 DEF WorkSafe
  <2> QED
    BY <2>1, <2>2, <2>3
<1>3. CASE todo # {}
  <2>1. pending' = pending /\ req' = [req EXCEPT ![c] = t]
    BY <1>3 DEF RenameNext, NextOrAnswer, Continue
  <2>2. /\ t.op = req[c].op /\ t.pc = "each" /\ t.todo = todo /\ t.job = None
        /\ t.rows = req[c].rows
    BY <1>1 DEF RequestState
  <2> HIDE DEF t
  <2>3. req'[c] = t
    BY <2>1 DEF TypeInv, RequestsOK, RequestTypeOK
  <2>4. /\ t.op \notin pending'
        /\ \A row \in t.rows : row[1] \in Source(t.op)
        /\ \A j \in t.todo : j.path \in Source(t.op) /\ Placed(j.path, j.tags)
    BY <1>1, <2>1, <2>2 DEF RenameSafe
  <2>5. RenameSafe(req[c])'
    BY <2>2, <2>3, <2>4 DEF RenameSafe, Source
  <2>6. WorkSafe(req[c])'
    BY <2>2, <2>3, <2>4, <2>5 DEF WorkSafe, Placed
  <2> QED
    BY <2>1, <2>2, <2>6
<1> QED
  BY <1>2, <1>3

LEMMA RenameSaveSafe ==
    ASSUME SeparateRenames, TypeInv, TypeInv', Safe, NEW c \in Clients,
           NEW kind \in RenameKinds, RenameSave(c, kind)
    PROVE  Safe'
<1> DEFINE r   == req[c].op
           src == req[c].job.path
           dst == NewPath(r, src)
           s   == [req[c] EXCEPT !.pc = "retag", !.photo = None, !.tags = None]
<1>1. /\ req[c] \in RequestState /\ r \in Renames /\ r # None
      /\ req[c].pc = "save" /\ RenameSafe(req[c])
      /\ \A k \in req[c].todo : Placed(k.path, k.tags)
      /\ req[c].job \in Jobs /\ req[c].job # None /\ Placed(src, req[c].job.tags)
  BY Renaming DEF RenameSave
<1>2. /\ src \in Source(r) /\ dst \in Target(r) /\ src \in Paths /\ dst \in Paths
      /\ Has(src) /\ images[src].photo = req[c].photo /\ src # dst
  BY <1>1, TargetPaths, Apart DEF RenameSafe
<1>3. Placed(dst, req[c].tags)
  BY <1>1, <1>2, PlacedCopy DEF RenameSafe
<1>4. PICK ok \in BOOLEAN :
          /\ SaveBlob(dst, req[c].photo, req[c].tags, ok)
          /\ IF ok THEN Continue(c, s) ELSE RenameNext(c, TRUE)
  BY DEF RenameSave
<1>5. CASE ~ok /\ UNCHANGED images
  BY <1>1, <1>4, <1>5, SameImages, RenameNextSafe
<1>6. CASE Stored(dst, req[c].photo, req[c].tags)
  <2>1. /\ images'[dst] # NoBlob /\ images'[dst].photo = images[src].photo
        /\ images'[dst].tags = req[c].tags
    <3>1. (IF Has(dst) THEN images[dst].row ELSE nextRow) \in Nat
      BY <1>2 DEF TypeInv, StoreTypeOK, Has, Blobs
    <3>2. req[c].photo \in Photos /\ req[c].tags \in Tags
      BY RenameAt DEF RenameSave
    <3> DEFINE b == [photo |-> req[c].photo, tags |-> req[c].tags,
                     row |-> IF Has(dst) THEN images[dst].row ELSE nextRow]
    <3>3. b \in Blobs
      BY <3>1, <3>2 DEF Blobs
    <3>4. images'[dst] = b
      BY <1>2, <1>6 DEF Stored, TypeInv, StoreTypeOK
    <3> QED
      BY <1>2, <3>3, <3>4, NoneAssumption
  <2>2. \A p \in Paths : p # dst => images'[p] = images[p]
    BY <1>6 DEF Stored, TypeInv, StoreTypeOK
  <2>3. MovesOnly(c, dst)
    BY <1>1, <1>2, <1>4, <2>2, RenameNextWork DEF MovesOnly, Continue
  <2>4. BlobsPlaced'
    <3>1. \A p \in Paths : images'[p] # NoBlob => Placed(p, images'[p].tags)
      BY <1>3, <2>1, <2>2 DEF Safe, BlobsPlaced, Has
    <3> QED
      BY <3>1 DEF BlobsPlaced, Has, Placed
  <2>5. CopiesAgree'
    <3>1. ASSUME NEW q \in Renames, NEW p \in Source(q),
                 images'[p] # NoBlob, images'[NewPath(q, p)] # NoBlob
          PROVE  images'[p].photo = images'[NewPath(q, p)].photo
      <4>1. p \in Paths /\ NewPath(q, p) \in Paths /\ NewPath(q, p) \in Target(q)
        BY TargetPaths
      <4>2. images'[p] = images[p]
        BY <1>1, <1>2, <2>2, <4>1, Apart
      <4>3. CASE NewPath(q, p) = dst
        <5>1. q = r
          BY <1>1, <1>2, <4>1, <4>3, Apart
        <5>2. p = src
          BY <1>2, <4>3, <5>1, NewPathInjective
        <5> QED
          BY <2>1, <4>2, <4>3, <5>2
      <4>4. CASE NewPath(q, p) # dst
        BY <2>2, <3>1, <4>1, <4>2, <4>4 DEF Safe, CopiesAgree, Has
      <4> QED
        BY <4>3, <4>4
    <3> QED
      BY <3>1 DEF CopiesAgree, Has, Source, NewPath
  <2>6. NoPhotoLost'
    <3>1. ASSUME NEW ph \in Photos
          PROVE  \E p \in Paths : images'[p] # NoBlob /\ images'[p].photo = ph
      <4>1. PICK p \in Paths : Has(p) /\ images[p].photo = ph
        BY DEF Safe, NoPhotoLost
      <4>2. CASE p # dst
        BY <2>2, <4>1, <4>2 DEF Has
      <4>3. CASE p = dst
        <5>1. images[src].photo = ph
          BY <1>1, <1>2, <4>1, <4>3 DEF Safe, CopiesAgree
        <5> QED
          BY <1>2, <2>1, <5>1
      <4> QED
        BY <4>2, <4>3
    <3> QED
      BY <3>1 DEF NoPhotoLost, Has
  <2>7. CASE ok
    <3>1. /\ s.op = r /\ s.pc = "retag" /\ s.todo = req[c].todo
          /\ s.job = req[c].job /\ s.rows = req[c].rows
      BY <1>1 DEF RequestState
    <3> HIDE DEF s
    <3>2. req' = [req EXCEPT ![c] = s] /\ req'[c] = s /\ pending' = pending
      BY <1>4, <2>7 DEF Continue, TypeInv, RequestsOK, RequestTypeOK
    <3>3. /\ s.op \notin pending'
          /\ \A row \in s.rows : row[1] \in Source(s.op)
          /\ \A j \in s.todo : j.path \in Source(s.op)
          /\ s.job.path \in Source(s.op)
          /\ images'[src] # NoBlob /\ images'[dst] # NoBlob
          /\ images'[dst].photo = images'[src].photo
      BY <1>1, <1>2, <2>1, <2>2, <3>1, <3>2 DEF RenameSafe, Has
    <3>4. RenameSafe(req[c])'
      BY <3>1, <3>2, <3>3 DEF RenameSafe, Has, Source, NewPath
    <3>5. WorkSafe(req[c])'
      BY <1>1, <3>1, <3>2, <3>4 DEF WorkSafe, Placed
    <3> QED
      BY <1>1, <1>2, <2>3, <2>4, <2>5, <2>6, <3>1, <3>2, <3>5, MoveStepSafe
  <2>8. CASE ~ok
    <3>1. /\ \E u : req' = [req EXCEPT ![c] = u] /\ u.op \in {req[c].op, None}
          /\ WorkSafe(req[c])'
      BY <1>1, <1>4, <2>8, RenameNextWork
    <3>2. PICK u : req' = [req EXCEPT ![c] = u] /\ u.op \in {req[c].op, None}
      BY <3>1
    <3> QED
      BY <1>1, <1>2, <2>3, <2>4, <2>5, <2>6, <3>1, <3>2, MoveStepSafe
  <2> QED
    BY <2>7, <2>8
<1> QED
  BY <1>4, <1>5, <1>6 DEF SaveBlob

LEMMA RenameDeleteSafe ==
    ASSUME SeparateRenames, TypeInv, TypeInv', Safe, NEW c \in Clients,
           NEW kind \in RenameKinds, RenameDelete(c, kind)
    PROVE  Safe'
<1> DEFINE r   == req[c].op
           src == req[c].job.path
           dst == NewPath(r, src)
<1>1. /\ req[c] \in RequestState /\ r \in Renames /\ r # None
      /\ req[c].pc = "delete" /\ RenameSafe(req[c]) /\ req[c].job # None
  BY Renaming DEF RenameDelete
<1>2. /\ src \in Source(r) /\ dst \in Target(r) /\ src \in Paths /\ dst \in Paths /\ src # dst
      /\ Has(src) /\ Has(dst) /\ images[dst].photo = images[src].photo
  BY <1>1, TargetPaths, Apart DEF RenameSafe
<1>3. PICK ok \in BOOLEAN : DeleteBlob(src, ok) /\ RenameNext(c, ~ok)
  BY DEF RenameDelete
<1>4. CASE UNCHANGED images
  BY <1>1, <1>3, <1>4, SameImages, RenameNextSafe
<1>5. CASE images' = [images EXCEPT ![src] = NoBlob]
  <2>1. images'[src] = NoBlob /\ \A p \in Paths : p # src => images'[p] = images[p]
    BY <1>2, <1>5 DEF TypeInv, StoreTypeOK
  <2>2. /\ pending' = pending /\ WorkSafe(req[c])'
        /\ \E s : req' = [req EXCEPT ![c] = s] /\ s.op \in {req[c].op, None}
    BY <1>1, <1>3, RenameNextWork
  <2>3. MovesOnly(c, src)
    BY <1>2, <2>1, <2>2 DEF MovesOnly
  <2>4. BlobsPlaced'
    <3>1. \A p \in Paths : images'[p] # NoBlob => Placed(p, images'[p].tags)
      BY <2>1 DEF Safe, BlobsPlaced, Has
    <3> QED
      BY <3>1 DEF BlobsPlaced, Has, Placed
  <2>5. CopiesAgree'
    <3>1. \A q \in Renames : \A p \in Source(q) :
              images'[p] # NoBlob /\ images'[NewPath(q, p)] # NoBlob
                => images'[p].photo = images'[NewPath(q, p)].photo
      BY <2>1, TargetPaths DEF Safe, CopiesAgree, Has
    <3> QED
      BY <3>1 DEF CopiesAgree, Has, Source, NewPath
  <2>6. NoPhotoLost'
    <3>1. ASSUME NEW ph \in Photos
          PROVE  \E p \in Paths : images'[p] # NoBlob /\ images'[p].photo = ph
      <4>1. PICK p \in Paths : Has(p) /\ images[p].photo = ph
        BY DEF Safe, NoPhotoLost
      <4>2. CASE p # src
        BY <2>1, <4>1, <4>2 DEF Has
      <4>3. CASE p = src
        BY <1>2, <2>1, <4>1, <4>3 DEF Has
      <4> QED
        BY <4>2, <4>3
    <3> QED
      BY <3>1 DEF NoPhotoLost, Has
  <2>7. PICK s : req' = [req EXCEPT ![c] = s] /\ s.op \in {req[c].op, None}
    BY <2>2
  <2> QED
    BY <1>1, <1>2, <2>2, <2>3, <2>4, <2>5, <2>6, <2>7, MoveStepSafe
<1> QED
  BY <1>3, <1>4, <1>5 DEF DeleteBlob

LEMMA RenameStepsSafe ==
    ASSUME SeparateRenames, TypeInv, TypeInv', Safe, NEW c \in Clients,
           NEW kind \in RenameKinds, RenameSteps(c, kind)
    PROVE  Safe'
<1>1. CASE RenameFind(c, kind)
  BY <1>1, Renaming, FindOrReplySafe DEF RenameFind
<1>2. CASE RenameFetch(c, kind)
  BY <1>2, Renaming, FetchToLoopSafe DEF RenameFetch
<1> QED
  BY <1>1, <1>2, RenameReadSafe, RenameReadTagsSafe, RenameSaveSafe, RenameRetagSafe,
     RenameDeleteSafe DEF RenameSteps

-----------------------------------------------------------------------------
(* The whole API.                                                          *)

LEMMA StepSafe ==
    ASSUME SeparateRenames, EditsKeepPlace, TypeInv, TypeInv', Safe, NEW c \in Clients, Step(c)
    PROVE  Safe'
BY SoftDeleteCollectionSafe, SoftDeleteAlbumSafe, RestoreSafe, RenameStepsSafe, ThumbnailSafe,
   UpdateSafe, BrowseSafe DEF Step, RenameCollection, RenameAlbum, RenameKinds

LEMMA SubmitSafe ==
    ASSUME TypeInv, TypeInv', Safe, NEW c \in Clients, NEW r \in Requests, Submit(c, r)
    PROVE  Safe'
<1> DEFINE s == [Idle EXCEPT !.pc = FirstCall(r), !.op = r]
<1>1. Retags /\ SamePhotos /\ images' = images /\ pending' \subseteq pending
  BY SameImages DEF Submit, Retags
<1>2. \A d \in Clients : req'[d] = IF d = c THEN s ELSE req[d]
  BY DEF Submit, TypeInv, RequestsOK, RequestTypeOK
<1>3. /\ s.op = r /\ s.pc = FirstCall(r) /\ s.rows = {} /\ s.todo = {} /\ s.job = None
      /\ s.pc \in {"find", "get"}
  BY DEF Idle, FirstCall
<1> HIDE DEF s
<1>4. (\A q \in Renames : q \in pending => Unused(q))'
  <2>1. \A q \in Renames : q \in pending' => \A p \in Target(q) : images'[p] = NoBlob
    BY <1>1 DEF Safe, Unused, Has
  <2> QED
    BY <2>1 DEF Unused, Has, Target, Source, NewPath
<1>5. CopiesAgree'
  BY <1>1 DEF Safe, CopiesAgree, Has, Source, NewPath
<1>6. OneRunner'
  <2>1. r \in Renames => \A d \in Clients : req[d].op # r
    BY RequestAssumption DEF Safe, WorkSafe, RenameSafe, Submit, Renames
  <2>2. \A d, e \in Clients :
            req'[d].op \in Renames /\ req'[d].op = req'[e].op => d = e
    BY <1>2, <1>3, <2>1 DEF Safe, OneRunner
  <2> QED
    BY <2>2 DEF OneRunner
<1>7. ASSUME NEW d \in Clients
      PROVE  WorkSafe(req[d])'
  <2>1. CASE d # c
    <3>1. WorkSafe(req[d]) /\ req'[d] = req[d]
      BY <1>2, <2>1 DEF Safe
    <3> QED
      BY <1>1, <3>1, WorkKept
  <2>2. CASE d = c
    <3>1. req'[d] = s
      BY <1>2, <2>2
    <3>2. ASSUME r \in Renames
          PROVE  RenameSafe(req[d])'
      <4>1. r \in pending /\ r \notin pending' /\ Unused(r)
        BY <3>2 DEF Submit, PageLoad, Renames, RenameKinds, Safe
      <4>2. \A p \in Target(r) : images'[p] = NoBlob
        BY <1>1, <4>1 DEF Unused, Has
      <4> QED
        BY <1>3, <3>1, <4>1, <4>2 DEF RenameSafe, Unused, Has, Target, Source, NewPath
    <3> QED
      BY <1>3, <3>1, <3>2 DEF WorkSafe
  <2> QED
    BY <2>1, <2>2
<1>8. NoPhotoLost'
  BY <1>1 DEF Safe, NoPhotoLost, Has
<1> QED
  BY <1>1, <1>4, <1>5, <1>6, <1>7, <1>8 DEF Safe, Retags

LEMMA StutterSafe ==
    ASSUME TypeInv, Safe, UNCHANGED vars
    PROVE  Safe'
<1>1. TypeInv'
  BY StutterType
<1>2. Retags /\ SamePhotos /\ images' = images /\ pending' = pending /\ req' = req
  BY SameImages DEF vars, Retags
<1>3. \A d \in Clients : WorkSafe(req[d])'
  BY <1>1, <1>2, WorkKept DEF Safe
<1>4. (\A q \in Renames : q \in pending => Unused(q))'
  BY <1>2 DEF Safe, Unused, Has, Target, Source, NewPath
<1>5. CopiesAgree' /\ OneRunner' /\ NoPhotoLost'
  BY <1>2 DEF Safe, CopiesAgree, OneRunner, NoPhotoLost, Has, Source, NewPath
<1> QED
  BY <1>2, <1>3, <1>4, <1>5 DEF Safe, Retags

LEMMA InitSafe ==
    ASSUME IntactLibraries, Init
    PROVE  Safe
<1>1. images \in Libraries
  BY DEF Init, StoreInit
<1>2. \A c \in Clients : req[c].op = None
  BY DEF Init, RequestInit, Idle
<1>3. BlobsPlaced /\ NoPhotoLost
  BY <1>1 DEF IntactLibraries, BlobsPlaced, NoPhotoLost, Has
<1>4. \A r \in Renames : Unused(r)
  BY <1>1, TargetPaths DEF IntactLibraries, Unused, Has
<1>5. CopiesAgree
  BY <1>4, TargetPaths DEF CopiesAgree, Unused
<1>6. OneRunner /\ \A c \in Clients : WorkSafe(req[c])
  BY <1>2, RequestAssumption DEF OneRunner, WorkSafe, Renames
<1> QED
  BY <1>3, <1>4, <1>5, <1>6 DEF Safe

LEMMA NextSafe ==
    ASSUME SeparateRenames, EditsKeepPlace, TypeInv, Safe, [Next]_vars
    PROVE  Safe'
<1>1. TypeInv'
  BY NextType
<1>2. ASSUME NEW c \in Clients, CutOff(c)
      PROVE  Safe'
  BY <1>1, <1>2, ReplyPlainSafe, SameImages DEF CutOff
<1> QED
  BY <1>1, <1>2, StepSafe, SubmitSafe, StutterSafe DEF Next, Finished

\* When renames keep out of each other's way, onto names that are free, and
\* tags name the place of their blob, no photo disappears: whatever handlers
\* run beside the renames, fail between two calls or are cut off, for any
\* library, workload and number of clients (rename.go:76-101).
THEOREM SafeRenamesLoseNoPhoto ==
    ASSUME SeparateRenames, EditsKeepPlace, IntactLibraries
    PROVE  Spec => []NoPhotoLost
<1>1. Init => TypeInv /\ Safe
  BY InitType, InitSafe
<1>2. TypeInv /\ Safe /\ [Next]_vars => (TypeInv /\ Safe)'
  BY NextType, NextSafe
<1>3. TypeInv /\ Safe => NoPhotoLost
  BY DEF Safe
<1> QED
  BY <1>1, <1>2, <1>3, PTL DEF Spec
=============================================================================
