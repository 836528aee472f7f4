------------------------------- MODULE Rename -------------------------------
(***************************************************************************)
(* PUT /api/rename (handler/rename.go): query the blobs of the collection  *)
(* or album, then for each one copy it to its new path, replace the tags   *)
(* of the copy, delete the original.  CopyBlob is LocalBlobStore's: read   *)
(* the bytes, read the tags (an error there is dropped), save.             *)
(***************************************************************************)
EXTENDS ApiRequests

\* replaceFirstSegment and replaceSecondSegment on a three-segment path
NewPath(op, p) ==
    IF op.kind = "renameCollection" THEN <<op.newName, p[2], p[3]>>
                                    ELSE <<p[1], op.newName, p[3]>>

\* faulty variants: the name tag gets the bare new name, or is forgotten
NewTagsBareName(op, j) ==
    [j.tags EXCEPT !.collection = op.newName, !.name = op.newName]
NewTagsOldName(op, j) ==
    IF op.kind = "renameCollection" THEN [j.tags EXCEPT !.collection = op.newName]
                                    ELSE [j.tags EXCEPT !.album = op.newName]

NewTags(op, j) ==
    IF op.kind = "renameCollection"
    THEN [j.tags EXCEPT !.collection = op.newName, !.name = NewPath(op, j.path)]
    ELSE [j.tags EXCEPT !.album = op.newName, !.name = NewPath(op, j.path)]

\* faulty variant: deleted photos are left behind
RenameQueryLiveOnly(op) ==
    IF op.kind = "renameCollection"
    THEN [collection |-> op.collection, isDeleted |-> FALSE]
    ELSE [collection |-> op.collection, album |-> op.album, isDeleted |-> FALSE]

RenameQuery(op) ==
    IF op.kind = "renameCollection"
    THEN [collection |-> op.collection]
    ELSE [collection |-> op.collection, album |-> op.album]

\* the next blob of the loop, or the answer
RenameNext(c, failed) ==
    NextOrAnswer(c, req[c].todo, req[c].failed \/ failed,
                 [req[c] EXCEPT !.job = None, !.photo = None, !.tags = None])

RenameFind(c, kind) ==
    /\ At(c, kind, "find")
    /\ LET query == RenameQuery(req[c].op)
       IN  \/ FindBlobs(c, query)
           \/ FindsNone(query) /\ Answer(c, "404")
           \/ FindFails /\ Answer(c, "500")

RenameFetch(c, kind) ==
    /\ At(c, kind, "tags")
    /\ \E jobs \in Fetches(req[c].rows) :
         /\ FetchTags(c, jobs)
         /\ Continue(c, [Fetched(c, jobs) EXCEPT !.pc = "each", !.todo = jobs])

\* CopyBlob, first part: the bytes of the source
RenameRead(c, kind) ==
    /\ At(c, kind, "each")
    /\ \E j \in req[c].todo, ok \in BOOLEAN :
         /\ ReadBlob(j.path, ok)
         /\ IF ok
            THEN Continue(c, [req[c] EXCEPT !.pc = "copyTags", !.todo = @ \ {j},
                                            !.job = j, !.photo = images[j.path].photo])
            ELSE NextOrAnswer(c, req[c].todo \ {j}, TRUE, req[c])

\* CopyBlob, second part: its tags, as many as can be read
RenameReadTags(c, kind) ==
    /\ At(c, kind, "copyTags")
    /\ LET p == req[c].job.path
       IN  \/ \E n \in 1..7 :
                /\ ReadTags(p, n)
                /\ Continue(c, [req[c] EXCEPT !.pc = "save", !.tags = FirstTags(images[p].tags, n)])
           \/ /\ ReadBlob(p, FALSE)
              /\ Continue(c, [req[c] EXCEPT !.pc = "save", !.tags = EmptyTags])

\* faulty variant: an error of the copy does not skip the rest of the blob
RenameSaveUnchecked(c, kind) ==
    /\ At(c, kind, "save")
    /\ \E ok \in BOOLEAN :
         /\ SaveBlob(NewPath(req[c].op, req[c].job.path), req[c].photo, req[c].tags, ok)
         /\ Continue(c, [req[c] EXCEPT !.pc = IF ok THEN "retag" ELSE "delete",
                                       !.photo = None, !.tags = None])

\* CopyBlob, last part: the destination is overwritten if it exists
RenameSave(c, kind) ==
    /\ At(c, kind, "save")
    /\ \E ok \in BOOLEAN :
         /\ SaveBlob(NewPath(req[c].op, req[c].job.path), req[c].photo, req[c].tags, ok)
         /\ IF ok THEN Continue(c, [req[c] EXCEPT !.pc = "retag", !.photo = None, !.tags = None])
                  ELSE RenameNext(c, TRUE)

\* the tags of the copy: those the query returned, with the new name
RenameRetag(c, kind) ==
    /\ At(c, kind, "retag")
    /\ \E ok \in BOOLEAN :
         /\ SetBlobTags(NewPath(req[c].op, req[c].job.path), NewTags(req[c].op, req[c].job), ok)
         /\ IF ok THEN Continue(c, [req[c] EXCEPT !.pc = "delete"])
                  ELSE RenameNext(c, TRUE)

RenameDelete(c, kind) ==
    /\ At(c, kind, "delete")
    /\ \E ok \in BOOLEAN :
         /\ DeleteBlob(req[c].job.path, ok)
         /\ RenameNext(c, ~ok)

RenameSteps(c, kind) ==
    \/ RenameFind(c, kind)
    \/ RenameFetch(c, kind)
    \/ RenameRead(c, kind)
    \/ RenameReadTags(c, kind)
    \/ RenameSave(c, kind)
    \/ RenameRetag(c, kind)
    \/ RenameDelete(c, kind)

RenameCollection(c) == RenameSteps(c, "renameCollection")
RenameAlbum(c)      == RenameSteps(c, "renameAlbum")
=============================================================================
