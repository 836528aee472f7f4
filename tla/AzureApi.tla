------------------------------ MODULE AzureApi ------------------------------
(***************************************************************************)
(* The handlers of the photo API that copy, delete or retag what a query   *)
(* found, on the production store (storage/azure.go) in the place of the   *)
(* emulator's.  The container is the same table of blobs; what differs is  *)
(*   - a query is one request, and then one more for the tags of each blob *)
(*     it found: an error there is the error of the query, and a blob      *)
(*     never comes without its tag map;                                    *)
(*   - CopyBlob is one request, and the copy has no tags: the call asks    *)
(*     for none and Azure takes over none;                                 *)
(*   - deleting a blob that is not there is an error.                      *)
(* A copy is complete when the request returns and a query sees every tag  *)
(* that was set before it; see the README for both.                        *)
(***************************************************************************)
EXTENDS PhotoApi

CONSTANT Workloads  \* the requests that may be asked for in one run

ASSUME WorkloadAssumption == Workloads \subseteq SUBSET Requests

VARIABLES
    overlapped,  \* ghost: two renames were in progress at once
    untagged     \* ghost: a query returned a copy that had no tags yet

azureVars == <<vars, overlapped, untagged>>

-----------------------------------------------------------------------------
(* FilterBlobsByTags.                                                      *)

\* the blobs that match; the column of row numbers is the emulator's
AzureFind(c, kind, query, none, error) ==
    /\ At(c, kind, "find")
    /\ \/ FindAll(c, query)
       \/ FindsNone(query) /\ Answer(c, none)
       \/ FindFails /\ Answer(c, error)

\* faulty variant: a blob whose tags cannot be read is returned without tags
AzureFetchLoose(c, kind, error) ==
    /\ At(c, kind, "tags")
    /\ \E r \in req[c].rows, ok \in BOOLEAN :
         /\ ReadBlob(r[1], ok)
         /\ Continue(c, [req[c] EXCEPT
               !.pc = IF req[c].rows = {r} THEN "each" ELSE "tags",
               !.rows = @ \ {r},
               !.todo = @ \cup {[path |-> r[1], tags |-> IF ok THEN images[r[1]].tags
                                                               ELSE EmptyTags]}])

\* the tags of the next one, until they have all been read
AzureFetch(c, kind, error) ==
    /\ At(c, kind, "tags")
    /\ \E r \in req[c].rows, ok \in BOOLEAN :
         /\ ReadBlob(r[1], ok)
         /\ IF ok
            THEN Continue(c, [req[c] EXCEPT
                    !.pc = IF req[c].rows = {r} THEN "each" ELSE "tags",
                    !.rows = @ \ {r},
                    !.todo = @ \cup {[path |-> r[1], tags |-> images[r[1]].tags]}])
            ELSE Answer(c, error)

-----------------------------------------------------------------------------
(* CopyBlob and DeleteBlob.                                                *)

\* faulty variant: the copy takes the tags of its source over
AzureCopiedWithTags(p, q) ==
    [images EXCEPT ![q] = [photo |-> images[p].photo, row |-> 0, tags |-> images[p].tags]]

\* faulty variant: the copy has no tag map
AzureCopiedNil(p, q) ==
    [images EXCEPT ![q] = [photo |-> images[p].photo, row |-> 0, tags |-> None]]

AzureCopied(p, q) ==
    [images EXCEPT ![q] = [photo |-> images[p].photo, row |-> 0, tags |-> EmptyTags]]

AzureCopy(p, q, ok) ==
    /\ \/ ok /\ Has(p) /\ CallWorks /\ images' = AzureCopied(p, q)
       \/ ~ok /\ ~Has(p) /\ CallWorks /\ UNCHANGED images
       \/ ~ok /\ CallFails /\ UNCHANGED images
       \/ ~ok /\ CallFails /\ Has(p) /\ images' = AzureCopied(p, q)
    /\ UNCHANGED nextRow

AzureDelete(p, ok) ==
    /\ \/ ok /\ Has(p) /\ CallWorks /\ images' = [images EXCEPT ![p] = NoBlob]
       \/ ~ok /\ ~Has(p) /\ CallWorks /\ UNCHANGED images
       \/ ~ok /\ CallFails /\ UNCHANGED images
       \/ ~ok /\ CallFails /\ images' = [images EXCEPT ![p] = NoBlob]
    /\ UNCHANGED nextRow

-----------------------------------------------------------------------------
(* The handlers.                                                           *)

AzureRenameCopy(c, kind) ==
    /\ At(c, kind, "each")
    /\ \E j \in req[c].todo, ok \in BOOLEAN :
         /\ AzureCopy(j.path, NewPath(req[c].op, j.path), ok)
         /\ IF ok
            THEN Continue(c, [req[c] EXCEPT !.pc = "retag", !.todo = @ \ {j}, !.job = j])
            ELSE NextOrAnswer(c, req[c].todo \ {j}, TRUE, req[c])

\* faulty variant: an error of the deletion is not reported
AzureRenameDeleteUnchecked(c, kind) ==
    /\ At(c, kind, "delete")
    /\ \E ok \in BOOLEAN :
         /\ AzureDelete(req[c].job.path, ok)
         /\ RenameNext(c, FALSE)

AzureRenameDelete(c, kind) ==
    /\ At(c, kind, "delete")
    /\ \E ok \in BOOLEAN :
         /\ AzureDelete(req[c].job.path, ok)
         /\ RenameNext(c, ~ok)

AzureRename(c, kind) ==
    \/ AzureFind(c, kind, RenameQuery(req[c].op), "404", "500")
    \/ AzureFetch(c, kind, "500")
    \/ AzureRenameCopy(c, kind)
    \/ RenameRetag(c, kind)
    \/ AzureRenameDelete(c, kind)

\* the loops that write back what the query returned; only a soft-delete
\* reports the errors of its writes
WriteBack(c, kind) ==
    /\ At(c, kind, "each")
    /\ \E j \in req[c].todo, ok \in BOOLEAN :
         LET deletes == kind = "softDeleteCollection"
         IN  /\ SetBlobTags(j.path, IF deletes THEN Deleted(j.tags) ELSE CollectionCleared(j.tags), ok)
             /\ NextOrAnswer(c, req[c].todo \ {j}, req[c].failed \/ (deletes /\ ~ok), req[c])

AzureSoftDelete(c) ==
    \/ AzureFind(c, "softDeleteCollection", CollectionBlobs(req[c].op, FALSE), "404", "500")
    \/ AzureFetch(c, "softDeleteCollection", "500")
    \/ WriteBack(c, "softDeleteCollection")

\* after the last tag read, the first marked blob of each collection is kept
AzureBrowseFetch(c) ==
    /\ At(c, "browseCollections", "tags")
    /\ \E r \in req[c].rows, ok \in BOOLEAN :
         /\ ReadBlob(r[1], ok)
         /\ LET fetched == req[c].todo \cup {[path |-> r[1], tags |-> images[r[1]].tags]}
            IN  IF ~ok THEN Answer(c, "200")
                ELSE IF req[c].rows # {r}
                THEN Continue(c, [req[c] EXCEPT !.rows = @ \ {r}, !.todo = fetched])
                ELSE \E extras \in Extras("browseCollections", fetched) :
                       NextOrAnswer(c, extras, FALSE, [req[c] EXCEPT !.rows = {}])

AzureBrowse(c) ==
    \/ NoTagList(c, "browseCollections")
    \/ AzureFind(c, "browseCollections", MarkedCollections, "200", "200")
    \/ AzureBrowseFetch(c)
    \/ WriteBack(c, "browseCollections")

AzureStep(c) ==
    \/ AzureRename(c, "renameCollection")
    \/ AzureRename(c, "renameAlbum")
    \/ AzureSoftDelete(c)
    \/ AzureBrowse(c)

Renaming(c) == req[c].op \in Renames

AzureInit ==
    /\ StoreInit
    /\ \E requests \in Workloads : pending = requests
    /\ req = [c \in Clients |-> Idle]
    /\ reply = [c \in Clients |-> [op |-> None, status |-> "none", collectionDeleted |-> FALSE]]
    /\ overlapped = FALSE
    /\ untagged = FALSE

RenamesOverlap == \E c, d \in Clients : c # d /\ Renaming(c) /\ Renaming(d)

\* a result the step adds came without tags from the store
ReadsUntagged(c) ==
    \E j \in req'[c].todo \ req[c].todo : Has(j.path) /\ images[j.path].tags = EmptyTags

AzureNext ==
    \/ /\ \E c \in Clients, r \in Requests : Submit(c, r)
       /\ overlapped' = (overlapped \/ RenamesOverlap')
       /\ UNCHANGED untagged
    \/ \E c \in Clients : /\ AzureStep(c)
                          /\ untagged' = (untagged \/ ReadsUntagged(c))
                          /\ UNCHANGED overlapped
    \/ \E c \in Clients : CutOff(c) /\ UNCHANGED <<overlapped, untagged>>
    \/ Finished /\ UNCHANGED <<overlapped, untagged>>

AzureSpec == AzureInit /\ [][AzureNext]_azureVars

-----------------------------------------------------------------------------

\* Every variable holds a value of its type.
AzureTypeOK == TypeOK /\ overlapped \in BOOLEAN /\ untagged \in BOOLEAN

\* a blob that was copied and is about to get its tags
AwaitsTags(p) ==
    \E c \in Clients : Renaming(c) /\ req[c].pc = "retag" /\ p = NewPath(req[c].op, req[c].job.path)

\* Whatever renames are interrupted and repeated, and whoever else runs
\* beside them, each photo is always in a blob whose tags name its path, or
\* in one a rename is about to give such tags, so that a query finds it
\* (rename.go:76-101, azure.go:207-232).  A photo may be left in a blob no
\* query finds again in two ways only: two renames at the same time, one of
\* which fails, or a handler that read a copy while it had no tags and writes
\* back what it read over those the rename has given it since.
PhotosFound ==
    \/ untagged
    \/ overlapped /\ faults < MaxFaults
    \/ \A ph \in Photos : \E p \in Paths :
         Has(p) /\ images[p].photo = ph /\ (TagsNamePath(p) \/ AwaitsTags(p))

\* A rename answered 200 leaves nothing under the old tag, whatever failed and
\* whatever ran beside it, the same rename a second time included: only
\* where another rename of the workload moves photos to may it have missed
\* one that came after its query (rename.go:97-123).
RenamedAway ==
    [][\A c \in Clients, op \in Renames :
        Answers(c, op, "200") =>
            (BlobsWith(RenameQuery(op)))' \subseteq UNION {Target(r) : r \in Renames}]_azureVars
=============================================================================
