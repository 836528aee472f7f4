# photo-api: TLA+ specifications, model checking and proofs

The repository is a photo library: an HTTP API over a container of images that
carry tags, a pipeline that resizes uploads, and a service that detects faces
and groups them into people. These modules model the parts of it where several
actors change the same state without a lock: the API's handlers on the image
container, kept by the emulator or by Azure; the way of an upload through the
emulator's files, tables and queue and the resize service, and the edits made
meanwhile; and the face service, its backfill job and the API on the face store.
TLC checks them on small instances; TLAPS proves the theorems listed below for
every value of the constants.

Paths are relative to the repository (`src/` here).

## 1. The system

| component | state | operations | interacts with |
|---|---|---|---|
| Photo API, changes (`api/internal/handler/softdelete.go, rename.go, thumbnail.go, update.go`) | none of its own; tag sets read from the store, held in local variables | soft-delete, restore and rename of a collection or an album, choice and rotation of a thumbnail, tag update | blob store, one HTTP call after another |
| Photo API, page loads (`collection.go, album.go`) | none | list collections or albums; **clears duplicate thumbnails on the way** | blob store |
| Photo API, listings (`photo.go, allalbums.go, tags.go`) | none | read and format | blob store |
| Photo API, upload (`upload.go`) | none | store an upload with tags and EXIF metadata | blob store, which publishes an event |
| Photo API, people (`people.go, faces.go`) | none | list, name and merge people, faces of a photo | face store |
| Blob store (`storage/local.go`, `azure.go`) | none | query by tags, get, save, copy, delete, tags | blob emulator, or Azure |
| Blob emulator (`blobemu/`) | tables blobs, tags, metadata; files | the same, one SQLite statement or transaction each | publishes an event for every saved blob (`publisher.go`) |
| Resize service (`cmd/resize`) | none | on an upload's event: read, resize, save as image; acknowledges whatever happens | queue, blob store |
| Face service (`cmd/face`) | none | on an image's event: check, download, detect, and for every face match and save | queue, blob store, face store |
| Backfill job (`cmd/facecron`) | a semaphore | the same for every image not processed yet, in goroutines | blob store, face store |
| Face store (`facestore/sqlite.go, tablestore.go`) | persons, faces, reverse index | SaveFace, SetPersonName, MergePeople, queries | SQLite, or Azure tables |
| `facedetect`, `exif`, `utils`, `telemetry` | none | pure functions, logging | |
| `docker-compose.yml`, `infra/`, `helm/`, `k8s/`, `dapr/` | configuration | | |

What makes it hard:

* **No locks, no etags.** A handler reads tag sets with one query and writes
  whole tag sets back later, one call per blob. Anything written in between is
  overwritten. Page loads do this too, and anybody may load a page at any time.
* **Partial failure.** A rename is copy, retag and delete for each blob; the
  loop goes on after an error, and the answer is 206. Some errors are only
  logged or dropped.
* **Two statements for a query.** The emulator selects rows and then their
  tags; a blob that changed in between, or a failing second statement, comes
  back without tags, and assigning into its nil map panics. An error in the
  middle of either result passes for its end (`rows.Err()` is never called), so
  that a handler may be given part of the blobs, or of their tags, for all.
* **Events.** An event is delivered again after an error or a crash, and may be
  lost: publishing is best effort, and its connection is opened only once. The
  resize service acknowledges whatever happens; the backfill job looks at the
  same photos as the face service. An event's URL is percent-encoded, which the
  resize service undoes and the face service does not.
* **Files beside tables.** The emulator writes a blob's file outside the
  transaction that replaces its tags, unlinks it after the transaction that
  deletes them, removes directories that have become empty while somebody else
  has just made sure they exist, and goes on when its client has gone.
* **Tables without transactions.** On Azure a saved face is five requests and a
  merge three for each face and four more.
* **Copies without tags.** On Azure a copied blob has no tags until the next
  request, and the tags of what a query found are read one blob at a time.

What makes each component correct, in short: no photo is lost; an answer is
true; paths and tags agree; the last upload to a path, with the edits made to
it since, is the image shown there; one thumbnail for each collection and album, and
duplicates disappear; a photo that is deleted, restored or moved undisturbed
stays so; a person's face count is
the number of its faces, every face has a person, every face is recorded, once.

## 2. Modules

```
PhotoStore            the images container and its calls
  ApiRequests         requests, answers, the query every handler starts with
    SoftDelete  Rename  Thumbnail  Browse      the handlers
      PhotoApi        all of them on one container; properties
        OneConnection why answers are true when requests follow one another; the invariants
          OneAdministrator    why one administrator keeps one thumbnail; the invariant
        SafeRenames   when renames lose no photo; the inductive invariant
        AzureApi      the renames and their neighbours on Azure's store
          AzureRenames    when they lose and hide no photo; the invariants
        MCPhotoApi    libraries and workloads for TLC (with OneAdministrator)
          MCSafeRenames (with SafeRenames)
          MCAzureApi    (with AzureRenames)
        PhotoApiProofs         types; answers, order, thumbnails (with OneAdministrator)
          SafeRenamesProofs    no photo is lost
          AzureApiProofs       the same on Azure, and what queries find (with AzureRenames)

BlobPromises          abstract: what PUT, DELETE and tag updates of a blob promise
BlobEmulator          the emulator's files, tables, calls and publishers
  UploadPipeline      its callers: uploads, the resize service, an administrator
    OneReplica        why one replica of the resize service shows what was asked for
      MCUploads       (also shows BlobEmulator to implement BlobPromises)
      UploadPipelineProofs   types, the promises kept, the library as asked

FaceStore             abstract: what the interface promises
FaceWorkers           face service replicas, backfill job, administrators
  SQLiteFaces         one step per transaction; implements FaceStore
    MCSQLiteFaces
  TableFaces          one step per request to a table
    MCTableFaces
  FaceWorkersProofs   what the workers do, whichever store they save to
    SQLiteFacesProofs        types, counts, references, the interface kept
    TableFacesProofs         types, every face has a person
      TableMergesProofs      merges, saves and recounts that overtake each other
```

### The photo API

`images` maps a path (collection, album, file) to a photo, a row number and a
tag set, or to nothing. The emulator's row number is there because a query's
second statement asks by it. A tag set has the keys the handlers read or write;
`orientation` stands for every tag that is only carried along. `req[c]` is the
handler running on connection `c`: its `pc` names the next store call, and the
other fields are the handler's local variables (`todo` the rest of its loop,
`job` the blob at hand). `reply[c]` is its last answer, `pending` the requests
not sent yet. Page loads are never used up.

A step is one store call, with the handler's code up to the next one. The
loop's order is left open, because `FilterByTags` has no `ORDER BY`. `faults`
is the budget of failures: while it lasts a call may fail, before or after it
took effect, and `CutOff` may end a request between two calls, as a crash or a
lost connection does. A failure may also break off the result of a query, of its
rows (`FindSome`) or of their tags (`WithSomeTags`), or the tags of one blob
(`ReadTags`), which the caller cannot see. Rows come in any order, tags in the
order of the index they are read by. An error before the first row is reported
by `db.Query`, so what is left of a result is never empty, except for the tags of a query,
whose statement's error is dropped (`store.go:394`). The ghost `cut` notes which
result of its query a handler was given in part.

| code | definitions |
|---|---|
| `SoftDelete…Handler`, `Restore…Handler` | `SoftDeleteCollection`, `SoftDeleteAlbum` (with the closing query, `Remaining`), `RestoreCollection`, `RestoreAlbum` |
| `Rename…Handler`, `LocalBlobStore.CopyBlob` | `RenameFind`, `RenameRead`, `RenameReadTags`, `RenameSave`, `RenameRetag`, `RenameDelete` |
| `Thumbnail…Handler` | `ThumbnailFind` … `ThumbnailSet`, `ThumbnailRotate` |
| `UpdateHandler` | `UpdateGet`, `UpdateFind`, `UpdateClear`, `UpdateSet` |
| `CollectionHandler`, `AlbumHandler` | `NoTagList` (404), `BrowseFind`, `BrowseFetch`, `BrowseClear` |
| `RequireRole` and the routes of `cmd/photo/main.go` | `Authorized`, `Kinds` |
| `Store.FilterByTags` | `MatchingRows` or `Shortened`, then `WithTags` or `WithSomeTags` |
| `Store.tagsByID` under `GetBlobTags` | `ReadTags`, `FirstTags` |
| `Store.SaveBlob`, `SetTags`, `DeleteBlob` | `Stored`, `Retagged`, `DeleteBlob` |

### The photo API on Azure

`AzureApi` runs the handlers on `azure.go` in place of `local.go`: the renames,
the only handlers that copy and delete, and beside them a soft-delete and the
page load that write whole tag sets back. The tags of each blob a query found
are a step of their own (`AzureFetch`), and one that fails, or whose blob has
gone, fails the query; so no blob comes without its tag map. `AzureCopy` is one
request, and the copy has no tags until `RenameRetag`. `AzureDelete` fails for a
blob that is not there. Two ghosts: `overlapped`, two renames have been in
progress at once; `untagged`, a handler has read the tags of a blob that had
none. What a rename takes and where to (`Source`, `Target`) is defined in
`PhotoApi`, for both stores.

Assumed of the service: a copy is complete when `StartCopyFromURL` returns
(`azure.go:212` does not look at its status), it takes no tags over, a query
sees every tag set before it, and its results fit on one page (`azure.go:34`
asks for no other).

### The upload pipeline

An upload stands for all it brings: bytes, tags, metadata; a tag set for whose
it is and whether `isDeleted` is set. `BlobEmulator` has the disk and the
tables of both containers, `files`, `dirs` and `rows`. `calls` are the requests
the emulator is working on, each with the step it is at: a PUT makes the
directory, truncates the file, writes it, commits the rows, publishes; a DELETE
looks up the row's id, drops the rows of that id, unlinks the file, prunes the
directory. Any other call may take its steps in between, so that a PUT may find
its directory pruned, or its open file unlinked. Ids are kept for this: a row
that is dropped and saved again has another. One directory stands for the path
from album to container. `mixed` is a ghost: the last call on a blob failed, or
met another.

`UploadPipeline` has the callers: an upload, a replica of the resize service,
and an administrator, whose soft-delete, restore or rename of a photo
(`admin`) is the body of those handlers' loops. The query that finds the photo
is one step here, as is a GET of the resize service: rows of "uploads" are never
removed, and in "images" only by that one administrator. A caller waits
for its call. When it goes away (`UploadCutOff`, `WorkerDies`, `EditCutOff`) the
call goes on without it, since nothing in the emulator looks at the request's
context.

| code | definitions |
|---|---|
| `Store.SaveBlob` | `MakeDir`, `OpenFile`, `WriteFile`, `CommitRows`; `DirGone` |
| `Store.DeleteBlob`, `removeFile` | `LookUp`, `DropRows`, `Unlink`, `Prune` |
| `Store.SetTags` | `SetTags` |
| `blobPutHandler`, `blobDeleteHandler` | `PutOrder`, `DeleteOrder`, `CallStep`, `CallFails` |
| `Publisher` | `EventOf`, `Published`, `Publish`, `connected`; `BrokerDrops`: connected once, in `NewPublisher` |
| `blobemu/main.go`, start | `Restart`: not without the first publisher, but without the one for faces |
| `UploadHandler` | `Upload` (what it refuses is `Quality`), `UploadCutOff` |
| `Handler.Resize` | `Take`, `GetBlob`, `GetBlobTags`, `GetBlobMetadata`, `SaveImage`, `ResizeFails` |
| `SoftDelete…`, `Restore…Handler`, their loop | `FindPhoto`, `Mark` |
| `Rename…Handler`, its loop; `LocalBlobStore.CopyBlob` | `FindPhoto`, `CopyBytes`, `CopyTags`, `CopyMetadata`, `Retag`, `DeleteOld` |

`expected` is a ghost: what the site is to show at each path in the end. It is
set by what begins undisturbed: an upload while nothing but resizing is under
way to its path and the publishers are connected, an edit while nothing at all
is on its way to its paths. It becomes `Unknown` when a failure falls on the
path, and stays so until the next undisturbed upload. A failure of the broker is
felt where something is published; that Dapr loses its own connection is covered
by redelivery. Reading tags or metadata may end early without an error here too
(`ReadsSome`, and `EditFails` for the copy of a rename): tags are one value, so
`Nothing` stands for what is missing, and the path becomes `Unknown`.
`BlobPromises` states separately, without callers, what the emulator's calls
promise of a blob.

### The faces

Ids are numbers handed out in order, for the code's random uuids. A photo has a
fixed sequence of faces the detector finds (`Detected`), a face a `look`, and
`Similar` says which looks are within both tolerances. The code takes "the
first (best) match", but no implementation sorts, so `Match` takes any.

`queue` counts the events waiting for each photo: at the start none (lost), one
or more. A handler that returns an error or dies puts its event back. An event
has its photo's path percent-encoded (`publisher.go:137-151`), and the face
service splits it as it is (`face/main.go:138-158`): `Undecoded` says which
photo, if any, has the name that is taken from a photo's event. For a plain name it is
the photo itself; for one with a space it is a name nothing is stored under, and
the download fails. The job has the names from a listing, as they are. `worker`
is where each replica of the face service and each goroutine of the job is,
`cron` the job's main loop with its list and its wait for the semaphore.

On SQLite every store call is one statement or transaction, hence one step, and
a failed one is rolled back. On the tables `SaveFace` is five steps
(`SavePerson`, `SaveRow`, `SaveIndex`, `ListForCount`, `SaveCount`) and
`MergePeople` the steps `MergeList`, then `MergeDelete`, `MergeInsert`,
`MergeIndex` for each face, then `MergeDrop`, `MergeCount`, `MergePatch`; a
request may fail before or after its effect. The job does not run on the tables
(`facecron/main.go:70-72`). Two ghosts say what a step did: `merged` counts how
often a person was to be merged away, `raced` collects the persons whose faces
changed between the two requests of a recount. `Starts` are the situations a run
may begin in: an empty store or one with faces, events waiting or not, and how
many calls administrators make.

`FaceStore` states the interface's promises as a small specification of its
own: persons with a name and a count, faces with a person. `SQLiteFaces` refines
it by forgetting thumbnails and everything about callers (`PromisesKept`).

## 3. Runs

| run | bounds | states | result |
|---|---|---|---|
| `renames` | 2 connections, 2 photos, 2 renames, page loads, a soft-delete, 1 failure | 914,250 | `TypeOK`, `NoPhotoLost` |
| `answers` | 1 connection, 8 requests in every order, 1 failure | 1,909,988 | `Settled`, `HonestAnswers`, `AnsweredChangesHold` |
| `thumbnails` | 1 administrator, 7 requests, page loads of another | 736,878 | `OneThumbnail`, `OneAlbumThumbnail` |
| `converge` | 2 connections, both page loads, 2 choices of a thumbnail by 2 administrators, 2 libraries with duplicates, 1 failure, fairness | 204,143 | `ThumbnailsConverge` |
| `uploads` | 3 paths in 2 albums, 5 situations of up to 3 uploads and 2 edits, 1 replica, 1 failure, fairness | 226,741 | `TypeOK`, `LibraryAsAsked`, `ComesToRest`, `PromisesKept` |
| `azure_renames` | 2 connections, 2 photos, 3 workloads of up to 3 renames beside page loads or a soft-delete of the old or the new collection, 1 failure | 1,758,412 | `AzureTypeOK`, `NoPhotoLost`, `PhotosFound`, `RenamedAway` |
| `sqlite_faces` | 1 replica, 1 goroutine, a photo with 2 faces and one with 1 and an encoded name, 2 admin calls, 1 failure, fairness | 522,028 | `TypeOK`, `CountsMatch`, `FacesBelong`, `PromisesKept`, `EveryFaceRecorded` |
| `table_faces` | 2 replicas, 2 photos with 3 faces and a call beside them, or 3 calls on 2 connections and 3 stored faces; 1 failure | 2,360,592 | `TypeOK`, `IndexLeadsToFace`, `FacesHavePersons`, `FacesStay`, `FacesOnce`, `CountsMatchUnlessRaced`, `NobodyEmpty` |
| `rename_retry` | 1 connection, the same rename twice, 1 failure | | `NoPhotoLost` violated |
| `stale_clear` | a soft-delete and a page load | | `BrowseOnlyClearsMarks` violated |
| `faces_twice` | 1 replica, 1 goroutine, 1 photo | | `RecordedOnce` violated |
| `table_names` | 1 replica, 1 name | | `SaveKeepsName` violated |

**Why the bounds are enough.** Every hazard here needs two actors and two blobs
(or faces): one to be read early and one to be changed meanwhile. In `answers`
the renames, soft-deletes and restores of the collection find both photos, so
that a failure falls before, in or after a round that works, and a result that
breaks off leaves one. In `renames` each rename and the soft-delete has
one photo; what matters there is who meets it between two steps. One failure
reaches every error path; a second would repeat one.
Libraries, workloads and situations are chosen so that the requests meet on the
same photos. Those of `uploads` are: two uploads to a path; one of them
damaged; a photo edited twice while a new version of it, or its neighbour in the
directory, arrives; uploads that nobody is told of, before a restart. Workloads
are finite except for page loads, row numbers and ids grow only with them, and
nothing else is unbounded. `FirstFreeRow` and the `person` and `face` of
`Starts` only say where the numbering starts. Symmetry is used in two runs, over
connections and over replicas: nothing in the specification, the starts or the
properties names one of them, and neither run checks liveness.

What is shown by each:

* `renames`: the two renames are of separate places, as `SafeRenames` requires
  (`MCSafeRenames` has TLC check that). A page load can catch the copy of a
  rename between save and retag, take it for a duplicate thumbnail and write
  old tags back; the photo is still never lost.
* `answers`: no concurrency, all orders. With concurrency most of these do not
  hold, and are not claimed: a soft-delete and a restore overlap, for instance.
  The part of `AnsweredChangesHold` about thumbnails is claimed without
  failures only, since a failed clearing is only logged. Nothing is claimed of
  an answer 200 whose query broke off (`FoundAll`): the handler then did all it
  was told of (section 4).
* `thumbnails`: one administrator, since two that choose at the same time can
  leave two thumbnails until the next page load (`thumbnail.go:60-91`).
* `converge`: two administrators who choose, one failing call, and two page
  loads that overlap each other and the choices, also when the list of
  thumbnails that one of them is given is cut short. With three, the code does not
  guarantee it: two can clear different photos while the third writes an old
  mark back, for ever.
* `uploads`: an upload that meets no failure of its own is what the site shows
  in the end, whatever failed before it and whatever was mixed up while its
  path was resized for an earlier event, and the face service has heard of it.
  This is the retry that users are left with, as failures are only logged. A
  soft-delete, restore or rename of a photo lasts, until the next upload to its
  path. Not promised, because the code does not keep it: an edit that begins
  while an event of its photo waits or is redelivered (the resize service then
  writes the upload's tags over the edit's, or brings the renamed photo back); two
  uploads to a path at once; a save for which `removeFile` has pruned the
  directory in between, which fails without any fault, and which resizing
  acknowledges although the upload was answered 201. One replica: with two
  (`infra/main.bicep:416` allows that on Azure, the emulator's deployments have
  one) the replica with the older event can save last, without any failure.
  An edit is of one photo; the loop over many is in `PhotoApi`.
  `PromisesKept` is the refinement: what each call leaves on disk and in the
  tables is what it was sent for, or marked as mixed until the next call that is
  alone; neighbours, pruning and restarts change nothing.
* `azure_renames`: a rename, the same one again and a rename of an album in the
  collection. On this store a rename interrupted between copy and
  tags leaves a copy no query finds, but not the photo: the original is still
  there and the next rename takes it. `rename_retry` has no counterpart here, as
  the unfinished copy is not found. Two things do leave a photo where no query
  finds it, and are exempt in `PhotosFound`: overlapping renames of which one
  fails, and a handler that read a copy while it had no tags (section 4).
  `RenamedAway` has no such exemption: a rename answered 200 leaves nothing
  under its old name, except where another rename of the workload moves photos
  to. Renames in opposite directions (A to B beside B to A) are not
  in the workloads: on either store they can delete each other's copies.
* `sqlite_faces`: a merge may come between a save and the query its person was
  found by, and still every step keeps the interface's promises.
  `EveryFaceRecorded` has two parts. A photo the job has listed is recorded,
  whatever its name. A photo that an event is taken for is recorded too, unless
  an event that can never succeed is around (`StuckEvent`): it comes back for
  ever, and fairness of a replica does not say which of two events it takes.
* `table_faces`: what is left without transactions. A save that stops anywhere
  leaves no dangling reference and no face without a person. Merges in any
  direction, and saves beside them, lose no face until a request fails (one that
  fails between delete and insert does lose it: the errors are dropped). Each
  property names the one way in which the code breaks it: references and faces
  are left behind only for a person that was merged away, a face is doubled only
  by merging one person away twice, and a count is wrong only if a recount was
  overtaken between its two requests.

**Fairness.** `PhotoApi!Fairness` has weak fairness of each connection's
handler (a goroutine that net/http runs to its end) and strong fairness of the
submission of each request on some connection: users go on loading pages, which
is what the code relies on to clear duplicates. `SQLiteFaces!Fairness` has weak
fairness of each replica and of the job's loop: Dapr delivers what is queued,
goroutines run. Neither claims that a call works, that an administrator acts or
that the job is started. `UploadPipeline!Fairness` has weak
fairness of the emulator as a whole, of each replica and of an edit under way,
none of uploads, new edits or failures. Failures, `CutOff`, `Die`, `CronStart` and
`Administer` have no fairness. `EveryFaceRecorded` is claimed of behaviours
without failures, because a replica that dies between two faces of a photo
leaves the rest unrecorded: the photo counts as processed after its first face
(`cmd/face/main.go:161`).

**Deadlock** is checked in every run. `Finished` (in the pipeline
`NoMoreUploads`) is the only stutter: every request sent and answered, every
event handled.

## 4. Disagreements between the code and its comments

With a run (the traces are a few steps long):

1. `rename_retry`: when `SetBlobTags` fails the copy keeps the old collection
   tag. The next rename to the same name finds the copy by that tag, copies it
   onto itself and deletes it (`rename.go:74-101`).
2. `stale_clear`: a page load writes whole tag sets back; it means to clear one
   mark (`collection.go:37-46`), and undoes a soft-delete.
3. `faces_twice`: check and save are apart, and job and service share nothing
   (`facecron/main.go:116`, `face/main.go:161`).
4. `table_names`: the "merge" of a person sends an empty name
   (`tablestore.go:91-100`), since the field has no `omitempty`.

Read in the code and kept in the model, without a run of their own:

* an upload to a path meets another one, or fails between file and rows, and
  leaves the bytes of one and the tags of the other (`blobemu/store.go:126`);
  `blobemu.md:228` promises that both are replaced atomically, and `PromisesKept`
  would be violated without the ghost `mixed`;
* when the publishers lose their connection, no upload is resized any more
  until the emulator restarts (`blobemu/publisher.go:85`), although each is
  answered 201;
* `DeleteBlob` takes any error of its lookup for a blob that is not there
  (`store.go:207`; its comment allows only the latter), so that a rename
  answers 200 and leaves the old photo: `AnsweredChangesHold` counts these;
* `storage.go:36-37` has `CopyBlob` "preserving tags and metadata"; on Azure it
  does not ask for the tags (`azure.go:212`), on the emulator it stores the copy
  without them when they cannot be read (`local.go:271`);
* the partition key of a photo's faces on Azure is `collection/album/file`
  (`facestore/models.go:27`), and Azure Tables does not allow `/` in a key: the
  model takes the requests to succeed;
* `image/webp` is an accepted type (`upload.go:27`), but a webp file is refused,
  as no decoder for it is linked in, and a JPEG declared as webp is stored and
  never shown, since `ResizeImage` has no case for it (`utils.go:107-116`);
* the face count of the tables is counted and then written without an ETag
  (`tablestore.go:375-396`): of two replicas that save faces of one person, the
  one that counted first may write last;
* an album's soft-delete whose closing query fails reports the collection
  deleted (`softdelete.go:125`), which `HonestAnswers` exempts;
* on Azure, a rename that stops before its delete leaves the tagged copy and the
  original. The same rename again copies over that copy, which then has no tags
  until they are set (`azure.go:207`). A soft-delete of the new collection whose
  query found the copy before reads its tags now (`azure.go:39`): none, and
  without an error. It writes back `isDeleted` alone (`softdelete.go:49`), over
  the tags the rename has set since, and the photo is in a blob without
  collection and album. `untagged` says where it can happen: without it TLC
  violates `PhotosFound`;
* `FilterByTags` drops the error of its tag statement (`store.go:393-394`), and a
  rename then stores the copy with only the two tags it sets itself;
* no loop over rows asks `rows.Err()` (`store.go:368-376, 397-406, 443-475`). An
  error while the matching rows are read leaves the rest out: a soft-delete,
  restore or rename changes part of the photos and answers 200, and a choice of
  a thumbnail leaves old marks. `HonestAnswers` and `AnsweredChangesHold` exempt
  these answers (`FoundAll`). An error while tags are read leaves out the rest
  of them, and those of the blobs after it, and what a handler writes back then
  lacks them. No photo is lost by it (`NoPhotoLost`), and of what an answer 200
  says only the live thumbnail of a restore depends on it (`FoundWhole`);
* the face service does not decode the path in an event's URL
  (`face/main.go:138-158`), which the emulator has encoded
  (`publisher.go:137-151`) and the resize service does decode: for a photo named
  with a space or another reserved character it asks for a blob that does not
  exist, fails, and is sent the event again for ever. Its `PhotoRef` also differs from the
  job's, so that only the job records such a photo. The runs on the tables have
  plain names;
* a page load between the copy and the retag of a rename can write the old tags
  back after the new ones (`collection.go:46`), so that the moved photo is
  listed under its old collection;
* `TableStore.MergePeople` drops the errors of its writes, so that a merge that
  was not done is answered 200 (`tablestore.go:239-258`).

## 5. Proofs

The names in the list are those of the theorems. None bounds the number of
connections, photos, paths, faces, replicas, uploads or failures; each holds for
every value of the constants that satisfies the assumptions it names.

### The photo API on the emulator

* `TypeCorrect` (`PhotoApiProofs`): `Spec => []TypeOK`. Every handler takes tag sets
  from the store or from an earlier answer of it, so the type of `images` and of
  the local variables go together, and `TypeOK` is not inductive: that the `job`
  of a rename is a blob, or that the `tags` of a thumbnail handler are a tag set,
  depends on where the handler is. `TypeInv` adds this (`AtHand`); there is one
  lemma for each call of the store, each pattern the handlers share (query,
  loop, answer) and each action. It rests on `NoneAssumption`,
  `LibraryAssumption`, `RequestAssumption`, the assumptions on the constants.

* `SafeRenamesLoseNoPhoto`: `Spec => []NoPhotoLost`, for any
  number of connections, photos, requests and failures, assuming three things
  of the instance. `SeparateRenames`: no rename's source or target meets
  another rename's target, and no two sources meet. `EditsKeepPlace`: the body
  of a tag update names the collection and album of its photo, or the ones a
  rename moves it from. `IntactLibraries`: every photo is somewhere at the
  start, tags name places, and targets are empty.

  The invariant is `Safe` (module `SafeRenames`), on top of `TypeInv`. A photo
  is only deleted by a rename that has stored a copy, so one must know that the
  copy is still there, and is another blob: `RenameSafe` says so of a rename
  that is about to retag or delete. What could break it is a rename that finds
  a blob outside its source, by tags that are out of date; hence `BlobsPlaced`
  (tags at a path name that path's place or the place it is moved from) and, as
  handlers write back tags they read before, the same for every tag set a
  handler holds (`WorkSafe`). A page load in the middle of a rename does write
  old tags over new ones, and `Placed` has room for exactly that. `Unused` says
  that a rename that has not queried yet has an empty target, so that it cannot
  find its own copies: it is what a second rename with the same name breaks,
  and `rename_retry` shows what follows.

  Steps that only retag keep `Safe` for one common reason (`RetagStepSafe`);
  the three that matter are `RenameSave` (the only one that stores a photo),
  `RenameRetag` and `RenameDelete` (the only one that removes one), whose
  proofs show that no other rename under way notices (`MoveUnnoticed`,
  `MoveStepSafe`). TLC checked `Safe` as an invariant of the instance of
  `renames` before the proof.

Five theorems are about the properties of `answers` and `thumbnails`. They hold
under hypotheses that are part of each theorem, and that TLC evaluates for
the two instances (`MCHypotheses`). Without them the properties do not hold, as
`PhotoApi` has no lock between the calls of two handlers.

* `AnswersHonest` and `ChangesHold` (`HonestAnswers`, `AnsweredChangesHold`), under
  `OneClient`: requests come one after another, on one connection; libraries,
  workloads and failures are arbitrary, the results that break off unnoticed
  among them; both properties speak of answers of handlers that were given all
  the rows of their query, and the live thumbnail a restore leaves also needs
  all their tags. The invariant `Complete` (module
  `OneConnection`) follows what a handler's first query could still find
  (`Found`): as long as nothing has failed that the handler knows of, and its
  rows were not cut short, it is part of what the loop has left
  (`MarkingAll`, `ClearingAll`), for a rename together with the blob at hand and
  the blobs that a delete has silently left (`RenamingAll`). A restore has also
  given its mark to a photo that no later iteration takes it from (`MarkGiven`).
  When the loop ends, nothing is left to find.
* `SettledAlways` (`Settled`), under `OneClient`, `LibrariesInOrder` (the library
  has each photo once, with tags that name its path) and `EditsInPlace` (the body
  of an edit names the collection and album of its photo: `UpdateHandler` writes
  any body). The invariant `Orderly` has an exception for the one blob a rename is
  copying, and says that what a handler has read names the path it came from and
  that rows and photos it goes back to are still there, which is why its copies
  always get tags.
* `OneThumbnailAlways` and `OneAlbumThumbnailAlways`
  (`OneThumbnail`, `OneAlbumThumbnail`): one administrator
  and any number of page loads beside him (`OneAdmin`), no failures, photos marked
  once at the start (`LibrariesMarked`) and a workload without renames or restores
  (`ThumbnailRequests`): a restore gives a mark without looking for one. Nor may an
  edit mark a photo as the thumbnail of its album, since `UpdateHandler` clears
  only the mark of the collection. The invariant `Tidy`: two blobs of a collection
  or an album never both have the mark, hidden or not, also between the calls of a
  handler. So a page load finds nothing to clear (`OnlyReads`), the administrator
  is alone in writing, and what he has read has not changed when he writes it
  back (`Fresh`); and what was marked when he looked is what he has cleared when he
  marks another (`Complete`, and `Replaces` for an edit). TLC checked `Tidy` as an
  invariant of the instance of `thumbnails` before the proof.

### The photo API on Azure

Assumptions: those above, `WorkloadAssumption`, and two conditions stated in
`AzureRenames`. `OneWay`: there is a rank of the paths that every rename raises,
so that no sequence of renames leads back; without it two renames can delete
each other's copies. `NeverMixed`: a path is the way of one photo only, so that
no rename overwrites another photo, and every blob has the tags of its path at
the start. Other than on the emulator the same rename may be asked for again, and
renames may follow or overtake one another. `MCAzureApi` gives `Home` and `Rank`
values and has TLC check both.

* `AzureTypeCorrect`: `AzureSpec => []AzureTypeOK`, by the invariant of
  `TypeCorrect`, as most steps are the emulator's.
* `AzureRenamesLoseNoPhoto`: `AzureSpec => []NoPhotoLost`, without exemptions.
  `AtHome` says that every blob holds the photo of its path, that its tags name
  the path's collection and album or none, and that what a rename has found is
  in its own source, each blob once; a copy without tags is then never taken
  for something else. `Copied` says that what a rename is about to delete has
  another blob with the photo of higher rank. It is this "of higher rank", not
  "at the rename's target", that is inductive: the copy may itself be moved on
  and deleted by another rename, which by then has a copy further along.
* `AzureRenamesFinish`: `AzureSpec => RenamedAway`, under `NeverMixed` alone. The
  invariant `NoneMissed`: a rename that has met no error holds every blob left
  under its old name that no rename copies to, as a row or as a result. Nobody
  else can bring one there or, since a blob outside the targets always has the
  tags of its path, hide one from the query.
* `AzureRenamesHideNoPhoto`: `AzureSpec => []PhotosFound`. The invariant
  `NoneHidden` goes through the two exemptions. While no handler has read a copy without
  tags, every blob has the tags of its path or is an untagged copy (`Tagged`).
  If no rename has met another, what a rename has found still has its tags
  (`Alone`), and the copy of what it is about to delete can be found further
  along (`CopiedFindable`), so that every photo stays findable (`AllFound`). If
  renames have overlapped but nothing has failed, the last two hold all the
  same: a rename that has copied goes on to set the tags. TLC
  checked `AtHome`, `Copied`, `NoneMissed` and `NoneHidden` as invariants of the
  instance of `azure_renames` before they were proved.

### The upload pipeline

Assumptions: `EmulatorAssumption` and `PipelineAssumption` (types of the
constants, values that are distinct), `PromisesAssumption` (a change under way
is not the value of a blob).

* `UploadTypeCorrect`: `Spec => []TypeOK`. `TypeInv` adds how far a DELETE can
  be, which call an edit waits for, and what an edit has found when it uses it.
* `BlobPromisesKept`: `Spec => PromisesKept`, the refinement of `BlobPromises` by
  the emulator, for all blobs at once. `BlobsInv`: a blob that is not `mixed` has
  at most one call that is changing it, and with none it has a file wherever it
  has a row; the call's own progress (`Halfway`) is the file it has written, or the
  row it has dropped. Each step of a call is then a stutter, the promised change,
  or the step that makes the blob mixed; the step that changes one blob leaves
  the others' images under the mapping alone, which is where pruning
  directories and the restart, which drops all calls, have to be looked at.
* `LibraryIsAsAsked`: `Spec => []LibraryAsAsked`, under `OneWorker`, a hypothesis
  of the theorem that TLC evaluates for the instance of `uploads` (`MCHypotheses`).
  With two replicas it does not hold: the older of two events can be saved last.
  It also rests on `OneReplicaAssumption`: `Nothing` and `Unknown` are no blobs.

  The invariant is `AskedFor` (module `OneReplica`), on top of `TypeInv` and
  `BlobsInv`. Of each path that is promised anything it says that what is
  expected is on its way (`Coming`), or that nothing is on its way that could
  change the image (`Quiet`) and the image is what is expected (`AsExpected`). An
  upload on its way is in the one PUT of its original (`Arriving`), or that
  original is whole, nobody is changing it, and either an event of the path is
  still queued or the replica has read nothing but this upload (`Resizing`), up
  to its own PUT of the image. An event that is handled late or again is not
  told from the first: it reads whatever the original is now, which is why one
  replica suffices and why two do not. While an image that cannot be resized is
  read (`Hopeless`) the old photo stays expected.

  Calls outlive their callers: a request that was given up goes on in the
  emulator. `CallsOwned` says whose a call is, and that one whose caller has gone
  concerns a path of which nothing is promised any more. `RenameFrom` follows a
  rename between its calls: the photo is whole at its old path until the DELETE,
  what the handler has read is that photo, and from the copy's PUT on the photo is
  whole at its new path too, and announced. `EditHeard` says that an edit has a
  connection to announce it, or nothing is promised of its path.

  The proof has one lemma per action. Most actions leave most paths alone
  (`expected`, the calls on the path, its blobs and its events), so the parts of
  `AskedFor` are first shown to depend on nothing else. TLC checked `AskedFor` as
  an invariant of the instance of `uploads` before the proof.

### The faces

Assumptions: `WorkerAssumption`, and for the tables `StoredAssumption`, which says
that the stored faces a run may begin with are consistent.

* On SQLite, `StoreInv`: ids in the tables have been handed out, and no worker is
  about to save a face that is there (`IdsFresh`); the tables agree
  (`TablesAgree`). From it `TypeCorrect`, `CountsCorrect` (`CountsMatch`),
  `NothingDangles` (`FacesBelong`) and the refinement `InterfaceKept`
  (`PromisesKept`): each transaction is one of the interface's operations or
  nothing. That a count is right after a save or merge is a fact about
  cardinalities of the sets of a person's faces (`FacesOfAdded`, `FacesOfMoved`).
* On the tables a store call is many requests, so the invariants speak of what
  calls have in hand. `BaseInv`: wherever a face is written down, in the
  table, in a save or in a merge, it is with the same photo and look
  (`OneRowEach`); a face about to be saved is nowhere yet; a person to whom a
  face is being saved or moved exists or was to be merged away
  (`PersonsKnown`). From it `TableTypeCorrect` and `FacesKeepPersons`
  (`FacesHavePersons`).
* On top of it, one invariant for each property, each under that property's
  exemption. `IndexLeads` (`IndexInv`: also what a save or a merge is about to
  index leads to a face). `NoFaceLost` (`StayInv`: a face that was saved is in the table or in
  the hands of a merge between its delete and its insert). `OnePersonEach`
  (`OnceInv`: as long as nobody is merged away twice, a merge finds what it
  listed where it listed it, and two merges have different faces).
  `CountsUnlessRaced` (`CountsInv`: a count is right, or somebody will still write
  it; a count that was listed and not yet written is right unless raced).
  `NobodyLeftEmpty` (`PeopleInv`: a person without faces is about to get one or
  to be dropped).

### Only model-checked

`ThumbnailsConverge`, `ComesToRest`, `EveryFaceRecorded`: liveness under
fairness, out of the prover's reach. Every invariant and action property that a
passing run checks is a theorem, as is each refinement.

## 6. Not modelled

* Image decoding, the arithmetic of `ResizeImage` (whose integer division gives
  a height of 0 for a very flat image, `utils.go:95`), EXIF, face detection and
  similarity: pure functions, whose results are constants here. `Match` takes
  any similar face, as `FindSimilarFaces` does not sort.
* Authentication and CORS beyond the role a route asks for; telemetry.
* The answers of listings, and the images an album page picks for albums
  without a thumbnail: they change nothing. The parser of tag queries.
* Renaming to a name that is in use, which overwrites photos of equal name:
  `SafeRenames` excludes it.
* On Azure: copies that stay pending, pages of results, the lag of the tag
  index, none of which the repository describes; saving, which is one request;
  thumbnails and restores, which differ from the emulator only in the query.
* Errors of the two statements that remove old tags and metadata in
  `SaveBlob` (`store.go:153-154`), which the code drops: a tag set is one value
  here.

## 7. Plan

1. Pure functions against a reference: dimensions of `ResizeImage`, tag queries
   (`query.go`), path segments of rename.
2. Renames seen by the face models: a photo's faces are recorded again under its
   new path, beside the old ones.
