--------------------------- MODULE UploadPipeline ---------------------------
(***************************************************************************)
(* From an upload to the image the site shows, and the edits made to it    *)
(* there.  POST /api/upload (handler/upload.go) saves the original in the  *)
(* container "uploads" of the blob emulator, which announces it on a       *)
(* queue; the resize service (cmd/resize/handler.go) takes the event,      *)
(* reads the original back, and saves it, resized and with its tags, in    *)
(* the container "images".  An administrator deletes and restores photos   *)
(* (handler/softdelete.go) and renames their album or collection           *)
(* (handler/rename.go), while all this goes on.                            *)
(***************************************************************************)
EXTENDS BlobEmulator

CONSTANTS
    PathOf,     \* the path of each upload
    Quality,    \* of each upload: "good"; "broken", which upload accepts and
                \* ResizeImage does not (a damaged body, a type without decoder);
                \* "refused"
    NewPath,    \* the path a rename moves a photo to, where there is one
    Workers,    \* replicas of the resize service
    Admin,      \* the connection edits are made on
    Starts,     \* the situations to start from
    Unknown,    \* nothing is promised of a path
    MaxFaults   \* bound: failing calls, dying processes

\* uploads: those to come; stored: the uploads shown already; edits: how many
\* an administrator makes
StartType == [uploads : SUBSET Uploads, stored : [Paths -> Uploads \cup {Nothing}],
              connected : BOOLEAN, edits : Nat, faults : 0..MaxFaults]

\* the caller of a call whose caller has gone is the number of that fault
ASSUME PipelineAssumption ==
    /\ PathOf \in [Uploads -> Paths]
    /\ Quality \in [Uploads -> {"good", "broken", "refused"}]
    /\ DOMAIN NewPath \subseteq Paths
    /\ \A p \in DOMAIN NewPath : NewPath[p] \in Paths \ {p}
    /\ MaxFaults \in Nat
    /\ Starts \subseteq StartType
    /\ Callers = Uploads \cup Workers \cup {Admin} \cup (1..MaxFaults)
    /\ Uploads \cap Workers = {} /\ Admin \notin Uploads \cup Workers
    /\ (Uploads \cup Workers \cup {Admin}) \cap Nat = {}

VARIABLES
    upload,   \* upload -> "new", "saving", the answer it got, or "never"
    work,     \* replica -> what it is doing
    admin,    \* the edit under way
    edits,    \* edits still to come
    faults,   \* failures still to come
    expected  \* ghost: path -> what the site is to show there, if all that was
              \* asked for it was done undisturbed

users == <<upload, work, admin, edits, faults, expected>>
vars  == <<emulator, users>>

Idle == [pc |-> "idle", event |-> Nothing, bytes |-> Nothing, tags |-> Nothing, metadata |-> Nothing]

Jobs == [pc : {"bytes", "tags", "metadata", "resize", "saving"}, event : Containers \X Paths,
         bytes : Contents \cup {Nothing}, tags : Tags \cup {Nothing},
         metadata : Uploads \cup {Nothing}]

\* found: the tags the query returned; the rest is what CopyBlob has read
NoEdit == [pc |-> "idle", path |-> Nothing, found |-> Nothing,
           bytes |-> Nothing, tags |-> Nothing, metadata |-> Nothing]

Edits == [pc : {"mark", "bytes", "tags", "metadata", "copying", "retag", "delete", "deleting"},
          path : Paths, found : Tags \cup {Nothing}, bytes : Contents \cup {Nothing},
          tags : Tags \cup {Nothing}, metadata : Uploads \cup {Nothing}]

Images == [bytes : Uploads, tags : Tags, metadata : Uploads]

TypeOK ==
    /\ EmulatorTypeOK
    /\ upload \in [Uploads -> {"never", "new", "saving", "201", "400", "500"}]
    /\ work \in [Workers -> Jobs \cup {Idle}]
    /\ admin \in Edits \cup {NoEdit}
    /\ edits \in Nat
    /\ faults \in 0..MaxFaults
    /\ expected \in [Paths -> Images \cup {Nothing, Unknown}]

\* the image of upload u, resized, as nobody has edited it yet
ImageOf(u) == [bytes |-> u, tags |-> <<u, FALSE>>, metadata |-> u]

StartWith(start) ==
    LET has(p) == start.stored[p] # Nothing
        row(p) == [id |-> 1, tags |-> <<start.stored[p], FALSE>>, metadata |-> start.stored[p]]
    IN  /\ files = [c \in Containers |-> start.stored]
        /\ rows = [c \in Containers |-> [p \in Paths |-> IF has(p) THEN row(p) ELSE Nothing]]
        /\ ids = [c \in Containers |-> [p \in Paths |-> IF has(p) THEN 1 ELSE 0]]
        /\ dirs = Containers \X {DirOf[p] : p \in {q \in Paths : has(q)}}
        /\ connected = [c \in Containers |-> start.connected]
        /\ faceEvents = {p \in Paths : has(p)}
        /\ upload = [u \in Uploads |-> IF u \in start.uploads THEN "new" ELSE "never"]
        /\ edits = start.edits
        /\ faults = start.faults
        /\ expected = [p \in Paths |-> IF has(p) THEN ImageOf(start.stored[p]) ELSE Nothing]

Init ==
    /\ \E start \in Starts : StartWith(start)
    /\ calls = {}
    /\ queue = << >>
    /\ mixed = [c \in Containers |-> [p \in Paths |-> FALSE]]
    /\ work = [w \in Workers |-> Idle]
    /\ admin = NoEdit

-----------------------------------------------------------------------------
(* What the ghost expected records.                                        *)

\* the paths the edit under way is about
Edited == IF admin = NoEdit THEN {}
          ELSE {admin.path} \cup (IF admin.pc = "mark" THEN {} ELSE {NewPath[admin.path]})

\* something is on its way to path p
Busy(p) ==
    \/ \E q \in calls : q.path = p
    \/ \E i \in 1..Len(queue) : queue[i][2] = p
    \/ \E w \in Workers : work[w] # Idle /\ work[w].event[2] = p

Forget(ps) == expected' = [p \in Paths |-> IF p \in ps THEN Unknown ELSE expected[p]]

Fault(ps) ==
    /\ faults > 0
    /\ faults' = faults - 1
    /\ Forget(ps)

\* the paths that suffer when a call fails
Touched(q) == {q.path} \cup (IF q.caller = Admin THEN Edited ELSE {})

\* an edit that nothing disturbed: a photo has moved
Moved ==
    LET p == admin.path
        r == NewPath[p]
    IN  expected' = IF Unknown \in {expected[p], expected[r]}
                    THEN [expected EXCEPT ![p] = Unknown, ![r] = Unknown]
                    ELSE [expected EXCEPT ![p] = Nothing, ![r] = expected[p]]

-----------------------------------------------------------------------------
(* The emulator, for its callers.  The resize service is done with its     *)
(* event whatever the answer is; a rename goes on with the next photo.     *)

Answered(q, answer) ==
    /\ upload' = IF answer # "none" /\ q.caller \in Uploads
                 THEN [upload EXCEPT ![q.caller] = IF answer = "ok" THEN "201" ELSE "500"] ELSE upload
    /\ work' = IF answer # "none" /\ q.caller \in Workers
               THEN [work EXCEPT ![q.caller] = Idle] ELSE work
    /\ admin' = IF answer = "none" \/ q.caller # Admin THEN admin
                ELSE IF answer = "ok" /\ q.op = "put" THEN [admin EXCEPT !.pc = "retag"]
                ELSE NoEdit
    /\ UNCHANGED edits

Serve(q) ==
    \E answer \in {"none", "ok", "error"} :
        /\ CallStep(q, answer)
        /\ Answered(q, answer)
        /\ IF answer = "error" THEN Forget(Touched(q))
           ELSE IF answer = "ok" /\ q.op = "delete" /\ q.caller = Admin THEN Moved
           ELSE UNCHANGED expected
        /\ UNCHANGED faults

\* a full disk, a failing statement, an event that cannot be published
ServeFails(q) ==
    /\ \E answer \in {"none", "ok", "error"} : CallFails(q, answer) /\ Answered(q, answer)
    /\ Fault(Touched(q))

EmulatorRestarts ==
    /\ Restart
    /\ Fault({p \in Paths : ~connected'["images"] \/ \E q \in calls : p \in Touched(q)})
    /\ upload' = [u \in Uploads |-> IF \E q \in calls : q.caller = u THEN "500" ELSE upload[u]]
    /\ work' = [w \in Workers |-> IF \E q \in calls : q.caller = w THEN Idle ELSE work[w]]
    /\ admin' = IF \E q \in calls : q.caller = Admin THEN NoEdit ELSE admin
    /\ UNCHANGED edits

BrokerIsLost == BrokerDrops /\ Fault(Paths) /\ UNCHANGED <<upload, work, admin, edits>>

-----------------------------------------------------------------------------
(* UploadHandler.                                                          *)

\* what is promised of the path of an accepted upload from then on
AfterUpload(u) ==
    LET p == PathOf[u]
        undisturbed == /\ \A c \in Containers : connected[c]
                       /\ p \notin Edited
                       /\ \A q \in calls : q.path = p => q.caller \in Workers
    IN  IF Quality[u] = "broken" THEN (IF Busy(p) THEN Unknown ELSE expected[p])
        ELSE IF undisturbed THEN ImageOf(u) ELSE Unknown

Upload(u) ==
    /\ upload[u] = "new"
    /\ IF Quality[u] = "refused"
       THEN upload' = [upload EXCEPT ![u] = "400"] /\ UNCHANGED <<calls, mixed, expected>>
       ELSE /\ upload' = [upload EXCEPT ![u] = "saving"]
            /\ Begin(Put(u, "uploads", PathOf[u], u, <<u, FALSE>>, u))
            /\ expected' = [expected EXCEPT ![PathOf[u]] = AfterUpload(u)]
    /\ UNCHANGED <<stored, connected, announced, work, admin, edits, faults>>

\* the emulator has read the body by then and goes on alone
Abandoned(caller) ==
    {IF q.caller = caller THEN [q EXCEPT !.caller = faults] ELSE q : q \in calls}

UploadCutOff(u) ==
    /\ upload[u] = "saving"
    /\ Fault({PathOf[u]})
    /\ calls' = Abandoned(u)
    /\ upload' = [upload EXCEPT ![u] = "500"]
    /\ UNCHANGED <<stored, connected, announced, mixed, work, admin, edits>>

-----------------------------------------------------------------------------
(* The resize service.  A replica takes one event at a time and keeps it   *)
(* until it has answered; every answer acknowledges the event.             *)

Take(w) ==
    /\ work[w] = Idle /\ queue # << >>
    /\ work' = [work EXCEPT ![w].pc = "bytes", ![w].event = Head(queue)]
    /\ queue' = Tail(queue)

Original(w) == Blob(work[w].event[1], work[w].event[2])

Acknowledge(w) == work' = [work EXCEPT ![w] = Idle]

\* one of the three reads
Reads(w, part, next) ==
    /\ work[w].pc = part
    /\ IF Original(w) # Nothing /\ (part = "bytes" => Readable(work[w].event[1], work[w].event[2]))
       THEN work' = [work EXCEPT ![w] = [@ EXCEPT !.pc = next, ![part] = Original(w)[part]]]
       ELSE Acknowledge(w)
    /\ UNCHANGED <<calls, queue, mixed>>

GetBlob(w)         == Reads(w, "bytes", "tags")
GetBlobTags(w)     == Reads(w, "tags", "metadata")
GetBlobMetadata(w) == Reads(w, "metadata", "resize")

\* what ResizeImage can decode
Resizable(content) == content \in Uploads /\ Quality[content] = "good"

SaveImage(w) ==
    /\ work[w].pc = "resize"
    /\ IF Resizable(work[w].bytes)
       THEN /\ Begin(Put(w, "images", work[w].event[2],
                         work[w].bytes, work[w].tags, work[w].metadata))
            /\ work' = [work EXCEPT ![w].pc = "saving"]
       ELSE Acknowledge(w) /\ UNCHANGED <<calls, mixed>>
    /\ UNCHANGED queue

Resize(w) ==
    /\ \/ Take(w) /\ UNCHANGED <<calls, mixed>>
       \/ GetBlob(w) \/ GetBlobTags(w) \/ GetBlobMetadata(w) \/ SaveImage(w)
    /\ UNCHANGED <<stored, connected, faceEvents, upload, admin, edits, faults, expected>>

\* an error while the tags or the metadata are read, the first row read,
\* passes for their end; Nothing stands for what is missing
ReadsSome(w, part, next) ==
    work[w].pc = part /\ work' = [work EXCEPT ![w].pc = next]

\* a call of the handler fails, a transient error too: it is acknowledged
ResizeFails(w) ==
    /\ work[w].pc \in {"bytes", "tags", "metadata"}
    /\ Fault({work[w].event[2]})
    /\ \/ Acknowledge(w)
       \/ ReadsSome(w, "tags", "metadata") \/ ReadsSome(w, "metadata", "resize")
    /\ UNCHANGED <<emulator, upload, admin, edits>>

\* a replica that dies is replaced; its event goes back to its place
WorkerDies(w) ==
    /\ work[w] # Idle
    /\ Fault({work[w].event[2]})
    /\ queue' = <<work[w].event>> \o queue
    /\ calls' = Abandoned(w)
    /\ Acknowledge(w)
    /\ UNCHANGED <<stored, connected, faceEvents, mixed, upload, admin, edits>>

-----------------------------------------------------------------------------
(* Edits.  How the photos of an album are found, and the loop over them,   *)
(* is in PhotoApi; here an edit is of one photo, found with its tags.      *)

\* the edit begins; what is still on its way to its paths may undo it
EditBegins(edit, ps) ==
    /\ admin' = edit
    /\ Forget({p \in ps : (\E r \in ps : Busy(r)) \/ ~connected["images"]})

FindPhoto ==
    /\ admin = NoEdit /\ edits > 0
    /\ edits' = edits - 1
    /\ \E p \in Paths :
         /\ Blob("images", p) # Nothing /\ Blob("images", p).tags # Nothing
         /\ LET found == Blob("images", p).tags
            IN  \/ \E isDeleted \in BOOLEAN :
                     EditBegins([NoEdit EXCEPT !.pc = "mark", !.path = p,
                                               !.found = <<found[1], isDeleted>>], {p})
                \/ /\ p \in DOMAIN NewPath
                   /\ EditBegins([NoEdit EXCEPT !.pc = "bytes", !.path = p, !.found = found],
                                 {p, NewPath[p]})
    /\ UNCHANGED <<emulator, upload, work, faults>>

EditAt(pc) == admin.pc = pc /\ UNCHANGED <<upload, work, edits>>

EditGoesOn(edit) == admin' = edit /\ UNCHANGED expected

EditEnds == admin' = NoEdit

\* soft-delete and restore: the tags found, with isDeleted replaced
Mark ==
    /\ EditAt("mark")
    /\ EditEnds
    /\ \/ /\ SetTags("images", admin.path, admin.found)
          /\ expected' = [expected EXCEPT ![admin.path] =
                            IF @ \in Images THEN [@ EXCEPT !.tags = admin.found] ELSE @]
       \/ /\ Blob("images", admin.path) = Nothing
          /\ Forget(Edited)
          /\ UNCHANGED emulator

\* CopyBlob reads the blob in three calls and saves it; only the first of
\* them has to work
CopyBytes ==
    /\ EditAt("bytes")
    /\ IF Readable("images", admin.path)
       THEN EditGoesOn([admin EXCEPT !.pc = "tags", !.bytes = files["images"][admin.path]])
       ELSE EditEnds /\ Forget(Edited)
    /\ UNCHANGED emulator

CopiedTags == IF Blob("images", admin.path) = Nothing THEN Nothing
              ELSE Blob("images", admin.path).tags

CopyTags(tags) ==
    /\ EditAt("tags")
    /\ admin' = [admin EXCEPT !.pc = "metadata", !.tags = tags]
    /\ UNCHANGED emulator

CopiedMetadata == IF Blob("images", admin.path) = Nothing THEN Nothing
                  ELSE Blob("images", admin.path).metadata

CopyMetadata(metadata) ==
    /\ EditAt("metadata")
    /\ admin' = [admin EXCEPT !.pc = "copying"]
    /\ Begin(Put(Admin, "images", NewPath[admin.path], admin.bytes, admin.tags, metadata))
    /\ UNCHANGED <<stored, connected, announced>>

\* the tags found go to the copy
Retag ==
    /\ EditAt("retag")
    /\ \/ /\ SetTags("images", NewPath[admin.path], admin.found)
          /\ EditGoesOn([admin EXCEPT !.pc = "delete"])
       \/ /\ Blob("images", NewPath[admin.path]) = Nothing
          /\ EditEnds /\ Forget(Edited)
          /\ UNCHANGED emulator

\* the original is deleted; Serve ends the edit
DeleteOld ==
    /\ EditAt("delete")
    /\ EditGoesOn([admin EXCEPT !.pc = "deleting"])
    /\ Begin(Delete(Admin, "images", admin.path))
    /\ UNCHANGED <<stored, connected, announced>>

EditStep ==
    /\ \/ Mark \/ CopyBytes \/ Retag \/ DeleteOld
       \/ (CopyTags(CopiedTags) \/ CopyMetadata(CopiedMetadata)) /\ UNCHANGED expected
    /\ UNCHANGED faults

\* a call fails, after taking effect or before; that tags or metadata cannot
\* be read, or not all of them, is ignored
EditFails ==
    /\ Fault(Edited)
    /\ \/ /\ EditAt("mark") \/ EditAt("retag")
          /\ EditEnds
          /\ \/ UNCHANGED emulator
             \/ SetTags("images", IF admin.pc = "mark" THEN admin.path ELSE NewPath[admin.path],
                        admin.found)
       \/ EditAt("bytes") /\ EditEnds /\ UNCHANGED emulator
       \/ CopyTags(Nothing) \/ CopyMetadata(Nothing)

EditCutOff ==
    /\ admin # NoEdit
    /\ Fault(Edited)
    /\ EditEnds
    /\ calls' = Abandoned(Admin)
    /\ UNCHANGED <<stored, connected, announced, mixed, upload, work, edits>>

-----------------------------------------------------------------------------

\* nothing is under way
AtRest ==
    /\ calls = {} /\ queue = << >>
    /\ \A u \in Uploads : upload[u] # "saving"
    /\ \A w \in Workers : work[w] = Idle
    /\ admin = NoEdit

\* the model's uploads are used up
NoMoreUploads == AtRest /\ (\A u \in Uploads : upload[u] # "new") /\ UNCHANGED vars

Next ==
    \/ \E u \in Uploads : Upload(u) \/ UploadCutOff(u)
    \/ \E q \in calls : Serve(q) \/ ServeFails(q)
    \/ EmulatorRestarts \/ BrokerIsLost
    \/ \E w \in Workers : Resize(w) \/ ResizeFails(w) \/ WorkerDies(w)
    \/ FindPhoto \/ EditStep \/ EditFails \/ EditCutOff
    \/ NoMoreUploads

Spec == Init /\ [][Next]_vars

\* the emulator works on, and so do every replica and the API
Fairness ==
    /\ WF_vars(\E q \in calls : Serve(q))
    /\ \A w \in Workers : WF_vars(Resize(w))
    /\ WF_vars(EditStep)

FairSpec == Spec /\ Fairness

-----------------------------------------------------------------------------
(* Properties                                                              *)

\* Whatever failed for a path before, and whatever uploads to it were resized
\* in the meantime: when all is done, the last upload to a path is the image
\* there, bytes, tags and metadata, and the face service has heard of it; and
\* so it stays, with the tags an administrator gave it, at the path it was
\* renamed to, until the next upload (upload.go, blobPutHandler, Resize,
\* rename.go).  Nothing is promised of an upload that begins while another to
\* its path is being saved, of an edit that begins while something is on its
\* way to its photo, or if a failure, or a pruned directory, comes in between.
LibraryAsAsked ==
    AtRest => \A p \in Paths :
        \/ expected[p] = Unknown
        \/ /\ Blob("images", p) = expected[p]
           /\ expected[p] # Nothing => p \in faceEvents

\* After the last upload the pipeline comes to rest, failures or not: what
\* resizing saves does not set off resizing again (main.go:311-312).
ComesToRest == <>[]AtRest

\* The files and tables, with all that overlaps, fails and restarts, keep the
\* promises stated in BlobPromises (store.go:119-259): what a call leaves is
\* its own doing or, if it was not alone or failed, mixed until the next one.
PromisesKept == Promises!Spec
=============================================================================
