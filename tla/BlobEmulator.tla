---------------------------- MODULE BlobEmulator ----------------------------
(***************************************************************************)
(* The blob emulator (blobemu/main.go, store.go, publisher.go).  It keeps  *)
(* the bytes of a blob in a file, below a directory of its own for each    *)
(* album, and its tags and metadata in tables; nothing locks the two       *)
(* together.  A PUT or a DELETE is several steps, between which other      *)
(* calls take theirs: each system call on files is one, each statement or  *)
(* transaction on the tables is one (there is one connection to the        *)
(* database, store.go:55).                                                 *)
(***************************************************************************)
EXTENDS Naturals, Sequences

CONSTANTS
    Paths,      \* collection/album/file
    Dirs,       \* collection/album
    DirOf,      \* path -> directory
    Uploads,    \* originals; each stands for its bytes and its metadata
    Callers,    \* who a call can be for
    Nothing,    \* no file, no row, no tags, no event
    Partial,    \* the content of a file that is being written
    Mixed       \* what a blob is after calls that failed or met

Containers == {"uploads", "images"}

Contents == Uploads \cup {Partial}

\* a tag set: whose tags it has, and whether isDeleted is set in it
Tags == Uploads \X BOOLEAN

\* the row of a blob with its tags and metadata.  Ids are only ever compared
\* for one path, so each path counts its own.
Rows == [id : Nat, tags : Tags \cup {Nothing}, metadata : Uploads \cup {Nothing}]

\* faulty variant: a blob is announced before its rows are committed
PutOrderEarly == <<"mkdir", "open", "write", "publish", "commit">>

\* what blobPutHandler does with a request, in order: make the directory,
\* truncate and write the file, replace the rows, publish the event
PutOrder == <<"mkdir", "open", "write", "commit", "publish">>

\* what blobDeleteHandler does
DeleteOrder == <<"lookup", "rows", "unlink", "prune">>

\* a call the emulator is working on; id is the row a DELETE has looked up.
\* A PUT whose open file was unlinked has no bytes left to write.
Calls == [op : {"put", "delete"}, caller : Callers, container : Containers, path : Paths,
          bytes : Contents \cup {Nothing}, tags : Tags \cup {Nothing},
          metadata : Uploads \cup {Nothing}, id : Nat, step : 1..Len(PutOrder)]

ASSUME EmulatorAssumption ==
    /\ DirOf \in [Paths -> Dirs]
    /\ Nothing \notin Contents \cup Tags \cup Rows
    /\ Partial \notin Uploads

VARIABLES
    files,      \* container -> path -> content on disk
    rows,       \* container -> path -> row of the blob
    ids,        \* container -> path -> ids handed out
    dirs,       \* the directories that exist
    calls,      \* the calls the emulator is working on
    connected,  \* container -> is its publisher's connection up
    queue,      \* events for the resize service
    faceEvents, \* paths announced to the face service
    mixed       \* ghost: container -> path -> did the last call fail or meet another

stored    == <<files, rows, ids, dirs>>
announced == <<queue, faceEvents>>
emulator  == <<files, rows, ids, dirs, calls, connected, queue, faceEvents, mixed>>

EmulatorTypeOK ==
    /\ files \in [Containers -> [Paths -> Contents \cup {Nothing}]]
    /\ rows \in [Containers -> [Paths -> Rows \cup {Nothing}]]
    /\ ids \in [Containers -> [Paths -> Nat]]
    /\ dirs \subseteq Containers \X Dirs
    /\ calls \subseteq Calls
    /\ connected \in [Containers -> BOOLEAN]
    /\ queue \in Seq(Containers \X Paths)
    /\ faceEvents \subseteq Paths
    /\ mixed \in [Containers -> [Paths -> BOOLEAN]]

-----------------------------------------------------------------------------
(* Calls.                                                                  *)

Put(caller, container, path, bytes, tags, metadata) ==
    [op |-> "put", caller |-> caller, container |-> container, path |-> path,
     bytes |-> bytes, tags |-> tags, metadata |-> metadata, id |-> 0, step |-> 1]

Delete(caller, container, path) ==
    [op |-> "delete", caller |-> caller, container |-> container, path |-> path,
     bytes |-> Nothing, tags |-> Nothing, metadata |-> Nothing, id |-> 0, step |-> 1]

Order(q) == IF q.op = "put" THEN PutOrder ELSE DeleteOrder

At(q, step) == Order(q)[q.step] = step

\* a call that has not yet made all its changes to the blob
Unsettled(q) == q.step <= (IF q.op = "put" THEN 4 ELSE 3)

On(container, path) == {q \in calls : q.container = container /\ q.path = path}

UnsettledOn(container, path) == {q \in On(container, path) : Unsettled(q)}

Begin(q) ==
    /\ calls' = calls \cup {q}
    /\ mixed' = [mixed EXCEPT ![q.container][q.path] = UnsettledOn(q.container, q.path) # {}]

Spoiled(lost) ==
    [c \in Containers |-> [p \in Paths |->
        mixed[c][p] \/ \E q \in lost : Unsettled(q) /\ q.container = c /\ q.path = p]]

\* the call goes on to its next step; after the last it has succeeded
GoesOn(q, answer) ==
    IF q.step = Len(Order(q))
    THEN calls' = calls \ {q} /\ answer = "ok"
    ELSE calls' = (calls \ {q}) \cup {[q EXCEPT !.step = @ + 1]} /\ answer = "none"

-----------------------------------------------------------------------------
(* PUT of a blob: Store.SaveBlob, then the publishers.                     *)

File(q) == files[q.container][q.path]
Row(q)  == rows[q.container][q.path]
Dir(q)  == <<q.container, DirOf[q.path]>>

\* faulty variant: an event that names the blob without its container
EventOfPath(container, path) == path

\* the URL in a BlobCreated event
EventOf(container, path) == <<container, path>>

\* faulty variant: the images that resizing saves are announced as uploads
PublishedAll(container, path) ==
    /\ queue' = Append(queue, EventOf(container, path))
    /\ faceEvents' = IF container = "images" THEN faceEvents \cup {path} ELSE faceEvents

\* each container has a publisher of its own
Published(container, path) ==
    /\ queue' = IF container = "uploads" THEN Append(queue, EventOf(container, path)) ELSE queue
    /\ faceEvents' = IF container = "images" THEN faceEvents \cup {path} ELSE faceEvents

MakeDir(q) ==
    /\ At(q, "mkdir")
    /\ dirs' = dirs \cup {Dir(q)}
    /\ UNCHANGED <<files, rows, ids, announced>>

\* os.WriteFile: the file is truncated, then written
OpenFile(q) ==
    /\ At(q, "open") /\ Dir(q) \in dirs
    /\ files' = [files EXCEPT ![q.container][q.path] = Partial]
    /\ UNCHANGED <<rows, ids, dirs, announced>>

WriteFile(q) ==
    /\ At(q, "write")
    /\ files' = [files EXCEPT ![q.container][q.path] = IF q.bytes = Nothing THEN @ ELSE q.bytes]
    /\ UNCHANGED <<rows, ids, dirs, announced>>

\* the transaction: an existing row is kept, its tags and metadata replaced
CommitRows(q) ==
    /\ At(q, "commit")
    /\ rows' = [rows EXCEPT ![q.container][q.path] =
          [id |-> IF Row(q) = Nothing THEN ids[q.container][q.path] + 1 ELSE Row(q).id,
           tags |-> q.tags, metadata |-> q.metadata]]
    /\ ids' = [ids EXCEPT ![q.container][q.path] = IF Row(q) = Nothing THEN @ + 1 ELSE @]
    /\ UNCHANGED <<files, dirs, announced>>

Publish(q) ==
    /\ At(q, "publish")
    /\ IF connected[q.container] THEN Published(q.container, q.path) ELSE UNCHANGED announced
    /\ UNCHANGED stored

PutStep(q, answer) ==
    /\ MakeDir(q) \/ OpenFile(q) \/ WriteFile(q) \/ CommitRows(q) \/ Publish(q)
    /\ GoesOn(q, answer)
    /\ UNCHANGED mixed

\* a DELETE for a neighbour has pruned the directory just made
DirGone(q, answer) ==
    /\ At(q, "open") /\ Dir(q) \notin dirs
    /\ calls' = calls \ {q} /\ answer = "error"
    /\ mixed' = Spoiled({q})
    /\ UNCHANGED <<stored, announced>>

-----------------------------------------------------------------------------
(* DELETE of a blob: Store.DeleteBlob and removeFile.                      *)

\* the id is looked up before the transaction begins
LookUp(q, answer) ==
    /\ At(q, "lookup")
    /\ IF Row(q) = Nothing
       THEN calls' = calls \ {q} /\ answer = "ok"
       ELSE calls' = (calls \ {q}) \cup {[q EXCEPT !.step = @ + 1, !.id = Row(q).id]} /\ answer = "none"
    /\ UNCHANGED <<stored, announced, mixed>>

DropRows(q, answer) ==
    /\ At(q, "rows")
    /\ rows' = IF Row(q) # Nothing /\ Row(q).id = q.id
               THEN [rows EXCEPT ![q.container][q.path] = Nothing] ELSE rows
    /\ GoesOn(q, answer)
    /\ UNCHANGED <<files, ids, dirs, announced, mixed>>

\* a PUT that has opened the file goes on writing, to nowhere
Unlink(q, answer) ==
    /\ At(q, "unlink")
    /\ files' = [files EXCEPT ![q.container][q.path] = Nothing]
    /\ calls' = {IF r = q THEN [q EXCEPT !.step = @ + 1]
                 ELSE IF r \in On(q.container, q.path) /\ At(r, "write")
                      THEN [r EXCEPT !.bytes = Nothing] ELSE r : r \in calls}
    /\ answer = "none"
    /\ UNCHANGED <<rows, ids, dirs, announced, mixed>>

EmptyDir(d) == \A p \in Paths : DirOf[p] = d[2] => files[d[1]][p] = Nothing

\* faulty variant: the directory goes with what is in it
PruneAll(q, answer) ==
    /\ At(q, "prune")
    /\ dirs' = dirs \ {Dir(q)}
    /\ files' = [files EXCEPT ![q.container] =
                   [p \in Paths |-> IF DirOf[p] = DirOf[q.path] THEN Nothing ELSE @[p]]]
    /\ GoesOn(q, answer)
    /\ UNCHANGED <<rows, ids, announced, mixed>>

\* os.Remove takes an empty directory only
Prune(q, answer) ==
    /\ At(q, "prune")
    /\ dirs' = IF EmptyDir(Dir(q)) THEN dirs \ {Dir(q)} ELSE dirs
    /\ GoesOn(q, answer)
    /\ UNCHANGED <<files, rows, ids, announced, mixed>>

-----------------------------------------------------------------------------

\* one step of a call; answer is what its caller gets, "none" yet as a rule
CallStep(q, answer) ==
    /\ \/ PutStep(q, answer) \/ DirGone(q, answer)
       \/ LookUp(q, answer) \/ DropRows(q, answer) \/ Unlink(q, answer) \/ Prune(q, answer)
    /\ UNCHANGED connected

\* A step fails.  A failed lookup is taken for a blob that is not there; what
\* fails to be announced, unlinked or pruned is only logged; any other error
\* ends the call.
CallFails(q, answer) ==
    /\ \/ /\ At(q, "lookup")
          /\ calls' = calls \ {q} /\ answer = "ok" /\ mixed' = Spoiled({q})
       \/ /\ At(q, "publish") \/ At(q, "unlink") \/ At(q, "prune")
          /\ GoesOn(q, answer) /\ UNCHANGED mixed
       \/ /\ At(q, "mkdir") \/ At(q, "open") \/ At(q, "write") \/ At(q, "commit") \/ At(q, "rows")
          /\ calls' = calls \ {q} /\ answer = "error" /\ mixed' = Spoiled({q})
    /\ UNCHANGED <<stored, announced, connected>>

\* PUT ?comp=tags is one transaction on a blob that exists
SetTags(container, path, tags) ==
    /\ rows[container][path] # Nothing
    /\ rows' = [rows EXCEPT ![container][path].tags = tags]
    /\ UNCHANGED <<files, ids, dirs, calls, connected, announced, mixed>>

\* The emulator stops in the middle of all it is doing and starts again.  It
\* does not start without the first publisher; without the second it does.
Restart ==
    /\ \/ connected' = [c \in Containers |-> TRUE]
       \/ connected' = [c \in Containers |-> c = "uploads"]
    /\ calls' = {}
    /\ mixed' = Spoiled(calls)
    /\ UNCHANGED <<stored, announced>>

\* the publishers are connected once, at the start of the emulator
BrokerDrops ==
    /\ \E c \in Containers : connected[c]
    /\ connected' = [c \in Containers |-> FALSE]
    /\ UNCHANGED <<stored, calls, announced, mixed>>

-----------------------------------------------------------------------------
(* The blobs as BlobPromises sees them.                                    *)

\* what GET, GET ?comp=tags and GET ?comp=metadata return together
Blob(container, path) ==
    LET row == rows[container][path]
    IN  IF row = Nothing THEN Nothing
        ELSE [bytes |-> files[container][path], tags |-> row.tags, metadata |-> row.metadata]

\* GET needs the row and the file
Readable(container, path) ==
    rows[container][path] # Nothing /\ files[container][path] # Nothing

\* what a call leaves if it is alone and does not fail
Outcome(q) ==
    IF q.op = "delete" THEN Nothing
    ELSE [bytes |-> q.bytes, tags |-> q.tags, metadata |-> q.metadata]

Seen(container, path) ==
    IF mixed[container][path] THEN Mixed
    ELSE IF UnsettledOn(container, path) # {}
         THEN [next |-> Outcome(CHOOSE q \in UnsettledOn(container, path) : TRUE)]
         ELSE Blob(container, path)

Promises == INSTANCE BlobPromises WITH
    Places   <- Containers \X Paths,
    Bytes    <- Contents,
    TagSets  <- Tags \cup {Nothing},
    Metadata <- Uploads \cup {Nothing},
    blob     <- [b \in Containers \X Paths |-> Seen(b[1], b[2])]

\* what a blob may be at rest is told from one that is about to change
ASSUME PromisesAssumption == {Nothing, Mixed} \cap Promises!Changing = {}
=============================================================================
