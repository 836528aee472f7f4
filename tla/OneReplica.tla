----------------------------- MODULE OneReplica -----------------------------
(***************************************************************************)
(* Why one replica of the resize service shows what was asked for: the     *)
(* invariant.  It follows an upload from its call through the queue and    *)
(* the replica to the image, and an edit from one of its calls to the      *)
(* next.  With two replicas the older of two events can be saved last.     *)
(***************************************************************************)
EXTENDS UploadPipeline

\* a blob is told from none, and what is expected from what is not promised
ASSUME OneReplicaAssumption == Nothing \notin Promises!Wholes /\ Unknown \notin Images

OneWorker == \A v, w \in Workers : v = w

Known(p) == expected[p] # Unknown

Queued(p) == \E i \in 1..Len(queue) : queue[i][2] = p

WorksOn(w, p) == work[w] # Idle /\ work[w].event[2] = p

\* the blob is b, whole, and nobody is changing it
Holds(c, p, b) == On(c, p) = {} /\ ~mixed[c][p] /\ Blob(c, p) = b

\* call q, alone on its blob, is about to make it b or has done so
Carries(q, b) ==
    /\ On(q.container, q.path) = {q} /\ ~mixed[q.container][q.path]
    /\ Outcome(q) = b
    /\ Unsettled(q) \/ Blob(q.container, q.path) = b

\* The caller of a call waits for it.  What is left of one whose caller has
\* gone concerns paths of which nothing is promised any more.
Owned(q) ==
    /\ q.caller \in Uploads => q.op = "put" /\ q.container = "uploads" /\ q.path = PathOf[q.caller]
    /\ q.caller \in Workers =>
         /\ q.op = "put" /\ q.container = "images" /\ WorksOn(q.caller, q.path)
         /\ work[q.caller].pc = "saving"
    /\ q.caller = Admin =>
         q.container = "images" /\ q.path = IF q.op = "put" THEN NewPath[admin.path] ELSE admin.path
    /\ q.caller \in Nat => ~Known(q.path)

CallsOwned ==
    /\ \A q \in calls : Owned(q)
    /\ \A q, r \in calls : q.caller \in Workers /\ r.caller = q.caller => q = r

\* only originals are announced to the resize service
EventsOfUploads ==
    /\ \A i \in 1..Len(queue) : queue[i][1] = "uploads"
    /\ \A w \in Workers : work[w] # Idle => work[w].event[1] = "uploads"

-----------------------------------------------------------------------------
(* A path, on the way to what is expected of it.                           *)

Arriving(p, u) == \E q \in On("uploads", p) : q.caller = u /\ Carries(q, ImageOf(u))

\* what the replica has read is of upload u
HasRead(w, u) ==
    /\ work[w].pc # "bytes" => work[w].bytes = u
    /\ work[w].pc \in {"metadata", "resize", "saving"} => work[w].tags = <<u, FALSE>>
    /\ work[w].pc \in {"resize", "saving"} => work[w].metadata = u

Resizing(w, p, u) ==
    /\ WorksOn(w, p) /\ HasRead(w, u)
    /\ work[w].pc = "saving" => \E q \in On("images", p) : q.caller = w /\ Carries(q, ImageOf(u))

\* an upload that is expected is on its way
ComingFrom(p, u) ==
    /\ Quality[u] = "good" /\ expected[p] = ImageOf(u)
    /\ p \notin Edited /\ \A c \in Containers : connected[c]
    /\ \/ Arriving(p, u)
       \/ Holds("uploads", p, ImageOf(u)) /\ (Queued(p) \/ \E w \in Workers : Resizing(w, p, u))

Coming(p) == \E u \in Uploads : ComingFrom(p, u)

\* the replica reads an original that it cannot resize
Hopeless(p, u) ==
    /\ Holds("uploads", p, ImageOf(u))
    /\ \A w \in Workers : WorksOn(w, p) =>
         work[w].pc # "saving" /\ (work[w].pc # "bytes" => work[w].bytes = u)

Unannounced(p) == ~Queued(p) /\ \A w \in Workers : ~WorksOn(w, p)

\* nothing is on its way that will change the image
Quiet(p) ==
    \/ Unannounced(p) /\ On("uploads", p) = {}
    \/ \E u \in Uploads :
         /\ Quality[u] = "broken"
         /\ (Unannounced(p) /\ Arriving(p, u)) \/ Hopeless(p, u)

\* the image is what is expected
AsExpected(p) ==
    \E image \in Images \cup {Nothing} :
        /\ expected[p] = image /\ Holds("images", p, image)
        /\ image # Nothing => p \in faceEvents

Renaming == admin.pc \notin {"idle", "mark"}

Moving == IF Renaming THEN Edited ELSE {}

PathWell(p) ==
    Known(p) => \/ Coming(p)
                \/ Quiet(p) /\ (p \in Moving \/ AsExpected(p))

-----------------------------------------------------------------------------
(* A rename, between its calls.                                            *)

\* the photo at its old path, in the handler's hands and at its new path
PhotoAt(p, photo) ==
    /\ admin.pc \in {"bytes", "tags", "metadata", "copying", "retag", "delete"} =>
         Holds("images", p, photo)
    /\ admin.pc \in {"tags", "metadata"} => admin.bytes = photo.bytes
    /\ admin.pc = "metadata" => admin.tags = photo.tags
    /\ admin.pc = "deleting" => \E q \in On("images", p) : q.caller = Admin /\ Carries(q, Nothing)

CopyAt(r, photo) ==
    /\ admin.pc = "copying" => \E q \in On("images", r) : q.caller = Admin /\ Carries(q, photo)
    /\ admin.pc \in {"retag", "delete", "deleting"} => Holds("images", r, photo) /\ r \in faceEvents

RenameFrom(p) ==
    Renaming /\ admin.path = p /\ Known(p) /\ Known(NewPath[p]) =>
        \E photo \in Images :
            /\ expected[p] = photo /\ admin.found = photo.tags
            /\ PhotoAt(p, photo) /\ CopyAt(NewPath[p], photo)

EditHeard == \A p \in Edited : Known(p) => connected["images"]

\* beside the types and BlobsInv
AskedFor ==
    /\ CallsOwned /\ EventsOfUploads
    /\ \A p \in Paths : PathWell(p)
    /\ \A p \in DOMAIN NewPath : RenameFrom(p)
    /\ EditHeard
=============================================================================
