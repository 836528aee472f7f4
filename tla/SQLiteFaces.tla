----------------------------- MODULE SQLiteFaces -----------------------------
(***************************************************************************)
(* The face store on SQLite (facestore/sqlite.go) under its callers: each  *)
(* call is one statement or one transaction, so one step here, and one     *)
(* that fails is rolled back.                                              *)
(***************************************************************************)
EXTENDS FaceWorkers

VARIABLES persons,  \* table persons: id -> name, face_count, thumbnail_face_id
          faces     \* table faces: id -> person_id, photo, fingerprint and hash

vars == <<queue, worker, cron, nextPerson, nextFace, calls, faults, persons, faces>>

Persons == [name : Names \cup {NoName}, count : Nat, thumb : Nat]
Faces   == [person : Nat, photo : PhotoRefs, look : Looks]

TypeOK ==
    /\ WorkerTypeOK
    /\ DOMAIN persons \subseteq Nat /\ DOMAIN faces \subseteq Nat
    /\ persons \in [DOMAIN persons -> Persons]
    /\ faces \in [DOMAIN faces -> Faces]

FacesOf(rows, p) == {f \in DOMAIN rows : rows[f].person = p}

Processed(ref) == \E f \in DOMAIN faces : faces[f].photo = ref

\* the persons of the faces FindSimilarFaces returns
Owners(look) == {faces[f].person : f \in {g \in DOMAIN faces : <<look, faces[g].look>> \in Similar}}

-----------------------------------------------------------------------------

\* faulty variant: a new person's name is null, not empty
PersonUpsertedNull(p, f) ==
    [q \in DOMAIN persons \cup {p} |->
        IF q \in DOMAIN persons THEN persons[q] ELSE [name |-> None, count |-> 0, thumb |-> f]]

\* INSERT ... ON CONFLICT DO NOTHING
PersonUpserted(p, f) ==
    [q \in DOMAIN persons \cup {p} |->
        IF q \in DOMAIN persons THEN persons[q]
                                ELSE [name |-> NoName, count |-> 0, thumb |-> f]]

\* faulty variant: the face count is not bumped
SaveFaceUncounted(f, face) ==
    /\ persons' = PersonUpserted(face.person, f)
    /\ faces' = [g \in DOMAIN faces \cup {f} |-> IF g = f THEN face ELSE faces[g]]

SaveFace(f, face) ==
    /\ persons' = [PersonUpserted(face.person, f) EXCEPT ![face.person].count = @ + 1]
    /\ faces' = [g \in DOMAIN faces \cup {f} |-> IF g = f THEN face ELSE faces[g]]

SetPersonName(p, name) ==
    /\ p \in DOMAIN persons
    /\ persons' = [persons EXCEPT ![p].name = name]
    /\ UNCHANGED faces

\* UPDATE faces SET person_id = target WHERE person_id = source
Moved(source, target) ==
    [f \in DOMAIN faces |->
        IF faces[f].person = source THEN [faces[f] EXCEPT !.person = target] ELSE faces[f]]

Recounted(rows, target) ==
    [p \in DOMAIN persons |->
        IF p = target THEN [persons[p] EXCEPT !.count = Cardinality(FacesOf(rows, p))]
                      ELSE persons[p]]

\* faulty variants: the target is not recounted, the source is kept
MergePeopleUncounted(source, target) ==
    /\ target \in DOMAIN persons
    /\ faces' = Moved(source, target)
    /\ persons' = [p \in DOMAIN persons \ {source} |-> persons[p]]
MergePeopleKeepsSource(source, target) ==
    /\ target \in DOMAIN persons
    /\ faces' = Moved(source, target)
    /\ persons' = [Recounted(Moved(source, target), target) EXCEPT ![source].count = 0]

\* the foreign key rejects a target that does not exist, unless there is
\* nothing to move
MergePeople(source, target) ==
    /\ target \in DOMAIN persons \/ FacesOf(faces, source) = {}
    /\ faces' = Moved(source, target)
    /\ persons' = [p \in DOMAIN persons \ {source} |->
                     Recounted(Moved(source, target), target)[p]]

-----------------------------------------------------------------------------
(* The callers.                                                            *)

Save(w) ==
    /\ worker[w].pc = "save"
    /\ \/ /\ CallWorks
          /\ SaveFace(worker[w].face, [person |-> worker[w].person,
                                       photo  |-> worker[w].photo, look |-> Look(w)])
       \/ CallFails /\ UNCHANGED <<persons, faces>>
    /\ SaveEnds(w)
    /\ UNCHANGED <<queue, cron, nextPerson, nextFace, calls>>

Reading(w) ==
    /\ \/ Take(w)
       \/ worker[w].pc = "check" /\ Check(w, Processed(worker[w].photo))
       \/ Detect(w)
       \/ worker[w].pc = "match" /\ Match(w, Owners(Look(w)))
    /\ UNCHANGED <<persons, faces>>

Step(w) == Reading(w) \/ Save(w)

CronLoop ==
    /\ CronCheck({ref \in PhotoRefs : Processed(ref)}) \/ CronSpawn \/ CronEnd
    /\ UNCHANGED <<persons, faces>>

\* SetPersonNameHandler and MergePeopleHandler: a call that fails changes
\* nothing
Administer ==
    /\ AdminCalls
    /\ \/ /\ CallWorks
          /\ \/ \E p \in Seen, name \in Names : SetPersonName(p, name)
             \/ \E source, target \in Seen : source # target /\ MergePeople(source, target)
       \/ CallFails /\ UNCHANGED <<persons, faces>>

Disrupt ==
    /\ (\E w \in Workers : Die(w)) \/ CronDies
    /\ UNCHANGED <<persons, faces>>

Finished == NothingWaits /\ UNCHANGED vars

Init ==
    /\ \E start \in Starts : WorkerInit(start)
    /\ persons = << >>
    /\ faces = << >>

Next ==
    \/ \E w \in Workers : Step(w)
    \/ CronStart /\ UNCHANGED <<persons, faces>>
    \/ CronLoop
    \/ Administer
    \/ Disrupt
    \/ Finished

Spec == Init /\ [][Next]_vars

\* replicas keep taking events, a job that was started runs to its end
Fairness == (\A w \in Workers : WF_vars(Step(w))) /\ WF_vars(CronLoop)

FairSpec == Spec /\ Fairness

-----------------------------------------------------------------------------

\* A person's face_count is the number of faces that belong to it, whoever
\* saves and merges meanwhile: the increment of SaveFace and the recount of
\* MergePeople agree (sqlite.go:119-123, 220-223).
CountsMatch == \A p \in DOMAIN persons : persons[p].count = Cardinality(FacesOf(faces, p))

\* Every face belongs to a person that exists, and every person's thumbnail
\* is one of its own faces: a merge that deletes a person, and a face saved
\* for a person merged away since it was matched, leave neither dangling
\* (sqlite.go:96-104, 214-232).
FacesBelong ==
    /\ \A f \in DOMAIN faces : faces[f].person \in DOMAIN persons
    /\ \A p \in DOMAIN persons : persons[p].thumb \in FacesOf(faces, p)

\* The transactions do what facestore.go:11-35 promises of the interface's
\* operations, step by step.
Promised == INSTANCE FaceStore WITH
    persons <- [p \in DOMAIN persons |-> [name |-> persons[p].name, count |-> persons[p].count]]

PromisesKept == Promised!Spec

FacesIn(ref) == {f \in DOMAIN faces : faces[f].photo = ref}

\* However often its event is delivered, a photo's faces are recorded once
\* (main.go:160-168), facecron/main.go:1 "detects faces for any that haven't
\* been processed yet".
RecordedOnce == \A ref \in PhotoRefs : Cardinality(FacesIn(ref)) <= Len(Detected[ref])

Recorded(ref) == Cardinality(FacesIn(ref)) >= Len(Detected[ref])

\* an event that fails whenever it is delivered waits, or is being handled
StuckEvent ==
    \E event \in PhotoRefs :
        /\ Undecoded[event] = None
        /\ queue[event] > 0 \/ \E w \in Workers : worker[w].event = event

\* As long as nothing fails, whoever is merged meanwhile, every face is in the
\* end recorded of each photo the backfill job has listed (facecron/main.go:
\* 108-140), whatever its name, and of each photo an event is taken for
\* (face/main.go:118-239), unless an event that never succeeds keeps the
\* replicas busy: the path in its URL is not decoded, so that the download
\* fails and the event is delivered again, for ever.
EveryFaceRecorded ==
    [](faults = MaxFaults) =>
        \A ref \in PhotoRefs :
            /\ ref \in cron.todo ~> Recorded(ref)
            /\ Undecoded[ref] # None =>
                 queue[ref] > 0 ~> (Recorded(Undecoded[ref]) \/ StuckEvent)
=============================================================================
