----------------------------- MODULE TableFaces -----------------------------
(***************************************************************************)
(* The face store on Azure Table Storage (facestore/tablestore.go) under   *)
(* its callers.  A request to one entity of one table is a step, so that   *)
(* SaveFace is five steps and MergePeople three for each face and four     *)
(* more, without a transaction or an etag.  A listing is one step,         *)
(* whatever pages it takes.  A request may fail before or after taking     *)
(* effect.                                                                 *)
(*                                                                         *)
(* The backfill job does not run on this store (facecron/main.go:70-72),   *)
(* so CronSlots is to be empty.                                            *)
(***************************************************************************)
EXTENDS FaceWorkers

CONSTANTS Mergers,  \* connections on which administrators merge people
          Stored    \* the faces stored at each start, as in table faces

ASSUME StoredAssumption ==
    /\ DOMAIN Stored = Starts
    /\ \A s \in Starts :
         /\ Stored[s] \in [DOMAIN Stored[s] -> [photo : PhotoRefs, look : Looks]]
         /\ DOMAIN Stored[s] \subseteq (0..(s.person - 1)) \X (0..(s.face - 1))
         /\ \A k, l \in DOMAIN Stored[s] : k[2] = l[2] => k = l
    /\ None \notin [face : Nat, row : [photo : PhotoRefs, look : Looks]]

VARIABLES persons,     \* table persons: id -> name, face count, thumbnail
          faces,       \* table faces: <<person id, face id>> -> photo and look
          photofaces,  \* the reverse index: <<photo, face id>> -> person id
          merger,      \* where each call of MergePeople is
          merged,      \* ghost: person -> how often it was to be merged away
          raced        \* ghost: persons whose faces changed between the two
                       \* requests of a recount

tableVars == <<persons, faces, photofaces>>
vars == <<queue, worker, cron, nextPerson, nextFace, calls, faults,
          persons, faces, photofaces, merger, merged, raced>>

Persons == [name : Names \cup {NoName}, count : Nat, thumb : Nat]
FaceRow == [photo : PhotoRefs, look : Looks]

\* a face as a listing returns it
Listed == [face : Nat, row : FaceRow]

\* todo: faces listed and not moved; moving: the one being moved
MergeState ==
    [pc     : {"idle", "list", "delete", "insert", "index", "drop", "count", "patch"},
     source : Nat,
     target : Nat,
     todo   : SUBSET Listed,
     moving : Listed \cup {None},
     count  : Nat]

NoMerge == [pc |-> "idle", source |-> 0, target |-> 0, todo |-> {}, moving |-> None, count |-> 0]

TypeOK ==
    /\ WorkerTypeOK
    /\ DOMAIN persons \subseteq Nat
    /\ DOMAIN faces \subseteq Nat \X Nat
    /\ DOMAIN photofaces \subseteq PhotoRefs \X Nat
    /\ persons \in [DOMAIN persons -> Persons]
    /\ faces \in [DOMAIN faces -> FaceRow]
    /\ photofaces \in [DOMAIN photofaces -> Nat]
    /\ merger \in [Mergers -> MergeState]
    /\ DOMAIN merged \subseteq Nat
    /\ merged \in [DOMAIN merged -> Nat]
    /\ raced \subseteq Nat

With(table, k, row) == [l \in DOMAIN table \cup {k} |-> IF l = k THEN row ELSE table[l]]
Without(table, k)   == [l \in DOMAIN table \ {k} |-> table[l]]

FacesOf(p) == {k[2] : k \in {l \in DOMAIN faces : l[1] = p}}

Processed(ref) == \E k \in DOMAIN photofaces : k[1] = ref

\* the persons of the faces FindSimilarFaces returns
Owners(look) == {k[1] : k \in {l \in DOMAIN faces : <<look, faces[l].look>> \in Similar}}

\* a write: it takes effect if it works, and may if it fails
Writes(ok, write, tables) ==
    \/ ok  /\ CallWorks /\ write
    \/ ~ok /\ CallFails /\ (write \/ UNCHANGED tables)

-----------------------------------------------------------------------------
(* SaveFace.                                                               *)

Saving(w, pc) == worker[w].pc = pc /\ UNCHANGED <<queue, cron, nextPerson, nextFace, calls, merger>>

\* faulty variant: a new person's name is null, not empty
PutPersonNull(w) ==
    persons' = With(persons, worker[w].person,
                    [name |-> None, count |-> 0, thumb |-> worker[w].face])

\* the merge carries all three properties, the empty ones too
PutPerson(w) ==
    persons' = With(persons, worker[w].person,
                    [name |-> NoName, count |-> 0, thumb |-> worker[w].face])

\* faulty variants: an error does not end the call
SavePersonUnchecked(w) ==
    /\ Saving(w, "save")
    /\ \E ok \in BOOLEAN : Writes(ok, PutPerson(w), persons)
    /\ GoTo(w, "face")
    /\ UNCHANGED <<faces, photofaces>>

SavePerson(w) ==
    /\ Saving(w, "save")
    /\ \E ok \in BOOLEAN :
         /\ Writes(ok, PutPerson(w), persons)
         /\ IF ok THEN GoTo(w, "face") ELSE SaveEnds(w)
    /\ UNCHANGED <<faces, photofaces>>

PutFace(w) ==
    faces' = With(faces, <<worker[w].person, worker[w].face>>,
                  [photo |-> worker[w].photo, look |-> Look(w)])

SaveRowUnchecked(w) ==
    /\ Saving(w, "face")
    /\ \E ok \in BOOLEAN : Writes(ok, PutFace(w), faces)
    /\ GoTo(w, "index")
    /\ UNCHANGED <<persons, photofaces>>

SaveRow(w) ==
    /\ Saving(w, "face")
    /\ \E ok \in BOOLEAN :
         /\ Writes(ok, PutFace(w), faces)
         /\ IF ok THEN GoTo(w, "index") ELSE SaveEnds(w)
    /\ UNCHANGED <<persons, photofaces>>

PutIndex(w) ==
    photofaces' = With(photofaces, <<worker[w].photo, worker[w].face>>, worker[w].person)

SaveIndex(w) ==
    /\ Saving(w, "index")
    /\ \E ok \in BOOLEAN :
         /\ Writes(ok, PutIndex(w), photofaces)
         /\ IF ok THEN GoTo(w, "count") ELSE SaveEnds(w)
    /\ UNCHANGED <<persons, faces>>

\* recalcFaceCount, first part: the listing
ListForCount(w) ==
    /\ Saving(w, "count")
    /\ \/ /\ CallWorks
          /\ Become(w, [worker[w] EXCEPT !.pc = "patch",
                                         !.count = Cardinality(FacesOf(worker[w].person))])
       \/ CallFails /\ SaveEnds(w)
    /\ UNCHANGED tableVars

\* recalcFaceCount, second part: an entity that is gone is an error
PatchCount(p, n) ==
    persons' = IF p \in DOMAIN persons THEN [persons EXCEPT ![p].count = n] ELSE persons

SaveCount(w) ==
    /\ Saving(w, "patch")
    /\ \E ok \in BOOLEAN : Writes(ok, PatchCount(worker[w].person, worker[w].count), persons)
    /\ SaveEnds(w)
    /\ UNCHANGED <<faces, photofaces>>

SaveFace(w) ==
    \/ SavePerson(w)
    \/ SaveRow(w)
    \/ SaveIndex(w)
    \/ ListForCount(w)
    \/ SaveCount(w)

-----------------------------------------------------------------------------
(* MergePeople.  Only the first listing and the last recount report an     *)
(* error.                                                                  *)

Merging(m, pc) ==
    merger[m].pc = pc /\ UNCHANGED <<queue, worker, cron, nextPerson, nextFace, calls>>

MergeGoes(m, s) == merger' = [merger EXCEPT ![m] = s]

\* the persons some page has shown
Known == DOMAIN persons \cup DOMAIN merged

\* MergePeopleHandler: source and target must differ
MergeStart(m) ==
    /\ merger[m].pc = "idle"
    /\ AdminCalls
    /\ \E s, t \in Known :
         /\ s # t
         /\ MergeGoes(m, [NoMerge EXCEPT !.pc = "list", !.source = s, !.target = t])
    /\ UNCHANGED <<faults, tableVars>>

MergeMoves(m, pc) == MergeGoes(m, [merger[m] EXCEPT !.pc = pc])

\* the next face of the loop, or the end of it
MergeNext(m, todo) ==
    IF todo = {}
    THEN MergeGoes(m, [merger[m] EXCEPT !.pc = "drop", !.todo = {}, !.moving = None])
    ELSE \E l \in todo :
           MergeGoes(m, [merger[m] EXCEPT !.pc = "delete", !.todo = todo \ {l}, !.moving = l])

\* GetFacesByPerson
MergeList(m) ==
    /\ Merging(m, "list")
    /\ \/ /\ CallWorks
          /\ MergeNext(m, {[face |-> f, row |-> faces[<<merger[m].source, f>>]] :
                             f \in FacesOf(merger[m].source)})
       \/ CallFails /\ MergeGoes(m, NoMerge)
    /\ UNCHANGED tableVars

\* faulty variant: the row is deleted where it is about to be inserted
MergeDeleteMoved(m) ==
    /\ Merging(m, "delete")
    /\ \E ok \in BOOLEAN :
         Writes(ok, faces' = Without(faces, <<merger[m].target, merger[m].moving.face>>), faces)
    /\ MergeMoves(m, "insert")
    /\ UNCHANGED <<persons, photofaces>>

\* deleting a row that is gone is an error like any other: ignored
MergeDelete(m) ==
    /\ Merging(m, "delete")
    /\ \E ok \in BOOLEAN :
         Writes(ok, faces' = Without(faces, <<merger[m].source, merger[m].moving.face>>), faces)
    /\ MergeMoves(m, "insert")
    /\ UNCHANGED <<persons, photofaces>>

\* faulty variant: nothing is inserted under a target that is gone
MergeInsertChecked(m) ==
    /\ Merging(m, "insert")
    /\ \E ok \in BOOLEAN :
         Writes(ok, faces' = IF merger[m].target \in DOMAIN persons
                             THEN With(faces, <<merger[m].target, merger[m].moving.face>>,
                                       merger[m].moving.row)
                             ELSE faces, faces)
    /\ MergeMoves(m, "index")
    /\ UNCHANGED <<persons, photofaces>>

\* the row is inserted as it was listed
MergeInsert(m) ==
    /\ Merging(m, "insert")
    /\ \E ok \in BOOLEAN :
         Writes(ok, faces' = With(faces, <<merger[m].target, merger[m].moving.face>>,
                                  merger[m].moving.row), faces)
    /\ MergeMoves(m, "index")
    /\ UNCHANGED <<persons, photofaces>>

\* an index entry that is not there is not created
Reindexed(k, p) ==
    photofaces' = IF k \in DOMAIN photofaces THEN [photofaces EXCEPT ![k] = p] ELSE photofaces

MergeIndex(m) ==
    /\ Merging(m, "index")
    /\ LET l == merger[m].moving
       IN  \E ok \in BOOLEAN :
             Writes(ok, Reindexed(<<l.row.photo, l.face>>, merger[m].target), photofaces)
    /\ MergeNext(m, merger[m].todo)
    /\ UNCHANGED <<persons, faces>>

\* faulty variant: the person merged into is deleted
MergeDropTarget(m) ==
    /\ Merging(m, "drop")
    /\ \E ok \in BOOLEAN : Writes(ok, persons' = Without(persons, merger[m].target), persons)
    /\ MergeMoves(m, "count")
    /\ UNCHANGED <<faces, photofaces>>

MergeDrop(m) ==
    /\ Merging(m, "drop")
    /\ \E ok \in BOOLEAN : Writes(ok, persons' = Without(persons, merger[m].source), persons)
    /\ MergeMoves(m, "count")
    /\ UNCHANGED <<faces, photofaces>>

\* faulty variant: the person merged away is counted
MergeCountSource(m) ==
    /\ Merging(m, "count")
    /\ \/ /\ CallWorks
          /\ MergeGoes(m, [merger[m] EXCEPT !.pc = "patch",
                             !.count = Cardinality(FacesOf(merger[m].source))])
       \/ CallFails /\ MergeGoes(m, NoMerge)
    /\ UNCHANGED tableVars

MergeCount(m) ==
    /\ Merging(m, "count")
    /\ \/ /\ CallWorks
          /\ MergeGoes(m, [merger[m] EXCEPT !.pc = "patch",
                             !.count = Cardinality(FacesOf(merger[m].target))])
       \/ CallFails /\ MergeGoes(m, NoMerge)
    /\ UNCHANGED tableVars

MergePatch(m) ==
    /\ Merging(m, "patch")
    /\ \E ok \in BOOLEAN : Writes(ok, PatchCount(merger[m].target, merger[m].count), persons)
    /\ MergeGoes(m, NoMerge)
    /\ UNCHANGED <<faces, photofaces>>

MergePeople(m) ==
    \/ MergeList(m)
    \/ MergeDelete(m)
    \/ MergeInsert(m)
    \/ MergeIndex(m)
    \/ MergeDrop(m)
    \/ MergeCount(m)
    \/ MergePatch(m)

\* SetPersonName is one request; a person that is gone is an error
SetPersonName ==
    /\ AdminCalls
    /\ \E p \in Seen \cap DOMAIN persons, name \in Names, ok \in BOOLEAN :
         Writes(ok, persons' = [persons EXCEPT ![p].name = name], persons)
    /\ UNCHANGED <<faces, photofaces, merger>>

-----------------------------------------------------------------------------
(* The callers.                                                            *)

Reading(w) ==
    /\ \/ Take(w)
       \/ worker[w].pc = "check" /\ Check(w, Processed(worker[w].photo))
       \/ Detect(w)
       \/ worker[w].pc = "match" /\ Match(w, Owners(Look(w)))
    /\ UNCHANGED <<tableVars, merger>>

Step(w) == Reading(w) \/ SaveFace(w)

\* a replica dies, or the process a merge runs in
Disrupt ==
    \/ (\E w \in Workers : Die(w)) /\ UNCHANGED <<tableVars, merger>>
    \/ \E m \in Mergers :
         /\ merger[m].pc # "idle"
         /\ CallFails
         /\ MergeGoes(m, NoMerge)
         /\ UNCHANGED <<queue, worker, cron, nextPerson, nextFace, calls, tableVars>>

AllQuiet == Quiet /\ \A m \in Mergers : merger[m].pc = "idle"

Finished == NothingWaits /\ AllQuiet /\ UNCHANGED vars

\* the tables with those faces in them, each person counted
Tables(stored) ==
    /\ faces = stored
    /\ persons = [p \in {k[1] : k \in DOMAIN stored} |->
                    [name |-> NoName, count |-> Cardinality(FacesOf(p)),
                     thumb |-> CHOOSE f \in FacesOf(p) : TRUE]]
    /\ photofaces = [e \in {<<stored[k].photo, k[2]>> : k \in DOMAIN stored} |->
                       (CHOOSE k \in DOMAIN stored : k[2] = e[2])[1]]

Init ==
    /\ \E start \in Starts : WorkerInit(start) /\ Tables(Stored[start])
    /\ merger = [m \in Mergers |-> NoMerge]
    /\ merged = << >>
    /\ raced = {}

\* a recount of p has listed its faces and not written their number yet
Counting(p) ==
    \/ \E w \in Workers : worker[w].pc = "patch" /\ worker[w].person = p
    \/ \E m \in Mergers : merger[m].pc = "patch" /\ merger[m].target = p

\* what the ghosts note of a step
Observed ==
    /\ merged' = IF \E m \in Mergers : merger[m].pc = "idle" /\ merger'[m].pc = "list"
                 THEN LET m == CHOOSE n \in Mergers :
                                 merger[n].pc = "idle" /\ merger'[n].pc = "list"
                          s == merger'[m].source
                      IN  With(merged, s, IF s \in DOMAIN merged THEN merged[s] + 1 ELSE 1)
                 ELSE merged
    /\ raced' = raced \cup {p \in Seen : Counting(p) /\ (FacesOf(p))' # FacesOf(p)}

Next ==
    /\ \/ \E w \in Workers : Step(w)
       \/ \E m \in Mergers : MergeStart(m)
       \/ \E m \in Mergers : MergePeople(m)
       \/ SetPersonName
       \/ Disrupt
       \/ Finished
    /\ Observed

Spec == Init /\ [][Next]_vars

-----------------------------------------------------------------------------

\* An entry of the reverse index leads to the face it names, unless it names
\* a person that was merged away: a photo's overlays are cut short by nothing
\* else (tablestore.go:157-186).  With merges this is claimed as long as no
\* call fails.
IndexLeadsToFace ==
    (faults = MaxFaults \/ merged = << >>) =>
        \A k \in DOMAIN photofaces :
            \/ /\ <<photofaces[k], k[2]>> \in DOMAIN faces
               /\ faces[<<photofaces[k], k[2]>>].photo = k[1]
            \/ photofaces[k] \in DOMAIN merged

\* Every face belongs to a person that exists, whichever steps failed or were
\* overtaken, unless that person was to be merged away while the face was
\* saved for it or moved to it (tablestore.go:91-128, 241-258).
FacesHavePersons == \A k \in DOMAIN faces : k[1] \in DOMAIN persons \cup DOMAIN merged

\* Merges that run at the same time, in any direction, and saves beside them
\* lose no face: one that is in the reverse index is in the table under some
\* person, or a merge that has deleted it is about to insert it
\* (tablestore.go:236-245).  A request that fails between the two does lose it.
FacesStay ==
    faults = MaxFaults =>
        \A e \in DOMAIN photofaces :
            \/ \E k \in DOMAIN faces : k[2] = e[2] /\ faces[k].photo = e[1]
            \/ \E m \in Mergers : merger[m].pc = "insert" /\ merger[m].moving.face = e[2]

\* Only merging one person away twice can leave a face with two persons: each
\* merge inserts what it has listed, whoever moved it meanwhile
\* (tablestore.go:231-245).
FacesOnce ==
    faults = MaxFaults =>
        \A k, l \in DOMAIN faces :
            k[2] = l[2] /\ k # l => \E p \in DOMAIN merged : merged[p] > 1

\* When nothing is under way and nothing failed, a person's face count is the
\* number of its faces, unless some recount was overtaken between its two
\* requests, which have no etag (tablestore.go:375-396).
CountsMatchUnlessRaced ==
    (AllQuiet /\ faults = MaxFaults) =>
        \A p \in DOMAIN persons \ raced : persons[p].count = Cardinality(FacesOf(p))

\* When nothing is under way and nothing failed, nobody is left without faces:
\* those merged away are gone, and a save that brings one back, matched before
\* the merge, gives it a face (tablestore.go:91-128, 257-258).
NobodyEmpty ==
    (AllQuiet /\ faults = MaxFaults) => \A p \in DOMAIN persons : FacesOf(p) # {}

\* tablestore.go:91 "Upsert person (merge so we don't overwrite name)": saving
\* a face changes no name.
SaveKeepsName ==
    [][\A w \in Workers, p \in DOMAIN persons :
         SaveFace(w) => p \in DOMAIN persons' /\ persons'[p].name = persons[p].name]_vars
=============================================================================
