--------------------------- MODULE TableMergesProofs ---------------------------
(***************************************************************************)
(* What merges and saves on Azure tables do to each other between their    *)
(* requests, for any number of them: the index leads to faces, no face is  *)
(* lost, and counts go wrong only when a recount is overtaken.             *)
(***************************************************************************)
EXTENDS TableFacesProofs

\* a merge that has not dropped its source yet
Taking(m) == merger[m].pc \in {"list", "delete", "insert", "index", "drop"}

\* the photo's face is there under that person, or the person was to be merged away
Leads(photo, f, p) ==
    \/ <<p, f>> \in DOMAIN faces /\ faces[<<p, f>>].photo = photo
    \/ p \in DOMAIN merged

\* the same after a step, for what it was before
LeadsNext(photo, f, p) ==
    \/ <<p, f>> \in DOMAIN faces' /\ faces'[<<p, f>>].photo = photo
    \/ p \in DOMAIN merged'

IndexInv ==
    (faults = MaxFaults \/ merged = << >>) =>
        /\ \A e \in DOMAIN photofaces : Leads(e[1], e[2], photofaces[e])
        /\ \A w \in Workers : worker[w].pc = "index" =>
             Leads(worker[w].photo, worker[w].face, worker[w].person)
        /\ \A m \in Mergers : merger[m].pc = "index" =>
             Leads(merger[m].moving.row.photo, merger[m].moving.face, merger[m].target)

\* the face is in the table, or about to be inserted again
There(f) ==
    \/ \E k \in DOMAIN faces : k[2] = f
    \/ \E m \in Mergers : merger[m].pc = "insert" /\ merger[m].moving.face = f

StayInv ==
    faults = MaxFaults =>
        /\ \A e \in DOMAIN photofaces : There(e[2])
        /\ \A w \in Workers : worker[w].pc = "index" => There(worker[w].face)

\* a merge finds the faces it has listed where it listed them
MergeOnce(m) ==
    /\ \A l \in merger[m].todo :
         <<merger[m].source, l.face>> \in DOMAIN faces /\ l # merger[m].moving
    /\ merger[m].todo # {} => merger[m].pc \in {"delete", "insert", "index"}
    /\ merger[m].pc = "delete" => <<merger[m].source, merger[m].moving.face>> \in DOMAIN faces
    /\ merger[m].pc = "insert" => \A k \in DOMAIN faces : k[2] # merger[m].moving.face

\* two merges take different persons' faces
MergesApart(m, n) ==
    /\ Taking(m) /\ Taking(n) => merger[m].source # merger[n].source
    /\ merger[m].pc = "insert" /\ merger[n].pc = "insert" =>
         merger[m].moving.face # merger[n].moving.face

OneKeyEach == \A k, l \in DOMAIN faces : k[2] = l[2] => k = l

FacesApart ==
    /\ OneKeyEach
    /\ \A m \in Mergers : MergeOnce(m)
    /\ \A m, n \in Mergers : m # n => MergesApart(m, n)

\* nobody is merged away twice, and nothing has failed
NoneTwice == faults = MaxFaults /\ \A p \in DOMAIN merged : merged[p] = 1

OnceInv == NoneTwice => FacesApart

\* somebody is still to write a count for p, or to drop p
WillCount(p) ==
    \/ \E w \in Workers : /\ worker[w].pc \in {"face", "index", "count", "patch"}
                          /\ worker[w].person = p
    \/ \E m \in Mergers : merger[m].pc # "idle" /\ merger[m].target = p
    \/ \E m \in Mergers : Taking(m) /\ merger[m].source = p

\* A count is right, or will be written; one that was listed and not written
\* is right, unless it was raced.
CountsInv ==
    faults = MaxFaults =>
        /\ \A p \in DOMAIN persons \ raced :
             persons[p].count = Cardinality(FacesOf(p)) \/ WillCount(p)
        /\ \A p \in Nat \ raced :
             /\ \A w \in Workers : worker[w].pc = "patch" /\ worker[w].person = p =>
                  worker[w].count = Cardinality(FacesOf(p))
             /\ \A m \in Mergers : merger[m].pc = "patch" /\ merger[m].target = p =>
                  merger[m].count = Cardinality(FacesOf(p))

\* a person without faces is about to get one, or to be dropped
PeopleInv ==
    faults = MaxFaults =>
        \A p \in DOMAIN persons :
            \/ FacesOf(p) # {}
            \/ \E w \in Workers : worker[w].pc = "face" /\ worker[w].person = p
            \/ \E m \in Mergers : Taking(m) /\ merger[m].source = p

-----------------------------------------------------------------------------
(* Who does what in a step.                                                *)

\* A request that failed is one fewer to fail.
LEMMA FaultsFall ==
    ASSUME BaseInv, [Next]_vars, faults' = MaxFaults
    PROVE  faults = MaxFaults
<1>1. faults \in 0..MaxFaults /\ MaxFaults \in Nat
  BY WorkerAssumption DEF BaseInv, WorkerInv, WorkerTypeOK
<1>2. faults' = faults \/ faults' = faults - 1
  <2>1. ASSUME NEW w \in Workers, Step(w)
        PROVE  CallWorks \/ CallFails
    BY <2>1 DEF Step, Reading, Take, Check, Detect, Match, SaveFace, SavePerson, SaveRow, SaveIndex,
                ListForCount, SaveCount, Writes, CallWorks
  <2>2. ASSUME NEW m \in Mergers, MergeStart(m) \/ MergePeople(m)
        PROVE  CallWorks \/ CallFails
    BY <2>2 DEF MergeStart, MergePeople, MergeList, MergeDelete, MergeInsert, MergeIndex, MergeDrop,
                MergeCount, MergePatch, Writes, CallWorks
  <2>3. CASE SetPersonName \/ Disrupt \/ UNCHANGED vars
    BY <2>3 DEF SetPersonName, Writes, Disrupt, Die, vars, CallWorks, CallFails
  <2> QED
    BY <2>1, <2>2, <2>3 DEF Next, Finished, CallWorks, CallFails
<1> QED
  BY <1>1, <1>2

\* A worker stays where it is, goes on with SaveFace, or has nothing saved.
LEMMA WorkerSteps ==
    ASSUME BaseInv, [Next]_vars, NEW v \in Workers
    PROVE  \/ worker'[v] = worker[v]
           \/ SaveFace(v)
           \/ ~Holding(worker[v]) /\ worker'[v].pc \in {"idle", "check", "detect", "match", "save"}
              /\ UNCHANGED <<tableVars, merger>>
           \/ CallFails /\ worker'[v].pc = "idle" /\ UNCHANGED <<tableVars, merger>>
<1>1. CASE worker' = worker
  BY <1>1
<1>2. ASSUME NEW w \in Workers, Reading(w)
      PROVE  /\ ~Holding(worker[w]) /\ worker'[w].pc \in {"idle", "check", "detect", "match", "save"}
             /\ UNCHANGED <<tableVars, merger>>
             /\ v # w => worker'[v] = worker[v]
  <2>1. ~Holding(worker[w]) /\ UNCHANGED <<tableVars, merger>>
    BY <1>2 DEF Reading, Take, Check, Detect, Match, Holding
  <2>2. CASE Match(w, Owners(Look(w)))
    BY <2>1, <2>2, MatchFacts, OwnersSeen DEF BaseInv
  <2>3. CASE Take(w) \/ Check(w, Processed(worker[w].photo)) \/ Detect(w)
    BY <2>1, <2>3, LookingFacts DEF BaseInv
  <2> QED
    BY <1>2, <2>2, <2>3 DEF Reading
<1>3. ASSUME NEW w \in Workers, SaveFace(w), v # w
      PROVE  worker'[v] = worker[v]
  BY <1>3, GoToFacts, SaveEndsFacts, ListForCountFacts
     DEF SaveFace, SavePerson, SaveRow, SaveIndex, SaveCount, BaseInv
<1>4. ASSUME NEW w \in Workers, Die(w), UNCHANGED <<tableVars, merger>>
      PROVE  \/ worker'[v] = worker[v]
             \/ CallFails /\ worker'[v].pc = "idle" /\ UNCHANGED <<tableVars, merger>>
  BY <1>4 DEF Die, Become, Resting, BaseInv, WorkerInv, WorkerTypeOK
<1> QED
  BY <1>1, <1>2, <1>3, <1>4 DEF Next, Step, MergeStart, AdminCalls, MergePeople, MergeList, MergeDelete,
     MergeInsert, MergeIndex, MergeDrop, MergeCount, MergePatch, Merging, SetPersonName, Disrupt,
     Finished, vars

\* A merge stays where it is, goes on, starts, or is cut off.
LEMMA MergerSteps ==
    ASSUME BaseInv, [Next]_vars, NEW n \in Mergers
    PROVE  \/ merger'[n] = merger[n]
           \/ MergePeople(n)
           \/ MergeStart(n) /\ Observed
           \/ CallFails /\ merger'[n].pc = "idle"
<1>1. CASE merger' = merger
  BY <1>1
<1>2. ASSUME NEW m \in Mergers, MergeStart(m), Observed, n # m
      PROVE  merger'[n] = merger[n]
  BY <1>2, MergeStartFacts
<1>3. ASSUME NEW m \in Mergers, MergePeople(m), n # m
      PROVE  merger'[n] = merger[n]
  <2>1. CASE MergeDelete(m) \/ MergeInsert(m) \/ MergeDrop(m)
    BY <1>3, <2>1, MergeMovesFacts DEF MergeDelete, MergeInsert, MergeDrop, BaseInv
  <2>2. CASE MergeList(m) \/ MergeIndex(m) \/ MergeCount(m)
    BY <1>3, <2>2, MergeListFacts, MergeIndexFacts, MergeCountFacts
  <2>3. CASE MergePatch(m)
    BY <1>3, <2>3, MergeEndsFacts DEF MergePatch, BaseInv
  <2> QED
    BY <1>3, <2>1, <2>2, <2>3 DEF MergePeople
<1>4. ASSUME NEW m \in Mergers, MergeGoes(m, NoMerge), CallFails
      PROVE  merger'[n] = merger[n] \/ (CallFails /\ merger'[n].pc = "idle")
  BY <1>4, MergeEndsFacts DEF BaseInv
<1>5. ASSUME NEW w \in Workers, Step(w)
      PROVE  merger' = merger
  BY <1>5 DEF Step, Reading, SaveFace, SavePerson, SaveRow, SaveIndex, ListForCount, SaveCount, Saving
<1> QED
  BY <1>1, <1>2, <1>3, <1>4, <1>5 DEF Next, SetPersonName, Disrupt, Finished, vars

\* where a merge is after a step, and by which request
LEMMA MergerReaches ==
    ASSUME BaseInv, [Next]_vars, NEW m \in Mergers
    PROVE  \/ merger'[m] = merger[m]
           \/ MergeStart(m) /\ Observed /\ merger[m].pc = "idle" /\ merger'[m].pc = "list"
           \/ MergeList(m) /\ merger[m].pc = "list" /\ merger'[m].pc \in {"idle", "delete", "drop"}
           \/ MergeDelete(m) /\ merger[m].pc = "delete" /\ merger'[m].pc = "insert"
           \/ MergeInsert(m) /\ merger[m].pc = "insert" /\ merger'[m].pc = "index"
           \/ MergeIndex(m) /\ merger[m].pc = "index" /\ merger'[m].pc \in {"delete", "drop"}
           \/ MergeDrop(m) /\ merger[m].pc = "drop" /\ merger'[m].pc = "count"
           \/ MergeCount(m) /\ merger[m].pc = "count" /\ merger'[m].pc \in {"idle", "patch"}
           \/ MergePatch(m) /\ merger[m].pc = "patch" /\ merger'[m].pc = "idle"
           \/ CallFails /\ merger'[m].pc = "idle"
<1>1. MergeStart(m) /\ Observed => merger[m].pc = "idle" /\ merger'[m].pc = "list"
  BY MergeStartFacts
<1>2. MergeList(m) => merger[m].pc = "list" /\ merger'[m].pc \in {"idle", "delete", "drop"}
  BY MergeListFacts DEF MergeList, Merging
<1>3. MergeDelete(m) => merger[m].pc = "delete" /\ merger'[m].pc = "insert"
  BY MergeDeleteFacts
<1>4. MergeInsert(m) => merger[m].pc = "insert" /\ merger'[m].pc = "index"
  BY MergeInsertFacts
<1>5. MergeIndex(m) => merger[m].pc = "index" /\ merger'[m].pc \in {"delete", "drop"}
  BY MergeIndexFacts
<1>6. MergeDrop(m) => merger[m].pc = "drop" /\ merger'[m].pc = "count"
  BY MergeMovesFacts DEF MergeDrop, Merging, BaseInv
<1>7. MergeCount(m) => merger[m].pc = "count" /\ merger'[m].pc \in {"idle", "patch"}
  BY MergeCountFacts DEF MergeCount, Merging
<1>8. MergePatch(m) => merger[m].pc = "patch" /\ merger'[m].pc = "idle"
  BY MergeEndsFacts DEF MergePatch, Merging, BaseInv
<1> QED
  BY <1>1, <1>2, <1>3, <1>4, <1>5, <1>6, <1>7, <1>8, MergerSteps DEF MergePeople

\* Only these requests change the table of faces, or the index.
LEMMA FacesWriters ==
    ASSUME BaseInv, [Next]_vars
    PROVE  /\ \/ faces' = faces
              \/ \E w \in Workers : SaveRow(w)
              \/ \E m \in Mergers : MergeDelete(m)
              \/ \E m \in Mergers : MergeInsert(m)
           /\ \/ photofaces' = photofaces
              \/ \E w \in Workers : SaveIndex(w)
              \/ \E m \in Mergers : MergeIndex(m)
BY DEF Next, Step, Reading, SaveFace, SavePerson, SaveRow, SaveIndex, ListForCount, SaveCount, MergeStart,
       MergePeople, MergeList, MergeDelete, MergeInsert, MergeIndex, MergeDrop, MergeCount, MergePatch,
       SetPersonName, Disrupt, Finished, tableVars, vars

\* Whom a merge was to take away is noted for good.
LEMMA MergedGrows ==
    ASSUME BaseInv, [Next]_vars
    PROVE  DOMAIN merged \subseteq DOMAIN merged' /\ (merged' = << >> => merged = << >>)
<1>1. DOMAIN << >> = {}
  OBVIOUS
<1>2. ASSUME NEW m \in Mergers, MergeStart(m), Observed
      PROVE  DOMAIN merged \subseteq DOMAIN merged' /\ DOMAIN merged' # {}
  BY <1>2, MergeStartFacts
<1> QED
  BY <1>1, <1>2, MergedUnlessStart DEF Next, Finished, vars

LEMMA SaveRowFacts ==
    ASSUME BaseInv, NEW w \in Workers, SaveRow(w)
    PROVE  LET key == <<worker[w].person, worker[w].face>>
           IN  /\ worker[w].pc = "face" /\ UNCHANGED <<merger, persons, photofaces>>
               /\ \A v \in Workers : v # w => worker'[v] = worker[v]
               /\ \A k \in DOMAIN faces : k[2] # worker[w].face
               /\ DOMAIN faces \subseteq DOMAIN faces' /\ DOMAIN faces' \subseteq DOMAIN faces \cup {key}
               /\ \A k \in DOMAIN faces : faces'[k] = faces[k]
               /\ \/ /\ worker'[w].pc = "index" /\ worker'[w].person = worker[w].person
                     /\ worker'[w].face = worker[w].face /\ worker'[w].photo = worker[w].photo
                     /\ key \in DOMAIN faces' /\ faces'[key].photo = worker[w].photo
                     /\ faults' = faults
                  \/ CallFails /\ worker'[w].pc \in {"idle", "match"}
<1> DEFINE key == <<worker[w].person, worker[w].face>>
           row == [photo |-> worker[w].photo, look |-> Look(w)]
<1>1. /\ worker[w].pc = "face" /\ UNCHANGED <<merger, persons, photofaces>> /\ WorkerInv
      /\ \A k \in DOMAIN faces : k[2] # worker[w].face
  BY DEF SaveRow, Saving, BaseInv, FreshFaces
<1>2. \/ CallWorks /\ faces' = With(faces, key, row) /\ GoTo(w, "index")
      \/ CallFails /\ (faces' = With(faces, key, row) \/ faces' = faces) /\ SaveEnds(w)
  BY DEF SaveRow, Writes, PutFace
<1>3. key \notin DOMAIN faces /\ row.photo = worker[w].photo
  BY <1>1
<1> HIDE DEF key, row
<1>4. CASE CallWorks /\ faces' = With(faces, key, row) /\ GoTo(w, "index")
  <2>1. /\ DOMAIN faces' = DOMAIN faces \cup {key} /\ faces'[key] = row
        /\ \A k \in DOMAIN faces : faces'[k] = faces[k]
    BY <1>3, <1>4 DEF With
  <2> QED
    BY <1>1, <1>3, <1>4, <2>1, GoToFacts DEF CallWorks, key
<1>5. CASE CallFails /\ (faces' = With(faces, key, row) \/ faces' = faces) /\ SaveEnds(w)
  <2>1. /\ DOMAIN faces \subseteq DOMAIN faces' /\ DOMAIN faces' \subseteq DOMAIN faces \cup {key}
        /\ \A k \in DOMAIN faces : faces'[k] = faces[k]
    BY <1>3, <1>5 DEF With
  <2> QED
    BY <1>1, <1>5, <2>1, SaveEndsFacts DEF key
<1> QED
  BY <1>2, <1>4, <1>5

LEMMA SaveIndexFacts ==
    ASSUME BaseInv, NEW w \in Workers, SaveIndex(w)
    PROVE  /\ worker[w].pc = "index" /\ worker'[w].pc \in {"count", "idle", "match"}
           /\ \A d \in DOMAIN photofaces' :
                \/ d \in DOMAIN photofaces /\ photofaces'[d] = photofaces[d]
                \/ d = <<worker[w].photo, worker[w].face>> /\ photofaces'[d] = worker[w].person
<1> DEFINE e == <<worker[w].photo, worker[w].face>>
<1>1. worker[w].pc = "index" /\ worker'[w].pc \in {"count", "idle", "match"}
  BY GoToFacts, SaveEndsFacts DEF SaveIndex, Saving, BaseInv
<1>2. photofaces' = With(photofaces, e, worker[w].person) \/ photofaces' = photofaces
  BY DEF SaveIndex, Writes, PutIndex
<1> HIDE DEF e
<1>3. \A d \in DOMAIN photofaces' :
        \/ d \in DOMAIN photofaces /\ photofaces'[d] = photofaces[d]
        \/ d = e /\ photofaces'[d] = worker[w].person
  BY <1>2 DEF With
<1> QED
  BY <1>1, <1>3 DEF e

\* A worker gets to its index entry with the row.
LEMMA IndexReached ==
    ASSUME BaseInv, [Next]_vars, NEW w \in Workers, worker'[w].pc = "index"
    PROVE  worker'[w] = worker[w] \/ SaveRow(w)
<1>1. SavePerson(w) => worker'[w].pc \in {"face", "idle", "match"}
  BY GoToFacts, SaveEndsFacts DEF SavePerson, BaseInv
<1>2. SaveIndex(w) => worker'[w].pc \in {"count", "idle", "match"}
  BY SaveIndexFacts
<1>3. ListForCount(w) => worker'[w].pc \in {"patch", "idle", "match"}
  BY ListForCountFacts
<1>4. SaveCount(w) => worker'[w].pc \in {"idle", "match"}
  BY SaveEndsFacts DEF SaveCount, BaseInv
<1> QED
  BY <1>1, <1>2, <1>3, <1>4, WorkerSteps DEF SaveFace

\* Wherever a face is written down, it is with the row of the merge at hand.
LEMMA MovingRow ==
    ASSUME BaseInv, NEW m \in Mergers, merger[m].pc \in {"delete", "insert", "index"},
           NEW k \in DOMAIN faces, k[2] = merger[m].moving.face
    PROVE  faces[k] = merger[m].moving.row
<1>1. MergersOK /\ faces[k] \in FaceRow /\ k[2] \in 0..(nextFace - 1)
  BY DEF BaseInv, TablesTypeOK
<1>2. merger[m].moving \in InHand(m) /\ merger[m].moving.row \in FaceRow
  BY <1>1, MovingFacts
<1>3. Tells(k[2], faces[k]) /\ Tells(k[2], merger[m].moving.row)
  BY <1>2 DEF Tells
<1> QED
  BY <1>1, <1>2, <1>3 DEF BaseInv, OneRowEach

-----------------------------------------------------------------------------
(* The index leads to faces.                                               *)

LEMMA LeadsStays ==
    ASSUME BaseInv, [Next]_vars, NEW photo, NEW f, NEW p, Leads(photo, f, p)
    PROVE  LeadsNext(photo, f, p)
<1>1. DOMAIN merged \subseteq DOMAIN merged'
  BY MergedGrows
<1>2. CASE p \in DOMAIN merged
  BY <1>1, <1>2 DEF LeadsNext
<1>3. CASE p \notin DOMAIN merged
  <2> DEFINE k == <<p, f>>
  <2>1. k \in DOMAIN faces /\ faces[k].photo = photo /\ k[1] = p /\ k[2] = f
    BY <1>3 DEF Leads
  <2> HIDE DEF k
  <2> SUFFICES k \in DOMAIN faces' /\ faces'[k].photo = photo
    BY DEF LeadsNext, k
  <2>2. CASE faces' = faces
    BY <2>1, <2>2
  <2>3. CASE \E w \in Workers : SaveRow(w)
    BY <2>1, <2>3, SaveRowFacts
  <2>4. ASSUME NEW m \in Mergers, MergeDelete(m)
        PROVE  k \in DOMAIN faces' /\ faces'[k].photo = photo
    <3>1. merger[m].source \in DOMAIN merged /\ merger[m].pc = "delete"
      BY <2>4, MergeDeleteFacts DEF BaseInv, MergersOK
    <3>2. k # <<merger[m].source, merger[m].moving.face>>
      BY <1>3, <2>1, <3>1
    <3> QED
      BY <2>1, <2>4, <3>2, MergeDeleteFacts
  <2>5. ASSUME NEW m \in Mergers, MergeInsert(m)
        PROVE  k \in DOMAIN faces' /\ faces'[k].photo = photo
    <3> DEFINE key == <<merger[m].target, merger[m].moving.face>>
    <3>1. /\ DOMAIN faces \subseteq DOMAIN faces'
          /\ k # key => faces'[k] = faces[k]
          /\ k = key => faces'[k] = merger[m].moving.row \/ faces'[k] = faces[k]
      BY <2>1, <2>5, MergeInsertFacts
    <3>2. k = key => faces[k] = merger[m].moving.row
      BY <2>1, <2>5, MergeInsertFacts, MovingRow
    <3> HIDE DEF key
    <3> QED
      BY <2>1, <3>1, <3>2
  <2> QED
    BY <2>2, <2>3, <2>4, <2>5, FacesWriters
<1> QED
  BY <1>2, <1>3

LEMMA IndexNext ==
    ASSUME BaseInv, IndexInv, [Next]_vars
    PROVE  IndexInv'
<1> SUFFICES ASSUME faults' = MaxFaults \/ merged' = << >>
             PROVE  /\ \A e \in DOMAIN photofaces' : LeadsNext(e[1], e[2], photofaces'[e])
                    /\ \A w \in Workers : worker'[w].pc = "index" =>
                         LeadsNext(worker'[w].photo, worker'[w].face, worker'[w].person)
                    /\ \A m \in Mergers : merger'[m].pc = "index" =>
                         LeadsNext(merger'[m].moving.row.photo, merger'[m].moving.face,
                                   merger'[m].target)
  BY DEF IndexInv, Leads, LeadsNext
<1>1. faults = MaxFaults \/ merged = << >>
  BY FaultsFall, MergedGrows
<1>2. /\ \A e \in DOMAIN photofaces : Leads(e[1], e[2], photofaces[e])
      /\ \A w \in Workers : worker[w].pc = "index" =>
           Leads(worker[w].photo, worker[w].face, worker[w].person)
      /\ \A m \in Mergers : merger[m].pc = "index" =>
           Leads(merger[m].moving.row.photo, merger[m].moving.face, merger[m].target)
  BY <1>1 DEF IndexInv
<1>3. ASSUME NEW e \in DOMAIN photofaces'
      PROVE  LeadsNext(e[1], e[2], photofaces'[e])
  <2>1. Leads(e[1], e[2], photofaces'[e])
    <3>1. CASE photofaces' = photofaces
      BY <1>2, <3>1
    <3>2. ASSUME NEW w \in Workers, SaveIndex(w)
          PROVE  Leads(e[1], e[2], photofaces'[e])
      BY <1>2, <3>2, SaveIndexFacts
    <3>3. ASSUME NEW m \in Mergers, MergeIndex(m)
          PROVE  Leads(e[1], e[2], photofaces'[e])
      BY <1>2, <3>3, MergeIndexFacts
    <3> QED
      BY <3>1, <3>2, <3>3, FacesWriters
  <2> QED
    BY <2>1, LeadsStays
<1>4. ASSUME NEW w \in Workers, worker'[w].pc = "index"
      PROVE  LeadsNext(worker'[w].photo, worker'[w].face, worker'[w].person)
  <2>1. CASE worker'[w] = worker[w]
    BY <1>2, <1>4, <2>1, LeadsStays
  <2>2. CASE SaveRow(w)
    BY <1>4, <2>2, SaveRowFacts DEF LeadsNext
  <2> QED
    BY <1>4, <2>1, <2>2, IndexReached
<1>5. ASSUME NEW m \in Mergers, merger'[m].pc = "index"
      PROVE  LeadsNext(merger'[m].moving.row.photo, merger'[m].moving.face, merger'[m].target)
  <2>1. CASE merger'[m] = merger[m]
    BY <1>2, <1>5, <2>1, LeadsStays
  <2>2. CASE MergeInsert(m)
    <3>1. merger'[m].moving = merger[m].moving /\ merger'[m].target = merger[m].target
      BY <2>2, MergeMovesFacts DEF MergeInsert, BaseInv
    <3>2. merged # << >>
      <4>1. merger[m].source \in DOMAIN merged
        BY <2>2, MergeInsertFacts DEF BaseInv, MergersOK
      <4>2. DOMAIN << >> = {}
        OBVIOUS
      <4> QED
        BY <4>1, <4>2
    <3>3. faults' = faults
      BY <1>1, <3>2, MergedGrows
    <3> QED
      BY <2>2, <3>1, <3>3, MergeInsertFacts DEF LeadsNext
  <2> QED
    BY <1>5, <2>1, <2>2, MergerReaches
<1> QED
  BY <1>3, <1>4, <1>5

LEMMA IndexInit ==
    ASSUME Init
    PROVE  IndexInv
BY InitFound DEF IndexInv, Leads, TablesFound

\* An entry of the reverse index leads to the face it names, or names a person
\* that was to be merged away: while no call has failed or nothing has been
\* merged (tablestore.go:157-186).
THEOREM IndexLeads == Spec => []IndexLeadsToFace
<1>1. BaseInv /\ IndexInv => IndexLeadsToFace
  BY DEF IndexInv, Leads, IndexLeadsToFace
<1> QED
  BY <1>1, TableInvariant, IndexInit, IndexNext, PTL DEF Spec

-----------------------------------------------------------------------------
(* No face is lost.                                                        *)

\* While the failures to come are as many as at the start, nothing fails.
LEMMA NothingFails ==
    ASSUME BaseInv, [Next]_vars, faults' = MaxFaults
    PROVE  faults = MaxFaults /\ faults' = faults /\ ~CallFails
<1>1. faults = MaxFaults
  BY FaultsFall
<1>2. MaxFaults \in Nat
  BY WorkerAssumption
<1> QED
  BY <1>1, <1>2 DEF CallFails

ThereNext(f) ==
    \/ \E k \in DOMAIN faces' : k[2] = f
    \/ \E m \in Mergers : merger'[m].pc = "insert" /\ merger'[m].moving.face = f

LEMMA ThereStays ==
    ASSUME BaseInv, [Next]_vars, faults' = MaxFaults, NEW f, There(f)
    PROVE  ThereNext(f)
<1>1. faults' = faults /\ ~CallFails
  BY NothingFails
<1>2. ASSUME NEW k \in DOMAIN faces, k[2] = f
      PROVE  ThereNext(f)
  <2>1. CASE faces' = faces
    BY <1>2, <2>1 DEF ThereNext
  <2>2. ASSUME NEW w \in Workers, SaveRow(w)
        PROVE  ThereNext(f)
    BY <1>2, <2>2, SaveRowFacts DEF ThereNext
  <2>3. ASSUME NEW m \in Mergers, MergeDelete(m)
        PROVE  ThereNext(f)
    <3>1. merger'[m].pc = "insert" /\ merger'[m].moving = merger[m].moving
      BY <2>3, MergeMovesFacts DEF MergeDelete, BaseInv
    <3>2. CASE k = <<merger[m].source, merger[m].moving.face>>
      BY <1>2, <3>1, <3>2 DEF ThereNext
    <3>3. CASE k # <<merger[m].source, merger[m].moving.face>>
      BY <1>2, <2>3, <3>3, MergeDeleteFacts DEF ThereNext
    <3> QED
      BY <3>2, <3>3
  <2>4. ASSUME NEW m \in Mergers, MergeInsert(m)
        PROVE  ThereNext(f)
    BY <1>2, <2>4, MergeInsertFacts DEF ThereNext
  <2> QED
    BY <2>1, <2>2, <2>3, <2>4, FacesWriters
<1>3. ASSUME NEW m \in Mergers, merger[m].pc = "insert", merger[m].moving.face = f
      PROVE  ThereNext(f)
  <2>1. CASE merger'[m] = merger[m]
    BY <1>3, <2>1 DEF ThereNext
  <2>2. CASE MergeInsert(m)
    <3> DEFINE key == <<merger[m].target, merger[m].moving.face>>
    <3>1. key \in DOMAIN faces' /\ key[2] = f
      BY <1>1, <1>3, <2>2, MergeInsertFacts
    <3> QED
      BY <3>1 DEF ThereNext
  <2> QED
    BY <1>1, <1>3, <2>1, <2>2, MergerReaches
<1> QED
  BY <1>2, <1>3 DEF There

LEMMA StayInit ==
    ASSUME Init
    PROVE  StayInv
BY InitFound DEF StayInv, There, TablesFound

LEMMA StayNext ==
    ASSUME BaseInv, StayInv, [Next]_vars
    PROVE  StayInv'
<1> SUFFICES ASSUME faults' = MaxFaults
             PROVE  /\ \A e \in DOMAIN photofaces' : ThereNext(e[2])
                    /\ \A w \in Workers : worker'[w].pc = "index" => ThereNext(worker'[w].face)
  BY DEF StayInv, There, ThereNext
<1>1. faults' = faults /\ ~CallFails
  BY NothingFails
<1>2. /\ \A e \in DOMAIN photofaces : There(e[2])
      /\ \A w \in Workers : worker[w].pc = "index" => There(worker[w].face)
  BY NothingFails DEF StayInv
<1>3. ASSUME NEW e \in DOMAIN photofaces'
      PROVE  ThereNext(e[2])
  <2>1. There(e[2])
    <3>1. ASSUME NEW w \in Workers, SaveIndex(w)
          PROVE  There(e[2])
      BY <1>2, <3>1, SaveIndexFacts
    <3>2. ASSUME NEW m \in Mergers, MergeIndex(m)
          PROVE  There(e[2])
      BY <1>2, <3>2, MergeIndexFacts
    <3> QED
      BY <1>2, <3>1, <3>2, FacesWriters
  <2> QED
    BY <2>1, ThereStays
<1>4. ASSUME NEW w \in Workers, worker'[w].pc = "index"
      PROVE  ThereNext(worker'[w].face)
  <2>1. CASE worker'[w] = worker[w]
    BY <1>2, <1>4, <2>1, ThereStays
  <2>2. CASE SaveRow(w)
    BY <1>1, <2>2, SaveRowFacts DEF ThereNext
  <2> QED
    BY <1>4, <2>1, <2>2, IndexReached
<1> QED
  BY <1>3, <1>4

\* As long as no request fails, a face that is in the reverse index is in the
\* table under some person, for the photo the index has it for, or a merge is
\* about to insert it (tablestore.go:236-245).
THEOREM NoFaceLost == Spec => []FacesStay
<1>1. ASSUME BaseInv, StayInv
      PROVE  FacesStay
  <2> SUFFICES ASSUME faults = MaxFaults, NEW e \in DOMAIN photofaces
               PROVE  \/ \E k \in DOMAIN faces : k[2] = e[2] /\ faces[k].photo = e[1]
                      \/ \E m \in Mergers : merger[m].pc = "insert" /\ merger[m].moving.face = e[2]
    BY DEF FacesStay
  <2>1. ASSUME NEW k \in DOMAIN faces, k[2] = e[2]
        PROVE  faces[k].photo = e[1]
    <3>1. Tells(e[2], faces[k]) /\ faces[k] \in FaceRow
      BY <1>1, <2>1 DEF Tells, BaseInv, TablesTypeOK
    <3> QED
      BY <1>1, <3>1 DEF BaseInv, OneRowEach
  <2>2. There(e[2])
    BY <1>1 DEF StayInv
  <2> QED
    BY <2>1, <2>2 DEF There
<1> QED
  BY <1>1, TableInvariant, StayInit, StayNext, PTL DEF Spec

-----------------------------------------------------------------------------
(* A face has one person.                                                  *)

\* A face is listed with one row, so listed faces that differ are not the same
\* face.
LEMMA ListedApart ==
    ASSUME BaseInv, NEW m \in Mergers, NEW k \in InHand(m), NEW l \in InHand(m), k.face = l.face
    PROVE  k = l
<1>1. MergersOK
  BY DEF BaseInv
<1>2. /\ k.face \in Nat /\ k.row \in FaceRow /\ k = [face |-> k.face, row |-> k.row]
      /\ l.row \in FaceRow /\ l = [face |-> l.face, row |-> l.row]
      /\ k.face < nextFace /\ nextFace \in Nat
  BY <1>1, ListedFacts DEF MergersOK, BaseInv, WorkerInv, WorkerTypeOK
<1>3. Tells(k.face, k.row) /\ Tells(k.face, l.row)
  BY DEF Tells
<1>4. k.face \in 0..(nextFace - 1)
  BY <1>2
<1>5. k.row = l.row
  BY <1>2, <1>3, <1>4 DEF BaseInv, OneRowEach
<1> QED
  BY <1>2, <1>5

\* Steps that leave the table of faces and the merges alone.
LEMMA ApartSame ==
    ASSUME FacesApart, faces' = faces, merger' = merger
    PROVE  FacesApart'
BY DEF FacesApart, OneKeyEach, MergeOnce, MergesApart, Taking

\* A merge goes on without touching the table of faces.
LEMMA ApartGoesOn ==
    ASSUME FacesApart, NEW m \in Mergers, faces' = faces,
           \A n \in Mergers : n # m => merger'[n] = merger[n],
           MergeOnce(m)', merger'[m].pc # "insert",
           Taking(m)' => Taking(m) /\ merger'[m].source = merger[m].source
    PROVE  FacesApart'
<1>1. \A n \in Mergers : MergeOnce(n)'
  BY DEF FacesApart, MergeOnce
<1>2. \A n, o \in Mergers : n # o => MergesApart(n, o)'
  BY DEF FacesApart, MergesApart, Taking
<1> QED
  BY <1>1, <1>2 DEF FacesApart, OneKeyEach

LEMMA ApartStart ==
    ASSUME BaseInv, FacesApart, NEW m \in Mergers, MergeStart(m), Observed,
           \A p \in DOMAIN merged' : merged'[p] = 1
    PROVE  FacesApart'
<1>1. PICK s \in Known, t \in Known :
         /\ \A n \in Mergers : n # m => merger'[n] = merger[n]
         /\ merger'[m].pc = "list" /\ merger'[m].source = s /\ merger'[m].todo = {}
         /\ DOMAIN merged' = DOMAIN merged \cup {s}
         /\ merged'[s] = IF s \in DOMAIN merged THEN merged[s] + 1 ELSE 1
  BY MergeStartFacts
<1>2. faces' = faces
  BY DEF MergeStart, tableVars
<1>3. s \notin DOMAIN merged
  <2>1. \A p \in DOMAIN merged : merged[p] \in Nat \ {0}
    BY DEF BaseInv, TablesTypeOK
  <2>2. merged'[s] = 1
    BY <1>1
  <2> QED
    BY <1>1, <2>1, <2>2
<1>4. \A n \in Mergers : Taking(n) => merger[n].source \in DOMAIN merged
  BY DEF Taking, BaseInv, MergersOK
<1>5. \A n \in Mergers : MergeOnce(n)'
  BY <1>1, <1>2 DEF FacesApart, MergeOnce
<1>6. \A n, o \in Mergers : n # o => MergesApart(n, o)'
  BY <1>1, <1>3, <1>4 DEF FacesApart, MergesApart, Taking
<1> QED
  BY <1>2, <1>5, <1>6 DEF FacesApart, OneKeyEach

LEMMA ApartList ==
    ASSUME BaseInv, FacesApart, NEW m \in Mergers, MergeList(m), ~CallFails
    PROVE  FacesApart'
<1>1. /\ \A n \in Mergers : n # m => merger'[n] = merger[n]
      /\ \A l \in InHand(m)' : <<merger[m].source, l.face>> \in DOMAIN faces
      /\ merger'[m].source = merger[m].source
      /\ \/ merger'[m].pc = "drop" /\ InHand(m)' = {}
         \/ merger'[m].pc = "delete" /\ merger'[m].moving # None
            /\ merger'[m].moving \notin merger'[m].todo
  BY MergeListFacts
<1>2. faces' = faces /\ merger[m].pc = "list"
  BY DEF MergeList, Merging, tableVars
<1>3. MergeOnce(m)'
  BY <1>1, <1>2 DEF MergeOnce, InHand
<1> QED
  BY <1>1, <1>2, <1>3, ApartGoesOn DEF Taking

LEMMA ApartIndex ==
    ASSUME BaseInv, FacesApart, NEW m \in Mergers, MergeIndex(m)
    PROVE  FacesApart'
<1>1. /\ merger[m].pc = "index"
      /\ \A n \in Mergers : n # m => merger'[n] = merger[n]
      /\ merger'[m].source = merger[m].source
      /\ \/ merger'[m].pc = "drop" /\ merger'[m].todo = {}
         \/ /\ merger'[m].pc = "delete" /\ merger'[m].moving \in merger[m].todo
            /\ merger'[m].todo = merger[m].todo \ {merger'[m].moving}
  BY MergeIndexFacts
<1>2. faces' = faces
  BY DEF MergeIndex
<1>3. MergeOnce(m)'
  BY <1>1, <1>2 DEF FacesApart, MergeOnce
<1> QED
  BY <1>1, <1>2, <1>3, ApartGoesOn DEF Taking

\* The end of a merge: the source is dropped and the target counted.
LEMMA ApartEnds ==
    ASSUME BaseInv, FacesApart, NEW m \in Mergers, MergeDrop(m) \/ MergeCount(m) \/ MergePatch(m)
    PROVE  FacesApart'
<1>1. merger[m].pc \in {"drop", "count", "patch"} /\ faces' = faces /\ merger[m].todo = {}
  BY DEF MergeDrop, MergeCount, MergePatch, Merging, tableVars, FacesApart, MergeOnce
<1>2. /\ \A n \in Mergers : n # m => merger'[n] = merger[n]
      /\ merger'[m].pc \in {"count", "patch", "idle"}
      /\ merger'[m].todo = {}
  <2>1. CASE MergeDrop(m)
    BY <1>1, <2>1, MergeMovesFacts DEF MergeDrop, BaseInv
  <2>2. CASE MergeCount(m)
    <3>1. /\ \A n \in Mergers : n # m => merger'[n] = merger[n]
          /\ merger'[m].pc \in {"patch", "idle"}
      BY <2>2, MergeCountFacts
    <3>2. merger'[m].todo = {}
      <4>1. CASE MergeGoes(m, NoMerge)
        BY <4>1, MergeEndsFacts DEF BaseInv, InHand
      <4>2. CASE ~MergeGoes(m, NoMerge)
        <5>1. merger[m] \in MergeState /\ merger \in [Mergers -> MergeState]
          BY DEF BaseInv, MergersOK
        <5>2. PICK c : merger' = [merger EXCEPT ![m] = [merger[m] EXCEPT !.pc = "patch", !.count = c]]
          BY <2>2, <4>2 DEF MergeCount, MergeGoes
        <5>3. [merger[m] EXCEPT !.pc = "patch", !.count = c].todo = merger[m].todo
          BY <5>1 DEF MergeState
        <5> QED
          BY <1>1, <5>1, <5>2, <5>3
      <4> QED
        BY <4>1, <4>2
    <3> QED
      BY <3>1, <3>2
  <2>3. CASE MergePatch(m)
    BY <2>3, MergeEndsFacts DEF MergePatch, BaseInv, InHand
  <2> QED
    BY <2>1, <2>2, <2>3
<1>3. MergeOnce(m)'
  BY <1>2 DEF MergeOnce
<1> QED
  BY <1>1, <1>2, <1>3, ApartGoesOn DEF Taking

\* The row that is deleted was the only one of its face.
LEMMA ApartDelete ==
    ASSUME BaseInv, FacesApart, NEW m \in Mergers, MergeDelete(m), faults' = faults
    PROVE  FacesApart'
<1> DEFINE face == merger[m].moving.face
           key == <<merger[m].source, face>>
<1>1. /\ merger[m].pc = "delete" /\ merger'[m].pc = "insert"
      /\ \A n \in Mergers : n # m => merger'[n] = merger[n]
      /\ merger'[m].source = merger[m].source /\ merger'[m].todo = merger[m].todo
      /\ merger'[m].moving = merger[m].moving
  BY MergeDeleteFacts, MergeMovesFacts DEF MergeDelete, BaseInv
<1>2. DOMAIN faces' = DOMAIN faces \ {key}
  BY MergeDeleteFacts DEF Without
<1>3. key \in DOMAIN faces /\ key[2] = face
  BY <1>1 DEF FacesApart, MergeOnce
<1>4. \A k \in DOMAIN faces' : k[2] # face
  BY <1>2, <1>3 DEF FacesApart, OneKeyEach
<1>5. MergeOnce(m)'
  <2>1. ASSUME NEW l \in merger[m].todo
        PROVE  <<merger[m].source, l.face>> \in DOMAIN faces' /\ l # merger[m].moving
    <3>1. <<merger[m].source, l.face>> \in DOMAIN faces /\ l # merger[m].moving
      BY DEF FacesApart, MergeOnce
    <3>2. l \in InHand(m) /\ merger[m].moving \in InHand(m)
      BY <1>1, MovingFacts DEF InHand, BaseInv
    <3>3. l.face # face
      BY <3>1, <3>2, ListedApart
    <3> QED
      BY <1>2, <3>1, <3>3
  <2> QED
    BY <1>1, <1>4, <2>1 DEF MergeOnce
<1>6. ASSUME NEW n \in Mergers, n # m
      PROVE  MergeOnce(n)' /\ MergesApart(m, n)' /\ MergesApart(n, m)'
  <2>1. merger'[n] = merger[n] /\ MergeOnce(n) /\ MergesApart(m, n) /\ MergesApart(n, m)
    BY <1>1, <1>6 DEF FacesApart
  <2>2. Taking(m) /\ Taking(m)'
    BY <1>1 DEF Taking
  <2>3. merger[n].pc \in {"delete", "insert", "index"} => merger[n].source # merger[m].source
    BY <2>1, <2>2 DEF MergesApart, Taking
  <2>4. \A f : merger[n].source # merger[m].source => <<merger[n].source, f>> # key
    OBVIOUS
  <2>5. MergeOnce(n)'
    <3> HIDE DEF key, face
    <3> QED
      BY <1>2, <2>1, <2>3, <2>4 DEF MergeOnce
  <2>6. merger[n].pc = "insert" => merger[n].moving.face # face
    BY <1>3, <2>1 DEF MergeOnce
  <2> QED
    BY <1>1, <2>1, <2>2, <2>5, <2>6 DEF MergesApart, Taking
<1>7. \A n, o \in Mergers : n # m /\ o # m /\ n # o => MergesApart(n, o)'
  BY <1>1 DEF FacesApart, MergesApart, Taking
<1> QED
  BY <1>2, <1>5, <1>6, <1>7 DEF FacesApart, OneKeyEach

LEMMA ApartInsert ==
    ASSUME BaseInv, FacesApart, NEW m \in Mergers, MergeInsert(m)
    PROVE  FacesApart'
<1> DEFINE face == merger[m].moving.face
           key == <<merger[m].target, face>>
<1>1. /\ merger[m].pc = "insert" /\ merger'[m].pc = "index"
      /\ \A n \in Mergers : n # m => merger'[n] = merger[n]
      /\ merger'[m].source = merger[m].source /\ merger'[m].todo = merger[m].todo
      /\ merger'[m].moving = merger[m].moving
  BY MergeInsertFacts, MergeMovesFacts DEF MergeInsert, BaseInv
<1>2. DOMAIN faces \subseteq DOMAIN faces' /\ DOMAIN faces' \subseteq DOMAIN faces \cup {key} /\ key[2] = face
  BY MergeInsertFacts
<1>3. \A k \in DOMAIN faces : k[2] # face
  BY <1>1 DEF FacesApart, MergeOnce
<1>4. \A n \in Mergers : n # m /\ merger[n].pc = "insert" => merger[n].moving.face # face
  BY <1>1 DEF FacesApart, MergesApart
<1> HIDE DEF face, key
<1>5. OneKeyEach'
  BY <1>2, <1>3 DEF FacesApart, OneKeyEach
<1>6. \A n \in Mergers : MergeOnce(n)'
  BY <1>1, <1>2, <1>4 DEF FacesApart, MergeOnce
<1>7. \A n, o \in Mergers : n # o => MergesApart(n, o)'
  BY <1>1 DEF FacesApart, MergesApart, Taking
<1> QED
  BY <1>5, <1>6, <1>7 DEF FacesApart

LEMMA ApartRow ==
    ASSUME BaseInv, FacesApart, NEW w \in Workers, SaveRow(w)
    PROVE  FacesApart'
<1> DEFINE face == worker[w].face
           key == <<worker[w].person, face>>
<1>1. /\ merger' = merger /\ \A k \in DOMAIN faces : k[2] # face
      /\ DOMAIN faces \subseteq DOMAIN faces' /\ DOMAIN faces' \subseteq DOMAIN faces \cup {key}
      /\ key[2] = face
  BY SaveRowFacts
<1>2. \A m \in Mergers : merger[m].pc = "insert" => merger[m].moving.face # face
  BY SaveRowFacts, MovingFacts DEF BaseInv, FreshFaces
<1> HIDE DEF face, key
<1>3. OneKeyEach'
  BY <1>1 DEF FacesApart, OneKeyEach
<1>4. \A n \in Mergers : MergeOnce(n)'
  BY <1>1, <1>2 DEF FacesApart, MergeOnce
<1>5. \A n, o \in Mergers : n # o => MergesApart(n, o)'
  BY <1>1 DEF FacesApart, MergesApart, Taking
<1> QED
  BY <1>3, <1>4, <1>5 DEF FacesApart

\* Who was merged away twice stays so.
LEMMA TwiceStays ==
    ASSUME BaseInv, [Next]_vars, NoneTwice'
    PROVE  NoneTwice
<1>1. faults = MaxFaults
  BY FaultsFall DEF NoneTwice
<1>2. ASSUME NEW m \in Mergers, MergeStart(m), Observed
      PROVE  \A p \in DOMAIN merged : merged[p] = 1
  <2>1. PICK s \in Known, t \in Known :
         /\ DOMAIN merged' = DOMAIN merged \cup {s}
         /\ merged'[s] = IF s \in DOMAIN merged THEN merged[s] + 1 ELSE 1
         /\ \A p \in DOMAIN merged : p # s => merged'[p] = merged[p]
    BY <1>2, MergeStartFacts
  <2>2. \A p \in DOMAIN merged : merged[p] \in Nat \ {0}
    BY DEF BaseInv, TablesTypeOK
  <2>3. \A p \in DOMAIN merged' : merged'[p] = 1
    BY DEF NoneTwice
  <2>4. s \notin DOMAIN merged
    BY <2>1, <2>2, <2>3
  <2> QED
    BY <2>1, <2>3, <2>4
<1>3. CASE merged' = merged
  BY <1>1, <1>3 DEF NoneTwice
<1> QED
  BY <1>1, <1>2, <1>3, MergedUnlessStart DEF Next, Finished, vars, NoneTwice

LEMMA OnceInit ==
    ASSUME Init
    PROVE  OnceInv
BY InitFound DEF OnceInv, FacesApart, OneKeyEach, MergeOnce, MergesApart, Taking, TablesFound

LEMMA OnceNext ==
    ASSUME BaseInv, OnceInv, [Next]_vars
    PROVE  OnceInv'
<1> SUFFICES ASSUME NoneTwice'
             PROVE  FacesApart'
  BY DEF OnceInv
<1>1. FacesApart
  BY TwiceStays DEF OnceInv
<1>2. faults' = faults /\ ~CallFails /\ \A p \in DOMAIN merged' : merged'[p] = 1
  BY NothingFails DEF NoneTwice
<1>3. ASSUME NEW w \in Workers, Step(w)
      PROVE  FacesApart'
  <2>1. CASE SaveRow(w)
    BY <1>1, <2>1, ApartRow
  <2>2. CASE ~SaveRow(w)
    BY <1>1, <1>3, <2>2, ApartSame
       DEF Step, Reading, SaveFace, SavePerson, SaveIndex, ListForCount, SaveCount, Saving, tableVars
  <2> QED
    BY <2>1, <2>2
<1>4. ASSUME NEW m \in Mergers, MergeStart(m), Observed
      PROVE  FacesApart'
  BY <1>1, <1>2, <1>4, ApartStart
<1>5. ASSUME NEW m \in Mergers, MergePeople(m)
      PROVE  FacesApart'
  BY <1>1, <1>2, <1>5, ApartList, ApartDelete, ApartInsert, ApartIndex, ApartEnds DEF MergePeople
<1>6. CASE SetPersonName \/ UNCHANGED vars
  BY <1>1, <1>6, ApartSame DEF SetPersonName, vars
<1>7. ~Disrupt
  BY <1>2 DEF Disrupt, Die
<1> QED
  BY <1>3, <1>4, <1>5, <1>6, <1>7 DEF Next, Finished

\* A face is with one person, while nothing fails, until somebody is merged
\* away twice: merges of different persons never insert the same face
\* (tablestore.go:231-245).
THEOREM OnePersonEach == Spec => []FacesOnce
<1>1. ASSUME BaseInv, OnceInv
      PROVE  FacesOnce
  <2> SUFFICES ASSUME faults = MaxFaults, NEW k \in DOMAIN faces, NEW l \in DOMAIN faces,
                      k[2] = l[2], k # l
               PROVE  \E p \in DOMAIN merged : merged[p] > 1
    BY DEF FacesOnce
  <2>1. ~NoneTwice
    BY <1>1 DEF OnceInv, FacesApart, OneKeyEach
  <2>2. PICK p \in DOMAIN merged : merged[p] # 1
    BY <2>1 DEF NoneTwice
  <2>3. merged[p] \in Nat \ {0}
    BY <1>1 DEF BaseInv, TablesTypeOK
  <2> QED
    BY <2>2, <2>3
<1> QED
  BY <1>1, TableInvariant, OnceInit, OnceNext, PTL DEF Spec

-----------------------------------------------------------------------------
(* Counts are right unless raced.                                          *)

\* where a worker that holds a face is after a step, when nothing fails
LEMMA WorkerReaches ==
    ASSUME BaseInv, [Next]_vars, ~CallFails, NEW w \in Workers
    PROVE  \/ worker'[w] = worker[w]
           \/ ~Holding(worker[w]) /\ worker'[w].pc \in {"idle", "check", "detect", "match", "save"}
              /\ UNCHANGED <<tableVars, merger>>
           \/ SavePerson(w) /\ worker'[w].pc = "face" /\ worker'[w].person = worker[w].person
           \/ SaveRow(w) /\ worker[w].pc = "face"
              /\ worker'[w].pc = "index" /\ worker'[w].person = worker[w].person
           \/ SaveIndex(w) /\ worker[w].pc = "index"
              /\ worker'[w].pc = "count" /\ worker'[w].person = worker[w].person
           \/ ListForCount(w) /\ worker[w].pc = "count"
              /\ worker'[w].pc = "patch" /\ worker'[w].person = worker[w].person
              /\ worker'[w].count = Cardinality(FacesOf(worker[w].person))
           \/ SaveCount(w) /\ worker[w].pc = "patch" /\ worker'[w].pc \in {"idle", "match"}
<1>1. SavePerson(w) => worker'[w].pc = "face" /\ worker'[w].person = worker[w].person
  BY GoToFacts DEF SavePerson, Writes, BaseInv
<1>2. SaveRow(w) => /\ worker[w].pc = "face"
                    /\ worker'[w].pc = "index" /\ worker'[w].person = worker[w].person
  BY SaveRowFacts
<1>3. SaveIndex(w) => /\ worker[w].pc = "index"
                      /\ worker'[w].pc = "count" /\ worker'[w].person = worker[w].person
  BY GoToFacts DEF SaveIndex, Saving, Writes, BaseInv
<1>4. ListForCount(w) => /\ worker[w].pc = "count"
                         /\ worker'[w].pc = "patch" /\ worker'[w].person = worker[w].person
                         /\ worker'[w].count = Cardinality(FacesOf(worker[w].person))
  BY ListForCountFacts DEF ListForCount, Saving
<1>5. SaveCount(w) => worker[w].pc = "patch" /\ worker'[w].pc \in {"idle", "match"}
  BY SaveEndsFacts DEF SaveCount, Saving, BaseInv
<1> QED
  BY <1>1, <1>2, <1>3, <1>4, <1>5, WorkerSteps DEF SaveFace

\* A merge keeps its persons until it ends.
LEMMA SameMerge ==
    ASSUME BaseInv, [Next]_vars, NEW m \in Mergers, merger[m].pc # "idle", merger'[m].pc # "idle"
    PROVE  merger'[m].source = merger[m].source /\ merger'[m].target = merger[m].target
<1>1. ~MergeStart(m) /\ (MergePatch(m) => merger'[m].pc = "idle")
  BY MergeEndsFacts DEF MergeStart, MergePatch, BaseInv
<1>2. MergeDelete(m) \/ MergeInsert(m) \/ MergeDrop(m) =>
        merger'[m].source = merger[m].source /\ merger'[m].target = merger[m].target
  BY MergeMovesFacts DEF MergeDelete, MergeInsert, MergeDrop, BaseInv
<1>3. MergeList(m) \/ MergeIndex(m) \/ MergeCount(m) =>
        merger'[m].source = merger[m].source /\ merger'[m].target = merger[m].target
  BY MergeListFacts, MergeIndexFacts, MergeCountFacts
<1> QED
  BY <1>1, <1>2, <1>3, MergerSteps DEF MergePeople

\* A merge takes its source's faces until it drops it.
LEMMA TakesOn ==
    ASSUME BaseInv, [Next]_vars, ~CallFails, NEW m \in Mergers, Taking(m)
    PROVE  \/ Taking(m)' /\ merger'[m].source = merger[m].source
           \/ MergeDrop(m)
<1>1. merger'[m] = merger[m] \/ merger'[m].pc \in {"delete", "insert", "index", "drop"} \/ MergeDrop(m)
  BY MergerReaches, MergeListFacts DEF Taking
<1> QED
  BY <1>1, SameMerge DEF Taking

\* Faces of a person change only by a key of that person.
LEMMA OthersFaces ==
    ASSUME NEW key, NEW p, key[1] # p,
           DOMAIN faces \ {key} \subseteq DOMAIN faces', DOMAIN faces' \subseteq DOMAIN faces \cup {key}
    PROVE  FacesOf(p)' = FacesOf(p)
BY DEF FacesOf

WillCountNext(p) ==
    \/ \E w \in Workers : /\ worker'[w].pc \in {"face", "index", "count", "patch"}
                          /\ worker'[w].person = p
    \/ \E m \in Mergers : merger'[m].pc # "idle" /\ merger'[m].target = p
    \/ \E m \in Mergers : Taking(m)' /\ merger'[m].source = p

LEMMA FacesOfChanges ==
    ASSUME BaseInv, [Next]_vars, ~CallFails, NEW p
    PROVE  FacesOf(p)' = FacesOf(p) \/ WillCountNext(p)
<1>1. CASE faces' = faces
  BY <1>1 DEF FacesOf
<1>2. ASSUME NEW w \in Workers, SaveRow(w)
      PROVE  FacesOf(p)' = FacesOf(p) \/ WillCountNext(p)
  <2> DEFINE key == <<worker[w].person, worker[w].face>>
  <2>1. /\ DOMAIN faces \subseteq DOMAIN faces' /\ DOMAIN faces' \subseteq DOMAIN faces \cup {key}
        /\ worker'[w].pc = "index" /\ worker'[w].person = worker[w].person
        /\ key[1] = worker[w].person
    BY <1>2, SaveRowFacts
  <2> HIDE DEF key
  <2> QED
    BY <2>1, OthersFaces DEF WillCountNext
<1>3. ASSUME NEW m \in Mergers, MergeDelete(m)
      PROVE  FacesOf(p)' = FacesOf(p) \/ WillCountNext(p)
  <2> DEFINE key == <<merger[m].source, merger[m].moving.face>>
  <2>1. /\ DOMAIN faces \ {key} \subseteq DOMAIN faces' /\ DOMAIN faces' \subseteq DOMAIN faces
        /\ merger'[m].pc = "insert" /\ merger'[m].source = merger[m].source
        /\ key[1] = merger[m].source
    BY <1>3, MergeDeleteFacts, MergeMovesFacts DEF MergeDelete, BaseInv
  <2> HIDE DEF key
  <2> QED
    BY <2>1, OthersFaces DEF WillCountNext, Taking
<1>4. ASSUME NEW m \in Mergers, MergeInsert(m)
      PROVE  FacesOf(p)' = FacesOf(p) \/ WillCountNext(p)
  <2> DEFINE key == <<merger[m].target, merger[m].moving.face>>
  <2>1. /\ DOMAIN faces \subseteq DOMAIN faces' /\ DOMAIN faces' \subseteq DOMAIN faces \cup {key}
        /\ merger'[m].pc = "index" /\ merger'[m].target = merger[m].target
        /\ key[1] = merger[m].target
    BY <1>4, MergeInsertFacts, MergeMovesFacts DEF MergeInsert, BaseInv
  <2> HIDE DEF key
  <2> QED
    BY <2>1, OthersFaces DEF WillCountNext
<1> QED
  BY <1>1, <1>2, <1>3, <1>4, FacesWriters

\* Whoever is to count p, or to drop p, goes on, or does it now.
LEMMA WillCountOn ==
    ASSUME BaseInv, [Next]_vars, ~CallFails, NEW p, WillCount(p)
    PROVE  \/ WillCountNext(p)
           \/ \E w \in Workers : SaveCount(w) /\ worker[w].person = p
           \/ \E m \in Mergers : MergePatch(m) /\ merger[m].target = p
           \/ \E m \in Mergers : MergeDrop(m) /\ merger[m].source = p
<1>1. ASSUME NEW w \in Workers, worker[w].pc \in {"face", "index", "count", "patch"}, worker[w].person = p
      PROVE  WillCountNext(p) \/ SaveCount(w)
  BY <1>1, WorkerReaches DEF WillCountNext, Holding, SavePerson, Saving
<1>2. ASSUME NEW m \in Mergers, merger[m].pc # "idle", merger[m].target = p
      PROVE  WillCountNext(p) \/ MergePatch(m)
  <2>1. merger'[m] = merger[m] \/ merger'[m].pc # "idle" \/ MergePatch(m)
    BY <1>2, MergerReaches, MergeListFacts, MergeCountFacts
  <2> QED
    BY <1>2, <2>1, SameMerge DEF WillCountNext
<1>3. ASSUME NEW m \in Mergers, Taking(m), merger[m].source = p
      PROVE  WillCountNext(p) \/ MergeDrop(m)
  BY <1>3, TakesOn DEF WillCountNext
<1> QED
  BY <1>1, <1>2, <1>3 DEF WillCount

\* What the requests to the table of persons do to the counts.
LEMMA PatchedCount ==
    ASSUME BaseInv, NEW p, NEW n, PatchCount(p, n)
    PROVE  /\ DOMAIN persons' = DOMAIN persons
           /\ p \in DOMAIN persons => persons'[p].count = n
           /\ \A q \in DOMAIN persons : q # p => persons'[q] = persons[q]
<1>1. persons \in [DOMAIN persons -> Persons]
  BY DEF BaseInv, TablesTypeOK
<1>2. CASE p \in DOMAIN persons
  <2> DEFINE r == [persons[p] EXCEPT !.count = n]
  <2>1. r.count = n
    BY <1>1, <1>2 DEF Persons
  <2>2. persons' = [persons EXCEPT ![p] = r]
    BY <1>2 DEF PatchCount
  <2> HIDE DEF r
  <2> QED
    BY <1>1, <2>1, <2>2
<1> QED
  BY <1>2 DEF PatchCount

\* who changes the table of persons
LEMMA PersonsWriters ==
    ASSUME BaseInv, [Next]_vars, ~CallFails
    PROVE  \/ persons' = persons
           \/ \E w \in Workers : SavePerson(w) /\ PutPerson(w)
           \/ \E w \in Workers : SaveCount(w) /\ PatchCount(worker[w].person, worker[w].count)
           \/ \E m \in Mergers : MergeDrop(m) /\ persons' = Without(persons, merger[m].source)
           \/ \E m \in Mergers : MergePatch(m) /\ PatchCount(merger[m].target, merger[m].count)
           \/ \E p \in DOMAIN persons, name \in Names : persons' = [persons EXCEPT ![p].name = name]
<1>1. ASSUME NEW w \in Workers, SavePerson(w)
      PROVE  PutPerson(w)
    BY <1>1 DEF SavePerson, Writes
<1>2. ASSUME NEW w \in Workers, SaveCount(w)
      PROVE  PatchCount(worker[w].person, worker[w].count)
    BY <1>2 DEF SaveCount, Writes
<1>3. ASSUME NEW m \in Mergers, MergeDrop(m)
      PROVE  persons' = Without(persons, merger[m].source)
    BY <1>3 DEF MergeDrop, Writes
<1>4. ASSUME NEW m \in Mergers, MergePatch(m)
      PROVE  PatchCount(merger[m].target, merger[m].count)
    BY <1>4 DEF MergePatch, Writes
<1>5. SetPersonName =>
        \E p \in DOMAIN persons, name \in Names : persons' = [persons EXCEPT ![p].name = name]
    BY DEF SetPersonName, Writes
<1> QED
  BY <1>1, <1>2, <1>3, <1>4, <1>5
     DEF Next, Step, Reading, SaveFace, SaveRow, SaveIndex, ListForCount, MergeStart,
         MergePeople, MergeList, MergeDelete, MergeInsert, MergeIndex, MergeCount,
         Disrupt, Finished, tableVars, vars

LEMMA CountChanges ==
    ASSUME BaseInv, [Next]_vars, ~CallFails, NEW p \in DOMAIN persons'
    PROVE  \/ p \in DOMAIN persons /\ persons'[p].count = persons[p].count
           \/ WillCountNext(p)
           \/ \E w \in Workers : SaveCount(w) /\ worker[w].person = p
           \/ \E m \in Mergers : MergePatch(m) /\ merger[m].target = p
<1>1. ASSUME NEW w \in Workers, SavePerson(w), PutPerson(w)
      PROVE  (p \in DOMAIN persons /\ persons'[p] = persons[p]) \/ WillCountNext(p)
  <2> DEFINE row == [name |-> NoName, count |-> 0, thumb |-> worker[w].face]
  <2>1. persons' = With(persons, worker[w].person, row)
    BY <1>1 DEF PutPerson
  <2>2. worker'[w].pc = "face" /\ worker'[w].person = worker[w].person
    BY <1>1, GoToFacts DEF SavePerson, Writes, BaseInv
  <2> HIDE DEF row
  <2> QED
    BY <2>1, <2>2 DEF With, WillCountNext
<1>2. ASSUME NEW q \in DOMAIN persons, NEW name \in Names, persons' = [persons EXCEPT ![q].name = name]
      PROVE  p \in DOMAIN persons /\ persons'[p].count = persons[p].count
  BY <1>2 DEF BaseInv, TablesTypeOK, Persons
<1>3. ASSUME NEW m \in Mergers, persons' = Without(persons, merger[m].source)
      PROVE  p \in DOMAIN persons /\ persons'[p] = persons[p]
  BY <1>3 DEF Without
<1> QED
  BY <1>1, <1>2, <1>3, PatchedCount, PersonsWriters

LEMMA CountsInit ==
    ASSUME Init
    PROVE  CountsInv
BY InitFound DEF CountsInv, TablesFound

\* Who recounts p and is not raced writes the number of p's faces.
LEMMA CountWritten ==
    ASSUME BaseInv, CountsInv, faults = MaxFaults, ~CallFails, NEW p \in DOMAIN persons \ raced,
           \/ \E w \in Workers : SaveCount(w) /\ worker[w].person = p
           \/ \E m \in Mergers : MergePatch(m) /\ merger[m].target = p
    PROVE  persons'[p].count = Cardinality(FacesOf(p)) /\ faces' = faces
<1>0. p \in Nat
  BY DEF BaseInv, TablesTypeOK, Seen, WorkerInv, WorkerTypeOK
<1>1. ASSUME NEW w \in Workers, SaveCount(w), worker[w].person = p
      PROVE  persons'[p].count = Cardinality(FacesOf(p)) /\ faces' = faces
  <2>1. PatchCount(p, worker[w].count) /\ worker[w].pc = "patch" /\ faces' = faces
    BY <1>1 DEF SaveCount, Saving, Writes
  <2> QED
    BY <1>0, <1>1, <2>1, PatchedCount DEF CountsInv
<1>2. ASSUME NEW m \in Mergers, MergePatch(m), merger[m].target = p
      PROVE  persons'[p].count = Cardinality(FacesOf(p)) /\ faces' = faces
  <2>1. PatchCount(p, merger[m].count) /\ merger[m].pc = "patch" /\ faces' = faces
    BY <1>2 DEF MergePatch, Merging, Writes
  <2> QED
    BY <1>0, <1>2, <2>1, PatchedCount DEF CountsInv
<1> QED
  BY <1>1, <1>2

\* While a recount of p is on, p's faces stay or p is noted as raced.
LEMMA RecountOn ==
    ASSUME BaseInv, [Next]_vars, NEW p \in Seen, p \notin raced', Counting(p)
    PROVE  FacesOf(p)' = FacesOf(p)
BY RacedFacts DEF Next, vars, FacesOf

LEMMA CountsNext ==
    ASSUME BaseInv, CountsInv, [Next]_vars
    PROVE  CountsInv'
<1> SUFFICES ASSUME faults' = MaxFaults
             PROVE  /\ \A p \in DOMAIN persons' \ raced' :
                         persons'[p].count = Cardinality(FacesOf(p)') \/ WillCountNext(p)
                    /\ \A p \in Nat \ raced' :
                         /\ \A w \in Workers : worker'[w].pc = "patch" /\ worker'[w].person = p =>
                              worker'[w].count = Cardinality(FacesOf(p)')
                         /\ \A m \in Mergers : merger'[m].pc = "patch" /\ merger'[m].target = p =>
                              merger'[m].count = Cardinality(FacesOf(p)')
  BY DEF CountsInv, WillCount, WillCountNext, Taking
<1>1. faults = MaxFaults /\ faults' = faults /\ ~CallFails
  BY NothingFails
<1>2. raced \subseteq raced'
  BY RacedFacts DEF Next, vars
<1>3. ASSUME NEW p \in DOMAIN persons' \ raced'
      PROVE  persons'[p].count = Cardinality(FacesOf(p)') \/ WillCountNext(p)
  <2>1. CASE \/ \E w \in Workers : SaveCount(w) /\ worker[w].person = p
             \/ \E m \in Mergers : MergePatch(m) /\ merger[m].target = p
    <3>1. p \in DOMAIN persons
      <4>1. ASSUME NEW q, NEW n, PatchCount(q, n)
            PROVE  p \in DOMAIN persons
        BY <4>1, PatchedCount
      <4> QED
        BY <1>1, <2>1, <4>1 DEF SaveCount, MergePatch, Writes
    <3>2. persons'[p].count = Cardinality(FacesOf(p)) /\ faces' = faces
      BY <1>1, <1>2, <2>1, <3>1, CountWritten
    <3> QED
      BY <3>2 DEF FacesOf
  <2>2. CASE p \in DOMAIN persons /\ persons'[p].count = persons[p].count
    <3>1. CASE WillCount(p)
      <4>1. ~ \E m \in Mergers : MergeDrop(m) /\ merger[m].source = p
        BY <1>1 DEF MergeDrop, Writes, Without
      <4> QED
        BY <1>1, <2>1, <3>1, <4>1, WillCountOn
    <3>2. CASE persons[p].count = Cardinality(FacesOf(p))
      BY <1>1, <2>2, <3>2, FacesOfChanges
    <3> QED
      BY <1>1, <1>2, <2>2, <3>1, <3>2 DEF CountsInv
  <2> QED
    BY <1>1, <2>1, <2>2, CountChanges
<1>4. ASSUME NEW p \in Nat \ raced', NEW w \in Workers, worker'[w].pc = "patch", worker'[w].person = p
      PROVE  worker'[w].count = Cardinality(FacesOf(p)')
  <2>1. CASE worker'[w] = worker[w]
    <3>1. p \in Seen /\ Counting(p)
      BY <1>4, <2>1, HoldingFacts DEF Holding, Counting
    <3> QED
      BY <1>1, <1>2, <1>4, <2>1, <3>1, RecountOn DEF CountsInv
  <2>2. CASE ListForCount(w)
    <3>1. faces' = faces
      BY <2>2 DEF ListForCount, tableVars
    <3>2. worker'[w].count = Cardinality(FacesOf(p))
      BY <1>1, <1>4, <2>2, ListForCountFacts
    <3> QED
      BY <3>1, <3>2 DEF FacesOf
  <2> QED
    BY <1>1, <1>4, <2>1, <2>2, WorkerReaches
<1>5. ASSUME NEW p \in Nat \ raced', NEW m \in Mergers, merger'[m].pc = "patch", merger'[m].target = p
      PROVE  merger'[m].count = Cardinality(FacesOf(p)')
  <2>1. CASE merger'[m] = merger[m]
    <3>1. p \in Seen /\ Counting(p)
      BY <1>5, <2>1 DEF Counting, BaseInv, MergersOK, Known, TablesTypeOK
    <3> QED
      BY <1>1, <1>2, <1>5, <2>1, <3>1, RecountOn DEF CountsInv
  <2>2. CASE MergeCount(m)
    <3>1. faces' = faces
      BY <2>2 DEF MergeCount, tableVars
    <3>2. merger'[m].count = Cardinality(FacesOf(p))
      BY <1>1, <1>5, <2>2, MergeCountFacts
    <3> QED
      BY <3>1, <3>2 DEF FacesOf
  <2> QED
    BY <1>1, <1>5, <2>1, <2>2, MergerReaches
<1> QED
  BY <1>3, <1>4, <1>5

\* When nothing is under way and nothing has failed, the count of a person is
\* the number of its faces, unless a recount was overtaken between its two
\* requests (tablestore.go:375-396).
THEOREM CountsUnlessRaced == Spec => []CountsMatchUnlessRaced
<1>1. ASSUME BaseInv, CountsInv
      PROVE  CountsMatchUnlessRaced
  BY <1>1 DEF CountsInv, CountsMatchUnlessRaced, WillCount, AllQuiet, Quiet, Taking
<1> QED
  BY <1>1, TableInvariant, CountsInit, CountsNext, PTL DEF Spec

-----------------------------------------------------------------------------
(* Nobody is left without faces.                                           *)

LEMMA PeopleInit ==
    ASSUME Init
    PROVE  PeopleInv
BY InitFound DEF PeopleInv, TablesFound

LEMMA PeopleNext ==
    ASSUME BaseInv, PeopleInv, [Next]_vars
    PROVE  PeopleInv'
<1> DEFINE Kept(p) == \/ FacesOf(p)' # {}
                      \/ \E w \in Workers : worker'[w].pc = "face" /\ worker'[w].person = p
                      \/ \E m \in Mergers : Taking(m)' /\ merger'[m].source = p
<1> SUFFICES ASSUME faults' = MaxFaults, NEW p \in DOMAIN persons'
             PROVE  Kept(p)
  BY DEF PeopleInv, Taking
<1>1. faults = MaxFaults /\ faults' = faults /\ ~CallFails
  BY NothingFails
<1>2. ASSUME NEW w \in Workers, SavePerson(w), worker[w].person = p
      PROVE  Kept(p)
  BY <1>1, <1>2, GoToFacts DEF SavePerson, Writes, BaseInv
<1>3. ASSUME NEW m \in Mergers, Taking(m), merger[m].source = p
      PROVE  Kept(p)
  <2>1. ~MergeDrop(m)
    BY <1>1, <1>3 DEF MergeDrop, Writes, Without
  <2> QED
    BY <1>1, <1>3, <2>1, TakesOn
<1>4. ASSUME NEW w \in Workers, worker[w].pc = "face", worker[w].person = p
      PROVE  Kept(p)
  <2>1. CASE SaveRow(w)
    <3> DEFINE key == <<worker[w].person, worker[w].face>>
    <3>1. key \in DOMAIN faces' /\ key[1] = p
      BY <1>1, <1>4, <2>1, SaveRowFacts
    <3> QED
      BY <3>1 DEF FacesOf
  <2>2. CASE worker'[w] = worker[w]
    BY <1>4, <2>2
  <2> QED
    BY <1>1, <1>4, <2>1, <2>2, WorkerReaches DEF Holding, SavePerson, Saving
<1>5. ASSUME FacesOf(p) # {}
      PROVE  Kept(p)
  <2>1. PICK k \in DOMAIN faces : k[1] = p
    BY <1>5 DEF FacesOf
  <2>2. CASE k \in DOMAIN faces'
    BY <2>1, <2>2 DEF FacesOf
  <2>3. ASSUME NEW m \in Mergers, MergeDelete(m), k \notin DOMAIN faces'
        PROVE  Kept(p)
    <3>1. k = <<merger[m].source, merger[m].moving.face>> /\ merger[m].pc = "delete"
      BY <2>3, MergeDeleteFacts
    <3> QED
      BY <1>3, <2>1, <3>1 DEF Taking
  <2> QED
    BY <2>2, <2>3, SaveRowFacts, MergeInsertFacts, FacesWriters
<1>6. CASE p \in DOMAIN persons
  BY <1>1, <1>3, <1>4, <1>5, <1>6 DEF PeopleInv
<1>7. CASE p \notin DOMAIN persons
  <2>1. ASSUME NEW w \in Workers, SavePerson(w), PutPerson(w)
        PROVE  Kept(p)
    <3> DEFINE row == [name |-> NoName, count |-> 0, thumb |-> worker[w].face]
    <3>1. persons' = With(persons, worker[w].person, row)
      BY <2>1 DEF PutPerson
    <3> HIDE DEF row, Kept
    <3>2. worker[w].person = p
      BY <1>7, <3>1 DEF With
    <3> QED
      BY <1>2, <2>1, <3>2
  <2>2. ASSUME NEW m \in Mergers, persons' = Without(persons, merger[m].source)
        PROVE  FALSE
    BY <1>7, <2>2 DEF Without
  <2> QED
    BY <1>1, <1>7, <2>1, <2>2, PatchedCount, PersonsWriters
<1> QED
  BY <1>6, <1>7

\* When nothing is under way and nothing has failed, every person has a face:
\* those merged away are gone, and a save that brings one back gives it a face
\* (tablestore.go:91-128, 257-258).
THEOREM NobodyLeftEmpty == Spec => []NobodyEmpty
<1>1. ASSUME BaseInv, PeopleInv
      PROVE  NobodyEmpty
  BY <1>1 DEF PeopleInv, NobodyEmpty, AllQuiet, Quiet, Taking
<1> QED
  BY <1>1, TableInvariant, PeopleInit, PeopleNext, PTL DEF Spec
==============================================================================
