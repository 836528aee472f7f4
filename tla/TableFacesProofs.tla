--------------------------- MODULE TableFacesProofs ---------------------------
(***************************************************************************)
(* The face store on Azure tables, for any photos, faces, replicas,        *)
(* connections and failures: the types of its tables, and that every face  *)
(* keeps a person.  TableMergesProofs builds on it.                        *)
(***************************************************************************)
EXTENDS TableFaces, FaceWorkersProofs, FiniteSetTheorems

\* the listed faces a merge is still to move, the one at hand too
InHand(m) == merger[m].todo \cup ({merger[m].moving} \ {None})

TablesTypeOK ==
    /\ DOMAIN persons \subseteq Seen
    /\ DOMAIN faces \subseteq Nat \X (0..(nextFace - 1))
    /\ DOMAIN photofaces \subseteq PhotoRefs \X (0..(nextFace - 1))
    /\ persons \in [DOMAIN persons -> Persons]
    /\ faces \in [DOMAIN faces -> FaceRow]
    /\ photofaces \in [DOMAIN photofaces -> Nat]
    /\ DOMAIN merged \subseteq Seen
    /\ merged \in [DOMAIN merged -> Nat \ {0}]
    /\ raced \subseteq Nat

MergersOK ==
    /\ merger \in [Mergers -> MergeState]
    /\ \A m \in Mergers :
         /\ merger[m].pc \in {"delete", "insert", "index"} => merger[m].moving # None
         /\ \A l \in InHand(m) : l.face < nextFace
         /\ merger[m].pc # "idle" => merger[m].source \in DOMAIN merged /\ merger[m].target \in Known

\* a person faces are saved for or moved to exists, or was to be merged away
PersonsKnown ==
    /\ FacesHavePersons
    /\ \A w \in Workers : Holding(worker[w]) /\ worker[w].pc # "save" => worker[w].person \in Known

\* a face about to be put in the table is not there, nor is it being moved
FreshFaces ==
    \A w \in Workers : worker[w].pc \in {"save", "face"} =>
        /\ \A k \in DOMAIN faces : k[2] # worker[w].face
        /\ \A m \in Mergers : \A l \in InHand(m) : l.face # worker[w].face

\* somebody has that row for that face
Tells(f, row) ==
    \/ \E k \in DOMAIN faces : k[2] = f /\ faces[k] = row
    \/ \E m \in Mergers : \E l \in InHand(m) : l.face = f /\ l.row = row
    \/ \E w \in Workers : /\ Holding(worker[w]) /\ worker[w].face = f
                          /\ row = [photo |-> worker[w].photo, look |-> Look(w)]

\* wherever a face is written down, it is with the same photo and look
OneRowEach ==
    /\ \A f \in 0..(nextFace - 1), r, s \in FaceRow : Tells(f, r) /\ Tells(f, s) => r = s
    /\ \A e \in DOMAIN photofaces, r \in FaceRow : Tells(e[2], r) => r.photo = e[1]

BaseInv == WorkerInv /\ TablesTypeOK /\ MergersOK /\ PersonsKnown /\ FreshFaces /\ OneRowEach

-----------------------------------------------------------------------------
(* What the workers, the merges and the ghosts look like after a step.     *)

LEMMA GoToFacts ==
    ASSUME WorkerInv, NEW w \in Workers, NEW pc, GoTo(w, pc)
    PROVE  /\ \A v \in Workers : v # w => worker'[v] = worker[v]
           /\ worker'[w].pc = pc /\ worker'[w].photo = worker[w].photo /\ worker'[w].nth = worker[w].nth
           /\ worker'[w].person = worker[w].person /\ worker'[w].face = worker[w].face
           /\ worker'[w].count = worker[w].count
BY DEF WorkerInv, WorkerTypeOK, WorkerState, GoTo, Become

LEMMA SaveEndsFacts ==
    ASSUME WorkerInv, NEW w \in Workers, SaveEnds(w)
    PROVE  /\ \A v \in Workers : v # w => worker'[v] = worker[v]
           /\ worker'[w].pc \in {"idle", "match"}
<1>1. worker[w] \in WorkerState /\ worker \in [Workers -> WorkerState]
  BY DEF WorkerInv, WorkerTypeOK
<1>2. PICK s : worker' = [worker EXCEPT ![w] = s] /\ s.pc \in {"idle", "match"}
  <2>1. [worker[w] EXCEPT !.pc = "match", !.nth = worker[w].nth + 1].pc = "match"
    BY <1>1 DEF WorkerState
  <2>2. Resting.pc = "idle"
    BY DEF Resting
  <2>3. \/ worker' = [worker EXCEPT ![w] = Resting]
        \/ worker' = [worker EXCEPT ![w] = [worker[w] EXCEPT !.pc = "match", !.nth = worker[w].nth + 1]]
    BY DEF SaveEnds, Become
  <2> QED
    BY <2>1, <2>2, <2>3
<1> QED
  BY <1>1, <1>2

LEMMA NoMergeFacts ==
    /\ NoMerge \in MergeState /\ NoMerge.pc = "idle" /\ NoMerge.todo = {} /\ NoMerge.moving = None
BY DEF NoMerge, MergeState

LEMMA MergeGoesFacts ==
    ASSUME MergersOK, NEW m \in Mergers, NEW s, MergeGoes(m, s)
    PROVE  \A n \in Mergers : merger'[n] = IF n = m THEN s ELSE merger[n]
BY DEF MergersOK, MergeGoes

LEMMA MergeMovesFacts ==
    ASSUME MergersOK, NEW m \in Mergers, NEW pc, MergeMoves(m, pc)
    PROVE  /\ \A n \in Mergers : n # m => merger'[n] = merger[n]
           /\ merger'[m].pc = pc
           /\ merger'[m].source = merger[m].source /\ merger'[m].target = merger[m].target
           /\ merger'[m].todo = merger[m].todo /\ merger'[m].moving = merger[m].moving
           /\ merger'[m].count = merger[m].count
BY DEF MergersOK, MergeState, MergeMoves, MergeGoes

\* The loop of a merge goes on with a face of todo, or ends.
LEMMA MergeNextFacts ==
    ASSUME MergersOK, NEW m \in Mergers, NEW todo \in SUBSET Listed, MergeNext(m, todo)
    PROVE  /\ \A n \in Mergers : n # m => merger'[n] = merger[n]
           /\ merger' \in [Mergers -> MergeState]
           /\ merger'[m].source = merger[m].source /\ merger'[m].target = merger[m].target
           /\ \/ merger'[m].pc = "drop" /\ merger'[m].todo = {} /\ merger'[m].moving = None
              \/ /\ merger'[m].pc = "delete" /\ merger'[m].moving \in todo
                 /\ merger'[m].todo = todo \ {merger'[m].moving}
<1>1. merger[m] \in MergeState /\ merger \in [Mergers -> MergeState]
  BY DEF MergersOK
<1>2. CASE todo = {}
  <2> DEFINE s == [merger[m] EXCEPT !.pc = "drop", !.todo = {}, !.moving = None]
  <2>1. /\ s \in MergeState /\ s.pc = "drop" /\ s.todo = {} /\ s.moving = None
        /\ s.source = merger[m].source /\ s.target = merger[m].target
    BY <1>1 DEF MergeState
  <2>2. merger' = [merger EXCEPT ![m] = s]
    BY <1>2 DEF MergeNext, MergeGoes
  <2> HIDE DEF s
  <2> QED
    BY <1>1, <2>1, <2>2
<1>3. CASE todo # {}
  <2>1. PICK l \in todo : MergeGoes(m, [merger[m] EXCEPT !.pc = "delete", !.todo = todo \ {l}, !.moving = l])
    BY <1>3 DEF MergeNext
  <2> DEFINE s == [merger[m] EXCEPT !.pc = "delete", !.todo = todo \ {l}, !.moving = l]
  <2>2. /\ s \in MergeState /\ s.pc = "delete" /\ s.todo = todo \ {l} /\ s.moving = l
        /\ s.source = merger[m].source /\ s.target = merger[m].target
    BY <1>1 DEF MergeState
  <2>3. merger' = [merger EXCEPT ![m] = s]
    BY <2>1 DEF MergeGoes
  <2> HIDE DEF s
  <2> QED
    BY <1>1, <2>2, <2>3
<1> QED
  BY <1>2, <1>3

LEMMA ListedFacts ==
    ASSUME MergersOK, NEW m \in Mergers, NEW l \in InHand(m)
    PROVE  l \in Listed /\ l.face \in Nat /\ l.row \in FaceRow /\ l = [face |-> l.face, row |-> l.row]
BY DEF MergersOK, MergeState, InHand, Listed

\* A merge moves a face that is in its hand.
LEMMA MovingFacts ==
    ASSUME MergersOK, NEW m \in Mergers, merger[m].pc \in {"delete", "insert", "index"}
    PROVE  /\ merger[m].moving \in InHand(m) /\ merger[m].moving \in Listed
           /\ merger[m].moving.face \in Nat /\ merger[m].moving.face < nextFace
           /\ merger[m].moving.row \in FaceRow
<1>1. merger[m].moving \in InHand(m)
  BY DEF MergersOK, InHand
<1> QED
  BY <1>1, ListedFacts DEF MergersOK

LEMMA FacesFinite ==
    ASSUME BaseInv, NEW p
    PROVE  IsFiniteSet(FacesOf(p)) /\ Cardinality(FacesOf(p)) \in Nat
<1>1. nextFace \in Nat
  BY DEF BaseInv, WorkerInv, WorkerTypeOK
<1>2. FacesOf(p) \subseteq 0..(nextFace - 1)
  BY DEF FacesOf, BaseInv, TablesTypeOK
<1>3. IsFiniteSet(0..(nextFace - 1))
  BY <1>1, FS_Interval
<1> QED
  BY <1>2, <1>3, FS_Subset, FS_CardinalityType

LEMMA RacedFacts ==
    ASSUME BaseInv, Observed
    PROVE  /\ raced \subseteq raced' /\ raced' \subseteq Nat
           /\ \A p \in Seen : Counting(p) /\ (FacesOf(p))' # FacesOf(p) => p \in raced'
BY DEF Observed, BaseInv, TablesTypeOK, WorkerInv, WorkerTypeOK, Seen

\* Nobody starts a merge.
LEMMA MergedStays ==
    ASSUME Observed, \A m \in Mergers : merger[m].pc = "idle" => merger'[m].pc # "list"
    PROVE  merged' = merged
BY DEF Observed

-----------------------------------------------------------------------------
(* What a step has to leave alone for the invariant to stay.               *)

\* A worker keeps the face it holds, or gives it up.
SameFace(w) ==
    Holding(worker'[w]) => /\ Holding(worker[w])
                           /\ worker'[w].face = worker[w].face /\ worker'[w].photo = worker[w].photo
                           /\ worker'[w].nth = worker[w].nth /\ worker'[w].person = worker[w].person
                           /\ worker'[w].pc \in {"save", "face"} => worker[w].pc \in {"save", "face"}

\* A row is as it was, or put there by a merge or a worker.
RowAccounted(k) ==
    \/ k \in DOMAIN faces /\ faces'[k] = faces[k]
    \/ /\ k[1] \in Known
       /\ \E m \in Mergers : \E l \in InHand(m) : l.face = k[2] /\ l.row = faces'[k]
    \/ /\ k[1] \in Known
       /\ \E w \in Workers : /\ worker[w].pc = "face" /\ worker'[w].pc \notin {"save", "face"}
                             /\ worker[w].face = k[2]
                             /\ faces'[k] = [photo |-> worker[w].photo, look |-> Look(w)]

LEMMA KnownStays ==
    ASSUME DOMAIN persons \subseteq DOMAIN persons' \cup DOMAIN merged', DOMAIN merged \subseteq DOMAIN merged'
    PROVE  Known \subseteq Known'
BY DEF Known

LEMMA LookStays ==
    ASSUME NEW w \in Workers, SameFace(w), Holding(worker'[w])
    PROVE  Look(w)' = Look(w)
BY DEF SameFace, Look

LEMMA KeepBase ==
    ASSUME BaseInv, WorkerInv', TablesTypeOK', MergersOK', nextFace' = nextFace, Known \subseteq Known',
           \A k \in DOMAIN faces' : RowAccounted(k),
           \A m \in Mergers : \A l \in InHand(m)' :
             l \in InHand(m) \/ (\E k \in DOMAIN faces : l.face = k[2] /\ l.row = faces[k]),
           \A w \in Workers : SameFace(w),
           \A w \in Workers : worker'[w].pc \in {"face", "index", "count", "patch"} =>
             worker'[w].person \in Known',
           \A e \in DOMAIN photofaces' :
             \/ e \in DOMAIN photofaces
             \/ \E w \in Workers : Holding(worker[w]) /\ e = <<worker[w].photo, worker[w].face>>
    PROVE  BaseInv'
<1>1. PersonsKnown'
  <2>1. \A k \in DOMAIN faces' : k[1] \in Known'
    <3> TAKE k \in DOMAIN faces'
    <3>1. RowAccounted(k)
      OBVIOUS
    <3> QED
      BY <3>1 DEF RowAccounted, BaseInv, PersonsKnown, FacesHavePersons, Known
  <2>2. \A w \in Workers : Holding(worker'[w]) /\ worker'[w].pc # "save" => worker'[w].person \in Known'
    BY DEF Holding
  <2> QED
    BY <2>1, <2>2 DEF PersonsKnown, FacesHavePersons, Known, Holding
<1>2. FreshFaces'
  <2> SUFFICES ASSUME NEW w \in Workers, worker'[w].pc \in {"save", "face"}
               PROVE  /\ \A k \in DOMAIN faces' : k[2] # worker'[w].face
                      /\ \A m \in Mergers : \A l \in InHand(m)' : l.face # worker'[w].face
    BY DEF FreshFaces, InHand
  <2>1. Holding(worker'[w])
    BY DEF Holding
  <2>2. worker[w].pc \in {"save", "face"} /\ worker'[w].face = worker[w].face /\ Holding(worker[w])
    BY <2>1 DEF SameFace
  <2>3. /\ \A k \in DOMAIN faces : k[2] # worker[w].face
        /\ \A m \in Mergers : \A l \in InHand(m) : l.face # worker[w].face
    BY <2>2 DEF BaseInv, FreshFaces
  <2>4. \A v \in Workers : v # w /\ Holding(worker[v]) => worker[v].face # worker[w].face
    BY <2>2 DEF BaseInv, WorkerInv, IdsHandedOut
  <2>5. ASSUME NEW k \in DOMAIN faces'
        PROVE  k[2] # worker'[w].face
    <3>1. RowAccounted(k)
      OBVIOUS
    <3> QED
      BY <2>2, <2>3, <2>4, <3>1 DEF RowAccounted, Holding
  <2>6. ASSUME NEW m \in Mergers, NEW l \in InHand(m)'
        PROVE  l.face # worker'[w].face
    BY <2>2, <2>3
  <2> QED
    BY <2>5, <2>6
<1>3. ASSUME NEW f, NEW row, Tells(f, row)'
      PROVE  Tells(f, row)
  <2>1. ASSUME NEW k \in DOMAIN faces', k[2] = f, faces'[k] = row
        PROVE  Tells(f, row)
    <3>1. RowAccounted(k)
      OBVIOUS
    <3> QED
      BY <2>1, <3>1 DEF RowAccounted, Tells, Holding
  <2>2. ASSUME NEW m \in Mergers, NEW l \in InHand(m)', l.face = f, l.row = row
        PROVE  Tells(f, row)
    BY <2>2 DEF Tells
  <2>3. ASSUME NEW w \in Workers, Holding(worker'[w]), worker'[w].face = f,
               row = [photo |-> worker'[w].photo, look |-> Look(w)']
        PROVE  Tells(f, row)
    <3>1. SameFace(w) /\ Look(w)' = Look(w)
      BY <2>3, LookStays
    <3> QED
      BY <2>3, <3>1 DEF SameFace, Tells
  <2> QED
    BY <1>3, <2>1, <2>2, <2>3 DEF Tells, InHand, Holding, Look
<1>4. OneRowEach'
  <2>1. \A f \in 0..(nextFace - 1), r, s \in FaceRow : Tells(f, r)' /\ Tells(f, s)' => r = s
    BY <1>3 DEF BaseInv, OneRowEach
  <2>2. ASSUME NEW e \in DOMAIN photofaces', NEW r \in FaceRow, Tells(e[2], r)'
        PROVE  r.photo = e[1]
    <3>1. Tells(e[2], r)
      BY <1>3, <2>2
    <3>2. CASE e \in DOMAIN photofaces
      BY <3>1, <3>2 DEF BaseInv, OneRowEach
    <3>3. ASSUME NEW w \in Workers, Holding(worker[w]), e = <<worker[w].photo, worker[w].face>>
          PROVE  r.photo = e[1]
      <4> DEFINE s == [photo |-> worker[w].photo, look |-> Look(w)]
      <4>1. s \in FaceRow /\ Tells(e[2], s)
        BY <3>3, LookType DEF BaseInv, FaceRow, Tells
      <4>2. e[2] \in 0..(nextFace - 1)
        BY DEF TablesTypeOK
      <4> HIDE DEF s
      <4>3. r = s
        BY <3>1, <4>1, <4>2 DEF BaseInv, OneRowEach
      <4> QED
        BY <3>3, <4>3 DEF s
    <3> QED
      BY <3>2, <3>3
  <2> QED
    BY <2>1, <2>2 DEF OneRowEach
<1> QED
  BY <1>1, <1>2, <1>4 DEF BaseInv

-----------------------------------------------------------------------------
(* SaveFace.                                                               *)

LEMMA MergersStay ==
    ASSUME BaseInv, UNCHANGED <<merger, merged>>, nextFace \in Nat, nextFace' \in Nat,
           nextFace <= nextFace', Known \subseteq Known'
    PROVE  MergersOK'
<1>1. \A m \in Mergers : \A l \in InHand(m) : l.face \in Nat
  BY ListedFacts DEF BaseInv
<1> QED
  BY <1>1 DEF BaseInv, MergersOK, InHand

\* One of the requests of SaveFace, whether it works or not.
LEMMA SavingFacts ==
    ASSUME BaseInv, NEW w \in Workers, NEW pc \in {"face", "index", "count"},
           Holding(worker[w]), pc = "face" => worker[w].pc = "save",
           GoTo(w, pc) \/ SaveEnds(w), UNCHANGED <<queue, cron, nextPerson, nextFace, calls, merger>>,
           CallWorks \/ CallFails
    PROVE  /\ WorkerInv'
           /\ \A v \in Workers : SameFace(v)
           /\ \A v \in Workers : v # w => worker'[v] = worker[v]
           /\ worker'[w].pc \in {pc, "idle", "match"}
           /\ nextFace \in Nat /\ nextFace' = nextFace /\ nextPerson' = nextPerson
<1>1. WorkerInv /\ faults' \in 0..MaxFaults
  BY FaultsType DEF BaseInv
<1>2. nextFace \in Nat
  BY <1>1 DEF WorkerInv, WorkerTypeOK
<1>3. CASE GoTo(w, pc)
  BY <1>1, <1>2, <1>3, GoToWell, GoToFacts DEF SameFace, Holding
<1>4. CASE SaveEnds(w)
  BY <1>1, <1>2, <1>4, SaveEndsWell, SaveEndsFacts DEF SameFace, Holding
<1> QED
  BY <1>3, <1>4

\* what the worker puts in the table
LEMMA HoldingFacts ==
    ASSUME BaseInv, NEW w \in Workers, Holding(worker[w])
    PROVE  /\ worker[w].face \in 0..(nextFace - 1) /\ worker[w].person \in Seen
           /\ worker[w].face \in Nat /\ worker[w].person \in Nat /\ worker[w].photo \in PhotoRefs
           /\ [photo |-> worker[w].photo, look |-> Look(w)] \in FaceRow
<1>1. /\ worker[w] \in WorkerState /\ nextFace \in Nat /\ nextPerson \in Nat
      /\ worker[w].face < nextFace /\ worker[w].person < nextPerson
  BY DEF BaseInv, WorkerInv, WorkerTypeOK, IdsHandedOut
<1>2. worker[w].photo \in PhotoRefs /\ Look(w) \in Looks
  BY LookType DEF BaseInv
<1> QED
  BY <1>1, <1>2 DEF WorkerState, Seen, FaceRow

LEMMA SavePersonBase ==
    ASSUME BaseInv, NEW w \in Workers, SavePerson(w), merged' = merged, raced' \subseteq Nat
    PROVE  BaseInv'
<1>0. Holding(worker[w])
  BY DEF SavePerson, Saving, Holding
<1>1. /\ WorkerInv'
      /\ \A v \in Workers : SameFace(v)
      /\ \A v \in Workers : v # w => worker'[v] = worker[v]
      /\ worker'[w].pc \in {"face", "idle", "match"}
      /\ nextFace \in Nat /\ nextFace' = nextFace /\ nextPerson' = nextPerson
  BY <1>0, SavingFacts DEF SavePerson, Saving, Writes
<1>2. UNCHANGED <<faces, photofaces, merger>>
  BY DEF SavePerson, Saving
<1>3. /\ DOMAIN persons \subseteq DOMAIN persons' /\ DOMAIN persons' \subseteq Seen
      /\ persons' \in [DOMAIN persons' -> Persons]
      /\ worker'[w].pc = "face" => worker[w].person \in DOMAIN persons'
  <2> DEFINE row == [name |-> NoName, count |-> 0, thumb |-> worker[w].face]
  <2>1. row \in Persons
    BY <1>0, HoldingFacts DEF Persons
  <2>2. \/ persons' = With(persons, worker[w].person, row)
        \/ persons' = persons /\ SaveEnds(w)
    BY DEF SavePerson, Writes, PutPerson
  <2> HIDE DEF row
  <2>3. CASE persons' = With(persons, worker[w].person, row)
    <3>1. /\ DOMAIN persons' = DOMAIN persons \cup {worker[w].person}
          /\ persons' \in [DOMAIN persons' -> Persons]
      BY <2>1, <2>3 DEF With, BaseInv, TablesTypeOK
    <3> QED
      BY <1>0, <2>1, <3>1, HoldingFacts DEF BaseInv, TablesTypeOK
  <2>4. CASE persons' = persons /\ SaveEnds(w)
    BY <2>4, SaveEndsFacts DEF BaseInv, TablesTypeOK
  <2> QED
    BY <2>2, <2>3, <2>4
<1>4. Known \subseteq Known'
  BY <1>3 DEF Known
<1>5. TablesTypeOK'
  BY <1>1, <1>2, <1>3 DEF BaseInv, TablesTypeOK, Seen
<1>6. MergersOK'
  BY <1>1, <1>2, <1>4, MergersStay
<1>7. \A v \in Workers : worker'[v].pc \in {"face", "index", "count", "patch"} => worker'[v].person \in Known'
  <2> SUFFICES ASSUME NEW v \in Workers, worker'[v].pc \in {"face", "index", "count", "patch"}
               PROVE  worker'[v].person \in Known'
    OBVIOUS
  <2>1. CASE v = w
    BY <1>1, <1>3, <2>1 DEF SameFace, Holding, Known
  <2>2. CASE v # w
    BY <1>1, <1>4, <2>2 DEF BaseInv, PersonsKnown, Holding
  <2> QED
    BY <2>1, <2>2
<1> QED
  BY <1>1, <1>2, <1>4, <1>5, <1>6, <1>7, KeepBase DEF RowAccounted, InHand

LEMMA SaveRowBase ==
    ASSUME BaseInv, NEW w \in Workers, SaveRow(w), merged' = merged, raced' \subseteq Nat
    PROVE  BaseInv'
<1> DEFINE row == [photo |-> worker[w].photo, look |-> Look(w)]
           k == <<worker[w].person, worker[w].face>>
<1>0. Holding(worker[w]) /\ worker[w].pc = "face"
  BY DEF SaveRow, Saving, Holding
<1>1. /\ WorkerInv'
      /\ \A v \in Workers : SameFace(v)
      /\ \A v \in Workers : v # w => worker'[v] = worker[v]
      /\ worker'[w].pc \in {"index", "idle", "match"}
      /\ nextFace \in Nat /\ nextFace' = nextFace /\ nextPerson' = nextPerson
  BY <1>0, SavingFacts DEF SaveRow, Saving, Writes
<1>2. UNCHANGED <<persons, photofaces, merger>> /\ Known' = Known
  BY DEF SaveRow, Saving, Known
<1>3. worker[w].person \in Known
  BY <1>0 DEF BaseInv, PersonsKnown
<1>4. faces' = With(faces, k, row) \/ faces' = faces
  BY DEF SaveRow, Writes, PutFace
<1>5. row \in FaceRow /\ k \in Nat \X (0..(nextFace - 1)) /\ k[1] = worker[w].person /\ k[2] = worker[w].face
  BY <1>0, HoldingFacts
<1>6. \/ /\ DOMAIN faces' = DOMAIN faces \cup {k} /\ faces'[k] = row
         /\ \A l \in DOMAIN faces : l # k => faces'[l] = faces[l]
         /\ faces' \in [DOMAIN faces' -> FaceRow]
      \/ faces' = faces
  <2> HIDE DEF row, k
  <2> QED
    BY <1>4, <1>5 DEF With, BaseInv, TablesTypeOK
<1>7. ASSUME NEW l \in DOMAIN faces'
      PROVE  RowAccounted(l)
  <2>1. (l \in DOMAIN faces /\ faces'[l] = faces[l]) \/ (l = k /\ faces'[l] = row)
    <3> HIDE DEF row, k
    <3> QED
      BY <1>6
  <2> QED
    BY <1>0, <1>1, <1>3, <2>1 DEF RowAccounted
<1> HIDE DEF row, k
<1>10. TablesTypeOK'
  BY <1>1, <1>2, <1>5, <1>6 DEF BaseInv, TablesTypeOK, Seen
<1>8. MergersOK'
  BY <1>1, <1>2, MergersStay
<1>9. \A v \in Workers : worker'[v].pc \in {"face", "index", "count", "patch"} => worker'[v].person \in Known'
  BY <1>0, <1>1, <1>2 DEF BaseInv, PersonsKnown, Holding, SameFace
<1> QED
  BY <1>1, <1>2, <1>7, <1>8, <1>9, <1>10, KeepBase DEF InHand

LEMMA SaveIndexBase ==
    ASSUME BaseInv, NEW w \in Workers, SaveIndex(w), merged' = merged, raced' \subseteq Nat
    PROVE  BaseInv'
<1> DEFINE e == <<worker[w].photo, worker[w].face>>
<1>0. Holding(worker[w]) /\ worker[w].pc = "index"
  BY DEF SaveIndex, Saving, Holding
<1>1. /\ WorkerInv'
      /\ \A v \in Workers : SameFace(v)
      /\ \A v \in Workers : v # w => worker'[v] = worker[v]
      /\ worker'[w].pc \in {"count", "idle", "match"}
      /\ nextFace \in Nat /\ nextFace' = nextFace /\ nextPerson' = nextPerson
  BY <1>0, SavingFacts DEF SaveIndex, Saving, Writes
<1>2. UNCHANGED <<persons, faces, merger>> /\ Known' = Known
  BY DEF SaveIndex, Saving, Known
<1>3. photofaces' = With(photofaces, e, worker[w].person) \/ photofaces' = photofaces
  BY DEF SaveIndex, Writes, PutIndex
<1>4. e \in PhotoRefs \X (0..(nextFace - 1)) /\ worker[w].person \in Nat
  BY <1>0, HoldingFacts
<1>5. /\ DOMAIN photofaces' \subseteq DOMAIN photofaces \cup {e}
      /\ photofaces' \in [DOMAIN photofaces' -> Nat]
  <2> HIDE DEF e
  <2> QED
    BY <1>3, <1>4 DEF With, BaseInv, TablesTypeOK
<1>6. \A d \in DOMAIN photofaces' :
        \/ d \in DOMAIN photofaces
        \/ \E v \in Workers : Holding(worker[v]) /\ d = <<worker[v].photo, worker[v].face>>
  BY <1>0, <1>5
<1> HIDE DEF e
<1>7. TablesTypeOK'
  BY <1>1, <1>2, <1>4, <1>5 DEF BaseInv, TablesTypeOK, Seen
<1>8. MergersOK'
  BY <1>1, <1>2, MergersStay
<1>9. \A v \in Workers : worker'[v].pc \in {"face", "index", "count", "patch"} => worker'[v].person \in Known'
  BY <1>0, <1>1, <1>2 DEF BaseInv, PersonsKnown, Holding, SameFace
<1> QED
  BY <1>1, <1>2, <1>6, <1>7, <1>8, <1>9, KeepBase DEF RowAccounted, InHand

\* A step that leaves the tables and the merges alone.
LEMMA TablesUntouched ==
    ASSUME BaseInv, WorkerInv', UNCHANGED <<faces, photofaces, merger, merged>>, raced' \subseteq Nat,
           DOMAIN persons' = DOMAIN persons, persons' \in [DOMAIN persons' -> Persons],
           nextFace' = nextFace, nextPerson' = nextPerson, \A v \in Workers : SameFace(v),
           \A v \in Workers : worker'[v].pc \in {"face", "index", "count", "patch"} =>
             worker[v].pc \in {"face", "index", "count", "patch"}
    PROVE  BaseInv'
<1>1. Known' = Known /\ nextFace \in Nat
  BY DEF Known, BaseInv, WorkerInv, WorkerTypeOK
<1>2. TablesTypeOK'
  BY DEF BaseInv, TablesTypeOK, Seen
<1>3. MergersOK'
  BY <1>1, MergersStay
<1>4. \A v \in Workers : worker'[v].pc \in {"face", "index", "count", "patch"} => worker'[v].person \in Known'
  BY <1>1 DEF BaseInv, PersonsKnown, Holding, SameFace
<1> QED
  BY <1>1, <1>2, <1>3, <1>4, KeepBase DEF RowAccounted, InHand

LEMMA ListForCountFacts ==
    ASSUME BaseInv, NEW w \in Workers, ListForCount(w)
    PROVE  /\ WorkerInv'
           /\ \A v \in Workers : SameFace(v)
           /\ \A v \in Workers : v # w => worker'[v] = worker[v]
           /\ \/ /\ faults' = faults
                 /\ worker'[w].pc = "patch" /\ worker'[w].person = worker[w].person
                 /\ worker'[w].count = Cardinality(FacesOf(worker[w].person))
              \/ CallFails /\ worker'[w].pc \in {"idle", "match"}
<1> DEFINE n == Cardinality(FacesOf(worker[w].person))
           s == [worker[w] EXCEPT !.pc = "patch", !.count = n]
<1>1. WorkerInv /\ Holding(worker[w]) /\ worker[w] \in WorkerState /\ n \in Nat
  BY FacesFinite DEF ListForCount, Saving, Holding, BaseInv, WorkerInv, WorkerTypeOK
<1>2. UNCHANGED <<queue, cron, nextPerson, nextFace, calls>> /\ faults' \in 0..MaxFaults
      /\ queue \in [PhotoRefs -> Nat]
  BY <1>1, FaultsType DEF ListForCount, Saving, WorkerInv, WorkerTypeOK
<1>3. CASE CallWorks /\ Become(w, s)
  <2> HIDE DEF n
  <2>1. /\ s \in WorkerState /\ s.pc = "patch" /\ s.count = n /\ s.nth = worker[w].nth
        /\ s.person = worker[w].person /\ s.face = worker[w].face /\ s.photo = worker[w].photo
    BY <1>1 DEF WorkerState
  <2> HIDE DEF s
  <2>2. AtWork(s) /\ Holding(s)
    BY <1>1, <2>1 DEF WorkerInv, AtWork, Holding
  <2>3. \A v \in Workers : worker'[v] = IF v = w THEN s ELSE worker[v]
    BY <1>1, <1>3 DEF Become, WorkerInv, WorkerTypeOK
  <2>4. WorkerInv'
    BY <1>1, <1>2, <1>3, <2>1, <2>2, KeepOrDrop
  <2> QED
    BY <1>1, <1>3, <2>1, <2>3, <2>4 DEF SameFace, CallWorks, n
<1>4. CASE CallFails /\ SaveEnds(w)
  BY <1>1, <1>2, <1>4, SaveEndsWell, SaveEndsFacts DEF SameFace, Holding
<1> QED
  BY <1>3, <1>4 DEF ListForCount

LEMMA ListForCountBase ==
    ASSUME BaseInv, NEW w \in Workers, ListForCount(w), merged' = merged, raced' \subseteq Nat
    PROVE  BaseInv'
<1>1. /\ UNCHANGED <<persons, faces, photofaces, merger, nextPerson, nextFace>>
      /\ worker[w].pc = "count"
      /\ persons \in [DOMAIN persons -> Persons]
  BY DEF ListForCount, Saving, tableVars, BaseInv, TablesTypeOK
<1>2. \A v \in Workers : worker'[v].pc \in {"face", "index", "count", "patch"} =>
             worker[v].pc \in {"face", "index", "count", "patch"}
  BY <1>1, ListForCountFacts
<1> QED
  BY <1>1, <1>2, ListForCountFacts, TablesUntouched

LEMMA PatchFacts ==
    ASSUME BaseInv, NEW p, NEW n \in Nat, PatchCount(p, n) \/ persons' = persons
    PROVE  DOMAIN persons' = DOMAIN persons /\ persons' \in [DOMAIN persons' -> Persons]
<1>1. persons \in [DOMAIN persons -> Persons]
  BY DEF BaseInv, TablesTypeOK
<1>2. CASE p \in DOMAIN persons /\ PatchCount(p, n)
  <2>1. [persons[p] EXCEPT !.count = n] \in Persons
    BY <1>1, <1>2 DEF Persons
  <2> QED
    BY <1>1, <1>2, <2>1 DEF PatchCount
<1> QED
  BY <1>1, <1>2 DEF PatchCount

LEMMA SaveCountBase ==
    ASSUME BaseInv, NEW w \in Workers, SaveCount(w), merged' = merged, raced' \subseteq Nat
    PROVE  BaseInv'
<1>1. /\ UNCHANGED <<faces, photofaces, merger, queue, cron, calls, nextPerson, nextFace>>
      /\ Holding(worker[w]) /\ WorkerInv /\ worker[w].count \in Nat /\ SaveEnds(w)
      /\ PatchCount(worker[w].person, worker[w].count) \/ persons' = persons
      /\ CallWorks \/ CallFails
  BY DEF SaveCount, Saving, Holding, Writes, BaseInv, WorkerInv, WorkerTypeOK, WorkerState
<1>2. WorkerInv' /\ faults' \in 0..MaxFaults
  BY <1>1, FaultsType, SaveEndsWell
<1>3. DOMAIN persons' = DOMAIN persons /\ persons' \in [DOMAIN persons' -> Persons]
  BY <1>1, PatchFacts
<1> QED
  BY <1>1, <1>2, <1>3, SaveEndsFacts, TablesUntouched DEF SameFace, Holding

LEMMA OwnersSeen ==
    ASSUME BaseInv, NEW look
    PROVE  Owners(look) \in SUBSET Seen
BY DEF Owners, BaseInv, PersonsKnown, FacesHavePersons, TablesTypeOK

LEMMA LookingBase ==
    ASSUME BaseInv, NEW w \in Workers, UNCHANGED <<tableVars, merger, merged>>, raced' \subseteq Nat,
           NEW processed, Take(w) \/ Check(w, processed) \/ Detect(w)
    PROVE  BaseInv'
<1>1. /\ WorkerInv' /\ nextPerson' = nextPerson /\ nextFace' = nextFace
      /\ worker'[w].pc \in {"idle", "check", "detect", "match"}
      /\ \A v \in Workers : v # w => worker'[v] = worker[v]
  BY LookingFacts DEF BaseInv
<1>2. UNCHANGED <<persons, faces, photofaces, merger>> /\ persons \in [DOMAIN persons -> Persons]
  BY DEF tableVars, BaseInv, TablesTypeOK
<1> QED
  BY <1>1, <1>2, TablesUntouched DEF SameFace, Holding

LEMMA IdsGrow ==
    ASSUME NEW a \in Nat, NEW b \in Nat, a <= b
    PROVE  0..(a - 1) \subseteq 0..(b - 1)
OBVIOUS

\* A worker gets a face of its own, which nobody has written down.
LEMMA MatchBase ==
    ASSUME BaseInv, NEW w \in Workers, UNCHANGED <<tableVars, merger, merged>>, raced' \subseteq Nat,
           Match(w, Owners(Look(w)))
    PROVE  BaseInv'
<1>1. /\ WorkerInv'
      /\ nextPerson <= nextPerson' /\ nextFace \in Nat /\ nextFace' = nextFace + 1
      /\ worker[w].pc = "match" /\ worker'[w].pc = "save" /\ worker'[w].face = nextFace
      /\ worker'[w].photo = worker[w].photo /\ worker'[w].nth = worker[w].nth
      /\ \A v \in Workers : v # w => worker'[v] = worker[v]
  BY MatchFacts, OwnersSeen DEF BaseInv
<1>2. /\ UNCHANGED <<persons, faces, photofaces, merger, merged>> /\ Known' = Known
      /\ nextPerson \in Nat /\ nextPerson' \in Nat
  BY <1>1 DEF tableVars, Known, WorkerInv, WorkerTypeOK, BaseInv
<1>3. Seen \subseteq Seen' /\ 0..(nextFace - 1) \subseteq 0..(nextFace' - 1)
  <2>1. nextPerson <= nextPerson' /\ nextPerson \in Nat /\ nextPerson' \in Nat
    BY <1>1, <1>2
  <2>2. nextFace \in Nat /\ nextFace' = nextFace + 1
    BY <1>1
  <2>3. 0..(nextPerson - 1) \subseteq 0..(nextPerson' - 1)
    BY <2>1, IdsGrow
  <2>4. 0..(nextFace - 1) \subseteq 0..(nextFace' - 1)
    BY <2>2
  <2> QED
    BY <2>3, <2>4 DEF Seen
<1>4. TablesTypeOK'
  BY <1>2, <1>3 DEF BaseInv, TablesTypeOK
<1>5. MergersOK'
  BY <1>1, <1>2, MergersStay
<1>6. PersonsKnown'
  BY <1>1, <1>2 DEF BaseInv, PersonsKnown, FacesHavePersons, Holding, Known
<1>7. \A k \in DOMAIN faces : k[2] < nextFace
  BY <1>1 DEF BaseInv, TablesTypeOK
<1>8. \A m \in Mergers : \A l \in InHand(m) : l.face < nextFace /\ l.face \in Nat
  BY ListedFacts DEF BaseInv, MergersOK
<1>9. \A v \in Workers : Holding(worker[v]) => worker[v].face < nextFace /\ worker[v].face \in Nat
  BY HoldingFacts DEF BaseInv, WorkerInv, IdsHandedOut
<1>10. FreshFaces'
  <2> SUFFICES ASSUME NEW v \in Workers, worker'[v].pc \in {"save", "face"}
               PROVE  /\ \A k \in DOMAIN faces : k[2] # worker'[v].face
                      /\ \A m \in Mergers : \A l \in InHand(m) : l.face # worker'[v].face
    BY <1>2 DEF FreshFaces, InHand
  <2>1. CASE v = w
    BY <1>1, <1>7, <1>8, <2>1 DEF BaseInv, TablesTypeOK
  <2>2. CASE v # w
    BY <1>1, <2>2 DEF BaseInv, FreshFaces
  <2> QED
    BY <2>1, <2>2
<1> DEFINE new == [photo |-> worker[w].photo, look |-> Look(w)]
<1>11. ASSUME NEW f, NEW row, Tells(f, row)'
       PROVE  (f = nextFace /\ row = new) \/ (f # nextFace /\ Tells(f, row))
  <2>1. ASSUME NEW k \in DOMAIN faces, k[2] = f, faces[k] = row
        PROVE  f # nextFace /\ Tells(f, row)
    BY <1>1, <1>7, <2>1 DEF Tells
  <2>2. ASSUME NEW m \in Mergers, NEW l \in InHand(m), l.face = f, l.row = row
        PROVE  f # nextFace /\ Tells(f, row)
    BY <1>1, <1>8, <2>2 DEF Tells
  <2>3. ASSUME NEW v \in Workers, Holding(worker'[v]), worker'[v].face = f,
               row = [photo |-> worker'[v].photo, look |-> Look(v)']
        PROVE  (f = nextFace /\ row = new) \/ (f # nextFace /\ Tells(f, row))
    <3>1. CASE v = w
      BY <1>1, <2>3, <3>1 DEF Look
    <3>2. CASE v # w
      <4>1. worker'[v] = worker[v] /\ Look(v)' = Look(v)
        BY <1>1, <3>2 DEF Look
      <4>2. Holding(worker[v]) /\ worker[v].face = f /\ row = [photo |-> worker[v].photo, look |-> Look(v)]
        BY <2>3, <4>1
      <4> QED
        BY <1>1, <1>9, <4>2 DEF Tells
    <3> QED
      BY <3>1, <3>2
  <2> HIDE DEF new
  <2> QED
    BY <1>2, <1>11, <2>1, <2>2, <2>3 DEF Tells, InHand, Holding, Look
<1> HIDE DEF new
<1>12. OneRowEach'
  <2>1. \A f \in 0..(nextFace' - 1), r, s \in FaceRow : Tells(f, r)' /\ Tells(f, s)' => r = s
    <3> SUFFICES ASSUME NEW f \in 0..(nextFace' - 1), NEW r \in FaceRow, NEW s \in FaceRow,
                        Tells(f, r)', Tells(f, s)'
                 PROVE  r = s
      OBVIOUS
    <3>1. CASE f = nextFace
      BY <1>11, <3>1
    <3>2. CASE f # nextFace
      <4>1. f \in 0..(nextFace - 1) /\ Tells(f, r) /\ Tells(f, s)
        BY <1>1, <1>11, <3>2
      <4> QED
        BY <4>1 DEF BaseInv, OneRowEach
    <3> QED
      BY <3>1, <3>2
  <2>2. \A e \in DOMAIN photofaces, r \in FaceRow : Tells(e[2], r)' => r.photo = e[1]
    <3> TAKE e \in DOMAIN photofaces, r \in FaceRow
    <3>1. e[2] # nextFace
      BY <1>1 DEF BaseInv, TablesTypeOK
    <3> QED
      BY <1>11, <3>1 DEF BaseInv, OneRowEach
  <2> QED
    BY <1>2, <2>1, <2>2 DEF OneRowEach
<1> QED
  BY <1>1, <1>4, <1>5, <1>6, <1>10, <1>12 DEF BaseInv

LEMMA DieBase ==
    ASSUME BaseInv, NEW w \in Workers, Die(w), UNCHANGED <<tableVars, merger, merged>>, raced' \subseteq Nat
    PROVE  BaseInv'
<1>1. WorkerInv' /\ UNCHANGED <<persons, faces, photofaces, merger, nextPerson, nextFace>>
      /\ persons \in [DOMAIN persons -> Persons]
  BY DieWell DEF Die, tableVars, BaseInv, TablesTypeOK
<1>2. \A v \in Workers : worker'[v] = IF v = w THEN Resting ELSE worker[v]
  BY DEF Die, Become, BaseInv, WorkerInv, WorkerTypeOK
<1> QED
  BY <1>1, <1>2, TablesUntouched DEF SameFace, Holding, Resting

-----------------------------------------------------------------------------
(* MergePeople.                                                            *)

\* One merge goes on, the others and the workers stay where they are.
LEMMA MergerGoesOn ==
    ASSUME BaseInv, NEW m \in Mergers, \A n \in Mergers : n # m => merger'[n] = merger[n],
           merger' \in [Mergers -> MergeState], nextFace' = nextFace,
           Known \subseteq Known', DOMAIN merged \subseteq DOMAIN merged',
           merger'[m].pc \in {"delete", "insert", "index"} => merger'[m].moving # None,
           \A l \in InHand(m)' : l \in InHand(m) \/ (\E k \in DOMAIN faces : l.face = k[2]),
           merger'[m].pc # "idle" =>
             merger'[m].source \in DOMAIN merged' /\ merger'[m].target \in Known'
    PROVE  MergersOK'
<1>1. nextFace \in Nat /\ \A k \in DOMAIN faces : k[2] < nextFace
  BY DEF BaseInv, WorkerInv, WorkerTypeOK, TablesTypeOK
<1>2. ASSUME NEW n \in Mergers, n # m
      PROVE  /\ merger'[n].pc \in {"delete", "insert", "index"} => merger'[n].moving # None
             /\ \A l \in InHand(n)' : l.face < nextFace
             /\ merger'[n].pc # "idle" => merger'[n].source \in DOMAIN merged' /\ merger'[n].target \in Known'
  <2>1. merger'[n] = merger[n] /\ InHand(n)' = InHand(n)
    BY <1>2 DEF InHand
  <2> QED
    BY <2>1 DEF BaseInv, MergersOK
<1>3. \A l \in InHand(m)' : l.face < nextFace
  BY <1>1 DEF BaseInv, MergersOK
<1> QED
  BY <1>2, <1>3 DEF MergersOK, InHand, Known

\* A step of a merge that puts no row of its own making in the table.
LEMMA KeepBaseMerging ==
    ASSUME BaseInv, NEW m \in Mergers, \A n \in Mergers : n # m => merger'[n] = merger[n],
           MergersOK', UNCHANGED <<queue, worker, cron, nextPerson, nextFace>>, calls' \in Nat,
           faults' \in 0..MaxFaults, TablesTypeOK', Known \subseteq Known',
           DOMAIN photofaces' = DOMAIN photofaces,
           \A k \in DOMAIN faces' : RowAccounted(k),
           \A l \in InHand(m)' :
             l \in InHand(m) \/ (\E k \in DOMAIN faces : l.face = k[2] /\ l.row = faces[k])
    PROVE  BaseInv'
<1>1. WorkerInv'
  BY CallsGoOn DEF BaseInv
<1>2. \A n \in Mergers : \A l \in InHand(n)' :
             l \in InHand(n) \/ (\E k \in DOMAIN faces : l.face = k[2] /\ l.row = faces[k])
  BY DEF InHand
<1>3. \A w \in Workers : worker'[w].pc \in {"face", "index", "count", "patch"} => worker'[w].person \in Known'
  BY DEF BaseInv, PersonsKnown, Holding
<1>4. \A w \in Workers : SameFace(w)
  BY DEF SameFace
<1> QED
  BY <1>1, <1>2, <1>3, <1>4, KeepBase

LEMMA MergingFacts ==
    ASSUME BaseInv, NEW m \in Mergers, NEW pc, Merging(m, pc), CallWorks \/ CallFails
    PROVE  /\ UNCHANGED <<queue, worker, cron, nextPerson, nextFace>> /\ calls' \in Nat
           /\ faults' \in 0..MaxFaults
           /\ merger[m].pc = pc /\ merger[m] \in MergeState
           /\ pc # "idle" => merger[m].source \in DOMAIN merged /\ merger[m].target \in Known
BY FaultsType DEF BaseInv, WorkerInv, WorkerTypeOK, Merging, MergersOK

LEMMA MergeStartFacts ==
    ASSUME BaseInv, NEW m \in Mergers, MergeStart(m), Observed
    PROVE  \E s, t \in Known :
             /\ s # t
             /\ \A n \in Mergers : n # m => merger'[n] = merger[n]
             /\ merger[m].pc = "idle" /\ merger' \in [Mergers -> MergeState]
             /\ merger'[m].pc = "list" /\ merger'[m].source = s /\ merger'[m].target = t
             /\ merger'[m].todo = {} /\ merger'[m].moving = None
             /\ DOMAIN merged' = DOMAIN merged \cup {s}
             /\ merged'[s] = IF s \in DOMAIN merged THEN merged[s] + 1 ELSE 1
             /\ \A p \in DOMAIN merged : p # s => merged'[p] = merged[p]
             /\ merged' \in [DOMAIN merged' -> Nat \ {0}]
<1>1. PICK s \in Known, t \in Known :
         s # t /\ MergeGoes(m, [NoMerge EXCEPT !.pc = "list", !.source = s, !.target = t])
  BY DEF MergeStart
<1> DEFINE r == [NoMerge EXCEPT !.pc = "list", !.source = s, !.target = t]
<1>2. s \in Nat /\ t \in Nat /\ merged \in [DOMAIN merged -> Nat \ {0}]
  BY DEF Known, BaseInv, TablesTypeOK, Seen, WorkerInv, WorkerTypeOK
<1>3. /\ r \in MergeState /\ r.pc = "list" /\ r.source = s /\ r.target = t
      /\ r.todo = {} /\ r.moving = None
  BY <1>2 DEF NoMerge, MergeState
<1>4. merger' = [merger EXCEPT ![m] = r] /\ merger[m].pc = "idle"
  BY <1>1 DEF MergeGoes, MergeStart
<1> HIDE DEF r
<1>5. \A n \in Mergers : merger'[n] = IF n = m THEN r ELSE merger[n]
  BY <1>4 DEF BaseInv, MergersOK
<1>6. merger' \in [Mergers -> MergeState]
  BY <1>3, <1>4 DEF BaseInv, MergersOK
<1> DEFINE n == CHOOSE o \in Mergers : merger[o].pc = "idle" /\ merger'[o].pc = "list"
<1>7. n = m
  <2>1. merger[m].pc = "idle" /\ merger'[m].pc = "list"
    BY <1>3, <1>4, <1>5
  <2>2. n \in Mergers /\ merger[n].pc = "idle" /\ merger'[n].pc = "list"
    BY <2>1
  <2> QED
    BY <1>5, <2>2
<1>8. merged' = With(merged, s, IF s \in DOMAIN merged THEN merged[s] + 1 ELSE 1)
  <2>1. \E o \in Mergers : merger[o].pc = "idle" /\ merger'[o].pc = "list"
    BY <1>3, <1>4, <1>5
  <2>2. merged' = With(merged, merger'[n].source,
                       IF merger'[n].source \in DOMAIN merged THEN merged[merger'[n].source] + 1 ELSE 1)
    BY <2>1 DEF Observed
  <2> HIDE DEF n
  <2> QED
    BY <1>3, <1>5, <1>7, <2>2
<1>9. /\ DOMAIN merged' = DOMAIN merged \cup {s}
      /\ merged'[s] = IF s \in DOMAIN merged THEN merged[s] + 1 ELSE 1
      /\ \A p \in DOMAIN merged : p # s => merged'[p] = merged[p]
      /\ merged' = [p \in DOMAIN merged' |-> merged'[p]]
  BY <1>8 DEF With
<1>10. merged' \in [DOMAIN merged' -> Nat \ {0}]
  <2>1. \A p \in DOMAIN merged' : merged'[p] \in Nat \ {0}
    BY <1>2, <1>9
  <2> QED
    BY <1>9, <2>1
<1> QED
  BY <1>1, <1>3, <1>4, <1>5, <1>6, <1>9, <1>10

LEMMA MergeStartBase ==
    ASSUME BaseInv, NEW m \in Mergers, MergeStart(m), Observed, raced' \subseteq Nat
    PROVE  BaseInv'
<1>1. PICK s \in Known, t \in Known :
             /\ \A n \in Mergers : n # m => merger'[n] = merger[n]
             /\ merger[m].pc = "idle" /\ merger' \in [Mergers -> MergeState]
             /\ merger'[m].pc = "list" /\ merger'[m].source = s /\ merger'[m].target = t
             /\ merger'[m].todo = {} /\ merger'[m].moving = None
             /\ DOMAIN merged' = DOMAIN merged \cup {s}
             /\ merged' \in [DOMAIN merged' -> Nat \ {0}]
  BY MergeStartFacts
<1>2. /\ UNCHANGED <<queue, worker, cron, nextPerson, nextFace, persons, faces, photofaces>>
      /\ calls' \in Nat /\ faults' \in 0..MaxFaults
  BY DEF MergeStart, AdminCalls, tableVars, BaseInv, WorkerInv, WorkerTypeOK
<1>3. Known \subseteq Known' /\ Known \subseteq Seen
  BY <1>1, <1>2 DEF Known, BaseInv, TablesTypeOK
<1>4. InHand(m)' = {}
  BY <1>1 DEF InHand
<1>5. MergersOK'
  BY <1>1, <1>2, <1>3, <1>4, MergerGoesOn
<1>6. TablesTypeOK'
  BY <1>1, <1>2, <1>3 DEF BaseInv, TablesTypeOK, Seen
<1> QED
  BY <1>1, <1>2, <1>3, <1>4, <1>5, <1>6, KeepBaseMerging DEF RowAccounted

\* A merge that ends has nothing in hand.
LEMMA MergeEndsFacts ==
    ASSUME MergersOK, NEW m \in Mergers, MergeGoes(m, NoMerge)
    PROVE  /\ \A n \in Mergers : n # m => merger'[n] = merger[n]
           /\ merger' \in [Mergers -> MergeState]
           /\ merger'[m].pc = "idle" /\ InHand(m)' = {}
BY MergeGoesFacts, NoMergeFacts DEF InHand, MergeGoes, MergersOK

LEMMA ListingFacts ==
    ASSUME BaseInv, NEW p
    PROVE  LET listed == {[face |-> f, row |-> faces[<<p, f>>]] : f \in FacesOf(p)}
           IN  /\ listed \subseteq Listed
               /\ \A l \in listed : /\ <<p, l.face>> \in DOMAIN faces
                                    /\ l.row = faces[<<p, l.face>>]
<1>1. ASSUME NEW f \in FacesOf(p)
      PROVE  <<p, f>> \in DOMAIN faces /\ f \in Nat /\ faces[<<p, f>>] \in FaceRow
  <2>1. PICK k \in DOMAIN faces : k[1] = p /\ k[2] = f
    BY DEF FacesOf
  <2>2. k = <<p, f>> /\ f \in Nat
    BY <2>1 DEF BaseInv, TablesTypeOK, WorkerInv, WorkerTypeOK
  <2> QED
    BY <2>2 DEF BaseInv, TablesTypeOK
<1>2. ASSUME NEW f \in FacesOf(p)
      PROVE  LET l == [face |-> f, row |-> faces[<<p, f>>]]
             IN  /\ l \in Listed /\ <<p, l.face>> \in DOMAIN faces
                 /\ l.row = faces[<<p, l.face>>]
  BY <1>1 DEF Listed
<1> QED
  BY <1>2

LEMMA MergeListFacts ==
    ASSUME BaseInv, NEW m \in Mergers, MergeList(m)
    PROVE  /\ \A n \in Mergers : n # m => merger'[n] = merger[n]
           /\ merger' \in [Mergers -> MergeState]
           /\ \A l \in InHand(m)' : /\ <<merger[m].source, l.face>> \in DOMAIN faces
                                   /\ l.row = faces[<<merger[m].source, l.face>>]
           /\ \/ /\ faults' = faults
                 /\ merger'[m].source = merger[m].source /\ merger'[m].target = merger[m].target
                 /\ \/ merger'[m].pc = "drop" /\ InHand(m)' = {}
                    \/ merger'[m].pc = "delete" /\ merger'[m].moving # None
                       /\ merger'[m].moving \notin merger'[m].todo
              \/ CallFails /\ merger'[m].pc = "idle"
<1> DEFINE listed == {[face |-> f, row |-> faces[<<merger[m].source, f>>]] : f \in FacesOf(merger[m].source)}
<1>1. /\ listed \subseteq Listed
      /\ \A l \in listed : /\ <<merger[m].source, l.face>> \in DOMAIN faces
                           /\ l.row = faces[<<merger[m].source, l.face>>]
  BY ListingFacts
<1>2. MergersOK
  BY DEF BaseInv
<1>3. CASE CallFails /\ MergeGoes(m, NoMerge)
  BY <1>2, <1>3, MergeEndsFacts
<1>4. CASE CallWorks /\ MergeNext(m, listed)
  <2> HIDE DEF listed
  <2>1. /\ \A n \in Mergers : n # m => merger'[n] = merger[n]
        /\ merger' \in [Mergers -> MergeState]
        /\ merger'[m].source = merger[m].source /\ merger'[m].target = merger[m].target
        /\ \/ merger'[m].pc = "drop" /\ merger'[m].todo = {} /\ merger'[m].moving = None
           \/ /\ merger'[m].pc = "delete" /\ merger'[m].moving \in listed
              /\ merger'[m].todo = listed \ {merger'[m].moving}
    BY <1>1, <1>2, <1>4, MergeNextFacts
  <2>3. InHand(m)' \subseteq listed
    BY <2>1 DEF InHand
  <2>4. merger'[m].pc = "delete" => merger'[m].moving # None
    BY <1>1, <2>1, StoredAssumption DEF Listed, FaceRow
  <2>5. merger'[m].pc = "drop" => InHand(m)' = {}
    BY <2>1 DEF InHand
  <2> QED
    BY <1>1, <1>4, <2>1, <2>3, <2>4, <2>5 DEF CallWorks
<1> QED
  BY <1>3, <1>4 DEF MergeList

LEMMA MergeListBase ==
    ASSUME BaseInv, NEW m \in Mergers, MergeList(m), merged' = merged, raced' \subseteq Nat
    PROVE  BaseInv'
<1>1. /\ UNCHANGED <<queue, worker, cron, nextPerson, nextFace>> /\ calls' \in Nat
      /\ faults' \in 0..MaxFaults
      /\ merger[m].pc = "list"
      /\ merger[m].source \in DOMAIN merged /\ merger[m].target \in Known
  BY MergingFacts DEF MergeList
<1>2. UNCHANGED <<persons, faces, photofaces>> /\ Known' = Known
  BY DEF MergeList, tableVars, Known
<1>3. /\ \A n \in Mergers : n # m => merger'[n] = merger[n]
      /\ merger' \in [Mergers -> MergeState]
      /\ merger'[m].pc \in {"idle", "delete", "drop"}
      /\ merger'[m].pc = "delete" => merger'[m].moving # None
      /\ merger'[m].pc # "idle" => merger'[m].source = merger[m].source /\ merger'[m].target = merger[m].target
  BY MergeListFacts
<1>4. \A l \in InHand(m)' : \E k \in DOMAIN faces : l.face = k[2] /\ l.row = faces[k]
  BY MergeListFacts
<1>5. MergersOK'
  BY <1>1, <1>2, <1>3, <1>4, MergerGoesOn
<1>6. TablesTypeOK'
  BY <1>1, <1>2 DEF BaseInv, TablesTypeOK, Seen
<1> QED
  BY <1>1, <1>2, <1>3, <1>4, <1>5, <1>6, KeepBaseMerging DEF RowAccounted

\* The requests of a merge to the table of faces: the row is deleted, the row
\* is inserted.
LEMMA MergeDeleteFacts ==
    ASSUME BaseInv, NEW m \in Mergers, MergeDelete(m)
    PROVE  /\ merger[m].pc = "delete" /\ merger'[m].pc = "insert"
           /\ faults' = faults => faces' = Without(faces, <<merger[m].source, merger[m].moving.face>>)
           /\ CallWorks \/ CallFails
           /\ DOMAIN faces' \subseteq DOMAIN faces
           /\ \A k \in DOMAIN faces :
                k # <<merger[m].source, merger[m].moving.face>> => k \in DOMAIN faces'
           /\ \A k \in DOMAIN faces' : faces'[k] = faces[k]
           /\ faces' \in [DOMAIN faces' -> FaceRow]
<1> DEFINE key == <<merger[m].source, merger[m].moving.face>>
<1>1. merger[m].pc = "delete" /\ merger'[m].pc = "insert"
  BY MergeMovesFacts DEF MergeDelete, Merging, BaseInv
<1>2. /\ CallWorks \/ CallFails
      /\ faces' = Without(faces, key) \/ faces' = faces
  BY DEF MergeDelete, Writes
<1>3. faults' = faults => faces' = Without(faces, key)
  BY DEF MergeDelete, Writes, CallFails, BaseInv, WorkerInv, WorkerTypeOK
<1> HIDE DEF key
<1>4. /\ DOMAIN faces' \subseteq DOMAIN faces
      /\ \A k \in DOMAIN faces : k # key => k \in DOMAIN faces'
      /\ \A k \in DOMAIN faces' : faces'[k] = faces[k]
      /\ faces' \in [DOMAIN faces' -> FaceRow]
  BY <1>2 DEF Without, BaseInv, TablesTypeOK
<1> QED
  BY <1>1, <1>2, <1>3, <1>4 DEF key

LEMMA MergeInsertFacts ==
    ASSUME BaseInv, NEW m \in Mergers, MergeInsert(m)
    PROVE  LET key == <<merger[m].target, merger[m].moving.face>>
           IN  /\ merger[m].pc = "insert" /\ merger'[m].pc = "index"
               /\ CallWorks \/ CallFails
               /\ faults' = faults => key \in DOMAIN faces' /\ faces'[key] = merger[m].moving.row
               /\ DOMAIN faces \subseteq DOMAIN faces' /\ DOMAIN faces' \subseteq DOMAIN faces \cup {key}
               /\ \A k \in DOMAIN faces : k # key => faces'[k] = faces[k]
               /\ key \in DOMAIN faces' =>
                    faces'[key] = merger[m].moving.row \/ (key \in DOMAIN faces /\ faces'[key] = faces[key])
               /\ faces' \in [DOMAIN faces' -> FaceRow]
<1> DEFINE key == <<merger[m].target, merger[m].moving.face>>
           row == merger[m].moving.row
<1>1. merger[m].pc = "insert" /\ merger'[m].pc = "index" /\ row \in FaceRow
  BY MergeMovesFacts, MovingFacts DEF MergeInsert, Merging, BaseInv
<1>2. /\ CallWorks \/ CallFails
      /\ faces' = With(faces, key, row) \/ faces' = faces
  BY DEF MergeInsert, Writes
<1>3. faults' = faults => faces' = With(faces, key, row)
  BY DEF MergeInsert, Writes, CallFails, BaseInv, WorkerInv, WorkerTypeOK
<1> HIDE DEF key, row
<1>4. CASE faces' = With(faces, key, row)
  <2>1. /\ DOMAIN faces' = DOMAIN faces \cup {key} /\ faces'[key] = row
        /\ \A k \in DOMAIN faces : k # key => faces'[k] = faces[k]
    BY <1>4 DEF With
  <2>2. faces' \in [DOMAIN faces' -> FaceRow]
    BY <1>1, <1>4 DEF With, BaseInv, TablesTypeOK
  <2> QED
    BY <1>1, <1>2, <2>1, <2>2 DEF key, row
<1>5. CASE faces' = faces /\ faults' # faults
  BY <1>1, <1>2, <1>5 DEF key, row, BaseInv, TablesTypeOK
<1> QED
  BY <1>2, <1>3, <1>4, <1>5

\* What the moves of one face have in common.
LEMMA MergeMovesWell ==
    ASSUME BaseInv, NEW m \in Mergers, NEW pc \in {"insert", "index", "count"}, MergeMoves(m, pc),
           pc \in {"insert", "index"} => merger[m].pc \in {"delete", "insert"},
           merger[m].pc # "idle", nextFace' = nextFace, merged' = merged, Known \subseteq Known'
    PROVE  /\ \A n \in Mergers : n # m => merger'[n] = merger[n]
           /\ InHand(m)' = InHand(m) /\ MergersOK'
<1>1. MergersOK /\ merger[m] \in MergeState
  BY DEF BaseInv, MergersOK
<1>2. /\ \A n \in Mergers : n # m => merger'[n] = merger[n]
      /\ merger'[m].pc = pc
      /\ merger'[m].source = merger[m].source /\ merger'[m].target = merger[m].target
      /\ merger'[m].todo = merger[m].todo /\ merger'[m].moving = merger[m].moving
  BY <1>1, MergeMovesFacts
<1>3. merger' \in [Mergers -> MergeState]
  <2>1. [merger[m] EXCEPT !.pc = pc] \in MergeState
    BY <1>1 DEF MergeState
  <2> QED
    BY <1>1, <2>1 DEF MergersOK, MergeMoves, MergeGoes
<1>4. InHand(m)' = InHand(m)
  BY <1>2 DEF InHand
<1>5. merger'[m].pc \in {"delete", "insert", "index"} => merger'[m].moving # None
  BY <1>1, <1>2 DEF MergersOK
<1>6. merger'[m].source \in DOMAIN merged' /\ merger'[m].target \in Known'
  BY <1>1, <1>2 DEF MergersOK
<1> QED
  BY <1>2, <1>3, <1>4, <1>5, <1>6, MergerGoesOn

LEMMA MergeDeleteBase ==
    ASSUME BaseInv, NEW m \in Mergers, MergeDelete(m), merged' = merged, raced' \subseteq Nat
    PROVE  BaseInv'
<1>1. /\ UNCHANGED <<queue, worker, cron, nextPerson, nextFace>> /\ calls' \in Nat
      /\ faults' \in 0..MaxFaults /\ merger[m].pc = "delete"
  BY MergeDeleteFacts, MergingFacts DEF MergeDelete
<1>2. UNCHANGED <<persons, photofaces>> /\ Known' = Known /\ MergeMoves(m, "insert")
  BY DEF MergeDelete, Known
<1>3. /\ \A n \in Mergers : n # m => merger'[n] = merger[n]
      /\ InHand(m)' = InHand(m) /\ MergersOK'
  BY <1>1, <1>2, MergeMovesWell
<1>4. /\ DOMAIN faces' \subseteq DOMAIN faces
      /\ \A k \in DOMAIN faces' : faces'[k] = faces[k]
      /\ faces' \in [DOMAIN faces' -> FaceRow]
  BY MergeDeleteFacts
<1>5. TablesTypeOK'
  BY <1>1, <1>2, <1>4 DEF BaseInv, TablesTypeOK, Seen
<1> QED
  BY <1>1, <1>2, <1>3, <1>4, <1>5, KeepBaseMerging DEF RowAccounted

LEMMA MergeInsertBase ==
    ASSUME BaseInv, NEW m \in Mergers, MergeInsert(m), merged' = merged, raced' \subseteq Nat
    PROVE  BaseInv'
<1> DEFINE key == <<merger[m].target, merger[m].moving.face>>
           l == merger[m].moving
<1>1. /\ UNCHANGED <<queue, worker, cron, nextPerson, nextFace>> /\ calls' \in Nat
      /\ faults' \in 0..MaxFaults /\ merger[m].pc = "insert"
      /\ merger[m].target \in Known /\ merger[m].target \in Nat
  BY MergeInsertFacts, MergingFacts DEF MergeInsert, MergeState
<1>2. UNCHANGED <<persons, photofaces>> /\ Known' = Known /\ MergeMoves(m, "index")
  BY DEF MergeInsert, Known
<1>3. /\ \A n \in Mergers : n # m => merger'[n] = merger[n]
      /\ InHand(m)' = InHand(m) /\ MergersOK'
  BY <1>1, <1>2, MergeMovesWell
<1>4. /\ DOMAIN faces' \subseteq DOMAIN faces \cup {key}
      /\ \A k \in DOMAIN faces' :
           (k \in DOMAIN faces /\ faces'[k] = faces[k]) \/ (k = key /\ faces'[k] = l.row)
      /\ faces' \in [DOMAIN faces' -> FaceRow]
  BY MergeInsertFacts
<1>5. l \in InHand(m) /\ l.face \in 0..(nextFace - 1)
  <2>1. nextFace \in Nat /\ l \in InHand(m) /\ l.face \in Nat /\ l.face < nextFace
    BY <1>1, MovingFacts DEF BaseInv, WorkerInv, WorkerTypeOK
  <2> QED
    BY <2>1
<1>6. \A k \in DOMAIN faces' : RowAccounted(k)
  <2> TAKE k \in DOMAIN faces'
  <2>1. key[1] = merger[m].target /\ key[2] = l.face
    OBVIOUS
  <2> HIDE DEF key, l
  <2> QED
    BY <1>1, <1>4, <1>5, <2>1 DEF RowAccounted
<1>7. key \in Nat \X (0..(nextFace - 1))
  BY <1>1, <1>5
<1> HIDE DEF key, l
<1>8. TablesTypeOK'
  BY <1>1, <1>2, <1>4, <1>7 DEF BaseInv, TablesTypeOK, Seen
<1> QED
  BY <1>1, <1>2, <1>3, <1>6, <1>8, KeepBaseMerging

LEMMA MergeIndexFacts ==
    ASSUME BaseInv, NEW m \in Mergers, MergeIndex(m)
    PROVE  LET e == <<merger[m].moving.row.photo, merger[m].moving.face>>
           IN  /\ merger[m].pc = "index"
               /\ \A n \in Mergers : n # m => merger'[n] = merger[n]
               /\ merger' \in [Mergers -> MergeState]
               /\ merger'[m].source = merger[m].source /\ merger'[m].target = merger[m].target
               /\ InHand(m)' \subseteq merger[m].todo
               /\ \/ merger'[m].pc = "drop" /\ merger'[m].todo = {}
                  \/ /\ merger'[m].pc = "delete" /\ merger'[m].moving \in merger[m].todo
                     /\ merger'[m].todo = merger[m].todo \ {merger'[m].moving}
                     /\ merger'[m].moving # None
               /\ CallWorks \/ CallFails
               /\ DOMAIN photofaces' = DOMAIN photofaces
               /\ \A d \in DOMAIN photofaces :
                    photofaces'[d] = photofaces[d] \/ (d = e /\ photofaces'[d] = merger[m].target)
               /\ photofaces' \in [DOMAIN photofaces' -> Nat]
<1> DEFINE e == <<merger[m].moving.row.photo, merger[m].moving.face>>
<1>1. /\ merger[m].pc = "index" /\ MergersOK /\ merger[m].todo \subseteq Listed
      /\ merger[m].target \in Nat /\ MergeNext(m, merger[m].todo)
  BY DEF MergeIndex, Merging, BaseInv, MergersOK, MergeState
<1>2. /\ CallWorks \/ CallFails
      /\ Reindexed(e, merger[m].target) \/ photofaces' = photofaces
  BY DEF MergeIndex, Writes
<1>3. /\ \A n \in Mergers : n # m => merger'[n] = merger[n]
      /\ merger' \in [Mergers -> MergeState]
      /\ merger'[m].source = merger[m].source /\ merger'[m].target = merger[m].target
      /\ \/ merger'[m].pc = "drop" /\ merger'[m].todo = {} /\ merger'[m].moving = None
         \/ /\ merger'[m].pc = "delete" /\ merger'[m].moving \in merger[m].todo
            /\ merger'[m].todo = merger[m].todo \ {merger'[m].moving}
  BY <1>1, MergeNextFacts
<1>4. InHand(m)' \subseteq merger[m].todo
  BY <1>3 DEF InHand
<1>5. None \notin merger[m].todo
  BY <1>1, StoredAssumption DEF Listed, FaceRow
<1> HIDE DEF e
<1>6. /\ DOMAIN photofaces' = DOMAIN photofaces
      /\ \A d \in DOMAIN photofaces :
           photofaces'[d] = photofaces[d] \/ (d = e /\ photofaces'[d] = merger[m].target)
      /\ photofaces' \in [DOMAIN photofaces' -> Nat]
  BY <1>1, <1>2 DEF Reindexed, BaseInv, TablesTypeOK
<1> QED
  BY <1>1, <1>2, <1>3, <1>4, <1>5, <1>6 DEF e

LEMMA MergeIndexBase ==
    ASSUME BaseInv, NEW m \in Mergers, MergeIndex(m), merged' = merged, raced' \subseteq Nat
    PROVE  BaseInv'
<1>1. /\ merger[m].pc = "index"
      /\ \A n \in Mergers : n # m => merger'[n] = merger[n]
      /\ merger' \in [Mergers -> MergeState]
      /\ merger'[m].source = merger[m].source /\ merger'[m].target = merger[m].target
      /\ InHand(m)' \subseteq merger[m].todo
      /\ merger'[m].pc \in {"drop", "delete"}
      /\ merger'[m].pc = "delete" => merger'[m].moving # None
      /\ CallWorks \/ CallFails
      /\ DOMAIN photofaces' = DOMAIN photofaces
      /\ photofaces' \in [DOMAIN photofaces' -> Nat]
  BY MergeIndexFacts
<1>2. /\ UNCHANGED <<queue, worker, cron, nextPerson, nextFace>> /\ calls' \in Nat
      /\ faults' \in 0..MaxFaults
      /\ merger[m].source \in DOMAIN merged /\ merger[m].target \in Known
  BY <1>1, MergingFacts DEF MergeIndex
<1>3. UNCHANGED <<persons, faces>> /\ Known' = Known
  BY DEF MergeIndex, Known
<1>4. InHand(m)' \subseteq InHand(m)
  BY <1>1 DEF InHand
<1>5. MergersOK'
  BY <1>1, <1>2, <1>3, <1>4, MergerGoesOn
<1>6. TablesTypeOK'
  BY <1>1, <1>2, <1>3 DEF BaseInv, TablesTypeOK, Seen
<1> QED
  BY <1>1, <1>2, <1>3, <1>4, <1>5, <1>6, KeepBaseMerging DEF RowAccounted

LEMMA MergeDropBase ==
    ASSUME BaseInv, NEW m \in Mergers, MergeDrop(m), merged' = merged, raced' \subseteq Nat
    PROVE  BaseInv'
<1>1. CallWorks \/ CallFails
  BY DEF MergeDrop, Writes
<1>2. /\ UNCHANGED <<queue, worker, cron, nextPerson, nextFace>> /\ calls' \in Nat
      /\ faults' \in 0..MaxFaults /\ merger[m].pc = "drop"
      /\ merger[m].source \in DOMAIN merged /\ merger[m].target \in Known
  BY <1>1, MergingFacts DEF MergeDrop
<1>3. UNCHANGED <<faces, photofaces>> /\ MergeMoves(m, "count")
  BY DEF MergeDrop
<1>4. /\ DOMAIN persons' \subseteq DOMAIN persons
      /\ DOMAIN persons \subseteq DOMAIN persons' \cup {merger[m].source}
      /\ persons' \in [DOMAIN persons' -> Persons]
  <2>1. persons' = Without(persons, merger[m].source) \/ persons' = persons
    BY DEF MergeDrop, Writes
  <2> QED
    BY <2>1 DEF Without, BaseInv, TablesTypeOK
<1>5. Known' = Known
  BY <1>2, <1>4 DEF Known
<1>6. /\ \A n \in Mergers : n # m => merger'[n] = merger[n]
      /\ InHand(m)' = InHand(m) /\ MergersOK'
  BY <1>2, <1>3, <1>5, MergeMovesWell
<1>7. TablesTypeOK'
  BY <1>2, <1>3, <1>4 DEF BaseInv, TablesTypeOK, Seen
<1> QED
  BY <1>2, <1>3, <1>5, <1>6, <1>7, KeepBaseMerging DEF RowAccounted

LEMMA MergeCountFacts ==
    ASSUME BaseInv, NEW m \in Mergers, MergeCount(m)
    PROVE  /\ \A n \in Mergers : n # m => merger'[n] = merger[n]
           /\ merger' \in [Mergers -> MergeState]
           /\ InHand(m)' \subseteq InHand(m)
           /\ CallWorks \/ CallFails
           /\ \/ /\ faults' = faults
                 /\ merger'[m].pc = "patch" /\ merger'[m].source = merger[m].source
                 /\ merger'[m].target = merger[m].target
                 /\ merger'[m].todo = merger[m].todo /\ merger'[m].moving = merger[m].moving
                 /\ merger'[m].count = Cardinality(FacesOf(merger[m].target))
              \/ CallFails /\ merger'[m].pc = "idle"
<1> DEFINE n == Cardinality(FacesOf(merger[m].target))
           s == [merger[m] EXCEPT !.pc = "patch", !.count = n]
<1>1. MergersOK /\ merger[m] \in MergeState /\ n \in Nat
  BY FacesFinite DEF BaseInv, MergersOK
<1>2. CASE CallFails /\ MergeGoes(m, NoMerge)
  BY <1>1, <1>2, MergeEndsFacts
<1>3. CASE CallWorks /\ MergeGoes(m, s)
  <2> HIDE DEF n
  <2>1. /\ s \in MergeState /\ s.pc = "patch" /\ s.source = merger[m].source
        /\ s.target = merger[m].target /\ s.todo = merger[m].todo /\ s.moving = merger[m].moving
        /\ s.count = n
    BY <1>1 DEF MergeState
  <2> HIDE DEF s
  <2>2. \A o \in Mergers : merger'[o] = IF o = m THEN s ELSE merger[o]
    BY <1>1, <1>3, MergeGoesFacts
  <2>3. merger' \in [Mergers -> MergeState]
    BY <1>1, <1>3, <2>1 DEF MergersOK, MergeGoes
  <2> QED
    BY <1>3, <2>1, <2>2, <2>3 DEF InHand, CallWorks, n
<1> QED
  BY <1>2, <1>3 DEF MergeCount

LEMMA MergeCountBase ==
    ASSUME BaseInv, NEW m \in Mergers, MergeCount(m), merged' = merged, raced' \subseteq Nat
    PROVE  BaseInv'
<1>1. /\ \A n \in Mergers : n # m => merger'[n] = merger[n]
      /\ merger' \in [Mergers -> MergeState]
      /\ InHand(m)' \subseteq InHand(m)
      /\ merger'[m].pc \in {"idle", "patch"}
      /\ merger'[m].pc = "patch" =>
           merger'[m].source = merger[m].source /\ merger'[m].target = merger[m].target
      /\ CallWorks \/ CallFails
  BY MergeCountFacts
<1>2. /\ UNCHANGED <<queue, worker, cron, nextPerson, nextFace>> /\ calls' \in Nat
      /\ faults' \in 0..MaxFaults
      /\ merger[m].source \in DOMAIN merged /\ merger[m].target \in Known
  BY <1>1, MergingFacts DEF MergeCount
<1>3. UNCHANGED <<persons, faces, photofaces>> /\ Known' = Known
  BY DEF MergeCount, tableVars, Known
<1>4. MergersOK'
  BY <1>1, <1>2, <1>3, MergerGoesOn
<1>5. TablesTypeOK'
  BY <1>2, <1>3 DEF BaseInv, TablesTypeOK, Seen
<1> QED
  BY <1>1, <1>2, <1>3, <1>4, <1>5, KeepBaseMerging DEF RowAccounted

\* A merge that ends, done or not.
LEMMA MergeEndsBase ==
    ASSUME BaseInv, NEW m \in Mergers, MergeGoes(m, NoMerge), merged' = merged, raced' \subseteq Nat,
           UNCHANGED <<queue, worker, cron, nextPerson, nextFace, calls, faces, photofaces>>,
           CallWorks \/ CallFails,
           DOMAIN persons' = DOMAIN persons, persons' \in [DOMAIN persons' -> Persons]
    PROVE  BaseInv'
<1>1. /\ \A n \in Mergers : n # m => merger'[n] = merger[n]
      /\ merger' \in [Mergers -> MergeState]
      /\ merger'[m].pc = "idle" /\ InHand(m)' = {}
  BY MergeEndsFacts DEF BaseInv
<1>2. Known' = Known /\ calls' \in Nat /\ faults' \in 0..MaxFaults
  BY FaultsType DEF Known, BaseInv, WorkerInv, WorkerTypeOK
<1>3. MergersOK'
  BY <1>1, <1>2, MergerGoesOn
<1>4. TablesTypeOK'
  BY <1>2 DEF BaseInv, TablesTypeOK, Seen
<1> QED
  BY <1>1, <1>2, <1>3, <1>4, KeepBaseMerging DEF RowAccounted

LEMMA MergePatchBase ==
    ASSUME BaseInv, NEW m \in Mergers, MergePatch(m), merged' = merged, raced' \subseteq Nat
    PROVE  BaseInv'
<1>1. /\ MergeGoes(m, NoMerge)
      /\ CallWorks \/ CallFails
      /\ UNCHANGED <<queue, worker, cron, nextPerson, nextFace, calls, faces, photofaces>>
      /\ PatchCount(merger[m].target, merger[m].count) \/ persons' = persons
  BY DEF MergePatch, Merging, Writes
<1>2. merger[m].count \in Nat
  BY DEF BaseInv, MergersOK, MergeState
<1>3. DOMAIN persons' = DOMAIN persons /\ persons' \in [DOMAIN persons' -> Persons]
  BY <1>1, <1>2, PatchFacts
<1> QED
  BY <1>1, <1>3, MergeEndsBase

-----------------------------------------------------------------------------
(* Every step keeps the invariant.                                         *)

LEMMA SetPersonNameBase ==
    ASSUME BaseInv, SetPersonName, merged' = merged, raced' \subseteq Nat
    PROVE  BaseInv'
<1>1. /\ UNCHANGED <<queue, worker, cron, nextPerson, nextFace, faces, photofaces, merger>>
      /\ calls' \in Nat
      /\ CallWorks \/ CallFails
  BY DEF SetPersonName, AdminCalls, Writes, BaseInv, WorkerInv, WorkerTypeOK
<1>2. WorkerInv'
  BY <1>1, FaultsType, CallsGoOn DEF BaseInv
<1>3. PICK p \in DOMAIN persons, name \in Names :
         persons' = [persons EXCEPT ![p].name = name] \/ persons' = persons
  BY DEF SetPersonName, Writes
<1>4. DOMAIN persons' = DOMAIN persons /\ persons' \in [DOMAIN persons' -> Persons]
  BY <1>3 DEF BaseInv, TablesTypeOK, Persons
<1> QED
  BY <1>1, <1>2, <1>4, TablesUntouched DEF SameFace

LEMMA StutterBase ==
    ASSUME BaseInv, UNCHANGED vars
    PROVE  BaseInv'
<1>1. /\ UNCHANGED <<queue, worker, cron, nextPerson, nextFace, calls, faults, persons, faces,
                     photofaces, merger, merged, raced>>
      /\ persons \in [DOMAIN persons -> Persons] /\ raced' \subseteq Nat
  BY DEF vars, BaseInv, TablesTypeOK
<1>2. WorkerInv'
  BY <1>1, CallsGoOn DEF BaseInv, WorkerInv, WorkerTypeOK
<1> QED
  BY <1>1, <1>2, TablesUntouched DEF SameFace

\* Only MergeStart starts a merge.
LEMMA MergedUnlessStart ==
    ASSUME BaseInv, Observed,
           \/ \E w \in Workers : Step(w)
           \/ \E m \in Mergers : MergePeople(m)
           \/ SetPersonName
           \/ Disrupt
    PROVE  merged' = merged
<1>1. ASSUME NEW m \in Mergers, MergePeople(m)
      PROVE  /\ \A n \in Mergers : n # m => merger'[n] = merger[n]
             /\ merger[m].pc # "idle"
  <2>1. merger[m].pc # "idle"
    BY <1>1 DEF MergePeople, MergeList, MergeDelete, MergeInsert, MergeIndex, MergeDrop, MergeCount,
                MergePatch, Merging
  <2>2. CASE MergeDelete(m) \/ MergeInsert(m) \/ MergeDrop(m)
    BY <2>1, <2>2, MergeMovesFacts DEF MergeDelete, MergeInsert, MergeDrop, BaseInv
  <2>3. CASE MergeList(m) \/ MergeIndex(m) \/ MergeCount(m)
    BY <2>1, <2>3, MergeListFacts, MergeIndexFacts, MergeCountFacts
  <2>4. CASE MergePatch(m)
    BY <2>1, <2>4, MergeEndsFacts DEF MergePatch, BaseInv
  <2> QED
    BY <1>1, <2>2, <2>3, <2>4 DEF MergePeople
<1>2. ASSUME NEW m \in Mergers, MergeGoes(m, NoMerge)
      PROVE  \A n \in Mergers : merger'[n].pc = "idle" \/ merger'[n] = merger[n]
  BY <1>2, MergeEndsFacts DEF BaseInv
<1>3. CASE \E m \in Mergers : MergePeople(m)
  BY <1>1, <1>3, MergedStays
<1>4. CASE merger' = merger
  BY <1>4, MergedStays
<1>5. CASE \E m \in Mergers : MergeGoes(m, NoMerge)
  BY <1>2, <1>5, MergedStays
<1> QED
  BY <1>3, <1>4, <1>5 DEF Step, Reading, SaveFace, SavePerson, SaveRow, SaveIndex, ListForCount,
     SaveCount, Saving, SetPersonName, Disrupt

LEMMA NextBase ==
    ASSUME BaseInv, [Next]_vars
    PROVE  BaseInv'
<1>1. CASE UNCHANGED vars
  BY <1>1, StutterBase
<1>2. ASSUME NEW m \in Mergers, MergeStart(m), Observed
      PROVE  BaseInv'
  BY <1>2, RacedFacts, MergeStartBase
<1>3. SUFFICES ASSUME Observed, merged' = merged, raced' \subseteq Nat,
                      \/ \E w \in Workers : Step(w)
                      \/ \E m \in Mergers : MergePeople(m)
                      \/ SetPersonName
                      \/ Disrupt
               PROVE  BaseInv'
  BY <1>1, <1>2, RacedFacts, MergedUnlessStart DEF Next, Finished
<1>4. ASSUME NEW w \in Workers, Step(w)
      PROVE  BaseInv'
  <2>1. CASE Reading(w)
    BY <1>3, <2>1, MatchBase, LookingBase DEF Reading
  <2>2. CASE SaveFace(w)
    BY <1>3, <2>2, SavePersonBase, SaveRowBase, SaveIndexBase, ListForCountBase, SaveCountBase
       DEF SaveFace
  <2> QED
    BY <1>4, <2>1, <2>2 DEF Step
<1>5. ASSUME NEW m \in Mergers, MergePeople(m)
      PROVE  BaseInv'
  BY <1>3, <1>5, MergeListBase, MergeDeleteBase, MergeInsertBase, MergeIndexBase, MergeDropBase,
     MergeCountBase, MergePatchBase DEF MergePeople
<1>6. CASE SetPersonName
  BY <1>3, <1>6, SetPersonNameBase
<1>7. CASE Disrupt
  <2>1. ASSUME NEW w \in Workers, Die(w), UNCHANGED <<tableVars, merger>>
        PROVE  BaseInv'
    BY <1>3, <2>1, DieBase
  <2>2. ASSUME NEW m \in Mergers, CallFails, MergeGoes(m, NoMerge),
               UNCHANGED <<queue, worker, cron, nextPerson, nextFace, calls, tableVars>>
        PROVE  BaseInv'
    <3>1. UNCHANGED <<persons, faces, photofaces>> /\ persons \in [DOMAIN persons -> Persons]
      BY <2>2 DEF tableVars, BaseInv, TablesTypeOK
    <3> QED
      BY <1>3, <2>2, <3>1, MergeEndsBase
  <2> QED
    BY <1>7, <2>1, <2>2 DEF Disrupt
<1> QED
  BY <1>3, <1>4, <1>5, <1>6, <1>7

-----------------------------------------------------------------------------
(* The tables as they are found.                                           *)

\* Each stored face is one person's, and the index leads to it.
TablesFound ==
    /\ \A k, l \in DOMAIN faces : k[2] = l[2] => k = l
    /\ \A k \in DOMAIN faces : k = <<k[1], k[2]>> /\ k[1] \in DOMAIN persons
    /\ \A p \in DOMAIN persons : FacesOf(p) # {} /\ persons[p].count = Cardinality(FacesOf(p))
    /\ \A e \in DOMAIN photofaces :
         \E k \in DOMAIN faces : /\ k[2] = e[2] /\ faces[k].photo = e[1]
                                /\ photofaces[e] = k[1]

LEMMA InitFound ==
    ASSUME Init
    PROVE  /\ TablesFound /\ TablesTypeOK /\ WorkerInv
           /\ \A w \in Workers : worker[w].pc = "idle"
           /\ \A m \in Mergers : merger[m].pc = "idle" /\ InHand(m) = {} /\ merger[m].todo = {}
           /\ merger \in [Mergers -> MergeState]
           /\ merged = << >> /\ DOMAIN merged = {} /\ raced = {}
<1>1. PICK start \in Starts : WorkerInit(start) /\ Tables(Stored[start])
  BY DEF Init
<1> DEFINE stored == Stored[start]
<1>2. WorkerInv /\ nextPerson = start.person /\ nextFace = start.face
      /\ nextPerson \in Nat /\ nextFace \in Nat
  BY <1>1, WorkerInvInit DEF WorkerInit, WorkerInv, WorkerTypeOK
<1>3. \A w \in Workers : worker[w].pc = "idle"
  BY <1>1 DEF WorkerInit, Resting
<1>4. /\ \A m \in Mergers : merger[m].pc = "idle" /\ InHand(m) = {} /\ merger[m].todo = {}
      /\ merger \in [Mergers -> MergeState]
      /\ merged = << >> /\ DOMAIN merged = {} /\ raced = {}
  BY NoMergeFacts DEF Init, InHand
<1>5. /\ stored \in [DOMAIN stored -> FaceRow]
      /\ DOMAIN stored \subseteq Seen \X (0..(nextFace - 1))
      /\ \A k, l \in DOMAIN stored : k[2] = l[2] => k = l
  BY <1>2, StoredAssumption DEF FaceRow, Seen
<1>6. faces = stored
  BY <1>1 DEF Tables
<1>7. /\ DOMAIN persons = {k[1] : k \in DOMAIN stored}
      /\ persons = [p \in DOMAIN persons |-> persons[p]]
      /\ \A p \in DOMAIN persons :
           persons[p] = [name |-> NoName, count |-> Cardinality(FacesOf(p)),
                         thumb |-> CHOOSE f \in FacesOf(p) : TRUE]
  BY <1>1 DEF Tables
<1>8. /\ DOMAIN photofaces = {<<stored[k].photo, k[2]>> : k \in DOMAIN stored}
      /\ photofaces = [e \in DOMAIN photofaces |-> photofaces[e]]
      /\ \A e \in DOMAIN photofaces : photofaces[e] = (CHOOSE k \in DOMAIN stored : k[2] = e[2])[1]
  BY <1>1 DEF Tables
<1> HIDE DEF stored
<1>9. \A k \in DOMAIN stored : /\ k = <<k[1], k[2]>> /\ k[1] \in Nat /\ k[1] \in Seen
                              /\ k[2] \in 0..(nextFace - 1) /\ k[2] \in Nat
                              /\ stored[k] \in FaceRow /\ stored[k].photo \in PhotoRefs
  BY <1>2, <1>5 DEF Seen, FaceRow
<1>10. ASSUME NEW p \in DOMAIN persons
       PROVE  FacesOf(p) # {} /\ Cardinality(FacesOf(p)) \in Nat /\ persons[p] \in Persons
  <2>1. FacesOf(p) # {}
    BY <1>6, <1>7 DEF FacesOf
  <2>2. FacesOf(p) \subseteq 0..(nextFace - 1)
    BY <1>6, <1>9 DEF FacesOf
  <2>3. Cardinality(FacesOf(p)) \in Nat
    <3>1. IsFiniteSet(0..(nextFace - 1))
      BY <1>2, FS_Interval
    <3> QED
      BY <2>2, <3>1, FS_Subset, FS_CardinalityType
  <2>4. (CHOOSE f \in FacesOf(p) : TRUE) \in Nat
    BY <1>2, <2>1, <2>2
  <2>5. persons[p] \in Persons
    <3> DEFINE n == Cardinality(FacesOf(p))
               f == CHOOSE g \in FacesOf(p) : TRUE
    <3>1. persons[p] = [name |-> NoName, count |-> n, thumb |-> f]
      BY <1>7
    <3>2. n \in Nat /\ f \in Nat
      BY <2>3, <2>4
    <3> HIDE DEF n, f
    <3> QED
      BY <3>1, <3>2 DEF Persons
  <2> QED
    BY <2>1, <2>3, <2>5
<1>11. ASSUME NEW e \in DOMAIN photofaces
       PROVE  /\ e \in PhotoRefs \X (0..(nextFace - 1))
              /\ \E k \in DOMAIN stored : /\ k[2] = e[2] /\ stored[k].photo = e[1]
                                         /\ photofaces[e] = k[1]
  <2>1. PICK k \in DOMAIN stored : e = <<stored[k].photo, k[2]>>
    BY <1>8
  <2>2. (CHOOSE l \in DOMAIN stored : l[2] = e[2]) = k
    <3>1. \A l \in DOMAIN stored : l[2] = e[2] => l = k
      BY <1>5, <2>1
    <3>2. k[2] = e[2]
      BY <2>1
    <3> QED
      BY <3>1, <3>2
  <2>3. photofaces[e] = k[1]
    BY <1>8, <2>2
  <2> QED
    BY <1>9, <2>1, <2>3
<1>12. TablesFound
  <2>1. \A k, l \in DOMAIN faces : k[2] = l[2] => k = l
    BY <1>5, <1>6
  <2>2. \A k \in DOMAIN faces : k = <<k[1], k[2]>> /\ k[1] \in DOMAIN persons
    BY <1>6, <1>7, <1>9
  <2>3. ASSUME NEW p \in DOMAIN persons
        PROVE  FacesOf(p) # {} /\ persons[p].count = Cardinality(FacesOf(p))
    <3> DEFINE n == Cardinality(FacesOf(p))
               f == CHOOSE g \in FacesOf(p) : TRUE
    <3>1. persons[p] = [name |-> NoName, count |-> n, thumb |-> f]
      BY <1>7
    <3> HIDE DEF f
    <3> QED
      BY <1>10, <3>1
  <2>4. \A e \in DOMAIN photofaces :
         \E k \in DOMAIN faces : k[2] = e[2] /\ faces[k].photo = e[1] /\ photofaces[e] = k[1]
    BY <1>6, <1>11
  <2> QED
    BY <2>1, <2>2, <2>3, <2>4 DEF TablesFound
<1>13. TablesTypeOK
  <2>1. persons \in [DOMAIN persons -> Persons] /\ DOMAIN persons \subseteq Seen
    BY <1>7, <1>9, <1>10
  <2>2. photofaces \in [DOMAIN photofaces -> Nat] /\ DOMAIN photofaces \subseteq PhotoRefs \X (0..(nextFace - 1))
    <3>1. \A e \in DOMAIN photofaces : photofaces[e] \in Nat
      BY <1>9, <1>11
    <3> QED
      BY <1>8, <1>11, <3>1
  <2>3. faces \in [DOMAIN faces -> FaceRow] /\ DOMAIN faces \subseteq Nat \X (0..(nextFace - 1))
    BY <1>5, <1>6, <1>9
  <2>4. merged \in [DOMAIN merged -> Nat \ {0}]
    BY <1>4
  <2> QED
    BY <1>4, <2>1, <2>2, <2>3, <2>4 DEF TablesTypeOK
<1> QED
  BY <1>2, <1>3, <1>4, <1>12, <1>13

LEMMA InitBase ==
    ASSUME Init
    PROVE  BaseInv
<1>1. \A w \in Workers : ~Holding(worker[w])
  BY InitFound DEF Holding
<1>2. MergersOK /\ FreshFaces
  BY InitFound DEF MergersOK, FreshFaces
<1>3. PersonsKnown
  BY <1>1, InitFound DEF PersonsKnown, FacesHavePersons, TablesFound
<1>4. \A f, row : Tells(f, row) => \E k \in DOMAIN faces : k[2] = f /\ faces[k] = row
  BY <1>1, InitFound DEF Tells
<1>5. OneRowEach
  BY <1>4, InitFound DEF OneRowEach, TablesFound
<1> QED
  BY <1>2, <1>3, <1>5, InitFound DEF BaseInv

\* The inductive invariant behind the type of the tables: ids are handed out
\* once, every face is written down with one photo and look only, and every
\* person faces are put under is known.
THEOREM TableInvariant == Spec => []BaseInv
<1> QED
  BY InitBase, NextBase, PTL DEF Spec

\* The tables, the replicas and the merges hold values of their types,
\* whichever request fails and whatever happens between two of them.
THEOREM TableTypeCorrect == Spec => []TypeOK
<1>1. BaseInv => TypeOK
  <2> SUFFICES ASSUME BaseInv PROVE TypeOK
    OBVIOUS
  <2>1. Seen \subseteq Nat /\ 0..(nextFace - 1) \subseteq Nat
    BY DEF BaseInv, WorkerInv, WorkerTypeOK, Seen
  <2> QED
    BY <2>1 DEF BaseInv, WorkerInv, TablesTypeOK, MergersOK, TypeOK
<1> QED
  BY <1>1, TableInvariant, PTL

\* A face is never left with a person that nobody knows: it exists, or was to
\* be merged away while the face was saved for it or moved to it.  This holds
\* though SaveFace and MergePeople are many requests, any of which may fail.
THEOREM FacesKeepPersons == Spec => []FacesHavePersons
<1>1. BaseInv => FacesHavePersons
  BY DEF BaseInv, PersonsKnown
<1> QED
  BY <1>1, TableInvariant, PTL
=============================================================================
