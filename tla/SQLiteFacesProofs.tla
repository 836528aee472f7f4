-------------------------- MODULE SQLiteFacesProofs --------------------------
(***************************************************************************)
(* The face store on SQLite keeps its tables in step and does what the     *)
(* interface promises, for any photos, faces, workers, replicas and        *)
(* failures.                                                               *)
(***************************************************************************)
EXTENDS SQLiteFaces, FaceWorkersProofs, FiniteSetTheorems

StoreTypeOK ==
    /\ DOMAIN persons \subseteq Nat /\ DOMAIN faces \subseteq Nat
    /\ persons \in [DOMAIN persons -> Persons]
    /\ faces \in [DOMAIN faces -> Faces]

\* the tables hold ids that have been handed out, and no worker is about to
\* save a face that is there
IdsFresh ==
    /\ DOMAIN persons \subseteq Seen
    /\ DOMAIN faces \subseteq 0..(nextFace - 1)
    /\ \A w \in Workers : Holding(worker[w]) => worker[w].face \notin DOMAIN faces

\* what the tables say of each other
TablesAgree == FacesBelong /\ CountsMatch

StoreInv == WorkerInv /\ StoreTypeOK /\ IdsFresh /\ TablesAgree

-----------------------------------------------------------------------------
(* The faces of a person after a save and after a merge.                   *)

LEMMA FacesFinite ==
    ASSUME StoreInv, NEW p
    PROVE  IsFiniteSet(DOMAIN faces) /\ IsFiniteSet(FacesOf(faces, p))
<1>1. nextFace \in Nat /\ DOMAIN faces \subseteq 0..(nextFace - 1)
  BY DEF StoreInv, WorkerInv, WorkerTypeOK, IdsFresh
<1>2. IsFiniteSet(DOMAIN faces)
  <2>1. nextFace - 1 \in Int /\ 0 \in Int
    BY <1>1
  <2> QED
    BY <1>1, <2>1, FS_Interval, FS_Subset
<1> QED
  BY <1>2, FS_Subset DEF FacesOf

LEMMA FacesOfAdded ==
    ASSUME NEW rows, NEW f, NEW face, f \notin DOMAIN rows, NEW p
    PROVE  LET added == [g \in DOMAIN rows \cup {f} |-> IF g = f THEN face ELSE rows[g]]
           IN  FacesOf(added, p) = IF p = face.person THEN FacesOf(rows, p) \cup {f}
                                                      ELSE FacesOf(rows, p)
BY DEF FacesOf

LEMMA MovedRow ==
    ASSUME StoreTypeOK, NEW source, NEW target \in Nat, NEW f \in DOMAIN faces
    PROVE  LET row == Moved(source, target)[f]
           IN  /\ row \in Faces /\ row.photo = faces[f].photo /\ row.look = faces[f].look
               /\ row.person = IF faces[f].person = source THEN target ELSE faces[f].person
<1>1. faces[f] \in Faces
  BY DEF StoreTypeOK
<1>2. Moved(source, target)[f] =
        IF faces[f].person = source THEN [faces[f] EXCEPT !.person = target] ELSE faces[f]
  BY DEF Moved
<1> QED
  BY <1>1, <1>2 DEF Faces

LEMMA FacesOfMoved ==
    ASSUME StoreTypeOK, NEW source, NEW target \in Nat, source # target, NEW p
    PROVE  /\ DOMAIN Moved(source, target) = DOMAIN faces
           /\ FacesOf(Moved(source, target), p) =
                 IF p = source THEN {}
                 ELSE IF p = target THEN FacesOf(faces, source) \cup FacesOf(faces, target)
                 ELSE FacesOf(faces, p)
<1>1. DOMAIN Moved(source, target) = DOMAIN faces
  BY DEF Moved
<1>2. \A f \in DOMAIN faces :
        Moved(source, target)[f].person = IF faces[f].person = source THEN target ELSE faces[f].person
  BY MovedRow
<1> QED
  BY <1>1, <1>2 DEF FacesOf

\* A person without a row has no faces, and one without faces has no row.
LEMMA NoRowNoFaces ==
    ASSUME StoreInv, NEW p
    PROVE  p \notin DOMAIN persons <=> FacesOf(faces, p) = {}
BY DEF StoreInv, TablesAgree, FacesBelong, FacesOf

\* Merging a person that is not there changes nothing.
LEMMA MergeNobody ==
    ASSUME StoreInv, NEW source \in Seen, NEW target \in Seen, source # target,
           source \notin DOMAIN persons, MergePeople(source, target)
    PROVE  UNCHANGED <<persons, faces>>
<1>1. FacesOf(faces, source) = {}
  BY NoRowNoFaces
<1>2. Moved(source, target) = faces
  <2>1. faces = [f \in DOMAIN faces |-> faces[f]]
    BY DEF StoreInv, StoreTypeOK
  <2> QED
    BY <1>1, <2>1 DEF Moved, FacesOf
<1>3. \A p \in DOMAIN persons : Recounted(faces, target)[p] = persons[p]
  <2> TAKE p \in DOMAIN persons
  <2>1. persons[p] \in Persons /\ persons[p].count = Cardinality(FacesOf(faces, p))
    BY DEF StoreInv, StoreTypeOK, TablesAgree, CountsMatch
  <2>2. [persons[p] EXCEPT !.count = persons[p].count] = persons[p]
    BY <2>1 DEF Persons
  <2> QED
    BY <2>1, <2>2 DEF Recounted
<1>4. persons = [p \in DOMAIN persons |-> persons[p]]
  BY DEF StoreInv, StoreTypeOK
<1>5. DOMAIN persons \ {source} = DOMAIN persons
  OBVIOUS
<1>6. persons' = [p \in DOMAIN persons |-> Recounted(faces, target)[p]] /\ faces' = faces
  BY <1>2, <1>5 DEF MergePeople
<1> QED
  BY <1>3, <1>4, <1>6

-----------------------------------------------------------------------------
(* Each call keeps the tables in step.                                     *)

LEMMA SaveRows ==
    ASSUME StoreInv, NEW f \in Nat, f \notin DOMAIN faces, NEW face \in Faces, SaveFace(f, face)
    PROVE  /\ StoreTypeOK' /\ TablesAgree'
           /\ DOMAIN persons' = DOMAIN persons \cup {face.person}
           /\ DOMAIN faces' = DOMAIN faces \cup {f}
           /\ faces'[f] = face
           /\ \A p \in DOMAIN persons' : persons'[p] =
                IF p \notin DOMAIN persons THEN [name |-> NoName, count |-> 1, thumb |-> f]
                ELSE IF p = face.person THEN [persons[p] EXCEPT !.count = @ + 1]
                ELSE persons[p]
<1> DEFINE q == face.person
<1>1. q \in Nat
  BY DEF Faces
<1>2. /\ DOMAIN persons' = DOMAIN persons \cup {q}
      /\ \A p \in DOMAIN persons' : persons'[p] =
                IF p \notin DOMAIN persons THEN [name |-> NoName, count |-> 1, thumb |-> f]
                ELSE IF p = q THEN [persons[p] EXCEPT !.count = @ + 1]
                ELSE persons[p]
  <2> DEFINE up == PersonUpserted(q, f)
  <2>1. /\ DOMAIN up = DOMAIN persons \cup {q}
        /\ \A p \in DOMAIN up : up[p] = IF p \in DOMAIN persons THEN persons[p]
                                        ELSE [name |-> NoName, count |-> 0, thumb |-> f]
    BY DEF PersonUpserted
  <2>2. persons' = [up EXCEPT ![q] = [up[q] EXCEPT !.count = @ + 1]]
    BY DEF SaveFace
  <2> HIDE DEF up
  <2>3. /\ DOMAIN persons' = DOMAIN up
        /\ \A p \in DOMAIN up : persons'[p] = IF p = q THEN [up[q] EXCEPT !.count = @ + 1] ELSE up[p]
    BY <2>1, <2>2
  <2>4. q \notin DOMAIN persons =>
          [up[q] EXCEPT !.count = @ + 1] = [name |-> NoName, count |-> 1, thumb |-> f]
    BY <2>1
  <2> QED
    BY <2>1, <2>3, <2>4
<1>3. /\ DOMAIN faces' = DOMAIN faces \cup {f}
      /\ \A g \in DOMAIN faces' : faces'[g] = IF g = f THEN face ELSE faces[g]
      /\ faces' \in [DOMAIN faces' -> Faces]
  BY DEF SaveFace, StoreInv, StoreTypeOK
<1>4. \A p \in DOMAIN persons : persons[p] \in Persons
  BY DEF StoreInv, StoreTypeOK
<1>5. persons' \in [DOMAIN persons' -> Persons]
  <2>1. ASSUME NEW p \in DOMAIN persons'
        PROVE  persons'[p] \in Persons
    <3>1. CASE p \notin DOMAIN persons
      <4>1. persons'[p] = [name |-> NoName, count |-> 1, thumb |-> f]
        BY <1>2, <3>1
      <4> QED
        BY <4>1 DEF Persons
    <3>2. CASE p \in DOMAIN persons
      <4>1. persons[p] \in Persons /\ [persons[p] EXCEPT !.count = @ + 1] \in Persons
        BY <1>4, <3>2 DEF Persons
      <4> QED
        BY <1>2, <3>2, <4>1
    <3> QED
      BY <3>1, <3>2
  <2>2. persons' = [p \in DOMAIN persons' |-> persons'[p]]
    BY DEF SaveFace
  <2> QED
    BY <2>1, <2>2
<1>6. ASSUME NEW p
      PROVE  FacesOf(faces', p) = IF p = q THEN FacesOf(faces, p) \cup {f} ELSE FacesOf(faces, p)
  <2>1. faces' = [g \in DOMAIN faces \cup {f} |-> IF g = f THEN face ELSE faces[g]]
    BY DEF SaveFace
  <2> QED
    BY <2>1, FacesOfAdded
<1>7. CountsMatch'
  <2> SUFFICES ASSUME NEW p \in DOMAIN persons'
               PROVE  persons'[p].count = Cardinality(FacesOf(faces', p))
    BY DEF CountsMatch, FacesOf
  <2>1. f \notin FacesOf(faces, p)
    BY DEF FacesOf
  <2>2. CASE p \in DOMAIN persons
    <3>1. persons[p].count = Cardinality(FacesOf(faces, p))
      BY <2>2 DEF StoreInv, TablesAgree, CountsMatch
    <3>2. Cardinality(FacesOf(faces, p) \cup {f}) = persons[p].count + 1
      BY <2>1, <3>1, FacesFinite, FS_AddElement
    <3> QED
      BY <1>2, <1>4, <1>6, <2>2, <3>1, <3>2 DEF Persons
  <2>3. CASE p \notin DOMAIN persons
    <3>1. FacesOf(faces, p) = {} /\ p = q
      BY <1>2, <2>3, NoRowNoFaces
    <3>2. Cardinality({f}) = 1 /\ FacesOf(faces', p) = {f}
      BY <1>6, <3>1, FS_Singleton
    <3>3. persons'[p] = [name |-> NoName, count |-> 1, thumb |-> f]
      BY <1>2, <2>3
    <3> QED
      BY <3>2, <3>3
  <2> QED
    BY <2>2, <2>3
<1>8. FacesBelong'
  <2>1. \A g \in DOMAIN faces' : faces'[g].person \in DOMAIN persons'
    BY <1>2, <1>3 DEF StoreInv, TablesAgree, FacesBelong
  <2>2. \A p \in DOMAIN persons' : persons'[p].thumb \in FacesOf(faces', p)
    <3> TAKE p \in DOMAIN persons'
    <3>1. CASE p \in DOMAIN persons
      <4>1. persons[p].thumb \in FacesOf(faces, p)
        BY <3>1 DEF StoreInv, TablesAgree, FacesBelong
      <4>2. persons'[p].thumb = persons[p].thumb
        BY <1>2, <1>4, <3>1 DEF Persons
      <4> QED
        BY <1>6, <4>1, <4>2
    <3>2. CASE p \notin DOMAIN persons
      <4>1. persons'[p] = [name |-> NoName, count |-> 1, thumb |-> f] /\ p = q
        BY <1>2, <3>2
      <4> QED
        BY <1>6, <4>1
    <3> QED
      BY <3>1, <3>2
  <2> QED
    BY <2>1, <2>2 DEF FacesBelong, FacesOf
<1>9. StoreTypeOK'
  BY <1>1, <1>2, <1>3, <1>5 DEF StoreTypeOK, StoreInv
<1> QED
  BY <1>2, <1>3, <1>7, <1>8, <1>9 DEF TablesAgree

LEMMA MergeRows ==
    ASSUME StoreInv, NEW source \in Seen, NEW target \in Seen, source # target,
           source \in DOMAIN persons, MergePeople(source, target)
    PROVE  /\ StoreTypeOK' /\ TablesAgree'
           /\ target \in DOMAIN persons
           /\ DOMAIN persons' = DOMAIN persons \ {source}
           /\ DOMAIN faces' = DOMAIN faces
           /\ \A p \in DOMAIN persons' : persons'[p] =
                IF p = target THEN [persons[p] EXCEPT !.count = persons[target].count + persons[source].count]
                              ELSE persons[p]
<1>1. source \in Nat /\ target \in Nat
  BY DEF Seen, StoreInv, WorkerInv, WorkerTypeOK
<1>2. target \in DOMAIN persons
  BY NoRowNoFaces DEF MergePeople
<1>3. /\ faces' = Moved(source, target) /\ DOMAIN faces' = DOMAIN faces
      /\ faces' \in [DOMAIN faces' -> Faces]
      /\ \A f \in DOMAIN faces :
           faces'[f].person = IF faces[f].person = source THEN target ELSE faces[f].person
  <2>1. faces' = Moved(source, target) /\ faces' = [f \in DOMAIN faces |-> faces'[f]]
    BY DEF MergePeople, Moved
  <2>2. \A f \in DOMAIN faces :
           /\ faces'[f] \in Faces
           /\ faces'[f].person = IF faces[f].person = source THEN target ELSE faces[f].person
    BY <1>1, <2>1, MovedRow DEF StoreInv
  <2> QED
    BY <2>1, <2>2
<1>4. ASSUME NEW p
      PROVE  FacesOf(faces', p) =
                 IF p = source THEN {}
                 ELSE IF p = target THEN FacesOf(faces, source) \cup FacesOf(faces, target)
                 ELSE FacesOf(faces, p)
  BY <1>1, <1>3, FacesOfMoved DEF StoreInv
<1>5. \A p \in DOMAIN persons : persons[p] \in Persons /\ persons[p].count = Cardinality(FacesOf(faces, p))
  BY DEF StoreInv, StoreTypeOK, TablesAgree, CountsMatch
<1>6. Cardinality(FacesOf(faces', target)) = persons[target].count + persons[source].count
  <2>1. FacesOf(faces, source) \cap FacesOf(faces, target) = {}
    BY DEF FacesOf
  <2>2. Cardinality(FacesOf(faces, source) \cup FacesOf(faces, target))
          = persons[source].count + persons[target].count - 0
    BY <1>2, <1>5, <2>1, FacesFinite, FS_Union, FS_EmptySet
  <2>3. persons[source].count \in Nat /\ persons[target].count \in Nat
    BY <1>2, <1>5 DEF Persons
  <2>4. FacesOf(faces', target) = FacesOf(faces, source) \cup FacesOf(faces, target)
    BY <1>4
  <2> QED
    BY <2>2, <2>3, <2>4
<1>7. /\ DOMAIN persons' = DOMAIN persons \ {source}
      /\ \A p \in DOMAIN persons' : persons'[p] =
           IF p = target THEN [persons[p] EXCEPT !.count = Cardinality(FacesOf(faces', target))]
                         ELSE persons[p]
  BY <1>3 DEF MergePeople, Recounted
<1>8. \A p \in DOMAIN persons' :
        /\ persons'[p] \in Persons /\ persons'[p].thumb = persons[p].thumb
        /\ persons'[p].count = Cardinality(FacesOf(faces', p))
  <2> TAKE p \in DOMAIN persons'
  <2>1. CASE p = target
    <3>1. persons'[p] = [persons[p] EXCEPT !.count = Cardinality(FacesOf(faces', target))]
      BY <1>7, <2>1
    <3>2. Cardinality(FacesOf(faces', target)) \in Nat /\ persons[p] \in Persons
      BY <1>2, <1>5, <1>6, <1>7, <2>1 DEF Persons
    <3> QED
      BY <2>1, <3>1, <3>2 DEF Persons
  <2>2. CASE p # target
    BY <1>4, <1>5, <1>7, <2>2
  <2> QED
    BY <2>1, <2>2
<1>9. persons' \in [DOMAIN persons' -> Persons]
  <2>1. persons' = [p \in DOMAIN persons' |-> persons'[p]]
    BY DEF MergePeople
  <2> QED
    BY <1>8, <2>1
<1>10. StoreTypeOK'
  BY <1>3, <1>7, <1>9 DEF StoreTypeOK, StoreInv
<1>11. CountsMatch'
  BY <1>8 DEF CountsMatch, FacesOf
<1>12. FacesBelong'
  <2>1. \A f \in DOMAIN faces' : faces'[f].person \in DOMAIN persons'
    BY <1>2, <1>3, <1>7 DEF StoreInv, TablesAgree, FacesBelong
  <2>2. \A p \in DOMAIN persons' : persons[p].thumb \in FacesOf(faces', p)
    BY <1>4, <1>7 DEF StoreInv, TablesAgree, FacesBelong
  <2> QED
    BY <1>8, <2>1, <2>2 DEF FacesBelong, FacesOf
<1> QED
  BY <1>2, <1>3, <1>6, <1>7, <1>10, <1>11, <1>12 DEF TablesAgree

-----------------------------------------------------------------------------
(* Each step of the callers keeps the invariant.                           *)

LEMMA InvInit ==
    ASSUME Init
    PROVE  StoreInv
<1>1. WorkerInv
  BY WorkerInvInit DEF Init
<1>2. \A w \in Workers : ~Holding(worker[w])
  BY RestingType DEF Init, WorkerInit
<1>3. StoreTypeOK /\ TablesAgree
  BY DEF Init, StoreTypeOK, TablesAgree, FacesBelong, CountsMatch
<1> QED
  BY <1>1, <1>2, <1>3 DEF StoreInv, IdsFresh, Init

\* A step that leaves the tables alone and gives no worker an id in use.
LEMMA TablesUntouched ==
    ASSUME StoreInv, WorkerInv', UNCHANGED <<persons, faces>>,
           nextPerson <= nextPerson', nextFace <= nextFace',
           \A w \in Workers : Holding(worker'[w]) =>
             worker'[w].face = nextFace \/ (Holding(worker[w]) /\ worker'[w].face = worker[w].face)
    PROVE  StoreInv'
<1>1. nextPerson \in Nat /\ nextFace \in Nat /\ nextPerson' \in Nat /\ nextFace' \in Nat
  BY DEF StoreInv, WorkerInv, WorkerTypeOK
<1>2. StoreTypeOK' /\ TablesAgree'
  BY DEF StoreInv, StoreTypeOK, TablesAgree, FacesBelong, CountsMatch, FacesOf
<1>3. DOMAIN persons' \subseteq 0..(nextPerson' - 1) /\ DOMAIN faces' \subseteq 0..(nextFace' - 1)
  BY <1>1 DEF StoreInv, IdsFresh, Seen
<1>4. \A w \in Workers : Holding(worker'[w]) => worker'[w].face \notin DOMAIN faces'
  BY <1>1 DEF StoreInv, IdsFresh
<1> QED
  BY <1>2, <1>3, <1>4 DEF StoreInv, IdsFresh, Seen, Holding

LEMMA OwnersSeen ==
    ASSUME StoreInv, NEW look
    PROVE  Owners(look) \in SUBSET Seen
BY DEF Owners, StoreInv, IdsFresh, TablesAgree, FacesBelong

LEMMA ReadingKeeps ==
    ASSUME StoreInv, NEW w \in Workers, Reading(w)
    PROVE  StoreInv'
<1>1. WorkerInv /\ UNCHANGED <<persons, faces>> /\ nextPerson \in Nat /\ nextFace \in Nat
  BY DEF StoreInv, WorkerInv, WorkerTypeOK, Reading
<1>2. CASE Match(w, Owners(Look(w)))
  <2>1. /\ WorkerInv'
        /\ nextPerson <= nextPerson' /\ nextFace' = nextFace + 1
        /\ worker'[w].face = nextFace
        /\ \A v \in Workers : v # w => worker'[v] = worker[v]
    BY <1>1, <1>2, MatchFacts, OwnersSeen
  <2> QED
    BY <1>1, <2>1, TablesUntouched
<1>3. CASE Take(w) \/ Check(w, Processed(worker[w].photo)) \/ Detect(w)
  <2>1. /\ WorkerInv' /\ nextPerson' = nextPerson /\ nextFace' = nextFace
        /\ ~Holding(worker'[w])
        /\ \A v \in Workers : v # w => worker'[v] = worker[v]
    BY <1>1, <1>3, LookingFacts DEF Holding
  <2> QED
    BY <1>1, <2>1, TablesUntouched
<1> QED
  BY <1>2, <1>3 DEF Reading

LEMMA SaveEndsOthers ==
    ASSUME StoreInv, NEW w \in Workers, SaveEnds(w), NEW v \in Workers, v # w
    PROVE  worker'[v] = worker[v]
BY DEF SaveEnds, Become, StoreInv, WorkerInv, WorkerTypeOK

LEMMA SaveKeeps ==
    ASSUME StoreInv, NEW w \in Workers, Save(w)
    PROVE  StoreInv'
<1> DEFINE f == worker[w].face
           face == [person |-> worker[w].person, photo |-> worker[w].photo, look |-> Look(w)]
<1>1. Holding(worker[w]) /\ WorkerInv
  BY DEF Save, Holding, StoreInv
<1>2. WorkerInv' /\ ~Holding(worker'[w])
  BY <1>1, SaveEndsWell, FaultsType DEF Save
<1>3. \A v \in Workers : Holding(worker'[v]) => Holding(worker[v]) /\ worker'[v] = worker[v] /\ v # w
  BY <1>2, SaveEndsOthers DEF Save
<1>4. nextPerson \in Nat /\ nextFace \in Nat /\ nextPerson' = nextPerson /\ nextFace' = nextFace
  BY <1>1 DEF WorkerInv, WorkerTypeOK, Save
<1>5. CASE UNCHANGED <<persons, faces>>
  BY <1>2, <1>3, <1>4, <1>5, TablesUntouched
<1>6. CASE SaveFace(f, face)
  <2>1. f \in Nat /\ f < nextFace /\ f \notin DOMAIN faces /\ face.person \in Seen /\ face \in Faces
    <3>1. worker[w] \in WorkerState /\ f < nextFace /\ worker[w].person < nextPerson
      BY <1>1 DEF WorkerInv, WorkerTypeOK, IdsHandedOut
    <3>2. face \in Faces
      BY <1>1, <3>1, LookType DEF Faces, WorkerState
    <3> QED
      BY <1>1, <1>4, <3>1, <3>2 DEF WorkerState, StoreInv, IdsFresh, Seen
  <2> HIDE DEF f, face
  <2>2. /\ StoreTypeOK' /\ TablesAgree'
        /\ DOMAIN persons' = DOMAIN persons \cup {face.person}
        /\ DOMAIN faces' = DOMAIN faces \cup {f}
    BY <1>6, <2>1, SaveRows
  <2>3. DOMAIN persons' \subseteq Seen /\ DOMAIN faces' \subseteq 0..(nextFace - 1)
    BY <1>4, <2>1, <2>2 DEF StoreInv, IdsFresh
  <2>4. \A v \in Workers : Holding(worker'[v]) => worker'[v].face \notin DOMAIN faces'
    BY <1>1, <1>3, <2>2 DEF StoreInv, IdsFresh, WorkerInv, IdsHandedOut, f
  <2> QED
    BY <1>2, <1>4, <2>2, <2>3, <2>4 DEF StoreInv, IdsFresh, Seen, Holding
<1> QED
  BY <1>5, <1>6 DEF Save

LEMMA CronLoopKeeps ==
    ASSUME StoreInv, CronLoop \/ (CronStart /\ UNCHANGED <<persons, faces>>)
    PROVE  StoreInv'
<1>1. WorkerInv /\ UNCHANGED <<persons, faces, nextPerson, nextFace>>
  BY DEF CronLoop, StoreInv, CronStart, CronCheck, CronSpawn, CronEnd
<1>2. WorkerInv'
  BY <1>1, CronStartWell, CronCheckWell, CronSpawnWell, CronEndWell DEF CronLoop
<1>3. \A v \in Workers : Holding(worker'[v]) => worker'[v] = worker[v]
  <2>1. CASE CronSpawn
    <3>1. PICK w \in CronSlots : Become(w, [Resting EXCEPT !.pc = "detect", !.photo = cron.photo])
      BY <2>1 DEF CronSpawn
    <3>2. ~Holding([Resting EXCEPT !.pc = "detect", !.photo = cron.photo])
      BY DEF Resting, Holding
    <3> QED
      BY <1>1, <3>1, <3>2 DEF Become, WorkerInv, WorkerTypeOK
  <2>2. CASE UNCHANGED worker
    BY <2>2
  <2> QED
    BY <2>1, <2>2 DEF CronLoop, CronStart, CronCheck, CronEnd
<1>4. nextPerson <= nextPerson' /\ nextFace <= nextFace'
  BY <1>1 DEF WorkerInv, WorkerTypeOK
<1> QED
  BY <1>1, <1>2, <1>3, <1>4, TablesUntouched

LEMMA DisruptKeeps ==
    ASSUME StoreInv, Disrupt
    PROVE  StoreInv'
<1>1. WorkerInv /\ UNCHANGED <<persons, faces, nextPerson, nextFace>>
  BY DEF Disrupt, StoreInv, Die, CronDies
<1>2. WorkerInv'
  BY <1>1, DieWell, CronDiesWell DEF Disrupt
<1>3. \A v \in Workers : Holding(worker'[v]) => worker'[v] = worker[v]
  BY <1>1, RestingType DEF Disrupt, Die, CronDies, Become, WorkerInv, WorkerTypeOK
<1>4. nextPerson <= nextPerson' /\ nextFace <= nextFace'
  BY <1>1 DEF WorkerInv, WorkerTypeOK
<1> QED
  BY <1>1, <1>2, <1>3, <1>4, TablesUntouched

LEMMA AdministerKeeps ==
    ASSUME StoreInv, Administer
    PROVE  StoreInv'
<1>1. WorkerInv /\ UNCHANGED <<queue, worker, cron, nextPerson, nextFace>>
  BY DEF Administer, AdminCalls, StoreInv
<1>2. WorkerInv'
  <2>1. calls' \in Nat
    BY <1>1 DEF WorkerInv, WorkerTypeOK, Administer, AdminCalls
  <2>2. faults' \in 0..MaxFaults
    BY <1>1, FaultsType DEF Administer
  <2> QED
    BY <1>1, <2>1, <2>2, CallsGoOn
<1>3. nextPerson <= nextPerson' /\ nextFace <= nextFace'
  BY <1>1 DEF WorkerInv, WorkerTypeOK
<1>4. CASE UNCHANGED <<persons, faces>>
  BY <1>1, <1>2, <1>3, <1>4, TablesUntouched
<1>5. SUFFICES ASSUME StoreTypeOK', TablesAgree', DOMAIN persons' \subseteq DOMAIN persons,
                      DOMAIN faces' = DOMAIN faces
               PROVE  StoreInv'
  <2>1. ASSUME NEW p \in Seen, NEW name \in Names, SetPersonName(p, name)
        PROVE  /\ StoreTypeOK' /\ TablesAgree' /\ DOMAIN persons' \subseteq DOMAIN persons
               /\ DOMAIN faces' = DOMAIN faces
    <3>1. /\ p \in DOMAIN persons /\ faces' = faces /\ DOMAIN persons' = DOMAIN persons
          /\ persons' = [persons EXCEPT ![p] = [persons[p] EXCEPT !.name = name]]
      BY <2>1 DEF SetPersonName
    <3>2. \A q \in DOMAIN persons :
             /\ persons[q] \in Persons /\ persons'[q] \in Persons
             /\ persons'[q].count = persons[q].count /\ persons'[q].thumb = persons[q].thumb
      BY <3>1 DEF StoreInv, StoreTypeOK, Persons
    <3>3. StoreTypeOK'
      BY <3>1, <3>2 DEF StoreInv, StoreTypeOK
    <3>4. TablesAgree'
      BY <3>1, <3>2 DEF StoreInv, TablesAgree, FacesBelong, CountsMatch, FacesOf
    <3> QED
      BY <3>1, <3>3, <3>4
  <2>2. ASSUME NEW source \in Seen, NEW target \in Seen, source # target, MergePeople(source, target)
        PROVE  \/ UNCHANGED <<persons, faces>>
               \/ /\ StoreTypeOK' /\ TablesAgree' /\ DOMAIN persons' \subseteq DOMAIN persons
                  /\ DOMAIN faces' = DOMAIN faces
    BY <2>2, MergeNobody, MergeRows
  <2> QED
    BY <1>4, <2>1, <2>2 DEF Administer
<1> QED
  BY <1>1, <1>2, <1>5 DEF StoreInv, IdsFresh, Seen, Holding

LEMMA StutterKeeps ==
    ASSUME StoreInv, UNCHANGED vars
    PROVE  StoreInv'
BY DEF vars, StoreInv, WorkerInv, WorkerTypeOK, AtWork, Holding, IdsHandedOut,
       StoreTypeOK, IdsFresh, Seen, TablesAgree, FacesBelong, CountsMatch, FacesOf

LEMMA NextKeeps ==
    ASSUME StoreInv, [Next]_vars
    PROVE  StoreInv'
<1>1. CASE \E w \in Workers : Step(w)
  BY <1>1, ReadingKeeps, SaveKeeps DEF Step
<1>2. CASE CronLoop \/ (CronStart /\ UNCHANGED <<persons, faces>>)
  BY <1>2, CronLoopKeeps
<1>3. CASE Administer
  BY <1>3, AdministerKeeps
<1>4. CASE Disrupt
  BY <1>4, DisruptKeeps
<1>5. CASE Finished \/ UNCHANGED vars
  BY <1>5, StutterKeeps DEF Finished
<1> QED
  BY <1>1, <1>2, <1>3, <1>4, <1>5 DEF Next

\* The inductive invariant: ids are handed out once, the tables hold only ids
\* handed out, and agree with each other.
THEOREM StoreInvariant == Spec => []StoreInv
<1> QED
  BY InvInit, NextKeeps, PTL DEF Spec

\* The tables and the workers hold values of their types: the statements of
\* sqlite.go never read a row or a column that is missing.
THEOREM TypeCorrect == Spec => []TypeOK
<1>1. StoreInv => TypeOK
  BY DEF StoreInv, WorkerInv, StoreTypeOK, TypeOK
<1> QED
  BY <1>1, StoreInvariant, PTL

\* The face counts are right after every save and every merge, in whatever
\* order replicas, the backfill job and administrators get to the database:
\* the increment of SaveFace and the recount of MergePeople never disagree.
THEOREM CountsCorrect == Spec => []CountsMatch
<1>1. StoreInv => CountsMatch
  BY DEF StoreInv, TablesAgree
<1> QED
  BY <1>1, StoreInvariant, PTL

\* No face is left with a person that was merged away and no person with a
\* thumbnail that is not its own, though a merge may come between the match of
\* a face and its save.
THEOREM NothingDangles == Spec => []FacesBelong
<1>1. StoreInv => FacesBelong
  BY DEF StoreInv, TablesAgree
<1> QED
  BY <1>1, StoreInvariant, PTL

-----------------------------------------------------------------------------
(* The transactions implement the interface.                               *)

LEMMA SavePromised ==
    ASSUME StoreInv, NEW w \in Workers, Save(w)
    PROVE  [Promised!Next]_(Promised!storeVars)
<1> DEFINE f == worker[w].face
           face == [person |-> worker[w].person, photo |-> worker[w].photo, look |-> Look(w)]
<1>1. CASE UNCHANGED <<persons, faces>>
  BY <1>1 DEF Promised!storeVars
<1>2. CASE SaveFace(f, face)
  <2>1. f \in Nat /\ f \notin DOMAIN faces /\ face \in Faces
    <3>1. worker[w] \in WorkerState /\ Holding(worker[w]) /\ WorkerInv
      BY DEF WorkerInv, WorkerTypeOK, StoreInv, Save, Holding
    <3>2. face \in Faces
      BY <3>1, LookType DEF Faces, WorkerState
    <3> QED
      BY <3>1, <3>2 DEF WorkerState, StoreInv, IdsFresh
  <2>2. faces' = [g \in DOMAIN faces \cup {f} |-> IF g = f THEN face ELSE faces[g]]
    BY <1>2 DEF SaveFace
  <2> HIDE DEF f, face
  <2>3. /\ DOMAIN persons' = DOMAIN persons \cup {face.person}
        /\ DOMAIN faces' = DOMAIN faces \cup {f}
        /\ faces'[f] = face
        /\ \A p \in DOMAIN persons' : persons'[p] =
                IF p \notin DOMAIN persons THEN [name |-> NoName, count |-> 1, thumb |-> f]
                ELSE IF p = face.person THEN [persons[p] EXCEPT !.count = @ + 1]
                ELSE persons[p]
    BY <1>2, <2>1, SaveRows
  <2> DEFINE row(p) == [name |-> persons[p].name, count |-> persons[p].count]
             seen == [p \in DOMAIN persons |-> row(p)]
  <2>4. ASSUME NEW p \in DOMAIN persons'
        PROVE  row(p)' = IF p = face.person
                         THEN [name |-> Promised!Name(p), count |-> Promised!Count(p) + 1]
                         ELSE seen[p]
    <3>1. CASE p \notin DOMAIN persons
      <4>1. persons'[p] = [name |-> NoName, count |-> 1, thumb |-> f] /\ p = face.person
        BY <2>3, <3>1
      <4>2. Promised!Name(p) = NoName /\ Promised!Count(p) = 0
        BY <3>1 DEF Promised!Name, Promised!Count
      <4> QED
        BY <4>1, <4>2
    <3>2. CASE p \in DOMAIN persons
      <4>1. persons[p] \in Persons
        BY <3>2 DEF StoreInv, StoreTypeOK
      <4>2. Promised!Name(p) = persons[p].name /\ Promised!Count(p) = persons[p].count
        BY <3>2 DEF Promised!Name, Promised!Count
      <4>3. CASE p = face.person
        <5>1. persons'[p] = [persons[p] EXCEPT !.count = persons[p].count + 1]
          BY <2>3, <3>2, <4>3
        <5> QED
          BY <4>1, <4>2, <4>3, <5>1 DEF Persons
      <4>4. CASE p # face.person
        BY <2>3, <3>2, <4>4
      <4> QED
        BY <4>3, <4>4
    <3> QED
      BY <3>1, <3>2
  <2>5. seen' = [p \in DOMAIN seen \cup {face.person} |->
                  IF p = face.person THEN [name |-> Promised!Name(p), count |-> Promised!Count(p) + 1]
                                     ELSE seen[p]]
    BY <2>3, <2>4
  <2>6. Promised!SaveFace(f, faces'[f])
    BY <2>1, <2>2, <2>3, <2>5 DEF Promised!SaveFace
  <2>7. f \in DOMAIN faces' /\ faces'[f] \in Promised!Faces
    BY <2>1, <2>3 DEF Faces, Promised!Faces
  <2> QED
    BY <2>3, <2>6, <2>7 DEF Promised!Next
<1> QED
  BY <1>1, <1>2 DEF Save

LEMMA MergePromised ==
    ASSUME StoreInv, NEW source \in Seen, NEW target \in Seen, source # target,
           MergePeople(source, target)
    PROVE  [Promised!Next]_(Promised!storeVars)
<1>1. CASE source \notin DOMAIN persons
  BY <1>1, MergeNobody DEF Promised!storeVars
<1>2. CASE source \in DOMAIN persons
  <2> DEFINE row(p) == [name |-> persons[p].name, count |-> persons[p].count]
             seen == [p \in DOMAIN persons |-> row(p)]
  <2>1. /\ target \in DOMAIN persons
        /\ DOMAIN persons' = DOMAIN persons \ {source}
        /\ \A p \in DOMAIN persons' : persons'[p] =
             IF p = target THEN [persons[p] EXCEPT !.count = persons[target].count + persons[source].count]
                           ELSE persons[p]
    BY <1>2, MergeRows
  <2>2. faces' = [f \in DOMAIN faces |->
                   IF faces[f].person = source THEN [faces[f] EXCEPT !.person = target] ELSE faces[f]]
    BY DEF MergePeople, Moved
  <2>3. Promised!Count(source) = persons[source].count
    BY <1>2 DEF Promised!Count
  <2>4. ASSUME NEW p \in DOMAIN persons'
        PROVE  row(p)' = IF p = target THEN [seen[p] EXCEPT !.count = @ + Promised!Count(source)]
                                       ELSE seen[p]
    <3>1. CASE p = target
      <4>1. persons'[p] = [persons[p] EXCEPT !.count = persons[p].count + persons[source].count]
        BY <2>1, <3>1
      <4>2. persons[p] \in Persons
        BY <2>1, <3>1 DEF StoreInv, StoreTypeOK
      <4>3. [seen[p] EXCEPT !.count = @ + persons[source].count]
              = [name |-> persons[p].name, count |-> persons[p].count + persons[source].count]
        BY <2>1, <3>1
      <4> QED
        BY <2>3, <3>1, <4>1, <4>2, <4>3 DEF Persons
    <3>2. CASE p # target
      BY <2>1, <3>2
    <3> QED
      BY <3>1, <3>2
  <2>5. seen' = [p \in DOMAIN seen \ {source} |->
                   IF p = target THEN [seen[p] EXCEPT !.count = @ + Promised!Count(source)]
                                 ELSE seen[p]]
    BY <2>1, <2>4
  <2>6. Promised!MergePeople(source, target)
    BY <2>1, <2>2, <2>5 DEF Promised!MergePeople
  <2> QED
    BY <1>2, <2>1, <2>6 DEF Promised!Next
<1> QED
  BY <1>1, <1>2

LEMMA NamePromised ==
    ASSUME StoreInv, NEW q \in Seen, NEW name \in Names, SetPersonName(q, name)
    PROVE  Promised!Next
<1> DEFINE row(p) == [name |-> persons[p].name, count |-> persons[p].count]
           seen == [p \in DOMAIN persons |-> row(p)]
<1>1. /\ q \in DOMAIN persons /\ faces' = faces /\ DOMAIN persons' = DOMAIN persons
      /\ \A p \in DOMAIN persons : persons'[p] = IF p = q THEN [persons[q] EXCEPT !.name = name]
                                                         ELSE persons[p]
  BY DEF SetPersonName
<1>2. persons[q] \in Persons
  BY <1>1 DEF StoreInv, StoreTypeOK
<1>3. ASSUME NEW p \in DOMAIN persons
      PROVE  row(p)' = IF p = q THEN [seen[p] EXCEPT !.name = name] ELSE seen[p]
  BY <1>1, <1>2 DEF Persons
<1>4. seen' = [seen EXCEPT ![q] = [seen[q] EXCEPT !.name = name]]
  BY <1>1, <1>3
<1>5. Promised!SetPersonName(q, name)
  BY <1>1, <1>4 DEF Promised!SetPersonName
<1> QED
  BY <1>1, <1>5 DEF Promised!Next

LEMMA StepPromised ==
    ASSUME StoreInv, [Next]_vars
    PROVE  [Promised!Next]_(Promised!storeVars)
<1>1. CASE \E w \in Workers : Step(w)
  BY <1>1, SavePromised DEF Step, Reading, Promised!storeVars
<1>2. CASE Administer
  BY <1>2, NamePromised, MergePromised DEF Administer, Promised!storeVars
<1>3. CASE UNCHANGED <<persons, faces>>
  BY <1>3 DEF Promised!storeVars
<1> QED
  BY <1>1, <1>2, <1>3 DEF Next, CronLoop, Disrupt, Finished, vars

\* SaveFace, SetPersonName and MergePeople of sqlite.go implement the
\* interface (facestore.go:11-35) under any callers: each transaction is one
\* of the promised operations, or changes nothing.  The abstract merge adds
\* the counts of the two persons; that the recount of sqlite.go comes to the
\* same needs the invariant.
THEOREM InterfaceKept == Spec => PromisesKept
<1>1. Init => Promised!Init
  BY DEF Init, Promised!Init
<1> QED
  BY <1>1, StepPromised, StoreInvariant, PTL DEF Spec, PromisesKept, Promised!Spec
=============================================================================
