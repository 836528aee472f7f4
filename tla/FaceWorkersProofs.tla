-------------------------- MODULE FaceWorkersProofs --------------------------
(***************************************************************************)
(* What the callers of the face store keep true, whatever the store does:  *)
(* the lemmas SQLiteFacesProofs and TableFacesProofs rest on.              *)
(***************************************************************************)
EXTENDS FaceWorkers, TLAPS

\* a worker that has been given ids for the face at hand
Holding(s) == s.pc \in {"save", "face", "index", "count", "patch"}

\* a worker past the detector is at a face of a photo it has
AtWork(s) ==
    Holding(s) \/ s.pc = "match" => s.photo # None /\ s.nth \in 1..Len(Detected[s.photo])

\* ids are in use once, and handed out in order
IdsHandedOut ==
    /\ \A w \in Workers : Holding(worker[w]) =>
         worker[w].face < nextFace /\ worker[w].person < nextPerson
    /\ \A v, w \in Workers : v # w /\ Holding(worker[v]) /\ Holding(worker[w]) =>
         worker[v].face # worker[w].face

WorkerInv ==
    /\ WorkerTypeOK
    /\ \A w \in Workers : AtWork(worker[w])
    /\ IdsHandedOut

-----------------------------------------------------------------------------

LEMMA RestingType == Resting \in WorkerState /\ AtWork(Resting) /\ ~Holding(Resting)
BY DEF Resting, WorkerState, AtWork, Holding

LEMMA LookType ==
    ASSUME WorkerInv, NEW w \in Workers, Holding(worker[w]) \/ worker[w].pc = "match"
    PROVE  worker[w].photo \in PhotoRefs /\ Look(w) \in Looks
BY WorkerAssumption DEF WorkerInv, WorkerTypeOK, WorkerState, AtWork, Holding, Look

LEMMA FaultsType ==
    ASSUME WorkerInv, CallFails \/ CallWorks
    PROVE  faults' \in 0..MaxFaults
BY WorkerAssumption DEF WorkerInv, WorkerTypeOK, CallFails, CallWorks

LEMMA WorkerInvInit ==
    ASSUME NEW start \in Starts, WorkerInit(start)
    PROVE  WorkerInv
<1>1. start \in StartType
  BY WorkerAssumption
<1>2. WorkerTypeOK
  BY <1>1, RestingType, WorkerAssumption DEF WorkerInit, WorkerTypeOK, StartType, CronState
<1>3. \A w \in Workers : worker[w] = Resting
  BY DEF WorkerInit
<1> QED
  BY <1>2, <1>3, RestingType DEF WorkerInv, IdsHandedOut, WorkerInit

\* A worker goes on to a state of its own, with ids nobody else has.
LEMMA BecomeWell ==
    ASSUME WorkerInv, NEW w \in Workers, NEW s \in WorkerState, AtWork(s), Become(w, s),
           nextPerson' \in Nat, nextFace' \in Nat,
           nextPerson <= nextPerson', nextFace <= nextFace',
           Holding(s) => s.face < nextFace' /\ s.person < nextPerson',
           \A v \in Workers : v # w /\ Holding(s) /\ Holding(worker[v]) => worker[v].face # s.face,
           queue' \in [PhotoRefs -> Nat], calls' \in Nat, faults' \in 0..MaxFaults,
           UNCHANGED cron
    PROVE  WorkerInv'
<1>1. worker' = [worker EXCEPT ![w] = s] /\ worker \in [Workers -> WorkerState]
  BY DEF Become, WorkerInv, WorkerTypeOK
<1>2. \A v \in Workers : worker'[v] = IF v = w THEN s ELSE worker[v]
  BY <1>1
<1>3. WorkerTypeOK'
  BY <1>1 DEF WorkerInv, WorkerTypeOK
<1>4. \A v \in Workers : AtWork(worker'[v])
  BY <1>2 DEF WorkerInv
<1>5. \A v \in Workers : Holding(worker'[v]) =>
         worker'[v].face < nextFace' /\ worker'[v].person < nextPerson'
  <2> SUFFICES ASSUME NEW v \in Workers, v # w, Holding(worker[v])
               PROVE  worker[v].face < nextFace' /\ worker[v].person < nextPerson'
    BY <1>2
  <2>1. worker[v].face \in Nat /\ worker[v].person \in Nat /\ nextFace \in Nat /\ nextPerson \in Nat
    BY <1>1 DEF WorkerState, WorkerInv, WorkerTypeOK
  <2> QED
    BY <2>1 DEF WorkerInv, IdsHandedOut
<1>6. \A u, v \in Workers : u # v /\ Holding(worker'[u]) /\ Holding(worker'[v]) =>
         worker'[u].face # worker'[v].face
  BY <1>2 DEF WorkerInv, IdsHandedOut
<1> QED
  BY <1>3, <1>4, <1>5, <1>6 DEF WorkerInv, IdsHandedOut, AtWork, Holding

\* The same for a worker that gives its ids up, or keeps those it has.
LEMMA KeepOrDrop ==
    ASSUME WorkerInv, NEW w \in Workers, NEW s \in WorkerState, AtWork(s), Become(w, s),
           Holding(s) => Holding(worker[w]) /\ s.face = worker[w].face /\ s.person = worker[w].person,
           UNCHANGED <<cron, nextPerson, nextFace, calls>>,
           queue' \in [PhotoRefs -> Nat], faults' \in 0..MaxFaults
    PROVE  WorkerInv'
<1>1. nextPerson \in Nat /\ nextFace \in Nat /\ calls \in Nat
  BY DEF WorkerInv, WorkerTypeOK
<1>2. Holding(s) => s.face < nextFace /\ s.person < nextPerson
  BY DEF WorkerInv, IdsHandedOut
<1>3. \A v \in Workers : v # w /\ Holding(s) /\ Holding(worker[v]) => worker[v].face # s.face
  BY DEF WorkerInv, IdsHandedOut
<1> QED
  BY <1>1, <1>2, <1>3, BecomeWell

LEMMA GoToWell ==
    ASSUME WorkerInv, NEW w \in Workers, Holding(worker[w]), NEW pc,
           pc \in {"face", "index", "count", "patch"}, GoTo(w, pc),
           UNCHANGED <<queue, cron, nextPerson, nextFace, calls>>, faults' \in 0..MaxFaults
    PROVE  WorkerInv'
<1> DEFINE s == [worker[w] EXCEPT !.pc = pc]
<1>1. worker[w] \in WorkerState /\ queue \in [PhotoRefs -> Nat]
  BY DEF WorkerInv, WorkerTypeOK
<1>2. s \in WorkerState /\ AtWork(s)
  BY <1>1 DEF WorkerState, WorkerInv, AtWork, Holding
<1>3. Holding(s) => Holding(worker[w]) /\ s.face = worker[w].face /\ s.person = worker[w].person
  BY <1>1 DEF WorkerState
<1>4. Become(w, s)
  BY DEF GoTo
<1> HIDE DEF s
<1> QED
  BY <1>1, <1>2, <1>3, <1>4, KeepOrDrop

LEMMA MatchState ==
    ASSUME NEW s \in WorkerState, NEW n \in Nat
    PROVE  LET t == [s EXCEPT !.pc = "match", !.nth = n]
           IN  t \in WorkerState /\ t.pc = "match" /\ t.photo = s.photo /\ t.nth = n
BY DEF WorkerState

LEMMA SaveEndsWell ==
    ASSUME WorkerInv, NEW w \in Workers, Holding(worker[w]), SaveEnds(w),
           UNCHANGED <<queue, cron, nextPerson, nextFace, calls>>, faults' \in 0..MaxFaults
    PROVE  WorkerInv' /\ ~Holding(worker'[w])
<1> DEFINE s == [worker[w] EXCEPT !.pc = "match", !.nth = @ + 1]
<1>1. /\ worker[w] \in WorkerState /\ queue \in [PhotoRefs -> Nat]
      /\ worker[w].photo \in PhotoRefs
      /\ worker[w].nth \in 1..Len(Detected[worker[w].photo])
      /\ worker \in [Workers -> WorkerState]
  BY DEF WorkerInv, WorkerTypeOK, WorkerState, AtWork, Holding
<1>2. Len(Detected[worker[w].photo]) \in Nat
  BY <1>1, WorkerAssumption
<1>3. CASE worker[w].nth = Len(Detected[worker[w].photo])
  BY <1>1, <1>3, RestingType, KeepOrDrop DEF SaveEnds, Become
<1>4. CASE worker[w].nth # Len(Detected[worker[w].photo])
  <2>0. /\ s \in WorkerState /\ s.pc = "match" /\ s.photo = worker[w].photo
        /\ s.nth = worker[w].nth + 1
    <3>1. worker[w] \in WorkerState /\ worker[w].nth + 1 \in Nat
      BY <1>1 DEF WorkerState
    <3> QED
      BY <3>1, MatchState
  <2>1. s \in WorkerState /\ AtWork(s) /\ ~Holding(s)
    <3> HIDE DEF s
    <3>1. s.nth \in 1..Len(Detected[s.photo])
      BY <1>1, <1>2, <1>4, <2>0
    <3>2. s.photo # None
      BY <1>1, <2>0, WorkerAssumption
    <3> QED
      BY <2>0, <3>1, <3>2 DEF AtWork, Holding
  <2>2. Become(w, s)
    BY <1>4 DEF SaveEnds
  <2> HIDE DEF s
  <2>3. worker'[w] = s
    BY <1>1, <2>2 DEF Become
  <2> QED
    BY <1>1, <2>1, <2>2, <2>3, KeepOrDrop
<1> QED
  BY <1>3, <1>4

-----------------------------------------------------------------------------
(* Each step up to the saving of a face, which leaves nobody with ids but  *)
(* the worker that finds them.                                             *)

LEMMA RequeueType ==
    ASSUME WorkerInv, NEW w \in Workers, Requeue(w)
    PROVE  queue' \in [PhotoRefs -> Nat]
BY DEF WorkerInv, WorkerTypeOK, WorkerState, Requeue

LEMMA TakeWell ==
    ASSUME WorkerInv, NEW w \in Workers, Take(w)
    PROVE  WorkerInv'
<1> DEFINE S(event) == [Resting EXCEPT !.pc = "check", !.event = event, !.photo = Undecoded[event]]
<1> PICK event \in PhotoRefs : /\ queue[event] > 0
                               /\ queue' = [queue EXCEPT ![event] = @ - 1]
                               /\ Become(w, S(event))
  BY DEF Take
<1> DEFINE s == S(event)
<1>1. s \in WorkerState /\ AtWork(s) /\ ~Holding(s)
  BY WorkerAssumption DEF Resting, WorkerState, AtWork, Holding
<1>2. queue' \in [PhotoRefs -> Nat] /\ faults' \in 0..MaxFaults
  BY DEF WorkerInv, WorkerTypeOK, Take
<1>3. Become(w, s)
  OBVIOUS
<1> HIDE DEF s
<1> QED
  BY <1>1, <1>2, <1>3, KeepOrDrop DEF Take

LEMMA CheckWell ==
    ASSUME WorkerInv, NEW w \in Workers, NEW processed, Check(w, processed)
    PROVE  WorkerInv'
<1> DEFINE s == [worker[w] EXCEPT !.pc = "detect"]
<1>1. worker[w] \in WorkerState /\ queue' \in [PhotoRefs -> Nat]
  BY DEF WorkerInv, WorkerTypeOK, Check
<1>2. faults' \in 0..MaxFaults
  BY FaultsType DEF Check
<1>3. s \in WorkerState /\ AtWork(s) /\ ~Holding(s)
  BY <1>1 DEF WorkerInv, WorkerState, AtWork, Holding, Check
<1>4. Become(w, Resting) \/ Become(w, s)
  BY DEF Check, GoTo
<1> HIDE DEF s
<1> QED
  BY <1>1, <1>2, <1>3, <1>4, RestingType, KeepOrDrop DEF Check

LEMMA DetectWell ==
    ASSUME WorkerInv, NEW w \in Workers, Detect(w)
    PROVE  WorkerInv'
<1> DEFINE s == [worker[w] EXCEPT !.pc = "match", !.nth = 1]
<1>1. worker[w] \in WorkerState
  BY DEF WorkerInv, WorkerTypeOK
<1>2. queue' \in [PhotoRefs -> Nat]
  BY RequeueType DEF WorkerInv, WorkerTypeOK, Detect
<1>3. faults' \in 0..MaxFaults
  <2>1. CallFails \/ CallWorks
    BY DEF Detect
  <2> QED
    BY <2>1, FaultsType
<1>4. CASE Become(w, Resting)
  BY <1>2, <1>3, <1>4, RestingType, KeepOrDrop DEF Detect
<1>5. CASE worker[w].photo # None /\ Detected[worker[w].photo] # << >> /\ Become(w, s)
  <2>0. worker[w].photo \in PhotoRefs
    BY <1>1, <1>5 DEF WorkerState
  <2>1. Len(Detected[worker[w].photo]) \in Nat /\ Len(Detected[worker[w].photo]) # 0
    BY <1>5, <2>0, WorkerAssumption
  <2>2. s \in WorkerState /\ s.pc = "match" /\ s.photo = worker[w].photo /\ s.nth = 1
    BY <1>1 DEF WorkerState
  <2>3. s.nth \in 1..Len(Detected[s.photo]) /\ s.photo # None
    BY <1>5, <2>1, <2>2
  <2>4. AtWork(s) /\ ~Holding(s)
    BY <2>2, <2>3 DEF AtWork, Holding
  <2> HIDE DEF s
  <2> QED
    BY <1>2, <1>3, <1>5, <2>2, <2>4, KeepOrDrop DEF Detect
<1> QED
  BY <1>4, <1>5 DEF Detect

LEMMA MatchWell ==
    ASSUME WorkerInv, NEW w \in Workers, NEW owners \in SUBSET Seen, Match(w, owners)
    PROVE  WorkerInv'
<1>1. /\ worker[w] \in WorkerState /\ queue' \in [PhotoRefs -> Nat] /\ calls' \in Nat
      /\ nextPerson \in Nat /\ nextFace \in Nat
  BY DEF WorkerInv, WorkerTypeOK, Match
<1>2. faults' \in 0..MaxFaults
  BY FaultsType DEF Match
<1> DEFINE S(p) == [worker[w] EXCEPT !.pc = "save", !.person = p, !.face = nextFace]
           To(p) == Become(w, S(p))
<1>3. \E p \in Nat : p < nextPerson' /\ nextPerson' \in Nat /\ nextPerson <= nextPerson' /\ To(p)
  <2>1. \/ (\E p \in owners : To(p)) /\ UNCHANGED nextPerson
        \/ To(nextPerson) /\ nextPerson' = nextPerson + 1
    BY DEF Match
  <2> HIDE DEF To
  <2>2. CASE (\E p \in owners : To(p)) /\ UNCHANGED nextPerson
    BY <1>1, <2>2 DEF Seen
  <2>3. CASE To(nextPerson) /\ nextPerson' = nextPerson + 1
    BY <1>1, <2>3
  <2> QED
    BY <2>1, <2>2, <2>3
<1> PICK p \in Nat : p < nextPerson' /\ nextPerson' \in Nat /\ nextPerson <= nextPerson' /\ To(p)
  BY <1>3
<1> DEFINE s == S(p)
<1>4. s \in WorkerState /\ AtWork(s) /\ s.face = nextFace /\ s.person = p
  BY <1>1 DEF WorkerInv, WorkerState, AtWork, Holding, Match
<1>5. \A v \in Workers : Holding(worker[v]) => worker[v].face # s.face
  BY <1>1, <1>4 DEF WorkerInv, WorkerTypeOK, WorkerState, IdsHandedOut
<1>6. nextFace' = nextFace + 1 /\ UNCHANGED cron
  BY DEF Match
<1>7. Become(w, s)
  OBVIOUS
<1> HIDE DEF s
<1> QED
  BY <1>1, <1>2, <1>3, <1>4, <1>5, <1>6, <1>7, BecomeWell

\* Up to the match, a worker holds no ids.
LEMMA LookingFacts ==
    ASSUME WorkerInv, NEW w \in Workers, NEW processed, Take(w) \/ Check(w, processed) \/ Detect(w)
    PROVE  /\ WorkerInv'
           /\ nextPerson' = nextPerson /\ nextFace' = nextFace
           /\ worker'[w].pc \in {"idle", "check", "detect", "match"}
           /\ \A v \in Workers : v # w => worker'[v] = worker[v]
<1>1. WorkerInv' /\ nextPerson' = nextPerson /\ nextFace' = nextFace
  BY TakeWell, CheckWell, DetectWell DEF Take, Check, Detect
<1>2. worker[w] \in WorkerState /\ worker \in [Workers -> WorkerState]
  BY DEF WorkerInv, WorkerTypeOK
<1>3. PICK s : worker' = [worker EXCEPT ![w] = s] /\ s.pc \in {"idle", "check", "detect", "match"}
  <2>1. CASE Take(w)
    <3> DEFINE S(event) == [Resting EXCEPT !.pc = "check", !.event = event,
                                           !.photo = Undecoded[event]]
    <3>1. PICK event \in PhotoRefs : Become(w, S(event))
      BY <2>1 DEF Take
    <3>2. S(event).pc = "check"
      BY DEF Resting
    <3> QED
      BY <3>1, <3>2 DEF Become
  <2>2. CASE Check(w, processed)
    <3>1. [worker[w] EXCEPT !.pc = "detect"].pc = "detect" /\ Resting.pc = "idle"
      BY <1>2 DEF WorkerState, Resting
    <3> QED
      BY <2>2, <3>1 DEF Check, GoTo, Become
  <2>3. CASE Detect(w)
    <3>1. [worker[w] EXCEPT !.pc = "match", !.nth = 1].pc = "match" /\ Resting.pc = "idle"
      BY <1>2 DEF WorkerState, Resting
    <3> QED
      BY <2>3, <3>1 DEF Detect, Become
  <2> QED
    BY <2>1, <2>2, <2>3
<1> QED
  BY <1>1, <1>2, <1>3

LEMMA MatchFacts ==
    ASSUME WorkerInv, NEW w \in Workers, NEW owners \in SUBSET Seen, Match(w, owners)
    PROVE  /\ WorkerInv'
           /\ nextPerson <= nextPerson' /\ nextFace \in Nat /\ nextFace' = nextFace + 1
           /\ worker[w].pc = "match" /\ worker'[w].pc = "save" /\ worker'[w].face = nextFace
           /\ worker'[w].photo = worker[w].photo /\ worker'[w].nth = worker[w].nth
           /\ \A v \in Workers : v # w => worker'[v] = worker[v]
<1>1. WorkerInv' /\ nextFace' = nextFace + 1 /\ worker[w].pc = "match"
  BY MatchWell DEF Match
<1>2. /\ worker[w] \in WorkerState /\ worker \in [Workers -> WorkerState]
      /\ nextPerson \in Nat /\ nextFace \in Nat
  BY DEF WorkerInv, WorkerTypeOK
<1>3. nextPerson <= nextPerson'
  <2>1. nextPerson' = nextPerson \/ nextPerson' = nextPerson + 1
    BY DEF Match
  <2> QED
    BY <1>2, <2>1
<1>4. PICK p : worker' = [worker EXCEPT ![w] = [worker[w] EXCEPT !.pc = "save", !.person = p,
                                                                 !.face = nextFace]]
  BY DEF Match, Become
<1>5. LET s == [worker[w] EXCEPT !.pc = "save", !.person = p, !.face = nextFace]
      IN  s.pc = "save" /\ s.face = nextFace /\ s.photo = worker[w].photo /\ s.nth = worker[w].nth
  BY <1>2 DEF WorkerState
<1> QED
  BY <1>1, <1>2, <1>3, <1>4, <1>5

LEMMA DieWell ==
    ASSUME WorkerInv, NEW w \in Workers, Die(w)
    PROVE  WorkerInv'
<1>1. queue' \in [PhotoRefs -> Nat] /\ faults' \in 0..MaxFaults
  BY RequeueType, FaultsType DEF Die
<1> QED
  BY <1>1, RestingType, KeepOrDrop DEF Die

\* Whoever calls the store otherwise leaves the workers alone.
LEMMA CallsGoOn ==
    ASSUME WorkerInv, UNCHANGED <<queue, worker, cron, nextPerson, nextFace>>, calls' \in Nat,
           faults' \in 0..MaxFaults
    PROVE  WorkerInv'
BY DEF WorkerInv, WorkerTypeOK, AtWork, Holding, IdsHandedOut

-----------------------------------------------------------------------------
(* The backfill job.                                                       *)

\* Workers stay as they are while the loop goes on.
LEMMA CronGoesOn ==
    ASSUME WorkerInv, cron' \in CronState, UNCHANGED <<queue, worker, nextPerson, nextFace, calls>>,
           faults' \in 0..MaxFaults
    PROVE  WorkerInv'
BY DEF WorkerInv, WorkerTypeOK, IdsHandedOut, AtWork, Holding

LEMMA CronStartWell ==
    ASSUME WorkerInv, CronStart
    PROVE  WorkerInv'
<1>1. cron' \in CronState
  BY DEF WorkerInv, WorkerTypeOK, CronState, CronStart
<1>2. faults' \in 0..MaxFaults
  BY DEF WorkerInv, WorkerTypeOK, CronStart
<1> QED
  BY <1>1, <1>2, CronGoesOn DEF CronStart

LEMMA CronCheckWell ==
    ASSUME WorkerInv, NEW processed, CronCheck(processed)
    PROVE  WorkerInv'
<1>1. cron \in CronState
  BY DEF WorkerInv, WorkerTypeOK
<1>2. cron' \in CronState
  BY <1>1 DEF CronState, CronCheck
<1>3. faults' \in 0..MaxFaults
  BY FaultsType DEF CronCheck
<1> QED
  BY <1>2, <1>3, CronGoesOn DEF CronCheck

LEMMA CronEndWell ==
    ASSUME WorkerInv, CronEnd
    PROVE  WorkerInv'
<1>1. cron' \in CronState
  BY DEF WorkerInv, WorkerTypeOK, CronState, CronEnd
<1>2. faults' \in 0..MaxFaults
  BY DEF WorkerInv, WorkerTypeOK, CronEnd
<1> QED
  BY <1>1, <1>2, CronGoesOn DEF CronEnd

LEMMA CronSpawnWell ==
    ASSUME WorkerInv, CronSpawn
    PROVE  WorkerInv'
<1> PICK w \in CronSlots : worker[w].pc = "idle" /\ Become(w, [Resting EXCEPT !.pc = "detect", !.photo = cron.photo])
  BY DEF CronSpawn
<1> DEFINE s == [Resting EXCEPT !.pc = "detect", !.photo = cron.photo]
<1>1. cron \in CronState /\ w \in Workers
  BY DEF WorkerInv, WorkerTypeOK, CronSpawn, Workers
<1>2. s \in WorkerState /\ AtWork(s) /\ ~Holding(s)
  BY <1>1 DEF CronState, Resting, WorkerState, AtWork, Holding
<1>3. worker' = [worker EXCEPT ![w] = s] /\ worker \in [Workers -> WorkerState]
  BY DEF Become, WorkerInv, WorkerTypeOK
<1> HIDE DEF s
<1>4. \A v \in Workers : worker'[v] = worker[v] \/ worker'[v] = s
  BY <1>1, <1>3
<1>5. \A v \in Workers : AtWork(worker'[v]) /\ (Holding(worker'[v]) => worker'[v] = worker[v])
  BY <1>2, <1>4 DEF WorkerInv
<1>6. WorkerTypeOK'
  BY <1>1, <1>2, <1>3 DEF WorkerInv, WorkerTypeOK, CronSpawn, CronState
<1>7. IdsHandedOut'
  BY <1>5 DEF WorkerInv, IdsHandedOut, CronSpawn, Holding
<1>8. (\A v \in Workers : AtWork(worker[v]))'
  BY <1>5 DEF AtWork, Holding
<1> QED
  BY <1>6, <1>7, <1>8 DEF WorkerInv

LEMMA CronDiesWell ==
    ASSUME WorkerInv, CronDies
    PROVE  WorkerInv'
<1>1. cron \in CronState /\ worker \in [Workers -> WorkerState]
  BY DEF WorkerInv, WorkerTypeOK
<1>2. \A v \in Workers : worker'[v] = worker[v] \/ worker'[v] = Resting
  BY DEF CronDies
<1>3. \A v \in Workers : AtWork(worker'[v]) /\ (Holding(worker'[v]) => worker'[v] = worker[v])
  BY <1>2, RestingType DEF WorkerInv
<1>4. WorkerTypeOK'
  BY <1>1, FaultsType, RestingType DEF WorkerInv, WorkerTypeOK, CronDies, CronState
<1>5. IdsHandedOut'
  BY <1>3 DEF WorkerInv, IdsHandedOut, CronDies, Holding
<1>6. (\A v \in Workers : AtWork(worker[v]))'
  BY <1>3 DEF AtWork, Holding
<1> QED
  BY <1>4, <1>5, <1>6 DEF WorkerInv
=============================================================================
