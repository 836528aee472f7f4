----------------------------- MODULE FaceWorkers -----------------------------
(***************************************************************************)
(* Who calls the face store: replicas of the face service, each handling   *)
(* one BlobCreated event of the images container at a time                 *)
(* (cmd/face/main.go), the backfill job with its main loop and goroutines  *)
(* (cmd/facecron/main.go), and administrators.  What a store call does is  *)
(* left to SQLiteFaces and TableFaces, which pass it in.                   *)
(*                                                                         *)
(* The queue is durable and delivers at least once: the event of a handler *)
(* that returns an error or dies is delivered again.                       *)
(***************************************************************************)
EXTENDS Naturals, Sequences, FiniteSets

CONSTANTS
    PhotoRefs,       \* photos in the images container
    Undecoded,       \* photo -> the one its percent-encoded path is the path of
    Looks,           \* what two faces are compared by
    Similar,         \* pairs of looks within both tolerances
    Detected,        \* photo -> the looks of the faces the detector finds
    Names,           \* names an administrator gives
    NoName,          \* the name of a person nobody has named yet
    None,            \* an absent field
    ServiceWorkers,  \* replicas of the face service
    CronSlots,       \* goroutines the backfill job may have at a time
    Starts,          \* the situations the system may be found in
    MaxCronRuns,     \* bound: runs of the backfill job
    MaxFaults        \* bound: calls that fail, workers that die

\* events: the events of one photo that wait at most; calls: the calls of
\* administrators to come; person, face: the first uuids not in use
StartType == [events : Nat, calls : Nat, person : Nat, face : Nat]

Workers == ServiceWorkers \cup CronSlots

ASSUME WorkerAssumption ==
    /\ ServiceWorkers \cap CronSlots = {}
    /\ Similar \subseteq Looks \X Looks
    /\ Undecoded \in [PhotoRefs -> PhotoRefs \cup {None}]
    /\ Detected \in [PhotoRefs -> Seq(Looks)]
    /\ NoName \notin Names
    /\ None \notin PhotoRefs \cup Nat
    /\ Starts \subseteq StartType
    /\ {MaxCronRuns, MaxFaults} \subseteq Nat

VARIABLES
    queue,       \* photo -> events waiting
    worker,      \* where each replica and goroutine is
    cron,        \* the backfill job's main loop
    nextPerson,  \* the next uuids handed out
    nextFace,
    calls,       \* calls of administrators still to come
    faults       \* failures still to come

workerVars == <<queue, worker, cron, nextPerson, nextFace, calls, faults>>

\* event: the photo whose event is handled; photo: the one it is taken for;
\* nth: the detected face at hand; person, face: the ids it is saved under;
\* count: the faces a recount found
WorkerState ==
    [pc     : {"idle", "check", "detect", "match", "save", "face", "index", "count", "patch"},
     event  : PhotoRefs \cup {None},
     photo  : PhotoRefs \cup {None},
     nth    : Nat,
     person : Nat,
     face   : Nat,
     count  : Nat]

Resting == [pc |-> "idle", event |-> None, photo |-> None, nth |-> 0, person |-> 0,
            face |-> 0, count |-> 0]

\* todo: photos listed and not looked at; photo: the one waiting for a slot
CronState ==
    [pc   : {"off", "loop", "acquire"},
     todo : SUBSET PhotoRefs,
     photo: PhotoRefs \cup {None},
     runs : Nat]

WorkerTypeOK ==
    /\ queue \in [PhotoRefs -> Nat]
    /\ worker \in [Workers -> WorkerState]
    /\ cron \in CronState
    /\ nextPerson \in Nat
    /\ nextFace \in Nat
    /\ calls \in Nat
    /\ faults \in 0..MaxFaults

\* an event may have been published twice, or not at all
WorkerInit(start) ==
    /\ queue \in [PhotoRefs -> 0..start.events]
    /\ worker = [w \in Workers |-> Resting]
    /\ cron = [pc |-> "off", todo |-> {}, photo |-> None, runs |-> MaxCronRuns]
    /\ nextPerson = start.person
    /\ nextFace = start.face
    /\ calls = start.calls
    /\ faults = MaxFaults

-----------------------------------------------------------------------------

CallFails == faults > 0 /\ faults' = faults - 1
CallWorks == UNCHANGED faults

Become(w, s) == worker' = [worker EXCEPT ![w] = s]
GoTo(w, pc)  == Become(w, [worker[w] EXCEPT !.pc = pc])
Look(w)      == Detected[worker[w].photo][worker[w].nth]

\* an event goes back to the queue; the backfill job has none
Requeue(w) ==
    queue' = IF worker[w].event = None THEN queue ELSE [queue EXCEPT ![worker[w].event] = @ + 1]

\* The event's URL has its path percent-encoded, and nobody decodes it: a name
\* with a space, say, is taken for another name.
Take(w) ==
    /\ w \in ServiceWorkers
    /\ worker[w].pc = "idle"
    /\ \E event \in PhotoRefs :
         /\ queue[event] > 0
         /\ queue' = [queue EXCEPT ![event] = @ - 1]
         /\ Become(w, [Resting EXCEPT !.pc = "check", !.event = event, !.photo = Undecoded[event]])
    /\ UNCHANGED <<cron, nextPerson, nextFace, calls, faults>>

\* HasPhotoBeenProcessed; if it fails the photo counts as new
Check(w, processed) ==
    /\ worker[w].pc = "check"
    /\ \/ CallWorks /\ IF processed THEN Become(w, Resting) ELSE GoTo(w, "detect")
       \/ CallFails /\ GoTo(w, "detect")
    /\ UNCHANGED <<queue, cron, nextPerson, nextFace, calls>>

\* download and detect: the service returns an error, a goroutine gives up
Detect(w) ==
    /\ worker[w].pc = "detect"
    /\ \/ /\ worker[w].photo # None
          /\ CallWorks
          /\ IF Detected[worker[w].photo] = << >>
             THEN Become(w, Resting)
             ELSE Become(w, [worker[w] EXCEPT !.pc = "match", !.nth = 1])
          /\ UNCHANGED queue
       \/ /\ IF worker[w].photo = None THEN CallWorks ELSE CallFails
          /\ Become(w, Resting)
          /\ Requeue(w)
    /\ UNCHANGED <<cron, nextPerson, nextFace, calls>>

\* FindSimilarFaces: the person of some match, in no particular order, or a
\* new person if there is none or the search fails
Match(w, owners) ==
    /\ worker[w].pc = "match"
    /\ \/ /\ CallWorks
          /\ \E p \in owners : Become(w, [worker[w] EXCEPT !.pc = "save", !.person = p,
                                                           !.face = nextFace])
          /\ UNCHANGED nextPerson
       \/ /\ (owners = {} /\ CallWorks) \/ CallFails
          /\ Become(w, [worker[w] EXCEPT !.pc = "save", !.person = nextPerson,
                                         !.face = nextFace])
          /\ nextPerson' = nextPerson + 1
    /\ nextFace' = nextFace + 1
    /\ UNCHANGED <<queue, cron, calls>>

\* faulty variant: one face of a photo is enough
SaveEndsAtFirst(w) == Become(w, Resting)

\* SaveFace returned, with or without an error: on to the next face
SaveEnds(w) ==
    IF worker[w].nth = Len(Detected[worker[w].photo])
    THEN Become(w, Resting)
    ELSE Become(w, [worker[w] EXCEPT !.pc = "match", !.nth = @ + 1])

\* a replica dies, or its event times out
Die(w) ==
    /\ w \in ServiceWorkers
    /\ worker[w].pc # "idle"
    /\ CallFails
    /\ Become(w, Resting)
    /\ Requeue(w)
    /\ UNCHANGED <<cron, nextPerson, nextFace, calls>>

-----------------------------------------------------------------------------
(* The backfill job.                                                       *)

CronStart ==
    /\ cron.pc = "off"
    /\ cron.runs > 0
    /\ cron' = [pc |-> "loop", todo |-> PhotoRefs, photo |-> None, runs |-> cron.runs - 1]
    /\ UNCHANGED <<queue, worker, nextPerson, nextFace, calls, faults>>

\* processed: the photos HasPhotoBeenProcessed says yes to
CronCheck(processed) ==
    /\ cron.pc = "loop"
    /\ \E ref \in cron.todo :
         LET seen == [cron EXCEPT !.todo = @ \ {ref}]
             new  == [seen EXCEPT !.pc = "acquire", !.photo = ref]
         IN  \/ CallWorks /\ cron' = IF ref \in processed THEN seen ELSE new
             \/ CallFails /\ cron' = new
    /\ UNCHANGED <<queue, worker, nextPerson, nextFace, calls>>

CronSpawn ==
    /\ cron.pc = "acquire"
    /\ \E w \in CronSlots :
         /\ worker[w].pc = "idle"
         /\ Become(w, [Resting EXCEPT !.pc = "detect", !.photo = cron.photo])
    /\ cron' = [cron EXCEPT !.pc = "loop", !.photo = None]
    /\ UNCHANGED <<queue, nextPerson, nextFace, calls, faults>>

CronEnd ==
    /\ cron.pc = "loop"
    /\ cron.todo = {}
    /\ \A w \in CronSlots : worker[w].pc = "idle"
    /\ cron' = [cron EXCEPT !.pc = "off"]
    /\ UNCHANGED <<queue, worker, nextPerson, nextFace, calls, faults>>

\* the job's process dies with its goroutines
CronDies ==
    /\ cron.pc # "off"
    /\ CallFails
    /\ cron' = [cron EXCEPT !.pc = "off", !.todo = {}, !.photo = None]
    /\ worker' = [w \in Workers |-> IF w \in CronSlots THEN Resting ELSE worker[w]]
    /\ UNCHANGED <<queue, nextPerson, nextFace, calls>>

-----------------------------------------------------------------------------

\* an administrator calls the API, with the id of some person seen before
AdminCalls ==
    /\ calls > 0
    /\ calls' = calls - 1
    /\ UNCHANGED <<queue, worker, cron, nextPerson, nextFace>>

Seen == 0..(nextPerson - 1)

Quiet ==
    /\ cron.pc = "off"
    /\ \A w \in Workers : worker[w].pc = "idle"

NothingWaits == Quiet /\ \A ref \in PhotoRefs : queue[ref] = 0
=============================================================================
