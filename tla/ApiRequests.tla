---------------------------- MODULE ApiRequests ----------------------------
(***************************************************************************)
(* The frame every HTTP handler of the photo API runs in: who asks what,   *)
(* where the handler is between two store calls, and what it answered.     *)
(* The handlers themselves are in SoftDelete, Rename, Thumbnail and        *)
(* Browse; PhotoApi composes them.                                         *)
(*                                                                         *)
(* A request is submitted once, except page loads (kind "browse..."),      *)
(* which recur for ever.                                                   *)
(***************************************************************************)
EXTENDS PhotoStore

CONSTANTS
    Clients,   \* concurrent connections, each with one request at a time
    Admins,    \* the clients whose token carries the role RequireRole asks for
    Requests   \* the workload

Kinds == {"softDeleteCollection", "softDeleteAlbum", "restoreCollection", "restoreAlbum",
          "renameCollection", "renameAlbum", "thumbnailCollection", "thumbnailAlbum",
          "update", "browseCollections", "browseAlbums"}

RenameKinds    == {"renameCollection", "renameAlbum"}
ThumbnailKinds == {"thumbnailCollection", "thumbnailAlbum"}

\* id tells apart two requests that ask the same thing; image is the path of
\* the photo a thumbnail or update request names, tags the body of an update
RequestType ==
    [id : Nat, kind : Kinds,
     collection  : Collections \cup {None},
     album       : Albums \cup {None},
     newName     : Collections \cup Albums \cup {None},
     image       : Paths \cup {None},
     orientation : Orientations \cup {None},
     tags        : Tags \cup {None}]

\* a result of a query: a path and the tags that came with it
Jobs == [path : Paths, tags : Tags]

ASSUME RequestAssumption ==
    /\ Admins \subseteq Clients
    /\ Requests \subseteq RequestType
    /\ None \notin Requests \cup Jobs
    /\ \A r \in Requests :
         /\ r.kind = "renameCollection" =>
              r.collection \in Collections /\ r.newName \in Collections \ {r.collection}
         /\ r.kind = "renameAlbum" =>
              r.collection \in Collections /\ r.album \in Albums /\ r.newName \in Albums \ {r.album}
         /\ r.kind = "update"           => r.image \in Paths /\ r.tags \in Tags

Renames == {r \in Requests : r.kind \in RenameKinds}

VARIABLES
    pending,  \* requests not submitted yet
    req,      \* client -> the request in progress
    reply     \* client -> the last answer

vars == <<images, nextRow, faults, pending, req, reply>>

PCs == {"idle", "find", "tags", "each", "unmark", "rotate", "get", "set", "clear",
        "copyTags", "save", "retag", "delete", "remaining"}

\* rows: what the query matched; todo: results of the query still to handle;
\* job, photo, tags: the blob at hand; seen: albums that have their mark;
\* cut: ghost, which of the two results of the query broke off unnoticed
RequestState ==
    [pc     : PCs,
     op     : Requests \cup {None},
     rows   : SUBSET (Paths \X Nat),
     todo   : SUBSET Jobs,
     job    : Jobs \cup {None},
     photo  : Photos \cup {None},
     tags   : Tags \cup {None},
     seen   : SUBSET (Albums \cup {None}),
     failed : BOOLEAN,
     cut    : SUBSET {"rows", "tags"}]

Idle == [pc |-> "idle", op |-> None, rows |-> {}, todo |-> {}, job |-> None,
         photo |-> None, tags |-> None, seen |-> {}, failed |-> FALSE, cut |-> {}]

\* "panic" and "cut" are answers the client never gets: the handler panicked
\* on a nil tag map, or the process or the connection went away
Statuses == {"none", "200", "206", "304", "404", "500", "panic", "cut"}

Replies == [op : Requests \cup {None}, status : Statuses, collectionDeleted : BOOLEAN]

RequestTypeOK ==
    /\ pending \subseteq Requests
    /\ req \in [Clients -> RequestState]
    /\ reply \in [Clients -> Replies]

RequestInit ==
    /\ pending = Requests
    /\ req = [c \in Clients |-> Idle]
    /\ reply = [c \in Clients |-> [op |-> None, status |-> "none", collectionDeleted |-> FALSE]]

-----------------------------------------------------------------------------

\* page loads need no role; anyone may repeat them
PageLoad(r) == r.kind \in {"browseCollections", "browseAlbums"}

\* RequireRole guards every route that is not a GET
Authorized(c, r) == PageLoad(r) \/ c \in Admins

\* the first store call of each handler
FirstCall(r) ==
    IF r.kind = "update" THEN "get" ELSE "find"

Submit(c, r) ==
    /\ req[c].pc = "idle"
    /\ r \in pending
    /\ Authorized(c, r)
    /\ pending' = IF PageLoad(r) THEN pending ELSE pending \ {r}
    /\ req' = [req EXCEPT ![c] = [Idle EXCEPT !.pc = FirstCall(r), !.op = r]]
    /\ UNCHANGED <<images, nextRow, faults, reply>>

At(c, kind, pc) == req[c].op # None /\ req[c].op.kind = kind /\ req[c].pc = pc

\* the handler goes on with state s
Continue(c, s) ==
    /\ req' = [req EXCEPT ![c] = s]
    /\ UNCHANGED <<pending, reply>>

AnswerWith(c, status, collectionDeleted) ==
    /\ req' = [req EXCEPT ![c] = Idle]
    /\ reply' = [reply EXCEPT ![c] =
          [op |-> req[c].op, status |-> status, collectionDeleted |-> collectionDeleted]]
    /\ UNCHANGED pending

Answer(c, status) == AnswerWith(c, status, FALSE)

\* the process stops or the connection breaks between two store calls
CutOff(c) ==
    /\ req[c].pc # "idle"
    /\ CallFails
    /\ Answer(c, "cut")
    /\ UNCHANGED <<images, nextRow>>

-----------------------------------------------------------------------------
(* The query most handlers start with, in its two statements.              *)

FindAll(c, query) ==
    /\ MatchingRows(query) # {}
    /\ Continue(c, [req[c] EXCEPT !.pc = "tags", !.rows = MatchingRows(query)])
    /\ UNCHANGED storeVars

\* the loop over the matching rows ends early
FindSome(c, query) ==
    /\ CallFails
    /\ \E rows \in Shortened(MatchingRows(query)) :
         Continue(c, [req[c] EXCEPT !.pc = "tags", !.rows = rows, !.cut = {"rows"}])
    /\ UNCHANGED <<images, nextRow>>

FindBlobs(c, query) == FindAll(c, query) \/ FindSome(c, query)

FindsNone(query) ==
    /\ MatchingRows(query) = {}
    /\ UNCHANGED storeVars

FindFails == CallFails /\ UNCHANGED <<images, nextRow>>

\* the tags of the matched rows arrive, or some of them do
FetchTags(c, jobs) ==
    /\ IF jobs = WithTags(req[c].rows) THEN CallWorks ELSE CallFails
    /\ UNCHANGED <<images, nextRow>>

Fetched(c, jobs) ==
    [req[c] EXCEPT !.rows = {},
                   !.cut = IF jobs = WithTags(req[c].rows) THEN @ ELSE @ \cup {"tags"}]

\* assigning into the nil tag map of a blob that came without tags
PanicOn(c, j) ==
    /\ j.tags = EmptyTags
    /\ Answer(c, "panic")
    /\ UNCHANGED storeVars

\* faulty variant: an error on the way is not reported
NextOrAnswerAlwaysOk(c, todo, failed, s) ==
    IF todo = {} THEN Answer(c, "200")
    ELSE Continue(c, [s EXCEPT !.pc = "each", !.todo = todo, !.failed = failed])

\* a loop that has nothing left to do answers 200, or 206 after an error
NextOrAnswer(c, todo, failed, s) ==
    IF todo = {}
    THEN Answer(c, IF failed THEN "206" ELSE "200")
    ELSE Continue(c, [s EXCEPT !.pc = "each", !.todo = todo, !.failed = failed])
=============================================================================
