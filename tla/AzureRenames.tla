---------------------------- MODULE AzureRenames ----------------------------
(***************************************************************************)
(* When renames on the production store lose no photo, and the invariants  *)
(* that show it.                                                           *)
(*                                                                         *)
(* Other than on the emulator (SafeRenames) a rename may be asked for      *)
(* again, at once or later, and renames may follow one another: a copy has *)
(* no tags before it has those of its new path, so that no query finds it  *)
(* under its old name, and no copy is made onto itself.  What is left to   *)
(* ask for is that renames move blobs one way only, and that no two of     *)
(* them bring different photos to one path.                                *)
(***************************************************************************)
EXTENDS AzureApi

CONSTANTS
    Home,  \* path -> the photo a blob at that path holds
    Rank   \* path -> how far along the ways of the renames it is

\* no way leads back
OneWay ==
    /\ Rank \in [Paths -> Nat]
    /\ \A r \in Renames : \A p \in Source(r) : Rank[p] < Rank[NewPath(r, p)]

\* the tags of a blob name its path
Names(p, tags) == tags.name = p /\ tags.collection = p[1] /\ tags.album = p[2]

\* a path is the way of one photo only; every photo is there at the start,
\* and every blob has the tags of its path
NeverMixed ==
    /\ \A r \in Renames : \A p \in Source(r) : Home[NewPath(r, p)] = Home[p]
    /\ \A lib \in Libraries :
         /\ \A ph \in Photos : \E p \in Paths : lib[p] # NoBlob /\ lib[p].photo = ph
         /\ \A p \in Paths : lib[p] # NoBlob => lib[p].photo = Home[p] /\ Names(p, lib[p].tags)

-----------------------------------------------------------------------------
(* The inductive invariants.                                               *)

Targeted == UNION {Target(r) : r \in Renames}

\* the tags name no other place than p, and p itself where no rename copies to
AtPlace(p, tags) ==
    /\ tags.collection \in {p[1], None} /\ tags.album \in {p[2], None}
    /\ p \notin Targeted => Names(p, tags)

\* the results a handler still has to handle
AtWork(s) == s.todo \cup (IF s.pc \in {"retag", "delete"} THEN {s.job} ELSE {})

\* What a handler has at hand keeps to its place, and what a rename has found
\* is its own to move, each blob once.
WorkInOrder(s) ==
    /\ s.pc = "idle" => s.op = None
    /\ \A j \in AtWork(s) : AtPlace(j.path, j.tags)
    /\ s.op \in Renames =>
         /\ \A row \in s.rows : row[1] \in Source(s.op)
         /\ \A j \in AtWork(s) : j.path \in Source(s.op)
         /\ s.pc # "tags" => s.rows = {}
         /\ s.pc = "find" => s.todo = {}
         /\ s.pc \in {"retag", "delete"} => s.job \notin s.todo
         /\ \A row, other \in s.rows : row[1] = other[1] => row = other
         /\ \A row \in s.rows, j \in s.todo : row[1] # j.path
         /\ \A j, k \in AtWork(s) : j.path = k.path => j = k

\* Every photo is where it belongs.
BlobsAtHome == \A p \in Paths : Has(p) => images[p].photo = Home[p] /\ AtPlace(p, images[p].tags)

AtHome == BlobsAtHome /\ \A c \in Clients : WorkInOrder(req[c])

\* q holds the photo of p further along
Ahead(p, q) == Has(q) /\ Home[q] = Home[p] /\ Rank[p] < Rank[q]

\* What a rename is about to delete is further along already.
Copied ==
    \A c \in Clients :
        Renaming(c) /\ req[c].pc = "delete" => \E q \in Paths : Ahead(req[c].job.path, q)

\* what is left under the old path, where no rename copies to, and what a
\* handler still has at hand
Untaken(r) == {p \in Source(r) \ Targeted : Has(p)}
Within(s) == {row[1] : row \in s.rows} \cup {j.path : j \in AtWork(s)}
HoldsAll(s) == s.op \in Renames /\ s.pc # "find" /\ ~s.failed => Untaken(s.op) \subseteq Within(s)

\* A rename that has met no error has missed none.
NoneMissed == \A c \in Clients : HoldsAll(req[c])

\* Nothing but a copy is without the tags of its path, and no handler has
\* read it.
Tagged ==
    /\ \A p \in Paths : Has(p) => images[p].tags = EmptyTags \/ Names(p, images[p].tags)
    /\ \A c \in Clients : \A j \in AtWork(req[c]) : Names(j.path, j.tags)

\* a query finds it, or will
NamedAt(p) == Has(p) /\ Names(p, images[p].tags)
Findable(p) == NamedAt(p) \/ (Has(p) /\ AwaitsTags(p))

\* A rename that runs alone has what it found to fall back on.
Alone ==
    ~overlapped =>
        /\ \A c, d \in Clients : Renaming(c) /\ Renaming(d) => c = d
        /\ \A c \in Clients : Renaming(c) => \A p \in Within(req[c]) : NamedAt(p)

\* What a rename is about to delete can be found further along.
CopiedFindable ==
    \A c \in Clients : Renaming(c) /\ req[c].pc = "delete" =>
        \E q \in Paths : Ahead(req[c].job.path, q) /\ Findable(q)

AllFound == \A ph \in Photos : \E p \in Paths : Findable(p) /\ images[p].photo = ph

\* Unless the two exceptions of PhotosFound have come about, nothing is lost.
NoneHidden ==
    \/ untagged
    \/ /\ Tagged
       /\ \/ overlapped /\ faults < MaxFaults
          \/ Alone /\ CopiedFindable /\ AllFound
=============================================================================
