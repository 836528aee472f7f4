----------------------------- MODULE SafeRenames -----------------------------
(***************************************************************************)
(* When renames lose no photo, and the invariant that shows it.            *)
(*                                                                         *)
(* NoPhotoLost does not hold of every workload: a rename onto a name that  *)
(* is taken overwrites, a repeated one can copy a blob onto itself and     *)
(* delete it.  It holds when each rename has its source and its target to  *)
(* itself, the targets are empty at the start, and the tags of blobs and   *)
(* edits name the collection and album of their path.                      *)
(***************************************************************************)
EXTENDS PhotoApi

SeparateRenames ==
    \A r, s \in Renames :
        /\ Source(r) \cap Target(s) = {}
        /\ r # s => Source(r) \cap Source(s) = {} /\ Target(r) \cap Target(s) = {}

\* The tags name the place of path p, or, while p is the target of a rename,
\* still the place the rename moves it from.
Placed(p, tags) ==
    /\ \/ tags.collection \in {p[1], None}
       \/ \E r \in Renames : /\ r.kind = "renameCollection" /\ p \in Target(r)
                             /\ tags.collection = r.collection
    /\ \/ tags.album \in {p[2], None}
       \/ \E r \in Renames : /\ r.kind = "renameAlbum" /\ p \in Target(r)
                             /\ tags.album = r.album

EditsKeepPlace == \A r \in Requests : r.kind = "update" => Placed(r.image, r.tags)

IntactLibraries ==
    \A lib \in Libraries :
        /\ \A ph \in Photos : \E p \in Paths : lib[p] # NoBlob /\ lib[p].photo = ph
        /\ \A p \in Paths : lib[p] # NoBlob =>
              Placed(p, lib[p].tags) /\ \A r \in Renames : p \notin Target(r)

-----------------------------------------------------------------------------
(* The inductive invariant.                                                *)

BlobsPlaced == \A p \in Paths : Has(p) => Placed(p, images[p].tags)

Unused(r) == \A p \in Target(r) : ~Has(p)

\* a photo and its copy are the same
CopiesAgree ==
    \A r \in Renames : \A p \in Source(r) :
        Has(p) /\ Has(NewPath(r, p)) => images[p].photo = images[NewPath(r, p)].photo

\* what a running rename relies on
RenameSafe(s) ==
    /\ s.op \notin pending
    /\ s.pc = "find" => Unused(s.op)
    /\ \A row \in s.rows : row[1] \in Source(s.op)
    /\ \A j \in s.todo : j.path \in Source(s.op)
    /\ s.job # None => s.job.path \in Source(s.op)
    /\ s.pc \in {"copyTags", "save"} => Has(s.job.path) /\ images[s.job.path].photo = s.photo
    /\ s.pc = "save" => Placed(s.job.path, s.tags)
    /\ s.pc \in {"retag", "delete"} =>
         LET dst == NewPath(s.op, s.job.path)
         IN  Has(s.job.path) /\ Has(dst) /\ images[dst].photo = images[s.job.path].photo

\* tags a handler holds are fit to be written back
WorkSafe(s) ==
    s.op # None =>
        /\ \A j \in s.todo : Placed(j.path, j.tags)
        /\ s.job # None => Placed(s.job.path, s.job.tags)
        /\ s.pc = "set" /\ s.op.kind \in ThumbnailKinds => Placed(s.op.image, s.tags)
        /\ s.op \in Renames => RenameSafe(s)

\* each rename is run by one client
OneRunner ==
    \A c, d \in Clients : req[c].op \in Renames /\ req[c].op = req[d].op => c = d

Safe ==
    /\ BlobsPlaced
    /\ \A r \in Renames : r \in pending => Unused(r)
    /\ CopiesAgree
    /\ OneRunner
    /\ \A c \in Clients : WorkSafe(req[c])
    /\ NoPhotoLost
=============================================================================
