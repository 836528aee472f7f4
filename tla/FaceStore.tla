------------------------------ MODULE FaceStore ------------------------------
(***************************************************************************)
(* What the FaceStore interface promises (facestore/facestore.go): faces   *)
(* found in photos, each belonging to one person, persons with a name and  *)
(* a face count.  SQLiteFaces is shown to implement it.                    *)
(*                                                                         *)
(* Faces and persons are known by uuids, numbers here; a face that is      *)
(* saved is one no call has saved before.                                  *)
(***************************************************************************)
EXTENDS Naturals

CONSTANTS PhotoRefs,  \* photos faces are detected in
          Looks,      \* what a face is compared by: its fingerprint and hash
          Names,      \* names an administrator gives
          NoName      \* the name of a person nobody has named yet

VARIABLES persons,    \* id -> name and face count
          faces       \* id -> person, photo and look

storeVars == <<persons, faces>>

Faces == [person : Nat, photo : PhotoRefs, look : Looks]

Count(p) == IF p \in DOMAIN persons THEN persons[p].count ELSE 0
Name(p)  == IF p \in DOMAIN persons THEN persons[p].name ELSE NoName

Init == persons = << >> /\ faces = << >>

\* persists a face and increments the owning person's face count, creating
\* the person if it does not yet exist
SaveFace(f, face) ==
    /\ f \notin DOMAIN faces
    /\ faces' = [g \in DOMAIN faces \cup {f} |-> IF g = f THEN face ELSE faces[g]]
    /\ persons' = [p \in DOMAIN persons \cup {face.person} |->
                     IF p = face.person THEN [name |-> Name(p), count |-> Count(p) + 1]
                                        ELSE persons[p]]

SetPersonName(p, name) ==
    /\ p \in DOMAIN persons
    /\ persons' = [persons EXCEPT ![p].name = name]
    /\ UNCHANGED faces

\* moves all faces of source into target and deletes source
MergePeople(source, target) ==
    /\ source # target
    /\ target \in DOMAIN persons
    /\ faces' = [f \in DOMAIN faces |->
                   IF faces[f].person = source THEN [faces[f] EXCEPT !.person = target]
                                               ELSE faces[f]]
    /\ persons' = [p \in DOMAIN persons \ {source} |->
                     IF p = target THEN [persons[p] EXCEPT !.count = @ + Count(source)]
                                   ELSE persons[p]]

\* the face that is saved is the one the new state has and the old has not
Next ==
    \/ \E f \in DOMAIN faces' : faces'[f] \in Faces /\ SaveFace(f, faces'[f])
    \/ \E p \in DOMAIN persons, name \in Names : SetPersonName(p, name)
    \/ \E source, target \in DOMAIN persons : MergePeople(source, target)

Spec == Init /\ [][Next]_storeVars
=============================================================================
