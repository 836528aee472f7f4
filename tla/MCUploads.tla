----------------------------- MODULE MCUploads ------------------------------
(***************************************************************************)
(* Instances of UploadPipeline for TLC.  Paths oldP and oldQ are in one    *)
(* album, newP in the one that renaming it leads to.                       *)
(***************************************************************************)
EXTENDS OneReplica, TLC

CONSTANTS oldP, oldQ, newP,   \* paths
          u1, u2, u3, u4, u5, \* uploads
          old, new,           \* albums
          w1                  \* a replica

MCDirOf   == oldP :> old @@ oldQ :> old @@ newP :> new
MCPathOf  == u1 :> oldP @@ u2 :> oldP @@ u3 :> oldP @@ u4 :> oldP @@ u5 :> oldQ
MCQuality == u1 :> "good" @@ u2 :> "good" @@ u3 :> "broken" @@ u4 :> "refused" @@ u5 :> "good"
MCNewPath == oldP :> newP

MCCallers == {u1, u2, u3, u4, u5, w1, Admin} \cup (1..MaxFaults)

NoPhotos == [x \in {oldP, oldQ, newP} |-> Nothing]

\* two uploads to one path, and one that is refused
Overlapping ==
    [uploads |-> {u1, u2, u4}, stored |-> NoPhotos, connected |-> TRUE, edits |-> 0,
     faults |-> 1]

\* one of two uploads to a path is a file whose header alone is sound
Damaged ==
    [uploads |-> {u2, u3}, stored |-> [NoPhotos EXCEPT ![oldP] = u1], connected |-> TRUE,
     edits |-> 0, faults |-> 1]

\* a photo is edited twice while a new version of it arrives
Reuploaded ==
    [uploads |-> {u2}, stored |-> [NoPhotos EXCEPT ![oldP] = u1], connected |-> TRUE,
     edits |-> 2, faults |-> 1]

\* a photo is edited twice while its neighbour arrives
Neighbours ==
    [uploads |-> {u5}, stored |-> [NoPhotos EXCEPT ![oldP] = u1], connected |-> TRUE,
     edits |-> 2, faults |-> 1]

\* uploads come while no publisher is connected, and after a restart
Unheard ==
    [uploads |-> {u1, u2}, stored |-> NoPhotos, connected |-> FALSE, edits |-> 0,
     faults |-> 1]

MCStarts == {Overlapping, Damaged, Reuploaded, Neighbours, Unheard}

\* what UploadPipelineProofs assumes to show LibraryAsAsked
ASSUME MCHypotheses == OneWorker
=============================================================================
