---------------------------- MODULE BlobPromises ----------------------------
(***************************************************************************)
(* What the blob emulator promises of a blob, whatever its files and       *)
(* tables go through.  A blob is nothing, or a whole: bytes, tags and      *)
(* metadata.  A PUT or DELETE that is alone on a blob and does not fail    *)
(* leaves what it was sent for, whatever was there before.  One that fails *)
(* or meets another leaves something mixed, until the next one that is     *)
(* alone.  Nothing else changes a blob, calls for its neighbours and       *)
(* restarts least of all; only its tags can be replaced at once.           *)
(***************************************************************************)
CONSTANTS
    Places,   \* containers and paths
    Bytes,    \* contents
    TagSets,
    Metadata,
    Nothing,  \* no blob
    Mixed     \* anything, the parts of several blobs included

VARIABLE blob  \* place -> what it holds, or is about to hold

Wholes   == [bytes : Bytes, tags : TagSets, metadata : Metadata]
Settled  == Wholes \cup {Nothing}
Changing == [next : Settled]
States   == Settled \cup Changing \cup {Mixed}

TypeOK == blob \in [Places -> States]

Init == blob \in [Places -> Settled]

\* only place b changes
Only(b) == \A c \in Places \ {b} : blob'[c] = blob[c]

Begin(b) == blob[b] \notin Changing /\ blob'[b] \in Changing /\ Only(b)

End(b) == blob[b] \in Changing /\ blob'[b] = blob[b].next /\ Only(b)

Retag(b) ==
    /\ blob[b] \in Wholes /\ blob'[b] \in Wholes
    /\ blob'[b].bytes = blob[b].bytes /\ blob'[b].metadata = blob[b].metadata
    /\ Only(b)

\* calls fail, meet others, or die with the emulator
Disturb == \A b \in Places : blob'[b] \in {blob[b]} \cup (IF blob[b] \in Changing THEN {Mixed} ELSE {})

Next == Disturb \/ \E b \in Places : Begin(b) \/ End(b) \/ Retag(b)

Spec == Init /\ [][Next]_blob
=============================================================================
