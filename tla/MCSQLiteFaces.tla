---------------------------- MODULE MCSQLiteFaces ----------------------------
(***************************************************************************)
(* Instances of SQLiteFaces for TLC: a photo with several faces, and one   *)
(* that shows one of its persons from another side and has a name that     *)
(* percent-encoding changes.                                               *)
(***************************************************************************)
EXTENDS SQLiteFaces, TLC

CONSTANTS p1, spaced,         \* photos
          front, side, other, \* looks
          w1, s1,             \* a replica and a goroutine
          Ann                 \* a name

MCSimilar == {<<l, l>> : l \in {front, side, other}} \cup {<<front, side>>, <<side, front>>}

OnePhoto       == p1 :> <<front, other, side>>
PlainAndSpaced == p1 :> <<front, other>> @@ spaced :> <<side>>

\* nothing is stored under the spaced name's encoding
MCUndecoded == [ref \in PhotoRefs |-> IF ref = spaced THEN None ELSE ref]

\* an empty store, with and without an administrator
Administered == {[events |-> 1, calls |-> 2, person |-> 0, face |-> 0]}
LeftAlone    == {[events |-> 1, calls |-> 0, person |-> 0, face |-> 0]}
=============================================================================
