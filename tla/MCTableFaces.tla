---------------------------- MODULE MCTableFaces -----------------------------
(***************************************************************************)
(* Instances of TableFaces for TLC: two photos that share a person's       *)
(* face, seen from two sides, one of them with a second face.              *)
(***************************************************************************)
EXTENDS TableFaces, TLC

CONSTANTS p1, p2,             \* photos
          front, side, other, \* looks
          w1, w2,             \* replicas
          Ann,                \* a name
          m1, m2              \* connections

MCSimilar == {<<l, l>> : l \in {front, side, other}} \cup {<<front, side>>, <<side, front>>}

\* names that percent-encoding leaves alone
PlainNames == [ref \in PhotoRefs |-> ref]

TwoPhotos == p1 :> <<front, other>> @@ p2 :> <<side>>

\* three faces of three persons
ThreeFaces ==
    <<0, 0>> :> [photo |-> p1, look |-> front] @@ <<1, 1>> :> [photo |-> p1, look |-> other]
        @@ <<2, 2>> :> [photo |-> p2, look |-> side]

\* an empty store whose photos arrive, and a store administrators tidy up
Filling(n) == [events |-> 1, calls |-> n, person |-> 0, face |-> 0]
Tidying        == [events |-> 0, calls |-> 3, person |-> 3, face |-> 3]

FillingAndTidying == {Filling(1), Tidying}
JustFilling       == {Filling(1)}

\* replicas are alike, and so are connections
Symmetry == Permutations({w1, w2}) \cup Permutations({m1, m2})

MCStored == [s \in Starts |-> IF s = Tidying THEN ThreeFaces ELSE << >>]
=============================================================================
