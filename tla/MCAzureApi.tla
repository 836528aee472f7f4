----------------------------- MODULE MCAzureApi -----------------------------
(***************************************************************************)
(* Renames on the production store for TLC: one that is repeated, at once  *)
(* or after it was interrupted, with one of an album and page loads beside *)
(* it, or with soft-deletes of the old or of the new collection.           *)
(***************************************************************************)
EXTENDS AzureRenames, MCPhotoApi, TLC

AzureRequests ==
    {Blank, RenameColl(A, B), Again(RenameColl(A, B)), RenameAlb(A, x, y),
     OnCollection("softDeleteCollection", A), OnCollection("softDeleteCollection", B)}

AzureWorkloads ==
    {{Blank, RenameColl(A, B), Again(RenameColl(A, B)), RenameAlb(A, x, y)},
     {RenameColl(A, B), Again(RenameColl(A, B)), RenameAlb(A, x, y),
      OnCollection("softDeleteCollection", A)},
     {RenameColl(A, B), Again(RenameColl(A, B)), OnCollection("softDeleteCollection", B)}}

\* P1 is called f and P2 is called g wherever a rename takes them
ByName == [p \in Paths |-> IF p[3] = f THEN P1 ELSE P2]

\* how many renames a blob at p may be behind
Moves == [p \in Paths |-> (IF p[1] = B THEN 1 ELSE 0) + (IF p[2] = y THEN 1 ELSE 0)]

ASSUME MCAzureAssumption == OneWay /\ NeverMixed

Symmetry == Permutations(Clients)
=============================================================================
