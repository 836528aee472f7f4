---------------------------- MODULE MCSafeRenames ----------------------------
(***************************************************************************)
(* The instances of PhotoApi whose workloads meet the conditions under     *)
(* which renames lose no photo (SafeRenames).                              *)
(***************************************************************************)
EXTENDS MCPhotoApi, SafeRenames

ASSUME MCSafeAssumption == SeparateRenames /\ EditsKeepPlace /\ IntactLibraries
=============================================================================
