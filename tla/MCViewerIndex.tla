---------------------------- MODULE MCViewerIndex ----------------------------
(***************************************************************************)
(* A small library for ViewerIndex: the destination and one day of it,      *)
(* the videos of two instants that follow each other and the track of one.  *)
(***************************************************************************)
EXTENDS ViewerIndex, TLC

CONSTANTS root, day, v1, v2, gps1, k1, k2

TwoDirs == {root, day}
DirRank == (root :> 0) @@ (day :> 1)
ThreeNames == {v1, v2, gps1}
KeysOfNames == (v1 :> k1) @@ (gps1 :> k1) @@ (v2 :> k2)
OneDay == (root :> {}) @@ (day :> {v1, gps1})
Times == (k1 :> 1) @@ (k2 :> 3)
Types == (k1 :> "N") @@ (k2 :> "N")

=============================================================================
