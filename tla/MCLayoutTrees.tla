---------------------------- MODULE MCLayoutTrees ----------------------------
(***************************************************************************)
(* Small instances of LayoutTrees: clients and workspaces as model values. *)
(***************************************************************************)
EXTENDS LayoutTrees

CONSTANTS c1, c2, c3, w1, w2, t1

\* Clients are alike, but for those that may float.
Alike == Permutations(Clients \ Floaters) \cup Permutations(Floaters)
=============================================================================
