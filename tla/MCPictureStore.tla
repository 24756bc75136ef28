--------------------------- MODULE MCPictureStore ---------------------------
(***************************************************************************)
(* Instances of PictureStore for TLC.                                      *)
(***************************************************************************)
EXTENDS PictureStore, TLC

Symmetry == Permutations(Users) \cup Permutations(FileIds) \cup Permutations(Times)
                \cup Permutations(Requests)
=============================================================================
