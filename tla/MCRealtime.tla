----------------------------- MODULE MCRealtime -----------------------------
(***************************************************************************)
(* Instances of Realtime for TLC.                                          *)
(***************************************************************************)
EXTENDS Realtime, TLC

Symmetry == Permutations(Users) \cup Permutations(Sockets)
                \cup Permutations(Handlers) \cup Permutations(Calls)
=============================================================================
