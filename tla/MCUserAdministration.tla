------------------------ MODULE MCUserAdministration ------------------------
(***************************************************************************)
(* Instances of UserAdministration for TLC.                                *)
(***************************************************************************)
EXTENDS UserAdministration, TLC

ManagementOps == Management \cup {"user.create"}

AllOps == Management \cup FieldUpdates \cup Creations

\* Users, requests and names are interchangeable.
Symmetry == Permutations(Users) \cup Permutations(Requests) \cup Permutations(Names)
=============================================================================
