--------------------------- MODULE MCUserDeletion ---------------------------
(* An instance of UserDeletion for TLC: one user, who owns every code. *)
EXTENDS UserDeletion

OwnerOfMC == [c \in Codes |-> CHOOSE u \in Users : TRUE]
=============================================================================
