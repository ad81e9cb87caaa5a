--------------------------- MODULE MCRedirectCache ---------------------------
(* Instances of RedirectCache for TLC. *)
EXTENDS RedirectCache, TLC

Symmetry == Permutations(Instances) \cup Permutations(Requests)
=============================================================================
