----------------------------- MODULE MCSessions -----------------------------
(* Model-checking instances of Sessions. *)
EXTENDS Sessions, TLC

Symmetry == Permutations(Handlers) \cup Permutations(Users) \cup Permutations(Sessions)
=============================================================================
