----------------------------- MODULE MCDoorbell -----------------------------
(* Model-checking instances of Doorbell. *)
EXTENDS Doorbell, TLC

Symmetry == Permutations(Collections) \cup Permutations(Devices)
=============================================================================
