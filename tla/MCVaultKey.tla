----------------------------- MODULE MCVaultKey -----------------------------
(* Symmetry for model-checking VaultKey.                                    *)
EXTENDS VaultKey, TLC

Symmetry == Permutations(Devices) \cup Permutations(Materials)
=============================================================================
