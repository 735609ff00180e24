---------------------------- MODULE MCPullClient ----------------------------
(* Symmetry for model-checking PullClient.                                  *)
EXTENDS PullClient, TLC

Symmetry == Permutations(Objects) \cup Permutations(Collections)
=============================================================================
