------------------------ MODULE MCCollectionContents ------------------------
(* Model-checking instances of CollectionContents. *)
EXTENDS CollectionContents, TLC

Symmetry == Permutations(Objects) \cup Permutations(Blobs)
            \cup Permutations(Requests) \cup Permutations(Collections)
=============================================================================
