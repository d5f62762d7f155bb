------------------------- MODULE MCDocumentVersions -------------------------
(* Instances of DocumentVersions for TLC; calls are interchangeable.       *)
EXTENDS DocumentVersions, TLC

Symmetry == Permutations(Calls)

=============================================================================
