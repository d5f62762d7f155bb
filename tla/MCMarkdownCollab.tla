-------------------------- MODULE MCMarkdownCollab --------------------------
(* Small instances of MarkdownCollab for TLC.                              *)
EXTENDS MarkdownCollab, TLC

Symmetry == Permutations(Sessions)
=============================================================================
