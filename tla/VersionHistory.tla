--------------------------- MODULE VersionHistory ---------------------------
(***************************************************************************)
(* What a document promises its readers (TASK.md, M9; docs/architecture.md *)
(* "documents and versions"): a history of versions that only grows, the   *)
(* newest of which is the current one, until the document is removed; from *)
(* then on nothing changes any more.                                       *)
(***************************************************************************)
EXTENDS Sequences

CONSTANTS
  Keys,     \* the versions that can ever be made
  NoKey     \* the current version of a document that does not exist yet

VARIABLES history, current, removed
vars == <<history, current, removed>>

Init == history = <<>> /\ current = NoKey /\ removed = FALSE

Add(k) ==
  /\ ~removed /\ \A i \in DOMAIN history : history[i] # k
  /\ history' = Append(history, k)
  /\ current' = k
  /\ UNCHANGED removed

Remove ==
  /\ ~removed /\ history # <<>>
  /\ removed' = TRUE
  /\ UNCHANGED <<history, current>>

Next == (\E k \in Keys : Add(k)) \/ Remove

Spec == Init /\ [][Next]_vars

=============================================================================
