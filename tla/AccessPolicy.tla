---------------------------- MODULE AccessPolicy ----------------------------
(***************************************************************************)
(* What the rights on a document promise: a request has at most one        *)
(* effect, in one step, and only if every right it needs was held at some  *)
(* moment since it began; it answers with success only then, and a request *)
(* that is to change something only after the change.                      *)
(***************************************************************************)
EXTENDS AccessRights

VARIABLE stage         \* how far a request is

vars == <<rights, request, result, held, stage>>

Init == Start /\ stage = All("idle")

Begin(c) ==
  /\ stage[c] = "idle" /\ stage' = [stage EXCEPT ![c] = "begun"]
  /\ kind'[c] \in AllKinds /\ actor'[c] \in Users \cup {NoOne} /\ input'[c] \in Input
  /\ \A d \in Calls \ {c} : kind'[d] = kind[d] /\ actor'[d] = actor[d] /\ input'[d] = input[d]
  /\ UNCHANGED <<rights, result>>

(* These requests end with this answer.                                    *)
Ends(C, answer) ==
  /\ stage' = [c \in Calls |-> IF c \in C THEN "done" ELSE stage[c]]
  /\ Answered(C, answer)
  /\ UNCHANGED rights

Effect(c) ==
  /\ stage[c] = "begun" /\ Entitled(c) /\ Change(c)
  /\ stage' = [stage EXCEPT ![c] = "acted"]
  /\ UNCHANGED <<request, result>>

Success(c) ==
  /\ stage[c] \in {"begun", "acted"} /\ Entitled(c)
  /\ kind[c] \in Changing => stage[c] = "acted"
  /\ Ends({c}, "ok")

(* An error, or an answer that does not tell of the document.              *)
Refusal(C, answer) ==
  /\ \A c \in C : stage[c] \in {"begun", "acted"}
  /\ Ends(C, answer)

Expiry(k) ==
  /\ LinkExpires(k) \/ TokenExpires(k)
  /\ UNCHANGED <<request, result, stage>>

Look == UNCHANGED <<rights, request, result, stage>>

Next ==
  /\ \/ \E c \in Calls : Begin(c) \/ Effect(c) \/ Success(c)
     \/ \E C \in SUBSET Calls, answer \in {"error", "empty"} : Refusal(C, answer)
     \/ \E k \in Keys : Expiry(k)
     \/ Look
  /\ Watch({c \in Calls : stage'[c] \notin {"idle", "done"}})

Spec == Init /\ [][Next]_vars

=============================================================================
