----------------------------- MODULE SharedText -----------------------------
(***************************************************************************)
(* What Markdown collaboration promises: one text, which editors replace   *)
(* one after another.  Each replacement gets the next number and is then   *)
(* stored or not; others are shown only what is stored, and only what is   *)
(* newer than the text they started with.  A service that starts again     *)
(* opens with the newest text stored.                                      *)
(***************************************************************************)
EXTENDS Naturals

CONSTANT Readers

VARIABLES
  open, text,     \* the text that is being edited, with its number
  log, storing,   \* the texts stored, and those being stored
  start, shown    \* what a reader started with, and was shown since

vars == <<open, text, log, storing, start, shown>>

Row == [seq : Nat, content : Nat]
File == [seq |-> 0, content |-> 0]

IsNewest(r, S) == r \in S /\ \A q \in S : q.seq <= r.seq

Init ==
  /\ open = FALSE /\ text = File
  /\ log = {} /\ storing = {}
  /\ start = [s \in Readers |-> 0] /\ shown = [s \in Readers |-> {}]

Open ==
  /\ ~open /\ open' = TRUE
  /\ IsNewest(text', log \cup {File})
  /\ UNCHANGED <<log, storing, start, shown>>

Edit ==
  /\ open /\ text' \in Row /\ text'.seq = text.seq + 1
  /\ storing' = storing \cup {text'}
  /\ UNCHANGED <<open, log, start, shown>>

Store(r) ==
  /\ r \in storing /\ storing' = storing \ {r}
  /\ log' = log \cup {r}
  /\ UNCHANGED <<open, text, start, shown>>

Drop(r) ==
  /\ r \in storing /\ storing' = storing \ {r}
  /\ UNCHANGED <<open, text, log, start, shown>>

Greet(s) ==
  /\ open /\ shown[s] = {}
  /\ start' = [start EXCEPT ![s] = text.seq]
  /\ UNCHANGED <<open, text, log, storing, shown>>

Show(s, r) ==
  /\ r \in log /\ r.seq > start[s]
  /\ shown' = [shown EXCEPT ![s] = @ \cup {r.seq}]
  /\ UNCHANGED <<open, text, log, storing, start>>

(* What was being stored is there afterwards, or it is not.                *)
Restart ==
  /\ open' = FALSE /\ text' = File /\ storing' = {}
  /\ \E S \in SUBSET storing : log' = log \cup S
  /\ start' = [s \in Readers |-> 0] /\ shown' = [s \in Readers |-> {}]

Next ==
  \/ Open \/ Edit \/ Restart
  \/ \E r \in storing : Store(r) \/ Drop(r)
  \/ \E s \in Readers : Greet(s) \/ \E r \in log : Show(s, r)

Spec == Init /\ [][Next]_vars

=============================================================================
