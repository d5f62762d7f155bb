--------------------------- MODULE AccountsProofs ---------------------------
(***************************************************************************)
(* Proofs about Accounts, for any requests, accounts, administrators,      *)
(* bodies and faults.                                                      *)
(*                                                                         *)
(* The argument comes in two parts.  Where a request is says what it has   *)
(* been seen with (Cleared) and which account and session it works on      *)
(* (Based): authorisation, uniqueness and the audit log follow.  From that *)
(* invariant a second one is proved about avatars: each belongs to one     *)
(* upload, which sets it once, so an avatar replaced never comes back.     *)
(***************************************************************************)
EXTENDS Accounts, TLAPS

Newcomers == {"register", "login", "callback"}

(* Kinds of request that change nothing, or leave no trace of it.          *)
Silent == {"register", "me", "list", "viewAvatar"}

Entitled(c) == Needed(kind[c]) \subseteq held[c]

(* Which steps a kind of request takes.                                    *)
Placed(c) ==
  /\ pc[c] = "create" => kind[c] \in {"register", "callback"}
  /\ pc[c] = "byEmail" => kind[c] \in {"login", "callback"}
  /\ pc[c] \in {"bySubject", "merge", "merged"} => kind[c] = "callback"
  /\ pc[c] = "open" => kind[c] \in {"login", "callback"}
  /\ pc[c] \in {"session", "account"} => kind[c] \notin Newcomers
  /\ pc[c] \in {"find", "write"} => kind[c] \in {"changePassword", "profile", "avatar"} \cup Admin
  /\ pc[c] \in {"put", "drop", "undo"} => kind[c] = "avatar"
  /\ pc[c] = "reload" => kind[c] \in {"profile", "avatar", "update", "list", "viewAvatar"}
  /\ pc[c] = "lookup" => kind[c] = "revoke"
  /\ pc[c] = "delete" => kind[c] \in {"revoke", "logout"}
  /\ pc[c] = "forget" => kind[c] = "logout"
  /\ pc[c] = "audit" => kind[c] \notin Silent

(* Its cookie, and the session it names, are of sessions there were.       *)
Asked(c) ==
  Active(c) =>
    /\ kind[c] \in AllKinds
    /\ kind[c] \notin Newcomers => token[c] \in Tokens /\ status[token[c]] # "none"
    /\ kind[c] = "revoke" => input[c].on \in Tokens /\ status[input[c].on] # "none"

(* The account it works on, and what the checks have said of it.           *)
Based(c) ==
  /\ pc[c] \in {"merge", "merged", "open", "write"} => account[c] \in exist
  /\ Active(c) /\ pc[c] \notin {"session", "account"} =>
       /\ kind[c] \in Personal => account[c] = Me(c)
       /\ kind[c] \in Admin => account[c] = input[c].on
  /\ pc[c] = "write" /\ kind[c] = "update" =>
       ~(account[c] = Me(c) /\ (input[c].admin = FALSE \/ input[c].disabled = TRUE))
  /\ pc[c] = "delete" /\ kind[c] = "revoke" =>
       owner[input[c].on] = Me(c) /\ input[c].on # token[c]

(* What it has been seen with.                                             *)
Cleared(c) ==
  /\ Active(c) /\ pc[c] # "session" => Needed(kind[c]) \cap {"session"} \subseteq held[c]
  /\ Active(c) /\ pc[c] \notin {"session", "account"} =>
       Needed(kind[c]) \cap {"enabled", "admin"} \subseteq held[c]
  /\ pc[c] \in {"create", "merge", "merged", "open", "write", "audit"} => Entitled(c)

(* The account and the session it is to make are not there yet.            *)
Fresh(c) ==
  /\ pc[c] \in {"idle", "bySubject", "byEmail", "create"} => c \notin exist
  /\ pc[c] \in {"idle", "bySubject", "byEmail", "create", "merge", "merged", "open"} =>
       status[c] = "none"

(* What it has done, and what was said of it.                              *)
Told(c) ==
  /\ pc[c] # "done" => result[c] = "none" /\ audit[c] = "none"
  /\ acted[c] => pc[c] \in {"merged", "open", "reload", "drop", "undo", "audit", "done"}
  /\ pc[c] \in {"drop", "audit"} => acted[c]
  /\ pc[c] = "reload" /\ kind[c] \notin Silent => acted[c]
  /\ kind[c] \in Silent => ~acted[c]
  /\ acted[c] \/ result[c] = "ok" => Entitled(c)
  /\ audit[c] # "none" => acted[c] /\ result[c] = "ok"
  /\ acted[c] /\ result[c] = "ok" => audit[c] # "none" \/ kind[c] = "logout"

Good(c) == Placed(c) /\ Asked(c) /\ Based(c) /\ Cleared(c) /\ Fresh(c) /\ Told(c)

(* The history variable is what it is meant to be.                         *)
Watching(c) == Active(c) => \A r \in Needed(kind[c]) : Has(c, r) => r \in held[c]

RInv == TypeOK /\ OneAccountPerIdentity /\ \A c \in Calls : Good(c) /\ Watching(c)

-----------------------------------------------------------------------------
(* TypeOK in parts: the tables, the requests, the history.                 *)

Tables ==
  /\ exist \in SUBSET Users /\ users \in [Users -> User]
  /\ status \in [Tokens -> {"none", "live", "expired", "deleted"}]
  /\ owner \in [Tokens -> Users \cup {NoOne}]
  /\ objects \in SUBSET Calls /\ autoMerge \in BOOLEAN
  /\ \A u \in Users \ exist : users[u] = Blank
  /\ \A t \in Tokens : status[t] # "none" => owner[t] \in exist

LocalTypes ==
  /\ pc \in [Calls -> PCs] /\ result \in [Calls -> {"none", "ok", "error"}]
  /\ token \in [Calls -> Tokens \cup {NoOne}] /\ input \in [Calls -> Input]
  /\ account \in [Calls -> Users \cup {NoOne}] /\ old \in [Calls -> Calls \cup {NoOne}]

HistoryTypes ==
  /\ kind \in [Calls -> AllKinds \cup {"none"}]
  /\ acted \in [Calls -> BOOLEAN] /\ audit \in [Calls -> {"none", "written", "failed"}]
  /\ excused \in SUBSET Calls

(* TypeOK is the conjunction of its parts.                                 *)
LEMMA Types ==
  TypeOK <=> Tables /\ LocalTypes /\ HistoryTypes /\ held \in [Calls -> SUBSET Rights]
BY DEF TypeOK, Tables, LocalTypes, HistoryTypes

(* Rights needed are rights.                                               *)
LEMMA NeededType == \A k : Needed(k) \subseteq Rights
BY DEF Needed, Rights

-----------------------------------------------------------------------------
(* What a step may do to the requests it is not about.                     *)

(* The request's variables are left alone.                                 *)
Still(d) ==
  /\ pc'[d] = pc[d] /\ result'[d] = result[d] /\ token'[d] = token[d]
  /\ input'[d] = input[d] /\ account'[d] = account[d] /\ old'[d] = old[d]

(* So is its history, and what it is to make is not made by others.        *)
Kept(d) ==
  /\ Still(d) /\ kind'[d] = kind[d] /\ acted'[d] = acted[d] /\ audit'[d] = audit[d]
  /\ d \notin exist => d \notin exist'
  /\ status[d] = "none" => status'[d] = "none"

(* Accounts stay, and sessions stay rows of the same account.              *)
Growth ==
  /\ exist \subseteq exist'
  /\ \A t \in Tokens : status[t] # "none" => status'[t] # "none" /\ owner'[t] = owner[t]

(* Every step notes the rights of the requests under way.                  *)
LEMMA Watched ==
  ASSUME Watch, NEW c \in Calls
  PROVE  Watching(c)' /\ held[c] \subseteq held'[c]
BY DEF Watch, Watching, Active

(* What a request has been seen with are rights.                           *)
LEMMA WatchType ==
  ASSUME Watch, held \in [Calls -> SUBSET Rights]
  PROVE  held' \in [Calls -> SUBSET Rights]
BY NeededType DEF Watch

(* What holds of a request left alone goes on to hold.                     *)
LEMMA KeptGood ==
  ASSUME NEW d \in Calls, Good(d), Kept(d), Growth, held[d] \subseteq held'[d]
  PROVE  Good(d)'
<1>1. Placed(d)'
  BY DEF Good, Kept, Still, Placed
<1>2. Asked(d)'
  BY DEF Good, Kept, Still, Growth, Asked, Active
<1>3. Based(d)'
  <2>1. Active(d) /\ kind[d] \notin Newcomers => Me(d)' = Me(d)
    BY DEF Good, Kept, Still, Growth, Asked, Me
  <2>2. Active(d) /\ kind[d] = "revoke" => owner'[input[d].on] = owner[input[d].on]
    BY DEF Good, Growth, Asked
  <2>3. kind[d] \in Personal \cup Admin => kind[d] \notin Newcomers
    BY DEF Personal, Admin, Newcomers
  <2>4. pc[d] \in {"write", "delete"} => Active(d)
    BY DEF Active
  <2>5. /\ pc'[d] = pc[d] /\ kind'[d] = kind[d] /\ account'[d] = account[d]
        /\ input'[d] = input[d] /\ token'[d] = token[d] /\ exist \subseteq exist'
        /\ Active(d)' <=> Active(d)
    BY DEF Kept, Still, Growth, Active
  <2>6. "update" \in Admin /\ "revoke" \in Personal
    BY DEF Admin, Personal
  <2> QED BY <2>1, <2>2, <2>3, <2>4, <2>5, <2>6 DEF Good, Based
<1>4. Cleared(d)'
  BY DEF Good, Kept, Still, Cleared, Entitled, Active
<1>5. Fresh(d)'
  BY DEF Good, Kept, Still, Fresh
<1>6. Told(d)'
  BY DEF Good, Kept, Still, Told, Entitled
<1> QED BY <1>1, <1>2, <1>3, <1>4, <1>5, <1>6 DEF Good

(* It is enough to look at the types, the indexes and each request.        *)
LEMMA StepRule ==
  ASSUME RInv, Watch, Tables', LocalTypes', HistoryTypes', OneAccountPerIdentity', Growth,
         \A d \in Calls : Kept(d) \/ Good(d)'
  PROVE  RInv'
<1>1. ASSUME NEW d \in Calls
      PROVE  Good(d)' /\ Watching(d)'
  BY Watched, KeptGood DEF RInv
<1>2. held' \in [Calls -> SUBSET Rights]
  BY WatchType, Types DEF RInv
<1>3. TypeOK'
  BY <1>2 DEF TypeOK, Tables, LocalTypes, HistoryTypes
<1> QED BY <1>1, <1>3 DEF RInv

(* A step that neither makes nor changes a row, but may end a session.     *)
LEMMA LookRule ==
  ASSUME RInv, Watch, NEW c \in Calls, UNCHANGED <<userVars, owner, autoMerge, kind>>,
         status' \in [Tokens -> {"none", "live", "expired", "deleted"}],
         \A t \in Tokens : status'[t] = "none" <=> status[t] = "none",
         objects' \in SUBSET Calls, excused' \in SUBSET Calls,
         acted' \in [Calls -> BOOLEAN], audit' \in [Calls -> {"none", "written", "failed"}],
         LocalTypes', Good(c)',
         \A d \in Calls \ {c} : Still(d) /\ acted'[d] = acted[d] /\ audit'[d] = audit[d]
  PROVE  RInv'
<1>1. /\ exist' = exist /\ users' = users /\ owner' = owner
      /\ autoMerge' = autoMerge /\ kind' = kind
  BY DEF userVars
<1>2. Tables' /\ HistoryTypes'
  BY <1>1, Types DEF RInv, Tables, HistoryTypes
<1>3. OneAccountPerIdentity' /\ Growth
  BY <1>1 DEF RInv, OneAccountPerIdentity, Growth
<1>4. \A d \in Calls \ {c} : Kept(d)
  <2>1. \A d \in Calls : d \in Tokens
    BY DEF Tokens, Users
  <2> QED BY <1>1, <2>1 DEF Kept
<1> QED BY <1>2, <1>3, <1>4, StepRule

-----------------------------------------------------------------------------
(* How a statement leaves its request, and the others.                     *)

Others(c) == \A d \in Calls \ {c} : Still(d)

(* It goes on.                                                             *)
LEMMA GotoMoves ==
  ASSUME RInv, NEW c \in Calls, NEW step \in PCs, Goto(c, step)
  PROVE  /\ LocalTypes' /\ Others(c)
         /\ pc'[c] = step /\ result'[c] = result[c] /\ token'[c] = token[c]
         /\ input'[c] = input[c] /\ account'[c] = account[c] /\ old'[c] = old[c]
<1>1. LocalTypes
  BY Types DEF RInv
<1>2. LocalTypes'
  BY <1>1 DEF Goto, locals, LocalTypes
<1> QED BY <1>1, <1>2 DEF Goto, locals, LocalTypes, Others, Still

(* It goes on with an account.                                             *)
LEMMA GotoWithMoves ==
  ASSUME RInv, NEW c \in Calls, NEW step \in PCs, NEW u \in Users \cup {NoOne},
         NEW a \in Calls \cup {NoOne}, GotoWith(c, step, u, a)
  PROVE  /\ LocalTypes' /\ Others(c)
         /\ pc'[c] = step /\ result'[c] = result[c] /\ token'[c] = token[c]
         /\ input'[c] = input[c] /\ account'[c] = u /\ old'[c] = a
<1>1. LocalTypes
  BY Types DEF RInv
<1>2. LocalTypes'
  BY <1>1 DEF GotoWith, LocalTypes
<1> QED BY <1>1, <1>2 DEF GotoWith, LocalTypes, Others, Still

(* Nothing is given for nothing.                                           *)
LEMMA NoInputType == NoInput \in Input
BY DEF NoInput, Input, Flag

(* Requests end.                                                           *)
LEMMA ForgetMoves ==
  ASSUME RInv, NEW C \in SUBSET Calls, Forget(C),
         result' \in [Calls -> {"none", "ok", "error"}]
  PROVE  /\ LocalTypes'
         /\ \A d \in C : pc'[d] = "done"
         /\ \A d \in Calls \ C : result'[d] = result[d] => Still(d)
<1>1. LocalTypes
  BY Types DEF RInv
<1>2. LocalTypes'
  BY <1>1, NoInputType DEF Forget, LocalTypes, PCs
<1> QED BY <1>2 DEF Forget, Still

(* One is answered.                                                        *)
LEMMA AnswerMoves ==
  ASSUME RInv, NEW c \in Calls, NEW answer \in {"ok", "error"}, Answer(c, answer)
  PROVE  LocalTypes' /\ Others(c) /\ pc'[c] = "done" /\ result'[c] = answer
<1>1. result \in [Calls -> {"none", "ok", "error"}]
  BY DEF RInv, TypeOK
<1>2. /\ result' \in [Calls -> {"none", "ok", "error"}] /\ result'[c] = answer
      /\ \A d \in Calls \ {c} : result'[d] = result[d]
  BY <1>1 DEF Answer
<1>3. Forget({c}) /\ {c} \in SUBSET Calls
  BY DEF Answer
<1> QED BY <1>2, <1>3, ForgetMoves DEF Others

(* An error sends the request back, on, or away.                           *)
LEMMA FailCases ==
  ASSUME NEW c \in Calls, Fail(c)
  PROVE  \/ kind[c] = "avatar" /\ pc[c] \in {"find", "write", "reload"} /\ Goto(c, "undo")
         \/ kind[c] = "logout" /\ pc[c] \in {"session", "account"} /\ Goto(c, "forget")
         \/ /\ ~(kind[c] = "avatar" /\ pc[c] \in {"find", "write", "reload"})
            /\ ~(kind[c] = "logout" /\ pc[c] \in {"session", "account"})
            /\ Answer(c, "error")
BY DEF Fail

(* In either case the other requests are left alone.                       *)
LEMMA FailMoves ==
  ASSUME RInv, NEW c \in Calls, Fail(c)
  PROVE  /\ LocalTypes' /\ Others(c)
         /\ \/ pc'[c] = "done" /\ result'[c] = "error"
            \/ /\ \/ kind[c] = "avatar" /\ pc[c] \in {"find", "write", "reload"} /\ pc'[c] = "undo"
                  \/ kind[c] = "logout" /\ pc[c] \in {"session", "account"} /\ pc'[c] = "forget"
               /\ result'[c] = result[c] /\ token'[c] = token[c]
               /\ input'[c] = input[c] /\ account'[c] = account[c] /\ old'[c] = old[c]
<1>1. {"undo", "forget"} \subseteq PCs
  BY DEF PCs
<1> QED BY <1>1, FailCases, GotoMoves, AnswerMoves

-----------------------------------------------------------------------------
(* What becomes of the request itself.                                     *)

(* An ended one needs an entitlement only for what it did or was given.    *)
LEMMA DoneGood ==
  ASSUME NEW c \in Calls, pc'[c] = "done", kind'[c] = kind[c], held[c] \subseteq held'[c],
         acted'[c] \/ result'[c] = "ok" => Entitled(c),
         kind[c] \in Silent => ~acted'[c],
         audit'[c] # "none" => acted'[c] /\ result'[c] = "ok",
         acted'[c] /\ result'[c] = "ok" => audit'[c] # "none" \/ kind[c] = "logout"
  PROVE  Good(c)'
BY DEF Good, Placed, Asked, Based, Cleared, Fresh, Told, Active, Entitled

(* One that fails, perhaps after its UPDATE took effect.                   *)
LEMMA FailGood ==
  ASSUME RInv, NEW c \in Calls, Active(c), Fail(c), kind' = kind, audit' = audit,
         held[c] \subseteq held'[c], UNCHANGED <<exist, owner>>,
         \A t \in Tokens : status[t] # "none" => status'[t] # "none",
         acted'[c] = acted[c] \/ pc[c] = "write"
  PROVE  Good(c)'
<1>1. /\ Good(c) /\ kind'[c] = kind[c] /\ audit'[c] = "none" /\ audit[c] = "none"
  BY DEF RInv, Good, Told, Active
<1>2. acted'[c] => Entitled(c)
  BY <1>1 DEF Good, Told, Cleared
<1>3. kind[c] \in Silent => ~acted'[c]
  BY <1>1 DEF Good, Told, Placed, Silent, Admin
<1>4. CASE pc'[c] = "done" /\ result'[c] = "error"
  BY <1>1, <1>2, <1>3, <1>4, DoneGood
<1>5. CASE /\ kind[c] = "avatar" /\ pc[c] \in {"find", "write", "reload"} /\ pc'[c] = "undo"
           /\ result'[c] = result[c] /\ token'[c] = token[c] /\ input'[c] = input[c]
           /\ account'[c] = account[c]
  <2>1. Active(c) /\ pc[c] \notin {"session", "account", "idle", "done"} /\ "avatar" \notin Newcomers
        /\ "avatar" \in Personal /\ "avatar" \notin Admin \cup Silent
    BY <1>5 DEF Active, Newcomers, Personal, Admin, Silent
  <2>2. Placed(c)' /\ Asked(c)' /\ Fresh(c)'
    BY <1>1, <1>5, <2>1 DEF Good, Placed, Asked, Fresh, Active
  <2>3. Based(c)'
    BY <1>1, <1>5, <2>1 DEF Good, Based, Active, Me
  <2>4. Cleared(c)'
    BY <1>1, <1>5, <2>1 DEF Good, Cleared, Active
  <2>5. Told(c)'
    BY <1>1, <1>2, <1>5, <2>1 DEF Good, Told, Entitled
  <2> QED BY <2>2, <2>3, <2>4, <2>5 DEF Good
<1>6. CASE /\ kind[c] = "logout" /\ pc[c] \in {"session", "account"} /\ pc'[c] = "forget"
           /\ result'[c] = result[c] /\ token'[c] = token[c] /\ input'[c] = input[c]
           /\ account'[c] = account[c]
  <2>1. Active(c) /\ "logout" \notin Newcomers /\ "logout" \notin Personal \cup Admin \cup Silent
        /\ Needed("logout") = {}
    BY <1>6 DEF Active, Newcomers, Personal, Admin, Silent, Needed
  <2>2. Placed(c)' /\ Asked(c)' /\ Fresh(c)'
    BY <1>1, <1>6, <2>1 DEF Good, Placed, Asked, Fresh, Active
  <2>3. Based(c)' /\ Cleared(c)'
    BY <1>1, <1>6, <2>1 DEF Good, Based, Cleared, Active, Me
  <2>4. Told(c)'
    BY <1>1, <1>2, <1>6, <2>1 DEF Good, Told, Entitled
  <2> QED BY <2>2, <2>3, <2>4 DEF Good
<1> QED BY <1>4, <1>5, <1>6, FailMoves

(* One that goes on, the tables and the history as they were: what the     *)
(* next step asks for is left to show.                                     *)
LEMMA GotoGood ==
  ASSUME RInv, NEW c \in Calls, NEW step \in PCs \ {"idle", "done"}, Active(c), pc'[c] = step,
         kind'[c] = kind[c], acted'[c] = acted[c], audit'[c] = audit[c],
         result'[c] = result[c], token'[c] = token[c], input'[c] = input[c],
         UNCHANGED <<exist, owner>>, held[c] \subseteq held'[c],
         \A t \in Tokens : status[t] # "none" => status'[t] # "none",
         step # "session" /\ pc[c] = "session" => Needed(kind[c]) \cap {"session"} \subseteq held[c],
         step \notin {"session", "account"} /\ pc[c] \in {"session", "account"} =>
           Needed(kind[c]) \cap {"enabled", "admin"} \subseteq held[c],
         Placed(c)', Based(c)', Fresh(c)',
         step \in {"create", "merge", "merged", "open", "write", "audit"} => Entitled(c),
         acted[c] => step \in {"merged", "open", "reload", "drop", "undo", "audit"},
         step \in {"drop", "audit"} \/ (step = "reload" /\ kind[c] \notin Silent) => acted[c]
  PROVE  Good(c)'
<1>1. Good(c)
  BY DEF RInv
<1>2. Asked(c)'
  BY <1>1 DEF Good, Asked, Active
<1>3. Cleared(c)'
  BY <1>1 DEF Good, Cleared, Active, Entitled
<1>4. Told(c)'
  BY <1>1 DEF Good, Told, Active, Entitled
<1> QED BY <1>2, <1>3, <1>4 DEF Good

-----------------------------------------------------------------------------
(* Steps that look.                                                        *)

(* The tables are as they were, but for objects.                           *)
Looks == UNCHANGED <<userVars, sessionVars, autoMerge, kind, acted>>
           /\ objects' \in SUBSET Calls /\ excused' \in SUBSET Calls

(* What looking leaves alone, spelled out.                                 *)
LEMMA LooksKeeps ==
  ASSUME RInv, Looks
  PROVE  /\ UNCHANGED <<userVars, owner, autoMerge, kind>>
         /\ exist' = exist /\ users' = users /\ owner' = owner /\ status' = status
         /\ kind' = kind /\ acted' = acted /\ acted' \in [Calls -> BOOLEAN]
         /\ status' \in [Tokens -> {"none", "live", "expired", "deleted"}]
         /\ objects' \in SUBSET Calls /\ excused' \in SUBSET Calls
BY DEF Looks, userVars, sessionVars, RInv, TypeOK

(* Most steps leave the storage alone, too.                                *)
LEMMA LooksAway ==
  ASSUME RInv,
         UNCHANGED <<userVars, sessionVars, objects, autoMerge, kind, acted, excused>>
  PROVE  Looks
BY DEF Looks, RInv, TypeOK

(* A request fails.                                                        *)
LEMMA FailStep ==
  ASSUME RInv, Watch, NEW c \in Calls, Active(c), Fail(c), Looks, audit' = audit
  PROVE  RInv'
<1>1. held[c] \subseteq held'[c]
  BY Watched
<1>2. Good(c)'
  BY <1>1, LooksKeeps, FailGood
<1>3. audit' \in [Calls -> {"none", "written", "failed"}]
  BY DEF RInv, TypeOK
<1> QED BY <1>2, <1>3, LooksKeeps, FailMoves, LookRule DEF Others

(* A request is answered.                                                  *)
LEMMA AnswerStep ==
  ASSUME RInv, Watch, NEW c \in Calls, NEW answer \in {"ok", "error"}, Answer(c, answer), Looks,
         audit' \in [Calls -> {"none", "written", "failed"}],
         \A d \in Calls \ {c} : audit'[d] = audit[d],
         acted[c] \/ answer = "ok" => Entitled(c),
         audit'[c] # "none" => acted[c] /\ answer = "ok",
         acted[c] /\ answer = "ok" => audit'[c] # "none" \/ kind[c] = "logout"
  PROVE  RInv'
<1>1. held[c] \subseteq held'[c]
  BY Watched
<1>2. Good(c)'
  BY <1>1, LooksKeeps, AnswerMoves, DoneGood DEF RInv, Good, Told
<1> QED BY <1>2, LooksKeeps, AnswerMoves, LookRule DEF Others

(* A request goes on.                                                      *)
LEMMA GotoStep ==
  ASSUME RInv, Watch, NEW c \in Calls, NEW step \in PCs \ {"idle", "done"}, Active(c), Looks,
         audit' = audit, LocalTypes', Others(c), pc'[c] = step, result'[c] = result[c],
         token'[c] = token[c], input'[c] = input[c],
         step # "session" /\ pc[c] = "session" => Needed(kind[c]) \cap {"session"} \subseteq held[c],
         step \notin {"session", "account"} /\ pc[c] \in {"session", "account"} =>
           Needed(kind[c]) \cap {"enabled", "admin"} \subseteq held[c],
         Placed(c)', Based(c)', Fresh(c)',
         step \in {"create", "merge", "merged", "open", "write", "audit"} => Entitled(c),
         acted[c] => step \in {"merged", "open", "reload", "drop", "undo", "audit"},
         step \in {"drop", "audit"} \/ (step = "reload" /\ kind[c] \notin Silent) => acted[c]
  PROVE  RInv'
<1>1. held[c] \subseteq held'[c]
  BY Watched
<1>2. kind'[c] = kind[c] /\ acted'[c] = acted[c] /\ audit'[c] = audit[c]
      /\ UNCHANGED <<exist, owner>> /\ status' = status
  BY LooksKeeps
<1>3. Good(c)'
  BY <1>1, <1>2, GotoGood
<1>4. audit' \in [Calls -> {"none", "written", "failed"}]
  BY DEF RInv, TypeOK
<1> QED BY <1>3, <1>4, LooksKeeps, LookRule DEF Others

(* The account of a cookie exists.                                         *)
LEMMA MeExists ==
  ASSUME RInv, NEW c \in Calls, Active(c), kind[c] \notin Newcomers
  PROVE  token[c] \in Tokens /\ status[token[c]] # "none" /\ Me(c) \in exist /\ Me(c) \in Users
BY DEF RInv, Good, Asked, Me, TypeOK

(* The rights somebody is seen to have are noted.                          *)
LEMMA Noted ==
  ASSUME RInv, NEW c \in Calls, Active(c), NEW r \in Needed(kind[c]), Has(c, r)
  PROVE  r \in held[c]
BY DEF RInv, Watching

(* The rights, one by one.                                                 *)
LEMMA HasRights ==
  ASSUME NEW c
  PROVE  /\ Has(c, "session") <=> token[c] \in Tokens /\ status[token[c]] = "live"
         /\ Has(c, "enabled") <=> /\ token[c] \in Tokens /\ Me(c) \in exist
                                  /\ ~users[Me(c)].disabled
         /\ Has(c, "admin") <=> token[c] \in Tokens /\ Me(c) \in Admins
BY DEF Has

(* The profile is of nobody yet, or of an enabled account.                 *)
LEMMA HasIdentity ==
  ASSUME NEW c
  PROVE  Has(c, "identity") <=>
           \/ input[c].email \notin {users[u].email : u \in exist}
           \/ \E u \in exist : /\ ~users[u].disabled
                               /\ \/ users[u].subject = input[c].subject
                                  \/ autoMerge /\ users[u].email = input[c].email
BY DEF Has

(* An enabled account has the password given.                              *)
LEMMA HasProof ==
  ASSUME NEW c
  PROVE  Has(c, "password") <=>
           \E u \in exist : /\ users[u].local /\ ~users[u].disabled
                            /\ IF kind[c] = "login"
                                 THEN users[u].email = input[c].email
                                      /\ users[u].password = input[c].password
                                 ELSE token[c] \in Tokens /\ u = Me(c)
                                      /\ users[u].password = input[c].proof
BY DEF Has

(* What each kind of request needs.                                        *)
LEMMA Needs ==
  /\ Needed("register") = {} /\ Needed("logout") = {}
  /\ Needed("login") = {"password"} /\ Needed("callback") = {"identity"}
  /\ Needed("changePassword") = {"session", "enabled", "password"}
  /\ \A k \in Admin : Needed(k) = {"session", "enabled", "admin"}
  /\ \A k \in Personal \ {"changePassword"} : Needed(k) = {"session", "enabled"}
BY DEF Needed, Admin, Personal

(* FindSession.                                                            *)
LEMMA FindSessionStep ==
  ASSUME RInv, Watch, NEW c \in Calls, FindSession(c)
  PROVE  RInv'
<1>1. /\ pc[c] = "session" /\ Active(c) /\ kind[c] \notin Newcomers /\ Good(c)
      /\ held[c] \subseteq held'[c]
  BY Watched DEF FindSession, At, Active, RInv, Good, Placed
<1>2. token[c] \in Tokens /\ status[token[c]] # "none"
  BY <1>1, MeExists
<1>3. /\ UNCHANGED <<userVars, owner, autoMerge, kind>>
      /\ exist' = exist /\ owner' = owner /\ kind' = kind /\ acted' = acted /\ audit' = audit
      /\ status' = [status EXCEPT ![token[c]] = IF @ = "expired" THEN "deleted" ELSE @]
      /\ objects' = objects /\ excused' = excused
  BY DEF FindSession, userVars
<1>4. /\ status' \in [Tokens -> {"none", "live", "expired", "deleted"}]
      /\ \A t \in Tokens : status'[t] = "none" <=> status[t] = "none"
      /\ objects' \in SUBSET Calls /\ excused' \in SUBSET Calls
      /\ acted' \in [Calls -> BOOLEAN] /\ audit' \in [Calls -> {"none", "written", "failed"}]
  BY <1>2, <1>3 DEF RInv, TypeOK
<1>5. LocalTypes' /\ Others(c) /\ Good(c)'
  <2>1. CASE status[token[c]] = "live" /\ Goto(c, "account")
    <3>1. "account" \in PCs \ {"idle", "done"}
      BY DEF PCs
    <3>2. /\ LocalTypes' /\ Others(c) /\ pc'[c] = "account" /\ result'[c] = result[c]
          /\ token'[c] = token[c] /\ input'[c] = input[c] /\ account'[c] = account[c]
      BY <2>1, <3>1, GotoMoves
    <3>3. Needed(kind[c]) \cap {"session"} \subseteq held[c]
      BY <1>1, <1>2, <2>1, Noted, HasRights
    <3>4. Placed(c)' /\ Based(c)' /\ Fresh(c)'
      BY <1>1, <1>3, <3>2 DEF Placed, Based, Fresh, Active
    <3>5. ~acted[c]
      BY <1>1 DEF Good, Told
    <3> QED BY <1>1, <1>3, <1>4, <3>1, <3>2, <3>3, <3>4, <3>5, GotoGood
  <2>2. CASE Fail(c)
    BY <1>1, <1>3, <1>4, <2>2, FailMoves, FailGood
  <2> QED BY <2>1, <2>2 DEF FindSession
<1> QED BY <1>3, <1>4, <1>5, LookRule DEF Others

(* RequireAuth.                                                            *)
LEMMA RequireAuthStep ==
  ASSUME RInv, Watch, NEW c \in Calls, RequireAuth(c)
  PROVE  RInv'
<1> DEFINE k == kind[c]
<1>1. /\ pc[c] = "account" /\ Active(c) /\ k \in AllKinds /\ k \notin Newcomers /\ Good(c)
      /\ ~acted[c]
  BY DEF RequireAuth, At, Active, RInv, Good, Placed, Asked, Told
<1>2. token[c] \in Tokens /\ Me(c) \in exist /\ Me(c) \in Users
  BY <1>1, MeExists
<1>3. Looks /\ audit' = audit
  BY LooksAway DEF RequireAuth
<1>4. Needed(k) \cap {"session"} \subseteq held[c]
  BY <1>1 DEF Good, Cleared
<1>5. CASE Fail(c)
  BY <1>1, <1>3, <1>5, FailStep
<1>6. CASE ~Fail(c)
  <2>1. MayEnter(c)
    BY <1>6 DEF RequireAuth
  <2>2. Has(c, "enabled") /\ (k \in Admin => Has(c, "admin"))
    BY <1>2, <2>1, HasRights DEF MayEnter, Admins
  <2>3. Needed(k) \cap {"enabled", "admin"} \subseteq held[c]
    <3>1. "admin" \in Needed(k) => k \in Admin
      BY <1>1, Needs DEF AllKinds, Public, Newcomers, Personal
    <3> QED BY <1>1, <2>2, <3>1, Noted
  <2>4. CASE k = "me" /\ Answer(c, "ok")
    <3>1. Entitled(c)
      BY <1>4, <2>3, <2>4, Needs DEF Entitled, Personal
    <3>2. audit'[c] = "none" /\ audit' \in [Calls -> {"none", "written", "failed"}]
      BY <1>1, <1>3 DEF Good, Told, RInv, TypeOK
    <3> QED BY <1>1, <1>3, <2>4, <3>1, <3>2, AnswerStep
  <2>5. CASE k # "me"
    <3> DEFINE u == IF k \in Admin THEN input[c].on ELSE Me(c)
               a == IF k = "avatar" THEN users[Me(c)].avatar ELSE NoOne
    <3>1. GotoWith(c, FirstStep(k), u, a)
      BY <1>6, <2>1, <2>5 DEF RequireAuth
    <3>2. u \in Users \cup {NoOne} /\ a \in Calls \cup {NoOne}
      BY <1>2 DEF RInv, TypeOK, Input, User
    <3>3. /\ k \in {"changePassword", "profile"} \cup Admin => FirstStep(k) = "find"
          /\ k = "avatar" => FirstStep(k) = "put"
          /\ k = "revoke" => FirstStep(k) = "lookup"
          /\ k = "logout" => FirstStep(k) = "delete"
          /\ k \in {"list", "viewAvatar"} => FirstStep(k) = "reload"
      BY DEF FirstStep, Admin
    <3>4. k \in {"changePassword", "profile", "avatar", "revoke", "logout", "list", "viewAvatar"} \cup Admin
      BY <1>1, <2>5 DEF AllKinds, Public, Personal, Newcomers
    <3>5. FirstStep(k) \in {"find", "put", "lookup", "delete", "reload"}
      BY <3>3, <3>4
    <3>6. FirstStep(k) \in PCs \ {"idle", "done"}
      BY <3>5 DEF PCs
    <3> HIDE DEF u, a
    <3>7. /\ LocalTypes' /\ Others(c) /\ pc'[c] = FirstStep(k) /\ result'[c] = result[c]
          /\ token'[c] = token[c] /\ input'[c] = input[c] /\ account'[c] = u
      BY <3>1, <3>2, <3>6, GotoWithMoves
    <3>8. kind' = kind /\ exist' = exist /\ owner' = owner /\ status' = status
      BY <1>3, LooksKeeps
    <3>9. Placed(c)' /\ Fresh(c)'
      BY <3>3, <3>4, <3>7, <3>8, <1>1 DEF Placed, Fresh, Silent, Admin
    <3>10. Based(c)'
      <4>1. /\ k \in Personal => u = Me(c)
            /\ k \in Admin => u = input[c].on
        BY DEF u, Personal, Admin
      <4>2. FirstStep(k) = "delete" => k # "revoke"
        BY <3>3
      <4>3. Me(c)' = Me(c)
        BY <3>7, <3>8 DEF Me
      <4> QED BY <3>5, <3>7, <3>8, <4>1, <4>2, <4>3 DEF Based
    <3>11. FirstStep(k) = "reload" => k \in Silent
      BY <3>3, <3>4, <3>5 DEF Silent, Admin
    <3> QED BY <1>1, <1>3, <2>3, <3>5, <3>6, <3>7, <3>9, <3>10, <3>11, GotoStep
  <2> QED BY <1>6, <2>1, <2>4, <2>5 DEF RequireAuth
<1> QED BY <1>5, <1>6

(* FindByEmail.                                                            *)
LEMMA FindByEmailStep ==
  ASSUME RInv, Watch, NEW c \in Calls, FindByEmail(c)
  PROVE  RInv'
<1>1. /\ pc[c] = "byEmail" /\ Active(c) /\ kind[c] \in {"login", "callback"} /\ Good(c)
      /\ ~acted[c] /\ Looks /\ audit' = audit
  BY LooksAway DEF FindByEmail, At, Active, RInv, Good, Placed, Told
<1>2. {"open", "merge", "create"} \subseteq PCs \ {"idle", "done"}
  BY DEF PCs
<1>3. kind' = kind /\ exist' = exist /\ owner' = owner /\ status' = status
  BY <1>1, LooksKeeps
<1>4. kind[c] \notin Personal \cup Admin
  BY <1>1 DEF Personal, Admin
<1>5. CASE Fail(c)
  BY <1>1, <1>5, FailStep
<1>6. ASSUME NEW u \in exist, NEW step \in {"open", "merge"}, GotoWith(c, step, u, NoOne),
             Entitled(c), step = "merge" => kind[c] = "callback"
      PROVE  RInv'
  <2>1. u \in Users \cup {NoOne}
    BY DEF RInv, TypeOK
  <2>2. /\ LocalTypes' /\ Others(c) /\ pc'[c] = step /\ result'[c] = result[c]
        /\ token'[c] = token[c] /\ input'[c] = input[c] /\ account'[c] = u
    BY <1>2, <1>6, <2>1, GotoWithMoves
  <2>3. Placed(c)' /\ Based(c)' /\ Fresh(c)'
    BY <1>1, <1>3, <1>4, <1>6, <2>2 DEF Good, Placed, Based, Fresh
  <2> QED BY <1>1, <1>2, <1>6, <2>2, <2>3, GotoStep
<1>7. CASE kind[c] = "login" /\ ~Fail(c)
  <2>1. PICK u \in exist : /\ users[u].email = input[c].email /\ MayLogIn(u, input[c])
                           /\ GotoWith(c, "open", u, NoOne)
    BY <1>7 DEF FindByEmail
  <2>2. Has(c, "password")
    BY <1>7, <2>1, HasProof DEF MayLogIn
  <2>3. Entitled(c)
    BY <1>1, <1>7, <2>2, Needs, Noted DEF Entitled
  <2> QED BY <1>6, <2>1, <2>3
<1>8. CASE kind[c] = "callback" /\ ~Fail(c)
  <2>1. ASSUME NEW u \in exist, users[u].email = input[c].email, MayMerge(u),
               GotoWith(c, "merge", u, NoOne)
        PROVE  RInv'
    <3>1. Has(c, "identity")
      BY <2>1, HasIdentity DEF MayMerge
    <3>2. Entitled(c)
      BY <1>1, <1>8, <3>1, Needs, Noted DEF Entitled
    <3> QED BY <1>6, <1>8, <2>1, <3>2
  <2>2. ASSUME \A u \in exist : users[u].email # input[c].email, Goto(c, "create")
        PROVE  RInv'
    <3>1. Has(c, "identity")
      BY <2>2, HasIdentity
    <3>2. Entitled(c)
      BY <1>1, <1>8, <3>1, Needs, Noted DEF Entitled
    <3>3. /\ LocalTypes' /\ Others(c) /\ pc'[c] = "create" /\ result'[c] = result[c]
          /\ token'[c] = token[c] /\ input'[c] = input[c]
      BY <1>2, <2>2, GotoMoves
    <3>4. Placed(c)' /\ Based(c)' /\ Fresh(c)'
      BY <1>1, <1>3, <1>4, <1>8, <3>3 DEF Good, Placed, Based, Fresh
    <3> QED BY <1>1, <1>2, <3>2, <3>3, <3>4, GotoStep
  <2> QED BY <1>8, <2>1, <2>2 DEF FindByEmail
<1> QED BY <1>1, <1>5, <1>7, <1>8

(* FindBySubject.                                                          *)
LEMMA FindBySubjectStep ==
  ASSUME RInv, Watch, NEW c \in Calls, FindBySubject(c)
  PROVE  RInv'
<1>1. /\ pc[c] = "bySubject" /\ Active(c) /\ kind[c] = "callback" /\ Good(c)
      /\ ~acted[c] /\ Looks /\ audit' = audit
  BY LooksAway DEF FindBySubject, At, Active, RInv, Good, Placed, Told
<1>2. {"open", "byEmail"} \subseteq PCs \ {"idle", "done"}
  BY DEF PCs
<1>3. kind' = kind /\ exist' = exist /\ owner' = owner /\ status' = status
  BY <1>1, LooksKeeps
<1>4. kind[c] \notin Personal \cup Admin
  BY <1>1 DEF Personal, Admin
<1>5. CASE Fail(c)
  BY <1>1, <1>5, FailStep
<1>6. ASSUME NEW u \in exist, users[u].subject = input[c].subject, ~users[u].disabled,
             GotoWith(c, "open", u, NoOne)
      PROVE  RInv'
  <2>1. u \in Users \cup {NoOne}
    BY DEF RInv, TypeOK
  <2>2. /\ LocalTypes' /\ Others(c) /\ pc'[c] = "open" /\ result'[c] = result[c]
        /\ token'[c] = token[c] /\ input'[c] = input[c] /\ account'[c] = u
    BY <1>2, <1>6, <2>1, GotoWithMoves
  <2>3. Placed(c)' /\ Based(c)' /\ Fresh(c)'
    BY <1>1, <1>3, <1>4, <1>6, <2>2 DEF Good, Placed, Based, Fresh
  <2>4. Has(c, "identity")
    BY <1>6, HasIdentity
  <2>5. Entitled(c)
    BY <1>1, <2>4, Needs, Noted DEF Entitled
  <2> QED BY <1>1, <1>2, <2>2, <2>3, <2>5, GotoStep
<1>7. CASE Goto(c, "byEmail")
  <2>1. /\ LocalTypes' /\ Others(c) /\ pc'[c] = "byEmail" /\ result'[c] = result[c]
        /\ token'[c] = token[c] /\ input'[c] = input[c]
    BY <1>2, <1>7, GotoMoves
  <2>2. Placed(c)' /\ Based(c)' /\ Fresh(c)'
    BY <1>1, <1>3, <1>4, <2>1 DEF Good, Placed, Based, Fresh
  <2> QED BY <1>1, <1>2, <2>1, <2>2, GotoStep
<1> QED BY <1>5, <1>6, <1>7 DEF FindBySubject

(* Steps that go straight on, after what they have asked for.              *)
LEMMA StraightOn ==
  ASSUME RInv, Watch, NEW c \in Calls, NEW step \in PCs \ {"idle", "done"}, Active(c), Looks,
         audit' = audit, Goto(c, step), pc[c] \notin {"session", "account"}, Placed(c)',
         step \in {"merge", "merged", "open", "write"} => account[c] \in exist,
         step = "write" /\ kind[c] = "update" =>
           ~(account[c] = Me(c) /\ (input[c].admin = FALSE \/ input[c].disabled = TRUE)),
         step = "delete" /\ kind[c] = "revoke" =>
           owner[input[c].on] = Me(c) /\ input[c].on # token[c],
         step \notin {"bySubject", "byEmail", "create"},
         step \in {"merge", "merged", "open"} => status[c] = "none",
         step \in {"merge", "merged", "open", "write", "audit"} => Entitled(c),
         acted[c] => step \in {"merged", "open", "reload", "drop", "undo", "audit"},
         step \in {"drop", "audit"} \/ (step = "reload" /\ kind[c] \notin Silent) => acted[c]
  PROVE  RInv'
<1>1. /\ LocalTypes' /\ Others(c) /\ pc'[c] = step /\ result'[c] = result[c]
      /\ token'[c] = token[c] /\ input'[c] = input[c] /\ account'[c] = account[c]
  BY GotoMoves
<1>2. kind' = kind /\ exist' = exist /\ owner' = owner /\ status' = status
  BY LooksKeeps
<1>3. Good(c)
  BY DEF RInv
<1>4. Fresh(c)'
  BY <1>1, <1>2, <1>3 DEF Fresh
<1>5. Based(c)'
  BY <1>1, <1>2, <1>3 DEF Good, Based, Me, Active
<1> QED BY <1>1, <1>4, <1>5, GotoStep

(* Merged, PutAvatar.                                                      *)
LEMMA MergedStep ==
  ASSUME RInv, Watch, NEW c \in Calls, Merged(c) \/ PutAvatar(c)
  PROVE  RInv'
<1>1. audit' = audit /\ Active(c) /\ Good(c)
  BY DEF Merged, PutAvatar, At, Active, RInv
<1>2. {"open", "find"} \subseteq PCs \ {"idle", "done"}
  BY DEF PCs
<1>3. CASE Merged(c)
  <2>1. pc[c] = "merged" /\ Goto(c, "open") /\ Looks
    BY <1>3, LooksAway DEF Merged, At
  <2>2. pc'[c] = "open" /\ kind'[c] = kind[c]
    BY <1>2, <2>1, GotoMoves, LooksKeeps
  <2>3. Placed(c)'
    BY <1>1, <2>1, <2>2 DEF Good, Placed
  <2> QED BY <1>1, <1>2, <2>1, <2>3, StraightOn DEF Good, Based, Fresh, Cleared
<1>4. CASE PutAvatar(c)
  <2>1. pc[c] = "put" /\ Goto(c, "find") /\ Looks
    BY <1>4 DEF PutAvatar, At, Looks, RInv, TypeOK
  <2>2. pc'[c] = "find" /\ kind'[c] = kind[c]
    BY <1>2, <2>1, GotoMoves, LooksKeeps
  <2>3. Placed(c)'
    BY <1>1, <2>1, <2>2 DEF Good, Placed
  <2>4. ~acted[c]
    BY <1>1, <2>1 DEF Good, Told
  <2> QED BY <1>1, <1>2, <2>1, <2>3, <2>4, StraightOn
<1> QED BY <1>3, <1>4

(* FindByID.                                                               *)
LEMMA FindByIDStep ==
  ASSUME RInv, Watch, NEW c \in Calls, FindByID(c)
  PROVE  RInv'
<1> DEFINE k == kind[c]
           u == account[c]
<1>1. /\ pc[c] = "find" /\ Active(c) /\ Good(c) /\ Looks /\ audit' = audit /\ ~acted[c]
      /\ k \in {"changePassword", "profile", "avatar"} \cup Admin
  BY LooksAway DEF FindByID, At, Active, RInv, Good, Placed, Told
<1>2. CASE Fail(c)
  BY <1>1, <1>2, FailStep
<1>3. CASE ~Fail(c)
  <2>1. /\ Goto(c, "write")
        /\ k = "changePassword" => ProvesPassword(u, input[c])
        /\ k = "reset" => HasPassword(u)
        /\ k = "update" => MayUpdate(c, u, input[c])
    BY <1>3 DEF FindByID
  <2>2. "write" \in PCs \ {"idle", "done"}
    BY DEF PCs
  <2>3. k \notin Newcomers /\ (k \in Admin <=> k \in {"reset", "update"})
        /\ (k \in {"changePassword", "profile", "avatar"} => k \in Personal)
    BY <1>1 DEF Newcomers, Admin, Personal
  <2>4. token[c] \in Tokens /\ Me(c) \in exist
    BY <1>1, <2>3, MeExists
  <2>5. u \in exist
    <3>1. k \in Personal => u = Me(c)
      BY <1>1 DEF Good, Based
    <3> QED BY <1>1, <2>1, <2>3, <2>4, <3>1 DEF HasPassword, MayUpdate
  <2>6. Placed(c)'
    <3>1. pc'[c] = "write" /\ kind'[c] = k
      BY <1>1, <2>1, <2>2, GotoMoves, LooksKeeps
    <3> QED BY <1>1, <3>1 DEF Placed
  <2>7. Needed(k) \cap {"session", "enabled", "admin"} \subseteq held[c]
    BY <1>1 DEF Good, Cleared
  <2>8. Entitled(c)
    <3>1. CASE k = "changePassword"
      <4>1. Has(c, "password")
        <5>1. u = Me(c)
          BY <1>1, <2>3, <3>1 DEF Good, Based
        <5> QED BY <2>1, <2>4, <3>1, <5>1, HasProof DEF ProvesPassword
      <4>2. "password" \in held[c]
        BY <1>1, <3>1, <4>1, Needs, Noted
      <4> QED BY <2>7, <3>1, <4>2, Needs DEF Entitled
    <3>2. CASE k # "changePassword"
      BY <1>1, <2>3, <2>7, <3>2, Needs DEF Entitled
    <3> QED BY <3>1, <3>2
  <2>9. k = "update" => ~(u = Me(c) /\ (input[c].admin = FALSE \/ input[c].disabled = TRUE))
    BY <2>1 DEF MayUpdate
  <2> QED BY <1>1, <2>1, <2>2, <2>5, <2>6, <2>8, <2>9, StraightOn
<1> QED BY <1>2, <1>3

(* Reload.                                                                 *)
LEMMA ReloadStep ==
  ASSUME RInv, Watch, NEW c \in Calls, Reload(c)
  PROVE  RInv'
<1> DEFINE k == kind[c]
<1>1. /\ pc[c] = "reload" /\ Active(c) /\ Good(c) /\ Looks /\ audit' = audit
      /\ k \in {"profile", "avatar", "update", "list", "viewAvatar"}
      /\ (k \notin Silent => acted[c]) /\ (k \in Silent => ~acted[c]) /\ audit[c] = "none"
  BY LooksAway DEF Reload, At, Active, RInv, Good, Placed, Told
<1>2. /\ {"drop", "audit"} \subseteq PCs \ {"idle", "done"}
      /\ (k \in {"list", "viewAvatar"} <=> k \in Silent)
  BY <1>1 DEF PCs, Silent
<1>3. Entitled(c)
  <2>1. Needed(k) \cap {"session", "enabled", "admin"} \subseteq held[c]
    BY <1>1 DEF Good, Cleared
  <2>2. Needed(k) \subseteq {"session", "enabled", "admin"}
    BY <1>1, Needs DEF Personal, Admin
  <2> QED BY <2>1, <2>2 DEF Entitled
<1>4. audit' \in [Calls -> {"none", "written", "failed"}]
  BY <1>1 DEF RInv, TypeOK
<1>5. CASE k \in {"list", "viewAvatar"}
  <2>1. PICK answer \in {"ok", "error"} : Answer(c, answer)
    BY <1>5 DEF Reload
  <2> QED BY <1>1, <1>2, <1>3, <1>4, <1>5, <2>1, AnswerStep
<1>6. CASE k \notin {"list", "viewAvatar"}
  <2>1. PICK step \in {"drop", "audit"} :
          Goto(c, step) /\ (step = "drop" => k = "avatar")
    BY <1>1, <1>6 DEF Reload
  <2>2. Placed(c)'
    <3>1. pc'[c] = step /\ kind'[c] = k
      BY <1>1, <1>2, <2>1, GotoMoves, LooksKeeps
    <3> QED BY <1>1, <1>2, <1>6, <2>1, <3>1 DEF Placed
  <2> QED BY <1>1, <1>2, <1>3, <1>6, <2>1, <2>2, StraightOn
<1> QED BY <1>5, <1>6

(* DropOldAvatar, with or without success.                                 *)
LEMMA DropStep ==
  ASSUME RInv, Watch, NEW c \in Calls, pc[c] = "drop", Goto(c, "audit"), Looks, audit' = audit
  PROVE  RInv'
<1>1. /\ Active(c) /\ Good(c) /\ kind[c] = "avatar" /\ acted[c] /\ Entitled(c)
  BY DEF Active, RInv, Good, Placed, Told
<1>2. "audit" \in PCs \ {"idle", "done"}
  BY DEF PCs
<1>3. pc'[c] = "audit" /\ kind'[c] = kind[c]
  BY <1>2, GotoMoves, LooksKeeps
<1>4. Placed(c)'
  BY <1>1, <1>3 DEF Placed, Silent
<1> QED BY <1>1, <1>2, <1>4, StraightOn

(* UndoAvatar, with or without success.                                    *)
LEMMA UndoStep ==
  ASSUME RInv, Watch, NEW c \in Calls, pc[c] = "undo", Answer(c, "error"), Looks, audit' = audit
  PROVE  RInv'
<1>1. Good(c) /\ audit[c] = "none" /\ (acted[c] => Entitled(c))
  BY DEF RInv, Good, Told
<1>2. audit' \in [Calls -> {"none", "written", "failed"}]
  BY DEF RInv, TypeOK
<1> QED BY <1>1, <1>2, AnswerStep

(* LookUpSession.                                                          *)
LEMMA LookUpSessionStep ==
  ASSUME RInv, Watch, NEW c \in Calls, LookUpSession(c)
  PROVE  RInv'
<1>1. /\ pc[c] = "lookup" /\ Active(c) /\ Good(c) /\ Looks /\ audit' = audit
      /\ kind[c] = "revoke" /\ ~acted[c]
  BY LooksAway DEF LookUpSession, At, Active, RInv, Good, Placed, Told
<1>2. CASE Fail(c)
  BY <1>1, <1>2, FailStep
<1>3. CASE MayRevoke(c, input[c].on) /\ Goto(c, "delete")
  <2>1. "delete" \in PCs \ {"idle", "done"}
    BY DEF PCs
  <2>2. pc'[c] = "delete" /\ kind'[c] = kind[c]
    BY <1>1, <1>3, <2>1, GotoMoves, LooksKeeps
  <2>3. Placed(c)'
    BY <1>1, <2>2 DEF Placed
  <2> QED BY <1>1, <1>3, <2>1, <2>3, StraightOn DEF MayRevoke
<1> QED BY <1>2, <1>3 DEF LookUpSession

(* Audit.                                                                  *)
LEMMA AuditStep ==
  ASSUME RInv, Watch, NEW c \in Calls, Audit(c)
  PROVE  RInv'
<1>1. /\ pc[c] = "audit" /\ Good(c) /\ acted[c] /\ Entitled(c) /\ Answer(c, "ok")
  BY DEF Audit, At, RInv, Good, Told
<1>2. Looks
  BY LooksAway DEF Audit
<1>3. /\ audit' \in [Calls -> {"none", "written", "failed"}] /\ audit'[c] # "none"
      /\ \A d \in Calls \ {c} : audit'[d] = audit[d]
  BY DEF Audit, RInv, TypeOK
<1> QED BY <1>1, <1>2, <1>3, AnswerStep

(* DeleteSession.                                                          *)
LEMMA DeleteSessionStep ==
  ASSUME RInv, Watch, NEW c \in Calls, DeleteSession(c)
  PROVE  RInv'
<1> DEFINE s == IF kind[c] = "revoke" THEN input[c].on ELSE token[c]
<1>1. /\ pc[c] \in {"delete", "forget"} /\ Active(c) /\ Good(c) /\ held[c] \subseteq held'[c]
      /\ kind[c] \in {"revoke", "logout"} /\ (pc[c] = "forget" => kind[c] = "logout")
      /\ ~acted[c] /\ result[c] = "none" /\ audit[c] = "none"
  BY Watched DEF DeleteSession, Active, RInv, Good, Placed, Told
<1>2. s \in Tokens /\ status[s] # "none"
  BY <1>1 DEF Good, Asked, Newcomers
<1> HIDE DEF s
<1>3. /\ UNCHANGED <<userVars, owner, autoMerge, kind>>
      /\ exist' = exist /\ owner' = owner /\ kind' = kind /\ audit' = audit
      /\ status' = [status EXCEPT ![s] = "deleted"] /\ acted' = [acted EXCEPT ![c] = TRUE]
      /\ objects' = objects /\ excused' = excused
  BY DEF DeleteSession, userVars, Act, s
<1>4. /\ status' \in [Tokens -> {"none", "live", "expired", "deleted"}]
      /\ \A t \in Tokens : status'[t] = "none" <=> status[t] = "none"
      /\ objects' \in SUBSET Calls /\ excused' \in SUBSET Calls
      /\ acted' \in [Calls -> BOOLEAN] /\ audit' \in [Calls -> {"none", "written", "failed"}]
      /\ acted'[c] = TRUE /\ \A d \in Calls \ {c} : acted'[d] = acted[d]
  BY <1>2, <1>3 DEF RInv, TypeOK
<1>5. Entitled(c)
  <2>1. Needed(kind[c]) \cap {"session", "enabled", "admin"} \subseteq held[c]
    BY <1>1 DEF Good, Cleared
  <2>2. Needed(kind[c]) \subseteq {"session", "enabled", "admin"}
    BY <1>1, Needs DEF Personal
  <2> QED BY <2>1, <2>2 DEF Entitled
<1>6. kind[c] \notin Silent \cup Newcomers \cup Admin
  BY <1>1 DEF Silent, Newcomers, Admin
<1>7. CASE Goto(c, "audit")
  <2>1. "audit" \in PCs
    BY DEF PCs
  <2>2. /\ LocalTypes' /\ Others(c) /\ pc'[c] = "audit" /\ result'[c] = "none"
        /\ token'[c] = token[c] /\ input'[c] = input[c] /\ account'[c] = account[c]
    BY <1>1, <1>7, <2>1, GotoMoves
  <2>3. Placed(c)' /\ Fresh(c)'
    BY <1>3, <1>6, <2>2 DEF Placed, Fresh
  <2>4. Asked(c)'
    BY <1>1, <1>3, <1>4, <2>2 DEF Good, Asked, Active
  <2>5. Based(c)'
    BY <1>1, <1>3, <2>2 DEF Good, Based, Active, Me
  <2>6. Cleared(c)' /\ Told(c)'
    BY <1>1, <1>3, <1>4, <1>5, <1>6, <2>2 DEF Cleared, Told, Entitled, Active
  <2>7. Good(c)'
    BY <2>3, <2>4, <2>5, <2>6 DEF Good
  <2> QED BY <1>3, <1>4, <2>2, <2>7, LookRule DEF Others
<1>8. CASE pc[c] = "forget" /\ Answer(c, "ok")
  <2>1. LocalTypes' /\ Others(c) /\ pc'[c] = "done" /\ result'[c] = "ok"
    BY <1>8, AnswerMoves
  <2>2. Good(c)'
    BY <1>1, <1>3, <1>4, <1>5, <1>6, <1>8, <2>1, DoneGood
  <2> QED BY <1>3, <1>4, <2>1, <2>2, LookRule DEF Others
<1> QED BY <1>1, <1>7, <1>8 DEF DeleteSession

(* StepFails and DeletionFails.                                            *)
LEMMA FailureStep ==
  ASSUME RInv, Watch, NEW c \in Calls, StepFails(c) \/ DeletionFails(c)
  PROVE  RInv'
<1>1. CASE StepFails(c)
  <2>1. Active(c) /\ Fail(c) /\ Looks /\ audit' = audit
    BY <1>1, LooksAway DEF StepFails, Active
  <2> QED BY <2>1, FailStep
<1>2. CASE DeletionFails(c)
  <2>1. excused' \in SUBSET Calls
    <3>1. old[c] \in Calls \cup {NoOne} /\ excused \in SUBSET Calls
      BY DEF RInv, TypeOK
    <3> QED BY <1>2, <3>1 DEF DeletionFails
  <2>2. Looks /\ audit' = audit /\ pc[c] \in {"drop", "undo"}
    BY <1>2, <2>1 DEF DeletionFails, Looks, RInv, TypeOK
  <2> QED BY <1>2, <2>2, DropStep, UndoStep DEF DeletionFails, At
<1> QED BY <1>1, <1>2

(* DropOldAvatar and UndoAvatar.                                           *)
LEMMA AvatarDeletedStep ==
  ASSUME RInv, Watch, NEW c \in Calls, DropOldAvatar(c) \/ UndoAvatar(c)
  PROVE  RInv'
<1>1. CASE DropOldAvatar(c)
  <2>1. Looks /\ audit' = audit /\ pc[c] = "drop" /\ Goto(c, "audit")
    BY <1>1 DEF DropOldAvatar, Looks, At, RInv, TypeOK
  <2> QED BY <2>1, DropStep
<1>2. CASE UndoAvatar(c)
  <2>1. excused' \in SUBSET Calls
    <3>1. old[c] \in Calls \cup {NoOne} /\ excused \in SUBSET Calls
      BY DEF RInv, TypeOK
    <3> QED BY <1>2, <3>1 DEF UndoAvatar
  <2>2. Looks /\ audit' = audit /\ pc[c] = "undo" /\ Answer(c, "error")
    BY <1>2, <2>1 DEF UndoAvatar, Looks, At, RInv, TypeOK
  <2> QED BY <2>2, UndoStep
<1> QED BY <1>1, <1>2

-----------------------------------------------------------------------------
(* Requests come, and are cut off.                                         *)

(* Expire.                                                                 *)
LEMMA ExpireStep ==
  ASSUME RInv, Watch, NEW t \in Tokens, Expire(t)
  PROVE  RInv'
<1>1. /\ exist' = exist /\ users' = users /\ owner' = owner /\ objects' = objects
      /\ autoMerge' = autoMerge /\ kind' = kind /\ pc' = pc /\ result' = result
      /\ token' = token /\ input' = input /\ account' = account /\ old' = old
      /\ acted' = acted /\ audit' = audit /\ excused' = excused
      /\ status[t] = "live" /\ status' = [status EXCEPT ![t] = "expired"]
  BY DEF Expire, userVars, locals
<1>2. /\ status' \in [Tokens -> {"none", "live", "expired", "deleted"}]
      /\ \A s \in Tokens : status'[s] = "none" <=> status[s] = "none"
  BY <1>1 DEF RInv, TypeOK
<1>3. Tables' /\ LocalTypes' /\ HistoryTypes'
  BY <1>1, <1>2, Types DEF RInv, Tables, LocalTypes, HistoryTypes
<1>4. OneAccountPerIdentity' /\ Growth
  BY <1>1, <1>2 DEF RInv, OneAccountPerIdentity, Growth
<1>5. \A d \in Calls : Kept(d)
  <2>1. \A d \in Calls : d \in Tokens
    BY DEF Tokens, Users
  <2> QED BY <1>1, <1>2, <2>1 DEF Kept, Still
<1> QED BY <1>3, <1>4, <1>5, StepRule

(* Crash.                                                                  *)
LEMMA CrashStep ==
  ASSUME RInv, Watch, Crash
  PROVE  RInv'
<1> DEFINE C == {c \in Calls : Active(c)}
<1>1. /\ exist' = exist /\ users' = users /\ status' = status /\ owner' = owner
      /\ objects' = objects /\ autoMerge' = autoMerge /\ kind' = kind
      /\ acted' = acted /\ audit' = audit /\ excused' \in SUBSET Calls
  BY DEF Crash, userVars, sessionVars, RInv, TypeOK
<1>2. /\ result' \in [Calls -> {"none", "ok", "error"}]
      /\ \A d \in C : result'[d] = "error"
      /\ \A d \in Calls \ C : result'[d] = result[d]
  BY DEF Crash, RInv, TypeOK
<1>3. LocalTypes' /\ (\A d \in C : pc'[d] = "done") /\ \A d \in Calls \ C : Still(d)
  BY <1>2, ForgetMoves DEF Crash
<1>4. Tables' /\ HistoryTypes'
  BY <1>1, Types DEF RInv, Tables, HistoryTypes
<1>5. OneAccountPerIdentity' /\ Growth
  BY <1>1 DEF RInv, OneAccountPerIdentity, Growth
<1>6. ASSUME NEW d \in Calls
      PROVE  Kept(d) \/ Good(d)'
  <2>1. CASE d \in C
    <3>1. /\ acted[d] => Entitled(d)
          /\ kind[d] \in Silent => ~acted[d]
          /\ audit[d] = "none" /\ held[d] \subseteq held'[d]
      BY <2>1, Watched DEF RInv, Good, Told, Active
    <3> QED BY <1>1, <1>2, <1>3, <2>1, <3>1, DoneGood
  <2>2. CASE d \notin C
    BY <1>1, <1>3, <2>2 DEF Kept
  <2> QED BY <2>1, <2>2
<1> QED BY <1>3, <1>4, <1>5, <1>6, StepRule

(* A request arrives.                                                      *)
LEMMA ArriveStep ==
  ASSUME RInv, Watch, NEW c \in Calls, NEW k \in AllKinds, NEW step \in PCs,
         NEW t \in Tokens \cup {NoOne}, NEW body \in Input, Arrive(c, k, step, t, body),
         \/ /\ step = "session" /\ k \notin Newcomers /\ t \in Tokens /\ status[t] # "none"
            /\ k = "revoke" => body.on \in Tokens /\ status[body.on] # "none"
         \/ k = "register" /\ step = "create"
         \/ k = "login" /\ step = "byEmail"
         \/ k = "callback" /\ step = "bySubject"
  PROVE  RInv'
<1>1. /\ exist' = exist /\ users' = users /\ status' = status /\ owner' = owner
      /\ objects' = objects /\ autoMerge' = autoMerge /\ result' = result
      /\ account' = account /\ old' = old
      /\ acted' = acted /\ audit' = audit /\ excused' = excused
      /\ pc[c] = "idle" /\ kind' = [kind EXCEPT ![c] = k] /\ pc' = [pc EXCEPT ![c] = step]
      /\ token' = [token EXCEPT ![c] = t] /\ input' = [input EXCEPT ![c] = body]
  BY DEF Arrive, At, userVars, sessionVars
<1>2. Tables' /\ LocalTypes' /\ HistoryTypes'
  BY <1>1, Types DEF RInv, Tables, LocalTypes, HistoryTypes
<1>3. OneAccountPerIdentity' /\ Growth
  BY <1>1 DEF RInv, OneAccountPerIdentity, Growth
<1>4. \A d \in Calls \ {c} : Kept(d)
  BY <1>1 DEF Kept, Still
<1>5. kind'[c] = k /\ pc'[c] = step /\ token'[c] = t /\ input'[c] = body
  BY <1>1 DEF RInv, TypeOK
<1>6. ~acted[c] /\ result[c] = "none" /\ audit[c] = "none" /\ c \notin exist /\ status[c] = "none"
  BY <1>1 DEF RInv, Good, Told, Fresh
<1>7. k \in Newcomers => k \notin Personal \cup Admin
  BY DEF Newcomers, Personal, Admin
<1>8. Placed(c)' /\ Asked(c)' /\ Fresh(c)'
  <2>1. Placed(c)'
    BY <1>5 DEF Placed
  <2>2. Asked(c)'
    BY <1>1, <1>5 DEF Asked, Newcomers
  <2>3. Fresh(c)'
    BY <1>1, <1>6 DEF Fresh
  <2> QED BY <2>1, <2>2, <2>3
<1>9. Based(c)'
  BY <1>5, <1>7 DEF Based, Newcomers
<1>10. Cleared(c)'
  <2>1. "register" \in Newcomers /\ "login" \in Newcomers /\ "callback" \in Newcomers
    BY DEF Newcomers
  <2>2. step = "create" => Needed(k) = {}
    BY Needs
  <2>3. step # "session" => Needed(k) \cap {"session", "enabled", "admin"} = {}
    BY Needs
  <2> QED BY <1>5, <2>2, <2>3 DEF Cleared, Entitled
<1>11. Told(c)'
  BY <1>1, <1>5, <1>6 DEF Told
<1>12. Good(c)'
  BY <1>8, <1>9, <1>10, <1>11 DEF Good
<1> QED BY <1>2, <1>3, <1>4, <1>12, StepRule

(* Requests with a cookie.                                                 *)
LEMMA WithCookieStep ==
  ASSUME RInv, Watch, NEW c \in Calls, NEW k \in AllKinds \ Newcomers, NEW body \in Input,
         k = "revoke" => body.on \in Tokens /\ status[body.on] # "none", WithCookie(c, k, body)
  PROVE  RInv'
<1>1. PICK t \in Tokens : status[t] # "none" /\ Arrive(c, k, "session", t, body)
  BY DEF WithCookie
<1>2. "session" \in PCs
  BY DEF PCs
<1> QED BY <1>1, <1>2, ArriveStep

(* Request.                                                                *)
LEMMA RequestStep ==
  ASSUME RInv, Watch, NEW c \in Calls, Request(c)
  PROVE  RInv'
<1>1. /\ {"register", "login", "callback"} \subseteq AllKinds
      /\ {"logout", "me", "list", "changePassword", "profile", "avatar", "viewAvatar", "revoke",
          "reset", "update"} \subseteq AllKinds \ Newcomers
      /\ {"create", "byEmail", "bySubject"} \subseteq PCs
  BY DEF AllKinds, Public, Personal, Admin, Newcomers, PCs
<1>2. /\ Emails \subseteq Emails \cup {NoOne} /\ Passwords \subseteq Passwords \cup {NoOne}
      /\ Subjects \subseteq Subjects \cup {NoOne} /\ NoOne \in Tokens \cup {NoOne}
      /\ Changes \subseteq ChangeType /\ NoInput \in Input
  BY RequestsKnown, NoInputType
<1>3. Named(c) \subseteq Users \cup {NoOne} /\ Tokens \subseteq Users \cup {NoOne}
  BY DEF Named, RInv, TypeOK, Users, Tokens
<1>4. CASE Register(c) \/ Login(c)
  <2>1. PICK e \in Emails, p \in Passwords :
          \/ Arrive(c, "register", "create", NoOne, [NoInput EXCEPT !.email = e, !.password = p])
          \/ Arrive(c, "login", "byEmail", NoOne, [NoInput EXCEPT !.email = e, !.password = p])
    BY <1>4 DEF Register, Login
  <2> DEFINE body == [NoInput EXCEPT !.email = e, !.password = p]
  <2>2. body \in Input
    BY DEF NoInput, Input, Flag
  <2>3. \/ Arrive(c, "register", "create", NoOne, body)
        \/ Arrive(c, "login", "byEmail", NoOne, body)
    BY <2>1
  <2> HIDE DEF body
  <2> QED BY <1>1, <1>2, <2>2, <2>3, ArriveStep
<1>5. CASE Callback(c)
  <2>1. PICK e \in Emails, s \in Subjects :
          Arrive(c, "callback", "bySubject", NoOne, [NoInput EXCEPT !.email = e, !.subject = s])
    BY <1>5 DEF Callback
  <2> DEFINE body == [NoInput EXCEPT !.email = e, !.subject = s]
  <2>2. body \in Input
    BY DEF NoInput, Input, Flag
  <2>3. Arrive(c, "callback", "bySubject", NoOne, body)
    BY <2>1
  <2> HIDE DEF body
  <2> QED BY <1>1, <1>2, <2>2, <2>3, ArriveStep
<1>6. CASE Logout(c) \/ CurrentAccount(c) \/ ListSessions(c) \/ UpdateProfile(c) \/ UpdateAvatar(c)
  BY <1>1, <1>2, <1>6, WithCookieStep
     DEF Logout, CurrentAccount, ListSessions, UpdateProfile, UpdateAvatar
<1>7. CASE ChangePassword(c)
  <2>1. PICK p, q \in Passwords :
          WithCookie(c, "changePassword", [NoInput EXCEPT !.proof = p, !.password = q])
    BY <1>7 DEF ChangePassword
  <2> DEFINE body == [NoInput EXCEPT !.proof = p, !.password = q]
  <2>2. body \in Input
    BY DEF NoInput, Input, Flag
  <2>3. WithCookie(c, "changePassword", body)
    BY <2>1
  <2> HIDE DEF body
  <2> QED BY <1>1, <2>2, <2>3, WithCookieStep
<1>8. CASE ViewAvatar(c) \/ RevokeSession(c)
  <2>1. PICK u \in Users \cup {NoOne}, k \in {"viewAvatar", "revoke"} :
          /\ WithCookie(c, k, [NoInput EXCEPT !.on = u])
          /\ k = "revoke" => u \in Tokens /\ status[u] # "none"
    BY <1>3, <1>8 DEF ViewAvatar, RevokeSession
  <2> DEFINE body == [NoInput EXCEPT !.on = u]
  <2>2. body \in Input /\ body.on = u
    BY DEF NoInput, Input, Flag
  <2>3. WithCookie(c, k, body)
    BY <2>1
  <2> HIDE DEF body
  <2> QED BY <1>1, <2>1, <2>2, <2>3, WithCookieStep
<1>9. CASE AdminResetPassword(c)
  <2>1. PICK u \in Named(c), p \in Passwords :
          WithCookie(c, "reset", [NoInput EXCEPT !.on = u, !.password = p])
    BY <1>9 DEF AdminResetPassword
  <2> DEFINE body == [NoInput EXCEPT !.on = u, !.password = p]
  <2>2. body \in Input
    BY <1>3 DEF NoInput, Input, Flag
  <2>3. WithCookie(c, "reset", body)
    BY <2>1
  <2> HIDE DEF body
  <2> QED BY <1>1, <2>2, <2>3, WithCookieStep
<1>10. CASE AdminUpdateUser(c)
  <2>1. PICK u \in Named(c), b \in Changes :
          WithCookie(c, "update", [NoInput EXCEPT !.on = u, !.email = b.email,
                                                  !.admin = b.admin, !.disabled = b.disabled])
    BY <1>10 DEF AdminUpdateUser
  <2> DEFINE body == [NoInput EXCEPT !.on = u, !.email = b.email,
                                     !.admin = b.admin, !.disabled = b.disabled]
  <2>2. body \in Input
    <3>1. b \in ChangeType
      BY RequestsKnown
    <3> QED BY <1>3, <3>1 DEF NoInput, Input, Flag, ChangeType
  <2>3. WithCookie(c, "update", body)
    BY <2>1
  <2> HIDE DEF body
  <2> QED BY <1>1, <2>2, <2>3, WithCookieStep
<1> QED BY <1>4, <1>5, <1>6, <1>7, <1>8, <1>9, <1>10 DEF Request

-----------------------------------------------------------------------------
(* Steps that write.                                                       *)

(* A row changes: it keeps its type, and the unique indexes hold.          *)
LEMMA RowChanged ==
  ASSUME RInv, NEW u \in Users, NEW row \in User, Unique(u, row),
         exist' = exist \cup {u}, users' = [users EXCEPT ![u] = row]
  PROVE  /\ exist' \in SUBSET Users /\ users' \in [Users -> User]
         /\ \A v \in Users \ exist' : users'[v] = Blank
         /\ OneAccountPerIdentity'
<1>1. exist \in SUBSET Users /\ users \in [Users -> User]
      /\ \A v \in Users \ exist : users[v] = Blank
  BY DEF RInv, TypeOK
<1>2. OneAccountPerIdentity'
  BY <1>1 DEF RInv, OneAccountPerIdentity, Unique
<1> QED BY <1>1, <1>2

(* Rows made and changed are rows.                                         *)
LEMMA NewRowType ==
  ASSUME RInv, NEW c \in Calls
  PROVE  NewRow(c) \in User /\ NewRow(c).avatar = NoOne
<1>1. input[c] \in Input
  BY DEF RInv, TypeOK
<1> QED BY <1>1 DEF NewRow, Blank, User, Input

(* So is what an UPDATE makes of a row; other columns stay.                *)
LEMMA UpdatedType ==
  ASSUME NEW c \in Calls, users[account[c]] \in User, input[c] \in Input
  PROVE  /\ Updated(c) \in User
         /\ kind[c] # "update" => /\ Updated(c).admin = users[account[c]].admin
                                  /\ Updated(c).disabled = users[account[c]].disabled
         /\ Updated(c).avatar = IF kind[c] = "avatar" THEN c ELSE users[account[c]].avatar
<1> DEFINE row == users[account[c]]
           body == input[c]
<1>1. CASE kind[c] \in {"changePassword", "reset"}
  <2>1. Updated(c) = [row EXCEPT !.password = body.password]
    BY <1>1 DEF Updated
  <2> QED BY <1>1, <2>1 DEF User, Input
<1>2. CASE kind[c] = "avatar"
  <2>1. Updated(c) = [row EXCEPT !.avatar = c]
    BY <1>2 DEF Updated
  <2> QED BY <1>2, <2>1 DEF User
<1>3. CASE kind[c] = "update"
  <2>1. Updated(c) = [row EXCEPT !.email = Coalesce(body.email, @),
                                 !.admin = Coalesce(body.admin, @),
                                 !.disabled = Coalesce(body.disabled, @)]
    BY <1>3 DEF Updated
  <2>2. /\ Coalesce(body.email, row.email) \in Emails \cup {NoOne}
        /\ Coalesce(body.admin, row.admin) \in BOOLEAN
        /\ Coalesce(body.disabled, row.disabled) \in BOOLEAN
    BY DEF Coalesce, User, Input, Flag
  <2> QED BY <1>3, <2>1, <2>2 DEF User
<1>4. CASE kind[c] \notin {"changePassword", "reset", "avatar", "update"}
  <2>1. Updated(c) = row
    BY <1>4 DEF Updated
  <2> QED BY <1>4, <2>1
<1> QED BY <1>1, <1>2, <1>3, <1>4

(* Create.                                                                 *)
LEMMA CreateStep ==
  ASSUME RInv, Watch, NEW c \in Calls, Create(c)
  PROVE  RInv'
<1>1. /\ pc[c] = "create" /\ Active(c) /\ Good(c) /\ kind[c] \in {"register", "callback"}
      /\ ~acted[c] /\ result[c] = "none" /\ audit[c] = "none" /\ Entitled(c)
      /\ c \notin exist /\ status[c] = "none" /\ held[c] \subseteq held'[c]
      /\ audit' = audit
  BY Watched DEF Create, At, Active, RInv, Good, Placed, Told, Cleared, Fresh
<1>2. CASE Fail(c) /\ UNCHANGED userVars
  BY <1>1, <1>2, LooksAway, FailStep DEF Create
<1>3. CASE Unique(c, NewRow(c))
  <2>1. /\ exist' = exist \cup {c} /\ users' = [users EXCEPT ![c] = NewRow(c)]
        /\ status' = status /\ owner' = owner /\ objects' = objects /\ autoMerge' = autoMerge
        /\ kind' = kind /\ acted' = acted /\ excused' = excused
        /\ IF kind[c] = "register" THEN Answer(c, "ok") ELSE GotoWith(c, "open", c, NoOne)
    BY <1>3 DEF Create, sessionVars
  <2>2. c \in Users
    BY DEF Users
  <2>3. Tables' /\ HistoryTypes' /\ OneAccountPerIdentity' /\ Growth
    <3>1. /\ exist' \in SUBSET Users /\ users' \in [Users -> User] /\ OneAccountPerIdentity'
          /\ \A v \in Users \ exist' : users'[v] = Blank
      BY <1>3, <2>1, <2>2, NewRowType, RowChanged
    <3>2. Growth
      BY <2>1 DEF Growth
    <3>5. HistoryTypes'
      <4>1. HistoryTypes
        BY Types DEF RInv
      <4> QED BY <1>1, <2>1, <4>1 DEF HistoryTypes
    <3>3. \A t \in Tokens : status'[t] # "none" => owner'[t] \in exist'
      BY <2>1 DEF RInv, TypeOK
    <3>4. Tables'
      BY <2>1, <3>1, <3>3, Types DEF RInv, Tables
    <3> QED BY <3>1, <3>2, <3>4, <3>5
  <2>4. CASE kind[c] = "register"
    <3>1. LocalTypes' /\ Others(c) /\ pc'[c] = "done" /\ result'[c] = "ok"
      BY <2>1, <2>4, AnswerMoves
    <3>2. Good(c)'
      BY <1>1, <2>1, <3>1, DoneGood
    <3>3. \A d \in Calls \ {c} : Kept(d)
      BY <1>1, <2>1, <3>1 DEF Others, Kept
    <3> QED BY <2>3, <3>1, <3>2, <3>3, StepRule
  <2>5. CASE kind[c] = "callback"
    <3>1. "open" \in PCs
      BY DEF PCs
    <3>2. /\ LocalTypes' /\ Others(c) /\ pc'[c] = "open" /\ result'[c] = result[c]
          /\ token'[c] = token[c] /\ input'[c] = input[c] /\ account'[c] = c
      BY <2>1, <2>2, <2>5, <3>1, GotoWithMoves
    <3>3. kind[c] \notin Personal \cup Admin \cup Silent /\ kind[c] \in Newcomers
      BY <2>5 DEF Personal, Admin, Silent, Newcomers
    <3>4. Placed(c)' /\ Fresh(c)'
      BY <1>1, <2>1, <2>5, <3>2 DEF Placed, Fresh
    <3>5. Asked(c)' /\ Based(c)'
      BY <1>1, <2>1, <2>5, <3>2, <3>3 DEF Good, Asked, Based, Active
    <3>6. Cleared(c)' /\ Told(c)'
      BY <1>1, <2>1, <3>2, <3>3 DEF Cleared, Told, Entitled, Active
    <3>7. Good(c)'
      BY <3>4, <3>5, <3>6 DEF Good
    <3>8. \A d \in Calls \ {c} : Kept(d)
      BY <1>1, <2>1, <3>2 DEF Others, Kept
    <3> QED BY <2>3, <3>2, <3>7, <3>8, StepRule
  <2> QED BY <1>1, <2>4, <2>5
<1> QED BY <1>2, <1>3 DEF Create

(* OpenSession.                                                            *)
LEMMA OpenSessionStep ==
  ASSUME RInv, Watch, NEW c \in Calls, OpenSession(c)
  PROVE  RInv'
<1>1. /\ pc[c] = "open" /\ Active(c) /\ Good(c) /\ kind[c] \in {"login", "callback"}
      /\ result[c] = "none" /\ audit[c] = "none" /\ Entitled(c)
      /\ account[c] \in exist /\ status[c] = "none" /\ held[c] \subseteq held'[c]
  BY Watched DEF OpenSession, At, Active, RInv, Good, Placed, Told, Cleared, Fresh, Based
<1>2. /\ exist' = exist /\ users' = users /\ objects' = objects /\ autoMerge' = autoMerge
      /\ kind' = kind /\ audit' = audit /\ excused' = excused
      /\ status' = [status EXCEPT ![c] = "live"] /\ owner' = [owner EXCEPT ![c] = account[c]]
      /\ acted' = [acted EXCEPT ![c] = TRUE] /\ Goto(c, "audit")
  BY DEF OpenSession, userVars, Act
<1>3. \A d \in Calls : d \in Tokens
  BY DEF Tokens, Users
<1>4. Tables' /\ HistoryTypes' /\ OneAccountPerIdentity' /\ Growth
  BY <1>1, <1>2, <1>3 DEF RInv, TypeOK, Tables, HistoryTypes, OneAccountPerIdentity, Growth
<1>5. "audit" \in PCs
  BY DEF PCs
<1>6. /\ LocalTypes' /\ Others(c) /\ pc'[c] = "audit" /\ result'[c] = result[c]
  BY <1>2, <1>5, GotoMoves
<1>7. kind[c] \notin Personal \cup Admin \cup Silent /\ kind[c] \in Newcomers
  BY <1>1 DEF Personal, Admin, Silent, Newcomers
<1>8. acted'[c] = TRUE /\ \A d \in Calls \ {c} : acted'[d] = acted[d]
  BY <1>2 DEF RInv, TypeOK
<1>9. Placed(c)' /\ Fresh(c)' /\ Based(c)'
  BY <1>2, <1>6, <1>7 DEF Placed, Fresh, Based
<1>10. Asked(c)'
  BY <1>1, <1>2, <1>6, <1>7 DEF Good, Asked, Active, Newcomers
<1>11. Cleared(c)' /\ Told(c)'
  BY <1>1, <1>2, <1>6, <1>7, <1>8 DEF Cleared, Told, Entitled, Active
<1>12. Good(c)'
  BY <1>9, <1>10, <1>11 DEF Good
<1>13. \A d \in Calls \ {c} : Kept(d)
  <2>1. \A d \in Calls \ {c} : status[d] = "none" => status'[d] = "none"
    BY <1>2, <1>3 DEF RInv, TypeOK
  <2> QED BY <1>2, <1>6, <1>8, <2>1 DEF Others, Kept
<1> QED BY <1>4, <1>6, <1>12, <1>13, StepRule

(* The account of a request changes: what is left to show is that the      *)
(* request is where it should be.                                          *)
LEMMA ChangeStep ==
  ASSUME RInv, Watch, NEW c \in Calls, account[c] \in exist, NEW row \in User,
         Unique(account[c], row), users' = [users EXCEPT ![account[c]] = row], exist' = exist,
         UNCHANGED <<status, owner, objects, autoMerge, kind, audit>>, excused' \in SUBSET Calls,
         acted' = [acted EXCEPT ![c] = TRUE], LocalTypes', Others(c), Good(c)'
  PROVE  RInv'
<1>1. account[c] \in Users /\ exist' = exist \cup {account[c]}
  BY DEF RInv, TypeOK
<1>2. Tables' /\ HistoryTypes' /\ OneAccountPerIdentity' /\ Growth
  BY <1>1, RowChanged DEF RInv, TypeOK, Tables, HistoryTypes, Growth
<1>3. \A d \in Calls \ {c} : acted'[d] = acted[d]
  BY DEF RInv, TypeOK
<1>4. \A d \in Calls \ {c} : Kept(d)
  BY <1>3 DEF Others, Kept
<1> QED BY <1>2, <1>4, StepRule

(* SetSubject.                                                             *)
LEMMA SetSubjectStep ==
  ASSUME RInv, Watch, NEW c \in Calls, SetSubject(c)
  PROVE  RInv'
<1>1. /\ pc[c] = "merge" /\ Active(c) /\ Good(c) /\ kind[c] = "callback"
      /\ result[c] = "none" /\ audit[c] = "none" /\ Entitled(c)
      /\ account[c] \in exist /\ status[c] = "none" /\ held[c] \subseteq held'[c]
      /\ audit' = audit
  BY Watched DEF SetSubject, At, Active, RInv, Good, Placed, Told, Cleared, Fresh, Based
<1> DEFINE row == [users[account[c]] EXCEPT !.subject = input[c].subject]
<1>2. CASE Fail(c) /\ UNCHANGED <<users, acted>>
  <2>1. Looks
    BY <1>2, LooksAway DEF SetSubject, userVars
  <2> QED BY <1>1, <1>2, <2>1, FailStep
<1>3. CASE Unique(account[c], row) /\ users' = [users EXCEPT ![account[c]] = row]
           /\ Act(c) /\ Goto(c, "merged")
  <2>1. row \in User
    <3>1. users[account[c]] \in User /\ input[c] \in Input
      BY <1>1 DEF RInv, TypeOK
    <3> QED BY <3>1 DEF User, Input
  <2>2. /\ exist' = exist /\ status' = status /\ owner' = owner /\ objects' = objects
        /\ autoMerge' = autoMerge /\ kind' = kind /\ excused' = excused
        /\ acted' = [acted EXCEPT ![c] = TRUE] /\ acted'[c] = TRUE /\ excused' \in SUBSET Calls
    BY <1>3 DEF SetSubject, sessionVars, Act, RInv, TypeOK
  <2>3. "merged" \in PCs
    BY DEF PCs
  <2>4. /\ LocalTypes' /\ Others(c) /\ pc'[c] = "merged" /\ result'[c] = result[c]
        /\ account'[c] = account[c]
    BY <1>3, <2>3, GotoMoves
  <2>5. kind[c] \notin Personal \cup Admin \cup Silent /\ kind[c] \in Newcomers
    BY <1>1 DEF Personal, Admin, Silent, Newcomers
  <2>6. Placed(c)' /\ Fresh(c)' /\ Based(c)'
    BY <1>1, <2>2, <2>4, <2>5 DEF Placed, Fresh, Based
  <2>7. Asked(c)'
    BY <1>1, <2>2, <2>4, <2>5 DEF Good, Asked, Active, Newcomers
  <2>8. Cleared(c)' /\ Told(c)'
    BY <1>1, <2>2, <2>4, <2>5 DEF Cleared, Told, Entitled, Active
  <2>9. Good(c)'
    BY <2>6, <2>7, <2>8 DEF Good
  <2> HIDE DEF row
  <2> QED BY <1>1, <1>3, <2>1, <2>2, <2>4, <2>9, ChangeStep
<1> QED BY <1>2, <1>3 DEF SetSubject

(* What an UPDATE needs, and does.                                         *)
LEMMA ChangeFacts ==
  ASSUME RInv, NEW c \in Calls, pc[c] = "write", Change(c)
  PROVE  /\ account[c] \in exist /\ Updated(c) \in User
         /\ users' = [users EXCEPT ![account[c]] = Updated(c)]
         /\ acted' = [acted EXCEPT ![c] = TRUE] /\ acted'[c] = TRUE
         /\ excused' \in SUBSET Calls
<1>1. account[c] \in exist /\ account[c] \in Users
  BY DEF RInv, Good, Based, TypeOK
<1>2. users[account[c]] \in User /\ input[c] \in Input
  BY <1>1 DEF RInv, TypeOK
<1>3. users[account[c]].avatar \in Calls \cup {NoOne} /\ excused \in SUBSET Calls
  BY <1>2 DEF User, RInv, TypeOK
<1>4. excused' \in SUBSET Calls
  BY <1>3 DEF Change
<1> QED BY <1>1, <1>2, <1>4, UpdatedType DEF Change, Act, RInv, TypeOK

(* Write.                                                                  *)
LEMMA WriteStep ==
  ASSUME RInv, Watch, NEW c \in Calls, Write(c)
  PROVE  RInv'
<1>1. /\ pc[c] = "write" /\ Active(c) /\ Good(c) /\ Entitled(c) /\ held[c] \subseteq held'[c]
      /\ kind[c] \in {"changePassword", "profile", "avatar"} \cup Admin
      /\ result[c] = "none" /\ audit[c] = "none" /\ audit' = audit
  BY Watched DEF Write, At, Active, RInv, Good, Placed, Told, Cleared
<1>2. CASE Fail(c) /\ UNCHANGED <<users, excused, acted>>
  <2>1. Looks
    BY <1>2, LooksAway DEF Write, userVars
  <2> QED BY <1>1, <1>2, <2>1, FailStep
<1>3. CASE Unique(account[c], Updated(c)) /\ Change(c)
  <2> DEFINE step == IF kind[c] \in {"changePassword", "reset"} THEN "audit" ELSE "reload"
  <2>1. Goto(c, step)
    BY <1>3 DEF Write
  <2>2. /\ exist' = exist /\ status' = status /\ owner' = owner /\ objects' = objects
        /\ autoMerge' = autoMerge /\ kind' = kind
    BY DEF Write, sessionVars
  <2>3. step \in PCs /\ step \in {"audit", "reload"}
    BY DEF PCs
  <2>4. step = "reload" => kind[c] \in {"profile", "avatar", "update"}
    BY <1>1 DEF Admin
  <2> HIDE DEF step
  <2>5. /\ LocalTypes' /\ Others(c) /\ pc'[c] = step /\ result'[c] = result[c]
        /\ token'[c] = token[c] /\ input'[c] = input[c] /\ account'[c] = account[c]
    BY <2>1, <2>3, GotoMoves
  <2>6. kind[c] \notin Silent
    BY <1>1 DEF Silent, Admin
  <2>7. Placed(c)' /\ Fresh(c)'
    BY <2>2, <2>3, <2>4, <2>5, <2>6 DEF Placed, Fresh
  <2>8. Asked(c)'
    BY <1>1, <2>2, <2>5 DEF Good, Asked, Active
  <2>9. Based(c)'
    BY <1>1, <2>2, <2>3, <2>5 DEF Good, Based, Active, Me
  <2>10. acted'[c] = TRUE
    BY <1>1, <1>3, ChangeFacts
  <2>11. Cleared(c)' /\ Told(c)'
    BY <1>1, <2>2, <2>3, <2>5, <2>6, <2>10 DEF Cleared, Told, Entitled, Active
  <2>12. Good(c)'
    BY <2>7, <2>8, <2>9, <2>11 DEF Good
  <2> QED BY <1>1, <1>3, <2>2, <2>5, <2>12, ChangeFacts, ChangeStep
<1> QED BY <1>2, <1>3 DEF Write

(* AnswerLost.                                                             *)
LEMMA AnswerLostStep ==
  ASSUME RInv, Watch, NEW c \in Calls, AnswerLost(c)
  PROVE  RInv'
<1>1. /\ pc[c] = "write" /\ Active(c) /\ Unique(account[c], Updated(c)) /\ Change(c) /\ Fail(c)
      /\ audit' = audit /\ held[c] \subseteq held'[c]
  BY Watched DEF AnswerLost, At, Active
<1>2. /\ exist' = exist /\ status' = status /\ owner' = owner /\ objects' = objects
      /\ autoMerge' = autoMerge /\ kind' = kind
  BY DEF AnswerLost, sessionVars
<1>3. Good(c)'
  BY <1>1, <1>2, FailGood
<1> QED BY <1>1, <1>2, <1>3, FailMoves, ChangeFacts, ChangeStep

-----------------------------------------------------------------------------
(* The invariant.                                                          *)

(* The first rows are rows.                                                *)
LEMMA FirstRowType ==
  ASSUME NEW u \in Ids, NEW p \in Passwords
  PROVE  /\ FirstRow(u, p) \in User /\ FirstRow(u, p).email = u
         /\ FirstRow(u, p).subject \in {u, NoOne} /\ FirstRow(u, p).avatar = NoOne
<1> DEFINE local == u \in FirstLocal
           admin == u \in FirstAdmins
           password == IF u \in FirstLocal THEN p ELSE NoOne
           subject == IF u \in FirstLocal THEN NoOne ELSE u
<1>1. /\ local \in BOOLEAN /\ admin \in BOOLEAN /\ password \in Passwords \cup {NoOne}
      /\ subject \in {u, NoOne} /\ u \in Emails /\ u \in Subjects
  BY DEF Emails, Subjects
<1>2. FirstRow(u, p) = [Blank EXCEPT !.email = u, !.local = local, !.admin = admin,
                                     !.password = password, !.subject = subject]
  BY Zenon DEF FirstRow
<1> HIDE DEF local, admin, password, subject
<1>3. FirstRow(u, p) = [email |-> u, local |-> local, password |-> password, subject |-> subject,
                        admin |-> admin, disabled |-> FALSE, avatar |-> NoOne]
  BY <1>2 DEF Blank
<1> QED BY <1>1, <1>3 DEF User

(* It holds at the start.                                                  *)
LEMMA InitInv == Init => RInv
<1> SUFFICES ASSUME Init
             PROVE  RInv
  OBVIOUS
<1>1. PICK p \in Passwords : users = [u \in Users |-> IF u \in Ids THEN FirstRow(u, p) ELSE Blank]
  BY DEF Init
<1>2. Blank \in User /\ NoInput \in Input /\ Ids \subseteq Users /\ Tokens = Users
      /\ \A c \in Calls : c \in Tokens /\ c \notin Ids
  BY NoInputType, NamesDiffer DEF Blank, User, Users, Tokens
<1>3. users \in [Users -> User] /\ \A u \in Users \ exist : users[u] = Blank
  BY <1>1, <1>2, FirstRowType DEF Init
<1>4. /\ exist = Ids /\ objects = {} /\ autoMerge \in BOOLEAN /\ excused = {}
      /\ status = [t \in Tokens |-> IF t \in Ids THEN "live" ELSE "none"]
      /\ owner = [t \in Tokens |-> IF t \in Ids THEN t ELSE NoOne]
  BY DEF Init
<1>5. Tables
  BY <1>2, <1>3, <1>4 DEF Tables
<1>6. LocalTypes
  BY <1>2 DEF Init, All, LocalTypes, PCs
<1>7. HistoryTypes /\ held \in [Calls -> SUBSET Rights]
  BY <1>4 DEF Init, All, HistoryTypes
<1>8. OneAccountPerIdentity
  BY <1>1, <1>2, <1>4, FirstRowType, NamesDiffer DEF OneAccountPerIdentity, Users
<1>9. ASSUME NEW c \in Calls
      PROVE  Good(c) /\ Watching(c)
  <2>1. /\ pc[c] = "idle" /\ result[c] = "none" /\ audit[c] = "none" /\ ~acted[c]
        /\ c \notin exist /\ status[c] = "none" /\ kind[c] = "none"
    BY <1>2, <1>4 DEF Init, All
  <2>2. "none" \notin Silent
    BY DEF Silent
  <2> QED BY <2>1, <2>2 DEF Good, Watching, Placed, Asked, Based, Cleared, Fresh, Told, Active
<1> QED BY <1>5, <1>6, <1>7, <1>8, <1>9, Types DEF RInv

(* Nothing changes when nothing changes.                                   *)
LEMMA StutterInv == RInv /\ UNCHANGED vars => RInv'
<1> SUFFICES ASSUME RInv, UNCHANGED vars
             PROVE  RInv'
  OBVIOUS
<1>1. /\ exist' = exist /\ users' = users /\ status' = status /\ owner' = owner
      /\ objects' = objects /\ autoMerge' = autoMerge /\ kind' = kind /\ pc' = pc
      /\ result' = result /\ token' = token /\ input' = input /\ account' = account
      /\ old' = old /\ held' = held /\ acted' = acted /\ audit' = audit /\ excused' = excused
  BY DEF vars, userVars, sessionVars, locals
<1>2. TypeOK' /\ OneAccountPerIdentity'
  BY <1>1 DEF RInv, TypeOK, OneAccountPerIdentity
<1>3. ASSUME NEW c \in Calls
      PROVE  Good(c)' /\ Watching(c)'
  <2>1. Good(c)'
    BY <1>1 DEF RInv, Good, Placed, Asked, Based, Cleared, Fresh, Told, Active, Me, Entitled
  <2>2. Watching(c)'
    BY <1>1 DEF RInv, Watching, Active, Has, Me, Admins
  <2> QED BY <2>1, <2>2
<1> QED BY <1>2, <1>3 DEF RInv

(* Every step keeps it.                                                    *)
LEMMA StepInv == RInv /\ [Next]_vars => RInv'
<1>1. ASSUME RInv, Next
      PROVE  RInv'
  <2>1. Watch
    BY <1>1 DEF Next
  <2>2. ASSUME NEW c \in Calls, Request(c)
        PROVE  RInv'
    BY <1>1, <2>1, <2>2, RequestStep
  <2>3. ASSUME NEW c \in Calls, Works(c)
        PROVE  RInv'
    <3>1. CASE FindSession(c) \/ RequireAuth(c) \/ FindByEmail(c) \/ FindBySubject(c)
      BY <1>1, <2>1, <3>1, FindSessionStep, RequireAuthStep, FindByEmailStep, FindBySubjectStep
    <3>2. CASE Merged(c) \/ PutAvatar(c) \/ FindByID(c) \/ Reload(c)
      BY <1>1, <2>1, <3>2, MergedStep, FindByIDStep, ReloadStep
    <3>3. CASE DropOldAvatar(c) \/ UndoAvatar(c) \/ LookUpSession(c) \/ DeleteSession(c) \/ Audit(c)
      BY <1>1, <2>1, <3>3, AvatarDeletedStep, LookUpSessionStep, DeleteSessionStep, AuditStep
    <3>4. CASE Create(c) \/ SetSubject(c) \/ OpenSession(c) \/ Write(c)
      BY <1>1, <2>1, <3>4, CreateStep, SetSubjectStep, OpenSessionStep, WriteStep
    <3> QED BY <2>3, <3>1, <3>2, <3>3, <3>4 DEF Works
  <2>4. ASSUME NEW c \in Calls, StepFails(c) \/ AnswerLost(c) \/ DeletionFails(c)
        PROVE  RInv'
    BY <1>1, <2>1, <2>4, FailureStep, AnswerLostStep
  <2>5. ASSUME NEW t \in Tokens, Expire(t)
        PROVE  RInv'
    BY <1>1, <2>1, <2>5, ExpireStep
  <2>6. ASSUME Crash
        PROVE  RInv'
    BY <1>1, <2>1, <2>6, CrashStep
  <2> QED BY <1>1, <2>2, <2>3, <2>4, <2>5, <2>6 DEF Next
<1> QED BY <1>1, StutterInv

(* In every reachable state requests are where their kind may be, on the   *)
(* accounts and sessions they were let to, with the rights asked for.      *)
THEOREM AccountInvariant == Spec => []RInv
BY InitInv, StepInv, PTL DEF Spec

(* Every variable has its type, rows that do not exist are blank, and a    *)
(* session is always of an account that exists.                            *)
THEOREM TypeCorrect == Spec => []TypeOK
<1>1. RInv => TypeOK
  BY DEF RInv
<1> QED BY <1>1, AccountInvariant, PTL

(* Register, upsertOIDCUser and AdminUpdateUser look and then write; the   *)
(* unique indexes keep one account per address and per OIDC subject.       *)
THEOREM IdentitiesAreUnique == Spec => []OneAccountPerIdentity
<1>1. RInv => OneAccountPerIdentity
  BY DEF RInv
<1> QED BY <1>1, AccountInvariant, PTL

(* CurrentUser, Login, upsertOIDCUser and ChangePassword check first and   *)
(* act later: nothing happens, or is answered with success, for somebody   *)
(* who lacked a needed right all the while.                                *)
THEOREM EffectsAreAuthorised == Spec => []EffectsAuthorised
<1>1. RInv => EffectsAuthorised
  BY DEF RInv, EffectsAuthorised, Good, Told, Entitled
<1> QED BY <1>1, AccountInvariant, PTL

(* recordAudit comes last: it tells of what happened, and of all of it     *)
(* that was answered with success, but for a logout nobody can be named of.*)
THEOREM AuditIsHonest == Spec => []AuditFollowsEffects
<1>1. RInv => AuditFollowsEffects
  BY DEF RInv, AuditFollowsEffects, Good, Told
<1> QED BY <1>1, AccountInvariant, PTL

-----------------------------------------------------------------------------
(* Avatars.                                                                *)

(* An avatar was set by its upload, for one account.                       *)
SetOnce ==
  /\ \A u \in exist : users[u].avatar # NoOne => acted[users[u].avatar]
  /\ \A u, v \in exist : users[u].avatar = users[v].avatar /\ users[u].avatar # NoOne => u = v

(* The avatar an upload replaces: of its own account, and then of none.    *)
OldAvatar(c) ==
  kind[c] = "avatar" /\ old[c] # NoOne =>
    /\ pc[c] \in {"put", "find", "write", "reload", "drop", "undo"} => acted[old[c]]
    /\ pc[c] \in {"put", "find", "write"} =>
         \A u \in exist : users[u].avatar = old[c] => u = account[c]
    /\ pc[c] \in {"reload", "drop", "undo"} /\ acted[c] =>
         \A u \in exist : users[u].avatar # old[c]

(* The avatar it brings: in the bucket since PutObject.                    *)
NewAvatar(c) ==
  /\ kind[c] = "avatar" /\ pc[c] \in {"find", "write"} => c \in objects
  /\ c \in objects => kind[c] = "avatar" /\ pc[c] \notin {"idle", "session", "account", "put"}

(* Why an object is in the bucket.                                         *)
KeptFor(a) ==
  \/ \E u \in exist : users[u].avatar = a
  \/ kind[a] = "avatar" /\ Active(a) /\ ~acted[a]
  \/ \E c \in Calls : /\ kind[c] = "avatar" /\ acted[c] /\ a = old[c]
                      /\ pc[c] \in {"reload", "drop", "undo"}

AInv ==
  /\ AvatarsExist /\ SetOnce
  /\ \A c \in Calls : OldAvatar(c) /\ NewAvatar(c)
  /\ \A a \in objects \ excused : KeptFor(a)

(* The invariant says what the runs check.                                 *)
LEMMA AvatarsKept == RInv /\ AInv => AvatarsAccounted
<1> SUFFICES ASSUME RInv, AInv, NEW a \in objects \ excused
             PROVE  \/ \E u \in exist : users[u].avatar = a
                    \/ \E c \in Calls :
                         /\ kind[c] = "avatar" /\ Active(c)
                         /\ a = c \/ (a = old[c] /\ pc[c] \in {"reload", "drop", "undo"})
  BY DEF AvatarsAccounted
<1>1. KeptFor(a) /\ a \in Calls
  BY DEF AInv, RInv, TypeOK
<1> QED BY <1>1 DEF KeptFor, Active

(* A statement leaves the other requests alone.                            *)
LEMMA LeavesOthers ==
  ASSUME RInv, NEW c \in Calls, NEW step, NEW u, NEW a,
         Goto(c, step) \/ GotoWith(c, step, u, a) \/ Answer(c, step) \/ Fail(c)
  PROVE  Others(c)
<1>1. ASSUME NEW s, Goto(c, s)
      PROVE  Others(c)
  BY <1>1 DEF Goto, locals, Others, Still, RInv, TypeOK
<1>2. ASSUME NEW s, Answer(c, s)
      PROVE  Others(c)
  BY <1>2 DEF Answer, Forget, Others, Still, RInv, TypeOK
<1>3. CASE GotoWith(c, step, u, a)
  BY <1>3 DEF GotoWith, Others, Still, RInv, TypeOK
<1>4. CASE Fail(c)
  BY <1>1, <1>2, <1>4, FailCases
<1> QED BY <1>1, <1>2, <1>3, <1>4

(* What a step of c leaves alone of what avatars depend on.                *)
Apart(c) ==
  /\ Others(c)
  /\ \A d \in Calls \ {c} : kind'[d] = kind[d] /\ acted'[d] = acted[d]
  /\ acted[c] => acted'[c]

AvatarFrame(c) ==
  /\ Apart(c) /\ objects' = objects /\ excused' = excused
  /\ exist \subseteq exist'
  /\ \A u \in exist' : users'[u].avatar = IF u \in exist THEN users[u].avatar ELSE NoOne

(* What holds of the other uploads goes on to hold.                        *)
LEMMA FrameRest ==
  ASSUME RInv, AInv, NEW c \in Calls, AvatarFrame(c)
  PROVE  /\ AvatarsExist' /\ SetOnce'
         /\ \A d \in Calls \ {c} : OldAvatar(d)' /\ NewAvatar(d)'
<1>1. ASSUME NEW u \in exist, users[u].avatar # NoOne
      PROVE  users[u].avatar \in Calls
  BY <1>1 DEF RInv, TypeOK, User
<1>2. AvatarsExist'
  BY DEF AInv, AvatarsExist, AvatarFrame
<1>3. SetOnce'
  BY <1>1 DEF AInv, SetOnce, AvatarFrame, Apart
<1>4. ASSUME NEW d \in Calls \ {c}
      PROVE  OldAvatar(d)' /\ NewAvatar(d)'
  <2>1. OldAvatar(d) /\ NewAvatar(d) /\ old[d] \in Calls \cup {NoOne}
    BY DEF AInv, RInv, TypeOK
  <2>2. NewAvatar(d)'
    BY <2>1 DEF NewAvatar, AvatarFrame, Apart, Others, Still
  <2>3. OldAvatar(d)'
    BY <2>1 DEF OldAvatar, AvatarFrame, Apart, Others, Still
  <2> QED BY <2>2, <2>3
<1> QED BY <1>2, <1>3, <1>4

(* An object is kept for another upload, or an avatar, as before.          *)
LEMMA FrameKept ==
  ASSUME RInv, AInv, NEW c \in Calls, AvatarFrame(c), NEW a \in objects \ excused,
         a = c /\ kind[c] = "avatar" /\ Active(c) /\ ~acted[c] => KeptFor(a)',
         /\ a = old[c] /\ kind[c] = "avatar" /\ acted[c] /\ pc[c] \in {"reload", "drop", "undo"}
           => KeptFor(a)'
  PROVE  KeptFor(a)'
<1>1. KeptFor(a) /\ a \in Calls
  BY DEF AInv, RInv, TypeOK
<1>2. CASE \E u \in exist : users[u].avatar = a
  BY <1>2 DEF AvatarFrame, KeptFor
<1>3. CASE kind[a] = "avatar" /\ Active(a) /\ ~acted[a] /\ a # c
  BY <1>1, <1>3 DEF AvatarFrame, Apart, Others, Still, KeptFor, Active
<1>4. ASSUME NEW d \in Calls \ {c}, kind[d] = "avatar", acted[d], a = old[d],
             pc[d] \in {"reload", "drop", "undo"}
      PROVE  KeptFor(a)'
  <2>1. kind'[d] = "avatar" /\ acted'[d] /\ a = old'[d] /\ pc'[d] \in {"reload", "drop", "undo"}
    BY <1>4 DEF AvatarFrame, Apart, Others, Still
  <2> QED BY <2>1 DEF KeptFor
<1> QED BY <1>1, <1>2, <1>3, <1>4 DEF KeptFor

(* A request that uploads no avatar.                                       *)
LEMMA OtherKinds ==
  ASSUME RInv, AInv, NEW c \in Calls, AvatarFrame(c),
         kind[c] # "avatar" /\ kind'[c] # "avatar"
  PROVE  AInv'
<1>1. OldAvatar(c)'
  BY DEF OldAvatar
<1>2. NewAvatar(c)'
  BY DEF AInv, NewAvatar, AvatarFrame
<1>3. \A a \in objects \ excused : KeptFor(a)'
  BY FrameKept
<1>4. objects' = objects /\ excused' = excused
  BY DEF AvatarFrame
<1> QED BY <1>1, <1>2, <1>3, <1>4, FrameRest DEF AInv

(* An upload that has not stored its avatar, or is over with it.           *)
LEMMA IdleUpload ==
  ASSUME RInv, AInv, NEW c \in Calls, AvatarFrame(c),
         \/ pc[c] = "idle" /\ (pc'[c] = "session" \/ kind'[c] # "avatar")
         \/ /\ kind[c] = "avatar" /\ pc[c] \in {"session", "account", "put"}
            /\ pc'[c] \in {"session", "account", "done"}
         \/ kind[c] = "avatar" /\ pc[c] = "audit" /\ pc'[c] = "done" /\ kind'[c] = kind[c]
  PROVE  AInv'
<1>1. OldAvatar(c)'
  BY DEF OldAvatar
<1>2. pc[c] \in {"idle", "session", "account", "put"} => c \notin objects
  BY DEF AInv, NewAvatar
<1>3. NewAvatar(c)'
  BY <1>2 DEF NewAvatar, AvatarFrame
<1>4. ASSUME NEW a \in objects \ excused
      PROVE  KeptFor(a)'
  <2>1. pc[c] = "audit" => acted[c]
    BY DEF RInv, Good, Told
  <2> QED BY <1>2, <2>1, FrameKept DEF Active
<1>5. objects' = objects /\ excused' = excused
  BY DEF AvatarFrame
<1> QED BY <1>1, <1>3, <1>4, <1>5, FrameRest DEF AInv

(* An upload that goes on without a change.                                *)
LEMMA UploadGoesOn ==
  ASSUME RInv, AInv, NEW c \in Calls, AvatarFrame(c), kind[c] = "avatar", kind'[c] = "avatar",
         acted'[c] = acted[c], old'[c] = old[c], account'[c] = account[c],
         \/ pc[c] = "find" /\ pc'[c] \in {"write", "undo"}
         \/ pc[c] = "write" /\ pc'[c] = "undo"
         \/ pc[c] = "reload" /\ pc'[c] \in {"drop", "undo"}
  PROVE  AInv'
<1>1. OldAvatar(c) /\ NewAvatar(c) /\ old[c] \in Calls \cup {NoOne}
  BY DEF AInv, RInv, TypeOK
<1>2. pc[c] \in {"find", "write"} => ~acted[c]
  BY DEF RInv, Good, Told
<1>3. OldAvatar(c)'
  <2>1. old[c] # NoOne => acted'[old[c]]
    BY <1>1 DEF OldAvatar, AvatarFrame, Apart
  <2> QED BY <1>1, <1>2, <2>1 DEF OldAvatar, AvatarFrame
<1>4. NewAvatar(c)'
  BY <1>1 DEF NewAvatar, AvatarFrame
<1>5. ASSUME NEW a \in objects \ excused
      PROVE  KeptFor(a)'
  <2>1. a = c /\ ~acted[c] => KeptFor(a)'
    BY DEF KeptFor, Active
  <2>2. a = old[c] /\ acted[c] => KeptFor(a)'
    BY <1>2 DEF KeptFor
  <2> QED BY <2>1, <2>2, FrameKept
<1>6. objects' = objects /\ excused' = excused
  BY DEF AvatarFrame
<1> QED BY <1>3, <1>4, <1>5, <1>6, FrameRest DEF AInv

(* RequireAuth reads the avatar an upload is to replace.                   *)
LEMMA UploadBegins ==
  ASSUME RInv, AInv, NEW c \in Calls, AvatarFrame(c), kind[c] = "avatar", kind'[c] = "avatar",
         pc[c] = "account", pc'[c] = "put", acted'[c] = acted[c],
         old'[c] = users[Me(c)].avatar, account'[c] = Me(c), exist' = exist
  PROVE  AInv'
<1>1. c \notin objects /\ ~acted[c] /\ Me(c) \in exist
  BY MeExists DEF AInv, NewAvatar, RInv, Good, Told, Active, Newcomers
<1>2. NewAvatar(c)'
  BY <1>1 DEF NewAvatar, AvatarFrame
<1>3. OldAvatar(c)'
  <2>1. old'[c] # NoOne => acted[old'[c]] /\ old'[c] \in Calls
    BY <1>1 DEF AInv, SetOnce, RInv, TypeOK, User
  <2>2. \A u \in exist : users[u].avatar = old'[c] /\ old'[c] # NoOne => u = Me(c)
    BY <1>1 DEF AInv, SetOnce
  <2> QED BY <2>1, <2>2 DEF OldAvatar, AvatarFrame, Apart
<1>4. ASSUME NEW a \in objects \ excused
      PROVE  KeptFor(a)'
  BY <1>1, FrameKept
<1>5. objects' = objects /\ excused' = excused
  BY DEF AvatarFrame
<1> QED BY <1>2, <1>3, <1>4, <1>5, FrameRest DEF AInv

(* PutAvatar.                                                              *)
LEMMA PutAvatarKeeps ==
  ASSUME RInv, AInv, NEW c \in Calls, PutAvatar(c)
  PROVE  AInv'
<1>1. /\ exist' = exist /\ users' = users /\ kind' = kind /\ acted' = acted /\ excused' = excused
      /\ objects' = objects \cup {c} /\ pc[c] = "put" /\ Goto(c, "find")
  BY DEF PutAvatar, userVars, At
<1>2. "find" \in PCs
  BY DEF PCs
<1>3. Others(c) /\ pc'[c] = "find" /\ account'[c] = account[c] /\ old'[c] = old[c]
  BY <1>1, <1>2, GotoMoves
<1>4. kind[c] = "avatar" /\ ~acted[c]
  BY <1>1 DEF RInv, Good, Placed, Told
<1>5. AvatarsExist' /\ SetOnce'
  BY <1>1 DEF AInv, AvatarsExist, SetOnce
<1>6. ASSUME NEW d \in Calls
      PROVE  OldAvatar(d)' /\ NewAvatar(d)'
  <2>1. OldAvatar(d) /\ NewAvatar(d)
    BY DEF AInv
  <2> QED BY <1>1, <1>3, <1>4, <2>1 DEF OldAvatar, NewAvatar, Others, Still
<1>7. ASSUME NEW a \in objects' \ excused'
      PROVE  KeptFor(a)'
  <2>1. CASE a = c
    BY <1>1, <1>3, <1>4, <2>1 DEF KeptFor, Active
  <2>2. CASE a # c
    <3>1. KeptFor(a) /\ a \in Calls
      BY <1>1, <2>2 DEF AInv, RInv, TypeOK
    <3>2. \A d \in Calls \ {c} : pc'[d] = pc[d] /\ old'[d] = old[d]
      BY <1>3 DEF Others, Still
    <3>3. ASSUME NEW d \in Calls, kind[d] = "avatar", acted[d], a = old[d],
                 pc[d] \in {"reload", "drop", "undo"}
          PROVE  KeptFor(a)'
      BY <1>1, <3>2, <3>3 DEF KeptFor
    <3> QED BY <1>1, <2>2, <3>1, <3>2, <3>3 DEF KeptFor, Active
  <2> QED BY <2>1, <2>2
<1> QED BY <1>5, <1>6, <1>7 DEF AInv

(* The UPDATE of an upload, answered or not.                               *)
LEMMA AvatarSet ==
  ASSUME RInv, AInv, NEW c \in Calls, Apart(c), kind[c] = "avatar", kind'[c] = "avatar",
         pc[c] = "write", pc'[c] \in {"reload", "undo"}, Change(c), objects' = objects,
         exist' = exist, old'[c] = old[c], account'[c] = account[c]
  PROVE  AInv'
<1> DEFINE o == old[c]
           b == account[c]
           before == users[b].avatar
<1>1. /\ b \in exist /\ ~acted[c] /\ acted'[c] /\ c \in objects /\ OldAvatar(c)
      /\ o \in Calls \cup {NoOne}
  BY ChangeFacts DEF RInv, Good, Told, Based, AInv, NewAvatar, TypeOK
<1>2. ASSUME NEW u \in exist
      PROVE  /\ users'[u].avatar = IF u = b THEN c ELSE users[u].avatar
             /\ users[u].avatar \in Calls \cup {NoOne} /\ users[u].avatar # c
  <2>1. users[b] \in User /\ input[c] \in Input
    BY <1>1 DEF RInv, TypeOK
  <2>2. users' = [users EXCEPT ![b] = Updated(c)] /\ Updated(c).avatar = c
    BY <2>1, ChangeFacts, UpdatedType
  <2>3. users \in [Users -> User] /\ u \in Users
    BY DEF RInv, TypeOK
  <2>4. users[u].avatar # c
    BY <1>1, NamesDiffer DEF AInv, SetOnce, Users
  <2> QED BY <2>2, <2>3, <2>4 DEF User
<1>3. /\ excused \subseteq excused'
      /\ before # o /\ before # NoOne => before \in excused'
  BY DEF Change
<1>4. AvatarsExist'
  BY <1>1, <1>2, <1>3 DEF AInv, AvatarsExist
<1>5. SetOnce'
  <2>1. \A u \in exist : users[u].avatar # NoOne => acted'[users[u].avatar]
    BY <1>2 DEF AInv, SetOnce, Apart
  <2> QED BY <1>1, <1>2, <2>1 DEF AInv, SetOnce
<1>6. ASSUME NEW d \in Calls
      PROVE  OldAvatar(d)' /\ NewAvatar(d)'
  <2>1. OldAvatar(d) /\ NewAvatar(d) /\ old[d] \in Calls \cup {NoOne}
    BY DEF AInv, RInv, TypeOK
  <2>2. CASE d = c
    <3>1. o # NoOne => acted[o] /\ o # c
      BY <1>1 DEF OldAvatar
    <3>2. o # NoOne => acted'[o]
      BY <1>1, <3>1 DEF Apart
    <3>3. o # NoOne => \A u \in exist : users'[u].avatar # o
      BY <1>1, <1>2, <3>1 DEF OldAvatar
    <3> QED BY <2>1, <2>2, <3>2, <3>3 DEF OldAvatar, NewAvatar
  <2>3. CASE d # c
    <3>1. /\ kind'[d] = kind[d] /\ acted'[d] = acted[d] /\ pc'[d] = pc[d] /\ old'[d] = old[d]
          /\ account'[d] = account[d]
      BY <2>3 DEF Apart, Others, Still
    <3>2. ASSUME kind[d] = "avatar", old[d] # NoOne,
                 pc[d] \in {"put", "find", "write", "reload", "drop", "undo"}
          PROVE  /\ acted'[old[d]] /\ old[d] # c
                 /\ \A u \in exist : users'[u].avatar = old[d] => users[u].avatar = old[d]
      <4>1. acted[old[d]]
        BY <2>1, <3>2 DEF OldAvatar
      <4> QED BY <1>1, <1>2, <2>1, <3>2, <4>1 DEF Apart
    <3>3. OldAvatar(d)'
      BY <2>1, <3>1, <3>2 DEF OldAvatar
    <3>4. NewAvatar(d)'
      BY <2>1, <3>1 DEF NewAvatar
    <3> QED BY <3>3, <3>4
  <2> QED BY <2>2, <2>3
<1>7. ASSUME NEW a \in objects' \ excused'
      PROVE  KeptFor(a)'
  <2>1. KeptFor(a) /\ a \in Calls /\ a # NoOne
    BY <1>3, NamesDiffer DEF AInv, RInv, TypeOK, Users
  <2>2. CASE a = c
    BY <1>1, <1>2, <2>2 DEF KeptFor
  <2>3. CASE a = o
    BY <1>1, <2>3 DEF KeptFor
  <2>4. CASE a # c /\ a # o
    <3>1. CASE \E u \in exist : users[u].avatar = a
      <4>1. PICK u \in exist : users[u].avatar = a
        BY <3>1
      <4>2. u # b
        BY <1>3, <2>1, <2>4, <4>1
      <4> QED BY <1>2, <4>1, <4>2 DEF KeptFor
    <3>2. CASE kind[a] = "avatar" /\ Active(a) /\ ~acted[a]
      BY <2>1, <2>4, <3>2 DEF KeptFor, Apart, Others, Still, Active
    <3>3. ASSUME NEW d \in Calls, kind[d] = "avatar", acted[d], a = old[d],
                 pc[d] \in {"reload", "drop", "undo"}
          PROVE  KeptFor(a)'
      <4>1. d # c
        BY <2>4, <3>3
      <4>2. kind'[d] = "avatar" /\ acted'[d] /\ a = old'[d] /\ pc'[d] \in {"reload", "drop", "undo"}
        BY <3>3, <4>1 DEF Apart, Others, Still
      <4> QED BY <4>2 DEF KeptFor
    <3> QED BY <2>1, <3>1, <3>2, <3>3 DEF KeptFor
  <2> QED BY <2>2, <2>3, <2>4
<1> QED BY <1>4, <1>5, <1>6, <1>7 DEF AInv

(* DropOldAvatar and UndoAvatar, with or without success: the objects of   *)
(* Gone are no longer there, or excused.                                   *)
LEMMA AvatarGone ==
  ASSUME RInv, AInv, NEW c \in Calls, Apart(c), kind[c] = "avatar", kind'[c] = "avatar",
         \/ pc[c] = "drop" /\ pc'[c] = "audit"
         \/ pc[c] = "undo" /\ pc'[c] = "done",
         exist' = exist, users' = users, acted'[c] = acted[c],
         excused \subseteq excused', objects' \subseteq objects,
         pc[c] = "drop" => objects \ {old[c]} \subseteq objects' /\ old[c] \notin objects' \ excused',
         pc[c] = "undo" => objects \ {c} \subseteq objects' /\ c \notin objects' \ excused',
         pc[c] = "undo" /\ acted[c] => {c, old[c]} \ {NoOne} \subseteq excused'
  PROVE  AInv'
<1> DEFINE o == old[c]
<1>1. /\ OldAvatar(c) /\ NewAvatar(c) /\ o \in Calls \cup {NoOne}
      /\ pc[c] = "drop" => acted[c]
  BY DEF AInv, RInv, Good, Told, TypeOK
<1>2. AvatarsExist'
  <2> SUFFICES ASSUME NEW u \in exist, users[u].avatar # NoOne
               PROVE  users[u].avatar \in objects' \cup excused'
    BY DEF AvatarsExist
  <2>1. users[u].avatar \in objects \cup excused /\ acted[users[u].avatar]
    BY DEF AInv, AvatarsExist, SetOnce
  <2>2. pc[c] = "drop" => users[u].avatar # o
    BY <1>1 DEF OldAvatar
  <2>3. pc[c] = "undo" /\ users[u].avatar = c => c \in excused'
    BY <2>1, NamesDiffer DEF Users
  <2> QED BY <2>1, <2>2, <2>3
<1>3. \A d \in Calls : acted'[d] = acted[d] /\ kind'[d] = kind[d]
  BY DEF Apart
<1>4. SetOnce'
  <2>1. \A u \in exist : users[u].avatar # NoOne => users[u].avatar \in Calls
    BY DEF RInv, TypeOK, User
  <2> QED BY <1>3, <2>1 DEF AInv, SetOnce
<1>5. ASSUME NEW d \in Calls
      PROVE  OldAvatar(d)' /\ NewAvatar(d)'
  <2>1. OldAvatar(d) /\ NewAvatar(d) /\ old[d] \in Calls \cup {NoOne}
    BY DEF AInv, RInv, TypeOK
  <2>2. CASE d = c
    BY <1>1, <2>1, <2>2 DEF OldAvatar, NewAvatar
  <2>3. CASE d # c
    <3>1. pc'[d] = pc[d] /\ old'[d] = old[d] /\ account'[d] = account[d]
      BY <2>3 DEF Apart, Others, Still
    <3>2. OldAvatar(d)'
      BY <1>3, <2>1, <3>1 DEF OldAvatar
    <3>3. pc[d] \in {"find", "write"} => ~acted[d]
      BY DEF RInv, Good, Told
    <3>4. pc[c] = "drop" /\ o # NoOne => acted[o]
      BY <1>1 DEF OldAvatar
    <3>5. d # NoOne
      BY NamesDiffer DEF Users
    <3>6. pc[d] \in {"find", "write"} /\ d \in objects => d \in objects'
      BY <2>3, <3>3, <3>4, <3>5
    <3>7. NewAvatar(d)'
      BY <1>3, <2>1, <3>1, <3>6 DEF NewAvatar
    <3> QED BY <3>2, <3>7
  <2> QED BY <2>2, <2>3
<1>6. ASSUME NEW a \in objects' \ excused'
      PROVE  KeptFor(a)'
  <2>1. /\ KeptFor(a) /\ a \in Calls /\ a # NoOne
        /\ pc[c] = "drop" => a # o
        /\ pc[c] = "undo" => a # c /\ (acted[c] => a # o)
    BY NamesDiffer DEF AInv, RInv, TypeOK, Users
  <2>2. CASE \E u \in exist : users[u].avatar = a
    BY <2>2 DEF KeptFor
  <2>3. CASE kind[a] = "avatar" /\ Active(a) /\ ~acted[a]
    <3>1. a # c
      BY <1>1, <2>1, <2>3
    <3> QED BY <1>3, <2>1, <2>3, <3>1 DEF KeptFor, Apart, Others, Still, Active
  <2>4. ASSUME NEW d \in Calls, kind[d] = "avatar", acted[d], a = old[d],
               pc[d] \in {"reload", "drop", "undo"}
        PROVE  KeptFor(a)'
    <3>1. d # c
      BY <2>1, <2>4
    <3>2. kind'[d] = "avatar" /\ acted'[d] /\ a = old'[d] /\ pc'[d] \in {"reload", "drop", "undo"}
      BY <1>3, <2>4, <3>1 DEF Apart, Others, Still
    <3> QED BY <3>2 DEF KeptFor
  <2> QED BY <2>1, <2>2, <2>3, <2>4 DEF KeptFor
<1> QED BY <1>2, <1>4, <1>5, <1>6 DEF AInv


-----------------------------------------------------------------------------
(* Which steps leave avatars alone.                                        *)

(* Those that change no row of users.                                      *)
LEMMA LookFrame ==
  ASSUME RInv, NEW c \in Calls, Others(c), UNCHANGED <<userVars, objects, kind, excused>>,
         acted' = acted \/ acted' = [acted EXCEPT ![c] = TRUE]
  PROVE  AvatarFrame(c)
<1>1. /\ exist' = exist /\ users' = users /\ objects' = objects /\ kind' = kind
      /\ excused' = excused
  BY DEF userVars
<1>2. acted \in [Calls -> BOOLEAN]
  BY DEF RInv, TypeOK
<1> QED BY <1>1, <1>2 DEF AvatarFrame, Apart

(* The statements of CurrentUser, of a login, and those that only look.    *)
LookingOn(c) ==
  \/ FindSession(c) \/ RequireAuth(c) \/ FindByEmail(c) \/ FindBySubject(c) \/ Merged(c)
  \/ OpenSession(c) \/ FindByID(c) \/ Reload(c) \/ LookUpSession(c) \/ DeleteSession(c)
  \/ Audit(c) \/ StepFails(c)

(* They leave avatars alone.                                               *)
LEMMA LookingFrame ==
  ASSUME RInv, NEW c \in Calls, LookingOn(c)
  PROVE  AvatarFrame(c) /\ kind' = kind
<1>1. Others(c)
  <2>1. CASE FindSession(c)
    BY <2>1, LeavesOthers DEF FindSession
  <2>2. CASE RequireAuth(c)
    BY <2>2, LeavesOthers DEF RequireAuth
  <2>3. CASE FindByEmail(c) \/ FindBySubject(c) \/ Merged(c)
    BY <2>3, LeavesOthers DEF FindByEmail, FindBySubject, Merged
  <2>4. CASE OpenSession(c) \/ FindByID(c)
    BY <2>4, LeavesOthers DEF OpenSession, FindByID
  <2>5. CASE Reload(c)
    BY <2>5, LeavesOthers DEF Reload
  <2>6. CASE LookUpSession(c) \/ DeleteSession(c)
    BY <2>6, LeavesOthers DEF LookUpSession, DeleteSession
  <2>7. CASE Audit(c) \/ StepFails(c)
    BY <2>7, LeavesOthers DEF Audit, StepFails
  <2> QED BY <2>1, <2>2, <2>3, <2>4, <2>5, <2>6, <2>7 DEF LookingOn
<1>2. /\ UNCHANGED <<userVars, objects, kind, excused>> /\ kind' = kind
      /\ acted' = acted \/ acted' = [acted EXCEPT ![c] = TRUE]
  BY DEF LookingOn, FindSession, RequireAuth, FindByEmail, FindBySubject, Merged, OpenSession,
         FindByID, Reload, LookUpSession, DeleteSession, Audit, StepFails, Act
<1> QED BY <1>1, <1>2, LookFrame

(* Create, SetSubject, and an UPDATE of another column.                    *)
LEMMA RowFrame ==
  ASSUME RInv, NEW c \in Calls,
         Create(c) \/ SetSubject(c) \/ (kind[c] # "avatar" /\ (Write(c) \/ AnswerLost(c)))
  PROVE  AvatarFrame(c) /\ kind' = kind /\ kind[c] # "avatar"
<1>1. users \in [Users -> User] /\ acted \in [Calls -> BOOLEAN] /\ exist \subseteq Users
  BY DEF RInv, TypeOK
<1>2. CASE Create(c)
  <2>1. /\ Others(c) /\ kind' = kind /\ objects' = objects /\ excused' = excused
        /\ acted' = acted
    BY <1>2, LeavesOthers DEF Create
  <2>2. c \notin exist /\ c \in Users /\ kind[c] # "avatar"
    BY <1>2 DEF RInv, Good, Fresh, Placed, Create, At, Users
  <2>3. CASE Unique(c, NewRow(c))
    <3>1. exist' = exist \cup {c} /\ users' = [users EXCEPT ![c] = NewRow(c)]
      BY <1>2, <2>3 DEF Create
    <3>2. NewRow(c).avatar = NoOne
      BY NewRowType
    <3> QED BY <1>1, <2>1, <2>2, <3>1, <3>2 DEF AvatarFrame, Apart
  <2>4. CASE ~Unique(c, NewRow(c))
    BY <1>2, <2>1, <2>2, <2>4, LookFrame DEF Create
  <2> QED BY <2>3, <2>4
<1>3. CASE SetSubject(c)
  <2> DEFINE row == [users[account[c]] EXCEPT !.subject = input[c].subject]
  <2>1. /\ Others(c) /\ kind' = kind /\ objects' = objects /\ excused' = excused
        /\ exist' = exist
    BY <1>3, LeavesOthers DEF SetSubject
  <2>2. account[c] \in exist /\ kind[c] # "avatar"
    BY <1>3 DEF RInv, Good, Based, Placed, SetSubject, At
  <2>3. CASE Unique(account[c], row)
    <3>1. users' = [users EXCEPT ![account[c]] = row] /\ acted' = [acted EXCEPT ![c] = TRUE]
      BY <1>3, <2>3 DEF SetSubject, Act
    <3>2. row.avatar = users[account[c]].avatar
      BY <1>1, <2>2 DEF User
    <3> HIDE DEF row
    <3> QED BY <1>1, <2>1, <2>2, <3>1, <3>2 DEF AvatarFrame, Apart
  <2>4. CASE ~Unique(account[c], row)
    BY <1>3, <2>1, <2>2, <2>4, LookFrame DEF SetSubject, userVars
  <2> QED BY <2>3, <2>4
<1>4. CASE kind[c] # "avatar" /\ (Write(c) \/ AnswerLost(c))
  <2>1. /\ Others(c) /\ kind' = kind /\ objects' = objects /\ exist' = exist /\ pc[c] = "write"
    BY <1>4, LeavesOthers DEF Write, AnswerLost, At
  <2>2. CASE Change(c)
    <3>1. /\ account[c] \in exist /\ users' = [users EXCEPT ![account[c]] = Updated(c)]
          /\ acted' = [acted EXCEPT ![c] = TRUE]
      BY <2>1, <2>2, ChangeFacts
    <3>2. excused' = excused
      BY <1>4, <2>2 DEF Change
    <3>3. Updated(c).avatar = users[account[c]].avatar
      <4>1. users[account[c]] \in User /\ input[c] \in Input
        BY <1>1, <3>1 DEF RInv, TypeOK
      <4> QED BY <1>4, <4>1, UpdatedType
    <3> QED BY <1>1, <1>4, <2>1, <3>1, <3>2, <3>3 DEF AvatarFrame, Apart
  <2>3. CASE UNCHANGED <<users, excused, acted>>
    BY <1>4, <2>1, <2>3, LookFrame DEF userVars
  <2> QED BY <1>4, <2>1, <2>2, <2>3 DEF Write, AnswerLost
<1> QED BY <1>2, <1>3, <1>4

-----------------------------------------------------------------------------
(* The second invariant.                                                   *)

(* A request arrives.                                                      *)
LEMMA ArriveAvatars ==
  ASSUME RInv, AInv, NEW c \in Calls, NEW k, NEW step, NEW t, NEW body,
         Arrive(c, k, step, t, body), step = "session" \/ k # "avatar"
  PROVE  AInv'
<1>1. /\ exist' = exist /\ users' = users /\ objects' = objects /\ excused' = excused
      /\ acted' = acted /\ kind' = [kind EXCEPT ![c] = k] /\ pc' = [pc EXCEPT ![c] = step]
      /\ token' = [token EXCEPT ![c] = t] /\ input' = [input EXCEPT ![c] = body]
      /\ result' = result /\ account' = account /\ old' = old /\ pc[c] = "idle"
  BY DEF Arrive, At, userVars
<1>2. AvatarFrame(c) /\ kind'[c] = k /\ pc'[c] = step
  BY <1>1 DEF AvatarFrame, Apart, Others, Still, RInv, TypeOK
<1> QED BY <1>1, <1>2, IdleUpload

(* Requests with a cookie.                                                 *)
LEMMA CookieAvatars ==
  ASSUME RInv, AInv, NEW c \in Calls, NEW k, NEW body, WithCookie(c, k, body)
  PROVE  AInv'
BY ArriveAvatars DEF WithCookie

(* Request.                                                                *)
LEMMA RequestAvatars ==
  ASSUME RInv, AInv, NEW c \in Calls, Request(c)
  PROVE  AInv'
<1>1. ASSUME NEW k \in {"register", "login", "callback"}, NEW step, NEW body,
             Arrive(c, k, step, NoOne, body)
      PROVE  AInv'
  BY <1>1, ArriveAvatars
<1>2. CASE Register(c)
  BY <1>1, <1>2, Zenon DEF Register
<1>3. CASE Login(c)
  BY <1>1, <1>3, Zenon DEF Login
<1>4. CASE Callback(c)
  BY <1>1, <1>4, Zenon DEF Callback
<1>5. CASE Logout(c) \/ CurrentAccount(c) \/ ListSessions(c) \/ UpdateProfile(c) \/ UpdateAvatar(c)
  BY <1>5, CookieAvatars, Zenon
     DEF Logout, CurrentAccount, ListSessions, UpdateProfile, UpdateAvatar
<1>6. CASE ChangePassword(c) \/ ViewAvatar(c) \/ RevokeSession(c)
  BY <1>6, CookieAvatars, Zenon DEF ChangePassword, ViewAvatar, RevokeSession
<1>7. CASE AdminResetPassword(c) \/ AdminUpdateUser(c)
  BY <1>7, CookieAvatars, Zenon DEF AdminResetPassword, AdminUpdateUser
<1> QED BY <1>2, <1>3, <1>4, <1>5, <1>6, <1>7 DEF Request

(* A statement of an upload fails.                                         *)
LEMMA FailAvatars ==
  ASSUME RInv, AInv, NEW c \in Calls, Fail(c), AvatarFrame(c), kind' = kind, acted' = acted,
         kind[c] = "avatar", pc[c] \in {"session", "account", "put", "find", "write", "reload"}
  PROVE  AInv'
<1>1. CASE pc[c] \in {"session", "account", "put"}
  <2>1. Answer(c, "error")
    BY <1>1, FailCases
  <2>2. pc'[c] = "done"
    BY <2>1, AnswerMoves
  <2> QED BY <1>1, <2>2, IdleUpload
<1>2. CASE pc[c] \in {"find", "write", "reload"}
  <2>1. Goto(c, "undo") /\ "undo" \in PCs
    BY <1>2, FailCases DEF PCs
  <2>2. pc'[c] = "undo" /\ old'[c] = old[c] /\ account'[c] = account[c]
    BY <2>1, GotoMoves
  <2> QED BY <1>2, <2>2, UploadGoesOn
<1> QED BY <1>1, <1>2

(* The statements that change no avatar.                                   *)
LEMMA LookingAvatars ==
  ASSUME RInv, AInv, NEW c \in Calls, LookingOn(c)
  PROVE  AInv'
<1>1. AvatarFrame(c) /\ kind' = kind
  BY LookingFrame
<1>2. CASE kind[c] # "avatar"
  BY <1>1, <1>2, OtherKinds
<1>3. CASE kind[c] = "avatar"
  <2>1. "avatar" \notin Admin /\ Placed(c)
    BY DEF Admin, RInv, Good
  <2>2. {"account", "put", "write", "drop"} \subseteq PCs
    BY DEF PCs
  <2>3. CASE FindSession(c)
    <3>1. CASE Fail(c)
      BY <1>1, <1>3, <2>3, <3>1, FailAvatars DEF FindSession, At
    <3>2. CASE Goto(c, "account")
      <4>1. pc'[c] = "account" /\ pc[c] = "session"
        BY <2>2, <2>3, <3>2, GotoMoves DEF FindSession, At
      <4> QED BY <1>1, <1>3, <4>1, IdleUpload
    <3> QED BY <2>3, <3>1, <3>2 DEF FindSession
  <2>4. CASE RequireAuth(c)
    <3>1. pc[c] = "account" /\ acted' = acted /\ exist' = exist
      BY <2>4 DEF RequireAuth, At, userVars
    <3>2. CASE Fail(c)
      BY <1>1, <1>3, <3>1, <3>2, FailAvatars
    <3>3. CASE GotoWith(c, "put", Me(c), users[Me(c)].avatar)
      <4>1. Me(c) \in Users
        BY <1>3, <3>1, MeExists DEF Active, Newcomers
      <4>2. users[Me(c)].avatar \in Calls \cup {NoOne}
        BY <4>1 DEF RInv, TypeOK, User
      <4>3. /\ pc'[c] = "put" /\ account'[c] = Me(c) /\ old'[c] = users[Me(c)].avatar
        BY <2>2, <3>3, <4>1, <4>2, GotoWithMoves
      <4> QED BY <1>1, <1>3, <3>1, <4>3, UploadBegins
    <3>4. FirstStep("avatar") = "put"
      BY DEF FirstStep, Admin
    <3> QED BY <1>3, <2>1, <2>4, <3>2, <3>3, <3>4 DEF RequireAuth
  <2>5. CASE FindByID(c)
    <3>1. pc[c] = "find" /\ acted' = acted
      BY <2>5 DEF FindByID, At
    <3>2. CASE Fail(c)
      BY <1>1, <1>3, <3>1, <3>2, FailAvatars
    <3>3. CASE Goto(c, "write")
      <4>1. pc'[c] = "write" /\ old'[c] = old[c] /\ account'[c] = account[c]
        BY <2>2, <3>3, GotoMoves
      <4> QED BY <1>1, <1>3, <3>1, <4>1, UploadGoesOn
    <3> QED BY <2>5, <3>2, <3>3 DEF FindByID
  <2>6. CASE Reload(c)
    <3>1. pc[c] = "reload" /\ acted' = acted /\ Goto(c, "drop")
      BY <1>3, <2>6 DEF Reload, At
    <3>2. pc'[c] = "drop" /\ old'[c] = old[c] /\ account'[c] = account[c]
      BY <2>2, <3>1, GotoMoves
    <3> QED BY <1>1, <1>3, <3>1, <3>2, UploadGoesOn
  <2>7. CASE Audit(c)
    <3>1. pc[c] = "audit" /\ pc'[c] = "done"
      BY <2>7, AnswerMoves DEF Audit, At
    <3> QED BY <1>1, <1>3, <3>1, IdleUpload
  <2>8. CASE StepFails(c)
    <3>1. Fail(c) /\ acted' = acted /\ pc[c] \notin {"idle", "done", "drop", "undo", "audit"}
      BY <2>8 DEF StepFails
    <3>2. pc[c] \in {"session", "account", "put", "find", "write", "reload"}
      <4>1. pc[c] \in PCs
        BY DEF RInv, TypeOK
      <4> QED BY <1>3, <2>1, <3>1, <4>1 DEF Placed, PCs
    <3> QED BY <1>1, <1>3, <3>1, <3>2, FailAvatars
  <2>9. CASE \/ FindByEmail(c) \/ FindBySubject(c) \/ Merged(c) \/ OpenSession(c)
             \/ LookUpSession(c) \/ DeleteSession(c)
    <3>1. pc[c] \in {"byEmail", "bySubject", "merged", "open", "lookup", "delete", "forget"}
      BY <2>9 DEF FindByEmail, FindBySubject, Merged, OpenSession, LookUpSession, DeleteSession, At
    <3> QED BY <1>3, <2>1, <3>1 DEF Placed
  <2> QED BY <2>3, <2>4, <2>5, <2>6, <2>7, <2>8, <2>9 DEF LookingOn
<1> QED BY <1>2, <1>3

(* The UPDATE of an upload.                                                *)
LEMMA WriteAvatars ==
  ASSUME RInv, AInv, NEW c \in Calls, Write(c) \/ AnswerLost(c), kind[c] = "avatar"
  PROVE  AInv'
<1>1. /\ pc[c] = "write" /\ objects' = objects /\ exist' = exist /\ kind' = kind
      /\ kind'[c] = "avatar"
  BY DEF Write, AnswerLost, At
<1>2. Others(c) /\ {"reload", "undo"} \subseteq PCs
  BY LeavesOthers DEF Write, AnswerLost, PCs
<1>3. CASE Change(c)
  <2>1. acted' = [acted EXCEPT ![c] = TRUE] /\ acted \in [Calls -> BOOLEAN]
    BY <1>3 DEF Change, Act, RInv, TypeOK
  <2>2. Apart(c)
    BY <1>1, <1>2, <2>1 DEF Apart
  <2>3. Goto(c, "reload") \/ Goto(c, "undo")
    <3>1. CASE Write(c)
      BY <3>1, <1>1, FailCases DEF Write
    <3>2. CASE AnswerLost(c)
      BY <3>2, <1>1, FailCases DEF AnswerLost
    <3> QED BY <3>1, <3>2
  <2>4. pc'[c] \in {"reload", "undo"} /\ old'[c] = old[c] /\ account'[c] = account[c]
    BY <1>2, <2>3, GotoMoves
  <2> QED BY <1>1, <1>3, <2>2, <2>4, AvatarSet
<1>4. CASE Fail(c) /\ UNCHANGED <<users, excused, acted>>
  <2>1. AvatarFrame(c) /\ acted' = acted
    BY <1>1, <1>2, <1>4, LookFrame DEF userVars
  <2> QED BY <1>1, <1>4, <2>1, FailAvatars
<1> QED BY <1>3, <1>4 DEF Write, AnswerLost

(* The objects an upload deletes, or fails to delete.                      *)
LEMMA DeletionAvatars ==
  ASSUME RInv, AInv, NEW c \in Calls, DropOldAvatar(c) \/ UndoAvatar(c) \/ DeletionFails(c)
  PROVE  AInv'
<1>1. /\ exist' = exist /\ users' = users /\ kind' = kind /\ acted' = acted
  BY DEF DropOldAvatar, UndoAvatar, DeletionFails, userVars
<1>2. pc[c] \in {"drop", "undo"} /\ kind[c] = "avatar" /\ "audit" \in PCs
  BY DEF DropOldAvatar, UndoAvatar, DeletionFails, At, RInv, Good, Placed, PCs
<1>3. /\ Others(c)
      /\ pc[c] = "drop" => Goto(c, "audit")
      /\ pc[c] = "undo" => Answer(c, "error")
  BY LeavesOthers DEF DropOldAvatar, UndoAvatar, DeletionFails, At
<1>4. (pc[c] = "drop" /\ pc'[c] = "audit") \/ (pc[c] = "undo" /\ pc'[c] = "done")
  BY <1>2, <1>3, GotoMoves, AnswerMoves
<1>5. Apart(c)
  BY <1>1, <1>3 DEF Apart
<1>6. objects \in SUBSET Calls /\ NoOne \notin Calls
  BY NamesDiffer DEF RInv, TypeOK, Users
<1>7. /\ excused \subseteq excused' /\ objects' \subseteq objects
      /\ pc[c] = "drop" => objects \ {old[c]} \subseteq objects' /\ old[c] \notin objects' \ excused'
      /\ pc[c] = "undo" => objects \ {c} \subseteq objects' /\ c \notin objects' \ excused'
      /\ pc[c] = "undo" /\ acted[c] => {c, old[c]} \ {NoOne} \subseteq excused'
  <2>1. CASE DropOldAvatar(c)
    BY <2>1 DEF DropOldAvatar, At
  <2>2. CASE UndoAvatar(c)
    BY <2>2 DEF UndoAvatar, At
  <2>3. CASE DeletionFails(c)
    BY <1>6, <2>3 DEF DeletionFails, At
  <2> QED BY <2>1, <2>2, <2>3
<1> QED BY <1>1, <1>2, <1>4, <1>5, <1>7, AvatarGone

(* Crash.                                                                  *)
LEMMA CrashAvatars ==
  ASSUME RInv, AInv, Crash
  PROVE  AInv'
<1>1. /\ exist' = exist /\ users' = users /\ objects' = objects /\ kind' = kind
      /\ acted' = acted
      /\ excused' = excused \cup {a \in objects : \A u \in exist : users[u].avatar # a}
  BY DEF Crash, userVars
<1>2. \A d \in Calls : pc'[d] = "done" \/ (pc'[d] = pc[d] /\ ~Active(d))
  BY DEF Crash, Forget
<1>3. \A d \in Calls : pc'[d] \in {"idle", "done"}
  BY <1>2 DEF Active
<1>4. AvatarsExist' /\ SetOnce'
  BY <1>1 DEF AInv, AvatarsExist, SetOnce
<1>5. ASSUME NEW d \in Calls
      PROVE  OldAvatar(d)' /\ NewAvatar(d)'
  <2>1. NewAvatar(d)
    BY DEF AInv
  <2> QED BY <1>1, <1>2, <1>3, <2>1 DEF OldAvatar, NewAvatar, Active
<1>6. \A a \in objects' \ excused' : KeptFor(a)'
  BY <1>1 DEF KeptFor
<1> QED BY <1>4, <1>5, <1>6 DEF AInv

(* Time passing, and steps of nobody, touch no avatar.                     *)
LEMMA StillAvatars ==
  ASSUME AInv, UNCHANGED <<userVars, objects, excused, kind, pc, account, old, acted>>
  PROVE  AInv'
<1>1. /\ exist' = exist /\ users' = users /\ objects' = objects /\ excused' = excused
      /\ kind' = kind /\ pc' = pc /\ account' = account /\ old' = old /\ acted' = acted
  BY DEF userVars
<1> QED BY <1>1 DEF AInv, AvatarsExist, SetOnce, OldAvatar, NewAvatar, KeptFor, Active

(* Nobody has an avatar at the start.                                      *)
LEMMA InitAvatars == Init => AInv
<1> SUFFICES ASSUME Init
             PROVE  AInv
  OBVIOUS
<1>1. PICK p \in Passwords : users = [u \in Users |-> IF u \in Ids THEN FirstRow(u, p) ELSE Blank]
  BY DEF Init
<1>2. exist = Ids /\ objects = {} /\ \A c \in Calls : kind[c] = "none"
  BY DEF Init, All
<1>3. \A u \in exist : users[u].avatar = NoOne
  BY <1>1, <1>2, FirstRowType DEF Users
<1> QED BY <1>2, <1>3 DEF AInv, AvatarsExist, SetOnce, OldAvatar, NewAvatar

(* Every step keeps it.                                                    *)
LEMMA StepAvatars == RInv /\ AInv /\ [Next]_vars => AInv'
<1> SUFFICES ASSUME RInv, AInv, [Next]_vars
             PROVE  AInv'
  OBVIOUS
<1>1. CASE UNCHANGED vars
  BY <1>1, StillAvatars DEF vars, locals
<1>2. ASSUME NEW t \in Tokens, Expire(t)
      PROVE  AInv'
  BY <1>2, StillAvatars DEF Expire, locals
<1>3. ASSUME NEW c \in Calls, Request(c)
      PROVE  AInv'
  BY <1>3, RequestAvatars
<1>4. ASSUME NEW c \in Calls, LookingOn(c)
      PROVE  AInv'
  BY <1>4, LookingAvatars
<1>5. ASSUME NEW c \in Calls, Create(c) \/ SetSubject(c) \/ Write(c) \/ AnswerLost(c)
      PROVE  AInv'
  <2>1. CASE kind[c] = "avatar" /\ (Write(c) \/ AnswerLost(c))
    BY <2>1, WriteAvatars
  <2>2. CASE ~(kind[c] = "avatar" /\ (Write(c) \/ AnswerLost(c)))
    BY <1>5, <2>2, RowFrame, OtherKinds
  <2> QED BY <2>1, <2>2
<1>6. ASSUME NEW c \in Calls, PutAvatar(c)
      PROVE  AInv'
  BY <1>6, PutAvatarKeeps
<1>7. ASSUME NEW c \in Calls, DropOldAvatar(c) \/ UndoAvatar(c) \/ DeletionFails(c)
      PROVE  AInv'
  BY <1>7, DeletionAvatars
<1>8. CASE Next
  BY <1>2, <1>3, <1>4, <1>5, <1>6, <1>7, <1>8, CrashAvatars DEF Next, Works, LookingOn
<1> QED BY <1>1, <1>8

(* In every reachable state an avatar belongs to the one upload that set   *)
(* it, and an object in the bucket is there for a reason.                  *)
THEOREM AvatarInvariant == Spec => []AInv
BY InitAvatars, StepAvatars, AccountInvariant, PTL DEF Spec

(* UpdateAvatar deletes the avatar it read at first, however uploads of an *)
(* account overlap: never the one the account has.                         *)
THEOREM AvatarsAreThere == Spec => []AvatarsExist
<1>1. AInv => AvatarsExist
  BY DEF AInv
<1> QED BY <1>1, AvatarInvariant, PTL

(* UpdateAvatar leaves no object behind but by an overlap or an error.     *)
THEOREM ObjectsAreAccounted == Spec => []AvatarsAccounted
BY AvatarsKept, AccountInvariant, AvatarInvariant, PTL

-----------------------------------------------------------------------------
(* What steps may not do.                                                  *)

(* Accounts are made by an INSERT and changed by an UPDATE.                *)
LEMMA RowsChange ==
  ASSUME [Next]_vars
  PROVE  \/ exist' = exist /\ users' = users
         \/ \E c \in Calls : Create(c) \/ SetSubject(c) \/ Write(c) \/ AnswerLost(c)
<1>1. ASSUME NEW c \in Calls, Request(c)
      PROVE  UNCHANGED userVars
  BY <1>1 DEF Request, Register, Login, Callback, Logout, CurrentAccount, ListSessions,
              ChangePassword, UpdateProfile, UpdateAvatar, ViewAvatar, RevokeSession,
              AdminResetPassword, AdminUpdateUser, WithCookie, Arrive
<1>2. ASSUME NEW c \in Calls, LookingOn(c)
      PROVE  UNCHANGED userVars
  BY <1>2 DEF LookingOn, FindSession, RequireAuth, FindByEmail, FindBySubject, Merged,
              OpenSession, FindByID, Reload, LookUpSession, DeleteSession, Audit, StepFails
<1>3. ASSUME NEW c \in Calls, PutAvatar(c) \/ DropOldAvatar(c) \/ UndoAvatar(c) \/ DeletionFails(c)
      PROVE  UNCHANGED userVars
  BY <1>3 DEF PutAvatar, DropOldAvatar, UndoAvatar, DeletionFails
<1>4. \/ UNCHANGED userVars
      \/ \E c \in Calls : Create(c) \/ SetSubject(c) \/ Write(c) \/ AnswerLost(c)
  <2>1. CASE Next
    BY <1>1, <1>2, <1>3, <2>1 DEF Next, Works, LookingOn, Crash, Expire
  <2> QED BY <2>1 DEF vars
<1> QED BY <1>4 DEF userVars

(* A new account, and a new subject, take the role from nobody.            *)
LEMMA AdminsStay ==
  ASSUME RInv, NEW c \in Calls, Create(c) \/ SetSubject(c)
  PROVE  Admins \subseteq Admins'
<1>1. users \in [Users -> User] /\ exist \subseteq Users
  BY DEF RInv, TypeOK
<1>2. CASE Create(c)
  <2>1. c \notin exist
    BY <1>2 DEF RInv, Good, Fresh, Create, At
  <2>2. \A u \in exist : u \in exist' /\ users'[u] = users[u]
    BY <1>1, <1>2, <2>1 DEF Create, userVars
  <2> QED BY <2>2 DEF Admins
<1>3. CASE SetSubject(c)
  <2> DEFINE row == [users[account[c]] EXCEPT !.subject = input[c].subject]
  <2>1. exist' = exist /\ (users' = users \/ users' = [users EXCEPT ![account[c]] = row])
    BY <1>3 DEF SetSubject
  <2>2. account[c] \in Users
    BY <1>1, <1>3 DEF RInv, Good, Based, SetSubject, At
  <2>3. row.admin = users[account[c]].admin /\ row.disabled = users[account[c]].disabled
    BY <1>1, <2>2 DEF User
  <2> HIDE DEF row
  <2> QED BY <1>1, <2>1, <2>2, <2>3 DEF Admins
<1> QED BY <1>2, <1>3

(* Nor does an UPDATE of another column.                                   *)
LEMMA OthersStay ==
  ASSUME RInv, NEW c \in Calls, pc[c] = "write", Change(c), exist' = exist, kind[c] # "update"
  PROVE  Admins \subseteq Admins'
<1>1. account[c] \in exist /\ users' = [users EXCEPT ![account[c]] = Updated(c)]
  BY ChangeFacts
<1>2. users \in [Users -> User] /\ exist \subseteq Users
  BY DEF RInv, TypeOK
<1>3. users[account[c]] \in User /\ input[c] \in Input
  BY <1>1, <1>2 DEF RInv, TypeOK
<1>4. /\ Updated(c).admin = users[account[c]].admin
      /\ Updated(c).disabled = users[account[c]].disabled
  BY <1>3, UpdatedType
<1> QED BY <1>1, <1>2, <1>4 DEF Admins

(* AdminUpdateUser does not take the role from the one who asks for it.    *)
LEMMA OneselfStays ==
  ASSUME RInv, NEW c \in Calls, kind[c] = "update", pc[c] = "write", Change(c), exist' = exist,
         Me(c) \in Admins
  PROVE  Me(c) \in Admins'
<1> DEFINE u == account[c]
           row == users[u]
           body == input[c]
<1>1. u \in exist /\ users' = [users EXCEPT ![u] = Updated(c)]
  BY ChangeFacts
<1>2. users \in [Users -> User] /\ exist \subseteq Users /\ row \in User /\ body \in Input
  BY <1>1 DEF RInv, TypeOK
<1>3. CASE u # Me(c)
  BY <1>1, <1>2, <1>3 DEF Admins
<1>4. CASE u = Me(c)
  <2>1. body.admin # FALSE /\ body.disabled # TRUE
    BY <1>1, <1>4 DEF RInv, Good, Based
  <2>2. body.admin \in BOOLEAN \cup {NoOne} /\ body.disabled \in BOOLEAN \cup {NoOne}
    BY <1>2 DEF Input, Flag
  <2>3. row.admin = TRUE /\ row.disabled = FALSE
    BY <1>2, <1>4 DEF Admins, User
  <2> DEFINE e == Coalesce(body.email, row.email)
             a == Coalesce(body.admin, row.admin)
             d == Coalesce(body.disabled, row.disabled)
  <2>4. Updated(c) = [row EXCEPT !.email = e, !.admin = a, !.disabled = d]
    BY DEF Updated
  <2>5. a = TRUE /\ d = FALSE
    BY <2>1, <2>2, <2>3 DEF Coalesce
  <2> HIDE DEF e, a, d
  <2>6. Updated(c).admin = a /\ Updated(c).disabled = d
    BY <1>2, <2>4 DEF User
  <2>7. users'[u] = Updated(c)
    BY <1>1, <1>2
  <2>8. users'[u].admin /\ ~users'[u].disabled
    BY <2>5, <2>6, <2>7
  <2> QED BY <1>1, <1>4, <2>8 DEF Admins
<1> QED BY <1>3, <1>4

(* AdminUpdateUser: the last administrator is lost only to one who has     *)
(* ceased to be one since the request began.                               *)
THEOREM LastAdminIsNotLostAlone == Spec => LastAdminStays
<1>1. ASSUME RInv, [Next]_vars, Admins # {}, Admins' = {}
      PROVE  \E c \in Calls : At(c, "write") /\ pc'[c] # "write" /\ Me(c) \notin Admins
  <2>1. ~(exist' = exist /\ users' = users)
    BY <1>1 DEF Admins
  <2>2. PICK c \in Calls : Write(c) \/ AnswerLost(c)
    BY <1>1, <2>1, RowsChange, AdminsStay
  <2>3. pc[c] = "write" /\ exist' = exist /\ Change(c)
    BY <2>1, <2>2 DEF Write, AnswerLost, At
  <2>4. pc'[c] # "write"
    <3>1. Fail(c) \/ Goto(c, "audit") \/ Goto(c, "reload")
      BY <2>2 DEF Write, AnswerLost
    <3>2. {"audit", "reload"} \subseteq PCs
      BY DEF PCs
    <3> QED BY <1>1, <3>1, <3>2, FailMoves, GotoMoves
  <2>5. kind[c] = "update"
    BY <1>1, <2>3, OthersStay
  <2>6. Me(c) \notin Admins
    BY <1>1, <2>3, <2>5, OneselfStays
  <2> QED BY <2>3, <2>4, <2>6 DEF At
<1>2. RInv /\ [Next]_vars => [Admins # {} /\ Admins' = {} =>
        \E c \in Calls : At(c, "write") /\ pc'[c] # "write" /\ Me(c) \notin Admins]_vars
  BY <1>1
<1> QED BY <1>2, AccountInvariant, PTL DEF Spec, LastAdminStays

(* Only DeleteSession ends a session that has not expired.                 *)
LEMMA SessionsChange ==
  ASSUME RInv, [Next]_vars, NEW t \in Tokens, status[t] = "live", status'[t] = "deleted"
  PROVE  \E c \in Calls : DeleteSession(c)
<1>1. status \in [Tokens -> {"none", "live", "expired", "deleted"}] /\ status' # status
  BY DEF RInv, TypeOK
<1>2. ASSUME NEW c \in Calls, Request(c)
      PROVE  FALSE
  BY <1>1, <1>2 DEF Request, Register, Login, Callback, Logout, CurrentAccount, ListSessions,
              ChangePassword, UpdateProfile, UpdateAvatar, ViewAvatar, RevokeSession,
              AdminResetPassword, AdminUpdateUser, WithCookie, Arrive, sessionVars
<1>3. ASSUME NEW c \in Calls, FindSession(c)
      PROVE  FALSE
  BY <1>1, <1>3 DEF FindSession
<1>4. ASSUME NEW c \in Calls, OpenSession(c)
      PROVE  FALSE
  BY <1>1, <1>4 DEF OpenSession
<1>5. ASSUME NEW c \in Calls,
             \/ RequireAuth(c) \/ FindByEmail(c) \/ FindBySubject(c) \/ Merged(c) \/ FindByID(c)
             \/ Reload(c) \/ LookUpSession(c) \/ Audit(c) \/ StepFails(c)
      PROVE  FALSE
  BY <1>1, <1>5 DEF RequireAuth, FindByEmail, FindBySubject, Merged, FindByID, Reload,
                    LookUpSession, Audit, StepFails, sessionVars
<1>6. ASSUME NEW c \in Calls,
             \/ Create(c) \/ SetSubject(c) \/ Write(c) \/ AnswerLost(c) \/ PutAvatar(c)
             \/ DropOldAvatar(c) \/ UndoAvatar(c) \/ DeletionFails(c)
      PROVE  FALSE
  BY <1>1, <1>6 DEF Create, SetSubject, Write, AnswerLost, PutAvatar, DropOldAvatar, UndoAvatar,
                    DeletionFails, sessionVars
<1>7. ASSUME NEW s \in Tokens, Expire(s)
      PROVE  FALSE
  BY <1>1, <1>7 DEF Expire
<1>8. CASE Next
  BY <1>1, <1>2, <1>3, <1>4, <1>5, <1>6, <1>7, <1>8 DEF Next, Works, Crash, sessionVars
<1> QED BY <1>1, <1>8 DEF vars, sessionVars

(* RevokeSession and Logout: a session ends by its own logout, or from     *)
(* another session of its account.                                         *)
THEOREM SessionsAreEndedByOwners == Spec => SessionsEndByTheirOwners
<1>1. ASSUME RInv, [Next]_vars, NEW t \in Tokens, status[t] = "live", status'[t] = "deleted"
      PROVE  \E c \in Calls :
               \/ kind[c] = "logout" /\ token[c] = t
               \/ kind[c] = "revoke" /\ At(c, "delete") /\ token[c] # t /\ Me(c) = owner[t]
  <2>1. PICK c \in Calls : DeleteSession(c)
    BY <1>1, SessionsChange
  <2> DEFINE s == IF kind[c] = "revoke" THEN input[c].on ELSE token[c]
  <2>2. pc[c] \in {"delete", "forget"} /\ status' = [status EXCEPT ![s] = "deleted"]
    BY <2>1 DEF DeleteSession
  <2>3. s = t
    BY <1>1, <2>2 DEF RInv, TypeOK
  <2>4. /\ pc[c] = "delete" => kind[c] \in {"revoke", "logout"}
        /\ pc[c] = "forget" => kind[c] = "logout"
        /\ pc[c] = "delete" /\ kind[c] = "revoke" =>
             owner[input[c].on] = Me(c) /\ input[c].on # token[c]
    BY <1>1 DEF RInv, Good, Placed, Based
  <2> QED BY <2>2, <2>3, <2>4 DEF At
<1>2. RInv /\ [Next]_vars => [\A t \in Tokens : status[t] = "live" /\ status'[t] = "deleted" =>
        \E c \in Calls :
          \/ kind[c] = "logout" /\ token[c] = t
          \/ kind[c] = "revoke" /\ At(c, "delete") /\ token[c] # t /\ Me(c) = owner[t]]_vars
  BY <1>1
<1> QED BY <1>2, AccountInvariant, PTL DEF Spec, SessionsEndByTheirOwners
=============================================================================
