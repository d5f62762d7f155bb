--------------------------- MODULE AccountPolicy ---------------------------
(***************************************************************************)
(* What authentication promises, whatever the statements it is made of: a  *)
(* request is bound once, to the account whose cookie, password or OIDC    *)
(* identity it shows or to the one an administrator names.  It then        *)
(* changes that account once and only in its own columns, opens a session  *)
(* of it, or ends one; and it is answered with success for nothing else.   *)
(***************************************************************************)
CONSTANTS Calls, Users, NoOne

VARIABLES
  exist, users, status, owner, autoMerge,        \* accounts, sessions, setting
  kind, token, input, account, acted, result     \* requests

request == <<token, input, account, result>>
vars == <<exist, users, status, owner, autoMerge, kind, acted, request>>

Asked == {c \in Calls : kind[c] # "none" /\ result[c] = "none"}
Caller(c) == owner[token[c]]

LetIn(c) ==
  /\ status[token[c]] # "none" /\ ~users[Caller(c)].disabled
  /\ kind[c] \in {"reset", "update"} => users[Caller(c)].admin

(* u is the account request c is for.                                      *)
IsFor(c, u) ==
  CASE kind[c] = "login" ->
         /\ u \in exist /\ ~users[u].disabled /\ users[u].local
         /\ users[u].email = input[c].email /\ users[u].password = input[c].password
    [] kind[c] = "callback" ->
         /\ u \in exist /\ ~users[u].disabled
         /\ \/ users[u].subject = input[c].subject
            \/ autoMerge /\ users[u].email = input[c].email
    [] kind[c] \in {"reset", "update"} -> LetIn(c) /\ u = input[c].on
    [] OTHER -> kind[c] # "register" /\ LetIn(c) /\ u = Caller(c)

IdentitiesDiffer ==
  \A u, v \in exist :
    u # v => /\ users[u].email # users[v].email
             /\ users[u].subject # NoOne => users[u].subject # users[v].subject

(* The columns of an account a request may change, and what to.            *)
Columns(c) ==
  CASE kind[c] \in {"changePassword", "reset"} -> {"password"}
    [] kind[c] = "avatar" -> {"avatar"}
    [] kind[c] = "callback" -> {"subject"}
    [] kind[c] = "update" -> {f \in {"email", "admin", "disabled"} : input[c][f] # NoOne}
    [] OTHER -> {}
Given(c, f) == IF f = "avatar" THEN c ELSE input[c][f]

(* Passwords and addresses are those of local accounts; nobody takes away  *)
(* their own role or disables themselves.                                  *)
MayChange(c, u) ==
  /\ kind[c] \in {"changePassword", "reset", "avatar", "profile", "callback", "update"}
  /\ kind[c] = "callback" => autoMerge
  /\ kind[c] # "callback" /\ Columns(c) \cap {"password", "email"} # {} => users[u].local
  /\ kind[c] = "update" /\ u = Caller(c) => input[c].admin # FALSE /\ input[c].disabled # TRUE

-----------------------------------------------------------------------------
GoesOn == UNCHANGED request

(* Requests C end with one answer, and what they asked for with them.      *)
Over(C, answer) ==
  /\ result' = [c \in Calls |-> IF c \in C THEN answer ELSE result[c]]
  /\ account' = [c \in Calls |-> IF c \in C THEN NoOne ELSE account[c]]
  /\ token' = [c \in Calls |-> IF c \in C THEN token'[c] ELSE token[c]]
  /\ input' = [c \in Calls |-> IF c \in C THEN input'[c] ELSE input[c]]

Init ==
  /\ IdentitiesDiffer /\ \A c \in Calls : c \notin exist /\ status[c] = "none"
  /\ kind = [c \in Calls |-> "none"] /\ account = [c \in Calls |-> NoOne]
  /\ result = [c \in Calls |-> "none"] /\ acted = [c \in Calls |-> FALSE]

Ask(c) ==
  /\ kind[c] = "none" /\ kind' = [kind EXCEPT ![c] = kind'[c]] /\ kind'[c] # "none"
  /\ kind'[c] \in {"register", "login", "callback"} \/ status[token'[c]] # "none"
  /\ token' = [token EXCEPT ![c] = token'[c]] /\ input' = [input EXCEPT ![c] = input'[c]]
  /\ UNCHANGED <<exist, users, status, owner, autoMerge, account, acted, result>>

Bind(c, u) ==
  /\ c \in Asked /\ account[c] = NoOne /\ IsFor(c, u)
  /\ account' = [account EXCEPT ![c] = u]
  /\ UNCHANGED <<exist, users, status, owner, autoMerge, kind, acted, token, input, result>>

SignUp(c) ==
  /\ c \in Asked /\ kind[c] \in {"register", "callback"} /\ account[c] = NoOne
  /\ c \notin exist /\ exist' = exist \cup {c}
  /\ users' = [users EXCEPT ![c] = users'[c]]
  /\ \A f \in {"email", "password", "subject"} : users'[c][f] = input[c][f]
  /\ users'[c].local <=> kind[c] = "register"
  /\ ~users'[c].admin /\ ~users'[c].disabled /\ users'[c].avatar = NoOne
  /\ IdentitiesDiffer'
  /\ \/ kind[c] = "register" /\ Over({c}, "ok")
     \/ /\ kind[c] = "callback" /\ account' = [account EXCEPT ![c] = c]
        /\ UNCHANGED <<token, input, result>>
  /\ UNCHANGED <<status, owner, autoMerge, kind, acted>>

Change(c) ==
  /\ c \in Asked /\ ~acted[c] /\ account[c] \in exist /\ MayChange(c, account[c])
  /\ users' = [users EXCEPT ![account[c]] = [f \in DOMAIN @ |->
                 IF f \in Columns(c) THEN Given(c, f) ELSE @[f]]]
  /\ IdentitiesDiffer'
  /\ acted' = [acted EXCEPT ![c] = TRUE]
  /\ GoesOn \/ Over({c}, "error")
  /\ UNCHANGED <<exist, status, owner, autoMerge, kind>>

OpenSession(c) ==
  /\ c \in Asked /\ kind[c] \in {"login", "callback"} /\ account[c] \in exist
  /\ status[c] = "none" /\ status' = [status EXCEPT ![c] = "live"]
  /\ owner' = [owner EXCEPT ![c] = account[c]]
  /\ acted' = [acted EXCEPT ![c] = TRUE]
  /\ GoesOn /\ UNCHANGED <<exist, users, autoMerge, kind>>

MayEnd(c, t) ==
  \/ kind[c] = "logout" /\ t = token[c]
  \/ /\ kind[c] = "revoke" /\ t = input[c].on /\ t # token[c]
     /\ account[c] = Caller(c) /\ owner[t] = Caller(c)

EndSession(c, t) ==
  /\ c \in Asked /\ ~acted[c] /\ MayEnd(c, t)
  /\ status' = [status EXCEPT ![t] = "deleted"]
  /\ acted' = [acted EXCEPT ![c] = TRUE]
  /\ GoesOn \/ (kind[c] = "logout" /\ Over({c}, "ok"))
  /\ UNCHANGED <<exist, users, owner, autoMerge, kind>>

Expire(t) ==
  /\ status[t] = "live" /\ status' = [status EXCEPT ![t] = "expired"]
  /\ GoesOn /\ UNCHANGED <<exist, users, owner, autoMerge, kind, acted>>

(* An expired session goes when somebody shows it.                         *)
Sweep(c) ==
  /\ c \in Asked /\ token[c] # NoOne /\ status[token[c]] = "expired"
  /\ status' = [status EXCEPT ![token[c]] = "deleted"]
  /\ GoesOn \/ Over({c}, "error")
  /\ UNCHANGED <<exist, users, owner, autoMerge, kind, acted>>

Deserved(c) ==
  CASE kind[c] = "me" -> LetIn(c)
    [] kind[c] \in {"list", "viewAvatar"} -> account[c] = Caller(c)
    [] OTHER -> acted[c]

Finish(c) ==
  /\ c \in Asked /\ Deserved(c) /\ Over({c}, "ok")
  /\ UNCHANGED <<exist, users, status, owner, autoMerge, kind, acted>>

Refuse(C) ==
  /\ Over(C, "error")
  /\ UNCHANGED <<exist, users, status, owner, autoMerge, kind, acted>>

Next ==
  \/ \E c \in Calls :
       \/ Ask(c) \/ SignUp(c) \/ Change(c) \/ OpenSession(c) \/ Sweep(c) \/ Finish(c)
       \/ \E u \in Users : Bind(c, u)
       \/ \E t \in Users : EndSession(c, t)
  \/ \E t \in Users : Expire(t)
  \/ \E C \in SUBSET Asked : Refuse(C)

Spec == Init /\ [][Next]_vars

=============================================================================
