------------------------------ MODULE Accounts ------------------------------
(***************************************************************************)
(* Accounts, sessions and administrators: the requests of                  *)
(* backend/internal/auth (local passwords and OIDC), each a sequence of    *)
(* statements on the users and sessions tables and, for avatars, of        *)
(* requests to the object storage.  Requests run concurrently, without     *)
(* transactions or locks: what one has read may have changed when it       *)
(* writes.                                                                 *)
(*                                                                         *)
(* A request makes at most one account, one session and one avatar object; *)
(* their random ids are abstracted to the request.  The accounts of Ids    *)
(* exist at the start, each with one session, and their e-mail address and *)
(* OIDC subject are named after them.                                      *)
(***************************************************************************)
EXTENDS FiniteSets

CONSTANTS
  Calls,         \* HTTP requests, each made once
  Ids,           \* accounts of the start
  FirstAdmins,   \* those of them somebody made administrators with SQL
  FirstLocal,    \* those of them that have a password, not an OIDC subject
  NewEmails,     \* addresses no account of the start has
  Passwords,     \* passwords somebody may choose or guess
  Changes,       \* the bodies of PATCH /api/admin/users/{id} a run sends
  Kinds,         \* Kinds[c]: the kinds of request c may be
  Faults,        \* events of the environment a run exercises
  NoOne          \* NULL, and a field absent from a body

Users == Ids \cup Calls
Tokens == Users
Emails == Ids \cup NewEmails
Subjects == Emails

Public   == {"register", "login", "callback", "logout"}
Personal == {"me", "list", "viewAvatar", "changePassword", "profile", "avatar", "revoke"}
Admin    == {"reset", "update"}
AllKinds == Public \cup Personal \cup Admin
AllFaults == {"database", "answerLost", "storage", "crash", "expiry"}

Flag == BOOLEAN \cup {NoOne}
ChangeType == [email : Emails \cup {NoOne}, admin : Flag, disabled : Flag]

ASSUME NamesDiffer == NoOne \notin Users \cup Emails \cup Passwords /\ Ids \cap Calls = {}
ASSUME StartKnown == FirstAdmins \subseteq Ids /\ FirstLocal \subseteq Ids
ASSUME RequestsKnown ==
  Kinds \in [Calls -> SUBSET AllKinds] /\ Faults \subseteq AllFaults /\ Changes \subseteq ChangeType

VARIABLES
  exist, users,       \* the rows of users: which there are, and their columns
  status, owner,      \* the rows of sessions, by token
  objects,            \* avatar objects in the bucket
  autoMerge,          \* OIDC_AUTO_MERGE_BY_EMAIL
  kind, pc, result,   \* a request: what it is, its next statement, its answer
  token, input,       \* its cookie and its body
  account, old,       \* the account it works on, the avatar read by RequireAuth
  held,               \* history: the rights it had at some moment
  acted, audit,       \* history: it took effect, what came of its audit row
  excused             \* history: avatars an error separated from their account

userVars == <<exist, users>>
sessionVars == <<status, owner>>
locals == <<token, input, account, old>>
vars == <<userVars, sessionVars, objects, autoMerge, kind, pc, result, locals,
          held, acted, audit, excused>>

User == [email : Emails \cup {NoOne}, local : BOOLEAN, password : Passwords \cup {NoOne},
         subject : Subjects \cup {NoOne}, admin : BOOLEAN, disabled : BOOLEAN,
         avatar : Calls \cup {NoOne}]

Input == [email : Emails \cup {NoOne}, password : Passwords \cup {NoOne},
          proof : Passwords \cup {NoOne}, subject : Subjects \cup {NoOne},
          on : Users \cup {NoOne}, admin : Flag, disabled : Flag]

PCs == {"idle", "session", "account", "create", "byEmail", "bySubject", "merge",
        "merged", "open", "put", "find", "write", "reload", "drop", "undo",
        "lookup", "delete", "forget", "audit", "done"}

Rights == {"session", "enabled", "admin", "password", "identity"}

Blank == [email |-> NoOne, local |-> FALSE, password |-> NoOne, subject |-> NoOne,
          admin |-> FALSE, disabled |-> FALSE, avatar |-> NoOne]
NoInput == [email |-> NoOne, password |-> NoOne, proof |-> NoOne, subject |-> NoOne,
            on |-> NoOne, admin |-> NoOne, disabled |-> NoOne]

TypeOK ==
  /\ exist \in SUBSET Users /\ users \in [Users -> User]
  /\ status \in [Tokens -> {"none", "live", "expired", "deleted"}]
  /\ owner \in [Tokens -> Users \cup {NoOne}]
  /\ objects \in SUBSET Calls /\ autoMerge \in BOOLEAN
  /\ kind \in [Calls -> AllKinds \cup {"none"}] /\ pc \in [Calls -> PCs]
  /\ result \in [Calls -> {"none", "ok", "error"}]
  /\ token \in [Calls -> Tokens \cup {NoOne}] /\ input \in [Calls -> Input]
  /\ account \in [Calls -> Users \cup {NoOne}] /\ old \in [Calls -> Calls \cup {NoOne}]
  /\ held \in [Calls -> SUBSET Rights]
  /\ acted \in [Calls -> BOOLEAN] /\ audit \in [Calls -> {"none", "written", "failed"}]
  /\ excused \in SUBSET Calls
  /\ \A u \in Users \ exist : users[u] = Blank
  /\ \A t \in Tokens : status[t] # "none" => owner[t] \in exist

All(x) == [c \in Calls |-> x]

FirstRow(u, p) ==
  [Blank EXCEPT !.email = u, !.local = u \in FirstLocal, !.admin = u \in FirstAdmins,
                !.password = IF u \in FirstLocal THEN p ELSE NoOne,
                !.subject = IF u \in FirstLocal THEN NoOne ELSE u]

Init ==
  /\ exist = Ids
  /\ \E p \in Passwords : users = [u \in Users |-> IF u \in Ids THEN FirstRow(u, p) ELSE Blank]
  /\ status = [t \in Tokens |-> IF t \in Ids THEN "live" ELSE "none"]
  /\ owner = [t \in Tokens |-> IF t \in Ids THEN t ELSE NoOne]
  /\ objects = {} /\ autoMerge \in BOOLEAN
  /\ kind = All("none") /\ pc = All("idle") /\ result = All("none")
  /\ token = All(NoOne) /\ input = All(NoInput) /\ account = All(NoOne) /\ old = All(NoOne)
  /\ held = All({}) /\ acted = All(FALSE) /\ audit = All("none") /\ excused = {}

-----------------------------------------------------------------------------
(* What the tables say.                                                    *)

Admins == {u \in exist : users[u].admin /\ ~users[u].disabled}

Active(c) == pc[c] \notin {"idle", "done"}
Me(c) == owner[token[c]]

(* Mutation: users_oidc_subject_unique is not created.                     *)
OnlyEmailUnique(u, row) ==
  \A v \in exist \ {u} : row.email # users[v].email

(* The unique indexes on email and oidc_subject let u have this row.       *)
Unique(u, row) ==
  \A v \in exist \ {u} : /\ row.email # users[v].email
                         /\ row.subject # NoOne => row.subject # users[v].subject

(* COALESCE($n, column).                                                   *)
Coalesce(value, column) == IF value = NoOne THEN column ELSE value

(* The rights a request depends on, told from the tables as they are.      *)
Has(c, right) ==
  CASE right = "session" -> token[c] \in Tokens /\ status[token[c]] = "live"
    [] right = "enabled" -> token[c] \in Tokens /\ Me(c) \in exist /\ ~users[Me(c)].disabled
    [] right = "admin" -> token[c] \in Tokens /\ Me(c) \in Admins
    [] right = "password" ->
         \E u \in exist : /\ users[u].local /\ ~users[u].disabled
                          /\ IF kind[c] = "login"
                               THEN users[u].email = input[c].email
                                    /\ users[u].password = input[c].password
                               ELSE token[c] \in Tokens /\ u = Me(c)
                                    /\ users[u].password = input[c].proof
    [] right = "identity" ->
         \/ input[c].email \notin {users[u].email : u \in exist}
         \/ \E u \in exist : /\ ~users[u].disabled
                             /\ \/ users[u].subject = input[c].subject
                                \/ autoMerge /\ users[u].email = input[c].email

Needed(k) ==
  CASE k = "login" -> {"password"}
    [] k = "callback" -> {"identity"}
    [] k = "changePassword" -> {"session", "enabled", "password"}
    [] k \in Admin -> {"session", "enabled", "admin"}
    [] k \in Personal \ {"changePassword"} -> {"session", "enabled"}
    [] OTHER -> {}

(* Every step ends by noting the rights the requests under way now have.   *)
Watch ==
  held' = [c \in Calls |->
    IF pc'[c] \in {"idle", "done"} THEN held[c]
    ELSE held[c] \cup {r \in Needed(kind'[c]) : Has(c, r)'}]

-----------------------------------------------------------------------------
(* How a statement leaves its request.                                     *)

At(c, step) == pc[c] = step

Goto(c, step) ==
  /\ pc' = [pc EXCEPT ![c] = step]
  /\ UNCHANGED <<result, locals>>

(* The account, and the avatar it has, are known from here on.             *)
GotoWith(c, step, u, avatar) ==
  /\ pc' = [pc EXCEPT ![c] = step]
  /\ account' = [account EXCEPT ![c] = u] /\ old' = [old EXCEPT ![c] = avatar]
  /\ UNCHANGED <<result, token, input>>

(* The request ends, and its variables with it.                            *)
Forget(C) ==
  /\ pc' = [c \in Calls |-> IF c \in C THEN "done" ELSE pc[c]]
  /\ token' = [c \in Calls |-> IF c \in C THEN NoOne ELSE token[c]]
  /\ input' = [c \in Calls |-> IF c \in C THEN NoInput ELSE input[c]]
  /\ account' = [c \in Calls |-> IF c \in C THEN NoOne ELSE account[c]]
  /\ old' = [c \in Calls |-> IF c \in C THEN NoOne ELSE old[c]]

Answer(c, answer) ==
  /\ Forget({c})
  /\ result' = [result EXCEPT ![c] = answer]

(* An error: UpdateAvatar deletes the object it stored, everything else    *)
(* answers.  Logout goes on when CurrentUser fails.                        *)
Fail(c) ==
  CASE kind[c] = "avatar" /\ pc[c] \in {"find", "write", "reload"} -> Goto(c, "undo")
    [] kind[c] = "logout" /\ pc[c] \in {"session", "account"} -> Goto(c, "forget")
    [] OTHER -> Answer(c, "error")

Act(c) == acted' = [acted EXCEPT ![c] = TRUE]

-----------------------------------------------------------------------------
(* The requests.  Each handler decodes its body and calls its service; a   *)
(* body it refuses costs no statement and is left out.                     *)

Arrive(c, k, step, t, body) ==
  /\ At(c, "idle") /\ k \in Kinds[c]
  /\ kind' = [kind EXCEPT ![c] = k] /\ pc' = [pc EXCEPT ![c] = step]
  /\ token' = [token EXCEPT ![c] = t] /\ input' = [input EXCEPT ![c] = body]
  /\ UNCHANGED <<userVars, sessionVars, objects, autoMerge, result, account, old,
                 acted, audit, excused>>

(* A request of a browser with a cookie: any token that was ever issued.   *)
WithCookie(c, k, body) ==
  \E t \in Tokens : status[t] # "none" /\ Arrive(c, k, "session", t, body)

Register(c) ==
  \E e \in Emails, p \in Passwords :
    Arrive(c, "register", "create", NoOne, [NoInput EXCEPT !.email = e, !.password = p])

Login(c) ==
  \E e \in Emails, p \in Passwords :
    Arrive(c, "login", "byEmail", NoOne, [NoInput EXCEPT !.email = e, !.password = p])

(* The provider vouches for a profile: any subject with any address.       *)
Callback(c) ==
  \E e \in Emails, s \in Subjects :
    Arrive(c, "callback", "bySubject", NoOne, [NoInput EXCEPT !.email = e, !.subject = s])

(* An id in the path: of an account, or of none.                           *)
Named(c) == exist \cup {c}

Logout(c) == WithCookie(c, "logout", NoInput)
CurrentAccount(c) == WithCookie(c, "me", NoInput)
ListSessions(c) == WithCookie(c, "list", NoInput)

ChangePassword(c) ==
  \E p, q \in Passwords :
    WithCookie(c, "changePassword", [NoInput EXCEPT !.proof = p, !.password = q])

UpdateProfile(c) == WithCookie(c, "profile", NoInput)
UpdateAvatar(c) == WithCookie(c, "avatar", NoInput)
ViewAvatar(c) == \E u \in Named(c) : WithCookie(c, "viewAvatar", [NoInput EXCEPT !.on = u])

RevokeSession(c) ==
  \E s \in Tokens : status[s] # "none" /\ WithCookie(c, "revoke", [NoInput EXCEPT !.on = s])

AdminResetPassword(c) ==
  \E u \in Named(c), p \in Passwords :
    WithCookie(c, "reset", [NoInput EXCEPT !.on = u, !.password = p])

AdminUpdateUser(c) ==
  \E u \in Named(c), b \in Changes :
    WithCookie(c, "update", [NoInput EXCEPT !.on = u, !.email = b.email,
                                            !.admin = b.admin, !.disabled = b.disabled])

Request(c) ==
  \/ Register(c) \/ Login(c) \/ Callback(c) \/ Logout(c) \/ CurrentAccount(c)
  \/ ListSessions(c) \/ ChangePassword(c) \/ UpdateProfile(c) \/ UpdateAvatar(c)
  \/ ViewAvatar(c) \/ RevokeSession(c) \/ AdminResetPassword(c) \/ AdminUpdateUser(c)

-----------------------------------------------------------------------------
(* Service.CurrentUser, called by middleware.RequireAuth, Me and Logout.   *)

(* FindSessionByTokenHash; an expired row is deleted on the way.           *)
FindSession(c) ==
  /\ At(c, "session")
  /\ IF status[token[c]] = "live" THEN Goto(c, "account") ELSE Fail(c)
  /\ status' = [status EXCEPT ![token[c]] = IF @ = "expired" THEN "deleted" ELSE @]
  /\ UNCHANGED <<userVars, owner, objects, autoMerge, kind, acted, audit, excused>>

FirstStep(k) ==
  CASE k \in {"changePassword", "profile"} \cup Admin -> "find"
    [] k = "avatar" -> "put"
    [] k = "revoke" -> "lookup"
    [] k = "logout" -> "delete"
    [] OTHER -> "reload"

(* Mutation: a disabled account keeps its sessions.                        *)
MayEnterDisabled(c) == kind[c] \in Admin => users[Me(c)].admin

(* The account is enabled, and an administrator where the route wants one. *)
MayEnter(c) ==
  /\ ~users[Me(c)].disabled
  /\ kind[c] \in Admin => users[Me(c)].admin

(* FindByID of the session's account: what the handler will see of it.     *)
RequireAuth(c) ==
  /\ At(c, "account")
  /\ IF ~MayEnter(c) THEN Fail(c)
     ELSE IF kind[c] = "me" THEN Answer(c, "ok")
     ELSE GotoWith(c, FirstStep(kind[c]), IF kind[c] \in Admin THEN input[c].on ELSE Me(c),
                   IF kind[c] = "avatar" THEN users[Me(c)].avatar ELSE NoOne)
  /\ UNCHANGED <<userVars, sessionVars, objects, autoMerge, kind, acted, audit, excused>>

-----------------------------------------------------------------------------
(* Accounts and sessions are made.                                         *)

NewRow(c) ==
  [Blank EXCEPT !.email = input[c].email, !.local = kind[c] = "register",
                !.password = input[c].password, !.subject = input[c].subject]

(* Service.Register, and upsertOIDCUser of an unknown profile: the INSERT. *)
Create(c) ==
  /\ At(c, "create")
  /\ IF Unique(c, NewRow(c))
     THEN /\ exist' = exist \cup {c} /\ users' = [users EXCEPT ![c] = NewRow(c)]
          /\ IF kind[c] = "register" THEN Answer(c, "ok") ELSE GotoWith(c, "open", c, NoOne)
     ELSE Fail(c) /\ UNCHANGED userVars
  /\ UNCHANGED <<sessionVars, objects, autoMerge, kind, acted, audit, excused>>

(* Service.Login: enabled, local, and the password is the one given.       *)
MayLogIn(u, body) ==
  /\ ~users[u].disabled /\ users[u].local /\ users[u].password = body.password

(* upsertOIDCUser: a known address is merged if the configuration says so. *)
MayMerge(u) == autoMerge /\ ~users[u].disabled

(* FindByEmail: of Login, and of upsertOIDCUser for an unknown subject.    *)
FindByEmail(c) ==
  /\ At(c, "byEmail")
  /\ \/ \E u \in exist :
          /\ users[u].email = input[c].email
          /\ IF kind[c] = "login"
               THEN IF MayLogIn(u, input[c]) THEN GotoWith(c, "open", u, NoOne) ELSE Fail(c)
               ELSE IF MayMerge(u) THEN GotoWith(c, "merge", u, NoOne) ELSE Fail(c)
     \/ /\ \A u \in exist : users[u].email # input[c].email
        /\ IF kind[c] = "login" THEN Fail(c) ELSE Goto(c, "create")
  /\ UNCHANGED <<userVars, sessionVars, objects, autoMerge, kind, acted, audit, excused>>

(* FindByOIDCSubject, the first read of upsertOIDCUser.                    *)
FindBySubject(c) ==
  /\ At(c, "bySubject")
  /\ \/ \E u \in exist :
          /\ users[u].subject = input[c].subject
          /\ IF users[u].disabled THEN Fail(c) ELSE GotoWith(c, "open", u, NoOne)
     \/ /\ \A u \in exist : users[u].subject # input[c].subject
        /\ Goto(c, "byEmail")
  /\ UNCHANGED <<userVars, sessionVars, objects, autoMerge, kind, acted, audit, excused>>

(* SetOIDCSubject: UPDATE by id, whatever subject the account has by now.  *)
SetSubject(c) ==
  /\ At(c, "merge")
  /\ LET row == [users[account[c]] EXCEPT !.subject = input[c].subject] IN
     IF Unique(account[c], row)
     THEN /\ users' = [users EXCEPT ![account[c]] = row]
          /\ Act(c) /\ Goto(c, "merged")
     ELSE Fail(c) /\ UNCHANGED <<users, acted>>
  /\ UNCHANGED <<exist, sessionVars, objects, autoMerge, kind, audit, excused>>

(* Its FindByID: the account is not looked at again.                       *)
Merged(c) ==
  /\ At(c, "merged")
  /\ Goto(c, "open")
  /\ UNCHANGED <<userVars, sessionVars, objects, autoMerge, kind, acted, audit, excused>>

(* CreateSession of Login and of Callback.                                 *)
OpenSession(c) ==
  /\ At(c, "open")
  /\ status' = [status EXCEPT ![c] = "live"] /\ owner' = [owner EXCEPT ![c] = account[c]]
  /\ Act(c) /\ Goto(c, "audit")
  /\ UNCHANGED <<userVars, objects, autoMerge, kind, audit, excused>>

-----------------------------------------------------------------------------
(* Accounts are changed.  FindByID, the service's checks, one UPDATE.      *)

(* PutObject of the avatar, before the account is looked up.               *)
PutAvatar(c) ==
  /\ At(c, "put")
  /\ objects' = objects \cup {c}
  /\ Goto(c, "find")
  /\ UNCHANGED <<userVars, sessionVars, autoMerge, kind, acted, audit, excused>>

ProvesPassword(u, body) ==
  ~users[u].disabled /\ users[u].local /\ users[u].password = body.proof

MayEditSelf(u) == ~users[u].disabled

HasPassword(u) == u \in exist /\ users[u].local

(* Mutation: no guard against locking oneself out.                         *)
MayUpdateAnyone(c, u, body) ==
  u \in exist /\ (body.email # NoOne => users[u].local)

(* Mutation: ErrUserNotFound is not looked at.                             *)
MayUpdateMissing(c, u, body) ==
  /\ ~(u = Me(c) /\ (body.admin = FALSE \/ body.disabled = TRUE))
  /\ body.email # NoOne => users[u].local

(* Nobody takes away their own role or disables themselves; e-mail and     *)
(* name of an OIDC account belong to the provider.                         *)
MayUpdate(c, u, body) ==
  /\ ~(u = Me(c) /\ (body.admin = FALSE \/ body.disabled = TRUE))
  /\ u \in exist /\ (body.email # NoOne => users[u].local)

FindByID(c) ==
  /\ At(c, "find")
  /\ LET u == account[c]
         fine == CASE kind[c] = "changePassword" -> ProvesPassword(u, input[c])
                   [] kind[c] = "reset" -> HasPassword(u)
                   [] kind[c] = "update" -> MayUpdate(c, u, input[c])
                   [] OTHER -> MayEditSelf(u)
     IN IF fine THEN Goto(c, "write") ELSE Fail(c)
  /\ UNCHANGED <<userVars, sessionVars, objects, autoMerge, kind, acted, audit, excused>>

(* Mutation: a field absent from the body is taken for false.              *)
UpdatedOutright(c) ==
  LET row == users[account[c]]
      body == input[c]
  IN CASE kind[c] \in {"changePassword", "reset"} -> [row EXCEPT !.password = body.password]
       [] kind[c] = "avatar" -> [row EXCEPT !.avatar = c]
       [] kind[c] = "update" ->
            [row EXCEPT !.email = Coalesce(body.email, @), !.admin = body.admin = TRUE,
                        !.disabled = body.disabled = TRUE]
       [] OTHER -> row

(* UpdatePasswordHash, UpdateDisplayName (names are not modelled),         *)
(* UpdateAvatarKey and AdminUpdateUser.                                    *)
Updated(c) ==
  LET row == users[account[c]]
      body == input[c]
  IN CASE kind[c] \in {"changePassword", "reset"} -> [row EXCEPT !.password = body.password]
       [] kind[c] = "avatar" -> [row EXCEPT !.avatar = c]
       [] kind[c] = "update" ->
            [row EXCEPT !.email = Coalesce(body.email, @), !.admin = Coalesce(body.admin, @),
                        !.disabled = Coalesce(body.disabled, @)]
       [] OTHER -> row

(* The row changes.  An avatar that another upload put there since old was *)
(* read will never be deleted.                                             *)
Change(c) ==
  /\ users' = [users EXCEPT ![account[c]] = Updated(c)]
  /\ excused' = IF kind[c] = "avatar" /\ users[account[c]].avatar # old[c]
                THEN excused \cup ({users[account[c]].avatar} \ {NoOne}) ELSE excused
  /\ Act(c)

(* Mutation: the error of the UPDATE is not looked at.                     *)
WriteUnchecked(c) ==
  /\ At(c, "write")
  /\ IF Unique(account[c], Updated(c)) THEN Change(c) ELSE UNCHANGED <<users, excused, acted>>
  /\ Goto(c, IF kind[c] \in {"changePassword", "reset"} THEN "audit" ELSE "reload")
  /\ UNCHANGED <<exist, sessionVars, objects, autoMerge, kind, audit>>

(* The UPDATE by id, without a second look at the account.                 *)
Write(c) ==
  /\ At(c, "write")
  /\ IF Unique(account[c], Updated(c))
     THEN Change(c) /\ Goto(c, IF kind[c] \in {"changePassword", "reset"} THEN "audit" ELSE "reload")
     ELSE Fail(c) /\ UNCHANGED <<users, excused, acted>>
  /\ UNCHANGED <<exist, sessionVars, objects, autoMerge, kind, audit>>

(* The SELECT that makes the answer: FindByID after an UPDATE, the list of *)
(* sessions, the avatar of an account and its object.                      *)
Reload(c) ==
  /\ At(c, "reload")
  /\ CASE kind[c] = "avatar" -> Goto(c, "drop")
       [] kind[c] = "list" -> Answer(c, "ok")
       [] kind[c] = "viewAvatar" ->
            Answer(c, IF input[c].on \in exist /\ users[input[c].on].avatar \in objects
                      THEN "ok" ELSE "error")
       [] OTHER -> Goto(c, "audit")
  /\ UNCHANGED <<userVars, sessionVars, objects, autoMerge, kind, acted, audit, excused>>

(* Mutation: the avatar the account has now is taken for the old one.      *)
DropCurrentAvatar(c) ==
  /\ At(c, "drop")
  /\ objects' = objects \ {users[account[c]].avatar}
  /\ Goto(c, "audit")
  /\ UNCHANGED <<userVars, sessionVars, autoMerge, kind, acted, audit, excused>>

(* DeleteObject of the avatar RequireAuth had read.                        *)
DropOldAvatar(c) ==
  /\ At(c, "drop")
  /\ objects' = objects \ {old[c]}
  /\ Goto(c, "audit")
  /\ UNCHANGED <<userVars, sessionVars, autoMerge, kind, acted, audit, excused>>

(* Mutation: the object of a failed update is left.                        *)
LeaveAvatar(c) ==
  /\ At(c, "undo")
  /\ Answer(c, "error")
  /\ UNCHANGED <<userVars, sessionVars, objects, autoMerge, kind, acted, audit, excused>>

(* DeleteObject of the new avatar, also when its UPDATE took effect: then  *)
(* the account is left with it, and the old one stays in the bucket.       *)
UndoAvatar(c) ==
  /\ At(c, "undo")
  /\ objects' = objects \ {c}
  /\ excused' = IF acted[c] THEN excused \cup ({c, old[c]} \ {NoOne}) ELSE excused
  /\ Answer(c, "error")
  /\ UNCHANGED <<userVars, sessionVars, autoMerge, kind, acted, audit>>

-----------------------------------------------------------------------------
(* Sessions end.                                                           *)

(* Mutation: any session can be revoked.                                   *)
MayRevokeAny(c, s) == s # token[c]

(* Service.RevokeSession: one's own session, and not the current one.      *)
MayRevoke(c, s) == owner[s] = Me(c) /\ s # token[c]

(* FindSessionByID.                                                        *)
LookUpSession(c) ==
  /\ At(c, "lookup")
  /\ IF status[input[c].on] # "deleted" /\ MayRevoke(c, input[c].on)
     THEN Goto(c, "delete") ELSE Fail(c)
  /\ UNCHANGED <<userVars, sessionVars, objects, autoMerge, kind, acted, audit, excused>>

(* DeleteSessionByID and, for Logout, DeleteSessionByTokenHash: no row is  *)
(* no error.  Without an actor Logout leaves no audit row.                 *)
DeleteSession(c) ==
  /\ pc[c] \in {"delete", "forget"}
  /\ LET s == IF kind[c] = "revoke" THEN input[c].on ELSE token[c]
     IN status' = [status EXCEPT ![s] = "deleted"]
  /\ IF pc[c] = "delete" THEN Goto(c, "audit") ELSE Answer(c, "ok")
  /\ Act(c)
  /\ UNCHANGED <<userVars, owner, objects, autoMerge, kind, audit, excused>>

(* recordAudit: an error is only logged.                                   *)
Audit(c) ==
  /\ At(c, "audit")
  /\ \/ audit' = [audit EXCEPT ![c] = "written"]
     \/ "database" \in Faults /\ audit' = [audit EXCEPT ![c] = "failed"]
  /\ Answer(c, "ok")
  /\ UNCHANGED <<userVars, sessionVars, objects, autoMerge, kind, acted, excused>>

-----------------------------------------------------------------------------
(* Failures.                                                               *)

(* A statement or a storage request fails without effect.                  *)
StepFails(c) ==
  /\ pc[c] \notin {"idle", "done", "drop", "undo", "audit"}
  /\ (IF pc[c] = "put" THEN "storage" ELSE "database") \in Faults
  /\ Fail(c)
  /\ UNCHANGED <<userVars, sessionVars, objects, autoMerge, kind, acted, audit, excused>>

(* An UPDATE takes effect but its answer is lost.                          *)
AnswerLost(c) ==
  /\ At(c, "write") /\ "answerLost" \in Faults
  /\ Unique(account[c], Updated(c))
  /\ Change(c) /\ Fail(c)
  /\ UNCHANGED <<exist, sessionVars, objects, autoMerge, kind, audit>>

(* A DeleteObject fails; the error is dropped.                             *)
DeletionFails(c) ==
  /\ pc[c] \in {"drop", "undo"} /\ "storage" \in Faults
  /\ excused' = excused \cup ((IF At(c, "drop") THEN {old[c]} ELSE {c, old[c]}) \ {NoOne})
  /\ IF At(c, "drop") THEN Goto(c, "audit") ELSE Answer(c, "error")
  /\ UNCHANGED <<userVars, sessionVars, objects, autoMerge, kind, acted, audit>>

(* The backend dies with the requests under way.                           *)
Crash ==
  /\ "crash" \in Faults
  /\ Forget({c \in Calls : Active(c)})
  /\ result' = [c \in Calls |-> IF Active(c) THEN "error" ELSE result[c]]
  /\ excused' = excused \cup {a \in objects : \A u \in exist : users[u].avatar # a}
  /\ UNCHANGED <<userVars, sessionVars, objects, autoMerge, kind, acted, audit>>

(* expires_at passes: no matter when, except to a request about to look.   *)
Expire(t) ==
  /\ "expiry" \in Faults /\ status[t] = "live"
  /\ \E c \in Calls : At(c, "session") /\ token[c] = t
  /\ status' = [status EXCEPT ![t] = "expired"]
  /\ UNCHANGED <<userVars, owner, objects, autoMerge, kind, pc, result, locals, acted, audit, excused>>

Works(c) ==
  \/ FindSession(c) \/ RequireAuth(c) \/ Create(c) \/ FindByEmail(c) \/ FindBySubject(c)
  \/ SetSubject(c) \/ Merged(c) \/ OpenSession(c) \/ PutAvatar(c) \/ FindByID(c) \/ Write(c)
  \/ Reload(c) \/ DropOldAvatar(c) \/ UndoAvatar(c) \/ LookUpSession(c) \/ DeleteSession(c)
  \/ Audit(c)

Next ==
  /\ \/ \E c \in Calls : Request(c) \/ Works(c) \/ StepFails(c) \/ AnswerLost(c) \/ DeletionFails(c)
     \/ \E t \in Tokens : Expire(t)
     \/ Crash
  /\ Watch

Spec == Init /\ [][Next]_vars

-----------------------------------------------------------------------------
(* Properties.                                                             *)

(* One account per address and per OIDC subject, although registrations,   *)
(* callbacks and administrators look before they write.                    *)
OneAccountPerIdentity ==
  \A u, v \in exist :
    \/ users[u].email = users[v].email
    \/ users[u].subject = users[v].subject /\ users[u].subject # NoOne
    => u = v

(* Whoever was shut out for as long as a request took - session revoked or *)
(* expired, account disabled, role or password taken away - gets nothing.  *)
EffectsAuthorised ==
  \A c \in Calls : acted[c] \/ result[c] = "ok" => Needed(kind[c]) \subseteq held[c]

(* The avatar of an account is in the bucket, however uploads overlap,     *)
(* unless an error made UpdateAvatar take back one that had been set.      *)
AvatarsExist ==
  \A u \in exist : users[u].avatar # NoOne => users[u].avatar \in objects \cup excused

(* An object in the bucket is somebody's avatar or about to be set or      *)
(* deleted, unless two uploads overlapped or one of them broke off.        *)
AvatarsAccounted ==
  \A a \in objects \ excused :
    \/ \E u \in exist : users[u].avatar = a
    \/ \E c \in Calls : /\ kind[c] = "avatar" /\ Active(c)
                        /\ a = c \/ (a = old[c] /\ pc[c] \in {"reload", "drop", "undo"})

(* The audit log tells of nothing that did not happen, and every change    *)
(* answered with success was offered to it, unless one logs out of a       *)
(* session whose account CurrentUser did not find.                         *)
AuditFollowsEffects ==
  \A c \in Calls :
    /\ audit[c] # "none" => acted[c] /\ result[c] = "ok"
    /\ acted[c] /\ result[c] = "ok" => audit[c] # "none" \/ kind[c] = "logout"

(* The last administrator is lost only to one who has ceased to be one     *)
(* since the request began: alone nobody can lock the system.              *)
LastAdminStays ==
  [][Admins # {} /\ Admins' = {} =>
       \E c \in Calls : At(c, "write") /\ pc'[c] # "write" /\ Me(c) \notin Admins]_vars

(* A session ends by expiring, by its own logout, or by a revocation from  *)
(* another session of the same account.                                    *)
SessionsEndByTheirOwners ==
  [][\A t \in Tokens : status[t] = "live" /\ status'[t] = "deleted" =>
       \E c \in Calls :
         \/ kind[c] = "logout" /\ token[c] = t
         \/ kind[c] = "revoke" /\ At(c, "delete") /\ token[c] # t /\ Me(c) = owner[t]]_vars

(* However the statements of requests interleave and fail, each request is *)
(* bound to one account it shows a right to, and changes no column and no  *)
(* session but those that are its own to change, at most once.             *)
Policy == INSTANCE AccountPolicy
ImplementsAccountPolicy == Policy!Spec

-----------------------------------------------------------------------------
(* docs/admin-console.md:8: administrators cannot lock the system.         *)
SomeAdminRemains == FirstAdmins # {} => Admins # {}

=============================================================================
