------------------------ MODULE AccountPolicyProofs ------------------------
(***************************************************************************)
(* Accounts implements AccountPolicy.                                      *)
(*                                                                         *)
(* The abstract state is part of the concrete one; what has to be shown is *)
(* that every statement is a step of the policy, or none.  That rests on   *)
(* the invariant of AccountsProofs and on one more about the account a     *)
(* request is bound to: there is none before it is found, and what the     *)
(* service found of it (a local account, the setting) still holds when it  *)
(* is written.                                                             *)
(***************************************************************************)
EXTENDS AccountsProofs

(* A local account needs to have been found for these.                     *)
LocalOnly(c) ==
  \/ kind[c] \in {"changePassword", "reset"}
  \/ kind[c] = "update" /\ input[c].email # NoOne

Unbound == {"idle", "session", "account", "bySubject", "byEmail", "create"}

Bound(c) ==
  /\ pc[c] = "idle" => kind[c] = "none"
  /\ pc[c] \in Unbound => account[c] = NoOne
  /\ pc[c] = "merge" => autoMerge
  /\ pc[c] = "write" /\ LocalOnly(c) => users[account[c]].local

BInv == \A c \in Calls : Bound(c)

-----------------------------------------------------------------------------
(* Whether an account is local is settled when it is made.                 *)
LocalStays == \A u \in exist : u \in exist' /\ users'[u].local = users[u].local

(* No UPDATE writes that column.                                           *)
LEMMA UpdatedLocal ==
  ASSUME NEW c \in Calls, users[account[c]] \in User, input[c] \in Input
  PROVE  Updated(c).local = users[account[c]].local
BY DEF Updated, User, Input

(* Nor does any other step.                                                *)
LEMMA StepLocal == RInv /\ [Next]_vars => LocalStays
<1> SUFFICES ASSUME RInv, [Next]_vars PROVE LocalStays
  OBVIOUS
<1>1. users \in [Users -> User] /\ exist \subseteq Users
  BY DEF RInv, TypeOK
<1>2. CASE exist' = exist /\ users' = users
  BY <1>2 DEF LocalStays
<1>3. ASSUME NEW c \in Calls, Create(c)
      PROVE  LocalStays
  <2>1. c \notin exist
    BY <1>3 DEF RInv, Good, Fresh, Create, At
  <2> QED BY <1>1, <1>3, <2>1 DEF Create, userVars, LocalStays
<1>4. ASSUME NEW c \in Calls, SetSubject(c)
      PROVE  LocalStays
  <2> DEFINE row == [users[account[c]] EXCEPT !.subject = input[c].subject]
  <2>1. exist' = exist /\ (users' = users \/ users' = [users EXCEPT ![account[c]] = row])
    BY <1>4 DEF SetSubject
  <2>2. account[c] \in Users
    BY <1>1, <1>4 DEF RInv, Good, Based, SetSubject, At
  <2>3. row.local = users[account[c]].local
    BY <1>1, <2>2 DEF User
  <2> HIDE DEF row
  <2> QED BY <1>1, <2>1, <2>2, <2>3 DEF LocalStays
<1>5. ASSUME NEW c \in Calls, Write(c) \/ AnswerLost(c)
      PROVE  LocalStays
  <2>1. exist' = exist /\ (users' = users \/ Change(c)) /\ pc[c] = "write"
    BY <1>5 DEF Write, AnswerLost, At
  <2>2. CASE Change(c)
    <3>1. account[c] \in exist /\ users' = [users EXCEPT ![account[c]] = Updated(c)]
      BY <2>1, <2>2, ChangeFacts
    <3>2. users[account[c]] \in User /\ input[c] \in Input
      BY <1>1, <3>1 DEF RInv, TypeOK
    <3> QED BY <1>1, <2>1, <3>1, <3>2, UpdatedLocal DEF LocalStays
  <2> QED BY <2>1, <2>2 DEF LocalStays
<1> QED BY <1>2, <1>3, <1>4, <1>5, RowsChange

(* A statement is about one request, in the setting as it is.              *)
LEMMA OneRequest ==
  ASSUME RInv, NEW c \in Calls,
         Works(c) \/ StepFails(c) \/ AnswerLost(c) \/ DeletionFails(c)
  PROVE  Others(c) /\ kind' = kind /\ autoMerge' = autoMerge /\ Active(c)
<1>1. CASE FindSession(c) \/ RequireAuth(c) \/ FindByEmail(c) \/ FindBySubject(c) \/ Merged(c)
  BY <1>1, LeavesOthers DEF FindSession, RequireAuth, FindByEmail, FindBySubject, Merged, At, Active
<1>2. CASE Create(c) \/ SetSubject(c) \/ OpenSession(c) \/ FindByID(c) \/ Write(c)
  BY <1>2, LeavesOthers DEF Create, SetSubject, OpenSession, FindByID, Write, At, Active
<1>3. CASE PutAvatar(c) \/ Reload(c) \/ DropOldAvatar(c) \/ UndoAvatar(c) \/ LookUpSession(c)
  BY <1>3, LeavesOthers DEF PutAvatar, Reload, DropOldAvatar, UndoAvatar, LookUpSession, At, Active
<1>4. CASE \/ DeleteSession(c) \/ Audit(c) \/ StepFails(c) \/ AnswerLost(c) \/ DeletionFails(c)
  BY <1>4, LeavesOthers DEF DeleteSession, Audit, StepFails, AnswerLost, DeletionFails, At, Active
<1> QED BY <1>1, <1>2, <1>3, <1>4 DEF Works

(* What is known of the account of a request left alone stays true.        *)
LEMMA BoundKept ==
  ASSUME RInv, LocalStays, NEW d \in Calls, Bound(d), Still(d), kind'[d] = kind[d],
         autoMerge' = autoMerge
  PROVE  Bound(d)'
<1>1. pc[d] = "write" => account[d] \in exist
  BY DEF RInv, Good, Based
<1> QED BY <1>1 DEF Bound, Still, LocalOnly, LocalStays

(* At most statements nothing is claimed of the account.                   *)
LEMMA BoundElsewhere ==
  ASSUME NEW c \in Calls, pc'[c] \notin Unbound \cup {"merge", "write"}
  PROVE  Bound(c)'
BY DEF Bound, Unbound

(* A statement that fails, or leads to the answer, leads there.            *)
LEMMA FailElsewhere ==
  ASSUME RInv, NEW c \in Calls, Fail(c)
  PROVE  Bound(c)'
<1>1. pc'[c] \in {"done", "undo", "forget"}
  BY FailMoves
<1> QED BY <1>1, BoundElsewhere DEF Unbound

(* So does one that is answered, and one that goes on past its account.    *)
LEMMA GotoElsewhere ==
  ASSUME RInv, NEW c \in Calls, NEW step,
         \/ Answer(c, step)
         \/ Goto(c, step) /\ step \in PCs \ (Unbound \cup {"merge", "write"})
  PROVE  Bound(c)'
<1>1. pc \in [Calls -> PCs]
  BY DEF RInv, TypeOK
<1>2. CASE Answer(c, step)
  <2>1. pc'[c] = "done"
    BY <1>2 DEF Answer, Forget
  <2> QED BY <2>1, BoundElsewhere DEF Unbound
<1>3. CASE Goto(c, step) /\ step \in PCs \ (Unbound \cup {"merge", "write"})
  <2>1. pc'[c] = step
    BY <1>1, <1>3 DEF Goto
  <2> QED BY <1>3, <2>1, BoundElsewhere
<1> QED BY <1>2, <1>3

(* Statements whose request is bound, or not asked for an account yet.     *)
LEMMA LaterBound ==
  ASSUME RInv, NEW c \in Calls,
         \/ Merged(c) \/ OpenSession(c) \/ Reload(c) \/ DropOldAvatar(c) \/ UndoAvatar(c)
         \/ LookUpSession(c) \/ DeleteSession(c) \/ Audit(c) \/ SetSubject(c) \/ Write(c)
         \/ StepFails(c) \/ AnswerLost(c) \/ DeletionFails(c) \/ PutAvatar(c)
  PROVE  Bound(c)'
<1>1. {"open", "find", "reload", "drop", "audit", "delete", "merged"}
        \subseteq PCs \ (Unbound \cup {"merge", "write"})
  BY DEF PCs, Unbound
<1>2. CASE Merged(c) \/ OpenSession(c) \/ Reload(c) \/ DropOldAvatar(c) \/ UndoAvatar(c) \/ PutAvatar(c)
  <2>1. (\E step : Answer(c, step)) \/ Goto(c, "open") \/ Goto(c, "audit") \/ Goto(c, "drop") \/ Goto(c, "find")
    BY <1>2 DEF Merged, OpenSession, Reload, DropOldAvatar, UndoAvatar, PutAvatar
  <2> QED BY <1>1, <2>1, GotoElsewhere
<1>3. CASE LookUpSession(c) \/ DeleteSession(c) \/ Audit(c) \/ DeletionFails(c)
  <2>1. (\E step : Answer(c, step)) \/ Goto(c, "delete") \/ Goto(c, "audit") \/ Fail(c)
    BY <1>3 DEF LookUpSession, DeleteSession, Audit, DeletionFails
  <2> QED BY <1>1, <2>1, GotoElsewhere, FailElsewhere
<1>4. CASE SetSubject(c) \/ Write(c) \/ StepFails(c) \/ AnswerLost(c)
  <2>1. Fail(c) \/ Goto(c, "merged") \/ Goto(c, "audit") \/ Goto(c, "reload")
    BY <1>4 DEF SetSubject, Write, StepFails, AnswerLost
  <2> QED BY <1>1, <2>1, GotoElsewhere, FailElsewhere
<1> QED BY <1>2, <1>3, <1>4

(* Statements that find the account, or go on to look for it.              *)
LEMMA FinderBound ==
  ASSUME RInv, BInv, NEW c \in Calls,
         \/ FindSession(c) \/ RequireAuth(c) \/ Create(c) \/ FindByEmail(c) \/ FindBySubject(c)
         \/ FindByID(c)
  PROVE  Bound(c)'
<1>1. /\ pc \in [Calls -> PCs] /\ account \in [Calls -> Users \cup {NoOne}] /\ Bound(c)
      /\ kind' = kind /\ autoMerge' = autoMerge
  BY DEF RInv, TypeOK, BInv, FindSession, RequireAuth, Create, FindByEmail, FindBySubject, FindByID
<1>2. CASE Fail(c)
  BY <1>2, FailElsewhere
<1>3. ASSUME NEW step \in {"account", "create", "byEmail"}, Goto(c, step), pc[c] \in Unbound
      PROVE  Bound(c)'
  BY <1>1, <1>3 DEF Bound, Unbound, Goto, locals
<1>4. ASSUME NEW step, NEW u, NEW a, GotoWith(c, step, u, a),
             step \notin Unbound \cup {"merge", "write"}
      PROVE  Bound(c)'
  <2>1. pc'[c] = step
    BY <1>1, <1>4 DEF GotoWith
  <2> QED BY <1>4, <2>1, BoundElsewhere
<1>5. CASE FindSession(c)
  BY <1>2, <1>3, <1>5 DEF FindSession, At, Unbound
<1>6. CASE RequireAuth(c)
  <2>1. kind[c] \in AllKinds \ Newcomers
    BY <1>6 DEF RequireAuth, At, RInv, Good, Placed, Asked, Active
  <2>2. FirstStep(kind[c]) \in {"find", "put", "lookup", "delete", "reload"}
    BY <2>1 DEF FirstStep, AllKinds, Public, Personal, Admin, Newcomers
  <2>3. FirstStep(kind[c]) \notin Unbound \cup {"merge", "write"}
    BY <2>2 DEF Unbound
  <2> QED BY <1>2, <1>4, <1>6, <2>3, GotoElsewhere DEF RequireAuth
<1>7. CASE Create(c)
  <2>1. Fail(c) \/ Answer(c, "ok") \/ GotoWith(c, "open", c, NoOne)
    BY <1>7 DEF Create
  <2>2. "open" \notin Unbound \cup {"merge", "write"}
    BY DEF Unbound
  <2> QED BY <1>2, <1>4, <2>1, <2>2, GotoElsewhere
<1>8. CASE FindByEmail(c)
  <2>1. \/ Fail(c) \/ Goto(c, "create") \/ (\E u \in exist : GotoWith(c, "open", u, NoOne))
        \/ autoMerge /\ \E u \in exist : GotoWith(c, "merge", u, NoOne)
    BY <1>8 DEF FindByEmail, MayMerge
  <2>2. ASSUME NEW u \in exist, GotoWith(c, "merge", u, NoOne), autoMerge
        PROVE  Bound(c)'
    BY <1>1, <2>2 DEF Bound, Unbound, GotoWith
  <2>3. "open" \notin Unbound \cup {"merge", "write"} /\ "byEmail" \in Unbound
    BY DEF Unbound
  <2> QED BY <1>2, <1>3, <1>4, <1>8, <2>1, <2>2, <2>3 DEF FindByEmail, At
<1>9. CASE FindBySubject(c)
  <2>1. \/ Fail(c) \/ Goto(c, "byEmail") \/ \E u \in exist : GotoWith(c, "open", u, NoOne)
    BY <1>9 DEF FindBySubject
  <2>2. "open" \notin Unbound \cup {"merge", "write"} /\ "bySubject" \in Unbound
    BY DEF Unbound
  <2> QED BY <1>2, <1>3, <1>4, <1>9, <2>1, <2>2 DEF FindBySubject, At
<1>10. CASE FindByID(c) /\ ~Fail(c)
  <2>1. Goto(c, "write") /\ users' = users
    BY <1>10 DEF FindByID, userVars
  <2>2. LocalOnly(c) => users[account[c]].local
    BY <1>10 DEF FindByID, LocalOnly, ProvesPassword, HasPassword, MayUpdate
  <2>3. pc'[c] = "write" /\ account' = account /\ input' = input
    BY <1>1, <2>1 DEF Goto, locals
  <2> QED BY <1>1, <2>1, <2>2, <2>3 DEF Bound, LocalOnly, Unbound
<1> QED BY <1>2, <1>5, <1>6, <1>7, <1>8, <1>9, <1>10

(* A request that comes in has shown nothing yet.                          *)
Comes(c) ==
  \E k, step, t, body :
    /\ step \in Unbound \ {"idle"} /\ Arrive(c, k, step, t, body)
    /\ k \in Newcomers \/ status[t] # "none"

(* All requests come in like that.                                         *)
LEMMA RequestComes ==
  ASSUME NEW c \in Calls, Request(c)
  PROVE  Comes(c)
<1>1. ASSUME NEW k, NEW body, WithCookie(c, k, body)
      PROVE  Comes(c)
  BY <1>1 DEF WithCookie, Comes, Unbound
<1>2. ASSUME NEW k \in Newcomers, NEW step \in {"create", "byEmail", "bySubject"}, NEW body,
             Arrive(c, k, step, NoOne, body)
      PROVE  Comes(c)
  BY <1>2 DEF Comes, Unbound
<1>3. CASE Register(c) \/ Login(c) \/ Callback(c)
  <2> HIDE DEF Comes
  <2>1. {"register", "login", "callback"} \subseteq Newcomers
    BY DEF Newcomers
  <2> QED BY <1>2, <1>3, <2>1 DEF Register, Login, Callback
<1>4. CASE \/ Logout(c) \/ CurrentAccount(c) \/ ListSessions(c) \/ ChangePassword(c)
           \/ UpdateProfile(c) \/ UpdateAvatar(c) \/ ViewAvatar(c) \/ RevokeSession(c)
           \/ AdminResetPassword(c) \/ AdminUpdateUser(c)
  BY <1>1, <1>4 DEF Logout, CurrentAccount, ListSessions, ChangePassword, UpdateProfile,
       UpdateAvatar, ViewAvatar, RevokeSession, AdminResetPassword, AdminUpdateUser
<1> QED BY <1>3, <1>4 DEF Request

(* A request that comes in is not bound, and binds no other.               *)
LEMMA RequestBound ==
  ASSUME RInv, BInv, LocalStays, NEW c \in Calls, Request(c)
  PROVE  BInv'
<1>1. PICK k, step, t, body : step \in Unbound \ {"idle"} /\ Arrive(c, k, step, t, body)
  BY RequestComes DEF Comes
<1>2. ASSUME NEW d \in Calls \ {c} PROVE Bound(d)'
  <2>1. Still(d) /\ kind'[d] = kind[d] /\ autoMerge' = autoMerge /\ Bound(d)
    BY <1>1 DEF Arrive, Still, RInv, TypeOK, BInv
  <2> QED BY <2>1, BoundKept
<1>3. Bound(c)'
  <2>1. /\ pc'[c] = step /\ step # "idle" /\ step \in Unbound
        /\ account'[c] = account[c] /\ account[c] = NoOne
    BY <1>1 DEF Arrive, At, RInv, TypeOK, BInv, Bound, Unbound
  <2> QED BY <2>1 DEF Bound, Unbound
<1> QED BY <1>2, <1>3 DEF BInv

(* The invariant is kept.                                                  *)
LEMMA StepBound == RInv /\ BInv /\ [Next]_vars => BInv'
<1> SUFFICES ASSUME RInv, BInv, [Next]_vars PROVE BInv'
  OBVIOUS
<1>1. LocalStays
  BY StepLocal
<1>2. ASSUME NEW c \in Calls, Works(c) \/ StepFails(c) \/ AnswerLost(c) \/ DeletionFails(c)
      PROVE  BInv'
  <2>1. ASSUME NEW d \in Calls \ {c} PROVE Bound(d)'
    <3>1. Still(d) /\ kind'[d] = kind[d] /\ autoMerge' = autoMerge /\ Bound(d)
      BY <1>2, OneRequest DEF Others, BInv
    <3> QED BY <1>1, <3>1, BoundKept
  <2>2. Bound(c)'
    BY <1>2, LaterBound, FinderBound DEF Works
  <2> QED BY <2>1, <2>2 DEF BInv
<1>3. ASSUME UNCHANGED <<userVars, autoMerge, kind, pc, result, locals>>
      PROVE  BInv'
  BY <1>3 DEF BInv, Bound, LocalOnly, userVars, locals
<1>4. CASE Crash
  <2>1. ASSUME NEW d \in Calls PROVE Bound(d)'
    <3>1. CASE Active(d)
      <4>1. pc'[d] = "done"
        BY <1>4, <3>1 DEF Crash, Forget
      <4> QED BY <4>1, BoundElsewhere DEF Unbound
    <3>2. CASE ~Active(d)
      BY <1>4, <3>2 DEF Crash, Forget, Active, BInv, Bound, Unbound
    <3> QED BY <3>1, <3>2
  <2> QED BY <2>1 DEF BInv
<1>5. ASSUME NEW t \in Tokens, Expire(t)
      PROVE  BInv'
  BY <1>3, <1>5 DEF Expire
<1>6. CASE UNCHANGED vars
  BY <1>3, <1>6 DEF vars
<1> QED BY <1>1, <1>2, <1>4, <1>5, <1>6, RequestBound DEF Next

(* It holds at the start.                                                  *)
LEMMA InitBound == Init => BInv
BY DEF Init, All, BInv, Bound, Unbound

(* A request is bound once, and what was found of its account then still   *)
(* holds when it is written.                                               *)
THEOREM BoundInvariant == Spec => []BInv
BY InitBound, StepBound, AccountInvariant, PTL DEF Spec

-----------------------------------------------------------------------------
(* The refinement: what the policy makes of a statement.                   *)

Allowed == Policy!Next \/ UNCHANGED Policy!vars

(* Only requests change.                                                   *)
Settled == UNCHANGED <<userVars, sessionVars, autoMerge, kind, acted>>

(* The unique indexes are the policy's identities.                         *)
LEMMA Identities ==
  /\ OneAccountPerIdentity => Policy!IdentitiesDiffer
  /\ OneAccountPerIdentity' => Policy!IdentitiesDiffer'
BY DEF OneAccountPerIdentity, Policy!IdentitiesDiffer

(* A request under way has been asked and not answered.                    *)
LEMMA ActiveAsked ==
  ASSUME RInv, NEW c \in Calls, Active(c)
  PROVE  c \in Policy!Asked
<1>1. kind[c] \in AllKinds /\ result[c] = "none"
  BY DEF RInv, Good, Asked, Told, Active
<1>2. "none" \notin AllKinds
  BY DEF AllKinds, Public, Personal, Admin
<1> QED BY <1>1, <1>2 DEF Policy!Asked

(* Its cookie, if it came with one, is of an account.                      *)
LEMMA CookieFacts ==
  ASSUME RInv, NEW c \in Calls, Active(c), kind[c] \notin Newcomers
  PROVE  /\ token[c] \in Tokens /\ token[c] # NoOne /\ status[token[c]] # "none"
         /\ Me(c) \in exist /\ Me(c) \in Users /\ Policy!Caller(c) = Me(c)
<1>1. token[c] \in Tokens /\ status[token[c]] # "none"
  BY DEF RInv, Good, Asked
<1> QED BY <1>1, NamesDiffer DEF RInv, TypeOK, Me, Tokens, Policy!Caller

(* A request that goes on has ended nothing.                               *)
LEMMA GotoGoesOn ==
  ASSUME NEW c \in Calls, NEW step, Goto(c, step)
  PROVE  Policy!GoesOn
BY DEF Goto, locals, Policy!GoesOn, Policy!request

(* Its answer ends it.                                                     *)
LEMMA AnswerOver ==
  ASSUME RInv, NEW c \in Calls, NEW answer, Answer(c, answer)
  PROVE  Policy!Over({c}, answer)
BY DEF RInv, TypeOK, Answer, Forget, Policy!Over

(* An error does either.                                                   *)
LEMMA FailEnds ==
  ASSUME RInv, NEW c \in Calls, Fail(c)
  PROVE  Policy!GoesOn \/ Policy!Over({c}, "error")
BY FailCases, GotoGoesOn, AnswerOver

(* A statement that only leads to another is none of the policy's.         *)
LEMMA GoesOnAllowed ==
  ASSUME Settled, Policy!GoesOn
  PROVE  Allowed
BY DEF Settled, userVars, sessionVars, Policy!GoesOn, Allowed, Policy!vars

(* One that only answers with an error is a refusal.                       *)
LEMMA RefusalAllowed ==
  ASSUME RInv, NEW c \in Calls, Active(c), Settled, Policy!Over({c}, "error")
  PROVE  Allowed
<1>1. {c} \in SUBSET Policy!Asked
  BY ActiveAsked
<1>2. Policy!Refuse({c})
  BY DEF Settled, userVars, sessionVars, Policy!Refuse
<1> QED BY <1>1, <1>2 DEF Allowed, Policy!Next

(* So is one that fails without effect.                                    *)
LEMMA FailAllowed ==
  ASSUME RInv, NEW c \in Calls, Active(c), Settled, Fail(c)
  PROVE  Allowed
BY FailEnds, GoesOnAllowed, RefusalAllowed

(* One that only answers with success must have deserved it.               *)
LEMMA SuccessAllowed ==
  ASSUME RInv, NEW c \in Calls, Active(c), Settled, Policy!Deserved(c), Answer(c, "ok")
  PROVE  Allowed
<1>1. Policy!Finish(c)
  BY ActiveAsked, AnswerOver DEF Settled, userVars, sessionVars, Policy!Finish
<1> QED BY <1>1 DEF Allowed, Policy!Next

(* One that finds the account it is for binds the request to it.           *)
LEMMA BindAllowed ==
  ASSUME RInv, NEW c \in Calls, Active(c), Settled, account[c] = NoOne, NEW u \in Users,
         Policy!IsFor(c, u), NEW step, NEW a, GotoWith(c, step, u, a)
  PROVE  Allowed
<1>1. Policy!Bind(c, u)
  BY ActiveAsked DEF Settled, userVars, sessionVars, GotoWith, Policy!Bind
<1> QED BY <1>1 DEF Allowed, Policy!Next

(* CurrentUser: a session is looked at, and swept if it has expired.       *)
LEMMA FindSessionAllowed ==
  ASSUME RInv, NEW c \in Calls, FindSession(c)
  PROVE  Allowed
<1>1. Active(c) /\ kind[c] \notin Newcomers
  BY DEF FindSession, At, Active, RInv, Good, Placed
<1>2. Goto(c, "account") \/ Fail(c)
  BY DEF FindSession
<1>3. Policy!GoesOn \/ Policy!Over({c}, "error")
  BY <1>2, GotoGoesOn, FailEnds
<1>4. /\ UNCHANGED <<exist, users, owner, autoMerge, kind, acted>>
      /\ status' = [status EXCEPT ![token[c]] = IF @ = "expired" THEN "deleted" ELSE @]
  BY DEF FindSession, userVars
<1>5. token[c] \in Tokens /\ token[c] # NoOne /\ status \in [Tokens -> {"none", "live", "expired", "deleted"}]
  BY <1>1, CookieFacts DEF RInv, TypeOK
<1>6. CASE status[token[c]] = "expired"
  <2>1. Policy!Sweep(c)
    BY <1>1, <1>3, <1>4, <1>5, <1>6, ActiveAsked DEF Policy!Sweep
  <2> QED BY <2>1 DEF Allowed, Policy!Next
<1>7. CASE status[token[c]] # "expired"
  <2>1. status' = status
    BY <1>4, <1>5, <1>7
  <2>2. Settled
    BY <1>4, <2>1 DEF Settled, userVars, sessionVars
  <2> QED BY <1>1, <1>3, <2>2, GoesOnAllowed, RefusalAllowed
<1> QED BY <1>6, <1>7

(* RequireAuth: from here on the request is bound.                         *)
LEMMA RequireAuthAllowed ==
  ASSUME RInv, BInv, NEW c \in Calls, RequireAuth(c)
  PROVE  Allowed
<1>1. /\ Active(c) /\ kind[c] \in AllKinds \ Newcomers /\ account[c] = NoOne
      /\ Settled
  BY DEF RequireAuth, At, Active, RInv, Good, Placed, Asked, BInv, Bound, Unbound, Settled
<1>2. /\ Me(c) \in Users /\ Policy!Caller(c) = Me(c) /\ status[token[c]] # "none"
  BY <1>1, CookieFacts
<1>3. CASE ~MayEnter(c)
  BY <1>1, <1>3, FailAllowed DEF RequireAuth
<1>4. ASSUME MayEnter(c) PROVE Policy!LetIn(c)
  BY <1>2, <1>4 DEF MayEnter, Policy!LetIn, Admin
<1>5. CASE MayEnter(c) /\ kind[c] = "me"
  <2>1. Answer(c, "ok") /\ Policy!Deserved(c)
    BY <1>4, <1>5 DEF RequireAuth, Policy!Deserved
  <2> QED BY <1>1, <2>1, SuccessAllowed
<1>6. CASE MayEnter(c) /\ kind[c] # "me"
  <2>1. PICK step, u, a :
          GotoWith(c, step, u, a) /\ u = IF kind[c] \in Admin THEN input[c].on ELSE Me(c)
    BY <1>6 DEF RequireAuth
  <2>2. u \in Users \cup {NoOne}
    BY <1>2, <2>1 DEF RInv, TypeOK, Input
  <2>3. CASE u = NoOne
    <3>1. account' = account
      BY <1>1, <2>1, <2>3 DEF GotoWith, RInv, TypeOK
    <3>2. Policy!GoesOn
      BY <2>1, <3>1 DEF GotoWith, Policy!GoesOn, Policy!request
    <3> QED BY <1>1, <3>2, GoesOnAllowed
  <2>4. CASE u \in Users
    <3>1. Policy!IsFor(c, u)
      BY <1>1, <1>2, <1>4, <1>6, <2>1 DEF Policy!IsFor, Newcomers, Admin
    <3> QED BY <1>1, <2>1, <2>4, <3>1, BindAllowed
  <2> QED BY <2>2, <2>3, <2>4
<1> QED BY <1>3, <1>5, <1>6

(* The INSERT of a new account.                                            *)
LEMMA CreateAllowed ==
  ASSUME RInv, RInv', BInv, NEW c \in Calls, Create(c)
  PROVE  Allowed
<1>1. /\ Active(c) /\ account[c] = NoOne /\ c \notin exist /\ c \in Users
      /\ kind[c] \in {"register", "callback"} /\ users \in [Users -> User]
      /\ UNCHANGED <<sessionVars, autoMerge, kind, acted>>
  BY DEF Create, At, Active, RInv, TypeOK, Good, Placed, Fresh, BInv, Bound, Unbound, Users
<1>2. CASE Fail(c) /\ UNCHANGED userVars
  BY <1>1, <1>2, FailAllowed DEF Settled
<1>3. CASE exist' = exist \cup {c} /\ users' = [users EXCEPT ![c] = NewRow(c)]
           /\ IF kind[c] = "register" THEN Answer(c, "ok") ELSE GotoWith(c, "open", c, NoOne)
  <2>1. users' = [users EXCEPT ![c] = users'[c]] /\ users'[c] = NewRow(c)
    BY <1>1, <1>3
  <2>2. /\ \A f \in {"email", "password", "subject"} : NewRow(c)[f] = input[c][f]
        /\ NewRow(c).local <=> kind[c] = "register"
        /\ ~NewRow(c).admin /\ ~NewRow(c).disabled /\ NewRow(c).avatar = NoOne
    BY DEF NewRow, Blank
  <2>3. Policy!IdentitiesDiffer'
    BY Identities DEF RInv
  <2>4. \/ kind[c] = "register" /\ Policy!Over({c}, "ok")
        \/ /\ kind[c] = "callback" /\ account' = [account EXCEPT ![c] = c]
           /\ UNCHANGED <<token, input, result>>
    BY <1>1, <1>3, AnswerOver DEF GotoWith
  <2>5. Policy!SignUp(c)
    BY <1>1, <1>3, <2>1, <2>2, <2>3, <2>4, ActiveAsked DEF Policy!SignUp, sessionVars
  <2> QED BY <2>5 DEF Allowed, Policy!Next
<1> QED BY <1>2, <1>3 DEF Create

(* Login and callback find the account of an address.                      *)
LEMMA FindByEmailAllowed ==
  ASSUME RInv, BInv, NEW c \in Calls, FindByEmail(c)
  PROVE  Allowed
<1>1. /\ Active(c) /\ account[c] = NoOne /\ kind[c] \in {"login", "callback"} /\ Settled
      /\ exist \subseteq Users
  BY DEF FindByEmail, At, Active, RInv, TypeOK, Good, Placed, BInv, Bound, Unbound, Settled
<1>2. CASE Fail(c)
  BY <1>1, <1>2, FailAllowed
<1>3. CASE Goto(c, "create")
  BY <1>1, <1>3, GotoGoesOn, GoesOnAllowed
<1>4. ASSUME NEW u \in exist, NEW step, GotoWith(c, step, u, NoOne),
             users[u].email = input[c].email,
             \/ kind[c] = "login" /\ MayLogIn(u, input[c])
             \/ kind[c] = "callback" /\ MayMerge(u)
      PROVE  Allowed
  <2>1. Policy!IsFor(c, u)
    BY <1>4 DEF MayLogIn, MayMerge, Policy!IsFor
  <2> QED BY <1>1, <1>4, <2>1, BindAllowed
<1> QED BY <1>1, <1>2, <1>3, <1>4 DEF FindByEmail

(* A callback finds the account of a subject.                              *)
LEMMA FindBySubjectAllowed ==
  ASSUME RInv, BInv, NEW c \in Calls, FindBySubject(c)
  PROVE  Allowed
<1>1. /\ Active(c) /\ account[c] = NoOne /\ kind[c] = "callback" /\ Settled
      /\ exist \subseteq Users
  BY DEF FindBySubject, At, Active, RInv, TypeOK, Good, Placed, BInv, Bound, Unbound, Settled
<1>2. CASE Fail(c)
  BY <1>1, <1>2, FailAllowed
<1>3. CASE Goto(c, "byEmail")
  BY <1>1, <1>3, GotoGoesOn, GoesOnAllowed
<1>4. ASSUME NEW u \in exist, GotoWith(c, "open", u, NoOne), ~users[u].disabled,
             users[u].subject = input[c].subject
      PROVE  Allowed
  <2>1. Policy!IsFor(c, u)
    BY <1>1, <1>4 DEF Policy!IsFor
  <2> QED BY <1>1, <1>4, <2>1, BindAllowed
<1> QED BY <1>2, <1>3, <1>4 DEF FindBySubject

(* A row after an UPDATE, as the policy says it.                           *)
Rewritten(c) ==
  [f \in DOMAIN users[account[c]] |->
     IF f \in Policy!Columns(c) THEN Policy!Given(c, f) ELSE users[account[c]][f]]

(* It is what the UPDATE of each kind of request makes of it.              *)
LEMMA UpdatedRow ==
  ASSUME NEW c \in Calls, users[account[c]] \in User,
         kind[c] \in {"changePassword", "reset", "avatar", "profile", "update"}
  PROVE  Updated(c) = Rewritten(c)
<1> DEFINE row == users[account[c]]
<1>1. CASE kind[c] \in {"changePassword", "reset"}
  <2>1. Updated(c) = [row EXCEPT !.password = input[c].password]
    BY <1>1 DEF Updated
  <2>2. Policy!Columns(c) = {"password"}
    BY <1>1 DEF Policy!Columns
  <2> QED BY <2>1, <2>2 DEF User, Rewritten, Policy!Given
<1>2. CASE kind[c] = "avatar"
  <2>1. Updated(c) = [row EXCEPT !.avatar = c]
    BY <1>2 DEF Updated
  <2>2. Policy!Columns(c) = {"avatar"}
    BY <1>2 DEF Policy!Columns
  <2> QED BY <2>1, <2>2 DEF User, Rewritten, Policy!Given
<1>3. CASE kind[c] = "profile"
  <2>1. Updated(c) = row /\ Policy!Columns(c) = {}
    BY <1>3 DEF Updated, Policy!Columns
  <2> QED BY <2>1 DEF User, Rewritten
<1>4. CASE kind[c] = "update"
  <2>1. Updated(c) = [row EXCEPT !.email = Coalesce(input[c].email, @),
                                 !.admin = Coalesce(input[c].admin, @),
                                 !.disabled = Coalesce(input[c].disabled, @)]
    BY <1>4 DEF Updated
  <2>2. Policy!Columns(c) = {f \in {"email", "admin", "disabled"} : input[c][f] # NoOne}
    BY <1>4 DEF Policy!Columns
  <2> QED BY <2>1, <2>2 DEF User, Rewritten, Policy!Given, Coalesce
<1> QED BY <1>1, <1>2, <1>3, <1>4

(* SetOIDCSubject likewise.                                                *)
LEMMA MergedRow ==
  ASSUME NEW c \in Calls, users[account[c]] \in User, kind[c] = "callback"
  PROVE  [users[account[c]] EXCEPT !.subject = input[c].subject] = Rewritten(c)
<1>1. Policy!Columns(c) = {"subject"}
  BY DEF Policy!Columns
<1> QED BY <1>1 DEF User, Rewritten, Policy!Given

(* An UPDATE the policy allows.                                            *)
LEMMA ChangeAllowed ==
  ASSUME RInv, RInv', NEW c \in Calls, Active(c), ~acted[c], account[c] \in exist,
         Policy!MayChange(c, account[c]),
         users' = [users EXCEPT ![account[c]] = Rewritten(c)],
         acted' = [acted EXCEPT ![c] = TRUE],
         Policy!GoesOn \/ Policy!Over({c}, "error"),
         UNCHANGED <<exist, sessionVars, autoMerge, kind>>
  PROVE  Allowed
<1>1. Policy!IdentitiesDiffer'
  BY Identities DEF RInv
<1>2. account[c] \in Users /\ users \in [Users -> User]
  BY DEF RInv, TypeOK
<1>3. Policy!Change(c)
  BY <1>1, <1>2, ActiveAsked DEF Rewritten, Policy!Change, sessionVars
<1> QED BY <1>3 DEF Allowed, Policy!Next

(* A callback's is allowed: merging is on, and it has changed nothing yet. *)
LEMMA SetSubjectAllowed ==
  ASSUME RInv, RInv', BInv, NEW c \in Calls, SetSubject(c)
  PROVE  Allowed
<1>1. /\ Active(c) /\ ~acted[c] /\ account[c] \in exist /\ kind[c] = "callback" /\ autoMerge
      /\ UNCHANGED <<exist, sessionVars, autoMerge, kind>>
  BY DEF SetSubject, At, Active, RInv, Good, Placed, Based, Told, BInv, Bound
<1>2. CASE Fail(c) /\ UNCHANGED <<users, acted>>
  <2>1. Settled
    BY <1>1, <1>2 DEF Settled, userVars
  <2> QED BY <1>1, <1>2, <2>1, FailAllowed
<1> DEFINE row == [users[account[c]] EXCEPT !.subject = input[c].subject]
<1>3. CASE users' = [users EXCEPT ![account[c]] = row] /\ Act(c) /\ Goto(c, "merged")
  <2>1. users[account[c]] \in User
    BY <1>1 DEF RInv, TypeOK
  <2>2. row = Rewritten(c)
    BY <1>1, <2>1, MergedRow
  <2>3. Policy!MayChange(c, account[c])
    BY <1>1 DEF Policy!MayChange
  <2> HIDE DEF row
  <2> QED BY <1>1, <1>3, <2>2, <2>3, GotoGoesOn, ChangeAllowed DEF Act
<1> QED BY <1>2, <1>3 DEF SetSubject

(* So are the others: what FindByID saw of the account still holds.        *)
LEMMA WriteAllowed ==
  ASSUME RInv, RInv', BInv, NEW c \in Calls, Write(c) \/ AnswerLost(c)
  PROVE  Allowed
<1>1. /\ Active(c) /\ pc[c] = "write" /\ ~acted[c] /\ account[c] \in exist
      /\ kind[c] \in {"changePassword", "reset", "avatar", "profile", "update"}
      /\ UNCHANGED <<exist, sessionVars, autoMerge, kind>>
  BY DEF Write, AnswerLost, At, Active, RInv, Good, Placed, Based, Told, Admin
<1>2. CASE Fail(c) /\ UNCHANGED <<users, excused, acted>>
  <2>1. Settled
    BY <1>1, <1>2 DEF Settled, userVars
  <2> QED BY <1>1, <1>2, <2>1, FailAllowed
<1>3. CASE Change(c) /\ (Fail(c) \/ \E step : Goto(c, step))
  <2>1. users[account[c]] \in User
    BY <1>1 DEF RInv, TypeOK
  <2>2. users' = [users EXCEPT ![account[c]] = Rewritten(c)] /\ acted' = [acted EXCEPT ![c] = TRUE]
    BY <1>1, <1>3, <2>1, UpdatedRow DEF Change, Act
  <2>3. Policy!MayChange(c, account[c])
    <3>1. Policy!Columns(c) \cap {"password", "email"} # {} => LocalOnly(c)
      BY <1>1 DEF Policy!Columns, LocalOnly
    <3>2. LocalOnly(c) => users[account[c]].local
      BY <1>1 DEF BInv, Bound
    <3>3. kind[c] = "update" /\ account[c] = Policy!Caller(c) =>
            input[c].admin # FALSE /\ input[c].disabled # TRUE
      BY <1>1 DEF RInv, Good, Based, Me, Policy!Caller
    <3> QED BY <1>1, <3>1, <3>2, <3>3 DEF Policy!MayChange
  <2>4. Policy!GoesOn \/ Policy!Over({c}, "error")
    BY <1>3, FailEnds, GotoGoesOn
  <2> QED BY <1>1, <2>2, <2>3, <2>4, ChangeAllowed
<1> QED BY <1>2, <1>3 DEF Write, AnswerLost

(* CreateSession, of the account the request is bound to.                  *)
LEMMA OpenSessionAllowed ==
  ASSUME RInv, NEW c \in Calls, OpenSession(c)
  PROVE  Allowed
<1>1. /\ Active(c) /\ kind[c] \in {"login", "callback"} /\ account[c] \in exist
      /\ status[c] = "none"
  BY DEF OpenSession, At, Active, RInv, Good, Placed, Based, Fresh
<1>2. Policy!OpenSession(c)
  BY <1>1, ActiveAsked, GotoGoesOn DEF OpenSession, Act, userVars, Policy!OpenSession
<1> QED BY <1>2 DEF Allowed, Policy!Next

(* DELETE of a session: the request's own, or another of the same account. *)
LEMMA DeleteSessionAllowed ==
  ASSUME RInv, NEW c \in Calls, DeleteSession(c)
  PROVE  Allowed
<1> DEFINE t == IF kind[c] = "revoke" THEN input[c].on ELSE token[c]
<1>1. /\ Active(c) /\ ~acted[c] /\ kind[c] \in {"revoke", "logout"}
      /\ pc[c] = "forget" => kind[c] = "logout"
      /\ kind[c] = "revoke" => pc[c] = "delete"
  BY DEF DeleteSession, Active, RInv, Good, Placed, Told
<1>2. kind[c] \notin Newcomers
  BY <1>1 DEF Newcomers
<1>3. token[c] \in Users /\ Policy!Caller(c) = Me(c)
  BY <1>1, <1>2, CookieFacts DEF Tokens
<1>4. t \in Users /\ Policy!MayEnd(c, t)
  <2>1. CASE kind[c] = "logout"
    BY <1>3, <2>1 DEF Policy!MayEnd
  <2>2. CASE kind[c] = "revoke"
    <3>1. /\ input[c].on \in Tokens /\ account[c] = Me(c)
          /\ owner[input[c].on] = Me(c) /\ input[c].on # token[c]
      BY <1>1, <2>2 DEF RInv, Good, Asked, Based, Personal
    <3> QED BY <1>3, <2>2, <3>1 DEF Tokens, Policy!MayEnd
  <2> QED BY <1>1, <2>1, <2>2
<1>5. Policy!GoesOn \/ (kind[c] = "logout" /\ Policy!Over({c}, "ok"))
  BY <1>1, GotoGoesOn, AnswerOver DEF DeleteSession
<1>6. /\ status' = [status EXCEPT ![t] = "deleted"] /\ acted' = [acted EXCEPT ![c] = TRUE]
      /\ UNCHANGED <<exist, users, owner, autoMerge, kind>>
  BY DEF DeleteSession, Act, userVars
<1> HIDE DEF t
<1>7. Policy!EndSession(c, t)
  BY <1>1, <1>4, <1>5, <1>6, ActiveAsked DEF Policy!EndSession
<1> QED BY <1>4, <1>7 DEF Allowed, Policy!Next

(* The SELECT that makes the answer.                                       *)
LEMMA ReloadAllowed ==
  ASSUME RInv, NEW c \in Calls, Reload(c)
  PROVE  Allowed
<1>1. /\ Active(c) /\ Settled
      /\ kind[c] \in {"profile", "avatar", "update", "list", "viewAvatar"}
  BY DEF Reload, At, Active, RInv, Good, Placed, Settled
<1>2. CASE \E step : Goto(c, step)
  BY <1>1, <1>2, GotoGoesOn, GoesOnAllowed
<1>3. CASE Answer(c, "error")
  BY <1>1, <1>3, AnswerOver, RefusalAllowed
<1>4. CASE Answer(c, "ok") /\ kind[c] \in {"list", "viewAvatar"}
  <2>1. account[c] = Me(c) /\ kind[c] \notin Newcomers
    BY <1>1, <1>4 DEF Reload, At, RInv, Good, Based, Personal, Newcomers
  <2>2. Policy!Deserved(c)
    BY <1>1, <1>4, <2>1, CookieFacts DEF Policy!Deserved
  <2> QED BY <1>1, <1>4, <2>2, SuccessAllowed
<1>5. \/ \E step : Goto(c, step)
      \/ kind[c] \in {"list", "viewAvatar"} /\ (Answer(c, "ok") \/ Answer(c, "error"))
  BY <1>1 DEF Reload
<1> QED BY <1>2, <1>3, <1>4, <1>5

(* The audit row, and the answer: the request has done what it is for.     *)
LEMMA AuditAllowed ==
  ASSUME RInv, NEW c \in Calls, Audit(c)
  PROVE  Allowed
<1>1. Active(c) /\ Settled /\ acted[c] /\ kind[c] \notin Silent
  BY DEF Audit, At, Active, RInv, Good, Placed, Told, Settled
<1>2. Policy!Deserved(c)
  BY <1>1 DEF Policy!Deserved, Silent
<1> QED BY <1>1, <1>2, SuccessAllowed DEF Audit

(* Statements that touch neither accounts nor sessions.                    *)
LEMMA ElsewhereAllowed ==
  ASSUME RInv, NEW c \in Calls,
         \/ Merged(c) \/ PutAvatar(c) \/ FindByID(c) \/ DropOldAvatar(c) \/ UndoAvatar(c)
         \/ LookUpSession(c) \/ StepFails(c) \/ DeletionFails(c)
  PROVE  Allowed
<1>1. CASE Merged(c) \/ PutAvatar(c) \/ FindByID(c) \/ DropOldAvatar(c)
  <2>1. Active(c) /\ Settled /\ (Fail(c) \/ \E step : Goto(c, step))
    BY <1>1 DEF Merged, PutAvatar, FindByID, DropOldAvatar, At, Active, Settled
  <2> QED BY <2>1, FailAllowed, GotoGoesOn, GoesOnAllowed
<1>2. CASE LookUpSession(c) \/ StepFails(c)
  <2>1. Active(c) /\ Settled /\ (Fail(c) \/ \E step : Goto(c, step))
    BY <1>2 DEF LookUpSession, StepFails, At, Active, Settled
  <2> QED BY <2>1, FailAllowed, GotoGoesOn, GoesOnAllowed
<1>3. CASE UndoAvatar(c) \/ DeletionFails(c)
  <2>1. Active(c) /\ Settled /\ (Answer(c, "error") \/ \E step : Goto(c, step))
    BY <1>3 DEF UndoAvatar, DeletionFails, At, Active, Settled
  <2> QED BY <2>1, AnswerOver, RefusalAllowed, GotoGoesOn, GoesOnAllowed
<1> QED BY <1>1, <1>2, <1>3

(* A crash refuses whatever is under way.                                  *)
LEMMA CrashAllowed == ASSUME RInv, Crash PROVE Allowed
<1> DEFINE C == {c \in Calls : Active(c)}
<1>1. C \in SUBSET Policy!Asked
  BY ActiveAsked
<1>2. Policy!Over(C, "error")
  BY DEF Crash, Forget, Policy!Over
<1>3. Policy!Refuse(C)
  BY <1>2 DEF Crash, userVars, sessionVars, Policy!Refuse
<1> HIDE DEF C
<1> QED BY <1>1, <1>3 DEF Allowed, Policy!Next

(* A session expires.                                                      *)
LEMMA ExpireAllowed == ASSUME RInv, NEW t \in Tokens, Expire(t) PROVE Allowed
<1>1. Policy!Expire(t) /\ t \in Users
  BY DEF Expire, userVars, locals, Tokens, Policy!Expire, Policy!GoesOn, Policy!request
<1> QED BY <1>1 DEF Allowed, Policy!Next

(* A request is asked once, with a cookie there was or without one.        *)
LEMMA RequestAllowed ==
  ASSUME RInv, BInv, NEW c \in Calls, Request(c)
  PROVE  Allowed
<1>1. PICK k, step, t, body :
        Arrive(c, k, step, t, body) /\ (k \in Newcomers \/ status[t] # "none")
  BY RequestComes DEF Comes
<1>2. /\ kind' = [kind EXCEPT ![c] = k] /\ token' = [token EXCEPT ![c] = t]
      /\ input' = [input EXCEPT ![c] = body] /\ k \in Kinds[c] /\ pc[c] = "idle"
      /\ UNCHANGED <<exist, users, status, owner, autoMerge, account, acted, result>>
  BY <1>1 DEF Arrive, At, userVars, sessionVars
<1>3. kind'[c] = k /\ token'[c] = t /\ input'[c] = body
  BY <1>2 DEF RInv, TypeOK
<1>4. k \in AllKinds /\ "none" \notin AllKinds /\ kind[c] = "none"
  BY <1>2, RequestsKnown DEF AllKinds, Public, Personal, Admin, BInv, Bound
<1>5. Policy!Ask(c)
  BY <1>1, <1>2, <1>3, <1>4 DEF Policy!Ask, Newcomers
<1> QED BY <1>5 DEF Allowed, Policy!Next

(* Every step is one of the policy's, or none.                             *)
LEMMA StepAllowed == RInv /\ RInv' /\ BInv /\ [Next]_vars => Allowed
<1> SUFFICES ASSUME RInv, RInv', BInv, [Next]_vars PROVE Allowed
  OBVIOUS
<1>1. CASE UNCHANGED vars
  BY <1>1 DEF vars, userVars, sessionVars, locals, Allowed, Policy!vars, Policy!request
<1>2. ASSUME NEW c \in Calls, Works(c) PROVE Allowed
  BY <1>2, FindSessionAllowed, RequireAuthAllowed, CreateAllowed, FindByEmailAllowed,
     FindBySubjectAllowed, SetSubjectAllowed, WriteAllowed, OpenSessionAllowed,
     DeleteSessionAllowed, ReloadAllowed, AuditAllowed, ElsewhereAllowed DEF Works
<1> QED BY <1>1, <1>2, RequestAllowed, WriteAllowed, ElsewhereAllowed, CrashAllowed,
           ExpireAllowed DEF Next

(* The start is the policy's: no request, and accounts named apart.        *)
LEMMA InitAllowed == Init => Policy!Init
<1> SUFFICES ASSUME Init PROVE Policy!Init
  OBVIOUS
<1>1. Policy!IdentitiesDiffer
  BY InitInv, Identities DEF RInv
<1>2. \A c \in Calls : c \notin exist /\ status[c] = "none"
  BY NamesDiffer DEF Init, Tokens, Users
<1> QED BY <1>1, <1>2 DEF Init, All, Policy!Init

(* However the statements of requests interleave and fail, each request is *)
(* bound to one account it shows a right to, and changes no column and no  *)
(* session but those that are its own to change, at most once.             *)
THEOREM AccountsImplementPolicy == Spec => ImplementsAccountPolicy
<1>1. RInv /\ RInv' /\ BInv /\ [Next]_vars => [Policy!Next]_Policy!vars
  BY StepAllowed DEF Allowed
<1> QED
  BY <1>1, InitAllowed, AccountInvariant, BoundInvariant, PTL
     DEF Spec, ImplementsAccountPolicy, Policy!Spec

=============================================================================
