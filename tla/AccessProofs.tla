---------------------------- MODULE AccessProofs ----------------------------
(***************************************************************************)
(* Proofs about Access, for any users, administrators and requests, any    *)
(* kinds of request and any faults.                                        *)
(*                                                                         *)
(* The argument: the rights a request has been asked for are among those   *)
(* it was seen to have (Checked), by the plans of AccessPlans that is all  *)
(* it needs once it has an effect or ends its service (Entitling), and a   *)
(* request only ever has seen more (Watched).                              *)
(***************************************************************************)
EXTENDS AccessPlans

Busy(c) == phase[c] \notin {"idle", "done"}

(* Who asks, and about what.                                               *)
Asked(c) ==
  Busy(c) =>
    /\ kind[c] \in AllKinds
    /\ kind[c] \notin LinkHolders => actor[c] \in Users
    /\ Handler(kind[c]).who = "admin" => actor[c] \in Admins
    /\ kind[c] \in LinkHolders => input[c].key \in Keys
    /\ kind[c] = "grant" => input[c].user \in Users /\ input[c].role # "none"
    /\ kind[c] = "createLink" => input[c].role # "none"

(* Where it is in its plan.                                                *)
Where(c) ==
  /\ Busy(c) => pos[c] \in Nat \ {0}
  /\ phase[c] = "service" => pos[c] <= Len(Plan(kind[c]))
  /\ phase[c] = "tell" => pos[c] <= Len(Tells(kind[c]))
  /\ half[c] => phase[c] \in {"service", "tell"} /\ actor[c] \in Users /\ "live" \in held[c]

(* What it has behind it.                                                  *)
Checked(c) ==
  phase[c] = "service" =>
    \A i \in 1..(pos[c] - 1) :
      /\ Right(Plan(kind[c])[i]) \subseteq held[c]
      /\ Plan(kind[c])[i] \in Effects => acted[c]
      /\ Plan(kind[c])[i] = "body" => read[c] = input[c].size

Once(c) ==
  phase[c] = "service" /\ acted[c] =>
    \E i \in 1..(pos[c] - 1) : Plan(kind[c])[i] \in Effects

(* Past its service it was entitled to all of it, and has done it.         *)
Past(c) ==
  phase[c] \in {"audit", "tell", "ok", "open"} =>
    Entitled(c) /\ (kind[c] \in Changing => acted[c])

Effective(c) ==
  acted[c] => /\ Busy(c) /\ Entitled(c)
              /\ kind[c] \in {"officeSave", "wopiSave"} => read[c] = input[c].size

Audited(c) ==
  /\ phase[c] \in {"tell", "ok"} /\ kind[c] \in Changing => audit[c] # "none"
  /\ audit[c] # "none" => phase[c] \in {"tell", "ok"}

RolesHeld(c) ==
  /\ told[c] \subseteq held[c]
  /\ socket[c] = "editor" => "editor" \in held[c]
  /\ ~Busy(c) => told[c] = {} /\ socket[c] # "editor"

Good(c) ==
  /\ Asked(c) /\ Where(c) /\ Checked(c) /\ Once(c) /\ Past(c)
  /\ Effective(c) /\ Audited(c) /\ RolesHeld(c)

(* The history variable is what it is meant to be.                         *)
Watching(c) == Busy(c) => \A r \in Rights : Has(c, r) => r \in held[c]

IInv == TypeOK /\ \A c \in Calls : Good(c) /\ Watching(c)

-----------------------------------------------------------------------------
(* Requests that a step leaves alone, and requests that end.               *)

Kept(d) ==
  /\ kind'[d] = kind[d] /\ actor'[d] = actor[d] /\ input'[d] = input[d]
  /\ phase'[d] = phase[d] /\ pos'[d] = pos[d] /\ half'[d] = half[d] /\ told'[d] = told[d]
  /\ read'[d] = read[d] /\ acted'[d] = acted[d] /\ audit'[d] = audit[d]
  /\ socket'[d] = socket[d]

Ended(d) ==
  /\ phase'[d] = "done" /\ half'[d] = FALSE /\ told'[d] = {}
  /\ acted'[d] = FALSE /\ audit'[d] = "none" /\ socket'[d] = "none"

(* Every step notes the rights of the requests under way.                  *)
LEMMA Watched ==
  ASSUME Watch({c \in Calls : phase'[c] \notin {"idle", "done"}}), NEW c \in Calls
  PROVE  Watching(c)' /\ (Busy(c)' => held[c] \subseteq held'[c])
BY DEF Watch, Watching, Busy

(* What holds of a request left alone goes on to hold.                     *)
LEMMA KeptGood ==
  ASSUME NEW d \in Calls, Good(d), Kept(d), Busy(d) => held[d] \subseteq held'[d]
  PROVE  Good(d)'
<1>1. Asked(d)'
  BY DEF Good, Kept, Asked, Busy
<1>2. Where(d)'
  BY DEF Good, Kept, Where, Busy
<1>3. Checked(d)'
  BY DEF Good, Kept, Checked, Busy
<1>4. Once(d)'
  BY DEF Good, Kept, Once
<1>5. Past(d)' /\ Effective(d)'
  BY DEF Good, Kept, Past, Effective, Entitled, Busy
<1>6. Audited(d)' /\ RolesHeld(d)'
  BY DEF Good, Kept, Audited, RolesHeld, Busy
<1> QED BY <1>1, <1>2, <1>3, <1>4, <1>5, <1>6 DEF Good

(* A request that has ended promises nothing.                              *)
LEMMA EndedGood ==
  ASSUME NEW d \in Calls, Ended(d)
  PROVE  Good(d)'
BY DEF Ended, Good, Asked, Where, Checked, Once, Past, Effective, Audited, RolesHeld, Busy

-----------------------------------------------------------------------------
(* TypeOK in two parts: the tables, and the requests.                      *)

Tables ==
  /\ alive \in BOOLEAN /\ granted \in [Users -> Roles] /\ rowId \in [Users -> Keys \cup {NoOne}]
  /\ links \in [Keys -> Roles] /\ open \in SUBSET Keys
  /\ subject \in [Keys -> Users \cup {NoOne}] /\ fresh \in SUBSET Keys
  /\ \A u \in Users : granted[u] = "none" <=> rowId[u] = NoOne
  /\ \A k \in open : links[k] # "none"
  /\ \A k \in fresh : subject[k] \in Users

RequestTypes ==
  /\ kind \in [Calls -> AllKinds \cup {"none"}] /\ actor \in [Calls -> Users \cup {NoOne}]
  /\ input \in [Calls -> Input] /\ result \in [Calls -> {"none", "ok", "empty", "error"}]

LocalTypes ==
  /\ phase \in [Calls -> {"idle", "service", "audit", "tell", "ok", "error", "open", "done"}]
  /\ pos \in [Calls -> Nat] /\ half \in [Calls -> BOOLEAN]
  /\ told \in [Calls -> SUBSET {"editor", "owner"}] /\ read \in [Calls -> Nat]

HistoryTypes ==
  /\ acted \in [Calls -> BOOLEAN] /\ audit \in [Calls -> {"none", "written", "failed"}]
  /\ socket \in [Calls -> Roles]

(* TypeOK is the conjunction of its parts.                                 *)
LEMMA Types ==
  TypeOK <=> /\ Tables /\ RequestTypes /\ LocalTypes /\ HistoryTypes
             /\ held \in [Calls -> SUBSET Rights]
             /\ \A c \in Calls : half[c] => actor[c] \in Users
BY DEF TypeOK, Tables, RequestTypes, LocalTypes, HistoryTypes

(* What a request has been seen with are rights.                           *)
LEMMA WatchType ==
  ASSUME Watch({c \in Calls : phase'[c] \notin {"idle", "done"}}),
         held \in [Calls -> SUBSET Rights]
  PROVE  held' \in [Calls -> SUBSET Rights]
BY DEF Watch

(* It is enough to look at the tables, the types and each request.         *)
LEMMA StepRule ==
  ASSUME IInv, Watch({c \in Calls : phase'[c] \notin {"idle", "done"}}),
         Tables', RequestTypes', LocalTypes', HistoryTypes',
         \A d \in Calls : Kept(d) \/ Good(d)'
  PROVE  IInv'
<1>1. \A d \in Calls : Good(d)' /\ Watching(d)'
  <2> SUFFICES ASSUME NEW d \in Calls
               PROVE  Good(d)' /\ Watching(d)'
    OBVIOUS
  <2>1. Watching(d)' /\ (Busy(d)' => held[d] \subseteq held'[d])
    BY Watched
  <2>2. CASE Kept(d)
    <3>1. Busy(d) <=> Busy(d)'
      BY <2>2 DEF Kept, Busy
    <3> QED BY <2>1, <2>2, <3>1, KeptGood DEF IInv
  <2> QED BY <2>1, <2>2
<1>2. held' \in [Calls -> SUBSET Rights]
  BY WatchType, Types DEF IInv
<1>3. \A d \in Calls : half'[d] => actor'[d] \in Users
  BY <1>1 DEF Good, Where
<1>4. TypeOK'
  BY <1>2, <1>3 DEF TypeOK, Tables, RequestTypes, LocalTypes, HistoryTypes
<1> QED BY <1>1, <1>4 DEF IInv

(* Requests end together: answered, refused, or with the backend.          *)
LEMMA EndStep ==
  ASSUME IInv, Watch({c \in Calls : phase'[c] \notin {"idle", "done"}}),
         NEW C \in SUBSET Calls, NEW answer \in {"ok", "empty", "error"}, End(C, answer)
  PROVE  IInv'
<1>1. Tables' /\ RequestTypes' /\ LocalTypes' /\ HistoryTypes'
  <2>1. Tables'
    BY Types DEF IInv, End, rights, Tables
  <2>2. NoInput \in Input
    BY DEF NoInput, Input, Roles
  <2>3. RequestTypes'
    BY Types, <2>2 DEF IInv, End, Answered, RequestTypes
  <2>4. LocalTypes' /\ HistoryTypes'
    BY Types DEF IInv, End, LocalTypes, HistoryTypes, Roles
  <2> QED BY <2>1, <2>3, <2>4
<1>2. \A d \in Calls : Kept(d) \/ Good(d)'
  <2> SUFFICES ASSUME NEW d \in Calls
               PROVE  Kept(d) \/ Good(d)'
    OBVIOUS
  <2>1. CASE d \in C
    <3>1. Ended(d)
      BY <2>1 DEF End, Ended
    <3> QED BY <3>1, EndedGood
  <2>2. CASE d \notin C
    BY <2>2 DEF End, Answered, Kept
  <2> QED BY <2>1, <2>2
<1> QED BY <1>1, <1>2, StepRule

-----------------------------------------------------------------------------
(* A request goes on.                                                      *)

(* Whoever is about to have an effect, or at the last step of the service, *)
(* has been seen with every right the request needs.                       *)
LEMMA Entitling ==
  ASSUME NEW c \in Calls, Good(c), Watching(c), phase[c] = "service",
         Right(Plan(kind[c])[pos[c]]) \subseteq held[c],
         Plan(kind[c])[pos[c]] \in Effects \/ pos[c] = Len(Plan(kind[c]))
  PROVE  Entitled(c)
<1> DEFINE k == kind[c]
<1>1. k \in AllKinds /\ pos[c] \in 1..Len(Plan(k)) /\ Len(Plan(k)) \in Nat /\ Busy(c)
  <2>1. k \in AllKinds /\ pos[c] \in Nat \ {0} /\ pos[c] <= Len(Plan(k)) /\ Busy(c)
    BY DEF Good, Asked, Where, Busy
  <2> QED BY <2>1, PlansOK DEF PlanOK
<1>2. Covered(k, pos[c])
  BY <1>1, PlansOK DEF PlanOK, ChecksFirst
<1>3. \A i \in 1..pos[c] : Right(Plan(k)[i]) \subseteq held[c]
  BY <1>1 DEF Good, Checked
<1>4. Handler(k).who = "admin" => "admin" \in held[c]
  BY <1>1 DEF Good, Asked, Watching, Rights, Has
<1>5. ASSUME NEW r \in Needed(k)
      PROVE  r \in held[c]
  BY <1>1, <1>2, <1>3, <1>4, <1>5 DEF Covered
<1> QED BY <1>5 DEF Entitled

(* One step forward: what the step has shown, done, told or written is     *)
(* what the plan says of it.                                               *)
LEMMA AdvanceGood ==
  ASSUME IInv, NEW c \in Calls, phase[c] \in {"service", "audit", "tell"}, Advance(c),
         held[c] \subseteq held'[c],
         phase[c] = "service" =>
           /\ Right(Plan(kind[c])[pos[c]]) \subseteq held[c]
           /\ acted'[c] = (acted[c] \/ Plan(kind[c])[pos[c]] \in Effects)
           /\ Plan(kind[c])[pos[c]] = "body" => read'[c] = input[c].size,
         phase[c] # "service" => acted'[c] = acted[c],
         read'[c] \in {read[c], input[c].size},
         told'[c] \subseteq held[c], socket'[c] = socket[c],
         audit'[c] = audit[c] \/ (phase[c] = "audit" /\ audit'[c] # "none"),
         phase[c] = "audit" => audit'[c] # "none"
  PROVE  Good(c)'
<1> DEFINE k == kind[c]
<1>1. Good(c) /\ Watching(c) /\ Busy(c) /\ k \in AllKinds /\ pos[c] \in Nat \ {0}
  BY DEF IInv, Good, Asked, Where, Busy
<1>2. /\ Len(Plan(k)) \in Nat \ {0} /\ Len(Tells(k)) \in Nat
      /\ Tells(k) # <<>> => Len(Tells(k)) # 0
  BY <1>1, PlansOK DEF PlanOK, TellsRoles
<1>3. /\ kind'[c] = k /\ actor'[c] = actor[c] /\ input'[c] = input[c]
      /\ ~half'[c] /\ phase'[c] \in {"service", "audit", "tell", "ok"}
  BY Types DEF IInv, Advance, Goto, request, LocalTypes, NextPhase
<1>4. phase[c] = "service" /\ (Plan(k)[pos[c]] \in Effects \/ pos[c] = Len(Plan(k)))
      => Entitled(c)'
  BY <1>1, <1>3, Entitling DEF Entitled
<1>5. Asked(c)'
  BY <1>1, <1>3 DEF Good, Asked
<1>6. Effective(c)'
  <2>1. CASE acted[c]
    BY <1>3, <2>1, <1>1 DEF Good, Effective, Busy, Entitled
  <2>2. CASE ~acted[c] /\ acted'[c]
    <3>1. phase[c] = "service" /\ Plan(k)[pos[c]] \in Effects
      BY <2>2
    <3>2. pos[c] \in 1..Len(Plan(k))
      BY <3>1, <1>1, <1>2 DEF Good, Where
    <3>3. ASSUME k \in {"officeSave", "wopiSave"}
          PROVE  read[c] = input[c].size
      <4>1. PICK b \in 1..Len(Plan(k)) : Plan(k)[b] = "body" /\ b < pos[c]
        BY <3>1, <3>2, <3>3, <1>1, PlansOK DEF PlanOK, BodyFirst
      <4> QED BY <4>1, <3>1, <1>1, <1>2 DEF Good, Checked
    <3> QED BY <1>3, <1>4, <3>1, <3>3 DEF Effective, Busy
  <2> QED BY <2>1, <2>2 DEF Effective
<1>7. RolesHeld(c)'
  BY <1>1, <1>3 DEF Good, RolesHeld, Busy
<1>8. CASE pos[c] < Last(c) /\ Goto(c, phase[c], pos[c] + 1)
  <2>1. phase'[c] = phase[c] /\ pos'[c] = pos[c] + 1
    BY <1>8, Types DEF IInv, Goto, LocalTypes
  <2>2. CASE phase[c] = "service"
    <3>1. pos[c] < Len(Plan(k))
      BY <1>8, <2>2 DEF Last, Plan
    <3>2. Where(c)'
      BY <1>1, <1>2, <1>3, <2>1, <2>2, <3>1 DEF Where, Busy
    <3>3. Checked(c)'
      <4> SUFFICES ASSUME NEW i \in 1..pos[c]
                   PROVE  /\ Right(Plan(k)[i]) \subseteq held'[c]
                          /\ Plan(k)[i] \in Effects => acted'[c]
                          /\ Plan(k)[i] = "body" => read'[c] = input[c].size
        BY <1>1, <1>3, <2>1 DEF Checked
      <4>1. CASE i = pos[c]
        BY <4>1, <2>2
      <4>2. CASE i # pos[c]
        <5>1. i \in 1..(pos[c] - 1)
          BY <4>2, <1>1
        <5> QED BY <5>1, <2>2, <1>1 DEF Good, Checked
      <4> QED BY <4>1, <4>2
    <3>4. Once(c)'
      <4>1. ASSUME acted'[c]
            PROVE  \E i \in 1..pos[c] : Plan(k)[i] \in Effects
        <5>1. CASE acted[c]
          BY <5>1, <1>1, <2>2 DEF Good, Once
        <5>2. CASE ~acted[c]
          <6>1. Plan(k)[pos[c]] \in Effects
            BY <5>2, <4>1, <2>2
          <6>2. pos[c] \in 1..pos[c]
            BY <1>1
          <6> QED BY <6>1, <6>2
        <5> QED BY <5>1, <5>2
      <4> QED BY <4>1, <1>1, <1>3, <2>1 DEF Once
    <3>5. Past(c)' /\ Audited(c)'
      BY <1>1, <2>1, <2>2 DEF Good, Past, Audited
    <3> QED BY <1>5, <1>6, <1>7, <3>2, <3>3, <3>4, <3>5 DEF Good
  <2>3. CASE phase[c] = "tell"
    <3>1. pos[c] < Len(Tells(k))
      BY <1>8, <2>3 DEF Last, Tells
    <3>2. Where(c)' /\ Checked(c)' /\ Once(c)'
      BY <1>1, <1>2, <1>3, <2>1, <2>3, <3>1 DEF Where, Busy, Checked, Once
    <3>3. Past(c)' /\ Audited(c)'
      BY <1>1, <1>3, <2>1, <2>3 DEF Good, Past, Audited, Entitled
    <3> QED BY <1>5, <1>6, <1>7, <3>2, <3>3 DEF Good
  <2>4. CASE phase[c] = "audit"
    BY <1>8, <2>4, <1>1 DEF Last
  <2> QED BY <2>2, <2>3, <2>4
<1>9. CASE ~(pos[c] < Last(c)) /\ Goto(c, NextPhase(c), 1)
  <2>1. phase'[c] = NextPhase(c) /\ pos'[c] = 1
    BY <1>9, Types DEF IInv, Goto, LocalTypes
  <2>2. NextPhase(c) = "tell" => Tells(k) # <<>>
    BY DEF NextPhase, Tells
  <2>3. Where(c)' /\ Checked(c)' /\ Once(c)'
    BY <1>2, <1>3, <2>1, <2>2 DEF Where, Checked, Once, Busy, NextPhase
  <2>4. CASE phase[c] = "service"
    <3>1. pos[c] = Len(Plan(k))
      <4>1. Last(c) = Len(Plan(k))
        BY <2>4 DEF Last, Plan
      <4> QED BY <4>1, <1>9, <1>1, <1>2, <2>4 DEF Good, Where
    <3>2. k \in Changing => acted'[c]
      <4>1. ASSUME k \in Changing
            PROVE  acted'[c]
        <5>1. PICK p \in 1..Len(Plan(k)) : Plan(k)[p] \in Effects
          BY <4>1, <1>1, PlansOK DEF PlanOK, ChangesOnce
        <5>2. CASE p = pos[c]
          BY <5>1, <5>2, <2>4
        <5>3. CASE p # pos[c]
          <6>1. p \in 1..(pos[c] - 1)
            BY <5>3, <3>1, <1>1
          <6> QED BY <5>1, <6>1, <2>4, <1>1 DEF Good, Checked
        <5> QED BY <5>2, <5>3
      <4> QED BY <4>1
    <3>3. Past(c)'
      BY <1>3, <1>4, <2>4, <3>1, <3>2 DEF Past
    <3>4. k \in Changing => NextPhase(c) = "audit"
      BY <1>1, <2>4, PlansOK DEF PlanOK, ChangesOnce, NextPhase
    <3>5. Audited(c)'
      BY <1>1, <1>3, <2>1, <2>4, <3>4 DEF Good, Audited
    <3> QED BY <1>5, <1>6, <1>7, <2>3, <3>3, <3>5 DEF Good
  <2>5. CASE phase[c] \in {"audit", "tell"}
    <3>1. NextPhase(c) \in {"tell", "ok"}
      BY <2>5 DEF NextPhase
    <3>2. Past(c)'
      BY <1>1, <1>3, <2>1, <2>5, <3>1 DEF Good, Past, Entitled
    <3>3. Audited(c)'
      BY <1>1, <1>3, <2>1, <2>5, <3>1 DEF Good, Audited
    <3> QED BY <1>5, <1>6, <1>7, <2>3, <3>2, <3>3 DEF Good
  <2> QED BY <2>4, <2>5
<1> QED BY <1>8, <1>9 DEF Advance

(* What a step with this name says of where the request is.                *)
LEMMA AtService ==
  ASSUME IInv, NEW c \in Calls, NEW step, At(c, step), step \notin Tellings,
         step \notin {"idle", "audit", "ok", "error", "open", "done"}
  PROVE  phase[c] = "service" /\ Plan(kind[c])[pos[c]] = step
<1>1. CASE phase[c] = "service"
  BY <1>1 DEF At, Step, Plan
<1>2. CASE phase[c] = "tell"
  <2>1. /\ kind[c] \in AllKinds /\ pos[c] \in Nat \ {0} /\ pos[c] <= Len(Tells(kind[c]))
        /\ Step(c) = Tells(kind[c])[pos[c]]
    BY <1>2 DEF IInv, Good, Asked, Where, Busy, Step, Tells
  <2> QED BY <2>1, PlansOK DEF PlanOK, TellsRoles, At
<1>3. CASE phase[c] \notin {"service", "tell"}
  <2>1. Step(c) = phase[c]
    BY <1>3 DEF Step
  <2> QED BY <1>3, <2>1, Types DEF At, IInv, LocalTypes
<1> QED BY <1>1, <1>2, <1>3

(* Whoever is asked for a role has an account.                             *)
LEMMA AtRole ==
  ASSUME IInv, NEW c \in Calls, Step(c) \in Checks \cup Tellings
  PROVE  /\ phase[c] \in {"service", "tell"} /\ actor[c] \in Users
         /\ phase[c] = "service" => Plan(kind[c])[pos[c]] = Step(c)
         /\ phase[c] = "tell" => Step(c) \in Tellings
<1>1. phase[c] \in {"service", "tell"}
  BY Types DEF IInv, LocalTypes, Step, Checks, Tellings
<1>2. kind[c] \in AllKinds /\ pos[c] \in Nat \ {0} /\ (kind[c] \notin LinkHolders => actor[c] \in Users)
  BY <1>1 DEF IInv, Good, Asked, Where, Busy
<1>3. CASE phase[c] = "service"
  <2>1. pos[c] \in 1..Len(Plan(kind[c])) /\ Step(c) = Plan(kind[c])[pos[c]]
    BY <1>2, <1>3, PlansOK DEF IInv, Good, Where, Step, Plan, PlanOK
  <2>2. kind[c] \notin LinkHolders
    BY <1>2, <2>1, PlansOK DEF PlanOK, AsksAccounts
  <2> QED BY <1>2, <1>3, <2>1, <2>2
<1>4. CASE phase[c] = "tell"
  <2>1. pos[c] \in 1..Len(Tells(kind[c])) /\ Step(c) = Tells(kind[c])[pos[c]]
    BY <1>2, <1>4, PlansOK DEF IInv, Good, Where, Step, Tells, PlanOK, TellsRoles
  <2>2. kind[c] \notin LinkHolders
    BY <1>2, <2>1, PlansOK DEF PlanOK, AsksAccounts
  <2> QED BY <1>2, <1>4, <2>1, <2>2, PlansOK DEF PlanOK, TellsRoles
<1> QED BY <1>1, <1>3, <1>4

(* A request that goes on does not touch the others.                       *)
LEMMA GotoFrame ==
  ASSUME IInv, NEW c \in Calls, NEW p \in Nat,
         NEW to \in {"service", "audit", "tell", "ok", "error", "open"}, Goto(c, to, p)
  PROVE  /\ RequestTypes'
         /\ phase' \in [Calls -> {"idle", "service", "audit", "tell", "ok", "error", "open", "done"}]
         /\ pos' \in [Calls -> Nat] /\ half' \in [Calls -> BOOLEAN]
         /\ \A d \in Calls \ {c} :
              /\ kind'[d] = kind[d] /\ actor'[d] = actor[d] /\ input'[d] = input[d]
              /\ phase'[d] = phase[d] /\ pos'[d] = pos[d] /\ half'[d] = half[d]
BY Types DEF IInv, Goto, request, RequestTypes, LocalTypes

(* Advance is one of two Gotos, and leaves the others alone too.           *)
LEMMA AdvanceFrame ==
  ASSUME IInv, NEW c \in Calls, phase[c] \in {"service", "audit", "tell"}, Advance(c)
  PROVE  /\ RequestTypes'
         /\ phase' \in [Calls -> {"idle", "service", "audit", "tell", "ok", "error", "open", "done"}]
         /\ pos' \in [Calls -> Nat] /\ half' \in [Calls -> BOOLEAN]
         /\ \A d \in Calls \ {c} :
              /\ kind'[d] = kind[d] /\ actor'[d] = actor[d] /\ input'[d] = input[d]
              /\ phase'[d] = phase[d] /\ pos'[d] = pos[d] /\ half'[d] = half[d]
<1>1. pos[c] + 1 \in Nat /\ NextPhase(c) \in {"audit", "tell", "ok"}
  BY Types DEF IInv, LocalTypes, NextPhase
<1>2. CASE Goto(c, phase[c], pos[c] + 1)
  BY <1>1, <1>2, GotoFrame
<1>3. CASE Goto(c, NextPhase(c), 1)
  BY <1>1, <1>3, GotoFrame
<1> QED BY <1>2, <1>3 DEF Advance

(* A step that only looked.                                                *)
LEMMA PassStep ==
  ASSUME IInv, Watch({c \in Calls : phase'[c] \notin {"idle", "done"}}),
         NEW c \in Calls, phase[c] = "service", Pass(c),
         Right(Plan(kind[c])[pos[c]]) \subseteq held[c],
         Plan(kind[c])[pos[c]] \notin Effects \cup {"body"}
  PROVE  IInv'
<1>1. /\ Advance(c) /\ UNCHANGED <<rights, told, read, acted, audit, socket>>
      /\ phase[c] \in {"service", "audit", "tell"}
  BY DEF Pass
<1>2. Tables' /\ RequestTypes' /\ LocalTypes' /\ HistoryTypes'
  BY <1>1, AdvanceFrame, Types DEF IInv, Tables, rights, LocalTypes, HistoryTypes
<1>3. ASSUME NEW d \in Calls \ {c}
      PROVE  Kept(d)
  BY <1>1, AdvanceFrame DEF Kept
<1>4. Good(c)'
  <2>1. held[c] \subseteq held'[c]
    <3>1. Busy(c)'
      BY <1>1, AdvanceFrame, Types DEF IInv, LocalTypes, Advance, Goto, NextPhase, Busy
    <3> QED BY <3>1, Watched
  <2>2. told[c] \subseteq held[c]
    BY DEF IInv, Good, RolesHeld
  <2>3. acted[c] \in BOOLEAN
    BY Types DEF IInv, HistoryTypes
  <2> QED BY <1>1, <2>1, <2>2, <2>3, AdvanceGood
<1> QED BY <1>2, <1>3, <1>4, StepRule

(* What a request has now, it has been seen with.                          *)
LEMMA Seen ==
  ASSUME IInv, NEW c \in Calls, phase[c] \in {"service", "tell"}, NEW r \in Rights, Has(c, r)
  PROVE  r \in held[c]
BY DEF IInv, Watching, Busy

(* What each right stands for.                                             *)
LEMMA HasRights ==
  ASSUME NEW c \in Calls
  PROVE  /\ Has(c, "live") <=> alive
         /\ Has(c, "viewer") <=> RoleOf(actor[c]) # "none"
         /\ Has(c, "editor") <=> RoleOf(actor[c]) \in {"editor", "owner"}
         /\ Has(c, "owner") <=> RoleOf(actor[c]) = "owner"
         /\ Has(c, "link") <=> input[c].key \in open
         /\ Has(c, "linkEditor") <=> input[c].key \in Keys /\ links[input[c].key] = "editor"
         /\ Has(c, "token") <=> input[c].key \in fresh
         /\ {"live", "viewer", "editor", "owner", "link", "linkEditor", "token"} \subseteq Rights
BY DEF Has, Rights

(* What each step shows of whoever passes it.                              *)
LEMMA RightsShown ==
  /\ Right("view") = {"live", "viewer"} /\ Right("listed") = {"live", "viewer"}
  /\ Right("edit") = {"live", "editor"} /\ Right("own") = {"live", "owner"}
  /\ Right("live") = {"live"} /\ Right("add") = {"live"} /\ Right("delete") = {"live"}
  /\ Right("link") = {"link"} /\ Right("linkEditor") = {"linkEditor"} /\ Right("token") = {"token"}
  /\ \A step \in {"rows", "findLink", "object", "put", "dial", "body", "mint", "openSocket",
                  "insertGrant", "deleteGrant", "insertLink", "disableLink", "dropObject",
                  "tellEditor", "tellOwner"} : Right(step) = {}
BY DEF Right

(* FindByID, ListAccessible, FindByTokenHash, LinkMayEdit, VerifyToken and *)
(* Fetch go on or end the request.                                         *)
LEMMA LookStep ==
  ASSUME IInv, Watch({c \in Calls : phase'[c] \notin {"idle", "done"}}), NEW c \in Calls,
         FindByID(c) \/ ListAccessible(c) \/ FindByTokenHash(c) \/ LinkMayEdit(c)
           \/ VerifyToken(c) \/ Fetch(c)
  PROVE  IInv'
<1> USE HasRights, Seen
<1>1. CASE \E C \in SUBSET Calls, answer \in {"ok", "empty", "error"} : End(C, answer)
  BY <1>1, EndStep
<1>2. ASSUME NEW step \in {"live", "listed", "link", "linkEditor", "token", "rows", "findLink",
                           "object", "put", "dial"},
             At(c, step), Pass(c), Right(step) \subseteq held[c]
      PROVE  IInv'
  <2>1. phase[c] = "service" /\ Plan(kind[c])[pos[c]] = step
    BY <1>2, AtService DEF Tellings
  <2>2. step \notin Effects \cup {"body"}
    BY <1>2 DEF Effects
  <2> QED BY <1>2, <2>1, <2>2, PassStep
<1>3. CASE FindByID(c)
  <2>1. CASE alive
    <3>1. At(c, "live") /\ Pass(c)
      BY <1>3, <2>1 DEF FindByID
    <3>2. phase[c] = "service"
      BY <3>1, AtService DEF Tellings
    <3> QED BY <1>2, <2>1, <3>1, <3>2, RightsShown
  <2> QED BY <1>1, <1>3, <2>1 DEF FindByID, Refuse
<1>4. CASE ListAccessible(c)
  <2>1. CASE alive /\ RoleOf(actor[c]) # "none"
    <3>1. At(c, "listed") /\ Pass(c)
      BY <1>4, <2>1 DEF ListAccessible
    <3>2. phase[c] = "service"
      BY <3>1, AtService DEF Tellings
    <3> QED BY <1>2, <2>1, <3>1, <3>2, RightsShown
  <2> QED BY <1>1, <1>4, <2>1 DEF ListAccessible
<1>5. CASE FindByTokenHash(c)
  <2>1. CASE input[c].key \in open
    <3>1. At(c, "link") /\ Pass(c)
      BY <1>5, <2>1 DEF FindByTokenHash
    <3>2. phase[c] = "service"
      BY <3>1, AtService DEF Tellings
    <3> QED BY <1>2, <2>1, <3>1, <3>2, RightsShown
  <2> QED BY <1>1, <1>5, <2>1 DEF FindByTokenHash, Refuse
<1>6. CASE LinkMayEdit(c)
  <2>1. CASE links[input[c].key] = "editor"
    <3>1. At(c, "linkEditor") /\ Pass(c)
      BY <1>6, <2>1 DEF LinkMayEdit
    <3>2. phase[c] = "service" /\ Plan(kind[c])[pos[c]] = "linkEditor"
      BY <3>1, AtService DEF Tellings
    <3>3. /\ kind[c] \in AllKinds /\ pos[c] \in Nat \ {0} /\ pos[c] <= Len(Plan(kind[c]))
          /\ kind[c] \in LinkHolders => input[c].key \in Keys
      BY <3>2 DEF IInv, Good, Asked, Where, Busy
    <3>4. kind[c] \in LinkHolders
      BY <3>2, <3>3, PlansOK DEF PlanOK, AsksAccounts
    <3> QED BY <1>2, <2>1, <3>1, <3>2, <3>3, <3>4, RightsShown
  <2> QED BY <1>1, <1>6, <2>1 DEF LinkMayEdit, Refuse
<1>7. CASE VerifyToken(c)
  <2>1. CASE input[c].key \in fresh
    <3>1. At(c, "token") /\ Pass(c)
      BY <1>7, <2>1 DEF VerifyToken
    <3>2. phase[c] = "service"
      BY <3>1, AtService DEF Tellings
    <3> QED BY <1>2, <2>1, <3>1, <3>2, RightsShown
  <2> QED BY <1>1, <1>7, <2>1 DEF VerifyToken, Refuse
<1>8. CASE Fetch(c)
  BY <1>2, <1>8, RightsShown DEF Fetch, At
<1> QED BY <1>3, <1>4, <1>5, <1>6, <1>7, <1>8

(* Service.Role has found a role: a check is passed or not, a telling      *)
(* tells what the actor is.                                                *)
LEMMA FoundStep ==
  ASSUME IInv, Watch({c \in Calls : phase'[c] \notin {"idle", "done"}}), NEW c \in Calls,
         Step(c) \in Checks \cup Tellings, NEW role \in {"none", "viewer", "editor", "owner"},
         role # "none" => {"live", "viewer"} \subseteq held[c],
         role \in {"editor", "owner"} => "editor" \in held[c],
         role = "owner" => "owner" \in held[c],
         Found(c, role)
  PROVE  IInv'
<1>1. CASE Step(c) \in Checks /\ Suffices(Step(c), role)
  <2>1. phase[c] = "service" /\ Plan(kind[c])[pos[c]] = Step(c)
    BY <1>1, AtRole DEF Checks, Tellings
  <2>2. Step(c) \notin Effects \cup {"body"} /\ Pass(c)
    BY <1>1 DEF Checks, Tellings, Effects, Found
  <2>3. Right(Step(c)) \subseteq held[c]
    BY <1>1, RightsShown DEF Checks, Suffices
  <2> QED BY <2>1, <2>2, <2>3, PassStep
<1>2. CASE Step(c) \in Checks /\ ~Suffices(Step(c), role)
  <2>1. End({c}, "error")
    BY <1>2 DEF Found, Refuse, Checks, Tellings
  <2> QED BY <2>1, EndStep
<1>3. CASE Step(c) \in Tellings
  <2>1. /\ phase[c] \in {"service", "tell"} /\ (phase[c] = "service" => Plan(kind[c])[pos[c]] = Step(c))
        /\ Step(c) \in {"tellEditor", "tellOwner"}
    BY <1>3, AtRole DEF Tellings
  <2>2. Advance(c) /\ UNCHANGED <<rights, read, acted, audit, socket>>
    BY <1>3 DEF Found
  <2>3. \/ told' = told
        \/ /\ Suffices(Step(c), role)
           /\ told' = [told EXCEPT ![c] = @ \cup {IF At(c, "tellOwner") THEN "owner" ELSE "editor"}]
    BY <1>3 DEF Found
  <2>4. told'[c] \subseteq held[c] /\ told' \in [Calls -> SUBSET {"editor", "owner"}]
    <3>1. told[c] \subseteq held[c] /\ told \in [Calls -> SUBSET {"editor", "owner"}]
      BY Types DEF IInv, Good, RolesHeld, LocalTypes
    <3>2. CASE Suffices(Step(c), role) /\ Step(c) = "tellOwner"
      BY <2>3, <3>1, <3>2 DEF Suffices, At
    <3>3. CASE Suffices(Step(c), role) /\ Step(c) = "tellEditor"
      BY <2>3, <3>1, <3>3 DEF Suffices, At
    <3> QED BY <2>1, <2>3, <3>1, <3>2, <3>3
  <2>5. Tables' /\ RequestTypes' /\ LocalTypes' /\ HistoryTypes'
    BY <2>1, <2>2, <2>4, AdvanceFrame, Types DEF IInv, Tables, rights, LocalTypes, HistoryTypes
  <2>6. ASSUME NEW d \in Calls \ {c}
        PROVE  Kept(d)
    <3>1. told'[d] = told[d]
      BY <2>3, Types DEF IInv, LocalTypes
    <3> QED BY <2>1, <2>2, <3>1, AdvanceFrame DEF Kept
  <2>7. Good(c)'
    <3>1. held[c] \subseteq held'[c]
      <4>1. Busy(c)'
        BY <2>1, <2>2, AdvanceFrame, Types DEF IInv, LocalTypes, Advance, Goto, NextPhase, Busy
      <4> QED BY <4>1, Watched
    <3>2. /\ phase[c] = "service" => /\ Right(Plan(kind[c])[pos[c]]) \subseteq held[c]
                                     /\ Plan(kind[c])[pos[c]] \notin Effects \cup {"body"}
          /\ phase[c] # "audit"
      BY <2>1, RightsShown DEF Effects
    <3>3. acted[c] \in BOOLEAN
      BY Types DEF IInv, HistoryTypes
    <3> QED BY <2>1, <2>2, <2>4, <3>1, <3>2, <3>3, AdvanceGood
  <2> QED BY <2>5, <2>6, <2>7, StepRule
<1> QED BY <1>1, <1>2, <1>3

(* The two statements of Service.Role keep the invariant.                  *)
LEMMA RoleStep ==
  ASSUME IInv, Watch({c \in Calls : phase'[c] \notin {"idle", "done"}}), NEW c \in Calls,
         DocumentOwner(c) \/ FindForUser(c)
  PROVE  IInv'
<1>1. /\ phase[c] \in {"service", "tell"} /\ actor[c] \in Users
      /\ Step(c) \in Checks \cup Tellings
  BY AtRole DEF DocumentOwner, FindForUser
<1>2. /\ alive => "live" \in held[c]
      /\ RoleOf(actor[c]) # "none" => "viewer" \in held[c]
      /\ RoleOf(actor[c]) \in {"editor", "owner"} => "editor" \in held[c]
      /\ RoleOf(actor[c]) = "owner" => "owner" \in held[c]
  BY <1>1, HasRights, Seen
<1>3. CASE DocumentOwner(c) /\ alive /\ actor[c] # Owner
  <2>1. /\ half' = [half EXCEPT ![c] = TRUE]
        /\ UNCHANGED <<rights, request, result, phase, pos, told, read, acted, audit, socket>>
    BY <1>3 DEF DocumentOwner
  <2>2. Tables' /\ RequestTypes' /\ LocalTypes' /\ HistoryTypes'
    BY <2>1, Types DEF IInv, Tables, rights, RequestTypes, request, LocalTypes, HistoryTypes
  <2>3. ASSUME NEW d \in Calls \ {c}
        PROVE  Kept(d)
    BY <2>1, Types DEF IInv, LocalTypes, request, Kept
  <2>4. Good(c)'
    <3>1. Busy(c)' /\ Busy(c) /\ held[c] \subseteq held'[c]
      BY <1>1, <2>1, Watched DEF Busy
    <3>2. /\ kind' = kind /\ actor' = actor /\ input' = input /\ phase' = phase /\ pos' = pos
          /\ told' = told /\ read' = read /\ acted' = acted /\ audit' = audit /\ socket' = socket
      BY <2>1 DEF request
    <3>3. Where(c)'
      BY <1>1, <1>2, <1>3, <3>1, <3>2 DEF IInv, Good, Where
    <3>4. Asked(c)' /\ Checked(c)' /\ Once(c)'
      BY <3>1, <3>2 DEF IInv, Good, Asked, Checked, Once
    <3>5. Past(c)' /\ Effective(c)'
      BY <3>1, <3>2 DEF IInv, Good, Past, Effective, Entitled
    <3>6. Audited(c)' /\ RolesHeld(c)'
      BY <3>1, <3>2 DEF IInv, Good, Audited, RolesHeld
    <3> QED BY <3>3, <3>4, <3>5, <3>6 DEF Good
  <2> QED BY <2>2, <2>3, <2>4, StepRule
<1>4. CASE DocumentOwner(c) /\ alive /\ actor[c] = Owner
  <2>1. Found(c, "owner")
    BY <1>4 DEF DocumentOwner
  <2>2. RoleOf(actor[c]) = "owner"
    BY <1>4 DEF RoleOf
  <2> QED BY <1>1, <1>2, <1>4, <2>1, <2>2, FoundStep
<1>5. CASE DocumentOwner(c) /\ ~alive
  <2>1. Found(c, "none")
    BY <1>5 DEF DocumentOwner
  <2> QED BY <1>1, <2>1, FoundStep
<1>6. CASE FindForUser(c)
  <2>1. /\ Found(c, granted[actor[c]]) /\ "live" \in held[c]
        /\ granted[actor[c]] \in {"none", "viewer", "editor"}
    BY <1>1, <1>6, Types DEF FindForUser, IInv, Good, Where, Tables, Roles
  <2>2. CASE actor[c] = Owner
    <3>1. RoleOf(actor[c]) = "owner"
      BY <2>2 DEF RoleOf
    <3> QED BY <1>1, <1>2, <2>1, <3>1, FoundStep
  <2>3. CASE actor[c] # Owner
    <3>1. RoleOf(actor[c]) = granted[actor[c]]
      BY <1>1, <2>3 DEF RoleOf
    <3> QED BY <1>1, <1>2, <2>1, <3>1, FoundStep
  <2> QED BY <2>2, <2>3
<1> QED BY <1>3, <1>4, <1>5, <1>6 DEF DocumentOwner

-----------------------------------------------------------------------------
(* The steps that have an effect.                                          *)

(* The office body is in by then.                                          *)
LEMMA BodyRead ==
  ASSUME NEW c \in Calls, Good(c), phase[c] = "service",
         Plan(kind[c])[pos[c]] \in Effects, kind[c] \in {"officeSave", "wopiSave"}
  PROVE  read[c] = input[c].size
<1>1. /\ kind[c] \in AllKinds /\ pos[c] \in Nat \ {0} /\ pos[c] <= Len(Plan(kind[c]))
  BY DEF Good, Asked, Where, Busy
<1>2. PICK b \in 1..Len(Plan(kind[c])) : Plan(kind[c])[b] = "body" /\ b < pos[c]
  BY <1>1, PlansOK DEF PlanOK, BodyFirst
<1> QED BY <1>1, <1>2 DEF Good, Checked

(* A request that leaves its plan with its effect: its answer is lost, or  *)
(* its WebSocket is open.                                                  *)
LEMMA LeaveGood ==
  ASSUME IInv, NEW c \in Calls, phase[c] = "service", NEW to \in {"error", "open"},
         Goto(c, to, 1), Plan(kind[c])[pos[c]] \in Effects,
         Right(Plan(kind[c])[pos[c]]) \subseteq held[c], held[c] \subseteq held'[c],
         acted'[c] = TRUE, told'[c] = told[c], read'[c] = read[c], audit'[c] = audit[c],
         socket'[c] = "editor" => "editor" \in told[c] \/ socket[c] = "editor"
  PROVE  Good(c)'
<1>1. Good(c) /\ Watching(c) /\ Busy(c)
  BY DEF IInv, Busy
<1>2. /\ kind'[c] = kind[c] /\ actor'[c] = actor[c] /\ input'[c] = input[c]
      /\ ~half'[c] /\ phase'[c] = to /\ pos'[c] = 1
  BY Types DEF IInv, Goto, request, LocalTypes
<1>3. Entitled(c)'
  BY <1>1, <1>2, Entitling DEF Entitled
<1>4. Asked(c)' /\ Where(c)' /\ Checked(c)' /\ Once(c)'
  BY <1>1, <1>2 DEF Good, Asked, Where, Checked, Once, Busy
<1>5. Past(c)' /\ Effective(c)'
  BY <1>1, <1>2, <1>3, BodyRead DEF Past, Effective, Busy
<1>6. Audited(c)' /\ RolesHeld(c)'
  BY <1>1, <1>2 DEF Good, Audited, RolesHeld, Busy
<1> QED BY <1>4, <1>5, <1>6 DEF Good

(* A statement has its effect, and its answer comes back or not.           *)
LEMMA TakeStep ==
  ASSUME IInv, Watch({c \in Calls : phase'[c] \notin {"idle", "done"}}), NEW c \in Calls,
         phase[c] = "service", Plan(kind[c])[pos[c]] \in Effects,
         Right(Plan(kind[c])[pos[c]]) \subseteq held[c], Tables',
         acted' = [acted EXCEPT ![c] = TRUE], UNCHANGED <<told, read, audit, socket>>,
         Advance(c) \/ Goto(c, "error", 1)
  PROVE  IInv'
<1>1. /\ RequestTypes' /\ LocalTypes'
      /\ \A d \in Calls \ {c} :
           /\ kind'[d] = kind[d] /\ actor'[d] = actor[d] /\ input'[d] = input[d]
           /\ phase'[d] = phase[d] /\ pos'[d] = pos[d] /\ half'[d] = half[d]
  <2>1. told' \in [Calls -> SUBSET {"editor", "owner"}] /\ read' \in [Calls -> Nat]
    BY Types DEF IInv, LocalTypes
  <2>2. CASE Advance(c)
    BY <2>1, <2>2, AdvanceFrame DEF LocalTypes
  <2>3. CASE Goto(c, "error", 1)
    BY <2>1, <2>3, GotoFrame DEF LocalTypes
  <2> QED BY <2>2, <2>3
<1>2. HistoryTypes' /\ acted'[c] = TRUE
  BY Types DEF IInv, HistoryTypes
<1>3. ASSUME NEW d \in Calls \ {c}
      PROVE  Kept(d)
  BY <1>1, Types DEF IInv, HistoryTypes, Kept
<1>4. held[c] \subseteq held'[c]
  <2>1. Busy(c)'
    BY Types DEF IInv, LocalTypes, Advance, Goto, NextPhase, Busy
  <2> QED BY <2>1, Watched
<1>5. Good(c)'
  <2>1. CASE Goto(c, "error", 1)
    BY <1>2, <1>4, <2>1, LeaveGood
  <2>2. CASE Advance(c)
    <3>1. told[c] \subseteq held[c] /\ Plan(kind[c])[pos[c]] # "body"
      BY DEF IInv, Good, RolesHeld, Effects
    <3> QED BY <1>2, <1>4, <2>2, <3>1, AdvanceGood
  <2> QED BY <2>1, <2>2
<1> QED BY <1>1, <1>2, <1>3, <1>5, StepRule

(* What the statements that write leave the tables like.                   *)
LEMMA WritesTyped ==
  ASSUME Tables
  PROVE  /\ \A id \in Calls, u \in Users, role \in Roles \ {"none"} :
              InsertGrant(id, u, role) => Tables'
         /\ \A id : DeleteGrant(id) => Tables'
         /\ \A id \in Calls, role \in Roles \ {"none"} : InsertLink(id, role) => Tables'
         /\ \A id : DisableLink(id) => Tables'
         /\ SoftDelete => Tables'
         /\ \A id \in Calls, u \in Users : MintToken(id, u) => Tables'
         /\ \A id : TokenExpires(id) => Tables'
         /\ (UNCHANGED rights) => Tables'
<1>1. NoOne \notin Keys
  BY NamesDiffer DEF Keys
<1>2. ASSUME NEW id \in Calls, NEW u \in Users, NEW role \in Roles \ {"none"},
             InsertGrant(id, u, role)
      PROVE  Tables'
  BY <1>1, <1>2 DEF Tables, InsertGrant, Keys
<1>3. ASSUME NEW id, DeleteGrant(id)
      PROVE  Tables'
  BY <1>3 DEF Tables, DeleteGrant, Roles
<1>4. ASSUME NEW id \in Calls, NEW role \in Roles \ {"none"}, InsertLink(id, role)
      PROVE  Tables'
  BY <1>4 DEF Tables, InsertLink, Keys
<1>5. ASSUME NEW id, DisableLink(id)
      PROVE  Tables'
  BY <1>5 DEF Tables, DisableLink
<1>6. ASSUME SoftDelete
      PROVE  Tables'
  BY <1>6 DEF Tables, SoftDelete
<1>7. ASSUME NEW id \in Calls, NEW u \in Users, MintToken(id, u)
      PROVE  Tables'
  BY <1>7 DEF Tables, MintToken, Keys
<1>8. ASSUME NEW id, TokenExpires(id)
      PROVE  Tables'
  BY <1>8 DEF Tables, TokenExpires
<1>9. ASSUME UNCHANGED rights
      PROVE  Tables'
  BY <1>9 DEF Tables, rights
<1> QED BY <1>2, <1>3, <1>4, <1>5, <1>6, <1>7, <1>8, <1>9

(* The statements that write keep the invariant.                           *)
LEMMA WriteStep ==
  ASSUME IInv, Watch({c \in Calls : phase'[c] \notin {"idle", "done"}}), NEW c \in Calls,
         Add(c) \/ InsertPermission(c) \/ DeleteRow(c) \/ InsertShareLink(c)
           \/ DisableShareLink(c) \/ DeleteDocument(c) \/ DropObject(c) \/ Mint(c)
  PROVE  IInv'
<1> USE Types DEF IInv
<1>1. ASSUME NEW step \in Effects, At(c, step)
      PROVE  /\ phase[c] = "service" /\ Plan(kind[c])[pos[c]] = step /\ kind[c] \in Doers(step)
             /\ Right(step) \subseteq held[c] \/ ("live" \notin held[c] /\ Right(step) = {"live"})
             /\ alive => "live" \in held[c]
  <2>1. phase[c] = "service" /\ Plan(kind[c])[pos[c]] = step
    BY <1>1, AtService DEF Effects, Tellings
  <2>2. /\ kind[c] \in AllKinds /\ pos[c] \in Nat \ {0} /\ pos[c] <= Len(Plan(kind[c]))
    BY <2>1 DEF Good, Asked, Where, Busy
  <2>3. kind[c] \in Doers(step)
    BY <2>1, <2>2, PlansOK DEF PlanOK, OneEffect
  <2>4. alive => "live" \in held[c]
    BY <2>1, HasRights, Seen
  <2> QED BY <2>1, <2>3, <2>4, RightsShown DEF Effects
<1>2. ASSUME Refuse(c)
      PROVE  IInv'
  BY <1>2, EndStep DEF Refuse
<1>3. ASSUME NEW step \in Effects, At(c, step), Right(step) \subseteq held[c], Tables', Take(c)
      PROVE  IInv'
  BY <1>1, <1>3, TakeStep DEF Take
<1>4. CASE Add(c)
  <2>1. CASE alive
    <3>1. At(c, "add") /\ Take(c) /\ UNCHANGED rights
      BY <1>4, <2>1 DEF Add, AddVersion
    <3> QED BY <1>1, <1>3, <2>1, <3>1, RightsShown, WritesTyped DEF Effects
  <2> QED BY <1>2, <1>4, <2>1 DEF Add
<1>5. CASE DeleteDocument(c)
  <2>1. CASE alive
    <3>1. At(c, "delete") /\ Take(c) /\ SoftDelete
      BY <1>5, <2>1 DEF DeleteDocument
    <3> QED BY <1>1, <1>3, <2>1, <3>1, RightsShown, WritesTyped DEF Effects
  <2> QED BY <1>2, <1>5, <2>1 DEF DeleteDocument
<1>6. CASE InsertPermission(c)
  <2>1. At(c, "insertGrant") /\ Take(c) /\ InsertGrant(c, input[c].user, input[c].role)
    BY <1>6 DEF InsertPermission
  <2>2. kind[c] = "grant" /\ phase[c] = "service"
    BY <1>1, <2>1 DEF Effects, Doers
  <2>3. input[c].user \in Users /\ input[c].role \in Roles \ {"none"}
    BY <2>2 DEF Good, Asked, Busy, RequestTypes, Input
  <2> QED BY <1>3, <2>1, <2>3, RightsShown, WritesTyped DEF Effects
<1>7. CASE DeleteRow(c)
  <2>1. CASE DeleteGrant(input[c].key) /\ Take(c)
    BY <1>3, <1>7, <2>1, RightsShown, WritesTyped DEF Effects, DeleteRow
  <2> QED BY <1>2, <1>7, <2>1 DEF DeleteRow
<1>8. CASE InsertShareLink(c)
  <2>1. At(c, "insertLink") /\ Take(c) /\ InsertLink(c, input[c].role)
    BY <1>8 DEF InsertShareLink
  <2>2. kind[c] = "createLink" /\ phase[c] = "service"
    BY <1>1, <2>1 DEF Effects, Doers
  <2>3. input[c].role \in Roles \ {"none"}
    BY <2>2 DEF Good, Asked, Busy, RequestTypes, Input
  <2> QED BY <1>3, <2>1, <2>3, RightsShown, WritesTyped DEF Effects
<1>9. CASE DisableShareLink(c)
  BY <1>3, <1>9, RightsShown, WritesTyped DEF Effects, DisableShareLink
<1>10. CASE DropObject(c)
  BY <1>3, <1>10, RightsShown, WritesTyped DEF Effects, DropObject
<1>11. CASE Mint(c)
  <2>1. /\ At(c, "mint") /\ MintToken(c, actor[c]) /\ Advance(c)
        /\ acted' = [acted EXCEPT ![c] = TRUE] /\ UNCHANGED <<told, read, audit, socket>>
    BY <1>11 DEF Mint
  <2>2. phase[c] = "service" /\ kind[c] = "session" /\ Plan(kind[c])[pos[c]] = "mint"
    BY <1>1, <2>1 DEF Effects, Doers
  <2>3. actor[c] \in Users
    BY <2>2 DEF Good, Asked, Busy, LinkHolders
  <2>4. Tables'
    BY <2>1, <2>3, WritesTyped
  <2> QED BY <2>1, <2>2, <2>4, TakeStep, RightsShown DEF Effects
<1> QED BY <1>4, <1>5, <1>6, <1>7, <1>8, <1>9, <1>10, <1>11

(* The WebSocket opens with the role that was told a moment ago.           *)
LEMMA OpenStep ==
  ASSUME IInv, Watch({c \in Calls : phase'[c] \notin {"idle", "done"}}), NEW c \in Calls,
         OpenSocket(c)
  PROVE  IInv'
<1>1. /\ At(c, "openSocket") /\ Goto(c, "open", 1) /\ UNCHANGED <<rights, told, read, audit>>
      /\ acted' = [acted EXCEPT ![c] = TRUE]
      /\ socket' = [socket EXCEPT ![c] = IF "editor" \in told[c] THEN "editor" ELSE "viewer"]
  BY DEF OpenSocket
<1>2. phase[c] = "service" /\ Plan(kind[c])[pos[c]] = "openSocket"
  BY <1>1, AtService DEF Tellings
<1>3. Tables' /\ RequestTypes' /\ LocalTypes' /\ HistoryTypes'
  <2>1. HistoryTypes'
    BY <1>1, Types DEF IInv, HistoryTypes, Roles
  <2> QED BY <1>1, <2>1, GotoFrame, WritesTyped, Types DEF IInv, LocalTypes
<1>4. ASSUME NEW d \in Calls \ {c}
      PROVE  Kept(d)
  BY <1>1, GotoFrame, Types DEF IInv, HistoryTypes, Kept
<1>5. Good(c)'
  <2>1. held[c] \subseteq held'[c]
    <3>1. Busy(c)'
      BY <1>1, Types DEF IInv, LocalTypes, Goto, Busy
    <3> QED BY <3>1, Watched
  <2>2. acted'[c] = TRUE /\ (socket'[c] = "editor" => "editor" \in told[c])
    BY <1>1, Types DEF IInv, HistoryTypes
  <2> QED BY <1>1, <1>2, <2>1, <2>2, LeaveGood, RightsShown DEF Effects
<1> QED BY <1>3, <1>4, <1>5, StepRule

(* The body is read whole, or the request refused.                         *)
LEMMA ReadStep ==
  ASSUME IInv, Watch({c \in Calls : phase'[c] \notin {"idle", "done"}}), NEW c \in Calls,
         ReadBody(c)
  PROVE  IInv'
<1>1. phase[c] = "service" /\ Plan(kind[c])[pos[c]] = "body"
  BY AtService DEF ReadBody, Tellings
<1>2. CASE Refuse(c)
  BY <1>2, EndStep DEF Refuse
<1>3. CASE ~Refuse(c)
  <2>1. input[c].size \in Nat /\ MaxUploadBytes \in Nat
    BY Types, SizesKnown DEF IInv, RequestTypes, Input
  <2>2. /\ read' = [read EXCEPT ![c] = input[c].size] /\ Advance(c)
        /\ UNCHANGED <<rights, told, acted, audit, socket>>
    BY <1>3, <2>1 DEF ReadBody, ReadLimit
  <2>3. Tables' /\ RequestTypes' /\ LocalTypes' /\ HistoryTypes'
    BY <1>1, <2>1, <2>2, AdvanceFrame, WritesTyped, Types DEF IInv, LocalTypes, HistoryTypes
  <2>4. ASSUME NEW d \in Calls \ {c}
        PROVE  Kept(d)
    BY <1>1, <2>2, AdvanceFrame, Types DEF IInv, LocalTypes, Kept
  <2>5. Good(c)'
    <3>1. held[c] \subseteq held'[c]
      <4>1. Busy(c)'
        BY <1>1, <2>2, Types DEF IInv, LocalTypes, Advance, Goto, NextPhase, Busy
      <4> QED BY <4>1, Watched
    <3>2. read'[c] = input[c].size
      BY <2>2, Types DEF IInv, LocalTypes
    <3>3. told[c] \subseteq held[c] /\ acted[c] \in BOOLEAN /\ "body" \notin Effects
      BY Types DEF IInv, HistoryTypes, Good, RolesHeld, Effects
    <3> QED BY <1>1, <2>2, <3>1, <3>2, <3>3, AdvanceGood, RightsShown
  <2> QED BY <2>3, <2>4, <2>5, StepRule
<1> QED BY <1>2, <1>3

(* The audit row is written, or its error logged.                          *)
LEMMA AuditStep ==
  ASSUME IInv, Watch({c \in Calls : phase'[c] \notin {"idle", "done"}}), NEW c \in Calls,
         RecordAudit(c)
  PROVE  IInv'
<1>1. /\ phase[c] = "audit" /\ Advance(c) /\ UNCHANGED <<rights, told, read, acted, socket>>
      /\ \E came \in {"written", "failed"} : audit' = [audit EXCEPT ![c] = came]
  BY DEF RecordAudit
<1>2. Tables' /\ RequestTypes' /\ LocalTypes' /\ HistoryTypes'
  BY <1>1, AdvanceFrame, WritesTyped, Types DEF IInv, LocalTypes, HistoryTypes
<1>3. ASSUME NEW d \in Calls \ {c}
      PROVE  Kept(d)
  BY <1>1, AdvanceFrame, Types DEF IInv, HistoryTypes, Kept
<1>4. Good(c)'
  <2>1. held[c] \subseteq held'[c]
    <3>1. Busy(c)'
      BY <1>1, Types DEF IInv, LocalTypes, Advance, Goto, NextPhase, Busy
    <3> QED BY <3>1, Watched
  <2>2. told[c] \subseteq held[c] /\ audit'[c] # "none"
    BY <1>1, Types DEF IInv, HistoryTypes, Good, RolesHeld
  <2> QED BY <1>1, <2>1, <2>2, AdvanceGood
<1> QED BY <1>2, <1>3, <1>4, StepRule

(* A token or a link expires: the requests are left alone.                 *)
LEMMA ExpireStep ==
  ASSUME IInv, Watch({c \in Calls : phase'[c] \notin {"idle", "done"}}), NEW k \in Keys,
         Expire(k)
  PROVE  IInv'
<1>1. /\ LinkExpires(k) \/ TokenExpires(k)
      /\ UNCHANGED <<request, result, locals, acted, audit, socket>>
  BY DEF Expire
<1>2. Tables'
  BY <1>1, WritesTyped, Types DEF IInv, LinkExpires
<1>3. RequestTypes' /\ LocalTypes' /\ HistoryTypes'
  BY <1>1, Types DEF IInv, request, locals, RequestTypes, LocalTypes, HistoryTypes
<1>4. ASSUME NEW d \in Calls
      PROVE  Kept(d)
  BY <1>1 DEF request, locals, Kept
<1> QED BY <1>2, <1>3, <1>4, StepRule

-----------------------------------------------------------------------------
(* Requests arrive.                                                        *)

(* A request that arrives has nothing behind it.                           *)
LEMMA ArriveStep ==
  ASSUME IInv, Watch({c \in Calls : phase'[c] \notin {"idle", "done"}}), NEW c \in Calls,
         NEW k \in AllKinds, NEW u \in Users \cup {NoOne}, NEW i \in Input, Arrive(c, k, u, i),
         k \notin LinkHolders => u \in Users, Handler(k).who = "admin" => u \in Admins,
         k \in LinkHolders => i.key \in Keys, k = "grant" => i.user \in Users /\ i.role # "none",
         k = "createLink" => i.role # "none"
  PROVE  IInv'
<1>1. /\ phase[c] = "idle" /\ UNCHANGED <<rights, result, half, told, read, acted, audit, socket>>
      /\ kind' = [kind EXCEPT ![c] = k] /\ actor' = [actor EXCEPT ![c] = u]
      /\ input' = [input EXCEPT ![c] = i] /\ phase' = [phase EXCEPT ![c] = "service"]
      /\ pos' = [pos EXCEPT ![c] = 1]
  BY DEF Arrive
<1>2. Tables' /\ RequestTypes' /\ LocalTypes' /\ HistoryTypes'
  <2>1. RequestTypes'
    BY <1>1, Types DEF IInv, RequestTypes
  <2>2. LocalTypes' /\ HistoryTypes'
    BY <1>1, Types DEF IInv, LocalTypes, HistoryTypes
  <2> QED BY <1>1, <2>1, <2>2, WritesTyped, Types DEF IInv
<1>3. ASSUME NEW d \in Calls \ {c}
      PROVE  Kept(d)
  BY <1>1, Types DEF IInv, RequestTypes, LocalTypes, Kept
<1>4. Good(c)'
  <2>1. /\ kind'[c] = k /\ actor'[c] = u /\ input'[c] = i /\ phase'[c] = "service" /\ pos'[c] = 1
    BY <1>1, Types DEF IInv, RequestTypes, LocalTypes
  <2>2. /\ half'[c] = FALSE /\ told'[c] = {} /\ acted'[c] = FALSE /\ audit'[c] = "none"
        /\ socket'[c] # "editor"
    <3>1. ~half[c] /\ ~acted[c] /\ audit[c] = "none" /\ told[c] = {} /\ socket[c] # "editor"
      BY <1>1 DEF IInv, Good, Where, Effective, Audited, RolesHeld, Busy
    <3> QED BY <1>1, <3>1, Types DEF IInv, LocalTypes, HistoryTypes
  <2>3. Len(Plan(k)) \in Nat \ {0}
    BY PlansOK DEF PlanOK
  <2>4. Asked(c)'
    BY <2>1 DEF Asked
  <2>5. Where(c)' /\ Checked(c)' /\ Once(c)'
    BY <2>1, <2>2, <2>3 DEF Where, Checked, Once
  <2>6. Past(c)' /\ Effective(c)' /\ Audited(c)' /\ RolesHeld(c)'
    BY <2>1, <2>2 DEF Past, Effective, Audited, RolesHeld, Busy
  <2> QED BY <2>4, <2>5, <2>6 DEF Good
<1> QED BY <1>2, <1>3, <1>4, StepRule

(* Every request comes with what its kind is about.                        *)
LEMMA RequestStep ==
  ASSUME IInv, Watch({c \in Calls : phase'[c] \notin {"idle", "done"}}), NEW c \in Calls,
         Request(c)
  PROVE  IInv'
<1> USE SizesKnown
<1>1. NoInput \in Input /\ NoInput.key = NoOne
  BY DEF NoInput, Input, Roles
<1>2. /\ {"grant", "revoke", "createLink", "disableLink", "officeSave"} \subseteq AllKinds \ LinkHolders
      /\ LinkHolders \subseteq AllKinds /\ TokenHolders \subseteq AllKinds \ LinkHolders
      /\ {"grant", "revoke", "createLink", "disableLink", "officeSave"} \subseteq Named
      /\ {"grant", "createLink"} \subseteq Named
      /\ "grant" \notin LinkHolders \cup TokenHolders
      /\ "createLink" \notin LinkHolders \cup TokenHolders
  BY DEF AllKinds, Managers, Writers, LinkHolders, TokenHolders, Named
<1>3. CASE Ask(c)
  <2>1. PICK k \in AllKinds \ (Named \cup LinkHolders \cup TokenHolders), u \in Users :
               (Handler(k).who = "admin" => u \in Admins) /\ Arrive(c, k, u, NoInput)
    BY <1>3 DEF Ask
  <2> QED BY <1>1, <1>2, <2>1, ArriveStep
<1>4. CASE AskGrant(c)
  <2>1. PICK u \in Users, to \in Users, r \in Roles \ {"none"} :
               Arrive(c, "grant", u, [NoInput EXCEPT !.user = to, !.role = r])
    BY <1>4 DEF AskGrant
  <2> DEFINE i == [NoInput EXCEPT !.user = to, !.role = r]
  <2>2. i \in Input /\ i.user = to /\ i.role = r
    BY <2>1 DEF NoInput, Input
  <2>3. Arrive(c, "grant", u, i)
    BY <2>1
  <2> HIDE DEF i
  <2> QED BY <1>2, <2>1, <2>2, <2>3, Guests, ArriveStep
<1>5. CASE AskRevoke(c)
  <2>1. PICK u \in Users, id \in Keys : Arrive(c, "revoke", u, [NoInput EXCEPT !.key = id])
    BY <1>5 DEF AskRevoke
  <2> DEFINE i == [NoInput EXCEPT !.key = id]
  <2>2. i \in Input
    BY <2>1 DEF NoInput, Input, Roles
  <2>3. Arrive(c, "revoke", u, i)
    BY <2>1
  <2> HIDE DEF i
  <2> QED BY <1>2, <2>1, <2>2, <2>3, Guests, ArriveStep
<1>6. CASE AskLink(c)
  <2>1. PICK u \in Users, r \in Roles \ {"none"} :
               Arrive(c, "createLink", u, [NoInput EXCEPT !.role = r])
    BY <1>6 DEF AskLink
  <2> DEFINE i == [NoInput EXCEPT !.role = r]
  <2>2. i \in Input /\ i.role = r
    BY <2>1 DEF NoInput, Input
  <2>3. Arrive(c, "createLink", u, i)
    BY <2>1
  <2> HIDE DEF i
  <2> QED BY <1>2, <2>1, <2>2, <2>3, Guests, ArriveStep
<1>7. CASE AskDisable(c)
  <2>1. PICK u \in Users, id \in Links : Arrive(c, "disableLink", u, [NoInput EXCEPT !.key = id])
    BY <1>7 DEF AskDisable
  <2> DEFINE i == [NoInput EXCEPT !.key = id]
  <2>2. i \in Input
    BY <2>1 DEF NoInput, Input, Roles, Links
  <2>3. Arrive(c, "disableLink", u, i)
    BY <2>1
  <2> HIDE DEF i
  <2> QED BY <1>2, <2>1, <2>2, <2>3, Guests, ArriveStep
<1>8. CASE AskSave(c)
  <2>1. PICK u \in Users, n \in Sizes : Arrive(c, "officeSave", u, [NoInput EXCEPT !.size = n])
    BY <1>8 DEF AskSave
  <2> DEFINE i == [NoInput EXCEPT !.size = n]
  <2>2. i \in Input
    BY <2>1 DEF NoInput, Input, Roles
  <2>3. Arrive(c, "officeSave", u, i)
    BY <2>1
  <2> HIDE DEF i
  <2> QED BY <1>2, <2>1, <2>2, <2>3, Guests, ArriveStep
<1>9. CASE AskByLink(c)
  <2>1. PICK k \in LinkHolders, id \in Links : Arrive(c, k, NoOne, [NoInput EXCEPT !.key = id])
    BY <1>9 DEF AskByLink
  <2> DEFINE i == [NoInput EXCEPT !.key = id]
  <2>2. i \in Input /\ i.key \in Keys
    BY <2>1 DEF NoInput, Input, Roles, Links
  <2>3. Arrive(c, k, NoOne, i)
    BY <2>1
  <2> HIDE DEF i
  <2> QED BY <1>2, <2>1, <2>2, <2>3, Guests, ArriveStep
<1>10. CASE AskByToken(c)
  <2>1. PICK k \in TokenHolders, id \in Keys, n \in Sizes :
               /\ subject[id] # NoOne
               /\ Arrive(c, k, subject[id], [NoInput EXCEPT !.key = id, !.size = n])
    BY <1>10 DEF AskByToken
  <2> DEFINE i == [NoInput EXCEPT !.key = id, !.size = n]
  <2>2. i \in Input
    BY <2>1 DEF NoInput, Input, Roles
  <2>3. Arrive(c, k, subject[id], i) /\ subject[id] \in Users
    BY <2>1, Types DEF IInv, Tables
  <2> HIDE DEF i
  <2> QED BY <1>2, <2>1, <2>2, <2>3, Guests, ArriveStep
<1> QED BY <1>3, <1>4, <1>5, <1>6, <1>7, <1>8, <1>9, <1>10 DEF Request

-----------------------------------------------------------------------------
(* The invariant.                                                          *)

(* No request has been made at the start.                                  *)
LEMMA InitInv == Init => IInv
<1> SUFFICES ASSUME Init
             PROVE  IInv
  OBVIOUS
<1>1. Tables
  <2>1. PICK g \in [Users \ {Owner} -> Roles] :
               /\ granted = [u \in Users |-> IF u = Owner THEN "none" ELSE g[u]]
               /\ rowId = [u \in Users |-> IF granted[u] = "none" THEN NoOne ELSE Old]
    BY DEF Init, Start
  <2>2. /\ granted \in [Users -> Roles] /\ rowId \in [Users -> Keys \cup {NoOne}]
        /\ \A u \in Users : granted[u] = "none" <=> rowId[u] = NoOne
    BY <2>1, NamesDiffer DEF Roles, Keys
  <2>3. /\ links \in [Keys -> Roles] /\ open \in SUBSET Keys /\ \A k \in open : links[k] # "none"
    BY DEF Init, Start, Roles, Keys
  <2>4. /\ subject \in [Keys -> Users \cup {NoOne}] /\ fresh \in SUBSET Keys
        /\ \A k \in fresh : subject[k] \in Users
    BY DEF Init, Start, Keys
  <2> QED BY <2>2, <2>3, <2>4 DEF Tables, Init, Start
<1>2. NoInput \in Input
  BY DEF NoInput, Input, Roles
<1>3. RequestTypes /\ LocalTypes /\ HistoryTypes /\ held \in [Calls -> SUBSET Rights]
  BY <1>2 DEF Init, Start, All, RequestTypes, LocalTypes, HistoryTypes, Roles
<1>4. ASSUME NEW c \in Calls
      PROVE  Good(c) /\ Watching(c) /\ ~half[c]
  <2>1. /\ phase[c] = "idle" /\ half[c] = FALSE /\ told[c] = {} /\ acted[c] = FALSE
        /\ audit[c] = "none" /\ socket[c] = "none"
    BY DEF Init, All
  <2> QED BY <2>1 DEF Good, Asked, Where, Checked, Once, Past, Effective, Audited, RolesHeld,
                      Busy, Watching
<1> QED BY <1>1, <1>3, <1>4, Types DEF IInv

(* A step that changes nothing keeps the invariant.                        *)
LEMMA StutterInv == IInv /\ UNCHANGED vars => IInv'
<1> SUFFICES ASSUME IInv, UNCHANGED vars
             PROVE  IInv'
  OBVIOUS
<1>1. /\ UNCHANGED <<alive, granted, rowId, links, open, subject, fresh, kind, actor, input, result>>
      /\ UNCHANGED <<held, phase, pos, half, told, read, acted, audit, socket>>
  BY DEF vars, rights, request, locals
<1>2. TypeOK'
  BY <1>1 DEF IInv, TypeOK
<1>3. ASSUME NEW c \in Calls
      PROVE  Good(c)' /\ Watching(c)'
  <2>1. Kept(c) /\ held'[c] = held[c]
    BY <1>1 DEF Kept
  <2>2. Watching(c)'
    BY <1>1 DEF IInv, Watching, Busy, Has, RoleOf
  <2> QED BY <2>1, <2>2, KeptGood DEF IInv
<1> QED BY <1>2, <1>3 DEF IInv

(* Every step keeps the invariant.                                         *)
LEMMA StepInv == IInv /\ [Next]_vars => IInv'
<1>1. ASSUME IInv, Next
      PROVE  IInv'
  <2> USE <1>1
  <2>1. Watch({c \in Calls : phase'[c] \notin {"idle", "done"}})
    BY DEF Next
  <2>2. ASSUME NEW c \in Calls, Request(c)
        PROVE  IInv'
    BY <2>1, <2>2, RequestStep
  <2>3. ASSUME NEW c \in Calls, Works(c)
        PROVE  IInv'
    <3>1. CASE DocumentOwner(c) \/ FindForUser(c)
      BY <2>1, <3>1, RoleStep
    <3>2. CASE FindByID(c) \/ ListAccessible(c) \/ FindByTokenHash(c) \/ LinkMayEdit(c)
                 \/ VerifyToken(c) \/ Fetch(c)
      BY <2>1, <3>2, LookStep
    <3>3. CASE Add(c) \/ InsertPermission(c) \/ DeleteRow(c) \/ InsertShareLink(c)
                 \/ DisableShareLink(c) \/ DeleteDocument(c) \/ DropObject(c) \/ Mint(c)
      BY <2>1, <3>3, WriteStep
    <3>4. CASE ReadBody(c)
      BY <2>1, <3>4, ReadStep
    <3>5. CASE OpenSocket(c)
      BY <2>1, <3>5, OpenStep
    <3>6. CASE RecordAudit(c)
      BY <2>1, <3>6, AuditStep
    <3>7. CASE CloseSocket(c) \/ Respond(c)
      BY <2>1, <3>7, EndStep DEF CloseSocket, Respond
    <3> QED BY <2>3, <3>1, <3>2, <3>3, <3>4, <3>5, <3>6, <3>7 DEF Works
  <2>4. ASSUME NEW c \in Calls, StepFails(c)
        PROVE  IInv'
    BY <2>1, <2>4, EndStep DEF StepFails, Refuse
  <2>5. ASSUME NEW k \in Keys, Expire(k)
        PROVE  IInv'
    BY <2>1, <2>5, ExpireStep
  <2>6. ASSUME Crash
        PROVE  IInv'
    BY <2>1, <2>6, EndStep DEF Crash
  <2> QED BY <2>2, <2>3, <2>4, <2>5, <2>6 DEF Next
<1> QED BY <1>1, StutterInv

(* In every reachable state the requests are where their plans say, and    *)
(* have been seen with the rights the steps behind them ask for.           *)
THEOREM AccessInvariant == Spec => []IInv
BY InitInv, StepInv, PTL DEF Spec

(* Every variable has its type; a permission row exists exactly for those  *)
(* who have a right, and what is in force - a link, a token - names one.   *)
THEOREM TypeCorrect == Spec => []TypeOK
<1>1. IInv => TypeOK
  BY DEF IInv
<1> QED BY <1>1, AccessInvariant, PTL

(* Handlers, services and repositories check in steps what others change   *)
(* between the steps: no request acts, or is answered with success, for    *)
(* somebody who lacked one of the needed rights all the while.             *)
THEOREM RequestsAreJustified == Spec => []Justified
<1>1. IInv => Justified
  BY DEF IInv, Justified, Good, Effective, Past
<1> QED BY <1>1, AccessInvariant, PTL

(* Service.Role is asked again and again: no answer, token or WebSocket    *)
(* tells of a role the actor never had during the request.                 *)
THEOREM ToldRolesAreHeld == Spec => []RolesToldAreHeld
<1>1. IInv => RolesToldAreHeld
  BY DEF IInv, RolesToldAreHeld, Good, RolesHeld
<1> QED BY <1>1, AccessInvariant, PTL

(* recordAudit comes after the service and before the answer: it tells of  *)
(* no change that did not happen, and success without it is not answered.  *)
THEOREM AuditIsHonest == Spec => []AuditFollowsEffects
<1>1. IInv => AuditFollowsEffects
  BY DEF IInv, AuditFollowsEffects, Good, Audited, Past
<1> QED BY <1>1, AccessInvariant, PTL

(* limitedReader lets one byte more than the limit through: an office body *)
(* that is stored is the whole body, of any size and for any limit.        *)
THEOREM BodiesAreWhole == Spec => []WholeBodies
<1>1. IInv => WholeBodies
  BY DEF IInv, WholeBodies, Good, Effective
<1> QED BY <1>1, AccessInvariant, PTL

-----------------------------------------------------------------------------
(* The policy.  INSTANCE makes a second copy of AccessRights; it is the    *)
(* same.                                                                   *)

(* Its tables and kinds.                                                   *)
LEMMA SameTables ==
  /\ Policy!rights = rights /\ Policy!request = request /\ Policy!NoInput = NoInput
  /\ Policy!Keys = Keys /\ Policy!Input = Input /\ Policy!AllKinds = AllKinds
  /\ Policy!Changing = Changing /\ Policy!Rights = Rights
  /\ Policy!rights' = rights' /\ Policy!request' = request'
BY DEF Policy!rights, rights, Policy!request, request, Policy!NoInput, NoInput,
   Policy!Keys, Keys, Policy!Input, Input, Policy!Roles, Roles, Policy!AllKinds, AllKinds,
   Policy!Readers, Readers, Policy!Writers, Writers, Policy!Managers, Managers,
   Policy!LinkHolders, LinkHolders, Policy!TokenHolders, TokenHolders,
   Policy!Administrators, Administrators, Policy!Changing, Changing, Policy!Rights, Rights

(* The rights a request needs, and the change it is to make.               *)
LEMMA SameRights ==
  ASSUME NEW c
  PROVE  /\ Policy!Entitled(c) <=> Entitled(c)
         /\ Policy!Change(c) <=> Change(c)
BY DEF Policy!Entitled, Entitled, Policy!Needed, Needed,
   Policy!Readers, Readers, Policy!Writers, Writers, Policy!Managers, Managers,
   Policy!LinkHolders, LinkHolders, Policy!TokenHolders, TokenHolders,
   Policy!Change, Change, Policy!InsertGrant, InsertGrant, Policy!DeleteGrant, DeleteGrant,
   Policy!InsertLink, InsertLink, Policy!DisableLink, DisableLink,
   Policy!SoftDelete, SoftDelete, Policy!AddVersion, AddVersion, Policy!MintToken, MintToken,
   Policy!rights, rights

(* Answers, expiries and the history of rights.                            *)
LEMMA SameStatements ==
  /\ \A C, answer : Policy!Answered(C, answer) <=> Answered(C, answer)
  /\ \A active : Policy!Watch(active) <=> Watch(active)
  /\ \A k : /\ Policy!LinkExpires(k) <=> LinkExpires(k)
            /\ Policy!TokenExpires(k) <=> TokenExpires(k)
  /\ Policy!Start <=> Start
BY DEF Policy!Answered, Answered, Policy!NoInput, NoInput, Policy!Watch, Watch,
   Policy!Rights, Rights, Policy!Has, Has, Policy!RoleOf, RoleOf, Policy!Keys, Keys,
   Policy!LinkExpires, LinkExpires, Policy!DisableLink, DisableLink,
   Policy!TokenExpires, TokenExpires, Policy!Start, Start, Policy!Roles, Roles,
   Policy!All, All

(* How far a request is.                                                   *)
LEMMA StageOf ==
  ASSUME NEW c \in Calls
  PROVE  /\ Stage[c] = IF Busy(c) THEN IF acted[c] THEN "acted" ELSE "begun" ELSE phase[c]
         /\ Stage'[c] = IF Busy(c)' THEN IF acted'[c] THEN "acted" ELSE "begun" ELSE phase'[c]
BY DEF Stage, Busy

(* Both specifications watch the same requests.                            *)
LEMMA WatchStages ==
  ASSUME Watch({c \in Calls : phase'[c] \notin {"idle", "done"}})
  PROVE  Policy!Watch({c \in Calls : Stage'[c] \notin {"idle", "done"}})
<1>1. {c \in Calls : Stage'[c] \notin {"idle", "done"}} = {c \in Calls : phase'[c] \notin {"idle", "done"}}
  BY StageOf DEF Busy
<1> QED BY <1>1, SameStatements

(* A request that looks, or fails to hear of its effect, has not come on.  *)
LEMMA LookLooks ==
  ASSUME IInv, UNCHANGED <<rights, request, result>>, acted' = acted,
         NEW c \in Calls, Busy(c), Busy(c)', \A d \in Calls \ {c} : phase'[d] = phase[d]
  PROVE  Policy!Look
<1>1. ASSUME NEW d \in Calls
      PROVE  Stage'[d] = Stage[d]
  BY StageOf DEF Busy
<1>2. Stage' = Stage
  BY <1>1 DEF Stage
<1> QED BY <1>2, SameTables DEF Policy!Look

(* So does one that goes on without an effect.                             *)
LEMMA AdvanceLooks ==
  ASSUME IInv, NEW c \in Calls, phase[c] \in {"service", "audit", "tell"}, Advance(c),
         UNCHANGED <<rights, acted>>
  PROVE  Policy!Look
<1>1. Busy(c) /\ Busy(c)' /\ UNCHANGED <<request, result>>
  BY Types DEF IInv, LocalTypes, Advance, Goto, NextPhase, Busy
<1> QED BY <1>1, AdvanceFrame, LookLooks

(* A request ends with an error, or without telling of the document.       *)
LEMMA EndRefuses ==
  ASSUME NEW C \in SUBSET Calls, \A c \in C : Busy(c), NEW answer \in {"error", "empty"},
         End(C, answer)
  PROVE  Policy!Refusal(C, answer)
<1>1. \A c \in C : Stage[c] \in {"begun", "acted"}
  BY StageOf
<1>2. Stage' = [c \in Calls |-> IF c \in C THEN "done" ELSE Stage[c]]
  BY DEF Stage, End
<1> QED BY <1>1, <1>2, SameTables, SameStatements DEF Policy!Refusal, Policy!Ends, End

(* It ends with success: entitled, and after its effect.                   *)
LEMMA EndSucceeds ==
  ASSUME IInv, NEW c \in Calls, phase[c] \in {"ok", "open"}, End({c}, "ok")
  PROVE  Policy!Success(c)
<1>1. Busy(c) /\ Entitled(c) /\ (kind[c] \in Changing => acted[c])
  BY DEF IInv, Good, Past, Busy
<1>2. Stage[c] \in {"begun", "acted"} /\ (kind[c] \in Changing => Stage[c] = "acted")
  BY <1>1, StageOf
<1>3. Stage' = [d \in Calls |-> IF d \in {c} THEN "done" ELSE Stage[d]]
  BY DEF Stage, End
<1> QED BY <1>1, <1>2, <1>3, SameTables, SameRights, SameStatements
        DEF Policy!Success, Policy!Ends, End

(* It has its effect: entitled, once, and the one of its kind.             *)
LEMMA ActIsEffect ==
  ASSUME IInv, NEW c \in Calls, phase[c] = "service", Plan(kind[c])[pos[c]] \in Effects,
         Right(Plan(kind[c])[pos[c]]) \subseteq held[c], Change(c),
         acted' = [acted EXCEPT ![c] = TRUE], UNCHANGED <<request, result>>, Busy(c)',
         \A d \in Calls \ {c} : phase'[d] = phase[d]
  PROVE  Policy!Effect(c)
<1>1. Good(c) /\ Watching(c) /\ Busy(c)
  BY DEF IInv, Busy
<1>2. Entitled(c)
  BY <1>1, Entitling
<1>3. ~acted[c]
  <2>1. /\ kind[c] \in AllKinds /\ pos[c] \in Nat \ {0} /\ pos[c] <= Len(Plan(kind[c]))
        /\ Len(Plan(kind[c])) \in Nat
    BY <1>1, PlansOK DEF Good, Asked, Where, PlanOK
  <2>2. \A p, q \in 1..Len(Plan(kind[c])) :
          Plan(kind[c])[p] \in Effects /\ Plan(kind[c])[q] \in Effects => p = q
    BY <2>1, PlansOK DEF PlanOK, OneEffect
  <2>3. \A i \in 1..(pos[c] - 1) : Plan(kind[c])[i] \notin Effects
    BY <2>1, <2>2
  <2> QED BY <1>1, <2>3 DEF Good, Once
<1>4. acted'[c] = TRUE /\ \A d \in Calls \ {c} : acted'[d] = acted[d]
  BY Types DEF IInv, HistoryTypes
<1>5. ASSUME NEW d \in Calls
      PROVE  Stage'[d] = IF d = c THEN "acted" ELSE Stage[d]
  BY <1>4, StageOf DEF Busy
<1>6. Stage[c] = "begun" /\ Stage' = [Stage EXCEPT ![c] = "acted"]
  <2>1. Stage[c] = "begun"
    BY <1>1, <1>3, StageOf
  <2>2. Stage' = [d \in Calls |-> Stage'[d]] /\ Stage = [d \in Calls |-> Stage[d]]
    BY DEF Stage
  <2> QED BY <1>5, <2>1, <2>2
<1> QED BY <1>2, <1>6, SameTables, SameRights DEF Policy!Effect

(* The statement of each kind that writes is its effect, or is refused.    *)
LEMMA WriteIsEffect ==
  ASSUME IInv, NEW c \in Calls,
         Add(c) \/ InsertPermission(c) \/ DeleteRow(c) \/ InsertShareLink(c)
           \/ DisableShareLink(c) \/ DeleteDocument(c) \/ DropObject(c) \/ Mint(c)
           \/ OpenSocket(c)
  PROVE  Policy!Effect(c) \/ Policy!Refusal({c}, "error")
<1>1. ASSUME NEW step \in Effects, At(c, step)
      PROVE  /\ phase[c] = "service" /\ Plan(kind[c])[pos[c]] = step
             /\ kind[c] \in Doers(step) /\ Busy(c)
             /\ alive => Right(step) \subseteq held[c]
             /\ step \notin {"add", "delete"} => Right(step) \subseteq held[c]
  <2>1. phase[c] = "service" /\ Plan(kind[c])[pos[c]] = step /\ Busy(c)
    BY <1>1, AtService DEF Effects, Tellings, Busy
  <2>2. /\ kind[c] \in AllKinds /\ pos[c] \in Nat \ {0} /\ pos[c] <= Len(Plan(kind[c]))
    BY <2>1 DEF IInv, Good, Asked, Where, Busy
  <2>3. kind[c] \in Doers(step)
    BY <2>1, <2>2, PlansOK DEF PlanOK, OneEffect
  <2>4. alive => "live" \in held[c]
    BY <2>1, HasRights, Seen
  <2> QED BY <2>1, <2>3, <2>4, RightsShown DEF Effects
<1>2. ASSUME Refuse(c), Busy(c)
      PROVE  Policy!Refusal({c}, "error")
  BY <1>2, EndRefuses DEF Refuse
<1>3. ASSUME NEW step \in Effects, At(c, step), Right(step) \subseteq held[c], Change(c),
             acted' = [acted EXCEPT ![c] = TRUE],
             Advance(c) \/ Goto(c, "error", 1) \/ Goto(c, "open", 1)
      PROVE  Policy!Effect(c)
  <2>1. phase[c] = "service" /\ Plan(kind[c])[pos[c]] = step
    BY <1>1, <1>3
  <2>2. /\ UNCHANGED <<request, result>> /\ Busy(c)'
        /\ \A d \in Calls \ {c} : phase'[d] = phase[d]
    BY <1>3, <2>1, Types DEF IInv, LocalTypes, Advance, Goto, NextPhase, Busy
  <2> QED BY <1>3, <2>1, <2>2, ActIsEffect
<1>4. CASE Add(c)
  <2>1. CASE alive
    <3>1. At(c, "add") /\ Take(c) /\ AddVersion
      BY <1>4, <2>1 DEF Add
    <3>2. kind[c] \in Writers \cup {"saveShared", "wopiSave"} /\ Right("add") \subseteq held[c]
      BY <1>1, <2>1, <3>1 DEF Effects, Doers
    <3> QED BY <1>3, <3>1, <3>2 DEF Effects, Change, Take
  <2> QED BY <1>1, <1>2, <1>4, <2>1 DEF Add, Effects
<1>5. CASE DeleteDocument(c)
  <2>1. CASE alive
    <3>1. At(c, "delete") /\ Take(c) /\ SoftDelete
      BY <1>5, <2>1 DEF DeleteDocument
    <3>2. kind[c] \in {"delete", "adminDelete"} /\ Right("delete") \subseteq held[c]
      BY <1>1, <2>1, <3>1 DEF Effects, Doers
    <3> QED BY <1>3, <3>1, <3>2 DEF Effects, Change, Take
  <2> QED BY <1>1, <1>2, <1>5, <2>1 DEF DeleteDocument, Effects
<1>6. CASE InsertPermission(c)
  <2>1. At(c, "insertGrant") /\ Take(c) /\ InsertGrant(c, input[c].user, input[c].role)
    BY <1>6 DEF InsertPermission
  <2>2. kind[c] = "grant" /\ Right("insertGrant") \subseteq held[c]
    BY <1>1, <2>1 DEF Effects, Doers
  <2> QED BY <1>3, <2>1, <2>2 DEF Effects, Change, Take
<1>7. CASE DeleteRow(c)
  <2>1. CASE DeleteGrant(input[c].key) /\ Take(c)
    <3>1. kind[c] = "revoke" /\ Right("deleteGrant") \subseteq held[c] /\ At(c, "deleteGrant")
      BY <1>1, <1>7 DEF Effects, Doers, DeleteRow
    <3> QED BY <1>3, <2>1, <3>1 DEF Effects, Change, Take
  <2> QED BY <1>1, <1>2, <1>7, <2>1 DEF DeleteRow, Effects
<1>8. CASE InsertShareLink(c)
  <2>1. At(c, "insertLink") /\ Take(c) /\ InsertLink(c, input[c].role)
    BY <1>8 DEF InsertShareLink
  <2>2. kind[c] = "createLink" /\ Right("insertLink") \subseteq held[c]
    BY <1>1, <2>1 DEF Effects, Doers
  <2> QED BY <1>3, <2>1, <2>2 DEF Effects, Change, Take
<1>9. CASE DisableShareLink(c)
  <2>1. At(c, "disableLink") /\ Take(c) /\ DisableLink(input[c].key)
    BY <1>9 DEF DisableShareLink
  <2>2. kind[c] = "disableLink" /\ Right("disableLink") \subseteq held[c]
    BY <1>1, <2>1 DEF Effects, Doers
  <2> QED BY <1>3, <2>1, <2>2 DEF Effects, Change, Take
<1>10. CASE DropObject(c)
  <2>1. At(c, "dropObject") /\ Take(c) /\ UNCHANGED rights
    BY <1>10 DEF DropObject
  <2>2. kind[c] = "storageDelete" /\ Right("dropObject") \subseteq held[c]
    BY <1>1, <2>1 DEF Effects, Doers
  <2> QED BY <1>3, <2>1, <2>2 DEF Effects, Change, Take
<1>11. CASE Mint(c)
  <2>1. At(c, "mint") /\ MintToken(c, actor[c]) /\ Advance(c) /\ acted' = [acted EXCEPT ![c] = TRUE]
    BY <1>11 DEF Mint
  <2>2. kind[c] = "session" /\ Right("mint") \subseteq held[c]
    BY <1>1, <2>1 DEF Effects, Doers
  <2> QED BY <1>3, <2>1, <2>2 DEF Effects, Change
<1>12. CASE OpenSocket(c)
  <2>1. /\ At(c, "openSocket") /\ UNCHANGED rights /\ Goto(c, "open", 1)
        /\ acted' = [acted EXCEPT ![c] = TRUE]
    BY <1>12 DEF OpenSocket
  <2>2. kind[c] \in {"markdownSocket", "casualSocket"} /\ Right("openSocket") \subseteq held[c]
    BY <1>1, <2>1 DEF Effects, Doers
  <2> QED BY <1>3, <2>1, <2>2 DEF Effects, Change
<1> QED BY <1>4, <1>5, <1>6, <1>7, <1>8, <1>9, <1>10, <1>11, <1>12

(* A step that reads looks, or refuses.                                    *)
LEMMA ReadIsLook ==
  ASSUME IInv, NEW c \in Calls,
         DocumentOwner(c) \/ FindForUser(c) \/ FindByID(c) \/ ListAccessible(c)
           \/ FindByTokenHash(c) \/ LinkMayEdit(c) \/ VerifyToken(c) \/ Fetch(c) \/ ReadBody(c)
           \/ RecordAudit(c)
  PROVE  Policy!Look \/ \E answer \in {"error", "empty"} : Policy!Refusal({c}, answer)
<1>1. phase[c] \in {"service", "audit", "tell"} /\ Busy(c)
  <2>1. CASE DocumentOwner(c) \/ FindForUser(c)
    BY <2>1, AtRole DEF DocumentOwner, FindForUser, Busy
  <2>2. CASE FindByID(c) \/ ListAccessible(c) \/ FindByTokenHash(c) \/ LinkMayEdit(c)
               \/ VerifyToken(c) \/ ReadBody(c)
    BY <2>2, AtService DEF FindByID, ListAccessible, FindByTokenHash, LinkMayEdit,
                           VerifyToken, ReadBody, Tellings, Busy
  <2>3. CASE Fetch(c)
    <3>1. /\ At(c, Step(c)) /\ Step(c) \notin Tellings
          /\ Step(c) \notin {"idle", "audit", "ok", "error", "open", "done"}
      BY <2>3 DEF Fetch, At, Tellings
    <3> QED BY <3>1, AtService DEF Busy
  <2>4. CASE RecordAudit(c)
    BY <2>4 DEF RecordAudit, Busy
  <2> QED BY <2>1, <2>2, <2>3, <2>4
<1>2. CASE Advance(c) /\ UNCHANGED <<rights, acted>>
  BY <1>1, <1>2, AdvanceLooks
<1>3. CASE \E answer \in {"error", "empty"} : End({c}, answer)
  BY <1>1, <1>3, EndRefuses
<1>4. CASE UNCHANGED <<rights, request, result, phase, acted>>
  BY <1>1, <1>4, LookLooks DEF Busy
<1> QED BY <1>2, <1>3, <1>4
        DEF DocumentOwner, FindForUser, Found, FindByID, ListAccessible, FindByTokenHash,
            LinkMayEdit, VerifyToken, Fetch, ReadBody, RecordAudit, Pass, Refuse

(* A request that arrives begins.                                          *)
LEMMA ArrivalBegins ==
  ASSUME IInv, IInv', NEW c \in Calls, Request(c)
  PROVE  Policy!Begin(c)
<1>1. PICK k, u, i : Arrive(c, k, u, i)
  BY DEF Request, Ask, AskGrant, AskRevoke, AskLink, AskDisable, AskSave, AskByLink, AskByToken
<1>2. /\ phase[c] = "idle" /\ phase' = [phase EXCEPT ![c] = "service"]
      /\ UNCHANGED <<rights, result, acted>>
      /\ \A d \in Calls \ {c} : kind'[d] = kind[d] /\ actor'[d] = actor[d] /\ input'[d] = input[d]
  BY <1>1, Types DEF Arrive, IInv, RequestTypes
<1>3. phase'[c] = "service" /\ ~Busy(c) /\ Busy(c)' /\ ~acted'[c]
  BY <1>2, Types DEF IInv, LocalTypes, Busy, Good, Effective
<1>4. kind'[c] \in AllKinds /\ actor'[c] \in Users \cup {NoOne} /\ input'[c] \in Input
  <2>1. kind'[c] \in AllKinds
    BY <1>3 DEF IInv, Good, Asked
  <2>2. actor' \in [Calls -> Users \cup {NoOne}] /\ input' \in [Calls -> Input]
    BY DEF IInv, TypeOK
  <2> QED BY <2>1, <2>2
<1>5. Stage[c] = "idle" /\ Stage' = [Stage EXCEPT ![c] = "begun"]
  <2>1. Stage[c] = "idle" /\ Stage'[c] = "begun"
    BY <1>2, <1>3, StageOf DEF Busy
  <2>2. ASSUME NEW d \in Calls \ {c}
        PROVE  Stage'[d] = Stage[d]
    BY <1>2, Types, StageOf DEF IInv, LocalTypes, Busy
  <2>3. Stage' = [d \in Calls |-> Stage'[d]] /\ Stage = [d \in Calls |-> Stage[d]]
    BY DEF Stage
  <2> QED BY <2>1, <2>2, <2>3
<1> QED BY <1>2, <1>4, <1>5, SameTables DEF Policy!Begin

(* Every step is a step of the policy or none.                             *)
LEMMA NextPolicy ==
  ASSUME IInv, IInv', [Next]_vars
  PROVE  [Policy!Next]_(Policy!vars)
<1>1. CASE UNCHANGED vars
  <2>1. UNCHANGED <<rights, request, result, held, phase, acted>>
    BY <1>1 DEF vars, locals
  <2>2. Stage' = Stage
    BY <2>1 DEF Stage
  <2> QED BY <2>1, <2>2, SameTables DEF Policy!vars
<1>2. CASE Next
  <2>1. Policy!Watch({c \in Calls : Stage'[c] \notin {"idle", "done"}})
    BY <1>2, WatchStages DEF Next
  <2>2. ASSUME NEW c \in Calls, Request(c)
        PROVE  Policy!Begin(c)
    BY <2>2, ArrivalBegins
  <2>3. ASSUME NEW c \in Calls, Works(c)
        PROVE  \/ Policy!Look \/ Policy!Effect(c) \/ Policy!Success(c)
               \/ \E answer \in {"error", "empty"} : Policy!Refusal({c}, answer)
    <3>1. CASE Respond(c) /\ phase[c] = "error"
      BY <3>1, EndRefuses DEF Respond, Busy
    <3>2. CASE CloseSocket(c) \/ (Respond(c) /\ phase[c] = "ok")
      BY <3>2, EndSucceeds DEF CloseSocket, Respond
    <3> QED BY <2>3, <3>1, <3>2, WriteIsEffect, ReadIsLook DEF Works, Respond
  <2>4. ASSUME NEW c \in Calls, StepFails(c)
        PROVE  Policy!Refusal({c}, "error")
    BY <2>4, EndRefuses DEF StepFails, Refuse, Busy
  <2>5. ASSUME NEW k \in Keys, Expire(k)
        PROVE  Policy!Expiry(k)
    <3>1. Stage' = Stage
      BY <2>5 DEF Expire, locals, Stage
    <3> QED BY <2>5, <3>1, SameTables, SameStatements DEF Expire, Policy!Expiry
  <2>6. ASSUME Crash
        PROVE  Policy!Refusal({c \in Calls : Busy(c)}, "error")
    BY <2>6, EndRefuses DEF Crash, Busy
  <2>7. /\ \A c \in Calls : {c} \in SUBSET Calls
        /\ {c \in Calls : Busy(c)} \in SUBSET Calls
    OBVIOUS
  <2>8. \/ \E c \in Calls : Policy!Begin(c) \/ Policy!Effect(c) \/ Policy!Success(c)
        \/ \E C \in SUBSET Calls, answer \in {"error", "empty"} : Policy!Refusal(C, answer)
        \/ \E k \in Keys : Policy!Expiry(k)
        \/ Policy!Look
    BY <1>2, <2>2, <2>3, <2>4, <2>5, <2>6, <2>7 DEF Next
  <2> QED BY <2>1, <2>8, SameTables DEF Policy!Next
<1> QED BY <1>1, <1>2

(* So is every initial state.                                              *)
LEMMA InitPolicy == Init => Policy!Init
<1>1. Init => Stage = Policy!All("idle")
  BY DEF Init, All, Stage, Policy!All
<1> QED BY <1>1, SameStatements DEF Init, Policy!Init

(* The checks and statements of the handlers, however they interleave with *)
(* other requests, failures and crashes, amount to requests that act at    *)
(* most once, in one step, and only with every right they need.            *)
THEOREM AccessImplementsPolicy == Spec => ImplementsPolicy
<1>1. IInv /\ IInv' /\ [Next]_vars => [Policy!Next]_(Policy!vars)
  BY NextPolicy
<1> QED BY <1>1, InitPolicy, AccessInvariant, PTL DEF Spec, ImplementsPolicy, Policy!Spec

=============================================================================
