----------------------------- MODULE MCAccounts -----------------------------
(* Instances of Accounts for TLC.                                          *)
EXTENDS Accounts, TLC

CONSTANTS c1, c2, free

(* What an administrator sends: a demotion, a disabling, a re-enabling, a  *)
(* promotion with a new address.                                           *)
Body(e, a, d) == [email |-> e, admin |-> a, disabled |-> d]
AnyChange == {Body(NoOne, FALSE, NoOne), Body(NoOne, NoOne, TRUE), Body(NoOne, NoOne, FALSE),
              Body(free, TRUE, NoOne)}
RoleChanges == {Body(NoOne, FALSE, NoOne), Body(NoOne, NoOne, TRUE)}

(* Two requests of every kind, interchangeable as passwords are.           *)
EveryKind == (c1 :> AllKinds) @@ (c2 :> AllKinds)
Symmetry == Permutations(Passwords) \cup Permutations({c1, c2})

(* Two administrators that take each other's rights away.                  *)
OnlyUpdates == (c1 :> {"update"}) @@ (c2 :> {"update"})

=============================================================================
