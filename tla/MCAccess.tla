------------------------------ MODULE MCAccess ------------------------------
(* Instances of Access for TLC.                                            *)
EXTENDS Access, TLC

CONSTANTS c1, c2

(* A request that takes rights away beside one of any kind.                 *)
TakeAndAny ==
  (c1 :> {"revoke", "disableLink", "delete"}) @@ (c2 :> AllKinds)

(* An editor's WebSocket, and the revocation of the editor's right.        *)
SocketAndRevoke == (c1 :> {"revoke"}) @@ (c2 :> {"casualSocket", "markdownSocket"})

=============================================================================
