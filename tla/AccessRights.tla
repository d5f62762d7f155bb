---------------------------- MODULE AccessRights ----------------------------
(***************************************************************************)
(* The rights on one document: its permission rows, its share links, the   *)
(* tokens of its editor sessions, the statements that change them, and the *)
(* rights each kind of request needs (backend/internal/permission, share,  *)
(* office).                                                                *)
(*                                                                         *)
(* A request makes at most one permission row, link or token; their random *)
(* ids are abstracted to the request.  Old names what existed before.      *)
(***************************************************************************)
EXTENDS Integers, FiniteSets

CONSTANTS
  Users, Owner, Admins,  \* accounts; whose the document is; administrators
  Calls,                 \* HTTP requests, each made once
  Old,                   \* the row, link and token of the start
  NoOne                  \* NULL

ASSUME NamesDiffer == Old \notin Calls /\ NoOne \notin Users \cup Calls \cup {Old}
ASSUME OwnerKnown == Owner \in Users /\ Admins \subseteq Users

VARIABLES
  alive,               \* the document is not deleted
  granted, rowId,      \* document_permissions: a user's right, the row's id
  links, open,         \* share_links: the right they carry, those in force
  subject, fresh,      \* editor tokens: whose they are, those not expired
  kind, actor, input,  \* a request: what it is, who makes it, about what
  result, held         \* its answer, and history: the rights it had so far

rights == <<alive, granted, rowId, links, open, subject, fresh>>
request == <<kind, actor, input>>

Keys == Calls \cup {Old}
Roles == {"none", "viewer", "editor"}
Input == [user : Users \cup {NoOne}, role : Roles, key : Keys \cup {NoOne}, size : Nat]
NoInput == [user |-> NoOne, role |-> "none", key |-> NoOne, size |-> 0]

Readers == {"list", "get", "download", "getMarkdown", "snapshot", "versions", "downloadVersion",
            "session", "collabSession", "roomInfo", "sheetsSeed", "docsSeed", "markdownSocket"}
Writers == {"updateMarkdown", "restoreVersion", "officeSave"}
Managers == {"delete", "listPermissions", "grant", "revoke", "createLink", "listLinks", "disableLink"}
LinkHolders == {"access", "downloadShared", "saveShared"}
TokenHolders == {"wopiInfo", "wopiContent", "wopiSave", "casualSocket"}
Administrators == {"adminList", "adminDelete", "storageList", "storageDownload", "storageDelete",
                   "auditLogs"}
AllKinds == Readers \cup Writers \cup Managers \cup LinkHolders \cup TokenHolders \cup Administrators

(* Requests that are to change something.                                  *)
Changing == (Managers \ {"listPermissions", "listLinks"}) \cup Writers
              \cup {"saveShared", "wopiSave", "adminDelete", "storageDelete"}

-----------------------------------------------------------------------------
(* The rights request c has now.                                           *)
RoleOf(u) == IF u = Owner THEN "owner" ELSE IF u \in Users THEN granted[u] ELSE "none"

Has(c, right) ==
  CASE right = "live" -> alive
    [] right = "viewer" -> RoleOf(actor[c]) # "none"
    [] right = "editor" -> RoleOf(actor[c]) \in {"editor", "owner"}
    [] right = "owner" -> RoleOf(actor[c]) = "owner"
    [] right = "admin" -> actor[c] \in Admins
    [] right = "link" -> input[c].key \in open
    [] right = "linkEditor" -> input[c].key \in Keys /\ links[input[c].key] = "editor"
    [] right = "token" -> input[c].key \in fresh

Rights == {"live", "viewer", "editor", "owner", "admin", "link", "linkEditor", "token"}

(* The rights the routes, the permission matrix and the links stand for.   *)
Needed(k) ==
  CASE k \in Readers -> {"live", "viewer"}
    [] k \in Writers -> {"live", "editor"}
    [] k \in Managers -> {"live", "owner"}
    [] k = "saveShared" -> {"link", "live", "linkEditor"}
    [] k \in LinkHolders \ {"saveShared"} -> {"link", "live"}
    [] k = "wopiSave" -> {"token", "live", "editor"}
    [] k \in TokenHolders \ {"wopiSave"} -> {"token", "live", "viewer"}
    [] k = "adminDelete" -> {"admin", "live"}
    [] OTHER -> {"admin"}

Entitled(c) == Needed(kind[c]) \subseteq held[c]

(* Every step ends by noting the rights the requests under way now have.   *)
Watch(active) ==
  held' = [c \in Calls |-> IF c \in active THEN held[c] \cup {r \in Rights : Has(c, r)'} ELSE {}]

-----------------------------------------------------------------------------
(* The statements.                                                         *)

(* INSERT ... ON CONFLICT DO UPDATE: the row that exists keeps its id.     *)
InsertGrant(id, u, role) ==
  /\ granted' = [granted EXCEPT ![u] = role]
  /\ rowId' = [rowId EXCEPT ![u] = IF @ = NoOne THEN id ELSE @]
  /\ UNCHANGED <<alive, links, open, subject, fresh>>

DeleteGrant(id) ==
  /\ \E u \in Users : /\ rowId[u] = id
                      /\ granted' = [granted EXCEPT ![u] = "none"]
                      /\ rowId' = [rowId EXCEPT ![u] = NoOne]
  /\ UNCHANGED <<alive, links, open, subject, fresh>>

InsertLink(id, role) ==
  /\ links' = [links EXCEPT ![id] = role] /\ open' = open \cup {id}
  /\ UNCHANGED <<alive, granted, rowId, subject, fresh>>

DisableLink(id) ==
  /\ open' = open \ {id}
  /\ UNCHANGED <<alive, granted, rowId, links, subject, fresh>>

(* SoftDeleteForOwner and SoftDeleteAdmin.                                 *)
SoftDelete ==
  /\ alive /\ alive' = FALSE
  /\ UNCHANGED <<granted, rowId, links, open, subject, fresh>>

(* AddDocumentVersion, as far as rights go.                                *)
AddVersion == alive /\ UNCHANGED rights

(* Mutation: the token names nobody.                                       *)
MintNobodys(id, u) ==
  /\ fresh' = fresh \cup {id}
  /\ UNCHANGED <<alive, granted, rowId, links, open, subject>>

(* mintWOPIToken, which writes nothing: whoever gets the token keeps it.   *)
MintToken(id, u) ==
  /\ subject' = [subject EXCEPT ![id] = u] /\ fresh' = fresh \cup {id}
  /\ UNCHANGED <<alive, granted, rowId, links, open>>

(* expires_at of a link and ExpiresAt of a token.                          *)
LinkExpires(id) == id \in open /\ DisableLink(id)

TokenExpires(id) ==
  /\ id \in fresh /\ fresh' = fresh \ {id}
  /\ UNCHANGED <<alive, granted, rowId, links, open, subject>>

(* The effect of a request, by its kind.                                   *)
Change(c) ==
  \/ kind[c] = "grant" /\ InsertGrant(c, input[c].user, input[c].role)
  \/ kind[c] = "revoke" /\ DeleteGrant(input[c].key)
  \/ kind[c] = "createLink" /\ InsertLink(c, input[c].role)
  \/ kind[c] = "disableLink" /\ DisableLink(input[c].key)
  \/ kind[c] \in {"delete", "adminDelete"} /\ SoftDelete
  \/ kind[c] \in Writers \cup {"saveShared", "wopiSave"} /\ AddVersion
  \/ kind[c] = "session" /\ MintToken(c, actor[c])
  \/ kind[c] \in {"storageDelete", "markdownSocket", "casualSocket"} /\ UNCHANGED rights

(* The requests of C are answered and forgotten.                           *)
Answered(C, answer) ==
  /\ result' = [c \in Calls |-> IF c \in C THEN answer ELSE result[c]]
  /\ kind' = [c \in Calls |-> IF c \in C THEN "none" ELSE kind[c]]
  /\ actor' = [c \in Calls |-> IF c \in C THEN NoOne ELSE actor[c]]
  /\ input' = [c \in Calls |-> IF c \in C THEN NoInput ELSE input[c]]

-----------------------------------------------------------------------------
All(x) == [c \in Calls |-> x]

(* Some rights are given; no request has been made.                        *)
Start ==
  /\ alive = TRUE
  /\ \E g \in [Users \ {Owner} -> Roles] :
       /\ granted = [u \in Users |-> IF u = Owner THEN "none" ELSE g[u]]
       /\ rowId = [u \in Users |-> IF granted[u] = "none" THEN NoOne ELSE Old]
  /\ \E r \in {"viewer", "editor"} :
       links = [k \in Keys |-> IF k = Old THEN r ELSE "none"] /\ open = {Old}
  /\ \E u \in Users :
       subject = [k \in Keys |-> IF k = Old THEN u ELSE NoOne] /\ fresh = {Old}
  /\ kind = All("none") /\ actor = All(NoOne) /\ input = All(NoInput)
  /\ result = All("none") /\ held = All({})

=============================================================================
