------------------------------- MODULE Access -------------------------------
(***************************************************************************)
(* The requests about one document, each the sequence of checks,           *)
(* statements and object requests its handler and service make             *)
(* (backend/internal/document, permission, share, office, admin and        *)
(* markdown/collab, composed by server).  They run concurrently, without   *)
(* transactions: a right may be taken away between the check and what the  *)
(* check was for.                                                          *)
(*                                                                         *)
(* What a version is and where its object goes is the subject of           *)
(* DocumentVersions; who is logged in, and who is an administrator, that   *)
(* of Accounts.  The file type, which lets a document be edited either as  *)
(* Markdown or with an office editor, refuses nothing here.                *)
(***************************************************************************)
EXTENDS AccessRights, Sequences

CONSTANTS
  Kinds,           \* Kinds[c]: the kinds of request c may be
  Sizes,           \* sizes of the bodies of office saves
  MaxUploadBytes,  \* DOCUMENT_MAX_UPLOAD_BYTES
  Faults           \* events of the environment a run exercises

AllFaults == {"database", "answerLost", "storage", "crash", "expiry"}

ASSUME RequestsKnown == Kinds \in [Calls -> SUBSET AllKinds] /\ Faults \subseteq AllFaults
ASSUME SizesKnown == MaxUploadBytes \in Nat /\ Sizes \subseteq Nat

VARIABLES
  phase, pos,      \* where a request is in its service, audit and tellings
  half,            \* it knows that its actor is not the owner
  told,            \* the roles its answer, token or socket is made of
  read,            \* how much of its body it has read
  acted, audit,    \* history: it took effect, what came of its audit row
  socket           \* the role an open WebSocket was opened with

locals == <<phase, pos, half, told, read>>
vars == <<rights, request, result, held, locals, acted, audit, socket>>

TypeOK ==
  /\ alive \in BOOLEAN /\ granted \in [Users -> Roles] /\ rowId \in [Users -> Keys \cup {NoOne}]
  /\ links \in [Keys -> Roles] /\ open \in SUBSET Keys
  /\ subject \in [Keys -> Users \cup {NoOne}] /\ fresh \in SUBSET Keys
  /\ kind \in [Calls -> AllKinds \cup {"none"}] /\ actor \in [Calls -> Users \cup {NoOne}]
  /\ input \in [Calls -> Input] /\ result \in [Calls -> {"none", "ok", "empty", "error"}]
  /\ held \in [Calls -> SUBSET Rights]
  /\ phase \in [Calls -> {"idle", "service", "audit", "tell", "ok", "error", "open", "done"}]
  /\ pos \in [Calls -> Nat] /\ half \in [Calls -> BOOLEAN]
  /\ told \in [Calls -> SUBSET {"editor", "owner"}] /\ read \in [Calls -> Nat]
  /\ acted \in [Calls -> BOOLEAN] /\ audit \in [Calls -> {"none", "written", "failed"}]
  /\ socket \in [Calls -> Roles]
  /\ \A u \in Users : granted[u] = "none" <=> rowId[u] = NoOne
  /\ \A k \in open : links[k] # "none"
  /\ \A k \in fresh : subject[k] \in Users
  /\ \A c \in Calls : half[c] => actor[c] \in Users

Init ==
  /\ Start
  /\ phase = All("idle") /\ pos = All(0) /\ half = All(FALSE)
  /\ told = All({}) /\ read = All(0)
  /\ acted = All(FALSE) /\ audit = All("none") /\ socket = All("none")

-----------------------------------------------------------------------------
(* The services: the steps of each operation, in the order of the code.    *)

DocumentList     == <<"listed">>
DocumentGet      == <<"view", "live">>
DocumentDownload == <<"view", "live", "object">>
DownloadVersion  == <<"view", "live", "live", "object">>
RestoreVersion   == <<"edit", "live", "live", "object", "put", "add", "live">>
GetMarkdown      == <<"view", "live", "object", "tellEditor">>
SaveMarkdown     == <<"edit", "live", "put", "add", "live">>
DocumentDelete   == <<"own", "live", "delete">>
Versions         == <<"view", "rows">>
ListAdmin        == <<"rows">>
DeleteAdmin      == <<"delete">>

(* Mutation: whoever may edit may grant.                                   *)
GrantByEditors == <<"edit", "insertGrant">>

PermissionList   == <<"own", "rows">>
Grant            == <<"own", "insertGrant">>
PermissionDelete == <<"own", "deleteGrant">>

LinkCreate       == <<"own", "live", "insertLink">>
LinkList         == <<"own", "rows">>
LinkDisable      == <<"findLink", "own", "disableLink">>
LinkAccess       == <<"link", "live", "object">>
LinkDownload     == <<"link", "live", "object">>
LinkSave         == <<"link", "live", "linkEditor", "put", "add", "live">>

Session          == <<"live", "view", "tellEditor", "mint">>
CollabSession    == <<"live", "view", "tellEditor">>
OfficeSave       == <<"live", "edit", "body", "put", "add">>

(* Mutation: the token is trusted until it expires.                        *)
WOPIInfoByToken  == <<"token", "live", "tellEditor">>

WOPIInfo         == <<"token", "live", "view", "tellEditor">>
WOPIContent      == <<"token", "live", "view", "tellEditor", "object">>
WOPISave         == <<"token", "edit", "live", "edit", "body", "put", "add">>
SheetsRoomInfo   == <<"live", "view">>
SheetsRoomSeed   == <<"live", "view", "live", "object">>
DocsRoomSeed     == <<"live", "view", "object">>
ProxyCollab      == <<"token", "view", "tellEditor", "dial", "openSocket">>

Snapshot         == <<"live", "view", "tellEditor", "rows">>
Join             == <<"live", "view", "tellEditor", "rows", "openSocket">>

StorageList      == <<"object", "object">>
StorageDelete    == <<"dropObject">>
StorageDownload  == <<"object">>

AuditList        == <<"rows">>

-----------------------------------------------------------------------------
(* The handlers: what authenticates the request, the service's steps, the  *)
(* audit row (none, about a row's id, or about an object key), and the     *)
(* roles the answer tells.                                                 *)

Made(who, does, row, tells) == [who |-> who, does |-> does, row |-> row, tells |-> tells]
Cookie(does, row, tells) == Made("cookie", does, row, tells)

List               == Cookie(DocumentList, "none", <<"tellOwner", "tellEditor">>)
Get                == Cookie(DocumentGet, "none", <<"tellOwner", "tellEditor">>)
Download           == Cookie(DocumentDownload, "id", <<>>)
GetVersion         == Cookie(DownloadVersion, "none", <<>>)
ViewMarkdown       == Cookie(GetMarkdown, "none", <<"tellOwner">>)
UpdateMarkdown     == Cookie(SaveMarkdown, "id", <<"tellOwner">>)
Delete             == Cookie(DocumentDelete, "id", <<>>)
ListVersions       == Cookie(Versions, "none", <<>>)
Restore            == Cookie(RestoreVersion, "id", <<>>)
AdminList          == Made("admin", ListAdmin, "none", <<>>)
AdminDelete        == Made("admin", DeleteAdmin, "id", <<>>)
ListPermissions    == Cookie(PermissionList, "none", <<>>)
GrantPermission    == Cookie(Grant, "id", <<>>)
DeletePermission   == Cookie(PermissionDelete, "id", <<>>)
CreateLink         == Cookie(LinkCreate, "id", <<>>)
ListLinks          == Cookie(LinkList, "none", <<>>)
Disable            == Cookie(LinkDisable, "id", <<>>)
AccessLink         == Made("link", LinkAccess, "id", <<>>)
DownloadShared     == Made("link", LinkDownload, "id", <<>>)
SaveShared         == Made("link", LinkSave, "id", <<>>)
OfficeSession      == Cookie(Session, "none", <<>>)
OfficeCollab       == Cookie(CollabSession, "none", <<>>)
SaveOffice         == Cookie(OfficeSave, "id", <<>>)
GetInfo            == Made("token", WOPIInfo, "none", <<>>)
GetContent         == Made("token", WOPIContent, "none", <<>>)
SaveContent        == Made("token", WOPISave, "id", <<>>)
RoomInfo           == Cookie(SheetsRoomInfo, "none", <<>>)
SheetsSeed         == Cookie(SheetsRoomSeed, "none", <<>>)
DocsSeed           == Cookie(DocsRoomSeed, "none", <<>>)
CasualSocket       == Made("token", ProxyCollab, "none", <<>>)
MarkdownSnapshot   == Cookie(Snapshot, "none", <<>>)
MarkdownSocket     == Cookie(Join, "none", <<>>)
ViewStorage        == Made("admin", StorageList, "none", <<>>)
DeleteObject       == Made("admin", StorageDelete, "key", <<>>)
DownloadObject     == Made("admin", StorageDownload, "key", <<>>)
AuditLogs          == Made("admin", AuditList, "none", <<>>)

(* server.New: the routes.                                                 *)
Handlers ==
  [list |-> List, get |-> Get, download |-> Download, downloadVersion |-> GetVersion,
   getMarkdown |-> ViewMarkdown, updateMarkdown |-> UpdateMarkdown, delete |-> Delete,
   versions |-> ListVersions, restoreVersion |-> Restore, adminList |-> AdminList,
   adminDelete |-> AdminDelete, listPermissions |-> ListPermissions,
   grant |-> GrantPermission, revoke |-> DeletePermission, createLink |-> CreateLink,
   listLinks |-> ListLinks, disableLink |-> Disable, access |-> AccessLink,
   downloadShared |-> DownloadShared, saveShared |-> SaveShared,
   session |-> OfficeSession, collabSession |-> OfficeCollab,
   officeSave |-> SaveOffice, wopiInfo |-> GetInfo, wopiContent |-> GetContent,
   wopiSave |-> SaveContent, roomInfo |-> RoomInfo, sheetsSeed |-> SheetsSeed,
   docsSeed |-> DocsSeed, casualSocket |-> CasualSocket, snapshot |-> MarkdownSnapshot,
   markdownSocket |-> MarkdownSocket, storageList |-> ViewStorage,
   storageDelete |-> DeleteObject, storageDownload |-> DownloadObject,
   auditLogs |-> AuditLogs]

Handler(k) == Handlers[k]

(* A request that has not answered, nor opened its WebSocket.              *)
Running(c) == phase[c] \notin {"idle", "open", "done"}

(* The step a request is at.                                               *)
Step(c) ==
  CASE phase[c] = "service" -> Handler(kind[c]).does[pos[c]]
    [] phase[c] = "tell" -> Handler(kind[c]).tells[pos[c]]
    [] OTHER -> phase[c]

At(c, step) == Step(c) = step

-----------------------------------------------------------------------------
(* How a step leaves its request.                                          *)

Goto(c, to, p) ==
  /\ phase' = [phase EXCEPT ![c] = to] /\ pos' = [pos EXCEPT ![c] = p]
  /\ half' = [half EXCEPT ![c] = FALSE]
  /\ UNCHANGED <<request, result>>

(* Past the service's last step come the audit row, what the answer tells, *)
(* and the answer.                                                         *)
NextPhase(c) ==
  IF phase[c] = "service" /\ Handler(kind[c]).row # "none" THEN "audit"
  ELSE IF phase[c] # "tell" /\ Handler(kind[c]).tells # <<>> THEN "tell" ELSE "ok"

Last(c) ==
  CASE phase[c] = "service" -> Len(Handler(kind[c]).does)
    [] phase[c] = "tell" -> Len(Handler(kind[c]).tells)
    [] OTHER -> 1

Advance(c) ==
  IF pos[c] < Last(c) THEN Goto(c, phase[c], pos[c] + 1) ELSE Goto(c, NextPhase(c), 1)

(* The requests of C end, and their variables with them.                   *)
End(C, answer) ==
  LET Clear(f, x) == [c \in Calls |-> IF c \in C THEN x ELSE f[c]] IN
  /\ Answered(C, answer)
  /\ phase' = Clear(phase, "done") /\ pos' = Clear(pos, 0) /\ half' = Clear(half, FALSE)
  /\ told' = Clear(told, {}) /\ read' = Clear(read, 0)
  /\ acted' = Clear(acted, FALSE) /\ audit' = Clear(audit, "none")
  /\ socket' = Clear(socket, "none")
  /\ UNCHANGED rights

Refuse(c) == End({c}, "error")

(* The step had no effect but to let the request go on.                    *)
Pass(c) == Advance(c) /\ UNCHANGED <<rights, told, read, acted, audit, socket>>

(* The step has its effect; the request goes on, or the answer is lost and *)
(* the request fails.                                                      *)
Take(c) ==
  /\ acted' = [acted EXCEPT ![c] = TRUE]
  /\ Advance(c) \/ ("answerLost" \in Faults /\ Goto(c, "error", 1))
  /\ UNCHANGED <<told, read, audit, socket>>

-----------------------------------------------------------------------------
(* Requests arrive.  One that RequireAuth or the handler itself refuses    *)
(* costs no statement and is left out.                                     *)

Arrive(c, k, u, i) ==
  /\ phase[c] = "idle" /\ k \in Kinds[c]
  /\ kind' = [kind EXCEPT ![c] = k]
  /\ actor' = [actor EXCEPT ![c] = u] /\ input' = [input EXCEPT ![c] = i]
  /\ phase' = [phase EXCEPT ![c] = "service"] /\ pos' = [pos EXCEPT ![c] = 1]
  /\ UNCHANGED <<rights, result, half, told, read, acted, audit, socket>>

Named == {"grant", "revoke", "createLink", "disableLink", "officeSave", "wopiSave"}

(* With a cookie: a user's, or an administrator's.                         *)
Ask(c) ==
  \E k \in AllKinds \ (Named \cup LinkHolders \cup TokenHolders), u \in Users :
    /\ Handler(k).who = "admin" => u \in Admins
    /\ Arrive(c, k, u, NoInput)

AskGrant(c) ==
  \E u \in Users, to \in Users, r \in Roles \ {"none"} :
    Arrive(c, "grant", u, [NoInput EXCEPT !.user = to, !.role = r])

(* A permission's id may be any Grant answered, though no row has it.      *)
AskRevoke(c) ==
  \E u \in Users, id \in Keys : Arrive(c, "revoke", u, [NoInput EXCEPT !.key = id])

AskLink(c) ==
  \E u \in Users, r \in Roles \ {"none"} : Arrive(c, "createLink", u, [NoInput EXCEPT !.role = r])

Links == {k \in Keys : links[k] # "none"}

AskDisable(c) ==
  \E u \in Users, id \in Links : Arrive(c, "disableLink", u, [NoInput EXCEPT !.key = id])

AskSave(c) ==
  \E u \in Users, n \in Sizes : Arrive(c, "officeSave", u, [NoInput EXCEPT !.size = n])

(* With a share link's token: no account is asked for.                     *)
AskByLink(c) ==
  \E k \in LinkHolders, id \in Links : Arrive(c, k, NoOne, [NoInput EXCEPT !.key = id])

(* With an editor token: its subject is the actor, logged in or not.       *)
AskByToken(c) ==
  \E k \in TokenHolders, id \in Keys, n \in Sizes :
    /\ subject[id] # NoOne /\ (k # "wopiSave" => n = MaxUploadBytes)
    /\ Arrive(c, k, subject[id], [NoInput EXCEPT !.key = id, !.size = n])

Request(c) ==
  \/ Ask(c) \/ AskGrant(c) \/ AskRevoke(c) \/ AskLink(c) \/ AskDisable(c) \/ AskSave(c)
  \/ AskByLink(c) \/ AskByToken(c)

-----------------------------------------------------------------------------
(* Service.Role of permission: the owner is asked for first, and then, of  *)
(* a document that need not be live any more, the permission row.          *)

Checks == {"view", "edit", "own"}
Tellings == {"tellEditor", "tellOwner"}

(* Mutation: viewers pass for editors.                                     *)
SufficesToView(step, role) ==
  IF step \in {"own", "tellOwner"} THEN role = "owner" ELSE role # "none"

(* CanView; CanEdit; CanManage, CanDelete and CanShare.                    *)
Suffices(step, role) ==
  CASE step = "view" -> role # "none"
    [] step \in {"edit", "tellEditor"} -> role \in {"editor", "owner"}
    [] OTHER -> role = "owner"

(* The role of the actor is known: a check refuses, a telling only tells.  *)
Found(c, role) ==
  IF Step(c) \in Tellings
  THEN /\ told' = IF Suffices(Step(c), role)
                  THEN [told EXCEPT ![c] = @ \cup {IF At(c, "tellOwner") THEN "owner" ELSE "editor"}]
                  ELSE told
       /\ Advance(c) /\ UNCHANGED <<rights, read, acted, audit, socket>>
  ELSE IF Suffices(Step(c), role) THEN Pass(c) ELSE Refuse(c)

DocumentOwner(c) ==
  /\ Step(c) \in Checks \cup Tellings /\ ~half[c]
  /\ IF alive /\ actor[c] # Owner
     THEN /\ half' = [half EXCEPT ![c] = TRUE]
          /\ UNCHANGED <<rights, request, result, phase, pos, told, read, acted, audit, socket>>
     ELSE Found(c, IF alive THEN "owner" ELSE "none")

FindForUser(c) ==
  /\ Step(c) \in Checks \cup Tellings /\ half[c]
  /\ Found(c, granted[actor[c]])

-----------------------------------------------------------------------------
(* The other statements that read.                                         *)

(* FindByID, and FindVersion of a version the document has.                *)
FindByID(c) ==
  /\ At(c, "live")
  /\ IF alive THEN Pass(c) ELSE Refuse(c)

(* ListAccessible.  A document it leaves out is not told of.               *)
ListAccessible(c) ==
  /\ At(c, "listed")
  /\ IF alive /\ RoleOf(actor[c]) # "none" THEN Pass(c) ELSE End({c}, "empty")

(* The link's FindByTokenHash: disabled or expired, it is refused.         *)
FindByTokenHash(c) ==
  /\ At(c, "link")
  /\ IF input[c].key \in open THEN Pass(c) ELSE Refuse(c)

(* SaveMarkdown looks at the right of the row it has read; no statement    *)
(* ever changes it.                                                        *)
LinkMayEdit(c) ==
  /\ At(c, "linkEditor")
  /\ IF links[input[c].key] = "editor" THEN Pass(c) ELSE Refuse(c)

(* verifyWOPIToken: about this document, and not expired.                  *)
VerifyToken(c) ==
  /\ At(c, "token")
  /\ IF input[c].key \in fresh THEN Pass(c) ELSE Refuse(c)

(* A statement or a request to MinIO, or to the editor's collaboration     *)
(* server, that decides nothing: the rows of a list, a room's content, a   *)
(* link by its id, GetObject, PutObject, Usage, ListObjects, Dial.         *)
Fetch(c) ==
  /\ Step(c) \in {"rows", "findLink", "object", "put", "dial"}
  /\ Pass(c)

(* Mutation: the limit itself ends the reading.                            *)
ReadLimitExact == MaxUploadBytes

(* One byte more than allowed, to tell a body that is too large.           *)
ReadLimit == MaxUploadBytes + 1

(* io.ReadAll over limitedReader: the body arrives while others change     *)
(* what was checked.                                                       *)
ReadBody(c) ==
  /\ At(c, "body")
  /\ LET n == IF input[c].size < ReadLimit THEN input[c].size ELSE ReadLimit IN
     IF n > MaxUploadBytes THEN Refuse(c)
     ELSE /\ read' = [read EXCEPT ![c] = n] /\ Advance(c)
          /\ UNCHANGED <<rights, told, acted, audit, socket>>

-----------------------------------------------------------------------------
(* The statements that write.                                              *)

(* AddDocumentVersion; of a deleted document it stores nothing.            *)
Add(c) ==
  /\ At(c, "add")
  /\ IF alive THEN AddVersion /\ Take(c) ELSE Refuse(c)

InsertPermission(c) ==
  /\ At(c, "insertGrant")
  /\ InsertGrant(c, input[c].user, input[c].role) /\ Take(c)

(* Mutation: the number of rows is not looked at.                          *)
DeleteRowUnchecked(c) ==
  /\ At(c, "deleteGrant")
  /\ IF \E u \in Users : rowId[u] = input[c].key
     THEN DeleteGrant(input[c].key) /\ Take(c) ELSE Pass(c)

(* No row with that id is ErrNotFound.                                     *)
DeleteRow(c) ==
  /\ At(c, "deleteGrant")
  /\ IF \E u \in Users : rowId[u] = input[c].key
     THEN DeleteGrant(input[c].key) /\ Take(c) ELSE Refuse(c)

InsertShareLink(c) ==
  /\ At(c, "insertLink")
  /\ InsertLink(c, input[c].role) /\ Take(c)

DisableShareLink(c) ==
  /\ At(c, "disableLink")
  /\ DisableLink(input[c].key) /\ Take(c)

DeleteDocument(c) ==
  /\ At(c, "delete")
  /\ IF alive THEN SoftDelete /\ Take(c) ELSE Refuse(c)

(* RemoveObject, whether or not there is one.                              *)
DropObject(c) ==
  /\ At(c, "dropObject")
  /\ Take(c) /\ UNCHANGED rights

Mint(c) ==
  /\ At(c, "mint")
  /\ MintToken(c, actor[c])
  /\ acted' = [acted EXCEPT ![c] = TRUE] /\ Advance(c)
  /\ UNCHANGED <<told, read, audit, socket>>

(* Upgrade: from now on the role is the one found a moment ago.            *)
OpenSocket(c) ==
  /\ At(c, "openSocket")
  /\ socket' = [socket EXCEPT ![c] = IF "editor" \in told[c] THEN "editor" ELSE "viewer"]
  /\ acted' = [acted EXCEPT ![c] = TRUE]
  /\ Goto(c, "open", 1)
  /\ UNCHANGED <<rights, told, read, audit>>

(* Either peer closes, and the handler returns.                            *)
CloseSocket(c) == phase[c] = "open" /\ End({c}, "ok")

(* recordAudit: an error is only logged.  audit_logs.target_id is a UUID:  *)
(* the INSERT of an object key fails.                                      *)
RecordAudit(c) ==
  /\ phase[c] = "audit"
  /\ \/ Handler(kind[c]).row = "id" /\ audit' = [audit EXCEPT ![c] = "written"]
     \/ /\ Handler(kind[c]).row = "key" \/ "database" \in Faults
        /\ audit' = [audit EXCEPT ![c] = "failed"]
  /\ Advance(c)
  /\ UNCHANGED <<rights, told, read, acted, socket>>

Respond(c) == phase[c] \in {"ok", "error"} /\ End({c}, phase[c])

-----------------------------------------------------------------------------
(* Failures.                                                               *)

(* A statement or a request to MinIO fails, or the client hangs up.        *)
StepFails(c) ==
  /\ phase[c] \in {"service", "tell"}
  /\ IF Step(c) \in {"object", "put", "dropObject", "dial", "body"} THEN "storage" \in Faults
     ELSE Step(c) \notin {"token", "linkEditor", "mint"} /\ "database" \in Faults
  /\ Refuse(c)

(* The backend dies with the requests and the WebSockets it serves.        *)
Crash ==
  /\ "crash" \in Faults
  /\ End({c \in Calls : phase[c] \notin {"idle", "done"}}, "error")

(* No matter when, except to a request about to look.                      *)
Expire(k) ==
  /\ "expiry" \in Faults
  /\ \E c \in Calls : input[c].key = k /\ \/ At(c, "link") /\ LinkExpires(k)
                                          \/ At(c, "token") /\ TokenExpires(k)
  /\ UNCHANGED <<request, result, locals, acted, audit, socket>>

Works(c) ==
  \/ DocumentOwner(c) \/ FindForUser(c) \/ FindByID(c) \/ ListAccessible(c)
  \/ FindByTokenHash(c) \/ LinkMayEdit(c) \/ VerifyToken(c) \/ Fetch(c) \/ ReadBody(c)
  \/ Add(c) \/ InsertPermission(c) \/ DeleteRow(c) \/ InsertShareLink(c) \/ DisableShareLink(c)
  \/ DeleteDocument(c) \/ DropObject(c) \/ Mint(c) \/ OpenSocket(c) \/ CloseSocket(c)
  \/ RecordAudit(c) \/ Respond(c)

Next ==
  /\ \/ \E c \in Calls : Request(c) \/ Works(c) \/ StepFails(c)
     \/ \E k \in Keys : Expire(k)
     \/ Crash
  /\ Watch({c \in Calls : phase'[c] \notin {"idle", "done"}})

Spec == Init /\ [][Next]_vars

-----------------------------------------------------------------------------
(* Properties.                                                             *)

(* Whoever did not have a right at any moment of a request - permission    *)
(* revoked, link disabled, token expired, document deleted - neither       *)
(* changes anything by it nor gets an answer, a token or a WebSocket.      *)
Justified == \A c \in Calls : acted[c] \/ phase[c] = "ok" => Entitled(c)

(* The role an answer tells, and the one a WebSocket is opened with, is a  *)
(* role the actor had.                                                     *)
RolesToldAreHeld ==
  \A c \in Calls : told[c] \subseteq held[c] /\ (socket[c] = "editor" => "editor" \in held[c])

(* The audit log tells of nothing that did not happen, and every change    *)
(* answered with success was offered to it.                                *)
AuditFollowsEffects ==
  \A c \in Calls :
    /\ audit[c] # "none" /\ kind[c] \in Changing => acted[c]
    /\ phase[c] = "ok" /\ kind[c] \in Changing => acted[c] /\ audit[c] # "none"

(* No office body is stored cut off.                                       *)
WholeBodies ==
  \A c \in Calls : acted[c] /\ kind[c] \in {"officeSave", "wopiSave"} => read[c] = input[c].size

(* What a request has come to, as the policy sees it.                      *)
Stage ==
  [c \in Calls |-> IF phase[c] \in {"idle", "done"} THEN phase[c]
                   ELSE IF acted[c] THEN "acted" ELSE "begun"]

Policy == INSTANCE AccessPolicy WITH stage <- Stage

(* The statements and checks of the requests, interleaved, are requests    *)
(* that act at most once, atomically, entitled to what they do.            *)
ImplementsPolicy == Policy!Spec

-----------------------------------------------------------------------------
(* office/service.go:239: removing access revokes an already issued editor *)
(* session immediately.                                                    *)
OpenSocketsEntitled ==
  \A c \in Calls : socket[c] = "editor" => alive /\ Has(c, "editor")

=============================================================================
