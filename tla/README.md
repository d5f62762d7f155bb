# Verification of the online document system

TLA+ models of the Go backend (`backend/`) of the online document system, the
TLC configurations that check them and proofs checked by TLAPS. Paths below are
relative to the repository.

## 1. The system

Users upload documents (Markdown and office files), edit them, restore old
versions, share them and delete them. The backend keeps rows in PostgreSQL and
file contents as objects in MinIO; Markdown documents can be edited together
through a WebSocket, office files through Collabora (WOPI).

| Part | State it keeps | Operations | Talks to | Hard behaviour | What makes it correct |
|---|---|---|---|---|---|
| Markdown collaboration, `internal/markdown/collab` | rooms in memory (text, update number, clients), one channel of 16 messages per session, tables `markdown_updates`, `markdown_snapshots` | Join, snapshot request, update, presence, cursor, Leave | permission (access check), document (file content), PostgreSQL | two goroutines per session, locks released before inserts and sends, full channels, closed channels, restarts | one numbering of updates; what is broadcast is stored; joiners miss nothing and get nothing older than their first message; loads see the newest text; nobody waits forever |
| Document versions, `internal/document` (with the saves of `internal/office` and `internal/share`) | tables `documents`, `document_versions`; the bucket | upload, save, office save, restore, read, read of a version, delete, delete by an administrator | PostgreSQL, MinIO | object and rows are two stores without a common transaction; concurrent saves; lost answers; cancelled requests; crashes | consecutive numbers; the newest version is current; every version has its object; no object is forgotten; a deletion is final |
| Accounts and sessions, `internal/auth/local`, `auth/session`, `middleware` | tables `users`, `sessions`, avatar objects | register, login, logout, change and reset passwords, roles, avatars | PostgreSQL, MinIO, audit | administrators acting on one another, sessions that outlive a password | an administrator remains; a disabled user has no access |
| OIDC login, `internal/auth/oidc` | `oidc_identities`, a state cookie | start, callback | provider, users, sessions | two callbacks, or a callback and a registration, of one e-mail address | one account per identity |
| Permissions, `internal/permission` | `document_permissions` | grant, revoke, list, CanView, CanEdit | documents, users, audit | checks whose answer is used later | a right that was taken away is not used again |
| Office and WOPI, `internal/office` | access tokens; open WebSocket proxies | editor session, WOPI content and save, proxy | permission, document, Collabora | a role fixed for a whole connection | a token gives what the user may do |
| Share links, `internal/share` | `share_links` | create, disable, access, download, save | document, audit | a link disabled while it is used | a disabled or expired link opens nothing |
| Audit log, `internal/audit` | `audit_logs` | record, list | all of the above | the action commits, its audit row does not | every audited action leaves a row |
| Object storage client, `internal/storage` | a cached check that the bucket exists | put, get, delete, list | MinIO | the first error is cached | a passing error of MinIO passes |
| Administration, `internal/admin`, `internal/user` | none of its own | list and delete users' data and objects | all of the above | objects deleted under live versions | see the parts it acts on |
| Server, configuration, migrations, health | `schema_migrations` | start, migrate, probe | PostgreSQL | two backends starting together | a migration is applied once |
| Spreadsheet collaboration, `office-collab` | documents of the Hocuspocus library | authenticate | backend | the library's | the library's |
| Frontend, deployment | login state in the browser; containers | pages; proxies | backend | - | - |

`PROJECT.json` lists the same parts with their sources and status, and every
hazard found in them with the line where it bites and the properties that cover
it; a hazard without a property carries a note that says why.

## 2. What is modelled

### MarkdownCollab and SharedText

One document, a set of sessions. The module follows `service.go` and `handler.go`
of `internal/markdown/collab` at the grain of its critical sections: what happens
under `room.mu` is one action, and every database statement, channel send and
socket read or write is an action of its own.

| Code | Model |
|---|---|
| `s.rooms[documentID]`, `room.content`, `room.updateSeq`, `room.clients` | `exists`, `content`, `updateSeq`, `clients` |
| the handler goroutine: `Join`, `readLoop` with `ApplyClientMessage`, the deferred `Leave` | `pc`, `phase`, and the locals `canEdit`, `msg`, `to` |
| `ClientSession.Receive` and the goroutine `writeLoop` | `receive`, `closed`, `writer` |
| the two tables | `updates`, `snapshots` |
| `getRoom` with its double check, `currentContent` with its two queries | `Join`, `LoadSnapshot`, `LoadUpdates`, `InstallRoom` |
| registration, the blocking `session.Receive <- initial`, `broadcastPresence` | `Register`, `SendInit`, `AnnouncePresence`, then `SendTo` per receiver |
| `enqueue` with its `default` case; a send on a closed channel | `SendTo`; `SendPanics` |
| `applyContentUpdate` | `AssignSeq`, `PersistUpdate`, `PersistSnapshot`, `PersistFails`, `SendTo` |
| `Leave` | `Disconnect`, `Leave`, `AnnouncePresence` |
| a panic: the deferred `Leave`, `close(done)` skipped; the two ways `writeLoop` ends | `Unwind`; `WriterStops` |
| death and start of the process | `Crash` |

`base`, `got`, `mine` and `lost` are history: the number in a client's init
message, the updates handed to it, written by it, and kept from it. `reported` has
the numbers whose insert failed, so that their author was answered with an error.

Abstractions. The text of an update is the number of the request that sent it, so
two different texts are never taken for the same one. The answer of `checkAccess`
is any answer. A session of the model is one `ClientSession`; a browser that
reconnects is another one. At a crash, an insert under way is committed or not at
that moment; a statement that PostgreSQL finishes only after the new process has
started to answer is not modelled.

`SharedText` is what collaboration promises: one text that editors replace one
number at a time; each replacement is then stored or not, and others are shown
only what is stored and newer than what they started with. `MarkdownCollab`
implements it with `text` as the room's number and content, `storing` as the rows
of the handlers in the middle of their insert, and `shown` as what the clients were
handed. The load in two queries and the double look at `s.rooms` are one step of
it; goroutines and channels are none.

### DocumentVersions and VersionHistory

The life of one document as a set of HTTP calls, each made once. A call is a
sequence of steps, one per SQL statement or MinIO request:

| Call | Code | Steps (`pc`) |
|---|---|---|
| upload | `document.Service.Upload`, `CreateWithVersion` | put, commit (cleanup) |
| save | `document.Service.SaveMarkdown`, `share.Service.SaveMarkdown` | find, put, max, insert, update, commit (cleanup), reload |
| office | `office.Service.Save`, `WOPISave` | as save, without reload |
| restore | `document.Service.RestoreVersion` | find, source, fetch, then as save |
| read, readVersion | `Download`, `GetMarkdown`, `WOPIContent`, link access; `DownloadVersion` | find, (source,) fetch |
| delete, adminDelete | `Service.Delete`; `SoftDeleteAdmin` | (find,) remove |

The version made by a call and its storage key are fresh UUIDs; both are
represented by the call. Transactions run at READ COMMITTED, PostgreSQL's
default, which the code does not change: what an open transaction has written is not in `versions` and
`current`, it is told by its call's `pc`. The unique index makes an INSERT wait
for an open transaction with the same number (`NumberHeld`) and fail if that one
commits (`NumberFree`); an UPDATE of `documents` waits for the row lock
(`RowLocked`) and then checks `deleted_at IS NULL` again (`Live`).

Failures are switched on per run by `Faults`: `database` and `storage` are errors
of a call to that store, `commitLost` a COMMIT that takes effect without an
answer, `hangUp` a client that goes away and cancels the request's context,
`crash` the end of the backend, `purge` the deletion of an object in the
administrator's storage browser. The history variables `unsure`, `strays` and
`purged` record which rows and objects may stand alone because of one of them.

Abstractions. Titles, sizes, permissions, validation and listing are not state:
a request that is refused (`Refuse`) writes nothing. `Download` starts its answer
before the object is read to the end; the model decides success when the object
is opened. A save does not say which version it was made from, so the last one
wins: the properties are about the history, not about merging.

`VersionHistory` is what a document promises its readers: a sequence of versions
that grows at its end, the newest of which is current, until it is removed. After
that nothing changes. `DocumentVersions` implements it with the mapping that lists
the rows by number (`VersionList`).

### Accounts and AccountPolicy

The requests of `internal/auth/local` and `internal/auth/oidc` and what
`middleware.RequireAuth` does before them. A request is made once; it takes one
statement or object request per step and holds no lock in between, as the code
uses no transaction here.

| Code | Model |
|---|---|
| rows of `users`, `sessions`; avatar objects | `exist` and `users`, `status` and `owner`, `objects` |
| the cookie, the body, the account and the avatar key kept in local variables | `token`, `input`, `account`, `old` |
| `CurrentUser`: `FindSession`, `FindByID` | `FindSession`, `RequireAuth` |
| `Register`, the last part of `upsertOIDCUser` | `Create`, with the unique indexes as `Unique` |
| `Login`, `upsertOIDCUser`, `SetOIDCSubject`, `createSession` | `FindByEmail`, `FindBySubject`, `SetSubject`, `Merged`, `OpenSession` |
| `ChangePassword`, `UpdateProfile`, `AdminResetPassword`, `AdminUpdateUser` | `FindByID` (guard `MayUpdate`), `Write`, `Reload` |
| `UpdateAvatar`: put, update, delete the old key or take back the new one | `PutAvatar`, `FindByID`, `Write`, `Reload`, `DropOldAvatar`, `UndoAvatar` |
| `RevokeSession`, `Logout` | `LookUpSession`, `DeleteSession` |
| `audit.Record`, whose error is dropped | `Audit` |

Failures, switched on by `Faults`: a statement or object request fails
(`database`, `storage`), takes effect without an answer (`answerLost`), the
process dies (`crash`), a session expires (`expiry`). The history `held` collects,
at every step, the rights a request needs that the tables give it at that moment;
`acted`, `audit` and `excused` say what it did, what became of its audit row and
which avatars an error has separated from their account.

Abstractions. A password hash is the password; names, locale and other columns
nobody decides by are left out. An account, session or avatar made by a request
is named after it. The identity provider's answer is an input: any subject and
address. Viewing an avatar, which only reads, is one step for its row and its object.

`AccountPolicy` is what authentication promises, whatever the statements it is made
of. A registration, or a callback of an unknown profile, makes one account with an
identity of its own (`SignUp`). Any other request is bound once, to the account of its cookie, password or OIDC identity
or to the one an administrator names (`IsFor`). It then changes that account at most
once and only in the columns its kind may change, to the values of its body
(`Columns`, `Given`), or opens a session of it, or ends one; success is answered only
to a request that did so or that only reads (`Deserved`). The state of the policy is
part of the state of `Accounts`, so the refinement has no mapping to give; what is
to be shown is that each statement is a step of the policy, or none.

### AccessRights, AccessPolicy and Access

Everything that is asked about one document: 36 kinds of request of the packages
`document`, `permission`, `share`, `office`, `admin` and the opening of both
WebSockets. `AccessRights` has the rows that give rights (permissions, links,
tokens, the document itself), the statements that change them, and the table
`Needed` of what each kind of request stands for. `Access` has the code: each
operation of a service is a sequence of steps in the order of the code
(`WOPISave == <<"token", "edit", "live", "edit", "body", "put", "add">>`), each
handler says what authenticates it, which steps it runs, which audit row it writes
and which roles its answer tells, and one action per kind of step gives its meaning:

| Code | Model |
|---|---|
| `permission.Service.Role`, two statements | `DocumentOwner`, `FindForUser`; `half` is what is known between them |
| `FindByID` of a document, `ListAccessible` | `FindByID`, `ListAccessible` |
| `FindByTokenHash`, disabled and expiry; the link's permission | `FindByTokenHash`, `LinkMayEdit` |
| `verifyToken` with its signature and expiry | `VerifyToken` |
| `io.LimitReader(MaxUploadBytes+1)` and the comparison after it | `ReadBody` |
| INSERT and DELETE of permissions and links, soft deletion, object deletion, the new version | `InsertPermission`, `DeleteRow`, `InsertShareLink`, `DisableShareLink`, `DeleteDocument`, `DropObject`, `Add` |
| signing a token; the Upgrade of a WebSocket and its end | `Mint`; `OpenSocket`, `CloseSocket` |
| `audit.Record`; the answer | `RecordAudit`; `Respond` |

`held` collects every right a request has had at some moment while it ran.
`AccessPolicy` is the promise: a request acts at most once, in one step, with every
right it needs among those, and answers success only then. `Access` implements it
with the mapping `Stage`, which forgets where a request is in its service.

Abstractions. A link's secret and a signed token are names that nobody guesses.
The number of bytes of a body is kept for office saves, since their limit is
compared with what was read. Which versions and objects a save makes is left to
`DocumentVersions`, who is logged in to `Accounts`. The editor a token was signed for
(`claims.Kind`) is not kept, so `AuthorizeCollab` lets more tokens through here than in
the code. The document is a Markdown one where only that matters: `Access` of a link
reads its object.

## 3. Runs

| Run | Instance | What it shows |
|---|---|---|
| `collab_restart` | 2 sessions, 3 messages, 1 restart, snapshot every 2 updates, database errors, refusals, snapshot requests | update numbers never collide, snapshots repeat the log, what waits in a channel is stored, the text shown is stored, being stored or reported as failed, a load ends with the newest row; the refinement of `SharedText` |
| `collab_channels` | 2 sessions, channels of 2, 2 messages, dead links, failing upgrades, disconnections | a client is sent every update after its init message and none before, except those recorded as lost |
| `collab_live` | 2 sessions, channels of 1, 2 updates, dead links, disconnections | broadcasts finish beside a client that stopped reading; clients catch up; a connection that ends, even by a panic, leaves no session and no goroutine behind |
| `collab_ghost` | violation | a session that leaves while another joins makes the joiner's broadcast panic before its `Leave` is deferred: it stays in the room for good |
| `collab_unsaved` | violation | an update whose insert failed stays in the room's text, which a restart does not recover |
| `doc_versions` | 3 calls of any kind, every fault | numbers, current version, answers, deletions; which rows can lack an object, which objects can be left over, what readers find; whoever a transaction waits for does not wait itself; the refinement of `VersionHistory` |
| `doc_live` | 4 calls (upload, save, delete), database errors | every call is answered: waits for numbers and for the row end |
| `doc_lost_commit` | violation | a commit without an answer is cleaned up, and the current version has no content |
| `accounts` | 2 requests of any kind on 2 accounts (one administrator), 1 free address, 2 passwords, every fault | one account per identity; nothing for whoever was shut out throughout; avatars and objects belong together; audit rows follow effects; nobody locks the system alone; sessions are ended by their owners; the refinement of `AccountPolicy` |
| `accounts_lockout` | violation | two administrators who demote or disable each other leave none |
| `access` | a request that takes a right away (revoke, disable a link, delete) beside one of any of the 36 kinds, bodies at and above the limit, every fault | requests act and answer only with rights they had, roles told are roles held, audit rows follow effects, office bodies are whole; the refinement of `AccessPolicy` |
| `access_revoked` | violation | an open WebSocket keeps the role whose permission row was deleted |

Bounds. Two sessions are an author and a receiver, and by symmetry two authors;
each hazard in the collaboration code (overtaking broadcasts, a load overtaken by
an edit, a send after a leave, an insert that another one follows) takes two
goroutines. Three messages with a snapshot every two give rows before, at and
after a snapshot, and one restart lets numbering resume over them. Channels of
two messages fill within the bound: init and one presence list are enough. One is
enough for `collab_live`, whose graph is searched for cycles: a channel is empty,
or full. The code's 16 only moves that point; the proofs hold for any capacity. In
`doc_versions` three calls are an upload and two others that compete: for a
number, for the row, or as a reader against a writer; `doc_live` has a fourth, so
that a writer can wait for one that itself waits.
In `accounts` every race the code can lose is between two requests: two uploads,
two callbacks, a callback and a registration, an administrator and the owner of a
session. Two accounts let an administrator act on another account as well as on
its own, and one request make a third account. In `access` one request has to
take a right away and another to rely on it; the owner, a user who may be granted
a right and an administrator who is that user cover every way a right is held,
and the two sizes are the last one accepted and the first one refused. What more
than two requests could do together is the subject of the proofs, which hold for
any number. Symmetry is used in safety runs only. Deadlock checking is off because
clients may stop: when every session is gone or every request answered, nothing
has to happen.

Fairness. `HandlerStep` and `WriterStep` of a session, and the steps `Works` of a
call of `DocumentVersions`, are weakly fair: the Go scheduler runs every runnable
goroutine, PostgreSQL and MinIO answer, and a cancelled context makes the pending
call fail. Nothing makes clients send, read, hang up or come back, and no fault is
ever forced. `SendInit` is disabled while the buffer is full and nobody drains it
before `Upgrade`: sixteen messages between the registration and the send hang the
joining handler for good, with its session in the room. `collab_live` reaches that
state with its smaller buffer. Nothing in the code prevents it, so no property says
that a join finishes; what is checked is that the handlers of the others go on
beside it. `Accounts` and `Access` state no
liveness: their requests are finite sequences that wait for nobody.

Every property of a passing run has a mutant in `PROJECT.json`: a change of one
definition, such as the number read with a query instead of the counter, the
UPDATE without `deleted_at IS NULL`, or `WOPIInfo` without its second look at the
permission, under which TLC finds the property violated.
The mutated operators stand next to the definitions they replace, marked
"Mutation". They are not part of the specification.

## 4. Where code and documents disagree

Each is the counterexample of one run (`findings` in `PROJECT.json`).

* `collab_ghost`: `TASK.md:1231` asks that a disconnected session leaves the
  presence list. `broadcastPresence` (`service.go:376`) can panic in `Join`,
  before `handler.go:91` defers `Leave`.
* `collab_unsaved`: `TASK.md:1289` asks that a restart recovers the document.
  `applyContentUpdate` (`service.go:209`) keeps a text whose insert failed.
* `doc_lost_commit`: `TASK.md:1481` asks that versions can be downloaded. An error
  of COMMIT (`repository.go:313`) is always cleaned up as a rollback.
* `accounts_lockout`: `docs/admin-console.md:8` says administrators cannot lock
  the system. `AdminUpdateUser` (`auth/local/service.go:270`) only compares the
  target with the actor.
* `access_revoked`: `TASK.md:1049` and the comment at `office/service.go:239` say
  that a deleted permission is void at once. Both WebSockets ask for the role only
  when they open (`office/handler.go:53`, `markdown/collab/service.go:128`).

Also seen, without a run of their own. The presence list is read under the lock
and sent after it (`markdown/collab/service.go:371`), so two joins can deliver
their lists in the opposite order. `docs/admin-console.md:19` promises an audit
event for each object deletion, but the object key does not fit
`audit_logs.target_id`, a UUID column (migration 008): the insert always fails and
its error is dropped (`RecordAudit`). A save that was stored is reported as failed
when the document is deleted before `Reload`, or when the query that tells the
role fails. The compensating `DeleteObject` uses the request's context, so a
cancelled request leaves its object behind; a failed `PutObject` is not cleaned
up; a crash between the object and the rows leaves the object. Two uploads of an
avatar that overlap leave the object of one of them behind. A changed or reset
password ends no session.

## 5. What is proved

`MarkdownCollabProofs` proves for any set of sessions, any channel capacity and
snapshot interval, any faults and any number of messages and restarts:

* `TypeCorrect`: the type invariant, with the bound on every channel.
* `DurableInvariant`: the inductive invariant `DurableInv`. The three properties
  below are not inductive alone. A number is new because rows never run ahead of
  an open room (`RowsBelowRoom`), because no handler can insert while the room is
  closed, so that a finished load is still exact when the room is installed
  (`ClosedRoomIsQuiet`), and because a handler past its insert holds a committed
  row (`HandlersHoldRows`).
* `SeqNumbersAreUnique`, `SnapshotsAreRows`, `BroadcastsSurvive`: its corollaries.
* `LoadsAreExact`: the action property `LoadsNewest`.
* `ClientInvariant`: the inductive invariant `ClientInv` for what clients are sent.
  A session has nothing in its channel before it registers
  (`StrangersAreSentNothing`), its init message is never ahead of the room
  (`BaseBelowRoom`), and whoever is captured as a receiver of an update registered
  before that update got its number (`PendingIsNew`).
* `UpdatesComeAfterInit`, `UpdatesAreAccountedFor`: from it. Each step that takes an
  update from one place (receivers still to be sent to, a channel, the writer)
  puts it into the next or into `lost`.
* `SavedInvariant`, `UnsavedUpdatesAreReported`: the text an open room shows is the
  newest of the rows and of the inserts under way, or the insert of that very text
  failed and its author was answered with an error. For that, a load that is about
  to open the room has to hold a row of the log or the file (`LoadedRows`).
* `CollabImplementsSharedText`: `Spec => ImplementsSharedText`, from the three
  invariants. `InstallRoom` maps to `Open` if it makes the room (that the row it
  holds is still the newest is `ClosedRoomIsQuiet`), `AssignSeq` to `Edit`, an insert
  to `Store` or `Drop`, `Register` to `Greet`, a write of the writer goroutine to
  `Show`, `Crash` to `Restart`, everything else to a stutter.

`DocumentVersionsProofs` proves for any finite set of calls, any kinds and faults:

* `DocumentInvariant`: `TypeOK` with the inductive invariant `DocumentInv`. Its
  heart is `OneWriterPastInsert`. A transaction past its INSERT has a number that
  no row has and that is at most one above the number of rows, so it is the next
  number, so any other such transaction would hold the same number and the unique
  index would have kept it waiting. A commit then appends (`StoreIsAppend`), and
  numbers, current version and rows agree. `StoresFollowCalls` says for each step
  of a call what the two stores hold of it, which gives the properties of
  objects; `UploadIsFirst` makes the upload the only writer before the document
  exists; `CommitsPrecedeDeletion` is the row lock.
* `TypeCorrect`, `NumbersStayConsecutive`, `CurrentStaysNewest`,
  `VersionsKeepObjects`, `ObjectsAccountedFor`, `SuccessStaysStored`,
  `DeletedOnce`, `ReadersAreServed`: its corollaries.
* `WaitsNeverChain`: no deadlock, for any number of writers and deletions. A
  transaction that holds the documents row waits for nothing but its own COMMIT; one
  that holds a number another INSERT waits for could itself wait only for the row,
  and the holder of the row would be a second transaction past its INSERT, which
  `OneWriterPastInsert` excludes. It is the part of the liveness property
  `CallsFinish` that can be proved.
* `DocumentImplementsHistory`: `Spec => ImplementsHistory`. A commit maps to
  `Add`, the deletion to `Remove`, every other step to a stutter.

`AccountsProofs` proves for any requests, accounts, administrators, bodies and
faults:

* `AccountInvariant`: the inductive invariant `RInv`. Where a request is says what
  it has been seen with (`Cleared`: past `RequireAuth` it had its session, an
  enabled account and, where needed, the administrator's role) and what it works
  on (`Based`: the account and session its statements name). Rows never
  disappear and sessions never change their owner (`Growth`), so what one request
  has established no other can undo.
* `TypeCorrect`, `IdentitiesAreUnique`, `EffectsAreAuthorised`, `AuditIsHonest`:
  its corollaries. `OneAccountPerIdentity` is part of the invariant, because a
  callback writes what it looked up earlier and only the indexes stand behind it.
* `LastAdminIsNotLostAlone`, `SessionsAreEndedByOwners`: action properties. An
  administrator who is still one when it writes is not the target it takes the
  role from, so it remains.
* `AvatarInvariant`: the second invariant `AInv`. An avatar key belongs to one
  upload, which sets it once, before it ends (`SetOnce`); so a key that was
  replaced never comes back, and whoever deletes it deletes nothing in use. With
  it `AvatarsAreThere` and `ObjectsAreAccounted`.

`AccountPolicyProofs` goes on from there, under the same assumptions:

* `BoundInvariant`: the invariant `BInv`. A request that has not yet shown a right to
  an account has none, and what its service found before the UPDATE still holds when
  the UPDATE runs: a local account stays local (`StepLocal`), and the setting that
  allows merging by e-mail does not change. Of what the services check these are the
  facts no concurrent request can undo; the others (enabled, the old password, the
  role) can change between the check and the UPDATE, and the policy asks for them
  only when the account is found.
* `AccountsImplementPolicy`: `Spec => ImplementsAccountPolicy`, with one lemma per
  statement. An UPDATE, for instance, maps to `Change` because the row it writes is
  the old row with the request's own columns replaced (`UpdatedRow`), because the
  request has not acted before (`Told`), and because of `BInv`.

`AccessPlans` proves of each of the 36 kinds of request that its plan is in order
(`PlansOK`): every step with an effect, and the end, come after checks that cover
`Needed`, and there is at most one change. `AccessProofs` proves from that, for
any users, requests, kinds, limits and faults:

* `AccessInvariant`: the inductive invariant `IInv`. The rights a request was asked
  for so far are among those it was seen with (`Checked`), it is somewhere in its
  plan (`Where`), it has changed something exactly when it is past the step that
  does (`Effective`).
* `TypeCorrect`, `RequestsAreJustified`, `ToldRolesAreHeld`, `AuditIsHonest`,
  `BodiesAreWhole`: its corollaries.
* `AccessImplementsPolicy`: `Spec => ImplementsPolicy`. The step with the effect
  maps to `Effect`, the answer to `Success` or `Refusal`, a check to a step that
  only watches.

The only assumptions are those the modules name: finite sets, a capacity and an
interval of at least one, natural bounds, the listed kinds and faults, and that
the absent value (NULL, no call) is not one of the others.

Model-checked only: the liveness properties `ClientsCatchUp`, `BroadcastsFinish`,
`SessionsEnd` and `CallsFinish`, since the prover has no rules for fairness
and ENABLED.

## 6. Not modelled

* Start-up: `Migrate`, environment variables, the HTTP server, and the health
  probes, which keep no state. Two backends that migrate at once are in the plan.
* The storage client's check of the bucket, made once per process and its error
  kept (`storage/minio.go:116`). The other modules see it as a storage that fails
  every time, which their faults include.
* OIDC before the callback's lookup: the redirect with its state cookie and the
  exchange of the code belong to the provider's protocol; the profile it gives is
  an input of `Accounts`.
* Listings and searches without a decision (users, filters of the audit list):
  one statement each that changes nothing. Parsing, headers, status codes, file
  type validation and the bodies of answers.
* A restored or saved version against an open Markdown room: `MarkdownCollab` and
  `DocumentVersions` are checked apart, and `MarkdownCollab` takes the answer of
  the access check as any answer.
* The spreadsheet server (an authorisation hook around the Hocuspocus library),
  the frontend, the deployment files: no protocol state of their own, or only that
  of a library.

PostgreSQL, MinIO, `net/http`, the WebSocket library and the editors appear as the
code uses them: atomic statements, READ COMMITTED transactions, requests that
fail, recovered panics.

## 7. Plan

Done: `MarkdownCollab`, `VersionHistory` and `DocumentVersions`, `Accounts`,
`AccessRights`, `AccessPolicy` and `Access`, each with runs, mutants and proofs;
`SharedText` and `AccountPolicy`, the abstract specifications that `MarkdownCollab`
and `Accounts` implement. Every invariant, action property and refinement that a
passing run checks is a theorem.

Left, in this order:

1. The composition of `MarkdownCollab` with `DocumentVersions`: an open room, or a
   log with rows, hides a version saved or restored through HTTP. The documents
   should first say which text is to win.
2. The cached bucket check of the storage client, with the requests behind it.
3. Start-up: migrations with two backends.
