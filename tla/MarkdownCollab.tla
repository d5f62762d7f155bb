--------------------------- MODULE MarkdownCollab ---------------------------
(***************************************************************************)
(* The Markdown collaboration service (backend/internal/markdown/collab):  *)
(* one document, its in-memory room, the WebSocket sessions joined to it   *)
(* and the two PostgreSQL tables the room is rebuilt from.                 *)
(*                                                                         *)
(* Every session has two goroutines: the HTTP handler (Join, readLoop with *)
(* ApplyClientMessage, Leave), whose progress is pc and phase, and the     *)
(* writeLoop that drains the session's buffered channel Receive.  The room *)
(* mutex is held only inside single actions below; everything between two  *)
(* critical sections (database calls, channel sends) is a step of its own. *)
(*                                                                         *)
(* The text of an update is abstracted to the number of the request that   *)
(* submitted it; 0 is the text of the uploaded file.                       *)
(***************************************************************************)
EXTENDS Integers, Sequences, FiniteSets

CONSTANTS
  Sessions,           \* ClientSession objects; a crash makes them fresh again
  Cap,                \* capacity of a Receive channel, 16 in the code
  SnapshotInterval,   \* MARKDOWN_SNAPSHOT_UPDATE_INTERVAL
  Requests,           \* client message types a run sends, and "get"
  Faults,             \* events of the environment a run exercises
  MaxRequests,        \* bound: messages the clients submit
  MaxCrashes          \* bound: backend restarts

RequestTypes == {"update", "presence", "cursor", "get"}
FaultTypes == {"refused", "dbError", "upgrade", "disconnect", "link", "crash"}

ASSUME SessionsFinite == IsFiniteSet(Sessions)
ASSUME CapPositive == Cap \in Nat \ {0}
ASSUME IntervalPositive == SnapshotInterval \in Nat \ {0}
ASSUME SwitchesKnown == Requests \subseteq RequestTypes /\ Faults \subseteq FaultTypes
ASSUME BoundsNatural == MaxRequests \in Nat /\ MaxCrashes \in Nat

VARIABLES
  exists, content, updateSeq, clients,   \* s.rooms[documentID] and the room
  pc, phase, canEdit, msg, to,           \* the handler goroutine of a session
  receive, closed, writer,               \* ClientSession.Receive, writeLoop
  updates, snapshots,                    \* markdown_updates, markdown_snapshots
  requests, crashes,                        \* how much of the bounds is used
  base, got, mine, lost,         \* history: what a client was sent
  reported                       \* history: updates answered with an error

roomVars    == <<exists, content, updateSeq, clients>>
handlerVars == <<pc, phase, canEdit, msg, to>>
chanVars    == <<receive, closed, writer>>
dbVars      == <<updates, snapshots>>
boundVars   == <<requests, crashes>>
histVars    == <<base, got, mine, lost, reported>>
vars == <<roomVars, handlerVars, chanVars, dbVars, boundVars, histVars>>

-----------------------------------------------------------------------------
(* Rows of the two tables and the messages of the protocol.                *)

Row == [seq : Nat, content : Nat]
FileRow == [seq |-> 0, content |-> 0]

MessageTypes == {"none", "init", "update", "presence", "cursor", "error"}
ServerMessage ==
  [type : MessageTypes, seq : Nat, content : Nat, users : SUBSET Sessions]

Message(type, row, users) ==
  [type |-> type, seq |-> row.seq, content |-> row.content, users |-> users]
NoMessage  == Message("none", FileRow, {})
ErrorReply == Message("error", FileRow, {})
RowOf(m) == [seq |-> m.seq, content |-> m.content]

(* r is the row of S with the highest sequence number.                     *)
IsLast(r, S) == r \in S /\ \A q \in S : q.seq <= r.seq

(* Mutation: the buffer is never full.                                     *)
OfferUnbounded(q, m) == Append(q, m)

(* enqueue on an open channel: a full buffer drops the message.            *)
Offer(q, m) == IF Len(q) < Cap THEN Append(q, m) ELSE q

(* The update numbers m carries when it is broadcast.                      *)
SeqsOf(m) == IF m.type = "update" THEN {m.seq} ELSE {}

-----------------------------------------------------------------------------
PCs == {"idle", "loadSnapshot", "loadUpdates", "install", "register",
        "sendInit", "presence", "send", "upgrade", "reading", "persist",
        "snapshot", "leaving", "gone"}
Phases == {"join", "get", "serve", "leave", "panic"}

TypeOK ==
  /\ exists \in BOOLEAN /\ content \in Nat /\ updateSeq \in Nat
  /\ clients \in SUBSET Sessions
  /\ pc \in [Sessions -> PCs] /\ phase \in [Sessions -> Phases]
  /\ canEdit \in [Sessions -> BOOLEAN]
  /\ msg \in [Sessions -> ServerMessage]
  /\ to \in [Sessions -> SUBSET Sessions]
  /\ receive \in [Sessions -> Seq(ServerMessage)]
  /\ \A s \in Sessions : Len(receive[s]) <= Cap
  /\ closed \in [Sessions -> BOOLEAN]
  /\ writer \in [Sessions -> {"off", "running", "dead"}]
  /\ updates \in SUBSET Row /\ snapshots \in SUBSET Row
  /\ requests \in Nat /\ crashes \in Nat
  /\ base \in [Sessions -> Nat]
  /\ got \in [Sessions -> SUBSET Nat]
  /\ mine \in [Sessions -> SUBSET Nat]
  /\ lost \in [Sessions -> SUBSET Nat]
  /\ reported \in SUBSET Nat

All(x) == [s \in Sessions |-> x]

Init ==
  /\ exists = FALSE /\ content = 0 /\ updateSeq = 0 /\ clients = {}
  /\ pc = All("idle") /\ phase = All("join") /\ canEdit = All(FALSE)
  /\ msg = All(NoMessage) /\ to = All({})
  /\ receive = All(<<>>) /\ closed = All(FALSE) /\ writer = All("off")
  /\ updates = {} /\ snapshots = {}
  /\ requests = 0 /\ crashes = 0
  /\ base = All(0) /\ got = All({}) /\ mine = All({}) /\ lost = All({})
  /\ reported = {}

-----------------------------------------------------------------------------
(* Sending one message to a set of receivers captured under the room lock. *)

(* Where a handler continues after a broadcast.                            *)
AfterSend(s) == CASE phase[s] = "join"  -> "upgrade"
                  [] phase[s] = "serve" -> "reading"
                  [] OTHER              -> "gone"

(* clientsSnapshotLocked: the receivers are fixed here, sent to later.     *)
Broadcast(s, m, receivers) ==
  /\ msg' = [msg EXCEPT ![s] = m]
  /\ to' = [to EXCEPT ![s] = receivers]
  /\ pc' = [pc EXCEPT ![s] = IF receivers = {} THEN AfterSend(s) ELSE "send"]

(* broadcastPresence: users and receivers are read under one lock.         *)
BroadcastPresence(s) ==
  /\ Broadcast(s, Message("presence", FileRow, clients), clients)
  /\ UNCHANGED <<roomVars, phase, canEdit, chanVars, dbVars, histVars>>

(* Mutation: enqueue without the default case waits for the reader.        *)
BlockingSendTo(s, r) ==
  /\ pc[s] = "send" /\ r \in to[s] /\ ~closed[r] /\ Len(receive[r]) < Cap
  /\ receive' = [receive EXCEPT ![r] = Append(@, msg[s])]
  /\ to' = [to EXCEPT ![s] = @ \ {r}]
  /\ pc' = [pc EXCEPT ![s] = IF to[s] = {r} THEN AfterSend(s) ELSE "send"]
  /\ UNCHANGED <<roomVars, phase, canEdit, msg, closed, writer, dbVars,
                 boundVars, histVars>>

(* enqueue to one receiver of the broadcast.  Go's map iteration takes     *)
(* them in any order; the room lock is not held.                           *)
SendTo(s, r) ==
  /\ pc[s] = "send" /\ r \in to[s] /\ ~closed[r]
  /\ receive' = [receive EXCEPT ![r] = Offer(@, msg[s])]
  /\ to' = [to EXCEPT ![s] = @ \ {r}]
  /\ pc' = [pc EXCEPT ![s] = IF to[s] = {r} THEN AfterSend(s) ELSE "send"]
  /\ lost' = IF Len(receive[r]) < Cap THEN lost
             ELSE [lost EXCEPT ![r] = @ \cup SeqsOf(msg[s])]
  /\ UNCHANGED <<roomVars, phase, canEdit, msg, closed, writer, dbVars,
                 boundVars, base, got, mine, reported>>

(* Mutation: Leave is called after readLoop instead of being deferred.     *)
UnwindWithoutLeave(s) ==
  /\ pc' = [pc EXCEPT ![s] = "gone"]
  /\ phase' = [phase EXCEPT ![s] = IF @ = "serve" THEN "panic" ELSE @]

(* Where a panic takes a handler.  net/http recovers it; the deferred Leave *)
(* runs if readLoop had started, close(done), not deferred, does not.      *)
Unwind(s) ==
  /\ pc' = [pc EXCEPT ![s] = IF phase[s] = "serve" THEN "leaving" ELSE "gone"]
  /\ phase' = [phase EXCEPT ![s] = IF @ = "serve" THEN "panic" ELSE @]

(* The receiver has left since the capture: a send on a closed channel     *)
(* panics, and whoever was still to be sent to gets nothing.               *)
SendPanics(s, r) ==
  /\ pc[s] = "send" /\ r \in to[s] /\ closed[r]
  /\ Unwind(s)
  /\ lost' = [q \in Sessions |->
                IF q \in to[s] THEN lost[q] \cup SeqsOf(msg[s]) ELSE lost[q]]
  /\ to' = [to EXCEPT ![s] = {}]
  /\ UNCHANGED <<roomVars, canEdit, msg, chanVars, dbVars, boundVars, base, got,
                 mine, reported>>

-----------------------------------------------------------------------------
(* Join.                                                                   *)

(* checkAccess, then the first look at s.rooms.  checkAccess only reads    *)
(* tables this module does not hold, so its answer is any answer.          *)
Join(s) ==
  /\ pc[s] = "idle"
  /\ \E edit \in BOOLEAN : canEdit' = [canEdit EXCEPT ![s] = edit]
  /\ pc' = [pc EXCEPT ![s] = IF exists THEN "register" ELSE "loadSnapshot"]
  /\ UNCHANGED <<roomVars, phase, msg, to, chanVars, dbVars, boundVars, histVars>>

(* GET .../markdown/snapshot reads the tables even when the room is open.  *)
Snapshot(s) ==
  /\ pc[s] = "idle" /\ "get" \in Requests
  /\ pc' = [pc EXCEPT ![s] = "loadSnapshot"]
  /\ phase' = [phase EXCEPT ![s] = "get"]
  /\ UNCHANGED <<roomVars, canEdit, msg, to, chanVars, dbVars, boundVars, histVars>>

(* checkAccess says no, or a read of the tables or of the file fails.      *)
RequestFails(s) ==
  /\ \/ "refused" \in Faults /\ pc[s] = "idle"
     \/ "dbError" \in Faults /\ pc[s] \in {"loadSnapshot", "loadUpdates"}
  /\ pc' = [pc EXCEPT ![s] = "gone"]
  /\ msg' = [msg EXCEPT ![s] = NoMessage]
  /\ UNCHANGED <<roomVars, phase, canEdit, to, chanVars, dbVars, boundVars, histVars>>

(* currentContent, first query: the latest snapshot, else the file.        *)
LoadSnapshot(s) ==
  /\ pc[s] = "loadSnapshot"
  /\ \E r \in snapshots \cup {FileRow} :
        /\ IsLast(r, snapshots \cup {FileRow})
        /\ msg' = [msg EXCEPT ![s] = Message("init", r, {})]
  /\ pc' = [pc EXCEPT ![s] = "loadUpdates"]
  /\ UNCHANGED <<roomVars, phase, canEdit, to, chanVars, dbVars, boundVars, histVars>>

(* Mutation: the replay starts one row too late.                           *)
ReplayableAfterNext(row) == {row} \cup {u \in updates : u.seq > row.seq + 1}

(* The rows ListUpdatesAfter can return, and the row replay started from.  *)
Replayable(row) == {row} \cup {u \in updates : u.seq > row.seq}

(* currentContent, second query and the replay.                            *)
LoadUpdates(s) ==
  /\ pc[s] = "loadUpdates"
  /\ \E r \in Replayable(RowOf(msg[s])) :
        /\ IsLast(r, Replayable(RowOf(msg[s])))
        /\ msg' = [msg EXCEPT ![s] =
                     Message("init", r, IF phase[s] = "get" THEN clients ELSE {})]
  /\ pc' = [pc EXCEPT ![s] = IF phase[s] = "get" THEN "gone" ELSE "install"]
  /\ UNCHANGED <<roomVars, phase, canEdit, to, chanVars, dbVars, boundVars, histVars>>

(* Mutation: no second look, the room just loaded replaces another one.    *)
InstallLoaded(s) ==
  /\ pc[s] = "install"
  /\ exists' = TRUE /\ content' = msg[s].content /\ updateSeq' = msg[s].seq
  /\ pc' = [pc EXCEPT ![s] = "register"]
  /\ UNCHANGED <<clients, phase, canEdit, msg, to, chanVars, dbVars, boundVars, histVars>>

(* getRoom's second look under s.mu: an existing room wins over the load.  *)
InstallRoom(s) ==
  /\ pc[s] = "install"
  /\ IF exists THEN UNCHANGED <<exists, content, updateSeq>>
               ELSE /\ exists' = TRUE
                    /\ content' = msg[s].content
                    /\ updateSeq' = msg[s].seq
  /\ pc' = [pc EXCEPT ![s] = "register"]
  /\ UNCHANGED <<clients, phase, canEdit, msg, to, chanVars, dbVars, boundVars, histVars>>

(* Mutation: init carries the row getRoom loaded, not the locked room.     *)
LoadedRow(s) == RowOf(msg[s])

(* The content and updateSeq an init message carries.                      *)
InitRow(s) == [seq |-> updateSeq, content |-> content]

(* Under the room lock: become a client and capture the init message.      *)
Register(s) ==
  /\ pc[s] = "register"
  /\ clients' = clients \cup {s}
  /\ msg' = [msg EXCEPT ![s] =
               Message("init", InitRow(s), clients')]
  /\ base' = [base EXCEPT ![s] = InitRow(s).seq]
  /\ pc' = [pc EXCEPT ![s] = "sendInit"]
  /\ UNCHANGED <<exists, content, updateSeq, phase, canEdit, to, chanVars,
                 dbVars, boundVars, got, mine, lost, reported>>

(* session.Receive <- initial blocks while the buffer is full; nobody      *)
(* drains it yet.                                                          *)
SendInit(s) ==
  /\ pc[s] = "sendInit" /\ Len(receive[s]) < Cap
  /\ receive' = [receive EXCEPT ![s] = Append(@, msg[s])]
  /\ pc' = [pc EXCEPT ![s] = "presence"]
  /\ UNCHANGED <<roomVars, phase, canEdit, msg, to, closed, writer, dbVars,
                 boundVars, histVars>>

(* The broadcastPresence that ends Join and Leave.                         *)
AnnouncePresence(s) ==
  /\ pc[s] = "presence"
  /\ BroadcastPresence(s)
  /\ UNCHANGED boundVars

Upgrade(s) ==
  /\ pc[s] = "upgrade"
  /\ pc' = [pc EXCEPT ![s] = "reading"]
  /\ phase' = [phase EXCEPT ![s] = "serve"]
  /\ writer' = [writer EXCEPT ![s] = "running"]
  /\ UNCHANGED <<roomVars, canEdit, msg, to, receive, closed, dbVars, boundVars, histVars>>

(* Upgrade fails, or readLoop's ReadJSON does: Leave is next.              *)
Disconnect(s) ==
  /\ \/ "upgrade" \in Faults /\ pc[s] = "upgrade"
     \/ "disconnect" \in Faults /\ pc[s] = "reading"
  /\ pc' = [pc EXCEPT ![s] = "leaving"]
  /\ phase' = [phase EXCEPT ![s] = "leave"]
  /\ UNCHANGED <<roomVars, canEdit, msg, to, chanVars, dbVars, boundVars, histVars>>

(* Leave, under the room lock: only a registered session is closed.        *)
Leave(s) ==
  /\ pc[s] = "leaving"
  /\ clients' = clients \ {s}
  /\ closed' = [closed EXCEPT ![s] = @ \/ s \in clients]
  /\ pc' = [pc EXCEPT ![s] = "presence"]
  /\ UNCHANGED <<exists, content, updateSeq, phase, canEdit, msg, to, receive,
                 writer, dbVars, boundVars, histVars>>

-----------------------------------------------------------------------------
(* ApplyClientMessage.                                                     *)

(* A client sends one more message: counted, to bound the runs.            *)
Submit ==
  /\ requests < MaxRequests /\ requests' = requests + 1
  /\ UNCHANGED crashes

PresenceRequest(s) ==
  /\ "presence" \in Requests /\ pc[s] = "reading" /\ Submit
  /\ BroadcastPresence(s)

CursorRequest(s) ==
  /\ "cursor" \in Requests /\ pc[s] = "reading" /\ Submit
  /\ Broadcast(s, Message("cursor", FileRow, {}), clients \ {s})
  /\ UNCHANGED <<roomVars, phase, canEdit, chanVars, dbVars, histVars>>

(* A viewer's update is answered with an error and changes nothing else.   *)
UpdateReadonly(s) ==
  /\ "update" \in Requests /\ pc[s] = "reading" /\ ~canEdit[s] /\ Submit
  /\ receive' = [receive EXCEPT ![s] = Offer(@, ErrorReply)]
  /\ UNCHANGED <<roomVars, handlerVars, closed, writer, dbVars, histVars>>

(* Mutation: number the update with the query NextUpdateSeq.               *)
NextUpdateSeq == 1 + CHOOSE n \in {0} \cup {u.seq : u \in updates} :
                       \A u \in updates : u.seq <= n

(* The number of the next update.                                          *)
NextSeq == updateSeq + 1

(* applyContentUpdate, under the room lock: number the update, replace the *)
(* text, fix the receivers.                                                *)
AssignSeq(s) ==
  /\ "update" \in Requests /\ pc[s] = "reading" /\ canEdit[s] /\ Submit
  /\ content' = requests + 1
  /\ updateSeq' = NextSeq
  /\ msg' = [msg EXCEPT ![s] =
               Message("update", [seq |-> NextSeq, content |-> requests + 1], {})]
  /\ to' = [to EXCEPT ![s] = clients \ {s}]
  /\ mine' = [mine EXCEPT ![s] = @ \cup {NextSeq}]
  /\ pc' = [pc EXCEPT ![s] = "persist"]
  /\ UNCHANGED <<exists, clients, phase, canEdit, chanVars, dbVars,
                 base, got, lost, reported>>

(* markdown_updates_document_seq_unique.                                   *)
SeqTaken(n) == \E u \in updates : u.seq = n

(* Every SnapshotInterval-th update is also stored as a snapshot.          *)
AfterPersist(s) == IF msg[s].seq % SnapshotInterval = 0 THEN "snapshot"
                   ELSE IF to[s] = {} THEN "reading" ELSE "send"

(* Mutation: the receivers are read again once the row is stored.          *)
PersistThenCapture(s) ==
  /\ pc[s] = "persist" /\ ~SeqTaken(msg[s].seq)
  /\ updates' = updates \cup {RowOf(msg[s])}
  /\ to' = [to EXCEPT ![s] = clients \ {s}]
  /\ pc' = [pc EXCEPT ![s] = IF clients = {s} THEN "reading" ELSE "send"]
  /\ UNCHANGED <<roomVars, phase, canEdit, msg, chanVars, snapshots,
                 boundVars, histVars>>

(* CreateUpdate commits.                                                   *)
PersistUpdate(s) ==
  /\ pc[s] = "persist" /\ ~SeqTaken(msg[s].seq)
  /\ updates' = updates \cup {RowOf(msg[s])}
  /\ pc' = [pc EXCEPT ![s] = AfterPersist(s)]
  /\ UNCHANGED <<roomVars, phase, canEdit, msg, to, chanVars, snapshots,
                 boundVars, histVars>>

(* Mutation: the snapshot takes the room's text, which may be newer.       *)
SnapshotOfRoom(s) == [seq |-> msg[s].seq, content |-> content]

(* The row createSnapshot inserts.                                         *)
SnapshotRow(s) == RowOf(msg[s])

(* createSnapshot commits.                                                 *)
PersistSnapshot(s) ==
  /\ pc[s] = "snapshot"
  /\ snapshots' = snapshots \cup {SnapshotRow(s)}
  /\ pc' = [pc EXCEPT ![s] = IF to[s] = {} THEN "reading" ELSE "send"]
  /\ UNCHANGED <<roomVars, phase, canEdit, msg, to, chanVars, updates, boundVars, histVars>>

(* Mutation: the error is reported, and the update broadcast all the same. *)
ReportAndGoOn(s) ==
  /\ receive' = [receive EXCEPT ![s] = Offer(@, ErrorReply)]
  /\ pc' = [pc EXCEPT ![s] = IF to[s] = {} THEN "reading" ELSE "send"]
  /\ reported' = reported \cup {msg[s].seq}
  /\ UNCHANGED <<to, lost>>

(* Mutation: the error is logged, its author hears nothing.                *)
DropSilently(s) ==
  /\ lost' = [q \in Sessions |->
                IF q \in to[s] THEN lost[q] \cup {msg[s].seq} ELSE lost[q]]
  /\ to' = [to EXCEPT ![s] = {}]
  /\ pc' = [pc EXCEPT ![s] = "reading"]
  /\ UNCHANGED <<receive, reported>>

(* The early return with an error, and readLoop's answer to it.            *)
ReportError(s) ==
  /\ receive' = [receive EXCEPT ![s] = Offer(@, ErrorReply)]
  /\ lost' = [q \in Sessions |->
                IF q \in to[s] THEN lost[q] \cup {msg[s].seq} ELSE lost[q]]
  /\ to' = [to EXCEPT ![s] = {}]
  /\ pc' = [pc EXCEPT ![s] = "reading"]
  /\ reported' = reported \cup {msg[s].seq}

(* CreateUpdate or createSnapshot returns an error: the author gets an     *)
(* error message, nobody gets the update, the room keeps it.  The row may  *)
(* be there all the same, when only the answer was lost.                   *)
PersistFails(s) ==
  /\ pc[s] \in {"persist", "snapshot"}
  /\ \/ "dbError" \in Faults
     \/ pc[s] = "persist" /\ SeqTaken(msg[s].seq)
  /\ \/ UNCHANGED dbVars
     \/ /\ "dbError" \in Faults /\ pc[s] = "persist" /\ ~SeqTaken(msg[s].seq)
        /\ updates' = updates \cup {RowOf(msg[s])}
        /\ UNCHANGED snapshots
     \/ /\ "dbError" \in Faults /\ pc[s] = "snapshot"
        /\ snapshots' = snapshots \cup {SnapshotRow(s)}
        /\ UNCHANGED updates
  /\ ReportError(s)
  /\ UNCHANGED <<roomVars, phase, canEdit, msg, closed, writer, boundVars,
                 base, got, mine>>

-----------------------------------------------------------------------------
(* writeLoop.                                                              *)

WriteMessage(s) ==
  /\ writer[s] = "running" /\ receive[s] # <<>>
  /\ receive' = [receive EXCEPT ![s] = Tail(@)]
  /\ got' = [got EXCEPT ![s] = @ \cup SeqsOf(Head(receive[s]))]
  /\ UNCHANGED <<roomVars, handlerVars, closed, writer, dbVars, boundVars,
                 base, mine, lost, reported>>

(* WriteJSON fails: the loop returns; readLoop notices nothing yet.        *)
WriteFails(s) ==
  /\ "link" \in Faults /\ writer[s] = "running" /\ receive[s] # <<>>
  /\ receive' = [receive EXCEPT ![s] = Tail(@)]
  /\ writer' = [writer EXCEPT ![s] = "dead"]
  /\ lost' = [lost EXCEPT ![s] = @ \cup SeqsOf(Head(receive[s]))]
  /\ UNCHANGED <<roomVars, handlerVars, closed, dbVars, boundVars, base, got,
                 mine, reported>>

(* done is closed when readLoop returns, and only then; Receive is closed  *)
(* by Leave, and what it still holds is written first.                     *)
WriterStops(s) ==
  /\ writer[s] = "running"
  /\ phase[s] = "leave" \/ (closed[s] /\ receive[s] = <<>>)
  /\ writer' = [writer EXCEPT ![s] = "off"]
  /\ UNCHANGED <<roomVars, handlerVars, receive, closed, dbVars, boundVars, histVars>>

-----------------------------------------------------------------------------
(* The backend process dies and starts again.  An insert that was under    *)
(* way is either committed or not.                                         *)
Crash ==
  /\ "crash" \in Faults /\ crashes < MaxCrashes
  /\ crashes' = crashes + 1
  /\ \E done \in SUBSET {s \in Sessions : pc[s] \in {"persist", "snapshot"}} :
       /\ updates' = updates \cup
            {RowOf(msg[s]) : s \in {q \in done : pc[q] = "persist" /\ ~SeqTaken(msg[q].seq)}}
       /\ snapshots' = snapshots \cup
            {SnapshotRow(s) : s \in {q \in done : pc[q] = "snapshot"}}
  /\ exists' = FALSE /\ content' = 0 /\ updateSeq' = 0 /\ clients' = {}
  /\ pc' = All("idle") /\ phase' = All("join") /\ canEdit' = All(FALSE)
  /\ msg' = All(NoMessage) /\ to' = All({})
  /\ receive' = All(<<>>) /\ closed' = All(FALSE) /\ writer' = All("off")
  /\ base' = All(0) /\ got' = All({}) /\ mine' = All({}) /\ lost' = All({})
  /\ reported' = {}
  /\ UNCHANGED requests

HandlerStep(s) ==
  \/ LoadSnapshot(s) \/ LoadUpdates(s) \/ InstallRoom(s) \/ Register(s)
  \/ SendInit(s) \/ AnnouncePresence(s) \/ Upgrade(s) \/ Leave(s)
  \/ PersistUpdate(s) \/ PersistSnapshot(s) \/ PersistFails(s)
  \/ \E r \in Sessions : SendTo(s, r) \/ SendPanics(s, r)

ClientStep(s) ==
  \/ Join(s) \/ Snapshot(s) \/ RequestFails(s) \/ Disconnect(s)
  \/ PresenceRequest(s) \/ CursorRequest(s) \/ UpdateReadonly(s) \/ AssignSeq(s)

WriterStep(s) == WriteMessage(s) \/ WriterStops(s)

Next ==
  \/ \E s \in Sessions :
       HandlerStep(s) \/ ClientStep(s) \/ WriterStep(s) \/ WriteFails(s)
  \/ Crash

Spec == Init /\ [][Next]_vars

(* The Go scheduler runs every runnable goroutine and database calls       *)
(* return.  Nothing forces clients, faults or crashes.                     *)
Fairness ==
  \A s \in Sessions : WF_vars(HandlerStep(s)) /\ WF_vars(WriterStep(s))

FairSpec == Spec /\ Fairness

-----------------------------------------------------------------------------
(* Properties.                                                             *)

(* The unique index (document_id, update_seq) never fires: numbers are     *)
(* given out under the room lock, the insert follows much later, and after *)
(* a restart numbering resumes above every row that was committed.         *)
NoSeqCollision ==
  \A s \in Sessions : pc[s] = "persist" =>
    /\ ~SeqTaken(msg[s].seq)
    /\ \A t \in Sessions \ {s} : pc[t] = "persist" => msg[t].seq # msg[s].seq

(* A periodic snapshot is a row of the log, so replaying what follows it   *)
(* gives the same text as replaying everything.                            *)
SnapshotsRepeatLog == snapshots \subseteq updates

(* No client is sent an update that a restart could forget.                *)
BroadcastIsDurable ==
  \A s \in Sessions : \A i \in DOMAIN receive[s] :
    receive[s][i].type = "update" => RowOf(receive[s][i]) \in updates

(* What makes the three above inductive: rows never run ahead of the open  *)
(* room, a handler past its insert holds a committed row, and until a room *)
(* is open nobody can add rows to what a load has read.                    *)
RowsBelowRoom == exists => \A u \in updates : u.seq <= updateSeq

ClosedRoomIsQuiet ==
  ~exists => \A s \in Sessions :
    /\ pc[s] \in {"idle", "loadSnapshot", "loadUpdates", "install", "gone"}
    /\ pc[s] = "install" => \A u \in updates : u.seq <= msg[s].seq

HandlersHoldRows ==
  \A s \in Sessions :
    /\ pc[s] = "persist" => msg[s].seq <= updateSeq
    /\ pc[s] = "sendInit" => msg[s].type = "init"
    /\ pc[s] = "loadUpdates" => RowOf(msg[s]) \in updates \cup {FileRow}
    /\ pc[s] = "snapshot" \/ (pc[s] = "send" /\ msg[s].type = "update") =>
         RowOf(msg[s]) \in updates

DurableInv ==
  /\ NoSeqCollision /\ SnapshotsRepeatLog /\ BroadcastIsDurable
  /\ RowsBelowRoom /\ ClosedRoomIsQuiet /\ HandlersHoldRows

(* What a client is sent after joining is newer than its init message,     *)
(* whichever arrives first.                                                *)
UpdatesFollowInit ==
  \A s \in Sessions :
    /\ \A n \in got[s] : n > base[s]
    /\ \A i \in DOMAIN receive[s] :
         receive[s][i].type = "update" => receive[s][i].seq > base[s]

(* s still has to be sent update n by the handler of h.                    *)
Pending(h, s, n) ==
  /\ pc[h] \in {"persist", "snapshot", "send"} /\ msg[h].type = "update"
  /\ msg[h].seq = n /\ s \in to[h]

QueuedSeqs(s) == UNION {SeqsOf(receive[s][i]) : i \in DOMAIN receive[s]}

(* Between the init message and the room's present number no update is     *)
(* missing for a client, except those it wrote and those recorded as lost: *)
(* dropped by a full buffer, cut off by an error, a panic or a dead link.  *)
NoUpdateForgotten ==
  \A s \in clients : \A n \in (base[s] + 1)..updateSeq :
    \/ n \in got[s] \cup mine[s] \cup lost[s] \cup QueuedSeqs(s)
    \/ \E h \in Sessions : Pending(h, s, n)

(* The text an open room shows is the newest of those stored and those     *)
(* being stored, through restarts, unless the insert of that very text     *)
(* failed and readLoop answered its author with an error (which, like any  *)
(* message, a full buffer drops).                                          *)
RoomRow == [seq |-> updateSeq, content |-> content]
Inserting == {RowOf(msg[s]) : s \in {h \in Sessions : pc[h] = "persist"}}
UnsavedIsReported ==
  exists => \/ IsLast(RoomRow, updates \cup Inserting \cup {FileRow})
            \/ updateSeq \in reported

(* The row a load ends with is the newest committed at its second query,   *)
(* although the first query ran earlier and rows were added in between.    *)
LoadIsNewest ==
  \A s \in Sessions : LoadUpdates(s) => IsLast(RowOf(msg'[s]), updates \cup {FileRow})
LoadsNewest == [][LoadIsNewest]_vars

(* Once the clients stop submitting (the bound MaxRequests), every one with *)
(* a working writeLoop has been handed each update accepted since its init *)
(* message, written by another and not dropped by its full buffer.         *)
Behind(s) == ((base[s] + 1)..updateSeq) \ (got[s] \cup mine[s] \cup lost[s])
ClientsCatchUp == <>[](\A s \in clients : writer[s] = "running" => Behind(s) = {})

(* A client that stopped reading never holds up another one's handler.     *)
BroadcastsFinish ==
  \A s \in Sessions :
    pc[s] \in {"persist", "snapshot", "send"} ~> pc[s] \in {"reading", "upgrade", "gone"}

(* A connection that ends, also one whose handler panicked on the channel  *)
(* of a session that was leaving at the same time, leaves nothing behind:  *)
(* its session is out of the room and both its goroutines come to an end,  *)
(* the writer by the channel Leave closed when done was never closed.      *)
Ending(s) == phase[s] \in {"serve", "leave", "panic"} /\ pc[s] \in {"leaving", "gone"}
Ended(s) == pc[s] = "gone" /\ s \notin clients /\ writer[s] # "running"
SessionsEnd == <>[](\A s \in Sessions : Ending(s) => Ended(s))

(* The service, with its goroutines, channels and restarts, is one text    *)
(* that editors replace in turn: the two-query load and the two looks at   *)
(* s.rooms open it in one step, and nobody is shown what is not stored.    *)
Shared == INSTANCE SharedText WITH
  Readers <- Sessions, open <- exists, text <- RoomRow, log <- updates,
  storing <- Inserting, start <- base, shown <- got
ImplementsSharedText == Shared!Spec

-----------------------------------------------------------------------------
(* What the project's documents ask of the service and the code does not   *)
(* give; each has a run that shows how.                                    *)

(* TASK.md:1231: a disconnected session is cleared from the presence list. *)
PresenceIsCleared == \A s \in clients : pc[s] # "gone"

(* TASK.md:1289: after a restart the document is recovered from snapshots  *)
(* and updates, to what a reload showed before it, once no insert is under *)
(* way.                                                                    *)
RestartRecoversRoom ==
  (exists /\ \A s \in Sessions : pc[s] # "persist") =>
    IsLast(RoomRow, updates \cup {FileRow})

=============================================================================
