------------------------ MODULE MarkdownCollabProofs ------------------------
(***************************************************************************)
(* Proofs about MarkdownCollab, for any set of sessions, any channel       *)
(* capacity, any snapshot interval, any faults and any number of crashes.  *)
(***************************************************************************)
EXTENDS MarkdownCollab, TLAPS

(* A server message built from a row is well typed.                        *)
LEMMA MessageType ==
  ASSUME NEW type \in MessageTypes, NEW row \in Row, NEW users \in SUBSET Sessions
  PROVE  Message(type, row, users) \in ServerMessage
BY DEF Message, ServerMessage, Row

(* The row a message carries is a row.                                     *)
LEMMA RowOfType ==
  ASSUME NEW m \in ServerMessage
  PROVE  RowOf(m) \in Row
BY DEF RowOf, ServerMessage, Row

(* The numbers a message carries are numbers.                              *)
LEMMA SeqsOfType ==
  ASSUME NEW m \in ServerMessage
  PROVE  SeqsOf(m) \in SUBSET Nat
BY DEF SeqsOf, ServerMessage

(* enqueue keeps the channel within its capacity.                          *)
LEMMA OfferType ==
  ASSUME NEW q \in Seq(ServerMessage), Len(q) <= Cap, NEW m \in ServerMessage
  PROVE  Offer(q, m) \in Seq(ServerMessage) /\ Len(Offer(q, m)) <= Cap
BY CapPositive DEF Offer

(* So does one more message in a channel with room for it.                 *)
LEMMA AppendType ==
  ASSUME NEW q \in Seq(ServerMessage), Len(q) < Cap, NEW m \in ServerMessage
  PROVE  Append(q, m) \in Seq(ServerMessage) /\ Len(Append(q, m)) <= Cap
BY CapPositive

(* And so does taking the oldest message out.                              *)
LEMMA TailType ==
  ASSUME NEW q \in Seq(ServerMessage), Len(q) <= Cap, q # <<>>
  PROVE  /\ Tail(q) \in Seq(ServerMessage) /\ Len(Tail(q)) <= Cap
         /\ Head(q) \in ServerMessage
BY CapPositive

(* The fixed messages are well typed.                                      *)
LEMMA ConstantMessages ==
  /\ FileRow \in Row
  /\ NoMessage \in ServerMessage
  /\ ErrorReply \in ServerMessage
BY DEF FileRow, Row, NoMessage, ErrorReply, Message, ServerMessage, MessageTypes

(* The initial state is well typed.                                        *)
LEMMA InitTypeOK == Init => TypeOK
<1> SUFFICES ASSUME Init PROVE TypeOK
  OBVIOUS
<1>1. receive \in [Sessions -> Seq(ServerMessage)] /\ \A s \in Sessions : Len(receive[s]) <= Cap
  BY CapPositive DEF Init, All
<1>2. msg \in [Sessions -> ServerMessage]
  BY ConstantMessages DEF Init, All
<1> QED
  BY <1>1, <1>2 DEF Init, TypeOK, All, PCs, Phases

USE DEF roomVars, handlerVars, chanVars, dbVars, boundVars, histVars

(* A send into a Receive buffer, or its panic, keeps the types.            *)
LEMMA SendTypeOK ==
  ASSUME TypeOK, NEW s \in Sessions, NEW r \in Sessions,
         SendTo(s, r) \/ SendPanics(s, r)
  PROVE  TypeOK'
<1>1. CASE SendTo(s, r)
  BY <1>1, OfferType, SeqsOfType DEF SendTo, TypeOK, AfterSend, PCs, Phases
<1>2. CASE SendPanics(s, r)
  BY <1>2, SeqsOfType DEF SendPanics, Unwind, TypeOK, PCs, Phases
<1> QED BY <1>1, <1>2

(* The actions of Join and of the snapshot request.                        *)
LEMMA JoinTypeOK ==
  ASSUME TypeOK, NEW s \in Sessions,
         \/ Join(s) \/ Snapshot(s) \/ RequestFails(s) \/ LoadSnapshot(s)
         \/ LoadUpdates(s) \/ InstallRoom(s) \/ Register(s) \/ SendInit(s)
         \/ AnnouncePresence(s) \/ Upgrade(s)
  PROVE  TypeOK'
<1>1. CASE Join(s)
  BY <1>1 DEF Join, TypeOK, PCs
<1>2. CASE Snapshot(s)
  BY <1>2 DEF Snapshot, TypeOK, PCs, Phases
<1>3. CASE RequestFails(s)
  BY <1>3, ConstantMessages DEF RequestFails, TypeOK, PCs
<1>4. CASE LoadSnapshot(s)
  <2>1. PICK r \in snapshots \cup {FileRow} : msg' = [msg EXCEPT ![s] = Message("init", r, {})]
    BY <1>4 DEF LoadSnapshot
  <2>2. Message("init", r, {}) \in ServerMessage
    BY ConstantMessages, MessageType DEF TypeOK, MessageTypes
  <2> QED BY <1>4, <2>1, <2>2 DEF LoadSnapshot, TypeOK, PCs
<1>5. CASE LoadUpdates(s)
  <2> DEFINE users == IF phase[s] = "get" THEN clients ELSE {}
  <2>1. PICK r \in Replayable(RowOf(msg[s])) : msg' = [msg EXCEPT ![s] = Message("init", r, users)]
    BY <1>5 DEF LoadUpdates
  <2>2. r \in Row /\ users \in SUBSET Sessions
    BY RowOfType DEF TypeOK, Replayable
  <2>3. Message("init", r, users) \in ServerMessage
    BY <2>2, MessageType DEF MessageTypes
  <2> HIDE DEF users
  <2> QED BY <1>5, <2>1, <2>3 DEF LoadUpdates, TypeOK, PCs
<1>6. CASE InstallRoom(s)
  BY <1>6 DEF InstallRoom, TypeOK, PCs, ServerMessage
<1>7. CASE Register(s)
  <2>1. InitRow(s) \in Row
    BY DEF InitRow, Row, TypeOK
  <2>2. clients' \in SUBSET Sessions
    BY <1>7 DEF Register, TypeOK
  <2>3. Message("init", InitRow(s), clients') \in ServerMessage
    BY <2>1, <2>2, MessageType DEF MessageTypes
  <2>4. InitRow(s).seq \in Nat
    BY <2>1 DEF Row
  <2> QED BY <1>7, <2>2, <2>3, <2>4 DEF Register, TypeOK, PCs
<1>8. CASE SendInit(s)
  <2>1. Append(receive[s], msg[s]) \in Seq(ServerMessage) /\ Len(Append(receive[s], msg[s])) <= Cap
    BY <1>8, AppendType DEF SendInit, TypeOK
  <2> QED BY <1>8, <2>1 DEF SendInit, TypeOK, PCs
<1>9. CASE AnnouncePresence(s)
  <2>1. Message("presence", FileRow, clients) \in ServerMessage
    BY ConstantMessages, MessageType DEF TypeOK, MessageTypes
  <2> QED BY <1>9, <2>1 DEF AnnouncePresence, BroadcastPresence, Broadcast,
                           AfterSend, TypeOK, PCs, Phases
<1>10. CASE Upgrade(s)
  BY <1>10 DEF Upgrade, TypeOK, PCs, Phases
<1> QED BY <1>1, <1>2, <1>3, <1>4, <1>5, <1>6, <1>7, <1>8, <1>9, <1>10

(* The actions of readLoop, ApplyClientMessage and Leave.                  *)
LEMMA ServeTypeOK ==
  ASSUME TypeOK, NEW s \in Sessions,
         \/ Disconnect(s) \/ Leave(s) \/ PresenceRequest(s) \/ CursorRequest(s)
         \/ UpdateReadonly(s) \/ AssignSeq(s) \/ PersistUpdate(s)
         \/ PersistSnapshot(s) \/ PersistFails(s)
  PROVE  TypeOK'
<1>1. CASE Disconnect(s)
  BY <1>1 DEF Disconnect, TypeOK, PCs, Phases
<1>2. CASE Leave(s)
  BY <1>2 DEF Leave, TypeOK, PCs
<1>3. CASE PresenceRequest(s)
  <2>1. Message("presence", FileRow, clients) \in ServerMessage
    BY ConstantMessages, MessageType DEF TypeOK, MessageTypes
  <2> QED BY <1>3, <2>1 DEF PresenceRequest, BroadcastPresence, Broadcast,
                           Submit, AfterSend, TypeOK, PCs, Phases
<1>4. CASE CursorRequest(s)
  <2>1. Message("cursor", FileRow, {}) \in ServerMessage
    BY ConstantMessages, MessageType DEF MessageTypes
  <2> QED BY <1>4, <2>1 DEF CursorRequest, Broadcast, Submit, AfterSend, TypeOK,
                           PCs, Phases
<1>5. CASE UpdateReadonly(s)
  <2>1. Offer(receive[s], ErrorReply) \in Seq(ServerMessage) /\ Len(Offer(receive[s], ErrorReply)) <= Cap
    BY OfferType, ConstantMessages DEF TypeOK
  <2> QED BY <1>5, <2>1 DEF UpdateReadonly, Submit, TypeOK
<1>6. CASE AssignSeq(s)
  <2> DEFINE row == [seq |-> NextSeq, content |-> requests + 1]
  <2>1. NextSeq \in Nat /\ row \in Row
    BY DEF NextSeq, Row, TypeOK
  <2>2. Message("update", row, {}) \in ServerMessage
    BY <2>1, MessageType DEF MessageTypes
  <2> QED BY <1>6, <2>1, <2>2 DEF AssignSeq, Submit, TypeOK, PCs
<1>7. CASE PersistUpdate(s)
  BY <1>7, RowOfType DEF PersistUpdate, AfterPersist, TypeOK, PCs
<1>8. CASE PersistSnapshot(s)
  BY <1>8, RowOfType DEF PersistSnapshot, SnapshotRow, TypeOK, PCs
<1>9. CASE PersistFails(s)
  <2>1. updates' \in SUBSET Row /\ snapshots' \in SUBSET Row
    BY <1>9, RowOfType DEF PersistFails, SnapshotRow, TypeOK
  <2>2. msg[s].seq \in Nat
    BY DEF TypeOK, ServerMessage
  <2> QED BY <1>9, <2>1, <2>2, OfferType, ConstantMessages
          DEF PersistFails, ReportError, TypeOK, PCs
<1> QED BY <1>1, <1>2, <1>3, <1>4, <1>5, <1>6, <1>7, <1>8, <1>9

(* So do the steps of writeLoop.                                           *)
LEMMA WriterTypeOK ==
  ASSUME TypeOK, NEW s \in Sessions,
         WriteMessage(s) \/ WriteFails(s) \/ WriterStops(s)
  PROVE  TypeOK'
<1>1. CASE WriteMessage(s)
  <2>1. /\ Tail(receive[s]) \in Seq(ServerMessage) /\ Len(Tail(receive[s])) <= Cap
        /\ SeqsOf(Head(receive[s])) \in SUBSET Nat
    BY <1>1, TailType, SeqsOfType DEF WriteMessage, TypeOK
  <2> QED BY <1>1, <2>1 DEF WriteMessage, TypeOK
<1>2. CASE WriteFails(s)
  <2>1. /\ Tail(receive[s]) \in Seq(ServerMessage) /\ Len(Tail(receive[s])) <= Cap
        /\ SeqsOf(Head(receive[s])) \in SUBSET Nat
    BY <1>2, TailType, SeqsOfType DEF WriteFails, TypeOK
  <2> QED BY <1>2, <2>1 DEF WriteFails, TypeOK
<1>3. CASE WriterStops(s)
  BY <1>3 DEF WriterStops, TypeOK
<1> QED BY <1>1, <1>2, <1>3

(* So does a crash of the backend.                                         *)
LEMMA CrashTypeOK == TypeOK /\ Crash => TypeOK'
<1> SUFFICES ASSUME TypeOK, Crash PROVE TypeOK'
  OBVIOUS
<1>1. updates' \in SUBSET Row /\ snapshots' \in SUBSET Row
  BY RowOfType DEF Crash, SnapshotRow, TypeOK
<1>2. (receive \in [Sessions -> Seq(ServerMessage)] /\ \A s \in Sessions : Len(receive[s]) <= Cap)'
  BY CapPositive DEF Crash, All
<1>3. (msg \in [Sessions -> ServerMessage])'
  BY ConstantMessages DEF Crash, All
<1>4. (/\ pc \in [Sessions -> PCs] /\ phase \in [Sessions -> Phases]
       /\ canEdit \in [Sessions -> BOOLEAN] /\ to \in [Sessions -> SUBSET Sessions]
       /\ closed \in [Sessions -> BOOLEAN]
       /\ writer \in [Sessions -> {"off", "running", "dead"}])'
  BY DEF Crash, All, PCs, Phases
<1>5. (/\ base \in [Sessions -> Nat] /\ got \in [Sessions -> SUBSET Nat]
       /\ mine \in [Sessions -> SUBSET Nat] /\ lost \in [Sessions -> SUBSET Nat]
       /\ reported \in SUBSET Nat)'
  BY DEF Crash, All
<1>6. (exists \in BOOLEAN)'
  BY DEF Crash
<1>7. (content \in Nat /\ updateSeq \in Nat /\ clients \in SUBSET Sessions)'
  BY DEF Crash
<1>8. (requests \in Nat /\ crashes \in Nat)'
  BY DEF Crash, TypeOK
<1> QED
  BY <1>1, <1>2, <1>3, <1>4, <1>5, <1>6, <1>7, <1>8 DEF TypeOK

(* Every step of the service is one of these.                              *)
LEMMA NextCases ==
  ASSUME Next
  PROVE  \/ \E s \in Sessions :
              \/ Join(s) \/ Snapshot(s) \/ RequestFails(s) \/ LoadSnapshot(s)
              \/ LoadUpdates(s) \/ InstallRoom(s) \/ Register(s) \/ SendInit(s)
              \/ AnnouncePresence(s) \/ Upgrade(s)
              \/ Disconnect(s) \/ Leave(s) \/ PresenceRequest(s) \/ CursorRequest(s)
              \/ UpdateReadonly(s) \/ AssignSeq(s) \/ PersistUpdate(s)
              \/ PersistSnapshot(s) \/ PersistFails(s)
              \/ WriteMessage(s) \/ WriteFails(s) \/ WriterStops(s)
              \/ \E r \in Sessions : SendTo(s, r) \/ SendPanics(s, r)
         \/ Crash
BY DEF Next, HandlerStep, ClientStep, WriterStep

(* So does every step.                                                     *)
LEMMA StepTypeOK == TypeOK /\ [Next]_vars => TypeOK'
<1>1. ASSUME TypeOK, Next PROVE TypeOK'
  BY <1>1, NextCases, JoinTypeOK, ServeTypeOK, SendTypeOK, WriterTypeOK, CrashTypeOK
<1>2. ASSUME TypeOK, UNCHANGED vars PROVE TypeOK'
  BY <1>2 DEF TypeOK, vars
<1> QED BY <1>1, <1>2

(* Every variable keeps its type and no Receive channel outgrows its       *)
(* buffer.                                                                 *)
THEOREM TypeCorrect == Spec => []TypeOK
BY InitTypeOK, StepTypeOK, PTL DEF Spec

-----------------------------------------------------------------------------
(* The log of updates and what is built on it.                             *)

(* The messages of a channel after enqueue, Append or Tail were in it      *)
(* before, or are the one enqueued.                                        *)
LEMMA OfferElements ==
  ASSUME NEW q \in Seq(ServerMessage), NEW m \in ServerMessage,
         NEW i \in DOMAIN Offer(q, m)
  PROVE  Offer(q, m)[i] = m \/ (i \in DOMAIN q /\ Offer(q, m)[i] = q[i])
BY CapPositive DEF Offer

(* What an extended buffer holds.                                          *)
LEMMA AppendElements ==
  ASSUME NEW q \in Seq(ServerMessage), NEW m \in ServerMessage,
         NEW i \in DOMAIN Append(q, m)
  PROVE  Append(q, m)[i] = m \/ (i \in DOMAIN q /\ Append(q, m)[i] = q[i])
OBVIOUS

(* What is left after the oldest message is taken.                         *)
LEMMA TailElements ==
  ASSUME NEW q \in Seq(ServerMessage), q # <<>>, NEW i \in DOMAIN Tail(q)
  PROVE  i + 1 \in DOMAIN q /\ Tail(q)[i] = q[i + 1]
OBVIOUS

(* A step that only queues messages backed by rows keeps BroadcastIsDurable. *)
LEMMA DurableQueues ==
  ASSUME TypeOK, BroadcastIsDurable, updates \subseteq updates',
         \A r \in Sessions : \A i \in DOMAIN receive'[r] :
            \/ \E j \in DOMAIN receive[r] : receive'[r][i] = receive[r][j]
            \/ receive'[r][i].type = "update" => RowOf(receive'[r][i]) \in updates'
  PROVE  BroadcastIsDurable'
BY DEF BroadcastIsDurable

(* The inductive invariant holds initially.                                *)
LEMMA InitDurable == Init => DurableInv
BY DEF Init, All, DurableInv, NoSeqCollision, SnapshotsRepeatLog, BroadcastIsDurable,
       RowsBelowRoom, ClosedRoomIsQuiet, HandlersHoldRows

(* A send only passes on a message the sender already had.                 *)
LEMMA SendDurable ==
  ASSUME TypeOK, DurableInv, NEW s \in Sessions, NEW r \in Sessions,
         SendTo(s, r) \/ SendPanics(s, r)
  PROVE  DurableInv'
<1> USE DEF DurableInv
<1>1. CASE SendTo(s, r)
  <2>1. BroadcastIsDurable'
    <3>1. \A i \in DOMAIN receive'[r] : receive'[r][i] = msg[s] \/ \E j \in DOMAIN receive[r] : receive'[r][i] = receive[r][j]
      BY <1>1, OfferElements DEF SendTo, TypeOK
    <3>2. \A q \in Sessions \ {r} : receive'[q] = receive[q]
      BY <1>1 DEF SendTo, TypeOK
    <3> QED BY <1>1, <3>1, <3>2, DurableQueues DEF SendTo, HandlersHoldRows
  <2>2. (NoSeqCollision /\ SnapshotsRepeatLog /\ RowsBelowRoom /\ ClosedRoomIsQuiet /\ HandlersHoldRows)'
    BY <1>1 DEF SendTo, TypeOK, AfterSend, NoSeqCollision, SeqTaken, SnapshotsRepeatLog, RowsBelowRoom,
                ClosedRoomIsQuiet, HandlersHoldRows
  <2> QED BY <2>1, <2>2
<1>2. CASE SendPanics(s, r)
  BY <1>2 DEF SendPanics, Unwind, TypeOK, NoSeqCollision, SeqTaken, SnapshotsRepeatLog, RowsBelowRoom,
              ClosedRoomIsQuiet, HandlersHoldRows, BroadcastIsDurable
<1> QED BY <1>1, <1>2

(* The actions of Join and of the snapshot request that leave Receive alone. *)
LEMMA JoinDurable ==
  ASSUME TypeOK, DurableInv, NEW s \in Sessions,
         \/ Join(s) \/ Snapshot(s) \/ RequestFails(s) \/ LoadSnapshot(s)
         \/ LoadUpdates(s) \/ InstallRoom(s) \/ Register(s)
         \/ AnnouncePresence(s) \/ Upgrade(s)
  PROVE  DurableInv'
<1> USE DEF DurableInv
<1>1. updates' = updates /\ snapshots' = snapshots /\ receive' = receive
  BY DEF Join, Snapshot, RequestFails, LoadSnapshot, LoadUpdates, InstallRoom,
         Register, AnnouncePresence, BroadcastPresence, Broadcast, Upgrade
<1>2. (SnapshotsRepeatLog /\ BroadcastIsDurable)'
  BY <1>1 DEF SnapshotsRepeatLog, BroadcastIsDurable
<1> SUFFICES (NoSeqCollision /\ RowsBelowRoom /\ ClosedRoomIsQuiet /\ HandlersHoldRows)'
  BY <1>2
<1> USE DEF NoSeqCollision, SeqTaken, RowsBelowRoom, ClosedRoomIsQuiet, HandlersHoldRows
<1>3. CASE Join(s)
  BY <1>3 DEF Join, TypeOK
<1>4. CASE Snapshot(s)
  BY <1>4 DEF Snapshot, TypeOK
<1>5. CASE RequestFails(s)
  BY <1>5 DEF RequestFails, TypeOK
<1>6. CASE LoadSnapshot(s)
  <2>1. PICK r \in snapshots \cup {FileRow} : msg' = [msg EXCEPT ![s] = Message("init", r, {})]
    BY <1>6 DEF LoadSnapshot
  <2>2. r \in Row /\ r \in updates \cup {FileRow}
    BY ConstantMessages DEF TypeOK, SnapshotsRepeatLog
  <2>3. RowOf(Message("init", r, {})) = r
    BY <2>2 DEF RowOf, Message, Row
  <2> QED BY <1>6, <2>1, <2>2, <2>3 DEF LoadSnapshot, TypeOK
<1>7. CASE LoadUpdates(s)
  <2> DEFINE users == IF phase[s] = "get" THEN clients ELSE {}
  <2>1. PICK r \in Replayable(RowOf(msg[s])) :
          /\ IsLast(r, Replayable(RowOf(msg[s])))
          /\ msg' = [msg EXCEPT ![s] = Message("init", r, users)]
    BY <1>7 DEF LoadUpdates
  <2>2. r \in Row /\ RowOf(msg[s]) \in Row
    BY RowOfType DEF TypeOK, Replayable
  <2>3. \A u \in updates : u.seq <= r.seq
    <3> TAKE u \in updates
    <3>1. RowOf(msg[s]).seq <= r.seq
      BY <2>1 DEF IsLast, Replayable
    <3>2. u \in Row
      BY DEF TypeOK
    <3>3. CASE u.seq > RowOf(msg[s]).seq
      BY <2>1, <3>3 DEF IsLast, Replayable
    <3>4. CASE ~(u.seq > RowOf(msg[s]).seq)
      BY <2>2, <3>1, <3>2, <3>4 DEF Row
    <3> QED BY <3>3, <3>4
  <2>4. Message("init", r, users).seq = r.seq
    BY DEF Message
  <2> HIDE DEF users
  <2> QED BY <1>7, <2>1, <2>3, <2>4 DEF LoadUpdates, TypeOK
<1>8. CASE InstallRoom(s)
  BY <1>8 DEF InstallRoom, TypeOK
<1>9. CASE Register(s)
  <2>1. msg' = [msg EXCEPT ![s] = Message("init", InitRow(s), clients')]
    BY <1>9 DEF Register
  <2>2. Message("init", InitRow(s), clients').type = "init"
    BY DEF Message
  <2>3. /\ pc[s] = "register" /\ pc' = [pc EXCEPT ![s] = "sendInit"]
        /\ UNCHANGED <<exists, updateSeq>>
    BY <1>9 DEF Register
  <2>4. exists
    BY <2>3
  <2>5. \A q \in Sessions \ {s} : msg'[q] = msg[q] /\ pc'[q] = pc[q]
    BY <2>1, <2>3 DEF TypeOK
  <2>6. pc'[s] = "sendInit" /\ msg'[s].type = "init"
    BY <2>1, <2>2, <2>3 DEF TypeOK
  <2> QED BY <1>1, <2>3, <2>4, <2>5, <2>6
<1>10. CASE AnnouncePresence(s)
  <2>1. Message("presence", FileRow, clients).type = "presence"
    BY DEF Message
  <2> QED BY <1>10, <2>1 DEF AnnouncePresence, BroadcastPresence, Broadcast, AfterSend, TypeOK
<1>11. CASE Upgrade(s)
  BY <1>11 DEF Upgrade, TypeOK
<1> QED BY <1>3, <1>4, <1>5, <1>6, <1>7, <1>8, <1>9, <1>10, <1>11

(* Reading from a client and leaving the room: the tables do not move.     *)
LEMMA ServeDurable ==
  ASSUME TypeOK, DurableInv, NEW s \in Sessions,
         \/ Disconnect(s) \/ Leave(s) \/ PresenceRequest(s) \/ CursorRequest(s)
         \/ AssignSeq(s) \/ WriterStops(s)
  PROVE  DurableInv'
<1> USE DEF DurableInv
<1>1. updates' = updates /\ snapshots' = snapshots /\ receive' = receive
  BY DEF Disconnect, Leave, PresenceRequest, CursorRequest, BroadcastPresence,
         Broadcast, AssignSeq, WriterStops
<1>2. (SnapshotsRepeatLog /\ BroadcastIsDurable)'
  BY <1>1 DEF SnapshotsRepeatLog, BroadcastIsDurable
<1> SUFFICES (NoSeqCollision /\ RowsBelowRoom /\ ClosedRoomIsQuiet /\ HandlersHoldRows)'
  BY <1>2
<1> USE DEF NoSeqCollision, SeqTaken, RowsBelowRoom, ClosedRoomIsQuiet, HandlersHoldRows
<1>3. CASE Disconnect(s)
  BY <1>3 DEF Disconnect, TypeOK
<1>4. CASE Leave(s)
  BY <1>4 DEF Leave, TypeOK
<1>5. CASE PresenceRequest(s)
  <2>1. Message("presence", FileRow, clients).type = "presence"
    BY DEF Message
  <2> QED BY <1>5, <2>1 DEF PresenceRequest, BroadcastPresence, Broadcast, AfterSend, TypeOK
<1>6. CASE CursorRequest(s)
  <2>1. Message("cursor", FileRow, {}).type = "cursor"
    BY DEF Message
  <2> QED BY <1>6, <2>1 DEF CursorRequest, Broadcast, AfterSend, TypeOK
<1>7. CASE AssignSeq(s)
  (* The new number is above every row and every insert under way.         *)
  <2> DEFINE m == Message("update", [seq |-> NextSeq, content |-> requests + 1], {})
  <2>1. m.seq = updateSeq + 1 /\ updateSeq' = updateSeq + 1 /\ updateSeq \in Nat
    BY <1>7 DEF Message, NextSeq, AssignSeq, TypeOK
  <2>2. exists /\ exists' = exists
    BY <1>7 DEF AssignSeq
  <2>3. msg' = [msg EXCEPT ![s] = m] /\ pc' = [pc EXCEPT ![s] = "persist"]
    BY <1>7 DEF AssignSeq
  <2>4. \A u \in updates : u.seq \in Nat /\ u.seq <= updateSeq
    BY <2>2 DEF TypeOK, Row
  <2>5. \A q \in Sessions : msg[q].seq \in Nat
    BY DEF TypeOK, ServerMessage
  <2> HIDE DEF m
  <2>6. NoSeqCollision'
    BY <1>1, <2>1, <2>3, <2>4, <2>5 DEF TypeOK
  <2>7. RowsBelowRoom' /\ ClosedRoomIsQuiet'
    BY <1>1, <2>1, <2>2, <2>4
  <2>8. HandlersHoldRows'
    BY <1>1, <2>1, <2>3, <2>5 DEF TypeOK
  <2> QED BY <2>6, <2>7, <2>8
<1>8. CASE WriterStops(s)
  BY <1>8 DEF WriterStops, TypeOK
<1> QED BY <1>3, <1>4, <1>5, <1>6, <1>7, <1>8

(* The steps that put a message in, or take one out of, the session's own  *)
(* channel and touch no table.                                             *)
LEMMA QueueDurable ==
  ASSUME TypeOK, DurableInv, NEW s \in Sessions,
         SendInit(s) \/ UpdateReadonly(s) \/ WriteMessage(s) \/ WriteFails(s)
  PROVE  DurableInv'
<1> USE DEF DurableInv
<1>1. updates' = updates /\ snapshots' = snapshots /\ updateSeq' = updateSeq
      /\ exists' = exists /\ msg' = msg
  BY DEF SendInit, UpdateReadonly, WriteMessage, WriteFails
<1>2. pc' = pc \/ (pc[s] = "sendInit" /\ pc' = [pc EXCEPT ![s] = "presence"])
  BY DEF SendInit, UpdateReadonly, WriteMessage, WriteFails
<1>3. (NoSeqCollision /\ SnapshotsRepeatLog /\ RowsBelowRoom /\ ClosedRoomIsQuiet /\ HandlersHoldRows)'
  BY <1>1, <1>2 DEF TypeOK, NoSeqCollision, SeqTaken, SnapshotsRepeatLog,
     RowsBelowRoom, ClosedRoomIsQuiet, HandlersHoldRows
<1> SUFFICES BroadcastIsDurable'
  BY <1>3
<1>4. CASE SendInit(s)
  <2>1. \A i \in DOMAIN receive'[s] : receive'[s][i] = msg[s] \/ \E j \in DOMAIN receive[s] : receive'[s][i] = receive[s][j]
    BY <1>4, AppendElements DEF SendInit, TypeOK
  <2>2. \A q \in Sessions \ {s} : receive'[q] = receive[q]
    BY <1>4 DEF SendInit, TypeOK
  <2>3. msg[s].type = "init"
    BY <1>4 DEF SendInit, HandlersHoldRows
  <2> QED BY <1>1, <2>1, <2>2, <2>3, DurableQueues
<1>5. CASE UpdateReadonly(s)
  <2>1. \A i \in DOMAIN receive'[s] : receive'[s][i] = ErrorReply \/ \E j \in DOMAIN receive[s] : receive'[s][i] = receive[s][j]
    BY <1>5, OfferElements, ConstantMessages DEF UpdateReadonly, TypeOK
  <2>2. \A q \in Sessions \ {s} : receive'[q] = receive[q]
    BY <1>5 DEF UpdateReadonly, TypeOK
  <2>3. ErrorReply.type = "error"
    BY DEF ErrorReply, Message
  <2> QED BY <1>1, <2>1, <2>2, <2>3, DurableQueues
<1>6. CASE WriteMessage(s) \/ WriteFails(s)
  <2>1. receive[s] # <<>> /\ receive' = [receive EXCEPT ![s] = Tail(receive[s])]
    BY <1>6 DEF WriteMessage, WriteFails
  <2>2. \A i \in DOMAIN receive'[s] : \E j \in DOMAIN receive[s] : receive'[s][i] = receive[s][j]
    BY <2>1, TailElements DEF TypeOK
  <2>3. \A q \in Sessions \ {s} : receive'[q] = receive[q]
    BY <2>1 DEF TypeOK
  <2> QED BY <1>1, <2>2, <2>3, DurableQueues
<1> QED BY <1>4, <1>5, <1>6

(* The inserts.                                                            *)
LEMMA PersistDurable ==
  ASSUME TypeOK, DurableInv, NEW s \in Sessions,
         PersistUpdate(s) \/ PersistSnapshot(s) \/ PersistFails(s)
  PROVE  DurableInv'
<1> USE DEF DurableInv
<1> DEFINE row == RowOf(msg[s])
<1>1. row.seq = msg[s].seq /\ row \in Row
  BY RowOfType DEF RowOf, TypeOK
<1>2. exists
  BY DEF ClosedRoomIsQuiet, PersistUpdate, PersistSnapshot, PersistFails
<1>3. UNCHANGED <<exists, updateSeq, msg>>
  BY DEF PersistUpdate, PersistSnapshot, PersistFails
<1> HIDE DEF row
<1>4. /\ pc[s] \in {"persist", "snapshot"}
      /\ \E next \in {"snapshot", "reading", "send"} : pc' = [pc EXCEPT ![s] = next]
  BY DEF PersistUpdate, AfterPersist, PersistSnapshot, PersistFails, ReportError
<1>5. \/ updates' = updates \/ (pc[s] = "persist" /\ updates' = updates \cup {row})
  BY DEF PersistUpdate, PersistSnapshot, PersistFails, row
<1>6. pc'[s] \in {"snapshot", "send"} => row \in updates'
  BY DEF PersistUpdate, AfterPersist, PersistSnapshot, PersistFails, ReportError, TypeOK, HandlersHoldRows, row
<1>7. NoSeqCollision'
  BY <1>1, <1>3, <1>4, <1>5 DEF NoSeqCollision, SeqTaken, TypeOK
<1>8. RowsBelowRoom' /\ ClosedRoomIsQuiet'
  BY <1>1, <1>2, <1>3, <1>4, <1>5 DEF RowsBelowRoom, ClosedRoomIsQuiet, HandlersHoldRows
<1>9. HandlersHoldRows'
  BY <1>3, <1>4, <1>5, <1>6 DEF HandlersHoldRows, TypeOK, row
<1>10. SnapshotsRepeatLog'
  BY <1>5 DEF PersistUpdate, PersistSnapshot, PersistFails, SnapshotRow, SnapshotsRepeatLog, HandlersHoldRows
<1>11. BroadcastIsDurable'
  <2>1. \A q \in Sessions \ {s} : receive'[q] = receive[q]
    BY DEF PersistUpdate, PersistSnapshot, PersistFails, ReportError, TypeOK
  <2>2. \A i \in DOMAIN receive'[s] : receive'[s][i] = ErrorReply \/ \E j \in DOMAIN receive[s] : receive'[s][i] = receive[s][j]
    BY OfferElements, ConstantMessages DEF PersistUpdate, PersistSnapshot, PersistFails, ReportError, TypeOK
  <2>3. ErrorReply.type = "error"
    BY DEF ErrorReply, Message
  <2> QED BY <1>5, <2>1, <2>2, <2>3, DurableQueues
<1> QED BY <1>7, <1>8, <1>9, <1>10, <1>11

(* After a restart no handler is left, and the snapshots that made it are  *)
(* of rows that were there before.                                         *)
LEMMA CrashDurable == TypeOK /\ DurableInv /\ Crash => DurableInv'
<1> SUFFICES ASSUME TypeOK, DurableInv, Crash PROVE DurableInv'
  OBVIOUS
<1>1. SnapshotsRepeatLog'
  BY DEF Crash, DurableInv, SnapshotsRepeatLog, SnapshotRow, HandlersHoldRows
<1>2. BroadcastIsDurable'
  BY DEF Crash, All, BroadcastIsDurable
<1>3. (NoSeqCollision /\ RowsBelowRoom /\ ClosedRoomIsQuiet /\ HandlersHoldRows)'
  BY DEF Crash, All, NoSeqCollision, RowsBelowRoom, ClosedRoomIsQuiet, HandlersHoldRows
<1> QED BY <1>1, <1>2, <1>3 DEF DurableInv

(* Every step keeps the inductive invariant.                               *)
LEMMA StepDurable == TypeOK /\ DurableInv /\ [Next]_vars => DurableInv'
<1>1. ASSUME TypeOK, DurableInv, Next PROVE DurableInv'
  BY <1>1, NextCases, JoinDurable, ServeDurable, QueueDurable, PersistDurable,
     SendDurable, CrashDurable
<1>2. ASSUME DurableInv, UNCHANGED vars PROVE DurableInv'
  BY <1>2 DEF vars, DurableInv, NoSeqCollision, SeqTaken, SnapshotsRepeatLog,
     BroadcastIsDurable, RowsBelowRoom, ClosedRoomIsQuiet, HandlersHoldRows
<1> QED BY <1>1, <1>2

(* Rows, the open room and the progress of every handler stay in step,     *)
(* through restarts.                                                       *)
THEOREM DurableInvariant == Spec => []DurableInv
BY InitDurable, StepDurable, TypeCorrect, PTL DEF Spec

(* The unique index on (document_id, update_seq) never fires, whatever is  *)
(* interleaved, fails or crashes.                                          *)
THEOREM SeqNumbersAreUnique == Spec => []NoSeqCollision
<1>1. DurableInv => NoSeqCollision
  BY DEF DurableInv
<1> QED BY <1>1, DurableInvariant, PTL

(* A periodic snapshot always repeats a row of the update log.             *)
THEOREM SnapshotsAreRows == Spec => []SnapshotsRepeatLog
<1>1. DurableInv => SnapshotsRepeatLog
  BY DEF DurableInv
<1> QED BY <1>1, DurableInvariant, PTL

(* What is broadcast to other clients survives any later restart.          *)
THEOREM BroadcastsSurvive == Spec => []BroadcastIsDurable
<1>1. DurableInv => BroadcastIsDurable
  BY DEF DurableInv
<1> QED BY <1>1, DurableInvariant, PTL

(* The second query of a load makes up for rows the first came too early   *)
(* for.                                                                    *)
LEMMA LoadStep ==
  ASSUME TypeOK, DurableInv, NEW s \in Sessions, LoadUpdates(s)
  PROVE  IsLast(RowOf(msg'[s]), updates \cup {FileRow})
<1> DEFINE from == RowOf(msg[s])
<1> DEFINE users == IF phase[s] = "get" THEN clients ELSE {}
<1>1. PICK r \in Replayable(from) :
        /\ IsLast(r, Replayable(from))
        /\ msg' = [msg EXCEPT ![s] = Message("init", r, users)]
  BY DEF LoadUpdates
<1>2. from \in updates \cup {FileRow} /\ from \in Row
  BY RowOfType DEF LoadUpdates, DurableInv, HandlersHoldRows, TypeOK
<1> HIDE DEF from, users
<1>3. r \in updates \cup {FileRow} /\ r \in Row
  BY <1>1, <1>2, ConstantMessages DEF Replayable, TypeOK
<1>4. RowOf(msg'[s]) = r
  <2>1. RowOf(Message("init", r, users)) = r
    BY <1>3 DEF RowOf, Message, Row
  <2> QED BY <1>1, <2>1 DEF TypeOK
<1>5. from.seq <= r.seq
  BY <1>1 DEF IsLast, Replayable
<1>6. ASSUME NEW q \in updates \cup {FileRow} PROVE q.seq <= r.seq
  <2>1. q \in Row
    BY ConstantMessages DEF TypeOK
  <2>2. CASE q = FileRow
    BY <1>3, <2>2 DEF FileRow, Row
  <2>3. CASE q \in updates /\ q.seq > from.seq
    BY <1>1, <2>3 DEF IsLast, Replayable
  <2>4. CASE q \in updates /\ ~(q.seq > from.seq)
    BY <1>2, <1>3, <1>5, <2>1, <2>4 DEF Row
  <2> QED BY <2>2, <2>3, <2>4
<1> QED BY <1>3, <1>4, <1>6 DEF IsLast

(* A load ends with the newest committed row, or with the file when there  *)
(* is none, although it reads the two tables one after the other.          *)
THEOREM LoadsAreExact == Spec => LoadsNewest
<1>1. TypeOK /\ DurableInv /\ [Next]_vars => [LoadIsNewest]_vars
  BY LoadStep DEF LoadIsNewest
<1> QED BY <1>1, TypeCorrect, DurableInvariant, PTL DEF Spec, LoadsNewest

-----------------------------------------------------------------------------
(* Clients and the updates they are sent.                                  *)

(* A session that has not registered yet.                                  *)
Early(s) == pc[s] \in {"idle", "loadSnapshot", "loadUpdates", "install", "register"}

(* Nobody is in a room that is not open.                                   *)
ClosedRoomIsEmpty == ~exists => clients = {} /\ \A s \in Sessions : base[s] = 0

(* A client has been told of the room as it was, or as it is.              *)
BaseBelowRoom == \A s \in Sessions : base[s] <= updateSeq

(* Nobody has taken a session that has not registered for a receiver.      *)
StrangersAreSentNothing ==
  \A s \in Sessions : Early(s) =>
    /\ s \notin clients /\ receive[s] = <<>> /\ got[s] = {}
    /\ \A h \in Sessions : s \notin to[h]

(* The handler has an update to send.                                      *)
Sends(h) == pc[h] \in {"persist", "snapshot", "send"} /\ msg[h].type = "update"

(* Receivers are captured after they registered.                           *)
PendingIsNew == \A h \in Sessions : Sends(h) => \A s \in to[h] : msg[h].seq > base[s]

ClientInv ==
  /\ ClosedRoomIsEmpty /\ BaseBelowRoom /\ StrangersAreSentNothing /\ PendingIsNew
  /\ UpdatesFollowInit /\ NoUpdateForgotten

(* The numbers a channel holds.                                            *)
Queued(q) == UNION {SeqsOf(q[i]) : i \in DOMAIN q}

(* A message put in a buffer is in it, and nothing else is lost.           *)
LEMMA AppendQueued ==
  ASSUME NEW q \in Seq(ServerMessage), NEW m \in ServerMessage
  PROVE  Queued(q) \subseteq Queued(Append(q, m)) /\ SeqsOf(m) \subseteq Queued(Append(q, m))
<1> DEFINE a == Append(q, m)
<1>1. \A i \in DOMAIN q : i \in DOMAIN a /\ a[i] = q[i]
  OBVIOUS
<1>2. Len(q) + 1 \in DOMAIN a /\ a[Len(q) + 1] = m
  OBVIOUS
<1> HIDE DEF a
<1> QED BY <1>1, <1>2 DEF Queued

(* enqueue loses at most the message it was given.                         *)
LEMMA OfferQueued ==
  ASSUME NEW q \in Seq(ServerMessage), NEW m \in ServerMessage
  PROVE  /\ Queued(q) \subseteq Queued(Offer(q, m))
         /\ Len(q) < Cap => SeqsOf(m) \subseteq Queued(Offer(q, m))
BY AppendQueued DEF Offer

(* The oldest message is the only one taken out.                           *)
LEMMA TailQueued ==
  ASSUME NEW q \in Seq(ServerMessage), q # <<>>
  PROVE  Queued(q) \subseteq SeqsOf(Head(q)) \cup Queued(Tail(q))
<1> SUFFICES ASSUME NEW i \in DOMAIN q, NEW n \in SeqsOf(q[i])
             PROVE  n \in SeqsOf(Head(q)) \cup Queued(Tail(q))
  BY DEF Queued
<1>1. CASE i = 1
  BY <1>1
<1>2. CASE i # 1
  <2>1. i - 1 \in DOMAIN Tail(q) /\ Tail(q)[i - 1] = q[i]
    BY <1>2
  <2> QED BY <2>1 DEF Queued
<1> QED BY <1>1, <1>2

(* What a client has been sent, is to be sent or is known not to get.      *)
Accounted(s, n) ==
  \/ n \in got[s] \cup mine[s] \cup lost[s] \cup Queued(receive[s])
  \/ \E h \in Sessions : Pending(h, s, n)

(* The property in these terms.                                            *)
LEMMA Forgotten ==
  NoUpdateForgotten <=> \A s \in clients : \A n \in (base[s] + 1)..updateSeq : Accounted(s, n)
BY DEF NoUpdateForgotten, Accounted, QueuedSeqs, Queued

(* And after a step.                                                       *)
LEMMA ForgottenNext ==
  ASSUME \A s \in clients' : \A n \in (base'[s] + 1)..updateSeq' : Accounted(s, n)'
  PROVE  NoUpdateForgotten'
BY DEF NoUpdateForgotten, Accounted, QueuedSeqs, Queued

(* A step that does not change the room or what clients were told.         *)
LEMMA SameRoom ==
  ASSUME TypeOK, ClientInv, UNCHANGED <<exists, updateSeq, clients, base>>,
         \A s \in Sessions : Early(s)' => Early(s),
         \A s \in Sessions : Early(s) => receive'[s] = receive[s] /\ got'[s] = got[s],
         \A h \in Sessions : to'[h] \subseteq to[h] \cup clients,
         \A h \in Sessions : Sends(h)' => Sends(h) /\ msg'[h] = msg[h] /\ to'[h] \subseteq to[h],
         \A s \in Sessions : \A n \in got'[s] \ got[s] : n > base[s],
         \A s \in Sessions : \A i \in DOMAIN receive'[s] :
           receive'[s][i].type = "update" => receive'[s][i].seq > base[s],
         \A s \in clients : \A n \in Nat : Accounted(s, n) => Accounted(s, n)'
  PROVE  ClientInv'
<1>1. ClosedRoomIsEmpty' /\ BaseBelowRoom'
  BY DEF ClientInv, ClosedRoomIsEmpty, BaseBelowRoom
<1>2. StrangersAreSentNothing'
  BY DEF ClientInv, StrangersAreSentNothing
<1>3. PendingIsNew'
  BY DEF ClientInv, PendingIsNew
<1>4. UpdatesFollowInit'
  BY DEF ClientInv, UpdatesFollowInit
<1>5. NoUpdateForgotten'
  <2> SUFFICES ASSUME NEW s \in clients, NEW n \in (base[s] + 1)..updateSeq
               PROVE  Accounted(s, n)'
    BY ForgottenNext
  <2>1. n \in Nat
    BY DEF TypeOK
  <2>2. Accounted(s, n)
    BY Forgotten DEF ClientInv
  <2> QED BY <2>1, <2>2
<1> QED BY <1>1, <1>2, <1>3, <1>4, <1>5 DEF ClientInv

(* Steps of s that send no update, and nothing to its own channel.         *)
LEMMA QuietClients ==
  ASSUME TypeOK, DurableInv, ClientInv, NEW s \in Sessions,
         UNCHANGED <<receive, got, mine, lost, base>>, clients' \subseteq clients,
         \/ exists' = exists /\ updateSeq' = updateSeq
         \/ ~exists /\ updateSeq' \in Nat,
         \A q \in Sessions \ {s} : pc'[q] = pc[q] /\ msg'[q] = msg[q] /\ to'[q] = to[q],
         Early(s)' => Early(s), to'[s] \subseteq to[s] \cup clients, ~Sends(s), ~Sends(s)'
  PROVE  ClientInv'
<1>1. ClosedRoomIsEmpty'
  BY DEF ClientInv, ClosedRoomIsEmpty
<1>2. BaseBelowRoom'
  BY DEF ClientInv, ClosedRoomIsEmpty, BaseBelowRoom
<1>3. \A q \in Sessions : Early(q)' => Early(q)
  BY DEF Early
<1>4. StrangersAreSentNothing'
  BY <1>3 DEF ClientInv, StrangersAreSentNothing
<1>5. \A h \in Sessions \ {s} : Sends(h)' <=> Sends(h)
  BY DEF Sends
<1>6. PendingIsNew'
  BY <1>5 DEF ClientInv, PendingIsNew
<1>7. UpdatesFollowInit'
  BY DEF ClientInv, UpdatesFollowInit
<1>8. NoUpdateForgotten'
  <2> SUFFICES ASSUME NEW q \in clients', NEW n \in (base'[q] + 1)..updateSeq'
               PROVE  Accounted(q, n)'
    BY ForgottenNext
  <2>1. q \in clients /\ updateSeq' = updateSeq /\ base' = base
    BY DEF ClientInv, ClosedRoomIsEmpty
  <2>2. Accounted(q, n)
    BY <2>1, Forgotten DEF ClientInv
  <2>3. ASSUME NEW h \in Sessions, Pending(h, q, n)
        PROVE  Pending(h, q, n)'
    <3>1. h # s
      BY <2>3 DEF Pending, Sends
    <3> QED BY <2>3, <3>1 DEF Pending
  <2> QED BY <2>2, <2>3 DEF Accounted
<1> QED BY <1>1, <1>2, <1>4, <1>6, <1>7, <1>8 DEF ClientInv

(* The steps of a handler that send no update.                             *)
LEMMA QuietSteps ==
  ASSUME TypeOK, DurableInv, ClientInv, NEW s \in Sessions,
         \/ Join(s) \/ Snapshot(s) \/ RequestFails(s) \/ LoadSnapshot(s)
         \/ LoadUpdates(s) \/ InstallRoom(s) \/ AnnouncePresence(s) \/ Upgrade(s)
         \/ Disconnect(s) \/ Leave(s) \/ PresenceRequest(s) \/ CursorRequest(s)
         \/ WriterStops(s)
  PROVE  ClientInv'
<1>1. UNCHANGED <<receive, got, mine, lost, base>> /\ clients' \subseteq clients
  BY DEF Join, Snapshot, RequestFails, LoadSnapshot, LoadUpdates, InstallRoom, AnnouncePresence,
         BroadcastPresence, Broadcast, Upgrade, Disconnect, Leave, PresenceRequest, CursorRequest,
         WriterStops
<1>2. \/ exists' = exists /\ updateSeq' = updateSeq
      \/ ~exists /\ updateSeq' \in Nat
  BY DEF Join, Snapshot, RequestFails, LoadSnapshot, LoadUpdates, InstallRoom, AnnouncePresence,
         BroadcastPresence, Broadcast, Upgrade, Disconnect, Leave, PresenceRequest, CursorRequest,
         WriterStops, TypeOK, ServerMessage
<1>3. \A q \in Sessions \ {s} : pc'[q] = pc[q] /\ msg'[q] = msg[q] /\ to'[q] = to[q]
  BY DEF Join, Snapshot, RequestFails, LoadSnapshot, LoadUpdates, InstallRoom, AnnouncePresence,
         BroadcastPresence, Broadcast, Upgrade, Disconnect, Leave, PresenceRequest, CursorRequest,
         WriterStops, TypeOK
<1>4. /\ Early(s)' => Early(s)
      /\ to'[s] \subseteq to[s] \cup clients
  BY DEF Join, Snapshot, RequestFails, LoadSnapshot, LoadUpdates, InstallRoom, AnnouncePresence,
         BroadcastPresence, Broadcast, AfterSend, Upgrade, Disconnect, Leave, PresenceRequest,
         CursorRequest, WriterStops, TypeOK, Early
<1>5. CASE WriterStops(s)
  <2>1. \A h \in Sessions : Sends(h)' <=> Sends(h)
    BY <1>5 DEF WriterStops, Sends
  <2>2. UNCHANGED <<exists, updateSeq, clients, base, receive, got, mine, lost, pc, msg, to>>
    BY <1>5 DEF WriterStops
  <2>3. ASSUME NEW q \in Sessions, NEW n, Accounted(q, n)
        PROVE  Accounted(q, n)'
    BY <2>2, <2>3 DEF Accounted, Pending
  <2>4. \A q \in Sessions : Early(q)' <=> Early(q)
    BY <2>2 DEF Early
  <2> QED BY <2>1, <2>2, <2>3, <2>4, SameRoom DEF ClientInv, UpdatesFollowInit, TypeOK
<1>6. CASE ~WriterStops(s)
  <2>1. pc[s] \notin {"persist", "snapshot", "send"}
    BY <1>6 DEF Join, Snapshot, RequestFails, LoadSnapshot, LoadUpdates, InstallRoom,
                AnnouncePresence, Upgrade, Disconnect, Leave, PresenceRequest, CursorRequest
  <2>2. ~Sends(s)
    BY <2>1 DEF Sends
  <2>3. CASE AnnouncePresence(s) \/ PresenceRequest(s)
    <3>1. msg'[s].type = "presence"
      BY <2>3 DEF AnnouncePresence, PresenceRequest, BroadcastPresence, Broadcast, Message, TypeOK
    <3> QED BY <1>1, <1>2, <1>3, <1>4, <2>2, <3>1, QuietClients DEF Sends
  <2>4. CASE CursorRequest(s)
    <3>1. msg'[s].type = "cursor"
      BY <2>4 DEF CursorRequest, Broadcast, Message, TypeOK
    <3> QED BY <1>1, <1>2, <1>3, <1>4, <2>2, <3>1, QuietClients DEF Sends
  <2>5. CASE ~(AnnouncePresence(s) \/ PresenceRequest(s) \/ CursorRequest(s))
    <3>1. pc'[s] \notin {"persist", "snapshot", "send"}
      BY <1>6, <2>5 DEF Join, Snapshot, RequestFails, LoadSnapshot, LoadUpdates, InstallRoom,
                Upgrade, Disconnect, Leave, TypeOK
    <3>2. ~Sends(s)'
      BY <3>1 DEF Sends
    <3> QED BY <1>1, <1>2, <1>3, <1>4, <2>2, <3>2, QuietClients
  <2> QED BY <2>3, <2>4, <2>5
<1> QED BY <1>5, <1>6

(* Register: the newcomer is told of the room as it is.                    *)
LEMMA RegisterClients ==
  ASSUME TypeOK, DurableInv, ClientInv, NEW s \in Sessions, Register(s)
  PROVE  ClientInv'
<1>1. /\ pc[s] = "register" /\ exists' = exists /\ updateSeq' = updateSeq /\ to' = to
      /\ receive' = receive /\ got' = got /\ mine' = mine /\ lost' = lost
      /\ clients' = clients \cup {s} /\ base' = [base EXCEPT ![s] = updateSeq]
      /\ pc' = [pc EXCEPT ![s] = "sendInit"]
      /\ \A q \in Sessions \ {s} : msg'[q] = msg[q]
  BY DEF Register, InitRow, TypeOK
<1>2. exists
  BY <1>1 DEF DurableInv, ClosedRoomIsQuiet
<1>3. /\ Early(s) /\ s \notin clients /\ receive[s] = <<>> /\ got[s] = {}
      /\ \A h \in Sessions : s \notin to[h]
  BY <1>1 DEF ClientInv, StrangersAreSentNothing, Early
<1>4. base'[s] = updateSeq /\ \A q \in Sessions \ {s} : base'[q] = base[q]
  BY <1>1 DEF TypeOK
<1>5. ClosedRoomIsEmpty' /\ BaseBelowRoom'
  BY <1>1, <1>2, <1>4 DEF ClientInv, ClosedRoomIsEmpty, BaseBelowRoom, TypeOK
<1>6. pc'[s] = "sendInit" /\ \A q \in Sessions \ {s} : pc'[q] = pc[q]
  BY <1>1 DEF TypeOK
<1>7. StrangersAreSentNothing'
  BY <1>1, <1>6 DEF ClientInv, StrangersAreSentNothing, Early
<1>8. PendingIsNew'
  BY <1>1, <1>3, <1>4, <1>6 DEF ClientInv, PendingIsNew, Sends
<1>9. UpdatesFollowInit'
  BY <1>1, <1>3, <1>4 DEF ClientInv, UpdatesFollowInit
<1>10. NoUpdateForgotten'
  <2> SUFFICES ASSUME NEW q \in clients', NEW n \in (base'[q] + 1)..updateSeq'
               PROVE  Accounted(q, n)'
    BY ForgottenNext
  <2>1. q # s
    BY <1>1, <1>4 DEF TypeOK
  <2>2. q \in clients /\ n \in (base[q] + 1)..updateSeq
    BY <1>1, <1>4, <2>1 DEF TypeOK
  <2>3. Accounted(q, n)
    BY <2>2, Forgotten DEF ClientInv
  <2>4. ASSUME NEW h \in Sessions, Pending(h, q, n)
        PROVE  Pending(h, q, n)'
    BY <1>1, <1>6, <2>4 DEF Pending
  <2> QED BY <1>1, <2>3, <2>4 DEF Accounted
<1> QED BY <1>5, <1>7, <1>8, <1>9, <1>10 DEF ClientInv

(* AssignSeq: the author has the new update, everybody else is captured.   *)
LEMMA AssignClients ==
  ASSUME TypeOK, DurableInv, ClientInv, NEW s \in Sessions, AssignSeq(s)
  PROVE  ClientInv'
<1> DEFINE m == Message("update", [seq |-> NextSeq, content |-> requests + 1], {})
<1>1. m.seq = updateSeq + 1 /\ m.type = "update"
  BY DEF Message, NextSeq
<1>2. /\ pc[s] = "reading" /\ exists' = exists /\ updateSeq' = updateSeq + 1
      /\ clients' = clients /\ receive' = receive /\ got' = got /\ lost' = lost /\ base' = base
      /\ msg' = [msg EXCEPT ![s] = m] /\ to' = [to EXCEPT ![s] = clients \ {s}]
      /\ mine' = [mine EXCEPT ![s] = @ \cup {updateSeq + 1}]
      /\ pc' = [pc EXCEPT ![s] = "persist"]
  BY DEF AssignSeq, NextSeq
<1> HIDE DEF m
<1>3. exists
  BY <1>2 DEF DurableInv, ClosedRoomIsQuiet
<1>4. /\ pc'[s] = "persist" /\ msg'[s] = m /\ to'[s] = clients \ {s}
      /\ \A q \in Sessions \ {s} : pc'[q] = pc[q] /\ msg'[q] = msg[q] /\ to'[q] = to[q]
      /\ mine'[s] = mine[s] \cup {updateSeq + 1}
      /\ \A q \in Sessions \ {s} : mine'[q] = mine[q]
  BY <1>2 DEF TypeOK
<1>5. ClosedRoomIsEmpty' /\ BaseBelowRoom'
  BY <1>2, <1>3 DEF ClientInv, ClosedRoomIsEmpty, BaseBelowRoom, TypeOK
<1>6. StrangersAreSentNothing'
  BY <1>2, <1>4 DEF ClientInv, StrangersAreSentNothing, Early
<1>7. PendingIsNew'
  <2>1. \A q \in Sessions : base[q] <= updateSeq /\ base[q] \in Nat /\ updateSeq \in Nat
    BY DEF ClientInv, BaseBelowRoom, TypeOK
  <2> QED BY <1>1, <1>2, <1>4, <2>1 DEF ClientInv, PendingIsNew, Sends, TypeOK
<1>8. UpdatesFollowInit'
  BY <1>2 DEF ClientInv, UpdatesFollowInit
<1>9. NoUpdateForgotten'
  <2> SUFFICES ASSUME NEW q \in clients', NEW n \in (base'[q] + 1)..updateSeq'
               PROVE  Accounted(q, n)'
    BY ForgottenNext
  <2>1. q \in Sessions /\ q \in clients
    BY <1>2 DEF TypeOK
  <2>2. CASE n = updateSeq + 1
    <3>1. CASE q = s
      BY <1>4, <2>2, <3>1 DEF Accounted
    <3>2. CASE q # s
      <4>1. Pending(s, q, n)'
        BY <1>1, <1>4, <2>1, <2>2, <3>2 DEF Pending
      <4> QED BY <4>1 DEF Accounted
    <3> QED BY <3>1, <3>2
  <2>3. CASE n # updateSeq + 1
    <3>1. n \in (base[q] + 1)..updateSeq
      BY <1>2, <2>1, <2>3 DEF TypeOK
    <3>2. Accounted(q, n)
      BY <2>1, <3>1, Forgotten DEF ClientInv
    <3>3. ASSUME NEW h \in Sessions, Pending(h, q, n)
          PROVE  Pending(h, q, n)'
      <4>1. h # s
        BY <1>2, <3>3 DEF Pending
      <4> QED BY <1>4, <3>3, <4>1 DEF Pending
    <3>4. mine[q] \subseteq mine'[q]
      BY <1>4, <2>1
    <3> QED BY <1>2, <3>2, <3>3, <3>4 DEF Accounted
  <2> QED BY <2>2, <2>3
<1> QED BY <1>5, <1>6, <1>7, <1>8, <1>9 DEF ClientInv

(* SendInit, and the error a viewer gets: nothing new is in the channel.   *)
LEMMA OwnQueueClients ==
  ASSUME TypeOK, DurableInv, ClientInv, NEW s \in Sessions, SendInit(s) \/ UpdateReadonly(s)
  PROVE  ClientInv'
<1> DEFINE m == IF SendInit(s) THEN msg[s] ELSE ErrorReply
<1>1. m \in ServerMessage /\ m.type # "update"
  BY ConstantMessages DEF TypeOK, SendInit, DurableInv, HandlersHoldRows, ErrorReply, Message
<1>2. \/ receive' = [receive EXCEPT ![s] = Append(receive[s], m)]
      \/ receive' = [receive EXCEPT ![s] = Offer(receive[s], m)]
  BY DEF SendInit, UpdateReadonly
<1>3. /\ exists' = exists /\ updateSeq' = updateSeq /\ clients' = clients /\ base' = base
      /\ got' = got /\ mine' = mine /\ lost' = lost /\ msg' = msg /\ to' = to
      /\ ~Early(s) /\ ~Early(s)' /\ ~Sends(s) /\ ~Sends(s)'
      /\ \A q \in Sessions \ {s} : pc'[q] = pc[q]
  BY DEF SendInit, UpdateReadonly, TypeOK, Early, Sends
<1> HIDE DEF m
<1>4. /\ receive[s] \in Seq(ServerMessage)
      /\ \A q \in Sessions \ {s} : receive'[q] = receive[q]
      /\ receive'[s] = Append(receive[s], m) \/ receive'[s] = Offer(receive[s], m)
  BY <1>2 DEF TypeOK
<1>5. ASSUME NEW i \in DOMAIN receive'[s]
      PROVE  receive'[s][i] = m \/ \E j \in DOMAIN receive[s] : receive'[s][i] = receive[s][j]
  BY <1>1, <1>4, <1>5, AppendElements, OfferElements
<1>6. \A q \in Sessions : \A i \in DOMAIN receive'[q] :
        receive'[q][i].type = "update" => receive'[q][i].seq > base[q]
  BY <1>1, <1>4, <1>5 DEF ClientInv, UpdatesFollowInit
<1>7. \A q \in Sessions : Queued(receive[q]) \subseteq Queued(receive'[q])
  BY <1>1, <1>4, AppendQueued, OfferQueued
<1>8. \A q \in Sessions : (Early(q)' => Early(q)) /\ (Sends(q)' <=> Sends(q))
  BY <1>3 DEF Early, Sends
<1>9. ASSUME NEW q \in clients, NEW n \in Nat, Accounted(q, n)
      PROVE  Accounted(q, n)'
  <2>1. q \in Sessions
    BY DEF TypeOK
  <2>2. ASSUME NEW h \in Sessions, Pending(h, q, n)
        PROVE  Pending(h, q, n)'
    <3>1. h # s
      BY <1>3, <2>2 DEF Pending, Sends
    <3> QED BY <1>3, <2>2, <3>1 DEF Pending
  <2> QED BY <1>3, <1>7, <1>9, <2>1, <2>2 DEF Accounted
<1> QED BY <1>3, <1>4, <1>6, <1>8, <1>9, SameRoom

(* The inserts: the update goes on to its receivers, or they lose it.      *)
LEMMA PersistClients ==
  ASSUME TypeOK, DurableInv, ClientInv, NEW s \in Sessions,
         PersistUpdate(s) \/ PersistSnapshot(s) \/ PersistFails(s)
  PROVE  ClientInv'
<1>1. /\ exists' = exists /\ updateSeq' = updateSeq /\ clients' = clients /\ base' = base
      /\ got' = got /\ mine' = mine /\ msg' = msg
      /\ pc[s] \in {"persist", "snapshot"} /\ ~Early(s)'
      /\ \A q \in Sessions \ {s} : pc'[q] = pc[q] /\ receive'[q] = receive[q] /\ to'[q] = to[q]
      /\ to'[s] \subseteq to[s]
  BY DEF PersistUpdate, AfterPersist, PersistSnapshot, PersistFails, ReportError, TypeOK, Early
<1>2. /\ \A q \in Sessions : lost[q] \subseteq lost'[q]
      /\ \/ pc'[s] \in {"persist", "snapshot", "send"} /\ to'[s] = to[s]
         \/ to[s] = {}
         \/ \A q \in to[s] : msg[s].seq \in lost'[q]
  <2>1. CASE PersistUpdate(s) \/ PersistSnapshot(s)
    BY <2>1 DEF PersistUpdate, AfterPersist, PersistSnapshot, TypeOK
  <2>2. CASE PersistFails(s)
    <3>1. lost' = [q \in Sessions |->
                     IF q \in to[s] THEN lost[q] \cup {msg[s].seq} ELSE lost[q]]
      BY <2>2 DEF PersistFails, ReportError
    <3> QED BY <3>1 DEF TypeOK
  <2> QED BY <2>1, <2>2
<1>3. /\ receive[s] \in Seq(ServerMessage)
      /\ receive'[s] = receive[s] \/ receive'[s] = Offer(receive[s], ErrorReply)
  BY DEF PersistUpdate, PersistSnapshot, PersistFails, ReportError, TypeOK
<1>4. ErrorReply \in ServerMessage /\ ErrorReply.type # "update"
  BY ConstantMessages DEF ErrorReply, Message
<1>5. \A q \in Sessions : Queued(receive[q]) \subseteq Queued(receive'[q])
  BY <1>1, <1>3, <1>4, OfferQueued
<1>6. ASSUME NEW i \in DOMAIN receive'[s]
      PROVE  receive'[s][i] = ErrorReply \/ \E j \in DOMAIN receive[s] : receive'[s][i] = receive[s][j]
  BY <1>3, <1>4, <1>6, OfferElements
<1>7. \A q \in Sessions : \A i \in DOMAIN receive'[q] :
        receive'[q][i].type = "update" => receive'[q][i].seq > base[q]
  BY <1>1, <1>4, <1>6 DEF ClientInv, UpdatesFollowInit
<1>8. ~Early(s) /\ \A q \in Sessions : (Early(q)' => Early(q)) /\ (Sends(q)' => Sends(q))
  BY <1>1 DEF Early, Sends
<1>9. ASSUME NEW q \in clients, NEW n \in Nat, Accounted(q, n)
      PROVE  Accounted(q, n)'
  <2>1. q \in Sessions
    BY DEF TypeOK
  <2>2. ASSUME NEW h \in Sessions, Pending(h, q, n)
        PROVE  Pending(h, q, n)' \/ n \in lost'[q]
    <3>1. CASE h = s
      BY <1>1, <1>2, <2>2, <3>1 DEF Pending
    <3>2. CASE h # s
      BY <1>1, <2>2, <3>2 DEF Pending
    <3> QED BY <3>1, <3>2
  <2> QED BY <1>1, <1>2, <1>5, <1>9, <2>1, <2>2 DEF Accounted
<1>10. \A q \in Sessions : to'[q] \subseteq to[q]
  BY <1>1
<1> QED BY <1>1, <1>7, <1>8, <1>9, <1>10, SameRoom

(* One message of a broadcast is queued, dropped, or sent to nobody more.  *)
LEMMA SendClients ==
  ASSUME TypeOK, DurableInv, ClientInv, NEW s \in Sessions, NEW r \in Sessions,
         SendTo(s, r) \/ SendPanics(s, r)
  PROVE  ClientInv'
<1>1. /\ exists' = exists /\ updateSeq' = updateSeq /\ clients' = clients /\ base' = base
      /\ got' = got /\ mine' = mine /\ msg' = msg
      /\ pc[s] = "send" /\ r \in to[s] /\ ~Early(s)'
      /\ \A q \in Sessions \ {s} : pc'[q] = pc[q] /\ to'[q] = to[q]
      /\ to'[s] \subseteq to[s]
      /\ \A q \in Sessions : lost[q] \subseteq lost'[q]
  <2>1. CASE SendTo(s, r)
    <3>1. lost' = lost \/ lost' = [lost EXCEPT ![r] = lost[r] \cup SeqsOf(msg[s])]
      BY <2>1 DEF SendTo
    <3> QED BY <2>1, <3>1 DEF SendTo, AfterSend, TypeOK, Early
  <2>2. CASE SendPanics(s, r)
    <3>1. \A q \in Sessions : lost[q] \subseteq lost'[q]
      BY <2>2 DEF SendPanics, Unwind
    <3> QED BY <2>2, <3>1 DEF SendPanics, Unwind, TypeOK, Early
  <2> QED BY <2>1, <2>2
<1>2. /\ msg[s] \in ServerMessage /\ receive[r] \in Seq(ServerMessage)
      /\ receive'[r] = receive[r] \/ receive'[r] = Offer(receive[r], msg[s])
      /\ \A q \in Sessions \ {r} : receive'[q] = receive[q]
  BY DEF SendTo, SendPanics, Unwind, TypeOK
<1>3. \A q \in Sessions : Queued(receive[q]) \subseteq Queued(receive'[q])
  BY <1>2, OfferQueued
<1>4. ASSUME NEW q \in to[s]
      PROVE  \/ pc'[s] = "send" /\ q \in to'[s]
             \/ SeqsOf(msg[s]) \subseteq lost'[q] \cup Queued(receive'[q])
  <2>1. CASE SendTo(s, r) /\ q # r
    <3>1. to[s] # {r}
      BY <2>1
    <3> QED BY <2>1, <3>1 DEF SendTo, TypeOK
  <2>2. CASE SendTo(s, r) /\ q = r
    <3>1. CASE Len(receive[r]) < Cap
      <4>1. receive'[r] = Offer(receive[r], msg[s])
        BY <2>2 DEF SendTo, TypeOK
      <4> QED BY <1>2, <2>2, <3>1, <4>1, OfferQueued
    <3>2. CASE ~(Len(receive[r]) < Cap)
      BY <2>2, <3>2 DEF SendTo, TypeOK
    <3> QED BY <3>1, <3>2
  <2>3. CASE SendPanics(s, r)
    BY <2>3 DEF SendPanics, Unwind, TypeOK
  <2> QED BY <2>1, <2>2, <2>3
<1>5. ASSUME NEW i \in DOMAIN receive'[r]
      PROVE  receive'[r][i] = msg[s] \/ \E j \in DOMAIN receive[r] : receive'[r][i] = receive[r][j]
  BY <1>2, <1>5, OfferElements
<1>6. \A q \in Sessions : \A i \in DOMAIN receive'[q] :
        receive'[q][i].type = "update" => receive'[q][i].seq > base[q]
  <2>1. msg[s].type = "update" => msg[s].seq > base[r]
    BY <1>1 DEF ClientInv, PendingIsNew, Sends
  <2> QED BY <1>2, <1>5, <2>1 DEF ClientInv, UpdatesFollowInit
<1>7. /\ ~Early(r) /\ \A q \in Sessions : (Early(q)' => Early(q)) /\ (Sends(q)' => Sends(q))
  BY <1>1 DEF Early, Sends, ClientInv, StrangersAreSentNothing
<1>8. ASSUME NEW q \in clients, NEW n \in Nat, Accounted(q, n)
      PROVE  Accounted(q, n)'
  <2>1. q \in Sessions
    BY DEF TypeOK
  <2>2. ASSUME NEW h \in Sessions, Pending(h, q, n)
        PROVE  Pending(h, q, n)' \/ n \in lost'[q] \cup Queued(receive'[q])
    <3>1. CASE h = s
      BY <1>1, <1>4, <2>2, <3>1 DEF Pending, SeqsOf
    <3>2. CASE h # s
      BY <1>1, <2>2, <3>2 DEF Pending
    <3> QED BY <3>1, <3>2
  <2> QED BY <1>1, <1>3, <1>8, <2>1, <2>2 DEF Accounted
<1>9. \A q \in Sessions : to'[q] \subseteq to[q]
  BY <1>1
<1> QED BY <1>1, <1>2, <1>6, <1>7, <1>8, <1>9, SameRoom

(* writeLoop hands the oldest message on, or loses it.                     *)
LEMMA WriteClients ==
  ASSUME TypeOK, DurableInv, ClientInv, NEW s \in Sessions, WriteMessage(s) \/ WriteFails(s)
  PROVE  ClientInv'
<1> DEFINE m == Head(receive[s])
<1>1. /\ exists' = exists /\ updateSeq' = updateSeq /\ clients' = clients /\ base' = base
      /\ mine' = mine /\ msg' = msg /\ pc' = pc /\ to' = to
      /\ receive[s] # <<>> /\ receive' = [receive EXCEPT ![s] = Tail(receive[s])]
  BY DEF WriteMessage, WriteFails
<1>2. /\ receive[s] \in Seq(ServerMessage) /\ receive'[s] = Tail(receive[s])
      /\ \A q \in Sessions \ {s} : receive'[q] = receive[q]
  BY <1>1 DEF TypeOK
<1>3. m = receive[s][1] /\ 1 \in DOMAIN receive[s]
  BY <1>1, <1>2
<1>4. /\ \A q \in Sessions : got[q] \subseteq got'[q] /\ lost[q] \subseteq lost'[q]
      /\ \A q \in Sessions \ {s} : got'[q] = got[q]
      /\ got'[s] \subseteq got[s] \cup SeqsOf(m)
      /\ SeqsOf(m) \subseteq got'[s] \cup lost'[s]
  <2>1. \/ got' = [got EXCEPT ![s] = got[s] \cup SeqsOf(m)] /\ lost' = lost
        \/ got' = got /\ lost' = [lost EXCEPT ![s] = lost[s] \cup SeqsOf(m)]
    BY DEF WriteMessage, WriteFails
  <2> QED BY <2>1 DEF TypeOK
<1> HIDE DEF m
<1>5. \A n \in SeqsOf(m) : n > base[s]
  BY <1>3 DEF ClientInv, UpdatesFollowInit, SeqsOf
<1>6. \A q \in Sessions : \A n \in got'[q] \ got[q] : n > base[q]
  BY <1>4, <1>5
<1>7. \A i \in DOMAIN receive'[s] : \E j \in DOMAIN receive[s] : receive'[s][i] = receive[s][j]
  BY <1>1, <1>2, TailElements
<1>8. \A q \in Sessions : \A i \in DOMAIN receive'[q] :
        receive'[q][i].type = "update" => receive'[q][i].seq > base[q]
  BY <1>2, <1>7 DEF ClientInv, UpdatesFollowInit
<1>9. Queued(receive[s]) \subseteq SeqsOf(m) \cup Queued(receive'[s])
  BY <1>1, <1>2, TailQueued DEF m
<1>10. ~Early(s)
  BY <1>1 DEF ClientInv, StrangersAreSentNothing
<1>11. \A q \in Sessions : (Early(q)' <=> Early(q)) /\ (Sends(q)' <=> Sends(q))
  BY <1>1 DEF Early, Sends
<1>12. ASSUME NEW q \in clients, NEW n \in Nat, Accounted(q, n)
       PROVE  Accounted(q, n)'
  <2>1. q \in Sessions
    BY DEF TypeOK
  <2>2. \A h \in Sessions : Pending(h, q, n) => Pending(h, q, n)'
    BY <1>1 DEF Pending
  <2>3. Queued(receive[q]) \subseteq got'[q] \cup lost'[q] \cup Queued(receive'[q])
    BY <1>2, <1>4, <1>9, <2>1
  <2> QED BY <1>1, <1>4, <1>12, <2>1, <2>2, <2>3 DEF Accounted
<1> QED BY <1>1, <1>2, <1>4, <1>6, <1>8, <1>10, <1>11, <1>12, SameRoom

(* After a restart everybody is a stranger.                                *)
LEMMA CrashClients == Crash => ClientInv'
BY DEF Crash, All, ClientInv, ClosedRoomIsEmpty, BaseBelowRoom, StrangersAreSentNothing,
       PendingIsNew, Sends, UpdatesFollowInit, NoUpdateForgotten

(* At the start, too.                                                      *)
LEMMA InitClients == Init => ClientInv
BY DEF Init, All, ClientInv, ClosedRoomIsEmpty, BaseBelowRoom, StrangersAreSentNothing,
       PendingIsNew, Sends, UpdatesFollowInit, NoUpdateForgotten

(* Every step keeps it.                                                    *)
LEMMA StepClients == TypeOK /\ DurableInv /\ ClientInv /\ [Next]_vars => ClientInv'
<1>1. ASSUME TypeOK, DurableInv, ClientInv, Next
      PROVE  ClientInv'
  BY <1>1, NextCases, QuietSteps, RegisterClients, AssignClients, OwnQueueClients,
     PersistClients, SendClients, WriteClients, CrashClients
<1>2. ASSUME ClientInv, UNCHANGED vars
      PROVE  ClientInv'
  BY <1>2 DEF vars, ClientInv, ClosedRoomIsEmpty, BaseBelowRoom, StrangersAreSentNothing, Early,
              PendingIsNew, Sends, UpdatesFollowInit, NoUpdateForgotten, Pending, QueuedSeqs
<1> QED BY <1>1, <1>2

(* Receivers are captured after they registered, and keep what they were   *)
(* captured for until it is queued, handed on or lost.                     *)
THEOREM ClientInvariant == Spec => []ClientInv
BY InitClients, StepClients, TypeCorrect, DurableInvariant, PTL DEF Spec

(* applyContentUpdate sends after it has let go of the room lock: still no *)
(* client is sent an update older than its init message.                   *)
THEOREM UpdatesComeAfterInit == Spec => []UpdatesFollowInit
<1>1. ClientInv => UpdatesFollowInit
  BY DEF ClientInv
<1> QED BY <1>1, ClientInvariant, PTL

(* No update between a client's init message and the room's present number *)
(* is forgotten: it was sent, is queued or being sent, or is known lost.   *)
THEOREM UpdatesAreAccountedFor == Spec => []NoUpdateForgotten
<1>1. ClientInv => NoUpdateForgotten
  BY DEF ClientInv
<1> QED BY <1>1, ClientInvariant, PTL

-----------------------------------------------------------------------------
(* The text of the room, stored, being stored or reported.                 *)

(* A load that is about to install its room holds a row of the log.        *)
LoadedRows ==
  \A s \in Sessions : pc[s] = "install" => RowOf(msg[s]) \in updates \cup {FileRow}

SavedInv == UnsavedIsReported /\ LoadedRows

(* A session whose handler is in the middle of its insert.                 *)
Inserts(s) == pc[s] = "persist"

(* Inserts are told apart by where handlers are and what they hold.        *)
LEMMA InsertingSame ==
  ASSUME \A s \in Sessions : (Inserts(s)' <=> Inserts(s)) /\ (Inserts(s) => msg'[s] = msg[s])
  PROVE  Inserting' = Inserting
<1>1. ASSUME NEW x \in Inserting PROVE x \in Inserting'
  BY <1>1 DEF Inserting, Inserts, RowOf
<1>2. ASSUME NEW x \in Inserting' PROVE x \in Inserting
  BY <1>2 DEF Inserting, Inserts, RowOf
<1> QED BY <1>1, <1>2

(* An insert that ends leaves the others, whose numbers are different.     *)
LEMMA InsertEnds ==
  ASSUME TypeOK, NoSeqCollision, NEW s \in Sessions, NEW next, next # "persist",
         Inserts(s), pc' = [pc EXCEPT ![s] = next], msg' = msg
  PROVE  RowOf(msg[s]) \in Inserting /\ Inserting' = Inserting \ {RowOf(msg[s])}
<1>1. RowOf(msg[s]) \in Inserting
  BY DEF Inserting, Inserts
<1>2. ASSUME NEW x \in Inserting' PROVE x \in Inserting /\ x # RowOf(msg[s])
  <2>1. PICK t \in Sessions : pc'[t] = "persist" /\ x = RowOf(msg'[t])
    BY <1>2 DEF Inserting
  <2>2. t # s /\ pc[t] = "persist" /\ msg'[t] = msg[t]
    BY <2>1 DEF TypeOK
  <2>3. msg[t].seq # msg[s].seq
    BY <2>2 DEF NoSeqCollision, Inserts
  <2> QED BY <2>1, <2>2, <2>3 DEF Inserting, RowOf
<1>3. ASSUME NEW x \in Inserting, x # RowOf(msg[s]) PROVE x \in Inserting'
  <2>1. PICK t \in Sessions : pc[t] = "persist" /\ x = RowOf(msg[t])
    BY <1>3 DEF Inserting
  <2>2. t # s /\ pc'[t] = "persist" /\ msg'[t] = msg[t]
    BY <1>3, <2>1 DEF TypeOK
  <2> QED BY <2>1, <2>2 DEF Inserting
<1> QED BY <1>1, <1>2, <1>3

(* What these steps leave alone: the text, the log, the inserts under way, *)
(* what a client started with and was handed.                              *)
Unseen ==
  /\ UNCHANGED <<exists, content, updateSeq, updates, base, got>>
  /\ Inserting' = Inserting

(* Most of what handlers do changes no text.                               *)
LEMMA HandlersUnseen ==
  ASSUME TypeOK, NEW s \in Sessions,
         \/ Join(s) \/ Snapshot(s) \/ RequestFails(s) \/ LoadSnapshot(s)
         \/ LoadUpdates(s) \/ (InstallRoom(s) /\ exists) \/ SendInit(s)
         \/ AnnouncePresence(s) \/ Upgrade(s) \/ Disconnect(s) \/ Leave(s)
         \/ PresenceRequest(s) \/ CursorRequest(s) \/ UpdateReadonly(s)
         \/ PersistSnapshot(s) \/ (PersistFails(s) /\ pc[s] = "snapshot")
  PROVE  Unseen
<1>1. /\ UNCHANGED <<exists, content, updateSeq, updates, base, got>>
      /\ ~Inserts(s) /\ ~Inserts(s)'
      /\ \A t \in Sessions \ {s} : pc'[t] = pc[t] /\ msg'[t] = msg[t]
  BY DEF Join, Snapshot, RequestFails, LoadSnapshot, LoadUpdates, InstallRoom, SendInit,
         AnnouncePresence, BroadcastPresence, Broadcast, AfterSend, Upgrade, Disconnect, Leave,
         PresenceRequest, CursorRequest, UpdateReadonly, PersistSnapshot, PersistFails,
         ReportError, Inserts, TypeOK
<1>2. Inserting' = Inserting
  BY <1>1, InsertingSame DEF Inserts
<1> QED BY <1>1, <1>2 DEF Unseen

(* Nor do the sends and the ends of a writeLoop.                           *)
LEMMA SendersUnseen ==
  ASSUME TypeOK, NEW s \in Sessions,
         \/ WriteFails(s) \/ WriterStops(s)
         \/ \E r \in Sessions : SendTo(s, r) \/ SendPanics(s, r)
  PROVE  Unseen
<1>1. /\ UNCHANGED <<exists, content, updateSeq, updates, base, got, msg>>
      /\ pc' = pc \/ (~Inserts(s) /\ ~Inserts(s)')
      /\ \A t \in Sessions \ {s} : pc'[t] = pc[t]
  BY DEF WriteFails, WriterStops, SendTo, SendPanics, Unwind, AfterSend, Inserts, TypeOK
<1>2. Inserting' = Inserting
  BY <1>1, InsertingSame DEF Inserts
<1> QED BY <1>1, <1>2 DEF Unseen

(* Rows on their way to the log count as much as those in it.              *)
Saved == updates \cup Inserting \cup {FileRow}

(* An insert that ends takes its row to the log, or leaves it out.         *)
LEMMA PersistMoves ==
  ASSUME TypeOK, DurableInv, NEW s \in Sessions,
         PersistUpdate(s) \/ (PersistFails(s) /\ pc[s] = "persist")
  PROVE  /\ UNCHANGED <<exists, content, updateSeq, base, got, msg>>
         /\ RowOf(msg[s]) \in Inserting /\ Inserting' = Inserting \ {RowOf(msg[s])}
         /\ \/ updates' = updates \cup {RowOf(msg[s])} /\ reported \subseteq reported'
            \/ updates' = updates /\ reported' = reported \cup {msg[s].seq}
<1>1. UNCHANGED <<exists, content, updateSeq, base, got, msg>>
  BY DEF PersistUpdate, PersistFails
<1>2. /\ Inserts(s)
      /\ \E next \in {"snapshot", "reading", "send"} : pc' = [pc EXCEPT ![s] = next]
  BY DEF PersistUpdate, AfterPersist, PersistFails, ReportError, Inserts
<1>3. \/ updates' = updates \cup {RowOf(msg[s])} /\ reported \subseteq reported'
      \/ updates' = updates /\ reported' = reported \cup {msg[s].seq}
  BY DEF PersistUpdate, PersistFails, ReportError
<1>4. RowOf(msg[s]) \in Inserting /\ Inserting' = Inserting \ {RowOf(msg[s])}
  BY <1>1, <1>2, InsertEnds DEF DurableInv
<1> QED BY <1>1, <1>3, <1>4

(* A new update is the newest row there is, and on its way to the log.     *)
LEMMA AssignAdds ==
  ASSUME TypeOK, DurableInv, NEW s \in Sessions, AssignSeq(s)
  PROVE  /\ exists /\ UNCHANGED <<exists, updates, base, got>>
         /\ updateSeq' = updateSeq + 1 /\ RoomRow' \in Row
         /\ Inserting' = Inserting \cup {RoomRow'}
<1> DEFINE m == Message("update", [seq |-> NextSeq, content |-> requests + 1], {})
<1>1. /\ pc[s] = "reading" /\ UNCHANGED <<exists, updates, base, got>>
      /\ updateSeq' = NextSeq /\ content' = requests + 1
      /\ msg' = [msg EXCEPT ![s] = m] /\ pc' = [pc EXCEPT ![s] = "persist"]
  BY DEF AssignSeq
<1>2. exists
  BY <1>1 DEF DurableInv, ClosedRoomIsQuiet
<1>3. updateSeq' = updateSeq + 1 /\ RoomRow' \in Row
  BY <1>1 DEF NextSeq, TypeOK, RoomRow, Row
<1>4. RowOf(m) = RoomRow'
  BY <1>1 DEF RowOf, Message, RoomRow
<1> HIDE DEF m
<1>5. /\ pc'[s] = "persist" /\ msg'[s] = m /\ ~Inserts(s)
      /\ \A t \in Sessions \ {s} : pc'[t] = pc[t] /\ msg'[t] = msg[t]
  BY <1>1 DEF TypeOK, Inserts
<1>6. Inserting' = Inserting \cup {RoomRow'}
  <2>1. ASSUME NEW x \in Inserting' PROVE x \in Inserting \cup {RoomRow'}
    <3>1. PICK t \in Sessions : pc'[t] = "persist" /\ x = RowOf(msg'[t])
      BY <2>1 DEF Inserting
    <3>2. CASE t = s
      BY <1>4, <1>5, <3>1, <3>2
    <3>3. CASE t # s
      BY <1>5, <3>1, <3>3 DEF Inserting
    <3> QED BY <3>2, <3>3
  <2>2. ASSUME NEW x \in Inserting PROVE x \in Inserting'
    <3>1. PICK t \in Sessions : pc[t] = "persist" /\ x = RowOf(msg[t])
      BY <2>2 DEF Inserting
    <3> QED BY <1>5, <3>1 DEF Inserting, Inserts
  <2>3. RoomRow' \in Inserting'
    BY <1>4, <1>5 DEF Inserting
  <2> QED BY <2>1, <2>2, <2>3
<1> QED BY <1>1, <1>2, <1>3, <1>6

(* Rows have numbers, and none of an open room's is above the room's own.  *)
LEMMA SavedBelowRoom ==
  ASSUME TypeOK, DurableInv
  PROVE  \A q \in Saved : q.seq \in Nat /\ (exists => q.seq <= updateSeq)
<1> SUFFICES ASSUME NEW q \in Saved
             PROVE  q.seq \in Nat /\ (exists => q.seq <= updateSeq)
  OBVIOUS
<1>1. CASE q \in updates
  BY <1>1 DEF TypeOK, Row, DurableInv, RowsBelowRoom
<1>2. CASE q \in Inserting
  <2>1. PICK t \in Sessions : pc[t] = "persist" /\ q = RowOf(msg[t])
    BY <1>2 DEF Inserting
  <2> QED BY <2>1 DEF RowOf, TypeOK, ServerMessage, DurableInv, HandlersHoldRows
<1>3. CASE q = FileRow
  BY <1>3 DEF FileRow, TypeOK
<1> QED BY <1>1, <1>2, <1>3 DEF Saved

(* The first handler to find no room opens it with the newest row.         *)
LEMMA InstallOpens ==
  ASSUME TypeOK, DurableInv, SavedInv, NEW s \in Sessions, InstallRoom(s), ~exists
  PROVE  /\ exists' /\ UNCHANGED <<updates, base, got>>
         /\ Inserting = {} /\ Inserting' = {}
         /\ IsLast(RoomRow', updates \cup {FileRow})
<1>1. /\ pc[s] = "install" /\ exists' = TRUE /\ content' = msg[s].content
      /\ updateSeq' = msg[s].seq /\ pc' = [pc EXCEPT ![s] = "register"]
      /\ UNCHANGED <<updates, base, got, msg>>
  BY DEF InstallRoom
<1>2. Inserting = {} /\ Inserting' = {}
  BY <1>1 DEF TypeOK, DurableInv, ClosedRoomIsQuiet, Inserting
<1>3. RoomRow' = RowOf(msg[s])
  BY <1>1 DEF RoomRow, RowOf
<1>4. RowOf(msg[s]) \in updates \cup {FileRow}
  BY <1>1 DEF SavedInv, LoadedRows
<1>5. \A u \in updates \cup {FileRow} : u.seq <= msg[s].seq
  BY <1>1 DEF DurableInv, ClosedRoomIsQuiet, FileRow, TypeOK, ServerMessage
<1> QED BY <1>1, <1>2, <1>3, <1>4, <1>5 DEF IsLast, RowOf

(* Only LoadUpdates brings a handler to install, and it has just read.     *)
LEMMA StepLoaded ==
  ASSUME TypeOK, DurableInv, SavedInv, Next
  PROVE  LoadedRows'
<1>1. ASSUME NEW s \in Sessions, LoadUpdates(s)
      PROVE  LoadedRows'
  <2>1. RowOf(msg'[s]) \in updates \cup {FileRow}
    BY <1>1, LoadStep DEF IsLast
  <2> QED BY <1>1, <2>1 DEF LoadUpdates, SavedInv, LoadedRows, TypeOK
<1>2. ASSUME NEW s \in Sessions,
             \/ Join(s) \/ Snapshot(s) \/ RequestFails(s) \/ LoadSnapshot(s)
             \/ InstallRoom(s) \/ Register(s) \/ SendInit(s)
             \/ AnnouncePresence(s) \/ Upgrade(s)
             \/ Disconnect(s) \/ Leave(s) \/ PresenceRequest(s) \/ CursorRequest(s)
             \/ UpdateReadonly(s) \/ AssignSeq(s) \/ PersistUpdate(s)
             \/ PersistSnapshot(s) \/ PersistFails(s)
             \/ WriteMessage(s) \/ WriteFails(s) \/ WriterStops(s)
             \/ \E r \in Sessions : SendTo(s, r) \/ SendPanics(s, r)
      PROVE  LoadedRows'
  <2>1. /\ updates \subseteq updates'
        /\ \A t \in Sessions : pc'[t] = "install" => pc[t] = "install" /\ msg'[t] = msg[t]
    BY <1>2 DEF Join, Snapshot, RequestFails, LoadSnapshot, InstallRoom, Register, SendInit,
         AnnouncePresence, BroadcastPresence, Broadcast, AfterSend, Upgrade, Disconnect, Leave,
         PresenceRequest, CursorRequest, UpdateReadonly, AssignSeq, PersistUpdate, AfterPersist,
         PersistSnapshot, PersistFails, ReportError, WriteMessage, WriteFails, WriterStops,
         SendTo, SendPanics, Unwind, TypeOK
  <2> QED BY <2>1 DEF SavedInv, LoadedRows
<1>3. ASSUME Crash PROVE LoadedRows'
  BY <1>3 DEF Crash, All, LoadedRows
<1> QED BY <1>1, <1>2, <1>3, NextCases

(* Registering, and handing a message on, change what a client knows only. *)
LEMMA ClientsUnseen ==
  ASSUME TypeOK, NEW s \in Sessions, Register(s) \/ WriteMessage(s)
  PROVE  UNCHANGED <<exists, content, updateSeq, updates, reported>> /\ Inserting' = Inserting
<1>1. /\ UNCHANGED <<exists, content, updateSeq, updates, reported>>
      /\ (pc' = pc /\ msg' = msg) \/ (~Inserts(s) /\ ~Inserts(s)')
      /\ \A t \in Sessions \ {s} : pc'[t] = pc[t] /\ msg'[t] = msg[t]
  BY DEF Register, WriteMessage, Inserts, TypeOK
<1>2. Inserting' = Inserting
  BY <1>1, InsertingSame DEF Inserts
<1> QED BY <1>1, <1>2

(* Nothing that is reported is forgotten before the service starts again.  *)
LEMMA ReportsStay ==
  ASSUME Next
  PROVE  reported \subseteq reported' \/ Crash
<1>1. ASSUME NEW s \in Sessions,
             \/ Join(s) \/ Snapshot(s) \/ RequestFails(s) \/ LoadSnapshot(s)
             \/ LoadUpdates(s) \/ InstallRoom(s) \/ Register(s) \/ SendInit(s)
             \/ AnnouncePresence(s) \/ Upgrade(s)
      PROVE  reported' = reported
  BY <1>1 DEF Join, Snapshot, RequestFails, LoadSnapshot, LoadUpdates, InstallRoom, Register,
              SendInit, AnnouncePresence, BroadcastPresence, Upgrade
<1>2. ASSUME NEW s \in Sessions,
             \/ Disconnect(s) \/ Leave(s) \/ PresenceRequest(s) \/ CursorRequest(s)
             \/ UpdateReadonly(s) \/ AssignSeq(s) \/ PersistUpdate(s)
             \/ PersistSnapshot(s) \/ PersistFails(s)
      PROVE  reported \subseteq reported'
  BY <1>2 DEF Disconnect, Leave, PresenceRequest, BroadcastPresence, CursorRequest,
              UpdateReadonly, AssignSeq, PersistUpdate, PersistSnapshot, PersistFails, ReportError
<1>3. ASSUME NEW s \in Sessions,
             \/ WriteMessage(s) \/ WriteFails(s) \/ WriterStops(s)
             \/ \E r \in Sessions : SendTo(s, r) \/ SendPanics(s, r)
      PROVE  reported' = reported
  BY <1>3 DEF WriteMessage, WriteFails, WriterStops, SendTo, SendPanics, Unwind
<1> QED BY <1>1, <1>2, <1>3, NextCases

(* With the room, the log and the inserts as they were, nothing is unsaved.*)
LEMMA SavedStays ==
  ASSUME UnsavedIsReported, UNCHANGED <<exists, content, updateSeq, updates>>,
         Inserting' = Inserting, reported \subseteq reported'
  PROVE  UnsavedIsReported'
BY DEF UnsavedIsReported, RoomRow, IsLast

(* Every step keeps the text of the room saved, or reports it.             *)
LEMMA StepUnsaved ==
  ASSUME TypeOK, DurableInv, SavedInv, Next
  PROVE  UnsavedIsReported'
<1> USE DEF SavedInv
<1>1. ASSUME NEW s \in Sessions, InstallRoom(s), ~exists
      PROVE  UnsavedIsReported'
  BY <1>1, InstallOpens DEF UnsavedIsReported
<1>2. ASSUME NEW s \in Sessions, AssignSeq(s)
      PROVE  UnsavedIsReported'
  <2>1. /\ exists /\ updates' = updates /\ updateSeq' = updateSeq + 1
        /\ Inserting' = Inserting \cup {RoomRow'}
    BY <1>2, AssignAdds
  <2>2. \A q \in Saved : q.seq \in Nat /\ q.seq <= updateSeq
    BY <2>1, SavedBelowRoom
  <2>3. RoomRow'.seq = updateSeq + 1 /\ updateSeq \in Nat
    BY <2>1 DEF RoomRow, TypeOK
  <2> QED BY <2>1, <2>2, <2>3 DEF UnsavedIsReported, IsLast, Saved
<1>3. ASSUME NEW s \in Sessions, PersistUpdate(s) \/ (PersistFails(s) /\ pc[s] = "persist")
      PROVE  UnsavedIsReported'
  <2> DEFINE row == RowOf(msg[s])
  <2>1. /\ exists' = exists /\ updateSeq' = updateSeq /\ RoomRow' = RoomRow
        /\ row \in Inserting /\ Inserting' = Inserting \ {row}
        /\ \/ updates' = updates \cup {row} /\ reported \subseteq reported'
           \/ updates' = updates /\ reported' = reported \cup {row.seq}
    BY <1>3, PersistMoves DEF RoomRow, RowOf
  <2> HIDE DEF row
  <2>2. RoomRow.seq = updateSeq
    BY DEF RoomRow
  <2>3. CASE updates' = updates \cup {row} /\ reported \subseteq reported'
    BY <2>1, <2>3 DEF UnsavedIsReported, IsLast
  <2>4. CASE updates' = updates /\ reported' = reported \cup {row.seq}
    BY <2>1, <2>2, <2>4 DEF UnsavedIsReported, IsLast
  <2> QED BY <2>1, <2>3, <2>4
<1>4. ASSUME NEW s \in Sessions, Register(s) \/ WriteMessage(s)
      PROVE  UnsavedIsReported'
  BY <1>4, ClientsUnseen, SavedStays
<1>5. ASSUME Unseen, ~Crash
      PROVE  UnsavedIsReported'
  BY <1>5, ReportsStay, SavedStays DEF Unseen
<1>6. ASSUME Crash PROVE UnsavedIsReported'
  BY <1>6 DEF Crash, UnsavedIsReported
<1>7. ASSUME NEW s \in Sessions, PersistFails(s)
      PROVE  pc[s] \in {"persist", "snapshot"}
  BY <1>7 DEF PersistFails
<1> QED BY <1>1, <1>2, <1>3, <1>4, <1>5, <1>6, <1>7, NextCases, HandlersUnseen, SendersUnseen

(* Saved or reported, and loaded from the log, is inductive.               *)
LEMMA StepSaved == TypeOK /\ DurableInv /\ SavedInv /\ [Next]_vars => SavedInv'
<1>1. ASSUME TypeOK, DurableInv, SavedInv, Next PROVE SavedInv'
  BY <1>1, StepLoaded, StepUnsaved DEF SavedInv
<1>2. ASSUME SavedInv, UNCHANGED vars PROVE SavedInv'
  BY <1>2 DEF vars, SavedInv, UnsavedIsReported, LoadedRows, RoomRow, Inserting, IsLast
<1> QED BY <1>1, <1>2

(* Nothing is open at the start.                                           *)
LEMMA InitSaved == Init => SavedInv
BY DEF Init, All, SavedInv, UnsavedIsReported, LoadedRows

(* A load takes its text from the log, a room its text from a load or an   *)
(* editor.                                                                 *)
THEOREM SavedInvariant == Spec => []SavedInv
BY InitSaved, StepSaved, TypeCorrect, DurableInvariant, PTL DEF Spec

(* The text in memory is the newest of the log and of the inserts on their *)
(* way to it, after any faults and restarts, or readLoop answered its      *)
(* author with an error.                                                   *)
THEOREM UnsavedUpdatesAreReported == Spec => []UnsavedIsReported
<1>1. SavedInv => UnsavedIsReported
  BY DEF SavedInv
<1> QED BY <1>1, SavedInvariant, PTL

-----------------------------------------------------------------------------
(* The service implements one shared text.                                 *)

(* It starts with no text open.                                            *)
LEMMA InitShared == Init => Shared!Init
<1> SUFFICES ASSUME Init PROVE Shared!Init
  OBVIOUS
<1>1. Inserting = {} /\ RoomRow = Shared!File
  BY DEF Init, All, Inserting, RoomRow, Shared!File
<1> QED BY <1>1 DEF Init, All, Shared!Init

(* What the two specifications call the newest row is the same.            *)
LEMMA NewestIsLast ==
  ASSUME NEW r, NEW S
  PROVE  /\ IsLast(r, S) <=> Shared!IsNewest(r, S)
         /\ FileRow = Shared!File /\ Row = Shared!Row
BY DEF IsLast, Shared!IsNewest, FileRow, Shared!File, Row, Shared!Row

(* The handler that finds no room opens the text.                          *)
LEMMA InstallIsOpen ==
  ASSUME TypeOK, DurableInv, SavedInv, NEW s \in Sessions, InstallRoom(s), ~exists
  PROVE  Shared!Open
<1>1. /\ exists' /\ UNCHANGED <<updates, base, got>>
      /\ Inserting = {} /\ Inserting' = {}
      /\ IsLast(RoomRow', updates \cup {FileRow})
  BY InstallOpens
<1>2. Shared!IsNewest(RoomRow', updates \cup {Shared!File})
  BY <1>1, NewestIsLast
<1>3. exists' = TRUE
  BY DEF InstallRoom
<1> QED BY <1>1, <1>2, <1>3 DEF Shared!Open

(* Taking the next number replaces the text.                               *)
LEMMA AssignIsEdit ==
  ASSUME TypeOK, DurableInv, NEW s \in Sessions, AssignSeq(s)
  PROVE  Shared!Edit
<1>1. /\ exists /\ UNCHANGED <<exists, updates, base, got>>
      /\ updateSeq' = updateSeq + 1 /\ RoomRow' \in Row
      /\ Inserting' = Inserting \cup {RoomRow'}
  BY AssignAdds
<1>2. RoomRow'.seq = RoomRow.seq + 1
  BY <1>1 DEF RoomRow
<1> QED BY <1>1, <1>2, NewestIsLast DEF Shared!Edit

(* The end of an insert stores its row or drops it.                        *)
LEMMA PersistIsStoreOrDrop ==
  ASSUME TypeOK, DurableInv, NEW s \in Sessions,
         PersistUpdate(s) \/ (PersistFails(s) /\ pc[s] = "persist")
  PROVE  \E r \in Inserting : Shared!Store(r) \/ Shared!Drop(r)
<1>1. /\ UNCHANGED <<exists, content, updateSeq, base, got>>
      /\ RowOf(msg[s]) \in Inserting /\ Inserting' = Inserting \ {RowOf(msg[s])}
      /\ updates' = updates \cup {RowOf(msg[s])} \/ updates' = updates
  BY PersistMoves
<1>2. RoomRow' = RoomRow
  BY <1>1 DEF RoomRow
<1>3. Shared!Store(RowOf(msg[s])) \/ Shared!Drop(RowOf(msg[s]))
  BY <1>1, <1>2 DEF Shared!Store, Shared!Drop
<1> QED BY <1>1, <1>3

(* Whoever registers is greeted with the text of that moment.              *)
LEMMA RegisterIsGreet ==
  ASSUME TypeOK, DurableInv, ClientInv, NEW s \in Sessions, Register(s)
  PROVE  Shared!Greet(s)
<1>1. exists
  BY DEF Register, DurableInv, ClosedRoomIsQuiet
<1>2. got[s] = {}
  BY DEF Register, ClientInv, StrangersAreSentNothing, Early
<1>3. base' = [base EXCEPT ![s] = updateSeq] /\ got' = got
  BY DEF Register, InitRow
<1>4. UNCHANGED <<exists, content, updateSeq, updates>> /\ Inserting' = Inserting
  BY ClientsUnseen
<1>5. RoomRow' = RoomRow /\ RoomRow.seq = updateSeq
  BY <1>4 DEF RoomRow
<1> QED BY <1>1, <1>2, <1>3, <1>4, <1>5 DEF Shared!Greet

(* An update that is handed on is a row, newer than what its reader knew;  *)
(* no other message shows anything.                                        *)
LEMMA WriteIsShow ==
  ASSUME TypeOK, DurableInv, ClientInv, NEW s \in Sessions, WriteMessage(s)
  PROVE  (\E r \in updates : Shared!Show(s, r)) \/ UNCHANGED Shared!vars
<1> DEFINE m == Head(receive[s])
<1>1. /\ UNCHANGED <<exists, content, updateSeq, updates>> /\ Inserting' = Inserting
      /\ base' = base /\ got' = [got EXCEPT ![s] = @ \cup SeqsOf(m)]
  BY ClientsUnseen DEF WriteMessage
<1>2. m = receive[s][1] /\ 1 \in DOMAIN receive[s]
  BY DEF WriteMessage, TypeOK
<1> HIDE DEF m
<1>3. RoomRow' = RoomRow
  BY <1>1 DEF RoomRow
<1>4. CASE m.type = "update"
  <2>1. RowOf(m) \in updates
    BY <1>2, <1>4 DEF DurableInv, BroadcastIsDurable
  <2>2. m.seq > base[s]
    BY <1>2, <1>4 DEF ClientInv, UpdatesFollowInit
  <2>3. RowOf(m).seq = m.seq /\ SeqsOf(m) = {m.seq}
    BY <1>4 DEF RowOf, SeqsOf
  <2>4. Shared!Show(s, RowOf(m))
    BY <1>1, <1>3, <2>1, <2>2, <2>3 DEF Shared!Show
  <2> QED BY <2>1, <2>4
<1>5. CASE m.type # "update"
  <2>1. got' = got
    BY <1>1, <1>5 DEF SeqsOf, TypeOK
  <2> QED BY <1>1, <1>3, <2>1 DEF Shared!vars
<1> QED BY <1>4, <1>5

(* A crash restarts it, with some of the inserts under way done.           *)
LEMMA CrashIsRestart ==
  ASSUME Crash
  PROVE  Shared!Restart
<1>1. PICK done \in SUBSET {s \in Sessions : pc[s] \in {"persist", "snapshot"}} :
        updates' = updates \cup
          {RowOf(msg[s]) : s \in {q \in done : pc[q] = "persist" /\ ~SeqTaken(msg[q].seq)}}
  BY DEF Crash
<1>2. {RowOf(msg[s]) : s \in {q \in done : pc[q] = "persist" /\ ~SeqTaken(msg[q].seq)}}
        \in SUBSET Inserting
  BY DEF Inserting
<1>3. \E S \in SUBSET Inserting : updates' = updates \cup S
  BY <1>1, <1>2
<1>4. exists' = FALSE /\ Inserting' = {} /\ RoomRow' = Shared!File
  BY DEF Crash, All, Inserting, RoomRow, Shared!File
<1>5. base' = [s \in Sessions |-> 0] /\ got' = [s \in Sessions |-> {}]
  BY DEF Crash, All
<1> QED BY <1>3, <1>4, <1>5 DEF Shared!Restart

(* What nobody sees leaves the text as it is.                              *)
LEMMA UnseenIsStutter == Unseen => UNCHANGED Shared!vars
BY DEF Unseen, RoomRow, Shared!vars

(* Every step of the service is a step of the shared text or none.         *)
LEMMA NextShared ==
  ASSUME TypeOK, DurableInv, ClientInv, SavedInv, [Next]_vars
  PROVE  [Shared!Next]_(Shared!vars)
<1>1. ASSUME NEW s \in Sessions, InstallRoom(s), ~exists
      PROVE  Shared!Next
  BY <1>1, InstallIsOpen DEF Shared!Next
<1>2. ASSUME NEW s \in Sessions, AssignSeq(s)
      PROVE  Shared!Next
  BY <1>2, AssignIsEdit DEF Shared!Next
<1>3. ASSUME NEW s \in Sessions, PersistUpdate(s) \/ (PersistFails(s) /\ pc[s] = "persist")
      PROVE  Shared!Next
  BY <1>3, PersistIsStoreOrDrop DEF Shared!Next
<1>4. ASSUME NEW s \in Sessions, Register(s)
      PROVE  Shared!Next
  BY <1>4, RegisterIsGreet DEF Shared!Next
<1>5. ASSUME NEW s \in Sessions, WriteMessage(s)
      PROVE  Shared!Next \/ UNCHANGED Shared!vars
  BY <1>5, WriteIsShow DEF Shared!Next
<1>6. ASSUME Crash PROVE Shared!Next
  BY <1>6, CrashIsRestart DEF Shared!Next
<1>7. ASSUME UNCHANGED vars PROVE UNCHANGED Shared!vars
  BY <1>7 DEF vars, RoomRow, Inserting, Shared!vars
<1>8. ASSUME NEW s \in Sessions, PersistFails(s)
      PROVE  pc[s] \in {"persist", "snapshot"}
  BY <1>8 DEF PersistFails
<1>9. Next \/ UNCHANGED vars
  OBVIOUS
<1> HIDE DEF Shared!Next, Shared!vars
<1> QED BY <1>1, <1>2, <1>3, <1>4, <1>5, <1>6, <1>7, <1>8, <1>9, NextCases,
           HandlersUnseen, SendersUnseen, UnseenIsStutter

(* With its goroutines, its channels, its two-query load and its restarts, *)
(* the service is one text that editors replace in turn, of which others   *)
(* see only what is stored.                                                *)
THEOREM CollabImplementsSharedText == Spec => ImplementsSharedText
<1>1. TypeOK /\ DurableInv /\ ClientInv /\ SavedInv /\ [Next]_vars
        => [Shared!Next]_(Shared!vars)
  BY NextShared
<1> QED BY <1>1, InitShared, TypeCorrect, DurableInvariant, ClientInvariant, SavedInvariant,
           PTL DEF Spec, ImplementsSharedText, Shared!Spec

=============================================================================
