-------------------------- MODULE DocumentVersions --------------------------
(***************************************************************************)
(* The life of one document: the HTTP calls that create, save, restore,    *)
(* read and delete it, each a sequence of PostgreSQL statements and MinIO  *)
(* requests, and what the two stores hold (backend/internal/document with  *)
(* the saves of backend/internal/office and backend/internal/share).       *)
(*                                                                         *)
(* A call makes at most one version, whose id and storage key are fresh    *)
(* UUIDs: both are abstracted to the call itself.  Transactions run at     *)
(* READ COMMITTED; what an open one has written is told by its call's pc.  *)
(***************************************************************************)
EXTENDS Integers, FiniteSets

CONSTANTS
  Calls,      \* HTTP requests about the document, each made once
  Kinds,      \* the kinds of request a run makes
  Faults,     \* events of the environment a run exercises
  NoCall      \* the current version of a document not created yet

(* save is Service.SaveMarkdown and the share link's SaveMarkdown, office  *)
(* is Save and WOPISave, read is Download, GetMarkdown, Access and         *)
(* WOPIContent, readVersion is DownloadVersion.                            *)
Writers == {"upload", "save", "office", "restore"}
AllKinds == Writers \cup {"read", "readVersion", "delete", "adminDelete"}
AllFaults == {"database", "storage", "commitLost", "hangUp", "crash", "purge"}

ASSUME CallsFinite == IsFiniteSet(Calls)
ASSUME NoCallIsNone == NoCall \notin Calls
ASSUME SwitchesKnown == Kinds \subseteq AllKinds /\ Faults \subseteq AllFaults

VARIABLES
  versions,           \* committed rows of document_versions
  current, deleted,   \* the committed row of documents
  objects,            \* storage keys in the bucket
  kind, pc, result,   \* a call: what it is, its next step, what it answered
  source,             \* the storage key it reads
  number, gone,       \* the version_no it computed, its context is cancelled
  unsure, strays, purged   \* history: why a row or an object may stand alone

rowVars  == <<versions, current, deleted>>
callVars == <<kind, source, number, gone>>
histVars == <<unsure, strays, purged>>
vars == <<rowVars, objects, callVars, pc, result, histVars>>

Row == [no : Nat, key : Calls]
PCs == {"idle", "find", "source", "fetch", "put", "max", "insert", "update",
        "commit", "cleanup", "reload", "remove", "done"}

TypeOK ==
  /\ versions \in SUBSET Row /\ objects \in SUBSET Calls
  /\ current \in Calls \cup {NoCall} /\ deleted \in BOOLEAN
  /\ kind \in [Calls -> AllKinds \cup {"none"}] /\ pc \in [Calls -> PCs]
  /\ source \in [Calls -> Calls \cup {NoCall}]
  /\ number \in [Calls -> Nat] /\ gone \in [Calls -> BOOLEAN]
  /\ result \in [Calls -> {"none", "ok", "error"}]
  /\ \A c \in Calls : pc[c] = "fetch" => source[c] \in Calls
  /\ unsure \in SUBSET Calls /\ strays \in SUBSET Calls /\ purged \in SUBSET Calls

All(x) == [c \in Calls |-> x]

Init ==
  /\ versions = {} /\ current = NoCall /\ deleted = FALSE /\ objects = {}
  /\ kind = All("none") /\ pc = All("idle") /\ source = All(NoCall)
  /\ number = All(1) /\ gone = All(FALSE) /\ result = All("none")
  /\ unsure = {} /\ strays = {} /\ purged = {}

-----------------------------------------------------------------------------
(* What the statements see.                                                *)

Active(c) == pc[c] \notin {"idle", "done"}
Committed(c) == \E v \in versions : v.key = c

(* FindByID and every UPDATE: the row exists and deleted_at IS NULL.       *)
Live == current # NoCall /\ ~deleted

(* The open transaction of d has updated the documents row and locks it.   *)
LocksRow(d) == pc[d] = "commit" /\ kind[d] # "upload"
RowLocked == \E d \in Calls : LocksRow(d)

(* Mutation: no unique index on (document_id, version_no).                 *)
NumberUnindexed(n) == TRUE

(* document_versions_document_version_no_unique: no committed row has n.   *)
NumberFree(n) == \A v \in versions : v.no # n

(* Mutation: the number is locked from the moment it is read.              *)
HoldsNumberSinceRead(d, n) == pc[d] \in {"insert", "update", "commit"} /\ number[d] = n

(* The open transaction of d has inserted the number n.                    *)
HoldsNumber(d, n) == pc[d] \in {"update", "commit"} /\ number[d] = n

(* Another transaction has inserted c's number: the INSERT waits.          *)
NumberHeld(c) == \E d \in Calls \ {c} : HoldsNumber(d, number[c])

(* COALESCE(MAX(version_no), 0) + 1 over committed rows.                   *)
NextNumber ==
  CHOOSE n \in {1} \cup {v.no + 1 : v \in versions} : \A v \in versions : v.no < n

-----------------------------------------------------------------------------
(* How a step leaves its call.                                             *)

Goto(c, step) ==
  /\ pc' = [pc EXCEPT ![c] = step]
  /\ UNCHANGED result

Answer(c, answer) ==
  /\ pc' = [pc EXCEPT ![c] = "done"]
  /\ result' = [result EXCEPT ![c] = answer]

(* Mutation: the error is returned without deleting the new object.        *)
AbortOnly(c) == Answer(c, "error")

(* The transaction is rolled back; the new object is deleted next.         *)
Abort(c) == Goto(c, "cleanup")

Run(c, step) == pc[c] = step /\ ~gone[c]

-----------------------------------------------------------------------------
(* The steps of a call whose context is alive.                             *)

(* A request arrives.  At most one of them is the upload: any other upload *)
(* makes another document.                                                 *)
Request(c, k) ==
  /\ pc[c] = "idle" /\ k \in Kinds
  /\ k = "upload" => \A d \in Calls : kind[d] # "upload"
  /\ kind' = [kind EXCEPT ![c] = k]
  /\ Goto(c, CASE k = "upload" -> "put" [] k = "adminDelete" -> "remove" [] OTHER -> "find")
  /\ UNCHANGED <<rowVars, objects, source, number, gone, histVars>>

(* Not logged in, no permission, a disabled link, an unsupported or        *)
(* oversized file: answered before anything is written.                    *)
Refuse(c) ==
  /\ pc[c] = "idle"
  /\ Answer(c, "error")
  /\ UNCHANGED <<rowVars, objects, callVars, histVars>>

(* What FindByID leads to.                                                 *)
AfterFind(c) ==
  CASE kind[c] \in {"save", "office"} -> "put"
    [] kind[c] \in {"restore", "readVersion"} -> "source"
    [] kind[c] = "read" -> "fetch"
    [] OTHER -> "remove"

(* Mutation: the error of FindByID is not looked at.                       *)
FindUnchecked(c) ==
  /\ Run(c, "find")
  /\ source' = [source EXCEPT ![c] = current]
  /\ Goto(c, AfterFind(c))
  /\ UNCHANGED <<rowVars, objects, kind, number, gone, histVars>>

(* FindByID.                                                               *)
Find(c) ==
  /\ Run(c, "find")
  /\ source' = [source EXCEPT ![c] = current]
  /\ IF ~Live THEN Answer(c, "error")
     ELSE Goto(c, AfterFind(c))
  /\ UNCHANGED <<rowVars, objects, kind, number, gone, histVars>>

(* FindVersion, with a version id the client names.                        *)
FindVersion(c) ==
  /\ Run(c, "source")
  /\ \/ /\ Live
        /\ \E v \in versions : source' = [source EXCEPT ![c] = v.key]
        /\ Goto(c, "fetch")
     \/ Answer(c, "error") /\ UNCHANGED source
  /\ UNCHANGED <<rowVars, objects, kind, number, gone, histVars>>

(* GetObject and the read of its body.                                     *)
Fetch(c) ==
  /\ Run(c, "fetch")
  /\ IF source[c] \notin objects THEN Answer(c, "error")
     ELSE IF kind[c] = "restore" THEN Goto(c, "put") ELSE Answer(c, "ok")
  /\ UNCHANGED <<rowVars, objects, callVars, histVars>>

(* PutObject under the new version's key.                                  *)
Put(c) ==
  /\ Run(c, "put")
  /\ objects' = objects \cup {c}
  /\ Goto(c, IF kind[c] = "upload" THEN "commit" ELSE "max")
  /\ UNCHANGED <<rowVars, callVars, histVars>>

(* AddDocumentVersion: BEGIN and the SELECT of the next number.            *)
SelectMax(c) ==
  /\ Run(c, "max")
  /\ number' = [number EXCEPT ![c] = NextNumber]
  /\ Goto(c, "insert")
  /\ UNCHANGED <<rowVars, objects, kind, source, gone, histVars>>

(* INSERT INTO document_versions.                                          *)
Insert(c) ==
  /\ Run(c, "insert") /\ ~NumberHeld(c)
  /\ IF NumberFree(number[c]) THEN Goto(c, "update") ELSE Abort(c)
  /\ UNCHANGED <<rowVars, objects, callVars, histVars>>

(* Mutation: UPDATE without deleted_at IS NULL.                            *)
UpdateAnyDocument(c) ==
  /\ Run(c, "update") /\ ~RowLocked
  /\ Goto(c, "commit")
  /\ UNCHANGED <<rowVars, objects, callVars, histVars>>

(* Mutation: the UPDATE is sent through r.db instead of the transaction.   *)
UpdateOutsideTx(c) ==
  /\ Run(c, "update") /\ ~RowLocked
  /\ IF Live THEN Goto(c, "commit") /\ current' = c
             ELSE Abort(c) /\ UNCHANGED current
  /\ UNCHANGED <<versions, deleted, objects, callVars, histVars>>

(* UPDATE documents ... WHERE deleted_at IS NULL; no row is ErrNotFound.   *)
UpdateDocument(c) ==
  /\ Run(c, "update") /\ ~RowLocked
  /\ IF Live THEN Goto(c, "commit") ELSE Abort(c)
  /\ UNCHANGED <<rowVars, objects, callVars, histVars>>

(* What COMMIT makes visible, in CreateWithVersion and AddDocumentVersion. *)
Store(c) ==
  /\ versions' = versions \cup {[no |-> number[c], key |-> c]}
  /\ current' = c
  /\ UNCHANGED deleted

(* Mutation: the superseded object is pruned.                              *)
CommitAndPrune(c) ==
  /\ Run(c, "commit")
  /\ Store(c)
  /\ objects' = objects \ {current}
  /\ IF kind[c] \in {"save", "restore"} THEN Goto(c, "reload") ELSE Answer(c, "ok")
  /\ UNCHANGED <<callVars, histVars>>

Commit(c) ==
  /\ Run(c, "commit")
  /\ Store(c)
  /\ IF kind[c] \in {"save", "restore"} THEN Goto(c, "reload") ELSE Answer(c, "ok")
  /\ UNCHANGED <<objects, callVars, histVars>>

(* Mutation: an error after the commit is cleaned up like one before it.   *)
ReloadOrCleanUp(c) ==
  /\ Run(c, "reload")
  /\ IF Live THEN Answer(c, "ok") ELSE Abort(c)
  /\ UNCHANGED <<rowVars, objects, callVars, histVars>>

(* The FindByID or FindVersion that makes the answer: a document deleted   *)
(* meanwhile turns a stored save into an error.                            *)
Reload(c) ==
  /\ Run(c, "reload")
  /\ Answer(c, IF Live THEN "ok" ELSE "error")
  /\ UNCHANGED <<rowVars, objects, callVars, histVars>>

(* The DeleteObject that makes up for a failed AddDocumentVersion.         *)
CleanUp(c) ==
  /\ Run(c, "cleanup")
  /\ objects' = objects \ {c}
  /\ Answer(c, "error")
  /\ UNCHANGED <<rowVars, callVars, histVars>>

(* Mutation: a document can be deleted again.                              *)
SoftDeleteAgain(c) ==
  /\ Run(c, "remove") /\ ~RowLocked
  /\ IF current # NoCall THEN deleted' = TRUE /\ Answer(c, "ok")
                         ELSE UNCHANGED deleted /\ Answer(c, "error")
  /\ UNCHANGED <<versions, current, objects, callVars, histVars>>

(* SoftDeleteForOwner and SoftDeleteAdmin, one statement.                  *)
SoftDelete(c) ==
  /\ Run(c, "remove") /\ ~RowLocked
  /\ IF Live THEN deleted' = TRUE /\ Answer(c, "ok")
             ELSE UNCHANGED deleted /\ Answer(c, "error")
  /\ UNCHANGED <<versions, current, objects, callVars, histVars>>

-----------------------------------------------------------------------------
(* Failures.                                                               *)

(* A call to the stores can fail: the context is cancelled, or f happens.  *)
Trouble(c, f) == gone[c] \/ f \in Faults

ReadFails(c) ==
  /\ pc[c] \in {"find", "source", "fetch", "reload", "remove"}
  /\ Trouble(c, IF pc[c] = "fetch" THEN "storage" ELSE "database")
  /\ Answer(c, "error")
  /\ UNCHANGED <<rowVars, objects, callVars, histVars>>

(* PutObject returns an error, with the object stored or not: no cleanup.  *)
PutFails(c) ==
  /\ pc[c] = "put" /\ Trouble(c, "storage")
  /\ \/ objects' = objects \cup {c} /\ strays' = strays \cup {c}
     \/ UNCHANGED <<objects, strays>>
  /\ Answer(c, "error")
  /\ UNCHANGED <<rowVars, callVars, unsure, purged>>

StatementFails(c) ==
  /\ pc[c] \in {"max", "insert", "update"} /\ Trouble(c, "database")
  /\ Abort(c)
  /\ UNCHANGED <<rowVars, objects, callVars, histVars>>

(* Mutation: the error of COMMIT is ignored.                               *)
CommitErrorIgnored(c) ==
  /\ pc[c] = "commit" /\ Trouble(c, "database")
  /\ Answer(c, "ok")
  /\ UNCHANGED <<rowVars, objects, callVars, histVars>>

(* COMMIT fails and the transaction is rolled back.                        *)
CommitFails(c) ==
  /\ pc[c] = "commit" /\ Trouble(c, "database")
  /\ Abort(c)
  /\ UNCHANGED <<rowVars, objects, callVars, histVars>>

(* COMMIT takes effect but its answer is lost: an error all the same.      *)
CommitLost(c) ==
  /\ pc[c] = "commit" /\ Trouble(c, "commitLost")
  /\ Store(c)
  /\ unsure' = unsure \cup {c}
  /\ Abort(c)
  /\ UNCHANGED <<objects, callVars, strays, purged>>

(* The compensating DeleteObject uses the same context; its error is       *)
(* dropped.                                                                *)
CleanUpFails(c) ==
  /\ pc[c] = "cleanup" /\ Trouble(c, "storage")
  /\ strays' = strays \cup {c}
  /\ Answer(c, "error")
  /\ UNCHANGED <<rowVars, objects, callVars, unsure, purged>>

(* The client goes away: net/http cancels the request's context.           *)
HangUp(c) ==
  /\ "hangUp" \in Faults /\ Active(c)
  /\ gone' = [gone EXCEPT ![c] = TRUE]
  /\ UNCHANGED <<rowVars, objects, kind, source, number, pc, result, histVars>>

(* The backend dies; PostgreSQL rolls its open transactions back.          *)
Crash ==
  /\ "crash" \in Faults
  /\ pc' = [c \in Calls |-> IF Active(c) THEN "done" ELSE pc[c]]
  /\ result' = [c \in Calls |-> IF Active(c) THEN "error" ELSE result[c]]
  /\ strays' = strays \cup {c \in objects : Active(c)}
  /\ UNCHANGED <<rowVars, objects, callVars, unsure, purged>>

(* An administrator deletes an object in the storage browser.              *)
Purge(k) ==
  /\ "purge" \in Faults /\ k \in objects
  /\ objects' = objects \ {k}
  /\ purged' = purged \cup {k}
  /\ UNCHANGED <<rowVars, callVars, pc, result, unsure, strays>>

Works(c) ==
  \/ Find(c) \/ FindVersion(c) \/ Fetch(c) \/ Put(c) \/ SelectMax(c)
  \/ Insert(c) \/ UpdateDocument(c) \/ Commit(c) \/ Reload(c) \/ CleanUp(c)
  \/ SoftDelete(c)

Fails(c) ==
  \/ ReadFails(c) \/ PutFails(c) \/ StatementFails(c) \/ CommitFails(c)
  \/ CommitLost(c) \/ CleanUpFails(c)

Next ==
  \/ \E c \in Calls : \/ \E k \in AllKinds : Request(c, k)
                      \/ Refuse(c) \/ Works(c) \/ Fails(c) \/ HangUp(c) \/ Purge(c)
  \/ Crash

Spec == Init /\ [][Next]_vars

(* Statements and storage requests return, and a cancelled context makes   *)
(* them fail.                                                              *)
Fairness == \A c \in Calls : WF_vars(Works(c) \/ (gone[c] /\ Fails(c)))

FairSpec == Spec /\ Fairness

-----------------------------------------------------------------------------
(* Properties.                                                             *)

(* version_no counts 1, 2, 3, ... although it is read before the insert    *)
(* by transactions that do not see one another.                            *)
NumbersConsecutive == {v.no : v \in versions} = 1..Cardinality(versions)

(* The current version is the one with the highest number, whatever order  *)
(* concurrent saves and restores end in.                                   *)
CurrentIsNewest ==
  IF current = NoCall THEN versions = {}
  ELSE \E v \in versions : v.key = current /\ \A w \in versions : w.no <= v.no

(* Every version's object is there, except one an administrator deleted    *)
(* and one whose commit looked like a failure.                             *)
VersionsHaveObjects ==
  \A v \in versions : v.key \in objects \cup unsure \cup purged

(* An object without a version belongs to a call under way, or to one that *)
(* died, was cancelled or could not reach the storage.                     *)
NoForgottenObject ==
  \A c \in objects : Committed(c) \/ Active(c) \/ c \in strays

(* A save that was answered with success has its version.                  *)
SuccessIsStored ==
  \A c \in Calls : kind[c] \in Writers /\ result[c] = "ok" => Committed(c)

(* A reader that took a key from a row still finds the object, however     *)
(* many saves and failed saves came in between.                            *)
ReadersFindObjects ==
  \A c \in Calls : pc[c] = "fetch" => source[c] \in objects \cup unsure \cup purged

(* Of two deletions only one succeeds, and only one is audited.            *)
OneDeletionSucceeds ==
  \A c, d \in Calls :
    /\ kind[c] \in {"delete", "adminDelete"} /\ result[c] = "ok"
    /\ kind[d] \in {"delete", "adminDelete"} /\ result[d] = "ok"
    => c = d

(* What the next statement of c waits for: the end of d's transaction.     *)
WaitsFor(c, d) ==
  \/ pc[c] = "insert" /\ d # c /\ HoldsNumber(d, number[c])
  \/ pc[c] \in {"update", "remove"} /\ LocksRow(d)

(* Whoever is waited for does not wait: INSERT takes the number before     *)
(* UPDATE takes the row, so no number of writers and deletions deadlock.   *)
BlockersGoOn == \A c, d, e \in Calls : WaitsFor(c, d) => ~WaitsFor(d, e)

(* What makes the properties above inductive.                              *)

(* Which kinds of call reach which step, and that an answer is the end.    *)
StepsFitKinds ==
  \A c \in Calls :
    /\ pc[c] = "idle" <=> kind[c] = "none" /\ pc[c] # "done"
    /\ pc[c] = "find" => kind[c] \in AllKinds \ {"upload", "adminDelete"}
    /\ pc[c] = "source" => kind[c] \in {"restore", "readVersion"}
    /\ pc[c] = "fetch" => kind[c] \in {"restore", "readVersion", "read"}
    /\ pc[c] \in {"put", "commit", "cleanup"} => kind[c] \in Writers
    /\ pc[c] \in {"max", "insert", "update"} => kind[c] \in Writers \ {"upload"}
    /\ pc[c] = "reload" => kind[c] \in {"save", "restore"}
    /\ pc[c] = "remove" => kind[c] \in {"delete", "adminDelete"}
    /\ pc[c] # "done" => result[c] = "none"

(* Until the upload commits nobody gets past FindByID.                     *)
UploadIsFirst ==
  /\ \A c, d \in Calls : kind[c] = "upload" /\ kind[d] = "upload" => c = d
  /\ \A c \in Calls : kind[c] \in {"none", "upload"} => number[c] = 1
  /\ \A c \in Calls : kind[c] = "upload" /\ pc[c] \in {"put", "commit"} => current = NoCall
  /\ current # NoCall => \E c \in Calls : kind[c] = "upload"
  /\ current = NoCall => versions = {} /\ ~deleted
  /\ current = NoCall => \A c \in Calls :
       kind[c] = "upload" \/ pc[c] \in {"idle", "find", "remove", "done"}

(* Numbers and keys tell rows apart.                                       *)
RowsUnique ==
  /\ IsFiniteSet(versions)
  /\ \A v, w \in versions : v.no = w.no \/ v.key = w.key => v = w

(* At most one transaction is past its INSERT, and its number is the next. *)
OneWriterPastInsert ==
  \A c \in Calls :
    /\ pc[c] \in {"insert", "update", "commit"} =>
         number[c] \in 1..(Cardinality(versions) + 1)
    /\ pc[c] \in {"update", "commit"} =>
         /\ NumberFree(number[c])
         /\ \A d \in Calls : pc[d] \in {"update", "commit"} => c = d

(* How far a call is, against what the two stores hold of it.              *)
StoresFollowCalls ==
  \A c \in Calls :
    /\ Committed(c) => pc[c] \in {"reload", "cleanup", "done"}
    /\ Committed(c) /\ pc[c] = "cleanup" => c \in unsure
    /\ pc[c] = "reload" => Committed(c)
    /\ pc[c] = "fetch" => source[c] \in Calls /\ Committed(source[c])
    /\ pc[c] \in {"max", "insert", "update", "commit"} => c \in objects \cup purged
    /\ pc[c] \in {"idle", "find", "source", "fetch", "put", "remove"} => c \notin objects

(* A deletion that succeeded left its mark.                                *)
DeletionMarks ==
  \A c \in Calls : kind[c] \in {"delete", "adminDelete"} /\ result[c] = "ok" => deleted

(* No deletion gets between the UPDATE of a transaction and its COMMIT.    *)
CommitsPrecedeDeletion == \A c \in Calls : pc[c] = "commit" => ~deleted

DocumentInv ==
  /\ StepsFitKinds /\ UploadIsFirst /\ RowsUnique /\ OneWriterPastInsert
  /\ StoresFollowCalls /\ DeletionMarks /\ CommitsPrecedeDeletion
  /\ NumbersConsecutive /\ CurrentIsNewest /\ VersionsHaveObjects
  /\ NoForgottenObject /\ SuccessIsStored /\ OneDeletionSucceeds

(* Every call is answered: waits for a number or for the documents row end *)
(* and never form a cycle.                                                 *)
CallsFinish == \A c \in Calls : Active(c) ~> pc[c] = "done"

(* The document implements VersionHistory: saves and restores append, a    *)
(* deletion is final, whatever transactions were under way.                *)
KeyOf(n) == CHOOSE k \in Calls : [no |-> n, key |-> k] \in versions
VersionList == [n \in 1..Cardinality(versions) |-> KeyOf(n)]
History == INSTANCE VersionHistory WITH
  Keys <- Calls, NoKey <- NoCall, removed <- deleted, history <- VersionList
ImplementsHistory == History!Spec

-----------------------------------------------------------------------------
(* TASK.md:1481: historical versions can be downloaded.                    *)
VersionsDownloadable == \A v \in versions : v.key \in objects

=============================================================================
