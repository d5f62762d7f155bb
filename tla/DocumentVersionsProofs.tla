----------------------- MODULE DocumentVersionsProofs -----------------------
(***************************************************************************)
(* Proofs about DocumentVersions, for any set of calls, any kinds of       *)
(* request and any faults.                                                 *)
(***************************************************************************)
EXTENDS DocumentVersions, FiniteSetTheorems, SequenceTheorems, TLAPS

USE DEF rowVars, callVars, histVars

(* The initial state is well typed.                                        *)
LEMMA InitTypeOK == Init => TypeOK
<1> SUFFICES ASSUME Init PROVE TypeOK
  OBVIOUS
<1>1. /\ kind \in [Calls -> AllKinds \cup {"none"}] /\ pc \in [Calls -> PCs]
      /\ source \in [Calls -> Calls \cup {NoCall}] /\ number \in [Calls -> Nat]
      /\ result \in [Calls -> {"none", "ok", "error"}]
      /\ \A c \in Calls : pc[c] # "fetch"
  BY DEF Init, All, PCs
<1>2. gone \in [Calls -> BOOLEAN] /\ deleted \in BOOLEAN
  BY DEF Init, All
<1> QED BY <1>1, <1>2 DEF Init, TypeOK

(* MAX(version_no) + 1 as a number of the right type.                      *)
LEMMA NextNumberType ==
  ASSUME TypeOK, NumbersConsecutive, IsFiniteSet(versions)
  PROVE  NextNumber = Cardinality(versions) + 1
<1> DEFINE n == Cardinality(versions)
           S == {1} \cup {v.no + 1 : v \in versions}
<1>1. n \in Nat
  BY FS_CardinalityType
<1>2. {v.no : v \in versions} = 1..n
  BY DEF NumbersConsecutive
<1>3. n + 1 \in S
  <2>1. CASE n = 0
    BY <2>1
  <2>2. CASE n # 0
    <3>1. n \in 1..n
      BY <1>1, <2>2
    <3>2. PICK v \in versions : v.no = n
      BY <1>2, <3>1
    <3> QED BY <3>2
  <2> QED BY <2>1, <2>2
<1>4. \A v \in versions : v.no \in 1..n
  BY <1>2
<1>5. \A v \in versions : v.no < n + 1
  BY <1>1, <1>4
<1>6. ASSUME NEW m \in S, \A v \in versions : v.no < m
      PROVE  m = n + 1
  <2>1. m \in 1..(n + 1)
    BY <1>1, <1>4
  <2>2. CASE m \in 1..n
    <3>1. PICK v \in versions : v.no = m
      BY <1>2, <2>2
    <3> QED BY <3>1, <1>6, <2>2, <1>1
  <2> QED BY <2>1, <2>2, <1>1
<1> HIDE DEF S
<1>7. NextNumber = CHOOSE m \in S : \A v \in versions : v.no < m
  BY DEF NextNumber, S
<1>8. NextNumber \in S /\ \A v \in versions : v.no < NextNumber
  BY <1>3, <1>5, <1>7
<1> QED BY <1>6, <1>8

(* A new or refused request, a hang-up and a purge keep the types.         *)
LEMMA RequestTypeOK ==
  ASSUME TypeOK, NEW c \in Calls,
         (\E k \in AllKinds : Request(c, k)) \/ Refuse(c) \/ HangUp(c) \/ Purge(c)
  PROVE  TypeOK'
<1>1. ASSUME NEW k \in AllKinds, Request(c, k) PROVE TypeOK'
  BY <1>1 DEF Request, Goto, TypeOK, PCs
<1>2. CASE Refuse(c)
  BY <1>2 DEF Refuse, Answer, TypeOK, PCs
<1>3. CASE HangUp(c)
  BY <1>3 DEF HangUp, TypeOK
<1>4. CASE Purge(c)
  BY <1>4 DEF Purge, TypeOK
<1> QED BY <1>1, <1>2, <1>3, <1>4

(* So do the steps of a call that goes well.                               *)
LEMMA WorksTypeOK ==
  ASSUME TypeOK, DocumentInv, NEW c \in Calls, Works(c)
  PROVE  TypeOK'
<1>1. CASE Find(c)
  <2>1. Live => current \in Calls
    BY DEF Live, TypeOK
  <2>2. CASE Live
    BY <1>1, <2>1, <2>2 DEF Find, AfterFind, Goto, Answer, Run, TypeOK, PCs
  <2>3. CASE ~Live
    BY <1>1, <2>3 DEF Find, Answer, Run, TypeOK, PCs
  <2> QED BY <2>2, <2>3
<1>2. CASE FindVersion(c)
  <2>1. \A v \in versions : v.key \in Calls
    BY DEF TypeOK, Row
  <2> QED BY <1>2, <2>1 DEF FindVersion, Goto, Answer, Run, TypeOK, PCs
<1>3. CASE Fetch(c)
  BY <1>3 DEF Fetch, Goto, Answer, Run, TypeOK, PCs
<1>4. CASE Put(c)
  BY <1>4 DEF Put, Goto, Run, TypeOK, PCs
<1>5. CASE SelectMax(c)
  <2>1. NextNumber \in Nat
    BY NextNumberType, FS_CardinalityType DEF DocumentInv, RowsUnique
  <2> QED BY <1>5, <2>1 DEF SelectMax, Goto, Run, TypeOK, PCs
<1>6. CASE Insert(c) \/ UpdateDocument(c)
  BY <1>6 DEF Insert, UpdateDocument, Abort, Goto, Run, TypeOK, PCs
<1>7. CASE Commit(c)
  <2>1. [no |-> number[c], key |-> c] \in Row
    BY DEF TypeOK, Row
  <2> QED BY <1>7, <2>1 DEF Commit, Store, Goto, Answer, Run, TypeOK, PCs
<1>8. CASE Reload(c) \/ CleanUp(c) \/ SoftDelete(c)
  BY <1>8 DEF Reload, CleanUp, SoftDelete, Answer, Run, TypeOK, PCs
<1> QED BY <1>1, <1>2, <1>3, <1>4, <1>5, <1>6, <1>7, <1>8 DEF Works

(* So do its failures.                                                     *)
LEMMA FailsTypeOK ==
  ASSUME TypeOK, NEW c \in Calls, Fails(c)
  PROVE  TypeOK'
<1>1. CASE ReadFails(c) \/ PutFails(c) \/ CleanUpFails(c)
  BY <1>1 DEF ReadFails, PutFails, CleanUpFails, Answer, TypeOK, PCs
<1>2. CASE StatementFails(c) \/ CommitFails(c)
  BY <1>2 DEF StatementFails, CommitFails, Abort, Goto, TypeOK, PCs
<1>3. CASE CommitLost(c)
  <2>1. [no |-> number[c], key |-> c] \in Row
    BY DEF TypeOK, Row
  <2> QED BY <1>3, <2>1 DEF CommitLost, Store, Abort, Goto, TypeOK, PCs
<1> QED BY <1>1, <1>2, <1>3 DEF Fails

(* So does every step.                                                     *)
LEMMA NextTypeOK ==
  ASSUME TypeOK, DocumentInv, [Next]_vars
  PROVE  TypeOK'
<1>1. CASE Crash
  BY <1>1 DEF Crash, TypeOK, PCs
<1>2. CASE UNCHANGED vars
  BY <1>2 DEF vars, TypeOK
<1> QED BY <1>1, <1>2, RequestTypeOK, WorksTypeOK, FailsTypeOK DEF Next

-----------------------------------------------------------------------------
(* The inductive invariant.                                                *)

(* The step a request starts with.                                         *)
LEMMA RequestSteps ==
  ASSUME NEW c \in Calls, NEW k \in AllKinds, Request(c, k)
  PROVE  \/ k = "upload" /\ pc' = [pc EXCEPT ![c] = "put"]
         \/ k = "adminDelete" /\ pc' = [pc EXCEPT ![c] = "remove"]
         \/ k \in AllKinds \ {"upload", "adminDelete"} /\ pc' = [pc EXCEPT ![c] = "find"]
<1>1. CASE k = "upload"
  BY <1>1 DEF Request, Goto
<1>2. CASE k = "adminDelete"
  BY <1>2 DEF Request, Goto
<1>3. CASE k \notin {"upload", "adminDelete"}
  BY <1>3 DEF Request, Goto
<1> QED BY <1>1, <1>2, <1>3

(* The step FindByID leads to.                                             *)
LEMMA FindSteps ==
  ASSUME NEW c \in Calls, kind[c] \in AllKinds \ {"upload", "adminDelete"}
  PROVE  \/ kind[c] \in {"save", "office"} /\ AfterFind(c) = "put"
         \/ kind[c] \in {"restore", "readVersion"} /\ AfterFind(c) = "source"
         \/ kind[c] = "read" /\ AfterFind(c) = "fetch"
         \/ kind[c] = "delete" /\ AfterFind(c) = "remove"
<1>1. CASE kind[c] \in {"save", "office"}
  BY <1>1 DEF AfterFind
<1>2. CASE kind[c] \in {"restore", "readVersion"}
  <2>1. kind[c] \notin {"save", "office"}
    BY <1>2
  <2> QED BY <1>2, <2>1 DEF AfterFind
<1>3. CASE kind[c] = "read"
  BY <1>3 DEF AfterFind
<1>4. CASE kind[c] = "delete"
  BY <1>4 DEF AfterFind
<1> QED BY <1>1, <1>2, <1>3, <1>4 DEF AllKinds, Writers

(* A call only takes the steps of its kind.                                *)
LEMMA StepsFitKindsStep ==
  ASSUME TypeOK, StepsFitKinds, [Next]_vars
  PROVE  StepsFitKinds'
<1> USE DEF TypeOK, StepsFitKinds, AllKinds, Writers
<1>1. ASSUME NEW c \in Calls, NEW k \in AllKinds, Request(c, k) PROVE StepsFitKinds'
  BY <1>1, RequestSteps DEF Request, Goto
<1>2. ASSUME NEW c \in Calls, Refuse(c) \/ HangUp(c) \/ Purge(c) PROVE StepsFitKinds'
  BY <1>2 DEF Refuse, HangUp, Purge, Answer
<1>3. ASSUME NEW c \in Calls, Find(c) PROVE StepsFitKinds'
  BY <1>3, FindSteps DEF Find, Goto, Answer, Run
<1>4. ASSUME NEW c \in Calls, FindVersion(c) \/ Fetch(c) \/ Put(c) PROVE StepsFitKinds'
  BY <1>4 DEF FindVersion, Fetch, Put, Goto, Answer, Run
<1>5. ASSUME NEW c \in Calls, SelectMax(c) \/ Insert(c) \/ UpdateDocument(c) PROVE StepsFitKinds'
  BY <1>5 DEF SelectMax, Insert, UpdateDocument, Abort, Goto, Run
<1>6. ASSUME NEW c \in Calls, Commit(c) PROVE StepsFitKinds'
  BY <1>6 DEF Commit, Store, Goto, Answer, Run
<1>7. ASSUME NEW c \in Calls, Reload(c) \/ CleanUp(c) \/ SoftDelete(c) PROVE StepsFitKinds'
  BY <1>7 DEF Reload, CleanUp, SoftDelete, Answer, Run
<1>8. ASSUME NEW c \in Calls, ReadFails(c) \/ PutFails(c) \/ CleanUpFails(c) PROVE StepsFitKinds'
  BY <1>8 DEF ReadFails, PutFails, CleanUpFails, Answer
<1>9. ASSUME NEW c \in Calls, StatementFails(c) \/ CommitFails(c) \/ CommitLost(c)
      PROVE  StepsFitKinds'
  BY <1>9 DEF StatementFails, CommitFails, CommitLost, Abort, Goto
<1>10. CASE Crash
  BY <1>10 DEF Crash, Active
<1>11. CASE UNCHANGED vars
  BY <1>11 DEF vars
<1> QED BY <1>1, <1>2, <1>3, <1>4, <1>5, <1>6, <1>7, <1>8, <1>9, <1>10, <1>11
        DEF Next, Works, Fails

(* A transaction past its INSERT has the number that follows the rows.     *)
LEMMA NumberIsNext ==
  ASSUME TypeOK, DocumentInv, NEW c \in Calls, pc[c] \in {"update", "commit"}
  PROVE  number[c] = Cardinality(versions) + 1
<1>1. Cardinality(versions) \in Nat
  BY FS_CardinalityType DEF DocumentInv, RowsUnique
<1>2. /\ number[c] \in 1..(Cardinality(versions) + 1) /\ NumberFree(number[c])
      /\ {v.no : v \in versions} = 1..Cardinality(versions)
  BY DEF DocumentInv, OneWriterPastInsert, NumbersConsecutive
<1>3. number[c] \notin {v.no : v \in versions}
  BY <1>2 DEF NumberFree
<1> QED BY <1>1, <1>2, <1>3

(* What a commit makes visible is one more row, with the next number.      *)
LEMMA StoreIsAppend ==
  ASSUME TypeOK, DocumentInv, NEW c \in Calls, pc[c] = "commit", Store(c)
  PROVE  /\ IsFiniteSet(versions') /\ Cardinality(versions') = Cardinality(versions) + 1
         /\ Cardinality(versions) \in Nat /\ number[c] = Cardinality(versions) + 1
         /\ RowsUnique' /\ NumbersConsecutive' /\ CurrentIsNewest'
<1> DEFINE row == [no |-> number[c], key |-> c]
<1>1. number[c] = Cardinality(versions) + 1
  BY NumberIsNext
<1>2. /\ IsFiniteSet(versions) /\ ~Committed(c) /\ NumberFree(number[c])
      /\ {v.no : v \in versions} = 1..Cardinality(versions)
      /\ \A v, w \in versions : v.no = w.no \/ v.key = w.key => v = w
  BY DEF DocumentInv, RowsUnique, StoresFollowCalls, OneWriterPastInsert, NumbersConsecutive
<1>3. Cardinality(versions) \in Nat
  BY <1>2, FS_CardinalityType
<1>4. row \notin versions
  BY <1>2 DEF Committed
<1>5. versions' = versions \cup {row} /\ current' = c
  BY DEF Store
<1>6. /\ IsFiniteSet(versions') /\ Cardinality(versions') = Cardinality(versions) + 1
  BY <1>2, <1>4, <1>5, FS_AddElement
<1>7. RowsUnique'
  <2>1. \A v \in versions : v.no # row.no /\ v.key # row.key
    BY <1>2 DEF NumberFree, Committed
  <2> HIDE DEF row
  <2> QED BY <1>2, <1>5, <1>6, <2>1 DEF RowsUnique
<1>8. {v.no : v \in versions'} = 1..Cardinality(versions')
  <2>1. {v.no : v \in versions'} = {v.no : v \in versions} \cup {row.no}
    <3> HIDE DEF row
    <3> QED BY <1>5
  <2>2. 1..(Cardinality(versions) + 1) = 1..Cardinality(versions) \cup {Cardinality(versions) + 1}
    BY <1>3
  <2> QED BY <1>1, <1>2, <1>6, <2>1, <2>2
<1>9. CurrentIsNewest'
  <2>1. row \in versions' /\ row.key = current' /\ row.no = Cardinality(versions')
    BY <1>1, <1>5, <1>6
  <2>2. \A w \in versions' : w.no \in 1..Cardinality(versions')
    BY <1>8
  <2>3. \A w \in versions' : w.no <= row.no
    BY <1>3, <1>6, <2>1, <2>2
  <2>4. current' # NoCall
    BY <1>5, NoCallIsNone
  <2> QED BY <2>1, <2>3, <2>4 DEF CurrentIsNewest
<1> QED BY <1>1, <1>3, <1>6, <1>7, <1>8, <1>9 DEF NumbersConsecutive

(* A step that commits nothing leaves what is said of the rows.            *)
LEMMA RowsStep ==
  ASSUME TypeOK, DocumentInv, [Next]_vars
  PROVE  RowsUnique' /\ NumbersConsecutive' /\ CurrentIsNewest'
<1>1. CASE UNCHANGED <<versions, current>>
  BY <1>1 DEF DocumentInv, RowsUnique, NumbersConsecutive, CurrentIsNewest
<1>2. CASE \E c \in Calls : pc[c] = "commit" /\ Store(c)
  BY <1>2, StoreIsAppend
<1>3. \/ UNCHANGED <<versions, current>>
      \/ \E c \in Calls : pc[c] = "commit" /\ Store(c)
  <2>1. ASSUME NEW c \in Calls, Works(c) PROVE <1>3
    BY <2>1 DEF Works, Find, FindVersion, Fetch, Put, SelectMax, Insert, UpdateDocument,
                Commit, Reload, CleanUp, SoftDelete, Run
  <2>2. ASSUME NEW c \in Calls, Fails(c) PROVE <1>3
    BY <2>2 DEF Fails, ReadFails, PutFails, StatementFails, CommitFails, CommitLost,
                CleanUpFails
  <2> QED BY <2>1, <2>2 DEF Next, Request, Refuse, HangUp, Purge, Crash, vars
<1> QED BY <1>1, <1>2, <1>3

(* The upload stays the first writer: no call finds the document before    *)
(* it commits.                                                             *)
LEMMA UploadIsFirstStep ==
  ASSUME TypeOK, DocumentInv, [Next]_vars
  PROVE  UploadIsFirst'
<1> USE DEF TypeOK, UploadIsFirst
<1>0. StepsFitKinds /\ UploadIsFirst
  BY DEF DocumentInv
<1>1. ASSUME NEW c \in Calls, NEW k \in AllKinds, Request(c, k) PROVE UploadIsFirst'
  BY <1>0, <1>1, RequestSteps DEF Request, Goto, StepsFitKinds, AllKinds, Writers
<1>2. ASSUME NEW c \in Calls, Refuse(c) \/ HangUp(c) \/ Purge(c) PROVE UploadIsFirst'
  BY <1>0, <1>2 DEF Refuse, HangUp, Purge, Answer
<1>3. ASSUME NEW c \in Calls, Find(c) PROVE UploadIsFirst'
  BY <1>0, <1>3, FindSteps DEF Find, Goto, Answer, Run, Live, StepsFitKinds
<1>4. ASSUME NEW c \in Calls, FindVersion(c) \/ Fetch(c) \/ Put(c) PROVE UploadIsFirst'
  BY <1>0, <1>4 DEF FindVersion, Fetch, Put, Goto, Answer, Run, Live, StepsFitKinds
<1>5. ASSUME NEW c \in Calls, SelectMax(c) \/ Insert(c) \/ UpdateDocument(c)
      PROVE  UploadIsFirst'
  BY <1>0, <1>5 DEF SelectMax, Insert, UpdateDocument, Abort, Goto, Run, Live, StepsFitKinds,
                    Writers
<1>6. ASSUME NEW c \in Calls, Commit(c) \/ CommitLost(c) PROVE UploadIsFirst'
  <2>1. pc[c] = "commit" /\ current' = c /\ current' # NoCall /\ UNCHANGED <<kind, number>>
    BY <1>6, NoCallIsNone DEF Commit, CommitLost, Store, Run
  <2>2. \A d \in Calls \ {c} : pc'[d] = pc[d]
    BY <1>6 DEF Commit, CommitLost, Abort, Goto, Answer
  <2>3. pc'[c] \in {"reload", "cleanup", "done"}
    BY <1>6 DEF Commit, CommitLost, Abort, Goto, Answer
  <2>4. \E d \in Calls : kind[d] = "upload"
    BY <1>0, <2>1
  <2>5. ASSUME NEW d \in Calls, kind[d] = "upload" PROVE pc'[d] \notin {"put", "commit"}
    <3>1. CASE d = c
      BY <2>3, <3>1
    <3>2. CASE d # c
      <4>1. kind[c] # "upload" /\ current # NoCall
        BY <1>0, <2>1, <2>5, <3>2
      <4> QED BY <1>0, <2>2, <2>5, <3>2, <4>1
    <3> QED BY <3>1, <3>2
  <2> QED BY <1>0, <2>1, <2>4, <2>5
<1>7. ASSUME NEW c \in Calls, Reload(c) \/ CleanUp(c) \/ SoftDelete(c) PROVE UploadIsFirst'
  BY <1>0, <1>7 DEF Reload, CleanUp, SoftDelete, Answer, Run, Live
<1>8. ASSUME NEW c \in Calls, ReadFails(c) \/ PutFails(c) \/ CleanUpFails(c)
      PROVE  UploadIsFirst'
  BY <1>0, <1>8 DEF ReadFails, PutFails, CleanUpFails, Answer
<1>9. ASSUME NEW c \in Calls, StatementFails(c) \/ CommitFails(c) PROVE UploadIsFirst'
  BY <1>0, <1>9 DEF StatementFails, CommitFails, Abort, Goto, StepsFitKinds, Writers
<1>10. CASE Crash
  BY <1>0, <1>10 DEF Crash, Active
<1>11. CASE UNCHANGED vars
  BY <1>0, <1>11 DEF vars
<1> QED BY <1>1, <1>2, <1>3, <1>4, <1>5, <1>6, <1>7, <1>8, <1>9, <1>10, <1>11
        DEF Next, Works, Fails

(* The INSERT lets a second transaction past only when the first is gone,  *)
(* because both would hold the same number.                                *)
LEMMA OneWriterStep ==
  ASSUME TypeOK, DocumentInv, [Next]_vars
  PROVE  OneWriterPastInsert'
<1> USE DEF TypeOK, OneWriterPastInsert
<1>0. /\ OneWriterPastInsert /\ StepsFitKinds /\ Cardinality(versions) \in Nat
      /\ UploadIsFirst
  BY FS_CardinalityType DEF DocumentInv, RowsUnique
<1>1. ASSUME NEW c \in Calls, NEW k \in AllKinds, Request(c, k) PROVE OneWriterPastInsert'
  <2>1. /\ pc'[c] \in {"put", "remove", "find"} /\ \A d \in Calls \ {c} : pc'[d] = pc[d]
        /\ UNCHANGED <<versions, number>>
    BY <1>1, RequestSteps DEF Request
  <2> QED BY <1>0, <2>1 DEF NumberFree
<1>2. ASSUME NEW c \in Calls, Refuse(c) \/ HangUp(c) \/ Purge(c) PROVE OneWriterPastInsert'
  BY <1>0, <1>2 DEF Refuse, HangUp, Purge, Answer, NumberFree
<1>3. ASSUME NEW c \in Calls, Find(c) PROVE OneWriterPastInsert'
  BY <1>0, <1>3, FindSteps DEF Find, Goto, Answer, Run, StepsFitKinds, NumberFree
<1>4. ASSUME NEW c \in Calls, FindVersion(c) \/ Fetch(c) PROVE OneWriterPastInsert'
  BY <1>0, <1>4 DEF FindVersion, Fetch, Goto, Answer, Run, NumberFree
<1>5. ASSUME NEW c \in Calls, Put(c) PROVE OneWriterPastInsert'
  <2>1. CASE kind[c] = "upload"
    <3>1. versions = {} /\ number[c] = 1 /\ \A d \in Calls \ {c} : pc[d] \notin {"insert", "update", "commit"}
      BY <1>0, <1>5, <2>1 DEF UploadIsFirst, Put, Run
    <3> QED BY <1>0, <1>5, <2>1, <3>1, FS_EmptySet DEF Put, Goto, Run, NumberFree
  <2>2. CASE kind[c] # "upload"
    BY <1>0, <1>5, <2>2 DEF Put, Goto, Run, NumberFree
  <2> QED BY <2>1, <2>2
<1>6. ASSUME NEW c \in Calls, SelectMax(c) PROVE OneWriterPastInsert'
  <2>1. NextNumber = Cardinality(versions) + 1
    BY NextNumberType DEF DocumentInv, RowsUnique
  <2> QED BY <1>0, <1>6, <2>1 DEF SelectMax, Goto, Run, NumberFree
<1>7. ASSUME NEW c \in Calls, Insert(c) PROVE OneWriterPastInsert'
  <2>1. CASE NumberFree(number[c])
    <3>1. number[c] = Cardinality(versions) + 1
      <4>1. number[c] \notin {v.no : v \in versions}
        BY <2>1 DEF NumberFree
      <4>2. number[c] \notin 1..Cardinality(versions)
        BY <4>1 DEF DocumentInv, NumbersConsecutive
      <4>3. number[c] \in 1..(Cardinality(versions) + 1)
        BY <1>0, <1>7 DEF Insert, Run
      <4> QED BY <1>0, <4>2, <4>3
    <3>2. \A d \in Calls : pc[d] \notin {"update", "commit"}
      BY <1>7, <3>1, NumberIsNext DEF Insert, NumberHeld, HoldsNumber, Run
    <3> QED BY <1>0, <1>7, <2>1, <3>2 DEF Insert, Goto, Run, NumberFree
  <2>2. CASE ~NumberFree(number[c])
    BY <1>0, <1>7, <2>2 DEF Insert, Abort, Goto, Run, NumberFree
  <2> QED BY <2>1, <2>2
<1>8. ASSUME NEW c \in Calls, UpdateDocument(c) PROVE OneWriterPastInsert'
  BY <1>0, <1>8 DEF UpdateDocument, Abort, Goto, Run, NumberFree
<1>9. ASSUME NEW c \in Calls, Commit(c) \/ CommitLost(c) PROVE OneWriterPastInsert'
  <2>1. pc[c] = "commit" /\ Store(c) /\ UNCHANGED number
    BY <1>9 DEF Commit, CommitLost, Run
  <2>2. Cardinality(versions') = Cardinality(versions) + 1
    BY <2>1, StoreIsAppend
  <2>3. /\ pc'[c] \in {"reload", "cleanup", "done"}
        /\ \A d \in Calls \ {c} : pc'[d] = pc[d]
    BY <1>9 DEF Commit, CommitLost, Abort, Goto, Answer
  <2>4. \A d \in Calls \ {c} : pc[d] \notin {"update", "commit"}
    BY <1>0, <2>1
  <2> QED BY <1>0, <2>1, <2>2, <2>3, <2>4
<1>10. ASSUME NEW c \in Calls, Reload(c) \/ CleanUp(c) \/ SoftDelete(c)
       PROVE  OneWriterPastInsert'
  BY <1>0, <1>10 DEF Reload, CleanUp, SoftDelete, Answer, Run, NumberFree
<1>11. ASSUME NEW c \in Calls, ReadFails(c) \/ PutFails(c) \/ CleanUpFails(c)
       PROVE  OneWriterPastInsert'
  BY <1>0, <1>11 DEF ReadFails, PutFails, CleanUpFails, Answer, NumberFree
<1>12. ASSUME NEW c \in Calls, StatementFails(c) \/ CommitFails(c) PROVE OneWriterPastInsert'
  BY <1>0, <1>12 DEF StatementFails, CommitFails, Abort, Goto, NumberFree
<1>13. CASE Crash
  BY <1>0, <1>13 DEF Crash, Active, NumberFree
<1>14. CASE UNCHANGED vars
  BY <1>0, <1>14 DEF vars, NumberFree
<1> QED BY <1>1, <1>2, <1>3, <1>4, <1>5, <1>6, <1>7, <1>8, <1>9, <1>10, <1>11, <1>12,
           <1>13, <1>14 DEF Next, Works, Fails

(* The rows a commit makes visible belong to its call.                     *)
LEMMA StoreCommits ==
  ASSUME NEW c \in Calls, Store(c)
  PROVE  \A d \in Calls : Committed(d)' <=> (Committed(d) \/ d = c)
<1> DEFINE row == [no |-> number[c], key |-> c]
<1>1. row.key = c
  OBVIOUS
<1>2. versions' = versions \cup {row}
  BY DEF Store
<1> HIDE DEF row
<1> QED BY <1>1, <1>2 DEF Committed

(* The stores keep up with how far each call is.                           *)
LEMMA StoresFollowCallsStep ==
  ASSUME TypeOK, DocumentInv, [Next]_vars
  PROVE  StoresFollowCalls'
<1> USE DEF TypeOK, StoresFollowCalls, Committed
<1>0. StoresFollowCalls /\ StepsFitKinds
  BY DEF DocumentInv
<1>1. ASSUME NEW c \in Calls, NEW k \in AllKinds, Request(c, k) PROVE StoresFollowCalls'
  <2>1. /\ pc[c] = "idle" /\ pc'[c] \in {"put", "remove", "find"}
        /\ \A d \in Calls \ {c} : pc'[d] = pc[d]
        /\ UNCHANGED <<versions, objects, source, unsure, purged>>
    BY <1>1, RequestSteps DEF Request
  <2> QED BY <1>0, <2>1
<1>2. ASSUME NEW c \in Calls, Refuse(c) \/ HangUp(c) \/ Purge(c) PROVE StoresFollowCalls'
  BY <1>0, <1>2 DEF Refuse, HangUp, Purge, Answer
<1>3. ASSUME NEW c \in Calls, Find(c) PROVE StoresFollowCalls'
  <2>1. Live => current \in Calls /\ Committed(current)
    BY DEF Live, DocumentInv, CurrentIsNewest
  <2>2. pc'[c] \in {"put", "source", "fetch", "remove", "done"}
    BY <1>0, <1>3, FindSteps DEF Find, Goto, Answer, Run, StepsFitKinds
  <2>3. pc'[c] = "fetch" => Live
    BY <1>3 DEF Find, Answer, Run
  <2>4. /\ pc[c] = "find" /\ \A d \in Calls \ {c} : pc'[d] = pc[d]
        /\ source' = [source EXCEPT ![c] = current]
        /\ UNCHANGED <<versions, objects, unsure, purged>>
    BY <1>3 DEF Find, Goto, Answer, Run
  <2> QED BY <1>0, <2>1, <2>2, <2>3, <2>4
<1>4. ASSUME NEW c \in Calls, FindVersion(c) PROVE StoresFollowCalls'
  BY <1>0, <1>4 DEF FindVersion, Goto, Answer, Run, Row
<1>5. ASSUME NEW c \in Calls, Fetch(c) \/ Put(c) PROVE StoresFollowCalls'
  BY <1>0, <1>5 DEF Fetch, Put, Goto, Answer, Run
<1>6. ASSUME NEW c \in Calls, SelectMax(c) \/ Insert(c) \/ UpdateDocument(c)
      PROVE  StoresFollowCalls'
  BY <1>0, <1>6 DEF SelectMax, Insert, UpdateDocument, Abort, Goto, Run
<1>7. ASSUME NEW c \in Calls, Commit(c) PROVE StoresFollowCalls'
  <2>1. \A d \in Calls : Committed(d)' <=> (Committed(d) \/ d = c)
    BY <1>7, StoreCommits DEF Commit
  <2> HIDE DEF Committed
  <2> QED BY <1>0, <1>7, <2>1 DEF Commit, Goto, Answer, Run
<1>8. ASSUME NEW c \in Calls, CommitLost(c) PROVE StoresFollowCalls'
  <2>1. \A d \in Calls : Committed(d)' <=> (Committed(d) \/ d = c)
    BY <1>8, StoreCommits DEF CommitLost
  <2> HIDE DEF Committed
  <2> QED BY <1>0, <1>8, <2>1 DEF CommitLost, Abort, Goto
<1>9. ASSUME NEW c \in Calls, Reload(c) \/ CleanUp(c) \/ SoftDelete(c)
      PROVE  StoresFollowCalls'
  BY <1>0, <1>9 DEF Reload, CleanUp, SoftDelete, Answer, Run
<1>10. ASSUME NEW c \in Calls, ReadFails(c) \/ PutFails(c) \/ CleanUpFails(c)
       PROVE  StoresFollowCalls'
  BY <1>0, <1>10 DEF ReadFails, PutFails, CleanUpFails, Answer
<1>11. ASSUME NEW c \in Calls, StatementFails(c) \/ CommitFails(c) PROVE StoresFollowCalls'
  BY <1>0, <1>11 DEF StatementFails, CommitFails, Abort, Goto
<1>12. CASE Crash
  BY <1>0, <1>12 DEF Crash, Active
<1>13. CASE UNCHANGED vars
  BY <1>0, <1>13 DEF vars
<1> QED BY <1>1, <1>2, <1>3, <1>4, <1>5, <1>6, <1>7, <1>8, <1>9, <1>10, <1>11, <1>12,
           <1>13 DEF Next, Works, Fails

(* No step takes the object of a version or forgets one without a          *)
(* version.                                                                *)
LEMMA ObjectsStep ==
  ASSUME TypeOK, DocumentInv, [Next]_vars
  PROVE  VersionsHaveObjects' /\ NoForgottenObject'
<1> DEFINE Objects == VersionsHaveObjects /\ NoForgottenObject
<1> USE DEF TypeOK, VersionsHaveObjects, NoForgottenObject, Committed, Active
<1>0. Objects /\ StoresFollowCalls
  BY DEF DocumentInv
<1>1. ASSUME NEW c \in Calls, NEW k \in AllKinds, Request(c, k) PROVE Objects'
  <2>1. /\ pc'[c] \in {"put", "remove", "find"} /\ \A d \in Calls \ {c} : pc'[d] = pc[d]
        /\ UNCHANGED <<versions, objects, unsure, purged, strays>>
    BY <1>1, RequestSteps DEF Request
  <2> QED BY <1>0, <2>1
<1>2. ASSUME NEW c \in Calls, Refuse(c) \/ HangUp(c) \/ Purge(c) PROVE Objects'
  BY <1>0, <1>2 DEF Refuse, HangUp, Purge, Answer, StoresFollowCalls
<1>3. ASSUME NEW c \in Calls, Find(c) PROVE Objects'
  <2>1. /\ c \notin objects /\ \A d \in Calls \ {c} : pc'[d] = pc[d]
        /\ UNCHANGED <<versions, objects, unsure, purged, strays>>
    BY <1>0, <1>3 DEF Find, Goto, Answer, Run, StoresFollowCalls
  <2> QED BY <1>0, <2>1
<1>4. ASSUME NEW c \in Calls, FindVersion(c) \/ Fetch(c) \/ Put(c) PROVE Objects'
  BY <1>0, <1>4 DEF FindVersion, Fetch, Put, Goto, Answer, Run, StoresFollowCalls
<1>5. ASSUME NEW c \in Calls, SelectMax(c) \/ Insert(c) \/ UpdateDocument(c)
      PROVE  Objects'
  BY <1>0, <1>5 DEF SelectMax, Insert, UpdateDocument, Abort, Goto, Run
<1>6. ASSUME NEW c \in Calls, Commit(c) \/ CommitLost(c) PROVE Objects'
  <2>1. /\ versions' = versions \cup {[no |-> number[c], key |-> c]}
        /\ c \in objects \cup purged
        /\ unsure \subseteq unsure' /\ UNCHANGED <<objects, strays, purged>>
    BY <1>0, <1>6 DEF Commit, CommitLost, Store, Run, StoresFollowCalls
  <2>2. VersionsHaveObjects'
    BY <1>0, <2>1
  <2>3. \A d \in Calls : Committed(d)' <=> (Committed(d) \/ d = c)
    BY <1>6, StoreCommits DEF Commit, CommitLost
  <2>4. \A d \in Calls \ {c} : pc'[d] = pc[d]
    BY <1>6 DEF Commit, CommitLost, Abort, Goto, Answer
  <2>5. NoForgottenObject'
    BY <1>0, <2>1, <2>3, <2>4
  <2> QED BY <2>2, <2>5
<1>7. ASSUME NEW c \in Calls, Reload(c) \/ CleanUp(c) \/ SoftDelete(c) PROVE Objects'
  BY <1>0, <1>7 DEF Reload, CleanUp, SoftDelete, Answer, Run, StoresFollowCalls
<1>8. ASSUME NEW c \in Calls, ReadFails(c) \/ PutFails(c) \/ CleanUpFails(c)
      PROVE  Objects'
  BY <1>0, <1>8 DEF ReadFails, PutFails, CleanUpFails, Answer, StoresFollowCalls
<1>9. ASSUME NEW c \in Calls, StatementFails(c) \/ CommitFails(c) PROVE Objects'
  BY <1>0, <1>9 DEF StatementFails, CommitFails, Abort, Goto
<1>10. CASE Crash
  BY <1>0, <1>10 DEF Crash
<1>11. CASE UNCHANGED vars
  BY <1>0, <1>11 DEF vars
<1> QED BY <1>1, <1>2, <1>3, <1>4, <1>5, <1>6, <1>7, <1>8, <1>9, <1>10, <1>11
        DEF Next, Works, Fails

(* No step answers success for what was not done, nor to two deletions.    *)
LEMMA AnswersStep ==
  ASSUME TypeOK, DocumentInv, [Next]_vars
  PROVE  SuccessIsStored' /\ DeletionMarks' /\ OneDeletionSucceeds'
<1> DEFINE Answers == SuccessIsStored /\ DeletionMarks /\ OneDeletionSucceeds
<1> USE DEF TypeOK, SuccessIsStored, DeletionMarks, OneDeletionSucceeds, Committed, Writers
<1>0. Answers /\ StepsFitKinds /\ StoresFollowCalls
  BY DEF DocumentInv
<1>1. ASSUME NEW c \in Calls, NEW k \in AllKinds, Request(c, k) PROVE Answers'
  <2>1. /\ result[c] = "none" /\ UNCHANGED <<versions, deleted, result>>
        /\ kind' = [kind EXCEPT ![c] = k]
    BY <1>0, <1>1 DEF Request, Goto, StepsFitKinds
  <2> QED BY <1>0, <2>1
<1>2. ASSUME NEW c \in Calls,
             \/ Refuse(c) \/ HangUp(c) \/ Purge(c) \/ SelectMax(c) \/ Insert(c)
             \/ UpdateDocument(c) \/ CleanUp(c) \/ Put(c) \/ FindVersion(c) \/ Fails(c)
      PROVE  Answers'
  <2>1. /\ UNCHANGED <<kind, deleted>> /\ versions \subseteq versions'
        /\ result' = result \/ result' = [result EXCEPT ![c] = "error"]
    BY <1>2 DEF Refuse, HangUp, Purge, SelectMax, Insert, UpdateDocument, CleanUp, Put,
                FindVersion, Fails, ReadFails, PutFails, StatementFails, CommitFails,
                CommitLost, CleanUpFails, Store, Abort, Goto, Answer
  <2> QED BY <1>0, <2>1
<1>3. ASSUME NEW c \in Calls, Find(c) PROVE Answers'
  <2>1. /\ UNCHANGED <<kind, deleted, versions>>
        /\ result' = result \/ result' = [result EXCEPT ![c] = "error"]
    BY <1>3 DEF Find, Goto, Answer
  <2> QED BY <1>0, <2>1
<1>4. ASSUME NEW c \in Calls, Fetch(c) PROVE Answers'
  BY <1>0, <1>4 DEF Fetch, Goto, Answer, Run, StepsFitKinds
<1>5. ASSUME NEW c \in Calls, Commit(c) PROVE Answers'
  <2>1. \A d \in Calls : Committed(d)' <=> (Committed(d) \/ d = c)
    BY <1>5, StoreCommits DEF Commit
  <2>2. /\ kind[c] \in Writers /\ UNCHANGED <<kind, deleted>>
        /\ result' = result \/ result' = [result EXCEPT ![c] = "ok"]
    BY <1>0, <1>5 DEF Commit, Store, Goto, Answer, Run, StepsFitKinds
  <2> HIDE DEF Committed
  <2> QED BY <1>0, <2>1, <2>2
<1>6. ASSUME NEW c \in Calls, Reload(c) PROVE Answers'
  BY <1>0, <1>6 DEF Reload, Answer, Run, StepsFitKinds, StoresFollowCalls
<1>7. ASSUME NEW c \in Calls, SoftDelete(c) PROVE Answers'
  BY <1>0, <1>7 DEF SoftDelete, Answer, Run, Live, StepsFitKinds
<1>8. CASE Crash
  BY <1>0, <1>8 DEF Crash
<1>9. CASE UNCHANGED vars
  BY <1>0, <1>9 DEF vars
<1> QED BY <1>1, <1>2, <1>3, <1>4, <1>5, <1>6, <1>7, <1>8, <1>9 DEF Next, Works

(* A deletion waits for the row lock of a transaction about to commit, or  *)
(* does not find the document yet.                                         *)
LEMMA CommitsPrecedeDeletionStep ==
  ASSUME TypeOK, DocumentInv, [Next]_vars
  PROVE  CommitsPrecedeDeletion'
<1> DEFINE Precedes == CommitsPrecedeDeletion
<1> USE DEF TypeOK, CommitsPrecedeDeletion
<1>0. CommitsPrecedeDeletion /\ StepsFitKinds /\ UploadIsFirst
  BY DEF DocumentInv
<1>1. ASSUME NEW c \in Calls, NEW k \in AllKinds, Request(c, k) PROVE Precedes'
  <2>1. /\ pc'[c] \in {"put", "remove", "find"} /\ \A d \in Calls \ {c} : pc'[d] = pc[d]
        /\ UNCHANGED deleted
    BY <1>1, RequestSteps DEF Request
  <2> QED BY <1>0, <2>1
<1>2. ASSUME NEW c \in Calls, Find(c) PROVE Precedes'
  <2>1. /\ pc'[c] # "commit" /\ \A d \in Calls \ {c} : pc'[d] = pc[d]
        /\ UNCHANGED deleted
    BY <1>0, <1>2, FindSteps DEF Find, Goto, Answer, Run, StepsFitKinds
  <2> QED BY <1>0, <2>1
<1>3. ASSUME NEW c \in Calls, Put(c) \/ UpdateDocument(c) PROVE Precedes'
  <2>1. /\ pc'[c] = "commit" => ~deleted
        /\ \A d \in Calls \ {c} : pc'[d] = pc[d]
        /\ UNCHANGED deleted
    BY <1>0, <1>3 DEF Put, UpdateDocument, Abort, Goto, Run, Live, UploadIsFirst
  <2> QED BY <1>0, <2>1
<1>4. ASSUME NEW c \in Calls, SoftDelete(c) PROVE Precedes'
  <2>1. ASSUME Live PROVE \A d \in Calls : pc[d] # "commit"
    BY <1>0, <1>4, <2>1 DEF SoftDelete, RowLocked, LocksRow, Live, UploadIsFirst
  <2> QED BY <1>0, <1>4, <2>1 DEF SoftDelete, Answer
<1>5. ASSUME NEW c \in Calls,
             \/ Refuse(c) \/ HangUp(c) \/ Purge(c) \/ FindVersion(c) \/ Fetch(c)
             \/ SelectMax(c) \/ Insert(c) \/ Commit(c) \/ Reload(c) \/ CleanUp(c) \/ Fails(c)
      PROVE  Precedes'
  <2>1. /\ UNCHANGED deleted
        /\ pc' = pc \/ \E step \in PCs \ {"commit"} : pc' = [pc EXCEPT ![c] = step]
    BY <1>5 DEF Refuse, HangUp, Purge, FindVersion, Fetch, SelectMax, Insert, Commit, Reload,
                CleanUp, Fails, ReadFails, PutFails, StatementFails, CommitFails, CommitLost,
                CleanUpFails, Store, Abort, Goto, Answer, PCs
  <2> QED BY <1>0, <2>1
<1>6. CASE Crash
  BY <1>0, <1>6 DEF Crash
<1>7. CASE UNCHANGED vars
  BY <1>0, <1>7 DEF vars
<1> QED BY <1>1, <1>2, <1>3, <1>4, <1>5, <1>6, <1>7 DEF Next, Works

(* The inductive invariant holds initially.                                *)
LEMMA InitDocumentInv == Init => DocumentInv
<1> SUFFICES ASSUME Init PROVE DocumentInv
  OBVIOUS
<1>1. \A c \in Calls : /\ pc[c] = "idle" /\ kind[c] = "none" /\ number[c] = 1
                       /\ result[c] = "none"
  BY DEF Init, All
<1>2. IsFiniteSet(versions) /\ Cardinality(versions) = 0
  BY FS_EmptySet DEF Init
<1>3. /\ StepsFitKinds /\ UploadIsFirst /\ RowsUnique /\ OneWriterPastInsert
      /\ DeletionMarks /\ SuccessIsStored /\ OneDeletionSucceeds /\ CommitsPrecedeDeletion
  BY <1>1, <1>2 DEF Init, CommitsPrecedeDeletion, StepsFitKinds, UploadIsFirst, RowsUnique, OneWriterPastInsert,
                    DeletionMarks, SuccessIsStored, OneDeletionSucceeds, Writers
<1>4. /\ StoresFollowCalls /\ VersionsHaveObjects /\ NoForgottenObject
      /\ CurrentIsNewest
  BY <1>1 DEF Init, StoresFollowCalls, Committed, VersionsHaveObjects, NoForgottenObject,
              CurrentIsNewest
<1>5. NumbersConsecutive
  BY <1>2 DEF Init, NumbersConsecutive
<1> QED BY <1>3, <1>4, <1>5 DEF DocumentInv

(* Numbers, rows, objects and answers hold each other up: none of the      *)
(* properties below is inductive without the others.                       *)
THEOREM DocumentInvariant == Spec => [](TypeOK /\ DocumentInv)
<1>1. Init => TypeOK /\ DocumentInv
  BY InitTypeOK, InitDocumentInv
<1>2. TypeOK /\ DocumentInv /\ [Next]_vars => (TypeOK /\ DocumentInv)'
  <2> SUFFICES ASSUME TypeOK, DocumentInv, [Next]_vars PROVE (TypeOK /\ DocumentInv)'
    OBVIOUS
  <2>1. StepsFitKinds
    BY DEF DocumentInv
  <2> QED BY <2>1, NextTypeOK, StepsFitKindsStep, RowsStep, UploadIsFirstStep, OneWriterStep,
             StoresFollowCallsStep, ObjectsStep, AnswersStep, CommitsPrecedeDeletionStep
          DEF DocumentInv
<1> QED BY <1>1, <1>2, PTL DEF Spec

-----------------------------------------------------------------------------
(* What follows.                                                           *)

(* Every variable keeps its type: no step stores a number or an answer the *)
(* code has no value for.                                                  *)
THEOREM TypeCorrect == Spec => []TypeOK
BY DocumentInvariant, PTL

(* version_no counts 1, 2, 3, ... without gap or repetition, although      *)
(* AddDocumentVersion reads the next number before it inserts it.          *)
THEOREM NumbersStayConsecutive == Spec => []NumbersConsecutive
<1>1. DocumentInv => NumbersConsecutive
  BY DEF DocumentInv
<1> QED BY <1>1, DocumentInvariant, PTL

(* current_version_id is the newest version, in whatever order concurrent  *)
(* saves and restores commit.                                              *)
THEOREM CurrentStaysNewest == Spec => []CurrentIsNewest
<1>1. DocumentInv => CurrentIsNewest
  BY DEF DocumentInv
<1> QED BY <1>1, DocumentInvariant, PTL

(* No committed version loses its object to the clean-up of a failed call, *)
(* unless that call's commit took effect without an answer.                *)
THEOREM VersionsKeepObjects == Spec => []VersionsHaveObjects
<1>1. DocumentInv => VersionsHaveObjects
  BY DEF DocumentInv
<1> QED BY <1>1, DocumentInvariant, PTL

(* An object without a version belongs to a call under way, or its         *)
(* deletion could not be tried or failed.                                  *)
THEOREM ObjectsAccountedFor == Spec => []NoForgottenObject
<1>1. DocumentInv => NoForgottenObject
  BY DEF DocumentInv
<1> QED BY <1>1, DocumentInvariant, PTL

(* A call that reported success has its version in the history.            *)
THEOREM SuccessStaysStored == Spec => []SuccessIsStored
<1>1. DocumentInv => SuccessIsStored
  BY DEF DocumentInv
<1> QED BY <1>1, DocumentInvariant, PTL

(* Of any number of concurrent deletions at most one succeeds.             *)
THEOREM DeletedOnce == Spec => []OneDeletionSucceeds
<1>1. DocumentInv => OneDeletionSucceeds
  BY DEF DocumentInv
<1> QED BY <1>1, DocumentInvariant, PTL

(* No deadlock, for any number of writers and deletions: a transaction     *)
(* that is waited for, for its number or for the documents row, does not   *)
(* wait itself.                                                            *)
THEOREM WaitsNeverChain == Spec => []BlockersGoOn
<1>1. OneWriterPastInsert => BlockersGoOn
  <2> SUFFICES ASSUME OneWriterPastInsert, NEW c \in Calls, NEW d \in Calls, NEW e \in Calls,
                      WaitsFor(c, d), WaitsFor(d, e)
               PROVE  FALSE
    BY DEF BlockersGoOn
  <2>1. pc[d] = "update" /\ pc[e] = "commit"
    BY DEF WaitsFor, HoldsNumber, LocksRow
  <2> QED BY <2>1 DEF OneWriterPastInsert
<1> QED BY <1>1, DocumentInvariant, PTL DEF DocumentInv

(* A reader between its row and its object finds the object.               *)
THEOREM ReadersAreServed == Spec => []ReadersFindObjects
<1>1. DocumentInv => ReadersFindObjects
  BY DEF DocumentInv, StoresFollowCalls, VersionsHaveObjects, Committed, ReadersFindObjects
<1> QED BY <1>1, DocumentInvariant, PTL

-----------------------------------------------------------------------------
(* The document implements its abstract history.                           *)

(* The rows, read by number, are a sequence of calls.                      *)
RowsAreList ==
  /\ VersionList \in Seq(Calls) /\ Len(VersionList) = Cardinality(versions)
  /\ Cardinality(versions) \in Nat
  /\ \A n \in 1..Cardinality(versions) : [no |-> n, key |-> VersionList[n]] \in versions

(* The list of the rows is well defined in every reachable state.          *)
LEMMA VersionListType == TypeOK /\ DocumentInv => RowsAreList
<1> SUFFICES ASSUME TypeOK, DocumentInv PROVE RowsAreList
  OBVIOUS
<1>1. Cardinality(versions) \in Nat
  BY FS_CardinalityType DEF DocumentInv, RowsUnique
<1>2. ASSUME NEW n \in 1..Cardinality(versions)
      PROVE  KeyOf(n) \in Calls /\ [no |-> n, key |-> KeyOf(n)] \in versions
  <2>1. PICK v \in versions : v.no = n
    BY DEF DocumentInv, NumbersConsecutive
  <2>2. v.key \in Calls /\ v = [no |-> n, key |-> v.key]
    BY <2>1 DEF TypeOK, Row
  <2>3. \E k \in Calls : [no |-> n, key |-> k] \in versions
    BY <2>2
  <2> QED BY <2>3 DEF KeyOf
<1>3. VersionList \in [1..Cardinality(versions) -> Calls]
  BY <1>2 DEF VersionList
<1>4. VersionList \in Seq(Calls)
  BY <1>1, <1>3, SeqDef
<1>5. Len(VersionList) = Cardinality(versions)
  BY <1>1, <1>3, <1>4, LenProperties
<1> QED BY <1>1, <1>2, <1>4, <1>5 DEF VersionList, RowsAreList

(* A document not created yet is an empty history.                         *)
LEMMA InitHistory == Init => History!Init
<1> SUFFICES ASSUME Init PROVE History!Init
  OBVIOUS
<1>1. TypeOK /\ DocumentInv
  BY InitTypeOK, InitDocumentInv
<1>2. Cardinality(versions) = 0
  BY FS_EmptySet DEF Init
<1>3. VersionList = <<>>
  BY <1>1, <1>2, VersionListType, EmptySeq DEF RowsAreList
<1> QED BY <1>3 DEF Init, History!Init

(* A commit appends the call's version to a document not removed.          *)
LEMMA StoreIsAdd ==
  ASSUME TypeOK, DocumentInv, TypeOK', DocumentInv',
         NEW c \in Calls, pc[c] = "commit", Store(c)
  PROVE  History!Add(c)
<1>1. ~deleted /\ current' = c /\ UNCHANGED deleted
  BY DEF DocumentInv, CommitsPrecedeDeletion, Store
<1>2. /\ VersionList \in Seq(Calls) /\ Len(VersionList) = Cardinality(versions)
      /\ Cardinality(versions) \in Nat
      /\ \A n \in 1..Cardinality(versions) : [no |-> n, key |-> VersionList[n]] \in versions
  BY VersionListType DEF RowsAreList
<1>3. /\ VersionList' \in Seq(Calls) /\ Len(VersionList') = Cardinality(versions')
      /\ \A n \in 1..Cardinality(versions') : [no |-> n, key |-> VersionList'[n]] \in versions'
  <2>1. RowsAreList'
    BY VersionListType, PTL
  <2> QED BY <2>1 DEF RowsAreList
<1>4. /\ Cardinality(versions') = Cardinality(versions) + 1
      /\ number[c] = Cardinality(versions) + 1 /\ RowsUnique'
  BY StoreIsAppend
<1>5. versions' = versions \cup {[no |-> number[c], key |-> c]}
  BY DEF Store
<1>6. \A i \in DOMAIN VersionList : VersionList[i] # c
  <2>1. ~Committed(c)
    BY DEF DocumentInv, StoresFollowCalls
  <2>2. DOMAIN VersionList = 1..Cardinality(versions)
    BY DEF VersionList
  <2>3. ASSUME NEW i \in 1..Cardinality(versions) PROVE VersionList[i] # c
    <3>1. [no |-> i, key |-> VersionList[i]] \in versions
      BY <1>2
    <3> QED BY <2>1, <3>1 DEF Committed
  <2> QED BY <2>2, <2>3
<1>7. \A n \in 1..Cardinality(versions) : VersionList'[n] = VersionList[n]
  <2> TAKE n \in 1..Cardinality(versions)
  <2>1. [no |-> n, key |-> VersionList[n]] \in versions'
    BY <1>2, <1>5
  <2>2. [no |-> n, key |-> VersionList'[n]] \in versions'
    BY <1>2, <1>3, <1>4
  <2>3. [no |-> n, key |-> VersionList[n]] = [no |-> n, key |-> VersionList'[n]]
    BY <1>4, <2>1, <2>2 DEF RowsUnique
  <2> QED BY <2>3
<1>8. VersionList'[Cardinality(versions) + 1] = c
  <2> DEFINE n == Cardinality(versions) + 1
  <2>1. [no |-> n, key |-> c] \in versions'
    BY <1>4, <1>5
  <2>2. [no |-> n, key |-> VersionList'[n]] \in versions'
    BY <1>2, <1>3, <1>4
  <2>3. [no |-> n, key |-> c] = [no |-> n, key |-> VersionList'[n]]
    BY <1>4, <2>1, <2>2 DEF RowsUnique
  <2> QED BY <2>3
<1>9. VersionList' = Append(VersionList, c)
  <2>1. /\ Append(VersionList, c) \in Seq(Calls)
        /\ Len(Append(VersionList, c)) = Cardinality(versions) + 1
        /\ \A i \in 1..Cardinality(versions) : Append(VersionList, c)[i] = VersionList[i]
        /\ Append(VersionList, c)[Cardinality(versions) + 1] = c
    BY <1>2, AppendProperties
  <2>2. \A i \in 1..Len(VersionList') : VersionList'[i] = Append(VersionList, c)[i]
    BY <1>2, <1>3, <1>4, <1>7, <1>8, <2>1
  <2> QED BY <1>3, <1>4, <2>1, <2>2, SeqEqual
<1> QED BY <1>1, <1>6, <1>9 DEF History!Add

(* A soft delete removes a document that has versions.                     *)
LEMMA SoftDeleteIsRemove ==
  ASSUME TypeOK, DocumentInv, NEW c \in Calls, SoftDelete(c), deleted' # deleted
  PROVE  History!Remove
<1>1. ~deleted /\ current # NoCall /\ deleted' = TRUE /\ UNCHANGED <<versions, current>>
  BY DEF SoftDelete, Live
<1>2. Cardinality(versions) # 0
  BY <1>1, FS_EmptySet DEF DocumentInv, RowsUnique, CurrentIsNewest
<1>3. VersionList # <<>>
  BY <1>2, VersionListType, EmptySeq DEF RowsAreList
<1>4. UNCHANGED VersionList
  BY <1>1 DEF VersionList, KeyOf
<1> QED BY <1>1, <1>3, <1>4 DEF History!Remove

(* Every step of the document is a step of its history or none.            *)
LEMMA NextHistory ==
  ASSUME TypeOK, DocumentInv, TypeOK', DocumentInv', [Next]_vars
  PROVE  [History!Next]_(History!vars)
<1>1. CASE \E c \in Calls : pc[c] = "commit" /\ Store(c)
  BY <1>1, StoreIsAdd DEF History!Next
<1>2. CASE \E c \in Calls : SoftDelete(c) /\ deleted' # deleted
  BY <1>2, SoftDeleteIsRemove DEF History!Next
<1>3. CASE UNCHANGED rowVars
  BY <1>3 DEF VersionList, KeyOf, History!vars
<1>4. \/ \E c \in Calls : pc[c] = "commit" /\ Store(c)
      \/ \E c \in Calls : SoftDelete(c) /\ deleted' # deleted
      \/ UNCHANGED rowVars
  <2>1. ASSUME NEW c \in Calls, Works(c) PROVE <1>4
    BY <2>1 DEF Works, Find, FindVersion, Fetch, Put, SelectMax, Insert, UpdateDocument,
                Commit, Reload, CleanUp, SoftDelete, Run
  <2>2. ASSUME NEW c \in Calls, Fails(c) PROVE <1>4
    BY <2>2 DEF Fails, ReadFails, PutFails, StatementFails, CommitFails, CommitLost,
                CleanUpFails
  <2> QED BY <2>1, <2>2 DEF Next, Request, Refuse, HangUp, Purge, Crash, vars
<1> QED BY <1>1, <1>2, <1>3, <1>4

(* The whole of the saves, restores and deletions, with their failures and *)
(* crashes, behaves as a history that grows one version at a time until    *)
(* the document is removed.                                                *)
THEOREM DocumentImplementsHistory == Spec => ImplementsHistory
<1>1. TypeOK /\ DocumentInv /\ (TypeOK /\ DocumentInv)' /\ [Next]_vars
        => [History!Next]_(History!vars)
  BY NextHistory
<1> QED BY <1>1, InitHistory, DocumentInvariant, PTL DEF Spec, ImplementsHistory, History!Spec

=============================================================================
