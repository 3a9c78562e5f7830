--------------------------- MODULE LfsStoreProofs ---------------------------
(***************************************************************************)
(* Proofs about LfsStore: integrity and permanence of stored objects, for  *)
(* any number of clients, objects, requests and chunks.                    *)
(***************************************************************************)
EXTENDS LfsStore, TLAPS

\* A file about to be renamed has passed both checks.
Checked ==
  \A c \in Clients : pc[c] = "rename" => temp[c] = Content[oid(c)]

\* An answer that is on its way and says the store has the object is true.
Pending ==
  \A c \in Clients : pc[c] = "reply" /\ answer[c] \in Confirming => Present(oid(c))

\* The inductive invariant: StoredIntact rests on Checked, PromisesKept on
\* Pending.
LInv == TypeOK /\ StoredIntact /\ Checked /\ Pending /\ PromisesKept

\* A request in progress names an object.
LEMMA RequestFacts ==
  ASSUME TypeOK, NEW c \in Clients, pc[c] # "idle"
  PROVE  /\ req[c] \in Request
         /\ oid(c) \in Objects
         /\ req[c].body \in Bytes
         /\ Content[oid(c)] \in Bytes
BY LfsRequestsAssumption, ContentAssumption DEF TypeOK, Request, oid

\* The initial state satisfies the invariant.
LEMMA InitLInv == Init => LInv
BY DEF Init, LInv, TypeOK, StoredIntact, Checked, Pending, PromisesKept, Present, Bytes, Confirming

\* No step changes the shape of the state.
LEMMA TypeStep == TypeOK /\ [Next]_vars => TypeOK'
<1> SUFFICES ASSUME TypeOK, [Next]_vars PROVE TypeOK'
  OBVIOUS
<1> USE DEF TypeOK, Goto, Answer, Confirming
<1>1. CASE UNCHANGED vars
  BY <1>1 DEF vars
<1>2. CASE Crash
  BY <1>2 DEF Crash
<1>3. ASSUME NEW c \in Clients, Step(c) PROVE TypeOK'
  <2>1. CASE Arrive(c)
    <3> PICK q \in Requests : /\ req' = [req EXCEPT ![c] = q]
                              /\ rest' = [rest EXCEPT ![c] = q.body]
                              /\ pc' = [pc EXCEPT ![c] = q.op]
      BY <2>1 DEF Arrive
    <3>1. q \in Request /\ q.body \in Bytes /\ q.op \in {"upload", "download", "put", "verify", "get"}
      BY LfsRequestsAssumption DEF Request
    <3>2. q # NoRequest
      BY <3>1, LfsNoRequestAssumption
    <3> QED
      BY <2>1, <3>1, <3>2 DEF Arrive
  <2>2. CASE CreateTemp(c)
    <3>0. <<>> \in Seq(Chunks)
      OBVIOUS
    <3>1. <<>> \in Bytes /\ <<>> # NoFile
      BY <3>0, NoFileAssumption, Zenon DEF Bytes
    <3> QED
      BY <2>2, <3>1 DEF CreateTemp
  <2>3. CASE ReceiveChunk(c)
    <3>1. temp[c] \in Bytes /\ rest[c] \in Bytes
      BY <2>3 DEF ReceiveChunk
    <3>2. Append(temp[c], Head(rest[c])) \in Bytes /\ Tail(rest[c]) \in Bytes
      BY <2>3, <3>1 DEF ReceiveChunk, Bytes
    <3> QED
      BY <2>3, <3>2, NoFileAssumption DEF ReceiveChunk
  <2>4. CASE Rename(c)
    BY <2>4, RequestFacts DEF Rename, Publish
  <2>5. CASE Drop(c)
    BY <2>5, RequestFacts DEF Drop, Publish
  <2>6. CASE Reply(c)
    BY <2>6, RequestFacts DEF Reply
  <2>7. CASE Refuse(c)
    BY <2>7 DEF Refuse
  <2>8. CASE Batch(c)
    BY <2>8 DEF Batch
  <2>9. CASE Verify(c)
    BY <2>9 DEF Verify
  <2>10. CASE GetStat(c)
    BY <2>10 DEF GetStat
  <2>11. CASE GetOpen(c)
    BY <2>11 DEF GetOpen
  <2>12. CASE AlreadyPresent(c)
    BY <2>12 DEF AlreadyPresent
  <2>13. CASE CheckPasses(c)
    BY <2>13 DEF CheckPasses, BodyRead
  <2>14. CASE CheckFails(c)
    BY <2>14 DEF CheckFails, BodyRead
  <2>15. CASE IoError(c)
    BY <2>15 DEF IoError
  <2> QED
    BY <1>3, <2>1, <2>2, <2>3, <2>4, <2>5, <2>6, <2>7, <2>8, <2>9, <2>10, <2>11,
       <2>12, <2>13, <2>14, <2>15 DEF Step
<1> QED
  BY <1>1, <1>2, <1>3 DEF Next

\* The state has its type whatever the requests are.
THEOREM TypeCorrect == Spec => []TypeOK
<1>1. Init => TypeOK
  BY InitLInv DEF LInv
<1> QED
  BY <1>1, TypeStep, PTL DEF Spec

\* Only a rename changes what is stored, and it stores the checked bytes.
LEMMA OnlyPublishStores ==
  ASSUME LInv, [Next]_vars
  PROVE  \/ stored' = stored
         \/ \E c \in Clients : /\ pc[c] = "rename"
                               /\ oid(c) \in Objects
                               /\ Content[oid(c)] # NoFile
                               /\ stored' = [stored EXCEPT ![oid(c)] = Content[oid(c)]]
<1>1. CASE UNCHANGED vars
  BY <1>1 DEF vars
<1>2. CASE Crash
  BY <1>2 DEF Crash
<1>3. ASSUME NEW c \in Clients, Rename(c) \/ Drop(c), stored' # stored
      PROVE  /\ pc[c] = "rename"
             /\ oid(c) \in Objects
             /\ Content[oid(c)] # NoFile
             /\ stored' = [stored EXCEPT ![oid(c)] = Content[oid(c)]]
  <2>1. pc[c] = "rename" /\ stored' = [stored EXCEPT ![oid(c)] = temp[c]]
    BY <1>3 DEF Rename, Drop, Publish
  <2>2. temp[c] = Content[oid(c)]
    BY <2>1 DEF LInv, Checked
  <2> QED
    BY <2>1, <2>2, RequestFacts, NoFileAssumption DEF LInv
<1>4. ASSUME NEW c \in Clients, Step(c), ~ (Rename(c) \/ Drop(c))
      PROVE  stored' = stored
  BY <1>4 DEF Step, Arrive, Refuse, Batch, Verify, GetStat, GetOpen, AlreadyPresent, CreateTemp,
     ReceiveChunk, CheckPasses, CheckFails, IoError, Reply
<1> QED
  BY <1>1, <1>2, <1>3, <1>4 DEF Next

\* Stored objects stay, and what is stored is right.
LEMMA StoredStep ==
  ASSUME LInv, [Next]_vars
  PROVE  /\ StoredIntact'
         /\ \A o \in Objects : Present(o) => stored'[o] = stored[o]
<1>1. CASE stored' = stored
  BY <1>1 DEF LInv, StoredIntact, Present
<1>2. ASSUME NEW c \in Clients, oid(c) \in Objects, Content[oid(c)] # NoFile,
             stored' = [stored EXCEPT ![oid(c)] = Content[oid(c)]]
      PROVE  /\ StoredIntact'
             /\ \A o \in Objects : Present(o) => stored'[o] = stored[o]
  BY <1>2 DEF LInv, TypeOK, StoredIntact, Present
<1> QED
  BY <1>1, <1>2, OnlyPublishStores

\* A file reaches its rename only through the checks.
LEMMA CheckedStep ==
  ASSUME LInv, [Next]_vars
  PROVE  Checked'
<1> USE DEF LInv, TypeOK, Checked, oid, Goto, Answer
<1>1. CASE UNCHANGED vars
  BY <1>1 DEF vars
<1>2. CASE Crash
  BY <1>2 DEF Crash
<1>3. ASSUME NEW c \in Clients, Step(c) PROVE Checked'
  <2>1. CASE Arrive(c)
    <3>1. pc'[c] # "rename"
      BY <2>1, LfsRequestsAssumption DEF Arrive, Request
    <3>2. \A d \in Clients \ {c} : pc'[d] = pc[d] /\ temp'[d] = temp[d] /\ req'[d] = req[d]
      BY <2>1 DEF Arrive
    <3> QED
      BY <3>1, <3>2
  <2>2. CASE Rename(c) \/ Drop(c) \/ CheckFails(c)
    BY <2>2 DEF Rename, Drop, Publish, CheckFails
  <2>3. CASE CreateTemp(c) \/ ReceiveChunk(c)
    BY <2>3 DEF CreateTemp, ReceiveChunk
  <2>4. CASE CheckPasses(c)
    BY <2>4 DEF CheckPasses, HashOK
  <2>5. CASE Refuse(c) \/ Batch(c) \/ Verify(c) \/ GetStat(c) \/ GetOpen(c) \/ AlreadyPresent(c)
             \/ IoError(c) \/ Reply(c)
    BY <2>5 DEF Refuse, Batch, Verify, GetStat, GetOpen, AlreadyPresent, IoError, Reply
  <2> QED
    BY <1>3, <2>1, <2>2, <2>3, <2>4, <2>5 DEF Step
<1> QED
  BY <1>1, <1>2, <1>3 DEF Next

\* A confirming answer is given only when the object is there.
LEMMA PendingStep ==
  ASSUME LInv, [Next]_vars
  PROVE  Pending'
<1>0. \A o \in Objects : Present(o) => Present(o)'
  BY StoredStep DEF Present
<1> USE DEF LInv, TypeOK, Pending, oid, Goto, Answer
<1>1. CASE UNCHANGED vars
  BY <1>1 DEF vars, Present
<1>2. CASE Crash
  BY <1>2 DEF Crash
<1>3. ASSUME NEW c \in Clients, Step(c) PROVE Pending'
  <2> SUFFICES ASSUME NEW d \in Clients, pc'[d] = "reply", answer'[d] \in Confirming
               PROVE  stored'[req'[d].oid] # NoFile
    BY DEF Present
  <2>1. CASE d # c
    <3>1. pc'[d] = pc[d] /\ answer'[d] = answer[d] /\ req'[d] = req[d]
      BY <1>3, <2>1 DEF Step, Arrive, Refuse, Batch, Verify, GetStat, GetOpen, AlreadyPresent,
         CreateTemp, ReceiveChunk, CheckPasses, CheckFails, Rename, IoError, Reply, Drop
    <3>2. Present(oid(d)) /\ oid(d) \in Objects
      BY <3>1, RequestFacts
    <3> QED
      BY <1>0, <3>1, <3>2 DEF Present
  <2>2. CASE d = c
    <3>1. CASE Arrive(c)
      <4>1. pc'[c] # "reply"
        BY <3>1, LfsRequestsAssumption DEF Arrive, Request
      <4> QED
        BY <2>2, <4>1
    <3>2. CASE Rename(c)
      <4>1. stored' = [stored EXCEPT ![oid(c)] = temp[c]] /\ req' = req /\ pc[c] = "rename"
        BY <3>2 DEF Rename, Publish
      <4>2. oid(c) \in Objects /\ temp[c] # NoFile
        BY <4>1, RequestFacts
      <4> QED
        BY <2>2, <4>1, <4>2
    <3>3. CASE Batch(c) \/ Verify(c) \/ GetStat(c) \/ GetOpen(c) \/ AlreadyPresent(c)
      BY <2>2, <3>3 DEF Batch, Verify, GetStat, GetOpen, AlreadyPresent, Present, Confirming
    <3>4. CASE Refuse(c) \/ CheckFails(c) \/ IoError(c)
      BY <2>2, <3>4 DEF Refuse, CheckFails, IoError, Confirming
    <3>5. CASE CreateTemp(c) \/ ReceiveChunk(c) \/ CheckPasses(c) \/ Reply(c) \/ Drop(c)
      BY <2>2, <3>5 DEF CreateTemp, ReceiveChunk, CheckPasses, BodyRead, Reply, Drop
    <3> QED
      BY <1>3, <3>1, <3>2, <3>3, <3>4, <3>5 DEF Step
  <2> QED
    BY <2>1, <2>2
<1> QED
  BY <1>1, <1>2, <1>3 DEF Next

\* What a client was told stays true.
LEMMA PromisesStep ==
  ASSUME LInv, [Next]_vars
  PROVE  PromisesKept'
<1>1. \A o \in Objects : Present(o) => Present(o)'
  BY StoredStep DEF Present
<1>2. \A c \in Clients : told[c] \subseteq Objects
  BY DEF LInv, TypeOK
<1>3. CASE told' = told
  BY <1>1, <1>2, <1>3 DEF LInv, PromisesKept
<1>4. ASSUME NEW c \in Clients, Reply(c) PROVE PromisesKept'
  <2>1. oid(c) \in Objects
    BY <1>4, RequestFacts DEF Reply, LInv
  <2>2. answer[c] \in Confirming => Present(oid(c))
    BY <1>4 DEF Reply, LInv, Pending
  <2>3. \A d \in Clients : told'[d] = told[d] \/ (answer[c] \in Confirming /\ told'[d] = told[d] \union {oid(c)})
    BY <1>4 DEF Reply, LInv, TypeOK
  <2> QED
    BY <1>1, <1>2, <2>1, <2>2, <2>3 DEF LInv, PromisesKept
<1>5. ASSUME NEW c \in Clients, Step(c), ~ Reply(c) PROVE told' = told
  BY <1>5 DEF Step, Arrive, Refuse, Batch, Verify, GetStat, GetOpen, AlreadyPresent, CreateTemp,
     ReceiveChunk, CheckPasses, CheckFails, Rename, IoError, Drop
<1> QED
  BY <1>3, <1>4, <1>5 DEF Next, Crash, vars

\* The inductive invariant holds in every reachable state.
THEOREM LfsInvariance == Spec => []LInv
<1>1. LInv /\ [Next]_vars => LInv'
  BY TypeStep, StoredStep, CheckedStep, PendingStep, PromisesStep DEF LInv
<1> QED
  BY <1>1, InitLInv, PTL DEF Spec

\* What lies under an object's name is the object: FsLfs::write renames only
\* files that passed the size and hash checks.
THEOREM ObjectsIntact == Spec => []StoredIntact
BY LfsInvariance, PTL DEF LInv

\* What a client was once told about the store stays true.
THEOREM PromisesAreKept == Spec => []PromisesKept
BY LfsInvariance, PTL DEF LInv

\* A stored object is never changed or removed, also when concurrent uploads
\* of it rename their own copies over it.
THEOREM ObjectsPermanent == Spec => ObjectsStable
<1>1. LInv /\ [Next]_vars => [\A o \in Objects : Present(o) => stored'[o] = stored[o]]_vars
  BY StoredStep
<1> QED
  BY <1>1, LfsInvariance, PTL DEF Spec, ObjectsStable

\* A request that has not created its temporary file has none, nor has one
\* that is answered, unless the disk failed it.
NoTemp ==
  /\ AnsweredLeavesNoTemp
  /\ \A c \in Clients :
       pc[c] \in {"upload", "download", "put", "verify", "get", "open"} => temp[c] = NoFile

\* Every step keeps it.
LEMMA NoTempStep ==
  ASSUME TypeOK, NoTemp, [Next]_vars
  PROVE  NoTemp'
<1> USE DEF TypeOK, NoTemp, AnsweredLeavesNoTemp, Goto, Answer
<1>1. CASE UNCHANGED vars
  BY <1>1 DEF vars
<1>2. CASE Crash
  BY <1>2 DEF Crash
<1>3. ASSUME NEW c \in Clients, Step(c) PROVE NoTemp'
  <2>1. CASE Arrive(c) \/ Drop(c) \/ Reply(c)
    BY <2>1 DEF Arrive, Drop, Publish, Reply
  <2>2. CASE CreateTemp(c) \/ ReceiveChunk(c) \/ CheckPasses(c)
    BY <2>2 DEF CreateTemp, ReceiveChunk, CheckPasses, BodyRead
  <2>3. CASE CheckFails(c) \/ Rename(c) \/ IoError(c)
    BY <2>3 DEF CheckFails, Rename, Publish, IoError
  <2>4. CASE Refuse(c) \/ Batch(c) \/ Verify(c) \/ AlreadyPresent(c)
    BY <2>4 DEF Refuse, Batch, Verify, AlreadyPresent
  <2>5. CASE GetStat(c) \/ GetOpen(c)
    BY <2>5 DEF GetStat, GetOpen
  <2> QED
    BY <1>3, <2>1, <2>2, <2>3, <2>4, <2>5 DEF Step
<1> QED
  BY <1>1, <1>2, <1>3 DEF Next

\* An upload that was answered, with success or a mismatch, has cleaned up, or
\* could not because remove_file failed.
THEOREM UploadsCleanUp == Spec => []AnsweredLeavesNoTemp
<1>1. Init => NoTemp
  BY DEF Init, NoTemp, AnsweredLeavesNoTemp
<1>2. NoTemp => AnsweredLeavesNoTemp
  BY DEF NoTemp
<1> QED
  BY <1>1, <1>2, NoTempStep, TypeCorrect, PTL DEF Spec
=============================================================================
