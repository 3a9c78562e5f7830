-------------------------- MODULE JudgedPushProofs --------------------------
(***************************************************************************)
(* Proofs about DatabaseStore and JudgedPush, for any commit graph, rule,  *)
(* cap, set of pushes and number of concurrent requests, over TiKV and     *)
(* SQLite.  Of the store: shapes and locks, that it holds everything its   *)
(* refs and pending batches need, and that update_refs implements          *)
(* RefStore.  Of the judged push: the walks find exactly what is new, and  *)
(* nothing the rule refuses gets under a ref.                              *)
(***************************************************************************)
EXTENDS JudgedPush, CommitGraphProofs

(***************************************************************************)
(* Facts about batches and pushes                                          *)
(***************************************************************************)

\* A batch is a function from some keys to updates.
LEMMA BatchFacts ==
  ASSUME NEW b \in BatchOf(Updates)
  PROVE  /\ DOMAIN b \subseteq Keys
         /\ \A k \in DOMAIN b : b[k].old \in Value /\ b[k].new \in Value
BY UpdatesAssumption DEF BatchOf, RefUpdate

\* The batch of a request that has not called update_refs.
LEMMA EmptyBatchFacts == EmptyBatch \in BatchOf(Updates) /\ DOMAIN EmptyBatch = {}
<1>1. EmptyBatch \in [{} -> Updates] /\ DOMAIN EmptyBatch = {}
  BY DEF EmptyBatch
<1> QED
  BY <1>1 DEF BatchOf

\* The commands of a push.
LEMMA PushFacts ==
  ASSUME NEW p \in Pushes \union {NoPush}
  PROVE  /\ DOMAIN p.cmds \subseteq Names
         /\ \A n \in DOMAIN p.cmds : p.cmds[n] \in Updates
         /\ p.pack \subseteq Commits
         /\ Tips(p.cmds) \subseteq Commits
<1>1. CASE p = NoPush
  BY <1>1 DEF NoPush, Tips
<1>2. CASE p \in Pushes
  <2>1. p.cmds \in UNION { [D -> Updates] : D \in SUBSET Names } /\ p.pack \subseteq Commits
    BY <1>2, PushesAssumption
  <2> QED
    BY <2>1, UpdatesAssumption DEF Tips, RefUpdate, Value
<1> QED
  BY <1>1, <1>2

\* The batch update_refs gets.
LEMMA BatchOfPush ==
  ASSUME NEW p \in Pushes \union {NoPush}, NEW i \in Ids
  PROVE  [k \in {i} \X DOMAIN p.cmds |-> p.cmds[k[2]]] \in BatchOf(Updates)
<1> DEFINE D == {i} \X DOMAIN p.cmds
<1>1. D \in SUBSET Keys
  BY PushFacts DEF Keys
<1>2. [k \in D |-> p.cmds[k[2]]] \in [D -> Updates]
  BY PushFacts
<1> QED
  BY <1>1, <1>2 DEF BatchOf

(***************************************************************************)
(* Shapes and locks                                                        *)
(***************************************************************************)

\* A path without an id has never been given one.
CounterOK == index = NoId => counter = 1

\* A compare-and-swap that has passed holds its lock.
CheckedLocked == \A h \in Handlers : \A k \in checked[h] : lock[k] = h

TInv == StoreTypeOK /\ CounterOK /\ CheckedLocked

\* No request has come.
LEMMA InitTInv == StoreInit => TInv
BY IdsAssumption, EmptyBatchFacts
DEF StoreInit, TInv, StoreTypeOK, CounterOK, CheckedLocked, Value, Opening, Handling

\* Rolling a transaction back keeps the shapes.
LEMMA AbortType ==
  ASSUME TInv, NEW h \in Handlers, pc[h] = "update", Abort(h)
  PROVE  TInv'
BY FreeAssumption
DEF Abort, Goto, Unlocked, TInv, StoreTypeOK, CounterOK, CheckedLocked, Opening, Handling

\* So does the end of a request before update_refs.
LEMMA FailType ==
  ASSUME TInv, NEW h \in Handlers, Fail(h)
  PROVE  TInv'
BY FreeAssumption
DEF Fail, Goto, TInv, StoreTypeOK, CounterOK, CheckedLocked, Opening, Handling

\* Every step keeps the shapes.
LEMMA TypeStep == TInv /\ [StoreNext]_storeVars => TInv'
<1> SUFFICES ASSUME TInv, [StoreNext]_storeVars PROVE TInv'
  OBVIOUS
<1> USE IdsAssumption, FreeAssumption
    DEF TInv, StoreTypeOK, CounterOK, CheckedLocked, Goto, Opening, Handling
<1>1. ASSUME NEW h \in Handlers, Arrive(h) PROVE TInv'
  BY <1>1 DEF Arrive
<1>2. ASSUME NEW h \in Handlers, Setup(h) PROVE TInv'
  <2>1. CASE KvProbe(h)
    BY <2>1 DEF KvProbe
  <2>2. CASE KvRecheck(h)
    BY <2>2 DEF KvRecheck
  <2>3. CASE KvLockCounter(h)
    BY <2>3 DEF KvLockCounter
  <2>4. CASE KvAllocate(h)
    BY <2>4 DEF KvAllocate
  <2>5. CASE SqlInit(h)
    BY <2>5 DEF SqlInit
  <2>6. CASE Open(h)
    BY <2>6 DEF Open
  <2>7. CASE OpenFails(h)
    BY <2>7 DEF OpenFails
  <2>8. CASE BusyFails(h)
    BY <2>8, FailType DEF BusyFails
  <2> QED
    BY <1>2, <2>1, <2>2, <2>3, <2>4, <2>5, <2>6, <2>7, <2>8 DEF Setup
<1>3. ASSUME NEW h \in Handlers, ReceivePush(h) PROVE TInv'
  <2>1. PICK p \in Pushes :
          /\ push' = [push EXCEPT ![h] = p]
          /\ pc' = [pc EXCEPT ![h] = IF p.pack = {} THEN "ingested" ELSE "ingest"]
    BY <1>3 DEF ReceivePush
  <2> QED
    BY <1>3, <2>1 DEF ReceivePush
<1>4. ASSUME NEW h \in Handlers, Ingest(h) PROVE TInv'
  <2>1. repo[h] \in Ids /\ push[h].pack \subseteq Commits
    BY <1>4, PushFacts DEF Ingest, KvExtract, SqlExtract, KvIngest, SqlIngest
  <2>2. CASE KvExtract(h) \/ SqlExtract(h)
    BY <2>1, <2>2 DEF KvExtract, SqlExtract
  <2>3. CASE KvIngest(h) \/ SqlIngest(h)
    <3>1. objects' \in [Ids -> SUBSET Commits]
      BY <2>1, <2>3 DEF KvIngest, SqlIngest
    <3> QED
      BY <2>1, <2>3, <3>1 DEF KvIngest, SqlIngest
  <2> QED
    BY <1>4, <2>2, <2>3 DEF Ingest
<1>5. ASSUME NEW h \in Handlers, RollbackIngest(h) PROVE TInv'
  BY <1>5 DEF RollbackIngest
<1>6. ASSUME NEW h \in Handlers, UpdateRefs(h) PROVE TInv'
  <2>1. batch'[h] \in BatchOf(Updates)
    BY <1>6, BatchOfPush DEF UpdateRefs
  <2>2. checked[h] = {}
    BY <1>6, BatchFacts DEF UpdateRefs
  <2> QED
    BY <1>6, <2>1, <2>2 DEF UpdateRefs
<1>7. ASSUME NEW h \in Handlers, Commit(h) PROVE TInv'
  <2>1. refs' \in [Keys -> Value]
    BY <1>7, BatchFacts DEF Commit, Apply
  <2> QED
    BY <1>7, <2>1 DEF Commit, Unlocked
<1>8. ASSUME NEW h \in Handlers, CommitReturns(h) \/ CommitUnknown(h) PROVE TInv'
  BY <1>8 DEF CommitReturns, CommitUnknown
<1>9. ASSUME NEW h \in Handlers, NEW k \in Keys, KvCas(h, k) PROVE TInv'
  BY <1>9 DEF KvCas, ToDo
<1>10. ASSUME NEW h \in Handlers, NEW k \in Keys, SqlCas(h, k) PROVE TInv'
  <2>1. \A g \in Handlers \ {h} : checked[g] = {}
    BY <1>10 DEF SqlCas, WriterFree
  <2>2. lock' \in [Keys -> Handlers \union {Free}]
    BY <1>10 DEF SqlCas
  <2>3. checked' \in [Handlers -> SUBSET Keys]
    BY <1>10 DEF SqlCas
  <2>4. CheckedLocked'
    BY <1>10, <2>1 DEF SqlCas
  <2> QED
    BY <1>10, <2>2, <2>3, <2>4 DEF SqlCas, ToDo
<1>11. ASSUME NEW h \in Handlers, UpdateFails(h) \/ \E k \in Keys : Stale(h, k) \/ WaitFails(h, k)
       PROVE TInv'
  BY <1>11, AbortType DEF UpdateFails, Stale, WaitFails
<1>12. ASSUME NEW h \in Handlers, Fail(h) PROVE TInv'
  BY <1>12, FailType
<1>13. ASSUME NEW h \in Handlers, NextRequest(h) PROVE TInv'
  <2>1. checked[h] = {}
    BY <1>13 DEF NextRequest
  <2> QED
    BY <1>13, <2>1, EmptyBatchFacts DEF NextRequest
<1>14. CASE UNCHANGED storeVars
  BY <1>14 DEF storeVars
<1> QED
  BY <1>1, <1>2, <1>3, <1>4, <1>5, <1>6, <1>7, <1>8, <1>9, <1>10, <1>11, <1>12,
     <1>13, <1>14
  DEF StoreNext, UpdateStep

(***************************************************************************)
(* What the store holds                                                    *)
(***************************************************************************)

\* The store of a repository holds whole histories.
ObjectsClosed == \A i \in Ids : ClosedIn(Commits, objects[i])

\* With its pack, a push brings all its new tips need; once it is ingested the
\* store has the pack.
PushOK ==
  \A h \in Handlers :
    /\ pc[h] \in {"ingest", "extracted", "ingested"} =>
         /\ ClosedIn(Commits, push[h].pack \union objects[repo[h]])
         /\ Tips(push[h].cmds) \subseteq push[h].pack \union objects[repo[h]]
    /\ pc[h] = "ingested" => push[h].pack \subseteq objects[repo[h]]

\* update_refs is called only with commits of the store.
BatchStored ==
  \A h \in Handlers : \A k \in DOMAIN batch[h] :
    batch[h][k].new \in objects[k[1]] \union {Null}

\* So refs point at commits of the store.
RefsStored == \A k \in Keys : refs[k] \in objects[k[1]] \union {Null}

\* A compare-and-swap that has passed is still true.
CasOK ==
  \A h \in Handlers : \A k \in checked[h] : refs[k] = batch[h][k].old

SInv == TInv /\ ObjectsClosed /\ PushOK /\ BatchStored /\ RefsStored /\ CasOK

\* The store is empty.
LEMMA InitSInv == StoreInit => SInv
<1> SUFFICES ASSUME StoreInit PROVE SInv
  OBVIOUS
<1>1. ObjectsClosed /\ PushOK
  BY DEF StoreInit, ObjectsClosed, ClosedIn, PushOK
<1>2. BatchStored /\ CasOK
  BY EmptyBatchFacts DEF StoreInit, BatchStored, CasOK
<1>3. RefsStored
  BY DEF StoreInit, RefsStored
<1> QED
  BY <1>1, <1>2, <1>3, InitTInv DEF SInv

\* Only the pushes a step touches have to be looked at.
LEMMA PushFrame ==
  ASSUME PushOK, UNCHANGED objects, NEW h \in Handlers,
         \A g \in Handlers \ {h} : pc'[g] = pc[g] /\ repo'[g] = repo[g] /\ push'[g] = push[g],
         pc'[h] \notin {"ingest", "extracted", "ingested"}
  PROVE  PushOK'
BY DEF PushOK

\* A step that leaves refs, objects, batches and checks alone, and brings no
\* request with a push further, keeps what the store holds.
LEMMA QuietStep ==
  ASSUME SInv, TInv', UNCHANGED <<refs, objects, batch>>,
         NEW h \in Handlers,
         \A g \in Handlers \ {h} : pc'[g] = pc[g] /\ repo'[g] = repo[g] /\ push'[g] = push[g],
         \A g \in Handlers : checked'[g] \subseteq checked[g],
         pc'[h] \notin {"ingest", "extracted", "ingested"}
  PROVE  SInv'
BY DEF SInv, ObjectsClosed, PushOK, BatchStored, RefsStored, CasOK

\* Ingesting a pack keeps what the store holds.
LEMMA IngestStep ==
  ASSUME SInv, TInv', NEW h \in Handlers, KvIngest(h) \/ SqlIngest(h)
  PROVE  SInv'
<1> USE DEF SInv, TInv, StoreTypeOK
<1>1. pc[h] = "extracted" /\ repo[h] \in Ids
  BY DEF KvIngest, SqlIngest, Handling
<1>2. /\ objects' = [objects EXCEPT ![repo[h]] = @ \union push[h].pack]
      /\ pc' = [pc EXCEPT ![h] = "ingested"]
      /\ UNCHANGED <<refs, repo, push, batch, checked>>
  BY DEF KvIngest, SqlIngest, Goto
<1>3. \A i \in Ids : objects[i] \subseteq objects'[i]
  BY <1>1, <1>2
<1>4. ObjectsClosed'
  <2> SUFFICES ASSUME NEW i \in Ids PROVE ClosedIn(Commits, objects'[i])
    BY DEF ObjectsClosed
  <2>1. CASE i = repo[h]
    BY <1>1, <1>2, <2>1 DEF PushOK, ClosedIn
  <2>2. CASE i # repo[h]
    BY <1>1, <1>2, <2>2 DEF ObjectsClosed, ClosedIn
  <2> QED
    BY <2>1, <2>2
<1>5. PushOK'
  <2> SUFFICES ASSUME NEW g \in Handlers, pc'[g] \in {"ingest", "extracted", "ingested"}
               PROVE  /\ ClosedIn(Commits, push[g].pack \union objects'[repo[g]])
                      /\ Tips(push[g].cmds) \subseteq push[g].pack \union objects'[repo[g]]
                      /\ pc'[g] = "ingested" => push[g].pack \subseteq objects'[repo[g]]
    BY <1>2 DEF PushOK
  <2>1. pc[g] \in {"ingest", "extracted", "ingested"} /\ repo[g] \in Ids
    BY <1>1, <1>2 DEF Handling
  <2>2. objects[repo[g]] \subseteq objects'[repo[g]] /\ ClosedIn(Commits, objects'[repo[g]])
    BY <2>1, <1>3, <1>4 DEF ObjectsClosed
  <2>3. ClosedIn(Commits, push[g].pack \union objects'[repo[g]])
    <3>1. ClosedIn(Commits, push[g].pack \union objects[repo[g]])
      BY <2>1 DEF PushOK
    <3> QED
      BY <2>2, <3>1 DEF ClosedIn
  <2>4. Tips(push[g].cmds) \subseteq push[g].pack \union objects'[repo[g]]
    BY <2>1, <2>2 DEF PushOK
  <2>5. pc'[g] = "ingested" => push[g].pack \subseteq objects'[repo[g]]
    BY <1>1, <1>2, <2>1, <2>2 DEF PushOK
  <2> QED
    BY <2>3, <2>4, <2>5
<1>6. BatchStored'
  <2> SUFFICES ASSUME NEW g \in Handlers, NEW k \in DOMAIN batch[g]
               PROVE  batch[g][k].new \in objects'[k[1]] \union {Null}
    BY <1>2 DEF BatchStored
  <2>1. k[1] \in Ids
    BY BatchFacts DEF Keys
  <2> QED
    BY <2>1, <1>3 DEF BatchStored
<1>7. RefsStored'
  BY <1>2, <1>3 DEF RefsStored, Keys
<1>8. CasOK'
  BY <1>2 DEF CasOK
<1> QED
  BY <1>4, <1>5, <1>6, <1>7, <1>8

\* Every step keeps what the store holds, and what a lock guarantees.
LEMMA StoreStep == SInv /\ [StoreNext]_storeVars => SInv'
<1> SUFFICES ASSUME SInv, [StoreNext]_storeVars PROVE SInv'
  OBVIOUS
<1>0. TInv' /\ TInv
  BY TypeStep DEF SInv
<1> USE DEF Goto
<1>1. ASSUME NEW h \in Handlers, Arrive(h) \/ Setup(h) \/ RollbackIngest(h) \/ CommitReturns(h)
               \/ CommitUnknown(h) \/ Fail(h)
      PROVE  SInv'
  <2>1. UNCHANGED <<refs, objects, batch, checked>>
    BY <1>1 DEF Arrive, Setup, RollbackIngest, CommitReturns, CommitUnknown, Fail, KvProbe,
         KvRecheck, KvLockCounter, KvAllocate, SqlInit, Open, OpenFails, BusyFails
  <2>2. \A g \in Handlers \ {h} : pc'[g] = pc[g] /\ repo'[g] = repo[g] /\ push'[g] = push[g]
    BY <1>1, <1>0 DEF TInv, StoreTypeOK, Arrive, Setup, RollbackIngest, CommitReturns,
         CommitUnknown, Fail, KvProbe, KvRecheck, KvLockCounter, KvAllocate, SqlInit, Open,
         OpenFails, BusyFails
  <2>3. pc'[h] \notin {"ingest", "extracted", "ingested"}
    BY <1>1, <1>0 DEF TInv, StoreTypeOK, Arrive, Setup, RollbackIngest, CommitReturns,
         CommitUnknown, Fail, KvProbe, KvRecheck, KvLockCounter, KvAllocate, SqlInit, Open,
         OpenFails, BusyFails
  <2> QED
    BY <1>0, <2>1, <2>2, <2>3, QuietStep
<1>2. ASSUME NEW h \in Handlers, pc[h] = "update", Abort(h) PROVE SInv'
  <2>1. \A g \in Handlers : checked'[g] \subseteq checked[g]
    BY <1>2, <1>0 DEF Abort, TInv, StoreTypeOK
  <2>2. /\ pc'[h] \notin {"ingest", "extracted", "ingested"}
        /\ \A g \in Handlers \ {h} : pc'[g] = pc[g] /\ repo'[g] = repo[g] /\ push'[g] = push[g]
    BY <1>2, <1>0 DEF Abort, TInv, StoreTypeOK
  <2>3. UNCHANGED <<refs, objects, batch>>
    BY <1>2 DEF Abort
  <2> QED
    BY <1>0, <2>1, <2>2, <2>3, QuietStep
<1>3. ASSUME NEW h \in Handlers, ReceivePush(h) PROVE SInv'
  <2>1. PICK p \in Pushes :
          /\ ClientCompletes(h, p)
          /\ push' = [push EXCEPT ![h] = p]
          /\ pc' = [pc EXCEPT ![h] = IF p.pack = {} THEN "ingested" ELSE "ingest"]
    BY <1>3 DEF ReceivePush
  <2>2. PushOK'
    <3>1. /\ push'[h] = p /\ pc'[h] \in {"ingest", "ingested"}
          /\ pc'[h] = "ingested" => p.pack = {}
          /\ \A g \in Handlers \ {h} : pc'[g] = pc[g] /\ push'[g] = push[g]
      BY <1>0, <2>1 DEF TInv, StoreTypeOK
    <3>2. UNCHANGED <<objects, repo>>
      BY <1>3 DEF ReceivePush
    <3> QED
      BY <2>1, <3>1, <3>2 DEF SInv, PushOK, ClientCompletes
  <2> QED
    BY <1>0, <1>3, <2>2
    DEF ReceivePush, SInv, ObjectsClosed, BatchStored, RefsStored, CasOK
<1>4. ASSUME NEW h \in Handlers, Ingest(h) PROVE SInv'
  <2>1. CASE KvExtract(h) \/ SqlExtract(h)
    <3>1. PushOK'
      BY <1>0, <2>1 DEF KvExtract, SqlExtract, SInv, PushOK, TInv, StoreTypeOK
    <3> QED
      BY <1>0, <2>1, <3>1
      DEF KvExtract, SqlExtract, SInv, ObjectsClosed, BatchStored, RefsStored, CasOK
  <2> QED
    BY <1>0, <1>4, <2>1, IngestStep DEF Ingest
<1>5. ASSUME NEW h \in Handlers, UpdateRefs(h) PROVE SInv'
  <2>1. repo[h] \in Ids /\ pc[h] = "ingested"
    BY <1>0, <1>5 DEF UpdateRefs, TInv, StoreTypeOK, Handling
  <2>2. Tips(push[h].cmds) \subseteq objects[repo[h]]
    BY <2>1 DEF SInv, PushOK
  <2>3. BatchStored'
    <3> SUFFICES ASSUME NEW g \in Handlers, NEW k \in DOMAIN batch'[g]
                 PROVE  batch'[g][k].new \in objects'[k[1]] \union {Null}
      BY DEF BatchStored
    <3>1. CASE g # h
      BY <1>0, <1>5, <3>1 DEF UpdateRefs, SInv, BatchStored, TInv, StoreTypeOK
    <3>2. CASE g = h
      <4>1. batch'[h] = [j \in {repo[h]} \X DOMAIN push[h].cmds |-> push[h].cmds[j[2]]]
        BY <1>0, <1>5 DEF UpdateRefs, TInv, StoreTypeOK
      <4>2. k[1] = repo[h] /\ k[2] \in DOMAIN push[h].cmds /\ batch'[h][k] = push[h].cmds[k[2]]
        BY <3>2, <4>1
      <4> QED
        BY <1>5, <2>2, <3>2, <4>2 DEF UpdateRefs, Tips
    <3> QED
      BY <3>1, <3>2
  <2>4. checked[h] = {}
    BY <1>0, <2>1, FreeAssumption DEF TInv, StoreTypeOK, CheckedLocked
  <2>5. CasOK'
    BY <1>0, <1>5, <2>4 DEF UpdateRefs, SInv, CasOK, TInv, StoreTypeOK
  <2>6. PushOK'
    <3>1. /\ pc'[h] = "update" /\ UNCHANGED objects
          /\ \A g \in Handlers \ {h} : pc'[g] = pc[g] /\ repo'[g] = repo[g] /\ push'[g] = push[g]
      BY <1>0, <1>5 DEF UpdateRefs, TInv, StoreTypeOK
    <3> QED
      BY <3>1, PushFrame DEF SInv
  <2>7. ObjectsClosed' /\ RefsStored'
    BY <1>5 DEF UpdateRefs, SInv, ObjectsClosed, RefsStored
  <2> QED
    BY <1>0, <2>3, <2>5, <2>6, <2>7 DEF SInv
<1>6. ASSUME NEW h \in Handlers, Commit(h) PROVE SInv'
  <2>1. checked[h] = DOMAIN batch[h] /\ DOMAIN batch[h] \subseteq Keys
    BY <1>0, <1>6, BatchFacts DEF Commit, ToDo, TInv, StoreTypeOK
  <2>2. RefsStored'
    BY <1>6 DEF Commit, Apply, SInv, RefsStored, BatchStored
  <2>3. CasOK'
    <3> SUFFICES ASSUME NEW g \in Handlers, NEW k \in checked'[g] PROVE refs'[k] = batch'[g][k].old
      BY DEF CasOK
    <3>1. g # h /\ k \in checked[g] /\ k \in Keys
      BY <1>0, <1>6 DEF Commit, TInv, StoreTypeOK
    <3>2. lock[k] = g /\ refs[k] = batch[g][k].old
      BY <1>0, <3>1 DEF SInv, CasOK, TInv, CheckedLocked
    <3>3. k \notin DOMAIN batch[h]
      BY <1>0, <2>1, <3>1, <3>2 DEF TInv, CheckedLocked
    <3> QED
      BY <1>6, <3>1, <3>2, <3>3 DEF Commit, Apply
  <2>4. PushOK' /\ ObjectsClosed' /\ BatchStored'
    BY <1>0, <1>6 DEF Commit, SInv, PushOK, ObjectsClosed, BatchStored, TInv, StoreTypeOK
  <2> QED
    BY <1>0, <2>2, <2>3, <2>4 DEF SInv
<1>7. ASSUME NEW h \in Handlers, NEW k \in Keys, KvCas(h, k) \/ SqlCas(h, k) PROVE SInv'
  <2>1. refs[k] = batch[h][k].old
    BY <1>7 DEF KvCas, SqlCas, KvCasOK, SqlCasOK
  <2>2. CasOK'
    BY <1>0, <1>7, <2>1 DEF KvCas, SqlCas, SInv, CasOK, TInv, StoreTypeOK
  <2> QED
    BY <1>0, <1>7, <2>2
    DEF KvCas, SqlCas, SInv, PushOK, ObjectsClosed, BatchStored, RefsStored
<1>8. ASSUME NEW h \in Handlers, NextRequest(h) PROVE SInv'
  <2>1. batch'[h] = EmptyBatch /\ \A g \in Handlers \ {h} : batch'[g] = batch[g]
    BY <1>0, <1>8 DEF NextRequest, TInv, StoreTypeOK
  <2>2. BatchStored'
    BY <1>8, <2>1, EmptyBatchFacts DEF NextRequest, SInv, BatchStored
  <2>3. checked[h] = {}
    BY <1>0, <1>8, FreeAssumption DEF NextRequest, TInv, StoreTypeOK, CheckedLocked
  <2>4. CasOK'
    BY <1>8, <2>1, <2>3 DEF NextRequest, SInv, CasOK
  <2>5. PushOK'
    <3>1. /\ pc'[h] = "idle" /\ UNCHANGED objects
          /\ \A g \in Handlers \ {h} : pc'[g] = pc[g] /\ repo'[g] = repo[g] /\ push'[g] = push[g]
      BY <1>0, <1>8 DEF NextRequest, TInv, StoreTypeOK
    <3> QED
      BY <3>1, PushFrame DEF SInv
  <2>6. ObjectsClosed' /\ RefsStored'
    BY <1>8 DEF NextRequest, SInv, ObjectsClosed, RefsStored
  <2> QED
    BY <1>0, <2>2, <2>4, <2>5, <2>6 DEF SInv
<1>9. CASE UNCHANGED storeVars
  BY <1>0, <1>9 DEF storeVars, SInv, PushOK, ObjectsClosed, BatchStored, RefsStored, CasOK
<1> QED
  BY <1>1, <1>2, <1>3, <1>4, <1>5, <1>6, <1>7, <1>8, <1>9
  DEF StoreNext, UpdateStep, UpdateFails, Stale, WaitFails

(***************************************************************************)
(* Theorems                                                                *)
(***************************************************************************)

\* What the store holds and what its locks guarantee, always.
THEOREM StoreInvariance == StoreSpec => []SInv
BY InitSInv, StoreStep, PTL DEF StoreSpec

\* The initial states are initial states of the contract.
LEMMA InitRefines == StoreInit => RS!Init
<1> SUFFICES ASSUME StoreInit PROVE RS!Init
  OBVIOUS
<1>1. refs \in [Keys -> RS!Value]
  BY DEF StoreInit, RS!Value
<1>2. PhaseOf = [c \in Handlers |-> "idle"]
  BY DEF StoreInit, PhaseOf
<1>3. batch = [c \in Handlers |-> RS!EmptyBatch]
  BY DEF StoreInit, EmptyBatch, RS!EmptyBatch
<1> QED
  BY <1>1, <1>2, <1>3 DEF RS!Init

\* Every step is a step of the contract or changes nothing in it: the commit
\* lands the batch, whose old values the locks have kept current.
LEMMA StepRefines ==
  ASSUME \A u \in Updates : WellFormed(u), SInv, [StoreNext]_storeVars
  PROVE  [RS!Next]_(RS!vars)
<1>0. TInv
  BY DEF SInv
<1> USE DEF Goto
<1>1. ASSUME NEW h \in Handlers, Arrive(h) \/ Setup(h) \/ ReceivePush(h) \/ Ingest(h)
               \/ RollbackIngest(h) \/ Fail(h)
      PROVE  UNCHANGED RS!vars
  <2>1. UNCHANGED <<refs, batch>>
    BY <1>1 DEF Arrive, Setup, ReceivePush, Ingest, RollbackIngest, Fail, KvProbe, KvRecheck,
         KvLockCounter, KvAllocate, SqlInit, Open, OpenFails, BusyFails, KvExtract, SqlExtract,
         KvIngest, SqlIngest
  <2>2. PhaseOf' = PhaseOf
    <3> DEFINE Away == Opening \union Handling \union {"idle"}
    <3>1. /\ pc[h] \in Away /\ pc'[h] \in Away
          /\ \A g \in Handlers \ {h} : pc'[g] = pc[g]
      BY <1>0, <1>1 DEF TInv, StoreTypeOK, Opening, Handling, Arrive, Setup, ReceivePush, Ingest,
           RollbackIngest, Fail, KvProbe, KvRecheck, KvLockCounter, KvAllocate, SqlInit, Open,
           OpenFails, BusyFails, KvExtract, SqlExtract, KvIngest, SqlIngest
    <3> QED
      BY <3>1 DEF PhaseOf, Opening, Handling
  <2> QED
    BY <2>1, <2>2 DEF RS!vars
<1>2. ASSUME NEW h \in Handlers, UpdateRefs(h) PROVE RS!Call(h)
  <2>1. pc[h] = "ingested" /\ pc' = [pc EXCEPT ![h] = "update"] /\ UNCHANGED refs
    BY <1>2 DEF UpdateRefs
  <2>2. PhaseOf[h] = "idle" /\ PhaseOf' = [PhaseOf EXCEPT ![h] = "pending"]
    BY <1>0, <2>1 DEF PhaseOf, TInv, StoreTypeOK
  <2>3. \E b \in RS!BatchOf(Updates) : batch' = [batch EXCEPT ![h] = b]
    <3>1. repo[h] \in Ids /\ push[h] \in Pushes \union {NoPush}
      BY <1>0, <2>1 DEF TInv, StoreTypeOK, Handling
    <3>2. [k \in {repo[h]} \X DOMAIN push[h].cmds |-> push[h].cmds[k[2]]] \in RS!BatchOf(Updates)
      BY <3>1, BatchOfPush DEF BatchOf, RS!BatchOf
    <3> QED
      BY <1>2, <3>2 DEF UpdateRefs
  <2> QED
    BY <2>1, <2>2, <2>3 DEF RS!Call
<1>3. ASSUME NEW h \in Handlers, Commit(h) PROVE RS!Land(h)
  <2>1. pc[h] = "update" /\ pc' = [pc EXCEPT ![h] = "committed"] /\ UNCHANGED batch
    BY <1>3 DEF Commit
  <2>2. PhaseOf[h] = "pending" /\ PhaseOf' = [PhaseOf EXCEPT ![h] = "applied"]
    BY <1>0, <2>1 DEF PhaseOf, TInv, StoreTypeOK
  <2>3. batch[h] \in BatchOf(Updates) /\ DOMAIN batch[h] \subseteq checked[h]
    BY <1>0, <1>3 DEF Commit, ToDo, TInv, StoreTypeOK
  <2>4. \A k \in DOMAIN batch[h] : RS!WellFormed(batch[h][k]) /\ refs[k] = batch[h][k].old
    <3>1. \A k \in DOMAIN batch[h] : batch[h][k] \in Updates
      BY <2>3 DEF BatchOf
    <3> QED
      BY <2>3, <3>1 DEF SInv, CasOK, WellFormed, RS!WellFormed
  <2>5. refs' = RS!Apply(refs, batch[h])
    BY <1>3 DEF Commit, Apply, RS!Apply
  <2> QED
    BY <2>1, <2>2, <2>4, <2>5 DEF RS!Land
<1>4. ASSUME NEW h \in Handlers, pc[h] = "update", Abort(h) PROVE RS!Reject(h)
  <2>1. PhaseOf[h] = "pending" /\ PhaseOf' = [PhaseOf EXCEPT ![h] = "err"]
    BY <1>0, <1>4 DEF Abort, PhaseOf, TInv, StoreTypeOK
  <2> QED
    BY <1>4, <2>1 DEF Abort, RS!Reject
<1>5. ASSUME NEW h \in Handlers, NEW k \in Keys, KvCas(h, k) \/ SqlCas(h, k)
      PROVE  UNCHANGED RS!vars
  BY <1>5 DEF KvCas, SqlCas, RS!vars, PhaseOf
<1>6. ASSUME NEW h \in Handlers, CommitReturns(h) PROVE RS!ReturnOk(h)
  <2>1. PhaseOf[h] = "applied" /\ PhaseOf' = [PhaseOf EXCEPT ![h] = "ok"]
    BY <1>0, <1>6 DEF CommitReturns, PhaseOf, TInv, StoreTypeOK
  <2> QED
    BY <1>6, <2>1 DEF CommitReturns, RS!ReturnOk
<1>7. ASSUME NEW h \in Handlers, CommitUnknown(h) PROVE RS!AnswerLost(h)
  <2>1. PhaseOf[h] = "applied" /\ PhaseOf' = [PhaseOf EXCEPT ![h] = "unknown"]
    BY <1>0, <1>7 DEF CommitUnknown, PhaseOf, TInv, StoreTypeOK
  <2> QED
    BY <1>7, <2>1 DEF CommitUnknown, RS!AnswerLost
<1>8. ASSUME NEW h \in Handlers, NextRequest(h) PROVE RS!NextRequest(h)
  <2>1. PhaseOf[h] \in {"ok", "err", "unknown"} /\ PhaseOf' = [PhaseOf EXCEPT ![h] = "idle"]
    BY <1>0, <1>8 DEF NextRequest, PhaseOf, TInv, StoreTypeOK
  <2> QED
    BY <1>8, <2>1 DEF NextRequest, EmptyBatch, RS!NextRequest, RS!EmptyBatch
<1>9. CASE UNCHANGED storeVars
  BY <1>9 DEF storeVars, RS!vars, PhaseOf
<1> QED
  BY <1>1, <1>2, <1>3, <1>4, <1>5, <1>6, <1>7, <1>8, <1>9
  DEF StoreNext, UpdateStep, UpdateFails, Stale, WaitFails, RS!Next

\* Over TiKV and over SQLite, with any number of concurrent requests and with
\* lock waits that time out, update_refs implements the all-or-nothing
\* compare-and-swap of the StorageBackend contract, as long as no command has
\* two null ids.
THEOREM Refinement ==
  ASSUME \A u \in Updates : WellFormed(u)
  PROVE  StoreSpec => RefStoreSpec
<1>1. SInv /\ [StoreNext]_storeVars => [RS!Next]_(RS!vars)
  BY StepRefines
<1> QED
  BY <1>1, InitRefines, StoreInvariance, PTL DEF StoreSpec, RefStoreSpec, RS!Spec

(***************************************************************************)
(* The backend inside the judged push                                      *)
(***************************************************************************)

\* A step of a judged push is a step of the backend, or none.
LEMMA StoreStepOf == [Next]_vars => [StoreNext]_storeVars
<1> SUFFICES ASSUME [Next]_vars PROVE [StoreNext]_storeVars
  OBVIOUS
<1>1. ASSUME NEW h \in Handlers, Judge(h) PROVE [StoreNext]_storeVars
  <2>1. CASE Accept(h) \/ Refuse(h)
    BY <2>1 DEF Accept, Refuse, StoreNext
  <2>2. CASE ~ (Accept(h) \/ Refuse(h))
    BY <1>1, <2>2 DEF Judge, KvListTips, SqlListTips, DeletedHasNone, NewCommits, KvExclude,
         SqlExclude, StartWalk, WalkStep, Show
  <2> QED
    BY <2>1, <2>2
<1>2. ASSUME NEW h \in Handlers, Serve(h) PROVE StoreNext
  BY <1>2 DEF Serve, StoreNext
<1>3. ASSUME NEW h \in Handlers, ListTipsFails(h) PROVE UNCHANGED storeVars
  BY <1>3 DEF ListTipsFails
<1>4. ASSUME NEW h \in Handlers,
             Fail(h) \/ Arrive(h) \/ ReceivePush(h) \/ CommitUnknown(h) \/ UpdateFails(h)
               \/ NextRequest(h)
      PROVE  StoreNext
  BY <1>4 DEF StoreNext
<1>5. CASE UNCHANGED vars
  BY <1>5 DEF vars
<1> QED
  BY <1>1, <1>2, <1>3, <1>4, <1>5 DEF Next, Work

\* A judged push uses its backend as DatabaseStore allows.
THEOREM BackendUsed == Spec => StoreSpec
BY StoreStepOf, PTL DEF Spec, Init, StoreSpec

\* Every ref points at a commit whose whole history is stored.
THEOREM RefsNeverDangle == Spec => []NoDanglingRefs
<1>1. SInv => NoDanglingRefs
  <2> SUFFICES ASSUME SInv, NEW k \in Keys, refs[k] # Null
               PROVE  Ancestors({refs[k]}) \subseteq objects[k[1]]
    BY DEF NoDanglingRefs
  <2>1. k[1] \in Ids /\ refs[k] \in objects[k[1]]
    BY DEF SInv, RefsStored, Keys
  <2>2. objects[k[1]] \in SUBSET Commits /\ ClosedIn(Commits, objects[k[1]])
    BY <2>1 DEF SInv, ObjectsClosed, TInv, StoreTypeOK
  <2> QED
    BY <2>1, <2>2, InClosed DEF Ancestors
<1> QED
  BY <1>1, BackendUsed, StoreInvariance, PTL

\* The compare-and-swap of the contract holds for judged pushes too.
THEOREM CompareAndSwap ==
  ASSUME \A u \in Updates : WellFormed(u)
  PROVE  Spec => RefStoreSpec
BY BackendUsed, Refinement, PTL

(***************************************************************************)
(* Shapes                                                                  *)
(***************************************************************************)

\* The judgement's own part of TypeOK.
JudgeTypeOK ==
  /\ stage \in [Handlers -> {"none", "judge", "exclude", "walk"}]
  /\ tips \in [Handlers -> SUBSET Commits]
  /\ judged \in [Handlers -> SUBSET Names]
  /\ current \in [Handlers -> Names \union {NoName}]
  /\ exclude \in [Handlers -> SUBSET Commits]
  /\ queue \in [Handlers -> SUBSET Commits]
  /\ found \in [Handlers -> SUBSET Commits]
  /\ shown \in [Handlers -> SUBSET Commits]
  /\ \A h \in Handlers : stage[h] # "none" => pc[h] = "ingested"

\* Commands that are or have been looked at are commands of the push.
JudgeShape ==
  \A h \in Handlers :
    /\ stage[h] # "none" => judged[h] \subseteq DOMAIN push[h].cmds
    /\ stage[h] \in {"exclude", "walk"} =>
         current[h] \in DOMAIN push[h].cmds /\ Command(h).new # Null
    /\ stage[h] = "none" => judged[h] = {}

\* What the judgement reads of the store.
LEMMA ReadTypes ==
  ASSUME SInv, JudgeTypeOK, JudgeShape, NEW h \in Handlers, pc[h] = "ingested"
  PROVE  /\ repo[h] \in Ids
         /\ Stored(h) \in SUBSET Commits
         /\ ClosedIn(Commits, Stored(h))
         /\ Tips(push[h].cmds) \subseteq Stored(h)
         /\ OtherTips(h) \subseteq Stored(h)
         /\ \A c \in Stored(h) : FetchParents(h, c) = Parents[c]
         /\ \A c \in Commits : FetchParents(h, c) \subseteq Commits
         /\ Excluding(h) \subseteq tips[h] \union Tips(push[h].cmds)
         /\ stage[h] \in {"exclude", "walk"} => Command(h).new \in Stored(h)
         /\ push[h] \in Pushes \union {NoPush}
<1>1. repo[h] \in Ids /\ push[h] \in Pushes \union {NoPush}
  BY DEF SInv, TInv, StoreTypeOK, Handling
<1>2. Stored(h) \in SUBSET Commits /\ ClosedIn(Commits, Stored(h))
  BY <1>1 DEF SInv, TInv, StoreTypeOK, ObjectsClosed, Stored
<1>3. Tips(push[h].cmds) \subseteq Stored(h)
  BY DEF SInv, PushOK, Stored
<1>4. OtherTips(h) \subseteq Stored(h)
  BY <1>1 DEF SInv, RefsStored, OtherTips, Keys, Stored
<1>5. /\ \A c \in Stored(h) : FetchParents(h, c) = Parents[c]
      /\ \A c \in Commits : FetchParents(h, c) \subseteq Commits
  BY ParentsAssumption DEF FetchParents
<1>6. Excluding(h) \subseteq tips[h] \union Tips(push[h].cmds)
  BY DEF Excluding, Tips, JudgeShape, JudgeTypeOK
<1>7. stage[h] \in {"exclude", "walk"} => Command(h).new \in Stored(h)
  BY <1>3 DEF Command, Tips, JudgeShape
<1> QED
  BY <1>1, <1>2, <1>3, <1>4, <1>5, <1>6, <1>7

\* Requests other than the one that takes a step keep what they have, and no
\* object is lost.
LEMMA StoreFrame ==
  ASSUME SInv, NEW h \in Handlers,
         Serve(h) \/ Arrive(h) \/ ReceivePush(h) \/ CommitUnknown(h) \/ UpdateFails(h)
           \/ NextRequest(h) \/ Fail(h) \/ UpdateRefs(h) \/ RollbackIngest(h)
  PROVE  /\ \A g \in Handlers \ {h} : pc'[g] = pc[g] /\ repo'[g] = repo[g] /\ push'[g] = push[g]
         /\ \A i \in Ids : objects[i] \subseteq objects'[i]
<1> USE DEF SInv, TInv, StoreTypeOK, Goto
<1>1. CASE Setup(h) \/ Arrive(h) \/ ReceivePush(h) \/ CommitUnknown(h) \/ NextRequest(h)
             \/ RollbackIngest(h)
  BY <1>1 DEF Setup, Arrive, ReceivePush, CommitUnknown, NextRequest, RollbackIngest, KvProbe,
       KvRecheck, KvLockCounter, KvAllocate, SqlInit, Open, OpenFails, BusyFails, Fail
<1>2. CASE Ingest(h)
  BY <1>2 DEF Ingest, KvExtract, SqlExtract, KvIngest, SqlIngest
<1>3. CASE UpdateStep(h) \/ UpdateFails(h)
  BY <1>3 DEF UpdateStep, UpdateFails, Commit, CommitReturns, KvCas, SqlCas, Stale, WaitFails, Abort
<1>4. CASE Fail(h) \/ UpdateRefs(h)
  BY <1>4 DEF Fail, UpdateRefs
<1> QED
  BY <1>1, <1>2, <1>3, <1>4 DEF Serve

\* A request takes none of its other steps while its push is judged.
LEMMA NotWhileJudged ==
  ASSUME NEW h \in Handlers,
         Serve(h) \/ Arrive(h) \/ ReceivePush(h) \/ CommitUnknown(h) \/ UpdateFails(h)
           \/ NextRequest(h)
  PROVE  pc[h] # "ingested"
<1>1. CASE Setup(h) \/ Arrive(h) \/ ReceivePush(h) \/ CommitUnknown(h) \/ NextRequest(h)
  BY <1>1 DEF Setup, Arrive, ReceivePush, CommitUnknown, NextRequest, KvProbe,
       KvRecheck, KvLockCounter, KvAllocate, SqlInit, Open, OpenFails, BusyFails
<1>2. CASE Ingest(h) \/ UpdateStep(h) \/ UpdateFails(h)
  BY <1>2 DEF Ingest, KvExtract, SqlExtract, KvIngest, SqlIngest, UpdateStep, UpdateFails, Commit,
       CommitReturns, KvCas, SqlCas, Stale, WaitFails
<1> QED
  BY <1>1, <1>2 DEF Serve

\* Nobody is judged.
LEMMA InitJudgeType == Init => JudgeTypeOK /\ JudgeShape
BY DEF Init, JudgeTypeOK, JudgeShape

\* Forgetting a judgement keeps the shapes.
LEMMA ForgetType ==
  ASSUME SInv, JudgeTypeOK, NEW h \in Handlers, Forget(h),
         UpdateRefs(h) \/ RollbackIngest(h) \/ Fail(h)
  PROVE  JudgeTypeOK'
<1>1. \A g \in Handlers \ {h} : pc'[g] = pc[g]
  BY StoreFrame
<1> QED
  BY <1>1 DEF Forget, JudgeTypeOK

\* Every step keeps the shapes.
LEMMA JudgeTypeStep == SInv /\ JudgeTypeOK /\ JudgeShape /\ [Next]_vars => JudgeTypeOK'
<1> SUFFICES ASSUME SInv, JudgeTypeOK, JudgeShape, [Next]_vars PROVE JudgeTypeOK'
  OBVIOUS
<1> USE DEF Enter
<1>1. ASSUME NEW h \in Handlers, Judge(h) PROVE JudgeTypeOK'
  <2>1. CASE Accept(h) \/ Refuse(h)
    BY <2>1, ForgetType DEF Accept, Refuse
  <2>2. CASE KvListTips(h) \/ SqlListTips(h)
    BY <2>2, ReadTypes DEF KvListTips, SqlListTips, JudgeTypeOK, storeVars
  <2>3. ASSUME NEW n \in Names, DeletedHasNone(h, n) PROVE JudgeTypeOK'
    BY <2>3 DEF DeletedHasNone, JudgeTypeOK, storeVars
  <2>4. ASSUME NEW n \in Names, NewCommits(h, n) PROVE JudgeTypeOK'
    <3>1. pc[h] = "ingested"
      BY <2>4 DEF NewCommits, JudgeTypeOK
    <3>2. Excluding(h) \subseteq Commits
      BY <3>1, ReadTypes DEF JudgeTypeOK
    <3> QED
      BY <2>4, <3>1, <3>2 DEF NewCommits, JudgeTypeOK, storeVars
  <2>5. CASE KvExclude(h)
    BY <2>5, ReadTypes DEF KvExclude, JudgeTypeOK, storeVars
  <2>6. CASE SqlExclude(h)
    BY <2>6 DEF SqlExclude, JudgeTypeOK, storeVars, AncestorsIn
  <2>7. CASE StartWalk(h)
    <3>1. Command(h).new \in Commits
      BY <2>7, ReadTypes DEF StartWalk, JudgeTypeOK
    <3> QED
      BY <2>7, <3>1 DEF StartWalk, JudgeTypeOK, storeVars
  <2>8. CASE WalkStep(h)
    BY <2>8, ReadTypes DEF WalkStep, JudgeTypeOK, storeVars
  <2>9. CASE Show(h)
    <3>1. current[h] \in Names
      BY <2>9, ReadTypes, PushFacts DEF Show, JudgeTypeOK, JudgeShape
    <3> QED
      BY <2>9, <3>1 DEF Show, JudgeTypeOK, storeVars
  <2> QED
    BY <1>1, <2>1, <2>2, <2>3, <2>4, <2>5, <2>6, <2>7, <2>8, <2>9 DEF Judge
<1>2. ASSUME NEW h \in Handlers,
             Serve(h) \/ Arrive(h) \/ ReceivePush(h) \/ CommitUnknown(h) \/ UpdateFails(h)
               \/ NextRequest(h),
             UNCHANGED judgeVars
      PROVE  JudgeTypeOK'
  <2>1. pc[h] # "ingested" /\ \A g \in Handlers \ {h} : pc'[g] = pc[g]
    BY <1>2, StoreFrame, NotWhileJudged
  <2> QED
    BY <1>2, <2>1 DEF judgeVars, JudgeTypeOK
<1>3. ASSUME NEW h \in Handlers, ListTipsFails(h) PROVE JudgeTypeOK'
  BY <1>3 DEF ListTipsFails, JudgeTypeOK, storeVars
<1>4. ASSUME NEW h \in Handlers, Fail(h), Forget(h) PROVE JudgeTypeOK'
  BY <1>4, ForgetType
<1>5. CASE UNCHANGED vars
  BY <1>5 DEF vars, storeVars, judgeVars, JudgeTypeOK
<1> QED
  BY <1>1, <1>2, <1>3, <1>4, <1>5 DEF Next, Work

(***************************************************************************)
(* The judgement                                                           *)
(***************************************************************************)

\* Commits the forge may have under a ref.
Good == HistoryIn(Trusted)

\* Before the judgement nothing has been seen; during it the tips are good and
\* what the commands seen so far bring has been shown.
SeenOK(h) ==
  /\ stage[h] = "none" => tips[h] = {} /\ shown[h] = {}
  /\ stage[h] \in {"none", "judge", "exclude"} => found[h] = {}
  /\ stage[h] # "none" => tips[h] \subseteq Stored(h) \intersect Good
  /\ stage[h] # "none" =>
       \A e \in judged[h] :
         push[h].cmds[e].new # Null =>
           Ancestors({push[h].cmds[e].new}) \subseteq Good \union shown[h]

\* The exclude set grows from the excluded tips towards their history.
ExcludeOK(h) ==
  stage[h] = "exclude" =>
    /\ Excluding(h) \subseteq exclude[h]
    /\ exclude[h] \subseteq Ancestors(Excluding(h))
    /\ \A c \in exclude[h] \ queue[h] : Parents[c] \subseteq exclude[h]
    /\ queue[h] \subseteq exclude[h]

\* The walk has found what it has passed, and knows what is left.
WalkOK(h) ==
  stage[h] = "walk" =>
    /\ exclude[h] = Ancestors(Excluding(h))
    /\ Command(h).new \in exclude[h] \union queue[h] \union found[h]
    /\ queue[h] \union found[h] \subseteq Ancestors({Command(h).new}) \ exclude[h]
    /\ \A c \in found[h] : Parents[c] \subseteq exclude[h] \union queue[h] \union found[h]

JudgeOK(h) == SeenOK(h) /\ ExcludeOK(h) /\ WalkOK(h)

\* Refs, and the batches that have passed the judgement, are good.
RefsGood == \A k \in Keys : refs[k] \in Good \union {Null}

BatchGood ==
  \A h \in Handlers : \A k \in DOMAIN batch[h] : batch[h][k].new \in Good \union {Null}

JInv ==
  /\ SInv /\ JudgeTypeOK /\ JudgeShape
  /\ RefsGood /\ BatchGood
  /\ \A h \in Handlers : JudgeOK(h)

\* A walk that has come to its end has found exactly what is new.
LEMMA WalkEnd ==
  ASSUME JInv, NEW h \in Handlers, stage[h] = "walk", queue[h] = {}
  PROVE  /\ Ancestors({Command(h).new}) \subseteq Ancestors(Excluding(h)) \union found[h]
         /\ found[h] = Ancestors({Command(h).new}) \ Ancestors(Excluding(h))
<1>1. WalkOK(h) /\ JudgeTypeOK /\ pc[h] = "ingested"
  BY DEF JInv, JudgeOK, JudgeTypeOK
<1>2. /\ Command(h).new \in Commits /\ Excluding(h) \subseteq Commits
  BY <1>1, ReadTypes DEF JInv, JudgeTypeOK
<1> DEFINE E == Ancestors(Excluding(h))
           F == found[h]
<1>3. E \in SUBSET Commits /\ ClosedIn(Commits, E) /\ F \in SUBSET Commits
  BY <1>1, <1>2, HistoryIsClosed DEF JudgeTypeOK
<1>4. ClosedIn(Commits, E \union F)
  BY <1>1, <1>3 DEF WalkOK, ClosedIn
<1>5. Ancestors({Command(h).new}) \subseteq E \union F
  <2>1. {Command(h).new} \subseteq E \union F /\ E \union F \in SUBSET Commits
    BY <1>1, <1>3 DEF WalkOK
  <2> QED
    BY <1>4, <2>1, InClosed DEF Ancestors
<1>6. F \subseteq Ancestors({Command(h).new}) \ E
  BY <1>1 DEF WalkOK
<1> QED
  BY <1>5, <1>6

\* What is excluded is good, or has been shown.
LEMMA ExcludedSeen ==
  ASSUME JInv, NEW h \in Handlers, stage[h] # "none"
  PROVE  /\ Ancestors(Excluding(h)) \subseteq Good \union shown[h]
         /\ Ancestors(Excluding(h)) \subseteq Stored(h)
         /\ Excluding(h) \subseteq Stored(h)
<1>1. SeenOK(h) /\ pc[h] = "ingested" /\ judged[h] \subseteq DOMAIN push[h].cmds
  BY DEF JInv, JudgeOK, JudgeTypeOK, JudgeShape
<1>2. Excluding(h) \subseteq Stored(h) /\ Stored(h) \in SUBSET Commits /\ ClosedIn(Commits, Stored(h))
  BY <1>1, ReadTypes DEF JInv, SeenOK
<1>3. Ancestors(Excluding(h)) \subseteq Stored(h)
  BY <1>2, InClosed DEF Ancestors
<1> DEFINE T == Good \union shown[h]
<1>4. \A c \in Excluding(h) : Ancestors({c}) \subseteq T
  <2> SUFFICES ASSUME NEW c \in Excluding(h) PROVE Ancestors({c}) \subseteq T
    OBVIOUS
  <2>1. CASE c \in tips[h]
    <3>1. {c} \in SUBSET Good
      BY <1>1, <2>1 DEF SeenOK
    <3> QED
      BY <3>1, HistoriesClosed DEF Good
  <2>2. CASE c \notin tips[h]
    BY <1>1, <2>2 DEF Excluding, SeenOK
  <2> QED
    BY <2>1, <2>2
<1>5. Excluding(h) \in SUBSET HistoryIn(T)
  BY <1>2, <1>4 DEF HistoryIn
<1>6. Ancestors(Excluding(h)) \subseteq HistoryIn(T) /\ HistoryIn(T) \subseteq T
  BY <1>5, HistoriesClosed
<1> QED
  BY <1>2, <1>3, <1>6

\* The judgement of a request is not disturbed by what others do: commits do
\* not leave the store.
LEMMA Undisturbed ==
  ASSUME JInv, NEW g \in Handlers,
         \A i \in Ids : objects[i] \subseteq objects'[i],
         stage'[g] = stage[g], tips'[g] = tips[g], judged'[g] = judged[g],
         current'[g] = current[g], exclude'[g] = exclude[g], queue'[g] = queue[g],
         found'[g] = found[g], shown'[g] = shown[g],
         stage[g] # "none" => repo'[g] = repo[g] /\ push'[g] = push[g]
  PROVE  JudgeOK(g)'
<1>1. JudgeOK(g)
  BY DEF JInv
<1>2. CASE stage[g] = "none"
  BY <1>1, <1>2 DEF JudgeOK, SeenOK, ExcludeOK, WalkOK
<1>3. CASE stage[g] # "none"
  <2>1. repo'[g] = repo[g] /\ push'[g] = push[g] /\ repo[g] \in Ids
    BY <1>3, ReadTypes DEF JInv, JudgeTypeOK
  <2>2. Excluding(g)' = Excluding(g) /\ Command(g)' = Command(g)
    BY <2>1 DEF Excluding, Command
  <2>3. Stored(g) \subseteq Stored(g)'
    BY <2>1 DEF Stored
  <2>4. SeenOK(g)'
    BY <1>1, <2>1, <2>3 DEF JudgeOK, SeenOK
  <2>5. ExcludeOK(g)' /\ WalkOK(g)'
    BY <1>1, <2>2 DEF JudgeOK, ExcludeOK, WalkOK
  <2> QED
    BY <2>4, <2>5 DEF JudgeOK
<1> QED
  BY <1>2, <1>3

\* A judgement that is forgotten leaves nothing to be asked.
LEMMA Forgotten ==
  ASSUME JInv, NEW h \in Handlers, Forget(h),
         UpdateRefs(h) \/ RollbackIngest(h) \/ Fail(h)
  PROVE  JudgeShape' /\ \A g \in Handlers : JudgeOK(g)'
<1>1. /\ \A g \in Handlers \ {h} : pc'[g] = pc[g] /\ repo'[g] = repo[g] /\ push'[g] = push[g]
      /\ \A i \in Ids : objects[i] \subseteq objects'[i]
  BY StoreFrame DEF JInv
<1>2. /\ stage'[h] = "none" /\ tips'[h] = {} /\ judged'[h] = {} /\ found'[h] = {} /\ shown'[h] = {}
      /\ \A g \in Handlers \ {h} :
           /\ stage'[g] = stage[g] /\ tips'[g] = tips[g] /\ judged'[g] = judged[g]
           /\ current'[g] = current[g] /\ exclude'[g] = exclude[g] /\ queue'[g] = queue[g]
           /\ found'[g] = found[g] /\ shown'[g] = shown[g]
  BY DEF Forget, JInv, JudgeTypeOK
<1>3. JudgeShape'
  BY <1>1, <1>2 DEF JInv, JudgeShape, Command
<1>4. JudgeOK(h)'
  BY <1>2 DEF JudgeOK, SeenOK, ExcludeOK, WalkOK
<1>5. ASSUME NEW g \in Handlers \ {h} PROVE JudgeOK(g)'
  BY <1>1, <1>2, <1>5, Undisturbed
<1> QED
  BY <1>3, <1>4, <1>5

\* Every step of a judgement keeps what it has established.
LEMMA JudgeStep ==
  ASSUME JInv, NEW h \in Handlers, UNCHANGED storeVars,
         KvListTips(h) \/ SqlListTips(h) \/ ListTipsFails(h)
           \/ (\E n \in Names : DeletedHasNone(h, n) \/ NewCommits(h, n))
           \/ KvExclude(h) \/ SqlExclude(h) \/ StartWalk(h) \/ WalkStep(h) \/ Show(h)
  PROVE  JudgeShape' /\ JudgeOK(h)'
<1>0. pc[h] = "ingested" /\ UNCHANGED <<refs, objects, repo, push>>
  BY DEF storeVars, KvListTips, SqlListTips, ListTipsFails, DeletedHasNone, NewCommits, KvExclude,
       SqlExclude, StartWalk, WalkStep, Show, JInv, JudgeTypeOK
<1>s. Stored(h)' = Stored(h)
  BY <1>0 DEF Stored
<1>j. JudgeTypeOK /\ JudgeShape /\ SeenOK(h) /\ ExcludeOK(h) /\ WalkOK(h)
  BY DEF JInv, JudgeOK
<1>r. /\ Stored(h) \in SUBSET Commits /\ ClosedIn(Commits, Stored(h))
      /\ OtherTips(h) \subseteq Stored(h)
      /\ \A c \in Stored(h) : FetchParents(h, c) = Parents[c]
      /\ stage[h] \in {"exclude", "walk"} => Command(h).new \in Stored(h)
  BY <1>0, <1>j, ReadTypes DEF JInv
<1> USE DEF Enter
<1>1. CASE KvListTips(h) \/ SqlListTips(h) \/ ListTipsFails(h)
  <2>1. OtherTips(h) \subseteq Good
    <3>1. repo[h] \in Ids
      BY <1>0, ReadTypes DEF JInv
    <3> QED
      BY <3>1 DEF JInv, RefsGood, OtherTips, Keys
  <2>2. /\ stage[h] = "none" /\ stage'[h] = "judge" /\ judged'[h] = judged[h]
        /\ tips'[h] \in {OtherTips(h), tips[h]}
        /\ found' = found /\ shown' = shown
        /\ \A g \in Handlers \ {h} : stage'[g] = stage[g]
        /\ UNCHANGED <<judged, current>>
    BY <1>1, <1>j DEF KvListTips, SqlListTips, ListTipsFails, JudgeTypeOK
  <2>3. JudgeShape'
    BY <1>0, <1>j, <2>2 DEF JudgeShape, Command
  <2>4. SeenOK(h)'
    BY <1>s, <1>j, <1>r, <2>1, <2>2 DEF SeenOK, JudgeShape
  <2> QED
    BY <2>2, <2>3, <2>4 DEF JudgeOK, ExcludeOK, WalkOK
<1>2. ASSUME NEW n \in Names, DeletedHasNone(h, n) PROVE JudgeShape' /\ JudgeOK(h)'
  <2>1. /\ stage' = stage /\ stage[h] = "judge" /\ n \in DOMAIN push[h].cmds
        /\ judged' = [judged EXCEPT ![h] = @ \union {n}]
        /\ push[h].cmds[n].new = Null
        /\ UNCHANGED <<tips, current, found, shown>>
    BY <1>2 DEF DeletedHasNone
  <2>2. JudgeShape'
    BY <1>0, <1>j, <2>1 DEF JudgeShape, JudgeTypeOK, Command
  <2>3. SeenOK(h)'
    BY <1>0, <1>s, <1>j, <2>1 DEF SeenOK, JudgeTypeOK
  <2> QED
    BY <2>1, <2>2, <2>3 DEF JudgeOK, ExcludeOK, WalkOK
<1>3. ASSUME NEW n \in Names, NewCommits(h, n) PROVE JudgeShape' /\ JudgeOK(h)'
  <2>1. /\ stage[h] = "judge" /\ stage' = [stage EXCEPT ![h] = "exclude"]
        /\ n \in DOMAIN push[h].cmds /\ push[h].cmds[n].new # Null
        /\ current' = [current EXCEPT ![h] = n]
        /\ queue'[h] = Excluding(h) /\ exclude'[h] = Excluding(h)
        /\ UNCHANGED <<tips, judged, found, shown>>
    BY <1>3, <1>j DEF NewCommits, JudgeTypeOK
  <2>2. JudgeShape'
    BY <1>0, <1>j, <2>1 DEF JudgeShape, JudgeTypeOK, Command
  <2>3. SeenOK(h)'
    BY <1>0, <1>s, <1>j, <2>1 DEF SeenOK, JudgeTypeOK
  <2>4. Excluding(h)' = Excluding(h)
    BY <1>0, <2>1 DEF Excluding
  <2>5. Excluding(h) \subseteq Ancestors(Excluding(h))
    BY <1>r, <2>1, ExcludedSeen, HistoryIsClosed
  <2>6. ExcludeOK(h)'
    BY <2>1, <2>4, <2>5 DEF ExcludeOK
  <2> QED
    BY <1>j, <2>1, <2>2, <2>3, <2>6 DEF JudgeOK, WalkOK, JudgeTypeOK
<1>4. CASE KvExclude(h) \/ SqlExclude(h)
  <2>1. /\ stage[h] = "exclude" /\ UNCHANGED <<stage, tips, judged, current, found, shown>>
    BY <1>4 DEF KvExclude, SqlExclude
  <2>2. JudgeShape'
    BY <1>0, <1>j, <2>1 DEF JudgeShape, Command
  <2>3. SeenOK(h)'
    BY <1>0, <1>s, <1>j, <2>1 DEF SeenOK
  <2>4. Excluding(h)' = Excluding(h)
    BY <1>0, <2>1 DEF Excluding
  <2> DEFINE E == Ancestors(Excluding(h))
  <2>5. E \subseteq Stored(h) /\ E \in SUBSET Commits /\ ClosedIn(Commits, E)
    BY <1>r, <2>1, ExcludedSeen, HistoryIsClosed
  <2>6. PICK c \in queue[h] :
          /\ exclude'[h] = exclude[h] \union (exclude'[h] \ exclude[h])
          /\ exclude'[h] \subseteq E
          /\ queue'[h] \subseteq exclude'[h]
          /\ queue[h] \ {c} \subseteq queue'[h]
          /\ \A d \in exclude'[h] \ queue'[h] : Parents[d] \subseteq exclude'[h]
    <3>1. CASE KvExclude(h)
      <4>1. PICK c \in queue[h] :
              /\ exclude'[h] = exclude[h] \union (FetchParents(h, c) \ exclude[h])
              /\ queue'[h] = (queue[h] \ {c}) \union (FetchParents(h, c) \ exclude[h])
        BY <3>1, <1>j DEF KvExclude, JudgeTypeOK
      <4>2. c \in E /\ FetchParents(h, c) = Parents[c]
        BY <1>j, <1>r, <2>1, <2>5 DEF ExcludeOK
      <4>3. Parents[c] \subseteq E
        BY <2>5, <4>2 DEF ClosedIn
      <4>4. exclude'[h] \subseteq E /\ queue'[h] \subseteq exclude'[h]
        BY <1>j, <2>1, <4>1, <4>2, <4>3 DEF ExcludeOK
      <4>5. \A d \in exclude'[h] \ queue'[h] : Parents[d] \subseteq exclude'[h]
        BY <1>j, <2>1, <4>1, <4>2 DEF ExcludeOK
      <4> QED
        BY <4>1, <4>4, <4>5
    <3>2. CASE SqlExclude(h)
      <4>1. PICK c \in queue[h] :
              /\ exclude'[h] = exclude[h] \union AncestorsIn(Stored(h), {c})
              /\ queue'[h] = queue[h] \ {c}
        BY <3>2, <1>j DEF SqlExclude, JudgeTypeOK
      <4>2. c \in E /\ c \in Stored(h)
        BY <1>j, <2>1, <2>5 DEF ExcludeOK
      <4>3. AncestorsIn(Stored(h), {c}) = Ancestors({c})
        BY <1>r, <4>2, QueryIsHistory
      <4>4. /\ c \in Ancestors({c}) /\ ClosedIn(Commits, Ancestors({c}))
            /\ Ancestors({c}) \subseteq Commits
        BY <1>r, <4>2, HistoryIsClosed
      <4>5. Ancestors({c}) \subseteq E
        BY <2>5, <4>2, InClosed DEF Ancestors
      <4>6. exclude'[h] \subseteq E /\ queue'[h] \subseteq exclude'[h]
        BY <1>j, <2>1, <4>1, <4>3, <4>5 DEF ExcludeOK
      <4>7. \A d \in exclude'[h] \ queue'[h] : Parents[d] \subseteq exclude'[h]
        BY <1>j, <2>1, <4>1, <4>3, <4>4 DEF ExcludeOK, ClosedIn
      <4> QED
        BY <4>1, <4>6, <4>7
    <3> QED
      BY <1>4, <3>1, <3>2
  <2>7. ExcludeOK(h)'
    BY <1>j, <2>1, <2>4, <2>6 DEF ExcludeOK
  <2> QED
    BY <2>1, <2>2, <2>3, <2>7 DEF JudgeOK, WalkOK
<1>5. CASE StartWalk(h)
  <2>1. /\ stage[h] = "exclude" /\ queue[h] = {} /\ stage' = [stage EXCEPT ![h] = "walk"]
        /\ queue'[h] = {Command(h).new} \ exclude[h]
        /\ UNCHANGED <<tips, judged, current, exclude, found, shown>>
    BY <1>5, <1>j DEF StartWalk, JudgeTypeOK
  <2>2. JudgeShape'
    BY <1>0, <1>j, <2>1 DEF JudgeShape, JudgeTypeOK, Command
  <2>3. SeenOK(h)'
    BY <1>0, <1>s, <1>j, <2>1 DEF SeenOK, JudgeTypeOK
  <2>4. Excluding(h)' = Excluding(h) /\ Command(h)' = Command(h)
    BY <1>0, <2>1 DEF Excluding, Command
  <2>5. exclude[h] = Ancestors(Excluding(h))
    <3>1. ClosedIn(Commits, exclude[h]) /\ exclude[h] \in SUBSET Commits
      BY <1>j, <2>1 DEF ExcludeOK, ClosedIn, JudgeTypeOK
    <3> QED
      BY <1>j, <2>1, <3>1, InClosed DEF ExcludeOK, Ancestors
  <2>6. Command(h).new \in Ancestors({Command(h).new})
    BY <1>r, <2>1, HistoryIsClosed
  <2>7. found[h] = {}
    BY <1>j, <2>1 DEF SeenOK
  <2>8. stage'[h] = "walk"
    BY <1>j, <2>1 DEF JudgeTypeOK
  <2>9. WalkOK(h)'
    BY <2>1, <2>4, <2>5, <2>6, <2>7 DEF WalkOK
  <2> QED
    BY <2>2, <2>3, <2>8, <2>9 DEF JudgeOK, ExcludeOK
<1>6. CASE WalkStep(h)
  <2>1. PICK c \in queue[h] :
          /\ found'[h] = found[h] \union {c}
          /\ queue'[h] = (queue[h] \ {c}) \union
               (FetchParents(h, c) \ (exclude[h] \union queue[h] \union found[h]))
    BY <1>6, <1>j DEF WalkStep, JudgeTypeOK
  <2>2. stage[h] = "walk" /\ UNCHANGED <<stage, tips, judged, current, exclude, shown>>
    BY <1>6 DEF WalkStep
  <2>3. JudgeShape'
    BY <1>0, <1>j, <2>2 DEF JudgeShape, Command
  <2>4. SeenOK(h)'
    BY <1>0, <1>s, <1>j, <2>2 DEF SeenOK
  <2>5. Excluding(h)' = Excluding(h) /\ Command(h)' = Command(h)
    BY <1>0, <2>2 DEF Excluding, Command
  <2> DEFINE H == Ancestors({Command(h).new})
  <2>6. H \subseteq Stored(h) /\ ClosedIn(Commits, H) /\ H \subseteq Commits
    BY <1>r, <2>2, InClosed, HistoryIsClosed DEF Ancestors
  <2>7. c \in H /\ FetchParents(h, c) = Parents[c] /\ c \notin exclude[h]
    BY <1>j, <1>r, <2>2, <2>6 DEF WalkOK
  <2>8. Parents[c] \subseteq H
    BY <2>6, <2>7 DEF ClosedIn
  <2>9. queue'[h] \union found'[h] \subseteq H \ exclude[h]
    BY <1>j, <2>1, <2>2, <2>7, <2>8 DEF WalkOK
  <2>10. \A d \in found'[h] : Parents[d] \subseteq exclude[h] \union queue'[h] \union found'[h]
    BY <1>j, <2>1, <2>2, <2>7 DEF WalkOK
  <2>11. Command(h).new \in exclude[h] \union queue'[h] \union found'[h]
    BY <1>j, <2>1, <2>2 DEF WalkOK
  <2>12. WalkOK(h)'
    BY <1>j, <2>2, <2>5, <2>9, <2>10, <2>11 DEF WalkOK
  <2> QED
    BY <2>2, <2>3, <2>4, <2>12 DEF JudgeOK, ExcludeOK
<1>7. CASE Show(h)
  <2>1. /\ stage[h] = "walk" /\ queue[h] = {} /\ stage' = [stage EXCEPT ![h] = "judge"]
        /\ shown'[h] = shown[h] \union found[h]
        /\ judged' = [judged EXCEPT ![h] = @ \union {current[h]}]
        /\ found'[h] = {} /\ UNCHANGED <<tips, current>>
    BY <1>7, <1>j DEF Show, JudgeTypeOK
  <2>2. JudgeShape'
    BY <1>0, <1>j, <2>1 DEF JudgeShape, JudgeTypeOK, Command
  <2>3. Ancestors({Command(h).new}) \subseteq Good \union shown'[h]
    BY <2>1, WalkEnd, ExcludedSeen
  <2>4. SeenOK(h)'
    <3>1. \A e \in judged'[h] :
            push[h].cmds[e].new # Null =>
              Ancestors({push[h].cmds[e].new}) \subseteq Good \union shown'[h]
      BY <1>j, <2>1, <2>3 DEF SeenOK, JudgeTypeOK, Command
    <3> QED
      BY <1>0, <1>s, <1>j, <2>1, <3>1 DEF SeenOK, JudgeTypeOK
  <2> QED
    BY <1>j, <2>1, <2>2, <2>4 DEF JudgeOK, ExcludeOK, WalkOK, JudgeTypeOK
<1> QED
  BY <1>1, <1>2, <1>3, <1>4, <1>5, <1>6, <1>7

(***************************************************************************)
(* Refs and batches                                                        *)
(***************************************************************************)

\* A push that passes the judgement asks for good commits only.
LEMMA AcceptedGood ==
  ASSUME JInv, NEW h \in Handlers, Accept(h)
  PROVE  BatchGood' /\ RefsGood'
<1>1. /\ stage[h] = "judge" /\ judged[h] = DOMAIN push[h].cmds /\ shown[h] \subseteq Trusted
      /\ UNCHANGED refs
      /\ batch' = [batch EXCEPT ![h] =
           [k \in {repo[h]} \X DOMAIN push[h].cmds |-> push[h].cmds[k[2]]]]
  BY DEF Accept, Seen, UpdateRefs
<1>2. SeenOK(h) /\ pc[h] = "ingested" /\ batch \in [Handlers -> BatchOf(Updates)]
  BY <1>1 DEF JInv, JudgeOK, JudgeTypeOK, SInv, TInv, StoreTypeOK
<1>3. \A e \in DOMAIN push[h].cmds : push[h].cmds[e].new \in Good \union {Null}
  <2> SUFFICES ASSUME NEW e \in DOMAIN push[h].cmds, push[h].cmds[e].new # Null
               PROVE  push[h].cmds[e].new \in Good
    OBVIOUS
  <2>1. Good \subseteq Trusted
    BY HistoriesClosed DEF Good
  <2>2. Ancestors({push[h].cmds[e].new}) \subseteq Trusted
    BY <1>1, <1>2, <2>1 DEF SeenOK
  <2>3. push[h].cmds[e].new \in Commits
    <3>1. push[h].cmds[e].new \in Tips(push[h].cmds)
      BY DEF Tips
    <3> QED
      BY <1>2, <3>1, ReadTypes DEF JInv
  <2> QED
    BY <2>2, <2>3 DEF Good, HistoryIn
<1>4. BatchGood'
  <2> SUFFICES ASSUME NEW g \in Handlers, NEW k \in DOMAIN batch'[g]
               PROVE  batch'[g][k].new \in Good \union {Null}
    BY DEF BatchGood
  <2>1. CASE g # h
    BY <1>1, <1>2, <2>1 DEF JInv, BatchGood
  <2>2. CASE g = h
    <3>1. batch'[h] = [j \in {repo[h]} \X DOMAIN push[h].cmds |-> push[h].cmds[j[2]]]
      BY <1>1, <1>2
    <3> QED
      BY <1>3, <2>2, <3>1
  <2> QED
    BY <2>1, <2>2
<1> QED
  BY <1>1, <1>4 DEF JInv, RefsGood

\* No other step makes a batch, and refs move only to what a batch asks for.
LEMMA BackendGood ==
  ASSUME JInv, NEW h \in Handlers,
         Serve(h) \/ Arrive(h) \/ ReceivePush(h) \/ CommitUnknown(h) \/ UpdateFails(h)
           \/ NextRequest(h) \/ Fail(h) \/ RollbackIngest(h)
  PROVE  BatchGood' /\ RefsGood'
<1>0. batch \in [Handlers -> BatchOf(Updates)]
  BY DEF JInv, SInv, TInv, StoreTypeOK
<1>1. CASE NextRequest(h)
  <2>1. batch' = [batch EXCEPT ![h] = EmptyBatch] /\ UNCHANGED refs
    BY <1>1 DEF NextRequest
  <2> QED
    BY <1>0, <2>1, EmptyBatchFacts DEF JInv, BatchGood, RefsGood
<1>2. CASE Commit(h)
  <2>1. refs' = Apply(refs, batch[h]) /\ UNCHANGED batch
    BY <1>2 DEF Commit
  <2> QED
    BY <2>1 DEF JInv, BatchGood, RefsGood, Apply
<1>3. CASE ~ (NextRequest(h) \/ Commit(h))
  <2>1. CASE Setup(h) \/ Arrive(h) \/ ReceivePush(h) \/ CommitUnknown(h) \/ RollbackIngest(h)
               \/ Fail(h)
    BY <2>1 DEF Setup, Arrive, ReceivePush, CommitUnknown, RollbackIngest, KvProbe, KvRecheck,
         KvLockCounter, KvAllocate, SqlInit, Open, OpenFails, BusyFails, Fail, JInv, BatchGood,
         RefsGood
  <2>2. CASE Ingest(h) \/ UpdateStep(h) \/ UpdateFails(h)
    BY <1>3, <2>2 DEF Ingest, KvExtract, SqlExtract, KvIngest, SqlIngest, UpdateStep, UpdateFails,
         CommitReturns, KvCas, SqlCas, Stale, WaitFails, Abort, JInv, BatchGood, RefsGood
  <2> QED
    BY <1>3, <2>1, <2>2 DEF Serve
<1> QED
  BY <1>1, <1>2, <1>3

\* At the start there are no refs and no requests.
LEMMA InitJInv == Init => JInv
<1> SUFFICES ASSUME Init PROVE JInv
  OBVIOUS
<1>1. SInv /\ JudgeTypeOK /\ JudgeShape
  BY InitSInv, InitJudgeType DEF Init
<1>2. RefsGood /\ BatchGood
  BY EmptyBatchFacts DEF Init, StoreInit, RefsGood, BatchGood
<1>3. \A h \in Handlers : JudgeOK(h)
  BY DEF Init, JudgeOK, SeenOK, ExcludeOK, WalkOK
<1> QED
  BY <1>1, <1>2, <1>3 DEF JInv

\* Every step keeps the invariant.
LEMMA JInvStep == JInv /\ [Next]_vars => JInv'
<1> SUFFICES ASSUME JInv, [Next]_vars PROVE JInv'
  OBVIOUS
<1>0. SInv' /\ JudgeTypeOK'
  BY StoreStepOf, StoreStep, JudgeTypeStep DEF JInv
<1>1. ASSUME NEW h \in Handlers, Accept(h) PROVE JInv'
  BY <1>0, <1>1, AcceptedGood, Forgotten DEF Accept, JInv
<1>2. ASSUME NEW h \in Handlers, Refuse(h) PROVE JInv'
  BY <1>0, <1>2, BackendGood, Forgotten DEF Refuse, JInv
<1>3. ASSUME NEW h \in Handlers, Fail(h), Forget(h) PROVE JInv'
  BY <1>0, <1>3, BackendGood, Forgotten DEF JInv
<1>4. ASSUME NEW h \in Handlers,
             (Judge(h) /\ ~ Accept(h) /\ ~ Refuse(h)) \/ ListTipsFails(h)
      PROVE  JInv'
  <2>1. /\ UNCHANGED storeVars
        /\ KvListTips(h) \/ SqlListTips(h) \/ ListTipsFails(h)
             \/ (\E n \in Names : DeletedHasNone(h, n) \/ NewCommits(h, n))
             \/ KvExclude(h) \/ SqlExclude(h) \/ StartWalk(h) \/ WalkStep(h) \/ Show(h)
    BY <1>4 DEF Judge, KvListTips, SqlListTips, ListTipsFails, DeletedHasNone, NewCommits,
         KvExclude, SqlExclude, StartWalk, WalkStep, Show
  <2>2. JudgeShape' /\ JudgeOK(h)'
    BY <2>1, JudgeStep
  <2>3. RefsGood' /\ BatchGood'
    BY <2>1 DEF storeVars, JInv, RefsGood, BatchGood
  <2>4. ASSUME NEW g \in Handlers \ {h} PROVE JudgeOK(g)'
    <3>1. /\ stage'[g] = stage[g] /\ tips'[g] = tips[g] /\ judged'[g] = judged[g]
          /\ current'[g] = current[g] /\ exclude'[g] = exclude[g] /\ queue'[g] = queue[g]
          /\ found'[g] = found[g] /\ shown'[g] = shown[g]
      BY <2>1, <2>4 DEF JInv, JudgeTypeOK, Enter, KvListTips, SqlListTips, ListTipsFails,
           DeletedHasNone, NewCommits, KvExclude, SqlExclude, StartWalk, WalkStep, Show
    <3>2. UNCHANGED <<objects, repo, push>>
      BY <2>1 DEF storeVars
    <3> QED
      BY <2>4, <3>1, <3>2, Undisturbed
  <2> QED
    BY <1>0, <2>2, <2>3, <2>4 DEF JInv
<1>5. ASSUME NEW h \in Handlers, UNCHANGED judgeVars,
             Serve(h) \/ Arrive(h) \/ ReceivePush(h) \/ CommitUnknown(h) \/ UpdateFails(h)
               \/ NextRequest(h)
      PROVE  JInv'
  <2>1. /\ \A g \in Handlers \ {h} : pc'[g] = pc[g] /\ repo'[g] = repo[g] /\ push'[g] = push[g]
        /\ \A i \in Ids : objects[i] \subseteq objects'[i]
        /\ stage[h] = "none"
    BY <1>5, StoreFrame, NotWhileJudged DEF JInv, JudgeTypeOK
  <2>2. ASSUME NEW g \in Handlers PROVE JudgeOK(g)'
    BY <1>5, <2>1, <2>2, Undisturbed DEF judgeVars
  <2>3. JudgeShape'
    BY <1>5, <2>1 DEF judgeVars, JInv, JudgeShape, Command
  <2> QED
    BY <1>0, <1>5, <2>2, <2>3, BackendGood DEF JInv
<1>6. CASE UNCHANGED vars
  <2>1. ASSUME NEW g \in Handlers PROVE JudgeOK(g)'
    BY <1>6, <2>1, Undisturbed DEF vars, storeVars, judgeVars
  <2>2. JudgeShape' /\ RefsGood' /\ BatchGood'
    BY <1>6 DEF vars, storeVars, judgeVars, JInv, JudgeShape, RefsGood, BatchGood, Command
  <2> QED
    BY <1>0, <2>1, <2>2 DEF JInv
<1> QED
  BY <1>1, <1>2, <1>3, <1>4, <1>5, <1>6 DEF Next, Work

(***************************************************************************)
(* Theorems                                                                *)
(***************************************************************************)

\* The judgement's invariant, for any number of concurrent requests.
THEOREM Invariance == Spec => []JInv
BY InitJInv, JInvStep, PTL DEF Spec

\* Shapes of the store and of the judgement.
THEOREM TypeCorrect == Spec => []TypeOK
<1>1. JInv => TypeOK
  BY DEF JInv, SInv, TInv, JudgeTypeOK, TypeOK
<1> QED
  BY <1>1, Invariance, PTL

\* A walk of new_commits that ends finds what is new and nothing else, while
\* others push, on TiKV and on SQLite.
THEOREM WalksAreExact == Spec => []WalkExact
<1>1. JInv => WalkExact
  BY WalkEnd DEF WalkExact
<1> QED
  BY <1>1, Invariance, PTL

\* No commit that the forge's rule refuses is ever reachable from a ref.
THEOREM OnlyTrustedHistory == Spec => []RefsHoldTrustedHistory
<1>1. JInv => RefsHoldTrustedHistory
  BY DEF JInv, RefsGood, Good, HistoryIn, RefsHoldTrustedHistory
<1> QED
  BY <1>1, Invariance, PTL
=============================================================================
