--------------------------- MODULE DatabaseStore ---------------------------
(***************************************************************************)
(* The two database backends, KvBackend (TiKV) and SqlBackend (SQLite), as *)
(* a push uses them: the repository is initialised and opened, the pack is *)
(* ingested in one transaction, and the refs are updated in another.       *)
(*                                                                         *)
(* TiKV locks the keys of a pessimistic transaction one by one as they are *)
(* read; SQLite has one writer lock, taken by the first writing statement. *)
(* Both databases are libraries, modelled from how the backends use them:  *)
(* committed data changes in one step, a wait for a lock ends with the     *)
(* lock or with an error (lock wait timeout, deadlock detection, busy      *)
(* timeout), and an unfinished transaction leaves nothing behind.          *)
(***************************************************************************)
EXTENDS Naturals, CommitGraph

CONSTANTS
  Handlers,  \* requests served at the same time
  Names,     \* names of refs
  Null,      \* the all-zero object id
  Ids,       \* ids that may be given to a repository
  NoId,      \* the repository has no id yet
  Free,      \* no lock
  Updates,   \* the updates a client may send
  Pushes,    \* the pushes a client may send: commands and a pack
  Engines    \* the backends in use: "kv", "sql"

ASSUME IdsAssumption == Ids \subseteq Nat /\ 1 \in Ids /\ NoId \notin Ids
ASSUME FreeAssumption == Free \notin Handlers

\* refkey(repo_id, refname), and PRIMARY KEY (repo_id, name).
Keys == Ids \X Names

INSTANCE RefUpdates WITH Refs <- Keys, Oids <- Commits

ASSUME UpdatesAssumption == Updates \subseteq RefUpdate
ASSUME PushesAssumption ==
  \A p \in Pushes :
    /\ p.cmds \in UNION { [D -> Updates] : D \in SUBSET Names }
    /\ p.pack \subseteq Commits

VARIABLES
  engine,    \* which backend serves this repository
  index,     \* repo_index / repositories: the id behind the path
  counter,   \* next_repo_id
  idLock,    \* who holds the pessimistic lock on the counter
  refs,      \* committed refs, by key
  objects,   \* committed objects, by repository id
  lock,      \* who holds the row or key of a ref
  pc,        \* where each request is
  repo,      \* the id in the handle a request opened
  push,      \* what the client sent
  batch,     \* the argument of update_refs, by key
  checked    \* keys whose compare-and-swap has passed

storeVars == <<engine, index, counter, idLock, refs, objects, lock, pc, repo,
               push, batch, checked>>

\* Where no transaction and no request can be seen.
NoPush == [cmds |-> [n \in {} |-> Null], pack |-> {}]

\* ensure_schema has created empty tables; the repository may be there.
StoreInit ==
  /\ engine \in Engines
  /\ \/ index = NoId /\ counter = 1
     \/ index = 1 /\ counter = 2
  /\ idLock = Free
  /\ refs = [k \in Keys |-> Null]
  /\ objects = [i \in Ids |-> {}]
  /\ lock = [k \in Keys |-> Free]
  /\ pc = [h \in Handlers |-> "idle"]
  /\ repo = [h \in Handlers |-> NoId]
  /\ push = [h \in Handlers |-> NoPush]
  /\ batch = [h \in Handlers |-> EmptyBatch]
  /\ checked = [h \in Handlers |-> {}]

\* Before a handle is in hand.
Opening == {"init", "recheck", "lockid", "allocate", "open"}

Goto(h, p) == pc' = [pc EXCEPT ![h] = p]

\* With a handle, before update_refs.
Handling == {"opened", "ingest", "extracted", "ingested"}

\* SQLite: nobody else has the writer lock.
WriterFree(h) == \A k \in Keys : lock[k] \in {Free, h}

(***************************************************************************)
(* init_repo and open                                                      *)
(***************************************************************************)

\* A request arrives; with auto_init the repository is initialised first.
Arrive(h) ==
  /\ pc[h] = "idle"
  /\ \/ Goto(h, "init")
     \/ Goto(h, "open")
  /\ UNCHANGED <<engine, index, counter, idLock, refs, objects, lock, repo,
                 push, batch, checked>>

\* The fast path of init_repo_inner: a read-only transaction.
KvProbe(h) ==
  /\ engine = "kv" /\ pc[h] = "init"
  /\ Goto(h, IF index = NoId THEN "recheck" ELSE "open")
  /\ UNCHANGED <<engine, index, counter, idLock, refs, objects, lock, repo,
                 push, batch, checked>>

\* begin_pessimistic and the second get, which reads the snapshot of the
\* moment the transaction began.
KvRecheck(h) ==
  /\ engine = "kv" /\ pc[h] = "recheck"
  /\ Goto(h, IF index = NoId THEN "lockid" ELSE "open")
  /\ UNCHANGED <<engine, index, counter, idLock, refs, objects, lock, repo,
                 push, batch, checked>>

\* get_for_update of the counter: locks it and reads its latest value.
KvLockCounter(h) ==
  /\ engine = "kv" /\ pc[h] = "lockid"
  /\ idLock = Free
  /\ idLock' = h
  /\ Goto(h, "allocate")
  /\ UNCHANGED <<engine, index, counter, refs, objects, lock, repo, push,
                 batch, checked>>

\* The three puts, committed together.
KvAllocate(h) ==
  /\ engine = "kv" /\ pc[h] = "allocate"
  /\ counter \in Ids
  /\ index' = counter
  /\ counter' = counter + 1
  /\ idLock' = Free
  /\ Goto(h, "open")
  /\ UNCHANGED <<engine, refs, objects, lock, repo, push, batch, checked>>

\* INSERT OR IGNORE INTO repositories: one statement, path is UNIQUE.
SqlInit(h) ==
  /\ engine = "sql" /\ pc[h] = "init"
  /\ WriterFree(h)
  /\ IF index = NoId
     THEN index' = counter /\ counter' = counter + 1
     ELSE UNCHANGED <<index, counter>>
  /\ Goto(h, "open")
  /\ UNCHANGED <<engine, idLock, refs, objects, lock, repo, push, batch,
                 checked>>

\* open looks the path up and keeps the id in the handle.
Open(h) ==
  /\ pc[h] = "open"
  /\ index # NoId
  /\ repo' = [repo EXCEPT ![h] = index]
  /\ Goto(h, "opened")
  /\ UNCHANGED <<engine, index, counter, idLock, refs, objects, lock, push,
                 batch, checked>>

\* "does not appear to be a git repository": the request ends with an error.
OpenFails(h) ==
  /\ pc[h] = "open"
  /\ index = NoId
  /\ Goto(h, "idle")
  /\ UNCHANGED <<engine, index, counter, idLock, refs, objects, lock, repo,
                 push, batch, checked>>

(***************************************************************************)
(* The pack                                                                *)
(***************************************************************************)

\* The new values a push asks for.
Tips(cmds) == { cmds[n].new : n \in DOMAIN cmds } \ {Null}

\* git push sends what the server does not have: with the pack, everything
\* the new tips need is there.
ClientCompletes(h, p) ==
  LET have == p.pack \union objects[repo[h]]
  IN  ClosedIn(Commits, have) /\ Tips(p.cmds) \subseteq have

\* The client sends its commands and its pack.
ReceivePush(h) ==
  /\ pc[h] = "opened"
  /\ \E p \in Pushes :
       /\ ClientCompletes(h, p)
       /\ push' = [push EXCEPT ![h] = p]
       /\ Goto(h, IF p.pack = {} THEN "ingested" ELSE "ingest")
  /\ UNCHANGED <<engine, index, counter, idLock, refs, objects, lock, repo,
                 batch, checked>>

\* extract_pack, on the blocking pool: every object is decoded, every commit
\* with its parents; the same in both backends, each with its own copy.
KvExtract(h) ==
  /\ engine = "kv" /\ pc[h] = "ingest"
  /\ Goto(h, "extracted")
  /\ UNCHANGED <<engine, index, counter, idLock, refs, objects, lock, repo,
                 push, batch, checked>>

SqlExtract(h) ==
  /\ engine = "sql" /\ pc[h] = "ingest"
  /\ Goto(h, "extracted")
  /\ UNCHANGED <<engine, index, counter, idLock, refs, objects, lock, repo,
                 push, batch, checked>>

SwallowedIngest(h) ==                                           \* mutant
  /\ engine = "kv" /\ pc[h] = "extracted"
  /\ Goto(h, "ingested")
  /\ UNCHANGED <<engine, index, counter, idLock, refs, objects, lock, repo,
                 push, batch, checked>>

\* ingest_pack on TiKV: one optimistic transaction puts every object and
\* every parent record of the pack.
KvIngest(h) ==
  /\ engine = "kv" /\ pc[h] = "extracted"
  /\ objects' = [objects EXCEPT ![repo[h]] = @ \union push[h].pack]
  /\ Goto(h, "ingested")
  /\ UNCHANGED <<engine, index, counter, idLock, refs, lock, repo, push,
                 batch, checked>>

\* ingest_pack on SQLite: INSERT OR IGNORE, row by row, in one transaction.
SqlIngest(h) ==
  /\ engine = "sql" /\ pc[h] = "extracted"
  /\ WriterFree(h)
  /\ objects' = [objects EXCEPT ![repo[h]] = @ \union push[h].pack]
  /\ Goto(h, "ingested")
  /\ UNCHANGED <<engine, index, counter, idLock, refs, lock, repo, push,
                 batch, checked>>

\* rollback_ingest of both backends does nothing: a refused push leaves its
\* objects in the store.
RollbackIngest(h) ==
  /\ pc[h] = "ingested"
  /\ Goto(h, "idle")
  /\ repo' = [repo EXCEPT ![h] = NoId]
  /\ push' = [push EXCEPT ![h] = NoPush]
  /\ UNCHANGED <<engine, index, counter, idLock, refs, objects, lock, batch,
                 checked>>

(***************************************************************************)
(* update_refs                                                             *)
(***************************************************************************)

\* update_refs is called with the commands of the push.
UpdateRefs(h) ==
  /\ pc[h] = "ingested"
  /\ batch' = [batch EXCEPT ![h] =
       [k \in {repo[h]} \X DOMAIN push[h].cmds |-> push[h].cmds[k[2]]]]
  /\ repo' = [repo EXCEPT ![h] = NoId]
  /\ push' = [push EXCEPT ![h] = NoPush]
  /\ Goto(h, "update")
  /\ UNCHANGED <<engine, index, counter, idLock, refs, objects, lock, checked>>

\* The match of the KV backend on (create, delete, current).
KvCasOK(cur, u) ==
  \/ u.old = Null /\ cur = Null
  \/ u.old # Null /\ cur = u.old

\* The conditional DELETE, INSERT and UPDATE of the SQL backend.
SqlCasOK(cur, u) ==
  \/ u.new = Null /\ cur # Null /\ cur = u.old
  \/ u.new # Null /\ u.old = Null /\ cur = Null
  \/ u.new # Null /\ u.old # Null /\ cur = u.old

ToDo(h) == DOMAIN batch[h] \ checked[h]

UnlockedCas(h, k) ==                                            \* mutant
  /\ engine = "kv" /\ pc[h] = "update" /\ k \in ToDo(h)
  /\ KvCasOK(refs[k], batch[h][k])
  /\ checked' = [checked EXCEPT ![h] = @ \union {k}]
  /\ UNCHANGED <<engine, index, counter, idLock, refs, objects, lock, pc,
                 repo, push, batch>>

\* get_for_update locks the key and reads it; the value is as expected.
KvCas(h, k) ==
  /\ engine = "kv" /\ pc[h] = "update" /\ k \in ToDo(h)
  /\ lock[k] = Free
  /\ KvCasOK(refs[k], batch[h][k])
  /\ lock' = [lock EXCEPT ![k] = h]
  /\ checked' = [checked EXCEPT ![h] = @ \union {k}]
  /\ UNCHANGED <<engine, index, counter, idLock, refs, objects, pc, repo,
                 push, batch>>

\* The statement of one update affects its row; the first one of the
\* transaction takes the writer lock.
SqlCas(h, k) ==
  /\ engine = "sql" /\ pc[h] = "update" /\ k \in ToDo(h)
  /\ WriterFree(h)
  /\ SqlCasOK(refs[k], batch[h][k])
  /\ lock' = [j \in Keys |-> h]
  /\ checked' = [checked EXCEPT ![h] = @ \union {k}]
  /\ UNCHANGED <<engine, index, counter, idLock, refs, objects, pc, repo,
                 push, batch>>

Unlocked(h) == [k \in Keys |-> IF lock[k] = h THEN Free ELSE lock[k]]

NoRollback(h) ==                                                \* mutant
  /\ checked' = [checked EXCEPT ![h] = {}]
  /\ Goto(h, "err")
  /\ UNCHANGED <<engine, index, counter, idLock, refs, objects, lock, repo,
                 push, batch>>

\* The transaction is rolled back: bail!, a failed statement, a lost
\* connection.
Abort(h) ==
  /\ lock' = Unlocked(h)
  /\ checked' = [checked EXCEPT ![h] = {}]
  /\ Goto(h, "err")
  /\ UNCHANGED <<engine, index, counter, idLock, refs, objects, repo, push,
                 batch>>

\* "stale info": the ref is not what the client saw.
Stale(h, k) ==
  /\ pc[h] = "update" /\ k \in ToDo(h)
  /\ \/ engine = "kv" /\ lock[k] = Free /\ ~ KvCasOK(refs[k], batch[h][k])
     \/ engine = "sql" /\ WriterFree(h) /\ ~ SqlCasOK(refs[k], batch[h][k])
  /\ Abort(h)

WaitForever(h, k) == FALSE                                      \* mutant

\* A wait for a lock ends in an error.
WaitFails(h, k) ==
  /\ pc[h] = "update" /\ k \in ToDo(h)
  /\ \/ engine = "kv" /\ lock[k] \notin {Free, h}
     \/ engine = "sql" /\ ~ WriterFree(h)
  /\ Abort(h)

\* commit: every buffered edit appears and every lock goes at once.
Commit(h) ==
  /\ pc[h] = "update"
  /\ ToDo(h) = {}
  /\ refs' = Apply(refs, batch[h])
  /\ lock' = Unlocked(h)
  /\ checked' = [checked EXCEPT ![h] = {}]
  /\ Goto(h, "committed")
  /\ UNCHANGED <<engine, index, counter, idLock, objects, repo, push, batch>>

\* The commit is acknowledged.
CommitReturns(h) ==
  /\ pc[h] = "committed"
  /\ Goto(h, "ok")
  /\ UNCHANGED <<engine, index, counter, idLock, refs, objects, lock, repo,
                 push, batch, checked>>

\* TiKV committed and the answer was lost: finalize_write surfaces an error
\* although the refs have moved.
CommitUnknown(h) ==
  /\ engine = "kv" /\ pc[h] = "committed"
  /\ Goto(h, "unknown")
  /\ UNCHANGED <<engine, index, counter, idLock, refs, objects, lock, repo,
                 push, batch, checked>>

(***************************************************************************)
(* Errors and the end of a request                                         *)
(***************************************************************************)

\* A database error, a dropped request or the death of the process before
\* update_refs: the open transaction is rolled back and the request ends.
Fail(h) ==
  /\ pc[h] \in Opening \union Handling
  /\ idLock' = IF idLock = h THEN Free ELSE idLock
  /\ Goto(h, "idle")
  /\ repo' = [repo EXCEPT ![h] = NoId]
  /\ push' = [push EXCEPT ![h] = NoPush]
  /\ UNCHANGED <<engine, index, counter, refs, objects, lock, batch, checked>>

\* A wait for the counter or for the writer lock ends in an error, or the
\* model has no id left (the bound Ids).
BusyFails(h) ==
  /\ \/ engine = "kv" /\ pc[h] = "lockid" /\ idLock # Free
     \/ engine = "kv" /\ pc[h] = "allocate" /\ counter \notin Ids
     \/ engine = "sql" /\ pc[h] \in {"init", "extracted"} /\ ~ WriterFree(h)
  /\ Fail(h)

\* The same inside update_refs.
UpdateFails(h) ==
  /\ pc[h] = "update"
  /\ Abort(h)

\* The request ends; the same worker may serve another one.
NextRequest(h) ==
  /\ pc[h] \in {"err", "ok", "unknown"}
  /\ Goto(h, "idle")
  /\ batch' = [batch EXCEPT ![h] = EmptyBatch]
  /\ UNCHANGED <<engine, index, counter, idLock, refs, objects, lock, repo,
                 push, checked>>

\* The steps a request takes by itself.
Setup(h) ==
  \/ KvProbe(h) \/ KvRecheck(h) \/ KvLockCounter(h) \/ KvAllocate(h)
  \/ SqlInit(h) \/ Open(h) \/ OpenFails(h) \/ BusyFails(h)

Ingest(h) == KvExtract(h) \/ SqlExtract(h) \/ KvIngest(h) \/ SqlIngest(h)

UpdateStep(h) ==
  \/ Commit(h) \/ CommitReturns(h)
  \/ \E k \in Keys : KvCas(h, k) \/ SqlCas(h, k) \/ Stale(h, k) \/ WaitFails(h, k)

StoreNext ==
  \E h \in Handlers :
    \/ Arrive(h) \/ Setup(h) \/ ReceivePush(h) \/ Ingest(h)
    \/ RollbackIngest(h) \/ UpdateRefs(h) \/ UpdateStep(h)
    \/ CommitUnknown(h) \/ Fail(h) \/ UpdateFails(h) \/ NextRequest(h)

StoreSpec == StoreInit /\ [][StoreNext]_storeVars

(***************************************************************************)
(* Properties                                                              *)
(***************************************************************************)

\* Every variable has its shape; a lock belongs to a transaction that is
\* still open, and a handle is in hand from open to the end of the request.
StoreTypeOK ==
  /\ engine \in Engines
  /\ index \in Ids \union {NoId}
  /\ counter \in Nat
  /\ idLock \in Handlers \union {Free}
  /\ refs \in [Keys -> Value]
  /\ objects \in [Ids -> SUBSET Commits]
  /\ lock \in [Keys -> Handlers \union {Free}]
  /\ pc \in [Handlers -> Opening \union Handling \union
               {"idle", "update", "committed", "err", "ok", "unknown"}]
  /\ repo \in [Handlers -> Ids \union {NoId}]
  /\ push \in [Handlers -> Pushes \union {NoPush}]
  /\ batch \in [Handlers -> BatchOf(Updates)]
  /\ checked \in [Handlers -> SUBSET Keys]
  /\ \A h \in Handlers :
       /\ checked[h] \subseteq DOMAIN batch[h]
       /\ pc[h] \in Handling => repo[h] \in Ids
  /\ \A k \in Keys : lock[k] # Free => pc[lock[k]] = "update"
  /\ idLock # Free => pc[idLock] = "allocate"

PhaseOf ==
  [h \in Handlers |->
     CASE pc[h] = "update" -> "pending"
       [] pc[h] = "committed" -> "applied"
       [] pc[h] \in {"ok", "err", "unknown"} -> pc[h]
       [] OTHER -> "idle"]

RS == INSTANCE RefStore
        WITH Refs <- Keys, Oids <- Commits, Callers <- Handlers,
             Remote <- TRUE, phase <- PhaseOf

\* Over TiKV and over SQLite update_refs is the all-or-nothing
\* compare-and-swap of the StorageBackend contract.  An error means that
\* nothing has landed, except for the error of a commit whose answer is lost.
RefStoreSpec == RS!Spec

\* A repository keeps its id: what "Atomically allocate (or look up)" and
\* "Idempotent" say of init_repo.  Another id behind the path hides every ref
\* and object stored under the first.
RepoIdStable == [][index # NoId => index' = index]_storeVars
=============================================================================
