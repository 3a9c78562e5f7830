--------------------------- MODULE RefTransaction ---------------------------
(***************************************************************************)
(* FsGitoxide::update_refs: one gix-ref transaction per push, run by many  *)
(* pushes at once on the same repository directory.                        *)
(*                                                                         *)
(* prepare() takes the updates one by one: it creates <ref>.lock (O_EXCL,  *)
(* Fail::Immediately: an existing lock file is an error, not a wait), then *)
(* compares the ref under the lock with the PreviousValue constraint.  Any *)
(* failure drops the transaction, which removes the lock files it made.    *)
(* commit() renames each lock file over its ref, updates before deletions; *)
(* a deletion unlinks the ref and then drops its lock.  Between two        *)
(* renames other pushes and readers run: the files of a batch do not       *)
(* change together.                                                        *)
(*                                                                         *)
(* gix-ref and gix-lock are libraries; their steps are modelled from how   *)
(* update_refs_sync calls them and what design/concurrency.md relies on.   *)
(***************************************************************************)
EXTENDS RefUpdates

CONSTANTS
  Callers,  \* concurrent calls of update_refs
  Updates,  \* the updates a client may send
  Free      \* no lock file

ASSUME CallersAssumption == Free \notin Callers
ASSUME UpdatesAssumption == Updates \subseteq RefUpdate

VARIABLES
  loose,    \* contents of the ref files
  lock,     \* which call holds <ref>.lock
  pc,       \* where each call is
  batch,    \* the edits of each call
  checked   \* edits whose constraint held under the lock

vars == <<loose, lock, pc, batch, checked>>

Init ==
  /\ loose \in [Refs -> Value]
  /\ lock = [r \in Refs |-> Free]
  /\ pc = [c \in Callers |-> "idle"]
  /\ batch = [c \in Callers |-> EmptyBatch]
  /\ checked = [c \in Callers |-> {}]

Held(c) == { r \in Refs : lock[r] = c }

Unlocked(S) == [r \in Refs |-> IF r \in S THEN Free ELSE lock[r]]

(***************************************************************************)
(* prepare                                                                 *)
(***************************************************************************)

\* update_refs_sync builds the edits and starts the transaction.
UpdateRefs(c) ==
  /\ pc[c] = "idle"
  /\ \E b \in BatchOf(Updates) : batch' = [batch EXCEPT ![c] = b]
  /\ pc' = [pc EXCEPT ![c] = "prepare"]
  /\ UNCHANGED <<loose, lock, checked>>

\* The edit being prepared: every ref locked before it has been checked.
Preparing(c, r) ==
  /\ pc[c] = "prepare"
  /\ r \in DOMAIN batch[c] \ checked[c]
  /\ Held(c) \subseteq checked[c] \union {r}

\* <ref>.lock is created.
LockRef(c, r) ==
  /\ Preparing(c, r)
  /\ lock[r] = Free
  /\ lock' = [lock EXCEPT ![r] = c]
  /\ UNCHANGED <<loose, pc, batch, checked>>

UnlockedCheckRef(c, r) ==                                       \* mutant
  /\ Preparing(c, r)
  /\ PreviousValueOK(loose[r], batch[c][r])
  /\ checked' = [checked EXCEPT ![c] = @ \union {r}]
  /\ lock' = [lock EXCEPT ![r] = IF @ = Free THEN c ELSE @]
  /\ UNCHANGED <<loose, pc, batch>>

\* The ref is read under its lock and its constraint holds.
CheckRef(c, r) ==
  /\ Preparing(c, r)
  /\ lock[r] = c
  /\ PreviousValueOK(loose[r], batch[c][r])
  /\ checked' = [checked EXCEPT ![c] = @ \union {r}]
  /\ UNCHANGED <<loose, lock, pc, batch>>

LeakyAbort(c) ==                                                \* mutant
  /\ pc' = [pc EXCEPT ![c] = "err"]
  /\ checked' = [checked EXCEPT ![c] = {}]
  /\ UNCHANGED <<loose, lock, batch>>

ForgetfulAbort(c) ==                                            \* mutant
  /\ pc' = [pc EXCEPT ![c] = "err"]
  /\ lock' = Unlocked(Held(c))
  /\ UNCHANGED <<loose, batch, checked>>

\* prepare() returns an error and the dropped transaction unlocks.
Abort(c) ==
  /\ pc' = [pc EXCEPT ![c] = "err"]
  /\ lock' = Unlocked(Held(c))
  /\ checked' = [checked EXCEPT ![c] = {}]
  /\ UNCHANGED <<loose, batch>>

WaitForLock(c, r) == FALSE                                      \* mutant

\* Fail::Immediately: another call holds the lock.
LockBusy(c, r) ==
  /\ Preparing(c, r)
  /\ lock[r] \notin {Free, c}
  /\ Abort(c)

\* The ref moved since the client looked.
CheckFails(c, r) ==
  /\ Preparing(c, r)
  /\ lock[r] = c
  /\ ~ PreviousValueOK(loose[r], batch[c][r])
  /\ Abort(c)

\* Any other error of prepare(): disk, permissions, packed-refs.lock.
PrepareError(c) ==
  /\ pc[c] = "prepare"
  /\ Abort(c)

(***************************************************************************)
(* commit                                                                  *)
(***************************************************************************)

EagerPrepared(c) ==                                             \* mutant
  /\ pc[c] = "prepare"
  /\ Held(c) = checked[c]
  /\ pc' = [pc EXCEPT ![c] = "commit"]
  /\ UNCHANGED <<loose, lock, batch, checked>>

\* Every edit is locked and checked.
Prepared(c) ==
  /\ pc[c] = "prepare"
  /\ checked[c] = DOMAIN batch[c]
  /\ pc' = [pc EXCEPT ![c] = "commit"]
  /\ UNCHANGED <<loose, lock, batch, checked>>

\* rename(<ref>.lock, <ref>): the value appears and the lock goes in one step.
CommitUpdate(c, r) ==
  /\ pc[c] = "commit"
  /\ r \in Held(c)
  /\ batch[c][r].new # Null
  /\ loose' = [loose EXCEPT ![r] = batch[c][r].new]
  /\ lock' = Unlocked({r})
  /\ UNCHANGED <<pc, batch, checked>>

UpdatesRenamed(c) == \A r \in Held(c) : batch[c][r].new = Null

\* The ref file is unlinked, still under its lock.
CommitDelete(c, r) ==
  /\ pc[c] = "commit"
  /\ UpdatesRenamed(c)
  /\ r \in Held(c)
  /\ loose[r] # Null
  /\ loose' = [loose EXCEPT ![r] = Null]
  /\ UNCHANGED <<lock, pc, batch, checked>>

\* The marker of a deleted ref is dropped.
UnlockDeleted(c, r) ==
  /\ pc[c] = "commit"
  /\ UpdatesRenamed(c)
  /\ r \in Held(c)
  /\ loose[r] = Null
  /\ lock' = Unlocked({r})
  /\ UNCHANGED <<loose, pc, batch, checked>>

\* commit() returns Ok once every edit is in place.
CommitDone(c) ==
  /\ pc[c] = "commit"
  /\ Held(c) = {}
  /\ pc' = [pc EXCEPT ![c] = "ok"]
  /\ checked' = [checked EXCEPT ![c] = {}]
  /\ UNCHANGED <<loose, lock, batch>>

\* The request ends; the same worker may serve another one.
NextRequest(c) ==
  /\ pc[c] \in {"ok", "err"}
  /\ pc' = [pc EXCEPT ![c] = "idle"]
  /\ batch' = [batch EXCEPT ![c] = EmptyBatch]
  /\ UNCHANGED <<loose, lock, checked>>

(***************************************************************************)
(* Specification                                                           *)
(***************************************************************************)

\* The steps a call takes by itself once it has been made.
Work(c) ==
  \/ Prepared(c)
  \/ CommitDone(c)
  \/ \E r \in Refs :
       \/ LockRef(c, r)
       \/ CheckRef(c, r)
       \/ LockBusy(c, r)
       \/ CheckFails(c, r)
       \/ CommitUpdate(c, r)
       \/ CommitDelete(c, r)
       \/ UnlockDeleted(c, r)

Next ==
  \E c \in Callers :
    UpdateRefs(c) \/ Work(c) \/ PrepareError(c) \/ NextRequest(c)

Spec == Init /\ [][Next]_vars

\* A call is a synchronous function on its own thread: it keeps running.
\* Nothing makes a disk error happen, so PrepareError has no fairness.
FairSpec == Spec /\ \A c \in Callers : WF_vars(Work(c))

(***************************************************************************)
(* Properties                                                              *)
(***************************************************************************)

\* Every variable has its shape; only edits of the batch are checked, and
\* nothing of a transaction outlives it.
TypeOK ==
  /\ loose \in [Refs -> Value]
  /\ lock \in [Refs -> Callers \union {Free}]
  /\ pc \in [Callers -> {"idle", "prepare", "commit", "ok", "err"}]
  /\ batch \in [Callers -> BatchOf(Updates)]
  /\ checked \in [Callers -> SUBSET Refs]
  /\ \A c \in Callers :
       /\ checked[c] \subseteq DOMAIN batch[c]
       /\ checked[c] # {} => pc[c] \in {"prepare", "commit"}

\* A lock file exists only while the call that made it is inside prepare or
\* commit and only for a ref of its batch: no outcome of update_refs leaves a
\* lock behind, which would make every later push to the ref fail.
NoStrayLock ==
  \A r \in Refs : lock[r] # Free =>
    /\ pc[lock[r]] \in {"prepare", "commit"}
    /\ r \in DOMAIN batch[lock[r]]

\* The constraint that a call checked is still true of the ref when the call
\* overwrites it, however the other pushes ran in between: what makes
\* MustExistAndMatch(old) a compare-and-swap.
CheckedStillCurrent ==
  \A c \in Callers, r \in Refs :
    /\ pc[c] = "prepare" /\ r \in checked[c] =>
         lock[r] = c /\ PreviousValueOK(loose[r], batch[c][r])
    /\ pc[c] = "commit" /\ lock[r] = c =>
         \/ PreviousValueOK(loose[r], batch[c][r])
         \/ loose[r] = Null /\ batch[c][r].new = Null

\* The refs as the contract sees them: a batch counts from the moment its
\* last edit is checked, although its files are renamed one at a time.
Published ==
  [r \in Refs |->
     IF lock[r] # Free /\ pc[lock[r]] = "commit"
     THEN batch[lock[r]][r].new
     ELSE loose[r]]

PhaseOf ==
  [c \in Callers |->
     CASE pc[c] = "prepare" -> "pending"
       [] pc[c] = "commit" -> "applied"
       [] OTHER -> pc[c]]

RS == INSTANCE RefStore
        WITH Remote <- FALSE, refs <- Published, phase <- PhaseOf

\* The per-ref lock protocol implements the all-or-nothing compare-and-swap
\* that the StorageBackend trait documents, and an error means that nothing of
\* the batch has landed.
RefStoreSpec == RS!Spec

\* Fail::Immediately instead of waiting: every call of update_refs returns,
\* whatever locks the other calls hold and in whatever order they want them.
EveryCallReturns ==
  \A c \in Callers : pc[c] = "prepare" ~> pc[c] \in {"ok", "err"}
=============================================================================
