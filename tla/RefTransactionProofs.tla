------------------------ MODULE RefTransactionProofs ------------------------
(***************************************************************************)
(* Proofs about RefTransaction, for any set of refs, callers and updates:  *)
(* the lock protocol keeps its inductive invariant and, when no client     *)
(* sends the null id on both sides, implements RefStore.                   *)
(***************************************************************************)
EXTENDS RefTransaction, TLAPS

(***************************************************************************)
(* Facts about batches                                                     *)
(***************************************************************************)

\* What a member of BatchOf is: a function from some refs to updates.
LEMMA BatchFacts ==
  ASSUME NEW U, NEW b \in BatchOf(U)
  PROVE  /\ DOMAIN b \subseteq Refs
         /\ \A r \in DOMAIN b : b[r] \in U
BY DEF BatchOf

\* The batch of a call that has not been made is a batch.
LEMMA EmptyBatchFacts ==
  ASSUME NEW U
  PROVE  EmptyBatch \in BatchOf(U) /\ DOMAIN EmptyBatch = {}
<1>1. EmptyBatch \in [{} -> U] /\ DOMAIN EmptyBatch = {}
  BY DEF EmptyBatch
<1>2. {} \in SUBSET Refs
  OBVIOUS
<1> QED
  BY <1>1, <1>2 DEF BatchOf

\* For every command but the one with two null ids, the constraint that
\* update_refs_sync derives says that the ref has the value the client saw.
LEMMA ConstraintIsCAS ==
  ASSUME NEW cur, NEW u, WellFormed(u)
  PROVE  PreviousValueOK(cur, u) <=> cur = u.old
BY DEF WellFormed, PreviousValueOK

(***************************************************************************)
(* The inductive invariant                                                 *)
(***************************************************************************)

\* Shapes, who may hold a lock, and what a lock guarantees.
IInv == TypeOK /\ NoStrayLock /\ CheckedStillCurrent

\* No call has been made, no lock taken.
LEMMA InitIInv == Init => IInv
<1> SUFFICES ASSUME Init PROVE IInv
  OBVIOUS
<1>1. TypeOK
  BY EmptyBatchFacts DEF Init, TypeOK
<1>2. NoStrayLock
  BY DEF Init, NoStrayLock
<1>3. CheckedStillCurrent
  BY DEF Init, CheckedStillCurrent
<1> QED
  BY <1>1, <1>2, <1>3 DEF IInv

\* Every step keeps the shapes.
LEMMA TypeStep == IInv /\ [Next]_vars => TypeOK'
<1> SUFFICES ASSUME IInv, [Next]_vars PROVE TypeOK'
  OBVIOUS
<1> USE DEF IInv
<1>1. ASSUME NEW c \in Callers, UpdateRefs(c) PROVE TypeOK'
  <2>1. PICK b \in BatchOf(Updates) : batch' = [batch EXCEPT ![c] = b]
    BY <1>1 DEF UpdateRefs
  <2>2. checked[c] = {}
    BY <1>1 DEF UpdateRefs, TypeOK
  <2> QED
    BY <1>1, <2>1, <2>2 DEF UpdateRefs, TypeOK
<1>2. ASSUME NEW c \in Callers, NEW r \in Refs, LockRef(c, r) PROVE TypeOK'
  BY <1>2 DEF LockRef, TypeOK
<1>3. ASSUME NEW c \in Callers, NEW r \in Refs, CheckRef(c, r) PROVE TypeOK'
  <2>1. checked' \in [Callers -> SUBSET Refs] /\ checked'[c] \subseteq DOMAIN batch[c]
    BY <1>3 DEF CheckRef, Preparing, TypeOK
  <2> QED
    BY <1>3, <2>1 DEF CheckRef, Preparing, TypeOK
<1>4. ASSUME NEW c \in Callers, Abort(c) PROVE TypeOK'
  BY <1>4 DEF Abort, Unlocked, TypeOK
<1>5. ASSUME NEW c \in Callers, Prepared(c) PROVE TypeOK'
  BY <1>5 DEF Prepared, TypeOK
<1>6. ASSUME NEW c \in Callers, NEW r \in Refs, CommitUpdate(c, r) PROVE TypeOK'
  <2>1. NoStrayLock /\ r \in Refs /\ lock[r] = c
    BY <1>6 DEF CommitUpdate, Held
  <2>2. r \in DOMAIN batch[c]
    BY <2>1, CallersAssumption DEF NoStrayLock
  <2>3. batch[c][r] \in RefUpdate
    BY <2>2, BatchFacts, UpdatesAssumption DEF TypeOK
  <2> QED
    BY <1>6, <2>3 DEF CommitUpdate, Unlocked, TypeOK, RefUpdate
<1>7. ASSUME NEW c \in Callers, NEW r \in Refs, CommitDelete(c, r) PROVE TypeOK'
  BY <1>7 DEF CommitDelete, TypeOK, Value
<1>8. ASSUME NEW c \in Callers, NEW r \in Refs, UnlockDeleted(c, r) PROVE TypeOK'
  BY <1>8 DEF UnlockDeleted, Unlocked, TypeOK
<1>9. ASSUME NEW c \in Callers, CommitDone(c) PROVE TypeOK'
  BY <1>9 DEF CommitDone, TypeOK
<1>10. ASSUME NEW c \in Callers, NextRequest(c) PROVE TypeOK'
  <2>1. checked[c] = {}
    BY <1>10 DEF NextRequest, TypeOK
  <2> QED
    BY <1>10, <2>1, EmptyBatchFacts DEF NextRequest, TypeOK
<1>11. CASE UNCHANGED vars
  BY <1>11 DEF vars, TypeOK
<1> QED
  BY <1>1, <1>2, <1>3, <1>4, <1>5, <1>6, <1>7, <1>8, <1>9, <1>10, <1>11
  DEF Next, Work, LockBusy, CheckFails, PrepareError

\* Every step keeps locks with running transactions: a call leaves prepare or
\* commit only when it holds none.
LEMMA LockStep == IInv /\ [Next]_vars => NoStrayLock'
<1> SUFFICES ASSUME IInv, [Next]_vars PROVE NoStrayLock'
  OBVIOUS
<1> USE CallersAssumption DEF IInv
<1>1. ASSUME NEW c \in Callers, UpdateRefs(c) PROVE NoStrayLock'
  BY <1>1 DEF UpdateRefs, TypeOK, NoStrayLock
<1>2. ASSUME NEW c \in Callers, NEW r \in Refs, LockRef(c, r) PROVE NoStrayLock'
  BY <1>2 DEF LockRef, Preparing, TypeOK, NoStrayLock
<1>3. ASSUME NEW c \in Callers, NEW r \in Refs, CheckRef(c, r) PROVE NoStrayLock'
  BY <1>3 DEF CheckRef, TypeOK, NoStrayLock
<1>4. ASSUME NEW c \in Callers, Abort(c) PROVE NoStrayLock'
  BY <1>4 DEF Abort, Unlocked, Held, TypeOK, NoStrayLock
<1>5. ASSUME NEW c \in Callers, Prepared(c) PROVE NoStrayLock'
  BY <1>5 DEF Prepared, TypeOK, NoStrayLock
<1>6. ASSUME NEW c \in Callers, NEW r \in Refs,
             CommitUpdate(c, r) \/ UnlockDeleted(c, r)
      PROVE  NoStrayLock'
  BY <1>6 DEF CommitUpdate, UnlockDeleted, Unlocked, TypeOK, NoStrayLock
<1>7. ASSUME NEW c \in Callers, NEW r \in Refs, CommitDelete(c, r) PROVE NoStrayLock'
  BY <1>7 DEF CommitDelete, TypeOK, NoStrayLock
<1>8. ASSUME NEW c \in Callers, CommitDone(c) PROVE NoStrayLock'
  BY <1>8 DEF CommitDone, Held, TypeOK, NoStrayLock
<1>9. ASSUME NEW c \in Callers, NextRequest(c) PROVE NoStrayLock'
  BY <1>9 DEF NextRequest, TypeOK, NoStrayLock
<1>10. CASE UNCHANGED vars
  BY <1>10 DEF vars, NoStrayLock
<1> QED
  BY <1>1, <1>2, <1>3, <1>4, <1>5, <1>6, <1>7, <1>8, <1>9, <1>10
  DEF Next, Work, LockBusy, CheckFails, PrepareError

\* Every step keeps what has been checked true: only the holder of a ref's
\* lock writes the ref.
LEMMA CheckedStep == IInv /\ [Next]_vars => CheckedStillCurrent'
<1> SUFFICES ASSUME IInv, [Next]_vars PROVE CheckedStillCurrent'
  OBVIOUS
<1> USE CallersAssumption DEF IInv
<1>1. ASSUME NEW c \in Callers, UpdateRefs(c) PROVE CheckedStillCurrent'
  <2>1. checked[c] = {}
    BY <1>1 DEF UpdateRefs, TypeOK
  <2> QED
    BY <1>1, <2>1 DEF UpdateRefs, TypeOK, CheckedStillCurrent
<1>2. ASSUME NEW c \in Callers, NEW r \in Refs, LockRef(c, r) PROVE CheckedStillCurrent'
  BY <1>2 DEF LockRef, Preparing, TypeOK, CheckedStillCurrent
<1>3. ASSUME NEW c \in Callers, NEW r \in Refs, CheckRef(c, r) PROVE CheckedStillCurrent'
  BY <1>3 DEF CheckRef, Preparing, TypeOK, CheckedStillCurrent
<1>4. ASSUME NEW c \in Callers, Abort(c) PROVE CheckedStillCurrent'
  BY <1>4 DEF Abort, Unlocked, Held, TypeOK, CheckedStillCurrent
<1>5. ASSUME NEW c \in Callers, Prepared(c) PROVE CheckedStillCurrent'
  <2>1. \A r \in Refs : lock[r] = c => r \in checked[c]
    BY <1>5 DEF Prepared, NoStrayLock
  <2> QED
    BY <1>5, <2>1 DEF Prepared, TypeOK, CheckedStillCurrent
<1>6. ASSUME NEW c \in Callers, NEW r \in Refs,
             CommitUpdate(c, r) \/ UnlockDeleted(c, r)
      PROVE  CheckedStillCurrent'
  BY <1>6 DEF CommitUpdate, UnlockDeleted, Held, Unlocked, TypeOK, CheckedStillCurrent
<1>7. ASSUME NEW c \in Callers, NEW r \in Refs, CommitDelete(c, r) PROVE CheckedStillCurrent'
  BY <1>7 DEF CommitDelete, UpdatesRenamed, Held, TypeOK, CheckedStillCurrent
<1>8. ASSUME NEW c \in Callers, CommitDone(c) PROVE CheckedStillCurrent'
  BY <1>8 DEF CommitDone, TypeOK, CheckedStillCurrent
<1>9. ASSUME NEW c \in Callers, NextRequest(c) PROVE CheckedStillCurrent'
  BY <1>9 DEF NextRequest, TypeOK, CheckedStillCurrent
<1>10. CASE UNCHANGED vars
  BY <1>10 DEF vars, CheckedStillCurrent
<1> QED
  BY <1>1, <1>2, <1>3, <1>4, <1>5, <1>6, <1>7, <1>8, <1>9, <1>10
  DEF Next, Work, LockBusy, CheckFails, PrepareError

\* The invariant of the transaction, for any number of refs and of calls.
THEOREM Invariance == Spec => []IInv
<1>1. IInv /\ [Next]_vars => IInv'
  BY TypeStep, LockStep, CheckedStep DEF IInv
<1> QED
  BY InitIInv, <1>1, PTL DEF Spec

\* Type correctness.
THEOREM TypeCorrect == Spec => []TypeOK
BY Invariance, PTL DEF IInv

\* No outcome of update_refs leaves a lock file behind.
THEOREM LocksReleased == Spec => []NoStrayLock
BY Invariance, PTL DEF IInv

\* The constraint that a call checked is true when the call overwrites the ref.
THEOREM CompareAndSwap == Spec => []CheckedStillCurrent
BY Invariance, PTL DEF IInv

(***************************************************************************)
(* The transaction implements the contract                                 *)
(***************************************************************************)

\* RefStore sees the same batches.
LEMMA SameBatches == \A U : RS!BatchOf(U) = BatchOf(U)
BY DEF BatchOf, RS!BatchOf

\* Steps of prepare that lock, check or give up do not show in the refs.
LEMMA PrepareInvisible ==
  ASSUME IInv, NEW c \in Callers,
         pc[c] = "prepare", pc' \in {pc, [pc EXCEPT ![c] = "err"]},
         UNCHANGED <<loose, batch>>,
         \A r \in Refs : lock'[r] = lock[r] \/ {lock[r], lock'[r]} \subseteq {c, Free},
         pc' # pc => \A r \in Refs : lock'[r] # c
  PROVE  UNCHANGED Published
<1> SUFFICES ASSUME NEW r \in Refs PROVE Published'[r] = Published[r]
  BY DEF Published
<1> USE CallersAssumption DEF IInv, TypeOK
<1>1. CASE lock'[r] = lock[r]
  BY <1>1 DEF Published
<1>2. CASE {lock[r], lock'[r]} \subseteq {c, Free}
  BY <1>2 DEF Published
<1> QED
  BY <1>1, <1>2

\* The last edit is checked: the whole batch counts, and each ref it names had
\* the old value.
LEMMA PreparedLands ==
  ASSUME \A u \in Updates : WellFormed(u),
         IInv, NEW c \in Callers, Prepared(c)
  PROVE  RS!Land(c)
<1> USE CallersAssumption DEF IInv
<1>1. DOMAIN batch[c] \subseteq Refs /\ \A r \in DOMAIN batch[c] : batch[c][r] \in Updates
  BY BatchFacts DEF TypeOK
<1>2. pc[c] = "prepare" /\ checked[c] = DOMAIN batch[c]
  BY DEF Prepared
<1>3. \A r \in DOMAIN batch[c] : lock[r] = c /\ PreviousValueOK(loose[r], batch[c][r])
  BY <1>1, <1>2 DEF CheckedStillCurrent
<1>4. \A r \in DOMAIN batch[c] : Published[r] = batch[c][r].old
  BY <1>1, <1>2, <1>3, ConstraintIsCAS DEF Published
<1>5. \A r \in Refs : lock[r] = c => r \in DOMAIN batch[c]
  BY DEF NoStrayLock
<1>6. Published' = RS!Apply(Published, batch[c])
  <2> SUFFICES ASSUME NEW r \in Refs
               PROVE  Published'[r] = IF r \in DOMAIN batch[c] THEN batch[c][r].new ELSE Published[r]
    BY DEF Published, RS!Apply
  <2>1. CASE r \in DOMAIN batch[c]
    BY <2>1, <1>3 DEF Published, Prepared, TypeOK
  <2>2. CASE r \notin DOMAIN batch[c]
    BY <2>2, <1>5 DEF Published, Prepared, TypeOK
  <2> QED
    BY <2>1, <2>2
<1>7. PhaseOf[c] = "pending" /\ PhaseOf' = [PhaseOf EXCEPT ![c] = "applied"]
  BY DEF PhaseOf, Prepared, TypeOK
<1> QED
  BY <1>1, <1>4, <1>6, <1>7 DEF RS!Land, RS!WellFormed, WellFormed, Prepared

\* Renaming and unlinking files does not show: the new values already count.
LEMMA CommitInvisible ==
  ASSUME IInv, NEW c \in Callers, NEW r \in Refs,
         CommitUpdate(c, r) \/ CommitDelete(c, r) \/ UnlockDeleted(c, r)
  PROVE  UNCHANGED <<Published, PhaseOf, batch>>
<1> USE CallersAssumption DEF IInv
<1>1. lock[r] = c /\ pc[c] = "commit" /\ UNCHANGED <<pc, batch>>
  BY DEF CommitUpdate, CommitDelete, UnlockDeleted, Held
<1>2. ASSUME NEW s \in Refs PROVE Published'[s] = Published[s]
  <2>1. CASE CommitUpdate(c, r)
    BY <2>1, <1>1 DEF CommitUpdate, Unlocked, Published, TypeOK
  <2>2. CASE CommitDelete(c, r)
    BY <2>2, <1>1 DEF CommitDelete, Published, TypeOK
  <2>3. CASE UnlockDeleted(c, r)
    <3>1. batch[c][r].new = Null
      BY <2>3 DEF UnlockDeleted, UpdatesRenamed
    <3> QED
      BY <2>3, <3>1, <1>1 DEF UnlockDeleted, Unlocked, Published, TypeOK
  <2> QED
    BY <2>1, <2>2, <2>3
<1>3. Published' = Published
  BY <1>2 DEF Published
<1> QED
  BY <1>1, <1>3 DEF PhaseOf

\* Initial states map to initial states.
LEMMA InitRefines == Init => RS!Init
BY EmptyBatchFacts, CallersAssumption
   DEF Init, RS!Init, Published, PhaseOf, EmptyBatch, RS!EmptyBatch, Value, RS!Value

\* Every step of the transaction is a step of the contract or invisible in it.
LEMMA StepRefines ==
  ASSUME \A u \in Updates : WellFormed(u), IInv, [Next]_vars
  PROVE  [RS!Next]_(RS!vars)
<1> USE CallersAssumption DEF IInv
<1>1. ASSUME NEW c \in Callers, UpdateRefs(c) PROVE RS!Call(c)
  <2>1. \A r \in Refs : lock[r] # c
    BY <1>1 DEF UpdateRefs, NoStrayLock
  <2>2. Published' = Published
    BY <1>1, <2>1 DEF UpdateRefs, Published, TypeOK
  <2>3. PhaseOf[c] = "idle" /\ PhaseOf' = [PhaseOf EXCEPT ![c] = "pending"]
    BY <1>1 DEF UpdateRefs, PhaseOf, TypeOK
  <2> QED
    BY <1>1, <2>2, <2>3, SameBatches DEF UpdateRefs, RS!Call
<1>2. ASSUME NEW c \in Callers, NEW r \in Refs, LockRef(c, r) \/ CheckRef(c, r)
      PROVE  UNCHANGED <<Published, PhaseOf, batch>>
  <2>1. UNCHANGED Published
    BY <1>2, PrepareInvisible DEF LockRef, CheckRef, Preparing, TypeOK
  <2> QED
    BY <1>2, <2>1 DEF LockRef, CheckRef, PhaseOf
<1>3. ASSUME NEW c \in Callers, pc[c] = "prepare", Abort(c) PROVE RS!Reject(c)
  <2>1. UNCHANGED Published
    BY <1>3, PrepareInvisible DEF Abort, Unlocked, Held, TypeOK
  <2>2. PhaseOf[c] = "pending" /\ PhaseOf' = [PhaseOf EXCEPT ![c] = "err"]
    BY <1>3 DEF Abort, PhaseOf, TypeOK
  <2> QED
    BY <1>3, <2>1, <2>2 DEF Abort, RS!Reject
<1>4. ASSUME NEW c \in Callers, CommitDone(c) PROVE RS!ReturnOk(c)
  <2>1. Published' = Published
    BY <1>4 DEF CommitDone, Held, Published, TypeOK
  <2>2. PhaseOf[c] = "applied" /\ PhaseOf' = [PhaseOf EXCEPT ![c] = "ok"]
    BY <1>4 DEF CommitDone, PhaseOf, TypeOK
  <2> QED
    BY <1>4, <2>1, <2>2 DEF CommitDone, RS!ReturnOk
<1>5. ASSUME NEW c \in Callers, NextRequest(c) PROVE RS!NextRequest(c)
  <2>1. \A r \in Refs : lock[r] # c
    BY <1>5 DEF NextRequest, NoStrayLock
  <2>2. Published' = Published
    BY <1>5, <2>1 DEF NextRequest, Published, TypeOK
  <2>3. PhaseOf[c] \in {"ok", "err"} /\ PhaseOf' = [PhaseOf EXCEPT ![c] = "idle"]
    BY <1>5 DEF NextRequest, PhaseOf, TypeOK
  <2> QED
    BY <1>5, <2>2, <2>3 DEF NextRequest, RS!NextRequest, EmptyBatch, RS!EmptyBatch
<1>6. CASE UNCHANGED vars
  BY <1>6 DEF vars, RS!vars, Published, PhaseOf
<1> QED
  BY <1>1, <1>2, <1>3, <1>4, <1>5, <1>6, PreparedLands, CommitInvisible
  DEF Next, Work, LockBusy, CheckFails, PrepareError, Preparing, RS!Next, RS!vars

\* For every set of refs, of concurrent pushes and of commands without the one
\* of two null ids, the gix-ref transaction of update_refs_sync is the
\* all-or-nothing compare-and-swap of the StorageBackend contract.
THEOREM Refinement ==
  ASSUME \A u \in Updates : WellFormed(u)
  PROVE  Spec => RefStoreSpec
<1>1. IInv /\ [Next]_vars => [RS!Next]_(RS!vars)
  BY StepRefines
<1> QED
  BY <1>1, InitRefines, Invariance, PTL DEF Spec, RefStoreSpec, RS!Spec
=============================================================================
