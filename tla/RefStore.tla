------------------------------ MODULE RefStore ------------------------------
(***************************************************************************)
(* What StorageBackend::update_refs promises (the trait's documentation):  *)
(* a batch lands as one all-or-nothing step, and only when every ref it    *)
(* names has, at that instant, exactly the old value the client saw - an   *)
(* absent ref for a create, the named value for an update or a delete.     *)
(* A call may also fail, for this or any other reason; then nothing of it  *)
(* is ever seen in the store.  Where the store is across a network, one    *)
(* more outcome is possible: the batch has landed and its answer is lost,  *)
(* which the caller cannot tell from a failure.                            *)
(***************************************************************************)
EXTENDS RefUpdates

CONSTANTS
  Callers,  \* concurrent calls of update_refs
  Updates,  \* the updates a client may send
  Remote    \* may the answer of a landed batch be lost?

VARIABLES
  refs,     \* the refs of the repository
  phase,    \* where each call is
  batch     \* the updates each call was given

vars == <<refs, phase, batch>>

Init ==
  /\ refs \in [Refs -> Value]
  /\ phase = [c \in Callers |-> "idle"]
  /\ batch = [c \in Callers |-> EmptyBatch]

\* The protocol layer calls update_refs.
Call(c) ==
  /\ phase[c] = "idle"
  /\ phase' = [phase EXCEPT ![c] = "pending"]
  /\ UNCHANGED refs
  /\ \E b \in BatchOf(Updates) : batch' = [batch EXCEPT ![c] = b]

\* The compare-and-swap of the whole batch, in one step.
Land(c) ==
  /\ phase[c] = "pending"
  /\ \A r \in DOMAIN batch[c] :
       WellFormed(batch[c][r]) /\ refs[r] = batch[c][r].old
  /\ refs' = Apply(refs, batch[c])
  /\ phase' = [phase EXCEPT ![c] = "applied"]
  /\ UNCHANGED batch

\* The call gives up and changes nothing.
Reject(c) ==
  /\ phase[c] = "pending"
  /\ phase' = [phase EXCEPT ![c] = "err"]
  /\ UNCHANGED <<refs, batch>>

\* Ok(()) reaches the caller, after the batch landed.
ReturnOk(c) ==
  /\ phase[c] = "applied"
  /\ phase' = [phase EXCEPT ![c] = "ok"]
  /\ UNCHANGED <<refs, batch>>

\* An error reaches the caller, although the batch landed.
AnswerLost(c) ==
  /\ Remote /\ phase[c] = "applied"
  /\ phase' = [phase EXCEPT ![c] = "unknown"]
  /\ UNCHANGED <<refs, batch>>

\* The request ends; the same worker may serve another one.
NextRequest(c) ==
  /\ phase[c] \in {"ok", "err", "unknown"}
  /\ phase' = [phase EXCEPT ![c] = "idle"]
  /\ batch' = [batch EXCEPT ![c] = EmptyBatch]
  /\ UNCHANGED refs

Next ==
  \E c \in Callers :
    \/ Call(c) \/ Land(c) \/ Reject(c)
    \/ ReturnOk(c) \/ AnswerLost(c) \/ NextRequest(c)

Spec == Init /\ [][Next]_vars
=============================================================================
