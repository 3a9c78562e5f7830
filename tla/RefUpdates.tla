----------------------------- MODULE RefUpdates -----------------------------
(***************************************************************************)
(* The commands of a receive-pack request and what a batch of them does to *)
(* the refs of a repository.  A command names a ref, the value the client  *)
(* saw there (old) and the value it wants (new); the null object id stands *)
(* for "no ref".  Shared by the abstract contract (RefStore), the gix-ref  *)
(* transaction (RefTransaction) and the push pipeline (ReceivePack).       *)
(***************************************************************************)
CONSTANTS
  Refs,     \* names of refs
  Oids,     \* object ids of commits
  Null      \* the all-zero object id

ASSUME NullAssumption == Null \notin Oids

\* The value of a ref: an object id, or Null when the ref does not exist.
Value == Oids \union {Null}

\* One RefUpdate without its refname, which indexes the batch.
RefUpdate == [old : Value, new : Value]

\* A list of updates with distinct refnames, as a function of the refname.
BatchOf(updates) == UNION { [D -> updates] : D \in SUBSET Refs }

\* The list with no updates.
EmptyBatch == [r \in {} |-> Null]

\* A create, a delete or an update.  read_receive_request also lets a command
\* with two null ids through, so this is not a fact about requests.
WellFormed(u) == ~ (u.old = Null /\ u.new = Null)

\* The PreviousValue constraint FsGitoxide::update_refs_sync derives from an
\* update: MustExistAndMatch(old), MustNotExist, or MustExist for a deletion
\* that names no old value.
PreviousValueOK(cur, u) ==
  \/ u.old # Null /\ cur = u.old
  \/ u.old = Null /\ u.new # Null /\ cur = Null
  \/ u.old = Null /\ u.new = Null /\ cur # Null

\* Every edit of a batch applied at once.
Apply(refs, b) ==
  [r \in Refs |-> IF r \in DOMAIN b THEN b[r].new ELSE refs[r]]
=============================================================================
