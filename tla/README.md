# Formal verification of mizzle

mizzle is a git server library: it speaks the smart protocol over HTTP and SSH,
stores repositories through a `StorageBackend`, and lets the embedding forge
judge every push. This directory holds TLA+ models of it, TLC configurations
that check them on small instances, and TLAPS proofs for all instances.

    tlc -workers 2 -config Push.cfg MCReceivePack      # one run
    tlapm PackInstallProofs.tla                        # one proof module

Contents: [inventory](#inventory), [plan](#plan), [models](#models),
[runs](#runs), [proofs](#proofs), [findings](#findings),
[not modelled](#not-modelled).

## Inventory

| part | state | operations | what is hard | what makes it correct | module |
|---|---|---|---|---|---|
| Push pipeline: `serve.rs` (`recv_pack_post`, `serve_receive_pack`), `receive.rs`, `mizzle-proto/receive.rs` | one request: commands, staged pack, kinds, verdict | read, preliminary check, ingest, inspect, classify, authorise, roll back, update refs, report, hook | awaits between judging and updating; cancelled futures; each failing path undoes its own work | protected branches, truthful reports, the hook's view, refs never dangle | `ReceivePack` |
| `RepoAccess` (`traits.rs`), supplied by the forge | none here | `authorize_preliminary`, `authorize_push`, `post_receive` | sees a snapshot | judged push = applied push | `ReceivePack`, `JudgedPush` |
| `FsGitoxide` refs (`backend/fs_gitoxide.rs`) | ref files, lock files | `update_refs` | lock by lock, rename by rename | all-or-nothing compare-and-swap | `RefTransaction` |
| `FsGitoxide` packs | `objects/pack/*.pack, *.idx` | `ingest_pack`, `inspect_ingested`, `rollback_ingest` | content-named files shared by pushes, crashes, two-step installation | no index without its pack, no reader sees half a pack | `ReceivePack` |
| `FsGitoxide` reads | none | `list_refs`, `resolve_ref`, `has_objects`, `build_pack` | a thread writes the pack while a reader sends it; packs are rewritten under a reader | the pack contains all that was asked for | `UploadPack`, `ObjectGraph` |
| `FsGitCli` | same files through `git` | same | child processes; unconditional rollback | same | fetch side: `UploadPack` |
| KV backend (`backend/kv`) | TiKV keys | `init_repo`, `ingest_pack`, `update_refs`, graph walks, `build_pack` | optimistic and pessimistic transactions, capped walks | one id per repository, compare-and-swap | `DatabaseStore`, `JudgedPush`, `UploadPack` |
| SQL backend (`backend/sql`) | tables | same | conditional statements in one transaction; one writer | compare-and-swap | same |
| Comparison (`auth.rs`) | tips listed before the judgement | `new_commits` | exclusion sets read early, walks over a store that changes | every commit a push adds is shown | `JudgedPush` |
| Fetch (`fetch.rs`, `pack.rs`, `mizzle-proto/fetch.rs`) | wants, haves, shallow commits | negotiation, selection, streaming | rounds are separate requests; refs move in between | the client ends up whole | `UploadPack`, `ObjectGraph` |
| Bitmaps and pack reuse (`bitmap.rs`, `find_reusable_pack`) | `.bitmap` of a pack | decode, union, cover | exclusive-or chains; a pack that a repack removes | reuse changes nothing but speed | `ObjectGraph` |
| Pack cache (`backend/pack_cache.rs`) | one file per request key | `try_hit`, `write` | written in place while it is read; requests for what is not there yet | a file whose wants were there when it was built is the pack a build would give; no other file should be served | `UploadPack` |
| SSH server (`servers/ssh.rs`) | channels, exec timer, tasks | channel open, env, exec, deadline | one timer for a connection with many channels; a disconnect that waits in a queue | the timer fires only while a channel has had no command | `SshSession` |
| LFS (`lfs/`, `mizzle-proto/lfs.rs`) | object files | batch, upload, download, verify | concurrent uploads, torn temporaries | an object has its hash and size | `LfsStore` |
| HTTP server (`servers/axum.rs`) | none | routing | drops futures of clients that leave | (in the pipelines) | `Cancel`, `Drop`, `Severed` |
| Inspection, signatures, pkt-lines | none | pure functions on bytes | formats | not a matter of states | none |

A push touches the parts in this order: server → pipeline → forge
(preliminary) → pack store → forge (full, through the comparison) → ref store →
client → forge (hook). A fetch: server → ref listing → client → negotiation
(has_objects) → selection → cache or thread or child process → client. The only
state two requests share is the repository: refs and their locks, packs or
object tables, the pack cache; and the channels and the timer of an SSH
connection. Nothing in the server serialises requests to one repository.

The hazards, each at its line and with the properties that cover it, are listed
in `PROJECT.json`.

## Plan

Done, in this order:

1. `RefUpdates`, `RefStore`, `RefTransaction`: the ref store and its contract.
2. `ReceivePack`: the whole push pipeline over the pack store, with the ref
   store as `RefStore` abstracts it (one atomic step per batch).
3. `LfsStore`: the LFS requests on the filesystem store.
4. `DatabaseStore`: the KV and SQL backends, two more implementations of
   `RefStore`.
5. `CommitGraph`, `JudgedPush`: pushes over them, judged through `new_commits`.
6. `ObjectGraph`, `SshSession`, `UploadPack`: fetches from all four backends.
7. Proofs: `RefTransactionProofs`, `ReceivePackProofs`, `PackInstallProofs`,
   `LfsStoreProofs`, `CommitGraphProofs`, `JudgedPushProofs` (with the part
   about `DatabaseStore`), `ObjectGraphProofs`, `UploadPackProofs`. Every
   invariant and every action property of a passing run is a theorem.

Next:

8. A crash between two renames of `commit()`; the `FsGitCli` push side with its
   unconditional rollback; refnames repeated in a push.
9. `compute_push_kind`, `dropped_commits` and `ref_diff` over the database
   backends.
10. What is left of `NoDanglingRefs` when only one of the two switches of
    `ReceivePack` is on, stated and proved, as `RollbackComplete` is.

## Models

### RefUpdates

A command of a push (`RefUpdate`: old and new id, the null id for "no ref"), a
batch of them as a function from refnames, what a batch does to the refs
(`Apply`), and the `PreviousValue` constraint `update_refs_sync` derives from a
command (`PreviousValueOK`). A batch names each ref once.

### RefStore - the contract

The documentation of `StorageBackend::update_refs`: a call is pending until the
whole batch lands in one step, with every ref at exactly the old value the
client saw, or it fails and nothing of it is ever seen. `Remote` adds what no
store across a network can rule out: the batch has landed and its answer is lost
(`AnswerLost`), so that an error reaches the caller.

### RefTransaction - what FsGitoxide does

| state | code |
|---|---|
| `loose` | contents of `refs/...` |
| `lock` | `<ref>.lock` and the transaction that made it |
| `pc`, `batch` | the call in progress and its edits |
| `checked` | edits that `prepare` has finished with |

`UpdateRefs` builds the edits. `prepare()` is `LockRef`, `CheckRef` for one ref
after another in any order; it ends in `Prepared`, or in `LockBusy`
(`Fail::Immediately`), `CheckFails` or `PrepareError`, which drop the
transaction and its lock files. `commit()` is `CommitUpdate` per changed ref,
then `CommitDelete` and `UnlockDeleted` per deleted one, then `CommitDone`.
gix-ref and gix-lock are libraries: their steps come from how
`update_refs_sync` calls them and from what `design/concurrency.md:68-72` relies
on (the old value is compared under the ref's lock). Those definitions are
marked external.

Refinement mapping: `Published` takes the new value of every ref that a
committing call still has locked, so the linearisation point is `Prepared`.
`Remote` is off: an error of FsGitoxide means that nothing landed.

### ReceivePack - the push pipeline

| state | code |
|---|---|
| `refs` | the ref store |
| `file[f][k]` | `pack-<k>.pack` and `pack-<k>.idx` in `objects/pack`: absent, partial, full |
| `advertised` | commits some ref has made reachable: what a client may believe the server has |
| `pc`, `req` | where each handler is and the request it serves |
| `owns` | `IngestedPack`: the files this request moved into place itself |
| `kinds`, `verdict` | `PushRef.kind` per ref, the answer of `authorize_push` |
| `landed`, `reply`, `hook` | whether update_refs succeeded, what the client got, what `post_receive` was told |

Each handler runs: `Receive` → `PreliminaryAccepts` → for `.pack` and then for
`.idx` `FileExists`, or `FileMissing` followed by `MoveFile` (rename) or
`CopyBegins`/`CopyEnds` (the cross-filesystem fallback of `move_file`) →
`Inspect` → `Classify` → `AuthorizeAccepts` → `UpdateLands` → `Report` →
`PostReceive`. The exits are `ReadFails`, `TooManyCommands`,
`PreliminaryRefuses`, `IngestFails`, `InspectFails`, `AuthorizeRefuses`,
`UpdateFails`, `ReportFails`, `Cancel` (an HTTP client leaves while inspection
runs on a blocking thread; the handler's future is dropped) and `Crash`.
`UnlinkIdx`, `UnlinkPack` are `rollback_ingest`. HTTP and SSH differ where the
code does: what `UpdateFails` leaves the client with, where the kinds for the
hook come from, and what a refused push without commands does next
(`AfterRollback`).

The object graph is `Anc` (each commit's ancestors and itself). A pack has
`Contents`; `Readable` is what the object database can find: `Base` and the
contents of packs whose two files are complete. The walk of
`compute_push_kind` reads through packs that may vanish, so `PushKind` is a set:
a fast-forward whose history is not fully readable may be taken for a force
push. The forge is free to refuse anything; what it may accept is limited only
by `PolicyAllows`, branch protection on `Protected`. A command with two null ids
goes through like any other: nothing rejects it, `PushKind` is `Create`, and
`UpdateLands` deletes the ref. `ProtectedOnlyFastForwards` names this one
exception (`DeletedAsCreate`).

Assumption about clients (`ClientCompletes`): a client pushes a commit only if
the objects it leaves out of the pack are reachable from refs the server has
shown. `git push` behaves so.

### LfsStore - Git LFS on the filesystem

| state | code |
|---|---|
| `stored[o]` | the file `lfs/objects/xx/yy/<o>` |
| `temp[c]` | the `NamedTempFile` of client `c`'s last upload |
| `pc`, `req`, `rest`, `answer` | the request in progress, the unread part of its body, its HTTP status |
| `told` | objects each client was told the store has |
| `stuck` | clients whose last `remove_file` failed, which the code ignores |

Contents are sequences of chunks (one per read of the body); `Content[o]` is the
one whose SHA-256 is `o`, and hashes do not collide. `Batch` and `Verify` are one
`stat` each; a download is `GetStat`, `GetOpen`; an upload is `AlreadyPresent`,
or `CreateTemp`, `ReceiveChunk`..., `CheckPasses`, `Rename`, or `CheckFails`.
`CheckFails` removes the temporary file, or tries to. `IoError` covers every `?` and every 500; `Drop` is a request whose future the
server drops at an await, and a rename already handed to a blocking thread may
still happen; `Crash` ends all requests. `metadata()` may fail for reasons other
than a missing file, so `CreateTemp` is also possible when the object is there.
A PUT without `Content-Length` declares size 0 (`axum.rs`), so a right body is
answered 422. `design/lfs-backend-plan.md:268-271` has `authorize_lfs` called on
GET as well; `handle_download` does not call it and says so.

### CommitGraph

Reachability without recursion: `ClosedIn(known, S)` says that the parents of
every recorded commit of `S` are in `S`; `AncestorsIn(known, S)` is the smallest
such set above `S`. A walk of the code goes commit by commit and is compared
with it.

### DatabaseStore - KvBackend and SqlBackend

| state | code |
|---|---|
| `engine` | which of the two backends serves the repository |
| `index`, `counter`, `idLock` | `repo_index` / `repositories`, `next_repo_id` and its pessimistic lock |
| `refs`, `objects` | committed rows, by repository id |
| `lock` | TiKV: the key locks of pessimistic transactions. SQLite: the writer lock, which is all keys at once |
| `pc`, `repo`, `push` | the request, the id in the handle it opened, what its client sent |
| `batch`, `checked` | the argument of `update_refs` and the keys whose compare-and-swap has passed |

`Arrive` begins a request. `init_repo` on TiKV is `KvProbe`, `KvRecheck`,
`KvLockCounter`, `KvAllocate`; on SQLite one statement, `SqlInit`. `Open` or
`OpenFails`, `ReceivePush`, then `KvExtract`/`SqlExtract` and
`KvIngest`/`SqlIngest`, one transaction each. `update_refs` is `UpdateRefs`,
`KvCas` (lock a key, compare) or `SqlCas` (take the writer lock, compare) for one
command after another, and ends in `Stale`, `WaitFails`, or `Commit` followed by
`CommitReturns` or `CommitUnknown` (the answer of the database is lost: the
caller sees an error for refs that moved). `RollbackIngest` changes nothing in
the store, as in the code: the objects of refused pushes stay. `Fail`,
`BusyFails`, `UpdateFails` are the errors. TiKV and SQLite are libraries,
modelled from how the backends use them and marked external: committed data
changes in one step, a wait for a lock ends with the lock or with an error, an
unfinished transaction leaves nothing.

Refinement mapping: a batch lands at `Commit` (`PhaseOf`), with `Remote` on. The
outcome `CommitUnknown` is `RefStore`'s `AnswerLost` and nothing else is, so an
error after half a batch, or after a batch that had no right to land, would
break the refinement.

### JudgedPush - the comparison the forge judges by

Composes `DatabaseStore` with `auth.rs`. `KvListTips`/`SqlListTips` read
`existing_ref_tips` once; for each command `DeletedHasNone`, or `NewCommits`,
`KvExclude`/`SqlExclude` (the ancestors of the excluded tips),
`StartWalk`, `WalkStep` per commit (`fetch_parents` of a commit that is not
stored gives none, as in the code), `Show`. `WalkError` is the cap. `Accept`
calls `update_refs`; `Refuse` rolls back. The forge's rule is `Trusted`: it
accepts a push if every commit it is shown is trusted and refuses it when
`new_commits` fails.

### ObjectGraph - what goes into a pack

Pure functions over commits, trees and blobs: `objects_for_fetch` with depth,
filter and have-set (`ObjectsForFetch`, `Levels`, `ShallowBoundary`), bitmaps
whose entries are stored as the exclusive or with an earlier one
(`DecodeEntry`, `UnionBitmap`, `CoversExactly`, `HaveSet`), the tree walks of
the database backends (`NeededOids`, `HaveOids`), and git's `rev-list` and
`pack-objects` as FsGitCli calls them (external; `RevLists` is a set because
`--max-count` cuts an order that is not determined).

### SshSession - one connection

`link`, `channels` (open channels without a command), `timer` (no task, sleeping,
fired), `notice` (a disconnect waits for the session loop), `serving` (the task of
each channel and the protocol version it speaks) and `version` (`GIT_PROTOCOL`,
of the whole connection). `ChannelOpen` starts `EXEC_TIMEOUT` unless it has been
started, `Exec` and `ExecDenied` abort it. `Deadline` is the end of the sleep: the
task sends a disconnect and is done. `DropLate` is the session loop coming to
that message; a command that arrives in between is accepted, aborts nothing and
is cut off. `ExecFails` ends the connection with everything on it.

### UploadPack - fetches

| state | code |
|---|---|
| `setting` | the server: transport, backend, clients, options they use, commits they may want unseen, values others push, whether packs are rewritten |
| `refs`, `stored`, `bitmap` | the repository |
| `cache` | the files of the pack cache: key, objects, whole or torn, and which wants were not there when it was built |
| `phase`, `args`, `have` | the fetch of each session, `FetchArgs`, the haves the server knows |
| `haveSet`, `pack`, `cut` | `have_set`, the selected objects, `PackOutput.shallow` |
| `missed` | history: the wants the database lacked when it was walked for them |
| `worker`, `made`, `taken`, `leftover` | the thread or child that writes the pack, chunks in the channel, and what an abandoned fetch leaves running: a thread, or a build on the blocking pool |
| `held`, `lacking`, `shallows` | what each client has, its filter, its shallow commits |

A client lists refs (`AdvertiseRefs` in version 1, `ListRefs` in version 2, by
id or by name) and asks; `AskUnseen` asks for a commit it knows from elsewhere,
which the store has, has not yet, or never gets; a partial clone asks for one
object (`LazyFetch`).
`Negotiate`, `FinalRequest` and `FetchV1` resolve names again and look haves up;
`Refuse` is a request refused while it is read. FsGitoxide: `FindReusable` and
`ShipAsIs` or `ShipFails`, else `FindHaveSet`, `SelectObjects`; FsGitCli:
`CliRevList`, `CliPackObjects`; to both a want that is not there is an error
(`UnknownWant`). Databases: `CacheHit`, else needed objects, subtraction and
reads, each a read of its own, then `CacheCreate`, `CacheWritten`, `CacheFull` or
`CacheWriteFails`; a want that is not there is left out, and the file is written
all the same. Streaming is `SendChunk`,
`ReadChunk`, `WorkerEnds`, `WorkerFails`, `StreamDone`, `StreamFails`, or one
step from memory or file. `Error`, `Severed` (the client or the connection goes)
and `Crash` are the faults. An abandoned fetch leaves its pack thread
behind, which ends when a send fails (`SendFails`), or its build on the blocking
pool, which goes on and still writes the cache file (`LeftCreates`, `LeftWrites`,
`LeftFails`). `Push` and `Repack` are the others who use the repository.

A client is git: it accepts an answer only if it is complete and the pack in it
is whole and connects what was wanted (`StreamTorn` otherwise), starts with whole
history, names as haves nothing or all it has, and merges what it gets. A client
that did a shallow fetch speaks version 2.

## Runs

| run | configuration | shows |
|---|---|---|
| `ref_transaction` | 2 calls, 2 refs, 2 commits, create/update/delete in any batch, calls repeated without bound | implements `RefStore`; no lock outlives its call; what was checked is true when overwritten; every call returns |
| `push` | 2 handlers, 4 commits, 3 packs, 8 kinds of request over both transports, one with two null ids, no two packs in flight alike | refs never dangle; an index implies its pack; reused files are complete; rollback precedes refusal; the hook sees the judged kinds; protected branches only move forward, but for the command with two null ids |
| `push_races` | 2 handlers pushing the same pack, installed by copying; `MaxRefUpdates` = 1 so that the limit is hit | reports are truthful, the hook runs only for landed and accepted pushes, branch protection holds, and every push is decided without waiting for another |
| `judged_push` | both engines, 2 handlers, 2 refs, 4 commits of which one breaks the rule, 5 pushes, `Cap` = 2 | no untrusted commit gets under a ref; refs never dangle; a finished walk is exact; `update_refs` implements `RefStore`; every request returns, lock conflicts included |
| `upload_pack` | 9 settings over all backends and both transports, 2 clients, 3 commits, shared trees | clients stay whole and get what they want; cached packs whose wants were there are what a build gives; errors are never taken for packs; the exec timeout fires only on silence; every fetch ends |
| `lfs_store` | 2 clients, 2 objects of one and two chunks, right uploads, too short, wrong and undeclared ones | names hold whole objects; objects stay; what a client was told stays true; answered uploads leave no temporary file |
| `push_shared_pack` | violation | finding 1 |
| `push_cross_device` | violation | finding 2 |
| `push_hook_skipped` | violation | finding 3 |
| `kv_init` | violation | finding 4 |
| `torn_cache` | violation | finding 5 |
| `stale_pack` | violation | finding 6 |

**Bounds.** Every handler, client and session serves requests for ever, so runs
of any length are covered; only sets are bounded. Two handlers are enough for
each hazard listed: each is a conflict between one request and one other.

- `push`: four commits give a race from one old value (`b`, `c`), a chain (`a`,
  `b`, `d`) in which one push needs objects another brought, a rewind, a
  deletion, and a command with two null ids on the protected branch.
- `judged_push`: an untrusted commit `x` under a trusted `y`, so that looking at
  tips only is not enough; a second push of `y` without a pack, which relies on
  what a refused push left; two pushes that lock the same two refs; a deletion
  and a rewind of tips another push has listed. `Cap` = 2 ends the longest
  walk. `Ids` = {1} because the repository is initialised once in this run;
  `kv_init` has two ids.
- `upload_pack`: `a` and two children, so there is a common ancestor, a rewind,
  and a client ahead of the server; a root tree of one commit is a directory of
  another and the root of a third, so that a tree is met twice. `Chunks` = 2 and
  `InFlight` = 1 make the thread wait for its reader, `MaxFiles` = 1 fills
  the disk, `MaxHaves` = 2 is exceeded by a client with three commits. A setting
  is fixed for a behaviour: clients meet only in the cache and in the channels
  of a connection, so two of them run only there. One abandoned thread
  or build at a time (`NoneLeft`). Three of the settings, and `stale_pack`, let
  clients ask for `x` whether it has been pushed or not.
- `lfs_store`: an object of two chunks is enough to stop between chunks and to
  permute them.

Handlers are symmetric in `push` and clients in `lfs_store`, which check no
liveness.

**The two switches of ReceivePack.** `SharedPacks` lets two requests in flight
carry the same pack; `CrossDevice` makes `move_file` copy. With either on, refs
can dangle (findings 1 and 2), so the storage invariants are checked with both
off and the properties that do not depend on storage with both on.

**Fairness.**

- `RefTransaction`: weak fairness of `Work(c)`; a call is a synchronous function
  on a blocking thread and waits for nobody (`Fail::Immediately`). Errors
  (`PrepareError`) are not fair.
- `ReceivePack`: weak fairness of `Decide(p)`, the steps a handler takes by
  itself on disk, ref store and authoriser. Steps that need the client are not
  fair: it may stall for ever, and mizzle sets no timeout on it.
  `EveryPushDecided` ends where the answer is ready to be written.
- `JudgedPush`: weak fairness of `Work(h)`: a request is one future that the
  runtime keeps polling. A wait for a lock is part of it, and ends by the
  database's own timeout (`WaitFails`, `BusyFails`). Arrivals and errors are not
  promised.
- `UploadPack`: weak fairness of `Serve(s)` and `SendFails(s)`: the runtime
  polls, the thread is scheduled, git runs, a send into a channel without a
  reader fails (the wait for a leftover thread is a wait of the model's bound,
  not of the code). `Serve` includes sending to the client, so a client that stays
  connected is assumed to read: no code of mizzle bounds that wait. Clients may
  leave at any time (`Error`, `Severed`), and nothing is promised of what they
  ask for.

**Deadlock** is checked in every run.

**Mutants.** Each property of a passing run is broken by a mutant of one
definition: `UnlockedCheckRef` checks without the lock, `PackFirst` removes the
pack before its index, `BlindUpdate` ignores the old value, `ShowPackOnly` shows
the forge only what the push shipped, `RawEntry` forgets the exclusive or of a
bitmap entry, `KeyWithoutHaves` leaves the haves out of the cache key. They
stand next to the definitions they mutate, marked `mutant`.

## Proofs

All hold for every set of refs, commits, handlers, packs, requests and clients,
and for every commit graph.

| theorem | states | from |
|---|---|---|
| `RefTransactionProofs!TypeCorrect`, `LocksReleased`, `CompareAndSwap` | the invariants of `ref_transaction` | |
| `RefTransactionProofs!Refinement` | `Spec => RefStoreSpec` | no update has two null ids (they break the contract, see below) |
| `ReceivePackProofs!TypeCorrect`, `ReportsAreTruthful`, `HooksFollowLanding` | shapes, `ReportTruthful`, `HookOnlyAfterLanding` | nothing about packs or filesystems |
| `ReceivePackProofs!BranchProtection` | protected branches only appear or fast-forward, or are deleted by a command with two null ids; shared packs and copies included | |
| `PackInstallProofs!IndexNeverWithoutPack`, `RefsNeverDangle`, `ReuseIsSafe`, `HookSeesJudgement` | the storage invariants of `push`, and that the hook sees the judged kinds | `SharedPacks` and `CrossDevice` off |
| `PackInstallProofs!RollbackIsComplete` | `RollbackComplete`, renamed or copied | `SharedPacks` off |
| `LfsStoreProofs!TypeCorrect`, `ObjectsIntact`, `PromisesAreKept`, `ObjectsPermanent`, `UploadsCleanUp` | all properties of `lfs_store` | |
| `JudgedPushProofs!TypeCorrect`, `RefsNeverDangle`, `WalksAreExact`, `OnlyTrustedHistory` | the invariants of `judged_push` | |
| `JudgedPushProofs!CompareAndSwap` | `Spec => RefStoreSpec` for TiKV and SQLite, answers lost | no command has two null ids |
| `UploadPackProofs!DeadlineFair`, `ErrorsAreSeen` | `DeadlineNeedsSilence`, `ErrorsReachClient` | |
| `UploadPackProofs!TypeCorrect`, `CachedPacksStayRight`, `ClientsStayWhole`, `WantsAnswered` | `TypeOK`, `CacheSound`, `FetchedComplete`, `WantsDelivered`, for all backends and both transports, whatever ids clients ask for | there are finitely many commits |
| `ObjectGraphProofs!DecodedBitmaps`, `HaveSetsAgree`, `ReuseIsExact` | a bitmap gives what a walk gives: entry by entry, for the have-set, for a pack sent as it is | there are finitely many commits |
| `ObjectGraphProofs!BackendsAgree` | a plain request gets the same pack from all four backends | the store has the wants and haves with their history |
| `ObjectGraphProofs!ShallowFetch`, `FetchCompletes`, `CliFetchCompletes`, `ReuseCompletes` | what each way to build a pack does for a client that is complete but for its filter (`Sound`): it is complete again, up to the shallow lines it gets, and has its wants (`Answers`) | there are finitely many commits |

**RefTransaction.** `IInv` = `TypeOK` ∧ `NoStrayLock` ∧ `CheckedStillCurrent`
is inductive. `CheckedStillCurrent` alone is not: that nobody else overwrites a
checked ref rests on its lock belonging to a call that is still preparing or
committing. For the refinement, preparing and committing are invisible under
`Published` (`PrepareInvisible`, `CommitInvisible`) and `Prepared` is `Land`:
the locks make the checked constraints true of all refs at once
(`PreparedLands`). The assumption on null ids is needed: FsGitoxide deletes
the ref of such a command whatever its value.

**ReceivePack.** `JInv` adds to the reported facts what they follow from:
`Progress` (which handler positions go with which values of `landed`, `reply`,
`hook`) and `Consent` (a push at `update` was accepted, and its kinds are
kinds its commands can have). Branch protection then needs no lock: `Consent`
ties the kind to the *client's* old value, the compare-and-swap ties that value
to the ref at the moment it moves. For a command with two null ids it does not,
and the proof ends in the exception, with the kind the authoriser was shown.

**Storage.** `RefsNeverDangle` needs the most strengthening. `PInv` is `JInv`
with: `Exclusive` (no two pushes in flight carry one pack), `Renamed` (no
partial files), `IndexedPackComplete`, `Installs` (at each point of a request,
which of its files are in place and owned), `Closed` (a
push brings, together with what was ever advertised, the whole history of what it
wants refs to point at) and `Backed` (what was ever reachable from a ref is in
`Base` or in a complete pack that no rollback can still remove). `Backed` is the
heart: rollback only removes files that no ref depends on. `HookSeesJudgement`
adds `JudgedOK`: under `PInv` a walk reads the whole history, so the kinds are
exact, and SSH, which works them out again, gets the same. `RollbackIsComplete`
needs less, `Exclusive` and `Undone` (what a rollback has removed is gone), and
so holds across filesystems too; TLC checked it with `CrossDevice` on first
(6.5 million states, too long to be kept as a run).

**LfsStore.** `LInv` adds to `StoredIntact` and `PromisesKept` what they rest on:
`Checked` (a file about to be renamed is the object) and `Pending` (an answer on
its way that confirms an object is true). Permanence follows: a rename over a
stored object replaces it by the same bytes. `NoTemp` says where in a request a
temporary file can be; a refusal may leave one only if `remove_file` failed.

**DatabaseStore.** `TInv` are shapes; `SInv` adds that stored objects are closed
under parents, that refs and pending batches only name stored commits, and
that a checked key is locked by its request and still has the value it was
compared with. The last is the linearisation argument: at `Commit` all keys
are checked, so the batch lands as one.

**JudgedPush.** Everything `DatabaseStore` proves holds of the composition
(`BackendUsed`). Call a commit good if its history is trusted. `JInv` says: refs
are good (`RefsGood`), accepted batches are good (`BatchGood`), listed tips were
refs once and are therefore good however stale, the exclusion set is the exact
history of good commits and of commits shown before, and each walk has found
what it has expanded (`SeenOK` and its parts). Hence what is not shown is good,
and a push whose shown commits are trusted has a good tip. That walks are exact
although the store grows rests on `ClientCompletes`: history needed by a walk was
stored before it began.

**ObjectGraph.** Walks over trees are least fixed points (`TreeWalk`), so facts
about them are about closed sets: what a walk finds is closed (`BelowClosed`,
`DescendClosed`) and within every closed set above its start (`BelowLeast`).
`WalkSplit` is used everywhere: a walk that skips a set finds, together with
everything under that set, what a walk without it finds. Recursive functions
(`Levels`, `DecodeEntry`) are handled by least counterexample: every nonempty set
of numbers has a least element (`LeastNumber`, from well-foundedness), so a chain
of bitmap entries decodes to the right sets and the levels of a shallow fetch
cover the parents of all but the last. `BitmapOK` is what a pack with a bitmap
promises (its commits are closed, each entry decodes to the history of its
commit); `WrittenBitmapOK` shows that what `Repack` writes has it. Finiteness
of `Commits` (`FiniteAssumption`) is needed to put the commits of a pack in an
order.

**UploadPack.** `TimerOK` (a sleeping timer means a live connection with a channel
that has had no command) and `WorkerOnlyStreams` (only a streaming session has a
worker) are enough for the first two. The others rest on `FetchInv`, which is
`DInv` or `FInv`: a server has one backend.

- `DInv`, databases: of each session what has been computed so far
  (`SessionOK`), of each cache file and of each build left running that it is a
  build for its key over what is stored, if its wants were there when it was
  walked (`Right`, `FileOK`, `LeftOK`). The key lemmas: `SelectionStable`, a
  selection for stored wants does not change when the store grows, so a cached
  file stays right, and a want that is stored stays so; `ContentCompletes`,
  needed minus had completes every client that really has its haves. Wants
  themselves may be anything.
- `FInv`, file backends: a client is complete up to its shallow commits and its
  filter (`Complete`); one with shallow commits gets no further than to ask
  (version 2 does not read shallow lines, and in the model shallow clients do
  not use version 1), so haves of a fetch that is built on stand for their whole history; the have-set in hand is
  the one a walk finds, although a repack may have replaced the bitmap it came
  from; and a session with a selected pack will be complete with it and its
  shallow lines (`Fits`). That the haves stand for their history is what makes
  it inductive: with it each way to build a pack `Answers` the request.
- The shapes add `SshOK`, `ChunksOK`, `OneFilePerKey`, and `PacksOK`, which needs
  `FetchInv`: a selection consists of objects because each backend's walk stays
  within the repository.

TLC checked `FInv` on the instance of `upload_pack` before it was proved.

**Only model-checked:** the liveness properties `EveryCallReturns`,
`EveryPushDecided`, `EveryPushReturns` and `EveryFetchEnds` (liveness under
fairness is out of the prover's reach), and the refuted statements of the runs
that expect a violation.

## Findings

Refuted by a run:

1. **Rollback of a shared pack** (`push_shared_pack`, `fs_gitoxide.rs:571`). A
   and B push the same pack. A installs it, B finds it in place and does not own
   it; A is refused and removes it; B's refs land on objects that are gone.
   `design/concurrency.md:293-295` proposes the existence check as the fix of
   this race; it closes only the direction in which B is refused.
2. **Partial files are reused** (`push_cross_device`, `fs_gitoxide.rs:920`).
   When staging and repository are on different filesystems, `move_file` copies
   onto the final name. After a crash or a full disk a partial `.idx` remains
   and the retry takes it for complete; inspection reads the `.pack` only.
3. **Skipped hook** (`push_hook_skipped`, `receive.rs:65`). `post_receive` is
   documented to run after refs were updated; a client that leaves before the
   report makes the server skip it.
4. **Two ids for one repository** (`kv_init`, `kv/mod.rs:128`). The re-check of
   `init_repo` reads the transaction's snapshot and locks nothing but the
   counter: the second of two initialisers overwrites the id of the first.
5. **Torn cache file served** (`torn_cache`, `pack_cache.rs:99`). The file is
   written under its final name, and whoever finds the name takes it for the
   pack. `FetchedComplete` holds all the same: git refuses a truncated pack.
6. **Stale cached pack** (`stale_pack`, `pack_cache.rs:81`). A want the database
   does not have is no error: the pack is built without it and cached. When the
   commit is pushed later, the same request still gets that file, and git
   refuses it, fetch after fetch, until the file is removed. The cache rests on
   "the set of objects reachable from a fixed set of OIDs is immutable"
   (`pack_cache.rs:3-8`), which is so only once the objects are there, and wants
   "can be anything" (`mizzle-proto/fetch.rs:9-11`). `CacheSound` says what
   does hold.

Seen while modelling, and in the model as the code has it:

- The trait says a failed compare-and-swap is reported as `ng <ref> stale info`
  (`backend/mod.rs:205-207`); the client gets an empty body (HTTP) or an error
  (SSH) (`serve.rs:294`).
- A command with two null ids deletes the ref whatever its value
  (`fs_gitoxide.rs:320`; `backend/mod.rs:199-201`), and is classified as a
  creation (`fs_gitoxide.rs:417`): the exception of `ProtectedOnlyFastForwards`.
- The comment on `new_commits` (`auth.rs:242-245`) says the old value of the ref
  is excluded; the code (`:246-251`) does not exclude it. A fast-forward of a ref
  whose history no other ref has shows all of it as new: the forge sees more
  than it should, never less.
- `want-ref` names are resolved anew for each request, a name that is gone is
  skipped without an error, and no `wanted-refs` section is sent.
- Version 2 `shallow` lines are "unrecognised": a client that did a shallow fetch
  cannot fetch again (`Unreadable`).
- The database backends ignore `deepen` and `filter`.
- `--max-count` of FsGitCli counts commits where `deepen` counts levels
  (`mizzle-proto/fetch.rs:48-49`).
- A request that wants a tree by id together with a commit that has it skips the
  tree's entries.
- `EXEC_TIMEOUT` runs from the opening of a channel and is one for the
  connection: an idle second channel ends a connection whose first one is busy,
  and a command that arrives after the timeout has sent its disconnect is
  accepted and cut off. `DeadlineNeedsSilence` says what does hold.

Seen, and not in the model:

- `new_commits` is documented as parent-first (`backend/mod.rs:281`,
  `auth.rs:54`); the KV and SQL walks are breadth-first from the tip.
- Wants of annotated tags pack the tag object only (`pack.rs:79-84`); the model
  has no tags.
- The version 1 parser stops at the first flush, before the haves of common
  clients, and ignores `shallow` lines; shallow clients of the model speak
  version 2.
- A connection that authenticates and never opens a channel never starts
  `EXEC_TIMEOUT`, which `ssh.rs:15-17` describes as starting after authentication.

## Not modelled

- A crash or an I/O error in the middle of `commit()` of a ref transaction:
  gix-ref has no recovery, and all-or-nothing does not survive it.
- `Crash` takes effect between file operations; after it, disks keep what was
  written (no loss of unsynced data; FsLfs renames without fsync).
- `init_bare` of the file backends, which is gix's and git's code.
- Errors of `remove_file` in `rollback_ingest`, which the code ignores: the
  file would stay, as after `Cancel`. (Those of the LFS store are modelled.)
- A fetch that meets a push half ingested: `Push` of `UploadPack` is one step, as
  the ingest transactions of the databases are; FsGitoxide's installation, file
  by file, is in `ReceivePack`.
- A push that names a ref twice; symbolic refs; packed refs (only their lock,
  as a reason for `PrepareError`).
- The push side of `FsGitCli`: `update-ref --stdin` and `index-pack` are git's
  code. Its rollback removes the pack unconditionally, also one that was there
  before: finding 1 in both directions.
- `compute_push_kind`, `tree_diff`, `dropped_commits` and `ref_diff` over the
  database backends: reads that change nothing. `ReceivePack` has the kinds of
  FsGitoxide.
- Signature verification and pack inspection: cryptography and parsing;
  `ReceivePack` has their outcome.
- Byte formats: pkt-lines, packs and deltas, `.bitmap` and `.rev` files, SQL
  text, HTTP headers and status codes of fetches.
- Refs start within a closed set of commits that are never removed. Garbage
  collection is not part of mizzle; `Repack` is an administrator's.
- What the forge checks beyond branch protection (`ReceivePack`) and content
  rules on commits (`JudgedPush`): it may refuse anything.
- A client of `UploadPack` that lies about its haves, and depths that are
  relative or by date, for which there is no code.
