----------------------------- MODULE UploadPack -----------------------------
(***************************************************************************)
(* Fetches: refs are listed, haves negotiated, a pack built by one of the  *)
(* four backends and streamed, over HTTP (one request for each step) or in *)
(* the channels of one SSH connection.  Clients start with what they have, *)
(* fetch again and again, shallow, filtered or whole, what the refs show   *)
(* or an id they have from elsewhere, and while they do other clients      *)
(* push, packs are rewritten, the disk fills and the server is restarted.  *)
(***************************************************************************)
EXTENDS ObjectGraph, SshSession

CONSTANTS
  Names,       \* names of refs
  Null,        \* no object
  FirstStored, \* commits in the store at the start
  FirstHeld,   \* commits each client has at the start
  Settings,    \* transport, backend, clients, the options they ask for, the
               \* commits they ask for unseen, the values others push, and
               \* whether packs are rewritten
  Chunks,      \* chunks of a streamed pack
  InFlight,    \* capacity of the channel between the pack thread and its reader
  MaxFiles,    \* cache files the disk has room for
  MaxHaves     \* max_haves

ASSUME ChunksAssumption == Chunks \in Nat \ {0} /\ InFlight \in Nat \ {0}
ASSUME FirstAssumption ==
  /\ FirstStored \subseteq Commits /\ ClosedIn(Commits, FirstStored)
  /\ FirstHeld \in [Sessions -> SUBSET Commits]
  /\ \A s \in Sessions : ClosedIn(Commits, FirstHeld[s])
ASSUME SettingsAssumption ==
  \A g \in Settings :
    /\ g.transport \in {"http", "ssh"}
    /\ g.engine \in {"gitoxide", "cli", "kv", "sql"}
    /\ g.transport = "ssh" => g.engine = "gitoxide"
    /\ g.clients \subseteq Sessions /\ g.options \subseteq Option
    /\ g.unseen \subseteq Commits
    /\ g.targets \subseteq Commits \union {Null}
    /\ g.repacked \in BOOLEAN

VARIABLES
  setting,   \* which server this is
  refs,      \* refs of the repository
  stored,    \* commits in the object store, each with its trees and blobs
  bitmap,    \* the pack with a reachability bitmap, if there is one
  cache,     \* files of the pack cache: key, objects, whole or torn, missed
  phase,     \* where each session is
  args,      \* FetchArgs
  have,      \* haves the server knows
  haveSet,   \* have_set
  pack,      \* the objects selected for the pack
  cut,       \* PackOutput.shallow
  missed,    \* history: wants the database lacked when it was walked for them
  worker,    \* the thread or child process that writes the pack
  made,      \* chunks written to the channel or pipe
  taken,     \* chunks read from it
  leftover,  \* the thread or the build of an abandoned fetch
  held,      \* objects each client has
  lacking,   \* the filter of a partial clone
  shallows   \* the shallow commits of a client

storeVars == <<setting, refs, stored, bitmap, cache>>
buildVars == <<haveSet, pack, cut, missed>>
workVars == <<worker, made, taken, leftover>>
clientVars == <<held, lacking, shallows>>
vars == <<sshVars, storeVars, phase, args, have, buildVars, workVars,
          clientVars>>

NoArgs == [want |-> {}, names |-> {}, version |-> 2,
           opts |-> [deepen |-> 0, filter |-> "none", thin |-> FALSE]]

\* Nothing of an abandoned fetch is running.
NoWork == [at |-> "none"]

Init ==
  /\ SshInit
  /\ setting \in Settings
  /\ refs \in [Names -> FirstStored]
  /\ stored = FirstStored
  /\ bitmap = NoBitmap
  /\ cache = {}
  /\ phase = [s \in Sessions |-> "idle"]
  /\ args = [s \in Sessions |-> NoArgs]
  /\ have = [s \in Sessions |-> {}]
  /\ haveSet = [s \in Sessions |-> {}]
  /\ pack = [s \in Sessions |-> {}]
  /\ cut = [s \in Sessions |-> {}]
  /\ missed = [s \in Sessions |-> {}]
  /\ worker = [s \in Sessions |-> "none"]
  /\ made = [s \in Sessions |-> 0]
  /\ taken = [s \in Sessions |-> 0]
  /\ leftover = [s \in Sessions |-> NoWork]
  /\ held = [s \in Sessions |-> ClosureOf(FirstHeld[s])]
  /\ lacking = [s \in Sessions |-> "none"]
  /\ shallows = [s \in Sessions |-> {}]

Goto(s, p) == phase' = [phase EXCEPT ![s] = p]

transport == setting.transport
engine == setting.engine

\* The request or the channel this session talks through is there.
Connected(s) ==
  IF transport = "http" THEN s \in setting.clients ELSE serving[s] # 0

Db == engine \in {"kv", "sql"}

(***************************************************************************)
(* The repository while fetches run                                        *)
(***************************************************************************)

\* A push adds commits with their history and moves, rewinds or deletes refs.
Push ==
  /\ \E n \in Names, c \in setting.targets :
       /\ refs' = [refs EXCEPT ![n] = c]
       /\ stored' = stored \union Ancestors({c} \ {Null})
  /\ refs' # refs
  /\ UNCHANGED <<sshVars, setting, bitmap, cache, phase, args, have,
                 buildVars, workVars, clientVars>>

\* git repack -a -d -b: one pack with a bitmap replaces all packs.
Repack ==
  /\ setting.repacked
  /\ bitmap' = WithBitmap(stored)
  /\ bitmap' # bitmap
  /\ UNCHANGED <<sshVars, setting, refs, stored, cache, phase, args,
                 have, buildVars, workVars, clientVars>>

(***************************************************************************)
(* What a client asks for                                                  *)
(***************************************************************************)

\* Refs with a value the client does not have.
News(s) == { n \in Names : refs[n] \notin held[s] \union {Null} }

\* The client makes up a request.
Ask(s, want, names, v) ==
  /\ \E o \in setting.options :
       args' = [args EXCEPT ![s] =
         [want |-> want, names |-> names, version |-> v, opts |-> o]]
  /\ Goto(s, "listed")
  /\ UNCHANGED <<sshVars, storeVars, have, buildVars, workVars,
                 clientVars>>

Speaks(s, v) == transport = "ssh" => serving[s] = v

\* The advertisement of version 1, and the tips the client does not have.
\* Shallow clients are taken to speak version 2: in version 1 their shallow
\* lines would be ignored.
AdvertiseRefs(s) ==
  /\ Connected(s) /\ phase[s] = "idle" /\ Speaks(s, 1)
  /\ shallows[s] = {} /\ News(s) # {}
  /\ Ask(s, { refs[n] : n \in News(s) }, {}, 1)

\* ls-refs of version 2; the client may ask by name.
ListRefs(s) ==
  /\ Connected(s) /\ phase[s] = "idle" /\ Speaks(s, 2)
  /\ News(s) # {}
  /\ \/ Ask(s, { refs[n] : n \in News(s) }, {}, 2)
     \/ Ask(s, {}, News(s), 2)

\* Wants are not limited to what is advertised: the client has an id from
\* elsewhere, and the store may have the commit, not yet, or never.
AskUnseen(s) ==
  /\ Connected(s) /\ phase[s] = "idle" /\ Speaks(s, 2)
  /\ \E c \in setting.unseen \ held[s] : Ask(s, {c}, {}, 2)

\* The commits a client has, as far as it knows them.
History(s) == held[s] \intersect Commits

\* What a complete client would have: everything under its commits.
Under(s) ==
  Descend(TreesOf(History(s)), {})

\* A partial clone asks for one object it is missing, by its id.
LazyFetch(s) ==
  /\ Connected(s) /\ phase[s] = "idle" /\ lacking[s] # "none"
  /\ \E o \in Under(s) \ held[s] :
       args' = [args EXCEPT ![s] =
         [want |-> {o}, names |-> {}, version |-> 2,
          opts |-> [deepen |-> 0, filter |-> "blob:none", thin |-> FALSE]]]
  /\ Goto(s, "final")
  /\ UNCHANGED <<sshVars, storeVars, have, buildVars, workVars,
                 clientVars>>

(***************************************************************************)
(* Negotiation                                                             *)
(***************************************************************************)

\* want-ref lines are resolved again for every request; a name that is gone
\* is skipped.
Resolved(s) ==
  args[s].want \union ({ refs[n] : n \in args[s].names } \ {Null})

\* has_objects.  Objects are never removed, so it does not matter that they
\* are looked up one after the other.
Known(claims) == claims \intersect stored

\* The client names nothing, or all it has.
Claims(s) == {{}, History(s)}

WithinLimit(claims) == Cardinality(claims) <= MaxHaves

Resolve(s) ==
  args' = [args EXCEPT ![s].want = Resolved(s), ![s].names = {}]

\* A request of a shallow client has shallow lines: unrecognised in version 2.
Unreadable(s) == args[s].version = 2 /\ shallows[s] # {}

\* A request of version 2 without done: ready as soon as something is common,
\* unless the client wants to say done itself.
Negotiate(s) ==
  /\ Connected(s) /\ phase[s] = "listed" /\ args[s].version = 2
  /\ ~ Unreadable(s)
  /\ \E claims \in Claims(s), wait \in BOOLEAN :
       /\ WithinLimit(claims)
       /\ IF Known(claims) # {} /\ ~ wait
          THEN /\ Resolve(s)
               /\ have' = [have EXCEPT ![s] = Known(claims)]
               /\ Goto(s, "build")
          ELSE /\ Goto(s, "final")
               /\ UNCHANGED <<args, have>>
  /\ UNCHANGED <<sshVars, storeVars, buildVars, workVars, clientVars>>

\* The haves are looked up and the pack is built.
Answer(s) ==
  /\ \E claims \in Claims(s) :
       /\ WithinLimit(claims)
       /\ have' = [have EXCEPT ![s] = Known(claims)]
  /\ Resolve(s)
  /\ Goto(s, "build")
  /\ UNCHANGED <<sshVars, storeVars, buildVars, workVars, clientVars>>

\* A request of version 2 with done.
FinalRequest(s) ==
  /\ Connected(s) /\ phase[s] \in {"listed", "final"}
  /\ args[s].version = 2 /\ ~ Unreadable(s)
  /\ Answer(s)

\* perform_fetch_v1: one request, without acknowledgements.
FetchV1(s) ==
  /\ Connected(s) /\ phase[s] = "listed" /\ args[s].version = 1
  /\ Answer(s)

\* The session forgets the fetch.
Reset(s) ==
  /\ Goto(s, "idle")
  /\ args' = [args EXCEPT ![s] = NoArgs]
  /\ have' = [have EXCEPT ![s] = {}]
  /\ haveSet' = [haveSet EXCEPT ![s] = {}]
  /\ pack' = [pack EXCEPT ![s] = {}]
  /\ cut' = [cut EXCEPT ![s] = {}]
  /\ missed' = [missed EXCEPT ![s] = {}]
  /\ made' = [made EXCEPT ![s] = 0]
  /\ taken' = [taken EXCEPT ![s] = 0]
  /\ worker' = [worker EXCEPT ![s] = "none"]

\* The task of the session ends; over HTTP there is none.
EndTask(s) ==
  /\ serving' = [serving EXCEPT ![s] = 0]
  /\ UNCHANGED <<link, channels, timer, notice, version>>

\* An error is logged or ends the channel with exit status 1; the client has
\* no complete answer.
Fail(s) ==
  /\ Reset(s)
  /\ EndTask(s)
  /\ UNCHANGED clientVars

\* The request is refused while it is read.
Refuse(s) ==
  /\ Connected(s) /\ phase[s] = "listed"
  /\ Unreadable(s) \/ ~ \A claims \in Claims(s) : WithinLimit(claims)
  /\ Fail(s)
  /\ UNCHANGED <<storeVars, leftover>>

\* Wants that are not in the store.
Absent(s) == args[s].want \ ClosureOf(stored)

\* Over files such a want is an error: of the commit walk, of git rev-list or,
\* with the answer begun, of git pack-objects.
UnknownWant(s) ==
  /\ \/ engine = "gitoxide" /\ phase[s] = "select"
     \/ engine = "cli" /\ phase[s] = "build"
  /\ Absent(s) # {}
  /\ Fail(s)
  /\ UNCHANGED <<storeVars, leftover>>

(***************************************************************************)
(* build_pack of FsGitoxide                                                *)
(***************************************************************************)

Plain(o) == o.deepen = 0 /\ o.filter = "none" /\ ~ o.thin

Reusable(s) ==
  Plain(args[s].opts) /\ CoversExactly(bitmap, args[s].want, have[s])

\* find_reusable_pack has found the pack; its file is opened next.
FindReusable(s) ==
  /\ engine = "gitoxide" /\ phase[s] = "build" /\ Reusable(s)
  /\ pack' = [pack EXCEPT ![s] = PackFile(bitmap)]
  /\ Goto(s, "ship")
  /\ UNCHANGED <<sshVars, storeVars, args, have, haveSet, cut, missed,
                 workVars, clientVars>>

\* ship_pack_as_is; a pack is named after its contents, and a repack may have
\* removed the file.
ShipAsIs(s) ==
  /\ phase[s] = "ship" /\ PackFile(bitmap) = pack[s]
  /\ Goto(s, "memory")
  /\ UNCHANGED <<sshVars, storeVars, args, have, buildVars, workVars,
                 clientVars>>

ShipFails(s) ==
  /\ phase[s] = "ship" /\ PackFile(bitmap) # pack[s]
  /\ Fail(s)
  /\ UNCHANGED <<storeVars, leftover>>

\* The have-set, from the bitmap or by walking.
FindHaveSet(s) ==
  /\ engine = "gitoxide" /\ phase[s] = "build" /\ ~ Reusable(s)
  /\ haveSet' = [haveSet EXCEPT ![s] = HaveSet(bitmap, have[s])]
  /\ Goto(s, "select")
  /\ UNCHANGED <<sshVars, storeVars, args, have, pack, cut, missed,
                 workVars, clientVars>>

\* The reader and the thread, or the child process, start.
StartWorker(s) ==
  /\ worker' = [worker EXCEPT ![s] = "running"]
  /\ Goto(s, "stream")
  /\ UNCHANGED <<made, taken, leftover>>

\* Bound: one thread or build of an abandoned fetch at a time.
NoneLeft == \A t \in Sessions : leftover[t] = NoWork

\* objects_for_fetch_with_have_set; then the thread is spawned.
SelectObjects(s) ==
  /\ engine = "gitoxide" /\ phase[s] = "select" /\ Absent(s) = {}
  /\ NoneLeft
  /\ pack' = [pack EXCEPT ![s] =
       ObjectsForFetch(args[s].want, have[s], args[s].opts, haveSet[s])]
  /\ cut' = [cut EXCEPT ![s] =
       IF args[s].opts.deepen = 0 THEN {}
       ELSE ShallowBoundary(CommitWants(args[s].want), have[s],
                            args[s].opts.deepen)]
  /\ StartWorker(s)
  /\ UNCHANGED <<sshVars, storeVars, args, have, haveSet, missed, clientVars>>

(***************************************************************************)
(* build_pack of FsGitCli                                                  *)
(***************************************************************************)

\* git rev-list finds the boundary of a shallow fetch.
CliRevList(s) ==
  /\ engine = "cli" /\ phase[s] = "build" /\ args[s].opts.deepen > 0
  /\ Absent(s) = {}
  /\ \E listed \in RevLists(CommitWants(args[s].want), have[s],
                            args[s].opts.deepen) :
       cut' = [cut EXCEPT ![s] = CliShallow(listed)]
  /\ Goto(s, "select")
  /\ UNCHANGED <<sshVars, storeVars, args, have, haveSet, pack, missed,
                 workVars, clientVars>>

\* git pack-objects is spawned.
CliPackObjects(s) ==
  /\ engine = "cli" /\ Absent(s) = {}
  /\ \/ phase[s] = "build" /\ args[s].opts.deepen = 0
     \/ phase[s] = "select"
  /\ pack' = [pack EXCEPT ![s] =
       PackObjectsOut(args[s].want, have[s], cut[s], args[s].opts.filter)]
  /\ StartWorker(s)
  /\ UNCHANGED <<sshVars, storeVars, args, have, haveSet, cut, missed,
                 clientVars>>

(***************************************************************************)
(* build_pack of KvBackend and SqlBackend, and the pack cache              *)
(***************************************************************************)

KeyWithoutHaves(s) ==                                           \* mutant
  [want |-> args[s].want, have |-> {}, opts |-> args[s].opts]

\* The key of a request within the repository.
CacheKey(s) ==
  [want |-> args[s].want, have |-> have[s], opts |-> args[s].opts]

FilesOf(key) == { f \in cache : f.key = key }

CacheFiles(s) == FilesOf(CacheKey(s))

\* try_hit: the file is there and is opened.
CacheHit(s) ==
  /\ Db /\ phase[s] = "build" /\ CacheFiles(s) # {}
  /\ Goto(s, "file")
  /\ UNCHANGED <<sshVars, storeVars, args, have, buildVars, workVars,
                 clientVars>>

\* A walk or a read of build_pack over the database.
BuildStep(s, e, from, to, objs) ==
  /\ engine = e /\ phase[s] = from
  /\ pack' = [pack EXCEPT ![s] = objs]
  /\ Goto(s, to)
  /\ UNCHANGED <<sshVars, storeVars, args, have, haveSet, cut, workVars,
                 clientVars>>

\* try_hit finds nothing; the want side is walked.  A want that is not there
\* is no error.
Needed(s, e) ==
  /\ BuildStep(s, e, "build", "subtract",
               NeededOids(stored, args[s].want, have[s]))
  /\ CacheFiles(s) = {}
  /\ missed' = [missed EXCEPT ![s] = Absent(s)]

KvNeeded(s) == Needed(s, "kv")

SqlNeeded(s) == Needed(s, "sql")

\* A later step.
NextStep(s, e, from, to, objs) ==
  BuildStep(s, e, from, to, objs) /\ UNCHANGED missed

\* The have side is walked and taken away.
KvSubtract(s) ==
  NextStep(s, "kv", "subtract", "read", pack[s] \ HaveOids(stored, have[s]))

SqlSubtract(s) ==
  NextStep(s, "sql", "subtract", "read", pack[s] \ HaveOids(stored, have[s]))

\* The objects are read, those that are not there left out; on the blocking
\* pool the pack is put together from them.
Present(objs) == objs \intersect ClosureOf(stored)

KvRead(s) ==
  pack[s] # {} /\ NextStep(s, "kv", "read", "write", Present(pack[s]))

SqlRead(s) ==
  pack[s] # {} /\ NextStep(s, "sql", "read", "write", Present(pack[s]))

\* Nothing is needed: an empty pack, whose file is written without leaving
\* the future.
EmptyPack(s) ==
  Db /\ pack[s] = {} /\ NextStep(s, engine, "read", "write", {})

\* What the closure on the blocking pool has of its own.
Job(s) == [key |-> CacheKey(s), objs |-> pack[s], missed |-> missed[s]]

PutFile(j, objs, whole) ==
  cache' = (cache \ FilesOf(j.key))
             \union {[key |-> j.key, objs |-> objs, missed |-> j.missed,
                      whole |-> whole]}

\* pack_cache::write: the file is created or truncated under its final name,
\* unless there is no room for another file, and filled.
RoomFor(j) == FilesOf(j.key) # {} \/ Cardinality(cache) < MaxFiles

CreateFile(j) == RoomFor(j) /\ PutFile(j, {}, FALSE)

FillFile(j) == PutFile(j, j.objs, TRUE)

\* A session goes on from p to q while its file is written.
WriteStep(s, p, q) ==
  /\ Db /\ phase[s] = p
  /\ Goto(s, q)
  /\ UNCHANGED <<sshVars, setting, refs, stored, bitmap, args, have,
                 buildVars, workVars, clientVars>>

CacheCreate(s) == WriteStep(s, "write", "writing") /\ CreateFile(Job(s))

CacheWritten(s) == WriteStep(s, "writing", "memory") /\ FillFile(Job(s))

CacheFull(s) ==
  WriteStep(s, "write", "memory") /\ ~ RoomFor(Job(s)) /\ UNCHANGED cache

\* Writing fails: the error is swallowed, what was written stays.
CacheWriteFails(s) == WriteStep(s, "writing", "memory") /\ UNCHANGED cache

(***************************************************************************)
(* Streaming                                                               *)
(***************************************************************************)

\* The weaker of two filters.
Weaker(f, g) ==
  IF "tree:0" \in {f, g} THEN "tree:0"
  ELSE IF "blob:none" \in {f, g} THEN "blob:none"
  ELSE "none"

\* The pack, the shallow lines before it and the flush after it have arrived.
Deliver(s, objs) ==
  /\ Connected(s)
  /\ held' = [held EXCEPT ![s] = @ \union objs]
  /\ shallows' = [shallows EXCEPT ![s] = @ \union cut[s]]
  /\ lacking' = [lacking EXCEPT ![s] = Weaker(@, args[s].opts.filter)]
  /\ Reset(s)
  /\ IF args[s].version = 1 THEN EndTask(s) ELSE UNCHANGED sshVars
  /\ UNCHANGED <<storeVars, leftover>>

\* The reader is a buffer, or a file that is not written to any more.
StreamMemory(s) ==
  /\ phase[s] = "memory" /\ missed[s] = {}
  /\ Deliver(s, pack[s])

\* The reader is a cache file: it gives what the file holds when it is read.
StreamFile(s) ==
  /\ phase[s] = "file"
  /\ \E f \in CacheFiles(s) :
       f.whole /\ f.missed = {} /\ Deliver(s, f.objs)

\* The answer is complete and the pack in it is not: the client notices that
\* it is cut short, or that what it wanted has not come with all there is
\* under it.
StreamTorn(s) ==
  /\ \/ phase[s] = "memory" /\ missed[s] # {}
     \/ /\ phase[s] = "file"
        /\ \E f \in CacheFiles(s) : ~ f.whole \/ f.missed # {}
  /\ Fail(s)
  /\ UNCHANGED <<storeVars, leftover>>

UnboundedSend(s) ==                                             \* mutant
  /\ worker[s] = "running" /\ made[s] < Chunks
  /\ made' = [made EXCEPT ![s] = @ + 1]
  /\ UNCHANGED <<sshVars, storeVars, phase, args, have, buildVars, worker,
                 taken, leftover, clientVars>>

\* stream_pack_to_channel sends a chunk; git writes to its pipe.
SendChunk(s) ==
  /\ worker[s] = "running"
  /\ made[s] < Chunks /\ made[s] - taken[s] < InFlight
  /\ made' = [made EXCEPT ![s] = @ + 1]
  /\ UNCHANGED <<sshVars, storeVars, phase, args, have, buildVars, worker,
                 taken, leftover, clientVars>>

\* The pipeline is through; the channel or the pipe is closed.
WorkerEnds(s) ==
  /\ worker[s] = "running" /\ made[s] = Chunks
  /\ worker' = [worker EXCEPT ![s] = "ended"]
  /\ UNCHANGED <<sshVars, storeVars, phase, args, have, buildVars, made,
                 taken, leftover, clientVars>>

\* An error in the pipeline, or git exits with an error.
WorkerFails(s) ==
  /\ worker[s] = "running"
  /\ worker' = [worker EXCEPT ![s] = "failed"]
  /\ UNCHANGED <<sshVars, storeVars, phase, args, have, buildVars, made,
                 taken, leftover, clientVars>>

\* PackReader and stream_pack_sideband pass a chunk on.
ReadChunk(s) ==
  /\ Connected(s) /\ phase[s] = "stream" /\ taken[s] < made[s]
  /\ taken' = [taken EXCEPT ![s] = @ + 1]
  /\ UNCHANGED <<sshVars, storeVars, phase, args, have, buildVars, worker,
                 made, leftover, clientVars>>

AnyEnd(s) ==                                                    \* mutant
  engine # "cli" /\ worker[s] \in {"ended", "failed"}

\* PackReader joins the thread: Ok.
ThreadOK(s) == engine # "cli" /\ worker[s] = "ended"

\* ProgressChildReader waits for git: exit status 0.
GitOK(s) == engine = "cli" /\ worker[s] = "ended"

WorkerOK(s) == ThreadOK(s) \/ GitOK(s)

AllChunks(s) ==                                                 \* mutant
  phase[s] = "stream" /\ taken[s] = Chunks /\ worker[s] # "running"

\* The channel is closed and empty.
Drained(s) == phase[s] = "stream" /\ taken[s] = made[s] /\ worker[s] # "running"

StreamDone(s) ==
  /\ Drained(s) /\ WorkerOK(s)
  /\ Deliver(s, pack[s])

\* The error of the worker ends the stream before the flush.
StreamFails(s) ==
  /\ Drained(s) /\ ~ WorkerOK(s)
  /\ Fail(s)
  /\ UNCHANGED <<storeVars, leftover>>

\* What a dropped future does not take with it: the pack thread, and the
\* closure on the blocking pool, which assembles the pack and writes its file.
Detached(s) ==
  \/ engine = "gitoxide" /\ worker[s] = "running"
  \/ Db /\ phase[s] \in {"write", "writing"} /\ pack[s] # {}

Work(s) ==
  IF Db
  THEN [at |-> phase[s], job |-> Job(s)]
  ELSE [at |-> "send"]

\* The fetch is given up; a child process is killed with its reader.
Abandon(s) ==
  IF Detached(s)
  THEN NoneLeft /\ leftover' = [leftover EXCEPT ![s] = Work(s)]
  ELSE UNCHANGED leftover

\* An I/O error of the backend, or a client that has gone.
Error(s) ==
  /\ phase[s] # "idle"
  /\ Abandon(s)
  /\ Fail(s)
  /\ UNCHANGED storeVars

\* Writing to a connection that is over fails.
Severed(s) ==
  /\ ~ Connected(s) /\ phase[s] \in {"memory", "file", "stream"}
  /\ Abandon(s)
  /\ Fail(s)
  /\ UNCHANGED storeVars

\* Work left behind comes to w, or to its end.
LeftAt(s, w) ==
  /\ leftover' = [leftover EXCEPT ![s] = w]
  /\ UNCHANGED <<sshVars, setting, refs, stored, bitmap, phase, args, have,
                 buildVars, worker, made, taken, clientVars>>

\* The receiver of the channel was dropped with the fetch: the send the thread
\* waits in, or its next one, fails, and the thread returns.
SendFails(s) == leftover[s].at = "send" /\ LeftAt(s, NoWork) /\ UNCHANGED cache

\* The closure writes the file of a request nobody waits for.
LeftCreates(s) ==
  /\ leftover[s].at = "write" /\ CreateFile(leftover[s].job)
  /\ LeftAt(s, [leftover[s] EXCEPT !.at = "writing"])

LeftWrites(s) ==
  /\ leftover[s].at = "writing" /\ FillFile(leftover[s].job)
  /\ LeftAt(s, NoWork)

\* It cannot assemble the pack, has no room or cannot write.
LeftFails(s) ==
  leftover[s].at \in {"write", "writing"} /\ LeftAt(s, NoWork) /\ UNCHANGED cache

Left(s) == SendFails(s) \/ LeftCreates(s) \/ LeftWrites(s) \/ LeftFails(s)

\* The server process dies and is started again.
Crash ==
  /\ link' = "down" /\ channels' = {} /\ timer' = "none" /\ notice' = FALSE
  /\ serving' = [s \in Sessions |-> 0]
  /\ phase' = [s \in Sessions |-> "idle"]
  /\ args' = [s \in Sessions |-> NoArgs]
  /\ have' = [s \in Sessions |-> {}]
  /\ haveSet' = [s \in Sessions |-> {}]
  /\ pack' = [s \in Sessions |-> {}]
  /\ cut' = [s \in Sessions |-> {}]
  /\ missed' = [s \in Sessions |-> {}]
  /\ made' = [s \in Sessions |-> 0]
  /\ taken' = [s \in Sessions |-> 0]
  /\ worker' = [s \in Sessions |-> "none"]
  /\ leftover' = [s \in Sessions |-> NoWork]
  /\ UNCHANGED <<version, storeVars, clientVars>>

(***************************************************************************)
(* Specification                                                           *)
(***************************************************************************)

BuildGitoxide(s) ==
  FindReusable(s) \/ ShipAsIs(s) \/ ShipFails(s) \/ FindHaveSet(s)
    \/ SelectObjects(s) \/ UnknownWant(s)

BuildCli(s) == CliRevList(s) \/ CliPackObjects(s) \/ UnknownWant(s)

BuildDb(s) ==
  \/ CacheHit(s) \/ KvNeeded(s) \/ SqlNeeded(s)
  \/ KvSubtract(s) \/ SqlSubtract(s) \/ EmptyPack(s)
  \/ KvRead(s) \/ SqlRead(s)
  \/ CacheCreate(s) \/ CacheWritten(s) \/ CacheFull(s)

Stream(s) ==
  \/ /\ phase[s] \in {"memory", "file"}
     /\ StreamMemory(s) \/ StreamFile(s) \/ StreamTorn(s) \/ Severed(s)
  \/ /\ phase[s] = "stream"
     /\ SendChunk(s) \/ WorkerEnds(s) \/ ReadChunk(s) \/ StreamDone(s)
          \/ StreamFails(s) \/ Severed(s)

\* What the runtime, the thread and the child process do by themselves.
Serve(s) ==
  /\ phase[s] \notin {"idle", "listed", "final"}
  /\ \/ engine = "gitoxide" /\ BuildGitoxide(s)
     \/ engine = "cli" /\ BuildCli(s)
     \/ Db /\ BuildDb(s)
     \/ Stream(s)

\* What clients do and what goes wrong.
Request(s) ==
  \/ AdvertiseRefs(s) \/ ListRefs(s) \/ AskUnseen(s) \/ LazyFetch(s)
  \/ Negotiate(s) \/ FinalRequest(s) \/ FetchV1(s) \/ Refuse(s)

Trouble(s) == CacheWriteFails(s) \/ WorkerFails(s) \/ Error(s)

Quiet == UNCHANGED <<storeVars, phase, args, have, buildVars, workVars,
                     clientVars>>

Ssh ==
  /\ transport = "ssh"
  /\ \/ Connect \/ EnvRequest \/ Deadline \/ DropLate \/ Disconnect
     \/ \E s \in Sessions :
          \/ phase[s] = "idle" /\ (ChannelOpen(s) \/ TaskEnds(s))
          \/ Exec(s) \/ ExecDenied(s) \/ ExecFails(s)
  /\ Quiet

Next ==
  \/ Push \/ Repack \/ Crash \/ Ssh
  \/ \E s \in Sessions :
       Request(s) \/ Serve(s) \/ Trouble(s) \/ Left(s)

Spec == Init /\ [][Next]_vars

\* A request in hand is served on: the runtime polls its future, the thread
\* is scheduled, git runs, and a client that stays connected reads.  Nothing
\* else is promised of clients.
FairSpec ==
  /\ Spec
  /\ \A s \in Sessions : WF_vars(Serve(s)) /\ WF_vars(SendFails(s))

(***************************************************************************)
(* Properties                                                              *)
(***************************************************************************)

Phase == {"idle", "listed", "final", "build", "ship", "select", "subtract",
          "read", "write", "writing", "memory", "file", "stream"}

Key == [want : SUBSET Objects, have : SUBSET Commits, opts : Option]

\* Every variable has its shape: no more chunks are in flight than the channel
\* takes, and a cache file is the only one under its key.
TypeOK ==
  /\ setting \in Settings
  /\ refs \in [Names -> Commits \union {Null}]
  /\ stored \subseteq Commits
  /\ phase \in [Sessions -> Phase]
  /\ have \in [Sessions -> SUBSET Commits]
  /\ haveSet \in [Sessions -> SUBSET Objects]
  /\ pack \in [Sessions -> SUBSET Objects]
  /\ cut \in [Sessions -> SUBSET Commits]
  /\ worker \in [Sessions -> {"none", "running", "ended", "failed"}]
  /\ \A s \in Sessions : taken[s] \in 0..made[s] /\ made[s] \in 0..Chunks
                         /\ made[s] - taken[s] <= InFlight
  /\ held \in [Sessions -> SUBSET Objects]
  /\ \A f, g \in cache : f.key = g.key => f = g
  /\ serving \in [Sessions -> 0..2] /\ channels \subseteq Sessions
  /\ timer \in {"none", "sleeping", "fired"}

\* Clients stay whole: a client has everything under the commits it has, up to
\* its shallow commits and its filter, whichever backend answered, from
\* whichever file, while refs moved and packs came and went.
FetchedComplete ==
  \A s \in Sessions :
    LET commits == AncestorsIn(Commits \ shallows[s], History(s))
        files == Descend(TreesOf(commits), {}) \ Omitted(lacking[s])
    IN  commits \union files \subseteq held[s]

\* After an answer that is complete the client has what the request asked for:
\* neither a filter, the haves nor a step of the selection leaves it out.
WantsDelivered ==
  [][\A s \in Sessions :
       StreamMemory(s) \/ StreamFile(s) \/ StreamDone(s) =>
         args[s].want \subseteq held'[s]]_vars

\* What building the pack of a key anew would give.
BuildAnew(key) ==
  Present(NeededOids(stored, key.want, key.have) \ HaveOids(stored, key.have))

\* A whole cache file whose wants were all in the database when it was walked
\* for them holds what building the pack anew would give, whatever has been
\* pushed since, whoever asked, and even if nobody waited for it any more.
CacheSound ==
  \A f \in cache : f.whole /\ f.missed = {} => f.objs = BuildAnew(f.key)

\* The error of the thread or of git reaches the client: no pack is accepted
\* whose writer did not come to its end.
ErrorsReachClient ==
  [][\A s \in Sessions : worker[s] = "failed" => held'[s] = held[s]]_vars

\* A fetch whose pack has been asked for ends, well or not.
EveryFetchEnds ==
  \A s \in Sessions :
    phase[s] \in Phase \ {"idle", "listed", "final"} ~> phase[s] = "idle"

\* "a corrupt cache file must never block a fresh build": a fetch that can be
\* built is not answered with a torn file.
TornFileNeverServed ==
  \A s \in Sessions :
    phase[s] = "file" => \A f \in CacheFiles(s) : f.whole

\* "the set of objects reachable from a fixed set of OIDs is immutable", so
\* that a pack can be cached "and serve identical requests from disk on
\* subsequent calls": a hit gives what a build would give.
HitIsBuild ==
  [][\A s \in Sessions : CacheHit(s) =>
       \A f \in CacheFiles(s) : f.whole => f.objs = BuildAnew(f.key)]_vars
=============================================================================
