-------------------------- MODULE UploadPackProofs --------------------------
(***************************************************************************)
(* Proofs about UploadPack, for any repository, any clients and any server *)
(* settings: the exec timeout needs a silent channel, no pack of a failed  *)
(* writer is accepted, cached packs stay right, clients stay whole and get *)
(* what they want, and every variable keeps its shape.                     *)
(***************************************************************************)
EXTENDS UploadPack, ObjectGraphProofs

(***************************************************************************)
(* The exec timeout                                                        *)
(***************************************************************************)

\* Everything but the handler's tasks is the SSH handler's own.
sshOwn == <<link, channels, timer, notice, version>>

\* What fetches do leaves the SSH handler alone.
LEMMA FetchesLeaveSsh ==
  ASSUME NEW s \in Sessions, Request(s) \/ Serve(s) \/ Trouble(s) \/ Left(s)
  PROVE  UNCHANGED sshOwn
<1> USE DEF sshOwn, sshVars
<1>1. CASE Request(s)
  BY <1>1 DEF Request, AdvertiseRefs, ListRefs, AskUnseen, Ask,
         LazyFetch, Negotiate, FinalRequest, FetchV1,
       Answer, Refuse, Fail, EndTask
<1>2. CASE Serve(s)
  <2>1. CASE BuildGitoxide(s) \/ BuildCli(s)
    BY <2>1 DEF BuildGitoxide, BuildCli, FindReusable, ShipAsIs, ShipFails, FindHaveSet,
         SelectObjects, CliRevList, CliPackObjects, UnknownWant, Fail, EndTask
  <2>2. CASE BuildDb(s)
    BY <2>2 DEF BuildDb, CacheHit, KvNeeded, SqlNeeded, KvSubtract, SqlSubtract, EmptyPack,
         KvRead, SqlRead, CacheCreate, CacheWritten, CacheFull, BuildStep, Needed,
         NextStep, WriteStep
  <2>3. CASE Stream(s)
    BY <2>3 DEF Stream, StreamMemory, StreamFile, StreamTorn, Severed, SendChunk, WorkerEnds,
         ReadChunk, StreamDone, StreamFails, Deliver, Fail, EndTask
  <2> QED
    BY <1>2, <2>1, <2>2, <2>3 DEF Serve
<1>3. CASE Trouble(s) \/ Left(s)
  BY <1>3 DEF Trouble, CacheWriteFails, WorkerFails, Error, Left, LeftAt, SendFails, LeftCreates,
       LeftWrites, LeftFails, WriteStep, Fail, EndTask
<1> QED
  BY <1>1, <1>2, <1>3

\* A timeout sleeps only on a connection with a channel that has had no
\* command.
TimerOK == timer = "sleeping" => link = "up" /\ channels # {}

\* Every step keeps it.
LEMMA TimerStep == TimerOK /\ [Next]_vars => TimerOK'
<1> SUFFICES ASSUME TimerOK, [Next]_vars PROVE TimerOK'
  OBVIOUS
<1> USE DEF TimerOK
<1>1. CASE Push \/ Repack
  BY <1>1 DEF Push, Repack, sshVars
<1>2. CASE Crash
  BY <1>2 DEF Crash
<1>3. CASE Ssh
  BY <1>3 DEF Ssh, Connect, EnvRequest, Deadline, DropLate, Disconnect, Hangup, ChannelOpen, TaskEnds,
       Exec, ExecDenied, ExecFails
<1>4. ASSUME NEW s \in Sessions, Request(s) \/ Serve(s) \/ Trouble(s) \/ Left(s)
      PROVE  TimerOK'
  BY <1>4, FetchesLeaveSsh DEF sshOwn
<1>5. CASE UNCHANGED vars
  BY <1>5 DEF vars, sshVars
<1> QED
  BY <1>1, <1>2, <1>3, <1>4, <1>5 DEF Next

\* The exec timeout fires only while a channel of the connection has had no
\* command, on any number of channels opened, used and closed in any order.
THEOREM DeadlineFair == Spec => DeadlineNeedsSilence
<1>1. Init => TimerOK
  BY DEF Init, SshInit, TimerOK
<1>2. TimerOK /\ [Next]_vars
        => [timer = "sleeping" /\ timer' = "fired" => channels # {}]_sshVars
  BY DEF TimerOK
<1> QED
  BY <1>1, <1>2, TimerStep, PTL DEF Spec, DeadlineNeedsSilence

(***************************************************************************)
(* Errors of the thread and of git                                         *)
(***************************************************************************)

\* Functions of the session, whatever their values.
PerSession(f) == f = [s \in Sessions |-> f[s]]

\* A writer runs, ends or fails only while its pack is streamed.
WorkerOnlyStreams ==
  /\ PerSession(phase) /\ PerSession(worker) /\ PerSession(held)
  /\ \A s \in Sessions : worker[s] # "none" => phase[s] = "stream"

\* The end of a fetch, well or not, forgets its writer.
LEMMA ResetWorker ==
  ASSUME WorkerOnlyStreams, NEW s \in Sessions, Reset(s), PerSession(held')
  PROVE  WorkerOnlyStreams'
BY DEF WorkerOnlyStreams, PerSession, Reset, Goto

\* A step that moves one session that has no writer, and starts none.
LEMMA PhaseOnly ==
  ASSUME WorkerOnlyStreams, NEW s \in Sessions, NEW p, phase' = [phase EXCEPT ![s] = p],
         worker[s] = "none", UNCHANGED <<worker, held>>
  PROVE  WorkerOnlyStreams'
BY DEF WorkerOnlyStreams, PerSession

\* Every step keeps it, and changes what a client has only by delivering a pack
\* whose writer has come to its end, or that had none.
LEMMA WorkerStep ==
  ASSUME WorkerOnlyStreams, [Next]_vars
  PROVE  /\ WorkerOnlyStreams'
         /\ \A s \in Sessions : worker[s] = "failed" => held'[s] = held[s]
<1> DEFINE Goal == /\ WorkerOnlyStreams'
                   /\ \A t \in Sessions : worker[t] = "failed" => held'[t] = held[t]
<1>q. ASSUME UNCHANGED <<phase, worker, held>> PROVE Goal
  BY <1>q DEF WorkerOnlyStreams, PerSession
<1>p. ASSUME NEW s \in Sessions, NEW p, phase' = [phase EXCEPT ![s] = p],
             worker[s] = "none", UNCHANGED <<worker, held>>
      PROVE  Goal
  BY <1>p, PhaseOnly
<1>f. ASSUME NEW s \in Sessions, Reset(s), UNCHANGED held PROVE Goal
  BY <1>f, ResetWorker DEF WorkerOnlyStreams, PerSession
<1>d. ASSUME NEW s \in Sessions, NEW objs, Deliver(s, objs), worker[s] # "failed" PROVE Goal
  <2>1. held' = [held EXCEPT ![s] = held[s] \union objs] /\ Reset(s)
    BY <1>d DEF Deliver
  <2>2. PerSession(held') /\ \A t \in Sessions \ {s} : held'[t] = held[t]
    BY <2>1 DEF WorkerOnlyStreams, PerSession
  <2> QED
    BY <1>d, <2>1, <2>2, ResetWorker
<1>1. ASSUME NEW s \in Sessions, Request(s) PROVE Goal
  <2>1. CASE Refuse(s)
    BY <2>1, <1>f DEF Refuse, Fail, clientVars
  <2>2. CASE ~ Refuse(s)
    <3>1. worker[s] = "none"
      BY <1>1, <2>2 DEF WorkerOnlyStreams, Request, AdvertiseRefs, ListRefs, AskUnseen,
           LazyFetch, Negotiate,
           FinalRequest, FetchV1
    <3>2. /\ UNCHANGED <<worker, held>>
          /\ \E p : phase' = [phase EXCEPT ![s] = p]
      BY <1>1, <2>2 DEF Request, AdvertiseRefs, ListRefs, AskUnseen, Ask,
         LazyFetch, Negotiate, FinalRequest,
           FetchV1, Answer, Goto, workVars, clientVars
    <3> QED
      BY <3>1, <3>2, <1>p
  <2> QED
    BY <2>1, <2>2
<1>2. ASSUME NEW s \in Sessions, BuildGitoxide(s) \/ BuildCli(s) PROVE Goal
  <2>1. CASE ShipFails(s) \/ UnknownWant(s)
    BY <2>1, <1>f DEF ShipFails, UnknownWant, Fail, clientVars
  <2>2. CASE FindReusable(s) \/ ShipAsIs(s) \/ FindHaveSet(s) \/ CliRevList(s)
    <3>1. worker[s] = "none"
      BY <2>2 DEF WorkerOnlyStreams, FindReusable, ShipAsIs, FindHaveSet, CliRevList
    <3>2. /\ UNCHANGED <<worker, held>>
          /\ \E p : phase' = [phase EXCEPT ![s] = p]
      BY <2>2 DEF FindReusable, ShipAsIs, FindHaveSet, CliRevList, Goto, workVars, clientVars
    <3> QED
      BY <3>1, <3>2, <1>p
  <2>3. CASE SelectObjects(s) \/ CliPackObjects(s)
    BY <2>3 DEF SelectObjects, CliPackObjects, StartWorker, Goto, clientVars, WorkerOnlyStreams,
         PerSession
  <2> QED
    BY <1>2, <2>1, <2>2, <2>3 DEF BuildGitoxide, BuildCli
<1>3. ASSUME NEW s \in Sessions, BuildDb(s) \/ CacheWriteFails(s) PROVE Goal
  <2>1. worker[s] = "none"
    BY <1>3 DEF WorkerOnlyStreams, BuildDb, CacheHit, KvNeeded, SqlNeeded, KvSubtract, SqlSubtract,
         EmptyPack, KvRead, SqlRead, CacheCreate, CacheWritten,
         CacheFull, CacheWriteFails, BuildStep, Needed, NextStep, WriteStep
  <2>2. /\ UNCHANGED <<worker, held>>
        /\ \E p : phase' = [phase EXCEPT ![s] = p]
    BY <1>3 DEF BuildDb, CacheHit, KvNeeded, SqlNeeded, KvSubtract, SqlSubtract, EmptyPack,
         KvRead, SqlRead, CacheCreate, CacheWritten, CacheFull,
         CacheWriteFails, BuildStep, Needed, NextStep, WriteStep, Goto, workVars, clientVars
  <2> QED
    BY <2>1, <2>2, <1>p
<1>4. ASSUME NEW s \in Sessions, Stream(s) PROVE Goal
  <2>1. CASE StreamTorn(s) \/ Severed(s) \/ StreamFails(s)
    BY <2>1, <1>f DEF StreamTorn, Severed, StreamFails, Fail, clientVars
  <2>2. CASE SendChunk(s) \/ ReadChunk(s)
    BY <2>2, <1>q DEF SendChunk, ReadChunk, clientVars
  <2>3. CASE WorkerEnds(s)
    BY <2>3 DEF WorkerEnds, clientVars, WorkerOnlyStreams, PerSession
  <2>4. CASE StreamMemory(s)
    BY <2>4, <1>d DEF StreamMemory, WorkerOnlyStreams
  <2>5. CASE StreamFile(s)
    BY <2>5, <1>d DEF StreamFile, WorkerOnlyStreams
  <2>6. CASE StreamDone(s)
    BY <2>6, <1>d DEF StreamDone, WorkerOK, ThreadOK, GitOK
  <2> QED
    BY <1>4, <2>1, <2>2, <2>3, <2>4, <2>5, <2>6 DEF Stream
<1>5. ASSUME NEW s \in Sessions, WorkerFails(s) \/ Error(s) \/ Left(s) PROVE Goal
  <2>1. CASE WorkerFails(s)
    BY <2>1 DEF WorkerFails, clientVars, WorkerOnlyStreams, PerSession
  <2>2. CASE Error(s)
    BY <2>2, <1>f DEF Error, Fail, clientVars
  <2>3. CASE Left(s)
    BY <2>3, <1>q DEF Left, LeftAt, SendFails, LeftCreates, LeftWrites, LeftFails, clientVars
  <2> QED
    BY <1>5, <2>1, <2>2, <2>3
<1>6. CASE Push \/ Repack \/ Ssh \/ UNCHANGED vars
  BY <1>6, <1>q DEF Push, Repack, Ssh, Quiet, vars, workVars, clientVars
<1>7. CASE Crash
  BY <1>7 DEF Crash, clientVars, WorkerOnlyStreams, PerSession
<1> QED
  BY <1>1, <1>2, <1>3, <1>4, <1>5, <1>6, <1>7 DEF Next, Serve, Trouble

\* No fetch session has a writer at the start.
LEMMA InitWorker == Init => WorkerOnlyStreams
BY DEF Init, WorkerOnlyStreams, PerSession

\* The error of the pack thread, or of git, is never lost: what a client has
\* does not change in the step that ends such a fetch.
THEOREM ErrorsAreSeen == Spec => ErrorsReachClient
<1>1. WorkerOnlyStreams /\ [Next]_vars => WorkerOnlyStreams'
  BY WorkerStep
<1>2. WorkerOnlyStreams /\ [Next]_vars
        => [\A s \in Sessions : worker[s] = "failed" => held'[s] = held[s]]_vars
  BY WorkerStep
<1> QED
  BY <1>1, <1>2, InitWorker, PTL DEF Spec, ErrorsReachClient

(***************************************************************************)
(* Packs of the database backends: fetches and the cache                   *)
(***************************************************************************)

\* FetchArgs of a client that has never been given a partial clone.
Arg == [want : SUBSET Commits, names : SUBSET Names, version : {1, 2}, opts : Option]

\* The phases of a fetch over a database; from the read on the pack is at hand.
DbPhase == {"idle", "listed", "final", "build", "subtract", "read", "write", "writing", "memory",
            "file"}
Built == {"read", "write", "writing", "memory"}

\* If the store lacked none of the wants when it was walked for them, these are
\* the objects the request calls for.
Right(lacked, want, haves, objs) ==
  lacked = {} => want \subseteq stored /\ objs = Content(want, haves)

\* The haves of a session are stored commits, its client is whole, and the pack
\* in hand is right.
SessionOK(s) ==
  /\ args[s] \in Arg
  /\ have[s] \subseteq stored \intersect held[s]
  /\ WholeSet(held[s]) /\ shallows[s] = {} /\ cut[s] = {}
  /\ phase[s] \in DbPhase
  /\ phase[s] = "subtract" /\ missed[s] = {} =>
       args[s].want \subseteq stored /\ pack[s] = NeededOids(stored, args[s].want, have[s])
  /\ phase[s] \in Built => Right(missed[s], args[s].want, have[s], pack[s])
  /\ phase[s] \in Built \union {"subtract"} => pack[s] \in SUBSET Objects

\* A cache file, if it is whole, and the pack a file is written from are right.
FileOK(f) ==
  /\ f.key.have \subseteq stored
  /\ f.whole => Right(f.missed, f.key.want, f.key.have, f.objs)

JobOK(j) ==
  /\ j.key.have \subseteq stored
  /\ Right(j.missed, j.key.want, j.key.have, j.objs)

LeftOK ==
  \A s \in Sessions : leftover[s].at \in {"write", "writing"} => JobOK(leftover[s].job)

Shapes ==
  /\ PerSession(phase) /\ PerSession(args) /\ PerSession(have) /\ PerSession(pack)
  /\ PerSession(held) /\ PerSession(shallows) /\ PerSession(cut) /\ PerSession(missed)
  /\ PerSession(leftover)

StoreOK ==
  /\ setting \in Settings /\ engine \in {"kv", "sql"}
  /\ stored \in SUBSET Commits /\ ClosedIn(Commits, stored)
  /\ refs \in [Names -> Commits \union {Null}]
  /\ \A n \in Names : refs[n] \in stored \union {Null}

DInv ==
  /\ Shapes /\ StoreOK
  /\ \A s \in Sessions : SessionOK(s)
  /\ \A f \in cache : FileOK(f)
  /\ LeftOK

\* A session's fields, and that a step leaves them alone.
Same(s) ==
  /\ phase'[s] = phase[s] /\ args'[s] = args[s] /\ have'[s] = have[s] /\ pack'[s] = pack[s]
  /\ held'[s] = held[s] /\ shallows'[s] = shallows[s] /\ cut'[s] = cut[s]
  /\ missed'[s] = missed[s]

dbVars == <<phase, args, have, pack, held, shallows, cut, missed, leftover>>

\* What others do, more objects in the store included, does not disturb a
\* fetch.
LEMMA FetchUndisturbed ==
  ASSUME DInv, StoreOK', stored \subseteq stored', NEW s \in Sessions, Same(s)
  PROVE  SessionOK(s)'
<1>1. SessionOK(s) /\ stored \in SUBSET Commits /\ ClosedIn(Commits, stored)
  BY DEF DInv, StoreOK
<1>2. stored' \in SUBSET Commits /\ ClosedIn(Commits, stored')
  BY DEF StoreOK
<1>3. ASSUME args[s].want \subseteq stored
      PROVE  NeededOids(stored', args[s].want, have[s]) = NeededOids(stored, args[s].want, have[s])
  <2>1. /\ args[s].want \in SUBSET stored' /\ have[s] \in SUBSET stored'
        /\ args[s].want \in SUBSET stored /\ have[s] \in SUBSET stored
    BY <1>1, <1>3 DEF SessionOK
  <2>2. NeededOids(stored, args[s].want, have[s]) =
          Missing(args[s].want, have[s]) \union args[s].want
            \union Below(TreesOf(Missing(args[s].want, have[s])))
    BY <1>1, <2>1, SelectionStable
  <2>3. NeededOids(stored', args[s].want, have[s]) =
          Missing(args[s].want, have[s]) \union args[s].want
            \union Below(TreesOf(Missing(args[s].want, have[s])))
    BY <1>2, <2>1, SelectionStable
  <2> QED
    BY <2>2, <2>3
<1>4. /\ args'[s] = args[s] /\ have'[s] = have[s] /\ pack'[s] = pack[s] /\ phase'[s] = phase[s]
      /\ held'[s] = held[s] /\ shallows'[s] = shallows[s] /\ cut'[s] = cut[s]
      /\ missed'[s] = missed[s]
  BY DEF Same
<1>5. phase'[s] = "subtract" /\ missed'[s] = {} =>
        args'[s].want \subseteq stored' /\ pack'[s] = NeededOids(stored', args'[s].want, have'[s])
  BY <1>1, <1>3, <1>4 DEF SessionOK
<1>6. phase'[s] \in Built => Right(missed[s], args[s].want, have[s], pack[s])'
  BY <1>1, <1>4 DEF SessionOK, Right
<1>7. /\ args'[s] \in Arg /\ have'[s] \subseteq stored' \intersect held'[s]
      /\ WholeSet(held'[s]) /\ shallows'[s] = {} /\ cut'[s] = {} /\ phase'[s] \in DbPhase
      /\ phase'[s] \in Built \union {"subtract"} => pack'[s] \in SUBSET Objects
  BY <1>1, <1>4 DEF SessionOK
<1> QED
  BY <1>5, <1>6, <1>7 DEF SessionOK

\* Files in the cache stay right.
LEMMA FilesStayRight ==
  ASSUME DInv, stored \subseteq stored', cache' \subseteq cache
  PROVE  \A f \in cache' : FileOK(f)'
BY DEF DInv, FileOK, Right

\* So do those that are being written for nobody.
LEMMA JobsStayRight ==
  ASSUME LeftOK, stored \subseteq stored', UNCHANGED leftover
  PROVE  LeftOK'
BY DEF LeftOK, JobOK, Right

\* A step of one session that leaves the store and the cache alone.
LEMMA OneSession ==
  ASSUME DInv, NEW s \in Sessions, UNCHANGED <<setting, refs, stored, cache>>, Shapes',
         \A t \in Sessions \ {s} : Same(t), SessionOK(s)', LeftOK'
  PROVE  DInv'
<1>1. StoreOK'
  BY DEF DInv, StoreOK, engine
<1>2. \A t \in Sessions : SessionOK(t)'
  BY <1>1, FetchUndisturbed
<1>3. \A f \in cache' : FileOK(f)'
  BY FilesStayRight
<1> QED
  BY <1>1, <1>2, <1>3 DEF DInv

\* A step that does nothing to fetches.
LEMMA NoSession ==
  ASSUME DInv, UNCHANGED <<setting, refs, stored, cache>>, UNCHANGED dbVars
  PROVE  DInv'
<1>1. StoreOK' /\ Shapes' /\ \A t \in Sessions : Same(t)
  BY DEF DInv, Shapes, StoreOK, Same, PerSession, engine, dbVars
<1>2. \A t \in Sessions : SessionOK(t)'
  BY <1>1, FetchUndisturbed
<1>3. (\A f \in cache' : FileOK(f)') /\ LeftOK'
  BY FilesStayRight, JobsStayRight DEF DInv, dbVars
<1> QED
  BY <1>1, <1>2, <1>3 DEF DInv

\* What is written for a session is right.
LEMMA JobIsRight ==
  ASSUME DInv, NEW s \in Sessions, phase[s] \in {"write", "writing"}
  PROVE  JobOK(Job(s))
<1>1. have[s] \subseteq stored /\ Right(missed[s], args[s].want, have[s], pack[s])
  BY DEF DInv, SessionOK, Built
<1>2. /\ Job(s).key.want = args[s].want /\ Job(s).key.have = have[s]
      /\ Job(s).missed = missed[s] /\ Job(s).objs = pack[s]
  BY DEF Job, CacheKey
<1> QED
  BY <1>1, <1>2 DEF JobOK

\* A fetch that is given up leaves right work behind.
LEMMA WorkIsRight ==
  ASSUME DInv, NEW s \in Sessions, Abandon(s), UNCHANGED stored
  PROVE  LeftOK' /\ PerSession(leftover')
<1>0. LeftOK /\ PerSession(leftover) /\ engine \in {"kv", "sql"}
  BY DEF DInv, Shapes, StoreOK
<1>1. CASE Detached(s)
  <2>1. phase[s] \in {"write", "writing"}
    BY <1>0, <1>1 DEF Detached
  <2>2. JobOK(Job(s))
    BY <2>1, JobIsRight
  <2>3. Work(s).job = Job(s)
    BY <1>0 DEF Work, Db
  <2>4. /\ leftover' = [leftover EXCEPT ![s] = Work(s)] /\ PerSession(leftover')
        /\ leftover'[s] = Work(s) /\ \A t \in Sessions \ {s} : leftover'[t] = leftover[t]
    BY <1>0, <1>1 DEF Abandon, PerSession
  <2> QED
    BY <1>0, <2>2, <2>3, <2>4 DEF LeftOK, JobOK, Right
<1>2. CASE ~ Detached(s)
  BY <1>0, <1>2, JobsStayRight DEF Abandon, PerSession
<1> QED
  BY <1>1, <1>2

\* A fetch that ends without a pack, and so one the server forgets.
LEMMA FetchForgotten ==
  ASSUME DInv, NEW s \in Sessions, Reset(s), UNCHANGED clientVars, UNCHANGED storeVars,
         UNCHANGED leftover \/ Abandon(s)
  PROVE  DInv'
<1>l. LeftOK' /\ PerSession(leftover')
  BY WorkIsRight, JobsStayRight DEF DInv, Shapes, PerSession, storeVars
<1>1. /\ phase'[s] = "idle" /\ args'[s] = NoArgs /\ have'[s] = {} /\ cut'[s] = {}
      /\ Shapes' /\ \A t \in Sessions \ {s} : Same(t)
  BY <1>l DEF DInv, Shapes, PerSession, Reset, Goto, Same, clientVars
<1>2. NoArgs \in Arg
  BY DEF NoArgs, Arg, Option, Filter
<1>3. SessionOK(s)'
  BY <1>1, <1>2 DEF DInv, SessionOK, DbPhase, Built, clientVars, storeVars
<1> QED
  BY <1>l, <1>1, <1>3, OneSession DEF storeVars

\* The pack a request calls for is delivered.
LEMMA PackDelivered ==
  ASSUME DInv, NEW s \in Sessions, NEW objs, Deliver(s, objs),
         objs = Content(args[s].want, have[s])
  PROVE  DInv' /\ args[s].want \subseteq held'[s]
<1>1. /\ phase'[s] = "idle" /\ args'[s] = NoArgs /\ have'[s] = {} /\ cut'[s] = {}
      /\ held'[s] = held[s] \union objs /\ shallows'[s] = shallows[s] \union cut[s]
      /\ Shapes' /\ \A t \in Sessions \ {s} : Same(t)
      /\ UNCHANGED storeVars
  BY DEF DInv, Shapes, PerSession, Deliver, Reset, Goto, Same
<1>2. NoArgs \in Arg
  BY DEF NoArgs, Arg, Option, Filter
<1>3. /\ args[s].want \in SUBSET Commits /\ have[s] \in SUBSET (held[s] \intersect Commits)
      /\ WholeSet(held[s]) /\ shallows[s] = {} /\ cut[s] = {}
  BY DEF DInv, SessionOK, StoreOK, Arg
<1>4. WholeSet(held'[s]) /\ args[s].want \subseteq held'[s]
  BY <1>1, <1>3, ContentCompletes
<1>5. SessionOK(s)'
  BY <1>1, <1>2, <1>3, <1>4 DEF SessionOK, DbPhase, Built
<1>6. LeftOK'
  BY <1>1, JobsStayRight DEF DInv, Deliver, storeVars
<1> QED
  BY <1>1, <1>4, <1>5, <1>6, OneSession DEF storeVars

\* A client is missing nothing, so it asks for no single objects.
LEMMA NoLazyFetch ==
  ASSUME DInv, NEW s \in Sessions
  PROVE  ~ LazyFetch(s)
<1>1. WholeSet(held[s])
  BY DEF DInv, SessionOK
<1>2. Under(s) \subseteq held[s]
  BY <1>1 DEF WholeSet, Under, History, Below
<1> QED
  BY <1>2 DEF LazyFetch

\* Requests: what a client wants are commits, there or not, and what counts of
\* what it says it has is stored.
LEMMA RequestStep ==
  ASSUME DInv, NEW s \in Sessions, Request(s)
  PROVE  DInv'
<1>0. SessionOK(s) /\ StoreOK /\ Shapes /\ LeftOK
  BY DEF DInv
<1>1. CASE AdvertiseRefs(s) \/ ListRefs(s) \/ AskUnseen(s)
  <2>0. /\ News(s) \subseteq Names /\ { refs[n] : n \in News(s) } \subseteq Commits
        /\ setting.unseen \subseteq Commits
    BY <1>0, SettingsAssumption DEF News, StoreOK
  <2>1. PICK want, names, v :
          /\ Ask(s, want, names, v) /\ v \in {1, 2}
          /\ want \subseteq Commits /\ names \subseteq Names
    <3>1. CASE AdvertiseRefs(s) \/ ListRefs(s)
      BY <2>0, <3>1 DEF AdvertiseRefs, ListRefs
    <3>2. CASE AskUnseen(s)
      <4>1. PICK c \in setting.unseen : Ask(s, {c}, {}, 2)
        BY <3>2 DEF AskUnseen
      <4>2. {c} \subseteq Commits
        BY <2>0
      <4> QED
        BY <4>1, <4>2
    <3> QED
      BY <1>1, <3>1, <3>2
  <2>2. PICK o \in setting.options :
          args' = [args EXCEPT ![s] = [want |-> want, names |-> names, version |-> v, opts |-> o]]
    BY <2>1 DEF Ask
  <2>4. o \in Option
    BY <1>0, <2>2, SettingsAssumption DEF StoreOK
  <2>5. /\ phase' = [phase EXCEPT ![s] = "listed"]
        /\ UNCHANGED <<setting, refs, stored, cache, have, pack, cut, missed, leftover, held,
                       shallows>>
    BY <2>1 DEF Ask, Goto, storeVars, buildVars, workVars, clientVars
  <2>6. Shapes' /\ \A t \in Sessions \ {s} : Same(t)
    BY <1>0, <2>2, <2>5 DEF Shapes, PerSession, Same
  <2>7. args'[s] = [want |-> want, names |-> names, version |-> v, opts |-> o] /\ phase'[s] = "listed"
    BY <1>0, <2>2, <2>5 DEF Shapes, PerSession
  <2>9. args'[s] \in Arg
    BY <2>1, <2>4, <2>7 DEF Arg
  <2>10. SessionOK(s)'
    BY <1>0, <2>5, <2>7, <2>9 DEF SessionOK, DbPhase, Built
  <2> QED
    BY <1>0, <2>5, <2>6, <2>10, OneSession, JobsStayRight
<1>2. CASE Refuse(s)
  BY <1>2, FetchForgotten DEF Refuse, Fail
<1>3. CASE Negotiate(s) \/ FinalRequest(s) \/ FetchV1(s)
  <2>1. /\ UNCHANGED <<setting, refs, stored, cache, pack, cut, missed, leftover, held, shallows>>
        /\ LeftOK'
    BY <1>0, <1>3, JobsStayRight DEF Negotiate, FinalRequest, FetchV1, Answer, storeVars, buildVars,
         workVars, clientVars
  <2>2. \/ /\ phase' = [phase EXCEPT ![s] = "final"] /\ UNCHANGED <<args, have>>
        \/ /\ phase' = [phase EXCEPT ![s] = "build"] /\ Resolve(s)
           /\ \E claims \in Claims(s) : have' = [have EXCEPT ![s] = Known(claims)]
    BY <1>3 DEF Negotiate, FinalRequest, FetchV1, Answer, Goto
  <2>3. CASE phase' = [phase EXCEPT ![s] = "final"] /\ UNCHANGED <<args, have>>
    <3>1. Shapes' /\ (\A t \in Sessions \ {s} : Same(t)) /\ phase'[s] = "final"
      BY <1>0, <2>1, <2>3 DEF Shapes, PerSession, Same
    <3>2. SessionOK(s)'
      BY <1>0, <2>1, <2>3, <3>1 DEF SessionOK, DbPhase, Built
    <3> QED
      BY <2>1, <3>1, <3>2, OneSession
  <2>4. ASSUME phase' = [phase EXCEPT ![s] = "build"], Resolve(s), NEW claims \in Claims(s),
               have' = [have EXCEPT ![s] = Known(claims)]
        PROVE  DInv'
    <3>1. args' = [args EXCEPT ![s] = [args[s] EXCEPT !.want = Resolved(s), !.names = {}]]
      BY <2>4, <1>0 DEF Resolve, Shapes, PerSession
    <3>2. Resolved(s) \subseteq Commits
      BY <1>0 DEF Resolved, SessionOK, StoreOK, Arg
    <3>3. Known(claims) \subseteq stored \intersect held[s]
      BY DEF Claims, Known, History
    <3>4. /\ Shapes' /\ (\A t \in Sessions \ {s} : Same(t)) /\ phase'[s] = "build"
          /\ have'[s] = Known(claims)
          /\ args'[s] = [args[s] EXCEPT !.want = Resolved(s), !.names = {}]
      BY <1>0, <2>1, <2>4, <3>1 DEF Shapes, PerSession, Same
    <3>5. args'[s] \in Arg
      BY <1>0, <3>2, <3>4 DEF SessionOK, StoreOK, Arg
    <3>6. SessionOK(s)'
      BY <1>0, <2>1, <3>3, <3>4, <3>5 DEF SessionOK, DbPhase, Built
    <3> QED
      BY <2>1, <3>4, <3>6, OneSession
  <2> QED
    BY <2>2, <2>3, <2>4
<1> QED
  BY <1>1, <1>2, <1>3, NoLazyFetch DEF Request

\* A fetch is in a later phase, with a pack in hand.
LEMMA MovesOn ==
  ASSUME DInv, NEW s \in Sessions, NEW p \in DbPhase, NEW objs, NEW lacked,
         phase' = [phase EXCEPT ![s] = p], pack' = [pack EXCEPT ![s] = objs],
         missed' = [missed EXCEPT ![s] = lacked],
         UNCHANGED <<args, have, held, shallows, cut, stored, leftover>>,
         p = "subtract" /\ lacked = {} =>
           args[s].want \subseteq stored /\ objs = NeededOids(stored, args[s].want, have[s]),
         p \in Built => Right(lacked, args[s].want, have[s], objs),
         p \in Built \union {"subtract"} => objs \in SUBSET Objects
  PROVE  Shapes' /\ (\A t \in Sessions \ {s} : Same(t)) /\ SessionOK(s)' /\ LeftOK'
<1>1. /\ Shapes' /\ (\A t \in Sessions \ {s} : Same(t))
      /\ phase'[s] = p /\ pack'[s] = objs /\ missed'[s] = lacked
  BY DEF DInv, Shapes, PerSession, Same
<1>2. /\ args[s] \in Arg /\ have[s] \subseteq stored \intersect held[s]
      /\ WholeSet(held[s]) /\ shallows[s] = {} /\ cut[s] = {}
  BY DEF DInv, SessionOK
<1>3. /\ args'[s] = args[s] /\ have'[s] = have[s] /\ held'[s] = held[s]
      /\ shallows'[s] = shallows[s] /\ cut'[s] = cut[s] /\ stored' = stored
  OBVIOUS
<1>4. /\ phase'[s] = "subtract" /\ missed'[s] = {} =>
           args'[s].want \subseteq stored' /\ pack'[s] = NeededOids(stored', args'[s].want, have'[s])
      /\ phase'[s] \in Built \union {"subtract"} => pack'[s] \in SUBSET Objects
  BY <1>1, <1>3
<1>5. phase'[s] \in Built => Right(missed[s], args[s].want, have[s], pack[s])'
  BY <1>1, <1>3 DEF Right
<1>6. /\ args'[s] \in Arg /\ have'[s] \subseteq stored' \intersect held'[s]
      /\ WholeSet(held'[s]) /\ shallows'[s] = {} /\ cut'[s] = {} /\ phase'[s] \in DbPhase
  BY <1>1, <1>2, <1>3
<1>7. SessionOK(s)'
  BY <1>4, <1>5, <1>6 DEF SessionOK
<1>8. LeftOK'
  BY JobsStayRight DEF DInv
<1> QED
  BY <1>1, <1>7, <1>8

\* What the request of a session calls for, as a store with all the wants has
\* it.
LEMMA Selected ==
  ASSUME DInv, NEW s \in Sessions, args[s].want \subseteq stored
  PROVE  /\ NeededOids(stored, args[s].want, have[s]) \ HaveOids(stored, have[s]) =
              Content(args[s].want, have[s])
         /\ Content(args[s].want, have[s]) \subseteq ClosureOf(stored)
<1>1. /\ stored \in SUBSET Commits /\ ClosedIn(Commits, stored)
      /\ args[s].want \in SUBSET stored /\ have[s] \in SUBSET stored
  BY DEF DInv, StoreOK, SessionOK
<1>2. PICK want \in SUBSET stored, haves \in SUBSET stored : want = args[s].want /\ haves = have[s]
  BY <1>1
<1>3. Content(want, haves) \subseteq ClosureOf(stored)
  BY <1>1, SelectionStable
<1>4. Chosen(stored, want, haves) = Content(want, haves)
  BY <1>1, SelectionStable
<1> QED
  BY <1>2, <1>3, <1>4 DEF Chosen

\* The walk for the wants finds objects of the repository, the wants that are
\* not there included.
LEMMA NeededAreObjects ==
  ASSUME NEW known \in SUBSET Commits, NEW want \in SUBSET Commits, NEW haves
  PROVE  NeededOids(known, want, haves) \in SUBSET Objects
<1> DEFINE commits == AncestorsIn(known, want \intersect Commits) \ AncestorsIn(known, haves)
<1>1. commits \in SUBSET Commits
  BY DEF AncestorsIn
<1>2. commits \intersect known \in SUBSET Commits
  BY <1>1
<1> HIDE DEF commits
<1>3. RootTrees(known, commits) \in SUBSET Files
  BY <1>2, RootsAreFiles DEF RootTrees
<1>4. Descend(RootTrees(known, commits), want \union commits) \subseteq Files
  BY <1>3, DescendClosed
<1> QED
  BY <1>1, <1>4 DEF NeededOids, CollectTreeOids, commits, Objects

\* A walk or a read of build_pack.
LEMMA BuildMoves ==
  ASSUME DInv, NEW s \in Sessions, NEW e, NEW from, NEW to \in Built, NEW objs,
         NextStep(s, e, from, to, objs), objs \in SUBSET Objects,
         Right(missed[s], args[s].want, have[s], objs)
  PROVE  DInv'
<1>1. /\ phase' = [phase EXCEPT ![s] = to] /\ pack' = [pack EXCEPT ![s] = objs]
      /\ UNCHANGED <<args, have, held, shallows, cut, missed, leftover, setting, refs, stored,
                     cache>>
  BY DEF NextStep, BuildStep, Goto, storeVars, clientVars, workVars
<1>2. missed' = [missed EXCEPT ![s] = missed[s]]
  BY <1>1 DEF DInv, Shapes, PerSession
<1>3. to \in DbPhase /\ to # "subtract"
  BY DEF Built, DbPhase
<1> QED
  BY <1>1, <1>2, <1>3, MovesOn, OneSession

\* A step that moves on with the same pack.
LEMMA PhaseMoves ==
  ASSUME DInv, NEW s \in Sessions, NEW p \in DbPhase \ {"subtract"},
         phase' = [phase EXCEPT ![s] = p],
         UNCHANGED <<pack, missed, args, have, held, shallows, cut, stored, leftover>>,
         p \in Built => phase[s] \in Built
  PROVE  Shapes' /\ (\A t \in Sessions \ {s} : Same(t)) /\ SessionOK(s)' /\ LeftOK'
<1>1. pack' = [pack EXCEPT ![s] = pack[s]] /\ missed' = [missed EXCEPT ![s] = missed[s]]
  BY DEF DInv, Shapes, PerSession
<1>2. p \in Built => Right(missed[s], args[s].want, have[s], pack[s]) /\ pack[s] \in SUBSET Objects
  BY DEF DInv, SessionOK
<1>3. /\ p \in DbPhase /\ p # "subtract"
      /\ p \in Built \union {"subtract"} => pack[s] \in SUBSET Objects
  BY <1>2
<1>4. PICK objs, lacked :
        /\ pack' = [pack EXCEPT ![s] = objs] /\ missed' = [missed EXCEPT ![s] = lacked]
        /\ p = "subtract" /\ lacked = {} =>
             args[s].want \subseteq stored /\ objs = NeededOids(stored, args[s].want, have[s])
        /\ p \in Built => Right(lacked, args[s].want, have[s], objs)
        /\ p \in Built \union {"subtract"} => objs \in SUBSET Objects
  BY <1>1, <1>2, <1>3
<1>5. p \in DbPhase
  OBVIOUS
<1> QED
  BY <1>4, <1>5, MovesOn

\* A file is created empty, or filled with its pack.
LEMMA WritesPut ==
  ASSUME NEW j, CreateFile(j) \/ FillFile(j)
  PROVE  \E objs, whole :
           whole \in BOOLEAN /\ PutFile(j, objs, whole) /\ (whole => objs = j.objs)
<1>1. CASE CreateFile(j)
  <2>1. PutFile(j, {}, FALSE)
    BY <1>1 DEF CreateFile
  <2> QED
    BY <2>1
<1>2. CASE FillFile(j)
  <2>1. PutFile(j, j.objs, TRUE)
    BY <1>2 DEF FillFile
  <2> QED
    BY <2>1
<1> QED
  BY <1>1, <1>2

\* A step that writes the cache file of a job.
LEMMA FilePut ==
  ASSUME DInv, NEW j, JobOK(j), NEW objs, NEW whole \in BOOLEAN, PutFile(j, objs, whole),
         whole => objs = j.objs, UNCHANGED <<setting, refs, stored>>,
         Shapes', \A t \in Sessions : SessionOK(t)', LeftOK'
  PROVE  DInv'
<1>1. StoreOK'
  BY DEF DInv, StoreOK, engine
<1>3. PICK new : /\ cache' \subseteq cache \union {new} /\ new.whole = whole /\ new.objs = objs
                 /\ new.key = j.key /\ new.missed = j.missed
  <2> DEFINE file == [key |-> j.key, objs |-> objs, missed |-> j.missed, whole |-> whole]
  <2>1. /\ file.key = j.key /\ file.missed = j.missed /\ file.whole = whole /\ file.objs = objs
    OBVIOUS
  <2>2. cache' \subseteq cache \union {file}
    BY DEF PutFile
  <2> HIDE DEF file
  <2> QED
    BY <2>1, <2>2
<1>5. FileOK(new)'
  BY <1>3 DEF JobOK, FileOK, Right
<1>6. \A f \in cache' : FileOK(f)'
  <2> SUFFICES ASSUME NEW f \in cache' PROVE FileOK(f)'
    OBVIOUS
  <2>1. CASE f \in cache
    BY <2>1 DEF DInv, FileOK, Right
  <2>2. CASE f = new
    BY <1>5, <2>2 DEF FileOK
  <2> QED
    BY <1>3, <2>1, <2>2
<1> QED
  BY <1>1, <1>6 DEF DInv

\* build_pack: two walks, a read in which nothing turns out missing that was
\* there for the first walk, and the cache.
LEMMA BuildDbStep ==
  ASSUME DInv, NEW s \in Sessions, BuildDb(s) \/ CacheWriteFails(s)
  PROVE  DInv'
<1>0. SessionOK(s) /\ StoreOK
  BY DEF DInv
<1> DEFINE P == Content(args[s].want, have[s])
           N == NeededOids(stored, args[s].want, have[s])
           H == HaveOids(stored, have[s])
<1>s. args[s].want \subseteq stored => N \ H = P /\ P \subseteq ClosureOf(stored)
  BY Selected
<1>1. CASE KvNeeded(s) \/ SqlNeeded(s)
  <2>1. /\ phase' = [phase EXCEPT ![s] = "subtract"] /\ pack' = [pack EXCEPT ![s] = N]
        /\ missed' = [missed EXCEPT ![s] = Absent(s)]
        /\ UNCHANGED <<args, have, held, shallows, cut, leftover, setting, refs, stored, cache>>
    BY <1>1 DEF KvNeeded, SqlNeeded, Needed, BuildStep, Goto, storeVars, clientVars, workVars
  <2>2. args[s].want \in SUBSET Commits /\ stored \in SUBSET Commits
    BY <1>0 DEF SessionOK, StoreOK, Arg
  <2>3. ClosureOf(stored) \intersect Commits = stored
    BY <2>2, ClosureParts
  <2>4. Absent(s) = {} => args[s].want \subseteq stored
    BY <2>2, <2>3 DEF Absent
  <2>5. N \in SUBSET Objects
    BY <2>2, NeededAreObjects
  <2>6. "subtract" \in DbPhase \ Built
    BY DEF DbPhase, Built
  <2> HIDE DEF N
  <2>7. Shapes' /\ (\A t \in Sessions \ {s} : Same(t)) /\ SessionOK(s)' /\ LeftOK'
    BY <2>1, <2>4, <2>5, <2>6, MovesOn DEF N
  <2> QED
    BY <2>1, <2>7, OneSession
<1>2. CASE KvSubtract(s) \/ SqlSubtract(s)
  <2>1. PICK e : NextStep(s, e, "subtract", "read", pack[s] \ H)
    BY <1>2 DEF KvSubtract, SqlSubtract
  <2>2. pack[s] \in SUBSET Objects /\ (missed[s] = {} => args[s].want \subseteq stored /\ pack[s] = N)
    BY <1>0, <2>1 DEF SessionOK, NextStep, BuildStep
  <2>3. Right(missed[s], args[s].want, have[s], pack[s] \ H)
    BY <2>2, <1>s DEF Right
  <2>4. "read" \in Built /\ pack[s] \ H \in SUBSET Objects
    BY <2>2 DEF Built
  <2> HIDE DEF H
  <2> QED
    BY <2>1, <2>3, <2>4, BuildMoves
<1>3. CASE KvRead(s) \/ SqlRead(s)
  <2>1. PICK e : NextStep(s, e, "read", "write", Present(pack[s]))
    BY <1>3 DEF KvRead, SqlRead
  <2>2. pack[s] \in SUBSET Objects /\ Right(missed[s], args[s].want, have[s], pack[s])
    BY <1>0, <2>1 DEF SessionOK, NextStep, BuildStep, Built
  <2>3. Right(missed[s], args[s].want, have[s], Present(pack[s]))
    BY <2>2, <1>s DEF Right, Present
  <2>4. "write" \in Built /\ Present(pack[s]) \in SUBSET Objects
    BY <2>2 DEF Built, Present
  <2> QED
    BY <2>1, <2>3, <2>4, BuildMoves
<1>5. CASE EmptyPack(s)
  <2>1. NextStep(s, engine, "read", "write", pack[s])
    BY <1>5 DEF EmptyPack
  <2>2. pack[s] \in SUBSET Objects /\ Right(missed[s], args[s].want, have[s], pack[s])
    BY <1>0, <2>1 DEF SessionOK, NextStep, BuildStep, Built
  <2>3. "write" \in Built
    BY DEF Built
  <2> QED
    BY <2>1, <2>2, <2>3, BuildMoves
<1>6. CASE CacheHit(s)
  <2>1. /\ phase' = [phase EXCEPT ![s] = "file"]
        /\ UNCHANGED <<setting, refs, stored, cache, pack, missed, args, have, held, shallows, cut,
                       leftover>>
    BY <1>6 DEF CacheHit, Goto, storeVars, buildVars, workVars, clientVars
  <2>2. "file" \in DbPhase \ {"subtract"} /\ "file" \notin Built
    BY DEF DbPhase, Built
  <2> QED
    BY <2>1, <2>2, PhaseMoves, OneSession
<1>7. ASSUME NEW p \in {"writing", "memory"}, NEW q \in {"write", "writing"}, WriteStep(s, q, p)
      PROVE  /\ UNCHANGED <<setting, refs, stored>>
             /\ Shapes' /\ (\A t \in Sessions \ {s} : Same(t)) /\ SessionOK(s)' /\ LeftOK'
             /\ JobOK(Job(s))
  <2>1. /\ phase' = [phase EXCEPT ![s] = p] /\ phase[s] \in {"write", "writing"}
        /\ UNCHANGED <<setting, refs, stored, pack, missed, args, have, held, shallows, cut,
                       leftover>>
    BY <1>7 DEF WriteStep, Goto, buildVars, workVars, clientVars
  <2>2. p \in DbPhase \ {"subtract"} /\ phase[s] \in Built
    BY <2>1 DEF DbPhase, Built
  <2> QED
    BY <2>1, <2>2, PhaseMoves, JobIsRight
<1>8. CASE CacheFull(s) \/ CacheWriteFails(s)
  BY <1>8, <1>7, OneSession DEF CacheFull, CacheWriteFails
<1>9. CASE CacheCreate(s) \/ CacheWritten(s)
  <2>1. PICK objs, whole :
          /\ whole \in BOOLEAN /\ PutFile(Job(s), objs, whole)
          /\ whole => objs = Job(s).objs
    BY <1>9, WritesPut DEF CacheCreate, CacheWritten
  <2>2. /\ UNCHANGED <<setting, refs, stored>>
        /\ Shapes' /\ (\A t \in Sessions \ {s} : Same(t)) /\ SessionOK(s)' /\ LeftOK'
        /\ JobOK(Job(s))
    BY <1>9, <1>7 DEF CacheCreate, CacheWritten
  <2>3. StoreOK'
    BY <1>0, <2>2 DEF StoreOK, engine
  <2>4. \A t \in Sessions : SessionOK(t)'
    BY <2>2, <2>3, FetchUndisturbed
  <2> QED
    BY <2>1, <2>2, <2>4, FilePut
<1> QED
  BY <1>1, <1>2, <1>3, <1>5, <1>6, <1>8, <1>9 DEF BuildDb

\* The closure on the blocking pool of a fetch that was given up.
LEMMA LeftStep ==
  ASSUME DInv, NEW s \in Sessions, Left(s)
  PROVE  DInv'
<1>0. LeftOK /\ Shapes /\ StoreOK
  BY DEF DInv
<1>1. PICK work :
        /\ leftover' = [leftover EXCEPT ![s] = work]
        /\ work.at \in {"write", "writing"} =>
             leftover[s].at \in {"write", "writing"} /\ work.job = leftover[s].job
  <2>1. CASE LeftCreates(s)
    <3>1. /\ leftover' = [leftover EXCEPT ![s] = [leftover[s] EXCEPT !.at = "writing"]]
          /\ leftover[s].at = "write"
      BY <2>1 DEF LeftCreates, LeftAt
    <3>2. [leftover[s] EXCEPT !.at = "writing"].job = leftover[s].job
      OBVIOUS
    <3> QED
      BY <3>1, <3>2
  <2>2. CASE SendFails(s) \/ LeftWrites(s) \/ LeftFails(s)
    <3>1. leftover' = [leftover EXCEPT ![s] = NoWork]
      BY <2>2 DEF SendFails, LeftWrites, LeftFails, LeftAt
    <3>2. NoWork.at \notin {"write", "writing"}
      BY DEF NoWork
    <3> QED
      BY <3>1, <3>2
  <2> QED
    BY <2>1, <2>2 DEF Left
<1>2. UNCHANGED <<setting, refs, stored, phase, args, have, pack, held, shallows, cut, missed>>
  BY DEF Left, SendFails, LeftCreates, LeftWrites, LeftFails, LeftAt, buildVars, clientVars
<1>3. /\ PerSession(leftover') /\ leftover'[s] = work
      /\ \A t \in Sessions \ {s} : leftover'[t] = leftover[t]
  BY <1>0, <1>1 DEF Shapes, PerSession
<1>4. Shapes' /\ StoreOK' /\ \A t \in Sessions : Same(t)
  BY <1>0, <1>2, <1>3 DEF Shapes, StoreOK, Same, PerSession, engine
<1>5. LeftOK'
  BY <1>0, <1>1, <1>2, <1>3 DEF LeftOK, JobOK, Right
<1>6. \A t \in Sessions : SessionOK(t)'
  BY <1>2, <1>4, FetchUndisturbed
<1>7. CASE UNCHANGED cache
  BY <1>2, <1>4, <1>5, <1>6, <1>7, FilesStayRight DEF DInv
<1>8. CASE LeftCreates(s) \/ LeftWrites(s)
  <2>1. JobOK(leftover[s].job)
    BY <1>0, <1>8 DEF LeftOK, LeftCreates, LeftWrites
  <2>2. PICK objs, whole :
          /\ whole \in BOOLEAN /\ PutFile(leftover[s].job, objs, whole)
          /\ whole => objs = leftover[s].job.objs
    BY <1>8, WritesPut DEF LeftCreates, LeftWrites
  <2> QED
    BY <1>2, <1>4, <1>5, <1>6, <2>1, <2>2, FilePut
<1> QED
  BY <1>7, <1>8 DEF Left, SendFails, LeftFails

\* The file a hit opened holds the pack of the request, unless a want was not
\* there when it was built.
LEMMA HitIsRight ==
  ASSUME DInv, NEW s \in Sessions, NEW f \in CacheFiles(s), f.whole, f.missed = {}
  PROVE  f.objs = Content(args[s].want, have[s])
<1>1. f \in cache /\ f.key.want = args[s].want /\ f.key.have = have[s]
  BY DEF CacheFiles, FilesOf, CacheKey
<1>2. FileOK(f)
  BY <1>1 DEF DInv
<1> QED
  BY <1>1, <1>2 DEF FileOK, Right

\* Streaming: what arrives is what the request calls for.
LEMMA StreamStep ==
  ASSUME DInv, NEW s \in Sessions, Stream(s)
  PROVE  /\ DInv'
         /\ StreamMemory(s) \/ StreamFile(s) => args[s].want \subseteq held'[s]
<1>0. /\ phase[s] \in {"memory", "file"}
      /\ phase[s] = "memory" => Right(missed[s], args[s].want, have[s], pack[s])
  BY DEF DInv, SessionOK, DbPhase, Built, Stream
<1>1. CASE StreamMemory(s)
  <2>1. Deliver(s, pack[s]) /\ pack[s] = Content(args[s].want, have[s])
    BY <1>0, <1>1 DEF StreamMemory, Right
  <2> QED
    BY <2>1, PackDelivered
<1>2. CASE StreamFile(s)
  <2>1. PICK f \in CacheFiles(s) : f.whole /\ f.missed = {} /\ Deliver(s, f.objs)
    BY <1>2 DEF StreamFile
  <2>2. f.objs = Content(args[s].want, have[s])
    BY <2>1, HitIsRight
  <2> QED
    BY <2>1, <2>2, PackDelivered
<1>3. CASE ~ StreamMemory(s) /\ ~ StreamFile(s)
  <2>1. StreamTorn(s) \/ Severed(s)
    BY <1>0, <1>3 DEF Stream
  <2>2. /\ Reset(s) /\ UNCHANGED clientVars /\ UNCHANGED storeVars
        /\ UNCHANGED leftover \/ Abandon(s)
    BY <2>1 DEF StreamTorn, Severed, Fail
  <2> QED
    BY <1>3, <2>2, FetchForgotten
<1> QED
  BY <1>1, <1>2, <1>3

\* Every step keeps the invariant, and an answer that is complete holds what
\* was wanted.
LEMMA DStep ==
  ASSUME DInv, [Next]_vars
  PROVE  /\ DInv'
         /\ \A s \in Sessions :
              StreamMemory(s) \/ StreamFile(s) \/ StreamDone(s) => args[s].want \subseteq held'[s]
<1>0. StoreOK /\ Shapes /\ LeftOK /\ \A s \in Sessions : SessionOK(s)
  BY DEF DInv
<1>1. ASSUME NEW s \in Sessions, StreamMemory(s) \/ StreamFile(s) \/ StreamDone(s)
      PROVE  args[s].want \subseteq held'[s]
  <2>1. ~ StreamDone(s)
    BY <1>0 DEF SessionOK, DbPhase, StreamDone, Drained
  <2>2. Stream(s)
    BY <1>1, <2>1 DEF Stream, StreamMemory, StreamFile
  <2> QED
    BY <1>1, <2>1, <2>2, StreamStep
<1>2. ASSUME NEW s \in Sessions, Serve(s) PROVE DInv'
  <2>1. CASE Stream(s)
    BY <2>1, StreamStep
  <2>2. CASE BuildDb(s)
    BY <2>2, BuildDbStep
  <2> QED
    BY <1>0, <1>2, <2>1, <2>2 DEF Serve, StoreOK
<1>3. ASSUME NEW s \in Sessions, Trouble(s) \/ Left(s) PROVE DInv'
  <2>1. CASE CacheWriteFails(s)
    BY <2>1, BuildDbStep
  <2>2. CASE WorkerFails(s)
    BY <2>2, NoSession DEF WorkerFails, storeVars, buildVars, clientVars, dbVars
  <2>3. CASE Error(s)
    BY <2>3, FetchForgotten DEF Error, Fail
  <2> QED
    BY <1>3, <2>1, <2>2, <2>3, LeftStep DEF Trouble
<1>4. CASE Push
  <2>1. PICK n \in Names, c \in setting.targets :
          /\ refs' = [refs EXCEPT ![n] = c] /\ stored' = stored \union Ancestors({c} \ {Null})
    BY <1>4 DEF Push
  <2>2. UNCHANGED <<setting, cache, phase, args, have, pack, held, shallows, cut, missed, leftover>>
    BY <1>4 DEF Push, buildVars, workVars, clientVars
  <2>3. c \in Commits \union {Null} /\ {c} \ {Null} \in SUBSET Commits
    BY <1>0, SettingsAssumption DEF StoreOK
  <2>4. /\ Ancestors({c} \ {Null}) \subseteq Commits /\ ClosedIn(Commits, Ancestors({c} \ {Null}))
        /\ {c} \ {Null} \subseteq Ancestors({c} \ {Null})
    BY <2>3, HistoryIsClosed
  <2>5. stored' \in SUBSET Commits /\ ClosedIn(Commits, stored')
    BY <1>0, <2>1, <2>4 DEF StoreOK, ClosedIn
  <2>6. refs' \in [Names -> Commits \union {Null}] /\ \A m \in Names : refs'[m] \in stored' \union {Null}
    BY <1>0, <2>1, <2>3, <2>4 DEF StoreOK
  <2>7. StoreOK'
    BY <1>0, <2>2, <2>5, <2>6 DEF StoreOK, engine
  <2>8. stored \subseteq stored' /\ Shapes' /\ \A t \in Sessions : Same(t)
    BY <1>0, <2>1, <2>2 DEF Shapes, PerSession, Same
  <2>9. \A t \in Sessions : SessionOK(t)'
    BY <2>7, <2>8, FetchUndisturbed
  <2>10. (\A f \in cache' : FileOK(f)') /\ LeftOK'
    BY <1>0, <2>2, <2>8, FilesStayRight, JobsStayRight
  <2> QED
    BY <1>1, <2>7, <2>8, <2>9, <2>10 DEF DInv
<1>5. CASE Repack \/ Ssh \/ UNCHANGED vars
  BY <1>1, <1>5, NoSession DEF Repack, Ssh, Quiet, vars, storeVars, buildVars, workVars, clientVars,
       dbVars
<1>6. CASE Crash
  <2>1. /\ phase' = [s \in Sessions |-> "idle"] /\ args' = [s \in Sessions |-> NoArgs]
        /\ have' = [s \in Sessions |-> {}] /\ pack' = [s \in Sessions |-> {}]
        /\ cut' = [s \in Sessions |-> {}] /\ missed' = [s \in Sessions |-> {}]
        /\ leftover' = [s \in Sessions |-> NoWork]
        /\ UNCHANGED <<setting, refs, stored, cache, held, shallows>>
    BY <1>6 DEF Crash, storeVars, clientVars
  <2>2. Shapes' /\ StoreOK'
    BY <1>0, <2>1 DEF Shapes, PerSession, StoreOK, engine
  <2>3. NoArgs \in Arg
    BY DEF NoArgs, Arg, Option, Filter
  <2>4. \A s \in Sessions : SessionOK(s)'
    BY <1>0, <2>1, <2>3 DEF SessionOK, DbPhase, Built
  <2>5. (\A f \in cache' : FileOK(f)') /\ LeftOK'
    BY <2>1, FilesStayRight DEF LeftOK, NoWork
  <2> QED
    BY <1>1, <2>2, <2>4, <2>5 DEF DInv
<1>7. DInv'
  BY <1>2, <1>3, <1>4, <1>5, <1>6, RequestStep DEF Next
<1> QED
  BY <1>1, <1>7

\* The store starts with whole histories, and so do the clients.
LEMMA InitDInv ==
  ASSUME Init, engine \in {"kv", "sql"}
  PROVE  DInv
<1>1. StoreOK /\ Shapes
  BY FirstAssumption DEF Init, StoreOK, Shapes, PerSession, engine
<1>2. NoArgs \in Arg
  BY DEF NoArgs, Arg, Option, Filter
<1>3. ASSUME NEW s \in Sessions PROVE WholeSet(ClosureOf(FirstHeld[s]))
  <2> DEFINE C == FirstHeld[s]
  <2>1. C \in SUBSET Commits /\ ClosedIn(Commits, C)
    BY FirstAssumption
  <2>2. TreesOf(C) \in SUBSET Files
    BY <2>1, RootsAreFiles
  <2>3. Below(TreesOf(C)) \subseteq Files /\ Files \intersect Commits = {}
    BY <2>2, BelowClosed, TreeAssumption DEF Files
  <2>4. ClosureOf(C) = C \union Below(TreesOf(C))
    BY DEF ClosureOf, Below
  <2>5. ClosureOf(C) \intersect Commits = C
    BY <2>1, <2>3, <2>4
  <2> QED
    BY <2>1, <2>3, <2>4, <2>5 DEF WholeSet, Objects
<1>4. ASSUME NEW s \in Sessions PROVE SessionOK(s)
  BY <1>2, <1>3 DEF Init, SessionOK, DbPhase, Built
<1>5. (\A f \in cache : FileOK(f)) /\ LeftOK
  BY DEF Init, LeftOK, NoWork
<1> QED
  BY <1>1, <1>4, <1>5 DEF DInv

\* A whole cache file of wants that were there is what a build would give.
LEMMA FilesAreBuilds == DInv => CacheSound
<1> SUFFICES ASSUME DInv, NEW f \in cache, f.whole, f.missed = {}
             PROVE  f.objs = (NeededOids(stored, f.key.want, f.key.have)
                                \ HaveOids(stored, f.key.have)) \intersect ClosureOf(stored)
  BY DEF CacheSound, BuildAnew, Present
<1>1. /\ stored \in SUBSET Commits /\ ClosedIn(Commits, stored)
      /\ f.key.want \in SUBSET stored /\ f.key.have \in SUBSET stored
      /\ f.objs = Content(f.key.want, f.key.have)
  BY DEF DInv, StoreOK, FileOK, Right
<1>2. PICK want \in SUBSET stored, haves \in SUBSET stored : want = f.key.want /\ haves = f.key.have
  BY <1>1
<1>3. Content(want, haves) \subseteq ClosureOf(stored)
  BY <1>1, SelectionStable
<1>4. Chosen(stored, want, haves) = Content(want, haves)
  BY <1>1, SelectionStable
<1> QED
  BY <1>1, <1>2, <1>3, <1>4 DEF Chosen

\* A whole client is complete in the sense of FetchedComplete.
LEMMA WholeIsComplete == DInv => FetchedComplete
<1> SUFFICES ASSUME DInv, NEW s \in Sessions
             PROVE  LET commits == AncestorsIn(Commits \ shallows[s], History(s))
                        files == Descend(TreesOf(commits), {}) \ Omitted(lacking[s])
                    IN  commits \union files \subseteq held[s]
  BY DEF FetchedComplete
<1>1. WholeSet(held[s]) /\ shallows[s] = {}
  BY DEF DInv, SessionOK
<1> DEFINE C == held[s] \intersect Commits
<1>2. C \in SUBSET Commits /\ ClosedIn(Commits, C) /\ Below(TreesOf(C)) \subseteq held[s]
  BY <1>1 DEF WholeSet
<1>3. AncestorsIn(Commits \ shallows[s], History(s)) = Ancestors(C)
  BY <1>1 DEF History, Ancestors
<1>4. Ancestors(C) = C
  BY <1>2, InClosed, HistoryIsClosed DEF Ancestors
<1> QED
  BY <1>2, <1>3, <1>4 DEF Below

(***************************************************************************)
(* Packs of FsGitoxide and FsGitCli                                        *)
(***************************************************************************)

\* FetchArgs, for commits or, in a partial clone, for single objects.
FsArg == [want : SUBSET Objects, names : SUBSET Names, version : {1, 2}, opts : Option]

\* The phases of a fetch over the file system, before the pack is asked for and
\* in all.
Asking == {"idle", "listed", "final"}
FsPhase == Asking \union {"build", "ship", "select", "memory", "stream"}

\* With the pack in hand and the shallow lines that go with it, the client will
\* have what it wants and be complete.
Fits(s) ==
  /\ args[s].want \subseteq held[s] \union pack[s]
  /\ Complete(held[s] \union pack[s], cut[s], Weaker(lacking[s], args[s].opts.filter))

\* A client is complete up to its shallow commits and its filter.  One that has
\* shallow commits gets no further than to ask, so the haves of a fetch that is
\* built on stand for their whole history.
FsSession(s) ==
  /\ args[s] \in FsArg
  /\ args[s].want \subseteq Commits \/ (args[s].want \subseteq Files /\ args[s].names = {})
  /\ have[s] \subseteq held[s] \intersect Commits
  /\ lacking[s] \in Filter /\ shallows[s] \subseteq Commits /\ cut[s] \subseteq Commits
  /\ Complete(held[s], shallows[s], lacking[s])
  /\ phase[s] \in FsPhase
  /\ phase[s] = "final" => args[s].version = 2
  /\ phase[s] = "listed" /\ args[s].version = 1 => shallows[s] = {}
  /\ phase[s] \notin Asking => shallows[s] = {}
  /\ engine = "gitoxide" /\ phase[s] = "select" => haveSet[s] = BuildHaveSet(have[s])
  /\ phase[s] \in {"ship", "memory", "stream"} => Fits(s)

FsShapes ==
  /\ PerSession(phase) /\ PerSession(args) /\ PerSession(have) /\ PerSession(haveSet)
  /\ PerSession(pack) /\ PerSession(cut) /\ PerSession(held) /\ PerSession(lacking)
  /\ PerSession(shallows)

FsStore ==
  /\ setting \in Settings /\ engine \in {"gitoxide", "cli"}
  /\ stored \in SUBSET Commits /\ ClosedIn(Commits, stored)
  /\ refs \in [Names -> Commits \union {Null}]
  /\ cache = {} /\ BitmapOK(bitmap)

\* What a fetch leaves behind is at most its pack thread.
FsLeft == PerSession(leftover) /\ \A s \in Sessions : leftover[s].at \in {"none", "send"}

FInv == FsShapes /\ FsStore /\ FsLeft /\ \A s \in Sessions : FsSession(s)

\* A step leaves a session alone.
FsSame(s) ==
  /\ phase'[s] = phase[s] /\ args'[s] = args[s] /\ have'[s] = have[s]
  /\ haveSet'[s] = haveSet[s] /\ pack'[s] = pack[s] /\ cut'[s] = cut[s]
  /\ held'[s] = held[s] /\ lacking'[s] = lacking[s] /\ shallows'[s] = shallows[s]

fsVars == <<phase, args, have, haveSet, pack, cut, held, lacking, shallows>>

\* What others do does not disturb a fetch.
LEMMA FsUndisturbed ==
  ASSUME NEW s \in Sessions, FsSession(s), FsSame(s), UNCHANGED setting
  PROVE  FsSession(s)'
BY DEF FsSession, FsSame, Fits, engine

\* A fetch that is given up leaves no more than that.
LEMMA FsAbandons ==
  ASSUME FInv, NEW s \in Sessions, UNCHANGED leftover \/ Abandon(s)
  PROVE  FsLeft'
<1>0. FsLeft /\ ~ Db
  BY DEF FInv, FsStore, Db
<1>1. CASE UNCHANGED leftover
  BY <1>0, <1>1 DEF FsLeft, PerSession
<1>2. CASE leftover' = [leftover EXCEPT ![s] = Work(s)]
  <2>1. Work(s).at = "send"
    BY <1>0 DEF Work
  <2> QED
    BY <1>0, <1>2, <2>1 DEF FsLeft, PerSession
<1> QED
  BY <1>1, <1>2 DEF Abandon

\* A step of one session.
LEMMA FsOneSession ==
  ASSUME FInv, NEW s \in Sessions, UNCHANGED storeVars, FsShapes', FsLeft',
         \A t \in Sessions \ {s} : FsSame(t), FsSession(s)'
  PROVE  FInv'
<1>1. FsStore'
  BY DEF FInv, FsStore, engine, storeVars
<1>2. \A t \in Sessions : FsSession(t)'
  BY FsUndisturbed DEF FInv, storeVars
<1> QED
  BY <1>1, <1>2 DEF FInv

\* A step of none.
LEMMA FsNoSession ==
  ASSUME FInv, FsStore', FsLeft', UNCHANGED setting, UNCHANGED fsVars
  PROVE  FInv'
<1>1. FsShapes' /\ \A t \in Sessions : FsSame(t)
  BY DEF FInv, FsShapes, PerSession, FsSame, fsVars
<1>2. \A t \in Sessions : FsSession(t)'
  BY <1>1, FsUndisturbed DEF FInv
<1> QED
  BY <1>1, <1>2 DEF FInv

\* The request of a session that asks for nothing.
LEMMA NoRequest ==
  NoArgs \in FsArg /\ NoArgs.want = {} /\ NoArgs.names = {} /\ NoArgs.version = 2
BY DEF NoArgs, FsArg, Option, Filter

\* A fetch that ends without a pack.
LEMMA FsForgotten ==
  ASSUME FInv, NEW s \in Sessions, Reset(s), UNCHANGED clientVars, UNCHANGED storeVars,
         UNCHANGED leftover \/ Abandon(s)
  PROVE  FInv'
<1>1. /\ phase'[s] = "idle" /\ args'[s] = NoArgs /\ have'[s] = {} /\ cut'[s] = {}
      /\ held'[s] = held[s] /\ lacking'[s] = lacking[s] /\ shallows'[s] = shallows[s]
      /\ FsShapes' /\ \A t \in Sessions \ {s} : FsSame(t)
  BY DEF FInv, FsShapes, PerSession, Reset, Goto, FsSame, clientVars
<1>2. FsSession(s)
  BY DEF FInv
<1>3. FsSession(s)'
  BY <1>1, <1>2, NoRequest DEF FsSession, FsPhase, Asking
<1> QED
  BY <1>1, <1>3, FsOneSession, FsAbandons

\* A pack that fits arrives.
LEMMA FsDelivered ==
  ASSUME FInv, NEW s \in Sessions, phase[s] \in {"memory", "stream"}, Deliver(s, pack[s])
  PROVE  FInv' /\ args[s].want \subseteq held'[s]
<1>1. /\ phase'[s] = "idle" /\ args'[s] = NoArgs /\ have'[s] = {} /\ cut'[s] = {}
      /\ held'[s] = held[s] \union pack[s] /\ shallows'[s] = shallows[s] \union cut[s]
      /\ lacking'[s] = Weaker(lacking[s], args[s].opts.filter)
      /\ FsShapes' /\ \A t \in Sessions \ {s} : FsSame(t)
      /\ UNCHANGED storeVars
  BY DEF FInv, FsShapes, PerSession, Deliver, Reset, Goto, FsSame
<1>2. FsSession(s) /\ Fits(s) /\ shallows[s] = {}
  BY DEF FInv, FsSession, Asking
<1>3. Complete(held'[s], shallows'[s], lacking'[s]) /\ args[s].want \subseteq held'[s]
  <2>1. shallows'[s] = cut[s]
    BY <1>1, <1>2
  <2> QED
    BY <1>1, <1>2, <2>1 DEF Fits
<1>4. lacking'[s] \in Filter
  BY <1>1, <1>2 DEF Weaker, Filter
<1>5. FsSession(s)'
  BY <1>1, <1>2, <1>3, <1>4, NoRequest DEF FsSession, FsPhase, Asking
<1>6. FsLeft'
  BY FsAbandons DEF Deliver
<1> QED
  BY <1>1, <1>3, <1>5, <1>6, FsOneSession

\* Requests: what is asked for is commits, or one object by its id; a shallow
\* client gets no answer.
LEMMA FsRequestStep ==
  ASSUME FInv, NEW s \in Sessions, Request(s)
  PROVE  FInv'
<1>0. FsSession(s) /\ FsStore /\ FsShapes
  BY DEF FInv
<1>l. ~ Refuse(s) => FsLeft'
  BY FsAbandons DEF Request, AdvertiseRefs, ListRefs, AskUnseen, Ask, LazyFetch, Negotiate,
       FinalRequest, FetchV1, Answer, workVars
<1>1. CASE ~ Refuse(s) /\ (AdvertiseRefs(s) \/ ListRefs(s) \/ AskUnseen(s))
  <2>0. /\ News(s) \subseteq Names /\ { refs[n] : n \in News(s) } \subseteq Commits
        /\ setting.unseen \subseteq Commits
    BY <1>0, SettingsAssumption DEF News, FsStore
  <2>1. PICK want, names, v :
          /\ Ask(s, want, names, v) /\ v \in {1, 2} /\ (v = 1 => shallows[s] = {})
          /\ want \subseteq Commits /\ names \subseteq Names
    <3>1. CASE AdvertiseRefs(s) \/ ListRefs(s)
      BY <2>0, <3>1 DEF AdvertiseRefs, ListRefs
    <3>2. CASE AskUnseen(s)
      <4>1. PICK c \in setting.unseen : Ask(s, {c}, {}, 2)
        BY <3>2 DEF AskUnseen
      <4>2. {c} \subseteq Commits
        BY <2>0
      <4> QED
        BY <4>1, <4>2
    <3> QED
      BY <1>1, <3>1, <3>2
  <2>2. PICK o \in setting.options :
          args' = [args EXCEPT ![s] = [want |-> want, names |-> names, version |-> v, opts |-> o]]
    BY <2>1 DEF Ask
  <2>4. o \in Option
    BY <1>0, <2>2, SettingsAssumption DEF FsStore
  <2>5. /\ phase' = [phase EXCEPT ![s] = "listed"]
        /\ UNCHANGED <<have, haveSet, pack, cut, held, lacking, shallows>> /\ UNCHANGED storeVars
    BY <2>1 DEF Ask, Goto, buildVars, clientVars
  <2>6. FsShapes' /\ \A t \in Sessions \ {s} : FsSame(t)
    BY <1>0, <2>2, <2>5 DEF FsShapes, PerSession, FsSame
  <2>7. args'[s] = [want |-> want, names |-> names, version |-> v, opts |-> o] /\ phase'[s] = "listed"
    BY <1>0, <2>2, <2>5 DEF FsShapes, PerSession
  <2>8. want \subseteq Objects
    BY <2>1 DEF Objects
  <2>9. args'[s] \in FsArg /\ args'[s].want \subseteq Commits /\ args'[s].version = v
    BY <2>1, <2>4, <2>7, <2>8 DEF FsArg
  <2>10. FsSession(s)'
    BY <1>0, <2>1, <2>5, <2>7, <2>9 DEF FsSession, FsPhase, Asking
  <2> QED
    BY <1>l, <1>1, <2>5, <2>6, <2>10, FsOneSession
<1>2. CASE ~ Refuse(s) /\ LazyFetch(s)
  <2>1. PICK o \in Under(s) \ held[s] :
          args' = [args EXCEPT ![s] =
            [want |-> {o}, names |-> {}, version |-> 2,
             opts |-> [deepen |-> 0, filter |-> "blob:none", thin |-> FALSE]]]
    BY <1>2 DEF LazyFetch
  <2>2. /\ phase' = [phase EXCEPT ![s] = "final"]
        /\ UNCHANGED <<have, haveSet, pack, cut, held, lacking, shallows>> /\ UNCHANGED storeVars
    BY <1>2 DEF LazyFetch, Goto, buildVars, clientVars
  <2>3. o \in Files
    <3>1. History(s) \in SUBSET Commits
      BY DEF History
    <3>2. Under(s) \subseteq Files
      BY <3>1, RootsAreFiles, BelowClosed DEF Under, Below
    <3> QED
      BY <3>2
  <2>4. FsShapes' /\ \A t \in Sessions \ {s} : FsSame(t)
    BY <1>0, <2>1, <2>2 DEF FsShapes, PerSession, FsSame
  <2>5. /\ args'[s] = [want |-> {o}, names |-> {}, version |-> 2,
                       opts |-> [deepen |-> 0, filter |-> "blob:none", thin |-> FALSE]]
        /\ phase'[s] = "final"
    BY <1>0, <2>1, <2>2 DEF FsShapes, PerSession
  <2>6. /\ args'[s] \in FsArg /\ args'[s].want \subseteq Files /\ args'[s].names = {}
        /\ args'[s].version = 2
    BY <2>3, <2>5 DEF FsArg, Option, Filter, Objects
  <2>7. FsSession(s)'
    BY <1>0, <2>2, <2>5, <2>6 DEF FsSession, FsPhase, Asking
  <2> QED
    BY <1>l, <1>2, <2>2, <2>4, <2>7, FsOneSession
<1>3. CASE Refuse(s)
  BY <1>3, FsForgotten DEF Refuse, Fail
<1>4. CASE ~ Refuse(s) /\ (Negotiate(s) \/ FinalRequest(s) \/ FetchV1(s))
  <2>1. UNCHANGED <<haveSet, pack, cut, held, lacking, shallows>> /\ UNCHANGED storeVars
    BY <1>4 DEF Negotiate, FinalRequest, FetchV1, Answer, buildVars, clientVars
  <2>2. shallows[s] = {}
    BY <1>0, <1>4 DEF Negotiate, FinalRequest, FetchV1, Unreadable, FsSession
  <2>3. \/ /\ phase' = [phase EXCEPT ![s] = "final"] /\ UNCHANGED <<args, have>>
           /\ args[s].version = 2
        \/ /\ phase' = [phase EXCEPT ![s] = "build"] /\ Resolve(s)
           /\ \E claims \in Claims(s) : have' = [have EXCEPT ![s] = Known(claims)]
    BY <1>4 DEF Negotiate, FinalRequest, FetchV1, Answer, Goto
  <2>4. CASE /\ phase' = [phase EXCEPT ![s] = "final"] /\ UNCHANGED <<args, have>>
             /\ args[s].version = 2
    <3>1. FsShapes' /\ (\A t \in Sessions \ {s} : FsSame(t)) /\ phase'[s] = "final"
      BY <1>0, <2>1, <2>4 DEF FsShapes, PerSession, FsSame
    <3>2. FsSession(s)'
      BY <1>0, <2>1, <2>4, <3>1 DEF FsSession, FsPhase, Asking
    <3> QED
      BY <1>l, <1>4, <2>1, <3>1, <3>2, FsOneSession
  <2>5. ASSUME phase' = [phase EXCEPT ![s] = "build"], Resolve(s), NEW claims \in Claims(s),
               have' = [have EXCEPT ![s] = Known(claims)]
        PROVE  FInv'
    <3>1. args' = [args EXCEPT ![s] = [args[s] EXCEPT !.want = Resolved(s), !.names = {}]]
      BY <2>5, <1>0 DEF Resolve, FsShapes, PerSession
    <3>2. /\ Resolved(s) \subseteq Objects
          /\ Resolved(s) \subseteq Commits \/ Resolved(s) \subseteq Files
      <4>1. { refs[n] : n \in args[s].names } \ {Null} \subseteq Commits
        BY <1>0 DEF FsSession, FsStore, FsArg
      <4>2. args[s].want \subseteq Objects
        BY <1>0 DEF FsSession, FsArg
      <4>3. args[s].names = {} => Resolved(s) = args[s].want
        BY DEF Resolved
      <4> QED
        BY <1>0, <4>1, <4>2, <4>3 DEF Resolved, FsSession, Objects
    <3>3. Known(claims) \subseteq held[s] \intersect Commits
      BY <1>0 DEF Claims, Known, History, FsStore
    <3>4. /\ FsShapes' /\ (\A t \in Sessions \ {s} : FsSame(t)) /\ phase'[s] = "build"
          /\ have'[s] = Known(claims)
          /\ args'[s] = [args[s] EXCEPT !.want = Resolved(s), !.names = {}]
      BY <1>0, <2>1, <2>5, <3>1 DEF FsShapes, PerSession, FsSame
    <3>5. args'[s] \in FsArg /\ args'[s].want = Resolved(s) /\ args'[s].names = {}
      BY <1>0, <3>2, <3>4 DEF FsSession, FsArg
    <3>6. FsSession(s)'
      BY <1>0, <2>1, <2>2, <3>2, <3>3, <3>4, <3>5 DEF FsSession, FsPhase, Asking
    <3> QED
      BY <1>l, <1>4, <2>1, <3>4, <3>6, FsOneSession
  <2> QED
    BY <2>3, <2>4, <2>5
<1> QED
  BY <1>1, <1>2, <1>3, <1>4 DEF Request

\* Filters: the weaker of two leaves out what either does.
LEMMA WeakerOmits ==
  ASSUME NEW f \in Filter, NEW g \in Filter
  PROVE  /\ Omitted(f) \subseteq Omitted(Weaker(f, g))
         /\ Omitted(g) \subseteq Omitted(Weaker(f, g))
<1>1. /\ Omitted("none") = {} /\ Omitted("blob:none") = Blobs /\ Omitted("tree:0") = Files
      /\ Blobs \subseteq Files
  BY DEF Omitted, Files
<1>2. f \in {"none", "blob:none", "tree:0"} /\ g \in {"none", "blob:none", "tree:0"}
  BY DEF Filter
<1>3. /\ f = "tree:0" \/ g = "tree:0" => Weaker(f, g) = "tree:0"
      /\ f # "tree:0" /\ g # "tree:0" /\ (f = "blob:none" \/ g = "blob:none") => Weaker(f, g) = "blob:none"
  BY DEF Weaker
<1>4. CASE f = "tree:0" \/ g = "tree:0"
  BY <1>1, <1>2, <1>3, <1>4
<1>5. CASE f # "tree:0" /\ g # "tree:0" /\ (f = "blob:none" \/ g = "blob:none")
  BY <1>1, <1>2, <1>3, <1>5
<1>6. CASE f = "none" /\ g = "none"
  BY <1>1, <1>6
<1> QED
  BY <1>2, <1>4, <1>5, <1>6

\* A fetch goes on to a later phase.
LEMMA FsGoesOn ==
  ASSUME FInv, NEW s \in Sessions, phase[s] \notin Asking,
         NEW p \in {"ship", "select", "memory", "stream"}, NEW known, NEW objs, NEW cuts,
         phase' = [phase EXCEPT ![s] = p], haveSet' = [haveSet EXCEPT ![s] = known],
         pack' = [pack EXCEPT ![s] = objs], cut' = [cut EXCEPT ![s] = cuts],
         UNCHANGED storeVars, UNCHANGED <<args, have, held, lacking, shallows, leftover>>,
         cuts \subseteq Commits,
         engine = "gitoxide" /\ p = "select" => known = BuildHaveSet(have[s]),
         p # "select" =>
           /\ args[s].want \subseteq held[s] \union objs
           /\ Complete(held[s] \union objs, cuts, Weaker(lacking[s], args[s].opts.filter))
  PROVE  FInv'
<1>0. FsSession(s) /\ FsShapes
  BY DEF FInv
<1>1. /\ FsShapes' /\ (\A t \in Sessions \ {s} : FsSame(t))
      /\ phase'[s] = p /\ haveSet'[s] = known /\ pack'[s] = objs /\ cut'[s] = cuts
  BY <1>0 DEF FsShapes, PerSession, FsSame
<1>2. /\ args'[s] = args[s] /\ have'[s] = have[s] /\ held'[s] = held[s]
      /\ lacking'[s] = lacking[s] /\ shallows'[s] = shallows[s] /\ engine' = engine
  BY DEF storeVars, engine
<1>3. p # "select" => Fits(s)'
  BY <1>1, <1>2 DEF Fits
<1>4. p \in FsPhase \ Asking /\ shallows[s] = {}
  BY <1>0 DEF FsSession, FsPhase, Asking
<1>5. /\ args[s] \in FsArg
      /\ args[s].want \subseteq Commits \/ (args[s].want \subseteq Files /\ args[s].names = {})
      /\ have[s] \subseteq held[s] \intersect Commits
      /\ lacking[s] \in Filter /\ Complete(held[s], shallows[s], lacking[s])
  BY <1>0 DEF FsSession
<1>6. FsSession(s)'
  BY <1>1, <1>2, <1>3, <1>4, <1>5 DEF FsSession, Asking
<1> QED
  BY <1>1, <1>6, FsOneSession, FsAbandons

\* What a session that builds its pack has to start from.
LEMMA FsReady ==
  ASSUME FInv, NEW s \in Sessions, phase[s] \notin Asking
  PROVE  /\ Sound(held[s], lacking[s], have[s], args[s].want, args[s].opts.filter,
                  Weaker(lacking[s], args[s].opts.filter))
         /\ args[s].opts \in Option /\ cut[s] \in SUBSET Commits
<1>1. FsSession(s)
  BY DEF FInv
<1>2. args[s] \in FsArg /\ shallows[s] = {} /\ lacking[s] \in Filter
  BY <1>1 DEF FsSession
<1>3. args[s].want \in SUBSET Objects /\ args[s].opts \in Option
  BY <1>2 DEF FsArg
<1>4. args[s].opts.filter \in Filter
  BY <1>3 DEF Option
<1> QED
  BY <1>1, <1>2, <1>3, <1>4, WeakerOmits DEF FsSession, Sound

\* build_pack of the two: by reuse, from a have-set, or by git.
LEMMA FsBuildStep ==
  ASSUME FInv, NEW s \in Sessions, BuildGitoxide(s) \/ BuildCli(s)
  PROVE  FInv'
<1>0. FsSession(s) /\ FsStore /\ FsShapes
  BY DEF FInv
<1>s. /\ phase = [phase EXCEPT ![s] = phase[s]] /\ haveSet = [haveSet EXCEPT ![s] = haveSet[s]]
      /\ pack = [pack EXCEPT ![s] = pack[s]] /\ cut = [cut EXCEPT ![s] = cut[s]]
  BY <1>0 DEF FsShapes, PerSession
<1>a. ASSUME phase[s] \in {"build", "ship", "select"} PROVE phase[s] \notin Asking
  BY <1>a DEF Asking
<1>c. cut[s] \subseteq Commits
  BY <1>0 DEF FsSession
<1> DEFINE w == Weaker(lacking[s], args[s].opts.filter)
<1>1. CASE FindReusable(s)
  <2>1. /\ phase[s] = "build" /\ Plain(args[s].opts) /\ CoversExactly(bitmap, args[s].want, have[s])
        /\ phase' = [phase EXCEPT ![s] = "ship"]
        /\ pack' = [pack EXCEPT ![s] = PackFile(bitmap)]
        /\ UNCHANGED <<haveSet, cut, args, have, held, lacking, shallows, leftover>> /\ UNCHANGED storeVars
    BY <1>1 DEF FindReusable, Reusable, Goto, clientVars, workVars
  <2>2. phase[s] \notin Asking
    BY <1>a, <2>1
  <2>3. /\ Sound(held[s], lacking[s], have[s], args[s].want, args[s].opts.filter, w)
        /\ cut[s] \in SUBSET Commits /\ BitmapOK(bitmap)
    BY <1>0, <2>2, FsReady DEF FsStore
  <2> HIDE DEF w
  <2>4. Answers(PackFile(bitmap), cut[s], held[s], args[s].want, w)
    BY <2>1, <2>3, ReuseCompletes
  <2> QED
    BY <1>s, <1>c, <2>1, <2>2, <2>4, FsGoesOn DEF w, Answers
<1>2. CASE ShipAsIs(s)
  <2>1. /\ phase[s] = "ship" /\ phase' = [phase EXCEPT ![s] = "memory"]
        /\ UNCHANGED <<haveSet, pack, cut, args, have, held, lacking, shallows, leftover>>
        /\ UNCHANGED storeVars
    BY <1>2 DEF ShipAsIs, Goto, buildVars, clientVars, workVars
  <2>2. Fits(s) /\ phase[s] \notin Asking
    BY <1>0, <1>a, <2>1 DEF FsSession
  <2> QED
    BY <1>s, <1>c, <2>1, <2>2, FsGoesOn DEF Fits
<1>3. CASE ShipFails(s) \/ UnknownWant(s)
  BY <1>3, FsForgotten DEF ShipFails, UnknownWant, Fail
<1>4. CASE FindHaveSet(s)
  <2>1. /\ phase[s] = "build" /\ phase' = [phase EXCEPT ![s] = "select"]
        /\ haveSet' = [haveSet EXCEPT ![s] = HaveSet(bitmap, have[s])]
        /\ UNCHANGED <<pack, cut, args, have, held, lacking, shallows, leftover>> /\ UNCHANGED storeVars
    BY <1>4 DEF FindHaveSet, Goto, clientVars, workVars
  <2>2. HaveSet(bitmap, have[s]) = BuildHaveSet(have[s])
    BY <1>0, HaveSetsAgree DEF FsSession, FsStore
  <2> QED
    BY <1>s, <1>a, <1>c, <2>1, <2>2, FsGoesOn
<1>5. CASE SelectObjects(s)
  <2> DEFINE objs == ObjectsForFetch(args[s].want, have[s], args[s].opts, BuildHaveSet(have[s]))
             edge == IF args[s].opts.deepen = 0 THEN {}
                     ELSE ShallowBoundary(CommitWants(args[s].want), have[s], args[s].opts.deepen)
  <2>1. haveSet[s] = BuildHaveSet(have[s])
    BY <1>0, <1>5 DEF SelectObjects, FsSession
  <2>2. /\ phase[s] = "select" /\ phase' = [phase EXCEPT ![s] = "stream"]
        /\ pack' = [pack EXCEPT ![s] = objs] /\ cut' = [cut EXCEPT ![s] = edge]
        /\ UNCHANGED <<haveSet, args, have, held, lacking, shallows, leftover>> /\ UNCHANGED storeVars
    BY <1>5, <2>1 DEF SelectObjects, StartWorker, Goto, clientVars, workVars
  <2>3. phase[s] \notin Asking
    BY <1>a, <2>2
  <2>4. /\ Sound(held[s], lacking[s], have[s], args[s].want, args[s].opts.filter, w)
        /\ args[s].opts \in Option
    BY <2>3, FsReady
  <2>5. PICK cuts :
          /\ cuts = edge /\ (args[s].opts.deepen = 0 => cuts = {})
          /\ args[s].opts.deepen # 0 =>
               cuts = ShallowBoundary(CommitWants(args[s].want), have[s], args[s].opts.deepen)
    OBVIOUS
  <2> HIDE DEF w, edge
  <2>6. Answers(objs, cuts, held[s], args[s].want, w)
    BY <2>4, <2>5, FetchCompletes
  <2> HIDE DEF objs
  <2> QED
    BY <1>s, <2>2, <2>3, <2>5, <2>6, FsGoesOn DEF w, Answers
<1>6. CASE CliRevList(s)
  <2>1. PICK listed \in RevLists(CommitWants(args[s].want), have[s], args[s].opts.deepen) :
          cut' = [cut EXCEPT ![s] = CliShallow(listed)]
    BY <1>6 DEF CliRevList
  <2>2. /\ engine = "cli" /\ phase[s] = "build" /\ phase' = [phase EXCEPT ![s] = "select"]
        /\ UNCHANGED <<haveSet, pack, args, have, held, lacking, shallows, leftover>> /\ UNCHANGED storeVars
    BY <1>6 DEF CliRevList, Goto, clientVars, workVars
  <2>3. CliShallow(listed) \subseteq Commits
    BY <2>1 DEF CliShallow, RevLists, Ancestors, AncestorsIn
  <2> QED
    BY <1>s, <1>a, <2>1, <2>2, <2>3, FsGoesOn
<1>7. CASE CliPackObjects(s)
  <2> DEFINE objs == PackObjectsOut(args[s].want, have[s], cut[s], args[s].opts.filter)
  <2>1. /\ phase[s] \in {"build", "select"} /\ phase' = [phase EXCEPT ![s] = "stream"]
        /\ pack' = [pack EXCEPT ![s] = objs]
        /\ UNCHANGED <<haveSet, cut, args, have, held, lacking, shallows, leftover>> /\ UNCHANGED storeVars
    BY <1>7 DEF CliPackObjects, StartWorker, Goto, clientVars, workVars
  <2>2. phase[s] \notin Asking
    BY <1>a, <2>1
  <2>3. /\ Sound(held[s], lacking[s], have[s], args[s].want, args[s].opts.filter, w)
        /\ cut[s] \in SUBSET Commits
    BY <2>2, FsReady
  <2> HIDE DEF w
  <2>4. Answers(objs, cut[s], held[s], args[s].want, w)
    BY <2>3, CliFetchCompletes
  <2> HIDE DEF objs
  <2> QED
    BY <1>s, <1>c, <2>1, <2>2, <2>4, FsGoesOn DEF w, Answers
<1> QED
  BY <1>1, <1>2, <1>3, <1>4, <1>5, <1>6, <1>7 DEF BuildGitoxide, BuildCli

\* Every step keeps the invariant, and an answer that is complete holds what
\* was wanted.
LEMMA FStep ==
  ASSUME FInv, [Next]_vars
  PROVE  /\ FInv'
         /\ \A s \in Sessions :
              StreamMemory(s) \/ StreamFile(s) \/ StreamDone(s) => args[s].want \subseteq held'[s]
<1>0. FsStore /\ FsShapes /\ FsLeft /\ \A s \in Sessions : FsSession(s)
  BY DEF FInv
<1>f. ASSUME NEW s \in Sessions PROVE CacheFiles(s) = {}
  BY <1>0 DEF CacheFiles, FilesOf, FsStore
<1>d. ~ Db
  BY <1>0 DEF FsStore, Db
<1>1. ASSUME NEW s \in Sessions, StreamMemory(s) \/ StreamFile(s) \/ StreamDone(s)
      PROVE  FInv' /\ args[s].want \subseteq held'[s]
  <2>1. Deliver(s, pack[s]) /\ phase[s] \in {"memory", "stream"}
    BY <1>1, <1>f DEF StreamMemory, StreamFile, StreamDone, Drained
  <2> QED
    BY <2>1, FsDelivered
<1>q. ASSUME UNCHANGED storeVars, UNCHANGED fsVars, FsLeft' PROVE FInv'
  BY <1>0, <1>q, FsNoSession DEF storeVars, FsStore, engine
<1>l. ASSUME UNCHANGED leftover PROVE FsLeft'
  BY <1>0, <1>l DEF FsLeft, PerSession
<1>2. ASSUME NEW s \in Sessions, Stream(s) PROVE FInv'
  <2>1. CASE StreamMemory(s) \/ StreamFile(s) \/ StreamDone(s)
    BY <1>1, <2>1
  <2>2. CASE StreamTorn(s) \/ Severed(s) \/ StreamFails(s)
    BY <2>2, FsForgotten DEF StreamTorn, Severed, StreamFails, Fail
  <2>3. CASE SendChunk(s) \/ WorkerEnds(s) \/ ReadChunk(s)
    BY <2>3, <1>q, <1>l DEF SendChunk, WorkerEnds, ReadChunk, fsVars, buildVars, clientVars
  <2> QED
    BY <1>2, <2>1, <2>2, <2>3 DEF Stream
<1>3. ASSUME NEW s \in Sessions, Serve(s) PROVE FInv'
  BY <1>d, <1>2, <1>3, FsBuildStep DEF Serve
<1>4. ASSUME NEW s \in Sessions, Trouble(s) \/ Left(s) PROVE FInv'
  <2>1. CASE WorkerFails(s)
    BY <2>1, <1>q, <1>l DEF WorkerFails, fsVars, buildVars, clientVars
  <2>2. CASE Error(s)
    BY <2>2, FsForgotten DEF Error, Fail
  <2>3. CASE Left(s)
    <3>1. SendFails(s)
      BY <1>0, <2>3 DEF FsLeft, Left, LeftCreates, LeftWrites, LeftFails
    <3>2. FsLeft'
      BY <1>0, <3>1 DEF FsLeft, PerSession, SendFails, LeftAt, NoWork
    <3> QED
      BY <3>1, <3>2, <1>q DEF SendFails, LeftAt, fsVars, storeVars, buildVars, clientVars
  <2> QED
    BY <1>d, <1>4, <2>1, <2>2, <2>3 DEF Trouble, CacheWriteFails, WriteStep
<1>5. CASE Push
  <2>1. PICK n \in Names, c \in setting.targets :
          /\ refs' = [refs EXCEPT ![n] = c] /\ stored' = stored \union Ancestors({c} \ {Null})
    BY <1>5 DEF Push
  <2>2. UNCHANGED <<setting, bitmap, cache>> /\ UNCHANGED fsVars /\ FsLeft'
    BY <1>5, <1>l DEF Push, fsVars, buildVars, workVars, clientVars
  <2>3. c \in Commits \union {Null} /\ {c} \ {Null} \in SUBSET Commits
    BY <1>0, SettingsAssumption DEF FsStore
  <2>4. Ancestors({c} \ {Null}) \subseteq Commits /\ ClosedIn(Commits, Ancestors({c} \ {Null}))
    BY <2>3, HistoryIsClosed
  <2>5. stored' \in SUBSET Commits /\ ClosedIn(Commits, stored')
    BY <1>0, <2>1, <2>4 DEF FsStore, ClosedIn
  <2>6. refs' \in [Names -> Commits \union {Null}]
    BY <1>0, <2>1, <2>3 DEF FsStore
  <2>7. FsStore'
    BY <1>0, <2>2, <2>5, <2>6 DEF FsStore, engine
  <2> QED
    BY <1>1, <2>2, <2>7, FsNoSession
<1>6. CASE Repack
  <2>1. /\ bitmap' = WithBitmap(stored) /\ UNCHANGED <<setting, refs, stored, cache>>
        /\ UNCHANGED fsVars /\ FsLeft'
    BY <1>6, <1>l DEF Repack, fsVars, buildVars, workVars, clientVars
  <2>2. BitmapOK(bitmap')
    BY <1>0, <2>1, WrittenBitmapOK DEF FsStore
  <2>3. FsStore'
    BY <1>0, <2>1, <2>2 DEF FsStore, engine
  <2> QED
    BY <1>1, <2>1, <2>3, FsNoSession
<1>7. CASE Ssh \/ UNCHANGED vars
  BY <1>1, <1>7, <1>q, <1>l DEF Ssh, Quiet, vars, fsVars, buildVars, workVars, clientVars
<1>8. CASE Crash
  <2>1. /\ phase' = [s \in Sessions |-> "idle"] /\ args' = [s \in Sessions |-> NoArgs]
        /\ have' = [s \in Sessions |-> {}] /\ haveSet' = [s \in Sessions |-> {}]
        /\ pack' = [s \in Sessions |-> {}] /\ cut' = [s \in Sessions |-> {}]
        /\ leftover' = [s \in Sessions |-> NoWork]
        /\ UNCHANGED <<held, lacking, shallows>> /\ UNCHANGED storeVars
    BY <1>8 DEF Crash, clientVars
  <2>2. FsShapes' /\ FsStore' /\ FsLeft'
    BY <1>0, <2>1 DEF FsShapes, PerSession, FsStore, FsLeft, NoWork, engine, storeVars
  <2>3. \A s \in Sessions : FsSession(s)'
    BY <1>0, <2>1, NoRequest DEF FsSession, FsPhase, Asking
  <2> QED
    BY <1>1, <2>2, <2>3 DEF FInv
<1>9. FInv'
  BY <1>3, <1>4, <1>5, <1>6, <1>7, <1>8, FsRequestStep DEF Next
<1> QED
  BY <1>1, <1>9

\* A client that is complete has what FetchedComplete asks for.
LEMMA CompleteIsFetched == FInv => FetchedComplete
<1> SUFFICES ASSUME FInv, NEW s \in Sessions
             PROVE  LET commits == AncestorsIn(Commits \ shallows[s], History(s))
                        files == Descend(TreesOf(commits), {}) \ Omitted(lacking[s])
                    IN  commits \union files \subseteq held[s]
  BY DEF FetchedComplete
<1> DEFINE C == held[s] \intersect Commits
           known == Commits \ shallows[s]
<1>1. ClosedIn(known, C) /\ Below(TreesOf(C)) \ Omitted(lacking[s]) \subseteq held[s]
  BY DEF FInv, FsSession, Complete
<1>2. AncestorsIn(known, C) = C
  <2>1. known \in SUBSET Commits /\ C \in SUBSET Commits
    OBVIOUS
  <2> HIDE DEF known, C
  <2> QED
    BY <1>1, <2>1, WalkIsClosed, InClosed
<1> QED
  BY <1>1, <1>2 DEF History, Below

(***************************************************************************)
(* Whichever backend answers                                               *)
(***************************************************************************)

\* A server has one backend: its fetches are those of a database or those of a
\* repository on disk.
FetchInv == DInv \/ FInv

\* The start.
LEMMA InitFetchInv == Init => FetchInv
<1> SUFFICES ASSUME Init PROVE FetchInv
  OBVIOUS
<1>1. CASE engine \in {"kv", "sql"}
  BY <1>1, InitDInv DEF FetchInv
<1>2. CASE engine \notin {"kv", "sql"}
  <2>1. engine \in {"gitoxide", "cli"} /\ setting \in Settings
    BY <1>2, SettingsAssumption DEF Init, engine
  <2>2. BitmapOK(NoBitmap)
    BY FirstAssumption, WrittenBitmapOK
  <2>3. FsStore /\ FsShapes /\ FsLeft
    BY <2>1, <2>2, FirstAssumption DEF Init, FsStore, FsShapes, FsLeft, NoWork, PerSession
  <2>4. ASSUME NEW s \in Sessions PROVE Complete(ClosureOf(FirstHeld[s]), {}, "none")
    <3> DEFINE C == FirstHeld[s]
    <3>1. C \in SUBSET Commits /\ ClosedIn(Commits, C)
      BY FirstAssumption
    <3>2. /\ ClosureOf(C) = C \union Below(TreesOf(C)) /\ ClosureOf(C) \intersect Commits = C
          /\ ClosureOf(C) \subseteq Objects
      BY <3>1, ClosureParts
    <3>3. Commits \ {} = Commits
      OBVIOUS
    <3> QED
      BY <3>1, <3>2, <3>3 DEF Complete
  <2>5. ASSUME NEW s \in Sessions PROVE FsSession(s)
    BY <2>4, NoRequest DEF Init, FsSession, FsPhase, Asking, Filter
  <2> QED
    BY <2>3, <2>5 DEF FetchInv, FInv
<1> QED
  BY <1>1, <1>2

\* Every step keeps it.
LEMMA FetchStep ==
  ASSUME FetchInv, [Next]_vars
  PROVE  /\ FetchInv'
         /\ \A s \in Sessions :
              StreamMemory(s) \/ StreamFile(s) \/ StreamDone(s) => args[s].want \subseteq held'[s]
BY DStep, FStep DEF FetchInv

\* For any history, any pushes and any wants, known to the server or not: a
\* whole file is what the backend would build for its key, unless a want was
\* not in the database when it was walked for the file.
THEOREM CachedPacksStayRight == Spec => []CacheSound
<1>1. FetchInv /\ [Next]_vars => FetchInv'
  BY FetchStep
<1>2. FetchInv => CacheSound
  BY FilesAreBuilds DEF FetchInv, FInv, FsStore, CacheSound
<1> QED
  BY <1>1, <1>2, InitFetchInv, PTL DEF Spec

\* Clients stay whole, whichever backend answers them, over HTTP or SSH, for
\* every depth, filter and history, by reuse, bitmap, walk or cache.
THEOREM ClientsStayWhole == Spec => []FetchedComplete
<1>1. FetchInv /\ [Next]_vars => FetchInv'
  BY FetchStep
<1>2. FetchInv => FetchedComplete
  BY WholeIsComplete, CompleteIsFetched DEF FetchInv
<1> QED
  BY <1>1, <1>2, InitFetchInv, PTL DEF Spec

\* Clients get what they want.
THEOREM WantsAnswered == Spec => WantsDelivered
<1>1. FetchInv /\ [Next]_vars => FetchInv'
  BY FetchStep
<1>2. FetchInv /\ [Next]_vars
        => [\A s \in Sessions : StreamMemory(s) \/ StreamFile(s) \/ StreamDone(s) =>
              args[s].want \subseteq held'[s]]_vars
  BY FetchStep
<1> QED
  BY <1>1, <1>2, InitFetchInv, PTL DEF Spec, WantsDelivered

(***************************************************************************)
(* Shapes of the rest                                                      *)
(***************************************************************************)

\* The tasks of an SSH connection speak a version of the protocol.
SshOK ==
  /\ serving \in [Sessions -> 0..2] /\ channels \subseteq Sessions
  /\ version \in {1, 2} /\ timer \in {"none", "sleeping", "fired"}

\* Connections, channels and the ends of tasks keep it.
LEMMA SshStep == SshOK /\ [Next]_vars => SshOK'
<1> SUFFICES ASSUME SshOK, [Next]_vars PROVE SshOK'
  OBVIOUS
<1> USE DEF SshOK
<1>e. ASSUME NEW s \in Sessions, EndTask(s) PROVE SshOK'
  BY <1>e DEF EndTask
<1>q. ASSUME UNCHANGED sshVars PROVE SshOK'
  BY <1>q DEF sshVars
<1>d. ASSUME NEW s \in Sessions, NEW objs, Deliver(s, objs) PROVE SshOK'
  BY <1>d, <1>e, <1>q DEF Deliver
<1>1. CASE Push \/ Repack \/ UNCHANGED vars
  BY <1>1, <1>q DEF Push, Repack, vars
<1>2. CASE Crash
  BY <1>2 DEF Crash
<1>3. CASE Ssh
  BY <1>3 DEF Ssh, Connect, EnvRequest, Deadline, DropLate, Disconnect, Hangup, ChannelOpen, TaskEnds,
       Exec, ExecDenied, ExecFails
<1>4. ASSUME NEW s \in Sessions, Request(s) PROVE SshOK'
  BY <1>4, <1>e, <1>q DEF Request, AdvertiseRefs, ListRefs, AskUnseen, Ask,
         LazyFetch, Negotiate, FinalRequest,
       FetchV1, Answer, Refuse, Fail
<1>5. ASSUME NEW s \in Sessions, BuildGitoxide(s) \/ BuildCli(s) PROVE SshOK'
  BY <1>5, <1>e, <1>q DEF BuildGitoxide, BuildCli, FindReusable, ShipAsIs, ShipFails, FindHaveSet,
       SelectObjects, CliRevList, CliPackObjects, UnknownWant, Fail
<1>6. ASSUME NEW s \in Sessions, BuildDb(s) PROVE SshOK'
  BY <1>6, <1>q DEF BuildDb, CacheHit, KvNeeded, SqlNeeded, KvSubtract, SqlSubtract, EmptyPack,
       KvRead, SqlRead, CacheCreate, CacheWritten, CacheFull, BuildStep, Needed,
         NextStep, WriteStep
<1>7. ASSUME NEW s \in Sessions, Stream(s) PROVE SshOK'
  <2>1. CASE StreamMemory(s) \/ StreamFile(s) \/ StreamDone(s)
    BY <2>1, <1>d DEF StreamMemory, StreamFile, StreamDone
  <2>2. CASE StreamTorn(s) \/ Severed(s) \/ StreamFails(s)
    BY <2>2, <1>e DEF StreamTorn, Severed, StreamFails, Fail
  <2>3. CASE SendChunk(s) \/ WorkerEnds(s) \/ ReadChunk(s)
    BY <2>3, <1>q DEF SendChunk, WorkerEnds, ReadChunk
  <2> QED
    BY <1>7, <2>1, <2>2, <2>3 DEF Stream
<1>8. ASSUME NEW s \in Sessions, Trouble(s) \/ Left(s) PROVE SshOK'
  BY <1>8, <1>e, <1>q DEF Trouble, CacheWriteFails, WriteStep, WorkerFails, Error, Fail, Left, LeftAt,
       SendFails, LeftCreates, LeftWrites, LeftFails
<1> QED
  BY <1>1, <1>2, <1>3, <1>4, <1>5, <1>6, <1>7, <1>8 DEF Next, Serve

\* No more chunks are in flight than the channel or the pipe takes.
ChunksOK ==
  /\ PerSession(made) /\ PerSession(taken)
  /\ worker \in [Sessions -> {"none", "running", "ended", "failed"}]
  /\ \A s \in Sessions : /\ taken[s] \in 0..made[s] /\ made[s] \in 0..Chunks
                         /\ made[s] - taken[s] <= InFlight

\* Sending waits for room, reading for a chunk, and the end of a fetch starts
\* both counts again.
LEMMA ChunksStep == ChunksOK /\ [Next]_vars => ChunksOK'
<1> SUFFICES ASSUME ChunksOK, [Next]_vars PROVE ChunksOK'
  OBVIOUS
<1>q. ASSUME UNCHANGED <<worker, made, taken>> PROVE ChunksOK'
  BY <1>q DEF ChunksOK, PerSession
<1>w. ASSUME NEW s \in Sessions, NEW v \in {"none", "running", "ended", "failed"},
             worker' = [worker EXCEPT ![s] = v], UNCHANGED <<made, taken>>
      PROVE  ChunksOK'
  BY <1>w DEF ChunksOK, PerSession
<1>r. ASSUME NEW s \in Sessions, Reset(s) PROVE ChunksOK'
  <2>1. /\ PerSession(made') /\ PerSession(taken') /\ made'[s] = 0 /\ taken'[s] = 0
        /\ \A t \in Sessions \ {s} : made'[t] = made[t] /\ taken'[t] = taken[t]
        /\ worker' \in [Sessions -> {"none", "running", "ended", "failed"}]
    BY <1>r DEF ChunksOK, PerSession, Reset
  <2>2. /\ 0 \in 0..0 /\ 0 \in 0..Chunks /\ 0 - 0 <= InFlight
    BY ChunksAssumption
  <2> QED
    BY <2>1, <2>2 DEF ChunksOK
<1>1. ASSUME NEW s \in Sessions, SendChunk(s) PROVE ChunksOK'
  <2>1. /\ PerSession(made') /\ made'[s] = made[s] + 1 /\ UNCHANGED <<worker, taken>>
        /\ made[s] < Chunks /\ made[s] - taken[s] < InFlight
        /\ \A t \in Sessions \ {s} : made'[t] = made[t]
    BY <1>1 DEF ChunksOK, PerSession, SendChunk
  <2>2. taken[s] \in 0..made[s] /\ made[s] \in 0..Chunks
    BY DEF ChunksOK
  <2>3. taken[s] \in 0..(made[s] + 1) /\ made[s] + 1 \in 0..Chunks /\ (made[s] + 1) - taken[s] <= InFlight
    BY <2>1, <2>2, ChunksAssumption
  <2> QED
    BY <2>1, <2>3 DEF ChunksOK, PerSession
<1>2. ASSUME NEW s \in Sessions, ReadChunk(s) PROVE ChunksOK'
  <2>1. /\ PerSession(taken') /\ taken'[s] = taken[s] + 1 /\ UNCHANGED <<worker, made>>
        /\ taken[s] < made[s]
        /\ \A t \in Sessions \ {s} : taken'[t] = taken[t]
    BY <1>2 DEF ChunksOK, PerSession, ReadChunk
  <2>2. taken[s] \in 0..made[s] /\ made[s] \in 0..Chunks /\ made[s] - taken[s] <= InFlight
    BY DEF ChunksOK
  <2>3. taken[s] + 1 \in 0..made[s] /\ made[s] - (taken[s] + 1) <= InFlight
    BY <2>1, <2>2, ChunksAssumption
  <2> QED
    BY <2>1, <2>2, <2>3 DEF ChunksOK, PerSession
<1>3. CASE Push \/ Repack \/ Ssh \/ UNCHANGED vars
  BY <1>3, <1>q DEF Push, Repack, Ssh, Quiet, vars, workVars
<1>4. CASE Crash
  <2>1. /\ made' = [s \in Sessions |-> 0] /\ taken' = [s \in Sessions |-> 0]
        /\ worker' = [s \in Sessions |-> "none"]
    BY <1>4 DEF Crash
  <2> QED
    BY <2>1, ChunksAssumption DEF ChunksOK, PerSession
<1>5. ASSUME NEW s \in Sessions, Request(s) PROVE ChunksOK'
  BY <1>5, <1>r, <1>q DEF Request, AdvertiseRefs, ListRefs, AskUnseen, Ask,
         LazyFetch, Negotiate, FinalRequest,
       FetchV1, Answer, Refuse, Fail, workVars
<1>6. ASSUME NEW s \in Sessions, BuildGitoxide(s) \/ BuildCli(s) PROVE ChunksOK'
  BY <1>6, <1>r, <1>q, <1>w DEF BuildGitoxide, BuildCli, FindReusable, ShipAsIs, ShipFails,
       FindHaveSet, SelectObjects, CliRevList, CliPackObjects, UnknownWant, Fail, StartWorker, workVars
<1>7. ASSUME NEW s \in Sessions, BuildDb(s) PROVE ChunksOK'
  BY <1>7, <1>q DEF BuildDb, CacheHit, KvNeeded, SqlNeeded, KvSubtract, SqlSubtract, EmptyPack,
       KvRead, SqlRead, CacheCreate, CacheWritten, CacheFull, BuildStep, Needed,
         NextStep, WriteStep,
       workVars
<1>8. ASSUME NEW s \in Sessions, Stream(s) PROVE ChunksOK'
  <2>1. CASE StreamMemory(s) \/ StreamFile(s) \/ StreamDone(s)
    BY <2>1, <1>r DEF StreamMemory, StreamFile, StreamDone, Deliver
  <2>2. CASE StreamTorn(s) \/ Severed(s) \/ StreamFails(s)
    BY <2>2, <1>r DEF StreamTorn, Severed, StreamFails, Fail
  <2>3. CASE WorkerEnds(s)
    BY <2>3, <1>w DEF WorkerEnds
  <2> QED
    BY <1>1, <1>2, <1>8, <2>1, <2>2, <2>3 DEF Stream
<1>9. ASSUME NEW s \in Sessions, Trouble(s) \/ Left(s) PROVE ChunksOK'
  <2>1. CASE WorkerFails(s)
    BY <2>1, <1>w DEF WorkerFails
  <2>2. CASE Error(s)
    BY <2>2, <1>r DEF Error, Fail
  <2> QED
    BY <1>9, <1>q, <2>1, <2>2 DEF Trouble, CacheWriteFails, WriteStep, Left, LeftAt, SendFails,
         LeftCreates, LeftWrites, LeftFails, workVars
<1> QED
  BY <1>3, <1>4, <1>5, <1>6, <1>7, <1>8, <1>9 DEF Next, Serve

\* A cache file is the only one under its key.
OneFilePerKey == \A f, g \in cache : f.key = g.key => f = g

\* pack_cache::write replaces the file under its key.
LEMMA CacheStep == OneFilePerKey /\ [Next]_vars => OneFilePerKey'
<1> SUFFICES ASSUME OneFilePerKey, [Next]_vars PROVE OneFilePerKey'
  OBVIOUS
<1>q. ASSUME UNCHANGED cache PROVE OneFilePerKey'
  BY <1>q DEF OneFilePerKey
<1>p. ASSUME NEW j, CreateFile(j) \/ FillFile(j) PROVE OneFilePerKey'
  <2>1. PICK objs, whole : PutFile(j, objs, whole)
    BY <1>p, WritesPut
  <2> DEFINE file == [key |-> j.key, objs |-> objs, missed |-> j.missed, whole |-> whole]
  <2>2. file.key = j.key
    OBVIOUS
  <2>3. cache' = (cache \ FilesOf(j.key)) \union {file}
    BY <2>1 DEF PutFile
  <2> HIDE DEF file
  <2>4. \A f \in cache \ FilesOf(j.key) : f.key # j.key
    BY DEF FilesOf
  <2> QED
    BY <2>2, <2>3, <2>4 DEF OneFilePerKey
<1>1. CASE Push \/ Repack \/ Crash \/ Ssh \/ UNCHANGED vars
  BY <1>1, <1>q DEF Push, Repack, Crash, Ssh, Quiet, vars, storeVars
<1>2. ASSUME NEW s \in Sessions, Request(s) PROVE OneFilePerKey'
  BY <1>2, <1>q DEF Request, AdvertiseRefs, ListRefs, AskUnseen, Ask,
         LazyFetch, Negotiate, FinalRequest,
       FetchV1, Answer, Refuse, storeVars
<1>3. ASSUME NEW s \in Sessions, BuildGitoxide(s) \/ BuildCli(s) PROVE OneFilePerKey'
  BY <1>3, <1>q DEF BuildGitoxide, BuildCli, FindReusable, ShipAsIs, ShipFails, FindHaveSet,
       SelectObjects, CliRevList, CliPackObjects, UnknownWant,
       storeVars
<1>4. ASSUME NEW s \in Sessions, BuildDb(s) PROVE OneFilePerKey'
  <2>1. CASE CacheCreate(s) \/ CacheWritten(s)
    BY <2>1, <1>p DEF CacheCreate, CacheWritten
  <2>2. CASE ~ (CacheCreate(s) \/ CacheWritten(s))
    BY <1>4, <1>q, <2>2 DEF BuildDb, CacheHit, KvNeeded, SqlNeeded, KvSubtract, SqlSubtract,
         EmptyPack, KvRead, SqlRead, CacheFull, BuildStep, Needed,
         NextStep, WriteStep, storeVars
  <2> QED
    BY <2>1, <2>2
<1>5. ASSUME NEW s \in Sessions, Stream(s) PROVE OneFilePerKey'
  BY <1>5, <1>q DEF Stream, StreamMemory, StreamFile, StreamDone, Deliver, StreamTorn, Severed,
       StreamFails, SendChunk, WorkerEnds, ReadChunk, storeVars
<1>6. ASSUME NEW s \in Sessions, Trouble(s) \/ Left(s) PROVE OneFilePerKey'
  BY <1>6, <1>q, <1>p DEF Trouble, CacheWriteFails, WorkerFails, Error, Left, SendFails, LeftCreates,
       LeftWrites, LeftFails, storeVars
<1> QED
  BY <1>1, <1>2, <1>3, <1>4, <1>5, <1>6 DEF Next, Serve

\* The have-set and the objects of a pack are objects.
PacksOK == haveSet \in [Sessions -> SUBSET Objects] /\ pack \in [Sessions -> SUBSET Objects]

\* Phases in which a session has just selected its objects.
Selecting == {"ship", "stream", "subtract", "read", "write"}

\* A step that changes a session's selection empties it or comes to a phase in
\* which the inductive invariant says what it is.
PackMoved(s) ==
  /\ PerSession(pack') /\ PerSession(haveSet')
  /\ \A t \in Sessions :
       /\ pack'[t] \in {pack[t], {}} \/ phase'[t] \in Selecting
       /\ haveSet'[t] \in {haveSet[t], {}} \/ (engine' = "gitoxide" /\ phase'[t] = "select")

\* build_pack of any backend selects objects only on its way to one of these
\* phases.
LEMMA PackMoves ==
  ASSUME FetchInv, PacksOK, NEW s \in Sessions,
         Request(s) \/ Serve(s) \/ Trouble(s) \/ Left(s)
  PROVE  PackMoved(s)
<1>0. PerSession(phase) /\ PerSession(pack) /\ PerSession(haveSet)
  BY DEF FetchInv, DInv, FInv, Shapes, FsShapes, PacksOK, PerSession
<1>q. ASSUME UNCHANGED <<pack, haveSet>> PROVE PackMoved(s)
  BY <1>0, <1>q DEF PackMoved
<1>r. ASSUME Reset(s) PROVE PackMoved(s)
  BY <1>0, <1>r DEF PackMoved, PerSession, Reset
<1>b. ASSUME NEW p \in Selecting, NEW objs, Goto(s, p), pack' = [pack EXCEPT ![s] = objs],
             UNCHANGED haveSet
      PROVE  PackMoved(s)
  BY <1>0, <1>b DEF PackMoved, PerSession, Goto
<1>1. CASE Request(s)
  BY <1>1, <1>q, <1>r DEF Request, AdvertiseRefs, ListRefs, AskUnseen, Ask,
         LazyFetch, Negotiate, FinalRequest,
       FetchV1, Answer, Refuse, Fail, buildVars
<1>2. CASE FindReusable(s) \/ SelectObjects(s) \/ CliPackObjects(s)
  BY <1>2, <1>b DEF FindReusable, SelectObjects, CliPackObjects, StartWorker, Selecting
<1>3. CASE FindHaveSet(s)
  <2>1. /\ haveSet' = [haveSet EXCEPT ![s] = HaveSet(bitmap, have[s])] /\ pack' = pack
        /\ phase' = [phase EXCEPT ![s] = "select"] /\ engine' = "gitoxide"
    BY <1>3 DEF FindHaveSet, Goto, storeVars, engine
  <2> QED
    BY <1>0, <2>1 DEF PackMoved, PerSession
<1>4. CASE ShipAsIs(s) \/ ShipFails(s) \/ CliRevList(s) \/ UnknownWant(s)
  BY <1>4, <1>q, <1>r DEF ShipAsIs, ShipFails, CliRevList, UnknownWant, Fail, buildVars
<1>5. CASE BuildDb(s)
  <2>1. CASE CacheHit(s) \/ CacheCreate(s) \/ CacheWritten(s) \/ CacheFull(s)
    BY <2>1, <1>q DEF CacheHit, CacheCreate, CacheWritten, CacheFull, WriteStep, buildVars
  <2>2. ASSUME NEW e, NEW from, NEW p \in Selecting, NEW objs, BuildStep(s, e, from, p, objs)
        PROVE  PackMoved(s)
    BY <2>2, <1>b DEF BuildStep
  <2>3. {"subtract", "read", "write"} \subseteq Selecting
    BY DEF Selecting
  <2>4. CASE KvNeeded(s) \/ SqlNeeded(s) \/ KvSubtract(s) \/ SqlSubtract(s) \/ EmptyPack(s)
    BY <2>4, <2>2, <2>3 DEF KvNeeded, SqlNeeded, Needed, NextStep, KvSubtract, SqlSubtract, EmptyPack
  <2>5. CASE KvRead(s) \/ SqlRead(s)
    BY <2>5, <2>2, <2>3 DEF KvRead, SqlRead, NextStep
  <2> QED
    BY <1>5, <2>1, <2>4, <2>5 DEF BuildDb
<1>6. CASE Stream(s)
  BY <1>6, <1>q, <1>r DEF Stream, StreamMemory, StreamFile, StreamDone, Deliver, StreamTorn, Severed,
       StreamFails, Fail, SendChunk, WorkerEnds, ReadChunk, buildVars
<1>7. CASE Trouble(s) \/ Left(s)
  BY <1>7, <1>q, <1>r DEF Trouble, CacheWriteFails, WriteStep, WorkerFails, Error, Fail, Left, LeftAt,
       SendFails, LeftCreates, LeftWrites, LeftFails, buildVars
<1> QED
  BY <1>1, <1>2, <1>3, <1>4, <1>5, <1>6, <1>7 DEF Serve, BuildGitoxide, BuildCli

\* In such a phase the selection consists of objects of the repository.
SelectionOK ==
  \A s \in Sessions :
    /\ phase[s] \in Selecting => pack[s] \in SUBSET Objects
    /\ engine = "gitoxide" /\ phase[s] = "select" => haveSet[s] \in SUBSET Objects

\* The walks of all backends stay within the repository.
LEMMA SelectedObjects == FetchInv => SelectionOK
<1> SUFFICES ASSUME FetchInv, NEW s \in Sessions
             PROVE  /\ phase[s] \in Selecting => pack[s] \in SUBSET Objects
                    /\ engine = "gitoxide" /\ phase[s] = "select" => haveSet[s] \in SUBSET Objects
  BY DEF SelectionOK
<1>1. CASE DInv
  <2>1. SessionOK(s) /\ engine # "gitoxide"
    BY <1>1 DEF DInv, StoreOK
  <2>2. phase[s] \in Selecting => phase[s] \in Built \union {"subtract"}
    BY <2>1 DEF SessionOK, Selecting, DbPhase, Built
  <2> QED
    BY <2>1, <2>2 DEF SessionOK
<1>2. CASE FInv
  <2>1. FsSession(s)
    BY <1>2 DEF FInv
  <2>2. phase[s] \in Selecting => phase[s] \in {"ship", "stream"}
    BY <2>1 DEF FsSession, FsPhase, Asking, Selecting
  <2>3. phase[s] \in {"ship", "stream"} => pack[s] \subseteq Objects
    BY <2>1 DEF FsSession, Fits, Complete
  <2>4. have[s] \in SUBSET Commits
    BY <2>1 DEF FsSession
  <2>5. BuildHaveSet(have[s]) \subseteq Objects
    BY <2>4, HistoryIsClosed, ClosureParts DEF BuildHaveSet
  <2>6. engine = "gitoxide" /\ phase[s] = "select" => haveSet[s] = BuildHaveSet(have[s])
    BY <2>1 DEF FsSession
  <2> QED
    BY <2>2, <2>3, <2>5, <2>6
<1> QED
  BY <1>1, <1>2 DEF FetchInv

\* Every step keeps selections within the objects.
LEMMA PacksStep ==
  ASSUME FetchInv, PacksOK, [Next]_vars
  PROVE  PacksOK'
<1>1. FetchInv'
  BY FetchStep
<1>2. SelectionOK'
  BY <1>1, SelectedObjects, PTL
<1>3. ASSUME NEW s \in Sessions, PackMoved(s) PROVE PacksOK'
  <2>1. \A t \in Sessions : pack'[t] \in SUBSET Objects /\ haveSet'[t] \in SUBSET Objects
    BY <1>2, <1>3 DEF PackMoved, PacksOK, SelectionOK
  <2>2. PerSession(pack') /\ PerSession(haveSet')
    BY <1>3 DEF PackMoved
  <2>3. pack' \in [Sessions -> SUBSET Objects]
    BY <2>1, <2>2 DEF PerSession
  <2>4. haveSet' \in [Sessions -> SUBSET Objects]
    BY <2>1, <2>2 DEF PerSession
  <2> QED
    BY <2>3, <2>4 DEF PacksOK
<1>4. CASE Push \/ Repack \/ Ssh \/ UNCHANGED vars
  BY <1>4 DEF Push, Repack, Ssh, Quiet, vars, buildVars, PacksOK
<1>5. CASE Crash
  BY <1>5 DEF Crash, PacksOK
<1> QED
  BY <1>3, <1>4, <1>5, PackMoves DEF Next

\* At the start every shape is right.
LEMMA InitShapes == Init => SshOK /\ ChunksOK /\ OneFilePerKey /\ PacksOK
<1> SUFFICES ASSUME Init PROVE SshOK /\ ChunksOK /\ OneFilePerKey /\ PacksOK
  OBVIOUS
<1>1. SshOK
  BY DEF Init, SshInit, SshOK
<1>2. ChunksOK
  BY ChunksAssumption DEF Init, ChunksOK, PerSession
<1>3. OneFilePerKey
  BY DEF Init, OneFilePerKey
<1>4. PacksOK
  BY DEF Init, PacksOK
<1> QED
  BY <1>1, <1>2, <1>3, <1>4

\* The inductive invariant gives the shapes of the repository, the requests
\* and the clients.
LEMMA FetchShapes ==
  ASSUME FetchInv
  PROVE  /\ setting \in Settings /\ stored \subseteq Commits
         /\ refs \in [Names -> Commits \union {Null}]
         /\ phase \in [Sessions -> Phase] /\ have \in [Sessions -> SUBSET Commits]
         /\ cut \in [Sessions -> SUBSET Commits] /\ held \in [Sessions -> SUBSET Objects]
<1>1. /\ setting \in Settings /\ stored \subseteq Commits
      /\ refs \in [Names -> Commits \union {Null}]
  BY DEF FetchInv, DInv, FInv, StoreOK, FsStore
<1>2. PerSession(phase) /\ PerSession(have) /\ PerSession(cut) /\ PerSession(held)
  BY DEF FetchInv, DInv, FInv, Shapes, FsShapes
<1>3. ASSUME NEW s \in Sessions
      PROVE  /\ phase[s] \in Phase /\ have[s] \in SUBSET Commits /\ cut[s] \in SUBSET Commits
             /\ held[s] \in SUBSET Objects
  <2>1. CASE DInv
    <3>1. SessionOK(s)
      BY <2>1 DEF DInv
    <3>2. phase[s] \in Phase
      BY <3>1 DEF SessionOK, DbPhase, Phase
    <3> QED
      BY <1>1, <3>1, <3>2 DEF SessionOK, WholeSet
  <2>2. CASE FInv
    <3>1. FsSession(s)
      BY <2>2 DEF FInv
    <3>2. phase[s] \in Phase
      BY <3>1 DEF FsSession, FsPhase, Asking, Phase
    <3> QED
      BY <3>1, <3>2 DEF FsSession, Complete
  <2> QED
    BY <2>1, <2>2 DEF FetchInv
<1>4. phase \in [Sessions -> Phase] /\ have \in [Sessions -> SUBSET Commits]
  BY <1>2, <1>3 DEF PerSession
<1>5. cut \in [Sessions -> SUBSET Commits] /\ held \in [Sessions -> SUBSET Objects]
  BY <1>2, <1>3 DEF PerSession
<1> QED
  BY <1>1, <1>4, <1>5

\* Every variable of a fetch keeps its shape, for any repository, clients,
\* settings and capacities: whatever is selected is an object, the channel
\* between the pack thread and its reader never holds more chunks than it
\* takes, and a key of the pack cache has one file.
THEOREM TypeCorrect == Spec => []TypeOK
<1> DEFINE Inv == FetchInv /\ SshOK /\ ChunksOK /\ OneFilePerKey /\ PacksOK
<1>1. Init => Inv
  BY InitFetchInv, InitShapes
<1>2. Inv /\ [Next]_vars => Inv'
  BY FetchStep, SshStep, ChunksStep, CacheStep, PacksStep
<1>3. Inv => TypeOK
  BY FetchShapes DEF TypeOK, SshOK, ChunksOK, OneFilePerKey, PacksOK
<1> QED
  BY <1>1, <1>2, <1>3, PTL DEF Spec
=============================================================================
