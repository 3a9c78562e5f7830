---------------------------- MODULE ReceivePack -----------------------------
(***************************************************************************)
(* The push pipeline: recv_pack_post (HTTP) and serve_receive_pack (SSH)   *)
(* with the FsGitoxide backend, many requests at once on one repository.   *)
(*                                                                         *)
(* A request is read and passes the preliminary check; its pack is         *)
(* installed into objects/pack under a name that is the hash of its        *)
(* contents (.pack, then .idx); the installed pack is inspected, the       *)
(* commands are classified and the forge's authoriser judges the push; a   *)
(* refused push removes the files it installed (.idx, then .pack); an      *)
(* accepted one updates the refs, writes the report and runs the           *)
(* post_receive hook.  Every step that touches the disk is an action of    *)
(* its own, so other requests run between any two of them.  The ref update *)
(* is one step: RefTransaction shows that the gix-ref transaction          *)
(* implements that.                                                        *)
(***************************************************************************)
EXTENDS RefUpdates, FiniteSets, Naturals

CONSTANTS
  Handlers,      \* tasks serving pushes; each serves one after another
  Packs,         \* packs by content hash
  NoPack,        \* the request carries no objects
  NoRequest,     \* an idle handler
  Anc,           \* Anc[o]: o and the commits it descends from
  Contents,      \* Contents[k]: the commits in pack k
  Base,          \* commits in the repository before the first push
  Protected,     \* refs the authoriser lets be created or fast-forwarded only
  Requests,      \* the requests clients may send
  MaxRefUpdates, \* ProtocolLimits::max_ref_updates
  SharedPacks,   \* may two requests in flight carry the same pack?
  CrossDevice    \* is the temporary directory on another filesystem?

Request ==
  [via : {"http", "ssh"}, batch : BatchOf(RefUpdate), pack : Packs \union {NoPack}]

ASSUME PacksAssumption == NoPack \notin Packs
ASSUME AncAssumption ==
  /\ Anc \in [Oids -> SUBSET Oids]
  /\ \A o \in Oids : o \in Anc[o]
  /\ \A o \in Oids : \A x \in Anc[o] : Anc[x] \subseteq Anc[o]
ASSUME ContentsAssumption == Contents \in [Packs -> SUBSET Oids]
ASSUME BaseAssumption == Base \subseteq Oids
ASSUME RequestsAssumption == Requests \subseteq Request
ASSUME NoRequestAssumption == NoRequest \notin Request
ASSUME ProtectedAssumption == Protected \subseteq Refs
ASSUME LimitAssumption == MaxRefUpdates \in Nat
ASSUME SwitchesAssumption == SharedPacks \in BOOLEAN /\ CrossDevice \in BOOLEAN

VARIABLES
  refs,       \* the refs of the repository
  file,       \* objects/pack: file[f][k] for the .pack and .idx of pack k
  pc,         \* where each handler is
  req,        \* the request it serves
  owns,       \* pack_owned and index_owned of its FsWrittenPack
  kinds,      \* the PushKind of each command, as the authoriser saw it
  verdict,    \* the answer of authorize_push
  landed,     \* has update_refs succeeded?
  reply,      \* what the client got
  hook,       \* what post_receive was given, once it has run
  advertised  \* history: commits reachable from a ref at some time

repo == <<refs, file, advertised>>
vars == <<refs, file, advertised, pc, req, owns, kinds, verdict, landed, reply, hook>>

Files == {"pack", "idx"}
KindNames == {"Create", "Delete", "FastForward", "ForcePush"}
NoKinds == EmptyBatch

batch(p) == req[p].batch
pack(p) == req[p].pack

Reach(v) == UNION { Anc[o] : o \in {v} \ {Null} }

Init ==
  /\ refs \in [Refs -> Value]
  /\ \A r \in Refs : Reach(refs[r]) \subseteq Base
  /\ file = [f \in Files |-> [k \in Packs |-> "absent"]]
  /\ advertised = UNION { Reach(refs[r]) : r \in Refs }
  /\ pc = [p \in Handlers |-> "idle"]
  /\ req = [p \in Handlers |-> NoRequest]
  /\ owns = [p \in Handlers |-> {}]
  /\ kinds = [p \in Handlers |-> NoKinds]
  /\ verdict = [p \in Handlers |-> "none"]
  /\ landed = [p \in Handlers |-> FALSE]
  /\ reply = [p \in Handlers |-> "none"]
  /\ hook = [p \in Handlers |-> {}]

\* Commits the object database can read: those of packs with both files.
Readable ==
  Base \union
  UNION { Contents[k] : k \in { j \in Packs : \A f \in Files : file[f][j] = "full" } }

Goto(p, l) == pc' = [pc EXCEPT ![p] = l]

KeepOwned(p, a) ==                                              \* mutant
  /\ Goto(p, "done")
  /\ reply' = [reply EXCEPT ![p] = a]
  /\ kinds' = [kinds EXCEPT ![p] = NoKinds]
  /\ UNCHANGED owns

\* The request ends with answer a: what the handler knew is dropped, what it
\* left on disk stays.
End(p, a) ==
  /\ Goto(p, "done")
  /\ reply' = [reply EXCEPT ![p] = a]
  /\ owns' = [owns EXCEPT ![p] = {}]
  /\ kinds' = [kinds EXCEPT ![p] = NoKinds]

(***************************************************************************)
(* The request: read_receive_request, authorize_preliminary, stage_pack    *)
(***************************************************************************)

PackObjects(k) == IF k = NoPack THEN {} ELSE Contents[k]

\* A git client sends what it wants a ref to point at together with all of
\* its history, except for commits it was told the repository has.
ClientCompletes(q) ==
  \A r \in DOMAIN q.batch :
    Reach(q.batch[r].new) \subseteq PackObjects(q.pack) \union advertised

Active(p) == pc[p] \notin {"idle", "done"}

\* Whether a client may send a pack that another request in flight carries.
PackIsFree(q) ==
  \/ SharedPacks
  \/ q.pack = NoPack
  \/ \A p \in Handlers : Active(p) => pack(p) # q.pack

\* A handler starts on a request (and forgets the one before).
Receive(p) ==
  /\ pc[p] \in {"idle", "done"}
  /\ \E q \in Requests :
       /\ ClientCompletes(q)
       /\ PackIsFree(q)
       /\ req' = [req EXCEPT ![p] = q]
  /\ Goto(p, "preliminary")
  /\ kinds' = [kinds EXCEPT ![p] = NoKinds]
  /\ verdict' = [verdict EXCEPT ![p] = "none"]
  /\ landed' = [landed EXCEPT ![p] = FALSE]
  /\ reply' = [reply EXCEPT ![p] = "none"]
  /\ hook' = [hook EXCEPT ![p] = {}]
  /\ UNCHANGED <<repo, owns>>

\* read_receive_request or stage_pack fails: the connection broke.
ReadFails(p) ==
  /\ pc[p] = "preliminary"
  /\ End(p, "error")
  /\ UNCHANGED <<repo, req, verdict, landed, hook>>

WithinLimit(p) == Cardinality(DOMAIN batch(p)) <= MaxRefUpdates

\* check_limit in read_receive_request: more commands than allowed.
TooManyCommands(p) ==
  /\ pc[p] = "preliminary"
  /\ ~ WithinLimit(p)
  /\ End(p, "error")
  /\ UNCHANGED <<repo, req, verdict, landed, hook>>

\* authorize_preliminary refuses, before anything is stored.
PreliminaryRefuses(p) ==
  /\ pc[p] = "preliminary"
  /\ WithinLimit(p)
  /\ Goto(p, "reject")
  /\ UNCHANGED <<repo, req, owns, kinds, verdict, landed, reply, hook>>

\* authorize_preliminary accepts; the pack, if any, is staged.
PreliminaryAccepts(p) ==
  /\ pc[p] = "preliminary"
  /\ WithinLimit(p)
  /\ Goto(p, IF pack(p) = NoPack THEN "classify" ELSE "checkpack")
  /\ UNCHANGED <<repo, req, owns, kinds, verdict, landed, reply, hook>>

(***************************************************************************)
(* ingest_pack: install .pack, then .idx                                   *)
(***************************************************************************)

CheckAt == [f \in Files |-> IF f = "pack" THEN "checkpack" ELSE "checkidx"]
MoveAt == [f \in Files |-> IF f = "pack" THEN "movepack" ELSE "moveidx"]
CopyAt == [f \in Files |-> IF f = "pack" THEN "copypack" ELSE "copyidx"]
AfterInstall == [f \in Files |-> IF f = "pack" THEN "checkidx" ELSE "inspect"]

Installing == { at[f] : at \in {CheckAt, MoveAt, CopyAt}, f \in Files }

SetFile(f, k, s) == file' = [file EXCEPT ![f][k] = s]

OwnAnyway(p, f) ==                                              \* mutant
  /\ pc[p] = CheckAt[f]
  /\ file[f][pack(p)] # "absent"
  /\ owns' = [owns EXCEPT ![p] = @ \union {f}]
  /\ Goto(p, AfterInstall[f])
  /\ UNCHANGED <<repo, req, kinds, verdict, landed, reply, hook>>

JudgeByPack(p, f) ==                                            \* mutant
  /\ pc[p] = CheckAt[f]
  /\ file["pack"][pack(p)] # "absent"
  /\ Goto(p, AfterInstall[f])
  /\ UNCHANGED <<repo, req, owns, kinds, verdict, landed, reply, hook>>

\* dst.exists(): somebody has installed it, and it is theirs.
FileExists(p, f) ==
  /\ pc[p] = CheckAt[f]
  /\ file[f][pack(p)] # "absent"
  /\ Goto(p, AfterInstall[f])
  /\ UNCHANGED <<repo, req, owns, kinds, verdict, landed, reply, hook>>

\* dst.exists() is false.
FileMissing(p, f) ==
  /\ pc[p] = CheckAt[f]
  /\ file[f][pack(p)] = "absent"
  /\ Goto(p, MoveAt[f])
  /\ UNCHANGED <<repo, req, owns, kinds, verdict, landed, reply, hook>>

\* move_file by rename(2): the file appears at once, over whatever is there.
MoveFile(p, f) ==
  /\ ~ CrossDevice
  /\ pc[p] = MoveAt[f]
  /\ SetFile(f, pack(p), "full")
  /\ owns' = [owns EXCEPT ![p] = @ \union {f}]
  /\ Goto(p, AfterInstall[f])
  /\ UNCHANGED <<refs, advertised, req, kinds, verdict, landed, reply, hook>>

\* move_file when rename(2) fails across filesystems: fs::copy truncates or
\* creates the destination under its final name and fills it.
CopyBegins(p, f) ==
  /\ CrossDevice
  /\ pc[p] = MoveAt[f]
  /\ SetFile(f, pack(p), "partial")
  /\ Goto(p, CopyAt[f])
  /\ UNCHANGED <<refs, advertised, req, owns, kinds, verdict, landed, reply, hook>>

CopyEnds(p, f) ==
  /\ pc[p] = CopyAt[f]
  /\ SetFile(f, pack(p), "full")
  /\ owns' = [owns EXCEPT ![p] = @ \union {f}]
  /\ Goto(p, AfterInstall[f])
  /\ UNCHANGED <<refs, advertised, req, kinds, verdict, landed, reply, hook>>

\* ingest_pack returns an error: the handler returns at once, files stay.
IngestFails(p) ==
  /\ pc[p] \in Installing
  /\ End(p, "error")
  /\ UNCHANGED <<repo, req, verdict, landed, hook>>

(***************************************************************************)
(* inspect_ingested, compute_push_kind, authorize_push                     *)
(***************************************************************************)

\* The pack file is opened by name and parsed.
Inspect(p) ==
  /\ pc[p] = "inspect"
  /\ file["pack"][pack(p)] = "full"
  /\ Goto(p, "classify")
  /\ UNCHANGED <<repo, req, owns, kinds, verdict, landed, reply, hook>>

NoRollback(p) ==                                                \* mutant
  /\ pc[p] = "inspect"
  /\ Goto(p, "reject")
  /\ UNCHANGED <<repo, req, owns, kinds, verdict, landed, reply, hook>>

\* The file is gone, unreadable or does not parse.
InspectFails(p) ==
  /\ pc[p] = "inspect"
  /\ Goto(p, "unlinkidx")
  /\ UNCHANGED <<repo, req, owns, kinds, verdict, landed, reply, hook>>

\* The client disconnects while inspect_ingested runs on another thread: the
\* server drops the handler's future, which undoes nothing.
Cancel(p) ==
  /\ pc[p] = "inspect"
  /\ req[p].via = "http"
  /\ End(p, "lost")
  /\ UNCHANGED <<repo, req, verdict, landed, hook>>

\* compute_push_kind walks from new towards old over the commits it can read;
\* a walk that meets a commit it cannot read may miss old.
PushKind(u) ==
  { k \in KindNames :
      \/ k = "Create" /\ u.old = Null
      \/ k = "Delete" /\ u.old # Null /\ u.new = Null
      \/ k = "FastForward" /\ u.old # Null /\ u.new # Null /\ u.old \in Anc[u.new]
      \/ /\ k = "ForcePush" /\ u.old # Null /\ u.new # Null
         /\ u.old \notin Anc[u.new] \/ ~ (Anc[u.new] \subseteq Readable) }

Classification(b) ==
  { g \in [DOMAIN b -> KindNames] : \A r \in DOMAIN b : g[r] \in PushKind(b[r]) }

\* build_push_refs_async: one PushRef per command, with the client's old.
Classify(p) ==
  /\ pc[p] = "classify"
  /\ \E g \in Classification(batch(p)) : kinds' = [kinds EXCEPT ![p] = g]
  /\ Goto(p, "authorize")
  /\ UNCHANGED <<repo, req, owns, verdict, landed, reply, hook>>

\* The part of a forge's policy the properties use: branch protection.
PolicyAllows(p) ==
  \A r \in Protected \intersect DOMAIN batch(p) :
    kinds[p][r] \in {"Create", "FastForward"}

\* authorize_push returns Ok(()).
AuthorizeAccepts(p) ==
  /\ pc[p] = "authorize"
  /\ PolicyAllows(p)
  /\ verdict' = [verdict EXCEPT ![p] = "ok"]
  /\ Goto(p, "update")
  /\ UNCHANGED <<repo, req, owns, kinds, landed, reply, hook>>

\* authorize_push returns Err(msg), for whatever reason the forge has.
AuthorizeRefuses(p) ==
  /\ pc[p] = "authorize"
  /\ verdict' = [verdict EXCEPT ![p] = "err"]
  /\ Goto(p, "unlinkidx")
  /\ UNCHANGED <<repo, req, owns, kinds, landed, reply, hook>>

(***************************************************************************)
(* rollback_ingest: remove .idx, then .pack, each if this request owns it  *)
(***************************************************************************)

\* Over HTTP a refused push with no commands has no line to reject and falls
\* through to the update.
AfterRollback(p) ==
  IF req[p].via = "http" /\ verdict[p] = "err" /\ DOMAIN batch(p) = {}
  THEN "update" ELSE "reject"

Unlink(p, f) ==
  file' = IF f \in owns[p] THEN [file EXCEPT ![f][pack(p)] = "absent"] ELSE file

PackFirst(p) ==                                                 \* mutant
  /\ pc[p] = "unlinkidx"
  /\ Unlink(p, "pack")
  /\ Goto(p, "unlinkpack")
  /\ UNCHANGED <<refs, advertised, req, owns, kinds, verdict, landed, reply, hook>>

UnlinkIdx(p) ==
  /\ pc[p] = "unlinkidx"
  /\ Unlink(p, "idx")
  /\ Goto(p, "unlinkpack")
  /\ UNCHANGED <<refs, advertised, req, owns, kinds, verdict, landed, reply, hook>>

UnlinkPack(p) ==
  /\ pc[p] = "unlinkpack"
  /\ Unlink(p, "pack")
  /\ Goto(p, AfterRollback(p))
  /\ UNCHANGED <<refs, advertised, req, owns, kinds, verdict, landed, reply, hook>>

\* "unpack ok" and one ng line per command, if the client is still there.
Reject(p) ==
  /\ pc[p] = "reject"
  /\ \E a \in {"ng", "lost"} : End(p, a)
  /\ UNCHANGED <<repo, req, verdict, landed, hook>>

(***************************************************************************)
(* update_refs_and_report, post_receive                                    *)
(***************************************************************************)

BlindUpdate(p) ==                                               \* mutant
  /\ pc[p] = "update"
  /\ refs' = Apply(refs, batch(p))
  /\ advertised' =
       advertised \union UNION { Reach(batch(p)[r].new) : r \in DOMAIN batch(p) }
  /\ landed' = [landed EXCEPT ![p] = TRUE]
  /\ Goto(p, "report")
  /\ UNCHANGED <<file, req, owns, kinds, verdict, reply, hook>>

\* update_refs: every constraint holds and the batch lands.
UpdateLands(p) ==
  /\ pc[p] = "update"
  /\ \A r \in DOMAIN batch(p) : PreviousValueOK(refs[r], batch(p)[r])
  /\ refs' = Apply(refs, batch(p))
  /\ advertised' =
       advertised \union UNION { Reach(batch(p)[r].new) : r \in DOMAIN batch(p) }
  /\ landed' = [landed EXCEPT ![p] = TRUE]
  /\ Goto(p, "report")
  /\ UNCHANGED <<file, req, owns, kinds, verdict, reply, hook>>

ReportAnyway(p) ==                                              \* mutant
  /\ pc[p] = "update"
  /\ Goto(p, "report")
  /\ UNCHANGED <<repo, req, owns, kinds, verdict, landed, reply, hook>>

HookAnyway(p) ==                                                \* mutant
  /\ pc[p] = "update"
  /\ Goto(p, "hook")
  /\ UNCHANGED <<repo, req, owns, kinds, verdict, landed, reply, hook>>

RetryForever(p) == FALSE                                        \* mutant

\* update_refs returns an error (stale value, busy lock, disk): nothing is
\* written to the client; HTTP has already answered 200.
UpdateFails(p) ==
  /\ pc[p] = "update"
  /\ End(p, IF req[p].via = "http" THEN "empty" ELSE "error")
  /\ UNCHANGED <<repo, req, verdict, landed, hook>>

\* "unpack ok" and one ok line per command.
Report(p) ==
  /\ pc[p] = "report"
  /\ reply' = [reply EXCEPT ![p] = "ok"]
  /\ Goto(p, "hook")
  /\ UNCHANGED <<repo, req, owns, kinds, verdict, landed, hook>>

\* The client has gone: the write fails and so does update_refs_and_report.
ReportFails(p) ==
  /\ pc[p] = "report"
  /\ End(p, "lost")
  /\ UNCHANGED <<repo, req, verdict, landed, hook>>

\* preliminary_push_kind: a guess from the two ids alone.
PreliminaryKind(u) ==
  CASE u.old = Null -> "Create"
    [] u.old # Null /\ u.new = Null -> "Delete"
    [] OTHER -> "FastForward"

GuessedKinds(p) ==                                              \* mutant
  {[r \in DOMAIN batch(p) |-> PreliminaryKind(batch(p)[r])]}

\* HTTP passes the kinds of the authorisation on; SSH classifies again.
HookKinds(p) ==
  IF req[p].via = "http" THEN {kinds[p]} ELSE Classification(batch(p))

PostReceive(p) ==
  /\ pc[p] = "hook"
  /\ \E g \in HookKinds(p) : hook' = [hook EXCEPT ![p] = {g}]
  /\ Goto(p, "done")
  /\ owns' = [owns EXCEPT ![p] = {}]
  /\ UNCHANGED <<repo, req, kinds, verdict, landed, reply>>

(***************************************************************************)
(* Specification                                                           *)
(***************************************************************************)

\* The process dies: what is on disk stays, every request in flight is gone.
Crash ==
  /\ \E p \in Handlers : Active(p)
  /\ pc' = [p \in Handlers |-> IF Active(p) THEN "done" ELSE pc[p]]
  /\ reply' = [p \in Handlers |-> IF Active(p) THEN "crash" ELSE reply[p]]
  /\ owns' = [p \in Handlers |-> {}]
  /\ kinds' = [p \in Handlers |-> IF Active(p) THEN NoKinds ELSE kinds[p]]
  /\ UNCHANGED <<repo, req, verdict, landed, hook>>

\* What a handler does on its own thread, waiting for no client.
Decide(p) ==
  \/ \E f \in Files :
       \/ FileExists(p, f)
       \/ FileMissing(p, f)
       \/ MoveFile(p, f)
       \/ CopyBegins(p, f)
       \/ CopyEnds(p, f)
  \/ Inspect(p)
  \/ InspectFails(p)
  \/ Classify(p)
  \/ AuthorizeAccepts(p)
  \/ AuthorizeRefuses(p)
  \/ UnlinkIdx(p)
  \/ UnlinkPack(p)
  \/ UpdateLands(p)
  \/ UpdateFails(p)

\* What it does with the client's help: reading the request, answering it.
Talk(p) ==
  \/ Receive(p)
  \/ TooManyCommands(p)
  \/ PreliminaryRefuses(p)
  \/ PreliminaryAccepts(p)
  \/ Reject(p)
  \/ Report(p)
  \/ ReportFails(p)
  \/ PostReceive(p)

Fault(p) == ReadFails(p) \/ IngestFails(p) \/ Cancel(p)

Next == Crash \/ \E p \in Handlers : Talk(p) \/ Decide(p) \/ Fault(p)

Spec == Init /\ [][Next]_vars

\* The disk, the ref store and the authoriser answer; a client need not.
FairSpec == Spec /\ \A p \in Handlers : WF_vars(Decide(p))

(***************************************************************************)
(* Properties                                                              *)
(***************************************************************************)

Labels ==
  {"idle", "preliminary", "checkpack", "movepack", "copypack", "checkidx", "moveidx", "copyidx",
   "inspect", "classify", "authorize", "unlinkidx", "unlinkpack", "reject", "update", "report",
   "hook", "done"}

\* Every variable has its shape; an idle handler has no request, and only a
\* push in progress that carries a pack installs and owns files.
TypeOK ==
  /\ refs \in [Refs -> Value]
  /\ file \in [Files -> [Packs -> {"absent", "partial", "full"}]]
  /\ advertised \subseteq Oids
  /\ pc \in [Handlers -> Labels]
  /\ req \in [Handlers -> Requests \union {NoRequest}]
  /\ owns \in [Handlers -> SUBSET Files]
  /\ kinds \in [Handlers -> BatchOf(KindNames)]
  /\ verdict \in [Handlers -> {"none", "ok", "err"}]
  /\ landed \in [Handlers -> BOOLEAN]
  /\ reply \in [Handlers -> {"none", "ok", "ng", "empty", "error", "lost", "crash"}]
  /\ hook \in [Handlers -> SUBSET BatchOf(KindNames)]
  /\ \A p \in Handlers :
       /\ req[p] = NoRequest <=> pc[p] = "idle"
       /\ pc[p] \in Installing \union {"inspect"} => pack(p) # NoPack
       /\ owns[p] # {} => Active(p) /\ pack(p) # NoPack

\* No ref ever points at a commit whose history the object database cannot
\* read: what ingest_pack installs before the refs move, and what
\* rollback_ingest removes, never takes objects from under a ref.
NoDanglingRefs == \A r \in Refs : Reach(refs[r]) \subseteq Readable

\* A reader that finds an index finds the whole index and the whole pack:
\* .pack is installed before .idx and removed after it.
IndexedPackComplete ==
  \A k \in Packs : file["idx"][k] # "absent" => \A f \in Files : file[f][k] = "full"

\* A destination that already exists has identical bytes: what a request did
\* not install itself because it was there is complete when the push is judged.
ReusedFilesComplete ==
  \A p \in Handlers : pc[p] = "authorize" /\ pack(p) # NoPack =>
    \A f \in Files \ owns[p] : file[f][pack(p)] = "full"

\* p's batch lands in this step with a command for r that has two null ids:
\* the authoriser was shown a Create, update_refs deletes the ref.
DeletedAsCreate(p, r) ==
  /\ pc[p] = "update" /\ landed'[p]
  /\ r \in DOMAIN batch(p)
  /\ batch(p)[r].old = Null /\ batch(p)[r].new = Null
  /\ kinds[p][r] = "Create"
  /\ refs'[r] = Null

\* A protected branch only ever appears or moves forward, although the push is
\* judged long before its refs are updated, by the old value the client sent,
\* and other pushes move the branch in between.  There is one exception: a
\* command with two null ids, which is judged as a creation, deletes it.
ProtectedOnlyFastForwards ==
  [][\A r \in Protected : refs'[r] # refs[r] =>
       \/ refs[r] = Null
       \/ refs'[r] # Null /\ refs[r] \in Anc[refs'[r]]
       \/ \E p \in Handlers : DeletedAsCreate(p, r)]_vars

\* "ok" lines reach a client only when all its updates are in the ref store,
\* "ng" lines only when none is.
ReportTruthful ==
  \A p \in Handlers :
    /\ reply[p] = "ok" => landed[p]
    /\ reply[p] = "ng" => ~ landed[p]

\* post_receive is told of a push only when its refs were updated and, if it
\* had commands, authorize_push had accepted it.
HookOnlyAfterLanding ==
  \A p \in Handlers : hook[p] # {} =>
    landed[p] /\ (DOMAIN batch(p) # {} => verdict[p] = "ok")

\* post_receive sees the push the authoriser saw: the same kind for each ref,
\* even over SSH, where it is worked out anew after the refs have moved.
HookMatchesJudgement ==
  \A p \in Handlers : hook[p] \subseteq {kinds[p]}

\* When the refusal is written, every file the push installed is gone again:
\* no path through inspection or authorisation skips rollback_ingest.
RollbackComplete ==
  \A p \in Handlers : pc[p] = "reject" =>
    \A f \in owns[p] : file[f][pack(p)] = "absent"

\* No push waits for another one: once it has been read, its refs land, or it
\* is refused, or it ends with an error.
EveryPushDecided ==
  \A p \in Handlers : Active(p) /\ pc[p] # "preliminary" ~>
    landed[p] \/ pc[p] \in {"reject", "done"}

(***************************************************************************)
(* What the documentation says and the code does not do                    *)
(***************************************************************************)

\* RepoAccess::post_receive: "called after all refs have been successfully
\* updated on a push".
HookAfterEveryUpdate ==
  \A p \in Handlers :
    pc[p] = "done" /\ landed[p] /\ reply[p] # "crash" => hook[p] # {}
=============================================================================
