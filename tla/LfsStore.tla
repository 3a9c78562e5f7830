------------------------------ MODULE LfsStore ------------------------------
(***************************************************************************)
(* Git LFS on the filesystem store FsLfs: the batch, upload, verify and    *)
(* download requests of many clients at once on the objects of one         *)
(* repository.                                                             *)
(*                                                                         *)
(* An upload looks whether the object is there, streams the body into a    *)
(* temporary file of its own in the same directory, checks size and        *)
(* SHA-256, and renames the file to the object's name.  Every await is a   *)
(* point where other requests run and where the server may drop the        *)
(* request because its client left.  A batch asks for several objects in   *)
(* turn; they do not influence each other, so a batch here asks for one.   *)
(***************************************************************************)
EXTENDS Sequences, Naturals

CONSTANTS
  Clients,   \* connections; each makes one request after another
  Objects,   \* LfsOids of the objects clients use
  Chunks,    \* what one read of a body returns
  Content,   \* Content[o]: the bytes whose SHA-256 is o
  Requests,  \* the requests clients may make
  NoFile,    \* no such file
  NoRequest  \* a client before its first request

Bytes == Seq(Chunks)

\* op "upload" and "download" are batches; size is what the client declares
\* (Content-Length of a PUT, 0 without the header; the size to verify).
Request ==
  [op : {"upload", "download", "put", "verify", "get"}, oid : Objects,
   size : Nat, body : Bytes]

ASSUME ContentAssumption == Content \in [Objects -> Bytes]
ASSUME LfsRequestsAssumption == Requests \subseteq Request
ASSUME NoFileAssumption == NoFile \notin Bytes
ASSUME LfsNoRequestAssumption == NoRequest \notin Request

VARIABLES
  stored,  \* the file under each object's name
  temp,    \* the temporary file of each client's last upload
  pc,      \* where the request of each client is
  req,     \* that request
  rest,    \* the part of its body that has not been read
  answer,  \* its answer
  told,    \* history: objects each client was told the store has
  stuck    \* history: clients whose last remove_file failed

vars == <<stored, temp, pc, req, rest, answer, told, stuck>>

oid(c) == req[c].oid

Init ==
  /\ stored = [o \in Objects |-> NoFile]
  /\ temp = [c \in Clients |-> NoFile]
  /\ pc = [c \in Clients |-> "idle"]
  /\ req = [c \in Clients |-> NoRequest]
  /\ rest = [c \in Clients |-> <<>>]
  /\ answer = [c \in Clients |-> "none"]
  /\ told = [c \in Clients |-> {}]
  /\ stuck = {}

Goto(c, l) == pc' = [pc EXCEPT ![c] = l]

Answer(c, a) == Goto(c, "reply") /\ answer' = [answer EXCEPT ![c] = a]

Present(o) == stored[o] # NoFile

\* Answers that say the store has the object: a batch without upload action,
\* a batch with download action, 200 to PUT, verify and GET.
Confirming == {"present", "download", "stored", "verified", "served"}

\* A request arrives and is routed; the temporary file an earlier upload may
\* have left has a random name that nobody knows.
Arrive(c) ==
  /\ pc[c] = "idle"
  /\ \E q \in Requests :
       /\ req' = [req EXCEPT ![c] = q]
       /\ rest' = [rest EXCEPT ![c] = q.body]
       /\ Goto(c, q.op)
  /\ temp' = [temp EXCEPT ![c] = NoFile]
  /\ answer' = [answer EXCEPT ![c] = "none"]
  /\ stuck' = stuck \ {c}
  /\ UNCHANGED <<stored, told>>

\* authorize_lfs refuses (403; verify and GET do not ask it), or the JSON or
\* the object id does not parse (400).
Refuse(c) ==
  /\ \/ pc[c] \in {"upload", "download", "put"} /\ Answer(c, "refused")
     \/ pc[c] \in {"upload", "download", "put", "verify", "get"} /\ Answer(c, "bad")
  /\ UNCHANGED <<stored, temp, req, rest, told, stuck>>

(***************************************************************************)
(* Requests answered by one stat                                           *)
(***************************************************************************)

\* handle_batch: upload what is missing, download what is there.
Batch(c) ==
  /\ \/ pc[c] = "upload" /\ Answer(c, IF Present(oid(c)) THEN "present" ELSE "send")
     \/ pc[c] = "download" /\ Answer(c, IF Present(oid(c)) THEN "download" ELSE "missing")
  /\ UNCHANGED <<stored, temp, req, rest, told, stuck>>

\* handle_verify: existence and size.
Verify(c) ==
  /\ pc[c] = "verify"
  /\ Answer(c, IF ~ Present(oid(c)) THEN "missing"
               ELSE IF Len(stored[oid(c)]) = req[c].size THEN "verified" ELSE "mismatch")
  /\ UNCHANGED <<stored, temp, req, rest, told, stuck>>

(***************************************************************************)
(* handle_download: stat, then open                                        *)
(***************************************************************************)

GetStat(c) ==
  /\ pc[c] = "get"
  /\ IF Present(oid(c)) THEN Goto(c, "open") /\ UNCHANGED answer
     ELSE Answer(c, "missing")
  /\ UNCHANGED <<stored, temp, req, rest, told, stuck>>

GetOpen(c) ==
  /\ pc[c] = "open"
  /\ Present(oid(c))
  /\ Answer(c, "served")
  /\ UNCHANGED <<stored, temp, req, rest, told, stuck>>

(***************************************************************************)
(* handle_upload and FsLfs::write                                          *)
(***************************************************************************)

\* The object is there: nothing is read or written.
AlreadyPresent(c) ==
  /\ pc[c] = "put"
  /\ Present(oid(c))
  /\ Answer(c, "stored")
  /\ UNCHANGED <<stored, temp, req, rest, told, stuck>>

LazyTemp(c) ==                                                  \* mutant
  /\ pc[c] = "put"
  /\ Goto(c, "receive")
  /\ UNCHANGED <<stored, temp, req, rest, answer, told, stuck>>

\* metadata() fails, because the object is missing or for another reason.
CreateTemp(c) ==
  /\ pc[c] = "put"
  /\ temp' = [temp EXCEPT ![c] = <<>>]
  /\ Goto(c, "receive")
  /\ UNCHANGED <<stored, req, rest, answer, told, stuck>>

\* One round of the copy loop: hash and write what has been read.
ReceiveChunk(c) ==
  /\ pc[c] = "receive"
  /\ rest[c] # <<>>
  /\ temp' = [temp EXCEPT ![c] = Append(@, Head(rest[c]))]
  /\ rest' = [rest EXCEPT ![c] = Tail(@)]
  /\ UNCHANGED <<stored, pc, req, answer, told, stuck>>

SizeOK(c) == Len(temp[c]) = req[c].size

AnyHash(c) == TRUE                                              \* mutant

\* The hasher has seen what the file holds.
HashOK(c) == temp[c] = Content[oid(c)]

BodyRead(c) == pc[c] = "receive" /\ rest[c] = <<>>

\* Size and hash are right.
CheckPasses(c) ==
  /\ BodyRead(c)
  /\ SizeOK(c) /\ HashOK(c)
  /\ Goto(c, "rename")
  /\ UNCHANGED <<stored, temp, req, rest, answer, told, stuck>>

KeepTemp(c) ==                                                  \* mutant
  /\ BodyRead(c)
  /\ ~ (SizeOK(c) /\ HashOK(c))
  /\ Answer(c, "mismatch")
  /\ UNCHANGED <<stored, temp, req, rest, told, stuck>>

RemoveDest(c) ==                                                \* mutant
  /\ BodyRead(c)
  /\ ~ (SizeOK(c) /\ HashOK(c))
  /\ stored' = [stored EXCEPT ![oid(c)] = NoFile]
  /\ temp' = [temp EXCEPT ![c] = NoFile]
  /\ Answer(c, "mismatch")
  /\ UNCHANGED <<req, rest, told, stuck>>

\* SizeMismatch or HashMismatch: the temporary file is removed, and if that
\* fails nobody is told: 422.
CheckFails(c) ==
  /\ BodyRead(c)
  /\ ~ (SizeOK(c) /\ HashOK(c))
  /\ \/ temp' = [temp EXCEPT ![c] = NoFile] /\ UNCHANGED stuck
     \/ stuck' = stuck \union {c} /\ UNCHANGED temp
  /\ Answer(c, "mismatch")
  /\ UNCHANGED <<stored, req, rest, told>>

\* rename(2): the file gets the object's name, over one that is there.
Publish(c) ==
  /\ stored' = [stored EXCEPT ![oid(c)] = temp[c]]
  /\ temp' = [temp EXCEPT ![c] = NoFile]

AnswerFirst(c) ==                                               \* mutant
  /\ pc[c] = "rename"
  /\ Answer(c, "stored")
  /\ UNCHANGED <<stored, temp, req, rest, told, stuck>>

Rename(c) ==
  /\ pc[c] = "rename"
  /\ Publish(c)
  /\ Answer(c, "stored")
  /\ UNCHANGED <<req, rest, told, stuck>>

(***************************************************************************)
(* Failures and the end of a request                                       *)
(***************************************************************************)

\* The disk, or reading the body, fails: 500; a temporary file stays.
IoError(c) ==
  /\ pc[c] \notin {"idle", "reply"}
  /\ Answer(c, "error")
  /\ UNCHANGED <<stored, temp, req, rest, told, stuck>>

\* The client gets its answer.
Reply(c) ==
  /\ pc[c] = "reply"
  /\ told' = [told EXCEPT ![c] = IF answer[c] \in Confirming THEN @ \union {oid(c)} ELSE @]
  /\ Goto(c, "idle")
  /\ UNCHANGED <<stored, temp, req, rest, answer, stuck>>

\* The client leaves and the server drops the request at its await.  A rename
\* that runs on another thread is not recalled.
Drop(c) ==
  /\ pc[c] # "idle"
  /\ \/ UNCHANGED <<stored, temp>>
     \/ pc[c] = "rename" /\ Publish(c)
  /\ Goto(c, "idle")
  /\ answer' = [answer EXCEPT ![c] = "lost"]
  /\ UNCHANGED <<req, rest, told, stuck>>

\* The server process dies and is started again.
Crash ==
  /\ \E c \in Clients : pc[c] # "idle"
  /\ pc' = [c \in Clients |-> "idle"]
  /\ answer' = [c \in Clients |-> IF pc[c] = "idle" THEN answer[c] ELSE "lost"]
  /\ UNCHANGED <<stored, temp, req, rest, told, stuck>>

Step(c) ==
  \/ Arrive(c) \/ Refuse(c) \/ Batch(c) \/ Verify(c)
  \/ GetStat(c) \/ GetOpen(c)
  \/ AlreadyPresent(c) \/ CreateTemp(c) \/ ReceiveChunk(c)
  \/ CheckPasses(c) \/ CheckFails(c) \/ Rename(c)
  \/ IoError(c) \/ Reply(c) \/ Drop(c)

Next == Crash \/ \E c \in Clients : Step(c)

Spec == Init /\ [][Next]_vars

(***************************************************************************)
(* Properties                                                              *)
(***************************************************************************)

\* Every variable has its shape; an upload that receives or renames has its
\* temporary file.
TypeOK ==
  /\ stored \in [Objects -> Bytes \union {NoFile}]
  /\ temp \in [Clients -> Bytes \union {NoFile}]
  /\ pc \in [Clients -> {"idle", "upload", "download", "put", "verify", "get",
                         "open", "receive", "rename", "reply"}]
  /\ req \in [Clients -> Requests \union {NoRequest}]
  /\ rest \in [Clients -> Bytes]
  /\ answer \in [Clients -> Confirming \union
                   {"none", "send", "missing", "mismatch", "refused", "bad", "error", "lost"}]
  /\ told \in [Clients -> SUBSET Objects]
  /\ stuck \subseteq Clients
  /\ \A c \in Clients :
       /\ req[c] = NoRequest => pc[c] = "idle"
       /\ pc[c] \in {"receive", "rename"} => temp[c] # NoFile

\* What lies under an object's name is that object, whole: a failed, dropped
\* or concurrent upload never leaves a partial or wrong file there.
StoredIntact ==
  \A o \in Objects : Present(o) => stored[o] = Content[o]

\* An object that is there stays there, unchanged, also when another upload of
\* it is refused, fails or renames its own copy over it.
ObjectsStable ==
  [][\A o \in Objects : Present(o) => stored'[o] = stored[o]]_vars

\* Whoever was told that the store has an object - by a batch, an upload, a
\* verification or a download - can rely on it in every later request.
PromisesKept ==
  \A c \in Clients : \A o \in told[c] : Present(o)

\* An upload that was answered leaves no temporary file behind, unless the
\* answer was an I/O error (or there was none), or it was a refusal for which
\* remove_file failed: no stored object keeps one, whatever the disk does.
AnsweredLeavesNoTemp ==
  \A c \in Clients : pc[c] = "reply" /\ temp[c] # NoFile =>
    answer[c] = "error" \/ (answer[c] = "mismatch" /\ c \in stuck)
=============================================================================
