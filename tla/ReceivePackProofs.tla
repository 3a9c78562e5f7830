------------------------- MODULE ReceivePackProofs --------------------------
(***************************************************************************)
(* Proofs about ReceivePack, for any number of handlers, refs, packs and   *)
(* requests and any history of commits.                                    *)
(***************************************************************************)
EXTENDS ReceivePack, TLAPS

(***************************************************************************)
(* Facts about requests and batches                                        *)
(***************************************************************************)

\* What a member of BatchOf is.
LEMMA BatchFacts ==
  ASSUME NEW U, NEW b \in BatchOf(U)
  PROVE  /\ DOMAIN b \subseteq Refs
         /\ \A r \in DOMAIN b : b[r] \in U
BY DEF BatchOf

\* Any function from some refs to U is a batch of U.
LEMMA IsBatch ==
  ASSUME NEW U, NEW D \in SUBSET Refs, NEW g \in [D -> U]
  PROVE  g \in BatchOf(U)
BY DEF BatchOf

\* The kinds of no commands.
LEMMA NoKindsIsBatch == NoKinds \in BatchOf(KindNames)
<1>1. NoKinds \in [{} -> KindNames]
  BY DEF NoKinds, EmptyBatch
<1>2. {} \in SUBSET Refs
  OBVIOUS
<1> QED
  BY <1>1, <1>2, IsBatch

\* The parts of a request.
LEMMA RequestFacts ==
  ASSUME NEW q \in Requests
  PROVE  /\ q # NoRequest
         /\ q.via \in {"http", "ssh"}
         /\ DOMAIN q.batch \subseteq Refs
         /\ \A r \in DOMAIN q.batch : q.batch[r] \in RefUpdate
         /\ q.pack \in Packs \union {NoPack}
<1>1. q \in Request
  BY RequestsAssumption
<1>2. q.batch \in BatchOf(RefUpdate)
  BY <1>1 DEF Request
<1> QED
  BY <1>1, <1>2, BatchFacts, NoRequestAssumption DEF Request

\* A classification is a function from the refs of the batch to kinds.
LEMMA ClassificationFacts ==
  ASSUME NEW q \in Requests, NEW g \in Classification(q.batch)
  PROVE  g \in BatchOf(KindNames)
BY RequestFacts, IsBatch DEF Classification

(***************************************************************************)
(* Type correctness                                                        *)
(***************************************************************************)

\* The labels of ingest_pack.
LEMMA InstallingFacts ==
  Installing = {"checkpack", "checkidx", "movepack", "moveidx", "copypack", "copyidx"}
BY DEF Installing, CheckAt, MoveAt, CopyAt, Files

\* Handlers start idle, over a repository whose refs are readable.
LEMMA InitType == Init => TypeOK
BY NoKindsIsBatch, InstallingFacts, BaseAssumption, AncAssumption DEF Init, TypeOK, Files, Labels, Reach, Active

\* A handler that has left "idle" has a request.
LEMMA HasRequest ==
  ASSUME TypeOK, NEW p \in Handlers, pc[p] # "idle"
  PROVE  req[p] \in Requests
BY DEF TypeOK

\* Ending a request keeps the types.
LEMMA EndType ==
  ASSUME TypeOK, NEW p \in Handlers, pc[p] # "idle",
         NEW a \in {"ng", "empty", "error", "lost"}, End(p, a),
         UNCHANGED <<repo, req, verdict, landed, hook>>
  PROVE  TypeOK'
BY NoKindsIsBatch, InstallingFacts DEF TypeOK, End, Goto, repo, Labels, Active, pack

\* Every step of every handler keeps the types.
LEMMA TypeStep == TypeOK /\ [Next]_vars => TypeOK'
<1> SUFFICES ASSUME TypeOK, [Next]_vars PROVE TypeOK'
  OBVIOUS
<1> USE InstallingFacts DEF TypeOK, Labels, Goto, repo, Active, pack
<1>1. ASSUME NEW p \in Handlers, Receive(p) PROVE TypeOK'
  <2>1. PICK q \in Requests : req' = [req EXCEPT ![p] = q]
    BY <1>1 DEF Receive
  <2>2. q # NoRequest /\ owns[p] = {}
    BY <1>1, RequestFacts DEF Receive
  <2> QED
    BY <1>1, <2>1, <2>2, NoKindsIsBatch DEF Receive
<1>2. ASSUME NEW p \in Handlers, ReadFails(p) \/ TooManyCommands(p) \/ IngestFails(p) PROVE TypeOK'
  BY <1>2, EndType DEF ReadFails, TooManyCommands, IngestFails
<1>3. ASSUME NEW p \in Handlers, Cancel(p) \/ ReportFails(p) PROVE TypeOK'
  BY <1>3, EndType DEF Cancel, ReportFails
<1>4. ASSUME NEW p \in Handlers, Reject(p) PROVE TypeOK'
  BY <1>4, EndType DEF Reject
<1>5. ASSUME NEW p \in Handlers, UpdateFails(p) PROVE TypeOK'
  BY <1>5, EndType DEF UpdateFails
<1>6. ASSUME NEW p \in Handlers, PreliminaryRefuses(p) \/ PreliminaryAccepts(p) PROVE TypeOK'
  BY <1>6 DEF PreliminaryRefuses, PreliminaryAccepts
<1>7. ASSUME NEW p \in Handlers, NEW f \in Files, FileExists(p, f) \/ FileMissing(p, f) PROVE TypeOK'
  BY <1>7 DEF FileExists, FileMissing, CheckAt, MoveAt, AfterInstall, Files
<1>8. ASSUME NEW p \in Handlers, NEW f \in Files,
             pc[p] \in {MoveAt[f], CopyAt[f]}, NEW s \in {"partial", "full"},
             SetFile(f, pack(p), s)
      PROVE  file' \in [Files -> [Packs -> {"absent", "partial", "full"}]]
  BY <1>8 DEF SetFile
<1>9. ASSUME NEW p \in Handlers, NEW f \in Files, MoveFile(p, f) PROVE TypeOK'
  BY <1>9, <1>8 DEF MoveFile, MoveAt, AfterInstall, Files
<1>10. ASSUME NEW p \in Handlers, NEW f \in Files, CopyBegins(p, f) PROVE TypeOK'
  BY <1>10, <1>8 DEF CopyBegins, MoveAt, CopyAt, Files
<1>11. ASSUME NEW p \in Handlers, NEW f \in Files, CopyEnds(p, f) PROVE TypeOK'
  BY <1>11, <1>8 DEF CopyEnds, CopyAt, AfterInstall, Files
<1>12. ASSUME NEW p \in Handlers, Inspect(p) \/ InspectFails(p) PROVE TypeOK'
  BY <1>12 DEF Inspect, InspectFails
<1>13. ASSUME NEW p \in Handlers, Classify(p) PROVE TypeOK'
  <2>1. PICK g \in Classification(batch(p)) : kinds' = [kinds EXCEPT ![p] = g]
    BY <1>13 DEF Classify
  <2>2. g \in BatchOf(KindNames)
    BY <1>13, <2>1, HasRequest, ClassificationFacts DEF Classify, batch
  <2> QED
    BY <1>13, <2>1, <2>2 DEF Classify
<1>14. ASSUME NEW p \in Handlers, AuthorizeAccepts(p) \/ AuthorizeRefuses(p) PROVE TypeOK'
  BY <1>14 DEF AuthorizeAccepts, AuthorizeRefuses
<1>15. ASSUME NEW p \in Handlers, UnlinkIdx(p) \/ UnlinkPack(p) PROVE TypeOK'
  BY <1>15 DEF UnlinkIdx, UnlinkPack, Unlink, AfterRollback, Files
<1>16. ASSUME NEW p \in Handlers, UpdateLands(p) PROVE TypeOK'
  <2>1. \A r \in DOMAIN batch(p) : batch(p)[r] \in RefUpdate
    BY <1>16, HasRequest, RequestFacts DEF UpdateLands, batch
  <2>2. refs' \in [Refs -> Value]
    BY <1>16, <2>1 DEF UpdateLands, Apply, RefUpdate
  <2>3. advertised' \subseteq Oids
    BY <1>16, <2>1, AncAssumption DEF UpdateLands, Reach, RefUpdate, Value
  <2> QED
    BY <1>16, <2>2, <2>3 DEF UpdateLands
<1>17. ASSUME NEW p \in Handlers, Report(p) PROVE TypeOK'
  BY <1>17 DEF Report
<1>18. ASSUME NEW p \in Handlers, PostReceive(p) PROVE TypeOK'
  <2>1. PICK g \in HookKinds(p) : hook' = [hook EXCEPT ![p] = {g}]
    BY <1>18 DEF PostReceive
  <2>2. g \in BatchOf(KindNames)
    BY <1>18, <2>1, HasRequest, ClassificationFacts DEF PostReceive, HookKinds, batch
  <2> QED
    BY <1>18, <2>1, <2>2 DEF PostReceive
<1>19. CASE Crash
  BY <1>19, NoKindsIsBatch DEF Crash
<1>20. CASE UNCHANGED vars
  BY <1>20 DEF vars
<1> QED
  BY <1>1, <1>2, <1>3, <1>4, <1>5, <1>6, <1>7, <1>9, <1>10, <1>11, <1>12, <1>13, <1>14,
     <1>15, <1>16, <1>17, <1>18, <1>19, <1>20
  DEF Next, Talk, Decide, Fault

\* Type correctness.
THEOREM TypeCorrect == Spec => []TypeOK
BY InitType, TypeStep, PTL DEF Spec

(***************************************************************************)
(* What the client, the hook and the authoriser are told                   *)
(***************************************************************************)

\* A kind says what it should about its command.
Sound(u, k) ==
  /\ k = "Create" => u.old = Null
  /\ k = "FastForward" => u.old # Null /\ u.new # Null /\ u.old \in Anc[u.new]

\* Where a handler can be once its refs have landed and once it has answered.
Progress ==
  \A p \in Handlers :
    /\ landed[p] => pc[p] \in {"report", "hook", "done"}
    /\ pc[p] \in {"report", "hook"} => landed[p]
    /\ reply[p] = "ng" => pc[p] = "done"
    /\ hook[p] # {} => pc[p] = "done"

\* A push with commands reaches the update only with the authoriser's consent,
\* to kinds that are sound.
Consent ==
  \A p \in Handlers :
    /\ pc[p] \in {"update", "report", "hook"} /\ DOMAIN batch(p) # {} => verdict[p] = "ok"
    /\ pc[p] = "update" /\ verdict[p] = "ok" => PolicyAllows(p)
    /\ pc[p] \in {"authorize", "update"} =>
         \A r \in DOMAIN batch(p) : Sound(batch(p)[r], kinds[p][r])

JInv == TypeOK /\ Progress /\ ReportTruthful /\ Consent /\ HookOnlyAfterLanding

\* Nothing has been judged or answered.
LEMMA InitJInv == Init => JInv
BY InitType DEF Init, JInv, Progress, ReportTruthful, Consent, HookOnlyAfterLanding

\* Every step keeps Progress and ReportTruthful.
LEMMA ProgressStep ==
  ASSUME JInv, [Next]_vars
  PROVE  Progress' /\ ReportTruthful'
<1> USE InstallingFacts DEF JInv, TypeOK, Progress, ReportTruthful, Goto
<1> DEFINE Goal == Progress' /\ ReportTruthful'
<1>1. ASSUME NEW p \in Handlers, Receive(p) PROVE Goal
  BY <1>1 DEF Receive
<1>2. ASSUME NEW p \in Handlers, ReadFails(p) \/ TooManyCommands(p) \/ IngestFails(p) \/ Cancel(p)
      PROVE  Goal
  BY <1>2 DEF ReadFails, TooManyCommands, IngestFails, Cancel, End
<1>3. ASSUME NEW p \in Handlers, Reject(p) PROVE Goal
  BY <1>3 DEF Reject, End
<1>4. ASSUME NEW p \in Handlers, UpdateFails(p) \/ ReportFails(p) PROVE Goal
  BY <1>4 DEF UpdateFails, ReportFails, End
<1>5. ASSUME NEW p \in Handlers, PreliminaryRefuses(p) \/ PreliminaryAccepts(p) PROVE Goal
  BY <1>5 DEF PreliminaryRefuses, PreliminaryAccepts
<1>6. ASSUME NEW p \in Handlers, NEW f \in Files,
             \/ FileExists(p, f) \/ FileMissing(p, f)
             \/ MoveFile(p, f) \/ CopyBegins(p, f) \/ CopyEnds(p, f)
      PROVE  Goal
  BY <1>6 DEF FileExists, FileMissing, MoveFile, CopyBegins, CopyEnds,
              CheckAt, MoveAt, CopyAt, AfterInstall, Files
<1>7. ASSUME NEW p \in Handlers, Inspect(p) \/ InspectFails(p) \/ Classify(p) PROVE Goal
  BY <1>7 DEF Inspect, InspectFails, Classify
<1>8. ASSUME NEW p \in Handlers, AuthorizeAccepts(p) \/ AuthorizeRefuses(p) PROVE Goal
  BY <1>8 DEF AuthorizeAccepts, AuthorizeRefuses
<1>9. ASSUME NEW p \in Handlers, UnlinkIdx(p) \/ UnlinkPack(p) PROVE Goal
  BY <1>9 DEF UnlinkIdx, UnlinkPack, AfterRollback
<1>10. ASSUME NEW p \in Handlers, UpdateLands(p) PROVE Goal
  BY <1>10 DEF UpdateLands
<1>11. ASSUME NEW p \in Handlers, Report(p) \/ PostReceive(p) PROVE Goal
  BY <1>11 DEF Report, PostReceive
<1>12. CASE Crash
  BY <1>12 DEF Crash, Active
<1>13. CASE UNCHANGED vars
  BY <1>13 DEF vars
<1> HIDE InstallingFacts DEF JInv, TypeOK, Progress, ReportTruthful, Goto
<1> QED
  BY <1>1, <1>2, <1>3, <1>4, <1>5, <1>6, <1>7, <1>8, <1>9, <1>10, <1>11, <1>12, <1>13
  DEF Next, Talk, Decide, Fault

\* Every step keeps Consent and HookOnlyAfterLanding.
LEMMA ConsentStep ==
  ASSUME JInv, [Next]_vars
  PROVE  Consent' /\ HookOnlyAfterLanding'
<1> USE InstallingFacts
    DEF JInv, TypeOK, Progress, Consent, HookOnlyAfterLanding, Goto, batch, PolicyAllows
<1> DEFINE Goal == Consent' /\ HookOnlyAfterLanding'
<1>1. ASSUME NEW p \in Handlers, Receive(p) PROVE Goal
  BY <1>1 DEF Receive
<1>2. ASSUME NEW p \in Handlers, ReadFails(p) \/ TooManyCommands(p) \/ IngestFails(p) \/ Cancel(p)
      PROVE  Goal
  BY <1>2 DEF ReadFails, TooManyCommands, IngestFails, Cancel, End
<1>3. ASSUME NEW p \in Handlers, Reject(p) PROVE Goal
  BY <1>3 DEF Reject, End
<1>4. ASSUME NEW p \in Handlers, UpdateFails(p) \/ ReportFails(p) PROVE Goal
  BY <1>4 DEF UpdateFails, ReportFails, End
<1>5. ASSUME NEW p \in Handlers, PreliminaryRefuses(p) \/ PreliminaryAccepts(p) PROVE Goal
  BY <1>5 DEF PreliminaryRefuses, PreliminaryAccepts
<1>6. ASSUME NEW p \in Handlers, NEW f \in Files,
             \/ FileExists(p, f) \/ FileMissing(p, f)
             \/ MoveFile(p, f) \/ CopyBegins(p, f) \/ CopyEnds(p, f)
      PROVE  Goal
  BY <1>6 DEF FileExists, FileMissing, MoveFile, CopyBegins, CopyEnds,
              CheckAt, MoveAt, CopyAt, AfterInstall, Files
<1>7. ASSUME NEW p \in Handlers, Inspect(p) \/ InspectFails(p) PROVE Goal
  <2>1. CASE Inspect(p)
    BY <2>1 DEF Inspect
  <2>2. CASE InspectFails(p)
    BY <2>2 DEF InspectFails
  <2> QED
    BY <1>7, <2>1, <2>2
<1>8. ASSUME NEW p \in Handlers, Classify(p) PROVE Goal
  <2>1. PICK g \in Classification(batch(p)) : kinds' = [kinds EXCEPT ![p] = g]
    BY <1>8 DEF Classify
  <2>2. \A r \in DOMAIN batch(p) : Sound(batch(p)[r], g[r])
    BY DEF Classification, PushKind, Sound
  <2> QED
    BY <1>8, <2>1, <2>2 DEF Classify
<1>9. ASSUME NEW p \in Handlers, AuthorizeAccepts(p) \/ AuthorizeRefuses(p) PROVE Goal
  BY <1>9 DEF AuthorizeAccepts, AuthorizeRefuses
<1>10. ASSUME NEW p \in Handlers, UnlinkIdx(p) \/ UnlinkPack(p) PROVE Goal
  BY <1>10 DEF UnlinkIdx, UnlinkPack, AfterRollback
<1>11. ASSUME NEW p \in Handlers, UpdateLands(p) PROVE Goal
  BY <1>11 DEF UpdateLands
<1>12. ASSUME NEW p \in Handlers, Report(p) \/ PostReceive(p) PROVE Goal
  BY <1>12 DEF Report, PostReceive
<1>13. CASE Crash
  BY <1>13 DEF Crash, Active
<1>14. CASE UNCHANGED vars
  BY <1>14 DEF vars
<1> HIDE InstallingFacts
    DEF JInv, TypeOK, Progress, Consent, HookOnlyAfterLanding, Goto, batch, PolicyAllows
<1> QED
  BY <1>1, <1>2, <1>3, <1>4, <1>5, <1>6, <1>7, <1>8, <1>9, <1>10, <1>11, <1>12, <1>13, <1>14
  DEF Next, Talk, Decide, Fault

\* The invariant of what is judged and answered.
THEOREM JudgedInvariance == Spec => []JInv
<1>1. JInv /\ [Next]_vars => JInv'
  BY TypeStep, ProgressStep, ConsentStep DEF JInv
<1> QED
  BY InitJInv, <1>1, PTL DEF Spec

\* However pushes interleave, crash and retry, whatever packs they share and
\* however packs are moved: clients are told the truth about their refs.
THEOREM ReportsAreTruthful == Spec => []ReportTruthful
BY JudgedInvariance, PTL DEF JInv

\* The hook runs only for pushes that were accepted and have landed.
THEOREM HooksFollowLanding == Spec => []HookOnlyAfterLanding
BY JudgedInvariance, PTL DEF JInv

\* Of all steps only the landing of a batch moves a ref.
LEMMA OnlyLandingMovesRefs ==
  ASSUME [Next]_vars, refs' # refs \/ advertised' # advertised
  PROVE  \E p \in Handlers : UpdateLands(p)
BY DEF Next, Talk, Decide, Fault, vars, repo, Crash, Receive, ReadFails, TooManyCommands,
       PreliminaryRefuses, PreliminaryAccepts, FileExists, FileMissing, MoveFile, CopyBegins,
       CopyEnds, IngestFails, Inspect, InspectFails, Cancel, Classify, AuthorizeAccepts,
       AuthorizeRefuses, UnlinkIdx, UnlinkPack, Reject, UpdateFails, Report, ReportFails,
       PostReceive

\* The judgement of a push is still right when its refs move, for any requests
\* and any set of protected refs: the compare-and-swap makes the stale old
\* value of the request a fresh one.  A command with two null ids is the only
\* one that takes a protected ref anywhere else, and it deletes it.
THEOREM BranchProtection == Spec => ProtectedOnlyFastForwards
<1> DEFINE Forward ==
      \A r \in Protected : refs'[r] # refs[r] =>
        \/ refs[r] = Null
        \/ refs'[r] # Null /\ refs[r] \in Anc[refs'[r]]
        \/ \E p \in Handlers : DeletedAsCreate(p, r)
<1>1. ASSUME JInv, [Next]_vars PROVE [Forward]_vars
  <2>1. SUFFICES ASSUME NEW r \in Protected, refs'[r] # refs[r]
                 PROVE  \/ refs[r] = Null
                        \/ refs'[r] # Null /\ refs[r] \in Anc[refs'[r]]
                        \/ \E p \in Handlers : DeletedAsCreate(p, r)
    OBVIOUS
  <2>2. PICK p \in Handlers : UpdateLands(p)
    BY <1>1, <2>1, OnlyLandingMovesRefs
  <2>3. r \in DOMAIN batch(p) /\ refs'[r] = batch(p)[r].new
    <3>1. r \in Refs /\ r \in DOMAIN batch(p)
      BY <2>1, <2>2, ProtectedAssumption DEF UpdateLands, Apply
    <3> QED
      BY <3>1, <2>2 DEF UpdateLands, Apply
  <2>4. PreviousValueOK(refs[r], batch(p)[r])
    BY <2>2, <2>3 DEF UpdateLands
  <2>5. Sound(batch(p)[r], kinds[p][r]) /\ kinds[p][r] \in {"Create", "FastForward"}
    BY <1>1, <2>1, <2>2, <2>3 DEF UpdateLands, JInv, Consent, PolicyAllows
  <2>6. CASE WellFormed(batch(p)[r])
    BY <2>3, <2>4, <2>5, <2>6 DEF PreviousValueOK, WellFormed, Sound
  <2>7. CASE ~ WellFormed(batch(p)[r])
    <3>1. kinds[p][r] = "Create"
      BY <2>5, <2>7 DEF WellFormed, Sound
    <3>2. pc[p] = "update" /\ landed'[p]
      BY <1>1, <2>2 DEF UpdateLands, JInv, TypeOK
    <3> QED
      BY <2>3, <2>7, <3>1, <3>2 DEF WellFormed, DeletedAsCreate
  <2> QED
    BY <2>6, <2>7
<1> QED
  BY <1>1, JudgedInvariance, PTL DEF Spec, ProtectedOnlyFastForwards
=============================================================================
