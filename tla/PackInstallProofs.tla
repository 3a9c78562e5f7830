------------------------- MODULE PackInstallProofs --------------------------
(***************************************************************************)
(* Proofs about the pack files of ReceivePack: when packs are moved by     *)
(* rename(2) and no two pushes in flight carry the same pack, an index     *)
(* always has its pack and no ref ever dangles, whatever else happens.     *)
(* Both conditions are needed: the runs push_shared_pack and               *)
(* push_cross_device show what happens without them.  That a rollback is   *)
(* complete needs only the second.                                         *)
(***************************************************************************)
EXTENDS ReceivePackProofs

(***************************************************************************)
(* The inductive invariant                                                 *)
(***************************************************************************)

\* No two pushes in flight carry the same pack.
Exclusive ==
  \A p, q \in Handlers :
    p # q /\ Active(p) /\ Active(q) /\ pack(p) # NoPack => pack(p) # pack(q)

\* Files appear whole.
Renamed ==
  /\ \A f \in Files, k \in Packs : file[f][k] # "partial"
  /\ \A p \in Handlers : pc[p] \notin {"copypack", "copyidx"}

\* A push that has decided to move a file still finds its place empty.
PlaceEmpty(p) ==
  /\ pc[p] = "movepack" => file["pack"][pack(p)] = "absent"
  /\ pc[p] = "moveidx" => file["idx"][pack(p)] = "absent"
  /\ pc[p] = "checkidx" /\ "pack" \in owns[p] => file["idx"][pack(p)] = "absent"

\* What a push has installed or found is there until it rolls back.
InPlace(p) ==
  /\ pc[p] \in {"checkidx", "moveidx"} => file["pack"][pack(p)] = "full"
  /\ \/ pc[p] \in {"inspect", "classify", "authorize"}
     \/ pc[p] = "update" /\ verdict[p] = "ok"
     => \A f \in Files : file[f][pack(p)] = "full"

\* Who owns the pack owns its index, and a rollback removes that first.
Ownership(p) ==
  /\ pc[p] \in {"preliminary", "checkpack", "movepack"} => owns[p] = {}
  /\ pc[p] \in {"inspect", "classify", "authorize", "unlinkidx"} /\ "pack" \in owns[p] =>
       "idx" \in owns[p]
  /\ pc[p] = "unlinkpack" =>
       /\ "idx" \in owns[p] => file["idx"][pack(p)] = "absent"
       /\ "pack" \in owns[p] => file["idx"][pack(p)] = "absent"

InstallOK(p) ==
  Active(p) /\ pack(p) # NoPack =>
    /\ PlaceEmpty(p)
    /\ InPlace(p)
    /\ Ownership(p)
    /\ pc[p] = "reject" => \A f \in owns[p] : file[f][pack(p)] = "absent"

Installs == \A p \in Handlers : InstallOK(p)

\* A push not yet landed brings, with the commits the repository ever
\* advertised, the whole history of what it wants refs to point at.
Closed ==
  \A p \in Handlers : Active(p) =>
    \A r \in DOMAIN batch(p) : Reach(batch(p)[r].new) \subseteq PackObjects(pack(p)) \union advertised

\* A rollback can still come.
Undecided(p) ==
  pc[p] \in Installing \union {"inspect", "classify", "authorize", "unlinkidx", "unlinkpack"}

\* Pack k is in place and no rollback will remove it.
Kept(k) ==
  /\ \A f \in Files : file[f][k] = "full"
  /\ \A p \in Handlers : Undecided(p) /\ pack(p) = k => owns[p] = {}

\* Every commit that was ever reachable from a ref is in a pack that stays.
Backed ==
  /\ \A r \in Refs : Reach(refs[r]) \subseteq advertised
  /\ advertised \subseteq Base \union UNION { Contents[k] : k \in { j \in Packs : Kept(j) } }

PInv == JInv /\ Exclusive /\ Renamed /\ IndexedPackComplete /\ Installs /\ Closed /\ Backed

\* No file, no request.
LEMMA InitPInv == Init => PInv
<1> SUFFICES ASSUME Init PROVE PInv
  OBVIOUS
<1>1. JInv
  BY InitJInv
<1>2. Exclusive /\ Installs /\ Closed
  BY DEF Init, Exclusive, Installs, InstallOK, Closed, Active
<1>3. Renamed /\ IndexedPackComplete
  BY DEF Init, Renamed, IndexedPackComplete, Files
<1>4. Backed
  BY DEF Init, Backed
<1> QED
  BY <1>1, <1>2, <1>3, <1>4 DEF PInv

(***************************************************************************)
(* Which steps touch what                                                  *)
(***************************************************************************)

\* Only Receive gives a handler a request or wakes it up.
LEMMA OnlyReceiveWakes ==
  ASSUME TypeOK, [Next]_vars
  PROVE  \/ \E p \in Handlers : Receive(p)
         \/ req' = req /\ \A q \in Handlers : Active(q)' => Active(q)
<1> DEFINE Goal == req' = req /\ \A q \in Handlers : Active(q)' => Active(q)
<1> USE InstallingFacts DEF TypeOK, Goto, Active
<1>1. ASSUME NEW p \in Handlers, ReadFails(p) \/ TooManyCommands(p) \/ IngestFails(p) \/ Cancel(p)
      PROVE  Goal
  BY <1>1 DEF ReadFails, TooManyCommands, IngestFails, Cancel, End
<1>2. ASSUME NEW p \in Handlers, Reject(p) \/ UpdateFails(p) \/ ReportFails(p) PROVE Goal
  BY <1>2 DEF Reject, UpdateFails, ReportFails, End
<1>3. ASSUME NEW p \in Handlers, PreliminaryRefuses(p) \/ PreliminaryAccepts(p) PROVE Goal
  BY <1>3 DEF PreliminaryRefuses, PreliminaryAccepts
<1>4. ASSUME NEW p \in Handlers, NEW f \in Files,
             \/ FileExists(p, f) \/ FileMissing(p, f)
             \/ MoveFile(p, f) \/ CopyBegins(p, f) \/ CopyEnds(p, f)
      PROVE  Goal
  BY <1>4 DEF FileExists, FileMissing, MoveFile, CopyBegins, CopyEnds, CheckAt, MoveAt, CopyAt, Files
<1>5. ASSUME NEW p \in Handlers, Inspect(p) \/ InspectFails(p) \/ Classify(p) PROVE Goal
  BY <1>5 DEF Inspect, InspectFails, Classify
<1>6. ASSUME NEW p \in Handlers, AuthorizeAccepts(p) \/ AuthorizeRefuses(p) PROVE Goal
  BY <1>6 DEF AuthorizeAccepts, AuthorizeRefuses
<1>7. ASSUME NEW p \in Handlers, UnlinkIdx(p) \/ UnlinkPack(p) PROVE Goal
  BY <1>7 DEF UnlinkIdx, UnlinkPack
<1>8. ASSUME NEW p \in Handlers, UpdateLands(p) \/ Report(p) \/ PostReceive(p) PROVE Goal
  BY <1>8 DEF UpdateLands, Report, PostReceive
<1>9. CASE Crash
  BY <1>9 DEF Crash
<1>10. CASE UNCHANGED vars
  BY <1>10 DEF vars
<1> HIDE InstallingFacts DEF TypeOK, Goto, Active
<1> QED
  BY <1>1, <1>2, <1>3, <1>4, <1>5, <1>6, <1>7, <1>8, <1>9, <1>10
  DEF Next, Talk, Decide, Fault

\* With rename(2) only MoveFile and the two Unlinks change a file.
LEMMA OnlyTheseTouchFiles ==
  ASSUME ~ CrossDevice, Renamed, [Next]_vars, file' # file
  PROVE  \E p \in Handlers :
           UnlinkIdx(p) \/ UnlinkPack(p) \/ \E f \in Files : MoveFile(p, f)
<1>1. \A p \in Handlers, f \in Files : ~ CopyBegins(p, f)
  BY DEF CopyBegins
<1>2. \A p \in Handlers, f \in Files : ~ CopyEnds(p, f)
  BY DEF CopyEnds, CopyAt, Files, Renamed
<1> QED
  BY <1>1, <1>2
  DEF Next, Talk, Decide, Fault, vars, repo, Crash, Receive, ReadFails, TooManyCommands,
      PreliminaryRefuses, PreliminaryAccepts, FileExists, FileMissing,
      IngestFails, Inspect, InspectFails, Cancel, Classify, AuthorizeAccepts,
      AuthorizeRefuses, Reject, UpdateLands, UpdateFails, Report, ReportFails, PostReceive

\* What MoveFile does to objects/pack.
LEMMA MoveFileFacts ==
  ASSUME TypeOK, NEW p \in Handlers, NEW f \in Files, MoveFile(p, f)
  PROVE  /\ Active(p) /\ pack(p) \in Packs
         /\ \A g \in Files, k \in Packs :
              file'[g][k] = IF g = f /\ k = pack(p) THEN "full" ELSE file[g][k]
<1>1. pc[p] \in {"movepack", "moveidx"}
  BY DEF MoveFile, MoveAt, Files
<1>2. Active(p) /\ pack(p) # NoPack
  BY <1>1, InstallingFacts DEF TypeOK, Active
<1>3. pack(p) \in Packs
  BY <1>1, <1>2, HasRequest, RequestFacts DEF pack
<1> QED
  BY <1>2, <1>3 DEF MoveFile, SetFile, TypeOK

\* What an Unlink does: it removes a file the push owns, or nothing.
LEMMA UnlinkFacts ==
  ASSUME TypeOK, NEW p \in Handlers, NEW f \in Files, pc[p] # "idle", Unlink(p, f)
  PROVE  /\ f \in owns[p] => pack(p) \in Packs
         /\ \A g \in Files, k \in Packs :
              file'[g][k] = IF f \in owns[p] /\ g = f /\ k = pack(p) THEN "absent" ELSE file[g][k]
<1>1. f \in owns[p] => pack(p) \in Packs
  BY HasRequest, RequestFacts DEF TypeOK, pack
<1> QED
  BY <1>1 DEF Unlink, TypeOK

(***************************************************************************)
(* Each part of the invariant is kept                                      *)
(***************************************************************************)

\* PackIsFree keeps the packs in flight distinct.
LEMMA ExclusiveStep ==
  ASSUME ~ SharedPacks, TypeOK, Exclusive, [Next]_vars
  PROVE  Exclusive'
<1>1. ASSUME NEW p \in Handlers, Receive(p) PROVE Exclusive'
  <2>1. PICK q \in Requests : PackIsFree(q) /\ req' = [req EXCEPT ![p] = q]
    BY <1>1 DEF Receive
  <2>2. q.pack = NoPack \/ \A s \in Handlers : Active(s) => pack(s) # q.pack
    BY <2>1 DEF PackIsFree
  <2>3. \A s \in Handlers \ {p} : (Active(s)' <=> Active(s)) /\ pack(s)' = pack(s)
    BY <1>1, <2>1 DEF Receive, Goto, Active, pack, TypeOK
  <2>4. pack(p)' = q.pack
    BY <2>1 DEF pack, TypeOK
  <2> QED
    BY <2>2, <2>3, <2>4 DEF Exclusive
<1>2. CASE req' = req /\ \A q \in Handlers : Active(q)' => Active(q)
  BY <1>2 DEF Exclusive, pack
<1> QED
  BY <1>1, <1>2, OnlyReceiveWakes

\* Without copies no file is ever partial.
LEMMA RenamedStep ==
  ASSUME ~ CrossDevice, TypeOK, Renamed, [Next]_vars
  PROVE  Renamed'
<1>1. \A f \in Files, k \in Packs : file'[f][k] # "partial"
  <2>1. CASE file' = file
    BY <2>1 DEF Renamed
  <2>2. ASSUME NEW p \in Handlers, NEW g \in Files, MoveFile(p, g)
        PROVE  \A f \in Files, k \in Packs : file'[f][k] # "partial"
    BY <2>2, MoveFileFacts DEF Renamed
  <2>3. ASSUME NEW p \in Handlers, UnlinkIdx(p) \/ UnlinkPack(p)
        PROVE  \A f \in Files, k \in Packs : file'[f][k] # "partial"
    <3>1. PICK g \in Files : Unlink(p, g)
      BY <2>3 DEF UnlinkIdx, UnlinkPack, Files
    <3>2. pc[p] # "idle"
      BY <2>3 DEF UnlinkIdx, UnlinkPack
    <3> QED
      BY <3>1, <3>2, UnlinkFacts DEF Renamed
  <2> QED
    BY <2>1, <2>2, <2>3, OnlyTheseTouchFiles
<1>2. \A p \in Handlers : pc'[p] \notin {"copypack", "copyidx"}
  <2> DEFINE Goal == \A p \in Handlers : pc'[p] \notin {"copypack", "copyidx"}
  <2> USE DEF TypeOK, Renamed, Goto
  <2>1. ASSUME NEW p \in Handlers, ReadFails(p) \/ TooManyCommands(p) \/ IngestFails(p) \/ Cancel(p)
        PROVE  Goal
    BY <2>1 DEF ReadFails, TooManyCommands, IngestFails, Cancel, End
  <2>2. ASSUME NEW p \in Handlers, Reject(p) \/ UpdateFails(p) \/ ReportFails(p) PROVE Goal
    BY <2>2 DEF Reject, UpdateFails, ReportFails, End
  <2>3. ASSUME NEW p \in Handlers, Receive(p) \/ PreliminaryRefuses(p) \/ PreliminaryAccepts(p)
        PROVE  Goal
    BY <2>3 DEF Receive, PreliminaryRefuses, PreliminaryAccepts
  <2>4. ASSUME NEW p \in Handlers, NEW f \in Files,
               FileExists(p, f) \/ FileMissing(p, f) \/ MoveFile(p, f)
        PROVE  Goal
    BY <2>4 DEF FileExists, FileMissing, MoveFile, MoveAt, AfterInstall, Files
  <2>5. ASSUME NEW p \in Handlers, NEW f \in Files, CopyBegins(p, f) \/ CopyEnds(p, f)
        PROVE  Goal
    BY <2>5 DEF CopyBegins, CopyEnds, CopyAt, Files
  <2>6. ASSUME NEW p \in Handlers, Inspect(p) \/ InspectFails(p) \/ Classify(p) PROVE Goal
    BY <2>6 DEF Inspect, InspectFails, Classify
  <2>7. ASSUME NEW p \in Handlers, AuthorizeAccepts(p) \/ AuthorizeRefuses(p) PROVE Goal
    BY <2>7 DEF AuthorizeAccepts, AuthorizeRefuses
  <2>8. ASSUME NEW p \in Handlers, UnlinkIdx(p) \/ UnlinkPack(p) PROVE Goal
    BY <2>8 DEF UnlinkIdx, UnlinkPack, AfterRollback
  <2>9. ASSUME NEW p \in Handlers, UpdateLands(p) \/ Report(p) \/ PostReceive(p) PROVE Goal
    BY <2>9 DEF UpdateLands, Report, PostReceive
  <2>10. CASE Crash
    BY <2>10 DEF Crash
  <2>11. CASE UNCHANGED vars
    BY <2>11 DEF vars
  <2> HIDE DEF TypeOK, Renamed, Goto
  <2> QED
    BY <2>1, <2>2, <2>3, <2>4, <2>5, <2>6, <2>7, <2>8, <2>9, <2>10, <2>11
    DEF Next, Talk, Decide, Fault
<1> QED
  BY <1>1, <1>2 DEF Renamed

\* .pack before .idx when installing, after it when removing.
LEMMA IndexedStep ==
  ASSUME ~ CrossDevice, PInv, [Next]_vars
  PROVE  IndexedPackComplete'
<1> USE DEF PInv, JInv
<1>1. CASE file' = file
  BY <1>1 DEF IndexedPackComplete
<1>2. ASSUME NEW p \in Handlers, NEW f \in Files, MoveFile(p, f) PROVE IndexedPackComplete'
  <2>1. Active(p) /\ pack(p) \in Packs /\ pack(p) # NoPack
    BY <1>2, MoveFileFacts, PacksAssumption
  <2>2. \A g \in Files, k \in Packs :
          file'[g][k] = IF g = f /\ k = pack(p) THEN "full" ELSE file[g][k]
    BY <1>2, MoveFileFacts
  <2>3. f = "idx" => file["pack"][pack(p)] = "full"
    BY <1>2, <2>1 DEF MoveFile, MoveAt, Files, Installs, InstallOK, InPlace
  <2> QED
    BY <2>1, <2>2, <2>3 DEF IndexedPackComplete, Files
<1>3. ASSUME NEW p \in Handlers, UnlinkIdx(p) PROVE IndexedPackComplete'
  <2>1. pc[p] = "unlinkidx" /\ Unlink(p, "idx")
    BY <1>3 DEF UnlinkIdx
  <2> QED
    BY <2>1, UnlinkFacts DEF IndexedPackComplete, Files
<1>4. ASSUME NEW p \in Handlers, UnlinkPack(p) PROVE IndexedPackComplete'
  <2>1. pc[p] = "unlinkpack" /\ Unlink(p, "pack")
    BY <1>4 DEF UnlinkPack
  <2>2. "pack" \in owns[p] => file["idx"][pack(p)] = "absent"
    BY <2>1 DEF Installs, InstallOK, Ownership, Active, TypeOK
  <2> QED
    BY <2>1, <2>2, UnlinkFacts DEF IndexedPackComplete, Files
<1> QED
  BY <1>1, <1>2, <1>3, <1>4, OnlyTheseTouchFiles

\* A push's files are not disturbed by what another push does to its own.
LEMMA OthersUndisturbed ==
  ASSUME TypeOK, Exclusive, NEW p \in Handlers, NEW q \in Handlers, q # p, InstallOK(q),
         pc'[q] = pc[q], req'[q] = req[q], owns'[q] = owns[q], verdict'[q] = verdict[q],
         Active(p) \/ file' = file,
         \A f \in Files, k \in Packs : k # pack(p) => file'[f][k] = file[f][k]
  PROVE  InstallOK(q)'
<1> SUFFICES ASSUME Active(q)', pack(q)' # NoPack PROVE InstallOK(q)'
  BY DEF InstallOK
<1>1. Active(q) /\ pack(q) # NoPack /\ pack(q)' = pack(q)
  BY DEF Active, pack
<1>2. pack(q) \in Packs
  BY <1>1, HasRequest, RequestFacts DEF Active, pack
<1>3. \A f \in Files : file'[f][pack(q)] = file[f][pack(q)]
  <2>1. CASE Active(p)
    BY <2>1, <1>1, <1>2 DEF Exclusive
  <2>2. CASE file' = file
    BY <2>2
  <2> QED
    BY <2>1, <2>2
<1>4. file'["pack"][pack(q)] = file["pack"][pack(q)] /\ file'["idx"][pack(q)] = file["idx"][pack(q)]
  BY <1>3 DEF Files
<1>5. owns[q] \subseteq Files
  BY DEF TypeOK
<1> QED
  BY <1>1, <1>3, <1>4, <1>5 DEF InstallOK, PlaceEmpty, InPlace, Ownership

\* A step of p needs to be looked at for p only.
LEMMA OwnPushSuffices ==
  ASSUME TypeOK, Exclusive, Installs, NEW p \in Handlers, InstallOK(p)',
         \A q \in Handlers \ {p} :
           pc'[q] = pc[q] /\ req'[q] = req[q] /\ owns'[q] = owns[q] /\ verdict'[q] = verdict[q],
         Active(p) \/ file' = file,
         \A f \in Files, k \in Packs : k # pack(p) => file'[f][k] = file[f][k]
  PROVE  Installs'
<1> SUFFICES ASSUME NEW q \in Handlers PROVE InstallOK(q)'
  BY DEF Installs
<1>1. CASE q = p
  BY <1>1
<1>2. CASE q # p
  BY <1>2, OthersUndisturbed DEF Installs
<1> QED
  BY <1>1, <1>2

\* A handler that ends has no more files to account for.
LEMMA EndInstalls ==
  ASSUME TypeOK, Exclusive, Installs, NEW p \in Handlers, NEW a, End(p, a),
         UNCHANGED <<repo, req, verdict, landed, hook>>
  PROVE  Installs'
<1>1. InstallOK(p)'
  BY DEF End, Goto, TypeOK, InstallOK, Active
<1>2. \A q \in Handlers \ {p} : pc'[q] = pc[q] /\ owns'[q] = owns[q]
  BY DEF End, Goto, TypeOK
<1> QED
  BY <1>1, <1>2, OwnPushSuffices DEF repo

\* Every step keeps what the handlers rely on in objects/pack.
LEMMA InstallsStep ==
  ASSUME ~ CrossDevice, PInv, [Next]_vars
  PROVE  Installs'
<1> USE DEF PInv, JInv
<1>1. ASSUME NEW p \in Handlers, Receive(p) PROVE Installs'
  <2>1. pc'[p] = "preliminary" /\ owns[p] = {}
    BY <1>1 DEF Receive, Goto, TypeOK, Active
  <2>2. InstallOK(p)'
    BY <1>1, <2>1 DEF Receive, InstallOK, PlaceEmpty, InPlace, Ownership
  <2>3. \A q \in Handlers \ {p} : pc'[q] = pc[q] /\ req'[q] = req[q] /\ verdict'[q] = verdict[q]
    BY <1>1 DEF Receive, Goto, TypeOK
  <2> QED
    BY <1>1, <2>2, <2>3, OwnPushSuffices DEF Receive, repo
<1>2. ASSUME NEW p \in Handlers, ReadFails(p) \/ TooManyCommands(p) \/ IngestFails(p) \/ Cancel(p)
      PROVE  Installs'
  BY <1>2, EndInstalls DEF ReadFails, TooManyCommands, IngestFails, Cancel
<1>3. ASSUME NEW p \in Handlers, Reject(p) \/ UpdateFails(p) \/ ReportFails(p) PROVE Installs'
  BY <1>3, EndInstalls DEF Reject, UpdateFails, ReportFails
<1>4. ASSUME NEW p \in Handlers, NEW l, Goto(p, l), l \in Labels,
             UNCHANGED <<file, req, owns>>,
             \A q \in Handlers \ {p} : verdict'[q] = verdict[q],
             Active(p) /\ pack(p) # NoPack => InstallOK(p)',
             Active(p)
      PROVE  Installs'
  <2>1. InstallOK(p)'
    BY <1>4 DEF InstallOK, pack
  <2>2. \A q \in Handlers \ {p} : pc'[q] = pc[q]
    BY <1>4 DEF Goto, TypeOK
  <2> QED
    BY <1>4, <2>1, <2>2, OwnPushSuffices
<1>5. ASSUME NEW p \in Handlers, PreliminaryRefuses(p) \/ PreliminaryAccepts(p) PROVE Installs'
  <2>1. PICK l \in Labels : Goto(p, l) /\ l \in {"reject", "classify", "checkpack"}
                            /\ (l = "classify" => pack(p) = NoPack)
    BY <1>5 DEF PreliminaryRefuses, PreliminaryAccepts, Labels
  <2>2. pc[p] = "preliminary" /\ UNCHANGED <<file, req, owns, verdict>>
    BY <1>5 DEF PreliminaryRefuses, PreliminaryAccepts, repo
  <2>3. ASSUME pack(p) # NoPack PROVE InstallOK(p)'
    <3>1. owns[p] = {} /\ pc'[p] = l
      BY <2>1, <2>2, <2>3 DEF Installs, InstallOK, Ownership, Active, Goto, TypeOK
    <3> QED
      BY <2>1, <2>2, <2>3, <3>1 DEF InstallOK, PlaceEmpty, InPlace, Ownership
  <2> QED
    BY <1>4, <2>1, <2>2, <2>3 DEF Active
<1>6. ASSUME NEW p \in Handlers, NEW f \in Files, FileExists(p, f) \/ FileMissing(p, f)
      PROVE  Installs'
  <2>1. pc[p] = CheckAt[f] /\ UNCHANGED <<file, req, owns, verdict>>
    BY <1>6 DEF FileExists, FileMissing, repo
  <2>2. Active(p) /\ pack(p) # NoPack /\ pack(p) \in Packs /\ InstallOK(p)
    BY <2>1, InstallingFacts, HasRequest, RequestFacts
    DEF CheckAt, Files, Active, TypeOK, Installs, pack
  <2>3. PICK l \in Labels : Goto(p, l) /\ l = IF file[f][pack(p)] = "absent" THEN MoveAt[f] ELSE AfterInstall[f]
    BY <1>6 DEF FileExists, FileMissing, MoveAt, AfterInstall, Files, Labels
  <2>4. pc'[p] = l
    BY <2>3 DEF Goto, TypeOK
  <2>5. file[f][pack(p)] \in {"absent", "full"}
    BY <2>2 DEF TypeOK, Renamed
  <2>6. InstallOK(p)'
    BY <2>1, <2>2, <2>3, <2>4, <2>5
    DEF InstallOK, PlaceEmpty, InPlace, Ownership, Active, CheckAt, MoveAt, AfterInstall, Files, pack
  <2> QED
    BY <1>4, <2>1, <2>2, <2>3, <2>6
<1>7. ASSUME NEW p \in Handlers, NEW f \in Files, MoveFile(p, f) PROVE Installs'
  <2>1. /\ Active(p) /\ pack(p) \in Packs /\ pack(p) # NoPack
        /\ \A g \in Files, k \in Packs :
             file'[g][k] = IF g = f /\ k = pack(p) THEN "full" ELSE file[g][k]
    BY <1>7, MoveFileFacts, PacksAssumption
  <2>2. InstallOK(p)
    BY DEF Installs
  <2>3. pc'[p] = AfterInstall[f] /\ owns'[p] = owns[p] \union {f}
    BY <1>7 DEF MoveFile, Goto, TypeOK
  <2>4. InstallOK(p)'
    BY <1>7, <2>1, <2>2, <2>3
    DEF MoveFile, InstallOK, PlaceEmpty, InPlace, Ownership, Active, MoveAt, AfterInstall, Files,
        pack, IndexedPackComplete
  <2>5. \A q \in Handlers \ {p} : pc'[q] = pc[q] /\ owns'[q] = owns[q]
    BY <1>7 DEF MoveFile, Goto, TypeOK
  <2> QED
    BY <1>7, <2>1, <2>4, <2>5, OwnPushSuffices DEF MoveFile
<1>8. ASSUME NEW p \in Handlers, \/ Inspect(p) \/ InspectFails(p) \/ Classify(p)
                                 \/ AuthorizeAccepts(p) \/ AuthorizeRefuses(p)
      PROVE  Installs'
  <2>1. /\ pc[p] \in {"inspect", "classify", "authorize"} /\ UNCHANGED <<file, req, owns>>
        /\ \A q \in Handlers \ {p} : verdict'[q] = verdict[q]
    BY <1>8 DEF Inspect, InspectFails, Classify, AuthorizeAccepts, AuthorizeRefuses, repo, TypeOK
  <2>2. PICK l \in Labels : Goto(p, l) /\ l \in {"classify", "authorize", "update", "unlinkidx"}
    BY <1>8 DEF Inspect, InspectFails, Classify, AuthorizeAccepts, AuthorizeRefuses, Labels
  <2>3. pc'[p] = l
    BY <2>2 DEF Goto, TypeOK
  <2>4. ASSUME pack(p) # NoPack PROVE InstallOK(p)'
    BY <2>1, <2>2, <2>3, <2>4 DEF Installs, InstallOK, PlaceEmpty, InPlace, Ownership, Active, pack
  <2> QED
    BY <1>4, <2>1, <2>2, <2>4 DEF Active
<1>9. ASSUME NEW p \in Handlers, UnlinkIdx(p) PROVE Installs'
  <2>1. pc[p] = "unlinkidx" /\ Unlink(p, "idx") /\ pc'[p] = "unlinkpack" /\ Active(p)
    BY <1>9 DEF UnlinkIdx, Goto, TypeOK, Active
  <2>2. \A g \in Files, k \in Packs :
          file'[g][k] = IF "idx" \in owns[p] /\ g = "idx" /\ k = pack(p) THEN "absent" ELSE file[g][k]
    BY <2>1, UnlinkFacts DEF Files
  <2>3. InstallOK(p)'
    <3>1. SUFFICES ASSUME pack(p) # NoPack PROVE InstallOK(p)'
      BY <1>9 DEF InstallOK, pack, UnlinkIdx
    <3>2. pack(p) \in Packs /\ InstallOK(p)
      BY <3>1, <2>1, HasRequest, RequestFacts DEF pack, Installs
    <3> QED
      BY <1>9, <2>1, <2>2, <3>1, <3>2
      DEF InstallOK, PlaceEmpty, InPlace, Ownership, UnlinkIdx, pack, Files
  <2>4. \A q \in Handlers \ {p} : pc'[q] = pc[q]
    BY <1>9 DEF UnlinkIdx, Goto, TypeOK
  <2> QED
    BY <1>9, <2>1, <2>2, <2>3, <2>4, OwnPushSuffices DEF UnlinkIdx
<1>10. ASSUME NEW p \in Handlers, UnlinkPack(p) PROVE Installs'
  <2>1. pc[p] = "unlinkpack" /\ Unlink(p, "pack") /\ Active(p)
        /\ pc'[p] = AfterRollback(p) /\ UNCHANGED <<req, owns, verdict>>
    BY <1>10 DEF UnlinkPack, Goto, TypeOK, Active
  <2>2. \A g \in Files, k \in Packs :
          file'[g][k] = IF "pack" \in owns[p] /\ g = "pack" /\ k = pack(p) THEN "absent" ELSE file[g][k]
    BY <2>1, UnlinkFacts DEF Files
  <2>3. InstallOK(p)'
    <3>1. SUFFICES ASSUME pack(p) # NoPack PROVE InstallOK(p)'
      BY <2>1 DEF InstallOK, pack
    <3>2. pack(p) \in Packs /\ InstallOK(p) /\ owns[p] \subseteq {"pack", "idx"}
      BY <3>1, <2>1, HasRequest, RequestFacts DEF pack, Installs, TypeOK, Files
    <3> QED
      BY <2>1, <2>2, <3>1, <3>2
      DEF InstallOK, PlaceEmpty, InPlace, Ownership, AfterRollback, pack, Files
  <2>4. \A q \in Handlers \ {p} : pc'[q] = pc[q]
    BY <1>10 DEF UnlinkPack, Goto, TypeOK
  <2> QED
    BY <2>1, <2>2, <2>3, <2>4, OwnPushSuffices
<1>11. ASSUME NEW p \in Handlers, UpdateLands(p) \/ Report(p) PROVE Installs'
  <2>1. PICK l \in {"report", "hook"} : Goto(p, l)
    BY <1>11 DEF UpdateLands, Report
  <2>2. Active(p) /\ UNCHANGED <<file, req, owns, verdict>>
    BY <1>11 DEF UpdateLands, Report, repo, Active
  <2>3. InstallOK(p)'
    BY <2>1 DEF Goto, TypeOK, InstallOK, PlaceEmpty, InPlace, Ownership
  <2> QED
    BY <1>4, <2>1, <2>2, <2>3 DEF Labels
<1>12. ASSUME NEW p \in Handlers, PostReceive(p) PROVE Installs'
  <2>1. InstallOK(p)'
    BY <1>12 DEF PostReceive, Goto, TypeOK, InstallOK, Active
  <2>2. \A q \in Handlers \ {p} : pc'[q] = pc[q] /\ owns'[q] = owns[q]
    BY <1>12 DEF PostReceive, Goto, TypeOK
  <2> QED
    BY <1>12, <2>1, <2>2, OwnPushSuffices DEF PostReceive, repo
<1>13. CASE Crash
  BY <1>13 DEF Crash, Installs, InstallOK, Active
<1>14. CASE UNCHANGED vars
  BY <1>14 DEF vars, Installs, InstallOK, PlaceEmpty, InPlace, Ownership, Active, pack
<1>15. \A p \in Handlers, f \in Files : ~ CopyBegins(p, f) /\ ~ CopyEnds(p, f)
  BY DEF CopyBegins, CopyEnds, CopyAt, Files, Renamed
<1> HIDE DEF PInv, JInv
<1> QED
  BY <1>1, <1>2, <1>3, <1>5, <1>6, <1>7, <1>8, <1>9, <1>10, <1>11, <1>12, <1>13, <1>14, <1>15
  DEF Next, Talk, Decide, Fault

\* Commits stay advertised, so what a client left out of its pack stays there.
LEMMA ClosedStep ==
  ASSUME TypeOK, Closed, [Next]_vars
  PROVE  Closed'
<1>1. advertised \subseteq advertised'
  <2>1. ASSUME NEW p \in Handlers, UpdateLands(p) PROVE advertised \subseteq advertised'
    BY <2>1 DEF UpdateLands
  <2> QED
    BY <2>1, OnlyLandingMovesRefs
<1>2. ASSUME NEW p \in Handlers, Receive(p) PROVE Closed'
  <2>1. PICK q \in Requests : ClientCompletes(q) /\ req' = [req EXCEPT ![p] = q]
    BY <1>2 DEF Receive
  <2>2. req'[p] = q /\ \A s \in Handlers \ {p} : req'[s] = req[s] /\ pc'[s] = pc[s]
    BY <1>2, <2>1 DEF Receive, Goto, TypeOK
  <2>3. advertised' = advertised
    BY <1>2 DEF Receive, repo
  <2> QED
    BY <2>1, <2>2, <2>3 DEF Closed, ClientCompletes, batch, pack, Active
<1>3. CASE req' = req /\ \A q \in Handlers : Active(q)' => Active(q)
  BY <1>1, <1>3 DEF Closed, batch, pack
<1> QED
  BY <1>2, <1>3, OnlyReceiveWakes

\* A push comes to own a file only by moving it, and becomes one that may be
\* rolled back only from the preliminary check.
LEMMA OwnsStep ==
  ASSUME TypeOK, Renamed, ~ CrossDevice, [Next]_vars, NEW q \in Handlers, Undecided(q)'
  PROVE  \/ \E f \in Files : MoveFile(q, f)
         \/ /\ owns'[q] = owns[q] /\ req'[q] = req[q]
            /\ Undecided(q) \/ pc[q] = "preliminary"
<1> DEFINE Goal == \/ \E f \in Files : MoveFile(q, f)
                   \/ /\ owns'[q] = owns[q] /\ req'[q] = req[q]
                      /\ Undecided(q) \/ pc[q] = "preliminary"
<1> USE InstallingFacts DEF TypeOK, Goto, Undecided
<1>1. ASSUME NEW p \in Handlers, Receive(p) PROVE Goal
  BY <1>1 DEF Receive
<1>2. ASSUME NEW p \in Handlers, ReadFails(p) \/ TooManyCommands(p) \/ IngestFails(p) \/ Cancel(p)
      PROVE  Goal
  BY <1>2 DEF ReadFails, TooManyCommands, IngestFails, Cancel, End
<1>3. ASSUME NEW p \in Handlers, Reject(p) \/ UpdateFails(p) \/ ReportFails(p) PROVE Goal
  BY <1>3 DEF Reject, UpdateFails, ReportFails, End
<1>4. ASSUME NEW p \in Handlers, PreliminaryRefuses(p) \/ PreliminaryAccepts(p) PROVE Goal
  BY <1>4 DEF PreliminaryRefuses, PreliminaryAccepts
<1>5. ASSUME NEW p \in Handlers, NEW f \in Files, FileExists(p, f) \/ FileMissing(p, f) PROVE Goal
  BY <1>5 DEF FileExists, FileMissing, CheckAt, Files
<1>6. ASSUME NEW p \in Handlers, NEW f \in Files, MoveFile(p, f) PROVE Goal
  <2>1. CASE q = p
    BY <1>6, <2>1
  <2>2. CASE q # p
    BY <1>6, <2>2 DEF MoveFile
  <2> QED
    BY <2>1, <2>2
<1>7. \A p \in Handlers, f \in Files : ~ CopyBegins(p, f) /\ ~ CopyEnds(p, f)
  BY DEF CopyBegins, CopyEnds, CopyAt, Files, Renamed
<1>8. ASSUME NEW p \in Handlers, Inspect(p) \/ InspectFails(p) \/ Classify(p) PROVE Goal
  BY <1>8 DEF Inspect, InspectFails, Classify
<1>9. ASSUME NEW p \in Handlers, AuthorizeAccepts(p) \/ AuthorizeRefuses(p) PROVE Goal
  BY <1>9 DEF AuthorizeAccepts, AuthorizeRefuses
<1>10. ASSUME NEW p \in Handlers, UnlinkIdx(p) \/ UnlinkPack(p) PROVE Goal
  BY <1>10 DEF UnlinkIdx, UnlinkPack
<1>11. ASSUME NEW p \in Handlers, UpdateLands(p) \/ Report(p) \/ PostReceive(p) PROVE Goal
  BY <1>11 DEF UpdateLands, Report, PostReceive
<1>12. CASE Crash
  BY <1>12 DEF Crash, Active
<1>13. CASE UNCHANGED vars
  BY <1>13 DEF vars
<1> HIDE InstallingFacts DEF TypeOK, Goto, Undecided
<1> QED
  BY <1>1, <1>2, <1>3, <1>4, <1>5, <1>6, <1>7, <1>8, <1>9, <1>10, <1>11, <1>12, <1>13
  DEF Next, Talk, Decide, Fault

\* A pack that is in place with nobody to roll it back stays so.
LEMMA KeptStays ==
  ASSUME ~ CrossDevice, PInv, [Next]_vars, NEW k \in Packs, Kept(k)
  PROVE  Kept(k)'
<1> USE DEF PInv, JInv
<1>1. \A f \in Files : file'[f][k] = "full"
  <2>1. CASE file' = file
    BY <2>1 DEF Kept
  <2>2. ASSUME NEW p \in Handlers, NEW f \in Files, MoveFile(p, f)
        PROVE  \A g \in Files : file'[g][k] = "full"
    BY <2>2, MoveFileFacts DEF Kept
  <2>3. ASSUME NEW p \in Handlers, NEW f \in Files, Unlink(p, f), Undecided(p)
        PROVE  \A g \in Files : file'[g][k] = "full"
    <3>1. pc[p] # "idle"
      BY <2>3, InstallingFacts DEF Undecided
    <3>2. ~ (f \in owns[p] /\ pack(p) = k)
      BY <2>3 DEF Kept
    <3> QED
      BY <2>3, <3>1, <3>2, UnlinkFacts DEF Kept
  <2>4. \A p \in Handlers :
          UnlinkIdx(p) \/ UnlinkPack(p) => Undecided(p) /\ \E f \in Files : Unlink(p, f)
    BY DEF UnlinkIdx, UnlinkPack, Undecided, Files
  <2> QED
    BY <2>1, <2>2, <2>3, <2>4, OnlyTheseTouchFiles
<1>2. ASSUME NEW q \in Handlers, Undecided(q)', pack(q)' = k PROVE owns'[q] = {}
  <2>1. ASSUME NEW f \in Files, MoveFile(q, f) PROVE FALSE
    <3>1. Active(q) /\ pack(q) \in Packs /\ pack(q) # NoPack /\ pack(q) = k
      BY <1>2, <2>1, MoveFileFacts, PacksAssumption DEF MoveFile, pack
    <3>2. file[f][k] = "absent"
      BY <2>1, <3>1 DEF MoveFile, MoveAt, Files, Installs, InstallOK, PlaceEmpty
    <3> QED
      BY <3>2 DEF Kept
  <2>2. owns'[q] = owns[q] /\ pack(q) = k /\ (Undecided(q) \/ pc[q] = "preliminary")
    BY <1>2, <2>1, OwnsStep DEF pack
  <2>3. pc[q] = "preliminary" => owns[q] = {}
    BY <2>2, PacksAssumption DEF Installs, InstallOK, Ownership, Active
  <2> QED
    BY <2>2, <2>3 DEF Kept
<1> QED
  BY <1>1, <1>2 DEF Kept

\* Refs move only to commits whose packs are, from then on, kept.
LEMMA BackedStep ==
  ASSUME ~ CrossDevice, PInv, [Next]_vars
  PROVE  Backed'
<1> USE DEF PInv, JInv
<1> DEFINE KeptCommits == Base \union UNION { Contents[k] : k \in { j \in Packs : Kept(j) } }
<1>1. KeptCommits \subseteq KeptCommits'
  BY KeptStays
<1>2. CASE refs' = refs /\ advertised' = advertised
  BY <1>1, <1>2 DEF Backed
<1>3. ASSUME NEW p \in Handlers, UpdateLands(p) PROVE Backed'
  <2>1. req[p] \in Requests /\ Active(p) /\ pc[p] = "update"
    BY <1>3, HasRequest DEF UpdateLands, Active
  <2>2. ASSUME NEW r \in DOMAIN batch(p) PROVE Reach(batch(p)[r].new) \subseteq KeptCommits'
    <3>1. Reach(batch(p)[r].new) \subseteq PackObjects(pack(p)) \union advertised
      BY <2>1 DEF Closed
    <3>2. verdict[p] = "ok"
      BY <2>1, <2>2 DEF Consent
    <3>3. ASSUME NEW k \in Packs, pack(p) = k PROVE Kept(k)'
      <4>1. k # NoPack
        BY PacksAssumption
      <4>2. \A f \in Files : file'[f][k] = "full"
        BY <1>3, <2>1, <3>2, <3>3, <4>1 DEF UpdateLands, Installs, InstallOK, InPlace
      <4>3. pc'[p] = "report" /\ req' = req
        BY <1>3 DEF UpdateLands, Goto, TypeOK
      <4>4. \A q \in Handlers \ {p} : Undecided(q)' => pack(q) # k
        <5>1. \A q \in Handlers \ {p} : pc'[q] = pc[q]
          BY <1>3 DEF UpdateLands, Goto, TypeOK
        <5> QED
          BY <5>1, <2>1, <3>3, <4>1, InstallingFacts DEF Exclusive, Undecided, Active
      <4>5. ~ Undecided(p)'
        BY <4>3, InstallingFacts DEF Undecided
      <4> QED
        BY <4>2, <4>3, <4>4, <4>5 DEF Kept, pack
    <3>4. PackObjects(pack(p)) \subseteq KeptCommits'
      <4>1. pack(p) \in Packs \union {NoPack}
        BY <2>1, RequestFacts DEF pack
      <4> QED
        BY <3>3, <4>1 DEF PackObjects
    <3>5. advertised \subseteq KeptCommits'
      BY <1>1 DEF Backed
    <3> QED
      BY <3>1, <3>4, <3>5
  <2>3. advertised' \subseteq KeptCommits'
    <3>1. advertised \subseteq KeptCommits'
      BY <1>1 DEF Backed
    <3> QED
      BY <1>3, <2>2, <3>1 DEF UpdateLands
  <2>4. ASSUME NEW r \in Refs PROVE Reach(refs'[r]) \subseteq advertised'
    <3>1. CASE r \in DOMAIN batch(p)
      <4>1. refs'[r] = batch(p)[r].new
        BY <1>3, <3>1 DEF UpdateLands, Apply
      <4> QED
        BY <1>3, <3>1, <4>1 DEF UpdateLands
    <3>2. CASE r \notin DOMAIN batch(p)
      <4>1. refs'[r] = refs[r]
        BY <1>3, <3>2 DEF UpdateLands, Apply
      <4>2. advertised \subseteq advertised'
        BY <1>3 DEF UpdateLands
      <4> QED
        BY <4>1, <4>2 DEF Backed
    <3> QED
      BY <3>1, <3>2
  <2>5. \A r \in Refs : Reach(refs[r])' = Reach(refs'[r])
    BY DEF Reach
  <2> QED
    BY <2>3, <2>4, <2>5 DEF Backed
<1> QED
  BY <1>2, <1>3, OnlyLandingMovesRefs

(***************************************************************************)
(* The theorems                                                            *)
(***************************************************************************)

\* The invariant of the object store.
THEOREM StorageInvariance ==
  ASSUME ~ SharedPacks, ~ CrossDevice
  PROVE  Spec => []PInv
<1>1. PInv /\ [Next]_vars => PInv'
  <2> SUFFICES ASSUME PInv, [Next]_vars PROVE PInv'
    OBVIOUS
  <2>1. JInv'
    BY TypeStep, ProgressStep, ConsentStep DEF PInv, JInv
  <2>2. Exclusive'
    BY ExclusiveStep DEF PInv, JInv
  <2>3. Renamed' /\ Closed'
    BY RenamedStep, ClosedStep DEF PInv, JInv
  <2>4. IndexedPackComplete' /\ Installs' /\ Backed'
    BY IndexedStep, InstallsStep, BackedStep
  <2> QED
    BY <2>1, <2>2, <2>3, <2>4 DEF PInv
<1> QED
  BY InitPInv, <1>1, PTL DEF Spec

\* Whoever finds an index finds a complete pack.
THEOREM IndexNeverWithoutPack ==
  ASSUME ~ SharedPacks, ~ CrossDevice
  PROVE  Spec => []IndexedPackComplete
BY StorageInvariance, PTL DEF PInv

\* No ref ever points at history that cannot be read, through any crash,
\* refusal, cancelled request or retry.
THEOREM RefsNeverDangle ==
  ASSUME ~ SharedPacks, ~ CrossDevice
  PROVE  Spec => []NoDanglingRefs
<1>1. PInv => NoDanglingRefs
  <2> SUFFICES ASSUME PInv, NEW r \in Refs PROVE Reach(refs[r]) \subseteq Readable
    BY DEF NoDanglingRefs
  <2>1. \A k \in Packs : Kept(k) => \A f \in Files : file[f][k] = "full"
    BY DEF Kept
  <2>2. advertised \subseteq Readable
    BY <2>1 DEF PInv, Backed, Readable
  <2> QED
    BY <2>2 DEF PInv, Backed
<1> QED
  BY <1>1, StorageInvariance, PTL

\* What a rollback has removed is gone, and a push refused before it installed
\* anything owns nothing.
Undone(p) ==
  Active(p) /\ pack(p) # NoPack =>
    /\ pc[p] = "preliminary" => owns[p] = {}
    /\ pc[p] = "unlinkpack" => ("idx" \in owns[p] => file["idx"][pack(p)] = "absent")
    /\ pc[p] = "reject" => \A f \in owns[p] : file[f][pack(p)] = "absent"

\* A step of handler p leaves the other handlers and their packs' files alone.
OwnOnly(p) ==
  /\ \A q \in Handlers \ {p} : pc'[q] = pc[q] /\ req'[q] = req[q] /\ owns'[q] = owns[q]
  /\ Active(p) \/ file' = file
  /\ \A f \in Files, k \in Packs : k # pack(p) => file'[f][k] = file[f][k]

\* Every step of a handler is of this kind and leaves its own rollback right,
\* whether files are renamed or copied into place.
LEMMA OwnRollback ==
  ASSUME TypeOK, NEW p \in Handlers, Undone(p), Talk(p) \/ Decide(p) \/ Fault(p)
  PROVE  OwnOnly(p) /\ Undone(p)'
<1> USE DEF OwnOnly, Undone, Goto
<1>1. CASE Receive(p)
  <2>1. owns[p] = {} /\ owns' = owns /\ file' = file
    BY <1>1 DEF Receive, repo, TypeOK, Active
  <2>2. \A q \in Handlers \ {p} : pc'[q] = pc[q] /\ req'[q] = req[q]
    BY <1>1 DEF Receive, TypeOK
  <2> QED
    BY <2>1, <2>2, <1>1 DEF Receive, TypeOK
<1>2. ASSUME NEW a, End(p, a), UNCHANGED <<repo, req>> PROVE OwnOnly(p) /\ Undone(p)'
  BY <1>2 DEF End, repo, TypeOK, Active
<1>3. CASE ReadFails(p) \/ TooManyCommands(p) \/ IngestFails(p) \/ Cancel(p)
  BY <1>2, <1>3 DEF ReadFails, TooManyCommands, IngestFails, Cancel
<1>4. CASE Reject(p) \/ UpdateFails(p) \/ ReportFails(p)
  BY <1>2, <1>4 DEF Reject, UpdateFails, ReportFails
<1>5. CASE PreliminaryRefuses(p) \/ PreliminaryAccepts(p)
  BY <1>5 DEF PreliminaryRefuses, PreliminaryAccepts, repo, TypeOK, Active, pack
<1>6. ASSUME NEW f \in Files, FileExists(p, f) \/ FileMissing(p, f) PROVE OwnOnly(p) /\ Undone(p)'
  BY <1>6 DEF FileExists, FileMissing, AfterInstall, MoveAt, Files, repo, TypeOK
<1>7. ASSUME NEW f \in Files, NEW c \in {"partial", "full"}, SetFile(f, pack(p), c), req' = req,
             pc[p] \in Installing,
             NEW l \in {"copypack", "copyidx", "checkidx", "inspect"}, Goto(p, l),
             \A q \in Handlers \ {p} : owns'[q] = owns[q]
      PROVE  OwnOnly(p) /\ Undone(p)'
  <2>1. Active(p)
    BY <1>7, InstallingFacts DEF Active
  <2>2. pack(p) \in Packs
    BY <1>7, InstallingFacts, HasRequest, RequestFacts DEF pack, TypeOK
  <2>3. \A g \in Files, k \in Packs : k # pack(p) => file'[g][k] = file[g][k]
    BY <1>7, <2>2 DEF SetFile, TypeOK
  <2>4. pc'[p] = l /\ \A q \in Handlers \ {p} : pc'[q] = pc[q]
    BY <1>7 DEF TypeOK
  <2> QED
    BY <1>7, <2>1, <2>3, <2>4
<1>8. ASSUME NEW f \in Files, MoveFile(p, f) \/ CopyBegins(p, f) \/ CopyEnds(p, f)
      PROVE  OwnOnly(p) /\ Undone(p)'
  <2>1. pc[p] \in Installing
    BY <1>8 DEF MoveFile, CopyBegins, CopyEnds, Installing
  <2>2. CopyAt[f] \in {"copypack", "copyidx"} /\ AfterInstall[f] \in {"checkidx", "inspect"}
    BY DEF CopyAt, AfterInstall, Files
  <2>3. \A q \in Handlers \ {p} : owns'[q] = owns[q]
    BY <1>8 DEF MoveFile, CopyBegins, CopyEnds, TypeOK
  <2> QED
    BY <1>7, <1>8, <2>1, <2>2, <2>3 DEF MoveFile, CopyBegins, CopyEnds
<1>9. CASE Inspect(p) \/ InspectFails(p) \/ Classify(p) \/ AuthorizeAccepts(p) \/ AuthorizeRefuses(p)
  BY <1>9 DEF Inspect, InspectFails, Classify, AuthorizeAccepts, AuthorizeRefuses, repo, TypeOK
<1>10. CASE UpdateLands(p) \/ Report(p) \/ PostReceive(p)
  BY <1>10 DEF UpdateLands, Report, PostReceive, repo, TypeOK
<1>11. CASE UnlinkIdx(p)
  <2>1. /\ pc[p] = "unlinkidx" /\ Unlink(p, "idx") /\ req' = req /\ owns' = owns /\ pc'[p] = "unlinkpack"
        /\ \A q \in Handlers \ {p} : pc'[q] = pc[q]
    BY <1>11 DEF UnlinkIdx, TypeOK
  <2>2. \A g \in Files, k \in Packs :
          file'[g][k] = IF "idx" \in owns[p] /\ g = "idx" /\ k = pack(p) THEN "absent" ELSE file[g][k]
    BY <2>1, UnlinkFacts DEF Files
  <2>3. "idx" \in owns[p] => pack(p) \in Packs
    BY <2>1, UnlinkFacts DEF Files
  <2>4. pack(p)' = pack(p) /\ Active(p)
    BY <2>1 DEF pack, Active
  <2> QED
    BY <2>1, <2>2, <2>3, <2>4 DEF Files
<1>12. CASE UnlinkPack(p)
  <2>1. /\ pc[p] = "unlinkpack" /\ Unlink(p, "pack") /\ req' = req /\ owns' = owns
        /\ pc'[p] \in {"update", "reject"}
        /\ \A q \in Handlers \ {p} : pc'[q] = pc[q]
    BY <1>12 DEF UnlinkPack, AfterRollback, TypeOK
  <2>2. \A g \in Files, k \in Packs :
          file'[g][k] = IF "pack" \in owns[p] /\ g = "pack" /\ k = pack(p) THEN "absent" ELSE file[g][k]
    BY <2>1, UnlinkFacts DEF Files
  <2>3. pack(p)' = pack(p) /\ Active(p)
    BY <2>1 DEF pack, Active
  <2>4. owns[p] \subseteq Files /\ (owns[p] # {} => pack(p) \in Packs /\ pack(p) # NoPack)
    BY <2>1, HasRequest, RequestFacts DEF TypeOK, pack
  <2>5. "idx" \in owns[p] => file["idx"][pack(p)] = "absent"
    BY <2>1, <2>3, <2>4
  <2>6. \A f \in owns[p] : file'[f][pack(p)] = "absent"
    BY <2>2, <2>4, <2>5 DEF Files
  <2> QED
    BY <2>1, <2>2, <2>3, <2>6
<1> QED
  BY <1>1, <1>3, <1>4, <1>5, <1>6, <1>8, <1>9, <1>10, <1>11, <1>12 DEF Talk, Decide, Fault

\* When no two pushes in flight carry one pack, nobody brings back what a
\* rollback has removed.
LEMMA UndoneStep ==
  ASSUME TypeOK, Exclusive, \A p \in Handlers : Undone(p), [Next]_vars
  PROVE  \A p \in Handlers : Undone(p)'
<1>1. ASSUME NEW p \in Handlers, Talk(p) \/ Decide(p) \/ Fault(p), NEW q \in Handlers
      PROVE  Undone(q)'
  <2>1. OwnOnly(p) /\ Undone(p)'
    BY <1>1, OwnRollback
  <2>2. CASE q # p /\ Active(q) /\ pack(q) # NoPack
    <3>1. pc'[q] = pc[q] /\ req'[q] = req[q] /\ owns'[q] = owns[q] /\ owns[q] \subseteq Files
      BY <2>1, <2>2 DEF OwnOnly, TypeOK
    <3>2. pack(q) \in Packs /\ pack(q)' = pack(q)
      BY <2>2, <3>1, HasRequest, RequestFacts DEF Active, pack
    <3>3. \A f \in Files : file'[f][pack(q)] = file[f][pack(q)]
      BY <2>1, <2>2, <3>2 DEF OwnOnly, Exclusive
    <3>4. file'["idx"][pack(q)] = file["idx"][pack(q)]
      BY <3>3 DEF Files
    <3> QED
      BY <2>2, <3>1, <3>2, <3>3, <3>4 DEF Undone
  <2>3. CASE q # p /\ ~ (Active(q) /\ pack(q) # NoPack)
    BY <2>1, <2>3 DEF OwnOnly, Undone, Active, pack
  <2> QED
    BY <2>1, <2>2, <2>3
<1>2. CASE Crash
  BY <1>2 DEF Crash, Undone, Active
<1>3. CASE UNCHANGED vars
  BY <1>3 DEF vars, Undone, Active, pack
<1> QED
  BY <1>1, <1>2, <1>3 DEF Next

\* A refusal is written only after every installed file is gone, whether files
\* are renamed or copied into place.
THEOREM RollbackIsComplete ==
  ASSUME ~ SharedPacks
  PROVE  Spec => []RollbackComplete
<1> DEFINE Inv == TypeOK /\ Exclusive /\ \A p \in Handlers : Undone(p)
<1>1. Init => Exclusive /\ \A p \in Handlers : Undone(p)
  BY DEF Init, Exclusive, Undone, Active
<1>2. TypeOK /\ Inv /\ [Next]_vars => Exclusive' /\ (\A p \in Handlers : Undone(p))'
  BY ExclusiveStep, UndoneStep
<1>3. Inv => RollbackComplete
  BY DEF TypeOK, Undone, RollbackComplete, Active
<1> QED
  BY <1>1, <1>2, <1>3, TypeCorrect, PTL DEF Spec

\* What a push did not install is complete when it is judged.
THEOREM ReuseIsSafe ==
  ASSUME ~ SharedPacks, ~ CrossDevice
  PROVE  Spec => []ReusedFilesComplete
<1>1. PInv => ReusedFilesComplete
  BY DEF PInv, Installs, InstallOK, InPlace, ReusedFilesComplete, Active
<1> QED
  BY <1>1, StorageInvariance, PTL

(***************************************************************************)
(* The kinds the authoriser and the hook see                               *)
(***************************************************************************)

\* The kind of a command when all of its history can be read.
ExactKind(u) ==
  IF u.old = Null THEN "Create"
  ELSE IF u.new = Null THEN "Delete"
  ELSE IF u.old \in Anc[u.new] THEN "FastForward" ELSE "ForcePush"

\* A push is judged once, by exact kinds, and what has landed is advertised.
JudgedOK(p) ==
  /\ pc[p] \in {"preliminary", "inspect", "classify", "authorize"} \union Installing =>
       verdict[p] = "none"
  /\ \/ pc[p] \in {"authorize", "update", "report", "hook"}
     \/ pc[p] \in {"unlinkidx", "unlinkpack"} /\ verdict[p] = "err"
     => kinds[p] = [r \in DOMAIN batch(p) |-> ExactKind(batch(p)[r])]
  /\ pc[p] \in {"report", "hook"} =>
       \A r \in DOMAIN batch(p) : Reach(batch(p)[r].new) \subseteq advertised
  /\ hook[p] \subseteq {kinds[p]}
  /\ hook[p] # {} => pc[p] = "done"

\* A classification over readable history is exact.
LEMMA ReadableIsExact ==
  ASSUME TypeOK, NEW p \in Handlers, pc[p] # "idle",
         \A r \in DOMAIN batch(p) : Reach(batch(p)[r].new) \subseteq Readable,
         NEW g \in Classification(batch(p))
  PROVE  g = [r \in DOMAIN batch(p) |-> ExactKind(batch(p)[r])]
<1>1. ASSUME NEW r \in DOMAIN batch(p) PROVE g[r] = ExactKind(batch(p)[r])
  <2>1. g[r] \in PushKind(batch(p)[r])
    BY DEF Classification
  <2>2. batch(p)[r].new # Null => Anc[batch(p)[r].new] \subseteq Readable
    BY DEF Reach
  <2> QED
    BY <2>1, <2>2 DEF PushKind, ExactKind
<1>2. g \in [DOMAIN batch(p) -> KindNames]
  BY DEF Classification
<1> QED
  BY <1>1, <1>2

\* When a push is classified, before and after it lands, its history is there.
LEMMA HistoryReadable ==
  ASSUME PInv, NEW p \in Handlers, JudgedOK(p), pc[p] \in {"classify", "hook"}
  PROVE  \A r \in DOMAIN batch(p) : Reach(batch(p)[r].new) \subseteq Readable
<1>1. advertised \subseteq Readable
  BY DEF PInv, Backed, Kept, Readable
<1>2. CASE pc[p] = "hook"
  BY <1>1, <1>2 DEF JudgedOK
<1>3. CASE pc[p] = "classify"
  <2>1. Active(p) /\ \A r \in DOMAIN batch(p) :
                       Reach(batch(p)[r].new) \subseteq PackObjects(pack(p)) \union advertised
    BY <1>3 DEF Active, PInv, Closed
  <2>2. PackObjects(pack(p)) \subseteq Readable
    <3>1. CASE pack(p) = NoPack
      BY <3>1 DEF PackObjects
    <3>2. CASE pack(p) # NoPack
      <4>1. pack(p) \in Packs
        BY <1>3, <3>2, HasRequest, RequestFacts DEF pack, PInv, JInv
      <4>2. \A f \in Files : file[f][pack(p)] = "full"
        BY <1>3, <2>1, <3>2 DEF PInv, Installs, InstallOK, InPlace
      <4> QED
        BY <3>2, <4>1, <4>2 DEF PackObjects, Readable
    <3> QED
      BY <3>1, <3>2
  <2> QED
    BY <1>1, <2>1, <2>2
<1> QED
  BY <1>2, <1>3

\* Every step of every push keeps it.
LEMMA JudgedStep ==
  ASSUME PInv, \A p \in Handlers : JudgedOK(p), [Next]_vars
  PROVE  \A p \in Handlers : JudgedOK(p)'
<1>0. TypeOK /\ advertised \subseteq advertised'
  <2>1. ASSUME NEW p \in Handlers, UpdateLands(p) PROVE advertised \subseteq advertised'
    BY <2>1 DEF UpdateLands
  <2> QED
    BY <2>1, OnlyLandingMovesRefs DEF PInv, JInv
<1> DEFINE Goal == \A q \in Handlers : JudgedOK(q)'
<1> USE InstallingFacts DEF TypeOK, JudgedOK, Goto, batch
<1>1. ASSUME NEW p \in Handlers, Receive(p) PROVE Goal
  BY <1>0, <1>1 DEF Receive
<1>2. ASSUME NEW p \in Handlers, ReadFails(p) \/ TooManyCommands(p) \/ IngestFails(p) \/ Cancel(p)
      PROVE  Goal
  BY <1>0, <1>2 DEF ReadFails, TooManyCommands, IngestFails, Cancel, End
<1>3. ASSUME NEW p \in Handlers, Reject(p) \/ UpdateFails(p) \/ ReportFails(p) PROVE Goal
  BY <1>0, <1>3 DEF Reject, UpdateFails, ReportFails, End
<1>4. ASSUME NEW p \in Handlers, PreliminaryRefuses(p) \/ PreliminaryAccepts(p) PROVE Goal
  BY <1>0, <1>4 DEF PreliminaryRefuses, PreliminaryAccepts
<1>5. ASSUME NEW p \in Handlers, NEW f \in Files,
             \/ FileExists(p, f) \/ FileMissing(p, f)
             \/ MoveFile(p, f) \/ CopyBegins(p, f) \/ CopyEnds(p, f)
      PROVE  Goal
  BY <1>0, <1>5 DEF FileExists, FileMissing, MoveFile, CopyBegins, CopyEnds,
              CheckAt, MoveAt, CopyAt, AfterInstall, Files
<1>6. ASSUME NEW p \in Handlers, Inspect(p) \/ InspectFails(p) PROVE Goal
  BY <1>0, <1>6 DEF Inspect, InspectFails
<1>7. ASSUME NEW p \in Handlers, Classify(p) PROVE Goal
  <2>1. PICK g \in Classification(batch(p)) : kinds' = [kinds EXCEPT ![p] = g]
    BY <1>7 DEF Classify
  <2>2. g = [r \in DOMAIN batch(p) |-> ExactKind(batch(p)[r])]
    BY <1>0, <1>7, HistoryReadable, ReadableIsExact DEF Classify
  <2> QED
    BY <1>0, <1>7, <2>1, <2>2 DEF Classify
<1>8. ASSUME NEW p \in Handlers, AuthorizeAccepts(p) \/ AuthorizeRefuses(p) PROVE Goal
  BY <1>0, <1>8 DEF AuthorizeAccepts, AuthorizeRefuses
<1>9. ASSUME NEW p \in Handlers, UnlinkIdx(p) \/ UnlinkPack(p) PROVE Goal
  BY <1>0, <1>9 DEF UnlinkIdx, UnlinkPack, AfterRollback
<1>10. ASSUME NEW p \in Handlers, UpdateLands(p) PROVE Goal
  BY <1>0, <1>10 DEF UpdateLands
<1>11. ASSUME NEW p \in Handlers, Report(p) PROVE Goal
  BY <1>0, <1>11 DEF Report
<1>12. ASSUME NEW p \in Handlers, PostReceive(p) PROVE Goal
  <2>1. PICK g \in HookKinds(p) : hook' = [hook EXCEPT ![p] = {g}]
    BY <1>12 DEF PostReceive
  <2>2. kinds[p] = [r \in DOMAIN batch(p) |-> ExactKind(batch(p)[r])]
    BY <1>12 DEF PostReceive
  <2>3. g = kinds[p]
    <3>1. pc[p] = "hook"
      BY <1>12 DEF PostReceive
    <3>2. \A r \in DOMAIN batch(p) : Reach(batch(p)[r].new) \subseteq Readable
      BY <3>1, HistoryReadable
    <3>3. ASSUME NEW h \in Classification(batch(p)) PROVE h = kinds[p]
      BY <1>0, <2>2, <3>1, <3>2, <3>3, ReadableIsExact
    <3> QED
      BY <3>3 DEF HookKinds
  <2>4. hook'[p] = {kinds[p]} /\ kinds' = kinds /\ pc'[p] = "done" /\ req' = req
    BY <1>0, <1>12, <2>1, <2>3 DEF PostReceive
  <2>5. \A q \in Handlers \ {p} : hook'[q] = hook[q] /\ pc'[q] = pc[q]
    BY <1>0, <1>12, <2>1 DEF PostReceive
  <2>6. verdict' = verdict /\ advertised' = advertised
    BY <1>12 DEF PostReceive, repo
  <2>7. JudgedOK(p)'
    BY <2>4
  <2>8. ASSUME NEW q \in Handlers \ {p} PROVE JudgedOK(q)'
    BY <2>4, <2>5, <2>6
  <2> QED
    BY <2>7, <2>8
<1>13. CASE Crash
  BY <1>0, <1>13 DEF Crash, Active
<1>14. CASE UNCHANGED vars
  BY <1>0, <1>14 DEF vars
<1> HIDE InstallingFacts DEF TypeOK, JudgedOK, Goto, batch
<1> QED
  BY <1>1, <1>2, <1>3, <1>4, <1>5, <1>6, <1>7, <1>8, <1>9, <1>10, <1>11, <1>12, <1>13, <1>14
  DEF Next, Talk, Decide, Fault

\* post_receive sees the kinds the authoriser saw, over SSH too, where they are
\* worked out again after the refs have moved and others have rolled back.
THEOREM HookSeesJudgement ==
  ASSUME ~ SharedPacks, ~ CrossDevice
  PROVE  Spec => []HookMatchesJudgement
<1> DEFINE Judged == \A p \in Handlers : JudgedOK(p)
<1>1. Init => Judged
  BY DEF Init, JudgedOK, Installing, CheckAt, MoveAt, CopyAt, Files
<1>2. PInv /\ Judged /\ [Next]_vars => Judged'
  BY JudgedStep
<1>3. Judged => HookMatchesJudgement
  BY DEF JudgedOK, HookMatchesJudgement
<1> QED
  BY <1>1, <1>2, <1>3, StorageInvariance, PTL DEF Spec
=============================================================================
