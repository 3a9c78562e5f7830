----------------------------- MODULE JudgedPush -----------------------------
(***************************************************************************)
(* A push over a database backend (DatabaseStore) together with the        *)
(* Comparison its authoriser looks through: the ref tips listed before the *)
(* judgement, and for every command the walk of new_commits, which reads   *)
(* the parents of one commit at a time while other pushes ingest packs,    *)
(* move refs and are refused.                                              *)
(*                                                                         *)
(* The authoriser is the forge's.  It is modelled as the content rules of  *)
(* the design documents and tests are: it looks at new_commits of every    *)
(* command, in order, and accepts only commits its rule trusts; an error   *)
(* of new_commits is a refusal.                                            *)
(***************************************************************************)
EXTENDS DatabaseStore, FiniteSets

CONSTANTS
  Trusted,  \* commits the rule of the forge accepts
  Cap       \* max_reachable_commits

ASSUME TrustedAssumption == Trusted \subseteq Commits
ASSUME CapAssumption == Cap \in Nat

VARIABLES
  stage,    \* where the judgement of each request is
  tips,     \* existing_ref_tips
  judged,   \* commands whose new_commits the authoriser has seen
  current,  \* the command being looked at
  exclude,  \* exclude_set
  queue,    \* commits found and not yet expanded
  found,    \* the result of the walk
  shown     \* commits the authoriser has been shown

judgeVars == <<stage, tips, judged, current, exclude, queue, found, shown>>
vars == <<storeVars, judgeVars>>

NoName == "none"

Init ==
  /\ StoreInit
  /\ stage = [h \in Handlers |-> "none"]
  /\ tips = [h \in Handlers |-> {}]
  /\ judged = [h \in Handlers |-> {}]
  /\ current = [h \in Handlers |-> NoName]
  /\ exclude = [h \in Handlers |-> {}]
  /\ queue = [h \in Handlers |-> {}]
  /\ found = [h \in Handlers |-> {}]
  /\ shown = [h \in Handlers |-> {}]

Enter(h, s) == stage' = [stage EXCEPT ![h] = s]

Stored(h) == objects[repo[h]]

\* fetch_parents, and SELECT parent_oid: a commit that is not in the store
\* has no parent records.
FetchParents(h, c) == IF c \in Stored(h) THEN Parents[c] ELSE {}

(***************************************************************************)
(* existing_ref_tips                                                       *)
(***************************************************************************)

\* The values list_refs gives for the refs this push does not name.
OtherTips(h) ==
  { refs[<<repo[h], n>>] : n \in Names \ DOMAIN push[h].cmds } \ {Null}

\* list_refs: one snapshot scan of TiKV.
KvListTips(h) ==
  /\ engine = "kv"
  /\ pc[h] = "ingested" /\ stage[h] = "none"
  /\ tips' = [tips EXCEPT ![h] = OtherTips(h)]
  /\ Enter(h, "judge")
  /\ UNCHANGED <<storeVars, judged, current, exclude, queue, found, shown>>

\* list_refs: one SELECT of the refs; HEAD is read before it and never changes.
SqlListTips(h) ==
  /\ engine = "sql"
  /\ pc[h] = "ingested" /\ stage[h] = "none"
  /\ tips' = [tips EXCEPT ![h] = OtherTips(h)]
  /\ Enter(h, "judge")
  /\ UNCHANGED <<storeVars, judged, current, exclude, queue, found, shown>>

\* An error of list_refs gives an empty exclusion set.
ListTipsFails(h) ==
  /\ pc[h] = "ingested" /\ stage[h] = "none"
  /\ Enter(h, "judge")
  /\ UNCHANGED <<storeVars, tips, judged, current, exclude, queue, found, shown>>

(***************************************************************************)
(* new_commits                                                             *)
(***************************************************************************)

Command(h) == push[h].cmds[current[h]]

\* new_commits of a deletion is empty.
DeletedHasNone(h, n) ==
  /\ stage[h] = "judge"
  /\ n \in DOMAIN push[h].cmds \ judged[h]
  /\ push[h].cmds[n].new = Null
  /\ judged' = [judged EXCEPT ![h] = @ \union {n}]
  /\ UNCHANGED <<storeVars, stage, tips, current, exclude, queue, found, shown>>

\* What is excluded: the listed tips and the new values of the earlier
\* commands of this push.
Excluding(h) ==
  tips[h] \union ({ push[h].cmds[e].new : e \in judged[h] } \ {Null})

\* new_commits of a command that creates or updates a ref.
NewCommits(h, n) ==
  /\ stage[h] = "judge"
  /\ n \in DOMAIN push[h].cmds \ judged[h]
  /\ push[h].cmds[n].new # Null
  /\ current' = [current EXCEPT ![h] = n]
  /\ queue' = [queue EXCEPT ![h] = Excluding(h)]
  /\ exclude' = [exclude EXCEPT ![h] = Excluding(h)]
  /\ Enter(h, "exclude")
  /\ UNCHANGED <<storeVars, tips, judged, found, shown>>

\* collect_ancestors on TiKV, one commit at a time; the cap is a ceiling on
\* the whole exclude set.
KvExclude(h) ==
  /\ engine = "kv" /\ stage[h] = "exclude"
  /\ Cardinality(exclude[h]) <= Cap
  /\ \E c \in queue[h] :
       LET fresh == FetchParents(h, c) \ exclude[h]
       IN  /\ exclude' = [exclude EXCEPT ![h] = @ \union fresh]
           /\ queue' = [queue EXCEPT ![h] = (@ \ {c}) \union fresh]
  /\ UNCHANGED <<storeVars, stage, tips, judged, current, found, shown>>

\* collect_ancestors on SQLite, one recursive query for each tip.
SqlExclude(h) ==
  /\ engine = "sql" /\ stage[h] = "exclude"
  /\ \E c \in queue[h] :
       /\ exclude' = [exclude EXCEPT ![h] = @ \union AncestorsIn(Stored(h), {c})]
       /\ queue' = [queue EXCEPT ![h] = @ \ {c}]
  /\ UNCHANGED <<storeVars, stage, tips, judged, current, found, shown>>

\* The exclude set is complete; the walk starts at the new tip.
StartWalk(h) ==
  /\ stage[h] = "exclude" /\ queue[h] = {}
  /\ queue' = [queue EXCEPT ![h] = {Command(h).new} \ exclude[h]]
  /\ Enter(h, "walk")
  /\ UNCHANGED <<storeVars, tips, judged, current, exclude, found, shown>>

WalkPastExcluded(h) ==                                          \* mutant
  /\ stage[h] = "walk"
  /\ Cardinality(found[h]) < Cap
  /\ \E c \in queue[h] :
       /\ found' = [found EXCEPT ![h] = @ \union {c}]
       /\ queue' = [queue EXCEPT ![h] =
            (@ \ {c}) \union (FetchParents(h, c) \ (queue[h] \union found[h]))]
  /\ UNCHANGED <<storeVars, stage, tips, judged, current, exclude, shown>>

\* The breadth-first loop, the same in both backends.
WalkStep(h) ==
  /\ stage[h] = "walk"
  /\ Cardinality(found[h]) < Cap
  /\ \E c \in queue[h] :
       /\ found' = [found EXCEPT ![h] = @ \union {c}]
       /\ queue' = [queue EXCEPT ![h] =
            (@ \ {c}) \union
            (FetchParents(h, c) \ (exclude[h] \union queue[h] \union found[h]))]
  /\ UNCHANGED <<storeVars, stage, tips, judged, current, exclude, shown>>

\* The metadata of every commit found comes from the pack or, when the push
\* did not ship it, from the store.
CommitInfo(h) == found[h] \intersect (push[h].pack \union Stored(h))

ShowPackOnly(h) ==                                              \* mutant
  /\ stage[h] = "walk" /\ queue[h] = {}
  /\ shown' = [shown EXCEPT ![h] = @ \union (found[h] \intersect push[h].pack)]
  /\ judged' = [judged EXCEPT ![h] = @ \union {current[h]}]
  /\ found' = [found EXCEPT ![h] = {}]
  /\ exclude' = [exclude EXCEPT ![h] = {}]
  /\ Enter(h, "judge")
  /\ UNCHANGED <<storeVars, tips, current, queue>>

\* new_commits returns and the authoriser looks at every commit.
Show(h) ==
  /\ stage[h] = "walk" /\ queue[h] = {}
  /\ found[h] \subseteq CommitInfo(h)
  /\ shown' = [shown EXCEPT ![h] = @ \union found[h]]
  /\ judged' = [judged EXCEPT ![h] = @ \union {current[h]}]
  /\ found' = [found EXCEPT ![h] = {}]
  /\ exclude' = [exclude EXCEPT ![h] = {}]
  /\ Enter(h, "judge")
  /\ UNCHANGED <<storeVars, tips, current, queue>>

\* new_commits fails: CapExceeded, or a commit that cannot be read.
WalkError(h) ==
  \/ /\ stage[h] = "exclude" /\ engine = "kv" /\ queue[h] # {}
     /\ Cardinality(exclude[h]) > Cap
  \/ /\ stage[h] = "walk" /\ queue[h] # {}
     /\ Cardinality(found[h]) >= Cap
  \/ /\ stage[h] = "walk" /\ queue[h] = {}
     /\ ~ found[h] \subseteq CommitInfo(h)

(***************************************************************************)
(* The verdict                                                             *)
(***************************************************************************)

Seen(h) == stage[h] = "judge" /\ judged[h] = DOMAIN push[h].cmds

Forget(h) ==
  /\ stage' = [stage EXCEPT ![h] = "none"]
  /\ tips' = [tips EXCEPT ![h] = {}]
  /\ judged' = [judged EXCEPT ![h] = {}]
  /\ current' = [current EXCEPT ![h] = NoName]
  /\ exclude' = [exclude EXCEPT ![h] = {}]
  /\ queue' = [queue EXCEPT ![h] = {}]
  /\ found' = [found EXCEPT ![h] = {}]
  /\ shown' = [shown EXCEPT ![h] = {}]

\* Every commit passes the rule; update_refs is called.
Accept(h) ==
  /\ Seen(h) /\ shown[h] \subseteq Trusted
  /\ UpdateRefs(h)
  /\ Forget(h)

\* A commit breaks the rule, or new_commits failed.
Refuse(h) ==
  /\ \/ Seen(h) /\ ~ shown[h] \subseteq Trusted
     \/ WalkError(h)
  /\ RollbackIngest(h)
  /\ Forget(h)

(***************************************************************************)
(* Specification                                                           *)
(***************************************************************************)

Judge(h) ==
  \/ KvListTips(h) \/ SqlListTips(h)
  \/ \E n \in Names : DeletedHasNone(h, n) \/ NewCommits(h, n)
  \/ KvExclude(h) \/ SqlExclude(h) \/ StartWalk(h) \/ WalkStep(h) \/ Show(h)
  \/ Accept(h) \/ Refuse(h)

\* The steps of the backend around the judgement.
Serve(h) == Setup(h) \/ Ingest(h) \/ UpdateStep(h)

Work(h) == Judge(h) \/ (Serve(h) /\ UNCHANGED judgeVars)

Next ==
  \E h \in Handlers :
    \/ Work(h)
    \/ ListTipsFails(h)
    \/ Fail(h) /\ Forget(h)
    \/ (Arrive(h) \/ ReceivePush(h) \/ CommitUnknown(h) \/ UpdateFails(h)
          \/ NextRequest(h)) /\ UNCHANGED judgeVars

Spec == Init /\ [][Next]_vars

\* A request is one future on the runtime, which keeps polling it; arrivals
\* and errors are not promised.
FairSpec == Spec /\ \A h \in Handlers : WF_vars(Work(h))

(***************************************************************************)
(* Properties                                                              *)
(***************************************************************************)

\* Every variable has its shape, and the judgement's variables are used only
\* between the end of ingest_pack and the verdict.
TypeOK ==
  /\ StoreTypeOK
  /\ stage \in [Handlers -> {"none", "judge", "exclude", "walk"}]
  /\ tips \in [Handlers -> SUBSET Commits]
  /\ judged \in [Handlers -> SUBSET Names]
  /\ current \in [Handlers -> Names \union {NoName}]
  /\ exclude \in [Handlers -> SUBSET Commits]
  /\ queue \in [Handlers -> SUBSET Commits]
  /\ found \in [Handlers -> SUBSET Commits]
  /\ shown \in [Handlers -> SUBSET Commits]
  /\ \A h \in Handlers : stage[h] # "none" => pc[h] = "ingested"

\* No commit that breaks the forge's rule is ever reachable from a ref,
\* although tips are stale when they are used, refused packs stay in the
\* store, refs are pointed at commits the push did not ship, and other pushes
\* move refs and ingest objects during the walk.
RefsHoldTrustedHistory ==
  \A k \in Keys : refs[k] # Null => Ancestors({refs[k]}) \subseteq Trusted

\* Every ref points at a commit whose whole history is in the store of its
\* repository.
NoDanglingRefs ==
  \A k \in Keys : refs[k] # Null => Ancestors({refs[k]}) \subseteq objects[k[1]]

\* A walk that ends without an error has found every commit of the new tip's
\* history that the excluded tips do not reach, and no other.
WalkExact ==
  \A h \in Handlers :
    stage[h] = "walk" /\ queue[h] = {} =>
      found[h] = Ancestors({Command(h).new}) \ Ancestors(Excluding(h))

\* A request that has begun to initialise, open, ingest, walk or update ends,
\* with whatever result, whoever holds the locks it needs.
EveryPushReturns ==
  \A h \in Handlers :
    pc[h] \notin {"idle", "opened"} ~>
      pc[h] \in {"idle", "opened", "err", "ok", "unknown"}
=============================================================================
