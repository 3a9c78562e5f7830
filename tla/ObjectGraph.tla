---------------------------- MODULE ObjectGraph ----------------------------
(***************************************************************************)
(* Commits, the trees they record and what lies under a tree, and the sets *)
(* of objects the backends select for a fetch: pure functions of the       *)
(* objects wanted, the objects the client has and the options.             *)
(***************************************************************************)
EXTENDS SequencesExt, CommitGraph

CONSTANTS
  Trees,   \* object ids of trees
  Blobs,   \* object ids of blobs
  TreeOf,  \* the root tree of each commit
  Kids     \* the entries of each tree

ASSUME FiniteAssumption == IsFiniteSet(Commits)
ASSUME TreeAssumption ==
  /\ TreeOf \in [Commits -> Trees]
  /\ Kids \in [Trees -> SUBSET (Trees \union Blobs)]
  /\ Commits \intersect Trees = {}
  /\ Commits \intersect Blobs = {}
  /\ Trees \intersect Blobs = {}

Files == Trees \union Blobs
Objects == Commits \union Files

Filter == {"none", "blob:none", "tree:0"}

\* PackOptions; deepen = 0 stands for None.
Option == [deepen : Nat, filter : Filter, thin : BOOLEAN]

\* What a filter leaves out.
Omitted(filter) ==
  CASE filter = "none" -> {}
    [] filter = "blob:none" -> Blobs
    [] filter = "tree:0" -> Files

TreesOf(C) == { TreeOf[c] : c \in C }

\* With every tree of T, its entries are in T or among those skipped.
TreeClosed(T, skip) == \A t \in T \intersect Trees : Kids[t] \ skip \subseteq T

\* What a walk from S finds when it does not enter skip: the smallest set that
\* holds the start and is closed.
TreeWalk ==
  [S \in SUBSET Files |-> [skip \in SUBSET Files |->
     { o \in Files :
         \A T \in SUBSET Files :
           S \ skip \subseteq T /\ TreeClosed(T, skip) => o \in T }]]

\* What the two tree visitors reach from S.
Descend(S, skip) == TreeWalk[S][skip \intersect Files]

\* The commits of C with everything under them.
ClosureOf(C) == C \union Descend(TreesOf(C), {})

(***************************************************************************)
(* FsGitoxide: pack.rs                                                     *)
(***************************************************************************)

CommitWants(want) == want \intersect Commits

\* Blobs and trees asked for by id.
DirectObjects(want) == want \ Commits

\* The queue of depth_limited_commits: the commits first met at each depth.
Levels(want, have, depth) ==
  LET level[i \in 1..depth] ==
        IF i = 1
        THEN want
        ELSE (UNION { Parents[c] : c \in level[i - 1] \ have })
               \ UNION { level[j] : j \in 1..(i - 1) }
  IN  level

DepthLimited(want, have, depth) ==
  (UNION { Levels(want, have, depth)[i] : i \in 1..depth }) \ have

\* Commits of the last level whose parents are left out.
ShallowBoundary(want, have, depth) ==
  { c \in Levels(want, have, depth)[depth] \ have : Parents[c] # {} }

\* build_have_set.
BuildHaveSet(have) == ClosureOf(Ancestors(have))

FilteredDirect(want, have, opts, haveSet) ==                    \* mutant
  LET tips == CommitWants(want)
      commits == IF opts.deepen > 0
                 THEN DepthLimited(tips, have, opts.deepen)
                 ELSE Ancestors(tips) \ Ancestors(have)
      files == Descend(TreesOf(commits) \union DirectObjects(want), haveSet)
  IN  commits \union (files \ Omitted(opts.filter))

\* objects_for_fetch_with_have_set.
ObjectsForFetch(want, have, opts, haveSet) ==
  LET tips == CommitWants(want)
      direct == DirectObjects(want)
      commits == IF opts.deepen > 0
                 THEN DepthLimited(tips, have, opts.deepen)
                 ELSE Ancestors(tips) \ Ancestors(have)
      files == Descend(TreesOf(commits), haveSet \union direct)
  IN  direct \union commits \union (files \ Omitted(opts.filter))

(***************************************************************************)
(* Reachability bitmaps: bitmap.rs, pack_reuse.rs.  A bit stands for an    *)
(* object of the pack; the bitmap of a commit is stored as it is or as its *)
(* difference (exclusive or) from that of an earlier entry.  A pack with a *)
(* bitmap is closed: git writes a bitmap only for such a pack.             *)
(***************************************************************************)

\* A pack file: the commits in it, and those with a bitmap of their own.
NoBitmap == [commits |-> {}, entries |-> << >>]

PackFile(p) == ClosureOf(p.commits)

Xor(A, B) == (A \ B) \union (B \ A)

\* What git writes for the commits of C: an entry for each, all but the first
\* as the difference from the one before.  Commits pushed later have none.
WithBitmap(C) ==
  LET order == SetToSeq(C)
      bits(i) == ClosureOf(Ancestors({order[i]}))
  IN  [commits |-> C,
       entries |-> [i \in 1..Len(order) |->
         IF i = 1
         THEN [oid |-> order[i], back |-> 0, bits |-> bits(i)]
         ELSE [oid |-> order[i], back |-> 1, bits |-> Xor(bits(i), bits(i - 1))]]]

RawEntry(p, n) == p.entries[n].bits                             \* mutant

\* decode_entry follows the differences back.
DecodeEntry(p, n) ==
  LET decoded[i \in 1..n] ==
        LET e == p.entries[i]
        IN  IF e.back = 0 THEN e.bits ELSE Xor(e.bits, decoded[i - e.back])
  IN  decoded[n]

\* union_bitmap gives None when an object has no entry.
EntriesOf(p, oids) == { i \in DOMAIN p.entries : p.entries[i].oid \in oids }

HasEntries(p, oids) == oids \subseteq { p.entries[i].oid : i \in DOMAIN p.entries }

UnionBitmap(p, oids) == UNION { DecodeEntry(p, i) : i \in EntriesOf(p, oids) }

CoversExactly(p, want, have) ==
  /\ want # {}
  /\ HasEntries(p, want) /\ HasEntries(p, have)
  /\ UnionBitmap(p, want) \ UnionBitmap(p, have) = PackFile(p)

\* try_bitmap_have_set, or else the walk.
HaveSet(p, have) ==
  IF have # {} /\ HasEntries(p, have)
  THEN UnionBitmap(p, have)
  ELSE BuildHaveSet(have)

(***************************************************************************)
(* KvBackend and SqlBackend: a missing object ends its branch of the walk. *)
(***************************************************************************)

\* read_commit_tree: the root trees of the commits that are there.
RootTrees(stored, C) == TreesOf(C \intersect stored)

\* collect_tree_oids adds to a set what it does not hold yet.
CollectTreeOids(roots, set) == Descend(roots, set)

\* Steps 1 and 2 of build_pack, when the commits of stored are in the store.
NeededOids(stored, want, have) ==
  LET commits == AncestorsIn(stored, want \intersect Commits)
                   \ AncestorsIn(stored, have)
      found == want \union commits
  IN  found \union CollectTreeOids(RootTrees(stored, commits), found)

\* Step 3: the closure of the have side.
HaveOids(stored, have) ==
  LET commits == AncestorsIn(stored, have)
  IN  commits \union CollectTreeOids(RootTrees(stored, commits), commits)

(***************************************************************************)
(* FsGitCli: what rev-list and pack-objects answer                         *)
(***************************************************************************)

\* rev-list --max-count: so many commits, children before parents.
RevLists(want, have, count) ==
  LET all == Ancestors(want) \ Ancestors(have)
      n == IF Cardinality(all) < count THEN Cardinality(all) ELSE count
  IN  { S \in SUBSET all :
          /\ Cardinality(S) = n
          /\ \A c \in S : c \in want \/ \E d \in S : c \in Parents[d] }

\* --boundary: the parents of the listed commits that are not listed; a
\* listed commit with such a parent is taken for a shallow root.
CliShallow(listed) ==
  { c \in listed : ~ Parents[c] \subseteq listed }

\* pack-objects --revs with ^have, --shallow and --filter.
PackObjectsOut(want, have, shallow, filter) ==
  LET tips == CommitWants(want)
      direct == DirectObjects(want)
      commits == AncestorsIn(Commits \ shallow, tips)
                   \ AncestorsIn(Commits \ shallow, have)
      files == Descend(TreesOf(commits), BuildHaveSet(have))
  IN  direct \union commits \union (files \ Omitted(filter))
=============================================================================
