-------------------------- MODULE ObjectGraphProofs --------------------------
(***************************************************************************)
(* What the selections of ObjectGraph hold, for any repository: walks over *)
(* trees, the two walks of the database backends, depth-limited walks,     *)
(* reachability bitmaps, and that every selection completes a client.      *)
(***************************************************************************)
EXTENDS ObjectGraph, CommitGraphProofs, FiniteSetTheorems, WellFoundedInduction

(***************************************************************************)
(* Walks over trees                                                        *)
(***************************************************************************)

\* Everything under some trees.
Below(S) == Descend(S, {})

\* Every walk over trees finds its start, and with a tree its entries.
LEMMA BelowClosed ==
  ASSUME NEW S \in SUBSET Files
  PROVE  S \subseteq Below(S) /\ Below(S) \subseteq Files /\ TreeClosed(Below(S), {})
<1>1. Below(S) = { o \in Files :
                     \A T \in SUBSET Files : S \subseteq T /\ TreeClosed(T, {}) => o \in T }
  <2>1. {} \in SUBSET Files /\ {} \intersect Files = {} /\ S \ {} = S
    OBVIOUS
  <2> QED
    BY <2>1 DEF Below, Descend, TreeWalk
<1>2. ASSUME NEW t \in Below(S) \intersect Trees, NEW o \in Kids[t] PROVE o \in Below(S)
  <2>1. o \in Files
    BY TreeAssumption DEF Files
  <2>2. ASSUME NEW T \in SUBSET Files, S \subseteq T, TreeClosed(T, {}) PROVE o \in T
    <3>1. t \in T
      BY <1>1, <2>2
    <3> QED
      BY <2>2, <3>1 DEF TreeClosed
  <2> QED
    BY <1>1, <2>1, <2>2
<1>3. TreeClosed(Below(S), {})
  BY <1>2 DEF TreeClosed
<1> QED
  BY <1>1, <1>3

\* It finds nothing else.
LEMMA BelowLeast ==
  ASSUME NEW S \in SUBSET Files, NEW T \in SUBSET Files, S \subseteq T, TreeClosed(T, {})
  PROVE  Below(S) \subseteq T
<1>1. {} \in SUBSET Files /\ {} \intersect Files = {} /\ S \ {} = S
  OBVIOUS
<1> QED
  BY <1>1 DEF Below, Descend, TreeWalk

\* Commits among the skipped objects do not matter to a walk over trees.
LEMMA SkippedCommits ==
  ASSUME NEW S, NEW C \in SUBSET Commits
  PROVE  Descend(S, C) = Below(S)
<1>1. C \intersect Files = {} /\ {} \intersect Files = {}
  BY TreeAssumption DEF Files
<1> QED
  BY <1>1 DEF Descend, Below

\* Root trees are files.
LEMMA RootsAreFiles ==
  ASSUME NEW C \in SUBSET Commits
  PROVE  TreesOf(C) \in SUBSET Files
BY TreeAssumption DEF TreesOf, Files

\* A walk that skips some objects finds its start and, with a tree, its
\* entries, but for those.
LEMMA DescendClosed ==
  ASSUME NEW S \in SUBSET Files, NEW K
  PROVE  /\ S \ K \subseteq Descend(S, K)
         /\ Descend(S, K) \subseteq Files
         /\ TreeClosed(Descend(S, K), K)
<1> DEFINE skip == K \intersect Files
           D == Descend(S, K)
<1>1. D = { o \in Files :
              \A T \in SUBSET Files : S \ skip \subseteq T /\ TreeClosed(T, skip) => o \in T }
  <2>1. skip \in SUBSET Files
    OBVIOUS
  <2> QED
    BY <2>1 DEF Descend, TreeWalk
<1>2. ASSUME NEW t \in D \intersect Trees, NEW o \in Kids[t] \ K PROVE o \in D
  <2>1. o \in Files /\ o \notin skip
    BY TreeAssumption DEF Files
  <2>2. ASSUME NEW T \in SUBSET Files, S \ skip \subseteq T, TreeClosed(T, skip) PROVE o \in T
    <3>1. t \in T
      BY <1>1, <2>2
    <3> QED
      BY <2>1, <2>2, <3>1 DEF TreeClosed
  <2> QED
    BY <1>1, <2>1, <2>2
<1>3. TreeClosed(D, K)
  BY <1>2 DEF TreeClosed
<1>4. S \ K \subseteq D /\ D \subseteq Files
  BY <1>1
<1> QED
  BY <1>3, <1>4

\* It finds nothing that is not under the start.
LEMMA DescendBelow ==
  ASSUME NEW S \in SUBSET Files, NEW K
  PROVE  Descend(S, K) \subseteq Below(S)
<1> DEFINE skip == K \intersect Files
<1>1. Descend(S, K) =
        { o \in Files :
            \A T \in SUBSET Files : S \ skip \subseteq T /\ TreeClosed(T, skip) => o \in T }
  <2>1. skip \in SUBSET Files
    OBVIOUS
  <2> QED
    BY <2>1 DEF Descend, TreeWalk
<1>2. /\ Below(S) \in SUBSET Files /\ S \ skip \subseteq Below(S)
      /\ TreeClosed(Below(S), skip)
  BY BelowClosed DEF TreeClosed
<1> QED
  BY <1>1, <1>2

\* What a walk misses because it skips some objects is under them.
LEMMA WalkSplit ==
  ASSUME NEW S \in SUBSET Files, NEW K, NEW F \in SUBSET Files,
         TreeClosed(F, {}), K \intersect Files \subseteq F
  PROVE  Below(S) \subseteq Descend(S, K) \union F
<1> DEFINE T == Descend(S, K) \union F
<1>1. /\ S \ K \subseteq Descend(S, K) /\ Descend(S, K) \subseteq Files
      /\ TreeClosed(Descend(S, K), K)
  BY DescendClosed
<1>2. T \in SUBSET Files /\ S \subseteq T
  BY <1>1
<1>3. TreeClosed(T, {})
  <2> SUFFICES ASSUME NEW t \in T \intersect Trees, NEW o \in Kids[t] PROVE o \in T
    BY DEF TreeClosed
  <2>1. o \in Files
    BY TreeAssumption DEF Files
  <2> QED
    BY <1>1, <2>1 DEF TreeClosed
<1> QED
  BY <1>2, <1>3, BelowLeast

\* What is under two sets of commits is under the one or the other.
LEMMA BelowUnion ==
  ASSUME NEW A \in SUBSET Commits, NEW B \in SUBSET Commits
  PROVE  Below(TreesOf(A \union B)) = Below(TreesOf(A)) \union Below(TreesOf(B))
<1> DEFINE T == Below(TreesOf(A)) \union Below(TreesOf(B))
<1>1. /\ TreesOf(A) \in SUBSET Files /\ TreesOf(B) \in SUBSET Files
      /\ TreesOf(A \union B) \in SUBSET Files
      /\ TreesOf(A \union B) = TreesOf(A) \union TreesOf(B)
  BY RootsAreFiles DEF TreesOf
<1>2. /\ TreesOf(A) \subseteq Below(TreesOf(A)) /\ Below(TreesOf(A)) \subseteq Files
      /\ TreesOf(B) \subseteq Below(TreesOf(B)) /\ Below(TreesOf(B)) \subseteq Files
      /\ TreeClosed(Below(TreesOf(A)), {}) /\ TreeClosed(Below(TreesOf(B)), {})
  BY <1>1, BelowClosed
<1>3. T \in SUBSET Files /\ TreesOf(A \union B) \subseteq T /\ TreeClosed(T, {})
  BY <1>1, <1>2 DEF TreeClosed
<1>4. Below(TreesOf(A \union B)) \subseteq T
  BY <1>1, <1>3, BelowLeast
<1>5. /\ TreesOf(A \union B) \subseteq Below(TreesOf(A \union B))
      /\ Below(TreesOf(A \union B)) \in SUBSET Files
      /\ TreeClosed(Below(TreesOf(A \union B)), {})
  BY <1>1, BelowClosed
<1>6. T \subseteq Below(TreesOf(A \union B))
  BY <1>1, <1>5, BelowLeast
<1> QED
  BY <1>4, <1>6

\* The commits of a closure are those it starts from.
LEMMA ClosureParts ==
  ASSUME NEW C \in SUBSET Commits
  PROVE  /\ ClosureOf(C) = C \union Below(TreesOf(C))
         /\ Below(TreesOf(C)) \subseteq Files
         /\ ClosureOf(C) \intersect Commits = C
         /\ ClosureOf(C) \intersect Files = Below(TreesOf(C))
         /\ ClosureOf(C) \subseteq Objects
<1>1. Below(TreesOf(C)) \subseteq Files /\ Files \intersect Commits = {}
  BY RootsAreFiles, BelowClosed, TreeAssumption DEF Files
<1>2. ClosureOf(C) = C \union Below(TreesOf(C))
  BY DEF ClosureOf, Below
<1> QED
  BY <1>1, <1>2 DEF Objects

(***************************************************************************)
(* The two walks of the database backends                                  *)
(***************************************************************************)

\* What the pack of a request holds, on a store with all the history.
Missing(want, haves) == Ancestors(want) \ Ancestors(haves)
Content(want, haves) ==
  (Missing(want, haves) \union Below(TreesOf(Missing(want, haves))))
    \ (Ancestors(haves) \union Below(TreesOf(Ancestors(haves))))

\* What build_pack finds.
Chosen(known, want, haves) == NeededOids(known, want, haves) \ HaveOids(known, haves)

\* What build_pack finds does not depend on when it looks: a store that is
\* closed and has the wants and the haves gives the same objects as any later
\* one, and has them all.
LEMMA SelectionStable ==
  ASSUME NEW known \in SUBSET Commits, ClosedIn(Commits, known),
         NEW want \in SUBSET known, NEW haves \in SUBSET known
  PROVE  /\ NeededOids(known, want, haves) =
              Missing(want, haves) \union want \union Below(TreesOf(Missing(want, haves)))
         /\ HaveOids(known, haves) = Ancestors(haves) \union Below(TreesOf(Ancestors(haves)))
         /\ Chosen(known, want, haves) = Content(want, haves)
         /\ Content(want, haves) \subseteq ClosureOf(known)
<1>1. /\ want \intersect Commits = want
      /\ AncestorsIn(known, want) = Ancestors(want) /\ AncestorsIn(known, haves) = Ancestors(haves)
  BY QueryIsHistory
<1>2. /\ Ancestors(want) \subseteq known /\ Ancestors(haves) \subseteq known
      /\ want \subseteq Ancestors(want)
  BY InClosed, HistoryIsClosed DEF Ancestors
<1> DEFINE M == Missing(want, haves)
           H == Ancestors(haves)
<1>3. M \subseteq known /\ M \intersect known = M /\ H \intersect known = H
  BY <1>2 DEF Missing
<1>4. Descend(TreesOf(M), want \union M) = Below(TreesOf(M)) /\ Descend(TreesOf(H), H) = Below(TreesOf(H))
  BY <1>2, <1>3, SkippedCommits
<1>5. NeededOids(known, want, haves) = M \union want \union Below(TreesOf(M))
  BY <1>1, <1>3, <1>4 DEF NeededOids, CollectTreeOids, RootTrees, Missing
<1>6. HaveOids(known, haves) = H \union Below(TreesOf(H))
  BY <1>1, <1>3, <1>4 DEF HaveOids, CollectTreeOids, RootTrees
<1>7. want \subseteq M \union H
  BY <1>2 DEF Missing
<1>8. Chosen(known, want, haves) = Content(want, haves)
  BY <1>5, <1>6, <1>7 DEF Content, Chosen
<1>9. Below(TreesOf(M)) \subseteq Below(TreesOf(known))
  <2>1. TreesOf(M) \in SUBSET Files /\ TreesOf(known) \in SUBSET Files /\ TreesOf(M) \subseteq TreesOf(known)
    BY <1>3, RootsAreFiles DEF TreesOf
  <2> QED
    BY <2>1, BelowClosed, BelowLeast
<1>10. Content(want, haves) \subseteq ClosureOf(known)
  BY <1>3, <1>9 DEF Content, ClosureOf, Below
<1> QED
  BY <1>5, <1>6, <1>8, <1>10

\* A client that has everything under its commits.
WholeSet(O) ==
  /\ O \subseteq Objects
  /\ ClosedIn(Commits, O \intersect Commits)
  /\ Below(TreesOf(O \intersect Commits)) \subseteq O

\* The pack makes a whole client whole again, with what it wanted.
LEMMA ContentCompletes ==
  ASSUME NEW O, WholeSet(O), NEW want \in SUBSET Commits,
         NEW haves \in SUBSET (O \intersect Commits)
  PROVE  WholeSet(O \union Content(want, haves)) /\ want \subseteq O \union Content(want, haves)
<1> DEFINE C == O \intersect Commits
           M == Missing(want, haves)
           H == Ancestors(haves)
           P == Content(want, haves)
<1>1. H \subseteq C /\ H \subseteq Commits
  BY InClosed, HistoryIsClosed DEF WholeSet, Ancestors
<1>2. /\ Ancestors(want) \subseteq Commits /\ ClosedIn(Commits, Ancestors(want))
      /\ want \subseteq Ancestors(want)
  BY HistoryIsClosed
<1>3. M \subseteq Commits /\ C \subseteq Commits /\ C \union M = C \union Ancestors(want)
  BY <1>1, <1>2 DEF Missing
<1>4. /\ TreesOf(M) \in SUBSET Files /\ TreesOf(H) \in SUBSET Files /\ TreesOf(C) \in SUBSET Files
      /\ TreesOf(H) \subseteq TreesOf(C) /\ TreesOf(C \union M) = TreesOf(C) \union TreesOf(M)
  BY <1>1, <1>3, RootsAreFiles DEF TreesOf
<1>5. Below(TreesOf(H)) \subseteq O
  <2>1. Below(TreesOf(H)) \subseteq Below(TreesOf(C))
    BY <1>4, BelowClosed, BelowLeast
  <2> QED
    BY <2>1 DEF WholeSet
<1>6. Below(TreesOf(M)) \subseteq Files /\ Below(TreesOf(H)) \subseteq Files /\ Files \intersect Commits = {}
  BY <1>4, BelowClosed, TreeAssumption DEF Files
<1>7. (O \union P) \intersect Commits = C \union M
  BY <1>1, <1>3, <1>6 DEF Content, Missing
<1>8. ClosedIn(Commits, C \union M)
  BY <1>2, <1>3 DEF WholeSet, ClosedIn
<1>9. Below(TreesOf(C \union M)) \subseteq O \union P
  <2> DEFINE T == Below(TreesOf(C)) \union Below(TreesOf(M))
  <2>1. /\ T \in SUBSET Files /\ TreesOf(C \union M) \subseteq T
        /\ TreeClosed(T, {})
    <3>1. /\ TreesOf(C) \subseteq Below(TreesOf(C)) /\ Below(TreesOf(C)) \subseteq Files
          /\ TreesOf(M) \subseteq Below(TreesOf(M)) /\ Below(TreesOf(M)) \subseteq Files
          /\ TreeClosed(Below(TreesOf(C)), {}) /\ TreeClosed(Below(TreesOf(M)), {})
      BY <1>4, BelowClosed
    <3> QED
      BY <1>4, <3>1 DEF TreeClosed
  <2>2. Below(TreesOf(C \union M)) \subseteq T
    BY <1>4, <2>1, BelowLeast
  <2>3. T \subseteq O \union P
    BY <1>1, <1>5, <1>6 DEF WholeSet, Content
  <2> QED
    BY <2>2, <2>3
<1>10. O \union P \subseteq Objects
  BY <1>3, <1>6 DEF WholeSet, Content, Objects
<1>11. want \subseteq O \union P
  BY <1>1, <1>2, <1>7, <1>3
<1> QED
  BY <1>7, <1>8, <1>9, <1>10, <1>11 DEF WholeSet

(***************************************************************************)
(* Induction: a set of numbers has a least one                             *)
(***************************************************************************)

\* The form in which the proofs below use induction.
LEMMA LeastNumber ==
  ASSUME NEW T \in SUBSET Nat, T # {}
  PROVE  \E n \in T : \A m \in T : n <= m
<1> DEFINE R == { ss \in Nat \X Nat : ss[1] < ss[2] }
<1>1. OpToRel(<, Nat) = R
  BY DEF OpToRel
<1>2. IsWellFoundedOn(R, Nat)
  BY <1>1, NatLessThanWellFounded
<1>3. \E x \in T : \A y \in T : ~ (<<y, x>> \in R)
  <2> HIDE DEF R
  <2> QED
    BY <1>2, WFMin
<1>4. PICK x \in T : \A y \in T : ~ (<<y, x>> \in R)
  BY <1>3
<1>5. \A y \in T : x <= y
  <2> SUFFICES ASSUME NEW y \in T PROVE x <= y
    OBVIOUS
  <2>1. ~ (<<y, x>> \in R) /\ x \in Nat /\ y \in Nat
    BY <1>4
  <2>2. y < x => <<y, x>> \in R
    BY <2>1
  <2> QED
    BY <2>1, <2>2
<1> QED
  BY <1>5

(***************************************************************************)
(* Depth-limited walks                                                     *)
(***************************************************************************)

\* The union of a family of sets.
LEMMA UnionOf ==
  ASSUME NEW g, NEW S
  PROVE  \A x : x \in UNION { g[j] : j \in S } <=> \E j \in S : x \in g[j]
BY Zenon

\* What a level is made of, given those before it.
LevelStep(want, have, g, i) ==
  IF i = 1
  THEN want
  ELSE (UNION { Parents[c] : c \in g[i - 1] \ have }) \ UNION { g[j] : j \in 1..(i - 1) }

IsLevels(want, have, g, depth) ==
  g = [i \in 1..depth |-> LevelStep(want, have, g, i)]

\* A level depends on those before it only.
LEMMA LevelStepLocal ==
  ASSUME NEW want, NEW have, NEW g, NEW h, NEW i \in Nat \ {0},
         \A j \in 1..(i - 1) : g[j] = h[j]
  PROVE  LevelStep(want, have, g, i) = LevelStep(want, have, h, i)
<1>1. CASE i = 1
  BY <1>1 DEF LevelStep
<1>2. CASE i # 1
  <2>1. i - 1 \in 1..(i - 1) /\ g[i - 1] = h[i - 1]
    BY <1>2
  <2>2. { g[j] : j \in 1..(i - 1) } = { h[j] : j \in 1..(i - 1) }
    OBVIOUS
  <2> QED
    BY <1>2, <2>1, <2>2 DEF LevelStep
<1> QED
  BY <1>1, <1>2

\* The queue of depth_limited_commits is well defined, however deep it goes.
LEMMA LevelsExist ==
  ASSUME NEW want, NEW have, NEW depth \in Nat
  PROVE  \E g : IsLevels(want, have, g, depth)
<1> DEFINE Bad == { d \in Nat : ~ \E g : IsLevels(want, have, g, d) }
<1> SUFFICES Bad = {}
  OBVIOUS
<1>1. SUFFICES ASSUME Bad # {} PROVE FALSE
  OBVIOUS
<1>2. PICK d \in Bad : \A m \in Bad : d <= m
  BY <1>1, LeastNumber
<1>3. d # 0
  <2> DEFINE g == [i \in 1..0 |-> {}]
  <2>1. 1..0 = {}
    OBVIOUS
  <2>2. g = [i \in 1..0 |-> LevelStep(want, have, g, i)]
    BY <2>1
  <2> QED
    BY <2>2 DEF IsLevels
<1>4. d - 1 \in Nat /\ d - 1 \notin Bad
  BY <1>2, <1>3
<1>5. PICK g : IsLevels(want, have, g, d - 1)
  BY <1>4
<1> DEFINE h == [i \in 1..d |-> IF i < d THEN g[i] ELSE LevelStep(want, have, g, d)]
<1>6. ASSUME NEW i \in 1..d PROVE h[i] = LevelStep(want, have, h, i)
  <2>1. \A j \in 1..(i - 1) : g[j] = h[j]
    BY <1>2
  <2>2. LevelStep(want, have, g, i) = LevelStep(want, have, h, i)
    BY <2>1, <1>2, LevelStepLocal
  <2>3. h[i] = LevelStep(want, have, g, i)
    <3>1. CASE i < d
      <4>1. i \in 1..(d - 1)
        BY <3>1, <1>2
      <4>2. g[i] = LevelStep(want, have, g, i)
        BY <1>5, <4>1 DEF IsLevels
      <4> QED
        BY <3>1, <4>2
    <3>2. CASE i = d
      BY <3>2, <1>2
    <3> QED
      BY <3>1, <3>2, <1>2
  <2> QED
    BY <2>2, <2>3
<1>7. IsLevels(want, have, h, d)
  <2> HIDE DEF h
  <2>1. h = [i \in 1..d |-> h[i]]
    BY DEF h
  <2> QED
    BY <1>6, <2>1 DEF IsLevels
<1> QED
  BY <1>2, <1>7

\* So it is what its definition says.
LEMMA LevelsAre ==
  ASSUME NEW want, NEW have, NEW depth \in Nat
  PROVE  IsLevels(want, have, Levels(want, have, depth), depth)
<1>1. \E g : IsLevels(want, have, g, depth)
  BY LevelsExist
<1>2. Levels(want, have, depth) = CHOOSE g : IsLevels(want, have, g, depth)
  BY DEF Levels, IsLevels, LevelStep
<1> QED
  BY <1>1, <1>2

\* Every level holds commits of the history, the first the wants, and the
\* parents of a commit above the last level are in a level.
LEMMA LevelFacts ==
  ASSUME NEW want \in SUBSET Commits, NEW have, NEW depth \in Nat
  PROVE  LET level == Levels(want, have, depth)
         IN  /\ \A i \in 1..depth : level[i] \subseteq Ancestors(want)
             /\ depth > 0 => level[1] = want
             /\ \A i \in 1..(depth - 1) : \A c \in level[i] \ have :
                  Parents[c] \subseteq UNION { level[j] : j \in 1..depth }
<1> DEFINE level == Levels(want, have, depth)
<1>1. \A i \in 1..depth : level[i] = LevelStep(want, have, level, i)
  <2>1. IsLevels(want, have, level, depth)
    BY LevelsAre
  <2> HIDE DEF level
  <2> QED
    BY <2>1 DEF IsLevels
<1> HIDE DEF level
<1>2. depth > 0 => level[1] = want
  <2>1. depth > 0 => 1 \in 1..depth
    OBVIOUS
  <2> QED
    BY <1>1, <2>1 DEF LevelStep
<1>3. \A i \in 1..depth : level[i] \subseteq Ancestors(want)
  <2> DEFINE Bad == { i \in 1..depth : ~ (level[i] \subseteq Ancestors(want)) }
  <2>1. SUFFICES ASSUME Bad # {} PROVE FALSE
    OBVIOUS
  <2>2. Bad \in SUBSET Nat
    OBVIOUS
  <2>3. PICK i \in Bad : \A m \in Bad : i <= m
    BY <2>1, <2>2, LeastNumber
  <2>4. want \subseteq Ancestors(want) /\ ClosedIn(Commits, Ancestors(want)) /\ Ancestors(want) \subseteq Commits
    BY HistoryIsClosed
  <2>5. i # 1
    BY <1>2, <2>3, <2>4
  <2>6. i - 1 \in 1..depth /\ i - 1 \notin Bad
    BY <2>3, <2>5
  <2>7. \A c \in level[i - 1] : Parents[c] \subseteq Ancestors(want)
    BY <2>4, <2>6 DEF ClosedIn
  <2>8. level[i] \subseteq UNION { Parents[c] : c \in level[i - 1] \ have }
    BY <1>1, <2>3, <2>5 DEF LevelStep
  <2> QED
    BY <2>3, <2>7, <2>8
<1>4. ASSUME NEW i \in 1..(depth - 1), NEW c \in level[i] \ have, NEW p \in Parents[c]
      PROVE  p \in UNION { level[j] : j \in 1..depth }
  <2>1. i \in Nat /\ i + 1 \in 1..depth /\ i + 1 # 1 /\ (i + 1) - 1 = i
    OBVIOUS
  <2> DEFINE later == UNION { Parents[d] : d \in level[i] \ have }
             seen == UNION { level[j] : j \in 1..i }
  <2>2. level[i + 1] = later \ seen
    <3>1. level[i + 1] = LevelStep(want, have, level, i + 1)
      BY <1>1, <2>1
    <3> QED
      BY <2>1, <3>1 DEF LevelStep
  <2>3. p \in level[i + 1] \/ \E j \in 1..i : p \in level[j]
    <3>1. p \in later
      BY <1>4
    <3>2. p \in seen <=> \E j \in 1..i : p \in level[j]
      BY UnionOf
    <3> HIDE DEF later, seen
    <3> QED
      BY <2>2, <3>1, <3>2
  <2>4. 1..i \subseteq 1..depth
    BY <2>1
  <2> QED
    BY <2>1, <2>3, <2>4
<1> QED
  BY <1>2, <1>3, <1>4 DEF level

\* A shallow fetch: the wants are in it or known to be there, and so are the
\* parents of its commits, but for those on the boundary the client is told of.
THEOREM ShallowFetch ==
  ASSUME NEW want \in SUBSET Commits, NEW have, NEW depth \in Nat \ {0}
  PROVE  LET found == DepthLimited(want, have, depth)
             edge == ShallowBoundary(want, have, depth)
         IN  /\ found \subseteq Ancestors(want) /\ edge \subseteq found
             /\ want \subseteq found \union have
             /\ \A c \in found \ edge : Parents[c] \subseteq found \union have
<1> DEFINE level == Levels(want, have, depth)
           all == UNION { level[i] : i \in 1..depth }
           found == DepthLimited(want, have, depth)
           edge == ShallowBoundary(want, have, depth)
<1>1. /\ \A i \in 1..depth : level[i] \subseteq Ancestors(want)
      /\ level[1] = want
      /\ \A i \in 1..(depth - 1) : \A c \in level[i] \ have :
           Parents[c] \subseteq UNION { level[j] : j \in 1..depth }
  BY LevelFacts
<1>2. /\ found = all \ have
      /\ edge = { c \in level[depth] \ have : Parents[c] # {} }
  BY DEF DepthLimited, ShallowBoundary
<1> HIDE DEF level, found, edge
<1>3. \A c : c \in found <=> c \notin have /\ \E i \in 1..depth : c \in level[i]
  <2>1. \A c : c \in all <=> \E i \in 1..depth : c \in level[i]
    BY UnionOf
  <2> HIDE DEF all
  <2> QED
    BY <1>2, <2>1
<1>4. \A c : c \in edge <=> c \in level[depth] /\ c \notin have /\ Parents[c] # {}
  BY <1>2
<1>5. 1 \in 1..depth /\ depth \in 1..depth
  OBVIOUS
<1>6. found \subseteq Ancestors(want) /\ edge \subseteq found /\ want \subseteq found \union have
  BY <1>1, <1>5, <1>3, <1>4
<1>7. ASSUME NEW c \in found \ edge PROVE Parents[c] \subseteq found \union have
  <2>1. PICK i \in 1..depth : c \in level[i] \ have
    BY <1>3
  <2>2. CASE i = depth
    BY <1>4, <2>1, <2>2
  <2>3. CASE i # depth
    <3>1. i \in 1..(depth - 1)
      BY <2>3
    <3> QED
      BY <1>1, <1>3, <2>1, <3>1
  <2> QED
    BY <2>2, <2>3
<1> QED
  BY <1>6, <1>7 DEF found, edge

(***************************************************************************)
(* Reachability bitmaps                                                    *)
(***************************************************************************)

\* A pack whose bitmaps, once decoded, are the closures of their commits.
BitmapOK(p) ==
  /\ p.commits \subseteq Commits /\ ClosedIn(Commits, p.commits)
  /\ \A i \in DOMAIN p.entries :
       /\ p.entries[i].oid \in Commits
       /\ DecodeEntry(p, i) = ClosureOf(Ancestors({p.entries[i].oid}))

\* The commits with a bitmap are in some order.
LEMMA OrderOf ==
  ASSUME NEW C \in SUBSET Commits
  PROVE  /\ Cardinality(C) \in Nat
         /\ SetToSeq(C) \in [1..Cardinality(C) -> C]
         /\ Len(SetToSeq(C)) = Cardinality(C)
<1>1. IsFiniteSet(C)
  BY FiniteAssumption, FS_Subset
<1>2. Cardinality(C) \in Nat
  BY <1>1, FS_CardinalityType
<1>3. \E f \in [1..Cardinality(C) -> C] : IsInjective(f)
  BY <1>1, FS_CardinalityType DEF ExistsBijection, Bijection, Injection, IsInjective
<1>4. SetToSeq(C) \in [1..Cardinality(C) -> C]
  BY <1>3 DEF SetToSeq
<1>5. Len(SetToSeq(C)) = Cardinality(C)
  BY <1>2, <1>4
<1> QED
  BY <1>2, <1>4, <1>5

\* A difference from a bitmap, taken from it again, gives the other one.
LEMMA XorBack == \A A, B : Xor(Xor(A, B), B) = A
BY DEF Xor

\* Decoding the entries of a pack, one step.
DecodeStep(p, g, i) ==
  LET e == p.entries[i] IN IF e.back = 0 THEN e.bits ELSE Xor(e.bits, g[i - e.back])

\* decode_entry follows the chain of differences to its start and gives what
\* git meant: the commit with its history and everything under it.
THEOREM DecodedBitmaps ==
  ASSUME NEW C \in SUBSET Commits, NEW n \in 1..Cardinality(C)
  PROVE  DecodeEntry(WithBitmap(C), n) = ClosureOf(Ancestors({SetToSeq(C)[n]}))
<1> DEFINE p == WithBitmap(C)
           size == Cardinality(C)
           bits(i) == ClosureOf(Ancestors({SetToSeq(C)[i]}))
<1>1. size \in Nat /\ Len(SetToSeq(C)) = size
  BY OrderOf
<1>2. \A i \in 1..size :
        /\ i = 1 => p.entries[i].back = 0 /\ p.entries[i].bits = bits(i)
        /\ i # 1 => p.entries[i].back = 1 /\ p.entries[i].bits = Xor(bits(i), bits(i - 1))
  BY <1>1 DEF WithBitmap
<1> HIDE DEF p, bits, size
<1>3. ASSUME NEW g, NEW i \in 1..n, i # 1 => g[i - 1] = bits(i - 1)
      PROVE  DecodeStep(p, g, i) = bits(i)
  <2>1. i \in 1..size
    BY <1>1 DEF size
  <2>2. CASE i = 1
    BY <1>2, <2>1, <2>2 DEF DecodeStep
  <2>3. CASE i # 1
    BY <1>2, <1>3, <2>1, <2>3, XorBack DEF DecodeStep
  <2> QED
    BY <2>2, <2>3
<1> DEFINE Solves(g) == g = [i \in 1..n |-> DecodeStep(p, g, i)]
<1>4. \E g : Solves(g)
  <2> DEFINE g == [i \in 1..n |-> bits(i)]
  <2>1. ASSUME NEW i \in 1..n PROVE DecodeStep(p, g, i) = bits(i)
    <3>1. i # 1 => g[i - 1] = bits(i - 1)
      BY <1>1 DEF size
    <3> HIDE DEF g
    <3> QED
      BY <1>3, <3>1
  <2>2. g = [i \in 1..n |-> DecodeStep(p, g, i)]
    BY <2>1
  <2> QED
    BY <2>2
<1>5. ASSUME NEW g, Solves(g) PROVE \A i \in 1..n : g[i] = bits(i)
  <2> DEFINE Bad == { i \in 1..n : g[i] # bits(i) }
  <2>1. SUFFICES ASSUME Bad # {} PROVE FALSE
    OBVIOUS
  <2>2. Bad \in SUBSET Nat
    OBVIOUS
  <2>3. PICK i \in Bad : \A m \in Bad : i <= m
    BY <2>1, <2>2, LeastNumber
  <2>4. i # 1 => g[i - 1] = bits(i - 1)
    <3>1. ASSUME i # 1 PROVE i - 1 \in 1..n /\ i - 1 \notin Bad
      BY <2>3, <3>1
    <3> QED
      BY <3>1
  <2>5. g[i] = DecodeStep(p, g, i)
    BY <1>5, <2>3
  <2>6. g[i] = bits(i)
    BY <1>3, <2>3, <2>4, <2>5
  <2> QED
    BY <2>3, <2>6
<1>6. DecodeEntry(p, n) = (CHOOSE g : Solves(g))[n]
  BY DEF DecodeEntry, DecodeStep
<1>7. Solves(CHOOSE g : Solves(g))
  <2> HIDE DEF Solves
  <2> QED
    BY <1>4
<1>8. n \in 1..n
  BY <1>1 DEF size
<1> HIDE DEF Solves
<1>9. DecodeEntry(p, n) = bits(n)
  BY <1>5, <1>6, <1>7, <1>8
<1> QED
  BY <1>9 DEF p, bits

\* Histories, and what is under them, taken one commit at a time.
LEMMA ClosureByCommit ==
  ASSUME NEW S \in SUBSET Commits
  PROVE  \A x : x \in ClosureOf(Ancestors(S)) <=> \E c \in S : x \in ClosureOf(Ancestors({c}))
<1> DEFINE A == Ancestors(S)
           U == { x \in Commits : \E c \in S : x \in Ancestors({c}) }
           V == { x \in Files : \E c \in S : x \in Below(TreesOf(Ancestors({c}))) }
<1>1. S \subseteq A /\ A \in SUBSET Commits /\ ClosedIn(Commits, A)
  BY HistoryIsClosed
<1>2. ASSUME NEW c \in S
      PROVE  /\ c \in Ancestors({c}) /\ Ancestors({c}) \in SUBSET Commits
             /\ ClosedIn(Commits, Ancestors({c})) /\ Ancestors({c}) \subseteq A
  <2>1. c \in Commits /\ {c} \in SUBSET Commits /\ {c} \subseteq A
    BY <1>1
  <2> QED
    BY <2>1, <1>1, HistoryIsClosed, InClosed DEF Ancestors
<1>3. A = U
  <2>1. U \in SUBSET Commits /\ S \subseteq U /\ ClosedIn(Commits, U)
    <3>1. ASSUME NEW x \in U, NEW y \in Parents[x] PROVE y \in U
      <4>1. PICK c \in S : x \in Ancestors({c})
        OBVIOUS
      <4>2. y \in Ancestors({c})
        BY <1>2, <3>1, <4>1 DEF ClosedIn
      <4> QED
        BY <1>2, <4>2
    <3> QED
      BY <1>2, <3>1 DEF ClosedIn
  <2>2. A \subseteq U
    BY <2>1, InClosed DEF Ancestors
  <2> QED
    BY <2>2, <1>2
<1>4. ASSUME NEW c \in S
      PROVE  /\ TreesOf(Ancestors({c})) \in SUBSET Files
             /\ TreesOf(Ancestors({c})) \subseteq Below(TreesOf(Ancestors({c})))
             /\ Below(TreesOf(Ancestors({c}))) \in SUBSET Files
             /\ TreeClosed(Below(TreesOf(Ancestors({c}))), {})
             /\ Below(TreesOf(Ancestors({c}))) \subseteq Below(TreesOf(A))
  <2>1. TreesOf(Ancestors({c})) \in SUBSET Files /\ TreesOf(A) \in SUBSET Files
    BY <1>1, <1>2, RootsAreFiles
  <2>2. TreesOf(Ancestors({c})) \subseteq TreesOf(A)
    BY <1>2 DEF TreesOf
  <2>3. TreesOf(A) \subseteq Below(TreesOf(A)) /\ Below(TreesOf(A)) \in SUBSET Files /\ TreeClosed(Below(TreesOf(A)), {})
    BY <2>1, BelowClosed
  <2>4. Below(TreesOf(Ancestors({c}))) \subseteq Below(TreesOf(A))
    BY <2>1, <2>2, <2>3, BelowLeast
  <2> QED
    BY <2>1, <2>4, BelowClosed
<1>5. Below(TreesOf(A)) = V
  <2>1. V \in SUBSET Files
    OBVIOUS
  <2>2. TreesOf(A) \subseteq V
    <3> SUFFICES ASSUME NEW a \in A PROVE TreeOf[a] \in V
      BY DEF TreesOf
    <3>1. PICK c \in S : a \in Ancestors({c})
      BY <1>3
    <3>2. TreeOf[a] \in TreesOf(Ancestors({c}))
      BY <3>1 DEF TreesOf
    <3> QED
      BY <1>4, <3>2
  <2>3. TreeClosed(V, {})
    <3> SUFFICES ASSUME NEW t \in V \intersect Trees, NEW o \in Kids[t] PROVE o \in V
      BY DEF TreeClosed
    <3>1. PICK c \in S : t \in Below(TreesOf(Ancestors({c})))
      OBVIOUS
    <3>2. o \in Below(TreesOf(Ancestors({c})))
      BY <1>4, <3>1 DEF TreeClosed
    <3> QED
      BY <1>4, <3>2
  <2>4. TreesOf(A) \in SUBSET Files
    BY <1>1, RootsAreFiles
  <2>5. Below(TreesOf(A)) \subseteq V
    BY <2>1, <2>2, <2>3, <2>4, BelowLeast
  <2>6. V \subseteq Below(TreesOf(A))
    BY <1>4
  <2> QED
    BY <2>5, <2>6
<1>6. ClosureOf(A) = A \union Below(TreesOf(A))
  BY DEF ClosureOf, Below
<1>7. \A c \in S : ClosureOf(Ancestors({c})) = Ancestors({c}) \union Below(TreesOf(Ancestors({c})))
  BY DEF ClosureOf, Below
<1>8. \A x : x \in A <=> \E c \in S : x \in Ancestors({c})
  BY <1>2, <1>3
<1>9. \A x : x \in Below(TreesOf(A)) <=> \E c \in S : x \in Below(TreesOf(Ancestors({c})))
  BY <1>4, <1>5
<1> HIDE DEF A, U, V
<1> QED
  BY <1>6, <1>7, <1>8, <1>9 DEF A

\* The bitmaps git writes are right, and so is a repository without any.
LEMMA WrittenBitmapOK ==
  ASSUME NEW C \in SUBSET Commits, ClosedIn(Commits, C)
  PROVE  BitmapOK(WithBitmap(C)) /\ BitmapOK(NoBitmap)
<1> DEFINE p == WithBitmap(C)
<1>1. /\ Cardinality(C) \in Nat /\ Len(SetToSeq(C)) = Cardinality(C)
      /\ SetToSeq(C) \in [1..Cardinality(C) -> C]
  BY OrderOf
<1>2. p.commits = C /\ DOMAIN p.entries = 1..Cardinality(C)
  BY <1>1 DEF WithBitmap
<1>3. ASSUME NEW i \in 1..Cardinality(C) PROVE p.entries[i].oid = SetToSeq(C)[i]
  BY <1>1 DEF WithBitmap
<1>4. ASSUME NEW i \in DOMAIN p.entries
      PROVE  p.entries[i].oid \in Commits /\ DecodeEntry(p, i) = ClosureOf(Ancestors({p.entries[i].oid}))
  BY <1>1, <1>2, <1>3, DecodedBitmaps
<1>5. BitmapOK(p)
  BY <1>2, <1>4 DEF BitmapOK
<1>6. BitmapOK(NoBitmap)
  BY DEF BitmapOK, NoBitmap, ClosedIn
<1> QED
  BY <1>5, <1>6

\* The union of the bitmaps of some commits is what a walk from them finds.
LEMMA UnionIsWalk ==
  ASSUME NEW p, BitmapOK(p), NEW oids \in SUBSET Commits, HasEntries(p, oids)
  PROVE  UnionBitmap(p, oids) = ClosureOf(Ancestors(oids))
<1> DEFINE bits == [i \in EntriesOf(p, oids) |-> DecodeEntry(p, i)]
<1>1. \A x : x \in UnionBitmap(p, oids) <=> \E i \in EntriesOf(p, oids) : x \in DecodeEntry(p, i)
  <2>1. UnionBitmap(p, oids) = UNION { bits[i] : i \in EntriesOf(p, oids) }
    BY DEF UnionBitmap
  <2>2. \A x : x \in UNION { bits[i] : i \in EntriesOf(p, oids) } <=> \E i \in EntriesOf(p, oids) : x \in bits[i]
    BY UnionOf
  <2>3. \A i \in EntriesOf(p, oids) : bits[i] = DecodeEntry(p, i)
    OBVIOUS
  <2> HIDE DEF bits
  <2> QED
    BY <2>1, <2>2, <2>3
<1>2. \A i \in EntriesOf(p, oids) :
        p.entries[i].oid \in oids /\ DecodeEntry(p, i) = ClosureOf(Ancestors({p.entries[i].oid}))
  BY DEF EntriesOf, BitmapOK
<1>3. \A c \in oids : \E i \in EntriesOf(p, oids) : p.entries[i].oid = c
  BY DEF HasEntries, EntriesOf
<1> HIDE DEF bits
<1>4. ASSUME NEW x
      PROVE  x \in UnionBitmap(p, oids) <=> \E c \in oids : x \in ClosureOf(Ancestors({c}))
  <2>1. ASSUME x \in UnionBitmap(p, oids) PROVE \E c \in oids : x \in ClosureOf(Ancestors({c}))
    <3>1. PICK i \in EntriesOf(p, oids) : x \in DecodeEntry(p, i)
      BY <1>1, <2>1
    <3> QED
      BY <1>2, <3>1
  <2>2. ASSUME NEW c \in oids, x \in ClosureOf(Ancestors({c})) PROVE x \in UnionBitmap(p, oids)
    <3>1. PICK i \in EntriesOf(p, oids) : p.entries[i].oid = c
      BY <1>3
    <3>2. x \in DecodeEntry(p, i)
      BY <1>2, <2>2, <3>1
    <3> QED
      BY <1>1, <3>2
  <2> QED
    BY <2>1, <2>2
<1>5. \A x : x \in UnionBitmap(p, oids) <=> x \in ClosureOf(Ancestors(oids))
  BY <1>4, ClosureByCommit
<1> QED
  BY <1>5

\* A bitmap changes nothing but the time it takes: the have-set taken from it
\* is the one build_have_set finds by walking.
THEOREM HaveSetsAgree ==
  ASSUME NEW p, BitmapOK(p), NEW have \in SUBSET Commits
  PROVE  HaveSet(p, have) = BuildHaveSet(have)
BY UnionIsWalk DEF HaveSet, BuildHaveSet

\* A walk that skips everything under some commits finds just the rest.
LEMMA WalkIsDifference ==
  ASSUME NEW S \in SUBSET Files, NEW K, NEW F \in SUBSET Files,
         TreeClosed(F, {}), K \intersect Files = F
  PROVE  Descend(S, K) = Below(S) \ F
<1>1. Below(S) \subseteq Descend(S, K) \union F
  BY WalkSplit
<1>2. Descend(S, K) \subseteq Below(S)
  BY DescendBelow
<1>3. Descend(S, K) =
        { o \in Files :
            \A T \in SUBSET Files : S \ F \subseteq T /\ TreeClosed(T, F) => o \in T }
  BY DEF Descend, TreeWalk
<1> DEFINE T == Below(S) \ F
<1>4. T \in SUBSET Files /\ S \ F \subseteq T /\ TreeClosed(T, F)
  BY BelowClosed DEF TreeClosed
<1>5. Descend(S, K) \subseteq T
  BY <1>3, <1>4
<1> QED
  BY <1>1, <1>5

\* A pack is sent as it is only when it holds exactly the objects that the walk
\* would select for the same request.
THEOREM ReuseIsExact ==
  ASSUME NEW p, BitmapOK(p), NEW want \in SUBSET Commits, NEW have \in SUBSET Commits,
         CoversExactly(p, want, have), NEW opts, opts.deepen = 0, opts.filter = "none"
  PROVE  PackFile(p) = ObjectsForFetch(want, have, opts, BuildHaveSet(have))
<1> DEFINE W == Ancestors(want)
           H == Ancestors(have)
           M == W \ H
           F == Below(TreesOf(H))
<1>1. W \in SUBSET Commits /\ H \in SUBSET Commits /\ M \in SUBSET Commits
  BY HistoryIsClosed
<1>2. PackFile(p) = ClosureOf(W) \ ClosureOf(H)
  BY UnionIsWalk DEF CoversExactly
<1>3. /\ ClosureOf(W) = W \union Below(TreesOf(W)) /\ ClosureOf(H) = H \union F
      /\ Below(TreesOf(W)) \subseteq Files /\ F \subseteq Files
      /\ ClosureOf(H) \intersect Files = F
  BY <1>1, ClosureParts
<1>4. Files \intersect Commits = {}
  BY TreeAssumption DEF Files
<1>5. TreesOf(M) \in SUBSET Files /\ TreesOf(H) \in SUBSET Files
  BY <1>1, RootsAreFiles
<1>6. F \in SUBSET Files /\ TreeClosed(F, {})
  BY <1>5, BelowClosed
<1>7. Descend(TreesOf(M), ClosureOf(H)) = Below(TreesOf(M)) \ F
  <2> HIDE DEF F, M
  <2>1. ClosureOf(H) \intersect Files = F
    BY <1>3
  <2> QED
    BY <1>5, <1>6, <2>1, WalkIsDifference
<1>8. Below(TreesOf(W)) \ F = Below(TreesOf(M)) \ F
  <2>1. W \intersect H \in SUBSET Commits /\ W = M \union (W \intersect H) /\ H = H \union (W \intersect H)
    BY <1>1
  <2>2. Below(TreesOf(W)) = Below(TreesOf(M)) \union Below(TreesOf(W \intersect H))
    BY <1>1, <2>1, BelowUnion
  <2>3. F = F \union Below(TreesOf(W \intersect H))
    BY <1>1, <2>1, BelowUnion
  <2> QED
    BY <2>2, <2>3
<1>9. want \intersect Commits = want /\ want \ Commits = {}
  OBVIOUS
<1>10. ObjectsForFetch(want, have, opts, BuildHaveSet(have)) =
         M \union Descend(TreesOf(M), ClosureOf(H))
  <2>1. /\ CommitWants(want) = want /\ DirectObjects(want) = {} /\ ~ (opts.deepen > 0)
        /\ Omitted(opts.filter) = {} /\ BuildHaveSet(have) = ClosureOf(H)
    BY <1>9 DEF CommitWants, DirectObjects, Omitted, BuildHaveSet
  <2>2. ClosureOf(H) \union {} = ClosureOf(H)
    OBVIOUS
  <2> QED
    BY <2>1, <2>2 DEF ObjectsForFetch
<1>11. (W \union Below(TreesOf(W))) \ (H \union F) = M \union (Below(TreesOf(W)) \ F)
  <2> HIDE DEF W, H, F
  <2> QED
    BY <1>1, <1>3, <1>4
<1> QED
  BY <1>2, <1>3, <1>7, <1>8, <1>10, <1>11

\* A plain request (neither depth nor filter, commits wanted) over a store that
\* has the wants and the haves with their history gets the same pack from every
\* backend: from the two tree walks and the subtraction of KvBackend and
\* SqlBackend, from objects_for_fetch of FsGitoxide, and from git pack-objects.
THEOREM BackendsAgree ==
  ASSUME NEW known \in SUBSET Commits, ClosedIn(Commits, known),
         NEW want \in SUBSET known, NEW haves \in SUBSET known,
         NEW opts, opts.deepen = 0, opts.filter = "none"
  PROVE  LET walked == ObjectsForFetch(want, haves, opts, BuildHaveSet(haves))
         IN  /\ Chosen(known, want, haves) \intersect ClosureOf(known) = walked
             /\ PackObjectsOut(want, haves, {}, "none") = walked
<1> DEFINE H == Ancestors(haves)
           M == Ancestors(want) \ H
           F == Below(TreesOf(H))
           walk == M \union Descend(TreesOf(M), ClosureOf(H))
<1>1. H \in SUBSET Commits /\ M \in SUBSET Commits
  BY HistoryIsClosed
<1>2. ClosureOf(H) = H \union F /\ F \subseteq Files /\ ClosureOf(H) \intersect Files = F
  BY <1>1, ClosureParts
<1>3. TreesOf(M) \in SUBSET Files /\ F \in SUBSET Files /\ TreeClosed(F, {})
  BY <1>1, RootsAreFiles, BelowClosed
<1>4. Descend(TreesOf(M), ClosureOf(H)) = Below(TreesOf(M)) \ F
  <2> HIDE DEF F, M
  <2>1. ClosureOf(H) \intersect Files = F
    BY <1>2
  <2> QED
    BY <1>3, <2>1, WalkIsDifference
<1>5. Content(want, haves) = walk
  <2>1. Files \intersect Commits = {} /\ Below(TreesOf(M)) \subseteq Files
    BY <1>3, BelowClosed, TreeAssumption DEF Files
  <2>2. Content(want, haves) = (M \union Below(TreesOf(M))) \ (H \union F)
    BY DEF Content, Missing
  <2>3. M \intersect H = {}
    OBVIOUS
  <2> HIDE DEF M, H, F
  <2>4. (M \union Below(TreesOf(M))) \ (H \union F) = M \union (Below(TreesOf(M)) \ F)
    BY <1>1, <1>2, <2>1, <2>3
  <2> QED
    BY <1>4, <2>2, <2>4
<1>6. Chosen(known, want, haves) \intersect ClosureOf(known) = Content(want, haves)
  <2>1. /\ Chosen(known, want, haves) = Content(want, haves)
        /\ Content(want, haves) \subseteq ClosureOf(known)
    BY SelectionStable
  <2> QED
    BY <2>1
<1>7. /\ CommitWants(want) = want /\ DirectObjects(want) = {} /\ Omitted("none") = {}
      /\ BuildHaveSet(haves) = ClosureOf(H)
  BY DEF CommitWants, DirectObjects, Omitted, BuildHaveSet
<1>8. ObjectsForFetch(want, haves, opts, BuildHaveSet(haves)) = walk
  <2>1. ~ (opts.deepen > 0) /\ ClosureOf(H) \union {} = ClosureOf(H)
    OBVIOUS
  <2> QED
    BY <1>7, <2>1 DEF ObjectsForFetch
<1>9. PackObjectsOut(want, haves, {}, "none") = walk
  <2>1. Commits \ {} = Commits
    OBVIOUS
  <2> QED
    BY <1>7, <2>1 DEF PackObjectsOut, Ancestors
<1> QED
  BY <1>5, <1>6, <1>8, <1>9

(***************************************************************************)
(* Complete clients                                                        *)
(***************************************************************************)

\* Objects with everything under their commits, up to the shallow ones and but
\* for what a filter leaves out.
Complete(O, cuts, filter) ==
  /\ O \subseteq Objects
  /\ ClosedIn(Commits \ cuts, O \intersect Commits)
  /\ Below(TreesOf(O \intersect Commits)) \ Omitted(filter) \subseteq O

\* Trees and blobs make nothing incomplete.
LEMMA FilesComplete ==
  ASSUME NEW O, NEW lack, Complete(O, {}, lack), NEW P \in SUBSET Files, NEW cuts, NEW w,
         Omitted(lack) \subseteq Omitted(w)
  PROVE  Complete(O \union P, cuts, w)
<1>1. (O \union P) \intersect Commits = O \intersect Commits
  BY TreeAssumption DEF Files
<1>2. ClosedIn(Commits \ cuts, O \intersect Commits)
  BY DEF Complete, ClosedIn
<1> QED
  BY <1>1, <1>2 DEF Complete, Objects

\* Commits whose parents are there too or cut off, with what is under them but
\* for a filter and what the client has, make nothing incomplete.
LEMMA CommitsComplete ==
  ASSUME NEW O, NEW lack, Complete(O, {}, lack), NEW haves \in SUBSET (O \intersect Commits),
         NEW M \in SUBSET Commits, NEW cuts, \A c \in M \ cuts : Parents[c] \subseteq M \union O,
         NEW f, NEW w, Omitted(lack) \subseteq Omitted(w), Omitted(f) \subseteq Omitted(w)
  PROVE  Complete(O \union M \union (Descend(TreesOf(M), BuildHaveSet(haves)) \ Omitted(f)), cuts, w)
<1> DEFINE C == O \intersect Commits
           H == Ancestors(haves)
           K == BuildHaveSet(haves)
           F == Below(TreesOf(H))
           D == Descend(TreesOf(M), K)
           P == O \union M \union (D \ Omitted(f))
<1>1. C \in SUBSET Commits /\ ClosedIn(Commits, C) /\ H \in SUBSET Commits /\ H \subseteq C
  <2>1. C \in SUBSET Commits /\ ClosedIn(Commits, C)
    BY DEF Complete, ClosedIn
  <2>2. haves \in SUBSET Commits /\ haves \subseteq C
    OBVIOUS
  <2>3. H \subseteq C
    BY <2>1, <2>2, InClosed DEF Ancestors
  <2> QED
    BY <2>1, <2>3
<1>2. TreesOf(M) \in SUBSET Files /\ TreesOf(H) \in SUBSET Files
  BY <1>1, RootsAreFiles
<1>3. K \intersect Files = F /\ F \in SUBSET Files /\ TreeClosed(F, {})
  BY <1>1, <1>2, ClosureParts, BelowClosed DEF BuildHaveSet
<1>4. D \subseteq Files /\ Files \intersect Commits = {}
  BY <1>2, DescendClosed, TreeAssumption DEF Files
<1>5. P \intersect Commits = C \union M
  BY <1>4
<1>6. P \subseteq Objects
  BY <1>4 DEF Complete, Objects
<1>7. ClosedIn(Commits \ cuts, C \union M)
  <2> SUFFICES ASSUME NEW c \in (C \union M) \intersect (Commits \ cuts) PROVE Parents[c] \subseteq C \union M
    BY DEF ClosedIn
  <2>1. Parents[c] \subseteq Commits
    BY ParentsAssumption
  <2>2. CASE c \in C
    BY <1>1, <2>2 DEF ClosedIn
  <2>3. CASE c \in M
    BY <2>1, <2>3
  <2> QED
    BY <2>2, <2>3
<1>8. Below(TreesOf(M)) \subseteq D \union F
  <2>1. K \intersect Files \subseteq F
    BY <1>3
  <2> HIDE DEF F, K
  <2> QED
    BY <1>2, <1>3, <2>1, WalkSplit
<1>9. F \subseteq Below(TreesOf(C))
  <2>1. C = C \union H
    BY <1>1
  <2>2. Below(TreesOf(C)) = Below(TreesOf(C)) \union Below(TreesOf(H))
    BY <1>1, <2>1, BelowUnion
  <2> QED
    BY <2>2
<1>10. Below(TreesOf(C \union M)) = Below(TreesOf(C)) \union Below(TreesOf(M))
  BY <1>1, BelowUnion
<1>11. Below(TreesOf(C)) \ Omitted(w) \subseteq O
  BY DEF Complete
<1>12. Below(TreesOf(C \union M)) \ Omitted(w) \subseteq P
  <2> HIDE DEF C, F, D
  <2> QED
    BY <1>8, <1>9, <1>10, <1>11
<1> HIDE DEF C, D, F, K, H, P
<1>13. Complete(P, cuts, w)
  BY <1>5, <1>6, <1>7, <1>12 DEF Complete
<1> QED
  BY <1>13 DEF P, D, K

\* Without a start a walk finds nothing.
LEMMA NoHistory == Ancestors({}) = {}
<1>1. {} \in SUBSET Commits /\ ClosedIn(Commits, {})
  BY DEF ClosedIn
<1> QED
  BY <1>1, InClosed DEF Ancestors

\* A request of a client that is complete but for a filter, and not shallow:
\* for commits or for single objects, with haves it has.  The filter of the
\* request, and the client's, leave out no more than w does.
Sound(O, lack, haves, want, filter, w) ==
  /\ Complete(O, {}, lack)
  /\ haves \subseteq O \intersect Commits
  /\ want \subseteq Objects
  /\ want \subseteq Commits \/ want \subseteq Files
  /\ Omitted(lack) \subseteq Omitted(w)
  /\ Omitted(filter) \subseteq Omitted(w)

\* What a pack with its shallow lines must do for such a client.
Answers(P, cuts, O, want, w) ==
  /\ P \subseteq Objects /\ cuts \subseteq Commits
  /\ Complete(O \union P, cuts, w)
  /\ want \subseteq O \union P

\* objects_for_fetch, whatever the depth and the filter: with the pack and the
\* shallow lines the client is complete again, and has what it asked for.
THEOREM FetchCompletes ==
  ASSUME NEW O, NEW lack, NEW haves, NEW want, NEW opts \in Option, NEW w,
         Sound(O, lack, haves, want, opts.filter, w),
         NEW cuts, opts.deepen = 0 => cuts = {},
         opts.deepen # 0 => cuts = ShallowBoundary(CommitWants(want), haves, opts.deepen)
  PROVE  Answers(ObjectsForFetch(want, haves, opts, BuildHaveSet(haves)), cuts, O, want, w)
<1> DEFINE tips == CommitWants(want)
           direct == DirectObjects(want)
           K == BuildHaveSet(haves)
           M == IF opts.deepen > 0 THEN DepthLimited(tips, haves, opts.deepen)
                ELSE Ancestors(tips) \ Ancestors(haves)
           D == Descend(TreesOf(M), K \union direct)
           P == ObjectsForFetch(want, haves, opts, K)
<1>0. /\ opts.deepen \in Nat
      /\ Complete(O, {}, lack) /\ haves \in SUBSET (O \intersect Commits)
      /\ want \in SUBSET Objects /\ (want \subseteq Commits \/ want \subseteq Files)
      /\ Omitted(lack) \subseteq Omitted(w) /\ Omitted(opts.filter) \subseteq Omitted(w)
  BY DEF Option, Sound
<1>1. P = direct \union M \union (D \ Omitted(opts.filter))
  BY DEF ObjectsForFetch
<1>2. tips \in SUBSET Commits /\ direct \in SUBSET Files /\ want = tips \union direct
  BY <1>0 DEF CommitWants, DirectObjects, Objects
<1>3. /\ M \subseteq Ancestors(tips) /\ cuts \subseteq Commits /\ tips \subseteq M \union O
      /\ \A c \in M \ cuts : Parents[c] \subseteq M \union O
  <2>0. Ancestors(tips) \subseteq Commits
    BY <1>2, HistoryIsClosed
  <2>1. CASE opts.deepen > 0
    <3>1. opts.deepen \in Nat \ {0} /\ opts.deepen # 0
      BY <1>0, <2>1
    <3>2. M = DepthLimited(tips, haves, opts.deepen) /\ cuts = ShallowBoundary(tips, haves, opts.deepen)
      BY <2>1, <3>1
    <3> HIDE DEF M, tips
    <3>3. /\ M \subseteq Ancestors(tips) /\ cuts \subseteq M /\ tips \subseteq M \union haves
          /\ \A c \in M \ cuts : Parents[c] \subseteq M \union haves
      BY <1>2, <3>1, <3>2, ShallowFetch
    <3> QED
      BY <1>0, <2>0, <3>3
  <2>2. CASE ~ (opts.deepen > 0)
    <3>1. opts.deepen = 0 /\ cuts = {} /\ M = Ancestors(tips) \ Ancestors(haves)
      BY <1>0, <2>2
    <3> HIDE DEF M, tips
    <3>2. ClosedIn(Commits, O \intersect Commits) /\ O \intersect Commits \in SUBSET Commits
      BY <1>0 DEF Complete, ClosedIn
    <3>3. Ancestors(haves) \subseteq O
      BY <1>0, <3>2, InClosed DEF Ancestors
    <3>4. tips \subseteq Ancestors(tips) /\ ClosedIn(Commits, Ancestors(tips))
      BY <1>2, HistoryIsClosed
    <3> QED
      BY <2>0, <3>1, <3>3, <3>4 DEF ClosedIn
  <2> QED
    BY <2>1, <2>2
<1>4. M \in SUBSET Commits
  BY <1>2, <1>3, HistoryIsClosed
<1>5. D \subseteq Files
  BY <1>4, RootsAreFiles, DescendClosed
<1>6. P \subseteq Objects
  BY <1>1, <1>2, <1>4, <1>5 DEF Objects
<1>7. want \subseteq O \union P
  BY <1>1, <1>2, <1>3
<1>8. Complete(O \union P, cuts, w)
  <2>1. CASE want \subseteq Commits
    <3>1. direct = {}
      BY <2>1 DEF DirectObjects
    <3>2. O \union P = O \union M \union (Descend(TreesOf(M), K) \ Omitted(opts.filter))
      BY <1>1, <3>1
    <3> HIDE DEF M, K, P
    <3>3. Complete(O \union M \union (Descend(TreesOf(M), BuildHaveSet(haves)) \ Omitted(opts.filter)), cuts, w)
      BY <1>0, <1>3, <1>4, CommitsComplete
    <3> QED
      BY <3>2, <3>3 DEF K
  <2>2. CASE want \subseteq Files
    <3>1. tips = {}
      BY <2>2, TreeAssumption DEF CommitWants, Files
    <3> HIDE DEF tips, M, D, direct, P
    <3>2. M = {}
      BY <1>3, <3>1, NoHistory
    <3>3. P \in SUBSET Files
      BY <1>1, <1>2, <1>5, <3>2
    <3> QED
      BY <1>0, <3>3, FilesComplete
  <2> QED
    BY <1>0, <2>1, <2>2
<1> QED
  BY <1>3, <1>6, <1>7, <1>8 DEF Answers

\* The pack FsGitCli has git pack-objects write, whatever shallow roots git
\* rev-list gave and whatever the filter: with it and those shallow lines the
\* client is complete again, and has what it asked for.
THEOREM CliFetchCompletes ==
  ASSUME NEW O, NEW lack, NEW haves, NEW want, NEW f, NEW w,
         Sound(O, lack, haves, want, f, w), NEW cuts \in SUBSET Commits
  PROVE  Answers(PackObjectsOut(want, haves, cuts, f), cuts, O, want, w)
<1> DEFINE tips == CommitWants(want)
           direct == DirectObjects(want)
           K == BuildHaveSet(haves)
           known == Commits \ cuts
           M == AncestorsIn(known, tips) \ AncestorsIn(known, haves)
           D == Descend(TreesOf(M), K)
           P == PackObjectsOut(want, haves, cuts, f)
<1>0. /\ Complete(O, {}, lack) /\ haves \in SUBSET (O \intersect Commits)
      /\ want \in SUBSET Objects /\ (want \subseteq Commits \/ want \subseteq Files)
      /\ Omitted(lack) \subseteq Omitted(w) /\ Omitted(f) \subseteq Omitted(w)
  BY DEF Sound
<1>1. P = direct \union M \union (D \ Omitted(f))
  BY DEF PackObjectsOut
<1>2. tips \in SUBSET Commits /\ direct \in SUBSET Files /\ want = tips \union direct
  BY <1>0 DEF CommitWants, DirectObjects, Objects
<1>3. AncestorsIn(known, haves) \subseteq O
  <2>1. O \intersect Commits \in SUBSET Commits /\ ClosedIn(known, O \intersect Commits)
    BY <1>0 DEF Complete, ClosedIn
  <2> QED
    BY <1>0, <2>1, InClosed
<1>4. /\ tips \subseteq AncestorsIn(known, tips) /\ AncestorsIn(known, tips) \subseteq Commits
      /\ ClosedIn(known, AncestorsIn(known, tips)) /\ AncestorsIn(known, tips) \subseteq Ancestors(tips)
  <2>1. known \in SUBSET Commits
    OBVIOUS
  <2> HIDE DEF known, tips
  <2> QED
    BY <1>2, <2>1, WalkIsClosed
<1>5. /\ M \in SUBSET Commits /\ tips \subseteq M \union O
      /\ \A c \in M \ cuts : Parents[c] \subseteq M \union O
  <2> DEFINE A == AncestorsIn(known, tips)
             B == AncestorsIn(known, haves)
  <2>1. A \subseteq Commits /\ tips \subseteq A /\ B \subseteq O
    BY <1>3, <1>4
  <2>2. \A c \in A \ cuts : Parents[c] \subseteq A
    BY <1>4 DEF ClosedIn
  <2> HIDE DEF A, B
  <2>3. M = A \ B
    BY DEF A, B
  <2> HIDE DEF M
  <2> QED
    BY <2>1, <2>2, <2>3
<1>6. D \subseteq Files
  <2> HIDE DEF M
  <2>1. TreesOf(M) \in SUBSET Files
    BY <1>5, RootsAreFiles
  <2> QED
    BY <2>1, DescendClosed
<1>7. P \subseteq Objects
  BY <1>1, <1>2, <1>5, <1>6 DEF Objects
<1>8. want \subseteq O \union P
  BY <1>1, <1>2, <1>5
<1>9. Complete(O \union P, cuts, w)
  <2>1. CASE want \subseteq Commits
    <3>1. direct = {}
      BY <2>1 DEF DirectObjects
    <3>2. O \union P = O \union M \union (Descend(TreesOf(M), K) \ Omitted(f))
      BY <1>1, <3>1
    <3> HIDE DEF M, K, P
    <3>3. Complete(O \union M \union (Descend(TreesOf(M), BuildHaveSet(haves)) \ Omitted(f)), cuts, w)
      BY <1>0, <1>5, CommitsComplete
    <3> QED
      BY <3>2, <3>3 DEF K
  <2>2. CASE want \subseteq Files
    <3>1. tips = {}
      BY <2>2, TreeAssumption DEF CommitWants, Files
    <3>2. M = {}
      BY <1>4, <3>1, NoHistory
    <3> HIDE DEF tips, M, D, direct, P
    <3>3. P \in SUBSET Files
      BY <1>1, <1>2, <1>6, <3>2
    <3> QED
      BY <1>0, <3>3, FilesComplete
  <2> QED
    BY <1>0, <2>1, <2>2
<1> QED
  BY <1>7, <1>8, <1>9 DEF Answers

\* ship_pack_as_is: a pack that covers a request exactly completes the client
\* and gives it what it asked for, although no walk has selected it.
THEOREM ReuseCompletes ==
  ASSUME NEW O, NEW lack, NEW haves, NEW want, NEW f, NEW w, Sound(O, lack, haves, want, f, w),
         NEW p, BitmapOK(p), CoversExactly(p, want, haves), NEW cuts \in SUBSET Commits
  PROVE  Answers(PackFile(p), cuts, O, want, w)
<1> DEFINE C == O \intersect Commits
           B == p.commits
           P == PackFile(p)
<1>0. /\ Complete(O, {}, lack) /\ haves \in SUBSET (O \intersect Commits)
      /\ want \in SUBSET Commits /\ Omitted(lack) \subseteq Omitted(w)
  BY DEF Sound, CoversExactly, HasEntries, BitmapOK
<1>1. B \in SUBSET Commits /\ ClosedIn(Commits, B) /\ C \in SUBSET Commits /\ ClosedIn(Commits, C)
  BY <1>0 DEF BitmapOK, Complete, ClosedIn
<1>2. /\ P = B \union Below(TreesOf(B)) /\ P \intersect Commits = B /\ P \subseteq Objects
  BY <1>1, ClosureParts DEF PackFile
<1>3. haves \in SUBSET Commits /\ Ancestors(haves) \subseteq C
  BY <1>0, <1>1, InClosed DEF Ancestors
<1>4. ClosureOf(Ancestors(want)) \ ClosureOf(Ancestors(haves)) = P
  BY <1>0, <1>3, UnionIsWalk DEF CoversExactly
<1>5. want \subseteq O \union P
  <2>1. Ancestors(want) \in SUBSET Commits /\ Ancestors(haves) \in SUBSET Commits /\ want \subseteq Ancestors(want)
    BY <1>0, <1>3, HistoryIsClosed
  <2>2. want \subseteq ClosureOf(Ancestors(want)) /\ ClosureOf(Ancestors(haves)) \intersect Commits = Ancestors(haves)
    BY <2>1, ClosureParts
  <2> QED
    BY <1>0, <1>3, <1>4, <2>2
<1>6. (O \union P) \intersect Commits = C \union B
  BY <1>2
<1>7. ClosedIn(Commits \ cuts, C \union B)
  BY <1>1 DEF ClosedIn
<1>8. Below(TreesOf(C \union B)) = Below(TreesOf(C)) \union Below(TreesOf(B))
  BY <1>1, BelowUnion
<1>9. Below(TreesOf(C)) \ Omitted(w) \subseteq O /\ O \subseteq Objects
  BY <1>0 DEF Complete
<1> HIDE DEF C, B, P
<1>10. Complete(O \union P, cuts, w)
  BY <1>2, <1>6, <1>7, <1>8, <1>9 DEF Complete
<1> QED
  BY <1>2, <1>5, <1>10 DEF P, Answers
=============================================================================
