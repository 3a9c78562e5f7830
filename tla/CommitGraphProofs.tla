-------------------------- MODULE CommitGraphProofs --------------------------
(***************************************************************************)
(* What reachability in a commit graph is, for any graph: the smallest     *)
(* closed set, the same for a query over a closed store.                   *)
(***************************************************************************)
EXTENDS CommitGraph, TLAPS

\* A closed set that holds the start holds the history.
LEMMA InClosed ==
  ASSUME NEW known, NEW S, NEW T \in SUBSET Commits,
         S \subseteq T, ClosedIn(known, T)
  PROVE  AncestorsIn(known, S) \subseteq T
BY DEF AncestorsIn

\* A history holds its start and is closed.
LEMMA HistoryIsClosed ==
  ASSUME NEW S \in SUBSET Commits
  PROVE  /\ S \subseteq Ancestors(S)
         /\ Ancestors(S) \subseteq Commits
         /\ ClosedIn(Commits, Ancestors(S))
<1>1. S \subseteq Ancestors(S) /\ Ancestors(S) \subseteq Commits
  BY DEF Ancestors, AncestorsIn
<1>2. ASSUME NEW c \in Ancestors(S), NEW p \in Parents[c] PROVE p \in Ancestors(S)
  <2>1. p \in Commits
    BY <1>1, <1>2, ParentsAssumption
  <2>2. ASSUME NEW T \in SUBSET Commits, S \subseteq T, ClosedIn(Commits, T)
        PROVE  p \in T
    <3>1. c \in T
      BY <2>2 DEF Ancestors, AncestorsIn
    <3> QED
      BY <2>2, <3>1, <1>2 DEF ClosedIn
  <2> QED
    BY <2>1, <2>2 DEF Ancestors, AncestorsIn
<1> QED
  BY <1>1, <1>2 DEF ClosedIn

\* Commits whose whole history is in T.
HistoryIn(T) == { c \in Commits : Ancestors({c}) \subseteq T }

\* A set of histories is closed, so it holds the history of all its parts.
LEMMA HistoriesClosed ==
  ASSUME NEW T
  PROVE  /\ HistoryIn(T) \in SUBSET Commits
         /\ HistoryIn(T) \subseteq T
         /\ ClosedIn(Commits, HistoryIn(T))
         /\ \A S \in SUBSET HistoryIn(T) : Ancestors(S) \subseteq HistoryIn(T)
<1>1. HistoryIn(T) \in SUBSET Commits /\ HistoryIn(T) \subseteq T
  BY HistoryIsClosed DEF HistoryIn
<1>2. ASSUME NEW c \in HistoryIn(T), NEW p \in Parents[c] PROVE p \in HistoryIn(T)
  <2>1. c \in Commits /\ p \in Commits /\ Ancestors({c}) \subseteq T
    BY <1>2, ParentsAssumption DEF HistoryIn
  <2>2. /\ c \in Ancestors({c}) /\ ClosedIn(Commits, Ancestors({c}))
        /\ Ancestors({c}) \in SUBSET Commits
    BY <2>1, HistoryIsClosed
  <2>3. p \in Ancestors({c})
    BY <1>2, <2>1, <2>2 DEF ClosedIn
  <2>4. Ancestors({p}) \subseteq Ancestors({c})
    BY <2>2, <2>3, InClosed DEF Ancestors
  <2> QED
    BY <2>1, <2>4 DEF HistoryIn
<1>3. ClosedIn(Commits, HistoryIn(T))
  BY <1>2 DEF ClosedIn
<1>4. \A S \in SUBSET HistoryIn(T) : Ancestors(S) \subseteq HistoryIn(T)
  BY <1>1, <1>3, InClosed DEF Ancestors
<1> QED
  BY <1>1, <1>3, <1>4

\* With a closed store the recursive query finds the whole history.
LEMMA QueryIsHistory ==
  ASSUME NEW known \in SUBSET Commits, ClosedIn(Commits, known), NEW S \in SUBSET known
  PROVE  AncestorsIn(known, S) = Ancestors(S)
<1>1. AncestorsIn(known, S) \subseteq Ancestors(S)
  <2>1. /\ S \subseteq Ancestors(S) /\ Ancestors(S) \in SUBSET Commits
        /\ ClosedIn(Commits, Ancestors(S))
    BY HistoryIsClosed
  <2>2. ClosedIn(known, Ancestors(S))
    BY <2>1 DEF ClosedIn
  <2> QED
    BY <2>1, <2>2, InClosed
<1>2. Ancestors(S) \subseteq AncestorsIn(known, S)
  <2> SUFFICES ASSUME NEW a \in Ancestors(S), NEW T \in SUBSET Commits,
                      S \subseteq T, ClosedIn(known, T)
               PROVE  a \in T
    BY DEF Ancestors, AncestorsIn
  <2>1. ClosedIn(Commits, T \intersect known) /\ S \subseteq T \intersect known
    BY DEF ClosedIn
  <2>2. Ancestors(S) \subseteq T \intersect known
    BY <2>1, InClosed DEF Ancestors
  <2> QED
    BY <2>2
<1> QED
  BY <1>1, <1>2

\* A walk that stops at the commits whose parents are not on record, or that
\* are not to be looked at, holds its start and is closed but for them.
LEMMA WalkIsClosed ==
  ASSUME NEW known \in SUBSET Commits, NEW S \in SUBSET Commits
  PROVE  /\ S \subseteq AncestorsIn(known, S)
         /\ AncestorsIn(known, S) \subseteq Commits
         /\ ClosedIn(known, AncestorsIn(known, S))
         /\ AncestorsIn(known, S) \subseteq Ancestors(S)
<1>1. S \subseteq AncestorsIn(known, S) /\ AncestorsIn(known, S) \subseteq Commits
  BY DEF AncestorsIn
<1>2. ASSUME NEW c \in AncestorsIn(known, S) \intersect known, NEW p \in Parents[c]
      PROVE  p \in AncestorsIn(known, S)
  <2>1. p \in Commits
    BY <1>1, <1>2, ParentsAssumption
  <2>2. ASSUME NEW T \in SUBSET Commits, S \subseteq T, ClosedIn(known, T) PROVE p \in T
    <3>1. c \in T
      BY <2>2 DEF AncestorsIn
    <3> QED
      BY <2>2, <3>1, <1>2 DEF ClosedIn
  <2> QED
    BY <2>1, <2>2 DEF AncestorsIn
<1>3. ClosedIn(known, AncestorsIn(known, S))
  BY <1>2 DEF ClosedIn
<1>4. AncestorsIn(known, S) \subseteq Ancestors(S)
  <2>1. S \subseteq Ancestors(S) /\ Ancestors(S) \in SUBSET Commits /\ ClosedIn(known, Ancestors(S))
    BY HistoryIsClosed DEF ClosedIn
  <2> QED
    BY <2>1, InClosed
<1> QED
  BY <1>1, <1>3, <1>4
=============================================================================
