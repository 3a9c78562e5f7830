---------------------------- MODULE CommitGraph ----------------------------
(***************************************************************************)
(* Commits and their parents, and what can be reached from a set of them.  *)
(* Reachability is the smallest set that holds the start and, with every   *)
(* commit whose parents are on record, its parents: the set the backends'  *)
(* walks and recursive queries compute.                                    *)
(***************************************************************************)
CONSTANTS
  Commits,  \* object ids of commits
  Parents   \* the parents of each commit

ASSUME ParentsAssumption == Parents \in [Commits -> SUBSET Commits]

\* The parents of every commit of S that is on record are in S.
ClosedIn(known, S) == \A c \in S \intersect known : Parents[c] \subseteq S

\* What the recursive query finds from S when the parents of the commits of
\* known are on record.
AncestorsIn(known, S) ==
  { c \in Commits :
      \A T \in SUBSET Commits : S \subseteq T /\ ClosedIn(known, T) => c \in T }

\* The whole history of S.
Ancestors(S) == AncestorsIn(Commits, S)
=============================================================================
