---------------------------- MODULE MCJudgedPush ----------------------------
(***************************************************************************)
(* JudgedPush for TLC: a root a, a commit b on it, a commit x that breaks  *)
(* the rule and a commit y on x that does not.                             *)
(***************************************************************************)
EXTENDS JudgedPush, TLC

CONSTANTS a, b, x, y, m, n

MCCommits == {a, b, x, y}

MCParents == (a :> {}) @@ (b :> {a}) @@ (x :> {a}) @@ (y :> {x})

Create(c) == [old |-> Null, new |-> c]

MCUpdates == { Create(a), Create(b), Create(y), [old |-> a, new |-> Null],
               [old |-> b, new |-> a], [old |-> a, new |-> b] }

MCPushes ==
  { \* both refs at once: two pushes of it want the same two locks, and the
    \* second command is looked at with the first one excluded
    [cmds |-> (m :> Create(a)) @@ (n :> Create(b)), pack |-> {a, b}],
    \* a commit that breaks the rule, under one that does not; the objects of
    \* the refused push stay, and a second push relies on them
    [cmds |-> (m :> Create(y)), pack |-> {a, x, y}],
    [cmds |-> (m :> Create(y)), pack |-> {}],
    \* the tips that others have listed are deleted and rewound
    [cmds |-> (m :> [old |-> a, new |-> Null]) @@ (n :> [old |-> b, new |-> a]),
     pack |-> {}],
    \* a branch that moves forward
    [cmds |-> (m :> [old |-> a, new |-> b]), pack |-> {b}] }
=============================================================================
