--------------------------- MODULE MCReceivePack ----------------------------
(***************************************************************************)
(* ReceivePack for TLC: a history of four commits, the packs that carry    *)
(* them and the pushes clients send.                                       *)
(***************************************************************************)
EXTENDS ReceivePack, TLC

CONSTANTS
  a, b, c, d,  \* commits: b and c are children of a, d of b
  k1, k2, k3,
  main, topic

MCAnc == a :> {a} @@ b :> {a, b} @@ c :> {a, c} @@ d :> {a, b, d}

\* One pack per commit, or two in one pack.
MCContents == k1 :> {b} @@ k2 :> {c} @@ k3 :> {d}
MCOnePack == k1 :> {b, c}

\* No property names a handler.
HandlerSymmetry == Permutations(Handlers)

Push(via, b0, k) == [via |-> via, batch |-> b0, pack |-> k]
Cmd(old, new) == [old |-> old, new |-> new]

\* Two pushes race from the same old value; one needs a commit that another
\* brought; one rewinds an unprotected branch and one deletes it; one updates
\* both refs; one has two null ids; one carries objects and no command.
MCRequests ==
  { Push("http", main :> Cmd(a, b), k1),
    Push("ssh", main :> Cmd(a, c), k2),
    Push("ssh", topic :> Cmd(b, c), k2),
    Push("http", main :> Cmd(b, d), k3),
    Push("http", topic :> Cmd(b, Null), NoPack),
    Push("ssh", main :> Cmd(a, b) @@ topic :> Cmd(Null, b), k1),
    Push("ssh", main :> Cmd(Null, Null), NoPack),
    Push("http", EmptyBatch, k1) }

\* Pushes of one pack to two sibling commits, and one of two deletions.
MCSamePack ==
  { Push("http", main :> Cmd(a, b), k1),
    Push("ssh", main :> Cmd(a, c), k1),
    Push("ssh", main :> Cmd(a, Null) @@ topic :> Cmd(a, Null), NoPack) }
=============================================================================
