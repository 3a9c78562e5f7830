---------------------------- MODULE MCUploadPack ----------------------------
(***************************************************************************)
(* UploadPack for TLC: a root commit a, and b and x on it.  The root tree  *)
(* of a is a directory of b's and is the root of x again.                  *)
(***************************************************************************)
EXTENDS UploadPack, TLC

CONSTANTS a, b, x, ta, tb, u, w, c1, c2

MCParents == (a :> {}) @@ (b :> {a}) @@ (x :> {a})
MCTreeOf == (a :> ta) @@ (b :> tb) @@ (x :> ta)
MCKids == (ta :> {u}) @@ (tb :> {ta, w})

\* One client starts with nothing, the other is ahead of the server.
MCHeld == (c1 :> {}) @@ (c2 :> {a, b})

Opt(d, f) == [deepen |-> d, filter |-> f, thin |-> FALSE]

Whole == Opt(0, "none")

Thin == [Whole EXCEPT !.thin = TRUE]

Http(e, c, O) ==
  [transport |-> "http", engine |-> e, clients |-> {c}, options |-> O,
   unseen |-> {}, targets |-> {b, x}, repacked |-> e = "gitoxide"]

\* The clients know of x whether it has been pushed or not.
Unseen(g) == [g EXCEPT !.unseen = {x}]

MCKv == [Http("kv", c1, {Whole}) EXCEPT !.clients = {c1, c2}, !.targets = {x}]

MCKvOnly == {MCKv}

MCKvUnseen == {Unseen(MCKv)}

\* Clients meet in the cache and in the channels of a connection, nowhere else.
MCSettings ==
  { [Http("gitoxide", c1, {Whole}) EXCEPT !.targets = {b, x, Null}],
    Unseen(Http("gitoxide", c1, {Opt(1, "none"), Opt(2, "none")})),
    Http("gitoxide", c1, {Opt(0, "blob:none")}),
    Http("gitoxide", c2, {Whole, Thin, Opt(0, "tree:0")}),
    Unseen(Http("cli", c1, {Whole, Opt(1, "none")})),
    Http("cli", c2, {Whole, Opt(0, "blob:none")}),
    Unseen(Http("sql", c1, {Opt(0, "blob:none")})),
    MCKv,
    [Http("gitoxide", c1, {Whole}) EXCEPT
       !.transport = "ssh", !.clients = {c1, c2}, !.targets = {}] }
=============================================================================
