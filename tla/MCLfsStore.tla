----------------------------- MODULE MCLfsStore -----------------------------
(***************************************************************************)
(* LfsStore for TLC: two objects of two chunks and one, and the requests   *)
(* clients make for them.                                                  *)
(***************************************************************************)
EXTENDS LfsStore, TLC

CONSTANTS big, small, x, y

MCContent == big :> <<x, y>> @@ small :> <<x>>

ClientSymmetry == Permutations(Clients)

Ask(op, o) == [op |-> op, oid |-> o, size |-> Len(MCContent[o]), body |-> <<>>]
Put(o, size, body) == [op |-> "put", oid |-> o, size |-> size, body |-> body]

\* Right uploads; a body that is too short, one of the right length with other
\* bytes, and one without Content-Length; a verification of the wrong size.
MCRequests ==
  { Ask(op, big) : op \in {"upload", "download", "verify", "get"} }
  \union { Ask("get", small), [Ask("verify", big) EXCEPT !.size = 1] }
  \union { Put(big, 2, <<x, y>>), Put(small, 1, <<x>>) }
  \union { Put(big, 1, <<x>>), Put(big, 2, <<y, x>>), Put(big, 0, <<x, y>>) }
=============================================================================
