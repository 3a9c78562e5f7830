-------------------------- MODULE MCRefTransaction --------------------------
(***************************************************************************)
(* RefTransaction for TLC: the updates a client may send.                  *)
(***************************************************************************)
EXTENDS RefTransaction

CONSTANTS a, b

\* A create, an update and a delete: two pushes can race to create a ref, race
\* from the same old value, and delete what the other one creates again.
MCUpdates ==
  { [old |-> Null, new |-> a], [old |-> a, new |-> b],
    [old |-> b, new |-> Null] }
=============================================================================
