---------------------------- MODULE MCConnector -----------------------------
(***************************************************************************)
(* Connector for TLC: a request of two chunks and more, and a short one    *)
(* that takes a block from it.                                             *)
(***************************************************************************)
EXTENDS Connector

CONSTANTS long, short

Both == {long, short}
Prompts == {[r \in Both |-> IF r = long THEN n ELSE 1] : n \in 2 .. 4}
Limits == [r \in Both |-> IF r = long THEN 4 ELSE 1]

=============================================================================
