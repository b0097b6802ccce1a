---------------------------- MODULE MCFileStore -----------------------------
(***************************************************************************)
(* FileStore for TLC: an engine of a deployment of two ranks and one of    *)
(* another deployment of the same model, of one rank and larger chunks, so *)
(* that both use the same keys; a prompt whose two chunks have the same    *)
(* tokens, followed by a partial chunk, and one that differs in the second *)
(* chunk.                                                                  *)
(***************************************************************************)
EXTENDS FileStore

Model == <<"org", "/", "m">>
Mixed == {RegisterPayload(0, Model, 0, 2, 1), RegisterPayload(1, Model, 0, 1, 2)}
Branching == {<<1, 1, 1, 1, 2>>, <<1, 1, 2, 2>>}

=============================================================================
