---------------------------- MODULE MCL1Contract ----------------------------
(***************************************************************************)
(* L1Contract for TLC: two clients, two chunks, two chunk sizes in a pool  *)
(* of four bytes, so that slices are reused, run out and fragment.         *)
(***************************************************************************)
EXTENDS L1Contract, TLC

CONSTANTS k1, k2, c1, c2

MCKeys == {k1, k2}
MCClients == {c1, c2}
MCKeyLists == {<<k1, k2>>, <<k2>>}
MCSizes == {1, 2}
Symmetry == Permutations(MCClients)

=============================================================================
