----------------------------- MODULE MCSpawner -----------------------------
(***************************************************************************)
(* Spawner for TLC.  Requests of a kind are interchangeable, and so are    *)
(* ports.                                                                  *)
(***************************************************************************)
EXTENDS Spawner, TLC

Symmetry == Permutations(Posts) \union Permutations(Deletes) \union Permutations(Ports)
=============================================================================
