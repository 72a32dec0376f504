---------------------------- MODULE MCSpawnGroup ----------------------------
(* SpawnGroup for TLC: the fibers are interchangeable.                       *)
EXTENDS SpawnGroup, TLC

FiberSymmetry == Permutations(Fibers)
=============================================================================
