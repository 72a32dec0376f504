------------------------- MODULE MCRuntimeLifecycle -------------------------
(* Runtime for TLC, started, stopped and reset, with a cap and without.      *)
EXTENDS Runtime, TLC

FiberSymmetry == Permutations(Fibers)
=============================================================================
