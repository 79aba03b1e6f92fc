----------------------------- MODULE MCMountSet -----------------------------
(***************************************************************************)
(* MountSet for TLC: paths are interchangeable.                            *)
(***************************************************************************)
EXTENDS MountSet, TLC

Symmetry == Permutations(Paths)
=============================================================================
