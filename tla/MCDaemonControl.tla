-------------------------- MODULE MCDaemonControl --------------------------
(***************************************************************************)
(* DaemonControl for TLC: daemons are interchangeable.                     *)
(***************************************************************************)
EXTENDS DaemonControl, TLC

Symmetry == Permutations(Daemons)
=============================================================================
