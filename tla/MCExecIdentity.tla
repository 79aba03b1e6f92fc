--------------------------- MODULE MCExecIdentity ---------------------------
(***************************************************************************)
(* ExecIdentity for TLC: jobs, files and their data are interchangeable.        *)
(***************************************************************************)
EXTENDS ExecIdentity, TLC

Symmetry == Permutations(Jobs) \cup Permutations(Objects) \cup Permutations(Data)
=============================================================================
