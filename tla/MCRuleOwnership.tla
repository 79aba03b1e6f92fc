-------------------------- MODULE MCRuleOwnership --------------------------
(***************************************************************************)
(* RuleOwnership for TLC: daemons are interchangeable, and so are clients. *)
(***************************************************************************)
EXTENDS RuleOwnership, TLC

Symmetry == Permutations(Daemons) \cup Permutations(Clients)
=============================================================================
