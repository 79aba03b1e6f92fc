---------------------------- MODULE MCRulePolicy ----------------------------
(***************************************************************************)
(* RulePolicy for TLC: an interpreter with one script and another program, *)
(* four rules to add, three changes to make of them.                       *)
(***************************************************************************)
EXTENDS RulePolicy, TLC

CONSTANTS a1, a2, p1, py, bin, x, v1, v2

R(action, access, image, s, pin) ==
    [action |-> action, access |-> access, image |-> image, script |-> s, pin |-> pin]
E(action, access, pin) == [action |-> action, access |-> access, pin |-> pin]

\* Allow one program to write; deny everybody to write; allow a script to read,
\* and deny it.
MCEntries == {R("allow", "write", bin, NoScript, Unpinned),
              R("deny", "write", Unpinned, NoScript, Unpinned),
              R("allow", "read", py, x, v1),
              R("deny", "read", Unpinned, x, v1)}

MCEdits == {E("keep", "read", "keep"), E("allow", "any", "keep"), E("keep", "keep", Unpinned)}

\* The configuration allows a program everything.
MCDeclared == {R("allow", "any", bin, NoScript, Unpinned)}

Symmetry == Permutations(Opens)
=============================================================================
