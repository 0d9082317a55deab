------------------------- MODULE MCRepositoryScan -------------------------
(* A cache of three commits in a line, c1 <- c2 <- c3, whose history scans  *)
(* are capped at one commit: a ref that moves back is a forced push, and a  *)
(* tag object names c2.                                                     *)
EXTENDS RepositoryScan, TLC

CONSTANTS p1, p2, c1, c2, c3, tag, history, tree, main, k1, k2

MCAnc == (c1 :> {c1}) @@ (c2 :> {c1, c2}) @@ (c3 :> {c1, c2, c3})
MCNewest == [c \in Commits |-> {c}]
MCPeel == (tag :> c2) @@ [c \in Commits |-> c]

Symmetry == Permutations(Sessions) \union Permutations(Keys)
=============================================================================
