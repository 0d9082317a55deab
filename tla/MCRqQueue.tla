----------------------------- MODULE MCRqQueue -----------------------------
(* Instances of RqQueue for TLC.                                            *)
EXTENDS RqQueue, TLC

CONSTANTS t1, t2, p1, p2, w1, w2

Symmetry == Permutations(TaskIds) \union Permutations(Publishers) \union Permutations(Workers)
=============================================================================
