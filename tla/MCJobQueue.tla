----------------------------- MODULE MCJobQueue -----------------------------
(* Instances of JobQueue for TLC: a recurring and a manual schedule.         *)
EXTENDS JobQueue, TLC

CONSTANTS nightly, assessment, w1, w2, e1, e2

Symmetry == Permutations(Workers) \union Permutations(Enqueuers)
=============================================================================
