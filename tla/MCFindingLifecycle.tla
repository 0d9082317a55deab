------------------------ MODULE MCFindingLifecycle ------------------------
(* Two sessions, a scan, a later scan and an import; one commit dated       *)
(* at the second clock reading; six decisions.                              *)
EXTENDS FindingLifecycle, TLC

CONSTANTS s1, s2, j1, j2, imported, c1

Decision(lifecycle, status, triage) ==
  [lifecycle |-> lifecycle, status |-> status, triage |-> triage]

MCRequests ==
  {Decision("REMEDIATED", Nothing, Nothing),
   Decision(Nothing, "open", "reopened"), Decision(Nothing, Nothing, "note"),
   Decision("NEW", Nothing, Nothing), Decision("REGRESSED", "open", Nothing),
   Decision("CONFIRMED", "open", Nothing)}

Match(commit, added, tool) ==
  [commit |-> commit, added |-> added, history |-> tool]

MCObservations ==
  {Match(None, FALSE, FALSE), Match(None, FALSE, TRUE),
   Match(c1, TRUE, TRUE), Match(c1, FALSE, TRUE)}

MCCommitTime == [c \in Commits |-> 2]

Symmetry == Permutations(Sessions) \union Permutations(Jobs \ Ingested)
=============================================================================
