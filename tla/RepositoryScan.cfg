SPECIFICATION Spec
CONSTANTS
  p1 = p1
  p2 = p2
  c1 = c1
  c2 = c2
  c3 = c3
  tag = tag
  history = history
  tree = tree
  main = main
  k1 = k1
  k2 = k2
  Sessions = {p1, p2}
  Refs = {main}
  Scanners = {history, tree}
  RangeScanners = {history}
  Keys = {k1}
  Commits = {c1, c2, c3}
  Objects = {c1, c2, c3, tag}
  Anc <- MCAnc
  Newest <- MCNewest
  Peel <- MCPeel
  None = None
SYMMETRY Symmetry
INVARIANTS
  CheckpointCovers
  CacheHoldsStill
  SkipMissesNothing
CHECK_DEADLOCK FALSE
