SPECIFICATION MCSpec
CONSTANTS
  f1 = f1
  f2 = f2
  f3 = f3
  f4 = f4
  Files = {f1, f2, f3, f4}
  DagIds = {d1, d2}
  Discovered <- MCDiscovered
  Sorted <- MCSorted
  Workers = 3
  t1 = t1
  t2 = t2
  d1 = d1
  d2 = d2
  n1 = n1
  n2 = n2
  NoCorpus = NoCorpus
  None = None
  Nodes = {n1, n2}
  Tests <- MCTests
  Dags = {d1, d2}
  Ranking <- MCRanking
  Sessions <- MCSessions
  Names = {"a", "b"}
  LoopNames = {"i"}
  Functions = {"f", "g"}
  Constant = "constant"
  Clock = "clock"
  MaxLines = 5
  MaxDepth = 3
INVARIANTS
  NoShardLeft
  FindingsAgree
  CorpusShared
  ChecksServed
  VaryingIsReported
PROPERTY
  BuildEnds
CHECK_DEADLOCK FALSE
