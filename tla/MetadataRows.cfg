SPECIFICATION MCSpec
CONSTANTS
  f1 = f1
  f2 = f2
  f3 = f3
  a = a
  b = b
  c = c
  Fixtures = {f1, f2, f3}
  Keys = {a, b, c}
  Wanted <- MixedKeys
  MaxId = 3
  Faulty = {f3}
  m = m
  w1 = w1
  w2 = w2
  d1 = d1
  d2 = d2
  Workers = {m, w1, w2}
  Serial = m
  Dags = {d1, d2}
  DagsOf <- MCDagsOf
  Testing = Testing
  CodeRow = CodeRow
  NoModel = NoModel
  NoRecord = NoRecord
  Nobody = Nobody
  Tests <- MCTests
  MaxRecords <- MCMaxRecords
  MaxRunId = 2
  FaultyWorkers = {m, w1}
  Borrowing = {m, w2}
  N = 4
  Graphs <- MCGraphs
  MaxMap = 2
INVARIANTS
  NoLeftovers
  LiveRowsStay
  NoDagLeftovers
  TestsUndisturbed
  DriveSound
PROPERTIES
  SeedsAreOwned
  DriveEnds
CHECK_DEADLOCK FALSE
