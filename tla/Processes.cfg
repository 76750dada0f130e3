SPECIFICATION MCSpec
CONSTANTS
  Workers = {w1, w2}
  Ports = {p1, p2}
  Retries = 2
  MaxPolls = 1
  a1 = a1
  a2 = a2
  b1 = b1
  A = A
  B = B
  Tests = {a1, a2, b1}
  Order <- MCOrder
  Batches = {A, B}
  BatchOf <- MCBatchOf
  ChildReports <- MCChildReports
  CutReports = {}
INVARIANT
  BatchesSound
PROPERTIES
  LaunchesSound
  LaunchEnds
  OrphansDie
  SessionEnds
CHECK_DEADLOCK FALSE
