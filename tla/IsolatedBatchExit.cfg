SPECIFICATION BatchSpec
CONSTANTS
  a1 = a1
  a2 = a2
  b1 = b1
  A = A
  B = B
  Tests = {a1, a2, b1}
  Order <- MCOrder
  Batches = {A, B}
  BatchOf <- MCBatchOf
  ChildReports <- MCChildReports
  CutReports <- MCCutReports
INVARIANT
  NothingVanishes
CHECK_DEADLOCK FALSE
