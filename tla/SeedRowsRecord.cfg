SPECIFICATION Spec
CONSTANTS
  f1 = f1
  f2 = f2
  f3 = f3
  a = a
  b = b
  c = c
  Fixtures = {f1, f2, f3}
  Keys = {a, b}
  Wanted <- SharedKeys
  MaxId = 4
  Faulty = {f1, f2, f3}
INVARIANTS
  OwnedMatchesCommitted
CHECK_DEADLOCK FALSE
