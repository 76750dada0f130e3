SPECIFICATION MCSpec
CONSTANTS
  Tests = {t1, t2}
  OwnXfail = {t2}
  Suite = {t1}
  Invocations = {i1, i2}
  Unwritten = Unwritten
SYMMETRY Symmetry
INVARIANTS
  ComparisonSound
  CommandSound
CHECK_DEADLOCK FALSE
