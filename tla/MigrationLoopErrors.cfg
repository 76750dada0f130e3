SPECIFICATION Spec
CONSTANTS
  Tests = {t1, t2}
  OwnXfail = {t2}
INVARIANT
  RegressionsSustain
