SPECIFICATION CommandSpec
CONSTANTS
  Suite = {t1}
  Invocations = {i1}
  Unwritten = Unwritten
PROPERTY
  CleanIsNoRegression
CHECK_DEADLOCK FALSE
