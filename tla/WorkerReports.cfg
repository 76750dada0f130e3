SPECIFICATION FairSpec
CONSTANTS
  Workers = {w1, w2}
  Tests = {t1, t2}
  PhaseReports <- MCReports
  Lookahead = 2
  MaxCrashes = 1
  MaxReruns = 1
PROPERTIES
  ReportsSound
  EveryTestRecorded
CHECK_DEADLOCK FALSE
