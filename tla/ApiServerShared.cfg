SPECIFICATION Spec
CONSTANTS
  Workers = {w1, w2}
  Ports = {p1, p2}
  Retries = 2
  MaxPolls = 0
PROPERTIES
  HandedOwnServer
CHECK_DEADLOCK FALSE
