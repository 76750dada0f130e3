SPECIFICATION MCSpec
CONSTANTS
  Tasks = {t1, t2, t3}
  OwnDag = {t3}
  Values = {a, b}
  MaxDepth = 2
  MaxTests = 2
  MaxCalls = 2
  MaxSandboxTests = 2
  Children = {w}
  MaxScopes = 2
  MaxFailures = 1
  MaxLists = 1
  Closed = Closed
  both = both
  coreOnly = coreOnly
  taskOnly = taskOnly
  x1 = x1
  x2 = x2
  Hooks = {both, coreOnly, taskOnly}
  Args = {x1, x2}
  Releases <- MCReleases
  Offered <- MCOffered
SYMMETRY Symmetry
INVARIANTS
  SupervisionSound
  LookupsAnswered
  EnvironmentSound
  ChildrenOnTheirRun
  ParallelIsSerial
  RegistriesSound
  GateSound
PROPERTIES
  ScopesLeaveNoTrace
  TeardownRestores
CHECK_DEADLOCK FALSE
