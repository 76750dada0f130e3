SPECIFICATION MCSpec
CONSTANTS
  Procs = {p1, p2, p3}
  NoProc = NoProc
  NoCorpus = NoCorpus
  Torn = Torn
  MaxCrashes = 1
  MaxFailures = 1
  Runs = {1, 2}
  Keep = 1
  own = own
  Shm = Shm
  Temp = Temp
  None = None
  Dirs <- MCDirs
  Systems <- MCSystems
  Requests <- MCRequests
INVARIANTS
  ReadyForUse
  LiveRunHasRoot
  CleanupFollowsOutcome
  NetworkIsLastResort
PROPERTIES
  DbElectionSpec
  CorpusElectionSpec
  CallsEnd
  RetentionKeepsNewest
  LifecycleSpec
