SPECIFICATION Spec
CONSTANTS
  Parameters <- MCParameters
  Topologies <- MCTopologies
  Stats <- MCStats
  RLU_MAX_THREADS = 5
  MAX_BUCKETS = 1
  RLU_STALLS = 3
  FillOps = 2
  KeyRange = 1
  MaxOps = 1
  MaxAborts = 1
INVARIANTS FinishBeforeTeardown
CHECK_DEADLOCK FALSE
