SPECIFICATION Spec
CONSTANTS
  Benchmarks = {"rcu-fglock", "rcu-numa"}
  Threads = {t1, r1}
  Keys = {1, 2}
  NBuckets = 1
  LIST_VAL_MIN <- MCMin
  LIST_VAL_MAX <- MCMax
  DataNodes = {a, b, c}
  MinNode <- MCMinNode
  MaxNode <- MCMaxNode
  NULL = NULL
  PREEMPT_RCU = FALSE
  KMALLOC_SLEEPS = FALSE
  FillOps = 2
  MaxOps = 1
  NumaNodes = {"near", "remote"}
  numa_node_id <- MCNode
  Remote = {r1}
INVARIANTS NoLostUpdate LocksInMemory NoLockCycle
PROPERTIES ImplementsSet CallsReturn
CHECK_DEADLOCK FALSE
