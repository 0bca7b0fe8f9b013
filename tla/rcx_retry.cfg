SPECIFICATION Spec
CONSTANTS
  Benchmarks = {"retry"}
  Threads = {t1, t2}
  Keys = {1, 2}
  NBuckets = 1
  LIST_VAL_MIN <- MCMin
  LIST_VAL_MAX <- MCMax
  DataNodes = {a, b, c}
  MinNode <- MCMinNode
  MaxNode <- MCMaxNode
  NULL = NULL
  PREEMPT_RCU = FALSE
  KMALLOC_SLEEPS = FALSE
  FillOps = 1
  MaxOps = 1
PROPERTIES CallsReturn RemovedIsFreed
CHECK_DEADLOCK FALSE
