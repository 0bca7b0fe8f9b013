SPECIFICATION Spec
CONSTANTS
  Benchmarks = {"rcu", "rcu-forgive"}
  Threads = {t1, t2}
  Keys = {1, 2}
  NBuckets = 1
  LIST_VAL_MIN <- MCMin
  LIST_VAL_MAX <- MCMax
  DataNodes = {a, b, c}
  MinNode <- MCMinNode
  MaxNode <- MCMaxNode
  NULL = NULL
  PREEMPT_RCU = TRUE
  KMALLOC_SLEEPS = FALSE
  FillOps = 2
  MaxOps = 1
INVARIANTS NoUseAfterFree ViewIsCurrent
PROPERTIES ImplementsSet CallsReturn
CHECK_DEADLOCK FALSE
