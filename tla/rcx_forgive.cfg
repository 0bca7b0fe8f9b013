SPECIFICATION Spec
CONSTANTS
  Benchmarks = {"forgive"}
  Threads = {t1, t2}
  Keys = {1, 2}
  NBuckets = 1
  LIST_VAL_MIN <- MCMin
  LIST_VAL_MAX <- MCMax
  DataNodes = {a, b, c, d}
  MinNode <- MCMinNode
  MaxNode <- MCMaxNode
  NULL = NULL
  PREEMPT_RCU = TRUE
  KMALLOC_SLEEPS = FALSE
  FillOps = 2
  MaxOps = 2
INVARIANTS Inv SortedLists NoUseAfterFree FreedOnce Linearizable
PROPERTIES StaleNodesFrozen ImplementsSet
SYMMETRY Symmetry
CHECK_DEADLOCK FALSE
