SPECIFICATION Spec
CONSTANTS
  Benchmarks = {"rcuhtm", "hwa"}
  Threads = {t1, t2}
  Keys = {1, 2}
  NBuckets = 1
  LIST_VAL_MIN <- MCMin
  LIST_VAL_MAX <- MCMax
  DataNodes = {a, b, c}
  MinNode <- MCMinNode
  MaxNode <- MCMaxNode
  NULL = NULL
  PREEMPT_RCU = FALSE
  KMALLOC_SLEEPS = FALSE
  FillOps = 2
  MaxOps = 1
  LF_RETRY_LIMIT = 1
INVARIANTS NoUseAfterFree SectionsPaired LockExcludesHtm StaleViewRejected
PROPERTIES ImplementsSet FallbackEndsCall
CHECK_DEADLOCK FALSE
