SPECIFICATION Spec
CONSTANTS
  Benchmarks = {"rlu"}
  Threads = {t1, t2, t3}
  Main = t1
  Remover = t1
  Adder = t2
  Keys = {1, 2}
  NBuckets = 2
  LIST_VAL_MIN <- MCMin
  LIST_VAL_MAX <- MCMax
  DataNodes = {a, b}
  Node <- MCNode
  MinNode <- MCMinNode
  MaxNode <- MCMaxNode
  NULL = NULL
  Freed <- MCFreed
  max_write_sets = 1
  RLU_MAX_WRITE_SETS = 2
  MAX_VERSION <- MCMaxVersion
  ClockRace = TRUE
  Calls <- MCRoles
  FillOps = 1
  MaxOps = 1
  MaxRestarts = 1
INVARIANTS StealsAfterUpdate
CHECK_DEADLOCK FALSE
