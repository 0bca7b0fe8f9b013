SPECIFICATION Spec
CONSTANTS
  Benchmarks = {"rlu", "rlu-forgive"}
  Threads = {t1, t2}
  Main = t1
  Remover = t1
  Adder = t2
  Keys = {1, 2}
  NBuckets = 1
  LIST_VAL_MIN <- MCMin
  LIST_VAL_MAX <- MCMax
  DataNodes = {a, b}
  Node <- MCNode
  MinNode <- MCMinNode
  MaxNode <- MCMaxNode
  NULL = NULL
  Freed <- MCFreed
  max_write_sets = 2
  RLU_MAX_WRITE_SETS = 4
  MAX_VERSION <- MCMaxVersion
  ClockRace = FALSE
  Calls <- MCAnyCall
  FillOps = 1
  MaxOps = 1
  MaxRestarts = 1
INVARIANTS NoStalePointer AssertionsHold SnapshotIsolation
PROPERTIES ImplementsSnapshotSet AllEnd
CHECK_DEADLOCK FALSE
