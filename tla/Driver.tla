------------------------------- MODULE Driver -------------------------------
(***************************************************************************)
(* The benchmark driver: sync_test_init() and sync_test_thread() of        *)
(* sync_test.c, the start barrier of barrier.c and the abort statistics of *)
(* rtm_debug.c.  The main thread checks its parameters, builds the table,  *)
(* half fills it, starts the threads 1 .. threads_nb - 1 and works as      *)
(* thread 0 itself; then it waits for one completion per thread, adds up   *)
(* the counters, reports, and takes the table and the RLU data down.       *)
(*                                                                         *)
(* An operation of a table is a call with an arbitrary result that may     *)
(* record aborts of transactions and may leave deferred RLU updates        *)
(* behind; the list modules say what it does.                              *)
(***************************************************************************)
EXTENDS Integers, Sequences, FiniteSetsExt

CONSTANTS
  Parameters,           \* values of the module parameters
  Topologies,           \* sequences of the sets of processors of the NUMA nodes
  Stats,                \* arguments of record_abort()
  RLU_MAX_THREADS, MAX_BUCKETS,
  RLU_STALLS,           \* 144: "RLU stalls when 144 threads used"
  FillOps,              \* bound: insertions that fill the table (range / 2)
  KeyRange,             \* bound: key range deleted at the end
  MaxOps,               \* bound: calls after which no thread repeats its loop
  MaxAborts             \* bound: calls of record_abort()

RluBenchmarks == {"rlu", "rlu-forgive"}
HtmBenchmarks == {"rcuhtm", "forgive", "retry", "hwa", "rcx-htmlock", "rcx-hhtmlock", "rcx"}
benchmarks == RluBenchmarks \union HtmBenchmarks \union
              {"rcu", "rcu-forgive", "rcu-fglock", "rcu-numa"}

ASSUME DriverAssumption ==
  /\ Topologies \subseteq Seq(SUBSET Nat)
  /\ \A p \in Parameters : p.threads_nb \in Nat \ {0} /\ p.nr_buckets \in Nat \ {0}
  \* every NUMA node has processors, and no processor two nodes
  /\ \A topo \in Topologies :
       /\ topo # <<>>
       /\ \A m \in DOMAIN topo : topo[m] # {} /\ IsFiniteSet(topo[m])
       /\ \A m, n \in DOMAIN topo : m # n => topo[m] \cap topo[n] = {}
  \* reinitializing thread 0 needs an identifier more
  /\ \A p \in Parameters : p.threads_nb # RLU_MAX_THREADS
  /\ FillOps \in Nat /\ KeyRange \in Nat \ {0} /\ MaxOps \in Nat \ {0} /\ MaxAborts \in Nat

VARIABLES
  par, topo,            \* the parameters and the machine
  mpc, i,               \* sync_test_init(): where it stands, its loop index
  table,                \* the hash table: "none", "live" or "freed"
  rlu,                  \* memory of rlu_thread_data_t of each thread, likewise
  g_rlu_threads,        \* whose data rlu_thread_init() put at each identifier
  deferred,             \* threads with deferred updates in their RLU log
  count, crossing,      \* sync_test_barrier
  done,                 \* completions of sync_test_working not yet consumed
  pc, op, ops,          \* sync_test_thread(): where it stands, the call, bench->ops
  abort_cnt,            \* per processor
  total, report,        \* bench->nb_*, and what is printed
  made                  \* history: calls returned, calls failed, aborts recorded

mainVars == <<mpc, i>>
tableVars == <<table, rlu, g_rlu_threads, deferred>>
syncVars == <<count, crossing, done>>
threadVars == <<pc, op, ops>>
statVars == <<total, report>>
vars == <<par, topo, mainVars, tableVars, syncVars, threadVars, abort_cnt, statVars, made>>

Threads == 0 .. par.threads_nb - 1
OnlineCpus == UNION {topo[m] : m \in DOMAIN topo}
nr_cpu_ids == Max(OnlineCpus) + 1

-----------------------------------------------------------------------------
(* cpubind_numa_arr() *)

cpumask_next(cpu, cpus) ==
  LET later == {c \in cpus : c > cpu} IN IF later = {} THEN nr_cpu_ids ELSE Min(later)
cpumask_first(cpus) == cpumask_next(-1, cpus)

\* Mutation: the next node is taken one thread late.
FaultyNodeFull(capa, thr) == capa < thr

\* All processors of the nodes so far are given away.
NodeFull(capa, thr) == capa <= thr

\* thread_cpu_map[thr], with the locals of the loop after its iteration thr
cpubind_numa_arr ==
  LET Bind[thr \in Threads] ==
        LET was == IF thr = 0
                   THEN [node |-> 1, capa |-> Cardinality(topo[1]), cpus |-> topo[1],
                         next |-> cpumask_first(topo[1])]
                   ELSE Bind[thr - 1]
            full == NodeFull(was.capa, thr)
            node == IF full THEN (was.node % Len(topo)) + 1 ELSE was.node
            cpus == IF was.next >= nr_cpu_ids THEN topo[node] ELSE was.cpus
            cpu == IF was.next >= nr_cpu_ids THEN cpumask_first(cpus) ELSE was.next
        IN  [node |-> node,
             capa |-> IF full THEN was.capa + Cardinality(topo[node]) ELSE was.capa,
             cpus |-> cpus, cpu |-> cpu, next |-> cpumask_next(cpu, cpus)]
  IN  [thr \in Threads |-> Bind[thr].cpu]

-----------------------------------------------------------------------------
(* record_abort() *)

NR_ABORT_REASONS == 9
ABORT_CODES == 6..8   \* ABORT_DOUBLE_FREE, ABORT_CONFLICT, ABORT_LF_CONFLICT

\* the bits of the hardware, _XABORT_CODE(stat)
Reasons(stat) ==
  {r \in 0..5 : (stat \div 2^r) % 2 = 1} \union
  {r \in ABORT_CODES : (stat \div 2^24) % 256 = r}

\* The processor is not left between get_cpu_var() and put_cpu_var().
record_abort(cpu, stat) ==
  abort_cnt' = [abort_cnt EXCEPT ![cpu] =
    [nr_aborts |-> @.nr_aborts + 1,
     counts |-> [r \in DOMAIN @.counts |-> @.counts[r] + (IF r \in Reasons(stat) THEN 1 ELSE 0)]]]

\* Worker threads are bound; the main thread runs anywhere.
MayRunOn(t, cpu) == t = 0 \/ cpu = cpubind_numa_arr[t]

-----------------------------------------------------------------------------
(* sync_test_init() up to the start of the threads *)

MainAt(label) == mpc = label
MainGoto(label) == mpc' = label /\ i' = 0

\* One more iteration of a loop over n elements, then label.
NextOr(n, label) == IF i + 1 < n THEN i' = i + 1 /\ UNCHANGED mpc ELSE MainGoto(label)

Stalls == par.bench = "rlu" /\ par.threads_nb >= RLU_STALLS

\* the error checks
CheckParameters ==
  /\ MainAt("check")
  /\ IF \/ par.bench \notin benchmarks
        \/ par.threads_nb > Cardinality(OnlineCpus)
        \/ par.threads_nb > RLU_MAX_THREADS
        \/ par.nr_buckets > MAX_BUCKETS
     THEN MainGoto("error")
     ELSE MainGoto(IF Stalls THEN "print" ELSE "init")
  /\ UNCHANGED <<par, topo, tableVars, syncVars, threadVars, abort_cnt, statVars, made>>

\* Mutation: the main thread is not counted.
FaultyBarrierInit(n) == count' = n - 1 /\ crossing' = 0

barrier_init(n) == count' = n /\ crossing' = 0

\* init_completion(), barrier_init(), rlu_init(), bench->init()
Initialize ==
  /\ MainAt("init")
  /\ done' = 0
  /\ barrier_init(par.threads_nb)
  /\ table' = "live"
  /\ MainGoto("alloc")
  /\ UNCHANGED <<par, topo, rlu, g_rlu_threads, deferred, threadVars, abort_cnt, statVars, made>>

\* The data of thread i; if memory is short the driver returns as it is.
AllocThread ==
  /\ MainAt("alloc")
  /\ \/ /\ rlu' = [rlu EXCEPT ![i] = "live"]
        /\ g_rlu_threads' = Append(g_rlu_threads, i)
        /\ NextOr(par.threads_nb, "fill")
     \/ /\ MainGoto("error")
        /\ UNCHANGED <<rlu, g_rlu_threads>>
  /\ UNCHANGED <<par, topo, table, deferred, syncVars, threadVars, abort_cnt, statVars, made>>

\* What a call of thread t leaves in its log.
MayDefer(t) ==
  IF par.bench \in RluBenchmarks
  THEN \E D \in SUBSET {t} : deferred' = (deferred \ {t}) \union D
  ELSE UNCHANGED deferred

\* An insertion of the half fill succeeds.
FillOne ==
  /\ MainAt("fill")
  /\ IF i < FillOps THEN i' = i + 1 /\ MayDefer(0) /\ UNCHANGED mpc
                    ELSE MainGoto("create") /\ UNCHANGED deferred
  /\ UNCHANGED <<par, topo, table, rlu, g_rlu_threads, syncVars, threadVars, abort_cnt,
                 statVars, made>>

\* It fails and is repeated: rlu-forgive has met a lock that the main thread
\* itself had deferred, and synchronizes.
FillAgain ==
  /\ MainAt("fill") /\ i < FillOps /\ par.bench = "rlu-forgive" /\ 0 \in deferred
  /\ deferred' = deferred \ {0}
  /\ UNCHANGED <<par, topo, mainVars, table, rlu, g_rlu_threads, syncVars, threadVars,
                 abort_cnt, statVars, made>>

\* kthread_create(), kthread_bind(), wake_up_process() of the threads from 1 on;
\* then the main thread calls sync_test_thread().
CreateThread ==
  /\ MainAt("create")
  /\ LET more == i + 1 < par.threads_nb
     IN  /\ pc' = [pc EXCEPT ![IF more THEN i + 1 ELSE 0] = "barrier"]
         /\ IF more THEN i' = i + 1 /\ UNCHANGED mpc ELSE MainGoto("work")
  /\ UNCHANGED <<par, topo, tableVars, syncVars, op, ops, abort_cnt, statVars, made>>

-----------------------------------------------------------------------------
(* sync_test_thread() *)

ThreadGoto(t, label) == pc' = [pc EXCEPT ![t] = label]

\* barrier_cross(): atomic_add_return(), then spin
BarrierCross(t) ==
  /\ \/ /\ pc[t] = "barrier"
        /\ crossing' = crossing + 1
        /\ ThreadGoto(t, IF crossing' = count THEN "loop" ELSE "spin")
     \/ /\ pc[t] = "spin" /\ crossing = count
        /\ ThreadGoto(t, "loop")
        /\ UNCHANGED crossing
  /\ UNCHANGED <<par, topo, mainVars, tableVars, count, done, op, ops, abort_cnt, statVars, made>>

\* The thread draws an operation and calls it.
StartCall(t, o) ==
  /\ pc[t] = "loop"
  /\ op' = [op EXCEPT ![t] = o]
  /\ ThreadGoto(t, "call")
  /\ UNCHANGED <<par, topo, mainVars, tableVars, syncVars, ops, abort_cnt, statVars, made>>

\* A transaction of an update aborts, in the main loop or in the half fill.
RecordAbort(t, cpu, stat) ==
  /\ par.bench \in HtmBenchmarks /\ made.recorded < MaxAborts
  /\ \/ pc[t] = "call" /\ op[t] # "lookup"
     \/ t = 0 /\ MainAt("fill") /\ i < FillOps
  /\ MayRunOn(t, cpu)
  /\ record_abort(cpu, stat)
  /\ made' = [made EXCEPT !.recorded = @ + 1]
  /\ UNCHANGED <<par, topo, mainVars, tableVars, syncVars, threadVars, statVars>>

\* Updates of most benchmarks may return something else than 0.
MayFail(o) == o # "lookup" /\ par.bench \notin {"rcu", "rlu", "rcuhtm", "hwa"}

\* The field of bench->ops that is incremented.
Counter(o, failed) ==
  CASE o = "lookup" -> "nb_lookup"
    [] o = "insert" -> IF failed THEN "nb_ins_abort" ELSE "nb_insert"
    [] o = "delete" -> IF failed THEN "nb_del_abort" ELSE "nb_delete"

\* The call returns and is counted; the loop ends when the time is over.
EndCall(t) ==
  /\ pc[t] = "call"
  /\ \E failed \in {FALSE} \union {MayFail(op[t])} :
       /\ ops' = [ops EXCEPT ![t][Counter(op[t], failed)] = @ + 1]
       /\ made' = [made EXCEPT !.calls = @ + 1, !.failed = @ + (IF failed THEN 1 ELSE 0)]
  /\ IF op[t] = "lookup" THEN UNCHANGED deferred ELSE MayDefer(t)
  /\ op' = [op EXCEPT ![t] = "none"]
  /\ \/ ThreadGoto(t, "complete")
     \/ made.calls < MaxOps /\ ThreadGoto(t, "loop")
  /\ UNCHANGED <<par, topo, mainVars, table, rlu, g_rlu_threads, syncVars, abort_cnt, statVars>>

\* complete(&sync_test_working) ...
Complete(t) ==
  /\ pc[t] = "complete"
  /\ done' = done + 1
  /\ ThreadGoto(t, "finish")
  /\ UNCHANGED <<par, topo, mainVars, tableVars, count, crossing, op, ops, abort_cnt, statVars, made>>

\* ... then rlu_thread_finish(): what is deferred is written back to the table,
\* then the RLU statistics are read from bench->rlu.
FinishThread(t) ==
  /\ \/ /\ pc[t] = "finish"
        /\ deferred' = deferred \ {t}
        /\ ThreadGoto(t, "rlu_stats")
     \/ pc[t] = "rlu_stats" /\ ThreadGoto(t, "exit") /\ UNCHANGED deferred
  /\ UNCHANGED <<par, topo, mainVars, table, rlu, g_rlu_threads, syncVars, op, ops, abort_cnt,
                 statVars, made>>

-----------------------------------------------------------------------------
(* the end of sync_test_init() *)

\* Mutation: one completion is taken for the main thread's own and not waited for.
FaultyThreadsToWaitFor == par.threads_nb - 1

ThreadsToWaitFor == par.threads_nb

\* wait_for_completion(), once for each thread
WaitForThreads ==
  /\ \/ /\ MainAt("work") /\ pc[0] = "exit"
        /\ MainGoto("wait")
        /\ UNCHANGED done
     \/ /\ MainAt("wait") /\ i < ThreadsToWaitFor /\ done > 0
        /\ done' = done - 1
        /\ i' = i + 1 /\ UNCHANGED mpc
     \/ /\ MainAt("wait") /\ i >= ThreadsToWaitFor
        /\ MainGoto("reinit")
        /\ UNCHANGED done
  /\ UNCHANGED <<par, topo, tableVars, count, crossing, threadVars, abort_cnt, statVars, made>>

\* rlu_thread_init() of thread 0's data again: under one identifier more
Reinitialize ==
  /\ MainAt("reinit")
  /\ g_rlu_threads' = Append(g_rlu_threads, 0)
  /\ MainGoto("sum")
  /\ UNCHANGED <<par, topo, table, rlu, deferred, syncVars, threadVars, abort_cnt, statVars, made>>

\* bench->nb_* += benchmark_threads[i]->ops.nb_*
SumThread ==
  /\ MainAt("sum")
  /\ total' = [f \in DOMAIN total |-> total[f] + ops[i][f]]
  /\ NextOr(par.threads_nb, "print")
  /\ UNCHANGED <<par, topo, tableVars, syncVars, threadVars, abort_cnt, report, made>>

AtLeastOne(n) == IF n = 0 THEN 1 ELSE n

\* for_each_online_cpu(): the sum of c[cpu], from processor 0 on
SumOnline(c) ==
  LET Sum[cpu \in 0 .. nr_cpu_ids] ==
        IF cpu = 0 THEN 0
        ELSE Sum[cpu - 1] + (IF cpu - 1 \in OnlineCpus THEN c[cpu - 1] ELSE 0)
  IN  Sum[nr_cpu_ids]

\* the counters of all processors
pr_abort_stat ==
  [nr_total_aborts |-> SumOnline([cpu \in OnlineCpus |-> abort_cnt[cpu].nr_aborts]),
   sum |-> [r \in 0 .. NR_ABORT_REASONS - 1 |->
              SumOnline([cpu \in OnlineCpus |-> abort_cnt[cpu].counts[r]])]]

\* The report; then the way to take everything down.
PrintResult ==
  LET nr_aborts == total.nb_ins_abort + total.nb_del_abort
      nr_updates == total.nb_insert + total.nb_delete + nr_aborts
  IN  /\ MainAt("print")
      /\ report' = [nr_aborts |-> nr_aborts,
                    nr_ops |-> AtLeastOne(total.nb_lookup + nr_updates),
                    nr_updates |-> AtLeastOne(nr_updates),
                    aborts |-> pr_abort_stat]
      /\ MainGoto(IF Stalls THEN "done"
                  ELSE IF par.bench \in RluBenchmarks THEN "delete" ELSE "destroy")
      /\ UNCHANGED <<par, topo, tableVars, syncVars, threadVars, abort_cnt, total, made>>

\* RLU: bench->delete() of every value, with thread 0's data.  If it meets a lock
\* that another thread has deferred it starts again ("rlu"), or returns 2, which
\* is ignored ("rlu-forgive").
DeleteValue ==
  /\ MainAt("delete")
  /\ MayDefer(0)
  /\ NextOr(KeyRange, "rlu_finish")
  /\ UNCHANGED <<par, topo, table, rlu, g_rlu_threads, syncVars, threadVars, abort_cnt,
                 statVars, made>>

\* rlu_thread_finish() of thread 0's data
FinishRlu ==
  /\ MainAt("rlu_finish")
  /\ deferred' = deferred \ {0}
  /\ MainGoto("destroy")
  /\ UNCHANGED <<par, topo, table, rlu, g_rlu_threads, syncVars, threadVars, abort_cnt,
                 statVars, made>>

\* bench->destroy() or rlu_hash_list_destroy()
Destroy ==
  /\ MainAt("destroy")
  /\ table' = "freed"
  /\ MainGoto("cleaning")
  /\ UNCHANGED <<par, topo, rlu, g_rlu_threads, deferred, syncVars, threadVars, abort_cnt,
                 statVars, made>>

\* kvfree(benchmark_threads[i]->rlu)
FreeThread ==
  /\ MainAt("cleaning")
  /\ rlu' = [rlu EXCEPT ![i] = "freed"]
  /\ NextOr(par.threads_nb, "done")
  /\ UNCHANGED <<par, topo, table, g_rlu_threads, deferred, syncVars, threadVars, abort_cnt,
                 statVars, made>>

-----------------------------------------------------------------------------
NoOps == [nb_lookup |-> 0, nb_insert |-> 0, nb_delete |-> 0, nb_ins_abort |-> 0,
          nb_del_abort |-> 0]
NoReport == [nr_aborts |-> 0]

\* The module is loaded.
Init ==
  /\ par \in Parameters
  /\ topo \in Topologies
  /\ mpc = "check" /\ i = 0
  /\ table = "none"
  /\ rlu = [t \in Threads |-> "none"]
  /\ g_rlu_threads = <<>>
  /\ deferred = {}
  /\ count = 0 /\ crossing = 0 /\ done = 0
  /\ pc = [t \in Threads |-> "none"]
  /\ op = [t \in Threads |-> "none"]
  /\ ops = [t \in Threads |-> NoOps]
  /\ abort_cnt = [cpu \in OnlineCpus |->
                    [nr_aborts |-> 0, counts |-> [r \in 0 .. NR_ABORT_REASONS - 1 |-> 0]]]
  /\ total = NoOps
  /\ report = NoReport
  /\ made = [calls |-> 0, failed |-> 0, recorded |-> 0]

MainStep ==
  \/ CheckParameters \/ Initialize \/ AllocThread \/ FillOne \/ FillAgain \/ CreateThread
  \/ WaitForThreads \/ Reinitialize \/ SumThread \/ PrintResult
  \/ DeleteValue \/ FinishRlu \/ Destroy \/ FreeThread

ThreadStep(t) ==
  \/ BarrierCross(t)
  \/ \E o \in {"lookup", "insert", "delete"} : StartCall(t, o)
  \/ EndCall(t) \/ Complete(t) \/ FinishThread(t)

Next ==
  \/ MainStep
  \/ \E t \in Threads :
       ThreadStep(t) \/ \E cpu \in OnlineCpus, stat \in Stats : RecordAbort(t, cpu, stat)

\* Every thread is scheduled, and every call returns (the list modules).
Spec ==
  /\ Init /\ [][Next]_vars
  /\ WF_vars(MainStep)
  /\ \A t \in 0 .. RLU_MAX_THREADS : WF_vars(t \in Threads /\ ThreadStep(t))

-----------------------------------------------------------------------------
Working(t) == pc[t] \in {"loop", "call"}
Reported == report # NoReport

\* The report counts every call that any thread made in its loop, once, and
\* every update that gave up.
CallsReported ==
  Reported => report.nr_ops = AtLeastOne(made.calls) /\ report.nr_aborts = made.failed

(***************************************************************************)
(* The report is exact: it counts every call that any thread made in its   *)
(* loop and every abort recorded on any processor, once, although the main *)
(* thread reads the counters of the others without a lock.  A benchmark    *)
(* without calls is reported as one operation.                             *)
(***************************************************************************)
ReportExact == CallsReported /\ (Reported => report.aborts.nr_total_aborts = made.recorded)

(***************************************************************************)
(* The barrier holds every thread back until all have arrived: no call is  *)
(* made before the last thread was created and crossed.                    *)
(***************************************************************************)
StartTogether ==
  \A t \in Threads : Working(t) => \A u \in Threads : pc[u] \notin {"none", "barrier"}

(***************************************************************************)
(* cpubind_numa_arr() binds no two threads to one processor, and none to a *)
(* processor that is not there, and it opens a NUMA node only when the     *)
(* ones before are full: the per-node locks of the lists rely on it.       *)
(***************************************************************************)
BoundApart ==
  mpc # "check" /\ par.threads_nb <= Cardinality(OnlineCpus) =>
    LET map == cpubind_numa_arr
    IN  /\ \A t, u \in Threads : t # u => map[t] # map[u]
        /\ \A t \in Threads : map[t] \in OnlineCpus
        /\ \A m, n \in DOMAIN topo : \A t \in Threads :
             m < n /\ map[t] \in topo[n] => topo[m] \subseteq {map[u] : u \in 0 .. t}

(***************************************************************************)
(* Operations never meet a table or RLU data that is not there: both are   *)
(* built before the first call and taken down only after the last call of  *)
(* every thread has returned.                                              *)
(***************************************************************************)
TeardownAfterCalls ==
  \A t \in Threads : Working(t) \/ pc[t] \in {"spin", "complete"} =>
    table = "live" /\ \A u \in Threads : rlu[u] = "live"

(***************************************************************************)
(* The module's initialization ends, with an error or with all threads     *)
(* gone: nobody is left at the barrier or in wait_for_completion().        *)
(***************************************************************************)
DriverEnds ==
  <>[](\/ mpc = "error"
       \/ mpc = "done" /\ \A t \in Threads : pc[t] = IF Stalls THEN "none" ELSE "exit")

(***************************************************************************)
(* "Wait for the threads to finish" (sync_test.c): when the main thread    *)
(* has waited, no thread uses its RLU data any more, so that the data      *)
(* outlives the rlu_thread_finish() of its thread.                         *)
(***************************************************************************)
FinishBeforeTeardown ==
  \A t \in Threads : pc[t] \in {"finish", "rlu_stats"} => rlu[t] = "live"

-----------------------------------------------------------------------------
(***************************************************************************)
(* The inductive invariant behind StartTogether and TeardownAfterCalls:    *)
(* the barrier and the completion count threads.                           *)
(***************************************************************************)
MainLabels == {"check", "error", "init", "alloc", "fill", "create", "work", "wait", "reinit",
               "sum", "print", "delete", "rlu_finish", "destroy", "cleaning", "done"}
Labels == {"none", "barrier", "spin", "loop", "call", "complete", "finish", "rlu_stats", "exit"}

\* Types of the main thread, the threads and what they share.
TypeOK ==
  /\ par \in Parameters /\ topo \in Topologies
  /\ mpc \in MainLabels /\ i \in Nat
  /\ table \in {"none", "live", "freed"} /\ rlu \in [Threads -> {"none", "live", "freed"}]
  /\ deferred \subseteq Threads
  /\ count \in Nat /\ crossing \in Nat /\ done \in Nat
  /\ pc \in [Threads -> Labels]
  /\ op \in [Threads -> {"none", "lookup", "insert", "delete"}]

\* Threads that have added themselves to barrier_t.crossing, or to the completion
Crossed == {t \in Threads : pc[t] \notin {"none", "barrier"}}
Completed == {t \in Threads : pc[t] \in {"finish", "rlu_stats", "exit"}}

\* All completions were waited for.
Waited == mpc \in {"reinit", "sum", "print", "delete", "rlu_finish", "destroy", "cleaning", "done"}
Consumed == IF mpc = "wait" THEN i ELSE IF Waited /\ ~Stalls THEN par.threads_nb ELSE 0

\* Threads are created once, after the table, and not at all if RLU would stall.
Launching ==
  /\ mpc \in {"check", "error", "init", "alloc", "fill"} \/ Stalls => \A t \in Threads : pc[t] = "none"
  /\ Stalls => mpc \in {"check", "error", "print", "done"}
  /\ mpc = "create" => pc[0] = "none" /\ \A t \in Threads : t > i => pc[t] = "none"

\* Whoever has left the barrier saw it full.
Barrier ==
  /\ crossing = Cardinality(Crossed)
  /\ mpc \notin {"check", "init", "error"} /\ ~Stalls => count = par.threads_nb
  /\ (\E t \in Threads : pc[t] \notin {"none", "barrier", "spin"}) => crossing = count

\* No completion is lost or taken twice.
Completion ==
  /\ Cardinality(Completed) = done + Consumed
  /\ mpc = "wait" => i <= par.threads_nb

\* The table and the RLU data are there from the half fill to the last completion.
Built ==
  /\ mpc \in {"alloc", "fill", "create", "work", "wait"} => table = "live"
  /\ mpc = "alloc" => i \in Threads /\ \A t \in Threads : t < i => rlu[t] = "live"
  /\ mpc \in {"fill", "create", "work", "wait"} => \A t \in Threads : rlu[t] = "live"

Inv == TypeOK /\ Launching /\ Barrier /\ Completion /\ Built

(***************************************************************************)
(* Once the main thread has waited for everybody, no counter that it adds  *)
(* up or prints changes any more: it needs no lock to read them.           *)
(***************************************************************************)
CountersSettled == [][Waited => UNCHANGED <<ops, abort_cnt, made>>]_vars

=============================================================================
