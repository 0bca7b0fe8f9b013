---------------------------- MODULE DriverProofs ----------------------------
(***************************************************************************)
(* Machine-checked proofs about Driver, for any number of threads, any     *)
(* machine and any number of calls: the start barrier and the completion   *)
(* are counters, and the proofs relate them to the set of threads they     *)
(* count.                                                                  *)
(***************************************************************************)
EXTENDS Driver, FiniteSetTheorems, WellFoundedInduction, TLAPS

-----------------------------------------------------------------------------
(***************************************************************************)
(* The inductive invariants behind ReportExact.  A sum over the threads or *)
(* the processors is stated by its partial sums F, from number 0 on.       *)
(***************************************************************************)
Fields == {"nb_lookup", "nb_insert", "nb_delete", "nb_ins_abort", "nb_del_abort"}

Calls(c) == c.nb_lookup + c.nb_insert + c.nb_delete + c.nb_ins_abort + c.nb_del_abort
Failures(c) == c.nb_ins_abort + c.nb_del_abort

\* The sum of c[0] .. c[n - 1] is sum, that of the counters before c[j] is part.
Tally(n, c, j, part, sum) ==
  \E F \in [0 .. n -> 0 .. sum] :
    /\ F[0] = 0 /\ F[j] = part /\ F[n] = sum
    /\ \A k \in 0 .. n - 1 : F[k + 1] = F[k] + c[k]

\* Threads whose counters are in total
Summed == IF mpc = "sum" THEN i ELSE IF Waited /\ mpc # "reinit" /\ ~Stalls THEN par.threads_nb ELSE 0

CallsTallied ==
  Tally(par.threads_nb, [t \in Threads |-> Calls(ops[t])], Summed, Calls(total), made.calls)
FailuresTallied ==
  Tally(par.threads_nb, [t \in Threads |-> Failures(ops[t])], Summed, Failures(total), made.failed)

CountInv ==
  /\ ops \in [Threads -> [Fields -> Nat]] /\ total \in [Fields -> Nat]
  /\ made \in [calls : Nat, failed : Nat, recorded : Nat]
  /\ mpc = "sum" => i \in Threads
  /\ \A t \in Threads : pc[t] = "call" => op[t] # "none"
  /\ Stalls => made.calls = 0 /\ made.failed = 0
  /\ CallsTallied /\ FailuresTallied
  /\ Reported => Waited
  /\ CallsReported

\* One abort on a processor, one more in the history.
AbortsTallied ==
  Tally(nr_cpu_ids, [cpu \in 0 .. nr_cpu_ids - 1 |->
                       IF cpu \in OnlineCpus THEN abort_cnt[cpu].nr_aborts ELSE 0], 0, 0, made.recorded)

AbortInv ==
  /\ abort_cnt \in [OnlineCpus -> [nr_aborts : Nat, counts : [0 .. NR_ABORT_REASONS - 1 -> Nat]]]
  /\ made.recorded \in Nat
  /\ AbortsTallied
  /\ Reported => report.aborts.nr_total_aborts = made.recorded

-----------------------------------------------------------------------------
(* Counting threads *)

\* The threads are numbered from 0, and there is at least the main thread.
LEMMA ThreadFacts ==
  ASSUME TypeOK
  PROVE  /\ par.threads_nb \in Nat \ {0} /\ 0 \in Threads /\ Threads \subseteq Nat
         /\ IsFiniteSet(Threads) /\ Cardinality(Threads) = par.threads_nb
         /\ \A j \in Nat : j < par.threads_nb => j \in Threads
<1>1. par.threads_nb \in Nat \ {0}
  BY DriverAssumption DEF TypeOK
<1>2. IsFiniteSet(Threads) /\ Cardinality(Threads) = par.threads_nb
  <2> DEFINE last == par.threads_nb - 1
  <2>1. last \in Int /\ ~(0 > last) /\ last - 0 + 1 = par.threads_nb /\ Threads = 0..last
    BY <1>1 DEF Threads
  <2> HIDE DEF last
  <2>2. IsFiniteSet(0..last) /\ Cardinality(0..last) = IF 0 > last THEN 0 ELSE last - 0 + 1
    BY <2>1, FS_Interval
  <2>3. QED
    BY <2>1, <2>2
<1>3. QED
  BY <1>1, <1>2 DEF Threads

\* The two sets that are counted are finite, and full when they have as many
\* elements as there are threads.
LEMMA CountFacts ==
  ASSUME TypeOK
  PROVE  /\ IsFiniteSet(Crossed) /\ IsFiniteSet(Completed)
         /\ Cardinality(Crossed) \in Nat /\ Cardinality(Completed) \in Nat
         /\ Cardinality(Completed) <= par.threads_nb
         /\ Cardinality(Crossed) = par.threads_nb => Crossed = Threads
         /\ Cardinality(Completed) >= par.threads_nb => Completed = Threads
<1>1. par.threads_nb \in Nat /\ IsFiniteSet(Threads) /\ Cardinality(Threads) = par.threads_nb
  BY ThreadFacts
<1>2. Crossed \in SUBSET Threads /\ Completed \in SUBSET Threads
  BY DEF Crossed, Completed
<1>3. /\ IsFiniteSet(Crossed) /\ Cardinality(Crossed) <= Cardinality(Threads)
      /\ Cardinality(Crossed) = Cardinality(Threads) => Crossed = Threads
  BY <1>1, <1>2, FS_Subset
<1>4. /\ IsFiniteSet(Completed) /\ Cardinality(Completed) <= Cardinality(Threads)
      /\ Cardinality(Completed) = Cardinality(Threads) => Completed = Threads
  BY <1>1, <1>2, FS_Subset
<1>5. Cardinality(Crossed) \in Nat /\ Cardinality(Completed) \in Nat
  BY <1>3, <1>4, FS_CardinalityType
<1>6. QED
  BY <1>1, <1>3, <1>4, <1>5

\* Without threads both sets are empty.
LEMMA NothingStarted ==
  ASSUME \A t \in Threads : pc[t] = "none"
  PROVE  /\ Crossed = {} /\ Completed = {}
         /\ Cardinality(Crossed) = 0 /\ Cardinality(Completed) = 0
<1>1. Crossed = {} /\ Completed = {}
  BY DEF Crossed, Completed
<1>2. QED
  BY <1>1, FS_EmptySet

\* A thread that leaves the barrier has seen all threads in it.
LEMMA BarrierFull ==
  ASSUME Inv, NEW t \in Threads, pc[t] \notin {"none", "barrier", "spin"}
  PROVE  Crossed = Threads
<1>1. mpc \notin {"check", "init", "error"} /\ ~Stalls
  BY DEF Inv, Launching
<1>2. Cardinality(Crossed) = par.threads_nb
  BY <1>1 DEF Inv, Barrier
<1>3. QED
  BY <1>2, CountFacts DEF Inv

\* When the main thread has waited for all completions, all threads are past theirs.
LEMMA AllCompleted ==
  ASSUME Inv, Waited, ~Stalls
  PROVE  Completed = Threads
<1>1. par.threads_nb \in Nat /\ done \in Nat
  BY ThreadFacts DEF Inv, TypeOK
<1>2. Consumed = par.threads_nb
  BY DEF Consumed, Waited
<1>3. Cardinality(Completed) >= par.threads_nb
  BY <1>1, <1>2 DEF Inv, Completion
<1>4. QED
  BY <1>3, CountFacts DEF Inv

\* What a step that moves no thread keeps.
LEMMA SameThreads ==
  ASSUME par' = par, pc' = pc
  PROVE  Threads' = Threads /\ Crossed' = Crossed /\ Completed' = Completed /\ Stalls' = Stalls
  BY DEF Threads, Crossed, Completed, Stalls

-----------------------------------------------------------------------------
(* The main thread up to the start of the threads *)

\* Refused, skipped, or accepted: no thread exists yet.
LEMMA CheckInv ==
  ASSUME Inv, CheckParameters
  PROVE  Inv'
<1> USE DEF CheckParameters, MainAt, MainGoto, tableVars, syncVars, threadVars, Inv
<1>1. Threads' = Threads /\ Crossed' = Crossed /\ Completed' = Completed /\ Stalls' = Stalls
  BY SameThreads
<1>2. /\ mpc = "check" /\ mpc' \in {"error", "print", "init"} /\ i' = 0
      /\ mpc' = "print" => Stalls
      /\ mpc' = "init" => ~Stalls
      /\ UNCHANGED <<par, topo, table, rlu, deferred, count, crossing, done, pc, op>>
  OBVIOUS
<1>3. TypeOK'
  BY <1>1, <1>2 DEF TypeOK, MainLabels
<1>4. Launching'
  BY <1>1, <1>2 DEF Launching
<1>5. Barrier'
  BY <1>1, <1>2 DEF Barrier, Launching
<1>6. Completion'
  BY <1>1, <1>2 DEF Completion, Consumed, Waited
<1>7. Built'
  BY <1>2 DEF Built
<1>8. QED
  BY <1>3, <1>4, <1>5, <1>6, <1>7

\* The barrier and the completion are set up before any thread is created.
LEMMA InitializeInv ==
  ASSUME Inv, Initialize
  PROVE  Inv'
<1> USE DEF Initialize, barrier_init, MainAt, MainGoto, threadVars, Inv
<1>1. Threads' = Threads /\ Crossed' = Crossed /\ Completed' = Completed /\ Stalls' = Stalls
  BY SameThreads
<1>2. /\ mpc = "init" /\ mpc' = "alloc" /\ i' = 0 /\ done' = 0 /\ count' = par.threads_nb
      /\ crossing' = 0 /\ table' = "live" /\ UNCHANGED <<par, topo, rlu, deferred, pc, op>>
  OBVIOUS
<1>3. \A t \in Threads : pc[t] = "none"
  BY <1>2 DEF Launching
<1>4. Cardinality(Crossed) = 0 /\ Cardinality(Completed) = 0
  BY <1>3, NothingStarted
<1>5. par.threads_nb \in Nat /\ 0 \in Threads /\ Threads \subseteq Nat
  BY ThreadFacts
<1>6. TypeOK'
  BY <1>1, <1>2, <1>5 DEF TypeOK, MainLabels
<1>7. Launching'
  BY <1>1, <1>2 DEF Launching
<1>8. Barrier'
  BY <1>1, <1>2, <1>3, <1>4 DEF Barrier
<1>9. Completion'
  BY <1>1, <1>2, <1>4 DEF Completion, Consumed, Waited
<1>10. Built'
  BY <1>1, <1>2, <1>5 DEF Built
<1>11. QED
  BY <1>6, <1>7, <1>8, <1>9, <1>10

\* Memory for the RLU data of thread i, or none.
LEMMA AllocThreadInv ==
  ASSUME Inv, AllocThread
  PROVE  Inv'
<1> USE DEF AllocThread, NextOr, MainAt, MainGoto, syncVars, threadVars, Inv
<1>1. Threads' = Threads /\ Crossed' = Crossed /\ Completed' = Completed /\ Stalls' = Stalls
  BY SameThreads
<1>2. /\ mpc = "alloc" /\ mpc' \in {"alloc", "fill", "error"} /\ i \in Threads /\ i \in Nat
      /\ UNCHANGED <<par, topo, table, deferred, count, crossing, done, pc, op>>
      /\ \A t \in Threads : t < i => rlu[t] = "live"
  BY DEF Built, TypeOK
<1>3. par.threads_nb \in Nat \ {0} /\ Threads = 0 .. par.threads_nb - 1
  BY ThreadFacts DEF Threads
<1>4. i' \in Nat /\ (mpc' = "alloc" => i' = i + 1 /\ i' \in Threads)
  BY <1>2, <1>3
<1>5. mpc' # "error" => rlu' = [rlu EXCEPT ![i] = "live"]
  BY <1>2
<1>6. rlu' = [rlu EXCEPT ![i] = "live"] \/ rlu' = rlu
  OBVIOUS
<1>7. TypeOK'
  BY <1>1, <1>2, <1>4, <1>6 DEF TypeOK, MainLabels
<1>8. Launching'
  BY <1>1, <1>2 DEF Launching
<1>9. Barrier'
  BY <1>1, <1>2 DEF Barrier
<1>10. Completion'
  BY <1>1, <1>2 DEF Completion, Consumed, Waited
<1>11. Built'
  <2>1. mpc' = "fill" => i + 1 = par.threads_nb
    BY <1>2, <1>3
  <2>2. \A t \in Threads : t < i + 1 /\ mpc' # "error" => rlu'[t] = "live"
    BY <1>2, <1>3, <1>5 DEF TypeOK
  <2>3. mpc' = "alloc" => i' \in Threads' /\ \A t \in Threads' : t < i' => rlu'[t] = "live"
    BY <1>1, <1>4, <2>2
  <2>4. mpc' = "fill" => \A t \in Threads' : rlu'[t] = "live"
    BY <1>1, <1>3, <2>1, <2>2
  <2>5. QED
    BY <1>2, <2>3, <2>4 DEF Built
<1>12. QED
  BY <1>7, <1>8, <1>9, <1>10, <1>11

\* Deferred updates belong to the thread that made the call.
LEMMA DeferFacts ==
  ASSUME TypeOK, NEW t \in Threads, MayDefer(t)
  PROVE  deferred' \subseteq Threads
  BY DEF MayDefer, TypeOK

\* The half fill.
LEMMA FillInv ==
  ASSUME Inv, FillOne \/ FillAgain
  PROVE  Inv'
<1> USE DEF FillOne, FillAgain, MainAt, MainGoto, mainVars, syncVars, threadVars, Inv
<1>1. par' = par /\ pc' = pc
  OBVIOUS
<1>2. Threads' = Threads /\ Crossed' = Crossed /\ Completed' = Completed /\ Stalls' = Stalls
  BY <1>1, SameThreads
<1>3. /\ mpc = "fill" /\ mpc' \in {"fill", "create"} /\ i' \in Nat
      /\ UNCHANGED <<par, topo, table, rlu, count, crossing, done, pc, op>>
  BY DEF TypeOK
<1>4. deferred' \subseteq Threads
  BY ThreadFacts, DeferFacts DEF TypeOK
<1>5. TypeOK'
  BY <1>2, <1>3, <1>4 DEF TypeOK, MainLabels
<1>6. Launching'
  BY <1>2, <1>3, ThreadFacts DEF Launching
<1>7. Barrier'
  BY <1>2, <1>3 DEF Barrier
<1>8. Completion'
  BY <1>2, <1>3 DEF Completion, Consumed, Waited
<1>9. Built'
  BY <1>2, <1>3 DEF Built
<1>10. QED
  BY <1>5, <1>6, <1>7, <1>8, <1>9

\* A thread is created; the last one is the main thread itself.
LEMMA CreateThreadInv ==
  ASSUME Inv, CreateThread
  PROVE  Inv'
<1> DEFINE x == IF i + 1 < par.threads_nb THEN i + 1 ELSE 0
<1> USE DEF CreateThread, MainAt, MainGoto, tableVars, syncVars, Inv
<1>1. /\ mpc = "create" /\ mpc' \in {"create", "work"} /\ i \in Nat /\ i' \in Nat
      /\ pc' = [pc EXCEPT ![x] = "barrier"] /\ pc \in [Threads -> Labels]
      /\ mpc' = "create" => i' = i + 1 /\ x = i + 1
      /\ UNCHANGED <<par, topo, table, rlu, deferred, count, crossing, done, op>>
  BY DEF TypeOK
<1>2. Threads' = Threads /\ Stalls' = Stalls /\ ~Stalls
  BY <1>1 DEF Threads, Stalls, Launching
<1>3. x \in Threads /\ pc[x] = "none"
  BY <1>1, ThreadFacts DEF Launching
<1>4. pc' \in [Threads -> Labels] /\ \A t \in Threads : t # x => pc'[t] = pc[t]
  BY <1>1 DEF Labels
<1>5. Crossed' = Crossed /\ Completed' = Completed
  BY <1>1, <1>2, <1>3, <1>4 DEF Crossed, Completed
<1>6. TypeOK'
  BY <1>1, <1>2, <1>4 DEF TypeOK, MainLabels
<1>7. Launching'
  <2>1. mpc' = "create" => /\ pc'[0] = "none"
                           /\ \A t \in Threads' : t > i' => pc'[t] = "none"
    BY <1>1, <1>2, <1>3, <1>4, ThreadFacts DEF Launching
  <2>2. QED
    BY <1>1, <1>2, <2>1 DEF Launching
<1>8. Barrier'
  BY <1>1, <1>2, <1>3, <1>4, <1>5 DEF Barrier
<1>9. Completion'
  BY <1>1, <1>2, <1>5 DEF Completion, Consumed, Waited
<1>10. Built'
  BY <1>1, <1>2 DEF Built
<1>11. QED
  BY <1>6, <1>7, <1>8, <1>9, <1>10

-----------------------------------------------------------------------------
(* The threads *)

\* A step of thread t that leaves the main thread alone.
ThreadOnly == UNCHANGED <<par, topo, mpc, i, table, rlu, count>>

\* What such a step keeps, if no thread that was created is gone.
LEMMA ThreadFrame ==
  ASSUME Inv, NEW t \in Threads, ThreadOnly, pc[t] # "none", NEW label \in Labels,
         pc' = [pc EXCEPT ![t] = label], op' \in [Threads -> {"none", "lookup", "insert", "delete"}],
         deferred' \subseteq Threads, crossing' \in Nat, done' \in Nat
  PROVE  /\ TypeOK' /\ Launching' /\ Built'
         /\ Threads' = Threads /\ Stalls' = Stalls /\ ~Stalls /\ Consumed' = Consumed
         /\ mpc \notin {"check", "error", "init", "alloc", "fill"} /\ count = par.threads_nb
         /\ pc'[t] = label /\ \A u \in Threads : u # t => pc'[u] = pc[u]
<1> USE DEF ThreadOnly, Inv
<1>1. Threads' = Threads /\ Stalls' = Stalls /\ Consumed' = Consumed
  BY DEF Threads, Stalls, Consumed, Waited
<1>2. ~Stalls /\ mpc \notin {"check", "error", "init", "alloc", "fill"}
  BY DEF Launching
<1>3. count = par.threads_nb
  BY <1>2 DEF Barrier
<1>4. /\ pc \in [Threads -> Labels] /\ pc' \in [Threads -> Labels] /\ pc'[t] = label
      /\ \A u \in Threads : u # t => pc'[u] = pc[u]
  BY DEF TypeOK
<1>5. TypeOK'
  BY <1>1, <1>4 DEF TypeOK
<1>6. Launching'
  <2>1. mpc = "create" => t # 0 /\ ~(t > i)
    BY DEF Launching
  <2>2. mpc = "create" => pc'[0] = "none" /\ \A u \in Threads : u > i => pc'[u] = "none"
    BY <1>4, <2>1, ThreadFacts DEF Launching
  <2>3. QED
    BY <1>1, <1>2, <2>2 DEF Launching
<1>7. Built'
  BY <1>1 DEF Built
<1>8. QED
  BY <1>1, <1>2, <1>3, <1>4, <1>5, <1>6, <1>7

\* The barrier: the last thread to arrive lets everybody go.
LEMMA BarrierCrossInv ==
  ASSUME Inv, NEW t \in Threads, BarrierCross(t)
  PROVE  Inv'
<1> USE DEF BarrierCross, ThreadGoto, mainVars, tableVars
<1>1. /\ ThreadOnly /\ done' = done /\ op' = op /\ deferred' = deferred
      /\ pc[t] \in {"barrier", "spin"}
      /\ crossing \in Nat /\ crossing' \in Nat /\ pc \in [Threads -> Labels]
  BY DEF ThreadOnly, Inv, TypeOK
<1>2. PICK label \in {"loop", "spin"} : pc' = [pc EXCEPT ![t] = label]
  OBVIOUS
<1>3. /\ TypeOK' /\ Launching' /\ Built' /\ Threads' = Threads /\ Stalls' = Stalls /\ ~Stalls
      /\ Consumed' = Consumed /\ mpc \notin {"check", "error", "init", "alloc", "fill"}
      /\ count = par.threads_nb /\ pc'[t] = label /\ \A u \in Threads : u # t => pc'[u] = pc[u]
  <2>1. pc[t] # "none" /\ label \in Labels /\ deferred' \subseteq Threads /\ done' \in Nat
        /\ op' \in [Threads -> {"none", "lookup", "insert", "delete"}]
    BY <1>1 DEF Labels, Inv, TypeOK
  <2>2. QED
    BY <1>1, <1>2, <2>1, ThreadFrame
<1>4. Completed' = Completed
  BY <1>1, <1>3 DEF Completed
<1>5. Completion'
  BY <1>1, <1>3, <1>4 DEF ThreadOnly, Completion, Inv
<1>6. CASE pc[t] = "barrier"
  <2>1. crossing' = crossing + 1 /\ label = IF crossing' = count THEN "loop" ELSE "spin"
    BY <1>2, <1>3, <1>6
  <2>2. Crossed' = Crossed \union {t} /\ t \notin Crossed
    BY <1>3, <1>6 DEF Crossed
  <2>3. Cardinality(Crossed') = Cardinality(Crossed) + 1
    BY <2>2, CountFacts, FS_AddElement DEF Inv
  <2>4. \A u \in Threads : pc[u] \in {"none", "barrier", "spin"}
    BY <2>2, BarrierFull
  <2>5. QED
    BY <1>1, <1>3, <1>5, <2>1, <2>2, <2>3, <2>4 DEF Inv, Barrier, ThreadOnly
<1>7. CASE pc[t] = "spin"
  <2>1. crossing' = crossing /\ crossing = count
    BY <1>7
  <2>2. Crossed' = Crossed
    BY <1>3, <1>7 DEF Crossed
  <2>3. QED
    BY <1>1, <1>3, <1>5, <2>1, <2>2 DEF Inv, Barrier, ThreadOnly
<1>8. QED
  BY <1>1, <1>6, <1>7

\* The steps of a thread from the barrier to its completion, and after it.
LEMMA WorkInv ==
  ASSUME Inv, NEW t \in Threads,
         \/ \E o \in {"lookup", "insert", "delete"} : StartCall(t, o)
         \/ EndCall(t) \/ FinishThread(t)
  PROVE  Inv'
<1> USE DEF StartCall, EndCall, FinishThread, ThreadGoto, mainVars, tableVars, syncVars
<1>1. ThreadOnly /\ done' = done /\ crossing' = crossing /\ pc \in [Threads -> Labels]
  BY DEF ThreadOnly, Inv, TypeOK
<1>2. PICK label \in {"loop", "call", "complete", "rlu_stats", "exit"} :
        /\ pc' = [pc EXCEPT ![t] = label]
        /\ \/ pc[t] \in {"loop", "call"} /\ label \in {"loop", "call", "complete"}
           \/ pc[t] \in {"finish", "rlu_stats"} /\ label \in {"rlu_stats", "exit"}
  OBVIOUS
<1>3. deferred' \subseteq Threads
  BY DeferFacts DEF Inv, TypeOK
<1>4. op' \in [Threads -> {"none", "lookup", "insert", "delete"}]
  BY DEF Inv, TypeOK
<1>5. /\ TypeOK' /\ Launching' /\ Built' /\ Threads' = Threads /\ Stalls' = Stalls /\ ~Stalls
      /\ Consumed' = Consumed /\ pc'[t] = label /\ \A u \in Threads : u # t => pc'[u] = pc[u]
  <2>1. pc[t] # "none" /\ label \in Labels /\ crossing' \in Nat /\ done' \in Nat
    BY <1>1, <1>2 DEF Labels, Inv, TypeOK
  <2>2. QED
    BY <1>1, <1>2, <1>3, <1>4, <2>1, ThreadFrame
<1>6. Crossed' = Crossed /\ Completed' = Completed
  BY <1>2, <1>5 DEF Crossed, Completed
<1>7. Barrier'
  BY <1>1, <1>2, <1>5, <1>6 DEF Inv, Barrier, ThreadOnly
<1>8. Completion'
  BY <1>1, <1>5, <1>6 DEF Inv, Completion, ThreadOnly
<1>9. QED
  BY <1>5, <1>7, <1>8 DEF Inv

\* complete(): one thread and one completion more.
LEMMA CompleteInv ==
  ASSUME Inv, NEW t \in Threads, Complete(t)
  PROVE  Inv'
<1> USE DEF Complete, ThreadGoto, mainVars, tableVars
<1>1. /\ ThreadOnly /\ done \in Nat /\ done' = done + 1 /\ crossing' = crossing
      /\ pc[t] = "complete" /\ pc' = [pc EXCEPT ![t] = "finish"]
  BY DEF ThreadOnly, Inv, TypeOK
<1>2. /\ TypeOK' /\ Launching' /\ Built' /\ Threads' = Threads /\ Stalls' = Stalls /\ ~Stalls
      /\ Consumed' = Consumed /\ pc'[t] = "finish" /\ \A u \in Threads : u # t => pc'[u] = pc[u]
  <2>1. /\ pc[t] # "none" /\ "finish" \in Labels /\ deferred' \subseteq Threads
        /\ op' \in [Threads -> {"none", "lookup", "insert", "delete"}]
        /\ crossing' \in Nat /\ done' \in Nat
    BY <1>1 DEF Labels, Inv, TypeOK
  <2>2. QED
    BY <1>1, <2>1, ThreadFrame
<1>3. Crossed' = Crossed /\ Completed' = Completed \union {t} /\ t \notin Completed
  BY <1>1, <1>2 DEF Crossed, Completed
<1>4. Cardinality(Completed') = Cardinality(Completed) + 1
  BY <1>3, CountFacts, FS_AddElement DEF Inv
<1>5. Barrier'
  BY <1>1, <1>2, <1>3 DEF Inv, Barrier, ThreadOnly
<1>6. Consumed \in Nat
  BY ThreadFacts DEF Consumed, Inv, TypeOK
<1>7. Completion'
  BY <1>1, <1>2, <1>4, <1>6 DEF Inv, Completion, ThreadOnly
<1>8. QED
  BY <1>2, <1>5, <1>7 DEF Inv

\* record_abort() writes the counters of a processor only.
LEMMA RecordAbortInv ==
  ASSUME Inv, NEW t \in Threads, NEW cpu \in OnlineCpus, NEW stat \in Stats,
         RecordAbort(t, cpu, stat)
  PROVE  Inv'
<1>1. /\ UNCHANGED <<par, topo, mpc, i, table, rlu, deferred, count, crossing, done, pc, op>>
  BY DEF RecordAbort, mainVars, tableVars, syncVars, threadVars
<1>2. Threads' = Threads /\ Crossed' = Crossed /\ Completed' = Completed /\ Stalls' = Stalls
  BY <1>1, SameThreads
<1>3. QED
  BY <1>1, <1>2 DEF Inv, TypeOK, Launching, Barrier, Completion, Consumed, Waited, Built

-----------------------------------------------------------------------------
(* The main thread after its own work *)

\* wait_for_completion(), once for each thread.
LEMMA WaitForThreadsInv ==
  ASSUME Inv, WaitForThreads
  PROVE  Inv'
<1> USE DEF WaitForThreads, ThreadsToWaitFor, MainAt, MainGoto, tableVars, threadVars, Inv
<1>1. Threads' = Threads /\ Crossed' = Crossed /\ Completed' = Completed /\ Stalls' = Stalls
  BY SameThreads
<1>2. /\ mpc \in {"work", "wait"} /\ mpc' \in {"wait", "reinit"} /\ ~Stalls
      /\ UNCHANGED <<par, topo, table, rlu, deferred, count, crossing, pc, op>>
      /\ i \in Nat /\ done \in Nat /\ par.threads_nb \in Nat
  BY ThreadFacts DEF Launching, TypeOK
<1>3. \/ mpc = "work" /\ mpc' = "wait" /\ i' = 0 /\ done' = done
      \/ mpc = "wait" /\ mpc' = "wait" /\ i' = i + 1 /\ i < par.threads_nb /\ done > 0 /\ done' = done - 1
      \/ mpc = "wait" /\ mpc' = "reinit" /\ i' = 0 /\ done' = done /\ i >= par.threads_nb
  OBVIOUS
<1>4. TypeOK'
  BY <1>1, <1>2, <1>3 DEF TypeOK, MainLabels
<1>5. Launching'
  BY <1>1, <1>2 DEF Launching
<1>6. Barrier'
  BY <1>1, <1>2 DEF Barrier
<1>7. Completion'
  <2>1. done + Consumed = done' + Consumed'
    BY <1>1, <1>2, <1>3 DEF Completion, Consumed, Waited
  <2>2. QED
    BY <1>1, <1>2, <1>3, <2>1 DEF Completion
<1>8. Built'
  BY <1>1, <1>2 DEF Built
<1>9. QED
  BY <1>4, <1>5, <1>6, <1>7, <1>8

\* The report and the way to take everything down.
LEMMA WindDownInv ==
  ASSUME Inv,
         \/ Reinitialize \/ SumThread \/ PrintResult \/ DeleteValue \/ FinishRlu \/ Destroy
         \/ FreeThread
  PROVE  Inv'
<1>1. /\ UNCHANGED <<par, topo, count, crossing, done, pc, op>>
      /\ Waited /\ Waited' /\ mpc' \in MainLabels /\ i' \in Nat
      /\ Stalls => mpc' = "done"
  <2>1. CASE Reinitialize \/ FinishRlu \/ Destroy
    BY <2>1 DEF Reinitialize, FinishRlu, Destroy, MainAt, MainGoto, syncVars, threadVars, Waited,
                MainLabels, Inv, TypeOK, Launching
  <2>2. CASE SumThread \/ DeleteValue \/ FreeThread
    BY <2>2 DEF SumThread, DeleteValue, FreeThread, NextOr, MainAt, MainGoto, syncVars, threadVars,
                Waited, MainLabels, Inv, TypeOK, Launching
  <2>3. CASE PrintResult
    BY <2>3 DEF PrintResult, MainAt, MainGoto, syncVars, threadVars, Waited, MainLabels
  <2>4. QED
    BY <2>1, <2>2, <2>3
<1>2. Threads' = Threads /\ Crossed' = Crossed /\ Completed' = Completed /\ Stalls' = Stalls
  BY <1>1, SameThreads
<1>3. table' \in {"none", "live", "freed"}
  BY DEF Reinitialize, SumThread, PrintResult, DeleteValue, FinishRlu, Destroy, FreeThread, tableVars,
         Inv, TypeOK
<1>4. rlu' \in [Threads -> {"none", "live", "freed"}]
  BY DEF Reinitialize, SumThread, PrintResult, DeleteValue, FinishRlu, Destroy, FreeThread, tableVars,
         Inv, TypeOK
<1>5. deferred' \subseteq Threads
  BY ThreadFacts, DeferFacts
     DEF Reinitialize, SumThread, PrintResult, DeleteValue, FinishRlu, Destroy, FreeThread, tableVars,
         Inv, TypeOK
<1>6. TypeOK'
  BY <1>1, <1>2, <1>3, <1>4, <1>5 DEF Inv, TypeOK
<1>7. Launching'
  BY <1>1, <1>2 DEF Inv, Launching, Waited
<1>8. Barrier'
  BY <1>1, <1>2 DEF Inv, Barrier, Waited
<1>9. Completion'
  BY <1>1, <1>2 DEF Inv, Completion, Consumed, Waited
<1>10. Built'
  BY <1>1 DEF Built, Waited
<1>11. QED
  BY <1>6, <1>7, <1>8, <1>9, <1>10 DEF Inv

-----------------------------------------------------------------------------
(* All steps *)

\* When the module is loaded nothing has been built and nothing started.
LEMMA InitInv ==
  ASSUME Init
  PROVE  Inv
<1> USE DEF Init
<1>1. TypeOK
  BY DEF TypeOK, MainLabels, Labels
<1>2. \A t \in Threads : pc[t] = "none"
  OBVIOUS
<1>3. Cardinality(Crossed) = 0 /\ Cardinality(Completed) = 0
  BY <1>2, NothingStarted
<1>4. QED
  BY <1>1, <1>2, <1>3 DEF Inv, Launching, Barrier, Completion, Consumed, Waited, Built

\* Every step keeps the invariant.
LEMMA NextInv ==
  ASSUME Inv, [Next]_vars
  PROVE  Inv'
<1>1. CASE MainStep
  BY <1>1, CheckInv, InitializeInv, AllocThreadInv, FillInv, CreateThreadInv, WaitForThreadsInv,
     WindDownInv DEF MainStep
<1>2. ASSUME NEW t \in Threads, ThreadStep(t) PROVE Inv'
  BY <1>2, BarrierCrossInv, WorkInv, CompleteInv DEF ThreadStep
<1>3. ASSUME NEW t \in Threads, NEW cpu \in OnlineCpus, NEW stat \in Stats, RecordAbort(t, cpu, stat)
      PROVE  Inv'
  BY <1>3, RecordAbortInv
<1>4. CASE UNCHANGED vars
  <2>1. UNCHANGED <<par, topo, mpc, i, table, rlu, deferred, count, crossing, done, pc, op>>
    BY <1>4 DEF vars, mainVars, tableVars, syncVars, threadVars
  <2>2. Threads' = Threads /\ Crossed' = Crossed /\ Completed' = Completed /\ Stalls' = Stalls
    BY <2>1, SameThreads
  <2>3. QED
    BY <2>1, <2>2 DEF Inv, TypeOK, Launching, Barrier, Completion, Consumed, Waited, Built
<1>5. QED
  BY <1>1, <1>2, <1>3, <1>4 DEF Next

(***************************************************************************)
(* The inductive invariant: crossing counts the threads past the barrier,  *)
(* and done together with the completions taken counts the threads that    *)
(* have completed.                                                         *)
(***************************************************************************)
THEOREM Invariance == Spec => []Inv
<1>1. Init => Inv
  BY InitInv
<1>2. Inv /\ [Next]_vars => Inv'
  BY NextInv
<1>3. QED
  BY <1>1, <1>2, PTL DEF Spec

\* Every variable of the driver keeps its type.
THEOREM TypeCorrect == Spec => []TypeOK
<1>1. Inv => TypeOK
  BY DEF Inv
<1>2. QED
  BY <1>1, Invariance, PTL

\* barrier_cross() lets no thread start before the last one has been created
\* and has arrived, for any number of threads.
THEOREM StartsTogether == Spec => []StartTogether
<1>1. ASSUME Inv, NEW t \in Threads, Working(t), NEW u \in Threads
      PROVE  pc[u] \notin {"none", "barrier"}
  <2>1. Crossed = Threads
    BY <1>1, BarrierFull DEF Working
  <2>2. QED
    BY <2>1 DEF Crossed
<1>2. Inv => StartTogether
  BY <1>1 DEF StartTogether
<1>3. QED
  BY <1>2, Invariance, PTL

\* The table and the RLU data are there while any thread may call an operation:
\* one completion per thread is enough, whatever order they arrive in.
THEOREM TeardownSafe == Spec => []TeardownAfterCalls
<1>1. ASSUME Inv, NEW t \in Threads, Working(t) \/ pc[t] \in {"spin", "complete"}
      PROVE  table = "live" /\ \A u \in Threads : rlu[u] = "live"
  <2>1. pc[t] \notin {"none", "finish", "rlu_stats", "exit"}
    BY <1>1 DEF Working
  <2>2. ~Stalls /\ mpc \notin {"check", "error", "init", "alloc", "fill"}
    BY <1>1, <2>1 DEF Inv, Launching
  <2>3. ~Waited
    BY <1>1, <2>1, <2>2, AllCompleted DEF Completed
  <2>4. mpc \in {"create", "work", "wait"}
    BY <1>1, <2>2, <2>3 DEF Waited, Inv, TypeOK, MainLabels
  <2>5. QED
    BY <1>1, <2>4 DEF Inv, Built
<1>2. Inv => TeardownAfterCalls
  BY <1>1 DEF TeardownAfterCalls
<1>3. QED
  BY <1>2, Invariance, PTL

\* What the main thread adds up and prints is final: no thread counts a call
\* or an abort after the main thread has waited for everybody.
THEOREM CountersFinal == Spec => CountersSettled
<1>1. ASSUME Inv, Next, Waited PROVE UNCHANGED <<ops, abort_cnt, made>>
  <2>1. \A t \in Threads : pc[t] \in {"none", "finish", "rlu_stats", "exit"}
    BY <1>1, AllCompleted DEF Completed, Inv, Launching
  <2>2. CASE MainStep
    BY <1>1, <2>2 DEF MainStep, CheckParameters, Initialize, AllocThread, FillOne, FillAgain,
         CreateThread, WaitForThreads, Reinitialize, SumThread, PrintResult, DeleteValue, FinishRlu,
         Destroy, FreeThread, threadVars
  <2>3. ASSUME NEW t \in Threads, ThreadStep(t) PROVE UNCHANGED <<ops, abort_cnt, made>>
    BY <2>1, <2>3 DEF ThreadStep, BarrierCross, StartCall, EndCall, Complete, FinishThread
  <2>4. ASSUME NEW t \in Threads, NEW cpu \in OnlineCpus, NEW stat \in Stats,
               RecordAbort(t, cpu, stat)
        PROVE  FALSE
    BY <1>1, <2>1, <2>4 DEF RecordAbort, MainAt, Waited
  <2>5. QED
    BY <1>1, <2>2, <2>3, <2>4 DEF Next
<1>2. Inv /\ [Next]_vars => [Waited => UNCHANGED <<ops, abort_cnt, made>>]_vars
  BY <1>1
<1>3. QED
  BY <1>2, Invariance, PTL DEF Spec, CountersSettled

-----------------------------------------------------------------------------
(* Sums over the threads, by their partial sums *)

\* One more in the counter t, while nothing has been added up.
LEMMA TallyAdd ==
  ASSUME NEW N \in Nat, NEW c \in [0 .. N - 1 -> Nat], NEW m \in Nat, Tally(N, c, 0, 0, m),
         NEW t \in 0 .. N - 1, NEW d \in 0..1, NEW e \in [0 .. N - 1 -> Nat],
         e[t] = c[t] + d, \A u \in 0 .. N - 1 : u # t => e[u] = c[u]
  PROVE  Tally(N, e, 0, 0, m + d)
<1>2. PICK F \in [0..N -> 0..m] : /\ F[0] = 0 /\ F[N] = m
                                  /\ \A u \in 0 .. N - 1 : F[u + 1] = F[u] + c[u]
  BY DEF Tally
<1> DEFINE G == [j \in 0..N |-> IF t < j THEN F[j] + d ELSE F[j]]
<1>3. G \in [0..N -> 0 .. m + d]
  <2>1. ASSUME NEW j \in 0..N PROVE G[j] \in 0 .. m + d
    <3>1. F[j] \in 0..m /\ G[j] = IF t < j THEN F[j] + d ELSE F[j]
      BY <1>2
    <3> HIDE DEF G
    <3>2. QED
      BY <3>1
  <2>2. QED
    BY <2>1
<1>4. G[0] = 0 /\ G[N] = m + d
  BY <1>2
<1>5. ASSUME NEW u \in 0 .. N - 1 PROVE G[u + 1] = G[u] + e[u]
  <2>1. u \in 0..N /\ u + 1 \in 0..N /\ F[u] \in 0..m /\ F[u + 1] \in 0..m
    <3>1. u \in 0..N /\ u + 1 \in 0..N
      OBVIOUS
    <3> HIDE DEF G
    <3>2. QED
      BY ONLY <1>2, <3>1
  <2>2. F[u + 1] = F[u] + c[u] /\ c[u] \in Nat /\ e[u] \in Nat
    BY <1>2
  <2>3. CASE u = t
    BY <2>1, <2>2, <2>3
  <2>4. CASE u # t
    BY <2>1, <2>2, <2>4
  <2>5. QED
    BY <2>3, <2>4
<1> HIDE DEF G
<1>6. QED
  BY <1>3, <1>4, <1>5 DEF Tally

\* The main thread adds one more counter.
LEMMA TallyMove ==
  ASSUME NEW N \in Nat, NEW c \in [0 .. N - 1 -> Nat], NEW m \in Nat, NEW j \in 0 .. N - 1, NEW p,
         Tally(N, c, j, p, m)
  PROVE  Tally(N, c, j + 1, p + c[j], m)
  BY DEF Tally

\* When it has added them all it has the sum.
LEMMA TallyEnd ==
  ASSUME NEW N, NEW c, NEW m, NEW p, Tally(N, c, N, p, m)
  PROVE  p = m
  BY DEF Tally

\* Counters that are all zero.
LEMMA TallyZero ==
  ASSUME NEW N \in Nat, NEW c \in [0 .. N - 1 -> Nat], \A t \in 0 .. N - 1 : c[t] = 0
  PROVE  Tally(N, c, 0, 0, 0)
<1> DEFINE F == [j \in 0 .. N |-> 0]
<1>1. F \in [0 .. N -> 0..0] /\ F[0] = 0 /\ F[N] = 0
  OBVIOUS
<1>2. \A t \in 0 .. N - 1 : F[t + 1] = F[t] + c[t]
  OBVIOUS
<1>3. QED
  BY <1>1, <1>2 DEF Tally

-----------------------------------------------------------------------------
(* The counters of the calls *)

\* What the counters of one thread amount to.
LEMMA CounterFacts ==
  ASSUME NEW c \in [Fields -> Nat]
  PROVE  /\ Calls(c) \in Nat /\ Failures(c) \in Nat
         /\ c.nb_lookup \in Nat /\ c.nb_insert \in Nat /\ c.nb_delete \in Nat
         /\ c.nb_ins_abort \in Nat /\ c.nb_del_abort \in Nat
  BY DEF Fields, Calls, Failures

\* Steps that count nothing and add up nothing.
LEMMA CountFrame ==
  ASSUME CountInv, par' = par, ops' = ops, total' = total, report' = report,
         made'.calls = made.calls, made'.failed = made.failed,
         made' \in [calls : Nat, failed : Nat, recorded : Nat],
         Summed' = Summed, Waited => Waited', mpc' = "sum" => i' \in Threads,
         \A t \in Threads : pc'[t] = "call" => op'[t] # "none"
  PROVE  CountInv'
<1>1. Threads' = Threads /\ Stalls' = Stalls
  BY DEF Threads, Stalls
<1>2. CallsTallied' /\ FailuresTallied'
  <2>1. CallsTallied'
    <3>1. PICK F \in [0 .. par.threads_nb -> 0 .. made.calls] :
            /\ F[0] = 0 /\ F[Summed] = Calls(total) /\ F[par.threads_nb] = made.calls
            /\ \A t \in Threads : F[t + 1] = F[t] + Calls(ops[t])
      BY DEF CountInv, CallsTallied, Tally, Threads
    <3>2. /\ F \in [0 .. par'.threads_nb -> 0 .. made'.calls]
          /\ F[0] = 0 /\ F[Summed'] = Calls(total') /\ F[par'.threads_nb] = made'.calls
          /\ \A t \in Threads' : F[t + 1] = F[t] + Calls(ops'[t])
      BY <1>1, <3>1
    <3>3. QED
      BY <1>1, <3>2 DEF CallsTallied, Tally, Threads
  <2>2. FailuresTallied'
    <3>1. PICK F \in [0 .. par.threads_nb -> 0 .. made.failed] :
            /\ F[0] = 0 /\ F[Summed] = Failures(total) /\ F[par.threads_nb] = made.failed
            /\ \A t \in Threads : F[t + 1] = F[t] + Failures(ops[t])
      BY DEF CountInv, FailuresTallied, Tally, Threads
    <3>2. /\ F \in [0 .. par'.threads_nb -> 0 .. made'.failed]
          /\ F[0] = 0 /\ F[Summed'] = Failures(total') /\ F[par'.threads_nb] = made'.failed
          /\ \A t \in Threads' : F[t + 1] = F[t] + Failures(ops'[t])
      BY <1>1, <3>1
    <3>3. QED
      BY <1>1, <3>2 DEF FailuresTallied, Tally, Threads
  <2>3. QED
    BY <2>1, <2>2
<1>3. CallsReported' /\ (Reported' => Waited')
  BY DEF CountInv, CallsReported, Reported
<1>4. QED
  BY <1>1, <1>2, <1>3 DEF CountInv

\* The main thread, except where it adds up and prints.
LEMMA MainCount ==
  ASSUME Inv, CountInv, MainStep, ~SumThread, ~PrintResult
  PROVE  CountInv'
<1>1. par' = par /\ ops' = ops /\ total' = total /\ report' = report /\ made' = made
  BY DEF MainStep, CheckParameters, Initialize, AllocThread, FillOne, FillAgain, CreateThread,
         WaitForThreads, Reinitialize, DeleteValue, FinishRlu, Destroy, FreeThread, threadVars, statVars
<1>2. Stalls' = Stalls /\ par.threads_nb \in Nat \ {0} /\ 0 \in Threads
  BY <1>1, ThreadFacts DEF Stalls, Inv
<1>3. /\ Summed' = Summed
      /\ Waited => Waited'
      /\ mpc' = "sum" => i' = 0
  <2>1. CASE CheckParameters
    BY <1>2, <2>1 DEF CheckParameters, MainAt, MainGoto, Summed, Waited
  <2>2. CASE Initialize \/ AllocThread \/ FillOne \/ FillAgain \/ CreateThread
    BY <1>2, <2>2 DEF Initialize, AllocThread, FillOne, FillAgain, CreateThread, NextOr, MainAt,
                      MainGoto, mainVars, Summed, Waited
  <2>3. CASE WaitForThreads \/ Reinitialize
    BY <1>2, <2>3 DEF WaitForThreads, Reinitialize, MainAt, MainGoto, Summed, Waited
  <2>4. CASE DeleteValue \/ FinishRlu \/ Destroy \/ FreeThread
    BY <1>1, <1>2, <2>4 DEF DeleteValue, FinishRlu, Destroy, FreeThread, NextOr, MainAt, MainGoto, Summed,
                      Waited
  <2>5. QED
    BY <2>1, <2>2, <2>3, <2>4 DEF MainStep
<1>4. ASSUME NEW t \in Threads, pc'[t] = "call" PROVE op'[t] # "none"
  <2>1. op' = op /\ (pc' = pc \/ \E x : pc' = [pc EXCEPT ![x] = "barrier"])
    BY DEF MainStep, CheckParameters, Initialize, AllocThread, FillOne, FillAgain, CreateThread,
           WaitForThreads, Reinitialize, DeleteValue, FinishRlu, Destroy, FreeThread, threadVars
  <2>2. pc[t] = "call"
    BY <1>4, <2>1 DEF Inv, TypeOK
  <2>3. QED
    BY <2>1, <2>2 DEF CountInv
<1>5. QED
  BY <1>1, <1>2, <1>3, <1>4, CountFrame DEF CountInv

\* Thread steps other than the return of a call, and record_abort().
LEMMA ThreadCount ==
  ASSUME Inv, CountInv, NEW t \in Threads,
         \/ BarrierCross(t) \/ \E o \in {"lookup", "insert", "delete"} : StartCall(t, o)
         \/ Complete(t) \/ FinishThread(t)
         \/ \E cpu \in OnlineCpus, stat \in Stats : RecordAbort(t, cpu, stat)
  PROVE  CountInv'
<1>1. /\ par' = par /\ ops' = ops /\ total' = total /\ report' = report
      /\ UNCHANGED <<mpc, i>>
  BY DEF BarrierCross, StartCall, Complete, FinishThread, RecordAbort, mainVars, threadVars, statVars
<1>2. /\ made' \in [calls : Nat, failed : Nat, recorded : Nat]
      /\ made'.calls = made.calls /\ made'.failed = made.failed
  <2>1. made' = made \/ made' = [made EXCEPT !.recorded = @ + 1]
    BY DEF BarrierCross, StartCall, Complete, FinishThread, RecordAbort
  <2>2. QED
    BY <2>1 DEF CountInv
<1>3. Summed' = Summed /\ Waited' = Waited
  BY <1>1 DEF Summed, Waited, Stalls
<1>4. mpc' = "sum" => i' \in Threads
  BY <1>1 DEF CountInv
<1>5. ASSUME NEW u \in Threads, pc'[u] = "call" PROVE op'[u] # "none"
  BY <1>5 DEF BarrierCross, StartCall, Complete, FinishThread, RecordAbort, ThreadGoto, threadVars, Inv,
              TypeOK, CountInv
<1>6. QED
  BY <1>1, <1>2, <1>3, <1>4, <1>5, CountFrame

\* bench->nb_* += ops.nb_*: the counters of thread i are final and added once.
LEMMA SumThreadCount ==
  ASSUME Inv, CountInv, SumThread
  PROVE  CountInv'
<1>1. /\ mpc = "sum" /\ i \in Threads /\ i \in Nat /\ ~Stalls /\ par.threads_nb \in Nat
      /\ UNCHANGED <<par, ops, report, made, pc, op>>
      /\ total' = [f \in DOMAIN total |-> total[f] + ops[i][f]]
      /\ ops \in [Threads -> [Fields -> Nat]] /\ total \in [Fields -> Nat] /\ ops[i] \in [Fields -> Nat]
  BY ThreadFacts DEF SumThread, MainAt, threadVars, Inv, Launching, CountInv, TypeOK
<1>2. /\ mpc' \in {"sum", "print"} /\ Summed = i /\ Summed' = i + 1
      /\ mpc' = "sum" => i' \in Threads
  BY <1>1 DEF SumThread, NextOr, MainGoto, Summed, Waited, Stalls, Threads
<1>3. total' \in [Fields -> Nat] /\ \A f \in Fields : total'[f] = total[f] + ops[i][f]
  BY <1>1
<1>4. /\ Calls(total') = Calls(total) + Calls(ops[i])
      /\ Failures(total') = Failures(total) + Failures(ops[i])
  BY <1>1, <1>3, CounterFacts DEF Calls, Failures, Fields
<1>5. Threads' = Threads /\ Stalls' = Stalls
  BY <1>1 DEF Threads, Stalls
<1>6. CallsTallied'
  <2> DEFINE c == [t \in Threads |-> Calls(ops[t])]
  <2>1. c \in [Threads -> Nat] /\ c[i] = Calls(ops[i]) /\ made.calls \in Nat
    BY <1>1, CounterFacts DEF CountInv
  <2>2. Tally(par.threads_nb, c, i, Calls(total), made.calls)
    BY <1>2 DEF CountInv, CallsTallied
  <2> HIDE DEF c
  <2>3. Tally(par.threads_nb, c, i + 1, Calls(total) + c[i], made.calls)
    BY <1>1, <2>1, <2>2, TallyMove DEF Threads
  <2>4. [t \in Threads' |-> Calls(ops'[t])] = c /\ par' = par /\ made' = made
    BY <1>1, <1>5 DEF c
  <2>5. Calls(total') = Calls(total) + c[i] /\ Summed' = i + 1
    BY <1>2, <1>4, <2>1
  <2>6. QED
    BY ONLY <2>3, <2>4, <2>5 DEF CallsTallied
<1>7. FailuresTallied'
  <2> DEFINE c == [t \in Threads |-> Failures(ops[t])]
  <2>1. c \in [Threads -> Nat] /\ c[i] = Failures(ops[i]) /\ made.failed \in Nat
    BY <1>1, CounterFacts DEF CountInv
  <2>2. Tally(par.threads_nb, c, i, Failures(total), made.failed)
    BY <1>2 DEF CountInv, FailuresTallied
  <2> HIDE DEF c
  <2>3. Tally(par.threads_nb, c, i + 1, Failures(total) + c[i], made.failed)
    BY <1>1, <2>1, <2>2, TallyMove DEF Threads
  <2>4. [t \in Threads' |-> Failures(ops'[t])] = c /\ par' = par /\ made' = made
    BY <1>1, <1>5 DEF c
  <2>5. Failures(total') = Failures(total) + c[i] /\ Summed' = i + 1
    BY <1>2, <1>4, <2>1
  <2>6. QED
    BY ONLY <2>3, <2>4, <2>5 DEF FailuresTallied
<1>8. QED
  BY <1>1, <1>2, <1>3, <1>5, <1>6, <1>7 DEF CountInv, CallsReported, Reported, Waited

\* The counter of a call is incremented, in a thread that is not yet added up.
LEMMA EndCallCount ==
  ASSUME Inv, CountInv, NEW t \in Threads, EndCall(t)
  PROVE  CountInv'
<1>1. /\ pc[t] = "call" /\ op[t] \in {"lookup", "insert", "delete"}
      /\ UNCHANGED <<par, mpc, i, total, report>>
      /\ ops \in [Threads -> [Fields -> Nat]] /\ ops[t] \in [Fields -> Nat] /\ total \in [Fields -> Nat]
      /\ made \in [calls : Nat, failed : Nat, recorded : Nat]
  BY DEF EndCall, mainVars, statVars, Inv, TypeOK, CountInv
<1>2. ~Stalls /\ ~Waited
  BY <1>1, AllCompleted DEF Inv, Launching, Completed
<1>3. Threads' = Threads /\ Stalls' = Stalls /\ Waited' = Waited /\ Summed = 0 /\ Summed' = 0
  BY <1>1, <1>2 DEF Threads, Stalls, Waited, Summed
<1>4. PICK failed \in BOOLEAN :
        /\ failed => op[t] # "lookup"
        /\ ops' = [ops EXCEPT ![t][Counter(op[t], failed)] = @ + 1]
        /\ made' = [made EXCEPT !.calls = @ + 1, !.failed = @ + (IF failed THEN 1 ELSE 0)]
  BY DEF EndCall, MayFail
<1> DEFINE f == Counter(op[t], failed)
<1> DEFINE d == IF failed THEN 1 ELSE 0
<1>5. f \in Fields /\ d \in 0..1 /\ (f \in {"nb_ins_abort", "nb_del_abort"} <=> d = 1)
  BY <1>1, <1>4 DEF Counter, Fields
<1>6. /\ made' \in [calls : Nat, failed : Nat, recorded : Nat]
      /\ made'.calls = made.calls + 1 /\ made'.failed = made.failed + d
      /\ made.calls \in Nat /\ made.failed \in Nat
  <2>1. d \in Nat /\ made' = [made EXCEPT !.calls = @ + 1, !.failed = @ + d]
    BY <1>4
  <2> HIDE DEF d
  <2>2. made.calls \in Nat /\ made.failed \in Nat
    BY <1>1
  <2>3. made'.calls = made.calls + 1 /\ made'.failed = made.failed + d
    BY <1>1, <2>1
  <2>4. made' \in [calls : Nat, failed : Nat, recorded : Nat]
    <3> DEFINE m == [made EXCEPT !.calls = @ + 1]
    <3>1. m \in [calls : Nat, failed : Nat, recorded : Nat]
      BY <1>1
    <3>2. made' = [m EXCEPT !.failed = @ + d]
      BY <1>1, <2>1
    <3> HIDE DEF m
    <3>3. QED
      BY <2>1, <3>1, <3>2
  <2>5. QED
    BY <2>2, <2>3, <2>4
<1> HIDE DEF f, d
<1>7. /\ ops' \in [Threads -> [Fields -> Nat]] /\ \A u \in Threads : u # t => ops'[u] = ops[u]
      /\ ops'[t] = [ops[t] EXCEPT ![f] = @ + 1]
  BY <1>1, <1>4, <1>5 DEF f
<1>8. Calls(ops'[t]) = Calls(ops[t]) + 1 /\ Failures(ops'[t]) = Failures(ops[t]) + d
  <2>1. ops'[t][f] = ops[t][f] + 1 /\ \A g \in Fields : g # f => ops'[t][g] = ops[t][g]
    BY <1>1, <1>5, <1>7
  <2>2. \A g \in Fields : ops[t][g] \in Nat
    BY <1>1
  <2>3. QED
    BY <1>5, <2>1, <2>2 DEF Calls, Failures, Fields
<1>9. Calls(total) = 0 /\ Failures(total) = 0
  BY <1>1, <1>3 DEF CountInv, CallsTallied, FailuresTallied, Tally
<1>16. par.threads_nb \in Nat
  BY ThreadFacts DEF Inv
<1>10. CallsTallied'
  <2> DEFINE c == [u \in Threads |-> Calls(ops[u])]
  <2> DEFINE e == [u \in Threads |-> Calls(ops'[u])]
  <2>1. /\ c \in [Threads -> Nat] /\ e \in [Threads -> Nat]
        /\ e[t] = c[t] + 1 /\ \A u \in Threads : u # t => e[u] = c[u]
    BY <1>1, <1>7, <1>8, CounterFacts
  <2>2. Tally(par.threads_nb, c, 0, 0, made.calls)
    BY <1>3, <1>9 DEF CountInv, CallsTallied
  <2>3. e = [u \in Threads' |-> Calls(ops'[u])]
    BY <1>3
  <2> HIDE DEF c, e
  <2>4. Tally(par.threads_nb, e, 0, 0, made.calls + 1)
    <3>1. 1 \in 0..1
      OBVIOUS
    <3>2. QED
      BY ONLY <1>6, <1>16, <2>1, <2>2, <3>1, TallyAdd DEF Threads
  <2>5. par' = par /\ Calls(total') = 0 /\ Summed' = 0 /\ made'.calls = made.calls + 1
    BY <1>1, <1>3, <1>6, <1>9
  <2>6. QED
    BY ONLY <2>3, <2>4, <2>5 DEF CallsTallied
<1>11. FailuresTallied'
  <2> DEFINE c == [u \in Threads |-> Failures(ops[u])]
  <2> DEFINE e == [u \in Threads |-> Failures(ops'[u])]
  <2>1. /\ c \in [Threads -> Nat] /\ e \in [Threads -> Nat]
        /\ e[t] = c[t] + d /\ \A u \in Threads : u # t => e[u] = c[u]
    BY <1>1, <1>7, <1>8, CounterFacts
  <2>2. Tally(par.threads_nb, c, 0, 0, made.failed)
    BY <1>3, <1>9 DEF CountInv, FailuresTallied
  <2>3. e = [u \in Threads' |-> Failures(ops'[u])]
    BY <1>3
  <2> HIDE DEF c, e
  <2>4. Tally(par.threads_nb, e, 0, 0, made.failed + d)
    BY <1>5, <1>6, <1>16, <2>1, <2>2, TallyAdd DEF Threads
  <2>5. par' = par /\ Failures(total') = 0 /\ Summed' = 0 /\ made'.failed = made.failed + d
    BY <1>1, <1>3, <1>6, <1>9
  <2>6. QED
    BY ONLY <2>3, <2>4, <2>5 DEF FailuresTallied
<1>12. ASSUME NEW u \in Threads, pc'[u] = "call" PROVE op'[u] # "none"
  BY <1>12 DEF EndCall, ThreadGoto, Inv, TypeOK, CountInv
<1>13. ~Reported'
  BY <1>1, <1>2 DEF CountInv, Reported
<1>14. QED
  BY <1>1, <1>2, <1>3, <1>6, <1>7, <1>10, <1>11, <1>12, <1>13 DEF CountInv, CallsReported, Waited

\* What is printed is the sum over all threads; if RLU would stall there were none.
LEMMA PrintCount ==
  ASSUME Inv, CountInv, PrintResult
  PROVE  CountInv'
<1>1. /\ mpc = "print" /\ UNCHANGED <<par, ops, total, made, pc, op>>
      /\ mpc' \in {"done", "delete", "destroy"} /\ (Stalls => mpc' = "done")
      /\ report'.nr_aborts = total.nb_ins_abort + total.nb_del_abort
      /\ report'.nr_ops = AtLeastOne(total.nb_lookup +
           (total.nb_insert + total.nb_delete + (total.nb_ins_abort + total.nb_del_abort)))
  BY DEF PrintResult, MainAt, MainGoto, threadVars
<1>2. total \in [Fields -> Nat] /\ par.threads_nb \in Nat
  BY ThreadFacts DEF CountInv, Inv
<1>3. report'.nr_aborts = Failures(total) /\ report'.nr_ops = AtLeastOne(Calls(total))
  <2>1. total.nb_lookup + (total.nb_insert + total.nb_delete +
          (total.nb_ins_abort + total.nb_del_abort)) = Calls(total)
    BY <1>2, CounterFacts DEF Calls
  <2>2. QED
    BY <1>1, <2>1 DEF Failures
<1>4. Summed' = Summed /\ Waited' /\ Threads' = Threads /\ Stalls' = Stalls
  BY <1>1 DEF Summed, Waited, Threads, Stalls
<1>5. Calls(total) = made.calls /\ Failures(total) = made.failed
  <2>1. CASE Stalls
    BY <1>1, <2>1 DEF CountInv, CallsTallied, FailuresTallied, Tally, Summed, Waited
  <2>2. CASE ~Stalls
    <3>1. Summed = par.threads_nb
      BY <1>1, <2>2 DEF Summed, Waited
    <3>2. QED
      BY <3>1, TallyEnd DEF CountInv, CallsTallied, FailuresTallied
  <2>3. QED
    BY <2>1, <2>2
<1>6. CallsReported'
  BY <1>1, <1>3, <1>5 DEF CallsReported, AtLeastOne
<1>7. CallsTallied' /\ FailuresTallied'
  <2>1. /\ [t \in Threads' |-> Calls(ops'[t])] = [t \in Threads |-> Calls(ops[t])]
        /\ [t \in Threads' |-> Failures(ops'[t])] = [t \in Threads |-> Failures(ops[t])]
    BY <1>1, <1>4
  <2>2. par'.threads_nb = par.threads_nb /\ made' = made /\ total' = total /\ ops' = ops
    BY <1>1
  <2>3. CallsTallied' <=> CallsTallied
    BY ONLY <1>4, <2>1, <2>2 DEF CallsTallied
  <2>4. FailuresTallied' <=> FailuresTallied
    BY ONLY <1>4, <2>1, <2>2 DEF FailuresTallied
  <2>5. QED
    BY <2>3, <2>4 DEF CountInv
<1>8. QED
  BY <1>1, <1>4, <1>6, <1>7 DEF CountInv

\* At first nothing is counted.
LEMMA InitCount ==
  ASSUME Init
  PROVE  CountInv
<1>1. Inv
  BY InitInv
<1>2. /\ ops \in [Threads -> [Fields -> Nat]] /\ total \in [Fields -> Nat]
      /\ made = [calls |-> 0, failed |-> 0, recorded |-> 0] /\ mpc = "check"
      /\ \A t \in Threads : pc[t] = "none" /\ ops[t] = NoOps
      /\ total = NoOps /\ report = NoReport
  BY DEF Init, NoOps, Fields
<1>3. Calls(NoOps) = 0 /\ Failures(NoOps) = 0 /\ Summed = 0
  BY <1>2 DEF NoOps, Calls, Failures, Summed, Waited
<1>7. par.threads_nb \in Nat
  BY <1>1, ThreadFacts DEF Inv
<1>4. CallsTallied
  <2> DEFINE c == [t \in Threads |-> Calls(ops[t])]
  <2>1. c \in [Threads -> Nat] /\ \A t \in Threads : c[t] = 0
    BY <1>2, <1>3
  <2> HIDE DEF c
  <2>2. Tally(par.threads_nb, c, 0, 0, 0)
    BY <1>7, <2>1, TallyZero DEF Threads
  <2>3. QED
    BY <1>2, <1>3, <2>2 DEF CallsTallied, c
<1>5. FailuresTallied
  <2> DEFINE c == [t \in Threads |-> Failures(ops[t])]
  <2>1. c \in [Threads -> Nat] /\ \A t \in Threads : c[t] = 0
    BY <1>2, <1>3
  <2> HIDE DEF c
  <2>2. Tally(par.threads_nb, c, 0, 0, 0)
    BY <1>7, <2>1, TallyZero DEF Threads
  <2>3. QED
    BY <1>2, <1>3, <2>2 DEF FailuresTallied, c
<1>6. QED
  BY <1>2, <1>4, <1>5 DEF CountInv, CallsReported, Reported

\* Every step counts what it does.
LEMMA NextCount ==
  ASSUME Inv, CountInv, [Next]_vars
  PROVE  CountInv'
<1>1. CASE MainStep
  BY <1>1, MainCount, SumThreadCount, PrintCount
<1>2. ASSUME NEW t \in Threads, ThreadStep(t) PROVE CountInv'
  BY <1>2, ThreadCount, EndCallCount DEF ThreadStep
<1>3. ASSUME NEW t \in Threads, NEW cpu \in OnlineCpus, NEW stat \in Stats, RecordAbort(t, cpu, stat)
      PROVE  CountInv'
  BY <1>3, ThreadCount
<1>4. CASE UNCHANGED vars
  <2>1. UNCHANGED <<par, mpc, i, ops, total, report, made, pc, op>>
    BY <1>4 DEF vars, mainVars, threadVars, statVars
  <2>2. Summed' = Summed /\ Waited' = Waited
    BY <2>1 DEF Summed, Waited, Stalls
  <2>3. QED
    BY <2>1, <2>2, CountFrame DEF CountInv
<1>5. QED
  BY <1>1, <1>2, <1>3, <1>4 DEF Next

\* The report counts every call of every thread once and every update that gave
\* up once, for any number of threads and calls, although the main thread reads
\* the counters of the others without a lock.
THEOREM ReportCountsCalls == Spec => []CallsReported
<1>1. Init => CountInv
  BY InitCount
<1>2. Inv /\ CountInv /\ [Next]_vars => CountInv'
  BY NextCount
<1>3. CountInv => CallsReported
  BY DEF CountInv
<1>4. QED
  BY <1>1, <1>2, <1>3, Invariance, PTL DEF Spec

-----------------------------------------------------------------------------
(* The processors *)

\* Every set of natural numbers that is not empty has a least member.
LEMMA LeastNatural ==
  ASSUME NEW S \in SUBSET Nat, S # {}
  PROVE  \E m \in S : \A k \in S : m <= k
<1>1. PICK m \in S : \A k \in S : ~(<<k, m>> \in OpToRel(<, Nat))
  BY WFMin, NatLessThanWellFounded
<1>2. \A k \in S : ~(k < m)
  BY <1>1 DEF OpToRel
<1>3. QED
  BY <1>2

\* Min() of such a set is that member.
LEMMA MinFacts ==
  ASSUME NEW S \in SUBSET Nat, S # {}
  PROVE  Min(S) \in S /\ \A k \in S : Min(S) <= k
<1>1. \E m \in S : \A k \in S : m =< k
  BY LeastNatural
<1>2. QED
  BY <1>1 DEF Min

\* Finitely many natural numbers have an upper bound.
LEMMA UpperBound ==
  ASSUME NEW n \in Nat, NEW f \in [1 .. n -> Nat]
  PROVE  \E b \in Nat : \A k \in 1 .. n : f[k] <= b
<1> DEFINE Bad == {m \in Nat : \E g \in [1 .. m -> Nat] : ~\E b \in Nat : \A k \in 1 .. m : g[k] <= b}
<1>1. SUFFICES ASSUME Bad # {} PROVE FALSE
  OBVIOUS
<1>2. PICK m \in Bad : \A k \in Bad : m <= k
  BY <1>1, LeastNatural
<1>3. PICK g \in [1 .. m -> Nat] : ~\E b \in Nat : \A k \in 1 .. m : g[k] <= b
  BY <1>2
<1>4. m \in Nat /\ m # 0
  BY <1>2, <1>3
<1>5. m - 1 \in Nat /\ \A h \in [1 .. m - 1 -> Nat] : \E b \in Nat : \A k \in 1 .. m - 1 : h[k] <= b
  <2>1. m - 1 \in Nat /\ ~(m <= m - 1)
    BY <1>4
  <2>2. m - 1 \notin Bad
    BY <1>2, <2>1
  <2>3. QED
    BY <2>1, <2>2
<1> HIDE DEF Bad
<1> DEFINE h == [k \in 1 .. m - 1 |-> g[k]]
<1>6. h \in [1 .. m - 1 -> Nat]
  <2>1. 1 .. m - 1 \subseteq 1 .. m
    BY <1>4
  <2>2. \A k \in 1 .. m - 1 : g[k] \in Nat
    BY <1>3, <2>1
  <2>3. QED
    BY <2>2
<1>7. PICK b \in Nat : \A k \in 1 .. m - 1 : h[k] <= b
  BY <1>5, <1>6
<1>8. g[m] \in Nat /\ g[m] + b \in Nat
  <2>1. m \in 1 .. m
    BY <1>4
  <2>2. g[m] \in Nat
    BY <1>3, <2>1
  <2>3. QED
    BY <1>7, <2>2
<1>9. ASSUME NEW k \in 1 .. m PROVE g[k] <= g[m] + b
  <2>1. CASE k = m
    BY <1>8, <2>1
  <2>2. CASE k # m
    <3>1. k \in 1 .. m - 1
      BY <1>4, <2>2
    <3>2. g[k] \in Nat /\ g[k] <= b
      BY <1>3, <1>7, <3>1
    <3>3. QED
      BY <1>8, <3>2
  <2>3. QED
    BY <2>1, <2>2
<1>10. QED
  BY <1>3, <1>8, <1>9

\* Max() of a finite set of natural numbers that is not empty is its greatest member.
LEMMA MaxFacts ==
  ASSUME NEW S \in SUBSET Nat, S # {}, IsFiniteSet(S)
  PROVE  Max(S) \in S /\ \A k \in S : k <= Max(S)
<1>1. PICK n \in Nat : ExistsSurjection(1 .. n, S)
  BY FS_NatSurjection
<1>2. PICK f \in [1 .. n -> S] : \A x \in S : \E k \in 1 .. n : f[k] = x
  BY <1>1 DEF ExistsSurjection, Surjection
<1>3. f \in [1 .. n -> Nat]
  BY <1>2
<1> DEFINE U == {b \in Nat : \A x \in S : x <= b}
<1>4. U # {}
  <2>1. PICK b \in Nat : \A k \in 1 .. n : f[k] <= b
    BY <1>3, UpperBound
  <2>2. b \in U
    BY <1>2, <2>1
  <2>3. QED
    BY <2>2
<1>5. PICK m \in U : \A b \in U : m <= b
  BY <1>4, LeastNatural
<1>6. m \in S
  <2>1. SUFFICES ASSUME m \notin S PROVE FALSE
    OBVIOUS
  <2>2. PICK x \in S : TRUE
    OBVIOUS
  <2>3. x \in Nat /\ x <= m /\ x # m
    BY <1>5, <2>1
  <2>4. m - 1 \in Nat
    BY <1>5, <2>3
  <2>5. \A y \in S : y <= m - 1
    BY <1>5, <2>1
  <2>6. m - 1 \in U
    BY <2>4, <2>5
  <2>7. m \in Nat /\ m <= m - 1
    BY <1>5, <2>6
  <2>8. QED
    BY <2>7
<1>7. \E x \in S : \A y \in S : x >= y
  BY <1>5, <1>6
<1>8. QED
  BY <1>7 DEF Max

\* The nodes of the machine.
LEMMA TopologyFacts ==
  ASSUME NEW tp \in Topologies
  PROVE  /\ tp \in Seq(SUBSET Nat) /\ Len(tp) \in Nat \ {0} /\ DOMAIN tp = 1 .. Len(tp)
         /\ \A m \in 1 .. Len(tp) : tp[m] \in SUBSET Nat /\ tp[m] # {} /\ IsFiniteSet(tp[m])
         /\ \A m, n \in 1 .. Len(tp) : m # n => tp[m] \cap tp[n] = {}
  BY DriverAssumption

\* The processors are finitely many, and nr_cpu_ids is above all their numbers.
LEMMA CpuFacts ==
  ASSUME TypeOK
  PROVE  /\ OnlineCpus \in SUBSET Nat /\ OnlineCpus # {} /\ IsFiniteSet(OnlineCpus)
         /\ nr_cpu_ids \in Nat \ {0} /\ \A cpu \in OnlineCpus : cpu < nr_cpu_ids
<1>1. topo \in Topologies
  BY DEF TypeOK
<1> DEFINE D == 1 .. Len(topo)
<1> DEFINE T == {topo[m] : m \in D}
<1>2. OnlineCpus = UNION T /\ topo \in [D -> T]
  BY <1>1, TopologyFacts DEF OnlineCpus
<1>3. topo \in Surjection(D, T)
  BY <1>2 DEF Surjection
<1>4. IsFiniteSet(D)
  <2>1. Len(topo) \in Nat
    BY <1>1, TopologyFacts
  <2>2. QED
    BY <2>1, FS_Interval
<1>5. IsFiniteSet(T)
  BY <1>3, <1>4, FS_Surjection
<1>6. \A x \in T : IsFiniteSet(x) /\ x \in SUBSET Nat /\ x # {}
  BY <1>1, TopologyFacts
<1>7. IsFiniteSet(UNION T)
  BY <1>5, <1>6, FS_UNION
<1>8. T # {}
  <2>1. 1 \in D
    BY <1>1, TopologyFacts
  <2>2. QED
    BY <2>1
<1> HIDE DEF T, D
<1>9. UNION T \in SUBSET Nat /\ UNION T # {}
  BY <1>6, <1>8
<1>10. Max(OnlineCpus) \in OnlineCpus /\ \A k \in OnlineCpus : k <= Max(OnlineCpus)
  BY <1>2, <1>7, <1>9, MaxFacts
<1>11. Max(OnlineCpus) \in Nat
  BY <1>2, <1>9, <1>10
<1>12. nr_cpu_ids \in Nat \ {0} /\ \A cpu \in OnlineCpus : cpu < nr_cpu_ids
  <2>1. PICK top : top = Max(OnlineCpus)
    OBVIOUS
  <2>2. top \in Nat /\ nr_cpu_ids = top + 1 /\ OnlineCpus \in SUBSET Nat
        /\ \A cpu \in OnlineCpus : cpu <= top
    BY <1>2, <1>9, <1>10, <1>11, <2>1 DEF nr_cpu_ids
  <2>3. QED
    BY ONLY <2>2
<1>13. QED
  BY <1>2, <1>7, <1>9, <1>12

-----------------------------------------------------------------------------
(* The counters of the aborts *)

\* for_each_online_cpu() adds up all counters: the sum that the partial sums give.
LEMMA SumOnlineIs ==
  ASSUME TypeOK, NEW c, NEW e, NEW m \in Nat, Tally(nr_cpu_ids, e, 0, 0, m),
         \A cpu \in 0 .. nr_cpu_ids - 1 : e[cpu] = IF cpu \in OnlineCpus THEN c[cpu] ELSE 0
  PROVE  SumOnline(c) = m
<1> DEFINE N == nr_cpu_ids
<1>1. N \in Nat \ {0}
  BY CpuFacts
<1>2. PICK F \in [0 .. N -> 0 .. m] :
        /\ F[0] = 0 /\ F[N] = m /\ \A k \in 0 .. N - 1 : F[k + 1] = F[k] + e[k]
  BY DEF Tally
<1> DEFINE IsSum(f) == f = [cpu \in 0 .. N |->
                              IF cpu = 0 THEN 0
                              ELSE f[cpu - 1] + (IF cpu - 1 \in OnlineCpus THEN c[cpu - 1] ELSE 0)]
<1> DEFINE G == CHOOSE f : IsSum(f)
<1>3. SumOnline(c) = G[N]
  BY DEF SumOnline
<1> HIDE DEF N
<1>4. \A cpu \in 0 .. N : cpu # 0 =>
        F[cpu] = F[cpu - 1] + (IF cpu - 1 \in OnlineCpus THEN c[cpu - 1] ELSE 0)
  <2>1. ASSUME NEW cpu \in 0 .. N, cpu # 0
        PROVE  F[cpu] = F[cpu - 1] + (IF cpu - 1 \in OnlineCpus THEN c[cpu - 1] ELSE 0)
    <3>1. cpu - 1 \in 0 .. N - 1 /\ (cpu - 1) + 1 = cpu
      BY <1>1, <2>1
    <3>2. F[(cpu - 1) + 1] = F[cpu - 1] + e[cpu - 1]
      BY <1>2, <3>1
    <3>3. e[cpu - 1] = IF cpu - 1 \in OnlineCpus THEN c[cpu - 1] ELSE 0
      BY <3>1 DEF N
    <3>4. QED
      BY <3>1, <3>2, <3>3
  <2>2. QED
    BY <2>1
<1>5. IsSum(F)
  <2>1. F = [cpu \in 0 .. N |-> F[cpu]]
    OBVIOUS
  <2>2. \A cpu \in 0 .. N : F[cpu] = IF cpu = 0 THEN 0
           ELSE F[cpu - 1] + (IF cpu - 1 \in OnlineCpus THEN c[cpu - 1] ELSE 0)
    BY <1>2, <1>4
  <2>3. QED
    BY <2>1, <2>2
<1>6. IsSum(G)
  BY <1>5
<1>7. \A cpu \in 0 .. N : G[cpu] = IF cpu = 0 THEN 0
        ELSE G[cpu - 1] + (IF cpu - 1 \in OnlineCpus THEN c[cpu - 1] ELSE 0)
  BY <1>6
<1> HIDE DEF G, IsSum
<1> DEFINE Bad == {cpu \in 0 .. N : G[cpu] # F[cpu]}
<1>8. Bad = {}
  <2>1. SUFFICES ASSUME Bad # {} PROVE FALSE
    OBVIOUS
  <2>2. Bad \in SUBSET Nat
    BY <1>1
  <2>3. PICK b \in Bad : \A k \in Bad : b <= k
    BY <2>1, <2>2, LeastNatural
  <2>4. b # 0
    BY <1>1, <1>2, <1>7, <2>3
  <2>5. b - 1 \in 0 .. N /\ ~(b <= b - 1)
    BY <1>1, <2>3, <2>4
  <2>6. G[b - 1] = F[b - 1]
    BY <2>3, <2>5
  <2>7. QED
    BY <1>4, <1>7, <2>3, <2>4, <2>6
<1>9. QED
  BY <1>1, <1>2, <1>3, <1>8

\* The counters of the processors, with 0 for numbers that no processor has.
AbortsByNumber ==
  [cpu \in 0 .. nr_cpu_ids - 1 |-> IF cpu \in OnlineCpus THEN abort_cnt[cpu].nr_aborts ELSE 0]

\* They are what AbortsTallied adds up.
LEMMA AbortsByNumberFacts ==
  ASSUME TypeOK, abort_cnt \in [OnlineCpus -> [nr_aborts : Nat, counts : [0 .. NR_ABORT_REASONS - 1 -> Nat]]]
  PROVE  /\ AbortsByNumber \in [0 .. nr_cpu_ids - 1 -> Nat]
         /\ \A cpu \in OnlineCpus : /\ cpu \in 0 .. nr_cpu_ids - 1
                                    /\ AbortsByNumber[cpu] = abort_cnt[cpu].nr_aborts
         /\ AbortsTallied <=> Tally(nr_cpu_ids, AbortsByNumber, 0, 0, made.recorded)
<1>1. PICK N : N = nr_cpu_ids
  OBVIOUS
<1>2. N \in Nat \ {0} /\ \A cpu \in OnlineCpus : cpu \in Nat /\ cpu < N
  BY <1>1, CpuFacts
<1>3. \A cpu \in OnlineCpus : cpu \in 0 .. N - 1
  BY <1>2
<1>4. \A cpu \in OnlineCpus : abort_cnt[cpu].nr_aborts \in Nat
  OBVIOUS
<1>5. QED
  BY <1>1, <1>3, <1>4 DEF AbortsByNumber, AbortsTallied

\* Steps that record nothing and report nothing.
LEMMA AbortFrame ==
  ASSUME AbortInv, topo' = topo, abort_cnt' = abort_cnt, report' = report, made'.recorded = made.recorded
  PROVE  AbortInv'
<1>1. OnlineCpus' = OnlineCpus /\ nr_cpu_ids' = nr_cpu_ids
  BY DEF OnlineCpus, nr_cpu_ids
<1>2. AbortsTallied' <=> AbortsTallied
  BY <1>1 DEF AbortsTallied
<1>3. QED
  BY <1>1, <1>2 DEF AbortInv, Reported

\* record_abort() counts on one processor, before anything is reported.
LEMMA RecordAbortCount ==
  ASSUME Inv, CountInv, AbortInv, NEW t \in Threads, NEW cpu \in OnlineCpus, NEW stat \in Stats,
         RecordAbort(t, cpu, stat)
  PROVE  AbortInv'
<1>1. ~Reported' /\ OnlineCpus' = OnlineCpus /\ nr_cpu_ids' = nr_cpu_ids /\ TypeOK
  <2>1. pc[t] = "call" \/ mpc = "fill"
    BY DEF RecordAbort, MainAt
  <2>2. ~Waited
    BY <2>1, AllCompleted DEF Inv, Launching, Completed, Waited
  <2>3. report' = report /\ topo' = topo
    BY DEF RecordAbort, statVars
  <2>4. QED
    BY <2>2, <2>3 DEF CountInv, Reported, OnlineCpus, nr_cpu_ids, Inv
<1> DEFINE R == [nr_aborts : Nat, counts : [0 .. NR_ABORT_REASONS - 1 -> Nat]]
<1>2. /\ abort_cnt \in [OnlineCpus -> R] /\ made \in [calls : Nat, failed : Nat, recorded : Nat]
      /\ AbortsTallied
  BY DEF AbortInv, CountInv
<1>3. PICK cnts : cnts = [r \in DOMAIN abort_cnt[cpu].counts |->
                            abort_cnt[cpu].counts[r] + (IF r \in Reasons(stat) THEN 1 ELSE 0)]
  OBVIOUS
<1>4. cnts \in [0 .. NR_ABORT_REASONS - 1 -> Nat]
  <2>1. abort_cnt[cpu].counts \in [0 .. NR_ABORT_REASONS - 1 -> Nat]
    BY <1>2
  <2>2. ASSUME NEW r \in 0 .. NR_ABORT_REASONS - 1
        PROVE  abort_cnt[cpu].counts[r] + (IF r \in Reasons(stat) THEN 1 ELSE 0) \in Nat
    <3>1. abort_cnt[cpu].counts[r] \in Nat
      BY <2>1
    <3>2. QED
      BY <3>1
  <2>3. QED
    BY <1>3, <2>1, <2>2
<1>5. abort_cnt' = [abort_cnt EXCEPT ![cpu] = [nr_aborts |-> abort_cnt[cpu].nr_aborts + 1, counts |-> cnts]]
  BY <1>3 DEF RecordAbort, record_abort
<1>6. /\ abort_cnt' \in [OnlineCpus -> R] /\ abort_cnt'[cpu].nr_aborts = abort_cnt[cpu].nr_aborts + 1
      /\ \A d \in OnlineCpus : d # cpu => abort_cnt'[d] = abort_cnt[d]
      /\ made'.recorded = made.recorded + 1 /\ made.recorded \in Nat
  <2>1. made' = [made EXCEPT !.recorded = made.recorded + 1]
    BY DEF RecordAbort
  <2>2. made'.recorded = made.recorded + 1 /\ made.recorded \in Nat
    BY <1>2, <2>1
  <2>3. [nr_aborts |-> abort_cnt[cpu].nr_aborts + 1, counts |-> cnts] \in R
    BY <1>2, <1>4
  <2>4. QED
    BY <1>2, <1>5, <2>2, <2>3
<1>7. PICK N : N = nr_cpu_ids
  OBVIOUS
<1>8. PICK c : c = AbortsByNumber
  OBVIOUS
<1>9. /\ N \in Nat /\ c \in [0 .. N - 1 -> Nat] /\ Tally(N, c, 0, 0, made.recorded)
      /\ \A d \in OnlineCpus : d \in 0 .. N - 1 /\ c[d] = abort_cnt[d].nr_aborts
      /\ \A d \in 0 .. N - 1 : d \notin OnlineCpus => c[d] = 0
  <2>1. /\ c \in [0 .. N - 1 -> Nat] /\ Tally(N, c, 0, 0, made.recorded)
        /\ \A d \in OnlineCpus : d \in 0 .. N - 1 /\ c[d] = abort_cnt[d].nr_aborts
    BY <1>1, <1>2, <1>7, <1>8, AbortsByNumberFacts
  <2>2. N \in Nat
    BY <1>1, <1>7, CpuFacts
  <2>3. QED
    BY <1>7, <1>8, <2>1, <2>2 DEF AbortsByNumber
<1> DEFINE e == [d \in 0 .. N - 1 |-> IF d \in OnlineCpus THEN abort_cnt'[d].nr_aborts ELSE 0]
<1>10. /\ e \in [0 .. N - 1 -> Nat] /\ e[cpu] = c[cpu] + 1
       /\ \A d \in 0 .. N - 1 : d # cpu => e[d] = c[d]
  <2>1. \A d \in OnlineCpus : abort_cnt'[d].nr_aborts \in Nat
    BY <1>6
  <2>2. e \in [0 .. N - 1 -> Nat]
    BY <2>1
  <2>3. QED
    BY <1>6, <1>9, <2>2
<1>11. AbortsTallied' <=> Tally(N, e, 0, 0, made.recorded + 1)
  BY <1>1, <1>6, <1>7 DEF AbortsTallied, Tally
<1> HIDE DEF e, R
<1>12. Tally(N, e, 0, 0, made.recorded + 1)
  <2>1. cpu \in 0 .. N - 1 /\ made.recorded \in Nat /\ 1 \in 0 .. 1
    BY <1>6, <1>9
  <2>2. QED
    BY <1>9, <1>10, <2>1, TallyAdd
<1>13. QED
  BY <1>1, <1>6, <1>11, <1>12 DEF AbortInv, R

\* pr_abort_stat() prints the sum over the processors.
LEMMA PrintAborts ==
  ASSUME Inv, AbortInv, PrintResult
  PROVE  AbortInv'
<1>1. UNCHANGED <<topo, abort_cnt, made>> /\ report'.aborts = pr_abort_stat
  BY DEF PrintResult
<1>2. OnlineCpus' = OnlineCpus /\ nr_cpu_ids' = nr_cpu_ids
  BY <1>1 DEF OnlineCpus, nr_cpu_ids
<1> DEFINE c == [cpu \in OnlineCpus |-> abort_cnt[cpu].nr_aborts]
<1>3. pr_abort_stat.nr_total_aborts = SumOnline(c)
  BY DEF pr_abort_stat
<1>4. SumOnline(c) = made.recorded
  <2>1. TypeOK /\ Tally(nr_cpu_ids, AbortsByNumber, 0, 0, made.recorded) /\ made.recorded \in Nat
    BY AbortsByNumberFacts DEF Inv, AbortInv
  <2>2. \A cpu \in 0 .. nr_cpu_ids - 1 :
          AbortsByNumber[cpu] = IF cpu \in OnlineCpus THEN c[cpu] ELSE 0
    BY DEF AbortsByNumber
  <2> HIDE DEF c
  <2>3. QED
    BY <2>1, <2>2, SumOnlineIs
<1>5. AbortsTallied'
  BY <1>1, <1>2 DEF AbortInv, AbortsTallied, Tally
<1>6. QED
  BY <1>1, <1>2, <1>3, <1>4, <1>5 DEF AbortInv

\* At first no abort is recorded.
LEMMA InitAborts ==
  ASSUME Init
  PROVE  AbortInv
<1>1. TypeOK
  BY InitInv DEF Inv
<1>2. /\ abort_cnt = [cpu \in OnlineCpus |->
                        [nr_aborts |-> 0, counts |-> [r \in 0 .. NR_ABORT_REASONS - 1 |-> 0]]]
      /\ made.recorded = 0 /\ ~Reported
  BY DEF Init, Reported
<1>3. abort_cnt \in [OnlineCpus -> [nr_aborts : Nat, counts : [0 .. NR_ABORT_REASONS - 1 -> Nat]]]
  BY <1>2
<1>4. PICK N : N = nr_cpu_ids
  OBVIOUS
<1>5. PICK c : c = AbortsByNumber
  OBVIOUS
<1>6. N \in Nat /\ c \in [0 .. N - 1 -> Nat] /\ (AbortsTallied <=> Tally(N, c, 0, 0, 0))
  BY <1>1, <1>2, <1>3, <1>4, <1>5, AbortsByNumberFacts, CpuFacts
<1>7. \A cpu \in 0 .. N - 1 : c[cpu] = 0
  BY <1>2, <1>4, <1>5 DEF AbortsByNumber
<1>8. Tally(N, c, 0, 0, 0)
  BY <1>6, <1>7, TallyZero
<1>9. QED
  BY <1>2, <1>3, <1>6, <1>8 DEF AbortInv

\* Every step keeps the count of the aborts.
LEMMA NextAborts ==
  ASSUME Inv, CountInv, AbortInv, [Next]_vars
  PROVE  AbortInv'
<1>1. CASE MainStep /\ ~PrintResult
  <2>1. UNCHANGED <<topo, abort_cnt, report, made>>
    BY <1>1 DEF MainStep, CheckParameters, Initialize, AllocThread, FillOne, FillAgain, CreateThread,
         WaitForThreads, Reinitialize, SumThread, DeleteValue, FinishRlu, Destroy, FreeThread, statVars
  <2>2. QED
    BY <2>1, AbortFrame
<1>2. ASSUME NEW t \in Threads, ThreadStep(t) PROVE AbortInv'
  <2>1. UNCHANGED <<topo, abort_cnt, report>>
    BY <1>2 DEF ThreadStep, BarrierCross, StartCall, EndCall, Complete, FinishThread, statVars
  <2>2. made'.recorded = made.recorded
    <3>1. made' = made \/ \E d \in 0..1 : made' = [made EXCEPT !.calls = @ + 1, !.failed = @ + d]
      <4>1. CASE EndCall(t)
        <5>1. PICK failed : made' = [made EXCEPT !.calls = @ + 1, !.failed = @ + (IF failed THEN 1 ELSE 0)]
          BY <4>1 DEF EndCall
        <5>2. PICK d \in 0..1 : d = IF failed THEN 1 ELSE 0
          OBVIOUS
        <5>3. made' = [made EXCEPT !.calls = @ + 1, !.failed = @ + d]
          BY <5>1, <5>2
        <5>4. QED
          BY <5>3
      <4>2. CASE ~EndCall(t)
        BY <1>2, <4>2 DEF ThreadStep, BarrierCross, StartCall, Complete, FinishThread
      <4>3. QED
        BY <4>1, <4>2
    <3>2. QED
      BY <3>1 DEF CountInv
  <2>3. QED
    BY <2>1, <2>2, AbortFrame
<1>3. CASE UNCHANGED vars
  BY <1>3, AbortFrame DEF vars, statVars
<1>4. QED
  BY <1>1, <1>2, <1>3, PrintAborts, RecordAbortCount DEF Next

\* The report is exact, for any number of threads, any machine and any number of
\* calls: it counts every call of every thread once, every update that gave up
\* once, and every abort that any processor recorded once.
THEOREM ReportIsExact == Spec => []ReportExact
<1>1. Init => CountInv /\ AbortInv
  BY InitCount, InitAborts
<1>2. Inv /\ (CountInv /\ AbortInv) /\ [Next]_vars => CountInv' /\ AbortInv'
  BY NextCount, NextAborts
<1>3. CountInv /\ AbortInv => ReportExact
  BY DEF CountInv, AbortInv, ReportExact
<1>4. QED
  BY <1>1, <1>2, <1>3, Invariance, PTL DEF Spec

-----------------------------------------------------------------------------
(* cpubind_numa_arr() *)

\* The locals of the loop before thread 0, and what its iteration thr makes of them
BindStart == [node |-> 1, capa |-> Cardinality(topo[1]), cpus |-> topo[1],
              next |-> cpumask_first(topo[1])]
BindStep(was, thr) ==
  LET full == NodeFull(was.capa, thr)
      node == IF full THEN (was.node % Len(topo)) + 1 ELSE was.node
      cpus == IF was.next >= nr_cpu_ids THEN topo[node] ELSE was.cpus
      cpu == IF was.next >= nr_cpu_ids THEN cpumask_first(cpus) ELSE was.next
  IN  [node |-> node,
       capa |-> IF full THEN was.capa + Cardinality(topo[node]) ELSE was.capa,
       cpus |-> cpus, cpu |-> cpu, next |-> cpumask_next(cpu, cpus)]

\* The locals after each of the first n iterations
IsBind(f, n) == f = [thr \in 0 .. n - 1 |-> BindStep(IF thr = 0 THEN BindStart ELSE f[thr - 1], thr)]

\* The recursive function of cpubind_numa_arr exists.
LEMMA BindExists ==
  ASSUME NEW n \in Nat
  PROVE  \E f : IsBind(f, n)
<1> DEFINE Bad == {m \in Nat : ~\E f : IsBind(f, m)}
<1>1. SUFFICES ASSUME Bad # {} PROVE FALSE
  OBVIOUS
<1>2. PICK m \in Bad : \A k \in Bad : m <= k
  BY <1>1, LeastNatural
<1>3. m \in Nat /\ m # 0
  <2>1. IsBind([thr \in 0 .. 0 - 1 |-> 0], 0)
    BY DEF IsBind
  <2>2. QED
    BY <1>2, <2>1
<1>4. m - 1 \in Nat /\ m - 1 \notin Bad
  BY <1>2, <1>3
<1>5. PICK f : IsBind(f, m - 1)
  BY <1>4
<1> DEFINE D == 0 .. (m - 1) - 1
<1>6. f = [thr \in D |-> BindStep(IF thr = 0 THEN BindStart ELSE f[thr - 1], thr)]
  BY <1>5 DEF IsBind
<1> DEFINE last == BindStep(IF m - 1 = 0 THEN BindStart ELSE f[(m - 1) - 1], m - 1)
<1> DEFINE g == [thr \in 0 .. m - 1 |-> IF thr = m - 1 THEN last ELSE f[thr]]
<1>7. ASSUME NEW thr \in 0 .. m - 1
      PROVE  g[thr] = BindStep(IF thr = 0 THEN BindStart ELSE g[thr - 1], thr)
  <2>1. thr # 0 => thr - 1 \in 0 .. m - 1 /\ thr - 1 # m - 1 /\ g[thr - 1] = f[thr - 1]
    BY <1>3
  <2>2. CASE thr = m - 1
    BY <2>1, <2>2
  <2>3. CASE thr # m - 1
    <3>1. thr \in D
      BY <1>3, <2>3
    <3>2. g[thr] = f[thr]
      BY <2>3
    <3>3. f[thr] = BindStep(IF thr = 0 THEN BindStart ELSE f[thr - 1], thr)
      BY <1>6, <3>1
    <3>4. QED
      BY <2>1, <3>2, <3>3
  <2>4. QED
    BY <2>2, <2>3
<1>8. IsBind(g, m)
  <2>1. g = [thr \in 0 .. m - 1 |-> g[thr]]
    OBVIOUS
  <2> HIDE DEF g
  <2>2. QED
    BY <1>7, <2>1 DEF IsBind
<1>9. QED
  BY <1>2, <1>8

\* It is the one that BindStep describes.
LEMMA BindIs ==
  ASSUME TypeOK
  PROVE  \E f : IsBind(f, par.threads_nb) /\ cpubind_numa_arr = [thr \in Threads |-> f[thr].cpu]
<1> DEFINE Bind == CHOOSE f : f = [thr \in Threads |->
             LET was == IF thr = 0
                        THEN [node |-> 1, capa |-> Cardinality(topo[1]), cpus |-> topo[1],
                              next |-> cpumask_first(topo[1])]
                        ELSE f[thr - 1]
                 full == NodeFull(was.capa, thr)
                 node == IF full THEN (was.node % Len(topo)) + 1 ELSE was.node
                 cpus == IF was.next >= nr_cpu_ids THEN topo[node] ELSE was.cpus
                 cpu == IF was.next >= nr_cpu_ids THEN cpumask_first(cpus) ELSE was.next
             IN  [node |-> node,
                  capa |-> IF full THEN was.capa + Cardinality(topo[node]) ELSE was.capa,
                  cpus |-> cpus, cpu |-> cpu, next |-> cpumask_next(cpu, cpus)]]
<1>1. cpubind_numa_arr = [thr \in Threads |-> Bind[thr].cpu]
  BY DEF cpubind_numa_arr
<1>2. Bind = CHOOSE f : IsBind(f, par.threads_nb)
  BY DEF IsBind, BindStep, BindStart, Threads
<1> HIDE DEF Bind
<1>3. \E f : IsBind(f, par.threads_nb)
  <2>1. par.threads_nb \in Nat
    BY ThreadFacts
  <2>2. QED
    BY <2>1, BindExists
<1>4. IsBind(Bind, par.threads_nb)
  BY <1>2, <1>3
<1>5. QED
  BY <1>1, <1>4

\* cpumask_next(): the next processor of a set, or nr_cpu_ids if there is none.
LEMMA NextCpuFacts ==
  ASSUME TypeOK, NEW C \in SUBSET OnlineCpus, NEW x \in Int
  PROVE  /\ cpumask_next(x, C) >= nr_cpu_ids => \A c \in C : c <= x
         /\ ~(cpumask_next(x, C) >= nr_cpu_ids) =>
              /\ cpumask_next(x, C) \in C /\ cpumask_next(x, C) > x
              /\ \A c \in C : c > x => cpumask_next(x, C) <= c
         /\ (\A c \in C : c <= x) => cpumask_next(x, C) = nr_cpu_ids
<1> DEFINE later == {c \in C : c > x}
<1>1. cpumask_next(x, C) = IF later = {} THEN nr_cpu_ids ELSE Min(later)
  BY DEF cpumask_next
<1>2. PICK N : N = nr_cpu_ids
  OBVIOUS
<1>3. N \in Nat /\ \A c \in C : c \in Nat /\ c < N
  BY <1>2, CpuFacts
<1>4. later \in SUBSET Nat
  BY <1>3
<1>5. CASE later = {}
  <2>1. \A c \in C : c <= x
    BY <1>3, <1>5
  <2>2. QED
    BY <1>1, <1>2, <1>3, <1>5, <2>1
<1>6. CASE later # {}
  <2>1. PICK m : m = Min(later)
    OBVIOUS
  <2>2. m \in later /\ \A c \in later : m <= c
    BY <1>4, <1>6, <2>1, MinFacts
  <2>3. cpumask_next(x, C) = m /\ m \in C /\ m > x /\ ~(m >= N) /\ ~(m <= x)
    BY <1>1, <1>3, <1>6, <2>1, <2>2
  <2>4. \A c \in C : c > x => m <= c
    BY <2>2
  <2>5. QED
    BY <1>2, <2>3, <2>4
<1>7. QED
  BY <1>5, <1>6

\* The processors of the first n nodes
Upto(n) == UNION {topo[m] : m \in 1 .. n}

\* Another node adds its processors, which no node before it has.
LEMMA UptoFacts ==
  ASSUME TypeOK, NEW n \in 0 .. Len(topo) - 1
  PROVE  /\ n + 1 \in 1 .. Len(topo)
         /\ Upto(n + 1) = Upto(n) \union topo[n + 1] /\ Upto(n) \cap topo[n + 1] = {}
         /\ Upto(n + 1) \subseteq OnlineCpus /\ IsFiniteSet(Upto(n)) /\ IsFiniteSet(Upto(n + 1))
         /\ Cardinality(Upto(n + 1)) = Cardinality(Upto(n)) + Cardinality(topo[n + 1])
<1>1. PICK L : L = Len(topo)
  OBVIOUS
<1>2. /\ L \in Nat /\ n \in 0 .. L - 1 /\ DOMAIN topo = 1 .. L
      /\ \A m \in 1 .. L : IsFiniteSet(topo[m])
      /\ \A k, m \in 1 .. L : k # m => topo[k] \cap topo[m] = {}
  BY <1>1, TopologyFacts DEF TypeOK
<1>3. n + 1 \in 1 .. L /\ 1 .. n \subseteq 1 .. L /\ 1 .. n + 1 = (1 .. n) \union {n + 1} /\ n + 1 \notin 1 .. n
  BY <1>2
<1>4. Upto(n + 1) = Upto(n) \union topo[n + 1]
  BY <1>3 DEF Upto
<1>5. Upto(n) \cap topo[n + 1] = {}
  <2>1. ASSUME NEW m \in 1 .. n PROVE topo[m] \cap topo[n + 1] = {}
    BY <1>2, <1>3, <2>1
  <2>2. QED
    BY <2>1 DEF Upto
<1>6. Upto(n + 1) \subseteq OnlineCpus
  BY <1>2, <1>3 DEF Upto, OnlineCpus
<1>7. IsFiniteSet(Upto(n)) /\ IsFiniteSet(Upto(n + 1))
  <2>1. IsFiniteSet(OnlineCpus)
    BY CpuFacts
  <2>2. Upto(n) \in SUBSET OnlineCpus /\ Upto(n + 1) \in SUBSET OnlineCpus
    BY <1>4, <1>6
  <2>3. QED
    BY <2>1, <2>2, FS_Subset
<1>8. Cardinality(Upto(n + 1)) = Cardinality(Upto(n)) + Cardinality(topo[n + 1])
  <2>1. IsFiniteSet(topo[n + 1])
    BY <1>2, <1>3
  <2>2. Cardinality(Upto(n) \union topo[n + 1]) =
          Cardinality(Upto(n)) + Cardinality(topo[n + 1]) - Cardinality(Upto(n) \cap topo[n + 1])
    BY <1>7, <2>1, FS_Union
  <2>3. Cardinality(Upto(n) \cap topo[n + 1]) = 0
    BY <1>5, FS_EmptySet
  <2>4. Cardinality(Upto(n)) \in Nat /\ Cardinality(topo[n + 1]) \in Nat
    BY <1>7, <2>1, FS_CardinalityType
  <2>5. PICK a, b : a = Cardinality(Upto(n)) /\ b = Cardinality(topo[n + 1])
    OBVIOUS
  <2>6. a \in Nat /\ b \in Nat /\ Cardinality(Upto(n + 1)) = a + b - 0
    BY <1>4, <2>2, <2>3, <2>4, <2>5
  <2>7. a + b - 0 = a + b
    BY <2>6
  <2>8. QED
    BY <2>5, <2>6, <2>7
<1>9. QED
  BY <1>1, <1>3, <1>4, <1>5, <1>6, <1>7, <1>8

\* The processors that the threads up to thr are bound to
Given(f, thr) == {f[u].cpu : u \in 0 .. thr}

\* They are all of the nodes before the current one and the first ones of that,
\* as many as there are threads.
BindOK(f, thr) ==
  /\ f[thr].node \in 1 .. Len(topo) /\ f[thr].capa = Cardinality(Upto(f[thr].node))
  /\ f[thr].cpus = topo[f[thr].node] /\ f[thr].cpu \in topo[f[thr].node]
  /\ f[thr].next = cpumask_next(f[thr].cpu, f[thr].cpus)
  /\ Given(f, thr) = Upto(f[thr].node - 1) \union {c \in topo[f[thr].node] : c <= f[thr].cpu}
  /\ IsFiniteSet(Given(f, thr)) /\ Cardinality(Given(f, thr)) = thr + 1
  /\ \A u \in 0 .. thr - 1 : f[u].cpu # f[thr].cpu

\* The first thread gets the first processor of the first node.
LEMMA BindFirst ==
  ASSUME TypeOK, NEW f, f[0] = BindStep(BindStart, 0)
  PROVE  BindOK(f, 0)
<1>1. /\ 1 \in 1 .. Len(topo) /\ topo[1] # {} /\ topo[1] \in SUBSET OnlineCpus /\ IsFiniteSet(topo[1])
      /\ topo[1] \in SUBSET Nat
  BY TopologyFacts DEF TypeOK, OnlineCpus
<1>2. Cardinality(topo[1]) \in Nat \ {0}
  BY <1>1, FS_EmptySet, FS_CardinalityType
<1>3. PICK c : c = cpumask_first(topo[1])
  OBVIOUS
<1>4. ~(c >= nr_cpu_ids) /\ c \in topo[1] /\ c \in Nat /\ \A d \in topo[1] : c <= d
  <2>1. ~(cpumask_next(-1, topo[1]) >= nr_cpu_ids)
    <3>1. PICK d \in topo[1] : d \in Nat /\ ~(d <= -1)
      BY <1>1
    <3>2. -1 \in Int
      OBVIOUS
    <3>3. QED
      BY <1>1, <3>1, <3>2, NextCpuFacts
  <2>2. -1 \in Int /\ \A d \in topo[1] : d \in Nat /\ d > -1
    BY <1>1
  <2>3. QED
    BY <1>1, <1>3, <2>1, <2>2, NextCpuFacts DEF cpumask_first
<1>5. ~NodeFull(Cardinality(topo[1]), 0)
  BY <1>2 DEF NodeFull
<1>6. f[0] = [node |-> 1, capa |-> Cardinality(topo[1]), cpus |-> topo[1], cpu |-> c,
              next |-> cpumask_next(c, topo[1])]
  BY <1>3, <1>4, <1>5 DEF BindStep, BindStart
<1>7. Upto(1) = topo[1] /\ Upto(1 - 1) = {}
  BY DEF Upto
<1>8. Given(f, 0) = {c}
  BY <1>6 DEF Given
<1>9. {c} = {} \union {d \in topo[1] : d <= c}
  BY <1>1, <1>4
<1>10. IsFiniteSet({c}) /\ Cardinality({c}) = 0 + 1
  BY FS_Singleton
<1>11. /\ f[0].node = 1 /\ f[0].capa = Cardinality(topo[1]) /\ f[0].cpus = topo[1] /\ f[0].cpu = c
       /\ f[0].next = cpumask_next(c, topo[1])
  BY <1>6
<1>12. Given(f, 0) = Upto(f[0].node - 1) \union {d \in topo[f[0].node] : d <= f[0].cpu}
  BY <1>7, <1>8, <1>9, <1>11
<1>13. \A u \in 0 .. 0 - 1 : f[u].cpu # f[0].cpu
  OBVIOUS
<1>14. IsFiniteSet(Given(f, 0)) /\ Cardinality(Given(f, 0)) = 0 + 1
  BY <1>8, <1>10
<1>15. f[0].cpus = topo[f[0].node] /\ f[0].cpu \in topo[f[0].node] /\ f[0].node \in 1 .. Len(topo)
  BY <1>1, <1>4, <1>11
<1>16. f[0].capa = Cardinality(Upto(f[0].node)) /\ f[0].next = cpumask_next(f[0].cpu, f[0].cpus)
  BY <1>7, <1>11
<1>17. QED
  BY <1>12, <1>13, <1>14, <1>15, <1>16 DEF BindOK

\* The next thread gets the next processor of the node, or the first one of the
\* next node when the node is full; there is one, as there are processors enough.
LEMMA BindNext ==
  ASSUME TypeOK, par.threads_nb <= Cardinality(OnlineCpus), NEW f, NEW thr \in Nat,
         thr + 1 < par.threads_nb, BindOK(f, thr), f[thr + 1] = BindStep(f[thr], thr + 1)
  PROVE  BindOK(f, thr + 1)
<1>1. PICK L : L = Len(topo)
  OBVIOUS
<1>2. PICK n : n = f[thr].node
  OBVIOUS
<1>3. PICK x : x = f[thr].cpu
  OBVIOUS
<1>4. PICK G : G = Given(f, thr)
  OBVIOUS
<1>5. PICK T : T = topo[n]
  OBVIOUS
<1>6. /\ n \in 1 .. L /\ f[thr].capa = Cardinality(Upto(n)) /\ f[thr].cpus = T /\ x \in T
      /\ f[thr].next = cpumask_next(x, T)
      /\ G = Upto(n - 1) \union {c \in T : c <= x}
      /\ IsFiniteSet(G) /\ Cardinality(G) = thr + 1
  BY <1>1, <1>2, <1>3, <1>4, <1>5 DEF BindOK
<1>7. /\ L \in Nat \ {0} /\ DOMAIN topo = 1 .. L
      /\ \A m \in 1 .. L : topo[m] \in SUBSET Nat /\ topo[m] # {} /\ IsFiniteSet(topo[m])
      /\ \A k, m \in 1 .. L : k # m => topo[k] \cap topo[m] = {}
  BY <1>1, TopologyFacts DEF TypeOK
<1>8. /\ T \in SUBSET Nat /\ T \in SUBSET OnlineCpus /\ IsFiniteSet(T) /\ x \in Nat
  BY <1>5, <1>6, <1>7 DEF OnlineCpus
<1>9. /\ Upto(n) = Upto(n - 1) \union T /\ Upto(n - 1) \cap T = {} /\ IsFiniteSet(Upto(n))
      /\ Upto(n) \in SUBSET OnlineCpus
  <2>1. n - 1 \in 0 .. L - 1 /\ (n - 1) + 1 = n
    BY <1>6, <1>7
  <2>2. /\ Upto((n - 1) + 1) = Upto(n - 1) \union topo[(n - 1) + 1]
        /\ Upto(n - 1) \cap topo[(n - 1) + 1] = {} /\ IsFiniteSet(Upto((n - 1) + 1))
        /\ Upto((n - 1) + 1) \subseteq OnlineCpus
    BY <1>1, <2>1, UptoFacts
  <2>3. QED
    BY <1>5, <2>1, <2>2
<1>10. G \in SUBSET Upto(n)
  BY <1>6, <1>9
<1>11. /\ Cardinality(Upto(n)) \in Nat
       /\ thr + 1 <= Cardinality(Upto(n))
       /\ Cardinality(Upto(n)) = thr + 1 => G = Upto(n)
  BY <1>6, <1>9, <1>10, FS_Subset, FS_CardinalityType
<1>12. PICK next : next = cpumask_next(x, T)
  OBVIOUS
<1>13. PICK N : N = nr_cpu_ids
  OBVIOUS
<1>14. x \in Int
  BY <1>8
<1>15. /\ next >= N => \A c \in T : c <= x
       /\ ~(next >= N) => next \in T /\ next > x /\ \A c \in T : c > x => next <= c
       /\ (\A c \in T : c <= x) => next = N
  BY <1>8, <1>12, <1>13, <1>14, NextCpuFacts
<1>16. N \in Nat
  BY <1>13, CpuFacts
<1>17. PICK was : was = f[thr]
  OBVIOUS
<1>18. /\ was.node = n /\ was.capa = Cardinality(Upto(n)) /\ was.cpus = T /\ was.next = next
       /\ f[thr + 1] = BindStep(was, thr + 1)
  BY <1>2, <1>6, <1>12, <1>17
<1>19. Given(f, thr + 1) = G \union {f[thr + 1].cpu}
  <2>1. 0 .. thr + 1 = (0 .. thr) \union {thr + 1}
    OBVIOUS
  <2>2. QED
    BY <1>4, <2>1 DEF Given
<1>20. ASSUME f[thr + 1].cpu \notin G
       PROVE  /\ IsFiniteSet(Given(f, thr + 1)) /\ Cardinality(Given(f, thr + 1)) = (thr + 1) + 1
              /\ \A u \in 0 .. (thr + 1) - 1 : f[u].cpu # f[thr + 1].cpu
  <2>1. /\ IsFiniteSet(Given(f, thr + 1)) /\ Cardinality(Given(f, thr + 1)) = (thr + 1) + 1
    <3>1. /\ IsFiniteSet(G \union {f[thr + 1].cpu})
          /\ Cardinality(G \union {f[thr + 1].cpu}) = Cardinality(G) + 1
      BY ONLY <1>6, <1>20, FS_AddElement
    <3>2. QED
      BY <1>6, <1>19, <3>1
  <2>2. ASSUME NEW u \in 0 .. (thr + 1) - 1 PROVE f[u].cpu # f[thr + 1].cpu
    <3>1. u \in 0 .. thr
      OBVIOUS
    <3>2. f[u].cpu \in G
      BY <1>4, <3>1 DEF Given
    <3>3. QED
      BY <1>20, <3>2
  <2>3. QED
    BY <2>1, <2>2
<1>21. CASE next >= N
  <2>1. G = Upto(n)
    <3>1. T = {c \in T : c <= x}
      BY <1>15, <1>21
    <3>2. QED
      BY <1>6, <1>9, <3>1
  <2>2. NodeFull(was.capa, thr + 1)
    <3>1. was.capa = thr + 1 /\ thr + 1 <= thr + 1
      BY <1>6, <1>18, <2>1
    <3>2. QED
      BY <3>1 DEF NodeFull
  <2>3. n # L
    <3>1. SUFFICES ASSUME n = L PROVE FALSE
      OBVIOUS
    <3>2. Upto(n) = OnlineCpus
      BY <1>7, <3>1 DEF Upto, OnlineCpus
    <3>3. par.threads_nb \in Nat /\ par.threads_nb <= thr + 1
      BY <1>6, <2>1, <3>2, ThreadFacts
    <3>4. QED
      BY <3>3
  <2>4. n + 1 \in 1 .. L /\ n \in 0 .. L - 1 /\ n \in Nat /\ L \in Nat /\ n < L /\ (n + 1) - 1 = n
    BY <1>6, <1>7, <2>3
  <2>5. n % L = n
    BY <2>4
  <2>6. PICK S : S = topo[n + 1]
    OBVIOUS
  <2>7. /\ S \in SUBSET Nat /\ S # {} /\ S \in SUBSET OnlineCpus /\ IsFiniteSet(S)
    BY <1>7, <2>4, <2>6 DEF OnlineCpus
  <2>8. Upto(n) \cap S = {} /\ Cardinality(Upto(n + 1)) = Cardinality(Upto(n)) + Cardinality(S)
    BY <1>1, <2>4, <2>6, UptoFacts
  <2>9. PICK c : c = cpumask_first(S)
    OBVIOUS
  <2>10. c \in S /\ c \in Nat /\ \A d \in S : c <= d
    <3>1. -1 \in Int /\ \A d \in S : d \in Nat /\ d > -1 /\ ~(d <= -1)
      BY <2>7
    <3>2. ~(cpumask_next(-1, S) >= nr_cpu_ids)
      <4>1. PICK d \in S : ~(d <= -1)
        BY <2>7, <3>1
      <4>2. QED
        BY <2>7, <3>1, <4>1, NextCpuFacts
    <3>3. QED
      BY <2>7, <2>9, <3>1, <3>2, NextCpuFacts DEF cpumask_first
  <2>11. f[thr + 1] = [node |-> n + 1, capa |-> Cardinality(Upto(n)) + Cardinality(S), cpus |-> S,
                       cpu |-> c, next |-> cpumask_next(c, S)]
    BY <1>1, <1>13, <1>18, <1>21, <2>2, <2>5, <2>6, <2>9 DEF BindStep
  <2>12. /\ f[thr + 1].node = n + 1 /\ f[thr + 1].capa = Cardinality(Upto(n)) + Cardinality(S)
         /\ f[thr + 1].cpus = S /\ f[thr + 1].cpu = c /\ f[thr + 1].next = cpumask_next(c, S)
    BY <2>11
  <2>13. c \notin G
    BY <2>1, <2>8, <2>10
  <2>14. Given(f, thr + 1) = Upto((n + 1) - 1) \union {d \in S : d <= c}
    <3>1. {d \in S : d <= c} = {c}
      <4>1. ASSUME NEW d \in S PROVE d <= c <=> d = c
        <5>1. d \in Nat /\ c \in Nat /\ c <= d
          BY <2>7, <2>10
        <5>2. QED
          BY <5>1
      <4>2. QED
        BY <2>10, <4>1
    <3>2. QED
      BY <1>19, <2>1, <2>4, <2>12, <3>1
  <2>15. QED
    BY <1>1, <1>20, <2>4, <2>6, <2>8, <2>10, <2>12, <2>13, <2>14 DEF BindOK
<1>22. CASE ~(next >= N)
  <2>1. next \in T /\ next > x /\ next \in Nat /\ \A c \in T : c > x => next <= c
    BY <1>8, <1>15, <1>22
  <2>2. next \notin G
    BY <1>6, <1>8, <1>9, <2>1
  <2>3. ~NodeFull(was.capa, thr + 1)
    <3>1. G # Upto(n)
      BY <1>9, <2>1, <2>2
    <3>2. ~(Cardinality(Upto(n)) <= thr + 1)
      BY <1>11, <3>1
    <3>3. QED
      BY <1>18, <3>2 DEF NodeFull
  <2>4. f[thr + 1] = [node |-> n, capa |-> Cardinality(Upto(n)), cpus |-> T,
                      cpu |-> next, next |-> cpumask_next(next, T)]
    BY <1>13, <1>18, <1>22, <2>3 DEF BindStep
  <2>5. /\ f[thr + 1].node = n /\ f[thr + 1].capa = Cardinality(Upto(n))
        /\ f[thr + 1].cpus = T /\ f[thr + 1].cpu = next /\ f[thr + 1].next = cpumask_next(next, T)
    BY <2>4
  <2>6. Given(f, thr + 1) = Upto(n - 1) \union {d \in T : d <= next}
    <3>1. {d \in T : d <= next} = {d \in T : d <= x} \union {next}
      <4>1. ASSUME NEW d \in T PROVE d <= next <=> d <= x \/ d = next
        <5>1. d \in Nat /\ (d > x => next <= d)
          BY <1>8, <2>1
        <5>2. QED
          BY <1>8, <2>1, <5>1
      <4>2. QED
        BY <2>1, <4>1
    <3>2. QED
      BY <1>6, <1>19, <2>5, <3>1
  <2>7. QED
    BY <1>1, <1>5, <1>6, <1>20, <2>1, <2>2, <2>5, <2>6 DEF BindOK
<1>23. QED
  BY <1>21, <1>22

\* So it goes for all threads.
LEMMA BindAll ==
  ASSUME TypeOK, par.threads_nb <= Cardinality(OnlineCpus), NEW f, IsBind(f, par.threads_nb),
         NEW thr \in Threads
  PROVE  BindOK(f, thr)
<1> DEFINE Bad == {t \in Threads : ~BindOK(f, t)}
<1>1. SUFFICES ASSUME Bad # {} PROVE FALSE
  OBVIOUS
<1>2. Bad \in SUBSET Nat
  BY ThreadFacts
<1>3. PICK m \in Bad : \A k \in Bad : m <= k
  BY <1>1, <1>2, LeastNatural
<1>4. PICK n : n = par.threads_nb
  OBVIOUS
<1>5. n \in Nat /\ Threads = 0 .. n - 1 /\ m \in 0 .. n - 1
  BY <1>3, <1>4, ThreadFacts DEF Threads
<1>6. \A t \in 0 .. n - 1 : f[t] = BindStep(IF t = 0 THEN BindStart ELSE f[t - 1], t)
  <2>1. f = [t \in 0 .. n - 1 |-> BindStep(IF t = 0 THEN BindStart ELSE f[t - 1], t)]
    BY <1>4 DEF IsBind
  <2>2. QED
    BY <2>1
<1>7. CASE m = 0
  <2>1. f[0] = BindStep(BindStart, 0)
    BY <1>5, <1>6, <1>7
  <2>2. BindOK(f, 0)
    BY <2>1, BindFirst
  <2>3. QED
    BY <1>3, <1>7, <2>2
<1>8. CASE m # 0
  <2>1. PICK k : k = m - 1
    OBVIOUS
  <2>2. k \in Nat /\ m = k + 1 /\ k + 1 < n /\ k \in 0 .. n - 1 /\ ~(m <= k)
    BY <1>5, <1>8, <2>1
  <2>3. BindOK(f, k)
    BY <1>3, <1>5, <2>2
  <2>4. f[k + 1] = BindStep(f[k], k + 1)
    BY <1>5, <1>6, <1>8, <2>1, <2>2
  <2>5. BindOK(f, k + 1)
    BY <1>4, <2>2, <2>3, <2>4, BindNext
  <2>6. QED
    BY <1>3, <2>2, <2>5
<1>9. QED
  BY <1>7, <1>8

\* On any machine, for any number of threads that it has processors for, no two
\* threads are bound to one processor, none to a processor that is not there, and
\* a node is opened only when the nodes before it are full.
THEOREM ThreadsBoundApart == Spec => []BoundApart
<1>1. ASSUME TypeOK PROVE BoundApart
  <2>1. SUFFICES ASSUME par.threads_nb <= Cardinality(OnlineCpus)
                 PROVE  LET map == cpubind_numa_arr
                        IN  /\ \A t, u \in Threads : t # u => map[t] # map[u]
                            /\ \A t \in Threads : map[t] \in OnlineCpus
                            /\ \A m, n \in DOMAIN topo : \A t \in Threads :
                                 m < n /\ map[t] \in topo[n] => topo[m] \subseteq {map[u] : u \in 0 .. t}
    BY DEF BoundApart
  <2>2. PICK f : IsBind(f, par.threads_nb) /\ cpubind_numa_arr = [thr \in Threads |-> f[thr].cpu]
    BY <1>1, BindIs
  <2>3. PICK map : map = cpubind_numa_arr
    OBVIOUS
  <2>4. \A t \in Threads : BindOK(f, t) /\ map[t] = f[t].cpu
    BY <1>1, <2>1, <2>2, <2>3, BindAll
  <2>5. Threads \subseteq Nat /\ \A t \in Threads : 0 .. t \subseteq Threads
    BY <1>1, ThreadFacts DEF Threads
  <2>6. ASSUME NEW t \in Threads, NEW u \in Threads, u < t PROVE map[t] # map[u]
    <3>1. u \in 0 .. t - 1
      BY <2>5, <2>6
    <3>2. QED
      BY <2>4, <3>1 DEF BindOK
  <2>7. ASSUME NEW t \in Threads, NEW u \in Threads, t # u PROVE map[t] # map[u]
    <3>1. t < u \/ u < t
      BY <2>5, <2>7
    <3>2. QED
      BY <2>6, <3>1
  <2>8. PICK L : L = Len(topo)
    OBVIOUS
  <2>9. /\ L \in Nat /\ DOMAIN topo = 1 .. L
        /\ \A k, m \in 1 .. L : k # m => topo[k] \cap topo[m] = {}
    BY <1>1, <2>8, TopologyFacts DEF TypeOK
  <2>10. ASSUME NEW t \in Threads
         PROVE  map[t] \in topo[f[t].node] /\ f[t].node \in 1 .. L
    BY <2>4, <2>8 DEF BindOK
  <2>11. ASSUME NEW t \in Threads PROVE map[t] \in OnlineCpus
    BY <2>9, <2>10 DEF OnlineCpus
  <2>12. ASSUME NEW m \in DOMAIN topo, NEW n \in DOMAIN topo, NEW t \in Threads, m < n, map[t] \in topo[n]
         PROVE  topo[m] \subseteq {map[u] : u \in 0 .. t}
    <3>1. f[t].node = n
      BY <2>9, <2>10, <2>12
    <3>2. m \in 1 .. n - 1
      BY <2>9, <2>12
    <3>3. topo[m] \subseteq Upto(n - 1)
      BY <3>2 DEF Upto
    <3>4. Upto(n - 1) \subseteq Given(f, t)
      BY <2>4, <3>1 DEF BindOK
    <3>5. Given(f, t) = {map[u] : u \in 0 .. t}
      BY <2>4, <2>5 DEF Given
    <3>6. QED
      BY <3>3, <3>4, <3>5
  <2>13. QED
    BY <2>3, <2>7, <2>11, <2>12
<1>2. TypeOK => BoundApart
  BY <1>1
<1>3. QED
  BY <1>2, TypeCorrect, PTL
=============================================================================
