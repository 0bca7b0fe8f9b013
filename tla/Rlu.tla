-------------------------------- MODULE Rlu --------------------------------
(***************************************************************************)
(* Read-log-update (rlu.c, rlu.h).  A thread works on objects inside a     *)
(* section.  To change an object it locks it and works on a copy in its    *)
(* log of write sets; the write sets of several sections are kept, locked  *)
(* and unseen by the others (deferred), until the thread synchronizes: it  *)
(* advances the global clock, waits for the sections that began before,    *)
(* and writes the copies back.  A section that begins after the clock was  *)
(* advanced reads the copies instead ("steals" them) and is not waited     *)
(* for; the slots of the log are therefore used again only after the next  *)
(* synchronization.                                                        *)
(*                                                                         *)
(* The module has the state and the steps of the library; RluList calls    *)
(* them.  ret[t] is where a synchronization returns to.  RLU runs fine     *)
(* grained, the coarse-grained writer locks are never used.                *)
(***************************************************************************)
EXTENDS Integers, Sequences, FiniteSets

CONSTANTS
  Threads,              \* registered threads
  Node,                 \* addresses of objects
  NULL,
  max_write_sets,       \* rlu_init(): write sets a thread may defer
  RLU_MAX_WRITE_SETS,   \* slots of the log
  Freed,                \* contents of an object that was freed
  MAX_VERSION,          \* no synchronization in progress
  ClockRace             \* may two threads be between lines 563 and 564 at once?

\* the assertions of rlu_init()
ASSUME RluInitAssumption ==
  /\ RLU_MAX_WRITE_SETS \in Nat /\ RLU_MAX_WRITE_SETS >= 2
  /\ max_write_sets \in Nat /\ max_write_sets >= 1
  /\ max_write_sets * 2 <= RLU_MAX_WRITE_SETS
ASSUME ClockAssumption == MAX_VERSION \in Nat /\ ClockRace \in BOOLEAN

VARIABLES
  \* objects
  data,                 \* contents of an object
  p_obj_copy,           \* its header: NULL or the copy its lock points to
  allocated,            \* objects in memory
  \* the two clocks
  g_rlu_writer_version, g_rlu_commit_version,
  \* rlu_thread_data_t, fields the other threads read or write
  run_counter, local_version, writer_version, is_sync, obj_write_set,
  \* rlu_thread_data_t, fields of the thread alone
  is_steal, is_check_locks, is_write_detected,
  ws_head_counter, ws_wb_counter, ws_tail_counter, free_nodes, q_threads,
  \* where each thread stands
  pc, ret,
  written               \* objects written back in this synchronization

objVars == <<data, p_obj_copy, allocated>>
clockVars == <<g_rlu_writer_version, g_rlu_commit_version>>
sectionVars == <<run_counter, local_version, is_steal, is_check_locks>>
logVars == <<obj_write_set, is_write_detected, ws_tail_counter, free_nodes>>
ringVars == <<ws_head_counter, ws_wb_counter>>
syncVars == <<writer_version, q_threads, written>>
rluVars == <<objVars, clockVars, sectionVars, logVars, ringVars, syncVars,
             is_sync, pc, ret>>

WS_INDEX(ws_counter) == ws_counter % RLU_MAX_WRITE_SETS
Slots == 0 .. RLU_MAX_WRITE_SETS - 1
Copies == Threads \X Slots \X Nat     \* pointers to copies, see Copy

\* the header of an object tells whether it is a copy
ASSUME PointerAssumption == NULL \notin Node \union Copies /\ Node \intersect Copies = {}

\* A pointer to a copy names the thread, the slot of its log and the position.
Copy(p) == obj_write_set[p[1]][p[2]][p[3]]
ThreadOf(p) == p[1]

Contents(p) == IF p \in Node THEN data[p] ELSE Copy(p).data

FORCE_ACTUAL(p) == IF p \in Node THEN p ELSE Copy(p).actual

UNREAD == -1     \* q_threads: run_counter of the thread not looked at yet

Goto(t, label) == pc' = [pc EXCEPT ![t] = label]

RluInit ==
  /\ g_rlu_writer_version = 0
  /\ g_rlu_commit_version = 0
  /\ run_counter = [t \in Threads |-> 0]
  /\ local_version = [t \in Threads |-> 0]
  /\ writer_version = [t \in Threads |-> MAX_VERSION]
  /\ is_sync = [t \in Threads |-> FALSE]
  /\ obj_write_set = [t \in Threads |-> [s \in Slots |-> <<>>]]
  /\ is_steal = [t \in Threads |-> FALSE]
  /\ is_check_locks = [t \in Threads |-> FALSE]
  /\ is_write_detected = [t \in Threads |-> FALSE]
  /\ ws_head_counter = [t \in Threads |-> 0]
  /\ ws_wb_counter = [t \in Threads |-> 0]
  /\ ws_tail_counter = [t \in Threads |-> 0]
  /\ free_nodes = [t \in Threads |-> {}]
  /\ q_threads = [t \in Threads |-> [u \in Threads |-> 0]]
  /\ pc = [t \in Threads |-> "idle"]
  /\ ret = [t \in Threads |-> "idle"]
  /\ written = [t \in Threads |-> 0]

-----------------------------------------------------------------------------
(* rlu_sync_and_writeback() *)

\* Call rlu_sync_and_writeback() and go on at label.
CallSync(t, label) == Goto(t, "sync") /\ ret' = [ret EXCEPT ![t] = label]

\* rlu_sync_checkpoint(), then label
Checkpoint(t, label) ==
  /\ IF is_sync[t] THEN CallSync(t, label) ELSE Goto(t, label) /\ UNCHANGED ret
  /\ UNCHANGED <<objVars, clockVars, sectionVars, logVars, ringVars, syncVars, is_sync>>

\* The log is empty; a request to synchronize stays pending.
SyncNothing(t) ==
  /\ pc[t] = "sync" /\ ws_tail_counter[t] = ws_head_counter[t]
  /\ Goto(t, ret[t])
  /\ UNCHANGED <<objVars, clockVars, sectionVars, logVars, ringVars, syncVars, is_sync, ret>>

\* self->writer_version = g_rlu_writer_version + 1 ...
SyncVersion(t) ==
  /\ pc[t] = "sync" /\ ws_tail_counter[t] # ws_head_counter[t]
  /\ ClockRace \/ \A u \in Threads : pc[u] # "advance"
  /\ writer_version' = [writer_version EXCEPT ![t] = g_rlu_writer_version + 1]
  /\ Goto(t, "advance")
  /\ UNCHANGED <<objVars, clockVars, sectionVars, logVars, ringVars, is_sync, ret,
                 q_threads, written>>

\* ... then FETCH_AND_ADD(&g_rlu_writer_version, 1): from here on new sections
\* see the copies.
SyncAdvance(t) ==
  /\ pc[t] = "advance"
  /\ g_rlu_writer_version' = g_rlu_writer_version + 1
  /\ q_threads' = [q_threads EXCEPT ![t] = [u \in Threads |-> IF u = t THEN 0 ELSE UNREAD]]
  /\ Goto(t, "quiesce")
  /\ UNCHANGED <<objVars, g_rlu_commit_version, sectionVars, logVars, ringVars, is_sync, ret,
                 writer_version, written>>

\* rlu_init_quiescence(): a thread with an odd run_counter is in a section.
SyncReadCounter(t, u) ==
  /\ pc[t] = "quiesce" /\ q_threads[t][u] = UNREAD
  /\ q_threads' = [q_threads EXCEPT ![t][u] =
                     IF run_counter[u] % 2 = 1 THEN run_counter[u] ELSE 0]
  /\ UNCHANGED <<objVars, clockVars, sectionVars, logVars, ringVars, is_sync, pc, ret,
                 writer_version, written>>

\* Mutation: a thread that has left its section is waited for all the same.
FaultyWaitForVersion(t, u) ==
  \/ q_threads[t][u] = 0
  \/ q_threads[t][u] # UNREAD /\ local_version[u] >= writer_version[t]

\* Mutation: the comparison of the versions is off by one.
FaultyNoNeedToWait(t, u) ==
  \/ q_threads[t][u] = 0
  \/ /\ q_threads[t][u] # UNREAD
     /\ \/ run_counter[u] # q_threads[t][u]
        \/ local_version[u] + 1 >= writer_version[t]

\* No wait for a thread that was in no section, has left it, or began it after
\* the clock was advanced.
NoNeedToWait(t, u) ==
  \/ q_threads[t][u] = 0
  \/ /\ q_threads[t][u] # UNREAD
     /\ \/ run_counter[u] # q_threads[t][u]
        \/ local_version[u] >= writer_version[t]

\* rlu_wait_for_quiescence(): what it waits for stays true once it is true, so
\* the loop over the threads ends when all of it holds.  Then the slots that
\* were written back by the synchronization before are reset.
SyncQuiesced(t) ==
  /\ pc[t] = "quiesce" /\ \A u \in Threads : NoNeedToWait(t, u)
  /\ obj_write_set' = [obj_write_set EXCEPT ![t] =
       [s \in Slots |-> IF \E c \in ws_head_counter[t] .. ws_wb_counter[t] - 1 : s = WS_INDEX(c)
                        THEN <<>> ELSE @[s]]]
  /\ ws_head_counter' = [ws_head_counter EXCEPT ![t] = ws_wb_counter[t]]
  /\ q_threads' = [q_threads EXCEPT ![t] = [u \in Threads |-> 0]]
  /\ Goto(t, "writeback")
  /\ UNCHANGED <<objVars, clockVars, sectionVars, is_sync, ret, is_write_detected,
                 ws_tail_counter, free_nodes, ws_wb_counter, writer_version, written>>

\* The copies of t in the slots of the counters from lo to hi - 1, in order.
CopiesFrom(t, log, lo, hi) ==
  LET From[c \in lo .. hi] ==
        IF c = hi THEN <<>>
        ELSE [i \in DOMAIN log[WS_INDEX(c)] |-> <<t, WS_INDEX(c), i>>] \o From[c + 1]
  IN  From[lo]

\* The copies of the write sets from ws_wb_counter to ws_tail_counter.
Deferred(t) == CopiesFrom(t, obj_write_set[t], ws_wb_counter[t], ws_tail_counter[t])

\* rlu_writeback_write_set(): memcpy() of one copy and UNLOCK() of its object.
\* One step: between the two, every section still running steals the copy.
WriteBack(t) ==
  /\ pc[t] = "writeback" /\ written[t] < Len(Deferred(t))
  /\ LET c == Copy(Deferred(t)[written[t] + 1])
     IN  /\ data' = [data EXCEPT ![c.actual] = c.data]
         /\ p_obj_copy' = [p_obj_copy EXCEPT ![c.actual] = NULL]
  /\ written' = [written EXCEPT ![t] = @ + 1]
  /\ UNCHANGED <<allocated, clockVars, sectionVars, logVars, ringVars, is_sync, pc, ret,
                 writer_version, q_threads>>

\* ws_wb_counter = ws_tail_counter, writer_version = MAX_VERSION
WriteBackDone(t) ==
  /\ pc[t] = "writeback" /\ written[t] = Len(Deferred(t))
  /\ ws_wb_counter' = [ws_wb_counter EXCEPT ![t] = ws_tail_counter[t]]
  /\ writer_version' = [writer_version EXCEPT ![t] = MAX_VERSION]
  /\ written' = [written EXCEPT ![t] = 0]
  /\ Goto(t, "commit_version")
  /\ UNCHANGED <<objVars, clockVars, sectionVars, logVars, ws_head_counter, is_sync, ret,
                 q_threads>>

\* FETCH_AND_ADD(&g_rlu_commit_version, 1)
SyncCommit(t) ==
  /\ pc[t] = "commit_version"
  /\ g_rlu_commit_version' = g_rlu_commit_version + 1
  /\ Goto(t, "sync_end")
  /\ UNCHANGED <<objVars, g_rlu_writer_version, sectionVars, logVars, ringVars, syncVars,
                 is_sync, ret>>

\* is_sync = 0, rlu_process_free(), return
SyncEnd(t) ==
  /\ pc[t] = "sync_end"
  /\ is_sync' = [is_sync EXCEPT ![t] = FALSE]
  /\ allocated' = allocated \ free_nodes[t]
  /\ data' = [x \in Node |-> IF x \in free_nodes[t] THEN Freed ELSE data[x]]
  /\ free_nodes' = [free_nodes EXCEPT ![t] = {}]
  /\ Goto(t, ret[t])
  /\ UNCHANGED <<p_obj_copy, clockVars, sectionVars, ringVars, syncVars, ret,
                 obj_write_set, is_write_detected, ws_tail_counter>>

\* All steps but SyncAdvance, the one that others notice.
SyncStep(t) ==
  \/ SyncNothing(t) \/ SyncVersion(t)
  \/ \E u \in Threads : SyncReadCounter(t, u)
  \/ SyncQuiesced(t) \/ WriteBack(t) \/ WriteBackDone(t)
  \/ SyncCommit(t) \/ SyncEnd(t)

-----------------------------------------------------------------------------
(* rlu_reader_lock() after its checkpoint, rlu_reader_unlock(), rlu_abort() *)

\* rlu_reset(), FETCH_AND_ADD(&self->run_counter, 1)
Register(t) ==
  /\ pc[t] = "register"
  /\ run_counter' = [run_counter EXCEPT ![t] = @ + 1]
  /\ is_steal' = [is_steal EXCEPT ![t] = TRUE]
  /\ is_check_locks' = [is_check_locks EXCEPT ![t] = TRUE]
  /\ is_write_detected' = [is_write_detected EXCEPT ![t] = FALSE]
  /\ Goto(t, "version")
  /\ UNCHANGED <<objVars, clockVars, ringVars, syncVars, is_sync, ret, local_version,
                 obj_write_set, ws_tail_counter, free_nodes>>

\* self->local_version = g_rlu_writer_version
ReadVersion(t) ==
  /\ pc[t] = "version"
  /\ local_version' = [local_version EXCEPT ![t] = g_rlu_writer_version]
  /\ Goto(t, "commit")
  /\ UNCHANGED <<objVars, clockVars, ringVars, syncVars, is_sync, ret, logVars,
                 run_counter, is_steal, is_check_locks>>

\* Mutation: the thread's own deferred copies are forgotten.
FaultyReadCommitVersion(t) ==
  LET quiet == local_version[t] = g_rlu_commit_version
  IN  /\ pc[t] = "commit"
      /\ is_steal' = [is_steal EXCEPT ![t] = ~quiet]
      /\ is_check_locks' = [is_check_locks EXCEPT ![t] = ~quiet]
      /\ UNCHANGED <<objVars, clockVars, ringVars, syncVars, is_sync, ret, logVars,
                     run_counter, local_version>>

\* self->local_commit_version = g_rlu_commit_version: if every synchronization
\* was complete nothing is stolen, and a thread that has nothing deferred
\* either ignores the locks altogether.
ReadCommitVersion(t) ==
  LET quiet == local_version[t] = g_rlu_commit_version
  IN  /\ pc[t] = "commit"
      /\ is_steal' = [is_steal EXCEPT ![t] = ~quiet]
      /\ is_check_locks' = [is_check_locks EXCEPT ![t] =
           ~(quiet /\ ws_tail_counter[t] = ws_wb_counter[t])]
      /\ UNCHANGED <<objVars, clockVars, ringVars, syncVars, is_sync, ret, logVars,
                     run_counter, local_version>>

\* The flags of a section that ended are not read any more.
ForgetFlags(t) ==
  /\ is_steal' = [is_steal EXCEPT ![t] = FALSE]
  /\ is_check_locks' = [is_check_locks EXCEPT ![t] = FALSE]

\* rlu_commit_write_set(): on to the next slot; synchronize if the ring is full
\* or enough is deferred
CommitWriteSet(t, label) ==
  LET tail == ws_tail_counter[t] + 1
      full == WS_INDEX(tail) = WS_INDEX(ws_head_counter[t])
      enough == tail - ws_wb_counter[t] >= max_write_sets
  IN  /\ ws_tail_counter' = [ws_tail_counter EXCEPT ![t] = tail]
      /\ IF full \/ enough THEN CallSync(t, label) ELSE Goto(t, label) /\ UNCHANGED ret

\* rlu_unregister_thread(); rlu_commit_write_set() if the section wrote
ReaderUnlock(t, label) ==
  /\ run_counter' = [run_counter EXCEPT ![t] = @ + 1]
  /\ is_write_detected' = [is_write_detected EXCEPT ![t] = FALSE]
  /\ IF is_write_detected[t] THEN CommitWriteSet(t, label)
                             ELSE Goto(t, label) /\ UNCHANGED <<ws_tail_counter, ret>>
  /\ ForgetFlags(t)
  /\ UNCHANGED <<objVars, clockVars, ringVars, syncVars, is_sync, obj_write_set, free_nodes,
                 local_version>>

\* rlu_abort(): rlu_unregister_thread() ...
Unregister(t, label) ==
  /\ run_counter' = [run_counter EXCEPT ![t] = @ + 1]
  /\ Goto(t, label)
  /\ ForgetFlags(t)
  /\ UNCHANGED <<objVars, clockVars, ringVars, syncVars, is_sync, ret, logVars,
                 local_version>>

CurrentSlot(t) == WS_INDEX(ws_tail_counter[t])
CurrentSet(t) == obj_write_set[t][CurrentSlot(t)]

\* ... rlu_unlock_objs() and rlu_reset_write_set()
UnlockObjs(t, label) ==
  /\ p_obj_copy' = [x \in Node |-> IF \E i \in DOMAIN CurrentSet(t) : CurrentSet(t)[i].actual = x
                                   THEN NULL ELSE p_obj_copy[x]]
  /\ obj_write_set' = [obj_write_set EXCEPT ![t][CurrentSlot(t)] = <<>>]
  /\ is_write_detected' = [is_write_detected EXCEPT ![t] = FALSE]
  /\ Goto(t, label)
  /\ UNCHANGED <<data, allocated, clockVars, ringVars, syncVars, is_sync, ret, sectionVars,
                 ws_tail_counter, free_nodes>>

-----------------------------------------------------------------------------
(* RLU_DEREF() and rlu_try_lock() *)

\* The object is locked by another thread whose copy may have to be used.
MustSteal(t, x) ==
  /\ is_check_locks[t] /\ is_steal[t]
  /\ p_obj_copy[x] # NULL /\ ThreadOf(p_obj_copy[x]) # t

\* Otherwise: the own copy, or the object itself.
DerefOwn(t, x) ==
  IF /\ is_check_locks[t]
     /\ p_obj_copy[x] # NULL /\ ThreadOf(p_obj_copy[x]) = t
  THEN p_obj_copy[x] ELSE x

\* Mutation: the copies of a synchronization that began just before are missed.
FaultyStealOrNot(version, x, copy) ==
  IF writer_version[ThreadOf(copy)] < version THEN copy ELSE x

\* g_rlu_threads[th_id]->writer_version <= self->local_version
StealOrNot(version, x, copy) ==
  IF writer_version[ThreadOf(copy)] <= version THEN copy ELSE x

\* rlu_try_lock() finds the object locked, not by this execution of this thread.
LockedElsewhere(t, x) ==
  LET c == p_obj_copy[x]
  IN  c # NULL /\ ~(ThreadOf(c) = t /\ Copy(c).run_counter = run_counter[t])

\* It asks the owner and itself to synchronize and fails.
RequestSync(t, x) ==
  is_sync' = [is_sync EXCEPT ![t] = TRUE, ![ThreadOf(p_obj_copy[x])] = TRUE]

\* It found the object free: is_write_detected = 1, is_check_locks = 1
DetectWrite(t) ==
  /\ is_write_detected' = [is_write_detected EXCEPT ![t] = TRUE]
  /\ is_check_locks' = [is_check_locks EXCEPT ![t] = TRUE]

NewCopy(t) == <<t, CurrentSlot(t), Len(CurrentSet(t)) + 1>>

\* TRY_CAS_PTR_OBJ_COPY() succeeds; the object is copied to the write set.
LockObj(t, x) ==
  /\ p_obj_copy' = [p_obj_copy EXCEPT ![x] = NewCopy(t)]
  /\ obj_write_set' = [obj_write_set EXCEPT ![t][CurrentSlot(t)] =
       Append(@, [actual |-> x, data |-> data[x], run_counter |-> run_counter[t]])]

-----------------------------------------------------------------------------
\* A new object, unlocked, which the caller fills in.
rlu_alloc(x, contents) ==
  /\ allocated' = allocated \union {x}
  /\ data' = [data EXCEPT ![x] = contents]
  /\ p_obj_copy' = [p_obj_copy EXCEPT ![x] = NULL]

\* The object is freed at the end of the next synchronization of t.
rlu_free(t, p) ==
  free_nodes' = [free_nodes EXCEPT ![t] = @ \union {FORCE_ACTUAL(p)}]
=============================================================================
