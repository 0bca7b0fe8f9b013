------------------------------ MODULE RluList ------------------------------
(***************************************************************************)
(* The sorted list on top of RLU (rlu-hash-list.c).  An update locks the   *)
(* two neighbours it found, p_prev and then p_next; if that fails it       *)
(* aborts and starts again (rlu_list_add, rlu_list_remove, benchmark       *)
(* "rlu") or returns 2 (rlu_list_try_add, rlu_list_try_remove, benchmark   *)
(* "rlu-forgive").  The table is half filled through the RLU data of the   *)
(* first thread, whose last insertions may still be deferred when the      *)
(* others start (sync_test_init() in sync_test.c).                         *)
(*                                                                         *)
(* A node is an RLU object with the contents [val, p_next].  ptr[t] holds  *)
(* the local pointers p_prev, p_next and n, which may point to copies; the *)
(* p_next of a node never does (RLU_ASSIGN_PTR).                           *)
(***************************************************************************)
EXTENDS Rlu

CONSTANTS
  Benchmarks,           \* values of the module parameter benchmark
  Main,                 \* the thread that fills the table
  Keys, NBuckets, LIST_VAL_MIN, LIST_VAL_MAX,
  DataNodes, MinNode, MaxNode,
  Calls,                \* bound: the calls <<operation, value>> each thread draws
  FillOps,              \* bound: insertions before the others start (range / 2)
  MaxOps,               \* bound: operations per thread (the benchmark's duration)
  MaxRestarts           \* bound: restarts of a call while others hold locks

OpNames == {"contains", "add", "remove"}
Buckets == 0 .. NBuckets - 1
MinNodes == {MinNode[b] : b \in Buckets}
MaxNodes == {MaxNode[b] : b \in Buckets}

ASSUME RluListAssumption ==
  /\ Benchmarks \subseteq {"rlu", "rlu-forgive"}
  /\ Main \in Threads /\ Calls \in [Threads -> SUBSET (OpNames \X Keys)]
  /\ NBuckets \in Nat \ {0} /\ FillOps \in Nat /\ MaxOps \in Nat /\ MaxRestarts \in Nat
  /\ Node = DataNodes \union MinNodes \union MaxNodes
  /\ MinNodes \intersect MaxNodes = {} /\ DataNodes \intersect (MinNodes \union MaxNodes) = {}
  /\ LIST_VAL_MIN \in Int /\ LIST_VAL_MAX \in Int /\ LIST_VAL_MIN < LIST_VAL_MAX
  /\ \A k \in Keys : k \in Int /\ LIST_VAL_MIN < k /\ k < LIST_VAL_MAX
\* Every list has sentinels of its own; threads and memory are finite.
ASSUME SentinelAssumption ==
  \A b, c \in Buckets : MinNode[b] = MinNode[c] \/ MaxNode[b] = MaxNode[c] => b = c
ASSUME FiniteAssumption == IsFiniteSet(Threads) /\ IsFiniteSet(Node)
\* NULL is no thread, and no set of values either.
ASSUME ViewAssumption == NULL \notin Threads /\ \A S \in SUBSET Keys : S # NULL
\* Whatever reads a freed object finds the end of a list, or a node.
ASSUME FreedAssumption ==
  /\ Freed \in [val : Int, p_next : (Node \ MinNodes) \union {NULL}]
  /\ Freed.p_next = NULL => Freed.val = LIST_VAL_MAX

VARIABLES
  bench, fill, ops,     \* the driver: benchmark, insertions left, calls made
  op, key,              \* the call of each thread
  result,               \* its local result, or ABORTED when it returns 2
  restarts,             \* times it started again, up to MaxRestarts
  ptr,                  \* its pointers p_prev, p_next, n
  into,                 \* the pointer that is being dereferenced or locked
  raw,                  \* the pointer to dereference
  copy,                 \* rlu_deref_slow_path(): the copy that may be stolen
  \* history variables, read by no guard
  set,                  \* what the threads agreed on: the published values
  delta,                \* values whose membership t changed and did not publish
  view                  \* what the section of t is to see, NULL if it needs no more

callVars == <<op, key, result, restarts>>
derefVars == <<ptr, into, raw, copy>>
driverVars == <<bench, fill, ops>>
historyVars == <<set, delta, view>>
vars == <<rluVars, callVars, derefVars, driverVars, historyVars>>

\* HASH_VALUE(p_hash_list, val)
Hash(k) == k % NBuckets

PENDING == -1
ABORTED == 2
Toggle(S, D) == (S \ D) \union (D \ S)
NoPtr == [p_prev |-> NULL, p_next |-> NULL, n |-> NULL]

-----------------------------------------------------------------------------
\* The driver calls an operation: the main thread to fill the table, then
\* every thread.
Begin(t, o, k) ==
  /\ pc[t] = "idle"
  /\ \/ fill > 0 /\ t = Main /\ o = "add" /\ UNCHANGED ops
     \/ fill = 0 /\ <<o, k>> \in Calls[t] /\ ops[t] < MaxOps /\ ops' = [ops EXCEPT ![t] = @ + 1]
  /\ op' = [op EXCEPT ![t] = o]
  /\ key' = [key EXCEPT ![t] = k]
  /\ Checkpoint(t, "register")
  /\ UNCHANGED <<result, restarts, derefVars, bench, fill, historyVars>>

\* The bound on restarts: after MaxRestarts of them the call is slow enough to
\* find no lock of another thread when it starts again.
MayStart(t) ==
  \/ restarts[t] < MaxRestarts
  \/ \A x \in Node : p_obj_copy[x] # NULL => ThreadOf(p_obj_copy[x]) = t

\* rlu_sync_checkpoint() at the start of rlu_reader_lock() and at the end of
\* rlu_reader_unlock() and rlu_abort().
CheckpointStep(t) ==
  /\ \/ pc[t] = "reader_lock" /\ MayStart(t) /\ Checkpoint(t, "register")
     \/ pc[t] = "unlocked" /\ Checkpoint(t, "ret")
     \/ pc[t] = "aborted" /\ Checkpoint(t, IF bench = "rlu" THEN "reader_lock" ELSE "ret")
  /\ UNCHANGED <<callVars, derefVars, driverVars, historyVars>>

\* RLU_DEREF(self, p) goes into pointer v.
StartDeref(t, v, p) ==
  /\ into' = [into EXCEPT ![t] = v]
  /\ raw' = [raw EXCEPT ![t] = p]
  /\ Goto(t, "deref")
  /\ UNCHANGED copy

\* The section is open: p_prev = RLU_DEREF(self, p_list->p_head)
OpenSection(t) ==
  /\ ReadCommitVersion(t)
  /\ StartDeref(t, "p_prev", MinNode[Hash(key[t])])
  /\ UNCHANGED <<callVars, ptr, driverVars, historyVars>>

\* Where the code goes on with pointer v.
Then(v) == [p_prev |-> "next", p_next |-> "visit", n |-> "lock"][v]

\* The pointer is known; the updates lock p_prev first.
EndDeref(t, p) ==
  /\ ptr' = [ptr EXCEPT ![t][into[t]] = p]
  /\ raw' = [raw EXCEPT ![t] = NULL]
  /\ copy' = [copy EXCEPT ![t] = NULL]
  /\ into' = [into EXCEPT ![t] = "p_prev"]
  /\ Goto(t, Then(into[t]))

\* RLU_DEREF() reads the header of the object.
Deref(t) ==
  /\ pc[t] = "deref"
  /\ IF MustSteal(t, raw[t])
     THEN /\ copy' = [copy EXCEPT ![t] = p_obj_copy[raw[t]]]
          /\ Goto(t, "steal")
          /\ UNCHANGED <<ptr, raw, into>>
     ELSE EndDeref(t, DerefOwn(t, raw[t]))
  /\ UNCHANGED <<objVars, clockVars, sectionVars, logVars, ringVars, syncVars, is_sync, ret,
                 callVars, driverVars, historyVars>>

\* rlu_deref_slow_path() reads the owner's writer_version.
Steal(t) ==
  /\ pc[t] = "steal"
  /\ EndDeref(t, StealOrNot(local_version[t], raw[t], copy[t]))
  /\ UNCHANGED <<objVars, clockVars, sectionVars, logVars, ringVars, syncVars, is_sync, ret,
                 callVars, driverVars, historyVars>>

\* p_next = RLU_DEREF(self, p_prev->p_next), for the head
FirstNext(t) ==
  /\ pc[t] = "next"
  /\ StartDeref(t, "p_next", Contents(ptr[t].p_prev).p_next)
  /\ UNCHANGED <<objVars, clockVars, sectionVars, logVars, ringVars, syncVars, is_sync, ret,
                 callVars, ptr, driverVars, historyVars>>

Value(t) == Contents(ptr[t].p_next).val
Successor(t) == Contents(ptr[t].p_next).p_next

\* v < val: p_prev = p_next, p_next = RLU_DEREF(self, p_prev->p_next)
Advance(t) ==
  /\ pc[t] = "visit" /\ Value(t) < key[t]
  /\ ptr' = [ptr EXCEPT ![t].p_prev = ptr[t].p_next]
  /\ StartDeref(t, "p_next", Successor(t))
  /\ UNCHANGED <<objVars, clockVars, sectionVars, logVars, ringVars, syncVars, is_sync, ret,
                 callVars, driverVars, historyVars>>

\* v >= val, and nothing to change: result is decided.
Answer(t) ==
  LET found == Value(t) = key[t]
  IN  /\ pc[t] = "visit" /\ Value(t) >= key[t]
      /\ \/ op[t] = "contains"
         \/ op[t] = "add" /\ found
         \/ op[t] = "remove" /\ ~found
      /\ result' = [result EXCEPT ![t] = IF op[t] = "contains" /\ found THEN 1 ELSE 0]
      /\ view' = [view EXCEPT ![t] = NULL]
      /\ Goto(t, "reader_unlock")
      /\ UNCHANGED <<objVars, clockVars, sectionVars, logVars, ringVars, syncVars, is_sync, ret,
                     op, key, restarts, derefVars, driverVars, set, delta>>

\* v = val in a remove: n = RLU_DEREF(self, p_next->p_next), then lock
RemoveHere(t) ==
  /\ pc[t] = "visit" /\ op[t] = "remove" /\ Value(t) = key[t]
  /\ StartDeref(t, "n", Successor(t))
  /\ UNCHANGED <<objVars, clockVars, sectionVars, logVars, ringVars, syncVars, is_sync, ret,
                 callVars, ptr, driverVars, historyVars>>

-----------------------------------------------------------------------------
\* The object that rlu_try_lock() locks.
ToLock(t) == FORCE_ACTUAL(ptr[t][into[t]])

\* After p_prev comes p_next, then the change itself.
Locked(t, p) ==
  /\ ptr' = [ptr EXCEPT ![t][into[t]] = p]
  /\ into' = [into EXCEPT ![t] = "p_next"]
  /\ Goto(t, IF into[t] = "p_prev" THEN "lock" ELSE "write")
  /\ UNCHANGED <<raw, copy>>

\* v > val in an add, or n of a remove is known, or p_prev is locked
ReadyToLock(t) ==
  \/ pc[t] = "lock"
  \/ pc[t] = "visit" /\ op[t] = "add" /\ Value(t) > key[t]

\* RLU_TRY_LOCK() looks at the header: taken, own already, or free
TryLock(t) ==
  /\ ReadyToLock(t)
  /\ LET x == ToLock(t)
     IN  \/ /\ LockedElsewhere(t, x)
            /\ RequestSync(t, x)
            /\ Goto(t, "abort")
            /\ UNCHANGED <<is_write_detected, is_check_locks, derefVars>>
         \/ /\ ~LockedElsewhere(t, x)
            /\ IF p_obj_copy[x] = NULL
               THEN DetectWrite(t) /\ Goto(t, "cas") /\ UNCHANGED derefVars
               ELSE Locked(t, p_obj_copy[x]) /\ UNCHANGED <<is_write_detected, is_check_locks>>
            /\ UNCHANGED is_sync
  /\ UNCHANGED <<objVars, clockVars, ringVars, syncVars, ret, callVars, driverVars, historyVars,
                 run_counter, local_version, is_steal, obj_write_set, ws_tail_counter, free_nodes>>

\* Mutation: the lock is written without comparing.
FaultyCompareAndSwap(t) ==
  /\ pc[t] = "cas"
  /\ LockObj(t, ToLock(t))
  /\ Locked(t, NewCopy(t))
  /\ UNCHANGED <<data, allocated, clockVars, sectionVars, ringVars, syncVars, is_sync, ret,
                 is_write_detected, ws_tail_counter, free_nodes, callVars, driverVars, historyVars>>

\* the compare-and-swap of RLU_TRY_LOCK(); if it fails nobody is asked to
\* synchronize
CompareAndSwap(t) ==
  /\ pc[t] = "cas"
  /\ \/ /\ p_obj_copy[ToLock(t)] = NULL
        /\ LockObj(t, ToLock(t))
        /\ Locked(t, NewCopy(t))
     \/ /\ p_obj_copy[ToLock(t)] # NULL
        /\ Goto(t, "abort")
        /\ UNCHANGED <<p_obj_copy, obj_write_set, derefVars>>
  /\ UNCHANGED <<data, allocated, clockVars, sectionVars, ringVars, syncVars, is_sync, ret,
                 is_write_detected, ws_tail_counter, free_nodes, callVars, driverVars, historyVars>>

\* RLU_ASSIGN_PTR(self, &(p_prev->p_next), p), on the copy of p_prev
AssignNext(t, p) ==
  LET c == ptr[t].p_prev
  IN  obj_write_set' = [obj_write_set EXCEPT ![t][c[2]][c[3]].data.p_next = p]

\* The update is decided, seen by the other sections of t only.
Changed(t) ==
  /\ delta' = [delta EXCEPT ![t] = @ \union {key[t]}]
  /\ view' = [view EXCEPT ![t] = NULL]
  /\ UNCHANGED set

\* Both are locked: link the new node
AddNode(t) ==
  /\ pc[t] = "write" /\ op[t] = "add"
  /\ \E x \in Node \ allocated :
       /\ rlu_alloc(x, [val |-> key[t], p_next |-> FORCE_ACTUAL(ptr[t].p_next)])
       /\ AssignNext(t, x)
  /\ result' = [result EXCEPT ![t] = 1]
  /\ Goto(t, "reader_unlock")
  /\ Changed(t)
  /\ UNCHANGED <<clockVars, sectionVars, ringVars, syncVars, is_sync, ret, is_write_detected,
                 ws_tail_counter, free_nodes, op, key, restarts, derefVars, driverVars>>

\* Both are locked: unlink p_next, RLU_FREE(self, p_next)
RemoveNode(t) ==
  /\ pc[t] = "write" /\ op[t] = "remove"
  /\ AssignNext(t, FORCE_ACTUAL(ptr[t].n))
  /\ rlu_free(t, ptr[t].p_next)
  /\ result' = [result EXCEPT ![t] = 1]
  /\ Goto(t, "reader_unlock")
  /\ Changed(t)
  /\ UNCHANGED <<objVars, clockVars, sectionVars, ringVars, syncVars, is_sync, ret,
                 is_write_detected, ws_tail_counter, op, key, restarts, derefVars, driverVars>>

-----------------------------------------------------------------------------
Forget(t) ==
  /\ ptr' = [ptr EXCEPT ![t] = NoPtr]
  /\ into' = [into EXCEPT ![t] = "p_prev"]
  /\ UNCHANGED <<raw, copy>>

\* RLU_READER_UNLOCK()
Unlock(t) ==
  /\ pc[t] = "reader_unlock"
  /\ ReaderUnlock(t, "unlocked")
  /\ Forget(t)
  /\ UNCHANGED <<callVars, driverVars, historyVars>>

\* RLU_ABORT(); the forgiving updates will return 2
Abort(t) ==
  /\ pc[t] = "abort"
  /\ Unregister(t, "unlock_objs")
  /\ Forget(t)
  /\ result' = IF bench = "rlu" THEN result ELSE [result EXCEPT ![t] = ABORTED]
  /\ restarts' = [restarts EXCEPT ![t] = IF @ < MaxRestarts THEN @ + 1 ELSE @]
  /\ view' = [view EXCEPT ![t] = NULL]
  /\ UNCHANGED <<op, key, driverVars, set, delta>>

AbortUnlock(t) ==
  /\ pc[t] = "unlock_objs"
  /\ UnlockObjs(t, "aborted")
  /\ UNCHANGED <<callVars, derefVars, driverVars, historyVars>>

\* The call returns to the driver.
Return(t) ==
  /\ pc[t] = "ret"
  /\ Goto(t, "idle")
  /\ op' = [op EXCEPT ![t] = "none"]
  /\ key' = [key EXCEPT ![t] = LIST_VAL_MIN]
  /\ result' = [result EXCEPT ![t] = PENDING]
  /\ restarts' = [restarts EXCEPT ![t] = 0]
  \* an insertion that fills the table is repeated until it returns 0
  /\ fill' = IF fill > 0 /\ result[t] # ABORTED THEN fill - 1 ELSE fill
  /\ UNCHANGED <<objVars, clockVars, sectionVars, logVars, ringVars, syncVars, is_sync, ret,
                 derefVars, bench, ops, historyVars>>

\* rlu_thread_finish() when the thread has made its calls: two synchronizations
Finish(t) ==
  /\ \/ pc[t] = "idle" /\ fill = 0 /\ ops[t] = MaxOps /\ CallSync(t, "finish")
     \/ pc[t] = "finish" /\ CallSync(t, "done")
  /\ UNCHANGED <<objVars, clockVars, sectionVars, logVars, ringVars, syncVars, is_sync,
                 callVars, derefVars, driverVars, historyVars>>

-----------------------------------------------------------------------------
Init ==
  /\ RluInit
  \* rlu_new_hash_list(): every bucket holds its two sentinels
  /\ data = [x \in Node |->
       [val |-> IF x \in MinNodes THEN LIST_VAL_MIN ELSE LIST_VAL_MAX,
        p_next |-> IF x \in MinNodes THEN MaxNode[CHOOSE b \in Buckets : MinNode[b] = x]
                                     ELSE NULL]]
  /\ p_obj_copy = [x \in Node |-> NULL]
  /\ allocated = MinNodes \union MaxNodes
  /\ bench \in Benchmarks
  /\ fill = FillOps
  /\ ops = [t \in Threads |-> 0]
  /\ op = [t \in Threads |-> "none"]
  /\ key = [t \in Threads |-> LIST_VAL_MIN]
  /\ result = [t \in Threads |-> PENDING]
  /\ restarts = [t \in Threads |-> 0]
  /\ ptr = [t \in Threads |-> NoPtr]
  /\ into = [t \in Threads |-> "p_prev"]
  /\ raw = [t \in Threads |-> NULL]
  /\ copy = [t \in Threads |-> NULL]
  /\ set = {}
  /\ delta = [t \in Threads |-> {}]
  /\ view = [t \in Threads |-> NULL]

\* The clock advances: what t had deferred is published.
Publish(t) ==
  /\ SyncAdvance(t)
  /\ set' = Toggle(set, delta[t])
  /\ delta' = [delta EXCEPT ![t] = {}]
  /\ UNCHANGED <<view, callVars, derefVars, driverVars>>

\* The section has its version: it is to see the set as of now.
TakeView(t) ==
  /\ ReadVersion(t)
  /\ view' = [view EXCEPT ![t] = Toggle(set, delta[t])]
  /\ UNCHANGED <<set, delta, callVars, derefVars, driverVars>>

Library(t) ==
  \/ Publish(t) \/ TakeView(t)
  \/ (SyncStep(t) \/ Register(t)) /\ UNCHANGED <<callVars, derefVars, driverVars, historyVars>>

Traverse(t) == OpenSection(t) \/ Deref(t) \/ Steal(t) \/ FirstNext(t) \/ Advance(t)

Decide(t) ==
  \/ Answer(t) \/ RemoveHere(t)
  \/ TryLock(t) \/ CompareAndSwap(t) \/ AddNode(t) \/ RemoveNode(t)

Leave(t) == Unlock(t) \/ Abort(t) \/ AbortUnlock(t) \/ Return(t) \/ Finish(t)

\* The driver's loop: a thread makes its calls one after the other, then ends.
Run(t) ==
  \/ \E o \in OpNames, k \in Keys : Begin(t, o, k)
  \/ CheckpointStep(t) \/ Library(t) \/ Traverse(t) \/ Decide(t) \/ Leave(t)

Next == \E t \in Threads : Run(t)

\* Every thread keeps running: kernel threads are scheduled fairly, the
\* driver's loop goes on until its time is over, and no step waits for a lock.
Spec == Init /\ [][Next]_vars /\ \A t \in Threads : WF_vars(Run(t))

-----------------------------------------------------------------------------
\* t is in a section and uses its pointers.
Labels == {"commit", "deref", "steal", "next", "visit", "lock", "cas", "write",
           "reader_unlock", "abort"}
InSection(t) == pc[t] \in Labels

(***************************************************************************)
(* What a section of thread self with these fields sees when it walks the  *)
(* lists at this moment.                                                   *)
(***************************************************************************)
Seen(self, lv, steal, check) ==
  LET deref(x) ==
        LET c == p_obj_copy[x]
        IN  IF ~check \/ c = NULL THEN x
            ELSE IF ThreadOf(c) = self THEN c
            ELSE IF steal THEN StealOrNot(lv, x, c) ELSE x
      Walk[i \in 0..Cardinality(Node)] ==
        IF i = 0 THEN {deref(x) : x \in MinNodes}
        ELSE LET before == Walk[i - 1]
                 links == {Contents(p).p_next : p \in before} \ {NULL}
             IN  before \union {deref(x) : x \in links}
  IN  {Contents(p).val : p \in Walk[Cardinality(Node)]} \ {LIST_VAL_MIN, LIST_VAL_MAX}

(***************************************************************************)
(* Snapshot isolation: whatever the others lock, publish, write back and   *)
(* free in the meantime, one step at a time, a section sees from its       *)
(* rlu_reader_lock() to its last dereference the values that were          *)
(* published when it read the clock, changed by what its own thread has    *)
(* deferred.  The sections that skip the locks or the steals because all   *)
(* synchronizations were complete when they began (lines 761 to 770 of     *)
(* rlu.c) see the same.                                                    *)
(***************************************************************************)
SnapshotIsolation ==
  \* what a section that begins now sees: of a thread without deferred updates ...
  /\ Seen(NULL, g_rlu_writer_version, TRUE, TRUE) = set
  /\ \A t \in Threads :
       \* ... of thread t ...
       /\ Seen(t, g_rlu_writer_version, TRUE, TRUE) = Toggle(set, delta[t])
       \* ... and what the section of t still sees
       /\ view[t] # NULL =>
            Seen(t, local_version[t], is_steal[t], is_check_locks[t]) = view[t]

Abstract == INSTANCE SnapshotSet WITH NoKey <- LIST_VAL_MIN, NoView <- NULL, reply <- result

(***************************************************************************)
(* The list implements SnapshotSet: a call of rlu_hash_list_contains(),    *)
(* _add(), _remove(), _try_add() or _try_remove() answers what is true of  *)
(* the snapshot of one of its sections, an update conflicts with           *)
(* unpublished updates of the same value, and the updates of a thread      *)
(* become visible to the others all at once.                               *)
(***************************************************************************)
ImplementsSnapshotSet == Abstract!Spec

\* A pointer to an object in memory, or to a copy that is still in the log.
Valid(p) ==
  IF p \in Node THEN p \in allocated
  ELSE p = NULL \/ p[3] \in DOMAIN obj_write_set[p[1]][p[2]]

\* The copy that Steal(t) will take, if it does.  The log may be reset under a
\* copy it will not take: only the owner's number is read from it (line 826).
Stealing(t) ==
  pc[t] = "steal" /\ StealOrNot(local_version[t], raw[t], copy[t]) = copy[t]

\* The pointers that the section of t holds, the copy it steals too.
Held(t) ==
  IF ~InSection(t) THEN {}
  ELSE {ptr[t].p_prev, ptr[t].p_next, ptr[t].n, raw[t]} \union (IF Stealing(t) THEN {copy[t]} ELSE {})

(***************************************************************************)
(* No section holds a pointer to an object that rlu_process_free() has     *)
(* freed, or to a copy in a slot of a log that was reset: the owner waits  *)
(* for the sections that could reach the object before it frees it, and    *)
(* for those that stole the copy before it uses the slot again.            *)
(***************************************************************************)
NoStalePointer == \A t \in Threads : \A p \in Held(t) : Valid(p)

(***************************************************************************)
(* The part of it about copies: a log is not used again under a section    *)
(* that reads it.  "The other thread is going to wait for this thread to   *)
(* finish before reusing the write-set log (to which p_obj_copy points)",  *)
(* the comment at line 839 of rlu.c.                                       *)
(***************************************************************************)
CopiesInLog == \A t \in Threads : \A p \in Held(t) \ Node : Valid(p)

(***************************************************************************)
(* What the comment in rlu_deref_slow_path() says of a thread that takes   *)
(* the copy of another: it "started after the other thread updated         *)
(* g_writer_version", so the other has advanced the clock by then.         *)
(***************************************************************************)
StealsAfterUpdate ==
  \A t \in Threads : Stealing(t) => pc[ThreadOf(copy[t])] # "advance"

\* rlu_writeback_write_set(): the object is locked by this thread
WriteBackFindsLock(t) ==
  pc[t] = "writeback" /\ written[t] < Len(Deferred(t)) =>
    LET p == Deferred(t)[written[t] + 1]
    IN  p_obj_copy[Copy(p).actual] # NULL /\ ThreadOf(p_obj_copy[Copy(p).actual]) = t

\* rlu_unlock_objs(): the lock points to this copy
AbortFindsLock(t) ==
  pc[t] = "unlock_objs" => \A i \in DOMAIN CurrentSet(t) :
    p_obj_copy[CurrentSet(t)[i].actual] = <<t, CurrentSlot(t), i>>

\* rlu_process_free(): the object is unlocked
FreesUnlocked(t) ==
  pc[t] = "sync_end" => \A x \in free_nodes[t] : x \in allocated /\ p_obj_copy[x] = NULL

\* rlu_commit_write_set(): there is a free slot
SlotIsFree(t) ==
  pc[t] = "unlocked" /\ result[t] = 1 /\ op[t] # "contains" =>
    /\ ws_tail_counter[t] > ws_head_counter[t]
    /\ WS_INDEX(ws_tail_counter[t]) # WS_INDEX(ws_head_counter[t])

\* The last of them for all threads: the ring of write sets never overflows,
\* however sections, aborts and synchronizations follow each other.
RingHasRoom == \A t \in Threads : SlotIsFree(t)

(***************************************************************************)
(* The RLU_ASSERTs of rlu.c that depend on other threads or on several     *)
(* sections hold: a write-back and an abort find their own locks, nothing  *)
(* locked is freed, and the ring of write sets never overflows.            *)
(***************************************************************************)
AssertionsHold ==
  /\ \A t \in Threads : WriteBackFindsLock(t) /\ AbortFindsLock(t) /\ FreesUnlocked(t)
  /\ RingHasRoom

(***************************************************************************)
(* Every thread ends: no synchronization waits for ever, although threads  *)
(* that synchronize wait for each other while they hold locks, and after   *)
(* the rlu_thread_finish() of all, nothing is locked, what was deferred is *)
(* in the objects, and what was removed is freed.                          *)
(***************************************************************************)
AllEnd ==
  <>(/\ \A t \in Threads : pc[t] = "done"
     /\ \A x \in Node : p_obj_copy[x] = NULL
     /\ {data[x].val : x \in allocated} = set \union {LIST_VAL_MIN, LIST_VAL_MAX}
     /\ Cardinality(allocated) = Cardinality(set) + 2 * NBuckets)

=============================================================================
