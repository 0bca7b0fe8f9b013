--------------------------- MODULE RcxHtmLockList ---------------------------
(***************************************************************************)
(* The RCX lists that use transactions only to take locks.  Every node has *)
(* a lock byte per NUMA node and a global lock.  An update locks the nodes *)
(* concerned, validates what it had read outside the locks, commits and    *)
(* unlocks, or unlocks and starts again:                                   *)
(*                                                                         *)
(*   rcx-htmlock   one transaction sets the global lock bytes of all nodes *)
(*                 (rcx_list_htmlock_add, rcx_list_htmlock_remove);        *)
(*   rcx-hhtmlock  one transaction sets the bytes of the thread's NUMA     *)
(*                 node, a second one the global ones (rcx_list_hhtmlock_  *)
(*                 add and remove);                                        *)
(*   rcx           one transaction sets the bytes of the NUMA node, then   *)
(*                 the global locks are spin locks, taken one after the    *)
(*                 other in list order (rcx_list_numa_add and remove).     *)
(***************************************************************************)
EXTENDS SortedList, Sequences

CONSTANTS
  NumaNodes,         \* NUMA nodes of the machine
  numa_node_id,      \* numa_node_id[t]: node of the processor t is bound to
  MaxUnlocks         \* bound: surplus RCU_READER_UNLOCK()s of a thread

ASSUME VariantAssumption == /\ Benchmarks \subseteq {"rcx-htmlock", "rcx-hhtmlock", "rcx"}
                            /\ numa_node_id \in [Threads -> NumaNodes]
                            /\ MaxUnlocks \in Nat

VARIABLES
  pnodelock,         \* pnodelock[<<x, d>>]: who set the byte of NUMA node d, or NULL
  glock              \* glock[x]: who holds global_htmlock or global_lock of x

lockVars == <<pnodelock, glock>>
vars == <<listVars, lockVars>>

Labels == {"idle", "deref", "test", "succ", "wait", "tx", "gwait", "gtx", "spin",
           "update", "free", "unlock", "backoff", "again", "ret"}

\* remove locks against the order of the list
FaultySpots(t) == IF op[t] = "add" THEN <<p_prev[t], p_next[t]>>
                                   ELSE <<n[t], p_next[t], p_prev[t]>>
Spots(t) == IF op[t] = "add" THEN <<p_prev[t], p_next[t]>>
                             ELSE <<p_prev[t], p_next[t], n[t]>>
SpotSet(t) == {Spots(t)[i] : i \in DOMAIN Spots(t)}

\* The byte of t's NUMA node in node x
mine(t, x) == <<x, numa_node_id[t]>>

NodeLocksFree(t) == \A x \in SpotSet(t) : pnodelock[mine(t, x)] = NULL
FaultyGlobalLocksFree(t) == glock[p_prev[t]] = NULL
GlobalLocksFree(t) == \A x \in SpotSet(t) : glock[x] = NULL

SetNodeLocks(t) ==
  pnodelock' = [l \in Node \X NumaNodes |->
                  IF l \in {mine(t, x) : x \in SpotSet(t)} THEN t ELSE pnodelock[l]]
SetGlobalLocks(t) == glock' = [x \in Node |-> IF x \in SpotSet(t) THEN t ELSE glock[x]]

-----------------------------------------------------------------------------
\* rcx_hash_list_*(): RCU_READER_LOCK(), start at p_head
Begin(t, o, k) ==
  /\ Call(t, o, k)
  /\ rcu_read_lock(t)
  /\ StartAt(t, k)
  /\ UNCHANGED <<nodeVars, gp, p_next, n, p_new_node, result, lockVars>>

Decide(t, r, label) ==
  /\ result' = [result EXCEPT ![t] = r]
  /\ Goto(t, label)

ContainsDone(t) ==
  /\ Arrived(t, "contains")
  /\ Decide(t, IF Found(t) THEN 1 ELSE 0, "unlock")
  /\ UNCHANGED <<nodeVars, rcuVars, driverVars, historyVars, lockVars,
                 op, key, p_prev, p_next, n, p_new_node>>

\* The value is there: rcx_list_numa_add() returns without RCU_READER_UNLOCK()
AddPresent(t) ==
  /\ Arrived(t, "add") /\ Found(t)
  /\ Decide(t, 0, IF bench = "rcx" THEN "ret" ELSE "unlock")
  /\ UNCHANGED <<nodeVars, rcuVars, driverVars, historyVars, lockVars,
                 op, key, p_prev, p_next, n, p_new_node>>

RemoveAbsent(t) ==
  /\ Arrived(t, "remove") /\ ~Found(t)
  /\ Decide(t, 0, "unlock")
  /\ UNCHANGED <<nodeVars, rcuVars, driverVars, historyVars, lockVars,
                 op, key, p_prev, p_next, n, p_new_node>>

\* rcx_new_node() also clears every lock of the new node.
AddNewNode(t) ==
  /\ Arrived(t, "add") /\ ~Found(t)
  /\ \E x \in DataNodes :
       /\ NewNode(t, x, key[t], Hash(key[t]), p_next[t])
       /\ p_new_node' = [p_new_node EXCEPT ![t] = x]
       /\ pnodelock' = [l \in Node \X NumaNodes |->
                          IF l[1] = x THEN NULL ELSE pnodelock[l]]
       /\ glock' = [glock EXCEPT ![x] = NULL]
  /\ Goto(t, "wait")
  /\ UNCHANGED <<rcu, driverVars, historyVars, op, key, p_prev, p_next, n, result>>

RemoveFound(t) ==
  /\ Arrived(t, "remove") /\ Found(t)
  /\ Goto(t, "succ")
  /\ UNCHANGED <<nodeVars, rcuVars, driverVars, historyVars, lockVars,
                 op, key, p_prev, p_next, n, p_new_node, result>>

\* n = RCU_DEREF(p_next->p_next); the locks come next.
RemoveReadSucc(t) ==
  /\ pc[t] = "succ"
  /\ n' = [n EXCEPT ![t] = link[p_next[t]]]
  /\ Goto(t, "wait")
  /\ UNCHANGED <<nodeVars, rcuVars, driverVars, historyVars, lockVars,
                 op, key, p_prev, p_next, p_new_node, result>>

-----------------------------------------------------------------------------
(* Taking the locks *)

LocalsKept(t) == UNCHANGED <<nodeVars, driverVars, op, key, p_prev, p_next, n,
                             p_new_node, result>>

\* while (... == 1) smp_wmb();
Wait(t) ==
  /\ pc[t] = "wait"
  /\ IF bench = "rcx-htmlock" THEN GlobalLocksFree(t) ELSE NodeLocksFree(t)
  /\ Goto(t, "tx")
  /\ LocalsKept(t) /\ UNCHANGED <<rcuVars, historyVars, lockVars>>

\* The first transaction commits.
TxLock(t) ==
  /\ pc[t] = "tx"
  /\ IF bench = "rcx-htmlock"
     THEN GlobalLocksFree(t) /\ SetGlobalLocks(t) /\ UNCHANGED pnodelock
     ELSE NodeLocksFree(t) /\ SetNodeLocks(t) /\ UNCHANGED glock
  /\ Goto(t, CASE bench = "rcx-htmlock" -> "update"
               [] bench = "rcx-hhtmlock" -> "gwait"
               [] bench = "rcx" -> "spin")
  /\ LocalsKept(t) /\ UNCHANGED <<rcuVars, historyVars>>

\* It aborts: RCU_READER_UNLOCK(), kfree() of the new node, goto retry
TxAbort(t) ==
  /\ pc[t] = "tx"
  /\ rcu_read_unlock(t)
  /\ mem' = IF op[t] = "add" THEN [mem EXCEPT ![p_new_node[t]] = "free"] ELSE mem
  /\ seen' = [seen EXCEPT ![t] = {}]
  /\ Goto(t, "again")
  /\ UNCHANGED <<val, link, removed, bkt, driverVars, obs, lockVars,
                 op, key, p_prev, p_next, n, p_new_node, result>>

\* retry_global_lock in the hierarchical version
GlobalWait(t) ==
  /\ pc[t] = "gwait" /\ GlobalLocksFree(t)
  /\ Goto(t, "gtx")
  /\ LocalsKept(t) /\ UNCHANGED <<rcuVars, historyVars, lockVars>>

GlobalTxLock(t) ==
  /\ pc[t] = "gtx" /\ GlobalLocksFree(t)
  /\ SetGlobalLocks(t)
  /\ Goto(t, "update")
  /\ LocalsKept(t) /\ UNCHANGED <<rcuVars, historyVars, pnodelock>>

\* It aborts: RCU_READER_UNLOCK(), then goto retry_global_lock
GlobalTxAbort(t) ==
  /\ pc[t] = "gtx" /\ rcu[t] > -MaxUnlocks
  /\ rcu_read_unlock(t)
  /\ Goto(t, "gwait")
  /\ LocalsKept(t) /\ UNCHANGED <<historyVars, lockVars>>

\* RCU_WRITER_LOCK(...->global_lock), in list order
SpinsOn(t) ==
  Spots(t)[CHOOSE i \in DOMAIN Spots(t) :
             /\ glock[Spots(t)[i]] # t
             /\ \A j \in 1 .. i - 1 : glock[Spots(t)[j]] = t]

SpinLock(t) ==
  /\ pc[t] = "spin" /\ glock[SpinsOn(t)] = NULL
  /\ glock' = [glock EXCEPT ![SpinsOn(t)] = t]
  /\ Goto(t, IF SpinsOn(t) = Spots(t)[Len(Spots(t))] THEN "update" ELSE "spin")
  /\ LocalsKept(t) /\ UNCHANGED <<rcuVars, historyVars, pnodelock>>

-----------------------------------------------------------------------------
(* The critical section *)

AddValid(t) ==
  /\ link[p_prev[t]] = p_next[t]
  /\ removed[p_prev[t]] = 0 /\ removed[p_next[t]] = 0

FaultyRemoveValid(t) == TRUE
RemoveValid(t) ==
  /\ removed[p_prev[t]] = 0 /\ removed[p_next[t]] = 0 /\ removed[n[t]] = 0
  /\ link[p_prev[t]] = p_next[t] /\ link[p_next[t]] = n[t]

AddCommit(t) ==
  /\ pc[t] = "update" /\ op[t] = "add" /\ AddValid(t)
  /\ Publish(t)
  /\ Decide(t, 1, "unlock")
  /\ UNCHANGED <<val, removed, bkt, rcuVars, driverVars, lockVars,
                 op, key, p_prev, p_next, n, p_new_node>>

RemoveCommit(t) ==
  /\ pc[t] = "update" /\ op[t] = "remove" /\ RemoveValid(t)
  /\ Unlink(t)
  /\ removed' = [removed EXCEPT ![p_next[t]] = 1]
  /\ Decide(t, 1, "free")
  /\ UNCHANGED <<val, bkt, rcuVars, driverVars, lockVars,
                 op, key, p_prev, p_next, n, p_new_node>>

\* rcx_free_node(p_next), before the locks are released
Free(t) ==
  /\ pc[t] = "free"
  /\ kfree_rcu(p_next[t])
  /\ Goto(t, "unlock")
  /\ UNCHANGED <<val, link, removed, bkt, rcu, driverVars, historyVars, lockVars,
                 op, key, p_prev, p_next, n, p_new_node, result>>

\* The validation fails: RCU_READER_UNLOCK() at once, goto unlock_retry
Invalid(t) ==
  /\ pc[t] = "update"
  /\ \/ op[t] = "add" /\ ~AddValid(t)
     \/ op[t] = "remove" /\ ~RemoveValid(t)
  /\ rcu_read_unlock(t)
  /\ Goto(t, "backoff")
  /\ LocalsKept(t) /\ UNCHANGED <<historyVars, lockVars>>

\* The locks are released one by one, the global ones first; the order among
\* the nodes, which differs between the functions, is left open.
Releases(t) == pc[t] \in {"unlock", "backoff"}
HoldsGlobal(t) == \E x \in Node : glock[x] = t
HoldsNode(t) == \E x \in Node : pnodelock[mine(t, x)] = t

GlobalUnlock(t) ==
  /\ Releases(t)
  /\ \E x \in Node : glock[x] = t /\ glock' = [glock EXCEPT ![x] = NULL]
  /\ UNCHANGED <<listVars, pnodelock>>

NodeUnlock(t) ==
  /\ Releases(t) /\ ~HoldsGlobal(t)
  /\ \E x \in Node :
       /\ pnodelock[mine(t, x)] = t
       /\ pnodelock' = [pnodelock EXCEPT ![mine(t, x)] = NULL]
  /\ UNCHANGED <<listVars, glock>>

Released(t) == Releases(t) /\ ~HoldsGlobal(t) /\ ~HoldsNode(t)

\* RCU_READER_UNLOCK() of a call that is done
ReaderUnlock(t) ==
  /\ pc[t] = "unlock" /\ Released(t)
  /\ rcu_read_unlock(t)
  /\ seen' = [seen EXCEPT ![t] = {}]
  /\ Goto(t, "ret")
  /\ UNCHANGED <<obs, lockVars>> /\ LocalsKept(t)

\* unlock_retry: RCU_READER_UNLOCK() for the second time, kfree(p_new_node)
GiveUp(t) ==
  /\ pc[t] = "backoff" /\ Released(t)
  /\ rcu_read_unlock(t)
  /\ mem' = IF op[t] = "add" THEN [mem EXCEPT ![p_new_node[t]] = "free"] ELSE mem
  /\ seen' = [seen EXCEPT ![t] = {}]
  /\ Goto(t, "again")
  /\ UNCHANGED <<val, link, removed, bkt, driverVars, obs, lockVars,
                 op, key, p_prev, p_next, n, p_new_node, result>>

\* retry: RCU_READER_LOCK(), start at p_head
Retry(t) ==
  /\ pc[t] = "again"
  /\ rcu_read_lock(t)
  /\ StartAt(t, key[t])
  /\ UNCHANGED <<nodeVars, gp, driverVars, obs, lockVars,
                 op, key, p_next, n, p_new_node, result>>

Finish(t) == Return(t) /\ UNCHANGED lockVars

-----------------------------------------------------------------------------
Init ==
  /\ ListInit
  /\ pnodelock = [l \in Node \X NumaNodes |-> NULL]
  /\ glock = [x \in Node |-> NULL]

Traverse(t) == (Deref(t) \/ Advance(t)) /\ UNCHANGED lockVars

\* The three ways to take the locks.
TakeHtmlock(t) == Wait(t) \/ TxLock(t) \/ TxAbort(t)
TakeGlobalHtmlock(t) == GlobalWait(t) \/ GlobalTxLock(t) \/ GlobalTxAbort(t)

\* rcx_list_htmlock_add(), rcx_list_hhtmlock_add(), rcx_list_numa_add()
Add(t) == AddPresent(t) \/ AddNewNode(t) \/ AddCommit(t)

\* rcx_list_htmlock_remove() and so on
Remove(t) == RemoveAbsent(t) \/ RemoveFound(t) \/ RemoveReadSucc(t) \/ RemoveCommit(t) \/ Free(t)

Release(t) == GlobalUnlock(t) \/ NodeUnlock(t) \/ ReaderUnlock(t) \/ GiveUp(t)

Step(t) ==
  \/ Traverse(t) \/ ContainsDone(t) \/ Add(t) \/ Remove(t)
  \/ TakeHtmlock(t) \/ TakeGlobalHtmlock(t) \/ SpinLock(t)
  \/ Invalid(t) \/ Release(t) \/ Retry(t) \/ Finish(t)

Kernel == \E x \in DataNodes : Reclaim(x) /\ UNCHANGED lockVars

Next ==
  \/ \E k \in Keys : HalfFill(k) /\ UNCHANGED lockVars
  \/ \E t \in Threads : \/ \E o \in OpNames, k \in Keys : Begin(t, o, k)
                        \/ Step(t)
  \/ Kernel

Spec == Init /\ [][Next]_vars

-----------------------------------------------------------------------------
\* Types of the nodes, the local variables and the two levels of locks of the nodes.
TypeOK ==
  /\ NodeTypeOK /\ LocalTypeOK
  /\ pc \in [Threads -> Labels]
  /\ pnodelock \in [Node \X NumaNodes -> Threads \union {NULL}]
  /\ glock \in [Node -> Threads \union {NULL}]

\* t is about to read or write the locks of these nodes.
TouchesLocks(t) ==
  CASE pc[t] \in {"wait", "tx", "gwait", "gtx", "spin", "update"} -> SpotSet(t)
    [] Releases(t) -> {x \in Node : glock[x] = t \/ pnodelock[mine(t, x)] = t}
    [] OTHER -> {}

(***************************************************************************)
(* No pointer that is dereferenced, and no lock that is read, taken or     *)
(* released, lies in freed memory; the removed node is unlocked after it   *)
(* was given to kfree_rcu().                                               *)
(***************************************************************************)
LocksInMemory ==
  /\ NoUseAfterFree
  /\ \A t \in Threads : \A x \in TouchesLocks(t) : mem[x] # "free"

\* t waits for a lock that a member of S holds.
WaitsFor(t, S) ==
  \/ pc[t] = "wait" /\ bench = "rcx-htmlock" /\ \E x \in SpotSet(t) : glock[x] \in S
  \/ pc[t] = "wait" /\ bench # "rcx-htmlock" /\ \E x \in SpotSet(t) : pnodelock[mine(t, x)] \in S
  \/ pc[t] = "gwait" /\ \E x \in SpotSet(t) : glock[x] \in S
  \/ pc[t] = "spin" /\ glock[SpinsOn(t)] \in S

(***************************************************************************)
(* No set of threads waits for one another, with lock bytes of one level   *)
(* taken all at once by a transaction and spin locks taken one by one by   *)
(* threads that already hold bytes.                                        *)
(***************************************************************************)
NoLockCycle == \A S \in (SUBSET Threads) \ {{}} : \E t \in S : ~WaitsFor(t, S)

InCriticalSection(t) == pc[t] \in {"update", "free"}

(***************************************************************************)
(* "Now there are no concurrent updaters": two threads past the locks work *)
(* on disjoint nodes, so the validation of one is not undone by the other. *)
(***************************************************************************)
DisjointSections ==
  \A t, u \in Threads :
    t # u /\ InCriticalSection(t) /\ InCriticalSection(u) => SpotSet(t) \intersect SpotSet(u) = {}
-----------------------------------------------------------------------------
(***************************************************************************)
(* The inductive invariant behind these properties, for a kernel where a   *)
(* thread passes no quiescent state inside a call: these lists call        *)
(* RCU_READER_UNLOCK() more often than RCU_READER_LOCK().  The locks are   *)
(* in nodes of the thread's view, which may be stale; the flag tells the   *)
(* nodes of the view that are still in the list.                           *)
(***************************************************************************)
\* The flag tells a node in the list from one that was unlinked.
RemovedFlag ==
  \A x \in Node : /\ mem[x] \in {"private", "live"} => removed[x] = 0
                  /\ Stale(x) => removed[x] = 1

\* t has found its place and takes the locks, or has them all.
Placed(t) == pc[t] \in {"wait", "tx", "gwait", "gtx", "spin", "update", "free"}

\* t's pointers come from a traversal that is not over.
Viewing(t) == pc[t] \notin {"idle", "ret", "again"}

\* One call at a time; each variant takes its locks in its own way.
Phase(t) ==
  /\ fill > 0 => pc[t] = "idle"
  /\ pc[t] = "idle" <=> op[t] = "none"
  /\ pc[t] # "idle" => key[t] \in Keys
  /\ Placed(t) \/ pc[t] = "backoff" => op[t] \in {"add", "remove"}
  /\ pc[t] \in {"succ", "free"} => op[t] = "remove"
  /\ pc[t] \in {"gwait", "gtx"} => bench = "rcx-hhtmlock"
  /\ pc[t] = "spin" => bench = "rcx"

\* Where the pointers of a call stand, in a view that may be stale.
Cursor(t) ==
  Viewing(t) =>
    /\ View(t)
    /\ p_prev[t] \in seen[t] /\ bkt[p_prev[t]] = Hash(key[t]) /\ val[p_prev[t]] < key[t]
    /\ pc[t] # "deref" => p_next[t] \in seen[t] /\ bkt[p_next[t]] = Hash(key[t])
    /\ pc[t] = "test" /\ key[t] < val[p_next[t]] => "absent" \in obs[t]
    /\ pc[t] = "succ" => val[p_next[t]] = key[t]
    /\ Placed(t) /\ op[t] = "add" => key[t] < val[p_next[t]]
    /\ Placed(t) /\ op[t] = "remove" =>
         /\ val[p_next[t]] = key[t]
         /\ n[t] \in seen[t] /\ bkt[n[t]] = Hash(key[t]) /\ key[t] < val[n[t]]

\* A node not yet linked, or just unlinked, belongs to one thread.
Inserting(t) == op[t] = "add" /\ pc[t] # "free" /\ (Placed(t) \/ pc[t] = "backoff")

Freeing(t) == pc[t] = "free"

Owns(t) ==
  /\ Inserting(t) => /\ p_new_node[t] \in DataNodes /\ mem[p_new_node[t]] = "private"
                     /\ val[p_new_node[t]] = key[t] /\ link[p_new_node[t]] = p_next[t]
                     /\ bkt[p_new_node[t]] = Hash(key[t])
  /\ Freeing(t) => p_next[t] \in DataNodes /\ mem[p_next[t]] = "unlinked"

Alone ==
  \A t, u \in Threads : t # u =>
    /\ Inserting(t) /\ Inserting(u) => p_new_node[t] # p_new_node[u]
    /\ Freeing(t) /\ Freeing(u) => p_next[t] # p_next[u]

\* t's locks lie in nodes of its view.  In the critical section it has the
\* global locks of all its nodes; while it spins, those of the first ones.
Holdings(t) ==
  /\ \A x \in Node : glock[x] = t =>
       x \in seen[t] /\ pc[t] \in {"spin", "update", "free", "unlock", "backoff"}
  /\ \A l \in Node \X NumaNodes : pnodelock[l] = t =>
       /\ l[1] \in seen[t] /\ l[2] = numa_node_id[t] /\ bench # "rcx-htmlock"
       /\ pc[t] \in {"gwait", "gtx", "spin", "update", "free", "unlock", "backoff"}
  /\ pc[t] = "spin" =>
       \E i \in 1..Len(Spots(t)) :
         \A x \in Node : glock[x] = t <=> \E j \in 1 .. i - 1 : Spots(t)[j] = x
  /\ InCriticalSection(t) => \A x \in SpotSet(t) : glock[x] = t

Answered(t) == Decided(t) => WasTrue(t, result[t])

ThreadInv(t) ==
  Phase(t) /\ Cursor(t) /\ Owns(t) /\ Holdings(t) /\ Recorded(t) /\ Answered(t)

\* All of it: what the three variants keep true in every step.
Inv ==
  /\ TypeOK /\ SortedLists /\ RemovedFlag /\ Alone
  /\ \A t \in Threads : ThreadInv(t)
=============================================================================
