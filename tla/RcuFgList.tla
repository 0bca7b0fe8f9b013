----------------------------- MODULE RcuFgList -----------------------------
(***************************************************************************)
(* The RCU list with a spin lock per node: an update traverses without     *)
(* locks, locks the two or three nodes concerned in list order, validates  *)
(* what it had read and commits, or releases the locks and starts again    *)
(* (rcu_list_fg_add, rcu_list_fg_remove, benchmark "rcu-fglock").  The     *)
(* NUMA-aware version takes, before those, the locks of its NUMA node in   *)
(* the same nodes (rcu_list_numa_add, rcu_list_numa_remove, "rcu-numa").   *)
(*                                                                         *)
(* The updates contain no rcu_read_lock(): the nodes they use stay         *)
(* allocated only in a kernel where PREEMPT_RCU is off.                    *)
(***************************************************************************)
EXTENDS SortedList, Sequences

CONSTANTS
  NumaNodes,         \* NUMA nodes of the machine
  numa_node_id       \* numa_node_id[t]: node of the processor t is bound to

ASSUME NumaAssumption == /\ Benchmarks \subseteq {"rcu-fglock", "rcu-numa"}
                         /\ "global" \notin NumaNodes
                         /\ numa_node_id \in [Threads -> NumaNodes]

VARIABLES
  owner,             \* owner[<<x, l>>]: thread that holds lock l of node x, or NULL
  held               \* held[t]: locks of Order(t) that t holds

lockVars == <<owner, held>>
vars == <<listVars, lockVars>>

Labels == {"idle", "deref", "test", "succ", "lock", "update", "backoff",
           "free", "unlock", "ret"}

\* global_lock, and one lock of pnd_slocks per NUMA node, in every node.
Locks == Node \X (NumaNodes \union {"global"})

\* pndslock(x)
pndslock(t, x) == <<x, numa_node_id[t]>>
global_lock(x) == <<x, "global">>

\* remove locks against the order of the list
FaultySpots(t) == IF op[t] = "add" THEN <<p_prev[t], p_next[t]>>
                                   ELSE <<n[t], p_next[t], p_prev[t]>>

\* The nodes an update locks, in the order in which it locks them.
Spots(t) == IF op[t] = "add" THEN <<p_prev[t], p_next[t]>>
                             ELSE <<p_prev[t], p_next[t], n[t]>>

Order(t) ==
  LET spots == Spots(t)
      global == [i \in DOMAIN spots |-> global_lock(spots[i])]
      local == [i \in DOMAIN spots |-> pndslock(t, spots[i])]
  IN  IF bench = "rcu-numa" THEN local \o global ELSE global

-----------------------------------------------------------------------------
\* rcu_hash_list_contains(), rcu_hash_list_fg_*(), rcu_hash_list_numa_*():
\* only the lookup enters an RCU section.
Begin(t, o, k) ==
  /\ Call(t, o, k)
  /\ IF o = "contains" THEN rcu_read_lock(t) ELSE UNCHANGED rcu
  /\ StartAt(t, k)
  /\ UNCHANGED <<nodeVars, gp, p_next, n, p_new_node, result, lockVars>>

Decide(t, r, label) ==
  /\ result' = [result EXCEPT ![t] = r]
  /\ Goto(t, label)

\* rcu_list_contains(): result = (v == val), rcu_read_unlock()
Contains(t) ==
  /\ Arrived(t, "contains")
  /\ Decide(t, IF Found(t) THEN 1 ELSE 0, "ret")
  /\ rcu_read_unlock(t)
  /\ seen' = [seen EXCEPT ![t] = {}]
  /\ UNCHANGED <<nodeVars, driverVars, obs, lockVars,
                 op, key, p_prev, p_next, n, p_new_node>>

\* There is nothing to do: return result, which is 0.
Nothing(t) ==
  /\ \/ Arrived(t, "add") /\ Found(t)
     \/ Arrived(t, "remove") /\ ~Found(t)
  /\ Decide(t, 0, "ret")
  /\ UNCHANGED <<nodeVars, rcuVars, driverVars, historyVars, lockVars,
                 op, key, p_prev, p_next, n, p_new_node>>

\* rcu_new_node() also unlocks every lock of the new node.
AddNewNode(t) ==
  /\ Arrived(t, "add") /\ ~Found(t)
  /\ \E x \in DataNodes :
       /\ NewNode(t, x, key[t], Hash(key[t]), p_next[t])
       /\ p_new_node' = [p_new_node EXCEPT ![t] = x]
       /\ owner' = [l \in Locks |-> IF l[1] = x THEN NULL ELSE owner[l]]
  /\ Goto(t, "lock")
  /\ UNCHANGED <<rcu, driverVars, historyVars, held,
                 op, key, p_prev, p_next, n, result>>

RemoveFound(t) ==
  /\ Arrived(t, "remove") /\ Found(t)
  /\ Goto(t, "succ")
  /\ UNCHANGED <<nodeVars, rcuVars, driverVars, historyVars, lockVars,
                 op, key, p_prev, p_next, n, p_new_node, result>>

\* n = RCU_DEREF(p_next->p_next); the locks come next.
RemoveReadSucc(t) ==
  /\ pc[t] = "succ"
  /\ n' = [n EXCEPT ![t] = link[p_next[t]]]
  /\ Goto(t, "lock")
  /\ UNCHANGED <<nodeVars, rcuVars, driverVars, historyVars, lockVars,
                 op, key, p_prev, p_next, p_new_node, result>>

NextLock(t) == Order(t)[held[t] + 1]

\* One spin_lock() of the sequence.
Lock(t) ==
  /\ pc[t] = "lock" /\ owner[NextLock(t)] = NULL
  /\ owner' = [owner EXCEPT ![NextLock(t)] = t]
  /\ held' = [held EXCEPT ![t] = @ + 1]
  /\ Goto(t, IF held[t] + 1 = Len(Order(t)) THEN "update" ELSE "lock")
  /\ UNCHANGED <<nodeVars, rcuVars, driverVars, historyVars,
                 op, key, p_prev, p_next, n, p_new_node, result>>

FaultyAddValid(t) == link[p_prev[t]] = p_next[t]
AddValid(t) ==
  /\ link[p_prev[t]] = p_next[t]
  /\ removed[p_prev[t]] = 0 /\ removed[p_next[t]] = 0

FaultyRemoveValid(t) == TRUE
RemoveValid(t) ==
  /\ removed[p_prev[t]] = 0 /\ removed[p_next[t]] = 0 /\ removed[n[t]] = 0
  /\ link[p_prev[t]] = p_next[t] /\ link[p_next[t]] = n[t]

AddCommit(t) ==
  /\ pc[t] = "update" /\ op[t] = "add" /\ AddValid(t)
  /\ Publish(t)
  /\ Decide(t, 1, "unlock")
  /\ UNCHANGED <<val, removed, bkt, rcuVars, driverVars, lockVars,
                 op, key, p_prev, p_next, n, p_new_node>>

\* The node is unlinked and marked, then given to rcu_free_node(), all before
\* the locks are released.
RemoveCommit(t) ==
  /\ pc[t] = "update" /\ op[t] = "remove" /\ RemoveValid(t)
  /\ Unlink(t)
  /\ removed' = [removed EXCEPT ![p_next[t]] = 1]
  /\ Decide(t, 1, "free")
  /\ UNCHANGED <<val, bkt, rcuVars, driverVars, lockVars,
                 op, key, p_prev, p_next, n, p_new_node>>

Free(t) ==
  /\ pc[t] = "free"
  /\ kfree_rcu(p_next[t])
  /\ Goto(t, "unlock")
  /\ UNCHANGED <<val, link, removed, bkt, rcu, driverVars, historyVars, lockVars,
                 op, key, p_prev, p_next, n, p_new_node, result>>

\* unlock_retry
Invalid(t) ==
  /\ pc[t] = "update"
  /\ \/ op[t] = "add" /\ ~AddValid(t)
     \/ op[t] = "remove" /\ ~RemoveValid(t)
  /\ Goto(t, "backoff")
  /\ UNCHANGED <<nodeVars, rcuVars, driverVars, historyVars, lockVars,
                 op, key, p_prev, p_next, n, p_new_node, result>>

\* unlock_retry keeps the locks
FaultyUnlock(t) ==
  /\ pc[t] = "unlock" /\ held[t] > 0
  /\ owner' = [owner EXCEPT ![Order(t)[held[t]]] = NULL]
  /\ held' = [held EXCEPT ![t] = @ - 1]
  /\ UNCHANGED <<listVars>>

\* One spin_unlock(), in the reverse order of the spin_lock()s.
Unlock(t) ==
  /\ pc[t] \in {"unlock", "backoff"} /\ held[t] > 0
  /\ owner' = [owner EXCEPT ![Order(t)[held[t]]] = NULL]
  /\ held' = [held EXCEPT ![t] = @ - 1]
  /\ UNCHANGED <<listVars>>

Unlocked(t) ==
  /\ pc[t] = "unlock" /\ held[t] = 0
  /\ Goto(t, "ret")
  /\ UNCHANGED <<nodeVars, rcuVars, driverVars, historyVars, lockVars,
                 op, key, p_prev, p_next, n, p_new_node, result>>

\* kfree(p_new_node) after a failed add; goto retry
Retry(t) ==
  /\ pc[t] = "backoff" /\ held[t] = 0
  /\ mem' = IF op[t] = "add" THEN [mem EXCEPT ![p_new_node[t]] = "free"] ELSE mem
  /\ StartAt(t, key[t])
  /\ UNCHANGED <<val, link, removed, bkt, rcuVars, driverVars, obs, lockVars,
                 op, key, p_next, n, p_new_node, result>>

Finish(t) == Return(t) /\ UNCHANGED lockVars

-----------------------------------------------------------------------------
Init ==
  /\ ListInit
  /\ owner = [l \in Locks |-> NULL]
  /\ held = [t \in Threads |-> 0]

Traverse(t) == (Deref(t) \/ Advance(t)) /\ UNCHANGED lockVars

\* The steps of rcu_list_fg_add() and rcu_list_numa_add() that do not wait.
Add(t) == AddNewNode(t) \/ AddCommit(t)

\* The steps of rcu_list_fg_remove() and rcu_list_numa_remove() likewise.
Remove(t) == RemoveFound(t) \/ RemoveReadSucc(t) \/ RemoveCommit(t) \/ Free(t)

Step(t) ==
  \/ Traverse(t) \/ Contains(t) \/ Nothing(t) \/ Add(t) \/ Remove(t)
  \/ Invalid(t) \/ Unlock(t) \/ Unlocked(t) \/ Retry(t) \/ Finish(t)

Kernel == \E x \in DataNodes : Reclaim(x) /\ UNCHANGED lockVars

Next ==
  \/ \E k \in Keys : HalfFill(k) /\ UNCHANGED lockVars
  \/ \E t \in Threads : \/ \E o \in OpNames, k \in Keys : Begin(t, o, k)
                        \/ Lock(t) \/ Step(t)
  \/ Kernel

\* The kernel's spin locks queue their waiters.
Fairness ==
  /\ \A t \in Threads : WF_vars(Step(t)) /\ SF_vars(Lock(t))
  /\ WF_vars(Kernel)

Spec == Init /\ [][Next]_vars /\ Fairness

-----------------------------------------------------------------------------
\* Types of the nodes, the local variables of the fine-grained updates and the locks of the nodes.
TypeOK ==
  /\ NodeTypeOK /\ LocalTypeOK
  /\ pc \in [Threads -> Labels]
  /\ owner \in [Locks -> Threads \union {NULL}]
  /\ held \in [Threads -> 0..6]

(***************************************************************************)
(* Neither a pointer of a traversal nor a lock that is about to be taken   *)
(* or released lies in freed memory: also the removed node, whose locks    *)
(* are released after rcu_free_node(), and the nodes of an update that     *)
(* found itself invalid.                                                   *)
(***************************************************************************)
LocksInMemory ==
  /\ NoUseAfterFree
  /\ \A t \in Threads :
       /\ pc[t] = "lock" => mem[NextLock(t)[1]] # "free"
       /\ pc[t] \in {"unlock", "backoff"} =>
            \A i \in 1..held[t] : mem[Order(t)[i][1]] # "free"

\* t waits for a lock that a member of S holds.
WaitsFor(t, S) == pc[t] = "lock" /\ owner[NextLock(t)] \in S

(***************************************************************************)
(* No set of threads waits for one another: the locks are taken in the     *)
(* order of the list, also by threads whose view of the list is stale, and *)
(* locks of the NUMA node before global ones.                              *)
(***************************************************************************)
NoLockCycle == \A S \in (SUBSET Threads) \ {{}} : \E t \in S : ~WaitsFor(t, S)
-----------------------------------------------------------------------------
(***************************************************************************)
(* The inductive invariant behind the safety properties, for a kernel      *)
(* where a thread passes no quiescent state inside a call.  The locks do   *)
(* not make the traversal's pointers valid: what makes a commit safe is    *)
(* that a node of the view whose flag is clear is still in the list.       *)
(***************************************************************************)
\* The flag tells a node in the list from one that was unlinked.
RemovedFlag ==
  \A x \in Node : /\ mem[x] \in {"private", "live"} => removed[x] = 0
                  /\ Stale(x) => removed[x] = 1

\* t has found its place and takes, holds or releases locks.
Locking(t) == pc[t] \in {"lock", "update", "backoff", "free", "unlock"}

\* One call at a time; only updates lock.
Phase(t) ==
  /\ fill > 0 => pc[t] = "idle"
  /\ pc[t] = "idle" <=> op[t] = "none"
  /\ pc[t] # "idle" => key[t] \in Keys
  /\ Locking(t) => op[t] \in {"add", "remove"}
  /\ pc[t] \in {"succ", "free"} => op[t] = "remove"

\* Where the pointers of a call stand, in a view that may be stale.
Cursor(t) ==
  pc[t] \notin {"idle", "ret"} =>
    /\ View(t)
    /\ p_prev[t] \in seen[t] /\ bkt[p_prev[t]] = Hash(key[t]) /\ val[p_prev[t]] < key[t]
    /\ pc[t] # "deref" => p_next[t] \in seen[t] /\ bkt[p_next[t]] = Hash(key[t])
    /\ pc[t] = "test" /\ key[t] < val[p_next[t]] => "absent" \in obs[t]
    /\ pc[t] = "succ" => val[p_next[t]] = key[t]
    /\ Locking(t) /\ op[t] = "add" => key[t] < val[p_next[t]]
    /\ Locking(t) /\ op[t] = "remove" =>
         /\ val[p_next[t]] = key[t]
         /\ n[t] \in seen[t] /\ bkt[n[t]] = Hash(key[t]) /\ key[t] < val[n[t]]

\* A node not yet linked, or just unlinked, belongs to one thread.
Inserting(t) == op[t] = "add" /\ pc[t] \in {"lock", "update", "backoff"}

Freeing(t) == pc[t] = "free"

Owns(t) ==
  /\ Inserting(t) => /\ p_new_node[t] \in DataNodes /\ mem[p_new_node[t]] = "private"
                     /\ val[p_new_node[t]] = key[t] /\ link[p_new_node[t]] = p_next[t]
                     /\ bkt[p_new_node[t]] = Hash(key[t])
  /\ Freeing(t) => p_next[t] \in DataNodes /\ mem[p_next[t]] = "unlinked"

Alone ==
  \A t, u \in Threads : t # u =>
    /\ Inserting(t) /\ Inserting(u) => p_new_node[t] # p_new_node[u]
    /\ Freeing(t) /\ Freeing(u) => p_next[t] # p_next[u]

\* How far t is in its sequence of locks.
Progress(t) ==
  /\ ~Locking(t) => held[t] = 0
  /\ Locking(t) => held[t] <= Len(Order(t))
  /\ pc[t] = "lock" => held[t] < Len(Order(t))
  /\ pc[t] \in {"update", "free"} => held[t] = Len(Order(t))

\* A lock is held by the one thread that has it among its first held[t] locks.
Owners ==
  \A t \in Threads, l \in Locks : owner[l] = t <=> \E i \in 1..held[t] : Order(t)[i] = l

Answered(t) == Decided(t) => WasTrue(t, result[t])

ThreadInv(t) ==
  Phase(t) /\ Cursor(t) /\ Owns(t) /\ Progress(t) /\ Recorded(t) /\ Answered(t)

\* All of it: what rcu_list_fg_*() and rcu_list_numa_*() keep true in every step.
Inv ==
  /\ TypeOK /\ SortedLists /\ RemovedFlag /\ Owners /\ Alone
  /\ \A t \in Threads : ThreadInv(t)
=============================================================================
