------------------------------ MODULE RcuList ------------------------------
(***************************************************************************)
(* The RCU list: lookups run under rcu_read_lock(), updates under the spin *)
(* lock of their bucket (rcu_list_contains, rcu_list_add, rcu_list_remove  *)
(* in rcu-hash-list.c, benchmark "rcu"), or give up at once if the lock is *)
(* taken (rcu_list_try_add, rcu_list_try_remove, benchmark "rcu-forgive"). *)
(* The updaters traverse without rcu_read_lock(): only the bucket lock     *)
(* keeps the nodes they stand on in memory.                                *)
(*                                                                         *)
(* The updates return 0, or 2 if the lock is taken; result is their local  *)
(* variable of that name, which tells whether they changed the list.       *)
(***************************************************************************)
EXTENDS SortedList

ASSUME BenchmarksAssumption == Benchmarks \subseteq {"rcu", "rcu-forgive"}

VARIABLE rcuspin           \* rcuspin[b]: holder of the lock of bucket b, or NULL

vars == <<listVars, rcuspin>>

Labels == {"idle", "lock", "deref", "test", "succ", "update", "unlock", "free", "ret"}

-----------------------------------------------------------------------------
\* rcu_hash_list_contains(): rcu_read_lock(), start at p_head
BeginLookup(t, k) ==
  /\ Call(t, "contains", k)
  /\ rcu_read_lock(t)
  /\ StartAt(t, k)
  /\ UNCHANGED <<nodeVars, gp, p_next, n, p_new_node, result, rcuspin>>

\* rcu_hash_list_[try_]add/remove(): choose the bucket
BeginUpdate(t, o, k) ==
  /\ Call(t, o, k)
  /\ Goto(t, "lock")
  /\ UNCHANGED <<nodeVars, rcuVars, p_prev, p_next, n, p_new_node, result,
                 seen, rcuspin>>

FaultyTaken(t) == FALSE
Taken(t) == rcuspin[Hash(key[t])] # NULL

\* spin_lock() or a successful spin_trylock()
Lock(t) ==
  /\ pc[t] = "lock" /\ ~Taken(t)
  /\ rcuspin' = [rcuspin EXCEPT ![Hash(key[t])] = t]
  /\ StartAt(t, key[t])
  /\ UNCHANGED <<nodeVars, rcuVars, driverVars, obs,
                 op, key, p_next, n, p_new_node, result>>

\* goes on without the lock
FaultyTryFails(t) ==
  /\ bench = "rcu-forgive"
  /\ pc[t] = "lock" /\ Taken(t)
  /\ StartAt(t, key[t])
  /\ UNCHANGED <<nodeVars, rcuVars, driverVars, obs, rcuspin,
                 op, key, p_next, n, p_new_node, result>>

\* a failed spin_trylock(): return 2
TryFails(t) ==
  /\ bench = "rcu-forgive"
  /\ pc[t] = "lock" /\ Taken(t)
  /\ result' = [result EXCEPT ![t] = ABORTED]
  /\ Goto(t, "ret")
  /\ UNCHANGED <<nodeVars, rcuVars, driverVars, historyVars, rcuspin,
                 op, key, p_prev, p_next, n, p_new_node>>

Decide(t, r) ==
  /\ result' = [result EXCEPT ![t] = r]
  /\ Goto(t, "unlock")

\* rcu_list_contains(): result = (v == val)
ContainsDone(t) ==
  /\ Arrived(t, "contains")
  /\ Decide(t, IF Found(t) THEN 1 ELSE 0)
  /\ UNCHANGED <<nodeVars, rcuVars, driverVars, historyVars, rcuspin,
                 op, key, p_prev, p_next, n, p_new_node>>

\* An update that finds nothing to do.
NothingToAdd(t) ==
  /\ Arrived(t, "add") /\ Found(t)
  /\ Decide(t, 0)
  /\ UNCHANGED <<nodeVars, rcuVars, driverVars, historyVars, rcuspin,
                 op, key, p_prev, p_next, n, p_new_node>>

NothingToRemove(t) ==
  /\ Arrived(t, "remove") /\ ~Found(t)
  /\ Decide(t, 0)
  /\ UNCHANGED <<nodeVars, rcuVars, driverVars, historyVars, rcuspin,
                 op, key, p_prev, p_next, n, p_new_node>>

\* rcu_list_add(), rcu_list_try_add(): allocate, then link
AddNewNode(t) ==
  /\ Arrived(t, "add") /\ ~Found(t)
  /\ \E x \in DataNodes :
       /\ NewNode(t, x, key[t], Hash(key[t]), p_next[t])
       /\ p_new_node' = [p_new_node EXCEPT ![t] = x]
  /\ Goto(t, "update")
  /\ UNCHANGED <<rcu, driverVars, historyVars, rcuspin,
                 op, key, p_prev, p_next, n, result>>

AddLink(t) ==
  /\ pc[t] = "update" /\ op[t] = "add"
  /\ Publish(t)
  /\ Decide(t, 1)
  /\ UNCHANGED <<val, removed, bkt, rcuVars, driverVars, rcuspin,
                 op, key, p_prev, p_next, n, p_new_node>>

\* rcu_list_remove(), rcu_list_try_remove(): read n, then unlink; the flag
\* removed is not used here
RemoveFound(t) ==
  /\ Arrived(t, "remove") /\ Found(t)
  /\ Goto(t, "succ")
  /\ UNCHANGED <<nodeVars, rcuVars, driverVars, historyVars, rcuspin,
                 op, key, p_prev, p_next, n, p_new_node, result>>

RemoveUnlink(t) ==
  /\ pc[t] = "update" /\ op[t] = "remove"
  /\ Unlink(t)
  /\ Decide(t, 1)
  /\ UNCHANGED <<val, removed, bkt, rcuVars, driverVars, rcuspin,
                 op, key, p_prev, p_next, n, p_new_node>>

\* rcu_read_unlock() of a lookup
ReaderUnlock(t) ==
  /\ pc[t] = "unlock" /\ op[t] = "contains"
  /\ rcu_read_unlock(t)
  /\ seen' = [seen EXCEPT ![t] = {}]
  /\ Goto(t, "ret")
  /\ UNCHANGED <<nodeVars, driverVars, obs, rcuspin,
                 op, key, p_prev, p_next, n, p_new_node, result>>

\* no spin_unlock() where there is nothing to do
FaultyWriterUnlock(t) ==
  /\ pc[t] = "unlock" /\ op[t] # "contains"
  /\ rcuspin' = IF result[t] = 0 THEN rcuspin
                                 ELSE [rcuspin EXCEPT ![Hash(key[t])] = NULL]
  /\ seen' = [seen EXCEPT ![t] = {}]
  /\ Goto(t, IF op[t] = "remove" /\ result[t] = 1 THEN "free" ELSE "ret")
  /\ UNCHANGED <<nodeVars, rcuVars, driverVars, obs,
                 op, key, p_prev, p_next, n, p_new_node, result>>

\* spin_unlock() of an update; a removed node is freed after it
WriterUnlock(t) ==
  /\ pc[t] = "unlock" /\ op[t] # "contains"
  /\ rcuspin' = [rcuspin EXCEPT ![Hash(key[t])] = NULL]
  /\ seen' = [seen EXCEPT ![t] = {}]
  /\ Goto(t, IF op[t] = "remove" /\ result[t] = 1 THEN "free" ELSE "ret")
  /\ UNCHANGED <<nodeVars, rcuVars, driverVars, obs,
                 op, key, p_prev, p_next, n, p_new_node, result>>

\* rcu_free_node(p_next), after the lock was released
Free(t) ==
  /\ pc[t] = "free"
  /\ kfree_rcu(p_next[t])
  /\ Goto(t, "ret")
  /\ UNCHANGED <<val, link, removed, bkt, rcu, driverVars, historyVars, rcuspin,
                 op, key, p_prev, p_next, n, p_new_node, result>>

Finish(t) == Return(t) /\ UNCHANGED rcuspin

-----------------------------------------------------------------------------
Init == ListInit /\ rcuspin = [b \in Buckets |-> NULL]

\* rcu_list_contains(), rcu_list_[try_]add() and rcu_list_[try_]remove() past
\* their first step.
Traverse(t) == (Deref(t) \/ Advance(t) \/ ReadSucc(t)) /\ UNCHANGED rcuspin

Contains(t) == ContainsDone(t) \/ ReaderUnlock(t)

Add(t) == NothingToAdd(t) \/ AddNewNode(t) \/ AddLink(t)

Remove(t) == NothingToRemove(t) \/ RemoveFound(t) \/ RemoveUnlink(t) \/ Free(t)

\* Steps of a call in progress that do not wait.
Step(t) ==
  \/ Traverse(t) \/ Contains(t) \/ Add(t) \/ Remove(t)
  \/ WriterUnlock(t) \/ TryFails(t) \/ Finish(t)

Kernel == \E x \in DataNodes : Reclaim(x) /\ UNCHANGED rcuspin

Next ==
  \/ \E k \in Keys : HalfFill(k) /\ UNCHANGED rcuspin
  \/ \E t \in Threads, k \in Keys :
       \/ BeginLookup(t, k)
       \/ \E o \in {"add", "remove"} : BeginUpdate(t, o, k)
  \/ \E t \in Threads : Lock(t) \/ Step(t)
  \/ Kernel

\* The kernel's spin locks queue their waiters, so a thread that waits for one
\* that is released again and again gets it.
Fairness ==
  /\ \A t \in Threads : WF_vars(Step(t)) /\ SF_vars(Lock(t))
  /\ WF_vars(Kernel)

Spec == Init /\ [][Next]_vars /\ Fairness

-----------------------------------------------------------------------------
\* Types of the nodes, the local variables of rcu_list_*() and the bucket locks.
TypeOK ==
  /\ NodeTypeOK /\ LocalTypeOK
  /\ pc \in [Threads -> Labels]
  /\ rcuspin \in [Buckets -> Threads \union {NULL}]

\* t is in the critical section of its bucket's lock.
Spinning(t) ==
  op[t] \in {"add", "remove"} /\ pc[t] \in {"deref", "test", "succ", "update"}

(***************************************************************************)
(* What an updater has read of its bucket stays true until it writes,      *)
(* although it traverses outside any RCU section and validates nothing:    *)
(* from the allocation (or the read of n) on, p_prev, p_next and n are     *)
(* neighbours in the list.  An update that does not hold the lock of its   *)
(* own bucket, or lets go of it early, invalidates it.                     *)
(***************************************************************************)
ViewIsCurrent ==
  \A t \in Threads : Spinning(t) =>
    /\ p_prev[t] \in Live
    /\ pc[t] # "deref" => p_next[t] \in Live /\ link[p_prev[t]] = p_next[t]
    /\ pc[t] = "update" /\ op[t] = "remove" => link[p_next[t]] = n[t]

-----------------------------------------------------------------------------
(***************************************************************************)
(* The inductive invariant behind the safety properties.  An updater needs *)
(* no history: its bucket lock keeps what it read true.  A lookup relies,  *)
(* as in the other lists, on the nodes it may have seen since it started.  *)
(***************************************************************************)
\* t is between spin_lock() and spin_unlock().
Holds(t) == Spinning(t) \/ (op[t] \in {"add", "remove"} /\ pc[t] = "unlock")

\* A bucket lock is held by the one thread that is in its critical section.
Locked ==
  \A t \in Threads, b \in Buckets : rcuspin[b] = t <=> Holds(t) /\ b = Hash(key[t])

\* One call at a time, and an RCU section around the lookups only.
Phase(t) ==
  /\ fill > 0 => pc[t] = "idle"
  /\ pc[t] = "idle" <=> op[t] = "none"
  /\ pc[t] # "idle" => key[t] \in Keys
  /\ pc[t] \in {"lock", "update"} => op[t] \in {"add", "remove"}
  /\ pc[t] = "succ" => op[t] = "remove"
  /\ pc[t] = "free" => op[t] = "remove" /\ result[t] = 1
  /\ rcu[t] = IF op[t] = "contains" /\ pc[t] \in {"deref", "test", "unlock"} THEN 1 ELSE 0

\* Where the pointers of an updater stand, under its lock.
UpdaterStands(t) ==
  Spinning(t) =>
    /\ p_prev[t] \in Live /\ bkt[p_prev[t]] = Hash(key[t]) /\ val[p_prev[t]] < key[t]
    /\ pc[t] # "deref" => p_next[t] = link[p_prev[t]]
    /\ pc[t] = "update" /\ op[t] = "add" => key[t] < val[p_next[t]]
    /\ pc[t] \in {"succ", "update"} /\ op[t] = "remove" => val[p_next[t]] = key[t]
    /\ pc[t] = "update" /\ op[t] = "remove" => n[t] = link[p_next[t]]

\* Where the pointers of a lookup stand, without any lock.
Looking(t) == op[t] = "contains" /\ pc[t] \in {"deref", "test"}

LookupStands(t) ==
  Looking(t) =>
    /\ View(t)
    /\ p_prev[t] \in seen[t] /\ bkt[p_prev[t]] = Hash(key[t]) /\ val[p_prev[t]] < key[t]
    /\ pc[t] = "test" => /\ p_next[t] \in seen[t] /\ bkt[p_next[t]] = Hash(key[t])
                         /\ key[t] < val[p_next[t]] => "absent" \in obs[t]

\* A node not yet linked, or just unlinked, belongs to one thread.
Inserting(t) == op[t] = "add" /\ pc[t] = "update"

Freeing(t) == op[t] = "remove" /\ result[t] = 1 /\ pc[t] \in {"unlock", "free"}

Owns(t) ==
  /\ Inserting(t) => /\ p_new_node[t] \in DataNodes /\ mem[p_new_node[t]] = "private"
                     /\ val[p_new_node[t]] = key[t] /\ link[p_new_node[t]] = p_next[t]
                     /\ bkt[p_new_node[t]] = Hash(key[t])
  /\ Freeing(t) => p_next[t] \in DataNodes /\ mem[p_next[t]] = "unlinked"

Alone ==
  \A t, u \in Threads : t # u =>
    /\ Inserting(t) /\ Inserting(u) => p_new_node[t] # p_new_node[u]
    /\ Freeing(t) /\ Freeing(u) => p_next[t] # p_next[u]

Answered(t) == Decided(t) => WasTrue(t, result[t])

ThreadInv(t) ==
  Phase(t) /\ UpdaterStands(t) /\ LookupStands(t) /\ Owns(t) /\ Recorded(t) /\ Answered(t)

\* All of it: what rcu_list_contains(), _[try_]add() and _[try_]remove() keep
\* true in every step.
Inv == TypeOK /\ SortedLists /\ Locked /\ Alone /\ \A t \in Threads : ThreadInv(t)
=============================================================================
