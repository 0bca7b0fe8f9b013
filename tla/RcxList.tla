------------------------------ MODULE RcxList ------------------------------
(***************************************************************************)
(* The RCX list: updates are hardware transactions that validate what an   *)
(* unprotected traversal found (rcx_list_contains, rcx_list_add,           *)
(* rcx_list_remove in rcx-hash-list.c), and the hash table calls that give *)
(* up on an abort (rcx_hash_list_add/try_add/..., benchmark "forgive") or  *)
(* repeat it until the benchmark's time is over (..._retry_..., "retry").  *)
(*                                                                         *)
(* A transaction is one step: it commits, or it aborts without effect.  It *)
(* aborts when its validation calls _xabort, and may abort at any time for *)
(* reasons of the hardware (conflict, capacity, interrupt).                *)
(***************************************************************************)
EXTENDS SortedList

ASSUME BenchmarksAssumption == Benchmarks \subseteq {"forgive", "retry"}

VARIABLE expired          \* benchmark_endtime() = 1

vars == <<listVars, expired>>

Labels == {"idle", "deref", "test", "succ", "update", "unlock", "free", "ret"}

-----------------------------------------------------------------------------
\* rcx_hash_list_*(): choose the bucket, RCU_READER_LOCK(), start at p_head.
Begin(t, o, k) ==
  /\ Call(t, o, k)
  /\ rcu_read_lock(t)
  /\ StartAt(t, k)
  /\ UNCHANGED <<nodeVars, gp, p_next, n, p_new_node, result, expired>>

\* The outcome is decided; RCU_READER_UNLOCK() comes next.
Decide(t, r) ==
  /\ result' = [result EXCEPT ![t] = r]
  /\ Goto(t, "unlock")

\* rcx_list_contains(): result = (v == val)
ContainsDone(t) ==
  /\ Arrived(t, "contains")
  /\ Decide(t, IF Found(t) THEN 1 ELSE 0)
  /\ UNCHANGED <<nodeVars, rcuVars, driverVars, historyVars, expired,
                 op, key, p_prev, p_next, n, p_new_node>>

\* rcx_list_add(): the value is there already, result = 0
AddPresent(t) ==
  /\ Arrived(t, "add") /\ Found(t)
  /\ Decide(t, 0)
  /\ UNCHANGED <<nodeVars, rcuVars, driverVars, historyVars, expired,
                 op, key, p_prev, p_next, n, p_new_node>>

\* rcx_list_add(): allocate and initialise the node to insert
AddNewNode(t) ==
  /\ Arrived(t, "add") /\ ~Found(t)
  /\ \E x \in DataNodes :
       /\ NewNode(t, x, key[t], Hash(key[t]), p_next[t])
       /\ p_new_node' = [p_new_node EXCEPT ![t] = x]
  /\ Goto(t, "update")
  /\ UNCHANGED <<rcu, driverVars, historyVars, expired,
                 op, key, p_prev, p_next, n, result>>

FaultyAddValid(t) == link[p_prev[t]] = p_next[t]
FaultyAddOverwrites(t) == removed[p_prev[t]] = 0 /\ removed[p_next[t]] = 0

\* What the transaction of rcx_list_add() checks before it writes.
AddValid(t) ==
  /\ link[p_prev[t]] = p_next[t]
  /\ removed[p_prev[t]] = 0 /\ removed[p_next[t]] = 0

AddCommit(t) ==
  /\ pc[t] = "update" /\ op[t] = "add"
  /\ AddValid(t)
  /\ Publish(t)
  /\ Decide(t, 1)
  /\ UNCHANGED <<val, removed, bkt, rcuVars, driverVars, expired,
                 op, key, p_prev, p_next, n, p_new_node>>

\* _xabort in the validation, or an abort by the hardware
TxAbort(t) ==
  /\ pc[t] = "update"
  /\ Decide(t, ABORTED)
  /\ UNCHANGED <<nodeVars, rcuVars, driverVars, historyVars, expired,
                 op, key, p_prev, p_next, n, p_new_node>>

\* rcx_list_remove(): the value is absent; returns without RCU_READER_UNLOCK()
RemoveAbsent(t) ==
  /\ Arrived(t, "remove") /\ ~Found(t)
  /\ result' = [result EXCEPT ![t] = 0]
  /\ seen' = [seen EXCEPT ![t] = {}]
  /\ Goto(t, "ret")
  /\ UNCHANGED <<nodeVars, rcuVars, driverVars, obs, expired,
                 op, key, p_prev, p_next, n, p_new_node>>

RemoveFound(t) ==
  /\ Arrived(t, "remove") /\ Found(t)
  /\ Goto(t, "succ")
  /\ UNCHANGED <<nodeVars, rcuVars, driverVars, historyVars, expired,
                 op, key, p_prev, p_next, n, p_new_node, result>>

FaultyRemoveValid(t) == TRUE

\* What the transaction of rcx_list_remove() checks before it writes.
RemoveValid(t) ==
  /\ removed[p_prev[t]] = 0 /\ removed[p_next[t]] = 0 /\ removed[n[t]] = 0
  /\ link[p_prev[t]] = p_next[t] /\ link[p_next[t]] = n[t]

RemoveCommit(t) ==
  /\ pc[t] = "update" /\ op[t] = "remove"
  /\ RemoveValid(t)
  /\ Unlink(t)
  /\ removed' = [removed EXCEPT ![p_next[t]] = 1]
  /\ Decide(t, 1)
  /\ UNCHANGED <<val, bkt, rcuVars, driverVars, expired,
                 op, key, p_prev, p_next, n, p_new_node>>

\* RCU_READER_UNLOCK(), and kfree() of the node an aborted add did not insert
Unlock(t) ==
  /\ pc[t] = "unlock"
  /\ rcu_read_unlock(t)
  /\ mem' = IF op[t] = "add" /\ result[t] = ABORTED
            THEN [mem EXCEPT ![p_new_node[t]] = "free"] ELSE mem
  /\ seen' = [seen EXCEPT ![t] = {}]
  /\ Goto(t, IF op[t] = "remove" /\ result[t] = 1 THEN "free" ELSE "ret")
  /\ UNCHANGED <<val, link, removed, bkt, driverVars, obs, expired,
                 op, key, p_prev, p_next, n, p_new_node, result>>

FaultyFreeForgotten(t) ==
  /\ pc[t] = "free"
  /\ Goto(t, "ret")
  /\ UNCHANGED <<nodeVars, rcuVars, driverVars, historyVars, expired,
                 op, key, p_prev, p_next, n, p_new_node, result>>

\* rcx_free_node(p_next), after the critical section
Free(t) ==
  /\ pc[t] = "free"
  /\ kfree_rcu(p_next[t])
  /\ Goto(t, "ret")
  /\ UNCHANGED <<val, link, removed, bkt, rcu, driverVars, historyVars, expired,
                 op, key, p_prev, p_next, n, p_new_node, result>>

FaultyRetriesNow(t) == bench = "retry" /\ result[t] = ABORTED

\* rcx_hash_list_retry_add/remove(): an aborted update is issued again while
\* benchmark_endtime() != 1.
RetriesNow(t) == bench = "retry" /\ result[t] = ABORTED /\ ~expired

Retry(t) ==
  /\ pc[t] = "ret" /\ RetriesNow(t)
  /\ rcu_read_lock(t)
  /\ StartAt(t, key[t])
  /\ result' = [result EXCEPT ![t] = 0]
  /\ UNCHANGED <<nodeVars, gp, driverVars, obs, expired,
                 op, key, p_next, n, p_new_node>>

\* The call returns: 0, or -1 for an abort that is given up.
Finish(t) == ~RetriesNow(t) /\ Return(t) /\ UNCHANGED expired

\* The benchmark's time is over.
EndTime ==
  /\ bench = "retry" /\ ~expired
  /\ expired' = TRUE
  /\ UNCHANGED listVars

-----------------------------------------------------------------------------
Init == ListInit /\ expired = FALSE

\* Steps of a call in progress.
Step(t) ==
  \/ /\ \/ Deref(t) \/ Advance(t) \/ ReadSucc(t)
     /\ UNCHANGED expired
  \/ ContainsDone(t) \/ AddPresent(t) \/ AddNewNode(t) \/ AddCommit(t)
  \/ TxAbort(t) \/ RemoveAbsent(t) \/ RemoveFound(t) \/ RemoveCommit(t)
  \/ Unlock(t) \/ Free(t) \/ Retry(t) \/ Finish(t)

Kernel == \E x \in DataNodes : Reclaim(x) /\ UNCHANGED expired

Next ==
  \/ \E k \in Keys : HalfFill(k) /\ UNCHANGED expired
  \/ \E t \in Threads : \/ \E o \in OpNames, k \in Keys : Begin(t, o, k)
                        \/ Step(t)
  \/ Kernel
  \/ EndTime

\* A call in progress gets processor time, grace periods end and time passes.
Fairness ==
  /\ \A t \in Threads : WF_vars(Step(t))
  /\ WF_vars(Kernel)
  /\ WF_vars(EndTime)

Spec == Init /\ [][Next]_vars /\ Fairness

-----------------------------------------------------------------------------
\* Types of the nodes, the local variables of rcx_list_*(), the labels of their steps and the clock.
TypeOK ==
  /\ NodeTypeOK /\ LocalTypeOK
  /\ pc \in [Threads -> Labels]
  /\ expired \in BOOLEAN

-----------------------------------------------------------------------------
(***************************************************************************)
(* The inductive invariant behind the safety properties.  Its heart is the *)
(* history variable seen: the nodes that were in a list at some moment of  *)
(* t's traversal.  Nothing in it can be freed, following p_next never      *)
(* leaves it, and every gap and every hit the traversal may meet in it was *)
(* real at some moment of the call.                                        *)
(***************************************************************************)
Traversing(t) == pc[t] \in {"deref", "test", "succ", "update"}

\* The threads start after the half fill, and work on one call at a time.
Phases ==
  /\ fill > 0 => \A t \in Threads : pc[t] = "idle"
  /\ \A t \in Threads :
       /\ pc[t] = "idle" <=> op[t] = "none"
       /\ pc[t] # "idle" => key[t] \in Keys
       /\ pc[t] = "succ" => op[t] = "remove"
       /\ pc[t] = "update" => op[t] \in {"add", "remove"}
       /\ pc[t] = "free" => op[t] = "remove" /\ result[t] = 1

RemovedFlag ==
  \A x \in Node : /\ mem[x] \in {"private", "live"} => removed[x] = 0
                  /\ Stale(x) => removed[x] = 1

\* RCU sections are open where pointers are used, and keep nodes allocated.
Protected ==
  \A t \in Threads :
    /\ rcu[t] >= 0
    /\ (Traversing(t) \/ pc[t] = "unlock") => rcu[t] > 0
    /\ Traversing(t) => ViewProtected(t)

\* p_next leads upwards and stays among the nodes seen.
SeenClosed == \A t \in Threads : Traversing(t) => ViewClosed(t)

\* The memberships recorded explain whatever the traversal can meet.
Witnessed ==
  \A t \in Threads : Recorded(t) /\ (Traversing(t) => ViewWitnessed(t))

\* Where the local pointers of a traversal stand.
Cursor ==
  \A t \in Threads : Traversing(t) =>
    /\ p_prev[t] \in seen[t] /\ bkt[p_prev[t]] = Hash(key[t])
    /\ val[p_prev[t]] < key[t]
    /\ pc[t] # "deref" => /\ p_next[t] \in seen[t]
                          /\ bkt[p_next[t]] = Hash(key[t])
    /\ pc[t] = "test" /\ key[t] < val[p_next[t]] => "absent" \in obs[t]
    /\ pc[t] = "update" /\ op[t] = "add" => key[t] < val[p_next[t]]
    /\ pc[t] \in {"succ", "update"} /\ op[t] = "remove" => val[p_next[t]] = key[t]
    /\ pc[t] = "update" /\ op[t] = "remove" => n[t] \in seen[t]

\* A node not yet linked, or just unlinked, belongs to one thread.
Inserting(t) ==
  /\ op[t] = "add"
  /\ pc[t] = "update" \/ (pc[t] = "unlock" /\ result[t] = ABORTED)

Freeing(t) == op[t] = "remove" /\ result[t] = 1 /\ pc[t] \in {"unlock", "free"}

Owned ==
  /\ \A t \in Threads :
       /\ Inserting(t) => p_new_node[t] \in DataNodes /\ mem[p_new_node[t]] = "private"
       /\ Inserting(t) /\ pc[t] = "update" =>
            /\ val[p_new_node[t]] = key[t] /\ link[p_new_node[t]] = p_next[t]
            /\ bkt[p_new_node[t]] = Hash(key[t])
       /\ Freeing(t) => p_next[t] \in DataNodes /\ mem[p_next[t]] = "unlinked"
  /\ \A t, u \in Threads : t # u =>
       /\ Inserting(t) /\ Inserting(u) => p_new_node[t] # p_new_node[u]
       /\ Freeing(t) /\ Freeing(u) => p_next[t] # p_next[u]

\* All of it: what rcx_list_contains/add/remove() keep true in every step.
Inv ==
  /\ TypeOK /\ SortedLists /\ Phases /\ RemovedFlag /\ Protected /\ SeenClosed
  /\ Witnessed /\ Cursor /\ Owned /\ Linearizable
=============================================================================
