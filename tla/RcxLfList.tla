----------------------------- MODULE RcxLfList -----------------------------
(***************************************************************************)
(* The RCX list with a locking fallback: an update is a hardware           *)
(* transaction, and becomes a critical section of the bucket's spin lock   *)
(* after LF_RETRY_LIMIT aborts (rcx_list_lf_add, rcx_list_lf_remove,       *)
(* benchmark "rcuhtm"), or after the first abort that the processor does   *)
(* not advise to retry (rcx_list_fb1_add, rcx_list_fb1_remove, "hwa").     *)
(*                                                                         *)
(* A transaction reads the lock, so it commits only while the lock is free *)
(* and an acquisition aborts it.                                           *)
(***************************************************************************)
EXTENDS SortedList

CONSTANT LF_RETRY_LIMIT

ASSUME FallbackAssumption == /\ Benchmarks \subseteq {"rcuhtm", "hwa"}
                             /\ LF_RETRY_LIMIT \in Nat

VARIABLES
  rcuspin,           \* rcuspin[b]: holder of the lock of bucket b, or NULL
  retries,           \* local variable of lf_add and lf_remove
  path               \* path[t]: "htm" or "lock", the code path t executes

fallbackVars == <<rcuspin, retries, path>>
vars == <<listVars, fallbackVars>>

Labels == {"idle", "enter", "fallback", "lock", "deref", "test", "wait", "succ",
           "update", "unlock", "free", "ret"}

\* fallback by abort reason (fb1) instead of by count (lf)
FB1 == bench = "hwa"

Taken(t) == rcuspin[Hash(key[t])] # NULL

-----------------------------------------------------------------------------
\* rcx_hash_list_contains()
BeginLookup(t, k) ==
  /\ Call(t, "contains", k)
  /\ rcu_read_lock(t)
  /\ StartAt(t, k)
  /\ UNCHANGED <<nodeVars, gp, p_next, n, p_new_node, result, fallbackVars>>

\* rcx_hash_list_lf_add/remove(), rcx_hash_list_fb1_add/remove()
BeginUpdate(t, o, k) ==
  /\ Call(t, o, k)
  /\ retries' = [retries EXCEPT ![t] = 0]
  /\ path' = [path EXCEPT ![t] = "htm"]
  /\ Goto(t, "enter")
  /\ UNCHANGED <<nodeVars, rcuVars, p_prev, p_next, n, p_new_node, result, seen,
                 rcuspin>>

\* retries++ > LF_RETRY_LIMIT in lf_add, retries++ >= LF_RETRY_LIMIT in
\* lf_remove
GivesUpHtm(t) ==
  /\ ~FB1
  /\ IF op[t] = "add" THEN retries[t] > LF_RETRY_LIMIT
                      ELSE retries[t] >= LF_RETRY_LIMIT

\* retries is not incremented
FaultyEnterHtm(t) ==
  /\ pc[t] = "enter" /\ ~GivesUpHtm(t)
  /\ rcu_read_lock(t)
  /\ StartAt(t, key[t])
  /\ UNCHANGED <<nodeVars, gp, driverVars, obs, fallbackVars,
                 op, key, p_next, n, p_new_node, result>>

\* retry: or htm_path: RCU_READER_LOCK(), and traverse for a transaction
EnterHtm(t) ==
  /\ pc[t] = "enter" /\ ~GivesUpHtm(t)
  /\ rcu_read_lock(t)
  /\ retries' = IF FB1 THEN retries ELSE [retries EXCEPT ![t] = @ + 1]
  /\ StartAt(t, key[t])
  /\ UNCHANGED <<nodeVars, gp, driverVars, obs, rcuspin, path,
                 op, key, p_next, n, p_new_node, result>>

\* lf_remove also enters the fallback outside the RCU section
FaultyEnterLock(t) ==
  /\ \/ pc[t] = "enter" /\ GivesUpHtm(t)
     \/ pc[t] = "fallback"
  /\ IF op[t] = "remove" THEN UNCHANGED rcu ELSE rcu_read_lock(t)
  /\ retries' = [retries EXCEPT ![t] = 0]
  /\ path' = [path EXCEPT ![t] = "lock"]
  /\ Goto(t, "lock")
  /\ UNCHANGED <<nodeVars, gp, driverVars, historyVars, rcuspin,
                 op, key, p_prev, p_next, n, p_new_node, result>>

\* The fallback: lf takes RCU_READER_LOCK() before the decision, fb1_add at
\* locking_path; fb1_remove does not take it.
EnterLock(t) ==
  /\ \/ pc[t] = "enter" /\ GivesUpHtm(t)
     \/ pc[t] = "fallback"
  /\ IF FB1 /\ op[t] = "remove" THEN UNCHANGED rcu ELSE rcu_read_lock(t)
  /\ retries' = [retries EXCEPT ![t] = 0]
  /\ path' = [path EXCEPT ![t] = "lock"]
  /\ Goto(t, "lock")
  /\ UNCHANGED <<nodeVars, gp, driverVars, historyVars, rcuspin,
                 op, key, p_prev, p_next, n, p_new_node, result>>

\* RCU_WRITER_LOCK(p_list->rcuspin)
Lock(t) ==
  /\ pc[t] = "lock" /\ ~Taken(t)
  /\ rcuspin' = [rcuspin EXCEPT ![Hash(key[t])] = t]
  /\ StartAt(t, key[t])
  /\ UNCHANGED <<nodeVars, rcuVars, driverVars, obs, retries, path,
                 op, key, p_next, n, p_new_node, result>>

Decide(t, r, label) ==
  /\ result' = [result EXCEPT ![t] = r]
  /\ Goto(t, label)

\* rcx_list_contains(): result = (v == val)
ContainsDone(t) ==
  /\ Arrived(t, "contains")
  /\ Decide(t, IF Found(t) THEN 1 ELSE 0, "unlock")
  /\ UNCHANGED <<nodeVars, rcuVars, driverVars, historyVars, fallbackVars,
                 op, key, p_prev, p_next, n, p_new_node>>

NothingToAdd(t) ==
  /\ Arrived(t, "add") /\ Found(t)
  /\ Decide(t, 0, "unlock")
  /\ UNCHANGED <<nodeVars, rcuVars, driverVars, historyVars, fallbackVars,
                 op, key, p_prev, p_next, n, p_new_node>>

NothingToRemove(t) ==
  /\ Arrived(t, "remove") /\ ~Found(t)
  /\ Decide(t, 0, "unlock")
  /\ UNCHANGED <<nodeVars, rcuVars, driverVars, historyVars, fallbackVars,
                 op, key, p_prev, p_next, n, p_new_node>>

AddNewNode(t) ==
  /\ Arrived(t, "add") /\ ~Found(t)
  /\ \E x \in DataNodes :
       /\ NewNode(t, x, key[t], Hash(key[t]), p_next[t])
       /\ p_new_node' = [p_new_node EXCEPT ![t] = x]
  /\ Goto(t, IF path[t] = "htm" THEN "wait" ELSE "update")
  /\ UNCHANGED <<rcu, driverVars, historyVars, fallbackVars,
                 op, key, p_prev, p_next, n, result>>

RemoveFound(t) ==
  /\ Arrived(t, "remove") /\ Found(t)
  /\ Goto(t, IF path[t] = "htm" THEN "wait" ELSE "succ")
  /\ UNCHANGED <<nodeVars, rcuVars, driverVars, historyVars, fallbackVars,
                 op, key, p_prev, p_next, n, p_new_node, result>>

\* while (spin_is_locked(&p_list->rcuspin)) ;
LockSeenFree(t) ==
  /\ pc[t] = "wait" /\ ~Taken(t)
  /\ Goto(t, IF op[t] = "add" THEN "update" ELSE "succ")
  /\ UNCHANGED <<nodeVars, rcuVars, driverVars, historyVars, fallbackVars,
                 op, key, p_prev, p_next, n, p_new_node, result>>

FaultyAddUnsubscribed(t) ==
  /\ link[p_prev[t]] = p_next[t]
  /\ removed[p_prev[t]] = 0 /\ removed[p_next[t]] = 0
FaultyRemoveValid(t) == ~Taken(t)

\* What the transactions check before they write.
AddValid(t) ==
  /\ ~Taken(t)
  /\ link[p_prev[t]] = p_next[t]
  /\ removed[p_prev[t]] = 0 /\ removed[p_next[t]] = 0

RemoveValid(t) ==
  /\ ~Taken(t)
  /\ removed[p_prev[t]] = 0 /\ removed[p_next[t]] = 0 /\ removed[n[t]] = 0
  /\ link[p_prev[t]] = p_next[t] /\ link[p_next[t]] = n[t]

\* The update of add, in a transaction or under the lock
AddCommit(t) ==
  /\ pc[t] = "update" /\ op[t] = "add"
  /\ path[t] = "htm" => AddValid(t)
  /\ Publish(t)
  /\ Decide(t, 1, "unlock")
  /\ UNCHANGED <<val, removed, bkt, rcuVars, driverVars, fallbackVars,
                 op, key, p_prev, p_next, n, p_new_node>>

\* The transaction of remove; fb1 frees the node inside the RCU section
RemoveCommit(t) ==
  /\ pc[t] = "update" /\ op[t] = "remove" /\ path[t] = "htm"
  /\ RemoveValid(t)
  /\ Unlink(t)
  /\ removed' = [removed EXCEPT ![p_next[t]] = 1]
  /\ Decide(t, 1, IF FB1 THEN "free" ELSE "unlock")
  /\ UNCHANGED <<val, bkt, rcuVars, driverVars, fallbackVars,
                 op, key, p_prev, p_next, n, p_new_node>>

\* marks no node
FaultyRemoveLocked(t) ==
  /\ pc[t] = "update" /\ op[t] = "remove" /\ path[t] = "lock"
  /\ Unlink(t)
  /\ Decide(t, 1, "unlock")
  /\ UNCHANGED <<val, removed, bkt, rcuVars, driverVars, fallbackVars,
                 op, key, p_prev, p_next, n, p_new_node>>

\* remove under the lock marks the successor of the node it unlinks
RemoveLocked(t) ==
  /\ pc[t] = "update" /\ op[t] = "remove" /\ path[t] = "lock"
  /\ Unlink(t)
  /\ removed' = [removed EXCEPT ![n[t]] = 1]
  /\ Decide(t, 1, "unlock")
  /\ UNCHANGED <<val, bkt, rcuVars, driverVars, fallbackVars,
                 op, key, p_prev, p_next, n, p_new_node>>

\* An abort: RCU_READER_UNLOCK(), kfree() of the new node; lf tries again, fb1
\* tries again if the processor set _XABORT_RETRY, which it never does for an
\* _xabort of the validation.
TxAbort(t, label) ==
  /\ pc[t] = "update" /\ path[t] = "htm"
  /\ label \in (IF FB1 THEN {"enter", "fallback"} ELSE {"enter"})
  /\ rcu_read_unlock(t)
  /\ mem' = IF op[t] = "add" THEN [mem EXCEPT ![p_new_node[t]] = "free"] ELSE mem
  /\ seen' = [seen EXCEPT ![t] = {}]
  /\ Goto(t, label)
  /\ UNCHANGED <<val, link, removed, bkt, driverVars, obs, fallbackVars,
                 op, key, p_prev, p_next, n, p_new_node, result>>

\* RCU_WRITER_UNLOCK(p_list->rcuspin)
WriterUnlock(t) ==
  /\ pc[t] = "unlock" /\ rcuspin[Hash(key[t])] = t
  /\ rcuspin' = [rcuspin EXCEPT ![Hash(key[t])] = NULL]
  /\ UNCHANGED <<listVars, retries, path>>

FreesInside(t) == FB1 /\ path[t] = "htm"

\* RCU_READER_UNLOCK()
ReaderUnlock(t) ==
  /\ pc[t] = "unlock" /\ rcuspin[Hash(key[t])] # t
  /\ rcu_read_unlock(t)
  /\ seen' = [seen EXCEPT ![t] = {}]
  /\ Goto(t, IF op[t] = "remove" /\ result[t] = 1 /\ ~FreesInside(t)
             THEN "free" ELSE "ret")
  /\ UNCHANGED <<nodeVars, driverVars, obs, fallbackVars,
                 op, key, p_prev, p_next, n, p_new_node, result>>

\* rcx_free_node(p_next)
Free(t) ==
  /\ pc[t] = "free"
  /\ kfree_rcu(p_next[t])
  /\ Goto(t, IF FreesInside(t) THEN "unlock" ELSE "ret")
  /\ UNCHANGED <<val, link, removed, bkt, rcu, driverVars, historyVars, fallbackVars,
                 op, key, p_prev, p_next, n, p_new_node, result>>

Finish(t) ==
  /\ Return(t)
  /\ retries' = [retries EXCEPT ![t] = 0]
  /\ path' = [path EXCEPT ![t] = "htm"]
  /\ UNCHANGED rcuspin

-----------------------------------------------------------------------------
Init ==
  /\ ListInit
  /\ rcuspin = [b \in Buckets |-> NULL]
  /\ retries = [t \in Threads |-> 0]
  /\ path = [t \in Threads |-> "htm"]

Traverse(t) == (Deref(t) \/ Advance(t) \/ ReadSucc(t)) /\ UNCHANGED fallbackVars

\* rcx_list_lf_add() and rcx_list_fb1_add()
Add(t) == NothingToAdd(t) \/ AddNewNode(t) \/ AddCommit(t)

\* rcx_list_lf_remove() and rcx_list_fb1_remove()
Remove(t) ==
  \/ NothingToRemove(t) \/ RemoveFound(t) \/ RemoveCommit(t) \/ RemoveLocked(t)
  \/ Free(t)

Step(t) ==
  \/ EnterHtm(t) \/ EnterLock(t) \/ Traverse(t) \/ ContainsDone(t) \/ Add(t)
  \/ Remove(t) \/ LockSeenFree(t) \/ TxAbort(t, "enter") \/ TxAbort(t, "fallback")
  \/ WriterUnlock(t) \/ ReaderUnlock(t) \/ Finish(t)

Kernel == \E x \in DataNodes : Reclaim(x) /\ UNCHANGED fallbackVars

Next ==
  \/ \E k \in Keys : HalfFill(k) /\ UNCHANGED fallbackVars
  \/ \E t \in Threads, k \in Keys :
       \/ BeginLookup(t, k)
       \/ \E o \in {"add", "remove"} : BeginUpdate(t, o, k)
  \/ \E t \in Threads : Lock(t) \/ Step(t)
  \/ Kernel

\* The kernel's spin locks queue their waiters; nothing is assumed about when
\* transactions commit.
Fairness ==
  /\ \A t \in Threads : WF_vars(Step(t)) /\ SF_vars(Lock(t))
  /\ WF_vars(Kernel)

Spec == Init /\ [][Next]_vars /\ Fairness

-----------------------------------------------------------------------------
\* Types of the nodes, the local variables and the bucket locks; retries of lf_add/lf_remove
\* never goes more than one past LF_RETRY_LIMIT.
TypeOK ==
  /\ NodeTypeOK /\ LocalTypeOK
  /\ pc \in [Threads -> Labels]
  /\ rcuspin \in [Buckets -> Threads \union {NULL}]
  /\ retries \in [Threads -> 0 .. LF_RETRY_LIMIT + 1]
  /\ path \in [Threads -> {"htm", "lock"}]

(***************************************************************************)
(* The critical section of the fallback excludes the transactions: what it *)
(* has read of the list is still so when it writes, without validation.    *)
(***************************************************************************)
LockExcludesHtm ==
  \A t \in Threads :
    path[t] = "lock" /\ pc[t] \in {"deref", "test", "succ", "update"} =>
      /\ p_prev[t] \in Live
      /\ pc[t] # "deref" => p_next[t] \in Live /\ link[p_prev[t]] = p_next[t]
      /\ pc[t] = "update" /\ op[t] = "remove" => link[p_next[t]] = n[t]

(***************************************************************************)
(* A transaction whose view goes through a node that was unlinked since,   *)
(* by a transaction or under the lock, does not commit.  remove under the  *)
(* lock leaves the flag of its own node at 0 and marks the successor: the  *)
(* validation then fails on the successor, because a stale node keeps      *)
(* pointing to it.                                                         *)
(***************************************************************************)
StaleViewRejected ==
  \A t \in Threads :
    pc[t] = "update" /\ path[t] = "htm" /\ (Stale(p_prev[t]) \/ Stale(p_next[t])) =>
      IF op[t] = "add" THEN ~AddValid(t) ELSE ~RemoveValid(t)

(***************************************************************************)
(* In rcx_list_lf_add() and rcx_list_lf_remove() every pointer is used     *)
(* inside exactly one RCU section, whichever path leads there, and between *)
(* two calls a thread is in none and owes none.  (rcx_list_fb1_remove()    *)
(* does not keep this: see EnterLock.)                                     *)
(***************************************************************************)
SectionsPaired ==
  ~FB1 => \A t \in Threads :
            /\ pc[t] = "idle" => rcu[t] = 0
            /\ Touches(t) # {} /\ pc[t] # "free" => rcu[t] = 1

\* A call of rcx_list_lf_add() or rcx_list_lf_remove() returns even if every
\* transaction aborts, because the fallback lock is taken in the end.
\* (rcx_list_fb1_*() may repeat a transaction as long as it is advised to.)
FallbackEndsCall == \A t \in Threads : ~FB1 /\ pc[t] # "idle" ~> pc[t] = "idle"

-----------------------------------------------------------------------------
(***************************************************************************)
(* The inductive invariants behind these properties.  SectionInv is that   *)
(* of SectionsPaired, in every kernel build.  Inv relies on the views of   *)
(* the traversals, and so on an RCU section that protects them: Protecting *)
(* excludes "hwa" under PREEMPT_RCU, where rcx_list_fb1_remove() leaves a  *)
(* section that it did not enter.                                          *)
(***************************************************************************)
Protecting == CallIsReader \/ (PREEMPT_RCU /\ Benchmarks \subseteq {"rcuhtm"})

\* lf enters a section before its traversal and leaves it after its answer.
Sectioned(t) ==
  /\ pc[t] = "fallback" => FB1
  /\ ~FB1 => rcu[t] = IF pc[t] \in {"idle", "enter", "free", "ret"} THEN 0 ELSE 1

\* What RCU_READER_LOCK() and RCU_READER_UNLOCK() in lf_add and lf_remove keep true.
SectionInv ==
  /\ pc \in [Threads -> Labels] /\ rcu \in [Threads -> Int]
  /\ \A t \in Threads : Sectioned(t)

\* t's pointers come from a traversal that is not over.
Viewing(t) == pc[t] \in {"deref", "test", "wait", "succ", "update"}

\* One call at a time, on the transaction's path until it falls back.
Phase(t) ==
  /\ fill > 0 => pc[t] = "idle"
  /\ pc[t] = "idle" <=> op[t] = "none"
  /\ pc[t] # "idle" => key[t] \in Keys
  /\ pc[t] \in {"enter", "fallback", "lock", "wait", "update"} => op[t] \in {"add", "remove"}
  /\ pc[t] \in {"succ", "free"} => op[t] = "remove"
  /\ pc[t] = "free" => result[t] = 1
  /\ pc[t] \in {"idle", "enter", "fallback", "wait"} \/ op[t] = "contains" => path[t] = "htm"
  /\ pc[t] = "lock" => path[t] = "lock"

\* The lock of a bucket is held by the one thread in its critical section.
Holder(t) ==
  /\ \A b \in Buckets : rcuspin[b] = t =>
       path[t] = "lock" /\ b = Hash(key[t]) /\ (Viewing(t) \/ pc[t] = "unlock")
  /\ path[t] = "lock" /\ Viewing(t) => rcuspin[Hash(key[t])] = t

\* A node of the view that was unlinked is marked, or its successor is.
ViewMarked(t) ==
  \A x \in seen[t] : Stale(x) => removed[x] = 1 \/ removed[link[x]] = 1

\* Where the pointers of a call stand, in a view that may be stale.
Cursor(t) ==
  Viewing(t) =>
    /\ View(t) /\ ViewMarked(t)
    /\ p_prev[t] \in seen[t] /\ bkt[p_prev[t]] = Hash(key[t]) /\ val[p_prev[t]] < key[t]
    /\ pc[t] # "deref" => p_next[t] \in seen[t] /\ bkt[p_next[t]] = Hash(key[t])
    /\ pc[t] = "test" /\ key[t] < val[p_next[t]] => "absent" \in obs[t]
    /\ pc[t] \in {"wait", "update"} /\ op[t] = "add" => key[t] < val[p_next[t]]
    /\ pc[t] \in {"wait", "succ", "update"} /\ op[t] = "remove" => val[p_next[t]] = key[t]
    /\ pc[t] = "update" /\ op[t] = "remove" => n[t] \in seen[t]

\* The lock keeps what its holder has read true.
LockCursor(t) ==
  path[t] = "lock" /\ Viewing(t) =>
    /\ p_prev[t] \in Live
    /\ pc[t] # "deref" => p_next[t] = link[p_prev[t]]
    /\ pc[t] = "update" /\ op[t] = "remove" => n[t] = link[p_next[t]]

\* A node not yet linked, or just unlinked, belongs to one thread.
Inserting(t) == op[t] = "add" /\ pc[t] \in {"wait", "update"}

Freeing(t) ==
  \/ pc[t] = "free"
  \/ pc[t] = "unlock" /\ op[t] = "remove" /\ result[t] = 1 /\ ~FreesInside(t)

Owns(t) ==
  /\ Inserting(t) => /\ p_new_node[t] \in DataNodes /\ mem[p_new_node[t]] = "private"
                     /\ val[p_new_node[t]] = key[t] /\ link[p_new_node[t]] = p_next[t]
                     /\ bkt[p_new_node[t]] = Hash(key[t])
  /\ Freeing(t) => p_next[t] \in DataNodes /\ mem[p_next[t]] = "unlinked"

Alone ==
  \A t, u \in Threads : t # u =>
    /\ Inserting(t) /\ Inserting(u) => p_new_node[t] # p_new_node[u]
    /\ Freeing(t) /\ Freeing(u) => p_next[t] # p_next[u]

Answered(t) == Decided(t) => WasTrue(t, result[t])

ThreadInv(t) ==
  /\ Phase(t) /\ Holder(t) /\ Cursor(t) /\ LockCursor(t) /\ Owns(t)
  /\ Recorded(t) /\ Answered(t)

\* All of it: what rcx_list_lf_*() and rcx_list_fb1_*() keep true in every step.
Inv == TypeOK /\ SortedLists /\ Alone /\ \A t \in Threads : ThreadInv(t)
=============================================================================
