----------------------------- MODULE SortedList -----------------------------
(***************************************************************************)
(* What every list of the repository is built from (hash-list.h): an array *)
(* of buckets, each a linked list of nodes sorted by value between two     *)
(* sentinels, traversed without locks and reclaimed through RCU.  The      *)
(* variants (RcxList, ...) EXTEND this module and add their updaters.      *)
(*                                                                         *)
(* Naming: link is the field p_next of a node; p_prev, p_next, n and       *)
(* p_new_node are the local pointers of the functions, one per thread.     *)
(* The kernel (kmalloc, kfree, kfree_rcu, grace periods) is external and   *)
(* modelled from the way the code uses it.                                 *)
(*                                                                         *)
(* A definition named Faulty... is a plausible mistake in the definition   *)
(* that follows it; no action uses it.  Put in its place, it makes TLC     *)
(* find a violation, which shows that the properties notice the mistake.   *)
(***************************************************************************)
EXTENDS Integers, FiniteSets

CONSTANTS
  Benchmarks,       \* values of the module parameter benchmark that are considered
  Threads,          \* benchmark threads
  Keys,             \* values the benchmark draws, 0 <= k < range
  NBuckets,         \* p_hash_list->n_buckets
  LIST_VAL_MIN,     \* value of a head sentinel
  LIST_VAL_MAX,     \* value of a tail sentinel
  DataNodes,        \* addresses kmalloc can return for a node
  MinNode,          \* MinNode[b]: head sentinel of bucket b
  MaxNode,          \* MaxNode[b]: tail sentinel of bucket b
  NULL,
  PREEMPT_RCU,      \* kernel build: is rcu_read_lock() a real nesting counter?
  KMALLOC_SLEEPS,   \* may kmalloc(GFP_KERNEL) sleep (a context switch)?
  FillOps,          \* bound: insertions before the threads start (range / 2)
  MaxOps            \* bound: operations per thread (the benchmark's duration)

Buckets == 0 .. NBuckets - 1
MinNodes == {MinNode[b] : b \in Buckets}
MaxNodes == {MaxNode[b] : b \in Buckets}
Node == DataNodes \union MinNodes \union MaxNodes

\* HASH_VALUE(p_hash_list, val)
Hash(k) == k % NBuckets

ASSUME BucketsAssumption == NBuckets \in Nat \ {0}
ASSUME BoundsAssumption == FillOps \in Nat /\ MaxOps \in Nat
ASSUME ThreadsAssumption == NULL \notin Threads
ASSUME MemoryAssumption == IsFiniteSet(DataNodes)
ASSUME BuildAssumption == PREEMPT_RCU \in BOOLEAN /\ KMALLOC_SLEEPS \in BOOLEAN
ASSUME ValuesAssumption ==
  /\ Keys \subseteq Nat
  /\ LIST_VAL_MIN \in Int /\ LIST_VAL_MAX \in Int
  /\ LIST_VAL_MIN < LIST_VAL_MAX
  /\ \A k \in Keys : LIST_VAL_MIN < k /\ k < LIST_VAL_MAX
ASSUME SentinelsAssumption ==
  /\ \A b \in Buckets : /\ MinNode[b] \notin DataNodes
                        /\ MaxNode[b] \notin DataNodes
  /\ \A b, c \in Buckets : /\ MinNode[b] # MaxNode[c]
                           /\ MinNode[b] = MinNode[c] => b = c
                           /\ MaxNode[b] = MaxNode[c] => b = c
  /\ NULL \notin Node

\* kmalloc() inside an RCU section ends the section's protection only in a
\* kernel where sleeping is a quiescent state.
SafeBuild == PREEMPT_RCU \/ ~KMALLOC_SLEEPS

\* The builds in which a thread passes no quiescent state inside a call, and is
\* an RCU reader from the call to the return whatever sections it enters.
CallIsReader == ~PREEMPT_RCU /\ ~KMALLOC_SLEEPS

VARIABLES
  \* nodes
  val, link, removed,
  bkt,          \* the bucket whose list a node was allocated for
  mem,          \* life cycle of a node's memory, see MemState
  \* RCU
  rcu,          \* rcu[t]: rcu_read_lock() calls minus rcu_read_unlock() calls
  gp,           \* gp[x]: readers the pending kfree_rcu(x) still waits for
  \* local state of the threads
  pc, op, key, p_prev, p_next, n, p_new_node, result,
  \* driver
  bench,        \* the benchmark that runs, chosen when the module is loaded
  fill,         \* insertions left before the threads start
  ops,          \* operations each thread has started
  \* history variables, read by no guard
  seen,         \* seen[t]: nodes that were in a list since t's traversal began
  obs           \* obs[t]: memberships of key[t] in the table since t's call

nodeVars == <<val, link, removed, bkt, mem>>
rcuVars == <<rcu, gp>>
localVars == <<pc, op, key, p_prev, p_next, n, p_new_node, result>>
driverVars == <<bench, fill, ops>>
historyVars == <<seen, obs>>
listVars == <<nodeVars, rcuVars, localVars, driverVars, historyVars>>

(***************************************************************************)
(* free -> private (kmalloc) -> live (linked) -> unlinked -> deferred      *)
(* (kfree_rcu called) -> free (grace period over); private -> free (kfree) *)
(***************************************************************************)
MemState == {"free", "private", "live", "unlinked", "deferred"}
Live == {x \in Node : mem[x] = "live"}

\* What the hash table holds: the abstract set.
Contents == {val[x] : x \in {y \in DataNodes : mem[y] = "live"}}

Membership(k) == IF k \in Contents THEN "present" ELSE "absent"

OpNames == {"contains", "add", "remove"}

\* result of an update that was given up
ABORTED == 2

-----------------------------------------------------------------------------
(* RCU, as the code uses it (external: linux/rcupdate.h) *)

\* A thread a grace period that starts now has to wait for.  Without
\* PREEMPT_RCU rcu_read_lock() is a no-op and a thread passes a quiescent
\* state when it is rescheduled, which the driver does between operations.
Reader(t) == IF PREEMPT_RCU THEN rcu[t] > 0 ELSE pc[t] # "idle"

Quiesce(t) == gp' = [x \in Node |-> gp[x] \ {t}]

rcu_read_lock(t) == rcu' = [rcu EXCEPT ![t] = @ + 1]

rcu_read_unlock(t) ==
  /\ rcu' = [rcu EXCEPT ![t] = @ - 1]
  /\ IF PREEMPT_RCU /\ rcu[t] <= 1 THEN Quiesce(t) ELSE gp' = gp

\* kfree() in place of kfree_rcu()
FaultyFree(x) == mem' = [mem EXCEPT ![x] = "free"] /\ gp' = gp

\* kfree_rcu(x, rcu): x is freed once every current reader has left.
kfree_rcu(x) ==
  /\ mem' = [mem EXCEPT ![x] = "deferred"]
  /\ gp' = [gp EXCEPT ![x] = {u \in Threads : Reader(u)}]

\* The grace period of a pending kfree_rcu(x) ends.
Reclaim(x) ==
  /\ mem[x] = "deferred" /\ gp[x] = {}
  /\ mem' = [mem EXCEPT ![x] = "free"]
  /\ UNCHANGED <<val, link, removed, bkt, rcuVars, localVars, driverVars,
                 historyVars>>

-----------------------------------------------------------------------------
(* Nodes *)

\* rcx_new_node() and the two assignments that follow it in every add.
NewNode(t, x, v, b, successor) ==
  /\ mem[x] = "free"
  /\ mem' = [mem EXCEPT ![x] = "private"]
  /\ val' = [val EXCEPT ![x] = v]
  /\ link' = [link EXCEPT ![x] = successor]
  /\ removed' = [removed EXCEPT ![x] = 0]
  /\ bkt' = [bkt EXCEPT ![x] = b]
  \* kmalloc(GFP_KERNEL): a sleep is a quiescent state unless RCU counts
  /\ IF SafeBuild THEN gp' = gp ELSE Quiesce(t)

\* The membership of t's key becomes b: every pending call for that key saw it.
Observe(t, b) ==
  obs' = [u \in Threads |->
            IF op[u] # "none" /\ key[u] = key[t] THEN obs[u] \union {b}
                                                 ELSE obs[u]]

\* RCU_ASSIGN_PTR(p_prev->p_next, p_new_node)
Publish(t) ==
  /\ link' = [link EXCEPT ![p_prev[t]] = p_new_node[t]]
  /\ mem' = [mem EXCEPT ![p_new_node[t]] = "live"]
  /\ seen' = [u \in Threads |-> IF seen[u] = {} THEN {}
                                ELSE seen[u] \union {p_new_node[t]}]
  /\ Observe(t, "present")

\* RCU_ASSIGN_PTR(p_prev->p_next, n)
Unlink(t) ==
  /\ link' = [link EXCEPT ![p_prev[t]] = n[t]]
  /\ mem' = [mem EXCEPT ![p_next[t]] = "unlinked"]
  /\ Observe(t, "absent")
  /\ UNCHANGED seen

-----------------------------------------------------------------------------
(* Steps every variant shares *)

Goto(t, label) == pc' = [pc EXCEPT ![t] = label]

\* sync_test_init() half fills the table before it starts the threads; alone,
\* so one insertion is one step, and an aborted one is simply repeated.
FillWith(k) ==
  /\ fill' = fill - 1
  /\ \/ /\ k \in Contents
        /\ UNCHANGED nodeVars
     \/ /\ k \notin Contents
        /\ \E x \in DataNodes, p \in Live :
             /\ mem[x] = "free"
             /\ bkt[p] = Hash(k) /\ val[p] < k /\ k < val[link[p]]
             /\ mem' = [mem EXCEPT ![x] = "live"]
             /\ val' = [val EXCEPT ![x] = k]
             /\ link' = [link EXCEPT ![x] = link[p], ![p] = x]
             /\ removed' = [removed EXCEPT ![x] = 0]
             /\ bkt' = [bkt EXCEPT ![x] = Hash(k)]
  /\ UNCHANGED <<rcuVars, localVars, bench, ops, historyVars>>

HalfFill(k) == fill > 0 /\ FillWith(k)

\* The driver calls operation o on value k; the variant's action goes on.
Call(t, o, k) ==
  /\ fill = 0 /\ pc[t] = "idle" /\ ops[t] < MaxOps
  /\ ops' = [ops EXCEPT ![t] = @ + 1]
  /\ op' = [op EXCEPT ![t] = o]
  /\ key' = [key EXCEPT ![t] = k]
  /\ obs' = [obs EXCEPT ![t] = {Membership(k)}]
  /\ UNCHANGED <<bench, fill>>

\* A traversal for value k starts: p_prev = p_list->p_head.
StartAt(t, k) ==
  /\ p_prev' = [p_prev EXCEPT ![t] = MinNode[Hash(k)]]
  /\ seen' = [seen EXCEPT ![t] = Live]
  /\ Goto(t, "deref")

\* p_next = RCU_DEREF(p_prev->p_next)
Deref(t) ==
  /\ pc[t] = "deref"
  /\ p_next' = [p_next EXCEPT ![t] = link[p_prev[t]]]
  /\ Goto(t, "test")
  /\ UNCHANGED <<nodeVars, rcuVars, driverVars, historyVars,
                 op, key, p_prev, n, p_new_node, result>>

\* stops at v > val instead of v >= val
FaultyAdvance(t) ==
  /\ pc[t] = "test" /\ val[p_next[t]] <= key[t]
  /\ p_prev' = [p_prev EXCEPT ![t] = p_next[t]]
  /\ Goto(t, "deref")
  /\ UNCHANGED <<nodeVars, rcuVars, driverVars, historyVars,
                 op, key, p_next, n, p_new_node, result>>

\* The node read is still before the value: p_prev = p_next and go on.
Advance(t) ==
  /\ pc[t] = "test" /\ val[p_next[t]] < key[t]
  /\ p_prev' = [p_prev EXCEPT ![t] = p_next[t]]
  /\ Goto(t, "deref")
  /\ UNCHANGED <<nodeVars, rcuVars, driverVars, historyVars,
                 op, key, p_next, n, p_new_node, result>>

\* The traversal of an operation o stopped at p_next->val >= val.
Arrived(t, o) == pc[t] = "test" /\ op[t] = o /\ val[p_next[t]] >= key[t]

Found(t) == val[p_next[t]] = key[t]

\* n = RCU_DEREF(p_next->p_next)
ReadSucc(t) ==
  /\ pc[t] = "succ"
  /\ n' = [n EXCEPT ![t] = link[p_next[t]]]
  /\ Goto(t, "update")
  /\ UNCHANGED <<nodeVars, rcuVars, driverVars, historyVars,
                 op, key, p_prev, p_next, p_new_node, result>>

\* The call returns to the driver, whose cond_resched() is a quiescent state.
Return(t) ==
  /\ pc[t] = "ret"
  /\ Goto(t, "idle")
  /\ op' = [op EXCEPT ![t] = "none"]
  /\ key' = [key EXCEPT ![t] = LIST_VAL_MIN]
  /\ p_prev' = [p_prev EXCEPT ![t] = NULL]
  /\ p_next' = [p_next EXCEPT ![t] = NULL]
  /\ n' = [n EXCEPT ![t] = NULL]
  /\ p_new_node' = [p_new_node EXCEPT ![t] = NULL]
  /\ result' = [result EXCEPT ![t] = 0]
  /\ obs' = [obs EXCEPT ![t] = {}]
  /\ seen' = [seen EXCEPT ![t] = {}]
  /\ IF PREEMPT_RCU THEN gp' = gp ELSE Quiesce(t)
  /\ UNCHANGED <<nodeVars, rcu, driverVars>>

\* rcx_new_hash_list(): every bucket holds its two sentinels; no thread runs.
ListInit ==
  /\ val = [x \in Node |-> IF x \in MinNodes THEN LIST_VAL_MIN ELSE LIST_VAL_MAX]
  /\ link = [x \in Node |-> IF x \in MinNodes
                            THEN MaxNode[CHOOSE b \in Buckets : MinNode[b] = x]
                            ELSE NULL]
  /\ removed = [x \in Node |-> 0]
  /\ bkt = [x \in Node |->
              IF x \in DataNodes THEN 0
              ELSE CHOOSE b \in Buckets : x \in {MinNode[b], MaxNode[b]}]
  /\ mem = [x \in Node |-> IF x \in DataNodes THEN "free" ELSE "live"]
  /\ rcu = [t \in Threads |-> 0]
  /\ gp = [x \in Node |-> {}]
  /\ pc = [t \in Threads |-> "idle"]
  /\ op = [t \in Threads |-> "none"]
  /\ key = [t \in Threads |-> LIST_VAL_MIN]
  /\ p_prev = [t \in Threads |-> NULL]
  /\ p_next = [t \in Threads |-> NULL]
  /\ n = [t \in Threads |-> NULL]
  /\ p_new_node = [t \in Threads |-> NULL]
  /\ result = [t \in Threads |-> 0]
  /\ bench \in Benchmarks
  /\ fill = FillOps
  /\ ops = [t \in Threads |-> 0]
  /\ seen = [t \in Threads |-> {}]
  /\ obs = [t \in Threads |-> {}]

-----------------------------------------------------------------------------
(* Properties of every variant *)

Ptr == Node \union {NULL}

NodeTypeOK ==
  /\ val \in [Node -> Keys \union {LIST_VAL_MIN, LIST_VAL_MAX}]
  /\ link \in [Node -> Ptr]
  /\ removed \in [Node -> {0, 1}]
  /\ bkt \in [Node -> Buckets]
  /\ mem \in [Node -> MemState]
  /\ gp \in [Node -> SUBSET Threads]

LocalTypeOK ==
  /\ rcu \in [Threads -> Int]
  /\ op \in [Threads -> OpNames \union {"none"}]
  /\ key \in [Threads -> Keys \union {LIST_VAL_MIN}]
  /\ p_prev \in [Threads -> Ptr]
  /\ p_next \in [Threads -> Ptr]
  /\ n \in [Threads -> Ptr]
  /\ p_new_node \in [Threads -> Ptr]
  /\ result \in [Threads -> 0..2]
  /\ bench \in Benchmarks
  /\ fill \in 0..FillOps
  /\ ops \in [Threads -> 0..MaxOps]
  /\ seen \in [Threads -> SUBSET Node]
  /\ obs \in [Threads -> SUBSET {"present", "absent"}]

\* Nodes a walk along the p_next pointers from the list heads visits.
Reachable ==
  LET Walk[i \in 0..Cardinality(Node)] ==
        IF i = 0 THEN MinNodes
        ELSE Walk[i - 1] \union {link[x] : x \in Walk[i - 1] \ MaxNodes}
  IN  Walk[Cardinality(Node)]

(***************************************************************************)
(* The set each thread may rely on is the set a reader sees: the nodes in  *)
(* the lists are exactly those whose insertion was committed and whose     *)
(* removal was not.  A lost insertion (linked behind an unlinked node) or  *)
(* a resurrected node violates it.                                         *)
(***************************************************************************)
NoLostUpdate == Reachable = Live

\* The parts of SortedLists.
Sentinels ==
  \A b \in Buckets :
    /\ mem[MinNode[b]] = "live" /\ val[MinNode[b]] = LIST_VAL_MIN /\ bkt[MinNode[b]] = b
    /\ mem[MaxNode[b]] = "live" /\ val[MaxNode[b]] = LIST_VAL_MAX /\ bkt[MaxNode[b]] = b

Ascending ==
  \A x \in Live \ MaxNodes :
    /\ link[x] \in Live /\ bkt[link[x]] = bkt[x]
    /\ val[x] < val[link[x]]

NoneBetween ==
  \A x, y \in Live : bkt[x] = bkt[y] /\ val[x] < val[y] => val[link[x]] <= val[y]

NoDuplicate == \A x, y \in Live : bkt[x] = bkt[y] /\ val[x] = val[y] => x = y

InItsBucket == \A x \in DataNodes : mem[x] = "live" => val[x] \in Keys /\ bkt[x] = Hash(val[x])

(***************************************************************************)
(* The lists are sorted, so that stopping at the first node not below the  *)
(* value, as every traversal does, misses nothing: p_next leads to the     *)
(* least greater value of the bucket, and no value occurs twice.           *)
(***************************************************************************)
SortedLists == Sentinels /\ Ascending /\ NoneBetween /\ NoDuplicate /\ InItsBucket

\* The answer r to t's call was true at some moment of the call.
WasTrue(t, r) ==
  /\ op[t] = "contains" /\ r = 1 => "present" \in obs[t]
  /\ op[t] = "contains" /\ r # 1 => "absent" \in obs[t]
  /\ op[t] = "add" /\ r = 0 => "present" \in obs[t]
  /\ op[t] = "remove" /\ r = 0 => "absent" \in obs[t]

\* Out of the list, but still in memory.
Stale(x) == mem[x] \in {"unlinked", "deferred"}

(***************************************************************************)
(* A node that was unlinked keeps its p_next until its memory is freed:    *)
(* the readers still standing on it find their way back into the list, and *)
(* no update is lost behind it.                                            *)
(***************************************************************************)
StaleNodesFrozen ==
  [][\A x \in Node : Stale(x) /\ Stale(x)' => link'[x] = link[x]]_listVars

(***************************************************************************)
(* What a traversal outside any lock may rely on, in terms of the history  *)
(* variable seen, the nodes that were in a list at some moment of it.      *)
(***************************************************************************)

\* The nodes of the lists are among them, and t's RCU section keeps them.
ViewProtected(t) ==
  /\ Live \subseteq seen[t]
  /\ \A x \in seen[t] : \/ mem[x] \in {"live", "unlinked"}
                        \/ mem[x] = "deferred" /\ t \in gp[x]

\* p_next leads upwards and stays among them.
ViewClosed(t) ==
  \A x \in seen[t] \ MaxNodes :
    link[x] \in seen[t] /\ bkt[link[x]] = bkt[x] /\ val[x] < val[link[x]]

\* Every hit and every gap in them was real at some moment of the call.
ViewWitnessed(t) ==
  \A x \in seen[t] : bkt[x] = Hash(key[t]) =>
    /\ val[x] = key[t] => "present" \in obs[t]
    /\ x \notin MaxNodes /\ val[x] < key[t] /\ key[t] < val[link[x]]
         => "absent" \in obs[t]

View(t) == ViewProtected(t) /\ ViewClosed(t) /\ ViewWitnessed(t)

\* The present membership of t's key is among those recorded for its call.
Recorded(t) ==
  /\ op[t] # "none" /\ key[t] \in Contents => "present" \in obs[t]
  /\ op[t] # "none" /\ key[t] \notin Contents => "absent" \in obs[t]

\* Nodes that the next step of t dereferences.
Touches(t) ==
  CASE pc[t] = "deref" -> {p_prev[t]}
    [] pc[t] \in {"test", "succ"} -> {p_next[t]}
    [] pc[t] = "update" /\ op[t] = "add" -> {p_prev[t], p_next[t], p_new_node[t]}
    [] pc[t] = "update" /\ op[t] = "remove" -> {p_prev[t], p_next[t], n[t]}
    [] pc[t] = "free" -> {p_next[t]}
    [] OTHER -> {}

(***************************************************************************)
(* No thread dereferences a node whose memory was given back: the RCU      *)
(* section around traversal, transaction and validation covers every       *)
(* pointer that the code still uses.                                       *)
(***************************************************************************)
NoUseAfterFree == \A t \in Threads : \A x \in Touches(t) : mem[x] # "free"

\* A node is handed to kfree_rcu() once, by the one thread that unlinked it
\* (the situation the code calls ABORT_DOUBLE_FREE).
FreedOnce == \A t \in Threads : pc[t] = "free" => mem[p_next[t]] = "unlinked"

\* The outcome of t's call is known.
Decided(t) == pc[t] \in {"unlock", "free", "ret"}

(***************************************************************************)
(* What the calls return is linearizable: "found" only if the value was in *)
(* the set, "absent" only if it was not, at some moment of the call, also  *)
(* when the traversal ran through nodes that were unlinked meanwhile.      *)
(***************************************************************************)
Linearizable == \A t \in Threads : Decided(t) => WasTrue(t, result[t])

\* Every call returns when the other threads have used up their calls: no lock
\* stays taken, no thread waits for itself or in a circle, and an update that
\* was aborted or found invalid is not repeated for ever.
CallsReturn == \A t \in Threads : pc[t] # "idle" ~> pc[t] = "idle"

\* Every removed node is freed in the end.
RemovedIsFreed == \A x \in DataNodes : mem[x] = "unlinked" ~> mem[x] = "free"

reply == [t \in Threads |-> IF Decided(t) THEN result[t] ELSE -1]

Abstract == INSTANCE ConcurrentSet WITH NoKey <- LIST_VAL_MIN, set <- Contents

(***************************************************************************)
(* The list implements the abstract set: its contents are the values of    *)
(* the live nodes, and a call has its answer once result is decided.       *)
(***************************************************************************)
ImplementsSet == Abstract!Spec
=============================================================================
