------------------------ MODULE RcxHtmLockListProofs ------------------------
(***************************************************************************)
(* Machine-checked proofs about RcxHtmLockList, for any number of threads, *)
(* NUMA nodes, keys, buckets and nodes, in the kernel builds where a call  *)
(* is an RCU reader by itself (CallIsReader).                              *)
(***************************************************************************)
EXTENDS RcxHtmLockList, SortedListProofs

-----------------------------------------------------------------------------
(* The nodes an update locks *)

\* Two nodes for an add, three for a remove.
LEMMA SpotsShape ==
  ASSUME NEW t \in Threads
  PROVE  /\ op[t] = "add" => /\ Len(Spots(t)) = 2 /\ DOMAIN Spots(t) = 1..2
                             /\ Spots(t)[1] = p_prev[t] /\ Spots(t)[2] = p_next[t]
                             /\ SpotSet(t) = {p_prev[t], p_next[t]}
         /\ op[t] # "add" => /\ Len(Spots(t)) = 3 /\ DOMAIN Spots(t) = 1..3
                             /\ Spots(t)[1] = p_prev[t] /\ Spots(t)[2] = p_next[t]
                             /\ Spots(t)[3] = n[t]
                             /\ SpotSet(t) = {p_prev[t], p_next[t], n[t]}
<1>1. CASE op[t] = "add"
  <2>1. Spots(t) = <<p_prev[t], p_next[t]>>
    BY <1>1 DEF Spots
  <2>2. /\ Len(Spots(t)) = 2 /\ DOMAIN Spots(t) = 1..2
        /\ Spots(t)[1] = p_prev[t] /\ Spots(t)[2] = p_next[t]
    BY <2>1
  <2>3. SpotSet(t) = {p_prev[t], p_next[t]}
    <3>1. \A i \in 1..2 : i = 1 \/ i = 2
      OBVIOUS
    <3>2. QED
      BY <2>2, <3>1 DEF SpotSet
  <2>4. QED
    BY <1>1, <2>2, <2>3
<1>2. CASE op[t] # "add"
  <2>1. Spots(t) = <<p_prev[t], p_next[t], n[t]>>
    BY <1>2 DEF Spots
  <2>2. /\ Len(Spots(t)) = 3 /\ DOMAIN Spots(t) = 1..3
        /\ Spots(t)[1] = p_prev[t] /\ Spots(t)[2] = p_next[t] /\ Spots(t)[3] = n[t]
    BY <2>1
  <2>3. SpotSet(t) = {p_prev[t], p_next[t], n[t]}
    <3>1. \A i \in 1..3 : i = 1 \/ i = 2 \/ i = 3
      OBVIOUS
    <3>2. QED
      BY <2>2, <3>1 DEF SpotSet
  <2>4. QED
    BY <1>2, <2>2, <2>3
<1>3. QED
  BY <1>1, <1>2

\* They depend on the local variables of the thread only.
LEMMA SameSpots ==
  ASSUME NEW t \in Threads, op'[t] = op[t], p_prev'[t] = p_prev[t], p_next'[t] = p_next[t],
         n'[t] = n[t]
  PROVE  Spots(t)' = Spots(t) /\ SpotSet(t)' = SpotSet(t)
  BY DEF Spots, SpotSet

\* The pointers of a call are nodes that were in its list since it began.
LEMMA CursorFacts ==
  ASSUME Inv, NEW t \in Threads, Viewing(t)
  PROVE  /\ View(t) /\ seen[t] \subseteq Node /\ key[t] \in Keys /\ key[t] \in Int
         /\ op[t] \in {"contains", "add", "remove"} /\ Hash(key[t]) \in Buckets
         /\ p_prev[t] \in seen[t] \ MaxNodes /\ p_prev[t] \in Node
         /\ bkt[p_prev[t]] = Hash(key[t]) /\ val[p_prev[t]] < key[t] /\ val[p_prev[t]] \in Int
         /\ link[p_prev[t]] \in seen[t] /\ bkt[link[p_prev[t]]] = Hash(key[t])
         /\ key[t] < val[link[p_prev[t]]] => "absent" \in obs[t]
         /\ pc[t] # "deref" => /\ p_next[t] \in seen[t] /\ bkt[p_next[t]] = Hash(key[t])
                               /\ p_next[t] \in Node /\ val[p_next[t]] \in Int
                               /\ val[p_next[t]] = key[t] => "present" \in obs[t]
         /\ pc[t] = "test" /\ key[t] < val[p_next[t]] => "absent" \in obs[t]
<1>1. Phase(t) /\ Cursor(t) /\ NodeTypeOK /\ SortedLists /\ Sentinels
  BY DEF Inv, TypeOK, ThreadInv, SortedLists
<1>2. /\ p_prev[t] \in seen[t] /\ bkt[p_prev[t]] = Hash(key[t])
      /\ val[p_prev[t]] < key[t] /\ key[t] \in Keys /\ View(t) /\ seen[t] \subseteq Node
      /\ pc[t] # "deref" => p_next[t] \in seen[t] /\ bkt[p_next[t]] = Hash(key[t])
      /\ pc[t] = "test" /\ key[t] < val[p_next[t]] => "absent" \in obs[t]
  BY <1>1 DEF Phase, Cursor, Viewing, Inv, TypeOK, LocalTypeOK
<1>3. op[t] \in {"contains", "add", "remove"}
  BY <1>1 DEF Phase, Viewing, Inv, TypeOK, LocalTypeOK, OpNames
<1>4. p_prev[t] \in Node \ MaxNodes /\ key[t] \in Int /\ Hash(key[t]) \in Buckets
      /\ val[p_prev[t]] \in Int
  BY <1>1, <1>2, NodeValues, ConstantFacts
<1>5. link[p_prev[t]] \in seen[t] /\ bkt[link[p_prev[t]]] = Hash(key[t])
  BY <1>1, <1>2, <1>4, ViewStep
<1>6. key[t] < val[link[p_prev[t]]] => "absent" \in obs[t]
  BY <1>2, <1>4 DEF View, ViewWitnessed
<1>7. pc[t] # "deref" => /\ p_next[t] \in Node /\ val[p_next[t]] \in Int
                         /\ val[p_next[t]] = key[t] => "present" \in obs[t]
  BY <1>1, <1>2, NodeValues DEF View, ViewWitnessed
<1>8. QED
  BY <1>2, <1>3, <1>4, <1>5, <1>6, <1>7

\* An update locks nodes of its view, in the order of their values.
LEMMA SpotFacts ==
  ASSUME Inv, NEW t \in Threads, Placed(t)
  PROVE  /\ op[t] \in {"add", "remove"} /\ Viewing(t)
         /\ 1 \in 1..Len(Spots(t)) /\ Len(Spots(t)) \in Nat /\ DOMAIN Spots(t) = 1..Len(Spots(t))
         /\ SpotSet(t) \subseteq seen[t] /\ SpotSet(t) \subseteq Node
         /\ \A i \in 1..Len(Spots(t)) : Spots(t)[i] \in SpotSet(t) /\ val[Spots(t)[i]] \in Int
         /\ \A x \in SpotSet(t) : \E i \in 1..Len(Spots(t)) : Spots(t)[i] = x
         /\ \A i, j \in 1..Len(Spots(t)) : i < j => val[Spots(t)[i]] < val[Spots(t)[j]]
<1>1. Viewing(t) /\ pc[t] # "deref" /\ ThreadInv(t) /\ NodeTypeOK /\ Sentinels
  BY DEF Placed, Viewing, Inv, TypeOK, SortedLists
<1>2. op[t] \in {"add", "remove"} /\ Cursor(t)
  BY <1>1 DEF ThreadInv, Phase
<1>3. /\ p_prev[t] \in seen[t] /\ p_next[t] \in seen[t] /\ seen[t] \subseteq Node
      /\ val[p_prev[t]] < key[t] /\ key[t] \in Int
  BY <1>1, CursorFacts
<1>4. \A x \in Node : val[x] \in Int
  BY <1>1, NodeValues
<1>5. CASE op[t] = "add"
  <2>1. key[t] < val[p_next[t]]
    BY <1>1, <1>2, <1>5 DEF Cursor
  <2>2. \A i \in 1..2 : i = 1 \/ i = 2
    OBVIOUS
  <2>3. val[p_prev[t]] < val[p_next[t]]
    BY <1>3, <1>4, <2>1
  <2>4. SpotSet(t) \subseteq seen[t] /\ SpotSet(t) \subseteq Node
    BY <1>3, <1>5, SpotsShape
  <2>5. QED
    BY <1>1, <1>3, <1>4, <1>5, <2>2, <2>3, <2>4, SpotsShape
<1>6. CASE op[t] = "remove"
  <2>1. n[t] \in seen[t] /\ val[p_next[t]] = key[t] /\ key[t] < val[n[t]]
    BY <1>1, <1>2, <1>6 DEF Cursor
  <2>2. \A i \in 1..3 : i = 1 \/ i = 2 \/ i = 3
    OBVIOUS
  <2>3. val[p_prev[t]] < val[p_next[t]] /\ val[p_next[t]] < val[n[t]] /\ val[p_prev[t]] < val[n[t]]
    BY <1>3, <1>4, <2>1
  <2>4. SpotSet(t) \subseteq seen[t] /\ SpotSet(t) \subseteq Node
    BY <1>3, <1>6, <2>1, SpotsShape
  <2>5. /\ Len(Spots(t)) = 3 /\ DOMAIN Spots(t) = 1..3
        /\ Spots(t)[1] = p_prev[t] /\ Spots(t)[2] = p_next[t] /\ Spots(t)[3] = n[t]
        /\ SpotSet(t) = {p_prev[t], p_next[t], n[t]}
    BY <1>6, SpotsShape
  <2>6. 1 \in 1..3
    OBVIOUS
  <2>7. \A i, j \in 1..3 : i < j => val[Spots(t)[i]] < val[Spots(t)[j]]
    BY <2>2, <2>3, <2>5
  <2>8. QED
    BY <1>1, <1>3, <1>4, <1>6, <2>1, <2>2, <2>4, <2>5, <2>6, <2>7
<1>7. QED
  BY <1>2, <1>5, <1>6

\* A thread that spins has the locks of its first i - 1 nodes and waits for the i-th.
LEMMA SpinFacts ==
  ASSUME Inv, NEW t \in Threads, pc[t] = "spin"
  PROVE  \E i \in 1..Len(Spots(t)) :
           /\ SpinsOn(t) = Spots(t)[i] /\ glock[Spots(t)[i]] # t
           /\ \A x \in Node : glock[x] = t <=> \E j \in 1 .. i - 1 : Spots(t)[j] = x
<1>1. Placed(t) /\ ThreadInv(t)
  BY DEF Placed, Inv
<1>2. PICK i \in 1..Len(Spots(t)) :
        \A x \in Node : glock[x] = t <=> \E j \in 1 .. i - 1 : Spots(t)[j] = x
  BY <1>1 DEF ThreadInv, Holdings
<1>3. /\ \A j \in 1..Len(Spots(t)) : Spots(t)[j] \in Node /\ val[Spots(t)[j]] \in Int
      /\ Len(Spots(t)) \in Nat /\ DOMAIN Spots(t) = 1..Len(Spots(t))
  BY <1>1, SpotFacts
<1>4. \A j \in 1 .. i - 1 : j \in 1..Len(Spots(t)) /\ j < i
  BY <1>3
<1>5. glock[Spots(t)[i]] # t
  <2>1. SUFFICES ASSUME NEW j \in 1 .. i - 1, Spots(t)[j] = Spots(t)[i] PROVE FALSE
    BY <1>2, <1>3
  <2>2. val[Spots(t)[j]] < val[Spots(t)[i]]
    BY <1>1, <1>4, SpotFacts
  <2>3. QED
    BY <1>3, <2>1, <2>2
<1>6. \A j \in 1 .. i - 1 : glock[Spots(t)[j]] = t
  BY <1>2, <1>3, <1>4
<1>7. ASSUME NEW k \in DOMAIN Spots(t), glock[Spots(t)[k]] # t,
             \A j \in 1 .. k - 1 : glock[Spots(t)[j]] = t
      PROVE  k = i
  <2>1. ~(k < i)
    <3>1. k < i => k \in 1 .. i - 1
      BY <1>3
    <3>2. QED
      BY <1>6, <1>7, <3>1
  <2>2. ~(i < k)
    <3>1. i < k => i \in 1 .. k - 1
      BY <1>3
    <3>2. QED
      BY <1>5, <1>7, <3>1
  <2>3. QED
    BY <1>3, <2>1, <2>2
<1>8. (CHOOSE k \in DOMAIN Spots(t) : /\ glock[Spots(t)[k]] # t
                                     /\ \A j \in 1 .. k - 1 : glock[Spots(t)[j]] = t) = i
  BY <1>3, <1>5, <1>6, <1>7
<1>9. SpinsOn(t) = Spots(t)[i]
  BY <1>8 DEF SpinsOn
<1>10. QED
  BY <1>2, <1>5, <1>9

-----------------------------------------------------------------------------
(* What a step of another thread must leave alone *)

\* The step leaves the locks of u alone.
SameLocks(u) ==
  /\ \A x \in Node : glock'[x] = u <=> glock[x] = u
  /\ \A l \in Node \X NumaNodes : pnodelock'[l] = u <=> pnodelock[l] = u

\* The invariant of a thread that does not move.
LEMMA ThreadFrame ==
  ASSUME Inv, NEW u \in Threads, SameThread(u), fill' = fill, bench' = bench, SameLocks(u),
         obs[u] \subseteq obs'[u], Recorded(u)',
         Viewing(u) => /\ View(u)' /\ seen[u] \subseteq seen'[u]
                       /\ \A y \in seen[u] : val'[y] = val[y] /\ bkt'[y] = bkt[y],
         Inserting(u) => LET x == p_new_node[u] IN
           mem'[x] = mem[x] /\ val'[x] = val[x] /\ link'[x] = link[x] /\ bkt'[x] = bkt[x],
         Freeing(u) => mem'[p_next[u]] = mem[p_next[u]]
  PROVE  ThreadInv(u)'
<1> USE DEF SameThread
<1>1. ThreadInv(u)
  BY DEF Inv
<1>2. Phase(u)' /\ Owns(u)'
  BY <1>1 DEF ThreadInv, Phase, Placed, Owns, Inserting, Freeing
<1>3. Cursor(u)'
  BY <1>1 DEF ThreadInv, Cursor, Viewing, Placed
<1>4. Holdings(u)'
  <2>1. Spots(u)' = Spots(u) /\ SpotSet(u)' = SpotSet(u)
    BY SameSpots
  <2>2. /\ \A x \in Node : glock'[x] = u =>
             x \in seen'[u] /\ pc'[u] \in {"spin", "update", "free", "unlock", "backoff"}
        /\ \A l \in Node \X NumaNodes : pnodelock'[l] = u =>
             /\ l[1] \in seen'[u] /\ l[2] = numa_node_id[u] /\ bench' # "rcx-htmlock"
             /\ pc'[u] \in {"gwait", "gtx", "spin", "update", "free", "unlock", "backoff"}
    <3>1. pc[u] \in {"gwait", "gtx", "spin", "update", "free", "unlock", "backoff"} => Viewing(u)
      BY DEF Viewing
    <3>2. QED
      BY <1>1, <3>1 DEF ThreadInv, Holdings, SameLocks
  <2>3. SpotSet(u) \subseteq Node \/ ~Placed(u)
    BY SpotFacts
  <2>4. InCriticalSection(u)' => \A x \in SpotSet(u)' : glock'[x] = u
    BY <1>1, <2>1, <2>3 DEF ThreadInv, Holdings, InCriticalSection, Placed, SameLocks
  <2>5. QED
    BY <1>1, <2>1, <2>2, <2>4 DEF ThreadInv, Holdings, SameLocks
<1>5. Answered(u)'
  BY <1>1 DEF ThreadInv, Answered, Decided, WasTrue
<1>6. QED
  BY <1>2, <1>3, <1>4, <1>5 DEF ThreadInv

\* No thread gets a node to insert or to free.
LEMMA AloneFrame ==
  ASSUME Inv, NEW t \in Threads, SameOthers(t),
         Inserting(t)' => Inserting(t) /\ p_new_node'[t] = p_new_node[t],
         Freeing(t)' => Freeing(t) /\ p_next'[t] = p_next[t]
  PROVE  Alone'
<1>1. \A u \in Threads : /\ Inserting(u)' => Inserting(u) /\ p_new_node'[u] = p_new_node[u]
                         /\ Freeing(u)' => Freeing(u) /\ p_next'[u] = p_next[u]
  BY DEF SameOthers, SameThread, Inserting, Freeing, Placed
<1>2. QED
  BY <1>1 DEF Inv, Alone

\* A step that writes no node and ends nobody's protection.
LEMMA QuietStep ==
  ASSUME Inv, NEW t \in Threads, UNCHANGED nodeVars, fill' = fill, bench' = bench, SameOthers(t),
         \A u \in Threads \ {t} : seen'[u] = seen[u] /\ obs'[u] = obs[u] /\ SameLocks(u),
         \A u \in Threads \ {t}, x \in Node : u \in gp[x] => u \in gp'[x],
         TypeOK', ThreadInv(t)',
         Inserting(t)' => Inserting(t) /\ p_new_node'[t] = p_new_node[t],
         Freeing(t)' => Freeing(t) /\ p_next'[t] = p_next[t]
  PROVE  Inv' /\ Contents' = Contents
<1> USE DEF nodeVars
<1>1. SortedLists' /\ Live' = Live /\ Contents' = Contents
  BY SortedFrame DEF Inv
<1>2. Alone'
  BY AloneFrame
<1>3. RemovedFlag'
  BY DEF Inv, RemovedFlag, Stale
<1>4. ASSUME NEW u \in Threads, u # t PROVE ThreadInv(u)'
  <2>1. ThreadInv(u) /\ SameThread(u) /\ seen'[u] = seen[u] /\ obs'[u] = obs[u] /\ SameLocks(u)
    BY <1>4 DEF Inv, SameOthers
  <2>2. Recorded(u)'
    BY <1>1, <2>1 DEF ThreadInv, Recorded, SameThread
  <2>3. Viewing(u) => View(u)'
    <3>1. SUFFICES ASSUME Viewing(u) PROVE View(u)'
      OBVIOUS
    <3>2. View(u) /\ seen[u] \subseteq Node
      BY <3>1, CursorFacts
    <3>3. key'[u] = key[u]
      BY <2>1 DEF SameThread
    <3>4. QED
      BY <1>1, <1>4, <2>1, <3>2, <3>3, ViewFrame
  <2>4. QED
    BY <1>1, <2>1, <2>2, <2>3, ThreadFrame
<1>5. QED
  BY <1>1, <1>2, <1>3, <1>4 DEF Inv

-----------------------------------------------------------------------------
(* Steps that write no node *)

\* A thread that holds no lock and takes none.
LEMMA NoHoldings ==
  ASSUME Inv, NEW t \in Threads, UNCHANGED lockVars,
         pc[t] \in {"idle", "deref", "test", "succ", "wait", "tx", "again", "ret"},
         pc'[t] \notin {"spin", "update", "free"}
  PROVE  Holdings(t)' /\ \A u \in Threads : SameLocks(u)
<1>1. ThreadInv(t)
  BY DEF Inv
<1>2. /\ \A x \in Node : glock'[x] # t
      /\ \A l \in Node \X NumaNodes : pnodelock'[l] # t
  BY <1>1 DEF ThreadInv, Holdings, lockVars
<1>3. QED
  BY <1>2 DEF Holdings, InCriticalSection, SameLocks, lockVars

\* p_next = RCU_DEREF(p_prev->p_next), and p_prev = p_next while the value is
\* not reached.
LEMMA TraverseInv ==
  ASSUME Inv, NEW t \in Threads, Traverse(t)
  PROVE  Inv' /\ Contents' = Contents
<1> USE DEF Traverse, Deref, Advance, Goto, Inv, TypeOK, LocalTypeOK,
            nodeVars, rcuVars, driverVars, historyVars
<1>1. /\ SameOthers(t) /\ UNCHANGED nodeVars /\ fill' = fill /\ bench' = bench
      /\ \/ pc[t] = "deref" /\ pc'[t] = "test" /\ p_next'[t] = link[p_prev[t]] /\ p_prev' = p_prev
         \/ /\ pc[t] = "test" /\ pc'[t] = "deref" /\ p_prev'[t] = p_next[t] /\ p_next' = p_next
            /\ val[p_next[t]] < key[t]
      /\ UNCHANGED <<rcu, gp, op, key, n, p_new_node, result, seen, obs, lockVars>>
  BY DEF SameOthers, SameThread
<1>2. ThreadInv(t) /\ Live' = Live /\ Contents' = Contents
  BY DEF Live, Contents
<1>3. Viewing(t) /\ Viewing(t)' /\ ~Placed(t) /\ ~Placed(t)'
  BY <1>1 DEF Viewing, Placed
<1>4. Holdings(t)' /\ \A u \in Threads : SameLocks(u)
  BY <1>1, NoHoldings
<1>5. link[p_prev[t]] \in Node
  BY <1>3, CursorFacts
<1>6. TypeOK'
  <2>1. pc' \in [Threads -> Labels]
    BY DEF Labels
  <2>2. p_prev' \in [Threads -> Ptr] /\ p_next' \in [Threads -> Ptr]
    BY <1>5 DEF Ptr
  <2>3. QED
    BY <2>1, <2>2 DEF NodeTypeOK, lockVars
<1>7. ThreadInv(t)'
  <2>1. Phase(t)' /\ Owns(t)' /\ Recorded(t)' /\ Answered(t)'
    BY <1>1, <1>2, <1>3 DEF ThreadInv, Phase, Owns, Inserting, Freeing, Recorded, Answered, Decided
  <2>2. View(t)'
    BY <1>1, <1>2, <1>3, CursorFacts, ViewFrame
  <2>3. Cursor(t)'
    BY <1>1, <1>3, <2>2, CursorFacts DEF Cursor
  <2>4. QED
    BY <1>4, <2>1, <2>3 DEF ThreadInv
<1>8. ~Inserting(t)' /\ ~Freeing(t)'
  BY <1>1 DEF Inserting, Freeing, Placed
<1>9. QED
  BY <1>1, <1>4, <1>6, <1>7, <1>8, QuietStep

\* What a call that arrived knows about its value.
LEMMA ArrivedFacts ==
  ASSUME Inv, NEW t \in Threads, NEW o \in OpNames, Arrived(t, o)
  PROVE  /\ Found(t) => "present" \in obs[t]
         /\ ~Found(t) => "absent" \in obs[t] /\ key[t] < val[p_next[t]]
  BY CursorFacts DEF Arrived, Found, Viewing

\* A remove that met the value reads n and goes for the locks.
LEMMA RemoveReadInv ==
  ASSUME Inv, NEW t \in Threads, RemoveFound(t) \/ RemoveReadSucc(t)
  PROVE  Inv' /\ Contents' = Contents
<1> USE DEF RemoveFound, RemoveReadSucc, Arrived, Found, Goto, Inv, TypeOK, LocalTypeOK,
            nodeVars, rcuVars, driverVars, historyVars
<1>1. /\ SameOthers(t) /\ UNCHANGED nodeVars /\ fill' = fill /\ bench' = bench
      /\ \/ /\ pc[t] = "test" /\ pc'[t] = "succ" /\ n' = n
            /\ op[t] = "remove" /\ val[p_next[t]] = key[t]
         \/ pc[t] = "succ" /\ pc'[t] = "wait" /\ n'[t] = link[p_next[t]]
      /\ UNCHANGED <<rcu, gp, op, key, p_prev, p_next, p_new_node, result, seen, obs, lockVars>>
  BY DEF SameOthers, SameThread
<1>2. /\ ThreadInv(t) /\ Live' = Live /\ Contents' = Contents /\ op[t] = "remove"
      /\ Viewing(t) /\ Viewing(t)' /\ pc[t] # "deref"
  BY <1>1 DEF Live, Contents, ThreadInv, Phase, Viewing
<1>3. val[p_next[t]] = key[t]
  BY <1>1, <1>2 DEF ThreadInv, Cursor
<1>4. Holdings(t)' /\ \A u \in Threads : SameLocks(u)
  BY <1>1, NoHoldings
<1>5. /\ View(t) /\ seen[t] \subseteq Node /\ p_next[t] \in seen[t] /\ key[t] \in Keys
      /\ bkt[p_next[t]] = Hash(key[t])
  BY <1>2, CursorFacts
<1>6. p_next[t] \notin MaxNodes
  BY <1>3, <1>5, NodeValues, ConstantFacts DEF SortedLists
<1>7. /\ link[p_next[t]] \in seen[t] /\ link[p_next[t]] \in Node
      /\ bkt[link[p_next[t]]] = Hash(key[t]) /\ key[t] < val[link[p_next[t]]]
  BY <1>3, <1>5, <1>6, ViewStep
<1>8. TypeOK'
  <2>1. n' \in [Threads -> Ptr]
    BY <1>7 DEF Ptr
  <2>2. pc' \in [Threads -> Labels]
    BY DEF Labels
  <2>3. ops' = ops
    OBVIOUS
  <2>4. QED
    BY <1>1, <2>1, <2>2, <2>3 DEF NodeTypeOK, lockVars
<1>9. ThreadInv(t)'
  <2>1. Phase(t)' /\ Owns(t)' /\ Recorded(t)' /\ Answered(t)'
    BY <1>1, <1>2 DEF ThreadInv, Phase, Placed, Owns, Inserting, Freeing, Recorded, Answered, Decided
  <2>2. View(t)'
    BY <1>1, <1>2, <1>5, ViewFrame
  <2>3. Cursor(t)'
    BY <1>1, <1>2, <1>3, <1>5, <1>7, <2>2 DEF ThreadInv, Cursor, Placed
  <2>4. QED
    BY <1>4, <2>1, <2>3 DEF ThreadInv
<1>10. ~Inserting(t)' /\ ~Freeing(t)'
  BY <1>1, <1>2 DEF Inserting, Freeing
<1>11. QED
  BY <1>1, <1>4, <1>8, <1>9, <1>10, QuietStep

\* A call, or the next attempt of an update, starts at the head of its bucket.
LEMMA StartInv ==
  ASSUME Inv, NEW t \in Threads, NEW k \in Keys, UNCHANGED nodeVars, SameOthers(t),
         bench' = bench, fill' = fill, fill = 0, TypeOK',
         pc[t] \in {"idle", "again"}, pc'[t] = "deref", op'[t] # "none", key'[t] = k,
         p_prev'[t] = MinNode[Hash(k)], seen'[t] = Live,
         k \in Contents => "present" \in obs'[t],
         k \notin Contents => "absent" \in obs'[t],
         \A u \in Threads \ {t} : seen'[u] = seen[u] /\ obs'[u] = obs[u],
         UNCHANGED <<gp, lockVars>>
  PROVE  Inv' /\ Contents' = Contents
<1>1. Live' = Live /\ Contents' = Contents /\ NodeTypeOK /\ SortedLists
  BY DEF Live, Contents, nodeVars, Inv, TypeOK
<1>2. Holdings(t)' /\ \A u \in Threads : SameLocks(u)
  BY NoHoldings
<1>3. /\ MinNode[Hash(k)] \in Live /\ val[MinNode[Hash(k)]] < k
      /\ bkt[MinNode[Hash(k)]] = Hash(k) /\ Live \subseteq Node
  BY <1>1, StartFacts
<1>4. View(t)'
  BY <1>1, ViewStart DEF nodeVars
<1>5. ~Placed(t)'
  BY DEF Placed
<1>6. Cursor(t)'
  BY <1>1, <1>3, <1>4, <1>5 DEF Cursor, nodeVars
<1>7. ~Inserting(t)' /\ ~Freeing(t)'
  BY <1>5 DEF Inserting, Freeing
<1>8. Phase(t)' /\ Owns(t)' /\ Answered(t)'
  BY <1>5, <1>7 DEF Phase, Owns, Answered, Decided
<1>9. Recorded(t)'
  BY <1>1 DEF Recorded
<1>10. ThreadInv(t)'
  BY <1>2, <1>6, <1>8, <1>9 DEF ThreadInv
<1>11. QED
  BY <1>2, <1>7, <1>10, QuietStep

\* RCU_READER_LOCK() and p_prev = p_list->p_head
LEMMA BeginInv ==
  ASSUME Inv, NEW t \in Threads, NEW o \in OpNames, NEW k \in Keys, Begin(t, o, k)
  PROVE  Inv' /\ Contents' = Contents
<1> USE DEF Begin, Call, rcu_read_lock, StartAt, Goto, Inv, TypeOK, LocalTypeOK, lockVars, nodeVars
<1>1. /\ SameOthers(t) /\ UNCHANGED nodeVars /\ fill' = fill /\ bench' = bench
      /\ \A u \in Threads \ {t} : seen'[u] = seen[u] /\ obs'[u] = obs[u]
      /\ fill = 0 /\ pc[t] = "idle" /\ pc'[t] = "deref" /\ op'[t] # "none" /\ key'[t] = k
      /\ p_prev'[t] = MinNode[Hash(k)] /\ seen'[t] = Live /\ obs'[t] = {Membership(k)}
      /\ UNCHANGED <<gp, p_next, n, p_new_node, result, lockVars>>
  BY DEF SameOthers, SameThread, OpNames
<1>2. MinNode[Hash(k)] \in Live /\ Live \subseteq Node
  BY StartFacts
<1>3. TypeOK'
  <2>1. ops'[t] \in 0..MaxOps
    BY BoundsAssumption
  <2>2. ops' \in [Threads -> 0..MaxOps]
    BY <2>1
  <2>3. Membership(k) \in {"present", "absent"}
    BY DEF Membership
  <2>4. rcu' \in [Threads -> Int]
    OBVIOUS
  <2>5. QED
    BY <1>2, <2>2, <2>3, <2>4 DEF NodeTypeOK, Ptr, Labels
<1>4. /\ k \in Contents => "present" \in obs'[t]
      /\ k \notin Contents => "absent" \in obs'[t]
  BY <1>1 DEF Membership
<1> HIDE DEF Begin, Inv
<1>5. QED
  BY <1>1, <1>3, <1>4, StartInv

\* retry: RCU_READER_LOCK() and p_prev = p_list->p_head
LEMMA RetryInv ==
  ASSUME Inv, NEW t \in Threads, Retry(t)
  PROVE  Inv' /\ Contents' = Contents
<1> USE DEF Retry, rcu_read_lock, StartAt, Goto, Inv, TypeOK, LocalTypeOK, lockVars, nodeVars,
            driverVars
<1>1. /\ SameOthers(t) /\ UNCHANGED nodeVars /\ fill' = fill /\ bench' = bench
      /\ \A u \in Threads \ {t} : seen'[u] = seen[u] /\ obs'[u] = obs[u]
      /\ pc[t] = "again" /\ pc'[t] = "deref" /\ op'[t] = op[t] /\ key'[t] = key[t]
      /\ p_prev'[t] = MinNode[Hash(key[t])] /\ seen'[t] = Live /\ obs'[t] = obs[t]
      /\ UNCHANGED <<gp, p_next, n, p_new_node, result, lockVars>>
  BY DEF SameOthers, SameThread
<1>2. ThreadInv(t) /\ key[t] \in Keys /\ op[t] # "none" /\ fill = 0
  BY <1>1, BoundsAssumption DEF ThreadInv, Phase
<1>3. MinNode[Hash(key[t])] \in Live /\ Live \subseteq Node
  BY <1>2, StartFacts
<1>4. TypeOK'
  <2>1. rcu' \in [Threads -> Int]
    OBVIOUS
  <2>2. p_prev' \in [Threads -> Ptr] /\ pc' \in [Threads -> Labels]
    BY <1>3 DEF Ptr, Labels
  <2>3. seen' \in [Threads -> SUBSET Node]
    BY <1>3
  <2>4. QED
    BY <1>1, <2>1, <2>2, <2>3 DEF NodeTypeOK
<1>5. /\ key[t] \in Contents => "present" \in obs'[t]
      /\ key[t] \notin Contents => "absent" \in obs'[t]
  BY <1>1, <1>2 DEF ThreadInv, Recorded
<1> HIDE DEF Retry, Inv
<1>6. QED
  BY <1>1, <1>2, <1>4, <1>5, StartInv

\* The answers that change nothing.
LEMMA AnswerInv ==
  ASSUME Inv, NEW t \in Threads, ContainsDone(t) \/ AddPresent(t) \/ RemoveAbsent(t)
  PROVE  Inv' /\ Contents' = Contents
<1> USE DEF ContainsDone, AddPresent, RemoveAbsent, Decide, Goto, Inv, TypeOK, LocalTypeOK,
            nodeVars, rcuVars, driverVars, historyVars
<1>1. /\ SameOthers(t) /\ UNCHANGED nodeVars /\ fill' = fill /\ bench' = bench
      /\ pc[t] = "test" /\ pc'[t] \in {"unlock", "ret"} /\ result'[t] \in {0, 1}
      /\ UNCHANGED <<rcu, gp, op, key, p_prev, p_next, n, p_new_node, seen, obs, lockVars>>
  BY DEF SameOthers, SameThread, Arrived
<1>2. /\ ThreadInv(t) /\ Live' = Live /\ Contents' = Contents
      /\ Viewing(t) /\ ~Placed(t) /\ ~Placed(t)'
  BY <1>1 DEF Live, Contents, Viewing, Placed
<1>3. Holdings(t)' /\ \A u \in Threads : SameLocks(u)
  BY <1>1, NoHoldings
<1>4. TypeOK'
  <2>1. pc' \in [Threads -> Labels] /\ result' \in [Threads -> 0..2]
    BY DEF Labels
  <2>2. QED
    BY <1>1, <2>1 DEF NodeTypeOK, lockVars
<1>5. WasTrue(t, result[t])'
  BY <1>1, ArrivedFacts DEF WasTrue, Arrived, OpNames
<1>6. ThreadInv(t)'
  <2>1. Phase(t)' /\ Owns(t)' /\ Recorded(t)'
    BY <1>1, <1>2 DEF ThreadInv, Phase, Owns, Inserting, Freeing, Recorded
  <2>2. View(t)'
    BY <1>1, <1>2, CursorFacts, ViewFrame
  <2>3. Cursor(t)'
    BY <1>1, <1>2, <2>2, CursorFacts DEF Cursor
  <2>4. QED
    BY <1>3, <1>5, <2>1, <2>3 DEF ThreadInv, Answered
<1>7. ~Inserting(t)' /\ ~Freeing(t)'
  BY <1>1 DEF Inserting, Freeing, Placed
<1>8. QED
  BY <1>1, <1>3, <1>4, <1>6, <1>7, QuietStep

-----------------------------------------------------------------------------
(* Taking the locks *)

\* A step of t between finding its place and its critical section that changes
\* pc[t], the locks and the RCU count only.
LEMMA LockStep ==
  ASSUME Inv, NEW t \in Threads, LocalsKept(t), UNCHANGED historyVars, gp' = gp,
         rcu' \in [Threads -> Int], \A u \in Threads \ {t} : rcu'[u] = rcu[u],
         Placed(t), pc[t] # "free", NEW label \in Labels, Goto(t, label),
         label \in {"wait", "tx", "gwait", "gtx", "spin", "update"},
         label \in {"gwait", "gtx"} => bench = "rcx-hhtmlock", label = "spin" => bench = "rcx",
         pnodelock' \in [Node \X NumaNodes -> Threads \union {NULL}],
         glock' \in [Node -> Threads \union {NULL}],
         \A u \in Threads \ {t} : SameLocks(u), Holdings(t)'
  PROVE  Inv' /\ Contents' = Contents
<1> USE DEF LocalsKept, Goto, nodeVars, driverVars, historyVars
<1>1. /\ UNCHANGED nodeVars /\ fill' = fill /\ bench' = bench /\ SameOthers(t)
      /\ UNCHANGED <<op, key, p_prev, p_next, n, p_new_node, result, seen, obs>>
      /\ pc'[t] = label /\ pc' \in [Threads -> Labels]
  BY DEF SameOthers, SameThread, Inv, TypeOK
<1>2. ThreadInv(t) /\ Placed(t)' /\ Viewing(t) /\ Viewing(t)'
  BY <1>1 DEF Placed, Viewing, Inv
<1>3. Live' = Live /\ Contents' = Contents
  BY DEF Live, Contents
<1>4. TypeOK'
  BY <1>1 DEF Inv, TypeOK, NodeTypeOK, LocalTypeOK
<1>5. (Inserting(t)' <=> Inserting(t)) /\ ~Freeing(t)' /\ ~Freeing(t)
  BY <1>1, <1>2 DEF Inserting, Freeing
<1>6. ThreadInv(t)'
  <2>1. Phase(t)'
    <3>1. pc[t] # "idle"
      BY DEF Placed
    <3>2. QED
      BY <1>1, <1>2, <3>1 DEF ThreadInv, Phase
  <2>2. Owns(t)' /\ Recorded(t)'
    BY <1>1, <1>2, <1>3, <1>5 DEF ThreadInv, Owns, Recorded
  <2>3. Answered(t)'
    BY <1>1 DEF Answered, Decided
  <2>4. View(t)'
    BY <1>1, <1>2, <1>3, CursorFacts, ViewFrame
  <2>5. Cursor(t)'
    <3>1. pc[t] # "deref"
      BY DEF Placed
    <3>2. QED
      BY <1>1, <1>2, <2>4, <3>1 DEF ThreadInv, Cursor
  <2>6. QED
    BY <2>1, <2>2, <2>3, <2>5 DEF ThreadInv
<1>7. QED
  BY <1>1, <1>4, <1>5, <1>6, QuietStep

\* The loops that wait for lock bytes, and an aborted transaction of the
\* hierarchical version, take no lock.
LEMMA WaitInv ==
  ASSUME CallIsReader, Inv, NEW t \in Threads, Wait(t) \/ GlobalWait(t) \/ GlobalTxAbort(t)
  PROVE  Inv' /\ Contents' = Contents
<1> DEFINE label == IF pc[t] = "wait" THEN "tx" ELSE IF pc[t] = "gwait" THEN "gtx" ELSE "gwait"
<1>1. /\ LocalsKept(t) /\ UNCHANGED <<historyVars, lockVars>> /\ gp' = gp
      /\ pc[t] \in {"wait", "gwait", "gtx"} /\ Goto(t, label)
  BY DEF Wait, GlobalWait, GlobalTxAbort, rcu_read_unlock, CallIsReader, rcuVars
<1>2. rcu' \in [Threads -> Int] /\ \A u \in Threads \ {t} : rcu'[u] = rcu[u]
  BY DEF Wait, GlobalWait, GlobalTxAbort, rcu_read_unlock, rcuVars, Inv, TypeOK, LocalTypeOK
<1>3. /\ Placed(t) /\ pc[t] # "free" /\ label \in {"tx", "gwait", "gtx"} /\ label \in Labels
      /\ ThreadInv(t)
  BY <1>1 DEF Placed, Labels, Inv
<1>4. label \in {"gwait", "gtx"} => bench = "rcx-hhtmlock"
  BY <1>1, <1>3 DEF ThreadInv, Phase
<1>5. \A u \in Threads : SameLocks(u)
  BY <1>1 DEF SameLocks, lockVars
<1>6. pc'[t] = label
  BY <1>1 DEF Goto, Inv, TypeOK
<1>7. Holdings(t)'
  <2>1. seen' = seen /\ bench' = bench
    BY <1>1 DEF historyVars, LocalsKept, driverVars
  <2>2. \A x \in Node : glock[x] # t
    BY <1>1, <1>3 DEF ThreadInv, Holdings
  <2>3. CASE pc[t] = "wait"
    <3>1. \A l \in Node \X NumaNodes : pnodelock[l] # t
      BY <1>3, <2>3 DEF ThreadInv, Holdings
    <3>2. QED
      BY <1>1, <1>3, <1>6, <2>2, <3>1 DEF Holdings, InCriticalSection, lockVars
  <2>4. CASE pc[t] # "wait"
    <3>1. label \in {"gwait", "gtx"}
      BY <1>1, <2>4
    <3>2. QED
      BY <1>1, <1>3, <1>6, <2>1, <2>2, <3>1 DEF ThreadInv, Holdings, InCriticalSection, lockVars
  <2>5. QED
    BY <2>3, <2>4
<1>8. lockVars' = lockVars /\ TypeOK
  BY <1>1 DEF Inv
<1> HIDE DEF label
<1>9. QED
  BY <1>1, <1>2, <1>3, <1>4, <1>5, <1>7, <1>8, LockStep DEF TypeOK, lockVars

\* A transaction sets the global lock bytes, which it found clear.
LEMMA GlobalLocksTaken ==
  ASSUME Inv, NEW t \in Threads, pc[t] \in {"tx", "gtx"}, pc'[t] = "update",
         GlobalLocksFree(t), SetGlobalLocks(t), UNCHANGED <<pnodelock, seen, bench>>,
         op'[t] = op[t], p_prev'[t] = p_prev[t], p_next'[t] = p_next[t], n'[t] = n[t]
  PROVE  /\ Holdings(t)' /\ \A u \in Threads \ {t} : SameLocks(u)
         /\ glock' \in [Node -> Threads \union {NULL}]
<1>1. Placed(t) /\ ThreadInv(t) /\ t # NULL
  BY ThreadsAssumption DEF Placed, Inv
<1>2. SpotSet(t) \subseteq seen[t] /\ SpotSet(t) \subseteq Node
  BY <1>1, SpotFacts
<1>3. \A x \in Node : glock'[x] = IF x \in SpotSet(t) THEN t ELSE glock[x]
  BY DEF SetGlobalLocks
<1>4. \A x \in Node : glock[x] # t
  BY <1>1 DEF ThreadInv, Holdings
<1>5. SpotSet(t)' = SpotSet(t)
  BY SameSpots
<1>6. Holdings(t)'
  <2>1. \A x \in Node : glock'[x] = t => x \in seen[t]
    BY <1>2, <1>3, <1>4
  <2>2. \A l \in Node \X NumaNodes : pnodelock[l] = t =>
          l[1] \in seen[t] /\ l[2] = numa_node_id[t] /\ bench # "rcx-htmlock"
    BY <1>1 DEF ThreadInv, Holdings
  <2>3. \A x \in SpotSet(t)' : glock'[x] = t
    BY <1>2, <1>3, <1>5
  <2>4. QED
    BY <2>1, <2>2, <2>3 DEF Holdings
<1>7. ASSUME NEW u \in Threads \ {t} PROVE SameLocks(u)
  <2>1. \A x \in Node : glock'[x] = u <=> glock[x] = u
    BY <1>2, <1>3, <1>7, ThreadsAssumption DEF GlobalLocksFree
  <2>2. QED
    BY <2>1 DEF SameLocks
<1>8. glock' \in [Node -> Threads \union {NULL}]
  BY DEF SetGlobalLocks, Inv, TypeOK
<1>9. QED
  BY <1>6, <1>7, <1>8

\* A transaction sets the lock bytes of t's NUMA node, which it found clear.
LEMMA NodeLocksTaken ==
  ASSUME Inv, NEW t \in Threads, pc[t] = "tx", pc'[t] \in {"gwait", "spin"}, bench # "rcx-htmlock",
         NodeLocksFree(t), SetNodeLocks(t), UNCHANGED <<glock, seen, bench>>,
         op'[t] = op[t], p_prev'[t] = p_prev[t], p_next'[t] = p_next[t], n'[t] = n[t]
  PROVE  /\ Holdings(t)' /\ \A u \in Threads \ {t} : SameLocks(u)
         /\ pnodelock' \in [Node \X NumaNodes -> Threads \union {NULL}]
<1>1. Placed(t) /\ ThreadInv(t)
  BY DEF Placed, Inv
<1>2. SpotSet(t) \subseteq seen[t] /\ SpotSet(t) \subseteq Node /\ 1 \in 1..Len(Spots(t))
  BY <1>1, SpotFacts
<1>3. \A l \in Node \X NumaNodes :
        pnodelock'[l] = IF l \in {mine(t, x) : x \in SpotSet(t)} THEN t ELSE pnodelock[l]
  BY DEF SetNodeLocks
<1>4. /\ \A x \in Node : glock[x] # t
      /\ \A l \in Node \X NumaNodes : pnodelock[l] # t
  BY <1>1 DEF ThreadInv, Holdings
<1>5. Spots(t)' = Spots(t)
  BY SameSpots
<1>6. Holdings(t)'
  <2>1. \A l \in Node \X NumaNodes : pnodelock'[l] = t => l[1] \in seen[t] /\ l[2] = numa_node_id[t]
    BY <1>2, <1>3, <1>4 DEF mine
  <2>2. \E i \in 1..Len(Spots(t)') :
          \A x \in Node : glock'[x] = t <=> \E j \in 1 .. i - 1 : Spots(t)'[j] = x
    <3>1. 1 .. 1 - 1 = {}
      OBVIOUS
    <3>2. QED
      BY <1>2, <1>4, <1>5, <3>1
  <2>3. QED
    BY <1>4, <2>1, <2>2 DEF Holdings, InCriticalSection
<1>7. ASSUME NEW u \in Threads \ {t} PROVE SameLocks(u)
  <2>1. \A l \in Node \X NumaNodes : pnodelock'[l] = u <=> pnodelock[l] = u
    BY <1>2, <1>3, <1>7, ThreadsAssumption DEF NodeLocksFree
  <2>2. QED
    BY <2>1 DEF SameLocks
<1>8. pnodelock' \in [Node \X NumaNodes -> Threads \union {NULL}]
  BY DEF SetNodeLocks, Inv, TypeOK
<1>9. QED
  BY <1>6, <1>7, <1>8

\* The transactions that take locks.
LEMMA TxLockInv ==
  ASSUME Inv, NEW t \in Threads, TxLock(t) \/ GlobalTxLock(t)
  PROVE  Inv' /\ Contents' = Contents
<1>1. /\ LocalsKept(t) /\ UNCHANGED <<historyVars, rcu, gp>> /\ pc[t] \in {"tx", "gtx"}
      /\ TypeOK /\ rcu \in [Threads -> Int] /\ bench \in Benchmarks
  BY DEF TxLock, GlobalTxLock, rcuVars, Inv, TypeOK, LocalTypeOK
<1>2. /\ Placed(t) /\ pc[t] # "free" /\ UNCHANGED <<seen, bench>>
      /\ op'[t] = op[t] /\ p_prev'[t] = p_prev[t] /\ p_next'[t] = p_next[t] /\ n'[t] = n[t]
  BY <1>1 DEF Placed, LocalsKept, historyVars, driverVars
<1>3. CASE Goto(t, "update") /\ GlobalLocksFree(t) /\ SetGlobalLocks(t) /\ UNCHANGED pnodelock
  <2>1. pc'[t] = "update" /\ "update" \in Labels
    BY <1>1, <1>3 DEF Goto, TypeOK, Labels
  <2>2. /\ Holdings(t)' /\ \A u \in Threads \ {t} : SameLocks(u)
        /\ glock' \in [Node -> Threads \union {NULL}]
    BY <1>1, <1>2, <1>3, <2>1, GlobalLocksTaken
  <2>3. pnodelock' \in [Node \X NumaNodes -> Threads \union {NULL}]
    BY <1>1, <1>3 DEF TypeOK
  <2>4. QED
    BY <1>1, <1>2, <1>3, <2>1, <2>2, <2>3, LockStep
<1>4. ASSUME NEW label \in {"gwait", "spin"}, Goto(t, label), pc[t] = "tx",
             label = "gwait" => bench = "rcx-hhtmlock", label = "spin" => bench = "rcx",
             NodeLocksFree(t), SetNodeLocks(t), UNCHANGED glock
      PROVE  Inv' /\ Contents' = Contents
  <2>1. pc'[t] = label /\ label \in Labels /\ bench # "rcx-htmlock"
    BY <1>1, <1>4 DEF Goto, TypeOK, Labels
  <2>2. /\ Holdings(t)' /\ \A u \in Threads \ {t} : SameLocks(u)
        /\ pnodelock' \in [Node \X NumaNodes -> Threads \union {NULL}]
    BY <1>1, <1>2, <1>4, <2>1, NodeLocksTaken
  <2>3. glock' \in [Node -> Threads \union {NULL}]
    BY <1>1, <1>4 DEF TypeOK
  <2>4. QED
    BY <1>1, <1>2, <1>4, <2>1, <2>2, <2>3, LockStep
<1>5. CASE GlobalTxLock(t)
  BY <1>3, <1>5 DEF GlobalTxLock
<1>6. CASE TxLock(t)
  <2>1. bench \in {"rcx-htmlock", "rcx-hhtmlock", "rcx"}
    BY <1>1, VariantAssumption
  <2>2. CASE bench = "rcx-htmlock"
    BY <1>3, <1>6, <2>2 DEF TxLock
  <2>3. CASE bench = "rcx-hhtmlock"
    BY <1>4, <1>6, <2>3 DEF TxLock
  <2>4. CASE bench = "rcx"
    BY <1>4, <1>6, <2>4 DEF TxLock
  <2>5. QED
    BY <2>1, <2>2, <2>3, <2>4
<1>7. QED
  BY <1>5, <1>6

\* RCU_WRITER_LOCK() of the next node.
LEMMA SpinLockInv ==
  ASSUME Inv, NEW t \in Threads, SpinLock(t)
  PROVE  Inv' /\ Contents' = Contents
<1> DEFINE label == IF SpinsOn(t) = Spots(t)[Len(Spots(t))] THEN "update" ELSE "spin"
<1> DEFINE m == Len(Spots(t))
<1>1. /\ LocalsKept(t) /\ UNCHANGED <<historyVars, rcu, gp, pnodelock>> /\ pc[t] = "spin"
      /\ glock[SpinsOn(t)] = NULL /\ glock' = [glock EXCEPT ![SpinsOn(t)] = t] /\ Goto(t, label)
      /\ TypeOK /\ rcu \in [Threads -> Int]
  BY DEF SpinLock, rcuVars, Inv, TypeOK, LocalTypeOK
<1>2. Placed(t) /\ pc[t] # "free" /\ ThreadInv(t) /\ label \in Labels
  BY <1>1 DEF Placed, Inv, Labels
<1>3. /\ UNCHANGED <<seen, bench>>
      /\ op'[t] = op[t] /\ p_prev'[t] = p_prev[t] /\ p_next'[t] = p_next[t] /\ n'[t] = n[t]
      /\ pc'[t] = label
  BY <1>1 DEF LocalsKept, historyVars, driverVars, Goto, TypeOK
<1>4. Spots(t)' = Spots(t) /\ SpotSet(t)' = SpotSet(t)
  BY <1>3, SameSpots
<1>5. PICK i \in 1..m :
           /\ SpinsOn(t) = Spots(t)[i] /\ glock[Spots(t)[i]] # t
           /\ \A x \in Node : glock[x] = t <=> \E j \in 1 .. i - 1 : Spots(t)[j] = x
  BY <1>1, SpinFacts
<1> DEFINE y == Spots(t)[i]
<1>6. /\ m \in Nat /\ y \in SpotSet(t) /\ y \in Node /\ y \in seen[t] /\ SpotSet(t) \subseteq Node
      /\ \A x \in SpotSet(t) : \E j \in 1..m : Spots(t)[j] = x
  BY <1>2, SpotFacts
<1>7. \A x \in Node : glock'[x] = t <=> \E j \in 1..i : Spots(t)[j] = x
  <2>1. \A x \in Node : glock'[x] = t <=> (glock[x] = t \/ x = y)
    BY <1>1, <1>5, <1>6 DEF TypeOK
  <2>2. \A j \in 1..i : j \in 1 .. i - 1 \/ j = i
    BY <1>6
  <2>3. i \in 1..i /\ \A j \in 1 .. i - 1 : j \in 1..i
    BY <1>6
  <2>4. QED
    BY <1>5, <2>1, <2>2, <2>3
<1>8. label = "spin" => i + 1 \in 1..m /\ (i + 1) - 1 = i
  BY <1>5, <1>6
<1>9. label = "update" => i = m
  <2>1. SUFFICES ASSUME i < m, Spots(t)[i] = Spots(t)[m] PROVE FALSE
    BY <1>5, <1>6
  <2>2. m \in 1..m
    BY <1>6
  <2>3. val[Spots(t)[i]] < val[Spots(t)[m]] /\ val[Spots(t)[i]] \in Int
    BY <1>2, <2>1, <2>2, SpotFacts
  <2>4. QED
    BY <2>1, <2>3
<1> HIDE DEF label
<1>10. label \in {"spin", "update"}
  BY DEF label
<1>11. Holdings(t)'
  <2>1. \A x \in Node : glock'[x] = t => x \in seen[t]
    BY <1>1, <1>2, <1>5, <1>6 DEF ThreadInv, Holdings, TypeOK
  <2>2. \A l \in Node \X NumaNodes : pnodelock[l] = t =>
          l[1] \in seen[t] /\ l[2] = numa_node_id[t] /\ bench # "rcx-htmlock"
    BY <1>2 DEF ThreadInv, Holdings
  <2>3. label = "spin" => \E k \in 1..Len(Spots(t)') :
          \A x \in Node : glock'[x] = t <=> \E j \in 1 .. k - 1 : Spots(t)'[j] = x
    BY <1>4, <1>7, <1>8
  <2>4. label = "update" => \A x \in SpotSet(t)' : glock'[x] = t
    BY <1>4, <1>6, <1>7, <1>9
  <2>5. QED
    BY <1>1, <1>3, <1>10, <2>1, <2>2, <2>3, <2>4 DEF Holdings, InCriticalSection
<1>12. ASSUME NEW u \in Threads \ {t} PROVE SameLocks(u)
  <2>1. \A x \in Node : glock'[x] = u <=> glock[x] = u
    BY <1>1, <1>5, <1>6, <1>12, ThreadsAssumption DEF TypeOK
  <2>2. QED
    BY <1>1, <2>1 DEF SameLocks
<1>13. /\ glock' \in [Node -> Threads \union {NULL}]
       /\ pnodelock' \in [Node \X NumaNodes -> Threads \union {NULL}]
  BY <1>1 DEF TypeOK
<1>14. label = "spin" => bench = "rcx"
  BY <1>1, <1>2 DEF ThreadInv, Phase
<1>15. QED
  BY <1>1, <1>2, <1>10, <1>11, <1>12, <1>13, <1>14, LockStep

-----------------------------------------------------------------------------
(* Releasing the locks *)

\* The validation fails: RCU_READER_UNLOCK(), goto unlock_retry
LEMMA InvalidInv ==
  ASSUME CallIsReader, Inv, NEW t \in Threads, Invalid(t)
  PROVE  Inv' /\ Contents' = Contents
<1> USE DEF Invalid, LocalsKept, rcu_read_unlock, CallIsReader, Goto, Inv, TypeOK, LocalTypeOK,
            nodeVars, driverVars, historyVars, lockVars
<1>1. /\ SameOthers(t) /\ UNCHANGED nodeVars /\ fill' = fill /\ bench' = bench
      /\ pc[t] = "update" /\ pc'[t] = "backoff"
      /\ UNCHANGED <<gp, op, key, p_prev, p_next, n, p_new_node, result, seen, obs, pnodelock, glock>>
  BY DEF SameOthers, SameThread
<1>2. /\ ThreadInv(t) /\ Live' = Live /\ Contents' = Contents
      /\ Viewing(t) /\ Viewing(t)' /\ Placed(t) /\ ~Placed(t)'
  BY <1>1 DEF Live, Contents, Viewing, Placed
<1>3. TypeOK'
  <2>1. pc' \in [Threads -> Labels] /\ rcu' \in [Threads -> Int]
    BY DEF Labels
  <2>2. QED
    BY <1>1, <2>1 DEF NodeTypeOK
<1>4. \A u \in Threads : SameLocks(u)
  BY <1>1 DEF SameLocks
<1>5. ThreadInv(t)'
  <2>1. Phase(t)' /\ Recorded(t)' /\ Answered(t)'
    BY <1>1, <1>2 DEF ThreadInv, Phase, Recorded, Answered, Decided
  <2>2. Owns(t)'
    BY <1>1, <1>2 DEF ThreadInv, Owns, Inserting, Freeing
  <2>3. View(t)'
    BY <1>1, <1>2, CursorFacts, ViewFrame
  <2>4. Cursor(t)'
    BY <1>1, <1>2, <2>3, CursorFacts DEF Cursor
  <2>5. Holdings(t)'
    BY <1>1, <1>2 DEF ThreadInv, Holdings, InCriticalSection
  <2>6. QED
    BY <2>1, <2>2, <2>4, <2>5 DEF ThreadInv
<1>6. (Inserting(t)' => Inserting(t)) /\ ~Freeing(t)'
  BY <1>1, <1>2 DEF Inserting, Freeing
<1>7. QED
  BY <1>1, <1>3, <1>4, <1>5, <1>6, QuietStep

\* One lock is released.
LEMMA ReleaseInv ==
  ASSUME Inv, NEW t \in Threads, GlobalUnlock(t) \/ NodeUnlock(t)
  PROVE  Inv' /\ Contents' = Contents
<1> USE DEF listVars, localVars, nodeVars, rcuVars, driverVars, historyVars
<1>1. /\ SameOthers(t) /\ UNCHANGED nodeVars /\ fill' = fill /\ bench' = bench
      /\ UNCHANGED <<rcu, gp, pc, op, key, p_prev, p_next, n, p_new_node, result, seen, obs, ops>>
      /\ pc[t] \in {"unlock", "backoff"}
  BY DEF GlobalUnlock, NodeUnlock, Releases, SameOthers, SameThread
<1>2. /\ ThreadInv(t) /\ Live' = Live /\ Contents' = Contents /\ Viewing(t) /\ TypeOK
      /\ ~Placed(t)
  BY <1>1 DEF Live, Contents, Viewing, Placed, Inv
<1>3. /\ glock' \in [Node -> Threads \union {NULL}]
      /\ \A x \in Node : glock'[x] = glock[x] \/ (glock[x] = t /\ glock'[x] = NULL)
  <2>1. CASE GlobalUnlock(t)
    BY <1>2, <2>1 DEF GlobalUnlock, TypeOK
  <2>2. CASE NodeUnlock(t)
    BY <1>2, <2>2 DEF NodeUnlock, TypeOK
  <2>3. QED
    BY <2>1, <2>2
<1>4. /\ pnodelock' \in [Node \X NumaNodes -> Threads \union {NULL}]
      /\ \A l \in Node \X NumaNodes :
           pnodelock'[l] = pnodelock[l] \/ (pnodelock[l] = t /\ pnodelock'[l] = NULL)
  <2>1. CASE GlobalUnlock(t)
    BY <1>2, <2>1 DEF GlobalUnlock, TypeOK
  <2>2. CASE NodeUnlock(t)
    <3>1. PICK x \in Node : /\ pnodelock[mine(t, x)] = t
                            /\ pnodelock' = [pnodelock EXCEPT ![mine(t, x)] = NULL]
      BY <2>2 DEF NodeUnlock
    <3>2. QED
      BY <1>2, <3>1 DEF TypeOK
  <2>3. QED
    BY <2>1, <2>2
<1>5. TypeOK'
  BY <1>1, <1>2, <1>3, <1>4 DEF TypeOK, NodeTypeOK, LocalTypeOK
<1>6. ASSUME NEW u \in Threads \ {t} PROVE SameLocks(u)
  BY <1>3, <1>4, <1>6, ThreadsAssumption DEF SameLocks
<1>7. ThreadInv(t)'
  <2>1. Phase(t)' /\ Recorded(t)' /\ Answered(t)' /\ Owns(t)'
    BY <1>1, <1>2 DEF ThreadInv, Phase, Placed, Recorded, Answered, Decided, WasTrue,
                      Owns, Inserting, Freeing
  <2>2. View(t)'
    BY <1>1, <1>2, CursorFacts, ViewFrame
  <2>3. Cursor(t)'
    BY <1>1, <1>2, <2>2 DEF ThreadInv, Cursor, Placed, Viewing
  <2>4. /\ \A x \in Node : glock'[x] = t => glock[x] = t
        /\ \A l \in Node \X NumaNodes : pnodelock'[l] = t => pnodelock[l] = t
    BY <1>3, <1>4, ThreadsAssumption
  <2>5. Holdings(t)'
    BY <1>1, <1>2, <2>4 DEF ThreadInv, Holdings, InCriticalSection
  <2>6. QED
    BY <2>1, <2>3, <2>5 DEF ThreadInv
<1>8. (Inserting(t)' <=> Inserting(t)) /\ (Freeing(t)' <=> Freeing(t))
  BY <1>1 DEF Inserting, Freeing, Placed
<1>9. QED
  BY <1>1, <1>5, <1>6, <1>7, <1>8, QuietStep

\* A thread that has released its locks holds none.
LEMMA ReleasedFacts ==
  ASSUME Inv, NEW t \in Threads, Released(t)
  PROVE  /\ \A x \in Node : glock[x] # t
         /\ \A l \in Node \X NumaNodes : pnodelock[l] # t
<1>1. \A x \in Node : glock[x] # t /\ pnodelock[mine(t, x)] # t
  BY DEF Released, HoldsGlobal, HoldsNode
<1>2. \A l \in Node \X NumaNodes : l = <<l[1], l[2]>> /\ l[1] \in Node
  OBVIOUS
<1>3. \A l \in Node \X NumaNodes : pnodelock[l] = t => l[2] = numa_node_id[t]
  BY DEF Inv, ThreadInv, Holdings
<1>4. ASSUME NEW l \in Node \X NumaNodes, pnodelock[l] = t PROVE FALSE
  <2>1. l[1] \in Node /\ l = mine(t, l[1])
    BY <1>2, <1>3, <1>4 DEF mine
  <2>2. QED
    BY <1>1, <1>4, <2>1
<1>5. QED
  BY <1>1, <1>4

\* RCU_READER_UNLOCK() of a call that is done.
LEMMA ReaderUnlockInv ==
  ASSUME CallIsReader, Inv, NEW t \in Threads, ReaderUnlock(t)
  PROVE  Inv' /\ Contents' = Contents
<1> USE DEF ReaderUnlock, LocalsKept, rcu_read_unlock, CallIsReader, Goto, Inv, TypeOK, LocalTypeOK,
            nodeVars, driverVars, lockVars
<1>1. /\ SameOthers(t) /\ UNCHANGED nodeVars /\ fill' = fill /\ bench' = bench
      /\ pc[t] = "unlock" /\ pc'[t] = "ret"
      /\ \A u \in Threads \ {t} : seen'[u] = seen[u]
      /\ UNCHANGED <<gp, op, key, p_prev, p_next, n, p_new_node, result, obs, pnodelock, glock>>
  BY DEF SameOthers, SameThread
<1>2. /\ ThreadInv(t) /\ Live' = Live /\ Contents' = Contents /\ ~Viewing(t)' /\ ~Placed(t)'
  BY <1>1 DEF Live, Contents, Viewing, Placed
<1>3. TypeOK'
  <2>1. pc' \in [Threads -> Labels] /\ rcu' \in [Threads -> Int]
    BY DEF Labels
  <2>2. seen' \in [Threads -> SUBSET Node]
    OBVIOUS
  <2>3. QED
    BY <1>1, <2>1, <2>2 DEF NodeTypeOK
<1>4. \A u \in Threads : SameLocks(u)
  BY <1>1 DEF SameLocks
<1>5. ~Inserting(t)' /\ ~Freeing(t)'
  BY <1>1, <1>2 DEF Inserting, Freeing
<1>6. ThreadInv(t)'
  <2>1. Phase(t)' /\ Recorded(t)' /\ Answered(t)' /\ Owns(t)' /\ Cursor(t)'
    BY <1>1, <1>2, <1>5 DEF ThreadInv, Phase, Recorded, Answered, Decided, WasTrue, Owns, Cursor
  <2>2. Holdings(t)'
    <3>1. /\ \A x \in Node : glock[x] # t
          /\ \A l \in Node \X NumaNodes : pnodelock[l] # t
      BY ReleasedFacts
    <3>2. QED
      BY <1>1, <3>1 DEF Holdings, InCriticalSection
  <2>3. QED
    BY <2>1, <2>2 DEF ThreadInv
<1>7. QED
  BY <1>1, <1>3, <1>4, <1>5, <1>6, QuietStep

\* The call returns.
LEMMA FinishInv ==
  ASSUME Inv, NEW t \in Threads, Finish(t)
  PROVE  Inv' /\ Contents' = Contents
<1> USE DEF Finish, Return, Quiesce, Goto, Inv, TypeOK, LocalTypeOK, nodeVars, driverVars
<1>1. /\ SameOthers(t) /\ UNCHANGED nodeVars /\ fill' = fill /\ bench' = bench
      /\ \A u \in Threads \ {t} : seen'[u] = seen[u] /\ obs'[u] = obs[u]
      /\ pc[t] = "ret" /\ pc'[t] = "idle" /\ op'[t] = "none"
      /\ UNCHANGED <<rcu, lockVars>>
  BY DEF SameOthers, SameThread
<1>2. /\ \A u \in Threads \ {t}, x \in Node : u \in gp[x] => u \in gp'[x]
      /\ gp' \in [Node -> SUBSET Threads]
  BY DEF NodeTypeOK
<1>3. Holdings(t)' /\ \A u \in Threads : SameLocks(u)
  BY <1>1, NoHoldings
<1>4. TypeOK'
  <2>1. key' \in [Threads -> Keys \union {LIST_VAL_MIN}] /\ op' \in [Threads -> OpNames \union {"none"}]
    OBVIOUS
  <2>2. /\ p_prev' \in [Threads -> Ptr] /\ p_next' \in [Threads -> Ptr] /\ n' \in [Threads -> Ptr]
        /\ p_new_node' \in [Threads -> Ptr]
    BY DEF Ptr
  <2>3. /\ pc' \in [Threads -> Labels] /\ result' \in [Threads -> 0..2]
        /\ seen' \in [Threads -> SUBSET Node] /\ obs' \in [Threads -> SUBSET {"present", "absent"}]
    BY DEF Labels
  <2>4. QED
    BY <1>1, <1>2, <2>1, <2>2, <2>3 DEF NodeTypeOK, lockVars
<1>5. ~Placed(t)' /\ ~Viewing(t)' /\ ~Inserting(t)' /\ ~Freeing(t)'
  BY <1>1 DEF Placed, Viewing, Inserting, Freeing
<1>6. ThreadInv(t)'
  BY <1>1, <1>3, <1>5 DEF ThreadInv, Phase, Cursor, Owns, Answered, Decided, Recorded
<1>7. QED
  BY <1>1, <1>2, <1>3, <1>4, <1>5, <1>6, QuietStep

-----------------------------------------------------------------------------
(* Steps that allocate or free memory *)

\* Memory that nobody can stand on is freed.
LEMMA OthersKeepFree ==
  ASSUME Inv, NEW x \in DataNodes, mem' = [mem EXCEPT ![x] = "free"],
         UNCHANGED <<val, link, removed, bkt, gp, fill, bench>>,
         mem[x] \in {"private", "deferred"}, mem[x] = "deferred" => gp[x] = {},
         NEW u \in Threads, SameThread(u), SameLocks(u), seen'[u] = seen[u], obs'[u] = obs[u],
         Inserting(u) => p_new_node[u] # x
  PROVE  ThreadInv(u)'
<1>1. SortedLists' /\ Contents' = Contents /\ Live' = Live /\ x \in Node
  BY MemFrame, ConstantFacts DEF Inv, TypeOK
<1>2. \A y \in Node : y # x => mem'[y] = mem[y]
  BY DEF Inv, TypeOK, NodeTypeOK
<1>3. ThreadInv(u) /\ key'[u] = key[u] /\ op'[u] = op[u]
  BY DEF Inv, SameThread
<1>4. Recorded(u)'
  BY <1>1, <1>3 DEF ThreadInv, Recorded
<1>5. Viewing(u) => View(u)'
  <2>1. SUFFICES ASSUME Viewing(u) PROVE View(u)'
    OBVIOUS
  <2>2. View(u) /\ seen[u] \subseteq Node
    BY <2>1, CursorFacts
  <2>3. x \notin seen[u]
    BY <2>2, NotInView
  <2>4. QED
    BY <1>1, <1>2, <1>3, <2>2, <2>3, ViewFrame
<1>6. Inserting(u) => mem'[p_new_node[u]] = mem[p_new_node[u]]
  BY <1>2, <1>3, ConstantFacts DEF ThreadInv, Owns
<1>7. Freeing(u) => mem'[p_next[u]] = mem[p_next[u]]
  BY <1>2, <1>3, ConstantFacts DEF ThreadInv, Owns
<1>8. QED
  BY <1>4, <1>5, <1>6, <1>7, ThreadFrame

\* A grace period ends: nobody can still stand on the node.
LEMMA ReclaimInv ==
  ASSUME Inv, NEW x \in DataNodes, Reclaim(x), UNCHANGED lockVars
  PROVE  Inv' /\ Contents' = Contents
<1> USE DEF Reclaim, Inv, TypeOK, LocalTypeOK, rcuVars, localVars, driverVars, historyVars, lockVars
<1>1. /\ \A u \in Threads : SameThread(u) /\ SameLocks(u)
      /\ UNCHANGED <<val, link, removed, bkt, gp, fill, bench, seen, obs, pc, op, p_prev, p_next, n,
                     p_new_node>>
      /\ mem' = [mem EXCEPT ![x] = "free"] /\ mem[x] = "deferred" /\ gp[x] = {} /\ x \in Node
  BY ConstantFacts DEF SameThread, SameLocks
<1>2. SortedLists' /\ Contents' = Contents
  BY <1>1, MemFrame
<1>3. TypeOK'
  BY DEF NodeTypeOK, MemState
<1>4. Alone' /\ RemovedFlag'
  BY <1>1 DEF Alone, Inserting, Freeing, Placed, RemovedFlag, Stale, NodeTypeOK
<1>5. ASSUME NEW u \in Threads PROVE ThreadInv(u)'
  <2>1. Inserting(u) => p_new_node[u] # x
    BY <1>1 DEF ThreadInv, Owns
  <2>2. QED
    BY <1>1, <2>1, OthersKeepFree
<1>6. QED
  BY <1>2, <1>3, <1>4, <1>5

\* A transaction that sets lock bytes aborts, or the locks of an invalid update
\* are released: RCU_READER_UNLOCK(), kfree() of the new node.
LEMMA GiveUpInv ==
  ASSUME CallIsReader, Inv, NEW t \in Threads, TxAbort(t) \/ GiveUp(t)
  PROVE  Inv' /\ Contents' = Contents
<1> USE DEF TxAbort, GiveUp, rcu_read_unlock, CallIsReader, Goto, Inv, TypeOK, LocalTypeOK,
            driverVars, lockVars
<1> DEFINE x == p_new_node[t]
<1>1. /\ SameOthers(t) /\ fill' = fill /\ bench' = bench
      /\ pc[t] \in {"tx", "backoff"} /\ pc'[t] = "again"
      /\ mem' = (IF op[t] = "add" THEN [mem EXCEPT ![x] = "free"] ELSE mem)
      /\ \A u \in Threads \ {t} : seen'[u] = seen[u]
      /\ UNCHANGED <<val, link, removed, bkt, gp, op, key, p_prev, p_next, n, p_new_node, result, obs,
                     pnodelock, glock>>
  BY DEF SameOthers, SameThread
<1>2. ThreadInv(t) /\ ~Placed(t)' /\ ~Viewing(t)' /\ ~Inserting(t)' /\ ~Freeing(t)'
  BY <1>1 DEF Placed, Viewing, Inserting, Freeing
<1>3. key[t] \in Keys /\ op[t] \in {"add", "remove"}
  BY <1>1, <1>2 DEF ThreadInv, Phase, Placed
<1>4. op[t] = "add" => Inserting(t) /\ x \in DataNodes /\ x \in Node /\ mem[x] = "private"
  BY <1>1, <1>2, ConstantFacts DEF ThreadInv, Owns, Inserting, Placed
<1>5. SortedLists' /\ Contents' = Contents /\ Live' = Live
  <2>1. CASE op[t] = "add"
    BY <1>1, <1>4, <2>1, MemFrame
  <2>2. CASE op[t] # "add"
    BY <1>1, <2>2, SortedFrame
  <2>3. QED
    BY <2>1, <2>2
<1>6. TypeOK' /\ RemovedFlag'
  <2>1. NodeTypeOK'
    BY <1>1, <1>4 DEF NodeTypeOK, MemState
  <2>2. pc' \in [Threads -> Labels] /\ rcu' \in [Threads -> Int]
    BY DEF Labels
  <2>3. seen' \in [Threads -> SUBSET Node] /\ ops' = ops
    OBVIOUS
  <2>4. RemovedFlag'
    BY <1>1, <1>4 DEF NodeTypeOK, RemovedFlag, Stale
  <2>5. QED
    BY <1>1, <2>1, <2>2, <2>3, <2>4
<1>7. Alone'
  BY <1>1, <1>2, AloneFrame
<1>8. \A u \in Threads : SameLocks(u)
  BY <1>1 DEF SameLocks
<1>9. ASSUME NEW u \in Threads, u # t PROVE ThreadInv(u)'
  <2>1. SameThread(u) /\ ThreadInv(u) /\ seen'[u] = seen[u] /\ obs'[u] = obs[u] /\ SameLocks(u)
    BY <1>1, <1>8, <1>9 DEF SameOthers
  <2>2. CASE op[t] = "add"
    <3>1. Inserting(u) => p_new_node[u] # x
      BY <1>4, <1>9, <2>2 DEF Alone
    <3>2. mem' = [mem EXCEPT ![x] = "free"] /\ x \in DataNodes /\ mem[x] = "private"
      BY <1>1, <1>4, <2>2
    <3>3. QED
      BY <1>1, <2>1, <3>1, <3>2, OthersKeepFree
  <2>3. CASE op[t] # "add"
    <3>1. mem' = mem /\ key'[u] = key[u] /\ op'[u] = op[u]
      BY <1>1, <2>3
    <3>2. Viewing(u) => View(u)'
      BY <1>1, <1>5, <2>1, <3>1, CursorFacts, ViewFrame
    <3>3. Recorded(u)'
      BY <1>5, <2>1, <3>1 DEF ThreadInv, Recorded
    <3>4. QED
      BY <1>1, <2>1, <3>1, <3>2, <3>3, ThreadFrame
  <2>4. QED
    BY <2>2, <2>3
<1>10. ThreadInv(t)'
  <2>1. Holdings(t)'
    <3>1. /\ \A y \in Node : glock[y] # t
          /\ \A l \in Node \X NumaNodes : pnodelock[l] # t
      <4>1. CASE pc[t] = "tx"
        BY <1>2, <4>1 DEF ThreadInv, Holdings
      <4>2. CASE pc[t] # "tx"
        BY <4>2, ReleasedFacts
      <4>3. QED
        BY <4>1, <4>2
    <3>2. QED
      BY <1>1, <3>1 DEF Holdings, InCriticalSection
  <2>2. Phase(t)' /\ Recorded(t)' /\ Answered(t)' /\ Owns(t)' /\ Cursor(t)'
    BY <1>1, <1>2, <1>3, <1>5 DEF ThreadInv, Phase, Recorded, Answered, Decided, Owns, Cursor
  <2>3. QED
    BY <2>1, <2>2 DEF ThreadInv
<1>11. QED
  BY <1>5, <1>6, <1>7, <1>9, <1>10

\* rcx_new_node() clears the locks of memory in which nobody holds one.
LEMMA FreshLocks ==
  ASSUME Inv, NEW x \in Node, mem[x] = "free"
  PROVE  glock[x] = NULL /\ \A l \in Node \X NumaNodes : l[1] = x => pnodelock[l] = NULL
<1>1. ASSUME NEW u \in Threads, Viewing(u) PROVE x \notin seen[u]
  BY <1>1, CursorFacts, NotInView
<1>2. ASSUME NEW u \in Threads PROVE glock[x] # u
  BY <1>1 DEF Inv, ThreadInv, Holdings, Viewing
<1>3. ASSUME NEW u \in Threads, NEW l \in Node \X NumaNodes, l[1] = x PROVE pnodelock[l] # u
  BY <1>1, <1>3 DEF Inv, ThreadInv, Holdings, Viewing
<1>4. QED
  BY <1>2, <1>3 DEF Inv, TypeOK

\* kmalloc() and the initialisation of the new node.
LEMMA AddNewNodeInv ==
  ASSUME CallIsReader, Inv, NEW t \in Threads, AddNewNode(t)
  PROVE  Inv' /\ Contents' = Contents
<1> USE DEF Goto, Inv, TypeOK, LocalTypeOK, driverVars, historyVars
<1>1. PICK x \in DataNodes :
        /\ NewNode(t, x, key[t], Hash(key[t]), p_next[t])
        /\ p_new_node' = [p_new_node EXCEPT ![t] = x]
        /\ pnodelock' = [l \in Node \X NumaNodes |-> IF l[1] = x THEN NULL ELSE pnodelock[l]]
        /\ glock' = [glock EXCEPT ![x] = NULL]
  BY DEF AddNewNode
<1>2. /\ SameOthers(t) /\ fill' = fill /\ bench' = bench /\ ops' = ops
      /\ pc[t] = "test" /\ pc'[t] = "wait" /\ op[t] = "add" /\ p_new_node'[t] = x
      /\ UNCHANGED <<rcu, op, key, p_prev, p_next, n, result, seen, obs>>
  BY <1>1 DEF AddNewNode, Arrived, SameOthers, SameThread
<1>3. ThreadInv(t) /\ ~Placed(t) /\ Placed(t)' /\ Viewing(t) /\ Viewing(t)'
  BY <1>2 DEF Placed, Viewing
<1>4. /\ p_next[t] \in Node /\ p_next[t] \in seen[t] /\ p_prev[t] \in seen[t]
      /\ key[t] \in Keys /\ key[t] < val[p_next[t]] /\ View(t) /\ seen[t] \subseteq Node
  BY <1>2, <1>3, CursorFacts, ArrivedFacts DEF AddNewNode, OpNames
<1>5. /\ SortedLists' /\ NodeTypeOK' /\ Contents' = Contents /\ Live' = Live
      /\ mem[x] = "free" /\ x \in Node \ Live /\ Live \subseteq Node
      /\ mem'[x] = "private" /\ val'[x] = key[t] /\ link'[x] = p_next[t] /\ bkt'[x] = Hash(key[t])
      /\ removed'[x] = 0
      /\ \A y \in Node : y # x => /\ mem'[y] = mem[y] /\ val'[y] = val[y] /\ removed'[y] = removed[y]
                                  /\ link'[y] = link[y] /\ bkt'[y] = bkt[y]
      /\ gp' = gp
  BY <1>1, <1>4, NewNodeFacts DEF CallIsReader, SafeBuild
<1>6. UNCHANGED lockVars
  <2>1. glock[x] = NULL /\ \A l \in Node \X NumaNodes : l[1] = x => pnodelock[l] = NULL
    BY <1>5, FreshLocks
  <2>2. pnodelock = [l \in Node \X NumaNodes |-> pnodelock[l]] /\ glock = [y \in Node |-> glock[y]]
    OBVIOUS
  <2>3. pnodelock' = pnodelock
    BY <1>1, <2>1, <2>2
  <2>4. glock' = glock
    BY <1>1, <2>1, <2>2
  <2>5. QED
    BY <2>3, <2>4 DEF lockVars
<1>7. TypeOK' /\ RemovedFlag'
  <2>1. pc' \in [Threads -> Labels] /\ p_new_node' \in [Threads -> Ptr]
    BY <1>1, <1>5 DEF Ptr, Labels, AddNewNode
  <2>2. RemovedFlag'
    BY <1>5 DEF RemovedFlag, Stale
  <2>3. QED
    BY <1>2, <1>5, <1>6, <2>1, <2>2 DEF lockVars
<1>8. Holdings(t)' /\ \A u \in Threads : SameLocks(u)
  BY <1>2, <1>6, NoHoldings
<1>9. \A u \in Threads : /\ Inserting(u) => p_new_node[u] # x /\ p_new_node[u] \in Node
                         /\ Freeing(u) => p_next[u] # x /\ p_next[u] \in Node
  BY <1>5, ConstantFacts DEF ThreadInv, Owns
<1>10. Alone'
  BY <1>2, <1>9 DEF Alone, SameOthers, SameThread, Inserting, Placed, Freeing
<1>11. ASSUME NEW u \in Threads, Viewing(u)
       PROVE  /\ View(u)' /\ \A y \in seen[u] : val'[y] = val[y] /\ bkt'[y] = bkt[y]
              /\ x \notin seen[u]
  <2>1. View(u) /\ seen[u] \subseteq Node
    BY <1>11, CursorFacts
  <2>2. x \notin seen[u]
    BY <1>5, <2>1, NotInView
  <2>3. QED
    BY <1>2, <1>5, <2>1, <2>2, ViewFrame
<1>12. ASSUME NEW u \in Threads, u # t PROVE ThreadInv(u)'
  <2>1. ThreadInv(u) /\ SameThread(u) /\ SameLocks(u)
    BY <1>2, <1>8, <1>12 DEF SameOthers
  <2>2. Recorded(u)'
    BY <1>2, <1>5, <2>1 DEF ThreadInv, Recorded
  <2>3. QED
    BY <1>2, <1>5, <1>9, <1>11, <2>1, <2>2, ThreadFrame
<1>13. ThreadInv(t)'
  <2>1. Cursor(t)'
    BY <1>2, <1>3, <1>4, <1>11 DEF ThreadInv, Cursor
  <2>2. Owns(t)'
    BY <1>2, <1>5 DEF Owns, Inserting, Freeing
  <2>3. Phase(t)' /\ Answered(t)' /\ Recorded(t)'
    BY <1>2, <1>3, <1>5 DEF ThreadInv, Phase, Answered, Decided, Recorded
  <2>4. QED
    BY <1>8, <2>1, <2>2, <2>3 DEF ThreadInv
<1>14. QED
  BY <1>5, <1>7, <1>10, <1>12, <1>13

-----------------------------------------------------------------------------
(* The critical section *)

\* A node of a view whose flag is clear is still in its list.
LEMMA FlagFacts ==
  ASSUME Inv, NEW t \in Threads, View(t), NEW x \in Node, x \in seen[t], removed[x] = 0
  PROVE  x \in Live
  BY DEF Inv, RemovedFlag, Stale, View, ViewProtected, Live

\* An add that passes the validation has neighbours with the value between them.
LEMMA AddReady ==
  ASSUME Inv, NEW t \in Threads, pc[t] = "update", op[t] = "add", AddValid(t)
  PROVE  InsertReady(t)
<1>1. ThreadInv(t) /\ Placed(t) /\ Inserting(t) /\ Viewing(t)
  BY DEF Inv, Placed, Inserting, Viewing
<1>2. p_prev[t] \in Live
  BY <1>1, CursorFacts, FlagFacts DEF AddValid
<1>3. key[t] < val[p_next[t]]
  BY <1>1 DEF ThreadInv, Cursor
<1>4. QED
  BY <1>1, <1>2, <1>3, CursorFacts DEF AddValid, InsertReady, ThreadInv, Owns

\* The locks after the commit are those before it.
LEMMA CommitHoldings ==
  ASSUME Inv, NEW t \in Threads, pc[t] \in {"update", "free"}, pc'[t] \in {"free", "unlock"},
         UNCHANGED <<pnodelock, glock, bench, op, p_prev, p_next, n>>, seen[t] \subseteq seen'[t]
  PROVE  Holdings(t)' /\ \A u \in Threads : SameLocks(u)
<1>1. ThreadInv(t) /\ Spots(t)' = Spots(t) /\ SpotSet(t)' = SpotSet(t)
  BY SameSpots DEF Inv
<1>2. Holdings(t)'
  BY <1>1 DEF ThreadInv, Holdings, InCriticalSection
<1>3. QED
  BY <1>2 DEF SameLocks

\* RCU_ASSIGN_PTR(p_prev->p_next, p_new_node)
LEMMA AddCommitInv ==
  ASSUME Inv, NEW t \in Threads, AddCommit(t)
  PROVE  Inv' /\ Contents' = Contents \union {key[t]} /\ key[t] \notin Contents
<1> USE DEF AddCommit, Decide, Goto, Inv, TypeOK, LocalTypeOK, rcuVars, driverVars, lockVars
<1>1. /\ SameOthers(t) /\ fill' = fill /\ bench' = bench /\ Publish(t)
      /\ pc[t] = "update" /\ pc'[t] = "unlock" /\ op[t] = "add" /\ result'[t] = 1
      /\ UNCHANGED <<val, removed, bkt, rcu, gp, op, key, p_prev, p_next, n, p_new_node, pnodelock, glock>>
  BY DEF SameOthers, SameThread
<1>2. InsertReady(t) /\ ThreadInv(t) /\ Placed(t) /\ ~Placed(t)' /\ Viewing(t) /\ Viewing(t)'
  BY <1>1, AddReady DEF Placed, Viewing
<1> DEFINE p == p_prev[t]
<1> DEFINE x == p_new_node[t]
<1>3. /\ SortedLists' /\ NodeTypeOK' /\ Live' = Live \union {x}
      /\ key[t] \notin Contents /\ Contents' = Contents \union {key[t]}
      /\ x \in Node \ Live /\ p \in Node
      /\ mem'[x] = "live"
      /\ \A y \in Node : y # x => mem'[y] = mem[y]
      /\ \A y \in Node : y # p => link'[y] = link[y]
  BY <1>1, <1>2, PublishFacts
<1>4. p \in Live /\ mem[x] = "private"
  BY <1>2 DEF InsertReady
<1>5. Observe(t, "present") /\ \A u \in Threads : obs[u] \subseteq obs'[u]
  BY <1>1 DEF Publish, Observe
<1>6. \A u \in Threads : seen[u] \subseteq seen'[u]
  BY <1>1 DEF Publish
<1>7. TypeOK' /\ RemovedFlag'
  <2>1. seen' \in [Threads -> SUBSET Node] /\ obs' \in [Threads -> SUBSET {"present", "absent"}]
    BY <1>1, <1>3 DEF Publish, Observe
  <2>2. pc' \in [Threads -> Labels] /\ result' \in [Threads -> 0..2]
    BY DEF Labels
  <2>3. LocalTypeOK'
    BY <1>1, <1>3, <2>1, <2>2
  <2>4. RemovedFlag'
    BY <1>1, <1>3, <1>4 DEF RemovedFlag, Stale
  <2>5. QED
    BY <1>1, <1>3, <2>2, <2>3, <2>4
<1>8. Holdings(t)' /\ \A u \in Threads : SameLocks(u)
  BY <1>1, <1>6, CommitHoldings
<1>9. ~Inserting(t)' /\ ~Freeing(t)'
  BY <1>1, <1>2 DEF Inserting, Freeing
<1>10. Alone'
  BY <1>1, <1>9, AloneFrame
<1>11. ASSUME NEW u \in Threads PROVE Recorded(u)' /\ (Viewing(u) => View(u)')
  <2>1. Recorded(u)'
    BY <1>1, <1>3, <1>5, RecordedPublish DEF ThreadInv
  <2>2. Viewing(u) => View(u)'
    <3>1. SUFFICES ASSUME Viewing(u) PROVE View(u)'
      OBVIOUS
    <3>2. View(u) /\ seen[u] \subseteq Node /\ key[u] \in Keys /\ op[u] # "none"
      BY <3>1, CursorFacts
    <3>3. QED
      BY <1>1, <1>2, <3>2, ViewPublish
  <2>3. QED
    BY <2>1, <2>2
<1>12. ASSUME NEW u \in Threads, u # t PROVE ThreadInv(u)'
  <2>1. ThreadInv(u) /\ SameThread(u) /\ SameLocks(u) /\ obs[u] \subseteq obs'[u]
    BY <1>1, <1>5, <1>8, <1>12 DEF SameOthers
  <2>2. Inserting(u) => LET z == p_new_node[u] IN mem'[z] = mem[z] /\ link'[z] = link[z]
    <3>1. SUFFICES ASSUME Inserting(u)
                   PROVE  p_new_node[u] \in Node /\ p_new_node[u] # x /\ p_new_node[u] # p
      BY <1>3
    <3>2. p_new_node[u] \in Node /\ mem[p_new_node[u]] = "private"
      BY <2>1, <3>1, ConstantFacts DEF ThreadInv, Owns
    <3>3. Inserting(t)
      BY <1>1, <1>2 DEF Inserting
    <3>4. QED
      BY <1>4, <1>12, <3>1, <3>2, <3>3 DEF Alone, Live
  <2>3. Freeing(u) => mem'[p_next[u]] = mem[p_next[u]]
    BY <1>3, <1>4, <2>1, ConstantFacts DEF ThreadInv, Owns
  <2>4. QED
    BY <1>1, <1>6, <1>11, <2>1, <2>2, <2>3, ThreadFrame
<1>13. ThreadInv(t)'
  <2>1. Phase(t)' /\ Owns(t)' /\ Answered(t)'
    BY <1>1, <1>2, <1>9 DEF ThreadInv, Phase, Owns, Answered, WasTrue
  <2>2. Cursor(t)'
    BY <1>1, <1>2, <1>6, <1>11 DEF ThreadInv, Cursor
  <2>3. QED
    BY <1>8, <1>11, <2>1, <2>2 DEF ThreadInv
<1>14. QED
  BY <1>3, <1>7, <1>10, <1>12, <1>13

\* A remove that passes the validation has p_prev, p_next and n side by side in the list.
LEMMA RemoveReady ==
  ASSUME Inv, NEW t \in Threads, pc[t] = "update", op[t] = "remove", RemoveValid(t)
  PROVE  DeleteReady(t)
<1>1. ThreadInv(t) /\ Placed(t) /\ Viewing(t)
  BY DEF Inv, Placed, Viewing
<1>2. p_prev[t] \in Live
  BY <1>1, CursorFacts, FlagFacts DEF RemoveValid
<1>3. val[p_next[t]] = key[t]
  BY <1>1 DEF ThreadInv, Cursor
<1>4. QED
  BY <1>1, <1>2, <1>3, CursorFacts DEF RemoveValid, DeleteReady

\* RCU_ASSIGN_PTR(p_prev->p_next, n); p_next->removed = 1
LEMMA RemoveCommitInv ==
  ASSUME Inv, NEW t \in Threads, RemoveCommit(t)
  PROVE  Inv' /\ Contents' = Contents \ {key[t]} /\ key[t] \in Contents
<1> USE DEF RemoveCommit, Decide, Goto, Inv, TypeOK, LocalTypeOK, rcuVars, driverVars, lockVars
<1> DEFINE p == p_prev[t]
<1> DEFINE x == p_next[t]
<1>1. /\ SameOthers(t) /\ fill' = fill /\ bench' = bench /\ Unlink(t)
      /\ pc[t] = "update" /\ pc'[t] = "free" /\ op[t] = "remove" /\ result'[t] = 1
      /\ removed' = [removed EXCEPT ![x] = 1]
      /\ UNCHANGED <<val, bkt, rcu, gp, op, key, p_prev, p_next, n, p_new_node, pnodelock, glock>>
  BY DEF SameOthers, SameThread
<1>2. DeleteReady(t) /\ ThreadInv(t) /\ Placed(t) /\ Placed(t)' /\ Viewing(t) /\ Viewing(t)'
  BY <1>1, RemoveReady DEF Placed, Viewing
<1>3. removed' \in [Node -> {0, 1}]
  BY <1>1 DEF NodeTypeOK
<1>4. /\ SortedLists' /\ NodeTypeOK' /\ Live' = Live \ {x}
      /\ Contents' = Contents \ {key[t]}
      /\ mem'[x] = "unlinked"
      /\ \A y \in Node : y # x => mem'[y] = mem[y]
      /\ \A y \in Node : y # p => link'[y] = link[y]
  BY <1>1, <1>2, <1>3, UnlinkFacts
<1>5. p \in Live /\ p \in Node /\ x \in DataNodes /\ x \in Live /\ x \in Node /\ key[t] \in Contents
  BY <1>2, DeleteReadyFacts DEF DeleteReady
<1>6. Observe(t, "absent") /\ (\A u \in Threads : obs[u] \subseteq obs'[u]) /\ seen' = seen
  BY <1>1 DEF Unlink, Observe
<1>7. TypeOK' /\ RemovedFlag'
  <2>1. obs' \in [Threads -> SUBSET {"present", "absent"}]
    BY <1>6 DEF Observe
  <2>2. pc' \in [Threads -> Labels] /\ result' \in [Threads -> 0..2]
    BY DEF Labels
  <2>3. LocalTypeOK'
    BY <1>1, <1>4, <1>6, <2>1, <2>2
  <2>4. RemovedFlag'
    BY <1>1, <1>4, <1>5 DEF RemovedFlag, Stale, NodeTypeOK
  <2>5. QED
    BY <1>1, <1>4, <2>2, <2>3, <2>4
<1>8. Holdings(t)' /\ \A u \in Threads : SameLocks(u)
  BY <1>1, <1>6, CommitHoldings
<1>9. \A u \in Threads : /\ Inserting(u) => p_new_node[u] # x /\ p_new_node[u] # p /\ p_new_node[u] \in Node
                         /\ Freeing(u) => p_next[u] # x /\ p_next[u] \in Node
  BY <1>5, ConstantFacts DEF ThreadInv, Owns, Live
<1>10. Alone'
  <2>1. ~Inserting(t)'
    BY <1>1 DEF Inserting
  <2>2. QED
    BY <1>1, <1>9, <2>1 DEF Alone, SameOthers, SameThread, Inserting, Placed, Freeing
<1>11. ASSUME NEW u \in Threads PROVE Recorded(u)' /\ (Viewing(u) => View(u)')
  <2>1. Recorded(u)'
    BY <1>1, <1>4, <1>6, RecordedUnlink DEF ThreadInv
  <2>2. Viewing(u) => View(u)'
    <3>1. SUFFICES ASSUME Viewing(u) PROVE View(u)'
      OBVIOUS
    <3>2. View(u) /\ seen[u] \subseteq Node /\ key[u] \in Keys /\ op[u] # "none"
      BY <3>1, CursorFacts
    <3>3. QED
      BY <1>1, <1>2, <1>3, <3>2, ViewUnlink
  <2>3. QED
    BY <2>1, <2>2
<1>12. ASSUME NEW u \in Threads, u # t PROVE ThreadInv(u)'
  <2>1. /\ ThreadInv(u) /\ SameThread(u) /\ SameLocks(u) /\ obs[u] \subseteq obs'[u]
        /\ seen'[u] = seen[u]
    BY <1>1, <1>6, <1>8, <1>12 DEF SameOthers
  <2>2. Inserting(u) => LET z == p_new_node[u] IN mem'[z] = mem[z] /\ link'[z] = link[z]
    BY <1>4, <1>9
  <2>3. Freeing(u) => mem'[p_next[u]] = mem[p_next[u]]
    BY <1>4, <1>9
  <2>4. QED
    BY <1>1, <1>11, <2>1, <2>2, <2>3, ThreadFrame
<1>13. ThreadInv(t)'
  <2>1. Phase(t)' /\ Owns(t)' /\ Answered(t)'
    BY <1>1, <1>2, <1>4, <1>5 DEF ThreadInv, Phase, Owns, Inserting, Freeing, Answered, WasTrue
  <2>2. Cursor(t)'
    BY <1>1, <1>2, <1>6, <1>11 DEF ThreadInv, Cursor
  <2>3. QED
    BY <1>8, <1>11, <2>1, <2>2 DEF ThreadInv
<1>14. QED
  BY <1>4, <1>5, <1>7, <1>10, <1>12, <1>13

\* rcx_free_node(p_next) before the locks are released: the grace period waits
\* for every call under way, the remover's included.
LEMMA FreeInv ==
  ASSUME CallIsReader, Inv, NEW t \in Threads, Free(t)
  PROVE  Inv' /\ Contents' = Contents
<1> USE DEF Free, Goto, Inv, TypeOK, LocalTypeOK, driverVars, historyVars, lockVars
<1> DEFINE x == p_next[t]
<1>1. /\ SameOthers(t) /\ fill' = fill /\ bench' = bench /\ kfree_rcu(x)
      /\ pc[t] = "free" /\ pc'[t] = "unlock"
      /\ UNCHANGED <<val, link, removed, bkt, rcu, op, key, p_prev, p_next, n, p_new_node,
                     result, seen, obs, pnodelock, glock>>
  BY DEF SameOthers, SameThread
<1>2. /\ ThreadInv(t) /\ op[t] = "remove" /\ Freeing(t)
      /\ x \in DataNodes /\ x \in Node /\ mem[x] = "unlinked"
  BY <1>1, ConstantFacts DEF ThreadInv, Phase, Owns, Freeing
<1>3. ~Placed(t)' /\ Viewing(t) /\ Viewing(t)' /\ ~Inserting(t)' /\ ~Freeing(t)'
  BY <1>1 DEF Placed, Viewing, Inserting, Freeing
<1>4. mem' = [mem EXCEPT ![x] = "deferred"] /\ gp' = [gp EXCEPT ![x] = {u \in Threads : Reader(u)}]
  BY <1>1 DEF kfree_rcu
<1>5. SortedLists' /\ Contents' = Contents /\ Live' = Live
  BY <1>1, <1>2, <1>4, MemFrame
<1>6. \A y \in Node : y # x => mem'[y] = mem[y]
  BY <1>4 DEF NodeTypeOK
<1>7. TypeOK' /\ RemovedFlag'
  <2>1. NodeTypeOK'
    BY <1>1, <1>2, <1>4 DEF NodeTypeOK, MemState
  <2>2. RemovedFlag'
    BY <1>1, <1>2, <1>4 DEF RemovedFlag, Stale, NodeTypeOK
  <2>3. QED
    BY <1>1, <2>1, <2>2 DEF Labels
<1>8. Holdings(t)' /\ \A u \in Threads : SameLocks(u)
  BY <1>1, CommitHoldings
<1>9. Alone'
  BY <1>1, <1>3, AloneFrame
<1>10. ASSUME NEW u \in Threads PROVE Recorded(u)' /\ (Viewing(u) => View(u)')
  <2>1. Recorded(u)'
    BY <1>1, <1>5 DEF ThreadInv, Recorded
  <2>2. Viewing(u) => View(u)'
    <3>1. SUFFICES ASSUME Viewing(u) PROVE View(u)'
      OBVIOUS
    <3>2. View(u) /\ seen[u] \subseteq Node
      BY <3>1, CursorFacts
    <3>3. Reader(u)
      BY <3>1 DEF Reader, CallIsReader, Viewing
    <3>4. QED
      BY <1>1, <1>2, <3>2, <3>3, ViewDefer
  <2>3. QED
    BY <2>1, <2>2
<1>11. ASSUME NEW u \in Threads, u # t PROVE ThreadInv(u)'
  <2>1. /\ ThreadInv(u) /\ SameThread(u) /\ SameLocks(u) /\ obs'[u] = obs[u]
        /\ seen'[u] = seen[u]
    BY <1>1, <1>8, <1>11 DEF SameOthers
  <2>2. /\ Inserting(u) => p_new_node[u] # x /\ p_new_node[u] \in Node
        /\ Freeing(u) => p_next[u] # x /\ p_next[u] \in Node
    BY <1>2, <1>11, <2>1, ConstantFacts DEF ThreadInv, Owns, Alone
  <2>3. QED
    BY <1>1, <1>6, <1>10, <2>1, <2>2, ThreadFrame
<1>12. ThreadInv(t)'
  <2>1. Phase(t)' /\ Owns(t)' /\ Answered(t)'
    BY <1>1, <1>2, <1>3 DEF ThreadInv, Phase, Owns, Answered, Decided, WasTrue
  <2>2. Cursor(t)'
    BY <1>1, <1>2, <1>3, <1>10 DEF ThreadInv, Cursor
  <2>3. QED
    BY <1>8, <1>10, <2>1, <2>2 DEF ThreadInv
<1>13. QED
  BY <1>5, <1>7, <1>9, <1>11, <1>12

-----------------------------------------------------------------------------
(* The invariant *)

\* The table is half filled while no thread runs.
LEMMA HalfFillInv ==
  ASSUME Inv, NEW k \in Keys, HalfFill(k), UNCHANGED lockVars
  PROVE  /\ Inv' /\ \A t \in Threads : op[t] = "none"
         /\ Contents' = Contents \/ Contents' = Contents \union {k}
<1> USE DEF HalfFill, Inv, TypeOK, LocalTypeOK
<1>1. /\ UNCHANGED <<rcu, gp, bench, ops, seen, obs, pc, op, key, p_prev, p_next, n, p_new_node, result>>
      /\ fill' = fill - 1 /\ fill > 0 /\ FillWith(k)
  BY DEF FillWith, rcuVars, localVars, historyVars
<1>2. /\ NodeTypeOK' /\ SortedLists'
      /\ Contents' = Contents \/ Contents' = Contents \union {k}
  BY <1>1, FillFacts
<1>3. \A t \in Threads : pc[t] = "idle" /\ op[t] = "none"
  BY <1>1 DEF ThreadInv, Phase
<1>4. TypeOK'
  <2>1. fill' \in 0..FillOps
    BY <1>1, BoundsAssumption
  <2>2. QED
    BY <1>1, <1>2, <2>1 DEF lockVars
<1>5. RemovedFlag'
  <2>1. \A x \in Node : mem[x] # "live" /\ mem'[x] # "live" =>
              mem'[x] = mem[x] /\ removed'[x] = removed[x]
    BY <1>1, FillFacts
  <2>2. \A x \in Node : mem'[x] = "live" => mem[x] = "live" \/ removed'[x] = 0
    BY <1>1, FillFacts
  <2>3. \A x \in Node : mem[x] = "live" => removed'[x] = removed[x] /\ mem'[x] = "live"
    BY <1>1, FillFacts
  <2>4. QED
    BY <2>1, <2>2, <2>3 DEF RemovedFlag, Stale
<1>6. \A u \in Threads : /\ ~Placed(u)' /\ ~Viewing(u)'
                         /\ ~Inserting(u)' /\ ~Freeing(u)' /\ ~Inserting(u) /\ ~Freeing(u)
  BY <1>1, <1>3 DEF Placed, Viewing, Inserting, Freeing
<1>7. Alone'
  BY <1>6 DEF Alone
<1>8. ASSUME NEW u \in Threads PROVE ThreadInv(u)'
  <2>1. ThreadInv(u) /\ pc[u] = "idle" /\ op[u] = "none" /\ pc'[u] = "idle"
    BY <1>1, <1>3
  <2>2. Holdings(u)'
    BY <2>1, NoHoldings
  <2>3. QED
    BY <1>1, <1>6, <2>1, <2>2 DEF ThreadInv, Phase, Cursor, Owns, Answered, Decided, Recorded
<1>9. QED
  BY <1>2, <1>3, <1>4, <1>5, <1>7, <1>8

\* A new table, and nobody at work.
LEMMA InitInv ==
  ASSUME Init
  PROVE  Inv
<1>1. ListInit /\ pnodelock = [l \in Node \X NumaNodes |-> NULL] /\ glock = [x \in Node |-> NULL]
  BY DEF Init
<1>2. /\ NodeTypeOK /\ LocalTypeOK /\ SortedLists
      /\ \A x \in Node : mem[x] \in {"live", "free"} /\ removed[x] = 0
  BY <1>1, ListInitFacts
<1>3. \A t \in Threads : pc[t] = "idle" /\ op[t] = "none"
  BY <1>1 DEF ListInit
<1>4. TypeOK
  BY <1>1, <1>2 DEF TypeOK, Labels, ListInit
<1>5. Alone /\ RemovedFlag
  BY <1>2, <1>3 DEF Alone, Inserting, Placed, Freeing, RemovedFlag, Stale
<1>6. ASSUME NEW t \in Threads PROVE ThreadInv(t)
  <2>1. ~Placed(t) /\ ~Viewing(t) /\ pc[t] = "idle" /\ op[t] = "none"
    BY <1>3 DEF Placed, Viewing
  <2>2. Holdings(t)
    <3>1. /\ \A x \in Node : glock[x] # t
          /\ \A l \in Node \X NumaNodes : pnodelock[l] # t
      BY <1>1, ThreadsAssumption
    <3>2. QED
      BY <2>1, <3>1 DEF Holdings, InCriticalSection
  <2>3. QED
    BY <2>1, <2>2 DEF ThreadInv, Phase, Cursor,
              Owns, Inserting, Freeing, Answered, Decided, Recorded
<1>7. QED
  BY <1>2, <1>4, <1>5, <1>6 DEF Inv

\* Nothing happens.
LEMMA StutterInv ==
  ASSUME Inv, UNCHANGED vars
  PROVE  Inv'
<1> USE DEF vars, listVars, nodeVars, rcuVars, localVars, driverVars, historyVars, lockVars
<1>1. SortedLists' /\ Live' = Live /\ Contents' = Contents
  BY SortedFrame DEF Inv
<1>2. TypeOK' /\ RemovedFlag' /\ Alone'
  BY DEF Inv, TypeOK, NodeTypeOK, LocalTypeOK, RemovedFlag, Stale, Alone, Inserting, Placed, Freeing
<1>3. ASSUME NEW u \in Threads PROVE ThreadInv(u)'
  <2>1. ThreadInv(u) /\ SameThread(u) /\ SameLocks(u)
    BY DEF Inv, SameThread, SameLocks
  <2>2. Recorded(u)'
    BY <1>1, <2>1 DEF ThreadInv, Recorded
  <2>3. Viewing(u) => View(u)'
    BY <1>1, CursorFacts, ViewFrame
  <2>4. QED
    BY <1>1, <2>1, <2>2, <2>3, ThreadFrame
<1>4. QED
  BY <1>1, <1>2, <1>3 DEF Inv

\* Every step keeps the invariant.
LEMMA NextInv ==
  ASSUME Inv, CallIsReader, [Next]_vars
  PROVE  Inv'
<1>1. ASSUME NEW k \in Keys, HalfFill(k), UNCHANGED lockVars PROVE Inv'
  BY <1>1, HalfFillInv
<1>2. ASSUME NEW t \in Threads, NEW o \in OpNames, NEW k \in Keys, Begin(t, o, k) PROVE Inv'
  BY <1>2, BeginInv
<1>3. ASSUME NEW t \in Threads, Step(t) PROVE Inv'
  <2>1. CASE Traverse(t) \/ ContainsDone(t)
    BY <2>1, TraverseInv, AnswerInv
  <2>2. CASE Add(t)
    BY <2>2, AnswerInv, AddNewNodeInv, AddCommitInv DEF Add
  <2>3. CASE Remove(t)
    BY <2>3, AnswerInv, RemoveReadInv, RemoveCommitInv, FreeInv DEF Remove
  <2>4. CASE TakeHtmlock(t) \/ TakeGlobalHtmlock(t) \/ SpinLock(t)
    BY <2>4, WaitInv, TxLockInv, GiveUpInv, SpinLockInv DEF TakeHtmlock, TakeGlobalHtmlock
  <2>5. CASE Invalid(t) \/ Release(t) \/ Retry(t) \/ Finish(t)
    BY <2>5, InvalidInv, ReleaseInv, ReaderUnlockInv, GiveUpInv, RetryInv, FinishInv DEF Release
  <2>6. QED
    BY <1>3, <2>1, <2>2, <2>3, <2>4, <2>5 DEF Step
<1>4. ASSUME Kernel PROVE Inv'
  BY <1>4, ReclaimInv DEF Kernel
<1>5. CASE UNCHANGED vars
  BY <1>5, StutterInv
<1>6. QED
  BY <1>1, <1>2, <1>3, <1>4, <1>5 DEF Next


(***************************************************************************)
(* The inductive invariant of the lists with transactional locks.          *)
(***************************************************************************)
THEOREM Invariance ==
  ASSUME CallIsReader
  PROVE  Spec => []Inv
<1>1. Init => Inv
  BY InitInv
<1>2. Inv /\ [Next]_vars => Inv'
  BY NextInv
<1>3. QED
  BY <1>1, <1>2, PTL DEF Spec

\* Every variable keeps its type: a lock byte is clear or set by one thread.
THEOREM TypeCorrect ==
  ASSUME CallIsReader
  PROVE  Spec => []TypeOK
<1>1. Inv => TypeOK
  BY DEF Inv
<1>2. QED
  BY <1>1, Invariance, PTL

\* No thread dereferences freed memory, although RCU_READER_UNLOCK() is called
\* before the locks of a failed validation are released.
LEMMA TouchesMemory ==
  ASSUME Inv
  PROVE  NoUseAfterFree
<1>1. SUFFICES ASSUME NEW t \in Threads, NEW x \in Touches(t)
               PROVE  mem[x] # "free"
  BY DEF NoUseAfterFree
<1>2. ThreadInv(t)
  BY DEF Inv
<1>3. pc[t] \in {"deref", "test", "succ", "update", "free"}
  BY <1>1 DEF Touches
<1>4. Viewing(t)
  BY <1>3 DEF Viewing
<1>5. \A y \in seen[t] : mem[y] # "free"
  BY <1>4, CursorFacts DEF View, ViewProtected
<1>6. p_prev[t] \in seen[t] /\ (pc[t] # "deref" => p_next[t] \in seen[t])
  BY <1>4, CursorFacts
<1>7. pc[t] = "update" => /\ op[t] \in {"add", "remove"}
                          /\ op[t] = "remove" => n[t] \in seen[t]
                          /\ op[t] = "add" => mem[p_new_node[t]] = "private"
  BY <1>2, <1>4 DEF ThreadInv, Phase, Cursor, Placed, Owns, Inserting
<1>8. QED
  BY <1>1, <1>3, <1>5, <1>6, <1>7 DEF Touches

\* Every lock byte that is read, set or cleared lies in memory that is still
\* allocated, those of the removed node included, which are cleared after
\* rcx_free_node().
THEOREM LocksStayAllocated ==
  ASSUME CallIsReader
  PROVE  Spec => []LocksInMemory
<1>1. ASSUME Inv PROVE LocksInMemory
  <2>1. NoUseAfterFree
    BY <1>1, TouchesMemory
  <2>2. ASSUME NEW t \in Threads, NEW x \in TouchesLocks(t) PROVE mem[x] # "free"
    <3>1. /\ Viewing(t)
          /\ \/ Placed(t) /\ x \in SpotSet(t)
             \/ x \in Node /\ (glock[x] = t \/ pnodelock[mine(t, x)] = t)
      BY <2>2 DEF TouchesLocks, Releases, Viewing, Placed
    <3>2. View(t)
      BY <1>1, <3>1, CursorFacts
    <3>3. x \in seen[t]
      <4>1. CASE Placed(t) /\ x \in SpotSet(t)
        BY <1>1, <4>1, SpotFacts
      <4>2. CASE x \in Node /\ (glock[x] = t \/ pnodelock[mine(t, x)] = t)
        <5>1. mine(t, x) \in Node \X NumaNodes /\ mine(t, x)[1] = x
          BY <4>2, VariantAssumption DEF mine
        <5>2. QED
          BY <1>1, <4>2, <5>1 DEF Inv, ThreadInv, Holdings
      <4>3. QED
        BY <3>1, <4>1, <4>2
    <3>4. QED
      BY <3>2, <3>3 DEF View, ViewProtected
  <2>3. QED
    BY <2>1, <2>2 DEF LocksInMemory
<1>2. QED
  BY <1>1, Invariance, PTL

\* Only a thread that spins is waited for while it waits: whoever took global
\* locks with a transaction has them all.
LEMMA WaitsForSpinner ==
  ASSUME Inv, NEW S \in SUBSET Threads, \A t \in S : WaitsFor(t, S), NEW t \in S
  PROVE  /\ pc[t] # "spin" => \E u \in S : pc[u] = "spin"
         /\ pc[t] = "spin" => glock[SpinsOn(t)] \in S /\ pc[glock[SpinsOn(t)]] = "spin"
<1>1. \A u \in S : ThreadInv(u) /\ pc[u] \in {"wait", "gwait", "spin"}
  BY DEF Inv, WaitsFor
<1>2. ASSUME NEW x \in Node, glock[x] \in S
      PROVE  pc[glock[x]] = "spin" /\ bench = "rcx"
  BY <1>1, <1>2 DEF ThreadInv, Holdings, Phase
<1>3. ASSUME NEW l \in Node \X NumaNodes, pnodelock[l] \in S
      PROVE  pc[pnodelock[l]] \in {"gwait", "spin"} /\ bench # "rcx-htmlock"
  BY <1>1, <1>3 DEF ThreadInv, Holdings
<1>4. \A u \in S : pc[u] # "gwait"
  <2>1. SUFFICES ASSUME NEW u \in S, pc[u] = "gwait" PROVE FALSE
    OBVIOUS
  <2>2. bench = "rcx-hhtmlock" /\ Placed(u)
    BY <1>1, <2>1 DEF ThreadInv, Phase, Placed
  <2>3. PICK x \in SpotSet(u) : glock[x] \in S
    BY <2>1 DEF WaitsFor
  <2>4. x \in Node
    BY <2>2, SpotFacts
  <2>5. QED
    BY <1>2, <2>2, <2>3, <2>4
<1>5. ASSUME pc[t] = "wait" PROVE \E u \in S : pc[u] = "spin"
  <2>1. Placed(t)
    BY <1>5 DEF Placed
  <2>2. SpotSet(t) \subseteq Node
    BY <2>1, SpotFacts
  <2>3. CASE \E x \in SpotSet(t) : glock[x] \in S
    BY <1>2, <2>2, <2>3
  <2>4. CASE \E x \in SpotSet(t) : pnodelock[mine(t, x)] \in S
    <3>1. PICK x \in SpotSet(t) : pnodelock[mine(t, x)] \in S
      BY <2>4
    <3>2. mine(t, x) \in Node \X NumaNodes
      BY <2>2, VariantAssumption DEF mine
    <3>3. QED
      BY <1>3, <1>4, <3>1, <3>2
  <2>5. QED
    BY <1>5, <2>3, <2>4 DEF WaitsFor
<1>6. ASSUME pc[t] = "spin" PROVE glock[SpinsOn(t)] \in S /\ pc[glock[SpinsOn(t)]] = "spin"
  <2>1. Placed(t) /\ glock[SpinsOn(t)] \in S
    BY <1>6 DEF Placed, WaitsFor
  <2>2. SpinsOn(t) \in Node
    BY <1>6, <2>1, SpinFacts, SpotFacts
  <2>3. QED
    BY <1>2, <2>1, <2>2
<1>7. QED
  BY <1>1, <1>4, <1>5, <1>6

\* A thread that spins holds only locks of smaller values than the one it waits for.
LEMMA SpinsUpwards ==
  ASSUME Inv, NEW t \in Threads, NEW u \in Threads, pc[t] = "spin", pc[u] = "spin",
         glock[SpinsOn(t)] = u
  PROVE  /\ val[SpinsOn(t)] < val[SpinsOn(u)]
         /\ val[SpinsOn(t)] \in LIST_VAL_MIN .. LIST_VAL_MAX
         /\ val[SpinsOn(u)] \in LIST_VAL_MIN .. LIST_VAL_MAX
<1>1. Placed(t) /\ Placed(u)
  BY DEF Placed
<1>2. PICK k \in 1..Len(Spots(t)) : SpinsOn(t) = Spots(t)[k]
  BY SpinFacts
<1>3. PICK i \in 1..Len(Spots(u)) :
        /\ SpinsOn(u) = Spots(u)[i]
        /\ \A x \in Node : glock[x] = u <=> \E j \in 1 .. i - 1 : Spots(u)[j] = x
  BY SpinFacts
<1>4. SpinsOn(t) \in Node /\ SpinsOn(u) \in Node
  BY <1>1, <1>2, <1>3, SpotFacts
<1>5. PICK j \in 1 .. i - 1 : Spots(u)[j] = SpinsOn(t)
  BY <1>3, <1>4
<1>6. Len(Spots(u)) \in Nat
  BY <1>1, SpotFacts
<1>7. j \in 1..Len(Spots(u)) /\ j < i
  BY <1>6
<1>8. val[SpinsOn(t)] < val[SpinsOn(u)]
  BY <1>1, <1>3, <1>5, <1>7, SpotFacts
<1>9. QED
  BY <1>4, <1>8, NodeValues DEF Inv, TypeOK, SortedLists

\* No set of threads waits for one another: only spinning threads can, and the
\* one that spins on the greatest value waits for nobody in the set.
THEOREM DeadlockFree ==
  ASSUME CallIsReader
  PROVE  Spec => []NoLockCycle
<1>1. ASSUME Inv PROVE NoLockCycle
  <2>1. SUFFICES ASSUME NEW S \in SUBSET Threads, S # {}, \A t \in S : WaitsFor(t, S)
                 PROVE  FALSE
    BY DEF NoLockCycle
  <2> DEFINE R == {t \in S : pc[t] = "spin"}
  <2> DEFINE Distance(t) == LIST_VAL_MAX - val[SpinsOn(t)]
  <2> DEFINE D == {Distance(t) : t \in R}
  <2>2. R # {}
    BY <1>1, <2>1, WaitsForSpinner
  <2>3. ASSUME NEW t \in R PROVE \E u \in R : Distance(u) < Distance(t) /\ Distance(t) \in Nat
    <3>1. PICK u \in R : glock[SpinsOn(t)] = u
      BY <1>1, <2>1, WaitsForSpinner
    <3>2. pc[t] = "spin" /\ pc[u] = "spin" /\ t \in Threads /\ u \in Threads
      OBVIOUS
    <3>3. /\ val[SpinsOn(t)] < val[SpinsOn(u)]
          /\ val[SpinsOn(t)] \in LIST_VAL_MIN .. LIST_VAL_MAX
          /\ val[SpinsOn(u)] \in LIST_VAL_MIN .. LIST_VAL_MAX
      BY <1>1, <3>1, <3>2, SpinsUpwards
    <3>4. QED
      BY <3>3, ConstantFacts
  <2> HIDE DEF Distance, R
  <2>4. D \in SUBSET Nat /\ D # {}
    BY <2>2, <2>3
  <2>5. PICK m \in D : \A i \in D : m <= i
    BY <2>4, LeastNatural
  <2>6. PICK t \in R : m = Distance(t)
    BY <2>5
  <2>7. PICK u \in R : Distance(u) < Distance(t)
    BY <2>3
  <2>8. Distance(u) \in Nat /\ Distance(t) \in Nat /\ Distance(u) \in D
    BY <2>3
  <2>9. QED
    BY <2>5, <2>6, <2>7, <2>8
<1>2. QED
  BY <1>1, Invariance, PTL

\* Two threads between their locks and their unlocks work on disjoint nodes:
\* what one has validated, no other thread changes before it commits.
THEOREM SectionsDisjoint ==
  ASSUME CallIsReader
  PROVE  Spec => []DisjointSections
<1>1. Inv => DisjointSections
  BY DEF Inv, ThreadInv, Holdings, DisjointSections
<1>2. QED
  BY <1>1, Invariance, PTL

\* The buckets stay sorted and free of duplicates.
THEOREM ListsSorted ==
  ASSUME CallIsReader
  PROVE  Spec => []SortedLists
<1>1. Inv => SortedLists
  BY DEF Inv
<1>2. QED
  BY <1>1, Invariance, PTL

\* The validation under the locks catches every update that would be linked to
\* an unlinked node: no insertion is lost and no removed node comes back.
THEOREM UpdatesNotLost ==
  ASSUME CallIsReader
  PROVE  Spec => []NoLostUpdate
<1>1. Inv => NoLostUpdate
  BY NothingLost DEF Inv, TypeOK
<1>2. QED
  BY <1>1, Invariance, PTL

\* Every answer was true at some moment of the call.
THEOREM AnswersLinearizable ==
  ASSUME CallIsReader
  PROVE  Spec => []Linearizable
<1>1. Inv => Linearizable
  BY DEF Inv, ThreadInv, Answered, Linearizable
<1>2. QED
  BY <1>1, Invariance, PTL

-----------------------------------------------------------------------------
(***************************************************************************)
(* The lists with transactional locks implement the abstract set.          *)
(***************************************************************************)

\* Answers that change nothing are answers of the abstract set.
LEMMA RefineReport ==
  ASSUME Inv, NEW t \in Threads, ContainsDone(t) \/ AddPresent(t) \/ RemoveAbsent(t)
  PROVE  Abstract!Next
<1>1. Contents' = Contents
  BY AnswerInv
<1>2. /\ pc[t] = "test" /\ ~Decided(t) /\ Decided(t)' /\ UNCHANGED <<op, key, obs>>
      /\ \A u \in Threads : u # t => pc'[u] = pc[u] /\ result'[u] = result[u]
      /\ op[t] # "none"
  BY DEF ContainsDone, AddPresent, RemoveAbsent, Arrived, Decide, Goto, Decided, historyVars, Inv,
         TypeOK, LocalTypeOK
<1>3. CASE ContainsDone(t)
  <2> DEFINE r == IF Found(t) THEN 1 ELSE 0
  <2>1. Arrived(t, "contains") /\ op[t] = "contains" /\ result'[t] = r
    BY <1>3 DEF ContainsDone, Arrived, Decide, Inv, TypeOK, LocalTypeOK
  <2>2. Abstract!Answer(t, r)
    BY <1>2, <2>1, AnswerStep
  <2>3. IF Found(t) THEN "present" \in obs[t] ELSE "absent" \in obs[t]
    BY <2>1, ArrivedFacts DEF OpNames
  <2>4. QED
    BY <1>1, <1>2, <2>1, <2>2, <2>3, ReportStep
<1>4. CASE AddPresent(t) \/ RemoveAbsent(t)
  <2>1. /\ result'[t] = 0
        /\ \/ Arrived(t, "add") /\ op[t] = "add" /\ Found(t)
           \/ Arrived(t, "remove") /\ op[t] = "remove" /\ ~Found(t)
    BY <1>4 DEF AddPresent, RemoveAbsent, Arrived, Decide, Inv, TypeOK, LocalTypeOK
  <2>2. Abstract!Answer(t, 0)
    BY <1>2, <2>1, AnswerStep
  <2>3. \/ op[t] = "add" /\ "present" \in obs[t]
        \/ op[t] = "remove" /\ "absent" \in obs[t]
    BY <2>1, ArrivedFacts DEF OpNames
  <2>4. QED
    BY <1>1, <1>2, <2>2, <2>3, ReportStep
<1>5. QED
  BY <1>3, <1>4

\* The commit under the locks is the linearization point.
LEMMA RefineUpdate ==
  ASSUME Inv, NEW t \in Threads, AddCommit(t) \/ RemoveCommit(t)
  PROVE  Abstract!Next
<1>1. CASE AddCommit(t)
  <2>1. Contents' = Contents \union {key[t]} /\ key[t] \notin Contents
    BY <1>1, AddCommitInv
  <2>2. /\ op[t] = "add" /\ ~Decided(t) /\ Decided(t)' /\ UNCHANGED <<op, key>> /\ result'[t] = 1
        /\ \A u \in Threads : u # t => pc'[u] = pc[u] /\ result'[u] = result[u]
        /\ Observe(t, "present")
    BY <1>1 DEF AddCommit, Publish, Decide, Goto, Decided, Inv, TypeOK, LocalTypeOK
  <2>3. Abstract!Answer(t, 1)
    BY <2>2, AnswerStep
  <2>4. QED
    BY <2>1, <2>2, <2>3, InsertStep
<1>2. CASE RemoveCommit(t)
  <2>1. Contents' = Contents \ {key[t]} /\ key[t] \in Contents
    BY <1>2, RemoveCommitInv
  <2>2. /\ op[t] = "remove" /\ ~Decided(t) /\ Decided(t)' /\ UNCHANGED <<op, key>> /\ result'[t] = 1
        /\ \A u \in Threads : u # t => pc'[u] = pc[u] /\ result'[u] = result[u]
        /\ Observe(t, "absent")
    BY <1>2 DEF RemoveCommit, Unlink, Decide, Goto, Decided, Inv, TypeOK, LocalTypeOK
  <2>3. Abstract!Answer(t, 1)
    BY <2>2, AnswerStep
  <2>4. QED
    BY <2>1, <2>2, <2>3, DeleteStep
<1>3. QED
  BY <1>1, <1>2

\* Calls and returns are calls and returns of the abstract set.
LEMMA RefineCallReturn ==
  ASSUME Inv, NEW t \in Threads,
         \/ \E o \in OpNames, k \in Keys : Begin(t, o, k)
         \/ Finish(t)
  PROVE  Abstract!Next
<1>1. ASSUME NEW o \in OpNames, NEW k \in Keys, Begin(t, o, k) PROVE Abstract!Next
  <2>1. Contents' = Contents
    BY <1>1, BeginInv
  <2>2. /\ Call(t, o, k) /\ pc[t] = "idle" /\ result' = result /\ ~Decided(t)' /\ ~Decided(t)
        /\ \A u \in Threads : u # t => pc'[u] = pc[u]
    BY <1>1 DEF Begin, Call, StartAt, Goto, Decided, Inv, TypeOK
  <2>3. op[t] = "none"
    BY <2>2 DEF Inv, ThreadInv, Phase
  <2>4. QED
    BY <2>1, <2>2, <2>3, CallStep
<1>2. CASE Finish(t)
  <2>1. Contents' = Contents
    BY <1>2, FinishInv
  <2>2. Return(t) /\ pc'[t] = "idle" /\ \A u \in Threads : u # t => pc'[u] = pc[u]
    BY <1>2 DEF Finish, Return, Goto, Inv, TypeOK
  <2>3. QED
    BY <2>1, <2>2, ReturnStep DEF Inv, TypeOK
<1>3. QED
  BY <1>1, <1>2

\* The other steps of a call are invisible.
LEMMA RefineInvisible ==
  ASSUME Inv, CallIsReader, NEW t \in Threads,
         \/ Traverse(t) \/ AddNewNode(t) \/ RemoveFound(t) \/ RemoveReadSucc(t) \/ Free(t)
         \/ TakeHtmlock(t) \/ TakeGlobalHtmlock(t) \/ SpinLock(t) \/ Invalid(t) \/ Release(t)
         \/ Retry(t)
  PROVE  UNCHANGED Abstract!vars
<1>1. Contents' = Contents
  BY TraverseInv, AddNewNodeInv, RemoveReadInv, FreeInv, WaitInv, TxLockInv, GiveUpInv,
     SpinLockInv, InvalidInv, ReleaseInv, ReaderUnlockInv, RetryInv
     DEF TakeHtmlock, TakeGlobalHtmlock, Release
<1>2. /\ UNCHANGED <<op, key, obs, result>> /\ (Decided(t)' <=> Decided(t))
      /\ \A u \in Threads : u # t => pc'[u] = pc[u]
  <2>1. CASE GlobalUnlock(t) \/ NodeUnlock(t)
    BY <2>1 DEF GlobalUnlock, NodeUnlock, listVars, localVars, historyVars, Decided
  <2>2. CASE TakeHtmlock(t) \/ TakeGlobalHtmlock(t) \/ SpinLock(t) \/ Invalid(t)
    <3>1. /\ pc[t] \in {"wait", "tx", "gwait", "gtx", "spin", "update"}
          /\ UNCHANGED <<op, key, obs, result>>
      BY <2>2 DEF TakeHtmlock, TakeGlobalHtmlock, Wait, TxLock, TxAbort, GlobalWait, GlobalTxLock,
                  GlobalTxAbort, SpinLock, Invalid, LocalsKept, historyVars
    <3>2. \E l \in {"tx", "update", "gwait", "spin", "again", "gtx", "backoff"} : Goto(t, l)
      <4>1. CASE TxLock(t)
        BY <4>1, VariantAssumption DEF TxLock, Inv, TypeOK, LocalTypeOK
      <4>2. CASE ~TxLock(t)
        BY <2>2, <4>2 DEF TakeHtmlock, TakeGlobalHtmlock, Wait, TxAbort, GlobalWait, GlobalTxLock,
                          GlobalTxAbort, SpinLock, Invalid
      <4>3. QED
        BY <4>1, <4>2
    <3>3. QED
      BY <3>1, <3>2 DEF Goto, Decided, Inv, TypeOK
  <2>3. CASE \/ Traverse(t) \/ AddNewNode(t) \/ RemoveFound(t) \/ RemoveReadSucc(t) \/ Free(t)
             \/ ReaderUnlock(t) \/ GiveUp(t) \/ Retry(t)
    BY <2>3 DEF Traverse, Deref, Advance, AddNewNode, RemoveFound, RemoveReadSucc, Free, LocalsKept,
                ReaderUnlock, GiveUp, Retry, Arrived, StartAt, Goto, Decided, historyVars, Inv, TypeOK
  <2>4. QED
    BY <2>1, <2>2, <2>3 DEF Release
<1>3. QED
  BY <1>1, <1>2, SameReply, Invisible

\* Every step of the list is a step of the abstract set or invisible.
LEMMA RefineNext ==
  ASSUME Inv, CallIsReader, [Next]_vars
  PROVE  [Abstract!Next]_(Abstract!vars)
<1>1. ASSUME NEW k \in Keys, HalfFill(k), UNCHANGED lockVars PROVE [Abstract!Next]_(Abstract!vars)
  BY <1>1, HalfFillInv, FillStep DEF HalfFill
<1>2. ASSUME NEW t \in Threads, NEW o \in OpNames, NEW k \in Keys, Begin(t, o, k)
      PROVE  [Abstract!Next]_(Abstract!vars)
  BY <1>2, RefineCallReturn
<1>3. ASSUME NEW t \in Threads, Step(t) PROVE [Abstract!Next]_(Abstract!vars)
  BY <1>3, RefineReport, RefineUpdate, RefineInvisible, RefineCallReturn DEF Step, Add, Remove
<1>4. CASE Kernel
  <2>1. Contents' = Contents
    BY <1>4, ReclaimInv DEF Kernel
  <2>2. UNCHANGED <<op, key, obs, pc, result>>
    BY <1>4 DEF Kernel, Reclaim, localVars, historyVars
  <2>3. QED
    BY <2>1, <2>2, Invisible DEF reply, Decided
<1>5. CASE UNCHANGED vars
  <2>1. Contents' = Contents
    BY <1>5, SortedFrame DEF Inv, vars, listVars, nodeVars
  <2>2. UNCHANGED <<op, key, obs, pc, result>>
    BY <1>5 DEF vars, listVars, localVars, historyVars
  <2>3. QED
    BY <2>1, <2>2, Invisible DEF reply, Decided
<1>6. QED
  BY <1>1, <1>2, <1>3, <1>4, <1>5 DEF Next

\* The hash tables of rcx-htmlock, rcx-hhtmlock and rcx are linearizable sets:
\* an update takes effect when it writes p_prev->p_next under its locks, every
\* other answer was true during the call, and neither an aborted transaction
\* nor a failed validation changes anything.
THEOREM Refinement ==
  ASSUME CallIsReader
  PROVE  Spec => ImplementsSet
<1>1. Init => Abstract!Init
  BY AbstractInit DEF Init
<1>2. Inv /\ [Next]_vars => [Abstract!Next]_(Abstract!vars)
  BY RefineNext
<1>3. QED
  BY <1>1, <1>2, Invariance, PTL DEF Spec, ImplementsSet, Abstract!Spec
=============================================================================
