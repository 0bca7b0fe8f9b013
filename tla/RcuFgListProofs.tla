-------------------------- MODULE RcuFgListProofs --------------------------
(***************************************************************************)
(* Machine-checked proofs about RcuFgList, for any number of threads, NUMA *)
(* nodes, keys, buckets and nodes, in the kernel builds where a call is an *)
(* RCU reader by itself (CallIsReader).                                    *)
(***************************************************************************)
EXTENDS RcuFgList, SortedListProofs, SequenceTheorems

-----------------------------------------------------------------------------
(* The locks of an update *)

\* The sequence in which an update takes its locks: those of the NUMA node,
\* if it uses them, then the global ones, each in the order of the nodes.
LEMMA OrderShape ==
  ASSUME NEW t \in Threads, NEW m \in {2, 3}, m = IF op[t] = "add" THEN 2 ELSE 3
  PROVE  /\ bench # "rcu-numa" =>
              /\ Len(Order(t)) = m
              /\ \A i \in 1..m : Order(t)[i] = <<Spots(t)[i], "global">>
         /\ bench = "rcu-numa" =>
              /\ Len(Order(t)) = 2 * m
              /\ \A i \in 1..m : Order(t)[i] = <<Spots(t)[i], numa_node_id[t]>>
              /\ \A i \in m+1 .. 2*m : Order(t)[i] = <<Spots(t)[i - m], "global">>
<1> DEFINE s == Spots(t)
<1> DEFINE global == [i \in 1..m |-> global_lock(s[i])]
<1> DEFINE local == [i \in 1..m |-> pndslock(t, s[i])]
<1> DEFINE S == {global_lock(s[i]) : i \in 1..m} \union {pndslock(t, s[i]) : i \in 1..m}
<1>1. DOMAIN s = 1..m
  <2>1. CASE op[t] = "add"
    <3>1. s = <<p_prev[t], p_next[t]>> /\ m = 2
      BY <2>1 DEF Spots
    <3>2. QED
      BY <3>1
  <2>2. CASE op[t] # "add"
    <3>1. s = <<p_prev[t], p_next[t], n[t]>> /\ m = 3
      BY <2>2 DEF Spots
    <3>2. QED
      BY <3>1
  <2>3. QED
    BY <2>1, <2>2
<1>2. Order(t) = IF bench = "rcu-numa" THEN local \o global ELSE global
  BY <1>1 DEF Order
<1>3. global \in [1..m -> S] /\ local \in [1..m -> S] /\ m \in Nat
  OBVIOUS
<1>4. /\ \A i \in 1..m : global[i] = <<s[i], "global">>
      /\ \A i \in 1..m : local[i] = <<s[i], numa_node_id[t]>>
  BY DEF global_lock, pndslock
<1> HIDE DEF global, local, S
<1>5. global \in Seq(S) /\ local \in Seq(S)
  BY <1>3, SeqDef
<1>6. Len(global) = m /\ Len(local) = m
  BY <1>3, <1>5, LenProperties
<1>7. /\ Len(local \o global) = 2 * m
      /\ \A i \in 1..m : (local \o global)[i] = local[i]
      /\ \A i \in m+1 .. 2*m : (local \o global)[i] = global[i - m]
  <2>1. /\ Len(local \o global) = Len(local) + Len(global)
        /\ \A i \in 1 .. Len(local) + Len(global) :
             (local \o global)[i] = IF i <= Len(local) THEN local[i] ELSE global[i - Len(local)]
    BY <1>5, ConcatProperties
  <2>2. QED
    BY <1>6, <2>1
<1>8. \A i \in m+1 .. 2*m : i - m \in 1..m
  OBVIOUS
<1>9. QED
  BY <1>2, <1>4, <1>6, <1>7, <1>8

\* An update takes two or three locks per level.
LEMMA OrderLength == \A t \in Threads : 0 < Len(Order(t))
<1>1. SUFFICES ASSUME NEW t \in Threads PROVE 0 < Len(Order(t))
  OBVIOUS
<1> DEFINE m == IF op[t] = "add" THEN 2 ELSE 3
<1>2. m \in {2, 3}
  OBVIOUS
<1>3. QED
  BY <1>2, OrderShape

\* The same after a step.
LEMMA OrderLengthNext == \A t \in Threads : (0 < Len(Order(t)))'
<1>1. (\A t \in Threads : 0 < Len(Order(t)))'
  BY OrderLength, PTL
<1>2. QED
  BY <1>1

\* The order depends on the local variables of the thread only.
LEMMA SameOrder ==
  ASSUME NEW t \in Threads, op'[t] = op[t], p_prev'[t] = p_prev[t], p_next'[t] = p_next[t],
         n'[t] = n[t], bench' = bench
  PROVE  Order(t)' = Order(t)
<1>1. Spots(t)' = Spots(t)
  BY DEF Spots
<1>2. QED
  BY <1>1 DEF Order, global_lock, pndslock

\* The order in which every thread takes locks: those of NUMA nodes before
\* global ones, and within each in the order of the values.
Rank(l) == val[l[1]] + IF l[2] = "global" THEN LIST_VAL_MAX - LIST_VAL_MIN + 1 ELSE 0

\* The pointers of a call are nodes that were in its list since it began.
LEMMA CursorFacts ==
  ASSUME Inv, NEW t \in Threads, pc[t] \notin {"idle", "ret"}
  PROVE  /\ View(t) /\ seen[t] \subseteq Node /\ key[t] \in Keys /\ key[t] \in Int
         /\ op[t] \in {"contains", "add", "remove"} /\ Hash(key[t]) \in Buckets
         /\ p_prev[t] \in seen[t] \ MaxNodes /\ p_prev[t] \in Node
         /\ bkt[p_prev[t]] = Hash(key[t]) /\ val[p_prev[t]] < key[t] /\ val[p_prev[t]] \in Int
         /\ link[p_prev[t]] \in seen[t] /\ bkt[link[p_prev[t]]] = Hash(key[t])
         /\ key[t] < val[link[p_prev[t]]] => "absent" \in obs[t]
         /\ pc[t] # "deref" => /\ p_next[t] \in seen[t] /\ bkt[p_next[t]] = Hash(key[t])
                               /\ p_next[t] \in Node /\ val[p_next[t]] \in Int
                               /\ val[p_next[t]] = key[t] => "present" \in obs[t]
         /\ pc[t] = "test" /\ key[t] < val[p_next[t]] => "absent" \in obs[t]
<1>1. Phase(t) /\ Cursor(t) /\ NodeTypeOK /\ SortedLists /\ Sentinels
  BY DEF Inv, TypeOK, ThreadInv, SortedLists
<1>2. /\ p_prev[t] \in seen[t] /\ bkt[p_prev[t]] = Hash(key[t])
      /\ val[p_prev[t]] < key[t] /\ key[t] \in Keys /\ View(t) /\ seen[t] \subseteq Node
      /\ pc[t] # "deref" => p_next[t] \in seen[t] /\ bkt[p_next[t]] = Hash(key[t])
      /\ pc[t] = "test" /\ key[t] < val[p_next[t]] => "absent" \in obs[t]
  BY <1>1 DEF Phase, Cursor, Inv, TypeOK, LocalTypeOK
<1>3. op[t] \in {"contains", "add", "remove"}
  BY <1>1 DEF Phase, Inv, TypeOK, LocalTypeOK, OpNames
<1>4. p_prev[t] \in Node \ MaxNodes /\ key[t] \in Int /\ Hash(key[t]) \in Buckets
      /\ val[p_prev[t]] \in Int
  BY <1>1, <1>2, NodeValues, ConstantFacts
<1>5. link[p_prev[t]] \in seen[t] /\ bkt[link[p_prev[t]]] = Hash(key[t])
  BY <1>1, <1>2, <1>4, ViewStep
<1>6. key[t] < val[link[p_prev[t]]] => "absent" \in obs[t]
  BY <1>2, <1>4 DEF View, ViewWitnessed
<1>7. pc[t] # "deref" => /\ p_next[t] \in Node /\ val[p_next[t]] \in Int
                         /\ val[p_next[t]] = key[t] => "present" \in obs[t]
  BY <1>1, <1>2, NodeValues DEF View, ViewWitnessed
<1>8. QED
  BY <1>2, <1>3, <1>4, <1>5, <1>6, <1>7

\* The nodes whose locks an update takes were in its list, in this order.
LEMMA SpotFacts ==
  ASSUME Inv, NEW t \in Threads, Locking(t), NEW m \in {2, 3},
         m = IF op[t] = "add" THEN 2 ELSE 3
  PROVE  /\ op[t] \in {"add", "remove"}
         /\ \A i \in 1..m : /\ Spots(t)[i] \in seen[t] /\ Spots(t)[i] \in Node
                            /\ val[Spots(t)[i]] \in LIST_VAL_MIN .. LIST_VAL_MAX
         /\ \A i, j \in 1..m : i < j => val[Spots(t)[i]] < val[Spots(t)[j]]
<1>1. pc[t] \notin {"idle", "ret"} /\ pc[t] # "deref" /\ ThreadInv(t) /\ NodeTypeOK /\ Sentinels
  BY DEF Locking, Inv, TypeOK, SortedLists
<1>2. op[t] \in {"add", "remove"} /\ Cursor(t)
  BY <1>1 DEF ThreadInv, Phase
<1>3. /\ p_prev[t] \in seen[t] /\ p_next[t] \in seen[t] /\ seen[t] \subseteq Node
      /\ val[p_prev[t]] < key[t] /\ key[t] \in Int
  BY <1>1, CursorFacts
<1>4. \A x \in Node : val[x] \in LIST_VAL_MIN .. LIST_VAL_MAX
  BY <1>1, NodeValues, ConstantFacts
<1>5. CASE op[t] = "add"
  <2>1. Spots(t) = <<p_prev[t], p_next[t]>> /\ m = 2 /\ key[t] < val[p_next[t]]
    BY <1>1, <1>2, <1>5 DEF Spots, Cursor
  <2>2. Spots(t)[1] = p_prev[t] /\ Spots(t)[2] = p_next[t]
    BY <2>1
  <2>3. \A i \in 1..m : i = 1 \/ i = 2
    BY <2>1
  <2>4. val[p_prev[t]] < val[p_next[t]]
    BY <1>3, <1>4, <2>1, ConstantFacts
  <2>5. QED
    BY <1>3, <1>4, <1>5, <2>2, <2>3, <2>4
<1>6. CASE op[t] = "remove"
  <2>1. /\ Spots(t) = <<p_prev[t], p_next[t], n[t]>> /\ m = 3
        /\ n[t] \in seen[t] /\ val[p_next[t]] = key[t] /\ key[t] < val[n[t]]
    BY <1>1, <1>2, <1>6 DEF Spots, Cursor
  <2>2. Spots(t)[1] = p_prev[t] /\ Spots(t)[2] = p_next[t] /\ Spots(t)[3] = n[t]
    BY <2>1
  <2>3. \A i \in 1..m : i = 1 \/ i = 2 \/ i = 3
    BY <2>1
  <2>4. val[p_prev[t]] < val[p_next[t]] /\ val[p_next[t]] < val[n[t]] /\ val[p_prev[t]] < val[n[t]]
    BY <1>3, <1>4, <2>1, ConstantFacts
  <2>5. QED
    BY <1>3, <1>4, <1>6, <2>1, <2>2, <2>3, <2>4
<1>7. QED
  BY <1>2, <1>5, <1>6

\* An update takes its locks in increasing rank, on nodes of its view.
LEMMA LockFacts ==
  ASSUME Inv, NEW t \in Threads, Locking(t)
  PROVE  /\ Len(Order(t)) \in 2..6
         /\ \A i \in 1..Len(Order(t)) :
              /\ Order(t)[i] \in Locks /\ Order(t)[i][1] \in seen[t]
              /\ Rank(Order(t)[i]) \in LIST_VAL_MIN .. 2 * LIST_VAL_MAX - LIST_VAL_MIN + 1
         /\ \A i, j \in 1..Len(Order(t)) : i < j => Rank(Order(t)[i]) < Rank(Order(t)[j])
<1> DEFINE m == IF op[t] = "add" THEN 2 ELSE 3
<1> DEFINE s == Spots(t)
<1>1. m \in {2, 3}
  OBVIOUS
<1> HIDE DEF m, s
<1>2. /\ \A i \in 1..m : /\ s[i] \in seen[t] /\ s[i] \in Node
                         /\ val[s[i]] \in LIST_VAL_MIN .. LIST_VAL_MAX
      /\ \A i, j \in 1..m : i < j => val[s[i]] < val[s[j]]
  BY <1>1, SpotFacts DEF m, s
<1>3. /\ bench # "rcu-numa" =>
           /\ Len(Order(t)) = m
           /\ \A i \in 1..m : Order(t)[i] = <<s[i], "global">>
      /\ bench = "rcu-numa" =>
           /\ Len(Order(t)) = 2 * m
           /\ \A i \in 1..m : Order(t)[i] = <<s[i], numa_node_id[t]>>
           /\ \A i \in m+1 .. 2*m : Order(t)[i] = <<s[i - m], "global">>
  BY <1>1, OrderShape DEF m, s
<1>4. numa_node_id[t] \in NumaNodes /\ numa_node_id[t] # "global"
  BY NumaAssumption
<1>5. /\ LIST_VAL_MIN \in Int /\ LIST_VAL_MAX \in Int /\ LIST_VAL_MIN < LIST_VAL_MAX
  BY ConstantFacts
<1>6. \A x \in Node : /\ <<x, "global">> \in Locks /\ <<x, "global">>[1] = x
                      /\ <<x, numa_node_id[t]>> \in Locks /\ <<x, numa_node_id[t]>>[1] = x
                      /\ Rank(<<x, "global">>) = val[x] + (LIST_VAL_MAX - LIST_VAL_MIN + 1)
                      /\ Rank(<<x, numa_node_id[t]>>) = val[x] + 0
  BY <1>4 DEF Locks, Rank
<1>7. CASE bench # "rcu-numa"
  <2>1. /\ Len(Order(t)) = m
        /\ \A i \in 1..m : /\ Order(t)[i] \in Locks /\ Order(t)[i][1] = s[i]
                           /\ Rank(Order(t)[i]) = val[s[i]] + (LIST_VAL_MAX - LIST_VAL_MIN + 1)
    BY <1>2, <1>3, <1>6, <1>7
  <2>2. ASSUME NEW i \in 1..m
        PROVE  /\ Order(t)[i] \in Locks /\ Order(t)[i][1] \in seen[t]
               /\ Rank(Order(t)[i]) \in LIST_VAL_MIN .. 2 * LIST_VAL_MAX - LIST_VAL_MIN + 1
    <3>1. /\ s[i] \in seen[t] /\ val[s[i]] \in LIST_VAL_MIN .. LIST_VAL_MAX
          /\ Order(t)[i] \in Locks /\ Order(t)[i][1] = s[i]
          /\ Rank(Order(t)[i]) = val[s[i]] + (LIST_VAL_MAX - LIST_VAL_MIN + 1)
      BY <1>2, <2>1
    <3>2. QED
      BY ONLY <1>5, <3>1
  <2>3. ASSUME NEW i \in 1..m, NEW j \in 1..m, i < j
        PROVE  Rank(Order(t)[i]) < Rank(Order(t)[j])
    <3>1. /\ val[s[i]] \in Int /\ val[s[j]] \in Int /\ val[s[i]] < val[s[j]]
      BY <1>2, <2>3
    <3>2. QED
      BY <1>5, <2>1, <3>1
  <2>4. QED
    BY <1>1, <2>1, <2>2, <2>3
<1>8. CASE bench = "rcu-numa"
  <2>1. Len(Order(t)) = 2 * m
    BY <1>3, <1>8
  <2>2. \A i \in 1..m : /\ Order(t)[i] \in Locks /\ Order(t)[i][1] = s[i]
                        /\ Rank(Order(t)[i]) = val[s[i]] + 0
    BY <1>2, <1>3, <1>6, <1>8
  <2>3. \A i \in m+1 .. 2*m : i - m \in 1..m
    BY <1>1
  <2>4. \A i \in m+1 .. 2*m : /\ Order(t)[i] \in Locks /\ Order(t)[i][1] = s[i - m]
                              /\ Rank(Order(t)[i]) = val[s[i - m]] + (LIST_VAL_MAX - LIST_VAL_MIN + 1)
    BY <1>2, <1>3, <1>6, <1>8, <2>3
  <2>5. \A i \in 1 .. 2*m : i \in 1..m \/ i \in m+1 .. 2*m
    BY <1>1
  <2>6. \A i \in 1 .. 2*m : /\ Order(t)[i] \in Locks /\ Order(t)[i][1] \in seen[t]
                            /\ Rank(Order(t)[i]) \in LIST_VAL_MIN .. 2 * LIST_VAL_MAX - LIST_VAL_MIN + 1
    BY <1>2, <1>5, <2>2, <2>3, <2>4, <2>5
  <2>7. ASSUME NEW i \in 1 .. 2*m, NEW j \in 1 .. 2*m, i < j
        PROVE  Rank(Order(t)[i]) < Rank(Order(t)[j])
    <3>1. CASE i \in 1..m /\ j \in 1..m
      BY <1>2, <2>2, <2>7, <3>1
    <3>2. CASE i \in 1..m /\ j \in m+1 .. 2*m
      <4>1. j - m \in 1..m
        BY <2>3, <3>2
      <4>2. /\ val[s[i]] \in LIST_VAL_MIN .. LIST_VAL_MAX
            /\ val[s[j - m]] \in LIST_VAL_MIN .. LIST_VAL_MAX
        BY <1>2, <3>2, <4>1
      <4>3. QED
        BY <1>5, <2>2, <2>4, <3>2, <4>2
    <3>3. CASE i \in m+1 .. 2*m /\ j \in m+1 .. 2*m
      <4>1. i - m \in 1..m /\ j - m \in 1..m /\ i - m < j - m
        BY <1>1, <2>7, <2>3, <3>3
      <4>2. /\ val[s[i - m]] \in Int /\ val[s[j - m]] \in Int /\ val[s[i - m]] < val[s[j - m]]
        BY <1>2, <4>1
      <4>3. QED
        BY <1>5, <2>4, <3>3, <4>2
    <3>4. CASE i \in m+1 .. 2*m /\ j \in 1..m
      BY <1>1, <2>7, <3>4
    <3>5. QED
      BY <2>5, <3>1, <3>2, <3>3, <3>4
  <2>8. QED
    BY <1>1, <2>1, <2>6, <2>7
<1>9. QED
  BY <1>7, <1>8

-----------------------------------------------------------------------------
(* What a step of another thread must leave alone *)

\* The invariant of a thread that does not move.
LEMMA ThreadFrame ==
  ASSUME Inv, NEW u \in Threads, SameThread(u), fill' = fill, bench' = bench, held'[u] = held[u],
         obs[u] \subseteq obs'[u], Recorded(u)',
         pc[u] \notin {"idle", "ret"} =>
           /\ View(u)' /\ seen[u] \subseteq seen'[u]
           /\ \A y \in seen[u] : val'[y] = val[y] /\ bkt'[y] = bkt[y],
         Inserting(u) => LET x == p_new_node[u] IN
           mem'[x] = mem[x] /\ val'[x] = val[x] /\ link'[x] = link[x] /\ bkt'[x] = bkt[x],
         Freeing(u) => mem'[p_next[u]] = mem[p_next[u]]
  PROVE  ThreadInv(u)'
<1> USE DEF SameThread
<1>1. ThreadInv(u)
  BY DEF Inv
<1>2. Phase(u)' /\ Owns(u)'
  BY <1>1 DEF ThreadInv, Phase, Locking, Owns, Inserting, Freeing
<1>3. Cursor(u)'
  BY <1>1 DEF ThreadInv, Cursor, Locking
<1>4. Progress(u)'
  <2>1. Order(u)' = Order(u)
    BY SameOrder
  <2>2. QED
    BY <1>1, <2>1 DEF ThreadInv, Progress, Locking
<1>5. Answered(u)'
  BY <1>1 DEF ThreadInv, Answered, Decided, WasTrue
<1>6. QED
  BY <1>2, <1>3, <1>4, <1>5 DEF ThreadInv

\* Locks do not change hands, and nobody who holds one changes its order.
LEMMA OwnersFrame ==
  ASSUME Inv, NEW t \in Threads, SameOthers(t), bench' = bench, UNCHANGED <<owner, held>>,
         held[t] = 0 \/ Order(t)' = Order(t)
  PROVE  Owners'
<1>1. \A u \in Threads : held[u] = 0 \/ Order(u)' = Order(u)
  BY SameOrder DEF SameOthers, SameThread
<1>2. \A u \in Threads : held[u] = 0 => 1..held[u] = {}
  OBVIOUS
<1>3. QED
  BY <1>1, <1>2 DEF Inv, Owners

\* No thread gets a node to insert or to free.
LEMMA AloneFrame ==
  ASSUME Inv, NEW t \in Threads, SameOthers(t),
         Inserting(t)' => Inserting(t) /\ p_new_node'[t] = p_new_node[t],
         Freeing(t)' => Freeing(t) /\ p_next'[t] = p_next[t]
  PROVE  Alone'
<1>1. \A u \in Threads : /\ Inserting(u)' => Inserting(u) /\ p_new_node'[u] = p_new_node[u]
                         /\ Freeing(u)' => Freeing(u) /\ p_next'[u] = p_next[u]
  BY DEF SameOthers, SameThread, Inserting, Freeing
<1>2. QED
  BY <1>1 DEF Inv, Alone

\* A step that writes no node and ends at most t's own protection.
LEMMA QuietStep ==
  ASSUME Inv, NEW t \in Threads, UNCHANGED nodeVars, fill' = fill, bench' = bench, SameOthers(t),
         \A u \in Threads \ {t} : seen'[u] = seen[u] /\ obs'[u] = obs[u] /\ held'[u] = held[u],
         \A u \in Threads \ {t}, x \in Node : u \in gp[x] => u \in gp'[x],
         TypeOK', Owners', ThreadInv(t)',
         Inserting(t)' => Inserting(t) /\ p_new_node'[t] = p_new_node[t],
         Freeing(t)' => Freeing(t) /\ p_next'[t] = p_next[t]
  PROVE  Inv' /\ Contents' = Contents
<1> USE DEF nodeVars
<1>1. SortedLists' /\ Live' = Live /\ Contents' = Contents
  BY SortedFrame DEF Inv
<1>2. Alone'
  BY AloneFrame
<1>3. RemovedFlag'
  BY DEF Inv, RemovedFlag, Stale
<1>4. ASSUME NEW u \in Threads, u # t PROVE ThreadInv(u)'
  <2>1. ThreadInv(u) /\ SameThread(u) /\ seen'[u] = seen[u] /\ obs'[u] = obs[u] /\ held'[u] = held[u]
    BY <1>4 DEF Inv, SameOthers
  <2>2. Recorded(u)'
    BY <1>1, <2>1 DEF ThreadInv, Recorded, SameThread
  <2>3. pc[u] \notin {"idle", "ret"} => View(u)'
    <3>1. SUFFICES ASSUME pc[u] \notin {"idle", "ret"} PROVE View(u)'
      OBVIOUS
    <3>2. View(u) /\ seen[u] \subseteq Node
      BY <3>1, CursorFacts
    <3>3. key'[u] = key[u]
      BY <2>1 DEF SameThread
    <3>4. QED
      BY <1>1, <1>4, <2>1, <3>2, <3>3, ViewFrame
  <2>4. QED
    BY <1>1, <2>1, <2>2, <2>3, ThreadFrame
<1>5. QED
  BY <1>1, <1>2, <1>3, <1>4 DEF Inv

-----------------------------------------------------------------------------
(* Steps that write no node *)

\* p_next = RCU_DEREF(p_prev->p_next), and p_prev = p_next while the value is
\* not reached.
LEMMA TraverseInv ==
  ASSUME Inv, NEW t \in Threads, Traverse(t)
  PROVE  Inv' /\ Contents' = Contents
<1> USE DEF Traverse, Deref, Advance, Goto, Inv, TypeOK, LocalTypeOK,
            nodeVars, rcuVars, driverVars, historyVars, lockVars
<1>1. /\ SameOthers(t) /\ UNCHANGED nodeVars /\ fill' = fill /\ bench' = bench
      /\ \/ pc[t] = "deref" /\ pc'[t] = "test" /\ p_next'[t] = link[p_prev[t]] /\ p_prev' = p_prev
         \/ /\ pc[t] = "test" /\ pc'[t] = "deref" /\ p_prev'[t] = p_next[t] /\ p_next' = p_next
            /\ val[p_next[t]] < key[t]
      /\ UNCHANGED <<rcu, gp, op, key, n, p_new_node, result, seen, obs, owner, held>>
  BY DEF SameOthers, SameThread
<1>2. ThreadInv(t) /\ Live' = Live /\ Contents' = Contents
  BY DEF Live, Contents
<1>3. pc[t] \notin {"idle", "ret"} /\ ~Locking(t) /\ ~Locking(t)' /\ held[t] = 0
  BY <1>1, <1>2 DEF Locking, ThreadInv, Progress
<1>4. link[p_prev[t]] \in Node
  BY <1>3, CursorFacts
<1>5. TypeOK'
  <2>1. pc' \in [Threads -> Labels]
    BY DEF Labels
  <2>2. p_prev' \in [Threads -> Ptr] /\ p_next' \in [Threads -> Ptr]
    BY <1>4 DEF Ptr
  <2>3. QED
    BY <2>1, <2>2 DEF NodeTypeOK
<1>6. Owners'
  BY <1>1, <1>3, OwnersFrame
<1>7. ThreadInv(t)'
  <2>1. Phase(t)' /\ Owns(t)' /\ Progress(t)' /\ Recorded(t)' /\ Answered(t)'
    BY <1>1, <1>2, <1>3 DEF ThreadInv, Phase, Owns, Inserting, Freeing, Progress, Recorded,
                            Answered, Decided
  <2>2. View(t)'
    BY <1>1, <1>2, <1>3, CursorFacts, ViewFrame
  <2>3. Cursor(t)'
    BY <1>1, <1>3, <2>2, CursorFacts DEF Cursor
  <2>4. QED
    BY <2>1, <2>3 DEF ThreadInv
<1>8. /\ Inserting(t)' => Inserting(t) /\ p_new_node'[t] = p_new_node[t]
      /\ Freeing(t)' => Freeing(t) /\ p_next'[t] = p_next[t]
  BY <1>1 DEF Inserting, Freeing
<1>9. QED
  BY <1>1, <1>5, <1>6, <1>7, <1>8, QuietStep

\* What a call that arrived knows about its value.
LEMMA ArrivedFacts ==
  ASSUME Inv, NEW t \in Threads, NEW o \in OpNames, Arrived(t, o)
  PROVE  /\ Found(t) => "present" \in obs[t]
         /\ ~Found(t) => "absent" \in obs[t] /\ key[t] < val[p_next[t]]
  BY CursorFacts DEF Arrived, Found

\* A remove that met the value reads n and goes for the locks.
LEMMA RemoveReadInv ==
  ASSUME Inv, NEW t \in Threads, RemoveFound(t) \/ RemoveReadSucc(t)
  PROVE  Inv' /\ Contents' = Contents
<1> USE DEF RemoveFound, RemoveReadSucc, Arrived, Found, Goto, Inv, TypeOK, LocalTypeOK,
            nodeVars, rcuVars, driverVars, historyVars, lockVars
<1>1. /\ SameOthers(t) /\ UNCHANGED nodeVars /\ fill' = fill /\ bench' = bench
      /\ \/ /\ pc[t] = "test" /\ pc'[t] = "succ" /\ n' = n
            /\ op[t] = "remove" /\ val[p_next[t]] = key[t]
         \/ pc[t] = "succ" /\ pc'[t] = "lock" /\ n'[t] = link[p_next[t]]
      /\ UNCHANGED <<rcu, gp, op, key, p_prev, p_next, p_new_node, result, seen, obs, owner, held>>
  BY DEF SameOthers, SameThread
<1>2. /\ ThreadInv(t) /\ Live' = Live /\ Contents' = Contents /\ op[t] = "remove"
      /\ val[p_next[t]] = key[t] /\ pc[t] \notin {"idle", "ret"} /\ pc[t] # "deref"
      /\ ~Locking(t) /\ held[t] = 0
  BY <1>1 DEF Live, Contents, ThreadInv, Phase, Cursor, Locking, Progress
<1>3. /\ View(t) /\ seen[t] \subseteq Node /\ p_next[t] \in seen[t] /\ key[t] \in Keys
      /\ bkt[p_next[t]] = Hash(key[t])
  BY <1>2, CursorFacts
<1>4. p_next[t] \notin MaxNodes
  BY <1>2, <1>3, NodeValues, ConstantFacts DEF SortedLists
<1>5. /\ link[p_next[t]] \in seen[t] /\ link[p_next[t]] \in Node
      /\ bkt[link[p_next[t]]] = Hash(key[t]) /\ key[t] < val[link[p_next[t]]]
  BY <1>2, <1>3, <1>4, ViewStep
<1>6. TypeOK'
  <2>1. NodeTypeOK'
    BY <1>1 DEF NodeTypeOK
  <2>2. n' \in [Threads -> Ptr] /\ pc' \in [Threads -> Labels]
    BY <1>1, <1>5 DEF Ptr, Labels
  <2>3. QED
    BY <1>1, <2>1, <2>2
<1>7. Owners'
  BY <1>1, <1>2, OwnersFrame
<1>8. ThreadInv(t)'
  <2>1. Phase(t)' /\ Owns(t)' /\ Recorded(t)' /\ Answered(t)'
    BY <1>1, <1>2 DEF ThreadInv, Phase, Locking, Owns, Inserting, Freeing, Recorded, Answered, Decided
  <2>2. View(t)'
    BY <1>1, <1>2, <1>3, ViewFrame
  <2>3. Cursor(t)'
    BY <1>1, <1>2, <1>3, <1>5, <2>2 DEF ThreadInv, Cursor, Locking
  <2>4. Progress(t)'
    <3>2. (0 < Len(Order(t)))'
      BY OrderLengthNext
    <3>3. held'[t] = 0 /\ pc'[t] \in {"succ", "lock"}
      BY <1>1, <1>2
    <3>4. QED
      BY <3>2, <3>3 DEF Progress, Locking
  <2>5. QED
    BY <2>1, <2>3, <2>4 DEF ThreadInv
<1>9. /\ Inserting(t)' => Inserting(t) /\ p_new_node'[t] = p_new_node[t]
      /\ Freeing(t)' => Freeing(t) /\ p_next'[t] = p_next[t]
  BY <1>1, <1>2 DEF Inserting, Freeing
<1>10. QED
  BY <1>1, <1>6, <1>7, <1>8, <1>9, QuietStep

\* A call starts at the head of its bucket; only a lookup enters an RCU section.
LEMMA BeginInv ==
  ASSUME Inv, NEW t \in Threads, NEW o \in OpNames, NEW k \in Keys, Begin(t, o, k)
  PROVE  Inv' /\ Contents' = Contents
<1> USE DEF Begin, Call, rcu_read_lock, StartAt, Goto, Inv, TypeOK, LocalTypeOK,
            nodeVars, lockVars
<1>1. /\ SameOthers(t) /\ UNCHANGED nodeVars /\ fill' = fill /\ bench' = bench
      /\ \A u \in Threads \ {t} : seen'[u] = seen[u] /\ obs'[u] = obs[u]
      /\ fill = 0 /\ pc[t] = "idle" /\ pc'[t] = "deref" /\ op'[t] = o /\ key'[t] = k
      /\ p_prev'[t] = MinNode[Hash(k)] /\ seen'[t] = Live /\ obs'[t] = {Membership(k)}
      /\ UNCHANGED <<gp, p_next, n, p_new_node, result, owner, held>>
  BY DEF SameOthers, SameThread
<1>2. /\ Live' = Live /\ Contents' = Contents /\ ~Locking(t) /\ ~Locking(t)' /\ held[t] = 0
      /\ o # "none"
  <2>1. Live' = Live /\ Contents' = Contents /\ o # "none"
    BY DEF Live, Contents, OpNames
  <2>2. ~Locking(t) /\ ~Locking(t)' /\ Progress(t)
    BY <1>1 DEF Locking, ThreadInv
  <2>3. QED
    BY <2>1, <2>2 DEF Progress
<1>3. /\ MinNode[Hash(k)] \in Live /\ val[MinNode[Hash(k)]] < k
      /\ bkt[MinNode[Hash(k)]] = Hash(k) /\ Live \subseteq Node
  BY StartFacts
<1>4. TypeOK'
  <2>1. ops'[t] \in 0..MaxOps
    BY BoundsAssumption
  <2>2. ops' \in [Threads -> 0..MaxOps]
    BY <2>1
  <2>3. Membership(k) \in {"present", "absent"}
    BY DEF Membership
  <2>4. rcu' \in [Threads -> Int]
    OBVIOUS
  <2>5. QED
    BY <1>3, <2>2, <2>3, <2>4 DEF NodeTypeOK, Ptr, Labels
<1>5. Owners'
  BY <1>1, <1>2, OwnersFrame
<1>6. ThreadInv(t)'
  <2>1. View(t)'
    BY <1>1, <1>2, ViewStart DEF Membership
  <2>2. Cursor(t)'
    BY <1>1, <1>2, <1>3, <2>1 DEF Cursor
  <2>3. Phase(t)' /\ Owns(t)' /\ Answered(t)' /\ Progress(t)'
    BY <1>1, <1>2 DEF Phase, Owns, Inserting, Freeing, Answered, Decided, Progress
  <2>4. Recorded(t)'
    BY <1>1, <1>2 DEF Recorded, Membership
  <2>5. QED
    BY <2>2, <2>3, <2>4 DEF ThreadInv
<1>7. ~Inserting(t)' /\ ~Freeing(t)'
  BY <1>1 DEF Inserting, Freeing
<1>8. QED
  BY <1>1, <1>4, <1>5, <1>6, <1>7, QuietStep

\* The answers that change nothing; the lookup leaves its RCU section.
LEMMA AnswerInv ==
  ASSUME Inv, NEW t \in Threads, Contains(t) \/ Nothing(t)
  PROVE  Inv' /\ Contents' = Contents
<1> USE DEF Contains, Nothing, rcu_read_unlock, Quiesce, Decide, Goto, Inv, TypeOK, LocalTypeOK,
            nodeVars, rcuVars, driverVars, historyVars, lockVars
<1>1. /\ SameOthers(t) /\ UNCHANGED nodeVars /\ fill' = fill /\ bench' = bench
      /\ pc[t] = "test" /\ pc'[t] = "ret" /\ result'[t] \in {0, 1}
      /\ \A u \in Threads \ {t} : seen'[u] = seen[u]
      /\ UNCHANGED <<op, key, p_prev, p_next, n, p_new_node, obs, owner, held>>
  BY DEF SameOthers, SameThread, Arrived
<1>2. /\ ThreadInv(t) /\ Live' = Live /\ Contents' = Contents
      /\ ~Locking(t) /\ ~Locking(t)' /\ held[t] = 0
  <2>1. Live' = Live /\ Contents' = Contents /\ ThreadInv(t)
    BY DEF Live, Contents
  <2>2. ~Locking(t) /\ ~Locking(t)' /\ Progress(t)
    BY <1>1, <2>1 DEF Locking, ThreadInv
  <2>3. QED
    BY <2>1, <2>2 DEF Progress
<1>3. /\ \A u \in Threads \ {t}, x \in Node : u \in gp[x] => u \in gp'[x]
      /\ gp' \in [Node -> SUBSET Threads]
  BY DEF NodeTypeOK
<1>4. TypeOK'
  <2>1. rcu' \in [Threads -> Int] /\ seen' \in [Threads -> SUBSET Node]
    OBVIOUS
  <2>2. pc' \in [Threads -> Labels] /\ result' \in [Threads -> 0..2]
    BY DEF Labels
  <2>3. QED
    BY <1>1, <1>3, <2>1, <2>2 DEF NodeTypeOK
<1>5. Owners'
  BY <1>1, <1>2, OwnersFrame
<1>6. WasTrue(t, result[t])'
  <2>1. CASE Contains(t)
    BY <1>1, <2>1, ArrivedFacts DEF WasTrue, Arrived, OpNames
  <2>2. CASE Nothing(t)
    BY <1>1, <2>2, ArrivedFacts DEF WasTrue, Arrived, OpNames
  <2>3. QED
    BY <2>1, <2>2
<1>7. ThreadInv(t)'
  <2>1. Phase(t)' /\ Owns(t)' /\ Recorded(t)' /\ Cursor(t)' /\ Progress(t)'
    BY <1>1, <1>2 DEF ThreadInv, Phase, Owns, Inserting, Freeing, Recorded, Cursor, Progress
  <2>2. QED
    BY <1>6, <2>1 DEF ThreadInv, Answered
<1>8. ~Inserting(t)' /\ ~Freeing(t)'
  BY <1>1 DEF Inserting, Freeing
<1>9. QED
  BY <1>1, <1>3, <1>4, <1>5, <1>7, <1>8, QuietStep

\* A lock is held by at most one thread, at one place of its order.
LEMMA Distinct ==
  ASSUME Inv, NEW t \in Threads, Locking(t),
         NEW i \in 1..Len(Order(t)), NEW j \in 1..Len(Order(t)), i < j
  PROVE  Order(t)[i] # Order(t)[j]
<1>1. Rank(Order(t)[i]) < Rank(Order(t)[j]) /\ Rank(Order(t)[i]) \in Int
  BY LockFacts, ConstantFacts
<1>2. QED
  BY <1>1

\* spin_lock() of the next node.
LEMMA LockInv ==
  ASSUME Inv, NEW t \in Threads, Lock(t)
  PROVE  Inv' /\ Contents' = Contents
<1> USE DEF Lock, NextLock, Goto, Inv, TypeOK, LocalTypeOK,
            nodeVars, rcuVars, driverVars, historyVars
<1> DEFINE h == held[t]
<1> DEFINE l == Order(t)[h + 1]
<1>1. /\ SameOthers(t) /\ UNCHANGED nodeVars /\ fill' = fill /\ bench' = bench
      /\ pc[t] = "lock" /\ pc'[t] = (IF h + 1 = Len(Order(t)) THEN "update" ELSE "lock")
      /\ owner[l] = NULL /\ owner' = [owner EXCEPT ![l] = t]
      /\ held' = [held EXCEPT ![t] = h + 1]
      /\ UNCHANGED <<rcu, gp, op, key, p_prev, p_next, n, p_new_node, result, seen, obs>>
  BY DEF SameOthers, SameThread
<1>2. /\ ThreadInv(t) /\ Live' = Live /\ Contents' = Contents /\ Locking(t) /\ Locking(t)'
      /\ Order(t)' = Order(t)
  BY <1>1, SameOrder DEF Live, Contents, Locking
<1>3. h \in 0..6 /\ h < Len(Order(t)) /\ Len(Order(t)) \in 2..6
  BY <1>1, <1>2, LockFacts DEF ThreadInv, Progress
<1>4. l \in Locks /\ h + 1 \in 1..Len(Order(t))
  BY <1>2, <1>3, LockFacts
<1>5. TypeOK'
  <2>1. pc' \in [Threads -> Labels]
    BY <1>1 DEF Labels
  <2>2. owner' \in [Locks -> Threads \union {NULL}]
    BY <1>1, <1>4
  <2>3. held' \in [Threads -> 0..6]
    BY <1>1, <1>3
  <2>4. QED
    BY <1>1, <2>1, <2>2, <2>3 DEF NodeTypeOK
<1>6. Owners'
  <2>1. ASSUME NEW u \in Threads, NEW k \in Locks, u # t
        PROVE  owner'[k] = u <=> \E i \in 1..held'[u] : Order(u)'[i] = k
    <3>1. Order(u)' = Order(u) /\ held'[u] = held[u]
      BY <1>1, <2>1, SameOrder DEF SameOthers, SameThread
    <3>2. owner'[k] = u <=> owner[k] = u
      BY <1>1, <1>4, <2>1, ThreadsAssumption
    <3>3. QED
      BY <3>1, <3>2 DEF Owners
  <2>2. ASSUME NEW k \in Locks
        PROVE  owner'[k] = t <=> \E i \in 1..held'[t] : Order(t)'[i] = k
    <3>1. owner'[k] = t <=> owner[k] = t \/ k = l
      BY <1>1, <1>4
    <3>2. owner[k] = t <=> \E i \in 1..h : Order(t)[i] = k
      BY DEF Owners
    <3>3. held'[t] = h + 1
      BY <1>1
    <3>4. \A i \in 1..h + 1 : i \in 1..h \/ i = h + 1
      BY <1>3
    <3>5. \A i \in 1..h : i \in 1..h + 1
      BY <1>3
    <3>6. h + 1 \in 1..h + 1
      BY <1>3
    <3>7. QED
      BY <1>2, <3>1, <3>2, <3>3, <3>4, <3>5, <3>6
  <2>3. ASSUME NEW u \in Threads, NEW k \in Locks
        PROVE  owner'[k] = u <=> \E i \in 1..held'[u] : Order(u)'[i] = k
    <3>1. CASE u = t
      BY <2>2, <3>1
    <3>2. CASE u # t
      BY <2>1, <3>2
    <3>3. QED
      BY <3>1, <3>2
  <2>4. QED
    BY <2>3 DEF Owners
<1>7. ThreadInv(t)'
  <2>1. Phase(t)' /\ Owns(t)' /\ Recorded(t)' /\ Answered(t)'
    BY <1>1, <1>2 DEF ThreadInv, Phase, Owns, Inserting, Freeing, Recorded, Answered, Decided
  <2>2. View(t)'
    BY <1>1, <1>2, CursorFacts, ViewFrame DEF Locking
  <2>3. Cursor(t)'
    BY <1>1, <1>2, <2>2 DEF ThreadInv, Cursor, Locking
  <2>4. Progress(t)'
    <3>1. held'[t] = h + 1
      BY <1>1
    <3>2. QED
      BY <1>1, <1>2, <1>3, <3>1 DEF Progress
  <2>5. QED
    BY <2>1, <2>3, <2>4 DEF ThreadInv
<1>8. /\ Inserting(t)' => Inserting(t) /\ p_new_node'[t] = p_new_node[t]
      /\ Freeing(t)' => Freeing(t) /\ p_next'[t] = p_next[t]
  BY <1>1 DEF Inserting, Freeing
<1>9. \A u \in Threads \ {t} : seen'[u] = seen[u] /\ obs'[u] = obs[u] /\ held'[u] = held[u]
  BY <1>1
<1>10. QED
  BY <1>1, <1>5, <1>6, <1>7, <1>8, <1>9, QuietStep

\* spin_unlock() of the node locked last.
LEMMA UnlockInv ==
  ASSUME Inv, NEW t \in Threads, Unlock(t)
  PROVE  Inv' /\ Contents' = Contents
<1> USE DEF Unlock, Inv, TypeOK, LocalTypeOK,
            listVars, localVars, nodeVars, rcuVars, driverVars, historyVars
<1> DEFINE h == held[t]
<1> DEFINE l == Order(t)[h]
<1>1. /\ SameOthers(t) /\ UNCHANGED nodeVars /\ fill' = fill /\ bench' = bench
      /\ pc[t] \in {"unlock", "backoff"} /\ h > 0
      /\ owner' = [owner EXCEPT ![l] = NULL] /\ held' = [held EXCEPT ![t] = h - 1]
      /\ UNCHANGED <<rcu, gp, pc, op, key, p_prev, p_next, n, p_new_node, result, seen, obs>>
  BY DEF SameOthers, SameThread
<1>2. /\ ThreadInv(t) /\ Live' = Live /\ Contents' = Contents /\ Locking(t) /\ Locking(t)'
      /\ Order(t)' = Order(t)
  BY <1>1, SameOrder DEF Live, Contents, Locking
<1>3. h \in 1..6 /\ h <= Len(Order(t)) /\ Len(Order(t)) \in 2..6
  BY <1>1, <1>2, LockFacts DEF ThreadInv, Progress
<1>4. l \in Locks /\ h \in 1..Len(Order(t)) /\ owner[l] = t
  <2>1. l \in Locks /\ h \in 1..Len(Order(t)) /\ h \in 1..held[t]
    BY <1>2, <1>3, LockFacts
  <2>2. QED
    BY <2>1 DEF Owners
<1>5. TypeOK'
  <2>1. owner' \in [Locks -> Threads \union {NULL}]
    BY <1>1, <1>4
  <2>2. held' \in [Threads -> 0..6]
    BY <1>1, <1>3
  <2>3. QED
    BY <1>1, <2>1, <2>2 DEF NodeTypeOK
<1>6. Owners'
  <2>1. ASSUME NEW u \in Threads, NEW k \in Locks, u # t
        PROVE  owner'[k] = u <=> \E i \in 1..held'[u] : Order(u)'[i] = k
    <3>1. Order(u)' = Order(u) /\ held'[u] = held[u]
      BY <1>1, <2>1, SameOrder DEF SameOthers, SameThread
    <3>2. owner'[k] = u <=> owner[k] = u
      BY <1>1, <1>4, <2>1, ThreadsAssumption
    <3>3. QED
      BY <3>1, <3>2 DEF Owners
  <2>2. ASSUME NEW k \in Locks
        PROVE  owner'[k] = t <=> \E i \in 1..held'[t] : Order(t)'[i] = k
    <3>1. owner'[k] = t <=> owner[k] = t /\ k # l
      BY <1>1, <1>4, ThreadsAssumption
    <3>2. owner[k] = t <=> \E i \in 1..h : Order(t)[i] = k
      BY DEF Owners
    <3>3. held'[t] = h - 1
      BY <1>1
    <3>4. \A i \in 1..h : i \in 1..h - 1 \/ i = h
      BY <1>3
    <3>5. \A i \in 1..h - 1 : i \in 1..h /\ i \in 1..Len(Order(t)) /\ i < h
      BY <1>3
    <3>6. \A i \in 1..h - 1 : Order(t)[i] # l
      BY <1>2, <1>4, <3>5, Distinct
    <3>7. QED
      BY <1>2, <3>1, <3>2, <3>3, <3>4, <3>5, <3>6
  <2>3. ASSUME NEW u \in Threads, NEW k \in Locks
        PROVE  owner'[k] = u <=> \E i \in 1..held'[u] : Order(u)'[i] = k
    <3>1. CASE u = t
      BY <2>2, <3>1
    <3>2. CASE u # t
      BY <2>1, <3>2
    <3>3. QED
      BY <3>1, <3>2
  <2>4. QED
    BY <2>3 DEF Owners
<1>7. ThreadInv(t)'
  <2>1. Phase(t)' /\ Owns(t)' /\ Recorded(t)' /\ Answered(t)'
    BY <1>1, <1>2 DEF ThreadInv, Phase, Owns, Inserting, Freeing, Recorded, Answered, Decided, WasTrue
  <2>2. View(t)'
    BY <1>1, <1>2, CursorFacts, ViewFrame DEF Locking
  <2>3. Cursor(t)'
    BY <1>1, <1>2, <2>2 DEF ThreadInv, Cursor, Locking
  <2>4. Progress(t)'
    <3>1. held'[t] = h - 1
      BY <1>1
    <3>2. QED
      BY <1>1, <1>2, <1>3, <3>1 DEF Progress
  <2>5. QED
    BY <2>1, <2>3, <2>4 DEF ThreadInv
<1>8. /\ Inserting(t)' => Inserting(t) /\ p_new_node'[t] = p_new_node[t]
      /\ Freeing(t)' => Freeing(t) /\ p_next'[t] = p_next[t]
  BY <1>1 DEF Inserting, Freeing
<1>9. \A u \in Threads \ {t} : seen'[u] = seen[u] /\ obs'[u] = obs[u] /\ held'[u] = held[u]
  BY <1>1
<1>10. QED
  BY <1>1, <1>5, <1>6, <1>7, <1>8, <1>9, QuietStep

\* The validation fails, or the last lock was released: nothing else changes.
LEMMA MoveOnInv ==
  ASSUME Inv, NEW t \in Threads, Invalid(t) \/ Unlocked(t)
  PROVE  Inv' /\ Contents' = Contents
<1> USE DEF Invalid, Unlocked, Goto, Inv, TypeOK, LocalTypeOK,
            nodeVars, rcuVars, driverVars, historyVars, lockVars
<1>1. /\ SameOthers(t) /\ UNCHANGED nodeVars /\ fill' = fill /\ bench' = bench
      /\ \/ pc[t] = "update" /\ pc'[t] = "backoff"
         \/ pc[t] = "unlock" /\ pc'[t] = "ret" /\ held[t] = 0
      /\ UNCHANGED <<rcu, gp, op, key, p_prev, p_next, n, p_new_node, result, seen, obs, owner, held>>
  BY DEF SameOthers, SameThread
<1>2. /\ ThreadInv(t) /\ Live' = Live /\ Contents' = Contents /\ Locking(t) /\ Order(t)' = Order(t)
  BY <1>1, SameOrder DEF Live, Contents, Locking
<1>3. TypeOK'
  BY DEF NodeTypeOK, Labels
<1>4. Owners'
  BY <1>1, <1>2, OwnersFrame
<1>5. ThreadInv(t)'
  <2>1. Phase(t)' /\ Owns(t)' /\ Recorded(t)' /\ Answered(t)'
    BY <1>1, <1>2 DEF ThreadInv, Phase, Locking, Owns, Inserting, Freeing, Recorded, Answered,
                      Decided, WasTrue
  <2>2. View(t)'
    BY <1>1, <1>2, CursorFacts, ViewFrame DEF Locking
  <2>3. Cursor(t)'
    BY <1>1, <1>2, <2>2 DEF ThreadInv, Cursor, Locking
  <2>4. Progress(t)'
    BY <1>1, <1>2 DEF ThreadInv, Progress, Locking
  <2>5. QED
    BY <2>1, <2>3, <2>4 DEF ThreadInv
<1>6. /\ Inserting(t)' => Inserting(t) /\ p_new_node'[t] = p_new_node[t]
      /\ Freeing(t)' => Freeing(t) /\ p_next'[t] = p_next[t]
  BY <1>1 DEF Inserting, Freeing
<1>7. QED
  BY <1>1, <1>3, <1>4, <1>5, <1>6, QuietStep

\* The call returns to the driver.
LEMMA FinishInv ==
  ASSUME Inv, NEW t \in Threads, Finish(t)
  PROVE  Inv' /\ Contents' = Contents
<1> USE DEF Finish, Return, Quiesce, Goto, Inv, TypeOK, LocalTypeOK, nodeVars, driverVars, lockVars
<1>1. /\ SameOthers(t) /\ UNCHANGED nodeVars /\ fill' = fill /\ bench' = bench
      /\ \A u \in Threads \ {t} : seen'[u] = seen[u] /\ obs'[u] = obs[u]
      /\ pc[t] = "ret" /\ pc'[t] = "idle" /\ op'[t] = "none"
      /\ UNCHANGED <<rcu, owner, held>>
  BY DEF SameOthers, SameThread
<1>2. /\ \A u \in Threads \ {t}, x \in Node : u \in gp[x] => u \in gp'[x]
      /\ gp' \in [Node -> SUBSET Threads]
  BY DEF NodeTypeOK
<1>3. ~Locking(t) /\ ~Locking(t)' /\ held[t] = 0
  <2>1. ~Locking(t) /\ ~Locking(t)' /\ Progress(t)
    BY <1>1 DEF Locking, ThreadInv
  <2>2. QED
    BY <2>1 DEF Progress
<1>4. TypeOK'
  BY <1>2 DEF NodeTypeOK, Labels, Ptr, OpNames
<1>5. Owners'
  BY <1>1, <1>3, OwnersFrame
<1>6. ThreadInv(t)'
  <2>1. ThreadInv(t)
    OBVIOUS
  <2>2. Phase(t)' /\ Owns(t)' /\ Answered(t)' /\ Recorded(t)' /\ Cursor(t)'
    BY <1>1, <1>3, <2>1 DEF ThreadInv, Phase, Owns, Inserting, Freeing, Answered, Decided,
                            Recorded, Cursor
  <2>3. Progress(t)'
    BY <1>1, <1>3 DEF Progress
  <2>4. QED
    BY <2>2, <2>3 DEF ThreadInv
<1>7. ~Inserting(t)' /\ ~Freeing(t)'
  BY <1>1 DEF Inserting, Freeing
<1>8. QED
  BY <1>1, <1>2, <1>4, <1>5, <1>6, <1>7, QuietStep

-----------------------------------------------------------------------------
(* Steps that write nodes *)

\* Memory that is given back was in nobody's view and nobody else's to link or
\* to free, so the threads that do not move do not notice.
LEMMA OthersKeepFree ==
  ASSUME Inv, NEW x \in DataNodes, mem' = [mem EXCEPT ![x] = "free"],
         UNCHANGED <<val, link, removed, bkt, gp, fill, bench>>,
         mem[x] \in {"private", "deferred"}, mem[x] = "deferred" => gp[x] = {},
         NEW u \in Threads, SameThread(u), held'[u] = held[u], seen'[u] = seen[u], obs'[u] = obs[u],
         Inserting(u) => p_new_node[u] # x
  PROVE  ThreadInv(u)'
<1>1. SortedLists' /\ Contents' = Contents /\ Live' = Live /\ x \in Node
  BY MemFrame, ConstantFacts DEF Inv, TypeOK
<1>2. \A y \in Node : y # x => mem'[y] = mem[y]
  BY DEF Inv, TypeOK, NodeTypeOK
<1>3. ThreadInv(u) /\ key'[u] = key[u] /\ op'[u] = op[u]
  BY DEF Inv, SameThread
<1>4. Recorded(u)'
  BY <1>1, <1>3 DEF ThreadInv, Recorded
<1>5. pc[u] \notin {"idle", "ret"} => View(u)'
  <2>1. SUFFICES ASSUME pc[u] \notin {"idle", "ret"} PROVE View(u)'
    OBVIOUS
  <2>2. View(u) /\ seen[u] \subseteq Node
    BY <2>1, CursorFacts
  <2>3. x \notin seen[u]
    BY <2>2, NotInView
  <2>4. QED
    BY <1>1, <1>2, <1>3, <2>2, <2>3, ViewFrame
<1>6. Inserting(u) => mem'[p_new_node[u]] = mem[p_new_node[u]]
  BY <1>2, <1>3, ConstantFacts DEF ThreadInv, Owns
<1>7. Freeing(u) => mem'[p_next[u]] = mem[p_next[u]]
  BY <1>2, <1>3, ConstantFacts DEF ThreadInv, Owns
<1>8. QED
  BY <1>4, <1>5, <1>6, <1>7, ThreadFrame

\* A grace period ends: nobody can still stand on the node.
LEMMA ReclaimInv ==
  ASSUME Inv, NEW x \in DataNodes, Reclaim(x), UNCHANGED lockVars
  PROVE  Inv' /\ Contents' = Contents
<1> USE DEF Reclaim, Inv, TypeOK, LocalTypeOK, rcuVars, localVars, driverVars, historyVars, lockVars
<1>1. /\ \A u \in Threads : SameThread(u)
      /\ UNCHANGED <<val, link, removed, bkt, gp, fill, bench, seen, obs, pc, op, p_prev, p_next, n,
                     p_new_node, owner, held>>
      /\ mem' = [mem EXCEPT ![x] = "free"] /\ mem[x] = "deferred" /\ gp[x] = {} /\ x \in Node
  BY ConstantFacts DEF SameThread
<1>2. SortedLists' /\ Contents' = Contents
  BY <1>1, MemFrame
<1>3. TypeOK'
  BY DEF NodeTypeOK, MemState
<1>4. Owners'
  <2>1. \A u \in Threads : Order(u)' = Order(u)
    BY <1>1, SameOrder
  <2>2. QED
    BY <1>1, <2>1 DEF Owners
<1>5. Alone' /\ RemovedFlag'
  BY <1>1 DEF Alone, Inserting, Freeing, RemovedFlag, Stale, NodeTypeOK
<1>6. ASSUME NEW u \in Threads PROVE ThreadInv(u)'
  <2>1. Inserting(u) => p_new_node[u] # x
    BY <1>1 DEF ThreadInv, Owns
  <2>2. QED
    BY <1>1, <2>1, OthersKeepFree
<1>7. QED
  BY <1>2, <1>3, <1>4, <1>5, <1>6

\* kfree() of the new node of a failed add, and the traversal starts again.
LEMMA RetryInv ==
  ASSUME Inv, NEW t \in Threads, Retry(t)
  PROVE  Inv' /\ Contents' = Contents
<1> USE DEF Retry, StartAt, Goto, Inv, TypeOK, LocalTypeOK, rcuVars, driverVars, lockVars
<1> DEFINE x == p_new_node[t]
<1>1. /\ SameOthers(t) /\ fill' = fill /\ bench' = bench
      /\ pc[t] = "backoff" /\ pc'[t] = "deref" /\ held[t] = 0
      /\ p_prev'[t] = MinNode[Hash(key[t])] /\ seen'[t] = Live
      /\ mem' = (IF op[t] = "add" THEN [mem EXCEPT ![x] = "free"] ELSE mem)
      /\ \A u \in Threads \ {t} : seen'[u] = seen[u]
      /\ UNCHANGED <<val, link, removed, bkt, rcu, gp, op, key, p_next, n, p_new_node, result, obs,
                     owner, held>>
  BY DEF SameOthers, SameThread
<1>2. ThreadInv(t) /\ Locking(t) /\ ~Locking(t)'
  BY <1>1 DEF Locking
<1>3. key[t] \in Keys /\ op[t] \in {"add", "remove"}
  BY <1>1, <1>2 DEF ThreadInv, Phase
<1>4. op[t] = "add" => Inserting(t) /\ x \in DataNodes /\ x \in Node /\ mem[x] = "private"
  BY <1>1, <1>2, ConstantFacts DEF ThreadInv, Owns, Inserting
<1>5. SortedLists' /\ Contents' = Contents /\ Live' = Live
  <2>1. CASE op[t] = "add"
    BY <1>1, <1>4, <2>1, MemFrame
  <2>2. CASE op[t] # "add"
    BY <1>1, <2>2, SortedFrame
  <2>3. QED
    BY <2>1, <2>2
<1>6. /\ MinNode[Hash(key[t])] \in Live /\ val[MinNode[Hash(key[t])]] < key[t]
      /\ bkt[MinNode[Hash(key[t])]] = Hash(key[t]) /\ Live \subseteq Node
  BY <1>3, StartFacts
<1>7. TypeOK' /\ RemovedFlag'
  <2>1. NodeTypeOK'
    BY <1>1, <1>4 DEF NodeTypeOK, MemState
  <2>2. pc' \in [Threads -> Labels] /\ p_prev' \in [Threads -> Ptr] /\ seen' \in [Threads -> SUBSET Node]
    BY <1>6 DEF Labels, Ptr
  <2>3. RemovedFlag'
    BY <1>1, <1>4 DEF NodeTypeOK, RemovedFlag, Stale
  <2>4. QED
    BY <1>1, <2>1, <2>2, <2>3
<1>8. Owners'
  BY <1>1, OwnersFrame
<1>9. ~Inserting(t)' /\ ~Freeing(t)'
  BY <1>1 DEF Inserting, Freeing
<1>10. Alone'
  BY <1>1, <1>9, AloneFrame
<1>11. ASSUME NEW u \in Threads, u # t PROVE ThreadInv(u)'
  <2>1. SameThread(u) /\ ThreadInv(u) /\ seen'[u] = seen[u] /\ obs'[u] = obs[u] /\ held'[u] = held[u]
    BY <1>1, <1>11 DEF SameOthers
  <2>2. CASE op[t] = "add"
    <3>1. Inserting(u) => p_new_node[u] # x
      BY <1>4, <1>11, <2>2 DEF Alone
    <3>2. mem' = [mem EXCEPT ![x] = "free"] /\ x \in DataNodes /\ mem[x] = "private"
      BY <1>1, <1>4, <2>2
    <3>3. QED
      BY <1>1, <2>1, <3>1, <3>2, OthersKeepFree
  <2>3. CASE op[t] # "add"
    <3>1. mem' = mem /\ key'[u] = key[u] /\ op'[u] = op[u]
      BY <1>1, <2>3
    <3>2. pc[u] \notin {"idle", "ret"} => View(u)'
      BY <1>1, <1>5, <2>1, <3>1, CursorFacts, ViewFrame
    <3>3. Recorded(u)'
      BY <1>5, <2>1, <3>1 DEF ThreadInv, Recorded
    <3>4. QED
      BY <1>1, <2>1, <3>1, <3>2, <3>3, ThreadFrame
  <2>4. QED
    BY <2>2, <2>3
<1>12. ThreadInv(t)'
  <2>1. Recorded(t)'
    BY <1>1, <1>2, <1>5 DEF ThreadInv, Recorded
  <2>2. View(t)'
    <3>1. /\ key[t] \in Contents => "present" \in obs'[t]
          /\ key[t] \notin Contents => "absent" \in obs'[t]
      BY <1>1, <1>2, <1>3 DEF ThreadInv, Recorded
    <3>2. QED
      BY <1>1, <1>3, <1>5, <3>1, ViewStart
  <2>3. Cursor(t)'
    BY <1>1, <1>2, <1>3, <1>6, <2>2 DEF Cursor
  <2>4. Phase(t)' /\ Owns(t)' /\ Answered(t)' /\ Progress(t)'
    BY <1>1, <1>2, <1>9 DEF ThreadInv, Phase, Owns, Answered, Decided, Progress
  <2>5. QED
    BY <2>1, <2>3, <2>4 DEF ThreadInv
<1>13. QED
  BY <1>5, <1>7, <1>8, <1>10, <1>11, <1>12

\* rcu_new_node() initialises the locks of memory nobody can still hold locked.
LEMMA FreshLocks ==
  ASSUME Inv, NEW x \in Node, mem[x] = "free", NEW l \in Locks, l[1] = x
  PROVE  owner[l] = NULL
<1>1. SUFFICES ASSUME NEW u \in Threads, owner[l] = u PROVE FALSE
  BY DEF Inv, TypeOK
<1>2. PICK i \in 1..held[u] : Order(u)[i] = l
  BY <1>1 DEF Inv, Owners
<1>3. ThreadInv(u) /\ held[u] \in 0..6
  BY DEF Inv, TypeOK
<1>4. Locking(u)
  BY <1>2, <1>3 DEF ThreadInv, Progress
<1>5. i \in 1..Len(Order(u))
  <2>1. held[u] <= Len(Order(u)) /\ Len(Order(u)) \in 2..6
    BY <1>3, <1>4, LockFacts DEF ThreadInv, Progress
  <2>2. QED
    BY <1>3, <2>1
<1>6. x \in seen[u]
  BY <1>2, <1>4, <1>5, LockFacts
<1>7. View(u)
  BY <1>4, CursorFacts DEF Locking
<1>8. QED
  BY <1>6, <1>7, NotInView

\* kmalloc() and the initialisation of the new node.
LEMMA AddNewNodeInv ==
  ASSUME CallIsReader, Inv, NEW t \in Threads, AddNewNode(t)
  PROVE  Inv' /\ Contents' = Contents
<1> USE DEF Goto, Inv, TypeOK, LocalTypeOK, driverVars, historyVars
<1>1. PICK x \in DataNodes :
        /\ NewNode(t, x, key[t], Hash(key[t]), p_next[t])
        /\ p_new_node' = [p_new_node EXCEPT ![t] = x]
        /\ owner' = [l \in Locks |-> IF l[1] = x THEN NULL ELSE owner[l]]
  BY DEF AddNewNode
<1>2. /\ SameOthers(t) /\ fill' = fill /\ bench' = bench /\ held' = held
      /\ pc[t] = "test" /\ pc'[t] = "lock" /\ op[t] = "add" /\ p_new_node'[t] = x
      /\ UNCHANGED <<rcu, op, key, p_prev, p_next, n, result, seen, obs>>
  BY <1>1 DEF AddNewNode, Arrived, SameOthers, SameThread
<1>3. /\ ThreadInv(t) /\ ~Locking(t) /\ Locking(t)' /\ held[t] = 0 /\ Order(t)' = Order(t)
  <2>1. ThreadInv(t) /\ ~Locking(t) /\ Locking(t)'
    BY <1>2 DEF Locking
  <2>2. QED
    BY <1>2, <2>1, SameOrder DEF ThreadInv, Progress
<1>4. /\ p_next[t] \in Node /\ p_next[t] \in seen[t] /\ p_prev[t] \in seen[t]
      /\ key[t] \in Keys /\ key[t] < val[p_next[t]] /\ View(t) /\ seen[t] \subseteq Node
  BY <1>2, CursorFacts, ArrivedFacts DEF AddNewNode, OpNames
<1>5. /\ SortedLists' /\ NodeTypeOK' /\ Contents' = Contents /\ Live' = Live
      /\ mem[x] = "free" /\ x \in Node \ Live /\ Live \subseteq Node
      /\ mem'[x] = "private" /\ val'[x] = key[t] /\ link'[x] = p_next[t] /\ bkt'[x] = Hash(key[t])
      /\ removed'[x] = 0
      /\ \A y \in Node : y # x => /\ mem'[y] = mem[y] /\ val'[y] = val[y] /\ removed'[y] = removed[y]
                                  /\ link'[y] = link[y] /\ bkt'[y] = bkt[y]
      /\ gp' = gp
  BY <1>1, <1>4, NewNodeFacts DEF CallIsReader, SafeBuild
<1>6. owner' = owner
  <2>1. \A l \in Locks : l[1] = x => owner[l] = NULL
    BY <1>5, FreshLocks
  <2>2. owner = [l \in Locks |-> owner[l]]
    OBVIOUS
  <2>3. QED
    BY <1>1, <2>1, <2>2
<1>7. TypeOK' /\ RemovedFlag'
  <2>1. pc' \in [Threads -> Labels] /\ p_new_node' \in [Threads -> Ptr]
    BY <1>1, <1>5 DEF Ptr, Labels, AddNewNode
  <2>2. RemovedFlag'
    BY <1>5 DEF RemovedFlag, Stale
  <2>3. driverVars' = driverVars
    BY DEF AddNewNode
  <2>4. QED
    BY <1>2, <1>5, <1>6, <2>1, <2>2, <2>3
<1>8. Owners'
  BY <1>2, <1>3, <1>6, OwnersFrame
<1>9. \A u \in Threads : /\ Inserting(u) => p_new_node[u] # x /\ p_new_node[u] \in Node
                         /\ Freeing(u) => p_next[u] # x /\ p_next[u] \in Node
  BY <1>5, ConstantFacts DEF ThreadInv, Owns
<1>10. Alone'
  BY <1>2, <1>9 DEF Alone, SameOthers, SameThread, Inserting, Freeing
<1>11. ASSUME NEW u \in Threads, pc[u] \notin {"idle", "ret"}
       PROVE  /\ View(u)' /\ \A y \in seen[u] : val'[y] = val[y] /\ bkt'[y] = bkt[y]
              /\ x \notin seen[u]
  <2>1. View(u) /\ seen[u] \subseteq Node
    BY <1>11, CursorFacts
  <2>2. x \notin seen[u]
    BY <1>5, <2>1, NotInView
  <2>3. QED
    BY <1>2, <1>5, <2>1, <2>2, ViewFrame
<1>12. ASSUME NEW u \in Threads, u # t PROVE ThreadInv(u)'
  <2>1. ThreadInv(u) /\ SameThread(u) /\ held'[u] = held[u]
    BY <1>2, <1>12 DEF SameOthers
  <2>2. Recorded(u)'
    BY <1>2, <1>5, <2>1 DEF ThreadInv, Recorded
  <2>3. QED
    BY <1>2, <1>5, <1>9, <1>11, <2>1, <2>2, ThreadFrame
<1>13. ThreadInv(t)'
  <2>1. Cursor(t)'
    BY <1>2, <1>3, <1>4, <1>11 DEF ThreadInv, Cursor
  <2>2. Owns(t)'
    BY <1>2, <1>5 DEF Owns, Inserting, Freeing
  <2>3. Phase(t)' /\ Answered(t)' /\ Recorded(t)'
    BY <1>2, <1>3, <1>5 DEF ThreadInv, Phase, Answered, Decided, Recorded
  <2>4. Progress(t)'
    <3>1. 0 < Len(Order(t))
      BY OrderLength
    <3>2. QED
      BY <1>2, <1>3, <3>1 DEF Progress
  <2>5. QED
    BY <2>1, <2>2, <2>3, <2>4 DEF ThreadInv
<1>14. QED
  BY <1>5, <1>7, <1>8, <1>10, <1>12, <1>13

\* A node of a view whose flag is clear is still in its list.
LEMMA FlagFacts ==
  ASSUME Inv, NEW t \in Threads, View(t), NEW x \in Node, x \in seen[t], removed[x] = 0
  PROVE  x \in Live
  BY DEF Inv, RemovedFlag, Stale, View, ViewProtected, Live

\* An add that passes the validation has neighbours with the value between them.
LEMMA AddReady ==
  ASSUME Inv, NEW t \in Threads, pc[t] = "update", op[t] = "add", AddValid(t)
  PROVE  InsertReady(t)
<1>1. ThreadInv(t) /\ Locking(t) /\ Inserting(t) /\ pc[t] \notin {"idle", "ret"}
  BY DEF Inv, Locking, Inserting
<1>2. p_prev[t] \in Live
  BY <1>1, CursorFacts, FlagFacts DEF AddValid
<1>3. key[t] < val[p_next[t]]
  BY <1>1 DEF ThreadInv, Cursor
<1>4. QED
  BY <1>1, <1>2, <1>3, CursorFacts DEF AddValid, InsertReady, ThreadInv, Owns

\* RCU_ASSIGN_PTR(p_prev->p_next, p_new_node)
LEMMA AddCommitInv ==
  ASSUME Inv, NEW t \in Threads, AddCommit(t)
  PROVE  Inv' /\ Contents' = Contents \union {key[t]} /\ key[t] \notin Contents
<1> USE DEF AddCommit, Decide, Goto, Inv, TypeOK, LocalTypeOK, rcuVars, driverVars, lockVars
<1>1. /\ SameOthers(t) /\ fill' = fill /\ bench' = bench /\ Publish(t)
      /\ pc[t] = "update" /\ pc'[t] = "unlock" /\ op[t] = "add" /\ result'[t] = 1
      /\ UNCHANGED <<val, removed, bkt, rcu, gp, op, key, p_prev, p_next, n, p_new_node, owner, held>>
  BY DEF SameOthers, SameThread
<1>2. InsertReady(t) /\ ThreadInv(t) /\ Locking(t) /\ Locking(t)' /\ Order(t)' = Order(t)
  BY <1>1, AddReady, SameOrder DEF Locking
<1> DEFINE p == p_prev[t]
<1> DEFINE x == p_new_node[t]
<1>3. /\ SortedLists' /\ NodeTypeOK' /\ Live' = Live \union {x}
      /\ key[t] \notin Contents /\ Contents' = Contents \union {key[t]}
      /\ x \in Node \ Live /\ p \in Node
      /\ mem'[x] = "live"
      /\ \A y \in Node : y # x => mem'[y] = mem[y]
      /\ \A y \in Node : y # p => link'[y] = link[y]
  BY <1>1, <1>2, PublishFacts
<1>4. p \in Live /\ mem[x] = "private"
  BY <1>2 DEF InsertReady
<1>5. Observe(t, "present") /\ \A u \in Threads : obs[u] \subseteq obs'[u]
  BY <1>1 DEF Publish, Observe
<1>6. \A u \in Threads : seen[u] \subseteq seen'[u]
  BY <1>1 DEF Publish
<1>7. TypeOK' /\ RemovedFlag'
  <2>1. seen' \in [Threads -> SUBSET Node] /\ obs' \in [Threads -> SUBSET {"present", "absent"}]
    BY <1>1, <1>3 DEF Publish, Observe
  <2>2. pc' \in [Threads -> Labels] /\ result' \in [Threads -> 0..2]
    BY DEF Labels
  <2>3. LocalTypeOK'
    BY <1>1, <1>3, <2>1, <2>2
  <2>4. RemovedFlag'
    BY <1>1, <1>3, <1>4 DEF RemovedFlag, Stale
  <2>5. QED
    BY <1>1, <1>3, <2>2, <2>3, <2>4
<1>8. Owners'
  BY <1>1, <1>2, OwnersFrame
<1>9. Alone'
  <2>1. ~Inserting(t)' /\ ~Freeing(t)'
    BY <1>1 DEF Inserting, Freeing
  <2>2. QED
    BY <1>1, <2>1, AloneFrame
<1>10. ASSUME NEW u \in Threads PROVE Recorded(u)' /\ (pc[u] \notin {"idle", "ret"} => View(u)')
  <2>1. Recorded(u)'
    BY <1>1, <1>3, <1>5, RecordedPublish DEF ThreadInv
  <2>2. pc[u] \notin {"idle", "ret"} => View(u)'
    <3>1. SUFFICES ASSUME pc[u] \notin {"idle", "ret"} PROVE View(u)'
      OBVIOUS
    <3>2. View(u) /\ seen[u] \subseteq Node /\ key[u] \in Keys /\ op[u] # "none"
      BY <3>1, CursorFacts
    <3>3. QED
      BY <1>1, <1>2, <3>2, ViewPublish
  <2>3. QED
    BY <2>1, <2>2
<1>11. ASSUME NEW u \in Threads, u # t PROVE ThreadInv(u)'
  <2>1. ThreadInv(u) /\ SameThread(u) /\ held'[u] = held[u] /\ obs[u] \subseteq obs'[u]
    BY <1>1, <1>5, <1>11 DEF SameOthers
  <2>2. Inserting(u) => LET z == p_new_node[u] IN mem'[z] = mem[z] /\ link'[z] = link[z]
    <3>1. SUFFICES ASSUME Inserting(u)
                   PROVE  p_new_node[u] \in Node /\ p_new_node[u] # x /\ p_new_node[u] # p
      BY <1>3
    <3>2. p_new_node[u] \in Node /\ mem[p_new_node[u]] = "private"
      BY <2>1, <3>1, ConstantFacts DEF ThreadInv, Owns
    <3>3. Inserting(t)
      BY <1>1 DEF Inserting
    <3>4. QED
      BY <1>4, <1>11, <3>1, <3>2, <3>3 DEF Alone, Live
  <2>3. Freeing(u) => mem'[p_next[u]] = mem[p_next[u]]
    BY <1>3, <1>4, <2>1, ConstantFacts DEF ThreadInv, Owns
  <2>4. QED
    BY <1>1, <1>6, <1>10, <2>1, <2>2, <2>3, ThreadFrame
<1>12. ThreadInv(t)'
  <2>1. Phase(t)' /\ Owns(t)' /\ Answered(t)'
    BY <1>1, <1>2 DEF ThreadInv, Phase, Owns, Inserting, Freeing, Answered, WasTrue
  <2>2. Progress(t)'
    BY <1>1, <1>2 DEF ThreadInv, Progress
  <2>3. Cursor(t)'
    BY <1>1, <1>2, <1>6, <1>10 DEF ThreadInv, Cursor
  <2>4. QED
    BY <1>10, <2>1, <2>2, <2>3 DEF ThreadInv
<1>13. QED
  BY <1>3, <1>7, <1>8, <1>9, <1>11, <1>12

\* A remove that passes the validation has p_prev, p_next and n side by side in the list.
LEMMA RemoveReady ==
  ASSUME Inv, NEW t \in Threads, pc[t] = "update", op[t] = "remove", RemoveValid(t)
  PROVE  DeleteReady(t)
<1>1. ThreadInv(t) /\ Locking(t) /\ pc[t] \notin {"idle", "ret"}
  BY DEF Inv, Locking
<1>2. p_prev[t] \in Live
  BY <1>1, CursorFacts, FlagFacts DEF RemoveValid
<1>3. val[p_next[t]] = key[t]
  BY <1>1 DEF ThreadInv, Cursor
<1>4. QED
  BY <1>1, <1>2, <1>3, CursorFacts DEF RemoveValid, DeleteReady

\* RCU_ASSIGN_PTR(p_prev->p_next, n); p_next->removed = 1
LEMMA RemoveCommitInv ==
  ASSUME Inv, NEW t \in Threads, RemoveCommit(t)
  PROVE  Inv' /\ Contents' = Contents \ {key[t]} /\ key[t] \in Contents
<1> USE DEF RemoveCommit, Decide, Goto, Inv, TypeOK, LocalTypeOK, rcuVars, driverVars, lockVars
<1> DEFINE p == p_prev[t]
<1> DEFINE x == p_next[t]
<1>1. /\ SameOthers(t) /\ fill' = fill /\ bench' = bench /\ Unlink(t)
      /\ pc[t] = "update" /\ pc'[t] = "free" /\ op[t] = "remove" /\ result'[t] = 1
      /\ removed' = [removed EXCEPT ![x] = 1]
      /\ UNCHANGED <<val, bkt, rcu, gp, op, key, p_prev, p_next, n, p_new_node, owner, held>>
  BY DEF SameOthers, SameThread
<1>2. DeleteReady(t) /\ ThreadInv(t) /\ Locking(t) /\ Locking(t)' /\ Order(t)' = Order(t)
  BY <1>1, RemoveReady, SameOrder DEF Locking
<1>3. removed' \in [Node -> {0, 1}]
  BY <1>1 DEF NodeTypeOK
<1>4. /\ SortedLists' /\ NodeTypeOK' /\ Live' = Live \ {x}
      /\ Contents' = Contents \ {key[t]}
      /\ mem'[x] = "unlinked"
      /\ \A y \in Node : y # x => mem'[y] = mem[y]
      /\ \A y \in Node : y # p => link'[y] = link[y]
  BY <1>1, <1>2, <1>3, UnlinkFacts
<1>5. p \in Live /\ p \in Node /\ x \in DataNodes /\ x \in Live /\ x \in Node /\ key[t] \in Contents
  BY <1>2, DeleteReadyFacts DEF DeleteReady
<1>6. Observe(t, "absent") /\ (\A u \in Threads : obs[u] \subseteq obs'[u]) /\ seen' = seen
  BY <1>1 DEF Unlink, Observe
<1>7. TypeOK' /\ RemovedFlag'
  <2>1. obs' \in [Threads -> SUBSET {"present", "absent"}]
    BY <1>6 DEF Observe
  <2>2. pc' \in [Threads -> Labels] /\ result' \in [Threads -> 0..2]
    BY DEF Labels
  <2>3. LocalTypeOK'
    BY <1>1, <1>4, <1>6, <2>1, <2>2
  <2>4. RemovedFlag'
    BY <1>1, <1>4, <1>5 DEF RemovedFlag, Stale, NodeTypeOK
  <2>5. QED
    BY <1>1, <1>4, <2>2, <2>3, <2>4
<1>8. Owners'
  BY <1>1, <1>2, OwnersFrame
<1>9. \A u \in Threads : /\ Inserting(u) => p_new_node[u] # x /\ p_new_node[u] # p /\ p_new_node[u] \in Node
                         /\ Freeing(u) => p_next[u] # x /\ p_next[u] \in Node
  BY <1>5, ConstantFacts DEF ThreadInv, Owns, Live
<1>10. Alone'
  BY <1>1, <1>9 DEF Alone, SameOthers, SameThread, Inserting, Freeing
<1>11. ASSUME NEW u \in Threads PROVE Recorded(u)' /\ (pc[u] \notin {"idle", "ret"} => View(u)')
  <2>1. Recorded(u)'
    BY <1>1, <1>4, <1>6, RecordedUnlink DEF ThreadInv
  <2>2. pc[u] \notin {"idle", "ret"} => View(u)'
    <3>1. SUFFICES ASSUME pc[u] \notin {"idle", "ret"} PROVE View(u)'
      OBVIOUS
    <3>2. View(u) /\ seen[u] \subseteq Node /\ key[u] \in Keys /\ op[u] # "none"
      BY <3>1, CursorFacts
    <3>3. QED
      BY <1>1, <1>2, <1>3, <3>2, ViewUnlink
  <2>3. QED
    BY <2>1, <2>2
<1>12. ASSUME NEW u \in Threads, u # t PROVE ThreadInv(u)'
  <2>1. /\ ThreadInv(u) /\ SameThread(u) /\ held'[u] = held[u] /\ obs[u] \subseteq obs'[u]
        /\ seen'[u] = seen[u]
    BY <1>1, <1>6, <1>12 DEF SameOthers
  <2>2. Inserting(u) => LET z == p_new_node[u] IN mem'[z] = mem[z] /\ link'[z] = link[z]
    BY <1>4, <1>9
  <2>3. Freeing(u) => mem'[p_next[u]] = mem[p_next[u]]
    BY <1>4, <1>9
  <2>4. QED
    BY <1>1, <1>11, <2>1, <2>2, <2>3, ThreadFrame
<1>13. ThreadInv(t)'
  <2>1. Phase(t)' /\ Owns(t)' /\ Answered(t)'
    BY <1>1, <1>2, <1>4, <1>5 DEF ThreadInv, Phase, Owns, Inserting, Freeing, Answered, WasTrue
  <2>2. Progress(t)'
    BY <1>1, <1>2 DEF ThreadInv, Progress
  <2>3. Cursor(t)'
    BY <1>1, <1>2, <1>6, <1>11 DEF ThreadInv, Cursor
  <2>4. QED
    BY <1>11, <2>1, <2>2, <2>3 DEF ThreadInv
<1>14. QED
  BY <1>4, <1>5, <1>7, <1>8, <1>10, <1>12, <1>13

\* rcu_free_node(p_next) before the locks are released: the grace period waits
\* for every call under way, the remover's included.
LEMMA FreeInv ==
  ASSUME CallIsReader, Inv, NEW t \in Threads, Free(t)
  PROVE  Inv' /\ Contents' = Contents
<1> USE DEF Free, Goto, Inv, TypeOK, LocalTypeOK, driverVars, historyVars, lockVars
<1> DEFINE x == p_next[t]
<1>1. /\ SameOthers(t) /\ fill' = fill /\ bench' = bench /\ kfree_rcu(x)
      /\ pc[t] = "free" /\ pc'[t] = "unlock"
      /\ UNCHANGED <<val, link, removed, bkt, rcu, op, key, p_prev, p_next, n, p_new_node,
                     result, seen, obs, owner, held>>
  BY DEF SameOthers, SameThread
<1>2. /\ ThreadInv(t) /\ op[t] = "remove" /\ Freeing(t)
      /\ x \in DataNodes /\ x \in Node /\ mem[x] = "unlinked"
  BY <1>1, ConstantFacts DEF ThreadInv, Phase, Owns, Freeing
<1>3. Locking(t) /\ Locking(t)' /\ Order(t)' = Order(t)
  BY <1>1, SameOrder DEF Locking
<1>4. mem' = [mem EXCEPT ![x] = "deferred"] /\ gp' = [gp EXCEPT ![x] = {u \in Threads : Reader(u)}]
  BY <1>1 DEF kfree_rcu
<1>5. SortedLists' /\ Contents' = Contents /\ Live' = Live
  BY <1>1, <1>2, <1>4, MemFrame
<1>6. \A y \in Node : y # x => mem'[y] = mem[y]
  BY <1>4 DEF NodeTypeOK
<1>7. TypeOK' /\ RemovedFlag'
  <2>1. NodeTypeOK'
    BY <1>1, <1>2, <1>4 DEF NodeTypeOK, MemState
  <2>2. RemovedFlag'
    BY <1>1, <1>2, <1>4 DEF RemovedFlag, Stale, NodeTypeOK
  <2>3. QED
    BY <1>1, <2>1, <2>2 DEF Labels
<1>8. Owners'
  BY <1>1, <1>3, OwnersFrame
<1>9. Alone'
  <2>1. ~Inserting(t)' /\ ~Freeing(t)'
    BY <1>1 DEF Inserting, Freeing
  <2>2. QED
    BY <1>1, <2>1, AloneFrame
<1>10. ASSUME NEW u \in Threads PROVE Recorded(u)' /\ (pc[u] \notin {"idle", "ret"} => View(u)')
  <2>1. Recorded(u)'
    BY <1>1, <1>5 DEF ThreadInv, Recorded
  <2>2. pc[u] \notin {"idle", "ret"} => View(u)'
    <3>1. SUFFICES ASSUME pc[u] \notin {"idle", "ret"} PROVE View(u)'
      OBVIOUS
    <3>2. View(u) /\ seen[u] \subseteq Node
      BY <3>1, CursorFacts
    <3>3. Reader(u)
      BY <3>1 DEF Reader, CallIsReader
    <3>4. QED
      BY <1>1, <1>2, <3>2, <3>3, ViewDefer
  <2>3. QED
    BY <2>1, <2>2
<1>11. ASSUME NEW u \in Threads, u # t PROVE ThreadInv(u)'
  <2>1. /\ ThreadInv(u) /\ SameThread(u) /\ held'[u] = held[u] /\ obs'[u] = obs[u]
        /\ seen'[u] = seen[u]
    BY <1>1, <1>11 DEF SameOthers
  <2>2. /\ Inserting(u) => p_new_node[u] # x /\ p_new_node[u] \in Node
        /\ Freeing(u) => p_next[u] # x /\ p_next[u] \in Node
    BY <1>2, <1>11, <2>1, ConstantFacts DEF ThreadInv, Owns, Alone
  <2>3. QED
    BY <1>1, <1>6, <1>10, <2>1, <2>2, ThreadFrame
<1>12. ThreadInv(t)'
  <2>1. Phase(t)' /\ Owns(t)' /\ Answered(t)'
    BY <1>1, <1>2 DEF ThreadInv, Phase, Owns, Inserting, Freeing, Answered, Decided, WasTrue
  <2>2. Progress(t)'
    <3>1. held[t] = Len(Order(t)) /\ held[t] \in Int
      BY <1>1, <1>2 DEF ThreadInv, Progress
    <3>2. QED
      BY <1>1, <1>3, <3>1 DEF Progress
  <2>3. Cursor(t)'
    BY <1>1, <1>2, <1>10 DEF ThreadInv, Cursor, Locking
  <2>4. QED
    BY <1>10, <2>1, <2>2, <2>3 DEF ThreadInv
<1>13. QED
  BY <1>5, <1>7, <1>8, <1>9, <1>11, <1>12

\* The table is half filled while no thread runs.
LEMMA HalfFillInv ==
  ASSUME Inv, NEW k \in Keys, HalfFill(k), UNCHANGED lockVars
  PROVE  /\ Inv' /\ \A t \in Threads : op[t] = "none"
         /\ Contents' = Contents \/ Contents' = Contents \union {k}
<1> USE DEF HalfFill, Inv, TypeOK, LocalTypeOK, lockVars
<1>1. /\ UNCHANGED <<rcu, gp, bench, ops, seen, obs, pc, op, key, p_prev, p_next, n, p_new_node,
                     result, owner, held>>
      /\ fill' = fill - 1 /\ fill > 0 /\ FillWith(k)
  BY DEF FillWith, rcuVars, localVars, historyVars
<1>2. /\ NodeTypeOK' /\ SortedLists'
      /\ Contents' = Contents \/ Contents' = Contents \union {k}
  BY <1>1, FillFacts
<1>3. \A t \in Threads : pc[t] = "idle" /\ op[t] = "none"
  BY <1>1 DEF ThreadInv, Phase
<1>4. TypeOK'
  <2>1. fill' \in 0..FillOps
    BY <1>1, BoundsAssumption
  <2>2. QED
    BY <1>1, <1>2, <2>1
<1>5. RemovedFlag'
  <2>1. \A x \in Node : mem[x] # "live" /\ mem'[x] # "live" =>
              mem'[x] = mem[x] /\ removed'[x] = removed[x]
    BY <1>1, FillFacts
  <2>2. \A x \in Node : mem'[x] = "live" => mem[x] = "live" \/ removed'[x] = 0
    BY <1>1, FillFacts
  <2>3. \A x \in Node : mem[x] = "live" => removed'[x] = removed[x] /\ mem'[x] = "live"
    BY <1>1, FillFacts
  <2>4. QED
    BY <2>1, <2>2, <2>3 DEF RemovedFlag, Stale
<1>6. Owners'
  <2>1. \A u \in Threads : Order(u)' = Order(u)
    BY <1>1, SameOrder
  <2>2. QED
    BY <1>1, <2>1 DEF Owners
<1>7. Alone'
  BY <1>1, <1>3 DEF Alone, Inserting, Freeing
<1>8. ASSUME NEW u \in Threads PROVE ThreadInv(u)'
  <2>1. ThreadInv(u) /\ pc[u] = "idle" /\ op[u] = "none"
    BY <1>3
  <2>2. ~Locking(u) /\ ~Locking(u)'
    BY <1>1, <2>1 DEF Locking
  <2>3. QED
    BY <1>1, <2>1, <2>2 DEF ThreadInv, Phase, Cursor, Progress,
                      Owns, Inserting, Freeing, Answered, Decided, Recorded
<1>9. QED
  BY <1>2, <1>3, <1>4, <1>5, <1>6, <1>7, <1>8

\* A new table, and nobody at work.
LEMMA InitInv ==
  ASSUME Init
  PROVE  Inv
<1>1. ListInit /\ owner = [l \in Locks |-> NULL] /\ held = [t \in Threads |-> 0]
  BY DEF Init
<1>2. /\ NodeTypeOK /\ LocalTypeOK /\ SortedLists
      /\ \A x \in Node : mem[x] \in {"live", "free"} /\ removed[x] = 0
  BY <1>1, ListInitFacts
<1>3. \A t \in Threads : pc[t] = "idle" /\ op[t] = "none" /\ held[t] = 0
  BY <1>1 DEF ListInit
<1>4. TypeOK
  BY <1>1, <1>2 DEF TypeOK, Labels, ListInit
<1>5. Owners
  BY <1>1, <1>3, ThreadsAssumption DEF Owners
<1>6. Alone /\ RemovedFlag
  BY <1>2, <1>3 DEF Alone, Inserting, Freeing, RemovedFlag, Stale
<1>7. ASSUME NEW t \in Threads PROVE ThreadInv(t)
  <2>1. ~Locking(t) /\ pc[t] = "idle" /\ op[t] = "none" /\ held[t] = 0
    BY <1>3 DEF Locking
  <2>2. QED
    BY <2>1 DEF ThreadInv, Phase, Cursor, Progress,
              Owns, Inserting, Freeing, Answered, Decided, Recorded
<1>8. QED
  BY <1>2, <1>4, <1>5, <1>6, <1>7 DEF Inv

\* Nothing happens.
LEMMA StutterInv ==
  ASSUME Inv, UNCHANGED vars
  PROVE  Inv'
<1> USE DEF vars, listVars, nodeVars, rcuVars, localVars, driverVars, historyVars, lockVars
<1>1. SortedLists' /\ Live' = Live /\ Contents' = Contents
  BY SortedFrame DEF Inv
<1>2. TypeOK' /\ RemovedFlag' /\ Alone'
  BY DEF Inv, TypeOK, NodeTypeOK, LocalTypeOK, RemovedFlag, Stale, Alone, Inserting, Freeing
<1>3. Owners'
  <2>1. \A u \in Threads : Order(u)' = Order(u)
    BY SameOrder
  <2>2. QED
    BY <2>1 DEF Owners, Inv
<1>4. ASSUME NEW u \in Threads PROVE ThreadInv(u)'
  <2>1. ThreadInv(u) /\ SameThread(u) /\ held'[u] = held[u]
    BY DEF Inv, SameThread
  <2>2. Recorded(u)'
    BY <1>1, <2>1 DEF ThreadInv, Recorded
  <2>3. pc[u] \notin {"idle", "ret"} => View(u)'
    BY <1>1, CursorFacts, ViewFrame
  <2>4. QED
    BY <1>1, <2>1, <2>2, <2>3, ThreadFrame
<1>5. QED
  BY <1>1, <1>2, <1>3, <1>4 DEF Inv

\* Every step keeps the invariant.
LEMMA NextInv ==
  ASSUME Inv, CallIsReader, [Next]_vars
  PROVE  Inv'
<1>1. ASSUME NEW k \in Keys, HalfFill(k), UNCHANGED lockVars PROVE Inv'
  BY <1>1, HalfFillInv
<1>2. ASSUME NEW t \in Threads, NEW o \in OpNames, NEW k \in Keys, Begin(t, o, k) PROVE Inv'
  BY <1>2, BeginInv
<1>3. ASSUME NEW t \in Threads, Lock(t) PROVE Inv'
  BY <1>3, LockInv
<1>4. ASSUME NEW t \in Threads, Step(t) PROVE Inv'
  <2>1. CASE Traverse(t) \/ Contains(t) \/ Nothing(t)
    BY <2>1, TraverseInv, AnswerInv
  <2>2. CASE Add(t)
    BY <2>2, AddNewNodeInv, AddCommitInv DEF Add
  <2>3. CASE Remove(t)
    BY <2>3, RemoveReadInv, RemoveCommitInv, FreeInv DEF Remove
  <2>4. CASE Invalid(t) \/ Unlock(t) \/ Unlocked(t) \/ Retry(t) \/ Finish(t)
    BY <2>4, MoveOnInv, UnlockInv, RetryInv, FinishInv
  <2>5. QED
    BY <1>4, <2>1, <2>2, <2>3, <2>4 DEF Step
<1>5. ASSUME Kernel PROVE Inv'
  BY <1>5, ReclaimInv DEF Kernel
<1>6. CASE UNCHANGED vars
  BY <1>6, StutterInv
<1>7. QED
  BY <1>1, <1>2, <1>3, <1>4, <1>5, <1>6 DEF Next

(***************************************************************************)
(* The inductive invariant of the lists with a lock per node.              *)
(***************************************************************************)
THEOREM Invariance ==
  ASSUME CallIsReader
  PROVE  Spec => []Inv
<1>1. Init => Inv
  BY InitInv
<1>2. Inv /\ [Next]_vars => Inv'
  BY NextInv
<1>3. QED
  BY <1>1, <1>2, PTL DEF Spec

\* Every variable keeps its type; no thread holds more than the locks of three
\* nodes at two levels.
THEOREM TypeCorrect ==
  ASSUME CallIsReader
  PROVE  Spec => []TypeOK
<1>1. Inv => TypeOK
  BY DEF Inv
<1>2. QED
  BY <1>1, Invariance, PTL

\* No thread dereferences freed memory, in a traversal, validation or commit,
\* although the updates contain no rcu_read_lock().
LEMMA TouchesMemory ==
  ASSUME Inv
  PROVE  NoUseAfterFree
<1>1. SUFFICES ASSUME NEW t \in Threads, NEW x \in Touches(t)
               PROVE  mem[x] # "free"
  BY DEF NoUseAfterFree
<1>2. ThreadInv(t)
  BY DEF Inv
<1>3. pc[t] \in {"deref", "test", "succ", "update", "free"}
  BY <1>1 DEF Touches
<1>4. pc[t] \notin {"idle", "ret"}
  BY <1>3
<1>5. \A y \in seen[t] : mem[y] # "free"
  BY <1>4, CursorFacts DEF View, ViewProtected
<1>6. p_prev[t] \in seen[t] /\ (pc[t] # "deref" => p_next[t] \in seen[t])
  BY <1>4, CursorFacts
<1>7. pc[t] = "update" => /\ op[t] \in {"add", "remove"}
                          /\ op[t] = "remove" => n[t] \in seen[t]
                          /\ op[t] = "add" => mem[p_new_node[t]] = "private"
  BY <1>2 DEF ThreadInv, Phase, Cursor, Locking, Owns, Inserting
<1>8. QED
  BY <1>1, <1>3, <1>5, <1>6, <1>7 DEF Touches

\* Every lock that is about to be taken or released lies in memory that is
\* still allocated, the locks of the removed node included, which are released
\* after rcu_free_node().
THEOREM LocksStayAllocated ==
  ASSUME CallIsReader
  PROVE  Spec => []LocksInMemory
<1>1. ASSUME Inv PROVE LocksInMemory
  <2>1. NoUseAfterFree
    BY <1>1, TouchesMemory
  <2>2. ASSUME NEW t \in Threads, Locking(t), NEW i \in 1..Len(Order(t))
        PROVE  mem[Order(t)[i][1]] # "free"
    <3>1. Order(t)[i][1] \in seen[t]
      BY <1>1, <2>2, LockFacts
    <3>2. View(t)
      BY <1>1, <2>2, CursorFacts DEF Locking
    <3>3. QED
      BY <3>1, <3>2 DEF View, ViewProtected
  <2>3. ASSUME NEW t \in Threads, pc[t] = "lock" PROVE mem[NextLock(t)[1]] # "free"
    <3>1. Locking(t) /\ held[t] < Len(Order(t)) /\ held[t] \in 0..6
      BY <1>1, <2>3 DEF Locking, Inv, ThreadInv, Progress, TypeOK
    <3>2. Len(Order(t)) \in 2..6
      BY <1>1, <3>1, LockFacts
    <3>3. held[t] + 1 \in 1..Len(Order(t))
      BY <3>1, <3>2
    <3>4. QED
      BY <2>2, <3>1, <3>3 DEF NextLock
  <2>4. ASSUME NEW t \in Threads, pc[t] \in {"unlock", "backoff"}, NEW i \in 1..held[t]
        PROVE  mem[Order(t)[i][1]] # "free"
    <3>1. Locking(t) /\ held[t] <= Len(Order(t)) /\ held[t] \in 0..6
      BY <1>1, <2>4 DEF Locking, Inv, ThreadInv, Progress, TypeOK
    <3>2. Len(Order(t)) \in 2..6
      BY <1>1, <3>1, LockFacts
    <3>3. i \in 1..Len(Order(t))
      BY <3>1, <3>2
    <3>4. QED
      BY <2>2, <3>1, <3>3
  <2>5. QED
    BY <2>1, <2>3, <2>4 DEF LocksInMemory
<1>2. QED
  BY <1>1, Invariance, PTL

\* A thread that waits holds only locks of lower rank than the one it waits for.
LEMMA WaitsUpwards ==
  ASSUME Inv, NEW t \in Threads, NEW u \in Threads, pc[t] = "lock", pc[u] = "lock",
         owner[NextLock(t)] = u
  PROVE  /\ Rank(NextLock(t)) < Rank(NextLock(u))
         /\ Rank(NextLock(t)) \in LIST_VAL_MIN .. 2 * LIST_VAL_MAX - LIST_VAL_MIN + 1
         /\ Rank(NextLock(u)) \in LIST_VAL_MIN .. 2 * LIST_VAL_MAX - LIST_VAL_MIN + 1
<1>1. ASSUME NEW v \in Threads, pc[v] = "lock"
      PROVE  /\ held[v] + 1 \in 1..Len(Order(v)) /\ Locking(v) /\ held[v] \in 0..6
             /\ Len(Order(v)) \in 2..6
  <2>1. Locking(v) /\ held[v] < Len(Order(v)) /\ held[v] \in 0..6
    BY <1>1 DEF Locking, Inv, ThreadInv, Progress, TypeOK
  <2>2. Len(Order(v)) \in 2..6
    BY <2>1, LockFacts
  <2>3. QED
    BY <2>1, <2>2
<1>2. NextLock(t) \in Locks
  BY <1>1, LockFacts DEF NextLock
<1>3. PICK i \in 1..held[u] : Order(u)[i] = NextLock(t)
  BY <1>2 DEF Inv, Owners
<1>4. i \in 1..Len(Order(u)) /\ i < held[u] + 1
  BY <1>1
<1>5. Rank(Order(u)[i]) < Rank(Order(u)[held[u] + 1])
  BY <1>1, <1>4, LockFacts
<1>6. QED
  BY <1>1, <1>3, <1>4, <1>5, LockFacts DEF NextLock

\* No set of threads waits for one another: whatever stale views the threads
\* have, every one of them takes locks in the order of Rank, and the one that
\* waits for the greatest lock waits for nobody in the set.
THEOREM DeadlockFree ==
  ASSUME CallIsReader
  PROVE  Spec => []NoLockCycle
<1>1. ASSUME Inv PROVE NoLockCycle
  <2>1. SUFFICES ASSUME NEW S \in SUBSET Threads, S # {}, \A t \in S : WaitsFor(t, S)
                 PROVE  FALSE
    BY DEF NoLockCycle
  <2> DEFINE top == 2 * LIST_VAL_MAX - LIST_VAL_MIN + 1
  <2> DEFINE Distance(t) == top - Rank(NextLock(t))
  <2> DEFINE D == {Distance(t) : t \in S}
  <2>2. ASSUME NEW t \in S PROVE \E u \in S : Distance(u) < Distance(t) /\ Distance(t) \in Nat
    <3>1. pc[t] = "lock" /\ owner[NextLock(t)] \in S
      BY <2>1 DEF WaitsFor
    <3>2. PICK u \in S : owner[NextLock(t)] = u
      BY <3>1
    <3>3. pc[u] = "lock" /\ t \in Threads /\ u \in Threads
      BY <2>1 DEF WaitsFor
    <3>4. /\ Rank(NextLock(t)) < Rank(NextLock(u))
          /\ Rank(NextLock(t)) \in LIST_VAL_MIN .. top
          /\ Rank(NextLock(u)) \in LIST_VAL_MIN .. top
      BY <1>1, <3>1, <3>2, <3>3, WaitsUpwards
    <3>5. QED
      BY <3>4, ConstantFacts
  <2> HIDE DEF Distance
  <2>3. D \in SUBSET Nat /\ D # {}
    BY <2>1, <2>2
  <2>4. PICK m \in D : \A i \in D : m <= i
    BY <2>3, LeastNatural
  <2>5. PICK t \in S : m = Distance(t)
    BY <2>4
  <2>6. PICK u \in S : Distance(u) < Distance(t)
    BY <2>2
  <2>7. Distance(u) \in Nat /\ Distance(t) \in Nat /\ Distance(u) \in D
    BY <2>2
  <2>8. QED
    BY <2>4, <2>5, <2>6, <2>7
<1>2. QED
  BY <1>1, Invariance, PTL

\* The buckets stay sorted and free of duplicates.
THEOREM ListsSorted ==
  ASSUME CallIsReader
  PROVE  Spec => []SortedLists
<1>1. Inv => SortedLists
  BY DEF Inv
<1>2. QED
  BY <1>1, Invariance, PTL

\* The validation under the locks catches every update that would be linked to
\* an unlinked node: no insertion is lost and no removed node comes back.
THEOREM UpdatesNotLost ==
  ASSUME CallIsReader
  PROVE  Spec => []NoLostUpdate
<1>1. Inv => NoLostUpdate
  BY NothingLost DEF Inv, TypeOK
<1>2. QED
  BY <1>1, Invariance, PTL

\* Every answer was true at some moment of the call.
THEOREM AnswersLinearizable ==
  ASSUME CallIsReader
  PROVE  Spec => []Linearizable
<1>1. Inv => Linearizable
  BY DEF Inv, ThreadInv, Answered, Linearizable
<1>2. QED
  BY <1>1, Invariance, PTL

-----------------------------------------------------------------------------
(***************************************************************************)
(* The lists with a lock per node implement the abstract set.              *)
(***************************************************************************)

\* Answers that change nothing are answers of the abstract set.
LEMMA RefineReport ==
  ASSUME Inv, NEW t \in Threads, Contains(t) \/ Nothing(t)
  PROVE  Abstract!Next
<1>1. Contents' = Contents
  BY AnswerInv
<1>2. /\ pc[t] = "test" /\ ~Decided(t) /\ Decided(t)' /\ UNCHANGED <<op, key, obs>>
      /\ \A u \in Threads : u # t => pc'[u] = pc[u] /\ result'[u] = result[u]
      /\ op[t] # "none"
  BY DEF Contains, Nothing, Arrived, Decide, Goto, Decided, historyVars, Inv, TypeOK, LocalTypeOK
<1>3. CASE Contains(t)
  <2> DEFINE r == IF Found(t) THEN 1 ELSE 0
  <2>1. Arrived(t, "contains") /\ op[t] = "contains" /\ result'[t] = r
    BY <1>3 DEF Contains, Arrived, Decide, Inv, TypeOK, LocalTypeOK
  <2>2. Abstract!Answer(t, r)
    BY <1>2, <2>1, AnswerStep
  <2>3. IF Found(t) THEN "present" \in obs[t] ELSE "absent" \in obs[t]
    BY <2>1, ArrivedFacts DEF OpNames
  <2>4. QED
    BY <1>1, <1>2, <2>1, <2>2, <2>3, ReportStep
<1>4. CASE Nothing(t)
  <2>1. /\ result'[t] = 0
        /\ \/ Arrived(t, "add") /\ op[t] = "add" /\ Found(t)
           \/ Arrived(t, "remove") /\ op[t] = "remove" /\ ~Found(t)
    BY <1>4 DEF Nothing, Arrived, Decide, Inv, TypeOK, LocalTypeOK
  <2>2. Abstract!Answer(t, 0)
    BY <1>2, <2>1, AnswerStep
  <2>3. \/ op[t] = "add" /\ "present" \in obs[t]
        \/ op[t] = "remove" /\ "absent" \in obs[t]
    BY <2>1, ArrivedFacts DEF OpNames
  <2>4. QED
    BY <1>1, <1>2, <2>2, <2>3, ReportStep
<1>5. QED
  BY <1>3, <1>4

\* The commit under the locks is the linearization point.
LEMMA RefineUpdate ==
  ASSUME Inv, NEW t \in Threads, AddCommit(t) \/ RemoveCommit(t)
  PROVE  Abstract!Next
<1>1. CASE AddCommit(t)
  <2>1. Contents' = Contents \union {key[t]} /\ key[t] \notin Contents
    BY <1>1, AddCommitInv
  <2>2. /\ op[t] = "add" /\ ~Decided(t) /\ Decided(t)' /\ UNCHANGED <<op, key>> /\ result'[t] = 1
        /\ \A u \in Threads : u # t => pc'[u] = pc[u] /\ result'[u] = result[u]
        /\ Observe(t, "present")
    BY <1>1 DEF AddCommit, Publish, Decide, Goto, Decided, Inv, TypeOK, LocalTypeOK
  <2>3. Abstract!Answer(t, 1)
    BY <2>2, AnswerStep
  <2>4. QED
    BY <2>1, <2>2, <2>3, InsertStep
<1>2. CASE RemoveCommit(t)
  <2>1. Contents' = Contents \ {key[t]} /\ key[t] \in Contents
    BY <1>2, RemoveCommitInv
  <2>2. /\ op[t] = "remove" /\ ~Decided(t) /\ Decided(t)' /\ UNCHANGED <<op, key>> /\ result'[t] = 1
        /\ \A u \in Threads : u # t => pc'[u] = pc[u] /\ result'[u] = result[u]
        /\ Observe(t, "absent")
    BY <1>2 DEF RemoveCommit, Unlink, Decide, Goto, Decided, Inv, TypeOK, LocalTypeOK
  <2>3. Abstract!Answer(t, 1)
    BY <2>2, AnswerStep
  <2>4. QED
    BY <2>1, <2>2, <2>3, DeleteStep
<1>3. QED
  BY <1>1, <1>2

\* Calls and returns are calls and returns of the abstract set.
LEMMA RefineCallReturn ==
  ASSUME Inv, NEW t \in Threads,
         \/ \E o \in OpNames, k \in Keys : Begin(t, o, k)
         \/ Finish(t)
  PROVE  Abstract!Next
<1>1. ASSUME NEW o \in OpNames, NEW k \in Keys, Begin(t, o, k) PROVE Abstract!Next
  <2>1. Contents' = Contents
    BY <1>1, BeginInv
  <2>2. /\ Call(t, o, k) /\ pc[t] = "idle" /\ result' = result /\ ~Decided(t)' /\ ~Decided(t)
        /\ \A u \in Threads : u # t => pc'[u] = pc[u]
    BY <1>1 DEF Begin, Call, StartAt, Goto, Decided, Inv, TypeOK
  <2>3. op[t] = "none"
    BY <2>2 DEF Inv, ThreadInv, Phase
  <2>4. QED
    BY <2>1, <2>2, <2>3, CallStep
<1>2. CASE Finish(t)
  <2>1. Contents' = Contents
    BY <1>2, FinishInv
  <2>2. Return(t) /\ pc'[t] = "idle" /\ \A u \in Threads : u # t => pc'[u] = pc[u]
    BY <1>2 DEF Finish, Return, Goto, Inv, TypeOK
  <2>3. QED
    BY <2>1, <2>2, ReturnStep DEF Inv, TypeOK
<1>3. QED
  BY <1>1, <1>2

\* The other steps of a call are invisible.
LEMMA RefineInvisible ==
  ASSUME Inv, CallIsReader, NEW t \in Threads,
         \/ Traverse(t) \/ AddNewNode(t) \/ RemoveFound(t) \/ RemoveReadSucc(t) \/ Lock(t)
         \/ Free(t) \/ Invalid(t) \/ Unlock(t) \/ Unlocked(t) \/ Retry(t)
  PROVE  UNCHANGED Abstract!vars
<1>1. Contents' = Contents
  BY TraverseInv, AddNewNodeInv, RemoveReadInv, LockInv, FreeInv, MoveOnInv, UnlockInv, RetryInv
<1>2. /\ UNCHANGED <<op, key, obs, result>> /\ (Decided(t)' <=> Decided(t))
      /\ \A u \in Threads : u # t => pc'[u] = pc[u]
  <2>1. CASE Unlock(t)
    BY <2>1 DEF Unlock, listVars, localVars, historyVars, Decided
  <2>2. CASE ~Unlock(t)
    BY <2>2 DEF Traverse, Deref, Advance, AddNewNode, RemoveFound, RemoveReadSucc, Lock, Free,
                Invalid, Unlocked, Retry, Arrived, StartAt, Goto, Decided, historyVars, Inv, TypeOK
  <2>3. QED
    BY <2>1, <2>2
<1>3. QED
  BY <1>1, <1>2, SameReply, Invisible

\* Every step of the list is a step of the abstract set or invisible.
LEMMA RefineNext ==
  ASSUME Inv, CallIsReader, [Next]_vars
  PROVE  [Abstract!Next]_(Abstract!vars)
<1>1. ASSUME NEW k \in Keys, HalfFill(k), UNCHANGED lockVars PROVE [Abstract!Next]_(Abstract!vars)
  BY <1>1, HalfFillInv, FillStep DEF HalfFill
<1>2. ASSUME NEW t \in Threads, NEW o \in OpNames, NEW k \in Keys, Begin(t, o, k)
      PROVE  [Abstract!Next]_(Abstract!vars)
  BY <1>2, RefineCallReturn
<1>3. ASSUME NEW t \in Threads, Lock(t) \/ Step(t) PROVE [Abstract!Next]_(Abstract!vars)
  BY <1>3, RefineReport, RefineUpdate, RefineInvisible, RefineCallReturn DEF Step, Add, Remove
<1>4. CASE Kernel
  <2>1. Contents' = Contents
    BY <1>4, ReclaimInv DEF Kernel
  <2>2. UNCHANGED <<op, key, obs, pc, result>>
    BY <1>4 DEF Kernel, Reclaim, localVars, historyVars
  <2>3. QED
    BY <2>1, <2>2, Invisible DEF reply, Decided
<1>5. CASE UNCHANGED vars
  <2>1. Contents' = Contents
    BY <1>5, SortedFrame DEF Inv, vars, listVars, nodeVars
  <2>2. UNCHANGED <<op, key, obs, pc, result>>
    BY <1>5 DEF vars, listVars, localVars, historyVars
  <2>3. QED
    BY <2>1, <2>2, Invisible DEF reply, Decided
<1>6. QED
  BY <1>1, <1>2, <1>3, <1>4, <1>5 DEF Next

\* The hash tables of rcu-fglock and rcu-numa are linearizable sets: an update
\* takes effect when it writes p_prev->p_next under its locks, every other
\* answer was true during the call, and a failed validation changes nothing.
THEOREM Refinement ==
  ASSUME CallIsReader
  PROVE  Spec => ImplementsSet
<1>1. Init => Abstract!Init
  BY AbstractInit DEF Init
<1>2. Inv /\ [Next]_vars => [Abstract!Next]_(Abstract!vars)
  BY RefineNext
<1>3. QED
  BY <1>1, <1>2, Invariance, PTL DEF Spec, ImplementsSet, Abstract!Spec

=============================================================================
