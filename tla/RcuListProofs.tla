--------------------------- MODULE RcuListProofs ---------------------------
(***************************************************************************)
(* Machine-checked proofs about RcuList, for any number of threads, keys,  *)
(* buckets and nodes and in every kernel build.                            *)
(***************************************************************************)
EXTENDS RcuList, SortedListProofs

-----------------------------------------------------------------------------
(* What the invariant says about one thread *)

\* Under the bucket lock the pointers of an updater are nodes of its list.
LEMMA UpdaterFacts ==
  ASSUME Inv, NEW t \in Threads, Spinning(t)
  PROVE  /\ p_prev[t] \in Live \ MaxNodes /\ p_prev[t] \in Node
         /\ bkt[p_prev[t]] = Hash(key[t]) /\ val[p_prev[t]] < key[t]
         /\ key[t] \in Keys /\ key[t] \in Int /\ val[p_prev[t]] \in Int
         /\ link[p_prev[t]] \in Live /\ link[p_prev[t]] \in Node
         /\ bkt[link[p_prev[t]]] = Hash(key[t]) /\ val[link[p_prev[t]]] \in Int
         /\ pc[t] # "deref" => p_next[t] = link[p_prev[t]]
<1>1. Phase(t) /\ UpdaterStands(t) /\ NodeTypeOK /\ SortedLists /\ Sentinels
  BY DEF Inv, TypeOK, ThreadInv, SortedLists
<1>2. /\ p_prev[t] \in Live /\ p_prev[t] \in Node /\ bkt[p_prev[t]] = Hash(key[t])
      /\ val[p_prev[t]] < key[t] /\ key[t] \in Keys
      /\ pc[t] # "deref" => p_next[t] = link[p_prev[t]]
  BY <1>1 DEF Phase, UpdaterStands, Spinning, Live
<1>3. p_prev[t] \notin MaxNodes /\ key[t] \in Int /\ val[p_prev[t]] \in Int
  BY <1>1, <1>2, NodeValues, ConstantFacts
<1>4. /\ link[p_prev[t]] \in Live /\ link[p_prev[t]] \in Node
      /\ bkt[link[p_prev[t]]] = Hash(key[t])
  BY <1>1, <1>2, <1>3 DEF SortedLists, Ascending, Live
<1>5. QED
  BY <1>1, <1>2, <1>3, <1>4, NodeValues

\* Without a lock the pointers of a lookup are nodes that were in its list.
LEMMA LookupFacts ==
  ASSUME Inv, NEW t \in Threads, Looking(t)
  PROVE  /\ View(t) /\ seen[t] \subseteq Node /\ key[t] \in Keys /\ key[t] \in Int
         /\ p_prev[t] \in seen[t] \ MaxNodes /\ p_prev[t] \in Node
         /\ bkt[p_prev[t]] = Hash(key[t]) /\ val[p_prev[t]] < key[t]
         /\ link[p_prev[t]] \in seen[t] /\ bkt[link[p_prev[t]]] = Hash(key[t])
         /\ key[t] < val[link[p_prev[t]]] => "absent" \in obs[t]
         /\ pc[t] = "test" => /\ p_next[t] \in seen[t] /\ bkt[p_next[t]] = Hash(key[t])
                              /\ p_next[t] \in Node /\ val[p_next[t]] \in Int
                              /\ key[t] < val[p_next[t]] => "absent" \in obs[t]
                              /\ val[p_next[t]] = key[t] => "present" \in obs[t]
<1>1. Phase(t) /\ LookupStands(t) /\ NodeTypeOK /\ SortedLists /\ Sentinels
  BY DEF Inv, TypeOK, ThreadInv, SortedLists
<1>2. /\ p_prev[t] \in seen[t] /\ bkt[p_prev[t]] = Hash(key[t])
      /\ val[p_prev[t]] < key[t] /\ key[t] \in Keys /\ View(t) /\ seen[t] \subseteq Node
      /\ pc[t] = "test" => /\ p_next[t] \in seen[t] /\ bkt[p_next[t]] = Hash(key[t])
                           /\ key[t] < val[p_next[t]] => "absent" \in obs[t]
  BY <1>1 DEF Phase, LookupStands, Looking, Inv, TypeOK, LocalTypeOK
<1>3. p_prev[t] \in Node \ MaxNodes /\ key[t] \in Int
  BY <1>1, <1>2, NodeValues, ConstantFacts
<1>4. link[p_prev[t]] \in seen[t] /\ bkt[link[p_prev[t]]] = Hash(key[t])
  BY <1>1, <1>2, <1>3, ViewStep
<1>5. key[t] < val[link[p_prev[t]]] => "absent" \in obs[t]
  BY <1>2, <1>3 DEF View, ViewWitnessed
<1>6. pc[t] = "test" => (val[p_next[t]] = key[t] => "present" \in obs[t])
  BY <1>2 DEF View, ViewWitnessed
<1>7. pc[t] = "test" => p_next[t] \in Node /\ val[p_next[t]] \in Int
  BY <1>1, <1>2, NodeValues
<1>8. QED
  BY <1>2, <1>3, <1>4, <1>5, <1>6, <1>7

\* Two threads that hold bucket locks work on different buckets.
LEMMA LocksExclude ==
  ASSUME Inv, NEW t \in Threads, NEW u \in Threads, t # u, Holds(t), Holds(u)
  PROVE  Hash(key[t]) # Hash(key[u])
<1>1. Hash(key[t]) \in Buckets
  BY ConstantFacts DEF Inv, ThreadInv, Phase, Holds, Spinning
<1>2. QED
  BY <1>1 DEF Inv, Locked

-----------------------------------------------------------------------------
(* What a step of another thread must leave alone *)

\* The invariant of a thread that does not move.
LEMMA ThreadFrame ==
  ASSUME Inv, NEW u \in Threads, SameThread(u), fill' = fill,
         obs[u] \subseteq obs'[u], Recorded(u)',
         Spinning(u) => \A y \in Live : bkt[y] = Hash(key[u]) =>
           y \in Live' /\ val'[y] = val[y] /\ bkt'[y] = bkt[y] /\ link'[y] = link[y],
         Looking(u) => /\ View(u)' /\ seen[u] \subseteq seen'[u]
                       /\ \A y \in seen[u] : val'[y] = val[y] /\ bkt'[y] = bkt[y],
         Inserting(u) => LET x == p_new_node[u] IN
           mem'[x] = mem[x] /\ val'[x] = val[x] /\ link'[x] = link[x] /\ bkt'[x] = bkt[x],
         Freeing(u) => mem'[p_next[u]] = mem[p_next[u]]
  PROVE  ThreadInv(u)'
<1> USE DEF SameThread
<1>1. ThreadInv(u)
  BY DEF Inv
<1>2. Phase(u)' /\ Owns(u)'
  BY <1>1 DEF ThreadInv, Phase, Owns, Inserting, Freeing
<1>3. UpdaterStands(u)'
  <2>1. SUFFICES ASSUME Spinning(u) PROVE UpdaterStands(u)'
    BY DEF Spinning, UpdaterStands
  <2>2. /\ p_prev[u] \in Live /\ link[p_prev[u]] \in Live
        /\ bkt[p_prev[u]] = Hash(key[u]) /\ bkt[link[p_prev[u]]] = Hash(key[u])
        /\ pc[u] # "deref" => p_next[u] = link[p_prev[u]]
    BY <2>1, UpdaterFacts
  <2>3. /\ p_prev[u] \in Live' /\ val'[p_prev[u]] = val[p_prev[u]]
        /\ bkt'[p_prev[u]] = bkt[p_prev[u]] /\ link'[p_prev[u]] = link[p_prev[u]]
        /\ pc[u] # "deref" => /\ val'[p_next[u]] = val[p_next[u]]
                              /\ link'[p_next[u]] = link[p_next[u]]
    BY <2>1, <2>2
  <2>4. QED
    BY <1>1, <2>1, <2>2, <2>3 DEF ThreadInv, UpdaterStands, Spinning
<1>4. LookupStands(u)'
  BY <1>1 DEF ThreadInv, LookupStands, Looking
<1>5. Answered(u)'
  BY <1>1 DEF ThreadInv, Answered, Decided, WasTrue
<1>6. QED
  BY <1>2, <1>3, <1>4, <1>5 DEF ThreadInv

\* Locks do not change hands.
LEMMA LockedFrame ==
  ASSUME Inv, NEW t \in Threads, SameOthers(t), rcuspin' = rcuspin,
         Holds(t)' <=> Holds(t), key'[t] = key[t] \/ ~Holds(t)
  PROVE  Locked'
<1>1. \A u \in Threads : /\ Holds(u)' <=> Holds(u)
                         /\ Holds(u) => key'[u] = key[u]
  BY DEF SameOthers, SameThread, Holds, Spinning
<1>2. QED
  BY <1>1 DEF Inv, Locked

\* No thread gets a node to insert or to free.
LEMMA AloneFrame ==
  ASSUME Inv, NEW t \in Threads, SameOthers(t),
         Inserting(t)' => Inserting(t) /\ p_new_node'[t] = p_new_node[t],
         Freeing(t)' => Freeing(t) /\ p_next'[t] = p_next[t]
  PROVE  Alone'
<1>1. \A u \in Threads : /\ Inserting(u)' => Inserting(u) /\ p_new_node'[u] = p_new_node[u]
                         /\ Freeing(u)' => Freeing(u) /\ p_next'[u] = p_next[u]
  BY DEF SameOthers, SameThread, Inserting, Freeing
<1>2. QED
  BY <1>1 DEF Inv, Alone

\* A step that writes no node and ends at most t's own RCU section.
LEMMA QuietStep ==
  ASSUME Inv, NEW t \in Threads, UNCHANGED nodeVars, fill' = fill, SameOthers(t),
         \A u \in Threads \ {t} : seen'[u] = seen[u] /\ obs'[u] = obs[u],
         \A u \in Threads \ {t}, x \in Node : u \in gp[x] => u \in gp'[x],
         TypeOK', Locked', ThreadInv(t)',
         Inserting(t)' => Inserting(t) /\ p_new_node'[t] = p_new_node[t],
         Freeing(t)' => Freeing(t) /\ p_next'[t] = p_next[t]
  PROVE  Inv' /\ Contents' = Contents
<1> USE DEF nodeVars
<1>1. SortedLists' /\ Live' = Live /\ Contents' = Contents
  BY SortedFrame DEF Inv
<1>2. Alone'
  BY AloneFrame
<1>3. ASSUME NEW u \in Threads, u # t PROVE ThreadInv(u)'
  <2>1. ThreadInv(u) /\ SameThread(u) /\ seen'[u] = seen[u] /\ obs'[u] = obs[u]
    BY <1>3 DEF Inv, SameOthers
  <2>2. Recorded(u)'
    BY <1>1, <2>1 DEF ThreadInv, Recorded, SameThread
  <2>3. Looking(u) => View(u)'
    <3>1. SUFFICES ASSUME Looking(u) PROVE View(u)'
      OBVIOUS
    <3>2. View(u) /\ seen[u] \subseteq Node
      BY <3>1, LookupFacts
    <3>3. key'[u] = key[u]
      BY <2>1 DEF SameThread
    <3>4. QED
      BY <1>1, <1>3, <2>1, <3>2, <3>3, ViewFrame
  <2>4. QED
    BY <1>1, <2>1, <2>2, <2>3, ThreadFrame
<1>4. QED
  BY <1>1, <1>2, <1>3 DEF Inv

-----------------------------------------------------------------------------
(* Steps that write no node *)

\* The operation of a thread that is on its way.
LEMMA OpFacts ==
  ASSUME Inv, NEW t \in Threads, pc[t] # "idle"
  PROVE  /\ op[t] \in {"contains", "add", "remove"} /\ key[t] \in Keys
         /\ Hash(key[t]) \in Buckets
  BY ConstantFacts DEF Inv, ThreadInv, Phase, TypeOK, LocalTypeOK, OpNames

\* p_next = RCU_DEREF(p_prev->p_next), in a lookup and in an update.
LEMMA DerefInv ==
  ASSUME Inv, NEW t \in Threads, Deref(t), UNCHANGED rcuspin
  PROVE  Inv' /\ Contents' = Contents
<1> USE DEF Deref, Goto, Inv, TypeOK, LocalTypeOK, nodeVars, rcuVars, driverVars, historyVars
<1>1. /\ SameOthers(t) /\ UNCHANGED nodeVars /\ fill' = fill
      /\ pc[t] = "deref" /\ pc'[t] = "test" /\ p_next'[t] = link[p_prev[t]]
      /\ UNCHANGED <<rcu, gp, op, key, p_prev, n, p_new_node, result, seen, obs>>
  BY DEF SameOthers, SameThread
<1>2. op[t] \in {"contains", "add", "remove"}
  BY <1>1, OpFacts
<1>3. op[t] = "contains" => Looking(t) /\ ~Spinning(t)
  BY <1>1 DEF Looking, Spinning
<1>4. op[t] # "contains" => Spinning(t) /\ ~Looking(t)
  BY <1>1, <1>2 DEF Looking, Spinning
<1>5. link[p_prev[t]] \in Node
  BY <1>2, <1>3, <1>4, UpdaterFacts, LookupFacts
<1>6. TypeOK'
  BY <1>5 DEF NodeTypeOK, Ptr, Labels
<1>7. Locked'
  <2>1. Holds(t)' <=> Holds(t)
    BY <1>1 DEF Holds, Spinning
  <2>2. QED
    BY <1>1, <2>1, LockedFrame
<1>8. ThreadInv(t)'
  <2>1. ThreadInv(t) /\ Live' = Live /\ Contents' = Contents
    BY DEF Live, Contents
  <2>2. Phase(t)' /\ Owns(t)' /\ Recorded(t)' /\ Answered(t)'
    BY <1>1, <2>1 DEF ThreadInv, Phase, Owns, Inserting, Freeing, Recorded, Answered, Decided
  <2>3. UpdaterStands(t)'
    BY <1>1, <1>3, <1>4, <2>1, UpdaterFacts DEF UpdaterStands, Spinning
  <2>4. LookupStands(t)'
    <3>1. CASE Looking(t)
      <4>1. View(t)'
        BY <1>1, <2>1, <3>1, LookupFacts, ViewFrame
      <4>2. QED
        BY <1>1, <3>1, <4>1, LookupFacts DEF LookupStands
    <3>2. CASE ~Looking(t)
      BY <1>1, <3>2 DEF LookupStands, Looking
    <3>3. QED
      BY <3>1, <3>2
  <2>5. QED
    BY <2>2, <2>3, <2>4 DEF ThreadInv
<1>9. /\ Inserting(t)' => Inserting(t) /\ p_new_node'[t] = p_new_node[t]
      /\ Freeing(t)' => Freeing(t) /\ p_next'[t] = p_next[t]
  BY <1>1 DEF Inserting, Freeing
<1>10. QED
  BY <1>1, <1>6, <1>7, <1>8, <1>9, QuietStep

\* p_prev = p_next while the value is not reached.
LEMMA AdvanceInv ==
  ASSUME Inv, NEW t \in Threads, Advance(t), UNCHANGED rcuspin
  PROVE  Inv' /\ Contents' = Contents
<1> USE DEF Advance, Goto, Inv, TypeOK, LocalTypeOK, nodeVars, rcuVars, driverVars, historyVars
<1>1. /\ SameOthers(t) /\ UNCHANGED nodeVars /\ fill' = fill
      /\ pc[t] = "test" /\ pc'[t] = "deref" /\ p_prev'[t] = p_next[t]
      /\ val[p_next[t]] < key[t]
      /\ UNCHANGED <<rcu, gp, op, key, p_next, n, p_new_node, result, seen, obs>>
  BY DEF SameOthers, SameThread
<1>2. op[t] \in {"contains", "add", "remove"}
  BY <1>1, OpFacts
<1>3. op[t] = "contains" => Looking(t) /\ ~Spinning(t)
  BY <1>1 DEF Looking, Spinning
<1>4. op[t] # "contains" => Spinning(t) /\ ~Looking(t)
  BY <1>1, <1>2 DEF Looking, Spinning
<1>5. TypeOK'
  BY DEF NodeTypeOK, Ptr, Labels
<1>6. Locked'
  <2>1. Holds(t)' <=> Holds(t)
    BY <1>1 DEF Holds, Spinning
  <2>2. QED
    BY <1>1, <2>1, LockedFrame
<1>7. ThreadInv(t)'
  <2>1. ThreadInv(t) /\ Live' = Live /\ Contents' = Contents
    BY DEF Live, Contents
  <2>2. Phase(t)' /\ Owns(t)' /\ Recorded(t)' /\ Answered(t)'
    BY <1>1, <2>1 DEF ThreadInv, Phase, Owns, Inserting, Freeing, Recorded, Answered, Decided
  <2>3. UpdaterStands(t)'
    BY <1>1, <1>3, <1>4, <2>1, UpdaterFacts DEF UpdaterStands, Spinning
  <2>4. LookupStands(t)'
    <3>1. CASE Looking(t)
      <4>1. View(t)'
        BY <1>1, <2>1, <3>1, LookupFacts, ViewFrame
      <4>2. QED
        BY <1>1, <3>1, <4>1, LookupFacts DEF LookupStands
    <3>2. CASE ~Looking(t)
      BY <1>1, <3>2 DEF LookupStands, Looking
    <3>3. QED
      BY <3>1, <3>2
  <2>5. QED
    BY <2>2, <2>3, <2>4 DEF ThreadInv
<1>8. /\ Inserting(t)' => Inserting(t) /\ p_new_node'[t] = p_new_node[t]
      /\ Freeing(t)' => Freeing(t) /\ p_next'[t] = p_next[t]
  BY <1>1 DEF Inserting, Freeing
<1>9. QED
  BY <1>1, <1>5, <1>6, <1>7, <1>8, QuietStep

\* A remove that met the value reads n.
LEMMA RemoveReadInv ==
  ASSUME Inv, NEW t \in Threads, RemoveFound(t) \/ (ReadSucc(t) /\ UNCHANGED rcuspin)
  PROVE  Inv' /\ Contents' = Contents
<1> USE DEF RemoveFound, ReadSucc, Arrived, Found, Goto, Inv, TypeOK, LocalTypeOK,
            nodeVars, rcuVars, driverVars, historyVars
<1>1. /\ SameOthers(t) /\ UNCHANGED nodeVars /\ fill' = fill /\ rcuspin' = rcuspin
      /\ \/ /\ pc[t] = "test" /\ pc'[t] = "succ" /\ n' = n
            /\ op[t] = "remove" /\ val[p_next[t]] = key[t]
         \/ pc[t] = "succ" /\ pc'[t] = "update" /\ n'[t] = link[p_next[t]]
      /\ UNCHANGED <<rcu, gp, op, key, p_prev, p_next, p_new_node, result, seen, obs>>
  BY DEF SameOthers, SameThread
<1>2. op[t] = "remove" /\ Spinning(t)
  BY <1>1 DEF ThreadInv, Phase, Spinning
<1>3. link[p_next[t]] \in Ptr
  BY <1>1, <1>2, UpdaterFacts DEF NodeTypeOK
<1>4. TypeOK'
  <2>1. NodeTypeOK'
    BY <1>1 DEF NodeTypeOK
  <2>2. n' \in [Threads -> Ptr] /\ pc' \in [Threads -> Labels]
    BY <1>1, <1>3 DEF Labels
  <2>3. QED
    BY <1>1, <2>1, <2>2
<1>5. Locked'
  <2>1. Holds(t)' <=> Holds(t)
    BY <1>1, <1>2 DEF Holds, Spinning
  <2>2. QED
    BY <1>1, <2>1, LockedFrame
<1>6. ThreadInv(t)'
  <2>1. ThreadInv(t) /\ Live' = Live /\ Contents' = Contents
    BY DEF Live, Contents
  <2>2. Phase(t)' /\ Owns(t)' /\ Recorded(t)' /\ Answered(t)' /\ LookupStands(t)'
    BY <1>1, <1>2, <2>1 DEF ThreadInv, Phase, Owns, Inserting, Freeing, Recorded, Answered,
                             Decided, LookupStands, Looking
  <2>3. UpdaterStands(t)'
    BY <1>1, <1>2, <2>1 DEF ThreadInv, UpdaterStands, Spinning
  <2>4. QED
    BY <2>2, <2>3 DEF ThreadInv
<1>7. /\ Inserting(t)' => Inserting(t) /\ p_new_node'[t] = p_new_node[t]
      /\ Freeing(t)' => Freeing(t) /\ p_next'[t] = p_next[t]
  BY <1>1, <1>2 DEF Inserting, Freeing
<1>8. QED
  BY <1>1, <1>4, <1>5, <1>6, <1>7, QuietStep

\* What an updater that arrived knows about its value.
LEMMA ArrivedFacts ==
  ASSUME Inv, NEW t \in Threads, NEW o \in OpNames, Arrived(t, o)
  PROVE  /\ Found(t) => "present" \in obs[t]
         /\ ~Found(t) => "absent" \in obs[t] /\ key[t] < val[p_next[t]]
<1>1. /\ pc[t] = "test" /\ op[t] = o /\ val[p_next[t]] >= key[t] /\ ThreadInv(t)
      /\ NodeTypeOK /\ SortedLists
  BY DEF Arrived, Inv, TypeOK
<1>2. CASE o = "contains"
  <2>1. Looking(t)
    BY <1>1, <1>2 DEF Looking
  <2>2. QED
    BY <1>1, <2>1, LookupFacts DEF Found
<1>3. CASE o # "contains"
  <2>1. Spinning(t)
    BY <1>1, <1>3 DEF Spinning, OpNames
  <2>2. /\ p_prev[t] \in Live \ MaxNodes /\ bkt[p_prev[t]] = Hash(key[t])
        /\ p_next[t] = link[p_prev[t]] /\ p_next[t] \in Live /\ val[p_next[t]] \in Int
        /\ bkt[p_next[t]] = Hash(key[t]) /\ key[t] \in Keys /\ key[t] \in Int
        /\ val[p_prev[t]] < key[t]
    BY <1>1, <2>1, UpdaterFacts
  <2>3. ~Found(t) => key[t] < val[p_next[t]]
    BY <1>1, <2>2 DEF Found
  <2>4. Found(t) => key[t] \in Contents
    BY <1>1, <2>2, FreshTraversal DEF Found
  <2>5. ~Found(t) => key[t] \notin Contents
    BY <1>1, <2>2, <2>3, FreshTraversal
  <2>6. op[t] # "none"
    BY <1>1 DEF OpNames
  <2>7. QED
    BY <1>1, <2>3, <2>4, <2>5, <2>6 DEF ThreadInv, Recorded
<1>4. QED
  BY <1>2, <1>3

\* The answers that change nothing.
LEMMA AnswerInv ==
  ASSUME Inv, NEW t \in Threads, ContainsDone(t) \/ NothingToAdd(t) \/ NothingToRemove(t)
  PROVE  Inv' /\ Contents' = Contents
<1> USE DEF ContainsDone, NothingToAdd, NothingToRemove, Decide, Goto,
            Inv, TypeOK, LocalTypeOK, nodeVars, rcuVars, driverVars, historyVars
<1>1. /\ SameOthers(t) /\ UNCHANGED nodeVars /\ fill' = fill /\ rcuspin' = rcuspin
      /\ pc[t] = "test" /\ pc'[t] = "unlock" /\ result'[t] \in {0, 1}
      /\ UNCHANGED <<rcu, gp, op, key, p_prev, p_next, n, p_new_node, seen, obs>>
      /\ op[t] # "contains" => result'[t] = 0 /\ op[t] \in {"add", "remove"}
  BY DEF SameOthers, SameThread, Arrived
<1>2. TypeOK'
  BY DEF NodeTypeOK, Labels
<1>3. Locked'
  <2>1. Holds(t)' <=> Holds(t)
    BY <1>1 DEF Holds, Spinning
  <2>2. QED
    BY <1>1, <2>1, LockedFrame
<1>4. WasTrue(t, result[t])'
  <2>1. CASE ContainsDone(t)
    BY <1>1, <2>1, ArrivedFacts DEF WasTrue, Arrived, OpNames
  <2>2. CASE NothingToAdd(t)
    BY <1>1, <2>2, ArrivedFacts DEF WasTrue, Arrived, OpNames
  <2>3. CASE NothingToRemove(t)
    BY <1>1, <2>3, ArrivedFacts DEF WasTrue, Arrived, OpNames
  <2>4. QED
    BY <2>1, <2>2, <2>3
<1>5. ThreadInv(t)'
  <2>1. ThreadInv(t) /\ Live' = Live /\ Contents' = Contents
    BY DEF Live, Contents
  <2>2. Phase(t)' /\ Owns(t)' /\ Recorded(t)' /\ LookupStands(t)' /\ UpdaterStands(t)'
    BY <1>1, <2>1 DEF ThreadInv, Phase, Owns, Inserting, Freeing, Recorded,
                      LookupStands, Looking, UpdaterStands, Spinning
  <2>3. QED
    BY <1>4, <2>2 DEF ThreadInv, Answered
<1>6. /\ Inserting(t)' => Inserting(t) /\ p_new_node'[t] = p_new_node[t]
      /\ Freeing(t)' => Freeing(t) /\ p_next'[t] = p_next[t]
  BY <1>1 DEF Inserting, Freeing
<1>7. QED
  BY <1>1, <1>2, <1>3, <1>5, <1>6, QuietStep

\* rcu_hash_list_contains() enters its RCU section and starts at the head.
LEMMA BeginLookupInv ==
  ASSUME Inv, NEW t \in Threads, NEW k \in Keys, BeginLookup(t, k)
  PROVE  Inv' /\ Contents' = Contents
<1> USE DEF BeginLookup, Call, rcu_read_lock, StartAt, Goto, Inv, TypeOK, LocalTypeOK,
            nodeVars
<1>1. /\ SameOthers(t) /\ UNCHANGED nodeVars /\ fill' = fill /\ rcuspin' = rcuspin
      /\ \A u \in Threads \ {t} : seen'[u] = seen[u] /\ obs'[u] = obs[u]
      /\ fill = 0 /\ pc[t] = "idle" /\ pc'[t] = "deref" /\ op'[t] = "contains" /\ key'[t] = k
      /\ rcu'[t] = rcu[t] + 1 /\ p_prev'[t] = MinNode[Hash(k)] /\ seen'[t] = Live
      /\ obs'[t] = {Membership(k)}
      /\ UNCHANGED <<gp, p_next, n, p_new_node, result>>
  BY DEF SameOthers, SameThread
<1>2. rcu[t] = 0
  BY <1>1 DEF ThreadInv, Phase
<1>3. /\ MinNode[Hash(k)] \in Live /\ val[MinNode[Hash(k)]] < k
      /\ bkt[MinNode[Hash(k)]] = Hash(k) /\ Live \subseteq Node
  BY StartFacts
<1>4. TypeOK'
  <2>1. ops'[t] \in 0..MaxOps
    BY BoundsAssumption
  <2>2. ops' \in [Threads -> 0..MaxOps]
    BY <2>1
  <2>3. Membership(k) \in {"present", "absent"}
    BY DEF Membership
  <2>4. QED
    BY <1>3, <2>2, <2>3 DEF NodeTypeOK, Ptr, Labels, OpNames
<1>5. Locked'
  <2>1. ~Holds(t)' /\ ~Holds(t)
    BY <1>1 DEF Holds, Spinning
  <2>2. QED
    BY <1>1, <2>1, LockedFrame
<1>6. ThreadInv(t)'
  <2>1. Live' = Live /\ Contents' = Contents
    BY DEF Live, Contents
  <2>2. View(t)'
    BY <1>1, <2>1, ViewStart DEF Membership
  <2>3. LookupStands(t)'
    BY <1>1, <1>3, <2>2 DEF LookupStands
  <2>4. Phase(t)' /\ Owns(t)' /\ UpdaterStands(t)' /\ Answered(t)'
    BY <1>1, <1>2 DEF Phase, Owns, Inserting, Freeing, UpdaterStands, Spinning, Answered, Decided
  <2>5. Recorded(t)'
    BY <1>1, <2>1 DEF Recorded, Membership
  <2>6. QED
    BY <2>3, <2>4, <2>5 DEF ThreadInv
<1>7. ~Inserting(t)' /\ ~Freeing(t)'
  BY <1>1 DEF Inserting, Freeing
<1>8. QED
  BY <1>1, <1>4, <1>5, <1>6, <1>7, QuietStep

\* An update is called; its lock is not taken yet.
LEMMA BeginUpdateInv ==
  ASSUME Inv, NEW t \in Threads, NEW k \in Keys, NEW o \in {"add", "remove"}, BeginUpdate(t, o, k)
  PROVE  Inv' /\ Contents' = Contents
<1> USE DEF BeginUpdate, Call, Goto, Inv, TypeOK, LocalTypeOK, nodeVars, rcuVars
<1>1. /\ SameOthers(t) /\ UNCHANGED nodeVars /\ fill' = fill /\ rcuspin' = rcuspin
      /\ \A u \in Threads \ {t} : seen'[u] = seen[u] /\ obs'[u] = obs[u]
      /\ fill = 0 /\ pc[t] = "idle" /\ pc'[t] = "lock" /\ op'[t] = o /\ key'[t] = k
      /\ obs'[t] = {Membership(k)}
      /\ UNCHANGED <<rcu, gp, p_prev, p_next, n, p_new_node, result, seen>>
  BY DEF SameOthers, SameThread
<1>2. TypeOK'
  <2>1. ops'[t] \in 0..MaxOps
    BY BoundsAssumption
  <2>2. ops' \in [Threads -> 0..MaxOps]
    BY <2>1
  <2>3. Membership(k) \in {"present", "absent"}
    BY DEF Membership
  <2>4. QED
    BY <2>2, <2>3 DEF NodeTypeOK, Ptr, Labels, OpNames
<1>3. Locked'
  <2>1. ~Holds(t)' /\ ~Holds(t)
    BY <1>1 DEF Holds, Spinning
  <2>2. QED
    BY <1>1, <2>1, LockedFrame
<1>4. ThreadInv(t)'
  <2>1. Live' = Live /\ Contents' = Contents
    BY DEF Live, Contents
  <2>2. rcu[t] = 0
    BY <1>1 DEF ThreadInv, Phase
  <2>3. Phase(t)' /\ Owns(t)' /\ UpdaterStands(t)' /\ LookupStands(t)' /\ Answered(t)'
    BY <1>1, <2>2 DEF Phase, Owns, Inserting, Freeing, UpdaterStands, Spinning, LookupStands,
                      Looking, Answered, Decided
  <2>4. Recorded(t)'
    BY <1>1, <2>1 DEF Recorded, Membership
  <2>5. QED
    BY <2>3, <2>4 DEF ThreadInv
<1>5. ~Inserting(t)' /\ ~Freeing(t)'
  BY <1>1 DEF Inserting, Freeing
<1>6. QED
  BY <1>1, <1>2, <1>3, <1>4, <1>5, QuietStep

\* spin_lock(): nobody else is in the critical section of the bucket.
LEMMA LockInv ==
  ASSUME Inv, NEW t \in Threads, Lock(t)
  PROVE  Inv' /\ Contents' = Contents
<1> USE DEF Lock, StartAt, Goto, Inv, TypeOK, LocalTypeOK, nodeVars, rcuVars, driverVars
<1>1. /\ SameOthers(t) /\ UNCHANGED nodeVars /\ fill' = fill
      /\ rcuspin' = [rcuspin EXCEPT ![Hash(key[t])] = t] /\ rcuspin[Hash(key[t])] = NULL
      /\ \A u \in Threads \ {t} : seen'[u] = seen[u]
      /\ pc[t] = "lock" /\ pc'[t] = "deref"
      /\ p_prev'[t] = MinNode[Hash(key[t])] /\ seen'[t] = Live
      /\ UNCHANGED <<rcu, gp, op, key, p_next, n, p_new_node, result, obs>>
  BY DEF SameOthers, SameThread, Taken
<1>2. op[t] \in {"add", "remove"} /\ key[t] \in Keys /\ Hash(key[t]) \in Buckets
  BY <1>1, OpFacts DEF ThreadInv, Phase
<1>3. /\ MinNode[Hash(key[t])] \in Live /\ val[MinNode[Hash(key[t])]] < key[t]
      /\ bkt[MinNode[Hash(key[t])]] = Hash(key[t]) /\ Live \subseteq Node
  BY <1>2, StartFacts
<1>4. TypeOK'
  BY <1>2, <1>3 DEF NodeTypeOK, Ptr, Labels
<1>5. Locked'
  <2>1. Holds(t)' /\ ~Holds(t)
    BY <1>1, <1>2 DEF Holds, Spinning
  <2>2. \A u \in Threads \ {t} : Holds(u)' <=> Holds(u)
    BY <1>1 DEF SameOthers, SameThread, Holds, Spinning
  <2>3. \A u \in Threads : u # NULL
    BY ThreadsAssumption
  <2>4. QED
    BY <1>1, <1>2, <2>1, <2>2, <2>3 DEF Locked
<1>6. ThreadInv(t)'
  <2>1. Live' = Live /\ Contents' = Contents /\ ThreadInv(t)
    BY DEF Live, Contents
  <2>2. UpdaterStands(t)'
    BY <1>1, <1>2, <1>3, <2>1 DEF UpdaterStands, Spinning
  <2>3. /\ Phase(t)' /\ Owns(t)' /\ LookupStands(t)' /\ Answered(t)' /\ Recorded(t)'
    BY <1>1, <1>2, <2>1 DEF ThreadInv, Phase, Owns, Inserting, Freeing, LookupStands,
                            Looking, Answered, Decided, Recorded
  <2>4. QED
    BY <2>2, <2>3 DEF ThreadInv
<1>7. ~Inserting(t)' /\ ~Freeing(t)'
  BY <1>1 DEF Inserting, Freeing
<1>8. QED
  BY <1>1, <1>4, <1>5, <1>6, <1>7, QuietStep

\* A failed spin_trylock() ends the call.
LEMMA TryFailsInv ==
  ASSUME Inv, NEW t \in Threads, TryFails(t)
  PROVE  Inv' /\ Contents' = Contents
<1> USE DEF TryFails, Goto, Inv, TypeOK, LocalTypeOK, nodeVars, rcuVars, driverVars, historyVars
<1>1. /\ SameOthers(t) /\ UNCHANGED nodeVars /\ fill' = fill /\ rcuspin' = rcuspin
      /\ pc[t] = "lock" /\ pc'[t] = "ret" /\ result'[t] = 2
      /\ UNCHANGED <<rcu, gp, op, key, p_prev, p_next, n, p_new_node, seen, obs>>
  BY DEF SameOthers, SameThread, ABORTED
<1>2. TypeOK'
  BY DEF NodeTypeOK, Labels, ABORTED
<1>3. op[t] \in {"add", "remove"}
  BY <1>1 DEF ThreadInv, Phase
<1>4. Locked'
  <2>1. ~Holds(t)' /\ ~Holds(t)
    BY <1>1 DEF Holds, Spinning
  <2>2. QED
    BY <1>1, <2>1, LockedFrame
<1>5. ThreadInv(t)'
  <2>1. Live' = Live /\ Contents' = Contents /\ ThreadInv(t)
    BY DEF Live, Contents
  <2>2. /\ Phase(t)' /\ Owns(t)' /\ LookupStands(t)' /\ Answered(t)' /\ Recorded(t)'
        /\ UpdaterStands(t)'
    BY <1>1, <1>3, <2>1 DEF ThreadInv, Phase, Owns, Inserting, Freeing, LookupStands, UpdaterStands,
                            Spinning, Looking, Answered, WasTrue, Recorded
  <2>3. QED
    BY <2>2 DEF ThreadInv
<1>6. ~Inserting(t)' /\ ~Freeing(t)'
  BY <1>1 DEF Inserting, Freeing
<1>7. QED
  BY <1>1, <1>2, <1>4, <1>5, <1>6, QuietStep

\* rcu_read_unlock() of a lookup: no pointer of it is used any more.
LEMMA ReaderUnlockInv ==
  ASSUME Inv, NEW t \in Threads, ReaderUnlock(t)
  PROVE  Inv' /\ Contents' = Contents
<1> USE DEF ReaderUnlock, rcu_read_unlock, Quiesce, Goto, Inv, TypeOK, LocalTypeOK,
            nodeVars, driverVars
<1>1. /\ SameOthers(t) /\ UNCHANGED nodeVars /\ fill' = fill /\ rcuspin' = rcuspin
      /\ \A u \in Threads \ {t} : seen'[u] = seen[u]
      /\ pc[t] = "unlock" /\ pc'[t] = "ret" /\ op[t] = "contains" /\ rcu'[t] = rcu[t] - 1
      /\ UNCHANGED <<op, key, p_prev, p_next, n, p_new_node, result, obs>>
  BY DEF SameOthers, SameThread
<1>2. /\ \A u \in Threads \ {t}, x \in Node : u \in gp[x] => u \in gp'[x]
      /\ gp' \in [Node -> SUBSET Threads]
  BY DEF NodeTypeOK
<1>3. TypeOK'
  <2>1. rcu' \in [Threads -> Int]
    OBVIOUS
  <2>2. QED
    BY <1>2, <2>1 DEF NodeTypeOK, Labels
<1>4. Locked'
  <2>1. ~Holds(t)' /\ ~Holds(t)
    BY <1>1 DEF Holds, Spinning
  <2>2. QED
    BY <1>1, <2>1, LockedFrame
<1>5. ThreadInv(t)'
  <2>1. Live' = Live /\ Contents' = Contents /\ ThreadInv(t)
    BY DEF Live, Contents
  <2>2. /\ Phase(t)' /\ Owns(t)' /\ LookupStands(t)' /\ Answered(t)' /\ Recorded(t)'
        /\ UpdaterStands(t)'
    BY <1>1, <2>1 DEF ThreadInv, Phase, Owns, Inserting, Freeing, LookupStands, UpdaterStands,
                      Spinning, Looking, Answered, Decided, WasTrue, Recorded
  <2>3. QED
    BY <2>2 DEF ThreadInv
<1>6. ~Inserting(t)' /\ ~Freeing(t)'
  BY <1>1 DEF Inserting, Freeing
<1>7. QED
  BY <1>1, <1>2, <1>3, <1>4, <1>5, <1>6, QuietStep

\* spin_unlock() of an update; the node that a remove still frees is its own.
LEMMA WriterUnlockInv ==
  ASSUME Inv, NEW t \in Threads, WriterUnlock(t)
  PROVE  Inv' /\ Contents' = Contents
<1> USE DEF WriterUnlock, Goto, Inv, TypeOK, LocalTypeOK, nodeVars, rcuVars, driverVars
<1>1. /\ SameOthers(t) /\ UNCHANGED nodeVars /\ fill' = fill
      /\ rcuspin' = [rcuspin EXCEPT ![Hash(key[t])] = NULL]
      /\ \A u \in Threads \ {t} : seen'[u] = seen[u]
      /\ pc[t] = "unlock" /\ op[t] # "contains"
      /\ pc'[t] = IF op[t] = "remove" /\ result[t] = 1 THEN "free" ELSE "ret"
      /\ UNCHANGED <<rcu, gp, op, key, p_prev, p_next, n, p_new_node, result, obs>>
  BY DEF SameOthers, SameThread
<1>2. op[t] \in {"add", "remove"} /\ Hash(key[t]) \in Buckets
  BY <1>1, OpFacts
<1>3. TypeOK'
  BY DEF NodeTypeOK, Labels
<1>4. Locked'
  <2>1. ~Holds(t)' /\ Holds(t)
    BY <1>1, <1>2 DEF Holds, Spinning
  <2>2. \A u \in Threads \ {t} : Holds(u)' <=> Holds(u)
    BY <1>1 DEF SameOthers, SameThread, Holds, Spinning
  <2>3. \A u \in Threads : u # NULL
    BY ThreadsAssumption
  <2>4. \A u \in Threads \ {t} : Holds(u) => Hash(key[u]) # Hash(key[t])
    BY <2>1, LocksExclude
  <2>5. QED
    BY <1>1, <1>2, <2>1, <2>2, <2>3, <2>4 DEF Locked
<1>5. ThreadInv(t)'
  <2>1. Live' = Live /\ Contents' = Contents /\ ThreadInv(t)
    BY DEF Live, Contents
  <2>2. /\ Phase(t)' /\ Owns(t)' /\ LookupStands(t)' /\ Answered(t)' /\ Recorded(t)'
        /\ UpdaterStands(t)'
    BY <1>1, <1>2, <2>1 DEF ThreadInv, Phase, Owns, Inserting, Freeing, LookupStands, UpdaterStands,
                            Spinning, Looking, Answered, Decided, WasTrue, Recorded
  <2>3. QED
    BY <2>2 DEF ThreadInv
<1>6. /\ ~Inserting(t)'
      /\ Freeing(t)' => Freeing(t) /\ p_next'[t] = p_next[t]
  BY <1>1 DEF Inserting, Freeing
<1>7. QED
  BY <1>1, <1>3, <1>4, <1>5, <1>6, QuietStep

\* The call returns to the driver.
LEMMA FinishInv ==
  ASSUME Inv, NEW t \in Threads, Finish(t)
  PROVE  Inv' /\ Contents' = Contents
<1> USE DEF Finish, Return, Quiesce, Goto, Inv, TypeOK, LocalTypeOK, nodeVars, driverVars
<1>1. /\ SameOthers(t) /\ UNCHANGED nodeVars /\ fill' = fill /\ rcuspin' = rcuspin
      /\ \A u \in Threads \ {t} : seen'[u] = seen[u] /\ obs'[u] = obs[u]
      /\ pc[t] = "ret" /\ pc'[t] = "idle" /\ op'[t] = "none" /\ rcu' = rcu
  BY DEF SameOthers, SameThread
<1>2. /\ \A u \in Threads \ {t}, x \in Node : u \in gp[x] => u \in gp'[x]
      /\ gp' \in [Node -> SUBSET Threads]
  BY DEF NodeTypeOK
<1>3. TypeOK'
  BY <1>2 DEF NodeTypeOK, Labels, Ptr, OpNames
<1>4. Locked'
  <2>1. ~Holds(t)' /\ ~Holds(t)
    BY <1>1 DEF Holds, Spinning
  <2>2. QED
    BY <1>1, <2>1, LockedFrame
<1>5. ThreadInv(t)'
  <2>1. Live' = Live /\ Contents' = Contents /\ ThreadInv(t)
    BY DEF Live, Contents
  <2>2. /\ Phase(t)' /\ Owns(t)' /\ LookupStands(t)' /\ Answered(t)' /\ Recorded(t)'
        /\ UpdaterStands(t)'
    BY <1>1, <2>1 DEF ThreadInv, Phase, Owns, Inserting, Freeing, LookupStands, UpdaterStands,
                      Spinning, Looking, Answered, Decided, Recorded
  <2>3. QED
    BY <2>2 DEF ThreadInv
<1>6. ~Inserting(t)' /\ ~Freeing(t)'
  BY <1>1 DEF Inserting, Freeing
<1>7. QED
  BY <1>1, <1>2, <1>3, <1>4, <1>5, <1>6, QuietStep

-----------------------------------------------------------------------------
(* Steps that write nodes *)

\* kmalloc() under the bucket lock, which may end t's own quiescence only.
LEMMA AddNewNodeInv ==
  ASSUME Inv, NEW t \in Threads, AddNewNode(t)
  PROVE  Inv' /\ Contents' = Contents
<1> USE DEF Goto, Inv, TypeOK, LocalTypeOK, driverVars, historyVars
<1>1. PICK x \in DataNodes : /\ NewNode(t, x, key[t], Hash(key[t]), p_next[t])
                             /\ p_new_node' = [p_new_node EXCEPT ![t] = x]
  BY DEF AddNewNode
<1>2. /\ SameOthers(t) /\ fill' = fill /\ rcuspin' = rcuspin
      /\ pc[t] = "test" /\ pc'[t] = "update" /\ op[t] = "add" /\ p_new_node'[t] = x
      /\ UNCHANGED <<rcu, op, key, p_prev, p_next, n, result, seen, obs>>
  BY <1>1 DEF AddNewNode, Arrived, SameOthers, SameThread
<1>3. Spinning(t) /\ ThreadInv(t)
  BY <1>2 DEF Spinning
<1>4. /\ p_next[t] \in Node /\ key[t] \in Keys /\ key[t] < val[p_next[t]]
      /\ p_next[t] \in Live /\ p_prev[t] \in Live
  BY <1>2, <1>3, UpdaterFacts, ArrivedFacts DEF AddNewNode, OpNames
<1>5. /\ SortedLists' /\ NodeTypeOK' /\ Contents' = Contents /\ Live' = Live
      /\ mem[x] = "free" /\ x \in Node \ Live /\ Live \subseteq Node
      /\ mem'[x] = "private" /\ val'[x] = key[t] /\ link'[x] = p_next[t] /\ bkt'[x] = Hash(key[t])
      /\ \A y \in Node : y # x => /\ mem'[y] = mem[y] /\ val'[y] = val[y]
                                  /\ link'[y] = link[y] /\ bkt'[y] = bkt[y]
      /\ \A y \in Node, u \in Threads : u # t /\ u \in gp[y] => u \in gp'[y]
  BY <1>1, <1>4, NewNodeFacts
<1>6. TypeOK'
  BY <1>1, <1>2, <1>5 DEF Ptr, Labels, AddNewNode
<1>7. Locked'
  <2>1. Holds(t)' <=> Holds(t)
    BY <1>2 DEF Holds, Spinning
  <2>2. QED
    BY <1>2, <2>1, LockedFrame
<1>8. \A u \in Threads : /\ Inserting(u) => p_new_node[u] # x /\ p_new_node[u] \in Node
                         /\ Freeing(u) => p_next[u] # x /\ p_next[u] \in Node
  BY <1>5, ConstantFacts DEF ThreadInv, Owns
<1>9. Alone'
  BY <1>2, <1>8 DEF Alone, SameOthers, SameThread, Inserting, Freeing
<1>10. ASSUME NEW u \in Threads, u # t PROVE ThreadInv(u)'
  <2>1. ThreadInv(u) /\ SameThread(u)
    BY <1>2, <1>10 DEF SameOthers
  <2>2. Recorded(u)'
    BY <1>2, <1>5, <2>1 DEF ThreadInv, Recorded
  <2>3. Looking(u) => View(u)' /\ \A y \in seen[u] : val'[y] = val[y] /\ bkt'[y] = bkt[y]
    <3>1. SUFFICES ASSUME Looking(u)
                   PROVE  View(u)' /\ \A y \in seen[u] : val'[y] = val[y] /\ bkt'[y] = bkt[y]
      OBVIOUS
    <3>2. View(u) /\ seen[u] \subseteq Node
      BY <3>1, LookupFacts
    <3>3. x \notin seen[u]
      BY <1>5, <3>2, NotInView
    <3>4. QED
      BY <1>2, <1>5, <1>10, <3>2, <3>3, ViewFrame
  <2>4. QED
    BY <1>2, <1>5, <1>8, <2>1, <2>2, <2>3, ThreadFrame
<1>11. ThreadInv(t)'
  <2>1. UpdaterStands(t)'
    <3>1. /\ val'[p_prev[t]] = val[p_prev[t]] /\ bkt'[p_prev[t]] = bkt[p_prev[t]]
          /\ link'[p_prev[t]] = link[p_prev[t]] /\ val'[p_next[t]] = val[p_next[t]]
      BY <1>4, <1>5
    <3>2. QED
      BY <1>2, <1>3, <1>4, <1>5, <3>1 DEF ThreadInv, UpdaterStands, Spinning
  <2>2. Owns(t)'
    BY <1>2, <1>5 DEF Owns, Inserting, Freeing
  <2>3. Phase(t)' /\ LookupStands(t)' /\ Answered(t)' /\ Recorded(t)'
    BY <1>2, <1>3, <1>5 DEF ThreadInv, Phase, LookupStands, Looking, Answered, Decided, Recorded
  <2>4. QED
    BY <2>1, <2>2, <2>3 DEF ThreadInv
<1>12. QED
  BY <1>5, <1>6, <1>7, <1>9, <1>10, <1>11

\* The add that links its node has neighbours with the value between them.
LEMMA AddLinkReady ==
  ASSUME Inv, NEW t \in Threads, pc[t] = "update", op[t] = "add"
  PROVE  InsertReady(t) /\ Spinning(t)
<1>1. Spinning(t) /\ ThreadInv(t)
  BY DEF Inv, Spinning
<1>2. QED
  BY <1>1, UpdaterFacts DEF ThreadInv, UpdaterStands, Owns, Inserting, InsertReady

\* RCU_ASSIGN_PTR(p_prev->p_next, p_new_node)
LEMMA AddLinkInv ==
  ASSUME Inv, NEW t \in Threads, AddLink(t)
  PROVE  Inv' /\ Contents' = Contents \union {key[t]} /\ key[t] \notin Contents
<1> USE DEF AddLink, Decide, Goto, Inv, TypeOK, LocalTypeOK, rcuVars, driverVars
<1>1. /\ SameOthers(t) /\ fill' = fill /\ rcuspin' = rcuspin /\ Publish(t)
      /\ pc[t] = "update" /\ pc'[t] = "unlock" /\ op[t] = "add" /\ result'[t] = 1
      /\ UNCHANGED <<val, removed, bkt, rcu, gp, op, key, p_prev, p_next, n, p_new_node>>
  BY DEF SameOthers, SameThread
<1>2. InsertReady(t) /\ Spinning(t) /\ ThreadInv(t)
  BY <1>1, AddLinkReady
<1> DEFINE p == p_prev[t]
<1> DEFINE x == p_new_node[t]
<1>3. /\ SortedLists' /\ NodeTypeOK' /\ Live' = Live \union {x}
      /\ key[t] \notin Contents /\ Contents' = Contents \union {key[t]}
      /\ x \in Node \ Live /\ p \in Node
      /\ mem'[x] = "live"
      /\ \A y \in Node : y # x => mem'[y] = mem[y]
      /\ \A y \in Node : y # p => link'[y] = link[y]
  BY <1>1, <1>2, PublishFacts
<1>4. p \in Live /\ bkt[p] = Hash(key[t]) /\ mem[x] = "private"
  BY <1>2 DEF InsertReady
<1>5. Observe(t, "present") /\ \A u \in Threads : obs[u] \subseteq obs'[u]
  BY <1>1 DEF Publish, Observe
<1>6. \A u \in Threads : seen[u] \subseteq seen'[u] /\ seen'[u] \subseteq seen[u] \union {x}
  BY <1>1 DEF Publish
<1>7. TypeOK'
  <2>1. seen' \in [Threads -> SUBSET Node] /\ obs' \in [Threads -> SUBSET {"present", "absent"}]
    BY <1>1, <1>3 DEF Publish, Observe
  <2>2. pc' \in [Threads -> Labels] /\ result' \in [Threads -> 0..2]
    BY DEF Labels
  <2>3. LocalTypeOK'
    BY <1>1, <1>3, <2>1, <2>2
  <2>4. QED
    BY <1>1, <1>3, <2>2, <2>3
<1>8. Locked'
  <2>1. Holds(t)' /\ Holds(t)
    BY <1>1, <1>2 DEF Holds, Spinning
  <2>2. QED
    BY <1>1, <2>1, LockedFrame
<1>9. Alone'
  <2>1. ~Inserting(t)' /\ ~Freeing(t)'
    BY <1>1 DEF Inserting, Freeing
  <2>2. QED
    BY <1>1, <2>1, AloneFrame
<1>10. ASSUME NEW u \in Threads, u # t PROVE ThreadInv(u)'
  <2>1. ThreadInv(u) /\ SameThread(u) /\ obs[u] \subseteq obs'[u]
    BY <1>1, <1>5, <1>10 DEF SameOthers
  <2>2. Recorded(u)'
    BY <1>1, <1>3, <1>5, <2>1, RecordedPublish DEF ThreadInv
  <2>3. Looking(u) => View(u)' /\ seen[u] \subseteq seen'[u]
    <3>1. SUFFICES ASSUME Looking(u) PROVE View(u)' /\ seen[u] \subseteq seen'[u]
      OBVIOUS
    <3>2. View(u) /\ seen[u] \subseteq Node /\ key[u] \in Keys /\ op[u] # "none"
      BY <3>1, LookupFacts DEF Looking
    <3>3. QED
      BY <1>1, <1>2, <1>6, <3>2, ViewPublish
  <2>4. Spinning(u) => \A y \in Live : bkt[y] = Hash(key[u]) =>
          y \in Live' /\ val'[y] = val[y] /\ bkt'[y] = bkt[y] /\ link'[y] = link[y]
    <3>1. SUFFICES ASSUME Spinning(u)
                   PROVE  \A y \in Live : bkt[y] = Hash(key[u]) => y \in Live' /\ link'[y] = link[y]
      BY <1>1
    <3>2. Hash(key[t]) # Hash(key[u])
      BY <1>2, <1>10, <3>1, LocksExclude DEF Holds
    <3>3. QED
      BY <1>3, <1>4, <3>2 DEF Live
  <2>5. Inserting(u) => LET z == p_new_node[u] IN mem'[z] = mem[z] /\ link'[z] = link[z]
    <3>1. SUFFICES ASSUME Inserting(u)
                   PROVE  p_new_node[u] \in Node /\ p_new_node[u] # x /\ p_new_node[u] # p
      BY <1>3
    <3>2. p_new_node[u] \in Node /\ mem[p_new_node[u]] = "private"
      BY <2>1, <3>1, ConstantFacts DEF ThreadInv, Owns
    <3>3. Inserting(t)
      BY <1>1 DEF Inserting
    <3>4. QED
      BY <1>4, <1>10, <3>1, <3>2, <3>3 DEF Alone, Live
  <2>6. Freeing(u) => mem'[p_next[u]] = mem[p_next[u]]
    BY <1>3, <1>4, <2>1, ConstantFacts DEF ThreadInv, Owns
  <2>7. QED
    BY <1>1, <2>1, <2>2, <2>3, <2>4, <2>5, <2>6, ThreadFrame
<1>11. ThreadInv(t)'
  <2>1. Recorded(t)'
    BY <1>1, <1>2, <1>3, <1>5, RecordedPublish DEF ThreadInv
  <2>2. /\ Phase(t)' /\ LookupStands(t)' /\ UpdaterStands(t)' /\ Owns(t)' /\ Answered(t)'
    BY <1>1, <1>2 DEF ThreadInv, Phase, LookupStands, Looking, UpdaterStands, Spinning,
                      Owns, Inserting, Freeing, Answered, WasTrue
  <2>3. QED
    BY <2>1, <2>2 DEF ThreadInv
<1>12. QED
  BY <1>3, <1>7, <1>8, <1>9, <1>10, <1>11

\* The remove that unlinks p_next has three neighbours.
LEMMA RemoveUnlinkReady ==
  ASSUME Inv, NEW t \in Threads, pc[t] = "update", op[t] = "remove"
  PROVE  DeleteReady(t) /\ Spinning(t)
<1>1. Spinning(t) /\ ThreadInv(t)
  BY DEF Inv, Spinning
<1>2. QED
  BY <1>1, UpdaterFacts DEF ThreadInv, UpdaterStands, DeleteReady

\* RCU_ASSIGN_PTR(p_prev->p_next, n)
LEMMA RemoveUnlinkInv ==
  ASSUME Inv, NEW t \in Threads, RemoveUnlink(t)
  PROVE  Inv' /\ Contents' = Contents \ {key[t]} /\ key[t] \in Contents
<1> USE DEF RemoveUnlink, Decide, Goto, Inv, TypeOK, LocalTypeOK, rcuVars, driverVars
<1>1. /\ SameOthers(t) /\ fill' = fill /\ rcuspin' = rcuspin /\ Unlink(t)
      /\ pc[t] = "update" /\ pc'[t] = "unlock" /\ op[t] = "remove" /\ result'[t] = 1
      /\ UNCHANGED <<val, removed, bkt, rcu, gp, op, key, p_prev, p_next, n, p_new_node>>
  BY DEF SameOthers, SameThread
<1>2. DeleteReady(t) /\ Spinning(t) /\ ThreadInv(t)
  BY <1>1, RemoveUnlinkReady
<1> DEFINE p == p_prev[t]
<1> DEFINE x == p_next[t]
<1>3. /\ SortedLists' /\ NodeTypeOK' /\ Live' = Live \ {x}
      /\ Contents' = Contents \ {key[t]}
      /\ mem'[x] = "unlinked"
      /\ \A y \in Node : y # x => mem'[y] = mem[y]
      /\ \A y \in Node : y # p => link'[y] = link[y]
  BY <1>1, <1>2, UnlinkFacts DEF NodeTypeOK
<1>4. /\ p \in Live /\ bkt[p] = Hash(key[t]) /\ p \in Node /\ x \in DataNodes /\ x \in Live
      /\ bkt[x] = Hash(key[t]) /\ key[t] \in Contents /\ x \in Node
  BY <1>2, DeleteReadyFacts DEF DeleteReady
<1>5. Observe(t, "absent") /\ (\A u \in Threads : obs[u] \subseteq obs'[u]) /\ seen' = seen
  BY <1>1 DEF Unlink, Observe
<1>6. TypeOK'
  <2>1. obs' \in [Threads -> SUBSET {"present", "absent"}]
    BY <1>5 DEF Observe
  <2>2. pc' \in [Threads -> Labels] /\ result' \in [Threads -> 0..2]
    BY DEF Labels
  <2>3. LocalTypeOK'
    BY <1>1, <1>3, <1>5, <2>1, <2>2
  <2>4. QED
    BY <1>1, <1>3, <2>2, <2>3
<1>7. Locked'
  <2>1. Holds(t)' /\ Holds(t)
    BY <1>1, <1>2 DEF Holds, Spinning
  <2>2. QED
    BY <1>1, <2>1, LockedFrame
<1>8. \A u \in Threads : /\ Inserting(u) => p_new_node[u] # x /\ p_new_node[u] # p /\ p_new_node[u] \in Node
                         /\ Freeing(u) => p_next[u] # x /\ p_next[u] \in Node
  BY <1>4, ConstantFacts DEF ThreadInv, Owns, Live
<1>9. Alone'
  BY <1>1, <1>8 DEF Alone, SameOthers, SameThread, Inserting, Freeing
<1>10. ASSUME NEW u \in Threads, u # t PROVE ThreadInv(u)'
  <2>1. ThreadInv(u) /\ SameThread(u) /\ obs[u] \subseteq obs'[u] /\ seen'[u] = seen[u]
    BY <1>1, <1>5, <1>10 DEF SameOthers
  <2>2. Recorded(u)'
    BY <1>1, <1>3, <1>5, <2>1, RecordedUnlink DEF ThreadInv
  <2>3. Looking(u) => View(u)'
    <3>1. SUFFICES ASSUME Looking(u) PROVE View(u)'
      OBVIOUS
    <3>2. View(u) /\ seen[u] \subseteq Node /\ key[u] \in Keys /\ op[u] # "none"
      BY <3>1, LookupFacts DEF Looking
    <3>3. QED
      BY <1>1, <1>2, <3>2, ViewUnlink DEF NodeTypeOK
  <2>4. Spinning(u) => \A y \in Live : bkt[y] = Hash(key[u]) =>
          y \in Live' /\ val'[y] = val[y] /\ bkt'[y] = bkt[y] /\ link'[y] = link[y]
    <3>1. SUFFICES ASSUME Spinning(u)
                   PROVE  \A y \in Live : bkt[y] = Hash(key[u]) => y \in Live' /\ link'[y] = link[y]
      BY <1>1
    <3>2. Hash(key[t]) # Hash(key[u])
      BY <1>2, <1>10, <3>1, LocksExclude DEF Holds
    <3>3. QED
      BY <1>3, <1>4, <3>2 DEF Live
  <2>5. Inserting(u) => LET z == p_new_node[u] IN mem'[z] = mem[z] /\ link'[z] = link[z]
    BY <1>3, <1>8
  <2>6. Freeing(u) => mem'[p_next[u]] = mem[p_next[u]]
    BY <1>3, <1>8
  <2>7. QED
    BY <1>1, <2>1, <2>2, <2>3, <2>4, <2>5, <2>6, ThreadFrame
<1>11. ThreadInv(t)'
  <2>1. Recorded(t)'
    BY <1>1, <1>2, <1>3, <1>5, RecordedUnlink DEF ThreadInv
  <2>2. /\ Phase(t)' /\ LookupStands(t)' /\ UpdaterStands(t)' /\ Owns(t)' /\ Answered(t)'
    BY <1>1, <1>2, <1>3, <1>4 DEF ThreadInv, Phase, LookupStands, Looking, UpdaterStands, Spinning,
                                  Owns, Inserting, Freeing, Answered, WasTrue
  <2>3. QED
    BY <2>1, <2>2 DEF ThreadInv
<1>12. QED
  BY <1>3, <1>4, <1>6, <1>7, <1>9, <1>10, <1>11

\* rcu_free_node(p_next): the grace period waits for every lookup.
LEMMA FreeInv ==
  ASSUME Inv, NEW t \in Threads, Free(t)
  PROVE  Inv' /\ Contents' = Contents
<1> USE DEF Free, Goto, Inv, TypeOK, LocalTypeOK, driverVars, historyVars
<1> DEFINE x == p_next[t]
<1>1. /\ SameOthers(t) /\ fill' = fill /\ rcuspin' = rcuspin /\ kfree_rcu(x)
      /\ pc[t] = "free" /\ pc'[t] = "ret"
      /\ UNCHANGED <<val, link, removed, bkt, rcu, op, key, p_prev, p_next, n, p_new_node,
                     result, seen, obs>>
  BY DEF SameOthers, SameThread
<1>2. /\ ThreadInv(t) /\ op[t] = "remove" /\ result[t] = 1 /\ Freeing(t)
      /\ x \in DataNodes /\ x \in Node /\ mem[x] = "unlinked"
  BY <1>1, ConstantFacts DEF ThreadInv, Phase, Owns, Freeing
<1>3. mem' = [mem EXCEPT ![x] = "deferred"] /\ gp' = [gp EXCEPT ![x] = {u \in Threads : Reader(u)}]
  BY <1>1 DEF kfree_rcu
<1>4. SortedLists' /\ Contents' = Contents /\ Live' = Live
  BY <1>1, <1>2, <1>3, MemFrame
<1>5. \A y \in Node : y # x => mem'[y] = mem[y]
  BY <1>3 DEF NodeTypeOK
<1>6. TypeOK'
  <2>1. NodeTypeOK'
    BY <1>1, <1>2, <1>3 DEF NodeTypeOK, MemState
  <2>2. QED
    BY <1>1, <2>1 DEF Labels
<1>7. Locked'
  <2>1. ~Holds(t)' /\ ~Holds(t)
    BY <1>1 DEF Holds, Spinning
  <2>2. QED
    BY <1>1, <2>1, LockedFrame
<1>8. Alone'
  <2>1. ~Inserting(t)' /\ ~Freeing(t)'
    BY <1>1 DEF Inserting, Freeing
  <2>2. QED
    BY <1>1, <2>1, AloneFrame
<1>9. ASSUME NEW u \in Threads, u # t PROVE ThreadInv(u)'
  <2>1. ThreadInv(u) /\ SameThread(u) /\ seen'[u] = seen[u] /\ obs'[u] = obs[u]
    BY <1>1, <1>9 DEF SameOthers
  <2>2. Recorded(u)'
    BY <1>1, <1>4, <2>1 DEF ThreadInv, Recorded
  <2>3. Looking(u) => View(u)'
    <3>1. SUFFICES ASSUME Looking(u) PROVE View(u)'
      OBVIOUS
    <3>2. View(u) /\ seen[u] \subseteq Node
      BY <3>1, LookupFacts
    <3>3. Reader(u)
      BY <2>1, <3>1 DEF Reader, ThreadInv, Phase, Looking
    <3>4. QED
      BY <1>1, <1>2, <2>1, <3>2, <3>3, ViewDefer
  <2>4. /\ Inserting(u) => p_new_node[u] # x /\ p_new_node[u] \in Node
        /\ Freeing(u) => p_next[u] # x /\ p_next[u] \in Node
    BY <1>2, <1>9, <2>1, ConstantFacts DEF ThreadInv, Owns, Alone
  <2>5. QED
    BY <1>1, <1>4, <1>5, <2>1, <2>2, <2>3, <2>4, ThreadFrame
<1>10. ThreadInv(t)'
  BY <1>1, <1>2, <1>4 DEF ThreadInv, Phase, LookupStands, Looking, UpdaterStands, Spinning,
                    Owns, Inserting, Freeing, Answered, Decided, WasTrue, Recorded
<1>11. QED
  BY <1>4, <1>6, <1>7, <1>8, <1>9, <1>10

\* A grace period ends: nobody can still stand on the node.
LEMMA ReclaimInv ==
  ASSUME Inv, NEW x \in DataNodes, Reclaim(x), UNCHANGED rcuspin
  PROVE  Inv' /\ Contents' = Contents
<1> USE DEF Reclaim, Inv, TypeOK, LocalTypeOK, rcuVars, localVars, driverVars, historyVars
<1>1. /\ \A u \in Threads : SameThread(u)
      /\ UNCHANGED <<val, link, removed, bkt, rcu, gp, fill, seen, obs, pc, op, key, p_next, p_new_node, result>>
      /\ mem' = [mem EXCEPT ![x] = "free"] /\ mem[x] = "deferred" /\ gp[x] = {} /\ x \in Node
  BY ConstantFacts DEF SameThread
<1>2. SortedLists' /\ Contents' = Contents /\ Live' = Live
  BY <1>1, MemFrame
<1>3. \A y \in Node : y # x => mem'[y] = mem[y]
  BY <1>1 DEF NodeTypeOK
<1>4. TypeOK'
  BY DEF NodeTypeOK, MemState
<1>5. Locked'
  BY <1>1 DEF Locked, Holds, Spinning
<1>6. Alone'
  BY <1>1 DEF Alone, Inserting, Freeing
<1>7. ASSUME NEW u \in Threads PROVE ThreadInv(u)'
  <2>1. ThreadInv(u) /\ SameThread(u) /\ seen'[u] = seen[u] /\ obs'[u] = obs[u]
    BY <1>1
  <2>2. Recorded(u)'
    BY <1>1, <1>2, <2>1 DEF ThreadInv, Recorded
  <2>3. Looking(u) => View(u)'
    <3>1. SUFFICES ASSUME Looking(u) PROVE View(u)'
      OBVIOUS
    <3>2. View(u) /\ seen[u] \subseteq Node
      BY <3>1, LookupFacts
    <3>3. x \notin seen[u]
      BY <1>1, <3>2, NotInView
    <3>4. QED
      BY <1>1, <1>2, <1>3, <2>1, <3>2, <3>3, ViewFrame
  <2>4. /\ Inserting(u) => p_new_node[u] # x /\ p_new_node[u] \in Node
        /\ Freeing(u) => p_next[u] # x /\ p_next[u] \in Node
    BY <1>1, <2>1, ConstantFacts DEF ThreadInv, Owns
  <2>5. QED
    BY <1>1, <1>2, <1>3, <2>1, <2>2, <2>3, <2>4, ThreadFrame
<1>8. QED
  BY <1>2, <1>4, <1>5, <1>6, <1>7

\* sync_test_init() inserts while no thread runs.
LEMMA HalfFillInv ==
  ASSUME Inv, NEW k \in Keys, HalfFill(k), UNCHANGED rcuspin
  PROVE  /\ Inv' /\ \A t \in Threads : op[t] = "none"
         /\ Contents' = Contents \/ Contents' = Contents \union {k}
<1> USE DEF HalfFill, Inv, TypeOK, LocalTypeOK
<1>1. /\ UNCHANGED <<rcu, gp, bench, ops, seen, obs, pc, op, key, p_prev, p_next, n, p_new_node, result>>
      /\ fill' = fill - 1 /\ fill > 0 /\ FillWith(k)
  BY DEF FillWith, rcuVars, localVars, historyVars
<1>2. /\ NodeTypeOK' /\ SortedLists'
      /\ Contents' = Contents \/ Contents' = Contents \union {k}
  BY <1>1, FillFacts
<1>3. \A t \in Threads : pc[t] = "idle" /\ op[t] = "none"
  BY <1>1 DEF ThreadInv, Phase
<1>4. TypeOK'
  <2>1. fill' \in 0..FillOps
    BY <1>1, BoundsAssumption
  <2>2. QED
    BY <1>1, <1>2, <2>1
<1>5. Locked' /\ Alone'
  BY <1>1, <1>3 DEF Locked, Holds, Spinning, Alone, Inserting, Freeing
<1>6. ASSUME NEW u \in Threads PROVE ThreadInv(u)'
  <2>1. ThreadInv(u) /\ pc[u] = "idle" /\ op[u] = "none"
    BY <1>3
  <2>2. QED
    BY <1>1, <2>1 DEF ThreadInv, Phase, LookupStands, Looking, UpdaterStands, Spinning,
                      Owns, Inserting, Freeing, Answered, Decided, Recorded
<1>7. QED
  BY <1>2, <1>3, <1>4, <1>5, <1>6

\* A new table, and nobody at work.
LEMMA InitInv ==
  ASSUME Init
  PROVE  Inv
<1>1. ListInit /\ rcuspin = [b \in Buckets |-> NULL]
  BY DEF Init
<1>2. NodeTypeOK /\ LocalTypeOK /\ SortedLists
  BY <1>1, ListInitFacts
<1>3. \A t \in Threads : pc[t] = "idle" /\ op[t] = "none" /\ rcu[t] = 0
  BY <1>1 DEF ListInit
<1>4. TypeOK
  BY <1>1, <1>2 DEF TypeOK, Labels, ListInit
<1>5. Locked /\ Alone
  <2>1. \A t \in Threads : ~Holds(t) /\ ~Inserting(t) /\ ~Freeing(t) /\ t # NULL
    BY <1>3, ThreadsAssumption DEF Holds, Spinning, Inserting, Freeing
  <2>2. QED
    BY <1>1, <2>1 DEF Locked, Alone
<1>6. ASSUME NEW t \in Threads PROVE ThreadInv(t)
  BY <1>3 DEF ThreadInv, Phase, LookupStands, Looking, UpdaterStands, Spinning,
              Owns, Inserting, Freeing, Answered, Decided, Recorded
<1>7. QED
  BY <1>2, <1>4, <1>5, <1>6 DEF Inv

\* Nothing happens.
LEMMA StutterInv ==
  ASSUME Inv, UNCHANGED vars
  PROVE  Inv'
<1> USE DEF vars, listVars, nodeVars, rcuVars, localVars, driverVars, historyVars
<1>1. SortedLists' /\ Live' = Live /\ Contents' = Contents
  BY SortedFrame DEF Inv
<1>2. TypeOK' /\ Locked' /\ Alone'
  BY DEF Inv, TypeOK, NodeTypeOK, LocalTypeOK, Locked, Holds, Spinning, Alone, Inserting, Freeing
<1>3. ASSUME NEW u \in Threads PROVE ThreadInv(u)'
  <2>1. ThreadInv(u) /\ SameThread(u)
    BY DEF Inv, SameThread
  <2>2. Recorded(u)'
    BY <1>1, <2>1 DEF ThreadInv, Recorded
  <2>3. Looking(u) => View(u)'
    BY <1>1, LookupFacts, ViewFrame
  <2>4. QED
    BY <1>1, <2>1, <2>2, <2>3, ThreadFrame
<1>4. QED
  BY <1>1, <1>2, <1>3 DEF Inv

-----------------------------------------------------------------------------
\* Every step keeps the invariant.
LEMMA NextInv ==
  ASSUME Inv, [Next]_vars
  PROVE  Inv'
<1>1. ASSUME NEW k \in Keys, HalfFill(k) /\ UNCHANGED rcuspin PROVE Inv'
  BY <1>1, HalfFillInv
<1>2. ASSUME NEW t \in Threads, NEW k \in Keys, BeginLookup(t, k) PROVE Inv'
  BY <1>2, BeginLookupInv
<1>3. ASSUME NEW t \in Threads, NEW k \in Keys, NEW o \in {"add", "remove"}, BeginUpdate(t, o, k)
      PROVE  Inv'
  BY <1>3, BeginUpdateInv
<1>4. ASSUME NEW t \in Threads, Lock(t) PROVE Inv'
  BY <1>4, LockInv
<1>5. ASSUME NEW t \in Threads, Step(t) PROVE Inv'
  <2>1. CASE Traverse(t)
    BY <2>1, DerefInv, AdvanceInv, RemoveReadInv DEF Traverse
  <2>2. CASE Contains(t)
    BY <2>2, AnswerInv, ReaderUnlockInv DEF Contains
  <2>3. CASE Add(t)
    BY <2>3, AnswerInv, AddNewNodeInv, AddLinkInv DEF Add
  <2>4. CASE Remove(t)
    BY <2>4, AnswerInv, RemoveReadInv, RemoveUnlinkInv, FreeInv DEF Remove
  <2>5. CASE WriterUnlock(t) \/ TryFails(t) \/ Finish(t)
    BY <2>5, WriterUnlockInv, TryFailsInv, FinishInv
  <2>6. QED
    BY <1>5, <2>1, <2>2, <2>3, <2>4, <2>5 DEF Step
<1>6. ASSUME Kernel PROVE Inv'
  BY <1>6, ReclaimInv DEF Kernel
<1>7. CASE UNCHANGED vars
  BY <1>7, StutterInv
<1>8. QED
  BY <1>1, <1>2, <1>3, <1>4, <1>5, <1>6, <1>7 DEF Next

(***************************************************************************)
(* The inductive invariant of the RCU list.                                *)
(***************************************************************************)
THEOREM Invariance == Spec => []Inv
<1>1. Init => Inv
  BY InitInv
<1>2. Inv /\ [Next]_vars => Inv'
  BY NextInv
<1>3. QED
  BY <1>1, <1>2, PTL DEF Spec

\* Every variable of the RCU list keeps its type: pointers point to nodes,
\* a bucket lock is free or held by a thread.
THEOREM TypeCorrect == Spec => []TypeOK
<1>1. Inv => TypeOK
  BY DEF Inv
<1>2. QED
  BY <1>1, Invariance, PTL

\* An updater that holds its bucket's lock writes on the strength of what it
\* read earlier, and that is still so when it writes: p_prev, p_next and n are
\* neighbours in the list.
THEOREM ViewStaysCurrent == Spec => []ViewIsCurrent
<1>1. ASSUME Inv PROVE ViewIsCurrent
  <2>1. SUFFICES ASSUME NEW t \in Threads, Spinning(t)
                 PROVE  /\ p_prev[t] \in Live
                        /\ pc[t] # "deref" => p_next[t] \in Live /\ link[p_prev[t]] = p_next[t]
                        /\ pc[t] = "update" /\ op[t] = "remove" => link[p_next[t]] = n[t]
    BY DEF ViewIsCurrent
  <2>2. UpdaterStands(t)
    BY <1>1 DEF Inv, ThreadInv
  <2>3. QED
    BY <1>1, <2>1, <2>2, UpdaterFacts DEF UpdaterStands
<1>2. QED
  BY <1>1, Invariance, PTL

\* No thread dereferences freed memory: lookups are covered by their RCU
\* section, updaters, who have none, by the lock of their bucket.
THEOREM MemorySafe == Spec => []NoUseAfterFree
<1>1. ASSUME Inv PROVE NoUseAfterFree
  <2>1. SUFFICES ASSUME NEW t \in Threads, NEW x \in Touches(t)
                 PROVE  mem[x] # "free"
    BY DEF NoUseAfterFree
  <2>2. ThreadInv(t) /\ NodeTypeOK /\ SortedLists
    BY <1>1 DEF Inv, TypeOK
  <2>3. CASE Looking(t)
    <3>1. \A y \in seen[t] : mem[y] # "free"
      BY <1>1, <2>3, LookupFacts DEF View, ViewProtected
    <3>2. QED
      BY <1>1, <2>1, <2>3, <3>1, LookupFacts DEF Touches, Looking
  <2>4. CASE Spinning(t)
    <3>1. \A y \in Live : mem[y] # "free"
      BY DEF Live
    <3>2. p_prev[t] \in Live /\ (pc[t] # "deref" => p_next[t] \in Live)
      BY <1>1, <2>4, UpdaterFacts
    <3>3. pc[t] = "update" /\ op[t] = "remove" => n[t] \in Live
      BY <1>1, <2>2, RemoveUnlinkReady, DeleteReadyFacts
    <3>4. pc[t] = "update" /\ op[t] = "add" => mem[p_new_node[t]] = "private"
      BY <2>2 DEF ThreadInv, Owns, Inserting
    <3>5. pc[t] = "update" => op[t] \in {"add", "remove"}
      BY <2>4 DEF Spinning
    <3>6. QED
      BY <2>1, <2>4, <3>1, <3>2, <3>3, <3>4, <3>5 DEF Touches, Spinning
  <2>5. CASE pc[t] = "free"
    <3>1. mem[p_next[t]] = "unlinked"
      BY <2>2, <2>5 DEF ThreadInv, Phase, Owns, Freeing
    <3>2. QED
      BY <2>1, <2>5, <3>1 DEF Touches
  <2>6. CASE ~Looking(t) /\ ~Spinning(t) /\ pc[t] # "free"
    <3>1. pc[t] \notin {"deref", "test", "succ", "update"}
      <4>1. pc[t] \in {"deref", "test", "succ", "update"} => pc[t] # "idle"
        OBVIOUS
      <4>2. QED
        BY <1>1, <2>2, <2>6, <4>1, OpFacts DEF Looking, Spinning, ThreadInv, Phase
    <3>2. QED
      BY <2>1, <2>6, <3>1 DEF Touches
  <2>7. QED
    BY <2>3, <2>4, <2>5, <2>6
<1>2. QED
  BY <1>1, Invariance, PTL

\* The buckets stay sorted and free of duplicates.
THEOREM ListsSorted == Spec => []SortedLists
<1>1. Inv => SortedLists
  BY DEF Inv
<1>2. QED
  BY <1>1, Invariance, PTL

\* No insertion is lost and no removed node comes back: a walk from the heads
\* of the buckets meets exactly the nodes that are in the set.
THEOREM UpdatesNotLost == Spec => []NoLostUpdate
<1>1. Inv => NoLostUpdate
  BY NothingLost DEF Inv, TypeOK
<1>2. QED
  BY <1>1, Invariance, PTL

\* Lookups answer what was true at some moment of the call, also when they
\* run through nodes that were unlinked meanwhile.
THEOREM AnswersLinearizable == Spec => []Linearizable
<1>1. Inv => Linearizable
  BY DEF Inv, ThreadInv, Answered, Linearizable
<1>2. QED
  BY <1>1, Invariance, PTL

\* rcu_free_node() is called once for each node that was unlinked, although
\* it is called after the lock was released.
THEOREM NodesFreedOnce == Spec => []FreedOnce
<1>1. ASSUME Inv PROVE FreedOnce
  BY <1>1 DEF Inv, ThreadInv, Phase, Owns, Freeing, FreedOnce
<1>2. QED
  BY <1>1, Invariance, PTL

-----------------------------------------------------------------------------
(***************************************************************************)
(* The RCU list implements the abstract set.                               *)
(***************************************************************************)

\* Answers that change nothing are answers of the abstract set.
LEMMA RefineReport ==
  ASSUME Inv, NEW t \in Threads, ContainsDone(t) \/ NothingToAdd(t) \/ NothingToRemove(t)
  PROVE  Abstract!Next
<1>1. Contents' = Contents
  BY AnswerInv
<1>2. /\ pc[t] = "test" /\ ~Decided(t) /\ Decided(t)' /\ UNCHANGED <<op, key, obs>>
      /\ \A u \in Threads : u # t => pc'[u] = pc[u] /\ result'[u] = result[u]
      /\ op[t] # "none"
  BY DEF ContainsDone, NothingToAdd, NothingToRemove, Arrived, Decide, Goto, Decided,
         historyVars, Inv, TypeOK, LocalTypeOK
<1>3. CASE ContainsDone(t)
  <2> DEFINE r == IF Found(t) THEN 1 ELSE 0
  <2>1. Arrived(t, "contains") /\ op[t] = "contains" /\ result'[t] = r
    BY <1>3 DEF ContainsDone, Arrived, Decide, Inv, TypeOK, LocalTypeOK
  <2>2. Abstract!Answer(t, r)
    BY <1>2, <2>1, AnswerStep
  <2>3. IF Found(t) THEN "present" \in obs[t] ELSE "absent" \in obs[t]
    BY <2>1, ArrivedFacts DEF OpNames
  <2>4. QED
    BY <1>1, <1>2, <2>1, <2>2, <2>3, ReportStep
<1>4. CASE NothingToAdd(t)
  <2>1. Arrived(t, "add") /\ op[t] = "add" /\ result'[t] = 0 /\ Found(t)
    BY <1>4 DEF NothingToAdd, Arrived, Decide, Inv, TypeOK, LocalTypeOK
  <2>2. Abstract!Answer(t, 0)
    BY <1>2, <2>1, AnswerStep
  <2>3. "present" \in obs[t]
    BY <2>1, ArrivedFacts DEF OpNames
  <2>4. QED
    BY <1>1, <1>2, <2>1, <2>2, <2>3, ReportStep
<1>5. CASE NothingToRemove(t)
  <2>1. Arrived(t, "remove") /\ op[t] = "remove" /\ result'[t] = 0 /\ ~Found(t)
    BY <1>5 DEF NothingToRemove, Arrived, Decide, Inv, TypeOK, LocalTypeOK
  <2>2. Abstract!Answer(t, 0)
    BY <1>2, <2>1, AnswerStep
  <2>3. "absent" \in obs[t]
    BY <2>1, ArrivedFacts DEF OpNames
  <2>4. QED
    BY <1>1, <1>2, <2>1, <2>2, <2>3, ReportStep
<1>6. QED
  BY <1>3, <1>4, <1>5

\* The update of the list is the linearization point; a failed spin_trylock()
\* gives the call up.
LEMMA RefineUpdate ==
  ASSUME Inv, NEW t \in Threads, AddLink(t) \/ RemoveUnlink(t) \/ TryFails(t)
  PROVE  Abstract!Next
<1>1. CASE AddLink(t)
  <2>1. Contents' = Contents \union {key[t]} /\ key[t] \notin Contents
    BY <1>1, AddLinkInv
  <2>2. /\ op[t] = "add" /\ ~Decided(t) /\ Decided(t)' /\ UNCHANGED <<op, key>> /\ result'[t] = 1
        /\ \A u \in Threads : u # t => pc'[u] = pc[u] /\ result'[u] = result[u]
        /\ Observe(t, "present")
    BY <1>1 DEF AddLink, Publish, Decide, Goto, Decided, Inv, TypeOK, LocalTypeOK
  <2>3. Abstract!Answer(t, 1)
    BY <2>2, AnswerStep
  <2>4. QED
    BY <2>1, <2>2, <2>3, InsertStep
<1>2. CASE RemoveUnlink(t)
  <2>1. Contents' = Contents \ {key[t]} /\ key[t] \in Contents
    BY <1>2, RemoveUnlinkInv
  <2>2. /\ op[t] = "remove" /\ ~Decided(t) /\ Decided(t)' /\ UNCHANGED <<op, key>> /\ result'[t] = 1
        /\ \A u \in Threads : u # t => pc'[u] = pc[u] /\ result'[u] = result[u]
        /\ Observe(t, "absent")
    BY <1>2 DEF RemoveUnlink, Unlink, Decide, Goto, Decided, Inv, TypeOK, LocalTypeOK
  <2>3. Abstract!Answer(t, 1)
    BY <2>2, AnswerStep
  <2>4. QED
    BY <2>1, <2>2, <2>3, DeleteStep
<1>3. CASE TryFails(t)
  <2>1. Contents' = Contents /\ op[t] \in {"add", "remove"}
    BY <1>3, TryFailsInv DEF TryFails, Inv, ThreadInv, Phase
  <2>2. /\ ~Decided(t) /\ Decided(t)' /\ UNCHANGED <<op, key, obs>> /\ result'[t] = 2
        /\ \A u \in Threads : u # t => pc'[u] = pc[u] /\ result'[u] = result[u]
    BY <1>3 DEF TryFails, ABORTED, Goto, Decided, historyVars, Inv, TypeOK, LocalTypeOK
  <2>3. Abstract!Answer(t, 2)
    BY <2>1, <2>2, AnswerStep
  <2>4. QED
    BY <2>1, <2>2, <2>3, GiveUpStep
<1>4. QED
  BY <1>1, <1>2, <1>3

\* Calls and returns are calls and returns of the abstract set.
LEMMA RefineCallReturn ==
  ASSUME Inv, NEW t \in Threads,
         \/ \E k \in Keys : \/ BeginLookup(t, k)
                            \/ \E o \in {"add", "remove"} : BeginUpdate(t, o, k)
         \/ Finish(t)
  PROVE  Abstract!Next
<1>1. ASSUME NEW k \in Keys, BeginLookup(t, k) PROVE Abstract!Next
  <2>1. Contents' = Contents
    BY <1>1, BeginLookupInv
  <2>2. /\ Call(t, "contains", k) /\ pc[t] = "idle" /\ result' = result /\ ~Decided(t)' /\ ~Decided(t)
        /\ \A u \in Threads : u # t => pc'[u] = pc[u]
    BY <1>1 DEF BeginLookup, Call, StartAt, Goto, Decided, Inv, TypeOK
  <2>3. op[t] = "none"
    BY <2>2 DEF Inv, ThreadInv, Phase
  <2>4. QED
    BY <2>1, <2>2, <2>3, CallStep DEF OpNames
<1>2. ASSUME NEW k \in Keys, NEW o \in {"add", "remove"}, BeginUpdate(t, o, k) PROVE Abstract!Next
  <2>1. Contents' = Contents
    BY <1>2, BeginUpdateInv
  <2>2. /\ Call(t, o, k) /\ pc[t] = "idle" /\ result' = result /\ ~Decided(t)' /\ ~Decided(t)
        /\ \A u \in Threads : u # t => pc'[u] = pc[u]
    BY <1>2 DEF BeginUpdate, Call, Goto, Decided, Inv, TypeOK
  <2>3. op[t] = "none" /\ o \in OpNames
    BY <2>2 DEF Inv, ThreadInv, Phase, OpNames
  <2>4. QED
    BY <2>1, <2>2, <2>3, CallStep
<1>3. CASE Finish(t)
  <2>1. Contents' = Contents
    BY <1>3, FinishInv
  <2>2. Return(t) /\ pc'[t] = "idle" /\ \A u \in Threads : u # t => pc'[u] = pc[u]
    BY <1>3 DEF Finish, Return, Goto, Inv, TypeOK
  <2>3. QED
    BY <2>1, <2>2, ReturnStep DEF Inv, TypeOK
<1>4. QED
  BY <1>1, <1>2, <1>3

\* The other steps of a call are invisible.
LEMMA RefineInvisible ==
  ASSUME Inv, NEW t \in Threads,
         \/ Lock(t) \/ Traverse(t) \/ ReaderUnlock(t) \/ AddNewNode(t)
         \/ RemoveFound(t) \/ Free(t) \/ WriterUnlock(t)
  PROVE  UNCHANGED Abstract!vars
<1>1. Contents' = Contents
  BY LockInv, DerefInv, AdvanceInv, RemoveReadInv, ReaderUnlockInv, AddNewNodeInv, FreeInv,
     WriterUnlockInv DEF Traverse
<1>2. /\ UNCHANGED <<op, key, obs, result>> /\ (Decided(t)' <=> Decided(t))
      /\ \A u \in Threads : u # t => pc'[u] = pc[u]
  BY DEF Lock, Traverse, Deref, Advance, ReadSucc, ReaderUnlock, AddNewNode, RemoveFound, Free,
         WriterUnlock, Arrived, StartAt, Goto, Decided, historyVars, Inv, TypeOK
<1>3. QED
  BY <1>1, <1>2, SameReply, Invisible

\* Every step of the list is a step of the abstract set or invisible.
LEMMA RefineNext ==
  ASSUME Inv, [Next]_vars
  PROVE  [Abstract!Next]_(Abstract!vars)
<1>1. ASSUME NEW k \in Keys, HalfFill(k), UNCHANGED rcuspin PROVE [Abstract!Next]_(Abstract!vars)
  BY <1>1, HalfFillInv, FillStep DEF HalfFill
<1>2. ASSUME NEW t \in Threads, NEW k \in Keys,
             BeginLookup(t, k) \/ \E o \in {"add", "remove"} : BeginUpdate(t, o, k)
      PROVE  [Abstract!Next]_(Abstract!vars)
  BY <1>2, RefineCallReturn
<1>3. ASSUME NEW t \in Threads, Lock(t) \/ Step(t) PROVE [Abstract!Next]_(Abstract!vars)
  BY <1>3, RefineReport, RefineUpdate, RefineInvisible, RefineCallReturn
     DEF Step, Contains, Add, Remove
<1>4. CASE Kernel
  <2>1. Contents' = Contents
    BY <1>4, ReclaimInv DEF Kernel
  <2>2. UNCHANGED <<op, key, obs, pc, result>>
    BY <1>4 DEF Kernel, Reclaim, localVars, historyVars
  <2>3. QED
    BY <2>1, <2>2, Invisible DEF reply, Decided
<1>5. CASE UNCHANGED vars
  <2>1. Contents' = Contents
    BY <1>5, SortedFrame DEF Inv, vars, listVars, nodeVars
  <2>2. UNCHANGED <<op, key, obs, pc, result>>
    BY <1>5 DEF vars, listVars, localVars, historyVars
  <2>3. QED
    BY <2>1, <2>2, Invisible DEF reply, Decided
<1>6. QED
  BY <1>1, <1>2, <1>3, <1>4, <1>5 DEF Next

\* The RCU hash table is a linearizable set: an update takes effect when it
\* writes p_prev->p_next under its lock, every other answer was true during
\* the call, and a failed spin_trylock() changes nothing.
THEOREM Refinement == Spec => ImplementsSet
<1>1. Init => Abstract!Init
  BY AbstractInit DEF Init
<1>2. Inv /\ [Next]_vars => [Abstract!Next]_(Abstract!vars)
  BY RefineNext
<1>3. QED
  BY <1>1, <1>2, Invariance, PTL DEF Spec, ImplementsSet, Abstract!Spec

-----------------------------------------------------------------------------
\* An unlinked node keeps its p_next until it is freed, so a lookup that
\* stands on it gets back into the list.
THEOREM StaleFrozen == Spec => StaleNodesFrozen
<1> DEFINE Frozen == \A x \in Node : Stale(x) /\ Stale(x)' => link'[x] = link[x]
<1>1. ASSUME Inv, [Next]_vars PROVE [Frozen]_listVars
  <2>1. ASSUME NEW k \in Keys, HalfFill(k) PROVE Frozen
    BY <1>1, <2>1, ConstantFacts
       DEF HalfFill, FillWith, nodeVars, Stale, Live, Inv, TypeOK, NodeTypeOK
  <2>2. ASSUME NEW t \in Threads, AddNewNode(t) PROVE Frozen
    BY <1>1, <2>2, ConstantFacts
       DEF AddNewNode, NewNode, Stale, Inv, TypeOK, NodeTypeOK
  <2>3. ASSUME NEW t \in Threads, AddLink(t) \/ RemoveUnlink(t) PROVE Frozen
    <3>1. p_prev[t] \in Live
      BY <1>1, <2>3, AddLinkReady, RemoveUnlinkReady
         DEF AddLink, RemoveUnlink, InsertReady, DeleteReady
    <3>2. \A x \in Node : x # p_prev[t] => link'[x] = link[x]
      BY <1>1, <2>3 DEF AddLink, RemoveUnlink, Publish, Unlink, Inv, TypeOK, NodeTypeOK
    <3>3. QED
      BY <3>1, <3>2 DEF Stale, Live
  <2>4. CASE link' = link
    BY <2>4
  <2>5. ASSUME NEW t \in Threads, Lock(t) \/ Step(t), ~AddNewNode(t), ~AddLink(t), ~RemoveUnlink(t)
        PROVE  link' = link
    BY <2>5 DEF Lock, Step, Traverse, Contains, Add, Remove, Deref, Advance, ReadSucc,
       ContainsDone, NothingToAdd, NothingToRemove, RemoveFound, ReaderUnlock, WriterUnlock,
       TryFails, Free, Finish, Return, nodeVars
  <2>6. CASE Kernel \/ UNCHANGED vars
    BY <2>6 DEF Kernel, Reclaim, vars, listVars, nodeVars
  <2>7. ASSUME NEW t \in Threads, NEW k \in Keys,
               BeginLookup(t, k) \/ \E o \in {"add", "remove"} : BeginUpdate(t, o, k)
        PROVE  link' = link
    BY <2>7 DEF BeginLookup, BeginUpdate, nodeVars
  <2>8. QED
    BY <1>1, <2>1, <2>2, <2>3, <2>4, <2>5, <2>6, <2>7 DEF Next
<1>2. QED
  BY <1>1, Invariance, PTL DEF Spec, StaleNodesFrozen

=============================================================================
