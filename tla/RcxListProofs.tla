--------------------------- MODULE RcxListProofs ---------------------------
(***************************************************************************)
(* Machine-checked proofs about RcxList.                                   *)
(***************************************************************************)
EXTENDS RcxList, SortedListProofs

USE DEF ViewProtected, ViewClosed, ViewWitnessed, Recorded

\* Steps that write no node leave everything about the lists alone.
LEMMA Frame ==
  ASSUME SortedLists, RemovedFlag, UNCHANGED nodeVars
  PROVE  SortedLists' /\ RemovedFlag' /\ Contents' = Contents /\ Live' = Live
<1> USE DEF nodeVars
<1>1. RemovedFlag'
  BY DEF RemovedFlag, Stale
<1>2. QED
  BY <1>1, SortedFrame

\* Where a traversal stands: p_prev is a node it may follow.
LEMMA CursorFacts ==
  ASSUME Inv, NEW t \in Threads, Traversing(t)
  PROVE  /\ key[t] \in Keys /\ op[t] # "none" /\ seen[t] \subseteq Node
         /\ p_prev[t] \in seen[t] \ MaxNodes
         /\ val[p_prev[t]] < key[t] /\ bkt[p_prev[t]] = Hash(key[t])
         /\ link[p_prev[t]] \in seen[t]
         /\ bkt[link[p_prev[t]]] = Hash(key[t])
         /\ val[p_prev[t]] < val[link[p_prev[t]]]
<1>1. key[t] \in Keys /\ op[t] # "none"
  BY DEF Inv, Phases, Traversing
<1>2. seen[t] \subseteq Node
  BY DEF Inv, TypeOK, LocalTypeOK
<1>3. p_prev[t] \in seen[t] /\ bkt[p_prev[t]] = Hash(key[t]) /\ val[p_prev[t]] < key[t]
  BY DEF Inv, Cursor
<1>4. p_prev[t] \notin MaxNodes
  <2>1. NodeTypeOK /\ Sentinels
    BY DEF Inv, TypeOK, SortedLists
  <2>2. QED
    BY <1>1, <1>2, <1>3, <2>1, NodeValues, ConstantFacts
<1>5. QED
  BY <1>1, <1>2, <1>3, <1>4 DEF Inv, SeenClosed

\* A step that decides a call: the answer was true at some moment.
LEMMA DecideLinearizable ==
  ASSUME Inv, NEW t \in Threads, NEW r, WasTrue(t, r),
         result' = [result EXCEPT ![t] = r], op' = op, obs' = obs,
         \A u \in Threads : u # t => pc'[u] = pc[u]
  PROVE  Linearizable'
<1>1. ASSUME NEW u \in Threads, u # t, Decided(u)' PROVE WasTrue(u, result[u])'
  BY <1>1 DEF Inv, TypeOK, LocalTypeOK, Linearizable, Decided, WasTrue
<1>2. WasTrue(t, result[t])'
  BY DEF Inv, TypeOK, LocalTypeOK, WasTrue
<1>3. QED
  BY <1>1, <1>2 DEF Linearizable

\* Where a traversal stopped: what it found was true at some moment.
LEMMA ArrivedFacts ==
  ASSUME Inv, NEW t \in Threads, NEW o, Arrived(t, o)
  PROVE  /\ Traversing(t) /\ op[t] = o
         /\ p_next[t] \in seen[t] /\ bkt[p_next[t]] = Hash(key[t])
         /\ ~Found(t) => key[t] < val[p_next[t]]
         /\ ~Found(t) => "absent" \in obs[t]
         /\ Found(t) => "present" \in obs[t]
<1>1. Traversing(t) /\ op[t] = o /\ pc[t] = "test" /\ val[p_next[t]] >= key[t]
  BY DEF Traversing, Arrived
<1>2. key[t] \in Int /\ seen[t] \subseteq Node
  BY <1>1, CursorFacts, ConstantFacts
<1>3. /\ p_next[t] \in seen[t] /\ bkt[p_next[t]] = Hash(key[t])
      /\ key[t] < val[p_next[t]] => "absent" \in obs[t]
  BY <1>1 DEF Inv, Cursor
<1>4. Found(t) => "present" \in obs[t]
  BY <1>1, <1>3 DEF Inv, Witnessed, Found
<1>5. val[p_next[t]] \in Int
  BY <1>2, <1>3, NodeValues DEF Inv, TypeOK, SortedLists
<1>6. ~Found(t) => key[t] < val[p_next[t]]
  BY <1>1, <1>2, <1>5 DEF Found
<1>7. QED
  BY <1>1, <1>2, <1>3, <1>4, <1>6

\* p_next = p_prev->p_next: the node reached was in the list during the call.
LEMMA DerefInv ==
  ASSUME Inv, NEW t \in Threads, Deref(t), UNCHANGED expired
  PROVE  Inv' /\ Contents' = Contents
<1> USE DEF Deref, Goto, rcuVars, driverVars, historyVars
<1>1. SortedLists' /\ RemovedFlag' /\ Contents' = Contents /\ Live' = Live
  BY Frame DEF Inv
<1>2. Traversing(t)
  BY DEF Traversing
<1>3. TypeOK'
  BY <1>2, CursorFacts DEF Inv, TypeOK, NodeTypeOK, LocalTypeOK, nodeVars, Ptr, Labels
<1>4. Phases'
  BY DEF Inv, Phases, TypeOK, LocalTypeOK
<1>5. Protected'
  BY <1>1 DEF Inv, Protected, TypeOK, LocalTypeOK, Traversing, nodeVars
<1>6. SeenClosed'
  BY DEF Inv, SeenClosed, TypeOK, LocalTypeOK, Traversing, nodeVars
<1>7. Witnessed'
  BY <1>1 DEF Inv, Witnessed, TypeOK, LocalTypeOK, Traversing, nodeVars
<1>8. Cursor'
  BY <1>2, CursorFacts DEF Inv, Cursor, Witnessed, TypeOK, LocalTypeOK, Traversing, nodeVars
<1>9. Owned'
  BY DEF Inv, Owned, Inserting, Freeing, TypeOK, LocalTypeOK, nodeVars
<1>10. Linearizable'
  BY DEF Inv, Linearizable, Decided, WasTrue, TypeOK, LocalTypeOK
<1>11. QED
  BY <1>1, <1>3, <1>4, <1>5, <1>6, <1>7, <1>8, <1>9, <1>10 DEF Inv

\* p_prev = p_next: the node followed is below the value and was seen.
LEMMA AdvanceInv ==
  ASSUME Inv, NEW t \in Threads, Advance(t), UNCHANGED expired
  PROVE  Inv' /\ Contents' = Contents
<1> USE DEF Advance, Goto, rcuVars, driverVars, historyVars
<1>1. SortedLists' /\ RemovedFlag' /\ Contents' = Contents /\ Live' = Live
  BY Frame DEF Inv
<1>2. Traversing(t)
  BY DEF Traversing
<1>3. TypeOK'
  BY <1>2, CursorFacts DEF Inv, TypeOK, NodeTypeOK, LocalTypeOK, nodeVars, Ptr, Labels
<1>4. Phases'
  BY <1>2 DEF Inv, Phases, TypeOK, LocalTypeOK
<1>5. Protected'
  BY <1>1, <1>2 DEF Inv, Protected, TypeOK, LocalTypeOK, Traversing, nodeVars
<1>6. SeenClosed'
  BY DEF Inv, SeenClosed, TypeOK, LocalTypeOK, Traversing, nodeVars
<1>7. Witnessed'
  BY <1>1 DEF Inv, Witnessed, TypeOK, LocalTypeOK, Traversing, nodeVars, Phases
<1>8. Cursor'
  BY <1>2, CursorFacts DEF Inv, Cursor, TypeOK, LocalTypeOK, Traversing, nodeVars
<1>9. Owned'
  BY <1>2 DEF Inv, Owned, Inserting, Freeing, TypeOK, LocalTypeOK, nodeVars, ABORTED
<1>10. Linearizable'
  BY DEF Inv, Linearizable, Decided, WasTrue, TypeOK, LocalTypeOK
<1>11. QED
  BY <1>1, <1>3, <1>4, <1>5, <1>6, <1>7, <1>8, <1>9, <1>10 DEF Inv

\* n = p_next->p_next: the successor was in the list during the call.
LEMMA ReadSuccInv ==
  ASSUME Inv, NEW t \in Threads, ReadSucc(t), UNCHANGED expired
  PROVE  Inv' /\ Contents' = Contents
<1> USE DEF ReadSucc, Goto, rcuVars, driverVars, historyVars
<1>1. SortedLists' /\ RemovedFlag' /\ Contents' = Contents /\ Live' = Live
  BY Frame DEF Inv
<1>2. /\ p_next[t] \in Node /\ link[p_next[t]] \in seen[t] /\ seen[t] \subseteq Node
      /\ op[t] = "remove" /\ Traversing(t)
  <2>1. Traversing(t) /\ op[t] = "remove"
    BY DEF Traversing, Inv, Phases
  <2>2. p_next[t] \in seen[t] /\ seen[t] \subseteq Node /\ val[p_next[t]] = key[t]
    BY <2>1 DEF Inv, Cursor, TypeOK, LocalTypeOK
  <2>3. NodeTypeOK /\ Sentinels /\ key[t] \in Keys
    BY <2>1, CursorFacts DEF Inv, TypeOK, SortedLists
  <2>4. p_next[t] \notin MaxNodes
    BY <2>2, <2>3, NodeValues, ConstantFacts
  <2>5. QED
    BY <2>1, <2>2, <2>4 DEF Inv, SeenClosed
<1>3. TypeOK'
  BY <1>2 DEF Inv, TypeOK, NodeTypeOK, LocalTypeOK, nodeVars, Ptr, Labels, ABORTED
<1>4. Phases'
  BY <1>2 DEF Inv, Phases, TypeOK, LocalTypeOK
<1>5. Protected'
  BY <1>1, <1>2 DEF Inv, Protected, TypeOK, LocalTypeOK, Traversing, nodeVars
<1>6. SeenClosed'
  BY DEF Inv, SeenClosed, TypeOK, LocalTypeOK, Traversing, nodeVars
<1>7. Witnessed'
  BY <1>1 DEF Inv, Witnessed, TypeOK, LocalTypeOK, Traversing, nodeVars, Phases
<1>8. Cursor'
  BY <1>2 DEF Inv, Cursor, TypeOK, LocalTypeOK, Traversing, nodeVars
<1>9. Owned'
  BY <1>2 DEF Inv, Owned, Inserting, Freeing, TypeOK, LocalTypeOK, nodeVars, ABORTED
<1>10. Linearizable'
  BY DEF Inv, Linearizable, Decided, WasTrue, TypeOK, LocalTypeOK
<1>11. QED
  BY <1>1, <1>3, <1>4, <1>5, <1>6, <1>7, <1>8, <1>9, <1>10 DEF Inv

\* rcx_list_contains() decides: the answer was true at some moment.
LEMMA ContainsDoneInv ==
  ASSUME Inv, NEW t \in Threads, ContainsDone(t)
  PROVE  Inv' /\ Contents' = Contents
<1>a. Arrived(t, "contains")
  BY DEF ContainsDone
<1>0. WasTrue(t, IF Found(t) THEN 1 ELSE 0)
  BY <1>a, ArrivedFacts DEF WasTrue
<1> USE DEF ContainsDone, Decide, Goto, rcuVars, driverVars, historyVars
<1>1. SortedLists' /\ RemovedFlag' /\ Contents' = Contents /\ Live' = Live
  BY Frame DEF Inv
<1>2. Traversing(t) /\ pc[t] = "test" /\ op[t] = "contains"
  BY DEF Traversing, Arrived
<1>3. TypeOK'
  BY <1>2 DEF Inv, TypeOK, NodeTypeOK, LocalTypeOK, nodeVars, Ptr, Labels, ABORTED
<1>4. Phases'
  BY <1>2 DEF Inv, Phases, TypeOK, LocalTypeOK
<1>5. Protected'
  BY <1>1, <1>2 DEF Inv, Protected, TypeOK, LocalTypeOK, Traversing, nodeVars
<1>6. SeenClosed'
  BY DEF Inv, SeenClosed, TypeOK, LocalTypeOK, Traversing, nodeVars
<1>7. Witnessed'
  BY <1>1 DEF Inv, Witnessed, TypeOK, LocalTypeOK, Traversing, nodeVars, Phases
<1>8. Cursor'
  BY <1>2 DEF Inv, Cursor, TypeOK, LocalTypeOK, Traversing, nodeVars
<1>9. Owned'
  BY <1>2 DEF Inv, Owned, Inserting, Freeing, TypeOK, LocalTypeOK, nodeVars, ABORTED
<1>10. Linearizable'
  <2>1. \A u \in Threads : u # t => pc'[u] = pc[u]
    BY DEF Inv, TypeOK
  <2>2. QED
    BY <2>1, <1>0, DecideLinearizable
<1>11. QED
  BY <1>1, <1>3, <1>4, <1>5, <1>6, <1>7, <1>8, <1>9, <1>10 DEF Inv

\* rcx_list_add() finds the value: it was present at some moment.
LEMMA AddPresentInv ==
  ASSUME Inv, NEW t \in Threads, AddPresent(t)
  PROVE  Inv' /\ Contents' = Contents
<1>a. Arrived(t, "add") /\ Found(t)
  BY DEF AddPresent
<1>0. WasTrue(t, 0)
  BY <1>a, ArrivedFacts DEF WasTrue
<1> USE DEF AddPresent, Decide, Goto, rcuVars, driverVars, historyVars
<1>1. SortedLists' /\ RemovedFlag' /\ Contents' = Contents /\ Live' = Live
  BY Frame DEF Inv
<1>2. Traversing(t) /\ pc[t] = "test" /\ op[t] = "add"
  BY DEF Traversing, Arrived
<1>3. TypeOK'
  BY <1>2 DEF Inv, TypeOK, NodeTypeOK, LocalTypeOK, nodeVars, Ptr, Labels, ABORTED
<1>4. Phases'
  BY <1>2 DEF Inv, Phases, TypeOK, LocalTypeOK
<1>5. Protected'
  BY <1>1, <1>2 DEF Inv, Protected, TypeOK, LocalTypeOK, Traversing, nodeVars
<1>6. SeenClosed'
  BY DEF Inv, SeenClosed, TypeOK, LocalTypeOK, Traversing, nodeVars
<1>7. Witnessed'
  BY <1>1 DEF Inv, Witnessed, TypeOK, LocalTypeOK, Traversing, nodeVars, Phases
<1>8. Cursor'
  BY <1>2 DEF Inv, Cursor, TypeOK, LocalTypeOK, Traversing, nodeVars
<1>9. Owned'
  BY <1>2 DEF Inv, Owned, Inserting, Freeing, TypeOK, LocalTypeOK, nodeVars, ABORTED
<1>10. Linearizable'
  <2>1. \A u \in Threads : u # t => pc'[u] = pc[u]
    BY DEF Inv, TypeOK
  <2>2. QED
    BY <2>1, <1>0, DecideLinearizable
<1>11. QED
  BY <1>1, <1>3, <1>4, <1>5, <1>6, <1>7, <1>8, <1>9, <1>10 DEF Inv

\* An aborted transaction changes nothing; the new node stays private.
LEMMA TxAbortInv ==
  ASSUME Inv, NEW t \in Threads, TxAbort(t)
  PROVE  Inv' /\ Contents' = Contents
<1>a. op[t] \in {"add", "remove"}
  BY DEF TxAbort, Inv, Phases
<1>0. WasTrue(t, ABORTED)
  BY <1>a DEF WasTrue, ABORTED
<1> USE DEF TxAbort, Decide, Goto, rcuVars, driverVars, historyVars
<1>1. SortedLists' /\ RemovedFlag' /\ Contents' = Contents /\ Live' = Live
  BY Frame DEF Inv
<1>2. Traversing(t) /\ op[t] \in {"add", "remove"}
  BY DEF Traversing, Inv, Phases
<1>3. TypeOK'
  BY <1>2 DEF Inv, TypeOK, NodeTypeOK, LocalTypeOK, nodeVars, Ptr, Labels, ABORTED
<1>4. Phases'
  BY <1>2 DEF Inv, Phases, TypeOK, LocalTypeOK
<1>5. Protected'
  BY <1>1, <1>2 DEF Inv, Protected, TypeOK, LocalTypeOK, Traversing, nodeVars
<1>6. SeenClosed'
  BY DEF Inv, SeenClosed, TypeOK, LocalTypeOK, Traversing, nodeVars
<1>7. Witnessed'
  BY <1>1 DEF Inv, Witnessed, TypeOK, LocalTypeOK, Traversing, nodeVars, Phases
<1>8. Cursor'
  BY <1>2 DEF Inv, Cursor, TypeOK, LocalTypeOK, Traversing, nodeVars
<1>9. Owned'
  BY <1>2 DEF Inv, Owned, Inserting, Freeing, TypeOK, LocalTypeOK, nodeVars, ABORTED
<1>10. Linearizable'
  <2>1. \A u \in Threads : u # t => pc'[u] = pc[u]
    BY DEF Inv, TypeOK
  <2>2. QED
    BY <2>1, <1>0, DecideLinearizable
<1>11. QED
  BY <1>1, <1>3, <1>4, <1>5, <1>6, <1>7, <1>8, <1>9, <1>10 DEF Inv

\* rcx_list_remove() finds the value and goes on.
LEMMA RemoveFoundInv ==
  ASSUME Inv, NEW t \in Threads, RemoveFound(t)
  PROVE  Inv' /\ Contents' = Contents
<1> USE DEF RemoveFound, Arrived, Found, Goto, rcuVars, driverVars, historyVars
<1>1. SortedLists' /\ RemovedFlag' /\ Contents' = Contents /\ Live' = Live
  BY Frame DEF Inv
<1>2. Traversing(t)
  BY DEF Traversing, Arrived
<1>3. TypeOK'
  BY <1>2 DEF Inv, TypeOK, NodeTypeOK, LocalTypeOK, nodeVars, Ptr, Labels, ABORTED
<1>4. Phases'
  BY <1>2 DEF Inv, Phases, TypeOK, LocalTypeOK
<1>5. Protected'
  BY <1>1, <1>2 DEF Inv, Protected, TypeOK, LocalTypeOK, Traversing, nodeVars
<1>6. SeenClosed'
  BY DEF Inv, SeenClosed, TypeOK, LocalTypeOK, Traversing, nodeVars
<1>7. Witnessed'
  BY <1>1 DEF Inv, Witnessed, TypeOK, LocalTypeOK, Traversing, nodeVars, Phases
<1>8. Cursor'
  BY <1>2 DEF Inv, Cursor, TypeOK, LocalTypeOK, Traversing, nodeVars
<1>9. Owned'
  BY <1>2 DEF Inv, Owned, Inserting, Freeing, TypeOK, LocalTypeOK, nodeVars, ABORTED
<1>10. Linearizable'
  BY DEF Inv, Linearizable, Decided, WasTrue, TypeOK, LocalTypeOK
<1>11. QED
  BY <1>1, <1>3, <1>4, <1>5, <1>6, <1>7, <1>8, <1>9, <1>10 DEF Inv

\* rcx_list_remove() gives its answer and leaves its RCU section open.
LEMMA RemoveAbsentInv ==
  ASSUME Inv, NEW t \in Threads, RemoveAbsent(t)
  PROVE  Inv' /\ Contents' = Contents
<1>a. Arrived(t, "remove") /\ ~Found(t)
  BY DEF RemoveAbsent
<1>0. WasTrue(t, 0)
  BY <1>a, ArrivedFacts DEF WasTrue
<1> USE DEF RemoveAbsent, Goto, rcuVars, driverVars, historyVars
<1>1. SortedLists' /\ RemovedFlag' /\ Contents' = Contents /\ Live' = Live
  BY Frame DEF Inv
<1>2. Traversing(t) /\ pc[t] = "test"
  BY DEF Traversing, Arrived
<1>3. TypeOK'
  BY <1>2 DEF Inv, TypeOK, NodeTypeOK, LocalTypeOK, nodeVars, Ptr, Labels, ABORTED
<1>4. Phases'
  BY <1>2 DEF Inv, Phases, TypeOK, LocalTypeOK
<1>5. Protected'
  BY <1>1, <1>2 DEF Inv, Protected, TypeOK, LocalTypeOK, Traversing, nodeVars
<1>6. SeenClosed'
  BY DEF Inv, SeenClosed, TypeOK, LocalTypeOK, Traversing, nodeVars
<1>7. Witnessed'
  BY <1>1 DEF Inv, Witnessed, TypeOK, LocalTypeOK, Traversing, nodeVars, Phases
<1>8. Cursor'
  BY <1>2 DEF Inv, Cursor, TypeOK, LocalTypeOK, Traversing, nodeVars
<1>9. Owned'
  BY <1>2 DEF Inv, Owned, Inserting, Freeing, TypeOK, LocalTypeOK, nodeVars, ABORTED
<1>10. Linearizable'
  <2>1. \A u \in Threads : u # t => pc'[u] = pc[u]
    BY DEF Inv, TypeOK
  <2>2. QED
    BY <2>1, <1>0, DecideLinearizable
<1>11. QED
  BY <1>1, <1>3, <1>4, <1>5, <1>6, <1>7, <1>8, <1>9, <1>10 DEF Inv

\* The end of the benchmark's time touches no list.
LEMMA EndTimeInv ==
  ASSUME Inv, EndTime
  PROVE  Inv' /\ Contents' = Contents
<1> USE DEF EndTime, listVars, rcuVars, localVars, driverVars, historyVars
<1>1. SortedLists' /\ RemovedFlag' /\ Contents' = Contents /\ Live' = Live
  BY Frame DEF Inv
<1>2. TypeOK' /\ Phases'
  BY DEF Inv, TypeOK, NodeTypeOK, LocalTypeOK, nodeVars, Phases
<1>3. Protected' /\ SeenClosed' /\ Witnessed'
  BY <1>1 DEF Inv, Protected, SeenClosed, Witnessed, Traversing, nodeVars
<1>4. Cursor' /\ Owned' /\ Linearizable'
  BY DEF Inv, Cursor, Owned, Inserting, Freeing, Linearizable, Decided, WasTrue,
     Traversing, nodeVars
<1>5. QED
  BY <1>1, <1>2, <1>3, <1>4 DEF Inv

\* A call enters an RCU section and starts a traversal.
LEMMA BeginInv ==
  ASSUME Inv, NEW t \in Threads, NEW o \in OpNames, NEW k \in Keys, Begin(t, o, k)
  PROVE  Inv' /\ Contents' = Contents
<1> USE DEF Begin, Call, StartAt, rcu_read_lock, Goto, driverVars
<1>1. SortedLists' /\ RemovedFlag' /\ Contents' = Contents /\ Live' = Live
  BY Frame DEF Inv
<1>2. /\ pc[t] = "idle" /\ fill = 0 /\ rcu[t] \in Int /\ rcu[t] >= 0
      /\ o # "none"
  BY DEF Inv, TypeOK, LocalTypeOK, Protected, OpNames
<1>3. TypeOK'
  <2>1. MinNode[Hash(k)] \in Ptr /\ Live \subseteq Node
    BY ConstantFacts DEF Ptr, Live
  <2>2. NodeTypeOK'
    BY DEF Inv, TypeOK, NodeTypeOK, nodeVars
  <2>3. ops' \in [Threads -> 0..MaxOps] /\ rcu' \in [Threads -> Int] /\ fill' \in 0..FillOps
    BY <1>2, BoundsAssumption DEF Inv, TypeOK, LocalTypeOK
  <2>4. obs' \in [Threads -> SUBSET {"present", "absent"}]
    BY DEF Inv, TypeOK, LocalTypeOK, Membership
  <2>5. QED
    BY <2>1, <2>2, <2>3, <2>4 DEF Inv, TypeOK, LocalTypeOK, OpNames, Labels
<1>4. Phases'
  BY <1>2 DEF Inv, Phases, TypeOK, LocalTypeOK
<1>5. Protected'
  BY <1>1, <1>2 DEF Inv, Protected, TypeOK, LocalTypeOK, Traversing, nodeVars, Live
<1>6. SeenClosed'
  BY StartFacts DEF Inv, SeenClosed, TypeOK, LocalTypeOK, Traversing, nodeVars
<1>7. Witnessed'
  <2>1. ASSUME NEW u \in Threads, u # t
        PROVE  /\ op'[u] = op[u] /\ key'[u] = key[u] /\ obs'[u] = obs[u]
               /\ seen'[u] = seen[u] /\ pc'[u] = pc[u]
    BY <2>1 DEF Inv, TypeOK, LocalTypeOK
  <2>2. /\ op'[t] = o /\ key'[t] = k /\ obs'[t] = {Membership(k)}
        /\ seen'[t] = Live
    BY DEF Inv, TypeOK, LocalTypeOK
  <2>3. /\ k \in Contents => "present" \in obs'[t]
        /\ k \notin Contents => "absent" \in obs'[t]
    BY <2>2 DEF Membership
  <2>4. \A x \in Live : bkt[x] = Hash(k) =>
          /\ val[x] = k => "present" \in obs'[t]
          /\ x \notin MaxNodes /\ val[x] < k /\ k < val[link[x]] => "absent" \in obs'[t]
    BY <2>3, FreshTraversal DEF Inv, TypeOK
  <2>5. QED
    BY <1>1, <2>1, <2>2, <2>3, <2>4 DEF Inv, Witnessed, Traversing, nodeVars
<1>8. Cursor'
  BY StartFacts DEF Inv, Cursor, TypeOK, LocalTypeOK, Traversing, nodeVars
<1>9. Owned'
  BY DEF Inv, Owned, Inserting, Freeing, TypeOK, LocalTypeOK, nodeVars
<1>10. Linearizable'
  BY DEF Inv, Linearizable, Decided, WasTrue, TypeOK, LocalTypeOK
<1>11. QED
  BY <1>1, <1>3, <1>4, <1>5, <1>6, <1>7, <1>8, <1>9, <1>10 DEF Inv

\* A repeated call starts a new section and a new traversal.
LEMMA RetryInv ==
  ASSUME Inv, NEW t \in Threads, Retry(t)
  PROVE  Inv' /\ Contents' = Contents
<1> USE DEF Retry, StartAt, rcu_read_lock, Goto, driverVars
<1>1. SortedLists' /\ RemovedFlag' /\ Contents' = Contents /\ Live' = Live
  BY Frame DEF Inv
<1>2. /\ pc[t] = "ret" /\ rcu[t] \in Int /\ rcu[t] >= 0
      /\ key[t] \in Keys /\ op[t] # "none"
  BY DEF Inv, TypeOK, LocalTypeOK, Protected, Phases
<1>3. TypeOK'
  <2>1. MinNode[Hash(key[t])] \in Ptr /\ Live \subseteq Node
    BY <1>2, ConstantFacts DEF Ptr, Live
  <2>2. NodeTypeOK'
    BY DEF Inv, TypeOK, NodeTypeOK, nodeVars
  <2>3. rcu' \in [Threads -> Int]
    BY <1>2 DEF Inv, TypeOK, LocalTypeOK
  <2>4. QED
    BY <2>1, <2>2, <2>3 DEF Inv, TypeOK, LocalTypeOK, Labels
<1>4. Phases'
  BY <1>2 DEF Inv, Phases, TypeOK, LocalTypeOK
<1>5. Protected'
  BY <1>1, <1>2 DEF Inv, Protected, TypeOK, LocalTypeOK, Traversing, nodeVars, Live
<1>6. SeenClosed'
  BY <1>2, StartFacts DEF Inv, SeenClosed, TypeOK, LocalTypeOK, Traversing, nodeVars
<1>7. Witnessed'
  <2>1. ASSUME NEW u \in Threads, u # t
        PROVE  seen'[u] = seen[u] /\ pc'[u] = pc[u]
    BY <2>1 DEF Inv, TypeOK, LocalTypeOK
  <2>2. seen'[t] = Live
    BY DEF Inv, TypeOK, LocalTypeOK
  <2>3. /\ key[t] \in Contents => "present" \in obs[t]
        /\ key[t] \notin Contents => "absent" \in obs[t]
    BY <1>2 DEF Inv, Witnessed
  <2>4. \A x \in Live : bkt[x] = Hash(key[t]) =>
          /\ val[x] = key[t] => "present" \in obs[t]
          /\ x \notin MaxNodes /\ val[x] < key[t] /\ key[t] < val[link[x]]
               => "absent" \in obs[t]
    BY <1>2, <2>3, FreshTraversal DEF Inv, TypeOK
  <2>5. QED
    BY <1>1, <2>1, <2>2, <2>3, <2>4 DEF Inv, Witnessed, Traversing, nodeVars
<1>8. Cursor'
  BY <1>2, StartFacts DEF Inv, Cursor, TypeOK, LocalTypeOK, Traversing, nodeVars
<1>9. Owned'
  BY <1>2 DEF Inv, Owned, Inserting, Freeing, TypeOK, LocalTypeOK, nodeVars
<1>10. Linearizable'
  BY DEF Inv, Linearizable, Decided, WasTrue, TypeOK, LocalTypeOK
<1>11. QED
  BY <1>1, <1>3, <1>4, <1>5, <1>6, <1>7, <1>8, <1>9, <1>10 DEF Inv

\* A call that returns gives up its pointers.
LEMMA FinishInv ==
  ASSUME Inv, NEW t \in Threads, Finish(t)
  PROVE  Inv' /\ Contents' = Contents
<1> USE DEF Finish, Return, Goto, Quiesce, driverVars
<1>1. SortedLists' /\ RemovedFlag' /\ Contents' = Contents /\ Live' = Live
  BY Frame DEF Inv
<1>2. /\ pc[t] = "ret"
      /\ gp' \in [Node -> SUBSET Threads]
      /\ \A x \in Node, u \in Threads : u # t /\ u \in gp[x] => u \in gp'[x]
  BY DEF Inv, TypeOK, NodeTypeOK
<1>3. TypeOK'
  BY <1>2 DEF Inv, TypeOK, NodeTypeOK, LocalTypeOK, nodeVars, Ptr, Labels
<1>4. Phases'
  BY <1>2 DEF Inv, Phases, TypeOK, LocalTypeOK
<1>5. Protected'
  BY <1>1, <1>2 DEF Inv, Protected, TypeOK, LocalTypeOK, Traversing, nodeVars
<1>6. SeenClosed'
  BY <1>2 DEF Inv, SeenClosed, TypeOK, LocalTypeOK, Traversing, nodeVars
<1>7. Witnessed'
  BY <1>1, <1>2 DEF Inv, Witnessed, TypeOK, LocalTypeOK, Traversing, nodeVars, Phases
<1>8. Cursor'
  BY <1>2 DEF Inv, Cursor, TypeOK, LocalTypeOK, Traversing, nodeVars
<1>9. Owned'
  BY <1>2 DEF Inv, Owned, Inserting, Freeing, TypeOK, LocalTypeOK, nodeVars
<1>10. Linearizable'
  BY DEF Inv, Linearizable, Decided, WasTrue, TypeOK, LocalTypeOK
<1>11. QED
  BY <1>1, <1>3, <1>4, <1>5, <1>6, <1>7, <1>8, <1>9, <1>10 DEF Inv

\* A grace period that ends frees a node that no traversal has seen.
LEMMA ReclaimInv ==
  ASSUME Inv, NEW x \in DataNodes, Reclaim(x), UNCHANGED expired
  PROVE  Inv' /\ Contents' = Contents
<1> USE DEF Reclaim, rcuVars, localVars, driverVars, historyVars
<1>1. SortedLists' /\ Contents' = Contents /\ Live' = Live
  BY MemFrame, ConstantFacts DEF Inv, TypeOK
<1>2. /\ x \in Node /\ mem[x] = "deferred" /\ gp[x] = {}
      /\ mem' = [mem EXCEPT ![x] = "free"]
      /\ mem' \in [Node -> MemState]
  BY ConstantFacts DEF Inv, TypeOK, NodeTypeOK, MemState
<1>3. TypeOK'
  BY <1>2 DEF Inv, TypeOK, NodeTypeOK, LocalTypeOK
<1>4. Phases'
  BY DEF Inv, Phases
<1>5. RemovedFlag'
  BY <1>2 DEF Inv, RemovedFlag, Stale, TypeOK, NodeTypeOK
<1>6. Protected'
  BY <1>1, <1>2 DEF Inv, Protected, TypeOK, NodeTypeOK, LocalTypeOK, Traversing
<1>7. SeenClosed' /\ Witnessed'
  BY <1>1 DEF Inv, SeenClosed, Witnessed, Traversing
<1>8. Cursor' /\ Linearizable'
  BY DEF Inv, Cursor, Linearizable, Decided, WasTrue, Traversing
<1>9. Owned'
  BY <1>2, ConstantFacts DEF Inv, Owned, Inserting, Freeing, TypeOK, NodeTypeOK, LocalTypeOK
<1>10. QED
  BY <1>1, <1>3, <1>4, <1>5, <1>6, <1>7, <1>8, <1>9 DEF Inv

\* kfree_rcu() defers the free past every traversal that saw the node.
LEMMA FreeInv ==
  ASSUME Inv, NEW t \in Threads, Free(t)
  PROVE  Inv' /\ Contents' = Contents
<1> USE DEF Free, kfree_rcu, Goto, driverVars, historyVars
<1>1. /\ pc[t] = "free" /\ Freeing(t)
      /\ p_next[t] \in DataNodes /\ p_next[t] \in Node /\ mem[p_next[t]] = "unlinked"
  BY ConstantFacts DEF Inv, Owned, Phases, Freeing
<1>2. SortedLists' /\ Contents' = Contents /\ Live' = Live
  BY <1>1, MemFrame DEF Inv, TypeOK
<1>3. TypeOK'
  BY <1>1 DEF Inv, TypeOK, NodeTypeOK, LocalTypeOK, MemState, Labels
<1>4. Phases'
  BY <1>1 DEF Inv, Phases, TypeOK, LocalTypeOK
<1>5. RemovedFlag'
  BY <1>1 DEF Inv, RemovedFlag, Stale, TypeOK, NodeTypeOK
<1>6. Protected'
  <2>1. \A u \in Threads : Traversing(u) => Reader(u)
    BY DEF Inv, Protected, Traversing, Reader
  <2>2. \A u \in Threads : Traversing(u) => u \in gp'[p_next[t]]
    BY <1>1, <2>1 DEF Inv, TypeOK, NodeTypeOK
  <2>3. \A x \in Node : x # p_next[t] => gp'[x] = gp[x] /\ mem'[x] = mem[x]
    BY <1>1 DEF Inv, TypeOK, NodeTypeOK
  <2>4. mem'[p_next[t]] = "deferred"
    BY <1>1 DEF Inv, TypeOK, NodeTypeOK
  <2>5. \A u \in Threads : (Traversing(u)' <=> Traversing(u)) /\ (u # t => pc'[u] = pc[u])
    BY <1>1 DEF Inv, TypeOK, Traversing
  <2>6. pc'[t] = "ret"
    BY DEF Inv, TypeOK
  <2>7. QED
    BY <1>2, <2>2, <2>3, <2>4, <2>5, <2>6 DEF Inv, Protected, TypeOK, LocalTypeOK
<1>7. SeenClosed' /\ Witnessed'
  BY <1>1, <1>2 DEF Inv, SeenClosed, Witnessed, Traversing, TypeOK, LocalTypeOK
<1>8. Cursor'
  BY <1>1 DEF Inv, Cursor, Traversing, TypeOK, LocalTypeOK
<1>9. Linearizable'
  BY <1>1 DEF Inv, Linearizable, Decided, WasTrue, TypeOK, LocalTypeOK
<1>10. Owned'
  BY <1>1, ConstantFacts DEF Inv, Owned, Inserting, Freeing, TypeOK, NodeTypeOK, LocalTypeOK
<1>11. QED
  BY <1>2, <1>3, <1>4, <1>5, <1>6, <1>7, <1>8, <1>9, <1>10 DEF Inv

\* The RCU section ends with the traversal, whatever its outcome.
LEMMA UnlockInv ==
  ASSUME Inv, NEW t \in Threads, Unlock(t)
  PROVE  Inv' /\ Contents' = Contents
<1> DEFINE aborted == op[t] = "add" /\ result[t] = ABORTED
<1>0. /\ pc[t] = "unlock" /\ rcu[t] \in Int /\ rcu[t] > 0
      /\ rcu' = [rcu EXCEPT ![t] = @ - 1]
      /\ gp' \in [Node -> SUBSET Threads]
      /\ \A x \in Node, u \in Threads : u # t /\ u \in gp[x] => u \in gp'[x]
      /\ aborted => mem' = [mem EXCEPT ![p_new_node[t]] = "free"]
      /\ ~aborted => mem' = mem
      /\ aborted => p_new_node[t] \in DataNodes /\ mem[p_new_node[t]] = "private"
      /\ aborted => Inserting(t)
  <2>1. pc[t] = "unlock" /\ rcu[t] \in Int /\ rcu[t] > 0
    BY DEF Unlock, Inv, Protected, TypeOK, LocalTypeOK
  <2>2. aborted => Inserting(t)
    BY <2>1 DEF Inserting
  <2>3. aborted => p_new_node[t] \in DataNodes /\ mem[p_new_node[t]] = "private"
    BY <2>2 DEF Inv, Owned
  <2>4. /\ gp' \in [Node -> SUBSET Threads]
        /\ \A x \in Node, u \in Threads : u # t /\ u \in gp[x] => u \in gp'[x]
    BY DEF Unlock, rcu_read_unlock, Quiesce, Inv, TypeOK, NodeTypeOK
  <2>5. QED
    BY <2>1, <2>2, <2>3, <2>4 DEF Unlock, rcu_read_unlock
<1>1. SortedLists' /\ Contents' = Contents /\ Live' = Live
  <2>1. CASE aborted
    BY <1>0, <2>1, MemFrame, ConstantFacts DEF Unlock, Inv, TypeOK
  <2>2. CASE ~aborted
    BY <1>0, <2>2, Frame DEF Inv, Unlock, nodeVars
  <2>3. QED
    BY <2>1, <2>2
<1>2. \A x \in Node : mem'[x] = mem[x] \/ (mem[x] = "private" /\ mem'[x] = "free")
  BY <1>0, ConstantFacts DEF Inv, TypeOK, NodeTypeOK
<1>3. mem' \in [Node -> MemState]
  BY <1>0, ConstantFacts DEF Inv, TypeOK, NodeTypeOK, MemState
<1>4. RemovedFlag'
  BY <1>2 DEF Inv, RemovedFlag, Stale, Unlock
<1>5. pc' \in [Threads -> Labels] /\ \A u \in Threads : u # t => pc'[u] = pc[u]
  BY DEF Unlock, Goto, Inv, TypeOK, Labels
<1>6. pc'[t] \in {"free", "ret"} /\ (pc'[t] = "free" => op[t] = "remove" /\ result[t] = 1)
  BY DEF Unlock, Goto, Inv, TypeOK
<1>7. seen' = [seen EXCEPT ![t] = {}]
  BY DEF Unlock
<1>8. UNCHANGED <<val, link, removed, bkt, bench, fill, ops, obs, expired,
                  op, key, p_prev, p_next, n, p_new_node, result>>
  BY DEF Unlock, driverVars
<1>9. TypeOK'
  BY <1>0, <1>3, <1>5, <1>7, <1>8 DEF Inv, TypeOK, NodeTypeOK, LocalTypeOK
<1>10. Phases'
  BY <1>0, <1>5, <1>6, <1>8 DEF Inv, Phases
<1>11. Protected'
  BY <1>0, <1>1, <1>2, <1>5, <1>6, <1>7, <1>8
     DEF Inv, Protected, TypeOK, LocalTypeOK, Traversing
<1>12. SeenClosed'
  BY <1>5, <1>6, <1>7, <1>8 DEF Inv, SeenClosed, TypeOK, LocalTypeOK, Traversing
<1>13. Witnessed'
  BY <1>1, <1>5, <1>6, <1>7, <1>8 DEF Inv, Witnessed, TypeOK, LocalTypeOK, Traversing
<1>14. Cursor'
  BY <1>5, <1>6, <1>7, <1>8 DEF Inv, Cursor, TypeOK, LocalTypeOK, Traversing
<1>15. Linearizable'
  BY <1>0, <1>5, <1>6, <1>8 DEF Inv, Linearizable, Decided, WasTrue
<1>16. Owned'
  <2>1. \A u \in Threads : Inserting(u)' => u # t /\ Inserting(u)
    BY <1>5, <1>6, <1>8 DEF Inserting
  <2>2. \A u \in Threads : Freeing(u)' => Freeing(u)
    BY <1>0, <1>5, <1>6, <1>8 DEF Freeing
  <2>3. \A u \in Threads : Inserting(u) /\ u # t => mem'[p_new_node[u]] = mem[p_new_node[u]]
    BY <1>0, ConstantFacts DEF Inv, Owned, TypeOK, NodeTypeOK
  <2>4. \A u \in Threads : Freeing(u) => mem'[p_next[u]] = mem[p_next[u]]
    BY <1>2, ConstantFacts DEF Inv, Owned
  <2>5. \A u \in Threads : u # t /\ pc'[u] = "update" => pc[u] = "update"
    BY <1>5
  <2>6. QED
    BY <1>8, <2>1, <2>2, <2>3, <2>4, <2>5 DEF Inv, Owned
<1>17. QED
  BY <1>1, <1>4, <1>9, <1>10, <1>11, <1>12, <1>13, <1>14, <1>15, <1>16 DEF Inv

\* kmalloc() returns memory that no traversal has seen.
LEMMA AddNewNodeInv ==
  ASSUME Inv, SafeBuild, NEW t \in Threads, AddNewNode(t)
  PROVE  Inv' /\ Contents' = Contents
<1>1. PICK x \in DataNodes : /\ NewNode(t, x, key[t], Hash(key[t]), p_next[t])
                             /\ p_new_node' = [p_new_node EXCEPT ![t] = x]
  BY DEF AddNewNode
<1>2. /\ Traversing(t) /\ op[t] = "add" /\ pc[t] = "test"
      /\ p_next[t] \in seen[t] /\ bkt[p_next[t]] = Hash(key[t])
      /\ key[t] < val[p_next[t]]
  BY ArrivedFacts DEF AddNewNode, Arrived
<1>3. key[t] \in Keys /\ Hash(key[t]) \in Buckets /\ p_next[t] \in Node /\ x \in Node
  BY <1>1, <1>2, CursorFacts, ConstantFacts
<1>4. /\ mem[x] = "free" /\ gp' = gp
      /\ mem' = [mem EXCEPT ![x] = "private"]
      /\ val' = [val EXCEPT ![x] = key[t]]
      /\ link' = [link EXCEPT ![x] = p_next[t]]
      /\ removed' = [removed EXCEPT ![x] = 0]
      /\ bkt' = [bkt EXCEPT ![x] = Hash(key[t])]
      /\ pc' = [pc EXCEPT ![t] = "update"]
      /\ UNCHANGED <<rcu, bench, fill, ops, seen, obs, expired,
                     op, key, p_prev, p_next, n, result>>
  BY <1>1 DEF AddNewNode, NewNode, SafeBuild, Goto, driverVars, historyVars
<1>5. /\ mem'[x] = "private" /\ val'[x] = key[t] /\ link'[x] = p_next[t]
      /\ removed'[x] = 0 /\ bkt'[x] = Hash(key[t])
      /\ \A y \in Node : y # x => /\ mem'[y] = mem[y] /\ val'[y] = val[y]
                                  /\ link'[y] = link[y] /\ removed'[y] = removed[y]
                                  /\ bkt'[y] = bkt[y]
  BY <1>3, <1>4 DEF Inv, TypeOK, NodeTypeOK
<1>6. /\ x \notin Live /\ Live \subseteq Node
      /\ \A u \in Threads : Traversing(u) => x \notin seen[u] /\ seen[u] \subseteq Node
  BY <1>4 DEF Live, Inv, Protected, TypeOK, LocalTypeOK
<1>7. Live' = Live /\ Contents' = Contents
  BY <1>4, <1>5, ConstantFacts DEF Live, Contents
<1>8. SortedLists'
  <2>1. Sentinels'
    BY <1>1, <1>5, ConstantFacts DEF Inv, SortedLists, Sentinels
  <2>2. InItsBucket'
    BY <1>5, ConstantFacts DEF Inv, SortedLists, InItsBucket
  <2>3. \A y \in Live \ MaxNodes : link[y] \in Live /\ link[y] # x /\ y # x
    BY <1>6 DEF Inv, SortedLists, Ascending
  <2>4. Ascending' /\ NoDuplicate'
    BY <1>5, <1>6, <1>7, <2>3 DEF Inv, SortedLists, Ascending, NoDuplicate
  <2>5. NoneBetween'
    <3>1. SUFFICES ASSUME NEW y \in Live, NEW z \in Live, bkt[y] = bkt[z], val[y] < val[z]
                   PROVE  val'[link'[y]] <= val'[z]
      BY <1>5, <1>6, <1>7 DEF NoneBetween
    <3>2. y \notin MaxNodes
      <4>1. NodeTypeOK /\ Sentinels /\ y \in Node /\ z \in Node
        BY <1>6 DEF Inv, TypeOK, SortedLists
      <4>2. QED
        BY <3>1, <4>1, NodeValues, ConstantFacts
    <3>3. QED
      BY <1>5, <1>6, <2>3, <3>1, <3>2 DEF Inv, SortedLists, NoneBetween
  <2>6. QED
    BY <2>1, <2>2, <2>4, <2>5 DEF SortedLists
<1>9. TypeOK'
  BY <1>1, <1>3, <1>4 DEF Inv, TypeOK, NodeTypeOK, LocalTypeOK, Ptr, MemState, Labels
<1>10. /\ pc'[t] = "update" /\ \A u \in Threads : u # t => pc'[u] = pc[u]
       /\ p_new_node'[t] = x
       /\ \A u \in Threads : u # t => p_new_node'[u] = p_new_node[u]
       /\ \A u \in Threads : Traversing(u)' <=> Traversing(u)
  BY <1>1, <1>2, <1>4 DEF Inv, TypeOK, LocalTypeOK, Traversing
<1>11. Phases'
  BY <1>2, <1>4, <1>10 DEF Inv, Phases
<1>12. RemovedFlag'
  BY <1>5 DEF Inv, RemovedFlag, Stale
<1>13. Protected'
  BY <1>2, <1>4, <1>5, <1>6, <1>7, <1>10 DEF Inv, Protected
<1>14. SeenClosed'
  BY <1>4, <1>5, <1>6, <1>10 DEF Inv, SeenClosed
<1>15. Witnessed'
  <2>1. \A u \in Threads : Traversing(u) =>
          \A y \in seen[u] : y \notin MaxNodes => link[y] \in seen[u]
    BY DEF Inv, SeenClosed
  <2>2. QED
    BY <1>4, <1>5, <1>6, <1>7, <1>10, <2>1 DEF Inv, Witnessed
<1>16. Cursor'
  <2>1. ASSUME NEW u \in Threads, Traversing(u)
        PROVE  /\ p_prev[u] \in seen[u] \ {x}
               /\ pc[u] # "deref" => p_next[u] \in seen[u] \ {x}
    BY <1>6, <2>1 DEF Inv, Cursor
  <2>2. QED
    BY <1>2, <1>4, <1>5, <1>6, <1>10, <2>1 DEF Inv, Cursor
<1>17. Linearizable'
  BY <1>4, <1>10 DEF Inv, Linearizable, Decided, WasTrue
<1>18. Owned'
  <2>1. \A u \in Threads : u # t => (Inserting(u)' <=> Inserting(u))
    BY <1>4, <1>10 DEF Inserting
  <2>2. \A u \in Threads : Freeing(u)' <=> (Freeing(u) /\ u # t)
    BY <1>2, <1>4, <1>10 DEF Freeing
  <2>3. \A u \in Threads : /\ Inserting(u) => p_new_node[u] \in Node \ {x}
                           /\ Freeing(u) => p_next[u] \in Node \ {x}
    BY <1>4, ConstantFacts DEF Inv, Owned
  <2>4. QED
    BY <1>4, <1>5, <1>10, <2>1, <2>2, <2>3 DEF Inv, Owned
<1>19. QED
  BY <1>7, <1>8, <1>9, <1>11, <1>12, <1>13, <1>14, <1>15, <1>16, <1>17, <1>18 DEF Inv

\* The half fill inserts at the right place, before any thread runs.
LEMMA HalfFillInv ==
  ASSUME Inv, NEW k \in Keys, HalfFill(k), UNCHANGED expired
  PROVE  Inv' /\ (Contents' = Contents \/ Contents' = Contents \union {k})
<1>1. /\ fill \in Int /\ fill > 0 /\ fill' = fill - 1 /\ fill' \in 0..FillOps
      /\ UNCHANGED <<rcu, gp, pc, op, key, p_prev, p_next, n, p_new_node, result,
                     bench, ops, seen, obs>>
  BY BoundsAssumption DEF HalfFill, FillWith, rcuVars, localVars, historyVars, Inv, TypeOK, LocalTypeOK
<1>2. \A t \in Threads : pc[t] = "idle" /\ op[t] = "none"
  BY <1>1 DEF Inv, Phases
<1>3. /\ Phases' /\ Protected' /\ SeenClosed' /\ Witnessed' /\ Cursor' /\ Owned'
      /\ Linearizable'
  <2>1. SeenClosed' /\ Witnessed' /\ Cursor' /\ Linearizable'
    BY <1>1, <1>2 DEF SeenClosed, Witnessed, Cursor, Linearizable, Decided, Traversing
  <2>4. Phases'
    BY <1>1, <1>2 DEF Inv, Phases
  <2>2. Protected' /\ Owned'
    BY <1>1, <1>2 DEF Inv, Protected, Owned, Inserting, Freeing, Traversing
  <2>3. QED
    BY <2>1, <2>2, <2>4
<1>4. CASE UNCHANGED nodeVars
  <2>1. SortedLists' /\ RemovedFlag' /\ Contents' = Contents
    BY <1>4, Frame DEF Inv
  <2>2. TypeOK'
    BY <1>1, <1>4 DEF Inv, TypeOK, NodeTypeOK, LocalTypeOK, nodeVars
  <2>3. QED
    BY <1>3, <2>1, <2>2 DEF Inv
<1>5. CASE \E x \in DataNodes, p \in Live :
             /\ mem[x] = "free"
             /\ bkt[p] = Hash(k) /\ val[p] < k /\ k < val[link[p]]
             /\ mem' = [mem EXCEPT ![x] = "live"]
             /\ val' = [val EXCEPT ![x] = k]
             /\ link' = [link EXCEPT ![x] = link[p], ![p] = x]
             /\ removed' = [removed EXCEPT ![x] = 0]
             /\ bkt' = [bkt EXCEPT ![x] = Hash(k)]
  <2>1. PICK x \in DataNodes, p \in Live :
             /\ mem[x] = "free"
             /\ bkt[p] = Hash(k) /\ val[p] < k /\ k < val[link[p]]
             /\ mem' = [mem EXCEPT ![x] = "live"]
             /\ val' = [val EXCEPT ![x] = k]
             /\ link' = [link EXCEPT ![x] = link[p], ![p] = x]
             /\ removed' = [removed EXCEPT ![x] = 0]
             /\ bkt' = [bkt EXCEPT ![x] = Hash(k)]
    BY <1>5
  <2>2. x \in Node /\ p \in Node /\ p # x /\ p \notin MaxNodes
    <3>1. NodeTypeOK /\ Sentinels /\ p \in Node
      BY DEF Inv, TypeOK, SortedLists, Live
    <3>2. QED
      BY <2>1, <3>1, NodeValues, ConstantFacts DEF Live
  <2>3. /\ mem'[x] = "live" /\ val'[x] = k /\ link'[x] = link[p] /\ bkt'[x] = Hash(k)
        /\ link'[p] = x /\ removed'[x] = 0
        /\ \A y \in Node : y # x => mem'[y] = mem[y] /\ val'[y] = val[y] /\ bkt'[y] = bkt[y]
        /\ \A y \in Node : y # x => removed'[y] = removed[y]
        /\ \A y \in Node : y # x /\ y # p => link'[y] = link[y]
    BY <2>1, <2>2 DEF Inv, TypeOK, NodeTypeOK
  <2>4. SortedLists' /\ Contents' = Contents \union {k}
    <3>1. /\ p \in Live \ MaxNodes /\ mem[x] # "live"
          /\ bkt[p] = Hash(k) /\ val[p] < k /\ k < val[link[p]]
      BY <2>1, <2>2
    <3>2. QED
      BY <2>3, <3>1, InsertSorted DEF Inv, TypeOK
  <2>5. TypeOK'
    <3>1. link[p] \in Node /\ Hash(k) \in Buckets
      BY <2>2, ConstantFacts DEF Inv, SortedLists, Ascending, Live
    <3>2. NodeTypeOK'
      BY <1>1, <2>1, <2>2, <3>1 DEF Inv, TypeOK, NodeTypeOK, Ptr, MemState
    <3>3. QED
      BY <1>1, <3>2 DEF Inv, TypeOK, LocalTypeOK
  <2>6. RemovedFlag'
    BY <2>3 DEF Inv, RemovedFlag, Stale
  <2>7. QED
    BY <1>3, <2>4, <2>5, <2>6 DEF Inv
<1>6. QED
  BY <1>4, <1>5 DEF HalfFill, FillWith

\* What the validation inside the transactions buys: the nodes it reads are
\* in the list, not merely were.
LEMMA NotRemovedIsLive ==
  ASSUME Inv, NEW t \in Threads, Traversing(t), NEW x \in seen[t], removed[x] = 0
  PROVE  x \in Live
<1>1. x \in Node
  BY DEF Inv, TypeOK, LocalTypeOK
<1>2. QED
  BY <1>1 DEF Inv, Protected, RemovedFlag, Stale, Live

\* A validated insertion extends the list and every open traversal's view.
LEMMA AddCommitInv ==
  ASSUME Inv, NEW t \in Threads, AddCommit(t)
  PROVE  Inv' /\ Contents' = Contents \union {key[t]}
<1> DEFINE p == p_prev[t]
<1> DEFINE s == p_next[t]
<1> DEFINE x == p_new_node[t]
<1> DEFINE k == key[t]
<1>1. /\ pc[t] = "update" /\ op[t] = "add" /\ Traversing(t) /\ Inserting(t)
      /\ link[p] = s /\ removed[p] = 0 /\ removed[s] = 0
  BY DEF AddCommit, AddValid, Traversing, Inserting
<1>2. /\ k \in Keys /\ p \in Live \ MaxNodes /\ s \in Live
      /\ bkt[p] = Hash(k) /\ val[p] < k /\ k < val[link[p]]
      /\ x \in DataNodes /\ mem[x] = "private"
      /\ val[x] = k /\ link[x] = link[p] /\ bkt[x] = Hash(k)
  <2>1. p \in seen[t] \ MaxNodes /\ val[p] < k /\ bkt[p] = Hash(k) /\ k \in Keys
    BY <1>1, CursorFacts
  <2>2. s \in seen[t] /\ k < val[s]
    BY <1>1 DEF Inv, Cursor
  <2>3. p \in Live /\ s \in Live
    BY <1>1, <2>1, <2>2, NotRemovedIsLive
  <2>4. x \in DataNodes /\ mem[x] = "private" /\ val[x] = k /\ link[x] = s /\ bkt[x] = Hash(k)
    BY <1>1 DEF Inv, Owned
  <2>5. QED
    BY <1>1, <2>1, <2>2, <2>3, <2>4
<1>3. x \in Node /\ p \in Node /\ s \in Node /\ x # p /\ x # s /\ x \notin Live
  BY <1>2, ConstantFacts DEF Live
<1>4. /\ UNCHANGED <<val, removed, bkt, rcu, gp, bench, fill, ops, expired,
                     op, key, p_prev, p_next, n, p_new_node>>
      /\ link' = [link EXCEPT ![p] = x]
      /\ mem' = [mem EXCEPT ![x] = "live"]
      /\ seen' = [u \in Threads |-> IF seen[u] = {} THEN {} ELSE seen[u] \union {x}]
      /\ obs' = [u \in Threads |-> IF op[u] # "none" /\ key[u] = k
                                   THEN obs[u] \union {"present"} ELSE obs[u]]
      /\ result' = [result EXCEPT ![t] = 1]
      /\ pc' = [pc EXCEPT ![t] = "unlock"]
  BY DEF AddCommit, Publish, Observe, Decide, Goto, rcuVars, driverVars
<1>5. /\ mem'[x] = "live" /\ link'[p] = x
      /\ \A y \in Node : y # x => mem'[y] = mem[y]
      /\ \A y \in Node : y # p => link'[y] = link[y]
  BY <1>3, <1>4 DEF Inv, TypeOK, NodeTypeOK
<1>6. SortedLists' /\ Live' = Live \union {x} /\ Contents' = Contents \union {k}
  <2>1. /\ mem[x] # "live" /\ mem'[x] = "live" /\ val'[x] = k /\ link'[x] = link[p]
        /\ bkt'[x] = Hash(k) /\ link'[p] = x
        /\ \A y \in Node : y # x => mem'[y] = mem[y] /\ val'[y] = val[y] /\ bkt'[y] = bkt[y]
        /\ \A y \in Node : y # x /\ y # p => link'[y] = link[y]
    BY <1>2, <1>3, <1>4, <1>5
  <2>2. QED
    BY <1>2, <2>1, InsertSorted DEF Inv, TypeOK
<1>7. TypeOK'
  <2>1. NodeTypeOK'
    BY <1>3, <1>4 DEF Inv, TypeOK, NodeTypeOK, Ptr, MemState
  <2>2. LocalTypeOK'
    BY <1>3, <1>4 DEF Inv, TypeOK, LocalTypeOK
  <2>3. QED
    BY <1>4, <2>1, <2>2 DEF Inv, TypeOK, Labels
<1>8. /\ pc'[t] = "unlock" /\ result'[t] = 1
      /\ \A u \in Threads : u # t => pc'[u] = pc[u] /\ result'[u] = result[u]
      /\ \A u \in Threads : Traversing(u)' <=> (Traversing(u) /\ u # t)
  BY <1>1, <1>4 DEF Inv, TypeOK, LocalTypeOK, Traversing
<1>9. Phases'
  BY <1>1, <1>4, <1>8 DEF Inv, Phases
<1>10. RemovedFlag'
  BY <1>2, <1>4, <1>5 DEF Inv, RemovedFlag, Stale
<1>11. \A u \in Threads : Traversing(u) =>
         /\ p \in seen[u] /\ s \in seen[u] /\ seen[u] \subseteq Node
         /\ seen'[u] = seen[u] \union {x}
         /\ x \notin seen[u]
  <2>1. \A u \in Threads : Traversing(u) => p \in seen[u] /\ s \in seen[u]
    BY <1>2 DEF Inv, Protected
  <2>2. \A u \in Threads : Traversing(u) => x \notin seen[u] /\ seen[u] \subseteq Node
    BY <1>2 DEF Inv, Protected, TypeOK, LocalTypeOK
  <2>3. QED
    BY <1>4, <2>1, <2>2
<1>12. Protected'
  BY <1>1, <1>4, <1>5, <1>6, <1>8, <1>11 DEF Inv, Protected
<1>13. SeenClosed'
  BY <1>2, <1>3, <1>4, <1>5, <1>8, <1>11 DEF Inv, SeenClosed, SortedLists, Ascending
<1>14. /\ \A u \in Threads : obs[u] \subseteq obs'[u]
       /\ \A u \in Threads : op[u] # "none" /\ key[u] = k => "present" \in obs'[u]
  BY <1>4
<1>15. Witnessed'
  <2>1. SUFFICES ASSUME NEW u \in Threads
        PROVE  /\ op[u] # "none" /\ key[u] \in Contents' => "present" \in obs'[u]
               /\ op[u] # "none" /\ key[u] \notin Contents' => "absent" \in obs'[u]
               /\ Traversing(u) /\ u # t =>
                    \A y \in seen[u] \union {x} : bkt[y] = Hash(key[u]) =>
                      /\ val[y] = key[u] => "present" \in obs'[u]
                      /\ y \notin MaxNodes /\ val[y] < key[u] /\ key[u] < val[link'[y]]
                           => "absent" \in obs'[u]
    BY <1>4, <1>8, <1>11 DEF Witnessed
  <2>2. /\ op[u] # "none" /\ key[u] \in Contents' => "present" \in obs'[u]
        /\ op[u] # "none" /\ key[u] \notin Contents' => "absent" \in obs'[u]
    BY <1>6, <1>14 DEF Inv, Witnessed
  <2>3. ASSUME Traversing(u), u # t, NEW y \in seen[u] \union {x}, bkt[y] = Hash(key[u])
        PROVE  /\ val[y] = key[u] => "present" \in obs'[u]
               /\ y \notin MaxNodes /\ val[y] < key[u] /\ key[u] < val[link'[y]]
                    => "absent" \in obs'[u]
    <3>1. op[u] # "none" /\ key[u] \in Keys
      BY <2>3, CursorFacts
    <3>2. CASE y \in seen[u] /\ y # p
      BY <1>5, <1>11, <1>14, <2>3, <3>2 DEF Inv, Witnessed
    <3>3. CASE y = x \/ y = p
      <4>1. bkt[p] = Hash(key[u]) /\ p \in seen[u] \ MaxNodes
        BY <1>2, <1>11, <2>3, <3>3
      <4>2. /\ val[p] \in Int /\ val[s] \in Int /\ k \in Int /\ key[u] \in Int
            /\ val[x] = k
        BY <1>2, <1>3, <3>1, NodeValues, ConstantFacts DEF Inv, TypeOK, SortedLists
      <4>3. val[p] < key[u] /\ key[u] < val[s] => "absent" \in obs[u]
        BY <1>1, <2>3, <4>1 DEF Inv, Witnessed
      <4>4. val[p] = key[u] => "present" \in obs[u]
        BY <2>3, <4>1 DEF Inv, Witnessed
      <4>5. link'[p] = x /\ link'[x] = s
        BY <1>1, <1>2, <1>3, <1>5
      <4>6. CASE y = x
        BY <1>2, <1>14, <3>1, <4>2, <4>3, <4>5, <4>6, <1>1
      <4>7. CASE y = p
        BY <1>2, <1>14, <3>1, <4>2, <4>3, <4>4, <4>5, <4>7, <1>1
      <4>8. QED
        BY <3>3, <4>6, <4>7
    <3>4. QED
      BY <2>3, <3>2, <3>3
  <2>4. QED
    BY <2>2, <2>3
<1>16. Cursor'
  BY <1>4, <1>8, <1>11, <1>14 DEF Inv, Cursor
<1>17. Linearizable'
  BY <1>1, <1>4, <1>8, <1>14 DEF Inv, Linearizable, Decided, WasTrue
<1>18. Owned'
  <2>1. \A u \in Threads : Inserting(u)' => u # t /\ Inserting(u)
    BY <1>1, <1>4, <1>8 DEF Inserting, ABORTED
  <2>2. \A u \in Threads : Freeing(u)' => u # t /\ Freeing(u)
    BY <1>1, <1>4, <1>8 DEF Freeing
  <2>3. \A u \in Threads : Inserting(u) /\ u # t =>
          p_new_node[u] # x /\ p_new_node[u] # p /\ p_new_node[u] \in Node
    BY <1>1, <1>2, ConstantFacts DEF Inv, Owned, Live
  <2>4. \A u \in Threads : Freeing(u) => p_next[u] # x /\ p_next[u] \in Node
    BY <1>2, ConstantFacts DEF Inv, Owned
  <2>5. QED
    BY <1>4, <1>5, <1>8, <2>1, <2>2, <2>3, <2>4 DEF Inv, Owned
<1>19. QED
  BY <1>6, <1>7, <1>9, <1>10, <1>12, <1>13, <1>15, <1>16, <1>17, <1>18 DEF Inv

\* A validated removal unlinks a node that stays in every open view.
LEMMA RemoveCommitInv ==
  ASSUME Inv, NEW t \in Threads, RemoveCommit(t)
  PROVE  Inv' /\ Contents' = Contents \ {key[t]}
<1> DEFINE p == p_prev[t]
<1> DEFINE x == p_next[t]
<1> DEFINE s == n[t]
<1> DEFINE k == key[t]
<1>1. /\ pc[t] = "update" /\ op[t] = "remove" /\ Traversing(t)
      /\ link[p] = x /\ link[x] = s
      /\ removed[p] = 0 /\ removed[x] = 0 /\ removed[s] = 0
  BY DEF RemoveCommit, RemoveValid, Traversing
<1>2. /\ k \in Keys /\ p \in Live \ MaxNodes /\ x \in Live /\ s \in Live
      /\ bkt[p] = Hash(k) /\ val[p] < k /\ val[x] = k
  <2>1. p \in seen[t] \ MaxNodes /\ val[p] < k /\ bkt[p] = Hash(k) /\ k \in Keys
    BY <1>1, CursorFacts
  <2>2. x \in seen[t] /\ val[x] = k /\ s \in seen[t]
    BY <1>1 DEF Inv, Cursor
  <2>3. p \in Live /\ x \in Live /\ s \in Live
    BY <1>1, <2>1, <2>2, NotRemovedIsLive
  <2>4. QED
    BY <2>1, <2>2, <2>3
<1>3. x \in DataNodes /\ x \in Node /\ p \in Node /\ s \in Node /\ x \notin MaxNodes
  <2>1. x \in Node /\ p \in Node /\ s \in Node
    BY <1>2 DEF Live
  <2>2. x \in DataNodes
    BY <1>2, <2>1, NodeValues DEF Inv, TypeOK, SortedLists
  <2>3. QED
    BY <2>1, <2>2, ConstantFacts
<1>4. /\ bkt[x] = bkt[p] /\ val[p] < val[x] /\ bkt[s] = bkt[x] /\ val[x] < val[s]
      /\ p # x /\ s # x
      /\ val[p] \in Int /\ val[x] \in Int /\ val[s] \in Int
  <2>1. /\ bkt[x] = bkt[p] /\ val[p] < val[x] /\ bkt[s] = bkt[x] /\ val[x] < val[s]
    BY <1>1, <1>2, <1>3 DEF Inv, SortedLists, Ascending
  <2>2. val[p] \in Int /\ val[x] \in Int /\ val[s] \in Int
    BY <1>3, NodeValues DEF Inv, TypeOK, SortedLists
  <2>3. QED
    BY <2>1, <2>2
<1>5. /\ UNCHANGED <<val, bkt, rcu, gp, bench, fill, ops, expired, seen,
                     op, key, p_prev, p_next, n, p_new_node>>
      /\ link' = [link EXCEPT ![p] = s]
      /\ mem' = [mem EXCEPT ![x] = "unlinked"]
      /\ removed' = [removed EXCEPT ![x] = 1]
      /\ obs' = [u \in Threads |-> IF op[u] # "none" /\ key[u] = k
                                   THEN obs[u] \union {"absent"} ELSE obs[u]]
      /\ result' = [result EXCEPT ![t] = 1]
      /\ pc' = [pc EXCEPT ![t] = "unlock"]
  BY DEF RemoveCommit, Unlink, Observe, Decide, Goto, rcuVars, driverVars
<1>6. /\ mem'[x] = "unlinked" /\ link'[p] = s /\ removed'[x] = 1
      /\ \A y \in Node : y # x => mem'[y] = mem[y] /\ removed'[y] = removed[y]
      /\ \A y \in Node : y # p => link'[y] = link[y]
  BY <1>3, <1>5 DEF Inv, TypeOK, NodeTypeOK
<1>7. SortedLists' /\ Live' = Live \ {x} /\ Contents' = Contents \ {k}
  <2>1. /\ mem'[x] # "live" /\ UNCHANGED <<val, bkt>>
        /\ \A y \in Node : y # x => mem'[y] = mem[y]
    BY <1>5, <1>6
  <2>2. QED
    BY <1>1, <1>2, <1>3, <1>6, <2>1, DeleteSorted DEF Inv, TypeOK
<1>8. TypeOK'
  <2>1. NodeTypeOK'
    BY <1>3, <1>5 DEF Inv, TypeOK, NodeTypeOK, Ptr, MemState
  <2>2. LocalTypeOK'
    BY <1>5 DEF Inv, TypeOK, LocalTypeOK
  <2>3. QED
    BY <1>5, <2>1, <2>2 DEF Inv, TypeOK, Labels
<1>9. /\ pc'[t] = "unlock" /\ result'[t] = 1
      /\ \A u \in Threads : u # t => pc'[u] = pc[u] /\ result'[u] = result[u]
      /\ \A u \in Threads : Traversing(u)' <=> (Traversing(u) /\ u # t)
  BY <1>1, <1>5 DEF Inv, TypeOK, LocalTypeOK, Traversing
<1>10. Phases'
  BY <1>1, <1>5, <1>9 DEF Inv, Phases
<1>11. RemovedFlag'
  BY <1>6 DEF Inv, RemovedFlag, Stale
<1>12. \A u \in Threads : Traversing(u) =>
         p \in seen[u] /\ s \in seen[u] /\ x \in seen[u] /\ seen[u] \subseteq Node
  BY <1>2 DEF Inv, Protected, TypeOK, LocalTypeOK
<1>13. Protected'
  BY <1>1, <1>5, <1>6, <1>7, <1>9, <1>12 DEF Inv, Protected
<1>14. SeenClosed'
  <2>1. val[p] < val[s]
    BY <1>4
  <2>2. QED
    BY <1>4, <1>5, <1>6, <1>9, <1>12, <2>1 DEF Inv, SeenClosed
<1>15. /\ \A u \in Threads : obs[u] \subseteq obs'[u]
       /\ \A u \in Threads : op[u] # "none" /\ key[u] = k => "absent" \in obs'[u]
  BY <1>5
<1>16. Witnessed'
  <2>1. SUFFICES ASSUME NEW u \in Threads
        PROVE  /\ op[u] # "none" /\ key[u] \in Contents' => "present" \in obs'[u]
               /\ op[u] # "none" /\ key[u] \notin Contents' => "absent" \in obs'[u]
               /\ Traversing(u) /\ u # t =>
                    \A y \in seen[u] : bkt[y] = Hash(key[u]) =>
                      /\ val[y] = key[u] => "present" \in obs'[u]
                      /\ y \notin MaxNodes /\ val[y] < key[u] /\ key[u] < val[link'[y]]
                           => "absent" \in obs'[u]
    BY <1>5, <1>9 DEF Witnessed
  <2>2. /\ op[u] # "none" /\ key[u] \in Contents' => "present" \in obs'[u]
        /\ op[u] # "none" /\ key[u] \notin Contents' => "absent" \in obs'[u]
    BY <1>7, <1>15 DEF Inv, Witnessed
  <2>3. ASSUME Traversing(u), u # t, NEW y \in seen[u], bkt[y] = Hash(key[u])
        PROVE  /\ val[y] = key[u] => "present" \in obs'[u]
               /\ y \notin MaxNodes /\ val[y] < key[u] /\ key[u] < val[link'[y]]
                    => "absent" \in obs'[u]
    <3>1. op[u] # "none" /\ key[u] \in Keys /\ key[u] \in Int
      BY <2>3, CursorFacts, ConstantFacts
    <3>2. val[y] = key[u] => "present" \in obs'[u]
      BY <1>15, <2>3 DEF Inv, Witnessed
    <3>3. CASE y # p
      BY <1>6, <1>12, <1>15, <2>3, <3>2, <3>3 DEF Inv, Witnessed
    <3>4. CASE y = p
      <4>1. bkt[x] = Hash(key[u]) /\ bkt[p] = Hash(key[u])
        BY <1>4, <2>3, <3>4
      <4>2. val[p] < key[u] /\ key[u] < val[x] => "absent" \in obs[u]
        BY <1>1, <1>2, <1>12, <2>3, <4>1 DEF Inv, Witnessed
      <4>3. val[x] < key[u] /\ key[u] < val[s] => "absent" \in obs[u]
        BY <1>1, <1>3, <1>12, <2>3, <4>1 DEF Inv, Witnessed
      <4>4. key[u] = val[x] => "absent" \in obs'[u]
        BY <1>2, <1>15, <3>1
      <4>5. QED
        BY <1>4, <1>6, <1>15, <3>1, <3>2, <3>4, <4>2, <4>3, <4>4
    <3>5. QED
      BY <3>3, <3>4
  <2>4. QED
    BY <2>2, <2>3
<1>17. Cursor'
  BY <1>5, <1>9, <1>15 DEF Inv, Cursor
<1>18. Linearizable'
  BY <1>1, <1>5, <1>9, <1>15 DEF Inv, Linearizable, Decided, WasTrue
<1>19. Owned'
  <2>1. \A u \in Threads : Inserting(u)' => u # t /\ Inserting(u)
    BY <1>1, <1>5, <1>9 DEF Inserting
  <2>2. \A u \in Threads : u # t => (Freeing(u)' <=> Freeing(u))
    BY <1>5, <1>9 DEF Freeing
  <2>3. mem[x] = "live" /\ mem[p] = "live"
    BY <1>2 DEF Live
  <2>4. \A u \in Threads : Inserting(u) =>
          p_new_node[u] # x /\ p_new_node[u] # p /\ p_new_node[u] \in Node
    BY <2>3, ConstantFacts DEF Inv, Owned
  <2>5. \A u \in Threads : Freeing(u) => p_next[u] # x /\ p_next[u] \in Node
    BY <2>3, ConstantFacts DEF Inv, Owned
  <2>6. QED
    BY <1>3, <1>5, <1>6, <1>9, <2>1, <2>2, <2>4, <2>5 DEF Inv, Owned
<1>20. QED
  BY <1>7, <1>8, <1>10, <1>11, <1>13, <1>14, <1>16, <1>17, <1>18, <1>19 DEF Inv

\* The new table satisfies the invariant.
LEMMA InitInv ==
  ASSUME Init
  PROVE  Inv
<1>1. \A b \in Buckets : /\ (CHOOSE c \in Buckets : MinNode[c] = MinNode[b]) = b
                         /\ (CHOOSE c \in Buckets : MinNode[b] \in {MinNode[c], MaxNode[c]}) = b
                         /\ (CHOOSE c \in Buckets : MaxNode[b] \in {MinNode[c], MaxNode[c]}) = b
  BY SentinelsAssumption
<1>2. \A b \in Buckets :
        /\ val[MinNode[b]] = LIST_VAL_MIN /\ val[MaxNode[b]] = LIST_VAL_MAX
        /\ mem[MinNode[b]] = "live" /\ mem[MaxNode[b]] = "live"
        /\ bkt[MinNode[b]] = b /\ bkt[MaxNode[b]] = b
        /\ link[MinNode[b]] = MaxNode[b]
  <2>1. \A b \in Buckets : MinNode[b] \in MinNodes /\ MinNode[b] \notin DataNodes
                          /\ MaxNode[b] \notin MinNodes /\ MaxNode[b] \notin DataNodes
    BY ConstantFacts
  <2>2. QED
    BY <1>1, <2>1, ConstantFacts DEF Init, ListInit
<1>3. \A x \in Node : /\ x \in DataNodes => mem[x] = "free" /\ bkt[x] = 0
                      /\ mem[x] = "live" <=> x \in MinNodes \union MaxNodes
                      /\ removed[x] = 0 /\ gp[x] = {}
  BY ConstantFacts DEF Node, Init, ListInit
<1>4. \A x \in MinNodes \union MaxNodes :
        \E b \in Buckets : x = MinNode[b] \/ x = MaxNode[b]
  BY DEF MinNodes, MaxNodes
<1>5. Sentinels
  BY <1>2 DEF Sentinels
<1>6. Live = MinNodes \union MaxNodes
  BY <1>3, ConstantFacts DEF Live
<1>7. Contents = {}
  BY <1>3, ConstantFacts DEF Contents
<1>8. SortedLists
  <2>1. Ascending
    BY <1>2, <1>4, <1>6, ConstantFacts DEF Ascending
  <2>2. NoneBetween
    <3>1. SUFFICES ASSUME NEW x \in Live, NEW y \in Live, bkt[x] = bkt[y], val[x] < val[y]
                   PROVE  val[link[x]] <= val[y]
      BY DEF NoneBetween
    <3>2. PICK b \in Buckets : x = MinNode[b] \/ x = MaxNode[b]
      BY <1>4, <1>6
    <3>3. PICK c \in Buckets : y = MinNode[c] \/ y = MaxNode[c]
      BY <1>4, <1>6
    <3>4. b = c
      BY <1>2, <3>1, <3>2, <3>3
    <3>5. x = MinNode[b] /\ y = MaxNode[b]
      BY <1>2, <3>1, <3>2, <3>3, <3>4, ConstantFacts
    <3>6. QED
      BY <1>2, <3>5, ConstantFacts
  <2>3. NoDuplicate
    BY <1>2, <1>4, <1>6, ConstantFacts DEF NoDuplicate
  <2>4. InItsBucket
    BY <1>3, ConstantFacts DEF InItsBucket
  <2>5. QED
    BY <1>5, <2>1, <2>2, <2>3, <2>4 DEF SortedLists
<1>9. TypeOK
  <2>1. \A x \in Node : link[x] \in Ptr
    <3>1. \A x \in MinNodes : link[x] \in Node
      BY <1>2, ConstantFacts DEF MinNodes
    <3>2. QED
      BY <3>1, ConstantFacts DEF Ptr, Init, ListInit
  <2>2. \A x \in Node : bkt[x] \in Buckets
    BY <1>2, <1>3, <1>4, ConstantFacts DEF Node
  <2>3. NodeTypeOK
    BY <2>1, <2>2 DEF NodeTypeOK, MemState, Init, ListInit
  <2>4. LocalTypeOK
    BY BoundsAssumption DEF LocalTypeOK, Ptr, Init, ListInit
  <2>5. QED
    BY <2>3, <2>4 DEF TypeOK, Labels, Init, ListInit
<1>10. Phases /\ RemovedFlag /\ Protected /\ SeenClosed
  BY <1>3 DEF Phases, RemovedFlag, Stale, Protected, SeenClosed, Traversing,
     Init, ListInit
<1>11. Witnessed /\ Cursor /\ Owned /\ Linearizable
  BY DEF Witnessed, Cursor, Owned, Inserting, Freeing, Linearizable, Decided, Traversing,
     Init, ListInit
<1>12. QED
  BY <1>8, <1>9, <1>10, <1>11 DEF Inv

\* The invariant depends on the variables only.
LEMMA StutterInv ==
  ASSUME Inv, UNCHANGED vars
  PROVE  Inv' /\ Contents' = Contents
<1> USE DEF vars, listVars, rcuVars, localVars, driverVars, historyVars
<1>1. SortedLists' /\ RemovedFlag' /\ Contents' = Contents /\ Live' = Live
  BY Frame DEF Inv
<1>2. TypeOK' /\ Phases'
  BY DEF Inv, TypeOK, NodeTypeOK, LocalTypeOK, nodeVars, Phases
<1>3. Protected' /\ SeenClosed' /\ Witnessed'
  BY <1>1 DEF Inv, Protected, SeenClosed, Witnessed, Traversing, nodeVars
<1>4. Cursor' /\ Owned' /\ Linearizable'
  BY DEF Inv, Cursor, Owned, Inserting, Freeing, Linearizable, Decided, WasTrue,
     Traversing, nodeVars
<1>5. QED
  BY <1>1, <1>2, <1>3, <1>4 DEF Inv

\* Every step of the list keeps the invariant.
LEMMA NextInv ==
  ASSUME Inv, SafeBuild, [Next]_vars
  PROVE  Inv'
<1>1. CASE \E k \in Keys : HalfFill(k) /\ UNCHANGED expired
  BY <1>1, HalfFillInv
<1>2. CASE \E t \in Threads, o \in OpNames, k \in Keys : Begin(t, o, k)
  BY <1>2, BeginInv
<1>3. ASSUME NEW t \in Threads, Step(t) PROVE Inv'
  BY <1>3, DerefInv, AdvanceInv, ReadSuccInv, ContainsDoneInv, AddPresentInv,
     AddNewNodeInv, AddCommitInv, TxAbortInv, RemoveAbsentInv, RemoveFoundInv,
     RemoveCommitInv, UnlockInv, FreeInv, RetryInv, FinishInv DEF Step
<1>4. CASE Kernel
  BY <1>4, ReclaimInv DEF Kernel
<1>5. CASE EndTime
  BY <1>5, EndTimeInv
<1>6. CASE UNCHANGED vars
  BY <1>6, StutterInv
<1>7. QED
  BY <1>1, <1>2, <1>3, <1>4, <1>5, <1>6 DEF Next

(***************************************************************************)
(* The invariant of the RCX list (rcx_list_contains, rcx_list_add and      *)
(* rcx_list_remove with the hash table calls that give up or retry), for   *)
(* any number of threads, keys, buckets and nodes, in every kernel build   *)
(* where the allocation inside the RCU section does not end it.            *)
(***************************************************************************)
THEOREM Invariance ==
  ASSUME SafeBuild
  PROVE  Spec => []Inv
<1>1. Init => Inv
  BY InitInv
<1>2. Inv /\ [Next]_vars => Inv'
  BY NextInv
<1>3. QED
  BY <1>1, <1>2, PTL DEF Spec

\* Every variable of the RCX list keeps its type: pointers point to nodes,
\* results are among the three of rcx_list_add() and rcx_list_remove().
THEOREM TypeCorrect ==
  ASSUME SafeBuild
  PROVE  Spec => []TypeOK
<1>1. Inv => TypeOK
  BY DEF Inv
<1>2. QED
  BY <1>1, Invariance, PTL

\* The buckets stay sorted, free of duplicates and properly terminated,
\* although add and remove find their position without any lock.
THEOREM ListsSorted ==
  ASSUME SafeBuild
  PROVE  Spec => []SortedLists
<1>1. Inv => SortedLists
  BY DEF Inv
<1>2. QED
  BY <1>1, Invariance, PTL

\* No insertion is lost behind a node that another transaction unlinked, and
\* no removed node comes back: a walk from the heads of the buckets meets
\* exactly the nodes whose insertion was committed and whose removal was not.
THEOREM UpdatesNotLost ==
  ASSUME SafeBuild
  PROVE  Spec => []NoLostUpdate
<1>1. Inv => NoLostUpdate
  BY NothingLost DEF Inv, TypeOK
<1>2. QED
  BY <1>1, Invariance, PTL

\* rcx_list_contains() and the updates that change nothing answer what was
\* true at some moment between call and return.
THEOREM AnswersLinearizable ==
  ASSUME SafeBuild
  PROVE  Spec => []Linearizable
<1>1. Inv => Linearizable
  BY DEF Inv
<1>2. QED
  BY <1>1, Invariance, PTL

\* The RCU sections of the RCX list cover every node it dereferences: no
\* thread reads or writes a node after kfree_rcu() gave it back.
THEOREM MemorySafe ==
  ASSUME SafeBuild
  PROVE  Spec => []NoUseAfterFree
<1>1. ASSUME Inv PROVE NoUseAfterFree
  <2>1. SUFFICES ASSUME NEW t \in Threads, NEW x \in Touches(t)
                 PROVE  mem[x] # "free"
    BY DEF NoUseAfterFree
  <2>2. CASE Traversing(t)
    <3>1. \A y \in seen[t] : mem[y] # "free"
      BY <1>1, <2>2 DEF Inv, Protected
    <3>2. pc[t] = "update" => op[t] \in {"add", "remove"}
      BY <1>1 DEF Inv, Phases
    <3>3. /\ p_prev[t] \in seen[t]
          /\ pc[t] # "deref" => p_next[t] \in seen[t]
          /\ pc[t] = "update" /\ op[t] = "remove" => n[t] \in seen[t]
      BY <1>1, <2>2 DEF Inv, Cursor
    <3>4. pc[t] = "update" /\ op[t] = "add" => mem[p_new_node[t]] = "private"
      BY <1>1 DEF Inv, Owned, Inserting
    <3>5. QED
      BY <2>1, <2>2, <3>1, <3>2, <3>3, <3>4 DEF Touches, Traversing
  <2>3. CASE pc[t] = "free"
    <3>1. Freeing(t)
      BY <1>1, <2>3 DEF Inv, Phases, Freeing
    <3>2. mem[p_next[t]] = "unlinked"
      BY <1>1, <3>1 DEF Inv, Owned
    <3>3. QED
      BY <2>1, <2>3, <3>2 DEF Touches
  <2>4. CASE ~Traversing(t) /\ pc[t] # "free"
    BY <2>1, <2>4 DEF Touches, Traversing
  <2>5. QED
    BY <2>2, <2>3, <2>4
<1>2. QED
  BY <1>1, Invariance, PTL

\* rcx_free_node() is called once for every node that rcx_list_remove()
\* unlinked, however many threads remove the same value.
THEOREM NodesFreedOnce ==
  ASSUME SafeBuild
  PROVE  Spec => []FreedOnce
<1>1. ASSUME Inv PROVE FreedOnce
  <2>1. SUFFICES ASSUME NEW t \in Threads, pc[t] = "free"
                 PROVE  mem[p_next[t]] = "unlinked"
    BY DEF FreedOnce
  <2>2. Freeing(t)
    BY <1>1, <2>1 DEF Inv, Phases, Freeing
  <2>3. QED
    BY <1>1, <2>2 DEF Inv, Owned
<1>2. QED
  BY <1>1, Invariance, PTL

-----------------------------------------------------------------------------
(***************************************************************************)
(* The RCX list implements the abstract set.                               *)
(***************************************************************************)

\* A step that decides the call of t with result r.
LEMMA Answers ==
  ASSUME Inv, NEW t \in Threads, NEW r \in 0..2, pc[t] # "idle", ~Decided(t), Decided(t)',
         result'[t] = r, op' = op, key' = key,
         \A u \in Threads : u # t => pc'[u] = pc[u] /\ result'[u] = result[u]
  PROVE  /\ reply[t] = -1 /\ op[t] # "none"
         /\ reply' = [reply EXCEPT ![t] = r]
<1>1. reply[t] = -1 /\ reply'[t] = r /\ op[t] # "none"
  BY DEF reply, Inv, TypeOK, LocalTypeOK, Phases
<1>2. \A u \in Threads : u # t => reply'[u] = reply[u]
  BY DEF reply, Decided, Inv, TypeOK, LocalTypeOK
<1>3. reply' = [reply EXCEPT ![t] = r]
  BY <1>1, <1>2 DEF reply
<1>4. QED
  BY <1>1, <1>3

\* Answers that change nothing are answers of the abstract set.
LEMMA RefineReport ==
  ASSUME Inv, NEW t \in Threads, ContainsDone(t) \/ AddPresent(t) \/ RemoveAbsent(t)
  PROVE  Abstract!Next
<1> USE DEF Abstract!Next, Abstract!Report
<1>1. CASE ContainsDone(t)
  <2>1. /\ op[t] = "contains" /\ pc[t] = "test"
        /\ Found(t) => "present" \in obs[t]
        /\ ~Found(t) => "absent" \in obs[t]
    BY <1>1, ArrivedFacts DEF ContainsDone, Arrived
  <2>2. /\ Contents' = Contents /\ UNCHANGED <<op, key, obs>>
        /\ Decided(t)' /\ result'[t] = IF Found(t) THEN 1 ELSE 0
        /\ \A u \in Threads : u # t => pc'[u] = pc[u] /\ result'[u] = result[u]
    <3>1. Contents' = Contents
      BY <1>1, ContainsDoneInv
    <3>2. QED
      BY <1>1, <3>1 DEF ContainsDone, Decide, Goto, Decided, Inv, TypeOK, LocalTypeOK, historyVars
  <2>3. Abstract!Answer(t, IF Found(t) THEN 1 ELSE 0)
    BY <2>1, <2>2, Answers DEF Decided, Abstract!Answer, Abstract!PENDING
  <2>4. CASE Found(t)
    BY <2>1, <2>2, <2>3, <2>4
  <2>5. CASE ~Found(t)
    BY <2>1, <2>2, <2>3, <2>5
  <2>6. QED
    BY <2>4, <2>5
<1>2. CASE AddPresent(t)
  <2>1. op[t] = "add" /\ pc[t] = "test" /\ "present" \in obs[t]
    BY <1>2, ArrivedFacts DEF AddPresent, Arrived
  <2>2. /\ Contents' = Contents /\ UNCHANGED <<op, key, obs>>
        /\ Decided(t)' /\ result'[t] = 0
        /\ \A u \in Threads : u # t => pc'[u] = pc[u] /\ result'[u] = result[u]
    <3>1. Contents' = Contents
      BY <1>2, AddPresentInv
    <3>2. QED
      BY <1>2, <3>1 DEF AddPresent, Decide, Goto, Decided, Inv, TypeOK, LocalTypeOK, historyVars
  <2>3. Abstract!Answer(t, 0)
    BY <2>1, <2>2, Answers DEF Decided, Abstract!Answer, Abstract!PENDING
  <2>4. QED
    BY <2>1, <2>2, <2>3
<1>3. CASE RemoveAbsent(t)
  <2>1. op[t] = "remove" /\ pc[t] = "test" /\ "absent" \in obs[t]
    BY <1>3, ArrivedFacts DEF RemoveAbsent, Arrived
  <2>2. /\ Contents' = Contents /\ UNCHANGED <<op, key, obs>>
        /\ Decided(t)' /\ result'[t] = 0
        /\ \A u \in Threads : u # t => pc'[u] = pc[u] /\ result'[u] = result[u]
    <3>1. Contents' = Contents
      BY <1>3, RemoveAbsentInv
    <3>2. QED
      BY <1>3, <3>1 DEF RemoveAbsent, Goto, Decided, Inv, TypeOK, LocalTypeOK
  <2>3. Abstract!Answer(t, 0)
    BY <2>1, <2>2, Answers DEF Decided, Abstract!Answer, Abstract!PENDING
  <2>4. QED
    BY <2>1, <2>2, <2>3
<1>4. QED
  BY <1>1, <1>2, <1>3

\* A transaction is an insertion, a deletion or a GiveUp of the abstract set.
LEMMA RefineUpdate ==
  ASSUME Inv, NEW t \in Threads, AddCommit(t) \/ RemoveCommit(t) \/ TxAbort(t)
  PROVE  Abstract!Next
<1>1. pc[t] = "update" /\ Traversing(t) /\ key[t] \in Keys /\ ~Decided(t)
  BY CursorFacts DEF AddCommit, RemoveCommit, TxAbort, Traversing, Decided
<1>2. CASE AddCommit(t)
  <2>1. key[t] \notin Contents
    <3>1. /\ p_prev[t] \in seen[t] \ MaxNodes /\ val[p_prev[t]] < key[t]
          /\ bkt[p_prev[t]] = Hash(key[t])
      BY <1>1, CursorFacts
    <3>2. key[t] < val[p_next[t]]
      BY <1>1, <1>2 DEF Inv, Cursor, AddCommit
    <3>3. p_prev[t] \in Live /\ link[p_prev[t]] = p_next[t]
      BY <1>1, <1>2, <3>1, NotRemovedIsLive DEF AddCommit, AddValid
    <3>4. QED
      BY <1>1, <3>1, <3>2, <3>3, FreshTraversal DEF Inv, TypeOK
  <2>2. /\ Contents' = Contents \union {key[t]} /\ UNCHANGED <<op, key>>
        /\ Decided(t)' /\ result'[t] = 1 /\ op[t] = "add"
        /\ \A u \in Threads : u # t => pc'[u] = pc[u] /\ result'[u] = result[u]
    <3>1. Contents' = Contents \union {key[t]}
      BY <1>2, AddCommitInv
    <3>2. QED
      BY <1>2, <3>1 DEF AddCommit, Decide, Goto, Decided, Inv, TypeOK, LocalTypeOK
  <2>3. Abstract!Answer(t, 1)
    BY <1>1, <2>2, Answers DEF Traversing, Abstract!Answer, Abstract!PENDING
  <2>4. Abstract!AllObserve(key[t], "present")
    BY <1>2 DEF AddCommit, Publish, Observe, Abstract!AllObserve
  <2>5. QED
    BY <2>1, <2>2, <2>3, <2>4 DEF Abstract!Next, Abstract!Insert
<1>3. CASE RemoveCommit(t)
  <2>1. key[t] \in Contents
    <3>1. p_next[t] \in seen[t] /\ val[p_next[t]] = key[t]
      BY <1>1, <1>3 DEF Inv, Cursor, RemoveCommit
    <3>2. p_next[t] \in Live
      BY <1>1, <1>3, <3>1, NotRemovedIsLive DEF RemoveCommit, RemoveValid
    <3>3. bkt[p_next[t]] = Hash(key[t])
      BY <1>1, <1>3 DEF Inv, Cursor, RemoveCommit
    <3>4. QED
      BY <1>1, <3>1, <3>2, <3>3, FreshTraversal DEF Inv, TypeOK
  <2>2. /\ Contents' = Contents \ {key[t]} /\ UNCHANGED <<op, key>>
        /\ Decided(t)' /\ result'[t] = 1 /\ op[t] = "remove"
        /\ \A u \in Threads : u # t => pc'[u] = pc[u] /\ result'[u] = result[u]
    <3>1. Contents' = Contents \ {key[t]}
      BY <1>3, RemoveCommitInv
    <3>2. QED
      BY <1>3, <3>1 DEF RemoveCommit, Decide, Goto, Decided, Inv, TypeOK, LocalTypeOK
  <2>3. Abstract!Answer(t, 1)
    BY <1>1, <2>2, Answers DEF Traversing, Abstract!Answer, Abstract!PENDING
  <2>4. Abstract!AllObserve(key[t], "absent")
    BY <1>3 DEF RemoveCommit, Unlink, Observe, Abstract!AllObserve
  <2>5. QED
    BY <2>1, <2>2, <2>3, <2>4 DEF Abstract!Next, Abstract!Delete
<1>4. CASE TxAbort(t)
  <2>1. op[t] \in {"add", "remove"}
    BY <1>1 DEF Inv, Phases
  <2>2. /\ Contents' = Contents /\ UNCHANGED <<op, key, obs>>
        /\ Decided(t)' /\ result'[t] = 2
        /\ \A u \in Threads : u # t => pc'[u] = pc[u] /\ result'[u] = result[u]
    <3>1. Contents' = Contents
      BY <1>4, TxAbortInv
    <3>2. QED
      BY <1>4, <3>1 DEF TxAbort, Decide, Goto, Decided, Inv, TypeOK, LocalTypeOK, historyVars, ABORTED
  <2>3. Abstract!Answer(t, 2)
    BY <1>1, <2>2, Answers DEF Traversing, Abstract!Answer, Abstract!PENDING
  <2>4. QED
    BY <2>1, <2>2, <2>3 DEF Abstract!Next, Abstract!GiveUp, Abstract!ABORTED
<1>5. QED
  BY <1>2, <1>3, <1>4

\* Steps of traversal, allocation and reclamation change nothing abstract.
LEMMA RefineInvisible ==
  ASSUME Inv, SafeBuild, NEW t \in Threads,
         \/ (Deref(t) \/ Advance(t) \/ ReadSucc(t)) /\ UNCHANGED expired
         \/ AddNewNode(t) \/ RemoveFound(t) \/ Unlock(t) \/ Free(t)
  PROVE  UNCHANGED Abstract!vars
<1>1. Contents' = Contents
  BY DerefInv, AdvanceInv, ReadSuccInv, AddNewNodeInv, RemoveFoundInv, UnlockInv, FreeInv
<1>2. UNCHANGED <<op, key, obs, result>>
  BY DEF Deref, Advance, ReadSucc, AddNewNode, RemoveFound, Unlock, Free, historyVars
<1>3. /\ Decided(t)' <=> Decided(t)
      /\ \A u \in Threads : u # t => (Decided(u)' <=> Decided(u))
  <2>1. \/ \E l \in {"test", "deref", "update", "succ"} :
             pc' = [pc EXCEPT ![t] = l] /\ pc[t] \in {"test", "deref", "succ"}
        \/ \E l \in {"free", "ret"} :
             pc' = [pc EXCEPT ![t] = l] /\ pc[t] \in {"unlock", "free"}
    BY DEF Deref, Advance, ReadSucc, AddNewNode, RemoveFound, Unlock, Free, Goto, Arrived
  <2>2. QED
    BY <2>1 DEF Decided, Inv, TypeOK
<1>4. \A u \in Threads : reply'[u] = reply[u]
  BY <1>2, <1>3 DEF reply
<1>5. QED
  BY <1>1, <1>2, <1>4, Invisible

\* Calls, retries and returns are those of the abstract set.
LEMMA RefineCallReturn ==
  ASSUME Inv, NEW t \in Threads,
         \/ \E o \in OpNames, k \in Keys : Begin(t, o, k)
         \/ Retry(t) \/ Finish(t)
  PROVE  Abstract!Next
<1>1. CASE \E o \in OpNames, k \in Keys : Begin(t, o, k)
  <2>1. PICK o \in OpNames, k \in Keys : Begin(t, o, k)
    BY <1>1
  <2>2. /\ Contents' = Contents /\ pc[t] = "idle" /\ op[t] = "none"
        /\ pc' = [pc EXCEPT ![t] = "deref"] /\ result' = result
    BY <2>1, BeginInv DEF Begin, Call, StartAt, Goto, Inv, Phases
  <2>3. reply' = reply
    BY <2>2 DEF reply, Decided, Inv, TypeOK
  <2>4. Abstract!Invoke(t, o, k)
    BY <2>1, <2>2, <2>3 DEF Begin, Call, Abstract!Invoke, Abstract!Membership, Membership
  <2>5. QED
    BY <2>4 DEF Abstract!Next, OpNames
<1>2. CASE Retry(t)
  <2>1. /\ Contents' = Contents /\ pc[t] = "ret" /\ result[t] = 2
        /\ pc' = [pc EXCEPT ![t] = "deref"] /\ result' = [result EXCEPT ![t] = 0]
        /\ UNCHANGED <<op, key, obs>>
    BY <1>2, RetryInv DEF Retry, RetriesNow, ABORTED, StartAt, Goto
  <2>2. reply[t] = 2 /\ reply'[t] = -1
    BY <2>1 DEF reply, Decided, Inv, TypeOK, LocalTypeOK
  <2>3. \A u \in Threads : u # t => reply'[u] = reply[u]
    BY <2>1 DEF reply, Decided, Inv, TypeOK, LocalTypeOK
  <2>4. reply' = [reply EXCEPT ![t] = -1]
    BY <2>2, <2>3 DEF reply
  <2>5. Abstract!TryAgain(t)
    BY <2>1, <2>2, <2>4 DEF Abstract!TryAgain, Abstract!ABORTED, Abstract!PENDING
  <2>6. QED
    BY <2>5 DEF Abstract!Next
<1>3. CASE Finish(t)
  <2>1. /\ Contents' = Contents /\ pc[t] = "ret" /\ result[t] \in 0..2
        /\ pc' = [pc EXCEPT ![t] = "idle"] /\ result' = [result EXCEPT ![t] = 0]
        /\ op' = [op EXCEPT ![t] = "none"] /\ key' = [key EXCEPT ![t] = LIST_VAL_MIN]
        /\ obs' = [obs EXCEPT ![t] = {}]
    BY <1>3, FinishInv DEF Finish, Return, Goto, Inv, TypeOK, LocalTypeOK, LocalTypeOK
  <2>2. reply[t] # -1 /\ reply'[t] = -1
    BY <2>1 DEF reply, Decided, Inv, TypeOK, LocalTypeOK
  <2>3. \A u \in Threads : u # t => reply'[u] = reply[u]
    BY <2>1 DEF reply, Decided, Inv, TypeOK, LocalTypeOK
  <2>4. reply' = [reply EXCEPT ![t] = -1]
    BY <2>2, <2>3 DEF reply
  <2>5. Abstract!Return(t)
    BY <2>1, <2>2, <2>4 DEF Abstract!Return, Abstract!PENDING
  <2>6. QED
    BY <2>5 DEF Abstract!Next
<1>4. QED
  BY <1>1, <1>2, <1>3

\* The new table is the empty set.
LEMMA RefineInit ==
  ASSUME Init
  PROVE  Abstract!Init
<1>1. Contents = {}
  BY ConstantFacts DEF Init, ListInit, Contents
<1>2. reply = [t \in Threads |-> -1]
  BY DEF Init, ListInit, reply, Decided
<1>3. QED
  BY <1>1, <1>2 DEF Init, ListInit, Abstract!Init, Abstract!PENDING

\* Every step of the list is a step of the abstract set or a stutter.
LEMMA RefineNext ==
  ASSUME Inv, SafeBuild, [Next]_vars
  PROVE  [Abstract!Next]_(Abstract!vars)
<1>1. ASSUME NEW k \in Keys, HalfFill(k), UNCHANGED expired
      PROVE  [Abstract!Next]_(Abstract!vars)
  <2>1. UNCHANGED <<op, key, obs, pc, result>>
    BY <1>1 DEF HalfFill, FillWith, localVars, historyVars
  <2>2. reply' = reply
    BY <2>1 DEF reply, Decided
  <2>3. \A t \in Threads : op[t] = "none"
    BY <1>1 DEF HalfFill, FillWith, Inv, Phases
  <2>4. Contents' = Contents \/ Contents' = Contents \union {k}
    BY <1>1, HalfFillInv
  <2>5. CASE Contents' = Contents
    BY <2>1, <2>2, <2>5 DEF Abstract!vars
  <2>6. CASE Contents' = Contents \union {k}
    BY <2>1, <2>2, <2>3, <2>6 DEF Abstract!Next, Abstract!Fill
  <2>7. QED
    BY <2>4, <2>5, <2>6
<1>2. CASE \E t \in Threads, o \in OpNames, k \in Keys : Begin(t, o, k)
  BY <1>2, RefineCallReturn
<1>3. ASSUME NEW t \in Threads, Step(t)
      PROVE  [Abstract!Next]_(Abstract!vars)
  BY <1>3, RefineReport, RefineUpdate, RefineInvisible, RefineCallReturn DEF Step
<1>4. CASE Kernel
  <2>1. Contents' = Contents
    BY <1>4, ReclaimInv DEF Kernel
  <2>2. UNCHANGED <<op, key, obs, pc, result>>
    BY <1>4 DEF Kernel, Reclaim, localVars, historyVars
  <2>3. QED
    BY <2>1, <2>2, Invisible DEF reply, Decided
<1>5. CASE EndTime \/ UNCHANGED vars
  <2>1. Contents' = Contents
    BY <1>5, EndTimeInv, StutterInv
  <2>2. UNCHANGED <<op, key, obs, pc, result>>
    BY <1>5 DEF EndTime, vars, listVars, localVars, historyVars
  <2>3. QED
    BY <2>1, <2>2, Invisible DEF reply, Decided
<1>6. QED
  BY <1>1, <1>2, <1>3, <1>4, <1>5 DEF Next

\* The RCX hash table is a linearizable set: each commit of a transaction is
\* the insertion or deletion of one value, every other answer was true during
\* the call, and an aborted update changes nothing.
THEOREM Refinement ==
  ASSUME SafeBuild
  PROVE  Spec => ImplementsSet
<1>1. Init => Abstract!Init
  BY RefineInit
<1>2. Inv /\ [Next]_vars => [Abstract!Next]_(Abstract!vars)
  BY RefineNext
<1>3. QED
  BY <1>1, <1>2, Invariance, PTL DEF Spec, ImplementsSet, Abstract!Spec

-----------------------------------------------------------------------------
\* A removed node keeps its p_next until it is freed: no transaction writes
\* to a node that another one has unlinked, so a reader that stands on such a
\* node always gets back into the list, and no insertion is lost behind it.
THEOREM StaleFrozen ==
  ASSUME SafeBuild
  PROVE  Spec => StaleNodesFrozen
<1> DEFINE Frozen == \A x \in Node : Stale(x) /\ Stale(x)' => link'[x] = link[x]
<1>1. ASSUME Inv, [Next]_vars PROVE [Frozen]_listVars
  <2>1. ASSUME NEW k \in Keys, HalfFill(k) PROVE Frozen
    BY <1>1, <2>1, ConstantFacts
       DEF HalfFill, FillWith, nodeVars, Stale, Live, Inv, TypeOK, NodeTypeOK
  <2>2. ASSUME NEW t \in Threads, AddNewNode(t) PROVE Frozen
    BY <1>1, <2>2, ConstantFacts
       DEF AddNewNode, NewNode, Stale, Inv, TypeOK, NodeTypeOK
  <2>3. ASSUME NEW t \in Threads, AddCommit(t) \/ RemoveCommit(t) PROVE Frozen
    <3>1. Traversing(t) /\ removed[p_prev[t]] = 0
      BY <2>3 DEF Traversing, AddCommit, RemoveCommit, AddValid, RemoveValid
    <3>2. p_prev[t] \in Live
      BY <1>1, <3>1, CursorFacts, NotRemovedIsLive
    <3>3. \A x \in Node : x # p_prev[t] => link'[x] = link[x]
      BY <1>1, <2>3 DEF AddCommit, RemoveCommit, Publish, Unlink, Inv, TypeOK, NodeTypeOK
    <3>4. QED
      BY <3>2, <3>3 DEF Stale, Live
  <2>4. CASE link' = link
    BY <2>4
  <2>5. ASSUME NEW t \in Threads, Step(t), ~AddNewNode(t), ~AddCommit(t), ~RemoveCommit(t)
        PROVE  link' = link
    BY <2>5 DEF Step, Deref, Advance, ReadSucc, ContainsDone, AddPresent, TxAbort,
       RemoveAbsent, RemoveFound, Unlock, Free, Retry, Finish, Return, nodeVars
  <2>6. CASE Kernel \/ EndTime \/ UNCHANGED vars
    BY <2>6 DEF Kernel, Reclaim, EndTime, vars, listVars, nodeVars
  <2>7. ASSUME NEW t \in Threads, NEW o \in OpNames, NEW k \in Keys, Begin(t, o, k)
        PROVE  link' = link
    BY <2>7 DEF Begin, nodeVars
  <2>8. QED
    BY <1>1, <2>1, <2>2, <2>3, <2>4, <2>5, <2>6, <2>7 DEF Next
<1>2. QED
  BY <1>1, Invariance, PTL DEF Spec, StaleNodesFrozen

=============================================================================
