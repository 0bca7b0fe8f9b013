-------------------------- MODULE RcxLfListProofs --------------------------
(***************************************************************************)
(* Machine-checked proofs about RcxLfList, for any number of threads,      *)
(* keys, buckets and nodes and any LF_RETRY_LIMIT.                         *)
(***************************************************************************)
EXTENDS RcxLfList, SortedListProofs

-----------------------------------------------------------------------------
(* RCU sections, in every kernel build *)

\* RCU_READER_LOCK() and RCU_READER_UNLOCK() around one attempt.
LEMMA SectionStep ==
  ASSUME SectionInv, NEW t \in Threads, NEW label \in Labels, Goto(t, label), bench' = bench,
         rcu' \in [Threads -> Int], \A u \in Threads \ {t} : rcu'[u] = rcu[u],
         label = "fallback" => FB1,
         ~FB1 => rcu'[t] = IF label \in {"idle", "enter", "free", "ret"} THEN 0 ELSE 1
  PROVE  SectionInv'
<1> USE DEF SectionInv, Goto
<1>1. /\ pc' \in [Threads -> Labels] /\ rcu' \in [Threads -> Int] /\ pc'[t] = label
      /\ \A u \in Threads \ {t} : pc'[u] = pc[u] /\ rcu'[u] = rcu[u]
  OBVIOUS
<1>2. FB1' <=> FB1
  BY DEF FB1
<1>3. QED
  BY <1>1, <1>2 DEF Sectioned

\* Every step of a thread keeps its section paired.
LEMMA SectionThread ==
  ASSUME SectionInv, NEW t \in Threads, Lock(t) \/ Step(t)
  PROVE  SectionInv'
<1>1. Sectioned(t) /\ pc[t] \in Labels /\ rcu[t] \in Int /\ DOMAIN rcu = Threads
  BY DEF SectionInv
<1>2. CASE EnterHtm(t) \/ EnterLock(t)
  <2>1. CASE rcu' = rcu
    <3>1. EnterLock(t) /\ FB1 /\ Goto(t, "lock") /\ bench' = bench
      BY <1>1, <1>2, <2>1 DEF EnterHtm, EnterLock, rcu_read_lock, driverVars
    <3>2. QED
      BY <2>1, <3>1, SectionStep DEF Labels, SectionInv
  <2>2. CASE rcu' = [rcu EXCEPT ![t] = @ + 1]
    <3>1. \E l \in {"deref", "lock"} : Goto(t, l) /\ bench' = bench
      BY <1>2 DEF EnterHtm, EnterLock, StartAt, driverVars
    <3>2. pc[t] \in {"enter", "fallback"}
      BY <1>2 DEF EnterHtm, EnterLock
    <3>3. ~FB1 => rcu'[t] = 1
      BY <1>1, <2>2, <3>2 DEF Sectioned
    <3>4. rcu' \in [Threads -> Int] /\ \A u \in Threads \ {t} : rcu'[u] = rcu[u]
      BY <2>2 DEF SectionInv
    <3>5. QED
      BY <3>1, <3>3, <3>4, SectionStep DEF Labels
  <2>3. QED
    BY <1>2, <2>1, <2>2 DEF EnterHtm, EnterLock, rcu_read_lock
<1>3. CASE TxAbort(t, "enter") \/ TxAbort(t, "fallback") \/ ReaderUnlock(t)
  <2>1. /\ rcu' = [rcu EXCEPT ![t] = @ - 1] /\ bench' = bench /\ pc[t] \in {"update", "unlock"}
        /\ \E l \in {"enter", "fallback", "free", "ret"} : Goto(t, l) /\ (l = "fallback" => FB1)
    BY <1>3 DEF TxAbort, ReaderUnlock, rcu_read_unlock, driverVars
  <2>2. rcu' \in [Threads -> Int] /\ \A u \in Threads \ {t} : rcu'[u] = rcu[u]
    BY <2>1 DEF SectionInv
  <2>3. ~FB1 => rcu'[t] = 0
    BY <1>1, <2>1 DEF Sectioned
  <2>4. PICK l \in {"enter", "fallback", "free", "ret"} : Goto(t, l) /\ (l = "fallback" => FB1)
    BY <2>1
  <2>5. QED
    BY <2>1, <2>2, <2>3, <2>4, SectionStep DEF Labels
<1>4. CASE WriterUnlock(t)
  BY <1>4 DEF WriterUnlock, listVars, rcuVars, localVars, driverVars, SectionInv, Sectioned, FB1
<1>5. CASE Free(t)
  <2>1. /\ rcu' = rcu /\ bench' = bench /\ pc[t] = "free"
        /\ \E l \in {"ret", "unlock"} : Goto(t, l) /\ (l = "unlock" => FB1)
    BY <1>5 DEF Free, FreesInside, driverVars
  <2>2. QED
    BY <1>1, <2>1, SectionStep DEF Labels, Sectioned, SectionInv
<1>6. CASE Finish(t)
  <2>1. rcu' = rcu /\ bench' = bench /\ pc[t] = "ret" /\ Goto(t, "idle")
    BY <1>6 DEF Finish, Return, driverVars
  <2>2. QED
    BY <1>1, <2>1, SectionStep DEF Labels, Sectioned, SectionInv
<1>7. CASE RemoveCommit(t)
  <2>1. /\ rcu' = rcu /\ bench' = bench /\ pc[t] = "update"
        /\ \E l \in {"free", "unlock"} : Goto(t, l) /\ (l = "free" => FB1)
    BY <1>7 DEF RemoveCommit, Decide, rcuVars, driverVars
  <2>2. QED
    BY <1>1, <2>1, SectionStep DEF Labels, Sectioned, SectionInv
<1>8. CASE \/ Lock(t) \/ Traverse(t) \/ ContainsDone(t) \/ Add(t) \/ NothingToRemove(t)
           \/ RemoveFound(t) \/ RemoveLocked(t) \/ LockSeenFree(t)
  <2>1. /\ rcu' = rcu /\ bench' = bench /\ pc[t] \in {"lock", "deref", "test", "succ", "update", "wait"}
        /\ \E l \in {"deref", "test", "succ", "update", "wait", "unlock"} : Goto(t, l)
    BY <1>8 DEF Lock, StartAt, Traverse, Deref, Advance, ReadSucc, ContainsDone, Add, NothingToAdd,
                AddNewNode, AddCommit, NothingToRemove, RemoveFound, RemoveLocked, LockSeenFree,
                Decide, Arrived, rcuVars, driverVars
  <2>2. QED
    BY <1>1, <2>1, SectionStep DEF Labels, Sectioned, SectionInv
<1>9. QED
  BY <1>2, <1>3, <1>4, <1>5, <1>6, <1>7, <1>8 DEF Step, Remove

\* The RCU sections of lf stay paired in every step.
LEMMA SectionNext ==
  ASSUME SectionInv, [Next]_vars
  PROVE  SectionInv'
<1>1. ASSUME NEW t \in Threads, NEW k \in Keys, BeginLookup(t, k) PROVE SectionInv'
  <2>1. /\ rcu' = [rcu EXCEPT ![t] = @ + 1] /\ bench' = bench /\ pc[t] = "idle" /\ Goto(t, "deref")
    BY <1>1 DEF BeginLookup, Call, StartAt, rcu_read_lock
  <2>2. ~FB1 => rcu'[t] = 1
    BY <2>1 DEF SectionInv, Sectioned
  <2>3. rcu' \in [Threads -> Int] /\ \A u \in Threads \ {t} : rcu'[u] = rcu[u]
    BY <2>1 DEF SectionInv
  <2>4. QED
    BY <2>1, <2>2, <2>3, SectionStep DEF Labels
<1>2. ASSUME NEW t \in Threads, NEW k \in Keys, NEW o \in {"add", "remove"}, BeginUpdate(t, o, k)
      PROVE  SectionInv'
  <2>1. rcu' = rcu /\ bench' = bench /\ pc[t] = "idle" /\ Goto(t, "enter")
    BY <1>2 DEF BeginUpdate, Call, rcuVars
  <2>2. QED
    BY <2>1, SectionStep DEF Labels, Sectioned, SectionInv
<1>3. CASE UNCHANGED <<pc, rcu, bench>>
  BY <1>3 DEF SectionInv, Sectioned, FB1
<1>4. ASSUME NEW k \in Keys, HalfFill(k) PROVE UNCHANGED <<pc, rcu, bench>>
  BY <1>4 DEF HalfFill, FillWith, rcuVars, localVars
<1>5. CASE Kernel \/ UNCHANGED vars
  BY <1>3, <1>5 DEF Kernel, Reclaim, rcuVars, localVars, driverVars, vars, listVars
<1>6. QED
  BY <1>1, <1>2, <1>3, <1>4, <1>5, SectionThread DEF Next

\* Nobody is in an RCU section at the start.
LEMMA SectionInit ==
  ASSUME Init
  PROVE  SectionInv
  BY DEF Init, ListInit, SectionInv, Sectioned, Labels

\* In rcuhtm every RCU_READER_LOCK() has its RCU_READER_UNLOCK(), on the path
\* of the transaction and on that of the lock, whatever the kernel build.
THEOREM SectionsBalanced == Spec => []SectionsPaired
<1>1. ASSUME SectionInv PROVE SectionsPaired
  <2>1. SUFFICES ASSUME ~FB1, NEW t \in Threads
                 PROVE  /\ pc[t] = "idle" => rcu[t] = 0
                        /\ Touches(t) # {} /\ pc[t] # "free" => rcu[t] = 1
    BY DEF SectionsPaired
  <2>2. Sectioned(t)
    BY <1>1 DEF SectionInv
  <2>3. Touches(t) # {} => pc[t] \in {"deref", "test", "succ", "update", "free"}
    BY DEF Touches
  <2>4. QED
    BY <2>1, <2>2, <2>3 DEF Sectioned
<1>2. QED
  BY <1>1, SectionInit, SectionNext, PTL DEF Spec

-----------------------------------------------------------------------------
(* Where a call stands *)

\* A traversal is an RCU reader.
LEMMA ViewerIsReader ==
  ASSUME Protecting, SectionInv, bench \in Benchmarks, NEW t \in Threads, Viewing(t)
  PROVE  Reader(t)
<1>1. CASE CallIsReader
  BY <1>1 DEF CallIsReader, Reader, Viewing
<1>2. CASE PREEMPT_RCU /\ Benchmarks \subseteq {"rcuhtm"}
  <2>1. ~FB1
    BY <1>2 DEF FB1
  <2>2. rcu[t] = 1
    BY <2>1 DEF SectionInv, Sectioned, Viewing
  <2>3. QED
    BY <1>2, <2>2 DEF Reader
<1>3. QED
  BY <1>1, <1>2 DEF Protecting

\* The pointers of a call are nodes that were in its list since it began.
LEMMA CursorFacts ==
  ASSUME Inv, NEW t \in Threads, Viewing(t)
  PROVE  /\ View(t) /\ ViewMarked(t) /\ seen[t] \subseteq Node /\ key[t] \in Keys /\ key[t] \in Int
         /\ op[t] \in {"contains", "add", "remove"} /\ Hash(key[t]) \in Buckets
         /\ p_prev[t] \in seen[t] \ MaxNodes /\ p_prev[t] \in Node
         /\ bkt[p_prev[t]] = Hash(key[t]) /\ val[p_prev[t]] < key[t] /\ val[p_prev[t]] \in Int
         /\ link[p_prev[t]] \in seen[t] /\ bkt[link[p_prev[t]]] = Hash(key[t])
         /\ key[t] < val[link[p_prev[t]]] => "absent" \in obs[t]
         /\ pc[t] # "deref" => /\ p_next[t] \in seen[t] /\ bkt[p_next[t]] = Hash(key[t])
                               /\ p_next[t] \in Node /\ val[p_next[t]] \in Int
                               /\ val[p_next[t]] = key[t] => "present" \in obs[t]
         /\ pc[t] = "test" /\ key[t] < val[p_next[t]] => "absent" \in obs[t]
<1>1. Phase(t) /\ Cursor(t) /\ NodeTypeOK /\ SortedLists /\ Sentinels
  BY DEF Inv, TypeOK, ThreadInv, SortedLists
<1>2. /\ p_prev[t] \in seen[t] /\ bkt[p_prev[t]] = Hash(key[t])
      /\ val[p_prev[t]] < key[t] /\ key[t] \in Keys /\ View(t) /\ ViewMarked(t)
      /\ pc[t] # "deref" => p_next[t] \in seen[t] /\ bkt[p_next[t]] = Hash(key[t])
      /\ pc[t] = "test" /\ key[t] < val[p_next[t]] => "absent" \in obs[t]
      /\ seen[t] \subseteq Node
  BY <1>1 DEF Phase, Cursor, Viewing, Inv, TypeOK, LocalTypeOK
<1>3. op[t] \in {"contains", "add", "remove"}
  BY <1>1 DEF Phase, Viewing, Inv, TypeOK, LocalTypeOK, OpNames
<1>4. p_prev[t] \in Node \ MaxNodes /\ key[t] \in Int /\ Hash(key[t]) \in Buckets
      /\ val[p_prev[t]] \in Int
  BY <1>1, <1>2, NodeValues, ConstantFacts
<1>5. link[p_prev[t]] \in seen[t] /\ bkt[link[p_prev[t]]] = Hash(key[t])
  BY <1>1, <1>2, <1>4, ViewStep
<1>6. key[t] < val[link[p_prev[t]]] => "absent" \in obs[t]
  BY <1>2, <1>4 DEF View, ViewWitnessed
<1>7. pc[t] # "deref" => /\ p_next[t] \in Node /\ val[p_next[t]] \in Int
                         /\ val[p_next[t]] = key[t] => "present" \in obs[t]
  BY <1>1, <1>2, NodeValues DEF View, ViewWitnessed
<1>8. QED
  BY <1>2, <1>3, <1>4, <1>5, <1>6, <1>7

\* What a traversal that stopped has found was true during the call.
LEMMA ArrivedFacts ==
  ASSUME Inv, NEW t \in Threads, NEW o \in OpNames, Arrived(t, o)
  PROVE  /\ Viewing(t) /\ pc[t] = "test" /\ op[t] = o
         /\ Found(t) => "present" \in obs[t]
         /\ ~Found(t) => "absent" \in obs[t] /\ key[t] < val[p_next[t]]
  BY CursorFacts DEF Arrived, Found, Viewing

\* A holder of the lock stands on nodes of the list.
LEMMA LockFacts ==
  ASSUME Inv, NEW t \in Threads, path[t] = "lock", Viewing(t)
  PROVE  /\ rcuspin[Hash(key[t])] = t /\ p_prev[t] \in Live \ MaxNodes /\ link[p_prev[t]] \in Live
         /\ pc[t] # "deref" => p_next[t] \in Live /\ link[p_prev[t]] = p_next[t]
         /\ pc[t] = "update" /\ op[t] = "remove" => link[p_next[t]] = n[t]
<1>1. Holder(t) /\ LockCursor(t)
  BY DEF Inv, ThreadInv
<1>2. p_prev[t] \in Live \ MaxNodes
  BY <1>1, CursorFacts DEF LockCursor
<1>3. link[p_prev[t]] \in Live
  BY <1>2 DEF Inv, SortedLists, Ascending
<1>4. QED
  BY <1>1, <1>2, <1>3 DEF Holder, LockCursor

\* A stale node is marked or has a marked successor: a node of a view with
\* neither mark is still in its list.
LEMMA UnmarkedIsLive ==
  ASSUME Inv, NEW t \in Threads, Viewing(t), NEW x \in seen[t], removed[x] = 0, removed[link[x]] = 0
  PROVE  x \in Live
<1>1. View(t) /\ ViewMarked(t) /\ seen[t] \subseteq Node
  BY CursorFacts
<1>2. ~Stale(x)
  BY <1>1 DEF ViewMarked
<1>3. QED
  BY <1>1, <1>2 DEF View, ViewProtected, Stale, Live

\* An add that passes the validation, or that holds the lock, has neighbours
\* with the value between them.
LEMMA AddReady ==
  ASSUME Inv, NEW t \in Threads, pc[t] = "update", op[t] = "add", path[t] = "htm" => AddValid(t)
  PROVE  InsertReady(t)
<1>1. ThreadInv(t) /\ Inserting(t) /\ Viewing(t) /\ path[t] \in {"htm", "lock"}
  BY DEF Inv, TypeOK, Inserting, Viewing
<1>2. p_prev[t] \in Live /\ link[p_prev[t]] = p_next[t]
  BY <1>1, CursorFacts, UnmarkedIsLive, LockFacts DEF AddValid
<1>3. key[t] < val[p_next[t]]
  BY <1>1 DEF ThreadInv, Cursor
<1>4. QED
  BY <1>1, <1>2, <1>3, CursorFacts DEF InsertReady, ThreadInv, Owns

\* The same for a remove and its three nodes.
LEMMA RemoveReady ==
  ASSUME Inv, NEW t \in Threads, pc[t] = "update", op[t] = "remove", path[t] = "htm" => RemoveValid(t)
  PROVE  DeleteReady(t)
<1>1. ThreadInv(t) /\ Viewing(t) /\ path[t] \in {"htm", "lock"}
  BY DEF Inv, TypeOK, Viewing
<1>2. p_prev[t] \in Live /\ link[p_prev[t]] = p_next[t] /\ link[p_next[t]] = n[t]
  BY <1>1, CursorFacts, UnmarkedIsLive, LockFacts DEF RemoveValid
<1>3. val[p_next[t]] = key[t]
  BY <1>1 DEF ThreadInv, Cursor
<1>4. QED
  BY <1>1, <1>2, <1>3, CursorFacts DEF DeleteReady

\* While a thread may write a bucket, no other thread holds the bucket's lock.
LEMMA WriterExcludes ==
  ASSUME Inv, NEW t \in Threads, pc[t] = "update", path[t] = "htm" => ~Taken(t),
         NEW u \in Threads, u # t, path[u] = "lock", Viewing(u)
  PROVE  Hash(key[u]) # Hash(key[t])
<1>1. rcuspin[Hash(key[u])] = u /\ u # NULL
  BY LockFacts, ThreadsAssumption
<1>2. path[t] = "lock" => rcuspin[Hash(key[t])] = t
  BY LockFacts DEF Viewing
<1>3. path[t] = "htm" => rcuspin[Hash(key[t])] = NULL
  BY DEF Taken
<1>4. QED
  BY <1>1, <1>2, <1>3 DEF Inv, TypeOK

-----------------------------------------------------------------------------
(* What a step of another thread must leave alone *)

\* The step leaves the path and the locks of u alone.
SameFallback(u) == path'[u] = path[u] /\ \A b \in Buckets : rcuspin'[b] = u <=> rcuspin[b] = u

\* The invariant of a thread that does not move.
LEMMA ThreadFrame ==
  ASSUME Inv, NEW u \in Threads, SameThread(u), fill' = fill, bench' = bench, SameFallback(u),
         obs[u] \subseteq obs'[u], Recorded(u)',
         Viewing(u) => /\ View(u)' /\ ViewMarked(u)' /\ seen[u] \subseteq seen'[u]
                       /\ \A y \in seen[u] : val'[y] = val[y] /\ bkt'[y] = bkt[y],
         path[u] = "lock" /\ Viewing(u) =>
           \A y \in Live : bkt[y] = Hash(key[u]) => y \in Live' /\ link'[y] = link[y],
         Inserting(u) => LET x == p_new_node[u] IN
           mem'[x] = mem[x] /\ val'[x] = val[x] /\ link'[x] = link[x] /\ bkt'[x] = bkt[x],
         Freeing(u) => mem'[p_next[u]] = mem[p_next[u]]
  PROVE  ThreadInv(u)'
<1> USE DEF SameThread, SameFallback
<1>1. ThreadInv(u)
  BY DEF Inv
<1>2. Phase(u)'
  BY <1>1 DEF ThreadInv, Phase
<1>3. Owns(u)'
  BY <1>1 DEF ThreadInv, Owns, Inserting, Freeing, FreesInside, FB1
<1>4. Cursor(u)'
  BY <1>1 DEF ThreadInv, Cursor, Viewing
<1>5. Holder(u)'
  <2>1. Viewing(u)' <=> Viewing(u)
    BY DEF Viewing
  <2>2. Viewing(u) => Hash(key[u]) \in Buckets
    BY CursorFacts
  <2>3. QED
    BY <1>1, <2>1, <2>2 DEF ThreadInv, Holder
<1>6. LockCursor(u)'
  <2>1. Viewing(u)' <=> Viewing(u)
    BY DEF Viewing
  <2>2. SUFFICES ASSUME path[u] = "lock", Viewing(u) PROVE LockCursor(u)'
    BY <2>1 DEF LockCursor
  <2>3. /\ p_prev[u] \in Live /\ bkt[p_prev[u]] = Hash(key[u])
        /\ pc[u] # "deref" => p_next[u] \in Live /\ bkt[p_next[u]] = Hash(key[u])
    BY <2>2, CursorFacts, LockFacts
  <2>4. /\ p_prev[u] \in Live' /\ link'[p_prev[u]] = link[p_prev[u]]
        /\ pc[u] # "deref" => link'[p_next[u]] = link[p_next[u]]
    BY <2>2, <2>3
  <2>5. QED
    BY <1>1, <2>2, <2>4 DEF ThreadInv, LockCursor
<1>7. Answered(u)'
  BY <1>1 DEF ThreadInv, Answered, Decided, WasTrue
<1>8. QED
  BY <1>2, <1>3, <1>4, <1>5, <1>6, <1>7 DEF ThreadInv

\* No thread gets a node to insert or to free.
LEMMA AloneFrame ==
  ASSUME Inv, NEW t \in Threads, SameOthers(t), bench' = bench,
         \A u \in Threads \ {t} : path'[u] = path[u],
         Inserting(t)' => Inserting(t) /\ p_new_node'[t] = p_new_node[t],
         Freeing(t)' => Freeing(t) /\ p_next'[t] = p_next[t]
  PROVE  Alone'
<1>1. \A u \in Threads : /\ Inserting(u)' => Inserting(u) /\ p_new_node'[u] = p_new_node[u]
                         /\ Freeing(u)' => Freeing(u) /\ p_next'[u] = p_next[u]
  BY DEF SameOthers, SameThread, Inserting, Freeing, FreesInside, FB1
<1>2. QED
  BY <1>1 DEF Inv, Alone

\* The marks in a view are not cleared, and a node that becomes stale gets one.
LEMMA MarkedFrame ==
  ASSUME Inv, NEW u \in Threads, Viewing(u),
         \A x \in seen'[u] : Stale(x)' =>
            \/ x \in seen[u] /\ Stale(x) /\ link'[x] = link[x]
            \/ removed'[x] = 1
            \/ removed'[link'[x]] = 1,
         \A x \in seen[u] : removed[x] = 1 => removed'[x] = 1
  PROVE  ViewMarked(u)'
<1>1. View(u) /\ ViewMarked(u) /\ seen[u] \subseteq Node
  BY CursorFacts
<1>2. ASSUME NEW x \in seen[u], Stale(x) PROVE link[x] \in seen[u] /\ x \in seen[u]
  <2>1. x \notin MaxNodes
    BY <1>2 DEF Stale, Inv, SortedLists, Sentinels, MaxNodes
  <2>2. QED
    BY <1>1, <1>2, <2>1 DEF View, ViewClosed
<1>3. QED
  BY <1>1, <1>2 DEF ViewMarked

\* A step that writes no node and ends nobody's protection.
LEMMA QuietStep ==
  ASSUME Inv, NEW t \in Threads, UNCHANGED nodeVars, fill' = fill, bench' = bench, SameOthers(t),
         \A u \in Threads \ {t} : seen'[u] = seen[u] /\ obs'[u] = obs[u] /\ SameFallback(u),
         \A u \in Threads \ {t}, x \in Node : u \in gp[x] => u \in gp'[x],
         TypeOK', ThreadInv(t)',
         Inserting(t)' => Inserting(t) /\ p_new_node'[t] = p_new_node[t],
         Freeing(t)' => Freeing(t) /\ p_next'[t] = p_next[t]
  PROVE  Inv' /\ Contents' = Contents
<1> USE DEF nodeVars
<1>1. SortedLists' /\ Live' = Live /\ Contents' = Contents
  BY SortedFrame DEF Inv
<1>2. Alone'
  BY AloneFrame DEF SameFallback
<1>3. ASSUME NEW u \in Threads, u # t PROVE ThreadInv(u)'
  <2>1. ThreadInv(u) /\ SameThread(u) /\ seen'[u] = seen[u] /\ obs'[u] = obs[u] /\ SameFallback(u)
    BY <1>3 DEF Inv, SameOthers
  <2>2. Recorded(u)'
    BY <1>1, <2>1 DEF ThreadInv, Recorded, SameThread
  <2>3. Viewing(u) => View(u)' /\ ViewMarked(u)'
    <3>1. SUFFICES ASSUME Viewing(u) PROVE View(u)' /\ ViewMarked(u)'
      OBVIOUS
    <3>2. View(u) /\ seen[u] \subseteq Node
      BY <3>1, CursorFacts
    <3>3. key'[u] = key[u]
      BY <2>1 DEF SameThread
    <3>4. View(u)'
      BY <1>1, <1>3, <2>1, <3>2, <3>3, ViewFrame
    <3>5. ViewMarked(u)'
      BY <2>1, <3>1, MarkedFrame DEF Stale
    <3>6. QED
      BY <3>4, <3>5
  <2>4. QED
    BY <1>1, <2>1, <2>2, <2>3, ThreadFrame
<1>4. QED
  BY <1>1, <1>2, <1>3 DEF Inv

-----------------------------------------------------------------------------
(* Steps that write no node *)

\* A step after which t has no traversal under way.
LEMMA OutsideStep ==
  ASSUME Inv, NEW t \in Threads, UNCHANGED nodeVars, fill' = fill, bench' = bench, SameOthers(t),
         \A u \in Threads \ {t} : seen'[u] = seen[u] /\ obs'[u] = obs[u] /\ SameFallback(u),
         \A u \in Threads \ {t}, x \in Node : u \in gp[x] => u \in gp'[x],
         TypeOK', ~Viewing(t)', Phase(t)', Holder(t)', Recorded(t)', Answered(t)',
         Freeing(t)' => Freeing(t) /\ p_next'[t] = p_next[t]
  PROVE  Inv' /\ Contents' = Contents
<1>1. ~Inserting(t)' /\ Cursor(t)' /\ LockCursor(t)'
  BY DEF Inserting, Viewing, Cursor, LockCursor
<1>2. Owns(t)'
  BY <1>1 DEF Owns, Inv, ThreadInv, nodeVars
<1>3. QED
  BY <1>1, <1>2, QuietStep DEF ThreadInv

\* A step of a traversal that changes p_prev, p_next or n only.
LEMMA InsideStep ==
  ASSUME Inv, NEW t \in Threads, UNCHANGED nodeVars, fill' = fill, bench' = bench, SameOthers(t),
         UNCHANGED <<gp, op, key, seen, obs, fallbackVars>>, Viewing(t), Viewing(t)'
  PROVE  /\ View(t)' /\ ViewMarked(t)' /\ Holder(t)' /\ Recorded(t)' /\ Answered(t)' /\ ~Freeing(t)'
         /\ \A u \in Threads : SameFallback(u)
<1>1. ThreadInv(t) /\ Live' = Live /\ Contents' = Contents
  BY DEF Inv, Live, Contents, nodeVars
<1>2. View(t)'
  BY <1>1, CursorFacts, ViewFrame DEF nodeVars
<1>3. ViewMarked(t)'
  BY MarkedFrame DEF nodeVars, Stale
<1>4. Holder(t)' /\ Recorded(t)' /\ \A u \in Threads : SameFallback(u)
  BY <1>1 DEF ThreadInv, Holder, Recorded, SameFallback, fallbackVars
<1>5. Answered(t)' /\ ~Freeing(t)'
  BY DEF Answered, Decided, Freeing, Viewing
<1>6. QED
  BY <1>2, <1>3, <1>4, <1>5

\* p_next = RCU_DEREF(p_prev->p_next), and p_prev = p_next while the value is
\* not reached.
LEMMA DerefInv ==
  ASSUME Inv, NEW t \in Threads, (Deref(t) \/ Advance(t)) /\ UNCHANGED fallbackVars
  PROVE  Inv' /\ Contents' = Contents
<1> USE DEF Deref, Advance, Goto, Inv, TypeOK, LocalTypeOK, nodeVars, rcuVars, driverVars,
            historyVars
<1>1. /\ SameOthers(t) /\ UNCHANGED nodeVars /\ fill' = fill /\ bench' = bench
      /\ \/ pc[t] = "deref" /\ pc'[t] = "test" /\ p_next'[t] = link[p_prev[t]] /\ p_prev' = p_prev
         \/ /\ pc[t] = "test" /\ pc'[t] = "deref" /\ p_prev'[t] = p_next[t] /\ p_next' = p_next
            /\ val[p_next[t]] < key[t]
      /\ UNCHANGED <<rcu, gp, op, key, n, p_new_node, result, seen, obs, fallbackVars>>
  BY DEF SameOthers, SameThread
<1>2. ThreadInv(t) /\ Live' = Live /\ Viewing(t) /\ Viewing(t)' /\ ~Inserting(t)'
  BY <1>1 DEF Live, Viewing, Inserting
<1>3. link[p_prev[t]] \in Node
  BY <1>2, CursorFacts
<1>4. TypeOK'
  <2>1. pc' \in [Threads -> Labels]
    BY DEF Labels
  <2>2. p_prev' \in [Threads -> Ptr] /\ p_next' \in [Threads -> Ptr]
    BY <1>3 DEF Ptr
  <2>3. QED
    BY <2>1, <2>2 DEF NodeTypeOK, fallbackVars
<1>5. /\ View(t)' /\ ViewMarked(t)' /\ Holder(t)' /\ Recorded(t)' /\ Answered(t)' /\ ~Freeing(t)'
      /\ \A u \in Threads : SameFallback(u)
  BY <1>1, <1>2, InsideStep
<1>6. ThreadInv(t)'
  <2>1. Phase(t)' /\ Owns(t)'
    BY <1>1, <1>2, <1>5 DEF ThreadInv, Phase, Owns, fallbackVars
  <2>2. Cursor(t)'
    BY <1>1, <1>2, <1>5, CursorFacts DEF Cursor
  <2>3. LockCursor(t)'
    BY <1>1, <1>2, LockFacts DEF LockCursor, fallbackVars
  <2>4. QED
    BY <1>5, <2>1, <2>2, <2>3 DEF ThreadInv
<1>7. QED
  BY <1>1, <1>2, <1>4, <1>5, <1>6, QuietStep

\* A remove that met the value waits for the lock, reads n, and goes on to its update.
LEMMA RemoveReadInv ==
  ASSUME Inv, NEW t \in Threads, RemoveFound(t) \/ (ReadSucc(t) /\ UNCHANGED fallbackVars)
  PROVE  Inv' /\ Contents' = Contents
<1> USE DEF RemoveFound, ReadSucc, Arrived, Found, Goto, Inv, TypeOK, LocalTypeOK,
            nodeVars, rcuVars, driverVars, historyVars
<1>1. /\ SameOthers(t) /\ UNCHANGED nodeVars /\ fill' = fill /\ bench' = bench
      /\ \/ /\ pc[t] = "test" /\ pc'[t] = (IF path[t] = "htm" THEN "wait" ELSE "succ") /\ n' = n
            /\ op[t] = "remove" /\ val[p_next[t]] = key[t]
         \/ pc[t] = "succ" /\ pc'[t] = "update" /\ n'[t] = link[p_next[t]]
      /\ UNCHANGED <<rcu, gp, op, key, p_prev, p_next, p_new_node, result, seen, obs, fallbackVars>>
  BY DEF SameOthers, SameThread
<1>2. /\ ThreadInv(t) /\ Live' = Live /\ op[t] = "remove"
      /\ Viewing(t) /\ Viewing(t)' /\ pc[t] # "deref" /\ ~Inserting(t)'
  BY <1>1 DEF Live, ThreadInv, Phase, Viewing, Inserting
<1>3. val[p_next[t]] = key[t]
  BY <1>1, <1>2 DEF ThreadInv, Cursor
<1>4. /\ View(t) /\ seen[t] \subseteq Node /\ p_next[t] \in seen[t] /\ key[t] \in Keys
      /\ bkt[p_next[t]] = Hash(key[t])
  BY <1>2, CursorFacts
<1>5. p_next[t] \notin MaxNodes
  BY <1>3, <1>4, NodeValues, ConstantFacts DEF SortedLists
<1>6. link[p_next[t]] \in seen[t] /\ link[p_next[t]] \in Node
  BY <1>3, <1>4, <1>5, ViewStep
<1>7. TypeOK'
  <2>1. n' \in [Threads -> Ptr]
    BY <1>6 DEF Ptr
  <2>2. pc' \in [Threads -> Labels]
    BY DEF Labels
  <2>3. ops' = ops
    OBVIOUS
  <2>4. QED
    BY <1>1, <2>1, <2>2, <2>3 DEF NodeTypeOK, fallbackVars
<1>8. /\ View(t)' /\ ViewMarked(t)' /\ Holder(t)' /\ Recorded(t)' /\ Answered(t)' /\ ~Freeing(t)'
      /\ \A u \in Threads : SameFallback(u)
  BY <1>1, <1>2, InsideStep
<1>9. ThreadInv(t)'
  <2>1. Phase(t)' /\ Owns(t)'
    BY <1>1, <1>2, <1>8 DEF ThreadInv, Phase, Owns, fallbackVars
  <2>2. Cursor(t)'
    BY <1>1, <1>2, <1>3, <1>4, <1>6, <1>8, CursorFacts DEF Cursor
  <2>3. LockCursor(t)'
    BY <1>1, <1>2, LockFacts DEF LockCursor, fallbackVars
  <2>4. QED
    BY <1>8, <2>1, <2>2, <2>3 DEF ThreadInv
<1>10. QED
  BY <1>1, <1>2, <1>7, <1>8, <1>9, QuietStep

\* while (spin_is_locked(&p_list->rcuspin)) ;
LEMMA LockSeenFreeInv ==
  ASSUME Inv, NEW t \in Threads, LockSeenFree(t)
  PROVE  Inv' /\ Contents' = Contents
<1> USE DEF LockSeenFree, Goto, Inv, TypeOK, LocalTypeOK, nodeVars, rcuVars, driverVars,
            historyVars
<1>1. /\ SameOthers(t) /\ UNCHANGED nodeVars /\ fill' = fill /\ bench' = bench
      /\ pc[t] = "wait" /\ pc'[t] = IF op[t] = "add" THEN "update" ELSE "succ"
      /\ UNCHANGED <<rcu, gp, op, key, p_prev, p_next, n, p_new_node, result, seen, obs, fallbackVars>>
  BY DEF SameOthers, SameThread
<1>2. /\ ThreadInv(t) /\ Live' = Live /\ op[t] \in {"add", "remove"} /\ path[t] = "htm"
      /\ Viewing(t) /\ Viewing(t)' /\ (Inserting(t)' => Inserting(t))
  BY <1>1 DEF Live, ThreadInv, Phase, Viewing, Inserting
<1>3. TypeOK'
  <2>1. pc' \in [Threads -> Labels]
    BY DEF Labels
  <2>2. QED
    BY <1>1, <2>1 DEF NodeTypeOK, fallbackVars
<1>4. /\ View(t)' /\ ViewMarked(t)' /\ Holder(t)' /\ Recorded(t)' /\ Answered(t)' /\ ~Freeing(t)'
      /\ \A u \in Threads : SameFallback(u)
  BY <1>1, <1>2, InsideStep
<1>5. ThreadInv(t)'
  <2>1. Phase(t)' /\ Owns(t)'
    BY <1>1, <1>2, <1>4 DEF ThreadInv, Phase, Owns, fallbackVars
  <2>2. Cursor(t)'
    BY <1>1, <1>2, <1>4, CursorFacts DEF ThreadInv, Cursor
  <2>3. LockCursor(t)'
    BY <1>1, <1>2 DEF LockCursor, fallbackVars
  <2>4. QED
    BY <1>4, <2>1, <2>2, <2>3 DEF ThreadInv
<1>6. QED
  BY <1>1, <1>2, <1>3, <1>4, <1>5, QuietStep

\* The answers that change nothing.
LEMMA AnswerInv ==
  ASSUME Inv, NEW t \in Threads, ContainsDone(t) \/ NothingToAdd(t) \/ NothingToRemove(t)
  PROVE  Inv' /\ Contents' = Contents
<1> USE DEF ContainsDone, NothingToAdd, NothingToRemove, Decide, Goto, Inv, TypeOK, LocalTypeOK,
            nodeVars, rcuVars, driverVars, historyVars
<1>1. /\ SameOthers(t) /\ UNCHANGED nodeVars /\ fill' = fill /\ bench' = bench
      /\ pc[t] = "test" /\ pc'[t] = "unlock" /\ result'[t] \in {0, 1}
      /\ op[t] = "remove" => result'[t] = 0
      /\ UNCHANGED <<rcu, gp, op, key, p_prev, p_next, n, p_new_node, seen, obs, fallbackVars>>
  BY DEF SameOthers, SameThread, Arrived
<1>2. ThreadInv(t) /\ Live' = Live /\ Contents' = Contents /\ Viewing(t) /\ ~Viewing(t)'
  BY <1>1 DEF Live, Contents, Viewing
<1>3. TypeOK'
  <2>1. pc' \in [Threads -> Labels] /\ result' \in [Threads -> 0..2]
    BY DEF Labels
  <2>2. QED
    BY <1>1, <2>1 DEF NodeTypeOK, fallbackVars
<1>4. WasTrue(t, result[t])'
  BY <1>1, ArrivedFacts DEF WasTrue, Arrived, OpNames
<1>5. Phase(t)' /\ Recorded(t)' /\ Holder(t)' /\ Answered(t)' /\ ~Freeing(t)'
  BY <1>1, <1>2, <1>4 DEF ThreadInv, Phase, Recorded, Holder, Answered, Freeing, fallbackVars
<1>6. \A u \in Threads : SameFallback(u)
  BY <1>1 DEF SameFallback, fallbackVars
<1>7. QED
  BY <1>1, <1>2, <1>3, <1>5, <1>6, OutsideStep

-----------------------------------------------------------------------------
(* Calls, attempts and the lock *)

\* A thread that is in no critical section holds no lock.
LEMMA NoLock ==
  ASSUME Inv, NEW t \in Threads, path[t] = "htm" \/ pc[t] \in {"lock", "free", "ret"}
  PROVE  \A b \in Buckets : rcuspin[b] # t
  BY DEF Inv, ThreadInv, Holder, Viewing

\* An attempt starts at the head of its bucket.
LEMMA StartInv ==
  ASSUME Inv, NEW t \in Threads, NEW k \in Keys, UNCHANGED nodeVars, SameOthers(t),
         bench' = bench, fill' = fill, fill = 0, TypeOK',
         pc'[t] = "deref", op'[t] # "none", key'[t] = k, op'[t] = "contains" => path'[t] = "htm",
         p_prev'[t] = MinNode[Hash(k)], seen'[t] = Live,
         k \in Contents => "present" \in obs'[t],
         k \notin Contents => "absent" \in obs'[t],
         \A u \in Threads \ {t} : seen'[u] = seen[u] /\ obs'[u] = obs[u] /\ SameFallback(u),
         gp' = gp, Holder(t)'
  PROVE  Inv' /\ Contents' = Contents
<1>1. Live' = Live /\ Contents' = Contents /\ NodeTypeOK /\ SortedLists
  BY DEF Live, Contents, nodeVars, Inv, TypeOK
<1>2. /\ MinNode[Hash(k)] \in Live /\ val[MinNode[Hash(k)]] < k
      /\ bkt[MinNode[Hash(k)]] = Hash(k) /\ Live \subseteq Node
  BY <1>1, StartFacts
<1>3. View(t)'
  BY <1>1, ViewStart DEF nodeVars
<1>4. ViewMarked(t)'
  BY <1>1 DEF ViewMarked, Stale, Live
<1>5. Cursor(t)' /\ LockCursor(t)'
  BY <1>1, <1>2, <1>3, <1>4 DEF Cursor, LockCursor, nodeVars
<1>6. ~Inserting(t)' /\ ~Freeing(t)'
  BY DEF Inserting, Freeing
<1>7. Phase(t)' /\ Owns(t)' /\ Answered(t)'
  BY <1>6 DEF Phase, Owns, Answered, Decided
<1>8. Recorded(t)'
  BY <1>1 DEF Recorded
<1>9. ThreadInv(t)'
  BY <1>5, <1>7, <1>8 DEF ThreadInv
<1>10. QED
  BY <1>6, <1>9, QuietStep

\* The types of the variables that a call sets.
LEMMA CallTypes ==
  ASSUME Inv, NEW t \in Threads, NEW o \in OpNames, NEW k \in Keys, Call(t, o, k)
  PROVE  /\ ops' \in [Threads -> 0..MaxOps] /\ obs' \in [Threads -> SUBSET {"present", "absent"}]
         /\ op' \in [Threads -> OpNames \union {"none"}] /\ key' \in [Threads -> Keys \union {LIST_VAL_MIN}]
         /\ op'[t] = o /\ o # "none" /\ key'[t] = k /\ fill = 0 /\ fill' = 0 /\ fill' = fill
         /\ k \in Contents => "present" \in obs'[t]
         /\ k \notin Contents => "absent" \in obs'[t]
         /\ \A u \in Threads \ {t} : obs'[u] = obs[u] /\ op'[u] = op[u] /\ key'[u] = key[u]
         /\ ThreadInv(t) /\ pc[t] = "idle" /\ path[t] = "htm" /\ bench' = bench
<1> USE DEF Call, Inv, TypeOK, LocalTypeOK
<1>1. ops'[t] \in 0..MaxOps
  BY BoundsAssumption
<1>2. ops' \in [Threads -> 0..MaxOps]
  BY <1>1
<1>3. Membership(k) \in {"present", "absent"}
  BY DEF Membership
<1>4. obs' \in [Threads -> SUBSET {"present", "absent"}] /\ obs'[t] = {Membership(k)}
  BY <1>3
<1>5. ThreadInv(t) /\ pc[t] = "idle" /\ path[t] = "htm"
  BY DEF ThreadInv, Phase
<1>6. /\ op' \in [Threads -> OpNames \union {"none"}] /\ key' \in [Threads -> Keys \union {LIST_VAL_MIN}]
      /\ op'[t] = o /\ o # "none" /\ key'[t] = k /\ fill = 0 /\ fill' = 0
      /\ \A u \in Threads \ {t} : obs'[u] = obs[u] /\ op'[u] = op[u] /\ key'[u] = key[u]
  BY DEF OpNames
<1>7. QED
  BY <1>2, <1>4, <1>5, <1>6 DEF Membership

\* rcx_hash_list_contains()
LEMMA BeginLookupInv ==
  ASSUME Inv, NEW t \in Threads, NEW k \in Keys, BeginLookup(t, k)
  PROVE  Inv' /\ Contents' = Contents
<1> USE DEF BeginLookup, rcu_read_lock, StartAt, Goto, Inv, TypeOK, LocalTypeOK, nodeVars
<1>0. "contains" \in OpNames /\ Call(t, "contains", k)
  BY DEF OpNames
<1>1. /\ ops' \in [Threads -> 0..MaxOps] /\ obs' \in [Threads -> SUBSET {"present", "absent"}]
      /\ op' \in [Threads -> OpNames \union {"none"}] /\ key' \in [Threads -> Keys \union {LIST_VAL_MIN}]
      /\ op'[t] = "contains" /\ key'[t] = k /\ fill = 0 /\ fill' = fill /\ fill' = 0 /\ bench' = bench
      /\ k \in Contents => "present" \in obs'[t]
      /\ k \notin Contents => "absent" \in obs'[t]
      /\ \A u \in Threads \ {t} : obs'[u] = obs[u] /\ op'[u] = op[u] /\ key'[u] = key[u]
      /\ pc[t] = "idle" /\ path[t] = "htm"
  BY <1>0, CallTypes
<1>2. /\ SameOthers(t) /\ UNCHANGED nodeVars /\ UNCHANGED <<gp, rcuspin, path, retries>>
      /\ \A u \in Threads \ {t} : seen'[u] = seen[u]
      /\ pc'[t] = "deref" /\ p_prev'[t] = MinNode[Hash(k)] /\ seen'[t] = Live
      /\ UNCHANGED <<p_next, n, p_new_node, result>>
  BY <1>1 DEF SameOthers, SameThread, fallbackVars
<1>3. MinNode[Hash(k)] \in Live /\ Live \subseteq Node
  BY StartFacts
<1>4. TypeOK'
  <2>1. rcu' \in [Threads -> Int] /\ pc' \in [Threads -> Labels]
    BY DEF Labels
  <2>2. p_prev' \in [Threads -> Ptr] /\ seen' \in [Threads -> SUBSET Node]
    BY <1>3 DEF Ptr
  <2>3. QED
    BY <1>1, <1>2, <2>1, <2>2 DEF NodeTypeOK
<1>5. Holder(t)' /\ \A u \in Threads : SameFallback(u)
  <2>1. \A b \in Buckets : rcuspin[b] # t
    BY <1>1, NoLock
  <2>2. QED
    BY <1>1, <1>2, <2>1 DEF Holder, SameFallback
<1> HIDE DEF BeginLookup, Inv
<1>6. QED
  BY <1>1, <1>2, <1>4, <1>5, StartInv

\* rcx_hash_list_lf_add/remove(), rcx_hash_list_fb1_add/remove()
LEMMA BeginUpdateInv ==
  ASSUME Inv, NEW t \in Threads, NEW o \in {"add", "remove"}, NEW k \in Keys, BeginUpdate(t, o, k)
  PROVE  Inv' /\ Contents' = Contents
<1> USE DEF BeginUpdate, Goto, Inv, TypeOK, LocalTypeOK, nodeVars, rcuVars
<1>0. o \in OpNames /\ Call(t, o, k)
  BY DEF OpNames
<1>1. /\ ops' \in [Threads -> 0..MaxOps] /\ obs' \in [Threads -> SUBSET {"present", "absent"}]
      /\ op' \in [Threads -> OpNames \union {"none"}] /\ key' \in [Threads -> Keys \union {LIST_VAL_MIN}]
      /\ op'[t] = o /\ key'[t] = k /\ fill = 0 /\ fill' = fill /\ fill' = 0 /\ bench' = bench
      /\ k \in Contents => "present" \in obs'[t]
      /\ k \notin Contents => "absent" \in obs'[t]
      /\ \A u \in Threads \ {t} : obs'[u] = obs[u] /\ op'[u] = op[u] /\ key'[u] = key[u]
      /\ pc[t] = "idle" /\ path[t] = "htm"
  BY <1>0, CallTypes
<1>2. /\ SameOthers(t) /\ UNCHANGED nodeVars /\ UNCHANGED <<gp, rcuspin>>
      /\ \A u \in Threads \ {t} : seen'[u] = seen[u] /\ path'[u] = path[u]
      /\ pc'[t] = "enter" /\ path'[t] = "htm"
      /\ UNCHANGED <<rcu, p_prev, p_next, n, p_new_node, result, seen>>
  BY <1>1 DEF SameOthers, SameThread
<1>3. Contents' = Contents
  BY DEF Contents
<1>4. TypeOK'
  <2>1. pc' \in [Threads -> Labels] /\ path' \in [Threads -> {"htm", "lock"}]
    BY DEF Labels
  <2>2. retries' \in [Threads -> 0 .. LF_RETRY_LIMIT + 1]
    BY FallbackAssumption
  <2>3. QED
    BY <1>1, <1>2, <2>1, <2>2 DEF NodeTypeOK
<1>5. Holder(t)' /\ \A u \in Threads \ {t} : SameFallback(u)
  <2>1. \A b \in Buckets : rcuspin[b] # t
    BY <1>1, NoLock
  <2>2. QED
    BY <1>1, <1>2, <2>1 DEF Holder, SameFallback
<1>6. Phase(t)' /\ Recorded(t)' /\ Answered(t)' /\ ~Freeing(t)' /\ ~Viewing(t)'
  BY <1>1, <1>2, <1>3 DEF Phase, Recorded, Answered, Decided, Freeing, Viewing
<1> HIDE DEF BeginUpdate, Inv
<1>7. QED
  BY <1>1, <1>2, <1>4, <1>5, <1>6, OutsideStep

\* retry: or htm_path: RCU_READER_LOCK(), and the traversal for a transaction
LEMMA EnterHtmInv ==
  ASSUME Inv, NEW t \in Threads, EnterHtm(t)
  PROVE  Inv' /\ Contents' = Contents
<1> USE DEF EnterHtm, rcu_read_lock, StartAt, Goto, Inv, TypeOK, LocalTypeOK, nodeVars, driverVars
<1>1. /\ SameOthers(t) /\ UNCHANGED nodeVars /\ fill' = fill /\ bench' = bench
      /\ \A u \in Threads \ {t} : seen'[u] = seen[u] /\ obs'[u] = obs[u]
      /\ pc[t] = "enter" /\ pc'[t] = "deref"
      /\ p_prev'[t] = MinNode[Hash(key[t])] /\ seen'[t] = Live
      /\ UNCHANGED <<gp, op, key, p_next, n, p_new_node, result, rcuspin, path, obs, ops>>
  BY DEF SameOthers, SameThread
<1>2. /\ ThreadInv(t) /\ key[t] \in Keys /\ op[t] \in {"add", "remove"} /\ fill = 0
      /\ path[t] = "htm"
  BY <1>1, BoundsAssumption DEF ThreadInv, Phase
<1>3. MinNode[Hash(key[t])] \in Live /\ Live \subseteq Node
  BY <1>2, StartFacts
<1>4. TypeOK'
  <2>1. rcu' \in [Threads -> Int] /\ pc' \in [Threads -> Labels]
    BY DEF Labels
  <2>2. p_prev' \in [Threads -> Ptr] /\ seen' \in [Threads -> SUBSET Node]
    BY <1>3 DEF Ptr
  <2>3. retries' \in [Threads -> 0 .. LF_RETRY_LIMIT + 1]
    <3>1. CASE FB1
      BY <3>1
    <3>2. CASE ~FB1
      <4>1. retries[t] \in 0 .. LF_RETRY_LIMIT + 1 /\ retries[t] <= LF_RETRY_LIMIT
        BY <3>2, FallbackAssumption DEF GivesUpHtm
      <4>2. retries[t] + 1 \in 0 .. LF_RETRY_LIMIT + 1
        BY <4>1, FallbackAssumption
      <4>3. QED
        BY <3>2, <4>2
    <3>3. QED
      BY <3>1, <3>2
  <2>4. QED
    BY <1>1, <2>1, <2>2, <2>3 DEF NodeTypeOK
<1>5. Holder(t)' /\ \A u \in Threads : SameFallback(u)
  <2>1. \A b \in Buckets : rcuspin[b] # t
    BY <1>2, NoLock
  <2>2. QED
    BY <1>1, <1>2, <2>1 DEF Holder, SameFallback
<1>6. /\ key[t] \in Contents => "present" \in obs'[t]
      /\ key[t] \notin Contents => "absent" \in obs'[t]
  BY <1>1, <1>2 DEF ThreadInv, Recorded
<1> HIDE DEF EnterHtm, Inv
<1>7. QED
  BY <1>1, <1>2, <1>4, <1>5, <1>6, StartInv

\* The fallback: RCU_READER_LOCK(), except in fb1_remove
LEMMA EnterLockInv ==
  ASSUME Inv, NEW t \in Threads, EnterLock(t)
  PROVE  Inv' /\ Contents' = Contents
<1> USE DEF EnterLock, rcu_read_lock, Goto, Inv, TypeOK, LocalTypeOK, nodeVars, driverVars, historyVars
<1>1. /\ SameOthers(t) /\ UNCHANGED nodeVars /\ fill' = fill /\ bench' = bench
      /\ pc[t] \in {"enter", "fallback"} /\ pc'[t] = "lock" /\ path'[t] = "lock"
      /\ \A u \in Threads \ {t} : path'[u] = path[u]
      /\ UNCHANGED <<gp, op, key, p_prev, p_next, n, p_new_node, result, rcuspin, seen, obs, ops>>
  BY DEF SameOthers, SameThread
<1>2. ThreadInv(t) /\ Contents' = Contents /\ path[t] = "htm" /\ op[t] \in {"add", "remove"}
  BY <1>1 DEF ThreadInv, Phase, Contents
<1>3. TypeOK'
  <2>1. rcu' \in [Threads -> Int]
    OBVIOUS
  <2>2. pc' \in [Threads -> Labels] /\ path' \in [Threads -> {"htm", "lock"}]
    BY DEF Labels
  <2>3. retries' \in [Threads -> 0 .. LF_RETRY_LIMIT + 1]
    BY FallbackAssumption
  <2>4. QED
    BY <1>1, <2>1, <2>2, <2>3 DEF NodeTypeOK
<1>4. Holder(t)' /\ \A u \in Threads \ {t} : SameFallback(u)
  <2>1. \A b \in Buckets : rcuspin[b] # t
    BY <1>2, NoLock
  <2>2. QED
    BY <1>1, <2>1 DEF Holder, SameFallback, Viewing
<1>5. Phase(t)' /\ Recorded(t)' /\ Answered(t)' /\ ~Freeing(t)' /\ ~Viewing(t)'
  BY <1>1, <1>2 DEF ThreadInv, Phase, Recorded, Answered, Decided, Freeing, Viewing
<1> HIDE DEF EnterLock, Inv
<1>6. QED
  BY <1>1, <1>3, <1>4, <1>5, OutsideStep

\* RCU_WRITER_LOCK(p_list->rcuspin)
LEMMA LockInv ==
  ASSUME Inv, NEW t \in Threads, Lock(t)
  PROVE  Inv' /\ Contents' = Contents
<1> USE DEF Lock, StartAt, Goto, Inv, TypeOK, LocalTypeOK, nodeVars, rcuVars, driverVars
<1>1. /\ SameOthers(t) /\ UNCHANGED nodeVars /\ fill' = fill /\ bench' = bench
      /\ \A u \in Threads \ {t} : seen'[u] = seen[u] /\ obs'[u] = obs[u]
      /\ pc[t] = "lock" /\ pc'[t] = "deref"
      /\ p_prev'[t] = MinNode[Hash(key[t])] /\ seen'[t] = Live
      /\ rcuspin' = [rcuspin EXCEPT ![Hash(key[t])] = t] /\ rcuspin[Hash(key[t])] = NULL
      /\ UNCHANGED <<rcu, gp, op, key, p_next, n, p_new_node, result, retries, path, obs, ops>>
  BY DEF SameOthers, SameThread, Taken
<1>2. /\ ThreadInv(t) /\ key[t] \in Keys /\ op[t] \in {"add", "remove"} /\ fill = 0
      /\ path[t] = "lock"
  BY <1>1, BoundsAssumption DEF ThreadInv, Phase
<1>3. MinNode[Hash(key[t])] \in Live /\ Live \subseteq Node /\ Hash(key[t]) \in Buckets
  BY <1>2, StartFacts, ConstantFacts
<1>4. TypeOK'
  <2>1. pc' \in [Threads -> Labels] /\ rcuspin' \in [Buckets -> Threads \union {NULL}]
    BY DEF Labels
  <2>2. p_prev' \in [Threads -> Ptr] /\ seen' \in [Threads -> SUBSET Node]
    BY <1>3 DEF Ptr
  <2>3. QED
    BY <1>1, <2>1, <2>2 DEF NodeTypeOK
<1>5. Holder(t)' /\ \A u \in Threads \ {t} : SameFallback(u)
  <2>1. \A b \in Buckets : rcuspin[b] # t
    BY <1>1, NoLock
  <2>2. \A b \in Buckets : rcuspin'[b] = IF b = Hash(key[t]) THEN t ELSE rcuspin[b]
    BY <1>1
  <2>3. Holder(t)'
    BY <1>1, <1>2, <1>3, <2>1, <2>2 DEF Holder, Viewing
  <2>4. QED
    BY <1>1, <2>2, <2>3, ThreadsAssumption DEF SameFallback
<1>6. /\ key[t] \in Contents => "present" \in obs'[t]
      /\ key[t] \notin Contents => "absent" \in obs'[t]
  BY <1>1, <1>2 DEF ThreadInv, Recorded
<1> HIDE DEF Lock, Inv
<1>7. QED
  BY <1>1, <1>2, <1>4, <1>5, <1>6, StartInv

\* RCU_WRITER_UNLOCK(p_list->rcuspin)
LEMMA WriterUnlockInv ==
  ASSUME Inv, NEW t \in Threads, WriterUnlock(t)
  PROVE  Inv' /\ Contents' = Contents
<1> USE DEF WriterUnlock, Inv, TypeOK, LocalTypeOK, listVars, nodeVars, rcuVars, localVars,
            driverVars, historyVars
<1>1. /\ SameOthers(t) /\ UNCHANGED nodeVars /\ fill' = fill /\ bench' = bench
      /\ pc[t] = "unlock" /\ rcuspin[Hash(key[t])] = t
      /\ rcuspin' = [rcuspin EXCEPT ![Hash(key[t])] = NULL]
      /\ UNCHANGED <<rcu, gp, pc, op, key, p_prev, p_next, n, p_new_node, result, retries, path, seen,
                     obs, ops>>
  BY DEF SameOthers, SameThread
<1>2. ThreadInv(t) /\ Contents' = Contents /\ ~Viewing(t)' /\ key[t] \in Keys
  BY <1>1 DEF Contents, Viewing, ThreadInv, Phase
<1>3. TypeOK'
  <2>1. rcuspin' \in [Buckets -> Threads \union {NULL}]
    BY <1>1
  <2>2. QED
    BY <1>1, <2>1 DEF NodeTypeOK
<1>4. Holder(t)' /\ \A u \in Threads \ {t} : SameFallback(u)
  <2>1. \A b \in Buckets : rcuspin'[b] = IF b = Hash(key[t]) THEN NULL ELSE rcuspin[b]
    BY <1>1
  <2>2. Holder(t)'
    BY <1>1, <1>2, <2>1, ThreadsAssumption DEF ThreadInv, Holder, Viewing
  <2>3. QED
    BY <1>1, <2>1, <2>2, ThreadsAssumption DEF SameFallback
<1>5. /\ Phase(t)' /\ Recorded(t)' /\ Answered(t)'
      /\ Freeing(t)' => Freeing(t) /\ p_next'[t] = p_next[t]
  BY <1>1, <1>2 DEF ThreadInv, Phase, Recorded, Answered, Decided, WasTrue, Freeing, FreesInside, FB1
<1> HIDE DEF WriterUnlock, Inv
<1>6. QED
  BY <1>1, <1>2, <1>3, <1>4, <1>5, OutsideStep

\* RCU_READER_UNLOCK() ends the protection of the thread's own pointers only.
LEMMA ReaderUnlockGp ==
  ASSUME NodeTypeOK, NEW t \in Threads, rcu_read_unlock(t)
  PROVE  /\ gp' \in [Node -> SUBSET Threads]
         /\ \A u \in Threads \ {t}, x \in Node : u \in gp[x] => u \in gp'[x]
<1>1. gp' = gp \/ gp' = [x \in Node |-> gp[x] \ {t}]
  BY DEF rcu_read_unlock, Quiesce
<1>2. QED
  BY <1>1 DEF NodeTypeOK

\* RCU_READER_UNLOCK() of a call that is done
LEMMA ReaderUnlockInv ==
  ASSUME Inv, NEW t \in Threads, ReaderUnlock(t)
  PROVE  Inv' /\ Contents' = Contents
<1> USE DEF ReaderUnlock, Goto, Inv, TypeOK, LocalTypeOK, nodeVars, driverVars
<1>0. rcu' = [rcu EXCEPT ![t] = @ - 1]
  BY DEF rcu_read_unlock
<1>1. /\ SameOthers(t) /\ UNCHANGED nodeVars /\ fill' = fill /\ bench' = bench
      /\ pc[t] = "unlock" /\ rcuspin[Hash(key[t])] # t
      /\ pc'[t] = IF op[t] = "remove" /\ result[t] = 1 /\ ~FreesInside(t) THEN "free" ELSE "ret"
      /\ \A u \in Threads \ {t} : seen'[u] = seen[u]
      /\ UNCHANGED <<op, key, p_prev, p_next, n, p_new_node, result, rcuspin, retries, path, obs, ops>>
  BY <1>0 DEF SameOthers, SameThread, fallbackVars
<1>2. ThreadInv(t) /\ Contents' = Contents /\ ~Viewing(t)' /\ key[t] \in Keys
  BY <1>1 DEF Contents, Viewing, ThreadInv, Phase
<1>3. /\ gp' \in [Node -> SUBSET Threads]
      /\ \A u \in Threads \ {t}, x \in Node : u \in gp[x] => u \in gp'[x]
  BY ReaderUnlockGp
<1>4. TypeOK'
  <2>1. pc' \in [Threads -> Labels] /\ rcu' \in [Threads -> Int]
    BY <1>0 DEF Labels
  <2>2. seen' \in [Threads -> SUBSET Node]
    OBVIOUS
  <2>3. QED
    BY <1>1, <1>3, <2>1, <2>2 DEF NodeTypeOK
<1>5. Holder(t)' /\ \A u \in Threads \ {t} : SameFallback(u)
  <2>1. \A b \in Buckets : rcuspin[b] # t
    BY <1>1, <1>2 DEF ThreadInv, Holder
  <2>2. QED
    BY <1>1, <1>2, <2>1 DEF Holder, SameFallback
<1>6. /\ Phase(t)' /\ Recorded(t)' /\ Answered(t)'
      /\ Freeing(t)' => Freeing(t) /\ p_next'[t] = p_next[t]
  BY <1>1, <1>2 DEF ThreadInv, Phase, Recorded, Answered, Decided, WasTrue, Freeing, FreesInside, FB1
<1> HIDE DEF ReaderUnlock, Inv
<1>7. QED
  BY <1>1, <1>2, <1>3, <1>4, <1>5, <1>6, OutsideStep

\* The call returns.
LEMMA FinishInv ==
  ASSUME Inv, NEW t \in Threads, Finish(t)
  PROVE  Inv' /\ Contents' = Contents
<1> USE DEF Finish, Return, Quiesce, Goto, Inv, TypeOK, LocalTypeOK, nodeVars, driverVars
<1>1. /\ SameOthers(t) /\ UNCHANGED nodeVars /\ fill' = fill /\ bench' = bench
      /\ \A u \in Threads \ {t} : seen'[u] = seen[u] /\ obs'[u] = obs[u] /\ path'[u] = path[u]
      /\ pc[t] = "ret" /\ pc'[t] = "idle" /\ op'[t] = "none" /\ path'[t] = "htm"
      /\ UNCHANGED <<rcu, rcuspin>>
  BY DEF SameOthers, SameThread
<1>2. /\ \A u \in Threads \ {t}, x \in Node : u \in gp[x] => u \in gp'[x]
      /\ gp' \in [Node -> SUBSET Threads]
  BY DEF NodeTypeOK
<1>3. TypeOK'
  <2>1. key' \in [Threads -> Keys \union {LIST_VAL_MIN}] /\ op' \in [Threads -> OpNames \union {"none"}]
    OBVIOUS
  <2>2. /\ p_prev' \in [Threads -> Ptr] /\ p_next' \in [Threads -> Ptr] /\ n' \in [Threads -> Ptr]
        /\ p_new_node' \in [Threads -> Ptr]
    BY DEF Ptr
  <2>3. /\ pc' \in [Threads -> Labels] /\ result' \in [Threads -> 0..2]
        /\ seen' \in [Threads -> SUBSET Node] /\ obs' \in [Threads -> SUBSET {"present", "absent"}]
    BY DEF Labels
  <2>4. retries' \in [Threads -> 0 .. LF_RETRY_LIMIT + 1] /\ path' \in [Threads -> {"htm", "lock"}]
    BY FallbackAssumption
  <2>5. QED
    BY <1>1, <1>2, <2>1, <2>2, <2>3, <2>4 DEF NodeTypeOK
<1>4. Holder(t)' /\ \A u \in Threads \ {t} : SameFallback(u)
  <2>1. \A b \in Buckets : rcuspin[b] # t
    BY <1>1, NoLock
  <2>2. QED
    BY <1>1, <2>1 DEF Holder, SameFallback
<1>5. Phase(t)' /\ Recorded(t)' /\ Answered(t)' /\ ~Freeing(t)' /\ ~Viewing(t)'
  BY <1>1 DEF Phase, Recorded, Answered, Decided, Freeing, Viewing
<1> HIDE DEF Finish, Inv
<1>6. QED
  BY <1>1, <1>2, <1>3, <1>4, <1>5, OutsideStep

-----------------------------------------------------------------------------
(* Memory *)

\* Memory that nobody else uses is freed.
LEMMA OthersKeepFree ==
  ASSUME Inv, NEW x \in DataNodes, mem' = [mem EXCEPT ![x] = "free"],
         UNCHANGED <<val, link, removed, bkt, fill, bench>>,
         mem[x] \in {"private", "deferred"}, mem[x] = "deferred" => gp[x] = {},
         NEW u \in Threads, SameThread(u), SameFallback(u), seen'[u] = seen[u], obs'[u] = obs[u],
         \A y \in Node : u \in gp[y] => u \in gp'[y],
         Inserting(u) => p_new_node[u] # x
  PROVE  ThreadInv(u)'
<1>1. SortedLists' /\ Contents' = Contents /\ Live' = Live /\ x \in Node
  BY MemFrame, ConstantFacts DEF Inv, TypeOK
<1>2. \A y \in Node : y # x => mem'[y] = mem[y]
  BY DEF Inv, TypeOK, NodeTypeOK
<1>3. ThreadInv(u) /\ key'[u] = key[u] /\ op'[u] = op[u]
  BY DEF Inv, SameThread
<1>4. Recorded(u)'
  BY <1>1, <1>3 DEF ThreadInv, Recorded
<1>5. Viewing(u) => View(u)' /\ ViewMarked(u)'
  <2>1. SUFFICES ASSUME Viewing(u) PROVE View(u)' /\ ViewMarked(u)'
    OBVIOUS
  <2>2. View(u) /\ seen[u] \subseteq Node
    BY <2>1, CursorFacts
  <2>3. x \notin seen[u]
    BY <2>2, NotInView
  <2>4. View(u)'
    BY <1>1, <1>2, <1>3, <2>2, <2>3, ViewFrame
  <2>5. ViewMarked(u)'
    BY <1>2, <2>1, <2>2, <2>3, MarkedFrame DEF Stale
  <2>6. QED
    BY <2>4, <2>5
<1>6. Inserting(u) => mem'[p_new_node[u]] = mem[p_new_node[u]]
  BY <1>2, <1>3, ConstantFacts DEF ThreadInv, Owns
<1>7. Freeing(u) => mem'[p_next[u]] = mem[p_next[u]]
  BY <1>2, <1>3, ConstantFacts DEF ThreadInv, Owns
<1>8. QED
  BY <1>1, <1>4, <1>5, <1>6, <1>7, ThreadFrame

\* A grace period ends: nobody can still stand on the node.
LEMMA ReclaimInv ==
  ASSUME Inv, NEW x \in DataNodes, Reclaim(x), UNCHANGED fallbackVars
  PROVE  Inv' /\ Contents' = Contents
<1> USE DEF Reclaim, Inv, TypeOK, LocalTypeOK, rcuVars, localVars, driverVars, historyVars, fallbackVars
<1>1. /\ \A u \in Threads : SameThread(u) /\ SameFallback(u)
      /\ UNCHANGED <<val, link, removed, bkt, gp, fill, bench, seen, obs, pc, op, p_prev, p_next, n,
                     p_new_node, result, path>>
      /\ mem' = [mem EXCEPT ![x] = "free"] /\ mem[x] = "deferred" /\ gp[x] = {} /\ x \in Node
  BY ConstantFacts DEF SameThread, SameFallback
<1>2. SortedLists' /\ Contents' = Contents
  BY <1>1, MemFrame
<1>3. TypeOK'
  BY DEF NodeTypeOK, MemState
<1>4. Alone'
  BY <1>1 DEF Alone, Inserting, Freeing, FreesInside, FB1
<1>5. ASSUME NEW u \in Threads PROVE ThreadInv(u)'
  <2>1. Inserting(u) => p_new_node[u] # x
    BY <1>1 DEF ThreadInv, Owns
  <2>2. QED
    BY <1>1, <2>1, OthersKeepFree
<1>6. QED
  BY <1>2, <1>3, <1>4, <1>5

\* An abort: RCU_READER_UNLOCK(), kfree() of the new node.
LEMMA TxAbortInv ==
  ASSUME Inv, NEW t \in Threads, NEW label \in {"enter", "fallback"}, TxAbort(t, label)
  PROVE  Inv' /\ Contents' = Contents
<1> USE DEF TxAbort, Goto, Inv, TypeOK, LocalTypeOK, driverVars, fallbackVars
<1> DEFINE x == p_new_node[t]
<1>0. rcu' = [rcu EXCEPT ![t] = @ - 1] /\ rcu_read_unlock(t)
  BY DEF rcu_read_unlock
<1>1. /\ SameOthers(t) /\ fill' = fill /\ bench' = bench
      /\ pc[t] = "update" /\ pc'[t] = label /\ path[t] = "htm"
      /\ mem' = (IF op[t] = "add" THEN [mem EXCEPT ![x] = "free"] ELSE mem)
      /\ \A u \in Threads \ {t} : seen'[u] = seen[u]
      /\ UNCHANGED <<val, link, removed, bkt, op, key, p_prev, p_next, n, p_new_node, result, obs,
                     rcuspin, retries, path, ops>>
  BY <1>0 DEF SameOthers, SameThread
<1>2. ThreadInv(t) /\ ~Viewing(t)' /\ ~Inserting(t)' /\ ~Freeing(t)' /\ Viewing(t)
  BY <1>1 DEF Viewing, Inserting, Freeing
<1>3. key[t] \in Keys /\ op[t] \in {"add", "remove"}
  BY <1>1, <1>2 DEF ThreadInv, Phase
<1>4. op[t] = "add" => Inserting(t) /\ x \in DataNodes /\ x \in Node /\ mem[x] = "private"
  BY <1>1, <1>2, ConstantFacts DEF ThreadInv, Owns, Inserting
<1>5. SortedLists' /\ Contents' = Contents /\ Live' = Live
  <2>1. CASE op[t] = "add"
    BY <1>1, <1>4, <2>1, MemFrame
  <2>2. CASE op[t] # "add"
    BY <1>1, <2>2, SortedFrame
  <2>3. QED
    BY <2>1, <2>2
<1>6. /\ gp' \in [Node -> SUBSET Threads]
      /\ \A u \in Threads \ {t}, y \in Node : u \in gp[y] => u \in gp'[y]
  BY <1>0, ReaderUnlockGp
<1>7. TypeOK'
  <2>1. NodeTypeOK'
    BY <1>1, <1>4, <1>6 DEF NodeTypeOK, MemState
  <2>2. pc' \in [Threads -> Labels] /\ rcu' \in [Threads -> Int]
    BY <1>0 DEF Labels
  <2>3. seen' \in [Threads -> SUBSET Node]
    OBVIOUS
  <2>4. QED
    BY <1>1, <2>1, <2>2, <2>3
<1>8. Alone'
  BY <1>1, <1>2, AloneFrame
<1>9. ASSUME NEW u \in Threads, u # t PROVE ThreadInv(u)'
  <2>1. /\ SameThread(u) /\ ThreadInv(u) /\ seen'[u] = seen[u] /\ obs'[u] = obs[u] /\ SameFallback(u)
        /\ \A y \in Node : u \in gp[y] => u \in gp'[y]
    BY <1>1, <1>6, <1>9 DEF SameOthers, SameFallback
  <2>2. CASE op[t] = "add"
    <3>1. Inserting(u) => p_new_node[u] # x
      BY <1>4, <1>9, <2>2 DEF Alone
    <3>2. mem' = [mem EXCEPT ![x] = "free"] /\ x \in DataNodes /\ mem[x] = "private"
      BY <1>1, <1>4, <2>2
    <3>3. QED
      BY <1>1, <2>1, <3>1, <3>2, OthersKeepFree
  <2>3. CASE op[t] # "add"
    <3>1. mem' = mem /\ key'[u] = key[u] /\ op'[u] = op[u]
      BY <1>1, <2>3
    <3>2. Viewing(u) => View(u)' /\ ViewMarked(u)'
      <4>1. SUFFICES ASSUME Viewing(u) PROVE View(u)' /\ ViewMarked(u)'
        OBVIOUS
      <4>2. View(u)'
        BY <1>1, <1>5, <2>1, <3>1, <4>1, CursorFacts, ViewFrame
      <4>3. ViewMarked(u)'
        BY <1>1, <2>1, <3>1, <4>1, MarkedFrame DEF Stale
      <4>4. QED
        BY <4>2, <4>3
    <3>3. Recorded(u)'
      BY <1>5, <2>1, <3>1 DEF ThreadInv, Recorded
    <3>4. QED
      BY <1>1, <1>5, <2>1, <3>1, <3>2, <3>3, ThreadFrame
  <2>4. QED
    BY <2>2, <2>3
<1>10. ThreadInv(t)'
  <2>1. Holder(t)'
    BY <1>1, <1>2 DEF ThreadInv, Holder
  <2>2. Phase(t)' /\ Recorded(t)' /\ Answered(t)' /\ Owns(t)' /\ Cursor(t)' /\ LockCursor(t)'
    BY <1>1, <1>2, <1>3, <1>5
       DEF ThreadInv, Phase, Recorded, Answered, Decided, Owns, Cursor, LockCursor
  <2>3. QED
    BY <2>1, <2>2 DEF ThreadInv
<1>11. QED
  BY <1>5, <1>7, <1>8, <1>9, <1>10

\* kmalloc() and the initialisation of the new node.
LEMMA AddNewNodeInv ==
  ASSUME Protecting, Inv, NEW t \in Threads, AddNewNode(t)
  PROVE  Inv' /\ Contents' = Contents
<1> USE DEF Goto, Inv, TypeOK, LocalTypeOK, driverVars, historyVars, fallbackVars
<1>1. PICK x \in DataNodes :
        /\ NewNode(t, x, key[t], Hash(key[t]), p_next[t])
        /\ p_new_node' = [p_new_node EXCEPT ![t] = x]
  BY DEF AddNewNode
<1>2. /\ SameOthers(t) /\ fill' = fill /\ bench' = bench /\ ops' = ops
      /\ pc[t] = "test" /\ pc'[t] = (IF path[t] = "htm" THEN "wait" ELSE "update")
      /\ op[t] = "add" /\ p_new_node'[t] = x
      /\ UNCHANGED <<rcu, op, key, p_prev, p_next, n, result, seen, obs, rcuspin, retries, path>>
  BY <1>1 DEF AddNewNode, Arrived, SameOthers, SameThread
<1>3. ThreadInv(t) /\ ~Inserting(t) /\ Inserting(t)' /\ Viewing(t) /\ Viewing(t)'
  BY <1>2 DEF Inserting, Viewing
<1>4. /\ p_next[t] \in Node /\ p_next[t] \in seen[t] /\ p_prev[t] \in seen[t]
      /\ key[t] \in Keys /\ key[t] < val[p_next[t]] /\ View(t) /\ seen[t] \subseteq Node
  BY <1>2, <1>3, CursorFacts, ArrivedFacts DEF AddNewNode, OpNames
<1>5. /\ SortedLists' /\ NodeTypeOK' /\ Contents' = Contents /\ Live' = Live
      /\ mem[x] = "free" /\ x \in Node \ Live /\ Live \subseteq Node
      /\ mem'[x] = "private" /\ val'[x] = key[t] /\ link'[x] = p_next[t] /\ bkt'[x] = Hash(key[t])
      /\ removed'[x] = 0
      /\ \A y \in Node : y # x => /\ mem'[y] = mem[y] /\ val'[y] = val[y] /\ removed'[y] = removed[y]
                                  /\ link'[y] = link[y] /\ bkt'[y] = bkt[y]
      /\ gp' = gp
  BY <1>1, <1>4, NewNodeFacts DEF Protecting, CallIsReader, SafeBuild
<1>6. TypeOK'
  <2>1. pc' \in [Threads -> Labels] /\ p_new_node' \in [Threads -> Ptr]
    BY <1>1, <1>5 DEF Ptr, Labels, AddNewNode
  <2>2. QED
    BY <1>2, <1>5, <2>1
<1>7. \A u \in Threads : SameFallback(u)
  BY <1>2 DEF SameFallback
<1>8. \A u \in Threads : /\ Inserting(u) => p_new_node[u] # x /\ p_new_node[u] \in Node
                         /\ Freeing(u) => p_next[u] # x /\ p_next[u] \in Node
  BY <1>5, ConstantFacts DEF ThreadInv, Owns
<1>9. Alone'
  <2>1. ~Freeing(t)'
    BY <1>2 DEF Freeing
  <2>2. QED
    BY <1>2, <1>8, <2>1 DEF Alone, SameOthers, SameThread, Inserting, Freeing, FreesInside, FB1
<1>10. ASSUME NEW u \in Threads, Viewing(u)
       PROVE  /\ View(u)' /\ ViewMarked(u)' /\ \A y \in seen[u] : val'[y] = val[y] /\ bkt'[y] = bkt[y]
  <2>1. View(u) /\ seen[u] \subseteq Node
    BY <1>10, CursorFacts
  <2>2. x \notin seen[u]
    BY <1>5, <2>1, NotInView
  <2>3. View(u)'
    BY <1>2, <1>5, <2>1, <2>2, ViewFrame
  <2>4. ViewMarked(u)'
    BY <1>2, <1>5, <1>10, <2>1, <2>2, MarkedFrame DEF Stale
  <2>5. QED
    BY <1>5, <2>1, <2>2, <2>3, <2>4
<1>11. ASSUME NEW u \in Threads, u # t PROVE ThreadInv(u)'
  <2>1. ThreadInv(u) /\ SameThread(u) /\ SameFallback(u)
    BY <1>2, <1>7, <1>11 DEF SameOthers
  <2>2. Recorded(u)'
    BY <1>2, <1>5, <2>1 DEF ThreadInv, Recorded
  <2>3. \A y \in Live : y \in Live' /\ link'[y] = link[y]
    BY <1>5
  <2>4. QED
    BY <1>2, <1>5, <1>8, <1>10, <2>1, <2>2, <2>3, ThreadFrame
<1>12. ThreadInv(t)'
  <2>1. Cursor(t)'
    BY <1>2, <1>3, <1>4, <1>10 DEF ThreadInv, Cursor
  <2>2. Owns(t)'
    BY <1>2, <1>5 DEF Owns, Inserting, Freeing
  <2>3. Phase(t)' /\ Answered(t)' /\ Recorded(t)'
    BY <1>2, <1>3, <1>5 DEF ThreadInv, Phase, Answered, Decided, Recorded
  <2>4. Holder(t)'
    BY <1>2, <1>3 DEF ThreadInv, Holder, Viewing
  <2>5. LockCursor(t)'
    <3>1. path[t] = "lock" => p_prev[t] \in Live /\ p_next[t] = link[p_prev[t]]
      BY <1>2, <1>3, LockFacts
    <3>2. QED
      BY <1>2, <1>3, <1>5, <3>1 DEF LockCursor
  <2>6. QED
    BY <2>1, <2>2, <2>3, <2>4, <2>5 DEF ThreadInv
<1>13. QED
  BY <1>5, <1>6, <1>9, <1>11, <1>12

-----------------------------------------------------------------------------
(* The update, in a transaction or under the lock *)

\* RCU_ASSIGN_PTR(p_prev->p_next, p_new_node)
LEMMA AddCommitInv ==
  ASSUME Inv, NEW t \in Threads, AddCommit(t)
  PROVE  Inv' /\ Contents' = Contents \union {key[t]} /\ key[t] \notin Contents
<1> USE DEF AddCommit, Decide, Goto, Inv, TypeOK, LocalTypeOK, rcuVars, driverVars, fallbackVars
<1>1. /\ SameOthers(t) /\ fill' = fill /\ bench' = bench /\ Publish(t)
      /\ pc[t] = "update" /\ pc'[t] = "unlock" /\ op[t] = "add" /\ result'[t] = 1
      /\ UNCHANGED <<val, removed, bkt, rcu, gp, op, key, p_prev, p_next, n, p_new_node, rcuspin,
                     retries, path, ops>>
  BY DEF SameOthers, SameThread
<1>2. /\ InsertReady(t) /\ ThreadInv(t) /\ Viewing(t) /\ ~Viewing(t)' /\ Inserting(t)
      /\ ~Inserting(t)' /\ ~Freeing(t)'
  BY <1>1, AddReady DEF Viewing, Inserting, Freeing
<1> DEFINE p == p_prev[t]
<1> DEFINE x == p_new_node[t]
<1>3. /\ SortedLists' /\ NodeTypeOK' /\ Live' = Live \union {x}
      /\ key[t] \notin Contents /\ Contents' = Contents \union {key[t]}
      /\ x \in Node \ Live /\ p \in Node
      /\ mem'[x] = "live"
      /\ \A y \in Node : y # x => mem'[y] = mem[y]
      /\ \A y \in Node : y # p => link'[y] = link[y]
  BY <1>1, <1>2, PublishFacts
<1>4. p \in Live /\ mem[p] = "live" /\ mem[x] = "private" /\ bkt[p] = Hash(key[t])
  BY <1>2 DEF InsertReady, Live
<1>5. Observe(t, "present") /\ \A u \in Threads : obs[u] \subseteq obs'[u]
  BY <1>1 DEF Publish, Observe
<1>6. \A u \in Threads : seen[u] \subseteq seen'[u] /\ seen'[u] \subseteq seen[u] \union {x}
  BY <1>1 DEF Publish
<1>7. TypeOK'
  <2>1. seen' \in [Threads -> SUBSET Node] /\ obs' \in [Threads -> SUBSET {"present", "absent"}]
    BY <1>1, <1>3 DEF Publish, Observe
  <2>2. pc' \in [Threads -> Labels] /\ result' \in [Threads -> 0..2]
    BY DEF Labels
  <2>3. LocalTypeOK'
    BY <1>1, <1>3, <2>1, <2>2
  <2>4. QED
    BY <1>1, <1>3, <2>2, <2>3
<1>8. \A u \in Threads : SameFallback(u)
  BY <1>1 DEF SameFallback
<1>9. Alone'
  BY <1>1, <1>2, AloneFrame
<1>10. ASSUME NEW u \in Threads PROVE Recorded(u)' /\ (Viewing(u) => View(u)' /\ ViewMarked(u)')
  <2>1. Recorded(u)'
    BY <1>1, <1>3, <1>5, RecordedPublish DEF ThreadInv
  <2>2. Viewing(u) => View(u)' /\ ViewMarked(u)'
    <3>1. SUFFICES ASSUME Viewing(u) PROVE View(u)' /\ ViewMarked(u)'
      OBVIOUS
    <3>2. View(u) /\ seen[u] \subseteq Node /\ key[u] \in Keys /\ op[u] # "none"
      BY <3>1, CursorFacts
    <3>3. View(u)'
      BY <1>1, <1>2, <3>2, ViewPublish
    <3>4. \A y \in seen'[u] : Stale(y)' => y \in seen[u] /\ Stale(y) /\ link'[y] = link[y]
      BY <1>3, <1>4, <1>6, <3>2 DEF Stale
    <3>5. ViewMarked(u)'
      BY <1>1, <3>1, <3>4, MarkedFrame
    <3>6. QED
      BY <3>3, <3>5
  <2>3. QED
    BY <2>1, <2>2
<1>11. ASSUME NEW u \in Threads, u # t PROVE ThreadInv(u)'
  <2>1. ThreadInv(u) /\ SameThread(u) /\ SameFallback(u) /\ obs[u] \subseteq obs'[u]
    BY <1>1, <1>5, <1>8, <1>11 DEF SameOthers
  <2>2. Inserting(u) => LET z == p_new_node[u] IN mem'[z] = mem[z] /\ link'[z] = link[z]
    <3>1. SUFFICES ASSUME Inserting(u)
                   PROVE  p_new_node[u] \in Node /\ p_new_node[u] # x /\ p_new_node[u] # p
      BY <1>3
    <3>2. p_new_node[u] \in Node /\ mem[p_new_node[u]] = "private"
      BY <2>1, <3>1, ConstantFacts DEF ThreadInv, Owns
    <3>3. QED
      BY <1>2, <1>4, <1>11, <3>1, <3>2 DEF Alone
  <2>3. Freeing(u) => mem'[p_next[u]] = mem[p_next[u]]
    BY <1>3, <1>4, <2>1, ConstantFacts DEF ThreadInv, Owns
  <2>4. path[u] = "lock" /\ Viewing(u) =>
          \A y \in Live : bkt[y] = Hash(key[u]) => y \in Live' /\ link'[y] = link[y]
    <3>1. SUFFICES ASSUME path[u] = "lock", Viewing(u)
                   PROVE  \A y \in Live : bkt[y] = Hash(key[u]) => y \in Live' /\ link'[y] = link[y]
      OBVIOUS
    <3>2. Hash(key[u]) # Hash(key[t])
      BY <1>1, <1>11, <3>1, WriterExcludes DEF AddValid
    <3>3. QED
      BY <1>3, <1>4, <3>2 DEF Live
  <2>5. QED
    BY <1>1, <1>6, <1>10, <2>1, <2>2, <2>3, <2>4, ThreadFrame
<1>12. ThreadInv(t)'
  <2>1. Phase(t)' /\ Owns(t)' /\ Answered(t)' /\ Cursor(t)' /\ LockCursor(t)'
    BY <1>1, <1>2 DEF ThreadInv, Phase, Owns, Answered, WasTrue, Cursor, LockCursor
  <2>2. Holder(t)'
    BY <1>1, <1>2 DEF ThreadInv, Holder
  <2>3. QED
    BY <1>10, <2>1, <2>2 DEF ThreadInv
<1>13. QED
  BY <1>3, <1>7, <1>9, <1>11, <1>12

\* RCU_ASSIGN_PTR(p_prev->p_next, n), and a mark: a transaction marks the node
\* that it unlinks, the fallback the node behind it.
LEMMA UnlinkInv ==
  ASSUME Inv, NEW t \in Threads, pc[t] = "update", op[t] = "remove",
         path[t] = "htm" => RemoveValid(t), Unlink(t),
         NEW m \in {p_next[t], n[t]}, removed' = [removed EXCEPT ![m] = 1],
         Decide(t, 1, IF FreesInside(t) THEN "free" ELSE "unlock"),
         UNCHANGED <<val, bkt, rcuVars, driverVars, fallbackVars,
                     op, key, p_prev, p_next, n, p_new_node>>
  PROVE  Inv' /\ Contents' = Contents \ {key[t]} /\ key[t] \in Contents
<1> USE DEF Decide, Goto, Inv, TypeOK, LocalTypeOK, rcuVars, driverVars, fallbackVars
<1> DEFINE p == p_prev[t]
<1> DEFINE x == p_next[t]
<1>1. /\ SameOthers(t) /\ fill' = fill /\ bench' = bench
      /\ pc'[t] = (IF FreesInside(t) THEN "free" ELSE "unlock") /\ result'[t] = 1
      /\ UNCHANGED <<rcu, gp, rcuspin, retries, path, ops>>
  BY DEF SameOthers, SameThread
<1>2. /\ DeleteReady(t) /\ ThreadInv(t) /\ Viewing(t) /\ ~Viewing(t)' /\ ~Inserting(t)' /\ Freeing(t)'
  BY <1>1, RemoveReady DEF Viewing, Inserting, Freeing, FreesInside, FB1
<1>3. /\ p \in Live /\ p \in Node /\ mem[p] = "live" /\ bkt[p] = Hash(key[t])
      /\ x \in DataNodes /\ x \in Live /\ mem[x] = "live" /\ x \in Node /\ bkt[x] = Hash(key[t])
      /\ n[t] \in Node /\ link[x] = n[t] /\ x # p /\ key[t] \in Contents
  BY <1>2, DeleteReadyFacts DEF DeleteReady, Live
<1>4. /\ removed' \in [Node -> {0, 1}] /\ removed'[m] = 1
      /\ \A y \in Node : removed[y] = 1 => removed'[y] = 1
  BY <1>3 DEF NodeTypeOK
<1>5. /\ SortedLists' /\ NodeTypeOK' /\ Live' = Live \ {x}
      /\ Contents' = Contents \ {key[t]}
      /\ mem'[x] = "unlinked"
      /\ \A y \in Node : y # x => mem'[y] = mem[y]
      /\ \A y \in Node : y # p => link'[y] = link[y]
  BY <1>1, <1>2, <1>4, UnlinkFacts
<1>6. Observe(t, "absent") /\ (\A u \in Threads : obs[u] \subseteq obs'[u]) /\ seen' = seen
  BY DEF Unlink, Observe
<1>7. TypeOK'
  <2>1. obs' \in [Threads -> SUBSET {"present", "absent"}]
    BY <1>6 DEF Observe
  <2>2. pc' \in [Threads -> Labels] /\ result' \in [Threads -> 0..2]
    BY DEF Labels
  <2>3. LocalTypeOK'
    BY <1>1, <1>5, <1>6, <2>1, <2>2
  <2>4. QED
    BY <1>1, <1>5, <2>2, <2>3
<1>8. \A u \in Threads : SameFallback(u)
  BY <1>1 DEF SameFallback
<1>9. \A u \in Threads : /\ Inserting(u) => p_new_node[u] # x /\ p_new_node[u] # p /\ p_new_node[u] \in Node
                         /\ Freeing(u) => p_next[u] # x /\ p_next[u] \in Node
  BY <1>3, ConstantFacts DEF ThreadInv, Owns
<1>10. Alone'
  BY <1>1, <1>2, <1>9 DEF Alone, SameOthers, SameThread, Inserting, Freeing, FreesInside, FB1
<1>11. ASSUME NEW u \in Threads PROVE Recorded(u)' /\ (Viewing(u) => View(u)' /\ ViewMarked(u)')
  <2>1. Recorded(u)'
    BY <1>1, <1>5, <1>6, RecordedUnlink DEF ThreadInv
  <2>2. Viewing(u) => View(u)' /\ ViewMarked(u)'
    <3>1. SUFFICES ASSUME Viewing(u) PROVE View(u)' /\ ViewMarked(u)'
      OBVIOUS
    <3>2. View(u) /\ seen[u] \subseteq Node /\ key[u] \in Keys /\ op[u] # "none"
      BY <3>1, CursorFacts
    <3>3. View(u)'
      BY <1>1, <1>2, <1>4, <3>2, ViewUnlink
    <3>4. removed'[x] = 1 \/ removed'[link'[x]] = 1
      BY <1>3, <1>4, <1>5
    <3>5. \A y \in seen[u] : y # x /\ Stale(y)' => Stale(y) /\ link'[y] = link[y]
      BY <1>3, <1>5, <3>2 DEF Stale
    <3>6. ViewMarked(u)'
      BY <1>4, <1>6, <3>1, <3>2, <3>4, <3>5, MarkedFrame
    <3>7. QED
      BY <3>3, <3>6
  <2>3. QED
    BY <2>1, <2>2
<1>12. ASSUME NEW u \in Threads, u # t PROVE ThreadInv(u)'
  <2>1. /\ ThreadInv(u) /\ SameThread(u) /\ SameFallback(u) /\ obs[u] \subseteq obs'[u]
        /\ seen'[u] = seen[u]
    BY <1>1, <1>6, <1>8, <1>12 DEF SameOthers
  <2>2. Inserting(u) => LET z == p_new_node[u] IN mem'[z] = mem[z] /\ link'[z] = link[z]
    BY <1>5, <1>9
  <2>3. Freeing(u) => mem'[p_next[u]] = mem[p_next[u]]
    BY <1>5, <1>9
  <2>4. path[u] = "lock" /\ Viewing(u) =>
          \A y \in Live : bkt[y] = Hash(key[u]) => y \in Live' /\ link'[y] = link[y]
    <3>1. SUFFICES ASSUME path[u] = "lock", Viewing(u)
                   PROVE  \A y \in Live : bkt[y] = Hash(key[u]) => y \in Live' /\ link'[y] = link[y]
      OBVIOUS
    <3>2. Hash(key[u]) # Hash(key[t])
      BY <1>12, <3>1, WriterExcludes DEF RemoveValid
    <3>3. QED
      BY <1>3, <1>5, <3>2 DEF Live
  <2>5. QED
    BY <1>1, <1>11, <2>1, <2>2, <2>3, <2>4, ThreadFrame
<1>13. ThreadInv(t)'
  <2>1. Phase(t)' /\ Owns(t)' /\ Answered(t)' /\ Cursor(t)' /\ LockCursor(t)'
    BY <1>1, <1>2, <1>3, <1>5 DEF ThreadInv, Phase, Owns, Answered, WasTrue, Cursor, LockCursor
  <2>2. Holder(t)'
    BY <1>1, <1>2 DEF ThreadInv, Holder, FreesInside
  <2>3. QED
    BY <1>11, <2>1, <2>2 DEF ThreadInv
<1>14. QED
  BY <1>3, <1>5, <1>7, <1>10, <1>12, <1>13

\* The update of remove, on both paths
LEMMA RemoveCommitInv ==
  ASSUME Inv, NEW t \in Threads, RemoveCommit(t) \/ RemoveLocked(t)
  PROVE  Inv' /\ Contents' = Contents \ {key[t]} /\ key[t] \in Contents
<1>1. /\ pc[t] = "update" /\ op[t] = "remove" /\ Unlink(t)
      /\ UNCHANGED <<val, bkt, rcuVars, driverVars, fallbackVars,
                     op, key, p_prev, p_next, n, p_new_node>>
      /\ path[t] = "htm" => RemoveValid(t)
      /\ Decide(t, 1, IF FreesInside(t) THEN "free" ELSE "unlock")
      /\ \/ removed' = [removed EXCEPT ![p_next[t]] = 1]
         \/ removed' = [removed EXCEPT ![n[t]] = 1]
  BY DEF RemoveCommit, RemoveLocked, FreesInside
<1>2. QED
  BY <1>1, UnlinkInv

\* rcx_free_node(p_next): the grace period waits for every traversal that may
\* still stand on the node.
LEMMA FreeInv ==
  ASSUME Protecting, SectionInv, Inv, NEW t \in Threads, Free(t)
  PROVE  Inv' /\ Contents' = Contents
<1> USE DEF Free, Goto, Inv, TypeOK, LocalTypeOK, driverVars, historyVars, fallbackVars
<1> DEFINE x == p_next[t]
<1>1. /\ SameOthers(t) /\ fill' = fill /\ bench' = bench /\ kfree_rcu(x)
      /\ pc[t] = "free" /\ pc'[t] = (IF FreesInside(t) THEN "unlock" ELSE "ret")
      /\ UNCHANGED <<val, link, removed, bkt, rcu, op, key, p_prev, p_next, n, p_new_node,
                     result, seen, obs, rcuspin, retries, path, ops>>
  BY DEF SameOthers, SameThread
<1>2. /\ ThreadInv(t) /\ op[t] = "remove" /\ Freeing(t)
      /\ x \in DataNodes /\ x \in Node /\ mem[x] = "unlinked"
  BY <1>1, ConstantFacts DEF ThreadInv, Phase, Owns, Freeing
<1>3. ~Viewing(t) /\ ~Viewing(t)' /\ ~Inserting(t)' /\ ~Freeing(t)'
  BY <1>1 DEF Viewing, Inserting, Freeing, FreesInside, FB1
<1>4. mem' = [mem EXCEPT ![x] = "deferred"] /\ gp' = [gp EXCEPT ![x] = {u \in Threads : Reader(u)}]
  BY <1>1 DEF kfree_rcu
<1>5. SortedLists' /\ Contents' = Contents /\ Live' = Live
  BY <1>1, <1>2, <1>4, MemFrame
<1>6. \A y \in Node : y # x => mem'[y] = mem[y]
  BY <1>4 DEF NodeTypeOK
<1>7. TypeOK'
  <2>1. NodeTypeOK'
    BY <1>1, <1>2, <1>4 DEF NodeTypeOK, MemState
  <2>2. pc' \in [Threads -> Labels]
    BY DEF Labels
  <2>3. QED
    BY <1>1, <2>1, <2>2
<1>8. \A u \in Threads : SameFallback(u)
  BY <1>1 DEF SameFallback
<1>9. Alone'
  BY <1>1, <1>3, AloneFrame
<1>10. ASSUME NEW u \in Threads PROVE Recorded(u)' /\ (Viewing(u) => View(u)' /\ ViewMarked(u)')
  <2>1. Recorded(u)'
    BY <1>1, <1>5 DEF ThreadInv, Recorded
  <2>2. Viewing(u) => View(u)' /\ ViewMarked(u)'
    <3>1. SUFFICES ASSUME Viewing(u) PROVE View(u)' /\ ViewMarked(u)'
      OBVIOUS
    <3>2. View(u) /\ seen[u] \subseteq Node
      BY <3>1, CursorFacts
    <3>3. Reader(u)
      BY <3>1, ViewerIsReader
    <3>4. View(u)'
      BY <1>1, <1>2, <3>2, <3>3, ViewDefer
    <3>5. ViewMarked(u)'
      BY <1>1, <1>2, <1>6, <3>1, <3>2, MarkedFrame DEF Stale
    <3>6. QED
      BY <3>4, <3>5
  <2>3. QED
    BY <2>1, <2>2
<1>11. ASSUME NEW u \in Threads, u # t PROVE ThreadInv(u)'
  <2>1. /\ ThreadInv(u) /\ SameThread(u) /\ SameFallback(u) /\ obs'[u] = obs[u]
        /\ seen'[u] = seen[u]
    BY <1>1, <1>8, <1>11 DEF SameOthers
  <2>2. /\ Inserting(u) => p_new_node[u] # x /\ p_new_node[u] \in Node
        /\ Freeing(u) => p_next[u] # x /\ p_next[u] \in Node
    BY <1>2, <1>11, <2>1, ConstantFacts DEF ThreadInv, Owns, Alone
  <2>3. QED
    BY <1>1, <1>5, <1>6, <1>10, <2>1, <2>2, ThreadFrame
<1>12. ThreadInv(t)'
  <2>1. Phase(t)' /\ Owns(t)' /\ Answered(t)' /\ Cursor(t)' /\ LockCursor(t)'
    BY <1>1, <1>2, <1>3 DEF ThreadInv, Phase, Owns, Answered, Decided, WasTrue, Cursor, LockCursor
  <2>2. Holder(t)'
    BY <1>1, <1>2, <1>3 DEF ThreadInv, Holder
  <2>3. QED
    BY <1>10, <2>1, <2>2 DEF ThreadInv
<1>13. QED
  BY <1>5, <1>7, <1>9, <1>11, <1>12

-----------------------------------------------------------------------------
(* The invariant *)

\* The table is half filled while no thread runs.
LEMMA HalfFillInv ==
  ASSUME Inv, NEW k \in Keys, HalfFill(k), UNCHANGED fallbackVars
  PROVE  /\ Inv' /\ \A t \in Threads : op[t] = "none"
         /\ Contents' = Contents \/ Contents' = Contents \union {k}
<1> USE DEF HalfFill, Inv, TypeOK, LocalTypeOK
<1>1. /\ UNCHANGED <<rcu, gp, bench, ops, seen, obs, pc, op, key, p_prev, p_next, n, p_new_node, result,
                     rcuspin, retries, path>>
      /\ fill' = fill - 1 /\ fill > 0 /\ FillWith(k)
  BY DEF FillWith, rcuVars, localVars, historyVars, fallbackVars
<1>2. /\ NodeTypeOK' /\ SortedLists'
      /\ Contents' = Contents \/ Contents' = Contents \union {k}
  BY <1>1, FillFacts
<1>3. \A t \in Threads : pc[t] = "idle" /\ op[t] = "none"
  BY <1>1 DEF ThreadInv, Phase
<1>4. TypeOK'
  <2>1. fill' \in 0..FillOps
    BY <1>1, BoundsAssumption
  <2>2. QED
    BY <1>1, <1>2, <2>1
<1>5. \A u \in Threads : /\ ~Viewing(u)' /\ ~Inserting(u)' /\ ~Freeing(u)'
  BY <1>1, <1>3 DEF Viewing, Inserting, Freeing
<1>6. Alone'
  BY <1>5 DEF Alone
<1>7. ASSUME NEW u \in Threads PROVE ThreadInv(u)'
  <2>1. ThreadInv(u) /\ pc[u] = "idle" /\ op[u] = "none" /\ pc'[u] = "idle"
    BY <1>1, <1>3
  <2>2. \A b \in Buckets : rcuspin[b] # u
    BY <2>1, NoLock DEF ThreadInv, Phase
  <2>3. Holder(u)'
    BY <1>1, <1>5, <2>2 DEF Holder
  <2>4. QED
    BY <1>1, <1>5, <2>1, <2>3
       DEF ThreadInv, Phase, Cursor, LockCursor, Owns, Answered, Decided, Recorded
<1>8. QED
  BY <1>2, <1>3, <1>4, <1>6, <1>7

\* A new table, and nobody at work.
LEMMA InitInv ==
  ASSUME Init
  PROVE  Inv
<1>1. /\ ListInit /\ rcuspin = [b \in Buckets |-> NULL] /\ retries = [t \in Threads |-> 0]
      /\ path = [t \in Threads |-> "htm"]
  BY DEF Init
<1>2. NodeTypeOK /\ LocalTypeOK /\ SortedLists
  BY <1>1, ListInitFacts
<1>3. \A t \in Threads : pc[t] = "idle" /\ op[t] = "none"
  BY <1>1 DEF ListInit
<1>4. TypeOK
  BY <1>1, <1>2, FallbackAssumption DEF TypeOK, Labels, ListInit
<1>5. Alone
  BY <1>3 DEF Alone, Inserting, Freeing
<1>6. ASSUME NEW t \in Threads PROVE ThreadInv(t)
  <2>1. ~Viewing(t) /\ pc[t] = "idle" /\ op[t] = "none" /\ path[t] = "htm"
    BY <1>1, <1>3 DEF Viewing
  <2>2. Holder(t)
    BY <1>1, <2>1, ThreadsAssumption DEF Holder
  <2>3. QED
    BY <2>1, <2>2 DEF ThreadInv, Phase, Cursor, LockCursor,
              Owns, Inserting, Freeing, Answered, Decided, Recorded
<1>7. QED
  BY <1>2, <1>4, <1>5, <1>6 DEF Inv

\* Nothing happens.
LEMMA StutterInv ==
  ASSUME Inv, UNCHANGED vars
  PROVE  Inv'
<1> USE DEF vars, listVars, nodeVars, rcuVars, localVars, driverVars, historyVars, fallbackVars
<1>1. SortedLists' /\ Live' = Live /\ Contents' = Contents
  BY SortedFrame DEF Inv
<1>2. TypeOK' /\ Alone'
  BY DEF Inv, TypeOK, NodeTypeOK, LocalTypeOK, Alone, Inserting, Freeing, FreesInside, FB1
<1>3. ASSUME NEW u \in Threads PROVE ThreadInv(u)'
  <2>1. ThreadInv(u) /\ SameThread(u) /\ SameFallback(u)
    BY DEF Inv, SameThread, SameFallback
  <2>2. Recorded(u)'
    BY <1>1, <2>1 DEF ThreadInv, Recorded
  <2>3. Viewing(u) => View(u)' /\ ViewMarked(u)'
    BY <1>1, CursorFacts, ViewFrame, MarkedFrame DEF Stale
  <2>4. QED
    BY <1>1, <2>1, <2>2, <2>3, ThreadFrame
<1>4. QED
  BY <1>1, <1>2, <1>3 DEF Inv

\* Every step keeps the invariant.
LEMMA NextInv ==
  ASSUME Protecting, SectionInv, Inv, [Next]_vars
  PROVE  Inv'
<1>1. ASSUME NEW k \in Keys, HalfFill(k), UNCHANGED fallbackVars PROVE Inv'
  BY <1>1, HalfFillInv
<1>2. ASSUME NEW t \in Threads, NEW k \in Keys,
             BeginLookup(t, k) \/ \E o \in {"add", "remove"} : BeginUpdate(t, o, k)
      PROVE  Inv'
  BY <1>2, BeginLookupInv, BeginUpdateInv
<1>3. ASSUME NEW t \in Threads, Lock(t) \/ Step(t) PROVE Inv'
  <2>1. CASE Traverse(t) \/ ContainsDone(t) \/ LockSeenFree(t)
    BY <2>1, DerefInv, RemoveReadInv, AnswerInv, LockSeenFreeInv DEF Traverse
  <2>2. CASE Add(t)
    BY <2>2, AnswerInv, AddNewNodeInv, AddCommitInv DEF Add
  <2>3. CASE Remove(t)
    BY <2>3, AnswerInv, RemoveReadInv, RemoveCommitInv, FreeInv DEF Remove
  <2>4. CASE Lock(t) \/ EnterHtm(t) \/ EnterLock(t) \/ TxAbort(t, "enter") \/ TxAbort(t, "fallback")
    BY <2>4, LockInv, EnterHtmInv, EnterLockInv, TxAbortInv
  <2>5. CASE WriterUnlock(t) \/ ReaderUnlock(t) \/ Finish(t)
    BY <2>5, WriterUnlockInv, ReaderUnlockInv, FinishInv
  <2>6. QED
    BY <1>3, <2>1, <2>2, <2>3, <2>4, <2>5 DEF Step
<1>4. ASSUME Kernel PROVE Inv'
  BY <1>4, ReclaimInv DEF Kernel
<1>5. CASE UNCHANGED vars
  BY <1>5, StutterInv
<1>6. QED
  BY <1>1, <1>2, <1>3, <1>4, <1>5 DEF Next

(***************************************************************************)
(* The inductive invariant of the lists with a locking fallback.           *)
(***************************************************************************)
THEOREM Invariance ==
  ASSUME Protecting
  PROVE  Spec => [](Inv /\ SectionInv)
<1>1. Init => Inv /\ SectionInv
  BY InitInv, SectionInit
<1>2. Inv /\ SectionInv /\ [Next]_vars => (Inv /\ SectionInv)'
  BY NextInv, SectionNext
<1>3. QED
  BY <1>1, <1>2, PTL DEF Spec

\* Every variable keeps its type: a lock has one holder, and retries is at
\* most one more than LF_RETRY_LIMIT.
THEOREM TypeCorrect ==
  ASSUME Protecting
  PROVE  Spec => []TypeOK
<1>1. Inv => TypeOK
  BY DEF Inv
<1>2. QED
  BY <1>1, Invariance, PTL

\* No thread dereferences freed memory, neither in a transaction nor under the
\* lock, and no abort leaves a pointer behind.
THEOREM MemorySafe ==
  ASSUME Protecting
  PROVE  Spec => []NoUseAfterFree
<1>1. ASSUME Inv PROVE NoUseAfterFree
  <2>1. SUFFICES ASSUME NEW t \in Threads, NEW x \in Touches(t)
                 PROVE  mem[x] # "free"
    BY DEF NoUseAfterFree
  <2>2. ThreadInv(t) /\ pc[t] \in {"deref", "test", "succ", "update", "free"}
    BY <1>1, <2>1 DEF Inv, Touches
  <2>3. CASE pc[t] = "free"
    <3>1. mem[p_next[t]] = "unlinked"
      BY <2>2, <2>3 DEF ThreadInv, Owns, Freeing
    <3>2. QED
      BY <2>1, <2>3, <3>1 DEF Touches
  <2>4. CASE pc[t] # "free"
    <3>1. Viewing(t)
      BY <2>2, <2>4 DEF Viewing
    <3>2. \A y \in seen[t] : mem[y] # "free"
      BY <1>1, <3>1, CursorFacts DEF View, ViewProtected
    <3>3. p_prev[t] \in seen[t] /\ (pc[t] # "deref" => p_next[t] \in seen[t])
      BY <1>1, <3>1, CursorFacts
    <3>4. pc[t] = "update" => /\ op[t] \in {"add", "remove"}
                              /\ op[t] = "remove" => n[t] \in seen[t]
                              /\ op[t] = "add" => mem[p_new_node[t]] = "private"
      BY <2>2, <3>1 DEF ThreadInv, Phase, Cursor, Owns, Inserting
    <3>5. QED
      BY <2>1, <2>2, <2>4, <3>2, <3>3, <3>4 DEF Touches
  <2>5. QED
    BY <2>3, <2>4
<1>2. QED
  BY <1>1, Invariance, PTL

\* Whoever holds the lock of a bucket finds the list as it read it: no
\* transaction commits there, and no other thread is in the critical section.
THEOREM LockExcludes ==
  ASSUME Protecting
  PROVE  Spec => []LockExcludesHtm
<1>1. ASSUME Inv PROVE LockExcludesHtm
  BY <1>1, LockFacts DEF LockExcludesHtm, Viewing
<1>2. QED
  BY <1>1, Invariance, PTL

\* The marks are enough: a transaction that stands on an unlinked node fails
\* its validation, although remove under the lock marks the wrong node.
THEOREM StaleRejected ==
  ASSUME Protecting
  PROVE  Spec => []StaleViewRejected
<1>1. ASSUME Inv PROVE StaleViewRejected
  <2>1. SUFFICES ASSUME NEW t \in Threads, pc[t] = "update", path[t] = "htm",
                        IF op[t] = "add" THEN AddValid(t) ELSE RemoveValid(t)
                 PROVE  ~Stale(p_prev[t]) /\ ~Stale(p_next[t])
    BY DEF StaleViewRejected
  <2>2. op[t] \in {"add", "remove"}
    BY <1>1, <2>1 DEF Inv, ThreadInv, Phase
  <2>3. p_prev[t] \in Live /\ p_next[t] \in Live
    <3>1. CASE op[t] = "add"
      <4>1. InsertReady(t)
        BY <1>1, <2>1, <3>1, AddReady
      <4>2. QED
        BY <1>1, <4>1 DEF InsertReady, Inv, SortedLists, Ascending
    <3>2. CASE op[t] = "remove"
      <4>1. DeleteReady(t)
        BY <1>1, <2>1, <3>2, RemoveReady
      <4>2. QED
        BY <1>1, <4>1 DEF DeleteReady, Inv, SortedLists, Ascending
    <3>3. QED
      BY <2>2, <3>1, <3>2
  <2>4. QED
    BY <2>3 DEF Live, Stale
<1>2. QED
  BY <1>1, Invariance, PTL

\* The buckets stay sorted and free of duplicates.
THEOREM ListsSorted ==
  ASSUME Protecting
  PROVE  Spec => []SortedLists
<1>1. Inv => SortedLists
  BY DEF Inv
<1>2. QED
  BY <1>1, Invariance, PTL

\* No insertion is lost behind an unlinked node and no removed node comes back,
\* whichever paths the updates take.
THEOREM UpdatesNotLost ==
  ASSUME Protecting
  PROVE  Spec => []NoLostUpdate
<1>1. Inv => NoLostUpdate
  BY NothingLost DEF Inv, TypeOK
<1>2. QED
  BY <1>1, Invariance, PTL

\* Every answer was true at some moment of the call.
THEOREM AnswersLinearizable ==
  ASSUME Protecting
  PROVE  Spec => []Linearizable
<1>1. Inv => Linearizable
  BY DEF Inv, ThreadInv, Answered, Linearizable
<1>2. QED
  BY <1>1, Invariance, PTL

\* A node is handed to rcx_free_node() once, by the thread that unlinked it.
THEOREM NodesFreedOnce ==
  ASSUME Protecting
  PROVE  Spec => []FreedOnce
<1>1. ASSUME Inv PROVE FreedOnce
  BY <1>1 DEF Inv, ThreadInv, Owns, Freeing, FreedOnce
<1>2. QED
  BY <1>1, Invariance, PTL

-----------------------------------------------------------------------------
(***************************************************************************)
(* The lists with a locking fallback implement the abstract set.           *)
(***************************************************************************)

\* Answers that change nothing are answers of the abstract set.
LEMMA RefineReport ==
  ASSUME Inv, NEW t \in Threads, ContainsDone(t) \/ NothingToAdd(t) \/ NothingToRemove(t)
  PROVE  Abstract!Next
<1>1. Contents' = Contents
  BY AnswerInv
<1>2. /\ pc[t] = "test" /\ ~Decided(t) /\ Decided(t)' /\ UNCHANGED <<op, key, obs>>
      /\ \A u \in Threads : u # t => pc'[u] = pc[u] /\ result'[u] = result[u]
      /\ op[t] # "none"
  BY DEF ContainsDone, NothingToAdd, NothingToRemove, Arrived, Decide, Goto, Decided,
         historyVars, Inv, TypeOK, LocalTypeOK
<1>3. CASE ContainsDone(t)
  <2> DEFINE r == IF Found(t) THEN 1 ELSE 0
  <2>1. Arrived(t, "contains") /\ op[t] = "contains" /\ result'[t] = r
    BY <1>3 DEF ContainsDone, Arrived, Decide, Inv, TypeOK, LocalTypeOK
  <2>2. Abstract!Answer(t, r)
    BY <1>2, <2>1, AnswerStep
  <2>3. IF Found(t) THEN "present" \in obs[t] ELSE "absent" \in obs[t]
    BY <2>1, ArrivedFacts DEF OpNames
  <2>4. QED
    BY <1>1, <1>2, <2>1, <2>2, <2>3, ReportStep
<1>4. CASE NothingToAdd(t) \/ NothingToRemove(t)
  <2>1. /\ result'[t] = 0
        /\ \/ Arrived(t, "add") /\ op[t] = "add" /\ Found(t)
           \/ Arrived(t, "remove") /\ op[t] = "remove" /\ ~Found(t)
    BY <1>4 DEF NothingToAdd, NothingToRemove, Arrived, Decide, Inv, TypeOK, LocalTypeOK
  <2>2. Abstract!Answer(t, 0)
    BY <1>2, <2>1, AnswerStep
  <2>3. \/ op[t] = "add" /\ "present" \in obs[t]
        \/ op[t] = "remove" /\ "absent" \in obs[t]
    BY <2>1, ArrivedFacts DEF OpNames
  <2>4. QED
    BY <1>1, <1>2, <2>2, <2>3, ReportStep
<1>5. QED
  BY <1>3, <1>4

\* The commit, or the write under the lock, is the linearization point.
LEMMA RefineUpdate ==
  ASSUME Inv, NEW t \in Threads, AddCommit(t) \/ RemoveCommit(t) \/ RemoveLocked(t)
  PROVE  Abstract!Next
<1>1. CASE AddCommit(t)
  <2>1. Contents' = Contents \union {key[t]} /\ key[t] \notin Contents
    BY <1>1, AddCommitInv
  <2>2. /\ op[t] = "add" /\ ~Decided(t) /\ Decided(t)' /\ UNCHANGED <<op, key>> /\ result'[t] = 1
        /\ \A u \in Threads : u # t => pc'[u] = pc[u] /\ result'[u] = result[u]
        /\ Observe(t, "present")
    BY <1>1 DEF AddCommit, Publish, Decide, Goto, Decided, Inv, TypeOK, LocalTypeOK
  <2>3. Abstract!Answer(t, 1)
    BY <2>2, AnswerStep
  <2>4. QED
    BY <2>1, <2>2, <2>3, InsertStep
<1>2. CASE RemoveCommit(t) \/ RemoveLocked(t)
  <2>1. Contents' = Contents \ {key[t]} /\ key[t] \in Contents
    BY <1>2, RemoveCommitInv
  <2>2. /\ op[t] = "remove" /\ ~Decided(t) /\ Decided(t)' /\ UNCHANGED <<op, key>> /\ result'[t] = 1
        /\ \A u \in Threads : u # t => pc'[u] = pc[u] /\ result'[u] = result[u]
        /\ Observe(t, "absent")
    BY <1>2 DEF RemoveCommit, RemoveLocked, Unlink, Decide, Goto, Decided, Inv, TypeOK, LocalTypeOK
  <2>3. Abstract!Answer(t, 1)
    BY <2>2, AnswerStep
  <2>4. QED
    BY <2>1, <2>2, <2>3, DeleteStep
<1>3. QED
  BY <1>1, <1>2

\* Calls and returns are calls and returns of the abstract set.
LEMMA RefineCallReturn ==
  ASSUME Inv, NEW t \in Threads,
         \/ \E k \in Keys : \/ BeginLookup(t, k)
                            \/ \E o \in {"add", "remove"} : BeginUpdate(t, o, k)
         \/ Finish(t)
  PROVE  Abstract!Next
<1>1. ASSUME NEW k \in Keys, BeginLookup(t, k) PROVE Abstract!Next
  <2>1. Contents' = Contents
    BY <1>1, BeginLookupInv
  <2>2. /\ Call(t, "contains", k) /\ pc[t] = "idle" /\ result' = result /\ ~Decided(t)' /\ ~Decided(t)
        /\ \A u \in Threads : u # t => pc'[u] = pc[u]
    BY <1>1 DEF BeginLookup, Call, StartAt, Goto, Decided, Inv, TypeOK
  <2>3. op[t] = "none"
    BY <2>2 DEF Inv, ThreadInv, Phase
  <2>4. QED
    BY <2>1, <2>2, <2>3, CallStep DEF OpNames
<1>2. ASSUME NEW k \in Keys, NEW o \in {"add", "remove"}, BeginUpdate(t, o, k) PROVE Abstract!Next
  <2>1. Contents' = Contents
    BY <1>2, BeginUpdateInv
  <2>2. /\ Call(t, o, k) /\ pc[t] = "idle" /\ result' = result /\ ~Decided(t)' /\ ~Decided(t)
        /\ \A u \in Threads : u # t => pc'[u] = pc[u]
    BY <1>2 DEF BeginUpdate, Call, Goto, Decided, Inv, TypeOK
  <2>3. op[t] = "none" /\ o \in OpNames
    BY <2>2 DEF Inv, ThreadInv, Phase, OpNames
  <2>4. QED
    BY <2>1, <2>2, <2>3, CallStep
<1>3. CASE Finish(t)
  <2>1. Contents' = Contents
    BY <1>3, FinishInv
  <2>2. Return(t) /\ pc'[t] = "idle" /\ \A u \in Threads : u # t => pc'[u] = pc[u]
    BY <1>3 DEF Finish, Return, Goto, Inv, TypeOK
  <2>3. QED
    BY <2>1, <2>2, ReturnStep DEF Inv, TypeOK
<1>4. QED
  BY <1>1, <1>2, <1>3

\* The other steps of a call, the aborts and the fallback among them, are invisible.
LEMMA RefineInvisible ==
  ASSUME Protecting, SectionInv, Inv, NEW t \in Threads,
         \/ EnterHtm(t) \/ EnterLock(t) \/ Lock(t) \/ Traverse(t) \/ AddNewNode(t)
         \/ RemoveFound(t) \/ LockSeenFree(t) \/ Free(t) \/ WriterUnlock(t) \/ ReaderUnlock(t)
         \/ TxAbort(t, "enter") \/ TxAbort(t, "fallback")
  PROVE  UNCHANGED Abstract!vars
<1>1. Contents' = Contents
  BY EnterHtmInv, EnterLockInv, LockInv, DerefInv, RemoveReadInv, AddNewNodeInv, LockSeenFreeInv,
     FreeInv, WriterUnlockInv, ReaderUnlockInv, TxAbortInv DEF Traverse
<1>2. UNCHANGED <<op, key, obs, result>>
  BY DEF EnterHtm, EnterLock, Lock, Traverse, Deref, Advance, ReadSucc, AddNewNode, RemoveFound,
         LockSeenFree, Free, WriterUnlock, ReaderUnlock, TxAbort, historyVars, listVars, localVars
<1>3. (Decided(t)' <=> Decided(t)) /\ \A u \in Threads : u # t => pc'[u] = pc[u]
  <2>1. CASE \/ EnterHtm(t) \/ EnterLock(t) \/ Lock(t) \/ Traverse(t) \/ AddNewNode(t)
             \/ RemoveFound(t) \/ LockSeenFree(t) \/ TxAbort(t, "enter") \/ TxAbort(t, "fallback")
    <3>1. /\ pc[t] \in {"enter", "fallback", "lock", "deref", "test", "succ", "wait", "update"}
          /\ \E l \in {"enter", "fallback", "lock", "deref", "test", "succ", "wait", "update"} : Goto(t, l)
      BY <2>1 DEF EnterHtm, EnterLock, Lock, StartAt, Traverse, Deref, Advance, ReadSucc, AddNewNode,
                  RemoveFound, LockSeenFree, TxAbort, Arrived
    <3>2. QED
      BY <3>1 DEF Goto, Decided, Inv, TypeOK
  <2>2. CASE Free(t) \/ ReaderUnlock(t)
    <3>1. /\ pc[t] \in {"free", "unlock"}
          /\ \E l \in {"free", "unlock", "ret"} : Goto(t, l)
      BY <2>2 DEF Free, ReaderUnlock
    <3>2. QED
      BY <3>1 DEF Goto, Decided, Inv, TypeOK
  <2>3. CASE WriterUnlock(t)
    BY <2>3 DEF WriterUnlock, listVars, localVars, Decided
  <2>4. QED
    BY <2>1, <2>2, <2>3
<1>4. QED
  BY <1>1, <1>2, <1>3, SameReply, Invisible

\* Every step of the list is a step of the abstract set or invisible.
LEMMA RefineNext ==
  ASSUME Protecting, SectionInv, Inv, [Next]_vars
  PROVE  [Abstract!Next]_(Abstract!vars)
<1>1. ASSUME NEW k \in Keys, HalfFill(k), UNCHANGED fallbackVars PROVE [Abstract!Next]_(Abstract!vars)
  BY <1>1, HalfFillInv, FillStep DEF HalfFill
<1>2. ASSUME NEW t \in Threads, NEW k \in Keys,
             BeginLookup(t, k) \/ \E o \in {"add", "remove"} : BeginUpdate(t, o, k)
      PROVE  [Abstract!Next]_(Abstract!vars)
  BY <1>2, RefineCallReturn
<1>3. ASSUME NEW t \in Threads, Lock(t) \/ Step(t) PROVE [Abstract!Next]_(Abstract!vars)
  BY <1>3, RefineReport, RefineUpdate, RefineInvisible, RefineCallReturn DEF Step, Add, Remove
<1>4. CASE Kernel
  <2>1. Contents' = Contents
    BY <1>4, ReclaimInv DEF Kernel
  <2>2. UNCHANGED <<op, key, obs, pc, result>>
    BY <1>4 DEF Kernel, Reclaim, localVars, historyVars
  <2>3. QED
    BY <2>1, <2>2, Invisible DEF reply, Decided
<1>5. CASE UNCHANGED vars
  <2>1. Contents' = Contents
    BY <1>5, SortedFrame DEF Inv, vars, listVars, nodeVars
  <2>2. UNCHANGED <<op, key, obs, pc, result>>
    BY <1>5 DEF vars, listVars, localVars, historyVars
  <2>3. QED
    BY <2>1, <2>2, Invisible DEF reply, Decided
<1>6. QED
  BY <1>1, <1>2, <1>3, <1>4, <1>5 DEF Next

\* The hash tables of rcuhtm and hwa are linearizable sets: an update takes
\* effect when its transaction commits or when it writes p_prev->p_next under
\* the lock, every other answer was true during the call, and aborts and the
\* change of path are invisible.
THEOREM Refinement ==
  ASSUME Protecting
  PROVE  Spec => ImplementsSet
<1>1. Init => Abstract!Init
  BY AbstractInit DEF Init
<1>2. Inv /\ SectionInv /\ [Next]_vars => [Abstract!Next]_(Abstract!vars)
  BY RefineNext
<1>3. QED
  BY <1>1, <1>2, Invariance, PTL DEF Spec, ImplementsSet, Abstract!Spec
=============================================================================
