-------------------------- MODULE SortedListProofs --------------------------
(***************************************************************************)
(* Machine-checked facts about SortedList that the proofs of its variants  *)
(* share: what the steps on nodes do to the sorted lists, what a traversal *)
(* outside any lock may still rely on after such a step of another thread, *)
(* and which step of the abstract set each kind of step is.                *)
(***************************************************************************)
EXTENDS SortedList, FiniteSetTheorems, WellFoundedInduction, TLAPS

\* Sentinels and data nodes are different, and every value has a bucket.
LEMMA ConstantFacts ==
  /\ \A b \in Buckets : MinNode[b] \in Node /\ MaxNode[b] \in Node
  /\ \A b \in Buckets : MinNode[b] \in MinNodes /\ MaxNode[b] \in MaxNodes
  /\ MinNodes \subseteq Node /\ MaxNodes \subseteq Node /\ DataNodes \subseteq Node
  /\ MinNodes \intersect MaxNodes = {}
  /\ DataNodes \intersect (MinNodes \union MaxNodes) = {}
  /\ 0 \in Buckets
  /\ \A k \in Keys : /\ Hash(k) \in Buckets /\ k \in Int
                     /\ LIST_VAL_MIN < k /\ k < LIST_VAL_MAX
  /\ LIST_VAL_MIN \in Int /\ LIST_VAL_MAX \in Int /\ LIST_VAL_MIN < LIST_VAL_MAX
  /\ NULL \notin Node
<1>1. \A k \in Keys : Hash(k) \in Buckets
  BY BucketsAssumption, ValuesAssumption DEF Hash, Buckets
<1>2. 0 \in Buckets
  BY BucketsAssumption DEF Buckets
<1>3. \A k \in Keys : k \in Int /\ LIST_VAL_MIN < k /\ k < LIST_VAL_MAX
  BY ValuesAssumption
<1>4. QED
  BY <1>1, <1>2, <1>3, ValuesAssumption, SentinelsAssumption DEF MinNodes, MaxNodes, Node

\* Values are integers, and only data nodes hold values of the benchmark.
LEMMA NodeValues ==
  ASSUME NodeTypeOK, Sentinels
  PROVE  \A x \in Node : /\ val[x] \in Int
                         /\ LIST_VAL_MIN <= val[x] /\ val[x] <= LIST_VAL_MAX
                         /\ val[x] \in Keys => x \in DataNodes
                         /\ x \in MaxNodes => val[x] = LIST_VAL_MAX
                         /\ x \in MinNodes => val[x] = LIST_VAL_MIN
<1>1. \A x \in MaxNodes : val[x] = LIST_VAL_MAX
  BY DEF Sentinels, MaxNodes
<1>2. \A x \in MinNodes : val[x] = LIST_VAL_MIN
  BY DEF Sentinels, MinNodes
<1>3. \A x \in Node : val[x] \in Keys \union {LIST_VAL_MIN, LIST_VAL_MAX}
  BY DEF NodeTypeOK
<1>4. QED
  BY <1>1, <1>2, <1>3, ConstantFacts DEF Node

\* Steps that write no node leave everything about the lists alone.
LEMMA SortedFrame ==
  ASSUME SortedLists, UNCHANGED <<val, link, bkt, mem>>
  PROVE  SortedLists' /\ Contents' = Contents /\ Live' = Live
<1>1. Live' = Live /\ Contents' = Contents
  BY DEF Live, Contents
<1>2. Sentinels' /\ Ascending' /\ NoneBetween' /\ NoDuplicate' /\ InItsBucket'
  BY <1>1 DEF SortedLists, Sentinels, Ascending, NoneBetween, NoDuplicate, InItsBucket
<1>3. QED
  BY <1>1, <1>2 DEF SortedLists

\* Memory that changes hands outside the lists does not change them.
LEMMA MemFrame ==
  ASSUME NodeTypeOK, SortedLists, NEW x \in Node, NEW m, mem[x] # "live", m # "live",
         mem' = [mem EXCEPT ![x] = m], UNCHANGED <<val, link, bkt>>
  PROVE  SortedLists' /\ Contents' = Contents /\ Live' = Live
<1>1. Live' = Live
  BY DEF Live, NodeTypeOK
<1>2. Contents' = Contents
  BY ConstantFacts DEF Contents, NodeTypeOK
<1>3. \A b \in Buckets : MinNode[b] # x /\ MaxNode[b] # x
  BY DEF SortedLists, Sentinels
<1>4. Sentinels'
  BY <1>3, ConstantFacts DEF SortedLists, Sentinels, NodeTypeOK
<1>5. InItsBucket'
  BY ConstantFacts DEF SortedLists, InItsBucket, NodeTypeOK
<1>6. Ascending' /\ NoneBetween' /\ NoDuplicate'
  BY <1>1 DEF SortedLists, Ascending, NoneBetween, NoDuplicate
<1>7. QED
  BY <1>1, <1>2, <1>4, <1>5, <1>6 DEF SortedLists

\* A traversal that starts has seen exactly the nodes of the lists, whose
\* order makes its key's membership visible at every gap.
LEMMA FreshTraversal ==
  ASSUME NodeTypeOK, SortedLists, NEW k \in Keys, NEW x \in Live, bkt[x] = Hash(k)
  PROVE  /\ val[x] = k => k \in Contents
         /\ x \notin MaxNodes /\ val[x] < k /\ k < val[link[x]] => k \notin Contents
<1>1. NodeTypeOK /\ Sentinels /\ x \in Node
  BY DEF SortedLists, Live
<1>2. val[x] = k => k \in Contents
  <2>1. val[x] = k => x \in DataNodes
    BY <1>1, NodeValues
  <2>2. QED
    BY <2>1 DEF Contents, Live
<1>3. ASSUME x \notin MaxNodes, val[x] < k, k < val[link[x]], k \in Contents
      PROVE  FALSE
  <2>1. PICK y \in DataNodes : mem[y] = "live" /\ val[y] = k
    BY <1>3 DEF Contents
  <2>2. y \in Live /\ bkt[y] = bkt[x]
    BY <2>1, ConstantFacts DEF Live, SortedLists, InItsBucket
  <2>3. val[link[x]] <= val[y]
    BY <1>3, <2>1, <2>2 DEF SortedLists, NoneBetween
  <2>4. link[x] \in Node
    BY <1>3 DEF SortedLists, Ascending, Live
  <2>5. val[link[x]] \in Int /\ val[y] \in Int
    BY <1>1, <2>2, <2>4, NodeValues DEF Live
  <2>6. QED
    BY <1>3, <2>1, <2>3, <2>5
<1>4. QED
  BY <1>2, <1>3

\* What a new traversal for key k has to establish.
LEMMA StartFacts ==
  ASSUME NodeTypeOK, SortedLists, NEW k \in Keys
  PROVE  /\ MinNode[Hash(k)] \in Live /\ val[MinNode[Hash(k)]] < k
         /\ bkt[MinNode[Hash(k)]] = Hash(k)
         /\ Live \subseteq Node
         /\ \A x \in Live \ MaxNodes :
              link[x] \in Live /\ bkt[link[x]] = bkt[x] /\ val[x] < val[link[x]]
<1>1. MinNode[Hash(k)] \in Live /\ val[MinNode[Hash(k)]] = LIST_VAL_MIN
      /\ bkt[MinNode[Hash(k)]] = Hash(k)
  BY ConstantFacts DEF SortedLists, Sentinels, Live
<1>2. QED
  BY <1>1, ConstantFacts DEF SortedLists, Ascending, Live

\* Linking a node between two neighbours keeps the lists sorted and adds
\* its value to the set.
LEMMA InsertSorted ==
  ASSUME NodeTypeOK, SortedLists, NEW k \in Keys, NEW x \in DataNodes, NEW p \in Live \ MaxNodes,
         mem[x] # "live", bkt[p] = Hash(k), val[p] < k, k < val[link[p]],
         mem'[x] = "live", val'[x] = k, link'[x] = link[p], bkt'[x] = Hash(k),
         link'[p] = x,
         \A y \in Node : y # x => mem'[y] = mem[y] /\ val'[y] = val[y] /\ bkt'[y] = bkt[y],
         \A y \in Node : y # x /\ y # p => link'[y] = link[y]
  PROVE  SortedLists' /\ Live' = Live \union {x} /\ Contents' = Contents \union {k}
<1>1. x \in Node /\ x \notin Live /\ p \in Node /\ p # x
  BY ConstantFacts DEF Live
<1>2. Live' = Live \union {x}
  BY <1>1 DEF Live
<1>3. Contents' = Contents \union {k}
  BY ConstantFacts DEF Contents
<1>4. NodeTypeOK /\ Sentinels /\ Live \subseteq Node
  BY DEF SortedLists, Live
<1>5. /\ \A y \in Live : val[y] \in Int /\ val'[y] = val[y] /\ bkt'[y] = bkt[y] /\ y # x
      /\ k \in Int
  BY <1>1, <1>4, NodeValues, ConstantFacts
<1>6. /\ link[p] \in Live /\ bkt[link[p]] = bkt[p]
      /\ \A y \in Live \ MaxNodes : link[y] \in Live /\ bkt[link[y]] = bkt[y]
                                    /\ val[y] < val[link[y]]
  BY DEF SortedLists, Ascending
<1>7. Sentinels'
  BY <1>1, ConstantFacts DEF SortedLists, Sentinels
<1>8. InItsBucket'
  BY ConstantFacts DEF SortedLists, InItsBucket
<1>9. Ascending'
  BY <1>2, <1>4, <1>5, <1>6 DEF Ascending
<1>10. \A y \in Live : bkt[y] = Hash(k) => y = p \/ val[y] < val[p] \/ k < val[y]
  <2>1. SUFFICES ASSUME NEW y \in Live, bkt[y] = Hash(k), y # p
                 PROVE  val[y] < val[p] \/ k < val[y]
    OBVIOUS
  <2>2. val[y] # val[p]
    BY <2>1 DEF SortedLists, NoDuplicate
  <2>3. val[p] < val[y] => val[link[p]] <= val[y]
    BY <2>1 DEF SortedLists, NoneBetween
  <2>4. val[link[p]] \in Int /\ val[p] \in Int /\ val[y] \in Int /\ k \in Int
    BY <1>5, <1>6
  <2>5. QED
    BY <2>2, <2>3, <2>4
<1>11. NoDuplicate'
  <2>1. \A y \in Live : bkt[y] = Hash(k) => val[y] # k
    BY <1>5, <1>10
  <2>2. QED
    BY <1>2, <1>5, <2>1 DEF SortedLists, NoDuplicate
<1>12. NoneBetween'
  <2>1. SUFFICES ASSUME NEW y \in Live \union {x}, NEW z \in Live \union {x},
                        bkt'[y] = bkt'[z], val'[y] < val'[z]
                 PROVE  val'[link'[y]] <= val'[z]
    BY <1>2 DEF NoneBetween
  <2>2. CASE y = x
    <3>1. z \in Live /\ bkt[z] = bkt[p] /\ k < val[z] /\ val[p] < val[z]
      BY <1>5, <2>1, <2>2
    <3>2. val[link[p]] <= val[z]
      BY <3>1 DEF SortedLists, NoneBetween
    <3>3. QED
      BY <1>5, <1>6, <2>2, <3>1, <3>2
  <2>3. CASE y = p
    <3>1. z = x \/ (z \in Live /\ bkt[z] = Hash(k) /\ val[p] < val[z])
      BY <1>5, <2>1, <2>3
    <3>2. z = x \/ k < val[z]
      BY <1>5, <1>10, <3>1
    <3>3. QED
      BY <1>5, <2>3, <3>1, <3>2
  <2>4. CASE y # x /\ y # p
    <3>1. y \in Live /\ link'[y] = link[y] /\ val'[y] = val[y] /\ bkt'[y] = bkt[y]
      BY <1>4, <1>5, <2>4
    <3>2. CASE z = x
      <4>1. bkt[y] = Hash(k) /\ val[y] < k
        BY <2>1, <3>1, <3>2
      <4>2. val[y] < val[p]
        BY <1>5, <1>10, <2>4, <3>1, <4>1
      <4>3. y \notin MaxNodes /\ val[link[y]] <= val[p] /\ link[y] \in Live
        <5>1. val[link[y]] <= val[p]
          BY <3>1, <4>1, <4>2 DEF SortedLists, NoneBetween
        <5>2. y \notin MaxNodes
          BY <1>4, <3>1, <4>1, NodeValues, ConstantFacts
        <5>3. QED
          BY <1>6, <3>1, <5>1, <5>2
      <4>4. QED
        BY <1>5, <3>1, <3>2, <4>3
    <3>3. CASE z # x
      <4>1. z \in Live /\ bkt[y] = bkt[z] /\ val[y] < val[z] /\ val'[z] = val[z]
        BY <1>5, <2>1, <3>1, <3>3
      <4>2. y \notin MaxNodes
        BY <1>4, <3>1, <4>1, NodeValues, ConstantFacts
      <4>3. val[link[y]] <= val[z] /\ link[y] \in Live
        BY <1>6, <3>1, <4>1, <4>2 DEF SortedLists, NoneBetween
      <4>4. QED
        BY <1>5, <3>1, <4>1, <4>3
    <3>4. QED
      BY <3>2, <3>3
  <2>5. QED
    BY <2>2, <2>3, <2>4
<1>13. QED
  BY <1>2, <1>3, <1>7, <1>8, <1>9, <1>11, <1>12 DEF SortedLists

\* Unlinking a node keeps the lists sorted and takes its value, and no other,
\* out of the set.
LEMMA DeleteSorted ==
  ASSUME NodeTypeOK, SortedLists, NEW p \in Live \ MaxNodes, NEW x \in DataNodes, x \in Live, NEW s \in Live,
         link[p] = x, link[x] = s,
         mem'[x] # "live", link'[p] = s, UNCHANGED <<val, bkt>>,
         \A y \in Node : y # x => mem'[y] = mem[y],
         \A y \in Node : y # p => link'[y] = link[y]
  PROVE  SortedLists' /\ Live' = Live \ {x} /\ Contents' = Contents \ {val[x]}
<1>1. x \in Node /\ p \in Node /\ s \in Node /\ x \notin MaxNodes /\ x \notin MinNodes
  BY ConstantFacts DEF Live
<1>2. Live' = Live \ {x}
  BY <1>1 DEF Live
<1>3. NodeTypeOK /\ Sentinels /\ Live \subseteq Node
  BY DEF SortedLists, Live
<1>4. \A y \in Live : val[y] \in Int
  BY <1>3, NodeValues
<1>5. /\ bkt[x] = bkt[p] /\ val[p] < val[x] /\ bkt[s] = bkt[x] /\ val[x] < val[s]
      /\ p # x /\ s # x
  BY <1>1, <1>4 DEF SortedLists, Ascending
<1>6. Contents' = Contents \ {val[x]}
  <2>1. \A y \in DataNodes : mem[y] = "live" /\ val[y] = val[x] => y = x
    <3>1. SUFFICES ASSUME NEW y \in DataNodes, mem[y] = "live", val[y] = val[x]
                   PROVE  y = x
      OBVIOUS
    <3>2. y \in Live /\ mem[x] = "live" /\ bkt[y] = bkt[x]
      BY <3>1, ConstantFacts DEF SortedLists, InItsBucket, Live
    <3>3. QED
      BY <3>1, <3>2 DEF SortedLists, NoDuplicate
  <2>2. QED
    BY <2>1, ConstantFacts DEF Contents
<1>7. Sentinels'
  BY <1>1, ConstantFacts DEF SortedLists, Sentinels
<1>8. InItsBucket' /\ NoDuplicate'
  BY <1>2, ConstantFacts DEF SortedLists, InItsBucket, NoDuplicate, Live
<1>9. \A y \in Live : y \notin MaxNodes /\ link[y] = x => y = p
  <2>1. SUFFICES ASSUME NEW y \in Live, y \notin MaxNodes, link[y] = x, y # p PROVE FALSE
    OBVIOUS
  <2>2. bkt[y] = bkt[p] /\ val[y] < val[x]
    BY <1>5, <2>1 DEF SortedLists, Ascending
  <2>3. val[y] # val[p]
    BY <2>1, <2>2 DEF SortedLists, NoDuplicate
  <2>4. val[p] < val[y] => val[x] <= val[y]
    BY <2>2 DEF SortedLists, NoneBetween
  <2>5. val[y] < val[p] => val[x] <= val[p]
    BY <2>1, <2>2 DEF SortedLists, NoneBetween
  <2>6. val[y] \in Int /\ val[p] \in Int /\ val[x] \in Int
    BY <1>4
  <2>7. QED
    BY <1>5, <2>2, <2>3, <2>4, <2>5, <2>6
<1>10. Ascending'
  <2>1. SUFFICES ASSUME NEW y \in Live \ {x}, y \notin MaxNodes
                 PROVE  /\ link'[y] \in Live \ {x} /\ bkt[link'[y]] = bkt[y]
                        /\ val[y] < val[link'[y]]
    BY <1>2 DEF Ascending
  <2>2. CASE y = p
    <3>1. val[p] < val[s]
      BY <1>4, <1>5
    <3>2. QED
      BY <1>5, <2>2, <3>1
  <2>3. CASE y # p
    BY <1>3, <1>9, <2>1, <2>3 DEF SortedLists, Ascending
  <2>4. QED
    BY <2>2, <2>3
<1>11. NoneBetween'
  <2>1. SUFFICES ASSUME NEW y \in Live \ {x}, NEW z \in Live \ {x},
                        bkt[y] = bkt[z], val[y] < val[z]
                 PROVE  val[link'[y]] <= val[z]
    BY <1>2 DEF NoneBetween
  <2>2. CASE y = p
    <3>1. val[x] <= val[z]
      BY <2>1, <2>2 DEF SortedLists, NoneBetween
    <3>2. val[x] # val[z]
      BY <1>5, <2>1, <2>2 DEF SortedLists, NoDuplicate
    <3>3. val[x] < val[z]
      BY <1>4, <3>1, <3>2
    <3>4. val[s] <= val[z]
      BY <1>5, <2>1, <2>2, <3>3 DEF SortedLists, NoneBetween
    <3>5. QED
      BY <2>2, <3>4
  <2>3. CASE y # p
    BY <1>3, <2>1, <2>3 DEF SortedLists, NoneBetween
  <2>4. QED
    BY <2>2, <2>3
<1>12. QED
  BY <1>2, <1>6, <1>7, <1>8, <1>10, <1>11 DEF SortedLists

-----------------------------------------------------------------------------
(* What the steps on nodes do *)

\* kmalloc() in an add: the new node is in no list, and no list changes.
LEMMA NewNodeFacts ==
  ASSUME NodeTypeOK, SortedLists, NEW t \in Threads, NEW x \in DataNodes, NEW k \in Keys,
         NEW s \in Node, NewNode(t, x, k, Hash(k), s)
  PROVE  /\ SortedLists' /\ NodeTypeOK' /\ Contents' = Contents /\ Live' = Live
         /\ mem[x] = "free" /\ x \in Node \ Live /\ Live \subseteq Node
         /\ mem'[x] = "private" /\ val'[x] = k /\ link'[x] = s
         /\ removed'[x] = 0 /\ bkt'[x] = Hash(k)
         /\ \A y \in Node : y # x => /\ mem'[y] = mem[y] /\ val'[y] = val[y]
                                     /\ link'[y] = link[y] /\ removed'[y] = removed[y]
                                     /\ bkt'[y] = bkt[y]
         /\ \A y \in Node, u \in Threads : u # t /\ u \in gp[y] => u \in gp'[y]
         /\ SafeBuild => gp' = gp
<1>1. /\ mem[x] = "free" /\ x \in Node /\ Hash(k) \in Buckets
      /\ mem' = [mem EXCEPT ![x] = "private"]
      /\ val' = [val EXCEPT ![x] = k]
      /\ link' = [link EXCEPT ![x] = s]
      /\ removed' = [removed EXCEPT ![x] = 0]
      /\ bkt' = [bkt EXCEPT ![x] = Hash(k)]
  BY ConstantFacts DEF NewNode
<1>2. /\ gp' \in [Node -> SUBSET Threads]
      /\ \A y \in Node, u \in Threads : u # t /\ u \in gp[y] => u \in gp'[y]
      /\ SafeBuild => gp' = gp
  BY DEF NewNode, Quiesce, NodeTypeOK
<1>3. /\ mem'[x] = "private" /\ val'[x] = k /\ link'[x] = s
      /\ removed'[x] = 0 /\ bkt'[x] = Hash(k)
      /\ \A y \in Node : y # x => /\ mem'[y] = mem[y] /\ val'[y] = val[y]
                                  /\ link'[y] = link[y] /\ removed'[y] = removed[y]
                                  /\ bkt'[y] = bkt[y]
  BY <1>1 DEF NodeTypeOK
<1>4. NodeTypeOK'
  BY <1>1, <1>2 DEF NodeTypeOK, Ptr, MemState
<1>5. x \notin Live /\ Live \subseteq Node
  BY <1>1 DEF Live
<1>6. Live' = Live /\ Contents' = Contents
  BY <1>1, <1>3, ConstantFacts DEF Live, Contents
<1>7. Sentinels'
  BY <1>3, ConstantFacts DEF SortedLists, Sentinels
<1>8. InItsBucket'
  BY <1>3, ConstantFacts DEF SortedLists, InItsBucket
<1>9. \A y \in Live \ MaxNodes : link[y] \in Live /\ link[y] # x /\ y # x
  BY <1>5 DEF SortedLists, Ascending
<1>10. Ascending' /\ NoDuplicate'
  BY <1>3, <1>5, <1>6, <1>9 DEF SortedLists, Ascending, NoDuplicate
<1>11. NoneBetween'
  <2>1. SUFFICES ASSUME NEW y \in Live, NEW z \in Live, bkt[y] = bkt[z], val[y] < val[z]
                 PROVE  val'[link'[y]] <= val'[z]
    BY <1>3, <1>5, <1>6 DEF NoneBetween
  <2>2. y \notin MaxNodes
    <3>1. Sentinels /\ y \in Node /\ z \in Node
      BY <1>5 DEF SortedLists
    <3>2. QED
      BY <2>1, <3>1, NodeValues, ConstantFacts
  <2>3. QED
    BY <1>3, <1>5, <1>9, <2>1, <2>2 DEF SortedLists, NoneBetween
<1>12. QED
  BY <1>1, <1>2, <1>3, <1>4, <1>5, <1>6, <1>7, <1>8, <1>10, <1>11 DEF SortedLists

\* sync_test_init(): an insertion before the threads start.
LEMMA FillFacts ==
  ASSUME NodeTypeOK, SortedLists, NEW k \in Keys, FillWith(k)
  PROVE  /\ NodeTypeOK' /\ SortedLists'
         /\ Contents' = Contents \/ Contents' = Contents \union {k}
         /\ \A x \in Node : mem[x] # "free" /\ mem[x] # "live" =>
              mem'[x] = mem[x] /\ link'[x] = link[x]
         /\ \A x \in Node : mem[x] # "live" /\ mem'[x] # "live" =>
              mem'[x] = mem[x] /\ removed'[x] = removed[x]
         /\ \A x \in Node : mem'[x] = "live" => mem[x] = "live" \/ removed'[x] = 0
         /\ \A x \in Node : mem[x] = "live" => removed'[x] = removed[x] /\ mem'[x] = "live"
<1>1. CASE UNCHANGED nodeVars
  <2>1. SortedLists' /\ Contents' = Contents
    BY <1>1, SortedFrame DEF nodeVars
  <2>2. QED
    BY <1>1, <2>1 DEF NodeTypeOK, nodeVars, FillWith, rcuVars
<1>2. CASE \E x \in DataNodes, p \in Live :
             /\ mem[x] = "free"
             /\ bkt[p] = Hash(k) /\ val[p] < k /\ k < val[link[p]]
             /\ mem' = [mem EXCEPT ![x] = "live"]
             /\ val' = [val EXCEPT ![x] = k]
             /\ link' = [link EXCEPT ![x] = link[p], ![p] = x]
             /\ removed' = [removed EXCEPT ![x] = 0]
             /\ bkt' = [bkt EXCEPT ![x] = Hash(k)]
  <2>1. PICK x \in DataNodes, p \in Live :
             /\ mem[x] = "free"
             /\ bkt[p] = Hash(k) /\ val[p] < k /\ k < val[link[p]]
             /\ mem' = [mem EXCEPT ![x] = "live"]
             /\ val' = [val EXCEPT ![x] = k]
             /\ link' = [link EXCEPT ![x] = link[p], ![p] = x]
             /\ removed' = [removed EXCEPT ![x] = 0]
             /\ bkt' = [bkt EXCEPT ![x] = Hash(k)]
    BY <1>2
  <2>2. x \in Node /\ p \in Node /\ p # x /\ p \notin MaxNodes
    <3>1. Sentinels /\ p \in Node
      BY DEF SortedLists, Live
    <3>2. QED
      BY <2>1, <3>1, NodeValues, ConstantFacts DEF Live
  <2>3. /\ mem'[x] = "live" /\ val'[x] = k /\ link'[x] = link[p] /\ bkt'[x] = Hash(k)
        /\ link'[p] = x /\ removed'[x] = 0
        /\ \A y \in Node : y # x => mem'[y] = mem[y] /\ val'[y] = val[y] /\ bkt'[y] = bkt[y]
        /\ \A y \in Node : y # x => removed'[y] = removed[y]
        /\ \A y \in Node : y # x /\ y # p => link'[y] = link[y]
    BY <2>1, <2>2 DEF NodeTypeOK
  <2>4. SortedLists' /\ Contents' = Contents \union {k}
    <3>1. /\ p \in Live \ MaxNodes /\ mem[x] # "live"
          /\ bkt[p] = Hash(k) /\ val[p] < k /\ k < val[link[p]]
      BY <2>1, <2>2
    <3>2. QED
      BY <2>3, <3>1, InsertSorted
  <2>5. NodeTypeOK'
    <3>1. link[p] \in Node /\ Hash(k) \in Buckets
      BY <2>2, ConstantFacts DEF SortedLists, Ascending, Live
    <3>2. QED
      BY <2>1, <2>2, <3>1 DEF NodeTypeOK, Ptr, MemState, FillWith, rcuVars
  <2>6. QED
    BY <2>1, <2>3, <2>4, <2>5 DEF Live
<1>3. QED
  BY <1>1, <1>2 DEF FillWith

\* rcx_new_hash_list(): sentinels only, and no thread has called anything.
LEMMA ListInitFacts ==
  ASSUME ListInit
  PROVE  /\ NodeTypeOK /\ LocalTypeOK /\ SortedLists /\ Contents = {}
         /\ \A x \in Node : mem[x] \in {"live", "free"} /\ removed[x] = 0
<1>1. \A b \in Buckets : /\ (CHOOSE c \in Buckets : MinNode[c] = MinNode[b]) = b
                         /\ (CHOOSE c \in Buckets : MinNode[b] \in {MinNode[c], MaxNode[c]}) = b
                         /\ (CHOOSE c \in Buckets : MaxNode[b] \in {MinNode[c], MaxNode[c]}) = b
  BY SentinelsAssumption
<1>2. \A b \in Buckets :
        /\ val[MinNode[b]] = LIST_VAL_MIN /\ val[MaxNode[b]] = LIST_VAL_MAX
        /\ mem[MinNode[b]] = "live" /\ mem[MaxNode[b]] = "live"
        /\ bkt[MinNode[b]] = b /\ bkt[MaxNode[b]] = b
        /\ link[MinNode[b]] = MaxNode[b]
  <2>1. \A b \in Buckets : MinNode[b] \in MinNodes /\ MinNode[b] \notin DataNodes
                          /\ MaxNode[b] \notin MinNodes /\ MaxNode[b] \notin DataNodes
    BY ConstantFacts
  <2>2. QED
    BY <1>1, <2>1, ConstantFacts DEF ListInit
<1>3. \A x \in Node : /\ x \in DataNodes => mem[x] = "free" /\ bkt[x] = 0
                      /\ mem[x] = "live" <=> x \in MinNodes \union MaxNodes
                      /\ mem[x] \in {"live", "free"} /\ removed[x] = 0
  BY ConstantFacts DEF Node, ListInit
<1>4. \A x \in MinNodes \union MaxNodes :
        \E b \in Buckets : x = MinNode[b] \/ x = MaxNode[b]
  BY DEF MinNodes, MaxNodes
<1>5. Sentinels
  BY <1>2 DEF Sentinels
<1>6. Live = MinNodes \union MaxNodes
  BY <1>3, ConstantFacts DEF Live
<1>7. Contents = {}
  BY <1>3, ConstantFacts DEF Contents
<1>8. SortedLists
  <2>1. Ascending
    BY <1>2, <1>4, <1>6, ConstantFacts DEF Ascending
  <2>2. NoneBetween
    <3>1. SUFFICES ASSUME NEW x \in Live, NEW y \in Live, bkt[x] = bkt[y], val[x] < val[y]
                   PROVE  val[link[x]] <= val[y]
      BY DEF NoneBetween
    <3>2. PICK b \in Buckets : x = MinNode[b] \/ x = MaxNode[b]
      BY <1>4, <1>6
    <3>3. PICK c \in Buckets : y = MinNode[c] \/ y = MaxNode[c]
      BY <1>4, <1>6
    <3>4. b = c
      BY <1>2, <3>1, <3>2, <3>3
    <3>5. x = MinNode[b] /\ y = MaxNode[b]
      BY <1>2, <3>1, <3>2, <3>3, <3>4, ConstantFacts
    <3>6. QED
      BY <1>2, <3>5, ConstantFacts
  <2>3. NoDuplicate
    BY <1>2, <1>4, <1>6, ConstantFacts DEF NoDuplicate
  <2>4. InItsBucket
    BY <1>3, ConstantFacts DEF InItsBucket
  <2>5. QED
    BY <1>5, <2>1, <2>2, <2>3, <2>4 DEF SortedLists
<1>9. NodeTypeOK
  <2>1. \A x \in Node : link[x] \in Ptr
    <3>1. \A x \in MinNodes : link[x] \in Node
      BY <1>2, ConstantFacts DEF MinNodes
    <3>2. QED
      BY <3>1, ConstantFacts DEF Ptr, ListInit
  <2>2. \A x \in Node : bkt[x] \in Buckets
    BY <1>2, <1>3, <1>4, ConstantFacts DEF Node
  <2>3. QED
    BY <2>1, <2>2 DEF NodeTypeOK, MemState, ListInit
<1>10. LocalTypeOK
  BY BoundsAssumption DEF LocalTypeOK, Ptr, ListInit
<1>11. QED
  BY <1>3, <1>7, <1>8, <1>9, <1>10

\* The view of an add that may link its node: p_prev and p_next are
\* neighbours in the list with the value between them.
InsertReady(t) ==
  /\ key[t] \in Keys /\ p_prev[t] \in Live \ MaxNodes
  /\ bkt[p_prev[t]] = Hash(key[t]) /\ val[p_prev[t]] < key[t]
  /\ link[p_prev[t]] = p_next[t] /\ key[t] < val[p_next[t]]
  /\ p_new_node[t] \in DataNodes /\ mem[p_new_node[t]] = "private"
  /\ val[p_new_node[t]] = key[t] /\ link[p_new_node[t]] = p_next[t]
  /\ bkt[p_new_node[t]] = Hash(key[t])

\* Linking the new node inserts the value.
LEMMA PublishFacts ==
  ASSUME NodeTypeOK, SortedLists, NEW t \in Threads, InsertReady(t),
         Publish(t), UNCHANGED <<val, removed, bkt, gp>>
  PROVE  /\ SortedLists' /\ NodeTypeOK' /\ Live' = Live \union {p_new_node[t]}
         /\ key[t] \notin Contents /\ Contents' = Contents \union {key[t]}
         /\ p_new_node[t] \in Node \ Live /\ p_prev[t] \in Node /\ p_next[t] \in Live
         /\ mem'[p_new_node[t]] = "live" /\ link'[p_prev[t]] = p_new_node[t]
         /\ \A y \in Node : y # p_new_node[t] => mem'[y] = mem[y]
         /\ \A y \in Node : y # p_prev[t] => link'[y] = link[y]
<1> DEFINE p == p_prev[t]
<1> DEFINE x == p_new_node[t]
<1>1. /\ x \in Node /\ p \in Node /\ x \notin Live /\ x # p
      /\ link[p] \in Live /\ link[p] = p_next[t]
  BY ConstantFacts DEF InsertReady, Live, SortedLists, Ascending
<1>2. link' = [link EXCEPT ![p] = x] /\ mem' = [mem EXCEPT ![x] = "live"]
  BY DEF Publish
<1>3. /\ mem'[x] = "live" /\ link'[p] = x
      /\ \A y \in Node : y # x => mem'[y] = mem[y]
      /\ \A y \in Node : y # p => link'[y] = link[y]
  BY <1>1, <1>2 DEF NodeTypeOK
<1>4. NodeTypeOK'
  BY <1>1, <1>2 DEF NodeTypeOK, Ptr, MemState
<1>5. SortedLists' /\ Live' = Live \union {x} /\ Contents' = Contents \union {key[t]}
  <2>1. /\ mem[x] # "live" /\ mem'[x] = "live" /\ val'[x] = key[t] /\ link'[x] = link[p]
        /\ bkt'[x] = Hash(key[t]) /\ link'[p] = x
        /\ \A y \in Node : y # x => mem'[y] = mem[y] /\ val'[y] = val[y] /\ bkt'[y] = bkt[y]
        /\ \A y \in Node : y # x /\ y # p => link'[y] = link[y]
    BY <1>1, <1>3 DEF InsertReady
  <2>2. /\ key[t] \in Keys /\ x \in DataNodes /\ p \in Live \ MaxNodes
        /\ bkt[p] = Hash(key[t]) /\ val[p] < key[t] /\ key[t] < val[link[p]]
    BY DEF InsertReady
  <2>3. QED
    BY <2>1, <2>2, InsertSorted
<1>6. key[t] \notin Contents
  BY FreshTraversal DEF InsertReady
<1>7. QED
  BY <1>1, <1>3, <1>4, <1>5, <1>6

\* The view of a remove that may unlink p_next: p_prev, p_next and n are
\* neighbours in the list and p_next holds the value.
DeleteReady(t) ==
  /\ key[t] \in Keys /\ p_prev[t] \in Live \ MaxNodes
  /\ bkt[p_prev[t]] = Hash(key[t]) /\ val[p_prev[t]] < key[t]
  /\ link[p_prev[t]] = p_next[t] /\ link[p_next[t]] = n[t]
  /\ val[p_next[t]] = key[t]

\* What such a view says about the three nodes.
LEMMA DeleteReadyFacts ==
  ASSUME NodeTypeOK, SortedLists, NEW t \in Threads, DeleteReady(t)
  PROVE  /\ p_prev[t] \in Node /\ p_next[t] \in DataNodes /\ p_next[t] \in Node \ MaxNodes
         /\ p_next[t] \in Live /\ n[t] \in Live /\ n[t] \in Node
         /\ bkt[p_next[t]] = Hash(key[t]) /\ bkt[n[t]] = Hash(key[t])
         /\ val[p_prev[t]] \in Int /\ val[n[t]] \in Int /\ key[t] \in Int
         /\ key[t] < val[n[t]] /\ p_prev[t] # p_next[t] /\ n[t] # p_next[t]
         /\ key[t] \in Contents
<1> DEFINE p == p_prev[t]
<1> DEFINE x == p_next[t]
<1>1. p \in Live \ MaxNodes /\ link[p] = x /\ val[x] = key[t] /\ key[t] \in Keys
      /\ bkt[p] = Hash(key[t]) /\ val[p] < key[t] /\ link[x] = n[t]
  BY DEF DeleteReady
<1>2. x \in Live /\ bkt[x] = bkt[p] /\ x \in Node /\ p \in Node
  BY <1>1 DEF SortedLists, Ascending, Live
<1>3. x \in DataNodes /\ x \notin MaxNodes
  BY <1>1, <1>2, NodeValues, ConstantFacts DEF SortedLists
<1>4. n[t] \in Live /\ bkt[n[t]] = bkt[x] /\ val[x] < val[n[t]] /\ n[t] \in Node
  BY <1>1, <1>2, <1>3 DEF SortedLists, Ascending, Live
<1>5. val[p] \in Int /\ val[n[t]] \in Int /\ key[t] \in Int
  BY <1>1, <1>2, <1>4, NodeValues, ConstantFacts DEF SortedLists
<1>6. key[t] \in Contents
  BY <1>1, <1>2, <1>3 DEF Contents, Live
<1>7. QED
  BY <1>1, <1>2, <1>3, <1>4, <1>5, <1>6

\* Unlinking p_next deletes the value.
LEMMA UnlinkFacts ==
  ASSUME NodeTypeOK, SortedLists, NEW t \in Threads, DeleteReady(t),
         Unlink(t), UNCHANGED <<val, bkt, gp>>, removed' \in [Node -> {0, 1}]
  PROVE  /\ SortedLists' /\ NodeTypeOK' /\ Live' = Live \ {p_next[t]}
         /\ Contents' = Contents \ {key[t]}
         /\ mem'[p_next[t]] = "unlinked" /\ link'[p_prev[t]] = n[t]
         /\ \A y \in Node : y # p_next[t] => mem'[y] = mem[y]
         /\ \A y \in Node : y # p_prev[t] => link'[y] = link[y]
<1> DEFINE p == p_prev[t]
<1> DEFINE x == p_next[t]
<1>1. /\ p \in Live \ MaxNodes /\ x \in DataNodes /\ x \in Live /\ n[t] \in Live
      /\ p \in Node /\ x \in Node /\ n[t] \in Node
      /\ link[p] = x /\ link[x] = n[t] /\ val[x] = key[t]
  BY DeleteReadyFacts DEF DeleteReady
<1>2. link' = [link EXCEPT ![p] = n[t]] /\ mem' = [mem EXCEPT ![x] = "unlinked"]
  BY DEF Unlink
<1>3. /\ mem'[x] = "unlinked" /\ link'[p] = n[t]
      /\ \A y \in Node : y # x => mem'[y] = mem[y]
      /\ \A y \in Node : y # p => link'[y] = link[y]
  BY <1>1, <1>2 DEF NodeTypeOK
<1>4. NodeTypeOK'
  BY <1>1, <1>2 DEF NodeTypeOK, Ptr, MemState
<1>5. SortedLists' /\ Live' = Live \ {x} /\ Contents' = Contents \ {val[x]}
  <2>1. mem'[x] # "live" /\ UNCHANGED <<val, bkt>>
    BY <1>3
  <2>2. QED
    BY <1>1, <1>3, <2>1, DeleteSorted
<1>6. QED
  BY <1>1, <1>3, <1>4, <1>5

-----------------------------------------------------------------------------
(* What a traversal may rely on after a step *)

\* A view does not contain memory that is free, private or past its grace
\* period.
LEMMA NotInView ==
  ASSUME NEW u \in Threads, View(u), NEW x,
         mem[x] \in {"free", "private"} \/ (mem[x] = "deferred" /\ u \notin gp[x])
  PROVE  x \notin seen[u]
  BY DEF View, ViewProtected

\* A step that changes no node of the view keeps it.
LEMMA ViewFrame ==
  ASSUME NEW u \in Threads, View(u), Live' = Live,
         seen'[u] = seen[u], key'[u] = key[u], obs[u] \subseteq obs'[u],
         \A x \in seen[u] : /\ val'[x] = val[x] /\ link'[x] = link[x] /\ bkt'[x] = bkt[x]
                            /\ mem'[x] = mem[x] /\ (u \in gp[x] => u \in gp'[x])
  PROVE  View(u)'
<1>1. ViewProtected(u)'
  BY DEF View, ViewProtected
<1>2. ViewClosed(u)'
  BY DEF View, ViewClosed
<1>3. ViewWitnessed(u)'
  BY DEF View, ViewWitnessed, ViewClosed
<1>4. QED
  BY <1>1, <1>2, <1>3 DEF View

\* kfree_rcu() waits for every reader, so it keeps the views of the readers.
LEMMA ViewDefer ==
  ASSUME NodeTypeOK, NEW u \in Threads, View(u), seen[u] \subseteq Node, Reader(u),
         NEW x \in Node, mem[x] = "unlinked", kfree_rcu(x), UNCHANGED <<val, link, bkt>>,
         seen'[u] = seen[u], key'[u] = key[u], obs[u] \subseteq obs'[u]
  PROVE  View(u)'
<1>1. /\ mem'[x] = "deferred" /\ u \in gp'[x]
      /\ \A y \in Node : y # x => mem'[y] = mem[y] /\ gp'[y] = gp[y]
  BY DEF kfree_rcu, NodeTypeOK
<1>2. Live' = Live
  BY <1>1 DEF Live
<1>3. ViewProtected(u)'
  BY <1>1, <1>2 DEF View, ViewProtected
<1>4. ViewClosed(u)' /\ ViewWitnessed(u)'
  BY DEF View, ViewClosed, ViewWitnessed
<1>5. QED
  BY <1>3, <1>4 DEF View

\* A traversal that starts sees the lists as they are.
LEMMA ViewStart ==
  ASSUME NodeTypeOK, SortedLists, NEW u \in Threads, NEW k \in Keys,
         UNCHANGED <<val, link, bkt>>, Live' = Live, seen'[u] = Live, key'[u] = k,
         k \in Contents => "present" \in obs'[u],
         k \notin Contents => "absent" \in obs'[u]
  PROVE  View(u)'
<1>1. Live' = Live /\ Live \subseteq Node
  BY DEF Live
<1>2. ViewProtected(u)'
  BY <1>1 DEF ViewProtected, Live
<1>3. ViewClosed(u)'
  BY StartFacts DEF ViewClosed
<1>4. ViewWitnessed(u)'
  BY FreshTraversal DEF ViewWitnessed
<1>5. QED
  BY <1>2, <1>3, <1>4 DEF View

\* A node that is linked enters every view, and the gap it closes was real.
LEMMA ViewPublish ==
  ASSUME NodeTypeOK, SortedLists, NEW t \in Threads, InsertReady(t), Publish(t),
         UNCHANGED <<val, removed, bkt, gp, key>>,
         NEW u \in Threads, View(u), seen[u] \subseteq Node, op[u] # "none", key[u] \in Keys
  PROVE  View(u)'
<1> DEFINE p == p_prev[t]
<1> DEFINE s == p_next[t]
<1> DEFINE x == p_new_node[t]
<1>1. /\ Live' = Live \union {x} /\ x \in Node /\ p \in Live \ MaxNodes /\ s \in Live
      /\ p \in Node /\ s \in Node
      /\ mem'[x] = "live" /\ link'[p] = x
      /\ \A y \in Node : y # x => mem'[y] = mem[y]
      /\ \A y \in Node : y # p => link'[y] = link[y]
  BY PublishFacts DEF InsertReady, Live
<1>2. /\ link[p] = s /\ link[x] = s /\ val[p] < key[t] /\ key[t] < val[s]
      /\ bkt[p] = Hash(key[t]) /\ bkt[x] = Hash(key[t]) /\ val[x] = key[t]
      /\ key[t] \in Keys /\ mem[x] = "private" /\ x \notin MaxNodes
  BY ConstantFacts DEF InsertReady
<1>3. bkt[s] = bkt[p]
  BY <1>1, <1>2 DEF SortedLists, Ascending
<1>4. x \notin seen[u] /\ p \in seen[u] /\ s \in seen[u] /\ x # p
  BY <1>1, <1>2, NotInView DEF View, ViewProtected, Live
<1>5. seen'[u] = seen[u] \union {x}
  BY <1>4 DEF Publish
<1>6. /\ obs[u] \subseteq obs'[u]
      /\ key[u] = key[t] => "present" \in obs'[u]
  BY DEF Publish, Observe
<1>7. ViewProtected(u)'
  BY <1>1, <1>5 DEF View, ViewProtected
<1>8. ViewClosed(u)'
  BY <1>1, <1>2, <1>3, <1>4, <1>5 DEF View, ViewClosed
<1>9. ViewWitnessed(u)'
  <2>1. SUFFICES ASSUME NEW y \in seen[u] \union {x}, bkt[y] = Hash(key[u])
                 PROVE  /\ val[y] = key[u] => "present" \in obs'[u]
                        /\ y \notin MaxNodes /\ val[y] < key[u] /\ key[u] < val[link'[y]]
                             => "absent" \in obs'[u]
    BY <1>5 DEF ViewWitnessed
  <2>2. CASE y \in seen[u] /\ y # p
    BY <1>1, <1>6, <2>1, <2>2 DEF View, ViewWitnessed
  <2>3. CASE y = x \/ y = p
    <3>1. bkt[p] = Hash(key[u])
      BY <1>2, <2>1, <2>3
    <3>2. val[p] \in Int /\ val[s] \in Int /\ key[t] \in Int /\ key[u] \in Int
      BY <1>1, <1>2, NodeValues, ConstantFacts DEF SortedLists
    <3>3. val[p] < key[u] /\ key[u] < val[s] => "absent" \in obs[u]
      BY <1>1, <1>2, <1>4, <3>1 DEF View, ViewWitnessed
    <3>4. val[p] = key[u] => "present" \in obs[u]
      BY <1>4, <3>1 DEF View, ViewWitnessed
    <3>5. link'[p] = x /\ link'[x] = s
      BY <1>1, <1>2, <1>4
    <3>6. CASE y = x
      BY <1>2, <1>6, <3>2, <3>3, <3>5, <3>6
    <3>7. CASE y = p
      BY <1>2, <1>6, <3>2, <3>3, <3>4, <3>5, <3>7
    <3>8. QED
      BY <2>3, <3>6, <3>7
  <2>4. QED
    BY <2>1, <2>2, <2>3
<1>10. QED
  BY <1>7, <1>8, <1>9 DEF View

\* A node that is unlinked stays in every view, and the gap it leaves is real.
LEMMA ViewUnlink ==
  ASSUME NodeTypeOK, SortedLists, NEW t \in Threads, DeleteReady(t), Unlink(t),
         UNCHANGED <<val, bkt, gp, key>>, removed' \in [Node -> {0, 1}],
         NEW u \in Threads, View(u), seen[u] \subseteq Node, op[u] # "none", key[u] \in Keys
  PROVE  View(u)'
<1> DEFINE p == p_prev[t]
<1> DEFINE x == p_next[t]
<1> DEFINE s == n[t]
<1>1. /\ Live' = Live \ {x} /\ mem'[x] = "unlinked" /\ link'[p] = s
      /\ \A y \in Node : y # x => mem'[y] = mem[y]
      /\ \A y \in Node : y # p => link'[y] = link[y]
  BY UnlinkFacts
<1>2. /\ p \in Live \ MaxNodes /\ p \in Node /\ x \in Live /\ s \in Live
      /\ x \in Node \ MaxNodes /\ link[p] = x /\ link[x] = s
      /\ val[p] < key[t] /\ val[x] = key[t] /\ key[t] < val[s]
      /\ bkt[p] = Hash(key[t]) /\ bkt[x] = Hash(key[t]) /\ bkt[s] = Hash(key[t])
      /\ val[p] \in Int /\ val[s] \in Int /\ key[t] \in Int
      /\ p # x
  BY DeleteReadyFacts DEF DeleteReady
<1>3. p \in seen[u] /\ x \in seen[u] /\ s \in seen[u]
  BY <1>2 DEF View, ViewProtected
<1>4. seen'[u] = seen[u] /\ key'[u] = key[u]
  BY DEF Unlink
<1>5. /\ obs[u] \subseteq obs'[u]
      /\ key[u] = key[t] => "absent" \in obs'[u]
  BY DEF Unlink, Observe
<1>6. ViewProtected(u)'
  BY <1>1, <1>4 DEF View, ViewProtected
<1>7. ViewClosed(u)'
  <2>1. val[p] < val[s]
    BY <1>2
  <2>2. QED
    BY <1>1, <1>2, <1>3, <1>4, <2>1 DEF View, ViewClosed
<1>8. ViewWitnessed(u)'
  <2>1. SUFFICES ASSUME NEW y \in seen[u], bkt[y] = Hash(key[u])
                 PROVE  /\ val[y] = key[u] => "present" \in obs'[u]
                        /\ y \notin MaxNodes /\ val[y] < key[u] /\ key[u] < val[link'[y]]
                             => "absent" \in obs'[u]
    BY <1>4 DEF ViewWitnessed
  <2>2. val[y] = key[u] => "present" \in obs'[u]
    BY <1>5, <2>1 DEF View, ViewWitnessed
  <2>3. CASE y # p
    BY <1>1, <1>5, <2>1, <2>2, <2>3 DEF View, ViewWitnessed
  <2>4. CASE y = p
    <3>1. bkt[x] = Hash(key[u]) /\ bkt[p] = Hash(key[u]) /\ key[u] \in Int
      BY <1>2, <2>1, <2>4, ConstantFacts
    <3>2. val[p] < key[u] /\ key[u] < val[x] => "absent" \in obs[u]
      BY <1>2, <1>3, <3>1 DEF View, ViewWitnessed
    <3>3. val[x] < key[u] /\ key[u] < val[s] => "absent" \in obs[u]
      BY <1>2, <1>3, <3>1 DEF View, ViewWitnessed
    <3>4. QED
      BY <1>1, <1>2, <1>5, <2>2, <2>4, <3>1, <3>2, <3>3
  <2>5. QED
    BY <2>3, <2>4
<1>9. QED
  BY <1>6, <1>7, <1>8 DEF View

\* The memberships recorded keep up with the set.
LEMMA RecordedPublish ==
  ASSUME NEW t \in Threads, Observe(t, "present"), Contents' = Contents \union {key[t]},
         UNCHANGED <<op, key>>, NEW u \in Threads, Recorded(u)
  PROVE  Recorded(u)' /\ obs[u] \subseteq obs'[u]
  BY DEF Recorded, Observe

\* The same when a node is unlinked.
LEMMA RecordedUnlink ==
  ASSUME NEW t \in Threads, Observe(t, "absent"), Contents' = Contents \ {key[t]},
         UNCHANGED <<op, key>>, NEW u \in Threads, Recorded(u)
  PROVE  Recorded(u)' /\ obs[u] \subseteq obs'[u]
  BY DEF Recorded, Observe

\* One step along p_next stays in the view and above p_prev.
LEMMA ViewStep ==
  ASSUME NodeTypeOK, SortedLists, NEW u \in Threads, View(u), seen[u] \subseteq Node,
         NEW x \in seen[u], x \notin MaxNodes
  PROVE  /\ link[x] \in seen[u] /\ link[x] \in Node /\ bkt[link[x]] = bkt[x]
         /\ val[x] < val[link[x]] /\ val[x] \in Int /\ val[link[x]] \in Int
  BY NodeValues DEF View, ViewClosed, SortedLists

\* The step leaves the local state of u alone.
SameThread(u) ==
  /\ pc'[u] = pc[u] /\ op'[u] = op[u] /\ key'[u] = key[u] /\ result'[u] = result[u]
  /\ p_prev'[u] = p_prev[u] /\ p_next'[u] = p_next[u] /\ n'[u] = n[u]
  /\ p_new_node'[u] = p_new_node[u] /\ rcu'[u] = rcu[u]

SameOthers(t) == \A u \in Threads \ {t} : SameThread(u)

-----------------------------------------------------------------------------
(* Which step of the abstract set a step of a list is *)

\* A step that neither decides a call nor touches the calls and the set is
\* invisible at the abstract level.
LEMMA Invisible ==
  ASSUME Contents' = Contents, UNCHANGED <<op, key, obs>>,
         \A t \in Threads : reply'[t] = reply[t]
  PROVE  UNCHANGED Abstract!vars
<1>1. reply' = reply
  BY DEF reply
<1>2. QED
  BY <1>1 DEF Abstract!vars

\* A step that moves t within its undecided or within its decided phase does
\* not change any reply.
LEMMA SameReply ==
  ASSUME NEW t \in Threads, Decided(t)' <=> Decided(t), result' = result,
         \A u \in Threads : u # t => pc'[u] = pc[u]
  PROVE  \A u \in Threads : reply'[u] = reply[u]
  BY DEF reply, Decided

\* A step that decides the call of t with result r.
LEMMA AnswerStep ==
  ASSUME NEW t \in Threads, NEW r, op[t] # "none", ~Decided(t), Decided(t)',
         result'[t] = r, UNCHANGED <<op, key>>,
         \A u \in Threads : u # t => pc'[u] = pc[u] /\ result'[u] = result[u]
  PROVE  Abstract!Answer(t, r)
<1>1. reply[t] = -1 /\ reply'[t] = r
  BY DEF reply
<1>2. \A u \in Threads : u # t => reply'[u] = reply[u]
  BY DEF reply, Decided
<1>3. reply' = [reply EXCEPT ![t] = r]
  BY <1>1, <1>2 DEF reply
<1>4. QED
  BY <1>1, <1>3 DEF Abstract!Answer, Abstract!PENDING

\* An answer that changes nothing.
LEMMA ReportStep ==
  ASSUME NEW t \in Threads, NEW r, Abstract!Answer(t, r), Contents' = Contents, obs' = obs,
         \/ op[t] = "contains" /\ r = 1 /\ "present" \in obs[t]
         \/ op[t] = "contains" /\ r = 0 /\ "absent" \in obs[t]
         \/ op[t] = "add" /\ r = 0 /\ "present" \in obs[t]
         \/ op[t] = "remove" /\ r = 0 /\ "absent" \in obs[t]
  PROVE  Abstract!Next
  BY DEF Abstract!Next, Abstract!Report

\* An update that is given up.
LEMMA GiveUpStep ==
  ASSUME NEW t \in Threads, Abstract!Answer(t, 2), Contents' = Contents, obs' = obs,
         op[t] \in {"add", "remove"}
  PROVE  Abstract!Next
  BY DEF Abstract!Next, Abstract!GiveUp, Abstract!ABORTED

\* The step that links a node inserts its value.
LEMMA InsertStep ==
  ASSUME NEW t \in Threads, Abstract!Answer(t, 1), op[t] = "add", key[t] \notin Contents,
         Contents' = Contents \union {key[t]}, Observe(t, "present")
  PROVE  Abstract!Next
  BY DEF Abstract!Next, Abstract!Insert, Abstract!AllObserve, Observe

\* The step that unlinks a node deletes its value.
LEMMA DeleteStep ==
  ASSUME NEW t \in Threads, Abstract!Answer(t, 1), op[t] = "remove", key[t] \in Contents,
         Contents' = Contents \ {key[t]}, Observe(t, "absent")
  PROVE  Abstract!Next
  BY DEF Abstract!Next, Abstract!Delete, Abstract!AllObserve, Observe

\* A call begins.
LEMMA CallStep ==
  ASSUME NEW t \in Threads, NEW o \in OpNames, NEW k \in Keys, Call(t, o, k), op[t] = "none",
         Contents' = Contents, result' = result, ~Decided(t)', ~Decided(t),
         \A u \in Threads : u # t => pc'[u] = pc[u]
  PROVE  Abstract!Next
<1>1. reply' = reply
  BY DEF reply, Decided
<1>2. Abstract!Invoke(t, o, k)
  BY <1>1 DEF Call, Abstract!Invoke, Abstract!Membership, Membership
<1>3. QED
  BY <1>2 DEF Abstract!Next, OpNames

\* A call returns.
LEMMA ReturnStep ==
  ASSUME LocalTypeOK, NEW t \in Threads, Return(t), Contents' = Contents,
         \A u \in Threads : u # t => pc'[u] = pc[u], pc'[t] = "idle"
  PROVE  Abstract!Next
<1>1. reply[t] # -1 /\ reply'[t] = -1
  BY DEF Return, reply, Decided, LocalTypeOK
<1>2. \A u \in Threads : u # t => reply'[u] = reply[u]
  BY DEF Return, reply, Decided, LocalTypeOK
<1>3. reply' = [reply EXCEPT ![t] = -1]
  BY <1>1, <1>2 DEF reply
<1>4. Abstract!Return(t)
  BY <1>1, <1>3 DEF Return, Abstract!Return, Abstract!PENDING
<1>5. QED
  BY <1>4 DEF Abstract!Next

\* An insertion of the half fill.
LEMMA FillStep ==
  ASSUME NEW k \in Keys, FillWith(k), \A t \in Threads : op[t] = "none",
         Contents' = Contents \/ Contents' = Contents \union {k}
  PROVE  [Abstract!Next]_(Abstract!vars)
<1>1. UNCHANGED <<op, key, obs, pc, result>>
  BY DEF FillWith, localVars, historyVars
<1>2. reply' = reply
  BY <1>1 DEF reply, Decided
<1>3. CASE Contents' = Contents
  BY <1>1, <1>2, <1>3 DEF Abstract!vars
<1>4. CASE Contents' = Contents \union {k}
  BY <1>1, <1>2, <1>4 DEF Abstract!Next, Abstract!Fill
<1>5. QED
  BY <1>3, <1>4

\* The new table is the empty set.
LEMMA AbstractInit ==
  ASSUME ListInit
  PROVE  Abstract!Init
<1>1. Contents = {}
  BY ListInitFacts
<1>2. reply = [t \in Threads |-> -1]
  BY DEF ListInit, reply, Decided
<1>3. QED
  BY <1>1, <1>2 DEF ListInit, Abstract!Init, Abstract!PENDING

-----------------------------------------------------------------------------
(* A walk from the list heads visits exactly the live nodes *)

\* Every set of natural numbers that is not empty has a least member.
LEMMA LeastNatural ==
  ASSUME NEW S \in SUBSET Nat, S # {}
  PROVE  \E m \in S : \A i \in S : m <= i
<1>1. PICK m \in S : \A i \in S : ~(<<i, m>> \in OpToRel(<, Nat))
  BY WFMin, NatLessThanWellFounded
<1>2. \A i \in S : ~(i < m)
  BY <1>1 DEF OpToRel
<1>3. QED
  BY <1>2

\* The nodes of x's list below x.
Below(x) == {y \in Live : bkt[y] = bkt[x] /\ val[y] < val[x]}

\* A node with nodes below it is the p_next of one of them.
LEMMA Predecessor ==
  ASSUME NodeTypeOK, SortedLists, NEW x \in Live, Below(x) # {}
  PROVE  \E y \in Below(x) : y \notin MaxNodes /\ link[y] = x
<1>1. Sentinels /\ Live \subseteq Node
  BY DEF SortedLists, Live
<1>2. \A y \in Live : val[y] \in Int
  BY <1>1, NodeValues
<1> DEFINE D == {val[x] - val[y] : y \in Below(x)}
<1>3. D \in SUBSET Nat /\ D # {}
  BY <1>2 DEF Below
<1>4. PICK d \in D : \A e \in D : d <= e
  BY <1>3, LeastNatural
<1>5. PICK y \in Below(x) : d = val[x] - val[y]
  BY <1>4
<1>6. \A z \in Below(x) : val[z] <= val[y]
  <2>1. SUFFICES ASSUME NEW z \in Below(x) PROVE val[z] <= val[y]
    OBVIOUS
  <2>2. val[x] - val[y] <= val[x] - val[z]
    BY <1>4, <1>5
  <2>3. val[x] \in Int /\ val[y] \in Int /\ val[z] \in Int
    BY <1>2 DEF Below
  <2>4. QED
    BY <2>2, <2>3
<1>7. y \in Live /\ bkt[y] = bkt[x] /\ val[y] < val[x]
  BY DEF Below
<1>8. y \notin MaxNodes
  BY <1>1, <1>7, NodeValues, ConstantFacts
<1>9. /\ link[y] \in Live /\ bkt[link[y]] = bkt[x] /\ val[y] < val[link[y]]
      /\ val[link[y]] <= val[x]
  BY <1>7, <1>8 DEF SortedLists, Ascending, NoneBetween
<1>10. ~(val[link[y]] < val[x])
  <2>1. SUFFICES ASSUME val[link[y]] < val[x] PROVE FALSE
    OBVIOUS
  <2>2. link[y] \in Below(x)
    BY <1>9, <2>1 DEF Below
  <2>3. QED
    BY <1>2, <1>6, <1>7, <1>9, <2>2
<1>11. val[link[y]] = val[x]
  BY <1>2, <1>7, <1>9, <1>10
<1>12. link[y] = x
  BY <1>9, <1>11 DEF SortedLists, NoDuplicate
<1>13. QED
  BY <1>8, <1>12

\* Only the head of a list has no node below it.
LEMMA FirstIsHead ==
  ASSUME NodeTypeOK, SortedLists, NEW x \in Live, Below(x) = {}
  PROVE  x \in MinNodes
<1>1. x \in Node /\ bkt[x] \in Buckets /\ Sentinels
  BY DEF Live, NodeTypeOK, SortedLists
<1>2. /\ MinNode[bkt[x]] \in Live /\ val[MinNode[bkt[x]]] = LIST_VAL_MIN
      /\ bkt[MinNode[bkt[x]]] = bkt[x] /\ MinNode[bkt[x]] \in MinNodes
  BY <1>1, ConstantFacts DEF Sentinels, Live
<1>3. ~(LIST_VAL_MIN < val[x])
  BY <1>2 DEF Below
<1>4. val[x] = LIST_VAL_MIN
  BY <1>1, <1>3, NodeValues, ConstantFacts
<1>5. QED
  BY <1>2, <1>4 DEF SortedLists, NoDuplicate

\* One more step of the walk that Reachable makes.
WalkOn(S) == S \union {link[x] : x \in S \ MaxNodes}

\* The walk of Reachable, as a recursive function.
IsWalk(f, m) == f = [i \in 0..m |-> IF i = 0 THEN MinNodes ELSE WalkOn(f[i - 1])]

\* There is such a function, of every length.
LEMMA WalkExists ==
  ASSUME NEW c \in Nat
  PROVE  \E f : IsWalk(f, c)
<1> DEFINE Bad == {m \in Nat : ~\E f : IsWalk(f, m)}
<1>1. SUFFICES ASSUME Bad # {} PROVE FALSE
  OBVIOUS
<1>2. PICK m \in Bad : \A i \in Bad : m <= i
  BY <1>1, LeastNatural
<1>3. CASE m = 0
  <2>1. IsWalk([i \in 0..0 |-> MinNodes], 0)
    BY DEF IsWalk
  <2>2. QED
    BY <1>2, <1>3, <2>1
<1>4. CASE m # 0
  <2>1. m - 1 \in Nat /\ m - 1 \notin Bad
    BY <1>2, <1>4
  <2>2. PICK f : IsWalk(f, m - 1)
    BY <2>1
  <2> DEFINE g == [i \in 0..m |-> IF i = m THEN WalkOn(f[m - 1]) ELSE f[i]]
  <2>3. f = [i \in 0..(m - 1) |-> IF i = 0 THEN MinNodes ELSE WalkOn(f[i - 1])]
    BY <2>2 DEF IsWalk
  <2>4. ASSUME NEW i \in 0..m PROVE g[i] = IF i = 0 THEN MinNodes ELSE WalkOn(g[i - 1])
    <3>1. CASE i = m
      <4>1. i # 0 /\ i - 1 \in 0..m /\ i - 1 # m
        BY <1>4, <3>1
      <4>2. QED
        BY <3>1, <4>1
    <3>2. CASE i # m
      <4>1. i \in 0..(m - 1) /\ (i # 0 => i - 1 \in 0..m /\ i - 1 # m)
        BY <3>2
      <4>2. f[i] = IF i = 0 THEN MinNodes ELSE WalkOn(f[i - 1])
        BY <2>3, <4>1
      <4>3. QED
        BY <3>2, <4>1, <4>2
    <3>3. QED
      BY <3>1, <3>2
  <2>5. IsWalk(g, m)
    BY <2>4 DEF IsWalk
  <2>6. QED
    BY <1>2, <2>5
<1>5. QED
  BY <1>3, <1>4

\* There are finitely many nodes.
LEMMA NodesFinite == IsFiniteSet(Node) /\ Cardinality(Node) \in Nat
<1>1. IsFiniteSet(Buckets)
  BY FS_Interval, BucketsAssumption DEF Buckets
<1>2. IsFiniteSet(MinNodes)
  <2> DEFINE f == [b \in Buckets |-> MinNode[b]]
  <2>1. f \in Surjection(Buckets, MinNodes)
    BY DEF Surjection, MinNodes
  <2>2. QED
    BY <1>1, <2>1, FS_Surjection
<1>3. IsFiniteSet(MaxNodes)
  <2> DEFINE f == [b \in Buckets |-> MaxNode[b]]
  <2>1. f \in Surjection(Buckets, MaxNodes)
    BY DEF Surjection, MaxNodes
  <2>2. QED
    BY <1>1, <2>1, FS_Surjection
<1>4. IsFiniteSet(DataNodes \union MinNodes)
  BY <1>2, MemoryAssumption, FS_Union
<1>5. IsFiniteSet(Node)
  BY <1>3, <1>4, FS_Union DEF Node
<1>6. QED
  BY <1>5, FS_CardinalityType

\* The value of Reachable is the last set of such a walk.
LEMMA ReachableIsWalk ==
  \E f : IsWalk(f, Cardinality(Node)) /\ Reachable = f[Cardinality(Node)]
<1> DEFINE c == Cardinality(Node)
<1> DEFINE W == CHOOSE f : f = [i \in 0..c |->
                                  IF i = 0 THEN MinNodes
                                  ELSE f[i - 1] \union {link[x] : x \in f[i - 1] \ MaxNodes}]
<1>1. \E f : f = [i \in 0..c |-> IF i = 0 THEN MinNodes
                                 ELSE f[i - 1] \union {link[x] : x \in f[i - 1] \ MaxNodes}]
  BY NodesFinite, WalkExists DEF IsWalk, WalkOn
<1>2. W = [i \in 0..c |-> IF i = 0 THEN MinNodes
                          ELSE W[i - 1] \union {link[x] : x \in W[i - 1] \ MaxNodes}]
  BY <1>1
<1>3. Reachable = W[c]
  BY DEF Reachable
<1>4. QED
  BY <1>2, <1>3 DEF IsWalk, WalkOn

\* In sorted lists nothing is lost and nothing comes back: a walk along the
\* p_next pointers from the heads visits exactly the live nodes.
LEMMA NothingLost ==
  ASSUME NodeTypeOK, SortedLists
  PROVE  NoLostUpdate
<1> DEFINE c == Cardinality(Node)
<1>1. PICK W : IsWalk(W, c) /\ Reachable = W[c]
  BY ReachableIsWalk
<1>2. c \in Nat /\ IsFiniteSet(Node) /\ Live \subseteq Node
  BY NodesFinite DEF Live
<1>3. /\ W[0] = MinNodes
      /\ \A i \in 0..c : i # 0 => W[i] = W[i - 1] \union {link[x] : x \in W[i - 1] \ MaxNodes}
  BY <1>1, <1>2 DEF IsWalk, WalkOn
<1>4. MinNodes \subseteq Live
  BY ConstantFacts DEF SortedLists, Sentinels, MinNodes, Live
<1>5. \A i \in 0..c : W[i] \subseteq Live
  <2> DEFINE Bad == {i \in 0..c : ~(W[i] \subseteq Live)}
  <2>1. SUFFICES ASSUME Bad # {} PROVE FALSE
    OBVIOUS
  <2>2. PICK m \in Bad : \A i \in Bad : m <= i
    <3>1. Bad \in SUBSET Nat
      BY <1>2
    <3>2. QED
      BY <2>1, <3>1, LeastNatural
  <2>3. m # 0 /\ m - 1 \in 0..c /\ m - 1 \notin Bad
    BY <1>2, <1>3, <1>4, <2>2
  <2>4. \A x \in W[m - 1] \ MaxNodes : link[x] \in Live
    BY <2>3 DEF SortedLists, Ascending
  <2>5. QED
    BY <1>3, <2>2, <2>3, <2>4
<1>6. \A x \in Live : /\ IsFiniteSet(Below(x)) /\ Cardinality(Below(x)) \in Nat
                      /\ Cardinality(Below(x)) <= c
  <2>1. SUFFICES ASSUME NEW x \in Live
                 PROVE  /\ IsFiniteSet(Below(x)) /\ Cardinality(Below(x)) \in Nat
                        /\ Cardinality(Below(x)) <= c
    OBVIOUS
  <2>2. Below(x) \in SUBSET Node
    BY <1>2 DEF Below
  <2>3. IsFiniteSet(Below(x)) /\ Cardinality(Below(x)) <= c
    BY <1>2, <2>2, FS_Subset
  <2>4. QED
    BY <2>3, FS_CardinalityType
<1>7. \A i \in 0..c : \A x \in Live : Cardinality(Below(x)) <= i => x \in W[i]
  <2> DEFINE Bad == {i \in 0..c : \E x \in Live : Cardinality(Below(x)) <= i /\ x \notin W[i]}
  <2>1. SUFFICES ASSUME Bad # {} PROVE FALSE
    OBVIOUS
  <2>2. PICK m \in Bad : \A i \in Bad : m <= i
    <3>1. Bad \in SUBSET Nat
      BY <1>2
    <3>2. QED
      BY <2>1, <3>1, LeastNatural
  <2>3. PICK x \in Live : Cardinality(Below(x)) <= m /\ x \notin W[m]
    BY <2>2
  <2>4. CASE m = 0
    <3>1. Below(x) = {}
      BY <1>6, <2>3, <2>4, FS_EmptySet
    <3>2. QED
      BY <1>3, <2>3, <2>4, <3>1, FirstIsHead
  <2>5. CASE m # 0
    <3>1. m - 1 \in 0..c /\ m - 1 \notin Bad
      BY <1>2, <2>2, <2>5
    <3>2. CASE Below(x) = {}
      <4>1. Cardinality(Below(x)) = 0
        BY <3>2, FS_EmptySet
      <4>2. Cardinality(Below(x)) <= m - 1
        BY <1>2, <2>2, <2>5, <4>1
      <4>3. x \in W[m - 1]
        BY <3>1, <4>2
      <4>4. QED
        BY <1>3, <2>2, <2>3, <2>5, <4>3
    <3>3. CASE Below(x) # {}
      <4>1. PICK y \in Below(x) : y \notin MaxNodes /\ link[y] = x
        BY <3>3, Predecessor
      <4>2. y \in Live /\ bkt[y] = bkt[x] /\ val[y] < val[x] /\ val[y] \in Int /\ val[x] \in Int
        BY <1>2, NodeValues DEF Below, SortedLists
      <4>3. Below(y) \in SUBSET Below(x) /\ y \notin Below(y)
        <5>1. \A z \in Live : val[z] \in Int
          BY <1>2, NodeValues DEF SortedLists
        <5>2. QED
          BY <4>2, <5>1 DEF Below
      <4>4. Cardinality(Below(y)) <= Cardinality(Below(x))
            /\ Cardinality(Below(x)) # Cardinality(Below(y))
        BY <1>6, <4>1, <4>3, FS_Subset
      <4>5. Cardinality(Below(y)) <= m - 1
        BY <1>2, <1>6, <2>2, <2>3, <4>2, <4>4
      <4>6. y \in W[m - 1]
        BY <3>1, <4>2, <4>5
      <4>7. QED
        BY <1>3, <2>2, <2>3, <2>5, <4>1, <4>6
    <3>4. QED
      BY <3>2, <3>3
  <2>6. QED
    BY <2>4, <2>5
<1>8. Live \subseteq W[c]
  BY <1>2, <1>6, <1>7
<1>9. QED
  BY <1>1, <1>2, <1>5, <1>8 DEF NoLostUpdate

=============================================================================
