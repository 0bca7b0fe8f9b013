--------------------------- MODULE RluInvariants ---------------------------
(***************************************************************************)
(* What holds in every state of RluList, and why: first of the logs of     *)
(* the threads, also if threads advance the clock together; then, if one   *)
(* at a time does, of the objects: the lists as the sections of the        *)
(* threads see them.  RluListProofs shows that it does.                    *)
(***************************************************************************)
EXTENDS RluList

-----------------------------------------------------------------------------
(***************************************************************************)
(* The inductive invariant behind CopiesInLog and RingHasRoom.  It does    *)
(* not depend on ClockRace.                                                *)
(***************************************************************************)

SyncLabels == {"sync", "advance", "quiesce", "writeback", "commit_version", "sync_end"}
PauseLabels == {"idle", "reader_lock", "register", "unlocked", "unlock_objs", "aborted", "ret",
                "finish", "done"}
AllLabels == Labels \union SyncLabels \union PauseLabels \union {"version"}

NodeContents == [val : Int, p_next : (Node \ MinNodes) \union {NULL}]
CopyRecord == [actual : Node, data : NodeContents, run_counter : Nat]
Pointers == Node \union Copies \union {NULL}

\* Types of what the library keeps, of the calls and of their pointers.
TypeOK ==
  /\ data \in [Node -> NodeContents] /\ p_obj_copy \in [Node -> Copies \union {NULL}]
  /\ allocated \subseteq Node /\ MinNodes \subseteq allocated
  /\ free_nodes \in [Threads -> SUBSET (Node \ MinNodes)]
  /\ obj_write_set \in [Threads -> [Slots -> Seq(CopyRecord)]]
  /\ g_rlu_writer_version \in Nat
  /\ run_counter \in [Threads -> Nat] /\ local_version \in [Threads -> Nat]
  /\ writer_version \in [Threads -> Nat] /\ q_threads \in [Threads -> [Threads -> Int]]
  /\ ws_head_counter \in [Threads -> Nat] /\ ws_wb_counter \in [Threads -> Nat]
  /\ ws_tail_counter \in [Threads -> Nat] /\ written \in [Threads -> Nat]
  /\ is_write_detected \in [Threads -> BOOLEAN]
  /\ pc \in [Threads -> AllLabels] /\ ret \in [Threads -> AllLabels]
  /\ op \in [Threads -> OpNames \union {"none"}] /\ key \in [Threads -> Keys \union {LIST_VAL_MIN}]
  /\ result \in [Threads -> Int]
  /\ ptr \in [Threads -> [p_prev : Pointers, p_next : Pointers, n : Pointers]]
  /\ into \in [Threads -> {"p_prev", "p_next", "n"}]
  /\ raw \in [Threads -> Node \union {NULL}] /\ copy \in [Threads -> Copies \union {NULL}]

\* An odd run_counter is a section, and versions come from the clock.
Clocks(t) ==
  /\ run_counter[t] % 2 = 1 <=> pc[t] = "version" \/ InSection(t)
  /\ local_version[t] <= g_rlu_writer_version
  /\ pc[t] \notin {"advance", "quiesce", "writeback"} => writer_version[t] = MAX_VERSION
  /\ pc[t] # "writeback" => written[t] = 0

\* Where a synchronization returns to, and whose call it belongs to.
Returning(t) ==
  /\ pc[t] \in SyncLabels =>
       ret[t] \in {"register", "reader_lock", "unlocked", "ret", "finish", "done"}
  /\ \/ pc[t] \in Labels \union {"version", "register", "reader_lock", "unlock_objs", "aborted"}
     \/ pc[t] \in SyncLabels /\ ret[t] \in {"register", "reader_lock"}
     => op[t] \in OpNames /\ key[t] \in Keys

\* The slots from head to wb are written back and wait for the readers of
\* their copies, those from wb to tail are deferred, tail is being written.
Ring(t) ==
  /\ ws_head_counter[t] <= ws_wb_counter[t] /\ ws_wb_counter[t] <= ws_tail_counter[t]
  /\ ws_wb_counter[t] - ws_head_counter[t] <= max_write_sets
  /\ ws_tail_counter[t] - ws_wb_counter[t] <= max_write_sets
  /\ pc[t] \notin SyncLabels => ws_tail_counter[t] - ws_wb_counter[t] < max_write_sets
  /\ pc[t] = "writeback" => ws_head_counter[t] = ws_wb_counter[t]
  /\ pc[t] \in {"commit_version", "sync_end"} => ws_wb_counter[t] = ws_tail_counter[t]

\* An update that was made left something in the log.
Made(t) ==
  /\ result[t] = 1 =>
       \/ pc[t] = "reader_unlock" /\ (op[t] = "contains" \/ is_write_detected[t])
       \/ pc[t] \in {"unlocked", "ret"}
       \/ pc[t] \in SyncLabels /\ ret[t] \in {"unlocked", "ret"}
  /\ pc[t] \in SyncLabels /\ ret[t] = "unlocked" =>
       /\ ws_head_counter[t] < ws_tail_counter[t]
       /\ pc[t] \in {"sync", "advance", "quiesce", "writeback"} =>
            ws_wb_counter[t] < ws_tail_counter[t]
  /\ pc[t] = "unlocked" /\ result[t] = 1 /\ op[t] # "contains" =>
       ws_head_counter[t] < ws_tail_counter[t]

\* A node without successor is the end of a list, and a head is not.
EndsWell(x, d) ==
  /\ d.p_next = NULL => d.val = LIST_VAL_MAX
  /\ x \in MinNodes => d.val # LIST_VAL_MAX
Contained ==
  /\ \A x \in Node : EndsWell(x, data[x])
  /\ \A t \in Threads : \A s \in Slots : \A i \in DOMAIN obj_write_set[t][s] :
       EndsWell(obj_write_set[t][s][i].actual, obj_write_set[t][s][i].data)

\* p points to a copy in the slot of counter c of its owner's log.
InSlot(p, c) ==
  p \in Copies /\ p[2] = WS_INDEX(c) /\ p[3] \in DOMAIN obj_write_set[p[1]][p[2]]

\* A lock of x points to a copy of x that its owner has not written back, made in
\* an earlier section or in this one.
LockedBy(x, u, c) ==
  /\ p_obj_copy[x][1] = u /\ InSlot(p_obj_copy[x], c) /\ Copy(p_obj_copy[x]).actual = x
  /\ \/ c < ws_tail_counter[u] /\ Copy(p_obj_copy[x]).run_counter < run_counter[u]
     \/ /\ c = ws_tail_counter[u] /\ Copy(p_obj_copy[x]).run_counter <= run_counter[u]
        /\ is_write_detected[u] /\ (InSection(u) \/ pc[u] = "unlock_objs")
LocksAtHome ==
  \A x \in Node : p_obj_copy[x] # NULL =>
    \E u \in Threads : \E c \in ws_wb_counter[u] .. ws_tail_counter[u] : LockedBy(x, u, c)

\* The copies written back so far are not what any lock points to.
Unlocked(t) ==
  pc[t] = "writeback" =>
    /\ written[t] <= Len(Deferred(t))
    /\ \A k \in 1 .. written[t] : \A x \in Node : p_obj_copy[x] # Deferred(t)[k]

\* u will not use again what it has written back while t is in its section.
WaitsFor(u, t) ==
  /\ pc[u] \in {"advance", "quiesce"} => local_version[t] < writer_version[u]
  /\ pc[u] = "quiesce" => q_threads[u][t] \in {UNREAD, run_counter[t]}

\* A pointer that t may follow: to an object, to a copy of its own, or to a
\* published copy of another thread.
Safe(t, p) ==
  \/ p \in Node
  \/ \E c \in ws_wb_counter[t] .. ws_tail_counter[t] : InSlot(p, c) /\ p[1] = t
  \/ \E u \in Threads \ {t} : \E c \in ws_head_counter[u] .. ws_tail_counter[u] - 1 :
       InSlot(p, c) /\ p[1] = u /\ (c < ws_wb_counter[u] => WaitsFor(u, t))

\* The copy that t may be about to steal is a published one if it will be taken.
Candidate(t) ==
  /\ copy[t] \in Copies /\ copy[t][1] # t
  /\ writer_version[copy[t][1]] <= local_version[t] =>
       /\ \E c \in ws_wb_counter[copy[t][1]] .. ws_tail_counter[copy[t][1]] - 1 : InSlot(copy[t], c)
       /\ Copy(copy[t]).actual = raw[t]

\* Pointers to the nodes behind the head.
Behind(t, p) == Safe(t, p) /\ FORCE_ACTUAL(p) \in Node \ MinNodes

\* What the pointers of t are at each step of its section.
Standing(t) ==
  /\ ~InSection(t) \/ pc[t] = "commit" => ptr[t] = NoPtr
  /\ ptr[t].p_prev # NULL => Safe(t, ptr[t].p_prev)
  /\ ptr[t].p_next # NULL => Behind(t, ptr[t].p_next)
  /\ ptr[t].n # NULL => Behind(t, ptr[t].n)
  /\ pc[t] \in {"deref", "steal"} =>
       /\ raw[t] \in Node /\ (into[t] = "p_prev" <=> raw[t] \in MinNodes)
       /\ into[t] # "p_prev" => ptr[t].p_prev # NULL
       /\ into[t] = "n" => ptr[t].p_next # NULL
  /\ pc[t] = "steal" => Candidate(t)
  /\ pc[t] = "next" => Safe(t, ptr[t].p_prev) /\ FORCE_ACTUAL(ptr[t].p_prev) \in MinNodes
  /\ pc[t] \in {"visit", "lock", "cas", "write"} =>
       ptr[t].p_prev # NULL /\ ptr[t].p_next # NULL
  /\ pc[t] = "visit" => into[t] = "p_prev"
  /\ pc[t] \in {"lock", "cas", "write"} =>
       /\ op[t] = "remove" => ptr[t].n # NULL
       /\ into[t] \in {"p_prev", "p_next"}
       /\ into[t] = "p_next" => /\ is_write_detected[t]
                                /\ ptr[t].p_prev \in Copies /\ ptr[t].p_prev[1] = t
  /\ pc[t] = "cas" => is_write_detected[t]
  /\ pc[t] = "write" => into[t] = "p_next"

LogInv == /\ TypeOK /\ Contained /\ LocksAtHome
          /\ \A t \in Threads : /\ Clocks(t) /\ Returning(t) /\ Ring(t) /\ Made(t)
                                /\ Unlocked(t) /\ Standing(t)

\* The clock does not reach the value that stands for "not synchronizing".
ClockInRange == g_rlu_writer_version < MAX_VERSION

-----------------------------------------------------------------------------
(* The copies that a write-back goes through *)

\* The copies in the slot of counter c.
Piece(t, log, c) == [i \in DOMAIN log[WS_INDEX(c)] |-> <<t, WS_INDEX(c), i>>]

\* The members of D are the copies in the slots of the counters from lo to hi - 1.
Gathers(D, t, log, lo, hi) ==
  /\ D \in Seq(Copies)
  /\ \A p : (\E k \in 1 .. Len(D) : D[k] = p)
            <=> \E c \in lo .. hi - 1 : \E i \in DOMAIN log[WS_INDEX(c)] : p = <<t, WS_INDEX(c), i>>

\* The recursive function in CopiesFrom.
IsFrom(f, t, log, lo, hi) ==
  f = [c \in lo .. hi |-> IF c = hi THEN <<>> ELSE Piece(t, log, c) \o f[c + 1]]

-----------------------------------------------------------------------------
(* What a step of one thread leaves alone *)

\* Nothing that belongs to thread u changes.
SameThread(u) ==
  /\ pc'[u] = pc[u] /\ ret'[u] = ret[u] /\ op'[u] = op[u] /\ key'[u] = key[u]
  /\ result'[u] = result[u] /\ ptr'[u] = ptr[u] /\ into'[u] = into[u]
  /\ raw'[u] = raw[u] /\ copy'[u] = copy[u]
  /\ run_counter'[u] = run_counter[u] /\ local_version'[u] = local_version[u]
  /\ writer_version'[u] = writer_version[u] /\ q_threads'[u] = q_threads[u]
  /\ obj_write_set'[u] = obj_write_set[u] /\ is_write_detected'[u] = is_write_detected[u]
  /\ ws_head_counter'[u] = ws_head_counter[u] /\ ws_wb_counter'[u] = ws_wb_counter[u]
  /\ ws_tail_counter'[u] = ws_tail_counter[u] /\ written'[u] = written[u]
SameOthers(t) == \A u \in Threads \ {t} : SameThread(u)

\* What others may be reading in the log of t stays there ...
LogKept(t, u) ==
  \A p \in Copies : \A c \in ws_head_counter[t] .. ws_tail_counter[t] - 1 :
    p[1] = t /\ InSlot(p, c) /\ (c < ws_wb_counter[t] => WaitsFor(t, u)) =>
      /\ c \in ws_head_counter'[t] .. ws_tail_counter'[t] - 1 /\ InSlot(p, c)'
      /\ c < ws_wb_counter'[t] => WaitsFor(t, u)'
      /\ Copy(p)'.actual = Copy(p).actual

\* ... also what u may be about to steal.
OfferKept(t, u) ==
  writer_version'[t] <= local_version[u] =>
    /\ writer_version[t] <= local_version[u]
    /\ \A p \in Copies : \A c \in ws_wb_counter[t] .. ws_tail_counter[t] - 1 :
         p[1] = t /\ InSlot(p, c) =>
           /\ c \in ws_wb_counter'[t] .. ws_tail_counter'[t] - 1 /\ InSlot(p, c)'
           /\ Copy(p)'.actual = Copy(p).actual

\* What the invariant says about the control of one thread.
ThreadInv(u) == Clocks(u) /\ Returning(u) /\ Ring(u) /\ Made(u) /\ Unlocked(u) /\ Standing(u)

\* The log of t keeps its copies, and of which objects they are.
LogGrows(t) ==
  /\ ws_head_counter'[t] = ws_head_counter[t] /\ ws_wb_counter'[t] = ws_wb_counter[t]
  /\ ws_tail_counter'[t] = ws_tail_counter[t]
  /\ \A s \in Slots : \A i \in DOMAIN obj_write_set[t][s] :
       /\ i \in DOMAIN obj_write_set'[t][s]
       /\ obj_write_set'[t][s][i].actual = obj_write_set[t][s][i].actual
       /\ obj_write_set'[t][s][i].run_counter = obj_write_set[t][s][i].run_counter

-----------------------------------------------------------------------------
(* What the code is meant to do at lines 563 and 564 *)

\* One thread at a time has taken the next version and not advanced the clock.
OneAdvances ==
  /\ \A u \in Threads : pc[u] = "advance" => writer_version[u] = g_rlu_writer_version + 1
  /\ \A u, v \in Threads : pc[u] = "advance" /\ pc[v] = "advance" => u = v

-----------------------------------------------------------------------------
(* The heap.  B is the set of the nodes in the lists of the objects        *)
(* themselves, d their contents, k their locks, c the contents they will   *)
(* have when everything deferred is written back, a the objects in memory, *)
(* f what each thread will free.                                           *)

Sentinels == MinNodes \union MaxNodes

\* The bucket of a node of the lists.
Home(d, x) == IF x \in DataNodes THEN Hash(d[x].val)
              ELSE CHOOSE b \in Buckets : x = MinNode[b] \/ x = MaxNode[b]

\* y follows x in the list of its bucket.
Edge(B, d, x, y) ==
  /\ y \in B /\ Home(d, y) = Home(d, x) /\ d[x].val < d[y].val
  /\ \A z \in B : Home(d, z) = Home(d, x) => d[z].val <= d[x].val \/ d[y].val <= d[z].val

\* The lists are sorted and end in their sentinels.
Linked(B, d) ==
  /\ Sentinels \subseteq B
  /\ \A x \in MinNodes : d[x].val = LIST_VAL_MIN
  /\ \A x \in MaxNodes : d[x].val = LIST_VAL_MAX /\ d[x].p_next = NULL
  /\ \A x \in B \intersect DataNodes : d[x].val \in Keys
  /\ \A x \in B \ MaxNodes : Edge(B, d, x, d[x].p_next)
  /\ \A x, y \in B : Home(d, x) = Home(d, y) /\ d[x].val = d[y].val => x = y

\* Types.
HeapTypes(B, d, k, c, a, f) ==
  /\ d \in [Node -> NodeContents] /\ c \in [Node -> NodeContents]
  /\ k \in [Node -> Copies \union {NULL}] /\ f \in [Threads -> SUBSET DataNodes]
  /\ B \subseteq a /\ a \subseteq Node

-----------------------------------------------------------------------------
(* Deferred changes, and what a section sees of them *)

\* The changed node x gets a new successor.
Adds(B, d, c, a, x) ==
  LET q == d[x].p_next
      y == c[x].p_next
  IN  /\ y \in (a \intersect DataNodes) \ B /\ d[y].p_next = q /\ d[y].val \in Keys
      /\ Hash(d[y].val) = Home(d, x) /\ d[x].val < d[y].val /\ d[y].val < d[q].val

\* The successor of the changed node x is skipped, and will be freed.
Removes(d, k, c, f, x) ==
  LET q == d[x].p_next
  IN  q \in f[k[x][1]] /\ c[x].p_next = d[q].p_next

\* Whoever changes x has locked x first and then its successor.
Change(B, d, k, c, a, f, x) ==
  /\ x \in B \ MaxNodes /\ k[x] # NULL /\ k[x][3] = 1
  /\ k[d[x].p_next] = <<k[x][1], k[x][2], 2>>
  /\ c[x].val = d[x].val
  /\ Adds(B, d, c, a, x) \/ Removes(d, k, c, f, x)
Changes(B, d, k, c, a, f) == \A x \in Node : c[x] # d[x] => Change(B, d, k, c, a, f, x)

Locks(d, k, c, a) ==
  /\ \A x, y \in Node : k[x] # NULL /\ k[x] = k[y] => x = y
  /\ \A x \in Node : IF k[x] = NULL THEN c[x] = d[x] ELSE x \in a

\* What u will free is unlinked by a change of u, or already unlinked: then
\* nothing leads to it, and nobody but u has it.
Freeing(B, d, k, c, a, f, u, x) ==
  /\ x \in a
  /\ x \in B => \E p \in B : /\ c[p] # d[p] /\ d[p].p_next = x /\ k[p][1] = u
                             /\ Removes(d, k, c, f, p)
  /\ x \notin B => /\ k[x] # NULL => k[x][1] = u
                   /\ \A p \in B : c[p].p_next # x
                   /\ \A v \in Threads \ {u} : x \notin f[v]
Frees(B, d, k, c, a, f) == \A u \in Threads : \A x \in f[u] : Freeing(B, d, k, c, a, f, u, x)

IsHeap(B, d, k, c, a, f) ==
  /\ HeapTypes(B, d, k, c, a, f) /\ Linked(B, d) /\ Locks(d, k, c, a)
  /\ Changes(B, d, k, c, a, f) /\ Frees(B, d, k, c, a, f)

\* The nodes in the lists, and their contents, for somebody who sees the changes
\* of the threads in W.
View(B, k, c, f, W) ==
  {x \in B : \A u \in W : x \notin f[u]} \union
  {x \in Node \ B : \E p \in B : k[p] # NULL /\ k[p][1] \in W /\ c[p].p_next = x}
Vis(d, k, c, W, x) == IF k[x] # NULL /\ k[x][1] \in W THEN c[x] ELSE d[x]

-----------------------------------------------------------------------------
(* What each step does to the heap *)

\* The heap after a step (C, e, l, g, h) looks the same to somebody who sees V as
\* the heap before it did with W.
Kept(B, d, k, c, f, W, C, e, l, g, h, V) ==
  /\ View(C, l, g, h, V) = View(B, k, c, f, W)
  /\ \A x \in View(B, k, c, f, W) :
       /\ Vis(e, l, g, V, x) = Vis(d, k, c, W, x) /\ e[x].val = d[x].val
       /\ d[x] = Vis(d, k, c, W, x) => e[x] = Vis(d, k, c, W, x)

\* Thread t, in its log s, allocates the node y with the contents n and links it
\* in the copy of x, before q: the nodes are then e and their copies g.
AddsNode(B, d, k, c, a, f, t, s, x, q, y, n, e, g) ==
  /\ IsHeap(B, d, k, c, a, f) /\ t \in Threads /\ x \in B \ MaxNodes /\ q = d[x].p_next
  /\ k[x] \in Copies /\ k[x] = <<t, s, 1>> /\ k[q] = <<t, s, 2>> /\ c[x] = d[x]
  /\ y \in DataNodes \ a /\ n \in NodeContents /\ n.p_next = q /\ n.val \in Keys
  /\ Hash(n.val) = Home(d, x) /\ d[x].val < n.val /\ n.val < d[q].val
  /\ e \in [Node -> NodeContents] /\ e[y] = n /\ \A z \in Node \ {y} : e[z] = d[z]
  /\ g \in [Node -> NodeContents] /\ g[y] = n /\ \A z \in Node \ {x, y} : g[z] = c[z]
  /\ g[x].val = d[x].val /\ g[x].p_next = y

\* Thread t, in its log s, skips q in the copy of x and will free it: the
\* copies are then g and the nodes to free h.
RemovesNode(B, d, k, c, a, f, t, s, x, q, g, h) ==
  /\ IsHeap(B, d, k, c, a, f) /\ t \in Threads /\ x \in B \ MaxNodes
  /\ q \in DataNodes /\ q = d[x].p_next
  /\ k[x] \in Copies /\ k[x] = <<t, s, 1>> /\ k[q] = <<t, s, 2>> /\ c[x] = d[x]
  /\ g \in [Node -> NodeContents] /\ \A z \in Node \ {x} : g[z] = c[z]
  /\ g[x].val = d[x].val /\ g[x].p_next = d[q].p_next
  /\ h \in [Threads -> SUBSET DataNodes] /\ h[t] = f[t] \union {q}
  /\ \A u \in Threads \ {t} : h[u] = f[u]

-----------------------------------------------------------------------------
(* What a step of t leaves alone *)

\* Types of what the invariant of the logs is not about.
ExtraTypes ==
  /\ is_steal \in [Threads -> BOOLEAN] /\ is_check_locks \in [Threads -> BOOLEAN]
  /\ set \in SUBSET Keys /\ delta \in [Threads -> SUBSET Keys]
  /\ view \in [Threads -> (SUBSET Keys) \union {NULL}]

\* Nor does the rest of what belongs to u change.
SameRest(u) ==
  /\ is_steal'[u] = is_steal[u] /\ is_check_locks'[u] = is_check_locks[u]
  /\ free_nodes'[u] = free_nodes[u] /\ delta'[u] = delta[u] /\ view'[u] = view[u]
Apart(t) == SameOthers(t) /\ \A u \in Threads \ {t} : SameRest(u)

-----------------------------------------------------------------------------
(* Who has been waited for, and which sections skip the locks *)

\* Who writes back, or need not wait for a section any more, has a version that
\* the section has seen.
WaitInv ==
  \A u \in Threads :
    /\ pc[u] \in {"quiesce", "writeback"} => writer_version[u] <= g_rlu_writer_version
    /\ \A t \in Threads : InSection(t) =>
         /\ pc[u] = "quiesce" /\ q_threads[u][t] \notin {UNREAD, run_counter[t]} =>
              writer_version[u] <= local_version[t]
         /\ pc[u] = "writeback" => writer_version[u] <= local_version[t]

\* The synchronizations that are counted by the one clock and not by the other.
Pending == {u \in Threads : pc[u] \in {"quiesce", "writeback", "commit_version"}}
Behindhand(t) == {u \in Threads : pc[u] = "quiesce" /\ writer_version[u] > local_version[t]}

\* A section that does not steal is older than every synchronization, and one that
\* does not look at locks has none itself.
Skips(t) ==
  /\ ~is_steal[t] => \A u \in Threads : writer_version[u] > local_version[t]
  /\ ~is_check_locks[t] => /\ ~is_steal[t] /\ ws_tail_counter[t] = ws_wb_counter[t]
                           /\ ~is_write_detected[t]

CommitInv ==
  /\ g_rlu_commit_version \in Nat
  /\ g_rlu_writer_version = g_rlu_commit_version + Cardinality(Pending)
  /\ \A t \in Threads :
       /\ is_write_detected[t] =>
            pc[t] \in {"lock", "cas", "write", "reader_unlock", "abort", "unlock_objs"}
       /\ pc[t] = "commit" =>
            g_rlu_writer_version = local_version[t] + Cardinality(Behindhand(t))
       /\ InSection(t) /\ pc[t] # "commit" => Skips(t)

PendingLabels == {"quiesce", "writeback", "commit_version"}
WriteLabels == {"lock", "cas", "write", "reader_unlock", "abort", "unlock_objs"}

Waits == WaitInv /\ CommitInv

-----------------------------------------------------------------------------
(* The state, seen as a heap *)

\* What a node will contain when its lock is written back.
Pend == [x \in Node |-> IF p_obj_copy[x] = NULL THEN data[x] ELSE Copy(p_obj_copy[x]).data]
Heap(B) == IsHeap(B, data, p_obj_copy, Pend, allocated, free_nodes)

\* What is seen with the changes of the threads in W: the nodes, and their values.
Sight(B, W) == View(B, p_obj_copy, Pend, free_nodes, W)
Values(B, d, k, c, f, W) == {d[x].val : x \in View(B, k, c, f, W) \ Sentinels}
Vals(B, W) == Values(B, data, p_obj_copy, Pend, free_nodes, W)

\* The threads whose changes the section of t sees, the nodes in its lists, and
\* their contents.
Sees(t) == {u \in Threads : writer_version[u] <= local_version[t]} \union {t}
SV(B, t) == Sight(B, Sees(t))
SC(t, x) == Vis(data, p_obj_copy, Pend, Sees(t), x)

\* A pointer that leads to what the section is to see.
Act(p) == FORCE_ACTUAL(p)
Good(B, t, p) == Act(p) \in SV(B, t) /\ Contents(p) = SC(t, Act(p))
PtrSet(t) == {ptr[t].p_prev, ptr[t].p_next, ptr[t].n} \ {NULL}

\* p_prev is before the value of the call, in its bucket; q is the node behind p.
Before(t) ==
  data[Act(ptr[t].p_prev)].val < key[t] /\ Home(data, Act(ptr[t].p_prev)) = Hash(key[t])
Follows(t, p, q) == SC(t, Act(p)).p_next = q

\* What the log of t contains while t holds p_prev and p_next, or is about to.
LogOf(t) ==
  IF pc[t] = "write"
  THEN /\ Len(CurrentSet(t)) = 2 /\ ptr[t].p_prev = <<t, CurrentSlot(t), 1>>
       /\ ptr[t].p_next = <<t, CurrentSlot(t), 2>>
  ELSE IF into[t] = "p_next"
       THEN Len(CurrentSet(t)) = 1 /\ ptr[t].p_prev = <<t, CurrentSlot(t), 1>>
       ELSE CurrentSet(t) = <<>>

\* What the pointers of the section of t lead to.
PtrInv(B, t) ==
  /\ pc[t] \notin {"deref", "steal"} => raw[t] = NULL
  /\ InSection(t) /\ pc[t] # "reader_unlock" => \A p \in PtrSet(t) : Good(B, t, p)
  /\ pc[t] = "reader_unlock" => \A p \in PtrSet(t) : Act(p) \in SV(B, t) \union free_nodes[t]
  /\ InSection(t) /\ op[t] # "remove" => ptr[t].n = NULL
  /\ pc[t] \in {"deref", "steal"} =>
       /\ raw[t] \in SV(B, t)
       /\ into[t] = "p_prev" => raw[t] = MinNode[Hash(key[t])]
       /\ into[t] # "p_prev" => Before(t)
       /\ into[t] = "p_next" => Follows(t, ptr[t].p_prev, raw[t])
       /\ into[t] = "n" => /\ op[t] = "remove" /\ Follows(t, ptr[t].p_prev, Act(ptr[t].p_next))
                           /\ data[Act(ptr[t].p_next)].val = key[t]
                           /\ Follows(t, ptr[t].p_next, raw[t])
  /\ pc[t] = "steal" =>
       /\ p_obj_copy[raw[t]] # NULL /\ p_obj_copy[raw[t]][1] \in Sees(t) => p_obj_copy[raw[t]] = copy[t]
       /\ writer_version[copy[t][1]] <= local_version[t] => Copy(copy[t]).data = SC(t, raw[t])
  /\ pc[t] = "next" => Act(ptr[t].p_prev) = MinNode[Hash(key[t])]
  /\ pc[t] \in {"visit", "lock", "cas", "write"} =>
       Before(t) /\ Follows(t, ptr[t].p_prev, Act(ptr[t].p_next))
  /\ pc[t] \in {"lock", "cas", "write"} =>
       /\ op[t] \in {"add", "remove"}
       /\ op[t] = "add" => key[t] < data[Act(ptr[t].p_next)].val
       /\ op[t] = "remove" => /\ key[t] = data[Act(ptr[t].p_next)].val
                              /\ Follows(t, ptr[t].p_next, Act(ptr[t].n))
       /\ LogOf(t)
  /\ pc[t] = "abort" => op[t] \in {"add", "remove"}

\* The slots of the log of t that hold copies.
InUse(t, s) == \/ \E c \in ws_head_counter[t] .. ws_tail_counter[t] - 1 : s = WS_INDEX(c)
               \/ s = CurrentSlot(t) /\ is_write_detected[t]

\* Every copy that is not written back is what the lock of its object points to.
SlotInv(t) ==
  /\ \A k \in written[t] + 1 .. Len(Deferred(t)) :
       p_obj_copy[Copy(Deferred(t)[k]).actual] = Deferred(t)[k]
  /\ is_write_detected[t] =>
       /\ \A i \in DOMAIN CurrentSet(t) :
            p_obj_copy[CurrentSet(t)[i].actual] = <<t, CurrentSlot(t), i>>
       /\ pc[t] # "reader_unlock" => \A i \in DOMAIN CurrentSet(t) :
            CurrentSet(t)[i].data = data[CurrentSet(t)[i].actual]
  /\ \A s \in Slots : ~InUse(t, s) => obj_write_set[t][s] = <<>>

\* The threads whose changes are published and not all written back, and those
\* among them that write back.
Published == {u \in Threads : pc[u] \in {"quiesce", "writeback"}}
Writing == {u \in Threads : pc[u] = "writeback"}

\* With the changes of t the values are those without them, but for delta[t].
Differs(B, t) ==
  \A W \in SUBSET (Threads \ {t}) :
    Writing \subseteq W => Vals(B, W \union {t}) = Toggle(Vals(B, W), delta[t])

\* The history variables are what the heap says.
SetInv(B) ==
  /\ set = Vals(B, Published)
  /\ \A t \in Threads :
       /\ IF t \in Published THEN delta[t] = {} ELSE Differs(B, t)
       /\ view[t] # NULL <=> InSection(t) /\ pc[t] # "reader_unlock"
       /\ view[t] # NULL => view[t] = Vals(B, Sees(t))

ObjectInv(B) == Heap(B) /\ SetInv(B) /\ \A t \in Threads : PtrInv(B, t) /\ SlotInv(t)
ObjInv == \E B \in SUBSET Node : ObjectInv(B)

-----------------------------------------------------------------------------
(* What a step leaves of the sections of the others *)

KeptFor(B, C, W, V) ==
  Kept(B, data, p_obj_copy, Pend, free_nodes, W, C, data', p_obj_copy', Pend', free_nodes', V)

\* The copies that u may be reading in the log of t.
CopiesKept(t, u) ==
  \A p \in Copies : \A c \in ws_head_counter[t] .. ws_tail_counter[t] - 1 :
    p[1] = t /\ InSlot(p, c) /\ (c < ws_wb_counter[t] => WaitsFor(t, u)) => Copy(p)' = Copy(p)

\* Sees(u)'
SeesNext(u) == {v \in Threads : writer_version'[v] <= local_version'[u]} \union {u}

\* The section of u sees after a step of t what it saw.
SightKept(t, u, B, C) ==
  /\ SeesNext(u) \subseteq Sees(u) /\ KeptFor(B, C, Sees(u), SeesNext(u)) /\ CopiesKept(t, u)
  /\ \A x \in Node : p_obj_copy'[x] # NULL /\ p_obj_copy'[x][1] \in SeesNext(u) =>
       p_obj_copy'[x] = p_obj_copy[x]

\* The locks of u stay, and what they lock.
OwnedKept(u) ==
  \A x \in Node : p_obj_copy[x] # NULL /\ p_obj_copy[x][1] = u =>
    p_obj_copy'[x] = p_obj_copy[x] /\ data'[x] = data[x]

-----------------------------------------------------------------------------
(* Steps that leave the objects and the copies alone *)

HeapUntouched == UNCHANGED <<data, p_obj_copy, allocated, free_nodes, obj_write_set>>

\* Neither does the version of t change for the sections of the others.
VersionKept(t) ==
  \A u \in Threads \ {t} : InSection(u) =>
    (writer_version'[t] <= local_version[u] <=> writer_version[t] <= local_version[u])

-----------------------------------------------------------------------------
(* Steps outside sections that leave the objects and the copies alone *)

Base == LogInv /\ ExtraTypes /\ ClockInRange /\ OneAdvances /\ Waits

-----------------------------------------------------------------------------
(* The write sets as functions *)

\* The copies in the slots of the counters from lo to hi - 1 are what locks point to.
LogLocks(t, log, k, lo, hi) ==
  \A c \in lo .. hi - 1 : \A i \in DOMAIN log[WS_INDEX(c)] :
    k[log[WS_INDEX(c)][i].actual] = <<t, WS_INDEX(c), i>>

\* The copies of D are what locks point to.
SeqLocks(D, log, k) == \A j \in 1 .. Len(D) : k[log[D[j][2]][D[j][3]].actual] = D[j]
SeqOf(t, D) == Len(D) \in Nat /\ \A j \in 1 .. Len(D) : D[j][1] = t

-----------------------------------------------------------------------------
(* The order of the deferred copies *)

\* A copy that is second in its write set comes right after the first, and none
\* comes twice.
Ordered(t, D) ==
  /\ D \in Seq(Copies)
  /\ \A k \in 1 .. Len(D) : D[k][3] = 2 => k - 1 \in 1 .. Len(D) /\ D[k - 1] = <<t, D[k][2], 1>>
  /\ \A j, k \in 1 .. Len(D) : D[j] = D[k] => j = k

-----------------------------------------------------------------------------
(* Giving locks back *)

\* X is the set of the objects whose copies are in S.
Actuals(X, S) == \A y : y \in X <=> \E i \in DOMAIN S : S[i].actual = y

\* X is what t has locked in slot s; none of it is changed.
LockedIn(t, s, X) ==
  /\ X \subseteq Node
  /\ \A x \in X : /\ p_obj_copy[x] # NULL /\ p_obj_copy[x] \in Copies
                  /\ p_obj_copy[x][1] = t /\ p_obj_copy[x][2] = s /\ Pend[x] = data[x]
  /\ \A y \in Node : p_obj_copy[y] # NULL /\ p_obj_copy[y][1] = t /\ p_obj_copy[y][2] = s => y \in X
  /\ \A y \in Node : Pend[y] # data[y] => data[y].p_next \notin X

-----------------------------------------------------------------------------
(* Both neighbours are locked *)

\* What t has locked in slot s, and what it is to write.
BothLocked(B, t, s, x, q) ==
  /\ x \in B \ MaxNodes /\ q = data[x].p_next /\ x \in Node /\ q \in Node
  /\ p_obj_copy[x] \in Copies /\ p_obj_copy[x] = <<t, s, 1>> /\ p_obj_copy[q] = <<t, s, 2>>
  /\ Pend[x] = data[x] /\ ptr[t].p_prev = <<t, s, 1>> /\ Copy(<<t, s, 1>>).data = data[x]
  /\ DOMAIN obj_write_set[t][s] = 1 .. 2
  /\ data[x].val < key[t] /\ Home(data, x) = Hash(key[t])
  /\ op[t] = "add" => key[t] < data[q].val
  /\ op[t] = "remove" => q \in DataNodes /\ data[q].val = key[t] /\ Act(ptr[t].n) = data[q].p_next

-----------------------------------------------------------------------------
(* What a change means for the history variables *)

\* For those who see the changes of t the membership of v changes; before, all
\* agree on it.
NextVals(B, W) == Values(B, data', p_obj_copy', Pend', free_nodes', W)
Flips(B, t, v) ==
  \A W \in SUBSET Threads :
    /\ v \in Vals(B, W) <=> v \in set
    /\ t \in W => NextVals(B, W) = Toggle(Vals(B, W), {v})

-----------------------------------------------------------------------------
(* The initial state *)

\* What holds in every state, if one thread at a time advances the clock.
RluInv == LogInv /\ OneAdvances /\ ExtraTypes /\ Waits /\ ObjInv

-----------------------------------------------------------------------------
(* The list implements SnapshotSet *)

\* Between the calls of t, and between the decision of one and its return.
Outside(t) == \/ pc[t] \in {"idle", "finish", "done"}
              \/ pc[t] \in SyncLabels /\ ret[t] \in {"finish", "done"}
Decided(t) == \/ pc[t] \in {"reader_unlock", "unlocked", "ret"}
              \/ pc[t] \in SyncLabels /\ ret[t] \in {"unlocked", "ret"}
              \/ pc[t] \in {"unlock_objs", "aborted"} /\ bench = "rlu-forgive"

\* The answer of a call is open until it has decided or given up.
CallOf(t) == (op[t] = "none" <=> Outside(t)) /\ (result[t] # PENDING <=> Decided(t))
CallInv == bench \in {"rlu", "rlu-forgive"} /\ \A t \in Threads : CallOf(t)

-----------------------------------------------------------------------------
(* A walk along the lists meets what a section is to see *)

\* The nodes in sight of x's list below x.
Lower(d, V, x) == {y \in V : Home(d, y) = Home(d, x) /\ d[y].val < d[x].val}

-----------------------------------------------------------------------------
(* The walk of Seen *)

\* What the walk of thread self goes to for object x.
Goes(self, lv, steal, check, x) ==
  LET c == p_obj_copy[x]
  IN  IF ~check \/ c = NULL THEN x
      ELSE IF ThreadOf(c) = self THEN c
      ELSE IF steal THEN StealOrNot(lv, x, c) ELSE x

\* One more step of the walk, and the walk as a recursive function.
WalkOn(S, self, lv, steal, check) ==
  S \union {Goes(self, lv, steal, check, x) : x \in {Contents(p).p_next : p \in S} \ {NULL}}
IsWalk(f, m, self, lv, steal, check) ==
  f = [i \in 0..m |-> IF i = 0 THEN {Goes(self, lv, steal, check, x) : x \in MinNodes}
                      ELSE WalkOn(f[i - 1], self, lv, steal, check)]

-----------------------------------------------------------------------------
(* What the walk goes to is what is to be seen *)

\* A section that has not read the commit version is to look at the locks and to steal.
FlagsInv == \A t \in Threads : pc[t] \in {"version", "commit"} => is_steal[t] /\ is_check_locks[t]

=============================================================================
