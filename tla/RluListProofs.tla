--------------------------- MODULE RluListProofs ---------------------------
(***************************************************************************)
(* Machine-checked proofs about RluList, for any number of threads, keys,  *)
(* buckets and objects, any number of deferred write sets and calls.       *)
(* First the logs of the threads, also if threads advance the clock        *)
(* together; then, if one at a time does, the objects: the lists as the    *)
(* sections of the threads see them, step by step.                         *)
(***************************************************************************)
EXTENDS RluInvariants, FiniteSetTheorems, WellFoundedInduction, TLAPS

-----------------------------------------------------------------------------
(* The ring of write sets *)

\* Division with remainder.
LEMMA Division ==
  ASSUME NEW R \in Nat \ {0}, NEW c \in Nat
  PROVE  c = R * (c \div R) + (c % R) /\ c % R \in 0 .. R - 1 /\ c \div R \in Nat
OBVIOUS

\* Different multiples of R are at least R apart.
LEMMA MultiplesApart ==
  ASSUME NEW R \in Nat \ {0}, NEW a \in Int, NEW b \in Int, a < b
  PROVE  R * b - R * a >= R
<1>4. QED OBVIOUS

\* Counters less than R apart have different remainders.
LEMMA RemaindersApart ==
  ASSUME NEW R \in Nat \ {0}, NEW c \in Nat, NEW d \in Nat, c < d, d - c < R
  PROVE  c % R # d % R
<1>1. SUFFICES ASSUME c % R = d % R PROVE FALSE OBVIOUS
<1> DEFINE a == c \div R
<1> DEFINE b == d \div R
<1>2. c = R * a + (c % R) /\ a \in Nat /\ c % R \in Nat BY Division
<1>3. d = R * b + (d % R) /\ b \in Nat BY Division
<1> HIDE DEF a, b
<1>5. a < b BY <1>2, <1>3, <1>1, MultiplesApart
<1>6. QED BY <1>2, <1>3, <1>1, <1>5, MultiplesApart

\* WS_INDEX() is a slot, and the slots in use do not overlap.
LEMMA IndexFacts ==
  /\ \A c \in Nat : WS_INDEX(c) \in Slots
  /\ \A c, d \in Nat : c < d /\ d - c < RLU_MAX_WRITE_SETS => WS_INDEX(c) # WS_INDEX(d)
<1>1. RLU_MAX_WRITE_SETS \in Nat \ {0} BY RluInitAssumption
<1>4. QED BY <1>1, Division, RemaindersApart DEF WS_INDEX, Slots

\* The slots from head to tail - 1, outside of a synchronization also the
\* current one, are different.
LEMMA RingFacts ==
  ASSUME TypeOK, NEW t \in Threads, Ring(t)
  PROVE  /\ ws_head_counter[t] \in Nat /\ ws_wb_counter[t] \in Nat /\ ws_tail_counter[t] \in Nat
         /\ CurrentSlot(t) \in Slots
         /\ \A c, d \in ws_head_counter[t] .. ws_tail_counter[t] :
              /\ WS_INDEX(c) \in Slots
              /\ c # d /\ (pc[t] \notin SyncLabels \/ (c < ws_tail_counter[t] /\ d < ws_tail_counter[t]))
                 => WS_INDEX(c) # WS_INDEX(d)
<1> DEFINE head == ws_head_counter[t]
<1> DEFINE wb == ws_wb_counter[t]
<1> DEFINE tail == ws_tail_counter[t]
<1>1. head \in Nat /\ wb \in Nat /\ tail \in Nat BY DEF TypeOK
<1>3. ASSUME NEW c \in head .. tail, NEW d \in head .. tail, c # d,
             pc[t] \notin SyncLabels \/ (c < tail /\ d < tail)
      PROVE  WS_INDEX(c) # WS_INDEX(d) BY <1>1, <1>3, RluInitAssumption, IndexFacts DEF Ring
<1>6. QED BY <1>1, <1>3, IndexFacts DEF CurrentSlot

-----------------------------------------------------------------------------
(* The copies that a write-back goes through *)

\* Every set of natural numbers that is not empty has a least member.
LEMMA LeastNatural ==
  ASSUME NEW S \in SUBSET Nat, S # {}
  PROVE  \E m \in S : \A i \in S : m <= i
<1>1. PICK m \in S : \A i \in S : ~(<<i, m>> \in OpToRel(<, Nat)) BY WFMin, NatLessThanWellFounded
<1>2. \A i \in S : ~(i < m) BY <1>1 DEF OpToRel
<1>3. QED BY <1>2

\* There is such a function.
LEMMA FromExists ==
  ASSUME NEW t, NEW log, NEW hi \in Nat, NEW n \in Nat, n <= hi
  PROVE  \E f : IsFrom(f, t, log, hi - n, hi)
<1> DEFINE Bad == {m \in 0 .. hi : ~\E f : IsFrom(f, t, log, hi - m, hi)}
<1>1. SUFFICES ASSUME Bad # {} PROVE FALSE
  <2>1. n \in 0 .. hi /\ (n \notin Bad => \E f : IsFrom(f, t, log, hi - n, hi)) OBVIOUS
  <2>2. QED BY <2>1
<1>2. PICK m \in Bad : \A i \in Bad : m <= i
  <2>1. Bad \in SUBSET Nat OBVIOUS
  <2>2. QED BY <1>1, <2>1, LeastNatural
<1>3. CASE m = 0
  <2>1. IsFrom([c \in hi .. hi |-> <<>>], t, log, hi, hi) BY DEF IsFrom
  <2>3. QED BY <1>2, <2>1, <1>3
<1>4. CASE m # 0
  <2> DEFINE lo == hi - m
  <2>2. PICK f : IsFrom(f, t, log, lo + 1, hi) BY <1>2, <1>4
  <2>3. lo \in Nat /\ lo < hi BY <1>2, <1>4
  <2> DEFINE g == [c \in lo .. hi |-> IF c = lo THEN Piece(t, log, lo) \o f[lo + 1] ELSE f[c]]
  <2> HIDE DEF lo
  <2>5. ASSUME NEW c \in lo .. hi
        PROVE  g[c] = IF c = hi THEN <<>> ELSE Piece(t, log, c) \o g[c + 1]
    <3>1. CASE c = lo BY <2>3, <3>1
    <3>2. CASE c # lo
      <4>1. c \in lo + 1 .. hi /\ (c # hi => c + 1 \in lo .. hi /\ c + 1 # lo) BY <2>3, <3>2
      <4>3. QED BY <3>2, <4>1, <2>2 DEF IsFrom
    <3>3. QED BY <3>1, <3>2
  <2>6. IsFrom(g, t, log, lo, hi) BY <2>5, SMTT(30) DEF IsFrom
  <2>7. QED BY <1>2, <2>6 DEF lo
<1>5. QED BY <1>3, <1>4

\* What the sequence is.
LEMMA FromIs ==
  ASSUME NEW t, NEW log, NEW lo \in Nat, NEW hi \in Nat, lo <= hi
  PROVE  \E f : IsFrom(f, t, log, lo, hi) /\ CopiesFrom(t, log, lo, hi) = f[lo]
<1> DEFINE F == CHOOSE f : f = [c \in lo .. hi |->
                  IF c = hi THEN <<>>
                  ELSE [i \in DOMAIN log[WS_INDEX(c)] |-> <<t, WS_INDEX(c), i>>] \o f[c + 1]]
<1>1. \E f : f = [c \in lo .. hi |->
                  IF c = hi THEN <<>>
                  ELSE [i \in DOMAIN log[WS_INDEX(c)] |-> <<t, WS_INDEX(c), i>>] \o f[c + 1]]
  <2>1. hi - lo \in Nat /\ hi - lo <= hi /\ hi - (hi - lo) = lo OBVIOUS
  <2>3. \E f : IsFrom(f, t, log, lo, hi) BY <2>1, FromExists
  <2>4. QED BY <2>3, Zenon DEF IsFrom, Piece
<1>4. QED BY <1>1, Zenon DEF IsFrom, Piece, CopiesFrom

\* It lists exactly the copies in the slots of the counters from lo to hi - 1.
LEMMA CopiesFromFacts ==
  ASSUME NEW t \in Threads, NEW log \in [Slots -> Seq(CopyRecord)],
         NEW lo \in Nat, NEW hi \in Nat, lo <= hi
  PROVE  Gathers(CopiesFrom(t, log, lo, hi), t, log, lo, hi)
<1>1. PICK f : IsFrom(f, t, log, lo, hi) /\ CopiesFrom(t, log, lo, hi) = f[lo] BY FromIs
<1> DEFINE Listed(c, p) == \E d \in c .. hi - 1 : \E i \in DOMAIN log[WS_INDEX(d)] :
                             p = <<t, WS_INDEX(d), i>>
<1> DEFINE Sound(c) == /\ f[c] \in Seq(Copies)
                      /\ \A p : (\E k \in 1 .. Len(f[c]) : f[c][k] = p) <=> Listed(c, p)
<1>3. ASSUME NEW c \in lo .. hi - 1 PROVE
        /\ Piece(t, log, c) \in Seq(Copies)
        /\ Len(Piece(t, log, c)) = Len(log[WS_INDEX(c)])
        /\ DOMAIN log[WS_INDEX(c)] = 1 .. Len(log[WS_INDEX(c)])
        /\ \A i \in DOMAIN log[WS_INDEX(c)] : Piece(t, log, c)[i] = <<t, WS_INDEX(c), i>>
  <2>1. WS_INDEX(c) \in Slots /\ log[WS_INDEX(c)] \in Seq(CopyRecord) BY IndexFacts
  <2> DEFINE s == WS_INDEX(c)
  <2> DEFINE m == Len(log[s])
  <2>2. m \in Nat /\ DOMAIN log[s] = 1 .. m BY <2>1
  <2> HIDE DEF s, m
  <2>5. Piece(t, log, c) \in Seq(Copies) /\ Len(Piece(t, log, c)) = m
    BY <2>2, <2>1 DEF Piece, s, Copies
  <2>6. QED BY <2>2, <2>5 DEF s, m, Piece
<1>4. Sound(hi)
  <2>4. QED BY <1>1 DEF IsFrom
<1>5. ASSUME NEW c \in lo .. hi - 1, Sound(c + 1) PROVE Sound(c)
  <2> DEFINE P == Piece(t, log, c)
  <2> DEFINE Q == f[c + 1]
  <2>1. f[c] = P \o Q
    <3>1. c \in lo .. hi /\ c # hi OBVIOUS
    <3>2. QED BY <1>1, <3>1 DEF IsFrom
  <2>2. P \in Seq(Copies) /\ Q \in Seq(Copies) BY <1>3, <1>5
  <2>3. \A p : (\E k \in 1 .. Len(P) : P[k] = p)
               <=> \E i \in DOMAIN log[WS_INDEX(c)] : p = <<t, WS_INDEX(c), i>>
    BY <1>3
  <2>4. \A p : (\E k \in 1 .. Len(Q) : Q[k] = p) <=> Listed(c + 1, p) BY <1>5
  <2> HIDE DEF P, Q
  <2>5. \A p : (\E k \in 1 .. Len(P \o Q) : (P \o Q)[k] = p)
               <=> (\E k \in 1 .. Len(P) : P[k] = p) \/ (\E k \in 1 .. Len(Q) : Q[k] = p)
    <3>1. P \o Q \in Seq(Copies) /\ Len(P \o Q) = Len(P) + Len(Q) /\ Len(P) \in Nat /\ Len(Q) \in Nat
      BY <2>2
    <3>2. \A k \in 1 .. Len(P) : k \in 1 .. Len(P \o Q) /\ (P \o Q)[k] = P[k] BY <2>2, <3>1
    <3>3. \A k \in 1 .. Len(Q) : Len(P) + k \in 1 .. Len(P \o Q) /\ (P \o Q)[Len(P) + k] = Q[k]
      BY <2>2, <3>1
    <3>4. \A k \in 1 .. Len(P \o Q) : k \in 1 .. Len(P) \/ k - Len(P) \in 1 .. Len(Q) BY <3>1
    <3>6. QED BY <3>2, <3>3, <3>4, <2>2, <3>1, SMTT(30)
  <2>6. \A p : Listed(c, p) <=> (\E i \in DOMAIN log[WS_INDEX(c)] : p = <<t, WS_INDEX(c), i>>)
                                \/ Listed(c + 1, p) OBVIOUS
  <2>7. f[c] \in Seq(Copies) BY <2>1, <2>2
  <2>8. \A p : (\E k \in 1 .. Len(f[c]) : f[c][k] = p) <=> Listed(c, p)
    <3> HIDE DEF Listed
    <3>1. QED BY <2>1, <2>3, <2>4, <2>5, <2>6
  <2>9. QED BY <2>7, <2>8
<1>6. \A c \in lo .. hi : Sound(c)
  <2> DEFINE Bad == {m \in 0 .. hi - lo : ~Sound(hi - m)}
  <2>1. SUFFICES ASSUME Bad # {} PROVE FALSE
    <3>2. \A c \in lo .. hi : hi - c \notin Bad BY <2>1
    <3> HIDE DEF Sound
    <3>3. QED BY <3>2
  <2>2. PICK m \in Bad : \A i \in Bad : m <= i
    <3>1. Bad \in SUBSET Nat OBVIOUS
    <3>2. QED BY <2>1, <3>1, LeastNatural
  <2> HIDE DEF Sound
  <2>4. m - 1 \in 0 .. hi - lo /\ m - 1 \notin Bad /\ hi - (m - 1) = (hi - m) + 1
    <3>3. QED BY <2>2, <1>4
  <2>6. QED BY <1>5, <2>2, <1>4, <2>4
<1>7. Sound(lo)
  <2> HIDE DEF Sound
  <2>2. QED BY <1>6
<1>8. Gathers(f[lo], t, log, lo, hi) BY ONLY <1>7 DEF Gathers
<1>9. QED BY <1>1, <1>8

\* A write-back goes through the copies in the deferred slots.
LEMMA DeferredFacts ==
  ASSUME TypeOK, NEW t \in Threads, Ring(t)
  PROVE  /\ Deferred(t) \in Seq(Copies)
         /\ \A p : (\E k \in 1 .. Len(Deferred(t)) : Deferred(t)[k] = p)
                   <=> \E c \in ws_wb_counter[t] .. ws_tail_counter[t] - 1 : InSlot(p, c) /\ p[1] = t
<1> DEFINE log == obj_write_set[t]
<1> DEFINE wb == ws_wb_counter[t]
<1> DEFINE tail == ws_tail_counter[t]
<1>1. log \in [Slots -> Seq(CopyRecord)] /\ wb \in Nat /\ tail \in Nat /\ wb <= tail
  BY DEF TypeOK, Ring
<1>2. ASSUME NEW c \in wb .. tail - 1, NEW p
      PROVE  (\E i \in DOMAIN log[WS_INDEX(c)] : p = <<t, WS_INDEX(c), i>>) <=> InSlot(p, c) /\ p[1] = t
  <2>1. WS_INDEX(c) \in Slots /\ log[WS_INDEX(c)] \in Seq(CopyRecord) BY <1>1, IndexFacts
  <2>3. ASSUME NEW i \in DOMAIN log[WS_INDEX(c)], p = <<t, WS_INDEX(c), i>>
        PROVE  InSlot(p, c) /\ p[1] = t BY <2>1, <2>3 DEF InSlot, Copies
  <2>4. ASSUME InSlot(p, c), p[1] = t PROVE p[3] \in DOMAIN log[WS_INDEX(c)] /\ p = <<t, WS_INDEX(c), p[3]>>
    BY <2>4 DEF InSlot, Copies
  <2>5. QED BY <2>3, <2>4
<1> HIDE DEF log, wb, tail
<1>3. Gathers(CopiesFrom(t, log, wb, tail), t, log, wb, tail) BY <1>1, CopiesFromFacts
<1>5. \A p : (\E k \in 1 .. Len(Deferred(t)) : Deferred(t)[k] = p)
             <=> \E c \in wb .. tail - 1 : InSlot(p, c) /\ p[1] = t
  BY <1>2, <1>3 DEF Gathers, Deferred, log, wb, tail
<1>4. CopiesFrom(t, log, wb, tail) \in Seq(Copies) BY ONLY <1>3 DEF Gathers
<1>6. QED BY ONLY <1>4, <1>5 DEF Deferred, log, wb, tail

-----------------------------------------------------------------------------
(* What a step of one thread leaves alone *)

\* A pointer of another thread stays safe.
LEMMA OtherSafe ==
  ASSUME TypeOK, NEW t \in Threads, SameOthers(t), NEW u \in Threads, u # t,
         LogKept(t, u), NEW p, Safe(u, p)
  PROVE  /\ Safe(u, p)' /\ FORCE_ACTUAL(p)' = FORCE_ACTUAL(p)
<1>2. CASE p \in Node BY <1>2 DEF Safe, FORCE_ACTUAL
<1>3. CASE \E c \in ws_wb_counter[u] .. ws_tail_counter[u] : InSlot(p, c) /\ p[1] = u
  BY <1>3 DEF SameThread, InSlot, Copy, Safe, FORCE_ACTUAL, SameOthers
<1>4. CASE \E v \in Threads \ {u} : \E c \in ws_head_counter[v] .. ws_tail_counter[v] - 1 :
             InSlot(p, c) /\ p[1] = v /\ (c < ws_wb_counter[v] => WaitsFor(v, u))
  <2>0. PICK v \in Threads \ {u} : \E c \in ws_head_counter[v] .. ws_tail_counter[v] - 1 :
          InSlot(p, c) /\ p[1] = v /\ (c < ws_wb_counter[v] => WaitsFor(v, u))
    BY <1>4
  <2>1. PICK c \in ws_head_counter[v] .. ws_tail_counter[v] - 1 :
          InSlot(p, c) /\ p[1] = v /\ (c < ws_wb_counter[v] => WaitsFor(v, u))
    BY <2>0
  <2>3. CASE v = t BY <2>1, <2>3 DEF LogKept, Safe, FORCE_ACTUAL, InSlot
  <2>4. CASE v # t
    BY <2>4, <2>1 DEF SameOthers, SameThread, InSlot, Copy, WaitsFor, Safe, FORCE_ACTUAL
  <2>5. QED BY <2>3, <2>4
<1>5. QED BY <1>2, <1>3, <1>4 DEF Safe

\* What another thread is about to steal stays there.
LEMMA OtherCandidate ==
  ASSUME TypeOK, NEW t \in Threads, SameOthers(t), NEW u \in Threads, u # t,
         OfferKept(t, u), Candidate(u)
  PROVE  Candidate(u)'
<1> DEFINE p == copy[u]
<1> DEFINE v == copy[u][1]
<1>2. p \in Copies /\ v \in Threads /\ v # u /\ copy'[u] = p /\ local_version'[u] = local_version[u]
      /\ raw'[u] = raw[u] BY DEF Candidate, Copies, SameThread, SameOthers
<1>3. CASE v = t BY <1>2, <1>3 DEF Candidate, Copy, InSlot, OfferKept
<1>4. CASE v # t BY <1>2, <1>4 DEF SameOthers, SameThread, InSlot, Copy, Candidate
<1>5. QED BY <1>3, <1>4

\* The pointers of another thread stand as before.
LEMMA OtherStanding ==
  ASSUME TypeOK, NEW t \in Threads, SameOthers(t), NEW u \in Threads, u # t, Standing(u),
         InSection(u) => LogKept(t, u) /\ OfferKept(t, u)
  PROVE  Standing(u)'
<1>2. CASE ~InSection(u) BY <1>2 DEF Standing, SameThread, InSection, NoPtr, Labels, SameOthers
<1>3. CASE InSection(u)
  BY <1>3, OtherSafe, OtherCandidate DEF Behind, SameThread, Standing, InSection, SameOthers
<1>4. QED BY <1>2, <1>3

\* The step of t is accounted for when its own part of the invariant is.
LEMMA Assembly ==
  ASSUME LogInv, NEW t \in Threads, SameOthers(t),
         g_rlu_writer_version <= g_rlu_writer_version',
         TypeOK', Contained', LocksAtHome', ThreadInv(t)',
         \A u \in Threads \ {t} : InSection(u) => LogKept(t, u) /\ OfferKept(t, u),
         \A x \in Node : p_obj_copy'[x] \in {p_obj_copy[x], NULL} \/ p_obj_copy'[x][1] = t
  PROVE  LogInv'
<1>1. TypeOK /\ \A u \in Threads : ThreadInv(u) BY DEF LogInv, ThreadInv
<1>2. ASSUME NEW u \in Threads \ {t} PROVE ThreadInv(u)'
  <2>1. SameThread(u) /\ ThreadInv(u) BY <1>1 DEF SameOthers
  <2>2. Clocks(u)'
    <3>1. /\ local_version[u] \in Nat /\ g_rlu_writer_version \in Nat /\ g_rlu_writer_version' \in Nat
      BY <1>1 DEF TypeOK
    <3>2. QED BY <2>1, <3>1 DEF SameThread, ThreadInv, Clocks, InSection
  <2>4. Unlocked(u)'
    <3>2. SUFFICES ASSUME pc[u] = "writeback"
                   PROVE  /\ written[u] <= Len(Deferred(u))
                          /\ \A k \in 1 .. written[u] : \A x \in Node : p_obj_copy'[x] # Deferred(u)[k]
      BY <2>1 DEF SameThread, Unlocked, Deferred
    <3>3. /\ written[u] <= Len(Deferred(u)) /\ written[u] \in Nat
          /\ \A k \in 1 .. written[u] : \A x \in Node : p_obj_copy[x] # Deferred(u)[k]
      BY <1>1, <2>1, <3>2 DEF ThreadInv, Unlocked, TypeOK
    <3>4. ASSUME NEW k \in 1 .. written[u] PROVE Deferred(u)[k] \in Copies /\ Deferred(u)[k][1] = u
      BY <1>1, DeferredFacts, <3>3 DEF ThreadInv
    <3>6. QED BY <3>3, <3>4, PointerAssumption
  <2>6. QED
    BY <2>2, <2>1, <2>4, <1>1, OtherStanding DEF ThreadInv, SameThread, Returning, Ring, Made
<1>4. QED BY <1>2 DEF LogInv, ThreadInv

\* Copies then stay in their slots.
LEMMA SlotsKept ==
  ASSUME NEW t \in Threads, SameOthers(t), LogGrows(t), NEW p, NEW c, InSlot(p, c)
  PROVE  /\ InSlot(p, c)' /\ Copy(p)'.actual = Copy(p).actual
         /\ Copy(p)'.run_counter = Copy(p).run_counter
<1>2. CASE p[1] = t BY <1>2 DEF LogGrows, InSlot, Copy, Copies
<1>3. CASE p[1] # t BY <1>3 DEF SameOthers, SameThread, InSlot, Copy, Copies
<1>4. QED BY <1>2, <1>3

\* And what others read or steal there is kept.
LEMMA GrowingLogKept ==
  ASSUME TypeOK, NEW t \in Threads, SameOthers(t), LogGrows(t), NEW u \in Threads,
         WaitsFor(t, u) => WaitsFor(t, u)',
         writer_version'[t] <= local_version[u] => writer_version[t] <= local_version[u]
  PROVE  LogKept(t, u) /\ OfferKept(t, u)
<1>4. QED BY SlotsKept DEF LogKept, LogGrows, OfferKept

\* The pointers of t itself stay safe in its section.
LEMMA OwnSafe ==
  ASSUME TypeOK, NEW t \in Threads, SameOthers(t), LogGrows(t),
         local_version'[t] = local_version[t], run_counter'[t] = run_counter[t],
         NEW p, Safe(t, p)
  PROVE  Safe(t, p)' /\ FORCE_ACTUAL(p)' = FORCE_ACTUAL(p)
<1>1. CASE p \in Node BY <1>1 DEF Safe, FORCE_ACTUAL
<1>2. CASE \E c \in ws_wb_counter[t] .. ws_tail_counter[t] : InSlot(p, c) /\ p[1] = t
  BY <1>2, SlotsKept DEF Safe, FORCE_ACTUAL, LogGrows
<1>3. CASE \E v \in Threads \ {t} : \E c \in ws_head_counter[v] .. ws_tail_counter[v] - 1 :
             InSlot(p, c) /\ p[1] = v /\ (c < ws_wb_counter[v] => WaitsFor(v, t))
  BY <1>3, SlotsKept DEF SameOthers, SameThread, WaitsFor, Safe, FORCE_ACTUAL
<1>4. QED BY <1>1, <1>2, <1>3 DEF Safe

\* A lock that is not touched still points home.
LEMMA LockKept ==
  ASSUME TypeOK, LocksAtHome, NEW t \in Threads, SameOthers(t), LogGrows(t),
         run_counter[t] <= run_counter'[t], run_counter'[t] \in Nat,
         is_write_detected[t] /\ (InSection(t) \/ pc[t] = "unlock_objs") =>
           is_write_detected'[t] /\ (InSection(t)' \/ pc'[t] = "unlock_objs"),
         NEW x \in Node, p_obj_copy[x] # NULL, p_obj_copy'[x] = p_obj_copy[x]
  PROVE  \E u \in Threads : \E c \in ws_wb_counter'[u] .. ws_tail_counter'[u] : LockedBy(x, u, c)'
<1>1. PICK u \in Threads : \E c \in ws_wb_counter[u] .. ws_tail_counter[u] : LockedBy(x, u, c)
  BY DEF LocksAtHome
<1>2. PICK c \in ws_wb_counter[u] .. ws_tail_counter[u] : LockedBy(x, u, c) BY <1>1
<1> DEFINE p == p_obj_copy[x]
<1>3. p[1] = u /\ InSlot(p, c) /\ Copy(p).actual = x BY <1>2 DEF LockedBy
<1>4. /\ InSlot(p, c)' /\ Copy(p)'.actual = x /\ Copy(p)'.run_counter = Copy(p).run_counter
  BY <1>3, SlotsKept, SMTT(30) DEF InSlot, Copy
<1>6. Copy(p).run_counter \in Nat
  <2>2. obj_write_set[p[1]][p[2]] \in Seq(CopyRecord)
    <3> HIDE DEF p
    <3>1. QED BY <1>3 DEF InSlot, Copies, TypeOK
  <2>3. Copy(p) \in CopyRecord BY <1>3, <2>2 DEF Copy, InSlot, Copies
  <2>4. QED BY <2>3 DEF CopyRecord
<1>7. /\ run_counter[u] <= run_counter'[u] /\ run_counter[u] \in Nat /\ run_counter'[u] \in Nat
      /\ is_write_detected[u] /\ (InSection(u) \/ pc[u] = "unlock_objs") =>
           is_write_detected'[u] /\ (InSection(u)' \/ pc'[u] = "unlock_objs")
  <2>1. run_counter[u] \in Nat BY DEF TypeOK
  <2>2. CASE u = t BY <2>1, <2>2
  <2>3. CASE u # t BY <2>1, <2>3 DEF SameOthers, SameThread, InSection
  <2>4. QED BY <2>2, <2>3
<1>9. LockedBy(x, u, c)'
  BY <1>3, <1>4, <1>2, <1>6, <1>7 DEF LockedBy, SameOthers, SameThread, LogGrows
<1>10. QED BY <1>2, <1>9 DEF SameOthers, SameThread, LogGrows

-----------------------------------------------------------------------------
(* Steps that leave the logs and the locks alone *)

\* A thread takes a step outside of its sections.
LEMMA PauseStep ==
  ASSUME LogInv, NEW t \in Threads, SameOthers(t), TypeOK', Contained',
         UNCHANGED <<p_obj_copy, obj_write_set, ringVars, ws_tail_counter>>,
         ~InSection(t), pc[t] # "unlock_objs", pc'[t] \notin Labels \ {"commit"},
         ptr'[t] = ptr[t], run_counter[t] <= run_counter'[t],
         g_rlu_writer_version <= g_rlu_writer_version',
         Clocks(t)', Returning(t)', Ring(t)', Made(t)', Unlocked(t)',
         \A u \in Threads \ {t} : InSection(u) =>
           /\ WaitsFor(t, u) => WaitsFor(t, u)'
           /\ writer_version'[t] <= local_version[u] => writer_version[t] <= local_version[u]
  PROVE  LogInv'
<1>7. ThreadInv(t)' BY DEF ThreadInv, Standing, NoPtr, Labels, LogInv
<1>8. QED
  BY LockKept, GrowingLogKept, <1>7, Assembly DEF LocksAtHome, TypeOK, LogGrows, ringVars, LogInv

\* A thread takes a step inside its section that writes neither log nor locks.
LEMMA SectionStep ==
  ASSUME LogInv, NEW t \in Threads, SameOthers(t), TypeOK',
         UNCHANGED <<objVars, obj_write_set, ringVars, ws_tail_counter, run_counter, local_version,
                     writer_version, q_threads, written, g_rlu_writer_version, op, key>>,
         InSection(t), pc'[t] \in Labels, is_write_detected[t] => is_write_detected'[t],
         Made(t)', Standing(t)'
  PROVE  LogInv'
<1>1. TypeOK /\ LocksAtHome /\ Contained /\ Clocks(t) /\ Returning(t) /\ Ring(t) BY DEF LogInv
<1>3. LocksAtHome'
  <2>1. SUFFICES ASSUME NEW x \in Node, p_obj_copy[x] # NULL
                 PROVE  \E u \in Threads : \E c \in ws_wb_counter'[u] .. ws_tail_counter'[u] :
                          LockedBy(x, u, c)'
    BY DEF LocksAtHome, objVars
  <2>2. /\ run_counter[t] <= run_counter'[t] /\ run_counter'[t] \in Nat
        /\ is_write_detected[t] => is_write_detected'[t] /\ InSection(t)'
        /\ p_obj_copy'[x] = p_obj_copy[x]
    BY <1>1 DEF TypeOK, InSection, objVars
  <2>3. QED BY <1>1, <2>1, <2>2, LockKept DEF LogGrows, ringVars
<1>10. ThreadInv(t)' /\ \A x \in Node : p_obj_copy'[x] \in {p_obj_copy[x], NULL}
  BY <1>1 DEF ThreadInv, objVars, SyncLabels, Clocks, InSection, Returning, Ring, ringVars,
     Unlocked, Labels
<1>11. g_rlu_writer_version <= g_rlu_writer_version' BY <1>1 DEF TypeOK
<1>12. QED
  BY <1>3, <1>1, GrowingLogKept, <1>10, <1>11, Assembly DEF Contained, objVars, WaitsFor,
     SyncLabels, LogGrows, ringVars, InSection, Labels

\* Steps that only move on, to another label of the library or of the call.
LEMMA MoveStep ==
  ASSUME LogInv, NEW t \in Threads, NEW a \in AllLabels, NEW b \in AllLabels,
         NEW o \in OpNames \union {"none"}, NEW k \in Keys \union {LIST_VAL_MIN}, NEW r \in Int,
         UNCHANGED <<objVars, g_rlu_writer_version, run_counter, local_version, logVars, ringVars,
                     syncVars, derefVars>>,
         pc' = [pc EXCEPT ![t] = a], ret' = [ret EXCEPT ![t] = b], op' = [op EXCEPT ![t] = o],
         key' = [key EXCEPT ![t] = k], result' = [result EXCEPT ![t] = r],
         ~InSection(t), pc[t] \notin {"version", "unlock_objs", "advance", "quiesce", "writeback"},
         a \notin Labels \union {"version", "advance", "quiesce", "writeback"},
         Returning(t)', Ring(t)', Made(t)'
  PROVE  LogInv'
<1>1. TypeOK /\ Contained /\ Clocks(t) BY DEF LogInv
<1>2. pc'[t] = a /\ pc'[t] \notin Labels BY <1>1 DEF TypeOK
<1>6. Clocks(t)' /\ Unlocked(t)' BY <1>1, <1>2 DEF Clocks, Unlocked, syncVars, InSection
<1>8. /\ UNCHANGED <<p_obj_copy, obj_write_set, ringVars, ws_tail_counter>>
      /\ pc'[t] \notin Labels \ {"commit"} /\ ptr'[t] = ptr[t]
      /\ run_counter[t] <= run_counter'[t] /\ g_rlu_writer_version <= g_rlu_writer_version'
      /\ writer_version' = writer_version
  BY <1>1, <1>2 DEF TypeOK, objVars, logVars, derefVars, syncVars
<1>9. QED
  BY <1>1, <1>6, <1>2, <1>8, PauseStep DEF TypeOK, SameOthers, SameThread, objVars, logVars,
     ringVars, syncVars, derefVars, Contained, WaitsFor

\* Begin
LEMMA BeginStep ==
  ASSUME LogInv, NEW t \in Threads, NEW o \in OpNames, NEW k \in Keys, Begin(t, o, k)
  PROVE  LogInv'
<1> USE DEF Begin, Checkpoint, CallSync, Goto
<1>1. TypeOK /\ Ring(t) /\ Made(t) /\ pc[t] = "idle" BY DEF LogInv
<1>2. PICK a \in {"sync", "register"}, b \in AllLabels :
        /\ pc' = [pc EXCEPT ![t] = a] /\ ret' = [ret EXCEPT ![t] = b]
        /\ a = "sync" => b = "register" BY <1>1 DEF AllLabels, PauseLabels, TypeOK
<1>3. /\ UNCHANGED <<objVars, g_rlu_writer_version, run_counter, local_version, logVars, ringVars,
                     syncVars, derefVars>>
      /\ op' = [op EXCEPT ![t] = o] /\ key' = [key EXCEPT ![t] = k]
      /\ result' = [result EXCEPT ![t] = result[t]] /\ result[t] \in Int
  BY <1>1 DEF TypeOK, clockVars, sectionVars
<1>4. /\ pc'[t] = a /\ ret'[t] = b /\ op'[t] = o /\ key'[t] = k /\ result'[t] = result[t]
  BY <1>1, <1>2, <1>3 DEF TypeOK
<1>5. ~InSection(t) /\ pc[t] \notin SyncLabels /\ a \notin Labels \union {"version", "advance", "quiesce", "writeback"}
      /\ a \in AllLabels
  BY <1>1, <1>2 DEF InSection, Labels, SyncLabels, AllLabels, PauseLabels
<1>6. Returning(t)' BY <1>2, <1>4, <1>5 DEF Returning, SyncLabels
<1>7. Ring(t)' BY <1>1, <1>2, <1>3, <1>4, <1>5 DEF Ring, ringVars, logVars
<1>8. Made(t)' BY <1>1, <1>5, <1>2, <1>4 DEF Made, SyncLabels
<1>9. QED BY <1>1, <1>2, <1>3, <1>5, <1>6, <1>7, <1>8, MoveStep

\* CheckpointStep
LEMMA CheckpointStepStep ==
  ASSUME LogInv, NEW t \in Threads, CheckpointStep(t)
  PROVE  LogInv'
<1> USE DEF CheckpointStep, Checkpoint, CallSync, Goto
<1>1. TypeOK /\ Ring(t) /\ Made(t) /\ Returning(t) /\ pc[t] \in {"reader_lock", "unlocked", "aborted"}
  BY DEF LogInv
<1>2. PICK l \in {"register", "ret", "reader_lock"} :
        /\ IF is_sync[t] THEN CallSync(t, l) ELSE Goto(t, l) /\ UNCHANGED ret
        /\ pc[t] = "unlocked" => l = "ret"
        /\ l \in {"register", "reader_lock"} => pc[t] \in {"reader_lock", "aborted"}
  OBVIOUS
<1>3. PICK a \in {"sync", l}, b \in AllLabels :
        /\ pc' = [pc EXCEPT ![t] = a] /\ ret' = [ret EXCEPT ![t] = b]
        /\ a = "sync" => b = l BY <1>2, <1>1 DEF AllLabels, PauseLabels, TypeOK
<1>4. UNCHANGED <<objVars, g_rlu_writer_version, run_counter, local_version, logVars, ringVars,
                  syncVars, derefVars, callVars>>
  BY DEF clockVars, sectionVars
<1>5. /\ op' = [op EXCEPT ![t] = op[t]] /\ key' = [key EXCEPT ![t] = key[t]]
      /\ result' = [result EXCEPT ![t] = result[t]] /\ result[t] \in Int
      /\ op[t] \in OpNames \union {"none"} /\ key[t] \in Keys \union {LIST_VAL_MIN}
  BY <1>1, <1>4 DEF TypeOK, callVars
<1>6. /\ pc'[t] = a /\ ret'[t] = b /\ op'[t] = op[t] /\ key'[t] = key[t] /\ result'[t] = result[t]
  BY <1>1, <1>3, <1>5 DEF TypeOK
<1>7. /\ ~InSection(t) /\ pc[t] \notin SyncLabels /\ a \in AllLabels
      /\ a \notin Labels \union {"version", "advance", "quiesce", "writeback", "unlocked", "commit_version", "sync_end"}
      /\ pc[t] \notin {"version", "unlock_objs", "advance", "quiesce", "writeback"}
  BY <1>1, <1>3 DEF InSection, Labels, SyncLabels, AllLabels, PauseLabels
<1>9. Ring(t)' BY <1>1, <1>4, <1>6, <1>7 DEF Ring, ringVars, logVars
<1>10. Made(t)' BY <1>1, <1>7, <1>3, <1>2, <1>6 DEF Made, SyncLabels
<1> HIDE DEF CheckpointStep, Checkpoint, CallSync, Goto
<1>11. QED
  BY <1>3, <1>4, <1>5, <1>7, <1>1, <1>2, <1>6, <1>9, <1>10, MoveStep DEF Returning, SyncLabels

\* SyncNothing
LEMMA SyncNothingStep ==
  ASSUME LogInv, NEW t \in Threads, SyncNothing(t), UNCHANGED <<callVars, derefVars>>
  PROVE  LogInv'
<1> USE DEF SyncNothing, Goto
<1>1. TypeOK /\ Ring(t) /\ Made(t) /\ Returning(t) /\ pc[t] = "sync" BY DEF LogInv
<1>2. /\ ret[t] \in {"register", "reader_lock", "unlocked", "ret", "finish", "done"}
      /\ ret[t] # "unlocked" /\ ws_head_counter[t] = ws_tail_counter[t]
      /\ ws_head_counter[t] \in Nat /\ ws_wb_counter[t] \in Nat
  BY <1>1 DEF TypeOK, SyncLabels, Returning, Made
<1>3. UNCHANGED <<objVars, g_rlu_writer_version, run_counter, local_version, logVars, ringVars,
                  syncVars, derefVars, callVars>>
  BY DEF clockVars, sectionVars
<1>4. /\ op' = [op EXCEPT ![t] = op[t]] /\ key' = [key EXCEPT ![t] = key[t]]
      /\ result' = [result EXCEPT ![t] = result[t]] /\ result[t] \in Int
      /\ op[t] \in OpNames \union {"none"} /\ key[t] \in Keys \union {LIST_VAL_MIN}
      /\ ret' = [ret EXCEPT ![t] = ret[t]] /\ ret[t] \in AllLabels
  BY <1>1, <1>3 DEF TypeOK, callVars
<1>5. /\ pc' = [pc EXCEPT ![t] = ret[t]] /\ pc'[t] = ret[t] /\ ret'[t] = ret[t]
      /\ op'[t] = op[t] /\ key'[t] = key[t] /\ result'[t] = result[t]
  BY <1>1, <1>4 DEF TypeOK
<1>6. /\ ~InSection(t) /\ ret[t] \notin SyncLabels /\ pc[t] \in SyncLabels
      /\ ret[t] \notin Labels \union {"version", "advance", "quiesce", "writeback", "commit_version", "sync_end"}
      /\ pc[t] \notin {"version", "unlock_objs", "advance", "quiesce", "writeback"}
  BY <1>1, <1>2 DEF InSection, Labels, SyncLabels
<1>8. Ring(t)' BY <1>1, <1>2, RluInitAssumption, <1>3, <1>5, <1>6 DEF Ring, ringVars, logVars
<1> HIDE DEF SyncNothing, Goto
<1>10. QED BY <1>3, <1>4, <1>5, <1>6, <1>1, <1>2, <1>8, MoveStep DEF Returning, Made

\* SyncCommit
LEMMA SyncCommitStep ==
  ASSUME LogInv, NEW t \in Threads, SyncCommit(t), UNCHANGED <<callVars, derefVars>>
  PROVE  LogInv'
<1> USE DEF SyncCommit, Goto
<1>1. TypeOK /\ Ring(t) /\ Made(t) /\ Returning(t) /\ pc[t] = "commit_version" BY DEF LogInv
<1>2. UNCHANGED <<objVars, g_rlu_writer_version, run_counter, local_version, logVars, ringVars,
                  syncVars, derefVars, callVars>>
  BY DEF sectionVars
<1>3. /\ op' = [op EXCEPT ![t] = op[t]] /\ key' = [key EXCEPT ![t] = key[t]]
      /\ result' = [result EXCEPT ![t] = result[t]] /\ result[t] \in Int
      /\ op[t] \in OpNames \union {"none"} /\ key[t] \in Keys \union {LIST_VAL_MIN}
      /\ ret' = [ret EXCEPT ![t] = ret[t]] /\ ret[t] \in AllLabels
  BY <1>1, <1>2 DEF TypeOK, callVars
<1>4. /\ pc' = [pc EXCEPT ![t] = "sync_end"] /\ pc'[t] = "sync_end" /\ ret'[t] = ret[t]
      /\ op'[t] = op[t] /\ key'[t] = key[t] /\ result'[t] = result[t]
  BY <1>1, <1>3 DEF TypeOK
<1>6. Returning(t)' /\ Ring(t)' /\ Made(t)'
  BY <1>1, <1>2, <1>4 DEF Returning, Ring, Made, ringVars, logVars, InSection, Labels, SyncLabels,
     AllLabels
<1> HIDE DEF SyncCommit, Goto
<1>7. QED BY <1>2, <1>3, <1>4, <1>1, <1>6, MoveStep DEF InSection, Labels, SyncLabels, AllLabels

\* Return
LEMMA ReturnStep ==
  ASSUME LogInv, NEW t \in Threads, Return(t)
  PROVE  LogInv'
<1> USE DEF Return, Goto
<1>1. TypeOK /\ Ring(t) /\ pc[t] = "ret" BY DEF LogInv
<1>3. PENDING \in Int /\ PENDING # 1 /\ ret' = [ret EXCEPT ![t] = ret[t]] /\ ret[t] \in AllLabels
  BY <1>1 DEF PENDING, TypeOK
<1>6. Returning(t)' /\ Ring(t)' /\ Made(t)'
  BY <1>1, <1>3 DEF Returning, Ring, Made, ringVars, logVars, clockVars, sectionVars, TypeOK,
     InSection, Labels, SyncLabels, AllLabels, PauseLabels
<1>7. QED
  BY <1>1, <1>3, <1>6, MoveStep DEF clockVars, sectionVars, InSection, Labels, SyncLabels,
     AllLabels, PauseLabels

\* Finish
LEMMA FinishStep ==
  ASSUME LogInv, NEW t \in Threads, Finish(t)
  PROVE  LogInv'
<1> USE DEF Finish, CallSync, Goto
<1>1. TypeOK /\ Ring(t) /\ Made(t) /\ Returning(t) /\ pc[t] \in {"idle", "finish"} BY DEF LogInv
<1>2. UNCHANGED <<objVars, g_rlu_writer_version, run_counter, local_version, logVars, ringVars,
                  syncVars, derefVars, callVars>>
  BY DEF clockVars, sectionVars
<1>3. PICK b \in {"finish", "done"} : pc' = [pc EXCEPT ![t] = "sync"] /\ ret' = [ret EXCEPT ![t] = b]
  OBVIOUS
<1>4. /\ op' = [op EXCEPT ![t] = op[t]] /\ key' = [key EXCEPT ![t] = key[t]]
      /\ result' = [result EXCEPT ![t] = result[t]] /\ result[t] \in Int
      /\ op[t] \in OpNames \union {"none"} /\ key[t] \in Keys \union {LIST_VAL_MIN}
  BY <1>1, <1>2 DEF TypeOK, callVars
<1>8. Returning(t)' /\ Ring(t)' /\ Made(t)'
  BY <1>1, <1>2, <1>3, <1>4 DEF Returning, Ring, Made, ringVars, logVars, Labels, TypeOK, InSection,
     SyncLabels, AllLabels, PauseLabels
<1> HIDE DEF Finish, CallSync, Goto
<1>9. QED
  BY <1>1, <1>2, <1>3, <1>4, <1>8, MoveStep DEF InSection, Labels, SyncLabels, AllLabels,
     PauseLabels

\* SyncVersion: no section has a version that is as new.
LEMMA SyncVersionStep ==
  ASSUME LogInv, NEW t \in Threads, SyncVersion(t), UNCHANGED <<callVars, derefVars>>
  PROVE  LogInv'
<1> USE DEF SyncVersion, Goto
<1>1. /\ TypeOK /\ Contained /\ Clocks(t) /\ Returning(t) /\ Ring(t) /\ Made(t) /\ pc[t] = "sync"
      /\ \A u \in Threads : Clocks(u)
  BY DEF LogInv
<1>2. /\ UNCHANGED <<objVars, g_rlu_writer_version, run_counter, local_version, logVars, ringVars,
                     derefVars, callVars, ret, q_threads, written>>
      /\ writer_version' = [writer_version EXCEPT ![t] = g_rlu_writer_version + 1]
      /\ pc' = [pc EXCEPT ![t] = "advance"]
  BY DEF clockVars, sectionVars
<1> HIDE DEF SyncVersion, Goto
<1>3. pc'[t] = "advance" /\ writer_version'[t] = g_rlu_writer_version + 1 BY <1>1, <1>2 DEF TypeOK
<1>4. /\ "advance" \in SyncLabels /\ "advance" \in AllLabels /\ "advance" \notin Labels
      /\ pc[t] \in SyncLabels /\ pc[t] \notin Labels /\ pc[t] \notin {"version", "unlock_objs"}
  BY <1>1 DEF SyncLabels, AllLabels, Labels
<1>5. SameOthers(t)
  BY <1>1, <1>2 DEF TypeOK, SameOthers, SameThread, objVars, logVars, ringVars, derefVars, callVars
<1>6. TypeOK'
  <2>1. pc' \in [Threads -> AllLabels] /\ writer_version' \in [Threads -> Nat]
    BY <1>1, <1>2, <1>4 DEF TypeOK
  <2>2. QED BY <1>1, <1>2, <2>1 DEF TypeOK, objVars, logVars, ringVars, derefVars, callVars
<1>8. Clocks(t)' /\ Returning(t)' /\ Unlocked(t)'
  BY <1>1, <1>2, <1>3, <1>4 DEF Clocks, Returning, Unlocked, InSection, callVars
<1>9. Ring(t)' /\ Made(t)' BY <1>1, <1>2, <1>3, <1>4 DEF Ring, Made, ringVars, logVars, callVars
<1>10. ASSUME NEW u \in Threads \ {t}
       PROVE  WaitsFor(t, u)' /\ ~(writer_version'[t] <= local_version[u])
  <2>1. local_version[u] \in Nat /\ g_rlu_writer_version \in Nat /\ local_version[u] <= g_rlu_writer_version
    BY <1>1 DEF TypeOK, Clocks
  <2>3. QED BY <1>2, <1>3, <2>1 DEF WaitsFor
<1>11. /\ UNCHANGED <<p_obj_copy, obj_write_set, ringVars, ws_tail_counter>>
       /\ ~InSection(t) /\ pc[t] # "unlock_objs" /\ pc'[t] \notin Labels \ {"commit"}
       /\ ptr'[t] = ptr[t]
       /\ run_counter[t] <= run_counter'[t] /\ g_rlu_writer_version <= g_rlu_writer_version'
  BY <1>1, <1>2, <1>3, <1>4 DEF TypeOK, InSection, objVars, logVars, derefVars
<1>12. QED
  BY <1>5, <1>6, <1>1, <1>2, <1>8, <1>9, <1>10, <1>11, PauseStep DEF Contained, objVars, logVars

\* Publish: the run_counter of no thread has been looked at.
LEMMA PublishStep ==
  ASSUME LogInv, NEW t \in Threads, Publish(t)
  PROVE  LogInv'
<1> USE DEF Publish, SyncAdvance, Goto
<1>1. TypeOK /\ Contained /\ Clocks(t) /\ Returning(t) /\ Ring(t) /\ Made(t) /\ pc[t] = "advance"
  BY DEF LogInv
<1>2. /\ UNCHANGED <<objVars, run_counter, local_version, logVars, ringVars,
                     derefVars, callVars, ret, writer_version, written>>
      /\ g_rlu_writer_version' = g_rlu_writer_version + 1
      /\ q_threads' = [q_threads EXCEPT ![t] = [u \in Threads |-> IF u = t THEN 0 ELSE UNREAD]]
      /\ pc' = [pc EXCEPT ![t] = "quiesce"]
  BY DEF sectionVars
<1> HIDE DEF Publish, SyncAdvance, Goto
<1>3. /\ pc'[t] = "quiesce" /\ \A u \in Threads \ {t} : q_threads'[t][u] = UNREAD
      /\ g_rlu_writer_version \in Nat /\ local_version[t] \in Nat
  BY <1>1, <1>2 DEF TypeOK
<1>4. /\ "quiesce" \in SyncLabels /\ "quiesce" \in AllLabels /\ "quiesce" \notin Labels
      /\ pc[t] \in SyncLabels /\ pc[t] \notin Labels /\ pc[t] \notin {"version", "unlock_objs"}
  BY <1>1 DEF SyncLabels, AllLabels, Labels
<1>5. SameOthers(t)
  BY <1>1, <1>2 DEF TypeOK, SameOthers, SameThread, objVars, logVars, ringVars, derefVars, callVars
<1>6. TypeOK'
  <2>1. pc' \in [Threads -> AllLabels] /\ g_rlu_writer_version' \in Nat
    BY <1>1, <1>2, <1>3, <1>4 DEF TypeOK
  <2>2. q_threads' \in [Threads -> [Threads -> Int]] BY <1>1, <1>2 DEF UNREAD, TypeOK
  <2>3. QED BY <1>1, <1>2, <2>1, <2>2 DEF TypeOK, objVars, logVars, ringVars, derefVars, callVars
<1>8. Clocks(t)' /\ Returning(t)' /\ Unlocked(t)'
  BY <1>1, <1>2, <1>3, <1>4 DEF Clocks, Returning, Unlocked, InSection, callVars
<1>9. Ring(t)' /\ Made(t)' BY <1>1, <1>2, <1>3, <1>4 DEF Ring, Made, ringVars, logVars, callVars
<1>10. ASSUME NEW u \in Threads \ {t}, WaitsFor(t, u)
       PROVE  WaitsFor(t, u)'
  BY <1>1, <1>2, <1>3, <1>10 DEF WaitsFor
<1>11. /\ UNCHANGED <<p_obj_copy, obj_write_set, ringVars, ws_tail_counter>>
       /\ ~InSection(t) /\ pc[t] # "unlock_objs" /\ pc'[t] \notin Labels \ {"commit"}
       /\ ptr'[t] = ptr[t] /\ writer_version' = writer_version
       /\ run_counter[t] <= run_counter'[t] /\ g_rlu_writer_version <= g_rlu_writer_version'
  BY <1>1, <1>2, <1>3, <1>4 DEF TypeOK, InSection, objVars, logVars, derefVars
<1>12. QED
  BY <1>5, <1>6, <1>1, <1>2, <1>8, <1>9, <1>10, <1>11, PauseStep DEF Contained, objVars, logVars

\* SyncReadCounter: the run_counter of a thread in a section is odd.
LEMMA SyncReadCounterStep ==
  ASSUME LogInv, NEW t \in Threads, NEW v \in Threads, SyncReadCounter(t, v),
         UNCHANGED <<callVars, derefVars>>
  PROVE  LogInv'
<1> USE DEF SyncReadCounter
<1>1. /\ TypeOK /\ Contained /\ Clocks(t) /\ Returning(t) /\ Ring(t) /\ Made(t) /\ pc[t] = "quiesce"
      /\ \A u \in Threads : Clocks(u)
  BY DEF LogInv
<1> DEFINE q == IF run_counter[v] % 2 = 1 THEN run_counter[v] ELSE 0
<1>2. /\ UNCHANGED <<objVars, g_rlu_writer_version, run_counter, local_version, logVars, ringVars,
                     derefVars, callVars, pc, ret, writer_version, written>>
      /\ q_threads' = [q_threads EXCEPT ![t][v] = q]
  BY DEF clockVars, sectionVars
<1>3. q \in Int BY <1>1 DEF TypeOK
<1> HIDE DEF SyncReadCounter, q
<1>6. SameOthers(t)
  BY <1>1, <1>2 DEF TypeOK, SameOthers, SameThread, objVars, logVars, ringVars, derefVars, callVars
<1>9. Clocks(t)' /\ Returning(t)' /\ Unlocked(t)'
  BY <1>1, <1>2 DEF Clocks, Returning, Unlocked, InSection, callVars, SyncLabels, AllLabels, Labels
<1>10. Ring(t)' /\ Made(t)' BY <1>1, <1>2 DEF Ring, Made, ringVars, logVars, callVars
<1>11. ASSUME NEW u \in Threads \ {t}, InSection(u), WaitsFor(t, u)
       PROVE  WaitsFor(t, u)' BY <1>1, <1>11, <1>2 DEF Clocks, q, WaitsFor, TypeOK
<1>12. /\ UNCHANGED <<p_obj_copy, obj_write_set, ringVars, ws_tail_counter>>
       /\ ~InSection(t) /\ pc[t] # "unlock_objs" /\ pc'[t] \notin Labels \ {"commit"}
       /\ ptr'[t] = ptr[t] /\ writer_version' = writer_version
       /\ run_counter[t] <= run_counter'[t] /\ g_rlu_writer_version <= g_rlu_writer_version'
  BY <1>1, <1>2 DEF TypeOK, InSection, objVars, logVars, derefVars, SyncLabels, AllLabels, Labels
<1>13. QED
  BY <1>6, <1>3, <1>1, <1>2, <1>9, <1>10, <1>11, <1>12, PauseStep DEF Contained, objVars, logVars,
     TypeOK, ringVars, derefVars, callVars

\* SyncEnd
LEMMA SyncEndStep ==
  ASSUME LogInv, NEW t \in Threads, SyncEnd(t), UNCHANGED <<callVars, derefVars>>
  PROVE  LogInv'
<1> USE DEF SyncEnd, Goto
<1>1. TypeOK /\ Contained /\ Clocks(t) /\ Returning(t) /\ Ring(t) /\ Made(t) /\ pc[t] = "sync_end"
  BY DEF LogInv
<1>2. /\ UNCHANGED <<p_obj_copy, g_rlu_writer_version, run_counter, local_version, obj_write_set,
                     is_write_detected, ws_tail_counter, ringVars, syncVars, derefVars, callVars, ret>>
      /\ allocated' = allocated \ free_nodes[t]
      /\ data' = [x \in Node |-> IF x \in free_nodes[t] THEN Freed ELSE data[x]]
      /\ free_nodes' = [free_nodes EXCEPT ![t] = {}]
      /\ pc' = [pc EXCEPT ![t] = ret[t]]
  BY DEF clockVars, sectionVars
<1> HIDE DEF SyncEnd, Goto
<1>3. pc'[t] = ret[t] /\ ret[t] \in {"register", "reader_lock", "unlocked", "ret", "finish", "done"}
  BY <1>1, <1>2 DEF SyncLabels, TypeOK, Returning
<1>4. /\ ret[t] \notin SyncLabels /\ ret[t] \in AllLabels /\ ret[t] \notin Labels
      /\ ret[t] \notin {"version", "unlock_objs", "aborted"}
      /\ pc[t] \in SyncLabels /\ pc[t] \notin Labels /\ pc[t] \notin {"version", "unlock_objs"}
  BY <1>1, <1>3 DEF SyncLabels, AllLabels, Labels, PauseLabels
<1>7. TypeOK'
  BY <1>1, <1>2, <1>4, FreedAssumption DEF TypeOK, NodeContents, ringVars, syncVars, derefVars,
     callVars
<1>8. Contained' BY FreedAssumption, <1>1, <1>2 DEF EndsWell, Contained, TypeOK
<1>9. Clocks(t)' /\ Returning(t)' /\ Unlocked(t)'
  BY <1>1, <1>2, <1>3, <1>4 DEF Clocks, Returning, Unlocked, InSection, callVars, syncVars, SyncLabels
<1>10. Ring(t)' /\ Made(t)'
  BY <1>1, RluInitAssumption, <1>3, <1>2, <1>4 DEF Ring, TypeOK, ringVars, Made, callVars
<1>11. \A u \in Threads \ {t} : WaitsFor(t, u)' BY <1>3 DEF WaitsFor
<1>12. /\ ~InSection(t) /\ pc[t] # "unlock_objs" /\ pc'[t] \notin Labels \ {"commit"}
       /\ ptr'[t] = ptr[t] /\ writer_version' = writer_version
       /\ run_counter[t] <= run_counter'[t] /\ g_rlu_writer_version <= g_rlu_writer_version'
  BY <1>1, <1>2, <1>3, <1>4 DEF TypeOK, InSection, syncVars, derefVars
<1>13. QED
  BY <1>2, <1>1, <1>7, <1>8, <1>9, <1>10, <1>11, <1>12, PauseStep DEF TypeOK, SameOthers,
     SameThread, ringVars, syncVars, derefVars, callVars

\* Register
LEMMA RegisterStep ==
  ASSUME LogInv, NEW t \in Threads, Register(t), UNCHANGED <<callVars, derefVars>>
  PROVE  LogInv'
<1> USE DEF Register, Goto
<1>1. TypeOK /\ Contained /\ Clocks(t) /\ Returning(t) /\ Ring(t) /\ Made(t) /\ pc[t] = "register"
  BY DEF LogInv
<1>2. /\ UNCHANGED <<objVars, g_rlu_writer_version, local_version, obj_write_set, ws_tail_counter,
                     free_nodes, ringVars, syncVars, derefVars, callVars, ret>>
      /\ run_counter' = [run_counter EXCEPT ![t] = run_counter[t] + 1]
      /\ is_write_detected' = [is_write_detected EXCEPT ![t] = FALSE]
      /\ pc' = [pc EXCEPT ![t] = "version"]
  BY DEF clockVars, sectionVars
<1> HIDE DEF Register, Goto
<1>3. pc'[t] = "version" /\ run_counter'[t] = run_counter[t] + 1 /\ run_counter[t] \in Nat
  BY <1>1, <1>2 DEF TypeOK
<1>4. /\ "version" \notin SyncLabels /\ "version" \in AllLabels /\ "version" \notin Labels
      /\ pc[t] \notin SyncLabels /\ pc[t] \notin Labels
  BY <1>1 DEF SyncLabels, AllLabels, Labels
<1>6. TypeOK'
  <2>1. /\ pc' \in [Threads -> AllLabels] /\ run_counter' \in [Threads -> Nat]
        /\ is_write_detected' \in [Threads -> BOOLEAN]
    BY <1>1, <1>2, <1>3, <1>4 DEF TypeOK
  <2>2. QED BY <1>1, <1>2, <2>1 DEF TypeOK, objVars, ringVars, syncVars, derefVars, callVars
<1>7. Contained' BY <1>1, <1>2 DEF Contained, objVars
<1>9. Clocks(t)' /\ Returning(t)' /\ Unlocked(t)'
  BY <1>1, <1>2, <1>3, <1>4 DEF Clocks, Returning, Unlocked, callVars, syncVars, InSection
<1>10. Ring(t)' /\ Made(t)' BY <1>1, <1>2, <1>3, <1>4 DEF Ring, Made, ringVars, callVars
<1>11. \A u \in Threads \ {t} : WaitsFor(t, u)' BY <1>3 DEF WaitsFor
<1>12. /\ UNCHANGED <<p_obj_copy, obj_write_set, ringVars, ws_tail_counter>>
       /\ ~InSection(t) /\ pc[t] # "unlock_objs" /\ pc'[t] \notin Labels \ {"commit"}
       /\ ptr'[t] = ptr[t] /\ writer_version' = writer_version
       /\ run_counter[t] <= run_counter'[t] /\ g_rlu_writer_version <= g_rlu_writer_version'
  BY <1>1, <1>2, <1>3, <1>4 DEF TypeOK, InSection, objVars, syncVars, derefVars
<1>13. QED
  BY <1>1, <1>2, <1>6, <1>7, <1>9, <1>10, <1>11, <1>12, PauseStep DEF TypeOK, SameOthers,
     SameThread, ringVars, syncVars, derefVars, callVars

\* TakeView
LEMMA TakeViewStep ==
  ASSUME LogInv, NEW t \in Threads, TakeView(t)
  PROVE  LogInv'
<1> USE DEF TakeView, ReadVersion, Goto
<1>1. TypeOK /\ Contained /\ Clocks(t) /\ Returning(t) /\ Ring(t) /\ Made(t) /\ pc[t] = "version"
  BY DEF LogInv
<1>2. /\ UNCHANGED <<objVars, g_rlu_writer_version, run_counter, logVars,
                     ringVars, syncVars, derefVars, callVars, ret>>
      /\ local_version' = [local_version EXCEPT ![t] = g_rlu_writer_version]
      /\ pc' = [pc EXCEPT ![t] = "commit"]
  BY DEF clockVars
<1> HIDE DEF TakeView, ReadVersion, Goto
<1>3. /\ pc'[t] = "commit" /\ local_version'[t] = g_rlu_writer_version /\ g_rlu_writer_version \in Nat
  BY <1>1, <1>2 DEF TypeOK
<1>4. /\ "commit" \notin SyncLabels /\ "commit" \in AllLabels /\ "commit" \in Labels
      /\ pc[t] \notin SyncLabels /\ pc[t] \notin Labels
  BY <1>1 DEF SyncLabels, AllLabels, Labels
<1>5. SameOthers(t)
  BY <1>1, <1>2 DEF TypeOK, SameOthers, SameThread, logVars, ringVars, syncVars, derefVars, callVars
<1>6. TypeOK'
  BY <1>1, <1>2, <1>3, <1>4 DEF TypeOK, objVars, logVars, ringVars, syncVars, derefVars, callVars
<1>9. Clocks(t)' /\ Returning(t)' /\ Unlocked(t)'
  BY <1>1, <1>2, <1>3, <1>4 DEF Clocks, Returning, Unlocked, callVars, syncVars, InSection
<1>10. Ring(t)' /\ Made(t)' BY <1>1, <1>2, <1>3, <1>4 DEF Ring, Made, ringVars, callVars, logVars
<1>12. /\ UNCHANGED <<p_obj_copy, obj_write_set, ringVars, ws_tail_counter>>
       /\ ~InSection(t) /\ pc[t] # "unlock_objs" /\ pc'[t] \notin Labels \ {"commit"}
       /\ ptr'[t] = ptr[t] /\ writer_version' = writer_version
       /\ run_counter[t] <= run_counter'[t] /\ g_rlu_writer_version <= g_rlu_writer_version'
  BY <1>1, <1>2, <1>3, <1>4 DEF TypeOK, InSection, objVars, syncVars, derefVars, logVars
<1>13. QED
  BY <1>5, <1>6, <1>1, <1>2, <1>9, <1>10, <1>3, <1>12, PauseStep DEF Contained, objVars, logVars,
     WaitsFor

-----------------------------------------------------------------------------
(* Steps of a section that write neither log nor locks *)

\* What a copy in the log is, and which pointers are pointers to copies.
LEMMA CopyFacts ==
  ASSUME TypeOK, NEW p, NEW c, InSlot(p, c)
  PROVE  /\ p \in Copies /\ p[1] \in Threads /\ p[2] \in Slots /\ p \notin Node /\ p # NULL
         /\ Copy(p) \in CopyRecord
<1>4. QED BY PointerAssumption DEF Copy, InSlot, Copies, TypeOK

\* What a section finds behind a pointer that is safe.
LEMMA ReadFacts ==
  ASSUME TypeOK, Contained, NEW t \in Threads, NEW p, Safe(t, p)
  PROVE  /\ p # NULL /\ p \in Node \union Copies
         /\ FORCE_ACTUAL(p) \in Node /\ Contents(p) \in NodeContents
         /\ EndsWell(FORCE_ACTUAL(p), Contents(p))
<1>1. CASE p \in Node BY <1>1, PointerAssumption DEF TypeOK, Contained, FORCE_ACTUAL, Contents
<1>2. CASE p \notin Node
  BY <1>2, CopyFacts DEF Safe, CopyRecord, Contained, Copy, InSlot, FORCE_ACTUAL, Contents
<1>3. QED BY <1>1, <1>2

\* A value below the end of the list is not the last one.
LEMMA SuccessorFacts ==
  ASSUME TypeOK, Contained, NEW t \in Threads, NEW p, Safe(t, p),
         FORCE_ACTUAL(p) \in MinNodes \/ Contents(p).val < LIST_VAL_MAX
  PROVE  Contents(p).p_next \in Node \ MinNodes
<1>4. QED BY ReadFacts, RluListAssumption DEF EndsWell, NodeContents

\* The pointers of t are safe after a step that changes neither log.
LEMMA StillSafe ==
  ASSUME TypeOK, NEW t \in Threads, SameOthers(t),
         UNCHANGED <<obj_write_set, ringVars, ws_tail_counter, run_counter, local_version>>,
         NEW p, Safe(t, p)
  PROVE  Safe(t, p)' /\ FORCE_ACTUAL(p)' = FORCE_ACTUAL(p)
<1>3. QED BY OwnSafe DEF LogGrows, ringVars

\* Steps that only change the pointers of the section.
LEMMA WalkStep ==
  ASSUME LogInv, NEW t \in Threads, NEW l \in Labels,
         NEW ps \in [p_prev : Pointers, p_next : Pointers, n : Pointers],
         NEW v \in {"p_prev", "p_next", "n"}, NEW r \in Node \union {NULL},
         NEW c \in Copies \union {NULL},
         UNCHANGED <<objVars, clockVars, run_counter, local_version, logVars, ringVars, syncVars,
                     ret, op, key, result>>,
         pc' = [pc EXCEPT ![t] = l], ptr' = [ptr EXCEPT ![t] = ps], into' = [into EXCEPT ![t] = v],
         raw' = [raw EXCEPT ![t] = r], copy' = [copy EXCEPT ![t] = c],
         InSection(t), pc[t] # "reader_unlock",
         /\ SameOthers(t) /\ pc'[t] = l /\ ptr'[t] = ps /\ into'[t] = v /\ raw'[t] = r /\ copy'[t] = c
            => Standing(t)'
  PROVE  LogInv'
<1>1. TypeOK /\ Made(t) BY DEF LogInv
<1>3. SameOthers(t) BY <1>1 DEF TypeOK, SameOthers, SameThread, logVars, ringVars, syncVars
<1>4. TypeOK' BY <1>1 DEF AllLabels, TypeOK, objVars, clockVars, logVars, ringVars, syncVars
<1>6. /\ UNCHANGED <<objVars, obj_write_set, ringVars, ws_tail_counter, run_counter, local_version,
                     writer_version, q_threads, written, g_rlu_writer_version, op, key>>
      /\ pc'[t] \in Labels /\ is_write_detected' = is_write_detected
  BY <1>1 DEF clockVars, logVars, syncVars, TypeOK
<1>7. QED BY <1>3, <1>4, <1>1, <1>6, SectionStep, ZenonT(60) DEF Labels, SyncLabels, InSection, Made, TypeOK

\* RLU_DEREF() begins.
LEMMA StartStep ==
  ASSUME LogInv, NEW t \in Threads, NEW v \in {"p_prev", "p_next", "n"}, NEW p \in Node,
         NEW ps \in [p_prev : Pointers, p_next : Pointers, n : Pointers],
         v = "p_prev" <=> p \in MinNodes,
         ps.p_prev # NULL => Safe(t, ps.p_prev),
         ps.p_next # NULL => Behind(t, ps.p_next), ps.n # NULL => Behind(t, ps.n),
         v # "p_prev" => ps.p_prev # NULL, v = "n" => ps.p_next # NULL,
         StartDeref(t, v, p), ptr' = [ptr EXCEPT ![t] = ps],
         UNCHANGED <<objVars, clockVars, run_counter, local_version, logVars, ringVars, syncVars,
                     ret, op, key, result>>,
         InSection(t), pc[t] # "reader_unlock"
  PROVE  LogInv'
<1>2. /\ pc' = [pc EXCEPT ![t] = "deref"] /\ into' = [into EXCEPT ![t] = v]
      /\ raw' = [raw EXCEPT ![t] = p] /\ copy' = [copy EXCEPT ![t] = copy[t]]
      /\ copy[t] \in Copies \union {NULL} BY DEF StartDeref, Goto, TypeOK, LogInv
<1>3. ASSUME SameOthers(t), pc'[t] = "deref", ptr'[t] = ps, into'[t] = v, raw'[t] = p
      PROVE  Standing(t)'
  BY <1>3, StillSafe DEF logVars, Behind, InSection, Labels, Standing, LogInv
<1>5. QED BY <1>2, <1>3, WalkStep DEF Labels

\* RLU_DEREF() ends with a pointer p to the object it was given.
LEMMA EndStep ==
  ASSUME LogInv, NEW t \in Threads, NEW p, Safe(t, p), FORCE_ACTUAL(p) = raw[t],
         EndDeref(t, p), pc[t] \in {"deref", "steal"},
         UNCHANGED <<objVars, clockVars, run_counter, local_version, logVars, ringVars, syncVars,
                     ret, op, key, result>>
  PROVE  LogInv'
<1>1. TypeOK /\ Contained /\ Standing(t) BY DEF LogInv
<1>2. ptr[t] \in [p_prev : Pointers, p_next : Pointers, n : Pointers] BY <1>1 DEF TypeOK
<1>0. PICK v \in {"p_prev", "p_next", "n"} : v = into[t] BY <1>1 DEF TypeOK
<1>10. PICK ps : ps = [ptr[t] EXCEPT ![v] = p] OBVIOUS
<1>11. PICK l : l = Then(v) OBVIOUS
<1>5. /\ v = "p_prev" => l = "next"
      /\ v = "p_next" => l = "visit"
      /\ v = "n" => l = "lock"
  BY <1>11 DEF Then
<1>7. l \in Labels /\ InSection(t) /\ pc[t] # "reader_unlock" BY <1>5 DEF Labels, InSection
<1>8. ASSUME SameOthers(t), pc'[t] = l, ptr'[t] = ps, into'[t] = "p_prev"
      PROVE  Standing(t)'
  BY <1>1, <1>8, StillSafe, <1>0, <1>2, <1>10, <1>5, ReadFacts DEF logVars, Behind, Standing,
     InSection, Labels, Pointers
<1>9. QED
  BY <1>2, <1>1, ReadFacts, <1>0, <1>10, <1>11, <1>7, <1>8, WalkStep DEF EndDeref, Goto, Pointers

\* OpenSection
LEMMA OpenSectionStep ==
  ASSUME LogInv, NEW t \in Threads, OpenSection(t)
  PROVE  LogInv'
<1> USE DEF OpenSection, ReadCommitVersion
<1>1. TypeOK /\ Standing(t) /\ Returning(t) /\ pc[t] = "commit" BY DEF LogInv
<1> DEFINE p == MinNode[Hash(key[t])]
<1>2. /\ StartDeref(t, "p_prev", p)
      /\ UNCHANGED <<objVars, clockVars, run_counter, local_version, logVars, ringVars, syncVars,
                     ret, op, key, result, ptr>>
  BY DEF callVars
<1>4. ptr[t].p_prev = NULL /\ ptr[t].p_next = NULL /\ ptr[t].n = NULL BY <1>1 DEF Standing, NoPtr
<1>6. p \in MinNodes /\ p \in Node
  BY <1>1, RluListAssumption DEF Returning, Labels, Hash, Buckets, MinNodes
<1> HIDE DEF OpenSection, ReadCommitVersion, p
<1>7. QED BY <1>2, <1>1, <1>4, <1>6, StartStep DEF TypeOK, InSection, Labels

\* FirstNext
LEMMA FirstNextStep ==
  ASSUME LogInv, NEW t \in Threads, FirstNext(t)
  PROVE  LogInv'
<1> USE DEF FirstNext
<1>1. TypeOK /\ Contained /\ Standing(t) /\ pc[t] = "next" BY DEF LogInv
<1> DEFINE p == Contents(ptr[t].p_prev).p_next
<1>2. /\ StartDeref(t, "p_next", p)
      /\ UNCHANGED <<objVars, clockVars, run_counter, local_version, logVars, ringVars, syncVars,
                     ret, op, key, result, ptr>>
  BY DEF callVars, sectionVars
<1>4. /\ Safe(t, ptr[t].p_prev) /\ FORCE_ACTUAL(ptr[t].p_prev) \in MinNodes
      /\ ptr[t].p_next # NULL => Behind(t, ptr[t].p_next)
      /\ ptr[t].n # NULL => Behind(t, ptr[t].n)
  BY <1>1 DEF Standing
<1>6. p \in Node \ MinNodes BY <1>1, <1>4, SuccessorFacts
<1>7. ptr[t].p_prev # NULL BY <1>1, <1>4, ReadFacts
<1> HIDE DEF FirstNext, p
<1>8. QED BY <1>2, <1>1, <1>4, <1>6, <1>7, StartStep DEF TypeOK, InSection, Labels

\* What is known of the node that a section visits.
LEMMA VisitFacts ==
  ASSUME LogInv, NEW t \in Threads, pc[t] = "visit"
  PROVE  /\ Behind(t, ptr[t].p_next) /\ Safe(t, ptr[t].p_prev) /\ ptr[t].p_prev # NULL
         /\ ptr[t].p_next # NULL /\ (ptr[t].n # NULL => Behind(t, ptr[t].n))
         /\ Value(t) \in Int /\ key[t] \in Keys
         /\ Value(t) <= key[t] => Successor(t) \in Node \ MinNodes
<1>1. TypeOK /\ Contained /\ Standing(t) /\ Returning(t) BY DEF LogInv
<1>6. ASSUME Value(t) <= key[t] PROVE Successor(t) \in Node \ MinNodes
  BY <1>6, RluListAssumption, <1>1, ReadFacts, SuccessorFacts DEF Value, Successor, Returning,
     Labels, Behind, Standing, NodeContents
<1>7. QED BY <1>1, ReadFacts, <1>6 DEF Standing, Returning, Labels, Value, NodeContents, Behind

\* Advance
LEMMA AdvanceStep ==
  ASSUME LogInv, NEW t \in Threads, Advance(t)
  PROVE  LogInv'
<1> USE DEF Advance
<1>1. TypeOK /\ pc[t] = "visit" BY DEF LogInv
<1> DEFINE p == Successor(t)
<1> DEFINE ps == [ptr[t] EXCEPT !.p_prev = ptr[t].p_next]
<1>2. /\ StartDeref(t, "p_next", p)
      /\ UNCHANGED <<objVars, clockVars, run_counter, local_version, logVars, ringVars, syncVars,
                     ret, op, key, result>>
      /\ ptr' = [ptr EXCEPT ![t] = ps]
  BY DEF callVars, sectionVars
<1>3. ptr[t] \in [p_prev : Pointers, p_next : Pointers, n : Pointers] BY <1>1 DEF TypeOK
<1>4. /\ ps \in [p_prev : Pointers, p_next : Pointers, n : Pointers]
      /\ ps.p_prev = ptr[t].p_next /\ ps.p_next = ptr[t].p_next /\ ps.n = ptr[t].n
  BY <1>3
<1>5. /\ Behind(t, ptr[t].p_next) /\ ptr[t].p_next # NULL
      /\ ptr[t].n # NULL => Behind(t, ptr[t].n)
      /\ Value(t) \in Int /\ key[t] \in Int
      /\ Value(t) <= key[t] => Successor(t) \in Node \ MinNodes
  BY <1>1, VisitFacts, RluListAssumption
<1>7. p \in Node \ MinNodes BY <1>5
<1>8. Safe(t, ptr[t].p_next) BY <1>5 DEF Behind
<1> HIDE DEF Advance, p, ps
<1>9. QED BY <1>2, <1>4, <1>5, <1>1, <1>7, <1>8, StartStep DEF InSection, Labels

\* RemoveHere
LEMMA RemoveHereStep ==
  ASSUME LogInv, NEW t \in Threads, RemoveHere(t)
  PROVE  LogInv'
<1> USE DEF RemoveHere
<1>1. TypeOK /\ pc[t] = "visit" BY DEF LogInv
<1> DEFINE p == Successor(t)
<1>2. /\ StartDeref(t, "n", p)
      /\ UNCHANGED <<objVars, clockVars, run_counter, local_version, logVars, ringVars, syncVars,
                     ret, op, key, result, ptr>>
  BY DEF callVars, sectionVars
<1>4. /\ Behind(t, ptr[t].p_next) /\ Safe(t, ptr[t].p_prev) /\ ptr[t].p_prev # NULL
      /\ ptr[t].p_next # NULL /\ (ptr[t].n # NULL => Behind(t, ptr[t].n))
      /\ Value(t) \in Int /\ key[t] \in Int
      /\ Value(t) <= key[t] => Successor(t) \in Node \ MinNodes
  BY <1>1, VisitFacts, RluListAssumption
<1>6. p \in Node \ MinNodes BY <1>4
<1> HIDE DEF RemoveHere, p
<1>7. QED BY <1>2, <1>1, <1>4, <1>6, StartStep DEF TypeOK, InSection, Labels

\* Where a lock points to.
LEMMA LockFacts ==
  ASSUME TypeOK, LocksAtHome, NEW x \in Node, p_obj_copy[x] # NULL
  PROVE  /\ p_obj_copy[x] \in Copies /\ p_obj_copy[x] \notin Node
         /\ Copy(p_obj_copy[x]).actual = x
         /\ \E c \in ws_wb_counter[p_obj_copy[x][1]] .. ws_tail_counter[p_obj_copy[x][1]] :
              LockedBy(x, p_obj_copy[x][1], c)
<1>1. PICK u \in Threads : \E c \in ws_wb_counter[u] .. ws_tail_counter[u] : LockedBy(x, u, c)
  BY DEF LocksAtHome
<1>2. PICK c \in ws_wb_counter[u] .. ws_tail_counter[u] : LockedBy(x, u, c) BY <1>1
<1>5. QED BY <1>2, CopyFacts DEF LockedBy

\* A version that is as new as the clock of a thread shows that it synchronizes.
LEMMA Synchronizes ==
  ASSUME LogInv, ClockInRange, NEW t \in Threads, NEW u \in Threads,
         writer_version[u] <= local_version[t]
  PROVE  pc[u] \in {"advance", "quiesce", "writeback"}
<1>2. /\ local_version[t] \in Nat /\ g_rlu_writer_version \in Nat /\ writer_version[u] \in Nat
      /\ local_version[t] <= g_rlu_writer_version /\ g_rlu_writer_version < MAX_VERSION
  BY DEF TypeOK, Clocks, ClockInRange, LogInv
<1>4. QED BY <1>2, ClockAssumption DEF Clocks, LogInv

\* Deref: the copy it may steal is published when it is to be taken.
LEMMA DerefStep ==
  ASSUME LogInv, ClockInRange, NEW t \in Threads, Deref(t)
  PROVE  LogInv'
<1> USE DEF Deref
<1>1. TypeOK /\ LocksAtHome /\ Standing(t) /\ pc[t] = "deref" BY DEF LogInv
<1>2. UNCHANGED <<objVars, clockVars, run_counter, local_version, logVars, ringVars, syncVars,
                  ret, op, key, result>>
  BY DEF callVars, sectionVars
<1>3. PICK x \in Node : x = raw[t] BY <1>1 DEF Standing
<1>4. InSection(t) /\ pc[t] # "reader_unlock" /\ "steal" \in Labels BY <1>1 DEF InSection, Labels
<1>5. CASE ~MustSteal(t, raw[t])
  <2>1. PICK p : p = DerefOwn(t, raw[t]) OBVIOUS
  <2>2. EndDeref(t, p) BY <1>5, <2>1
  <2> HIDE DEF Deref
  <2>4. QED
    BY <1>1, <1>2, <2>2, <1>3, <2>1, LockFacts, EndStep DEF Safe, FORCE_ACTUAL, DerefOwn, ThreadOf,
       LockedBy
<1>6. CASE MustSteal(t, raw[t])
  <2>1. PICK p : p = p_obj_copy[x] OBVIOUS
  <2>2. p # NULL /\ p[1] # t BY <1>3, <1>6, <2>1 DEF MustSteal, ThreadOf
  <2>3. /\ p \in Copies /\ p[1] \in Threads /\ p \notin Node /\ Copy(p).actual = x
        /\ \E c \in ws_wb_counter[p[1]] .. ws_tail_counter[p[1]] : LockedBy(x, p[1], c)
    BY <1>1, <2>1, <2>2, LockFacts DEF Copies
  <2>4. ASSUME writer_version[p[1]] <= local_version[t]
        PROVE  \E c \in ws_wb_counter[p[1]] .. ws_tail_counter[p[1]] - 1 : InSlot(p, c)
    <3>3. PICK c \in ws_wb_counter[p[1]] .. ws_tail_counter[p[1]] : LockedBy(x, p[1], c) BY <2>3
    <3>5. ws_tail_counter[p[1]] \in Nat /\ ws_wb_counter[p[1]] \in Nat BY <1>1, <2>3 DEF TypeOK
    <3>6. QED BY <3>3, <2>1, <2>3, <2>4, Synchronizes, <3>5 DEF LockedBy, InSection, Labels
  <2>5. PICK ps \in [p_prev : Pointers, p_next : Pointers, n : Pointers],
             v \in {"p_prev", "p_next", "n"} : ps = ptr[t] /\ v = into[t]
    BY <1>1 DEF TypeOK
  <2>6. /\ pc' = [pc EXCEPT ![t] = "steal"] /\ ptr' = [ptr EXCEPT ![t] = ps]
        /\ into' = [into EXCEPT ![t] = v] /\ raw' = [raw EXCEPT ![t] = x]
        /\ copy' = [copy EXCEPT ![t] = p]
    BY <1>1, <1>3, <1>6, <2>1, <2>5 DEF Goto, TypeOK
  <2> HIDE DEF Deref
  <2>7. ASSUME SameOthers(t), pc'[t] = "steal", ptr'[t] = ps, into'[t] = v, raw'[t] = x, copy'[t] = p
        PROVE  Standing(t)'
    <3>3. /\ ps.p_prev # NULL => Safe(t, ps.p_prev)'
          /\ ps.p_next # NULL => Behind(t, ps.p_next)'
          /\ ps.n # NULL => Behind(t, ps.n)'
          /\ v = "p_prev" <=> x \in MinNodes
          /\ v # "p_prev" => ps.p_prev # NULL
          /\ v = "n" => ps.p_next # NULL
      BY <1>1, <1>3, <2>5, <1>2, <2>7, StillSafe DEF Standing, logVars, Behind
    <3>6. QED
      BY <2>7, <3>3, <1>2, <2>3, <2>4, <2>2 DEF Standing, syncVars, ringVars, logVars, Copy, InSlot,
         Candidate, InSection, Labels
  <2>8. QED BY <1>2, <1>4, <2>3, <2>6, <2>7, WalkStep
<1>7. QED BY <1>5, <1>6

\* Steal
LEMMA StealStep ==
  ASSUME LogInv, NEW t \in Threads, Steal(t)
  PROVE  LogInv'
<1> USE DEF Steal
<1>1. TypeOK /\ Standing(t) /\ Candidate(t) /\ raw[t] \in Node /\ pc[t] = "steal"
      /\ \A u \in Threads : Ring(u)
  BY DEF LogInv, Standing
<1>2. UNCHANGED <<objVars, clockVars, run_counter, local_version, logVars, ringVars, syncVars,
                  ret, op, key, result>>
  BY DEF callVars, sectionVars
<1>3. PICK p : p = StealOrNot(local_version[t], raw[t], copy[t]) OBVIOUS
<1>4. EndDeref(t, p) BY <1>3
<1>5. Safe(t, p) /\ FORCE_ACTUAL(p) = raw[t]
  <2>1. CASE p = raw[t] BY <1>1, <2>1 DEF Safe, FORCE_ACTUAL
  <2>2. CASE p # raw[t]
    <3>2. /\ p \in Copies /\ p[1] # t /\ Copy(p).actual = raw[t]
          /\ \E c \in ws_wb_counter[p[1]] .. ws_tail_counter[p[1]] - 1 : InSlot(p, c)
      BY <1>1, <1>3, <2>2 DEF Candidate, StealOrNot, ThreadOf
    <3>3. PICK c \in ws_wb_counter[p[1]] .. ws_tail_counter[p[1]] - 1 : InSlot(p, c) BY <3>2
    <3>5. /\ ws_head_counter[p[1]] \in Nat /\ ws_wb_counter[p[1]] \in Nat
          /\ ws_head_counter[p[1]] <= ws_wb_counter[p[1]] /\ ws_tail_counter[p[1]] \in Nat
      BY <1>1, <3>2, PointerAssumption DEF TypeOK, Ring, Copies
    <3>8. QED BY <3>2, PointerAssumption, <3>3, <3>5 DEF FORCE_ACTUAL, Safe, Copies
  <2>3. QED BY <2>1, <2>2
<1> HIDE DEF Steal
<1>6. QED BY <1>1, <1>2, <1>4, <1>5, EndStep

\* The section is to be left or to be aborted, its pointers stay.
LEMMA LeavingStanding ==
  ASSUME TypeOK, NEW t \in Threads, Standing(t), SameOthers(t),
         UNCHANGED <<obj_write_set, ringVars, ws_tail_counter, run_counter, local_version>>,
         ptr'[t] = ptr[t], pc'[t] \in {"abort", "reader_unlock"}
  PROVE  Standing(t)'
<1>3. PICK ps : ps = ptr[t] OBVIOUS
<1>6. QED BY <1>3, StillSafe DEF Standing, InSection, Labels, Behind

\* Answer
LEMMA AnswerStep ==
  ASSUME LogInv, NEW t \in Threads, Answer(t)
  PROVE  LogInv'
<1> USE DEF Answer, Goto
<1>1. TypeOK /\ Standing(t) /\ pc[t] = "visit" BY DEF LogInv
<1>2. PICK r \in {0, 1} : /\ result' = [result EXCEPT ![t] = r] /\ (r = 1 => op[t] = "contains")
  <2>1. result' = [result EXCEPT ![t] = IF op[t] = "contains" /\ Value(t) = key[t] THEN 1 ELSE 0]
    OBVIOUS
  <2>2. PICK r : r = IF op[t] = "contains" /\ Value(t) = key[t] THEN 1 ELSE 0 OBVIOUS
  <2> HIDE DEF Answer, Goto
  <2>3. r \in {0, 1} /\ (r = 1 => op[t] = "contains") BY <2>2
  <2>4. QED BY <2>1, <2>2, <2>3
<1>3. /\ UNCHANGED <<objVars, clockVars, run_counter, local_version, logVars, ringVars, syncVars,
                     ret, op, key, derefVars>>
      /\ pc' = [pc EXCEPT ![t] = "reader_unlock"]
  BY DEF sectionVars
<1> HIDE DEF Answer, Goto
<1>5. /\ InSection(t) /\ pc'[t] \in Labels /\ "reader_unlock" \in AllLabels
      /\ pc'[t] \notin SyncLabels /\ pc'[t] # "unlocked"
  BY <1>1, <1>2, <1>3 DEF InSection, Labels, AllLabels, SyncLabels, TypeOK
<1>6. SameOthers(t)
  BY <1>1, <1>2, <1>3 DEF TypeOK, SameOthers, SameThread, logVars, ringVars, syncVars, derefVars
<1>7. TypeOK'
  <2>2. QED
    BY <1>1, <1>3, <1>2, <1>5 DEF TypeOK, objVars, clockVars, logVars, ringVars, syncVars, derefVars
<1>11. QED
  BY <1>5, <1>6, <1>7, <1>2, <1>3, <1>1, LeavingStanding, SectionStep DEF Made, clockVars, logVars,
     syncVars, derefVars, TypeOK

\* What is known of the pointers of a section that locks.
LEMMA ReadyFacts ==
  ASSUME LogInv, NEW t \in Threads, ReadyToLock(t) \/ pc[t] = "cas"
  PROVE  /\ Safe(t, ptr[t].p_prev) /\ ptr[t].p_prev # NULL
         /\ Behind(t, ptr[t].p_next) /\ ptr[t].p_next # NULL
         /\ ptr[t].n # NULL => Behind(t, ptr[t].n)
         /\ op[t] = "remove" => ptr[t].n # NULL
         /\ into[t] \in {"p_prev", "p_next"}
         /\ into[t] = "p_next" => /\ is_write_detected[t]
                                  /\ ptr[t].p_prev \in Copies /\ ptr[t].p_prev[1] = t
         /\ ToLock(t) \in Node
         /\ into[t] = "p_next" => ToLock(t) \in Node \ MinNodes
<1>4. QED BY ReadFacts DEF ToLock, Standing, ReadyToLock, LogInv, Behind

\* The section holds p, a copy of its own of the object it was to lock.
LEMMA LockedStanding ==
  ASSUME LogInv, NEW t \in Threads, ReadyToLock(t) \/ pc[t] = "cas", SameOthers(t), LogGrows(t),
         run_counter'[t] = run_counter[t], local_version'[t] = local_version[t],
         op'[t] = op[t], is_write_detected'[t],
         NEW p \in Copies, p[1] = t, Safe(t, p)', FORCE_ACTUAL(p)' = ToLock(t),
         ptr'[t] = [ptr[t] EXCEPT ![into[t]] = p], into'[t] = "p_next",
         pc'[t] = IF into[t] = "p_prev" THEN "lock" ELSE "write"
  PROVE  Standing(t)'
<1>4. PICK old : old = ptr[t] OBVIOUS
<1>5. PICK ps : ps = [old EXCEPT ![into[t]] = p] OBVIOUS
<1>8. /\ into[t] = "p_prev" => ps.p_prev = p /\ ps.p_next = old.p_next /\ ps.n = old.n
      /\ into[t] = "p_next" => ps.p_prev = old.p_prev /\ ps.p_next = p /\ ps.n = old.n
  BY <1>5, <1>4 DEF TypeOK, LogInv
<1>9. into[t] = "p_next" => Behind(t, p)' BY <1>4, ReadyFacts DEF Behind
<1>10. /\ Safe(t, ps.p_prev)' /\ ps.p_prev # NULL
       /\ Behind(t, ps.p_next)' /\ ps.p_next # NULL
       /\ ps.n # NULL => Behind(t, ps.n)'
       /\ op[t] = "remove" => ps.n # NULL
       /\ ps.p_prev \in Copies /\ ps.p_prev[1] = t
  BY OwnSafe, <1>4, ReadyFacts, <1>8, <1>9, PointerAssumption DEF Behind, LogInv
<1>12. QED BY <1>10, <1>4, <1>5 DEF Standing, InSection, Labels

\* The pointers of t after it has locked one more object, or found it locked.
LEMMA LockedTypes ==
  ASSUME TypeOK, NEW t \in Threads, NEW p \in Copies, Locked(t, p), into[t] \in {"p_prev", "p_next"}
  PROVE  /\ ptr' = [ptr EXCEPT ![t] = [ptr[t] EXCEPT ![into[t]] = p]]
         /\ ptr'[t] = [ptr[t] EXCEPT ![into[t]] = p] /\ into'[t] = "p_next"
         /\ pc'[t] = IF into[t] = "p_prev" THEN "lock" ELSE "write"
         /\ pc'[t] \in Labels /\ pc' \in [Threads -> AllLabels]
         /\ ptr' \in [Threads -> [p_prev : Pointers, p_next : Pointers, n : Pointers]]
         /\ into' \in [Threads -> {"p_prev", "p_next", "n"}]
         /\ raw' \in [Threads -> Node \union {NULL}] /\ copy' \in [Threads -> Copies \union {NULL}]
         /\ \A u \in Threads \ {t} : /\ pc'[u] = pc[u] /\ ptr'[u] = ptr[u] /\ into'[u] = into[u]
                                     /\ raw'[u] = raw[u] /\ copy'[u] = copy[u]
<1> USE DEF Locked, Goto
<1>1. /\ ptr[t] \in [p_prev : Pointers, p_next : Pointers, n : Pointers] /\ p \in Pointers
      /\ ptr \in [Threads -> [p_prev : Pointers, p_next : Pointers, n : Pointers]]
      /\ into \in [Threads -> {"p_prev", "p_next", "n"}] /\ pc \in [Threads -> AllLabels]
      /\ raw \in [Threads -> Node \union {NULL}] /\ copy \in [Threads -> Copies \union {NULL}]
  BY DEF TypeOK, Pointers
<1>2. ptr' = [ptr EXCEPT ![t] = [ptr[t] EXCEPT ![into[t]] = p]] OBVIOUS
<1>4. PICK l \in {"lock", "write"} : l = IF into[t] = "p_prev" THEN "lock" ELSE "write" OBVIOUS
<1>5. l \in Labels /\ l \in AllLabels /\ pc' = [pc EXCEPT ![t] = l] BY <1>4 DEF Labels, AllLabels
<1>6. into' = [into EXCEPT ![t] = "p_next"] /\ raw' = raw /\ copy' = copy OBVIOUS
<1> HIDE DEF Locked, Goto
<1>7. QED BY <1>1, <1>2, <1>4, <1>5, <1>6

\* TryLock: what t has locked in this execution is in its current write set.
LEMMA TryLockStep ==
  ASSUME LogInv, NEW t \in Threads, TryLock(t)
  PROVE  LogInv'
<1> USE DEF TryLock
<1>1. TypeOK /\ Standing(t) /\ Made(t) /\ LocksAtHome /\ ReadyToLock(t) /\ Ring(t) BY DEF LogInv
<1>2. PICK x : x = ToLock(t) OBVIOUS
<1>3. x \in Node /\ into[t] \in {"p_prev", "p_next"} BY <1>1, <1>2, ReadyFacts
<1>4. /\ InSection(t) /\ pc[t] \notin {"reader_unlock", "unlocked", "ret"} /\ pc[t] \notin SyncLabels
      /\ pc[t] \in {"visit", "lock"}
  BY <1>1 DEF InSection, Labels, ReadyToLock, SyncLabels
<1>5. UNCHANGED <<objVars, clockVars, ringVars, syncVars, ret, op, key, result, run_counter,
                  local_version, obj_write_set, ws_tail_counter, free_nodes>>
  BY DEF callVars
<1>6. result[t] # 1 BY <1>1, <1>4 DEF Made
<1>8. UNCHANGED <<objVars, obj_write_set, ringVars, ws_tail_counter, run_counter, local_version,
                  writer_version, q_threads, written, g_rlu_writer_version, op, key>>
  BY <1>5 DEF clockVars, syncVars
<1>9. CASE LockedElsewhere(t, x)
  <2>1. pc' = [pc EXCEPT ![t] = "abort"] /\ UNCHANGED <<is_write_detected, derefVars>>
    BY <1>2, <1>9 DEF Goto
  <2>2. pc'[t] = "abort" /\ "abort" \in AllLabels /\ pc'[t] \in Labels /\ "abort" \notin SyncLabels
    BY <1>1, <2>1 DEF TypeOK, AllLabels, Labels, SyncLabels
  <2> HIDE DEF TryLock
  <2>3. SameOthers(t)
    BY <1>1, <1>5, <2>1 DEF TypeOK, SameOthers, SameThread, derefVars, ringVars, syncVars
  <2>4. TypeOK'
    BY <1>1, <2>1, <2>2, <1>5 DEF TypeOK, objVars, clockVars, ringVars, syncVars, derefVars
  <2>8. QED
    BY <1>4, <1>8, <2>2, <2>3, <2>4, <1>5, <1>6, <1>1, <2>1, LeavingStanding, SectionStep DEF Made,
       derefVars
<1>10. CASE ~LockedElsewhere(t, x) /\ p_obj_copy[x] = NULL
  <2>1. /\ pc' = [pc EXCEPT ![t] = "cas"] /\ UNCHANGED derefVars
        /\ is_write_detected' = [is_write_detected EXCEPT ![t] = TRUE]
    BY <1>2, <1>10 DEF Goto, DetectWrite
  <2>2. /\ pc'[t] = "cas" /\ "cas" \in AllLabels /\ pc'[t] \in Labels /\ "cas" \notin SyncLabels
        /\ is_write_detected'[t]
    BY <1>1, <2>1 DEF TypeOK, AllLabels, Labels, SyncLabels
  <2> HIDE DEF TryLock
  <2>3. SameOthers(t)
    BY <1>1, <1>5, <2>1 DEF TypeOK, SameOthers, SameThread, derefVars, ringVars, syncVars
  <2>4. TypeOK'
    BY <1>1, <2>1, <2>2, <1>5 DEF TypeOK, objVars, clockVars, ringVars, syncVars, derefVars
  <2>6. Standing(t)'
    BY <1>1, <1>8, <2>3, StillSafe, ReadyFacts, <1>5, <2>1, <2>2, <1>3 DEF Behind, derefVars,
       InSection, Standing
  <2>8. QED BY <1>4, <1>8, <2>2, <2>3, <2>4, <1>5, <1>6, <2>6, SectionStep DEF Made
<1>11. CASE ~LockedElsewhere(t, x) /\ p_obj_copy[x] # NULL
  <2>1. PICK p : p = p_obj_copy[x] OBVIOUS
  <2>2. Locked(t, p) /\ UNCHANGED is_write_detected BY <1>2, <1>11, <2>1
  <2>3. p # NULL /\ p[1] = t /\ Copy(p).run_counter = run_counter[t]
    BY <1>11, <2>1 DEF LockedElsewhere, ThreadOf
  <2>4. /\ p \in Copies /\ p \notin Node /\ Copy(p).actual = x
        /\ \E c \in ws_wb_counter[t] .. ws_tail_counter[t] : LockedBy(x, t, c)
    BY <1>1, <1>3, <2>1, <2>3, LockFacts
  <2>5. PICK c \in ws_wb_counter[t] .. ws_tail_counter[t] : LockedBy(x, t, c) BY <2>4
  <2>6. InSlot(p, c) /\ is_write_detected[t] BY <1>1, <2>1, <2>3, <2>5 DEF TypeOK, LockedBy
  <2> HIDE DEF TryLock
  <2>7. /\ ptr'[t] = [ptr[t] EXCEPT ![into[t]] = p] /\ into'[t] = "p_next"
        /\ pc'[t] = IF into[t] = "p_prev" THEN "lock" ELSE "write"
        /\ pc'[t] \in Labels /\ pc' \in [Threads -> AllLabels]
        /\ ptr' \in [Threads -> [p_prev : Pointers, p_next : Pointers, n : Pointers]]
        /\ into' \in [Threads -> {"p_prev", "p_next", "n"}]
        /\ raw' \in [Threads -> Node \union {NULL}] /\ copy' \in [Threads -> Copies \union {NULL}]
        /\ \A u \in Threads \ {t} : /\ pc'[u] = pc[u] /\ ptr'[u] = ptr[u] /\ into'[u] = into[u]
                                    /\ raw'[u] = raw[u] /\ copy'[u] = copy[u]
    BY <1>1, <1>3, <2>2, <2>4, LockedTypes
  <2>8. SameOthers(t) BY <1>5, <2>2, <2>7 DEF SameOthers, SameThread, ringVars, syncVars
  <2>10. Made(t)' BY <2>7, <1>5, <1>6 DEF SyncLabels, Made
  <2>9. LogGrows(t) BY <1>5 DEF LogGrows, ringVars
  <2>11. Safe(t, p) /\ FORCE_ACTUAL(p) = x BY <2>3, <2>4, <2>6 DEF Safe, FORCE_ACTUAL
  <2>12. Safe(t, p)' /\ FORCE_ACTUAL(p)' = x BY <1>1, <1>5, <1>8, <2>8, <2>11, StillSafe
  <2>13. Standing(t)'
    BY <1>1, <1>2, <1>5, <1>8, <2>2, <2>3, <2>4, <2>6, <2>7, <2>8, <2>9, <2>12, LockedStanding
  <2>14. QED
    BY <1>4, <1>8, <2>2, <2>7, <2>8, <1>1, <1>5, <2>10, <2>13, SectionStep DEF TypeOK, objVars,
       clockVars, ringVars, syncVars
<1>12. QED BY <1>9, <1>10, <1>11

-----------------------------------------------------------------------------
(* Steps of a section that write to the log *)

\* A thread takes a step inside its section that changes or appends copies.
LEMMA SectionLogStep ==
  ASSUME LogInv, NEW t \in Threads, SameOthers(t), LogGrows(t), TypeOK', Contained', LocksAtHome',
         UNCHANGED <<run_counter, local_version, writer_version, q_threads, written,
                     g_rlu_writer_version, op, key>>,
         InSection(t), pc'[t] \in Labels, Made(t)', Standing(t)',
         \A x \in Node : p_obj_copy'[x] \in {p_obj_copy[x], NULL} \/ p_obj_copy'[x][1] = t
  PROVE  LogInv'
<1>1. TypeOK /\ Clocks(t) /\ Returning(t) /\ Ring(t) BY DEF LogInv
<1>7. ThreadInv(t)'
  BY <1>1 DEF ThreadInv, SyncLabels, Clocks, InSection, Returning, Ring, LogGrows, Unlocked, Labels
<1>8. g_rlu_writer_version <= g_rlu_writer_version' BY <1>1 DEF TypeOK
<1>9. QED BY <1>1, GrowingLogKept, <1>7, <1>8, Assembly DEF WaitsFor, SyncLabels, InSection, Labels

\* The log after an object was locked.
LEMMA AppendFacts ==
  ASSUME TypeOK, Contained, NEW t \in Threads, NEW x \in Node, CurrentSlot(t) \in Slots,
         LockObj(t, x), UNCHANGED <<data, ringVars, ws_tail_counter>>
  PROVE  /\ obj_write_set' \in [Threads -> [Slots -> Seq(CopyRecord)]]
         /\ \A u \in Threads \ {t} : obj_write_set'[u] = obj_write_set[u]
         /\ LogGrows(t) /\ Contained'
         /\ NewCopy(t) \in Copies /\ NewCopy(t)[1] = t /\ NewCopy(t)[2] = CurrentSlot(t)
         /\ NewCopy(t)[3] \in DOMAIN obj_write_set'[t][CurrentSlot(t)]
         /\ obj_write_set'[t][CurrentSlot(t)][NewCopy(t)[3]].actual = x
         /\ obj_write_set'[t][CurrentSlot(t)][NewCopy(t)[3]].run_counter = run_counter[t]
<1> DEFINE s == CurrentSlot(t)
<1> DEFINE old == obj_write_set[t][s]
<1> DEFINE r == [actual |-> x, data |-> data[x], run_counter |-> run_counter[t]]
<1>1. /\ obj_write_set \in [Threads -> [Slots -> Seq(CopyRecord)]] /\ s \in Slots
      /\ old \in Seq(CopyRecord) /\ data[x] \in NodeContents /\ EndsWell(x, data[x])
  BY DEF TypeOK, Contained
<1>2. r \in CopyRecord BY <1>1 DEF CopyRecord, TypeOK
<1>3. obj_write_set' = [obj_write_set EXCEPT ![t] = [obj_write_set[t] EXCEPT ![s] = Append(old, r)]]
  BY DEF LockObj
<1>4. r.actual = x /\ r.data = data[x] /\ r.run_counter = run_counter[t] OBVIOUS
<1>5. NewCopy(t) = <<t, s, Len(old) + 1>> BY DEF NewCopy, CurrentSet
<1> HIDE DEF s, old, r
<1>6. /\ Append(old, r) \in Seq(CopyRecord) /\ DOMAIN old = 1 .. Len(old) /\ Len(old) \in Nat
      /\ DOMAIN Append(old, r) = 1 .. Len(old) + 1
      /\ \A i \in DOMAIN old : Append(old, r)[i] = old[i]
      /\ Append(old, r)[Len(old) + 1] = r
  BY <1>1, <1>2
<1>7. /\ obj_write_set' \in [Threads -> [Slots -> Seq(CopyRecord)]]
      /\ \A u \in Threads \ {t} : obj_write_set'[u] = obj_write_set[u]
      /\ \A w \in Slots : obj_write_set'[t][w] = IF w = s THEN Append(old, r) ELSE obj_write_set[t][w]
  BY <1>1, <1>3, <1>6
<1>8. LogGrows(t)
  <2>1. \A i \in DOMAIN old : i \in DOMAIN Append(old, r) BY <1>6
  <2>2. QED BY <1>6, <1>7, <2>1 DEF LogGrows, ringVars, old
<1>9. Contained'
  <2>1. SUFFICES ASSUME NEW u \in Threads, NEW w \in Slots, NEW i \in DOMAIN obj_write_set'[u][w]
                 PROVE  EndsWell(obj_write_set'[u][w][i].actual, obj_write_set'[u][w][i].data)
    BY DEF Contained, EndsWell
  <2>2. CASE u = t /\ w = s /\ i = Len(old) + 1 BY <1>1, <1>4, <1>6, <1>7, <2>2
  <2>3. CASE ~(u = t /\ w = s /\ i = Len(old) + 1)
    <3>1. i \in DOMAIN obj_write_set[u][w] /\ obj_write_set'[u][w][i] = obj_write_set[u][w][i]
      <4>1. CASE u = t /\ w = s
        <5>1. i \in 1 .. Len(old) + 1 /\ i # Len(old) + 1 BY <1>6, <1>7, <2>3, <4>1
        <5>2. i \in DOMAIN old BY <1>6, <5>1
        <5>3. QED BY <1>6, <1>7, <4>1, <5>2 DEF old
      <4>2. CASE ~(u = t /\ w = s) BY <1>7, <4>2
      <4>3. QED BY <4>1, <4>2
    <3>2. QED BY <3>1 DEF Contained
  <2>4. QED BY <2>2, <2>3
<1>11. obj_write_set'[t][s] = Append(old, r) /\ Len(old) + 1 \in DOMAIN Append(old, r)
  <2>2. Len(old) + 1 \in 1 .. Len(old) + 1 BY <1>6
  <2>3. QED BY <1>6, <1>1, <1>7, <2>2
<1>12. QED BY <1>4, <1>6, <1>7, <1>8, <1>9, <1>1, <1>5, <1>11 DEF s, Copies

\* CompareAndSwap
LEMMA CompareAndSwapStep ==
  ASSUME LogInv, NEW t \in Threads, CompareAndSwap(t)
  PROVE  LogInv'
<1> USE DEF CompareAndSwap
<1>1. TypeOK /\ Contained /\ Standing(t) /\ Made(t) /\ LocksAtHome /\ Ring(t) /\ pc[t] = "cas"
  BY DEF LogInv
<1>2. PICK x \in Node : x = ToLock(t) BY <1>1, ReadyFacts
<1>3. into[t] \in {"p_prev", "p_next"} /\ is_write_detected[t] BY <1>1, ReadyFacts DEF Standing
<1>4. InSection(t) /\ pc[t] # "reader_unlock" /\ pc[t] \notin SyncLabels /\ pc[t] \notin {"unlocked", "ret"}
  BY <1>1 DEF InSection, Labels, SyncLabels
<1>5. UNCHANGED <<data, allocated, clockVars, run_counter, local_version, ringVars, syncVars, ret,
                  is_write_detected, ws_tail_counter, free_nodes, op, key, result>>
  BY DEF callVars, sectionVars
<1>7. CASE p_obj_copy[x] # NULL
  <2>1. pc' = [pc EXCEPT ![t] = "abort"] /\ UNCHANGED <<p_obj_copy, obj_write_set, derefVars>>
    BY <1>2, <1>7 DEF Goto
  <2>2. PICK ps \in [p_prev : Pointers, p_next : Pointers, n : Pointers],
             v \in {"p_prev", "p_next", "n"} : ps = ptr[t] /\ v = into[t]
    BY <1>1 DEF TypeOK
  <2>3. PICK r \in Node \union {NULL}, c \in Copies \union {NULL} : r = raw[t] /\ c = copy[t]
    BY <1>1 DEF TypeOK
  <2> HIDE DEF CompareAndSwap
  <2>4. /\ ptr' = [ptr EXCEPT ![t] = ps] /\ into' = [into EXCEPT ![t] = v]
        /\ raw' = [raw EXCEPT ![t] = r] /\ copy' = [copy EXCEPT ![t] = c]
    BY <1>1, <2>1, <2>2, <2>3 DEF derefVars, TypeOK
  <2>6. ASSUME SameOthers(t), pc'[t] = "abort", ptr'[t] = ps
        PROVE  Standing(t)' BY <1>1, <2>2, <1>5, <2>1, <2>6, LeavingStanding DEF logVars, objVars
  <2>8. QED BY <1>4, <2>1, <2>4, <1>5, <2>6, WalkStep, ZenonT(60) DEF objVars, logVars, Labels
<1>8. CASE p_obj_copy[x] = NULL
  <2>1. PICK p : p = NewCopy(t) OBVIOUS
  <2>2. LockObj(t, x) /\ Locked(t, p) BY <1>2, <1>8, <2>1
  <2> HIDE DEF CompareAndSwap
  <2>4. /\ obj_write_set' \in [Threads -> [Slots -> Seq(CopyRecord)]]
        /\ \A u \in Threads \ {t} : obj_write_set'[u] = obj_write_set[u]
        /\ LogGrows(t) /\ Contained'
        /\ p \in Copies /\ p[1] = t /\ p[2] = CurrentSlot(t)
        /\ p[3] \in DOMAIN obj_write_set'[t][p[2]]
        /\ obj_write_set'[t][p[2]][p[3]].actual = x
        /\ obj_write_set'[t][p[2]][p[3]].run_counter = run_counter[t]
    BY <1>1, <1>5, <2>1, <2>2, RingFacts, AppendFacts DEF CurrentSlot
  <2>5. p_obj_copy' = [p_obj_copy EXCEPT ![x] = p] BY <2>1, <2>2 DEF LockObj
  <2>6. /\ ptr'[t] = [ptr[t] EXCEPT ![into[t]] = p] /\ into'[t] = "p_next"
        /\ pc'[t] = IF into[t] = "p_prev" THEN "lock" ELSE "write"
        /\ pc'[t] \in Labels /\ pc' \in [Threads -> AllLabels]
        /\ ptr' \in [Threads -> [p_prev : Pointers, p_next : Pointers, n : Pointers]]
        /\ into' \in [Threads -> {"p_prev", "p_next", "n"}]
        /\ raw' \in [Threads -> Node \union {NULL}] /\ copy' \in [Threads -> Copies \union {NULL}]
        /\ \A u \in Threads \ {t} : /\ pc'[u] = pc[u] /\ ptr'[u] = ptr[u] /\ into'[u] = into[u]
                                    /\ raw'[u] = raw[u] /\ copy'[u] = copy[u]
    BY <1>1, <1>3, <2>2, <2>4, LockedTypes
  <2>7. SameOthers(t) BY <1>5, <2>4, <2>6 DEF SameOthers, SameThread, ringVars, syncVars
  <2>8. TypeOK' BY <1>1, <2>4, <2>5, <1>5, <2>6 DEF TypeOK, clockVars, ringVars, syncVars
  <2>9. PICK tail \in Nat : tail = ws_tail_counter[t] BY <1>1 DEF TypeOK
  <2>11. tail \in ws_wb_counter'[t] .. ws_tail_counter'[t]
    BY <1>1, <1>5, <2>9 DEF ringVars, Ring, TypeOK
  <2>12. InSlot(p, tail)' /\ Copy(p)'.actual = x /\ Copy(p)'.run_counter = run_counter[t]
    BY <1>1, RingFacts, <2>4, <2>9 DEF InSlot, Copy, CurrentSlot
  <2>13. LocksAtHome'
    <3>1. SUFFICES ASSUME NEW y \in Node, p_obj_copy'[y] # NULL
                   PROVE  \E u \in Threads : \E c \in ws_wb_counter'[u] .. ws_tail_counter'[u] :
                            LockedBy(y, u, c)'
      BY DEF LocksAtHome
    <3>2. CASE y = x
      <4>3. LockedBy(y, t, tail)'
        BY <2>4, <1>1, <1>5, <2>9, <2>12, <3>2, <2>5, <1>3, <2>6 DEF LockedBy, ringVars, Ring,
           TypeOK, InSection
      <4>4. QED BY <2>11, <4>3
    <3>3. CASE y # x
      <4>2. /\ run_counter[t] <= run_counter'[t] /\ run_counter'[t] \in Nat
            /\ is_write_detected'[t] /\ InSection(t)'
        BY <1>1, <1>3, <1>5, <2>6 DEF TypeOK, InSection
      <4>3. QED BY <1>1, <2>4, <2>7, <2>5, <3>1, <3>3, <4>2, LockKept
    <3>4. QED BY <3>2, <3>3
  <2>15. Standing(t)'
    BY <1>3, <1>5, <1>1, <1>2, <2>4, <2>6, <2>7, PointerAssumption, <2>11, <2>12, LockedStanding
       DEF Safe, FORCE_ACTUAL
  <2>19. QED
    BY <1>4, <2>4, <2>6, <2>7, <2>8, <2>13, <2>15, <1>5, <1>1, <2>5, SectionLogStep DEF TypeOK,
       SyncLabels, Made, clockVars, syncVars
<1>9. QED BY <1>7, <1>8

\* What is known when both neighbours are locked: p_prev is a copy of t itself.
LEMMA WriteFacts ==
  ASSUME LogInv, NEW t \in Threads, pc[t] = "write"
  PROVE  /\ ptr[t].p_prev \in Copies /\ ptr[t].p_prev[1] = t /\ ptr[t].p_prev[2] \in Slots
         /\ ptr[t].p_prev[3] \in DOMAIN obj_write_set[t][ptr[t].p_prev[2]]
         /\ Behind(t, ptr[t].p_next) /\ (op[t] = "remove" => Behind(t, ptr[t].n))
         /\ is_write_detected[t] /\ key[t] \in Keys /\ key[t] \in Int
<1>4. PICK c : InSlot(ptr[t].p_prev, c) BY PointerAssumption DEF Safe, Standing, LogInv
<1>7. QED BY <1>4, RluListAssumption DEF InSlot, Copies, Standing, LogInv, Returning, Labels

\* The log after the copy of p_prev was made to point to y.
LEMMA AssignFacts ==
  ASSUME LogInv, NEW t \in Threads, pc[t] = "write", NEW y \in Node \ MinNodes, AssignNext(t, y),
         UNCHANGED <<ringVars, ws_tail_counter>>
  PROVE  /\ obj_write_set' \in [Threads -> [Slots -> Seq(CopyRecord)]]
         /\ \A u \in Threads \ {t} : obj_write_set'[u] = obj_write_set[u]
         /\ LogGrows(t)
         /\ \A u \in Threads : \A s \in Slots : \A i \in DOMAIN obj_write_set'[u][s] :
              EndsWell(obj_write_set'[u][s][i].actual, obj_write_set'[u][s][i].data)
<1>1. TypeOK /\ Contained BY DEF LogInv
<1>2. PICK w, j : w = ptr[t].p_prev[2] /\ j = ptr[t].p_prev[3] OBVIOUS
<1>3. w \in Slots /\ j \in DOMAIN obj_write_set[t][w] BY <1>2, WriteFacts
<1>4. PICK old \in Seq(CopyRecord) : old = obj_write_set[t][w] BY <1>1, <1>3 DEF TypeOK
<1>5. /\ old[j] \in CopyRecord /\ j \in DOMAIN old /\ EndsWell(old[j].actual, old[j].data)
      /\ old[j].actual \in Node /\ old[j].data \in NodeContents /\ old[j].run_counter \in Nat
  <2>1. j \in DOMAIN old /\ old[j] \in CopyRecord BY <1>3, <1>4
  <2>3. QED BY <2>1, <1>1, <1>3, <1>4 DEF CopyRecord, Contained
<1>6. PICK r : r = [old[j] EXCEPT !.data = [old[j].data EXCEPT !.p_next = y]] OBVIOUS
<1>7. /\ r \in CopyRecord /\ r.actual = old[j].actual /\ r.run_counter = old[j].run_counter
      /\ r.data.val = old[j].data.val /\ r.data.p_next = y
  BY <1>5, <1>6, SMTT(30) DEF CopyRecord, NodeContents
<1>9. PICK new : new = [old EXCEPT ![j] = r] BY Zenon
<1>10. obj_write_set' = [obj_write_set EXCEPT ![t] = [obj_write_set[t] EXCEPT ![w] = new]]
  BY <1>2, <1>4, <1>6, <1>9, Zenon DEF AssignNext
<1>11. new \in Seq(CopyRecord) /\ DOMAIN new = DOMAIN old /\ \A i \in DOMAIN old : new[i] = IF i = j THEN r ELSE old[i]
  BY <1>4, <1>5, <1>7, <1>9
<1>12. /\ obj_write_set' \in [Threads -> [Slots -> Seq(CopyRecord)]]
       /\ \A u \in Threads \ {t} : obj_write_set'[u] = obj_write_set[u]
       /\ \A s \in Slots : obj_write_set'[t][s] = IF s = w THEN new ELSE obj_write_set[t][s]
  BY <1>1, <1>3, <1>10, <1>11 DEF TypeOK
<1>14. ASSUME NEW u \in Threads, NEW s \in Slots, NEW i \in DOMAIN obj_write_set'[u][s]
       PROVE  EndsWell(obj_write_set'[u][s][i].actual, obj_write_set'[u][s][i].data)
  <2>1. CASE u = t /\ s = w /\ i = j
    BY <1>5, <1>7, PointerAssumption, <1>11, <1>12, <2>1 DEF EndsWell
  <2>2. CASE ~(u = t /\ s = w /\ i = j)
    <3>1. i \in DOMAIN obj_write_set[u][s] /\ obj_write_set'[u][s][i] = obj_write_set[u][s][i]
      BY <1>4, <1>11, <1>12, <1>14, <2>2
    <3>2. QED BY <1>1, <3>1 DEF Contained
  <2>3. QED BY <2>1, <2>2
<1>15. QED BY <1>12, <1>4, <1>7, <1>11, <1>14 DEF LogGrows, ringVars

\* Both updates: the copy of p_prev points to y.
LEMMA UpdateStep ==
  ASSUME LogInv, NEW t \in Threads, pc[t] = "write", NEW y \in Node \ MinNodes, AssignNext(t, y),
         UNCHANGED <<clockVars, run_counter, local_version, ringVars, syncVars, ret, is_write_detected,
                     ws_tail_counter, op, key, derefVars>>,
         result' = [result EXCEPT ![t] = 1], pc' = [pc EXCEPT ![t] = "reader_unlock"],
         data' \in [Node -> NodeContents], \A x \in Node : EndsWell(x, data'[x]),
         p_obj_copy' \in [Node -> Copies \union {NULL}],
         \A x \in Node : p_obj_copy'[x] \in {p_obj_copy[x], NULL},
         allocated' \subseteq Node, MinNodes \subseteq allocated',
         free_nodes' \in [Threads -> SUBSET (Node \ MinNodes)]
  PROVE  LogInv'
<1>1. TypeOK /\ LocksAtHome /\ Standing(t) BY DEF LogInv
<1>2. /\ obj_write_set' \in [Threads -> [Slots -> Seq(CopyRecord)]]
      /\ \A u \in Threads \ {t} : obj_write_set'[u] = obj_write_set[u]
      /\ LogGrows(t)
      /\ \A u \in Threads : \A s \in Slots : \A i \in DOMAIN obj_write_set'[u][s] :
           EndsWell(obj_write_set'[u][s][i].actual, obj_write_set'[u][s][i].data)
  BY AssignFacts
<1>4. pc'[t] = "reader_unlock" /\ result'[t] = 1 /\ is_write_detected[t]
  BY <1>1, WriteFacts DEF TypeOK
<1>5. /\ InSection(t) /\ pc'[t] \in Labels /\ "reader_unlock" \in AllLabels /\ InSection(t)'
      /\ pc'[t] \notin SyncLabels
  BY <1>4 DEF InSection, Labels, AllLabels, SyncLabels
<1>6. SameOthers(t) BY <1>1, <1>2 DEF TypeOK, SameOthers, SameThread, ringVars, syncVars, derefVars
<1>7. TypeOK'
  <2>1. pc' \in [Threads -> AllLabels] /\ result' \in [Threads -> Int] BY <1>1, <1>5 DEF TypeOK
  <2>2. QED BY <1>1, <1>2, <2>1 DEF TypeOK, clockVars, ringVars, syncVars, derefVars
<1>8. LocksAtHome'
  <2>1. SUFFICES ASSUME NEW x \in Node, p_obj_copy'[x] # NULL
                 PROVE  \E u \in Threads : \E c \in ws_wb_counter'[u] .. ws_tail_counter'[u] :
                          LockedBy(x, u, c)'
    BY DEF LocksAtHome
  <2>3. run_counter[t] <= run_counter'[t] /\ run_counter'[t] \in Nat /\ is_write_detected'[t]
    BY <1>1, <1>4 DEF TypeOK
  <2>4. QED BY <1>1, <1>2, <1>5, <1>6, <2>1, <2>3, LockKept
<1>11. UNCHANGED <<run_counter, local_version, writer_version, q_threads, written,
                   g_rlu_writer_version, op, key>>
  BY DEF clockVars, syncVars
<1>12. QED
  BY <1>2, <1>5, <1>6, <1>7, <1>8, <1>4, <1>1, OwnSafe, <1>11, SectionLogStep DEF Contained,
     EndsWell, Made, Behind, Standing, derefVars

\* AddNode
LEMMA AddNodeStep ==
  ASSUME LogInv, NEW t \in Threads, AddNode(t)
  PROVE  LogInv'
<1> USE DEF AddNode
<1>1. TypeOK /\ Contained /\ pc[t] = "write" BY DEF LogInv
<1>2. PICK x \in Node \ allocated :
        /\ rlu_alloc(x, [val |-> key[t], p_next |-> FORCE_ACTUAL(ptr[t].p_next)])
        /\ AssignNext(t, x)
  OBVIOUS
<1>3. /\ UNCHANGED <<clockVars, run_counter, local_version, ringVars, syncVars, ret,
                     is_write_detected, ws_tail_counter, op, key, derefVars, free_nodes>>
      /\ result' = [result EXCEPT ![t] = 1] /\ pc' = [pc EXCEPT ![t] = "reader_unlock"]
  BY DEF sectionVars, Goto
<1> HIDE DEF AddNode
<1>4. x \in Node \ MinNodes BY <1>1 DEF TypeOK
<1>5. PICK d : d = [val |-> key[t], p_next |-> FORCE_ACTUAL(ptr[t].p_next)] OBVIOUS
<1>8. data' \in [Node -> NodeContents] /\ \A z \in Node : EndsWell(z, data'[z])
  BY <1>1, <1>4, WriteFacts, <1>5, PointerAssumption, <1>2 DEF TypeOK, Contained, Behind,
     NodeContents, EndsWell, rlu_alloc
<1>9. /\ p_obj_copy' \in [Node -> Copies \union {NULL}]
      /\ \A z \in Node : p_obj_copy'[z] \in {p_obj_copy[z], NULL}
      /\ allocated' \subseteq Node /\ MinNodes \subseteq allocated'
      /\ free_nodes' \in [Threads -> SUBSET (Node \ MinNodes)]
  BY <1>1, <1>3, <1>4, <1>2, <1>5 DEF TypeOK, rlu_alloc
<1>10. QED BY <1>1, <1>2, <1>3, <1>4, <1>8, <1>9, UpdateStep

\* RemoveNode
LEMMA RemoveNodeStep ==
  ASSUME LogInv, NEW t \in Threads, RemoveNode(t)
  PROVE  LogInv'
<1> USE DEF RemoveNode
<1>1. TypeOK /\ Contained /\ pc[t] = "write" /\ op[t] = "remove" BY DEF LogInv
<1>2. /\ AssignNext(t, FORCE_ACTUAL(ptr[t].n)) /\ rlu_free(t, ptr[t].p_next)
      /\ UNCHANGED <<objVars, clockVars, run_counter, local_version, ringVars, syncVars, ret,
                     is_write_detected, ws_tail_counter, op, key, derefVars>>
      /\ result' = [result EXCEPT ![t] = 1] /\ pc' = [pc EXCEPT ![t] = "reader_unlock"]
  BY DEF sectionVars, Goto
<1> HIDE DEF RemoveNode
<1>3. PICK y \in Node \ MinNodes : y = FORCE_ACTUAL(ptr[t].n) BY <1>1, WriteFacts DEF Behind
<1>4. PICK z \in Node \ MinNodes : z = FORCE_ACTUAL(ptr[t].p_next) BY <1>1, WriteFacts DEF Behind
<1>8. QED BY <1>1, <1>2, <1>4, <1>3, UpdateStep DEF rlu_free, TypeOK, Contained, objVars

-----------------------------------------------------------------------------
(* Leaving a section *)

\* The pointers of a section that was left are forgotten.
LEMMA ForgotStanding ==
  ASSUME NEW t \in Threads, ptr'[t] = NoPtr, pc'[t] \notin Labels
  PROVE  Standing(t)'
<1>2. QED BY DEF Standing, Labels, InSection, NoPtr

\* What Forget leaves.
LEMMA ForgetFacts ==
  ASSUME TypeOK, NEW t \in Threads, Forget(t)
  PROVE  /\ ptr'[t] = NoPtr
         /\ ptr' \in [Threads -> [p_prev : Pointers, p_next : Pointers, n : Pointers]]
         /\ into' \in [Threads -> {"p_prev", "p_next", "n"}] /\ raw' = raw /\ copy' = copy
         /\ \A u \in Threads \ {t} : ptr'[u] = ptr[u] /\ into'[u] = into[u]
<1>2. QED BY DEF Forget, TypeOK, NoPtr, Pointers

\* Unlock: what the section locked is deferred.
LEMMA UnlockStep ==
  ASSUME LogInv, NEW t \in Threads, Unlock(t)
  PROVE  LogInv'
<1> USE DEF Unlock, ReaderUnlock, CommitWriteSet, CallSync, Goto
<1>1. /\ TypeOK /\ Contained /\ LocksAtHome /\ Clocks(t) /\ Returning(t) /\ Ring(t) /\ Made(t)
      /\ pc[t] = "reader_unlock"
  BY DEF LogInv
<1>2. /\ UNCHANGED <<objVars, clockVars, ringVars, syncVars, obj_write_set, free_nodes,
                     local_version, op, key, result>>
      /\ run_counter' = [run_counter EXCEPT ![t] = run_counter[t] + 1]
      /\ is_write_detected' = [is_write_detected EXCEPT ![t] = FALSE]
      /\ Forget(t)
  BY DEF callVars
<1>3. PICK head \in Nat, wb \in Nat, tail \in Nat :
        head = ws_head_counter[t] /\ wb = ws_wb_counter[t] /\ tail = ws_tail_counter[t]
  BY <1>1 DEF TypeOK
<1>4. PICK l \in {"sync", "unlocked"}, r \in AllLabels, m \in Nat :
        /\ pc' = [pc EXCEPT ![t] = l] /\ ret' = [ret EXCEPT ![t] = r]
        /\ ws_tail_counter' = [ws_tail_counter EXCEPT ![t] = m]
        /\ l = "sync" => r = "unlocked" /\ is_write_detected[t]
        /\ m = IF is_write_detected[t] THEN tail + 1 ELSE tail
        /\ l = "unlocked" => ~is_write_detected[t] \/ ~(m - wb >= max_write_sets)
  <2>1. ret[t] \in AllLabels /\ ret = [ret EXCEPT ![t] = ret[t]]
        /\ ws_tail_counter = [ws_tail_counter EXCEPT ![t] = tail] /\ "unlocked" \in AllLabels
    BY <1>1, <1>3 DEF TypeOK, AllLabels, PauseLabels
  <2>2. CASE ~is_write_detected[t]
    <3>1. /\ pc' = [pc EXCEPT ![t] = "unlocked"] /\ ret' = [ret EXCEPT ![t] = ret[t]]
          /\ ws_tail_counter' = [ws_tail_counter EXCEPT ![t] = tail]
      BY <2>1, <2>2
    <3> HIDE DEF Unlock, ReaderUnlock, CommitWriteSet, CallSync, Goto
    <3>2. QED BY <2>1, <2>2, <3>1
  <2>3. CASE is_write_detected[t] /\ (WS_INDEX(tail + 1) = WS_INDEX(head) \/ tail + 1 - wb >= max_write_sets)
    <3>1. /\ pc' = [pc EXCEPT ![t] = "sync"] /\ ret' = [ret EXCEPT ![t] = "unlocked"]
          /\ ws_tail_counter' = [ws_tail_counter EXCEPT ![t] = tail + 1]
      BY <1>3, <2>3
    <3> HIDE DEF Unlock, ReaderUnlock, CommitWriteSet, CallSync, Goto
    <3> USE <2>1
    <3> WITNESS "sync" \in {"sync", "unlocked"}, "unlocked" \in AllLabels, tail + 1 \in Nat
    <3>3. QED BY <2>3, <3>1
  <2>4. CASE is_write_detected[t] /\ ~(WS_INDEX(tail + 1) = WS_INDEX(head) \/ tail + 1 - wb >= max_write_sets)
    <3>1. /\ pc' = [pc EXCEPT ![t] = "unlocked"] /\ ret' = [ret EXCEPT ![t] = ret[t]]
          /\ ws_tail_counter' = [ws_tail_counter EXCEPT ![t] = tail + 1]
      BY <1>3, <2>1, <2>4
    <3> HIDE DEF Unlock, ReaderUnlock, CommitWriteSet, CallSync, Goto
    <3> USE <2>1
    <3> WITNESS "unlocked" \in {"sync", "unlocked"}, ret[t] \in AllLabels, tail + 1 \in Nat
    <3>3. QED BY <2>4, <3>1
  <2>5. QED BY <2>2, <2>3, <2>4
<1> HIDE DEF Unlock, ReaderUnlock, CommitWriteSet, CallSync, Goto
<1>5. /\ pc'[t] = l /\ ret'[t] = r /\ ws_tail_counter'[t] = m /\ tail <= m
      /\ run_counter'[t] = run_counter[t] + 1 /\ run_counter[t] \in Nat
      /\ ws_head_counter'[t] = head /\ ws_wb_counter'[t] = wb /\ head <= wb /\ wb <= tail
  <2>4. ws_head_counter'[t] = head /\ ws_wb_counter'[t] = wb /\ head <= wb /\ wb <= tail
    BY <1>1, <1>2, <1>3 DEF ringVars, Ring
  <2>5. QED BY <1>1, <1>4, <1>2, <2>4 DEF TypeOK
<1>6. /\ ptr'[t] = NoPtr
      /\ ptr' \in [Threads -> [p_prev : Pointers, p_next : Pointers, n : Pointers]]
      /\ into' \in [Threads -> {"p_prev", "p_next", "n"}] /\ raw' = raw /\ copy' = copy
      /\ \A u \in Threads \ {t} : ptr'[u] = ptr[u] /\ into'[u] = into[u]
  BY <1>1, <1>2, ForgetFacts
<1>7. /\ l \in AllLabels /\ l \notin Labels /\ pc[t] \notin SyncLabels /\ InSection(t)
      /\ l = "sync" <=> l \in SyncLabels
      /\ l \notin {"version", "advance", "quiesce", "writeback", "commit_version", "sync_end",
                   "register", "reader_lock", "unlock_objs", "aborted"}
  BY <1>1, <1>4 DEF AllLabels, Labels, SyncLabels, PauseLabels, InSection
<1>8. SameOthers(t) BY <1>1, <1>2, <1>4, <1>6 DEF TypeOK, SameOthers, SameThread, ringVars, syncVars
<1>9. TypeOK'
  <2>1. /\ pc' \in [Threads -> AllLabels] /\ ret' \in [Threads -> AllLabels]
        /\ ws_tail_counter' \in [Threads -> Nat] /\ run_counter' \in [Threads -> Nat]
        /\ is_write_detected' \in [Threads -> BOOLEAN]
    BY <1>1, <1>2, <1>4, <1>7, SMTT(40) DEF TypeOK
  <2>2. QED BY <1>1, <1>2, <1>6, <2>1 DEF TypeOK, objVars, clockVars, ringVars, syncVars
<1>12. LocksAtHome'
  <2>1. SUFFICES ASSUME NEW x \in Node, p_obj_copy[x] # NULL
                 PROVE  \E u \in Threads : \E c \in ws_wb_counter'[u] .. ws_tail_counter'[u] :
                          LockedBy(x, u, c)'
    BY <1>2 DEF LocksAtHome, objVars
  <2>2. PICK u \in Threads : \E c \in ws_wb_counter[u] .. ws_tail_counter[u] : LockedBy(x, u, c)
    BY <1>1, <2>1 DEF LocksAtHome
  <2>3. PICK c \in ws_wb_counter[u] .. ws_tail_counter[u] : LockedBy(x, u, c) BY <2>2
  <2>4. PICK p : p = p_obj_copy[x] OBVIOUS
  <2>5. /\ p[1] = u /\ InSlot(p, c) /\ Copy(p).actual = x
        /\ \/ c < ws_tail_counter[u] /\ Copy(p).run_counter < run_counter[u]
           \/ /\ c = ws_tail_counter[u] /\ Copy(p).run_counter <= run_counter[u]
              /\ is_write_detected[u] /\ (InSection(u) \/ pc[u] = "unlock_objs")
    BY <2>3, <2>4 DEF LockedBy
  <2>6. p_obj_copy'[x] = p /\ InSlot(p, c)' /\ Copy(p)'.actual = x /\ Copy(p)' = Copy(p)
    BY <1>2, <2>4, <2>5 DEF objVars, InSlot, Copy
  <2>7. CASE u = t
    BY <1>1, <2>5, CopyFacts, <1>3, <1>4, <1>5, <2>3, <2>7, <2>6 DEF CopyRecord, LockedBy
  <2>8. CASE u # t BY <1>8, <2>8, <2>3, <2>5, <2>6 DEF SameOthers, SameThread, LockedBy, InSection
  <2>9. QED BY <2>7, <2>8
<1>17. Unlocked(t)' /\ Standing(t)' BY <1>5, <1>6, <1>7, ForgotStanding DEF Unlocked
<1>18. ThreadInv(t)'
  BY <1>1, <1>7, <1>5, <1>2, <1>4, <1>3, RluInitAssumption, <1>17 DEF ThreadInv, Clocks, InSection,
     clockVars, syncVars, Returning, Ring, Made
<1>19. ASSUME NEW u \in Threads \ {t} PROVE LogKept(t, u) /\ OfferKept(t, u)
  BY <1>5, <1>7, <1>2, <1>3 DEF WaitsFor, LogKept, OfferKept, syncVars, InSlot, Copy
<1>21. g_rlu_writer_version <= g_rlu_writer_version' BY <1>1, <1>2 DEF TypeOK, clockVars
<1>22. QED BY <1>8, <1>9, <1>1, <1>2, <1>12, <1>18, <1>19, <1>21, Assembly DEF Contained, objVars

\* Abort: the locks stay for another step.
LEMMA AbortStep ==
  ASSUME LogInv, NEW t \in Threads, Abort(t)
  PROVE  LogInv'
<1> USE DEF Abort, Unregister, Goto
<1>1. /\ TypeOK /\ Contained /\ LocksAtHome /\ Clocks(t) /\ Returning(t) /\ Ring(t) /\ Made(t)
      /\ pc[t] = "abort"
  BY DEF LogInv
<1>2. /\ UNCHANGED <<objVars, clockVars, ringVars, syncVars, logVars, local_version, op, key, ret>>
      /\ run_counter' = [run_counter EXCEPT ![t] = run_counter[t] + 1]
      /\ pc' = [pc EXCEPT ![t] = "unlock_objs"] /\ Forget(t)
      /\ result' = result \/ result' = [result EXCEPT ![t] = ABORTED]
  OBVIOUS
<1> HIDE DEF Abort, Unregister, Goto
<1>3. /\ pc'[t] = "unlock_objs" /\ run_counter'[t] = run_counter[t] + 1 /\ run_counter[t] \in Nat
  BY <1>1, <1>2 DEF TypeOK
<1>4. /\ ptr'[t] = NoPtr
      /\ ptr' \in [Threads -> [p_prev : Pointers, p_next : Pointers, n : Pointers]]
      /\ into' \in [Threads -> {"p_prev", "p_next", "n"}] /\ raw' = raw /\ copy' = copy
      /\ \A u \in Threads \ {t} : ptr'[u] = ptr[u] /\ into'[u] = into[u]
  BY <1>1, <1>2, ForgetFacts
<1>5. /\ "unlock_objs" \in AllLabels /\ "unlock_objs" \notin Labels /\ pc[t] \notin SyncLabels
      /\ InSection(t) /\ "unlock_objs" \notin SyncLabels /\ pc[t] \in Labels
  BY <1>1 DEF AllLabels, Labels, SyncLabels, PauseLabels, InSection
<1>6. /\ result' \in [Threads -> Int] /\ result'[t] # 1
      /\ \A u \in Threads \ {t} : result'[u] = result[u]
  <2>3. CASE result' = result BY <1>1, <1>5, <2>3 DEF Made, TypeOK
  <2>4. CASE result' = [result EXCEPT ![t] = ABORTED] BY <1>1, <2>4 DEF ABORTED, TypeOK
  <2>5. QED BY <1>2, <2>3, <2>4
<1>7. SameOthers(t)
  BY <1>1, <1>2, <1>4, <1>6 DEF TypeOK, ringVars, syncVars, logVars, SameOthers, SameThread
<1>8. TypeOK'
  <2>1. pc' \in [Threads -> AllLabels] /\ run_counter' \in [Threads -> Nat]
    BY <1>1, <1>2, <1>5 DEF TypeOK
  <2>2. QED
    BY <1>1, <1>2, <1>4, <1>6, <2>1 DEF TypeOK, objVars, clockVars, ringVars, syncVars, logVars
<1>14. Unlocked(t)' /\ Standing(t)' BY <1>3, <1>4, <1>5, ForgotStanding DEF Unlocked
<1>15. ThreadInv(t)'
  BY <1>1, <1>5, <1>3, <1>2, <1>6, <1>14 DEF ThreadInv, Clocks, InSection, clockVars, syncVars,
     Returning, Ring, Made, ringVars, logVars
<1>16. ASSUME NEW u \in Threads \ {t} PROVE LogKept(t, u) /\ OfferKept(t, u)
  BY <1>2, <1>3, <1>1, <1>7, GrowingLogKept DEF WaitsFor, syncVars, LogGrows, logVars, ringVars
<1>18. g_rlu_writer_version <= g_rlu_writer_version' BY <1>1, <1>2 DEF TypeOK, clockVars
<1>19. QED
  BY <1>7, <1>8, <1>1, <1>2, <1>3, LockKept, <1>15, <1>16, <1>18, Assembly DEF Contained, objVars,
     logVars, LocksAtHome, LogGrows, ringVars

\* AbortUnlock: the current slot is reset, the deferred ones are others.
LEMMA AbortUnlockStep ==
  ASSUME LogInv, NEW t \in Threads, AbortUnlock(t)
  PROVE  LogInv'
<1> USE DEF AbortUnlock, UnlockObjs, Goto
<1>1. /\ TypeOK /\ Contained /\ LocksAtHome /\ Clocks(t) /\ Returning(t) /\ Ring(t) /\ Made(t)
      /\ Standing(t) /\ pc[t] = "unlock_objs"
  BY DEF LogInv
<1>2. /\ UNCHANGED <<data, allocated, clockVars, ringVars, syncVars, ret, run_counter,
                     local_version, ws_tail_counter, free_nodes, op, key, result, derefVars>>
      /\ p_obj_copy' = [x \in Node |-> IF \E i \in DOMAIN CurrentSet(t) : CurrentSet(t)[i].actual = x
                                       THEN NULL ELSE p_obj_copy[x]]
      /\ obj_write_set' = [obj_write_set EXCEPT ![t] =
                             [obj_write_set[t] EXCEPT ![CurrentSlot(t)] = <<>>]]
      /\ is_write_detected' = [is_write_detected EXCEPT ![t] = FALSE]
      /\ pc' = [pc EXCEPT ![t] = "aborted"]
  BY DEF sectionVars, callVars
<1> HIDE DEF AbortUnlock, UnlockObjs, Goto
<1>3. pc'[t] = "aborted" BY <1>1, <1>2 DEF TypeOK
<1>4. PICK s \in Slots : s = CurrentSlot(t) BY <1>1, RingFacts
<1>5. /\ "aborted" \in AllLabels /\ "aborted" \notin Labels /\ pc[t] \notin SyncLabels
      /\ ~InSection(t) /\ "aborted" \notin SyncLabels /\ pc[t] \notin Labels
  BY <1>1 DEF AllLabels, Labels, SyncLabels, PauseLabels, InSection
<1>6. /\ obj_write_set' \in [Threads -> [Slots -> Seq(CopyRecord)]]
      /\ \A u \in Threads \ {t} : obj_write_set'[u] = obj_write_set[u]
      /\ \A w \in Slots : obj_write_set'[t][w] = IF w = s THEN <<>> ELSE obj_write_set[t][w]
  BY <1>1, <1>2, <1>4 DEF TypeOK
<1>7. SameOthers(t)
  BY <1>1, <1>2, <1>6 DEF TypeOK, SameOthers, SameThread, ringVars, syncVars, derefVars
<1>9. Contained'
  <2>1. ASSUME NEW u \in Threads, NEW w \in Slots, NEW i \in DOMAIN obj_write_set'[u][w]
        PROVE  /\ i \in DOMAIN obj_write_set[u][w] /\ obj_write_set'[u][w] = obj_write_set[u][w]
    <3>1. CASE u = t /\ w = s BY <1>6, <2>1, <3>1
    <3>2. CASE ~(u = t /\ w = s) BY <1>6, <2>1, <3>2
    <3>3. QED BY <3>1, <3>2
  <2>2. QED BY <1>1, <1>2, <2>1 DEF Contained, EndsWell
<1>10. /\ ws_head_counter' = ws_head_counter /\ ws_wb_counter' = ws_wb_counter
       /\ ws_tail_counter' = ws_tail_counter
       /\ ws_head_counter[t] \in Nat /\ ws_wb_counter[t] \in Nat /\ ws_tail_counter[t] \in Nat
       /\ ws_head_counter[t] <= ws_wb_counter[t]
  BY <1>1, <1>2 DEF ringVars, TypeOK, Ring
<1>11. ASSUME NEW p, NEW c \in ws_head_counter[t] .. ws_tail_counter[t] - 1, InSlot(p, c), p[1] = t
       PROVE  InSlot(p, c)' /\ Copy(p)' = Copy(p)
  <2>2. WS_INDEX(c) # s /\ WS_INDEX(c) \in Slots
    BY <1>1, <1>4, <1>5, <1>10, RingFacts DEF CurrentSlot
  <2>4. QED BY <1>11, <1>6, <2>2 DEF InSlot, Copy
<1>12. LocksAtHome'
  <2>1. SUFFICES ASSUME NEW x \in Node, p_obj_copy'[x] # NULL
                 PROVE  \E u \in Threads : \E c \in ws_wb_counter'[u] .. ws_tail_counter'[u] :
                          LockedBy(x, u, c)'
    BY DEF LocksAtHome
  <2>2. PICK p : p = p_obj_copy[x] OBVIOUS
  <2>3. p # NULL /\ p_obj_copy'[x] = p /\ \A i \in DOMAIN CurrentSet(t) : CurrentSet(t)[i].actual # x
    BY <1>2, <2>1, <2>2
  <2>4. PICK u \in Threads : \E c \in ws_wb_counter[u] .. ws_tail_counter[u] : LockedBy(x, u, c)
    BY <1>1, <2>2, <2>3 DEF LocksAtHome
  <2>5. PICK c \in ws_wb_counter[u] .. ws_tail_counter[u] : LockedBy(x, u, c) BY <2>4
  <2>6. /\ p[1] = u /\ InSlot(p, c) /\ Copy(p).actual = x
        /\ \/ c < ws_tail_counter[u] /\ Copy(p).run_counter < run_counter[u]
           \/ /\ c = ws_tail_counter[u] /\ Copy(p).run_counter <= run_counter[u]
              /\ is_write_detected[u] /\ (InSection(u) \/ pc[u] = "unlock_objs")
    BY <2>2, <2>5 DEF LockedBy
  <2>7. CASE u = t
    <3>1. c # ws_tail_counter[t] BY <2>6, <2>7, <2>3 DEF InSlot, CurrentSlot, CurrentSet, Copy
    <3>5. QED BY <1>10, <2>5, <1>2, <2>3, <2>6, <2>7, <3>1, <1>11 DEF LockedBy
  <2>8. CASE u # t
    <3>3. LockedBy(x, u, c)' /\ c \in ws_wb_counter'[u] .. ws_tail_counter'[u]
      BY <2>3, <2>5, <2>6, <1>7, <2>8 DEF SameThread, LockedBy, InSection, SameOthers, InSlot, Copy
    <3>4. QED BY <3>3
  <2>9. QED BY <2>7, <2>8
<1>14. Clocks(t)' /\ Returning(t)' /\ Ring(t)' /\ Made(t)'
  BY <1>1, <1>2, <1>3, <1>5, <1>10 DEF Clocks, InSection, Returning, Ring, Made, clockVars, syncVars
<1>16. ThreadInv(t)'
  BY <1>14, <1>1, <1>2, <1>5, <1>3, ForgotStanding DEF ThreadInv, Standing, derefVars, Unlocked
<1>17. ASSUME NEW u \in Threads \ {t} PROVE LogKept(t, u) /\ OfferKept(t, u)
  BY <1>2, <1>3, <1>10, <1>11 DEF WaitsFor, syncVars, LogKept, OfferKept
<1>19. g_rlu_writer_version <= g_rlu_writer_version' BY <1>1, <1>2 DEF TypeOK, clockVars
<1>20. QED
  BY <1>7, <1>1, <1>5, <1>6, <1>9, <1>12, <1>16, <1>17, <1>2, <1>19, Assembly DEF TypeOK, clockVars,
     ringVars, syncVars, derefVars

-----------------------------------------------------------------------------
(* The end of a synchronization *)

\* Who is waited for is not in the section in which it took its pointers.
LEMMA NobodyToWaitFor ==
  ASSUME TypeOK, NEW t \in Threads, NEW u \in Threads, pc[t] = "quiesce", NoNeedToWait(t, u),
         Clocks(u), InSection(u)
  PROVE  ~WaitsFor(t, u)
<1>1. /\ run_counter[u] \in Nat /\ local_version[u] \in Nat /\ writer_version[t] \in Nat
      /\ run_counter[u] % 2 = 1 /\ UNREAD = -1
  BY DEF TypeOK, Clocks, UNREAD
<1>3. QED BY <1>1 DEF WaitsFor, NoNeedToWait

\* SyncQuiesced: the slots that are reset hold no lock and are read by nobody.
LEMMA SyncQuiescedStep ==
  ASSUME LogInv, NEW t \in Threads, SyncQuiesced(t), UNCHANGED <<callVars, derefVars>>
  PROVE  LogInv'
<1> USE DEF SyncQuiesced, Goto
<1>1. /\ TypeOK /\ Contained /\ LocksAtHome /\ Clocks(t) /\ Returning(t) /\ Ring(t) /\ Made(t)
      /\ Standing(t) /\ pc[t] = "quiesce" /\ \A u \in Threads : Clocks(u)
  BY DEF LogInv
<1>2. PICK head \in Nat, wb \in Nat, tail \in Nat :
        head = ws_head_counter[t] /\ wb = ws_wb_counter[t] /\ tail = ws_tail_counter[t]
  BY <1>1 DEF TypeOK
<1>3. PICK new : new = [s \in Slots |-> IF \E c \in head .. wb - 1 : s = WS_INDEX(c)
                                        THEN <<>> ELSE obj_write_set[t][s]]
  OBVIOUS
<1>4. /\ UNCHANGED <<objVars, clockVars, run_counter, local_version, ret, is_write_detected,
                     ws_tail_counter, free_nodes, ws_wb_counter, writer_version, written, callVars,
                     derefVars>>
      /\ obj_write_set' = [obj_write_set EXCEPT ![t] = new]
      /\ ws_head_counter' = [ws_head_counter EXCEPT ![t] = wb]
      /\ q_threads' = [q_threads EXCEPT ![t] = [u \in Threads |-> 0]]
      /\ pc' = [pc EXCEPT ![t] = "writeback"]
      /\ \A u \in Threads : NoNeedToWait(t, u)
  BY <1>2, <1>3 DEF sectionVars
<1> HIDE DEF SyncQuiesced, Goto
<1>5. /\ pc'[t] = "writeback" /\ ws_head_counter'[t] = wb /\ ws_wb_counter'[t] = wb
      /\ ws_tail_counter'[t] = tail /\ obj_write_set'[t] = new
      /\ head <= wb /\ wb <= tail /\ tail - wb <= max_write_sets
  BY <1>1, <1>2, <1>4 DEF TypeOK, Ring
<1>6. /\ "writeback" \in AllLabels /\ "writeback" \notin Labels /\ "writeback" \in SyncLabels
      /\ pc[t] \in SyncLabels /\ pc[t] \notin Labels /\ ~InSection(t) /\ pc[t] # "unlock_objs"
  BY <1>1 DEF AllLabels, Labels, SyncLabels, InSection
<1>7. /\ new \in [Slots -> Seq(CopyRecord)]
      /\ \A s \in Slots : new[s] \in {<<>>, obj_write_set[t][s]} BY <1>1, <1>3 DEF TypeOK
<1>8. /\ obj_write_set' \in [Threads -> [Slots -> Seq(CopyRecord)]]
      /\ \A u \in Threads \ {t} : obj_write_set'[u] = obj_write_set[u]
  BY <1>1, <1>4, <1>7 DEF TypeOK
<1>9. SameOthers(t) BY <1>1, <1>4, <1>8 DEF TypeOK, SameOthers, SameThread, callVars, derefVars
<1>10. TypeOK'
  <2>2. q_threads' \in [Threads -> [Threads -> Int]] BY <1>1, <1>4 DEF TypeOK
  <2>3. QED BY <1>1, <1>4, <1>8, <1>6, <2>2 DEF TypeOK, objVars, clockVars, callVars, derefVars
<1>11. Contained'
  <2>1. ASSUME NEW u \in Threads, NEW w \in Slots, NEW i \in DOMAIN obj_write_set'[u][w]
        PROVE  /\ i \in DOMAIN obj_write_set[u][w] /\ obj_write_set'[u][w] = obj_write_set[u][w]
    <3>1. CASE u = t BY <1>5, <1>7, <2>1, <3>1
    <3>2. CASE u # t BY <1>8, <2>1, <3>2
    <3>3. QED BY <3>1, <3>2
  <2>2. QED BY <1>1, <1>4, <2>1 DEF Contained, EndsWell, objVars
<1>12. ASSUME NEW p, NEW c \in wb .. tail - 1, InSlot(p, c), p[1] = t
       PROVE  InSlot(p, c)' /\ Copy(p)' = Copy(p)
  <2>1. ASSUME NEW d \in head .. wb - 1 PROVE WS_INDEX(c) # WS_INDEX(d)
    BY <1>5, <1>1, <1>2, RingFacts
  <2>4. QED BY <1>12, <1>3, <1>5, <2>1, IndexFacts DEF InSlot, Copy
<1>13. LocksAtHome'
  <2>1. SUFFICES ASSUME NEW x \in Node, p_obj_copy[x] # NULL
                 PROVE  \E u \in Threads : \E c \in ws_wb_counter'[u] .. ws_tail_counter'[u] :
                          LockedBy(x, u, c)'
    BY <1>4 DEF LocksAtHome, objVars
  <2>2. PICK p : p = p_obj_copy[x] OBVIOUS
  <2>4. PICK u \in Threads : \E c \in ws_wb_counter[u] .. ws_tail_counter[u] : LockedBy(x, u, c)
    BY <1>1, <2>1 DEF LocksAtHome
  <2>5. PICK c \in ws_wb_counter[u] .. ws_tail_counter[u] : LockedBy(x, u, c) BY <2>4
  <2>7. CASE u = t BY <1>2, <1>6, <2>5, <2>7, <1>12, <1>4, <1>5, <2>2 DEF LockedBy, objVars
  <2>8. CASE u # t
    <3>3. LockedBy(x, u, c)' /\ c \in ws_wb_counter'[u] .. ws_tail_counter'[u]
      BY <1>4, <2>2, <2>5, <1>9, <2>8 DEF SameThread, LockedBy, InSection, objVars, InSlot, Copy,
         SameOthers
    <3>4. QED BY <3>3
  <2>9. QED BY <2>7, <2>8
<1>17. Unlocked(t)' BY <1>1, <1>4, <1>5, <1>7, CopiesFromFacts DEF Gathers, Clocks, Deferred, Unlocked
<1>18. Standing(t)' BY <1>1, <1>4, <1>6, <1>5, ForgotStanding DEF Standing, derefVars
<1>19. ThreadInv(t)'
  BY <1>1, <1>4, <1>5, <1>6, RluInitAssumption, <1>2, <1>17, <1>18 DEF ThreadInv, Clocks, Returning,
     InSection, callVars, clockVars, Ring, Made
<1>20. ASSUME NEW u \in Threads \ {t}, InSection(u) PROVE LogKept(t, u) /\ OfferKept(t, u)
  BY <1>1, <1>4, <1>20, NobodyToWaitFor, <1>5, <1>2, <1>12 DEF LogKept, OfferKept
<1>22. g_rlu_writer_version <= g_rlu_writer_version' BY <1>1, <1>4 DEF TypeOK, clockVars
<1>23. QED BY <1>9, <1>10, <1>11, <1>13, <1>19, <1>20, <1>4, <1>22, Assembly DEF objVars

\* WriteBack: the lock on the object that is unlocked pointed to this copy, if
\* any did.
LEMMA WriteBackStep ==
  ASSUME LogInv, NEW t \in Threads, WriteBack(t), UNCHANGED <<callVars, derefVars>>
  PROVE  LogInv'
<1> USE DEF WriteBack
<1>1. /\ TypeOK /\ Contained /\ LocksAtHome /\ Clocks(t) /\ Returning(t) /\ Ring(t) /\ Made(t)
      /\ Unlocked(t) /\ pc[t] = "writeback" /\ written[t] < Len(Deferred(t))
  BY DEF LogInv
<1>2. PICK D \in Seq(Copies) : D = Deferred(t) BY <1>1, DeferredFacts
<1>3. PICK n \in Nat : n = written[t] BY <1>1 DEF TypeOK
<1>4. n + 1 \in 1 .. Len(D) BY <1>1, <1>2, <1>3
<1>5. PICK p : p = D[n + 1] OBVIOUS
<1>6. PICK c : InSlot(p, c) BY <1>1, <1>2, <1>4, <1>5, DeferredFacts, ZenonT(30)
<1>7. /\ Copy(p) \in CopyRecord /\ p # NULL /\ p[1] \in Threads /\ p[2] \in Slots
      /\ p[3] \in DOMAIN obj_write_set[p[1]][p[2]]
  BY <1>1, <1>6, CopyFacts DEF InSlot
<1>8. PICK x \in Node : x = Copy(p).actual BY <1>7 DEF CopyRecord
<1>9. PICK d \in NodeContents : d = Copy(p).data BY <1>7 DEF CopyRecord
<1>10. EndsWell(x, d) BY <1>1, <1>7, <1>8, <1>9, Zenon DEF Contained, Copy
<1>11. /\ UNCHANGED <<allocated, clockVars, run_counter, local_version, logVars, ringVars, pc, ret,
                      writer_version, q_threads, callVars, derefVars>>
       /\ data' = [data EXCEPT ![x] = d] /\ p_obj_copy' = [p_obj_copy EXCEPT ![x] = NULL]
       /\ written' = [written EXCEPT ![t] = n + 1]
  BY <1>2, <1>3, <1>5, <1>8, <1>9 DEF sectionVars
<1> HIDE DEF WriteBack
<1>12. SameOthers(t)
  BY <1>1, <1>11 DEF TypeOK, SameOthers, SameThread, logVars, ringVars, callVars, derefVars
<1>13. TypeOK'
  <2>1. /\ data' \in [Node -> NodeContents] /\ p_obj_copy' \in [Node -> Copies \union {NULL}]
        /\ written' \in [Threads -> Nat]
    BY <1>1, <1>11 DEF TypeOK
  <2>2. QED BY <1>1, <1>11, <2>1 DEF TypeOK, clockVars, logVars, ringVars, callVars, derefVars
<1>14. Contained'
  <2>2. QED BY <1>1, <1>11, <1>10 DEF Contained, EndsWell, logVars, TypeOK
<1>16. LocksAtHome'
  <2>1. SUFFICES ASSUME NEW y \in Node, p_obj_copy'[y] # NULL
                 PROVE  \E u \in Threads : \E e \in ws_wb_counter'[u] .. ws_tail_counter'[u] :
                          LockedBy(y, u, e)'
    BY DEF LocksAtHome
  <2>3. /\ run_counter[t] <= run_counter'[t] /\ run_counter'[t] \in Nat
        /\ is_write_detected' = is_write_detected /\ InSection(t)' = InSection(t) /\ pc' = pc
    BY <1>1, <1>11 DEF TypeOK, InSection, logVars
  <2>4. QED BY <1>1, <1>12, <1>11, <2>1, <2>3, LockKept DEF TypeOK, LogGrows, logVars, ringVars
<1>17. Unlocked(t)'
  <2>2. ASSUME NEW k \in 1 .. n + 1, NEW y \in Node PROVE p_obj_copy'[y] # D[k]
    <3>4. CASE k \in 1 .. n
      BY <1>1, <1>2, <1>3, <1>4, PointerAssumption, <1>11, <3>4 DEF Unlocked, TypeOK
    <3>5. CASE k = n + 1 BY <1>5, <3>5, <1>7, <1>11, <1>1, LockFacts, <1>8 DEF TypeOK
    <3>6. QED BY <3>4, <3>5
  <2>4. QED BY <1>1, <1>2, <1>11, <2>2, <1>4 DEF Unlocked, Deferred, logVars, ringVars, TypeOK
<1>19. Clocks(t)' /\ Returning(t)' /\ Ring(t)' /\ Made(t)'
  BY <1>1, <1>11 DEF Clocks, InSection, Returning, Ring, Made, clockVars, ringVars, logVars,
     callVars, SyncLabels, Labels
<1>20. Standing(t)'
  BY <1>11, <1>1, ForgotStanding DEF LogInv, Standing, derefVars, SyncLabels, InSection, Labels
<1>22. ASSUME NEW u \in Threads \ {t} PROVE LogKept(t, u) /\ OfferKept(t, u)
  BY <1>1, <1>11, <1>12, GrowingLogKept DEF WaitsFor, LogGrows, logVars, ringVars
<1>24. g_rlu_writer_version <= g_rlu_writer_version' BY <1>1, <1>11 DEF TypeOK, clockVars
<1>25. QED
  BY <1>12, <1>13, <1>14, <1>16, <1>17, <1>19, <1>20, <1>22, <1>1, <1>11, <1>24, Assembly
     DEF ThreadInv, TypeOK

\* WriteBackDone: nothing is locked any more, and nobody starts to steal the copies.
LEMMA WriteBackDoneStep ==
  ASSUME LogInv, ClockInRange, NEW t \in Threads, WriteBackDone(t), UNCHANGED <<callVars, derefVars>>
  PROVE  LogInv'
<1> USE DEF WriteBackDone, Goto
<1>1. /\ TypeOK /\ Contained /\ LocksAtHome /\ Clocks(t) /\ Returning(t) /\ Ring(t) /\ Made(t)
      /\ Unlocked(t) /\ Standing(t) /\ pc[t] = "writeback" /\ written[t] = Len(Deferred(t))
      /\ \A u \in Threads : Clocks(u)
  BY DEF LogInv
<1>2. PICK head \in Nat, wb \in Nat, tail \in Nat :
        head = ws_head_counter[t] /\ wb = ws_wb_counter[t] /\ tail = ws_tail_counter[t]
  BY <1>1 DEF TypeOK
<1>3. /\ UNCHANGED <<objVars, clockVars, run_counter, local_version, logVars, ws_head_counter, ret,
                     q_threads, callVars, derefVars>>
      /\ ws_wb_counter' = [ws_wb_counter EXCEPT ![t] = tail]
      /\ writer_version' = [writer_version EXCEPT ![t] = MAX_VERSION]
      /\ written' = [written EXCEPT ![t] = 0]
      /\ pc' = [pc EXCEPT ![t] = "commit_version"]
  BY <1>2 DEF sectionVars
<1> HIDE DEF WriteBackDone, Goto
<1>4. /\ pc'[t] = "commit_version" /\ ws_head_counter'[t] = head /\ ws_wb_counter'[t] = tail
      /\ ws_tail_counter'[t] = tail /\ writer_version'[t] = MAX_VERSION /\ written'[t] = 0
      /\ head = wb /\ wb <= tail /\ tail - wb <= max_write_sets
  BY <1>1, <1>2, <1>3 DEF TypeOK, Ring, logVars
<1>5. /\ "commit_version" \in AllLabels /\ "commit_version" \notin Labels
      /\ "commit_version" \in SyncLabels /\ ~InSection(t) /\ pc[t] # "unlock_objs"
      /\ pc[t] \in SyncLabels /\ pc[t] \notin Labels
  BY <1>1 DEF AllLabels, Labels, SyncLabels, InSection
<1>6. SameOthers(t) BY <1>1, <1>3 DEF TypeOK, SameOthers, SameThread, logVars, callVars, derefVars
<1>7. TypeOK'
  BY <1>1, <1>3, <1>5, ClockAssumption DEF TypeOK, objVars, clockVars, logVars, callVars, derefVars
<1>10. LocksAtHome'
  <2>1. SUFFICES ASSUME NEW x \in Node, p_obj_copy[x] # NULL
                 PROVE  \E u \in Threads : \E c \in ws_wb_counter'[u] .. ws_tail_counter'[u] :
                          LockedBy(x, u, c)'
    BY <1>3 DEF LocksAtHome, objVars
  <2>2. PICK p : p = p_obj_copy[x] OBVIOUS
  <2>3. PICK u \in Threads : \E c \in ws_wb_counter[u] .. ws_tail_counter[u] : LockedBy(x, u, c)
    BY <1>1, <2>1 DEF LocksAtHome
  <2>4. PICK c \in ws_wb_counter[u] .. ws_tail_counter[u] : LockedBy(x, u, c) BY <2>3
  <2>5. /\ p[1] = u /\ InSlot(p, c) /\ Copy(p).actual = x
        /\ \/ c < ws_tail_counter[u] /\ Copy(p).run_counter < run_counter[u]
           \/ /\ c = ws_tail_counter[u] /\ Copy(p).run_counter <= run_counter[u]
              /\ is_write_detected[u] /\ (InSection(u) \/ pc[u] = "unlock_objs")
    BY <2>2, <2>4 DEF LockedBy
  <2>6. u # t BY <1>2, <1>5, <2>4, <2>5, <1>1, DeferredFacts, <2>2 DEF Unlocked
  <2>8. p_obj_copy'[x] = p /\ InSlot(p, c)' /\ Copy(p)' = Copy(p)
    BY <1>3, <2>2, <2>5 DEF objVars, InSlot, Copy, logVars
  <2>10. QED BY <2>4, <2>5, <1>6, <2>6, <2>8 DEF SameThread, LockedBy, InSection, SameOthers
<1>13. Made(t)' BY <1>1, <1>2, <1>5, <1>3, <1>4 DEF Made, callVars
<1>14. Standing(t)' BY <1>1, <1>3, <1>5, <1>4, ForgotStanding DEF Standing, derefVars
<1>15. ThreadInv(t)'
  BY <1>1, <1>3, <1>4, <1>5, RluInitAssumption, <1>13, <1>14 DEF ThreadInv, Clocks, Returning,
     Unlocked, InSection, callVars, clockVars, Ring
<1>16. ASSUME NEW u \in Threads \ {t} PROVE LogKept(t, u) /\ OfferKept(t, u)
  <2>2. ~(writer_version'[t] <= local_version[u])
    <3>1. local_version[u] \in Nat /\ g_rlu_writer_version \in Nat
          /\ local_version[u] <= g_rlu_writer_version
      BY <1>1 DEF TypeOK, Clocks
    <3>2. QED BY <1>4, <3>1, ClockAssumption DEF ClockInRange
  <2>5. QED BY <1>2, <1>4, <1>3, <2>2 DEF OfferKept, LogKept, InSlot, Copy, logVars, WaitsFor
<1>18. g_rlu_writer_version <= g_rlu_writer_version' BY <1>1, <1>3 DEF TypeOK, clockVars
<1>19. QED
  BY <1>6, <1>7, <1>1, <1>3, <1>10, <1>15, <1>16, <1>18, Assembly DEF Contained, objVars, logVars

-----------------------------------------------------------------------------
(* The invariant *)

\* It holds when the table has been made.
LEMMA LogInvInit == Init => LogInv
<1>1. SUFFICES ASSUME Init PROVE LogInv OBVIOUS
<1> USE <1>1 DEF Init, RluInit
<1>3. "idle" \in AllLabels /\ "idle" \notin SyncLabels /\ "idle" \notin Labels
  BY DEF AllLabels, PauseLabels, SyncLabels, Labels
<1>4. ASSUME NEW x \in Node
      PROVE  data[x] \in NodeContents /\ EndsWell(x, data[x])
  <2>1. CASE x \in MinNodes
    <3>1. PICK b \in Buckets : MinNode[b] = x BY <2>1 DEF MinNodes
    <3>3. PICK y : y = MaxNode[CHOOSE e \in Buckets : MinNode[e] = x] OBVIOUS
    <3>4. y \in MaxNodes BY <3>1, <3>3 DEF MaxNodes
    <3>6. data[x] = [val |-> LIST_VAL_MIN, p_next |-> y] BY <2>1, <3>3
    <3> HIDE DEF Init, RluInit
    <3>7. QED BY <3>4, RluListAssumption, PointerAssumption, <3>6 DEF NodeContents, EndsWell
  <2>2. CASE x \notin MinNodes
    <3>1. data[x] = [val |-> LIST_VAL_MAX, p_next |-> NULL] BY <2>2
    <3> HIDE DEF Init, RluInit
    <3>2. QED BY <2>2, <3>1, RluListAssumption DEF NodeContents, EndsWell
  <2>3. QED BY <2>1, <2>2
<1>5. obj_write_set \in [Threads -> [Slots -> Seq(CopyRecord)]]
      /\ \A t \in Threads : \A s \in Slots : obj_write_set[t][s] = <<>> OBVIOUS
<1>6. TypeOK
  <2>3. /\ p_obj_copy \in [Node -> Copies \union {NULL}]
        /\ free_nodes \in [Threads -> SUBSET (Node \ MinNodes)]
        /\ g_rlu_writer_version \in Nat
        /\ run_counter \in [Threads -> Nat] /\ local_version \in [Threads -> Nat]
        /\ writer_version \in [Threads -> Nat] /\ q_threads \in [Threads -> [Threads -> Int]]
        /\ ws_head_counter \in [Threads -> Nat] /\ ws_wb_counter \in [Threads -> Nat]
        /\ ws_tail_counter \in [Threads -> Nat] /\ written \in [Threads -> Nat]
        /\ is_write_detected \in [Threads -> BOOLEAN]
    BY ClockAssumption
  <2>4. /\ pc \in [Threads -> AllLabels] /\ ret \in [Threads -> AllLabels]
        /\ op \in [Threads -> OpNames \union {"none"}]
        /\ key \in [Threads -> Keys \union {LIST_VAL_MIN}]
        /\ result \in [Threads -> Int]
        /\ ptr \in [Threads -> [p_prev : Pointers, p_next : Pointers, n : Pointers]]
        /\ into \in [Threads -> {"p_prev", "p_next", "n"}]
        /\ raw \in [Threads -> Node \union {NULL}] /\ copy \in [Threads -> Copies \union {NULL}]
    BY <1>3 DEF PENDING, NoPtr, Pointers
  <2>5. QED BY <1>5, <1>4, RluListAssumption, <2>3, <2>4 DEF TypeOK
<1>7. Contained
  <2>1. \A i : i \notin DOMAIN <<>> OBVIOUS
  <2>2. QED BY <1>4, <1>5, <2>1 DEF Contained
<1>9. ASSUME NEW t \in Threads
      PROVE  Clocks(t) /\ Returning(t) /\ Ring(t) /\ Made(t) /\ Unlocked(t) /\ Standing(t)
  <2>1. /\ pc[t] = "idle" /\ run_counter[t] = 0 /\ local_version[t] = 0 /\ g_rlu_writer_version = 0
        /\ writer_version[t] = MAX_VERSION /\ written[t] = 0 /\ ptr[t] = NoPtr /\ result[t] = -1
        /\ ws_head_counter[t] = 0 /\ ws_wb_counter[t] = 0 /\ ws_tail_counter[t] = 0
    BY DEF PENDING
  <2> HIDE <1>1 DEF Init, RluInit
  <2>5. QED
    BY <1>3, <2>1, RluInitAssumption DEF Clocks, Returning, InSection, Ring, Made, Unlocked, NoPtr,
       Standing
<1>10. QED BY <1>6, <1>7, <1>9 DEF LogInv, LocksAtHome

\* Every step preserves it.
LEMMA LogInvStep == LogInv /\ ClockInRange /\ [Next]_vars => LogInv'
<1>1. SUFFICES ASSUME LogInv, ClockInRange, [Next]_vars PROVE LogInv' OBVIOUS
<1>2. CASE UNCHANGED vars
  <2> USE <1>2 DEF vars, rluVars, callVars, derefVars, objVars, clockVars, sectionVars, logVars,
                   ringVars, syncVars
  <2>1. TypeOK' /\ Contained' /\ LocksAtHome'
    <3>1. TypeOK /\ Contained /\ LocksAtHome BY <1>1 DEF LogInv
    <3>2. \A x \in Node, t \in Threads : \A c : LockedBy(x, t, c)' <=> LockedBy(x, t, c)
      BY DEF LockedBy, InSlot, Copy, InSection
    <3>4. LocksAtHome' BY <3>1, <3>2 DEF LocksAtHome
    <3>5. QED BY <3>1, <3>4 DEF TypeOK, Contained
  <2>2. ASSUME NEW t \in Threads
        PROVE  Clocks(t)' /\ Returning(t)' /\ Ring(t)' /\ Made(t)' /\ Unlocked(t)' /\ Standing(t)'
    <3>1. Clocks(t) /\ Returning(t) /\ Ring(t) /\ Made(t) /\ Unlocked(t) /\ Standing(t)
      BY <1>1 DEF LogInv
    <3>4. Standing(t)'
      <4>1. ASSUME NEW p PROVE Safe(t, p)' <=> Safe(t, p) BY DEF WaitsFor, InSlot, Safe
      <4>2. ASSUME NEW p PROVE FORCE_ACTUAL(p)' = FORCE_ACTUAL(p) BY DEF FORCE_ACTUAL, Copy
      <4>3. ASSUME NEW p PROVE Behind(t, p)' <=> Behind(t, p) BY <4>1, <4>2 DEF Behind
      <4>5. PICK ps : ps = ptr[t] OBVIOUS
      <4>8. QED BY <3>1, <4>5, <4>1, <4>2, <4>3 DEF Standing, InSection, Candidate, InSlot, Copy
    <3>5. QED BY <3>1, <3>4 DEF Clocks, Returning, Ring, Made, InSection, Unlocked, Deferred
  <2>3. QED BY <2>1, <2>2 DEF LogInv
<1>3. CASE Next
  <2>1. PICK t \in Threads : Run(t) BY <1>3 DEF Next
  <2>2. CASE \E o \in OpNames, k \in Keys : Begin(t, o, k) BY <1>1, <2>2, BeginStep
  <2>3. CASE CheckpointStep(t) BY <1>1, <2>3, CheckpointStepStep
  <2>4. CASE Library(t)
    <3>1. CASE SyncStep(t) /\ UNCHANGED <<callVars, derefVars>>
      BY <1>1, <3>1, SyncNothingStep, SyncVersionStep, SyncReadCounterStep, SyncQuiescedStep,
         WriteBackStep, WriteBackDoneStep, SyncCommitStep, SyncEndStep DEF SyncStep
    <3>2. CASE Register(t) /\ UNCHANGED <<callVars, derefVars>> BY <1>1, <3>2, RegisterStep
    <3>3. QED BY <1>1, <2>4, <3>1, <3>2, PublishStep, TakeViewStep DEF Library
  <2>5. CASE Traverse(t)
    BY <1>1, <2>5, OpenSectionStep, DerefStep, StealStep, FirstNextStep, AdvanceStep DEF Traverse
  <2>6. CASE Decide(t)
    BY <1>1, <2>6, AnswerStep, RemoveHereStep, TryLockStep, CompareAndSwapStep, AddNodeStep,
       RemoveNodeStep DEF Decide
  <2>7. CASE Leave(t)
    BY <1>1, <2>7, UnlockStep, AbortStep, AbortUnlockStep, ReturnStep, FinishStep DEF Leave
  <2>8. QED BY <2>1, <2>2, <2>3, <2>4, <2>5, <2>6, <2>7 DEF Run
<1>4. QED BY <1>1, <1>2, <1>3

(***************************************************************************)
(* The write sets of rlu.c keep their order: until the clock reaches the   *)
(* value that means "not synchronizing", every lock points to a copy that  *)
(* is not written back, every pointer a section follows to a copy that     *)
(* will not be reset under it, and the slots in use are different.         *)
(***************************************************************************)
THEOREM LogInvariant == Spec /\ []ClockInRange => []LogInv
BY LogInvInit, LogInvStep, PTL DEF Spec

\* Every variable of the library and of the calls keeps its type.
THEOREM RluTypeCorrect == Spec /\ []ClockInRange => []TypeOK
<1>2. QED BY LogInvariant, PTL DEF LogInv

(***************************************************************************)
(* A header that is not NULL points to a copy of its own object, in a slot *)
(* that its thread has not written back: what RLU_DEREF() and              *)
(* rlu_try_lock() follow without a check.                                  *)
(***************************************************************************)
THEOREM LocksPointHome == Spec /\ []ClockInRange => []LocksAtHome
<1>2. QED BY LogInvariant, PTL DEF LogInv

\* What a section holds to copies is in a log, state by state.
LEMMA LogInvCopies == LogInv => CopiesInLog
<1>1. SUFFICES ASSUME LogInv, NEW t \in Threads, NEW p \in Held(t), p \notin Node
               PROVE  Valid(p)
  BY DEF CopiesInLog
<1>2. TypeOK /\ Standing(t) BY <1>1 DEF LogInv
<1>3. ASSUME Safe(t, p) PROVE Valid(p) BY <1>1, <1>3 DEF Safe, InSlot, Valid
<1>4. CASE p \in {ptr[t].p_prev, ptr[t].p_next, ptr[t].n}
  BY <1>2, <1>4, <1>1, <1>3 DEF Standing, Behind, Valid
<1>5. CASE p = raw[t] BY <1>1, <1>2, <1>5 DEF TypeOK, Valid
<1>6. CASE Stealing(t) /\ p = copy[t]
  BY <1>2, <1>6, <1>1 DEF Stealing, Standing, StealOrNot, ThreadOf, Candidate, InSlot, Valid
<1>7. QED BY <1>1, <1>4, <1>5, <1>6 DEF Held

(***************************************************************************)
(* No section holds a pointer into a slot that was reset: the owner of a   *)
(* log uses a slot again only after the sections that stole from it, two   *)
(* synchronizations later, whoever locks, aborts and synchronizes in       *)
(* between.  This is the part of NoStalePointer about copies, with or      *)
(* without the race at lines 563 and 564 of rlu.c.                         *)
(***************************************************************************)
THEOREM CopiesStayInLog == Spec /\ []ClockInRange => []CopiesInLog
BY LogInvariant, LogInvCopies, PTL

\* The ring has room, state by state.
LEMMA LogInvRoom == LogInv => RingHasRoom
<1>1. SUFFICES ASSUME LogInv, NEW t \in Threads, pc[t] = "unlocked", result[t] = 1,
                      op[t] # "contains"
               PROVE  /\ ws_tail_counter[t] > ws_head_counter[t]
                      /\ WS_INDEX(ws_tail_counter[t]) # WS_INDEX(ws_head_counter[t])
  BY DEF RingHasRoom, SlotIsFree
<1>2. TypeOK /\ Ring(t) /\ Made(t) BY <1>1 DEF LogInv
<1>5. /\ ws_head_counter[t] \in ws_head_counter[t] .. ws_tail_counter[t]
      /\ ws_tail_counter[t] \in ws_head_counter[t] .. ws_tail_counter[t]
      /\ ws_head_counter[t] # ws_tail_counter[t] BY <1>2, <1>1 DEF TypeOK, Made
<1>8. QED BY <1>2, <1>1, <1>5, RingFacts DEF TypeOK, Made, SyncLabels

(***************************************************************************)
(* The ring of write sets never overflows: after the section of an update  *)
(* its slot is counted and the next one is free, the two RLU_ASSERTs of    *)
(* rlu_commit_write_set(), for every max_write_sets that rlu_init()        *)
(* accepts.  This is a clause of AssertionsHold.                           *)
(***************************************************************************)
THEOREM RingNeverOverflows == Spec /\ []ClockInRange => []RingHasRoom
BY LogInvariant, LogInvRoom, PTL

-----------------------------------------------------------------------------
(* What the code is meant to do at lines 563 and 564 *)

\* Steps after which their thread is not between the two lines.
LEMMA OneAdvancesKept ==
  ASSUME OneAdvances, NEW t \in Threads, pc'[t] # "advance",
         g_rlu_writer_version' = g_rlu_writer_version,
         \A u \in Threads \ {t} : pc'[u] = pc[u] /\ writer_version'[u] = writer_version[u]
  PROVE  OneAdvances'
BY DEF OneAdvances

\* Every step keeps it that way unless the two lines race.
LEMMA OneAdvancesStep == ~ClockRace /\ LogInv /\ OneAdvances /\ [Next]_vars => OneAdvances'
<1>1. SUFFICES ASSUME ~ClockRace, LogInv, OneAdvances, [Next]_vars PROVE OneAdvances' OBVIOUS
<1>2. CASE UNCHANGED vars BY <1>1, <1>2 DEF OneAdvances, vars, rluVars, clockVars, syncVars
<1>3. CASE Next
  <2>1. PICK t \in Threads : Run(t) BY <1>3 DEF Next
  <2>2. /\ pc \in [Threads -> AllLabels] /\ writer_version \in [Threads -> Nat]
        /\ g_rlu_writer_version \in Nat /\ into[t] \in {"p_prev", "p_next", "n"} /\ Returning(t)
    BY <1>1 DEF LogInv, TypeOK
  <2> DEFINE Elsewhere(l) ==
        /\ pc' = [pc EXCEPT ![t] = l] /\ UNCHANGED g_rlu_writer_version
        /\ \A u \in Threads \ {t} : writer_version'[u] = writer_version[u]
  <2>3. ASSUME NEW l, l # "advance", Elsewhere(l) PROVE OneAdvances'
    BY <1>1, <2>2, <2>3, OneAdvancesKept
  <2>4. CASE \E o \in OpNames, k \in Keys : Begin(t, o, k)
    BY <2>4, <2>3 DEF Begin, Checkpoint, CallSync, Goto, clockVars, syncVars
  <2>5. CASE CheckpointStep(t)
    BY <2>5, <2>3 DEF CheckpointStep, Checkpoint, CallSync, Goto, clockVars, syncVars
  <2>6. CASE Library(t)
    <3>1. CASE Publish(t) BY <3>1, <1>1, <2>2 DEF Publish, SyncAdvance, Goto, OneAdvances
    <3>2. CASE TakeView(t) BY <3>2, <2>3 DEF TakeView, ReadVersion, Goto, clockVars, syncVars
    <3>3. CASE Register(t) BY <3>3, <2>3 DEF Register, Goto, clockVars, syncVars
    <3>4. CASE SyncVersion(t) BY <1>1, <3>4, <2>2 DEF SyncVersion, Goto, clockVars, OneAdvances
    <3>5. CASE SyncNothing(t) \/ SyncEnd(t)
      BY <2>2, <3>5, <2>3 DEF SyncNothing, SyncEnd, Returning, SyncLabels, Goto, clockVars, syncVars
    <3>6. CASE \E u \in Threads : SyncReadCounter(t, u)
      BY <1>1, <3>6 DEF SyncReadCounter, OneAdvances, clockVars
    <3>7. CASE WriteBack(t) BY <1>1, <3>7 DEF WriteBack, OneAdvances, clockVars
    <3>8. CASE SyncQuiesced(t) \/ WriteBackDone(t) \/ SyncCommit(t)
      BY <2>2, <3>8, <2>3 DEF SyncQuiesced, WriteBackDone, SyncCommit, Goto, clockVars, syncVars
    <3>9. QED BY <2>6, <3>1, <3>2, <3>3, <3>4, <3>5, <3>6, <3>7, <3>8 DEF Library, SyncStep
  <2>7. CASE Traverse(t)
    <3>3. QED
      BY <2>3, <2>2, <2>7 DEF Then, Traverse, OpenSection, ReadCommitVersion, StartDeref, Deref,
         Steal, EndDeref, FirstNext, Advance, Goto, clockVars, syncVars
  <2>8. CASE Decide(t)
    BY <2>3, <2>8 DEF Answer, RemoveHere, StartDeref, Goto, clockVars, syncVars, TryLock,
       CompareAndSwap, Locked, AddNode, RemoveNode, Decide
  <2>9. CASE Leave(t)
    <3>1. CASE Unlock(t)
      BY <3>1, <2>3 DEF Unlock, ReaderUnlock, CommitWriteSet, CallSync, Goto, clockVars, syncVars
    <3>2. CASE Abort(t) \/ AbortUnlock(t)
      BY <3>2, <2>3 DEF Abort, Unregister, AbortUnlock, UnlockObjs, Goto, clockVars, syncVars
    <3>3. CASE Return(t) \/ Finish(t)
      BY <3>3, <2>3 DEF Return, Finish, CallSync, Goto, clockVars, syncVars
    <3>4. QED BY <2>9, <3>1, <3>2, <3>3 DEF Leave
  <2>10. QED BY <2>1, <2>4, <2>5, <2>6, <2>7, <2>8, <2>9 DEF Run
<1>4. QED BY <1>1, <1>2, <1>3

\* Then whoever takes a copy began after its owner advanced the clock.
LEMMA StealsLate == LogInv /\ OneAdvances => StealsAfterUpdate
<1>1. SUFFICES ASSUME LogInv, OneAdvances, NEW t \in Threads, Stealing(t),
                      pc[ThreadOf(copy[t])] = "advance"
               PROVE  FALSE
  BY DEF StealsAfterUpdate
<1>5. writer_version[copy[t][1]] <= local_version[t]
  BY <1>1, PointerAssumption DEF Stealing, StealOrNot, ThreadOf, Copies, Standing, Candidate, LogInv
<1>6. writer_version[copy[t][1]] = g_rlu_writer_version + 1
  BY <1>1, PointerAssumption DEF OneAdvances, ThreadOf, Copies, Stealing, Standing, Candidate,
     LogInv
<1>8. QED BY <1>5, <1>6, <1>1 DEF Clocks, TypeOK, LogInv

(***************************************************************************)
(* If no two threads are between lines 563 and 564 of rlu.c at once, a     *)
(* section takes the copy of another thread only if it "started after the  *)
(* other thread updated g_writer_version", as the comment at line 837      *)
(* says.  The run rlu_clock shows that the code does not ensure the        *)
(* hypothesis.                                                             *)
(***************************************************************************)
THEOREM StealsWithoutRace == ASSUME ~ClockRace PROVE Spec /\ []ClockInRange => []StealsAfterUpdate
<1>1. Init => OneAdvances BY DEF Init, RluInit, OneAdvances
<1>4. QED BY <1>1, OneAdvancesStep, LogInvariant, StealsLate, PTL DEF Spec

-----------------------------------------------------------------------------
(* The heap.  B is the set of the nodes in the lists of the objects        *)
(* themselves, d their contents, k their locks, c the contents they will   *)
(* have when everything deferred is written back, a the objects in memory, *)
(* f what each thread will free.                                           *)

\* A node has one successor, and one predecessor.
LEMMA PredecessorUnique ==
  ASSUME NEW B \in SUBSET Node, NEW d \in [Node -> NodeContents], Linked(B, d),
         NEW x \in B \ MaxNodes, NEW y \in B \ MaxNodes, d[x].p_next = d[y].p_next
  PROVE  x = y
<1>0. PICK q : q = d[x].p_next OBVIOUS
<1>5. d[x].val = d[y].val BY <1>0 DEF NodeContents, Edge, Linked
<1>6. QED BY <1>0, <1>5 DEF Linked, Edge

\* What a node is, and the bucket it is in, depend on its value alone.
LEMMA HomeKept ==
  ASSUME NEW d, NEW e, NEW x, e[x].val = d[x].val
  PROVE  Home(e, x) = Home(d, x)
BY DEF Home

\* A new node is linked behind x.
LEMMA LinkInsert ==
  ASSUME NEW B \in SUBSET Node, NEW d \in [Node -> NodeContents], Linked(B, d),
         NEW x \in B \ MaxNodes, NEW y \in DataNodes \ B, NEW q, q = d[x].p_next,
         d[y].p_next = q, d[y].val \in Keys, Hash(d[y].val) = Home(d, x),
         d[x].val < d[y].val, d[y].val < d[q].val,
         NEW e \in [Node -> NodeContents], \A z \in Node \ {x} : e[z] = d[z],
         e[x].val = d[x].val, e[x].p_next = y
  PROVE  Linked(B \union {y}, e)
<1> DEFINE C == B \union {y}
<1>1. Edge(B, d, x, q) BY DEF Linked
<1>2. y \in Node /\ y # x /\ x \in Node /\ q \in B /\ q \in Node BY <1>1, RluListAssumption DEF Edge
<1>3. \A z \in Node : e[z].val = d[z].val /\ d[z].val \in Int BY <1>2 DEF NodeContents
<1>4. \A z \in Node : Home(e, z) = Home(d, z) BY <1>3, HomeKept
<1>5. Home(d, y) = Home(d, x) /\ Home(d, q) = Home(d, x) BY <1>1 DEF Home, Edge
<1>7. \A z \in B : Home(d, z) = Home(d, x) => d[z].val <= d[x].val \/ d[q].val <= d[z].val
  BY <1>1 DEF Edge
<1>8. ASSUME NEW z \in C \ MaxNodes PROVE Edge(C, e, z, e[z].p_next)
  <2>1. CASE z = x BY <1>2, <1>3, <1>7, <1>4, <1>5, <2>1 DEF Edge
  <2>2. CASE z = y BY <1>2, <1>3, <1>5, <1>7, <2>2, <1>4 DEF Edge
  <2>3. CASE z # x /\ z # y
    <3> DEFINE r == d[z].p_next
    <3>1. z \in B /\ Edge(B, d, z, r) /\ e[z].p_next = r BY <2>3 DEF Linked
    <3> HIDE DEF r
    <3>4. ASSUME Home(d, y) = Home(d, z) PROVE d[y].val <= d[z].val \/ d[r].val <= d[y].val
      <4>1. d[x].val <= d[z].val \/ d[r].val <= d[x].val BY <1>5, <3>1, <3>4 DEF Edge
      <4>3. d[z].val # d[x].val BY <1>5, <2>3, <3>1, <3>4 DEF Linked
      <4>5. QED BY <4>1, <1>5, <1>7, <3>1, <3>4, <4>3, <1>2, <1>3 DEF Edge
    <3>9. QED BY <3>1, <3>4, <1>3, <1>4, <1>2 DEF Edge
  <2>4. QED BY <2>1, <2>2, <2>3
<1>9. ASSUME NEW z \in B, Home(d, z) = Home(d, y), d[z].val = d[y].val PROVE FALSE
  BY <1>5, <1>7, <1>9, <1>2, <1>3
<1>10. \A z, w \in C : Home(e, z) = Home(e, w) /\ e[z].val = e[w].val => z = w
  BY <1>9, <1>2, <1>3, <1>4 DEF Linked
<1>11. QED BY RluListAssumption, <1>2, <1>3, <1>8, <1>10 DEF Linked

\* The node behind x is unlinked.
LEMMA LinkRemove ==
  ASSUME NEW B \in SUBSET Node, NEW d \in [Node -> NodeContents], Linked(B, d),
         NEW x \in B \ MaxNodes, NEW q \in DataNodes, q = d[x].p_next,
         NEW e \in [Node -> NodeContents], \A z \in Node \ {x} : e[z] = d[z],
         e[x].val = d[x].val, e[x].p_next = d[q].p_next
  PROVE  Linked(B \ {q}, e)
<1> DEFINE C == B \ {q}
<1> DEFINE r == d[q].p_next
<1>2. q \in B /\ q \notin Sentinels /\ q \in Node /\ Home(d, q) = Home(d, x) /\ d[x].val < d[q].val
  BY RluListAssumption DEF Edge, Sentinels, Linked
<1>4. \A z \in Node : e[z].val = d[z].val /\ d[z].val \in Int BY DEF NodeContents
<1>5. \A z \in Node : Home(e, z) = Home(d, z) BY <1>4, HomeKept
<1>8. ASSUME NEW z \in C \ MaxNodes PROVE Edge(C, e, z, e[z].p_next)
  <2>1. CASE z = x
    <3>1. \A w \in C : Home(d, w) = Home(d, x) => d[w].val <= d[x].val \/ d[r].val <= d[w].val
      <4>1. SUFFICES ASSUME NEW w \in C, Home(d, w) = Home(d, x)
                     PROVE  d[w].val <= d[x].val \/ d[r].val <= d[w].val
        OBVIOUS
      <4>3. d[w].val <= d[q].val \/ d[r].val <= d[w].val BY <1>2, <4>1 DEF Edge, Linked, Sentinels
      <4>5. QED BY <1>2, <1>4, <4>3, <4>1 DEF Linked, Edge, Sentinels
    <3>3. QED BY <1>2, <1>4, <1>5, <2>1, <3>1 DEF Edge, Linked, Sentinels
  <2>2. CASE z # x BY <2>2, PredecessorUnique, <1>4, <1>5 DEF Linked, Edge
  <2>3. QED BY <2>1, <2>2
<1>9. \A z, w \in C : Home(e, z) = Home(e, w) /\ e[z].val = e[w].val => z = w
  BY <1>4, <1>5 DEF Linked
<1>10. QED BY RluListAssumption, <1>2, <1>4, <1>8, <1>9 DEF Linked

-----------------------------------------------------------------------------
(* Deferred changes, and what a section sees of them *)

\* What the types say.
LEMMA HeapFacts ==
  ASSUME NEW B, NEW d, NEW k, NEW c, NEW a, NEW f, IsHeap(B, d, k, c, a, f)
  PROVE  /\ B \subseteq a /\ a \subseteq Node /\ B \subseteq Node
         /\ d \in [Node -> NodeContents] /\ c \in [Node -> NodeContents]
         /\ k \in [Node -> Copies \union {NULL}] /\ f \in [Threads -> SUBSET DataNodes]
         /\ Linked(B, d) /\ Locks(d, k, c, a) /\ Changes(B, d, k, c, a, f)
         /\ Frees(B, d, k, c, a, f)
         /\ \A x \in Node : k[x] # NULL => k[x] \in Copies /\ k[x][1] \in Threads
         /\ \A x \in Node : d[x].val \in Int /\ c[x].val \in Int
         /\ NULL \notin Node /\ DataNodes \subseteq Node /\ MinNodes \subseteq Node /\ MaxNodes \subseteq Node
BY RluListAssumption, PointerAssumption DEF IsHeap, HeapTypes, NodeContents, Copies

\* A changed node and its successor, which no one changes.
LEMMA ChangeFacts ==
  ASSUME NEW B, NEW d, NEW k, NEW c, NEW a, NEW f, IsHeap(B, d, k, c, a, f),
         NEW x \in Node, c[x] # d[x], NEW q, q = d[x].p_next
  PROVE  /\ x \in B \ MaxNodes /\ k[x] \in Copies /\ k[x][1] \in Threads /\ k[x][3] = 1
         /\ q \in B /\ k[q] = <<k[x][1], k[x][2], 2>> /\ c[q] = d[q] /\ q # x
         /\ c[x].val = d[x].val
         /\ Adds(B, d, c, a, x) \/ Removes(d, k, c, f, x)
         /\ Adds(B, d, c, a, x) => c[x].p_next \notin B
         /\ Removes(d, k, c, f, x) => c[x].p_next \in B /\ q \in DataNodes \ MaxNodes
<1>1. Change(B, d, k, c, a, f, x) /\ k[x] \in Copies /\ k[x][1] \in Threads
  BY HeapFacts DEF Changes, Change
<1>2. Edge(B, d, x, q) /\ q \in B /\ q \in Node BY <1>1, HeapFacts DEF Change, Linked, Edge
<1>5. c[q] = d[q] /\ q # x BY <1>2, <1>1, HeapFacts DEF Changes, Change
<1>7. ASSUME Removes(d, k, c, f, x) PROVE c[x].p_next \in B /\ q \in DataNodes \ MaxNodes
  BY <1>1, <1>7, HeapFacts, RluListAssumption, <1>2 DEF Removes, Linked, Edge
<1>8. QED BY <1>1, <1>2, <1>5, <1>7 DEF Change, Adds

\* A node outside of the lists that a change leads to is led to by one change.
LEMMA FreshFacts ==
  ASSUME NEW B, NEW d, NEW k, NEW c, NEW a, NEW f, IsHeap(B, d, k, c, a, f),
         NEW p \in B, NEW x \in Node \ B, c[p].p_next = x
  PROVE  /\ c[p] # d[p] /\ p \in B \ MaxNodes /\ Adds(B, d, c, a, p) /\ c[x] = d[x]
         /\ \A u \in Threads : x \notin f[u]
         /\ \A z \in B : c[z].p_next = x => z = p
<1>2. ASSUME NEW z \in B, c[z].p_next = x
      PROVE  c[z] # d[z] /\ z \in B \ MaxNodes /\ Adds(B, d, c, a, z)
  BY HeapFacts, <1>2, ChangeFacts DEF Linked, Edge
<1>4. ASSUME NEW u \in Threads, x \in f[u] PROVE FALSE BY <1>4, HeapFacts DEF Frees, Freeing
<1>5. ASSUME NEW z \in B, c[z].p_next = x PROVE z = p
  BY <1>2, <1>5, HeapFacts, PredecessorUnique DEF Adds
<1>6. QED BY HeapFacts, <1>2, ChangeFacts, <1>4, <1>5

\* The one change that unlinks a node.
LEMMA FreedFacts ==
  ASSUME NEW B, NEW d, NEW k, NEW c, NEW a, NEW f, IsHeap(B, d, k, c, a, f),
         NEW u \in Threads, NEW x \in f[u], x \in B, NEW p \in B \ MaxNodes, d[p].p_next = x
  PROVE  c[p] # d[p] /\ k[p] # NULL /\ k[p][1] = u /\ Removes(d, k, c, f, p)
<1>2. PICK z \in B : c[z] # d[z] /\ d[z].p_next = x /\ k[z][1] = u /\ Removes(d, k, c, f, z)
  BY HeapFacts DEF Freeing, Frees
<1>5. QED BY <1>2, HeapFacts, ChangeFacts, PredecessorUnique, PointerAssumption

\* In the list of a bucket every other node is before x or behind it.
LEMMA BeforeOrBehind ==
  ASSUME NEW B \in SUBSET Node, NEW d \in [Node -> NodeContents], Linked(B, d),
         NEW x \in B \ MaxNodes, NEW y, y = d[x].p_next, NEW z \in B, Home(d, z) = Home(d, x)
  PROVE  /\ y \in B /\ Home(d, y) = Home(d, x) /\ d[x].val < d[y].val
         /\ z = x \/ d[z].val < d[x].val \/ d[y].val <= d[z].val
<1>5. QED BY DEF Edge, Linked, NodeContents

\* What a node of the view is: one in the lists that is not skipped, or a new one.
LEMMA ViewFacts ==
  ASSUME NEW B, NEW d, NEW k, NEW c, NEW a, NEW f, IsHeap(B, d, k, c, a, f),
         NEW W \in SUBSET Threads, NEW x \in View(B, k, c, f, W)
  PROVE  /\ x \in a /\ x \in Node /\ \A u \in W : x \notin f[u]
         /\ Vis(d, k, c, W, x).val = d[x].val /\ Vis(d, k, c, W, x) \in NodeContents
         /\ x \in Sentinels => x \in B
         /\ x \notin B => /\ x \in DataNodes /\ d[x].val \in Keys /\ Vis(d, k, c, W, x) = d[x]
                          /\ \E p \in B \ MaxNodes : /\ c[p] # d[p] /\ k[p][1] \in W /\ c[p].p_next = x
                                                  /\ Adds(B, d, c, a, p) /\ d[x].p_next = d[p].p_next
                                                  /\ Home(d, x) = Home(d, p)
                                                  /\ d[p].val < d[x].val /\ d[x].val < d[d[p].p_next].val
<1>1. x \in Node BY HeapFacts DEF View
<1>3. CASE x \in B BY <1>1, ChangeFacts, <1>3, HeapFacts DEF View, Vis
<1>4. CASE x \notin B
  <2>1. PICK p \in B : k[p] # NULL /\ k[p][1] \in W /\ c[p].p_next = x BY <1>4 DEF View
  <2>2. /\ c[p] # d[p] /\ p \in B \ MaxNodes /\ Adds(B, d, c, a, p) /\ c[x] = d[x]
        /\ \A u \in Threads : x \notin f[u]
    BY <1>1, <1>4, <2>1, FreshFacts
  <2>3. /\ x \in a /\ x \in DataNodes /\ d[x].val \in Keys /\ d[x].p_next = d[p].p_next
        /\ Hash(d[x].val) = Home(d, p)
        /\ d[p].val < d[x].val /\ d[x].val < d[d[p].p_next].val
    BY <2>1, <2>2 DEF Adds
  <2>4. Home(d, x) = Home(d, p) /\ Vis(d, k, c, W, x) = d[x] BY <2>2, <2>3 DEF Home, Vis
  <2>7. \A u \in W : x \notin f[u] BY <2>2
  <2>8. QED
    BY <1>1, HeapFacts, ChangeFacts, <1>4, <2>3, <2>4, RluListAssumption, <2>1, <2>2, <2>7 DEF Vis,
       Sentinels
<1>5. QED BY <1>3, <1>4

\* Following p_next does not lead out of the view, and leads upwards, to the next
\* node that is there.
LEMMA ViewNext ==
  ASSUME NEW B, NEW d, NEW k, NEW c, NEW a, NEW f, IsHeap(B, d, k, c, a, f),
         NEW W \in SUBSET Threads, NEW x \in View(B, k, c, f, W) \ MaxNodes,
         NEW y, y = Vis(d, k, c, W, x).p_next
  PROVE  /\ y \in View(B, k, c, f, W) /\ Home(d, y) = Home(d, x) /\ d[x].val < d[y].val
         /\ \A z \in View(B, k, c, f, W) : Home(d, z) = Home(d, x) =>
              d[z].val <= d[x].val \/ d[y].val <= d[z].val
<1> DEFINE V == View(B, k, c, f, W)
<1>1. /\ B \in SUBSET Node /\ d \in [Node -> NodeContents] /\ Linked(B, d)
      /\ \A z \in Node : d[z].val \in Int
  BY HeapFacts
\* where any node of the view is relative to one of the lists
<1>2. ASSUME NEW p \in B \ MaxNodes, NEW q, q = d[p].p_next, NEW z \in V, Home(d, z) = Home(d, p)
      PROVE  \/ z = p \/ d[z].val < d[p].val \/ d[q].val <= d[z].val
             \/ z \notin B /\ c[p] # d[p] /\ k[p][1] \in W /\ k[p] # NULL /\ c[p].p_next = z
  <2>1. CASE z \in B BY <1>1, <1>2, <2>1, BeforeOrBehind
  <2>2. CASE z \notin B
    <3>1. PICK o \in B \ MaxNodes : /\ c[o] # d[o] /\ k[o][1] \in W /\ c[o].p_next = z
                                   /\ Home(d, z) = Home(d, o)
                                   /\ d[o].val < d[z].val /\ d[z].val < d[d[o].p_next].val
      BY <2>2, ViewFacts
    <3>3. CASE o = p BY <2>2, <3>1, HeapFacts, ChangeFacts, PointerAssumption, <3>3
    <3>4. CASE o # p
      <4>1. PICK r : r = d[o].p_next OBVIOUS
      <4>0. Home(d, o) = Home(d, p) BY <1>2, <3>1
      <4>3. r \in B /\ (d[p].val < d[o].val \/ d[r].val <= d[p].val)
        BY <1>1, <3>4, <4>0, <4>1, <1>2, BeforeOrBehind
      <4>7. PICK dz \in Int, do \in Int, dp \in Int, dr \in Int, dq \in Int :
              dz = d[z].val /\ do = d[o].val /\ dp = d[p].val /\ dr = d[r].val /\ dq = d[q].val
        BY <1>1, <4>3, <1>2, <3>1, BeforeOrBehind, ViewFacts
      <4>8. QED BY <3>1, <1>1, <3>4, <4>0, <1>2, BeforeOrBehind, <4>3, <4>1, <4>7
    <3>5. QED BY <3>3, <3>4
  <2>3. QED BY <2>1, <2>2
<1>3. CASE x \in B
  <2>1. x \in B \ MaxNodes /\ x \in Node /\ \A u \in W : x \notin f[u] BY <1>1, <1>3, ViewFacts
  <2>2. PICK q : q = d[x].p_next OBVIOUS
  <2>3. q \in B /\ Home(d, q) = Home(d, x) /\ d[x].val < d[q].val
    BY <1>1, <2>1, <2>2, BeforeOrBehind
  <2>4. CASE k[x] # NULL /\ k[x][1] \in W /\ c[x] # d[x]
    <3>1. y = c[x].p_next BY <2>4 DEF Vis
    <3>2. CASE Adds(B, d, c, a, x)
      <4>1. /\ y \in DataNodes \ B /\ Hash(d[y].val) = Home(d, x)
            /\ d[x].val < d[y].val /\ d[y].val < d[q].val
        BY <2>2, <3>1, <3>2 DEF Adds
      <4>5. ASSUME NEW z \in V, Home(d, z) = Home(d, x)
            PROVE  d[z].val <= d[x].val \/ d[y].val <= d[z].val
        BY ViewFacts, <1>2, <2>1, <2>2, <3>1, <4>5, <1>1, <2>3, HeapFacts, <4>1
      <4>6. QED BY <4>1, <2>1, <2>4, <3>1, HeapFacts, <4>5 DEF Home, View
    <3>3. CASE Removes(d, k, c, f, x)
      <4>1. q \in DataNodes \ MaxNodes /\ y = d[q].p_next /\ q \in f[k[x][1]] /\ c[q] = d[q]
            /\ k[q] = <<k[x][1], k[x][2], 2>>
        BY <2>1, <2>2, <2>4, <3>1, <3>3, ChangeFacts DEF Removes
      <4>2. y \in B /\ Home(d, y) = Home(d, q) /\ d[q].val < d[y].val
        BY <1>1, <2>3, <4>1, BeforeOrBehind
      <4>3. ASSUME NEW u \in W, y \in f[u] PROVE FALSE BY <2>3, <4>1, <4>2, <4>3, FreedFacts
      <4>6. ASSUME NEW z \in V, Home(d, z) = Home(d, x)
            PROVE  d[z].val <= d[x].val \/ d[y].val <= d[z].val
        <5>6. QED BY <2>3, <2>4, <4>1, <1>2, <2>1, <2>2, <3>1, <4>2, <4>6, <1>1, ViewFacts DEF View
      <4>8. QED BY <2>3, <4>2, <4>3, <4>6, <1>1, <2>1 DEF View
    <3>4. QED BY <2>1, <2>4, <3>2, <3>3, ChangeFacts
  <2>5. CASE ~(k[x] # NULL /\ k[x][1] \in W /\ c[x] # d[x])
    BY <2>2, <2>5, <2>1, <2>3, FreedFacts, ViewFacts, <1>2, <1>1 DEF Vis, View
  <2>6. QED BY <2>4, <2>5
<1>4. CASE x \notin B
  <2>1. PICK p \in B \ MaxNodes :
          /\ c[p] # d[p] /\ k[p][1] \in W /\ c[p].p_next = x
          /\ Adds(B, d, c, a, p) /\ d[x].p_next = d[p].p_next
          /\ Home(d, x) = Home(d, p)
          /\ d[p].val < d[x].val /\ d[x].val < d[d[p].p_next].val
    BY <1>4, ViewFacts
  <2>3. y = d[p].p_next /\ d[x].val < d[y].val /\ p \in Node BY <1>1, <2>1, <1>4, ViewFacts
  <2>4. y \in B /\ Home(d, y) = Home(d, p) BY <1>1, <2>1, <2>3, BeforeOrBehind
  <2>5. ASSUME NEW u \in W, y \in f[u] PROVE FALSE
    BY <2>1, <2>3, <2>4, <2>5, FreedFacts, ChangeFacts
  <2>7. ASSUME NEW z \in V, Home(d, z) = Home(d, x)
        PROVE  d[z].val <= d[x].val \/ d[y].val <= d[z].val
    BY ViewFacts, <1>2, <2>1, <2>3, <2>7, <1>1, <1>4, <2>4
  <2>8. QED BY <2>1, <2>3, <2>4, <2>5, <2>7 DEF View
<1>5. QED BY <1>3, <1>4

-----------------------------------------------------------------------------
(* What each step does to the heap *)

\* A node is locked.
LEMMA HeapLock ==
  ASSUME NEW B, NEW d, NEW k, NEW c, NEW a, NEW f, IsHeap(B, d, k, c, a, f),
         NEW x \in a, k[x] = NULL, x \in B \/ \A u \in Threads : x \notin f[u],
         NEW p \in Copies, \A y \in Node : k[y] # p,
         NEW l \in [Node -> Copies \union {NULL}], l[x] = p, \A y \in Node \ {x} : l[y] = k[y]
  PROVE  /\ IsHeap(B, d, l, c, a, f)
         /\ \A W \in SUBSET Threads : Kept(B, d, k, c, f, W, B, d, l, c, f, W)
<1>1. x \in Node /\ c[x] = d[x] /\ p # NULL BY HeapFacts, PointerAssumption DEF Locks
<1>2. ASSUME NEW y \in Node, c[y] # d[y] PROVE y # x /\ l[y] = k[y] /\ l[d[y].p_next] = k[d[y].p_next]
  <2>1. PICK q : q = d[y].p_next OBVIOUS
  <2>2. q \in B /\ k[q] \in Copies
    <3>1. q \in B /\ k[q] = <<k[y][1], k[y][2], 2>> /\ k[y] \in Copies BY <1>2, <2>1, ChangeFacts
    <3>2. QED BY <3>1 DEF Copies
  <2>5. QED BY <1>1, <1>2, <2>1, <2>2, PointerAssumption, HeapFacts
<1>3. Changes(B, d, l, c, a, f)
  <2>1. SUFFICES ASSUME NEW y \in Node, c[y] # d[y] PROVE Change(B, d, l, c, a, f, y) BY DEF Changes
  <2>3. l[y] = k[y] /\ l[d[y].p_next] = k[d[y].p_next] BY <1>2, <2>1
  <2>4. QED BY <2>1, HeapFacts, <2>3 DEF Change, Removes, Changes
<1>6. HeapTypes(B, d, l, c, a, f) BY DEF IsHeap, HeapTypes
<1>7. ASSUME NEW W \in SUBSET Threads PROVE Kept(B, d, k, c, f, W, B, d, l, c, f, W)
  BY <1>1, <1>2, FreshFacts, HeapFacts, ViewFacts DEF Vis, View, Kept
<1>8. QED BY <1>3, <1>1, <1>2, <1>6, <1>7, HeapFacts DEF IsHeap, Locks, Frees, Freeing, Removes

\* Locks of nodes that are not changed are given back.
LEMMA HeapUnlock ==
  ASSUME NEW B, NEW d, NEW k, NEW c, NEW a, NEW f, IsHeap(B, d, k, c, a, f),
         NEW X \in SUBSET Node, \A x \in X : c[x] = d[x],
         \A y \in Node : c[y] # d[y] => d[y].p_next \notin X,
         NEW l \in [Node -> Copies \union {NULL}], \A x \in X : l[x] = NULL,
         \A y \in Node \ X : l[y] = k[y]
  PROVE  /\ IsHeap(B, d, l, c, a, f)
         /\ \A W \in SUBSET Threads : Kept(B, d, k, c, f, W, B, d, l, c, f, W)
<1>2. ASSUME NEW y \in Node, c[y] # d[y] PROVE l[y] = k[y] /\ l[d[y].p_next] = k[d[y].p_next]
  BY <1>2, ChangeFacts, HeapFacts
<1>3. Changes(B, d, l, c, a, f)
  <2>1. SUFFICES ASSUME NEW y \in Node, c[y] # d[y] PROVE Change(B, d, l, c, a, f, y) BY DEF Changes
  <2>3. l[y] = k[y] /\ l[d[y].p_next] = k[d[y].p_next] BY <1>2, <2>1
  <2>4. QED BY <2>1, HeapFacts, <2>3 DEF Change, Removes, Changes
<1>6. HeapTypes(B, d, l, c, a, f) BY DEF IsHeap, HeapTypes
<1>7. ASSUME NEW W \in SUBSET Threads PROVE Kept(B, d, k, c, f, W, B, d, l, c, f, W)
  BY <1>2, FreshFacts, HeapFacts, ViewFacts DEF Vis, View, Kept
<1>8. QED BY <1>3, <1>2, <1>6, <1>7, HeapFacts DEF IsHeap, Locks, Frees, Freeing, Removes

\* A node y is allocated and, in the copy of its predecessor x, linked.
LEMMA HeapAdd ==
  ASSUME NEW B, NEW d, NEW k, NEW c, NEW a, NEW f, NEW t, NEW s, NEW x, NEW q,
         NEW y, NEW n, NEW e, NEW g, AddsNode(B, d, k, c, a, f, t, s, x, q, y, n, e, g)
  PROVE  /\ IsHeap(B, e, k, g, a \union {y}, f)
         /\ \A W \in SUBSET Threads : t \notin W => Kept(B, d, k, c, f, W, B, e, k, g, f, W)
<1> DEFINE b == a \union {y}
<1>0. /\ IsHeap(B, d, k, c, a, f) /\ t \in Threads /\ x \in B \ MaxNodes /\ q = d[x].p_next
      /\ k[x] \in Copies /\ k[x] = <<t, s, 1>> /\ k[q] = <<t, s, 2>> /\ c[x] = d[x]
      /\ y \in DataNodes \ a /\ n \in NodeContents /\ n.p_next = q /\ n.val \in Keys
      /\ Hash(n.val) = Home(d, x) /\ d[x].val < n.val /\ n.val < d[q].val
      /\ e \in [Node -> NodeContents] /\ e[y] = n /\ \A z \in Node \ {y} : e[z] = d[z]
      /\ g \in [Node -> NodeContents] /\ g[y] = n /\ \A z \in Node \ {x, y} : g[z] = c[z]
      /\ g[x].val = d[x].val /\ g[x].p_next = y
  BY DEF AddsNode
<1> USE <1>0
<1>1. /\ y \in Node /\ y \notin B /\ y # x /\ x \in Node /\ k[y] = NULL /\ c[y] = d[y]
      /\ q \in B /\ q \in Node /\ y # q /\ \A z \in B : e[z] = d[z] /\ z \in Node /\ z \in a
  BY HeapFacts DEF Linked, Locks, Edge
<1>2. \A z \in B : e[z].val = d[z].val /\ Home(e, z) = Home(d, z) /\ e[z].p_next = d[z].p_next
  BY <1>1, HomeKept
<1>3. Linked(B, e)
  <2>4. QED BY <1>2, HeapFacts DEF Linked, Sentinels, Edge
<1>5. ASSUME NEW z \in Node, g[z] # e[z], z # x
      PROVE  /\ c[z] # d[z] /\ g[z] = c[z] /\ z \in B /\ d[z].p_next \in B
             /\ Adds(B, d, c, a, z) => Adds(B, e, g, b, z)
             /\ Removes(d, k, c, f, z) => Removes(e, k, g, f, z)
  <2>1. z # y /\ c[z] # d[z] /\ g[z] = c[z] /\ e[z] = d[z] BY <1>1, <1>5
  <2>2. PICK r : r = d[z].p_next OBVIOUS
  <2>3. z \in B /\ r \in B BY <2>1, <2>2, ChangeFacts
  <2>4. ASSUME Adds(B, d, c, a, z) PROVE Adds(B, e, g, b, z)
    BY <2>2, <2>4, <1>1, <2>3, HeapFacts, <1>2, <2>1 DEF Adds
  <2>6. QED BY <2>1, <2>2, <2>3, <2>4, <1>1 DEF Removes
<1>6. Changes(B, e, k, g, b, f)
  <2>1. SUFFICES ASSUME NEW z \in Node, g[z] # e[z] PROVE Change(B, e, k, g, b, f, z) BY DEF Changes
  <2>2. CASE z = x BY <1>1, <1>2, PointerAssumption, <2>2 DEF Adds, Change
  <2>3. CASE z # x
    <3>2. Change(B, d, k, c, a, f, z) BY <1>1, <1>5, <2>1, <2>3, HeapFacts DEF Changes
    <3>3. QED BY <1>5, <2>1, <2>3, <1>1, <3>2 DEF Change
  <2>4. QED BY <2>2, <2>3
<1>7. Locks(e, k, g, b) BY HeapFacts, <1>1, PointerAssumption DEF Locks
<1>8. Frees(B, e, k, g, b, f)
  <2>1. SUFFICES ASSUME NEW u \in Threads, NEW z \in f[u] PROVE Freeing(B, e, k, g, b, f, u, z)
    BY DEF Frees
  <2>2. Freeing(B, d, k, c, a, f, u, z) /\ z \in Node BY HeapFacts DEF Frees
  <2>5. ASSUME z \notin B PROVE \A p \in B : g[p].p_next # z BY <2>2, <2>5, <1>1 DEF Freeing
  <2>6. QED BY <2>2, <1>1, <1>5, <2>5 DEF Freeing
<1>10. ASSUME NEW W \in SUBSET Threads, t \notin W PROVE Kept(B, d, k, c, f, W, B, e, k, g, f, W)
  <2>2. View(B, k, g, f, W) = View(B, k, c, f, W) BY <1>1, <1>10 DEF View
  <2>5. QED BY <2>2, ViewFacts, HeapFacts, <1>10 DEF Kept, Vis
<1>11. QED BY <1>3, <1>6, <1>7, <1>8, <1>1, <1>10 DEF IsHeap, HeapTypes

\* The successor q of x is skipped in the copy of x, and will be freed.
LEMMA HeapRemove ==
  ASSUME NEW B, NEW d, NEW k, NEW c, NEW a, NEW f, NEW t, NEW s, NEW x, NEW q,
         NEW g, NEW h, RemovesNode(B, d, k, c, a, f, t, s, x, q, g, h)
  PROVE  /\ IsHeap(B, d, k, g, a, h)
         /\ \A W \in SUBSET Threads : t \notin W => Kept(B, d, k, c, f, W, B, d, k, g, h, W)
<1> DEFINE r == d[q].p_next
<1>0. /\ IsHeap(B, d, k, c, a, f) /\ t \in Threads /\ x \in B \ MaxNodes
      /\ q \in DataNodes /\ q = d[x].p_next
      /\ k[x] \in Copies /\ k[x] = <<t, s, 1>> /\ k[q] = <<t, s, 2>> /\ c[x] = d[x]
      /\ g \in [Node -> NodeContents] /\ \A z \in Node \ {x} : g[z] = c[z]
      /\ g[x].val = d[x].val /\ g[x].p_next = d[q].p_next
      /\ h \in [Threads -> SUBSET DataNodes] /\ h[t] = f[t] \union {q}
      /\ \A u \in Threads \ {t} : h[u] = f[u]
  BY DEF RemovesNode
<1> USE <1>0
<1>1. x \in Node /\ q \in B /\ q \in Node /\ q \notin MaxNodes /\ r \in B /\ r \in Node
      /\ d[x].val < d[q].val /\ d[q].val < d[r].val BY HeapFacts, RluListAssumption DEF Linked, Edge
<1>3. g[x] # d[x] BY <1>1, HeapFacts
<1>5. ASSUME NEW z \in Node, g[z] # d[z], z # x
      PROVE  /\ c[z] # d[z] /\ g[z] = c[z] /\ z \in B
             /\ Removes(d, k, c, f, z) => Removes(d, k, g, h, z) BY <1>5, ChangeFacts DEF Removes
<1>6. Changes(B, d, k, g, a, h)
  <2>1. SUFFICES ASSUME NEW z \in Node, g[z] # d[z] PROVE Change(B, d, k, g, a, h, z) BY DEF Changes
  <2>2. CASE z = x BY <1>1, PointerAssumption, <2>2 DEF Change, Removes
  <2>3. CASE z # x BY <1>5, <2>1, <2>3, HeapFacts DEF Changes, Adds, Change
  <2>4. QED BY <2>2, <2>3
<1>8. Frees(B, d, k, g, a, h)
  <2>1. SUFFICES ASSUME NEW u \in Threads, NEW z \in h[u] PROVE Freeing(B, d, k, g, a, h, u, z)
    BY DEF Frees
  <2>2. CASE z = q
    <3>2. q \in a BY <1>1, HeapFacts
    <3>3. k[x][1] = t OBVIOUS
    <3>4. QED BY <1>1, <1>3, <2>2, <2>1, FreedFacts, <3>2, <3>3 DEF Freeing, Removes
  <2>3. CASE z # q
    <3>2. Freeing(B, d, k, c, a, f, u, z) /\ z \in Node BY <2>1, <2>3, HeapFacts DEF Frees
    <3>3. z \in B => \E p \in B : /\ g[p] # d[p] /\ d[p].p_next = z /\ k[p][1] = u
                                  /\ Removes(d, k, g, h, p) BY <3>2, HeapFacts, <1>5 DEF Freeing
    <3>4. ASSUME z \notin B PROVE /\ \A p \in B : g[p].p_next # z
                                  /\ \A v \in Threads \ {u} : z \notin h[v]
      <4>3. \A v \in Threads \ {u} : z \notin h[v] BY <2>3, <3>2, <3>4 DEF Freeing
      <4>4. QED BY <1>1, <3>4, <3>2, HeapFacts, <4>3 DEF Freeing
    <3>5. QED BY <3>2, <3>3, <3>4 DEF Freeing
  <2>4. QED BY <2>2, <2>3
<1>10. ASSUME NEW W \in SUBSET Threads, t \notin W PROVE Kept(B, d, k, c, f, W, B, d, k, g, h, W)
  <2>2. \A u \in W : h[u] = f[u] BY <1>10
  <2>4. \A z \in Node : Vis(d, k, g, W, z) = Vis(d, k, c, W, z) BY <1>1, <1>10 DEF Vis
  <2>5. QED BY <1>1, <1>10, <2>2, HeapFacts, <2>4, ViewFacts DEF Kept, View
<1>11. QED BY <1>6, <1>1, PointerAssumption, <1>8, <1>10, HeapFacts DEF IsHeap, Locks, HeapTypes

\* Two new nodes that lead to the same node were linked by the same change.
LEMMA AddsUnique ==
  ASSUME NEW B, NEW d, NEW k, NEW c, NEW a, NEW f, IsHeap(B, d, k, c, a, f),
         NEW x \in Node, NEW z \in Node, c[x] # d[x], c[z] # d[z],
         Adds(B, d, c, a, x), Adds(B, d, c, a, z), c[x].p_next = c[z].p_next
  PROVE  x = z
<1>2. d[x].p_next = d[z].p_next BY DEF Adds
<1>3. QED BY ChangeFacts, <1>2, HeapFacts, PredecessorUnique

\* A copy is written back: a change becomes part of the lists.
LEMMA HeapWriteBack ==
  ASSUME NEW B, NEW d, NEW k, NEW c, NEW a, NEW f, IsHeap(B, d, k, c, a, f),
         NEW t \in Threads, NEW x \in Node, k[x] # NULL, k[x][1] = t,
         \A p \in Node : c[p] # d[p] /\ p # x => d[p].p_next # x,
         NEW e \in [Node -> NodeContents], e[x] = c[x], \A z \in Node \ {x} : e[z] = d[z],
         NEW l \in [Node -> Copies \union {NULL}], l[x] = NULL, \A z \in Node \ {x} : l[z] = k[z]
  PROVE  \E C : /\ IsHeap(C, e, l, c, a, f)
                /\ \A W \in SUBSET Threads : t \in W => Kept(B, d, k, c, f, W, C, e, l, c, f, W)
<1>1. CASE c[x] = d[x]
  <2>3. \A y \in Node : c[y] # d[y] => d[y].p_next \notin {x} BY <1>1
  <2>4. /\ IsHeap(B, d, l, c, a, f)
        /\ \A W \in SUBSET Threads : Kept(B, d, k, c, f, W, B, d, l, c, f, W)
    BY <1>1, <2>3, HeapUnlock
  <2>5. QED BY <1>1, HeapFacts, <2>4
<1>2. CASE c[x] # d[x]
  <2>0. PICK q : q = d[x].p_next OBVIOUS
  <2>1. /\ x \in B \ MaxNodes /\ q \in B /\ k[q] = <<k[x][1], k[x][2], 2>> /\ q # x
        /\ k[x][3] = 1 /\ c[q] = d[q] /\ c[x].val = d[x].val
        /\ Adds(B, d, c, a, x) \/ Removes(d, k, c, f, x)
    BY <1>2, <2>0, ChangeFacts, HeapFacts DEF Changes, Change
  <2>2. /\ B \in SUBSET Node /\ d \in [Node -> NodeContents] /\ Linked(B, d) /\ x \in B /\ q \in Node
        /\ B \subseteq a /\ a \subseteq Node
    BY <2>1, HeapFacts
  <2>3. \A z \in Node : e[z].val = d[z].val /\ Home(e, z) = Home(d, z)
    BY <2>1, HomeKept \* the other changes
  <2>4. ASSUME NEW z \in Node, c[z] # e[z]
        PROVE  /\ c[z] # d[z] /\ z # x /\ z # q /\ e[z] = d[z] /\ l[z] = k[z] /\ d[z].p_next # x
               /\ d[z].p_next # q /\ d[z].p_next \in B /\ z \in B \ MaxNodes
               /\ l[d[z].p_next] = k[d[z].p_next] /\ e[d[z].p_next] = d[d[z].p_next]
    BY <2>1, <2>4, ChangeFacts, <2>0, <2>2, PredecessorUnique
  <2>7. CASE Adds(B, d, c, a, x)
    <3>1. PICK y : y = c[x].p_next OBVIOUS
    <3> DEFINE C == B \union {y}
    <3>2. /\ y \in a /\ y \in DataNodes /\ y \notin B /\ d[y].p_next = q /\ d[y].val \in Keys
          /\ Hash(d[y].val) = Home(d, x) /\ d[x].val < d[y].val /\ d[y].val < d[q].val
          /\ y \in Node /\ y # x
      BY <2>0, <2>2, <2>7, <3>1, HeapFacts DEF Adds
    <3>3. Linked(C, e) BY <2>0, <2>1, <2>2, <3>1, <3>2, LinkInsert
    <3>5. (\A u \in Threads : y \notin f[u]) /\ c[y] = d[y] /\ \A z \in B : c[z].p_next = y => z = x
      BY <2>2, <3>1, <3>2, FreshFacts
    <3>6. Changes(C, e, l, c, a, f)
      <4>1. SUFFICES ASSUME NEW z \in Node, c[z] # e[z] PROVE Change(C, e, l, c, a, f, z)
        BY DEF Changes
      <4>2. PICK r : r = d[z].p_next OBVIOUS
      <4>5. ASSUME Adds(B, d, c, a, z) PROVE Adds(C, e, c, a, z)
        <5>1. PICK w : w = c[z].p_next OBVIOUS
        <5>4. e[w] = d[w] BY <2>2, <4>2, <4>5, <5>1, HeapFacts DEF Adds
        <5>5. QED BY <2>3, <4>2, <2>4, <4>1, <5>1, <4>5, <3>5, <5>4 DEF Adds
      <4>8. QED BY <2>4, HeapFacts, <4>1, <4>5, <4>2 DEF Change, Changes, Removes
    <3>7. Frees(C, e, l, c, a, f)
      <4>1. SUFFICES ASSUME NEW u \in Threads, NEW z \in f[u] PROVE Freeing(C, e, l, c, a, f, u, z)
        BY DEF Frees
      <4>2. Freeing(B, d, k, c, a, f, u, z) /\ z \in Node /\ z # y
        BY <3>5, <4>1, HeapFacts DEF Frees
      <4>4. ASSUME z \notin C PROVE (l[z] # NULL => l[z][1] = u) /\ \A p \in C : c[p].p_next # z
        BY <4>2, <4>4, <2>1, <3>2, <3>5 DEF Freeing
      <4>5. z \notin C => \A v \in Threads \ {u} : z \notin f[v] BY <4>2 DEF Freeing
      <4>6. QED
        BY <4>2, <1>2, <2>0, ChangeFacts, <3>1, <3>2, <2>2, <2>4, <4>4, <4>5 DEF Freeing, Removes
    <3>8. ASSUME NEW W \in SUBSET Threads, t \in W PROVE Kept(B, d, k, c, f, W, C, e, l, c, f, W)
      BY <3>8, <2>1, <3>1, <3>2, <3>5, <2>2, ViewFacts, <2>3 DEF Vis, View, Kept
    <3>10. QED BY <3>8, HeapFacts, <3>3, <3>2, <3>6, <3>7 DEF IsHeap, Locks, HeapTypes
  <2>8. CASE Removes(d, k, c, f, x)
    <3> DEFINE C == B \ {q}
    <3>1. q \in DataNodes /\ q \notin MaxNodes /\ q \in f[t] /\ c[x].p_next = d[q].p_next
          /\ c[x].p_next \in B
      BY <1>2, <2>0, <2>8, ChangeFacts DEF Removes
    <3>2. Linked(C, e) BY <2>0, <2>1, <2>2, <3>1, LinkRemove
    <3>4. Changes(C, e, l, c, a, f)
      <4>1. SUFFICES ASSUME NEW z \in Node, c[z] # e[z] PROVE Change(C, e, l, c, a, f, z)
        BY DEF Changes
      <4>2. PICK r : r = d[z].p_next OBVIOUS
      <4>5. ASSUME Adds(B, d, c, a, z) PROVE Adds(C, e, c, a, z)
        <5>1. PICK w : w = c[z].p_next OBVIOUS
        <5>4. QED BY <2>3, <4>2, <2>4, <4>1, <5>1, <4>5, <2>2, HeapFacts DEF Adds
      <4>9. QED BY <2>4, HeapFacts, <4>1, <4>5, <4>2 DEF Change, Changes, Removes
    <3>5. \A p \in C : c[p].p_next # q
      BY <2>2, <2>1, <3>1, HeapFacts, <2>0, PredecessorUnique, ChangeFacts DEF Linked, Edge,
         Changes, Change, Removes
    <3>6. Frees(C, e, l, c, a, f)
      <4>1. SUFFICES ASSUME NEW u \in Threads, NEW z \in f[u] PROVE Freeing(C, e, l, c, a, f, u, z)
        BY DEF Frees
      <4>2. Freeing(B, d, k, c, a, f, u, z) /\ z \in Node BY <4>1, HeapFacts DEF Frees
      <4>3. CASE z = q BY <2>0, <2>1, FreedFacts, <4>1, <4>3, <2>2, <3>5 DEF Freeing
      <4>4. CASE z # q BY <4>2, <2>0, <2>1, <2>2, <4>4, <2>4 DEF Freeing, Removes
      <4>5. QED BY <4>3, <4>4
    <3>7. ASSUME NEW W \in SUBSET Threads, t \in W PROVE Kept(B, d, k, c, f, W, C, e, l, c, f, W)
      BY <3>7, <2>1, <3>1, <3>5, <2>2, ViewFacts, <2>3 DEF Vis, View, Kept
    <3>9. QED BY <3>7, HeapFacts, <3>2, <3>4, <3>6 DEF IsHeap, Locks, HeapTypes
  <2>9. QED BY <2>1, <2>7, <2>8
<1>3. QED BY <1>1, <1>2

\* The nodes that u freed are taken out of memory; it has no locks any more.
LEMMA HeapFree ==
  ASSUME NEW B, NEW d, NEW k, NEW c, NEW a, NEW f, IsHeap(B, d, k, c, a, f),
         NEW u \in Threads, \A x \in Node : k[x] # NULL => k[x][1] # u,
         NEW e \in [Node -> NodeContents], \A z \in Node \ f[u] : e[z] = d[z],
         NEW g \in [Node -> NodeContents], \A z \in f[u] : g[z] = e[z],
         \A z \in Node \ f[u] : g[z] = c[z],
         NEW h \in [Threads -> SUBSET DataNodes], h[u] = {}, \A v \in Threads \ {u} : h[v] = f[v]
  PROVE  /\ f[u] \intersect B = {} /\ \A x \in f[u] : x \in a /\ k[x] = NULL
         /\ IsHeap(B, e, k, g, a \ f[u], h)
         /\ \A W \in SUBSET Threads : Kept(B, d, k, c, f, W, B, e, k, g, h, W)
<1> DEFINE F == f[u]
<1> DEFINE b == a \ F
<1>2. F \intersect B = {} BY HeapFacts, ChangeFacts, PointerAssumption DEF Freeing, Frees
<1>3. \A x \in F : x \in a /\ k[x] = NULL /\ (\A p \in B : c[p].p_next # x)
                   /\ \A v \in Threads \ {u} : x \notin f[v] BY HeapFacts, <1>2 DEF Freeing, Frees
<1> HIDE DEF F
<1>0. /\ \A z \in Node \ F : e[z] = d[z] /\ g[z] = c[z]
      /\ \A z \in F : g[z] = e[z]
  BY DEF F
<1>4. B \subseteq b /\ \A z \in B : e[z] = d[z] /\ g[z] = c[z] BY <1>0, <1>2, HeapFacts
<1>7. ASSUME NEW z \in Node, g[z] # e[z]
      PROVE  /\ c[z] # d[z] /\ g[z] = c[z] /\ e[z] = d[z] /\ z \in B /\ d[z].p_next \in B
             /\ Adds(B, d, c, a, z) => Adds(B, e, g, b, z)
             /\ Removes(d, k, c, f, z) => Removes(e, k, g, h, z)
  BY <1>0, <1>7, ChangeFacts, <1>3, HeapFacts, <1>4, HomeKept, PointerAssumption DEF Adds, Removes
<1>8. Changes(B, e, k, g, b, h)
  <2>1. SUFFICES ASSUME NEW z \in Node, g[z] # e[z] PROVE Change(B, e, k, g, b, h, z) BY DEF Changes
  <2>3. Change(B, d, k, c, a, f, z) BY <1>7, <2>1, HeapFacts DEF Changes
  <2>4. QED BY <1>7, <2>1, <2>3 DEF Change
<1>10. Frees(B, e, k, g, b, h) BY <1>3, HeapFacts, <1>4, <1>7 DEF Frees, Freeing
<1>11. HeapTypes(B, e, k, g, b, h) BY <1>4 DEF IsHeap, HeapTypes
<1>12. ASSUME NEW W \in SUBSET Threads PROVE Kept(B, d, k, c, f, W, B, e, k, g, h, W)
  BY <1>2, <1>4, <1>3, ViewFacts, <1>0 DEF F, View, Vis, Kept
<1>13. QED
  BY <1>2, <1>3, <1>4, HomeKept, <1>8, HeapFacts, <1>0, <1>10, <1>11, <1>12 DEF IsHeap, F, Locks,
     Linked, Edge, Sentinels

\* It makes no difference whether one sees the changes of a thread without locks.
LEMMA HeapDone ==
  ASSUME NEW B, NEW d, NEW k, NEW c, NEW a, NEW f, IsHeap(B, d, k, c, a, f),
         NEW u \in Threads, \A x \in Node : k[x] # NULL => k[x][1] # u,
         NEW W \in SUBSET Threads, NEW V \in SUBSET Threads, V \subseteq W, W \subseteq V \union {u}
  PROVE  Kept(B, d, k, c, f, W, B, d, k, c, f, V)
<1>6. QED
  BY ChangeFacts, PointerAssumption, HeapFacts, ViewFacts DEF Kept, Vis, View, Frees, Freeing

-----------------------------------------------------------------------------
(* What a step of t leaves alone *)

\* A step of t changes what belongs to t, the objects and the clocks.
LEMMA RunApart ==
  ASSUME LogInv, ExtraTypes, NEW t \in Threads, Run(t)
  PROVE  Apart(t) /\ ExtraTypes'
<1>1. TypeOK /\ Returning(t) BY DEF LogInv
<1> USE DEF Apart, SameOthers, SameThread, SameRest, objVars, clockVars, sectionVars, logVars,
            ringVars, syncVars, callVars, derefVars, driverVars, historyVars, Goto, CallSync
<1>2. ASSUME \E o \in OpNames, k \in Keys : Begin(t, o, k) PROVE Apart(t) /\ ExtraTypes'
  <2>2. PICK o \in OpNames, k \in Keys : Begin(t, o, k) BY <1>2
  <2>3. CASE is_sync[t] BY <1>1, <1>2, <2>2, <2>3 DEF Begin, Checkpoint, TypeOK, ExtraTypes
  <2>4. CASE ~is_sync[t] BY <1>1, <1>2, <2>2, <2>4 DEF Begin, Checkpoint, TypeOK, ExtraTypes
  <2>5. QED BY <2>3, <2>4
<1>3. ASSUME CheckpointStep(t) PROVE Apart(t) /\ ExtraTypes'
  <2>2. QED BY <1>1, <1>3, ZenonT(60) DEF CheckpointStep, Checkpoint, TypeOK, ExtraTypes
<1>4. ASSUME Publish(t) PROVE Apart(t) /\ ExtraTypes'
  BY <1>4, <1>1 DEF Publish, SyncAdvance, ExtraTypes, Toggle, TypeOK
<1>5. ASSUME TakeView(t) PROVE Apart(t) /\ ExtraTypes'
  BY <1>5, <1>1 DEF TakeView, ReadVersion, ExtraTypes, Toggle, TypeOK
<1>6. ASSUME SyncStep(t) \/ Register(t), UNCHANGED <<callVars, derefVars, driverVars, historyVars>>
      PROVE  Apart(t) /\ ExtraTypes'
  <2>1. ExtraTypes'
    BY <1>6 DEF SyncStep, SyncNothing, SyncVersion, SyncReadCounter, SyncQuiesced, WriteBack,
                WriteBackDone, SyncCommit, SyncEnd, Register, ExtraTypes
  <2>2. CASE SyncNothing(t) BY <1>1, <1>6, <2>1, <2>2 DEF SyncNothing, TypeOK
  <2>3. CASE SyncVersion(t) BY <1>1, <1>6, <2>1, <2>3 DEF SyncVersion, TypeOK
  <2>4. CASE \E u \in Threads : SyncReadCounter(t, u)
    BY <1>1, <1>6, <2>1, <2>4 DEF SyncReadCounter, TypeOK
  <2>5. CASE SyncQuiesced(t) BY <1>1, <1>6, <2>1, <2>5 DEF SyncQuiesced, TypeOK
  <2>6. CASE WriteBack(t) BY <1>1, <1>6, <2>1, <2>6 DEF WriteBack, TypeOK
  <2>7. CASE WriteBackDone(t) BY <1>1, <1>6, <2>1, <2>7 DEF WriteBackDone, TypeOK
  <2>8. CASE SyncCommit(t) BY <1>1, <1>6, <2>1, <2>8 DEF SyncCommit, TypeOK
  <2>9. CASE SyncEnd(t) BY <1>1, <1>6, <2>1, <2>9 DEF SyncEnd, TypeOK
  <2>10. CASE Register(t) BY <1>1, <1>6, <2>1, <2>10 DEF Register, TypeOK, ExtraTypes
  <2>11. QED BY <1>6, <2>2, <2>3, <2>4, <2>5, <2>6, <2>7, <2>8, <2>9, <2>10 DEF SyncStep
<1>7. ASSUME Traverse(t) PROVE Apart(t) /\ ExtraTypes'
  <2>1. ExtraTypes'
    BY <1>7 DEF Traverse, OpenSection, ReadCommitVersion, StartDeref, Deref, Steal, EndDeref,
                FirstNext, Advance, ExtraTypes
  <2>2. CASE OpenSection(t)
    BY <1>1, <2>1, <2>2 DEF OpenSection, ReadCommitVersion, StartDeref, TypeOK, ExtraTypes
  <2>3. CASE Deref(t)
    <3>1. CASE MustSteal(t, raw[t]) BY <1>1, <2>1, <2>3, <3>1 DEF Deref, TypeOK
    <3>2. CASE ~MustSteal(t, raw[t]) BY <1>1, <2>1, <2>3, <3>2 DEF Deref, EndDeref, TypeOK
    <3>3. QED BY <3>1, <3>2
  <2>4. CASE Steal(t) BY <1>1, <2>1, <2>4 DEF Steal, EndDeref, TypeOK
  <2>5. CASE FirstNext(t) BY <1>1, <2>1, <2>5 DEF FirstNext, StartDeref, TypeOK
  <2>6. CASE Advance(t) BY <1>1, <2>1, <2>6 DEF Advance, StartDeref, TypeOK
  <2>7. QED BY <1>7, <2>2, <2>3, <2>4, <2>5, <2>6 DEF Traverse
<1>8. ASSUME Decide(t) PROVE Apart(t) /\ ExtraTypes'
  <2>1. Answer(t) => Apart(t) /\ ExtraTypes' BY <1>1 DEF Answer, ExtraTypes, TypeOK
  <2>2. RemoveHere(t) => Apart(t) /\ ExtraTypes'
    <3>1. SUFFICES ASSUME RemoveHere(t) PROVE Apart(t) /\ ExtraTypes' OBVIOUS
    <3>3. QED BY <1>1, <3>1 DEF RemoveHere, StartDeref, TypeOK, ExtraTypes
  <2>3. TryLock(t) => Apart(t) /\ ExtraTypes'
    <3>1. SUFFICES ASSUME TryLock(t) PROVE Apart(t) /\ ExtraTypes' OBVIOUS
    <3>2. ExtraTypes' BY <3>1 DEF TryLock, DetectWrite, Locked, ExtraTypes
    <3>3. QED
      <4>1. CASE LockedElsewhere(t, ToLock(t)) BY <1>1, <3>1, <3>2, <4>1 DEF TryLock, TypeOK
      <4>2. CASE ~LockedElsewhere(t, ToLock(t)) /\ p_obj_copy[ToLock(t)] = NULL
        BY <1>1, <3>1, <3>2, <4>2 DEF TryLock, DetectWrite, TypeOK, ExtraTypes
      <4>3. CASE ~LockedElsewhere(t, ToLock(t)) /\ p_obj_copy[ToLock(t)] # NULL
        BY <1>1, <3>1, <3>2, <4>3 DEF TryLock, Locked, TypeOK
      <4>4. QED BY <4>1, <4>2, <4>3
  <2>4. CompareAndSwap(t) => Apart(t) /\ ExtraTypes'
    <3>1. SUFFICES ASSUME CompareAndSwap(t) PROVE Apart(t) /\ ExtraTypes' OBVIOUS
    <3>3. QED BY <1>1, <3>1, ZenonT(90) DEF CompareAndSwap, LockObj, Locked, TypeOK, ExtraTypes
  <2>5. AddNode(t) \/ RemoveNode(t) => Apart(t) /\ ExtraTypes'
    <3>1. SUFFICES ASSUME AddNode(t) \/ RemoveNode(t) PROVE Apart(t) /\ ExtraTypes' OBVIOUS
    <3>4. ExtraTypes' BY <3>1, <1>1 DEF AddNode, RemoveNode, Changed, ExtraTypes, Returning, Labels
    <3>5. QED
      <4>1. ASSUME NEW u \in Threads \ {t}
            PROVE  /\ pc'[u] = pc[u] /\ result'[u] = result[u] /\ delta'[u] = delta[u] /\ view'[u] = view[u]
                   /\ obj_write_set'[u] = obj_write_set[u] /\ free_nodes'[u] = free_nodes[u]
        <5>1. CASE AddNode(t) BY <1>1, <5>1, ZenonT(40) DEF AddNode, Changed, AssignNext, TypeOK, ExtraTypes
        <5>2. CASE RemoveNode(t)
          BY <1>1, <5>2 DEF RemoveNode, Changed, AssignNext, rlu_free, TypeOK, ExtraTypes
        <5>3. QED BY <3>1, <5>1, <5>2
      <4>2. UNCHANGED <<clockVars, sectionVars, ringVars, syncVars, ret, op, key, derefVars,
                        is_write_detected, ws_tail_counter, driverVars>>
        BY <3>1 DEF AddNode, RemoveNode
      <4>3. QED BY <3>4, <4>1, <4>2
  <2>6. QED BY <1>8, <2>1, <2>2, <2>3, <2>4, <2>5 DEF Decide
<1>9. ASSUME Leave(t) PROVE Apart(t) /\ ExtraTypes'
  <2>1. ExtraTypes'
    BY <1>9 DEF Leave, Unlock, ReaderUnlock, ForgetFlags, Abort, Unregister, AbortUnlock, UnlockObjs,
                Return, Finish, ExtraTypes
  <2>2. CASE Unlock(t)
    <3>1. CASE is_write_detected[t]
      <4>1. PICK a, b : pc' = [pc EXCEPT ![t] = a] /\ ret' = [ret EXCEPT ![t] = b]
        <5>1. CASE UNCHANGED ret
          BY <1>1, <2>2, <3>1, <5>1 DEF Unlock, ReaderUnlock, CommitWriteSet, TypeOK
        <5>2. CASE ret' # ret BY <2>2, <3>1, <5>2 DEF Unlock, ReaderUnlock, CommitWriteSet
        <5>3. QED BY <5>1, <5>2
      <4>3. QED
        BY <1>1, <2>1, <2>2, <3>1, <4>1 DEF Unlock, ReaderUnlock, CommitWriteSet, ForgetFlags,
           Forget, TypeOK, ExtraTypes
    <3>2. CASE ~is_write_detected[t]
      BY <1>1, <2>1, <2>2, <3>2 DEF Unlock, ReaderUnlock, ForgetFlags, Forget, TypeOK, ExtraTypes
    <3>3. QED BY <3>1, <3>2
  <2>3. CASE Abort(t)
    BY <1>1, <2>1, <2>3 DEF Abort, Unregister, ForgetFlags, Forget, TypeOK, ExtraTypes
  <2>4. CASE AbortUnlock(t) BY <1>1, <2>1, <2>4 DEF AbortUnlock, UnlockObjs, TypeOK
  <2>5. CASE Return(t) BY <1>1, <2>1, <2>5 DEF Return, TypeOK
  <2>6. CASE Finish(t) BY <1>1, <2>1, <2>6, ZenonT(90) DEF Finish, TypeOK
  <2>7. QED BY <1>9, <2>2, <2>3, <2>4, <2>5, <2>6 DEF Leave
<1> HIDE DEF Apart, SameOthers, SameThread, SameRest, objVars, clockVars, sectionVars, logVars,
             ringVars, syncVars, callVars, derefVars, driverVars, historyVars, Goto, CallSync
<1>10. QED BY <1>2, <1>3, <1>4, <1>5, <1>6, <1>7, <1>8, <1>9 DEF Run, Library

-----------------------------------------------------------------------------
(* Who has been waited for, and which sections skip the locks *)

\* Steps that neither begin a section nor reach the waiting or the write-back.
LEMMA WaitKept ==
  ASSUME WaitInv, NEW t \in Threads, SameOthers(t),
         g_rlu_writer_version' = g_rlu_writer_version,
         pc'[t] \in {"quiesce", "writeback"} =>
           pc'[t] = pc[t] /\ writer_version'[t] = writer_version[t] /\ q_threads'[t] = q_threads[t],
         InSection(t)' => InSection(t) /\ run_counter'[t] = run_counter[t]
                          /\ local_version'[t] = local_version[t]
  PROVE  WaitInv'
<1>3. QED BY DEF WaitInv, SameOthers, SameThread, InSection

\* Publish: the version of t is that of the clock.
LEMMA WaitPublish ==
  ASSUME WaitInv, LogInv, OneAdvances, NEW t \in Threads, SameOthers(t), Publish(t)
  PROVE  WaitInv'
<1>1. TypeOK /\ pc[t] = "advance" /\ writer_version[t] = g_rlu_writer_version + 1
  BY DEF Publish, SyncAdvance, OneAdvances, LogInv
<1>2. /\ g_rlu_writer_version' = g_rlu_writer_version + 1 /\ g_rlu_writer_version \in Nat
      /\ pc'[t] = "quiesce" /\ writer_version' = writer_version
      /\ run_counter' = run_counter /\ local_version' = local_version
      /\ q_threads'[t] = [u \in Threads |-> IF u = t THEN 0 ELSE UNREAD]
  BY <1>1 DEF Publish, SyncAdvance, Goto, sectionVars, TypeOK
<1>4. \A u \in Threads : writer_version[u] \in Nat BY <1>1 DEF TypeOK
<1>6. ASSUME NEW u \in Threads PROVE pc'[u] \in {"quiesce", "writeback"} => writer_version[u] <= g_rlu_writer_version + 1
  BY <1>1, <1>2, <1>4 DEF WaitInv, SameOthers, SameThread
<1>7. ASSUME NEW u \in Threads, NEW v \in Threads, InSection(v)'
      PROVE  /\ pc'[u] = "quiesce" /\ q_threads'[u][v] \notin {UNREAD, run_counter[v]} =>
                  writer_version[u] <= local_version[v]
             /\ pc'[u] = "writeback" => writer_version[u] <= local_version[v]
  BY <1>2, <1>7 DEF WaitInv, InSection, Labels, SameOthers, SameThread
<1>8. QED BY <1>2, <1>6, <1>7 DEF WaitInv

\* TakeView: a new section has seen every version.
LEMMA WaitTakeView ==
  ASSUME WaitInv, LogInv, NEW t \in Threads, SameOthers(t), TakeView(t)
  PROVE  WaitInv'
<1>2. /\ g_rlu_writer_version' = g_rlu_writer_version
      /\ pc'[t] = "commit" /\ writer_version' = writer_version /\ q_threads' = q_threads
      /\ run_counter' = run_counter /\ local_version'[t] = g_rlu_writer_version
  BY DEF TakeView, ReadVersion, Goto, clockVars, syncVars, TypeOK, LogInv
<1>5. ASSUME NEW u \in Threads, NEW v \in Threads, InSection(v)'
      PROVE  /\ pc'[u] = "quiesce" /\ q_threads'[u][v] \notin {UNREAD, run_counter[v]} =>
                  writer_version[u] <= local_version'[v]
             /\ pc'[u] = "writeback" => writer_version[u] <= local_version'[v]
  BY <1>2, <1>5 DEF WaitInv, InSection, SameOthers, SameThread
<1>6. QED BY <1>2, <1>5 DEF WaitInv, SameOthers, SameThread

\* SyncReadCounter: who is in a section is waited for.
LEMMA WaitReadCounter ==
  ASSUME WaitInv, LogInv, NEW t \in Threads, NEW w \in Threads, SameOthers(t), SyncReadCounter(t, w)
  PROVE  WaitInv'
<1>1. TypeOK /\ pc[t] = "quiesce" /\ Clocks(w) BY DEF SyncReadCounter, LogInv
<1>6. ASSUME NEW u \in Threads, NEW v \in Threads, InSection(v)
      PROVE  /\ pc[u] = "quiesce" /\ q_threads'[u][v] \notin {UNREAD, run_counter[v]} =>
                  writer_version[u] <= local_version[v]
             /\ pc[u] = "writeback" => writer_version[u] <= local_version[v]
  BY <1>1, <1>6 DEF WaitInv, TypeOK, Clocks, SyncReadCounter, clockVars, sectionVars
<1>7. QED BY <1>6 DEF WaitInv, InSection, SyncReadCounter, clockVars, sectionVars

\* SyncQuiesced: all sections have been waited for.
LEMMA WaitQuiesced ==
  ASSUME WaitInv, LogInv, NEW t \in Threads, SameOthers(t), SyncQuiesced(t)
  PROVE  WaitInv'
<1>1. TypeOK /\ pc[t] = "quiesce" /\ (\A u \in Threads : NoNeedToWait(t, u) /\ Clocks(u))
  BY DEF SyncQuiesced, LogInv
<1>3. \A u \in Threads \ {t} : pc'[u] = pc[u] /\ q_threads'[u] = q_threads[u]
  BY DEF SameOthers, SameThread
<1>5. ASSUME NEW v \in Threads, InSection(v) PROVE writer_version[t] <= local_version[v]
  <2>2. writer_version[t] \in Nat /\ local_version[v] \in Nat BY <1>1 DEF TypeOK
  <2>3. QED BY <1>1, <1>5, NobodyToWaitFor, <2>2 DEF WaitsFor, WaitInv
<1>7. ASSUME NEW u \in Threads, NEW v \in Threads, InSection(v)'
      PROVE  /\ pc'[u] = "quiesce" /\ q_threads'[u][v] \notin {UNREAD, run_counter[v]} =>
                  writer_version[u] <= local_version[v]
             /\ pc'[u] = "writeback" => writer_version[u] <= local_version[v]
  BY <1>1, <1>3, <1>5, <1>7 DEF WaitInv, InSection, Labels, SyncQuiesced, Goto, clockVars,
     sectionVars, TypeOK
<1>8. QED BY <1>1, <1>3, <1>7 DEF WaitInv, SyncQuiesced, Goto, clockVars, sectionVars, TypeOK

\* Steps after which the same synchronizations are counted.
LEMMA CommitKept ==
  ASSUME CommitInv, LogInv, TypeOK', ClockInRange, NEW t \in Threads, Apart(t), UNCHANGED clockVars,
         pc'[t] \in PendingLabels <=> pc[t] \in PendingLabels,
         pc'[t] = "quiesce" <=> pc[t] = "quiesce",
         pc[t] = "quiesce" => writer_version'[t] = writer_version[t],
         writer_version'[t] = writer_version[t] \/ writer_version'[t] > g_rlu_writer_version,
         pc'[t] # "commit", is_write_detected'[t] => pc'[t] \in WriteLabels,
         InSection(t)' => Skips(t)'
  PROVE  CommitInv'
<1>1. \A u \in Threads \ {t} : SameThread(u) /\ SameRest(u) BY DEF Apart, SameOthers
<1>3. Pending' = Pending BY <1>1 DEF Pending, PendingLabels, SameThread
<1>4. ASSUME NEW u \in Threads, pc'[u] = "commit"
      PROVE  g_rlu_writer_version = local_version'[u] + Cardinality(Behindhand(u)')
  <2>2. Behindhand(u)' = Behindhand(u) BY <1>1, <1>4 DEF Behindhand, SameThread
  <2>3. QED BY <1>1, <1>4, <2>2 DEF CommitInv, SameThread
<1>5. ASSUME NEW u \in Threads, InSection(u)', pc'[u] # "commit" PROVE Skips(u)'
  <2>1. CASE u = t BY <1>5, <2>1
  <2>2. CASE u # t
    <3>3. local_version[u] \in Nat /\ g_rlu_writer_version \in Nat /\ local_version[u] <= g_rlu_writer_version
      BY <1>5, <1>1, <2>2 DEF TypeOK, Clocks, clockVars, LogInv, CommitInv, InSection, SameThread
    <3>6. writer_version[t] > local_version[u] => writer_version'[t] > local_version[u]
      <4>1. CASE writer_version'[t] = writer_version[t] BY <4>1
      <4>2. CASE writer_version'[t] > g_rlu_writer_version
        <5>1. PICK w \in Nat : w = writer_version'[t] BY DEF TypeOK
        <5>2. QED BY <3>3, <4>2, <5>1
      <4>3. QED BY <4>1, <4>2
    <3>7. QED
      BY <1>5, <2>2, <1>1, <3>6 DEF Skips, SameThread, CommitInv, LogInv, InSection, SameRest
  <2>3. QED BY <2>1, <2>2
<1>6. ASSUME NEW u \in Threads, is_write_detected'[u] PROVE pc'[u] \in WriteLabels
  BY <1>1, <1>6 DEF SameThread, CommitInv, WriteLabels
<1>7. QED BY <1>3, <1>4, <1>5, <1>6 DEF CommitInv, WriteLabels, clockVars, LogInv

\* Publish: one more of them.
LEMMA CommitPublish ==
  ASSUME CommitInv, LogInv, OneAdvances, NEW t \in Threads, Apart(t), Publish(t)
  PROVE  CommitInv'
<1>1. \A u \in Threads \ {t} : SameThread(u) /\ SameRest(u) BY DEF Apart, SameOthers
<1>2. TypeOK /\ pc[t] = "advance" /\ writer_version[t] = g_rlu_writer_version + 1
  BY DEF Publish, SyncAdvance, OneAdvances, LogInv
<1>3. /\ g_rlu_writer_version' = g_rlu_writer_version + 1 /\ g_rlu_writer_version \in Nat
      /\ g_rlu_commit_version' = g_rlu_commit_version /\ g_rlu_commit_version \in Nat
      /\ pc'[t] = "quiesce" /\ writer_version' = writer_version
      /\ is_steal' = is_steal /\ is_check_locks' = is_check_locks /\ local_version' = local_version
      /\ is_write_detected' = is_write_detected /\ ws_tail_counter' = ws_tail_counter
      /\ ws_wb_counter' = ws_wb_counter
  BY <1>2 DEF Publish, SyncAdvance, Goto, sectionVars, logVars, ringVars, TypeOK, CommitInv
<1>5. g_rlu_writer_version' = g_rlu_commit_version' + Cardinality(Pending')
  <2>1. Pending' = Pending \union {t} /\ t \notin Pending /\ Pending \in SUBSET Threads
    BY <1>1, <1>2, <1>3 DEF Pending, SameThread
  <2>3. Cardinality(Pending') = Cardinality(Pending) + 1 /\ Cardinality(Pending) \in Nat
    BY <2>1, FiniteAssumption, FS_Subset, FS_AddElement, FS_CardinalityType
  <2>4. QED BY <1>3, <2>3 DEF CommitInv
<1>6. ASSUME NEW u \in Threads, pc'[u] = "commit"
      PROVE  g_rlu_writer_version' = local_version'[u] + Cardinality(Behindhand(u)')
  <2>1. u # t /\ pc[u] = "commit" /\ local_version[u] \in Nat /\ local_version[u] <= g_rlu_writer_version
    BY <1>1, <1>2, <1>3, <1>6 DEF SameThread, LogInv, Clocks, TypeOK
  <2>2. Behindhand(u)' = Behindhand(u) \union {t} /\ t \notin Behindhand(u) /\ Behindhand(u) \in SUBSET Threads
    BY <1>2, <1>3, <2>1, <1>1 DEF Behindhand, SameThread
  <2>4. Cardinality(Behindhand(u)') = Cardinality(Behindhand(u)) + 1 /\ Cardinality(Behindhand(u)) \in Nat
    BY <2>2, FiniteAssumption, FS_Subset, FS_AddElement, FS_CardinalityType
  <2>6. QED BY <1>3, <2>1, <2>4 DEF CommitInv
<1>7. ASSUME NEW u \in Threads, InSection(u)', pc'[u] # "commit" PROVE Skips(u)'
  BY <1>1, <1>3, <1>7 DEF InSection, Labels, SameThread, CommitInv, Skips
<1>8. ASSUME NEW u \in Threads, is_write_detected'[u] PROVE pc'[u] \in WriteLabels
  BY <1>1, <1>2, <1>3, <1>8 DEF SameThread, CommitInv, WriteLabels
<1>9. QED BY <1>3, <1>5, <1>6, <1>7, <1>8 DEF CommitInv, WriteLabels

\* SyncQuiesced: no section is older than the version of t.
LEMMA CommitQuiesced ==
  ASSUME CommitInv, WaitInv', LogInv, NEW t \in Threads, Apart(t), SyncQuiesced(t)
  PROVE  CommitInv'
<1>1. \A u \in Threads \ {t} : SameThread(u) /\ SameRest(u) BY DEF Apart, SameOthers
<1>2. TypeOK /\ pc[t] = "quiesce" BY DEF SyncQuiesced, LogInv
<1>3. /\ g_rlu_writer_version' = g_rlu_writer_version
      /\ g_rlu_commit_version' = g_rlu_commit_version
      /\ pc'[t] = "writeback" /\ writer_version' = writer_version
      /\ is_steal' = is_steal /\ is_check_locks' = is_check_locks /\ local_version' = local_version
      /\ is_write_detected' = is_write_detected /\ ws_tail_counter' = ws_tail_counter
      /\ ws_wb_counter' = ws_wb_counter
  BY <1>2 DEF SyncQuiesced, Goto, sectionVars, clockVars, TypeOK
<1>4. Pending' = Pending BY <1>1, <1>2, <1>3 DEF Pending, SameThread
<1>5. ASSUME NEW u \in Threads, InSection(u)' PROVE u # t /\ pc'[u] = pc[u]
  BY <1>1, <1>3, <1>5 DEF InSection, Labels, SameThread
<1>6. ASSUME NEW u \in Threads, pc'[u] = "commit" PROVE Behindhand(u)' = Behindhand(u)
  <2>3. writer_version[t] \in Nat /\ local_version[u] \in Nat BY <1>2 DEF TypeOK
  <2>6. QED BY <1>1, <1>3, <1>6, <2>3 DEF Behindhand, SameThread, WaitInv, InSection, Labels
<1>7. ASSUME NEW u \in Threads, InSection(u)', pc'[u] # "commit" PROVE Skips(u)'
  BY <1>5, <1>7, <1>3 DEF CommitInv, InSection, Skips
<1>8. ASSUME NEW u \in Threads, is_write_detected'[u] PROVE pc'[u] \in WriteLabels
  BY <1>1, <1>2, <1>3, <1>8 DEF SameThread, CommitInv, WriteLabels
<1>9. ASSUME NEW u \in Threads, pc'[u] = "commit"
      PROVE  g_rlu_writer_version' = local_version'[u] + Cardinality(Behindhand(u)')
  BY <1>1, <1>3, <1>9, <1>6 DEF SameThread, CommitInv
<1>10. QED BY <1>3, <1>4, <1>7, <1>8, <1>9 DEF CommitInv, WriteLabels

\* SyncCommit: one less.
LEMMA CommitCommit ==
  ASSUME CommitInv, LogInv, NEW t \in Threads, Apart(t), SyncCommit(t)
  PROVE  CommitInv'
<1>1. \A u \in Threads \ {t} : SameThread(u) /\ SameRest(u) BY DEF Apart, SameOthers
<1>2. TypeOK /\ pc[t] = "commit_version" BY DEF SyncCommit, LogInv
<1>3. /\ g_rlu_writer_version' = g_rlu_writer_version
      /\ g_rlu_commit_version' = g_rlu_commit_version + 1 /\ g_rlu_commit_version \in Nat
      /\ pc'[t] = "sync_end" /\ writer_version' = writer_version
      /\ is_steal' = is_steal /\ is_check_locks' = is_check_locks /\ local_version' = local_version
      /\ is_write_detected' = is_write_detected /\ ws_tail_counter' = ws_tail_counter
      /\ ws_wb_counter' = ws_wb_counter
  BY <1>2 DEF SyncCommit, Goto, sectionVars, logVars, ringVars, syncVars, TypeOK, CommitInv
<1>4. Cardinality(Pending) = Cardinality(Pending') + 1 /\ Cardinality(Pending') \in Nat
  <2>1. Pending' = Pending \ {t} /\ t \in Pending /\ Pending \in SUBSET Threads
    BY <1>1, <1>2, <1>3 DEF Pending, SameThread
  <2>4. QED BY FiniteAssumption, <2>1, FS_Subset, FS_RemoveElement, FS_CardinalityType
<1>6. ASSUME NEW u \in Threads, InSection(u)' PROVE u # t /\ pc'[u] = pc[u]
  BY <1>1, <1>3, <1>6 DEF InSection, Labels, SameThread
<1>7. ASSUME NEW u \in Threads, pc'[u] = "commit"
      PROVE  g_rlu_writer_version' = local_version'[u] + Cardinality(Behindhand(u)')
  BY <1>1, <1>2, <1>3, <1>7 DEF SameThread, Behindhand, CommitInv
<1>8. ASSUME NEW u \in Threads, InSection(u)', pc'[u] # "commit" PROVE Skips(u)'
  BY <1>6, <1>8, <1>3 DEF CommitInv, InSection, Skips
<1>9. ASSUME NEW u \in Threads, is_write_detected'[u] PROVE pc'[u] \in WriteLabels
  BY <1>1, <1>2, <1>3, <1>9 DEF SameThread, CommitInv, WriteLabels
<1>10. QED BY <1>3, <1>4, <1>7, <1>8, <1>9 DEF CommitInv, WriteLabels

\* TakeView: nobody who waits has a version the section has not seen.
LEMMA CommitTakeView ==
  ASSUME CommitInv, WaitInv, LogInv, NEW t \in Threads, Apart(t), TakeView(t)
  PROVE  CommitInv'
<1>1. \A u \in Threads \ {t} : SameThread(u) /\ SameRest(u) BY DEF Apart, SameOthers
<1>2. TypeOK /\ pc[t] = "version" BY DEF TakeView, ReadVersion, LogInv
<1>3. /\ g_rlu_writer_version' = g_rlu_writer_version /\ g_rlu_writer_version \in Nat
      /\ g_rlu_commit_version' = g_rlu_commit_version
      /\ pc'[t] = "commit" /\ writer_version' = writer_version
      /\ is_steal' = is_steal /\ is_check_locks' = is_check_locks
      /\ local_version'[t] = g_rlu_writer_version
      /\ is_write_detected' = is_write_detected /\ ws_tail_counter' = ws_tail_counter
      /\ ws_wb_counter' = ws_wb_counter
  BY <1>2 DEF TakeView, ReadVersion, Goto, clockVars, logVars, ringVars, syncVars, TypeOK
<1>5. Behindhand(t)' = {}
  <2>1. ASSUME NEW u \in Threads, pc'[u] = "quiesce" PROVE ~(writer_version[u] > g_rlu_writer_version)
    <3>1. pc[u] = "quiesce" /\ writer_version[u] \in Nat
      BY <1>1, <1>2, <1>3, <2>1 DEF SameThread, TypeOK
    <3>3. QED BY <1>3, <3>1 DEF WaitInv
  <2>2. QED BY <1>3, <2>1 DEF Behindhand
<1>6. ASSUME NEW u \in Threads, pc'[u] = "commit"
      PROVE  g_rlu_writer_version' = local_version'[u] + Cardinality(Behindhand(u)')
  <2>1. CASE u = t BY <1>5, FS_EmptySet, <1>3, <2>1
  <2>2. CASE u # t BY <1>1, <1>6, <2>2, <1>2, <1>3 DEF SameThread, Behindhand, CommitInv
  <2>3. QED BY <2>1, <2>2
<1>7. ASSUME NEW u \in Threads, InSection(u)', pc'[u] # "commit" PROVE Skips(u)'
  BY <1>1, <1>3, <1>7 DEF SameThread, CommitInv, InSection, Skips
<1>8. ASSUME NEW u \in Threads, is_write_detected'[u] PROVE pc'[u] \in WriteLabels
  BY <1>1, <1>2, <1>3, <1>8 DEF SameThread, CommitInv, WriteLabels
<1>9. QED BY <1>3, <1>1, <1>2, <1>6, <1>7, <1>8 DEF CommitInv, WriteLabels, Pending, SameThread

\* OpenSection: the clocks agree only if the version of every thread that
\* synchronizes is new.
LEMMA CommitOpenSection ==
  ASSUME CommitInv, LogInv, ExtraTypes, ClockInRange, OneAdvances, NEW t \in Threads, Apart(t),
         OpenSection(t)
  PROVE  CommitInv'
<1>1. \A u \in Threads \ {t} : SameThread(u) /\ SameRest(u) BY DEF Apart, SameOthers
<1>2. TypeOK /\ pc[t] = "commit" /\ (\A u \in Threads : Clocks(u)) /\ ~is_write_detected[t]
  BY DEF OpenSection, ReadCommitVersion, LogInv, CommitInv
<1>3. /\ g_rlu_writer_version' = g_rlu_writer_version /\ g_rlu_writer_version \in Nat
      /\ g_rlu_commit_version' = g_rlu_commit_version /\ g_rlu_commit_version \in Nat
      /\ pc'[t] = "deref" /\ writer_version' = writer_version
      /\ is_steal' = [is_steal EXCEPT ![t] = ~(local_version[t] = g_rlu_commit_version)]
      /\ is_check_locks' = [is_check_locks EXCEPT ![t] =
           ~(local_version[t] = g_rlu_commit_version /\ ws_tail_counter[t] = ws_wb_counter[t])]
      /\ local_version' = local_version
      /\ is_write_detected' = is_write_detected /\ ws_tail_counter' = ws_tail_counter
      /\ ws_wb_counter' = ws_wb_counter
  BY <1>2 DEF OpenSection, ReadCommitVersion, StartDeref, Goto, clockVars, logVars, ringVars, syncVars,
              TypeOK, CommitInv
<1>5. ASSUME local_version[t] = g_rlu_commit_version, NEW u \in Threads
      PROVE  writer_version[u] > local_version[t]
  <2>2. IsFiniteSet(Pending) /\ IsFiniteSet(Behindhand(t))
    BY FiniteAssumption, FS_Subset DEF Behindhand, Pending
  <2>3. Cardinality(Pending) = Cardinality(Behindhand(t))
    BY <1>2, <2>2, FS_CardinalityType, <1>3, <1>5 DEF CommitInv
  <2>5. local_version[t] \in Nat /\ local_version[t] <= g_rlu_writer_version
        /\ writer_version[u] \in Nat /\ MAX_VERSION \in Nat /\ g_rlu_writer_version < MAX_VERSION
    BY <1>2, ClockAssumption DEF TypeOK, Clocks, ClockInRange
  <2>6. CASE pc[u] \in PendingLabels
    BY <2>2, <2>3, FS_Subset, <2>6 DEF Pending, PendingLabels, Behindhand
  <2>7. CASE pc[u] = "advance" BY <2>5, <2>7, <1>3 DEF OneAdvances
  <2>8. CASE pc[u] \notin PendingLabels \union {"advance"}
    BY <1>2, <2>8, <1>3, <2>5 DEF Clocks, PendingLabels
  <2>9. QED BY <2>6, <2>7, <2>8
<1>6. ASSUME NEW u \in Threads, pc'[u] = "commit"
      PROVE  g_rlu_writer_version' = local_version'[u] + Cardinality(Behindhand(u)')
  <2>1. pc[u] = "commit" /\ Behindhand(u)' = Behindhand(u)
    BY <1>1, <1>2, <1>3, <1>6 DEF SameThread, Behindhand
  <2>2. QED BY <1>3, <1>6, <2>1 DEF CommitInv
<1>7. ASSUME NEW u \in Threads, InSection(u)', pc'[u] # "commit" PROVE Skips(u)'
  <2>1. CASE u = t BY <1>3, <1>2, <1>5, <2>1 DEF ExtraTypes, Skips
  <2>2. CASE u # t BY <1>1, <2>2, <1>7, <1>3 DEF CommitInv, InSection, SameThread, Skips, SameRest
  <2>3. QED BY <2>1, <2>2
<1>8. ASSUME NEW u \in Threads, is_write_detected'[u] PROVE pc'[u] \in WriteLabels
  BY <1>1, <1>2, <1>3, <1>8 DEF SameThread, CommitInv, WriteLabels
<1>9. QED BY <1>3, <1>1, <1>2, <1>6, <1>7, <1>8 DEF CommitInv, WriteLabels, Pending, SameThread

\* A section whose flags stay, or that begins to look at locks, skips no more.
LEMMA SkipsKept ==
  ASSUME CommitInv, NEW t \in Threads, InSection(t), pc[t] # "commit",
         UNCHANGED <<local_version, writer_version, is_steal, ws_tail_counter, ws_wb_counter>>,
         ~is_check_locks'[t] => ~is_check_locks[t] /\ is_write_detected'[t] = is_write_detected[t]
  PROVE  Skips(t)'
<1>2. QED BY DEF Skips, CommitInv

\* Steps between sections that count nothing.
LEMMA WaitsPause ==
  ASSUME Waits, LogInv, TypeOK', ClockInRange, NEW t \in Threads, Apart(t), UNCHANGED clockVars,
         pc[t] \notin PendingLabels, pc'[t] \notin PendingLabels \union Labels,
         writer_version'[t] = writer_version[t] \/ writer_version'[t] > g_rlu_writer_version,
         is_write_detected'[t] => pc'[t] \in WriteLabels
  PROVE  Waits'
<1>4. QED BY WaitKept, CommitKept DEF Waits, clockVars, PendingLabels, InSection, Labels, Apart

\* Steps inside a section.
LEMMA WaitsSection ==
  ASSUME Waits, LogInv, TypeOK', ClockInRange, NEW t \in Threads, Apart(t), UNCHANGED clockVars,
         InSection(t), pc[t] # "commit", pc'[t] \in Labels \ {"commit"},
         UNCHANGED <<run_counter, local_version, writer_version, is_steal, ws_tail_counter, ws_wb_counter>>,
         ~is_check_locks'[t] => ~is_check_locks[t] /\ is_write_detected'[t] = is_write_detected[t],
         is_write_detected'[t] => pc'[t] \in WriteLabels
  PROVE  Waits'
<1>5. QED
  BY WaitKept, SkipsKept, CommitKept DEF Waits, clockVars, PendingLabels, InSection, Labels, Apart

\* Every step of a synchronization keeps the counts.
LEMMA WaitsSync ==
  ASSUME Waits, LogInv, TypeOK', ExtraTypes, ClockInRange, OneAdvances, NEW t \in Threads, Apart(t),
         SyncStep(t) \/ Publish(t)
  PROVE  Waits'
<1>1. TypeOK /\ SameOthers(t) /\ Clocks(t) /\ Returning(t) BY DEF LogInv, Apart
<1>2. CASE Publish(t) BY <1>1, <1>2, WaitPublish, CommitPublish DEF Waits
<1>3. CASE SyncNothing(t)
  BY <1>1, <1>3, WaitsPause DEF SyncNothing, Goto, syncVars, logVars, TypeOK, Returning, SyncLabels,
     PendingLabels, Labels, Waits, CommitInv
<1>4. CASE SyncVersion(t)
  <2>1. pc[t] = "sync" /\ pc'[t] = "advance" /\ UNCHANGED clockVars
        /\ writer_version'[t] = g_rlu_writer_version + 1 /\ g_rlu_writer_version \in Nat
        /\ is_write_detected' = is_write_detected
    BY <1>1, <1>4 DEF SyncVersion, Goto, logVars, TypeOK
  <2>5. QED BY <2>1, WaitsPause DEF PendingLabels, Labels, Waits, CommitInv
<1>5. ASSUME NEW u \in Threads, SyncReadCounter(t, u) PROVE Waits'
  BY <1>5, <1>1, WaitReadCounter, CommitKept DEF SyncReadCounter, logVars, Waits, CommitInv,
     InSection, Labels
<1>6. CASE SyncQuiesced(t) BY <1>1, <1>6, WaitQuiesced, CommitQuiesced DEF Waits
<1>7. CASE WriteBack(t)
  BY <1>7, <1>1, WaitKept, CommitKept DEF WriteBack, logVars, sectionVars, Waits, CommitInv,
     InSection, Labels, clockVars
<1>8. CASE WriteBackDone(t)
  <2>1. pc[t] = "writeback" /\ pc'[t] = "commit_version" /\ UNCHANGED clockVars
        /\ writer_version'[t] = MAX_VERSION /\ is_write_detected' = is_write_detected
    BY <1>1, <1>8 DEF WriteBackDone, Goto, logVars, TypeOK
  <2>6. CommitInv'
    BY <2>1, <1>1, ClockAssumption, CommitKept DEF Waits, CommitInv, InSection, Labels,
       ClockInRange, TypeOK, PendingLabels
  <2>7. QED BY <1>1, <2>1, WaitKept, <2>6 DEF Waits, clockVars, CommitInv, InSection, Labels
<1>9. CASE SyncCommit(t)
  BY <1>1, <1>9, WaitKept, CommitCommit DEF SyncCommit, Goto, TypeOK, InSection, Labels, Waits
<1>10. CASE SyncEnd(t)
  <2>1. pc[t] = "sync_end" /\ pc'[t] = ret[t] /\ UNCHANGED clockVars /\ writer_version' = writer_version
        /\ is_write_detected' = is_write_detected
    BY <1>1, <1>10 DEF SyncEnd, Goto, syncVars, TypeOK
  <2>5. QED
    BY <2>1, <1>1, WaitsPause DEF Returning, SyncLabels, PendingLabels, Labels, Waits, CommitInv
<1>11. QED BY <1>2, <1>3, <1>4, <1>5, <1>6, <1>7, <1>8, <1>9, <1>10 DEF SyncStep

\* Every step of a section keeps them.
LEMMA WaitsTraverse ==
  ASSUME Waits, LogInv, TypeOK', ExtraTypes, ClockInRange, OneAdvances, NEW t \in Threads, Apart(t),
         Traverse(t) \/ Decide(t)
  PROVE  Waits'
<1>1. TypeOK /\ SameOthers(t) /\ Standing(t) BY DEF LogInv, Apart
<1>2. CASE OpenSection(t)
  <2>4. QED
    BY <1>2, <1>1, WaitKept, CommitOpenSection, ZenonT(60) DEF Waits, OpenSection, ReadCommitVersion,
       StartDeref, Goto, clockVars, TypeOK, InSection, Labels
<1>3. ASSUME ~OpenSection(t)
      PROVE  /\ pc[t] \in {"deref", "steal", "next", "visit", "lock", "cas", "write"}
             /\ pc'[t] \in Labels \ {"commit"} /\ UNCHANGED clockVars
             /\ UNCHANGED <<run_counter, local_version, writer_version, is_steal, ws_tail_counter,
                            ws_wb_counter>>
             /\ ~is_check_locks'[t] => ~is_check_locks[t] /\ is_write_detected'[t] = is_write_detected[t]
             /\ is_write_detected'[t] => is_write_detected[t] \/ pc'[t] = "cas"
             /\ pc[t] \in {"lock", "cas", "write"} => pc'[t] \in WriteLabels
  <2> USE DEF Goto, clockVars, sectionVars, logVars, ringVars, syncVars, Labels, WriteLabels
  <2>2. CASE Deref(t) BY <1>1, <2>2 DEF Deref, EndDeref, TypeOK, Then
  <2>3. CASE Steal(t) BY <1>1, <2>3 DEF Steal, EndDeref, TypeOK, Then
  <2>4. CASE FirstNext(t) BY <1>1, <2>4 DEF FirstNext, StartDeref, TypeOK
  <2>5. CASE Advance(t) BY <1>1, <2>5 DEF Advance, StartDeref, TypeOK
  <2>6. CASE Answer(t) BY <1>1, <2>6 DEF Answer, TypeOK
  <2>7. CASE RemoveHere(t) BY <1>1, <2>7 DEF RemoveHere, StartDeref, TypeOK
  <2>8. CASE TryLock(t)
    BY <2>8, <1>1 DEF TryLock, ReadyToLock, TypeOK, DetectWrite, ExtraTypes, Locked
  <2>9. CASE CompareAndSwap(t) BY <1>1, <2>9, ZenonT(40) DEF CompareAndSwap, Locked, TypeOK
  <2>10. CASE AddNode(t) BY <1>1, <2>10 DEF AddNode, Changed, TypeOK
  <2>11. CASE RemoveNode(t) BY <1>1, <2>11 DEF RemoveNode, Changed, TypeOK
  <2>12. QED
    BY <1>3, <2>2, <2>3, <2>4, <2>5, <2>6, <2>7, <2>8, <2>9, <2>10, <2>11 DEF Traverse, Decide
<1>4. CASE ~OpenSection(t)
  BY <1>3, <1>4, WaitsSection DEF InSection, Labels, Waits, CommitInv, WriteLabels
<1>5. QED BY <1>2, <1>4

\* Every other step keeps them.
LEMMA WaitsOther ==
  ASSUME Waits, LogInv, TypeOK', ExtraTypes, ClockInRange, NEW t \in Threads, Apart(t),
         \/ \E o \in OpNames, k \in Keys : Begin(t, o, k)
         \/ CheckpointStep(t) \/ TakeView(t) \/ Register(t) \/ Leave(t)
  PROVE  Waits'
<1>1. TypeOK /\ SameOthers(t) BY DEF LogInv, Apart
<1>2. CASE TakeView(t) BY <1>1, <1>2, WaitTakeView, CommitTakeView DEF Waits
<1>3. ASSUME ~TakeView(t)
      PROVE  /\ pc[t] \notin PendingLabels /\ pc'[t] \notin PendingLabels \union Labels
             /\ UNCHANGED clockVars /\ writer_version' = writer_version
             /\ is_write_detected'[t] => is_write_detected[t] /\ pc'[t] = "unlock_objs"
  <2> USE DEF Goto, sectionVars, logVars, ringVars, syncVars, Labels, PendingLabels, CallSync
  <2>1. is_write_detected[t] => pc[t] \in WriteLabels BY DEF Waits, CommitInv, WriteLabels
  <2>2. CASE \E o \in OpNames, k \in Keys : Begin(t, o, k)
    BY <2>2, <1>1, <2>1 DEF Begin, Checkpoint, TypeOK, WriteLabels
  <2>3. CASE CheckpointStep(t)
    <3>1. /\ pc[t] \in {"reader_lock", "unlocked", "aborted"} /\ pc'[t] \in {"sync", "register", "ret", "reader_lock"}
          /\ UNCHANGED clockVars /\ writer_version' = writer_version /\ is_write_detected' = is_write_detected
      BY <1>1, <2>3, SMTT(40) DEF CheckpointStep, Checkpoint, TypeOK
    <3>2. QED BY <2>1, <3>1 DEF WriteLabels
  <2>4. CASE Register(t) BY <1>1, <2>4 DEF Register, TypeOK
  <2>5. CASE Leave(t)
    <3>1. CASE Unlock(t)
      <4>1. pc'[t] \in {"sync", "unlocked"}
        BY <1>1, <3>1 DEF Unlock, ReaderUnlock, CommitWriteSet, TypeOK
      <4>2. QED BY <1>1, <3>1, <4>1 DEF Unlock, ReaderUnlock, CommitWriteSet, TypeOK
    <3>2. CASE Abort(t) BY <1>1, <3>2 DEF Abort, Unregister, TypeOK
    <3>3. CASE AbortUnlock(t) BY <1>1, <3>3 DEF AbortUnlock, UnlockObjs, TypeOK
    <3>4. CASE Return(t) BY <1>1, <2>1, <3>4 DEF Return, TypeOK, WriteLabels
    <3>5. CASE Finish(t) BY <1>1, <2>1, <3>5 DEF Finish, TypeOK, WriteLabels
    <3>6. QED BY <2>5, <3>1, <3>2, <3>3, <3>4, <3>5 DEF Leave
  <2>6. QED BY <1>3, <2>2, <2>3, <2>4, <2>5
<1>4. CASE ~TakeView(t) BY <1>3, <1>4, WaitsPause DEF WriteLabels
<1>5. QED BY <1>2, <1>4

-----------------------------------------------------------------------------
(* What the state says *)

\* The contents to come of every node.
LEMMA PendFacts ==
  ASSUME TypeOK, LocksAtHome
  PROVE  /\ Pend \in [Node -> NodeContents] /\ p_obj_copy \in [Node -> Copies \union {NULL}]
         /\ data \in [Node -> NodeContents]
         /\ \A x \in Node : p_obj_copy[x] = NULL => Pend[x] = data[x]
         /\ \A x \in Node : p_obj_copy[x] # NULL => /\ Pend[x] = Copy(p_obj_copy[x]).data
                                                    /\ p_obj_copy[x] \in Copies
                                                    /\ p_obj_copy[x] \notin Node
                                                    /\ p_obj_copy[x][1] \in Threads
                                                    /\ Copy(p_obj_copy[x]).actual = x
<1>2. ASSUME NEW x \in Node, p_obj_copy[x] # NULL
      PROVE  Copy(p_obj_copy[x]).data \in NodeContents /\ p_obj_copy[x][1] \in Threads
  BY <1>2, CopyFacts DEF LocksAtHome, LockedBy, CopyRecord
<1>5. QED BY LockFacts, <1>2 DEF Pend, TypeOK

\* Who is seen publishes or writes back, and who writes back is seen.
LEMMA SeesFacts ==
  ASSUME LogInv, ClockInRange, OneAdvances, NEW t \in Threads
  PROVE  /\ t \in Sees(t) /\ Sees(t) \subseteq Threads /\ Sees(t) \in SUBSET Threads
         /\ \A u \in Sees(t) \ {t} : u \in Published
         /\ WaitInv /\ InSection(t) => Writing \subseteq Sees(t)
<1>1. \A u \in Threads : local_version[u] \in Nat /\ writer_version[u] \in Nat /\ g_rlu_writer_version \in Nat
                         /\ local_version[u] <= g_rlu_writer_version
  BY DEF LogInv, TypeOK, Clocks
<1>2. ASSUME NEW u \in Sees(t) \ {t} PROVE u \in Published
  BY Synchronizes, <1>1 DEF Sees, OneAdvances, Published
<1>3. ASSUME WaitInv, InSection(t) PROVE Writing \subseteq Sees(t)
  BY <1>3 DEF Writing, Sees, WaitInv
<1>4. QED BY <1>2, <1>3 DEF Sees

-----------------------------------------------------------------------------
(* What a step leaves of the sections of the others *)

\* What the definition says.
LEMMA SeesNextIs ==
  ASSUME NEW u \in Threads
  PROVE  Sees(u)' = SeesNext(u)
BY DEF Sees, SeesNext

\* A copy that another section may read stays.
LEMMA HeldKept ==
  ASSUME TypeOK, NEW t \in Threads, Apart(t), NEW u \in Threads, u # t, CopiesKept(t, u),
         NEW p, Safe(u, p)
  PROVE  /\ p \notin Node => Copy(p)' = Copy(p)
         /\ Act(p)' = Act(p)
<1>2. ASSUME p \notin Node PROVE Copy(p)' = Copy(p)
  BY <1>2 DEF Copy, InSlot, CopiesKept, Safe, Apart, SameOthers, SameThread
<1>3. QED BY <1>2 DEF Act, FORCE_ACTUAL

\* A good pointer stays good, and leads to the same contents.
LEMMA GoodKept ==
  ASSUME TypeOK, NEW t \in Threads, Apart(t), NEW u \in Threads, u # t, NEW B, NEW C,
         SightKept(t, u, B, C), NEW p, Safe(u, p), Good(B, u, p)
  PROVE  /\ Good(C, u, p)' /\ Act(p)' = Act(p) /\ SC(u, Act(p))' = SC(u, Act(p))
         /\ data'[Act(p)].val = data[Act(p)].val
         /\ Home(data, Act(p))' = Home(data, Act(p))
<1>2. PICK x : x = Act(p) OBVIOUS
<1>7. QED
  BY HeldKept, <1>2, SeesNextIs, HomeKept DEF Good, SightKept, KeptFor, Kept, SV, SC, Sight,
     Contents, Act, FORCE_ACTUAL

\* The pointers of a section are safe.
LEMMA PointersSafe ==
  ASSUME LogInv, NEW t \in Threads, NEW p \in PtrSet(t)
  PROVE  Safe(t, p)
<1>2. QED BY DEF Standing, Behind, PtrSet, LogInv

\* What the section of another thread holds stays as it is.
LEMMA OtherPtr ==
  ASSUME LogInv, ClockInRange, OneAdvances, NEW t \in Threads, Apart(t), NEW u \in Threads, u # t,
         NEW B, NEW C, InSection(u) => SightKept(t, u, B, C), PtrInv(B, u)
  PROVE  PtrInv(C, u)'
<1>1. SameThread(u) /\ SameRest(u) /\ TypeOK /\ Standing(u) BY DEF Apart, SameOthers, LogInv
<1>2. /\ pc'[u] = pc[u] /\ op'[u] = op[u] /\ key'[u] = key[u] /\ ptr'[u] = ptr[u] /\ into'[u] = into[u]
      /\ raw'[u] = raw[u] /\ copy'[u] = copy[u] /\ free_nodes'[u] = free_nodes[u]
      /\ local_version'[u] = local_version[u] /\ CurrentSet(u)' = CurrentSet(u)
      /\ CurrentSlot(u)' = CurrentSlot(u) /\ PtrSet(u)' = PtrSet(u) /\ (InSection(u)' <=> InSection(u))
  BY <1>1 DEF SameThread, SameRest, CurrentSet, CurrentSlot, PtrSet, InSection
<1>3. CASE ~InSection(u) BY <1>3, <1>2 DEF InSection, Labels, PtrInv
<1>4. CASE InSection(u)
  <2>1. SightKept(t, u, B, C) BY <1>4
  <2>2. PICK pp : pp = ptr[u].p_prev OBVIOUS
  <2>3. PICK pn : pn = ptr[u].p_next OBVIOUS
  <2>4. PICK n : n = ptr[u].n OBVIOUS
  <2>5. ASSUME NEW p \in PtrSet(u), pc[u] # "reader_unlock"
        PROVE  /\ Good(C, u, p)' /\ Act(p)' = Act(p) /\ SC(u, Act(p))' = SC(u, Act(p))
               /\ data'[Act(p)].val = data[Act(p)].val
               /\ Home(data, Act(p))' = Home(data, Act(p))
    BY PointersSafe, <1>4, <2>5, <1>1, <2>1, GoodKept DEF PtrInv
  <2>6. SV(C, u)' = SV(B, u) /\ \A x \in SV(B, u) : SC(u, x)' = SC(u, x) /\ data'[x].val = data[x].val
    BY SeesNextIs, <2>1 DEF SightKept, KeptFor, Kept, SV, SC, Sight
  <2>9. ASSUME NEW p \in PtrSet(u), pc[u] # "reader_unlock", NEW q PROVE Follows(u, p, q)' <=> Follows(u, p, q)
    BY <2>5, <2>9 DEF Follows
  <2>10. pc[u] = "steal" =>
       /\ p_obj_copy'[raw[u]] # NULL /\ p_obj_copy'[raw[u]][1] \in Sees(u)' => p_obj_copy'[raw[u]] = copy[u]
       /\ writer_version'[copy[u][1]] <= local_version[u] => Copy(copy[u])'.data = SC(u, raw[u])'
    <3>1. SUFFICES ASSUME pc[u] = "steal"
          PROVE /\ p_obj_copy'[raw[u]] # NULL /\ p_obj_copy'[raw[u]][1] \in Sees(u)' => p_obj_copy'[raw[u]] = copy[u]
                /\ writer_version'[copy[u][1]] <= local_version[u] => Copy(copy[u])'.data = SC(u, raw[u])'
      OBVIOUS
    <3>2. /\ p_obj_copy[raw[u]] # NULL /\ p_obj_copy[raw[u]][1] \in Sees(u) => p_obj_copy[raw[u]] = copy[u]
          /\ writer_version[copy[u][1]] <= local_version[u] => Copy(copy[u]).data = SC(u, raw[u])
          /\ raw[u] \in Node /\ raw[u] \in SV(B, u) /\ Candidate(u)
      BY <1>1, <3>1 DEF PtrInv, Standing
    <3>4. ASSUME writer_version'[copy[u][1]] <= local_version[u] PROVE Copy(copy[u])'.data = SC(u, raw[u])'
      <4>1. PICK v \in Threads : v = copy[u][1] BY <1>1, <3>2 DEF Candidate, Copies
      <4>5. PICK c \in ws_wb_counter[v] .. ws_tail_counter[v] - 1 : InSlot(copy[u], c)
        BY <3>2, <4>1, <1>2, <3>4, <2>1 DEF Candidate, Sees, SightKept, SeesNext
      <4> PICK q : q = copy[u] OBVIOUS
      <4>6. Copy(q)' = Copy(q)
        <5>1. CASE v = t
          <6>2. ws_head_counter[t] \in Nat /\ ws_wb_counter[t] \in Nat /\ ws_tail_counter[t] \in Nat
                /\ ws_head_counter[t] <= ws_wb_counter[t] BY <1>1 DEF TypeOK, Ring, LogInv
          <6>5. QED BY <2>1, <4>5, <5>1, <6>2, <3>2, <4>1 DEF SightKept, CopiesKept, Candidate
        <5>2. CASE v # t BY <5>2, <4>1 DEF Apart, SameOthers, SameThread, Copy
        <5>3. QED BY <5>1, <5>2
      <4>10. QED
        BY <4>6, <3>2, <4>1, <3>4, <2>1, <1>2, <2>6 DEF Sees, Candidate, SightKept, SeesNext
    <3>5. QED BY <2>1, <3>2, SeesNextIs, <3>4 DEF SightKept
  <2>11. /\ pc[u] \in {"deref", "steal", "visit", "lock", "cas", "write"} =>
              (into[u] # "p_prev" \/ pc[u] \notin {"deref", "steal"} => pp \in PtrSet(u))
         /\ pc[u] = "next" => pp \in PtrSet(u)
         /\ pc[u] \in {"visit", "lock", "cas", "write"} => pn \in PtrSet(u)
         /\ pc[u] \in {"deref", "steal"} /\ into[u] = "n" => pn \in PtrSet(u)
         /\ pc[u] \in {"lock", "cas", "write"} /\ op[u] = "remove" => n \in PtrSet(u)
    BY <1>1, PointerAssumption, CopyFacts, <2>2, <2>3, <2>4 DEF Safe, Standing, PtrSet
  <2>13. ptr'[u].p_prev = pp /\ ptr'[u].p_next = pn /\ ptr'[u].n = n BY <1>2, <2>2, <2>3, <2>4
  <2>14. pc[u] \in {"deref", "steal"} =>
       /\ raw[u] \in SV(C, u)'
       /\ into[u] = "p_prev" => raw[u] = MinNode[Hash(key[u])]
       /\ into[u] # "p_prev" => Before(u)'
       /\ into[u] = "p_next" => Follows(u, pp, raw[u])'
       /\ into[u] = "n" => /\ op[u] = "remove" /\ Follows(u, pp, Act(pn))' 
                           /\ data'[Act(pn)'].val = key[u]
                           /\ Follows(u, pn, raw[u])'
    BY <2>2, <2>3, <2>11, <1>2, <2>5, <2>6 DEF PtrInv, PtrSet, Follows, Before
  <2>15. pc[u] = "next" => Act(pp)' = MinNode[Hash(key[u])] BY <2>2, <2>5, <2>11 DEF PtrInv
  <2>16. pc[u] \in {"visit", "lock", "cas", "write"} => Before(u)' /\ Follows(u, pp, Act(pn))'
    BY <2>2, <2>3, <2>11, <2>5, <1>2 DEF Follows, PtrInv, PtrSet, Before
  <2>17. pc[u] \in {"lock", "cas", "write"} =>
       /\ op[u] \in {"add", "remove"}
       /\ op[u] = "add" => key[u] < data'[Act(pn)'].val
       /\ op[u] = "remove" => /\ key[u] = data'[Act(pn)'].val
                              /\ Follows(u, pn, Act(n))'
       /\ LogOf(u)' BY <2>3, <2>4, <2>11, <1>2, <2>5 DEF Follows, PtrInv, LogOf
  <2> HIDE DEF Follows
  <2>19. /\ pc[u] \notin {"deref", "steal"} => raw[u] = NULL
         /\ op[u] # "remove" => n = NULL
         /\ pc[u] = "abort" => op[u] \in {"add", "remove"}
    BY <1>4, <2>4 DEF PtrInv
  <2>20. QED
    BY <1>2, <1>1, <2>1, PointersSafe, HeldKept, <2>6, <2>10, <2>13, <2>14, <2>15, <2>16, <2>17,
       <2>5, <2>19 DEF PtrInv, SightKept
<1>5. QED BY <1>3, <1>4

\* What is kept has the values it had.
LEMMA KeptValues ==
  ASSUME NEW B, NEW d, NEW k, NEW c, NEW f, NEW W, NEW C, NEW e, NEW l, NEW g, NEW h, NEW V,
         Kept(B, d, k, c, f, W, C, e, l, g, h, V)
  PROVE  Values(C, e, l, g, h, V) = Values(B, d, k, c, f, W)
<1>3. QED BY DEF Values, Kept

\* The copies of others, and what they lock, stay in their logs.
LEMMA OtherSlot ==
  ASSUME LogInv, NEW t \in Threads, Apart(t), NEW u \in Threads, u # t, OwnedKept(u), SlotInv(u)
  PROVE  SlotInv(u)'
<1>1. SameThread(u) /\ TypeOK /\ Ring(u) BY DEF Apart, SameOthers, LogInv
<1>2. /\ obj_write_set'[u] = obj_write_set[u] /\ is_write_detected'[u] = is_write_detected[u] /\ pc'[u] = pc[u]
      /\ ws_head_counter'[u] = ws_head_counter[u] /\ ws_wb_counter'[u] = ws_wb_counter[u]
      /\ ws_tail_counter'[u] = ws_tail_counter[u] /\ written'[u] = written[u]
  BY <1>1 DEF SameThread
<1>3. /\ Deferred(u)' = Deferred(u) /\ CurrentSlot(u)' = CurrentSlot(u) /\ CurrentSet(u)' = CurrentSet(u)
      /\ \A s : InUse(u, s)' <=> InUse(u, s)
  BY <1>2 DEF Deferred, CurrentSlot, CurrentSet, InUse
<1>4. ASSUME NEW k \in written[u] + 1 .. Len(Deferred(u))
      PROVE  (p_obj_copy[Copy(Deferred(u)[k]).actual] = Deferred(u)[k])'
  <2>1. PICK p : p = Deferred(u)[k] OBVIOUS
  <2>2. k \in 1 .. Len(Deferred(u))
    <3>1. written[u] \in Nat /\ Len(Deferred(u)) \in Nat BY <1>1, DeferredFacts DEF TypeOK
    <3>2. QED BY <3>1
  <2>3. PICK c : InSlot(p, c) /\ p[1] = u BY <1>1, <2>1, <2>2, DeferredFacts
  <2>5. PICK x : x = Copy(p).actual OBVIOUS
  <2>7. p_obj_copy'[x] = p BY <2>3, <1>1, CopyFacts, <2>1, <2>5 DEF OwnedKept, CopyRecord, SlotInv
  <2>9. QED BY <1>3, <2>1, <2>5, <2>7, <1>2, <2>3 DEF Copy
<1>5. ASSUME is_write_detected[u], NEW i \in DOMAIN CurrentSet(u)
      PROVE  /\ (p_obj_copy[CurrentSet(u)[i].actual] = <<u, CurrentSlot(u), i>>)'
             /\ pc[u] # "reader_unlock" => (CurrentSet(u)[i].data = data[CurrentSet(u)[i].actual])'
  <2>1. PICK x : x = CurrentSet(u)[i].actual OBVIOUS
  <2>2. p_obj_copy[x] = <<u, CurrentSlot(u), i>> /\ (pc[u] # "reader_unlock" => CurrentSet(u)[i].data = data[x])
    BY <1>5, <2>1 DEF SlotInv
  <2>3. CurrentSlot(u) \in Slots /\ CurrentSet(u) \in Seq(CopyRecord)
    <3>1. CurrentSlot(u) \in Slots BY <1>1, RingFacts
    <3>2. QED BY <1>1, <3>1 DEF TypeOK, CurrentSet
  <2>4. i \in Nat /\ CurrentSet(u)[i] \in CopyRecord BY <1>5, <2>3
  <2>5. x \in Node /\ <<u, CurrentSlot(u), i>> # NULL
    BY <2>1, <2>3, <2>4, PointerAssumption DEF CopyRecord, Copies
  <2>6. p_obj_copy'[x] = p_obj_copy[x] /\ data'[x] = data[x]
    <3>1. PICK p : p = p_obj_copy[x] OBVIOUS
    <3>3. QED BY <2>5, <3>1, <2>2 DEF OwnedKept
  <2>7. QED BY <1>3, <2>1, <2>2, <2>6
<1>6. QED BY <1>2, <1>3, <1>4, <1>5 DEF SlotInv

\* What is left to prove of a step.
LEMMA ObjectAssembly ==
  ASSUME LogInv, ClockInRange, OneAdvances, NEW t \in Threads, Apart(t), NEW B, NEW C, ObjectInv(B),
         Heap(C)', SetInv(C)', PtrInv(C, t)', SlotInv(t)',
         \A u \in Threads \ {t} : (InSection(u) => SightKept(t, u, B, C)) /\ OwnedKept(u)
  PROVE  ObjectInv(C)'
<1>1. ASSUME NEW u \in Threads \ {t} PROVE PtrInv(C, u)' /\ SlotInv(u)'
  BY OtherPtr, OtherSlot DEF ObjectInv
<1>2. QED BY <1>1 DEF ObjectInv

\* The history variables are right after a step that publishes nothing.
LEMMA SetKept ==
  ASSUME NEW t \in Threads, Apart(t), NEW B, NEW C, SetInv(B), UNCHANGED <<set, delta>>,
         Published' = Published, Writing \subseteq Writing',
         \A W \in SUBSET Threads : Writing' \subseteq W => KeptFor(B, C, W, W),
         \A u \in Threads \ {t} : InSection(u) => KeptFor(B, C, Sees(u), SeesNext(u)),
         view'[t] # NULL <=> (InSection(t) /\ pc[t] # "reader_unlock")',
         view'[t] # NULL => view'[t] = Vals(C, Sees(t))'
  PROVE  SetInv(C)'
<1>2. ASSUME NEW W \in SUBSET Threads, Writing' \subseteq W PROVE Vals(C, W)' = Vals(B, W)
  BY <1>2, KeptValues DEF KeptFor, Vals
<1>4. ASSUME NEW u \in Threads
      PROVE  IF u \in Published' THEN delta'[u] = {} ELSE Differs(C, u)' BY <1>2 DEF SetInv, Differs
<1>5. ASSUME NEW u \in Threads
      PROVE  /\ view'[u] # NULL <=> (InSection(u) /\ pc[u] # "reader_unlock")'
             /\ view'[u] # NULL => view'[u] = Vals(C, Sees(u))'
  BY SeesNextIs, KeptValues DEF SetInv, KeptFor, Vals, Apart, SameOthers, SameThread, SameRest,
     InSection
<1>6. QED BY <1>2, <1>4, <1>5 DEF SetInv, Writing, Published, Vals

-----------------------------------------------------------------------------
(* Steps that leave the objects and the copies alone *)

\* What nobody touches is kept.
LEMMA KeptReflexive ==
  ASSUME NEW B, NEW d, NEW k, NEW c, NEW f, NEW W
  PROVE  Kept(B, d, k, c, f, W, B, d, k, c, f, W)
BY DEF Kept

\* The heap and what everybody else sees stay the same.
LEMMA UntouchedFacts ==
  ASSUME NEW t \in Threads, Apart(t), NEW B, HeapUntouched
  PROVE  /\ Pend' = Pend /\ (Heap(B) => Heap(B)')
         /\ \A W : KeptFor(B, B, W, W) /\ Vals(B, W)' = Vals(B, W) /\ Sight(B, W)' = Sight(B, W)
         /\ \A p : Copy(p)' = Copy(p) /\ Act(p)' = Act(p) /\ Contents(p)' = Contents(p)
         /\ \A u \in Threads : OwnedKept(u) /\ CopiesKept(t, u)
<1> USE DEF HeapUntouched
<1>2. Pend' = Pend BY DEF Pend, Copy
<1>3. ASSUME NEW W PROVE KeptFor(B, B, W, W) BY <1>2, KeptReflexive DEF KeptFor
<1>4. ASSUME NEW W PROVE Vals(B, W)' = Vals(B, W) /\ Sight(B, W)' = Sight(B, W)
  BY <1>2 DEF Vals, Sight
<1>6. ASSUME NEW p PROVE Act(p)' = Act(p) /\ Contents(p)' = Contents(p)
  BY DEF Act, FORCE_ACTUAL, Contents, Copy
<1>8. QED BY <1>2, <1>3, <1>4, <1>6 DEF Copy, Heap, OwnedKept, CopiesKept

\* What the section of another thread sees is then kept.
LEMMA SightUntouched ==
  ASSUME NEW t \in Threads, Apart(t), NEW B, HeapUntouched, VersionKept(t),
         NEW u \in Threads \ {t}, InSection(u)
  PROVE  SeesNext(u) = Sees(u) /\ SightKept(t, u, B, B)
<1>2. ASSUME NEW v \in Threads PROVE writer_version'[v] <= local_version[u] <=> writer_version[v] <= local_version[u]
  BY DEF VersionKept, Apart, SameOthers, SameThread
<1>7. QED
  BY <1>2, UntouchedFacts DEF SightKept, HeapUntouched, Sees, SeesNext, Apart, SameOthers,
     SameThread

\* The same write sets, in the same slots.
LEMMA SlotUntouched ==
  ASSUME NEW t \in Threads, HeapUntouched, SlotInv(t),
         UNCHANGED <<ws_head_counter, ws_wb_counter, ws_tail_counter, written>>,
         is_write_detected'[t] = is_write_detected[t],
         pc[t] = "reader_unlock" => pc'[t] = "reader_unlock"
  PROVE  SlotInv(t)'
<1> USE DEF HeapUntouched
<1>3. QED BY DEF SlotInv, Deferred, CurrentSlot, CurrentSet, InUse, Copy

\* A step that publishes nothing and writes nothing.
LEMMA CalmStep ==
  ASSUME LogInv, ClockInRange, OneAdvances, NEW t \in Threads, Apart(t), NEW B, ObjectInv(B),
         HeapUntouched, VersionKept(t), UNCHANGED <<set, delta>>,
         pc'[t] = pc[t] \/ {pc[t], pc'[t]} \intersect {"quiesce", "writeback"} = {},
         view'[t] # NULL <=> (InSection(t) /\ pc[t] # "reader_unlock")',
         view'[t] # NULL => view'[t] = view[t] /\ writer_version' = writer_version
                            /\ local_version'[t] = local_version[t],
         PtrInv(B, t)', SlotInv(t)'
  PROVE  ObjectInv(B)'
<1>1. Published' = Published /\ Writing' = Writing
  <2>2. \A u \in Threads : pc'[u] = "writeback" <=> pc[u] = "writeback"
    BY DEF Apart, SameOthers, SameThread
  <2>3. QED BY <2>2 DEF Published, Writing, Apart, SameOthers, SameThread
<1>3. SetInv(B)'
  <2>2. view'[t] # NULL => view'[t] = Vals(B, Sees(t))'
    <3>1. SUFFICES ASSUME view'[t] # NULL PROVE view[t] = Vals(B, Sees(t))' OBVIOUS
    <3>4. PICK W : W = Sees(t) OBVIOUS
    <3>5. Vals(B, W)' = Vals(B, W) BY UntouchedFacts
    <3>6. QED BY <3>1, <3>4, <3>5 DEF Vals, Sees, ObjectInv, SetInv
  <2>3. QED BY SightUntouched, <1>1, UntouchedFacts, <2>2, SetKept DEF SightKept, ObjectInv
<1>5. QED BY SightUntouched, UntouchedFacts, <1>3, ObjectAssembly DEF ObjectInv

-----------------------------------------------------------------------------
(* Steps outside sections that leave the objects and the copies alone *)

\* The write set of a section that has written nothing is empty.
LEMMA EmptyLog ==
  ASSUME LogInv, NEW t \in Threads, SlotInv(t), pc[t] \notin SyncLabels, ~is_write_detected[t]
  PROVE  CurrentSet(t) = <<>>
<1>1. TypeOK /\ Ring(t) BY DEF LogInv
<1>2. /\ ws_head_counter[t] \in Nat /\ ws_tail_counter[t] \in Nat
      /\ ws_head_counter[t] <= ws_tail_counter[t]
  BY <1>1 DEF TypeOK, Ring
<1>4. ASSUME NEW c \in ws_head_counter[t] .. ws_tail_counter[t] - 1 PROVE CurrentSlot(t) # WS_INDEX(c)
  BY <1>2, <1>1, RingFacts DEF CurrentSlot
<1>6. QED BY <1>1, RingFacts, <1>4 DEF SlotInv, CurrentSet, InUse

\* A thread outside its sections has no pointers.
LEMMA NoPtrInv ==
  ASSUME NEW B, NEW t \in Threads, pc'[t] \notin Labels, raw'[t] = NULL
  PROVE  PtrInv(B, t)'
<1>2. QED BY DEF PtrInv, InSection, Labels

\* A step between sections that publishes nothing and writes nothing.
LEMMA PauseCalm ==
  ASSUME Base, NEW t \in Threads, Apart(t), NEW B, ObjectInv(B),
         HeapUntouched, VersionKept(t), UNCHANGED <<set, delta, view>>,
         pc[t] \notin Labels, pc'[t] \notin Labels, raw'[t] = raw[t],
         pc'[t] = pc[t] \/ {pc[t], pc'[t]} \intersect {"quiesce", "writeback"} = {},
         UNCHANGED <<ws_head_counter, ws_wb_counter, ws_tail_counter, written>>,
         is_write_detected'[t] = is_write_detected[t]
  PROVE  ObjectInv(B)'
<1>5. view'[t] = NULL /\ ~InSection(t)' BY DEF InSection, ObjectInv, PtrInv, SetInv, Labels
<1>6. QED
  BY NoPtrInv, SlotUntouched, <1>5, CalmStep DEF Base, Labels, ObjectInv, PtrInv, SetInv, InSection

\* The steps between the sections.
LEMMA ObjPause ==
  ASSUME Base, NEW t \in Threads, Apart(t), NEW B, ObjectInv(B),
         \/ \E o \in OpNames, k \in Keys : Begin(t, o, k)
         \/ CheckpointStep(t) \/ Return(t) \/ Finish(t)
  PROVE  ObjectInv(B)'
<1> USE DEF objVars, clockVars, sectionVars, logVars, ringVars, syncVars, callVars, derefVars,
            driverVars, historyVars, Goto, CallSync
<1> DEFINE Calm(l) ==
      /\ HeapUntouched /\ UNCHANGED <<writer_version, set, delta, view>> /\ raw' = raw
      /\ UNCHANGED <<ws_head_counter, ws_wb_counter, ws_tail_counter, written, is_write_detected>>
      /\ pc' = [pc EXCEPT ![t] = l]
<1>2. ASSUME NEW l, Calm(l), l \notin Labels, pc[t] \notin Labels,
             {pc[t], l} \intersect {"quiesce", "writeback"} = {}
      PROVE  ObjectInv(B)' BY <1>2, PauseCalm DEF TypeOK, VersionKept, Base, LogInv
<1>3. CASE \E o \in OpNames, k \in Keys : Begin(t, o, k)
  <2>1. PICK l \in {"register", "sync"} : Calm(l) BY <1>3 DEF Begin, Checkpoint, HeapUntouched
  <2> HIDE DEF Calm
  <2>3. QED BY <1>2, <2>1, <1>3 DEF Labels, Begin
<1>4. CASE CheckpointStep(t)
  <2>1. PICK l \in {"register", "reader_lock", "ret", "sync"} : Calm(l)
    BY <1>4 DEF CheckpointStep, Checkpoint, HeapUntouched
  <2> HIDE DEF Calm
  <2>3. QED BY <1>2, <2>1, <1>4 DEF Labels, CheckpointStep
<1>5. CASE Return(t)
  <2>1. Calm("idle") /\ pc[t] = "ret" BY <1>5 DEF Return, HeapUntouched
  <2> HIDE DEF Calm
  <2>2. QED BY <1>2, <2>1 DEF Labels
<1>6. CASE Finish(t)
  <2>1. Calm("sync") /\ pc[t] \in {"idle", "finish"} BY <1>6 DEF Finish, HeapUntouched
  <2> HIDE DEF Calm
  <2>2. QED BY <1>2, <2>1 DEF Labels
<1>7. QED BY <1>3, <1>4, <1>5, <1>6

\* The steps of a synchronization that leave the log alone.
LEMMA ObjSync ==
  ASSUME Base, NEW t \in Threads, Apart(t), NEW B, ObjectInv(B),
         \/ SyncNothing(t) \/ SyncVersion(t) \/ \E u \in Threads : SyncReadCounter(t, u)
         \/ SyncCommit(t) \/ Register(t),
         UNCHANGED <<callVars, derefVars, driverVars, historyVars>>
  PROVE  ObjectInv(B)'
<1>1. TypeOK /\ Returning(t) /\ \A u \in Threads : Clocks(u) BY DEF Base, LogInv
<1> USE DEF objVars, clockVars, sectionVars, logVars, ringVars, syncVars, callVars, derefVars,
            driverVars, historyVars, Goto, CallSync
<1> DEFINE Calm(l) ==
      /\ HeapUntouched /\ UNCHANGED <<set, delta, view>> /\ raw' = raw
      /\ UNCHANGED <<ws_head_counter, ws_wb_counter, ws_tail_counter, written>>
      /\ is_write_detected'[t] = is_write_detected[t] /\ pc'[t] = l
<1>2. ASSUME NEW l, Calm(l), l \notin Labels, pc[t] \notin Labels, VersionKept(t),
             l = pc[t] \/ {pc[t], l} \intersect {"quiesce", "writeback"} = {}
      PROVE  ObjectInv(B)'
  BY <1>2, PauseCalm
<1>3. CASE SyncNothing(t)
  <2>1. Calm(ret[t]) /\ pc[t] = "sync" /\ writer_version' = writer_version
    BY <1>1, <1>3 DEF SyncNothing, HeapUntouched, TypeOK
  <2> HIDE DEF Calm
  <2>4. QED BY <1>2, <2>1, <1>1 DEF Labels, Returning, SyncLabels, VersionKept
<1>4. CASE SyncVersion(t)
  <2>1. Calm("advance") /\ pc[t] = "sync" /\ writer_version'[t] = g_rlu_writer_version + 1
    BY <1>1, <1>4 DEF SyncVersion, HeapUntouched, TypeOK
  <2>3. VersionKept(t)
    <3>1. ASSUME NEW u \in Threads PROVE ~(writer_version'[t] <= local_version[u]) /\ ~(writer_version[t] <= local_version[u])
      <4>1. local_version[u] \in Nat /\ local_version[u] <= g_rlu_writer_version /\ g_rlu_writer_version \in Nat
        BY <1>1 DEF Clocks, TypeOK
      <4>3. QED BY <2>1, <1>1, <4>1, ClockAssumption DEF Clocks, Base, ClockInRange
    <3>2. QED BY <3>1 DEF VersionKept
  <2> HIDE DEF Calm
  <2>4. QED BY <1>2, <2>1, <2>3 DEF Labels
<1>5. CASE \E u \in Threads : SyncReadCounter(t, u)
  <2>1. Calm("quiesce") /\ pc[t] = "quiesce" /\ writer_version' = writer_version
    BY <1>1, <1>5 DEF SyncReadCounter, HeapUntouched, TypeOK
  <2> HIDE DEF Calm
  <2>4. QED BY <1>2, <2>1 DEF Labels, VersionKept
<1>6. CASE SyncCommit(t)
  <2>1. Calm("sync_end") /\ pc[t] = "commit_version" /\ writer_version' = writer_version
    BY <1>1, <1>6 DEF SyncCommit, HeapUntouched, TypeOK
  <2> HIDE DEF Calm
  <2>4. QED BY <1>2, <2>1 DEF Labels, VersionKept
<1>7. CASE Register(t)
  <2>2. Calm("version") /\ writer_version' = writer_version
    BY <1>1, <1>7 DEF Register, HeapUntouched, TypeOK, Base, Waits, CommitInv
  <2> HIDE DEF Calm
  <2>4. QED
    BY <1>2, <1>1, <1>7, <2>2 DEF Labels, Register, Base, Waits, CommitInv, TypeOK, VersionKept
<1>8. QED BY <1>3, <1>4, <1>5, <1>6, <1>7

-----------------------------------------------------------------------------
(* Steps that publish *)

\* The clock advances: everybody begins to see the changes of t.
LEMMA ObjPublish ==
  ASSUME Base, NEW t \in Threads, Apart(t), NEW B, ObjectInv(B), Publish(t)
  PROVE  ObjectInv(B)'
<1>2. /\ HeapUntouched /\ UNCHANGED <<writer_version, view, raw, local_version, is_write_detected>>
      /\ UNCHANGED <<ws_head_counter, ws_wb_counter, ws_tail_counter, written>>
      /\ pc[t] = "advance" /\ pc'[t] = "quiesce"
      /\ set' = Toggle(set, delta[t]) /\ delta'[t] = {}
  BY DEF Publish, SyncAdvance, HeapUntouched, objVars, clockVars, sectionVars, logVars, ringVars,
     derefVars, Goto, Base, ExtraTypes, TypeOK, LogInv
<1>5. Heap(B)' /\ \A W : Vals(B, W)' = Vals(B, W) BY <1>2, UntouchedFacts DEF ObjectInv
<1>7. PtrInv(B, t)' /\ SlotInv(t)'
  BY <1>2, NoPtrInv, SlotUntouched DEF ObjectInv, Labels, PtrInv, SetInv, InSection
<1>10. SetInv(B)'
  <2> PICK P : P = Published OBVIOUS
  <2>3. ASSUME NEW u \in Threads PROVE IF u \in Published' THEN delta'[u] = {} ELSE Differs(B, u)'
    BY <1>2, <1>5 DEF Apart, SameRest, Differs, ObjectInv, SetInv, SameOthers, SameThread,
       Published, Writing
  <2>4. ASSUME NEW u \in Threads
        PROVE  /\ view'[u] # NULL <=> (InSection(u) /\ pc[u] # "reader_unlock")'
               /\ view'[u] # NULL => view'[u] = Vals(B, Sees(u))'
    <3>1. CASE u = t BY <1>2, <3>1 DEF InSection, Labels, ObjectInv, PtrInv, SetInv
    <3>2. CASE u # t
      <4>2. PICK W : W = Sees(u) OBVIOUS
      <4>5. Vals(B, W)' = Vals(B, W) BY <1>5
      <4>6. QED
        BY <1>2, <3>2, <4>2, <4>5 DEF InSection, Vals, Apart, SameOthers, SameThread, Sees,
           ObjectInv, SetInv
    <3>3. QED BY <3>1, <3>2
  <2>5. QED
    BY <1>2, <1>5, <2>3, <2>4 DEF SetInv, Vals, ObjectInv, Differs, Published, Writing, Apart,
       SameOthers, SameThread
<1>11. QED
  BY <1>2, SightUntouched, UntouchedFacts, <1>5, <1>7, <1>10, ObjectAssembly DEF Base, VersionKept

\* A section reads the clock: it is to see what is published, and its own changes.
LEMMA ObjTakeView ==
  ASSUME Base, NEW t \in Threads, Apart(t), NEW B, ObjectInv(B), TakeView(t)
  PROVE  ObjectInv(B)'
<1>1. TypeOK /\ Standing(t) /\ WaitInv BY DEF Base, LogInv, Waits
<1>2. /\ HeapUntouched /\ UNCHANGED <<writer_version, raw, ptr, is_write_detected, set, delta>>
      /\ UNCHANGED <<ws_head_counter, ws_wb_counter, ws_tail_counter, written>>
      /\ pc[t] = "version" /\ pc'[t] = "commit" /\ local_version'[t] = g_rlu_writer_version
      /\ view'[t] = Toggle(set, delta[t])
  BY <1>1 DEF TakeView, ReadVersion, HeapUntouched, objVars, clockVars, sectionVars, logVars, ringVars,
              syncVars, derefVars, Goto, Base, ExtraTypes, TypeOK
<1>5. Heap(B)' /\ \A W : Vals(B, W)' = Vals(B, W) /\ KeptFor(B, B, W, W)
  BY <1>2, UntouchedFacts DEF ObjectInv
<1>7. PtrInv(B, t)' BY <1>1, <1>2 DEF ObjectInv, PtrInv, Standing, InSection, PtrSet, NoPtr, Labels
<1>9. Published' = Published /\ t \notin Published /\ Writing' = Writing
  BY <1>2 DEF Apart, SameOthers, SameThread, Published, Writing
<1>10. Sees(t)' = Published \union {t}
  <2>1. ASSUME NEW u \in Threads \ {t} PROVE writer_version[u] <= g_rlu_writer_version <=> u \in Published
    <3>1. /\ writer_version[u] \in Nat /\ g_rlu_writer_version \in Nat
          /\ g_rlu_writer_version < MAX_VERSION /\ MAX_VERSION \in Nat /\ Clocks(u)
      BY <1>1, ClockAssumption DEF TypeOK, Base, ClockInRange, LogInv
    <3>2. ASSUME writer_version[u] <= g_rlu_writer_version PROVE u \in Published
      BY <3>1, <3>2 DEF Clocks, Base, OneAdvances, Published
    <3>3. ASSUME u \in Published PROVE writer_version[u] <= g_rlu_writer_version
      BY <1>1, <3>3 DEF Published, WaitInv
    <3>4. QED BY <3>2, <3>3
  <2>3. QED BY <1>2, <2>1 DEF Sees, Published
<1>11. view'[t] = Vals(B, Sees(t))'
  BY <1>9, <1>5, <1>2, <1>10 DEF Published, Writing, ObjectInv, SetInv, Differs, Vals
<1>12. SetInv(B)'
  BY <1>2, ViewAssumption, SightUntouched, UntouchedFacts, <1>5, <1>9, <1>11, SetKept DEF Base,
     ExtraTypes, Toggle, SightKept, ObjectInv, Labels, InSection, VersionKept
<1>13. QED
  BY SightUntouched, UntouchedFacts, <1>5, <1>7, <1>2, SlotUntouched, <1>12, ObjectAssembly
     DEF Base, ObjectInv, VersionKept

-----------------------------------------------------------------------------
(* The write sets as functions *)

\* Said of the sequence of the copies.
LEMMA CopiesFromLocks ==
  ASSUME NEW t \in Threads, NEW log \in [Slots -> Seq(CopyRecord)], NEW k,
         NEW lo \in Nat, NEW hi \in Nat, lo <= hi, NEW D, D = CopiesFrom(t, log, lo, hi)
  PROVE  SeqOf(t, D) /\ (SeqLocks(D, log, k) <=> LogLocks(t, log, k, lo, hi))
<1>1. /\ D \in Seq(Copies)
      /\ \A p : (\E j \in 1 .. Len(D) : D[j] = p)
                <=> \E c \in lo .. hi - 1 : \E i \in DOMAIN log[WS_INDEX(c)] : p = <<t, WS_INDEX(c), i>>
  <2>1. Gathers(D, t, log, lo, hi) BY CopiesFromFacts
  <2>2. QED BY <2>1 DEF Gathers
<1>2. ASSUME NEW j \in 1 .. Len(D)
      PROVE  \E c \in lo .. hi - 1 : \E i \in DOMAIN log[WS_INDEX(c)] : D[j] = <<t, WS_INDEX(c), i>>
  BY <1>1, ZenonT(40)
<1>3. ASSUME LogLocks(t, log, k, lo, hi), NEW j \in 1 .. Len(D)
      PROVE  k[log[D[j][2]][D[j][3]].actual] = D[j]
  <2>1. PICK c \in lo .. hi - 1 : \E i \in DOMAIN log[WS_INDEX(c)] : D[j] = <<t, WS_INDEX(c), i>>
    BY <1>2
  <2>2. PICK i \in DOMAIN log[WS_INDEX(c)] : D[j] = <<t, WS_INDEX(c), i>> BY <2>1
  <2>4. k[log[WS_INDEX(c)][i].actual] = <<t, WS_INDEX(c), i>> BY <1>3, <2>1, <2>2 DEF LogLocks
  <2>5. QED BY <2>2, <2>4
<1>4. ASSUME \A j \in 1 .. Len(D) : k[log[D[j][2]][D[j][3]].actual] = D[j],
             NEW c \in lo .. hi - 1, NEW i \in DOMAIN log[WS_INDEX(c)]
      PROVE  k[log[WS_INDEX(c)][i].actual] = <<t, WS_INDEX(c), i>>
  <2>1. PICK j \in 1 .. Len(D) : D[j] = <<t, WS_INDEX(c), i>> BY <1>1
  <2>3. QED BY <1>4, <2>1
<1>6. QED
  <2>3. SeqOf(t, D) BY <1>1, <1>2 DEF SeqOf
  <2>4. QED BY <1>4, <1>3, <2>3 DEF LogLocks, SeqLocks

\* What SlotInv says of the deferred copies when none is written back.
LEMMA SlotSays ==
  ASSUME TypeOK, NEW t \in Threads, Ring(t), written[t] = 0, SlotInv(t)
  PROVE  LogLocks(t, obj_write_set[t], p_obj_copy, ws_wb_counter[t], ws_tail_counter[t])
<1>1. PICK log \in [Slots -> Seq(CopyRecord)] : log = obj_write_set[t] BY DEF TypeOK
<1>2. PICK lo \in Nat : lo = ws_wb_counter[t] BY DEF TypeOK
<1>3. PICK hi \in Nat : hi = ws_tail_counter[t] BY DEF TypeOK
<1>4. PICK D : D = CopiesFrom(t, log, lo, hi) OBVIOUS
<1>7. SeqOf(t, D) /\ (SeqLocks(D, log, p_obj_copy) <=> LogLocks(t, log, p_obj_copy, lo, hi))
  BY <1>4, <1>2, <1>3, CopiesFromLocks DEF Ring
<1>8. ASSUME NEW j \in 1 .. Len(D) PROVE p_obj_copy[log[D[j][2]][D[j][3]].actual] = D[j]
  <2>1. p_obj_copy[Copy(D[j]).actual] = D[j]
    BY <1>1, <1>2, <1>3, <1>4, <1>7 DEF SeqOf, SlotInv, Deferred
  <2>3. QED BY <2>1, <1>1, <1>7 DEF Copy, SeqOf
<1>9. QED BY <1>1, <1>2, <1>3, <1>7, <1>8 DEF SeqLocks

\* What is to be shown of the write sets after a step.
LEMMA SlotNext ==
  ASSUME NEW t \in Threads, TypeOK', Ring(t)', written'[t] = 0,
         LogLocks(t, obj_write_set'[t], p_obj_copy', ws_wb_counter'[t], ws_tail_counter'[t]),
         is_write_detected'[t] => \A i \in DOMAIN CurrentSet(t)' :
           /\ (p_obj_copy[CurrentSet(t)[i].actual] = <<t, CurrentSlot(t), i>>)'
           /\ pc'[t] # "reader_unlock" => (CurrentSet(t)[i].data = data[CurrentSet(t)[i].actual])',
         \A s \in Slots : ~InUse(t, s)' => obj_write_set'[t][s] = <<>>
  PROVE  SlotInv(t)'
<1>1. PICK log \in [Slots -> Seq(CopyRecord)] : log = obj_write_set'[t] BY DEF TypeOK
<1>2. PICK lo \in Nat : lo = ws_wb_counter'[t] BY DEF TypeOK
<1>3. PICK hi \in Nat : hi = ws_tail_counter'[t] BY DEF TypeOK
<1>4. PICK D : D = CopiesFrom(t, log, lo, hi) OBVIOUS
<1>7. PICK k : k = p_obj_copy' OBVIOUS
<1>8. SeqOf(t, D) /\ (SeqLocks(D, log, k) <=> LogLocks(t, log, k, lo, hi))
  BY <1>4, <1>2, <1>3, CopiesFromLocks DEF Ring
<1>9. ASSUME NEW j \in written'[t] + 1 .. Len(Deferred(t)')
      PROVE  (p_obj_copy[Copy(Deferred(t)[j]).actual] = Deferred(t)[j])'
  <2>1. j \in 1 .. Len(D) BY <1>1, <1>2, <1>3, <1>4, <1>8 DEF SeqOf, Deferred
  <2>2. k[log[D[j][2]][D[j][3]].actual] = D[j] BY <1>1, <1>2, <1>3, <1>7, <1>8, <2>1 DEF SeqLocks
  <2>4. QED BY <1>2, <1>3, <1>4, <1>7, <2>2, <1>1, <1>8, <2>1 DEF Copy, SeqOf, Deferred
<1>10. QED BY <1>9 DEF SlotInv

-----------------------------------------------------------------------------
(* Steps after the clock has advanced *)

\* Who has written back everything holds no lock.
LEMMA NoOwnLock ==
  ASSUME TypeOK, LocksAtHome, NEW t \in Threads, ~is_write_detected[t],
         \A c \in ws_wb_counter[t] .. ws_tail_counter[t] - 1 : \A p : \A x \in Node :
           InSlot(p, c) /\ p[1] = t => p_obj_copy[x] # p
  PROVE  \A x \in Node : p_obj_copy[x] # NULL => p_obj_copy[x][1] # t
<1>1. SUFFICES ASSUME NEW x \in Node, p_obj_copy[x] # NULL, p_obj_copy[x][1] = t PROVE FALSE OBVIOUS
<1>2. PICK c \in ws_wb_counter[t] .. ws_tail_counter[t] : LockedBy(x, t, c) BY <1>1, LockFacts
<1>4. c \in ws_wb_counter[t] .. ws_tail_counter[t] - 1 BY <1>2 DEF TypeOK, LockedBy
<1>5. QED BY <1>1, <1>2, <1>4 DEF LockedBy

\* All is written back: the version of t is of no use to anybody any more.
LEMMA ObjWriteBackDone ==
  ASSUME Base, NEW t \in Threads, Apart(t), NEW B, ObjectInv(B), WriteBackDone(t),
         UNCHANGED <<callVars, derefVars, driverVars, historyVars>>, LogInv'
  PROVE  ObjectInv(B)'
<1>1. TypeOK /\ LocksAtHome /\ Ring(t) /\ Unlocked(t) /\ TypeOK' /\ Ring(t)' BY DEF Base, LogInv
<1>2. /\ HeapUntouched /\ UNCHANGED <<raw, is_write_detected, set, delta, view, local_version>>
      /\ UNCHANGED <<ws_head_counter, ws_tail_counter>>
      /\ pc[t] = "writeback" /\ pc'[t] = "commit_version" /\ written[t] = Len(Deferred(t))
      /\ writer_version'[t] = MAX_VERSION /\ ws_wb_counter'[t] = ws_tail_counter[t] /\ written'[t] = 0
  BY <1>1 DEF WriteBackDone, HeapUntouched, objVars, clockVars, sectionVars, logVars,
              derefVars, historyVars, Goto, TypeOK
<1>3. ~is_write_detected[t] BY <1>2 DEF Base, Waits, CommitInv
<1>4. \A x \in Node : p_obj_copy[x] # NULL => p_obj_copy[x][1] # t
  BY <1>1, DeferredFacts, <1>2, <1>3, NoOwnLock DEF Unlocked
<1>5. \A u \in Threads \ {t} : pc'[u] = pc[u] /\ writer_version'[u] = writer_version[u]
                               /\ delta'[u] = delta[u] /\ view'[u] = view[u]
  BY DEF Apart, SameOthers, SameThread, SameRest
<1>6. ASSUME NEW W \in SUBSET Threads, NEW V \in SUBSET Threads, V \subseteq W, W \subseteq V \union {t}
      PROVE  KeptFor(B, B, W, V)
  BY <1>4, <1>6, HeapDone, <1>2, UntouchedFacts DEF ObjectInv, Heap, HeapUntouched, KeptFor
<1>8. ASSUME NEW W \in SUBSET Threads, NEW V \in SUBSET Threads, V \subseteq W, W \subseteq V \union {t}
      PROVE  Vals(B, V)' = Vals(B, W)
  BY <1>6, <1>8, KeptValues DEF KeptFor, Vals
<1>9. ASSUME NEW u \in Threads \ {t}, InSection(u)
      PROVE  /\ SeesNext(u) \in SUBSET Threads /\ Sees(u) \in SUBSET Threads
             /\ SeesNext(u) \subseteq Sees(u) /\ Sees(u) \subseteq SeesNext(u) \union {t}
  <2>1. local_version[u] \in Nat /\ local_version[u] <= g_rlu_writer_version
        /\ g_rlu_writer_version < MAX_VERSION /\ g_rlu_writer_version \in Nat /\ MAX_VERSION \in Nat
    BY <1>1, ClockAssumption DEF TypeOK, Base, LogInv, Clocks, ClockInRange
  <2>3. QED BY <1>2, <1>5, <2>1 DEF Sees, SeesNext
<1>12. SlotInv(t)'
  <2>1. PICK log : log = obj_write_set[t] OBVIOUS
  <2>2. PICK n \in Nat : n = ws_tail_counter[t] BY <1>1 DEF TypeOK
  <2>3. log \in [Slots -> Seq(CopyRecord)] BY <1>1, <2>1 DEF TypeOK
  <2>4. Len(CopiesFrom(t, log, n, n)) = 0
    <3>1. /\ CopiesFrom(t, log, n, n) \in Seq(Copies)
          /\ \A p : ~(\E k \in 1 .. Len(CopiesFrom(t, log, n, n)) : CopiesFrom(t, log, n, n)[k] = p)
      <4>1. Gathers(CopiesFrom(t, log, n, n), t, log, n, n)
        BY ONLY t \in Threads, <2>2, <2>3, CopiesFromFacts
      <4>2. n .. n - 1 = {} BY <2>2
      <4>3. QED BY ONLY <4>1, <4>2 DEF Gathers
    <3>3. ~(1 \in 1 .. Len(CopiesFrom(t, log, n, n))) BY <3>1
    <3>4. QED BY <3>1, <3>3
  <2>8. SlotInv(t) BY DEF ObjectInv
  <2>9. QED
    BY <1>2, <1>3, <2>4, <2>1, <2>2, <2>8 DEF SlotInv, HeapUntouched, Deferred, InUse, CurrentSlot
<1>13. Published' = Published \ {t} /\ t \in Published /\ Writing' = Writing \ {t}
  BY <1>2, <1>5 DEF Published, Writing
<1>15. ASSUME NEW u \in Threads
       PROVE  IF u \in Published' THEN delta'[u] = {} ELSE Differs(B, u)'
  <2>1. CASE u \in Published' BY <1>2, <1>13, <2>1 DEF ObjectInv, SetInv
  <2>2. CASE u = t BY <1>2, <1>13, UntouchedFacts, <1>8, <2>2 DEF ObjectInv, SetInv, Toggle, Differs
  <2>3. CASE u # t /\ u \notin Published'
    <3>2. ASSUME NEW W \in SUBSET (Threads \ {u}), Writing' \subseteq W
          PROVE  Vals(B, W \union {u})' = Toggle(Vals(B, W)', delta[u])
      <4>1. PICK V : V = W \union {t} OBVIOUS
      <4>3. Vals(B, V \union {u}) = Toggle(Vals(B, V), delta[u])
        BY <1>2, <1>13, <2>3, <3>2, <4>1 DEF Differs, ObjectInv, SetInv
      <4>6. QED BY <4>3, <1>8, <3>2, <4>1
    <3>3. QED BY <2>3, <1>2, <1>13, <3>2 DEF Differs, ObjectInv, SetInv
  <2>4. QED BY <2>1, <2>2, <2>3
<1>16. ASSUME NEW u \in Threads
       PROVE  /\ view'[u] # NULL <=> (InSection(u) /\ pc[u] # "reader_unlock")'
              /\ view'[u] # NULL => view'[u] = Vals(B, Sees(u))'
  BY <1>2, <1>8, <1>9, SeesNextIs, <1>5 DEF ObjectInv, SetInv, InSection, Labels, Vals
<1>17. SetInv(B)' BY <1>13, <1>8, <1>2, <1>15, <1>16 DEF SetInv, Published, ObjectInv, Vals
<1>18. QED
  BY <1>2, UntouchedFacts, <1>6, <1>9, NoPtrInv, <1>12, <1>17, ObjectAssembly DEF Base, ObjectInv,
     SightKept, HeapUntouched, PtrInv, Labels

\* Nobody reads the write sets of the synchronization before any more.
LEMMA ObjQuiesced ==
  ASSUME Base, NEW t \in Threads, Apart(t), NEW B, ObjectInv(B), SyncQuiesced(t),
         UNCHANGED <<callVars, derefVars, driverVars, historyVars>>, LogInv'
  PROVE  ObjectInv(B)'
<1>1. TypeOK /\ LocksAtHome /\ Ring(t) /\ TypeOK' /\ Ring(t)' /\ Clocks(t) BY DEF Base, LogInv
<1>2. /\ UNCHANGED <<data, p_obj_copy, allocated, free_nodes, writer_version, local_version>>
      /\ UNCHANGED <<raw, is_write_detected, set, delta, view, ws_wb_counter, ws_tail_counter, written>>
      /\ pc[t] = "quiesce" /\ pc'[t] = "writeback" /\ ws_head_counter'[t] = ws_wb_counter[t]
      /\ \A u \in Threads : NoNeedToWait(t, u)
      /\ obj_write_set'[t] =
           [s \in Slots |-> IF \E c \in ws_head_counter[t] .. ws_wb_counter[t] - 1 : s = WS_INDEX(c)
                            THEN <<>> ELSE obj_write_set[t][s]]
  BY <1>1 DEF SyncQuiesced, objVars, clockVars, sectionVars, derefVars, historyVars, Goto, TypeOK
<1>3. ~is_write_detected[t] /\ written[t] = 0 BY <1>1, <1>2 DEF Base, Waits, CommitInv, Clocks
<1>4. PICK head \in Nat, wb \in Nat, tail \in Nat :
        head = ws_head_counter[t] /\ wb = ws_wb_counter[t] /\ tail = ws_tail_counter[t]
  BY <1>1 DEF TypeOK
<1>5. head <= wb /\ wb <= tail BY <1>1, <1>4 DEF Ring
<1>6. ASSUME NEW c \in wb .. tail - 1
      PROVE  WS_INDEX(c) \in Slots /\ obj_write_set'[t][WS_INDEX(c)] = obj_write_set[t][WS_INDEX(c)]
  <2>3. ASSUME NEW d \in head .. wb - 1 PROVE WS_INDEX(c) # WS_INDEX(d)
    BY <1>4, <1>5, <1>1, RingFacts
  <2>4. QED BY <1>2, <1>4, <1>1, <1>5, RingFacts, <2>3
<1>7. ASSUME NEW p, NEW c \in wb .. tail - 1, InSlot(p, c), p[1] = t PROVE Copy(p)' = Copy(p)
  BY <1>6, <1>7 DEF InSlot, Copy
<1>8. \A u \in Threads \ {t} : /\ pc'[u] = pc[u] /\ view'[u] = view[u] /\ obj_write_set'[u] = obj_write_set[u]
                               /\ local_version'[u] = local_version[u]
  BY DEF Apart, SameOthers, SameThread, SameRest
<1>9. ASSUME NEW x \in Node, p_obj_copy[x] # NULL PROVE Copy(p_obj_copy[x])' = Copy(p_obj_copy[x])
  <2>1. PICK p : p = p_obj_copy[x] OBVIOUS
  <2>2. PICK u \in Threads : \E c \in ws_wb_counter[u] .. ws_tail_counter[u] : LockedBy(x, u, c)
    BY <1>1, <1>9 DEF LocksAtHome
  <2>3. PICK c \in ws_wb_counter[u] .. ws_tail_counter[u] : LockedBy(x, u, c) BY <2>2
  <2>5. Copy(p)' = Copy(p)
    <3>1. CASE u = t BY <1>3, <1>4, <2>3, <3>1, <1>7, <2>1 DEF LockedBy
    <3>2. CASE u # t BY <1>8, <2>1, <2>3, <3>2 DEF Copy, LockedBy
    <3>3. QED BY <3>1, <3>2
  <2>6. QED BY <1>2, <2>1, <2>5
<1>11. Heap(B)' /\ \A W : KeptFor(B, B, W, W)
  BY <1>2, <1>9, KeptReflexive DEF KeptFor, ObjectInv, Heap, Pend
<1>12. ASSUME NEW u \in Threads \ {t}, InSection(u) PROVE SightKept(t, u, B, B) /\ KeptFor(B, B, Sees(u), SeesNext(u))
  BY <1>2, <1>8, <1>11, <1>1, <1>12, NobodyToWaitFor, <1>4, <1>7 DEF Sees, SeesNext, Base, LogInv,
     CopiesKept, SightKept
<1>15. SlotInv(t)'
  <2>2. LogLocks(t, obj_write_set[t], p_obj_copy, wb, tail)
    BY <1>1, <1>3, <1>4, SlotSays DEF ObjectInv
  <2>3. LogLocks(t, obj_write_set'[t], p_obj_copy', ws_wb_counter'[t], ws_tail_counter'[t])
    <3>2. p_obj_copy' = p_obj_copy /\ ws_wb_counter'[t] = wb /\ ws_tail_counter'[t] = tail
      BY <1>2, <1>4
    <3>3. QED BY <1>6, <2>2, <3>2 DEF LogLocks
  <2>4. ASSUME NEW s \in Slots, ~InUse(t, s)' PROVE obj_write_set'[t][s] = <<>>
    BY <1>2, <1>4, <2>4, <1>5, <1>3 DEF InUse, SlotInv, ObjectInv
  <2>5. QED BY <1>1, <1>2, <1>3, <2>3, <2>4, SlotNext
<1>16. Published' = Published /\ Writing \subseteq Writing' BY <1>2, <1>8 DEF Published, Writing
<1>17. SetInv(B)' BY <1>2, <1>11, <1>12, <1>16, SetKept DEF ObjectInv, SetInv, InSection, Labels
<1>18. QED
  BY <1>11, <1>12, <1>2, NoPtrInv, <1>15, <1>17, ObjectAssembly DEF Base, OwnedKept, ObjectInv,
     PtrInv, Labels

-----------------------------------------------------------------------------
(* The order of the deferred copies *)

\* Two sequences one after the other.
LEMMA JoinFacts ==
  ASSUME NEW S, NEW P \in Seq(S), NEW Q \in Seq(S)
  PROVE  /\ P \o Q \in Seq(S) /\ Len(P \o Q) = Len(P) + Len(Q) /\ Len(P) \in Nat /\ Len(Q) \in Nat
         /\ \A k \in 1 .. Len(P) : k \in 1 .. Len(P \o Q) /\ (P \o Q)[k] = P[k]
         /\ \A k \in 1 .. Len(Q) : Len(P) + k \in 1 .. Len(P \o Q) /\ (P \o Q)[Len(P) + k] = Q[k]
         /\ \A k \in 1 .. Len(P \o Q) : \/ k \in 1 .. Len(P) /\ (P \o Q)[k] = P[k]
                                        \/ k - Len(P) \in 1 .. Len(Q) /\ (P \o Q)[k] = Q[k - Len(P)]
<1>5. \A k \in 1 .. Len(P \o Q) : k - Len(P) \in 1 .. Len(Q) => (P \o Q)[k] = Q[k - Len(P)] OBVIOUS
<1>6. QED BY <1>5

\* One slot before the others.
LEMMA OrderedJoin ==
  ASSUME NEW t \in Threads, NEW s \in Slots, NEW P \in Seq(Copies), NEW Q,
         \A k \in 1 .. Len(P) : P[k] = <<t, s, k>>,
         Ordered(t, Q), \A k \in 1 .. Len(Q) : Q[k][2] # s
  PROVE  Ordered(t, P \o Q)
<1> DEFINE D == P \o Q
<1>2. /\ D \in Seq(Copies) /\ Len(D) = Len(P) + Len(Q) /\ Len(P) \in Nat /\ Len(Q) \in Nat
      /\ \A k \in 1 .. Len(P) : k \in 1 .. Len(D) /\ D[k] = P[k]
      /\ \A k \in 1 .. Len(Q) : Len(P) + k \in 1 .. Len(D) /\ D[Len(P) + k] = Q[k]
      /\ \A k \in 1 .. Len(D) : \/ k \in 1 .. Len(P) /\ D[k] = P[k]
                                \/ k - Len(P) \in 1 .. Len(Q) /\ D[k] = Q[k - Len(P)]
  BY JoinFacts DEF Ordered
<1> HIDE DEF D
<1>3. ASSUME NEW k \in 1 .. Len(D), D[k][3] = 2
      PROVE  k - 1 \in 1 .. Len(D) /\ D[k - 1] = <<t, D[k][2], 1>>
  <2>1. CASE k \in 1 .. Len(P) /\ D[k] = P[k]
    <3>2. k = 2 /\ D[k][2] = s BY <1>3, <2>1
    <3>5. QED BY <3>2, <1>2, <2>1
  <2>2. CASE k - Len(P) \in 1 .. Len(Q) /\ D[k] = Q[k - Len(P)]
    <3>1. PICK j \in 1 .. Len(Q) : j = k - Len(P) BY <2>2
    <3>3. j - 1 \in 1 .. Len(Q) /\ Q[j - 1] = <<t, Q[j][2], 1>> BY <1>3, <2>2, <3>1 DEF Ordered
    <3>5. Len(P) + (j - 1) = k - 1 BY <1>2, <3>1
    <3>6. QED BY <2>2, <3>1, <3>3, <1>2, <3>5
  <2>3. QED BY <1>2, <2>1, <2>2
<1>4. ASSUME NEW j \in 1 .. Len(D), NEW k \in 1 .. Len(D), D[j] = D[k] PROVE j = k
  <2> DEFINE InP(i) == i \in 1 .. Len(P) /\ D[i] = P[i]
  <2> DEFINE InQ(i) == i - Len(P) \in 1 .. Len(Q) /\ D[i] = Q[i - Len(P)]
  <2>1. (InP(j) \/ InQ(j)) /\ (InP(k) \/ InQ(k)) BY <1>2
  <2>2. CASE InP(j) /\ InP(k)
    <3>2. D[j][3] = j /\ D[k][3] = k BY <2>2
    <3>3. QED BY <1>4, <3>2
  <2>3. CASE InQ(j) /\ InQ(k)
    <3>1. j - Len(P) = k - Len(P) BY <1>4, <2>3 DEF Ordered
    <3>2. QED BY <1>2, <3>1
  <2>4. CASE InP(j) /\ InQ(k)
    <3>1. D[j] = <<t, s, j>> /\ D[k][2] # s BY <2>4
    <3>2. QED BY <1>4, <3>1
  <2>5. CASE InQ(j) /\ InP(k)
    <3>1. D[k] = <<t, s, k>> /\ D[j][2] # s BY <2>5
    <3>2. QED BY <1>4, <3>1
  <2> HIDE DEF InP, InQ
  <2>6. QED BY <2>1, <2>2, <2>3, <2>4, <2>5
<1>5. QED BY <1>2, <1>3, <1>4 DEF Ordered, D

\* The slots of different counters are different.
LEMMA CopiesFromOrder ==
  ASSUME NEW t \in Threads, NEW log, NEW lo \in Nat, NEW hi \in Nat,
         log \in [Slots -> Seq(CopyRecord)], lo <= hi,
         \A c, d \in lo .. hi - 1 : c # d => WS_INDEX(c) # WS_INDEX(d)
  PROVE  Ordered(t, CopiesFrom(t, log, lo, hi))
<1>1. PICK f : IsFrom(f, t, log, lo, hi) /\ CopiesFrom(t, log, lo, hi) = f[lo] BY FromIs
<1> DEFINE Fine(c) ==
      /\ Ordered(t, f[c])
      /\ \A k \in 1 .. Len(f[c]) : \E d \in c .. hi - 1 : f[c][k][2] = WS_INDEX(d)
<1>3. ASSUME NEW c \in lo .. hi - 1 PROVE
        /\ WS_INDEX(c) \in Slots /\ Piece(t, log, c) \in Seq(Copies)
        /\ \A k \in 1 .. Len(Piece(t, log, c)) : Piece(t, log, c)[k] = <<t, WS_INDEX(c), k>>
  <2>1. WS_INDEX(c) \in Slots /\ log[WS_INDEX(c)] \in Seq(CopyRecord) BY IndexFacts
  <2> DEFINE s == WS_INDEX(c)
  <2> DEFINE m == Len(log[s])
  <2>2. m \in Nat /\ DOMAIN log[s] = 1 .. m BY <2>1
  <2> HIDE DEF s, m
  <2>6. QED BY <2>1, <2>2 DEF s, Piece, Copies
<1>4. Fine(hi)
  <2>3. QED BY <1>1 DEF Ordered, IsFrom
<1>5. ASSUME NEW c \in lo .. hi - 1, Fine(c + 1) PROVE Fine(c)
  <2> DEFINE P == Piece(t, log, c)
  <2> DEFINE Q == f[c + 1]
  <2>1. f[c] = P \o Q
    <3>1. c \in lo .. hi /\ c # hi OBVIOUS
    <3>2. QED BY <1>1, <3>1 DEF IsFrom
  <2>2. /\ WS_INDEX(c) \in Slots /\ P \in Seq(Copies) /\ Q \in Seq(Copies) /\ Ordered(t, Q)
        /\ \A k \in 1 .. Len(P) : P[k] = <<t, WS_INDEX(c), k>>
        /\ \A k \in 1 .. Len(Q) : \E d \in c + 1 .. hi - 1 : Q[k][2] = WS_INDEX(d)
    BY <1>3, <1>5 DEF Ordered
  <2> HIDE DEF P, Q
  <2>3. \A k \in 1 .. Len(Q) : Q[k][2] # WS_INDEX(c) BY <2>2
  <2>4. Ordered(t, P \o Q) BY <2>2, <2>3, OrderedJoin
  <2>5. ASSUME NEW k \in 1 .. Len(P \o Q) PROVE \E d \in c .. hi - 1 : (P \o Q)[k][2] = WS_INDEX(d)
    <3>2. CASE k \in 1 .. Len(P) /\ (P \o Q)[k] = P[k] BY <2>2, <3>2
    <3>3. CASE k - Len(P) \in 1 .. Len(Q) /\ (P \o Q)[k] = Q[k - Len(P)] BY <2>2, <3>3
    <3>4. QED BY <2>2, JoinFacts, <3>2, <3>3
  <2>6. QED BY <2>1, <2>4, <2>5
<1>6. \A c \in lo .. hi : Fine(c)
  <2> DEFINE Bad == {m \in 0 .. hi - lo : ~Fine(hi - m)}
  <2>1. SUFFICES ASSUME Bad # {} PROVE FALSE
    <3>2. \A c \in lo .. hi : hi - c \notin Bad BY <2>1
    <3> HIDE DEF Fine
    <3>3. QED BY <3>2
  <2>2. PICK m \in Bad : \A i \in Bad : m <= i
    <3>1. Bad \in SUBSET Nat OBVIOUS
    <3>2. QED BY <2>1, <3>1, LeastNatural
  <2> HIDE DEF Fine
  <2>4. m - 1 \in 0 .. hi - lo /\ m - 1 \notin Bad /\ hi - (m - 1) = (hi - m) + 1
    <3>3. QED BY <2>2, <1>4
  <2>6. QED BY <1>5, <2>2, <1>4, <2>4
<1>8. QED BY <1>1, <1>6

\* The copies that t writes back, in order.
LEMMA DeferredOrder ==
  ASSUME TypeOK, NEW t \in Threads, Ring(t)
  PROVE  Ordered(t, Deferred(t))
<1>1. PICK log : log = obj_write_set[t] OBVIOUS
<1>2. PICK head \in Nat, lo \in Nat, hi \in Nat :
        head = ws_head_counter[t] /\ lo = ws_wb_counter[t] /\ hi = ws_tail_counter[t]
  BY DEF TypeOK
<1>3. head <= lo /\ lo <= hi /\ log \in [Slots -> Seq(CopyRecord)] BY <1>1, <1>2 DEF Ring, TypeOK
<1>4. ASSUME NEW c \in lo .. hi - 1, NEW d \in lo .. hi - 1, c # d PROVE WS_INDEX(c) # WS_INDEX(d)
  <2>1. c \in head .. hi /\ d \in head .. hi /\ c < hi /\ d < hi BY <1>2, <1>3
  <2>2. QED BY <1>2, <1>4, <2>1, RingFacts
<1>6. QED BY <1>1, <1>2, <1>3, <1>4, CopiesFromOrder DEF Deferred

\* One copy is written back and its object unlocked: everybody in a section sees
\* the same as before.
LEMMA ObjWriteBack ==
  ASSUME Base, NEW t \in Threads, Apart(t), NEW B, ObjectInv(B), WriteBack(t),
         UNCHANGED <<callVars, derefVars, driverVars, historyVars>>
  PROVE  \E C \in SUBSET Node : ObjectInv(C)'
<1>1. TypeOK /\ LocksAtHome /\ Ring(t) /\ Unlocked(t) BY DEF Base, LogInv
<1>2. PICK D : D = Deferred(t) OBVIOUS
<1>3. PICK w \in Nat : w = written[t] BY <1>1 DEF TypeOK
<1>4. PICK p : p = D[w + 1] OBVIOUS
<1>5. PICK x : x = Copy(p).actual OBVIOUS
<1>6. /\ UNCHANGED <<allocated, free_nodes, obj_write_set, writer_version, local_version, raw, set, delta, view>>
      /\ UNCHANGED <<pc, is_write_detected, ws_head_counter, ws_wb_counter, ws_tail_counter>>
      /\ pc[t] = "writeback" /\ w < Len(D) /\ written'[t] = w + 1
      /\ data' = [data EXCEPT ![x] = Copy(p).data] /\ p_obj_copy' = [p_obj_copy EXCEPT ![x] = NULL]
  BY <1>1, <1>2, <1>3, <1>4, <1>5 DEF WriteBack, clockVars, sectionVars, logVars, ringVars, derefVars,
                                      historyVars, TypeOK
<1>7. /\ D \in Seq(Copies) /\ Ordered(t, D) /\ Len(D) \in Nat
      /\ \A q : (\E k \in 1 .. Len(D) : D[k] = q)
                <=> \E c \in ws_wb_counter[t] .. ws_tail_counter[t] - 1 : InSlot(q, c) /\ q[1] = t
  BY <1>1, <1>2, DeferredFacts, DeferredOrder
<1>8. w + 1 \in 1 .. Len(D) /\ w + 1 \in w + 1 .. Len(D) BY <1>6, <1>7
<1>9. PICK c : InSlot(p, c) /\ p[1] = t BY <1>4, <1>7, <1>8
<1>10. Copy(p) \in CopyRecord /\ p # NULL /\ p \in Copies BY <1>1, <1>9, CopyFacts
<1>11. x \in Node /\ p_obj_copy[x] = p
  BY <1>2, <1>3, <1>8, <1>4, <1>5, <1>10 DEF ObjectInv, SlotInv, CopyRecord
<1>13. /\ data' \in [Node -> NodeContents] /\ data'[x] = Pend[x] /\ \A z \in Node \ {x} : data'[z] = data[z]
       /\ p_obj_copy' \in [Node -> Copies \union {NULL}] /\ p_obj_copy'[x] = NULL
       /\ \A z \in Node \ {x} : p_obj_copy'[z] = p_obj_copy[z]
  BY <1>6, <1>10, <1>11, <1>1, PendFacts DEF CopyRecord
<1>14. \A q : Copy(q)' = Copy(q) BY <1>6 DEF Copy
<1>15. Pend' = Pend BY <1>13, <1>14, <1>1, PendFacts, <1>10, <1>11 DEF Pend
<1>16. IsHeap(B, data, p_obj_copy, Pend, allocated, free_nodes) BY DEF ObjectInv, Heap
<1>17. ASSUME NEW q \in Node, Pend[q] # data[q], q # x PROVE data[q].p_next # x
  <2>1. SUFFICES ASSUME data[q].p_next = x PROVE FALSE OBVIOUS
  <2>3. p_obj_copy[q] = <<t, p[2], 1>> /\ p[3] = 2
    BY <1>9, <1>11, <1>16, <1>17, <2>1, ChangeFacts DEF Copies
  <2>4. w \in 1 .. Len(D) /\ D[w] = <<t, p[2], 1>> BY <1>3, <1>4, <1>7, <1>8, <2>3 DEF Ordered
  <2>6. p_obj_copy[q] # D[w] BY <1>2, <1>3, <1>1, <1>6, <2>4 DEF Unlocked
  <2>7. QED BY <2>3, <2>4, <2>6
<1>18. PICK C : /\ IsHeap(C, data', p_obj_copy', Pend, allocated, free_nodes)
                /\ \A W \in SUBSET Threads : t \in W =>
                     Kept(B, data, p_obj_copy, Pend, free_nodes, W, C, data', p_obj_copy', Pend, free_nodes, W)
  BY <1>13, <1>9, <1>10, <1>11, <1>17, <1>16, HeapWriteBack
<1>20. \A W \in SUBSET Threads : t \in W => KeptFor(B, C, W, W) BY <1>6, <1>15, <1>18 DEF KeptFor
<1>22. ASSUME NEW u \in Threads \ {t}, InSection(u)
       PROVE  SightKept(t, u, B, C) /\ KeptFor(B, C, Sees(u), SeesNext(u))
  <2>2. PICK W : W = Sees(u) OBVIOUS
  <2>5. CopiesKept(t, u) BY <1>14 DEF CopiesKept
  <2>6. \A z \in Node : p_obj_copy'[z] # NULL => p_obj_copy'[z] = p_obj_copy[z] BY <1>13
  <2>7. QED
    BY <1>6, <2>2, <1>20, <1>22, SeesFacts, <2>5, <2>6 DEF SightKept, Apart, SameOthers, SameThread,
       Sees, SeesNext, Base, Waits, Writing
<1>23. ASSUME NEW u \in Threads \ {t} PROVE OwnedKept(u) BY <1>9, <1>11, <1>13 DEF OwnedKept
<1>24. PtrInv(C, t)' BY <1>6, NoPtrInv DEF ObjectInv, PtrInv, Labels
<1>25. SlotInv(t)'
  <2>2. SlotInv(t) /\ ~is_write_detected[t] BY <1>6 DEF ObjectInv, Base, Waits, CommitInv
  <2>3. ASSUME NEW k \in w + 1 + 1 .. Len(D) PROVE p_obj_copy'[Copy(D[k]).actual] = D[k]
    <3>1. k \in w + 1 .. Len(D) /\ k \in 1 .. Len(D) /\ k # w + 1 BY <1>7
    <3>4. Copy(D[k]).actual \in Node BY <1>7, <3>1, <1>1, CopyFacts DEF CopyRecord
    <3>5. QED BY <1>11, <1>13, <1>2, <1>3, <2>2, <3>1, <1>4, <1>7, <1>8, <3>4 DEF SlotInv, Ordered
  <2>5. QED BY <1>6, <1>2, <2>2, <1>14, <2>3 DEF SlotInv, Deferred, CurrentSlot, InUse
<1>26. SetInv(C)'
  BY <1>6, <1>20, <1>22, SetKept DEF Published, Writing, ObjectInv, SetInv, InSection, Labels
<1>27. ObjectInv(C)'
  BY <1>6, <1>15, <1>18, HeapFacts, <1>22, <1>23, <1>24, <1>25, <1>26, ObjectAssembly DEF Base, Heap
<1>28. QED BY <1>6, <1>15, <1>18, HeapFacts, <1>27 DEF Heap

\* The removed nodes are freed: nobody can reach them any more.
LEMMA ObjSyncEnd ==
  ASSUME Base, NEW t \in Threads, Apart(t), NEW B, ObjectInv(B), SyncEnd(t),
         UNCHANGED <<callVars, derefVars, driverVars, historyVars>>, LogInv'
  PROVE  /\ ObjectInv(B)'
         /\ \A x \in free_nodes[t] : x \in allocated /\ p_obj_copy[x] = NULL
<1>1. TypeOK /\ LocksAtHome /\ Ring(t) /\ Returning(t) /\ Clocks(t) /\ TypeOK' /\ Ring(t)'
  BY DEF Base, LogInv
<1>2. /\ UNCHANGED <<p_obj_copy, obj_write_set, writer_version, local_version, raw, set, delta, view>>
      /\ UNCHANGED <<is_write_detected, ws_head_counter, ws_wb_counter, ws_tail_counter, written>>
      /\ pc[t] = "sync_end" /\ pc'[t] = ret[t]
      /\ allocated' = allocated \ free_nodes[t]
      /\ data' = [x \in Node |-> IF x \in free_nodes[t] THEN Freed ELSE data[x]]
      /\ free_nodes' = [free_nodes EXCEPT ![t] = {}]
  BY <1>1 DEF SyncEnd, clockVars, sectionVars, ringVars, syncVars, derefVars, historyVars, Goto, TypeOK
<1>4. ~is_write_detected[t] /\ written[t] = 0 /\ ws_wb_counter[t] = ws_tail_counter[t]
      /\ ws_tail_counter[t] \in Nat
  BY <1>1, <1>2 DEF Base, Waits, CommitInv, Clocks, Ring, TypeOK
<1>5. \A x \in Node : p_obj_copy[x] # NULL => p_obj_copy[x][1] # t BY <1>4, <1>1, NoOwnLock
<1>7. /\ free_nodes \in [Threads -> SUBSET DataNodes] /\ DataNodes \subseteq Node
      /\ Pend \in [Node -> NodeContents] /\ data \in [Node -> NodeContents]
      /\ data' \in [Node -> NodeContents]
  <2>1. data' \in [Node -> NodeContents] BY <1>1 DEF TypeOK
  <2>2. QED BY <2>1, HeapFacts DEF ObjectInv, Heap
<1>8. PICK g \in [Node -> NodeContents] : \A z \in Node : g[z] = IF z \in free_nodes[t] THEN data'[z] ELSE Pend[z]
  <2>1. [z \in Node |-> IF z \in free_nodes[t] THEN data'[z] ELSE Pend[z]] \in [Node -> NodeContents]
    BY <1>7
  <2>2. QED BY <2>1
<1>9. /\ \A x \in free_nodes[t] : x \in allocated /\ p_obj_copy[x] = NULL
      /\ IsHeap(B, data', p_obj_copy, g, allocated \ free_nodes[t], free_nodes')
      /\ \A W \in SUBSET Threads :
           Kept(B, data, p_obj_copy, Pend, free_nodes, W, B, data', p_obj_copy, g, free_nodes', W)
  <2>1. PICK e \in [Node -> NodeContents] : e = data' BY <1>7
  <2>2. PICK h \in [Threads -> SUBSET DataNodes] : h = free_nodes' BY <1>2, <1>7
  <2>3. PICK d : d = data OBVIOUS
  <2>4. PICK c : c = Pend OBVIOUS
  <2>5. PICK f : f = free_nodes OBVIOUS
  <2>6. /\ \A z \in Node \ f[t] : e[z] = d[z]
        /\ \A z \in f[t] : g[z] = e[z]
        /\ \A z \in Node \ f[t] : g[z] = c[z]
        /\ h[t] = {} /\ \A v \in Threads \ {t} : h[v] = f[v]
    BY <1>2, <1>7, <1>8, <2>1, <2>2, <2>3, <2>4, <2>5
  <2>7. IsHeap(B, d, p_obj_copy, c, allocated, f) BY <2>3, <2>4, <2>5 DEF ObjectInv, Heap
  <2>8. /\ \A x \in f[t] : x \in allocated /\ p_obj_copy[x] = NULL
        /\ IsHeap(B, e, p_obj_copy, g, allocated \ f[t], h)
        /\ \A W \in SUBSET Threads : Kept(B, d, p_obj_copy, c, f, W, B, e, p_obj_copy, g, h, W)
    BY <1>5, <2>6, <2>7, HeapFree, SMTT(40)
  <2>9. QED BY <2>1, <2>2, <2>3, <2>4, <2>5, <2>8
<1>13. Heap(B)' /\ \A W \in SUBSET Threads : KeptFor(B, B, W, W)
  BY <1>2, <1>9, <1>8 DEF Heap, KeptFor, Pend, Copy
<1>14. \A u \in Threads \ {t} : /\ pc'[u] = pc[u] /\ view'[u] = view[u]
                                /\ local_version'[u] = local_version[u]
  BY DEF Apart, SameOthers, SameThread, SameRest
<1>15. ASSUME NEW u \in Threads \ {t}, InSection(u)
       PROVE  SightKept(t, u, B, B) /\ KeptFor(B, B, Sees(u), SeesNext(u))
  BY <1>2, <1>14, <1>13 DEF Sees, SeesNext, CopiesKept, SightKept, Copy
<1>16. ASSUME NEW u \in Threads \ {t} PROVE OwnedKept(u) BY <1>9, <1>2 DEF OwnedKept
<1>18. SlotInv(t)'
  BY <1>2, <1>4, <1>1, SlotNext DEF InUse, CurrentSlot, ObjectInv, LogLocks, SlotInv
<1>19. SetInv(B)'
  BY <1>2, <1>1, <1>14, <1>13, <1>15, SetKept DEF ObjectInv, Published, Writing, SetInv, InSection,
     Labels, Returning, SyncLabels
<1>21. QED
  BY <1>9, <1>13, <1>15, <1>16, <1>2, <1>1, NoPtrInv, <1>18, <1>19, ObjectAssembly DEF Base,
     ObjectInv, PtrInv, Labels, Returning, SyncLabels

-----------------------------------------------------------------------------
(* The steps of a section that write nothing *)

\* The head of a list is in the bucket of the list.
LEMMA HomeSentinel ==
  ASSUME NEW d, NEW b \in Buckets
  PROVE  Home(d, MinNode[b]) = b
<1>4. QED BY RluListAssumption, SentinelAssumption DEF MinNodes, MaxNodes, Home

\* The bucket of a call.
LEMMA HashFacts ==
  ASSUME LogInv, NEW t \in Threads, InSection(t)
  PROVE  /\ key[t] \in Keys /\ key[t] \in Int /\ LIST_VAL_MIN < key[t] /\ key[t] < LIST_VAL_MAX
         /\ Hash(key[t]) \in Buckets /\ MinNode[Hash(key[t])] \in MinNodes
         /\ LIST_VAL_MIN \in Int /\ LIST_VAL_MAX \in Int
<1>4. QED BY RluListAssumption DEF MinNodes, LogInv, Returning, InSection, Hash, Buckets

\* A node that the section of t may see.
LEMMA SeenFacts ==
  ASSUME NEW B, Heap(B), NEW t \in Threads, NEW x \in SV(B, t)
  PROVE  /\ x \in Node /\ x \in allocated /\ SC(t, x).val = data[x].val /\ data[x].val \in Int
         /\ SC(t, x) \in NodeContents
<1>2. PICK W : W = Sees(t) OBVIOUS
<1>6. QED BY <1>2, ViewFacts, HeapFacts DEF SC, Heap, Sees, SV, Sight

\* The node behind it.
LEMMA SeenNext ==
  ASSUME NEW B, Heap(B), NEW t \in Threads, NEW x \in SV(B, t) \ MaxNodes, NEW y, y = SC(t, x).p_next
  PROVE  /\ y \in SV(B, t) /\ Home(data, y) = Home(data, x) /\ data[x].val < data[y].val
         /\ \A z \in SV(B, t) : Home(data, z) = Home(data, x) =>
              data[z].val <= data[x].val \/ data[y].val <= data[z].val
<1>2. PICK W : W = Sees(t) OBVIOUS
<1>3. x \in View(B, p_obj_copy, Pend, free_nodes, W) \ MaxNodes /\ W \in SUBSET Threads
      /\ y = Vis(data, p_obj_copy, Pend, W, x).p_next BY <1>2 DEF SV, Sight, SC, Heap, Sees
<1>4. /\ y \in View(B, p_obj_copy, Pend, free_nodes, W) /\ Home(data, y) = Home(data, x)
      /\ data[x].val < data[y].val
      /\ \A z \in View(B, p_obj_copy, Pend, free_nodes, W) : Home(data, z) = Home(data, x) =>
           data[z].val <= data[x].val \/ data[y].val <= data[z].val BY <1>3, ViewNext DEF Heap, Sees
<1>5. QED BY <1>2, <1>4 DEF SV, Sight

\* Every section sees the heads and the ends of the lists.
LEMMA SentinelSeen ==
  ASSUME NEW B, Heap(B), NEW t \in Threads, NEW x \in Sentinels
  PROVE  x \in SV(B, t) /\ (x \in MinNodes => data[x].val = LIST_VAL_MIN /\ x \notin MaxNodes)
                        /\ (x \in MaxNodes => data[x].val = LIST_VAL_MAX)
<1>5. QED BY HeapFacts, RluListAssumption DEF SV, Sight, View, Linked, Sentinels, Heap, Sees

\* What a pointer leads to that may be followed.
LEMMA GoodFacts ==
  ASSUME NEW B, Heap(B), NEW t \in Threads, NEW p, Good(B, t, p)
  PROVE  /\ Act(p) \in SV(B, t) /\ Act(p) \in Node /\ Act(p) \in allocated
         /\ Contents(p).val = data[Act(p)].val /\ data[Act(p)].val \in Int
         /\ Contents(p) = SC(t, Act(p))
<1>2. PICK x : x = Act(p) OBVIOUS
<1>4. QED BY <1>2, SeenFacts DEF Good

\* A section sees what it saw.
LEMMA StillSees ==
  ASSUME NEW t \in Threads, NEW B, HeapUntouched, writer_version' = writer_version,
         local_version'[t] = local_version[t]
  PROVE  /\ SV(B, t)' = SV(B, t)
         /\ \A p : (Good(B, t, p)' <=> Good(B, t, p)) /\ Act(p)' = Act(p)
         /\ \A x : SC(t, x)' = SC(t, x)
         /\ \A x : Home(data, x)' = Home(data, x)
         /\ data' = data /\ p_obj_copy' = p_obj_copy /\ free_nodes' = free_nodes
         /\ \A p : Copy(p)' = Copy(p)
<1>1. Pend' = Pend BY DEF Pend, Copy, HeapUntouched
<1>2. Sees(t)' = Sees(t) BY DEF Sees
<1>3. data' = data /\ p_obj_copy' = p_obj_copy /\ free_nodes' = free_nodes /\ obj_write_set' = obj_write_set
  BY DEF HeapUntouched
<1>5. ASSUME NEW x PROVE SC(t, x)' = SC(t, x) /\ Home(data, x)' = Home(data, x)
  BY <1>1, <1>2, <1>3 DEF SC
<1>6. ASSUME NEW p PROVE Act(p)' = Act(p) /\ Contents(p)' = Contents(p) /\ Copy(p)' = Copy(p)
  BY <1>3 DEF Act, FORCE_ACTUAL, Contents, Copy
<1>7. ASSUME NEW p PROVE Good(B, t, p)' <=> Good(B, t, p)
  BY <1>5, <1>6, <1>1, <1>2, <1>3 DEF SC, Good, SV, Sight
<1>8. QED BY <1>3, <1>1, <1>2, <1>5, <1>6, <1>7 DEF SV, Sight

\* A step of a section that writes no object and no copy.
LEMMA WalkCalm ==
  ASSUME Base, NEW t \in Threads, Apart(t), NEW B, ObjectInv(B), HeapUntouched,
         UNCHANGED <<writer_version, set, delta>>,
         UNCHANGED <<ws_head_counter, ws_wb_counter, ws_tail_counter, written>>,
         pc[t] \in Labels \ {"reader_unlock"}, local_version'[t] = local_version[t],
         \/ pc'[t] \in Labels \ {"reader_unlock"} /\ view'[t] = view[t]
         \/ pc'[t] \in {"reader_unlock", "unlock_objs"} /\ view'[t] = NULL,
         is_write_detected'[t] = is_write_detected[t] \/ SlotInv(t)',
         PtrInv(B, t)'
  PROVE  ObjectInv(B)'
<1>5. VersionKept(t) BY DEF VersionKept
<1>6. QED BY SlotUntouched, <1>5, CalmStep DEF Base, ObjectInv, SetInv, InSection, Labels

\* The section goes on to dereference r.
LEMMA StartPtr ==
  ASSUME NEW t \in Threads, NEW B, HeapUntouched, writer_version' = writer_version,
         local_version'[t] = local_version[t], op'[t] = op[t], key'[t] = key[t],
         NEW pp, NEW pn, NEW n, NEW v, NEW r,
         pc'[t] = "deref", into'[t] = v, raw'[t] = r,
         ptr'[t].p_prev = pp, ptr'[t].p_next = pn, ptr'[t].n = n,
         \A p \in {pp, pn, n} \ {NULL} : Good(B, t, p), op[t] # "remove" => n = NULL,
         r \in SV(B, t), v = "p_prev" => r = MinNode[Hash(key[t])],
         v # "p_prev" => data[Act(pp)].val < key[t] /\ Home(data, Act(pp)) = Hash(key[t]),
         v = "p_next" => SC(t, Act(pp)).p_next = r,
         v = "n" => /\ op[t] = "remove" /\ SC(t, Act(pp)).p_next = Act(pn)
                    /\ data[Act(pn)].val = key[t] /\ SC(t, Act(pn)).p_next = r
  PROVE  PtrInv(B, t)'
<1>1. /\ SV(B, t)' = SV(B, t)
      /\ \A p : (Good(B, t, p)' <=> Good(B, t, p)) /\ Act(p)' = Act(p)
      /\ \A x : SC(t, x)' = SC(t, x)
      /\ \A x : Home(data, x)' = Home(data, x)
      /\ data' = data
  BY StillSees
<1>4. \A p : SC(t, Act(p))' = SC(t, Act(p)) /\ Home(data', Act(p)') = Home(data, Act(p)) BY <1>1
<1>7. v = "n" => Follows(t, pp, Act(pn))' /\ Follows(t, pn, r)' /\ data'[Act(pn)'].val = key[t]
  BY <1>1, <1>4 DEF Follows
<1>8. InSection(t)' BY DEF InSection, Labels
<1> HIDE DEF Follows
<1>9. QED BY <1>1, <1>4, <1>7, <1>8 DEF PtrInv, PtrSet, Before, Follows

\* The section has dereferenced, and goes on to use its pointers, or gives up.
LEMMA HoldPtr ==
  ASSUME NEW t \in Threads, NEW B, HeapUntouched, writer_version' = writer_version,
         local_version'[t] = local_version[t], op'[t] = op[t], key'[t] = key[t],
         NEW pp, NEW pn, NEW n, NEW l, pc'[t] = l, raw'[t] = NULL,
         ptr'[t].p_prev = pp, ptr'[t].p_next = pn, ptr'[t].n = n,
         l \in {"next", "visit", "lock", "cas", "write", "abort"},
         \A p \in {pp, pn, n} \ {NULL} : Good(B, t, p), op[t] # "remove" => n = NULL,
         l = "next" => Act(pp) = MinNode[Hash(key[t])],
         l \in {"visit", "lock", "cas", "write"} =>
           /\ data[Act(pp)].val < key[t] /\ Home(data, Act(pp)) = Hash(key[t])
           /\ SC(t, Act(pp)).p_next = Act(pn),
         l \in {"lock", "cas", "write"} =>
           /\ op[t] \in {"add", "remove"} /\ LogOf(t)'
           /\ op[t] = "add" => key[t] < data[Act(pn)].val
           /\ op[t] = "remove" => key[t] = data[Act(pn)].val /\ SC(t, Act(pn)).p_next = Act(n),
         l = "abort" => op[t] \in {"add", "remove"}
  PROVE  PtrInv(B, t)'
<1>6. l \in {"lock", "cas", "write"} =>
        /\ op[t] = "add" => key[t] < data'[Act(pn)'].val
        /\ op[t] = "remove" => key[t] = data'[Act(pn)'].val /\ Follows(t, pn, Act(n))'
  BY StillSees DEF Follows
<1>7. InSection(t)' /\ l # "reader_unlock" BY DEF InSection, Labels
<1> HIDE DEF Follows
<1>8. QED BY StillSees, <1>6, <1>7 DEF PtrInv, PtrSet, Before, Follows

\* What the invariant says of a section that uses its pointers.
LEMMA UseFacts ==
  ASSUME LogInv, NEW t \in Threads, NEW B, Heap(B), PtrInv(B, t), pc[t] \in {"next", "visit", "lock", "cas", "write"},
         NEW pp, pp = ptr[t].p_prev, NEW pn, pn = ptr[t].p_next, NEW n, n = ptr[t].n
  PROVE  /\ pp # NULL /\ \A p \in {pp, pn, n} \ {NULL} : Good(B, t, p)
         /\ (pc[t] # "next" => pn # NULL) /\ (op[t] # "remove" => n = NULL) /\ raw[t] = NULL
         /\ pc[t] = "next" => Act(pp) = MinNode[Hash(key[t])]
         /\ pc[t] # "next" => /\ data[Act(pp)].val < key[t] /\ Home(data, Act(pp)) = Hash(key[t])
                              /\ SC(t, Act(pp)).p_next = Act(pn)
         /\ pc[t] \in {"lock", "cas", "write"} =>
              /\ op[t] \in {"add", "remove"} /\ LogOf(t)
              /\ op[t] = "add" => key[t] < data[Act(pn)].val
              /\ op[t] = "remove" => /\ n # NULL /\ key[t] = data[Act(pn)].val
                                     /\ SC(t, Act(pn)).p_next = Act(n)
<1>5. (op[t] # "remove" => n = NULL) /\ raw[t] = NULL BY DEF PtrInv, LogInv, InSection, Labels
<1>6. pc[t] # "next" => /\ data[Act(pp)].val < key[t] /\ Home(data, Act(pp)) = Hash(key[t])
                        /\ SC(t, Act(pp)).p_next = Act(pn)
  BY DEF PtrInv, Before, Follows
<1>7. pc[t] \in {"lock", "cas", "write"} =>
        /\ op[t] \in {"add", "remove"} /\ LogOf(t)
        /\ op[t] = "add" => key[t] < data[Act(pn)].val
        /\ op[t] = "remove" => key[t] = data[Act(pn)].val /\ SC(t, Act(pn)).p_next = Act(n)
  BY DEF PtrInv, Follows
<1>8. pc[t] = "next" => Act(pp) = MinNode[Hash(key[t])] BY DEF PtrInv
<1>9. QED
  BY PointerAssumption, <1>5, <1>6, <1>7, <1>8 DEF Safe, InSlot, Standing, PtrInv, PtrSet, LogInv,
     InSection, Labels

\* The head of the list is the first node.
LEMMA ObjOpenSection ==
  ASSUME Base, NEW t \in Threads, Apart(t), NEW B, ObjectInv(B), OpenSection(t)
  PROVE  ObjectInv(B)'
<1>1. TypeOK /\ Standing(t) /\ LogInv /\ Heap(B) BY DEF Base, LogInv, ObjectInv
<1>2. PICK r : r = MinNode[Hash(key[t])] OBVIOUS
<1>3. /\ HeapUntouched /\ UNCHANGED <<writer_version, set, delta, view, op, key, ptr, local_version>>
      /\ UNCHANGED <<ws_head_counter, ws_wb_counter, ws_tail_counter, written, is_write_detected>>
      /\ pc[t] = "commit" /\ pc'[t] = "deref" /\ into'[t] = "p_prev" /\ raw'[t] = r
  BY <1>1, <1>2 DEF OpenSection, ReadCommitVersion, StartDeref, HeapUntouched, objVars, clockVars, logVars,
              ringVars, syncVars, callVars, driverVars, historyVars, Goto, Base, ExtraTypes, TypeOK
<1>8. QED
  BY <1>3, <1>2, HashFacts, SentinelSeen, <1>1, StartPtr, WalkCalm DEF Labels, Standing, NoPtr,
     Sentinels, InSection

\* The first node behind the head.
LEMMA ObjFirstNext ==
  ASSUME Base, NEW t \in Threads, Apart(t), NEW B, ObjectInv(B), FirstNext(t)
  PROVE  ObjectInv(B)'
<1>1. TypeOK /\ LogInv /\ Heap(B) /\ PtrInv(B, t) /\ pc[t] = "next"
  BY DEF Base, LogInv, ObjectInv, FirstNext
<1> PICK pp : pp = ptr[t].p_prev OBVIOUS
<1> PICK pn : pn = ptr[t].p_next OBVIOUS
<1> PICK n : n = ptr[t].n OBVIOUS
<1>2. PICK r : r = Contents(pp).p_next OBVIOUS
<1>3. /\ HeapUntouched /\ UNCHANGED <<writer_version, set, delta, view, op, key, ptr, local_version>>
      /\ UNCHANGED <<ws_head_counter, ws_wb_counter, ws_tail_counter, written, is_write_detected>>
      /\ pc'[t] = "deref" /\ into'[t] = "p_next" /\ raw'[t] = r
  BY <1>1, <1>2 DEF FirstNext, StartDeref, HeapUntouched, objVars, clockVars, logVars, sectionVars,
              ringVars, syncVars, callVars, driverVars, historyVars, Goto, TypeOK
<1>4. pp # NULL /\ (\A p \in {pp, pn, n} \ {NULL} : Good(B, t, p)) /\ (op[t] # "remove" => n = NULL)
      /\ Act(pp) = MinNode[Hash(key[t])]
  BY <1>1, UseFacts
<1>5. PICK x : x = Act(pp) OBVIOUS
<1>10. r \in SV(B, t)
  BY <1>1, <1>4, <1>5, HashFacts, SentinelSeen, <1>2, SeenNext DEF Sentinels, InSection, Labels,
     Good
<1>11. PtrInv(B, t)'
  BY <1>3, <1>5, HashFacts, <1>1, SentinelSeen, HomeSentinel, <1>2, <1>4, <1>10, StartPtr
     DEF Sentinels, InSection, Labels, Good
<1>12. QED BY <1>1, <1>3, <1>11, WalkCalm DEF Labels

\* What is behind p_next.
LEMMA BehindNext ==
  ASSUME LogInv, NEW t \in Threads, NEW B, Heap(B), PtrInv(B, t), pc[t] \in {"visit", "lock", "cas", "write"},
         NEW x, x = Act(ptr[t].p_prev), NEW y, y = Act(ptr[t].p_next)
  PROVE  /\ x \in SV(B, t) \ MaxNodes /\ y \in SV(B, t) /\ Home(data, y) = Hash(key[t])
         /\ x \in Node /\ y \in Node /\ x \in allocated /\ y \in allocated
         /\ data[x].val < data[y].val /\ Value(t) = data[y].val /\ data[y].val \in Int
         /\ Contents(ptr[t].p_next) = SC(t, y) /\ SC(t, y).val = data[y].val
         /\ Contents(ptr[t].p_prev) = SC(t, x) /\ SC(t, x).p_next = y
         /\ \A z \in SV(B, t) : Home(data, z) = Hash(key[t]) =>
              data[z].val <= data[x].val \/ data[y].val <= data[z].val
         /\ data[y].val <= key[t] =>
              /\ y \notin MaxNodes /\ Successor(t) \in SV(B, t) /\ SC(t, y).p_next = Successor(t)
<1> PICK pp : pp = ptr[t].p_prev OBVIOUS
<1> PICK pn : pn = ptr[t].p_next OBVIOUS
<1> PICK n : n = ptr[t].n OBVIOUS
<1>1. /\ pp # NULL /\ pn # NULL /\ Good(B, t, pp) /\ Good(B, t, pn)
      /\ data[x].val < key[t] /\ Home(data, x) = Hash(key[t]) /\ SC(t, x).p_next = y BY UseFacts
<1>10. data[y].val <= key[t] => Successor(t) \in SV(B, t)
  BY GoodFacts, <1>1, HashFacts, SentinelSeen, SeenNext DEF Value, Successor, Sentinels, InSection,
     Labels
<1>11. QED
  BY <1>1, GoodFacts, HashFacts, SentinelSeen, SeenNext, <1>10 DEF Value, Successor, Sentinels,
     InSection, Labels

\* One node further.
LEMMA ObjAdvance ==
  ASSUME Base, NEW t \in Threads, Apart(t), NEW B, ObjectInv(B), Advance(t)
  PROVE  ObjectInv(B)'
<1>1. TypeOK /\ LogInv /\ Heap(B) /\ PtrInv(B, t) /\ pc[t] = "visit" /\ Value(t) < key[t]
  BY DEF Base, LogInv, ObjectInv, Advance
<1> PICK pp : pp = ptr[t].p_prev OBVIOUS
<1> PICK pn : pn = ptr[t].p_next OBVIOUS
<1> PICK n : n = ptr[t].n OBVIOUS
<1>2. PICK r : r = Successor(t) OBVIOUS
<1>3. /\ HeapUntouched /\ UNCHANGED <<writer_version, set, delta, view, op, key, local_version>>
      /\ UNCHANGED <<ws_head_counter, ws_wb_counter, ws_tail_counter, written, is_write_detected>>
      /\ pc'[t] = "deref" /\ into'[t] = "p_next" /\ raw'[t] = r
      /\ ptr' = [ptr EXCEPT ![t].p_prev = pn]
  BY <1>1, <1>2 DEF Advance, StartDeref, HeapUntouched, objVars, clockVars, logVars, sectionVars,
              ringVars, syncVars, callVars, driverVars, historyVars, Goto, TypeOK
<1>5. PICK y : y = Act(pn) OBVIOUS
<1>8. PtrInv(B, t)'
  <2>1. ptr'[t].p_prev = pn /\ ptr'[t].p_next = pn /\ ptr'[t].n = n BY <1>1, <1>3 DEF TypeOK
  <2>3. \A p \in {pn, pn, n} \ {NULL} : Good(B, t, p) BY <1>1, UseFacts
  <2>4. QED
    BY <1>3, <1>1, UseFacts, HashFacts, <1>2, <1>5, BehindNext, <2>1, <2>3, StartPtr DEF InSection,
       Labels
<1>9. QED BY <1>1, <1>3, <1>8, WalkCalm DEF Labels

\* The node behind the one that is to be removed.
LEMMA ObjRemoveHere ==
  ASSUME Base, NEW t \in Threads, Apart(t), NEW B, ObjectInv(B), RemoveHere(t)
  PROVE  ObjectInv(B)'
<1>1. TypeOK /\ LogInv /\ Heap(B) /\ PtrInv(B, t) /\ pc[t] = "visit" /\ Value(t) = key[t] /\ op[t] = "remove"
  BY DEF Base, LogInv, ObjectInv, RemoveHere
<1> PICK pp : pp = ptr[t].p_prev OBVIOUS
<1> PICK pn : pn = ptr[t].p_next OBVIOUS
<1> PICK n : n = ptr[t].n OBVIOUS
<1>2. PICK r : r = Successor(t) OBVIOUS
<1>3. /\ HeapUntouched /\ UNCHANGED <<writer_version, set, delta, view, op, key, ptr, local_version>>
      /\ UNCHANGED <<ws_head_counter, ws_wb_counter, ws_tail_counter, written, is_write_detected>>
      /\ pc'[t] = "deref" /\ into'[t] = "n" /\ raw'[t] = r
  BY <1>1, <1>2 DEF RemoveHere, StartDeref, HeapUntouched, objVars, clockVars, logVars, sectionVars,
              ringVars, syncVars, callVars, driverVars, historyVars, Goto, TypeOK
<1>5. PICK y : y = Act(pn) OBVIOUS
<1>9. QED BY <1>1, <1>3, <1>5, <1>2, BehindNext, UseFacts, StartPtr, WalkCalm DEF Labels

-----------------------------------------------------------------------------
(* Dereferencing *)

\* The section goes on to read the version of the owner.
LEMMA StealPtr ==
  ASSUME NEW t \in Threads, NEW B, HeapUntouched, writer_version' = writer_version,
         local_version'[t] = local_version[t], op'[t] = op[t], key'[t] = key[t],
         PtrInv(B, t), pc[t] = "deref", pc'[t] = "steal",
         NEW pp, NEW pn, NEW n, NEW r, NEW v, NEW q,
         pp = ptr[t].p_prev, pn = ptr[t].p_next, n = ptr[t].n, r = raw[t], v = into[t],
         into'[t] = v, raw'[t] = r, copy'[t] = q, ptr'[t] = ptr[t],
         p_obj_copy[r] # NULL /\ p_obj_copy[r][1] \in Sees(t) => p_obj_copy[r] = q,
         writer_version[q[1]] <= local_version[t] => Copy(q).data = SC(t, r)
  PROVE  PtrInv(B, t)'
<1>1. /\ SV(B, t)' = SV(B, t)
      /\ \A p : (Good(B, t, p)' <=> Good(B, t, p)) /\ Act(p)' = Act(p)
      /\ \A x : SC(t, x)' = SC(t, x)
      /\ \A x : Home(data, x)' = Home(data, x)
      /\ data' = data /\ p_obj_copy' = p_obj_copy
      /\ \A p : Copy(p)' = Copy(p)
  BY StillSees
<1>5. \A p : SC(t, Act(p))' = SC(t, Act(p)) /\ Home(data', Act(p)') = Home(data, Act(p)) BY <1>1
<1>8. v = "n" => Follows(t, pp, Act(pn))' /\ Follows(t, pn, r)' /\ data'[Act(pn)'].val = key[t]
  BY <1>1, <1>5 DEF Follows, PtrInv, PtrSet, InSection, Labels, Before
<1>9. InSection(t)' BY DEF InSection, Labels
<1>10. /\ p_obj_copy'[r] # NULL /\ p_obj_copy'[r][1] \in Sees(t)' => p_obj_copy'[r] = q
       /\ writer_version'[q[1]] <= local_version'[t] => Copy(q)'.data = SC(t, r)' BY <1>1 DEF Sees
<1> HIDE DEF Follows
<1>11. QED BY <1>1, <1>5, <1>8, <1>9, <1>10 DEF PtrInv, Before, PtrSet, Follows, InSection, Labels

\* The pointer is known.
LEMMA EndPtr ==
  ASSUME LogInv, CommitInv, NEW t \in Threads, NEW B, Heap(B), PtrInv(B, t), SlotInv(t),
         pc[t] \in {"deref", "steal"}, HeapUntouched, writer_version' = writer_version,
         local_version'[t] = local_version[t], op'[t] = op[t], key'[t] = key[t],
         ws_tail_counter' = ws_tail_counter,
         NEW p, p # NULL, Good(B, t, p), Act(p) = raw[t], EndDeref(t, p)
  PROVE  PtrInv(B, t)' /\ pc'[t] \in {"next", "visit", "lock"}
<1>1. TypeOK /\ Standing(t) /\ InSection(t) BY DEF LogInv, InSection, Labels
<1> PICK pp : pp = ptr[t].p_prev OBVIOUS
<1> PICK pn : pn = ptr[t].p_next OBVIOUS
<1> PICK n : n = ptr[t].n OBVIOUS
<1>2. /\ raw'[t] = NULL /\ into'[t] = "p_prev" /\ pc'[t] = Then(into[t])
      /\ into[t] \in {"p_prev", "p_next", "n"}
  BY <1>1 DEF EndDeref, Goto, TypeOK
<1>3. ptr[t] \in [p_prev : Pointers, p_next : Pointers, n : Pointers] BY <1>1 DEF TypeOK
<1>4. ptr'[t] = [ptr[t] EXCEPT ![into[t]] = p] BY <1>1 DEF EndDeref, TypeOK
<1>5. /\ \A z \in {pp, pn, n} \ {NULL} : Good(B, t, z)
      /\ op[t] # "remove" => n = NULL
      /\ into[t] = "p_prev" => raw[t] = MinNode[Hash(key[t])]
      /\ into[t] # "p_prev" => data[Act(pp)].val < key[t] /\ Home(data, Act(pp)) = Hash(key[t])
      /\ into[t] = "p_next" => SC(t, Act(pp)).p_next = raw[t]
      /\ into[t] = "n" => /\ op[t] = "remove" /\ SC(t, Act(pp)).p_next = Act(pn)
                          /\ data[Act(pn)].val = key[t] /\ SC(t, Act(pn)).p_next = raw[t]
  BY <1>1 DEF PtrInv, PtrSet, Before, Follows
<1>6. CASE into[t] = "p_prev" BY <1>2, <1>3, <1>4, <1>6, <1>5, HoldPtr DEF Then
<1>7. CASE into[t] = "p_next" BY <1>2, <1>3, <1>4, <1>7, <1>5, HoldPtr DEF Then
<1>8. CASE into[t] = "n"
  BY <1>2, <1>3, <1>4, <1>8, <1>5, EmptyLog, HoldPtr DEF Then, CommitInv, SyncLabels, CurrentSet,
     CurrentSlot, HeapUntouched, LogOf
<1>9. QED BY <1>2, <1>6, <1>7, <1>8

\* What leads to r: the copy that r is locked for, if the section sees it, or r.
LEMMA GoodPointer ==
  ASSUME LogInv, NEW t \in Threads, NEW B, NEW r \in Node, r \in SV(B, t), NEW p,
         \/ p = p_obj_copy[r] /\ p # NULL /\ p[1] \in Sees(t)
         \/ p \in Copies /\ Copy(p).actual = r /\ Copy(p).data = SC(t, r)
         \/ p = r /\ ~(p_obj_copy[r] # NULL /\ p_obj_copy[r][1] \in Sees(t))
  PROVE  p # NULL /\ Good(B, t, p) /\ Act(p) = r
<1>1. TypeOK /\ LocksAtHome /\ NULL \notin Node /\ Node \intersect Copies = {} /\ NULL \notin Copies
  BY PointerAssumption DEF LogInv
<1>2. CASE p = p_obj_copy[r] /\ p # NULL /\ p[1] \in Sees(t)
  BY <1>1, <1>2, PendFacts DEF SC, Vis, Act, FORCE_ACTUAL, Contents, Good
<1>3. CASE p \in Copies /\ Copy(p).actual = r /\ Copy(p).data = SC(t, r)
  BY <1>1, <1>3 DEF Act, FORCE_ACTUAL, Contents, Good
<1>4. CASE p = r /\ ~(p_obj_copy[r] # NULL /\ p_obj_copy[r][1] \in Sees(t))
  BY <1>4, <1>1 DEF SC, Vis, Act, FORCE_ACTUAL, Contents, Good
<1>5. QED BY <1>2, <1>3, <1>4

\* A thread that has deferred nothing and written nothing has no locks.
LEMMA NothingLocked ==
  ASSUME LogInv, NEW t \in Threads, ws_tail_counter[t] = ws_wb_counter[t], ~is_write_detected[t],
         NEW x \in Node, p_obj_copy[x] # NULL
  PROVE  p_obj_copy[x][1] # t
<1>1. PICK u \in Threads : \E c \in ws_wb_counter[u] .. ws_tail_counter[u] : LockedBy(x, u, c)
  BY DEF LogInv, LocksAtHome
<1>2. PICK c \in ws_wb_counter[u] .. ws_tail_counter[u] : LockedBy(x, u, c) BY <1>1
<1>6. QED BY <1>2 DEF LockedBy, LogInv, TypeOK

\* RLU_DEREF() without stealing, or up to it.
LEMMA ObjDeref ==
  ASSUME Base, NEW t \in Threads, Apart(t), NEW B, ObjectInv(B), Deref(t)
  PROVE  ObjectInv(B)'
<1>1. TypeOK /\ Standing(t) /\ LogInv /\ CommitInv /\ Heap(B) /\ PtrInv(B, t) /\ SlotInv(t) /\ pc[t] = "deref"
  BY DEF Base, LogInv, ObjectInv, Deref, Waits
<1>2. PICK r : r = raw[t] OBVIOUS
<1>3. /\ HeapUntouched /\ UNCHANGED <<writer_version, set, delta, view, op, key, local_version>>
      /\ UNCHANGED <<ws_head_counter, ws_wb_counter, ws_tail_counter, written, is_write_detected>>
  BY DEF Deref, HeapUntouched, objVars, clockVars, logVars, sectionVars, ringVars, syncVars, callVars,
         driverVars, historyVars
<1>4. r \in Node /\ r \in SV(B, t) /\ InSection(t)
  BY <1>1, <1>2 DEF Standing, PtrInv, InSection, Labels
<1>5. PICK k : k = p_obj_copy[r] OBVIOUS
<1>6. k # NULL => Pend[r] = Copy(k).data /\ k[1] \in Threads
  BY <1>1, <1>4, <1>5, PendFacts DEF LogInv
<1>7. CASE MustSteal(t, r)
  <2>2. copy'[t] = k /\ pc'[t] = "steal" /\ ptr'[t] = ptr[t] /\ raw'[t] = r /\ into'[t] = into[t]
    BY <1>1, <1>2, <1>5, <1>7 DEF TypeOK, Deref, Goto
  <2>5. QED
    BY <1>1, <1>3, <2>2, <1>2, <1>5, <1>7, <1>6, StealPtr, WalkCalm DEF Labels, MustSteal, Sees, SC,
       Vis
<1>8. CASE ~MustSteal(t, r)
  <2>2. PICK p : p = DerefOwn(t, r) OBVIOUS
  <2>4. p # NULL /\ Good(B, t, p) /\ Act(p) = r
    <3>1. CASE is_check_locks[t] /\ k # NULL /\ k[1] = t
      BY <1>5, <2>2, <3>1, <1>1, <1>4, GoodPointer DEF DerefOwn, ThreadOf, Sees
    <3>2. CASE ~(is_check_locks[t] /\ k # NULL /\ k[1] = t)
      <4>2. ASSUME k # NULL, k[1] \in Sees(t) PROVE FALSE
        <5>1. CASE k[1] = t
          BY <3>2, <4>2, <5>1, <1>1, <1>4, <1>5, NothingLocked DEF Skips, CommitInv
        <5>2. CASE k[1] # t
          <6>3. writer_version[k[1]] \in Nat /\ local_version[t] \in Nat
            BY <1>1, <1>6, <4>2 DEF TypeOK
          <6>5. QED
            BY <1>6, <1>1, <1>4, <1>5, <1>8, <6>3, <4>2, <5>2 DEF Sees, Skips, MustSteal, ThreadOf,
               CommitInv
        <5>3. QED BY <5>1, <5>2
      <4>4. QED BY <1>1, <1>4, <1>5, <2>2, <3>2, <4>2, GoodPointer DEF DerefOwn, ThreadOf
    <3>3. QED BY <3>1, <3>2
  <2>6. QED BY <1>1, <1>3, <1>2, <1>8, <2>2, <2>4, EndPtr, WalkCalm DEF Labels, Deref
<1>9. QED BY <1>7, <1>8

\* rlu_deref_slow_path() takes the copy or not.
LEMMA ObjSteal ==
  ASSUME Base, NEW t \in Threads, Apart(t), NEW B, ObjectInv(B), Steal(t)
  PROVE  ObjectInv(B)'
<1>1. TypeOK /\ Standing(t) /\ LogInv /\ CommitInv /\ Heap(B) /\ PtrInv(B, t) /\ SlotInv(t) /\ pc[t] = "steal"
  BY DEF Base, LogInv, ObjectInv, Steal, Waits
<1>2. PICK r : r = raw[t] OBVIOUS
<1>4. PICK c : c = copy[t] OBVIOUS
<1>6. PICK p : p = StealOrNot(local_version[t], r, c) OBVIOUS
<1>7. EndDeref(t, p) BY <1>2, <1>4, <1>6 DEF Steal
<1>8. p # NULL /\ Good(B, t, p) /\ Act(p) = r
  BY <1>6, <1>2, <1>4, <1>1, GoodPointer DEF StealOrNot, ThreadOf, Candidate, Sees, Standing, PtrInv
<1>9. PtrInv(B, t)' /\ pc'[t] \in {"next", "visit", "lock"}
  BY <1>1, <1>2, <1>7, <1>8, EndPtr DEF Steal, HeapUntouched, objVars, clockVars, logVars,
     sectionVars, ringVars, syncVars, callVars, driverVars, historyVars
<1>10. QED
  BY <1>1, <1>9, WalkCalm DEF Labels, Steal, HeapUntouched, objVars, clockVars, logVars,
     sectionVars, ringVars, syncVars, callVars, driverVars, historyVars

-----------------------------------------------------------------------------
(* Decisions, and the ends of sections *)

\* There is nothing to change.
LEMMA ObjAnswer ==
  ASSUME Base, NEW t \in Threads, Apart(t), NEW B, ObjectInv(B), Answer(t)
  PROVE  ObjectInv(B)'
<1>2. /\ HeapUntouched /\ UNCHANGED <<writer_version, set, delta, op, key, ptr, raw, local_version>>
      /\ UNCHANGED <<ws_head_counter, ws_wb_counter, ws_tail_counter, written, is_write_detected>>
      /\ pc'[t] = "reader_unlock" /\ view'[t] = NULL
  BY DEF Answer, HeapUntouched, objVars, clockVars, logVars, sectionVars, ringVars, syncVars,
     derefVars, driverVars, Goto, TypeOK, Base, ExtraTypes, LogInv, ObjectInv
<1>4. QED
  BY <1>2, StillSees, WalkCalm DEF Labels, PtrInv, InSection, PtrSet, Good, Base, LogInv, ObjectInv,
     Answer

\* The call gives up.
LEMMA ObjAbort ==
  ASSUME Base, NEW t \in Threads, Apart(t), NEW B, ObjectInv(B), Abort(t)
  PROVE  ObjectInv(B)'
<1>2. /\ HeapUntouched /\ UNCHANGED <<writer_version, set, delta, raw, local_version>>
      /\ UNCHANGED <<ws_head_counter, ws_wb_counter, ws_tail_counter, written, is_write_detected>>
      /\ pc'[t] = "unlock_objs" /\ view'[t] = NULL
  BY DEF Abort, Unregister, Forget, HeapUntouched, objVars, clockVars, logVars, ringVars, syncVars,
     driverVars, Goto, TypeOK, Base, ExtraTypes, LogInv, ObjectInv
<1>4. QED BY <1>2, NoPtrInv, WalkCalm DEF Labels, PtrInv, Base, LogInv, ObjectInv, Abort

\* The section ends; what it wrote is deferred.
LEMMA ObjUnlock ==
  ASSUME Base, NEW t \in Threads, Apart(t), NEW B, ObjectInv(B), Unlock(t), LogInv'
  PROVE  ObjectInv(B)'
<1>1. TypeOK /\ LogInv /\ PtrInv(B, t) /\ SlotInv(t) /\ Ring(t) /\ Clocks(t) /\ pc[t] = "reader_unlock"
      /\ TypeOK' /\ Ring(t)'
  BY DEF Base, LogInv, ObjectInv, Unlock
<1>2. /\ HeapUntouched /\ UNCHANGED <<writer_version, set, delta, view, raw, local_version>>
      /\ UNCHANGED <<ws_head_counter, ws_wb_counter, written>>
      /\ pc'[t] \in {"unlocked", "sync"} /\ is_write_detected'[t] = FALSE
      /\ ws_tail_counter'[t] = IF is_write_detected[t] THEN ws_tail_counter[t] + 1 ELSE ws_tail_counter[t]
  <2>1. CASE is_write_detected[t]
    BY <1>1, <2>1 DEF Unlock, ReaderUnlock, CommitWriteSet, CallSync, Forget, HeapUntouched, objVars, clockVars,
              ringVars, syncVars, historyVars, driverVars, Goto, TypeOK
  <2>2. CASE ~is_write_detected[t]
    BY <1>1, <2>2 DEF Unlock, ReaderUnlock, Forget, HeapUntouched, objVars, clockVars,
              ringVars, syncVars, historyVars, driverVars, Goto, TypeOK
  <2>3. QED BY <2>1, <2>2
<1>5. SlotInv(t)'
  <2>1. written[t] = 0 BY <1>1 DEF Clocks
  <2> PICK lo \in Nat : lo = ws_wb_counter[t] BY <1>1 DEF TypeOK
  <2> PICK hi \in Nat : hi = ws_tail_counter[t] BY <1>1 DEF TypeOK
  <2> PICK h \in Nat : h = ws_head_counter[t] BY <1>1 DEF TypeOK
  <2>4. CASE is_write_detected[t]
    <3>2. LogLocks(t, obj_write_set[t], p_obj_copy, lo, hi + 1)
      <4>1. \A c \in lo .. (hi + 1) - 1 : c \in lo .. hi - 1 \/ c = hi OBVIOUS
      <4>3. QED BY <1>1, <2>1, SlotSays, <4>1, <2>4, ZenonT(60) DEF LogLocks, SlotInv, CurrentSet, CurrentSlot
    <3>3. \A s \in Slots : ~InUse(t, s)' => ~InUse(t, s)
      BY <1>1, <2>4, <1>2 DEF InUse, CurrentSlot, Ring
    <3>6. written'[t] = 0 BY <1>2, <2>1
    <3>7. QED BY <1>1, <1>2, <3>3, <2>4, <3>2, <3>6, SlotNext DEF SlotInv, Ring, HeapUntouched
  <2>5. CASE ~is_write_detected[t]
    BY <1>2, <2>5, <1>1, SlotSays, <2>1, SlotNext DEF InUse, SlotInv, HeapUntouched
  <2>6. QED BY <2>4, <2>5
<1>8. QED
  BY <1>2, <1>1, NoPtrInv, <1>5, CalmStep DEF Base, PtrInv, Labels, ObjectInv, SetInv, InSection,
     VersionKept

\* What a thread that is about to lock has in its log.
LEMMA AboutToLock ==
  ASSUME LogInv, CommitInv, NEW t \in Threads, NEW B, Heap(B), PtrInv(B, t), SlotInv(t), ReadyToLock(t),
         NEW pp, pp = ptr[t].p_prev, NEW pn, pn = ptr[t].p_next, NEW n, n = ptr[t].n
  PROVE  /\ pc[t] \in {"visit", "lock"} /\ InSection(t) /\ op[t] \in {"add", "remove"}
         /\ op[t] = "add" => key[t] < data[Act(pn)].val
         /\ op[t] = "remove" => key[t] = data[Act(pn)].val /\ SC(t, Act(pn)).p_next = Act(n)
         /\ into[t] \in {"p_prev", "p_next"}
         /\ into[t] = "p_prev" => CurrentSet(t) = <<>>
         /\ into[t] = "p_next" => (Len(CurrentSet(t)) = 1 /\ pp = <<t, CurrentSlot(t), 1>>)
<1>2. CASE pc[t] = "lock" BY <1>2, UseFacts DEF Standing, LogOf, InSection, Labels, LogInv
<1>3. CASE pc[t] = "visit" /\ op[t] = "add" /\ Value(t) > key[t]
  BY <1>3, BehindNext, HashFacts, EmptyLog DEF Standing, InSection, Labels, CommitInv, SyncLabels,
     LogInv
<1>4. QED BY <1>2, <1>3 DEF ReadyToLock

\* A thread that is about to lock does not have the object locked in this section.
LEMMA NotLockedYet ==
  ASSUME LogInv, CommitInv, NEW t \in Threads, NEW B, Heap(B), PtrInv(B, t), SlotInv(t), ReadyToLock(t),
         ~LockedElsewhere(t, ToLock(t))
  PROVE  p_obj_copy[ToLock(t)] = NULL
<1>1. TypeOK /\ LocksAtHome BY DEF LogInv
<1>2. PICK x : x = ToLock(t) OBVIOUS
<1>3. PICK k : k = p_obj_copy[x] OBVIOUS
<1> PICK pp : pp = ptr[t].p_prev OBVIOUS
<1> PICK pn : pn = ptr[t].p_next OBVIOUS
<1>4. SUFFICES ASSUME k # NULL PROVE FALSE BY <1>2, <1>3
<1>5. k[1] = t /\ Copy(k).run_counter = run_counter[t]
  BY <1>2, <1>3, <1>4 DEF LockedElsewhere, ThreadOf
<1>6. /\ pc[t] \in {"visit", "lock"} /\ into[t] \in {"p_prev", "p_next"}
      /\ into[t] = "p_prev" => CurrentSet(t) = <<>>
      /\ into[t] = "p_next" => Len(CurrentSet(t)) = 1 /\ pp = <<t, CurrentSlot(t), 1>>
  BY AboutToLock
<1>7. PICK a : a = Act(pp) OBVIOUS
<1>8. PICK b : b = Act(pn) OBVIOUS
<1>11. PICK u \in Threads : \E c \in ws_wb_counter[u] .. ws_tail_counter[u] : LockedBy(x, u, c)
  BY <1>1, <1>3, <1>4, BehindNext, <1>2, <1>6, <1>7, <1>8 DEF LocksAtHome, ToLock, Act
<1>12. PICK c \in ws_wb_counter[u] .. ws_tail_counter[u] : LockedBy(x, u, c) BY <1>11
<1>13. u = t BY <1>3, <1>5, <1>12 DEF LockedBy
<1>14. c = ws_tail_counter[t] /\ InSlot(k, c) /\ Copy(k).actual = x
  BY <1>1, <1>5, <1>3, <1>12, <1>13 DEF TypeOK, LockedBy
<1>15. k \in Copies /\ k[2] = CurrentSlot(t) /\ k[3] \in DOMAIN CurrentSet(t)
  BY <1>5, <1>14 DEF InSlot, CurrentSlot, CurrentSet
<1>16. into[t] = "p_next" BY <1>15, <1>6
<1>17. k[3] = 1
  <2>1. CurrentSet(t) \in Seq(CopyRecord)
    <3>1. CurrentSlot(t) \in Slots BY <1>1, RingFacts DEF LogInv
    <3>2. QED BY <1>1, <3>1 DEF CurrentSet, TypeOK
  <2>4. QED BY <1>15, <2>1, <1>6, <1>16
<1>20. QED
  BY BehindNext, <1>2, <1>6, <1>7, <1>8, <1>16, <1>15, PointerAssumption, <1>14, <1>5, <1>17
     DEF ToLock, Act, FORCE_ACTUAL, Copies

-----------------------------------------------------------------------------
(* Locking *)

\* A section that has written nothing begins to write.
LEMMA DetectSlot ==
  ASSUME LogInv, LogInv', NEW t \in Threads, SlotInv(t), ~is_write_detected[t], HeapUntouched,
         pc[t] \notin SyncLabels,
         UNCHANGED <<ws_head_counter, ws_wb_counter, ws_tail_counter, written>>
  PROVE  SlotInv(t)'
<1>6. \A s \in Slots : ~InUse(t, s)' => obj_write_set'[t][s] = <<>>
  BY DEF InUse, SlotInv, HeapUntouched
<1>7. QED
  BY SlotSays, EmptyLog, <1>6, SlotNext DEF Clocks, SyncLabels, LogInv, HeapUntouched, CurrentSet,
     CurrentSlot

\* The header is taken, or free.
LEMMA ObjTryLock ==
  ASSUME Base, NEW t \in Threads, Apart(t), NEW B, ObjectInv(B), TryLock(t), LogInv'
  PROVE  ObjectInv(B)'
<1>1. TypeOK /\ LogInv /\ Heap(B) /\ PtrInv(B, t) /\ SlotInv(t) /\ CommitInv /\ ReadyToLock(t)
  BY DEF Base, LogInv, ObjectInv, TryLock, Waits
<1> PICK pp : pp = ptr[t].p_prev OBVIOUS
<1> PICK pn : pn = ptr[t].p_next OBVIOUS
<1> PICK n : n = ptr[t].n OBVIOUS
<1>5. \/ pc'[t] = "abort" /\ is_write_detected'[t] = is_write_detected[t]
      \/ pc'[t] = "cas" /\ is_write_detected'[t] = TRUE
  BY <1>1, NotLockedYet DEF Goto, DetectWrite, TypeOK, TryLock
<1>6. /\ HeapUntouched /\ UNCHANGED <<writer_version, set, delta, view, op, key, local_version>>
      /\ UNCHANGED <<ws_head_counter, ws_wb_counter, ws_tail_counter, written>>
      /\ UNCHANGED <<ptr, into, raw>>
  BY <1>1, NotLockedYet DEF TryLock, HeapUntouched, objVars, clockVars, ringVars, syncVars,
     callVars, driverVars, derefVars, historyVars
<1>8. PtrInv(B, t)'
  BY <1>1, UseFacts, <1>6, <1>5, AboutToLock, HoldPtr DEF HeapUntouched, CurrentSet, CurrentSlot,
     LogOf
<1>11. local_version'[t] = local_version[t] /\ view'[t] = view[t] BY <1>6
<1>12. QED
  BY <1>6, <1>8, AboutToLock, <1>1, DetectSlot, <1>5, <1>11, WalkCalm DEF SyncLabels, Labels

\* The log after an object was locked, entry by entry.
LEMMA AppendEntries ==
  ASSUME TypeOK, NEW t \in Threads, NEW x \in Node, NEW s \in Slots, s = CurrentSlot(t),
         NEW p, p = NewCopy(t), NEW j \in Nat, j = Len(CurrentSet(t)),
         LockObj(t, x), ws_tail_counter' = ws_tail_counter
  PROVE  /\ CurrentSlot(t)' = s /\ p = <<t, s, j + 1>> /\ p \in Copies
         /\ CurrentSet(t) = obj_write_set[t][s] /\ CurrentSet(t)' = obj_write_set'[t][s]
         /\ DOMAIN obj_write_set[t][s] = 1 .. j
         /\ DOMAIN obj_write_set'[t][s] = 1 .. j + 1 /\ Len(obj_write_set'[t][s]) = j + 1
         /\ \A i \in 1 .. j : obj_write_set'[t][s][i] = obj_write_set[t][s][i]
         /\ obj_write_set'[t][s][j + 1] = [actual |-> x, data |-> data[x], run_counter |-> run_counter[t]]
         /\ \A z \in Slots \ {s} : obj_write_set'[t][z] = obj_write_set[t][z]
         /\ \A q \in Copies : q[3] \in DOMAIN obj_write_set[q[1]][q[2]] => Copy(q)' = Copy(q)
<1> PICK r : r = [actual |-> x, data |-> data[x], run_counter |-> run_counter[t]] OBVIOUS
<1> PICK S \in Seq(CopyRecord) : S = obj_write_set[t][s] BY DEF TypeOK
<1>1. CurrentSet(t) = S /\ Len(S) = j /\ DOMAIN S = 1 .. j BY DEF CurrentSet
<1>5. /\ obj_write_set'[t][s] = Append(S, r)
      /\ \A z \in Slots \ {s} : obj_write_set'[t][z] = obj_write_set[t][z]
      /\ \A u \in Threads \ {t} : obj_write_set'[u] = obj_write_set[u] BY DEF TypeOK, LockObj
<1>6. /\ Append(S, r) \in Seq(CopyRecord) /\ Len(Append(S, r)) = j + 1
      /\ \A i \in 1 .. j : Append(S, r)[i] = S[i]
      /\ Append(S, r)[j + 1] = r BY <1>1 DEF TypeOK, CopyRecord
<1>9. ASSUME NEW q \in Copies, q[3] \in DOMAIN obj_write_set[q[1]][q[2]]
      PROVE  Copy(q)' = Copy(q) BY <1>1, <1>9, <1>5, <1>6 DEF Copies, Copy
<1>11. /\ DOMAIN obj_write_set'[t][s] = 1 .. j + 1 /\ Len(obj_write_set'[t][s]) = j + 1
       /\ \A i \in 1 .. j : obj_write_set'[t][s][i] = obj_write_set[t][s][i]
       /\ obj_write_set'[t][s][j + 1] = r BY <1>5, <1>6
<1>12. QED BY <1>1, <1>5, <1>9, <1>11 DEF CurrentSlot, CurrentSet, NewCopy, Copies

\* A lock points to a copy that is there.
LEMMA LockIsThere ==
  ASSUME TypeOK, LocksAtHome, NEW y \in Node, p_obj_copy[y] # NULL
  PROVE  /\ p_obj_copy[y] \in Copies
         /\ p_obj_copy[y][3] \in DOMAIN obj_write_set[p_obj_copy[y][1]][p_obj_copy[y][2]]
<1>2. PICK c : InSlot(p_obj_copy[y], c) BY LockFacts DEF LockedBy
<1>3. QED BY LockFacts, <1>2 DEF InSlot

\* The heap is the same but for the new lock.
LEMMA LockHeap ==
  ASSUME TypeOK, LocksAtHome, NEW B, Heap(B), NEW t \in Threads, NEW x \in Node, x \in SV(B, t),
         p_obj_copy[x] = NULL, CurrentSlot(t) \in Slots, NEW p, p = NewCopy(t),
         LockObj(t, x), UNCHANGED <<data, allocated, free_nodes, ws_tail_counter>>
  PROVE  /\ Pend' = Pend /\ Heap(B)' /\ \A W \in SUBSET Threads : KeptFor(B, B, W, W)
         /\ p \in Copies /\ p_obj_copy'[x] = p /\ \A y \in Node \ {x} : p_obj_copy'[y] = p_obj_copy[y]
         /\ p[1] = t /\ Copy(p)'.actual = x /\ Copy(p)'.data = data[x] /\ p \notin Node /\ p # NULL
<1> PICK s \in Slots : s = CurrentSlot(t) OBVIOUS
<1> PICK j \in Nat : j = Len(CurrentSet(t)) BY DEF CurrentSet, TypeOK
<1>1. /\ p = <<t, s, j + 1>> /\ p \in Copies
      /\ DOMAIN obj_write_set[t][s] = 1 .. j
      /\ obj_write_set'[t][s][j + 1] = [actual |-> x, data |-> data[x], run_counter |-> run_counter[t]]
      /\ \A q \in Copies : q[3] \in DOMAIN obj_write_set[q[1]][q[2]] => Copy(q)' = Copy(q)
  BY AppendEntries
<1>2. p[1] = t /\ Copy(p)'.actual = x /\ Copy(p)'.data = data[x] /\ p \notin Node /\ p # NULL
  BY <1>1, PointerAssumption DEF Copy
<1>5. /\ p_obj_copy'[x] = p /\ \A y \in Node \ {x} : p_obj_copy'[y] = p_obj_copy[y]
      /\ p_obj_copy' \in [Node -> Copies \union {NULL}] BY <1>1 DEF TypeOK, LockObj
<1>7. Pend' = Pend
  <2>1. \A y \in Node \ {x} : Pend'[y] = Pend[y] BY <1>5, <1>1, LockIsThere DEF Pend, Copy
  <2>2. Pend'[x] = Pend[x] BY <1>2, <1>5 DEF Pend, Copy
  <2>3. QED BY <2>1, <2>2 DEF Pend
<1>10. PICK l : l = p_obj_copy' OBVIOUS
<1>11. /\ IsHeap(B, data, l, Pend, allocated, free_nodes)
       /\ \A W \in SUBSET Threads :
            Kept(B, data, p_obj_copy, Pend, free_nodes, W, B, data, l, Pend, free_nodes, W)
  <2> PICK k : k = p_obj_copy OBVIOUS
  <2> PICK d : d = data OBVIOUS
  <2> PICK c : c = Pend OBVIOUS
  <2> PICK a : a = allocated OBVIOUS
  <2> PICK f : f = free_nodes OBVIOUS
  <2>2. IsHeap(B, d, k, c, a, f) BY DEF Heap
  <2>3. /\ x \in a /\ k[x] = NULL /\ p \in Copies /\ \A y \in Node : k[y] # p
        /\ x \in B \/ \A u \in Threads : x \notin f[u]
    BY <1>1, <1>2, LockIsThere, FreshFacts, SeenFacts DEF SV, Sight, View, Heap
  <2>5. QED BY <1>5, <1>10, <2>2, <2>3, HeapLock, x \in Node, p \in Copies
<1>14. QED BY <1>1, <1>2, <1>5, <1>7, <1>10, <1>11 DEF Heap, KeptFor

\* What the others see of a thread that is not synchronizing: nothing.
LEMMA UnseenKept ==
  ASSUME LogInv, ClockInRange, NEW t \in Threads, Apart(t), NEW B, NEW u \in Threads \ {t},
         pc[t] \notin {"advance", "quiesce", "writeback"}, writer_version' = writer_version,
         \A W \in SUBSET Threads : t \notin W => KeptFor(B, B, W, W), CopiesKept(t, u),
         \A y \in Node : p_obj_copy'[y] # NULL /\ p_obj_copy'[y][1] # t => p_obj_copy'[y] = p_obj_copy[y]
  PROVE  SightKept(t, u, B, B) /\ SeesNext(u) = Sees(u) /\ t \notin Sees(u)
<1>7. QED BY Synchronizes DEF SightKept, SeesNext, Sees, Apart, SameOthers, SameThread

\* What t itself sees stays when the heap does.
LEMMA OwnKept ==
  ASSUME TypeOK, NEW t \in Threads, NEW B, NEW C, NEW V, V = Sees(t), KeptFor(B, C, V, V),
         writer_version' = writer_version, local_version'[t] = local_version[t]
  PROVE  /\ Sees(t)' = Sees(t) /\ SV(C, t)' = SV(B, t) /\ Vals(C, Sees(t))' = Vals(B, Sees(t))
         /\ \A x \in SV(B, t) : SC(t, x)' = SC(t, x) /\ data'[x].val = data[x].val
                                /\ Home(data, x)' = Home(data, x)
<1>6. Vals(C, Sees(t))' = Vals(B, Sees(t)) BY KeptValues DEF Vals, KeptFor, Sees
<1>8. QED BY <1>6 DEF Home, SV, Sight, KeptFor, Kept, SC, Sees

\* A good pointer to a copy that stays is still good.
LEMMA GoodStays ==
  ASSUME TypeOK, NEW t \in Threads, NEW B, data' = data, NEW p, Safe(t, p), Good(B, t, p),
         \A q \in Copies : q[3] \in DOMAIN obj_write_set[q[1]][q[2]] => Copy(q)' = Copy(q),
         SV(B, t)' = SV(B, t), \A x \in SV(B, t) : SC(t, x)' = SC(t, x)
  PROVE  Good(B, t, p)' /\ Act(p)' = Act(p)
<1>3. QED BY DEF Good, Act, FORCE_ACTUAL, Contents, Safe, InSlot

\* The section holds its own copy of one of the neighbours.
LEMMA LockedPtr ==
  ASSUME LogInv, NEW t \in Threads, NEW B, Heap(B), PtrInv(B, t), pc[t] = "cas",
         op'[t] = op[t], key'[t] = key[t], data' = data,
         SV(B, t)' = SV(B, t), \A x \in SV(B, t) : SC(t, x)' = SC(t, x),
         \A x \in Node : Home(data, x)' = Home(data, x),
         \A q \in Copies : q[3] \in DOMAIN obj_write_set[q[1]][q[2]] => Copy(q)' = Copy(q),
         NEW x \in Node, x = ToLock(t), NEW p \in Copies, Locked(t, p),
         Act(p)' = x, Good(B, t, p)', LogOf(t)'
  PROVE  PtrInv(B, t)'
<1> PICK pp : pp = ptr[t].p_prev OBVIOUS
<1> PICK pn : pn = ptr[t].p_next OBVIOUS
<1> PICK n : n = ptr[t].n OBVIOUS
<1>1. /\ pp # NULL /\ pn # NULL /\ \A q \in {pp, pn, n} \ {NULL} : Good(B, t, q)
      /\ (op[t] # "remove" => n = NULL) /\ raw[t] = NULL
      /\ data[Act(pp)].val < key[t] /\ Home(data, Act(pp)) = Hash(key[t])
      /\ SC(t, Act(pp)).p_next = Act(pn) /\ op[t] \in {"add", "remove"}
      /\ op[t] = "add" => key[t] < data[Act(pn)].val
      /\ op[t] = "remove" => n # NULL /\ key[t] = data[Act(pn)].val /\ SC(t, Act(pn)).p_next = Act(n)
  BY UseFacts
<1>2. TypeOK /\ into[t] \in {"p_prev", "p_next"} BY ReadyFacts DEF LogInv
<1>3. \A q \in {pp, pn, n} \ {NULL} : Good(B, t, q)' /\ Act(q)' = Act(q) /\ Act(q) \in SV(B, t)
                                      /\ Act(q) \in Node
  BY PointersSafe, <1>1, <1>2, GoodStays, GoodFacts DEF PtrSet
<1> PICK a : a = Act(pp) OBVIOUS
<1> PICK b : b = Act(pn) OBVIOUS
<1>5. /\ data'[a].val < key'[t] /\ Home(data, a)' = Hash(key'[t]) /\ SC(t, a)'.p_next = b
      /\ op'[t] = "add" => key'[t] < data'[b].val
      /\ op'[t] = "remove" => key'[t] = data'[b].val /\ SC(t, b)'.p_next = Act(n)' BY <1>1, <1>3
<1>6. /\ pc'[t] = (IF into[t] = "p_prev" THEN "lock" ELSE "write") /\ into'[t] = "p_next"
      /\ ptr'[t] = [ptr[t] EXCEPT ![into[t]] = p] /\ raw'[t] = NULL
  BY <1>1, <1>2, LockedTypes DEF Locked
<1>7. /\ ptr'[t].n = n
      /\ into[t] = "p_prev" => ptr'[t].p_prev = p /\ ptr'[t].p_next = pn
      /\ into[t] = "p_next" => ptr'[t].p_prev = pp /\ ptr'[t].p_next = p
  BY <1>2, <1>6 DEF TypeOK
<1> PICK np : np = ptr'[t].p_prev OBVIOUS
<1> PICK nn : nn = ptr'[t].p_next OBVIOUS
<1>9. Act(np)' = a /\ Act(nn)' = b BY <1>2, <1>1, <1>3, <1>7 DEF ToLock, Act
<1>15. /\ op'[t] = "add" => key'[t] < data'[Act(nn)'].val
       /\ op'[t] = "remove" => key'[t] = data'[Act(nn)'].val
  BY <1>5, <1>9
<1>16. InSection(t)' /\ (op'[t] # "remove" => ptr'[t].n = NULL) /\ op'[t] \in {"add", "remove"}
  BY <1>1, <1>7, <1>6 DEF InSection, Labels
<1> HIDE DEF Follows
<1>17. QED BY <1>6, <1>7, <1>2, <1>3, <1>5, <1>9, <1>15, <1>16 DEF PtrInv, Before, PtrSet, Follows

\* The write set of t after an object was locked.
LEMMA LockSlot ==
  ASSUME LogInv, LogInv', NEW t \in Threads, SlotInv(t), pc[t] = "cas", pc'[t] # "reader_unlock",
         NEW x \in Node, p_obj_copy[x] = NULL, LockObj(t, x), is_write_detected' = is_write_detected,
         UNCHANGED <<data, ws_head_counter, ws_wb_counter, ws_tail_counter, written>>
  PROVE  SlotInv(t)'
<1>1. TypeOK /\ Ring(t) /\ TypeOK' /\ Ring(t)' /\ Clocks(t) /\ Standing(t) BY DEF LogInv
<1>2. written[t] = 0 /\ written'[t] = 0 /\ is_write_detected[t] /\ pc[t] \notin SyncLabels
  BY <1>1 DEF Clocks, Standing, SyncLabels
<1> PICK s \in Slots : s = CurrentSlot(t) BY <1>1, RingFacts
<1>3. CurrentSet(t) \in Seq(CopyRecord) BY <1>1 DEF CurrentSet, TypeOK
<1> PICK j \in Nat : j = Len(CurrentSet(t)) BY <1>3
<1> PICK p : p = NewCopy(t) OBVIOUS
<1>4. /\ CurrentSlot(t)' = s /\ p = <<t, s, j + 1>>
      /\ CurrentSet(t) = obj_write_set[t][s] /\ CurrentSet(t)' = obj_write_set'[t][s]
      /\ DOMAIN obj_write_set[t][s] = 1 .. j
      /\ DOMAIN obj_write_set'[t][s] = 1 .. j + 1
      /\ \A i \in 1 .. j : obj_write_set'[t][s][i] = obj_write_set[t][s][i]
      /\ obj_write_set'[t][s][j + 1] = [actual |-> x, data |-> data[x], run_counter |-> run_counter[t]]
      /\ \A z \in Slots \ {s} : obj_write_set'[t][z] = obj_write_set[t][z]
  BY <1>1, AppendEntries
<1>5. p_obj_copy'[x] = p /\ \A y \in Node \ {x} : p_obj_copy'[y] = p_obj_copy[y]
  BY <1>1 DEF LockObj, TypeOK
<1>6. \A z \in Slots : \A i \in DOMAIN obj_write_set[t][z] : obj_write_set[t][z][i].actual \in Node
  <2>1. SUFFICES ASSUME NEW z \in Slots, NEW i \in DOMAIN obj_write_set[t][z]
                 PROVE  obj_write_set[t][z][i].actual \in Node
    OBVIOUS
  <2>2. obj_write_set[t][z] \in Seq(CopyRecord) BY <1>1 DEF TypeOK
  <2>3. obj_write_set[t][z][i] \in CopyRecord BY <2>2
  <2>4. QED BY <2>3 DEF CopyRecord
<1> PICK lo \in Nat : lo = ws_wb_counter[t] BY <1>1 DEF TypeOK
<1> PICK hi \in Nat : hi = ws_tail_counter[t] BY <1>1 DEF TypeOK
<1>8. \A c \in lo .. hi - 1 : WS_INDEX(c) \in Slots \ {s}
  <2>1. SUFFICES ASSUME NEW c \in lo .. hi - 1 PROVE WS_INDEX(c) \in Slots \ {s} OBVIOUS
  <2> PICK h \in Nat : h = ws_head_counter[t] BY <1>1 DEF TypeOK
  <2>3. WS_INDEX(c) \in Slots /\ WS_INDEX(c) # WS_INDEX(hi) BY <1>1, <1>2, RingFacts DEF Ring
  <2>4. QED BY <2>3 DEF CurrentSlot
<1>9. LogLocks(t, obj_write_set'[t], p_obj_copy', lo, hi)
  <2>1. SUFFICES ASSUME NEW c \in lo .. hi - 1, NEW i \in DOMAIN obj_write_set'[t][WS_INDEX(c)]
                 PROVE  p_obj_copy'[obj_write_set'[t][WS_INDEX(c)][i].actual] = <<t, WS_INDEX(c), i>>
    BY DEF LogLocks
  <2>2. PICK z \in Slots \ {s} : z = WS_INDEX(c) BY <1>8
  <2>4. obj_write_set[t][z] \in Seq(CopyRecord) /\ i \in DOMAIN obj_write_set[t][z]
    BY <1>1, <2>1, <2>2, <1>4 DEF TypeOK
  <2>6. p_obj_copy[obj_write_set[t][z][i].actual] = <<t, z, i>>
    BY <1>1, <1>2, SlotSays, <2>2, <2>4 DEF LogLocks
  <2>7. <<t, z, i>> # NULL BY <2>4, PointerAssumption DEF Copies
  <2>9. QED BY <1>5, <2>2, <1>4, <1>6, <2>4, <2>6, <2>7
<1>10. ASSUME NEW i \in DOMAIN CurrentSet(t)'
       PROVE  /\ (p_obj_copy[CurrentSet(t)[i].actual] = <<t, CurrentSlot(t), i>>)'
              /\ (CurrentSet(t)[i].data = data[CurrentSet(t)[i].actual])'
  <2>1. i \in 1 .. j + 1 BY <1>4, <1>10
  <2>2. CASE i = j + 1
    <3>1. obj_write_set'[t][s][i].actual = x /\ obj_write_set'[t][s][i].data = data[x]
      <4>1. PICK e : e = obj_write_set'[t][s][i] OBVIOUS
      <4>4. QED BY ONLY <4>1, <1>4, <2>2
    <3>3. QED BY <1>4, <3>1, <1>5, <2>2
  <2>3. CASE i # j + 1
    <3>1. i \in 1 .. j BY <2>1, <2>3
    <3>4. /\ p_obj_copy[obj_write_set[t][s][i].actual] = <<t, s, i>>
          /\ obj_write_set[t][s][i].data = data[obj_write_set[t][s][i].actual]
      BY <1>2, <1>4, <3>1, ZenonT(60) DEF SlotInv
    <3>5. <<t, s, i>> # NULL BY <3>1, PointerAssumption DEF Copies
    <3>7. p_obj_copy'[obj_write_set[t][s][i].actual] = <<t, s, i>>
      BY <1>5, <1>4, <1>6, <3>1, <3>4, <3>5
    <3>8. QED BY <1>4, <3>1, <3>4, <3>7
  <2>4. QED BY <2>2, <2>3
<1>11. \A z \in Slots : ~InUse(t, z)' => obj_write_set'[t][z] = <<>>
  BY <1>2, <1>4 DEF InUse, SlotInv
<1>13. QED BY <1>1, <1>2, <1>10, <1>11, <1>9, SlotNext

\* The header is taken after all.
LEMMA CasFails ==
  ASSUME Base, NEW t \in Threads, Apart(t), NEW B, ObjectInv(B), CompareAndSwap(t),
         p_obj_copy[ToLock(t)] # NULL
  PROVE  ObjectInv(B)'
<1> PICK pp : pp = ptr[t].p_prev OBVIOUS
<1> PICK pn : pn = ptr[t].p_next OBVIOUS
<1> PICK n : n = ptr[t].n OBVIOUS
<1>3. /\ HeapUntouched /\ UNCHANGED <<writer_version, set, delta, view, op, key, local_version>>
      /\ UNCHANGED <<ws_head_counter, ws_wb_counter, ws_tail_counter, written, is_write_detected>>
      /\ UNCHANGED <<ptr, into, raw>> /\ pc'[t] = "abort"
  BY DEF CompareAndSwap, HeapUntouched, objVars, clockVars, sectionVars, ringVars, syncVars,
     callVars, driverVars, derefVars, historyVars, Goto, TypeOK, Base, LogInv, ObjectInv
<1>5. QED BY <1>3, UseFacts, HoldPtr, WalkCalm DEF Labels, Base, LogInv, ObjectInv, CompareAndSwap

\* The object is locked: everybody sees what it saw.
LEMMA CasSucceeds ==
  ASSUME Base, NEW t \in Threads, Apart(t), NEW B, ObjectInv(B), CompareAndSwap(t), LogInv',
         p_obj_copy[ToLock(t)] = NULL
  PROVE  ObjectInv(B)'
<1>1. /\ TypeOK /\ LogInv /\ Heap(B) /\ PtrInv(B, t) /\ SlotInv(t) /\ SetInv(B) /\ LocksAtHome
      /\ Ring(t) /\ Standing(t) /\ pc[t] = "cas" /\ ClockInRange /\ OneAdvances
  BY DEF Base, LogInv, ObjectInv, CompareAndSwap
<1> PICK p : p = NewCopy(t) OBVIOUS
<1> PICK s \in Slots : s = CurrentSlot(t) BY <1>1, RingFacts
<1> PICK j \in Nat : j = Len(CurrentSet(t)) BY <1>1 DEF CurrentSet, TypeOK
<1> PICK a : a = Act(ptr[t].p_prev) OBVIOUS
<1> PICK b : b = Act(ptr[t].p_next) OBVIOUS
<1>4. into[t] \in {"p_prev", "p_next"} BY <1>1, ReadyFacts
<1> PICK x \in Node : x = ToLock(t) /\ x \in SV(B, t) BY <1>1, BehindNext, <1>4 DEF ToLock, Act
<1>5. LockObj(t, x) /\ Locked(t, p) BY <1>1 DEF CompareAndSwap
<1>6. /\ UNCHANGED <<data, allocated, free_nodes, writer_version, local_version, run_counter, set, delta, view, op, key>>
      /\ UNCHANGED <<ws_head_counter, ws_wb_counter, ws_tail_counter, written, is_write_detected>>
  BY DEF CompareAndSwap, clockVars, sectionVars, ringVars, syncVars, callVars, driverVars, historyVars
<1>7. /\ Pend' = Pend /\ Heap(B)' /\ \A W \in SUBSET Threads : KeptFor(B, B, W, W)
      /\ p \in Copies /\ p_obj_copy'[x] = p /\ \A y \in Node \ {x} : p_obj_copy'[y] = p_obj_copy[y]
      /\ p[1] = t /\ Copy(p)'.actual = x /\ Copy(p)'.data = data[x] /\ p \notin Node /\ p # NULL
  BY <1>1, <1>5, <1>6, LockHeap
<1>8. /\ p = <<t, s, j + 1>> /\ CurrentSlot(t)' = s
      /\ CurrentSet(t)' = obj_write_set'[t][s] /\ Len(obj_write_set'[t][s]) = j + 1
      /\ \A q \in Copies : q[3] \in DOMAIN obj_write_set[q[1]][q[2]] => Copy(q)' = Copy(q)
  <2>1. TypeOK /\ LockObj(t, x) /\ ws_tail_counter' = ws_tail_counter /\ s = CurrentSlot(t)
        /\ p = NewCopy(t) /\ j = Len(CurrentSet(t))
    BY <1>1, <1>5, <1>6
  <2>3. p = <<t, s, j + 1>> /\ CurrentSlot(t)' = s
    BY ONLY <2>1, AppendEntries, s \in Slots, j \in Nat, x \in Node, t \in Threads
  <2>4. CurrentSet(t)' = obj_write_set'[t][s] /\ Len(obj_write_set'[t][s]) = j + 1
    BY ONLY <2>1, AppendEntries, s \in Slots, j \in Nat, x \in Node, t \in Threads, ZenonT(60)
  <2>5. QED BY <2>1, AppendEntries, s \in Slots, j \in Nat, x \in Node, t \in Threads, <2>3, <2>4
<1>9. pc'[t] \in {"lock", "write"} /\ pc'[t] = (IF into[t] = "p_prev" THEN "lock" ELSE "write")
      /\ into'[t] = "p_next" /\ ptr'[t] = [ptr[t] EXCEPT ![into[t]] = p]
  BY <1>1, <1>4, <1>5, <1>7, LockedTypes
<1>10. ASSUME NEW u \in Threads \ {t}
       PROVE  (InSection(u) => SightKept(t, u, B, B)) /\ OwnedKept(u) /\ SeesNext(u) = Sees(u)
  <2>2. \A y \in Node : p_obj_copy'[y] # NULL /\ p_obj_copy'[y][1] # t => p_obj_copy'[y] = p_obj_copy[y]
    BY <1>7
  <2>3. SightKept(t, u, B, B) /\ SeesNext(u) = Sees(u)
    BY <1>1, <1>6, <1>7, <1>8, <2>2, UnseenKept DEF CopiesKept, InSlot
  <2>5. QED BY <2>3, <1>6, <1>7 DEF OwnedKept
<1>11. /\ Sees(t)' = Sees(t) /\ SV(B, t)' = SV(B, t) /\ Vals(B, Sees(t))' = Vals(B, Sees(t))
       /\ \A y \in SV(B, t) : SC(t, y)' = SC(t, y)
  <2> PICK V : V = Sees(t) OBVIOUS
  <2>1. KeptFor(B, B, V, V) BY <1>7 DEF Sees
  <2>3. QED BY <1>1, <1>6, <2>1, OwnKept
<1>12. SetInv(B)'
  <2>7. QED
    BY <1>1, <1>6, <1>7, <1>11, <1>9, <1>10, SetKept DEF InSection, Labels, Published, Writing,
       Apart, SameOthers, SameThread, SetInv, SightKept
<1>14. PtrInv(B, t)'
  <2>3. LogOf(t)'
    <3>1. LogOf(t) BY <1>1, UseFacts
    <3>2. CASE into[t] = "p_prev" BY <1>1, <3>1, <3>2, <1>8, <1>9 DEF LogOf, TypeOK
    <3>3. CASE into[t] = "p_next"
      <4>1. j = 1 /\ ptr[t].p_prev = <<t, s, 1>> BY <1>1, <3>1, <3>3 DEF LogOf
      <4>4. QED BY <1>8, <1>9, <3>3, <4>1, <1>1 DEF LogOf, TypeOK
    <3>4. QED BY <1>4, <3>2, <3>3
  <2>6. QED
    BY <1>1, <1>5, <1>7, <1>8, <1>11, <2>3, <1>6, LockedPtr DEF Act, FORCE_ACTUAL, SC, Vis,
       Contents, Good, Home
<1>15. QED BY <1>1, <1>7, <1>10, <1>12, <1>9, <1>5, <1>6, LockSlot, <1>14, ObjectAssembly

\* The compare-and-swap.
LEMMA ObjCompareAndSwap ==
  ASSUME Base, NEW t \in Threads, Apart(t), NEW B, ObjectInv(B), CompareAndSwap(t), LogInv'
  PROVE  ObjectInv(B)'
BY CasFails, CasSucceeds

-----------------------------------------------------------------------------
(* Giving locks back *)

\* What the write set of a section that was aborted has locked.
LEMMA AbortedFacts ==
  ASSUME LogInv, NEW t \in Threads, SlotInv(t), pc[t] = "unlock_objs", NEW B, Heap(B),
         NEW s \in Slots, s = CurrentSlot(t), NEW S, S = obj_write_set[t][s],
         NEW X, Actuals(X, S)
  PROVE  LockedIn(t, s, X)
<1>1. TypeOK /\ LocksAtHome /\ CurrentSet(t) = S BY DEF LogInv, CurrentSet
<1>3. \A i \in DOMAIN S : S[i] \in CopyRecord /\ i \in Nat BY <1>1 DEF TypeOK
<1>5. \A i \in DOMAIN S : p_obj_copy[S[i].actual] = <<t, s, i>> /\ S[i].data = data[S[i].actual]
  <2>1. CASE is_write_detected[t] BY <1>1, <2>1 DEF SlotInv
  <2>2. CASE ~is_write_detected[t]
    <3>1. S = <<>> BY <1>1, <2>2, EmptyLog DEF SyncLabels
    <3>2. QED BY ONLY <3>1
  <2>3. QED BY <2>1, <2>2
<1>6. ASSUME NEW x \in X
      PROVE  /\ p_obj_copy[x] # NULL /\ p_obj_copy[x] \in Copies
             /\ p_obj_copy[x][1] = t /\ p_obj_copy[x][2] = s /\ Pend[x] = data[x]
  <2>1. PICK i \in DOMAIN S : x = S[i].actual BY DEF Actuals
  <2>2. p_obj_copy[x] = <<t, s, i>> /\ S[i].data = data[x] /\ i \in Nat /\ x \in Node
    BY <1>3, <1>5, <2>1 DEF CopyRecord, Actuals
  <2>6. Copy(<<t, s, i>>).data = S[i].data BY DEF Copy
  <2>7. QED BY <2>2, PointerAssumption, <2>6 DEF Copies, Pend
<1>7. ASSUME NEW y \in Node, p_obj_copy[y] # NULL, p_obj_copy[y][1] = t, p_obj_copy[y][2] = s
      PROVE  y \in X BY <1>1, <1>7, LockIsThere, LockFacts DEF Copy, Actuals
<1>8. ASSUME NEW y \in Node, Pend[y] # data[y], data[y].p_next \in X
      PROVE  FALSE
  <2> PICK q \in X : q = data[y].p_next BY <1>8
  <2>1. p_obj_copy[y] \in Copies /\ p_obj_copy[q] = <<p_obj_copy[y][1], p_obj_copy[y][2], 2>>
    BY <1>8, ChangeFacts DEF Heap
  <2>5. QED BY <1>6, <1>8, <1>7, <2>1, PointerAssumption
<1>9. QED BY <1>3, <1>6, <1>7, <1>8 DEF LockedIn, CopyRecord, Actuals

\* The locks of a section that was aborted are given back.
LEMMA ObjAbortUnlock ==
  ASSUME Base, NEW t \in Threads, Apart(t), NEW B, ObjectInv(B), AbortUnlock(t), LogInv'
  PROVE  ObjectInv(B)'
<1>1. /\ TypeOK /\ LogInv /\ Heap(B) /\ PtrInv(B, t) /\ SlotInv(t) /\ SetInv(B) /\ LocksAtHome
      /\ Ring(t) /\ Clocks(t) /\ pc[t] = "unlock_objs" /\ ClockInRange /\ OneAdvances
      /\ TypeOK' /\ Ring(t)'
  BY DEF Base, LogInv, ObjectInv, AbortUnlock
<1> PICK s \in Slots : s = CurrentSlot(t) BY <1>1, RingFacts
<1> PICK S : S = obj_write_set[t][s] OBVIOUS
<1> PICK X : X = {S[i].actual : i \in DOMAIN S} OBVIOUS
<1>2. /\ X \subseteq Node
      /\ \A x \in X : /\ p_obj_copy[x] # NULL /\ p_obj_copy[x] \in Copies
                      /\ p_obj_copy[x][1] = t /\ p_obj_copy[x][2] = s /\ Pend[x] = data[x]
      /\ \A y \in Node : p_obj_copy[y] # NULL /\ p_obj_copy[y][1] = t /\ p_obj_copy[y][2] = s => y \in X
      /\ \A y \in Node : Pend[y] # data[y] => data[y].p_next \notin X
  <2>1. Actuals(X, S) BY DEF Actuals
  <2>2. LogInv /\ SlotInv(t) /\ pc[t] = "unlock_objs" /\ Heap(B) /\ s = CurrentSlot(t) /\ S = obj_write_set[t][s]
    BY <1>1
  <2>4. LockedIn(t, s, X) BY ONLY <2>1, <2>2, AbortedFacts, t \in Threads
  <2>5. QED BY <2>4 DEF LockedIn
<1>4. /\ \A y \in Node : p_obj_copy'[y] = IF y \in X THEN NULL ELSE p_obj_copy[y]
      /\ p_obj_copy' \in [Node -> Copies \union {NULL}]
      /\ obj_write_set' = [obj_write_set EXCEPT ![t][s] = <<>>]
      /\ is_write_detected'[t] = FALSE /\ pc'[t] = "aborted"
  <2>1. UnlockObjs(t, "aborted") BY DEF AbortUnlock
  <2>4. \A y \in Node : p_obj_copy'[y] = IF y \in X THEN NULL ELSE p_obj_copy[y]
    BY <2>1 DEF UnlockObjs, CurrentSet
  <2>8. QED BY <2>4, <1>1, <2>1 DEF TypeOK, UnlockObjs, Goto
<1>5. /\ UNCHANGED <<data, allocated, free_nodes, writer_version, local_version, set, delta, view, raw>>
      /\ UNCHANGED <<ws_head_counter, ws_wb_counter, ws_tail_counter, written>>
  BY DEF AbortUnlock, UnlockObjs, clockVars, sectionVars, ringVars, syncVars, derefVars, driverVars, historyVars
<1>6. /\ \A y \in X : p_obj_copy'[y] = NULL
      /\ \A y \in Node \ X : p_obj_copy'[y] = p_obj_copy[y]
      /\ p_obj_copy' \in [Node -> Copies \union {NULL}]
  BY <1>1, <1>2, <1>4 DEF TypeOK
<1>7. /\ obj_write_set'[t][s] = <<>>
      /\ \A z \in Slots \ {s} : obj_write_set'[t][z] = obj_write_set[t][z]
      /\ \A u \in Threads \ {t} : obj_write_set'[u] = obj_write_set[u]
  BY <1>1, <1>4 DEF TypeOK
<1>9. Pend' = Pend
  <2>1. ASSUME NEW y \in Node PROVE Pend'[y] = Pend[y]
    <3>1. CASE y \in X BY <1>2, <1>5, <1>6, <3>1 DEF Pend
    <3>2. CASE y \notin X /\ p_obj_copy[y] = NULL BY <1>5, <1>6, <3>2 DEF Pend
    <3>3. CASE y \notin X /\ p_obj_copy[y] # NULL
      <4> PICK q : q = p_obj_copy[y] OBVIOUS
      <4>1. Copy(q)' = Copy(q) /\ p_obj_copy'[y] = q
        BY <1>1, <1>2, <1>6, <1>7, <3>3, LockIsThere DEF Copy, Copies
      <4>2. QED BY <3>3, <4>1 DEF Pend, Copy
    <3>4. QED BY <3>1, <3>2, <3>3
  <2>2. QED BY <2>1 DEF Pend
<1>10. Heap(B)' /\ \A W \in SUBSET Threads : KeptFor(B, B, W, W)
  <2> PICK l \in [Node -> Copies \union {NULL}] : l = p_obj_copy' BY <1>6
  <2> PICK k : k = p_obj_copy OBVIOUS
  <2> PICK d : d = data OBVIOUS
  <2> PICK c : c = Pend OBVIOUS
  <2> PICK a : a = allocated OBVIOUS
  <2> PICK f : f = free_nodes OBVIOUS
  <2>1. /\ X \in SUBSET Node /\ (\A y \in X : c[y] = d[y])
        /\ \A y \in Node : c[y] # d[y] => d[y].p_next \notin X
        /\ \A y \in X : l[y] = NULL
        /\ \A y \in Node \ X : l[y] = k[y]
    BY <1>2, <1>6
  <2>2. IsHeap(B, d, k, c, a, f) BY <1>1 DEF Heap
  <2>4. /\ IsHeap(B, d, l, c, a, f)
        /\ \A W \in SUBSET Threads : Kept(B, d, k, c, f, W, B, d, l, c, f, W)
    BY ONLY <2>1, <2>2, HeapUnlock
  <2>5. QED BY <1>5, <1>9, <2>4 DEF Heap, KeptFor
<1>11. \A c \in ws_head_counter[t] .. ws_tail_counter[t] - 1 : WS_INDEX(c) \in Slots \ {s}
  <2> PICK h \in Nat : h = ws_head_counter[t] BY <1>1 DEF TypeOK
  <2> PICK hi \in Nat : hi = ws_tail_counter[t] BY <1>1 DEF TypeOK
  <2>1. SUFFICES ASSUME NEW c \in h .. hi - 1 PROVE WS_INDEX(c) \in Slots \ {s} OBVIOUS
  <2>4. QED BY <1>1, RingFacts DEF CurrentSlot, SyncLabels
<1>12. ASSUME NEW u \in Threads \ {t}
       PROVE  (InSection(u) => SightKept(t, u, B, B)) /\ OwnedKept(u) /\ SeesNext(u) = Sees(u)
  <2>3. SightKept(t, u, B, B) /\ SeesNext(u) = Sees(u)
    <3>1. CopiesKept(t, u) BY <1>7, <1>11 DEF CopiesKept, InSlot, Copy, Copies
    <3>2. \A y \in Node : p_obj_copy'[y] # NULL /\ p_obj_copy'[y][1] # t => p_obj_copy'[y] = p_obj_copy[y]
      BY <1>6
    <3>3. QED BY <1>1, <1>5, <1>10, <3>1, <3>2, UnseenKept
  <2>5. QED BY <2>3, <1>2, <1>5, <1>6 DEF OwnedKept
<1>14. SetInv(B)'
  BY <1>1, <1>4, <1>12, <1>5, <1>10, SetKept DEF Apart, SameOthers, SameThread, Published, Writing,
     SightKept, InSection, Labels, SetInv
<1>16. SlotInv(t)'
  <2> PICK lo \in Nat : lo = ws_wb_counter[t] BY <1>1 DEF TypeOK
  <2> PICK hi \in Nat : hi = ws_tail_counter[t] BY <1>1 DEF TypeOK
  <2>3. \A c \in lo .. hi - 1 : WS_INDEX(c) \in Slots \ {s}
    <3> PICK h \in Nat : h = ws_head_counter[t] BY <1>1 DEF TypeOK
    <3>3. QED BY <1>11, <1>1 DEF Ring
  <2>4. LogLocks(t, obj_write_set'[t], p_obj_copy', lo, hi)
    <3>1. SUFFICES ASSUME NEW c \in lo .. hi - 1, NEW i \in DOMAIN obj_write_set'[t][WS_INDEX(c)]
                   PROVE  p_obj_copy'[obj_write_set'[t][WS_INDEX(c)][i].actual] = <<t, WS_INDEX(c), i>>
      BY DEF LogLocks
    <3>2. PICK z \in Slots \ {s} : z = WS_INDEX(c) BY <2>3
    <3>3. obj_write_set'[t][z] = obj_write_set[t][z] /\ i \in DOMAIN obj_write_set[t][z]
      BY <1>7, <3>1, <3>2
    <3>4. obj_write_set[t][z] \in Seq(CopyRecord) BY <1>1 DEF TypeOK
    <3>5. obj_write_set[t][z][i] \in CopyRecord BY <3>3, <3>4
    <3> PICK y \in Node : y = obj_write_set[t][z][i].actual BY <3>5 DEF CopyRecord
    <3>6. p_obj_copy[y] = <<t, z, i>> BY <1>1, <1>5, SlotSays, <3>2, <3>3 DEF LogLocks, Clocks
    <3>7. y \notin X
      <4>2. QED BY <1>2, <3>6
    <3>8. QED BY <1>6, <3>2, <3>3, <3>6, <3>7
  <2>7. QED BY <1>1, <1>4, <1>5, <1>7, <2>4, SlotNext DEF Clocks, InUse, SlotInv
<1>17. QED
  BY <1>1, <1>10, <1>12, <1>14, <1>4, <1>5, NoPtrInv, <1>16, ObjectAssembly DEF PtrInv, Labels

-----------------------------------------------------------------------------
(* What an update changes of the values *)

\* x and its successor q are locked and not changed: everybody sees both, and
\* nothing in between.
LEMMA LockedSeen ==
  ASSUME NEW B, NEW d, NEW k, NEW c, NEW a, NEW f, IsHeap(B, d, k, c, a, f),
         NEW t, NEW s, NEW x \in B \ MaxNodes, NEW q, q = d[x].p_next,
         k[x] = <<t, s, 1>>, k[q] = <<t, s, 2>>, c[x] = d[x], NEW W \in SUBSET Threads
  PROVE  /\ x \in View(B, k, c, f, W) /\ q \in View(B, k, c, f, W) /\ q \in B
         /\ x \in Node /\ q \in Node /\ Home(d, q) = Home(d, x) /\ d[x].val < d[q].val
         /\ \A u \in Threads : q \notin f[u]
         /\ \A z \in View(B, k, c, f, W) : Home(d, z) = Home(d, x) =>
              d[z].val <= d[x].val \/ d[q].val <= d[z].val
<1>1. Edge(B, d, x, q) /\ x \in Node /\ B \subseteq Node BY HeapFacts DEF Linked
<1>2. q \in B BY <1>1 DEF Edge
<1>3. ASSUME NEW u \in Threads, x \in f[u] PROVE FALSE
  BY <1>3, HeapFacts, <1>1, ChangeFacts DEF Frees, Freeing
<1>4. ASSUME NEW u \in Threads, q \in f[u] PROVE FALSE BY <1>2, <1>4, FreedFacts
<1>7. /\ Home(d, q) = Home(d, x) /\ d[x].val < d[q].val
      /\ \A z \in View(B, k, c, f, W) : Home(d, z) = Home(d, x) =>
           d[z].val <= d[x].val \/ d[q].val <= d[z].val BY <1>2, <1>3, <1>4, ViewNext DEF View, Vis
<1>8. QED BY <1>1, <1>2, <1>4, <1>3, <1>7 DEF View

\* What is in a view besides the sentinels is in the bucket of its value.
LEMMA ViewBucket ==
  ASSUME NEW B, NEW d, NEW k, NEW c, NEW a, NEW f, IsHeap(B, d, k, c, a, f),
         NEW W \in SUBSET Threads, NEW z \in View(B, k, c, f, W) \ Sentinels
  PROVE  /\ z \in DataNodes /\ z \in a /\ Home(d, z) = Hash(d[z].val)
         /\ d[z].val \in Keys /\ d[z].val \in Int
<1>4. QED BY ViewFacts, HeapFacts, RluListAssumption DEF Home, Sentinels, Linked

\* A node y is linked behind x for those who see the changes of t: their values
\* get the one of y, which nobody had.
LEMMA AddValues ==
  ASSUME NEW B, NEW d, NEW k, NEW c, NEW a, NEW f, IsHeap(B, d, k, c, a, f),
         NEW t \in Threads, NEW s, NEW x \in B \ MaxNodes, NEW q, q = d[x].p_next,
         k[x] \in Copies, k[x] = <<t, s, 1>>, k[q] = <<t, s, 2>>, c[x] = d[x],
         NEW y \in DataNodes \ a, NEW n \in NodeContents, n.val \in Keys,
         Hash(n.val) = Home(d, x), d[x].val < n.val, n.val < d[q].val,
         NEW e, e[y] = n, \A z \in Node \ {y} : e[z] = d[z],
         NEW g, \A z \in Node \ {x, y} : g[z] = c[z], g[x].p_next = y,
         NEW W \in SUBSET Threads
  PROVE  /\ n.val \notin Values(B, d, k, c, f, W)
         /\ t \in W => /\ Values(B, e, k, g, f, W) = Values(B, d, k, c, f, W) \union {n.val}
                      /\ View(B, k, c, f, W) \subseteq View(B, k, g, f, W)
<1>1. /\ x \in View(B, k, c, f, W) /\ q \in B
      /\ x \in Node /\ q \in Node
      /\ \A z \in View(B, k, c, f, W) : Home(d, z) = Home(d, x) =>
           d[z].val <= d[x].val \/ d[q].val <= d[z].val
  <2>1. /\ IsHeap(B, d, k, c, a, f) /\ q = d[x].p_next
        /\ k[x] = <<t, s, 1>> /\ k[q] = <<t, s, 2>> /\ c[x] = d[x]
    OBVIOUS
  <2>2. QED BY ONLY <2>1, LockedSeen, x \in B \ MaxNodes, W \in SUBSET Threads
<1>2. B \subseteq a /\ a \subseteq Node /\ d \in [Node -> NodeContents] /\ d[x].val \in Int /\ d[q].val \in Int
  BY <1>1, HeapFacts
<1>4. n.val \notin Values(B, d, k, c, f, W) BY ViewBucket, <1>1, <1>2, RluListAssumption DEF Values
<1>6. ASSUME t \in W
      PROVE  /\ Values(B, e, k, g, f, W) = Values(B, d, k, c, f, W) \union {n.val}
             /\ View(B, k, c, f, W) \subseteq View(B, k, g, f, W)
  <2>2. \A z \in View(B, k, c, f, W) : z \in Node /\ z \in a BY ViewFacts
  <2>4. QED
    BY PointerAssumption, <1>2, RluListAssumption, <1>1, <1>6, <2>2 DEF View, Sentinels, Values
<1>7. QED BY <1>4, <1>6

\* The value of a node of the view is in no other node of it.
LEMMA ValueUnique ==
  ASSUME NEW B, NEW d, NEW k, NEW c, NEW a, NEW f, IsHeap(B, d, k, c, a, f),
         NEW W \in SUBSET Threads, NEW q \in B \intersect DataNodes,
         NEW z \in View(B, k, c, f, W) \ Sentinels, d[z].val = d[q].val
  PROVE  z = q
<1>1. z \in DataNodes /\ z \in Node /\ q \in Node /\ d[z].val \in Int
  BY ViewBucket, ViewFacts, HeapFacts
<1>2. Home(d, z) = Home(d, q) BY <1>1 DEF Home
<1>3. CASE z \in B BY <1>2, <1>3, HeapFacts DEF Linked
<1>4. CASE z \notin B
  <2>1. PICK p \in B \ MaxNodes : /\ Home(d, z) = Home(d, p)
                                  /\ d[p].val < d[z].val /\ d[z].val < d[d[p].p_next].val
    BY <1>4, ViewFacts
  <2>2. Linked(B, d) /\ B \in SUBSET Node /\ d \in [Node -> NodeContents] BY HeapFacts
  <2> PICK y : y = d[p].p_next OBVIOUS
  <2>3. y \in B /\ (q = p \/ d[q].val < d[p].val \/ d[y].val <= d[q].val)
    <3>1. Linked(B, d) /\ y = d[p].p_next /\ Home(d, q) = Home(d, p) BY <1>2, <2>1, <2>2
    <3>3. QED BY ONLY <3>1, <2>2, BeforeOrBehind, p \in B \ MaxNodes
  <2>5. QED BY <1>1, <2>1, <2>3, <2>2, HeapFacts
<1>5. QED BY <1>3, <1>4

\* The successor q of x is skipped by those who see the changes of t: their values
\* lose the one of q, which everybody had.
LEMMA RemoveValues ==
  ASSUME NEW B, NEW d, NEW k, NEW c, NEW a, NEW f, IsHeap(B, d, k, c, a, f),
         NEW t \in Threads, NEW s, NEW x \in B \ MaxNodes, NEW q \in DataNodes, q = d[x].p_next,
         k[x] \in Copies, k[x] = <<t, s, 1>>, k[q] = <<t, s, 2>>, c[x] = d[x],
         NEW g, \A z \in Node \ {x} : g[z] = c[z], g[x].p_next = d[q].p_next,
         NEW h, h[t] = f[t] \union {q}, \A u \in Threads \ {t} : h[u] = f[u],
         NEW W \in SUBSET Threads
  PROVE  /\ d[q].val \in Values(B, d, k, c, f, W)
         /\ t \in W => /\ Values(B, d, k, g, h, W) = Values(B, d, k, c, f, W) \ {d[q].val}
                      /\ View(B, k, c, f, W) \subseteq View(B, k, g, h, W) \union {q}
<1>1. q \in View(B, k, c, f, W) /\ q \in B /\ x \in Node /\ q \in Node
  <2>1. /\ IsHeap(B, d, k, c, a, f) /\ q = d[x].p_next
        /\ k[x] = <<t, s, 1>> /\ k[q] = <<t, s, 2>> /\ c[x] = d[x]
    OBVIOUS
  <2>2. /\ x \in View(B, k, c, f, W) /\ q \in View(B, k, c, f, W) /\ q \in B
        /\ x \in Node /\ q \in Node /\ Home(d, q) = Home(d, x) /\ d[x].val < d[q].val
    BY ONLY <2>1, LockedSeen, x \in B \ MaxNodes, W \in SUBSET Threads
  <2>3. QED BY <2>2
<1>5. ASSUME t \in W
      PROVE  /\ Values(B, d, k, g, h, W) = Values(B, d, k, c, f, W) \ {d[q].val}
             /\ View(B, k, c, f, W) \subseteq View(B, k, g, h, W) \union {q}
  <2>1. \A z : z \in View(B, k, g, h, W) <=> z \in View(B, k, c, f, W) /\ z # q
    <3>2. \A z \in Node \ B : \A p \in B : g[p].p_next = z <=> c[p].p_next = z
      BY <1>1, RluListAssumption, HeapFacts DEF Linked, Edge, Sentinels
    <3>3. QED BY <1>1, <1>5, <3>2 DEF View
  <2>4. QED BY <2>1, <1>1, ValueUnique DEF Values
<1>6. QED BY <1>1, RluListAssumption, <1>5 DEF Values, Sentinels

-----------------------------------------------------------------------------
(* Both neighbours are locked *)

\* They are neighbours in the lists of the objects themselves.
LEMMA BothFacts ==
  ASSUME LogInv, NEW t \in Threads, NEW B, Heap(B), PtrInv(B, t), SlotInv(t), pc[t] = "write",
         NEW s, s = CurrentSlot(t), NEW x, x = Act(ptr[t].p_prev), NEW q, q = Act(ptr[t].p_next)
  PROVE  BothLocked(B, t, s, x, q)
<1>1. /\ TypeOK /\ LocksAtHome /\ LogOf(t) /\ Ring(t) /\ into[t] = "p_next" /\ is_write_detected[t]
      /\ InSection(t)
  BY UseFacts, WriteFacts DEF LogInv, Standing, InSection, Labels
<1>2. s \in Slots BY <1>1, RingFacts
<1> PICK S : S = obj_write_set[t][s] OBVIOUS
<1>3. S = CurrentSet(t) /\ S \in Seq(CopyRecord) BY <1>1, <1>2 DEF CurrentSet, TypeOK
<1>4. /\ Len(S) = 2 /\ ptr[t].p_prev = <<t, s, 1>> /\ ptr[t].p_next = <<t, s, 2>>
  BY <1>1, <1>3 DEF LogOf
<1>5. DOMAIN S = 1 .. 2 /\ 1 \in DOMAIN S /\ 2 \in DOMAIN S BY <1>3, <1>4
<1>6. S[1] \in CopyRecord /\ S[2] \in CopyRecord
  <2>1. \A i \in DOMAIN S : S[i] \in CopyRecord BY <1>3
  <2>2. QED BY <1>5, <2>1
<1>7. <<t, s, 1>> \in Copies /\ <<t, s, 2>> \in Copies BY <1>2 DEF Copies
<1>8. Copy(<<t, s, 1>>) = S[1] /\ Copy(<<t, s, 2>>) = S[2] BY DEF Copy
<1>9. x = S[1].actual /\ q = S[2].actual /\ x \in Node /\ q \in Node
  BY <1>7, PointerAssumption, <1>8, <1>4, <1>6 DEF Act, FORCE_ACTUAL, CopyRecord
<1>10. /\ p_obj_copy[x] = <<t, s, 1>> /\ p_obj_copy[q] = <<t, s, 2>>
       /\ S[1].data = data[x] /\ S[2].data = data[q]
  BY <1>1, <1>3, <1>5, <1>9 DEF SlotInv
<1>12. /\ SC(t, x) = data[x] /\ SC(t, q) = data[q]
  BY <1>7, PointerAssumption, <1>8, <1>9, <1>10 DEF SC, Vis, Pend
<1>13. x \in SV(B, t) \ MaxNodes /\ q \in SV(B, t) /\ SC(t, x).p_next = q BY BehindNext
<1>14. x \in B
  <2>1. SUFFICES ASSUME x \notin B PROVE FALSE OBVIOUS
  <2> PICK V \in SUBSET Threads : V = Sees(t) BY DEF Sees
  <2>3. PICK p \in B : Pend[p] # data[p] /\ Pend[p].p_next = x /\ data[x].p_next = data[p].p_next
    BY <2>1, <1>13, ViewFacts DEF Heap, SV, Sight
  <2>4. p \in Node BY HeapFacts DEF Heap
  <2>5. q = data[p].p_next BY <1>12, <1>13, <2>3
  <2>8. p_obj_copy[p] = <<t, s, 1>> BY <2>3, <2>4, <2>5, ChangeFacts, <1>10 DEF Copies, Heap
  <2>9. p_obj_copy[p] # NULL BY <2>3, <2>4, <2>5, ChangeFacts, PointerAssumption DEF Heap
  <2>10. Locks(data, p_obj_copy, Pend, allocated) BY HeapFacts DEF Heap
  <2>12. QED BY <2>1, <1>9, <1>10, <2>4, <2>8, <2>9, <2>10 DEF Locks
<1>15. /\ data[x].val < key[t] /\ Home(data, x) = Hash(key[t])
       /\ op[t] = "add" => key[t] < data[q].val
       /\ op[t] = "remove" => data[q].val = key[t] /\ Act(ptr[t].n) = data[q].p_next
  BY <1>12, UseFacts
<1>16. op[t] = "remove" => q \in DataNodes
  BY WriteFacts, <1>1, <1>15, SentinelSeen, RluListAssumption, <1>9 DEF Sentinels
<1>18. QED
  BY <1>4, <1>5, <1>7, <1>9, <1>10, PointerAssumption, <1>8, <1>12, <1>13, <1>14, <1>15, <1>16
     DEF BothLocked, Pend

\* The log after the copy of x, the first in slot s, was made to point to y.
LEMMA AssignEntry ==
  ASSUME TypeOK, NEW t \in Threads, NEW s \in Slots, NEW y, AssignNext(t, y),
         ptr[t].p_prev = <<t, s, 1>>, DOMAIN obj_write_set[t][s] = 1 .. 2
  PROVE  /\ \A u \in Threads \ {t} : obj_write_set'[u] = obj_write_set[u]
         /\ \A z \in Slots \ {s} : obj_write_set'[t][z] = obj_write_set[t][z]
         /\ DOMAIN obj_write_set'[t][s] = 1 .. 2
         /\ obj_write_set'[t][s][2] = obj_write_set[t][s][2]
         /\ obj_write_set'[t][s][1].actual = obj_write_set[t][s][1].actual
         /\ obj_write_set'[t][s][1].data.val = obj_write_set[t][s][1].data.val
         /\ obj_write_set'[t][s][1].data.p_next = y
         /\ y \in Node \ MinNodes => obj_write_set'[t][s][1].data \in NodeContents
<1> PICK old : old = obj_write_set[t][s] OBVIOUS
<1>2. old[1] \in CopyRecord BY DEF TypeOK
<1> PICK r : r = [old[1] EXCEPT !.data = [old[1].data EXCEPT !.p_next = y]] OBVIOUS
<1> PICK new : new = [old EXCEPT ![1] = r] OBVIOUS
<1>6. DOMAIN new = 1 .. 2 /\ new[1] = r /\ new[2] = old[2] BY DEF TypeOK
<1>7. obj_write_set[t] \in [Slots -> Seq(CopyRecord)] BY DEF TypeOK
<1>8. /\ \A u \in Threads \ {t} : obj_write_set'[u] = obj_write_set[u]
      /\ \A z \in Slots \ {s} : obj_write_set'[t][z] = obj_write_set[t][z]
      /\ obj_write_set'[t][s] = new BY <1>7 DEF TypeOK, AssignNext
<1>9. QED BY <1>2, <1>6, <1>8 DEF CopyRecord, NodeContents

\* No other copy changes.
LEMMA AssignOthers ==
  ASSUME TypeOK, NEW t \in Threads, NEW s \in Slots, NEW y, AssignNext(t, y),
         ptr[t].p_prev = <<t, s, 1>>, DOMAIN obj_write_set[t][s] = 1 .. 2
  PROVE  /\ \A p \in Copies : p # <<t, s, 1>> /\ p[3] \in DOMAIN obj_write_set[p[1]][p[2]] => Copy(p)' = Copy(p)
         /\ Copy(<<t, s, 1>>)'.data.val = Copy(<<t, s, 1>>).data.val
         /\ Copy(<<t, s, 1>>)'.data.p_next = y
         /\ y \in Node \ MinNodes => Copy(<<t, s, 1>>)'.data \in NodeContents
<1>2. ASSUME NEW p \in Copies, p # <<t, s, 1>>, p[3] \in DOMAIN obj_write_set[p[1]][p[2]]
      PROVE  Copy(p)' = Copy(p) BY AssignEntry, <1>2 DEF Copies, Copy
<1>3. QED BY AssignEntry, <1>2 DEF Copy

\* What x will contain, and that the other locked nodes will contain what they
\* were to.
LEMMA AssignPend ==
  ASSUME TypeOK, LocksAtHome, NEW t \in Threads, NEW B, Heap(B), NEW s \in Slots, NEW x, NEW q,
         BothLocked(B, t, s, x, q), NEW y, AssignNext(t, y), p_obj_copy' = p_obj_copy
  PROVE  /\ Pend'[x].val = data[x].val /\ Pend'[x].p_next = y
         /\ y \in Node \ MinNodes => Pend'[x] \in NodeContents
         /\ \A z \in Node \ {x} : Pend'[z] = IF p_obj_copy[z] = NULL THEN data'[z] ELSE Pend[z]
<1>1. /\ x \in Node /\ p_obj_copy[x] = <<t, s, 1>> /\ ptr[t].p_prev = <<t, s, 1>>
      /\ p_obj_copy[x] # NULL /\ Copy(<<t, s, 1>>).data = data[x] /\ DOMAIN obj_write_set[t][s] = 1 .. 2
  BY PointerAssumption DEF BothLocked
<1>3. Pend'[x] = Copy(<<t, s, 1>>)'.data BY <1>1 DEF Pend, Copy
<1>4. ASSUME NEW z \in Node \ {x}
      PROVE  Pend'[z] = IF p_obj_copy[z] = NULL THEN data'[z] ELSE Pend[z]
  <2>1. CASE p_obj_copy[z] = NULL BY <2>1 DEF Pend
  <2>2. CASE p_obj_copy[z] # NULL
    <3> PICK p : p = p_obj_copy[z] OBVIOUS
    <3>2. p # <<t, s, 1>> BY <1>1, <2>2, HeapFacts DEF Locks, Heap
    <3>6. QED BY <2>2, <1>1, AssignOthers, <3>2, LockIsThere DEF Pend, Copy
  <2>3. QED BY <2>1, <2>2
<1>5. QED BY <1>1, AssignOthers, <1>3, <1>4

-----------------------------------------------------------------------------
(* What a change means for the history variables *)

\* Nobody has deferred a change of v, then.
LEMMA NotDeferred ==
  ASSUME NEW B, SetInv(B), NEW t, NEW v, \A W \in SUBSET Threads : v \in Vals(B, W) <=> v \in set
  PROVE  \A u \in Threads : v \notin delta[u]
<1>1. SUFFICES ASSUME NEW u \in Threads PROVE v \notin delta[u] OBVIOUS
<1>2. CASE u \in Published BY <1>2 DEF SetInv
<1>3. CASE u \notin Published
  <2> PICK V \in SUBSET (Threads \ {u}) : V = Writing BY <1>3 DEF Writing, Published
  <2>4. v \in Vals(B, V) <=> v \in Vals(B, V \union {u}) OBVIOUS
  <2> PICK X, D : X = Vals(B, V) /\ D = delta[u] OBVIOUS
  <2>7. QED BY <1>3, <2>4 DEF Toggle, SetInv, Differs
<1>4. QED BY <1>2, <1>3

\* The history variables are right after t has changed v.
LEMMA FlipSet ==
  ASSUME NEW t \in Threads, Apart(t), NEW B, SetInv(B), NEW v, Flips(B, t, v),
         pc[t] = "write", pc'[t] = "reader_unlock", set' = set,
         delta'[t] = delta[t] \union {v}, view'[t] = NULL,
         \A W \in SUBSET Threads : t \notin W => KeptFor(B, B, W, W),
         \A u \in Threads \ {t} : InSection(u) => KeptFor(B, B, Sees(u), SeesNext(u))
  PROVE  SetInv(B)'
<1>1. \A u \in Threads \ {t} : pc'[u] = pc[u] /\ view'[u] = view[u] /\ delta'[u] = delta[u]
  BY DEF Apart, SameOthers, SameThread, SameRest
<1>2. Published' = Published /\ Writing' = Writing /\ t \notin Published
  BY <1>1 DEF Published, Writing
<1>3. \A W \in SUBSET Threads : t \notin W => NextVals(B, W) = Vals(B, W)
  BY KeptValues DEF KeptFor, NextVals, Vals
<1>6. ASSUME NEW u \in Threads \ {t}, u \notin Published PROVE Differs(B, u)'
  <2>1. SUFFICES ASSUME NEW W \in SUBSET (Threads \ {u}), Writing' \subseteq W
                 PROVE  NextVals(B, W \union {u}) = Toggle(NextVals(B, W), delta'[u])
    BY DEF Differs, Vals, NextVals
  <2>4. CASE t \notin W BY <1>1, <1>3, <1>2, <1>6, <2>1, <2>4 DEF SetInv, Differs
  <2>5. CASE t \in W
    <3> PICK X, D : X = Vals(B, W) /\ D = delta[u] OBVIOUS
    <3>6. QED BY <1>1, <1>2, <1>6, <2>1, <2>5 DEF Toggle, Flips, SetInv, Differs
  <2>6. QED BY <2>4, <2>5
<1>8. ASSUME NEW u \in Threads \ {t}
      PROVE  /\ view'[u] # NULL <=> (InSection(u) /\ pc[u] # "reader_unlock")'
             /\ view'[u] # NULL => view'[u] = Vals(B, Sees(u))'
  BY <1>1, KeptValues, SeesNextIs DEF InSection, SetInv, KeptFor, NextVals, Vals
<1>10. ASSUME NEW u \in Threads
       PROVE  /\ IF u \in Published' THEN delta'[u] = {} ELSE Differs(B, u)'
              /\ view'[u] # NULL <=> (InSection(u) /\ pc[u] # "reader_unlock")'
              /\ view'[u] # NULL => view'[u] = Vals(B, Sees(u))'
  BY <1>1, <1>2, <1>6, <1>3, <1>8 DEF SetInv, Differs, Vals, NextVals, Flips, Toggle
<1>11. QED BY <1>2, <1>3, <1>10 DEF SetInv, Published, Vals, NextVals

\* What both updates leave as it is.
LEMMA UpdateRest ==
  ASSUME Base, NEW t \in Threads, Apart(t), NEW B, ObjectInv(B), LogInv', pc[t] = "write",
         NEW s \in Slots, s = CurrentSlot(t), NEW x, NEW q, BothLocked(B, t, s, x, q),
         NEW y \in Node \ MinNodes, AssignNext(t, y), p_obj_copy' = p_obj_copy,
         UNCHANGED <<writer_version, local_version, set, raw, ptr, op, is_write_detected>>,
         UNCHANGED <<ws_head_counter, ws_wb_counter, ws_tail_counter, written, run_counter>>,
         pc'[t] = "reader_unlock", NEW v, delta'[t] = delta[t] \union {v}, view'[t] = NULL,
         Heap(B)', \A z \in Node : p_obj_copy[z] # NULL => data'[z] = data[z],
         \A W \in SUBSET Threads : t \notin W => KeptFor(B, B, W, W), Flips(B, t, v),
         \A z \in SV(B, t) : z \in View(B, p_obj_copy', Pend', free_nodes', Sees(t)) \union free_nodes'[t]
  PROVE  ObjectInv(B)'
<1>1. /\ TypeOK /\ LogInv /\ Heap(B) /\ PtrInv(B, t) /\ SlotInv(t) /\ SetInv(B) /\ LocksAtHome
      /\ Ring(t) /\ Clocks(t) /\ ClockInRange /\ OneAdvances /\ TypeOK' /\ Ring(t)' /\ SameOthers(t)
  BY DEF Base, LogInv, ObjectInv, Apart
<1>2. /\ ptr[t].p_prev = <<t, s, 1>> /\ DOMAIN obj_write_set[t][s] = 1 .. 2 BY DEF BothLocked
<1>3. /\ \A u \in Threads \ {t} : obj_write_set'[u] = obj_write_set[u]
      /\ \A z \in Slots \ {s} : obj_write_set'[t][z] = obj_write_set[t][z]
      /\ DOMAIN obj_write_set'[t][s] = 1 .. 2
      /\ obj_write_set'[t][s][2] = obj_write_set[t][s][2]
      /\ obj_write_set'[t][s][1].actual = obj_write_set[t][s][1].actual
  BY <1>1, <1>2, AssignEntry
<1>4. \A p \in Copies : p # <<t, s, 1>> /\ p[3] \in DOMAIN obj_write_set[p[1]][p[2]] => Copy(p)' = Copy(p)
  BY <1>1, <1>2, AssignOthers
<1>5. \A c \in ws_head_counter[t] .. ws_tail_counter[t] - 1 : WS_INDEX(c) \in Slots \ {s}
  <2> PICK h \in Nat : h = ws_head_counter[t] BY <1>1 DEF TypeOK
  <2> PICK hi \in Nat : hi = ws_tail_counter[t] BY <1>1 DEF TypeOK
  <2>1. SUFFICES ASSUME NEW c \in h .. hi - 1 PROVE WS_INDEX(c) \in Slots \ {s} OBVIOUS
  <2>4. QED BY <1>1, RingFacts DEF CurrentSlot, SyncLabels
<1>6. ASSUME NEW u \in Threads \ {t}
      PROVE  (InSection(u) => SightKept(t, u, B, B)) /\ OwnedKept(u)
  BY <1>5, <1>4, <1>1, UnseenKept DEF CopiesKept, InSlot, OwnedKept
<1>8. PtrInv(B, t)'
  BY <1>1, AssignFacts, PointersSafe, OwnSafe DEF SV, Sight, Sees, ringVars, Act, PtrInv, Good,
     InSection, Labels, PtrSet
<1>9. SlotInv(t)'
  <2> PICK lo \in Nat : lo = ws_wb_counter[t] BY <1>1 DEF TypeOK
  <2> PICK hi \in Nat : hi = ws_tail_counter[t] BY <1>1 DEF TypeOK
  <2>2. LogLocks(t, obj_write_set[t], p_obj_copy, lo, hi) BY <1>1, SlotSays DEF Clocks
  <2>3. \A c \in lo .. hi - 1 : WS_INDEX(c) \in Slots \ {s}
    <3> PICK h \in Nat : h = ws_head_counter[t] BY <1>1 DEF TypeOK
    <3>3. QED BY <1>5, <1>1 DEF Ring
  <2>4. LogLocks(t, obj_write_set'[t], p_obj_copy', ws_wb_counter'[t], ws_tail_counter'[t])
    <3> PICK l, m, k : l = obj_write_set[t] /\ m = obj_write_set'[t] /\ k = p_obj_copy OBVIOUS
    <3>2. LogLocks(t, m, k, lo, hi)
      <4>1. SUFFICES ASSUME NEW c \in lo .. hi - 1, NEW i \in DOMAIN m[WS_INDEX(c)]
                     PROVE  k[m[WS_INDEX(c)][i].actual] = <<t, WS_INDEX(c), i>>
        BY DEF LogLocks
      <4>2. m[WS_INDEX(c)] = l[WS_INDEX(c)] BY <1>3, <2>3
      <4>4. QED BY <4>2, <2>2 DEF LogLocks
    <3>3. QED BY <3>2
  <2>5. is_write_detected'[t] => \A i \in DOMAIN CurrentSet(t)' :
           /\ (p_obj_copy[CurrentSet(t)[i].actual] = <<t, CurrentSlot(t), i>>)'
           /\ pc'[t] # "reader_unlock" => (CurrentSet(t)[i].data = data[CurrentSet(t)[i].actual])'
    <3>2. SUFFICES ASSUME is_write_detected[t], NEW i \in DOMAIN obj_write_set'[t][s]
                   PROVE  p_obj_copy[obj_write_set'[t][s][i].actual] = <<t, s, i>>
      BY DEF CurrentSet, CurrentSlot
    <3>4. i \in DOMAIN obj_write_set[t][s] /\ obj_write_set'[t][s][i].actual = obj_write_set[t][s][i].actual
      BY <1>2, <1>3, <3>2
    <3>5. QED BY <1>1, <3>2, <3>4 DEF SlotInv, CurrentSet
  <2>6. \A z \in Slots : ~InUse(t, z)' => obj_write_set'[t][z] = <<>>
    BY <1>1, WriteFacts, <1>3 DEF InUse, CurrentSlot, SlotInv
  <2>7. QED BY <1>1, <2>4, <2>5, <2>6, SlotNext DEF Clocks
<1>10. QED BY <1>1, <1>6, FlipSet, <1>8, <1>9, ObjectAssembly DEF SightKept

\* An update knows its neighbours.
LEMMA WriteReady ==
  ASSUME Base, NEW t \in Threads, NEW B, ObjectInv(B), pc[t] = "write"
  PROVE  \E s \in Slots, x \in Node, q \in Node :
           /\ s = CurrentSlot(t) /\ x = Act(ptr[t].p_prev) /\ q = Act(ptr[t].p_next)
           /\ BothLocked(B, t, s, x, q)
<1> PICK s \in Slots : s = CurrentSlot(t) BY RingFacts DEF Base, ObjectInv, LogInv
<1> PICK x : x = Act(ptr[t].p_prev) OBVIOUS
<1> PICK q : q = Act(ptr[t].p_next) OBVIOUS
<1>2. BothLocked(B, t, s, x, q) BY BothFacts DEF Base, ObjectInv, LogInv
<1>4. QED BY <1>2 DEF BothLocked

\* What an insertion makes of the heap.
LEMMA AddHeap ==
  ASSUME LogInv, NEW t \in Threads, NEW B, Heap(B), NEW s \in Slots, NEW x \in Node, NEW q \in Node,
         q = Act(ptr[t].p_next), BothLocked(B, t, s, x, q), pc[t] = "write", op[t] = "add",
         NEW y \in Node \ allocated, AssignNext(t, y), free_nodes' = free_nodes,
         rlu_alloc(y, [val |-> key[t], p_next |-> q])
  PROVE  /\ p_obj_copy' = p_obj_copy /\ Heap(B)' /\ y \in Node \ MinNodes
         /\ \A z \in Node : p_obj_copy[z] # NULL => data'[z] = data[z]
         /\ \A W \in SUBSET Threads : t \notin W => KeptFor(B, B, W, W)
         /\ \A W \in SUBSET Threads :
              /\ key[t] \notin Vals(B, W)
              /\ t \in W => /\ NextVals(B, W) = Vals(B, W) \union {key[t]}
                            /\ \A z \in Sight(B, W) : z \in View(B, p_obj_copy', Pend', free_nodes', W)
<1>1. /\ TypeOK /\ LocksAtHome /\ key[t] \in Keys /\ key[t] \in Int BY WriteFacts DEF LogInv
<1> PICK n : n = [val |-> key[t], p_next |-> q] OBVIOUS
<1>2. /\ allocated' = allocated \union {y} /\ data' = [data EXCEPT ![y] = n]
      /\ p_obj_copy' = [p_obj_copy EXCEPT ![y] = NULL]
  BY DEF rlu_alloc
<1>4. n \in NodeContents /\ n.val = key[t] /\ n.p_next = q
  BY <1>1, WriteFacts DEF NodeContents, Behind, Act
<1>5. y \in DataNodes /\ y \in Node \ MinNodes
  BY HeapFacts, RluListAssumption DEF Heap, Linked, Sentinels
<1>6. p_obj_copy[y] = NULL BY HeapFacts DEF Heap, Locks
<1>7. p_obj_copy' = p_obj_copy BY <1>1, <1>2, <1>6 DEF TypeOK
<1>8. /\ data' \in [Node -> NodeContents] /\ data'[y] = n /\ \A z \in Node \ {y} : data'[z] = data[z]
  BY <1>1, <1>2, <1>4 DEF TypeOK
<1>9. /\ x \in B \ MaxNodes /\ q = data[x].p_next /\ p_obj_copy[x] \in Copies
      /\ p_obj_copy[x] = <<t, s, 1>> /\ p_obj_copy[q] = <<t, s, 2>> /\ Pend[x] = data[x]
      /\ data[x].val < key[t] /\ Home(data, x) = Hash(key[t]) /\ key[t] < data[q].val
  BY DEF BothLocked
<1>11. Pend' \in [Node -> NodeContents]
  <2>2. \A z \in Node : Pend'[z] \in NodeContents BY <1>5, <1>8, PendFacts, AssignPend, <1>1, <1>7
  <2>4. QED BY <2>2 DEF Pend
<1> PICK d, k, c, a, f, e, g, l :
      /\ d = data /\ k = p_obj_copy /\ c = Pend /\ a = allocated /\ f = free_nodes
      /\ e = data' /\ g = Pend' /\ l = allocated'
  OBVIOUS
<1>13. /\ IsHeap(B, d, k, c, a, f) /\ q = d[x].p_next
       /\ k[x] \in Copies /\ k[x] = <<t, s, 1>> /\ k[q] = <<t, s, 2>> /\ c[x] = d[x]
       /\ n.p_next = q /\ n.val \in Keys
       /\ Hash(n.val) = Home(d, x) /\ d[x].val < n.val /\ n.val < d[q].val
       /\ e \in [Node -> NodeContents] /\ e[y] = n /\ \A z \in Node \ {y} : e[z] = d[z]
  BY <1>1, <1>4, <1>8, <1>9 DEF Heap
<1>14. /\ g \in [Node -> NodeContents] /\ g[y] = n /\ \A z \in Node \ {x, y} : g[z] = c[z]
       /\ g[x].val = d[x].val /\ g[x].p_next = y
  BY <1>1, <1>7, AssignPend, <1>11, <1>6, <1>9, PointerAssumption, <1>8 DEF Pend
<1>15. x \in B \ MaxNodes /\ y \in DataNodes \ a /\ n \in NodeContents BY <1>4, <1>5, <1>9
<1>16. /\ IsHeap(B, e, k, g, a \union {y}, f)
       /\ \A W \in SUBSET Threads : t \notin W => Kept(B, d, k, c, f, W, B, e, k, g, f, W)
  <2>1. AddsNode(B, d, k, c, a, f, t, s, x, q, y, n, e, g) BY <1>13, <1>14, <1>15 DEF AddsNode
  <2>2. QED BY <2>1, HeapAdd
<1>17. ASSUME NEW W \in SUBSET Threads
       PROVE  /\ n.val \notin Values(B, d, k, c, f, W)
              /\ t \in W => /\ Values(B, e, k, g, f, W) = Values(B, d, k, c, f, W) \union {n.val}
                           /\ View(B, k, c, f, W) \subseteq View(B, k, g, f, W)
  BY ONLY <1>13, <1>14, <1>15, AddValues, t \in Threads, W \in SUBSET Threads
<1>20. ASSUME NEW W \in SUBSET Threads
       PROVE  /\ key[t] \notin Vals(B, W)
              /\ t \in W => /\ NextVals(B, W) = Vals(B, W) \union {key[t]}
                           /\ \A z \in Sight(B, W) : z \in View(B, p_obj_copy', Pend', free_nodes', W)
  BY <1>4, <1>7, <1>17 DEF Vals, NextVals, Sight
<1>22. QED BY <1>5, <1>7, <1>2, <1>16, <1>20, <1>6, <1>8 DEF Heap, KeptFor

\* A node is linked.
LEMMA ObjAddNode ==
  ASSUME Base, NEW t \in Threads, Apart(t), NEW B, ObjectInv(B), AddNode(t), LogInv'
  PROVE  /\ ObjectInv(B)'
         /\ \A W \in SUBSET Threads : key[t] \notin Vals(B, W)
<1>1. /\ TypeOK /\ LogInv /\ Heap(B) /\ SetInv(B) /\ pc[t] = "write" /\ op[t] = "add"
      /\ ExtraTypes /\ ExtraTypes'
  BY RunApart DEF Base, LogInv, ObjectInv, AddNode, Run, Decide
<1> PICK s \in Slots, x \in Node, q \in Node :
      /\ s = CurrentSlot(t) /\ x = Act(ptr[t].p_prev) /\ q = Act(ptr[t].p_next)
      /\ BothLocked(B, t, s, x, q)
  BY <1>1, WriteReady
<1> PICK y \in Node \ allocated :
      /\ rlu_alloc(y, [val |-> key[t], p_next |-> q])
      /\ AssignNext(t, y)
  BY DEF AddNode, Act
<1> PICK v : v = key[t] OBVIOUS
<1>4. /\ p_obj_copy' = p_obj_copy /\ Heap(B)' /\ y \in Node \ MinNodes
      /\ \A z \in Node : p_obj_copy[z] # NULL => data'[z] = data[z]
      /\ \A W \in SUBSET Threads : t \notin W => KeptFor(B, B, W, W)
      /\ \A W \in SUBSET Threads :
           /\ v \notin Vals(B, W)
           /\ t \in W => /\ NextVals(B, W) = Vals(B, W) \union {v}
                         /\ \A z \in Sight(B, W) : z \in View(B, p_obj_copy', Pend', free_nodes', W)
  BY <1>1, AddHeap DEF AddNode, Changed, clockVars, sectionVars, ringVars, syncVars, derefVars
<1>5. Flips(B, t, v) BY <1>1, <1>4 DEF Published, SetInv, Toggle, Flips
<1>6. \A z \in SV(B, t) : z \in View(B, p_obj_copy', Pend', free_nodes', Sees(t)) \union free_nodes'[t]
  BY <1>4 DEF Sees, SV
<1>8. QED
  BY <1>4, <1>1, <1>5, <1>6, UpdateRest DEF AddNode, Changed, clockVars, sectionVars, ringVars,
     syncVars, derefVars, Goto, TypeOK, ExtraTypes

\* What a removal makes of the heap.
LEMMA RemoveHeap ==
  ASSUME LogInv, NEW t \in Threads, NEW B, Heap(B), NEW s \in Slots, NEW x \in Node, NEW q \in Node,
         q = Act(ptr[t].p_next), BothLocked(B, t, s, x, q), pc[t] = "write", op[t] = "remove",
         NEW y, y = Act(ptr[t].n), AssignNext(t, y), objVars' = objVars, rlu_free(t, ptr[t].p_next),
         TypeOK'
  PROVE  /\ p_obj_copy' = p_obj_copy /\ Heap(B)' /\ y \in Node \ MinNodes
         /\ \A W \in SUBSET Threads : t \notin W => KeptFor(B, B, W, W)
         /\ \A W \in SUBSET Threads :
              /\ key[t] \in Vals(B, W)
              /\ t \in W => /\ NextVals(B, W) = Vals(B, W) \ {key[t]}
                            /\ \A z \in Sight(B, W) :
                                 z \in View(B, p_obj_copy', Pend', free_nodes', W) \union free_nodes'[t]
<1>1. TypeOK /\ LocksAtHome BY DEF LogInv
<1>2. data' = data /\ p_obj_copy' = p_obj_copy /\ allocated' = allocated BY DEF objVars
<1>3. /\ x \in B \ MaxNodes /\ q \in DataNodes /\ q = data[x].p_next /\ p_obj_copy[x] \in Copies
      /\ p_obj_copy[x] = <<t, s, 1>> /\ p_obj_copy[q] = <<t, s, 2>> /\ Pend[x] = data[x]
      /\ data[q].val = key[t] /\ y = data[q].p_next
  BY DEF BothLocked
<1>4. y \in Node \ MinNodes
  <2>4. y \in Node BY <1>3, RluListAssumption, HeapFacts DEF Heap, Edge, Linked
  <2>5. data[q] \in NodeContents /\ y # NULL BY <1>1, <2>4, PointerAssumption DEF TypeOK
  <2>6. QED BY <1>3, <2>4, <2>5 DEF NodeContents
<1>5. /\ Pend'[x].val = data[x].val /\ Pend'[x].p_next = y
      /\ Pend'[x] \in NodeContents
      /\ \A z \in Node \ {x} : Pend'[z] = IF p_obj_copy[z] = NULL THEN data'[z] ELSE Pend[z]
  BY <1>1, <1>2, <1>4, AssignPend
<1>8. /\ free_nodes' \in [Threads -> SUBSET DataNodes] /\ free_nodes'[t] = free_nodes[t] \union {q}
      /\ \A u \in Threads \ {t} : free_nodes'[u] = free_nodes[u]
  BY HeapFacts, <1>3 DEF Heap, rlu_free, Act
<1> PICK d, k, c, a, f, g, h :
      /\ d = data /\ k = p_obj_copy /\ c = Pend /\ a = allocated /\ f = free_nodes
      /\ g = Pend' /\ h = free_nodes'
  OBVIOUS
<1>9. RemovesNode(B, d, k, c, a, f, t, s, x, q, g, h)
  BY <1>3, <1>5, <1>2, <1>1, PendFacts, <1>8 DEF Heap, RemovesNode, Pend
<1>11. ASSUME NEW W \in SUBSET Threads
       PROVE  /\ d[q].val \in Values(B, d, k, c, f, W)
              /\ t \in W => /\ Values(B, d, k, g, h, W) = Values(B, d, k, c, f, W) \ {d[q].val}
                           /\ View(B, k, c, f, W) \subseteq View(B, k, g, h, W) \union {q}
  <2>2. QED BY ONLY <1>9, RemoveValues, W \in SUBSET Threads DEF RemovesNode
<1>14. ASSUME NEW W \in SUBSET Threads
       PROVE  /\ key[t] \in Vals(B, W)
              /\ t \in W => /\ NextVals(B, W) = Vals(B, W) \ {key[t]}
                           /\ \A z \in Sight(B, W) :
                                z \in View(B, p_obj_copy', Pend', free_nodes', W) \union free_nodes'[t]
  BY <1>2, <1>3, <1>8, <1>11 DEF Vals, NextVals, Sight
<1>15. QED BY <1>2, <1>4, <1>9, HeapRemove, <1>14 DEF Heap, KeptFor

\* A node is unlinked.
LEMMA ObjRemoveNode ==
  ASSUME Base, NEW t \in Threads, Apart(t), NEW B, ObjectInv(B), RemoveNode(t), LogInv'
  PROVE  /\ ObjectInv(B)'
         /\ \A W \in SUBSET Threads : key[t] \in Vals(B, W)
<1>1. /\ TypeOK /\ LogInv /\ Heap(B) /\ SetInv(B) /\ pc[t] = "write" /\ op[t] = "remove"
      /\ ExtraTypes /\ ExtraTypes' /\ TypeOK'
  BY RunApart DEF Base, LogInv, ObjectInv, RemoveNode, Run, Decide
<1> PICK s \in Slots, x \in Node, q \in Node :
      /\ s = CurrentSlot(t) /\ x = Act(ptr[t].p_prev) /\ q = Act(ptr[t].p_next)
      /\ BothLocked(B, t, s, x, q)
  BY <1>1, WriteReady
<1> PICK y : y = Act(ptr[t].n) /\ AssignNext(t, y) BY DEF RemoveNode, Act
<1> PICK v : v = key[t] OBVIOUS
<1>4. /\ p_obj_copy' = p_obj_copy /\ Heap(B)' /\ y \in Node \ MinNodes
      /\ \A W \in SUBSET Threads : t \notin W => KeptFor(B, B, W, W)
      /\ \A W \in SUBSET Threads :
           /\ v \in Vals(B, W)
           /\ t \in W => /\ NextVals(B, W) = Vals(B, W) \ {v}
                         /\ \A z \in Sight(B, W) :
                              z \in View(B, p_obj_copy', Pend', free_nodes', W) \union free_nodes'[t]
  BY <1>1, RemoveHeap DEF RemoveNode, Changed, clockVars, sectionVars, ringVars, syncVars, derefVars
<1>5. Flips(B, t, v) BY <1>1, <1>4 DEF Published, SetInv, Toggle, Flips
<1>6. \A z \in SV(B, t) : z \in View(B, p_obj_copy', Pend', free_nodes', Sees(t)) \union free_nodes'[t]
  BY <1>4 DEF Sees, SV
<1>8. ObjectInv(B)'
  BY <1>1, <1>4, <1>5, <1>6, UpdateRest DEF RemoveNode, Changed, Goto, TypeOK, ExtraTypes, objVars,
     clockVars, sectionVars, ringVars, syncVars, derefVars
<1>9. QED BY <1>4, <1>8

-----------------------------------------------------------------------------
(* The invariant of the objects *)

\* When nothing changes.
LEMMA ObjStutter ==
  ASSUME Base, UNCHANGED vars, ObjInv
  PROVE  Waits' /\ ExtraTypes' /\ ObjInv'
<1> USE DEF vars, rluVars, callVars, derefVars, objVars, clockVars, sectionVars, logVars,
            ringVars, syncVars, driverVars, historyVars
<1>3. PICK B \in SUBSET Node : ObjectInv(B) BY DEF ObjInv
<1>4. Main \in Threads BY RluListAssumption
<1>5. Apart(Main) BY DEF Apart, SameOthers, SameThread, SameRest
<1>6. HeapUntouched /\ VersionKept(Main) BY DEF HeapUntouched, VersionKept
<1>7. PtrInv(B, Main)'
  <2> PICK t \in Threads : t = Main BY <1>4
  <2>5. \A p, q : Follows(t, p, q)' <=> Follows(t, p, q) BY <1>6, StillSees DEF Follows
  <2>6. LogOf(t)' <=> LogOf(t) BY DEF LogOf, CurrentSet, CurrentSlot
  <2>7. PtrInv(B, t)'
    BY <1>3, <1>6, StillSees, <2>5, <2>6 DEF PtrInv, ObjectInv, PtrSet, Sees, InSection, Before
  <2>8. QED BY <2>7
<1>8. SlotInv(Main)' BY <1>3, <1>4, <1>6, SlotUntouched DEF ObjectInv
<1>9. ObjectInv(B)'
  <2>2. view'[Main] # NULL <=> (InSection(Main) /\ pc[Main] # "reader_unlock")'
    BY <1>3, <1>4 DEF InSection, ObjectInv, SetInv
  <2>3. /\ UNCHANGED <<set, delta>> /\ pc'[Main] = pc[Main]
        /\ view'[Main] # NULL => view'[Main] = view[Main] /\ writer_version' = writer_version
                                 /\ local_version'[Main] = local_version[Main]
    OBVIOUS
  <2>4. LogInv /\ ClockInRange /\ OneAdvances BY DEF Base
  <2> HIDE DEF vars, rluVars, callVars, derefVars, objVars, clockVars, sectionVars, logVars,
               ringVars, syncVars, driverVars, historyVars
  <2>5. QED BY <1>3, <1>4, <1>5, <1>6, <1>7, <1>8, <2>2, <2>3, <2>4, CalmStep
<1>10. QED
  BY <1>9 DEF ObjInv, Base, ExtraTypes, Pending, Behindhand, Waits, WaitInv, InSection, Skips,
     CommitInv

\* The counts of the synchronizations after any step.
LEMMA WaitsRun ==
  ASSUME Base, NEW t \in Threads, Apart(t), ExtraTypes', LogInv', Run(t)
  PROVE  Waits'
<1>1. TypeOK' BY DEF LogInv
<1>2. Waits /\ LogInv /\ ExtraTypes /\ ClockInRange /\ OneAdvances BY DEF Base
<1>3. CASE \/ \E o \in OpNames, k \in Keys : Begin(t, o, k)
           \/ CheckpointStep(t) \/ TakeView(t) \/ Register(t) \/ Leave(t)
  BY <1>1, <1>2, <1>3, WaitsOther
<1>4. CASE SyncStep(t) \/ Publish(t) BY <1>1, <1>2, <1>4, WaitsSync
<1>5. CASE Traverse(t) \/ Decide(t) BY <1>1, <1>2, <1>5, WaitsTraverse
<1>6. QED BY <1>3, <1>4, <1>5 DEF Run, Library

\* The objects after any step.
LEMMA ObjRun ==
  ASSUME Base, NEW t \in Threads, Apart(t), LogInv', Run(t), NEW B, ObjectInv(B)
  PROVE  \E C : ObjectInv(C)'
<1>1. CASE \/ \E o \in OpNames, k \in Keys : Begin(t, o, k)
           \/ CheckpointStep(t) \/ Return(t) \/ Finish(t)
  BY <1>1, ObjPause
<1>2. CASE Library(t)
  BY ObjPublish, ObjTakeView, ObjSync, ObjQuiesced, ObjWriteBack, ObjWriteBackDone, ObjSyncEnd, <1>2
     DEF SyncStep, Library
<1>3. CASE Traverse(t)
  BY <1>3, ObjOpenSection, ObjDeref, ObjSteal, ObjFirstNext, ObjAdvance DEF Traverse
<1>4. CASE Decide(t)
  BY <1>4, ObjAnswer, ObjRemoveHere, ObjTryLock, ObjCompareAndSwap, ObjAddNode, ObjRemoveNode DEF Decide
<1>5. CASE Unlock(t) \/ Abort(t) \/ AbortUnlock(t) BY <1>5, ObjUnlock, ObjAbort, ObjAbortUnlock
<1>6. QED BY <1>1, <1>2, <1>3, <1>4, <1>5 DEF Run, Leave

\* B is a set of nodes.
LEMMA ListedNodes ==
  ASSUME NEW B, ObjectInv(B)
  PROVE  B \in SUBSET Node
BY HeapFacts DEF ObjectInv, Heap

\* All of it together is kept by every step.
LEMMA ObjInvStep ==
  ASSUME Base, ObjInv, LogInv', [Next]_vars
  PROVE  Waits' /\ ExtraTypes' /\ ObjInv'
<1>1. CASE UNCHANGED vars BY <1>1, ObjStutter
<1>2. CASE Next
  BY <1>2, RunApart, WaitsRun, ObjRun DEF Next, Base, ObjInv, ObjectInv, Heap, IsHeap, HeapTypes
<1>3. QED BY <1>1, <1>2

-----------------------------------------------------------------------------
(* The initial state *)

\* The heads lead to the ends of their lists.
LEMMA FirstLists ==
  ASSUME Init
  PROVE  Linked(Sentinels, data)
<1>1. ASSUME NEW x \in Sentinels
      PROVE  data[x].val = IF x \in MinNodes THEN LIST_VAL_MIN ELSE LIST_VAL_MAX
  BY RluListAssumption DEF Init, Sentinels
<1>2. ASSUME NEW x \in MaxNodes
      PROVE  x \notin MinNodes /\ data[x].val = LIST_VAL_MAX /\ data[x].p_next = NULL
  BY RluListAssumption DEF Init
<1>3. ASSUME NEW b \in Buckets
      PROVE  Home(data, MinNode[b]) = b /\ Home(data, MaxNode[b]) = b
  BY RluListAssumption, SentinelAssumption DEF MinNodes, MaxNodes, Home
<1>4. ASSUME NEW b \in Buckets
      PROVE  data[MinNode[b]].p_next = MaxNode[b]
  BY RluListAssumption, SentinelAssumption DEF MinNodes, Init
<1>5. ASSUME NEW x \in Sentinels
      PROVE  \E b \in Buckets : Home(data, x) = b /\ (x = MinNode[b] \/ x = MaxNode[b])
  BY <1>3 DEF Sentinels, MinNodes, MaxNodes
<1>6. ASSUME NEW x \in Sentinels \ MaxNodes PROVE Edge(Sentinels, data, x, data[x].p_next)
  BY <1>1, RluListAssumption, <1>2, <1>3, <1>4 DEF Sentinels, MinNodes, MaxNodes, Edge
<1>7. ASSUME NEW x \in Sentinels, NEW y \in Sentinels, Home(data, x) = Home(data, y), data[x].val = data[y].val
      PROVE  x = y BY <1>5, <1>7, <1>1, <1>2, RluListAssumption DEF MinNodes, MaxNodes, Sentinels
<1>10. QED BY <1>2, <1>6, <1>7, <1>1, RluListAssumption DEF Linked, Sentinels

\* Nothing is locked, deferred or removed.
LEMMA ObjStart ==
  ASSUME Init, LogInv
  PROVE  ObjectInv(Sentinels)
<1>1. /\ TypeOK /\ \A x \in Node : p_obj_copy[x] = NULL
      /\ allocated = Sentinels /\ Sentinels \subseteq Node
      /\ \A t \in Threads : /\ free_nodes[t] = {} /\ pc[t] = "idle" /\ raw[t] = NULL /\ written[t] = 0
                            /\ ws_wb_counter[t] = 0 /\ ws_tail_counter[t] = 0 /\ ~is_write_detected[t]
                            /\ \A s \in Slots : obj_write_set[t][s] = <<>>
      /\ set = {} /\ \A t \in Threads : delta[t] = {} /\ view[t] = NULL
  BY RluListAssumption DEF Init, RluInit, Sentinels, LogInv
<1>3. Heap(Sentinels)
  BY <1>1, PendFacts, FirstLists DEF Init, RluInit, HeapTypes, TypeOK, Locks, Changes, Frees, Heap,
     IsHeap, LogInv, Pend
<1>4. ASSUME NEW W \in SUBSET Threads PROVE Vals(Sentinels, W) = {} BY <1>1 DEF View, Vals, Values
<1>6. ASSUME NEW t \in Threads PROVE PtrInv(Sentinels, t) /\ SlotInv(t)
  <2>3. Ring(t) BY DEF LogInv
  <2>4. Len(Deferred(t)) = 0 /\ written[t] = 0 BY <1>1, <2>3, DeferredFacts, SMTT(30)
  <2>5. QED BY <1>1, <2>4 DEF SlotInv, PtrInv, InSection, Labels
<1>7. QED
  BY <1>3, <1>1, <1>4, <1>6 DEF ObjectInv, Published, Differs, Toggle, InSection, Labels, SetInv

\* No synchronization has begun.
LEMMA ExtraStart ==
  ASSUME Init
  PROVE  ExtraTypes /\ Waits
<1>4. Cardinality(Pending) = 0 BY FS_EmptySet DEF Pending, Init, RluInit
<1>6. QED BY <1>4 DEF Waits, Init, RluInit, ExtraTypes, WaitInv, InSection, Labels, CommitInv

\* In the initial state.
LEMMA RluInvInit == Init => RluInv
<1>1. SUFFICES ASSUME Init PROVE RluInv OBVIOUS
<1>6. QED
  BY <1>1, LogInvInit, ExtraStart, ObjStart, RluListAssumption DEF RluInv, Init, RluInit,
     OneAdvances, Sentinels, ObjInv

\* After every step.
LEMMA RluInvStep == ~ClockRace /\ RluInv /\ ClockInRange /\ [Next]_vars => RluInv'
<1>1. SUFFICES ASSUME ~ClockRace, RluInv, ClockInRange, [Next]_vars PROVE RluInv' OBVIOUS
<1>6. QED BY LogInvStep, <1>1, OneAdvancesStep, ObjInvStep DEF RluInv, Base

(***************************************************************************)
(* The inductive invariant of the objects.                                 *)
(***************************************************************************)
THEOREM RluInvariant == ASSUME ~ClockRace PROVE Spec /\ []ClockInRange => []RluInv
BY RluInvInit, RluInvStep, PTL DEF Spec

-----------------------------------------------------------------------------
(* What the invariant says of the assertions and of the pointers *)

\* Who has written back everything has no lock left, and what it frees is not
\* locked.
LEMMA FreedUnlocked ==
  ASSUME RluInv, NEW t \in Threads
  PROVE  FreesUnlocked(t)
<1>1. SUFFICES ASSUME pc[t] = "sync_end", NEW x \in free_nodes[t]
               PROVE  x \in allocated /\ p_obj_copy[x] = NULL
  BY DEF FreesUnlocked
<1>3. ~is_write_detected[t] /\ ws_wb_counter[t] = ws_tail_counter[t] /\ ws_tail_counter[t] \in Nat
  BY <1>1 DEF CommitInv, Ring, TypeOK, RluInv, LogInv, Waits
<1>5. PICK B : IsHeap(B, data, p_obj_copy, Pend, allocated, free_nodes)
  BY DEF RluInv, ObjInv, ObjectInv, Heap
<1> PICK d, k, c, a, f : d = data /\ k = p_obj_copy /\ c = Pend /\ a = allocated /\ f = free_nodes
  OBVIOUS
<1>9. QED BY <1>3, NoOwnLock, <1>1, <1>5, HeapFacts DEF Freeing, Locks, RluInv, LogInv, Waits, Frees

\* The copy that is to be written back is what its object is locked for.
LEMMA WritesBackLocked ==
  ASSUME RluInv, NEW t \in Threads
  PROVE  WriteBackFindsLock(t)
<1>1. SUFFICES ASSUME pc[t] = "writeback", written[t] < Len(Deferred(t)),
                      NEW p, p = Deferred(t)[written[t] + 1]
               PROVE  p_obj_copy[Copy(p).actual] # NULL /\ ThreadOf(p_obj_copy[Copy(p).actual]) = t
  BY DEF WriteBackFindsLock
<1>3. Deferred(t) \in Seq(Copies) /\ written[t] \in Nat
  BY DeferredFacts DEF TypeOK, RluInv, LogInv, ObjInv, ObjectInv
<1> PICK n \in Nat : n = Len(Deferred(t)) BY <1>3
<1> PICK j \in Nat : j = written[t] + 1 BY <1>3
<1>7. QED
  BY <1>1, <1>3, DeferredFacts, PointerAssumption DEF ThreadOf, SlotInv, RluInv, LogInv, ObjInv,
     ObjectInv

\* The objects of the write set of a section that was aborted are locked for it.
LEMMA AbortsLocked ==
  ASSUME RluInv, NEW t \in Threads
  PROVE  AbortFindsLock(t)
<1>1. SUFFICES ASSUME pc[t] = "unlock_objs", NEW i \in DOMAIN CurrentSet(t)
               PROVE  p_obj_copy[CurrentSet(t)[i].actual] = <<t, CurrentSlot(t), i>>
  BY DEF AbortFindsLock
<1>3. is_write_detected[t] BY <1>1, EmptyLog DEF SyncLabels, RluInv, ObjInv, ObjectInv
<1>4. QED BY <1>1, <1>3 DEF SlotInv, RluInv, ObjInv, ObjectInv

\* All assertions.
LEMMA RluInvAssertions == RluInv => AssertionsHold
<1>1. SUFFICES ASSUME RluInv PROVE AssertionsHold OBVIOUS
<1>3. QED
  BY <1>1, LogInvRoom, FreedUnlocked, WritesBackLocked, AbortsLocked DEF AssertionsHold, RluInv

(***************************************************************************)
(* The RLU_ASSERTs about locks and the ring of write sets hold for every   *)
(* number of threads and nodes, if one thread at a time is between lines   *)
(* 563 and 564 of rlu.c: a write-back and an abort find their own locks,   *)
(* what is freed is not locked, and there is a free slot after an update.  *)
(***************************************************************************)
THEOREM RluAssertions == ASSUME ~ClockRace PROVE Spec /\ []ClockInRange => []AssertionsHold
BY RluInvariant, RluInvAssertions, PTL

\* What a section may see, or has removed itself, is in memory.
LEMMA InMemory ==
  ASSUME NEW B, Heap(B), NEW t \in Threads, NEW x \in SV(B, t) \union free_nodes[t]
  PROVE  x \in allocated
<1>1. CASE x \in SV(B, t) BY <1>1, SeenFacts
<1>2. CASE x \in free_nodes[t] BY <1>2 DEF Heap, IsHeap, Frees, Freeing
<1>3. QED BY <1>1, <1>2

\* No pointer leads to what was freed.
LEMMA RluInvPointers == RluInv => NoStalePointer
<1>1. SUFFICES ASSUME RluInv, NEW t \in Threads, NEW p \in Held(t) PROVE Valid(p)
  BY DEF NoStalePointer
<1>2. CASE p \notin Node BY <1>1, <1>2, LogInvCopies DEF RluInv, CopiesInLog
<1>3. CASE p \in Node
  <2>1. PICK B : Heap(B) /\ PtrInv(B, t) BY <1>1 DEF RluInv, ObjInv, ObjectInv
  <2>3. p # NULL /\ p \notin Copies /\ Act(p) = p BY <1>3, PointerAssumption DEF Act, FORCE_ACTUAL
  <2>5. QED
    BY <1>3, <2>1, <2>3, <1>1, InMemory DEF Valid, PtrSet, PtrInv, Good, TypeOK, Held, RluInv,
       LogInv
<1>4. QED BY <1>2, <1>3

(***************************************************************************)
(* No section holds a pointer to a freed object or into a slot that was    *)
(* reset, for every number of threads, nodes and write sets, if one thread *)
(* at a time is between lines 563 and 564 of rlu.c.                        *)
(***************************************************************************)
THEOREM NoPointerIsStale == ASSUME ~ClockRace PROVE Spec /\ []ClockInRange => []NoStalePointer
BY RluInvariant, RluInvPointers, PTL

-----------------------------------------------------------------------------
(* The list implements SnapshotSet *)

\* Steps that go to label l, or from l into a synchronization.
LEMMA CallGoes ==
  ASSUME LogInv, NEW t \in Threads, CallOf(t), bench' = bench, op'[t] = op[t], result'[t] = result[t],
         NEW l \in AllLabels \ SyncLabels,
         \/ pc'[t] = l
         \/ pc'[t] \in SyncLabels /\ ret'[t] = l
            /\ l \in {"register", "reader_lock", "unlocked", "ret", "finish", "done"},
         l \in {"idle", "finish", "done"} <=> Outside(t),
         (l \in {"reader_unlock", "unlocked", "ret"} \/
          (l \in {"unlock_objs", "aborted"} /\ bench = "rlu-forgive")) <=> Decided(t)
  PROVE  CallOf(t)'
BY DEF CallOf, Outside, Decided, SyncLabels

\* The labels of the steps of t.
LEMMA CallRun ==
  ASSUME LogInv, TypeOK', CallInv, NEW t \in Threads, Run(t)
  PROVE  CallOf(t)' /\ bench' = bench
<1>1. TypeOK /\ CallOf(t) /\ Returning(t) /\ bench \in {"rlu", "rlu-forgive"} /\ pc[t] \in AllLabels
  BY DEF LogInv, CallInv, TypeOK
<1> USE DEF objVars, clockVars, sectionVars, logVars, ringVars, syncVars, callVars, derefVars,
            driverVars, historyVars
<1> DEFINE Leads(l) ==
      /\ bench' = bench /\ op'[t] = op[t] /\ result'[t] = result[t]
      /\ \/ pc'[t] = l
         \/ pc'[t] \in SyncLabels /\ ret'[t] = l
            /\ l \in {"register", "reader_lock", "unlocked", "ret", "finish", "done"}
      /\ l \in {"idle", "finish", "done"} <=> Outside(t)
      /\ (l \in {"reader_unlock", "unlocked", "ret"} \/
          (l \in {"unlock_objs", "aborted"} /\ bench = "rlu-forgive")) <=> Decided(t)
<1>2. ASSUME NEW l \in AllLabels \ SyncLabels, Leads(l) PROVE CallOf(t)' /\ bench' = bench
  BY <1>1, <1>2, CallGoes
<1>3. "sync" \in SyncLabels /\ pc \in [Threads -> AllLabels] /\ ret \in [Threads -> AllLabels]
  BY <1>1 DEF SyncLabels, TypeOK
<1>4. /\ {"idle", "reader_lock", "register", "unlocked", "unlock_objs", "aborted", "ret", "finish", "done"}
           \subseteq AllLabels \ SyncLabels
      /\ Labels \union {"version"} \subseteq AllLabels \ SyncLabels
  BY DEF AllLabels, SyncLabels, PauseLabels, Labels
<1>5. CASE \E o \in OpNames, k \in Keys : Begin(t, o, k)
  BY <1>5, <1>1, <1>3, SMTT(30) DEF Begin, Checkpoint, CallSync, Goto, OpNames, TypeOK, CallOf, Outside,
     Decided, SyncLabels
<1>6. CASE CheckpointStep(t)
  BY <1>3, <1>6, <1>2, <1>4, <1>1 DEF CheckpointStep, Checkpoint, CallSync, Goto, Outside, Decided,
     SyncLabels
<1>7. CASE Library(t)
  <2>1. CASE TakeView(t)
    BY <1>3, <2>1, <1>2, <1>4 DEF TakeView, ReadVersion, Goto, Outside, Decided, SyncLabels, Labels
  <2>2. CASE Register(t) /\ UNCHANGED <<callVars, derefVars, driverVars, historyVars>>
    BY <1>3, <2>2, <1>2, <1>4 DEF Register, Goto, Outside, Decided, SyncLabels
  <2>3. CASE \/ Publish(t)
             \/ SyncStep(t) /\ UNCHANGED <<callVars, derefVars, driverVars, historyVars>>
    <3>1. pc[t] \in SyncLabels /\ ret'[t] = ret[t] /\ UNCHANGED <<bench, op, result>>
          /\ (pc'[t] \in SyncLabels \/ pc'[t] = ret[t])
      <4>0. UNCHANGED <<bench, op, result>> BY <2>3 DEF Publish
      <4>1. CASE Publish(t) \/ SyncNothing(t) \/ SyncVersion(t) \/ SyncEnd(t)
        BY <1>3, <4>0, <4>1 DEF Publish, SyncAdvance, SyncNothing, SyncVersion, SyncEnd, Goto, SyncLabels
      <4>2. CASE (\E u \in Threads : SyncReadCounter(t, u)) \/ SyncQuiesced(t) \/ WriteBack(t)
        BY <1>3, <4>0, <4>2 DEF SyncReadCounter, SyncQuiesced, WriteBack, Goto, SyncLabels
      <4>3. CASE WriteBackDone(t) \/ SyncCommit(t)
        BY <1>3, <4>0, <4>3 DEF WriteBackDone, SyncCommit, Goto, SyncLabels
      <4>4. QED BY <2>3, <4>1, <4>2, <4>3 DEF SyncStep
    <3>4. PICK l : l = ret[t] OBVIOUS
    <3>5. QED BY <1>2, <1>4, <1>1, <3>1, <3>4 DEF Returning, Outside, Decided, SyncLabels
  <2>4. QED BY <1>7, <2>1, <2>2, <2>3 DEF Library
<1>8. CASE Traverse(t) \/ RemoveHere(t) \/ TryLock(t) \/ CompareAndSwap(t)
  <2>1. pc[t] \in Labels \ {"reader_unlock"} /\ pc'[t] \in Labels \ {"reader_unlock"}
        /\ UNCHANGED <<bench, op, result>>
    <3>1. CASE OpenSection(t) \/ FirstNext(t) \/ Advance(t) \/ RemoveHere(t)
      BY <1>3, <3>1 DEF OpenSection, ReadCommitVersion, FirstNext, Advance, RemoveHere, StartDeref, Goto, Labels
    <3>2. CASE Deref(t) \/ Steal(t)
      BY <1>3, <1>1, <3>2 DEF Deref, Steal, EndDeref, Then, Goto, Labels, TypeOK
    <3>3. CASE TryLock(t) BY <1>3, <3>3 DEF TryLock, ReadyToLock, Locked, Goto, Labels
    <3>4. CASE CompareAndSwap(t) BY <1>3, <3>4 DEF CompareAndSwap, Locked, Goto, Labels
    <3>5. QED BY <1>8, <3>1, <3>2, <3>3, <3>4 DEF Traverse
  <2>2. PICK l \in Labels \ {"reader_unlock"} : l = pc'[t] BY <2>1
  <2>4. QED BY <1>2, <1>4, <2>1, <2>2 DEF Outside, Decided, SyncLabels, Labels
<1>9. CASE Answer(t) \/ AddNode(t) \/ RemoveNode(t)
  <2>1. /\ pc[t] \in Labels \ {"reader_unlock"} /\ pc'[t] = "reader_unlock" /\ UNCHANGED <<bench, op>>
        /\ result'[t] \in {0, 1}
    BY <1>1, <1>3, <1>9 DEF TypeOK, Answer, AddNode, RemoveNode, Changed, Goto, Labels
  <2>2. QED BY <1>1, <2>1 DEF CallOf, Outside, Decided, SyncLabels, PENDING, Labels
<1>10. CASE Unlock(t)
  BY <1>3, <1>10, <1>2, <1>4 DEF Unlock, ReaderUnlock, CommitWriteSet, CallSync, Goto, Outside,
     Decided, SyncLabels
<1>11. CASE Abort(t)
  BY <1>1, <1>3, <1>11 DEF TypeOK, Abort, Unregister, Goto, CallOf, Outside, Decided, SyncLabels,
     PENDING, ABORTED
<1>12. CASE AbortUnlock(t)
  BY <1>3, <1>12, <1>2, <1>4 DEF AbortUnlock, UnlockObjs, Goto, Outside, Decided, SyncLabels
<1>13. CASE Return(t)
  BY <1>1, <1>3, <1>13 DEF Return, Goto, TypeOK, CallOf, Outside, Decided, SyncLabels
<1>14. CASE Finish(t)
  BY <1>3, <1>14, <1>2, <1>4 DEF Finish, CallSync, Goto, Outside, Decided, SyncLabels
<1>15. QED BY <1>5, <1>6, <1>7, <1>8, <1>9, <1>10, <1>11, <1>12, <1>13, <1>14 DEF Run, Decide, Leave

\* Every step keeps it.
LEMMA CallInvStep == RluInv /\ CallInv /\ LogInv' /\ [Next]_vars => CallInv'
<1>1. SUFFICES ASSUME RluInv, CallInv, LogInv', [Next]_vars PROVE CallInv' OBVIOUS
<1>2. CASE UNCHANGED vars
  BY <1>1, <1>2 DEF vars, rluVars, callVars, driverVars, CallInv, CallOf, Outside, Decided
<1>3. CASE Next
  BY <1>3, <1>1, CallRun, RunApart DEF Next, RluInv, LogInv, Apart, SameOthers, CallInv, SameThread,
     CallOf, Outside, Decided
<1>4. QED BY <1>1, <1>2, <1>3

\* No call has begun.
LEMMA CallInvInit == Init => CallInv
BY RluListAssumption DEF Init, RluInit, CallInv, CallOf, Outside, Decided, PENDING, SyncLabels

\* The node that a search arrived at tells whether the value is in the view of
\* the section.
LEMMA ViewTells ==
  ASSUME RluInv, NEW t \in Threads, pc[t] = "visit", Value(t) >= key[t]
  PROVE  view[t] # NULL /\ (Value(t) = key[t] <=> key[t] \in view[t])
<1>1. PICK B : Heap(B) /\ SetInv(B) /\ PtrInv(B, t) BY DEF RluInv, ObjInv, ObjectInv
<1>2. LogInv /\ InSection(t) BY DEF RluInv, InSection, Labels
<1> PICK x, y : x = Act(ptr[t].p_prev) /\ y = Act(ptr[t].p_next) OBVIOUS
<1>4. /\ x \in SV(B, t) \ MaxNodes /\ y \in SV(B, t) /\ Home(data, y) = Hash(key[t])
      /\ data[x].val < data[y].val /\ Value(t) = data[y].val /\ data[y].val \in Int
      /\ x \in Node /\ y \in Node
      /\ \A z \in SV(B, t) : Home(data, z) = Hash(key[t]) =>
           data[z].val <= data[x].val \/ data[y].val <= data[z].val
  BY <1>1, <1>2, BehindNext
<1> PICK W \in SUBSET Threads : W = Sees(t) BY DEF Sees
<1> PICK d, k, c, a, f :
      d = data /\ k = p_obj_copy /\ c = Pend /\ a = allocated /\ f = free_nodes
  OBVIOUS
<1>7. IsHeap(B, d, k, c, a, f) /\ SV(B, t) = View(B, k, c, f, W)
      /\ view[t] = {d[z].val : z \in View(B, k, c, f, W) \ Sentinels}
  BY <1>1, <1>2 DEF Heap, SV, Sight, Vals, Values, SetInv
<1>8. ASSUME Value(t) = key[t] PROVE key[t] \in view[t]
  <2>1. SUFFICES ASSUME y \in Sentinels PROVE FALSE
    <3>1. y \in View(B, k, c, f, W) \ Sentinels /\ d[y].val = key[t] BY <1>4, <1>7, <1>8, <2>1
    <3>2. QED BY <1>7, <3>1
  <2>2. data[y].val = LIST_VAL_MIN \/ data[y].val = LIST_VAL_MAX
    BY <1>1, <2>1, SentinelSeen DEF Sentinels
  <2>3. QED BY <1>4, <1>2, HashFacts, <1>8, <2>2
<1>9. ASSUME key[t] \in view[t] PROVE Value(t) = key[t]
  <2>1. PICK z \in View(B, k, c, f, W) \ Sentinels : d[z].val = key[t] BY <1>7, <1>9
  <2>4. d[x].val \in Int BY <1>4, <1>7, HeapFacts
  <2>5. QED BY <1>4, <1>1, <1>2, HashFacts, <2>1, <1>7, ViewBucket, <2>4 DEF PtrInv, Before
<1>10. QED BY <1>1, <1>2, <1>8, <1>9 DEF SetInv

\* A call begins, or returns.
LEMMA RefineCall ==
  ASSUME RluInv, CallInv, NEW t \in Threads,
         (\E o \in OpNames, k \in Keys : Begin(t, o, k)) \/ Return(t)
  PROVE  Abstract!Next
<1> USE DEF objVars, clockVars, sectionVars, logVars, ringVars, syncVars, callVars, derefVars,
            driverVars, historyVars
<1>2. ASSUME NEW o \in OpNames, NEW k \in Keys, Begin(t, o, k) PROVE Abstract!Next
  BY <1>2 DEF Begin, CallOf, Outside, Abstract!Invoke, Abstract!Next, OpNames, CallInv
<1>3. CASE Return(t)
  BY <1>3 DEF Return, CallOf, Decided, Abstract!Return, PENDING, Abstract!PENDING, Abstract!Next,
     CallInv
<1>4. QED BY <1>2, <1>3

\* A section reads the clock, or publishes.
LEMMA RefineClock ==
  ASSUME RluInv, CallInv, NEW t \in Threads, TakeView(t) \/ Publish(t)
  PROVE  Abstract!Next
<1> USE DEF callVars
<1>1. CASE TakeView(t)
  <2>3. view[t] = NULL
    BY <1>1 DEF RluInv, ObjInv, ObjectInv, SetInv, InSection, Labels, TakeView, ReadVersion
  <2>5. QED
    BY <1>1, <2>3 DEF Abstract!Next, TakeView, Abstract!Look, Abstract!Toggle, Toggle, PENDING,
       Abstract!PENDING, CallInv, CallOf, Outside, Decided, SyncLabels, ReadVersion
<1>2. CASE Publish(t) BY <1>2 DEF Publish, Abstract!Publish, Abstract!Toggle, Toggle, Abstract!Next
<1>3. QED BY <1>1, <1>2

\* A section answers from its view.
LEMMA RefineAnswer ==
  ASSUME RluInv, CallInv, NEW t \in Threads, Answer(t)
  PROVE  Abstract!Next
<1>4. ASSUME NEW r, result' = [result EXCEPT ![t] = r] PROVE Abstract!Answer(t, r)
  BY <1>4 DEF Answer, Abstract!Answer, PENDING, Abstract!PENDING, CallInv, CallOf, Decided,
     SyncLabels
<1>8. Abstract!Report(t) BY ViewTells, <1>4 DEF Abstract!Report, Answer
<1>9. QED BY <1>8 DEF Abstract!Next

\* A section changes the set of its thread: nobody else has changed the value.
LEMMA RefineUpdate ==
  ASSUME RluInv, CallInv, ClockInRange, LogInv', NEW t \in Threads, AddNode(t) \/ RemoveNode(t)
  PROVE  Abstract!Next
<1>1. /\ pc[t] = "write" /\ op[t] = IF AddNode(t) THEN "add" ELSE "remove"
      /\ result' = [result EXCEPT ![t] = 1] /\ UNCHANGED <<set, op, key>>
      /\ delta' = [delta EXCEPT ![t] = @ \union {key[t]}] /\ view' = [view EXCEPT ![t] = NULL]
  BY DEF AddNode, RemoveNode, Changed
<1>4. PICK B : ObjectInv(B) BY DEF RluInv, ObjInv
<1> PICK v : v = key[t] OBVIOUS
<1>7. \/ op[t] = "add" /\ \A W \in SUBSET Threads : v \notin Vals(B, W)
      \/ op[t] = "remove" /\ \A W \in SUBSET Threads : v \in Vals(B, W)
  BY <1>1, RunApart, <1>4, ObjAddNode, ObjRemoveNode DEF RluInv, Base, Run, Decide
<1>12. Abstract!Answer(t, 1)
  BY <1>1 DEF Abstract!Answer, PENDING, Abstract!PENDING, CallInv, CallOf, Decided, SyncLabels
<1>13. Abstract!Update(t)
  BY <1>1, <1>4, <1>7, NotDeferred, <1>12 DEF Abstract!Update, Abstract!NoConflict, SetInv,
     InSection, Labels, ObjectInv, Sees, Published
<1>14. QED BY <1>13 DEF Abstract!Next

\* A section gives up.
LEMMA RefineAbort ==
  ASSUME RluInv, CallInv, NEW t \in Threads, Abort(t)
  PROVE  Abstract!Next
<1>3. PICK B : SetInv(B) /\ PtrInv(B, t) BY DEF RluInv, ObjInv, ObjectInv
<1>6. Abstract!Conflict(t)
  BY <1>3 DEF Abstract!Conflict, Abstract!ABORTED, SetInv, PtrInv, InSection, Labels, Abort,
     ABORTED, Abstract!Answer, PENDING, Abstract!PENDING, CallInv, CallOf, Decided, SyncLabels
<1>7. QED BY <1>6 DEF Abstract!Next

\* Nothing else is seen of the set.
LEMMA RefineInvisible ==
  ASSUME NEW t \in Threads,
         \/ CheckpointStep(t) \/ Traverse(t) \/ RemoveHere(t) \/ TryLock(t) \/ CompareAndSwap(t)
         \/ Unlock(t) \/ AbortUnlock(t) \/ Finish(t)
         \/ (SyncStep(t) \/ Register(t)) /\ UNCHANGED <<callVars, derefVars, driverVars, historyVars>>
  PROVE  UNCHANGED <<set, delta, op, key, view, result>>
<1> USE DEF callVars, historyVars
<1>1. CASE CheckpointStep(t) BY <1>1 DEF CheckpointStep
<1>2. CASE Traverse(t) BY <1>2 DEF Traverse, OpenSection, Deref, Steal, FirstNext, Advance
<1>3. CASE RemoveHere(t) \/ TryLock(t) \/ CompareAndSwap(t)
  BY <1>3 DEF RemoveHere, TryLock, CompareAndSwap
<1>4. CASE Unlock(t) \/ AbortUnlock(t) \/ Finish(t) BY <1>4 DEF Unlock, AbortUnlock, Finish
<1>5. CASE (SyncStep(t) \/ Register(t)) /\ UNCHANGED <<callVars, derefVars, driverVars, historyVars>>
  BY <1>5
<1>6. QED BY <1>1, <1>2, <1>3, <1>4, <1>5

\* Every step is one of the abstract set, or nothing.
LEMMA RefineStep ==
  RluInv /\ CallInv /\ ClockInRange /\ LogInv' /\ [Next]_vars => [Abstract!Next]_(Abstract!vars)
<1>1. SUFFICES ASSUME RluInv, CallInv, ClockInRange, LogInv', [Next]_vars
               PROVE  [Abstract!Next]_(Abstract!vars)
  OBVIOUS
<1>2. CASE UNCHANGED vars BY <1>2 DEF vars, callVars, historyVars, Abstract!vars
<1>3. ASSUME NEW t \in Threads, Run(t) PROVE Abstract!Next \/ UNCHANGED <<set, delta, op, key, view, result>>
  BY <1>1, RefineCall, RefineClock, RefineAnswer, RefineUpdate, RefineAbort, RefineInvisible, <1>3
     DEF Run, Library, Decide, Leave
<1>4. QED BY <1>1, <1>2, <1>3 DEF Next, Abstract!vars

(***************************************************************************)
(* The list implements SnapshotSet, for every number of threads, nodes,    *)
(* values, buckets and write sets, if one thread at a time is between      *)
(* lines 563 and 564 of rlu.c: every call answers what is true of the      *)
(* snapshot of its section, an update conflicts with every unpublished     *)
(* update of the same value, and the updates of a thread are published at  *)
(* once.                                                                   *)
(***************************************************************************)
THEOREM RluSnapshotSet == ASSUME ~ClockRace PROVE Spec /\ []ClockInRange => ImplementsSnapshotSet
<1>7. QED
  BY RefineStep, RluInvariant, CallInvStep, CallInvInit, PTL DEF Spec, ImplementsSnapshotSet,
     Abstract!Spec, Init, Abstract!Init, PENDING, Abstract!PENDING, RluInv

-----------------------------------------------------------------------------
(* A walk along the lists meets what a section is to see *)

\* No two nodes in sight have the same value in the same bucket.
LEMMA ViewApart ==
  ASSUME NEW B, NEW d, NEW k, NEW c, NEW a, NEW f, IsHeap(B, d, k, c, a, f),
         NEW W \in SUBSET Threads, NEW x \in View(B, k, c, f, W), NEW y \in View(B, k, c, f, W),
         Home(d, x) = Home(d, y), d[x].val = d[y].val
  PROVE  x = y
<1> DEFINE Above(z, p) == /\ p \in B \ MaxNodes /\ c[p].p_next = z /\ Home(d, z) = Home(d, p)
                          /\ d[p].val < d[z].val /\ d[z].val < d[d[p].p_next].val
<1>1. /\ B \in SUBSET Node /\ d \in [Node -> NodeContents] /\ Linked(B, d)
      /\ \A z \in Node : d[z].val \in Int
  BY HeapFacts
<1>2. \A z \in View(B, k, c, f, W) \ B : \E p : Above(z, p) BY ViewFacts
<1>3. x \in Node /\ y \in Node BY ViewFacts
<1>4. ASSUME NEW z \in B, NEW w \in Node, NEW p, Above(w, p), Home(d, z) = Home(d, w), d[z].val = d[w].val
      PROVE  FALSE BY <1>1, <1>4, BeforeOrBehind
<1>5. CASE x \in B /\ y \in B BY <1>1, <1>5 DEF Linked
<1>6. CASE x \in B /\ y \notin B BY <1>2, <1>3, <1>4, <1>6
<1>7. CASE x \notin B /\ y \in B BY <1>2, <1>3, <1>4, <1>7
<1>8. CASE x \notin B /\ y \notin B
  <2>1. PICK p, o : Above(x, p) /\ Above(y, o) BY <1>2, <1>8
  <2>2. PICK q, r : q = d[p].p_next /\ r = d[o].p_next OBVIOUS
  <2>3. CASE p # o
    <3>1. /\ q \in B /\ (d[o].val < d[p].val \/ d[q].val <= d[o].val)
          /\ r \in B /\ (d[p].val < d[o].val \/ d[r].val <= d[p].val)
      <4>1. Home(d, p) = Home(d, o) /\ p \in B \ MaxNodes /\ o \in B \ MaxNodes BY <2>1
      <4>4. QED BY <1>1, <2>2, <2>3, <4>1, BeforeOrBehind
    <3>4. QED BY <3>1, <2>1, <2>2, <1>1, <1>3
  <2>4. QED BY <2>1, <2>3
<1>9. QED BY <1>5, <1>6, <1>7, <1>8

\* A node with nodes below it is behind one of them.
LEMMA LowerNext ==
  ASSUME NEW B, NEW d, NEW k, NEW c, NEW a, NEW f, IsHeap(B, d, k, c, a, f),
         NEW W \in SUBSET Threads, NEW V, V = View(B, k, c, f, W), NEW x \in V, Lower(d, V, x) # {}
  PROVE  \E y \in Lower(d, V, x) : y \notin MaxNodes /\ Vis(d, k, c, W, y).p_next = x
<1> DEFINE L == Lower(d, V, x)
<1>1. V \subseteq Node /\ \A y \in V : d[y].val \in Int BY HeapFacts, ViewFacts
<1> DEFINE D == {d[x].val - d[y].val : y \in L}
<1>2. D \in SUBSET Nat /\ D # {} BY <1>1 DEF Lower
<1>3. PICK m \in D : \A e \in D : m <= e BY <1>2, LeastNatural
<1>4. PICK y \in L : m = d[x].val - d[y].val BY <1>3
<1>5. ASSUME NEW z \in L PROVE d[z].val <= d[y].val
  <2>2. d[x].val \in Int /\ d[y].val \in Int /\ d[z].val \in Int BY <1>1 DEF Lower
  <2>3. QED BY <1>3, <1>4, <2>2
<1>7. y \notin MaxNodes
  BY HeapFacts, RluListAssumption, <1>1, ViewBucket DEF Linked, Sentinels, Lower
<1>8. PICK z : z = Vis(d, k, c, W, y).p_next OBVIOUS
<1>12. QED BY <1>7, <1>8, ViewNext, <1>1, <1>5, ViewApart DEF Lower

\* Only the head of a list has no node below it.
LEMMA LowerHead ==
  ASSUME NEW B, NEW d, NEW k, NEW c, NEW a, NEW f, IsHeap(B, d, k, c, a, f),
         NEW W \in SUBSET Threads, NEW V, V = View(B, k, c, f, W), NEW x \in V, Lower(d, V, x) = {}
  PROVE  x \in MinNodes
<1>1. SUFFICES ASSUME x \notin MinNodes PROVE FALSE OBVIOUS
<1>2. PICK b \in Buckets : Home(d, x) = b /\ d[x].val > LIST_VAL_MIN
  <2>1. CASE x \in MaxNodes
    <3>1. PICK b \in Buckets : x = MaxNode[b] BY <2>1 DEF MaxNodes
    <3>4. Home(d, x) = b
      BY <2>1, RluListAssumption, <1>1, <3>1, SentinelAssumption DEF Home, MinNodes
    <3>6. QED BY <3>4, <2>1, HeapFacts, RluListAssumption DEF Linked
  <2>2. CASE x \notin MaxNodes
    BY <1>1, <2>2, ViewBucket, RluListAssumption DEF Sentinels, Hash, Buckets
  <2>3. QED BY <2>1, <2>2
<1>3. PICK h : h = MinNode[b] OBVIOUS
<1>4. h \in MinNodes /\ h \in Sentinels BY <1>3 DEF MinNodes, Sentinels
<1>5. h \in V /\ d[h].val = LIST_VAL_MIN BY <1>4, HeapFacts, RluListAssumption DEF Linked, View
<1>8. QED BY <1>2, <1>5, <1>3, HomeSentinel DEF Lower

-----------------------------------------------------------------------------
(* The walk of Seen *)

\* There is such a function, of every length.
LEMMA WalkExists ==
  ASSUME NEW c \in Nat, NEW self, NEW lv, NEW steal, NEW check
  PROVE  \E f : IsWalk(f, c, self, lv, steal, check)
<1> DEFINE First == {Goes(self, lv, steal, check, x) : x \in MinNodes}
<1> DEFINE On(S) == WalkOn(S, self, lv, steal, check)
<1> DEFINE Is(f, m) == IsWalk(f, m, self, lv, steal, check)
<1>1. \A f, m : Is(f, m) <=> f = [i \in 0..m |-> IF i = 0 THEN First ELSE On(f[i - 1])]
  BY DEF IsWalk
<1> DEFINE Bad == {m \in Nat : ~\E f : Is(f, m)}
<1> HIDE DEF First, On, Is
<1>2. SUFFICES ASSUME Bad # {} PROVE FALSE BY DEF Is
<1>3. PICK m \in Bad : \A i \in Bad : m <= i BY <1>2, LeastNatural
<1>4. CASE m = 0
  <2> DEFINE g == [i \in 0..0 |-> First]
  <2>1. g = [i \in 0..0 |-> IF i = 0 THEN First ELSE On(g[i - 1])] OBVIOUS
  <2>3. QED BY <1>3, <1>4, <1>1, <2>1
<1>5. CASE m # 0
  <2>2. PICK f : Is(f, m - 1) BY <1>3, <1>5
  <2> DEFINE g == [i \in 0..m |-> IF i = m THEN On(f[m - 1]) ELSE f[i]]
  <2>4. ASSUME NEW i \in 0..m PROVE g[i] = IF i = 0 THEN First ELSE On(g[i - 1]) BY <1>5, <1>1, <2>2
  <2>6. QED BY <1>3, <2>4, <1>1, ZenonT(60)
<1>6. QED BY <1>4, <1>5

\* Seen is about the last set of such a walk.
LEMMA SeenIsWalk ==
  ASSUME NEW self, NEW lv, NEW steal, NEW check, NEW c, c = Cardinality(Node)
  PROVE  \E f : /\ IsWalk(f, c, self, lv, steal, check)
                /\ Seen(self, lv, steal, check) =
                     {Contents(p).val : p \in f[c]} \ {LIST_VAL_MIN, LIST_VAL_MAX}
<1> DEFINE First == {Goes(self, lv, steal, check, x) : x \in MinNodes}
<1> DEFINE On(S) == S \union {Goes(self, lv, steal, check, x) : x \in {Contents(p).p_next : p \in S} \ {NULL}}
<1> DEFINE W == CHOOSE f : f = [i \in 0..c |-> IF i = 0 THEN First ELSE On(f[i - 1])]
<1>2. \E f : f = [i \in 0..c |-> IF i = 0 THEN First ELSE On(f[i - 1])]
  <2>1. PICK f : IsWalk(f, c, self, lv, steal, check)
    BY FiniteAssumption, FS_CardinalityType, WalkExists
  <2>3. QED BY <2>1 DEF IsWalk, WalkOn
<1>5. QED BY <1>2 DEF IsWalk, WalkOn, Seen, Goes

\* Behind the end of a list is nothing.
LEMMA EndOfList ==
  ASSUME NEW B, NEW d, NEW k, NEW c, NEW a, NEW f, IsHeap(B, d, k, c, a, f), NEW W, NEW x \in MaxNodes
  PROVE  Vis(d, k, c, W, x).p_next = NULL
<1>3. QED BY HeapFacts DEF Vis, Linked, Changes, Change

\* A set is finite and not larger than another it is part of; what is missing counts.
LEMMA LowerSize ==
  ASSUME NEW d, NEW V \in SUBSET Node, NEW x
  PROVE  /\ IsFiniteSet(Lower(d, V, x)) /\ Cardinality(Lower(d, V, x)) \in Nat
         /\ Cardinality(Lower(d, V, x)) <= Cardinality(Node)
         /\ \A S \in SUBSET Lower(d, V, x) : S # Lower(d, V, x) =>
              Cardinality(S) \in Nat /\ Cardinality(S) < Cardinality(Lower(d, V, x))
<1>4. ASSUME NEW S \in SUBSET Lower(d, V, x), S # Lower(d, V, x)
      PROVE  Cardinality(S) \in Nat /\ Cardinality(S) < Cardinality(Lower(d, V, x))
  BY FiniteAssumption, <1>4, FS_Subset, FS_CardinalityType DEF Lower
<1>5. QED BY FiniteAssumption, FS_Subset, FS_CardinalityType, <1>4 DEF Lower

\* If the walk finds of every node what is to be seen of it, it finds the nodes in
\* sight and no others, and with them the values.
LEMMA SeenIs ==
  ASSUME NEW B, NEW d, NEW k, NEW c, NEW a, NEW f, IsHeap(B, d, k, c, a, f), NEW W \in SUBSET Threads,
         NEW self, NEW lv, NEW steal, NEW check,
         \A x \in Node : Contents(Goes(self, lv, steal, check, x)) = Vis(d, k, c, W, x)
  PROVE  Seen(self, lv, steal, check) = Values(B, d, k, c, f, W)
<1> PICK V : V = View(B, k, c, f, W) OBVIOUS
<1> DEFINE go(x) == Goes(self, lv, steal, check, x)
<1> DEFINE next(x) == Vis(d, k, c, W, x).p_next
<1> PICK m : m = Cardinality(Node) OBVIOUS
<1>1. m \in Nat /\ V \subseteq Node /\ MinNodes \subseteq V /\ MinNodes \subseteq Node /\ NULL \notin Node
  BY FiniteAssumption, FS_CardinalityType, ViewFacts, HeapFacts, RluListAssumption DEF Linked,
     Sentinels, View
<1>2. PICK g : /\ IsWalk(g, m, self, lv, steal, check)
               /\ Seen(self, lv, steal, check) = {Contents(p).val : p \in g[m]} \ {LIST_VAL_MIN, LIST_VAL_MAX}
  BY SeenIsWalk
<1>3. /\ g[0] = {go(x) : x \in MinNodes}
      /\ \A i \in 0..m : i # 0 =>
           g[i] = g[i - 1] \union {go(x) : x \in {Contents(p).p_next : p \in g[i - 1]} \ {NULL}}
  BY <1>1, <1>2 DEF IsWalk, WalkOn
<1>4. \A x \in Node : Contents(go(x)) = Vis(d, k, c, W, x) OBVIOUS
<1> HIDE DEF go
<1>6. \A i \in 0..m : g[i] \subseteq {go(x) : x \in V}
  <2> DEFINE Bad == {i \in 0..m : ~(g[i] \subseteq {go(x) : x \in V})}
  <2>1. SUFFICES ASSUME Bad # {} PROVE FALSE OBVIOUS
  <2>2. PICK n \in Bad : \A i \in Bad : n <= i
    <3>1. Bad \in SUBSET Nat BY <1>1
    <3>2. QED BY <2>1, <3>1, LeastNatural
  <2>5. ASSUME NEW y \in {Contents(p).p_next : p \in g[n - 1]} \ {NULL} PROVE y \in V
    BY <1>3, <2>2, <1>1, <1>4, EndOfList, ViewNext \* nothing else is found
  <2>6. g[n] \subseteq {go(x) : x \in V} BY <1>3, <2>2, <1>1, <2>5
  <2>7. QED BY <2>2, <2>6
\* all of them are
<1>7. \A i \in 0..m : \A x \in V : Cardinality(Lower(d, V, x)) <= i => go(x) \in g[i]
  <2> DEFINE Size(x) == Cardinality(Lower(d, V, x))
  <2> DEFINE Bad == {i \in 0..m : \E x \in V : Size(x) <= i /\ go(x) \notin g[i]}
  <2>0. \A x \in V : Size(x) \in Nat /\ (Lower(d, V, x) = {} => x \in MinNodes)
    BY <1>1, LowerSize, LowerHead
  <2>1. \A x \in V : Lower(d, V, x) # {} => \E y \in V : Size(y) < Size(x) /\ y \notin MaxNodes /\ next(y) = x
    <3>1. SUFFICES ASSUME NEW x \in V, Lower(d, V, x) # {}
                   PROVE  \E y \in V : Size(y) < Size(x) /\ y \notin MaxNodes /\ next(y) = x
      OBVIOUS
    <3>2. PICK y \in Lower(d, V, x) : y \notin MaxNodes /\ next(y) = x BY <3>1, LowerNext
    <3>4. Lower(d, V, y) \in SUBSET Lower(d, V, x) /\ y \notin Lower(d, V, y)
      BY <1>1, HeapFacts DEF Lower
    <3>5. Size(y) < Size(x) BY <1>1, <3>4, LowerSize
    <3>6. QED BY <3>2, <1>1, HeapFacts, <3>5 DEF Lower
  <2> HIDE DEF Size
  <2>2. SUFFICES ASSUME Bad # {} PROVE FALSE BY DEF Size
  <2>3. PICK n \in Bad : \A i \in Bad : n <= i
    <3>1. Bad \in SUBSET Nat BY <1>1
    <3>2. QED BY <2>2, <3>1, LeastNatural
  <2>4. PICK x \in V : Size(x) <= n /\ go(x) \notin g[n] BY <2>3
  <2>5. CASE x \in MinNodes
    <3>2. CASE n = 0 BY <2>4, <1>3, <2>5, <3>2
    <3>3. CASE n # 0
      <4>2. Size(x) <= n - 1
        <5>1. Lower(d, V, x) = {}
          BY <1>1, <2>5, HeapFacts, RluListAssumption, ViewBucket DEF Linked, Sentinels, Lower
        <5>3. QED BY <1>1, <2>3, <3>3, <5>1, FS_EmptySet DEF Size
      <4>4. QED BY <1>3, <2>3, <2>4, <3>3, <1>1, <4>2
    <3>4. QED BY <3>2, <3>3
  <2>6. CASE x \notin MinNodes BY <2>0, <2>1, <2>6, <1>1, <2>3, <2>4, <1>4, <1>3
  <2>7. QED BY <2>5, <2>6
<1>11. Seen(self, lv, steal, check) = {d[x].val : x \in V} \ {LIST_VAL_MIN, LIST_VAL_MAX}
  BY <1>2, <1>1, LowerSize, <1>6, <1>7, <1>4, ViewFacts
<1>12. QED BY HeapFacts, ViewBucket, RluListAssumption, <1>11 DEF Values, Linked, Sentinels

-----------------------------------------------------------------------------
(* What the walk goes to is what is to be seen *)

\* So it begins, and nothing clears the flags before.
LEMMA FlagsRun ==
  ASSUME LogInv, ExtraTypes, FlagsInv, NEW t \in Threads, Run(t)
  PROVE  pc'[t] \in {"version", "commit"} => is_steal'[t] /\ is_check_locks'[t]
<1>1. TypeOK /\ Returning(t) /\ into[t] \in {"p_prev", "p_next", "n"} BY DEF LogInv, TypeOK
<1> USE DEF objVars, clockVars, sectionVars, logVars, ringVars, syncVars, callVars, derefVars,
            driverVars, historyVars
<1>2. /\ pc \in [Threads -> AllLabels] /\ ret \in [Threads -> AllLabels]
      /\ is_steal \in [Threads -> BOOLEAN] /\ is_check_locks \in [Threads -> BOOLEAN]
  BY <1>1 DEF TypeOK, ExtraTypes
<1> DEFINE Ahead == pc'[t] \notin {"version", "commit"}
<1>3. CASE \E o \in OpNames, k \in Keys : Begin(t, o, k)
  BY <1>2, <1>3 DEF Begin, Checkpoint, CallSync, Goto
<1>4. CASE CheckpointStep(t) BY <1>2, <1>4 DEF CheckpointStep, Checkpoint, CallSync, Goto
<1>5. CASE Library(t)
  <2>1. CASE TakeView(t) BY <1>2, <2>1 DEF TakeView, ReadVersion, Goto, FlagsInv
  <2>2. CASE Register(t) BY <1>2, <2>2 DEF Register, Goto
  <2>3. CASE Publish(t) \/ SyncStep(t)
    <3>1. pc[t] \in SyncLabels /\ (pc'[t] \in SyncLabels \/ pc'[t] = ret[t])
      <4>1. CASE Publish(t) \/ SyncNothing(t) \/ SyncVersion(t) \/ SyncEnd(t)
        BY <1>2, <4>1 DEF Publish, SyncAdvance, SyncNothing, SyncVersion, SyncEnd, Goto, SyncLabels
      <4>2. CASE (\E u \in Threads : SyncReadCounter(t, u)) \/ SyncQuiesced(t) \/ WriteBack(t)
        BY <1>2, <4>2 DEF SyncReadCounter, SyncQuiesced, WriteBack, Goto, SyncLabels
      <4>3. CASE WriteBackDone(t) \/ SyncCommit(t)
        BY <1>2, <4>3 DEF WriteBackDone, SyncCommit, Goto, SyncLabels
      <4>4. QED BY <2>3, <4>1, <4>2, <4>3 DEF SyncStep
    <3>3. QED BY <3>1, <1>1 DEF SyncLabels, Returning
  <2>4. QED BY <1>5, <2>1, <2>2, <2>3 DEF Library
<1>6. CASE Traverse(t)
  BY <1>2, <1>1, <1>6 DEF OpenSection, ReadCommitVersion, FirstNext, Advance, StartDeref, Goto,
     Deref, Steal, EndDeref, Then, Traverse
<1>7. CASE Decide(t)
  BY <1>2, <1>7 DEF Answer, RemoveHere, StartDeref, Goto, TryLock, ReadyToLock, CompareAndSwap,
     Locked, AddNode, RemoveNode, Changed, Decide
<1>8. CASE Leave(t)
  BY <1>2, <1>8 DEF Unlock, ReaderUnlock, CommitWriteSet, CallSync, Goto, Abort, Unregister,
     AbortUnlock, UnlockObjs, Return, Finish, Leave
<1>9. QED BY <1>3, <1>4, <1>5, <1>6, <1>7, <1>8 DEF Run

\* The flags of the others stay.
LEMMA FlagsStep == RluInv /\ FlagsInv /\ [Next]_vars => FlagsInv'
<1>1. SUFFICES ASSUME RluInv, FlagsInv, [Next]_vars PROVE FlagsInv' OBVIOUS
<1>2. CASE UNCHANGED vars BY <1>1, <1>2 DEF vars, rluVars, sectionVars, FlagsInv
<1>3. CASE Next
  BY <1>3, <1>1, FlagsRun, RunApart DEF Next, RluInv, Apart, SameOthers, SameThread, SameRest,
     FlagsInv
<1>4. QED BY <1>1, <1>2, <1>3

\* The copies of the threads in W, and no others, are those the walk goes to.
LEMMA GoesFacts ==
  ASSUME TypeOK, LocksAtHome, NEW self, NEW lv, NEW steal, NEW check, NEW W,
         \A x \in Node : p_obj_copy[x] # NULL =>
           (p_obj_copy[x][1] \in W <=>
              check /\ (p_obj_copy[x][1] = self \/ (steal /\ writer_version[p_obj_copy[x][1]] <= lv))),
         NEW x \in Node
  PROVE  Contents(Goes(self, lv, steal, check, x)) = Vis(data, p_obj_copy, Pend, W, x)
<1> PICK k : k = p_obj_copy[x] OBVIOUS
<1>2. CASE k # NULL /\ k[1] \in W BY <1>2, PendFacts DEF Goes, ThreadOf, StealOrNot, Vis, Contents
<1>3. CASE ~(k # NULL /\ k[1] \in W) BY <1>3 DEF Goes, ThreadOf, StealOrNot, Vis, Contents
<1>4. QED BY <1>2, <1>3

\* The walk sees the values that these threads have left.
LEMMA SeenValues ==
  ASSUME LogInv, NEW B, Heap(B), NEW self, NEW lv, NEW steal, NEW check, NEW W \in SUBSET Threads,
         \A x \in Node : p_obj_copy[x] # NULL =>
           (p_obj_copy[x][1] \in W <=>
              check /\ (p_obj_copy[x][1] = self \/ (steal /\ writer_version[p_obj_copy[x][1]] <= lv)))
  PROVE  Seen(self, lv, steal, check) = Vals(B, W)
<1>3. PICK d, k, c, a, f : d = data /\ k = p_obj_copy /\ c = Pend /\ a = allocated /\ f = free_nodes
  OBVIOUS
<1>6. QED BY <1>3, GoesFacts, SeenIs DEF Vals, Heap, LogInv

\* What is published has a version that the clock has reached.
LEMMA ReachedIsPublished ==
  ASSUME Base, NEW u \in Threads
  PROVE  writer_version[u] <= g_rlu_writer_version <=> u \in Published
<1>1. /\ writer_version[u] \in Nat /\ g_rlu_writer_version \in Nat
      /\ g_rlu_writer_version < MAX_VERSION /\ MAX_VERSION \in Nat /\ Clocks(u)
  BY ClockAssumption DEF Base, ClockInRange, LogInv, TypeOK
<1>2. ASSUME writer_version[u] <= g_rlu_writer_version PROVE u \in Published
  BY <1>1, <1>2 DEF Clocks, Base, OneAdvances, Published
<1>3. ASSUME u \in Published PROVE writer_version[u] <= g_rlu_writer_version
  BY <1>3 DEF Published, Base, Waits, WaitInv
<1>4. QED BY <1>2, <1>3

\* A section that begins now sees what is published.
LEMMA SeenByAll ==
  ASSUME Base, NEW B, ObjectInv(B)
  PROVE  Seen(NULL, g_rlu_writer_version, TRUE, TRUE) = set
<1>1. LogInv /\ TypeOK /\ LocksAtHome /\ Heap(B) /\ set = Vals(B, Published)
  BY DEF Base, LogInv, ObjectInv, SetInv
<1>2. PICK P \in SUBSET Threads : P = Published BY DEF Published
<1>0. PICK lv, all : lv = g_rlu_writer_version /\ all = TRUE OBVIOUS
<1>3. \A x \in Node : p_obj_copy[x] # NULL =>
        (p_obj_copy[x][1] \in P <=>
           all /\ (p_obj_copy[x][1] = NULL \/ (all /\ writer_version[p_obj_copy[x][1]] <= lv)))
  BY <1>0, <1>1, <1>2, PendFacts, ReachedIsPublished, ViewAssumption
<1>4. Seen(NULL, lv, all, all) = Vals(B, P) BY <1>1, <1>3, SeenValues
<1>5. QED BY <1>0, <1>1, <1>2, <1>4

\* If it is a section of t, it sees what t has deferred too.
LEMMA SeenByOwner ==
  ASSUME Base, NEW B, ObjectInv(B), NEW t \in Threads
  PROVE  Seen(t, g_rlu_writer_version, TRUE, TRUE) = Toggle(set, delta[t])
<1>1. LogInv /\ TypeOK /\ LocksAtHome /\ Heap(B) /\ set = Vals(B, Published)
  BY DEF Base, LogInv, ObjectInv, SetInv
<1>2. PICK P \in SUBSET Threads : P = Published BY DEF Published
<1>0. PICK lv, all : lv = g_rlu_writer_version /\ all = TRUE OBVIOUS
<1>3. \A x \in Node : p_obj_copy[x] # NULL =>
        (p_obj_copy[x][1] \in P \union {t} <=>
           all /\ (p_obj_copy[x][1] = t \/ (all /\ writer_version[p_obj_copy[x][1]] <= lv)))
  BY <1>0, <1>1, <1>2, PendFacts, ReachedIsPublished
<1>4. Seen(t, lv, all, all) = Vals(B, P \union {t}) BY <1>1, <1>3, SeenValues
<1>5. CASE t \in Published BY <1>2, <1>5, <1>0, <1>1, <1>4 DEF ObjectInv, SetInv, Toggle
<1>6. CASE t \notin Published
  BY <1>2, <1>6, <1>0, <1>1, <1>4 DEF Published, Writing, ObjectInv, SetInv, Differs
<1>7. QED BY <1>5, <1>6

\* A section still sees what it saw, with the locks and steals that it makes.
LEMMA SeenBySection ==
  ASSUME Base, FlagsInv, NEW B, ObjectInv(B), NEW t \in Threads, view[t] # NULL
  PROVE  Seen(t, local_version[t], is_steal[t], is_check_locks[t]) = view[t]
<1>1. LogInv /\ TypeOK /\ LocksAtHome /\ Heap(B) /\ view[t] = Vals(B, Sees(t)) /\ InSection(t)
  BY DEF Base, LogInv, ObjectInv, SetInv
<1>2. PICK W \in SUBSET Threads : W = Sees(t) BY DEF Sees
<1>3. PICK lv, steal, check : lv = local_version[t] /\ steal = is_steal[t] /\ check = is_check_locks[t]
  OBVIOUS
<1>4. ASSUME NEW x \in Node, p_obj_copy[x] # NULL
      PROVE  p_obj_copy[x][1] \in W <=>
               check /\ (p_obj_copy[x][1] = t \/ (steal /\ writer_version[p_obj_copy[x][1]] <= lv))
  <2>1. PICK u \in Threads : u = p_obj_copy[x][1] BY <1>1, <1>4, PendFacts
  <2>3. CASE pc[t] = "commit" BY <1>3, <2>1, <1>2, <2>3 DEF FlagsInv, Sees
  <2>4. CASE pc[t] # "commit"
    <3>1. Skips(t) BY <1>1, <2>4 DEF Base, Waits, CommitInv
    <3>3. ~steal => ~(writer_version[u] <= lv) BY <1>3, <3>1, <1>1 DEF Skips, TypeOK
    <3>5. QED BY <2>1, <1>2, <1>3, <3>3, <3>1, <1>1, <1>4, NothingLocked DEF Sees, Skips
  <2>5. QED BY <2>3, <2>4
<1>6. QED BY <1>1, <1>2, <1>3, <1>4, SeenValues

\* In every state that the invariants describe.
LEMMA InvSnapshot == RluInv /\ FlagsInv /\ ClockInRange => SnapshotIsolation
<1>1. SUFFICES ASSUME RluInv, FlagsInv, ClockInRange PROVE SnapshotIsolation OBVIOUS
<1>3. PICK B : ObjectInv(B) BY <1>1 DEF RluInv, ObjInv
<1>5. ASSUME NEW t \in Threads
      PROVE  /\ Seen(t, g_rlu_writer_version, TRUE, TRUE) = Toggle(set, delta[t])
             /\ view[t] # NULL =>
                  Seen(t, local_version[t], is_steal[t], is_check_locks[t]) = view[t]
  BY <1>1, <1>3, SeenByOwner, SeenBySection DEF RluInv, Base
<1>6. QED BY <1>1, <1>3, SeenByAll, <1>5 DEF SnapshotIsolation, RluInv, Base

(***************************************************************************)
(* A walk along the lists with the dereferences of a section meets exactly *)
(* the values that the section is to see: those published when it read the *)
(* clock, changed by what its own thread has deferred, whatever the others *)
(* lock, publish, write back and free in the meantime.                     *)
(***************************************************************************)
THEOREM SectionsAreIsolated == ASSUME ~ClockRace PROVE Spec /\ []ClockInRange => []SnapshotIsolation
<1>1. Init => FlagsInv BY DEF Init, RluInit, FlagsInv
<1>4. Spec /\ []ClockInRange => []FlagsInv BY <1>1, RluInvariant, FlagsStep, PTL DEF Spec
<1>5. QED BY RluInvariant, <1>4, InvSnapshot, PTL

=============================================================================
