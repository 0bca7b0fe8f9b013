----------------------------- MODULE MCDriver -----------------------------
(* Instances of Driver for TLC. *)
EXTENDS Driver

With(name, n) == [bench |-> name, threads_nb |-> n, nr_buckets |-> MAX_BUCKETS]

\* every kind of benchmark, and every way to be refused or skipped
MCParameters ==
  {With("forgive", 2), With("rlu", 2), With("rlu-forgive", 2), With("rcu", 1), With("rcu", 3),
   With("rlu", RLU_STALLS), With("unknown", 1), With("rcu", 4),
   [With("rcu", 1) EXCEPT !.nr_buckets = MAX_BUCKETS + 1]}

\* interleaved processors, and a small node before a large one
MCTopologies == {<<{0, 2}, {1}>>, <<{0}, {1, 2}>>}

\* an explicit abort with a code, a conflict that may be retried
MCStats == {1 + 7 * 2^24, 6}
=============================================================================
