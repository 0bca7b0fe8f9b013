---------------------------- MODULE MCRcuFgList ----------------------------
(* Instances of RcuFgList for TLC. *)
EXTENDS RcuFgList, TLC

CONSTANT Remote    \* threads bound to the second NUMA node

MCMin == -1
MCMax == 99
MCMinNode == [b \in Buckets |-> <<"min", b>>]
MCMaxNode == [b \in Buckets |-> <<"max", b>>]

MCNode == [t \in Threads |-> IF t \in Remote THEN "remote" ELSE "near"]

Symmetry ==
  Permutations(DataNodes) \union Permutations(Threads \ Remote) \union Permutations(Remote)
=============================================================================
