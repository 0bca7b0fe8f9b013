---------------------------- MODULE MCRcxLfList ----------------------------
(* Instances of RcxLfList for TLC. *)
EXTENDS RcxLfList, TLC

MCMin == -1
MCMax == 99
MCMinNode == [b \in Buckets |-> <<"min", b>>]
MCMaxNode == [b \in Buckets |-> <<"max", b>>]

Symmetry == Permutations(Threads) \union Permutations(DataNodes)
=============================================================================
