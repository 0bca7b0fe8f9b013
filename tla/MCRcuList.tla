----------------------------- MODULE MCRcuList -----------------------------
(* Instances of RcuList for TLC. *)
EXTENDS RcuList, TLC

MCMin == -1
MCMax == 99
MCMinNode == [b \in Buckets |-> <<"min", b>>]
MCMaxNode == [b \in Buckets |-> <<"max", b>>]

Symmetry == Permutations(Threads) \union Permutations(DataNodes)
=============================================================================
