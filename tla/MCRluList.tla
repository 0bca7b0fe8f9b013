----------------------------- MODULE MCRluList -----------------------------
(* Instances of RluList for TLC. *)
EXTENDS RluList

CONSTANTS
  Remover, Adder        \* threads with a role in MCRoles

MCMin == -1
MCMax == 99
MCMinNode == [b \in Buckets |-> <<"min", b>>]
MCMaxNode == [b \in Buckets |-> <<"max", b>>]
MCNode == DataNodes \union MinNodes \union MaxNodes
\* whatever reads a freed object stops there
MCFreed == [val |-> MCMax, p_next |-> NULL]
MCMaxVersion == 100

\* Every thread draws any call ...
MCAnyCall == [t \in Threads |-> OpNames \X Keys]

\* ... or two update different values and the others look them up.
MCRoles ==
  [t \in Threads |-> CASE t = Remover -> {<<"remove", 1>>}
                       [] t = Adder -> {<<"add", 2>>, <<"remove", 2>>}
                       [] OTHER -> {"contains"} \X Keys]
=============================================================================
