--------------------------- MODULE ConcurrentSet ---------------------------
(***************************************************************************)
(* What a hash table of this repository promises its callers: a set of     *)
(* values, on which lookups, insertions and deletions of several threads   *)
(* are in progress at once.                                                *)
(*                                                                         *)
(* An update that changes the set does so in one step between its call and *)
(* its return.  An operation that changes nothing may base its answer on   *)
(* any moment of that interval: obs[t] collects the memberships of key[t]  *)
(* in the set during the interval.  As operations on different values are  *)
(* independent, this is linearizability, stated without naming the step at *)
(* which a lookup takes effect.                                            *)
(***************************************************************************)
EXTENDS Integers

CONSTANTS Threads, Keys, NoKey

VARIABLES
  set,      \* the values in the table
  op, key,  \* the pending call of each thread, op[t] = "none" if there is none
  obs,      \* memberships of key[t] since the call
  reply     \* the answer, once it is decided

vars == <<set, op, key, obs, reply>>

PENDING == -1    \* no answer yet
ABORTED == 2     \* the update was given up and changed nothing

Init ==
  /\ set = {}
  /\ op = [t \in Threads |-> "none"]
  /\ key = [t \in Threads |-> NoKey]
  /\ obs = [t \in Threads |-> {}]
  /\ reply = [t \in Threads |-> PENDING]

\* Values inserted before the threads start.
Fill(k) ==
  /\ \A t \in Threads : op[t] = "none"
  /\ set' = set \union {k}
  /\ UNCHANGED <<op, key, obs, reply>>

Membership(k) == IF k \in set THEN "present" ELSE "absent"

Invoke(t, o, k) ==
  /\ op[t] = "none"
  /\ op' = [op EXCEPT ![t] = o]
  /\ key' = [key EXCEPT ![t] = k]
  /\ obs' = [obs EXCEPT ![t] = {Membership(k)}]
  /\ UNCHANGED <<set, reply>>

Answer(t, r) ==
  /\ op[t] # "none" /\ reply[t] = PENDING
  /\ reply' = [reply EXCEPT ![t] = r]
  /\ UNCHANGED <<op, key>>

AllObserve(k, b) ==
  obs' = [u \in Threads |-> IF op[u] # "none" /\ key[u] = k
                            THEN obs[u] \union {b} ELSE obs[u]]

Insert(t) ==
  /\ op[t] = "add" /\ key[t] \notin set
  /\ set' = set \union {key[t]}
  /\ AllObserve(key[t], "present")
  /\ Answer(t, 1)

Delete(t) ==
  /\ op[t] = "remove" /\ key[t] \in set
  /\ set' = set \ {key[t]}
  /\ AllObserve(key[t], "absent")
  /\ Answer(t, 1)

\* An answer that changes nothing, true at some moment of the call.
Report(t) ==
  /\ \/ op[t] = "contains" /\ "present" \in obs[t] /\ Answer(t, 1)
     \/ op[t] = "contains" /\ "absent" \in obs[t] /\ Answer(t, 0)
     \/ op[t] = "add" /\ "present" \in obs[t] /\ Answer(t, 0)
     \/ op[t] = "remove" /\ "absent" \in obs[t] /\ Answer(t, 0)
  /\ UNCHANGED <<set, obs>>

GiveUp(t) ==
  /\ op[t] \in {"add", "remove"}
  /\ Answer(t, ABORTED)
  /\ UNCHANGED <<set, obs>>

TryAgain(t) ==
  /\ reply[t] = ABORTED
  /\ reply' = [reply EXCEPT ![t] = PENDING]
  /\ UNCHANGED <<set, op, key, obs>>

Return(t) ==
  /\ reply[t] # PENDING
  /\ op' = [op EXCEPT ![t] = "none"]
  /\ key' = [key EXCEPT ![t] = NoKey]
  /\ obs' = [obs EXCEPT ![t] = {}]
  /\ reply' = [reply EXCEPT ![t] = PENDING]
  /\ UNCHANGED set

Next ==
  \/ \E k \in Keys : Fill(k)
  \/ \E t \in Threads :
       \/ \E o \in {"contains", "add", "remove"}, k \in Keys : Invoke(t, o, k)
       \/ Insert(t) \/ Delete(t) \/ Report(t) \/ GiveUp(t) \/ TryAgain(t)
       \/ Return(t)

Spec == Init /\ [][Next]_vars
=============================================================================
