---------------------------- MODULE SnapshotSet ----------------------------
(***************************************************************************)
(* What the RLU list promises its callers: a set of values under snapshot  *)
(* isolation with deferred publication.  An operation decides on the view  *)
(* it took when it began: the published set, seen through the thread's own *)
(* updates that are not published yet.  An update changes nothing for the  *)
(* other threads until its thread publishes all its updates in one step,   *)
(* possibly long after the call returned, and it succeeds only if nobody   *)
(* changed the value's membership meanwhile.  This is weaker than          *)
(* ConcurrentSet: an update that returned may be invisible to a later call *)
(* of another thread.                                                      *)
(***************************************************************************)
EXTENDS Integers

CONSTANTS Threads, Keys, NoKey, NoView

VARIABLES
  set,      \* the published values
  delta,    \* delta[t]: values whose membership t changed and did not publish
  op, key,  \* the pending call of each thread, op[t] = "none" if there is none
  view,     \* what the call sees, NoView while it has no snapshot
  reply     \* the answer, once it is decided

vars == <<set, delta, op, key, view, reply>>

PENDING == -1    \* no answer yet
ABORTED == 2     \* the update was given up and changed nothing

Init ==
  /\ set = {}
  /\ delta = [t \in Threads |-> {}]
  /\ op = [t \in Threads |-> "none"]
  /\ key = [t \in Threads |-> NoKey]
  /\ view = [t \in Threads |-> NoView]
  /\ reply = [t \in Threads |-> PENDING]

Toggle(S, D) == (S \ D) \union (D \ S)

Invoke(t, o, k) ==
  /\ op[t] = "none"
  /\ op' = [op EXCEPT ![t] = o]
  /\ key' = [key EXCEPT ![t] = k]
  /\ UNCHANGED <<set, delta, view, reply>>

\* The call takes its snapshot, the first one or another after a conflict.
Look(t) ==
  /\ op[t] # "none" /\ reply[t] = PENDING /\ view[t] = NoView
  /\ view' = [view EXCEPT ![t] = Toggle(set, delta[t])]
  /\ UNCHANGED <<set, delta, op, key, reply>>

Answer(t, r) ==
  /\ reply[t] = PENDING
  /\ reply' = [reply EXCEPT ![t] = r]
  /\ view' = [view EXCEPT ![t] = NoView]
  /\ UNCHANGED <<set, op, key>>

\* The membership of key[t] is in the published set what t saw, and nobody,
\* t included, has changed it without publishing.
NoConflict(t) ==
  /\ key[t] \in set <=> key[t] \in view[t]
  /\ \A u \in Threads : key[t] \notin delta[u]

Update(t) ==
  /\ view[t] # NoView
  /\ \/ op[t] = "add" /\ key[t] \notin view[t]
     \/ op[t] = "remove" /\ key[t] \in view[t]
  /\ NoConflict(t)
  /\ delta' = [delta EXCEPT ![t] = @ \union {key[t]}]
  /\ Answer(t, 1)

\* An answer that changes nothing, true of the snapshot.
Report(t) ==
  /\ view[t] # NoView
  /\ \/ op[t] = "contains" /\ key[t] \in view[t] /\ Answer(t, 1)
     \/ op[t] = "contains" /\ key[t] \notin view[t] /\ Answer(t, 0)
     \/ op[t] = "add" /\ key[t] \in view[t] /\ Answer(t, 0)
     \/ op[t] = "remove" /\ key[t] \notin view[t] /\ Answer(t, 0)
  /\ UNCHANGED delta

\* After a conflict: drop the snapshot and try again, or give up.
Conflict(t) ==
  /\ op[t] \in {"add", "remove"} /\ view[t] # NoView
  /\ \/ Answer(t, ABORTED)
     \/ view' = [view EXCEPT ![t] = NoView] /\ UNCHANGED <<set, op, key, reply>>
  /\ UNCHANGED delta

\* All the updates of t become visible to the others at once.
Publish(t) ==
  /\ set' = Toggle(set, delta[t])
  /\ delta' = [delta EXCEPT ![t] = {}]
  /\ UNCHANGED <<op, key, view, reply>>

Return(t) ==
  /\ reply[t] # PENDING
  /\ op' = [op EXCEPT ![t] = "none"]
  /\ key' = [key EXCEPT ![t] = NoKey]
  /\ reply' = [reply EXCEPT ![t] = PENDING]
  /\ UNCHANGED <<set, delta, view>>

Next ==
  \E t \in Threads :
    \/ \E o \in {"contains", "add", "remove"}, k \in Keys : Invoke(t, o, k)
    \/ Look(t) \/ Update(t) \/ Report(t) \/ Conflict(t) \/ Publish(t) \/ Return(t)

Spec == Init /\ [][Next]_vars
=============================================================================
