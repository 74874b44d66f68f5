------------------------------- MODULE Mutex -------------------------------
(***************************************************************************)
(* What the recursive lock of Mini-OS (lock.c) promises its callers: at    *)
(* most one thread is inside at a time, and a thread leaves exactly as     *)
(* often as it entered.  depth[t] counts the acquisitions thread t has not *)
(* released yet; the holder may enter again.                               *)
(***************************************************************************)
EXTENDS Integers

CONSTANT Threads    \* the threads that share the lock

VARIABLE depth

Init == depth = [t \in Threads |-> 0]

Enter(t) ==
    /\ \A u \in Threads \ {t} : depth[u] = 0
    /\ depth' = [depth EXCEPT ![t] = @ + 1]

Leave(t) ==
    /\ depth[t] > 0
    /\ depth' = [depth EXCEPT ![t] = @ - 1]

Next == \E t \in Threads : Enter(t) \/ Leave(t)

Spec == Init /\ [][Next]_depth
=============================================================================
