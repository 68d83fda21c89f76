--------------------------- MODULE RecursiveLock ---------------------------
(***************************************************************************)
(* What a caller of toolbox-mutex.c is promised: a lock one thread holds   *)
(* at a time, any number of times over.  held[t] is the number of          *)
(* acquisitions thread t was granted and has not given back.  CMutex is    *)
(* shown to implement this module.                                         *)
(***************************************************************************)
EXTENDS Naturals

CONSTANT Threads

VARIABLE held

Init == held = [t \in Threads |-> 0]

Acquire(t) ==
  /\ \A u \in Threads \ {t} : held[u] = 0
  /\ held' = [held EXCEPT ![t] = @ + 1]

Release(t) ==
  /\ held[t] > 0
  /\ held' = [held EXCEPT ![t] = @ - 1]

Next == \E t \in Threads : Acquire(t) \/ Release(t)

Spec == Init /\ [][Next]_held
=============================================================================
