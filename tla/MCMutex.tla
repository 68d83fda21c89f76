------------------------------ MODULE MCMutex ------------------------------
(* CMutex for TLC: threads are interchangeable.                            *)
EXTENDS CMutex, TLC

Symmetry == Permutations(Threads)
=============================================================================
