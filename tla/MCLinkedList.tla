--------------------------- MODULE MCLinkedList ---------------------------
(* LinkedList for TLC: addresses are interchangeable, and so are clients.  *)
EXTENDS LinkedList, TLC

Symmetry == Permutations(Nodes) \cup Permutations(Clients)
=============================================================================
