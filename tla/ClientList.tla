----------------------------- MODULE ClientList -----------------------------
(***************************************************************************)
(* What a caller of toolbox-linkedlist.c sees: a sequence of opaque        *)
(* clients that may repeat.  LinkedList is shown to implement this module. *)
(***************************************************************************)
EXTENDS Naturals, Sequences, SequencesExt

CONSTANTS Clients, NoClient

VARIABLE list

Init == list = <<>>

Pop == list # <<>> /\ list' = Tail(list)

Insert(c) == \E i \in 1..Len(list) + 1 : list' = InsertAt(list, i, c)

(* The first occurrence goes, the others keep their order.                 *)
Delete(c) ==
  \E i \in 1..Len(list) : /\ list[i] = c
                          /\ \A j \in 1..i - 1 : list[j] # c
                          /\ list' = RemoveAt(list, i)

FreeClients == list' = [i \in 1..Len(list) |-> NoClient]

Clear == list' = <<>>

Next ==
  \/ Pop
  \/ \E c \in Clients : Insert(c) \/ Delete(c)
  \/ FreeClients
  \/ Clear

Spec == Init /\ [][Next]_list
=============================================================================
