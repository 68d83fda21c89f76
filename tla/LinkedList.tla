----------------------------- MODULE LinkedList -----------------------------
(***************************************************************************)
(* toolbox-linkedlist.c at the level of its nodes: next and prev pointers, *)
(* the shared cursor (current_iterator) of FirstItem/NextItem, an iterator *)
(* kept by a caller of the Ex variants, and malloc/free of the nodes.      *)
(* A node is removed by moving its successor's client into it and freeing  *)
(* the successor, so a node's address does not identify a client.          *)
(* lastItem, which is written and never read, is left out.                 *)
(***************************************************************************)
EXTENDS Naturals, Sequences, FiniteSets, SequencesExt

CONSTANTS
  Clients,   \* values callers put in the list
  NoClient,  \* NULL
  Nodes,     \* addresses malloc can return; bounds the length of the list
  Null,      \* the NULL node pointer
  Amounts    \* how many values the unsigned itemAmount has (2^32 in the code)

ASSUME LinkedListAssumption ==
  /\ IsFiniteSet(Nodes)
  /\ Null \notin Nodes
  /\ NoClient \notin Clients
  /\ Amounts \in Nat \ {0}

VARIABLES
  magic,                                  \* should_always_be_0xAFAF1111 holds its value
  firstItem, itemAmount, current_iterator,
  outside_iterator_should_be_revalidated,
  alive,                                  \* nodes malloc'ed and not freed
  client, next, prev,                     \* the fields of the nodes
  iterator,                               \* a caller's iterator for the Ex variants
  popped                                  \* history: linkedList_Pop has been called

nodes == <<alive, client, next, prev>>
cursors == <<current_iterator, iterator>>
vars == <<magic, firstItem, itemAmount, current_iterator,
          outside_iterator_should_be_revalidated, alive, client, next, prev, iterator, popped>>

(* From each node the first k that follow links, it included.              *)
Walk(links) ==
  LET Go[k \in Nat] ==
        [n \in Nodes \cup {Null} |-> IF n = Null \/ k = 0 THEN <<>> ELSE <<n>> \o Go[k - 1][links[n]]]
  IN  Go

(* The nodes from firstItem on, following next.                            *)
Chain == Walk(next)[Cardinality(Nodes)][firstItem]

InChain == ToSet(Chain)

(* itemAmount++ and itemAmount-- wrap.                                     *)
Up(amount) == (amount + 1) % Amounts

(* Mutants of Down: no wrap, and a forgotten itemAmount--.                 *)
DownPlain(amount) == amount - 1

DownForgotten(amount) == amount

Down(amount) == (amount + Amounts - 1) % Amounts

Empty == [n \in Nodes |-> Null]

Init ==
  /\ magic = TRUE
  /\ firstItem = Null
  /\ itemAmount = 0
  /\ current_iterator = Null
  /\ outside_iterator_should_be_revalidated = FALSE
  /\ alive = {}
  /\ client = [n \in Nodes |-> NoClient]
  /\ next = Empty
  /\ prev = Empty
  /\ iterator = Null
  /\ popped = FALSE

(* linkedList_Constructor, on a list the destructor has cleared.  A caller  *)
(* that keeps an iterator starts over.                                     *)
Constructor ==
  /\ ~ magic
  /\ magic' = TRUE
  /\ firstItem' = Null
  /\ itemAmount' = 0
  /\ current_iterator' = Null
  /\ outside_iterator_should_be_revalidated' = FALSE
  /\ iterator' = Null
  /\ popped' = FALSE
  /\ UNCHANGED nodes

-----------------------------------------------------------------------------
(* Nodes are about to move under the iterators callers keep.               *)
Announce == outside_iterator_should_be_revalidated' = TRUE

(* Where the shared cursor goes when freed's client is moved into kept, or *)
(* is the one deleted (kept Null).  Mutants: it stays, or it is given up.  *)
CursorUnmoved(freed, kept) == current_iterator

CursorReset(freed, kept) == IF current_iterator = freed THEN Null ELSE current_iterator

CursorAfter(freed, kept) == IF current_iterator = freed THEN kept ELSE current_iterator

(* Mutant of Free: the node leaks.                                         *)
FreeNothing(n, c, nx, pv) ==
  /\ alive' = alive
  /\ client' = c
  /\ next' = nx
  /\ prev' = pv

(* free(n), with the other fields of the nodes as given: what a freed node *)
(* holds is not used again.                                                *)
Free(n, c, nx, pv) ==
  /\ alive' = alive \ {n}
  /\ client' = [c EXCEPT ![n] = NoClient]
  /\ next' = [nx EXCEPT ![n] = Null]
  /\ prev' = [pv EXCEPT ![n] = Null]

Pop ==
  /\ magic
  /\ firstItem # Null
  /\ LET item == next[firstItem]
     IN  IF item # Null
         THEN /\ Free(item, [client EXCEPT ![firstItem] = client[item]],
                            [next EXCEPT ![firstItem] = next[item]],
                            [prev EXCEPT ![firstItem] = Null])
              /\ UNCHANGED firstItem
         ELSE /\ Free(firstItem, client, next, prev)
              /\ firstItem' = Null
  /\ itemAmount' = Down(itemAmount)
  /\ Announce
  /\ popped' = TRUE
  /\ UNCHANGED <<magic, cursors>>

(* The node n malloc gave, with client c, linked between before and after. *)
Link(n, c, before, after) ==
  /\ alive' = alive \cup {n}
  /\ client' = [client EXCEPT ![n] = c]
  /\ next' = [m \in Nodes |-> IF m = n THEN after ELSE IF m = before THEN n ELSE next[m]]
  /\ prev' = [m \in Nodes |-> IF m = n THEN before ELSE IF m = after THEN n ELSE prev[m]]
  /\ firstItem' = IF before = Null THEN n ELSE firstItem
  /\ UNCHANGED <<magic, cursors, outside_iterator_should_be_revalidated, popped>>

LastNode == LET chain == Chain IN IF chain = <<>> THEN Null ELSE Last(chain)

Push(n, c) ==
  /\ magic
  /\ Link(n, c, LastNode, Null)
  /\ itemAmount' = Up(itemAmount)

(* A reference node that is not in the list means the end.                 *)
InsertBefore(n, c, beforeThisOne) ==
  /\ magic
  /\ IF beforeThisOne \notin InChain
     THEN Link(n, c, LastNode, Null)
     ELSE LET chain == Chain
              i == CHOOSE i \in DOMAIN chain : chain[i] = beforeThisOne
          IN  Link(n, c, IF i = 1 THEN Null ELSE chain[i - 1], beforeThisOne)
  /\ itemAmount' = Up(itemAmount)

(* Of the ways to insert, the one in the middle leaves itemAmount alone.   *)
InsertAfter(n, c, afterThisOne) ==
  /\ magic
  /\ IF afterThisOne \notin InChain
     THEN Link(n, c, LastNode, Null)
     ELSE Link(n, c, afterThisOne, next[afterThisOne])
  /\ itemAmount' = IF \/ afterThisOne \notin InChain
                      \/ afterThisOne = firstItem
                      \/ next[afterThisOne] = Null
                   THEN Up(itemAmount)
                   ELSE itemAmount

(* Mutant of Position: the last occurrence instead of the first.           *)
PositionOfLast(c) ==
  LET chain == Chain
  IN  CHOOSE i \in DOMAIN chain : /\ client[chain[i]] = c
                                  /\ \A j \in i + 1..Len(chain) : client[chain[j]] # c

(* The node linkedList_Delete stops at, and the one its loop saw before.   *)
Position(c) ==
  LET chain == Chain
  IN  CHOOSE i \in DOMAIN chain : /\ client[chain[i]] = c
                                  /\ \A j \in 1..i - 1 : client[chain[j]] # c

Previous(c) == IF Position(c) = 1 THEN Null ELSE Chain[Position(c) - 1]

Holds(c) == \E n \in InChain : client[n] = c

Delete(c) ==
  /\ magic
  /\ Holds(c)
  /\ LET iterate == Chain[Position(c)]
         previous == Previous(c)
         backup == next[iterate]
     IN  IF backup # Null
         THEN /\ Free(backup, [client EXCEPT ![iterate] = client[backup]],
                              [next EXCEPT ![iterate] = next[backup]],
                              IF next[backup] = Null THEN prev ELSE [prev EXCEPT ![next[backup]] = iterate])
              /\ current_iterator' = CursorAfter(backup, iterate)
              /\ UNCHANGED firstItem
         ELSE /\ Free(iterate, client,
                               IF previous = Null THEN next ELSE [next EXCEPT ![previous] = Null],
                               prev)
              /\ current_iterator' = CursorAfter(iterate, Null)
              /\ firstItem' = IF iterate = firstItem THEN Null ELSE firstItem
  /\ itemAmount' = Down(itemAmount)
  /\ Announce
  /\ UNCHANGED <<magic, iterator, popped>>

-----------------------------------------------------------------------------
FirstItem ==
  /\ magic
  /\ firstItem # Null
  /\ current_iterator' = firstItem
  /\ UNCHANGED <<magic, firstItem, itemAmount, outside_iterator_should_be_revalidated,
                 nodes, iterator, popped>>

(* Only a NULL cursor is refused (-10) and set back to the first item.  A  *)
(* freed one is followed to wherever its memory points.                    *)
NextItem ==
  /\ magic
  /\ firstItem # Null
  /\ IF current_iterator = Null
     THEN current_iterator' = firstItem
     ELSE IF current_iterator \in alive
     THEN /\ next[current_iterator] # Null
          /\ current_iterator' = next[current_iterator]
     ELSE current_iterator' \in Nodes \cup {Null}
  /\ UNCHANGED <<magic, firstItem, itemAmount, outside_iterator_should_be_revalidated,
                 nodes, iterator, popped>>

FirstItemEx ==
  /\ magic
  /\ firstItem # Null
  /\ iterator' = firstItem
  /\ UNCHANGED <<magic, firstItem, itemAmount, current_iterator,
                 outside_iterator_should_be_revalidated, nodes, popped>>

(* A caller does not follow an iterator that the list asks to revalidate.  *)
NextItemEx ==
  /\ magic
  /\ firstItem # Null
  /\ ~ outside_iterator_should_be_revalidated
  /\ IF iterator = Null
     THEN iterator' = firstItem
     ELSE next[iterator] # Null /\ iterator' = next[iterator]
  /\ UNCHANGED <<magic, firstItem, itemAmount, current_iterator,
                 outside_iterator_should_be_revalidated, nodes, popped>>

FreeClients ==
  /\ magic
  /\ firstItem # Null
  /\ client' = [n \in Nodes |-> IF n \in InChain THEN NoClient ELSE client[n]]
  /\ UNCHANGED <<magic, firstItem, itemAmount, cursors,
                 outside_iterator_should_be_revalidated, alive, next, prev, popped>>

(* An empty list returns early and stays usable; current_iterator is left. *)
Destructor ==
  /\ magic
  /\ firstItem # Null
  /\ magic' = FALSE
  /\ itemAmount' = 0
  /\ firstItem' = Null
  /\ alive' = alive \ InChain
  /\ client' = [n \in Nodes |-> IF n \in InChain THEN NoClient ELSE client[n]]
  /\ next' = [n \in Nodes |-> IF n \in InChain THEN Null ELSE next[n]]
  /\ prev' = [n \in Nodes |-> IF n \in InChain THEN Null ELSE prev[n]]
  /\ UNCHANGED <<cursors, outside_iterator_should_be_revalidated, popped>>

-----------------------------------------------------------------------------
Next ==
  \/ Constructor
  \/ Pop
  \/ \E n \in Nodes \ alive, c \in Clients : Push(n, c)
  \/ \E n \in Nodes \ alive, c \in Clients, b \in InChain \cup {Null} : InsertBefore(n, c, b)
  \/ \E n \in Nodes \ alive, c \in Clients, a \in InChain \cup {Null} : InsertAfter(n, c, a)
  \/ \E c \in Clients : Delete(c)
  \/ FirstItem
  \/ NextItem
  \/ FirstItemEx
  \/ NextItemEx
  \/ FreeClients
  \/ Destructor

Spec == Init /\ [][Next]_vars

-----------------------------------------------------------------------------
(* Type correctness of the header and of the nodes: firstItem is never a   *)
(* freed node, and itemAmount stays within its width.                      *)
TypeOK ==
  /\ magic \in BOOLEAN
  /\ firstItem \in alive \cup {Null}
  /\ itemAmount \in 0..Amounts - 1
  /\ current_iterator \in Nodes \cup {Null}
  /\ outside_iterator_should_be_revalidated \in BOOLEAN
  /\ alive \subseteq Nodes
  /\ client \in [Nodes -> Clients \cup {NoClient}]
  /\ next \in [Nodes -> Nodes \cup {Null}]
  /\ prev \in [Nodes -> Nodes \cup {Null}]
  /\ iterator \in Nodes \cup {Null}
  /\ popped \in BOOLEAN

(* prev mirrors next: the backward walk of linkedList_qsort retraces the   *)
(* forward one.                                                            *)
BackLinksMirror ==
  LET chain == Chain
  IN  \A i \in DOMAIN chain : prev[chain[i]] = IF i = 1 THEN Null ELSE chain[i - 1]

(* The nodes in use are those of the chain, each once: nothing freed is    *)
(* reachable, nothing reachable is freed, and nothing leaks.  Unless       *)
(* linkedList_Pop was used on the list, prev mirrors next.                 *)
ChainOwnsNodes ==
  /\ InChain = alive
  /\ Len(Chain) = Cardinality(alive)
  /\ popped \/ BackLinksMirror

(* For a caller the list is a sequence of clients: moving clients between  *)
(* nodes neither loses, duplicates nor reorders them.                      *)
ClientSequence == LET chain == Chain IN [i \in DOMAIN chain |-> client[chain[i]]]

ClientSeq == INSTANCE ClientList WITH list <- ClientSequence

ClientListSpec == ClientSeq!Spec

(* itemAmount keeps up with the length of the chain: an operation changes  *)
(* both by as much, modulo the width (linkedList_InsertAfter apart, and    *)
(* linkedList_Destructor, which starts over).                              *)
AmountFollowsLength ==
  [][ \/ (itemAmount' + Len(Chain)) % Amounts = (itemAmount + Len(Chain')) % Amounts
      \/ \E n \in Nodes \ alive, c \in Clients, a \in InChain : InsertAfter(n, c, a)
      \/ Destructor ]_vars

(* Deleting an element leaves the cursor on the client it was on, unless   *)
(* that is the element deleted: Delete moves clients between nodes, so the *)
(* cursor has to follow the one that moves.                                *)
CursorKeepsClient ==
  [][ \A c \in Clients :
        magic /\ Holds(c) /\ current_iterator \in alive \ {Chain[Position(c)]} /\ Delete(c)
        => current_iterator' \in alive' /\ client'[current_iterator'] = client[current_iterator] ]_vars

(* No iterator is silently left on a freed node: the shared one never is,  *)
(* in a list that linkedList_Pop was not used on, and when one kept outside *)
(* is, outside_iterator_should_be_revalidated says so.                     *)
IteratorsLive ==
  magic => /\ popped \/ current_iterator \in alive \cup {Null}
           /\ iterator \in alive \cup {Null} \/ outside_iterator_should_be_revalidated
=============================================================================
