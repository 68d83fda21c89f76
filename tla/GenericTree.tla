---------------------------- MODULE GenericTree ----------------------------
(***************************************************************************)
(* toolbox-tree.c: a tree of names, every level of which is a doubly       *)
(* linked list of siblings in the order of their names.  Node 0 is the top, *)
(* a node is its own client, and a name is a number in the order of         *)
(* flexstrcasecmp and flexstrcmp.  Ids are given and never looked at.        *)
(***************************************************************************)
EXTENDS Naturals, FiniteSets, Sequences, SequencesExt

CONSTANTS
  NodeAmount,    \* nodes malloc can return at a time
  NodeNames,     \* the names callers give
  TreeSettings   \* the accept_duplicate_names callers set

ASSUME GenericTreeAssumption ==
  NodeAmount \in Nat /\ NodeNames \subseteq Nat /\ TreeSettings \subseteq BOOLEAN

VARIABLES
  above, childs, next, prev,   \* the links parent, childs, next and prev of a node
  label,                       \* its name
  nodes,                       \* nodes malloc'ed and not freed
  clients,                     \* nodes whose client has not been freed
  itemAmount, accept_duplicate_names

forestVars == <<above, childs, next, prev, label, nodes, clients, itemAmount, accept_duplicate_names>>

Top == 0
None == NodeAmount + 1
Nodes == 1..NodeAmount
Unlinked == [i \in 0..NodeAmount |-> None]

genericTree_Constructor ==
  /\ above = Unlinked /\ childs = Unlinked /\ next = Unlinked /\ prev = Unlinked
  /\ label = [i \in Nodes |-> 0]
  /\ nodes = {} /\ clients = {}
  /\ itemAmount = 0
  /\ accept_duplicate_names \in TreeSettings

(* The siblings under a node, by the links next.                            *)
Level(level) ==
  LET Go[i \in 0..None] == IF i = None THEN <<>> ELSE <<i>> \o Go[next[i]]
  IN  Go[childs[level]]

(* The first sibling that is not before a name.                             *)
FirstNotBefore(level, n) ==
  LET siblings == Level(level)
      later == {k \in DOMAIN siblings : label[siblings[k]] >= n}
  IN  IF later = {} THEN None ELSE siblings[CHOOSE k \in later : \A l \in later : k <= l]

(* A new node's neighbours: after the first sibling of the same name, else  *)
(* before the first one that is after it, else at the end of the level.     *)
Neighbours(level, n) ==
  LET at == FirstNotBefore(level, n)
  IN  IF at = None THEN <<IF Level(level) = <<>> THEN None ELSE Last(Level(level)), None>>
      ELSE IF label[at] = n THEN <<at, next[at]>>
      ELSE <<prev[at], at>>

genericTree_Insert(level, n) ==
  LET node == CHOOSE i \in Nodes \ nodes : \A j \in Nodes \ nodes : i <= j
      before == Neighbours(level, n)[1]
      after == Neighbours(level, n)[2]
      at == FirstNotBefore(level, n)
  IN  /\ nodes # Nodes
      /\ level \in nodes \cup {Top}
      /\ IF at # None /\ label[at] = n /\ ~ accept_duplicate_names
         THEN UNCHANGED <<above, childs, next, prev, label, nodes, clients, itemAmount>>
         ELSE /\ above' = [above EXCEPT ![node] = level]
              /\ childs' = IF before = None THEN [childs EXCEPT ![level] = node] ELSE childs
              /\ next' = [i \in 0..NodeAmount |-> IF i = node THEN after ELSE IF i = before THEN node ELSE next[i]]
              /\ prev' = [i \in 0..NodeAmount |-> IF i = node THEN before ELSE IF i = after THEN node ELSE prev[i]]
              /\ label' = [label EXCEPT ![node] = n]
              /\ nodes' = nodes \cup {node}
              /\ clients' = clients \cup {node}
              /\ itemAmount' = itemAmount + 1
      /\ UNCHANGED accept_duplicate_names

-----------------------------------------------------------------------------
(* Mutant of Without: the next sibling keeps its link to the node.          *)
WithoutForward(links, node) ==
  LET b == links.prev[node]
      a == links.next[node]
      p == links.above[node]
  IN  [above |-> [links.above EXCEPT ![node] = None],
       childs |-> IF links.childs[p] = node THEN [links.childs EXCEPT ![p] = a] ELSE links.childs,
       next |-> [i \in 0..NodeAmount |-> IF i = node THEN None ELSE IF i = b THEN a ELSE links.next[i]],
       prev |-> [links.prev EXCEPT ![node] = None]]

(* The links without a node that has no children.                           *)
Without(links, node) ==
  LET b == links.prev[node]
      a == links.next[node]
      p == links.above[node]
  IN  [above |-> [links.above EXCEPT ![node] = None],
       childs |-> IF links.childs[p] = node THEN [links.childs EXCEPT ![p] = a] ELSE links.childs,
       next |-> [i \in 0..NodeAmount |-> IF i = node THEN None ELSE IF i = b THEN a ELSE links.next[i]],
       prev |-> [i \in 0..NodeAmount |-> IF i = node THEN None ELSE IF i = a THEN b ELSE links.prev[i]]]

(* The branches of a node and the siblings after it, in the order they are  *)
(* freed: always the first child that is left, and its children before it.  *)
BranchesFrom(first) ==
  LET Go[i \in 0..None] ==
        IF i = None THEN <<>> ELSE Go[childs[i]] \o <<i>> \o Go[next[i]]
  IN  Go[first]

Branch(node) == BranchesFrom(childs[node]) \o <<node>>

(* The links after the nodes of an order have been freed one by one.        *)
AfterFree(order) ==
  LET After[k \in 0..Len(order)] ==
        IF k = 0 THEN [above |-> above, childs |-> childs, next |-> next, prev |-> prev]
        ELSE Without(After[k - 1], order[k])
  IN  After[Len(order)]

Freed(order, clientsFreed) ==
  LET links == AfterFree(order)
      gone == ToSet(order)
  IN  /\ above' = links.above /\ childs' = links.childs
      /\ next' = links.next /\ prev' = links.prev
      /\ label' = [i \in Nodes |-> IF i \in gone THEN 0 ELSE label[i]]
      /\ nodes' = nodes \ gone
      /\ clients' = clients \ clientsFreed
      /\ itemAmount' = itemAmount - Len(order)
      /\ UNCHANGED accept_duplicate_names

(* genericTree_Remove leaves the client of the node to the caller, who is   *)
(* taken to free it before the node's place is used again; the clients of   *)
(* its children are freed.                                                  *)
genericTree_Remove(node) ==
  /\ node \in nodes
  /\ Freed(Branch(node), ToSet(Branch(node)) \ {node})

CallerFrees ==
  /\ clients # nodes
  /\ clients' = nodes
  /\ UNCHANGED <<above, childs, next, prev, label, nodes, itemAmount, accept_duplicate_names>>

genericTree_Delete(node) ==
  /\ node \in nodes
  /\ Freed(Branch(node), ToSet(Branch(node)))

(* The first child of the top is deleted until there is none.               *)
genericTree_Destructor ==
  /\ nodes # {}
  /\ LET order == BranchesFrom(childs[Top])
     IN  Freed(order, ToSet(order))

ForestNext ==
  \/ CallerFrees
  \/ /\ clients = nodes
     /\ \/ \E level \in 0..NodeAmount, n \in NodeNames : genericTree_Insert(level, n)
        \/ \E node \in Nodes : genericTree_Remove(node) \/ genericTree_Delete(node)
        \/ genericTree_Destructor

ForestSpec == genericTree_Constructor /\ [][ForestNext]_forestVars

-----------------------------------------------------------------------------
(* Every node is on exactly one level, under its parent; the levels are in  *)
(* the order of the names, linked backwards as they are forwards, and hold  *)
(* together as many nodes as the tree counts: also after branches with      *)
(* children, and the first and last siblings, have been freed.              *)
LevelsHoldNodes ==
  LET levels == nodes \cup {Top}
      InLevel(l) == ToSet(Level(l))
  IN  /\ \A l \in levels :
           LET s == Level(l)
           IN  /\ IsInjective(s)
               /\ \A k \in DOMAIN s :
                    /\ above[s[k]] = l
                    /\ prev[s[k]] = IF k = 1 THEN None ELSE s[k - 1]
                    /\ k > 1 => label[s[k - 1]] <= label[s[k]]
      /\ UNION {InLevel(l) : l \in levels} = nodes
      /\ Cardinality(nodes) = itemAmount
      /\ nodes \subseteq clients
=============================================================================
