----------------------------- MODULE BinaryTree -----------------------------
(***************************************************************************)
(* toolbox-btree.c: items that hang in two binary trees at once, one by     *)
(* name and one by unique_id.  The trees are kept the same way, so a tree   *)
(* is a record of links and what the code does to either is written once.  *)
(* A name is a number in the order of strcasecmp and strcmp; the client of  *)
(* an item is the item.                                                    *)
(***************************************************************************)
EXTENDS Naturals, Sequences, FiniteSets, SequencesExt

CONSTANTS
  NodeMax,  \* items malloc can return at a time
  Names,    \* the names callers give, 0 for NULL
  Ids,      \* the ids callers give, 0 for none
  IdMax,    \* bound on next_unique_id
  Settings  \* values of the accept_ and allow_ fields; and the tree callers walk through

ASSUME BinaryTreeAssumption ==
  /\ NodeMax \in Nat /\ Names \subseteq Nat /\ Ids \subseteq Nat
  /\ \A s \in Settings : DOMAIN s = {"duplicate_names", "duplicate_unique_ids", "zero_unique_ids", "walks"}

VARIABLES
  top, itop,          \* the trees by name and by unique_id
  settings, next_unique_id,
  name, unique_id,    \* of the items
  used,               \* items malloc'ed and not freed
  lost,               \* those a refused insertion left in no tree
  current_iterator, current_iiterator,
  displaced           \* history: the trees in which a deletion moved a subtree past others

treeVars == <<top, itop, settings, next_unique_id, name, unique_id, used, lost,
              current_iterator, current_iiterator, displaced>>

Items == 1..NodeMax
Nobody == 0

Sides == {"left", "right"}
Other(side) == IF side = "left" THEN "right" ELSE "left"

NoLinks == [i \in Items |-> Nobody]
Bare == [root |-> Nobody, parent |-> NoLinks, left |-> NoLinks, right |-> NoLinks]

Links == [Items -> 0..NodeMax]
Trees == [root : 0..NodeMax, parent : Links, left : Links, right : Links]

binaryTree_Constructor ==
  /\ top = Bare /\ itop = Bare
  /\ settings \in Settings
  /\ next_unique_id = 1
  /\ name = NoLinks /\ unique_id = NoLinks
  /\ used = {} /\ lost = {}
  /\ current_iterator = Nobody /\ current_iiterator = Nobody
  /\ displaced = {}

-----------------------------------------------------------------------------
(* The item at the end of a branch.                                         *)
End(tree, item, side) ==
  LET Go[i \in Items] == IF tree[side][i] = Nobody THEN i ELSE Go[tree[side][i]]
  IN  IF item = Nobody THEN Nobody ELSE Go[item]

(* The way down to where key k goes; "exists" where it may not be repeated. *)
Place(tree, key, k, duplicates) ==
  LET Go[i \in Items] ==
        LET side == IF key[i] < k THEN "right" ELSE "left"
        IN  IF key[i] = k /\ ~ duplicates THEN [under |-> i, side |-> "exists"]
            ELSE IF tree[side][i] = Nobody THEN [under |-> i, side |-> side]
            ELSE Go[tree[side][i]]
  IN  IF tree.root = Nobody THEN [under |-> Nobody, side |-> "left"] ELSE Go[tree.root]

Hang(tree, item, place) ==
  IF place.under = Nobody THEN [tree EXCEPT !.root = item]
  ELSE [tree EXCEPT ![place.side][place.under] = item, !.parent[item] = place.under]

SideOf(tree, item) ==
  IF tree.parent[item] = Nobody THEN "left" ELSE CHOOSE s \in Sides : tree[s][tree.parent[item]] = item

In(tree, item) == tree.parent[item] # Nobody \/ tree.root = item

(* A child is promoted to the place of the item, preferably the left one of *)
(* the root, and else the one on the other side than the item is of its     *)
(* parent; the item's other child is hung at an end of the promoted branch: *)
(* for the root the right end of its left branch.                           *)
Promoted(tree, item) ==
  LET first == IF tree.parent[item] = Nobody THEN "left" ELSE Other(SideOf(tree, item))
  IN  IF tree[first][item] # Nobody THEN first ELSE Other(first)

(* Mutant of HomelessSide: the same end for the root.                       *)
HomelessUnder(tree, item) == Promoted(tree, item)

HomelessSide(tree, item) ==
  IF tree.parent[item] = Nobody THEN Other(Promoted(tree, item)) ELSE Promoted(tree, item)

Unlink(tree, item) ==
  LET side == Promoted(tree, item)
      promote == tree[side][item]
      homeless == tree[Other(side)][item]
      end == HomelessSide(tree, item)
      bottom == End(tree, promote, end)
      housed == IF homeless = Nobody \/ promote = Nobody THEN tree
                ELSE [tree EXCEPT ![end][bottom] = homeless, !.parent[homeless] = bottom]
      risen == IF promote = Nobody THEN housed ELSE [housed EXCEPT !.parent[promote] = tree.parent[item]]
      above == IF tree.parent[item] = Nobody THEN [risen EXCEPT !.root = promote]
               ELSE [risen EXCEPT ![SideOf(tree, item)][tree.parent[item]] = promote]
      gone == [above EXCEPT !.parent[item] = Nobody, !.left[item] = Nobody, !.right[item] = Nobody]
  IN  IF In(tree, item) THEN gone ELSE tree

(* The promoted branch and the homeless one change their order.             *)
Displaces(tree, item) ==
  /\ tree.parent[item] # Nobody
  /\ tree.left[item] # Nobody /\ tree.right[item] # Nobody

-----------------------------------------------------------------------------
(* binaryTree_Insert.  The id is counted on before the item is refused; an  *)
(* item whose id exists leaves the tree of names again and is not freed.    *)
Generated(id) == IF id = 0 /\ ~ settings.zero_unique_ids THEN next_unique_id ELSE id

Counted(id) ==
  IF id = 0 THEN IF settings.zero_unique_ids THEN next_unique_id ELSE next_unique_id + 1
  ELSE IF next_unique_id <= id THEN id + 1 ELSE next_unique_id

binaryTree_Insert(n, id) ==
  /\ n # 0 \/ id # 0 \/ settings.zero_unique_ids
  /\ used # Items
  /\ Counted(id) <= IdMax
  /\ LET item == CHOOSE i \in Items \ used : \A j \in Items \ used : i <= j
         byName == Place(top, name, n, settings.duplicate_names)
         byId == Place(itop, unique_id, Generated(id), settings.duplicate_unique_ids)
     IN  /\ next_unique_id' = Counted(id)
         /\ \/ /\ n # 0 /\ byName.side = "exists"
               /\ UNCHANGED <<top, itop, name, unique_id, used, lost>>
            \/ /\ n = 0 \/ byName.side # "exists"
               /\ used' = used \cup {item}
               /\ IF byId.side = "exists"
                  THEN lost' = lost \cup {item} /\ UNCHANGED <<top, itop, name, unique_id>>
                  ELSE /\ top' = IF n = 0 THEN top ELSE Hang(top, item, byName)
                       /\ itop' = Hang(itop, item, byId)
                       /\ name' = [name EXCEPT ![item] = n]
                       /\ unique_id' = [unique_id EXCEPT ![item] = Generated(id)]
                       /\ UNCHANGED lost
  /\ UNCHANGED <<settings, current_iterator, current_iiterator, displaced>>

(* binaryTree_Delete: out of the tree of names, if it hangs in it, then out *)
(* of the other, then free.  An iterator that stands on the item stays.     *)
binaryTree_Delete(item) ==
  /\ item \in used \ lost
  /\ top' = Unlink(top, item) /\ itop' = Unlink(itop, item)
  /\ used' = used \ {item}
  /\ name' = [name EXCEPT ![item] = 0] /\ unique_id' = [unique_id EXCEPT ![item] = 0]
  /\ displaced' = displaced \cup {t \in {"top"} : Displaces(top, item)}
                            \cup {t \in {"itop"} : Displaces(itop, item)}
  /\ UNCHANGED <<settings, next_unique_id, lost, current_iterator, current_iiterator>>

(* binaryTree_Clean deletes the roots until there is none; after NodeMax    *)
(* there cannot be one.                                                    *)
Cleaned ==
  LET Go[n \in 0..NodeMax] ==
        IF n = 0 THEN [top |-> top, itop |-> itop, used |-> used]
        ELSE LET s == Go[n - 1]
                 root == IF s.top.root # Nobody THEN s.top.root ELSE s.itop.root
             IN  IF root = Nobody THEN s
                 ELSE [top |-> Unlink(s.top, root), itop |-> Unlink(s.itop, root), used |-> s.used \ {root}]
  IN  Go[NodeMax]

binaryTree_Clean ==
  /\ top # Bare \/ itop # Bare
  /\ LET clean == Cleaned
     IN  top' = clean.top /\ itop' = clean.itop /\ used' = clean.used
  /\ name' = NoLinks /\ unique_id' = NoLinks
  /\ displaced' = {}
  /\ UNCHANGED <<settings, next_unique_id, lost, current_iterator, current_iiterator>>

-----------------------------------------------------------------------------
(* Mutant of Step: only one level up.                                       *)
StepOneUp(tree, item, ahead) ==
  IF tree[ahead][item] # Nobody THEN End(tree, tree[ahead][item], Other(ahead))
  ELSE IF tree.parent[item] # Nobody /\ tree[ahead][tree.parent[item]] = item THEN Nobody
  ELSE tree.parent[item]

(* One step of a walk: down into the branch ahead and to its other end, or  *)
(* up to the first item of which this is not in the branch ahead.           *)
Step(tree, item, ahead) ==
  LET Up[i \in Items] ==
        IF tree.parent[i] = Nobody THEN Nobody
        ELSE IF tree[ahead][tree.parent[i]] = i THEN Up[tree.parent[i]]
        ELSE tree.parent[i]
  IN  IF tree[ahead][item] # Nobody THEN End(tree, tree[ahead][item], Other(ahead)) ELSE Up[item]

(* The iterator: at the end it stays; a NULL one is set to the root and -10 *)
(* is returned.  Callers do not walk on from an item they have deleted.     *)
Walk(tree, iterator, ahead) ==
  IF iterator = Nobody THEN tree.root
  ELSE IF Step(tree, iterator, ahead) = Nobody THEN iterator
  ELSE Step(tree, iterator, ahead)

ByName(iterator) ==
  /\ settings.walks = "top"
  /\ current_iterator' = iterator
  /\ UNCHANGED <<top, itop, settings, next_unique_id, name, unique_id, used, lost, current_iiterator, displaced>>

ById(iterator) ==
  /\ settings.walks = "itop"
  /\ current_iiterator' = iterator
  /\ UNCHANGED <<top, itop, settings, next_unique_id, name, unique_id, used, lost, current_iterator, displaced>>

Live(tree, iterator) == iterator # Nobody => In(tree, iterator)

binaryTree_FirstItem == ByName(End(top, top.root, "left"))
binaryTree_LastItem == ByName(End(top, top.root, "right"))
binaryTree_NextItem == Live(top, current_iterator) /\ ByName(Walk(top, current_iterator, "right"))
binaryTree_PreviousItem == Live(top, current_iterator) /\ ByName(Walk(top, current_iterator, "left"))
binaryTree_FirstiItem == ById(End(itop, itop.root, "left"))
binaryTree_LastiItem == ById(End(itop, itop.root, "right"))
binaryTree_NextiItem == Live(itop, current_iiterator) /\ ById(Walk(itop, current_iiterator, "right"))
binaryTree_PreviousiItem == Live(itop, current_iiterator) /\ ById(Walk(itop, current_iiterator, "left"))

TreeNext ==
  \/ \E n \in Names, id \in Ids : binaryTree_Insert(n, id)
  \/ \E item \in Items : binaryTree_Delete(item)
  \/ binaryTree_Clean
  \/ binaryTree_FirstItem \/ binaryTree_LastItem \/ binaryTree_NextItem \/ binaryTree_PreviousItem
  \/ binaryTree_FirstiItem \/ binaryTree_LastiItem \/ binaryTree_NextiItem \/ binaryTree_PreviousiItem

TreeSpec == binaryTree_Constructor /\ [][TreeNext]_treeVars

(* What binaryTree_Get finds: by the id, and else by the name.              *)
Search(tree, key, k) ==
  LET Go[i \in 0..NodeMax] ==
        IF i = Nobody \/ key[i] = k THEN i
        ELSE Go[IF key[i] < k THEN tree.right[i] ELSE tree.left[i]]
  IN  Go[tree.root]

binaryTree_Get(n, id) ==
  IF id > 0 /\ Search(itop, unique_id, id) # Nobody THEN Search(itop, unique_id, id)
  ELSE IF n > 0 THEN Search(top, name, n)
  ELSE Nobody

(* The items a walk from the first to the last visits.                      *)
Visited(tree, ahead) ==
  LET Go[i \in 0..NodeMax] == IF i = Nobody THEN <<>> ELSE <<i>> \o Go[Step(tree, i, ahead)]
  IN  Go[End(tree, tree.root, Other(ahead))]

binaryTree_GetClient(client) == client \in ToSet(Visited(itop, "right") \o Visited(top, "right"))

-----------------------------------------------------------------------------
(* The items of a tree from left to right, by its downward links alone.     *)
InOrder(tree) ==
  LET Go[i \in 0..NodeMax] ==
        IF i = Nobody THEN <<>> ELSE Go[tree.left[i]] \o <<i>> \o Go[tree.right[i]]
  IN  Go[tree.root]

Sorted(tree, key) == \A i, j \in DOMAIN InOrder(tree) : i < j => key[InOrder(tree)[i]] <= key[InOrder(tree)[j]]

(* Every item hangs once in the tree of ids, and once in the other if it    *)
(* has a name, but for those a refused insertion has lost; the walks, which *)
(* find their way by the links to the parents, visit them all in the order  *)
(* of the tree, in both directions.                                         *)
WalksVisitAll ==
  /\ ToSet(InOrder(itop)) = used \ lost
  /\ ToSet(InOrder(top)) = {i \in used \ lost : name[i] # 0}
  /\ \A tree \in {top, itop} :
       /\ IsInjective(InOrder(tree))
       /\ Visited(tree, "right") = InOrder(tree)
       /\ Visited(tree, "left") = Reverse(InOrder(tree))
  /\ \A item \in used \ lost : binaryTree_GetClient(item)

(* toolbox-btree.c:17: "Values are classed from small(left) to right(big)". *)
(* So items are found by what they were inserted with, and walked in that   *)
(* order, until the deletion of an item that has two branches and is not    *)
(* the root, which exchanges them.                                         *)
FoundByKey ==
  /\ "top" \notin displaced => Sorted(top, name)
  /\ "itop" \notin displaced => Sorted(itop, unique_id)
  /\ displaced = {} =>
       \A item \in used \ lost :
         /\ unique_id[item] > 0 => unique_id[binaryTree_Get(0, unique_id[item])] = unique_id[item]
         /\ name[item] > 0 => name[binaryTree_Get(name[item], 0)] = name[item]
=============================================================================
