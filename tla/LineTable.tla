----------------------------- MODULE LineTable -----------------------------
(***************************************************************************)
(* What toolbox-char-array.h promises of a charArray: a table, a sequence  *)
(* of rows of columns, and what each call does to it.  A call that returns *)
(* an error leaves the table alone; calls made of several others may stop  *)
(* half way when memory runs out (short).                                  *)
(***************************************************************************)
EXTENDS TextLines

CONSTANTS
  Cut(_),          \* what is kept of a line that is too long for a cell
  Ordered(_, _),   \* whether two cells are in ascending order
  ColMax           \* the columns of a row

VARIABLES table, call, ret, short

vars == <<table, call, ret, short>>

Stored(rows) == [i \in DOMAIN rows |-> [j \in DOMAIN rows[i] |-> Cut(rows[i][j])]]

Columns(row) == SubSeq(row, 1, IF Len(row) < ColMax THEN Len(row) ELSE ColMax)

Sorted(t, column, descending) ==
  \A i, j \in DOMAIN t : i < j =>
    IF descending THEN Ordered(t[j][column], t[i][column]) ELSE Ordered(t[i][column], t[j][column])

Occurrences(t, row) == Cardinality({i \in DOMAIN t : t[i] = row})

SameRows(t, u) ==
  Len(t) = Len(u) /\ \A row \in ToSet(t) \cup ToSet(u) : Occurrences(t, row) = Occurrences(u, row)

(* The rows of t that satisfy Keep are found, in order, in u.              *)
Survive(t, u, Keep(_)) ==
  LET kept == SelectSeq(t, Keep)
  IN  \E place \in [DOMAIN kept -> DOMAIN u] :
        /\ \A i, j \in DOMAIN kept : i < j => place[i] < place[j]
        /\ \A i \in DOMAIN kept : u[place[i]] = kept[i]

(* The table after a call that did not fail, given the table before.        *)
Effect(t, c, u) ==
  LET x == c.arguments IN
  CASE c.op \in {"new", "Zero", "Destructor"} -> u = <<>>
    [] c.op = "add" -> u = Append(t, <<Cut(x[1])>>)
    [] c.op = "insert" ->
         u = InsertAt(t, IF x[1] < Len(t) THEN x[1] + 1 ELSE Len(t) + 1, <<Cut(x[2])>>)
    [] c.op = "appendArray" -> u = t \o Stored(x[1])
    [] c.op = "updateArray" -> u = Stored(x[1])
    [] c.op = "replace" -> u = [t EXCEPT ![x[1]][1] = Cut(x[2])]
    [] c.op = "col_append" -> u = [t EXCEPT ![IF x[1] = 0 THEN Len(t) ELSE x[1]] = Append(@, Cut(x[2]))]
    [] c.op = "remove" ->
         u = RemoveAt(t, IF x[1] \in DOMAIN t THEN x[1] ELSE Len(t))
    [] c.op = "removeAllBefore" ->
         u = SubSeq(t, (IF x[1] \in DOMAIN t THEN x[1] ELSE Len(t)) + 1, Len(t))
    [] c.op \in {"removeThat", "removeThatEx"} ->
         \E i \in DOMAIN t : /\ u = RemoveAt(t, i)
                             /\ Has(t[i][1], x[1])
    [] c.op = "splitTag" /\ x[1] # <<>> ->
         u = [i \in DOMAIN t |->
                LET pieces == Split(t[i][1], x[1], FALSE)
                IN  IF pieces = <<>> THEN t[i]
                    ELSE Columns(<<pieces[1]>> \o Tail(t[i]) \o Tail(pieces))]
    [] c.op \in {"substitute", "substituteArray"} -> Survive(t, u, LAMBDA row : ~ Has(row[1], x[1]))
    [] c.op = "qsort" -> SameRows(t, u) /\ Sorted(u, x[1], x[2])
    [] c.op = "qsortPart" -> SameRows(t, u)
    [] OTHER -> u = t

Idle == [op |-> "none", arguments |-> <<>>]

Composite == {"appendArray", "updateArray", "substitute", "substituteArray", "splitTag"}

Init ==
  /\ table = <<>>
  /\ call = Idle
  /\ ret = 1
  /\ short = FALSE

(* A call returns.  When memory ran out a call of one step changes nothing; *)
(* a composite one changes no other rows than it was asked to.             *)
Return ==
  /\ call'.op # "undefined"
  /\ IF ret' > 0 /\ ~ short' THEN Effect(table, call', table')
     ELSE IF call'.op \in Composite
     THEN call'.op = "appendArray" => IsPrefix(table, table')
     ELSE table' = table

(* A call used memory that is not the array's: nothing is promised.        *)
Undefined == call'.op = "undefined" /\ table' = <<>>

(* The caller has used the result.                                         *)
Consume == table' = table /\ call' = Idle

Next == Return \/ Undefined \/ Consume

Spec == Init /\ [][Next]_vars
=============================================================================
