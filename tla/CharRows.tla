------------------------------ MODULE CharRows ------------------------------
(***************************************************************************)
(* The storage of toolbox-char-array.c: a growing array of rows of          *)
(* malloc'ed cells, as steps on the record of its fields and the memory.    *)
(* Each row is kept twice, as pointers (array) and as sizes (buffersize);   *)
(* rows that are removed stay, bare, behind the last one for the next.      *)
(* Rows and columns count from 1; row 0 stands for a negative one, which    *)
(* most calls take for the last.  Checks for NULL arguments and the magic   *)
(* number, and lines of exactly CellLength characters, whose terminator    *)
(* falls outside the cell, are left out.                                   *)
(***************************************************************************)
EXTENDS TextLines

CONSTANTS
  Cells,      \* the number of cells malloc can give
  RowHint,    \* rows a constructor is asked for
  RowGrow,    \* CHAR_ARRAY_ROW_AMOUNT, 100 in the code
  MaxRows,    \* bound: rows an array has room for
  ColMax,     \* CHAR_ARRAY_COL_AMOUNT, 30 in the code
  CellLength, \* CHAR_ARRAY_CELL_LENGTH, 1024 in the code
  BufferSize, \* the buffer charArray_to_buffer is given
  Lines,      \* lines that callers put in
  Needles,    \* what they look for
  Replacements, \* what they put in its place
  Tables,     \* arrays they append, as sequences of rows
  Rank,       \* the order of the characters, for strcasecmp
  Freed,      \* what a cell holds that malloc may give: no text
  SortMixed   \* whether arrays whose rows differ in length are sorted

ASSUME CharArrayAssumption ==
  /\ {Cells, RowHint, RowGrow, ColMax, CellLength, BufferSize} \subseteq Nat \ {0}
  /\ MaxRows \in Nat /\ MaxRows >= RowHint
  /\ DOMAIN Rank \subseteq STRING /\ Freed \notin Seq(STRING)
  /\ Lines \cup Needles \cup Replacements \subseteq Seq(DOMAIN Rank)
  /\ \A rows \in Tables : rows \in Seq(Seq(Seq(DOMAIN Rank)) \ {<<>>})
  /\ SortMixed \in BOOLEAN

Null == 0

Bare == [j \in 1..ColMax |-> Null]

Unsized == [j \in 1..ColMax |-> FALSE]

NullRow == <<>>

MALLOC == -999

(* A constructed array before it has rows, and memory it has not used.       *)
NoRows ==
  [array |-> <<>>, buffersize |-> <<>>, row_amount |-> 0, col_amount |-> 1,
   text |-> [a \in 1..Cells |-> Freed], ret |-> 1,
   short |-> FALSE, starved |-> FALSE, ok |-> TRUE]

-----------------------------------------------------------------------------
(* Steps of calls map the record root to the next.  A step after one that   *)
(* failed (Error) or used foreign memory (Crash) is not taken.             *)
Fine(r) == r.ok /\ r.ret > 0

(* malloc gave nothing.                                                    *)
OutOfMemory(r) == [r EXCEPT !.ret = MALLOC, !.short = TRUE, !.starved = TRUE]

Error(r, code) == [r EXCEPT !.ret = code]

Crash(r) == [r EXCEPT !.ok = FALSE]

Again(r) == IF r.ok THEN [r EXCEPT !.ret = 1] ELSE r

Line(r, i) == r.text[r.array[i][1]]

(* The rows that hold lines, one of them as a sequence of texts, and all    *)
(* that have cells.                                                        *)
Used(r) == 1..r.row_amount

InUse(r) == {i \in DOMAIN r.array : r.array[i] # NullRow}

RowTexts(r, i) ==
  LET held == SelectSeq(r.array[i], LAMBDA a : a # Null)
  IN  [j \in DOMAIN held |-> r.text[held[j]]]

Table(r) == [i \in Used(r) |-> RowTexts(r, i)]

(* What a cell keeps of a line that is too long for it.                     *)
Cut(line) == IF Len(line) < CellLength THEN line ELSE SubSeq(line, 1, CellLength - 1)

Unused(r) == {a \in DOMAIN r.text : r.text[a] = Freed}

(* A cell of length CellLength, empty, in column j of row i.               *)
Malloc(r, i, j) ==
  IF Unused(r) = {} THEN OutOfMemory(r)
  ELSE LET a == CHOOSE a \in Unused(r) : \A b \in Unused(r) : a <= b
       IN  [r EXCEPT !.array[i][j] = a, !.buffersize[i][j] = TRUE, !.text[a] = <<>>]

(* Mutant of charArray_realloc: the new rows are not cleared.              *)
reallocUncleared(r, failing) ==
  [r EXCEPT !.array = @ \o [i \in 1..RowGrow |-> r.array[1]],
            !.buffersize = @ \o [i \in 1..RowGrow |-> r.buffersize[1]]]

(* Mutant of charArray_realloc: a row too many is counted.                 *)
reallocOneMore(r, failing) ==
  [r EXCEPT !.array = @ \o [i \in 1..RowGrow |-> Bare] \o <<NullRow>>,
            !.buffersize = @ \o [i \in 1..RowGrow |-> Unsized] \o <<NullRow>>]

(* charArray_realloc.  failing says which allocation fails: none (0), that  *)
(* of the k-th new row, which stays NULL and counts in row_amount_max, that *)
(* of the array (-1), or that of buffersize (-2): array has moved by then,  *)
(* and root->array points where it was.                                    *)
charArray_realloc(r, failing) ==
  LET added == IF failing > 0 THEN failing - 1 ELSE RowGrow
      nulls == IF failing > 0 THEN <<NullRow>> ELSE <<>>
      grown == [r EXCEPT !.array = @ \o [i \in 1..added |-> Bare] \o nulls,
                         !.buffersize = @ \o [i \in 1..added |-> Unsized] \o nulls]
  IN  CASE failing = 0 -> grown
        [] failing = -1 -> OutOfMemory(r)
        [] failing = -2 -> Crash(OutOfMemory(r))
        [] OTHER -> OutOfMemory(grown)

(* Room for one more row whose first cell exists.                          *)
SpareRow(r, failing) ==
  LET g == IF r.row_amount >= Len(r.array) THEN charArray_realloc(r, failing) ELSE r
      n == g.row_amount + 1
  IN  IF ~ Fine(g) THEN g
      ELSE IF g.array[n] = NullRow THEN Crash(g)
      ELSE IF g.array[n][1] # Null THEN g ELSE Malloc(g, n, 1)

charArray_add(r, string, failing) ==
  LET s == SpareRow(r, failing)
      n == s.row_amount + 1
  IN  IF ~ Fine(s) THEN s
      ELSE [s EXCEPT !.row_amount = n, !.text[s.array[n][1]] = Cut(string)]

(* Mutant of Rotated: the row stays behind the others.                     *)
RotatedNot(rows, from, to) == rows

(* The row at from moves to position to; those between shift by one.        *)
Rotated(rows, from, to) == InsertAt(RemoveAt(rows, from), to, rows[from])

(* Mutant of charArray_insert: the line is written over the one before which *)
(* it should come.                                                         *)
insertOver(r, before_position, string, failing) ==
  LET s == SpareRow(r, failing)
      n == s.row_amount + 1
      at == IF before_position < n THEN before_position + 1 ELSE n
  IN  IF ~ Fine(s) THEN s
      ELSE [s EXCEPT !.row_amount = n,
                     !.text[s.array[at][1]] = Cut(string),
                     !.array = Rotated(@, n, at),
                     !.buffersize = Rotated(@, n, at)]

(* The spare row moves in before the row at before_position.  A position    *)
(* behind the end is the end.                                              *)
charArray_insert(r, before_position, string, failing) ==
  LET s == SpareRow(r, failing)
      n == s.row_amount + 1
      at == IF before_position < n THEN before_position + 1 ELSE n
  IN  IF ~ Fine(s) THEN s
      ELSE [s EXCEPT !.row_amount = n,
                     !.text[s.array[n][1]] = Cut(string),
                     !.array = Rotated(@, n, at),
                     !.buffersize = Rotated(@, n, at)]

charArray_replace(r, row, string) ==
  IF row > Len(r.array) THEN Error(r, -444)
  ELSE IF row > r.row_amount THEN Error(r, -10)
  ELSE IF r.array[row][1] = Null THEN Error(r, -230)
  ELSE [r EXCEPT !.text[r.array[row][1]] = Cut(string)]

(* The new cell is allocated before the row is checked: one for a row that  *)
(* does not exist is lost.                                                 *)
charArray_col_append(r, row, string) ==
  LET i == IF row = 0 THEN r.row_amount ELSE row
      free == {j \in 1..ColMax : r.array[i][j] = Null}
      j == CHOOSE k \in free : \A l \in free : k <= l
      m == Malloc(r, i, j)
  IN  IF r.row_amount = 0 THEN Error(r, -554)
      ELSE IF Unused(r) = {} THEN OutOfMemory(r)
      ELSE IF i > r.row_amount
      THEN LET lost == CHOOSE a \in Unused(r) : \A b \in Unused(r) : a <= b
           IN  [r EXCEPT !.text[lost] = <<>>, !.ret = IF i > Len(r.array) THEN -444 ELSE -10]
      ELSE IF free = {} THEN Error(r, -110)
      ELSE [m EXCEPT !.text[m.array[i][j]] = Cut(string),
                     !.col_amount = IF @ < j THEN j ELSE @]

(* free_row: every cell of row i is freed and the row is bare.             *)
free_row(r, i) ==
  [r EXCEPT !.array[i] = Bare,
            !.buffersize[i] = [j \in 1..ColMax |-> r.array[i][j] = Null /\ @[j]],
            !.text = [a \in DOMAIN @ |-> IF a \in ToSet(r.array[i]) THEN Freed ELSE @[a]]]

(* The row is freed and goes behind the last one, bare, to be used again.   *)
RemoveRow(r, i) ==
  LET f == free_row(r, i)
  IN  [f EXCEPT !.array = Rotated(@, i, r.row_amount),
                !.buffersize = Rotated(@, i, r.row_amount),
                !.row_amount = @ - 1]

-----------------------------------------------------------------------------
(* An empty array with an index beyond it has its row -1 removed.          *)
charArray_removeLineWithIndex(r, index) ==
  IF r.row_amount = 0 THEN IF index = 1 THEN Error(r, 0) ELSE Crash(r)
  ELSE RemoveRow(r, IF index \in Used(r) THEN index ELSE r.row_amount)

RemoveUpTo(r, last) ==
  FoldLeft(LAMBDA s, i : RemoveRow(s, last + 1 - i), r, [i \in 1..last |-> i])

charArray_removeLineWithIndexAndAllBefore(r, index) ==
  RemoveUpTo(r, IF index \in Used(r) THEN index ELSE r.row_amount)

(* The first row between two whose line satisfies Test, 0 if none.         *)
FirstRow(r, from, to, Test(_)) ==
  LET hits == {i \in from..to : Test(Line(r, i))}
  IN  IF hits = {} THEN 0 ELSE CHOOSE i \in hits : \A k \in hits : i <= k

RemoveFound(r, i) == IF i = 0 THEN Error(r, 0) ELSE RemoveRow(r, i)

charArray_removeLineThatIs(r, lookup) ==
  IF lookup = <<>> THEN Error(r, -5)
  ELSE RemoveFound(r, FirstRow(r, 1, r.row_amount, LAMBDA line : line = lookup))

charArray_removeLineThatMatches(r, needle) ==
  IF needle = <<>> THEN Error(r, -5)
  ELSE RemoveFound(r, FirstRow(r, 1, r.row_amount, LAMBDA line : Has(line, needle)))

(* In an empty array the search starts at row -1.                          *)
charArray_removeLineThatMatchesEx(r, needle, start) ==
  LET from == IF start > r.row_amount THEN r.row_amount ELSE IF start < 1 THEN 1 ELSE start
  IN  IF needle = <<>> THEN Error(r, -5)
      ELSE IF r.row_amount = 0 THEN Crash(r)
      ELSE RemoveFound(r, FirstRow(r, from, r.row_amount, LAMBDA line : Has(line, needle)))

(* The cells that have a size, in some of the columns.                      *)
SizedCells(r, columns) ==
  UNION {{r.array[i][j] : j \in {k \in columns : r.buffersize[i][k]}} : i \in InUse(r)}

(* Cells with a size are freed; those of the first column are kept, empty.  *)
charArray_Zero(r) ==
  LET freed == SizedCells(r, 2..ColMax)
      firsts == {r.array[i][1] : i \in InUse(r)}
      Kept(row) == IF row = NullRow THEN row
                   ELSE [j \in 1..ColMax |-> IF j = 1 \/ row[j] \notin freed THEN row[j] ELSE Null]
      Sizes(row) == IF row = NullRow THEN row ELSE [j \in 1..ColMax |-> j = 1 /\ row[1]]
  IN  [r EXCEPT !.array = [i \in DOMAIN @ |-> Kept(@[i])],
                !.buffersize = [i \in DOMAIN @ |-> Sizes(@[i])],
                !.text = [a \in DOMAIN @ |-> IF a \in freed THEN Freed
                                             ELSE IF a \in firsts THEN <<>> ELSE @[a]],
                !.row_amount = 0]

(* Cells are freed by their size, which is faster to look at than they are. *)
charArray_Destructor(r) ==
  [r EXCEPT !.array = <<>>, !.buffersize = <<>>, !.row_amount = 0, !.col_amount = 0,
            !.text = [a \in DOMAIN @ |-> IF a \in SizedCells(r, 1..ColMax) THEN Freed ELSE @[a]]]

(* A row that could not be added takes none of its columns along; its      *)
(* failure is not reported.                                                *)
AppendColumns(r, columns) ==
  FoldLeft(LAMBDA s, cell : charArray_col_append(Again(s), s.row_amount, cell), r, columns)

AppendRow(r, row, failing) ==
  LET t == charArray_add(Again(r), row[1], failing)
  IN  IF ~ r.ok THEN r ELSE IF ~ Fine(t) THEN t ELSE AppendColumns(t, Tail(row))

charArray_appendArray(r, append, failing) ==
  Again(FoldLeft(LAMBDA s, row : AppendRow(s, row, failing), r, append))

charArray_updateArray(r, valid, failing) ==
  charArray_appendArray(charArray_Zero(r), valid, failing)
=============================================================================
