----------------------------- MODULE CharArray -----------------------------
(***************************************************************************)
(* toolbox-char-array.c, all of it but the variants for wide characters:   *)
(* the calls on the rows of CharRows, the lookups, substitution, sorting    *)
(* and writing.  It implements LineTable.                                  *)
(***************************************************************************)
EXTENDS CharRows

VARIABLES
  life,  \* "raw", "ready", or "broken": memory that is not the array's was used
  root,  \* the fields of the array, the memory, and the return of the last call
  call,  \* the call that returned last: its name and arguments
  out    \* what a lookup found or a text was written

vars == <<life, root, call, out>>

Idle == [op |-> "none", arguments |-> <<>>]

Init ==
  /\ life = "raw"
  /\ root = NoRows
  /\ call = Idle
  /\ out = Null

-----------------------------------------------------------------------------
(* Lookups.  They return a code, the cell they found and its row.          *)
Found(r, i) == IF i = 0 THEN [ret |-> 0, cell |-> Null, row |-> 0]
               ELSE [ret |-> 1, cell |-> r.array[i][1], row |-> i]

NotFound(code) == [ret |-> code, cell |-> Null, row |-> 0]

Matches(line, needle) ==
  \E pattern \in Alternatives(needle, FALSE) : regexp_match(line, pattern, FALSE)

charArray_getIndexWithKey(r, needle) ==
  IF needle = <<>> THEN NotFound(-6)
  ELSE Found(r, FirstRow(r, 1, r.row_amount, LAMBDA line : Has(line, needle)))

charArray_getColumnWithKey(r, needle, column) ==
  LET i == FirstRow(r, 1, r.row_amount, LAMBDA line : line \in Alternatives(needle, FALSE))
  IN  IF needle = <<>> THEN NotFound(-6)
      ELSE IF i = 0 \/ r.array[i][column] = Null THEN NotFound(0)
      ELSE [Found(r, i) EXCEPT !.cell = r.array[i][column]]

charArray_getLineThatMatchesEx(r, needle, start, stop) ==
  LET n == r.row_amount
      to == IF stop = 0 \/ stop > n THEN n ELSE stop
      from == IF start > n THEN n ELSE start
  IN  IF stop > 0 /\ stop < start THEN NotFound(-4)
      ELSE IF needle = <<>> THEN NotFound(-7)
      ELSE IF n = 0 THEN NotFound(-445)
      ELSE Found(r, FirstRow(r, from, to, LAMBDA line : Matches(line, needle)))

charArray_getLineThatMatches(r, needle) ==
  IF needle = <<>> THEN NotFound(-5)
  ELSE Found(r, FirstRow(r, 1, r.row_amount, LAMBDA line : Matches(line, needle)))

charArray_getLineThatIs(r, lookup) ==
  IF lookup = <<>> THEN NotFound(-5)
  ELSE Found(r, FirstRow(r, 1, r.row_amount, LAMBDA line : line = lookup))

(* The last line of an empty array would be that of row -1: left out.      *)
charArray_getLine(r, row) ==
  IF row > r.row_amount THEN NotFound(-10) ELSE Found(r, IF row = 0 THEN r.row_amount ELSE row)

(* charArray_cmp with an array whose first columns are lines.              *)
charArray_cmp(r, lines) ==
  IF r.row_amount # Len(lines) THEN -10
  ELSE IF \E i \in Used(r) : Line(r, i) # lines[i] THEN -20 ELSE 1

-----------------------------------------------------------------------------
Joined(pieces, mark) ==
  Head(pieces) \o FlattenSeq([k \in 1..Len(pieces) - 1 |-> mark \o pieces[k + 1]])

(* Rows are inserted one after the other behind row.                       *)
InsertBehind(r, row, lines, failing) ==
  FoldLeftDomain(LAMBDA s, k : charArray_insert(Again(s), row + k - 1, lines[k], failing), r, lines)

(* Whether one replacement would make the line too long for its cell, and   *)
(* whether it fills the cell and leaves its terminator no place, which the   *)
(* code takes for short enough.                                            *)
TooLong(line, needle, replacement) == Len(replacement) + Len(line) - Len(needle) > CellLength

Fills(line, needle, replacement) == Len(replacement) + Len(line) - Len(needle) = CellLength

(* A line with the needle is rewritten in place, where several replacements *)
(* may overrun the cell, or split over several rows.  The program never     *)
(* leaves splitting greedy.                                                *)
SubstituteRow(r, row, needle, replacement, failing) ==
  LET line == Line(r, row)
      pieces == Split(line, needle, FALSE)
      joined == IF Len(pieces) = 1 THEN replacement \o pieces[1] ELSE Joined(pieces, replacement)
  IN  IF TooLong(line, needle, replacement)
      THEN InsertBehind(charArray_replace(r, row, pieces[1]), row, <<replacement>> \o Tail(pieces),
                        failing)
      ELSE IF Len(joined) >= CellLength THEN Crash(r)
      ELSE [r EXCEPT !.text[r.array[row][1]] = joined]

(* From the first line with the needle on, or with all every such line; the *)
(* search goes on behind the rows the line became.                         *)
Hunt(s, needle, replacement, all, failing) ==
  LET i == FirstRow(s.r, s.row, s.r.row_amount, LAMBDA line : Has(line, needle))
      line == Line(s.r, i)
  IN  IF s.done \/ ~ s.r.ok THEN s
      ELSE IF i = 0 THEN [s EXCEPT !.done = TRUE]
      ELSE [r |-> SubstituteRow(Again(s.r), i, needle, replacement, failing),
            amount |-> s.amount + 1, done |-> ~ all,
            row |-> i + 1 + IF TooLong(line, needle, replacement)
                            THEN Len(Split(line, needle, FALSE)) ELSE 0]

Hunted(s, needle, replacement, all, failing) ==
  FoldLeft(LAMBDA t, k : Hunt(t, needle, replacement, all, failing), s, [k \in 1..MaxRows + 1 |-> k])

charArray_substituteInLineThatMatches(r, needle, replacement, all, failing) ==
  LET hunted == Hunted([r |-> r, row |-> 1, amount |-> 0, done |-> FALSE],
                       needle, replacement, all, failing)
  IN  IF needle = <<>> THEN Error(r, -5)
      ELSE IF hunted.amount = 0 THEN Error(r, 0) ELSE Again(hunted.r)

(* The lines of another array take the place of the needle, on rows of      *)
(* their own.                                                              *)
charArray_substituteArrayInLineThatMatches(r, needle, lines, failing) ==
  LET i == FirstRow(r, 1, r.row_amount, LAMBDA line : Has(line, needle))
      pieces == Split(Line(r, i), needle, FALSE)
  IN  IF needle = <<>> THEN Error(r, -5)
      ELSE IF i = 0 THEN Error(r, 0)
      ELSE Again(InsertBehind(charArray_replace(r, i, pieces[1]), i, lines \o Tail(pieces), failing))

(* The first column of every row is split, never greedily; its pieces       *)
(* follow the columns the row has.                                         *)
AppendPieces(r, row, pieces) ==
  FoldLeft(LAMBDA s, piece : charArray_col_append(Again(s), row, piece), r, pieces)

SplitRow(r, row, delimiter) ==
  LET pieces == Split(Line(r, row), delimiter, FALSE)
  IN  IF pieces = <<>> THEN r
      ELSE AppendPieces(charArray_replace(Again(r), row, pieces[1]), row, Tail(pieces))

charArray_splitTag(r, delimiter) ==
  IF delimiter = <<>> THEN r
  ELSE Again(FoldLeft(LAMBDA s, i : SplitRow(s, i, delimiter), r, [i \in Used(r) |-> i]))

-----------------------------------------------------------------------------
(* strcasecmp of two lines, at most 0.                                     *)
Ordered(x, y) ==
  \/ IsPrefix(x, y)
  \/ \E i \in DOMAIN x \cap DOMAIN y :
       /\ SubSeq(x, 1, i - 1) = SubSeq(y, 1, i - 1)
       /\ Rank[x[i]] < Rank[y[i]]

Behind(x, y) == Ordered(y, x) /\ x # y

After(x, y, descending) == IF descending THEN Behind(y, x) ELSE Behind(x, y)

(* What there is to sort: the rows, in any order, from alpha to omega.       *)
Parts(r) ==
  [array : [Used(r) -> ToSet(SubSeq(r.array, 1, r.row_amount))],
   alpha : 1..r.row_amount + 1, omega : 0..r.row_amount]

Key(r, part, i, column) == r.text[part.array[i][column]]

(* The searches from both ends stop at rows that are to be exchanged.        *)
Searched(r, part, guess, column, descending) ==
  LET ahead == {i \in part.alpha..r.row_amount : ~ After(guess, Key(r, part, i, column), descending)}
      behind == {i \in 1..part.omega : ~ After(Key(r, part, i, column), guess, descending)}
  IN  [part EXCEPT !.alpha = Min(ahead \cup {r.row_amount + 1}), !.omega = Max(behind \cup {0})]

Exchanged(part) ==
  [array |-> [part.array EXCEPT ![part.alpha] = part.array[part.omega],
                                ![part.omega] = part.array[part.alpha]],
   alpha |-> part.alpha + 1, omega |-> part.omega - 1]

(* Rows are exchanged around the guess until the searches have passed each   *)
(* other.  The guess is a row of the part, so both end inside the array.     *)
Parted(r, part, column, descending) ==
  LET guess == Key(r, part, part.alpha, column)
      Exchange[p \in Parts(r)] ==
        LET met == Searched(r, p, guess, column, descending)
        IN  IF p.omega < p.alpha THEN p
            ELSE IF met.alpha > met.omega THEN met ELSE Exchange[Exchanged(met)]
  IN  Exchange[part]

Sorted(r, part, column, descending) ==
  LET Quick[p \in Parts(r)] ==
        LET split == Parted(r, p, column, descending)
            left == Quick[[split EXCEPT !.alpha = p.alpha]]
        IN  IF p.omega <= p.alpha THEN p.array
            ELSE Quick[[array |-> left, alpha |-> split.alpha, omega |-> p.omega]]
  IN  Quick[part]

(* charArray_qsort: the rows of array are sorted, their sizes in buffersize  *)
(* stay.  A row without the column ends the process.                        *)
charArray_qsort(r, column, descending, first, last) ==
  LET n == r.row_amount
      part == [array |-> SubSeq(r.array, 1, n), alpha |-> first, omega |-> last]
  IN  IF last <= first THEN r
      ELSE IF r.array[first][column] = Null THEN Error(r, -90)
      ELSE IF \E i \in first..last : r.array[i][column] = Null THEN Crash(r)
      ELSE [r EXCEPT !.array = Sorted(r, part, column, descending) \o SubSeq(@, n + 1, Len(@))]

-----------------------------------------------------------------------------
(* Mutant of Written: the last row is not ended.                            *)
WrittenUnended(r, separator, ending) ==
  FlattenSeq([i \in Used(r) |-> Joined(RowTexts(r, i), separator)
                                  \o IF i < r.row_amount THEN ending ELSE <<>>])

(* Writing.  Columns are separated, rows are ended; a separator is written  *)
(* for every column a row has but the first.                               *)
Written(r, separator, ending) ==
  FlattenSeq([i \in Used(r) |-> Joined(RowTexts(r, i), separator) \o ending])

charArray_to_file(r) == Written(r, <<"\t">>, <<"\n">>)

charArray_to_fileEx(r, ending) == Written(r, <<"\t">>, ending)

charArray_to_file_joined(r, separator) == Written(r, separator, <<"\n">>)

charArray_to_FILE(r) == Written(r, <<"\t">>, <<"\n">>)

charArray_to_FILE_joined(r, separator) == Written(r, separator, <<"\n">>)

charArray_cout(r) == Written(r, <<>>, <<"\n">>)

charArray_to_variable_buffer(r, text) == text \o Written(r, <<"\t">>, <<"\n">>)

(* charArray_to_buffer: strcpy at str_len_base into a buffer of zeros.      *)
(* After a tab the base is one too far, behind the zero that ends the text. *)
Nul == "\\0"

Buffered(r) ==
  LET Put(b, s, ahead) ==
        LET written == b.written + Len(s)
        IN  IF b.small \/ s = <<>> THEN b
            ELSE IF written >= BufferSize THEN [b EXCEPT !.small = TRUE, !.written = written]
            ELSE [small |-> FALSE, written |-> written, base |-> written - 1 + ahead,
                  image |-> [p \in 1..BufferSize |->
                               IF p <= b.base \/ p > b.base + Len(s) + 1 THEN b.image[p]
                               ELSE IF p = b.base + Len(s) + 1 THEN Nul ELSE s[p - b.base]]]
      PutRow(b, i) ==
        Put(FoldLeftDomain(LAMBDA c, j : Put(IF j > 1 THEN Put(c, <<"\t">>, 1) ELSE c,
                                             RowTexts(r, i)[j], 0), b, RowTexts(r, i)),
            <<"\n">>, 0)
      empty == [small |-> FALSE, written |-> 1, base |-> 0, image |-> [p \in 1..BufferSize |-> Nul]]
  IN  FoldLeft(PutRow, empty, [i \in Used(r) |-> i])

charArray_to_buffer(r) ==
  LET full == Buffered(r)
  IN  [ret |-> IF full.small THEN -552 ELSE 1, text |-> Until(full.image, <<Nul>>)]

-----------------------------------------------------------------------------
(* A call op returns, having made r of the fields.  Of an array that used   *)
(* foreign memory nothing more is said.                                    *)
Return(op, arguments, r) ==
  /\ Len(r.array) <= MaxRows
  /\ call' = [op |-> op, arguments |-> arguments]
  /\ out' = Null
  /\ IF r.ok THEN root' = r /\ UNCHANGED life
     ELSE root' = Crash([NoRows EXCEPT !.starved = r.starved]) /\ life' = "broken"

(* A call may begin.                                                       *)
Ready == life = "ready" /\ call = Idle

(* The ways an allocation can fail while the array grows.                  *)
Failures == {0, 1, -1, -2}

RowNumbers == 0..root.row_amount + 1

(* charArray_Constructor; when an allocation fails it frees what it has.    *)
Constructor ==
  /\ life = "raw"
  /\ call = Idle
  /\ out' = Null
  /\ \/ /\ life' = "ready"
        /\ call' = [op |-> "new", arguments |-> <<>>]
        /\ root' = [root EXCEPT !.array = [i \in 1..RowHint |-> Bare],
                                !.buffersize = [i \in 1..RowHint |-> Unsized],
                                !.row_amount = 0, !.col_amount = 1]
     \/ /\ life' = "raw"
        /\ call' = [op |-> "new", arguments |-> <<>>]
        /\ root' = Error(root, MALLOC)

Destructor ==
  /\ Ready
  /\ call' = [op |-> "Destructor", arguments |-> <<>>]
  /\ root' = charArray_Destructor(root)
  /\ life' = "raw"
  /\ out' = Null

Put ==
  /\ Ready
  /\ \E line \in Lines, failing \in Failures :
       \/ Return("add", <<line>>, charArray_add(root, line, failing))
       \/ \E before_position \in RowNumbers :
            Return("insert", <<before_position, line>>,
                   charArray_insert(root, before_position, line, failing))

Rewrite ==
  /\ Ready
  /\ \E line \in Lines, row \in RowNumbers :
       \/ row > 0 /\ Return("replace", <<row, line>>, charArray_replace(root, row, line))
       \/ Return("col_append", <<row, line>>, charArray_col_append(root, row, line))

RemoveRows ==
  /\ Ready
  /\ \/ \E index \in RowNumbers :
          \/ Return("remove", <<index>>, charArray_removeLineWithIndex(root, index))
          \/ Return("removeAllBefore", <<index>>,
                    charArray_removeLineWithIndexAndAllBefore(root, index))
     \/ \E needle \in Needles :
          \/ Return("removeThat", <<needle>>, charArray_removeLineThatIs(root, needle))
          \/ Return("removeThat", <<needle>>, charArray_removeLineThatMatches(root, needle))
          \/ \E start \in RowNumbers :
               Return("removeThatEx", <<needle>>,
                      charArray_removeLineThatMatchesEx(root, needle, start))
     \/ Return("Zero", <<>>, charArray_Zero(root))

Copy ==
  /\ Ready
  /\ \E rows \in Tables, failing \in Failures :
       \/ Return("appendArray", <<rows>>, charArray_appendArray(root, rows, failing))
       \/ Return("updateArray", <<rows>>, charArray_updateArray(root, rows, failing))

Substitute ==
  /\ Ready
  /\ \E needle \in Needles, failing \in Failures :
       \/ \E replacement \in Replacements, all \in BOOLEAN :
            Return("substitute", <<needle, replacement>>,
                   charArray_substituteInLineThatMatches(root, needle, replacement, all, failing))
       \/ \E rows \in Tables :
            Return("substituteArray", <<needle>>,
                   charArray_substituteArrayInLineThatMatches(
                     root, needle, [i \in DOMAIN rows |-> rows[i][1]], failing))

SplitColumns ==
  /\ Ready
  /\ \E delimiter \in Needles :
       Return("splitTag", <<delimiter>>, charArray_splitTag(root, delimiter))

(* The rows have the same columns.                                         *)
Uniform(r) == \A i, k \in Used(r), j \in 1..ColMax : r.array[i][j] = Null <=> r.array[k][j] = Null

Sort ==
  /\ Ready
  /\ SortMixed \/ Uniform(root)
  /\ \E column \in 1..ColMax, descending \in BOOLEAN, first \in Used(root) :
       Return(IF first = 1 THEN "qsort" ELSE "qsortPart", <<column, descending>>,
              charArray_qsort(root, column, descending, first, root.row_amount))

(* What a lookup returned; the array stays.                                *)
Answer(found) ==
  /\ call' = [op |-> "lookup", arguments |-> <<>>]
  /\ out' = found.cell
  /\ root' = Error(root, found.ret)
  /\ UNCHANGED life

Lookup ==
  /\ Ready
  /\ \/ \E needle \in Needles :
          \/ Answer(charArray_getIndexWithKey(root, needle))
          \/ Answer(charArray_getLineThatMatches(root, needle))
          \/ Answer(charArray_getLineThatIs(root, needle))
          \/ \E column \in 1..ColMax : Answer(charArray_getColumnWithKey(root, needle, column))
          \/ \E start, stop \in RowNumbers :
               start > 0 /\ Answer(charArray_getLineThatMatchesEx(root, needle, start, stop))
     \/ \E row \in RowNumbers :
          /\ root.row_amount > 0
          /\ Answer(charArray_getLine(root, row))
     \/ \E rows \in Tables :
          Answer(NotFound(charArray_cmp(root, [i \in DOMAIN rows |-> rows[i][1]])))

(* A text is written to a file or buffer.                                  *)
Write(op, text, ret) ==
  /\ Ready
  /\ call' = [op |-> op, arguments |-> <<>>]
  /\ out' = text
  /\ root' = Error(root, ret)
  /\ UNCHANGED life

WriteOut ==
  \/ \E text \in {charArray_to_file(root), charArray_to_FILE(root)} : Write("to_file", text, 1)
  \/ Write("to_fileEx", charArray_to_fileEx(root, <<"\r", "\n">>), 1)
  \/ \E text \in {charArray_to_file_joined(root, <<":">>), charArray_to_FILE_joined(root, <<":">>)} :
       Write("joined", text, 1)
  \/ Write("cout", charArray_cout(root), 1)
  \/ Write("to_variable_buffer", charArray_to_variable_buffer(root, <<"a">>), 1)
  \/ Write("to_buffer", charArray_to_buffer(root).text, charArray_to_buffer(root).ret)

Consume ==
  /\ call # Idle
  /\ call' = Idle
  /\ out' = Null
  /\ root' = [root EXCEPT !.ret = 1, !.short = FALSE]
  /\ UNCHANGED life

Broken ==
  /\ life = "broken"
  /\ call = Idle
  /\ UNCHANGED vars

Next ==
  \/ Constructor \/ Destructor \/ Put \/ Rewrite \/ RemoveRows \/ Copy
  \/ Substitute \/ SplitColumns \/ Sort \/ Lookup \/ WriteOut \/ Consume \/ Broken

Spec == Init /\ [][Next]_vars

-----------------------------------------------------------------------------
(* The cells of the rows in use.                                           *)
Held(r) == (UNION {ToSet(r.array[i]) : i \in Used(r)}) \ {Null}

(* What charArray_Destructor asserts, and charArray_Zero and it rely on: a  *)
(* cell has a size.  One without would never be freed, and would show up in *)
(* a later row.                                                            *)
SizesDescribeCells ==
  \A i \in InUse(root), j \in 1..ColMax :
    root.array[i][j] # Null => root.buffersize[i][j]

(* Every row the array keeps, in use or spare, has cells of its own: no     *)
(* cell is in two places, none was given back to malloc, and sizes move     *)
(* with the cells they are of.                                             *)
CellsOwned ==
  /\ life \in {"raw", "ready", "broken"}
  /\ root.row_amount \in 0..Len(root.array)
  /\ Len(root.array) = Len(root.buffersize)
  /\ \A i \in Used(root) : i \in InUse(root) /\ root.array[i][1] # Null
  /\ \A i, k \in InUse(root), j, l \in 1..ColMax :
       root.array[i][j] # Null =>
         /\ root.text[root.array[i][j]] # Freed
         /\ root.array[i][j] = root.array[k][l] => i = k /\ j = l
  /\ SizesDescribeCells

Rewriting == {"new", "replace", "substitute", "substituteArray", "splitTag", "updateArray"}

Removing == {"remove", "removeAllBefore", "removeThat", "removeThatEx", "Zero", "Destructor", "updateArray"}

(* A pointer to a line, as lookups hand them out, stays good: growing,      *)
(* inserting, sorting and removing other lines neither free nor change the  *)
(* cell it points to.                                                      *)
PointersStable ==
  [][life = "ready" /\ life' = "ready" =>
       /\ call'.op \notin Rewriting =>
            \A a \in Held(root) \cap Held(root') : root'.text[a] = root.text[a]
       /\ call'.op \notin Removing => Held(root) \subseteq Held(root')]_vars

(* No call touches memory that is not the array's, except where no row is   *)
(* to be removed, where a line with several needles grows too long or one   *)
(* exactly fills its cell, where a row without the column is sorted, and    *)
(* once an allocation has failed.                                          *)
PreconditionsSuffice ==
  [][life' = "broken" /\ life = "ready" =>
       \/ root'.starved
       \/ call'.op \in {"remove", "removeThatEx"} /\ root.row_amount = 0
       \/ /\ call'.op = "substitute"
          /\ \E i \in Used(root) :
               \/ Len(Split(Line(root, i), call'.arguments[1], FALSE)) > 2
               \/ Fills(Line(root, i), call'.arguments[1], call'.arguments[2])
       \/ call'.op \in {"qsort", "qsortPart"} /\ ~ Uniform(root)]_vars

(* A file holds the table: its lines, split at the tabs, are the rows,      *)
(* unless a row ends in two empty cells.                                   *)
FileHoldsTable ==
  call.op = "to_file" =>
    LET lines == Split(out, <<"\n">>, FALSE)
        rows == Table(root)
    IN  (\A i \in DOMAIN rows : Last(rows[i]) # <<>>) =>
          /\ Len(lines) = Len(rows) + IF rows = <<>> THEN 0 ELSE 1
          /\ \A i \in DOMAIN rows : Split(lines[i], <<"\t">>, FALSE) = rows[i]

(* The array is the table of LineTable.                                    *)
Promise == INSTANCE LineTable WITH
  table <- IF life = "ready" THEN Table(root) ELSE <<>>,
  call <- IF life = "broken" /\ call # Idle THEN [call EXCEPT !.op = "undefined"] ELSE call,
  ret <- root.ret,
  short <- root.short

LineTableSpec == Promise!Spec
=============================================================================
