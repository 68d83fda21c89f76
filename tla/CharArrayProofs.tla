-------------------------- MODULE CharArrayProofs --------------------------
(***************************************************************************)
(* The cells of a char array, for any lines, needles and tables, any       *)
(* lengths of rows and cells and any amount of memory.                     *)
(***************************************************************************)
EXTENDS CharArray, Foundations

LEMMA Constants ==
  /\ Cells \in Nat \ {0} /\ ColMax \in Nat \ {0} /\ RowGrow \in Nat \ {0} /\ RowHint \in Nat \ {0}
  /\ CellLength \in Nat \ {0} /\ MaxRows \in Nat /\ SortMixed \in BOOLEAN
  /\ Freed \notin Texts /\ <<>> \in Texts
  /\ Null = 0 /\ 1 \in 1..ColMax
  BY CharArrayAssumption DEF Texts, Null

-----------------------------------------------------------------------------
(* The fields, and what the cells of an array have to be.                   *)
CellRows == [1..ColMax -> 0..Cells]

RowsOf(V) == [1..ColMax -> V] \cup {NullRow}

Records ==
  [array : Seq(RowsOf(0..Cells)), buffersize : Seq(RowsOf(BOOLEAN)),
   row_amount : Nat, col_amount : Nat, text : [1..Cells -> Texts \cup {Freed}],
   ret : Int, short : BOOLEAN, starved : BOOLEAN, ok : BOOLEAN]

Apart(r) ==
  \A i, k \in InUse(r), j, l \in 1..ColMax :
    r.array[i][j] # Null /\ r.array[i][j] = r.array[k][l] => i = k /\ j = l

Alive(r) ==
  \A i \in InUse(r), j \in 1..ColMax : r.array[i][j] # Null => r.text[r.array[i][j]] \in Texts

Sized(r) ==
  /\ Len(r.array) = Len(r.buffersize)
  /\ \A i \in 1..Len(r.array) : r.array[i] = NullRow <=> r.buffersize[i] = NullRow
  /\ \A i \in InUse(r), j \in 1..ColMax : r.array[i][j] # Null => r.buffersize[i][j]

Filled(r) ==
  /\ r.row_amount <= Len(r.array)
  /\ \A i \in Used(r) : i \in InUse(r) /\ r.array[i][1] # Null

(* A row is NULL only where its allocation failed.                          *)
Excused(r) == r.starved \/ InUse(r) = 1..Len(r.array)

Stored(r) == r \in Records /\ Apart(r) /\ Alive(r) /\ Sized(r) /\ Excused(r)

Owned(r) == r \in Records /\ Apart(r) /\ Alive(r) /\ Sized(r) /\ Filled(r) /\ Excused(r)

LEMMA RowsDiffer ==
  ASSUME NEW V, NEW row \in [1..ColMax -> V]
  PROVE  row # NullRow
<1>1. DOMAIN NullRow = {}
  BY DEF NullRow
<1>2. DOMAIN row = 1..ColMax /\ 1 \in 1..ColMax
  BY Constants
<1>3. QED
  BY <1>1, <1>2

LEMMA FieldsAre ==
  ASSUME NEW r \in Records
  PROVE  /\ r.array \in Seq(RowsOf(0..Cells)) /\ r.buffersize \in Seq(RowsOf(BOOLEAN))
         /\ Len(r.array) \in Nat /\ Len(r.buffersize) \in Nat
         /\ DOMAIN r.array = 1..Len(r.array) /\ DOMAIN r.buffersize = 1..Len(r.buffersize)
         /\ r.row_amount \in Nat /\ r.col_amount \in Nat /\ r.text \in [1..Cells -> Texts \cup {Freed}]
         /\ r.ret \in Int /\ r.short \in BOOLEAN /\ r.starved \in BOOLEAN /\ r.ok \in BOOLEAN
         /\ InUse(r) \subseteq 1..Len(r.array)
         /\ \A i \in 1..Len(r.array) : r.array[i] \in CellRows \cup {NullRow}
         /\ \A i \in 1..Len(r.array) : i \in InUse(r) <=> r.array[i] # NullRow
         /\ \A i \in InUse(r) : r.array[i] \in CellRows
         /\ \A i \in InUse(r), j \in 1..ColMax : r.array[i][j] \in 0..Cells
<1>1. /\ r.array \in Seq(RowsOf(0..Cells)) /\ r.buffersize \in Seq(RowsOf(BOOLEAN))
      /\ r.row_amount \in Nat /\ r.col_amount \in Nat /\ r.text \in [1..Cells -> Texts \cup {Freed}]
      /\ r.ret \in Int /\ r.short \in BOOLEAN /\ r.starved \in BOOLEAN /\ r.ok \in BOOLEAN
  BY DEF Records
<1>2. /\ Len(r.array) \in Nat /\ Len(r.buffersize) \in Nat
      /\ DOMAIN r.array = 1..Len(r.array) /\ DOMAIN r.buffersize = 1..Len(r.buffersize)
  BY <1>1
<1>3. \A i \in 1..Len(r.array) : r.array[i] \in CellRows \cup {NullRow}
  BY <1>1, ElementOfSeq DEF RowsOf, CellRows
<1>4. /\ InUse(r) \subseteq 1..Len(r.array)
      /\ \A i \in 1..Len(r.array) : i \in InUse(r) <=> r.array[i] # NullRow
  BY <1>2 DEF InUse
<1>5. \A i \in InUse(r) : r.array[i] \in CellRows
  BY <1>3, <1>4
<1>6. \A i \in InUse(r), j \in 1..ColMax : r.array[i][j] \in 0..Cells
  BY <1>5 DEF CellRows
<1>7. QED
  BY <1>1, <1>2, <1>3, <1>4, <1>5, <1>6

LEMMA UnusedIs ==
  ASSUME NEW r \in Records, Unused(r) # {},
         NEW a, a = CHOOSE c \in Unused(r) : \A b \in Unused(r) : c <= b
  PROVE  a \in 1..Cells /\ r.text[a] = Freed
<1>1. Unused(r) \subseteq 1..Cells /\ \A c \in Unused(r) : r.text[c] = Freed
  BY FieldsAre DEF Unused
<1>2. \E c \in Unused(r) : \A b \in Unused(r) : c <= b
  BY <1>1, LeastNumber
<1>3. a \in Unused(r)
  BY <1>2
<1>4. QED
  BY <1>1, <1>3

(* A row of one in which one cell is another.                               *)
Place(array, i, j, a) == [array EXCEPT ![i][j] = a]

Placed(new, array, i, j, a) ==
  /\ Len(new) = Len(array)
  /\ \A k \in 1..Len(array) : k # i => new[k] = array[k]
  /\ new[i] # NullRow
  /\ new[i][j] = a
  /\ \A l \in 1..ColMax : l # j => new[i][l] = array[i][l]

LEMMA PlaceIs ==
  ASSUME NEW V, NEW array \in Seq(RowsOf(V)), NEW i \in 1..Len(array),
         array[i] # NullRow, NEW j \in 1..ColMax, NEW a \in V
  PROVE  Place(array, i, j, a) \in Seq(RowsOf(V)) /\ Placed(Place(array, i, j, a), array, i, j, a)
<1>1. array[i] \in [1..ColMax -> V]
  BY ElementOfSeq DEF RowsOf
<1> DEFINE row == [array[i] EXCEPT ![j] = a]
<1>2. row \in [1..ColMax -> V] /\ \A l \in 1..ColMax : row[l] = IF l = j THEN a ELSE array[i][l]
  BY <1>1
<1>3. Place(array, i, j, a) = [array EXCEPT ![i] = row]
  BY DEF Place
<1> HIDE DEF row
<1>4. row # NullRow /\ row \in RowsOf(V)
  BY <1>2, RowsDiffer DEF RowsOf
<1>5. ASSUME NEW new, new = [array EXCEPT ![i] = row]
      PROVE  /\ new \in Seq(RowsOf(V)) /\ Len(new) = Len(array)
             /\ \A k \in 1..Len(array) : new[k] = IF k = i THEN row ELSE array[k]
  BY <1>4, <1>5, ExceptSeq
<1>6. ASSUME NEW new, new = Place(array, i, j, a)
      PROVE  new \in Seq(RowsOf(V)) /\ Placed(new, array, i, j, a)
  BY <1>2, <1>3, <1>4, <1>5, <1>6 DEF Placed
<1>7. QED
  BY <1>6

LEMMA MallocIs ==
  ASSUME NEW r \in Records, NEW i \in InUse(r), i <= Len(r.buffersize), r.buffersize[i] # NullRow,
         NEW j \in 1..ColMax, Unused(r) # {}, NEW m, m = Malloc(r, i, j)
  PROVE  \E a \in 1..Cells :
           /\ r.text[a] = Freed
           /\ m = [r EXCEPT !.array = Place(@, i, j, a), !.buffersize = Place(@, i, j, TRUE),
                            !.text = [@ EXCEPT ![a] = <<>>]]
           /\ m \in Records
<1> DEFINE a == CHOOSE a \in Unused(r) : \A b \in Unused(r) : a <= b
<1>1. a \in 1..Cells /\ r.text[a] = Freed
  BY UnusedIs
<1>2. m = [r EXCEPT !.array = Place(@, i, j, a), !.buffersize = Place(@, i, j, TRUE),
                    !.text = [@ EXCEPT ![a] = <<>>]]
  BY DEF Malloc, Place
<1> HIDE DEF a
<1>3. Place(r.array, i, j, a) \in Seq(RowsOf(0..Cells))
  <2>1. i \in 1..Len(r.array) /\ r.array[i] # NullRow /\ a \in 0..Cells
    BY <1>1, FieldsAre
  <2>2. r.array \in Seq(RowsOf(0..Cells))
    BY FieldsAre
  <2>3. QED
    BY <2>1, <2>2, PlaceIs
<1>4. Place(r.buffersize, i, j, TRUE) \in Seq(RowsOf(BOOLEAN))
  <2>1. i \in 1..Len(r.buffersize)
    <3>1. i \in 1..Len(r.array) /\ Len(r.array) \in Nat /\ Len(r.buffersize) \in Nat
      BY FieldsAre
    <3>2. QED
      BY <3>1
  <2>2. r.buffersize \in Seq(RowsOf(BOOLEAN)) /\ TRUE \in BOOLEAN
    BY FieldsAre
  <2>3. QED
    BY <2>1, <2>2, PlaceIs
<1>5. [r.text EXCEPT ![a] = <<>>] \in [1..Cells -> Texts \cup {Freed}]
  BY FieldsAre, Constants
<1>6. m \in Records
  BY <1>2, <1>3, <1>4, <1>5 DEF Records
<1>7. QED
  BY <1>1, <1>2, <1>6

-----------------------------------------------------------------------------
(* What a call may do: it keeps the invariant, it does not forget that      *)
(* memory ran out, and it uses foreign memory only where it did.            *)
Safe(r, s) == (r.starved => s.starved) /\ (r.ok => s.ok \/ s.starved)

Stays(r, s) == Held(r) \subseteq Held(s)

Steady(r, s) == \A a \in Held(r) : s.text[a] = r.text[a]

LEMMA HeldIs ==
  ASSUME NEW r, Owned(r)
  PROVE  /\ \A a : a \in Held(r) <=> a # Null /\ \E i \in Used(r), j \in 1..ColMax : a = r.array[i][j]
         /\ \A a \in Held(r) : a \in 1..Cells /\ r.text[a] \in Texts
         /\ Used(r) \subseteq InUse(r)
<1>1. r \in Records /\ Used(r) \subseteq InUse(r)
  BY DEF Owned, Filled
<1>2. \A i \in Used(r) : r.array[i] \in CellRows
  BY <1>1, FieldsAre
<1>3. \A i \in Used(r) : DOMAIN r.array[i] = 1..ColMax
  BY <1>2 DEF CellRows
<1>4. \A a : a \in Held(r) <=> a # Null /\ \E i \in Used(r), j \in 1..ColMax : a = r.array[i][j]
  <2>1. \A i \in Used(r) : ToSet(r.array[i]) = {r.array[i][j] : j \in 1..ColMax}
    BY <1>3 DEF ToSet
  <2>2. ASSUME NEW a \in Held(r)
        PROVE  a # Null /\ \E i \in Used(r), j \in 1..ColMax : a = r.array[i][j]
    <3>1. PICK i \in Used(r) : a \in ToSet(r.array[i])
      BY DEF Held
    <3>2. a # Null
      BY DEF Held
    <3>3. a \in {r.array[i][j] : j \in 1..ColMax}
      BY <2>1, <3>1
    <3>4. QED
      BY <3>2, <3>3
  <2>3. ASSUME NEW i \in Used(r), NEW j \in 1..ColMax, r.array[i][j] # Null
        PROVE  r.array[i][j] \in Held(r)
    <3>1. r.array[i][j] \in ToSet(r.array[i])
      BY <2>1
    <3>2. QED
      BY <2>3, <3>1 DEF Held
  <2>4. QED
    BY <2>2, <2>3
<1>5. ASSUME NEW a \in Held(r)
      PROVE  a \in 1..Cells /\ r.text[a] \in Texts
  <2>1. a # Null /\ \E i \in InUse(r), j \in 1..ColMax : a = r.array[i][j]
    BY <1>1, <1>4
  <2>2. a \in 0..Cells
    BY <1>1, <2>1, FieldsAre
  <2>3. r.text[a] \in Texts
    BY <2>1 DEF Owned, Alive
  <2>4. QED
    BY <2>1, <2>2, <2>3, Constants
<1>6. QED
  BY <1>1, <1>4, <1>5

(* The same rows, and the same memory.                                      *)
SameRows(r, s) ==
  /\ s \in Records /\ s.array = r.array /\ s.buffersize = r.buffersize
  /\ s.row_amount = r.row_amount

LEMMA SameRowsHold ==
  ASSUME NEW r, NEW s, SameRows(r, s)
  PROVE  /\ InUse(s) = InUse(r) /\ Used(s) = Used(r) /\ Held(s) = Held(r)
         /\ Apart(r) => Apart(s)
         /\ Sized(r) => Sized(s)
         /\ Filled(r) => Filled(s)
         /\ Alive(r) /\ s.text = r.text => Alive(s)
         /\ Excused(r) /\ (r.starved => s.starved) => Excused(s)
<1>1. s.array = r.array /\ s.buffersize = r.buffersize /\ s.row_amount = r.row_amount
  BY DEF SameRows
<1>2. InUse(s) = InUse(r) /\ Used(s) = Used(r)
  BY <1>1 DEF InUse, Used
<1>3. Held(s) = Held(r)
  BY <1>1, <1>2 DEF Held
<1>4. Apart(r) => Apart(s)
  BY <1>1, <1>2 DEF Apart
<1>5. Sized(r) => Sized(s)
  BY <1>1, <1>2 DEF Sized
<1>6. Filled(r) => Filled(s)
  BY <1>1, <1>2 DEF Filled
<1>7. Alive(r) /\ s.text = r.text => Alive(s)
  BY <1>1, <1>2 DEF Alive
<1>8. Excused(r) /\ (r.starved => s.starved) => Excused(s)
  BY <1>1, <1>2 DEF Excused
<1>9. QED
  BY <1>2, <1>3, <1>4, <1>5, <1>6, <1>7, <1>8

(* The same rows and memory, whatever else was noted.                       *)
Noted(r, s) == SameRows(r, s) /\ s.text = r.text /\ (r.starved => s.starved)

LEMMA NotedOwned ==
  ASSUME NEW r, NEW s, Owned(r), Noted(r, s)
  PROVE  Owned(s) /\ Held(s) = Held(r) /\ Used(s) = Used(r) /\ Stays(r, s) /\ Steady(r, s)
BY SameRowsHold DEF Noted, Owned, Stays, Steady, SameRows

LEMMA ErrorNotes ==
  ASSUME NEW r \in Records, NEW code \in Int, NEW s, s = Error(r, code)
  PROVE  Noted(r, s) /\ Safe(r, s) /\ s.ok = r.ok /\ s.ret = code
<1>1. s \in Records
  BY DEF Error, Records
<1>2. QED
  BY <1>1 DEF Error, Noted, SameRows, Safe, Records

LEMMA OutOfMemoryNotes ==
  ASSUME NEW r \in Records, NEW s, s = OutOfMemory(r)
  PROVE  Noted(r, s) /\ Safe(r, s) /\ s.starved = TRUE /\ s.ok = r.ok /\ ~ Fine(s)
<1>1. MALLOC \in Int /\ ~ (MALLOC > 0)
  BY DEF MALLOC
<1>2. s \in Records
  BY <1>1 DEF OutOfMemory, Records
<1>3. Noted(r, s) /\ Safe(r, s) /\ s.starved = TRUE /\ s.ok = r.ok /\ s.ret = MALLOC
  BY <1>2 DEF OutOfMemory, Noted, SameRows, Safe, Records
<1>4. QED
  BY <1>1, <1>3 DEF Fine

LEMMA CrashNotes ==
  ASSUME NEW r \in Records, NEW s, s = Crash(r)
  PROVE  Noted(r, s) /\ s.ok = FALSE /\ s.starved = r.starved /\ ~ Fine(s)
<1>1. s \in Records
  BY DEF Crash, Records
<1>2. Noted(r, s) /\ s.ok = FALSE /\ s.starved = r.starved
  BY <1>1 DEF Crash, Noted, SameRows, Records
<1>3. QED
  BY <1>2 DEF Fine

LEMMA AgainNotes ==
  ASSUME NEW r \in Records, NEW s, s = Again(r)
  PROVE  Noted(r, s) /\ Safe(r, s) /\ s.ok = r.ok /\ (r.ok => Fine(s)) /\ s.starved = r.starved
<1>1. s \in Records
  BY DEF Again, Records
<1>2. Noted(r, s) /\ Safe(r, s) /\ s.ok = r.ok /\ (r.ok => s.ret = 1) /\ s.starved = r.starved
  BY <1>1 DEF Again, Noted, SameRows, Safe, Records
<1>3. QED
  BY <1>2 DEF Fine

-----------------------------------------------------------------------------
LEMMA WriteIs ==
  ASSUME NEW f \in [1..Cells -> Texts \cup {Freed}], NEW c \in 1..Cells, NEW v,
         NEW g, g = [f EXCEPT ![c] = v]
  PROVE  \A b \in 1..Cells : g[b] = IF b = c THEN v ELSE f[b]
OBVIOUS

(* Memory.  A text is written into a cell.                                  *)
Wrote(r, s, a, t) ==
  /\ SameRows(r, s) /\ s.text = [r.text EXCEPT ![a] = t] /\ (r.starved => s.starved)

LEMMA WroteOwned ==
  ASSUME NEW r, Owned(r), NEW a \in 1..Cells, NEW t \in Texts, NEW s, Wrote(r, s, a, t)
  PROVE  /\ Owned(s) /\ Held(s) = Held(r) /\ s.text[a] = t
         /\ \A b \in 1..Cells : b # a => s.text[b] = r.text[b]
<1>1. SameRows(r, s) /\ r \in Records
  BY DEF Wrote, Owned
<1>2. s.text[a] = t /\ \A b \in 1..Cells : b # a => s.text[b] = r.text[b]
  BY <1>1, FieldsAre DEF Wrote
<1>3. InUse(s) = InUse(r) /\ s.array = r.array
  BY <1>1, SameRowsHold DEF SameRows
<1>4. Alive(s)
  <2>1. ASSUME NEW i \in InUse(r), NEW j \in 1..ColMax, r.array[i][j] # Null
        PROVE  s.text[r.array[i][j]] \in Texts
    <3>1. r.text[r.array[i][j]] \in Texts
      BY <2>1 DEF Owned, Alive
    <3>2. r.array[i][j] \in 1..Cells
      BY <1>1, <2>1, FieldsAre, Constants
    <3>3. QED
      BY <1>2, <3>1, <3>2
  <2>2. QED
    BY <1>3, <2>1 DEF Alive
<1>5. QED
  BY <1>1, <1>2, <1>4, SameRowsHold DEF Owned, Wrote, SameRows

(* A cell that was free is put where none was.                              *)
Taken(r, m, i, j, a) ==
  /\ Owned(m) /\ InUse(m) = InUse(r) /\ Len(m.array) = Len(r.array)
  /\ m.row_amount = r.row_amount /\ m.ok = r.ok /\ m.ret = r.ret /\ m.starved = r.starved
  /\ a \in 1..Cells /\ r.text[a] = Freed /\ m.text[a] = <<>>
  /\ \A b \in 1..Cells : b # a => m.text[b] = r.text[b]
  /\ \A k \in InUse(r), l \in 1..ColMax :
       m.array[k][l] = IF k = i /\ l = j THEN a ELSE r.array[k][l]

LEMMA MallocTakes ==
  ASSUME NEW r, Owned(r), NEW i \in InUse(r), NEW j \in 1..ColMax, r.array[i][j] = Null,
         Unused(r) # {}, NEW m, m = Malloc(r, i, j)
  PROVE  \E a : Taken(r, m, i, j, a)
<1>1. r \in Records
  BY DEF Owned
<1>2. i \in 1..Len(r.array) /\ r.array[i] # NullRow /\ Len(r.array) = Len(r.buffersize)
  BY <1>1, FieldsAre DEF Owned, Sized
<1>3. r.buffersize[i] # NullRow /\ i <= Len(r.buffersize)
  <2>1. r.buffersize[i] # NullRow
    BY <1>2 DEF Owned, Sized
  <2>2. Len(r.array) \in Nat
    BY <1>1, FieldsAre
  <2>3. QED
    BY <1>2, <2>1, <2>2
<1>4. PICK a \in 1..Cells :
        /\ r.text[a] = Freed
        /\ m = [r EXCEPT !.array = Place(@, i, j, a), !.buffersize = Place(@, i, j, TRUE),
                         !.text = [@ EXCEPT ![a] = <<>>]]
        /\ m \in Records
  BY <1>1, <1>3, MallocIs
<1>5. /\ m.array = Place(r.array, i, j, a) /\ m.buffersize = Place(r.buffersize, i, j, TRUE)
      /\ m.text = [r.text EXCEPT ![a] = <<>>]
      /\ m.row_amount = r.row_amount /\ m.ok = r.ok /\ m.ret = r.ret /\ m.starved = r.starved
  BY <1>1, <1>4 DEF Records
<1>6. Placed(m.array, r.array, i, j, a)
  <2>1. r.array \in Seq(RowsOf(0..Cells)) /\ a \in 0..Cells
    BY <1>1, FieldsAre
  <2>2. Placed(Place(r.array, i, j, a), r.array, i, j, a)
    BY <1>2, <2>1, PlaceIs
  <2>3. QED
    BY <1>5, <2>2
<1>7. Placed(m.buffersize, r.buffersize, i, j, TRUE)
  <2>1. r.buffersize \in Seq(RowsOf(BOOLEAN)) /\ TRUE \in BOOLEAN
    BY <1>1, FieldsAre
  <2>2. i \in 1..Len(r.buffersize)
    BY <1>2
  <2>3. Placed(Place(r.buffersize, i, j, TRUE), r.buffersize, i, j, TRUE)
    BY <1>3, <2>1, <2>2, PlaceIs
  <2>4. QED
    BY <1>5, <2>3
<1>8. InUse(m) = InUse(r)
  <2>1. \A k \in 1..Len(r.array) : m.array[k] # NullRow <=> r.array[k] # NullRow
    BY <1>2, <1>6 DEF Placed
  <2>2. DOMAIN m.array = 1..Len(m.array) /\ DOMAIN r.array = 1..Len(r.array)
    BY <1>1, <1>4, FieldsAre
  <2>3. QED
    BY <1>6, <2>1, <2>2 DEF InUse, Placed
<1>9. m.text[a] = <<>> /\ \A b \in 1..Cells : b # a => m.text[b] = r.text[b]
  BY <1>1, <1>5, FieldsAre
<1>10. \A k \in InUse(r), l \in 1..ColMax :
         m.array[k][l] = IF k = i /\ l = j THEN a ELSE r.array[k][l]
  BY <1>1, <1>6, FieldsAre DEF Placed
<1>11. \A k \in InUse(r), l \in 1..ColMax : r.array[k][l] # Null => r.array[k][l] # a
  BY <1>4, Constants DEF Owned, Alive
<1>12. Apart(m)
  <2>1. \A k, q \in InUse(r), l, p \in 1..ColMax :
          r.array[k][l] # Null /\ r.array[k][l] = r.array[q][p] => k = q /\ l = p
    BY DEF Owned, Apart
  <2>2. ASSUME NEW k \in InUse(r), NEW q \in InUse(r), NEW l \in 1..ColMax, NEW p \in 1..ColMax,
               m.array[k][l] # Null, m.array[k][l] = m.array[q][p]
        PROVE  k = q /\ l = p
    <3>1. a # Null
      BY <1>4, Constants
    <3>2. CASE k = i /\ l = j
      BY <1>10, <1>11, <2>2, <3>1, <3>2
    <3>3. CASE ~ (k = i /\ l = j)
      BY <1>10, <1>11, <2>1, <2>2, <3>3
    <3>4. QED
      BY <3>2, <3>3
  <2>3. QED
    BY <1>8, <2>2 DEF Apart
<1>13. Alive(m)
  <2>1. ASSUME NEW k \in InUse(r), NEW l \in 1..ColMax, m.array[k][l] # Null
        PROVE  m.text[m.array[k][l]] \in Texts
    <3>1. CASE k = i /\ l = j
      BY <1>9, <1>10, <3>1, Constants
    <3>2. CASE ~ (k = i /\ l = j)
      <4>1. m.array[k][l] = r.array[k][l] /\ r.array[k][l] # Null /\ r.array[k][l] # a
        BY <1>10, <1>11, <2>1, <3>2
      <4>2. r.array[k][l] \in 1..Cells /\ r.text[r.array[k][l]] \in Texts
        BY <1>1, <4>1, FieldsAre, Constants DEF Owned, Alive
      <4>3. QED
        BY <1>9, <4>1, <4>2
    <3>3. QED
      BY <3>1, <3>2
  <2>2. QED
    BY <1>8, <2>1 DEF Alive
<1>14. Sized(m)
  <2>1. Len(m.array) = Len(m.buffersize)
    BY <1>2, <1>6, <1>7 DEF Placed
  <2>2. \A k \in 1..Len(m.array) : m.array[k] = NullRow <=> m.buffersize[k] = NullRow
    BY <1>2, <1>3, <1>6, <1>7 DEF Owned, Sized, Placed
  <2>3. ASSUME NEW k \in InUse(r), NEW l \in 1..ColMax, m.array[k][l] # Null
        PROVE  m.buffersize[k][l]
    <3>1. k \in 1..Len(r.array)
      BY <1>1, FieldsAre
    <3>2. CASE k = i /\ l = j
      BY <1>7, <3>2 DEF Placed
    <3>3. CASE ~ (k = i /\ l = j)
      <4>1. m.array[k][l] = r.array[k][l]
        BY <1>10, <3>3
      <4>2. r.buffersize[k][l]
        BY <2>3, <4>1 DEF Owned, Sized
      <4>3. QED
        BY <1>2, <1>7, <3>1, <3>3, <4>2 DEF Placed
    <3>4. QED
      BY <3>2, <3>3
  <2>4. QED
    BY <1>8, <2>1, <2>2, <2>3 DEF Sized
<1>15. Filled(m)
  <2>1. \A k \in Used(r) : k \in InUse(r) /\ r.array[k][1] # Null
    BY DEF Owned, Filled
  <2>2. a # Null
    BY <1>4, Constants
  <2>3. \A k \in Used(r) : k \in InUse(r) /\ m.array[k][1] # Null
    BY <1>10, <2>1, <2>2, Constants
  <2>4. QED
    BY <1>5, <1>6, <1>8, <2>3 DEF Filled, Used, Owned, Placed
<1>16. Excused(m)
  BY <1>5, <1>6, <1>8 DEF Owned, Excused, Placed
<1>17. Owned(m)
  BY <1>4, <1>12, <1>13, <1>14, <1>15, <1>16 DEF Owned
<1>18. QED
  BY <1>4, <1>5, <1>6, <1>8, <1>9, <1>10, <1>17 DEF Taken, Placed

-----------------------------------------------------------------------------
(* Growth.  Rows are added at the end, the last of them perhaps without      *)
(* cells.                                                                  *)
Longer(new, old, n, x, y, more) ==
  /\ Len(new) = Len(old) + n + (IF more THEN 1 ELSE 0)
  /\ \A k \in 1..Len(old) : new[k] = old[k]
  /\ \A k \in 1..n : new[Len(old) + k] = x
  /\ more => new[Len(old) + n + 1] = y

Extended(old, n, x, y, more) == old \o [i \in 1..n |-> x] \o (IF more THEN <<y>> ELSE <<>>)

LEMMA LongerIs ==
  ASSUME NEW S, NEW old \in Seq(S), NEW n \in Nat, NEW x \in S, NEW y \in S, NEW more \in BOOLEAN
  PROVE  /\ Extended(old, n, x, y, more) \in Seq(S)
         /\ Longer(Extended(old, n, x, y, more), old, n, x, y, more)
<1> DEFINE added == [i \in 1..n |-> x]
           nulls == IF more THEN <<y>> ELSE <<>>
<1>1. added \in Seq(S) /\ Len(added) = n /\ \A k \in 1..n : added[k] = x
  OBVIOUS
<1>2. /\ nulls \in Seq(S) /\ Len(nulls) = (IF more THEN 1 ELSE 0)
      /\ more => nulls[1] = y
  OBVIOUS
<1>3. Len(old) \in Nat
  OBVIOUS
<1> HIDE DEF added, nulls
<1>4. ASSUME NEW first, first = old \o added
      PROVE  /\ first \in Seq(S) /\ Len(first) = Len(old) + n
             /\ \A k \in 1..Len(old) : first[k] = old[k]
             /\ \A k \in 1..n : first[Len(old) + k] = x
  <2>1. /\ first \in Seq(S) /\ Len(first) = Len(old) + n
        /\ \A k \in 1..Len(old) + n : first[k] = IF k <= Len(old) THEN old[k] ELSE added[k - Len(old)]
    BY <1>1, <1>4, ConcatProperties
  <2>2. ASSUME NEW k \in 1..n, NEW p, p = Len(old) + k
        PROVE  first[p] = x
    <3>1. p \in 1..Len(old) + n /\ ~ (p <= Len(old)) /\ p - Len(old) = k
      BY <1>3, <2>2
    <3>2. QED
      BY <1>1, <2>1, <3>1
  <2>3. \A k \in 1..Len(old) : first[k] = old[k]
    BY <1>3, <2>1
  <2>4. QED
    BY <2>1, <2>2, <2>3
<1>5. ASSUME NEW first \in Seq(S), Len(first) = Len(old) + n, NEW new, new = first \o nulls
      PROVE  /\ new \in Seq(S) /\ Len(new) = Len(old) + n + (IF more THEN 1 ELSE 0)
             /\ \A k \in 1..Len(old) + n : new[k] = first[k]
             /\ more => new[Len(old) + n + 1] = y
  <2>1. /\ new \in Seq(S) /\ Len(new) = Len(first) + Len(nulls)
        /\ \A k \in 1..Len(first) + Len(nulls) :
             new[k] = IF k <= Len(first) THEN first[k] ELSE nulls[k - Len(first)]
    BY <1>2, <1>5, ConcatProperties
  <2>2. \A k \in 1..Len(old) + n : new[k] = first[k]
    BY <1>2, <1>3, <1>5, <2>1
  <2>3. ASSUME more, NEW p, p = Len(old) + n + 1
        PROVE  new[p] = y
    <3>1. p \in 1..Len(first) + Len(nulls) /\ ~ (p <= Len(first)) /\ p - Len(first) = 1
      BY <1>2, <1>3, <1>5, <2>3
    <3>2. QED
      BY <1>2, <2>1, <2>3, <3>1
  <2>4. QED
    BY <1>2, <1>5, <2>1, <2>2, <2>3
<1>6. ASSUME NEW first, first = old \o added, NEW new, new = first \o nulls
      PROVE  new \in Seq(S) /\ Longer(new, old, n, x, y, more)
  <2>1. /\ first \in Seq(S) /\ Len(first) = Len(old) + n
        /\ \A k \in 1..Len(old) : first[k] = old[k]
        /\ \A k \in 1..n : first[Len(old) + k] = x
    BY <1>4, <1>6
  <2>2. /\ new \in Seq(S) /\ Len(new) = Len(old) + n + (IF more THEN 1 ELSE 0)
        /\ \A k \in 1..Len(old) + n : new[k] = first[k]
        /\ more => new[Len(old) + n + 1] = y
    BY <1>5, <1>6, <2>1
  <2>3. \A k \in 1..Len(old) : new[k] = old[k]
    BY <1>3, <2>1, <2>2
  <2>4. ASSUME NEW k \in 1..n, NEW p, p = Len(old) + k
        PROVE  new[p] = x
    <3>1. p \in 1..Len(old) + n
      BY <1>3, <2>4
    <3>2. QED
      BY <2>1, <2>2, <2>4, <3>1
  <2>5. QED
    BY <2>2, <2>3, <2>4 DEF Longer
<1>7. QED
  BY <1>6 DEF Extended, added, nulls

(* The array is at least as long; its rows and memory are as they were.      *)
Regrown(r, g) ==
  /\ Owned(g) /\ Safe(r, g) /\ g.row_amount = r.row_amount /\ g.text = r.text
  /\ Len(r.array) <= Len(g.array)
  /\ \A i \in 1..Len(r.array) : g.array[i] = r.array[i]

LEMMA LongerOwned ==
  ASSUME NEW r, Owned(r), NEW n \in Nat, NEW more \in BOOLEAN, NEW g \in Records,
         Longer(g.array, r.array, n, Bare, NullRow, more),
         Longer(g.buffersize, r.buffersize, n, Unsized, NullRow, more),
         g.text = r.text, g.row_amount = r.row_amount, Safe(r, g), more => g.starved
  PROVE  Regrown(r, g)
<1> DEFINE old == Len(r.array)
<1>1. r \in Records /\ old \in Nat /\ Len(r.buffersize) = old
  BY FieldsAre DEF Owned, Sized
<1>2. Bare \in CellRows /\ \A j \in 1..ColMax : Bare[j] = Null
  BY Constants DEF Bare, CellRows
<1>3. Bare # NullRow /\ Unsized # NullRow
  <2>1. Unsized \in [1..ColMax -> BOOLEAN] /\ Bare \in [1..ColMax -> 0..Cells]
    BY <1>2 DEF Unsized, CellRows
  <2>2. QED
    BY <2>1, RowsDiffer
<1>4. /\ more => Len(g.array) = old + n + 1
      /\ ~ more => Len(g.array) = old + n
      /\ Len(g.buffersize) = Len(g.array)
  <2>1. /\ Len(g.array) = old + n + (IF more THEN 1 ELSE 0)
        /\ Len(g.buffersize) = old + n + (IF more THEN 1 ELSE 0)
    BY <1>1 DEF Longer
  <2>2. CASE more
    BY <1>1, <2>1, <2>2
  <2>3. CASE ~ more
    BY <1>1, <2>1, <2>3
  <2>4. QED
    BY <2>2, <2>3
<1>5. \A k \in 1..old : g.array[k] = r.array[k] /\ g.buffersize[k] = r.buffersize[k]
  BY <1>1 DEF Longer
<1>6. ASSUME NEW k \in 1..Len(g.array), ~ (k <= old)
      PROVE  \/ g.array[k] = Bare /\ g.buffersize[k] = Unsized
             \/ g.array[k] = NullRow /\ g.buffersize[k] = NullRow /\ more
  <2>1. CASE k <= old + n
    <3>1. k - old \in 1..n /\ old + (k - old) = k
      BY <1>1, <1>6, <2>1
    <3>2. QED
      BY <1>1, <3>1 DEF Longer
  <2>2. CASE ~ (k <= old + n)
    <3>1. more /\ k = old + n + 1
      <4>1. CASE more
        BY <1>1, <1>4, <1>6, <2>2, <4>1
      <4>2. CASE ~ more
        BY <1>1, <1>4, <1>6, <2>2, <4>2
      <4>3. QED
        BY <4>1, <4>2
    <3>2. QED
      BY <1>1, <3>1 DEF Longer
  <2>3. QED
    BY <2>1, <2>2
<1>15. old <= Len(g.array) /\ 1..old \subseteq 1..Len(g.array)
  <2>1. old <= Len(g.array) /\ Len(g.array) \in Nat
    <3>1. CASE more
      BY <1>1, <1>4, <3>1
    <3>2. CASE ~ more
      BY <1>1, <1>4, <3>2
    <3>3. QED
      BY <3>1, <3>2
  <2>2. QED
    BY <1>1, <2>1
<1>7. \A k \in InUse(r) : k \in InUse(g) /\ k <= old
  <2>1. ASSUME NEW k \in InUse(r)
        PROVE  k \in InUse(g) /\ k <= old
    <3>1. k \in 1..old /\ r.array[k] # NullRow
      BY <1>1, FieldsAre
    <3>2. k \in 1..Len(g.array) /\ g.array[k] # NullRow
      BY <1>5, <1>15, <3>1
    <3>3. QED
      BY <1>1, <3>1, <3>2, FieldsAre
  <2>2. QED
    BY <2>1
<1>8. ASSUME NEW k \in InUse(g)
      PROVE  (k \in InUse(r) /\ k \in 1..old) \/ \A j \in 1..ColMax : g.array[k][j] = Null
  <2>1. k \in 1..Len(g.array) /\ g.array[k] # NullRow
    BY FieldsAre
  <2>2. CASE k <= old
    <3>1. k \in 1..old
      BY <1>1, <2>1, <2>2
    <3>2. QED
      BY <1>1, <1>5, <2>1, <3>1, FieldsAre
  <2>3. CASE ~ (k <= old)
    BY <1>2, <1>6, <2>1, <2>3
  <2>4. QED
    BY <2>2, <2>3
<1>9. Apart(g)
  <2>1. ASSUME NEW i \in InUse(g), NEW k \in InUse(g), NEW j \in 1..ColMax, NEW l \in 1..ColMax,
               g.array[i][j] # Null, g.array[i][j] = g.array[k][l]
        PROVE  i = k /\ j = l
    <3>1. i \in InUse(r) /\ k \in InUse(r) /\ i \in 1..old /\ k \in 1..old
      BY <1>8, <2>1
    <3>2. g.array[i] = r.array[i] /\ g.array[k] = r.array[k]
      BY <1>5, <3>1
    <3>3. QED
      BY <2>1, <3>1, <3>2 DEF Owned, Apart
  <2>2. QED
    BY <2>1 DEF Apart
<1>10. Alive(g)
  <2>1. ASSUME NEW i \in InUse(g), NEW j \in 1..ColMax, g.array[i][j] # Null
        PROVE  g.text[g.array[i][j]] \in Texts
    <3>1. i \in InUse(r) /\ i \in 1..old
      BY <1>8, <2>1
    <3>2. g.array[i] = r.array[i]
      BY <1>5, <3>1
    <3>3. QED
      BY <2>1, <3>1, <3>2 DEF Owned, Alive
  <2>2. QED
    BY <2>1 DEF Alive
<1>11. Sized(g)
  <2>1. ASSUME NEW i \in 1..Len(g.array)
        PROVE  g.array[i] = NullRow <=> g.buffersize[i] = NullRow
    <3>1. CASE i <= old
      <4>1. i \in 1..old
        BY <1>1, <3>1
      <4>2. r.array[i] = NullRow <=> r.buffersize[i] = NullRow
        BY <4>1 DEF Owned, Sized
      <4>3. QED
        BY <1>5, <4>1, <4>2
    <3>2. CASE ~ (i <= old)
      BY <1>3, <1>6, <3>2
    <3>3. QED
      BY <3>1, <3>2
  <2>2. ASSUME NEW i \in InUse(g), NEW j \in 1..ColMax, g.array[i][j] # Null
        PROVE  g.buffersize[i][j]
    <3>1. i \in InUse(r) /\ i \in 1..old
      BY <1>8, <2>2
    <3>2. g.array[i] = r.array[i] /\ g.buffersize[i] = r.buffersize[i]
      BY <1>5, <3>1
    <3>3. QED
      BY <2>2, <3>1, <3>2 DEF Owned, Sized
  <2>3. QED
    BY <1>4, <2>1, <2>2 DEF Sized
<1>12. Filled(g)
  <2>1. r.row_amount <= old /\ r.row_amount \in Nat /\ \A i \in Used(r) : i \in InUse(r) /\ r.array[i][1] # Null
    BY <1>1, FieldsAre DEF Owned, Filled
  <2>2. g.row_amount <= Len(g.array)
    BY <1>1, <1>4, <2>1
  <2>3. ASSUME NEW i \in Used(g)
        PROVE  i \in InUse(g) /\ g.array[i][1] # Null
    <3>1. i \in Used(r) /\ i \in InUse(r) /\ r.array[i][1] # Null
      BY <2>1, <2>3 DEF Used
    <3>2. i \in InUse(g) /\ i \in 1..old
      BY <1>1, <1>7, <3>1, FieldsAre
    <3>3. QED
      BY <1>5, <3>1, <3>2
  <2>4. QED
    BY <2>2, <2>3 DEF Filled
<1>13. Excused(g)
  <2>1. CASE g.starved
    BY <2>1 DEF Excused
  <2>2. CASE ~ g.starved
    <3>1. ~ more /\ ~ r.starved
      BY <2>2 DEF Safe
    <3>2. InUse(r) = 1..old
      BY <3>1 DEF Owned, Excused
    <3>3. ASSUME NEW k \in 1..Len(g.array)
          PROVE  k \in InUse(g)
      <4>1. CASE k <= old
        BY <1>1, <1>7, <3>2, <4>1
      <4>2. CASE ~ (k <= old)
        BY <1>3, <1>6, <3>1, <4>2, FieldsAre
      <4>3. QED
        BY <4>1, <4>2
    <3>4. QED
      BY <3>3, FieldsAre DEF Excused
  <2>3. QED
    BY <2>1, <2>2
<1>14. Owned(g)
  BY <1>9, <1>10, <1>11, <1>12, <1>13 DEF Owned
<1>16. QED
  BY <1>5, <1>14, <1>15 DEF Regrown

LEMMA ReallocIs ==
  ASSUME NEW r, Owned(r), NEW failing \in Int, NEW g, g = charArray_realloc(r, failing)
  PROVE  /\ Regrown(r, g)
         /\ Fine(g) => Len(r.array) < Len(g.array)
         /\ Fine(r) => Fine(g) \/ g.starved
<1> DEFINE n == IF failing > 0 THEN failing - 1 ELSE RowGrow
           array == Extended(r.array, n, Bare, NullRow, failing > 0)
           sizes == Extended(r.buffersize, n, Unsized, NullRow, failing > 0)
           grown == [r EXCEPT !.array = array, !.buffersize = sizes]
<1>1. g = CASE failing = 0 -> grown
            [] failing = -1 -> OutOfMemory(r)
            [] failing = -2 -> Crash(OutOfMemory(r))
            [] OTHER -> OutOfMemory(grown)
  BY DEF charArray_realloc, Extended
<1>2. r \in Records /\ n \in Nat /\ (failing > 0) \in BOOLEAN /\ Len(r.array) \in Nat
  BY FieldsAre, Constants DEF Owned
<1>3. /\ array \in Seq(RowsOf(0..Cells)) /\ Longer(array, r.array, n, Bare, NullRow, failing > 0)
      /\ sizes \in Seq(RowsOf(BOOLEAN))
      /\ Longer(sizes, r.buffersize, n, Unsized, NullRow, failing > 0)
  <2>1. Bare \in RowsOf(0..Cells) /\ NullRow \in RowsOf(0..Cells)
    BY Constants DEF RowsOf, Bare
  <2>2. Unsized \in RowsOf(BOOLEAN) /\ NullRow \in RowsOf(BOOLEAN)
    BY DEF RowsOf, Unsized
  <2>3. r.array \in Seq(RowsOf(0..Cells)) /\ r.buffersize \in Seq(RowsOf(BOOLEAN))
    BY <1>2, FieldsAre
  <2> HIDE DEF n
  <2>4. ASSUME NEW more \in BOOLEAN
        PROVE  /\ Extended(r.array, n, Bare, NullRow, more) \in Seq(RowsOf(0..Cells))
               /\ Longer(Extended(r.array, n, Bare, NullRow, more), r.array, n, Bare, NullRow, more)
    BY <1>2, <2>1, <2>3, LongerIs
  <2>5. ASSUME NEW more \in BOOLEAN
        PROVE  /\ Extended(r.buffersize, n, Unsized, NullRow, more) \in Seq(RowsOf(BOOLEAN))
               /\ Longer(Extended(r.buffersize, n, Unsized, NullRow, more), r.buffersize, n,
                         Unsized, NullRow, more)
    BY <1>2, <2>2, <2>3, LongerIs
  <2>6. QED
    BY <1>2, <2>4, <2>5
<1> HIDE DEF n, array, sizes
<1>4. /\ grown \in Records /\ grown.array = array /\ grown.buffersize = sizes
      /\ grown.text = r.text /\ grown.row_amount = r.row_amount /\ Safe(r, grown)
      /\ grown.ok = r.ok /\ grown.ret = r.ret
  BY <1>2, <1>3 DEF Records, Safe
<1>5. ASSUME NEW s, Noted(r, s), Owned(s), Safe(r, s)
      PROVE  Regrown(r, s)
  BY <1>2, <1>5 DEF Regrown, Noted, SameRows
<1>6. CASE failing = 0
  <2>1. g = grown
    BY <1>1, <1>6
  <2>2. n = RowGrow /\ ~ (failing > 0) /\ n > 0
    BY <1>6, Constants DEF n
  <2>3. ASSUME NEW more \in BOOLEAN, ~ more,
               Longer(g.array, r.array, n, Bare, NullRow, more),
               Longer(g.buffersize, r.buffersize, n, Unsized, NullRow, more)
        PROVE  Regrown(r, g) /\ Len(r.array) < Len(g.array)
    <3>1. Regrown(r, g)
      <4> HIDE DEF grown
      <4>1. QED
        BY <1>2, <1>4, <2>1, <2>3, LongerOwned
    <3>2. Len(g.array) = Len(r.array) + n
      BY <1>2, <2>3 DEF Longer
    <3>3. QED
      BY <1>2, <2>2, <3>1, <3>2
  <2>5. Fine(r) => Fine(g)
    BY <1>4, <2>1 DEF Fine
  <2>4. QED
    BY <1>2, <1>3, <1>4, <2>1, <2>2, <2>3, <2>5
<1>7. CASE failing = -1
  <2>1. g = OutOfMemory(r)
    BY <1>1, <1>7
  <2>2. Noted(r, g) /\ Safe(r, g) /\ ~ Fine(g) /\ g.starved = TRUE
    BY <1>2, <2>1, OutOfMemoryNotes
  <2>3. QED
    BY <1>5, <2>2, NotedOwned
<1>8. CASE failing = -2
  <2>1. g = Crash(OutOfMemory(r))
    BY <1>1, <1>8
  <2>2. PICK m : m = OutOfMemory(r)
    OBVIOUS
  <2>3. Noted(r, m) /\ m \in Records /\ m.starved = TRUE
    BY <1>2, <2>2, OutOfMemoryNotes DEF Noted, SameRows
  <2>6. Noted(m, g) /\ g.starved = TRUE /\ ~ Fine(g)
    BY <2>1, <2>2, <2>3, CrashNotes
  <2>4. Noted(r, g) /\ Safe(r, g) /\ ~ Fine(g) /\ g.starved = TRUE
    BY <2>3, <2>6 DEF Noted, SameRows, Safe
  <2>5. QED
    BY <1>5, <2>4, NotedOwned
<1>9. CASE failing \notin {0, -1, -2}
  <2>1. g = OutOfMemory(grown)
    BY <1>1, <1>9
  <2> HIDE DEF grown
  <2>2. /\ Noted(grown, g) /\ Safe(grown, g) /\ g.starved /\ ~ Fine(g)
    BY <1>4, <2>1, OutOfMemoryNotes
  <2>3. /\ g \in Records /\ g.array = array /\ g.buffersize = sizes
        /\ g.text = r.text /\ g.row_amount = r.row_amount /\ Safe(r, g)
    BY <1>4, <2>2 DEF Noted, SameRows, Safe
  <2>4. ASSUME NEW more \in BOOLEAN,
               Longer(g.array, r.array, n, Bare, NullRow, more),
               Longer(g.buffersize, r.buffersize, n, Unsized, NullRow, more)
        PROVE  Regrown(r, g)
    BY <1>2, <2>2, <2>3, <2>4, LongerOwned
  <2>5. QED
    BY <1>2, <1>3, <2>2, <2>3, <2>4
<1>10. QED
  BY <1>6, <1>7, <1>8, <1>9

(* There is room for one more row, which has a cell, unless a step failed.   *)
Spared(r, s) ==
  /\ Owned(s) /\ Safe(r, s) /\ s.row_amount = r.row_amount
  /\ \A i \in Used(r), j \in 1..ColMax : s.array[i][j] = r.array[i][j]
  /\ \A b \in 1..Cells : r.text[b] \in Texts => s.text[b] = r.text[b]
  /\ Fine(s) => s.row_amount + 1 \in InUse(s) /\ s.array[s.row_amount + 1][1] # Null
  /\ Fine(r) => Fine(s) \/ s.starved

LEMMA SpareRowIs ==
  ASSUME NEW r, Owned(r), NEW failing \in Int, NEW s, s = SpareRow(r, failing)
  PROVE  Spared(r, s)
<1> DEFINE g == IF r.row_amount >= Len(r.array) THEN charArray_realloc(r, failing) ELSE r
           n == g.row_amount + 1
<1>1. s = IF ~ Fine(g) THEN g
          ELSE IF g.array[n] = NullRow THEN Crash(g)
          ELSE IF g.array[n][1] # Null THEN g ELSE Malloc(g, n, 1)
  BY DEF SpareRow
<1>2. /\ r \in Records /\ Len(r.array) \in Nat /\ r.row_amount \in Nat /\ r.row_amount <= Len(r.array)
      /\ Used(r) \subseteq 1..Len(r.array)
  <2>1. r \in Records /\ r.row_amount <= Len(r.array)
    BY DEF Owned, Filled
  <2>2. Len(r.array) \in Nat /\ r.row_amount \in Nat
    BY <2>1, FieldsAre
  <2>3. QED
    BY <2>1, <2>2 DEF Used
<1>3. Regrown(r, g) /\ (Fine(g) => n <= Len(g.array)) /\ (Fine(r) => Fine(g) \/ g.starved)
  <2>1. CASE r.row_amount >= Len(r.array)
    <3>1. /\ Regrown(r, g) /\ (Fine(g) => Len(r.array) < Len(g.array))
          /\ Fine(r) => Fine(g) \/ g.starved
      BY <2>1, ReallocIs
    <3>2. g.row_amount = r.row_amount /\ g \in Records
      BY <3>1 DEF Regrown, Owned
    <3>3. Len(g.array) \in Nat
      BY <3>2, FieldsAre
    <3> HIDE DEF g
    <3>4. QED
      BY <1>2, <2>1, <3>1, <3>2, <3>3
  <2>2. CASE ~ (r.row_amount >= Len(r.array))
    <3>1. g = r
      BY <2>2
    <3>2. Regrown(r, r)
      BY <1>2 DEF Regrown, Safe
    <3>3. QED
      BY <1>2, <2>2, <3>1, <3>2
  <2>3. QED
    BY <2>1, <2>2
<1> HIDE DEF g
<1>4. /\ Owned(g) /\ g \in Records /\ Safe(r, g) /\ g.row_amount = r.row_amount /\ g.text = r.text
      /\ \A i \in Used(r) : g.array[i] = r.array[i]
  BY <1>2, <1>3 DEF Regrown, Owned
<1>5. /\ n \in Nat \ {0} /\ n \notin Used(r) /\ Len(g.array) \in Nat
      /\ \A i \in Used(r) : i \in InUse(g)
  <2>1. \A i \in Used(g) : i \in InUse(g)
    BY <1>4 DEF Owned, Filled
  <2>2. QED
    BY <1>2, <1>4, <2>1, FieldsAre DEF Used
<1>6. CASE ~ Fine(g)
  BY <1>1, <1>3, <1>4, <1>6 DEF Spared
<1>7. CASE Fine(g) /\ g.array[n] = NullRow
  <2>1. s = Crash(g)
    BY <1>1, <1>7
  <2>2. n \in 1..Len(g.array)
    BY <1>3, <1>5, <1>7
  <2>3. g.starved
    BY <1>4, <1>7, <2>2, FieldsAre DEF Owned, Excused
  <2>4. Noted(g, s) /\ s.ok = FALSE /\ s.starved /\ ~ Fine(s)
    BY <1>4, <2>1, <2>3, CrashNotes
  <2>5. Owned(s)
    BY <1>4, <2>4, NotedOwned
  <2>6. s.array = g.array /\ s.text = g.text /\ s.row_amount = g.row_amount
    BY <2>4 DEF Noted, SameRows
  <2>7. Safe(r, s)
    BY <2>4 DEF Safe
  <2>8. QED
    BY <1>4, <2>4, <2>5, <2>6, <2>7 DEF Spared
<1>8. CASE Fine(g) /\ g.array[n] # NullRow
  <2>1. n \in InUse(g)
    BY <1>3, <1>4, <1>5, <1>8, FieldsAre
  <2>2. CASE g.array[n][1] # Null
    <3>1. s = g
      BY <1>1, <1>8, <2>2
    <3>2. QED
      BY <1>4, <1>8, <2>1, <2>2, <3>1 DEF Spared
  <2>3. CASE g.array[n][1] = Null
    <3>1. s = Malloc(g, n, 1)
      BY <1>1, <1>8, <2>3
    <3>2. CASE Unused(g) = {}
      <4>1. s = OutOfMemory(g)
        BY <3>1, <3>2 DEF Malloc
      <4>2. Noted(g, s) /\ Safe(g, s) /\ ~ Fine(s) /\ s.starved = TRUE
        BY <1>4, <4>1, OutOfMemoryNotes
      <4>3. Owned(s)
        BY <1>4, <4>2, NotedOwned
      <4>4. QED
        BY <1>4, <4>2, <4>3 DEF Spared, Noted, SameRows, Safe
    <3>3. CASE Unused(g) # {}
      <4>1. PICK a : Taken(g, s, n, 1, a)
        BY <1>4, <2>1, <2>3, <3>1, <3>3, Constants, MallocTakes
      <4>2. /\ Owned(s) /\ InUse(s) = InUse(g) /\ s.row_amount = g.row_amount /\ s.ok = g.ok
            /\ s.starved = g.starved /\ s.ret = g.ret /\ a \in 1..Cells /\ g.text[a] = Freed
            /\ \A b \in 1..Cells : b # a => s.text[b] = g.text[b]
            /\ \A k \in InUse(g), l \in 1..ColMax :
                 s.array[k][l] = IF k = n /\ l = 1 THEN a ELSE g.array[k][l]
        BY <4>1 DEF Taken
      <4>3. s.array[n][1] # Null
        BY <2>1, <4>2, Constants
      <4>4. \A i \in Used(r), j \in 1..ColMax : s.array[i][j] = r.array[i][j]
        BY <1>4, <1>5, <4>2
      <4>5. \A b \in 1..Cells : r.text[b] \in Texts => s.text[b] = r.text[b]
        BY <1>4, <4>2, Constants
      <4>6. QED
        BY <1>4, <1>8, <2>1, <4>2, <4>3, <4>4, <4>5 DEF Spared, Safe, Fine
    <3>4. QED
      BY <3>2, <3>3
  <2>4. QED
    BY <2>2, <2>3
<1>9. QED
  BY <1>6, <1>7, <1>8

-----------------------------------------------------------------------------
(* Calls.  What grows keeps the cells it has and what they hold; what       *)
(* rewrites keeps the cells.                                               *)
Rewrites(r, s) == Owned(s) /\ Safe(r, s) /\ Stays(r, s)

Grows(r, s) == Rewrites(r, s) /\ Steady(r, s)

LEMMA GrowsOn ==
  ASSUME NEW r, NEW s, NEW t, Rewrites(r, s), Rewrites(s, t)
  PROVE  Rewrites(r, t) /\ (Grows(r, s) /\ Grows(s, t) => Grows(r, t))
<1>1. Owned(t) /\ Safe(r, t) /\ Stays(r, t)
  BY DEF Rewrites, Safe, Stays
<1>2. ASSUME Steady(r, s), Steady(s, t)
      PROVE  Steady(r, t)
  BY <1>2 DEF Rewrites, Stays, Steady
<1>3. QED
  BY <1>1, <1>2 DEF Grows, Rewrites

LEMMA NotedGrows ==
  ASSUME NEW r, Owned(r), NEW s, Noted(r, s), Safe(r, s)
  PROVE  Grows(r, s)
BY NotedOwned DEF Grows, Rewrites

LEMMA CutIs ==
  ASSUME NEW t \in Texts
  PROVE  Cut(t) \in Texts
<1>1. CASE Len(t) < CellLength
  BY <1>1 DEF Cut
<1>2. CASE ~ (Len(t) < CellLength)
  <2>1. 1 \in Nat \ {0} /\ CellLength - 1 \in Int /\ CellLength - 1 <= Len(t)
    <3>1. Len(t) \in Nat
      BY DEF Texts
    <3>2. QED
      BY <1>2, <3>1, Constants
  <2>2. SubSeq(t, 1, CellLength - 1) \in Texts
    BY <2>1, PartOfText
  <2>3. QED
    BY <1>2, <2>2 DEF Cut
<1>3. QED
  BY <1>1, <1>2

LEMMA SparedGrows ==
  ASSUME NEW r, Owned(r), NEW s, Spared(r, s)
  PROVE  Grows(r, s)
<1>1. Owned(s) /\ Safe(r, s) /\ Used(s) = Used(r)
  BY DEF Spared, Used
<1>2. Stays(r, s)
  <2>1. ASSUME NEW a \in Held(r)
        PROVE  a \in Held(s)
    <3>1. PICK i \in Used(r), j \in 1..ColMax : a # Null /\ a = r.array[i][j]
      BY <2>1, HeldIs
    <3>2. a = s.array[i][j]
      BY <3>1 DEF Spared
    <3>3. QED
      BY <1>1, <3>1, <3>2, HeldIs
  <2>2. QED
    BY <2>1 DEF Stays
<1>3. Steady(r, s)
  BY HeldIs DEF Steady, Spared
<1>4. QED
  BY <1>1, <1>2, <1>3 DEF Grows, Rewrites

(* A line that is added: the row behind the last one is the last, and its   *)
(* first cell holds the line.                                              *)
AddedTo(r, s, t, n, string) ==
  /\ t \in Records /\ t.array = s.array /\ t.buffersize = s.buffersize
  /\ t.row_amount = n /\ n = r.row_amount + 1 /\ n \in InUse(s)
  /\ t.text = [s.text EXCEPT ![s.array[n][1]] = Cut(string)]
  /\ t.ok = s.ok /\ t.starved = s.starved

Advanced(s, n, string) == [s EXCEPT !.row_amount = n, !.text[s.array[n][1]] = Cut(string)]

LEMMA AddIs ==
  ASSUME NEW r, Owned(r), NEW string \in Texts, NEW s, Spared(r, s), Fine(s),
         NEW n, n = s.row_amount + 1,
         NEW t, t = Advanced(s, n, string)
  PROVE  AddedTo(r, s, t, n, string) /\ Grows(r, t) /\ t.ok
<1>1. /\ Owned(s) /\ s \in Records /\ s.row_amount = r.row_amount /\ Safe(r, s)
      /\ n \in InUse(s) /\ s.array[n][1] # Null /\ s.row_amount \in Nat /\ Grows(r, s)
  BY SparedGrows, FieldsAre DEF Spared, Owned
<1>0. /\ \A i \in InUse(s), j \in 1..ColMax : s.array[i][j] \in 0..Cells
      /\ s.text \in [1..Cells -> Texts \cup {Freed}]
  BY <1>1, FieldsAre
<1>20. /\ \A i \in InUse(s), j \in 1..ColMax :
            s.array[i][j] # Null => s.array[i][j] \in 1..Cells /\ s.text[s.array[i][j]] \in Texts
  <2>1. ASSUME NEW c \in 0..Cells, c # Null
        PROVE  c \in 1..Cells
    BY <2>1, Constants
  <2>2. QED
    BY <1>0, <1>1, <2>1 DEF Owned, Alive
<1>2. s.array[n][1] \in 1..Cells /\ Cut(string) \in Texts
  <2>1. s.array[n][1] \in 1..Cells
    BY <1>1, <1>20, Constants
  <2>2. QED
    BY <2>1, CutIs
<1>3. t.text \in [1..Cells -> Texts \cup {Freed}] /\ n \in Nat
  <2>1. s.text \in [1..Cells -> Texts \cup {Freed}]
    BY <1>1, FieldsAre
  <2>2. [s.text EXCEPT ![s.array[n][1]] = Cut(string)] \in [1..Cells -> Texts \cup {Freed}]
    BY <1>2, <2>1
  <2>3. t.text = [s.text EXCEPT ![s.array[n][1]] = Cut(string)]
    BY <1>1 DEF Records, Advanced
  <2>4. n \in Nat
    BY <1>1
  <2>5. QED
    BY <2>2, <2>3, <2>4
<1>4. AddedTo(r, s, t, n, string)
  BY <1>1, <1>3 DEF AddedTo, Records, Advanced
<1>5. /\ t \in Records /\ t.array = s.array /\ t.buffersize = s.buffersize
      /\ t.row_amount = n /\ t.ok = s.ok /\ t.starved = s.starved
      /\ t.text = [s.text EXCEPT ![s.array[n][1]] = Cut(string)]
  BY <1>4 DEF AddedTo
<1>6. InUse(t) = InUse(s)
  BY <1>5 DEF InUse
<1>7. \A b \in 1..Cells : t.text[b] = IF b = s.array[n][1] THEN Cut(string) ELSE s.text[b]
  <2>1. ASSUME NEW c, c = s.array[n][1]
        PROVE  \A b \in 1..Cells : t.text[b] = IF b = c THEN Cut(string) ELSE s.text[b]
    <3>1. PICK line : line = Cut(string)
      OBVIOUS
    <3>2. c \in 1..Cells /\ t.text = [s.text EXCEPT ![c] = line]
      BY <1>2, <1>5, <2>1, <3>1
    <3>3. PICK f \in [1..Cells -> Texts \cup {Freed}] : f = s.text
      BY <1>0
    <3>4. PICK g : g = t.text
      OBVIOUS
    <3>5. \A b \in 1..Cells : g[b] = IF b = c THEN line ELSE f[b]
      BY <3>2, <3>3, <3>4
    <3>6. QED
      BY <3>1, <3>3, <3>4, <3>5
  <2>2. QED
    BY <2>1
<1>8. Alive(t)
  <2>1. ASSUME NEW i \in InUse(s), NEW j \in 1..ColMax, s.array[i][j] # Null
        PROVE  t.text[s.array[i][j]] \in Texts
    BY <1>2, <1>7, <1>20, <2>1
  <2>2. QED
    BY <1>5, <1>6, <2>1 DEF Alive
<1>9. Filled(t)
  <2>1. n <= Len(t.array)
    <3>1. n \in 1..Len(s.array) /\ Len(s.array) \in Nat
      BY <1>1, FieldsAre
    <3>2. QED
      BY <1>5, <3>1
  <2>2. ASSUME NEW i \in Used(t)
        PROVE  i \in InUse(t) /\ t.array[i][1] # Null
    <3>1. i = n \/ i \in Used(s)
      BY <1>1, <1>5, <2>2 DEF Used
    <3>2. QED
      BY <1>1, <1>5, <1>6, <3>1 DEF Owned, Filled
  <2>3. QED
    BY <1>5, <2>1, <2>2 DEF Filled
<1>10. Apart(t) /\ Sized(t) /\ Excused(t)
  <2>1. Apart(s) /\ Sized(s) /\ Excused(s)
    BY <1>1 DEF Owned
  <2>2. Apart(t)
    BY <1>5, <1>6, <2>1 DEF Apart
  <2>3. Sized(t)
    BY <1>5, <1>6, <2>1 DEF Sized
  <2>4. Excused(t)
    BY <1>5, <1>6, <2>1 DEF Excused
  <2>5. QED
    BY <2>2, <2>3, <2>4
<1>11. Owned(t)
  BY <1>5, <1>8, <1>9, <1>10 DEF Owned
<1>12. \A i \in Used(s) : i # n /\ i \in Used(t) /\ i \in InUse(s)
  BY <1>1, <1>5 DEF Used, Owned, Filled
<1>13. Stays(s, t)
  <2>1. ASSUME NEW a \in Held(s)
        PROVE  a \in Held(t)
    <3>1. PICK i \in Used(s), j \in 1..ColMax : a # Null /\ a = s.array[i][j]
      BY <1>1, <2>1, HeldIs
    <3>2. i \in Used(t) /\ a = t.array[i][j]
      BY <1>5, <1>12, <3>1
    <3>3. QED
      BY <1>11, <3>1, <3>2, HeldIs
  <2>2. QED
    BY <2>1 DEF Stays
<1>14. Steady(s, t)
  <2>1. ASSUME NEW a \in Held(s)
        PROVE  t.text[a] = s.text[a]
    <3>1. PICK i \in Used(s), j \in 1..ColMax : a # Null /\ a = s.array[i][j]
      BY <1>1, <2>1, HeldIs
    <3>2. a # s.array[n][1]
      <4>1. Apart(s) /\ i \in InUse(s) /\ i # n /\ n \in InUse(s)
        BY <1>1, <1>12, <3>1 DEF Owned
      <4>2. 1 \in 1..ColMax
        BY Constants
      <4>3. QED
        BY <3>1, <4>1, <4>2 DEF Apart
    <3>3. a \in 1..Cells
      BY <1>1, <2>1, HeldIs
    <3>4. QED
      BY <1>7, <3>2, <3>3
  <2>2. QED
    BY <2>1 DEF Steady
<1>15. Grows(s, t)
  BY <1>5, <1>11, <1>13, <1>14 DEF Grows, Rewrites, Safe
<1>16. Grows(r, t)
  BY <1>1, <1>15, GrowsOn DEF Grows
<1>17. t.ok
  BY <1>5 DEF Fine
<1>18. QED
  BY <1>4, <1>16, <1>17

LEMMA AddGrows ==
  ASSUME NEW r, Owned(r), NEW string \in Texts, NEW failing \in Int,
         NEW s, s = charArray_add(r, string, failing)
  PROVE  Grows(r, s)
<1>1. PICK m : m = SpareRow(r, failing)
  OBVIOUS
<1>2. Spared(r, m) /\ s = IF ~ Fine(m) THEN m ELSE Advanced(m, m.row_amount + 1, string)
  BY <1>1, SpareRowIs DEF charArray_add, Advanced
<1>3. QED
  BY <1>2, SparedGrows, AddIs

-----------------------------------------------------------------------------
(* Rows move.  Where the row at k comes from when the one at from moves to  *)
(* to.                                                                     *)
Origin(from, to, k) ==
  IF k = to THEN from
  ELSE IF to < k /\ k <= from THEN k - 1
  ELSE IF from <= k /\ k < to THEN k + 1
  ELSE k

LEMMA RotatedIs ==
  ASSUME NEW V, NEW rows \in Seq(V), NEW from \in 1..Len(rows), NEW to \in 1..Len(rows),
         NEW new, new = Rotated(rows, from, to)
  PROVE  /\ new \in Seq(V) /\ Len(new) = Len(rows)
         /\ \A k \in 1..Len(rows) : new[k] = rows[Origin(from, to, k)]
<1>1. ASSUME NEW rest, rest = RemoveAt(rows, from)
      PROVE  /\ rest \in Seq(V) /\ Len(rest) = Len(rows) - 1
             /\ \A k \in 1..Len(rows) - 1 : rest[k] = IF k < from THEN rows[k] ELSE rows[k + 1]
  BY <1>1, RemoveAtIs
<1>2. PICK rest : rest = RemoveAt(rows, from)
  OBVIOUS
<1>3. Len(rows) \in Nat /\ rows[from] \in V /\ Len(rest) + 1 = Len(rows) /\ rest \in Seq(V)
  BY <1>1, <1>2, ElementOfSeq
<1>4. new = InsertAt(rest, to, rows[from])
  BY <1>2 DEF Rotated
<1>5. /\ new \in Seq(V) /\ Len(new) = Len(rows)
      /\ \A k \in 1..Len(rows) :
           new[k] = IF k < to THEN rest[k] ELSE IF k = to THEN rows[from] ELSE rest[k - 1]
  <2>1. ASSUME NEW e \in V, NEW n, n = InsertAt(rest, to, e)
        PROVE  /\ n \in Seq(V) /\ Len(n) = Len(rest) + 1
               /\ \A k \in 1..Len(rest) + 1 :
                    n[k] = IF k < to THEN rest[k] ELSE IF k = to THEN e ELSE rest[k - 1]
    <3>1. to \in 1..Len(rest) + 1
      BY <1>3
    <3>2. rest \in Seq(V)
      BY <1>3
    <3>3. /\ InsertAt(rest, to, e) \in Seq(V)
          /\ Len(InsertAt(rest, to, e)) = Len(rest) + 1
          /\ \A k \in 1..Len(rest) + 1 : InsertAt(rest, to, e)[k] =
               IF k < to THEN rest[k] ELSE IF k = to THEN e ELSE rest[k - 1]
      BY <3>1, <3>2, InsertAtIs
    <3>4. QED
      BY <2>1, <3>3
  <2>2. QED
    BY <1>3, <1>4, <2>1
<1>6. ASSUME NEW k \in 1..Len(rows)
      PROVE  new[k] = rows[Origin(from, to, k)]
  <2>1. CASE k < to
    <3>1. k \in 1..Len(rows) - 1 /\ new[k] = rest[k]
      BY <1>3, <1>5, <2>1
    <3>2. rest[k] = IF k < from THEN rows[k] ELSE rows[k + 1]
      BY <1>1, <1>2, <3>1
    <3>3. Origin(from, to, k) = IF k < from THEN k ELSE k + 1
      BY <2>1 DEF Origin
    <3>4. QED
      BY <3>1, <3>2, <3>3
  <2>2. CASE k = to
    BY <1>5, <2>2 DEF Origin
  <2>3. CASE k > to
    <3>1. k - 1 \in 1..Len(rows) - 1 /\ new[k] = rest[k - 1] /\ (k - 1) + 1 = k
      BY <1>3, <1>5, <2>3
    <3>2. rest[k - 1] = IF k - 1 < from THEN rows[k - 1] ELSE rows[k]
      BY <1>1, <1>2, <3>1
    <3>3. Origin(from, to, k) = IF k - 1 < from THEN k - 1 ELSE k
      BY <2>3 DEF Origin
    <3>4. QED
      BY <3>1, <3>2, <3>3
  <2>4. QED
    BY <2>1, <2>2, <2>3
<1>7. QED
  BY <1>5, <1>6

LEMMA OriginIs ==
  ASSUME NEW n \in Nat, NEW from \in 1..n, NEW to \in 1..n, NEW k \in 1..n
  PROVE  /\ Origin(from, to, k) \in 1..n
         /\ Origin(to, from, Origin(from, to, k)) = k
BY DEF Origin

(* The rows of r, shuffled: row i of s is row p[i] of r, and q leads back.   *)
Shuffled(r, s, p, q) ==
  /\ s \in Records /\ s.text = r.text /\ s.starved = r.starved /\ s.ok = r.ok
  /\ Len(s.array) = Len(r.array) /\ Len(s.buffersize) = Len(r.buffersize)
  /\ p \in [1..Len(r.array) -> 1..Len(r.array)] /\ q \in [1..Len(r.array) -> 1..Len(r.array)]
  /\ \A i \in 1..Len(r.array) : q[p[i]] = i /\ p[q[i]] = i
  /\ \A i \in 1..Len(r.array) : s.array[i] = r.array[p[i]] /\ s.buffersize[i] = r.buffersize[p[i]]

LEMMA ShuffledStored ==
  ASSUME NEW r, Stored(r), NEW s, NEW p, NEW q, Shuffled(r, s, p, q)
  PROVE  /\ Stored(s)
         /\ \A i \in 1..Len(r.array) : i \in InUse(s) <=> p[i] \in InUse(r)
<1> DEFINE n == Len(r.array)
<1>1. /\ r \in Records /\ s \in Records /\ s.text = r.text /\ s.starved = r.starved
      /\ Len(s.array) = n /\ Len(s.buffersize) = Len(r.buffersize) /\ Len(r.buffersize) = n
      /\ Apart(r) /\ Alive(r) /\ Excused(r)
  BY DEF Stored, Shuffled, Sized
<1>2. /\ \A i \in 1..n : p[i] \in 1..n /\ q[i] \in 1..n /\ q[p[i]] = i /\ p[q[i]] = i
      /\ \A i \in 1..n : s.array[i] = r.array[p[i]] /\ s.buffersize[i] = r.buffersize[p[i]]
  BY DEF Shuffled
<1>3. \A i \in 1..n : i \in InUse(s) <=> p[i] \in InUse(r)
  <2>1. \A i \in 1..n : i \in InUse(r) <=> r.array[i] # NullRow
    BY <1>1, FieldsAre
  <2>2. \A i \in 1..n : i \in InUse(s) <=> s.array[i] # NullRow
    BY <1>1, FieldsAre
  <2> HIDE DEF n
  <2>3. QED
    BY <1>2, <2>1, <2>2
<1>4. InUse(s) \subseteq 1..n
  BY <1>1, FieldsAre
<1> HIDE DEF n
<1>5. Apart(s)
  <2>1. ASSUME NEW i \in InUse(s), NEW k \in InUse(s), NEW j \in 1..ColMax, NEW l \in 1..ColMax,
               s.array[i][j] # Null, s.array[i][j] = s.array[k][l]
        PROVE  i = k /\ j = l
    <3>1. i \in 1..n /\ k \in 1..n
      BY <1>4
    <3>2. /\ p[i] \in InUse(r) /\ p[k] \in InUse(r)
          /\ r.array[p[i]][j] # Null /\ r.array[p[i]][j] = r.array[p[k]][l]
      BY <1>2, <1>3, <2>1, <3>1
    <3>3. p[i] = p[k] /\ j = l
      BY <1>1, <3>2 DEF Apart
    <3>4. QED
      BY <1>2, <3>1, <3>3
  <2>2. QED
    BY <2>1 DEF Apart
<1>6. Alive(s)
  <2>1. ASSUME NEW i \in InUse(s), NEW j \in 1..ColMax, s.array[i][j] # Null
        PROVE  s.text[s.array[i][j]] \in Texts
    <3>1. i \in 1..n
      BY <1>4
    <3>2. p[i] \in InUse(r) /\ s.array[i] = r.array[p[i]]
      BY <1>2, <1>3, <3>1
    <3>3. QED
      BY <1>1, <2>1, <3>2 DEF Alive
  <2>2. QED
    BY <2>1 DEF Alive
<1>7. Sized(s)
  <2>1. /\ \A i \in 1..n : r.array[i] = NullRow <=> r.buffersize[i] = NullRow
        /\ \A i \in InUse(r), j \in 1..ColMax : r.array[i][j] # Null => r.buffersize[i][j]
    BY DEF Stored, Sized, n
  <2>2. \A i \in 1..n : s.array[i] = NullRow <=> s.buffersize[i] = NullRow
    BY <1>2, <2>1
  <2>3. ASSUME NEW i \in InUse(s), NEW j \in 1..ColMax, s.array[i][j] # Null
        PROVE  s.buffersize[i][j]
    <3>1. i \in 1..n
      BY <1>4
    <3>2. /\ p[i] \in InUse(r) /\ s.array[i] = r.array[p[i]]
          /\ s.buffersize[i] = r.buffersize[p[i]]
      BY <1>2, <1>3, <3>1
    <3>3. r.buffersize[p[i]][j]
      BY <2>1, <2>3, <3>2
    <3>4. QED
      BY <3>2, <3>3
  <2>4. QED
    BY <1>1, <2>2, <2>3 DEF Sized
<1>8. Excused(s)
  <2>1. CASE r.starved
    BY <1>1, <2>1 DEF Excused
  <2>2. CASE InUse(r) = 1..n
    BY <1>1, <1>2, <1>3, <1>4, <2>2 DEF Excused
  <2>3. QED
    BY <1>1, <2>1, <2>2 DEF Excused, n
<1>9. QED
  BY <1>1, <1>3, <1>5, <1>6, <1>7, <1>8 DEF Stored, n

Moved(t, from, to) == [t EXCEPT !.array = Rotated(@, from, to), !.buffersize = Rotated(@, from, to)]

MovedTo(t, s, from, to) ==
  /\ Shuffled(t, s, [i \in 1..Len(t.array) |-> Origin(from, to, i)],
              [i \in 1..Len(t.array) |-> Origin(to, from, i)])
  /\ s.row_amount = t.row_amount /\ s.col_amount = t.col_amount /\ s.ret = t.ret
  /\ \A i \in 1..Len(t.array) : s.array[i] = t.array[Origin(from, to, i)]

LEMMA MovedIs ==
  ASSUME NEW t \in Records, Len(t.buffersize) = Len(t.array),
         NEW from \in 1..Len(t.array), NEW to \in 1..Len(t.array), NEW s, s = Moved(t, from, to)
  PROVE  MovedTo(t, s, from, to)
<1> DEFINE n == Len(t.array)
           p == [i \in 1..n |-> Origin(from, to, i)]
           q == [i \in 1..n |-> Origin(to, from, i)]
<1>1. /\ t.array \in Seq(RowsOf(0..Cells)) /\ t.buffersize \in Seq(RowsOf(BOOLEAN)) /\ n \in Nat
      /\ Len(t.buffersize) = n
  BY FieldsAre
<1>2. /\ Rotated(t.array, from, to) \in Seq(RowsOf(0..Cells)) /\ Len(Rotated(t.array, from, to)) = n
      /\ \A i \in 1..n : Rotated(t.array, from, to)[i] = t.array[Origin(from, to, i)]
  BY <1>1, RotatedIs
<1>3. /\ Rotated(t.buffersize, from, to) \in Seq(RowsOf(BOOLEAN))
      /\ Len(Rotated(t.buffersize, from, to)) = n
      /\ \A i \in 1..n : Rotated(t.buffersize, from, to)[i] = t.buffersize[Origin(from, to, i)]
  <2>1. from \in 1..Len(t.buffersize) /\ to \in 1..Len(t.buffersize)
    BY <1>1
  <2>2. /\ Rotated(t.buffersize, from, to) \in Seq(RowsOf(BOOLEAN))
        /\ Len(Rotated(t.buffersize, from, to)) = Len(t.buffersize)
        /\ \A i \in 1..Len(t.buffersize) :
             Rotated(t.buffersize, from, to)[i] = t.buffersize[Origin(from, to, i)]
    BY <1>1, <2>1, RotatedIs
  <2>3. QED
    BY <1>1, <2>2
<1>4. /\ s.array = Rotated(t.array, from, to) /\ s.buffersize = Rotated(t.buffersize, from, to)
      /\ s.text = t.text /\ s.starved = t.starved /\ s.ok = t.ok /\ s.ret = t.ret
      /\ s.row_amount = t.row_amount /\ s.col_amount = t.col_amount /\ s \in Records
  BY <1>2, <1>3 DEF Moved, Records
<1>5. /\ p \in [1..n -> 1..n] /\ q \in [1..n -> 1..n]
      /\ \A i \in 1..n : p[i] = Origin(from, to, i) /\ q[p[i]] = i /\ p[q[i]] = i
  <2>1. \A i \in 1..n : /\ Origin(from, to, i) \in 1..n /\ Origin(to, from, i) \in 1..n
                        /\ Origin(to, from, Origin(from, to, i)) = i
                        /\ Origin(from, to, Origin(to, from, i)) = i
    BY <1>1, OriginIs
  <2>2. QED
    BY <2>1
<1>6. Shuffled(t, s, p, q)
  <2> HIDE DEF p, q
  <2>1. /\ Len(s.array) = n /\ Len(s.buffersize) = n
        /\ \A i \in 1..n : s.array[i] = t.array[p[i]] /\ s.buffersize[i] = t.buffersize[p[i]]
    BY <1>2, <1>3, <1>4, <1>5
  <2>2. QED
    BY <1>1, <1>4, <1>5, <2>1 DEF Shuffled
<1>7. QED
  BY <1>2, <1>4, <1>6 DEF MovedTo

LEMMA MovedGrows ==
  ASSUME NEW t, Owned(t), NEW from \in Used(t), NEW to \in Used(t), NEW s, s = Moved(t, from, to)
  PROVE  Grows(t, s) /\ MovedTo(t, s, from, to)
<1> DEFINE n == Len(t.array)
<1>1. /\ t \in Records /\ n \in Nat /\ t.row_amount \in Nat /\ t.row_amount <= n
      /\ Len(t.buffersize) = n /\ Stored(t)
  BY FieldsAre DEF Owned, Sized, Filled, Stored
<1>2. from \in 1..n /\ to \in 1..n
  BY <1>1 DEF Used
<1> HIDE DEF n
<1>3. MovedTo(t, s, from, to)
  BY <1>1, <1>2, MovedIs DEF n
<1>4. /\ Stored(s) /\ s \in Records /\ s.text = t.text /\ s.starved = t.starved /\ s.ok = t.ok
      /\ Len(s.array) = n
      /\ s.row_amount = t.row_amount /\ \A i \in 1..n : s.array[i] = t.array[Origin(from, to, i)]
      /\ \A i \in 1..n : i \in InUse(s) <=> Origin(from, to, i) \in InUse(t)
  <2>1. ASSUME NEW p, NEW q, p = [i \in 1..n |-> Origin(from, to, i)], Shuffled(t, s, p, q)
        PROVE  /\ Stored(s) /\ \A i \in 1..n : i \in InUse(s) <=> Origin(from, to, i) \in InUse(t)
               /\ s \in Records /\ s.text = t.text /\ s.starved = t.starved /\ s.ok = t.ok
               /\ Len(s.array) = n
    <3>1. Stored(s) /\ \A i \in 1..n : i \in InUse(s) <=> p[i] \in InUse(t)
      BY <1>1, <2>1, ShuffledStored DEF n
    <3>2. \A i \in 1..n : p[i] = Origin(from, to, i)
      BY <2>1
    <3>3. /\ s \in Records /\ s.text = t.text /\ s.starved = t.starved /\ s.ok = t.ok
          /\ Len(s.array) = n
      BY <2>1 DEF Shuffled, n
    <3>4. QED
      BY <3>1, <3>2, <3>3
  <2>2. QED
    BY <1>3, <2>1 DEF MovedTo, n
<1>5. \A i \in Used(t) : /\ i \in 1..n /\ Origin(from, to, i) \in Used(t)
                         /\ Origin(to, from, i) \in Used(t)
                         /\ Origin(from, to, Origin(to, from, i)) = i
  <2>1. ASSUME NEW i \in Used(t)
        PROVE  /\ i \in 1..n /\ Origin(from, to, i) \in Used(t)
               /\ Origin(to, from, i) \in Used(t)
               /\ Origin(from, to, Origin(to, from, i)) = i
    <3>1. i \in 1..n
      BY <1>1 DEF Used
    <3>2. Origin(from, to, Origin(to, from, i)) = i
      BY <1>1, <1>2, <3>1, OriginIs
    <3>3. Used(t) = 1..t.row_amount
      BY DEF Used
    <3>4. Origin(from, to, i) \in Used(t) /\ Origin(to, from, i) \in Used(t)
      BY <1>1, <1>2, <3>1, <3>3 DEF Origin
    <3>5. QED
      BY <3>1, <3>2, <3>4
  <2>2. QED
    BY <2>1
<1>6. Used(s) = Used(t)
  BY <1>4 DEF Used
<1>7. Filled(s)
  <2>1. \A i \in Used(t) : i \in InUse(t) /\ t.array[i][1] # Null
    BY DEF Owned, Filled
  <2>2. \A i \in Used(t) : i \in InUse(s) /\ s.array[i][1] # Null
    BY <1>4, <1>5, <2>1
  <2>3. QED
    BY <1>1, <1>4, <1>6, <2>2 DEF Filled
<1>8. Owned(s)
  BY <1>4, <1>7 DEF Owned, Stored
<1>9. Stays(t, s)
  <2>1. ASSUME NEW a \in Held(t)
        PROVE  a \in Held(s)
    <3>1. PICK i \in Used(t), j \in 1..ColMax : a # Null /\ a = t.array[i][j]
      BY <2>1, HeldIs
    <3>2. PICK k \in Used(t) : k = Origin(to, from, i) /\ k \in 1..n /\ Origin(from, to, k) = i
      BY <1>5, <3>1
    <3>3. k \in Used(s) /\ s.array[k] = t.array[i]
      BY <1>4, <1>6, <3>2
    <3>4. a = s.array[k][j]
      BY <3>1, <3>3
    <3>5. QED
      BY <1>8, <3>1, <3>3, <3>4, HeldIs
  <2>2. QED
    BY <2>1 DEF Stays
<1>10. QED
  BY <1>3, <1>4, <1>8, <1>9 DEF Grows, Rewrites, Safe, Steady

(* The lines of the rows behind row m are among L.                          *)
Ahead(s, m, L) == \A k \in Used(s) : k > m => Line(s, k) \in L

LEMMA InsertGrows ==
  ASSUME NEW r, Owned(r), NEW string \in Texts, NEW failing \in Int, NEW m \in Nat,
         NEW s, s = charArray_insert(r, m, string, failing)
  PROVE  /\ Grows(r, s)
         /\ \A L : Fine(r) /\ Ahead(r, m, L) => s.starved \/ Ahead(s, m + 1, L)
<1>1. PICK u : u = SpareRow(r, failing)
  OBVIOUS
<1>2. Spared(r, u) /\ Grows(r, u) /\ Owned(u)
  <2>1. Spared(r, u)
    BY <1>1, SpareRowIs
  <2>2. Grows(r, u)
    BY <2>1, SparedGrows
  <2>3. QED
    BY <2>1, <2>2 DEF Spared
<1> DEFINE n == u.row_amount + 1
           at == IF m < n THEN m + 1 ELSE n
<1>3. CASE ~ Fine(u)
  <2>1. s = u
    BY <1>1, <1>3 DEF charArray_insert
  <2>2. Fine(r) => s.starved
    BY <1>2, <1>3, <2>1 DEF Spared
  <2>3. QED
    BY <1>2, <2>1, <2>2
<1>4. CASE Fine(u)
  <2>1. PICK t : t = Advanced(u, n, string)
    OBVIOUS
  <2>2. AddedTo(r, u, t, n, string) /\ Grows(r, t) /\ Owned(t)
    <3>1. AddedTo(r, u, t, n, string) /\ Grows(r, t)
      BY <1>2, <1>4, <2>1, AddIs
    <3>2. QED
      BY <3>1 DEF Grows, Rewrites
  <2>3. u \in Records /\ r.row_amount \in Nat /\ n = r.row_amount + 1
    <3>1. r \in Records /\ u \in Records
      BY <1>2 DEF Owned
    <3>2. n = r.row_amount + 1
      BY <2>2 DEF AddedTo
    <3>3. QED
      BY <3>1, <3>2, FieldsAre
  <2>4. s = Moved(t, n, at)
    <3>1. s = [u EXCEPT !.row_amount = n, !.text[u.array[n][1]] = Cut(string),
                        !.array = Rotated(@, n, at), !.buffersize = Rotated(@, n, at)]
      BY <1>1, <1>4 DEF charArray_insert
    <3>2. QED
      BY <2>1, <2>3, <3>1 DEF Moved, Advanced, Records
  <2>5. n \in Used(t) /\ at \in Used(t)
    BY <2>2, <2>3 DEF AddedTo, Used
  <2> HIDE DEF n, at
  <2>6. Grows(t, s) /\ MovedTo(t, s, n, at)
    BY <2>2, <2>4, <2>5, MovedGrows
  <2>7. Grows(r, s)
    BY <2>2, <2>6, GrowsOn DEF Grows
  <2>8. ASSUME NEW L, Ahead(r, m, L), NEW k \in Used(s), k > m + 1
        PROVE  Line(s, k) \in L
    <3>1. /\ s.row_amount = t.row_amount /\ t.row_amount = n
          /\ \A i \in 1..Len(t.array) : s.array[i] = t.array[Origin(n, at, i)]
          /\ t.array = u.array
      BY <2>2, <2>6 DEF MovedTo, AddedTo
    <3>2. k \in Nat /\ k <= n /\ k >= 1 /\ n \in Nat
      BY <2>3, <2>8, <3>1 DEF Used
    <3>3. at = m + 1
      BY <2>8, <3>2 DEF at
    <3>4. Origin(n, at, k) = k - 1 /\ k - 1 \in Used(r) /\ k - 1 > m
      BY <2>3, <2>8, <3>2, <3>3 DEF Origin, Used
    <3>5. k \in 1..Len(t.array)
      <4>1. n <= Len(t.array) /\ Len(t.array) \in Nat
        BY <2>2, <3>1, FieldsAre DEF Owned, Filled
      <4>2. QED
        BY <3>2, <4>1
    <3>6. s.array[k] = u.array[k - 1]
      BY <3>1, <3>4, <3>5
    <3>7. PICK i \in Used(r) : i = k - 1 /\ i > m /\ s.array[k] = u.array[i]
      BY <3>4, <3>6
    <3>8. u.array[i][1] = r.array[i][1] /\ r.array[i][1] # Null
      BY <1>2, <3>7, Constants DEF Spared, Owned, Filled
    <3>9. r.array[i][1] \in Held(r)
      BY <3>8, HeldIs, Constants
    <3>10. s.text[r.array[i][1]] = r.text[r.array[i][1]]
      BY <2>7, <3>9 DEF Grows, Steady
    <3>11. Line(r, i) \in L
      BY <2>8, <3>7 DEF Ahead
    <3>12. QED
      BY <3>7, <3>8, <3>10, <3>11 DEF Line
  <2>9. QED
    BY <2>7, <2>8 DEF Ahead
<1>5. QED
  BY <1>3, <1>4

-----------------------------------------------------------------------------
(* A cell that is written over.                                             *)
Over(r, a, t) == [r EXCEPT !.text[a] = t]

LEMMA OverIs ==
  ASSUME NEW r, Owned(r), NEW a \in 1..Cells, NEW t \in Texts, NEW s, s = Over(r, a, t)
  PROVE  /\ Owned(s) /\ Held(s) = Held(r) /\ Used(s) = Used(r) /\ s.array = r.array
         /\ s.ok = r.ok /\ s.starved = r.starved /\ s.ret = r.ret
         /\ \A b \in 1..Cells : s.text[b] = IF b = a THEN t ELSE r.text[b]
<1>1. r \in Records /\ r.text \in [1..Cells -> Texts \cup {Freed}]
  BY FieldsAre DEF Owned
<1>2. [r.text EXCEPT ![a] = t] \in [1..Cells -> Texts \cup {Freed}]
  BY <1>1
<1>3. /\ s \in Records /\ s.array = r.array /\ s.buffersize = r.buffersize
      /\ s.row_amount = r.row_amount /\ s.ok = r.ok /\ s.starved = r.starved /\ s.ret = r.ret
      /\ s.text = [r.text EXCEPT ![a] = t]
  BY <1>1, <1>2 DEF Over, Records
<1>4. Wrote(r, s, a, t)
  BY <1>3 DEF Wrote, SameRows
<1>5. Owned(s) /\ Held(s) = Held(r)
  BY <1>4, WroteOwned
<1>6. \A b \in 1..Cells : s.text[b] = IF b = a THEN t ELSE r.text[b]
  BY <1>1, <1>3, WriteIs
<1>7. QED
  BY <1>3, <1>5, <1>6 DEF Used

LEMMA OverLine ==
  ASSUME NEW r, Owned(r), NEW row \in Used(r), NEW t \in Texts, NEW s, s = Over(r, r.array[row][1], t)
  PROVE  /\ Rewrites(r, s) /\ s.ok = r.ok /\ s.starved = r.starved /\ s.row_amount = r.row_amount
         /\ \A m \in Nat : \A L : m >= row /\ Ahead(r, m, L) => Ahead(s, m, L)
<1>1. /\ \A i \in Used(r) : i \in InUse(r) /\ r.array[i][1] # Null /\ r.array[i][1] \in 1..Cells
      /\ Apart(r) /\ r \in Records
  <2>1. Apart(r) /\ r \in Records /\ \A i \in Used(r) : i \in InUse(r) /\ r.array[i][1] # Null
    BY DEF Owned, Filled
  <2>2. \A i \in InUse(r) : r.array[i][1] \in 0..Cells
    BY <2>1, FieldsAre, Constants
  <2>3. QED
    BY <2>1, <2>2, Constants
<1>2. PICK a \in 1..Cells : a = r.array[row][1]
  BY <1>1
<1>3. /\ Owned(s) /\ Held(s) = Held(r) /\ Used(s) = Used(r) /\ s.array = r.array
      /\ s.ok = r.ok /\ s.starved = r.starved
      /\ \A b \in 1..Cells : s.text[b] = IF b = a THEN t ELSE r.text[b]
  BY <1>2, OverIs
<1>4. s.row_amount = r.row_amount
  BY <1>1 DEF Over, Records
<1>5. ASSUME NEW m \in Nat, NEW L, m >= row, Ahead(r, m, L)
      PROVE  Ahead(s, m, L)
  <2>1. ASSUME NEW k \in Used(r), k > m
        PROVE  Line(s, k) \in L
    <3>1. k # row /\ k \in InUse(r) /\ row \in InUse(r)
      <4>1. k \in Nat /\ row \in Nat
        BY DEF Used
      <4>2. QED
        BY <1>1, <1>5, <2>1, <4>1
    <3>2. r.array[k][1] # r.array[row][1]
      BY <1>1, <3>1, <2>1, Constants DEF Apart
    <3>3. s.text[r.array[k][1]] = r.text[r.array[k][1]]
      BY <1>1, <1>2, <1>3, <2>1, <3>2
    <3>4. Line(r, k) \in L
      BY <1>5, <2>1 DEF Ahead
    <3>5. QED
      BY <1>3, <3>3, <3>4 DEF Line
  <2>2. QED
    BY <1>3, <2>1 DEF Ahead
<1>6. QED
  BY <1>3, <1>4, <1>5 DEF Rewrites, Safe, Stays

LEMMA ReplaceRewrites ==
  ASSUME NEW r, Owned(r), NEW row \in Nat \ {0}, NEW string \in Texts,
         NEW s, s = charArray_replace(r, row, string)
  PROVE  /\ Rewrites(r, s) /\ s.ok = r.ok /\ s.row_amount = r.row_amount
         /\ \A m \in Nat : \A L : m >= row /\ Ahead(r, m, L) => Ahead(s, m, L)
<1>1. ASSUME NEW code \in Int, s = Error(r, code)
      PROVE  /\ Rewrites(r, s) /\ s.ok = r.ok /\ s.row_amount = r.row_amount
             /\ \A m \in Nat : \A L : m >= row /\ Ahead(r, m, L) => Ahead(s, m, L)
  <2>1. Noted(r, s) /\ Safe(r, s) /\ s.ok = r.ok
    <3>1. r \in Records
      BY DEF Owned
    <3>2. QED
      BY <1>1, <3>1, ErrorNotes
  <2>2. Grows(r, s) /\ s.row_amount = r.row_amount /\ s.array = r.array /\ s.text = r.text
    BY <2>1, NotedGrows DEF Noted, SameRows
  <2>3. QED
    BY <2>1, <2>2 DEF Grows, Ahead, Used, Line
<1>2. CASE row > Len(r.array)
  BY <1>1, <1>2 DEF charArray_replace
<1>3. CASE ~ (row > Len(r.array)) /\ row > r.row_amount
  BY <1>1, <1>3 DEF charArray_replace
<1>4. CASE ~ (row > Len(r.array)) /\ ~ (row > r.row_amount)
  <2>1. row \in Used(r)
    <3>1. r.row_amount \in Nat
      BY FieldsAre DEF Owned
    <3>2. QED
      BY <1>4, <3>1 DEF Used
  <2>2. s = Over(r, r.array[row][1], Cut(string))
    BY <1>4, <2>1 DEF charArray_replace, Over, Owned, Filled
  <2>3. Cut(string) \in Texts
    BY CutIs
  <2>4. QED
    BY <2>1, <2>2, <2>3, OverLine
<1>5. QED
  BY <1>2, <1>3, <1>4

-----------------------------------------------------------------------------
(* Columns.                                                                *)
Wide(r, c) == [r EXCEPT !.col_amount = c]

LEMMA WideNotes ==
  ASSUME NEW r \in Records, NEW c \in Nat, NEW s, s = Wide(r, c)
  PROVE  Noted(r, s) /\ Safe(r, s) /\ s.ok = r.ok
<1>1. s \in Records
  BY DEF Wide, Records
<1>2. QED
  BY <1>1 DEF Wide, Noted, SameRows, Safe, Records

(* A cell that no row has is written.                                       *)
LEMMA OverFresh ==
  ASSUME NEW r, NEW m, Grows(r, m), NEW a \in 1..Cells, a \notin Held(r),
         NEW t \in Texts, NEW s, s = Over(m, a, t)
  PROVE  Grows(r, s) /\ s.ok = m.ok /\ s.array = m.array /\ Used(s) = Used(m)
<1>1. Owned(m) /\ Safe(r, m) /\ Stays(r, m) /\ Steady(r, m)
  BY DEF Grows, Rewrites
<1>2. /\ Owned(s) /\ Held(s) = Held(m) /\ Used(s) = Used(m) /\ s.array = m.array
      /\ s.ok = m.ok /\ s.starved = m.starved
      /\ \A b \in 1..Cells : s.text[b] = IF b = a THEN t ELSE m.text[b]
  BY <1>1, OverIs
<1>3. ASSUME NEW b \in Held(r)
      PROVE  s.text[b] = r.text[b]
  <2>1. b \in Held(m) /\ m.text[b] = r.text[b] /\ b # a
    BY <1>1 DEF Stays, Steady
  <2>2. b \in 1..Cells
    BY <1>1, <2>1, HeldIs
  <2>3. QED
    BY <1>2, <2>1, <2>2
<1>4. QED
  BY <1>1, <1>2, <1>3 DEF Grows, Rewrites, Safe, Stays, Steady

LEMMA GrowsSelf ==
  ASSUME NEW r, Owned(r)
  PROVE  Grows(r, r)
BY DEF Grows, Rewrites, Safe, Stays, Steady

LEMMA TakenGrows ==
  ASSUME NEW r, Owned(r), NEW i \in Used(r), NEW j \in 1..ColMax, r.array[i][j] = Null,
         NEW m, NEW a, Taken(r, m, i, j, a)
  PROVE  /\ Grows(r, m) /\ a \notin Held(r) /\ a \in 1..Cells /\ m.array[i][j] = a
         /\ m \in Records /\ m.ok = r.ok
<1>1. /\ Owned(m) /\ Used(m) = Used(r) /\ m.ok = r.ok /\ m.starved = r.starved
      /\ a \in 1..Cells /\ r.text[a] = Freed
      /\ \A b \in 1..Cells : b # a => m.text[b] = r.text[b]
      /\ \A k \in InUse(r), l \in 1..ColMax :
           m.array[k][l] = IF k = i /\ l = j THEN a ELSE r.array[k][l]
  BY DEF Taken, Used
<1>2. Used(r) \subseteq InUse(r) /\ \A b \in Held(r) : b \in 1..Cells /\ r.text[b] \in Texts
  BY HeldIs
<1>3. a \notin Held(r)
  BY <1>1, <1>2, Constants
<1>4. ASSUME NEW b \in Held(r)
      PROVE  b \in Held(m) /\ m.text[b] = r.text[b]
  <2>1. PICK k \in Used(r), l \in 1..ColMax : b # Null /\ b = r.array[k][l]
    BY <1>4, HeldIs
  <2>2. ~ (k = i /\ l = j)
    BY <2>1
  <2>3. b = m.array[k][l]
    BY <1>1, <1>2, <2>1, <2>2
  <2>4. b \in Held(m)
    BY <1>1, <2>1, <2>3, HeldIs
  <2>5. QED
    BY <1>1, <1>2, <1>3, <1>4, <2>4
<1>5. Grows(r, m)
  BY <1>1, <1>4 DEF Grows, Rewrites, Safe, Stays, Steady
<1>6. m.array[i][j] = a /\ m \in Records
  BY <1>1, <1>2 DEF Owned
<1>7. QED
  BY <1>1, <1>3, <1>5, <1>6

LEMMA ColAppendGrows ==
  ASSUME NEW r, Owned(r), NEW row \in Nat, NEW string \in Texts,
         NEW s, s = charArray_col_append(r, row, string)
  PROVE  Grows(r, s) /\ s.ok = r.ok
<1> DEFINE i == IF row = 0 THEN r.row_amount ELSE row
           free == {j \in 1..ColMax : r.array[i][j] = Null}
           j == CHOOSE k \in free : \A l \in free : k <= l
           lost == CHOOSE a \in Unused(r) : \A b \in Unused(r) : a <= b
           m == Malloc(r, i, j)
<1>1. r \in Records /\ r.row_amount \in Nat /\ i \in Nat
  BY FieldsAre DEF Owned
<1>2. ASSUME NEW p, Owned(p), Grows(r, p), p.ok = r.ok, NEW q, Noted(p, q), Safe(p, q), q.ok = p.ok
      PROVE  Grows(r, q) /\ q.ok = r.ok
  <2>1. Grows(p, q)
    BY <1>2, NotedGrows
  <2>2. QED
    BY <1>2, <2>1, GrowsOn DEF Grows
<1>3. ASSUME NEW code \in Int, s = Error(r, code)
      PROVE  Grows(r, s) /\ s.ok = r.ok
  BY <1>1, <1>2, <1>3, ErrorNotes, GrowsSelf
<1>4. CASE r.row_amount = 0
  BY <1>3, <1>4 DEF charArray_col_append
<1>5. CASE r.row_amount # 0 /\ Unused(r) = {}
  <2>1. s = OutOfMemory(r)
    BY <1>5 DEF charArray_col_append
  <2>2. QED
    BY <1>1, <1>2, <2>1, OutOfMemoryNotes, GrowsSelf
<1>6. CASE r.row_amount # 0 /\ Unused(r) # {} /\ i > r.row_amount
  <2> DEFINE code == IF i > Len(r.array) THEN -444 ELSE -10
  <2>1. s = [r EXCEPT !.text[lost] = <<>>, !.ret = code]
    BY <1>6 DEF charArray_col_append
  <2>2. lost \in 1..Cells /\ r.text[lost] = Freed
    BY <1>1, <1>6, UnusedIs
  <2>3. lost \notin Held(r)
    BY <2>2, HeldIs, Constants
  <2>4. code \in Int
    OBVIOUS
  <2> HIDE DEF lost, code
  <2>5. PICK p : p = Over(r, lost, <<>>)
    OBVIOUS
  <2>6. Grows(r, p) /\ p.ok = r.ok
    <3>1. <<>> \in Texts /\ Grows(r, r)
      BY Constants, GrowsSelf
    <3>2. QED
      BY <2>2, <2>3, <2>5, <3>1, OverFresh
  <2>7. Owned(p) /\ p \in Records
    BY <2>6 DEF Grows, Rewrites, Owned
  <2>8. s = Error(p, code)
    BY <1>1, <2>1, <2>5 DEF Over, Error, Records
  <2>9. QED
    BY <1>2, <2>4, <2>6, <2>7, <2>8, ErrorNotes
<1>7. CASE r.row_amount # 0 /\ Unused(r) # {} /\ ~ (i > r.row_amount) /\ free = {}
  <2>1. s = Error(r, -110)
    BY <1>7, Zenon DEF charArray_col_append
  <2>2. QED
    BY <1>3, <2>1
<1>8. CASE r.row_amount # 0 /\ Unused(r) # {} /\ ~ (i > r.row_amount) /\ free # {}
  <2> DEFINE wide == IF m.col_amount < j THEN j ELSE m.col_amount
  <2>1. s = [m EXCEPT !.text[m.array[i][j]] = Cut(string), !.col_amount = IF @ < j THEN j ELSE @]
    BY <1>8 DEF charArray_col_append
  <2>2. j \in 1..ColMax /\ r.array[i][j] = Null
    <3>1. \E k \in free : \A l \in free : k <= l
      <4>1. free \in SUBSET Nat
        OBVIOUS
      <4> HIDE DEF free
      <4>2. QED
        BY <1>8, <4>1, LeastNumber
    <3>2. j \in free
      BY <3>1
    <3>3. QED
      BY <3>2
  <2>3. i \in Used(r) /\ i \in InUse(r)
    BY <1>1, <1>8 DEF Used, Owned, Filled
  <2> HIDE DEF j, i
  <2>4. PICK a : Taken(r, m, i, j, a)
    BY <1>8, <2>2, <2>3, MallocTakes
  <2> HIDE DEF m
  <2>5. /\ Grows(r, m) /\ a \notin Held(r) /\ a \in 1..Cells /\ m.array[i][j] = a
        /\ m \in Records /\ m.ok = r.ok
    BY <2>2, <2>3, <2>4, TakenGrows
  <2>6. PICK p : p = Over(m, a, Cut(string))
    OBVIOUS
  <2>7. Grows(r, p) /\ p.ok = r.ok
    BY <2>5, <2>6, CutIs, OverFresh
  <2>8. Owned(p) /\ p \in Records
    BY <2>7 DEF Grows, Rewrites, Owned
  <2>9. s = Wide(p, wide)
    BY <2>1, <2>5, <2>6 DEF Wide, Over, Records
  <2>10. wide \in Nat
    <3>1. m.col_amount \in Nat
      BY <2>5, FieldsAre
    <3>2. QED
      BY <2>2, <3>1
  <2> HIDE DEF wide
  <2>11. QED
    BY <1>2, <2>7, <2>8, <2>9, <2>10, WideNotes
<1>9. QED
  BY <1>4, <1>5, <1>6, <1>7, <1>8

-----------------------------------------------------------------------------
(* Removal.  What shrinks leaves what the cells it keeps hold.              *)
Shrinks(r, s) ==
  /\ Owned(s) /\ Safe(r, s) /\ Held(s) \subseteq Held(r)
  /\ \A a \in Held(s) : s.text[a] = r.text[a]

LEMMA ShrinksOn ==
  ASSUME NEW r, NEW s, NEW t, Shrinks(r, s), Shrinks(s, t)
  PROVE  Shrinks(r, t)
BY DEF Shrinks, Safe

LEMMA NotedShrinks ==
  ASSUME NEW r, Owned(r), NEW s, Noted(r, s), Safe(r, s)
  PROVE  Shrinks(r, s)
<1>1. Owned(s) /\ Held(s) = Held(r) /\ Steady(r, s)
  BY NotedOwned
<1>2. QED
  BY <1>1 DEF Shrinks, Steady

(* A row that is bare now, and whose cells were given back.                 *)
FreedRow(r, f, i) ==
  /\ Stored(f) /\ Len(f.array) = Len(r.array) /\ Len(f.buffersize) = Len(r.buffersize)
  /\ f.row_amount = r.row_amount /\ f.ok = r.ok /\ f.starved = r.starved
  /\ \A k \in 1..Len(r.array) : f.array[k] = IF k = i THEN Bare ELSE r.array[k]
  /\ \A k \in InUse(r), j \in 1..ColMax :
       k # i /\ r.array[k][j] # Null => f.text[r.array[k][j]] = r.text[r.array[k][j]]

LEMMA FreeRowIs ==
  ASSUME NEW r, Stored(r), NEW i \in InUse(r), NEW f, f = free_row(r, i)
  PROVE  FreedRow(r, f, i)
<1> DEFINE n == Len(r.array)
           sizes == [j \in 1..ColMax |-> r.array[i][j] = Null /\ r.buffersize[i][j]]
           text == [a \in DOMAIN r.text |-> IF a \in ToSet(r.array[i]) THEN Freed ELSE r.text[a]]
<1>1. /\ r \in Records /\ i \in 1..n /\ n \in Nat /\ Len(r.buffersize) = n /\ r.array[i] \in CellRows
      /\ r.array \in Seq(RowsOf(0..Cells)) /\ r.buffersize \in Seq(RowsOf(BOOLEAN))
      /\ r.text \in [1..Cells -> Texts \cup {Freed}]
      /\ Apart(r) /\ Alive(r) /\ Sized(r) /\ Excused(r)
      /\ \A k \in 1..n : k \in InUse(r) <=> r.array[k] # NullRow
      /\ InUse(r) \subseteq 1..n
  BY FieldsAre DEF Stored, Sized
<1>2. Bare \in RowsOf(0..Cells) /\ Bare # NullRow /\ \A j \in 1..ColMax : Bare[j] = Null
  <2>1. Bare \in [1..ColMax -> 0..Cells] /\ \A j \in 1..ColMax : Bare[j] = Null
    BY Constants DEF Bare
  <2>2. QED
    BY <2>1, RowsDiffer DEF RowsOf
<1>3. sizes \in RowsOf(BOOLEAN) /\ sizes # NullRow
  <2>1. sizes \in [1..ColMax -> BOOLEAN]
    OBVIOUS
  <2> HIDE DEF sizes
  <2>2. QED
    BY <2>1, RowsDiffer DEF RowsOf
<1>4. /\ text \in [1..Cells -> Texts \cup {Freed}]
      /\ \A a \in 1..Cells : a \notin ToSet(r.array[i]) => text[a] = r.text[a]
  BY <1>1
<1>5. ASSUME NEW array, array = [r.array EXCEPT ![i] = Bare],
             NEW buffersize, buffersize = [r.buffersize EXCEPT ![i] = sizes]
      PROVE  /\ array \in Seq(RowsOf(0..Cells)) /\ Len(array) = n
             /\ \A k \in 1..n : array[k] = IF k = i THEN Bare ELSE r.array[k]
             /\ buffersize \in Seq(RowsOf(BOOLEAN)) /\ Len(buffersize) = n
             /\ \A k \in 1..n : buffersize[k] = IF k = i THEN sizes ELSE r.buffersize[k]
  <2> HIDE DEF n, sizes
  <2>1. /\ array \in Seq(RowsOf(0..Cells)) /\ Len(array) = Len(r.array)
        /\ \A k \in 1..Len(r.array) : array[k] = IF k = i THEN Bare ELSE r.array[k]
    BY <1>1, <1>2, <1>5, ExceptSeq DEF n
  <2>2. i \in 1..Len(r.buffersize)
    BY <1>1
  <2>3. /\ buffersize \in Seq(RowsOf(BOOLEAN)) /\ Len(buffersize) = Len(r.buffersize)
        /\ \A k \in 1..Len(r.buffersize) : buffersize[k] = IF k = i THEN sizes ELSE r.buffersize[k]
    BY <1>1, <1>3, <1>5, <2>2, ExceptSeq
  <2>4. QED
    BY <1>1, <2>1, <2>3 DEF n
<1>6. /\ f.array = [r.array EXCEPT ![i] = Bare] /\ f.buffersize = [r.buffersize EXCEPT ![i] = sizes]
      /\ f.text = text /\ f.row_amount = r.row_amount /\ f.ok = r.ok /\ f.starved = r.starved
      /\ f.col_amount = r.col_amount /\ f.ret = r.ret /\ f.short = r.short
      /\ f = [array |-> f.array, buffersize |-> f.buffersize, row_amount |-> r.row_amount,
              col_amount |-> r.col_amount, text |-> f.text, ret |-> r.ret, short |-> r.short,
              starved |-> r.starved, ok |-> r.ok]
  <2>1. /\ f.array = [r.array EXCEPT ![i] = Bare] /\ f.buffersize = [r.buffersize EXCEPT ![i] = sizes]
        /\ f.text = text
    BY <1>1 DEF free_row, Records
  <2>2. f.row_amount = r.row_amount /\ f.ok = r.ok /\ f.starved = r.starved
    BY <1>1 DEF free_row, Records
  <2>3. f.col_amount = r.col_amount /\ f.ret = r.ret /\ f.short = r.short
    BY <1>1 DEF free_row, Records
  <2>4. f = [array |-> f.array, buffersize |-> f.buffersize, row_amount |-> f.row_amount,
             col_amount |-> f.col_amount, text |-> f.text, ret |-> f.ret, short |-> f.short,
             starved |-> f.starved, ok |-> f.ok]
    BY <1>1 DEF free_row, Records
  <2>5. QED
    BY <2>1, <2>2, <2>3, <2>4
<1> HIDE DEF n, sizes, text
<1>7. /\ f.array \in Seq(RowsOf(0..Cells)) /\ Len(f.array) = n
      /\ \A k \in 1..n : f.array[k] = IF k = i THEN Bare ELSE r.array[k]
      /\ f.buffersize \in Seq(RowsOf(BOOLEAN)) /\ Len(f.buffersize) = n
      /\ \A k \in 1..n : f.buffersize[k] = IF k = i THEN sizes ELSE r.buffersize[k]
  BY <1>5, <1>6
<1>8. f \in Records
  BY <1>1, <1>4, <1>6, <1>7 DEF Records
<1>9. InUse(f) = InUse(r)
  <2>1. \A k \in 1..n : k \in InUse(f) <=> f.array[k] # NullRow
    BY <1>7, <1>8, FieldsAre
  <2>2. InUse(f) \subseteq 1..n
    BY <1>7, <1>8, FieldsAre
  <2>3. \A k \in 1..n : k \in InUse(f) <=> k \in InUse(r)
    BY <1>1, <1>2, <1>7, <2>1
  <2>4. QED
    BY <1>1, <2>2, <2>3
<1>10. \A k \in InUse(r), j \in 1..ColMax :
         /\ f.array[k][j] = IF k = i THEN Null ELSE r.array[k][j]
         /\ r.array[k][j] \in 0..Cells
  BY <1>1, <1>2, <1>7, FieldsAre
<1>11. ASSUME NEW k \in InUse(r), NEW j \in 1..ColMax, k # i, r.array[k][j] # Null
       PROVE  f.text[r.array[k][j]] = r.text[r.array[k][j]]
  <2>1. ToSet(r.array[i]) = {r.array[i][l] : l \in 1..ColMax}
    BY <1>1 DEF CellRows, ToSet
  <2>2. \A l \in 1..ColMax : r.array[k][j] # r.array[i][l]
    BY <1>1, <1>11 DEF Apart
  <2>3. r.array[k][j] \notin ToSet(r.array[i])
    BY <2>1, <2>2
  <2>4. r.array[k][j] \in 1..Cells
    BY <1>10, <1>11, Constants
  <2>5. QED
    BY <1>4, <1>6, <2>3, <2>4
<1>12. Apart(f)
  <2>1. ASSUME NEW k \in InUse(r), NEW q \in InUse(r), NEW j \in 1..ColMax, NEW l \in 1..ColMax,
               f.array[k][j] # Null, f.array[k][j] = f.array[q][l]
        PROVE  k = q /\ j = l
    <3>1. k # i /\ q # i /\ r.array[k][j] # Null /\ r.array[k][j] = r.array[q][l]
      BY <1>10, <2>1
    <3>2. QED
      BY <1>1, <3>1 DEF Apart
  <2>2. QED
    BY <1>9, <2>1 DEF Apart
<1>13. Alive(f)
  <2>1. ASSUME NEW k \in InUse(r), NEW j \in 1..ColMax, f.array[k][j] # Null
        PROVE  f.text[f.array[k][j]] \in Texts
    <3>1. k # i /\ f.array[k][j] = r.array[k][j]
      BY <1>10, <2>1
    <3>2. r.text[r.array[k][j]] \in Texts
      BY <1>1, <2>1, <3>1 DEF Alive
    <3>3. QED
      BY <1>11, <2>1, <3>1, <3>2
  <2>2. QED
    BY <1>9, <2>1 DEF Alive
<1>14. Sized(f)
  <2>1. /\ \A k \in 1..n : r.array[k] = NullRow <=> r.buffersize[k] = NullRow
        /\ \A k \in InUse(r), j \in 1..ColMax : r.array[k][j] # Null => r.buffersize[k][j]
    BY <1>1 DEF Sized, n
  <2>2. \A k \in 1..n : f.array[k] = NullRow <=> f.buffersize[k] = NullRow
    BY <1>2, <1>3, <1>7, <2>1
  <2>3. ASSUME NEW k \in InUse(r), NEW j \in 1..ColMax, f.array[k][j] # Null
        PROVE  f.buffersize[k][j]
    <3>1. k # i /\ r.array[k][j] # Null /\ k \in 1..n
      BY <1>1, <1>10, <2>3
    <3>2. f.buffersize[k] = r.buffersize[k]
      BY <1>7, <3>1
    <3>3. QED
      BY <2>1, <3>1, <3>2
  <2>4. QED
    BY <1>7, <1>9, <2>2, <2>3 DEF Sized
<1>15. Excused(f)
  BY <1>1, <1>6, <1>7, <1>9 DEF Excused, n
<1>16. QED
  BY <1>1, <1>6, <1>7, <1>8, <1>11, <1>12, <1>13, <1>14, <1>15 DEF FreedRow, Stored, n

Fewer(t) == [t EXCEPT !.row_amount = @ - 1]

LEMMA FewerIs ==
  ASSUME NEW t \in Records, t.row_amount > 0, NEW s, s = Fewer(t)
  PROVE  /\ s \in Records /\ s.array = t.array /\ s.buffersize = t.buffersize /\ s.text = t.text
         /\ s.row_amount = t.row_amount - 1 /\ s.ok = t.ok /\ s.starved = t.starved
<1>1. t.row_amount - 1 \in Nat
  BY FieldsAre
<1>2. QED
  BY <1>1 DEF Fewer, Records

LEMMA RemoveRowShrinks ==
  ASSUME NEW r, Owned(r), NEW i \in Used(r), NEW s, s = RemoveRow(r, i)
  PROVE  Shrinks(r, s) /\ s.row_amount = r.row_amount - 1 /\ s.ok = r.ok
<1> DEFINE n == Len(r.array)
           m == r.row_amount
<1>1. /\ r \in Records /\ n \in Nat /\ m \in Nat /\ m <= n /\ m > 0 /\ i \in 1..m /\ i \in 1..n
      /\ i \in InUse(r) /\ Stored(r) /\ \A k \in 1..m : k \in InUse(r) /\ r.array[k][1] # Null
  <2>1. /\ r \in Records /\ m <= n /\ Stored(r)
        /\ \A k \in 1..m : k \in InUse(r) /\ r.array[k][1] # Null
    BY DEF Owned, Stored, Filled, Used
  <2>2. n \in Nat /\ m \in Nat
    BY <2>1, FieldsAre
  <2>3. QED
    BY <2>1, <2>2 DEF Used
<1>2. PICK f : f = free_row(r, i)
  OBVIOUS
<1>3. /\ Stored(f) /\ f \in Records /\ Len(f.array) = n /\ Len(f.buffersize) = n
      /\ f.row_amount = m /\ f.ok = r.ok /\ f.starved = r.starved
      /\ \A k \in 1..n : f.array[k] = IF k = i THEN Bare ELSE r.array[k]
      /\ \A k \in InUse(r), j \in 1..ColMax :
           k # i /\ r.array[k][j] # Null => f.text[r.array[k][j]] = r.text[r.array[k][j]]
  <2>1. FreedRow(r, f, i)
    BY <1>1, <1>2, FreeRowIs
  <2>2. QED
    BY <2>1 DEF FreedRow, Stored, Sized
<1>4. PICK t : t = Moved(f, i, m)
  OBVIOUS
<1> HIDE DEF n, m
<1>5. MovedTo(f, t, i, m) /\ t.row_amount = m
  <2>1. i \in 1..Len(f.array) /\ m \in 1..Len(f.array) /\ Len(f.buffersize) = Len(f.array)
    BY <1>1, <1>3
  <2>2. MovedTo(f, t, i, m)
    BY <1>3, <1>4, <2>1, MovedIs
  <2>3. t.row_amount = f.row_amount
    BY <2>2 DEF MovedTo
  <2>4. QED
    BY <1>3, <2>2, <2>3
<1>6. /\ Stored(t) /\ t \in Records /\ t.text = f.text /\ t.starved = r.starved /\ t.ok = r.ok
      /\ Len(t.array) = n
      /\ \A k \in 1..n : t.array[k] = f.array[Origin(i, m, k)]
      /\ \A k \in 1..n : k \in InUse(t) <=> Origin(i, m, k) \in InUse(f)
  <2>1. ASSUME NEW p, NEW q, p = [k \in 1..n |-> Origin(i, m, k)], Shuffled(f, t, p, q)
        PROVE  /\ Stored(t) /\ \A k \in 1..n : k \in InUse(t) <=> Origin(i, m, k) \in InUse(f)
               /\ t \in Records /\ t.text = f.text /\ t.starved = f.starved /\ t.ok = f.ok
               /\ Len(t.array) = n
    <3>1. Stored(t) /\ \A k \in 1..n : k \in InUse(t) <=> p[k] \in InUse(f)
      BY <1>3, <2>1, ShuffledStored
    <3>2. \A k \in 1..n : p[k] = Origin(i, m, k)
      BY <2>1
    <3>3. /\ t \in Records /\ t.text = f.text /\ t.starved = f.starved /\ t.ok = f.ok
          /\ Len(t.array) = n
      BY <1>3, <2>1 DEF Shuffled
    <3>4. QED
      BY <3>1, <3>2, <3>3
  <2>2. QED
    BY <1>3, <1>5, <2>1 DEF MovedTo
<1>7. s = Fewer(t)
  BY <1>2, <1>3, <1>4 DEF RemoveRow, Fewer, Moved, Records, m
<1>8. /\ s \in Records /\ s.array = t.array /\ s.buffersize = t.buffersize /\ s.text = t.text
      /\ s.row_amount = m - 1 /\ s.ok = t.ok /\ s.starved = t.starved
  BY <1>1, <1>5, <1>6, <1>7, FewerIs
<1>9. InUse(s) = InUse(t)
  BY <1>8 DEF InUse
<1>10. ASSUME NEW k \in Used(s)
       PROVE  \E o \in 1..m : o # i /\ k \in InUse(s) /\ s.array[k] = r.array[o]
  <2>1. k \in 1..m - 1 /\ k \in 1..n
    BY <1>1, <1>8 DEF Used
  <2>2. PICK o \in 1..m : o = Origin(i, m, k) /\ o # i /\ o \in 1..n
    BY <1>1, <2>1 DEF Origin
  <2>3. s.array[k] = r.array[o]
    BY <1>3, <1>6, <1>8, <2>1, <2>2
  <2>4. o \in InUse(f)
    <3>1. o \in InUse(r) /\ o \in 1..Len(r.array)
      BY <1>1, <2>2 DEF n
    <3>2. f.array[o] = r.array[o] /\ r.array[o] # NullRow
      <4>1. r.array[o] # NullRow
        BY <1>1, <3>1, FieldsAre
      <4>2. QED
        BY <1>3, <2>2, <4>1
    <3>3. \A l \in 1..n : l \in InUse(f) <=> f.array[l] # NullRow
      BY <1>3, FieldsAre
    <3>4. QED
      BY <2>2, <3>2, <3>3
  <2>5. QED
    BY <1>6, <1>9, <2>1, <2>2, <2>3, <2>4
<1>11. Filled(s)
  <2>1. s.row_amount <= Len(s.array)
    BY <1>1, <1>6, <1>8
  <2>2. \A k \in Used(s) : k \in InUse(s) /\ s.array[k][1] # Null
    BY <1>1, <1>10
  <2>3. QED
    BY <2>1, <2>2 DEF Filled
<1>12. Owned(s)
  <2>1. Apart(t) /\ Alive(t) /\ Sized(t) /\ Excused(t)
    BY <1>6 DEF Stored
  <2>2. Apart(s)
    BY <1>8, <1>9, <2>1 DEF Apart
  <2>3. Alive(s)
    BY <1>8, <1>9, <2>1 DEF Alive
  <2>4. Sized(s)
    BY <1>8, <1>9, <2>1 DEF Sized
  <2>5. Excused(s)
    BY <1>8, <1>9, <2>1 DEF Excused
  <2>6. QED
    BY <1>8, <1>11, <2>2, <2>3, <2>4, <2>5 DEF Owned
<1>13. ASSUME NEW a \in Held(s)
       PROVE  a \in Held(r) /\ s.text[a] = r.text[a]
  <2>1. PICK k \in Used(s), j \in 1..ColMax : a # Null /\ a = s.array[k][j]
    BY <1>12, <1>13, HeldIs
  <2>2. PICK o \in 1..m : o # i /\ s.array[k] = r.array[o]
    BY <1>10
  <2>3. o \in Used(r) /\ o \in InUse(r) /\ a = r.array[o][j]
    BY <1>1, <2>1, <2>2 DEF Used, m
  <2>4. f.text[a] = r.text[a]
    BY <1>3, <2>1, <2>2, <2>3
  <2>5. QED
    BY <1>6, <1>8, <2>1, <2>3, <2>4, HeldIs
<1>14. Safe(r, s)
  BY <1>6, <1>8 DEF Safe
<1>15. QED
  BY <1>6, <1>8, <1>12, <1>13, <1>14 DEF Shrinks, m

-----------------------------------------------------------------------------
LEMMA RemovalsAre ==
  ASSUME NEW r, NEW n \in Nat
  PROVE  \E g : /\ RemoveUpTo(r, n) = g[1..n]
                /\ g[{}] = r
                /\ \A k \in 1..n : g[1..k] = RemoveRow(g[1..k - 1], n + 1 - k)
<1> DEFINE seq == [i \in 1..n |-> i]
           Step(x, k) == RemoveRow(x, n + 1 - seq[k])
           Body(m, g) == [s \in SUBSET (1..m) |-> IF s = {} THEN r ELSE Step(g[s \ {Max(s)}], Max(s))]
           U == {m \in Nat : \E g : g = Body(m, g)}
           iter == CHOOSE g : g = Body(n, g)
<1>1. RemoveUpTo(r, n) = iter[1..n]
  BY DEF RemoveUpTo, FoldLeft, MapThenFoldSet
<1> HIDE DEF Step
<1>2. 0 \in U
  <2>1. \A s \in SUBSET (1..0) : s = {}
    OBVIOUS
  <2>2. [s \in SUBSET (1..0) |-> r] = Body(0, [s \in SUBSET (1..0) |-> r])
    BY <2>1
  <2> HIDE DEF Body
  <2>3. QED
    BY <2>2
<1>3. ASSUME NEW m \in Nat, m \in U
      PROVE  m + 1 \in U
  <2>1. PICK g : g = Body(m, g)
    BY <1>3
  <2>2. PICK e : e = [s \in SUBSET (1..m) |-> Step(g[s], m + 1)]
    OBVIOUS
  <2>3. PICK h : h = Onto(m, g, e)
    OBVIOUS
  <2>4. \A s \in SUBSET (1..m + 1) : GoesOn(m, g, e, h, s)
    BY <2>3, OntoIs
  <2>5. ASSUME NEW s \in SUBSET (1..m + 1)
        PROVE  h[s] = IF s = {} THEN r ELSE Step(h[s \ {Max(s)}], Max(s))
    <3>1. CASE m + 1 \in s
      <4>1. PICK t : t = s \ {m + 1}
        OBVIOUS
      <4>2. Max(s) = m + 1 /\ t \in SUBSET (1..m) /\ h[s] = e[t] /\ h[t] = g[t]
        BY <2>4, <3>1, <4>1 DEF GoesOn
      <4>3. h[s] = Step(h[t], m + 1)
        BY <2>2, <4>2
      <4>4. QED
        BY <3>1, <4>1, <4>2, <4>3
    <3>2. CASE m + 1 \notin s
      <4>1. s \in SUBSET (1..m) /\ h[s] = g[s] /\ h[s \ {Max(s)}] = g[s \ {Max(s)}]
        BY <2>4, <3>2 DEF GoesOn
      <4>2. g[s] = IF s = {} THEN r ELSE Step(g[s \ {Max(s)}], Max(s))
        BY <2>1, <4>1
      <4>3. QED
        BY <4>1, <4>2
    <3>3. QED
      BY <3>1, <3>2
  <2>6. h = Body(m + 1, h)
    BY <2>3, <2>5 DEF Onto
  <2> HIDE DEF Body
  <2>7. QED
    BY <2>6
<1>4. iter = Body(n, iter)
  <2> HIDE DEF Body, U
  <2>1. n \in U
    BY <1>2, <1>3, AllNumbers
  <2>2. \E g : g = Body(n, g)
    BY <2>1 DEF U
  <2>3. QED
    BY <2>2
<1> HIDE DEF iter
<1>5. iter[{}] = r
  <2>1. {} \in SUBSET (1..n)
    OBVIOUS
  <2>2. QED
    BY <1>4, <2>1, Zenon
<1>6. ASSUME NEW k \in 1..n
      PROVE  iter[1..k] = Step(iter[1..k - 1], k)
  <2>1. 1..k \in SUBSET (1..n) /\ 1..k # {} /\ Max(1..k) = k /\ (1..k) \ {k} = 1..k - 1
    BY MaxOfInterval
  <2>2. iter[1..k] = Step(iter[(1..k) \ {Max(1..k)}], Max(1..k))
    BY <1>4, <2>1
  <2>3. QED
    BY <2>1, <2>2
<1>7. QED
  BY <1>1, <1>5, <1>6 DEF Step

(* Columns appended one after the other.                                    *)
LEMMA ColumnsAre ==
  ASSUME NEW r, NEW seq, NEW n \in Nat, DOMAIN seq = 1..n
  PROVE  \E g : /\ AppendColumns(r, seq) = g[1..n]
                /\ g[{}] = r
                /\ \A k \in 1..n : g[1..k] = charArray_col_append(Again(g[1..k - 1]), g[1..k - 1].row_amount,
                                                               seq[k])
<1> DEFINE Step(x, k) == charArray_col_append(Again(x), x.row_amount, seq[k])
           Body(m, g) == [s \in SUBSET (1..m) |-> IF s = {} THEN r ELSE Step(g[s \ {Max(s)}], Max(s))]
           U == {m \in Nat : \E g : g = Body(m, g)}
           iter == CHOOSE g : g = Body(n, g)
<1>1. AppendColumns(r, seq) = iter[1..n]
  BY DEF AppendColumns, FoldLeft, MapThenFoldSet
<1> HIDE DEF Step
<1>2. 0 \in U
  <2>1. \A s \in SUBSET (1..0) : s = {}
    OBVIOUS
  <2>2. [s \in SUBSET (1..0) |-> r] = Body(0, [s \in SUBSET (1..0) |-> r])
    BY <2>1
  <2> HIDE DEF Body
  <2>3. QED
    BY <2>2
<1>3. ASSUME NEW m \in Nat, m \in U
      PROVE  m + 1 \in U
  <2>1. PICK g : g = Body(m, g)
    BY <1>3
  <2>2. PICK e : e = [s \in SUBSET (1..m) |-> Step(g[s], m + 1)]
    OBVIOUS
  <2>3. PICK h : h = Onto(m, g, e)
    OBVIOUS
  <2>4. \A s \in SUBSET (1..m + 1) : GoesOn(m, g, e, h, s)
    BY <2>3, OntoIs
  <2>5. ASSUME NEW s \in SUBSET (1..m + 1)
        PROVE  h[s] = IF s = {} THEN r ELSE Step(h[s \ {Max(s)}], Max(s))
    <3>1. CASE m + 1 \in s
      <4>1. PICK t : t = s \ {m + 1}
        OBVIOUS
      <4>2. Max(s) = m + 1 /\ t \in SUBSET (1..m) /\ h[s] = e[t] /\ h[t] = g[t]
        BY <2>4, <3>1, <4>1 DEF GoesOn
      <4>3. h[s] = Step(h[t], m + 1)
        BY <2>2, <4>2
      <4>4. QED
        BY <3>1, <4>1, <4>2, <4>3
    <3>2. CASE m + 1 \notin s
      <4>1. s \in SUBSET (1..m) /\ h[s] = g[s] /\ h[s \ {Max(s)}] = g[s \ {Max(s)}]
        BY <2>4, <3>2 DEF GoesOn
      <4>2. g[s] = IF s = {} THEN r ELSE Step(g[s \ {Max(s)}], Max(s))
        BY <2>1, <4>1
      <4>3. QED
        BY <4>1, <4>2
    <3>3. QED
      BY <3>1, <3>2
  <2>6. h = Body(m + 1, h)
    BY <2>3, <2>5 DEF Onto
  <2> HIDE DEF Body
  <2>7. QED
    BY <2>6
<1>4. iter = Body(n, iter)
  <2> HIDE DEF Body, U
  <2>1. n \in U
    BY <1>2, <1>3, AllNumbers
  <2>2. \E g : g = Body(n, g)
    BY <2>1 DEF U
  <2>3. QED
    BY <2>2
<1> HIDE DEF iter
<1>5. iter[{}] = r
  <2>1. {} \in SUBSET (1..n)
    OBVIOUS
  <2>2. QED
    BY <1>4, <2>1, Zenon
<1>6. ASSUME NEW k \in 1..n
      PROVE  iter[1..k] = Step(iter[1..k - 1], k)
  <2>1. 1..k \in SUBSET (1..n) /\ 1..k # {} /\ Max(1..k) = k /\ (1..k) \ {k} = 1..k - 1
    BY MaxOfInterval
  <2>2. iter[1..k] = Step(iter[(1..k) \ {Max(1..k)}], Max(1..k))
    BY <1>4, <2>1
  <2>3. QED
    BY <2>1, <2>2
<1>7. QED
  BY <1>1, <1>5, <1>6 DEF Step

(* Rows appended one after the other.                                       *)
AppendedBy(g, r, rows, failing, n) ==
  /\ charArray_appendArray(r, rows, failing) = Again(g[1..n])
  /\ g[{}] = r
  /\ \A k \in 1..n : g[1..k] = AppendRow(g[1..k - 1], rows[k], failing)

LEMMA RowsAppendedAre ==
  ASSUME NEW r, NEW seq, NEW failing, NEW n \in Nat, DOMAIN seq = 1..n
  PROVE  \E g : AppendedBy(g, r, seq, failing, n)
<1> DEFINE Step(x, k) == AppendRow(x, seq[k], failing)
           Body(m, g) == [s \in SUBSET (1..m) |-> IF s = {} THEN r ELSE Step(g[s \ {Max(s)}], Max(s))]
           U == {m \in Nat : \E g : g = Body(m, g)}
           iter == CHOOSE g : g = Body(n, g)
<1>1. charArray_appendArray(r, seq, failing) = Again(iter[1..n])
  BY DEF charArray_appendArray, FoldLeft, MapThenFoldSet
<1> HIDE DEF Step
<1>2. 0 \in U
  <2>1. \A s \in SUBSET (1..0) : s = {}
    OBVIOUS
  <2>2. [s \in SUBSET (1..0) |-> r] = Body(0, [s \in SUBSET (1..0) |-> r])
    BY <2>1
  <2> HIDE DEF Body
  <2>3. QED
    BY <2>2
<1>3. ASSUME NEW m \in Nat, m \in U
      PROVE  m + 1 \in U
  <2>1. PICK g : g = Body(m, g)
    BY <1>3
  <2>2. PICK e : e = [s \in SUBSET (1..m) |-> Step(g[s], m + 1)]
    OBVIOUS
  <2>3. PICK h : h = Onto(m, g, e)
    OBVIOUS
  <2>4. \A s \in SUBSET (1..m + 1) : GoesOn(m, g, e, h, s)
    BY <2>3, OntoIs
  <2>5. ASSUME NEW s \in SUBSET (1..m + 1)
        PROVE  h[s] = IF s = {} THEN r ELSE Step(h[s \ {Max(s)}], Max(s))
    <3>1. CASE m + 1 \in s
      <4>1. PICK t : t = s \ {m + 1}
        OBVIOUS
      <4>2. Max(s) = m + 1 /\ t \in SUBSET (1..m) /\ h[s] = e[t] /\ h[t] = g[t]
        BY <2>4, <3>1, <4>1 DEF GoesOn
      <4>3. h[s] = Step(h[t], m + 1)
        BY <2>2, <4>2
      <4>4. QED
        BY <3>1, <4>1, <4>2, <4>3
    <3>2. CASE m + 1 \notin s
      <4>1. s \in SUBSET (1..m) /\ h[s] = g[s] /\ h[s \ {Max(s)}] = g[s \ {Max(s)}]
        BY <2>4, <3>2 DEF GoesOn
      <4>2. g[s] = IF s = {} THEN r ELSE Step(g[s \ {Max(s)}], Max(s))
        BY <2>1, <4>1
      <4>3. QED
        BY <4>1, <4>2
    <3>3. QED
      BY <3>1, <3>2
  <2>6. h = Body(m + 1, h)
    BY <2>3, <2>5 DEF Onto
  <2> HIDE DEF Body
  <2>7. QED
    BY <2>6
<1>4. iter = Body(n, iter)
  <2> HIDE DEF Body, U
  <2>1. n \in U
    BY <1>2, <1>3, AllNumbers
  <2>2. \E g : g = Body(n, g)
    BY <2>1 DEF U
  <2>3. QED
    BY <2>2
<1> HIDE DEF iter
<1>5. iter[{}] = r
  <2>1. {} \in SUBSET (1..n)
    OBVIOUS
  <2>2. QED
    BY <1>4, <2>1, Zenon
<1>6. ASSUME NEW k \in 1..n
      PROVE  iter[1..k] = Step(iter[1..k - 1], k)
  <2>1. 1..k \in SUBSET (1..n) /\ 1..k # {} /\ Max(1..k) = k /\ (1..k) \ {k} = 1..k - 1
    BY MaxOfInterval
  <2>2. iter[1..k] = Step(iter[(1..k) \ {Max(1..k)}], Max(1..k))
    BY <1>4, <2>1
  <2>3. QED
    BY <2>1, <2>2
<1>7. QED
  BY <1>1, <1>5, <1>6 DEF Step, AppendedBy

(* Rows inserted one after the other.                                       *)
InsertedBy(g, r, row, lines, failing, n) ==
  /\ InsertBehind(r, row, lines, failing) = g[1..n]
  /\ g[{}] = r
  /\ \A k \in 1..n : g[1..k] = charArray_insert(Again(g[1..k - 1]), row + k - 1, lines[k], failing)

LEMMA InsertionsAre ==
  ASSUME NEW r, NEW row, NEW lines, NEW failing, NEW n \in Nat, DOMAIN lines = 1..n
  PROVE  \E g : InsertedBy(g, r, row, lines, failing, n)
<1> DEFINE seq == [i \in DOMAIN lines |-> i]
           Step(x, k) == charArray_insert(Again(x), row + seq[k] - 1, lines[seq[k]], failing)
           Body(m, g) == [s \in SUBSET (1..m) |-> IF s = {} THEN r ELSE Step(g[s \ {Max(s)}], Max(s))]
           U == {m \in Nat : \E g : g = Body(m, g)}
           iter == CHOOSE g : g = Body(n, g)
<1>1. InsertBehind(r, row, lines, failing) = iter[1..n]
  BY DEF InsertBehind, FoldLeftDomain, FoldLeft, MapThenFoldSet
<1> HIDE DEF Step
<1>2. 0 \in U
  <2>1. \A s \in SUBSET (1..0) : s = {}
    OBVIOUS
  <2>2. [s \in SUBSET (1..0) |-> r] = Body(0, [s \in SUBSET (1..0) |-> r])
    BY <2>1
  <2> HIDE DEF Body
  <2>3. QED
    BY <2>2
<1>3. ASSUME NEW m \in Nat, m \in U
      PROVE  m + 1 \in U
  <2>1. PICK g : g = Body(m, g)
    BY <1>3
  <2>2. PICK e : e = [s \in SUBSET (1..m) |-> Step(g[s], m + 1)]
    OBVIOUS
  <2>3. PICK h : h = Onto(m, g, e)
    OBVIOUS
  <2>4. \A s \in SUBSET (1..m + 1) : GoesOn(m, g, e, h, s)
    BY <2>3, OntoIs
  <2>5. ASSUME NEW s \in SUBSET (1..m + 1)
        PROVE  h[s] = IF s = {} THEN r ELSE Step(h[s \ {Max(s)}], Max(s))
    <3>1. CASE m + 1 \in s
      <4>1. PICK t : t = s \ {m + 1}
        OBVIOUS
      <4>2. Max(s) = m + 1 /\ t \in SUBSET (1..m) /\ h[s] = e[t] /\ h[t] = g[t]
        BY <2>4, <3>1, <4>1 DEF GoesOn
      <4>3. h[s] = Step(h[t], m + 1)
        BY <2>2, <4>2
      <4>4. QED
        BY <3>1, <4>1, <4>2, <4>3
    <3>2. CASE m + 1 \notin s
      <4>1. s \in SUBSET (1..m) /\ h[s] = g[s] /\ h[s \ {Max(s)}] = g[s \ {Max(s)}]
        BY <2>4, <3>2 DEF GoesOn
      <4>2. g[s] = IF s = {} THEN r ELSE Step(g[s \ {Max(s)}], Max(s))
        BY <2>1, <4>1
      <4>3. QED
        BY <4>1, <4>2
    <3>3. QED
      BY <3>1, <3>2
  <2>6. h = Body(m + 1, h)
    BY <2>3, <2>5 DEF Onto
  <2> HIDE DEF Body
  <2>7. QED
    BY <2>6
<1>4. iter = Body(n, iter)
  <2> HIDE DEF Body, U
  <2>1. n \in U
    BY <1>2, <1>3, AllNumbers
  <2>2. \E g : g = Body(n, g)
    BY <2>1 DEF U
  <2>3. QED
    BY <2>2
<1> HIDE DEF iter
<1>5. iter[{}] = r
  <2>1. {} \in SUBSET (1..n)
    OBVIOUS
  <2>2. QED
    BY <1>4, <2>1, Zenon
<1>6. ASSUME NEW k \in 1..n
      PROVE  iter[1..k] = Step(iter[1..k - 1], k)
  <2>1. 1..k \in SUBSET (1..n) /\ 1..k # {} /\ Max(1..k) = k /\ (1..k) \ {k} = 1..k - 1
    BY MaxOfInterval
  <2>2. iter[1..k] = Step(iter[(1..k) \ {Max(1..k)}], Max(1..k))
    BY <1>4, <2>1
  <2>3. QED
    BY <2>1, <2>2
<1>7. QED
  BY <1>1, <1>5, <1>6 DEF Step, InsertedBy

(* Lines substituted one after the other.                                   *)
LEMMA HuntsAre ==
  ASSUME NEW hunt, NEW needle, NEW replacement, NEW all, NEW failing,
         NEW n \in Nat, n = MaxRows + 1
  PROVE  \E g : /\ Hunted(hunt, needle, replacement, all, failing) = g[1..n]
                /\ g[{}] = hunt
                /\ \A k \in 1..n : g[1..k] = Hunt(g[1..k - 1], needle, replacement, all, failing)
<1> DEFINE Step(x, k) == Hunt(x, needle, replacement, all, failing)
           Body(m, g) == [s \in SUBSET (1..m) |-> IF s = {} THEN hunt ELSE Step(g[s \ {Max(s)}], Max(s))]
           U == {m \in Nat : \E g : g = Body(m, g)}
           iter == CHOOSE g : g = Body(n, g)
<1>1. Hunted(hunt, needle, replacement, all, failing) = iter[1..n]
  BY DEF Hunted, FoldLeft, MapThenFoldSet
<1> HIDE DEF Step
<1>2. 0 \in U
  <2>1. \A s \in SUBSET (1..0) : s = {}
    OBVIOUS
  <2>2. [t \in SUBSET (1..0) |-> hunt] = Body(0, [t \in SUBSET (1..0) |-> hunt])
    BY <2>1
  <2> HIDE DEF Body
  <2>3. QED
    BY <2>2
<1>3. ASSUME NEW m \in Nat, m \in U
      PROVE  m + 1 \in U
  <2>1. PICK g : g = Body(m, g)
    BY <1>3
  <2>2. PICK e : e = [s \in SUBSET (1..m) |-> Step(g[s], m + 1)]
    OBVIOUS
  <2>3. PICK h : h = Onto(m, g, e)
    OBVIOUS
  <2>4. \A s \in SUBSET (1..m + 1) : GoesOn(m, g, e, h, s)
    BY <2>3, OntoIs
  <2>5. ASSUME NEW s \in SUBSET (1..m + 1)
        PROVE  h[s] = IF s = {} THEN hunt ELSE Step(h[s \ {Max(s)}], Max(s))
    <3>1. CASE m + 1 \in s
      <4>1. PICK t : t = s \ {m + 1}
        OBVIOUS
      <4>2. Max(s) = m + 1 /\ t \in SUBSET (1..m) /\ h[s] = e[t] /\ h[t] = g[t]
        BY <2>4, <3>1, <4>1 DEF GoesOn
      <4>3. h[s] = Step(h[t], m + 1)
        BY <2>2, <4>2
      <4>4. QED
        BY <3>1, <4>1, <4>2, <4>3
    <3>2. CASE m + 1 \notin s
      <4>1. s \in SUBSET (1..m) /\ h[s] = g[s] /\ h[s \ {Max(s)}] = g[s \ {Max(s)}]
        BY <2>4, <3>2 DEF GoesOn
      <4>2. g[s] = IF s = {} THEN hunt ELSE Step(g[s \ {Max(s)}], Max(s))
        BY <2>1, <4>1
      <4>3. QED
        BY <4>1, <4>2
    <3>3. QED
      BY <3>1, <3>2
  <2>6. h = Body(m + 1, h)
    BY <2>3, <2>5 DEF Onto
  <2> HIDE DEF Body
  <2>7. QED
    BY <2>6
<1>4. iter = Body(n, iter)
  <2> HIDE DEF Body, U
  <2>1. n \in U
    BY <1>2, <1>3, AllNumbers
  <2>2. \E g : g = Body(n, g)
    BY <2>1 DEF U
  <2>3. QED
    BY <2>2
<1> HIDE DEF iter
<1>5. iter[{}] = hunt
  BY <1>4
<1>6. ASSUME NEW k \in 1..n
      PROVE  iter[1..k] = Step(iter[1..k - 1], k)
  <2>1. 1..k \in SUBSET (1..n) /\ 1..k # {} /\ Max(1..k) = k /\ (1..k) \ {k} = 1..k - 1
    BY MaxOfInterval
  <2>2. iter[1..k] = Step(iter[(1..k) \ {Max(1..k)}], Max(1..k))
    BY <1>4, <2>1
  <2>3. QED
    BY <2>1, <2>2
<1>7. QED
  BY <1>1, <1>5, <1>6 DEF Step

(* Pieces appended to a row one after the other.                            *)
LEMMA PiecesAppendedAre ==
  ASSUME NEW r, NEW row, NEW seq, NEW n \in Nat, DOMAIN seq = 1..n
  PROVE  \E g : /\ AppendPieces(r, row, seq) = g[1..n]
                /\ g[{}] = r
                /\ \A k \in 1..n : g[1..k] = charArray_col_append(Again(g[1..k - 1]), row, seq[k])
<1> DEFINE Step(x, k) == charArray_col_append(Again(x), row, seq[k])
           Body(m, g) == [s \in SUBSET (1..m) |-> IF s = {} THEN r ELSE Step(g[s \ {Max(s)}], Max(s))]
           U == {m \in Nat : \E g : g = Body(m, g)}
           iter == CHOOSE g : g = Body(n, g)
<1>1. AppendPieces(r, row, seq) = iter[1..n]
  BY DEF AppendPieces, FoldLeft, MapThenFoldSet
<1> HIDE DEF Step
<1>2. 0 \in U
  <2>1. \A s \in SUBSET (1..0) : s = {}
    OBVIOUS
  <2>2. [s \in SUBSET (1..0) |-> r] = Body(0, [s \in SUBSET (1..0) |-> r])
    BY <2>1
  <2> HIDE DEF Body
  <2>3. QED
    BY <2>2
<1>3. ASSUME NEW m \in Nat, m \in U
      PROVE  m + 1 \in U
  <2>1. PICK g : g = Body(m, g)
    BY <1>3
  <2>2. PICK e : e = [s \in SUBSET (1..m) |-> Step(g[s], m + 1)]
    OBVIOUS
  <2>3. PICK h : h = Onto(m, g, e)
    OBVIOUS
  <2>4. \A s \in SUBSET (1..m + 1) : GoesOn(m, g, e, h, s)
    BY <2>3, OntoIs
  <2>5. ASSUME NEW s \in SUBSET (1..m + 1)
        PROVE  h[s] = IF s = {} THEN r ELSE Step(h[s \ {Max(s)}], Max(s))
    <3>1. CASE m + 1 \in s
      <4>1. PICK t : t = s \ {m + 1}
        OBVIOUS
      <4>2. Max(s) = m + 1 /\ t \in SUBSET (1..m) /\ h[s] = e[t] /\ h[t] = g[t]
        BY <2>4, <3>1, <4>1 DEF GoesOn
      <4>3. h[s] = Step(h[t], m + 1)
        BY <2>2, <4>2
      <4>4. QED
        BY <3>1, <4>1, <4>2, <4>3
    <3>2. CASE m + 1 \notin s
      <4>1. s \in SUBSET (1..m) /\ h[s] = g[s] /\ h[s \ {Max(s)}] = g[s \ {Max(s)}]
        BY <2>4, <3>2 DEF GoesOn
      <4>2. g[s] = IF s = {} THEN r ELSE Step(g[s \ {Max(s)}], Max(s))
        BY <2>1, <4>1
      <4>3. QED
        BY <4>1, <4>2
    <3>3. QED
      BY <3>1, <3>2
  <2>6. h = Body(m + 1, h)
    BY <2>3, <2>5 DEF Onto
  <2> HIDE DEF Body
  <2>7. QED
    BY <2>6
<1>4. iter = Body(n, iter)
  <2> HIDE DEF Body, U
  <2>1. n \in U
    BY <1>2, <1>3, AllNumbers
  <2>2. \E g : g = Body(n, g)
    BY <2>1 DEF U
  <2>3. QED
    BY <2>2
<1> HIDE DEF iter
<1>5. iter[{}] = r
  <2>1. {} \in SUBSET (1..n)
    OBVIOUS
  <2>2. QED
    BY <1>4, <2>1, Zenon
<1>6. ASSUME NEW k \in 1..n
      PROVE  iter[1..k] = Step(iter[1..k - 1], k)
  <2>1. 1..k \in SUBSET (1..n) /\ 1..k # {} /\ Max(1..k) = k /\ (1..k) \ {k} = 1..k - 1
    BY MaxOfInterval
  <2>2. iter[1..k] = Step(iter[(1..k) \ {Max(1..k)}], Max(1..k))
    BY <1>4, <2>1
  <2>3. QED
    BY <2>1, <2>2
<1>7. QED
  BY <1>1, <1>5, <1>6 DEF Step

(* Rows split one after the other.                                          *)
LEMMA SplitsAre ==
  ASSUME NEW r, NEW delimiter, delimiter # <<>>, r.row_amount \in Nat
  PROVE  \E g : /\ charArray_splitTag(r, delimiter) = Again(g[1..r.row_amount])
                /\ g[{}] = r
                /\ \A k \in 1..r.row_amount : g[1..k] = SplitRow(g[1..k - 1], k, delimiter)
<1> DEFINE n == r.row_amount
           seq == [i \in 1..n |-> i]
           Step(x, k) == SplitRow(x, seq[k], delimiter)
           Body(m, g) == [s \in SUBSET (1..m) |-> IF s = {} THEN r ELSE Step(g[s \ {Max(s)}], Max(s))]
           U == {m \in Nat : \E g : g = Body(m, g)}
           iter == CHOOSE g : g = Body(n, g)
<1>1. charArray_splitTag(r, delimiter) = Again(iter[1..n])
  BY DEF Used, charArray_splitTag, FoldLeft, MapThenFoldSet
<1> HIDE DEF Step
<1>2. 0 \in U
  <2>1. \A s \in SUBSET (1..0) : s = {}
    OBVIOUS
  <2>2. [s \in SUBSET (1..0) |-> r] = Body(0, [s \in SUBSET (1..0) |-> r])
    BY <2>1
  <2> HIDE DEF Body
  <2>3. QED
    BY <2>2
<1>3. ASSUME NEW m \in Nat, m \in U
      PROVE  m + 1 \in U
  <2>1. PICK g : g = Body(m, g)
    BY <1>3
  <2>2. PICK e : e = [s \in SUBSET (1..m) |-> Step(g[s], m + 1)]
    OBVIOUS
  <2>3. PICK h : h = Onto(m, g, e)
    OBVIOUS
  <2>4. \A s \in SUBSET (1..m + 1) : GoesOn(m, g, e, h, s)
    BY <2>3, OntoIs
  <2>5. ASSUME NEW s \in SUBSET (1..m + 1)
        PROVE  h[s] = IF s = {} THEN r ELSE Step(h[s \ {Max(s)}], Max(s))
    <3>1. CASE m + 1 \in s
      <4>1. PICK t : t = s \ {m + 1}
        OBVIOUS
      <4>2. Max(s) = m + 1 /\ t \in SUBSET (1..m) /\ h[s] = e[t] /\ h[t] = g[t]
        BY <2>4, <3>1, <4>1 DEF GoesOn
      <4>3. h[s] = Step(h[t], m + 1)
        BY <2>2, <4>2
      <4>4. QED
        BY <3>1, <4>1, <4>2, <4>3
    <3>2. CASE m + 1 \notin s
      <4>1. s \in SUBSET (1..m) /\ h[s] = g[s] /\ h[s \ {Max(s)}] = g[s \ {Max(s)}]
        BY <2>4, <3>2 DEF GoesOn
      <4>2. g[s] = IF s = {} THEN r ELSE Step(g[s \ {Max(s)}], Max(s))
        BY <2>1, <4>1
      <4>3. QED
        BY <4>1, <4>2
    <3>3. QED
      BY <3>1, <3>2
  <2>6. h = Body(m + 1, h)
    BY <2>3, <2>5 DEF Onto
  <2> HIDE DEF Body
  <2>7. QED
    BY <2>6
<1>4. iter = Body(n, iter)
  <2> HIDE DEF Body, U
  <2>1. n \in U
    BY <1>2, <1>3, AllNumbers
  <2>2. \E g : g = Body(n, g)
    BY <2>1 DEF U
  <2>3. QED
    BY <2>2
<1> HIDE DEF iter
<1>5. iter[{}] = r
  <2>1. {} \in SUBSET (1..n)
    OBVIOUS
  <2>2. QED
    BY <1>4, <2>1, Zenon
<1>6. ASSUME NEW k \in 1..n
      PROVE  iter[1..k] = Step(iter[1..k - 1], k)
  <2>1. 1..k \in SUBSET (1..n) /\ 1..k # {} /\ Max(1..k) = k /\ (1..k) \ {k} = 1..k - 1
    BY MaxOfInterval
  <2>2. iter[1..k] = Step(iter[(1..k) \ {Max(1..k)}], Max(1..k))
    BY <1>4, <2>1
  <2>3. QED
    BY <2>1, <2>2
<1>7. QED
  BY <1>1, <1>5, <1>6 DEF Step

(* Which rows there are is not a matter of their columns.                   *)
LEMMA ColAppendCounts ==
  ASSUME NEW r \in Records, NEW row, NEW string, NEW s, s = charArray_col_append(r, row, string)
  PROVE  s.row_amount = r.row_amount
<1> DEFINE i == IF row = 0 THEN r.row_amount ELSE row
           free == {j \in 1..ColMax : r.array[i][j] = Null}
           j == CHOOSE k \in free : \A l \in free : k <= l
           lost == CHOOSE a \in Unused(r) : \A b \in Unused(r) : a <= b
           m == Malloc(r, i, j)
           code == IF i > Len(r.array) THEN -444 ELSE -10
           wide == IF m.col_amount < j THEN j ELSE m.col_amount
<1>1. \A v : Error(r, v).row_amount = r.row_amount
  BY DEF Error, Records
<1>2. m.row_amount = r.row_amount /\ DOMAIN m = DOMAIN r
  <2> HIDE DEF i, j
  <2>1. QED
    BY DEF Malloc, OutOfMemory, Records
<1>3. \/ s = OutOfMemory(r)
      \/ \E v : s = Error(r, v)
      \/ s = [r EXCEPT !.text[lost] = <<>>, !.ret = code]
      \/ s = [m EXCEPT !.text[m.array[i][j]] = Cut(string), !.col_amount = wide]
  BY DEF charArray_col_append
<1> HIDE DEF i, j, lost, m, code, wide
<1>4. OutOfMemory(r).row_amount = r.row_amount
  BY DEF OutOfMemory, Records
<1>5. [r EXCEPT !.text[lost] = <<>>, !.ret = code].row_amount = r.row_amount
  BY DEF Records
<1>6. [m EXCEPT !.text[m.array[i][j]] = Cut(string), !.col_amount = wide].row_amount = r.row_amount
  BY <1>2 DEF Records
<1>7. \E t : s = t /\ t.row_amount = r.row_amount
  <2>1. CASE \E v : s = Error(r, v)
    BY <1>1, <2>1
  <2>2. CASE s = OutOfMemory(r) \/ s = [r EXCEPT !.text[lost] = <<>>, !.ret = code]
    BY <1>4, <1>5, <2>2, Zenon
  <2>3. CASE s = [m EXCEPT !.text[m.array[i][j]] = Cut(string), !.col_amount = wide]
    BY <1>6, <2>3, Zenon
  <2>4. QED
    BY <1>3, <2>1, <2>2, <2>3, Zenon
<1>8. QED
  BY <1>7

-----------------------------------------------------------------------------
(* Finding.  The first of some rows, 0 if there are none.                   *)
FirstOf(hits) == IF hits = {} THEN 0 ELSE CHOOSE i \in hits : \A k \in hits : i <= k

LEMMA FirstOfIs ==
  ASSUME NEW n \in Nat, NEW hits, hits \subseteq 1..n
  PROVE  FirstOf(hits) \in {0} \cup hits /\ (FirstOf(hits) = 0 => hits = {})
<1>1. CASE hits = {}
  BY <1>1 DEF FirstOf
<1>2. CASE hits # {}
  <2>1. hits \subseteq Nat
    OBVIOUS
  <2>2. \E i \in hits : \A k \in hits : i <= k
    BY <1>2, <2>1, LeastNumber
  <2>3. FirstOf(hits) \in hits
    BY <1>2, <2>2 DEF FirstOf
  <2>4. FirstOf(hits) # 0
    BY <2>3
  <2>5. QED
    BY <2>3, <2>4
<1>3. QED
  BY <1>1, <1>2

-----------------------------------------------------------------------------
(* The calls that remove.                                                   *)
LEMMA RemoveFoundShrinks ==
  ASSUME NEW r, Owned(r), NEW i \in {0} \cup Used(r), NEW s, s = RemoveFound(r, i)
  PROVE  Shrinks(r, s)
<1>1. CASE i = 0
  <2>1. s = Error(r, 0) /\ r \in Records
    BY <1>1 DEF RemoveFound, Owned
  <2>2. Noted(r, s) /\ Safe(r, s)
    BY <2>1, ErrorNotes
  <2>3. QED
    BY <2>2, NotedShrinks
<1>2. CASE i # 0
  <2>1. s = RemoveRow(r, i) /\ i \in Used(r)
    BY <1>2 DEF RemoveFound
  <2>2. QED
    BY <2>1, RemoveRowShrinks
<1>3. QED
  BY <1>1, <1>2

LEMMA ErrorShrinks ==
  ASSUME NEW r, Owned(r), NEW code \in Int, NEW s, s = Error(r, code)
  PROVE  Shrinks(r, s) /\ Grows(r, s)
<1>1. r \in Records
  BY DEF Owned
<1>2. Noted(r, s) /\ Safe(r, s)
  BY <1>1, ErrorNotes
<1>3. QED
  BY <1>2, NotedShrinks, NotedGrows

(* An empty array has no row to remove: what the call does there is unknown. *)
Loses(r, s) == Shrinks(r, s) \/ (r.row_amount = 0 /\ Noted(r, s))

LEMMA RemoveLineLoses ==
  ASSUME NEW r, Owned(r), NEW index \in Nat, NEW s, s = charArray_removeLineWithIndex(r, index)
  PROVE  Loses(r, s)
<1>1. r \in Records /\ r.row_amount \in Nat
  BY FieldsAre DEF Owned
<1>2. CASE r.row_amount = 0 /\ index = 1
  BY <1>2, ErrorShrinks DEF charArray_removeLineWithIndex, Loses
<1>3. CASE r.row_amount = 0 /\ index # 1
  BY <1>1, <1>3, CrashNotes DEF charArray_removeLineWithIndex, Loses
<1>4. CASE r.row_amount # 0
  <2>1. PICK i : i = IF index \in Used(r) THEN index ELSE r.row_amount
    OBVIOUS
  <2>2. i \in Used(r)
    BY <1>1, <1>4, <2>1 DEF Used
  <2>3. s = RemoveRow(r, i)
    BY <1>4, <2>1 DEF charArray_removeLineWithIndex
  <2>4. QED
    BY <2>2, <2>3, RemoveRowShrinks DEF Loses
<1>5. QED
  BY <1>2, <1>3, <1>4

LEMMA ShrinksSelf ==
  ASSUME NEW r, Owned(r)
  PROVE  Shrinks(r, r)
BY DEF Shrinks, Safe

LEMMA RemoveAllBeforeShrinks ==
  ASSUME NEW r, Owned(r), NEW index \in Nat,
         NEW s, s = charArray_removeLineWithIndexAndAllBefore(r, index)
  PROVE  Shrinks(r, s)
<1>1. r \in Records /\ r.row_amount \in Nat
  BY FieldsAre DEF Owned
<1>2. PICK last : last = IF index \in Used(r) THEN index ELSE r.row_amount
  OBVIOUS
<1>3. last \in Nat /\ last <= r.row_amount
  BY <1>1, <1>2 DEF Used
<1>4. s = RemoveUpTo(r, last)
  BY <1>2 DEF charArray_removeLineWithIndexAndAllBefore
<1>7. PICK g : /\ s = g[1..last]
               /\ g[{}] = r
               /\ \A k \in 1..last : g[1..k] = RemoveRow(g[1..k - 1], last + 1 - k)
  BY <1>3, <1>4, RemovalsAre
<1> DEFINE Left(k) == {t \in Records : Shrinks(r, t) /\ t.row_amount = r.row_amount - k}
           T == [k \in Nat |-> Left(k)]
<1>8. g[{}] \in T[0]
  BY <1>1, <1>7, ShrinksSelf
<1>9. ASSUME NEW k \in 1..last, g[1..k - 1] \in T[k - 1]
      PROVE  g[1..k] \in T[k]
  <2>1. PICK t : t = g[1..k - 1]
    OBVIOUS
  <2>2. k - 1 \in Nat /\ k \in Nat
    OBVIOUS
  <2>3. Shrinks(r, t) /\ t.row_amount = r.row_amount - (k - 1)
    BY <1>9, <2>1, <2>2
  <2>4. PICK i : i = last + 1 - k
    OBVIOUS
  <2>5. i \in Used(t)
    BY <1>1, <1>3, <2>3, <2>4 DEF Used
  <2>6. PICK u : u = g[1..k]
    OBVIOUS
  <2>7. u = RemoveRow(t, i)
    BY <1>7, <2>1, <2>4, <2>6
  <2>8. Owned(t)
    BY <2>3 DEF Shrinks
  <2>9. Shrinks(t, u) /\ u.row_amount = t.row_amount - 1
    BY <2>5, <2>7, <2>8, RemoveRowShrinks
  <2>10. Shrinks(r, u) /\ u.row_amount = r.row_amount - k /\ u \in Records
    <3>1. Shrinks(r, u)
      BY <2>3, <2>9, ShrinksOn
    <3>2. u \in Records
      BY <3>1 DEF Shrinks, Owned
    <3>3. QED
      BY <1>1, <2>3, <2>9, <3>1, <3>2
  <2>11. QED
    BY <2>2, <2>6, <2>10
<1> HIDE DEF T
<1>10. s \in T[last]
  BY <1>3, <1>7, <1>8, <1>9, FoldReaches
<1>11. QED
  BY <1>3, <1>10 DEF T

LEMMA RemoveThatIsShrinks ==
  ASSUME NEW r, Owned(r), NEW lookup, NEW s, s = charArray_removeLineThatIs(r, lookup)
  PROVE  Shrinks(r, s)
<1> DEFINE hits == {i \in 1..r.row_amount : Line(r, i) = lookup}
<1>1. r.row_amount \in Nat
  BY FieldsAre DEF Owned
<1>2. lookup = <<>> \/ s = RemoveFound(r, FirstOf(hits))
  BY DEF charArray_removeLineThatIs, FirstRow, FirstOf
<1>3. hits \subseteq 1..r.row_amount
  OBVIOUS
<1> HIDE DEF hits
<1>4. FirstOf(hits) \in {0} \cup Used(r)
  BY <1>1, <1>3, FirstOfIs DEF Used
<1>5. CASE lookup = <<>>
  <2>1. s = Error(r, -5)
    BY <1>5, Zenon DEF charArray_removeLineThatIs
  <2>2. QED
    BY <2>1, ErrorShrinks
<1>6. QED
  BY <1>2, <1>4, <1>5, RemoveFoundShrinks

LEMMA RemoveThatMatchesShrinks ==
  ASSUME NEW r, Owned(r), NEW needle, NEW s, s = charArray_removeLineThatMatches(r, needle)
  PROVE  Shrinks(r, s)
<1> DEFINE hits == {i \in 1..r.row_amount : Has(Line(r, i), needle)}
<1>1. r.row_amount \in Nat
  BY FieldsAre DEF Owned
<1>2. needle = <<>> \/ s = RemoveFound(r, FirstOf(hits))
  BY DEF charArray_removeLineThatMatches, FirstRow, FirstOf
<1>3. hits \subseteq 1..r.row_amount
  OBVIOUS
<1> HIDE DEF hits
<1>4. FirstOf(hits) \in {0} \cup Used(r)
  BY <1>1, <1>3, FirstOfIs DEF Used
<1>5. CASE needle = <<>>
  <2>1. s = Error(r, -5)
    BY <1>5, Zenon DEF charArray_removeLineThatMatches
  <2>2. QED
    BY <2>1, ErrorShrinks
<1>6. QED
  BY <1>2, <1>4, <1>5, RemoveFoundShrinks

LEMMA RemoveThatMatchesExLoses ==
  ASSUME NEW r, Owned(r), NEW needle, NEW start \in Nat,
         NEW s, s = charArray_removeLineThatMatchesEx(r, needle, start)
  PROVE  Loses(r, s)
<1> DEFINE from == IF start > r.row_amount THEN r.row_amount ELSE IF start < 1 THEN 1 ELSE start
           hits == {i \in from..r.row_amount : Has(Line(r, i), needle)}
<1>1. r \in Records /\ r.row_amount \in Nat
  BY FieldsAre DEF Owned
<1>2. CASE needle = <<>>
  <2>1. s = Error(r, -5)
    BY <1>2, Zenon DEF charArray_removeLineThatMatchesEx
  <2>2. QED
    BY <2>1, ErrorShrinks DEF Loses
<1>3. CASE needle # <<>> /\ r.row_amount = 0
  <2>1. s = Crash(r)
    BY <1>3, Zenon DEF charArray_removeLineThatMatchesEx
  <2>2. QED
    BY <1>1, <1>3, <2>1, CrashNotes DEF Loses
<1>4. CASE needle # <<>> /\ r.row_amount # 0
  <2>1. s = RemoveFound(r, FirstOf(hits))
    BY <1>4 DEF charArray_removeLineThatMatchesEx, FirstRow, FirstOf
  <2>2. hits \subseteq 1..r.row_amount
    BY <1>1, <1>4
  <2> HIDE DEF hits
  <2>3. FirstOf(hits) \in {0} \cup Used(r)
    BY <1>1, <2>2, FirstOfIs DEF Used
  <2>4. QED
    BY <2>1, <2>3, RemoveFoundShrinks DEF Loses
<1>5. QED
  BY <1>2, <1>3, <1>4

(* The calls that append.                                                   *)
LEMMA AgainOwned ==
  ASSUME NEW r, Owned(r), NEW s, s = Again(r)
  PROVE  Grows(r, s) /\ Owned(s) /\ s.ok = r.ok /\ (r.ok => Fine(s)) /\ s.starved = r.starved
<1>1. r \in Records
  BY DEF Owned
<1>2. Noted(r, s) /\ Safe(r, s) /\ s.ok = r.ok /\ (r.ok => Fine(s)) /\ s.starved = r.starved
  BY <1>1, AgainNotes
<1>3. Grows(r, s)
  BY <1>2, NotedGrows
<1>4. QED
  BY <1>2, <1>3 DEF Grows, Rewrites

LEMMA AppendColumnsGrows ==
  ASSUME NEW r, Owned(r), NEW columns \in Seq(Texts), NEW s, s = AppendColumns(r, columns)
  PROVE  Grows(r, s)
<1>1. PICK n : n = Len(columns)
  OBVIOUS
<1>2. n \in Nat /\ DOMAIN columns = 1..n /\ \A k \in 1..n : columns[k] \in Texts
  BY <1>1, LenProperties
<1>3. PICK g : /\ s = g[1..n]
               /\ g[{}] = r
               /\ \A k \in 1..n : g[1..k] = charArray_col_append(Again(g[1..k - 1]), g[1..k - 1].row_amount,
                                                                columns[k])
  BY <1>2, ColumnsAre
<1> DEFINE Grown == {t \in Records : Grows(r, t)}
           T == [k \in Nat |-> Grown]
<1>4. g[{}] \in T[0]
  BY <1>3, GrowsSelf DEF Owned
<1>5. ASSUME NEW k \in 1..n, g[1..k - 1] \in T[k - 1]
      PROVE  g[1..k] \in T[k]
  <2>1. PICK t : t = g[1..k - 1]
    OBVIOUS
  <2>2. k - 1 \in Nat /\ k \in Nat
    OBVIOUS
  <2>3. Grows(r, t) /\ t \in Records
    BY <1>5, <2>1, <2>2
  <2>4. PICK a : a = Again(t)
    OBVIOUS
  <2>5. Grows(t, a) /\ Owned(a)
    BY <2>3, <2>4, AgainOwned DEF Grows, Rewrites
  <2>6. PICK u : u = charArray_col_append(a, t.row_amount, columns[k])
    OBVIOUS
  <2>7. t.row_amount \in Nat /\ columns[k] \in Texts
    BY <1>2, <2>3, FieldsAre
  <2>8. Grows(a, u)
    BY <2>5, <2>6, <2>7, ColAppendGrows
  <2>9. Grows(r, u)
    BY <2>3, <2>5, <2>8, GrowsOn DEF Grows
  <2>10. u \in Records
    BY <2>9 DEF Grows, Rewrites, Owned
  <2>11. u = g[1..k]
    BY <1>3, <2>1, <2>4, <2>6
  <2>12. QED
    BY <2>2, <2>9, <2>10, <2>11
<1> HIDE DEF T
<1>6. s \in T[n]
  BY <1>2, <1>3, <1>4, <1>5, FoldReaches
<1>7. QED
  BY <1>2, <1>6 DEF T

(* The rest of a row.                                                       *)
LEMMA TailIs ==
  ASSUME NEW row \in Seq(Texts), row # <<>>
  PROVE  row[1] \in Texts /\ Tail(row) \in Seq(Texts) /\ Len(Tail(row)) = Len(row) - 1
BY HeadTailProperties, EmptySeq, LenProperties, ElementOfSeq

LEMMA AppendRowGrows ==
  ASSUME NEW r, Owned(r), NEW row \in Seq(Texts), row # <<>>, NEW failing \in Int,
         NEW s, s = AppendRow(r, row, failing)
  PROVE  Grows(r, s)
<1>1. row[1] \in Texts /\ Tail(row) \in Seq(Texts)
  BY TailIs
<1>2. PICK a : a = Again(r)
  OBVIOUS
<1>3. Grows(r, a) /\ Owned(a)
  BY <1>2, AgainOwned
<1>4. PICK t : t = charArray_add(a, row[1], failing)
  OBVIOUS
<1>5. Grows(a, t)
  BY <1>1, <1>3, <1>4, AddGrows
<1>6. Grows(r, t) /\ Owned(t)
  BY <1>3, <1>5, GrowsOn DEF Grows, Rewrites
<1>7. PICK u : u = AppendColumns(t, Tail(row))
  OBVIOUS
<1>8. Grows(t, u)
  BY <1>1, <1>6, <1>7, AppendColumnsGrows
<1>9. Grows(r, u)
  BY <1>6, <1>8, GrowsOn DEF Grows
<1>10. s = r \/ s = t \/ s = u
  BY <1>2, <1>4, <1>7 DEF AppendRow
<1>11. QED
  BY <1>6, <1>9, <1>10, GrowsSelf

LEMMA AppendArrayGrows ==
  ASSUME NEW r, Owned(r), NEW append \in Seq(Seq(Texts) \ {<<>>}), NEW failing \in Int,
         NEW s, s = charArray_appendArray(r, append, failing)
  PROVE  Grows(r, s)
<1>1. PICK n : n = Len(append)
  OBVIOUS
<1>2. n \in Nat /\ DOMAIN append = 1..n /\ \A k \in 1..n : append[k] \in Seq(Texts) /\ append[k] # <<>>
  <2>1. n \in Nat /\ DOMAIN append = 1..n /\ \A k \in 1..n : append[k] \in Seq(Texts) \ {<<>>}
    BY <1>1, LenProperties
  <2>2. QED
    BY <2>1
<1>3. PICK g : /\ s = Again(g[1..n])
               /\ g[{}] = r
               /\ \A k \in 1..n : g[1..k] = AppendRow(g[1..k - 1], append[k], failing)
  <2>1. \E g : AppendedBy(g, r, append, failing, n)
    BY <1>2, RowsAppendedAre
  <2>2. QED
    BY <2>1 DEF AppendedBy
<1> DEFINE Grown == {t \in Records : Grows(r, t)}
           T == [k \in Nat |-> Grown]
<1>4. g[{}] \in T[0]
  BY <1>3, GrowsSelf DEF Owned
<1>5. ASSUME NEW k \in 1..n, g[1..k - 1] \in T[k - 1]
      PROVE  g[1..k] \in T[k]
  <2>1. PICK t : t = g[1..k - 1]
    OBVIOUS
  <2>2. k - 1 \in Nat /\ k \in Nat
    OBVIOUS
  <2>3. Grows(r, t) /\ Owned(t)
    BY <1>5, <2>1, <2>2 DEF Grows, Rewrites
  <2>4. PICK u : u = AppendRow(t, append[k], failing)
    OBVIOUS
  <2>5. Grows(t, u)
    BY <1>2, <2>3, <2>4, AppendRowGrows
  <2>6. Grows(r, u)
    BY <2>3, <2>5, GrowsOn DEF Grows
  <2>7. u \in Records
    BY <2>6 DEF Grows, Rewrites, Owned
  <2>8. u = g[1..k]
    BY <1>3, <2>1, <2>4
  <2>9. QED
    BY <2>2, <2>6, <2>7, <2>8
<1>6. PICK last : last = g[1..n]
  OBVIOUS
<1>7. last \in T[n]
  <2> HIDE DEF T
  <2>1. QED
    BY <1>2, <1>3, <1>4, <1>5, <1>6, FoldReaches
<1>8. Grows(r, last) /\ Owned(last)
  BY <1>2, <1>7 DEF Grows, Rewrites
<1>9. Grows(last, s)
  BY <1>3, <1>6, <1>8, AgainOwned
<1>10. QED
  BY <1>8, <1>9, GrowsOn DEF Grows

-----------------------------------------------------------------------------
(* charArray_Zero keeps the first cell of every row, empty.                 *)
Zeroed(r, s) ==
  /\ s \in Records /\ InUse(s) = InUse(r) /\ Len(s.array) = Len(r.array)
  /\ Len(s.buffersize) = Len(r.buffersize) /\ s.row_amount = 0
  /\ s.ok = r.ok /\ s.starved = r.starved
  /\ \A i \in 1..Len(r.array) : s.buffersize[i] = NullRow <=> r.buffersize[i] = NullRow
  /\ \A i \in InUse(r), j \in 1..ColMax :
       s.array[i][j] # Null =>
         /\ j = 1 /\ s.array[i][j] = r.array[i][j]
         /\ (s.buffersize[i][j] <=> r.buffersize[i][j])
         /\ s.text[s.array[i][j]] = <<>>

LEMMA ZeroedShrinks ==
  ASSUME NEW r, Owned(r), NEW s, Zeroed(r, s)
  PROVE  Shrinks(r, s)
<1>1. r \in Records /\ Apart(r) /\ Alive(r) /\ Sized(r) /\ Excused(r)
  BY DEF Owned
<1>2. s \in Records /\ s.row_amount = 0 /\ InUse(s) = InUse(r) /\ Len(s.array) = Len(r.array)
  BY DEF Zeroed
<1>3. Apart(s)
  BY <1>1 DEF Zeroed, Apart
<1>4. Alive(s)
  BY Constants DEF Zeroed, Alive
<1>5. Sized(s)
  <2>1. Len(s.array) = Len(s.buffersize)
    BY <1>1 DEF Zeroed, Sized
  <2>2. \A i \in 1..Len(s.array) : s.array[i] = NullRow <=> s.buffersize[i] = NullRow
    <3>1. \A i \in 1..Len(r.array) : s.array[i] = NullRow <=> r.array[i] = NullRow
      BY <1>1, <1>2, FieldsAre
    <3>2. QED
      BY <1>1, <1>2, <3>1 DEF Zeroed, Sized
  <2>3. \A i \in InUse(s), j \in 1..ColMax : s.array[i][j] # Null => s.buffersize[i][j]
    BY <1>1 DEF Zeroed, Sized
  <2>4. QED
    BY <2>1, <2>2, <2>3 DEF Sized
<1>6. Used(s) = {} /\ Held(s) = {}
  BY <1>2 DEF Used, Held
<1>7. Filled(s)
  BY <1>2, <1>6, FieldsAre DEF Filled
<1>8. Excused(s)
  BY <1>1 DEF Zeroed, Excused
<1>9. Owned(s) /\ Safe(r, s)
  BY <1>2, <1>3, <1>4, <1>5, <1>7, <1>8 DEF Owned, Zeroed, Safe
<1>10. QED
  BY <1>6, <1>9 DEF Shrinks

LEMMA SizedCellsAre ==
  ASSUME NEW r, Owned(r), NEW from \in 1..ColMax \cup {ColMax + 1}
  PROVE  /\ SizedCells(r, from..ColMax) \subseteq 0..Cells
         /\ \A i \in InUse(r), j \in 1..ColMax :
              r.array[i][j] # Null => (r.array[i][j] \in SizedCells(r, from..ColMax) <=> j >= from)
<1> DEFINE cells == SizedCells(r, from..ColMax)
<1>1. r \in Records /\ Apart(r) /\ Sized(r)
  BY DEF Owned
<1>2. from \in Nat \ {0} /\ ColMax \in Nat
  BY Constants
<1>3. \A a : a \in cells <=> \E i \in InUse(r), j \in from..ColMax : r.buffersize[i][j] /\ a = r.array[i][j]
  BY DEF SizedCells
<1> HIDE DEF cells
<1>4. \A j \in from..ColMax : j \in 1..ColMax /\ j >= from
  BY <1>2
<1>5. cells \subseteq 0..Cells
  BY <1>1, <1>3, <1>4, FieldsAre
<1>6. ASSUME NEW i \in InUse(r), NEW j \in 1..ColMax, r.array[i][j] # Null
      PROVE  r.array[i][j] \in cells <=> j >= from
  <2>1. ASSUME j >= from
        PROVE  r.array[i][j] \in cells
    <3>1. j \in from..ColMax /\ r.buffersize[i][j]
      BY <1>1, <1>2, <1>6, <2>1 DEF Sized
    <3>2. QED
      BY <1>3, <3>1
  <2>2. ASSUME r.array[i][j] \in cells
        PROVE  j >= from
    <3>1. PICK k \in InUse(r), l \in from..ColMax : r.array[i][j] = r.array[k][l]
      BY <1>3, <2>2
    <3>2. j = l
      BY <1>1, <1>4, <1>6, <3>1 DEF Apart
    <3>3. QED
      BY <1>4, <3>2
  <2>3. QED
    BY <2>1, <2>2
<1>7. QED
  BY <1>5, <1>6 DEF cells

(* A sequence made element by element.                                      *)
LEMMA MadeSeq ==
  ASSUME NEW S, NEW n \in Nat, NEW new \in [1..n -> S]
  PROVE  new \in Seq(S) /\ Len(new) = n
<1>1. new \in Seq(S)
  BY SeqDef
<1>2. QED
  BY <1>1, LenProperties

LEMMA ZeroIs ==
  ASSUME NEW r, Owned(r), NEW s, s = charArray_Zero(r)
  PROVE  Zeroed(r, s)
<1> DEFINE freed == SizedCells(r, 2..ColMax)
           firsts == {r.array[i][1] : i \in InUse(r)}
           Kept(row) == IF row = NullRow THEN row
                        ELSE [j \in 1..ColMax |-> IF j = 1 \/ row[j] \notin freed THEN row[j] ELSE Null]
           Sizes(row) == IF row = NullRow THEN row ELSE [j \in 1..ColMax |-> j = 1 /\ row[1]]
           array == [i \in DOMAIN r.array |-> Kept(r.array[i])]
           sizes == [i \in DOMAIN r.buffersize |-> Sizes(r.buffersize[i])]
           text == [a \in DOMAIN r.text |-> IF a \in freed THEN Freed
                                            ELSE IF a \in firsts THEN <<>> ELSE r.text[a]]
<1>1. r \in Records /\ Sized(r)
  BY DEF Owned
<1>2. s = [r EXCEPT !.array = array, !.buffersize = sizes, !.text = text, !.row_amount = 0]
  BY DEF charArray_Zero
<1>3. \A i \in InUse(r), j \in 1..ColMax : r.array[i][j] # Null => (r.array[i][j] \in freed <=> j >= 2)
  <2>1. ASSUME NEW two, two = 2
        PROVE  \A i \in InUse(r), j \in 1..ColMax :
                 r.array[i][j] # Null => (r.array[i][j] \in SizedCells(r, two..ColMax) <=> j >= two)
    <3>1. two \in 1..ColMax \cup {ColMax + 1}
      BY <2>1, Constants
    <3>2. QED
      BY <3>1, SizedCellsAre
  <2>2. QED
    BY <2>1
<1> HIDE DEF freed
<1>4. /\ DOMAIN r.array = 1..Len(r.array) /\ Len(r.array) \in Nat
      /\ DOMAIN r.buffersize = 1..Len(r.buffersize) /\ Len(r.buffersize) = Len(r.array)
      /\ InUse(r) \subseteq 1..Len(r.array)
      /\ \A i \in 1..Len(r.array) : i \in InUse(r) <=> r.array[i] # NullRow
      /\ \A i \in InUse(r) : r.array[i] \in CellRows
      /\ r.text \in [1..Cells -> Texts \cup {Freed}]
      /\ r.buffersize \in Seq(RowsOf(BOOLEAN))
  BY <1>1, FieldsAre DEF Sized
<1>5. ASSUME NEW i \in InUse(r)
      PROVE  /\ array[i] \in [1..ColMax -> 0..Cells]
             /\ \A j \in 1..ColMax : array[i][j] = IF j = 1 \/ r.array[i][j] \notin freed
                                                   THEN r.array[i][j] ELSE Null
  <2>1. array[i] = [j \in 1..ColMax |-> IF j = 1 \/ r.array[i][j] \notin freed THEN r.array[i][j] ELSE Null]
    BY <1>4
  <2>2. \A j \in 1..ColMax : r.array[i][j] \in 0..Cells
    BY <1>4 DEF CellRows
  <2>3. Null \in 0..Cells
    BY Constants
  <2> HIDE DEF array
  <2>4. QED
    BY <2>1, <2>2, <2>3
<1>6. ASSUME NEW i \in 1..Len(r.array)
      PROVE  array[i] \in RowsOf(0..Cells) /\ (array[i] = NullRow <=> i \notin InUse(r))
  <2>1. CASE i \in InUse(r)
    <3>1. array[i] \in [1..ColMax -> 0..Cells]
      BY <1>5, <2>1
    <3> HIDE DEF array
    <3>2. QED
      BY <2>1, <3>1, RowsDiffer DEF RowsOf
  <2>2. CASE i \notin InUse(r)
    <3>1. array[i] = NullRow
      BY <1>4, <2>2
    <3> HIDE DEF array
    <3>2. QED
      BY <2>2, <3>1 DEF RowsOf
  <2>3. QED
    BY <2>1, <2>2
<1>7. array \in Seq(RowsOf(0..Cells)) /\ Len(array) = Len(r.array)
  <2>1. \A i \in 1..Len(r.array) : Kept(r.array[i]) = array[i]
    BY <1>4
  <2>2. array \in [1..Len(r.array) -> RowsOf(0..Cells)]
    BY <1>4, <1>6, <2>1
  <2> HIDE DEF array
  <2>3. QED
    BY <1>4, <2>2, MadeSeq
<1>8. ASSUME NEW i \in 1..Len(r.buffersize)
      PROVE  /\ sizes[i] \in RowsOf(BOOLEAN)
             /\ sizes[i] = NullRow <=> r.buffersize[i] = NullRow
             /\ r.buffersize[i] # NullRow => (sizes[i][1] <=> r.buffersize[i][1])
  <2>1. CASE r.buffersize[i] = NullRow
    <3>1. sizes[i] = NullRow
      BY <1>4, <2>1
    <3> HIDE DEF sizes
    <3>2. QED
      BY <2>1, <3>1 DEF RowsOf
  <2>2. CASE r.buffersize[i] # NullRow
    <3>1. sizes[i] = [j \in 1..ColMax |-> j = 1 /\ r.buffersize[i][1]]
      BY <1>4, <2>2
    <3> HIDE DEF sizes
    <3>2. sizes[i] \in [1..ColMax -> BOOLEAN] /\ (sizes[i][1] <=> r.buffersize[i][1])
      BY <3>1, Constants
    <3>3. sizes[i] # NullRow
      BY <3>2, RowsDiffer
    <3>4. QED
      BY <2>2, <3>2, <3>3 DEF RowsOf
  <2>3. QED
    BY <2>1, <2>2
<1>9. sizes \in Seq(RowsOf(BOOLEAN)) /\ Len(sizes) = Len(r.buffersize)
  <2>1. \A i \in 1..Len(r.buffersize) : Sizes(r.buffersize[i]) = sizes[i]
    BY <1>4
  <2>2. sizes \in [1..Len(r.buffersize) -> RowsOf(BOOLEAN)]
    BY <1>4, <1>8, <2>1
  <2>3. Len(r.buffersize) \in Nat
    BY <1>4
  <2> HIDE DEF sizes
  <2>4. QED
    BY <2>2, <2>3, MadeSeq
<1>10. text \in [1..Cells -> Texts \cup {Freed}]
  BY <1>4, Constants
<1>11. ASSUME NEW i \in InUse(r), NEW j \in 1..ColMax, array[i][j] # Null
       PROVE  /\ j = 1 /\ array[i][j] = r.array[i][j]
              /\ (sizes[i][j] <=> r.buffersize[i][j])
              /\ text[array[i][j]] = <<>>
  <2>1. r.array[i][j] # Null /\ (j = 1 \/ r.array[i][j] \notin freed) /\ array[i][j] = r.array[i][j]
    <3> HIDE DEF array
    <3>1. QED
      BY <1>5, <1>11
  <2>2. j = 1 /\ r.array[i][j] \notin freed
    BY <1>3, <2>1
  <2>3. r.array[i][j] \in firsts
    BY <2>2
  <2>4. r.array[i][j] \in 1..Cells
    <3>1. r.array[i][j] \in 0..Cells
      BY <1>4 DEF CellRows
    <3>2. QED
      BY <2>1, <3>1, Constants
  <2>5. text[r.array[i][j]] = <<>>
    BY <1>4, <2>2, <2>3, <2>4
  <2>6. i \in 1..Len(r.buffersize) /\ r.buffersize[i] # NullRow
    BY <1>1, <1>4 DEF Sized
  <2> HIDE DEF array, sizes, text
  <2>7. QED
    BY <1>8, <2>1, <2>2, <2>5, <2>6
<1> HIDE DEF array, sizes, text
<1>12. /\ s \in Records /\ s.array = array /\ s.buffersize = sizes /\ s.text = text
       /\ s.row_amount = 0 /\ s.ok = r.ok /\ s.starved = r.starved
  <2>1. s \in Records
    <3>1. array \in Seq(RowsOf(0..Cells)) /\ sizes \in Seq(RowsOf(BOOLEAN))
      BY <1>7, <1>9
    <3>2. PICK p : p = [r EXCEPT !.array = array, !.buffersize = sizes]
      OBVIOUS
    <3>3. p \in Records
      BY <1>1, <3>1, <3>2 DEF Records
    <3>4. PICK q : q = [p EXCEPT !.text = text]
      OBVIOUS
    <3>5. q \in Records
      BY <1>10, <3>3, <3>4 DEF Records
    <3>6. PICK none \in Nat : none = 0
      OBVIOUS
    <3>7. s = [q EXCEPT !.row_amount = none]
      BY <1>2, <3>2, <3>4, <3>6
    <3>8. QED
      BY <3>5, <3>7 DEF Records
  <2>2. s.array = array /\ s.buffersize = sizes /\ s.text = text
    BY <1>1, <1>2 DEF Records
  <2>3. s.row_amount = 0 /\ s.ok = r.ok /\ s.starved = r.starved
    BY <1>1, <1>2 DEF Records
  <2>4. QED
    BY <2>1, <2>2, <2>3
<1>13. InUse(s) = InUse(r)
  <2>1. \A i \in 1..Len(s.array) : i \in InUse(s) <=> s.array[i] # NullRow
    BY <1>12, FieldsAre
  <2>2. InUse(s) \subseteq 1..Len(s.array)
    BY <1>12, FieldsAre
  <2>3. Len(s.array) = Len(r.array)
    BY <1>7, <1>12
  <2>4. QED
    BY <1>4, <1>6, <1>12, <2>1, <2>2, <2>3
<1>14. QED
  <2>1. \A i \in InUse(r), j \in 1..ColMax :
          s.array[i][j] # Null =>
            /\ j = 1 /\ s.array[i][j] = r.array[i][j]
            /\ (s.buffersize[i][j] <=> r.buffersize[i][j])
            /\ s.text[s.array[i][j]] = <<>>
    BY <1>11, <1>12
  <2>2. Len(s.array) = Len(r.array) /\ Len(s.buffersize) = Len(r.buffersize)
    BY <1>7, <1>9, <1>12
  <2>3. \A i \in 1..Len(r.array) : s.buffersize[i] = NullRow <=> r.buffersize[i] = NullRow
    BY <1>4, <1>8, <1>12
  <2>4. QED
    BY <1>12, <1>13, <2>1, <2>2, <2>3 DEF Zeroed

LEMMA ZeroShrinks ==
  ASSUME NEW r, Owned(r), NEW s, s = charArray_Zero(r)
  PROVE  Shrinks(r, s)
BY ZeroIs, ZeroedShrinks

LEMMA UpdateArrayOwned ==
  ASSUME NEW r, Owned(r), NEW valid \in Seq(Seq(Texts) \ {<<>>}), NEW failing \in Int,
         NEW s, s = charArray_updateArray(r, valid, failing)
  PROVE  Owned(s) /\ Safe(r, s)
<1>1. PICK z : z = charArray_Zero(r)
  OBVIOUS
<1>2. Owned(z) /\ Safe(r, z)
  BY <1>1, ZeroShrinks DEF Shrinks
<1>3. s = charArray_appendArray(z, valid, failing)
  BY <1>1 DEF charArray_updateArray
<1>4. Grows(z, s)
  BY <1>2, <1>3, AppendArrayGrows
<1>5. QED
  BY <1>2, <1>4 DEF Grows, Rewrites, Safe

-----------------------------------------------------------------------------
(* Insertion behind a row.                                                  *)
LEMMA NotedAhead ==
  ASSUME NEW r, NEW s, Noted(r, s), NEW m, NEW L, Ahead(r, m, L)
  PROVE  Ahead(s, m, L)
BY DEF Noted, SameRows, Ahead, Line, Used

LEMMA InsertBehindGrows ==
  ASSUME NEW r, Owned(r), NEW row \in Nat, NEW lines \in Seq(Texts), NEW failing \in Int, NEW L,
         NEW s, s = InsertBehind(r, row, lines, failing)
  PROVE  Grows(r, s) /\ (r.ok /\ Ahead(r, row, L) => s.starved \/ Ahead(s, row + Len(lines), L))
<1>1. PICK n : n = Len(lines)
  OBVIOUS
<1>2. n \in Nat /\ DOMAIN lines = 1..n /\ \A k \in 1..n : lines[k] \in Texts
  BY <1>1, LenProperties
<1>4. PICK g : /\ s = g[1..n]
               /\ g[{}] = r
               /\ \A k \in 1..n : g[1..k] = charArray_insert(Again(g[1..k - 1]), row + k - 1,
                                                            lines[k], failing)
  <2>1. \E g : InsertedBy(g, r, row, lines, failing, n)
    BY <1>2, InsertionsAre
  <2>2. QED
    BY <2>1 DEF InsertedBy
<1> DEFINE Far(t, k) == /\ Grows(r, t)
                        /\ r.ok /\ Ahead(r, row, L) => t.starved \/ Ahead(t, row + k, L)
           T == [k \in Nat |-> {t \in Records : Far(t, k)}]
<1>5. g[{}] \in T[0]
  <2>1. Far(r, 0)
    BY GrowsSelf
  <2> HIDE DEF Far
  <2>2. QED
    BY <1>4, <2>1 DEF Owned
<1>6. ASSUME NEW k \in 1..n, g[1..k - 1] \in T[k - 1]
      PROVE  g[1..k] \in T[k]
  <2>1. PICK t : t = g[1..k - 1]
    OBVIOUS
  <2>2. k - 1 \in Nat /\ k \in Nat
    OBVIOUS
  <2>3. Far(t, k - 1)
    BY <1>6, <2>1, <2>2
  <2>4. PICK m \in Nat : m = row + (k - 1)
    BY <2>2
  <2>5. PICK a : a = Again(t)
    OBVIOUS
  <2>6. Owned(t) /\ t \in Records
    BY <2>3 DEF Grows, Rewrites, Owned
  <2>7. Grows(t, a) /\ Owned(a) /\ (t.ok => Fine(a)) /\ Noted(t, a)
    BY <2>5, <2>6, AgainOwned, AgainNotes
  <2>8. PICK u : u = charArray_insert(a, m, lines[k], failing)
    OBVIOUS
  <2>9. lines[k] \in Texts
    BY <1>2
  <2>10. /\ Grows(a, u)
         /\ \A M : Fine(a) /\ Ahead(a, m, M) => u.starved \/ Ahead(u, m + 1, M)
    BY <2>7, <2>8, <2>9, InsertGrows
  <2>11. Grows(r, u) /\ u \in Records
    <3>1. Grows(t, u)
      BY <2>7, <2>10, GrowsOn DEF Grows
    <3>2. Grows(r, u)
      BY <2>3, <3>1, GrowsOn DEF Grows
    <3>3. QED
      BY <3>2 DEF Grows, Rewrites, Owned
  <2>12. ASSUME r.ok, Ahead(r, row, L)
         PROVE  u.starved \/ Ahead(u, row + k, L)
    <3>1. t.starved \/ Ahead(t, m, L)
      BY <2>3, <2>4, <2>12
    <3>2. t.starved => a.starved
      BY <2>7 DEF Noted
    <3>3. a.starved => u.starved
      BY <2>10 DEF Grows, Rewrites, Safe
    <3>4. t.ok \/ t.starved
      BY <2>3, <2>12 DEF Grows, Rewrites, Safe
    <3>5. ASSUME ~ t.starved
          PROVE  u.starved \/ Ahead(u, m + 1, L)
      <4>1. Ahead(a, m, L)
        BY <2>7, <3>1, <3>5, NotedAhead
      <4>2. Fine(a)
        BY <2>7, <3>4, <3>5
      <4>3. QED
        BY <2>10, <4>1, <4>2
    <3>6. m + 1 = row + k
      BY <2>4
    <3>7. QED
      BY <3>2, <3>3, <3>5, <3>6
  <2>13. u = g[1..k]
    <3>1. row + k - 1 = m
      BY <2>4
    <3>2. g[1..k] = charArray_insert(Again(g[1..k - 1]), row + k - 1, lines[k], failing)
      BY <1>4
    <3>3. QED
      BY <2>1, <2>5, <2>8, <3>1, <3>2
  <2>14. Far(u, k)
    BY <2>11, <2>12
  <2> HIDE DEF Far
  <2>15. QED
    BY <2>2, <2>11, <2>13, <2>14
<1>7. s \in T[n]
  <2> HIDE DEF T
  <2>1. QED
    BY <1>2, <1>4, <1>5, <1>6, FoldReaches
<1>8. Far(s, n)
  <2> HIDE DEF Far
  <2>1. QED
    BY <1>2, <1>7
<1>9. QED
  BY <1>1, <1>8

-----------------------------------------------------------------------------
(* The pieces of a line, and what is made of them.                          *)
Headed(p, e, rest) ==
  /\ p \in Seq(Texts) /\ p # <<>> /\ Len(p) = Len(rest) + 1 /\ p[1] = e
  /\ \A k \in 1..Len(rest) : p[k + 1] = rest[k]

LEMMA HeadFirst ==
  ASSUME NEW e \in Texts, NEW rest \in Seq(Texts)
  PROVE  Headed(<<e>> \o rest, e, rest)
<1> SUFFICES ASSUME NEW p, p = <<e>> \o rest
             PROVE  Headed(p, e, rest)
  OBVIOUS
<1>1. PICK one : one = <<e>>
  OBVIOUS
<1>2. one \in Seq(Texts) /\ Len(one) = 1 /\ one[1] = e /\ p = one \o rest
  BY <1>1
<1>3. /\ p \in Seq(Texts) /\ Len(p) = 1 + Len(rest) /\ Len(rest) \in Nat
      /\ \A k \in 1..1 + Len(rest) : p[k] = IF k <= 1 THEN one[k] ELSE rest[k - 1]
  BY <1>2, ConcatProperties
<1>4. p # <<>>
  BY <1>3
<1>5. p[1] = e
  BY <1>2, <1>3
<1>6. ASSUME NEW k \in 1..Len(rest), NEW l, l = k + 1
      PROVE  p[l] = rest[k]
  <2>1. l \in 1..1 + Len(rest) /\ ~ (l <= 1) /\ l - 1 = k
    BY <1>3, <1>6
  <2>2. QED
    BY <1>3, <2>1
<1>7. QED
  BY <1>3, <1>4, <1>5, <1>6 DEF Headed

Pieces(x, tag) == Split(x, tag, FALSE)

LEMMA SplitFirst ==
  ASSUME NEW x \in Texts, x # <<>>, NEW tag \in Texts, tag # <<>>, NEW pieces, pieces = Pieces(x, tag)
  PROVE  pieces \in Seq(Texts) /\ pieces # <<>> /\ Len(pieces[1]) <= Len(x)
<1>1. PICK at : at = strstr(x, tag)
  OBVIOUS
<1>2. at \in Nat
  BY <1>1, StrstrIs
<1>3. PICK more : more = Pieces(BehindMark(x, tag), tag)
  OBVIOUS
<1>4. pieces \in Seq(Texts)
  BY SplitSteps DEF Pieces
<1>5. more \in Seq(Texts)
  BY <1>1, <1>3, PiecesAre DEF Pieces
<1>6. CASE at = 0
  <2>1. pieces = <<x>> \o <<>>
    BY <1>1, <1>6, PiecesAre DEF Pieces
  <2>2. <<>> \in Seq(Texts)
    OBVIOUS
  <2>3. Headed(pieces, x, <<>>)
    BY <2>1, <2>2, HeadFirst, Zenon
  <2>4. pieces[1] = x /\ pieces # <<>>
    BY <2>3 DEF Headed
  <2>5. Len(x) \in Nat
    BY DEF Texts
  <2>6. QED
    BY <1>4, <2>4, <2>5
<1>7. CASE at # 0
  <2>1. PICK rest : rest = IF BehindMark(x, tag) = <<>> /\ Before(x, at) # <<>>
                           THEN << <<>> >> \o <<>> ELSE more
    OBVIOUS
  <2>2. pieces = <<Before(x, at)>> \o rest
    BY <1>1, <1>3, <1>7, <2>1, PiecesAre DEF Pieces
  <2>3. Before(x, at) \in Texts /\ Len(Before(x, at)) = at - 1
    BY <1>1, <1>2, <1>7, LineIsParts
  <2>4. rest \in Seq(Texts)
    <3>1. << <<>> >> \o <<>> \in Seq(Texts)
      BY Constants
    <3>2. QED
      BY <1>5, <2>1, <3>1
  <2>5. pieces[1] = Before(x, at) /\ pieces # <<>>
    <3>1. ASSUME NEW b \in Texts
          PROVE  (<<b>> \o rest)[1] = b /\ <<b>> \o rest # <<>>
      BY <2>4, ConcatProperties
    <3>2. QED
      BY <2>2, <2>3, <3>1
  <2>6. at <= Len(x) + 1
    <3>1. at + Len(tag) - 1 <= Len(x)
      BY <1>1, <1>2, <1>7, LineIsParts
    <3>2. Len(tag) \in Nat /\ Len(x) \in Nat
      BY DEF Texts
    <3>3. QED
      BY <1>2, <3>1, <3>2
  <2>7. Len(x) \in Nat /\ at - 1 <= Len(x)
    <3>1. Len(x) \in Nat
      BY DEF Texts
    <3>2. QED
      BY <1>2, <2>6, <3>1
  <2>8. QED
    BY <1>4, <2>3, <2>5, <2>7
<1>8. QED
  BY <1>6, <1>7

LEMMA PiecesFit ==
  ASSUME NEW line \in Texts, NEW needle \in Texts, needle # <<>>, Has(line, needle),
         NEW pieces, pieces = Pieces(line, needle)
  PROVE  /\ pieces \in Seq(Texts) /\ pieces # <<>>
         /\ Len(pieces) = 1 => Len(pieces[1]) <= Len(line) - Len(needle)
         /\ Len(pieces) = 2 => Len(pieces[1]) + Len(pieces[2]) <= Len(line) - Len(needle)
<1>1. PICK at : at = strstr(line, needle)
  OBVIOUS
<1>2. at \in Nat /\ at > 0
  BY <1>1, StrstrIs DEF Has
<1>3. /\ Before(line, at) \in Texts /\ Len(Before(line, at)) = at - 1
      /\ From(line, at + Len(needle)) \in Texts
      /\ Len(From(line, at + Len(needle))) = Len(line) - (at - 1) - Len(needle)
      /\ at + Len(needle) - 1 <= Len(line)
  BY <1>1, <1>2, LineIsParts
<1>4. PICK before : before = Before(line, at)
  OBVIOUS
<1>5. PICK behind : behind = BehindMark(line, needle)
  OBVIOUS
<1>6. /\ before \in Texts /\ Len(before) = at - 1 /\ behind \in Texts
      /\ Len(behind) = Len(line) - (at - 1) - Len(needle)
      /\ Len(line) \in Nat /\ Len(needle) \in Nat
  BY <1>1, <1>3, <1>4, <1>5 DEF BehindMark, Texts
<1>7. line # <<>>
  <2>1. Len(needle) \in Nat \ {0}
    BY EmptySeq DEF Texts
  <2>2. Len(line) > 0
    BY <1>2, <1>3, <1>6, <2>1
  <2>3. QED
    BY <2>2
<1>8. PICK more : more = Pieces(behind, needle)
  OBVIOUS
<1>9. /\ more \in Seq(Texts)
      /\ pieces = <<before>> \o (IF behind = <<>> /\ before # <<>> THEN << <<>> >> \o <<>> ELSE more)
  <2>1. at # 0
    BY <1>2
  <2>2. /\ Split(BehindMark(line, needle), needle, FALSE) \in Seq(Texts)
        /\ Split(line, needle, FALSE) =
             <<Before(line, at)>>
               \o (IF BehindMark(line, needle) = <<>> /\ Before(line, at) # <<>>
                   THEN << <<>> >> \o <<>> ELSE Split(BehindMark(line, needle), needle, FALSE))
    BY <1>1, <1>7, <2>1, PiecesAre DEF Pieces
  <2>3. QED
    BY <1>4, <1>5, <1>8, <2>2 DEF Pieces
<1>10. behind # <<>> => more # <<>> /\ Len(more[1]) <= Len(behind)
  BY <1>6, <1>8, SplitFirst
<1>11. behind = <<>> => more = <<>>
  BY <1>6, <1>8, PiecesAre DEF Pieces
<1>12. PICK rest : rest = IF behind = <<>> /\ before # <<>> THEN << <<>> >> \o <<>> ELSE more
  OBVIOUS
<1>13. rest \in Seq(Texts) /\ (Len(rest) = 1 => Len(rest[1]) <= Len(behind))
  <2>1. CASE behind = <<>> /\ before # <<>>
    <3>1. PICK none : none = <<>>
      OBVIOUS
    <3>2. none \in Texts /\ none \in Seq(Texts) /\ Len(none) = 0
      BY <3>1, Constants
    <3>3. rest = <<none>> \o none
      BY <1>12, <2>1, <3>1, Zenon
    <3>7. Headed(rest, none, none)
      BY <3>2, <3>3, HeadFirst, Zenon
    <3>4. rest \in Seq(Texts) /\ rest[1] = none
      BY <3>7 DEF Headed
    <3>5. behind = none
      BY <2>1, <3>1
    <3>6. QED
      BY <3>2, <3>4, <3>5
  <2>2. CASE ~ (behind = <<>> /\ before # <<>>)
    <3>1. rest = more
      BY <1>12, <2>2, Zenon
    <3>2. Len(more) = 1 => behind # <<>>
      BY <1>11
    <3>3. QED
      BY <1>9, <1>10, <3>1, <3>2
  <2>3. QED
    BY <2>1, <2>2
<1>14. /\ pieces \in Seq(Texts) /\ pieces # <<>> /\ pieces[1] = before
       /\ Len(pieces) = Len(rest) + 1 /\ (Len(rest) = 1 => pieces[2] = rest[1])
  <2>1. pieces = <<before>> \o rest
    BY <1>9, <1>12
  <2>2. /\ pieces \in Seq(Texts) /\ pieces # <<>> /\ pieces[1] = before
        /\ Len(pieces) = Len(rest) + 1
        /\ \A k \in 1..Len(rest) : pieces[k + 1] = rest[k]
    <3>1. Headed(pieces, before, rest)
      BY <1>6, <1>13, <2>1, HeadFirst, Zenon
    <3>2. QED
      BY <3>1 DEF Headed
  <2>3. ASSUME Len(rest) = 1
        PROVE  pieces[2] = rest[1]
    <3>1. 1 \in 1..Len(rest) /\ 1 + 1 = 2
      BY <2>3
    <3>2. pieces[1 + 1] = rest[1]
      BY <2>2, <3>1
    <3>3. QED
      BY <3>1, <3>2
  <2>4. QED
    BY <2>2, <2>3
<1>15. PICK last : last = Len(rest[1])
  OBVIOUS
<1>16. Len(rest) = 1 => last \in Nat /\ last <= Len(behind)
  <2>1. ASSUME Len(rest) = 1
        PROVE  rest[1] \in Texts
    <3>1. 1 \in 1..Len(rest)
      BY <2>1
    <3>2. QED
      BY <1>13, <3>1, ElementOfSeq
  <2>2. QED
    BY <1>13, <1>15, <2>1 DEF Texts
<1>17. ASSUME NEW n, n = Len(line) - Len(needle)
       PROVE  /\ Len(pieces) = 1 => Len(before) <= n
              /\ Len(rest) = 1 => Len(before) + last <= n
  <2>1. at + Len(needle) - 1 <= Len(line)
    BY <1>3
  <2>2. PICK l \in Nat, m \in Nat, b \in Nat : l = Len(line) /\ m = Len(needle) /\ b = Len(before)
    BY <1>2, <1>6
  <2>3. b = at - 1 /\ at + m - 1 <= l /\ n = l - m
    BY <1>6, <1>17, <2>1, <2>2
  <2>4. b <= n
    BY <1>2, <2>3
  <2>5. ASSUME Len(rest) = 1
        PROVE  b + last <= n
    <3>1. last \in Nat /\ last <= l - (at - 1) - m
      BY <1>6, <1>16, <2>2, <2>5
    <3>2. QED
      BY <1>2, <2>3, <3>1
  <2>6. QED
    BY <2>2, <2>4, <2>5
<1>18. Len(rest) \in Nat
  BY <1>13
<1>19. Len(pieces) = 2 => Len(rest) = 1
  <2>1. PICK k \in Nat : k = Len(rest)
    BY <1>18
  <2>2. Len(pieces) = k + 1
    BY <1>14, <2>1
  <2>3. ASSUME k + 1 = 2
        PROVE  k = 1
    BY <2>3
  <2>4. QED
    BY <2>1, <2>2, <2>3
<1>20. QED
  BY <1>14, <1>15, <1>17, <1>19

LEMMA JoinedIs ==
  ASSUME NEW pieces \in Seq(Texts), pieces # <<>>, NEW mark \in Texts, NEW t, t = Joined(pieces, mark)
  PROVE  /\ t \in Texts
         /\ Len(pieces) = 2 => Len(t) = Len(pieces[1]) + (Len(mark) + Len(pieces[2]))
<1>1. PICK n \in Nat : n = Len(pieces) - 1
  <2>1. Len(pieces) \in Nat \ {0}
    BY EmptySeq
  <2>2. QED
    BY <2>1
<1>2. Len(pieces) = n + 1
  <2>1. Len(pieces) \in Nat
    OBVIOUS
  <2>2. QED
    BY <1>1, <2>1
<1>3. \A k \in 1..n + 1 : pieces[k] \in Texts
  BY <1>2, ElementOfSeq
<1>4. PICK f : f = [k \in 1..n |-> mark \o pieces[k + 1]]
  OBVIOUS
<1>5. f \in [1..n -> Texts]
  <2>1. ASSUME NEW k \in 1..n
        PROVE  mark \o pieces[k + 1] \in Texts
    <3>1. pieces[k + 1] \in Texts
      BY <1>3
    <3>2. QED
      BY <3>1, TextsJoin
  <2>2. QED
    BY <1>4, <2>1
<1>6. f \in Seq(Texts) /\ Len(f) = n
  BY <1>5, MadeSeq
<1>7. PICK flat : flat = FlattenSeq(f)
  OBVIOUS
<1>8. flat \in Texts
  BY <1>6, <1>7, FlattenType
<1>9. t = pieces[1] \o flat
  <2>1. Head(pieces) = pieces[1]
    BY HeadTailProperties
  <2>2. QED
    BY <1>1, <1>4, <1>7, <2>1 DEF Joined
<1>10. 1 \in 1..n + 1
  OBVIOUS
<1>11. t \in Texts /\ Len(t) = Len(pieces[1]) + Len(flat)
  BY <1>3, <1>8, <1>9, <1>10, TextsJoin
<1>12. ASSUME n = 1
       PROVE  Len(flat) = Len(mark) + Len(pieces[2])
  <2>1. PICK none : none = <<>>
    OBVIOUS
  <2>2. none \in Seq(Texts) /\ Len(none) = 0 /\ none \in Texts
    BY <2>1, Constants
  <2>3. FlattenSeq(none) = none
    BY <2>1 DEF FlattenSeq
  <2>4. PICK x : x = f[1]
    OBVIOUS
  <2>5. x \in Texts /\ Len(x) = Len(mark) + Len(pieces[2])
    <3>1. x = mark \o pieces[2]
      BY <1>4, <1>12, <2>4
    <3>2. pieces[2] \in Texts
      BY <1>3, <1>12
    <3>3. QED
      BY <3>1, <3>2, TextsJoin
  <2>6. Len(f) = Len(none) + 1 /\ \A i \in 1..Len(none) : f[i + 1] = none[i]
    BY <1>6, <1>12, <2>2
  <2>7. flat = x \o FlattenSeq(none)
    BY <1>6, <1>7, <2>2, <2>4, <2>5, <2>6, FlattenHead
  <2>8. Len(flat) = Len(x) + Len(none)
    BY <2>2, <2>3, <2>5, <2>7, TextsJoin
  <2>9. Len(x) \in Nat
    BY <2>5 DEF Texts
  <2>10. QED
    BY <2>2, <2>5, <2>8, <2>9
<1>13. ASSUME Len(pieces) = 2
       PROVE  n = 1
  <2>1. PICK l : l = Len(pieces)
    OBVIOUS
  <2>2. l = n + 1 /\ l = 2
    BY <1>2, <1>13, <2>1
  <2>3. QED
    BY <2>2
<1>14. QED
  BY <1>11, <1>12, <1>13

(* One needle, replaced, leaves a line of the length TooLong asks about.    *)
LEMMA RejoinedFits ==
  ASSUME NEW line \in Texts, NEW needle \in Texts, needle # <<>>, Has(line, needle),
         NEW replacement \in Texts, NEW pieces, pieces = Pieces(line, needle),
         NEW joined, joined = IF Len(pieces) = 1 THEN replacement \o pieces[1]
                              ELSE Joined(pieces, replacement)
  PROVE  /\ joined \in Texts
         /\ Len(pieces) > 2 \/ Len(joined) <= Len(replacement) + Len(line) - Len(needle)
<1>1. /\ pieces \in Seq(Texts) /\ pieces # <<>>
      /\ Len(pieces) = 1 => Len(pieces[1]) <= Len(line) - Len(needle)
      /\ Len(pieces) = 2 => Len(pieces[1]) + Len(pieces[2]) <= Len(line) - Len(needle)
  BY PiecesFit
<1>2. PICK n \in Nat : n = Len(pieces) /\ n # 0
  <2>1. Len(pieces) \in Nat \ {0}
    BY <1>1, EmptySeq
  <2>2. QED
    BY <2>1
<1>3. \A k \in 1..n : pieces[k] \in Texts
  BY <1>1, <1>2, ElementOfSeq
<1>4. PICK l \in Nat, m \in Nat, c \in Nat : l = Len(line) /\ m = Len(needle) /\ c = Len(replacement)
  BY DEF Texts
<1>5. CASE n = 1
  <2>1. joined = replacement \o pieces[1]
    BY <1>2, <1>5
  <2>2. pieces[1] \in Texts
    BY <1>3, <1>5
  <2>3. PICK a \in Nat : a = Len(pieces[1])
    BY <2>2 DEF Texts
  <2>4. joined \in Texts /\ Len(joined) = c + a
    BY <1>4, <2>1, <2>2, <2>3, TextsJoin
  <2>5. a <= l - m
    BY <1>1, <1>2, <1>4, <1>5, <2>3
  <2>6. QED
    BY <1>4, <2>4, <2>5
<1>6. CASE n # 1
  <2>1. joined = Joined(pieces, replacement)
    BY <1>2, <1>6
  <2>2. joined \in Texts /\ (n = 2 => Len(joined) = Len(pieces[1]) + (c + Len(pieces[2])))
    BY <1>1, <1>2, <1>4, <2>1, JoinedIs
  <2>3. ASSUME n = 2
        PROVE  Len(joined) <= c + l - m
    <3>1. pieces[1] \in Texts /\ pieces[2] \in Texts
      BY <1>3, <2>3
    <3>2. PICK a \in Nat, b \in Nat : a = Len(pieces[1]) /\ b = Len(pieces[2])
      BY <3>1 DEF Texts
    <3>3. a + b <= l - m /\ Len(joined) = a + (c + b)
      BY <1>1, <1>2, <1>4, <2>2, <2>3, <3>2
    <3>4. QED
      BY <1>4, <3>3
  <2>4. n = 2 \/ n > 2
    BY <1>2, <1>6
  <2>5. QED
    BY <1>2, <1>4, <2>2, <2>3, <2>4
<1>7. QED
  BY <1>5, <1>6

-----------------------------------------------------------------------------
(* Substitution.  Where a line would grow longer than its cell.             *)
Overruns(line, needle, replacement) ==
  Len(Pieces(line, needle)) > 2 \/ Fills(line, needle, replacement)

(* Rows the search has passed.                                              *)
Passed(line, needle, replacement) ==
  IF TooLong(line, needle, replacement) THEN Len(Pieces(line, needle)) ELSE 0

(* What a substitution does: whatever happens, it keeps the pointers.       *)
Keeps(r, s) == Owned(s) /\ Stays(r, s) /\ (r.starved => s.starved)

LEMMA LineIs ==
  ASSUME NEW r, Owned(r), NEW row \in Used(r)
  PROVE  /\ Line(r, row) \in Texts /\ r.array[row][1] \in 1..Cells
         /\ row \in Nat \ {0} /\ row <= r.row_amount
<1>1. Used(r) \subseteq InUse(r) /\ r.row_amount \in Nat
  BY HeldIs, FieldsAre DEF Owned
<1>2. r.array[row][1] # Null
  BY DEF Owned, Filled
<1>3. r.array[row][1] \in 0..Cells
  BY <1>1, FieldsAre, Constants DEF Owned
<1>4. r.text[r.array[row][1]] \in Texts
  BY <1>1, <1>2, Constants DEF Owned, Alive
<1>5. QED
  BY <1>1, <1>2, <1>3, <1>4, Constants DEF Line, Used

LEMMA ReplaceAhead ==
  ASSUME NEW r, Owned(r), NEW row \in Nat \ {0}, NEW string \in Texts,
         NEW s, s = charArray_replace(r, row, string), NEW L
  PROVE  Rewrites(r, s) /\ s.ok = r.ok /\ (Ahead(r, row, L) => Ahead(s, row, L))
<1>1. /\ Rewrites(r, s) /\ s.ok = r.ok /\ s.row_amount = r.row_amount
      /\ \A m \in Nat : \A L1 : m >= row /\ Ahead(r, m, L1) => Ahead(s, m, L1)
  BY ReplaceRewrites
<1>2. row \in Nat /\ row >= row
  OBVIOUS
<1>3. QED
  BY <1>1, <1>2

LEMMA SubstituteRowKeeps ==
  ASSUME NEW r, Owned(r), r.ok, NEW row \in Used(r), NEW needle \in Texts, needle # <<>>,
         NEW replacement \in Texts, NEW line, line = Line(r, row), Has(line, needle),
         NEW failing \in Int, NEW L, NEW s, s = SubstituteRow(r, row, needle, replacement, failing)
  PROVE  /\ Keeps(r, s)
         /\ s.ok \/ s.starved \/ Overruns(line, needle, replacement)
         /\ Ahead(r, row, L) => ~ s.ok \/ s.starved \/ Ahead(s, row + Passed(line, needle, replacement), L)
<1>1. line \in Texts /\ r.array[row][1] \in 1..Cells /\ row \in Nat \ {0} /\ row <= r.row_amount
  BY LineIs
<1>2. r \in Records
  BY DEF Owned
<1>3. PICK pieces : pieces = Pieces(line, needle)
  OBVIOUS
<1>4. pieces \in Seq(Texts) /\ pieces # <<>>
  BY <1>1, <1>3, PiecesFit
<1>5. CASE TooLong(line, needle, replacement)
  <2>1. pieces[1] \in Texts /\ Tail(pieces) \in Seq(Texts) /\ Len(Tail(pieces)) = Len(pieces) - 1
    BY <1>4, TailIs
  <2>2. PICK t : t = charArray_replace(r, row, pieces[1])
    OBVIOUS
  <2>3. /\ Rewrites(r, t) /\ t.ok = r.ok
        /\ Ahead(r, row, L) => Ahead(t, row, L)
    <3>1. PICK p \in Texts : p = pieces[1]
      BY <2>1
    <3>2. t = charArray_replace(r, row, p)
      BY <2>2, <3>1
    <3>3. row \in Nat \ {0}
      BY <1>1
    <3>4. QED
      BY <3>2, <3>3, ReplaceAhead
  <2>4. PICK lines : lines = <<replacement>> \o Tail(pieces)
    OBVIOUS
  <2>5. lines \in Seq(Texts) /\ Len(lines) = Len(pieces)
    <3>1. Headed(lines, replacement, Tail(pieces))
      BY <2>1, <2>4, HeadFirst, Zenon
    <3>2. Len(pieces) \in Nat
      BY <1>4
    <3>3. QED
      BY <2>1, <3>1, <3>2 DEF Headed
  <2>6. s = InsertBehind(t, row, lines, failing)
    BY <1>3, <1>5, <2>2, <2>4 DEF SubstituteRow, Pieces
  <2>7. Owned(t)
    BY <2>3 DEF Rewrites
  <2>8. Grows(t, s) /\ (t.ok /\ Ahead(t, row, L) => s.starved \/ Ahead(s, row + Len(lines), L))
    BY <1>1, <2>5, <2>6, <2>7, InsertBehindGrows
  <2>9. Rewrites(r, s)
    BY <2>3, <2>8, GrowsOn DEF Grows
  <2>10. row + Len(lines) = row + Passed(line, needle, replacement)
    BY <1>3, <1>5, <2>5 DEF Passed
  <2>11. Keeps(r, s) /\ (s.ok \/ s.starved)
    BY <2>9 DEF Rewrites, Safe, Keeps
  <2>12. QED
    BY <2>3, <2>8, <2>10, <2>11
<1>6. CASE ~ TooLong(line, needle, replacement)
  <2>1. PICK joined : joined = IF Len(pieces) = 1 THEN replacement \o pieces[1]
                               ELSE Joined(pieces, replacement)
    OBVIOUS
  <2>2. /\ joined \in Texts
        /\ Len(pieces) > 2 \/ Len(joined) <= Len(replacement) + Len(line) - Len(needle)
    BY <1>1, <1>3, <2>1, RejoinedFits
  <2>3. s = IF Len(joined) >= CellLength THEN Crash(r) ELSE Over(r, r.array[row][1], joined)
    BY <1>3, <1>6, <2>1 DEF SubstituteRow, Pieces, Over
  <2>4. CASE Len(joined) >= CellLength
    <3>1. Noted(r, s) /\ s.ok = FALSE /\ s.starved = r.starved
      BY <1>2, <2>3, <2>4, CrashNotes
    <3>2. Keeps(r, s)
      BY <3>1, NotedOwned DEF Keeps
    <3>3. Overruns(line, needle, replacement)
      <4>1. PICK l \in Nat, m \in Nat, c \in Nat, d \in Nat :
              l = Len(line) /\ m = Len(needle) /\ c = Len(replacement) /\ d = Len(joined)
        BY <1>1, <2>2 DEF Texts
      <4>2. ~ (c + l - m > CellLength) /\ d >= CellLength /\ CellLength \in Nat
        BY <1>6, <2>4, <4>1, Constants DEF TooLong
      <4>3. ASSUME ~ (Len(pieces) > 2)
            PROVE  c + l - m = CellLength
        <5>1. d <= c + l - m
          BY <2>2, <4>1, <4>3
        <5>2. QED
          BY <4>1, <4>2, <5>1
      <4>4. Len(Pieces(line, needle)) > 2 \/ Len(replacement) + Len(line) - Len(needle) = CellLength
        BY <1>3, <4>1, <4>3
      <4>5. QED
        BY <4>4 DEF Overruns, Fills
    <3>4. QED
      BY <3>1, <3>2, <3>3
  <2>5. CASE ~ (Len(joined) >= CellLength)
    <3>1. s = Over(r, r.array[row][1], joined)
      BY <2>3, <2>5
    <3>2. /\ Rewrites(r, s) /\ s.ok = r.ok /\ s.starved = r.starved
          /\ Ahead(r, row, L) => Ahead(s, row, L)
      <4>1. /\ Rewrites(r, s) /\ s.ok = r.ok /\ s.starved = r.starved /\ s.row_amount = r.row_amount
            /\ \A m \in Nat : \A L1 : m >= row /\ Ahead(r, m, L1) => Ahead(s, m, L1)
        BY <1>1, <2>2, <3>1, OverLine
      <4>2. row \in Nat /\ row >= row
        BY <1>1
      <4>3. QED
        BY <4>1, <4>2
    <3>3. row + Passed(line, needle, replacement) = row
      BY <1>1, <1>6 DEF Passed
    <3>4. QED
      BY <3>2, <3>3 DEF Rewrites, Keeps
  <2>6. QED
    BY <2>4, <2>5
<1>7. QED
  BY <1>5, <1>6

(* The search for the needle: the lines it has not passed are those of L.   *)
Searches == [r : Records, row : Nat \ {0}, amount : Nat, done : BOOLEAN]

Hunting(r, needle, replacement, L, h) ==
  /\ h \in Searches
  /\ Keeps(r, h.r)
  /\ h.r.ok \/ h.r.starved \/ \E line \in L : Overruns(line, needle, replacement)
  /\ ~ h.r.ok \/ h.r.starved \/ Ahead(h.r, h.row - 1, L)

Becoming(u, row, amount, done) == [r |-> u, amount |-> amount, done |-> done, row |-> row]

LEMMA KeepsOn ==
  ASSUME NEW r, NEW s, NEW t, Keeps(r, s), Keeps(s, t)
  PROVE  Keeps(r, t)
BY DEF Keeps, Stays

LEMMA SearchesAre ==
  ASSUME NEW h \in Searches
  PROVE  h.r \in Records /\ h.row \in Nat \ {0} /\ h.amount \in Nat /\ h.done \in BOOLEAN
BY DEF Searches

LEMMA BecomingIs ==
  ASSUME NEW u \in Records, NEW row \in Nat \ {0}, NEW amount \in Nat, NEW done \in BOOLEAN,
         NEW h, h = Becoming(u, row, amount, done)
  PROVE  h \in Searches /\ h.r = u /\ h.row = row
BY DEF Becoming, Searches

NextHit(h, needle) == FirstRow(h.r, h.row, h.r.row_amount, LAMBDA x : Has(x, needle))

LEMMA HuntFinds ==
  ASSUME NEW h, NEW needle, NEW replacement, NEW all, NEW failing,
         NEW i, i = NextHit(h, needle), i # 0,
         ~ (h.done \/ ~ h.r.ok), NEW line, line = Line(h.r, i),
         NEW u, u = SubstituteRow(Again(h.r), i, needle, replacement, failing)
  PROVE  Hunt(h, needle, replacement, all, failing) =
           Becoming(u, i + 1 + Passed(line, needle, replacement), h.amount + 1, ~ all)
<1>1. Hunt(h, needle, replacement, all, failing) =
        [r |-> SubstituteRow(Again(h.r), i, needle, replacement, failing),
         amount |-> h.amount + 1, done |-> ~ all,
         row |-> i + 1 + IF TooLong(line, needle, replacement) THEN Len(Split(line, needle, FALSE))
                         ELSE 0]
  BY DEF Hunt, NextHit
<1>2. QED
  BY <1>1, Zenon DEF Becoming, Passed, Pieces

LEMMA HuntGoesOn ==
  ASSUME NEW r, NEW L, NEW needle \in Texts, needle # <<>>, NEW replacement \in Texts,
         NEW all \in BOOLEAN, NEW failing \in Int,
         NEW h, Hunting(r, needle, replacement, L, h),
         NEW t, t = Hunt(h, needle, replacement, all, failing)
  PROVE  Hunting(r, needle, replacement, L, t)
<1>1. /\ h \in Searches /\ Keeps(r, h.r) /\ Owned(h.r)
      /\ h.r \in Records /\ h.row \in Nat \ {0} /\ h.amount \in Nat /\ h.r.row_amount \in Nat
      /\ h.r.ok \in BOOLEAN
  <2>1. h \in Searches /\ Keeps(r, h.r)
    BY DEF Hunting
  <2>2. h.r \in Records /\ h.row \in Nat \ {0} /\ h.amount \in Nat
    BY <2>1, SearchesAre
  <2>3. h.r.row_amount \in Nat /\ h.r.ok \in BOOLEAN
    BY <2>2, FieldsAre
  <2>4. QED
    BY <2>1, <2>2, <2>3 DEF Keeps
<1> DEFINE hits == {i \in h.row..h.r.row_amount : Has(Line(h.r, i), needle)}
<1>2. PICK i : i = FirstOf(hits)
  OBVIOUS
<1>3. i = NextHit(h, needle)
  BY <1>2 DEF NextHit, FirstRow, FirstOf
<1>4. /\ i = 0 \/ (i \in Used(h.r) /\ i > h.row - 1 /\ Has(Line(h.r, i), needle))
  <2>1. hits \subseteq 1..h.r.row_amount
    BY <1>1
  <2>2. \A k \in hits : k > h.row - 1 /\ Has(Line(h.r, k), needle)
    BY <1>1
  <2> HIDE DEF hits
  <2>3. FirstOf(hits) \in {0} \cup hits
    BY <1>1, <2>1, FirstOfIs
  <2>4. QED
    BY <1>2, <2>1, <2>2, <2>3 DEF Used
<1> HIDE DEF hits
<1>5. CASE h.done \/ ~ h.r.ok
  <2>1. t = h
    BY <1>5 DEF Hunt
  <2>2. QED
    BY <2>1
<1>6. CASE ~ h.done /\ h.r.ok /\ i = 0
  <2>1. t = [h EXCEPT !.done = TRUE]
    BY <1>3, <1>6 DEF Hunt, NextHit
  <2>2. t \in Searches /\ t.r = h.r /\ t.row = h.row
    BY <1>1, <2>1 DEF Searches
  <2>3. QED
    BY <2>2 DEF Hunting
<1>7. CASE ~ h.done /\ h.r.ok /\ i # 0
  <2>1. PICK line : line = Line(h.r, i)
    OBVIOUS
  <2>2. i \in Used(h.r) /\ i > h.row - 1 /\ Has(line, needle)
    BY <1>4, <1>7, <2>1
  <2>3. PICK a : a = Again(h.r)
    OBVIOUS
  <2>4. Noted(h.r, a) /\ Owned(a) /\ a.ok = h.r.ok /\ a.starved = h.r.starved
    BY <1>1, <2>3, AgainOwned, AgainNotes
  <2>5. Used(a) = Used(h.r) /\ Line(a, i) = line /\ Keeps(h.r, a)
    BY <1>1, <2>1, <2>4, NotedOwned DEF Line, Noted, SameRows, Keeps
  <2>6. line \in Texts /\ i \in Nat \ {0}
    BY <1>1, <2>1, <2>2, LineIs
  <2>7. PICK u : u = SubstituteRow(a, i, needle, replacement, failing)
    OBVIOUS
  <2>8. /\ Keeps(a, u)
        /\ u.ok \/ u.starved \/ Overruns(line, needle, replacement)
        /\ Ahead(a, i, L) => ~ u.ok \/ u.starved \/ Ahead(u, i + Passed(line, needle, replacement), L)
    <3>1. a.ok /\ i \in Used(a) /\ line = Line(a, i)
      BY <1>7, <2>2, <2>4, <2>5
    <3>2. QED
      BY <2>2, <2>4, <2>7, <3>1, SubstituteRowKeeps
  <2>9. PICK passed \in Nat : passed = Passed(line, needle, replacement)
    <3>1. Pieces(line, needle) \in Seq(Texts)
      BY <2>2, <2>6, PiecesFit
    <3>2. QED
      BY <3>1 DEF Passed
  <2>10. t = Becoming(u, i + 1 + passed, h.amount + 1, ~ all)
    <3>1. ~ (h.done \/ ~ h.r.ok) /\ i # 0
      BY <1>7
    <3>2. t = Becoming(u, i + 1 + Passed(line, needle, replacement), h.amount + 1, ~ all)
      BY <1>3, <2>1, <2>3, <2>7, <3>1, HuntFinds
    <3>3. QED
      BY <2>9, <3>2
  <2>11. u \in Records /\ Owned(u) /\ Keeps(r, u)
    BY <1>1, <2>5, <2>8, KeepsOn DEF Keeps, Owned
  <2>12. t \in Searches /\ t.r = u /\ t.row = i + 1 + passed
    <3>1. i + 1 + passed \in Nat \ {0} /\ h.amount + 1 \in Nat
      BY <1>1, <2>6, <2>9
    <3>2. PICK done \in BOOLEAN : done = ~ all
      BY Zenon
    <3>3. t = Becoming(u, i + 1 + passed, h.amount + 1, done)
      BY <2>10, <3>2
    <3>4. QED
      BY <2>11, <3>1, <3>3, BecomingIs
  <2>13. t.row - 1 = i + passed
    BY <2>6, <2>9, <2>12
  <2>14. h.r.starved \/ Ahead(h.r, h.row - 1, L)
    BY <1>7 DEF Hunting
  <2>15. h.r.starved => u.starved
    BY <2>4, <2>8 DEF Keeps
  <2>16. ASSUME Ahead(h.r, h.row - 1, L)
         PROVE  line \in L /\ (~ u.ok \/ u.starved \/ Ahead(u, i + passed, L))
    <3>1. line \in L
      BY <2>1, <2>2, <2>16 DEF Ahead
    <3>2. Ahead(h.r, i, L)
      <4>1. ASSUME NEW k \in Used(h.r), k > i
            PROVE  Line(h.r, k) \in L
        <5>1. k \in Nat
          BY DEF Used
        <5>2. k > h.row - 1
          BY <1>1, <2>2, <2>6, <4>1, <5>1
        <5>3. QED
          BY <2>16, <5>2 DEF Ahead
      <4>2. QED
        BY <4>1 DEF Ahead
    <3>3. Ahead(a, i, L)
      BY <2>4, <3>2, NotedAhead
    <3>4. QED
      BY <2>8, <2>9, <3>1, <3>3
  <2>17. t.r.ok \/ t.r.starved \/ \E x \in L : Overruns(x, needle, replacement)
    BY <2>8, <2>12, <2>14, <2>15, <2>16
  <2>18. ~ t.r.ok \/ t.r.starved \/ Ahead(t.r, t.row - 1, L)
    BY <2>12, <2>13, <2>14, <2>15, <2>16
  <2>19. QED
    BY <2>11, <2>12, <2>17, <2>18 DEF Hunting
<1>8. QED
  BY <1>5, <1>6, <1>7

LEMMA SubstituteKeeps ==
  ASSUME NEW r, Owned(r), r.ok, NEW needle \in Texts, NEW replacement \in Texts,
         NEW all \in BOOLEAN, NEW failing \in Int,
         NEW s, s = charArray_substituteInLineThatMatches(r, needle, replacement, all, failing)
  PROVE  /\ Keeps(r, s)
         /\ s.ok \/ s.starved \/ \E i \in Used(r) : Overruns(Line(r, i), needle, replacement)
<1>1. ASSUME NEW code \in Int, s = Error(r, code)
      PROVE  Keeps(r, s) /\ s.ok
  <2>1. Grows(r, s) /\ s.ok = r.ok
    <3>1. r \in Records
      BY DEF Owned
    <3>2. QED
      BY <1>1, <3>1, ErrorNotes, NotedGrows
  <2>2. QED
    BY <2>1 DEF Grows, Rewrites, Safe, Keeps
<1>2. PICK start : start = [r |-> r, row |-> 1, amount |-> 0, done |-> FALSE]
  OBVIOUS
<1>3. PICK hunted : hunted = Hunted(start, needle, replacement, all, failing)
  OBVIOUS
<1>4. CASE needle = <<>>
  <2>1. s = Error(r, -5)
    BY <1>4, Zenon DEF charArray_substituteInLineThatMatches
  <2>2. QED
    BY <1>1, <2>1
<1>5. CASE needle # <<>>
  <2> DEFINE L == {Line(r, i) : i \in Used(r)}
  <2>1. Hunting(r, needle, replacement, L, start)
    <3>1. start \in Searches /\ start.r = r /\ start.row - 1 = 0
      BY <1>2 DEF Searches, Owned
    <3>2. Keeps(r, r)
      BY DEF Keeps, Stays
    <3>3. Ahead(r, 0, L)
      BY DEF Ahead
    <3> HIDE DEF L
    <3>4. QED
      BY <3>1, <3>2, <3>3 DEF Hunting
  <2> DEFINE T == [k \in Nat |-> {h \in Searches : Hunting(r, needle, replacement, L, h)}]
  <2> HIDE DEF L
  <2>2. PICK n \in Nat : n = MaxRows + 1
    BY Constants
  <2>3. PICK g : /\ hunted = g[1..n]
                 /\ g[{}] = start
                 /\ \A k \in 1..n : g[1..k] = Hunt(g[1..k - 1], needle, replacement, all, failing)
    BY <1>3, <2>2, HuntsAre
  <2>4. g[{}] \in T[0]
    BY <2>1, <2>3 DEF Hunting
  <2>5. ASSUME NEW k \in 1..n, g[1..k - 1] \in T[k - 1]
        PROVE  g[1..k] \in T[k]
    <3>1. PICK h : h = g[1..k - 1]
      OBVIOUS
    <3>2. k - 1 \in Nat /\ k \in Nat
      OBVIOUS
    <3>3. Hunting(r, needle, replacement, L, h)
      BY <2>5, <3>1, <3>2
    <3>4. PICK t : t = Hunt(h, needle, replacement, all, failing)
      OBVIOUS
    <3>5. Hunting(r, needle, replacement, L, t)
      BY <1>5, <3>3, <3>4, HuntGoesOn
    <3>6. t = g[1..k]
      BY <2>3, <3>1, <3>4
    <3>7. t \in Searches
      BY <3>5 DEF Hunting
    <3>8. QED
      BY <3>2, <3>5, <3>6, <3>7
  <2>6. hunted \in T[n]
    <3> HIDE DEF T
    <3>1. QED
      BY <2>2, <2>3, <2>4, <2>5, FoldReaches
  <2>7. Hunting(r, needle, replacement, L, hunted)
    BY <2>2, <2>6
  <2> HIDE DEF T
  <2>8. CASE hunted.amount = 0
    <3>1. s = Error(r, 0)
      BY <1>2, <1>3, <1>5, <2>8 DEF charArray_substituteInLineThatMatches
    <3>2. QED
      BY <1>1, <3>1
  <2>9. CASE hunted.amount # 0
    <3>1. s = Again(hunted.r)
      BY <1>2, <1>3, <1>5, <2>9 DEF charArray_substituteInLineThatMatches
    <3>2. /\ Keeps(r, hunted.r) /\ Owned(hunted.r)
          /\ hunted.r.ok \/ hunted.r.starved \/ \E line \in L : Overruns(line, needle, replacement)
      BY <2>7 DEF Hunting, Keeps
    <3>3. Grows(hunted.r, s) /\ s.ok = hunted.r.ok /\ s.starved = hunted.r.starved
      BY <3>1, <3>2, AgainOwned
    <3>4. Keeps(hunted.r, s)
      BY <3>3 DEF Grows, Rewrites, Safe, Keeps
    <3>5. Keeps(r, s)
      BY <3>2, <3>4, KeepsOn
    <3>6. ASSUME NEW line \in L, Overruns(line, needle, replacement)
          PROVE  \E i \in Used(r) : Overruns(Line(r, i), needle, replacement)
      BY <3>6 DEF L
    <3>7. QED
      BY <3>2, <3>3, <3>5, <3>6
  <2>10. QED
    BY <2>8, <2>9
<1>6. QED
  BY <1>4, <1>5

LEMMA PiecesType ==
  ASSUME NEW x \in Texts, NEW tag \in Texts, tag # <<>>
  PROVE  Pieces(x, tag) \in Seq(Texts)
BY SplitSteps DEF Pieces

LEMMA RewritesOn ==
  ASSUME NEW r, NEW s, NEW t, Rewrites(r, s), Rewrites(s, t)
  PROVE  Rewrites(r, t)
BY GrowsOn

LEMMA SubstituteArrayRewrites ==
  ASSUME NEW r, Owned(r), NEW needle \in Texts, NEW lines \in Seq(Texts), NEW failing \in Int,
         NEW s, s = charArray_substituteArrayInLineThatMatches(r, needle, lines, failing)
  PROVE  Rewrites(r, s)
<1>1. ASSUME NEW code \in Int, s = Error(r, code)
      PROVE  Rewrites(r, s)
  BY <1>1, ErrorShrinks DEF Grows
<1> DEFINE hits == {i \in 1..r.row_amount : Has(Line(r, i), needle)}
<1>2. PICK i : i = FirstOf(hits)
  OBVIOUS
<1>3. i = FirstRow(r, 1, r.row_amount, LAMBDA x : Has(x, needle))
  BY <1>2 DEF FirstRow, FirstOf
<1>4. i = 0 \/ (i \in Used(r) /\ Has(Line(r, i), needle))
  <2>1. hits \subseteq 1..r.row_amount /\ \A k \in hits : Has(Line(r, k), needle)
    OBVIOUS
  <2>2. r.row_amount \in Nat
    BY FieldsAre DEF Owned
  <2> HIDE DEF hits
  <2>3. FirstOf(hits) \in {0} \cup hits
    BY <2>1, <2>2, FirstOfIs
  <2>4. QED
    BY <1>2, <2>1, <2>3 DEF Used
<1> HIDE DEF hits
<1>5. PICK pieces : pieces = Split(Line(r, i), needle, FALSE)
  OBVIOUS
<1>6. CASE needle = <<>>
  <2>1. s = Error(r, -5)
    BY <1>6, Zenon DEF charArray_substituteArrayInLineThatMatches
  <2>2. QED
    BY <1>1, <2>1
<1>7. CASE needle # <<>> /\ i = 0
  <2>1. s = Error(r, 0)
    BY <1>3, <1>7 DEF charArray_substituteArrayInLineThatMatches
  <2>2. QED
    BY <1>1, <2>1
<1>8. CASE needle # <<>> /\ i # 0
  <2>1. PICK line \in Texts : line = Line(r, i) /\ Has(line, needle) /\ i \in Nat \ {0}
    BY <1>4, <1>8, LineIs
  <2>2. pieces = Pieces(line, needle)
    BY <1>5, <2>1 DEF Pieces
  <2>3. pieces \in Seq(Texts) /\ pieces # <<>>
    BY <1>8, <2>1, <2>2, PiecesFit
  <2>4. PICK piece \in Texts : piece = pieces[1]
    BY <2>3, TailIs
  <2>5. PICK more : more = lines \o Tail(pieces)
    OBVIOUS
  <2>6. more \in Seq(Texts)
    <3>1. Tail(pieces) \in Seq(Texts)
      BY <2>3, TailIs
    <3>2. QED
      BY <2>5, <3>1, ConcatProperties
  <2>7. PICK t : t = charArray_replace(r, i, piece)
    OBVIOUS
  <2>8. Rewrites(r, t) /\ Owned(t)
    BY <2>1, <2>7, ReplaceAhead DEF Rewrites
  <2>9. PICK u : u = InsertBehind(t, i, more, failing)
    OBVIOUS
  <2>10. Grows(t, u) /\ Owned(u)
    <3>1. i \in Nat
      BY <2>1
    <3>2. Grows(t, u)
      BY <2>6, <2>8, <2>9, <3>1, InsertBehindGrows
    <3>3. QED
      BY <3>2 DEF Grows, Rewrites
  <2>11. s = Again(u)
    <3>1. s = Again(InsertBehind(charArray_replace(r, i, pieces[1]), i, lines \o Tail(pieces), failing))
      BY <1>3, <1>5, <1>8 DEF charArray_substituteArrayInLineThatMatches
    <3>2. QED
      BY <2>4, <2>5, <2>7, <2>9, <3>1, Zenon
  <2>12. Grows(u, s)
    BY <2>10, <2>11, AgainOwned
  <2>13. QED
    BY <2>8, <2>10, <2>12, RewritesOn DEF Grows
<1>9. QED
  BY <1>6, <1>7, <1>8

LEMMA AppendPiecesGrows ==
  ASSUME NEW r, Owned(r), NEW row \in Nat, NEW pieces \in Seq(Texts),
         NEW s, s = AppendPieces(r, row, pieces)
  PROVE  Grows(r, s) /\ s.row_amount = r.row_amount
<1>1. PICK n : n = Len(pieces)
  OBVIOUS
<1>2. n \in Nat /\ DOMAIN pieces = 1..n /\ \A k \in 1..n : pieces[k] \in Texts
  BY <1>1, LenProperties
<1>3. PICK g : /\ s = g[1..n]
               /\ g[{}] = r
               /\ \A k \in 1..n : g[1..k] = charArray_col_append(Again(g[1..k - 1]), row, pieces[k])
  BY <1>2, PiecesAppendedAre
<1> DEFINE Grown == {t \in Records : Grows(r, t) /\ t.row_amount = r.row_amount}
           T == [k \in Nat |-> Grown]
<1>4. g[{}] \in T[0]
  BY <1>3, GrowsSelf DEF Owned
<1>5. ASSUME NEW k \in 1..n, g[1..k - 1] \in T[k - 1]
      PROVE  g[1..k] \in T[k]
  <2>1. PICK t : t = g[1..k - 1]
    OBVIOUS
  <2>2. k - 1 \in Nat /\ k \in Nat
    OBVIOUS
  <2>3. Grows(r, t) /\ t \in Records /\ t.row_amount = r.row_amount
    BY <1>5, <2>1, <2>2
  <2>4. PICK a : a = Again(t)
    OBVIOUS
  <2>5. Grows(t, a) /\ Owned(a)
    BY <2>3, <2>4, AgainOwned DEF Grows, Rewrites
  <2>6. a \in Records /\ a.row_amount = t.row_amount
    BY <2>3, <2>4, AgainNotes DEF Noted, SameRows
  <2>7. PICK u : u = charArray_col_append(a, row, pieces[k])
    OBVIOUS
  <2>8. pieces[k] \in Texts
    BY <1>2
  <2>9. Grows(a, u) /\ u.row_amount = a.row_amount
    BY <2>5, <2>6, <2>7, <2>8, ColAppendGrows, ColAppendCounts
  <2>10. Grows(r, u)
    BY <2>3, <2>5, <2>9, GrowsOn DEF Grows
  <2>11. u \in Records
    BY <2>10 DEF Grows, Rewrites, Owned
  <2>12. u = g[1..k]
    BY <1>3, <2>1, <2>4, <2>7
  <2>13. QED
    BY <2>2, <2>3, <2>6, <2>9, <2>10, <2>11, <2>12
<1> HIDE DEF T
<1>6. s \in T[n]
  BY <1>2, <1>3, <1>4, <1>5, FoldReaches
<1>7. QED
  BY <1>2, <1>6 DEF T

LEMMA SplitRowRewrites ==
  ASSUME NEW r, Owned(r), NEW row \in Used(r), NEW delimiter \in Texts, delimiter # <<>>,
         NEW s, s = SplitRow(r, row, delimiter)
  PROVE  Rewrites(r, s) /\ s.row_amount = r.row_amount
<1>1. PICK pieces : pieces = Split(Line(r, row), delimiter, FALSE)
  OBVIOUS
<1>2. pieces \in Seq(Texts) /\ row \in Nat \ {0}
  <2>1. PICK line \in Texts : line = Line(r, row) /\ row \in Nat \ {0}
    BY LineIs
  <2>2. pieces = Pieces(line, delimiter)
    BY <1>1, <2>1 DEF Pieces
  <2>3. QED
    BY <2>1, <2>2, PiecesType
<1>3. CASE pieces = <<>>
  <2>1. s = r
    BY <1>1, <1>3, Zenon DEF SplitRow
  <2>2. QED
    BY <2>1, GrowsSelf DEF Grows
<1>4. CASE pieces # <<>>
  <2>1. PICK piece \in Texts : piece = pieces[1] /\ Tail(pieces) \in Seq(Texts)
    BY <1>2, <1>4, TailIs
  <2>2. PICK a : a = Again(r)
    OBVIOUS
  <2>3. Grows(r, a) /\ Owned(a)
    BY <2>2, AgainOwned
  <2>4. a.row_amount = r.row_amount
    BY <2>2, AgainNotes DEF Noted, SameRows, Owned
  <2>5. PICK t : t = charArray_replace(a, row, piece)
    OBVIOUS
  <2>6. Rewrites(a, t) /\ Owned(t) /\ t.row_amount = a.row_amount
    BY <1>2, <2>3, <2>5, ReplaceRewrites DEF Rewrites
  <2>7. s = AppendPieces(t, row, Tail(pieces))
    <3>1. s = AppendPieces(charArray_replace(Again(r), row, pieces[1]), row, Tail(pieces))
      BY <1>1, <1>4, Zenon DEF SplitRow
    <3>2. QED
      BY <2>1, <2>2, <2>5, <3>1, Zenon
  <2>8. Grows(t, s) /\ s.row_amount = t.row_amount
    <3>1. row \in Nat
      BY <1>2
    <3>2. PICK rest \in Seq(Texts) : rest = Tail(pieces)
      BY <2>1
    <3>3. s = AppendPieces(t, row, rest)
      BY <2>7, <3>2
    <3>4. QED
      BY <2>6, <3>1, <3>3, AppendPiecesGrows
  <2>9. Rewrites(r, s)
    BY <2>3, <2>6, <2>8, RewritesOn DEF Grows
  <2>10. QED
    BY <2>4, <2>6, <2>8, <2>9
<1>5. QED
  BY <1>3, <1>4

LEMMA SplitTagRewrites ==
  ASSUME NEW r, Owned(r), NEW delimiter \in Texts, NEW s, s = charArray_splitTag(r, delimiter)
  PROVE  Rewrites(r, s)
<1>1. CASE delimiter = <<>>
  <2>1. s = r
    BY <1>1, Zenon DEF charArray_splitTag
  <2>2. QED
    BY <2>1, GrowsSelf DEF Grows
<1>2. CASE delimiter # <<>>
  <2>1. PICK n \in Nat : n = r.row_amount
    BY FieldsAre DEF Owned
  <2>2. PICK g : /\ s = Again(g[1..n])
                 /\ g[{}] = r
                 /\ \A k \in 1..n : g[1..k] = SplitRow(g[1..k - 1], k, delimiter)
    BY <1>2, <2>1, SplitsAre
  <2> DEFINE Rewritten == {t \in Records : Rewrites(r, t) /\ t.row_amount = n}
             T == [k \in Nat |-> Rewritten]
  <2>3. g[{}] \in T[0]
    BY <2>1, <2>2, GrowsSelf DEF Grows, Owned
  <2>4. ASSUME NEW k \in 1..n, g[1..k - 1] \in T[k - 1]
        PROVE  g[1..k] \in T[k]
    <3>1. PICK t : t = g[1..k - 1]
      OBVIOUS
    <3>2. k - 1 \in Nat /\ k \in Nat
      OBVIOUS
    <3>3. Rewrites(r, t) /\ Owned(t) /\ t.row_amount = n
      BY <2>4, <3>1, <3>2 DEF Rewrites
    <3>4. PICK u : u = SplitRow(t, k, delimiter)
      OBVIOUS
    <3>5. k \in Used(t)
      BY <3>3 DEF Used
    <3>6. Rewrites(t, u) /\ u.row_amount = t.row_amount
      BY <1>2, <3>3, <3>4, <3>5, SplitRowRewrites
    <3>7. Rewrites(r, u) /\ u \in Records
      BY <3>3, <3>6, RewritesOn DEF Rewrites, Owned
    <3>8. u = g[1..k]
      BY <2>2, <3>1, <3>4
    <3>9. QED
      BY <3>2, <3>3, <3>6, <3>7, <3>8
  <2> HIDE DEF T
  <2>5. g[1..n] \in T[n]
    BY <2>1, <2>2, <2>3, <2>4, FoldReaches
  <2>6. PICK t : t = g[1..n]
    OBVIOUS
  <2>7. Rewrites(r, t) /\ Owned(t)
    BY <2>1, <2>5, <2>6 DEF T, Rewrites
  <2>8. Grows(t, s)
    BY <2>2, <2>6, <2>7, AgainOwned
  <2>9. QED
    BY <2>7, <2>8, RewritesOn DEF Grows
<1>3. QED
  BY <1>1, <1>2

-----------------------------------------------------------------------------
(* Sorting.  The rows in an order in which each of them has one place.      *)
RowsIn(r) == ToSet(SubSeq(r.array, 1, r.row_amount))

Proper(r, rows) ==
  /\ rows \in [Used(r) -> RowsIn(r)]
  /\ \A i, k \in Used(r) : rows[i] = rows[k] => i = k
  /\ \A row \in RowsIn(r) : \E i \in Used(r) : rows[i] = row

LEMMA PartsAre ==
  ASSUME NEW r, r.row_amount \in Nat, NEW p \in Parts(r)
  PROVE  /\ p = [array |-> p.array, alpha |-> p.alpha, omega |-> p.omega]
         /\ p.array \in [Used(r) -> RowsIn(r)]
         /\ p.alpha \in 1..r.row_amount + 1 /\ p.omega \in 0..r.row_amount
BY DEF Parts, RowsIn

LEMMA PartOf ==
  ASSUME NEW r, NEW rows \in [Used(r) -> RowsIn(r)], NEW a \in 1..r.row_amount + 1,
         NEW o \in 0..r.row_amount, NEW p, p = [array |-> rows, alpha |-> a, omega |-> o]
  PROVE  p \in Parts(r) /\ p.array = rows /\ p.alpha = a /\ p.omega = o
BY DEF Parts, RowsIn

LEMMA MinIs ==
  ASSUME NEW n \in Nat, NEW s \in SUBSET (1..n), s # {}
  PROVE  Min(s) \in s /\ \A y \in s : Min(s) <= y
<1>1. s \in SUBSET Nat
  OBVIOUS
<1>2. \E x \in s : \A y \in s : x <= y
  BY <1>1, LeastNumber
<1>3. QED
  BY <1>2 DEF Min

LEMMA MaxOrZero ==
  ASSUME NEW n \in Nat, NEW s \in SUBSET (1..n), NEW t, t = s \cup {0}
  PROVE  Max(t) \in t /\ \A y \in t : y <= Max(t)
<1>1. \E x \in t : \A y \in t : x >= y
  <2>1. CASE s = {}
    BY <2>1
  <2>2. CASE s # {}
    <3>1. PICK x \in s : \A y \in s : y <= x
      BY <2>2, MaxIs
    <3>2. x \in t /\ \A y \in t : x >= y
      BY <3>1
    <3>3. QED
      BY <3>2
  <2>3. QED
    BY <2>1, <2>2
<1>2. Max(t) \in t /\ \A y \in t : Max(t) >= y
  BY <1>1 DEF Max
<1>3. \A y \in t : y \in Nat
  OBVIOUS
<1>4. QED
  BY <1>2, <1>3

LEMMA AfterItself ==
  ASSUME NEW x, NEW descending
  PROVE  ~ After(x, x, descending)
BY DEF After, Behind

LEMMA SearchedIs ==
  ASSUME NEW r, r.row_amount \in Nat, NEW p \in Parts(r), NEW guess, NEW column, NEW descending,
         NEW met, met = Searched(r, p, guess, column, descending)
  PROVE  /\ met \in Parts(r) /\ met.array = p.array
         /\ p.alpha <= met.alpha /\ met.omega <= p.omega
         /\ guess = Key(r, p, p.alpha, column) /\ p.alpha <= p.omega =>
              met.alpha = p.alpha /\ p.alpha <= met.omega
<1>1. PICK n \in Nat : n = r.row_amount
  OBVIOUS
<1>2. /\ p = [array |-> p.array, alpha |-> p.alpha, omega |-> p.omega]
      /\ p.array \in [Used(r) -> RowsIn(r)]
  BY PartsAre
<1>3. PICK a \in 1..n + 1, o \in 0..n : a = p.alpha /\ o = p.omega
  BY <1>1, PartsAre
<1> DEFINE ahead == {i \in p.alpha..r.row_amount : ~ After(guess, Key(r, p, i, column), descending)}
           behind == {i \in 1..p.omega : ~ After(Key(r, p, i, column), guess, descending)}
<1>4. PICK x : x = Min(ahead \cup {r.row_amount + 1})
  OBVIOUS
<1>5. PICK y : y = Max(behind \cup {0})
  OBVIOUS
<1>6. ahead \subseteq a..n /\ behind \subseteq 1..o
  BY <1>1, <1>3
<1>7. guess = Key(r, p, p.alpha, column) /\ a <= o => a \in ahead /\ a \in behind
  BY <1>1, <1>3, AfterItself
<1>8. met = [p EXCEPT !.alpha = x, !.omega = y]
  BY <1>4, <1>5, Zenon DEF Searched
<1> HIDE DEF ahead, behind
<1>9. x \in a..n + 1 /\ \A i \in ahead : x <= i
  <2>1. PICK s : s = ahead \cup {n + 1}
    OBVIOUS
  <2>2. s \in SUBSET (1..n + 1) /\ s # {} /\ n + 1 \in Nat /\ \A i \in s : i >= a /\ i <= n + 1
    BY <1>6, <2>1
  <2>3. Min(s) \in s /\ \A i \in s : Min(s) <= i
    BY <2>2, MinIs
  <2>4. x = Min(s)
    BY <1>1, <1>4, <2>1
  <2>5. x \in s /\ \A i \in s : x <= i
    BY <2>3, <2>4
  <2>6. x \in a..n + 1
    BY <2>2, <2>5
  <2>7. QED
    BY <2>1, <2>5, <2>6
<1>10. y \in 0..o /\ \A i \in behind : i <= y
  <2>1. PICK s : s = behind \cup {0}
    OBVIOUS
  <2>2. behind \in SUBSET (1..o) /\ o \in Nat
    BY <1>6
  <2>3. Max(s) \in s /\ \A i \in s : i <= Max(s)
    BY <2>1, <2>2, MaxOrZero
  <2>4. y \in s /\ \A i \in s : i <= y
    BY <1>5, <2>1, <2>3
  <2>5. \A i \in s : i \in 0..o
    BY <2>1, <2>2
  <2>6. QED
    BY <2>1, <2>4, <2>5
<1>11. met = [array |-> p.array, alpha |-> x, omega |-> y]
  BY <1>2, <1>8
<1>12. met \in Parts(r) /\ met.array = p.array /\ met.alpha = x /\ met.omega = y
  <2>1. x \in 1..r.row_amount + 1 /\ y \in 0..r.row_amount
    BY <1>1, <1>9, <1>10
  <2>2. QED
    BY <1>2, <1>11, <2>1, PartOf
<1>13. guess = Key(r, p, p.alpha, column) /\ a <= o => x = a /\ a <= y
  BY <1>7, <1>9, <1>10
<1>14. QED
  BY <1>3, <1>9, <1>10, <1>12, <1>13

LEMMA ExchangedIs ==
  ASSUME NEW r, r.row_amount \in Nat, NEW met \in Parts(r), met.alpha <= met.omega,
         NEW e, e = Exchanged(met)
  PROVE  /\ e \in Parts(r) /\ e.alpha = met.alpha + 1 /\ e.omega = met.omega - 1
         /\ Proper(r, met.array) => Proper(r, e.array)
<1>1. PICK n \in Nat : n = r.row_amount /\ Used(r) = 1..n
  BY DEF Used
<1>2. PICK x \in [Used(r) -> RowsIn(r)] : x = met.array
  BY PartsAre
<1>3. PICK a \in 1..n, o \in 1..n : a = met.alpha /\ o = met.omega
  <2>1. met.alpha \in 1..n + 1 /\ met.omega \in 0..n
    BY <1>1, PartsAre
  <2>2. QED
    BY <2>1
<1>4. PICK y : y = [x EXCEPT ![a] = x[o], ![o] = x[a]]
  OBVIOUS
<1>5. /\ y \in [Used(r) -> RowsIn(r)]
      /\ \A i \in Used(r) : y[i] = IF i = o THEN x[a] ELSE IF i = a THEN x[o] ELSE x[i]
  BY <1>1, <1>4
<1>6. e = [array |-> y, alpha |-> a + 1, omega |-> o - 1]
  BY <1>2, <1>3, <1>4 DEF Exchanged
<1>7. e \in Parts(r) /\ e.array = y /\ e.alpha = a + 1 /\ e.omega = o - 1
  <2>1. a + 1 \in 1..r.row_amount + 1 /\ o - 1 \in 0..r.row_amount
    BY <1>1
  <2>2. QED
    BY <1>5, <1>6, <2>1, PartOf
<1>8. ASSUME Proper(r, x)
      PROVE  Proper(r, y)
  <2>1. \A i, k \in Used(r) : x[i] = x[k] => i = k
    BY <1>8 DEF Proper
  <2>2. \A i, k \in Used(r) : y[i] = y[k] => i = k
    BY <1>1, <1>5, <2>1
  <2>3. ASSUME NEW row \in RowsIn(r)
        PROVE  \E i \in Used(r) : y[i] = row
    <3>1. PICK i \in Used(r) : x[i] = row
      BY <1>8 DEF Proper
    <3>2. PICK k \in Used(r) : k = IF i = o THEN a ELSE IF i = a THEN o ELSE i
      BY <1>1
    <3>3. y[k] = row
      BY <1>1, <1>5, <3>1, <3>2
    <3>4. QED
      BY <3>3
  <2>4. QED
    BY <1>5, <2>2, <2>3 DEF Proper
<1>9. QED
  BY <1>2, <1>3, <1>7, <1>8

Exchanging(met, p, q) ==
  IF p.omega < p.alpha THEN p ELSE IF met.alpha > met.omega THEN met ELSE q

ExchangeBody(r, guess, column, descending, h) ==
  [p \in Parts(r) |->
     Exchanging(Searched(r, p, guess, column, descending), p,
                h[Exchanged(Searched(r, p, guess, column, descending))])]

(* How far the searches still are from each other.                          *)
Apartness(r, p) == p.omega + (r.row_amount + 1) - p.alpha

LEMMA ApartnessIs ==
  ASSUME NEW r, r.row_amount \in Nat, NEW p \in Parts(r)
  PROVE  Apartness(r, p) \in Nat
<1>1. PICK n \in Nat : n = r.row_amount
  OBVIOUS
<1>2. PICK a \in 1..n + 1, o \in 0..n : a = p.alpha /\ o = p.omega
  BY <1>1, PartsAre
<1>3. o + (n + 1) - a \in Nat
  OBVIOUS
<1>4. QED
  BY <1>1, <1>2, <1>3 DEF Apartness

LEMMA ExchangeNearer ==
  ASSUME NEW r, r.row_amount \in Nat, NEW p \in Parts(r), NEW guess, NEW column, NEW descending,
         NEW met, met = Searched(r, p, guess, column, descending), met.alpha <= met.omega,
         NEW e, e = Exchanged(met)
  PROVE  /\ e \in Parts(r) /\ Apartness(r, e) < Apartness(r, p)
         /\ Proper(r, p.array) => Proper(r, e.array)
         /\ p.alpha < e.alpha /\ e.omega < p.omega
<1>1. met \in Parts(r) /\ met.array = p.array /\ p.alpha <= met.alpha /\ met.omega <= p.omega
  BY SearchedIs
<1>2. /\ e \in Parts(r) /\ e.alpha = met.alpha + 1 /\ e.omega = met.omega - 1
      /\ Proper(r, p.array) => Proper(r, e.array)
  BY <1>1, ExchangedIs
<1>3. PICK n \in Nat : n = r.row_amount
  OBVIOUS
<1>4. PICK a \in Nat, o \in Nat : a = p.alpha /\ o = p.omega
  BY <1>3, PartsAre
<1>5. PICK b \in Nat, u \in Nat : b = met.alpha /\ u = met.omega
  BY <1>1, <1>3, PartsAre
<1>6. a <= b /\ u <= o
  BY <1>1, <1>4, <1>5
<1>7. Apartness(r, p) = o + (n + 1) - a /\ Apartness(r, e) = (u - 1) + (n + 1) - (b + 1)
  BY <1>2, <1>3, <1>4, <1>5 DEF Apartness
<1>8. QED
  BY <1>2, <1>4, <1>5, <1>6, <1>7

LEMMA ExchangeIs ==
  ASSUME NEW r, r.row_amount \in Nat, NEW guess, NEW column, NEW descending,
         NEW g, g = CHOOSE h : h = ExchangeBody(r, guess, column, descending, h)
  PROVE  \A p \in Parts(r) :
           g[p] = Exchanging(Searched(r, p, guess, column, descending), p,
                             g[Exchanged(Searched(r, p, guess, column, descending))])
<1> DEFINE D == Parts(r)
           met(p) == Searched(r, p, guess, column, descending)
           size == [p \in D |-> Apartness(r, p)]
           next == [p \in D |-> IF met(p).alpha <= met(p).omega THEN Exchanged(met(p)) ELSE p]
           made == [p \in D |-> [q \in D |-> Exchanging(met(p), p, q)]]
<1>1. \A p \in D : met(p) \in D /\ met(p).alpha \in Nat /\ met(p).omega \in Nat
  <2>1. ASSUME NEW p \in D, NEW m, m = met(p)
        PROVE  m \in D /\ m.alpha \in Nat /\ m.omega \in Nat
    <3>1. m \in Parts(r)
      BY <2>1, SearchedIs
    <3>2. m.alpha \in 1..r.row_amount + 1 /\ m.omega \in 0..r.row_amount
      BY <3>1, PartsAre
    <3>3. QED
      BY <3>1, <3>2
  <2> HIDE DEF met
  <2>2. QED
    BY <2>1
<1>2. \A p \in D : met(p).alpha <= met(p).omega =>
        Exchanged(met(p)) \in D /\ Apartness(r, Exchanged(met(p))) < Apartness(r, p)
  <2>1. ASSUME NEW p \in D, NEW m, m = met(p), m.alpha <= m.omega, NEW e, e = Exchanged(m)
        PROVE  e \in D /\ Apartness(r, e) < Apartness(r, p)
    BY <2>1, ExchangeNearer
  <2> HIDE DEF met, D
  <2>2. QED
    BY <2>1
<1> HIDE DEF met
<1>3. size \in [D -> Nat]
  BY ApartnessIs
<1>4. next \in [D -> D]
  BY <1>2
<1>5. made \in [D -> [D -> D]]
  <2>1. \A p \in D, q \in D : Exchanging(met(p), p, q) \in D
    BY <1>1 DEF Exchanging
  <2> HIDE DEF D
  <2>2. QED
    BY <2>1
<1> HIDE DEF D
<1>6. ASSUME NEW p \in D
      PROVE  Stops(p, D, D, size, next, made)
  <2>1. CASE met(p).alpha <= met(p).omega
    <3>1. next[p] = Exchanged(met(p)) /\ next[p] \in D
      BY <1>4, <2>1
    <3>2. Apartness(r, next[p]) < Apartness(r, p)
      BY <1>2, <2>1, <3>1
    <3>3. size[next[p]] < size[p]
      BY <3>1, <3>2
    <3> HIDE DEF size, next, made
    <3>4. QED
      BY <3>3 DEF Stops
  <2>2. CASE ~ (met(p).alpha <= met(p).omega)
    <3>1. met(p).alpha > met(p).omega
      BY <1>1, <2>2
    <3>2. \A u, v \in D : made[p][u] = made[p][v]
      BY <3>1 DEF Exchanging
    <3> HIDE DEF size, next, made
    <3>3. QED
      BY <3>2 DEF Stops
  <2>3. QED
    BY <2>1, <2>2
<1>7. ASSUME NEW p0 \in D
      PROVE  \E h : h = ExchangeBody(r, guess, column, descending, h)
  <2>1. PICK h : Recurs(h, D, D, next, made)
    <3> HIDE DEF size, next, made
    <3>1. QED
      BY <1>3, <1>4, <1>5, <1>6, <1>7, TailRecursion
  <2>2. h \in [D -> D]
    BY <2>1 DEF Recurs
  <2>3. ASSUME NEW p \in D
        PROVE  h[p] = Exchanging(met(p), p, h[Exchanged(met(p))])
    <3>1. h[p] = made[p][h[next[p]]]
      BY <2>1 DEF Recurs
    <3>2. next[p] \in D
      BY <1>4
    <3>3. h[next[p]] \in D
      <4> HIDE DEF next
      <4>1. QED
        BY <2>2, <3>2
    <3>4. h[p] = Exchanging(met(p), p, h[next[p]])
      <4>1. \A q \in D : made[p][q] = Exchanging(met(p), p, q)
        OBVIOUS
      <4> HIDE DEF made, next
      <4>2. QED
        BY <3>1, <3>3, <4>1
    <3>5. CASE met(p).alpha <= met(p).omega
      <4>1. next[p] = Exchanged(met(p))
        BY <3>5
      <4>2. QED
        BY <3>4, <4>1
    <3>6. CASE ~ (met(p).alpha <= met(p).omega)
      <4>1. met(p).alpha > met(p).omega
        BY <1>1, <3>6
      <4> HIDE DEF next
      <4>2. QED
        BY <3>4, <4>1 DEF Exchanging
    <3>7. QED
      BY <3>5, <3>6
  <2>4. h = [p \in D |-> Exchanging(met(p), p, h[Exchanged(met(p))])]
    BY <2>2, <2>3
  <2>5. QED
    BY <2>4 DEF ExchangeBody, D, met
<1>8. ASSUME NEW p0 \in D
      PROVE  g[p0] = Exchanging(met(p0), p0, g[Exchanged(met(p0))])
  <2>1. g = ExchangeBody(r, guess, column, descending, g)
    BY <1>7, <1>8
  <2>2. ExchangeBody(r, guess, column, descending, g)[p0] =
          Exchanging(met(p0), p0, g[Exchanged(met(p0))])
    BY DEF ExchangeBody, D, met
  <2>3. QED
    BY <2>1, <2>2
<1>9. QED
  BY <1>8 DEF D, met

(* What is sorted on of the rows, wherever the searches have come.          *)
Reached(r, p, q) ==
  /\ q \in Parts(r)
  /\ Proper(r, p.array) => Proper(r, q.array)
  /\ p.alpha <= q.alpha /\ q.omega <= p.omega

LEMMA ReachedOn ==
  ASSUME NEW r, r.row_amount \in Nat, NEW p \in Parts(r), NEW e \in Parts(r), NEW q,
         Reached(r, p, e), Reached(r, e, q)
  PROVE  Reached(r, p, q)
<1>1. q \in Parts(r)
  BY DEF Reached
<1>2. PICK n \in Nat : n = r.row_amount
  OBVIOUS
<1>3. PICK a \in Nat, b \in Nat, c \in Nat : a = p.alpha /\ b = e.alpha /\ c = q.alpha
  BY <1>1, <1>2, PartsAre
<1>4. PICK u \in Nat, v \in Nat, w \in Nat : u = p.omega /\ v = e.omega /\ w = q.omega
  BY <1>1, <1>2, PartsAre
<1>5. a <= b /\ b <= c /\ w <= v /\ v <= u
  BY <1>3, <1>4 DEF Reached
<1>6. a <= c /\ w <= u
  BY <1>5
<1>7. QED
  BY <1>1, <1>3, <1>4, <1>6 DEF Reached

LEMMA ExchangeReaches ==
  ASSUME NEW r, r.row_amount \in Nat, NEW guess, NEW column, NEW descending,
         NEW g, g = CHOOSE h : h = ExchangeBody(r, guess, column, descending, h)
  PROVE  \A p \in Parts(r) : Reached(r, p, g[p])
<1>1. \A p \in Parts(r) :
        g[p] = Exchanging(Searched(r, p, guess, column, descending), p,
                          g[Exchanged(Searched(r, p, guess, column, descending))])
  BY ExchangeIs
<1> DEFINE T == {k \in Nat : \A p \in Parts(r) : Apartness(r, p) < k => Reached(r, p, g[p])}
<1>2. 0 \in T
  <2>1. \A p \in Parts(r) : ~ (Apartness(r, p) < 0)
    BY ApartnessIs
  <2>2. QED
    BY <2>1
<1>3. ASSUME NEW k \in Nat, k \in T
      PROVE  k + 1 \in T
  <2>1. ASSUME NEW p \in Parts(r), Apartness(r, p) < k + 1
        PROVE  Reached(r, p, g[p])
    <3>1. PICK met : met = Searched(r, p, guess, column, descending)
      OBVIOUS
    <3>2. PICK e : e = Exchanged(met)
      OBVIOUS
    <3>3. g[p] = Exchanging(met, p, g[e])
      BY <1>1, <3>1, <3>2
    <3>4. /\ met \in Parts(r) /\ met.array = p.array
          /\ p.alpha <= met.alpha /\ met.omega <= p.omega
      BY <3>1, SearchedIs
    <3>5. PICK n \in Nat : n = r.row_amount
      OBVIOUS
    <3>6. p.alpha \in Nat /\ p.omega \in Nat /\ met.alpha \in Nat /\ met.omega \in Nat
      BY <3>4, <3>5, PartsAre
    <3>7. Reached(r, p, p) /\ Reached(r, p, met)
      BY <3>4, <3>6 DEF Reached
    <3>8. CASE met.alpha <= met.omega
      <4>1. /\ e \in Parts(r) /\ Apartness(r, e) < Apartness(r, p)
            /\ Proper(r, p.array) => Proper(r, e.array)
            /\ p.alpha < e.alpha /\ e.omega < p.omega
        BY <3>1, <3>2, <3>8, ExchangeNearer
      <4>2. Apartness(r, e) \in Nat /\ Apartness(r, p) \in Nat
        BY <4>1, ApartnessIs
      <4>3. Apartness(r, e) < k
        BY <2>1, <4>1, <4>2
      <4>4. Reached(r, e, g[e])
        BY <1>3, <4>1, <4>3
      <4>5. e.alpha \in Nat /\ e.omega \in Nat
        BY <3>5, <4>1, PartsAre
      <4>6. Reached(r, p, e)
        BY <3>6, <4>1, <4>5 DEF Reached
      <4>7. Reached(r, p, g[e])
        BY <4>1, <4>4, <4>6, ReachedOn
      <4>8. g[p] = p \/ g[p] = met \/ g[p] = g[e]
        BY <3>3 DEF Exchanging
      <4>9. QED
        BY <3>7, <4>7, <4>8
    <3>9. CASE ~ (met.alpha <= met.omega)
      <4>1. met.alpha > met.omega
        BY <3>6, <3>9
      <4>2. g[p] = p \/ g[p] = met
        BY <3>3, <4>1 DEF Exchanging
      <4>3. QED
        BY <3>7, <4>2
    <3>10. QED
      BY <3>8, <3>9
  <2>2. QED
    BY <2>1
<1>4. \A k \in Nat : k \in T
  <2> HIDE DEF T
  <2>1. QED
    BY <1>2, <1>3, AllNumbers
<1>5. ASSUME NEW p \in Parts(r)
      PROVE  Reached(r, p, g[p])
  <2>1. PICK size \in Nat : size = Apartness(r, p)
    BY ApartnessIs
  <2>2. size + 1 \in T
    BY <1>4
  <2>3. size < size + 1
    OBVIOUS
  <2>4. QED
    BY <2>1, <2>2, <2>3
<1>6. QED
  BY <1>5

LEMMA PartedIs ==
  ASSUME NEW r, r.row_amount \in Nat, NEW p \in Parts(r), NEW column, NEW descending,
         NEW s, s = Parted(r, p, column, descending)
  PROVE  /\ s \in Parts(r)
         /\ Proper(r, p.array) => Proper(r, s.array)
         /\ p.alpha < p.omega => p.alpha < s.alpha /\ s.omega < p.omega
<1>1. PICK guess : guess = Key(r, p, p.alpha, column)
  OBVIOUS
<1>2. PICK g : g = CHOOSE h : h = ExchangeBody(r, guess, column, descending, h)
  OBVIOUS
<1>3. s = g[p]
  BY <1>1, <1>2 DEF Parted, ExchangeBody, Exchanging
<1>4. \A q \in Parts(r) : Reached(r, q, g[q])
  BY <1>2, ExchangeReaches
<1>5. s \in Parts(r) /\ (Proper(r, p.array) => Proper(r, s.array))
  BY <1>3, <1>4 DEF Reached
<1>6. ASSUME p.alpha < p.omega
      PROVE  p.alpha < s.alpha /\ s.omega < p.omega
  <2>1. PICK met : met = Searched(r, p, guess, column, descending)
    OBVIOUS
  <2>2. PICK e : e = Exchanged(met)
    OBVIOUS
  <2>3. PICK n \in Nat : n = r.row_amount
    OBVIOUS
  <2>4. PICK a \in Nat, o \in Nat : a = p.alpha /\ o = p.omega
    BY <2>3, PartsAre
  <2>5. met \in Parts(r) /\ met.alpha = a /\ a <= met.omega
    BY <1>1, <1>6, <2>1, <2>4, SearchedIs
  <2>6. PICK u \in Nat : u = met.omega
    BY <2>3, <2>5, PartsAre
  <2>7. met.alpha <= met.omega /\ ~ (met.alpha > met.omega) /\ ~ (p.omega < p.alpha)
    BY <1>6, <2>4, <2>5, <2>6
  <2>8. e \in Parts(r) /\ p.alpha < e.alpha /\ e.omega < p.omega
    BY <2>1, <2>2, <2>7, ExchangeNearer
  <2>9. g[p] = g[e]
    <3>1. g[p] = Exchanging(met, p, g[e])
      BY <1>2, <2>1, <2>2, ExchangeIs
    <3>2. QED
      BY <2>7, <3>1 DEF Exchanging
  <2>10. e.alpha <= s.alpha /\ s.omega <= e.omega
    BY <1>3, <1>4, <2>8, <2>9 DEF Reached
  <2>11. PICK b \in Nat, v \in Nat, c \in Nat, w \in Nat :
           b = e.alpha /\ v = e.omega /\ c = s.alpha /\ w = s.omega
    BY <1>5, <2>3, <2>8, PartsAre
  <2>12. a < b /\ b <= c /\ w <= v /\ v < o
    BY <2>4, <2>8, <2>10, <2>11
  <2>13. a < c /\ w < o
    BY <2>12
  <2>14. QED
    BY <2>4, <2>11, <2>13
<1>7. QED
  BY <1>5, <1>6

(* The parts on both sides of where the searches met.                       *)
LeftOf(split, p) == [split EXCEPT !.alpha = p.alpha]

RightOf(split, p, rows) == [array |-> rows, alpha |-> split.alpha, omega |-> p.omega]

Quickly(split, p, h) ==
  IF p.omega <= p.alpha THEN p.array ELSE h[RightOf(split, p, h[LeftOf(split, p)])]

QuickBody(r, column, descending, h) ==
  [p \in Parts(r) |-> Quickly(Parted(r, p, column, descending), p, h)]

LEMMA SidesAre ==
  ASSUME NEW r, r.row_amount \in Nat, NEW p \in Parts(r), NEW column, NEW descending,
         NEW split, split = Parted(r, p, column, descending), ~ (p.omega <= p.alpha)
  PROVE  /\ LeftOf(split, p) \in Parts(r) /\ LeftOf(split, p).array = split.array
         /\ Apartness(r, LeftOf(split, p)) < Apartness(r, p)
         /\ \A rows \in [Used(r) -> RowsIn(r)] :
              /\ RightOf(split, p, rows) \in Parts(r) /\ RightOf(split, p, rows).array = rows
              /\ Apartness(r, RightOf(split, p, rows)) < Apartness(r, p)
<1>1. PICK n \in Nat : n = r.row_amount
  OBVIOUS
<1>2. PICK a \in 1..n + 1, o \in 0..n : a = p.alpha /\ o = p.omega
  BY <1>1, PartsAre
<1>3. p.alpha < p.omega
  BY <1>2
<1>4. split \in Parts(r) /\ p.alpha < split.alpha /\ split.omega < p.omega
  BY <1>3, PartedIs
<1>5. PICK b \in 1..n + 1, u \in 0..n : b = split.alpha /\ u = split.omega
  BY <1>1, <1>4, PartsAre
<1>6. /\ split = [array |-> split.array, alpha |-> split.alpha, omega |-> split.omega]
      /\ split.array \in [Used(r) -> RowsIn(r)]
  BY <1>4, PartsAre
<1>7. a < b /\ u < o
  BY <1>2, <1>4, <1>5
<1>8. PICK l : l = LeftOf(split, p)
  OBVIOUS
<1>9. l = [array |-> split.array, alpha |-> a, omega |-> u]
  BY <1>2, <1>5, <1>6, <1>8 DEF LeftOf
<1>10. l \in Parts(r) /\ l.array = split.array /\ l.alpha = a /\ l.omega = u
  BY <1>1, <1>6, <1>9, PartOf
<1>11. Apartness(r, l) < Apartness(r, p)
  <2>1. Apartness(r, l) = u + (n + 1) - a /\ Apartness(r, p) = o + (n + 1) - a
    BY <1>1, <1>2, <1>10 DEF Apartness
  <2>2. u + (n + 1) - a < o + (n + 1) - a
    BY <1>7
  <2>3. QED
    BY <2>1, <2>2
<1>12. ASSUME NEW rows \in [Used(r) -> RowsIn(r)], NEW k, k = RightOf(split, p, rows)
       PROVE  k \in Parts(r) /\ k.array = rows /\ Apartness(r, k) < Apartness(r, p)
  <2>1. k = [array |-> rows, alpha |-> b, omega |-> o]
    BY <1>2, <1>5, <1>12 DEF RightOf
  <2>2. k \in Parts(r) /\ k.array = rows /\ k.alpha = b /\ k.omega = o
    BY <1>1, <2>1, PartOf
  <2>3. Apartness(r, k) = o + (n + 1) - b /\ Apartness(r, p) = o + (n + 1) - a
    BY <1>1, <1>2, <2>2 DEF Apartness
  <2>4. o + (n + 1) - b < o + (n + 1) - a
    BY <1>7
  <2>5. QED
    BY <2>2, <2>3, <2>4
<1>13. QED
  BY <1>8, <1>10, <1>11, <1>12

LEMMA QuickIs ==
  ASSUME NEW r, r.row_amount \in Nat, NEW column, NEW descending,
         NEW g, g = CHOOSE h : h = QuickBody(r, column, descending, h)
  PROVE  \A p \in Parts(r) : g[p] = Quickly(Parted(r, p, column, descending), p, g)
<1> DEFINE D == Parts(r)
           R == [Used(r) -> RowsIn(r)]
           split(p) == Parted(r, p, column, descending)
           size == [p \in D |-> Apartness(r, p)]
           start == [p \in D |-> p.array]
           F == [v \in [D -> R] |-> [p \in D |-> Quickly(split(p), p, v)]]
<1>1. size \in [D -> Nat]
  BY ApartnessIs
<1>2. start \in [D -> R]
  BY PartsAre
<1>3. ASSUME NEW p \in D, ~ (p.omega <= p.alpha)
      PROVE  /\ LeftOf(split(p), p) \in D /\ Apartness(r, LeftOf(split(p), p)) < Apartness(r, p)
             /\ \A rows \in R : /\ RightOf(split(p), p, rows) \in D
                                /\ Apartness(r, RightOf(split(p), p, rows)) < Apartness(r, p)
  BY <1>3, SidesAre
<1> HIDE DEF split
<1>4. \A p \in D : p.array \in R
  BY PartsAre
<1> HIDE DEF D, R
<1>5. F \in [[D -> R] -> [D -> R]]
  <2>1. ASSUME NEW v \in [D -> R], NEW p \in D
        PROVE  Quickly(split(p), p, v) \in R
    <3>1. CASE p.omega <= p.alpha
      BY <1>4, <3>1 DEF Quickly
    <3>2. CASE ~ (p.omega <= p.alpha)
      <4>1. v[LeftOf(split(p), p)] \in R
        BY <1>3, <3>2
      <4>2. v[RightOf(split(p), p, v[LeftOf(split(p), p)])] \in R
        BY <1>3, <3>2, <4>1
      <4>3. QED
        BY <3>2, <4>2 DEF Quickly
    <3>3. QED
      BY <3>1, <3>2
  <2>2. QED
    BY <2>1
<1>6. Descends(F, D, R, size)
  <2>1. ASSUME NEW v \in [D -> R], NEW w \in [D -> R], NEW p \in D,
               \A y \in D : size[y] < size[p] => v[y] = w[y]
        PROVE  F[v][p] = F[w][p]
    <3>1. \A y \in D : Apartness(r, y) < Apartness(r, p) => v[y] = w[y]
      BY <2>1
    <3>2. Quickly(split(p), p, v) = Quickly(split(p), p, w)
      <4>1. CASE p.omega <= p.alpha
        BY <4>1 DEF Quickly
      <4>2. CASE ~ (p.omega <= p.alpha)
        <5>1. PICK l \in D : l = LeftOf(split(p), p) /\ Apartness(r, l) < Apartness(r, p)
          BY <1>3, <4>2
        <5>2. PICK rows \in R : rows = v[l]
          BY <5>1
        <5>3. rows = w[l]
          BY <3>1, <5>1, <5>2
        <5>4. PICK k \in D : k = RightOf(split(p), p, rows) /\ Apartness(r, k) < Apartness(r, p)
          BY <1>3, <4>2, <5>2
        <5>5. v[k] = w[k]
          BY <3>1, <5>4
        <5> HIDE DEF F, size
        <5>6. Quickly(split(p), p, v) = v[k] /\ Quickly(split(p), p, w) = w[k]
          BY <4>2, <5>1, <5>2, <5>3, <5>4 DEF Quickly
        <5>7. QED
          BY <5>5, <5>6
      <4>3. QED
        BY <4>1, <4>2
    <3>3. QED
      BY <3>2
  <2> HIDE DEF F, size
  <2>2. QED
    BY <2>1 DEF Descends
<1>7. PICK h : Fixed(h, F, D, R)
  <2> HIDE DEF F, size, start
  <2>1. QED
    BY <1>1, <1>2, <1>5, <1>6, Recursion
<1>8. h \in [D -> R] /\ \A p \in D : h[p] = Quickly(split(p), p, h)
  <2>1. h \in [D -> R] /\ \A p \in D : h[p] = F[h][p]
    BY <1>7 DEF Fixed
  <2>2. QED
    BY <2>1
<1>9. h = QuickBody(r, column, descending, h)
  <2>1. h = [p \in D |-> Quickly(split(p), p, h)]
    BY <1>8
  <2>2. QED
    BY <2>1 DEF QuickBody, D, split
<1>10. g = QuickBody(r, column, descending, g)
  BY <1>9
<1>11. ASSUME NEW p \in D
       PROVE  g[p] = Quickly(split(p), p, g)
  <2>1. QuickBody(r, column, descending, g)[p] = Quickly(split(p), p, g)
    BY DEF QuickBody, D, split
  <2>2. QED
    BY <1>10, <2>1
<1>12. QED
  BY <1>11 DEF D, split

Orders(r, p, rows) ==
  /\ rows \in [Used(r) -> RowsIn(r)]
  /\ Proper(r, p.array) => Proper(r, rows)

LEMMA QuickOrders ==
  ASSUME NEW r, r.row_amount \in Nat, NEW column, NEW descending,
         NEW g, g = CHOOSE h : h = QuickBody(r, column, descending, h)
  PROVE  \A p \in Parts(r) : Orders(r, p, g[p])
<1>1. \A p \in Parts(r) : g[p] = Quickly(Parted(r, p, column, descending), p, g)
  BY QuickIs
<1> DEFINE T == {k \in Nat : \A p \in Parts(r) : Apartness(r, p) < k => Orders(r, p, g[p])}
<1>2. 0 \in T
  <2>1. \A p \in Parts(r) : ~ (Apartness(r, p) < 0)
    BY ApartnessIs
  <2>2. QED
    BY <2>1
<1>3. ASSUME NEW k \in Nat, k \in T
      PROVE  k + 1 \in T
  <2>1. ASSUME NEW p \in Parts(r), Apartness(r, p) < k + 1
        PROVE  Orders(r, p, g[p])
    <3>1. PICK split : split = Parted(r, p, column, descending)
      OBVIOUS
    <3>2. split \in Parts(r) /\ (Proper(r, p.array) => Proper(r, split.array))
      BY <3>1, PartedIs
    <3>3. g[p] = Quickly(split, p, g)
      BY <1>1, <3>1
    <3>4. CASE p.omega <= p.alpha
      <4>1. g[p] = p.array
        BY <3>3, <3>4 DEF Quickly
      <4>2. QED
        BY <4>1, PartsAre DEF Orders
    <3>5. CASE ~ (p.omega <= p.alpha)
      <4>1. PICK l : l = LeftOf(split, p)
        OBVIOUS
      <4>2. /\ l \in Parts(r) /\ l.array = split.array /\ Apartness(r, l) < Apartness(r, p)
            /\ \A rows \in [Used(r) -> RowsIn(r)] :
                 /\ RightOf(split, p, rows) \in Parts(r) /\ RightOf(split, p, rows).array = rows
                 /\ Apartness(r, RightOf(split, p, rows)) < Apartness(r, p)
        BY <3>1, <3>5, <4>1, SidesAre
      <4>3. \A q \in Parts(r) : Apartness(r, q) < Apartness(r, p) => Orders(r, q, g[q])
        <5>1. ASSUME NEW q \in Parts(r), Apartness(r, q) < Apartness(r, p)
              PROVE  Apartness(r, q) < k
          <6>1. Apartness(r, q) \in Nat /\ Apartness(r, p) \in Nat
            BY ApartnessIs
          <6>2. QED
            BY <2>1, <5>1, <6>1
        <5>2. QED
          BY <1>3, <5>1
      <4>4. PICK rows : rows = g[l]
        OBVIOUS
      <4>5. Orders(r, l, rows)
        BY <4>2, <4>3, <4>4
      <4>6. PICK m : m = RightOf(split, p, rows)
        OBVIOUS
      <4>7. m \in Parts(r) /\ m.array = rows /\ Apartness(r, m) < Apartness(r, p)
        BY <4>2, <4>5, <4>6 DEF Orders
      <4>8. Orders(r, m, g[m])
        BY <4>3, <4>7
      <4>9. g[p] = g[m]
        BY <3>3, <3>5, <4>1, <4>4, <4>6 DEF Quickly
      <4>10. QED
        BY <3>2, <4>2, <4>5, <4>7, <4>8, <4>9 DEF Orders
    <3>6. QED
      BY <3>4, <3>5
  <2>2. QED
    BY <2>1
<1>4. \A k \in Nat : k \in T
  <2> HIDE DEF T
  <2>1. QED
    BY <1>2, <1>3, AllNumbers
<1>5. ASSUME NEW p \in Parts(r)
      PROVE  Orders(r, p, g[p])
  <2>1. PICK size \in Nat : size = Apartness(r, p)
    BY ApartnessIs
  <2>2. size + 1 \in T
    BY <1>4
  <2>3. size < size + 1
    OBVIOUS
  <2>4. QED
    BY <2>1, <2>2, <2>3
<1>6. QED
  BY <1>5

LEMMA SortedIs ==
  ASSUME NEW r, r.row_amount \in Nat, NEW p \in Parts(r), NEW column, NEW descending,
         NEW rows, rows = Sorted(r, p, column, descending)
  PROVE  Orders(r, p, rows)
<1>1. PICK g : g = CHOOSE h : h = QuickBody(r, column, descending, h)
  OBVIOUS
<1>2. rows = g[p]
  BY <1>1 DEF Sorted, QuickBody, Quickly, LeftOf, RightOf
<1>3. QED
  BY <1>1, <1>2, QuickOrders

(* The rows in use in another order, of which each has the same cells.      *)
Reordered(r, s) ==
  /\ s \in Records /\ s.buffersize = r.buffersize /\ s.row_amount = r.row_amount
  /\ s.text = r.text /\ s.ok = r.ok /\ s.starved = r.starved
  /\ Len(s.array) = Len(r.array)
  /\ \A k \in 1..Len(r.array) : k \notin Used(r) => s.array[k] = r.array[k]
  /\ \A i \in Used(r) : \E k \in Used(r) : s.array[i] = r.array[k]
  /\ \A k \in Used(r) : \E i \in Used(r) : s.array[i] = r.array[k]
  /\ \A i, k \in Used(r) : s.array[i] = s.array[k] => i = k

LEMMA ReorderedGrows ==
  ASSUME NEW r, Owned(r), Uniform(r), NEW s, Reordered(r, s)
  PROVE  Grows(r, s)
<1>1. /\ r \in Records /\ Apart(r) /\ Alive(r) /\ Sized(r) /\ Filled(r) /\ Excused(r)
      /\ Used(r) \subseteq InUse(r) /\ InUse(r) \subseteq 1..Len(r.array)
  <2>1. r \in Records /\ Apart(r) /\ Alive(r) /\ Sized(r) /\ Filled(r) /\ Excused(r)
    BY DEF Owned
  <2>2. Used(r) \subseteq InUse(r)
    BY <2>1 DEF Filled
  <2>3. QED
    BY <2>1, <2>2, FieldsAre
<1>2. s \in Records /\ Used(s) = Used(r) /\ Len(s.array) = Len(r.array)
  BY DEF Reordered, Used
<1>3. InUse(s) = InUse(r)
  <2>1. ASSUME NEW k \in 1..Len(r.array)
        PROVE  s.array[k] # NullRow <=> r.array[k] # NullRow
    <3>1. CASE k \in Used(r)
      <4>1. PICK m \in Used(r) : s.array[k] = r.array[m]
        BY <3>1 DEF Reordered
      <4>2. k \in InUse(r) /\ m \in InUse(r)
        BY <1>1, <3>1
      <4>3. QED
        BY <4>1, <4>2 DEF InUse
    <3>2. CASE k \notin Used(r)
      BY <3>2 DEF Reordered
    <3>3. QED
      BY <3>1, <3>2
  <2>2. \A k \in 1..Len(r.array) : k \in InUse(r) <=> r.array[k] # NullRow
    BY <1>1, FieldsAre
  <2>3. \A k \in 1..Len(r.array) : k \in InUse(s) <=> s.array[k] # NullRow
    BY <1>2, FieldsAre
  <2>4. InUse(s) \subseteq 1..Len(r.array)
    BY <1>2, FieldsAre
  <2>5. QED
    BY <1>1, <2>1, <2>2, <2>3, <2>4
<1>4. \A i \in InUse(r) : i \notin Used(r) => s.array[i] = r.array[i]
  BY <1>1 DEF Reordered
<1>5. PICK p : /\ p \in [InUse(r) -> InUse(r)]
               /\ \A i \in InUse(r) : s.array[i] = r.array[p[i]] /\ (i \in Used(r) <=> p[i] \in Used(r))
               /\ \A i \in InUse(r) : i \notin Used(r) => p[i] = i
  <2> DEFINE Of(i) == CHOOSE k \in Used(r) : s.array[i] = r.array[k]
             p == [i \in InUse(r) |-> IF i \in Used(r) THEN Of(i) ELSE i]
  <2>1. \A i \in Used(r) : Of(i) \in Used(r) /\ s.array[i] = r.array[Of(i)]
    BY DEF Reordered
  <2> HIDE DEF Of
  <2>2. p \in [InUse(r) -> InUse(r)]
    BY <1>1, <2>1
  <2>3. \A i \in InUse(r) : s.array[i] = r.array[p[i]] /\ (i \in Used(r) <=> p[i] \in Used(r))
    BY <1>1, <1>4, <2>1
  <2>4. \A i \in InUse(r) : i \notin Used(r) => p[i] = i
    OBVIOUS
  <2>5. QED
    BY <2>2, <2>3, <2>4
<1>6. Apart(s)
  <2>1. ASSUME NEW i \in InUse(r), NEW k \in InUse(r), NEW j \in 1..ColMax, NEW l \in 1..ColMax,
               s.array[i][j] # Null, s.array[i][j] = s.array[k][l]
        PROVE  i = k /\ j = l
    <3>1. p[i] \in InUse(r) /\ p[k] \in InUse(r)
      BY <1>5
    <3>2. r.array[p[i]][j] # Null /\ r.array[p[i]][j] = r.array[p[k]][l]
      BY <1>5, <2>1
    <3>3. p[i] = p[k] /\ j = l
      BY <1>1, <3>1, <3>2 DEF Apart
    <3>4. s.array[i] = s.array[k]
      BY <1>5, <3>3
    <3>5. i \in Used(r) <=> k \in Used(r)
      BY <1>5, <3>3
    <3>6. CASE i \in Used(r)
      BY <3>3, <3>4, <3>5, <3>6 DEF Reordered
    <3>7. CASE i \notin Used(r)
      BY <1>5, <3>3, <3>5, <3>7
    <3>8. QED
      BY <3>6, <3>7
  <2>2. QED
    BY <1>3, <2>1 DEF Apart
<1>7. s.text = r.text /\ s.buffersize = r.buffersize /\ s.row_amount = r.row_amount
  BY DEF Reordered
<1>8. Alive(s)
  <2>1. ASSUME NEW i \in InUse(r), NEW j \in 1..ColMax, s.array[i][j] # Null
        PROVE  s.text[s.array[i][j]] \in Texts
    <3>1. p[i] \in InUse(r) /\ s.array[i][j] = r.array[p[i]][j]
      BY <1>5
    <3>2. r.text[r.array[p[i]][j]] \in Texts
      BY <1>1, <2>1, <3>1 DEF Alive
    <3>3. QED
      BY <1>7, <3>1, <3>2
  <2>2. QED
    BY <1>3, <2>1 DEF Alive
<1>9. Sized(s)
  <2>1. ASSUME NEW i \in InUse(r), NEW j \in 1..ColMax, s.array[i][j] # Null
        PROVE  s.buffersize[i][j]
    <3>1. r.array[p[i]][j] # Null
      BY <1>5, <2>1
    <3>2. r.array[i][j] # Null
      BY <1>5, <3>1 DEF Uniform
    <3>3. QED
      BY <1>1, <1>7, <3>2 DEF Sized
  <2>2. \A i \in 1..Len(r.array) : s.array[i] = NullRow <=> s.buffersize[i] = NullRow
    <3>1. \A i \in 1..Len(r.array) : s.array[i] = NullRow <=> r.array[i] = NullRow
      <4>1. \A i \in 1..Len(r.array) : i \in InUse(r) <=> r.array[i] # NullRow
        BY <1>1, FieldsAre
      <4>2. \A i \in 1..Len(r.array) : i \in InUse(s) <=> s.array[i] # NullRow
        BY <1>2, FieldsAre
      <4>3. QED
        BY <1>3, <4>1, <4>2
    <3>2. QED
      BY <1>1, <1>7, <3>1 DEF Sized
  <2>3. Len(s.array) = Len(s.buffersize)
    BY <1>1, <1>2, <1>7 DEF Sized
  <2>4. QED
    BY <1>2, <1>3, <2>1, <2>2, <2>3 DEF Sized
<1>10. Filled(s)
  <2>1. ASSUME NEW i \in Used(r)
        PROVE  i \in InUse(s) /\ s.array[i][1] # Null
    <3>1. i \in InUse(r) /\ p[i] \in Used(r) /\ s.array[i] = r.array[p[i]]
      BY <1>1, <1>5
    <3>2. QED
      BY <1>1, <1>3, <3>1 DEF Filled
  <2>2. s.row_amount <= Len(s.array)
    BY <1>1, <1>2, <1>7 DEF Filled
  <2>3. QED
    BY <1>2, <2>1, <2>2 DEF Filled
<1>11. Excused(s)
  BY <1>1, <1>2, <1>3 DEF Excused, Reordered
<1>12. Owned(s)
  BY <1>2, <1>6, <1>8, <1>9, <1>10, <1>11 DEF Owned
<1>13. Held(r) \subseteq Held(s)
  <2>1. ASSUME NEW a \in Held(r)
        PROVE  a \in Held(s)
    <3>1. PICK k \in Used(r), j \in 1..ColMax : a # Null /\ a = r.array[k][j]
      BY HeldIs
    <3>2. PICK i \in Used(r) : s.array[i] = r.array[k]
      BY DEF Reordered
    <3>3. a # Null /\ i \in Used(s) /\ a = s.array[i][j]
      BY <1>2, <3>1, <3>2
    <3>4. QED
      BY <1>12, <3>3, HeldIs
  <2>2. QED
    BY <2>1
<1>14. Safe(r, s) /\ Steady(r, s)
  BY DEF Reordered, Safe, Steady
<1>15. QED
  BY <1>12, <1>13, <1>14 DEF Grows, Rewrites, Stays

(* The rows behind those in use stay where they are.                        *)
Ordering(r, rows) == [r EXCEPT !.array = rows \o SubSeq(@, r.row_amount + 1, Len(@))]

LEMMA OrderingIs ==
  ASSUME NEW r, Owned(r), NEW rows, Proper(r, rows), NEW s, s = Ordering(r, rows),
         \A row : row \in RowsIn(r) <=> \E i \in Used(r) : row = r.array[i]
  PROVE  Reordered(r, s)
<1>1. /\ r \in Records /\ r.array \in Seq(RowsOf(0..Cells)) /\ r.row_amount <= Len(r.array)
  BY FieldsAre DEF Owned, Filled
<1>2. PICK n \in Nat, m \in Nat : n = r.row_amount /\ m = Len(r.array)
  BY <1>1, FieldsAre
<1>3. Used(r) = 1..n /\ n <= m
  BY <1>1, <1>2 DEF Used
<1>4. PICK behind : behind = SubSeq(r.array, n + 1, m)
  OBVIOUS
<1>5. /\ behind \in Seq(RowsOf(0..Cells)) /\ Len(behind) = m - n
      /\ \A k \in 1..m - n : behind[k] = r.array[n + k]
  <2>1. n + 1 \in Nat \ {0} /\ n + 1 <= m + 1 /\ m <= Len(r.array)
    BY <1>2, <1>3
  <2>2. m - (n + 1) + 1 = m - n /\ \A k \in 1..m - n : n + 1 + k - 1 = n + k
    OBVIOUS
  <2>3. PICK a \in Nat \ {0} : a = n + 1
    BY <2>1
  <2>4. /\ SubSeq(r.array, a, m) \in Seq(RowsOf(0..Cells))
        /\ Len(SubSeq(r.array, a, m)) = m - a + 1
        /\ \A k \in 1..m - a + 1 : SubSeq(r.array, a, m)[k] = r.array[a + k - 1]
    BY <1>1, <2>1, <2>3, PartIs
  <2>5. behind = SubSeq(r.array, a, m) /\ m - a + 1 = m - n
    BY <1>4, <2>3
  <2>6. \A k \in 1..m - n : a + k - 1 = n + k
    BY <2>3
  <2>7. QED
    BY <2>4, <2>5, <2>6
<1>6. RowsIn(r) \subseteq RowsOf(0..Cells)
  <2>1. \A i \in Used(r) : r.array[i] \in RowsOf(0..Cells)
    <3>1. \A i \in 1..m : r.array[i] \in RowsOf(0..Cells)
      BY <1>1, <1>2, ElementOfSeq
    <3>2. QED
      BY <1>3, <3>1
  <2>2. QED
    BY <2>1
<1>7. rows \in Seq(RowsOf(0..Cells)) /\ Len(rows) = n
  <2>1. rows \in [1..n -> RowsOf(0..Cells)]
    BY <1>3, <1>6 DEF Proper
  <2>2. QED
    BY <2>1, MadeSeq
<1>8. PICK array : array = rows \o behind
  OBVIOUS
<1>9. /\ array \in Seq(RowsOf(0..Cells)) /\ Len(array) = m
      /\ \A k \in 1..m : array[k] = IF k <= n THEN rows[k] ELSE behind[k - n]
  <2>1. /\ array \in Seq(RowsOf(0..Cells)) /\ Len(array) = Len(rows) + Len(behind)
        /\ \A k \in 1..Len(rows) + Len(behind) :
             array[k] = IF k <= Len(rows) THEN rows[k] ELSE behind[k - Len(rows)]
    BY <1>5, <1>7, <1>8, ConcatProperties
  <2>2. Len(rows) + Len(behind) = m
    BY <1>5, <1>7
  <2>3. QED
    BY <1>7, <2>1, <2>2
<1>10. s = [r EXCEPT !.array = array]
  BY <1>2, <1>4, <1>8 DEF Ordering
<1>11. /\ s \in Records /\ s.array = array /\ s.buffersize = r.buffersize
       /\ s.row_amount = r.row_amount /\ s.text = r.text /\ s.ok = r.ok /\ s.starved = r.starved
  BY <1>1, <1>9, <1>10 DEF Records
<1>12. \A k \in 1..m : k \notin Used(r) => array[k] = r.array[k]
  <2>1. ASSUME NEW k \in 1..m, k \notin Used(r)
        PROVE  array[k] = r.array[k]
    <3>1. ~ (k <= n) /\ k - n \in 1..m - n /\ n + (k - n) = k
      BY <1>3, <2>1
    <3>2. array[k] = behind[k - n] /\ behind[k - n] = r.array[n + (k - n)]
      BY <1>5, <1>9, <3>1
    <3>3. QED
      BY <3>1, <3>2
  <2>2. QED
    BY <2>1
<1>13. \A k \in Used(r) : array[k] = rows[k] /\ rows[k] \in RowsIn(r)
  BY <1>3, <1>9 DEF Proper
<1>14. \A i \in Used(r) : \E k \in Used(r) : array[i] = r.array[k]
  BY <1>13
<1>15. ASSUME NEW k \in Used(r)
       PROVE  \E i \in Used(r) : array[i] = r.array[k]
  <2>1. r.array[k] \in RowsIn(r)
    OBVIOUS
  <2>2. PICK i \in Used(r) : rows[i] = r.array[k]
    BY <2>1 DEF Proper
  <2>3. QED
    BY <1>13, <2>2
<1>16. \A i, k \in Used(r) : array[i] = array[k] => i = k
  BY <1>13 DEF Proper
<1>17. QED
  BY <1>2, <1>9, <1>11, <1>12, <1>14, <1>15, <1>16 DEF Reordered

LEMMA FrontIs ==
  ASSUME NEW r, Owned(r), NEW rows, rows = SubSeq(r.array, 1, r.row_amount)
  PROVE  /\ Proper(r, rows)
         /\ \A row : row \in RowsIn(r) <=> \E i \in Used(r) : row = r.array[i]
<1>1. /\ r \in Records /\ r.array \in Seq(RowsOf(0..Cells)) /\ r.row_amount <= Len(r.array)
  BY FieldsAre DEF Owned, Filled
<1>2. PICK n \in Nat, m \in Nat : n = r.row_amount /\ m = Len(r.array)
  BY <1>1, FieldsAre
<1>3. Used(r) = 1..n /\ n <= m
  BY <1>1, <1>2 DEF Used
<1>4. PICK one \in Nat \ {0} : one = 1
  OBVIOUS
<1>5. /\ rows \in Seq(RowsOf(0..Cells)) /\ Len(rows) = n
      /\ \A k \in 1..n : rows[k] = r.array[k]
  <2>1. one <= n + 1 /\ n <= Len(r.array)
    BY <1>2, <1>3, <1>4
  <2>2. /\ SubSeq(r.array, one, n) \in Seq(RowsOf(0..Cells))
        /\ Len(SubSeq(r.array, one, n)) = n - one + 1
        /\ \A k \in 1..n - one + 1 : SubSeq(r.array, one, n)[k] = r.array[one + k - 1]
    BY <1>1, <2>1, PartIs
  <2>3. rows = SubSeq(r.array, one, n) /\ n - one + 1 = n /\ \A k \in 1..n : one + k - 1 = k
    BY <1>2, <1>4
  <2>4. QED
    BY <2>2, <2>3
<1>6. rows \in [1..n -> RowsOf(0..Cells)] /\ DOMAIN rows = 1..n
  BY <1>5, LenProperties
<1>7. RowsIn(r) = {rows[i] : i \in 1..n}
  BY <1>6 DEF RowsIn, ToSet
<1>8. \A row : row \in RowsIn(r) <=> \E i \in Used(r) : row = r.array[i]
  BY <1>3, <1>5, <1>7
<1>9. rows \in [Used(r) -> RowsIn(r)]
  <2>1. \A i \in 1..n : rows[i] \in RowsIn(r)
    BY <1>7
  <2>2. QED
    BY <1>3, <1>6, <2>1
<1>10. ASSUME NEW i \in Used(r), NEW k \in Used(r), rows[i] = rows[k]
       PROVE  i = k
  <2>1. r.array[i] = r.array[k]
    BY <1>3, <1>5, <1>10
  <2>2. i \in InUse(r) /\ k \in InUse(r) /\ r.array[i][1] # Null
    BY DEF Owned, Filled
  <2>3. Apart(r) /\ 1 \in 1..ColMax
    BY Constants DEF Owned
  <2>4. QED
    BY <2>1, <2>2, <2>3 DEF Apart
<1>11. \A row \in RowsIn(r) : \E i \in Used(r) : rows[i] = row
  BY <1>3, <1>7
<1>12. QED
  BY <1>8, <1>9, <1>10, <1>11 DEF Proper

LEMMA QsortGrows ==
  ASSUME NEW r, Owned(r), Uniform(r), NEW column \in 1..ColMax, NEW descending,
         NEW first \in Used(r),
         NEW s, s = charArray_qsort(r, column, descending, first, r.row_amount)
  PROVE  Grows(r, s)
<1>1. PICK n \in Nat : n = r.row_amount /\ Used(r) = 1..n
  BY FieldsAre DEF Owned, Used
<1>2. PICK part : part = [array |-> SubSeq(r.array, 1, n), alpha |-> first, omega |-> n]
  OBVIOUS
<1>3. CASE n <= first
  <2>1. s = r
    BY <1>1, <1>3 DEF charArray_qsort
  <2>2. QED
    BY <2>1, GrowsSelf
<1>4. CASE ~ (n <= first) /\ r.array[first][column] = Null
  <2>1. s = Error(r, -90)
    BY <1>1, <1>4 DEF charArray_qsort
  <2>2. QED
    BY <2>1, ErrorShrinks
<1>5. CASE ~ (n <= first) /\ r.array[first][column] # Null
  <2>1. \A i \in Used(r) : r.array[i][column] # Null
    BY <1>5 DEF Uniform
  <2>2. ~ \E i \in first..n : r.array[i][column] = Null
    BY <1>1, <2>1
  <2>3. PICK rows : rows = Sorted(r, part, column, descending)
    OBVIOUS
  <2>4. s = Ordering(r, rows)
    BY <1>1, <1>2, <1>5, <2>2, <2>3 DEF charArray_qsort, Ordering
  <2>5. PICK front : front = SubSeq(r.array, 1, n)
    OBVIOUS
  <2>6. /\ Proper(r, front)
        /\ \A row : row \in RowsIn(r) <=> \E i \in Used(r) : row = r.array[i]
    BY <1>1, <2>5, FrontIs
  <2>7. part \in Parts(r) /\ part.array = front
    <3>1. front \in [Used(r) -> RowsIn(r)]
      BY <2>6 DEF Proper
    <3>2. first \in 1..r.row_amount + 1 /\ n \in 0..r.row_amount
      BY <1>1
    <3>3. part = [array |-> front, alpha |-> first, omega |-> n]
      BY <1>2, <2>5
    <3>4. QED
      BY <3>1, <3>2, <3>3, PartOf
  <2>8. Proper(r, rows)
    <3>1. Orders(r, part, rows)
      BY <1>1, <2>3, <2>7, SortedIs
    <3>2. QED
      BY <2>6, <2>7, <3>1 DEF Orders
  <2>9. Reordered(r, s)
    BY <2>4, <2>6, <2>8, OrderingIs
  <2>10. QED
    BY <2>9, ReorderedGrows
<1>6. QED
  BY <1>3, <1>4, <1>5

-----------------------------------------------------------------------------
(* Construction and destruction.                                            *)
LEMMA EmptiedOwned ==
  ASSUME NEW s \in Records, s.array = <<>>, s.buffersize = <<>>, s.row_amount = 0
  PROVE  Owned(s) /\ Held(s) = {}
<1>1. PICK none : none = <<>>
  OBVIOUS
<1>2. Len(none) = 0 /\ DOMAIN none = {}
  BY <1>1
<1>3. InUse(s) = {} /\ Used(s) = {} /\ Len(s.array) = 0 /\ Len(s.buffersize) = 0
  BY <1>1, <1>2 DEF InUse, Used
<1>4. Apart(s) /\ Alive(s)
  BY <1>3 DEF Apart, Alive
<1>5. Sized(s) /\ Filled(s) /\ Excused(s)
  BY <1>3 DEF Sized, Filled, Excused
<1>6. Held(s) = {}
  BY <1>3 DEF Held
<1>7. QED
  BY <1>4, <1>5, <1>6 DEF Owned

LEMMA NoRowsAre == NoRows \in Records /\ NoRows.array = <<>> /\ NoRows.buffersize = <<>>
                   /\ NoRows.row_amount = 0 /\ NoRows.ok = TRUE
<1>1. [a \in 1..Cells |-> Freed] \in [1..Cells -> Texts \cup {Freed}]
  OBVIOUS
<1>2. <<>> \in Seq(RowsOf(0..Cells)) /\ <<>> \in Seq(RowsOf(BOOLEAN))
  OBVIOUS
<1>3. QED
  BY <1>1, <1>2 DEF NoRows, Records

(* What is left of an array that used foreign memory.                       *)
LEMMA BrokenOwned ==
  ASSUME NEW starved \in BOOLEAN, NEW s, s = Crash([NoRows EXCEPT !.starved = starved])
  PROVE  Owned(s) /\ s.starved = starved
<1>1. PICK t : t = [NoRows EXCEPT !.starved = starved]
  OBVIOUS
<1>2. /\ t \in Records /\ t.array = <<>> /\ t.buffersize = <<>> /\ t.row_amount = 0
      /\ t.starved = starved
  BY <1>1, NoRowsAre DEF Records
<1>3. SameRows(t, s) /\ s.starved = t.starved
  BY <1>1, <1>2, CrashNotes DEF Noted
<1>4. s \in Records /\ s.array = <<>> /\ s.buffersize = <<>> /\ s.row_amount = 0
  BY <1>2, <1>3 DEF SameRows
<1>5. QED
  BY <1>2, <1>3, <1>4, EmptiedOwned

LEMMA DestructorOwned ==
  ASSUME NEW r, Owned(r), NEW s, s = charArray_Destructor(r)
  PROVE  Owned(s) /\ s.ok = r.ok
<1>1. r \in Records /\ r.text \in [1..Cells -> Texts \cup {Freed}]
  BY FieldsAre DEF Owned
<1>2. PICK text : text = [a \in DOMAIN r.text |-> IF a \in SizedCells(r, 1..ColMax) THEN Freed
                                                  ELSE r.text[a]]
  OBVIOUS
<1>3. text \in [1..Cells -> Texts \cup {Freed}]
  BY <1>1, <1>2
<1>4. PICK none \in Nat : none = 0
  OBVIOUS
<1>5. PICK empty : empty = <<>>
  OBVIOUS
<1>6. empty \in Seq(RowsOf(0..Cells)) /\ empty \in Seq(RowsOf(BOOLEAN))
  BY <1>5
<1>7. s = [r EXCEPT !.array = empty, !.buffersize = empty, !.row_amount = none, !.col_amount = none,
                    !.text = text]
  BY <1>2, <1>4, <1>5 DEF charArray_Destructor
<1>8. /\ s \in Records /\ s.array = empty /\ s.buffersize = empty /\ s.row_amount = none
      /\ s.ok = r.ok
  BY <1>1, <1>3, <1>6, <1>7 DEF Records
<1>9. QED
  BY <1>4, <1>5, <1>8, EmptiedOwned

Constructed(r) ==
  [r EXCEPT !.array = [i \in 1..RowHint |-> Bare], !.buffersize = [i \in 1..RowHint |-> Unsized],
            !.row_amount = 0, !.col_amount = 1]

LEMMA ConstructedOwned ==
  ASSUME NEW r, Owned(r), NEW s, s = Constructed(r)
  PROVE  Owned(s) /\ s.ok = r.ok
<1>1. r \in Records
  BY DEF Owned
<1>2. Bare \in RowsOf(0..Cells) /\ Unsized \in RowsOf(BOOLEAN) /\ Bare # NullRow /\ Unsized # NullRow
  <2>1. Bare \in [1..ColMax -> 0..Cells]
    BY Constants DEF Bare
  <2>2. Unsized \in [1..ColMax -> BOOLEAN]
    BY DEF Unsized
  <2>3. QED
    BY <2>1, <2>2, RowsDiffer DEF RowsOf
<1>3. PICK array : array = [i \in 1..RowHint |-> Bare]
  OBVIOUS
<1>4. PICK sizes : sizes = [i \in 1..RowHint |-> Unsized]
  OBVIOUS
<1>5. array \in Seq(RowsOf(0..Cells)) /\ Len(array) = RowHint
  <2>1. array \in [1..RowHint -> RowsOf(0..Cells)]
    BY <1>2, <1>3
  <2>2. QED
    BY <2>1, MadeSeq, Constants
<1>6. sizes \in Seq(RowsOf(BOOLEAN)) /\ Len(sizes) = RowHint
  <2>1. sizes \in [1..RowHint -> RowsOf(BOOLEAN)]
    BY <1>2, <1>4
  <2>2. QED
    BY <2>1, MadeSeq, Constants
<1>7. PICK none \in Nat, one \in Nat : none = 0 /\ one = 1
  OBVIOUS
<1>8. s = [r EXCEPT !.array = array, !.buffersize = sizes, !.row_amount = none, !.col_amount = one]
  BY <1>3, <1>4, <1>7 DEF Constructed
<1>9. s \in Records /\ s.array = array /\ s.buffersize = sizes /\ s.row_amount = none /\ s.ok = r.ok
  <2>1. array \in Seq(RowsOf(0..Cells)) /\ sizes \in Seq(RowsOf(BOOLEAN))
    BY <1>5, <1>6
  <2>2. QED
    BY <1>1, <1>8, <2>1 DEF Records
<1>10. /\ Used(s) = {} /\ InUse(s) = 1..RowHint /\ Len(s.array) = RowHint /\ RowHint \in Nat
       /\ Len(s.buffersize) = RowHint /\ s.row_amount = 0
       /\ \A i \in 1..RowHint : s.array[i] = Bare /\ s.buffersize[i] = Unsized
  <2>1. \A i \in 1..RowHint : s.array[i] = Bare /\ s.buffersize[i] = Unsized
    BY <1>3, <1>4, <1>9
  <2>2. DOMAIN s.array = 1..RowHint
    BY <1>3, <1>9
  <2>3. InUse(s) = 1..RowHint
    BY <1>2, <2>1, <2>2 DEF InUse
  <2>4. s.row_amount = 0 /\ Used(s) = {}
    BY <1>7, <1>9 DEF Used
  <2>5. QED
    BY <1>5, <1>6, <1>9, <2>1, <2>3, <2>4, Constants
<1>11. \A i \in InUse(s), j \in 1..ColMax : s.array[i][j] = Null
  <2>1. \A j \in 1..ColMax : Bare[j] = Null
    BY DEF Bare
  <2>2. \A i \in InUse(s) : s.array[i] = Bare
    BY <1>10
  <2>3. QED
    BY <2>1, <2>2
<1>12. Apart(s) /\ Alive(s)
  BY <1>11 DEF Apart, Alive
<1>13. Sized(s)
  BY <1>2, <1>10, <1>11 DEF Sized
<1>14. Filled(s) /\ Excused(s)
  BY <1>10 DEF Filled, Excused
<1>15. QED
  BY <1>9, <1>12, <1>13, <1>14 DEF Owned

-----------------------------------------------------------------------------
(* The inductive invariant: the cells are owned, and of an array that used  *)
(* foreign memory nothing is kept.                                          *)
IInv ==
  /\ life \in {"raw", "ready", "broken"}
  /\ Owned(root)
  /\ life # "broken" => root.ok

(* What a call may do to the lines it does not write or remove.             *)
Kept(op, r, s) ==
  /\ op \notin Rewriting => \A a \in Held(r) \cap Held(s) : s.text[a] = r.text[a]
  /\ op \notin Removing => Held(r) \subseteq Held(s)

(* Where a call may use foreign memory although none was missing.           *)
Forgiven(r, op, arguments) ==
  \/ op \in {"remove", "removeThatEx"} /\ r.row_amount = 0
  \/ /\ op = "substitute"
     /\ \E i \in Used(r) :
          \/ Len(Split(Line(r, i), arguments[1], FALSE)) > 2
          \/ Fills(Line(r, i), arguments[1], arguments[2])
  \/ op \in {"qsort", "qsortPart"} /\ ~ Uniform(r)

Sound(op, arguments, s) ==
  Owned(s) /\ Kept(op, root, s) /\ (s.ok \/ s.starved \/ Forgiven(root, op, arguments))

Stable == life = "ready" /\ life' = "ready" => Kept(call'.op, root, root')

Suffices ==
  life' = "broken" /\ life = "ready" => root'.starved \/ Forgiven(root, call'.op, call'.arguments)

Steps == IInv' /\ Stable /\ Suffices

LEMMA Reporting ==
  ASSUME IInv, life = "ready", NEW op, NEW arguments, NEW s, Sound(op, arguments, s),
         Return(op, arguments, s)
  PROVE  Steps
<1>1. call'.op = op /\ call'.arguments = arguments
  BY DEF Return
<1>2. CASE s.ok
  <2>1. root' = s /\ life' = life
    BY <1>2 DEF Return
  <2>2. IInv'
    BY <1>2, <2>1 DEF IInv, Sound
  <2>3. Stable
    BY <1>1, <2>1 DEF Stable, Sound
  <2>4. Suffices
    BY <2>1 DEF Suffices
  <2>5. QED
    BY <2>2, <2>3, <2>4 DEF Steps
<1>3. CASE ~ s.ok
  <2>1. root' = Crash([NoRows EXCEPT !.starved = s.starved]) /\ life' = "broken"
    BY <1>3 DEF Return
  <2>2. s.starved \in BOOLEAN
    BY FieldsAre DEF Sound, Owned
  <2>3. Owned(root') /\ root'.starved = s.starved
    BY <2>1, <2>2, BrokenOwned
  <2>4. IInv'
    BY <2>1, <2>3 DEF IInv
  <2>5. Stable
    BY <2>1 DEF Stable
  <2>6. Suffices
    BY <1>1, <1>3, <2>3 DEF Suffices, Sound
  <2>7. QED
    BY <2>4, <2>5, <2>6 DEF Steps
<1>4. QED
  BY <1>2, <1>3

LEMMA GrowsSound ==
  ASSUME root.ok, NEW op, NEW arguments, NEW s, Grows(root, s)
  PROVE  Sound(op, arguments, s)
BY DEF Grows, Rewrites, Stays, Steady, Safe, Kept, Sound

LEMMA RewritesSound ==
  ASSUME root.ok, NEW op \in Rewriting, NEW arguments, NEW s, Rewrites(root, s)
  PROVE  Sound(op, arguments, s)
BY DEF Rewrites, Stays, Safe, Kept, Sound

LEMMA ShrinksSound ==
  ASSUME root.ok, NEW op \in Removing, NEW arguments, NEW s, Shrinks(root, s)
  PROVE  Sound(op, arguments, s)
BY DEF Shrinks, Safe, Kept, Sound

LEMMA LosesSound ==
  ASSUME IInv, root.ok, NEW op \in {"remove", "removeThatEx"}, NEW arguments, NEW s, Loses(root, s)
  PROVE  Sound(op, arguments, s)
<1>1. op \in Removing
  BY DEF Removing
<1>2. CASE Shrinks(root, s)
  BY <1>1, <1>2, ShrinksSound
<1>3. CASE root.row_amount = 0 /\ Noted(root, s)
  <2>1. Owned(s) /\ Steady(root, s)
    BY <1>3, NotedOwned DEF IInv
  <2>2. Kept(op, root, s)
    BY <1>1, <2>1 DEF Kept, Steady
  <2>3. Forgiven(root, op, arguments)
    BY <1>3 DEF Forgiven
  <2>4. QED
    BY <2>1, <2>2, <2>3 DEF Sound
<1>4. QED
  BY <1>2, <1>3 DEF Loses

(* The arguments of the calls are texts.                                    *)
LEMMA SeqsWithin ==
  ASSUME NEW S, NEW T, S \subseteq T, NEW s \in Seq(S)
  PROVE  s \in Seq(T)
<1>1. PICK n \in Nat : n = Len(s)
  OBVIOUS
<1>2. s \in [1..n -> S]
  BY <1>1, LenProperties
<1>3. s \in [1..n -> T]
  BY <1>2
<1>4. QED
  BY <1>3, MadeSeq

LEMMA ArgumentsAre ==
  /\ Lines \subseteq Texts /\ Needles \subseteq Texts /\ Replacements \subseteq Texts
  /\ \A rows \in Tables : /\ rows \in Seq(Seq(Texts) \ {<<>>})
                          /\ [i \in DOMAIN rows |-> rows[i][1]] \in Seq(Texts)
  /\ Failures \subseteq Int
<1> DEFINE Some == Seq(DOMAIN Rank)
<1>1. Some \subseteq Texts
  <2>1. DOMAIN Rank \subseteq STRING
    BY CharArrayAssumption
  <2>2. ASSUME NEW t \in Some
        PROVE  t \in Seq(STRING)
    BY <2>1, SeqsWithin
  <2>3. QED
    BY <2>2 DEF Texts
<1>2. Lines \subseteq Texts /\ Needles \subseteq Texts /\ Replacements \subseteq Texts
  BY <1>1, CharArrayAssumption
<1> HIDE DEF Some
<1>3. Seq(Some) \ {<<>>} \subseteq Seq(Texts) \ {<<>>}
  <2>1. ASSUME NEW t \in Seq(Some)
        PROVE  t \in Seq(Texts)
    BY <1>1, SeqsWithin
  <2>2. QED
    BY <2>1
<1>4. ASSUME NEW rows \in Tables
      PROVE  rows \in Seq(Seq(Texts) \ {<<>>})
  <2>1. rows \in Seq(Seq(Some) \ {<<>>})
    BY CharArrayAssumption DEF Some
  <2>2. QED
    BY <1>3, <2>1, SeqsWithin
<1>5. ASSUME NEW rows \in Tables
      PROVE  [i \in DOMAIN rows |-> rows[i][1]] \in Seq(Texts)
  <2>1. PICK n \in Nat : n = Len(rows) /\ DOMAIN rows = 1..n
    BY <1>4, LenProperties
  <2>2. \A i \in 1..n : rows[i] \in Seq(Texts) \ {<<>>}
    BY <1>4, <2>1, LenProperties
  <2>3. \A i \in 1..n : rows[i][1] \in Texts
    BY <2>2, TailIs
  <2>4. PICK f : f = [i \in DOMAIN rows |-> rows[i][1]]
    OBVIOUS
  <2>5. f \in [1..n -> Texts]
    BY <2>1, <2>3, <2>4
  <2>6. QED
    BY <2>4, <2>5, MadeSeq
<1>6. Failures \subseteq Int
  BY DEF Failures
<1>7. QED
  BY <1>2, <1>4, <1>5, <1>6

-----------------------------------------------------------------------------
(* The steps.                                                               *)
LEMMA ReadyIs ==
  ASSUME IInv, Ready
  PROVE  life = "ready" /\ root.ok /\ Owned(root) /\ root.row_amount \in Nat /\ RowNumbers \subseteq Nat
<1>1. life = "ready" /\ root.ok /\ Owned(root)
  BY DEF IInv, Ready
<1>2. root.row_amount \in Nat
  BY <1>1, FieldsAre DEF Owned
<1>3. RowNumbers \subseteq Nat
  BY <1>2 DEF RowNumbers
<1>4. QED
  BY <1>1, <1>2, <1>3

LEMMA PutSteps ==
  ASSUME IInv, Put
  PROVE  Steps
<1>1. life = "ready" /\ root.ok /\ Owned(root) /\ RowNumbers \subseteq Nat
  BY ReadyIs DEF Put
<1>2. PICK line \in Lines, failing \in Failures :
        \/ Return("add", <<line>>, charArray_add(root, line, failing))
        \/ \E before_position \in RowNumbers :
             Return("insert", <<before_position, line>>,
                    charArray_insert(root, before_position, line, failing))
  BY DEF Put
<1>3. line \in Texts /\ failing \in Int
  BY ArgumentsAre
<1>4. CASE Return("add", <<line>>, charArray_add(root, line, failing))
  <2>1. PICK s : s = charArray_add(root, line, failing)
    OBVIOUS
  <2>2. Grows(root, s)
    BY <1>1, <1>3, <2>1, AddGrows
  <2>3. Sound("add", <<line>>, s)
    BY <1>1, <2>2, GrowsSound
  <2>4. QED
    BY <1>1, <1>4, <2>1, <2>3, Reporting
<1>5. ASSUME NEW before_position \in RowNumbers,
             Return("insert", <<before_position, line>>,
                    charArray_insert(root, before_position, line, failing))
      PROVE  Steps
  <2>1. PICK s : s = charArray_insert(root, before_position, line, failing)
    OBVIOUS
  <2>2. before_position \in Nat
    BY <1>1
  <2>3. Grows(root, s)
    BY <1>1, <1>3, <2>1, <2>2, InsertGrows
  <2>4. Sound("insert", <<before_position, line>>, s)
    BY <1>1, <2>3, GrowsSound
  <2>5. QED
    BY <1>1, <1>5, <2>1, <2>4, Reporting
<1>6. QED
  BY <1>2, <1>4, <1>5

LEMMA RewriteSteps ==
  ASSUME IInv, Rewrite
  PROVE  Steps
<1>1. life = "ready" /\ root.ok /\ Owned(root) /\ RowNumbers \subseteq Nat
  BY ReadyIs DEF Rewrite
<1>2. PICK line \in Lines, row \in RowNumbers :
        \/ row > 0 /\ Return("replace", <<row, line>>, charArray_replace(root, row, line))
        \/ Return("col_append", <<row, line>>, charArray_col_append(root, row, line))
  BY DEF Rewrite
<1>3. line \in Texts /\ row \in Nat
  BY <1>1, ArgumentsAre
<1>4. ASSUME row > 0, Return("replace", <<row, line>>, charArray_replace(root, row, line))
      PROVE  Steps
  <2>1. PICK s : s = charArray_replace(root, row, line)
    OBVIOUS
  <2>2. row \in Nat \ {0}
    BY <1>3, <1>4
  <2>3. Rewrites(root, s)
    BY <1>1, <1>3, <2>1, <2>2, ReplaceRewrites
  <2>4. "replace" \in Rewriting
    BY DEF Rewriting
  <2>5. Sound("replace", <<row, line>>, s)
    BY <1>1, <2>3, <2>4, RewritesSound
  <2>6. QED
    BY <1>1, <1>4, <2>1, <2>5, Reporting
<1>5. CASE Return("col_append", <<row, line>>, charArray_col_append(root, row, line))
  <2>1. PICK s : s = charArray_col_append(root, row, line)
    OBVIOUS
  <2>2. Grows(root, s)
    BY <1>1, <1>3, <2>1, ColAppendGrows
  <2>3. Sound("col_append", <<row, line>>, s)
    BY <1>1, <2>2, GrowsSound
  <2>4. QED
    BY <1>1, <1>5, <2>1, <2>3, Reporting
<1>6. QED
  BY <1>2, <1>4, <1>5

LEMMA RemoveRowsSteps ==
  ASSUME IInv, RemoveRows
  PROVE  Steps
<1>1. life = "ready" /\ root.ok /\ Owned(root) /\ RowNumbers \subseteq Nat
  BY ReadyIs DEF RemoveRows
<1>2. {"remove", "removeAllBefore", "removeThat", "removeThatEx", "Zero"} \subseteq Removing
  BY DEF Removing
<1>3. ASSUME NEW index \in RowNumbers,
             Return("remove", <<index>>, charArray_removeLineWithIndex(root, index))
      PROVE  Steps
  <2>1. PICK s : s = charArray_removeLineWithIndex(root, index)
    OBVIOUS
  <2>2. Loses(root, s)
    BY <1>1, <2>1, RemoveLineLoses
  <2>3. Sound("remove", <<index>>, s)
    BY <1>1, <2>2, LosesSound
  <2>4. QED
    BY <1>1, <1>3, <2>1, <2>3, Reporting
<1>4. ASSUME NEW index \in RowNumbers,
             Return("removeAllBefore", <<index>>,
                    charArray_removeLineWithIndexAndAllBefore(root, index))
      PROVE  Steps
  <2>1. PICK s : s = charArray_removeLineWithIndexAndAllBefore(root, index)
    OBVIOUS
  <2>2. Shrinks(root, s)
    BY <1>1, <2>1, RemoveAllBeforeShrinks
  <2>3. Sound("removeAllBefore", <<index>>, s)
    BY <1>1, <1>2, <2>2, ShrinksSound
  <2>4. QED
    BY <1>1, <1>4, <2>1, <2>3, Reporting
<1>5. ASSUME NEW needle \in Needles, NEW s, Return("removeThat", <<needle>>, s),
             \/ s = charArray_removeLineThatIs(root, needle)
             \/ s = charArray_removeLineThatMatches(root, needle)
      PROVE  Steps
  <2>1. Shrinks(root, s)
    BY <1>1, <1>5, RemoveThatIsShrinks, RemoveThatMatchesShrinks
  <2>2. Sound("removeThat", <<needle>>, s)
    BY <1>1, <1>2, <2>1, ShrinksSound
  <2>3. QED
    BY <1>1, <1>5, <2>2, Reporting
<1>6. ASSUME NEW needle \in Needles, NEW start \in RowNumbers,
             Return("removeThatEx", <<needle>>,
                    charArray_removeLineThatMatchesEx(root, needle, start))
      PROVE  Steps
  <2>1. PICK s : s = charArray_removeLineThatMatchesEx(root, needle, start)
    OBVIOUS
  <2>2. Loses(root, s)
    BY <1>1, <2>1, RemoveThatMatchesExLoses
  <2>3. Sound("removeThatEx", <<needle>>, s)
    BY <1>1, <2>2, LosesSound
  <2>4. QED
    BY <1>1, <1>6, <2>1, <2>3, Reporting
<1>7. ASSUME Return("Zero", <<>>, charArray_Zero(root))
      PROVE  Steps
  <2>1. PICK s : s = charArray_Zero(root)
    OBVIOUS
  <2>2. Shrinks(root, s)
    BY <1>1, <2>1, ZeroShrinks
  <2>3. Sound("Zero", <<>>, s)
    BY <1>1, <1>2, <2>2, ShrinksSound
  <2>4. QED
    BY <1>1, <1>7, <2>1, <2>3, Reporting
<1>8. QED
  BY <1>3, <1>4, <1>5, <1>6, <1>7, Zenon DEF RemoveRows

LEMMA CopySteps ==
  ASSUME IInv, Copy
  PROVE  Steps
<1>1. life = "ready" /\ root.ok /\ Owned(root)
  BY ReadyIs DEF Copy
<1>2. PICK rows \in Tables, failing \in Failures :
        \/ Return("appendArray", <<rows>>, charArray_appendArray(root, rows, failing))
        \/ Return("updateArray", <<rows>>, charArray_updateArray(root, rows, failing))
  BY DEF Copy
<1>3. rows \in Seq(Seq(Texts) \ {<<>>}) /\ failing \in Int
  BY ArgumentsAre
<1>4. CASE Return("appendArray", <<rows>>, charArray_appendArray(root, rows, failing))
  <2>1. PICK s : s = charArray_appendArray(root, rows, failing)
    OBVIOUS
  <2>2. Grows(root, s)
    BY <1>1, <1>3, <2>1, AppendArrayGrows
  <2>3. Sound("appendArray", <<rows>>, s)
    BY <1>1, <2>2, GrowsSound
  <2>4. QED
    BY <1>1, <1>4, <2>1, <2>3, Reporting
<1>5. CASE Return("updateArray", <<rows>>, charArray_updateArray(root, rows, failing))
  <2>1. PICK s : s = charArray_updateArray(root, rows, failing)
    OBVIOUS
  <2>2. Owned(s) /\ Safe(root, s)
    BY <1>1, <1>3, <2>1, UpdateArrayOwned
  <2>3. Kept("updateArray", root, s)
    BY DEF Kept, Rewriting, Removing
  <2>4. Sound("updateArray", <<rows>>, s)
    BY <1>1, <2>2, <2>3 DEF Sound, Safe
  <2>5. QED
    BY <1>1, <1>5, <2>1, <2>4, Reporting
<1>6. QED
  BY <1>2, <1>4, <1>5

LEMMA SubstituteSteps ==
  ASSUME IInv, Substitute
  PROVE  Steps
<1>1. life = "ready" /\ root.ok /\ Owned(root)
  BY ReadyIs DEF Substitute
<1>2. ASSUME NEW needle \in Needles, NEW failing \in Failures, NEW replacement \in Replacements,
             NEW all \in BOOLEAN,
             Return("substitute", <<needle, replacement>>,
                    charArray_substituteInLineThatMatches(root, needle, replacement, all, failing))
      PROVE  Steps
  <2>1. PICK s : s = charArray_substituteInLineThatMatches(root, needle, replacement, all, failing)
    OBVIOUS
  <2>2. needle \in Texts /\ replacement \in Texts /\ failing \in Int
    BY ArgumentsAre
  <2>3. /\ Keeps(root, s)
        /\ s.ok \/ s.starved \/ \E i \in Used(root) : Overruns(Line(root, i), needle, replacement)
    BY <1>1, <2>1, <2>2, SubstituteKeeps
  <2>4. PICK arguments : arguments = <<needle, replacement>>
    OBVIOUS
  <2>5. arguments[1] = needle /\ arguments[2] = replacement
    BY <2>4
  <2>6. ASSUME NEW i \in Used(root), Overruns(Line(root, i), needle, replacement)
        PROVE  Forgiven(root, "substitute", arguments)
    BY <2>5, <2>6 DEF Overruns, Pieces, Forgiven
  <2>7. Kept("substitute", root, s)
    BY <2>3 DEF Keeps, Stays, Kept, Rewriting
  <2>8. Sound("substitute", arguments, s)
    BY <2>3, <2>6, <2>7 DEF Keeps, Sound
  <2>9. QED
    BY <1>1, <1>2, <2>1, <2>4, <2>8, Reporting
<1>3. ASSUME NEW needle \in Needles, NEW failing \in Failures, NEW rows \in Tables,
             Return("substituteArray", <<needle>>,
                    charArray_substituteArrayInLineThatMatches(
                      root, needle, [i \in DOMAIN rows |-> rows[i][1]], failing))
      PROVE  Steps
  <2>1. PICK lines : lines = [i \in DOMAIN rows |-> rows[i][1]]
    OBVIOUS
  <2>2. PICK s : s = charArray_substituteArrayInLineThatMatches(root, needle, lines, failing)
    OBVIOUS
  <2>3. needle \in Texts /\ lines \in Seq(Texts) /\ failing \in Int
    BY <2>1, ArgumentsAre
  <2>4. Rewrites(root, s)
    BY <1>1, <2>2, <2>3, SubstituteArrayRewrites
  <2>5. "substituteArray" \in Rewriting
    BY DEF Rewriting
  <2>6. Sound("substituteArray", <<needle>>, s)
    BY <1>1, <2>4, <2>5, RewritesSound
  <2>7. QED
    BY <1>1, <1>3, <2>1, <2>2, <2>6, Reporting
<1>4. QED
  BY <1>2, <1>3, Zenon DEF Substitute

LEMMA SplitColumnsSteps ==
  ASSUME IInv, SplitColumns
  PROVE  Steps
<1>1. life = "ready" /\ root.ok /\ Owned(root)
  BY ReadyIs DEF SplitColumns
<1>2. PICK delimiter \in Needles :
        Return("splitTag", <<delimiter>>, charArray_splitTag(root, delimiter))
  BY DEF SplitColumns
<1>3. PICK s : s = charArray_splitTag(root, delimiter)
  OBVIOUS
<1>4. Rewrites(root, s)
  BY <1>1, <1>3, SplitTagRewrites, ArgumentsAre
<1>5. "splitTag" \in Rewriting
  BY DEF Rewriting
<1>6. Sound("splitTag", <<delimiter>>, s)
  BY <1>1, <1>4, <1>5, RewritesSound
<1>7. QED
  BY <1>1, <1>2, <1>3, <1>6, Reporting

LEMMA SortSteps ==
  ASSUME IInv, SortMixed = FALSE, Sort
  PROVE  Steps
<1>1. life = "ready" /\ root.ok /\ Owned(root) /\ Uniform(root)
  BY ReadyIs DEF Sort
<1>2. PICK column \in 1..ColMax, descending \in BOOLEAN, first \in Used(root) :
        Return(IF first = 1 THEN "qsort" ELSE "qsortPart", <<column, descending>>,
               charArray_qsort(root, column, descending, first, root.row_amount))
  BY DEF Sort
<1>3. PICK op : op = IF first = 1 THEN "qsort" ELSE "qsortPart"
  OBVIOUS
<1>4. PICK s : s = charArray_qsort(root, column, descending, first, root.row_amount)
  OBVIOUS
<1>5. Grows(root, s)
  BY <1>1, <1>4, QsortGrows
<1>6. Sound(op, <<column, descending>>, s)
  BY <1>1, <1>5, GrowsSound
<1>7. QED
  BY <1>1, <1>2, <1>3, <1>4, <1>6, Reporting

(* A call that only reports leaves everything else.                         *)
LEMMA NotedSteps ==
  ASSUME IInv, life' = life, Noted(root, root'), root'.ok = root.ok
  PROVE  Steps
<1>1. Owned(root') /\ Stays(root, root') /\ Steady(root, root')
  BY NotedOwned DEF IInv
<1>2. IInv'
  BY <1>1 DEF IInv
<1>3. Stable
  BY <1>1 DEF Stable, Kept, Stays, Steady
<1>4. Suffices
  BY DEF Suffices
<1>5. QED
  BY <1>2, <1>3, <1>4 DEF Steps

LEMMA ErrorSteps ==
  ASSUME IInv, life' = life, NEW code \in Int, root' = Error(root, code)
  PROVE  Steps
<1>1. root \in Records
  BY DEF IInv, Owned
<1>2. Noted(root, root') /\ root'.ok = root.ok
  BY <1>1, ErrorNotes
<1>3. QED
  BY <1>2, NotedSteps

LEMMA AnswerSteps ==
  ASSUME IInv, NEW found, found.ret \in Int, Answer(found)
  PROVE  Steps
BY ErrorSteps DEF Answer

LEMMA FoundIs ==
  ASSUME NEW r, NEW i
  PROVE  Found(r, i).ret \in Int
BY DEF Found

LEMMA NotFoundIs ==
  ASSUME NEW code \in Int
  PROVE  NotFound(code).ret \in Int
BY DEF NotFound

LEMMA IndexWithKeyIs ==
  ASSUME NEW r, NEW needle
  PROVE  charArray_getIndexWithKey(r, needle).ret \in Int
<1>1. PICK i : i = FirstRow(r, 1, r.row_amount, LAMBDA line : Has(line, needle))
  OBVIOUS
<1>2. charArray_getIndexWithKey(r, needle) = IF needle = <<>> THEN NotFound(-6) ELSE Found(r, i)
  BY <1>1, Zenon DEF charArray_getIndexWithKey
<1>3. QED
  BY <1>2, FoundIs, NotFoundIs

LEMMA ColumnWithKeyIs ==
  ASSUME NEW r, NEW needle, NEW column
  PROVE  charArray_getColumnWithKey(r, needle, column).ret \in Int
<1>1. PICK i : i = FirstRow(r, 1, r.row_amount, LAMBDA line : line \in Alternatives(needle, FALSE))
  OBVIOUS
<1>2. PICK found : found = [Found(r, i) EXCEPT !.cell = r.array[i][column]]
  OBVIOUS
<1>3. found.ret \in Int
  BY <1>2 DEF Found
<1>4. charArray_getColumnWithKey(r, needle, column) =
        IF needle = <<>> THEN NotFound(-6)
        ELSE IF i = 0 \/ r.array[i][column] = Null THEN NotFound(0) ELSE found
  BY <1>1, <1>2, Zenon DEF charArray_getColumnWithKey
<1>5. QED
  BY <1>3, <1>4, NotFoundIs

LEMMA LineThatMatchesExIs ==
  ASSUME NEW r, NEW needle, NEW start, NEW stop
  PROVE  charArray_getLineThatMatchesEx(r, needle, start, stop).ret \in Int
<1>1. PICK to : to = IF stop = 0 \/ stop > r.row_amount THEN r.row_amount ELSE stop
  OBVIOUS
<1>2. PICK from : from = IF start > r.row_amount THEN r.row_amount ELSE start
  OBVIOUS
<1>3. PICK i : i = FirstRow(r, from, to, LAMBDA line : Matches(line, needle))
  OBVIOUS
<1>4. charArray_getLineThatMatchesEx(r, needle, start, stop) =
        IF stop > 0 /\ stop < start THEN NotFound(-4)
        ELSE IF needle = <<>> THEN NotFound(-7)
        ELSE IF r.row_amount = 0 THEN NotFound(-445) ELSE Found(r, i)
  BY <1>1, <1>2, <1>3, Zenon DEF charArray_getLineThatMatchesEx
<1>5. QED
  BY <1>4, FoundIs, NotFoundIs

LEMMA LineThatMatchesIs ==
  ASSUME NEW r, NEW needle
  PROVE  charArray_getLineThatMatches(r, needle).ret \in Int
<1>1. PICK i : i = FirstRow(r, 1, r.row_amount, LAMBDA line : Matches(line, needle))
  OBVIOUS
<1>2. charArray_getLineThatMatches(r, needle) = IF needle = <<>> THEN NotFound(-5) ELSE Found(r, i)
  BY <1>1, Zenon DEF charArray_getLineThatMatches
<1>3. QED
  BY <1>2, FoundIs, NotFoundIs

LEMMA LineThatIsIs ==
  ASSUME NEW r, NEW lookup
  PROVE  charArray_getLineThatIs(r, lookup).ret \in Int
<1>1. PICK i : i = FirstRow(r, 1, r.row_amount, LAMBDA line : line = lookup)
  OBVIOUS
<1>2. charArray_getLineThatIs(r, lookup) = IF lookup = <<>> THEN NotFound(-5) ELSE Found(r, i)
  BY <1>1, Zenon DEF charArray_getLineThatIs
<1>3. QED
  BY <1>2, FoundIs, NotFoundIs

LEMMA LookupSteps ==
  ASSUME IInv, Lookup
  PROVE  Steps
<1>1. ASSUME NEW needle \in Needles
      PROVE  /\ Answer(charArray_getIndexWithKey(root, needle)) => Steps
             /\ Answer(charArray_getLineThatMatches(root, needle)) => Steps
             /\ Answer(charArray_getLineThatIs(root, needle)) => Steps
  BY AnswerSteps, IndexWithKeyIs, LineThatMatchesIs, LineThatIsIs
<1>2. ASSUME NEW needle \in Needles, NEW column \in 1..ColMax,
             Answer(charArray_getColumnWithKey(root, needle, column))
      PROVE  Steps
  BY <1>2, AnswerSteps, ColumnWithKeyIs
<1>3. ASSUME NEW needle \in Needles, NEW start \in RowNumbers, NEW stop \in RowNumbers,
             Answer(charArray_getLineThatMatchesEx(root, needle, start, stop))
      PROVE  Steps
  BY <1>3, AnswerSteps, LineThatMatchesExIs
<1>4. ASSUME NEW row \in RowNumbers, Answer(charArray_getLine(root, row))
      PROVE  Steps
  <2>1. charArray_getLine(root, row).ret \in Int
    BY FoundIs, NotFoundIs DEF charArray_getLine
  <2>2. QED
    BY <1>4, <2>1, AnswerSteps
<1>5. ASSUME NEW rows \in Tables,
             Answer(NotFound(charArray_cmp(root, [i \in DOMAIN rows |-> rows[i][1]])))
      PROVE  Steps
  <2>1. PICK code : code = charArray_cmp(root, [i \in DOMAIN rows |-> rows[i][1]])
    OBVIOUS
  <2>2. code \in Int
    BY <2>1 DEF charArray_cmp
  <2>3. QED
    BY <1>5, <2>1, <2>2, AnswerSteps, NotFoundIs
<1>6. QED
  BY <1>1, <1>2, <1>3, <1>4, <1>5, Zenon DEF Lookup

LEMMA BufferReturns == charArray_to_buffer(root).ret \in Int
BY DEF charArray_to_buffer

LEMMA WriteSteps ==
  ASSUME IInv, NEW op, NEW text, NEW ret \in Int, Write(op, text, ret)
  PROVE  Steps
BY ErrorSteps DEF Write

LEMMA WriteOutSteps ==
  ASSUME IInv, WriteOut
  PROVE  Steps
<1>1. PICK ret \in Int : \E op, text : Write(op, text, ret)
  <2>1. 1 \in Int
    OBVIOUS
  <2>2. QED
    BY <2>1, BufferReturns, Zenon DEF WriteOut
<1>2. QED
  BY <1>1, WriteSteps

LEMMA ConsumeSteps ==
  ASSUME IInv, Consume
  PROVE  Steps
<1>1. root \in Records
  BY DEF IInv, Owned
<1>2. root' = [root EXCEPT !.ret = 1, !.short = FALSE] /\ life' = life
  BY DEF Consume
<1>3. PICK one \in Int, never \in BOOLEAN : one = 1 /\ never = FALSE
  <2>1. 1 \in Int /\ FALSE \in BOOLEAN
    OBVIOUS
  <2>2. QED
    BY <2>1, Zenon
<1>4. root' = [root EXCEPT !.ret = one, !.short = never]
  BY <1>2, <1>3
<1>5. Noted(root, root') /\ root'.ok = root.ok
  BY <1>1, <1>4 DEF Noted, SameRows, Records
<1>6. QED
  BY <1>2, <1>5, NotedSteps

LEMMA ConstructorSteps ==
  ASSUME IInv, Constructor
  PROVE  Steps
<1>1. Owned(root) /\ root.ok /\ life = "raw"
  BY DEF IInv, Constructor
<1>2. Owned(root') /\ root'.ok /\ life' \in {"raw", "ready"}
  <2>1. CASE root' = Constructed(root) /\ life' = "ready"
    BY <1>1, <2>1, ConstructedOwned
  <2>2. CASE root' = Error(root, MALLOC) /\ life' = "raw"
    <3>1. MALLOC \in Int /\ root \in Records
      BY <1>1 DEF MALLOC, Owned
    <3>2. Noted(root, root') /\ root'.ok = root.ok
      BY <2>2, <3>1, ErrorNotes
    <3>3. QED
      BY <1>1, <2>2, <3>2, NotedOwned
  <2>3. QED
    BY <2>1, <2>2 DEF Constructor, Constructed
<1>3. IInv'
  BY <1>2 DEF IInv
<1>4. Stable /\ Suffices
  BY <1>1 DEF Stable, Suffices
<1>5. QED
  BY <1>3, <1>4 DEF Steps

LEMMA DestructorSteps ==
  ASSUME IInv, Destructor
  PROVE  Steps
<1>1. Owned(root) /\ root.ok
  BY ReadyIs DEF Destructor
<1>2. Owned(root') /\ root'.ok /\ life' = "raw"
  BY <1>1, DestructorOwned DEF Destructor
<1>3. IInv'
  BY <1>2 DEF IInv
<1>4. Stable /\ Suffices
  BY <1>2 DEF Stable, Suffices
<1>5. QED
  BY <1>3, <1>4 DEF Steps

LEMMA StutterSteps ==
  ASSUME IInv, UNCHANGED vars
  PROVE  Steps
<1>1. life' = life /\ root' = root
  BY DEF vars
<1>2. root \in Records
  BY DEF IInv, Owned
<1>3. Noted(root, root')
  BY <1>1, <1>2 DEF Noted, SameRows
<1>4. QED
  BY <1>1, <1>3, NotedSteps

LEMMA EveryStep ==
  ASSUME IInv, SortMixed = FALSE, [Next]_vars
  PROVE  Steps
<1>1. CASE Put
  BY <1>1, PutSteps
<1>2. CASE Rewrite
  BY <1>2, RewriteSteps
<1>3. CASE RemoveRows
  BY <1>3, RemoveRowsSteps
<1>4. CASE Copy
  BY <1>4, CopySteps
<1>5. CASE Substitute
  BY <1>5, SubstituteSteps
<1>6. CASE SplitColumns
  BY <1>6, SplitColumnsSteps
<1>7. CASE Sort
  BY <1>7, SortSteps
<1>8. CASE Lookup
  BY <1>8, LookupSteps
<1>9. CASE WriteOut
  BY <1>9, WriteOutSteps
<1>10. CASE Constructor
  BY <1>10, ConstructorSteps
<1>11. CASE Destructor
  BY <1>11, DestructorSteps
<1>12. CASE Consume
  BY <1>12, ConsumeSteps
<1>13. CASE Broken \/ UNCHANGED vars
  BY <1>13, StutterSteps DEF Broken
<1>14. QED
  BY <1>1, <1>2, <1>3, <1>4, <1>5, <1>6, <1>7, <1>8, <1>9, <1>10, <1>11, <1>12, <1>13 DEF Next

LEMMA Starts ==
  ASSUME Init
  PROVE  IInv
<1>1. root \in Records /\ root.array = <<>> /\ root.buffersize = <<>> /\ root.row_amount = 0 /\ root.ok
  BY NoRowsAre DEF Init
<1>2. Owned(root)
  BY <1>1, EmptiedOwned
<1>3. QED
  BY <1>1, <1>2 DEF Init, IInv

(* The inductive invariant holds where arrays of mixed rows are not sorted. *)
LEMMA Invariant ==
  ASSUME SortMixed = FALSE
  PROVE  Spec => []IInv
<1>1. Init => IInv
  BY Starts
<1>2. IInv /\ [Next]_vars => IInv'
  BY EveryStep DEF Steps
<1>3. QED
  BY <1>1, <1>2, PTL DEF Spec

LEMMA OwnedCells ==
  ASSUME IInv
  PROVE  CellsOwned
<1>1. Owned(root) /\ Freed \notin Texts /\ Used(root) \subseteq InUse(root)
  BY Constants, HeldIs DEF IInv
<1>2. root.row_amount \in 0..Len(root.array) /\ Len(root.array) = Len(root.buffersize)
  BY <1>1, FieldsAre DEF Owned, Filled, Sized
<1>3. \A i \in Used(root) : i \in InUse(root) /\ root.array[i][1] # Null
  BY <1>1 DEF Owned, Filled
<1>4. ASSUME NEW i \in InUse(root), NEW k \in InUse(root), NEW j \in 1..ColMax, NEW l \in 1..ColMax,
             root.array[i][j] # Null
      PROVE  /\ root.text[root.array[i][j]] # Freed
             /\ root.array[i][j] = root.array[k][l] => i = k /\ j = l
  <2>1. root.text[root.array[i][j]] \in Texts
    BY <1>1, <1>4 DEF Owned, Alive
  <2>2. root.array[i][j] = root.array[k][l] => i = k /\ j = l
    BY <1>1, <1>4 DEF Owned, Apart
  <2>3. QED
    BY <1>1, <2>1, <2>2
<1>5. SizesDescribeCells
  BY <1>1 DEF Owned, Sized, SizesDescribeCells
<1>6. life \in {"raw", "ready", "broken"}
  BY DEF IInv
<1>7. QED
  BY <1>2, <1>3, <1>4, <1>5, <1>6 DEF CellsOwned

(* Every row of toolbox-char-array.c, in use or spare, has cells of its own: *)
(* none is in two places, none was freed, each has its size with it.        *)
THEOREM CellsAlwaysOwned ==
  ASSUME SortMixed = FALSE
  PROVE  Spec => []CellsOwned
<1>1. Spec => []IInv
  BY Invariant
<1>2. IInv => CellsOwned
  BY OwnedCells
<1>3. QED
  BY <1>1, <1>2, PTL

(* A pointer to a line stays good while the array grows, is sorted, and     *)
(* loses other lines: its cell is neither freed nor written.                *)
THEOREM PointersStay ==
  ASSUME SortMixed = FALSE
  PROVE  Spec => PointersStable
<1>1. Spec => []IInv
  BY Invariant
<1>2. IInv /\ [Next]_vars =>
        [life = "ready" /\ life' = "ready" =>
           /\ call'.op \notin Rewriting =>
                \A a \in Held(root) \cap Held(root') : root'.text[a] = root.text[a]
           /\ call'.op \notin Removing => Held(root) \subseteq Held(root')]_vars
  BY EveryStep DEF Steps, Stable, Kept
<1>3. QED
  BY <1>1, <1>2, PTL DEF Spec, PointersStable

(* No call touches memory that is not the array's but for the exceptions    *)
(* PreconditionsSuffice names.                                              *)
THEOREM PreconditionsAlwaysSuffice ==
  ASSUME SortMixed = FALSE
  PROVE  Spec => PreconditionsSuffice
<1>1. Spec => []IInv
  BY Invariant
<1>2. IInv /\ [Next]_vars =>
        [life' = "broken" /\ life = "ready" =>
           \/ root'.starved
           \/ call'.op \in {"remove", "removeThatEx"} /\ root.row_amount = 0
           \/ /\ call'.op = "substitute"
              /\ \E i \in Used(root) :
                   \/ Len(Split(Line(root, i), call'.arguments[1], FALSE)) > 2
                   \/ Fills(Line(root, i), call'.arguments[1], call'.arguments[2])
           \/ call'.op \in {"qsort", "qsortPart"} /\ ~ Uniform(root)]_vars
  BY EveryStep DEF Steps, Suffices, Forgiven
<1>3. QED
  BY <1>1, <1>2, PTL DEF Spec, PreconditionsSuffice
=============================================================================
