---------------------------- MODULE TextLoading ----------------------------
(***************************************************************************)
(* toolbox.c: the functions that pull a whole text through a reader, one   *)
(* GetLine at a time: into the rows of an array, into a caller's buffer,   *)
(* into a buffer that grows.  One behaviour is one call; the file does not *)
(* change under it.                                                        *)
(***************************************************************************)
EXTENDS TextReaders

CONSTANTS
  N,      \* buffer_size of the caller of file_to_buffer
  Files   \* the texts that are loaded

ASSUME LoadingAssumption == N \in Nat /\ N > 0 /\ \A f \in Files : f \in Seq(STRING)

VARIABLES
  file,   \* the text on the disk, or given as a buffer
  into,   \* the function that loads it
  reader,
  rows,   \* the rows of the array
  text,   \* the valid part of the buffer
  size,   \* bytes the buffer has
  over,   \* whether a byte behind the buffer was written
  phase   \* Reading, Loaded, or the error the function returned

loadVars == <<file, into, reader, rows, text, size, over, phase>>

Reading == 0
Loaded == 1

Start(function, room) ==
  /\ into = function
  /\ rows = <<>> /\ text = <<>> /\ size = room /\ over = FALSE /\ phase = Reading

(* putTextFileReader_into_charArray adds a row and lets GetLine reallocate  *)
(* it; a row for which there was no line is removed, except the first.     *)
StartArray == Start("array", 0) /\ reader = TextFileReader(file)

ReadRow ==
  /\ into = "array" /\ phase = Reading
  /\ LET line == TextFileReader_GetLine(reader, 0)
     IN  /\ reader' = line.reader
         /\ rows' = IF line.ret > 0 \/ rows = <<>> THEN Append(rows, line.text) ELSE rows
         /\ phase' = IF line.ret > 0 THEN Reading ELSE Loaded
  /\ UNCHANGED <<file, into, text, size, over>>

(* file_to_buffer: lines one behind another, a newline after each if there  *)
(* is room for it.                                                         *)
StartBuffer == Start("to_buffer", N) /\ reader = TextFileReader(file)

Ended(t, room) == IF room - Len(t) > 1 THEN Append(t, Newline) ELSE t

AppendLine ==
  /\ into = "to_buffer" /\ phase = Reading
  /\ LET line == TextFileReader_GetLine(reader, size - Len(text))
     IN  /\ reader' = line.reader
         /\ text' = IF line.ret > 0 THEN Ended(text \o line.text, size) ELSE text \o line.text
         /\ over' = (over \/ Len(text') >= size)
         /\ phase' = IF line.ret > 0 THEN Reading
                   ELSE IF line.ret = CONTINUE_READING THEN BUFFER_TOO_SMALL ELSE Loaded
  /\ UNCHANGED <<file, into, rows, size>>

(* file_to_buffer_malloc: the buffer grows whenever less than a reader's    *)
(* buffer and two bytes are free; the newline and the final zero are stored *)
(* before that.                                                            *)
StartMalloc == Start("malloc", 2 * B) /\ reader = TextFileReader(file)

(* Mutant of Grown: only a full buffer grows.                              *)
GrownLate(s, used) == IF s - used < 1 THEN s + B + 2 ELSE s

Grown(s, used) == IF s - used < B + 2 THEN s + B + 2 ELSE s

AppendAndGrow ==
  /\ into = "malloc" /\ phase = Reading
  /\ LET line == TextFileReader_GetLine(reader, size - Len(text))
         whole == line.ret # CONTINUE_READING
         more == text \o line.text \o (IF whole THEN <<Newline>> ELSE <<>>)
     IN  /\ reader' = line.reader
         /\ IF line.ret > 0 \/ ~whole
            THEN /\ text' = more
                 /\ over' = (over \/ Len(more) >= size)
                 /\ size' = Grown(size, Len(more))
                 /\ phase' = Reading
            ELSE phase' = Loaded /\ UNCHANGED <<text, over, size>>
  /\ UNCHANGED <<file, into, rows>>

(* buffer_to_array reads the text from memory; a line that is delivered in  *)
(* parts is left out but for its last part.                                *)
StartRows == Start("rows", M) /\ reader = TextBufferReader(file)

ReadBufferRow ==
  /\ into = "rows" /\ phase = Reading
  /\ LET line == TextBufferReader_GetLine(reader)
     IN  /\ reader' = line.reader
         /\ rows' = IF line.ret > 0 THEN Append(rows, line.text) ELSE rows
         /\ phase' = IF line.ret > 0 \/ line.ret = CONTINUE_READING THEN Reading ELSE Loaded
  /\ UNCHANGED <<file, into, text, size, over>>

LoadInit ==
  /\ file \in Files
  /\ StartArray \/ StartBuffer \/ StartMalloc \/ StartRows

LoadNext == ReadRow \/ AppendLine \/ AppendAndGrow \/ ReadBufferRow

-----------------------------------------------------------------------------
(* The lines of the file as an editor shows them.                          *)
FileLines == [i \in DOMAIN EndedLines(file) |-> Plain(EndedLines(file)[i])]

Shorter(lines, limit) == \A i \in DOMAIN lines : Len(lines[i]) < limit

(* From a buffer come the lines that are not empty, if each is ended, and   *)
(* with the empty lines before it fits into the reader's window.           *)
Windows(whole) ==
  \A i \in DOMAIN whole :
    i = 1 \/ whole[i - 1] = Newline =>
      LET empty == EmptyLines(From(whole, i))
      IN  empty + strstr(From(whole, i + empty), <<Newline>>) < M

RowsAreTheInk ==
  into = "rows" /\ phase = Loaded /\ LastLine(file) = <<>> /\ Windows(file) =>
     rows = InkLines(file)

(* In the array there is every line of the file, once, in order and without *)
(* its return character, wherever the pieces of the reader end.  Behind     *)
(* them there is at most the beginning of the line that is not ended (none  *)
(* if its last piece fills the buffer), or the first row if there is no line.*)
(* Of a text in memory, all but the empty lines.                           *)
RowsAreTheLines ==
  /\ RowsAreTheInk
  /\ into = "array" =>
       LET n == Len(FileLines)
       IN  IF phase = Loaded
           THEN /\ Len(rows) \in n..n + 1
                /\ IsPrefix(FileLines, rows)
                /\ Len(rows) = n + 1 => IsPrefix(Until(LastLine(file), <<Return>>), rows[n + 1])
           ELSE IsPrefix(rows, FileLines) \/ IsPrefix(FileLines, rows)

(* A buffer takes the file's lines, each with a newline, and no other text; *)
(* all of them unless it is full.  So does the one that grows, which is     *)
(* never written behind its end, as long as no line is longer than the      *)
(* reader's buffer: of a longer one a return character may cost a piece.    *)
BufferHoldsTheLines ==
  /\ into \in {"to_buffer", "malloc"}
  /\ into = "malloc" => Shorter(EndedLines(file) \o <<LastLine(file)>>, B + 1)
  => LET ended == FlattenSeq([i \in DOMAIN FileLines |-> Append(FileLines[i], Newline)])
         whole == ended \o LastLine(file)
     IN  /\ IsPrefix(text, whole) \/ (LastIs(text, Newline) /\ IsPrefix(Front(text), whole))
         /\ phase = Loaded => Len(text) = size - 1 \/ IsPrefix(ended, text)
         /\ ~over
=============================================================================
