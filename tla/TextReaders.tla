----------------------------- MODULE TextReaders -----------------------------
(***************************************************************************)
(* toolbox-text-file-reader.c and toolbox-text-buffer-reader.c: lines out   *)
(* of a file that is read in pieces, and out of a buffer in memory.  One    *)
(* call of GetLine is a function of the reader's state; a call returns the  *)
(* reader, the text it delivers and a code.                                *)
(***************************************************************************)
EXTENDS TextLines

CONSTANTS
  B,  \* TOOLBOX_TEXT_FILE_READER_BUFFER_SIZE, 1024 in the code
  M   \* TEXT_BUFFER_READER_MAX_LINE_SIZE

ASSUME ReaderAssumption == B \in Nat /\ B > 2 /\ M \in Nat /\ M > 1

Newline == "\n"

Return == "\r"

(* The provers do not know what a string is.                                *)
ASSUME NamedEnds == {Newline, Return} \subseteq STRING

CONTINUE_READING == -199

BUFFER_TOO_SMALL == -552

Least(a, b) == IF a < b THEN a ELSE b

LastIs(text, c) == text # <<>> /\ Last(text) = c

-----------------------------------------------------------------------------
(* TextFileReader_Constructor: left is what has not been read of the file,  *)
(* buf the valid part of the buffer, off the place reached in it, save a    *)
(* return character kept back at the end of the buffer.                    *)
TextFileReader(file) ==
  [left |-> file, eof |-> FALSE, buf |-> <<>>, off |-> 0, save |-> <<>>]

Readers ==
  {r \in [left : Seq(STRING), eof : BOOLEAN, buf : Seq(STRING), off : Nat, save : Seq(STRING)] :
     Len(r.buf) < B /\ Len(r.save) <= 1}

(* The buffer is refilled: what was kept back comes first, a buffer that is *)
(* used up is emptied, and fread appends what there is room for.           *)
Refill(r) ==
  LET kept == IF r.save = <<>> THEN r ELSE [r EXCEPT !.buf = r.save, !.off = 0, !.save = <<>>]
      reset == IF kept.off >= Len(kept.buf) THEN [kept EXCEPT !.buf = <<>>, !.off = 0] ELSE kept
      room == B - Len(reset.buf) - 1
      got == Least(room, Len(reset.left))
  IN  [reset EXCEPT !.buf = @ \o SubSeq(reset.left, 1, got),
                    !.left = From(@, got + 1),
                    !.eof = @ \/ got < room]

Rest(r) == From(r.buf, r.off + 1)

Consumed(r, n) ==
  IF r.off + n >= Len(r.buf) THEN [r EXCEPT !.buf = <<>>, !.off = 0] ELSE [r EXCEPT !.off = @ + n]

(* What still fits of a text of some length into the caller's buffer, which *)
(* grows when size is 0.                                                   *)
Fitting(size, text, length) ==
  IF size > 0 /\ length + Len(text) >= size THEN size - Len(text) - 1 ELSE length

Delivers(r, text, ret) == [reader |-> r, text |-> text, ret |-> ret]

(* The newline is in the buffer.  Of a line that does not fit the rest is   *)
(* skipped.                                                                *)
EndLine(r, text, size) ==
  LET length == strstr(Rest(r), <<Newline>>) - 1
      fits == Fitting(size, text, length)
      piece == SubSeq(Rest(r), 1, fits)
  IN  Delivers(Consumed(r, length + 1),
               text \o (IF LastIs(piece, Return) THEN Front(piece) ELSE piece),
               IF fits < length THEN CONTINUE_READING ELSE 1)

(* The file ends without one; a return character ends the line, too.        *)
EndFile(r, text, size) ==
  LET tail == Until(Rest(r), <<Return>>)
  IN  Delivers([r EXCEPT !.buf = <<>>, !.off = 0],
               text \o SubSeq(tail, 1, Fitting(size, text, Len(tail))), 1)

(* Mutant of PassOn: the return character is passed on.                     *)
PassOnAll(r, text, size) ==
  LET fits == Fitting(size, text, Len(Rest(r)))
  IN  Delivers([r EXCEPT !.off = @ + fits], text \o SubSeq(Rest(r), 1, fits),
               IF fits < Len(Rest(r)) THEN CONTINUE_READING ELSE 1)

(* More of the line is to be read; a return character may belong to a       *)
(* newline and is kept back.                                               *)
PassOn(r, text, size) ==
  LET keep == LastIs(Rest(r), Return)
      whole == IF keep THEN Front(Rest(r)) ELSE Rest(r)
      fits == Fitting(size, text, Len(whole))
  IN  Delivers([r EXCEPT !.buf = IF keep THEN Front(@) ELSE @,
                         !.save = IF keep THEN <<Return>> ELSE <<>>,
                         !.off = @ + fits],
               text \o SubSeq(whole, 1, fits),
               IF fits < Len(whole) THEN CONTINUE_READING ELSE 1)

(* -13 ends the file, even when the last piece of its last line has been    *)
(* passed on: that line is lost to a caller that stops at an error.         *)
TextFileReader_GetLine(reader, size) ==
  LET Loop[c \in [reader : Readers, text : Seq(STRING)]] ==
        LET f == Refill(c.reader)
            more == PassOn(f, c.text, size)
        IN  IF f.buf = <<>> THEN Delivers(f, c.text, -13)
            ELSE IF Has(Rest(f), <<Newline>>) THEN EndLine(f, c.text, size)
            ELSE IF f.eof THEN EndFile(f, c.text, size)
            ELSE IF more.ret < 0 THEN more
            ELSE Loop[[reader |-> more.reader, text |-> more.text]]
  IN  Loop[[reader |-> reader, text |-> <<>>]]

-----------------------------------------------------------------------------
(* TextBufferReader_Constructor: a copy of the buffer.                     *)
TextBufferReader(buffer) == [buffer |-> buffer, offset |-> 0]

(* The empty lines at the start of a window, as a number of characters.     *)
EmptyLines(window) ==
  LET empty == {k \in 0..Len(window) :
                  /\ \A i \in 1..k : window[i] \in {Return, Newline}
                  /\ \A i \in 1..k : window[i] = Return => i < k /\ window[i + 1] = Newline}
  IN  CHOOSE k \in empty : \A l \in empty : l <= k

(* TextBufferReader_GetLine with a caller's buffer of M: a window of the    *)
(* buffer is searched for a line.  One that is not ended, and neither starts *)
(* at the offset and ends with the buffer, is delivered in part; the empty  *)
(* lines before it are not counted, and it starts too early next time.      *)
TextBufferReader_GetLine(r) ==
  LET left == Len(r.buffer) - r.offset
      window == SubSeq(r.buffer, r.offset + 1, r.offset + Least(M - 1, left))
      skipped == EmptyLines(window)
      line == From(window, skipped + 1)
      end == strstr(line, <<Newline>>)
      text == Before(line, end)
      part == IF LastIs(line, Return) THEN Front(line) ELSE line
      To(offset, t, ret) == Delivers([r EXCEPT !.offset = offset], t, ret)
  IN  IF window = <<>> THEN To(r.offset, <<>>, -10)
      ELSE IF line = <<>> THEN To(r.offset, <<>>, -21)
      ELSE IF end > 0
      THEN To(r.offset + skipped + end, IF LastIs(text, Return) THEN Front(text) ELSE text, 1)
      ELSE IF Len(line) = left THEN To(r.offset + Len(line), line, 1)
      ELSE To(r.offset + Len(part), part, CONTINUE_READING)

-----------------------------------------------------------------------------
(* The lines of a text as an editor shows them: ended by a newline, or by a *)
(* return and a newline; and how the last one goes on that is not ended.    *)
Plain(line) == IF LastIs(line, Return) THEN Front(line) ELSE line

EndedLines(text) ==
  LET Walk[rest \in Seq(STRING)] ==
        LET end == strstr(rest, <<Newline>>)
        IN  IF end = 0 THEN <<>> ELSE <<Before(rest, end)>> \o Walk[From(rest, end + 1)]
  IN  Walk[text]

LastLine(text) ==
  LET Walk[rest \in Seq(STRING)] ==
        LET end == strstr(rest, <<Newline>>)
        IN  IF end = 0 THEN rest ELSE Walk[From(rest, end + 1)]
  IN  Walk[text]

(* The ended lines that are not empty.                                      *)
InkLines(text) ==
  LET Walk[rest \in Seq(STRING)] ==
        LET end == strstr(rest, <<Newline>>)
            line == Plain(Before(rest, end))
        IN  IF end = 0 THEN <<>>
            ELSE (IF line = <<>> THEN <<>> ELSE <<line>>) \o Walk[From(rest, end + 1)]
  IN  Walk[text]
=============================================================================
