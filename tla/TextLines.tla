----------------------------- MODULE TextLines -----------------------------
(***************************************************************************)
(* Text as toolbox-line-parser.c and toolbox-char-array.c take it apart:   *)
(* a string is a sequence of characters.  The parsing functions here are   *)
(* pure; LineParser adds the workspace, the error returns and the global   *)
(* greediness, CharArray the storage of lines.                             *)
(***************************************************************************)
EXTENDS Integers, Sequences, FiniteSets, SequencesExt

(* strstr: the position of the first occurrence of needle, 0 if none.      *)
strstr(line, needle) ==
  LET Hits == {i \in 1..Len(line) - Len(needle) + 1 :
                 SubSeq(line, i, i + Len(needle) - 1) = needle}
  IN  IF Hits = {} THEN 0 ELSE CHOOSE i \in Hits : \A j \in Hits : i <= j

Has(line, needle) == strstr(line, needle) > 0

(* The text from position i on, and the text before it; none at position 0. *)
From(line, i) == IF i = 0 THEN <<>> ELSE SubSeq(line, i, Len(line))

Before(line, i) == SubSeq(line, 1, i - 1)

(* The part of text up to the first occurrence of mark, all of it if none. *)
Until(text, mark) == IF Has(text, mark) THEN Before(text, strstr(text, mark)) ELSE text

(* Mutant of Split: the empty piece after a final tag is forgotten.        *)
SplitForgetsEnd(line, tag, greedy) ==
  LET Pieces[rest \in Seq(STRING)] ==
        LET at == strstr(rest, tag)
            piece == Before(rest, at)
            tail == From(rest, at + Len(tag))
        IN  IF rest = <<>> THEN <<>>
            ELSE IF at = 0 THEN <<rest>>
            ELSE (IF piece # <<>> \/ ~greedy THEN <<piece>> ELSE <<>>) \o Pieces[tail]
  IN  Pieces[line]

-----------------------------------------------------------------------------
(* The loop of lineParser_splitTag.  A tag that ends the line adds an empty *)
(* piece only right after a nonempty one; a tag that starts the rest adds   *)
(* an empty piece unless splitting is greedy.                              *)
Split(line, tag, greedy) ==
  LET n == Len(tag)
      Pieces[rest \in Seq(STRING)] ==
        LET at == strstr(rest, tag)
            piece == Before(rest, at)
            tail == From(rest, at + n)
        IN  IF rest = <<>> THEN <<>>
            ELSE IF at = 0 THEN <<rest>>
            ELSE IF piece # <<>>
                 THEN <<piece>> \o (IF tail = <<>> THEN << <<>> >> ELSE <<>>) \o Pieces[tail]
                 ELSE (IF greedy THEN <<>> ELSE << <<>> >>) \o Pieces[tail]
  IN  Pieces[line]

(* lineParser_mergeTag joins with "::" whatever tag it is given.           *)
Merge(pieces) ==
  LET mark == <<":", ":">>
      all == FlattenSeq([i \in DOMAIN pieces |-> pieces[i] \o mark])
  IN  IF Len(all) > 2 THEN SubSeq(all, 1, Len(all) - 2) ELSE all

(* lineParser_stripSpacing: spaces on the left, spaces and newlines on the  *)
(* right.  Trimming on the left moves the text down and leaves its old end  *)
(* behind the new terminator; the loop from the right starts in that stale  *)
(* end, stops at the first other character it meets, and never clears the  *)
(* first character.                                                        *)
Blanks == {" ", "\n"}

LastInk(text) ==
  LET ink == {i \in DOMAIN text : text[i] \notin Blanks} \cup {1}
  IN  CHOOSE i \in ink : \A j \in ink : j <= i

LeftStripped(line) ==
  LET kept == {i \in DOMAIN line : line[i] # " "}
  IN  IF kept = {} THEN <<>> ELSE From(line, CHOOSE i \in kept : \A j \in kept : i <= j)

Strip(line, trim_left, trim_right) ==
  LET text == IF trim_left THEN LeftStripped(line) ELSE line
      stale == SubSeq(line, Len(text) + 2, Len(line))
  IN  IF trim_right /\ text # <<>> /\ ToSet(stale) \subseteq Blanks
      THEN SubSeq(text, 1, LastInk(text)) ELSE text

(* regexp_match: "x.*y" matches a line that holds x and y, in any order;    *)
(* "." "*" is one character here.                                          *)
Wild == <<"*">>

regexp_match(line, pattern, greedy) ==
  IF Has(pattern, Wild)
  THEN LET pieces == Split(pattern, Wild, greedy)
       IN  pieces # <<>> /\ \A i \in DOMAIN pieces : pieces[i] = <<>> \/ Has(line, pieces[i])
  ELSE Has(line, pattern)

(* The alternatives of a needle, separated by "|".                         *)
Alternatives(needle, greedy) ==
  IF Has(needle, <<"|">>) THEN ToSet(Split(needle, <<"|">>, greedy)) ELSE {needle}
=============================================================================
