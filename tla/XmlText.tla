------------------------------ MODULE XmlText ------------------------------
(***************************************************************************)
(* toolbox-xml.c: parsing text into elements and printing elements as text. *)
(* A text is a sequence of tokens: an opening, closing or empty tag with    *)
(* its name, or a piece of text between tags.  The elements are a sequence  *)
(* in the order of their opening tags, each with its depth, instead of      *)
(* linked lists in linked lists.  Attributes, which are kept with the       *)
(* element and not printed, and names and tags too long for the fixed       *)
(* buffers are left out.                                                   *)
(***************************************************************************)
EXTENDS Naturals, FiniteSets, Sequences, SequencesExt

CONSTANTS
  TagNames,     \* the names of tags
  LengthMax,    \* bound on the tokens of a document
  PrintsMax     \* bound on how often it is printed

ASSUME XmlAssumption == LengthMax \in Nat /\ PrintsMax \in Nat

VARIABLES
  document,    \* the text given to the parser, not written by it
  parser,      \* "none", "ready" once constructed, "trapped" at the __asm int 3
  elements,    \* its elements
  file,        \* what xml_Print has written
  prints       \* how often

xmlVars == <<document, parser, elements, file, prints>>

Tag(kind, name) == [kind |-> kind, name |-> name]
Word == Tag("text", "word")
NewLine == Tag("text", "newline")
Tokens == {Tag(k, n) : k \in {"open", "close", "empty"}, n \in TagNames} \cup {Word}
Texts == UNION {[1..n -> Tokens] : n \in 1..LengthMax}

(* A value is what stands between the tags, unless there are children.      *)
Element(depth, name, value) == [depth |-> depth, name |-> name, value |-> value, childs |-> FALSE]
Parent(depth, name) == [Element(depth, name, <<>>) EXCEPT !.childs = TRUE]
InlineText(depth, text) == Element(depth, "inlineText", text)

-----------------------------------------------------------------------------
Amount(text, tag, from, to) == Cardinality({i \in from..to : text[i] = tag})

(* Mutant of findClosingBrace: the first tag that closes the name.          *)
firstClosingBrace(text, name, from, end) ==
  LET closes == {c \in from..end - 1 : text[c] = Tag("close", name)}
  IN  IF closes = {} THEN 0 ELSE CHOOSE c \in closes : \A d \in closes : c <= d

(* The first tag that closes the name once more than it was opened since.   *)
findClosingBrace(text, name, from, end) ==
  LET closes == {c \in from..end - 1 :
                   /\ text[c] = Tag("close", name)
                   /\ Amount(text, Tag("close", name), from, c) = Amount(text, Tag("open", name), from, c) + 1}
  IN  IF closes = {} THEN 0 ELSE CHOOSE c \in closes : \A d \in closes : c <= d

(* xml_Slice from position `at' to before `end'.  `left' is where the text  *)
(* before the next tag starts and `matched' whether there was a tag before. *)
(* `found' says that there were children: text alone is none, nor is a tag  *)
(* that is never closed, which is passed over.                             *)
Slice(text) ==
  LET Positions == 1..Len(text) + 1
      Go[s \in [at : Positions, left : Positions, end : Positions, depth : Nat, matched : BOOLEAN]] ==
        LET tags == {i \in s.at..s.end - 1 : text[i].kind # "text"}
            tag == IF tags = {} THEN s.end ELSE CHOOSE i \in tags : \A j \in tags : i <= j
            before == IF s.left = tag THEN <<>> ELSE <<InlineText(s.depth, SubSeq(text, s.left, tag - 1))>>
            After(p) == Go[[s EXCEPT !.at = p, !.left = p, !.matched = TRUE]]
            Child(sub, rest, trap) == [items |-> before \o sub \o rest.items, found |-> TRUE,
                                       trap |-> trap \/ rest.trap]
            close == findClosingBrace(text, text[tag].name, tag + 1, s.end)
            inner == Go[[at |-> tag + 1, left |-> tag + 1, end |-> close, depth |-> s.depth + 1, matched |-> FALSE]]
            inside == SubSeq(text, tag + 1, close - 1)
        IN  IF tags = {}
            THEN [items |-> IF s.matched THEN before ELSE <<>>, found |-> FALSE, trap |-> FALSE]
            ELSE IF text[tag].kind = "empty"
            THEN Child(<<Element(s.depth, text[tag].name, <<>>)>>, After(tag + 1), FALSE)
            ELSE IF text[tag].kind = "close" \/ close = 0
            THEN [After(tag + 1) EXCEPT !.items = before \o @]
            ELSE IF inner.found
            THEN Child(<<Parent(s.depth, text[tag].name)>> \o inner.items, After(close + 1), inner.trap)
            ELSE Child(<<Element(s.depth, text[tag].name, inside)>> \o inner.items, After(close + 1),
                       \E i \in DOMAIN inside : inside[i].kind # "text")
  IN  Go[[at |-> 1, left |-> 1, end |-> Len(text) + 1, depth |-> 0, matched |-> FALSE]]

(* xml_Print2 of the elements from the k-th on that are at least this deep, *)
(* and at depth 0 the line end that xml_Print writes after each.            *)
Mark(depth) == IF depth = 0 THEN <<NewLine>> ELSE <<>>

Printed(items) ==
  LET Go[k \in 1..Len(items) + 1, open \in Seq(TagNames)] ==
        IF k > Len(items) \/ Len(open) > items[k].depth
        THEN IF open = <<>> THEN <<>>
             ELSE <<Tag("close", Last(open))>> \o Mark(Len(open) - 1) \o Go[k, Front(open)]
        ELSE IF items[k].name = "inlineText" THEN items[k].value \o Mark(items[k].depth) \o Go[k + 1, open]
        ELSE <<Tag("open", items[k].name)>> \o items[k].value
               \o Go[k + 1, Append(open, items[k].name)]
  IN  Go[1, <<>>]

-----------------------------------------------------------------------------
XmlInit ==
  /\ document \in Texts
  /\ parser = "none" /\ elements = <<>> /\ file = <<>>
  /\ prints = 0

Sliced(text) ==
  LET slice == Slice(text)
  IN  /\ parser = "none"
      /\ parser' = IF slice.trap THEN "trapped" ELSE "ready"
      /\ elements' = IF slice.trap THEN <<>> ELSE slice.items
      /\ UNCHANGED <<document, file, prints>>

xml_Constructor_fromBuffer ==
  /\ prints = 0
  /\ Sliced(document)

(* After parsing a file the constructor prints the elements, to a name of   *)
(* its own ("g:\\mserver.xml"), which is another file than the one parsed.  *)
xml_Constructor_fromFile ==
  /\ prints > 0
  /\ Sliced(file)

xml_Print ==
  /\ parser = "ready"
  /\ prints < PrintsMax
  /\ file' = Printed(elements)
  /\ prints' = prints + 1
  /\ UNCHANGED <<document, parser, elements>>

xml_Destructor ==
  /\ parser = "ready"
  /\ parser' = "none" /\ elements' = <<>>
  /\ UNCHANGED <<document, file, prints>>

XmlNext == xml_Constructor_fromBuffer \/ xml_Constructor_fromFile \/ xml_Print \/ xml_Destructor

-----------------------------------------------------------------------------
(* Well-formed documents, and their elements by the depth of every token:   *)
(* the definition parsing is measured against.                             *)
OpenTags(text, i) ==
  LET Go[k \in 0..i] ==
        IF k = 0 THEN <<>>
        ELSE IF text[k].kind = "open" THEN Append(Go[k - 1], text[k].name)
        ELSE IF text[k].kind = "close" THEN Front(Go[k - 1])
        ELSE Go[k - 1]
  IN  Go[i]

WellFormed(text) ==
  LET Go[k \in 0..Len(text)] ==
        \/ k = 0
        \/ /\ Go[k - 1]
           /\ text[k].kind = "close" =>
                OpenTags(text, k - 1) # <<>> /\ Last(OpenTags(text, k - 1)) = text[k].name
  IN  /\ Go[Len(text)]
      /\ OpenTags(text, Len(text)) = <<>>
      /\ \E i \in DOMAIN text : text[i].kind # "text"

(* The elements but for texts: name, depth and, if there are only texts     *)
(* inside, these.                                                          *)
ElementsOf(text) ==
  LET Depth(i) == Len(OpenTags(text, i - 1))
      Inside(i) == LET close == CHOOSE c \in i + 1..Len(text) :
                                  /\ Len(OpenTags(text, c)) = Depth(i)
                                  /\ \A d \in i + 1..c - 1 : Len(OpenTags(text, d)) > Depth(i)
                   IN  SubSeq(text, i + 1, close - 1)
      Of(i) == IF text[i].kind = "empty" THEN Element(Depth(i), text[i].name, <<>>)
               ELSE IF \E k \in DOMAIN Inside(i) : Inside(i)[k].kind # "text" THEN Parent(Depth(i), text[i].name)
               ELSE Element(Depth(i), text[i].name, Inside(i))
      starts == SelectSeq([i \in 1..Len(text) |-> i], LAMBDA i : text[i].kind \in {"open", "empty"})
  IN  [k \in DOMAIN starts |-> Of(starts[k])]

TagsOf(items) == SelectSeq(items, LAMBDA e : e.name # "inlineText")

Words(tokens) == SelectSeq(tokens, LAMBDA t : t = Word)

TextOf(items) == FoldLeft(LAMBDA s, e : s \o Words(e.value), <<>>, items)

(* However often a well-formed document is parsed, printed and parsed       *)
(* again, its elements are those the document says, with the text between   *)
(* the tags in its order, also where tags of one name enclose one another.  *)
ElementsSurvive ==
  WellFormed(document) /\ parser # "none" =>
    /\ parser = "ready"
    /\ TagsOf(elements) = ElementsOf(document)
    /\ TextOf(elements) = Words(document)
=============================================================================
