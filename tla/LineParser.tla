----------------------------- MODULE LineParser -----------------------------
(***************************************************************************)
(* toolbox-line-parser.c: calls that take a line apart or rebuild one in a *)
(* workspace of fixed size, their error returns, and the greediness that   *)
(* all parsers of the process share.  Results point into the workspace or   *)
(* into the parser's array and are consumed before the next call.  Checks   *)
(* for NULL arguments and the magic number are left out.                   *)
(*                                                                         *)
(* A call keeps, with its arguments, the buffers it writes or reads behind *)
(* their ends: tag_start where the marks added to a tag leave no room for   *)
(* it, the copies of a line or replacement as long as its buffer, and the   *)
(* workspace where replaceAll makes more than it holds.  The buffers on the *)
(* stack end what can be said of the result; the workspace, on the heap,    *)
(* does not.  The process starts anew after either.                        *)
(***************************************************************************)
EXTENDS TextLines

CONSTANTS
  Workspace,    \* LINE_PARSER_MAX_WORKSPACE, 1024 in the code
  TagSize,      \* LINE_PARSER_MAX_TAGSIZE, 256 in the code
  Lines,        \* lines callers parse
  Tags,         \* tags, keys, parameters and delimiters they look for
  Replacements, \* what they put instead
  NoText        \* a NULL string

ASSUME LineParserAssumption ==
  /\ Workspace \in Nat \ {0}
  /\ TagSize \in Nat
  /\ \A text \in Lines \cup Tags \cup Replacements : text \in Seq(STRING)
  /\ NoText \notin Seq(STRING)

(* The characters the code names; the provers do not know what a string is. *)
ASSUME NamedCharacters == {"-", " ", "\"", "(", ")", ";", ":"} \subseteq STRING

VARIABLES
  g_greedy,   \* the greediness of every parser of the process
  char_array, \* rows of the parser's array, the result of splitTag
  call,       \* the call that returned last: its name, arguments and overrun buffers
  ret, out    \* its return value and *out_insider

vars == <<g_greedy, char_array, call, ret, out>>

Idle == [op |-> "none", spills |-> {}]

(* Stands for whatever a call returns that has overrun a buffer on the      *)
(* stack.                                                                  *)
Undefined == -99

(* lineParser_Constructor.                                                 *)
Init ==
  /\ g_greedy = FALSE
  /\ char_array = <<>>
  /\ call = Idle
  /\ ret = 1
  /\ out = NoText

Result(code, text) == [ret |-> code, out |-> text]

(* The first check that fails decides the return; checks are pairs of a     *)
(* condition and a code.                                                   *)
Refused(checks, result) ==
  LET failed == {i \in DOMAIN checks : checks[i][1]}
  IN  IF failed = {} THEN result
      ELSE Result(checks[CHOOSE i \in failed : \A j \in failed : i <= j][2], NoText)

-----------------------------------------------------------------------------
extractDashedParameter(line, parameter) ==
  LET tag == <<"-">> \o parameter \o <<" ">>
      at == strstr(line, tag)
      value == From(line, at + Len(tag))
      quoted == value # <<>> /\ value[1] = "\""
  IN  Refused(<< <<Len(line) > Workspace, -10>>,
                 <<Len(parameter) > TagSize, -11>>,
                 <<at = 0, -30>>,
                 <<at > 1 /\ SubSeq(line, at - 1, at - 1) # <<" ">>, -31>>,
                 <<Len(From(line, at)) >= Workspace, -32>>,
                 <<quoted /\ ~ Has(Tail(value), <<"\"">>), -40>> >>,
              Result(1, IF quoted THEN Until(Tail(value), <<"\"">>) ELSE Until(value, <<" ">>)))

extractTag(line, tag) ==
  LET start == tag \o <<"(">>
      at == strstr(line, start)
      inside == From(line, at + Len(start))
  IN  Refused(<< <<Len(line) > Workspace, -10>>,
                 <<Len(tag) > TagSize, -11>>,
                 <<at = 0, -30>>,
                 <<Len(From(line, at)) >= Workspace, -31>>,
                 <<~ Has(inside, <<")">>), -40>>,
                 <<strstr(inside, <<")">>) = 1, -41>> >>,
              Result(1, Until(inside, <<")">>)))

(* The replacement takes the place of what the tag's parentheses hold.      *)
replaceTag(line, tag, replacement) ==
  LET start == tag \o <<"(">>
      at == strstr(line, start)
      head == Before(line, at)
      inside == From(line, at)
      rest == From(inside, strstr(inside, <<")">>))
  IN  Refused(<< <<Len(line) > Workspace, -10>>,
                 <<Len(tag) > TagSize, -11>>,
                 <<at = 0, -30>>,
                 <<Len(head) >= Workspace, -31>>,
                 <<Len(head) + Len(start) >= Workspace, -32>>,
                 <<Len(head) + Len(start) + Len(replacement) >= Workspace, -33>>,
                 <<~ Has(inside, <<")">>), -40>>,
                 <<Len(head) + Len(start) + Len(replacement) + Len(rest) >= Workspace, -34>> >>,
              Result(1, head \o start \o replacement \o rest))

(* left or right may be NULL; without right the rest of the line is handed  *)
(* out together with the error.                                            *)
extractInsider(line, left, right) ==
  LET start == IF left = NoText THEN <<>> ELSE left
      at == IF left = NoText THEN 1 ELSE strstr(line, start)
      inside == From(line, at + Len(start))
      closed == right = NoText \/ right = <<>> \/ Has(inside, right)
  IN  Refused(<< <<left = NoText /\ right = NoText, -3>>,
                 <<Len(line) >= Workspace, -10>>,
                 <<Len(start) >= TagSize, -11>>,
                 <<right # NoText /\ Len(right) >= TagSize, -12>>,
                 <<at = 0, -30>> >>,
              IF ~ closed THEN Result(-40, inside)
              ELSE Result(1, IF right \in {NoText, <<>>} THEN inside ELSE Until(inside, right)))

extractKeyValuePair(line, key) ==
  LET at == strstr(line, key)
  IN  Refused(<< <<Len(line) > Workspace, -10>>,
                 <<Len(key) > TagSize, -11>>,
                 <<at = 0, -30>>,
                 <<Len(From(line, at)) >= Workspace, -31>> >>,
              Result(1, Until(From(line, at + Len(key)), <<";">>)))

(* Mutant of Fits: off by one.                                              *)
FitsLoosely(replacement, text, search) == Len(replacement) + Len(text) - Len(search) <= Workspace

(* Whether lineParser_replace finds room for the replacement.              *)
Fits(replacement, text, search) == Len(replacement) + Len(text) - Len(search) < Workspace

(* A replacement that does not fit is dropped, and what it would have       *)
(* replaced with it.                                                       *)
replace(line, search, replacement) ==
  LET at == strstr(line, search)
      kept == Fits(replacement, line, search)
  IN  IF Len(line) > Workspace THEN Result(-10, NoText)
      ELSE IF Len(search) > TagSize THEN Result(-11, NoText)
      ELSE IF search = <<>> THEN Result(-6, <<>>)
      ELSE IF at = 0 THEN Result(0, line)
      ELSE Result(IF kept THEN 1 ELSE -12,
                  Before(line, at) \o (IF kept THEN replacement ELSE <<>>)
                    \o From(line, at + Len(search)))

(* Mutant of Assembled: one replacement is all.                            *)
AssembledOnce(line, search, replacement) == replace(line, search, replacement)

(* The loop of replaceAll, with a workspace without end.  The room for a    *)
(* replacement is judged by what is left of the line, the room for the end  *)
(* of the line by the whole workspace.                                     *)
Assembled(line, search, replacement) ==
  LET Loop[p \in [base : Seq(STRING), text : Seq(STRING), code : Int]] ==
        LET at == strstr(p.base, search)
            kept == Fits(replacement, p.base, search)
        IN  IF at > 0
            THEN Loop[[base |-> From(p.base, at + Len(search)),
                       text |-> p.text \o Before(p.base, at) \o (IF kept THEN replacement ELSE <<>>),
                       code |-> IF kept THEN p.code ELSE -12]]
            ELSE IF Len(p.base) + Len(p.text) < Workspace THEN Result(p.code, p.text \o p.base)
            ELSE Result(-13, p.text)
  IN  Loop[[base |-> line, text |-> <<>>, code |-> 1]]

(* What a terminator on the last place of the workspace leaves.            *)
Terminated(text) == IF Len(text) < Workspace THEN text ELSE SubSeq(text, 1, Workspace - 1)

replaceAll(line, search, replacement) ==
  LET made == Assembled(line, search, replacement)
  IN  IF Len(line) > Workspace THEN Result(-10, NoText)
      ELSE IF Len(search) > TagSize THEN Result(-11, NoText)
      ELSE IF search = <<>> THEN Result(-6, <<>>)
      ELSE IF ~ Has(line, search) THEN Result(0, line)
      ELSE Result(made.ret, Terminated(made.out))

stripSpacing(line, trim_left, trim_right) ==
  IF Len(line) > Workspace THEN Result(-10, NoText)
  ELSE Result(1, Strip(line, trim_left, trim_right))

extractFirstWord(line) ==
  IF Len(line) > Workspace THEN Result(-10, NoText)
  ELSE IF line = <<>> THEN Result(0, NoText)
  ELSE Result(1, Until(line, <<" ">>))

(* Elements are joined until one does not fit.                             *)
mergeTag(elements) ==
  LET room(n) == Len(FlattenSeq([i \in 1..n |-> elements[i] \o <<":", ":">>])) < Workspace
      fitting == {n \in 0..Len(elements) : \A m \in 1..n : room(m)}
      last == CHOOSE n \in fitting : \A m \in fitting : m <= n
  IN  Result(IF last = Len(elements) THEN 1 ELSE -15, Merge(SubSeq(elements, 1, last)))

-----------------------------------------------------------------------------
(* The buffers a call overruns, at least the first of them; none when the   *)
(* line or the tag is refused.                                             *)
Overrun(line, tag, buffers) ==
  IF Len(line) <= Workspace /\ Len(tag) <= TagSize THEN {b \in DOMAIN buffers : buffers[b]} ELSE {}

(* The copies replace and replaceAll make of their arguments.              *)
Copies(line, search, replacement) ==
  [input |-> Len(line) >= Workspace,
   replacement |-> Len(replacement) >= Workspace,
   tag_start |-> search # <<>> /\ Len(search) >= TagSize]

OutgrowsWorkspace(line, search, replacement) ==
  /\ search # <<>>
  /\ Has(line, search)
  /\ Len(Assembled(line, search, replacement).out) >= Workspace

(* A call returns r; the array of the parser stays unless it is splitTag.   *)
Returns(op, arguments, r, spills) ==
  /\ call' = [op |-> op, arguments |-> arguments, spills |-> spills]
  /\ ret' = IF spills \subseteq {"workspace"} THEN r.ret ELSE Undefined
  /\ out' = IF spills \subseteq {"workspace"} THEN r.out ELSE NoText
  /\ UNCHANGED <<g_greedy, char_array>>

Extract ==
  /\ call = Idle
  /\ \E line \in Lines, tag \in Tags :
       \/ Returns("dashed", <<line, tag>>, extractDashedParameter(line, tag),
                  Overrun(line, tag, [tag_start |-> Len(tag) + 2 >= TagSize]))
       \/ Returns("tag", <<line, tag>>, extractTag(line, tag),
                  Overrun(line, tag, [tag_start |-> Len(tag) + 1 >= TagSize]))
       \/ \E right \in Tags \cup {NoText} :
            Returns("insider", <<line, tag, right>>, extractInsider(line, tag, right), {})
       \/ Returns("insider", <<line, NoText, tag>>, extractInsider(line, NoText, tag), {})
       \/ Returns("pair", <<line, tag>>, extractKeyValuePair(line, tag),
                  Overrun(line, tag, [tag_start |-> Len(tag) >= TagSize]))

Rebuild ==
  /\ call = Idle
  /\ \E line \in Lines, tag \in Tags, replacement \in Replacements :
       \/ Returns("replaceTag", <<line, tag, replacement>>, replaceTag(line, tag, replacement),
                  Overrun(line, tag, [tag_start |-> Len(tag) + 1 >= TagSize,
                                      line_reconstructed |-> Len(line) >= Workspace /\ Has(line, tag \o <<"(">>)]))
       \/ Returns("replace", <<line, tag, replacement>>, replace(line, tag, replacement),
                  Overrun(line, tag, Copies(line, tag, replacement)))
       \/ Returns("replaceAll", <<line, tag, replacement>>, replaceAll(line, tag, replacement),
                  Overrun(line, tag, Copies(line, tag, replacement))
                    \cup Overrun(line, tag, [workspace |-> OutgrowsWorkspace(line, tag, replacement)]))

Words ==
  /\ call = Idle
  /\ \E line \in Lines :
       LET spills == Overrun(line, <<>>, [temp |-> Len(line) >= Workspace])
       IN  \/ Returns("word", <<line>>, extractFirstWord(line), spills)
           \/ \E left, right \in BOOLEAN :
                Returns("strip", <<line, left, right>>, stripSpacing(line, left, right), spills)

(* lineParser_splitTag: the parser's array starts over whatever the line.   *)
splitTag ==
  /\ call = Idle
  /\ \E line \in Lines, tag \in Tags :
       LET code == IF Len(line) > Workspace THEN -10
                   ELSE IF Len(tag) > TagSize THEN -11
                   ELSE IF tag = <<>> THEN -12 ELSE 1
           spills == IF tag = <<>> THEN {}
                     ELSE Overrun(line, tag, [temp |-> Len(line) >= Workspace,
                                              tag_start |-> Len(tag) >= TagSize])
       IN  /\ call' = [op |-> "split", arguments |-> <<line, tag>>, spills |-> spills]
           /\ ret' = IF spills = {} THEN code ELSE Undefined
           /\ char_array' = IF ret' = 1 THEN Split(line, tag, g_greedy) ELSE <<>>
  /\ out' = NoText
  /\ UNCHANGED g_greedy

(* lineParser_mergeTag of the array the last splitTag left.                *)
MergeBack ==
  /\ call # Idle
  /\ call.op = "split"
  /\ call.spills = {}
  /\ Returns("merge", <<char_array>>, mergeTag(char_array), {})

setGreediness ==
  /\ call = Idle
  /\ \E greedy \in BOOLEAN : g_greedy' = greedy
  /\ call' = [op |-> "setGreediness", spills |-> {}]
  /\ UNCHANGED <<char_array, ret, out>>

(* The caller has used the result; a process that has overrun a buffer is   *)
(* not followed further, and the next one has the greediness of Init.       *)
Consume ==
  /\ call # Idle
  /\ g_greedy' = (call.spills = {} /\ g_greedy)
  /\ call' = Idle
  /\ ret' = 1
  /\ out' = NoText
  /\ char_array' = <<>>

Next == Extract \/ Rebuild \/ Words \/ splitTag \/ MergeBack \/ setGreediness \/ Consume

Spec == Init /\ [][Next]_vars

-----------------------------------------------------------------------------
(* All occurrences of search in line, from the left, become replacement.   *)
Substituted(line, search, replacement) ==
  LET Rest[text \in Seq(STRING)] ==
        IF text = <<>> THEN <<>>
        ELSE IF IsPrefix(search, text) THEN replacement \o Rest[From(text, Len(search) + 1)]
        ELSE <<Head(text)>> \o Rest[Tail(text)]
  IN  Rest[line]

(* Arguments shorter than the buffers, the tag with its marks, for a result *)
(* shorter than the workspace.                                             *)
Replacing == {"replaceTag", "replace", "replaceAll"}

LeaveRoom(op, arguments) ==
  /\ op # "merge" => Len(arguments[1]) < Workspace
  /\ op \in Replacing \cup {"dashed", "tag", "pair", "split"} => Len(arguments[2]) + 2 < TagSize
  /\ op \in Replacing => Len(arguments[3]) < Workspace
  /\ op = "replaceAll" /\ arguments[2] # <<>> =>
       Len(Substituted(arguments[1], arguments[2], arguments[3])) < Workspace

(* The shape of the state; what a call hands out, with its terminator, lies *)
(* inside the workspace; and a call overruns no buffer unless an argument,  *)
(* or the result asked for, is too long for one: the rooms that are judged  *)
(* in the middle of a rebuilt line add up to the whole workspace.          *)
ResultInWorkspace ==
  /\ g_greedy \in BOOLEAN
  /\ char_array \in Seq(Seq(STRING))
  /\ ret \in Int
  /\ out = NoText \/ (out \in Seq(STRING) /\ Len(out) < Workspace)
  /\ call.spills # {} => ~ LeaveRoom(call.op, call.arguments)

(* replaceAll reports success only when every occurrence is replaced, and   *)
(* 0 exactly when there is none: neither a refused replacement, nor an end  *)
(* that did not fit, nor the workspace overrun goes unreported.             *)
ReplacedIsReported ==
  call.op = "replaceAll" /\ call.spills \subseteq {"workspace"} =>
    LET line == call.arguments[1]
        search == call.arguments[2]
    IN  /\ ret = 1 => out = Substituted(line, search, call.arguments[3])
        /\ ret = 0 => out = line
        /\ ret \notin {-10, -11, -6} => (ret = 0 <=> ~ Has(line, search))
        /\ call.spills # {} => ret = -13

(* Splitting by "::" and merging back gives the line again, unless it ends  *)
(* with two marks in a row, of which splitTag loses one, or splitting is    *)
(* greedy or the line is too long.                                         *)
SplitMergesBack ==
  call # Idle /\ call.op = "split" /\ ret = 1 =>
    LET line == call.arguments[1]
        mark == <<":", ":">>
        merged == mergeTag(char_array)
    IN  /\ call.arguments[2] = mark
        /\ ~ g_greedy
        /\ ~ IsSuffix(mark \o mark, line)
        /\ merged.ret = 1
        => merged.out = line
=============================================================================
