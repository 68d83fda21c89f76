----------------------------- MODULE TextProofs -----------------------------
(***************************************************************************)
(* What the calls of the line parser hand out, for any lines, tags and      *)
(* replacements and any size of the workspace; what the readers deliver of  *)
(* any text, for any sizes of their buffers; and what the functions that    *)
(* load settings and whole texts make of it.                               *)
(***************************************************************************)
EXTENDS LineParser, ConfigIni, Foundations

(* The loop of replaceAll, one pass per occurrence.                         *)
Passes == [base : Texts, text : Texts, code : Int]

Results == [ret : Int, out : Texts]

Put(base, search, replacement) == IF Fits(replacement, base, search) THEN replacement ELSE <<>>

NextPass(p, search, replacement) ==
  [base |-> BehindMark(p.base, search),
   text |-> p.text \o Before(p.base, strstr(p.base, search)) \o Put(p.base, search, replacement),
   code |-> IF Fits(replacement, p.base, search) THEN p.code ELSE -12]

LastPass(p) ==
  IF Len(p.base) + Len(p.text) < Workspace THEN Result(p.code, p.text \o p.base)
  ELSE Result(-13, p.text)

Passed(p, search, more) == IF strstr(p.base, search) > 0 THEN more ELSE LastPass(p)

Looping(g, search, replacement) ==
  /\ \A p \in Passes : g[p] = Passed(p, search, g[NextPass(p, search, replacement)])
  /\ \A line \in Texts :
       Assembled(line, search, replacement) = g[[base |-> line, text |-> <<>>, code |-> 1]]

LEMMA NextPassIs ==
  ASSUME NEW p \in Passes, NEW search \in Texts, NEW replacement \in Texts
  PROVE  /\ NextPass(p, search, replacement) \in Passes
         /\ search # <<>> /\ strstr(p.base, search) > 0 =>
              Len(NextPass(p, search, replacement).base) < Len(p.base)
<1>1. p.base \in Texts /\ p.text \in Texts /\ p.code \in Int
  BY DEF Passes
<1>2. BehindMark(p.base, search) \in Texts /\ Before(p.base, strstr(p.base, search)) \in Texts
  BY <1>1, BehindIs, PieceBefore
<1>3. Put(p.base, search, replacement) \in Texts
  <2>1. <<>> \in Texts
    BY DEF Texts
  <2>2. QED
    BY <2>1 DEF Put
<1>4. p.text \o Before(p.base, strstr(p.base, search)) \o Put(p.base, search, replacement) \in Texts
  <2>1. p.text \o Before(p.base, strstr(p.base, search)) \in Texts
    BY <1>1, <1>2, TextsJoin
  <2>2. QED
    BY <1>3, <2>1, TextsJoin
<1>5. (IF Fits(replacement, p.base, search) THEN p.code ELSE -12) \in Int
  BY <1>1
<1>6. NextPass(p, search, replacement) \in Passes
  BY <1>2, <1>4, <1>5 DEF NextPass, Passes
<1>7. search # <<>> /\ strstr(p.base, search) > 0 =>
        Len(NextPass(p, search, replacement).base) < Len(p.base)
  BY <1>1, BehindIs DEF NextPass
<1>8. QED
  BY <1>6, <1>7

LEMMA LastPassIs ==
  ASSUME NEW p \in Passes
  PROVE  LastPass(p) \in Results
<1>1. p.base \in Texts /\ p.text \in Texts /\ p.code \in Int /\ -13 \in Int
  BY DEF Passes
<1>2. p.text \o p.base \in Texts
  BY <1>1, TextsJoin
<1>3. QED
  BY <1>1, <1>2 DEF LastPass, Results, Result

LEMMA LoopExists ==
  ASSUME NEW search \in Texts, search # <<>>, NEW replacement \in Texts
  PROVE  \E g : Looping(g, search, replacement)
<1> DEFINE span == [p \in Passes |-> Len(p.base)]
           next == [p \in Passes |-> NextPass(p, search, replacement)]
           made == [p \in Passes |-> [r \in Results |-> Passed(p, search, r)]]
           Body(h) == [p \in Passes |-> Passed(p, search, h[NextPass(p, search, replacement)])]
           g == CHOOSE h : h = Body(h)
<1>1. span \in [Passes -> Nat] /\ next \in [Passes -> Passes]
  <2>1. ASSUME NEW p \in Passes
        PROVE  Len(p.base) \in Nat /\ NextPass(p, search, replacement) \in Passes
    BY NextPassIs DEF Passes, Texts
  <2>2. QED
    BY <2>1
<1>2. made \in [Passes -> [Results -> Results]]
  <2>1. \A p \in Passes, r \in Results : Passed(p, search, r) \in Results
    BY LastPassIs DEF Passed
  <2>2. QED
    BY <2>1
<1>3. ASSUME NEW p \in Passes
      PROVE  Stops(p, Passes, Results, span, next, made)
  <2>1. CASE strstr(p.base, search) > 0
    <3>1. span[next[p]] < span[p]
      <4>1. /\ NextPass(p, search, replacement) \in Passes
            /\ Len(NextPass(p, search, replacement).base) < Len(p.base)
        BY <2>1, NextPassIs
      <4>2. QED
        BY <4>1
    <3> HIDE DEF span, next, made
    <3>2. QED
      BY <3>1 DEF Stops
  <2>2. CASE ~ (strstr(p.base, search) > 0)
    <3>1. \A r, s \in Results : made[p][r] = made[p][s]
      BY <2>2 DEF Passed
    <3> HIDE DEF span, next, made
    <3>2. QED
      BY <3>1 DEF Stops
  <2>3. QED
    BY <2>1, <2>2
<1>4. Result(0, <<>>) \in Results
  BY DEF Result, Results, Texts
<1>5. PICK h : Recurs(h, Passes, Results, next, made)
  <2> HIDE DEF span, next, made
  <2>1. QED
    BY <1>1, <1>2, <1>3, <1>4, TailRecursion
<1>6. h = Body(h)
  <2>1. h \in [Passes -> Results]
    BY <1>5 DEF Recurs
  <2>2. ASSUME NEW p \in Passes
        PROVE  h[p] = Passed(p, search, h[NextPass(p, search, replacement)])
    <3>1. h[p] = made[p][h[next[p]]]
      BY <1>5 DEF Recurs
    <3>2. next[p] = NextPass(p, search, replacement) /\ h[NextPass(p, search, replacement)] \in Results
      BY <2>1, NextPassIs
    <3>3. \A r \in Results : made[p][r] = Passed(p, search, r)
      OBVIOUS
    <3> HIDE DEF made, next
    <3>4. QED
      BY <3>1, <3>2, <3>3
  <2>3. QED
    BY <2>1, <2>2
<1>7. g = Body(g)
  <2> HIDE DEF Body
  <2>1. QED
    BY <1>6
<1>8. ASSUME NEW p \in Passes
      PROVE  g[p] = Passed(p, search, g[NextPass(p, search, replacement)])
  <2>1. Body(g)[p] = Passed(p, search, g[NextPass(p, search, replacement)])
    OBVIOUS
  <2> HIDE DEF g, Body
  <2>2. QED
    BY <1>7, <2>1
<1>9. ASSUME NEW line \in Texts
      PROVE  Assembled(line, search, replacement) = g[[base |-> line, text |-> <<>>, code |-> 1]]
  BY DEF Assembled, Passes, Texts, Passed, NextPass, LastPass, BehindMark, Put
<1> HIDE DEF g
<1>10. Looping(g, search, replacement)
  BY <1>8, <1>9 DEF Looping
<1>11. QED
  BY <1>10

-----------------------------------------------------------------------------
(* What a call hands out, with its terminator, lies inside the workspace.   *)
InWorkspace(r) == r.ret \in Int /\ (r.out = NoText \/ (r.out \in Texts /\ Len(r.out) < Workspace))

LEMMA GreatestNumber ==
  ASSUME NEW n \in Nat, NEW T \in SUBSET (0..n), T # {}
  PROVE  \E x \in T : \A y \in T : y <= x
<1> DEFINE Above == {m \in Nat : \A y \in T : y <= m}
<1>1. n \in Above
  OBVIOUS
<1>2. \E m \in Above : \A k \in Above : m <= k
  <2> HIDE DEF Above
  <2>1. Above \in SUBSET Nat
    BY DEF Above
  <2>2. QED
    BY <1>1, <2>1, LeastNumber
<1>3. PICK m \in Above : \A k \in Above : m <= k
  BY <1>2
<1>4. m \in T
  <2>1. SUFFICES ASSUME m \notin T
                 PROVE  FALSE
    OBVIOUS
  <2>2. PICK y \in T : TRUE
    OBVIOUS
  <2>3. m > 0 /\ m - 1 \in Nat
    BY <2>1, <2>2
  <2>4. ASSUME NEW z \in T
        PROVE  z <= m - 1
    <3>1. z \in Nat /\ z <= m /\ z # m
      BY <2>1
    <3>2. QED
      BY <3>1
  <2>5. m - 1 \in Above
    BY <2>3, <2>4
  <2>6. QED
    BY <1>3, <2>3, <2>5
<1>5. QED
  BY <1>4

(* The checks of a call: n pairs of a condition and a code.                 *)
Codes(checks, n) == DOMAIN checks = 1..n /\ \A i \in 1..n : checks[i][2] \in Int

Stopped(checks, n) == \E i \in 1..n : checks[i][1]

LEMMA RefusedIs ==
  ASSUME NEW checks, NEW n \in Nat, NEW result, Codes(checks, n),
         Stopped(checks, n) \/ InWorkspace(result)
  PROVE  InWorkspace(Refused(checks, result))
<1> DEFINE failed == {i \in DOMAIN checks : checks[i][1]}
<1>1. CASE failed = {}
  <2>1. Refused(checks, result) = result
    BY <1>1 DEF Refused
  <2>2. ~ Stopped(checks, n)
    BY <1>1 DEF Stopped, Codes
  <2>3. QED
    BY <2>1, <2>2
<1>2. CASE failed # {}
  <2>1. failed \in SUBSET Nat
    BY DEF Codes
  <2>2. \E i \in failed : \A j \in failed : i <= j
    <3> HIDE DEF failed
    <3>1. QED
      BY <1>2, <2>1, LeastNumber
  <2>3. PICK i \in failed : Refused(checks, result) = Result(checks[i][2], NoText)
    <3>1. Refused(checks, result) =
            Result(checks[CHOOSE i \in failed : \A j \in failed : i <= j][2], NoText)
      BY <1>2 DEF Refused
    <3> HIDE DEF failed
    <3>2. (CHOOSE i \in failed : \A j \in failed : i <= j) \in failed
      BY <2>2
    <3>3. QED
      BY <3>1, <3>2
  <2>4. checks[i][2] \in Int
    BY DEF Codes
  <2>5. QED
    BY <2>3, <2>4 DEF Result, InWorkspace
<1>3. QED
  BY <1>1, <1>2

(* A text that is part of one that fits.                                    *)
LEMMA PartsFit ==
  ASSUME NEW t \in Texts, NEW s \in Texts, Len(s) <= Len(t), Len(t) < Workspace, NEW c \in Int
  PROVE  InWorkspace(Result(c, s))
<1>1. Len(t) \in Nat /\ Len(s) \in Nat /\ Workspace \in Nat
  BY LineParserAssumption DEF Texts
<1>2. Len(s) < Workspace
  BY <1>1
<1>3. QED
  BY <1>2 DEF Result, InWorkspace

LEMMA BehindFits ==
  ASSUME NEW line \in Texts, NEW tag \in Texts, NEW at, at = strstr(line, tag),
         at # 0, ~ (Len(From(line, at)) >= Workspace), NEW rest, rest = From(line, at + Len(tag))
  PROVE  rest \in Texts /\ Len(rest) < Workspace
<1>1. /\ From(line, at) \in Texts /\ rest \in Texts /\ Len(rest) <= Len(From(line, at))
  BY BehindTag
<1>2. Len(From(line, at)) \in Nat /\ Len(rest) \in Nat /\ Workspace \in Nat
  BY <1>1, LineParserAssumption DEF Texts
<1>3. QED
  BY <1>1, <1>2

(* What is in front of a mark in a text that fits, or in the rest of it.    *)
LEMMA PieceFits ==
  ASSUME NEW s \in Texts, Len(s) < Workspace, NEW mark \in Texts
  PROVE  /\ InWorkspace(Result(1, Until(s, mark)))
         /\ s # <<>> => InWorkspace(Result(1, Until(Tail(s), mark)))
<1>1. ASSUME NEW t \in Texts, Len(t) <= Len(s)
      PROVE  InWorkspace(Result(1, Until(t, mark)))
  <2>1. Until(t, mark) \in Texts /\ Len(Until(t, mark)) <= Len(t)
    BY UntilIs
  <2>2. Len(t) \in Nat /\ Len(s) \in Nat /\ Len(Until(t, mark)) \in Nat
    BY <2>1 DEF Texts
  <2>3. Len(Until(t, mark)) <= Len(s)
    BY <1>1, <2>1, <2>2
  <2>4. 1 \in Int
    OBVIOUS
  <2>5. QED
    BY <2>1, <2>3, <2>4, PartsFit
<1>2. s # <<>> => Tail(s) \in Texts /\ Len(Tail(s)) = Len(s) - 1
  BY HeadTailProperties DEF Texts
<1>3. Len(s) \in Nat
  BY DEF Texts
<1>4. ASSUME s # <<>>
      PROVE  Tail(s) \in Texts /\ Len(Tail(s)) <= Len(s)
  <2>1. Len(Tail(s)) = Len(s) - 1
    BY <1>2, <1>4
  <2>2. QED
    BY <1>2, <1>3, <1>4, <2>1
<1>5. QED
  <2>1. Len(s) <= Len(s)
    BY <1>3
  <2>2. QED
    BY <1>1, <1>4, <2>1

LEMMA PairFits ==
  ASSUME NEW line \in Texts, NEW key \in Texts
  PROVE  InWorkspace(extractKeyValuePair(line, key))
<1> DEFINE Handed(mark) ==
             LET at == strstr(line, key)
             IN  Refused(<< <<Len(line) > Workspace, -10>>,
                            <<Len(key) > TagSize, -11>>,
                            <<at = 0, -30>>,
                            <<Len(From(line, at)) >= Workspace, -31>> >>,
                         Result(1, Until(From(line, at + Len(key)), mark)))
<1>1. ASSUME NEW mark \in Texts
      PROVE  InWorkspace(Handed(mark))
  <2> DEFINE at == strstr(line, key)
             result == Result(1, Until(From(line, at + Len(key)), mark))
             checks == << <<Len(line) > Workspace, -10>>,
                          <<Len(key) > TagSize, -11>>,
                          <<at = 0, -30>>,
                          <<Len(From(line, at)) >= Workspace, -31>> >>
  <2>1. Codes(checks, 4)
    BY DEF Codes
  <2>2. /\ at = strstr(line, key)
        /\ result = Result(1, Until(From(line, at + Len(key)), mark))
    OBVIOUS
  <2>3. /\ checks[3][1] = (at = 0)
        /\ checks[4][1] = (Len(From(line, at)) >= Workspace)
    OBVIOUS
  <2> HIDE DEF at, result
  <2>4. ASSUME at # 0, ~ (Len(From(line, at)) >= Workspace)
        PROVE  InWorkspace(result)
    <3>1. ASSUME NEW rest, rest = From(line, at + Len(key))
          PROVE  rest \in Texts /\ Len(rest) < Workspace
      BY <2>2, <2>4, <3>1, BehindFits
    <3>2. QED
      BY <2>2, <3>1, PieceFits
  <2>5. InWorkspace(Refused(checks, result))
    <3> HIDE DEF checks
    <3>1. 4 \in Nat /\ 3 \in 1..4 /\ 4 \in 1..4
      OBVIOUS
    <3>2. QED
      BY <2>1, <2>3, <2>4, <3>1, RefusedIs DEF Stopped
  <2>6. QED
    BY <2>5 DEF at, result
<1>2. <<";">> \in Texts
  BY OneCharacter, NamedCharacters, Zenon
<1>3. extractKeyValuePair(line, key) = Handed(<<";">>)
  BY Zenon DEF extractKeyValuePair
<1>4. QED
  <2> HIDE DEF Handed
  <2>1. QED
    BY <1>1, <1>2, <1>3, Zenon

LEMMA DashedFits ==
  ASSUME NEW line \in Texts, NEW parameter \in Texts
  PROVE  InWorkspace(extractDashedParameter(line, parameter))
<1> DEFINE Handed(dash, space, quote, mark) ==
             LET tag == dash \o parameter \o space
                 at == strstr(line, tag)
                 value == From(line, at + Len(tag))
                 quoted == (value # <<>> /\ value[1] = quote)
             IN  Refused(<< <<Len(line) > Workspace, -10>>,
                            <<Len(parameter) > TagSize, -11>>,
                            <<at = 0, -30>>,
                            <<at > 1 /\ SubSeq(line, at - 1, at - 1) # space, -31>>,
                            <<Len(From(line, at)) >= Workspace, -32>>,
                            <<quoted /\ ~ Has(Tail(value), mark), -40>> >>,
                         Result(1, IF quoted THEN Until(Tail(value), mark) ELSE Until(value, space)))
<1>1. ASSUME NEW dash \in Texts, NEW space \in Texts, NEW quote, NEW mark \in Texts
      PROVE  InWorkspace(Handed(dash, space, quote, mark))
  <2> DEFINE tag == dash \o parameter \o space
             at == strstr(line, tag)
             value == From(line, at + Len(tag))
             quoted == (value # <<>> /\ value[1] = quote)
             result == Result(1, IF quoted THEN Until(Tail(value), mark) ELSE Until(value, space))
             checks == << <<Len(line) > Workspace, -10>>,
                          <<Len(parameter) > TagSize, -11>>,
                          <<at = 0, -30>>,
                          <<at > 1 /\ SubSeq(line, at - 1, at - 1) # space, -31>>,
                          <<Len(From(line, at)) >= Workspace, -32>>,
                          <<quoted /\ ~ Has(Tail(value), mark), -40>> >>
  <2>1. Codes(checks, 6)
    BY DEF Codes
  <2>2. /\ tag = dash \o parameter \o space
        /\ at = strstr(line, tag)
        /\ value = From(line, at + Len(tag))
        /\ quoted = (value # <<>> /\ value[1] = quote)
        /\ result = Result(1, IF quoted THEN Until(Tail(value), mark) ELSE Until(value, space))
    OBVIOUS
  <2>3. /\ checks[3][1] = (at = 0)
        /\ checks[5][1] = (Len(From(line, at)) >= Workspace)
    OBVIOUS
  <2> HIDE DEF tag, at, value, quoted, result
  <2>4. ASSUME at # 0, ~ (Len(From(line, at)) >= Workspace)
        PROVE  InWorkspace(result)
    <3>1. tag \in Texts
      <4>1. dash \o parameter \in Texts
        BY TextsJoin
      <4>2. QED
        BY <2>2, <4>1, TextsJoin
    <3>2. value \in Texts /\ Len(value) < Workspace
      BY <2>2, <2>4, <3>1, BehindFits
    <3>3. InWorkspace(Result(1, Until(value, space)))
      BY <3>2, PieceFits
    <3>4. ASSUME quoted
          PROVE  InWorkspace(Result(1, Until(Tail(value), mark)))
      <4>1. value # <<>>
        BY <2>2, <3>4
      <4>2. QED
        BY <3>2, <4>1, PieceFits
    <3>5. QED
      BY <2>2, <3>3, <3>4
  <2>5. InWorkspace(Refused(checks, result))
    <3> HIDE DEF checks
    <3>1. 6 \in Nat /\ 3 \in 1..6 /\ 5 \in 1..6
      OBVIOUS
    <3>2. QED
      BY <2>1, <2>3, <2>4, <3>1, RefusedIs DEF Stopped
  <2>6. QED
    BY <2>5 DEF tag, at, value, quoted, result
<1>2. <<"-">> \in Texts /\ <<" ">> \in Texts /\ <<"\"">> \in Texts
  BY OneCharacter, NamedCharacters, Zenon
<1>3. extractDashedParameter(line, parameter) = Handed(<<"-">>, <<" ">>, "\"", <<"\"">>)
  BY Zenon DEF extractDashedParameter
<1>4. QED
  <2> HIDE DEF Handed
  <2>1. QED
    BY <1>1, <1>2, <1>3, Zenon

LEMMA TagFits ==
  ASSUME NEW line \in Texts, NEW tag \in Texts
  PROVE  InWorkspace(extractTag(line, tag))
<1> DEFINE Handed(open, close) ==
             LET start == tag \o open
                 at == strstr(line, start)
                 inside == From(line, at + Len(start))
             IN  Refused(<< <<Len(line) > Workspace, -10>>,
                            <<Len(tag) > TagSize, -11>>,
                            <<at = 0, -30>>,
                            <<Len(From(line, at)) >= Workspace, -31>>,
                            <<~ Has(inside, close), -40>>,
                            <<strstr(inside, close) = 1, -41>> >>,
                         Result(1, Until(inside, close)))
<1>1. ASSUME NEW open \in Texts, NEW close \in Texts
      PROVE  InWorkspace(Handed(open, close))
  <2> DEFINE start == tag \o open
             at == strstr(line, start)
             inside == From(line, at + Len(start))
             result == Result(1, Until(inside, close))
             checks == << <<Len(line) > Workspace, -10>>,
                          <<Len(tag) > TagSize, -11>>,
                          <<at = 0, -30>>,
                          <<Len(From(line, at)) >= Workspace, -31>>,
                          <<~ Has(inside, close), -40>>,
                          <<strstr(inside, close) = 1, -41>> >>
  <2>1. Codes(checks, 6)
    BY DEF Codes
  <2>2. /\ start = tag \o open
        /\ at = strstr(line, start)
        /\ inside = From(line, at + Len(start))
        /\ result = Result(1, Until(inside, close))
    OBVIOUS
  <2>3. /\ checks[3][1] = (at = 0)
        /\ checks[4][1] = (Len(From(line, at)) >= Workspace)
    OBVIOUS
  <2> HIDE DEF start, at, inside, result
  <2>4. ASSUME at # 0, ~ (Len(From(line, at)) >= Workspace)
        PROVE  InWorkspace(result)
    <3>1. start \in Texts
      BY <2>2, TextsJoin
    <3>2. inside \in Texts /\ Len(inside) < Workspace
      BY <2>2, <2>4, <3>1, BehindFits
    <3>3. QED
      BY <2>2, <3>2, PieceFits
  <2>5. InWorkspace(Refused(checks, result))
    <3> HIDE DEF checks
    <3>1. 6 \in Nat /\ 3 \in 1..6 /\ 4 \in 1..6
      OBVIOUS
    <3>2. QED
      BY <2>1, <2>3, <2>4, <3>1, RefusedIs DEF Stopped
  <2>6. QED
    BY <2>5 DEF start, at, inside, result
<1>2. <<"(">> \in Texts /\ <<")">> \in Texts
  BY OneCharacter, NamedCharacters, Zenon
<1>3. extractTag(line, tag) = Handed(<<"(">>, <<")">>)
  BY Zenon DEF extractTag
<1>4. QED
  <2> HIDE DEF Handed
  <2>1. QED
    BY <1>1, <1>2, <1>3, Zenon

LEMMA ReplaceTagFits ==
  ASSUME NEW line \in Texts, NEW tag \in Texts, NEW replacement \in Texts
  PROVE  InWorkspace(replaceTag(line, tag, replacement))
<1> DEFINE Handed(open, close) ==
             LET start == tag \o open
                 at == strstr(line, start)
                 head == Before(line, at)
                 inside == From(line, at)
                 rest == From(inside, strstr(inside, close))
             IN  Refused(<< <<Len(line) > Workspace, -10>>,
                            <<Len(tag) > TagSize, -11>>,
                            <<at = 0, -30>>,
                            <<Len(head) >= Workspace, -31>>,
                            <<Len(head) + Len(start) >= Workspace, -32>>,
                            <<Len(head) + Len(start) + Len(replacement) >= Workspace, -33>>,
                            <<~ Has(inside, close), -40>>,
                            <<Len(head) + Len(start) + Len(replacement) + Len(rest) >= Workspace, -34>> >>,
                         Result(1, head \o start \o replacement \o rest))
<1>1. ASSUME NEW open \in Texts, NEW close \in Texts
      PROVE  InWorkspace(Handed(open, close))
  <2> DEFINE start == tag \o open
             at == strstr(line, start)
             head == Before(line, at)
             inside == From(line, at)
             rest == From(inside, strstr(inside, close))
             result == Result(1, head \o start \o replacement \o rest)
             checks == << <<Len(line) > Workspace, -10>>,
                          <<Len(tag) > TagSize, -11>>,
                          <<at = 0, -30>>,
                          <<Len(head) >= Workspace, -31>>,
                          <<Len(head) + Len(start) >= Workspace, -32>>,
                          <<Len(head) + Len(start) + Len(replacement) >= Workspace, -33>>,
                          <<~ Has(inside, close), -40>>,
                          <<Len(head) + Len(start) + Len(replacement) + Len(rest) >= Workspace, -34>> >>
  <2>1. Codes(checks, 8)
    BY DEF Codes
  <2>2. /\ start = tag \o open
        /\ at = strstr(line, start)
        /\ head = Before(line, at)
        /\ inside = From(line, at)
        /\ rest = From(inside, strstr(inside, close))
        /\ result = Result(1, head \o start \o replacement \o rest)
    OBVIOUS
  <2>3. /\ checks[8][1] = (Len(head) + Len(start) + Len(replacement) + Len(rest) >= Workspace)
    OBVIOUS
  <2> HIDE DEF start, at, head, inside, rest, result
  <2>4. ASSUME ~ (Len(head) + Len(start) + Len(replacement) + Len(rest) >= Workspace)
        PROVE  InWorkspace(result)
    <3>1. start \in Texts
      BY <2>2, TextsJoin
    <3>2. head \in Texts
      BY <2>2, <3>1, PieceBefore
    <3>3. inside \in Texts
      BY <2>2, <3>1, BehindTag
    <3>4. rest \in Texts
      BY <2>2, <3>3, BehindTag
    <3>5. head \o start \in Texts /\ Len(head \o start) = Len(head) + Len(start)
      BY <3>1, <3>2, TextsJoin
    <3>6. /\ head \o start \o replacement \in Texts
          /\ Len(head \o start \o replacement) = Len(head \o start) + Len(replacement)
      BY <3>5, TextsJoin
    <3>7. /\ head \o start \o replacement \o rest \in Texts
          /\ Len(head \o start \o replacement \o rest) = Len(head \o start \o replacement) + Len(rest)
      BY <3>4, <3>6, TextsJoin
    <3>8. Len(head \o start \o replacement \o rest) < Workspace
      <4>1. /\ Len(head) \in Nat /\ Len(start) \in Nat /\ Len(replacement) \in Nat
            /\ Len(rest) \in Nat /\ Workspace \in Nat
        BY <3>1, <3>2, <3>4, LineParserAssumption DEF Texts
      <4>2. QED
        BY <2>4, <3>5, <3>6, <3>7, <4>1
    <3>9. QED
      BY <2>2, <3>7, <3>8 DEF InWorkspace, Result
  <2>5. InWorkspace(Refused(checks, result))
    <3> HIDE DEF checks
    <3>1. 8 \in Nat /\ 8 \in 1..8
      OBVIOUS
    <3>2. QED
      BY <2>1, <2>3, <2>4, <3>1, RefusedIs DEF Stopped
  <2>6. QED
    BY <2>5 DEF start, at, head, inside, rest, result
<1>2. <<"(">> \in Texts /\ <<")">> \in Texts
  BY OneCharacter, NamedCharacters, Zenon
<1>3. replaceTag(line, tag, replacement) = Handed(<<"(">>, <<")">>)
  BY Zenon DEF replaceTag
<1>4. QED
  <2> HIDE DEF Handed
  <2>1. QED
    BY <1>1, <1>2, <1>3, Zenon

LEMMA InsiderFits ==
  ASSUME NEW line \in Texts, NEW left \in Texts \cup {NoText}, NEW right \in Texts \cup {NoText}
  PROVE  InWorkspace(extractInsider(line, left, right))
<1> DEFINE start == IF left = NoText THEN <<>> ELSE left
           at == IF left = NoText THEN 1 ELSE strstr(line, start)
           inside == From(line, at + Len(start))
           closed == right = NoText \/ right = <<>> \/ Has(inside, right)
           result == IF ~ closed THEN Result(-40, inside)
                     ELSE Result(1, IF right \in {NoText, <<>>} THEN inside
                                    ELSE Until(inside, right))
           checks == << <<left = NoText /\ right = NoText, -3>>,
                        <<Len(line) >= Workspace, -10>>,
                        <<Len(start) >= TagSize, -11>>,
                        <<right # NoText /\ Len(right) >= TagSize, -12>>,
                        <<at = 0, -30>> >>
<1>1. extractInsider(line, left, right) = Refused(checks, result)
  BY DEF extractInsider
<1>2. Codes(checks, 5)
  BY DEF Codes
<1>3. checks[2][1] = (Len(line) >= Workspace)
  OBVIOUS
<1>4. start \in Texts
  <2>1. <<>> \in Texts
    BY DEF Texts
  <2>2. QED
    BY <2>1
<1>5. left # NoText => at = strstr(line, start)
  OBVIOUS
<1>6. left = NoText => at = 1
  OBVIOUS
<1> HIDE DEF start, at
<1>7. at \in Nat /\ Len(start) \in Nat
  BY <1>4, <1>5, <1>6, StrstrIs DEF Texts
<1>8. inside \in Texts /\ Len(inside) <= Len(line)
  <2>1. at + Len(start) \in Nat
    BY <1>7
  <2>2. QED
    BY <2>1, FromIs
<1> HIDE DEF inside, checks
<1>9. ASSUME ~ (Len(line) >= Workspace)
      PROVE  InWorkspace(result)
  <2>1. Len(inside) \in Nat /\ Len(line) \in Nat /\ Workspace \in Nat
    BY <1>8, LineParserAssumption DEF Texts
  <2>2. Len(line) < Workspace /\ Len(inside) < Workspace
    BY <1>8, <1>9, <2>1
  <2>3. \A c \in Int : InWorkspace(Result(c, inside))
    BY <1>8, <2>2, PartsFit
  <2>4. right \in Texts => InWorkspace(Result(1, Until(inside, right)))
    BY <1>8, <2>2, PieceFits
  <2>5. 1 \in Int /\ -40 \in Int
    OBVIOUS
  <2>6. ASSUME NEW said, said = IF right \in {NoText, <<>>} THEN inside ELSE Until(inside, right)
        PROVE  InWorkspace(Result(1, said))
    BY <2>3, <2>4, <2>5, <2>6
  <2>7. InWorkspace(Result(-40, inside))
    BY <2>3, <2>5
  <2>8. QED
    BY <2>6, <2>7
<1>10. 5 \in Nat /\ 2 \in 1..5
  OBVIOUS
<1> HIDE DEF result
<1>11. QED
  BY <1>1, <1>2, <1>3, <1>9, <1>10, RefusedIs DEF Stopped

LEMMA NothingFits ==
  ASSUME NEW c \in Int
  PROVE  InWorkspace(Result(c, NoText)) /\ InWorkspace(Result(c, <<>>))
  BY LineParserAssumption DEF InWorkspace, Result, Texts

LEMMA LineFits ==
  ASSUME NEW line \in Texts, Len(line) # Workspace, ~ (Len(line) > Workspace)
  PROVE  Len(line) < Workspace /\ \A c \in Int : InWorkspace(Result(c, line))
<1>1. Len(line) \in Nat /\ Workspace \in Nat
  BY LineParserAssumption DEF Texts
<1>2. Len(line) < Workspace
  BY <1>1
<1>3. QED
  BY <1>2 DEF InWorkspace, Result

LEMMA ReplaceFits ==
  ASSUME NEW line \in Texts, NEW search \in Texts, NEW replacement \in Texts, Len(line) # Workspace
  PROVE  InWorkspace(replace(line, search, replacement))
<1>1. ASSUME ~ (Len(line) > Workspace), NEW at, at = strstr(line, search), at # 0,
             NEW kept, kept = Fits(replacement, line, search),
             NEW put, put = IF kept THEN replacement ELSE <<>>
      PROVE  InWorkspace(Result(IF kept THEN 1 ELSE -12,
                                Before(line, at) \o put \o From(line, at + Len(search))))
  <2>1. at \in Nat /\ at > 0
    <3>1. at \in Nat
      BY <1>1, StrstrIs
    <3>2. QED
      BY <1>1, <3>1
  <2>2. /\ Before(line, at) \in Texts /\ Len(Before(line, at)) = at - 1
        /\ From(line, at + Len(search)) \in Texts
        /\ Len(From(line, at + Len(search))) = Len(line) - (at - 1) - Len(search)
    BY <1>1, <2>1, LineIsParts
  <2>3. put \in Texts /\ (kept => Len(put) = Len(replacement)) /\ (~ kept => Len(put) = 0)
    <3>1. <<>> \in Texts /\ Len(<<>>) = 0
      BY DEF Texts
    <3>2. QED
      BY <1>1, <3>1
  <2>4. ASSUME NEW rest \in Texts, Len(rest) = Len(line) - (at - 1) - Len(search),
               NEW head \in Texts, Len(head) = at - 1
        PROVE  head \o put \o rest \in Texts /\ Len(head \o put \o rest) < Workspace
    <3>1. head \o put \in Texts /\ Len(head \o put) = Len(head) + Len(put)
      BY <2>3, TextsJoin
    <3>2. head \o put \o rest \in Texts /\ Len(head \o put \o rest) = Len(head \o put) + Len(rest)
      BY <2>4, <3>1, TextsJoin
    <3>3. /\ Len(line) \in Nat /\ Len(search) \in Nat /\ Len(replacement) \in Nat
          /\ Workspace \in Nat /\ Len(line) < Workspace
      BY <1>1, LineFits, LineParserAssumption DEF Texts
    <3>4. Len(head \o put \o rest) = Len(line) - Len(search) + Len(put)
      <4>1. Len(put) \in Nat
        BY <2>3 DEF Texts
      <4>2. QED
        BY <2>1, <2>4, <3>1, <3>2, <3>3, <4>1
    <3>5. CASE kept
      <4>1. Len(replacement) + Len(line) - Len(search) < Workspace
        BY <1>1, <3>5 DEF Fits
      <4>2. QED
        BY <2>3, <3>2, <3>3, <3>4, <3>5, <4>1
    <3>6. CASE ~ kept
      BY <2>3, <3>2, <3>3, <3>4, <3>6
    <3>7. QED
      BY <3>5, <3>6
  <2>5. (IF kept THEN 1 ELSE -12) \in Int
    OBVIOUS
  <2>6. QED
    BY <2>2, <2>4, <2>5 DEF InWorkspace, Result
<1>2. InWorkspace(Result(-10, NoText)) /\ InWorkspace(Result(-11, NoText)) /\ InWorkspace(Result(-6, <<>>))
  BY NothingFits
<1>3. ~ (Len(line) > Workspace) => InWorkspace(Result(0, line))
  BY LineFits
<1>4. QED
  BY <1>1, <1>2, <1>3 DEF replace

LEMMA WordFits ==
  ASSUME NEW line \in Texts, Len(line) # Workspace
  PROVE  InWorkspace(extractFirstWord(line))
<1>1. InWorkspace(Result(-10, NoText)) /\ InWorkspace(Result(0, NoText))
  BY NothingFits
<1>2. ASSUME NEW space \in Texts, ~ (Len(line) > Workspace)
      PROVE  InWorkspace(Result(1, Until(line, space)))
  BY <1>2, LineFits, PieceFits
<1>3. <<" ">> \in Texts
  BY OneCharacter, NamedCharacters, Zenon
<1>4. QED
  BY <1>1, <1>2, <1>3, Zenon DEF extractFirstWord

LEMMA LeftStrippedIs ==
  ASSUME NEW line \in Texts
  PROVE  LeftStripped(line) \in Texts /\ Len(LeftStripped(line)) <= Len(line)
<1> DEFINE kept == {i \in DOMAIN line : line[i] # " "}
<1>1. Len(line) \in Nat /\ DOMAIN line \in SUBSET Nat /\ <<>> \in Texts /\ Len(<<>>) <= Len(line)
  BY DEF Texts
<1>2. /\ LeftStripped(line) = IF kept = {} THEN <<>>
                              ELSE From(line, CHOOSE i \in kept : \A j \in kept : i <= j)
      /\ kept \subseteq DOMAIN line
  BY Zenon DEF LeftStripped
<1> HIDE DEF kept
<1>3. CASE kept = {}
  BY <1>1, <1>2, <1>3
<1>4. CASE kept # {}
  <2>1. \E i \in kept : \A j \in kept : i <= j
    BY <1>1, <1>2, <1>4, LeastNumber
  <2>2. PICK i \in kept : LeftStripped(line) = From(line, i)
    BY <1>2, <1>4, <2>1
  <2>3. QED
    BY <1>1, <1>2, <2>2, FromIs
<1>5. QED
  BY <1>3, <1>4

LEMMA StripFits ==
  ASSUME NEW line \in Texts, Len(line) # Workspace, NEW trim_left, NEW trim_right
  PROVE  InWorkspace(stripSpacing(line, trim_left, trim_right))
<1>1. ASSUME NEW said \in Texts, Len(said) <= Len(line)
      PROVE  said # <<>> => /\ SubSeq(said, 1, LastInk(said)) \in Texts
                            /\ Len(SubSeq(said, 1, LastInk(said))) <= Len(line)
  <2> DEFINE ink == {i \in DOMAIN said : said[i] \notin Blanks} \cup {1}
  <2>1. SUFFICES ASSUME said # <<>>
                 PROVE  /\ SubSeq(said, 1, LastInk(said)) \in Texts
                        /\ Len(SubSeq(said, 1, LastInk(said))) <= Len(line)
    OBVIOUS
  <2>2. Len(said) \in Nat \ {0} /\ Len(line) \in Nat
    BY <2>1, EmptySeq DEF Texts
  <2>3. ink \in SUBSET (0..Len(said)) /\ ink # {}
    BY <2>2 DEF Texts
  <2>4. LastInk(said) = CHOOSE i \in ink : \A j \in ink : j <= i
    BY DEF LastInk
  <2> HIDE DEF ink
  <2>5. \E i \in ink : \A j \in ink : j <= i
    BY <2>2, <2>3, GreatestNumber
  <2>6. LastInk(said) \in 0..Len(said)
    BY <2>3, <2>4, <2>5
  <2>7. ASSUME NEW n \in 0..Len(said)
        PROVE  SubSeq(said, 1, n) \in Texts /\ Len(SubSeq(said, 1, n)) <= Len(line)
    <3>1. 1 \in Nat \ {0} /\ n \in Int /\ n <= Len(said)
      BY <2>2
    <3>2. SubSeq(said, 1, n) \in Texts /\ Len(SubSeq(said, 1, n)) = IF 1 <= n THEN n - 1 + 1 ELSE 0
      BY <3>1, PartOfText
    <3>3. QED
      BY <1>1, <2>2, <3>1, <3>2
  <2>8. QED
    BY <2>6, <2>7
<1>2. ASSUME NEW said, said = IF trim_left THEN LeftStripped(line) ELSE line
      PROVE  said \in Texts /\ Len(said) <= Len(line)
  <2>1. Len(line) \in Nat
    BY DEF Texts
  <2>2. Len(line) <= Len(line)
    BY <2>1
  <2>3. QED
    BY <1>2, <2>2, LeftStrippedIs
<1>3. Strip(line, trim_left, trim_right) \in Texts /\ Len(Strip(line, trim_left, trim_right)) <= Len(line)
  BY <1>1, <1>2 DEF Strip
<1>4. ~ (Len(line) > Workspace) => InWorkspace(Result(1, Strip(line, trim_left, trim_right)))
  BY <1>3, LineFits, PartsFit
<1>5. InWorkspace(Result(-10, NoText))
  BY NothingFits
<1>6. QED
  BY <1>4, <1>5 DEF stripSpacing

(* Merge, for any mark.                                                     *)
Marked(pieces, mark) == [i \in DOMAIN pieces |-> pieces[i] \o mark]

Joined(pieces, mark) ==
  LET all == FlattenSeq(Marked(pieces, mark))
  IN  IF Len(all) > 2 THEN SubSeq(all, 1, Len(all) - 2) ELSE all

LEMMA MarkIsText == <<":", ":">> \in Texts
<1>1. <<":">> \in Texts
  BY OneCharacter, NamedCharacters, Zenon
<1>2. ASSUME NEW c, <<c>> \in Texts
      PROVE  <<c, c>> \in Texts
  BY <1>2 DEF Texts
<1>3. QED
  BY <1>1, <1>2, Zenon

LEMMA MergeJoins ==
  ASSUME NEW pieces
  PROVE  Merge(pieces) = Joined(pieces, <<":", ":">>)
  BY Zenon DEF Merge, Joined, Marked

LEMMA MarkedIs ==
  ASSUME NEW pieces \in Seq(Texts), NEW mark \in Texts
  PROVE  /\ Marked(pieces, mark) \in Seq(Texts)
         /\ Len(Marked(pieces, mark)) = Len(pieces)
         /\ \A i \in 1..Len(pieces) : Marked(pieces, mark)[i] = pieces[i] \o mark
<1>1. DOMAIN pieces = 1..Len(pieces) /\ Len(pieces) \in Nat
  OBVIOUS
<1>2. ASSUME NEW i \in 1..Len(pieces)
      PROVE  pieces[i] \o mark \in Texts
  <2>1. pieces[i] \in Texts
    BY ElementOfSeq
  <2>2. QED
    BY <2>1, TextsJoin
<1>3. Marked(pieces, mark) = [i \in 1..Len(pieces) |-> pieces[i] \o mark]
  BY <1>1 DEF Marked
<1>4. Marked(pieces, mark) \in [1..Len(pieces) -> Texts]
  BY <1>2, <1>3
<1>5. \A i \in 1..Len(pieces) : Marked(pieces, mark)[i] = pieces[i] \o mark
  BY <1>3
<1>6. ASSUME NEW f \in [1..Len(pieces) -> Texts]
      PROVE  f \in Seq(Texts) /\ Len(f) = Len(pieces)
  BY <1>1
<1>7. QED
  BY <1>4, <1>5, <1>6

LEMMA JoinedIs ==
  ASSUME NEW pieces \in Seq(Texts), NEW mark \in Texts,
         NEW all, all = FlattenSeq(Marked(pieces, mark))
  PROVE  all \in Texts /\ Joined(pieces, mark) \in Texts /\ Len(Joined(pieces, mark)) <= Len(all)
<1>1. all \in Texts
  BY MarkedIs, FlattenType
<1>2. Len(all) \in Nat
  BY <1>1 DEF Texts
<1>3. Joined(pieces, mark) = IF Len(all) > 2 THEN SubSeq(all, 1, Len(all) - 2) ELSE all
  BY DEF Joined
<1>4. CASE Len(all) > 2
  <2>1. 1 \in Nat \ {0} /\ Len(all) - 2 \in Int /\ Len(all) - 2 <= Len(all)
    BY <1>2
  <2>2. /\ SubSeq(all, 1, Len(all) - 2) \in Texts
        /\ Len(SubSeq(all, 1, Len(all) - 2)) =
             IF 1 <= Len(all) - 2 THEN (Len(all) - 2) - 1 + 1 ELSE 0
    BY <1>1, <2>1, PartOfText
  <2>3. QED
    BY <1>1, <1>2, <1>3, <1>4, <2>2
<1>5. CASE ~ (Len(all) > 2)
  BY <1>1, <1>2, <1>3, <1>5
<1>6. QED
  BY <1>4, <1>5

LEMMA MergeFits ==
  ASSUME NEW elements \in Seq(Texts)
  PROVE  /\ InWorkspace(mergeTag(elements))
         /\ mergeTag(elements).ret = 1 => mergeTag(elements).out = Merge(elements)
<1> DEFINE mark == <<":", ":">>
           Part(n) == [i \in 1..n |-> elements[i] \o mark]
           room(n) == Len(FlattenSeq(Part(n))) < Workspace
           fitting == {n \in 0..Len(elements) : \A m \in 1..n : room(m)}
           last == CHOOSE n \in fitting : \A m \in fitting : m <= n
<1>1. mergeTag(elements) = Result(IF last = Len(elements) THEN 1 ELSE -15,
                                  Merge(SubSeq(elements, 1, last)))
  BY Zenon DEF mergeTag
<1>2. mark \in Texts /\ \A pieces : Merge(pieces) = Joined(pieces, mark)
  BY MarkIsText, MergeJoins
<1> HIDE DEF mark
<1>3. ASSUME NEW n \in Nat, n <= Len(elements)
      PROVE  /\ SubSeq(elements, 1, n) \in Seq(Texts)
             /\ Part(n) = Marked(SubSeq(elements, 1, n), mark)
             /\ n = 0 => SubSeq(elements, 1, n) = <<>>
             /\ n = Len(elements) => SubSeq(elements, 1, n) = elements
  <2>1. Len(elements) \in Nat /\ 1 \in Nat \ {0} /\ n \in Int
    OBVIOUS
  <2>2. \A i \in 1..n : elements[i] \in Texts
    <3>1. \A i \in 1..n : i \in 1..Len(elements)
      BY <1>3, <2>1
    <3>2. QED
      BY <3>1, ElementOfSeq
  <2>3. /\ SubSeq(elements, 1, n) \in Seq(Texts)
        /\ Len(SubSeq(elements, 1, n)) = IF 1 <= n THEN n - 1 + 1 ELSE 0
        /\ \A i \in 1..n - 1 + 1 : SubSeq(elements, 1, n)[i] = elements[1 + i - 1]
    BY <2>1, <2>2, SubSeqProperties, SMT
  <2>4. /\ Len(SubSeq(elements, 1, n)) = n
        /\ \A i \in 1..n : SubSeq(elements, 1, n)[i] = elements[i]
    BY <2>1, <2>3
  <2>5. DOMAIN SubSeq(elements, 1, n) = 1..n
    BY <2>3, <2>4
  <2>6. Part(n) = Marked(SubSeq(elements, 1, n), mark)
    BY <2>4, <2>5 DEF Marked
  <2>7. n = 0 => SubSeq(elements, 1, n) = <<>>
    BY <2>3, <2>4, EmptySeq
  <2>8. n = Len(elements) => SubSeq(elements, 1, n) = elements
    BY SubSeqFull
  <2>9. QED
    BY <2>3, <2>6, <2>7, <2>8
<1>4. last \in fitting
  <2>1. 0 \in fitting /\ fitting \in SUBSET (0..Len(elements)) /\ Len(elements) \in Nat
    OBVIOUS
  <2> HIDE DEF fitting
  <2>2. \E n \in fitting : \A m \in fitting : m <= n
    BY <2>1, GreatestNumber
  <2>3. QED
    BY <2>2
<1> HIDE DEF last
<1>5. last \in Nat /\ last <= Len(elements) /\ (last # 0 => room(last))
  <2>1. ASSUME NEW n \in fitting
        PROVE  n \in Nat /\ n <= Len(elements) /\ (n # 0 => room(n))
    <3>1. n \in 0..Len(elements) /\ \A m \in 1..n : room(m)
      OBVIOUS
    <3>2. n # 0 => n \in 1..n
      BY <3>1
    <3> HIDE DEF room
    <3>3. QED
      BY <3>1, <3>2
  <2> HIDE DEF fitting
  <2>2. QED
    BY <1>4, <2>1
<1>6. ASSUME NEW all, all = FlattenSeq(Marked(SubSeq(elements, 1, last), mark))
      PROVE  all \in Texts /\ Len(all) < Workspace
  <2>1. all \in Texts
    BY <1>2, <1>3, <1>5, <1>6, JoinedIs
  <2>2. CASE last = 0
    <3>1. Marked(SubSeq(elements, 1, last), mark) = <<>>
      <4>1. SubSeq(elements, 1, last) \in Seq(Texts) /\ Len(SubSeq(elements, 1, last)) = 0
        BY <1>3, <1>5, <2>2
      <4>2. /\ Marked(SubSeq(elements, 1, last), mark) \in Seq(Texts)
            /\ Len(Marked(SubSeq(elements, 1, last), mark)) = 0
        BY <1>2, <4>1, MarkedIs
      <4>3. QED
        BY <4>2, EmptySeq
    <3>2. all = <<>>
      BY <1>6, <3>1 DEF FlattenSeq
    <3>3. QED
      BY <2>1, <3>2, LineParserAssumption
  <2>3. CASE last # 0
    BY <1>3, <1>5, <1>6, <2>1, <2>3
  <2>4. QED
    BY <2>2, <2>3
<1>7. ASSUME NEW c \in Int
      PROVE  InWorkspace(Result(c, Merge(SubSeq(elements, 1, last))))
  <2>1. ASSUME NEW all, all = FlattenSeq(Marked(SubSeq(elements, 1, last), mark))
        PROVE  /\ Joined(SubSeq(elements, 1, last), mark) \in Texts
               /\ Len(Joined(SubSeq(elements, 1, last), mark)) <= Len(all)
    BY <1>2, <1>3, <1>5, <2>1, JoinedIs
  <2>2. QED
    BY <1>2, <1>6, <2>1, PartsFit
<1>8. (IF last = Len(elements) THEN 1 ELSE -15) \in Int
  OBVIOUS
<1>9. mergeTag(elements).ret = 1 => mergeTag(elements).out = Merge(elements)
  <2>1. /\ mergeTag(elements).ret = IF last = Len(elements) THEN 1 ELSE -15
        /\ mergeTag(elements).out = Merge(SubSeq(elements, 1, last))
    <3>1. \A c, t : Result(c, t).ret = c /\ Result(c, t).out = t
      BY DEF Result
    <3>2. QED
      BY <1>1, <3>1, ZenonT(40)
  <2>2. last = Len(elements) => SubSeq(elements, 1, last) = elements
    BY <1>3, <1>5
  <2>3. 1 # -15
    OBVIOUS
  <2>4. mergeTag(elements).ret = 1 => last = Len(elements)
    BY <2>1, <2>3, Zenon
  <2>5. QED
    BY <2>1, <2>2, <2>4
<1>10. QED
  BY <1>1, <1>7, <1>8, <1>9

-----------------------------------------------------------------------------
(* Substituted.  From the left, what a text becomes given what becomes of   *)
(* the text behind its first character or its first occurrence.            *)
NextText(said, search) ==
  IF said = <<>> THEN <<>>
  ELSE IF IsPrefix(search, said) THEN From(said, Len(search) + 1) ELSE Tail(said)

Rewritten(said, search, replacement, more) ==
  IF said = <<>> THEN <<>>
  ELSE IF IsPrefix(search, said) THEN replacement \o more ELSE <<Head(said)>> \o more

LEMMA NextTextIs ==
  ASSUME NEW said \in Texts, NEW search \in Texts, search # <<>>
  PROVE  /\ NextText(said, search) \in Texts
         /\ said # <<>> => Len(NextText(said, search)) < Len(said)
<1>1. CASE said = <<>>
  BY <1>1 DEF NextText
<1>2. CASE said # <<>> /\ ~ IsPrefix(search, said)
  <2>1. Tail(said) \in Texts /\ Len(Tail(said)) = Len(said) - 1
    BY <1>2, HeadTailProperties DEF Texts
  <2>2. Len(said) \in Nat
    BY NonEmpty
  <2>3. QED
    BY <1>2, <2>1, <2>2 DEF NextText
<1>3. CASE said # <<>> /\ IsPrefix(search, said)
  <2>1. Len(said) \in Nat /\ Len(search) \in Nat /\ Len(said) > 0 /\ Len(search) > 0
    BY <1>3, NonEmpty
  <2>2. ASSUME NEW i \in Nat, i = Len(search) + 1
        PROVE  From(said, i) \in Texts /\ Len(From(said, i)) < Len(said)
    <3>1. /\ From(said, i) \in Texts
          /\ Len(From(said, i)) = IF i <= Len(said) THEN Len(said) - i + 1 ELSE 0
      <4>1. i > 0
        BY <2>1, <2>2
      <4>2. QED
        BY <4>1, FromIs
    <3>2. QED
      BY <2>1, <2>2, <3>1
  <2>3. Len(search) + 1 \in Nat
    BY <2>1
  <2>4. QED
    BY <1>3, <2>2, <2>3 DEF NextText
<1>4. QED
  BY <1>1, <1>2, <1>3

LEMMA RewrittenIs ==
  ASSUME NEW said \in Texts, NEW search \in Texts, NEW replacement \in Texts
  PROVE  \A more \in Texts : Rewritten(said, search, replacement, more) \in Texts
<1>1. SUFFICES ASSUME NEW more \in Texts
               PROVE  Rewritten(said, search, replacement, more) \in Texts
  OBVIOUS
<1>2. CASE said = <<>>
  BY <1>2 DEF Rewritten
<1>3. CASE said # <<>>
  <2>1. <<Head(said)>> \in Texts
    <3>1. Head(said) \in STRING
      BY <1>3, HeadTailProperties DEF Texts
    <3>2. QED
      BY <3>1, OneCharacter
  <2>2. replacement \o more \in Texts /\ <<Head(said)>> \o more \in Texts
    BY <2>1, TextsJoin
  <2>3. QED
    BY <1>3, <2>2 DEF Rewritten
<1>4. QED
  BY <1>2, <1>3

LEMMA SubstitutedSteps ==
  ASSUME NEW search \in Texts, search # <<>>, NEW replacement \in Texts
  PROVE  \A said \in Texts :
           /\ Substituted(said, search, replacement) \in Texts
           /\ Substituted(said, search, replacement) =
                Rewritten(said, search, replacement,
                          Substituted(NextText(said, search), search, replacement))
<1> DEFINE span == [x \in Texts |-> Len(x)]
           next == [x \in Texts |-> NextText(x, search)]
           made == [x \in Texts |-> [r \in Texts |-> Rewritten(x, search, replacement, r)]]
           Body(h) == [said \in Texts |->
             IF said = <<>> THEN <<>>
             ELSE IF IsPrefix(search, said) THEN replacement \o h[From(said, Len(search) + 1)]
             ELSE <<Head(said)>> \o h[Tail(said)]]
           g == CHOOSE h : h = Body(h)
<1>1. span \in [Texts -> Nat] /\ next \in [Texts -> Texts]
  <2>1. \A x \in Texts : Len(x) \in Nat /\ NextText(x, search) \in Texts
    BY NonEmpty, NextTextIs
  <2>2. QED
    BY <2>1
<1>2. made \in [Texts -> [Texts -> Texts]]
  <2>1. \A x \in Texts, r \in Texts : Rewritten(x, search, replacement, r) \in Texts
    BY RewrittenIs
  <2>2. QED
    BY <2>1
<1>3. ASSUME NEW x \in Texts
      PROVE  Stops(x, Texts, Texts, span, next, made)
  <2>1. CASE x # <<>>
    <3>1. span[next[x]] < span[x]
      <4>1. NextText(x, search) \in Texts /\ Len(NextText(x, search)) < Len(x)
        BY <2>1, NextTextIs
      <4>2. QED
        BY <4>1
    <3> HIDE DEF span, next, made
    <3>2. QED
      BY <3>1 DEF Stops
  <2>2. CASE x = <<>>
    <3>1. \A r, s \in Texts : made[x][r] = made[x][s]
      BY <2>2 DEF Rewritten
    <3> HIDE DEF span, next, made
    <3>2. QED
      BY <3>1 DEF Stops
  <2>3. QED
    BY <2>1, <2>2
<1>4. <<>> \in Texts
  BY DEF Texts
<1>5. PICK h : Recurs(h, Texts, Texts, next, made)
  <2> HIDE DEF span, next, made
  <2>1. QED
    BY <1>1, <1>2, <1>3, <1>4, TailRecursion
<1>6. h \in [Texts -> Texts] /\ \A x \in Texts : h[x] = Rewritten(x, search, replacement, h[NextText(x, search)])
  <2>1. h \in [Texts -> Texts] /\ \A x \in Texts : h[x] = made[x][h[next[x]]]
    BY <1>5 DEF Recurs
  <2>2. ASSUME NEW x \in Texts
        PROVE  h[x] = Rewritten(x, search, replacement, h[NextText(x, search)])
    <3>1. h[x] = made[x][h[next[x]]]
      BY <2>1
    <3>2. next[x] = NextText(x, search) /\ h[NextText(x, search)] \in Texts
      BY <2>1, NextTextIs
    <3>3. \A r \in Texts : made[x][r] = Rewritten(x, search, replacement, r)
      OBVIOUS
    <3> HIDE DEF made, next
    <3>4. QED
      BY <3>1, <3>2, <3>3
  <2>3. QED
    BY <2>1, <2>2
<1>7. ASSUME NEW v, NEW x
      PROVE  Rewritten(x, search, replacement, v[NextText(x, search)]) =
               IF x = <<>> THEN <<>>
               ELSE IF IsPrefix(search, x) THEN replacement \o v[From(x, Len(search) + 1)]
               ELSE <<Head(x)>> \o v[Tail(x)]
  BY DEF Rewritten, NextText
<1>8. h = Body(h)
  <2>1. \A x \in Texts : h[x] = IF x = <<>> THEN <<>>
                                ELSE IF IsPrefix(search, x) THEN replacement \o h[From(x, Len(search) + 1)]
                                ELSE <<Head(x)>> \o h[Tail(x)]
    BY <1>6, <1>7
  <2>2. h \in [Texts -> Texts]
    BY <1>6
  <2> HIDE DEF Texts
  <2>3. QED
    BY <2>1, <2>2
<1>9. g = Body(g)
  <2> HIDE DEF Body
  <2>1. QED
    BY <1>8
<1>10. ASSUME NEW line
       PROVE  Substituted(line, search, replacement) = g[line]
  BY DEF Substituted, Texts
<1>11. ASSUME NEW x \in Texts
       PROVE  g[x] = Rewritten(x, search, replacement, g[NextText(x, search)])
  <2>1. Body(g)[x] = IF x = <<>> THEN <<>>
                     ELSE IF IsPrefix(search, x) THEN replacement \o g[From(x, Len(search) + 1)]
                     ELSE <<Head(x)>> \o g[Tail(x)]
    OBVIOUS
  <2> HIDE DEF g, Body
  <2>2. QED
    BY <1>7, <1>9, <2>1
<1> HIDE DEF g, Body
<1> DEFINE T == {n \in Nat : \A x \in Texts : Len(x) < n => g[x] \in Texts}
<1>12. 0 \in T
  <2>1. \A x \in Texts : Len(x) \in Nat
    BY NonEmpty
  <2>2. QED
    BY <2>1
<1>13. ASSUME NEW n \in Nat, n \in T
       PROVE  n + 1 \in T
  <2>1. ASSUME NEW x \in Texts, Len(x) < n + 1
        PROVE  g[x] \in Texts
    <3>1. CASE x = <<>>
      BY <1>4, <1>11, <3>1 DEF Rewritten
    <3>2. CASE x # <<>>
      <4>1. NextText(x, search) \in Texts /\ Len(NextText(x, search)) < Len(x)
        BY <3>2, NextTextIs
      <4>2. Len(x) \in Nat /\ Len(NextText(x, search)) \in Nat
        BY <4>1, NonEmpty
      <4>3. g[NextText(x, search)] \in Texts
        BY <1>13, <2>1, <4>1, <4>2
      <4>4. QED
        BY <1>11, <4>3, RewrittenIs
    <3>3. QED
      BY <3>1, <3>2
  <2>2. QED
    BY <2>1
<1>14. \A n \in Nat : n \in T
  <2> HIDE DEF T
  <2>1. QED
    BY <1>12, <1>13, AllNumbers
<1>15. ASSUME NEW x \in Texts
       PROVE  g[x] \in Texts
  <2>1. Len(x) + 1 \in Nat /\ Len(x) < Len(x) + 1
    BY NonEmpty
  <2>2. ASSUME NEW n \in Nat, n = Len(x) + 1
        PROVE  g[x] \in Texts
    <3>1. n \in T
      BY <1>14
    <3>2. QED
      BY <2>1, <2>2, <3>1
  <2>3. QED
    BY <2>1, <2>2
<1>16. QED
  <2>1. ASSUME NEW said \in Texts
        PROVE  /\ Substituted(said, search, replacement) \in Texts
               /\ Substituted(said, search, replacement) =
                    Rewritten(said, search, replacement,
                              Substituted(NextText(said, search), search, replacement))
    BY <1>10, <1>11, <1>15
  <2>2. QED
    BY <2>1

(* Substituting goes from occurrence to occurrence.                         *)
ByOccurrence(said, search, replacement) ==
  /\ strstr(said, search) = 0 => Substituted(said, search, replacement) = said
  /\ strstr(said, search) > 0 =>
       Substituted(said, search, replacement) =
         Before(said, strstr(said, search))
           \o (replacement \o Substituted(BehindMark(said, search), search, replacement))

LEMMA SubstitutedFinds ==
  ASSUME NEW search \in Texts, search # <<>>, NEW replacement \in Texts
  PROVE  \A said \in Texts : ByOccurrence(said, search, replacement)
<1> DEFINE S(x) == Substituted(x, search, replacement)
           T == {x \in Texts : ByOccurrence(x, search, replacement)}
<1>1. \A x \in Texts : S(x) \in Texts /\ S(x) = Rewritten(x, search, replacement, S(NextText(x, search)))
  BY SubstitutedSteps
<1>2. Len(search) \in Nat /\ Len(search) > 0
  BY NonEmpty
<1>3. ASSUME NEW x \in Texts, \A y \in Texts : Len(y) < Len(x) => y \in T
      PROVE  x \in T
  <2>1. CASE x = <<>>
    <3>1. S(x) = x
      BY <1>1, <2>1 DEF Rewritten
    <3>2. strstr(x, search) = 0
      <4>1. ASSUME NEW at, at = strstr(x, search)
            PROVE  at = 0
        <5>1. at \in Nat /\ (at > 0 => at + Len(search) - 1 <= Len(x))
          BY <4>1, StrstrIs
        <5>2. Len(x) = 0
          BY <2>1
        <5>3. QED
          BY <1>2, <5>1, <5>2
      <4>2. QED
        BY <4>1
    <3> HIDE DEF S
    <3>3. QED
      BY <3>1, <3>2 DEF ByOccurrence, S
  <2>2. CASE x # <<>> /\ strstr(x, search) = 1
    <3>1. IsPrefix(search, x)
      BY <2>2, StartsWith
    <3>2. NextText(x, search) = From(x, Len(search) + 1)
      BY <2>2, <3>1 DEF NextText
    <3>3. 1 + Len(search) = Len(search) + 1 /\ 1 - 1 = 0 /\ 1 > 0 /\ 1 # 0
      BY <1>2
    <3>4. BehindMark(x, search) = NextText(x, search)
      BY <2>2, <3>2, <3>3 DEF BehindMark
    <3>5. S(x) = replacement \o S(BehindMark(x, search))
      BY <1>1, <2>2, <3>1, <3>4 DEF Rewritten
    <3>6. Before(x, 1) = <<>>
      BY <3>3, SubSeqEmpty DEF Before
    <3>7. <<>> \o (replacement \o S(BehindMark(x, search))) = replacement \o S(BehindMark(x, search))
      <4>1. BehindMark(x, search) \in Texts
        BY BehindIs
      <4>2. replacement \o S(BehindMark(x, search)) \in Texts
        BY <1>1, <4>1, TextsJoin
      <4> HIDE DEF S
      <4>3. QED
        BY <4>2, ConcatEmptySeq DEF Texts
    <3> HIDE DEF S
    <3>8. QED
      BY <2>2, <3>3, <3>5, <3>6, <3>7 DEF ByOccurrence, S
  <2>3. CASE x # <<>> /\ strstr(x, search) # 1
    <3>1. Tail(x) \in Texts /\ Len(Tail(x)) = Len(x) - 1 /\ Head(x) \in STRING
      BY <2>3, HeadTailProperties DEF Texts
    <3>2. NextText(x, search) = Tail(x) /\ ~ IsPrefix(search, x)
      BY <2>3, StartsWith DEF NextText
    <3>3. S(x) = <<Head(x)>> \o S(Tail(x))
      BY <1>1, <2>3, <3>2 DEF Rewritten
    <3>4. ByOccurrence(Tail(x), search, replacement)
      <4>1. Len(x) \in Nat
        BY NonEmpty
      <4>2. Len(Tail(x)) < Len(x)
        BY <3>1, <4>1
      <4>3. QED
        BY <1>3, <3>1, <4>2
    <3>5. <<Head(x)>> \in Texts /\ Len(<<Head(x)>>) = 1
      BY <3>1, OneCharacter
    <3> HIDE DEF S
    <3>6. ASSUME NEW b, b = strstr(Tail(x), search), NEW at, at = strstr(x, search)
          PROVE  x \in T
      <4>1. /\ at \in Nat /\ b \in Nat
            /\ b = 0 => at = 0
            /\ b # 0 => at = b + 1
        BY <2>3, <3>6, TailFinds
      <4>2. CASE b = 0
        <5>1. S(Tail(x)) = Tail(x)
          BY <3>4, <3>6, <4>2 DEF ByOccurrence, S
        <5>2. x = <<Head(x)>> \o Tail(x)
          BY <2>3, HeadTailIs
        <5>3. S(x) = x
          BY <3>3, <5>1, <5>2
        <5>4. strstr(x, search) = 0
          BY <3>6, <4>1, <4>2
        <5>5. QED
          BY <5>3, <5>4 DEF ByOccurrence, S
      <4>3. CASE b # 0
        <5>1. /\ Before(Tail(x), b) \in Texts /\ Len(Before(Tail(x), b)) = b - 1
              /\ b + Len(search) - 1 <= Len(Tail(x))
          <6>1. b > 0
            BY <4>1, <4>3
          <6>2. ASSUME NEW t \in Texts, t = Tail(x)
                PROVE  /\ Before(t, b) \in Texts /\ Len(Before(t, b)) = b - 1
                       /\ b + Len(search) - 1 <= Len(t)
            BY <3>6, <6>1, <6>2, LineIsParts, ZenonT(40)
          <6>3. QED
            BY <3>1, <6>2
        <5>2. b \in Nat \ {0} /\ b <= Len(x)
          <6>1. Len(x) \in Nat
            BY NonEmpty
          <6>2. QED
            BY <1>2, <3>1, <4>1, <4>3, <5>1, <6>1
        <5>3. Before(x, at) = <<Head(x)>> \o Before(Tail(x), b)
          BY <4>1, <4>3, <5>2, TailBefore
        <5>4. BehindMark(x, search) = BehindMark(Tail(x), search)
          <6>1. ASSUME NEW j \in Nat \ {0}, j = b + Len(search), NEW k, k = at + Len(search)
                PROVE  From(x, k) = From(Tail(x), j)
            <7>1. k = j + 1 /\ j <= Len(x)
              <8>1. Len(x) \in Nat
                BY NonEmpty
              <8>2. QED
                BY <1>2, <3>1, <4>1, <4>3, <5>1, <6>1, <8>1
            <7>2. QED
              BY <2>3, <7>1, TailFrom
          <6>2. b + Len(search) \in Nat \ {0}
            BY <1>2, <4>1, <4>3
          <6>3. From(x, at + Len(search)) = From(Tail(x), b + Len(search))
            BY <6>1, <6>2
          <6>4. QED
            BY <3>6, <6>3 DEF BehindMark
        <5>5. S(Tail(x)) = Before(Tail(x), b) \o (replacement \o S(BehindMark(x, search)))
          <6>1. b > 0
            BY <4>1, <4>3
          <6>2. QED
            BY <3>4, <3>6, <5>4, <6>1 DEF ByOccurrence, S
        <5>6. replacement \o S(BehindMark(x, search)) \in Texts
          <6>1. BehindMark(x, search) \in Texts
            BY BehindIs
          <6>2. QED
            BY <1>1, <6>1, TextsJoin
        <5>7. (<<Head(x)>> \o Before(Tail(x), b)) \o (replacement \o S(BehindMark(x, search)))
                = <<Head(x)>> \o (Before(Tail(x), b) \o (replacement \o S(BehindMark(x, search))))
          <6>1. InARow(<<Head(x)>>, Before(Tail(x), b), replacement \o S(BehindMark(x, search)))
            BY <3>5, <5>1, <5>6, ThreeTexts, Zenon
          <6>2. QED
            BY <6>1, Zenon DEF InARow
        <5>8. S(x) = Before(x, at) \o (replacement \o S(BehindMark(x, search)))
          BY <3>3, <5>3, <5>5, <5>7
        <5>9. at # 0
          BY <4>1, <4>3
        <5>10. QED
          BY <3>6, <5>8, <5>9 DEF ByOccurrence, S
      <4>4. QED
        BY <4>2, <4>3
    <3>7. QED
      BY <3>6
  <2>4. QED
    BY <2>1, <2>2, <2>3
<1> HIDE DEF T
<1>4. \A x \in Texts : x \in T
  BY <1>3, ShorterTexts
<1>5. QED
  BY <1>4 DEF T

(* What the loop may return: success only for a text in which every         *)
(* occurrence is replaced, never 0, and -13 for a text as long as the       *)
(* workspace; and never more than what is asked for.                       *)
Reported(p, r, search, replacement) ==
  /\ r.ret \in Int /\ r.out \in Texts
  /\ p.code = 1 => \/ r.ret = 1 /\ r.out = p.text \o Substituted(p.base, search, replacement)
                   \/ r.ret \in {-12, -13}
  /\ p.code = -12 => r.ret \in {-12, -13}
  /\ r.ret = -13 \/ Len(r.out) < Workspace \/ p.code = -13
  /\ Len(r.out) <= Len(p.text) + Len(Substituted(p.base, search, replacement))

FourInARow(a, b, c, d) == (a \o b \o c) \o d = a \o (b \o (c \o d))

LEMMA FourTexts ==
  ASSUME NEW a \in Texts, NEW b \in Texts, NEW c \in Texts, NEW d \in Texts
  PROVE  FourInARow(a, b, c, d)
<1>1. a \o b \in Texts /\ c \o d \in Texts
  BY TextsJoin
<1>2. InARow(a \o b, c, d) /\ InARow(a, b, c \o d)
  BY <1>1, ThreeTexts, Zenon
<1>3. QED
  BY <1>2, Zenon DEF InARow, FourInARow

LEMMA LoopReports ==
  ASSUME NEW search \in Texts, search # <<>>, NEW replacement \in Texts,
         NEW g, Looping(g, search, replacement)
  PROVE  \A p \in Passes : Reported(p, g[p], search, replacement)
<1> DEFINE S(x) == Substituted(x, search, replacement)
           T == {x \in Texts : \A p \in Passes : p.base = x => Reported(p, g[p], search, replacement)}
<1>1. ASSUME NEW x \in Texts, \A y \in Texts : Len(y) < Len(x) => y \in T
      PROVE  x \in T
  <2>1. SUFFICES ASSUME NEW p \in Passes, p.base = x
                 PROVE  Reported(p, g[p], search, replacement)
    OBVIOUS
  <2>2. p.text \in Texts /\ p.code \in Int /\ p.base \in Texts
    BY DEF Passes
  <2>3. g[p] = Passed(p, search, g[NextPass(p, search, replacement)])
    BY DEF Looping
  <2>4. ByOccurrence(x, search, replacement) /\ \A y \in Texts : S(y) \in Texts
    BY SubstitutedFinds, SubstitutedSteps
  <2>5. CASE strstr(x, search) = 0
    <3>1. g[p] = LastPass(p)
      BY <2>1, <2>3, <2>5 DEF Passed
    <3>2. S(x) = x
      BY <2>4, <2>5 DEF ByOccurrence
    <3>3. LastPass(p).ret \in Int /\ LastPass(p).out \in Texts
      BY LastPassIs DEF Results
    <3>4. \/ LastPass(p).ret = p.code /\ LastPass(p).out = p.text \o x /\ Len(x) + Len(p.text) < Workspace
          \/ LastPass(p).ret = -13 /\ LastPass(p).out = p.text
      BY <2>1 DEF LastPass, Result
    <3>5. /\ Len(p.text \o x) = Len(p.text) + Len(x) /\ Len(p.text) \in Nat /\ Len(x) \in Nat
      BY <2>2, TextsJoin, NonEmpty
    <3> HIDE DEF T
    <3>6. /\ LastPass(p).ret = -13 \/ Len(LastPass(p).out) < Workspace
          /\ Len(LastPass(p).out) <= Len(p.text) + Len(x)
      BY <3>4, <3>5, LineParserAssumption
    <3>7. QED
      BY <2>1, <3>1, <3>2, <3>3, <3>4, <3>6 DEF Reported
  <2>6. CASE strstr(x, search) # 0
    <3> DEFINE q == NextPass(p, search, replacement)
               kept == Fits(replacement, x, search)
    <3>0. strstr(x, search) > 0
      <4>1. strstr(x, search) \in Nat
        BY BehindIs
      <4>2. QED
        BY <2>6, <4>1
    <3>1. q \in Passes /\ Len(q.base) < Len(x)
      BY <2>1, <3>0, NextPassIs
    <3>2. /\ q.base = BehindMark(x, search)
          /\ q.text = p.text \o Before(x, strstr(x, search)) \o (IF kept THEN replacement ELSE <<>>)
          /\ q.code = IF kept THEN p.code ELSE -12
      BY <2>1 DEF NextPass, Put
    <3>3. g[p] = g[q]
      BY <2>1, <2>3, <3>0 DEF Passed
    <3> HIDE DEF q, kept
    <3>4. Reported(q, g[q], search, replacement)
      <4>1. q.base \in Texts
        BY <3>1 DEF Passes
      <4>2. q.base \in T
        BY <1>1, <3>1, <4>1
      <4>3. QED
        BY <3>1, <4>2
    <3>5. ASSUME kept, p.code = 1
          PROVE  q.text \o S(q.base) = p.text \o S(x)
      <4>1. q.text = p.text \o Before(x, strstr(x, search)) \o replacement
        BY <3>2, <3>5
      <4>2. S(x) = Before(x, strstr(x, search)) \o (replacement \o S(q.base))
        BY <2>4, <3>0, <3>2 DEF ByOccurrence
      <4>3. S(q.base) \in Texts /\ Before(x, strstr(x, search)) \in Texts
        BY <2>4, <3>1, PieceBefore DEF Passes
      <4> HIDE DEF S
      <4>4. (p.text \o Before(x, strstr(x, search)) \o replacement) \o S(q.base)
              = p.text \o (Before(x, strstr(x, search)) \o (replacement \o S(q.base)))
        <5>1. FourInARow(p.text, Before(x, strstr(x, search)), replacement, S(q.base))
          BY <2>2, <4>3, FourTexts
        <5>2. QED
          BY <5>1 DEF FourInARow
      <4>5. QED
        BY <4>1, <4>2, <4>4
    <3> HIDE DEF T, S
    <3>6. p.code = 1 /\ kept => q.code = 1
      BY <3>2
    <3>7. p.code = 1 /\ ~ kept => q.code = -12
      BY <3>2
    <3>8. p.code = -12 => q.code = -12
      BY <3>2
    <3>9. q.code = -13 => p.code = -13
      BY <3>2
    <3>10. Len(q.text) + Len(S(q.base)) <= Len(p.text) + Len(S(x))
      <4> DEFINE before == Before(x, strstr(x, search))
                 put == IF kept THEN replacement ELSE <<>>
      <4>1. before \in Texts /\ S(q.base) \in Texts /\ put \in Texts
        <5>1. <<>> \in Texts
          BY DEF Texts
        <5>2. q.base \in Texts
          BY <3>1 DEF Passes
        <5>3. S(q.base) \in Texts
          BY <2>4, <5>2 DEF S
        <5>4. QED
          BY <5>1, <5>3, PieceBefore
      <4>2. S(x) = before \o (replacement \o S(q.base)) /\ q.text = p.text \o before \o put
        BY <2>4, <3>0, <3>2 DEF ByOccurrence, S
      <4>3. Len(put) <= Len(replacement) /\ Len(put) \in Nat /\ Len(replacement) \in Nat
        <5>1. Len(<<>>) = 0 /\ Len(replacement) \in Nat
          BY NonEmpty
        <5>2. QED
          BY <5>1
      <4> HIDE DEF before, put
      <4>4. /\ p.text \o before \in Texts /\ Len(p.text \o before) = Len(p.text) + Len(before)
            /\ replacement \o S(q.base) \in Texts
            /\ Len(replacement \o S(q.base)) = Len(replacement) + Len(S(q.base))
        BY <2>2, <4>1, TextsJoin
      <4>5. /\ Len(p.text \o before \o put) = Len(p.text \o before) + Len(put)
            /\ Len(before \o (replacement \o S(q.base))) = Len(before) + Len(replacement \o S(q.base))
        BY <4>1, <4>4, TextsJoin
      <4>6. Len(before) \in Nat /\ Len(S(q.base)) \in Nat /\ Len(p.text) \in Nat
        BY <2>2, <4>1, NonEmpty
      <4>7. Len(q.text) = (Len(p.text) + Len(before)) + Len(put)
        BY <4>2, <4>4, <4>5
      <4>8. Len(S(x)) = Len(before) + (Len(replacement) + Len(S(q.base)))
        BY <4>2, <4>4, <4>5
      <4>9. ASSUME NEW a \in Nat, NEW b \in Nat, NEW c \in Nat, NEW d \in Nat, NEW e \in Nat, c <= d
            PROVE  ((a + b) + c) + e <= a + (b + (d + e))
        BY <4>9
      <4>10. ((Len(p.text) + Len(before)) + Len(put)) + Len(S(q.base))
               <= Len(p.text) + (Len(before) + (Len(replacement) + Len(S(q.base))))
        BY <4>3, <4>6, <4>9
      <4>11. QED
        BY <4>7, <4>8, <4>10, Zenon
    <3>11. ASSUME NEW r, r = g[q]
           PROVE  Len(r.out) <= Len(p.text) + Len(S(x))
      <4>1. Len(r.out) <= Len(q.text) + Len(S(q.base)) /\ r.out \in Texts
        BY <3>4, <3>11 DEF Reported, S
      <4>2. /\ Len(r.out) \in Nat /\ Len(q.text) \in Nat /\ Len(S(q.base)) \in Nat
            /\ Len(p.text) \in Nat /\ Len(S(x)) \in Nat
        BY <2>2, <2>4, <3>1, <4>1, NonEmpty DEF Passes, S
      <4>3. ASSUME NEW a \in Nat, NEW b \in Nat, NEW c \in Nat, a <= b, b <= c
            PROVE  a <= c
        BY <4>3
      <4>4. Len(q.text) + Len(S(q.base)) \in Nat /\ Len(p.text) + Len(S(x)) \in Nat
        <5>1. ASSUME NEW a \in Nat, NEW b \in Nat
              PROVE  a + b \in Nat
          OBVIOUS
        <5>2. QED
          BY <4>2, <5>1, Zenon
      <4>5. QED
        BY <3>10, <4>1, <4>2, <4>3, <4>4, Zenon
    <3>12. QED
      BY <2>1, <3>3, <3>4, <3>5, <3>6, <3>7, <3>8, <3>9, <3>11 DEF Reported, S
  <2>7. QED
    BY <2>5, <2>6
<1>2. \A x \in Texts : x \in T
  <2> HIDE DEF T
  <2>1. QED
    BY <1>1, ShorterTexts
<1>3. QED
  BY <1>2 DEF Passes

LEMMA AssembledIs ==
  ASSUME NEW line \in Texts, NEW search \in Texts, search # <<>>, NEW replacement \in Texts,
         NEW made, made = Assembled(line, search, replacement)
  PROVE  /\ made.ret \in {1, -12, -13} /\ made.out \in Texts
         /\ made.ret = 1 => made.out = Substituted(line, search, replacement)
         /\ made.ret = -13 \/ Len(made.out) < Workspace
         /\ Len(made.out) <= Len(Substituted(line, search, replacement))
<1>1. PICK g : Looping(g, search, replacement)
  BY LoopExists
<1> DEFINE p == [base |-> line, text |-> <<>>, code |-> 1]
<1>2. made = g[p]
  BY <1>1 DEF Looping
<1>3. p \in Passes /\ p.code = 1 /\ p.text = <<>> /\ p.base = line /\ Len(p.text) = 0
  BY DEF Passes, Texts
<1> HIDE DEF p
<1>4. Reported(p, made, search, replacement)
  BY <1>1, <1>2, <1>3, LoopReports
<1>5. /\ <<>> \o Substituted(line, search, replacement) = Substituted(line, search, replacement)
      /\ Len(Substituted(line, search, replacement)) \in Nat
  BY SubstitutedSteps, ConcatEmptySeq DEF Texts
<1>6. QED
  BY <1>3, <1>4, <1>5 DEF Reported

LEMMA TerminatedIs ==
  ASSUME NEW said \in Texts
  PROVE  /\ Terminated(said) \in Texts /\ Len(Terminated(said)) < Workspace
         /\ Len(said) < Workspace => Terminated(said) = said
<1>1. Len(said) \in Nat /\ Workspace \in Nat \ {0}
  BY LineParserAssumption DEF Texts
<1>2. CASE Len(said) < Workspace
  BY <1>2 DEF Terminated
<1>3. CASE ~ (Len(said) < Workspace)
  <2>1. Workspace - 1 \in Nat /\ Workspace - 1 <= Len(said)
    BY <1>1, <1>3
  <2>2. SubSeq(said, 1, Workspace - 1) \in Texts /\ Len(SubSeq(said, 1, Workspace - 1)) = Workspace - 1
    BY <2>1, FirstPart
  <2>3. QED
    BY <1>1, <1>3, <2>2 DEF Terminated
<1>4. QED
  BY <1>2, <1>3

LEMMA ReplaceAllIs ==
  ASSUME NEW line \in Texts, NEW search \in Texts, NEW replacement \in Texts,
         NEW r, r = replaceAll(line, search, replacement)
  PROVE  /\ r.ret \in Int
         /\ Len(line) # Workspace => InWorkspace(r)
         /\ r.ret = 1 => r.out = Substituted(line, search, replacement)
         /\ r.ret = 0 => r.out = line
         /\ r.ret \notin {-10, -11, -6} => (r.ret = 0 <=> ~ Has(line, search))
         /\ Len(line) <= Workspace /\ Len(search) <= TagSize
              /\ OutgrowsWorkspace(line, search, replacement) =>
              /\ r.ret = -13
              /\ Len(Substituted(line, search, replacement)) >= Workspace
<1>0. /\ \A c \in Int : InWorkspace(Result(c, NoText)) /\ InWorkspace(Result(c, <<>>))
      /\ Len(line) \in Nat /\ Len(search) \in Nat /\ Workspace \in Nat /\ TagSize \in Nat
  BY NothingFits, NonEmpty, LineParserAssumption
<1>1. CASE Len(line) > Workspace
  <2>1. r = Result(-10, NoText)
    BY <1>1 DEF replaceAll
  <2>2. InWorkspace(r)
    BY <1>0, <2>1
  <2>3. r.ret = -10
    BY <2>1 DEF Result
  <2>4. r.ret \in Int /\ r.ret # 0 /\ r.ret # 1 /\ r.ret \in {-10, -11, -6}
    BY <2>3
  <2>5. ~ (Len(line) <= Workspace /\ Len(search) <= TagSize)
    BY <1>0, <1>1
  <2>6. QED
    BY <2>2, <2>4, <2>5
<1>2. CASE ~ (Len(line) > Workspace) /\ Len(search) > TagSize
  <2>1. r = Result(-11, NoText)
    BY <1>2 DEF replaceAll
  <2>2. InWorkspace(r)
    BY <1>0, <2>1
  <2>3. r.ret = -11
    BY <2>1 DEF Result
  <2>4. r.ret \in Int /\ r.ret # 0 /\ r.ret # 1 /\ r.ret \in {-10, -11, -6}
    BY <2>3
  <2>5. ~ (Len(line) <= Workspace /\ Len(search) <= TagSize)
    BY <1>0, <1>2
  <2>6. QED
    BY <2>2, <2>4, <2>5
<1>3. CASE ~ (Len(line) > Workspace) /\ ~ (Len(search) > TagSize) /\ search = <<>>
  <2>1. r = Result(-6, <<>>)
    BY <1>3 DEF replaceAll
  <2>2. InWorkspace(r)
    BY <1>0, <2>1
  <2>3. r.ret = -6
    BY <2>1 DEF Result
  <2>4. r.ret \in Int /\ r.ret # 0 /\ r.ret # 1 /\ r.ret \in {-10, -11, -6}
    BY <2>3
  <2>5. ~ OutgrowsWorkspace(line, search, replacement)
    BY <1>3 DEF OutgrowsWorkspace
  <2>6. QED
    BY <2>2, <2>4, <2>5
<1>4. CASE /\ ~ (Len(line) > Workspace) /\ ~ (Len(search) > TagSize)
           /\ search # <<>> /\ ~ Has(line, search)
  <2>1. r = Result(0, line)
    BY <1>4 DEF replaceAll
  <2>2. Len(line) # Workspace => InWorkspace(r)
    BY <1>4, <2>1, LineFits
  <2>3. QED
    BY <1>4, <2>1, <2>2 DEF Result, OutgrowsWorkspace
<1>5. CASE /\ ~ (Len(line) > Workspace) /\ ~ (Len(search) > TagSize)
           /\ search # <<>> /\ Has(line, search)
  <2>1. PICK made : made = Assembled(line, search, replacement)
    OBVIOUS
  <2>2. r = Result(made.ret, Terminated(made.out))
    BY <1>5, <2>1 DEF replaceAll
  <2>3. /\ made.ret \in {1, -12, -13} /\ made.out \in Texts
        /\ made.ret = 1 => made.out = Substituted(line, search, replacement)
        /\ made.ret = -13 \/ Len(made.out) < Workspace
        /\ Len(made.out) <= Len(Substituted(line, search, replacement))
    BY <1>5, <2>1, AssembledIs
  <2>4. /\ Terminated(made.out) \in Texts /\ Len(Terminated(made.out)) < Workspace
        /\ Len(made.out) < Workspace => Terminated(made.out) = made.out
    BY <2>3, TerminatedIs
  <2>5. InWorkspace(r) /\ r.ret = made.ret /\ r.out = Terminated(made.out)
    BY <2>2, <2>3, <2>4 DEF Result, InWorkspace
  <2>6. ASSUME OutgrowsWorkspace(line, search, replacement)
        PROVE  r.ret = -13 /\ Len(Substituted(line, search, replacement)) >= Workspace
    <3>1. Len(made.out) >= Workspace
      BY <2>1, <2>6 DEF OutgrowsWorkspace
    <3>2. Len(made.out) \in Nat /\ Len(Substituted(line, search, replacement)) \in Nat
      BY <1>5, <2>3, SubstitutedSteps, NonEmpty
    <3>3. QED
      BY <1>0, <2>3, <2>5, <3>1, <3>2
  <2>7. r.ret \in {1, -12, -13} /\ r.ret # 0
    BY <2>3, <2>5
  <2>8. r.ret = 1 => r.out = Substituted(line, search, replacement)
    BY <2>3, <2>4, <2>5
  <2>9. QED
    BY <1>5, <2>5, <2>6, <2>7, <2>8
<1>6. QED
  BY <1>1, <1>2, <1>3, <1>4, <1>5

(* Splitting and merging back.  What the pieces are, with the mark behind   *)
(* each, one behind another.                                                *)
Whole(x, mark) == FlattenSeq(Marked(Split(x, mark, FALSE), mark))

LEMMA MarkedNone ==
  ASSUME NEW mark \in Texts
  PROVE  FlattenSeq(Marked(<<>>, mark)) = <<>>
<1>1. <<>> \in Seq(Texts) /\ Len(<<>>) = 0
  OBVIOUS
<1>2. Marked(<<>>, mark) \in Seq(Texts) /\ Len(Marked(<<>>, mark)) = 0
  BY <1>1, MarkedIs
<1>3. Marked(<<>>, mark) = <<>>
  BY <1>2, EmptySeq
<1>4. QED
  BY <1>3 DEF FlattenSeq

Prepended(a, t, mark) ==
  FlattenSeq(Marked(<<a>> \o t, mark)) = (a \o mark) \o FlattenSeq(Marked(t, mark))

LEMMA MarkedHead ==
  ASSUME NEW a \in Texts, NEW t \in Seq(Texts), NEW mark \in Texts
  PROVE  Prepended(a, t, mark)
<1> DEFINE pieces == <<a>> \o t
<1>1. /\ pieces \in Seq(Texts) /\ Len(pieces) = Len(t) + 1 /\ pieces[1] = a
      /\ \A i \in 1..Len(t) : pieces[i + 1] = t[i]
  <2>1. <<a>> \in Seq(Texts) /\ Len(<<a>>) = 1 /\ <<a>>[1] = a /\ Len(t) \in Nat
    OBVIOUS
  <2>2. ASSUME NEW s \in Seq(Texts), Len(s) = 1, s[1] = a
        PROVE  /\ s \o t \in Seq(Texts) /\ Len(s \o t) = Len(t) + 1 /\ (s \o t)[1] = a
               /\ \A i \in 1..Len(t) : (s \o t)[i + 1] = t[i]
    <3>1. /\ s \o t \in Seq(Texts) /\ Len(s \o t) = Len(s) + Len(t)
          /\ \A k \in 1..Len(s) + Len(t) : (s \o t)[k] = IF k <= Len(s) THEN s[k] ELSE t[k - Len(s)]
      BY ConcatProperties
    <3>2. (s \o t)[1] = a
      BY <2>1, <2>2, <3>1
    <3>3. ASSUME NEW i \in 1..Len(t), NEW k, k = i + 1
          PROVE  (s \o t)[k] = t[i]
      <4>1. k \in 1..Len(s) + Len(t) /\ ~ (k <= Len(s)) /\ k - Len(s) = i
        BY <2>1, <2>2, <3>3
      <4>2. QED
        BY <3>1, <4>1
    <3>4. Len(s \o t) = Len(t) + 1
      BY <2>1, <2>2, <3>1
    <3>5. QED
      BY <3>1, <3>2, <3>3, <3>4
  <2>3. QED
    BY <2>1, <2>2
<1> HIDE DEF pieces
<1>2. /\ Marked(pieces, mark) \in Seq(Texts) /\ Len(Marked(pieces, mark)) = Len(pieces)
      /\ \A i \in 1..Len(pieces) : Marked(pieces, mark)[i] = pieces[i] \o mark
  BY <1>1, MarkedIs
<1>3. /\ Marked(t, mark) \in Seq(Texts) /\ Len(Marked(t, mark)) = Len(t)
      /\ \A i \in 1..Len(t) : Marked(t, mark)[i] = t[i] \o mark
  BY MarkedIs
<1>4. Len(t) \in Nat
  OBVIOUS
<1>5. a \o mark \in Texts
  BY TextsJoin
<1>6. Marked(pieces, mark)[1] = a \o mark
  <2>1. 1 \in 1..Len(pieces)
    BY <1>1, <1>4
  <2>2. QED
    BY <1>1, <1>2, <2>1
<1>7. ASSUME NEW i \in 1..Len(t)
      PROVE  Marked(pieces, mark)[i + 1] = Marked(t, mark)[i]
  <2>1. i + 1 \in 1..Len(pieces)
    BY <1>1, <1>4
  <2>2. Marked(pieces, mark)[i + 1] = pieces[i + 1] \o mark
    BY <1>2, <2>1
  <2>3. QED
    BY <1>1, <1>3, <2>2
<1>8. Len(Marked(pieces, mark)) = Len(Marked(t, mark)) + 1
  BY <1>1, <1>2, <1>3
<1>9. ASSUME NEW seqs \in Seq(Texts), seqs = Marked(pieces, mark),
             NEW rest \in Seq(Texts), rest = Marked(t, mark), NEW x \in Texts, x = a \o mark
      PROVE  FlattenSeq(seqs) = x \o FlattenSeq(rest)
  <2>1. Len(seqs) = Len(rest) + 1 /\ seqs[1] = x /\ \A i \in 1..Len(rest) : seqs[i + 1] = rest[i]
    BY <1>3, <1>6, <1>7, <1>8, <1>9
  <2>2. QED
    BY <2>1, FlattenHead
<1>10. FlattenSeq(Marked(pieces, mark)) = (a \o mark) \o FlattenSeq(Marked(t, mark))
  BY <1>2, <1>3, <1>5, <1>9
<1>11. QED
  BY <1>10 DEF Prepended, pieces

(* The two ways to put the mark into a text that has it in the middle.      *)
Around(p, m, t) == (p \o m) \o (t \o m) = (p \o (m \o t)) \o m

LEMMA AroundHolds ==
  ASSUME NEW p \in Texts, NEW m \in Texts, NEW t \in Texts
  PROVE  Around(p, m, t)
<1>1. p \o m \in Texts /\ m \o t \in Texts /\ t \o m \in Texts /\ (m \o t) \o m \in Texts
  BY TextsJoin
<1>2. InARow(p, m, t \o m) /\ InARow(m, t, m) /\ InARow(p, m \o t, m)
  BY <1>1, ThreeTexts, Zenon
<1>3. QED
  BY <1>2, Zenon DEF Around, InARow

LEMMA EndsLonger ==
  ASSUME NEW x \in Texts, NEW p \in Texts, NEW m \in Texts, NEW t \in Texts, NEW end \in Texts,
         x = p \o (m \o t), EndsWith(t, end)
  PROVE  EndsWith(x, end)
<1>1. PICK a \in Texts : t = a \o end
  BY DEF EndsWith
<1>2. m \o a \in Texts /\ p \o (m \o a) \in Texts
  <2>1. m \o a \in Texts
    BY TextsJoin
  <2>2. QED
    BY <2>1, TextsJoin
<1>3. InARow(m, a, end) /\ InARow(p, m \o a, end)
  BY <1>2, ThreeTexts
<1>4. x = p \o (m \o (a \o end))
  BY <1>1
<1>5. x = (p \o (m \o a)) \o end
  BY <1>3, <1>4 DEF InARow
<1>6. QED
  BY <1>2, <1>5 DEF EndsWith

(* Every piece with the mark behind it is the text with the mark behind it, *)
(* unless the text is empty, the mark, or ends with two marks.              *)
LEMMA WholeIs ==
  ASSUME NEW mark \in Texts, mark # <<>>
  PROVE  \A x \in Texts : x # <<>> /\ x # mark /\ ~ EndsWith(x, mark \o mark) => Whole(x, mark) = x \o mark
<1> DEFINE Usual(x) == x # <<>> /\ x # mark /\ ~ EndsWith(x, mark \o mark)
           T == {x \in Texts : Usual(x) => Whole(x, mark) = x \o mark}
<1>0. mark \o mark \in Texts /\ <<>> \in Texts /\ <<>> \in Seq(Texts)
  BY TextsJoin DEF Texts
<1>1. ASSUME NEW x \in Texts, \A y \in Texts : Len(y) < Len(x) => y \in T, Usual(x)
      PROVE  Whole(x, mark) = x \o mark
  <2> DEFINE at == strstr(x, mark)
             piece == Before(x, at)
             tail == BehindMark(x, mark)
             more == Split(tail, mark, FALSE)
             pieces == Split(x, mark, FALSE)
  <2>1. /\ more \in Seq(Texts)
        /\ x # <<>> /\ at = 0 => pieces = <<x>> \o <<>>
        /\ x # <<>> /\ at # 0 =>
             pieces = <<piece>> \o (IF tail = <<>> /\ piece # <<>> THEN << <<>> >> \o <<>> ELSE more)
    BY PiecesAre
  <2>2. piece \in Texts /\ tail \in Texts /\ at \in Nat
    BY PieceBefore, BehindIs
  <2>3. Whole(x, mark) = FlattenSeq(Marked(pieces, mark)) /\ Whole(tail, mark) = FlattenSeq(Marked(more, mark))
    BY DEF Whole
  <2>4. ASSUME at # 0
        PROVE  x = piece \o (mark \o tail) /\ Len(tail) < Len(x)
    <3>1. at > 0
      BY <2>2, <2>4
    <3>2. Len(tail) < Len(x)
      BY <3>1, BehindIs
    <3>3. x = piece \o (mark \o From(x, at + Len(mark)))
      BY <3>1, LineIsParts
    <3>4. QED
      BY <3>2, <3>3 DEF BehindMark
  <2> HIDE DEF at, piece, tail, more, pieces
  <2>5. CASE at = 0
    <3>1. Whole(x, mark) = (x \o mark) \o FlattenSeq(Marked(<<>>, mark))
      <4>1. Prepended(x, <<>>, mark)
        BY <1>0, MarkedHead
      <4>2. QED
        BY <1>1, <2>1, <2>3, <2>5, <4>1 DEF Prepended
    <3>2. x \o mark \in Texts
      BY TextsJoin
    <3>3. (x \o mark) \o <<>> = x \o mark
      BY <3>2, ConcatEmptySeq DEF Texts
    <3>4. QED
      BY <3>1, <3>3, MarkedNone
  <2>6. CASE at # 0 /\ tail = <<>>
    <3>1. mark \o <<>> = mark
      BY ConcatEmptySeq DEF Texts
    <3>2. x = piece \o mark
      BY <2>4, <2>6, <3>1
    <3>3. piece # <<>>
      <4>1. <<>> \o mark = mark
        BY ConcatEmptySeq DEF Texts
      <4>2. QED
        BY <1>1, <3>2, <4>1
    <3>4. Whole(x, mark) = (piece \o mark) \o FlattenSeq(Marked(<< <<>> >> \o <<>>, mark))
      <4>1. << <<>> >> \o <<>> \in Seq(Texts)
        <5>1. << <<>> >> \in Seq(Texts)
          BY <1>0
        <5>2. QED
          BY <1>0, <5>1, ConcatProperties
      <4>2. pieces = <<piece>> \o (<< <<>> >> \o <<>>)
        BY <1>1, <2>1, <2>6, <3>3
      <4>3. Prepended(piece, << <<>> >> \o <<>>, mark)
        BY <2>2, <4>1, MarkedHead
      <4>4. QED
        BY <2>3, <4>2, <4>3 DEF Prepended
    <3>5. FlattenSeq(Marked(<< <<>> >> \o <<>>, mark)) = mark
      <4>1. Prepended(<<>>, <<>>, mark)
        BY <1>0, MarkedHead
      <4>2. FlattenSeq(Marked(<< <<>> >> \o <<>>, mark)) = (<<>> \o mark) \o <<>>
        BY <4>1, MarkedNone DEF Prepended
      <4>3. <<>> \o mark = mark /\ mark \o <<>> = mark
        BY ConcatEmptySeq DEF Texts
      <4>4. QED
        BY <4>2, <4>3
    <3>6. QED
      BY <3>2, <3>4, <3>5
  <2>7. CASE at # 0 /\ tail # <<>>
    <3>1. Whole(x, mark) = (piece \o mark) \o Whole(tail, mark)
      <4>1. pieces = <<piece>> \o more
        BY <1>1, <2>1, <2>7
      <4>2. Prepended(piece, more, mark)
        BY <2>1, <2>2, MarkedHead
      <4>3. QED
        BY <2>3, <4>1, <4>2 DEF Prepended
    <3>2. ~ EndsWith(tail, mark \o mark)
      BY <1>0, <1>1, <2>2, <2>4, <2>7, EndsLonger
    <3>3. tail # mark
      <4>1. x = piece \o (mark \o tail)
        BY <2>4, <2>7
      <4>2. QED
        BY <1>1, <2>2, <4>1 DEF EndsWith
    <3>4. tail \in T
      BY <1>1, <2>2, <2>4, <2>7
    <3>5. Whole(tail, mark) = tail \o mark
      BY <2>7, <3>2, <3>3, <3>4
    <3>6. Around(piece, mark, tail)
      BY <2>2, AroundHolds
    <3>7. x = piece \o (mark \o tail)
      BY <2>4, <2>7
    <3> HIDE DEF T
    <3>8. QED
      BY <3>1, <3>5, <3>6, <3>7 DEF Around
  <2>8. QED
    BY <2>5, <2>6, <2>7
<1>2. ASSUME NEW x \in Texts, \A y \in Texts : Len(y) < Len(x) => y \in T
      PROVE  x \in T
  BY <1>1, <1>2
<1>3. \A x \in Texts : x \in T
  <2> HIDE DEF T
  <2>1. QED
    BY <1>2, ShorterTexts
<1>4. QED
  BY <1>3-----------------------------------------------------------------------------
(* The pieces of a line, merged, are the line.                              *)
LEMMA JoinsBack ==
  ASSUME NEW line \in Texts, NEW mark \in Texts, Len(mark) = 2, ~ IsSuffix(mark \o mark, line)
  PROVE  Joined(Split(line, mark, FALSE), mark) = line
<1> DEFINE all == Whole(line, mark)
<1>1. Joined(Split(line, mark, FALSE), mark) = IF Len(all) > 2 THEN SubSeq(all, 1, Len(all) - 2) ELSE all
  BY DEF Joined, Whole
<1>2. mark # <<>> /\ mark \o mark \in Texts
  BY TextsJoin
<1>3. ~ EndsWith(line, mark \o mark)
  BY <1>2, SuffixIs DEF EndsWith
<1>4. Len(line) \in Nat /\ <<>> \in Texts /\ <<>> \in Seq(Texts)
  BY DEF Texts
<1>5. CASE line = <<>>
  <2>1. Split(line, mark, FALSE) = <<>>
    BY <1>2, <1>5, PiecesAre
  <2>2. all = <<>>
    BY <2>1, MarkedNone DEF Whole
  <2>3. Len(all) = 0
    BY <1>4, <2>2, NonEmpty
  <2> HIDE DEF all
  <2>4. ~ (Len(all) > 2)
    BY <2>3
  <2>5. QED
    BY <1>1, <1>5, <2>2, <2>4, Zenon
<1>6. CASE line = mark
  <2> DEFINE at == strstr(mark, mark)
  <2>1. at = 1
    <3>1. SubSeq(mark, 1, 1 + Len(mark) - 1) = mark
      <4>1. /\ SubSeq(mark, 1, 2) \in Texts /\ Len(SubSeq(mark, 1, 2)) = 2
            /\ \A k \in 1..2 : SubSeq(mark, 1, 2)[k] = mark[k]
        <5>1. 2 \in Nat /\ 2 <= Len(mark)
          OBVIOUS
        <5>2. QED
          BY <5>1, FirstPart, Zenon
      <4>2. ASSUME NEW u \in Texts, Len(u) = 2, \A k \in 1..2 : u[k] = mark[k]
            PROVE  u = mark
        BY <4>2, SeqEqual DEF Texts
      <4>3. 1 + Len(mark) - 1 = 2
        OBVIOUS
      <4>4. QED
        BY <4>1, <4>2, <4>3
    <3>2. \A a : a = strstr(mark, mark) => a \in Nat /\ a > 0 /\ a <= 1
      <4>1. ASSUME NEW a, a = strstr(mark, mark)
            PROVE  /\ a \in Nat
                   /\ \A i \in Nat : /\ i > 0 /\ i + Len(mark) - 1 <= Len(mark)
                                     /\ SubSeq(mark, i, i + Len(mark) - 1) = mark
                                     => a > 0 /\ a <= i
        BY <4>1, StrstrIs, Zenon
      <4>2. 1 \in Nat /\ 1 > 0 /\ 1 + Len(mark) - 1 <= Len(mark)
        OBVIOUS
      <4>3. QED
        BY <3>1, <4>1, <4>2
    <3>3. at \in Nat /\ at > 0 /\ at <= 1
      BY <3>2
    <3>4. QED
      BY <3>3
  <2>2. Before(mark, at) = <<>> /\ BehindMark(mark, mark) = <<>>
    <3>1. /\ SubSeq(mark, 1, 0) \in Texts /\ Len(SubSeq(mark, 1, 0)) = 0
          /\ SubSeq(mark, 3, 2) \in Texts /\ Len(SubSeq(mark, 3, 2)) = 0
      <4>1. \A i \in Nat \ {0}, j \in Int : j <= Len(mark) =>
              /\ SubSeq(mark, i, j) \in Texts
              /\ Len(SubSeq(mark, i, j)) = IF i <= j THEN j - i + 1 ELSE 0
        BY PartOfText
      <4>2. QED
        BY <4>1
    <3>2. SubSeq(mark, 1, 0) = <<>> /\ SubSeq(mark, 3, 2) = <<>>
      BY <3>1, EmptySeq DEF Texts
    <3>3. QED
      BY <2>1, <3>2 DEF Before, BehindMark, From
  <2>3. Split(mark, mark, FALSE) = << <<>> >> \o Split(<<>>, mark, FALSE)
    <3>1. mark # <<>> /\ strstr(mark, mark) # 0 =>
            Split(mark, mark, FALSE) =
              <<Before(mark, strstr(mark, mark))>>
                \o (IF BehindMark(mark, mark) = <<>> /\ Before(mark, strstr(mark, mark)) # <<>>
                    THEN << <<>> >> \o <<>> ELSE Split(BehindMark(mark, mark), mark, FALSE))
      BY <1>2, PiecesAre
    <3>2. strstr(mark, mark) # 0
      BY <2>1
    <3>3. QED
      BY <1>2, <2>2, <3>1, <3>2, Zenon
  <2>4. Split(<<>>, mark, FALSE) = <<>>
    BY <1>2, <1>4, PiecesAre
  <2>5. Prepended(<<>>, <<>>, mark)
    BY <1>4, MarkedHead
  <2>6. (<<>> \o mark) \o <<>> = mark
    <3>1. <<>> \o mark = mark /\ mark \o <<>> = mark
      BY ConcatEmptySeq DEF Texts
    <3>2. QED
      BY <3>1
  <2>7. all = mark
    BY <1>6, <2>3, <2>4, <2>5, <2>6, MarkedNone DEF Whole, Prepended
  <2> HIDE DEF all
  <2>8. ~ (Len(all) > 2)
    BY <2>7, SMTT(30)
  <2>9. QED
    BY <1>1, <1>6, <2>7, <2>8, Zenon
<1>7. CASE line # <<>> /\ line # mark
  <2>1. all = line \o mark
    BY <1>2, <1>3, <1>7, WholeIs
  <2> HIDE DEF all
  <2>2. /\ all \in Texts /\ Len(all) = Len(line) + 2
        /\ \A k \in 1..Len(line) : all[k] = line[k]
    <3>1. /\ line \o mark \in Texts /\ Len(line \o mark) = Len(line) + Len(mark)
          /\ \A k \in 1..Len(line) + Len(mark) :
               (line \o mark)[k] = IF k <= Len(line) THEN line[k] ELSE mark[k - Len(line)]
      BY ConcatProperties DEF Texts
    <3>2. \A k \in 1..Len(line) : k \in 1..Len(line) + Len(mark) /\ k <= Len(line)
      BY <1>4
    <3>3. QED
      BY <2>1, <3>1, <3>2
  <2>3. Len(line) > 0
    BY <1>7, NonEmpty
  <2>4. Joined(Split(line, mark, FALSE), mark) = SubSeq(all, 1, Len(line))
    <3>1. Len(all) > 2 /\ Len(all) - 2 = Len(line)
      BY <1>4, <2>2, <2>3
    <3>2. QED
      BY <1>1, <3>1
  <2>5. /\ SubSeq(all, 1, Len(line)) \in Texts /\ Len(SubSeq(all, 1, Len(line))) = Len(line)
        /\ \A k \in 1..Len(line) : SubSeq(all, 1, Len(line))[k] = all[k]
    BY <1>4, <2>2, <2>3, PartOfText
  <2>6. ASSUME NEW u \in Texts, Len(u) = Len(line), \A k \in 1..Len(line) : u[k] = line[k]
        PROVE  u = line
    BY <2>6, SeqEqual DEF Texts
  <2>7. QED
    BY <2>2, <2>4, <2>5, <2>6
<1>8. QED
  BY <1>5, <1>6, <1>7
-----------------------------------------------------------------------------
(* The inductive invariant: the result lies in the workspace, and the       *)
(* record of the last call still tells what its result was computed from,   *)
(* and why it has overrun the workspace.                                   *)
ReplacedFrom(line, search, replacement) ==
  /\ call.arguments = <<line, search, replacement>>
  /\ call.spills \subseteq {"workspace"} =>
       /\ ret = replaceAll(line, search, replacement).ret
       /\ out = replaceAll(line, search, replacement).out
       /\ call.spills # {} => /\ Len(line) <= Workspace /\ Len(search) <= TagSize
                              /\ OutgrowsWorkspace(line, search, replacement)

ReplacedCall ==
  call.op = "replaceAll" => \E line, search, replacement \in Texts : ReplacedFrom(line, search, replacement)

SplitCall ==
  call.op = "split" =>
    \E line, tag \in Texts :
      /\ call.arguments = <<line, tag>>
      /\ ret = 1 => tag # <<>> /\ char_array = Split(line, tag, g_greedy)

ParserInv == ResultInWorkspace /\ ReplacedCall /\ SplitCall

LEMMA InputsAreTexts ==
  /\ \A line \in Lines : line \in Texts
  /\ \A tag \in Tags : tag \in Texts
  /\ \A replacement \in Replacements : replacement \in Texts
  BY LineParserAssumption DEF Texts

LEMMA InitialParser == Init => ParserInv
<1>1. ASSUME Init
      PROVE  ResultInWorkspace
  <2>1. <<>> \in Seq(Seq(STRING)) /\ FALSE \in BOOLEAN /\ 1 \in Int
    OBVIOUS
  <2>2. g_greedy = FALSE /\ char_array = <<>> /\ ret = 1 /\ out = NoText /\ call.spills = {}
    BY <1>1 DEF Init, Idle
  <2>3. QED
    BY <2>1, <2>2, Zenon DEF ResultInWorkspace
<1>2. ASSUME Init
      PROVE  call.op = "none"
  BY <1>2 DEF Init, Idle
<1>3. QED
  BY <1>1, <1>2 DEF ParserInv, ReplacedCall, SplitCall

(* What an overrun buffer tells of the arguments.                           *)
LEMMA OverrunIs ==
  ASSUME NEW line, NEW tag, NEW buffers
  PROVE  /\ Overrun(line, tag, buffers) \subseteq DOMAIN buffers
         /\ \A b \in Overrun(line, tag, buffers) :
              buffers[b] /\ Len(line) <= Workspace /\ Len(tag) <= TagSize
         /\ \A b \in DOMAIN buffers :
              Len(line) <= Workspace /\ Len(tag) <= TagSize /\ buffers[b] => b \in Overrun(line, tag, buffers)
  BY DEF Overrun

LEMMA TagTooLong ==
  ASSUME NEW line \in Texts, NEW tag \in Texts, NEW op \in Replacing \cup {"dashed", "tag", "pair", "split"},
         NEW rest, Len(tag) + 2 >= TagSize
  PROVE  ~ LeaveRoom(op, <<line, tag>>) /\ ~ LeaveRoom(op, <<line, tag, rest>>)
<1>1. Len(tag) \in Nat /\ TagSize \in Nat
  BY LineParserAssumption, NonEmpty
<1>2. ~ (Len(tag) + 2 < TagSize)
  BY <1>1
<1>3. <<line, tag>>[2] = tag /\ <<line, tag, rest>>[2] = tag
  OBVIOUS
<1>4. QED
  BY <1>2, <1>3 DEF LeaveRoom

(* A call that hands out a result and is no replaceAll and no splitTag.     *)
LEMMA OtherCalls ==
  ASSUME ParserInv, NEW op, NEW arguments, NEW r, NEW spills, Returns(op, arguments, r, spills),
         spills \subseteq {"workspace"} => InWorkspace(r),
         spills # {} => ~ LeaveRoom(op, arguments),
         op # "replaceAll", op # "split"
  PROVE  ParserInv'
<1>1. call'.op = op /\ call'.arguments = arguments /\ call'.spills = spills
  BY DEF Returns
<1>2. InWorkspace([ret |-> ret', out |-> out'])
  <2>1. CASE spills \subseteq {"workspace"}
    BY <2>1 DEF Returns, InWorkspace
  <2>2. CASE ~ (spills \subseteq {"workspace"})
    BY <2>2 DEF Returns, InWorkspace, Undefined
  <2>3. QED
    BY <2>1, <2>2
<1>3. g_greedy' = g_greedy /\ char_array' = char_array
  BY DEF Returns
<1>4. ResultInWorkspace'
  BY <1>1, <1>2, <1>3 DEF ParserInv, ResultInWorkspace, InWorkspace, Texts
<1>5. QED
  BY <1>1, <1>4 DEF ParserInv, ReplacedCall, SplitCall

LEMMA ExtractKeeps == ParserInv /\ Extract => ParserInv'
<1> SUFFICES ASSUME ParserInv, Extract
             PROVE  ParserInv'
  OBVIOUS
<1>1. PICK line \in Lines, tag \in Tags :
        \/ Returns("dashed", <<line, tag>>, extractDashedParameter(line, tag),
                   Overrun(line, tag, [tag_start |-> Len(tag) + 2 >= TagSize]))
        \/ Returns("tag", <<line, tag>>, extractTag(line, tag),
                   Overrun(line, tag, [tag_start |-> Len(tag) + 1 >= TagSize]))
        \/ \E right \in Tags \cup {NoText} :
             Returns("insider", <<line, tag, right>>, extractInsider(line, tag, right), {})
        \/ Returns("insider", <<line, NoText, tag>>, extractInsider(line, NoText, tag), {})
        \/ Returns("pair", <<line, tag>>, extractKeyValuePair(line, tag),
                   Overrun(line, tag, [tag_start |-> Len(tag) >= TagSize]))
  BY Zenon DEF Extract
<1>2. line \in Texts /\ tag \in Texts /\ Len(tag) \in Nat /\ TagSize \in Nat
  BY InputsAreTexts, NonEmpty, LineParserAssumption
<1>3. ASSUME NEW full, full => Len(tag) + 2 >= TagSize, NEW op \in {"dashed", "tag", "pair"},
             NEW r, InWorkspace(r), Returns(op, <<line, tag>>, r, Overrun(line, tag, [tag_start |-> full]))
      PROVE  ParserInv'
  <2>1. Overrun(line, tag, [tag_start |-> full]) # {} => full
    <3>1. DOMAIN [tag_start |-> full] = {"tag_start"} /\ [tag_start |-> full]["tag_start"] = full
      OBVIOUS
    <3>2. QED
      BY <3>1, OverrunIs
  <2>2. Overrun(line, tag, [tag_start |-> full]) # {} => ~ LeaveRoom(op, <<line, tag>>)
    BY <1>2, <1>3, <2>1, TagTooLong
  <2>3. op # "replaceAll" /\ op # "split"
    BY <1>3
  <2>4. QED
    BY <1>3, <2>2, <2>3, OtherCalls, Zenon
<1>4. CASE Returns("dashed", <<line, tag>>, extractDashedParameter(line, tag),
                   Overrun(line, tag, [tag_start |-> Len(tag) + 2 >= TagSize]))
  <2>1. InWorkspace(extractDashedParameter(line, tag))
    BY <1>2, DashedFits
  <2>2. QED
    BY <1>3, <1>4, <2>1
<1>5. CASE Returns("tag", <<line, tag>>, extractTag(line, tag),
                   Overrun(line, tag, [tag_start |-> Len(tag) + 1 >= TagSize]))
  <2>1. InWorkspace(extractTag(line, tag))
    BY <1>2, TagFits
  <2>2. Len(tag) + 1 >= TagSize => Len(tag) + 2 >= TagSize
    BY <1>2
  <2>3. QED
    BY <1>3, <1>5, <2>1, <2>2
<1>6. CASE \E right \in Tags \cup {NoText} :
             Returns("insider", <<line, tag, right>>, extractInsider(line, tag, right), {})
  <2>1. PICK right \in Tags \cup {NoText} :
          Returns("insider", <<line, tag, right>>, extractInsider(line, tag, right), {})
    BY <1>6
  <2>2. right \in Texts \cup {NoText} /\ tag \in Texts \cup {NoText}
    BY <1>2, InputsAreTexts
  <2>3. InWorkspace(extractInsider(line, tag, right))
    BY <1>2, <2>2, InsiderFits
  <2>4. "insider" # "replaceAll" /\ "insider" # "split"
    OBVIOUS
  <2>5. QED
    BY <2>1, <2>3, <2>4, OtherCalls, Zenon
<1>7. CASE Returns("insider", <<line, NoText, tag>>, extractInsider(line, NoText, tag), {})
  <2>1. NoText \in Texts \cup {NoText} /\ tag \in Texts \cup {NoText}
    BY <1>2
  <2>2. InWorkspace(extractInsider(line, NoText, tag))
    BY <1>2, <2>1, InsiderFits
  <2>3. "insider" # "replaceAll" /\ "insider" # "split"
    OBVIOUS
  <2>4. QED
    BY <1>7, <2>2, <2>3, OtherCalls, Zenon
<1>8. CASE Returns("pair", <<line, tag>>, extractKeyValuePair(line, tag),
                   Overrun(line, tag, [tag_start |-> Len(tag) >= TagSize]))
  <2>1. InWorkspace(extractKeyValuePair(line, tag))
    BY <1>2, PairFits
  <2>2. Len(tag) >= TagSize => Len(tag) + 2 >= TagSize
    BY <1>2
  <2>3. QED
    BY <1>3, <1>8, <2>1, <2>2
<1>9. QED
  BY <1>1, <1>4, <1>5, <1>6, <1>7, <1>8, Zenon

(* The copies that replace and replaceAll make: what the absence of an      *)
(* overrun and its presence tell.                                          *)
LEMMA CopiesAre ==
  ASSUME NEW line \in Texts, NEW search \in Texts, NEW replacement \in Texts,
         NEW spills, spills = Overrun(line, search, Copies(line, search, replacement))
  PROVE  /\ spills \subseteq {"input", "replacement", "tag_start"}
         /\ spills \subseteq {"workspace"} =>
              spills = {} /\ (Len(line) # Workspace \/ Len(search) > TagSize)
         /\ \A op \in Replacing : spills # {} => ~ LeaveRoom(op, <<line, search, replacement>>)
<1> DEFINE buffers == Copies(line, search, replacement)
<1>1. /\ DOMAIN buffers = {"input", "replacement", "tag_start"}
      /\ buffers["input"] <=> Len(line) >= Workspace
      /\ buffers["replacement"] <=> Len(replacement) >= Workspace
      /\ buffers["tag_start"] <=> (search # <<>> /\ Len(search) >= TagSize)
  BY DEF Copies
<1>2. /\ Len(line) \in Nat /\ Len(search) \in Nat /\ Len(replacement) \in Nat
      /\ Workspace \in Nat /\ TagSize \in Nat
  BY LineParserAssumption, NonEmpty
<1> HIDE DEF buffers
<1>3. /\ spills \subseteq DOMAIN buffers
      /\ \A b \in spills : buffers[b]
      /\ Len(line) <= Workspace /\ Len(search) <= TagSize /\ buffers["input"] => "input" \in spills
  BY <1>1, OverrunIs DEF buffers
<1>4. spills \subseteq {"input", "replacement", "tag_start"}
  BY <1>1, <1>3
<1>5. ASSUME spills \subseteq {"workspace"}
      PROVE  spills = {} /\ (Len(line) # Workspace \/ Len(search) > TagSize)
  <2>1. spills = {} /\ "input" \notin spills
    <3>1. "workspace" \notin {"input", "replacement", "tag_start"} /\ "input" # "workspace"
      OBVIOUS
    <3>2. QED
      BY <1>4, <1>5, <3>1
  <2>2. ~ (Len(line) <= Workspace /\ Len(search) <= TagSize /\ Len(line) >= Workspace)
    BY <1>1, <1>3, <2>1
  <2>3. QED
    BY <1>2, <2>1, <2>2
<1>6. ASSUME NEW op \in Replacing, spills # {}
      PROVE  ~ LeaveRoom(op, <<line, search, replacement>>)
  <2>1. PICK b \in spills : buffers[b]
    BY <1>3, <1>6
  <2>2. b \in {"input", "replacement", "tag_start"}
    BY <1>4
  <2>3. /\ <<line, search, replacement>>[1] = line
        /\ <<line, search, replacement>>[3] = replacement /\ op # "merge"
    BY <1>6 DEF Replacing
  <2>4. CASE b = "input"
    <3>1. ~ (Len(line) < Workspace)
      BY <1>1, <1>2, <2>1, <2>4
    <3>2. QED
      BY <2>3, <3>1 DEF LeaveRoom
  <2>5. CASE b = "replacement"
    <3>1. ~ (Len(replacement) < Workspace)
      BY <1>1, <1>2, <2>1, <2>5
    <3>2. QED
      BY <1>6, <2>3, <3>1 DEF LeaveRoom
  <2>6. CASE b = "tag_start"
    <3>1. Len(search) + 2 >= TagSize
      BY <1>1, <1>2, <2>1, <2>6
    <3>2. op \in Replacing \cup {"dashed", "tag", "pair", "split"}
      BY <1>6
    <3>3. QED
      BY <3>1, <3>2, TagTooLong
  <2>7. QED
    BY <2>2, <2>4, <2>5, <2>6
<1>7. QED
  BY <1>4, <1>5, <1>6

LEMMA ReplacesFit ==
  ASSUME NEW line \in Texts, NEW search \in Texts, NEW replacement \in Texts,
         Len(line) # Workspace \/ Len(search) > TagSize
  PROVE  InWorkspace(replace(line, search, replacement)) /\ InWorkspace(replaceAll(line, search, replacement))
<1>1. CASE Len(line) # Workspace
  <2>1. \A r : r = replaceAll(line, search, replacement) => InWorkspace(r)
    BY <1>1, ReplaceAllIs
  <2>2. QED
    BY <1>1, <2>1, ReplaceFits
<1>2. CASE Len(search) > TagSize
  <2>1. InWorkspace(Result(-10, NoText)) /\ InWorkspace(Result(-11, NoText))
    BY NothingFits
  <2>2. QED
    BY <1>2, <2>1 DEF replace, replaceAll
<1>3. QED
  BY <1>1, <1>2

LEMMA ReplaceAllKeeps ==
  ASSUME ParserInv, NEW line \in Texts, NEW search \in Texts, NEW replacement \in Texts,
         Returns("replaceAll", <<line, search, replacement>>, replaceAll(line, search, replacement),
                 Overrun(line, search, Copies(line, search, replacement))
                   \cup Overrun(line, search, [workspace |-> OutgrowsWorkspace(line, search, replacement)]))
  PROVE  ParserInv'
<1> DEFINE copies == Overrun(line, search, Copies(line, search, replacement))
           heap == Overrun(line, search, [workspace |-> OutgrowsWorkspace(line, search, replacement)])
           arguments == <<line, search, replacement>>
<1>1. /\ call'.op = "replaceAll" /\ call'.arguments = arguments /\ call'.spills = copies \cup heap
      /\ ret' = IF copies \cup heap \subseteq {"workspace"} THEN replaceAll(line, search, replacement).ret ELSE Undefined
      /\ out' = IF copies \cup heap \subseteq {"workspace"} THEN replaceAll(line, search, replacement).out ELSE NoText
      /\ g_greedy' = g_greedy /\ char_array' = char_array
  BY DEF Returns
<1>2. /\ copies \subseteq {"workspace"} => copies = {} /\ (Len(line) # Workspace \/ Len(search) > TagSize)
      /\ copies # {} => ~ LeaveRoom("replaceAll", arguments)
  <2>1. "replaceAll" \in Replacing
    BY DEF Replacing
  <2>2. QED
    BY <2>1, CopiesAre
<1>3. heap # {} => /\ Len(line) <= Workspace /\ Len(search) <= TagSize
                   /\ OutgrowsWorkspace(line, search, replacement)
  <2>1. /\ DOMAIN [workspace |-> OutgrowsWorkspace(line, search, replacement)] = {"workspace"}
        /\ [workspace |-> OutgrowsWorkspace(line, search, replacement)]["workspace"]
             = OutgrowsWorkspace(line, search, replacement)
    OBVIOUS
  <2>2. QED
    BY <2>1, OverrunIs
<1>4. heap # {} => ~ LeaveRoom("replaceAll", arguments)
  <2>1. SUFFICES ASSUME heap # {}
                 PROVE  ~ LeaveRoom("replaceAll", arguments)
    OBVIOUS
  <2>2. search # <<>>
    BY <1>3, <2>1 DEF OutgrowsWorkspace
  <2>3. Len(Substituted(line, search, replacement)) >= Workspace
    <3>1. \A r : r = replaceAll(line, search, replacement) => Len(Substituted(line, search, replacement)) >= Workspace
      BY <1>3, <2>1, ReplaceAllIs
    <3>2. QED
      BY <3>1
  <2>4. ~ (Len(Substituted(line, search, replacement)) < Workspace)
    <3>1. Len(Substituted(line, search, replacement)) \in Nat /\ Workspace \in Nat
      BY <2>2, SubstitutedSteps, NonEmpty, LineParserAssumption
    <3>2. QED
      BY <2>3, <3>1
  <2>5. arguments[1] = line /\ arguments[2] = search /\ arguments[3] = replacement
    OBVIOUS
  <2>6. QED
    BY <2>2, <2>4, <2>5 DEF LeaveRoom
<1> HIDE DEF copies, heap
<1>5. copies \cup heap \subseteq {"workspace"} =>
        copies = {} /\ InWorkspace(replaceAll(line, search, replacement))
  BY <1>2, ReplacesFit
<1>6. InWorkspace([ret |-> ret', out |-> out'])
  <2>1. CASE copies \cup heap \subseteq {"workspace"}
    BY <1>1, <1>5, <2>1 DEF InWorkspace
  <2>2. CASE ~ (copies \cup heap \subseteq {"workspace"})
    BY <1>1, <2>2 DEF InWorkspace, Undefined
  <2>3. QED
    BY <2>1, <2>2
<1>7. call'.spills # {} => ~ LeaveRoom(call'.op, call'.arguments)
  BY <1>1, <1>2, <1>4
<1>8. ResultInWorkspace'
  BY <1>1, <1>6, <1>7 DEF ParserInv, ResultInWorkspace, InWorkspace, Texts
<1>9. ReplacedCall'
  <2>1. ASSUME call'.spills \subseteq {"workspace"}
        PROVE  /\ ret' = replaceAll(line, search, replacement).ret
               /\ out' = replaceAll(line, search, replacement).out
               /\ call'.spills # {} => heap # {}
    BY <1>1, <1>5, <2>1
  <2>2. QED
    BY <1>1, <1>3, <2>1 DEF ReplacedCall, ReplacedFrom
<1>10. SplitCall'
  BY <1>1 DEF SplitCall
<1>11. QED
  BY <1>8, <1>9, <1>10 DEF ParserInv

LEMMA RebuildKeeps == ParserInv /\ Rebuild => ParserInv'
<1> SUFFICES ASSUME ParserInv, Rebuild
             PROVE  ParserInv'
  OBVIOUS
<1>1. PICK line \in Lines, tag \in Tags, replacement \in Replacements :
        \/ Returns("replaceTag", <<line, tag, replacement>>, replaceTag(line, tag, replacement),
                   Overrun(line, tag, [tag_start |-> Len(tag) + 1 >= TagSize,
                                       line_reconstructed |-> Len(line) >= Workspace /\ Has(line, tag \o <<"(">>)]))
        \/ Returns("replace", <<line, tag, replacement>>, replace(line, tag, replacement),
                   Overrun(line, tag, Copies(line, tag, replacement)))
        \/ Returns("replaceAll", <<line, tag, replacement>>, replaceAll(line, tag, replacement),
                   Overrun(line, tag, Copies(line, tag, replacement))
                     \cup Overrun(line, tag, [workspace |-> OutgrowsWorkspace(line, tag, replacement)]))
  BY Zenon DEF Rebuild
<1>2. line \in Texts /\ tag \in Texts /\ replacement \in Texts
  BY InputsAreTexts
<1>3. ASSUME NEW copied, copied => Len(line) >= Workspace,
             NEW buffers, buffers = [tag_start |-> Len(tag) + 1 >= TagSize, line_reconstructed |-> copied],
             Returns("replaceTag", <<line, tag, replacement>>, replaceTag(line, tag, replacement),
                     Overrun(line, tag, buffers))
      PROVE  ParserInv'
  <2>1. InWorkspace(replaceTag(line, tag, replacement))
    BY <1>2, ReplaceTagFits
  <2>2. Overrun(line, tag, buffers) # {} => Len(tag) + 1 >= TagSize \/ copied
    <3>1. /\ DOMAIN buffers = {"tag_start", "line_reconstructed"}
          /\ buffers["tag_start"] = (Len(tag) + 1 >= TagSize) /\ buffers["line_reconstructed"] = copied
      BY <1>3
    <3>2. QED
      BY <3>1, OverrunIs
  <2>3. Len(tag) + 1 >= TagSize => ~ LeaveRoom("replaceTag", <<line, tag, replacement>>)
    <3>1. Len(tag) \in Nat /\ TagSize \in Nat
      BY <1>2, LineParserAssumption, NonEmpty
    <3>2. "replaceTag" \in Replacing \cup {"dashed", "tag", "pair", "split"}
      BY DEF Replacing
    <3>3. Len(tag) + 1 >= TagSize => Len(tag) + 2 >= TagSize
      BY <3>1
    <3>4. QED
      BY <1>2, <3>2, <3>3, TagTooLong
  <2>4. copied => ~ LeaveRoom("replaceTag", <<line, tag, replacement>>)
    <3>1. Len(line) \in Nat /\ Workspace \in Nat
      BY <1>2, LineParserAssumption, NonEmpty
    <3>2. copied => ~ (Len(line) < Workspace)
      BY <1>3, <3>1
    <3>3. <<line, tag, replacement>>[1] = line /\ "replaceTag" # "merge"
      OBVIOUS
    <3>4. QED
      BY <3>2, <3>3 DEF LeaveRoom
  <2>5. "replaceTag" # "replaceAll" /\ "replaceTag" # "split"
    OBVIOUS
  <2>6. QED
    BY <1>3, <2>1, <2>2, <2>3, <2>4, <2>5, OtherCalls, Zenon
<1>4. CASE Returns("replaceTag", <<line, tag, replacement>>, replaceTag(line, tag, replacement),
                   Overrun(line, tag, [tag_start |-> Len(tag) + 1 >= TagSize,
                                       line_reconstructed |-> Len(line) >= Workspace /\ Has(line, tag \o <<"(">>)]))
  <2>1. (Len(line) >= Workspace /\ Has(line, tag \o <<"(">>)) => Len(line) >= Workspace
    OBVIOUS
  <2>2. QED
    BY <1>3, <1>4, <2>1
<1>5. CASE Returns("replace", <<line, tag, replacement>>, replace(line, tag, replacement),
                   Overrun(line, tag, Copies(line, tag, replacement)))
  <2>1. /\ Overrun(line, tag, Copies(line, tag, replacement)) \subseteq {"workspace"} =>
             InWorkspace(replace(line, tag, replacement))
        /\ Overrun(line, tag, Copies(line, tag, replacement)) # {} =>
             ~ LeaveRoom("replace", <<line, tag, replacement>>)
    <3>1. "replace" \in Replacing
      BY DEF Replacing
    <3>2. QED
      BY <1>2, <3>1, CopiesAre, ReplacesFit
  <2>2. "replace" # "replaceAll" /\ "replace" # "split"
    OBVIOUS
  <2>3. QED
    BY <1>5, <2>1, <2>2, OtherCalls, Zenon
<1>6. CASE Returns("replaceAll", <<line, tag, replacement>>, replaceAll(line, tag, replacement),
                   Overrun(line, tag, Copies(line, tag, replacement))
                     \cup Overrun(line, tag, [workspace |-> OutgrowsWorkspace(line, tag, replacement)]))
  BY <1>2, <1>6, ReplaceAllKeeps
<1>7. QED
  BY <1>1, <1>4, <1>5, <1>6, Zenon

LEMMA WordsKeep == ParserInv /\ Words => ParserInv'
<1> SUFFICES ASSUME ParserInv, Words
             PROVE  ParserInv'
  OBVIOUS
<1>1. PICK line \in Lines :
        \/ Returns("word", <<line>>, extractFirstWord(line), Overrun(line, <<>>, [temp |-> Len(line) >= Workspace]))
        \/ \E left, right \in BOOLEAN :
             Returns("strip", <<line, left, right>>, stripSpacing(line, left, right),
                     Overrun(line, <<>>, [temp |-> Len(line) >= Workspace]))
  BY Zenon DEF Words
<1>2. line \in Texts /\ Len(line) \in Nat /\ Workspace \in Nat /\ TagSize \in Nat
  BY InputsAreTexts, NonEmpty, LineParserAssumption
<1> DEFINE spills == Overrun(line, <<>>, [temp |-> Len(line) >= Workspace])
<1>3. /\ spills \subseteq {"temp"}
      /\ spills # {} => Len(line) >= Workspace
      /\ Len(line) = Workspace => "temp" \in spills
  <2>1. /\ DOMAIN [temp |-> Len(line) >= Workspace] = {"temp"}
        /\ [temp |-> Len(line) >= Workspace]["temp"] = (Len(line) >= Workspace)
    OBVIOUS
  <2>2. Len(<<>>) <= TagSize
    BY <1>2, NonEmpty
  <2>3. spills # {} => Len(line) >= Workspace
    BY <2>1, OverrunIs
  <2>4. Len(line) = Workspace => Len(line) <= Workspace /\ Len(line) >= Workspace
    BY <1>2
  <2>5. QED
    BY <2>1, <2>2, <2>3, <2>4, OverrunIs
<1> HIDE DEF spills
<1>4. spills \subseteq {"workspace"} => Len(line) # Workspace
  <2>1. "temp" # "workspace"
    OBVIOUS
  <2>2. QED
    BY <1>3, <2>1
<1>5. \A op \in {"word", "strip"} : \A arguments : arguments[1] = line /\ spills # {} => ~ LeaveRoom(op, arguments)
  <2>1. spills # {} => ~ (Len(line) < Workspace)
    BY <1>2, <1>3
  <2>2. QED
    BY <2>1 DEF LeaveRoom
<1>6. CASE Returns("word", <<line>>, extractFirstWord(line), spills)
  <2>1. spills \subseteq {"workspace"} => InWorkspace(extractFirstWord(line))
    BY <1>2, <1>4, WordFits
  <2>2. "word" # "replaceAll" /\ "word" # "split" /\ <<line>>[1] = line
    OBVIOUS
  <2>3. spills # {} => ~ LeaveRoom("word", <<line>>)
    BY <1>5, <2>2
  <2>4. QED
    BY <1>6, <2>1, <2>2, <2>3, OtherCalls, Zenon
<1>7. CASE \E left, right \in BOOLEAN :
             Returns("strip", <<line, left, right>>, stripSpacing(line, left, right), spills)
  <2>1. PICK left \in BOOLEAN, right \in BOOLEAN :
          Returns("strip", <<line, left, right>>, stripSpacing(line, left, right), spills)
    BY <1>7
  <2>2. spills \subseteq {"workspace"} => InWorkspace(stripSpacing(line, left, right))
    BY <1>2, <1>4, StripFits
  <2>3. "strip" # "replaceAll" /\ "strip" # "split" /\ <<line, left, right>>[1] = line
    OBVIOUS
  <2>4. spills # {} => ~ LeaveRoom("strip", <<line, left, right>>)
    BY <1>5, <2>3
  <2>5. QED
    BY <2>1, <2>2, <2>3, <2>4, OtherCalls, Zenon
<1>8. QED
  BY <1>1, <1>6, <1>7 DEF spills

LEMMA SplitKeeps == ParserInv /\ splitTag => ParserInv'
<1> SUFFICES ASSUME ParserInv, splitTag
             PROVE  ParserInv'
  OBVIOUS
<1> DEFINE Spilled(line, tag) ==
             IF tag = <<>> THEN {}
             ELSE Overrun(line, tag, [temp |-> Len(line) >= Workspace, tag_start |-> Len(tag) >= TagSize])
<1>1. PICK line \in Lines, tag \in Tags :
        /\ call' = [op |-> "split", arguments |-> <<line, tag>>, spills |-> Spilled(line, tag)]
        /\ ret' = IF Spilled(line, tag) = {} THEN IF Len(line) > Workspace THEN -10
                                      ELSE IF Len(tag) > TagSize THEN -11
                                      ELSE IF tag = <<>> THEN -12 ELSE 1
                  ELSE Undefined
        /\ char_array' = IF ret' = 1 THEN Split(line, tag, g_greedy) ELSE <<>>
  BY DEF splitTag
<1>2. line \in Texts /\ tag \in Texts /\ out' = NoText /\ g_greedy' = g_greedy
  BY InputsAreTexts DEF splitTag
<1>3. call'.op = "split" /\ call'.arguments = <<line, tag>> /\ call'.spills = Spilled(line, tag)
  BY <1>1
<1>4. /\ ret' \in {-10, -11, -12, 1, -99}
      /\ ret' = 1 => tag # <<>> /\ char_array' = Split(line, tag, g_greedy)
      /\ ret' # 1 => char_array' = <<>>
  BY <1>1 DEF Undefined
<1>5. char_array' \in Seq(Texts)
  <2>1. CASE ret' = 1
    BY <1>2, <1>4, <2>1, SplitSteps
  <2>2. CASE ret' # 1
    BY <1>4, <2>2
  <2>3. QED
    BY <2>1, <2>2
<1>6. Spilled(line, tag) # {} => ~ LeaveRoom("split", <<line, tag>>)
  <2>1. SUFFICES ASSUME Spilled(line, tag) # {}
                 PROVE  ~ LeaveRoom("split", <<line, tag>>)
    OBVIOUS
  <2> DEFINE buffers == [temp |-> Len(line) >= Workspace, tag_start |-> Len(tag) >= TagSize]
  <2>2. /\ DOMAIN buffers = {"temp", "tag_start"}
        /\ buffers["temp"] = (Len(line) >= Workspace) /\ buffers["tag_start"] = (Len(tag) >= TagSize)
    OBVIOUS
  <2>3. Spilled(line, tag) = Overrun(line, tag, buffers)
    BY <1>1, <2>1
  <2> HIDE DEF buffers
  <2>4. Len(line) >= Workspace \/ Len(tag) >= TagSize
    BY <2>1, <2>2, <2>3, OverrunIs
  <2>5. Len(line) \in Nat /\ Workspace \in Nat /\ Len(tag) \in Nat /\ TagSize \in Nat
    BY <1>2, NonEmpty, LineParserAssumption
  <2>6. CASE Len(line) >= Workspace
    <3>1. ~ (Len(line) < Workspace) /\ <<line, tag>>[1] = line /\ "split" # "merge"
      BY <2>5, <2>6
    <3>2. QED
      BY <3>1 DEF LeaveRoom
  <2>7. CASE Len(tag) >= TagSize
    <3>1. Len(tag) + 2 >= TagSize /\ "split" \in Replacing \cup {"dashed", "tag", "pair", "split"}
      BY <2>5, <2>7
    <3>2. QED
      BY <1>2, <3>1, TagTooLong
  <2>8. QED
    BY <2>4, <2>6, <2>7
<1>7. ResultInWorkspace'
  <2>1. ret' \in Int
    BY <1>4
  <2>2. call'.spills # {} => ~ LeaveRoom(call'.op, call'.arguments)
    BY <1>3, <1>6
  <2>3. QED
    BY <1>2, <1>5, <2>1, <2>2 DEF ParserInv, ResultInWorkspace, Texts
<1>8. SplitCall'
  BY <1>2, <1>3, <1>4 DEF SplitCall
<1>9. ReplacedCall'
  BY <1>3 DEF ReplacedCall
<1>10. QED
  BY <1>7, <1>8, <1>9 DEF ParserInv

LEMMA StepKeepsParser == ParserInv /\ [Next]_vars => ParserInv'
<1> SUFFICES ASSUME ParserInv, [Next]_vars
             PROVE  ParserInv'
  OBVIOUS
<1>1. CASE MergeBack
  <2>1. Returns("merge", <<char_array>>, mergeTag(char_array), {})
    BY <1>1 DEF MergeBack
  <2>2. char_array \in Seq(Texts)
    BY DEF ParserInv, ResultInWorkspace, Texts
  <2>3. InWorkspace(mergeTag(char_array))
    BY <2>2, MergeFits
  <2>4. "merge" # "replaceAll" /\ "merge" # "split"
    OBVIOUS
  <2>5. QED
    BY <2>1, <2>3, <2>4, OtherCalls, Zenon
<1>2. CASE setGreediness
  <2>1. ResultInWorkspace' /\ call'.op = "setGreediness"
    BY <1>2 DEF setGreediness, ParserInv, ResultInWorkspace
  <2>2. QED
    BY <2>1 DEF ParserInv, ReplacedCall, SplitCall
<1>3. CASE Consume
  <2>1. ResultInWorkspace' /\ call'.op = "none"
    BY <1>3 DEF Consume, Idle, ParserInv, ResultInWorkspace
  <2>2. QED
    BY <2>1 DEF ParserInv, ReplacedCall, SplitCall
<1>4. CASE UNCHANGED vars
  <2>1. /\ g_greedy' = g_greedy /\ char_array' = char_array /\ call' = call
        /\ ret' = ret /\ out' = out
    BY <1>4 DEF vars
  <2>2. ResultInWorkspace' /\ ReplacedCall' /\ SplitCall'
    BY <2>1 DEF ParserInv, ResultInWorkspace, ReplacedCall, ReplacedFrom, SplitCall
  <2>3. QED
    BY <2>2 DEF ParserInv
<1>5. QED
  BY <1>1, <1>2, <1>3, <1>4, ExtractKeeps, RebuildKeeps, WordsKeep, SplitKeeps, Zenon DEF Next

LEMMA ParserAlways == Spec => []ParserInv
  BY InitialParser, StepKeepsParser, PTL DEF Spec

(* What a call hands out lies inside the workspace with its terminator,     *)
(* whatever lines, tags and replacements callers give; and a call whose     *)
(* arguments, and for lineParser_replaceAll the text they ask for, are      *)
(* shorter than the buffers of toolbox-line-parser.c overruns none of them. *)
THEOREM ResultsFit == Spec => []ResultInWorkspace
<1>1. ParserInv => ResultInWorkspace
  BY DEF ParserInv
<1>2. QED
  BY <1>1, ParserAlways, PTL

(* lineParser_replaceAll reports 1 only when every occurrence is replaced,  *)
(* 0 exactly for a line without one, which it hands back, and an error when *)
(* it has overrun the workspace.                                           *)
THEOREM ReplacementsReported == Spec => []ReplacedIsReported
<1>1. ASSUME ParserInv, call.op = "replaceAll", call.spills \subseteq {"workspace"}
      PROVE  /\ ret = 1 => out = Substituted(call.arguments[1], call.arguments[2], call.arguments[3])
             /\ ret = 0 => out = call.arguments[1]
             /\ ret \notin {-10, -11, -6} => (ret = 0 <=> ~ Has(call.arguments[1], call.arguments[2]))
             /\ call.spills # {} => ret = -13
  <2>1. PICK line \in Texts, search \in Texts, replacement \in Texts : ReplacedFrom(line, search, replacement)
    BY <1>1, Zenon DEF ParserInv, ReplacedCall
  <2>2. /\ call.arguments[1] = line /\ call.arguments[2] = search
        /\ call.arguments[3] = replacement
    BY <2>1 DEF ReplacedFrom
  <2>3. /\ ret = replaceAll(line, search, replacement).ret
        /\ out = replaceAll(line, search, replacement).out
        /\ call.spills # {} => /\ Len(line) <= Workspace /\ Len(search) <= TagSize
                               /\ OutgrowsWorkspace(line, search, replacement)
    BY <1>1, <2>1 DEF ReplacedFrom
  <2>4. ASSUME NEW r, r = replaceAll(line, search, replacement)
        PROVE  /\ r.ret = 1 => r.out = Substituted(line, search, replacement)
               /\ r.ret = 0 => r.out = line
               /\ r.ret \notin {-10, -11, -6} => (r.ret = 0 <=> ~ Has(line, search))
               /\ call.spills # {} => r.ret = -13
    BY <2>3, <2>4, ReplaceAllIs
  <2>5. QED
    BY <2>2, <2>3, <2>4, Zenon
<1>2. ParserInv => ReplacedIsReported
  BY <1>1 DEF ReplacedIsReported
<1>3. QED
  BY <1>2, ParserAlways, PTL

(* lineParser_mergeTag undoes lineParser_splitTag with the tag "::".        *)
THEOREM MergeUndoesSplit == Spec => []SplitMergesBack
<1>1. ASSUME ParserInv, call # Idle, call.op = "split", ret = 1,
             NEW mark \in Texts, Len(mark) = 2,
             \A pieces : Merge(pieces) = Joined(pieces, mark),
             call.arguments[2] = mark, ~ g_greedy,
             ~ IsSuffix(mark \o mark, call.arguments[1]),
             mergeTag(char_array).ret = 1
      PROVE  mergeTag(char_array).out = call.arguments[1]
  <2>1. PICK line \in Texts, tag \in Texts :
          /\ call.arguments = <<line, tag>>
          /\ char_array = Split(line, tag, g_greedy)
    BY <1>1 DEF ParserInv, SplitCall
  <2>2. call.arguments[1] = line /\ call.arguments[2] = tag
    BY <2>1
  <2>3. g_greedy = FALSE /\ char_array \in Seq(Texts)
    BY <1>1 DEF ParserInv, ResultInWorkspace, Texts
  <2>4. tag = mark
    BY <1>1, <2>2
  <2>5. mergeTag(char_array).out = Merge(char_array)
    BY <1>1, <2>3, MergeFits
  <2>6. char_array = Split(line, mark, FALSE)
    BY <2>1, <2>3, <2>4
  <2>7. Joined(Split(line, mark, FALSE), mark) = line
    BY <1>1, <2>2, JoinsBack, Zenon
  <2>8. QED
    BY <1>1, <2>2, <2>5, <2>6, <2>7, Zenon
<1>2. ASSUME NEW c
      PROVE  Len(<<c, c>>) = 2
  OBVIOUS
<1>3. <<":", ":">> \in Texts /\ Len(<<":", ":">>) = 2
  BY <1>2, MarkIsText, Zenon
<1>4. \A pieces : Merge(pieces) = Joined(pieces, <<":", ":">>)
  BY MergeJoins, Zenon
<1>5. ParserInv => SplitMergesBack
  BY <1>1, <1>3, <1>4, Zenon DEF SplitMergesBack
<1>6. QED
  BY <1>5, ParserAlways, PTL

-----------------------------------------------------------------------------
(* Readers.                                                                *)
LEMMA Characters ==
  /\ Newline \in STRING /\ Return \in STRING /\ Newline # Return
  /\ <<Newline>> \in Texts /\ <<Return>> \in Texts /\ <<Newline>> # <<>> /\ <<Return>> # <<>>
<1>1. Newline # Return
  BY Zenon DEF Newline, Return
<1>2. QED
  BY <1>1, NamedEnds, OneCharacter

-----------------------------------------------------------------------------
-----------------------------------------------------------------------------
(* Lines and their ends.                                                    *)
Clear(x) == strstr(x, <<Newline>>) = 0

LEMMA LineIs ==
  ASSUME NEW x \in Texts, NEW k, k = strstr(x, <<Newline>>)
  PROVE  /\ k \in 0..Len(x)
         /\ k > 0 => /\ Before(x, k) \in Texts /\ Len(Before(x, k)) = k - 1 /\ Clear(Before(x, k))
                     /\ From(x, k + 1) \in Texts /\ Len(From(x, k + 1)) = Len(x) - k
                     /\ x = Before(x, k) \o (<<Newline>> \o From(x, k + 1))
<1>1. FirstPlace(k, x, Newline)
  BY Characters, MarkIs
<1>2. k \in 0..Len(x) /\ Len(x) \in Nat
  BY <1>1 DEF FirstPlace, Texts
<1>3. ASSUME k > 0
      PROVE  /\ Before(x, k) \in Texts /\ Len(Before(x, k)) = k - 1 /\ Clear(Before(x, k))
             /\ From(x, k + 1) \in Texts /\ Len(From(x, k + 1)) = Len(x) - k
             /\ x = Before(x, k) \o (<<Newline>> \o From(x, k + 1))
  <2>1. Len(<<Newline>>) = 1
    OBVIOUS
  <2>2. /\ Before(x, k) \in Texts /\ Len(Before(x, k)) = k - 1
        /\ From(x, k + 1) \in Texts /\ Len(From(x, k + 1)) = Len(x) - (k - 1) - 1
        /\ x = Before(x, k) \o (<<Newline>> \o From(x, k + 1))
    <3>1. ASSUME NEW n, n = <<Newline>>
          PROVE  /\ Before(x, k) \in Texts /\ Len(Before(x, k)) = k - 1
                 /\ From(x, k + 1) \in Texts /\ Len(From(x, k + 1)) = Len(x) - (k - 1) - 1
                 /\ x = Before(x, k) \o (n \o From(x, k + 1))
      <4>1. n \in Texts /\ n # <<>> /\ Len(n) = 1 /\ strstr(x, n) = k
        BY <2>1, <3>1, Characters
      <4>2. /\ Before(x, k) \in Texts /\ Len(Before(x, k)) = k - 1
            /\ From(x, k + Len(n)) \in Texts /\ Len(From(x, k + Len(n))) = Len(x) - (k - 1) - Len(n)
            /\ x = Before(x, k) \o (n \o From(x, k + Len(n)))
        BY <1>3, <4>1, LineIsParts, ZenonT(40)
      <4>3. QED
        BY <4>1, <4>2
    <3>2. QED
      BY <3>1
  <2>3. \A i \in 1..k - 1 : Before(x, k)[i] = x[i]
    <3>1. k \in Nat /\ k <= Len(x) + 1
      BY <1>2
    <3>2. QED
      BY <3>1, BeforeIs
  <2>4. FirstPlace(0, Before(x, k), Newline)
    <3>1. \A i \in 1..k - 1 : Before(x, k)[i] # Newline
      BY <1>1, <1>3, <2>3 DEF FirstPlace
    <3>2. 0 \in 0..k - 1 /\ ~ (0 > 0)
      BY <1>2, <1>3
    <3>3. QED
      BY <2>2, <3>1, <3>2 DEF FirstPlace
  <2>5. Clear(Before(x, k))
    BY <2>2, <2>4, Characters, MarkAt DEF Clear
  <2>6. Len(x) - (k - 1) - 1 = Len(x) - k
    BY <1>2
  <2>7. QED
    BY <2>2, <2>5, <2>6
<1>4. QED
  BY <1>2, <1>3

(* The line of a text that is a line, a newline, and more.                  *)
LEMMA LineOf ==
  ASSUME NEW a \in Texts, NEW b \in Texts, Clear(a), NEW x, x = a \o (<<Newline>> \o b)
  PROVE  /\ x \in Texts
         /\ strstr(x, <<Newline>>) = Len(a) + 1
         /\ Before(x, Len(a) + 1) = a
         /\ From(x, (Len(a) + 1) + 1) = b
<1>1. /\ <<Newline>> \in Texts /\ Len(<<Newline>>) = 1 /\ <<Newline>>[1] = Newline
      /\ Len(a) \in Nat /\ Len(b) \in Nat
  <2>1. Len(<<Newline>>) = 1 /\ <<Newline>>[1] = Newline
    OBVIOUS
  <2>2. Len(a) \in Nat /\ Len(b) \in Nat
    BY DEF Texts
  <2>3. QED
    BY <2>1, <2>2, Characters
<1>2. ASSUME NEW y, y = <<Newline>> \o b
      PROVE  /\ y \in Texts /\ Len(y) = 1 + Len(b)
             /\ strstr(y, <<Newline>>) = 1 /\ Before(y, 1) = <<>> /\ From(y, 2) = b /\ From(y, 1) = y
  <2>1. /\ y \in Texts /\ Len(y) = 1 + Len(b) /\ y[1] = Newline
    <3>1. /\ <<Newline>> \o b \in Texts /\ Len(<<Newline>> \o b) = Len(<<Newline>>) + Len(b)
          /\ \A i \in 1..Len(<<Newline>>) : (<<Newline>> \o b)[i] = <<Newline>>[i]
      BY <1>1, JoinIs
    <3>2. QED
      BY <1>1, <1>2, <3>1
  <2>2. FirstPlace(1, y, Newline)
    BY <1>1, <2>1 DEF FirstPlace
  <2>3. strstr(y, <<Newline>>) = 1
    BY <2>1, <2>2, Characters, MarkAt
  <2>4. Before(y, 1) = <<>> /\ From(y, 1) = y
    <3>1. ASSUME NEW n, n = 0
          PROVE  Before(y, n + 1) = <<>> /\ From(y, n + 1) = y
      <4>1. n \in Nat /\ n <= Len(y)
        BY <1>1, <2>1, <3>1
      <4>2. QED
        BY <2>1, <3>1, <4>1, TextCutIs
    <3>2. QED
      BY <3>1
  <2>5. From(y, 2) = b
    <3>1. From(<<Newline>> \o b, 1 + 1) = From(b, 1)
      <4>1. 1 \in 1..Len(b) + 1
        BY <1>1
      <4>2. QED
        BY <1>1, <4>1, JoinParts
    <3>2. From(b, 0 + 1) = b
      BY <1>1, TextCutIs
    <3>3. QED
      BY <1>2, <3>1, <3>2
  <2>6. QED
    BY <2>1, <2>3, <2>4, <2>5
<1>3. ASSUME NEW y, y = <<Newline>> \o b
      PROVE  /\ x \in Texts
             /\ strstr(x, <<Newline>>) = Len(a) + 1
             /\ Before(x, Len(a) + 1) = a
             /\ From(x, (Len(a) + 1) + 1) = b
  <2>1. /\ y \in Texts /\ Len(y) = 1 + Len(b)
        /\ strstr(y, <<Newline>>) = 1 /\ Before(y, 1) = <<>> /\ From(y, 2) = b
    BY <1>2, <1>3
  <2>2. x = a \o y
    BY <1>3
  <2>3. x \in Texts
    BY <2>1, <2>2, TextsJoin
  <2>4. strstr(x, <<Newline>>) = Len(a) + 1
    <3>1. strstr(a, <<Newline>>) = 0
      BY Zenon DEF Clear
    <3>2. strstr(y, <<Newline>>) > 0
      BY <2>1
    <3>3. strstr(a \o y, <<Newline>>) = Len(a) + strstr(y, <<Newline>>)
      <4>1. y \in Texts /\ Newline \in STRING
        BY <2>1, Characters
      <4>2. QED
        BY <3>1, <3>2, <4>1, MarkJoin
    <3>4. QED
      BY <2>1, <2>2, <3>3
  <2>5. 1 \in 1..Len(y) + 1 /\ 2 \in 1..Len(y) + 1
    BY <1>1, <2>1
  <2>6. Before(x, Len(a) + 1) = a \o <<>> /\ From(x, Len(a) + 2) = b
    <3>1. \A j \in 1..Len(y) + 1 : /\ Before(a \o y, Len(a) + j) = a \o Before(y, j)
                                   /\ From(a \o y, Len(a) + j) = From(y, j)
      BY <2>1, JoinParts
    <3>2. QED
      BY <2>1, <2>2, <2>5, <3>1
  <2>7. (Len(a) + 1) + 1 = Len(a) + 2 /\ a \o <<>> = a
    BY <1>1, NoText0
  <2>8. QED
    BY <2>3, <2>4, <2>6, <2>7
<1>4. QED
  BY <1>3

LEMMA PlainIs ==
  ASSUME NEW x \in Texts
  PROVE  /\ Plain(x) \in Texts /\ IsPrefix(Plain(x), x) /\ Len(Plain(x)) <= Len(x)
         /\ LastIs(x, Return) => x = Plain(x) \o <<Return>> /\ Len(Plain(x)) = Len(x) - 1
         /\ ~ LastIs(x, Return) => Plain(x) = x
<1>1. Len(x) \in Nat
  BY DEF Texts
<1>2. CASE LastIs(x, Return)
  <2>1. x # <<>> /\ x[Len(x)] = Return /\ Plain(x) = SubSeq(x, 1, Len(x) - 1)
    BY <1>2 DEF LastIs, Plain, Last, Front
  <2>2. Len(x) > 0
    BY <1>1, <2>1, NoText0
  <2>3. ASSUME NEW n, n = Len(x) - 1
        PROVE  /\ SubSeq(x, 1, n) \in Texts /\ Len(SubSeq(x, 1, n)) = n
               /\ x = SubSeq(x, 1, n) \o <<Return>>
    <3>1. n \in Nat /\ n <= Len(x) /\ n + 1 = Len(x)
      BY <1>1, <2>2, <2>3
    <3>2. /\ SubSeq(x, 1, n) \in Texts /\ From(x, n + 1) \in Texts
          /\ Len(SubSeq(x, 1, n)) = n /\ Len(From(x, n + 1)) = Len(x) - n
          /\ x = SubSeq(x, 1, n) \o From(x, n + 1)
      BY <3>1, TextCutIs
    <3>3. From(x, n + 1) = <<Return>>
      <4>1. /\ \A k \in 1..Len(x) - (n + 1) + 1 : From(x, n + 1)[k] = x[(n + 1) + k - 1]
        <5>1. n + 1 \in Nat /\ n + 1 > 0 /\ n + 1 <= Len(x) + 1
          BY <1>1, <3>1
        <5>2. QED
          BY <5>1, PartsAt
      <4>2. 1 \in 1..Len(x) - (n + 1) + 1 /\ (n + 1) + 1 - 1 = Len(x) /\ Len(x) - n = 1
        BY <1>1, <3>1
      <4>3. From(x, n + 1)[1] = Return /\ Len(From(x, n + 1)) = 1
        BY <2>1, <3>2, <4>1, <4>2
      <4>4. ASSUME NEW y \in Texts, Len(y) = 1
            PROVE  y = <<y[1]>>
        BY <4>4 DEF Texts
      <4>5. QED
        BY <3>2, <4>3, <4>4
    <3>4. QED
      BY <3>2, <3>3
  <2>4. x = Plain(x) \o <<Return>> /\ Len(Plain(x)) = Len(x) - 1 /\ Plain(x) \in Texts
    BY <2>1, <2>3
  <2>5. IsPrefix(Plain(x), x)
    <3>1. ASSUME NEW p, p = Plain(x)
          PROVE  IsPrefix(p, p \o <<Return>>)
      BY <2>4, <3>1, Characters, PrefixJoins
    <3>2. QED
      BY <2>4, <3>1
  <2>6. QED
    BY <1>1, <1>2, <2>4, <2>5
<1>3. CASE ~ LastIs(x, Return)
  <2>1. Plain(x) = x
    BY <1>3 DEF Plain
  <2>2. QED
    BY <1>1, <1>3, <2>1, PrefixJoins
<1>4. QED
  BY <1>2, <1>3

LEMMA PlainJoins ==
  ASSUME NEW a \in Texts, NEW b \in Texts, b # <<>>
  PROVE  /\ LastIs(a \o b, Return) <=> LastIs(b, Return)
         /\ Plain(a \o b) = a \o Plain(b)
<1>1. SUFFICES ASSUME NEW x, x = a \o b
               PROVE  (LastIs(x, Return) <=> LastIs(b, Return)) /\ Plain(x) = a \o Plain(b)
  OBVIOUS
<1>2. /\ x \in Texts /\ Len(x) = Len(a) + Len(b) /\ Len(a) \in Nat /\ Len(b) \in Nat
      /\ \A i \in 1..Len(b) : x[Len(a) + i] = b[i]
  BY <1>1, JoinIs
<1>3. Len(b) > 0
  BY <1>2, NoText0
<1>4. x[Len(x)] = b[Len(b)] /\ x # <<>>
  <2>1. Len(b) \in 1..Len(b) /\ Len(x) # 0
    BY <1>2, <1>3
  <2>2. QED
    BY <1>2, <2>1, NoText0
<1>5. LastIs(x, Return) <=> LastIs(b, Return)
  BY <1>4 DEF LastIs, Last
<1>6. CASE LastIs(b, Return)
  <2>1. b = Plain(b) \o <<Return>> /\ Plain(b) \in Texts
    BY <1>6, PlainIs
  <2>2. x = Plain(x) \o <<Return>> /\ Plain(x) \in Texts /\ Len(Plain(x)) = Len(x) - 1
    BY <1>2, <1>5, <1>6, PlainIs
  <2>3. x = (a \o Plain(b)) \o <<Return>>
    <3>1. (a \o Plain(b)) \o <<Return>> = a \o (Plain(b) \o <<Return>>)
      BY <2>1, Characters, TextsAssociate
    <3>2. QED
      BY <1>1, <2>1, <3>1
  <2>4. a \o Plain(b) \in Texts /\ IsPrefix(a \o Plain(b), x) /\ Len(a \o Plain(b)) = Len(x) - 1
    <3>1. a \o Plain(b) \in Texts /\ Len(a \o Plain(b)) = Len(a) + Len(Plain(b))
      BY <2>1, TextsJoin
    <3>2. Len(Plain(b)) = Len(b) - 1
      BY <1>6, PlainIs
    <3>3. IsPrefix(a \o Plain(b), x)
      BY <2>3, <3>1, Characters, PrefixJoins
    <3>4. QED
      BY <1>2, <3>1, <3>2, <3>3
  <2>5. Plain(x) = a \o Plain(b)
    <3>1. IsPrefix(Plain(x), x)
      BY <1>2, PlainIs
    <3>2. Plain(x) = SubSeq(x, 1, Len(Plain(x))) /\ a \o Plain(b) = SubSeq(x, 1, Len(a \o Plain(b)))
      BY <1>2, <2>2, <2>4, <3>1, PrefixJoins
    <3>3. QED
      BY <2>2, <2>4, <3>2
  <2>6. QED
    BY <1>5, <2>5
<1>7. CASE ~ LastIs(b, Return)
  BY <1>1, <1>5, <1>7 DEF Plain
<1>8. QED
  BY <1>6, <1>7

-----------------------------------------------------------------------------
(* The reader's buffer.                                                     *)
AReader(left, eof, buf, off, save) ==
  [left |-> left, eof |-> eof, buf |-> buf, off |-> off, save |-> save]

LEMMA Nothing == <<>> \in Texts /\ Len(<<>>) = 0
BY DEF Texts

LEMMA OneReturn ==
  /\ <<Return>> \in Texts /\ Len(<<Return>>) = 1 /\ <<Return>>[1] = Return /\ <<Return>> # <<>>
  /\ LastIs(<<Return>>, Return)
<1>1. Len(<<Return>>) = 1 /\ <<Return>>[1] = Return /\ <<Return>> # <<>>
  OBVIOUS
<1>2. LastIs(<<Return>>, Return)
  BY <1>1 DEF LastIs, Last
<1>3. QED
  BY <1>1, <1>2, Characters

LEMMA ReaderHas ==
  ASSUME NEW r \in Readers
  PROVE  /\ r.left \in Texts /\ r.eof \in BOOLEAN /\ r.buf \in Texts /\ r.off \in Nat /\ r.save \in Texts
         /\ Len(r.buf) < B /\ Len(r.save) <= 1
         /\ Len(r.left) \in Nat /\ Len(r.buf) \in Nat /\ Len(r.save) \in Nat
         /\ r = AReader(r.left, r.eof, r.buf, r.off, r.save)
BY DEF Readers, Texts, AReader

LEMMA ReaderMade ==
  ASSUME NEW left \in Texts, NEW eof \in BOOLEAN, NEW buf \in Texts, NEW off \in Nat, NEW save \in Texts,
         Len(buf) < B, Len(save) <= 1, NEW r, r = AReader(left, eof, buf, off, save)
  PROVE  /\ r \in Readers
         /\ r.left = left /\ r.eof = eof /\ r.buf = buf /\ r.off = off /\ r.save = save
         /\ Rest(r) = From(buf, off + 1)
BY DEF Readers, Texts, AReader, Rest

MadeOf(r, left, eof, buf, off, save) ==
  /\ r \in Readers
  /\ r.left = left /\ r.eof = eof /\ r.buf = buf /\ r.off = off /\ r.save = save
  /\ Rest(r) = From(buf, off + 1)

LEMMA ReaderAt ==
  \A left \in Texts, eof \in BOOLEAN, buf \in Texts, off \in Nat, save \in Texts :
    Len(buf) < B /\ Len(save) <= 1 =>
      \A r : r = AReader(left, eof, buf, off, save) => MadeOf(r, left, eof, buf, off, save)
BY ReaderMade DEF MadeOf

LEMMA ReaderChanged ==
  ASSUME NEW f \in Readers, NEW buf \in Texts, NEW off \in Nat, NEW save \in Texts,
         Len(buf) < B, Len(save) <= 1, NEW g, g = AReader(f.left, f.eof, buf, off, save)
  PROVE  /\ g \in Readers
         /\ g.left = f.left /\ g.eof = f.eof /\ g.buf = buf /\ g.off = off /\ g.save = save
<1>1. f.left \in Texts /\ f.eof \in BOOLEAN
  BY ReaderHas
<1>2. ASSUME NEW left \in Texts, NEW eof \in BOOLEAN, g = AReader(left, eof, buf, off, save)
      PROVE  /\ g \in Readers
             /\ g.left = left /\ g.eof = eof /\ g.buf = buf /\ g.off = off /\ g.save = save
  BY <1>2, ReaderMade
<1>3. QED
  BY <1>1, <1>2, Zenon

LEMMA RestIs ==
  ASSUME NEW r \in Readers
  PROVE  /\ Rest(r) \in Texts /\ Len(Rest(r)) \in Nat
         /\ Len(Rest(r)) = IF r.off < Len(r.buf) THEN Len(r.buf) - r.off ELSE 0
         /\ r.off >= Len(r.buf) => Rest(r) = <<>>
<1>1. r.buf \in Texts /\ r.off \in Nat /\ Len(r.buf) \in Nat
  BY ReaderHas
<1>2. r.off + 1 \in Nat /\ r.off + 1 > 0
  BY <1>1
<1>3. /\ From(r.buf, r.off + 1) \in Texts
      /\ Len(From(r.buf, r.off + 1)) = IF r.off + 1 <= Len(r.buf) THEN Len(r.buf) - (r.off + 1) + 1 ELSE 0
  BY <1>1, <1>2, FromIs
<1>4. Rest(r) \in Texts /\ Len(Rest(r)) = IF r.off < Len(r.buf) THEN Len(r.buf) - r.off ELSE 0
  BY <1>1, <1>3 DEF Rest
<1>5. r.off >= Len(r.buf) => Rest(r) = <<>>
  BY <1>1, <1>4, NoText0
<1>6. QED
  BY <1>1, <1>4, <1>5

Kept(r) == IF r.save = <<>> THEN r ELSE [r EXCEPT !.buf = r.save, !.off = 0, !.save = <<>>]

Emptied(r) == IF r.off >= Len(r.buf) THEN [r EXCEPT !.buf = <<>>, !.off = 0] ELSE r

Filled(r) ==
  LET room == B - Len(r.buf) - 1
      got == Least(room, Len(r.left))
  IN  [r EXCEPT !.buf = @ \o SubSeq(r.left, 1, got),
                !.left = From(@, got + 1),
                !.eof = @ \/ got < room]

LEMMA RefillSteps ==
  ASSUME NEW r
  PROVE  Refill(r) = Filled(Emptied(Kept(r)))
BY Zenon DEF Refill, Filled, Emptied, Kept

LEMMA KeptIs ==
  ASSUME NEW r \in Readers, NEW k, k = Kept(r)
  PROVE  /\ k \in Readers /\ k.save = <<>> /\ k.left = r.left /\ k.eof = r.eof
         /\ r.save = <<>> => Rest(k) = Rest(r)
         /\ r.save # <<>> => Rest(k) = r.save /\ k.buf = r.save /\ k.off = 0
<1>1. CASE r.save = <<>>
  BY <1>1 DEF Kept
<1>2. CASE r.save # <<>>
  <2>1. k = AReader(r.left, r.eof, r.save, 0, <<>>)
    <3>1. r = AReader(r.left, r.eof, r.buf, r.off, r.save)
      BY ReaderHas
    <3>2. k = [r EXCEPT !.buf = r.save, !.off = 0, !.save = <<>>]
      BY <1>2 DEF Kept
    <3>3. ASSUME NEW left, NEW eof, NEW buf, NEW off, NEW save, r = AReader(left, eof, buf, off, save)
          PROVE  k = AReader(left, eof, r.save, 0, <<>>)
      BY <3>2, <3>3 DEF AReader
    <3>4. QED
      BY <3>1, <3>3, Zenon
  <2>2. /\ k \in Readers
        /\ k.left = r.left /\ k.eof = r.eof /\ k.buf = r.save /\ k.off = 0 /\ k.save = <<>>
        /\ Rest(k) = From(r.save, 0 + 1)
    <3>1. Len(r.save) < B /\ Len(<<>>) <= 1 /\ <<>> \in Texts /\ 0 \in Nat
      BY ReaderHas, ReaderAssumption, Nothing
    <3>2. r.left \in Texts /\ r.eof \in BOOLEAN /\ r.save \in Texts
      BY ReaderHas
    <3>3. QED
      BY <2>1, <3>1, <3>2, ReaderMade
  <2>3. From(r.save, 0 + 1) = r.save
    <3>1. ASSUME NEW n \in Nat, n = 0
          PROVE  From(r.save, n + 1) = r.save
      BY <3>1, TextCutIs, ReaderHas
    <3>2. QED
      BY <3>1
  <2>4. QED
    BY <1>2, <2>2, <2>3
<1>3. QED
  BY <1>1, <1>2

LEMMA EmptiedIs ==
  ASSUME NEW r \in Readers, NEW e, e = Emptied(r)
  PROVE  /\ e \in Readers /\ e.save = r.save /\ e.left = r.left /\ e.eof = r.eof
         /\ Rest(e) = Rest(r)
         /\ (e.buf = <<>> /\ e.off = 0) \/ e.off < Len(e.buf)
<1>1. CASE r.off >= Len(r.buf)
  <2>1. e = AReader(r.left, r.eof, <<>>, 0, r.save)
    <3>1. r = AReader(r.left, r.eof, r.buf, r.off, r.save)
      BY ReaderHas
    <3>2. e = [r EXCEPT !.buf = <<>>, !.off = 0]
      BY <1>1 DEF Emptied
    <3>3. ASSUME NEW left, NEW eof, NEW buf, NEW off, NEW save, r = AReader(left, eof, buf, off, save)
          PROVE  e = AReader(left, eof, <<>>, 0, save)
      BY <3>2, <3>3 DEF AReader
    <3>4. QED
      BY <3>1, <3>3, Zenon
  <2>2. /\ e \in Readers
        /\ e.left = r.left /\ e.eof = r.eof /\ e.buf = <<>> /\ e.off = 0 /\ e.save = r.save
        /\ Rest(e) = From(<<>>, 0 + 1)
    <3>1. Len(<<>>) < B /\ <<>> \in Texts /\ 0 \in Nat
      BY ReaderAssumption, Nothing
    <3>2. r.left \in Texts /\ r.eof \in BOOLEAN /\ r.save \in Texts /\ Len(r.save) <= 1
      BY ReaderHas
    <3>3. MadeOf(e, r.left, r.eof, <<>>, 0, r.save)
      BY <2>1, <3>1, <3>2, ReaderAt, Zenon
    <3>4. QED
      BY <3>3, Zenon DEF MadeOf
  <2>3. From(<<>>, 0 + 1) = <<>>
    <3>1. ASSUME NEW n \in Nat, n = 0
          PROVE  From(<<>>, n + 1) = <<>>
      <4>1. n <= Len(<<>>) /\ <<>> \in Texts
        BY <3>1, Nothing
      <4>2. QED
        BY <3>1, <4>1, TextCutIs
    <3>2. QED
      BY <3>1
  <2>4. Rest(r) = <<>>
    BY <1>1, RestIs
  <2>5. QED
    BY <2>2, <2>3, <2>4
<1>2. CASE ~ (r.off >= Len(r.buf))
  <2>1. e = r
    BY <1>2 DEF Emptied
  <2>2. r.off < Len(r.buf)
    BY <1>2, ReaderHas
  <2>3. QED
    BY <2>1, <2>2
<1>3. QED
  BY <1>1, <1>2

LEMMA FilledIs ==
  ASSUME NEW r \in Readers, (r.buf = <<>> /\ r.off = 0) \/ r.off < Len(r.buf), r.save = <<>>,
         NEW f, f = Filled(r)
  PROVE  /\ f \in Readers /\ f.save = <<>>
         /\ (f.buf = <<>> /\ f.off = 0) \/ f.off < Len(f.buf)
         /\ Rest(f) \o f.left = Rest(r) \o r.left
         /\ Len(f.left) + Len(Rest(f)) = Len(r.left) + Len(Rest(r))
         /\ Len(Rest(f)) >= Len(Rest(r))
         /\ f.buf = <<>> => f.left = <<>>
         /\ (r.eof => r.left = <<>>) => (f.eof => f.left = <<>>)
         /\ ~ f.eof => Len(f.buf) = B - 1
         /\ f.off = r.off
<1>1. /\ r.left \in Texts /\ r.eof \in BOOLEAN /\ r.buf \in Texts /\ r.off \in Nat
      /\ Len(r.buf) < B /\ Len(r.left) \in Nat /\ Len(r.buf) \in Nat /\ r.off <= Len(r.buf)
      /\ B \in Nat /\ B > 2
  <2>1. r.off <= Len(r.buf)
    BY ReaderHas, NoText0
  <2>2. QED
    BY <2>1, ReaderHas, ReaderAssumption
<1>2. SUFFICES ASSUME NEW room, room = B - Len(r.buf) - 1, NEW got, got = Least(room, Len(r.left)),
                      NEW piece, piece = SubSeq(r.left, 1, got), NEW left, left = From(r.left, got + 1),
                      NEW eof, eof = (r.eof \/ got < room)
               PROVE  /\ f \in Readers /\ f.save = <<>>
                      /\ (f.buf = <<>> /\ f.off = 0) \/ f.off < Len(f.buf)
                      /\ Rest(f) \o f.left = Rest(r) \o r.left
                      /\ Len(f.left) + Len(Rest(f)) = Len(r.left) + Len(Rest(r))
                      /\ Len(Rest(f)) >= Len(Rest(r))
                      /\ f.buf = <<>> => f.left = <<>>
                      /\ (r.eof => r.left = <<>>) => (f.eof => f.left = <<>>)
                      /\ ~ f.eof => Len(f.buf) = B - 1
                      /\ f.off = r.off
  BY Zenon
<1>3. /\ room \in Nat /\ got \in Nat /\ got <= room /\ got <= Len(r.left)
      /\ got < room => got = Len(r.left)
  <2>1. room = B - Len(r.buf) - 1 /\ Len(r.buf) \in Nat /\ B \in Nat /\ Len(r.buf) < B
    BY <1>1, <1>2
  <2>2. room \in Nat /\ Len(r.left) \in Nat
    BY <1>1, <2>1
  <2>3. got = IF room < Len(r.left) THEN room ELSE Len(r.left)
    BY <1>2, Zenon DEF Least
  <2>4. QED
    BY <2>2, <2>3
<1>4. /\ piece \in Texts /\ left \in Texts /\ Len(piece) = got /\ Len(left) = Len(r.left) - got
      /\ r.left = piece \o left
      /\ got = Len(r.left) => left = <<>>
  BY <1>1, <1>2, <1>3, TextCutIs
<1>5. eof \in BOOLEAN
  BY <1>1, <1>2
<1>6. r.buf \o piece \in Texts /\ Len(r.buf \o piece) = Len(r.buf) + got
  BY <1>1, <1>4, TextsJoin
<1>7. f = AReader(left, eof, r.buf \o piece, r.off, <<>>)
  <2>1. r = AReader(r.left, r.eof, r.buf, r.off, <<>>)
    BY ReaderHas
  <2>2. f = [r EXCEPT !.buf = r.buf \o piece, !.left = left, !.eof = eof]
    BY <1>2 DEF Filled
  <2>3. ASSUME NEW l, NEW x, NEW b, NEW o, r = AReader(l, x, b, o, <<>>)
        PROVE  f = AReader(left, eof, r.buf \o piece, o, <<>>)
    BY <2>2, <2>3 DEF AReader
  <2>4. QED
    BY <2>1, <2>3, Zenon
<1>8. /\ f \in Readers
      /\ f.left = left /\ f.eof = eof /\ f.buf = r.buf \o piece /\ f.off = r.off /\ f.save = <<>>
      /\ Rest(f) = From(r.buf \o piece, r.off + 1)
  <2>1. Len(r.buf \o piece) < B /\ Len(<<>>) <= 1 /\ <<>> \in Texts
    <3>1. room = B - Len(r.buf) - 1
      BY <1>2
    <3>2. Len(r.buf \o piece) < B
      <4>1. \A a, b, c, d \in Nat : b = d - a - 1 /\ c <= b => a + c < d
        OBVIOUS
      <4>2. Len(r.buf) + got < B
        BY <1>1, <1>3, <3>1, <4>1, Zenon
      <4>3. QED
        BY <1>6, <4>2
    <3>3. QED
      BY <3>2, Nothing
  <2>2. ASSUME NEW buf \in Texts, Len(buf) < B, f = AReader(left, eof, buf, r.off, <<>>)
        PROVE  /\ f \in Readers
               /\ f.left = left /\ f.eof = eof /\ f.buf = buf /\ f.off = r.off /\ f.save = <<>>
               /\ Rest(f) = From(buf, r.off + 1)
    <3>1. left \in Texts /\ r.off \in Nat
      BY <1>1, <1>4
    <3>2. Len(<<>>) <= 1 /\ <<>> \in Texts
      BY Nothing
    <3>3. QED
      BY <1>5, <2>2, <3>1, <3>2, ReaderMade, SMTT(30)
  <2>3. QED
    BY <1>6, <1>7, <2>1, <2>2, Zenon
<1>9. Rest(f) = Rest(r) \o piece
  <2>1. r.off + 1 \in 1..Len(r.buf) + 1
    BY <1>1
  <2>2. From(r.buf \o piece, r.off + 1) = From(r.buf, r.off + 1) \o piece
    BY <1>1, <1>4, <2>1, JoinParts
  <2>3. QED
    BY <1>8, <2>2 DEF Rest
<1>10. /\ Rest(r) \in Texts /\ Len(Rest(r)) \in Nat /\ Len(Rest(f)) = Len(Rest(r)) + got
       /\ Rest(f) \o f.left = Rest(r) \o r.left
  <2>1. Rest(r) \in Texts /\ Len(Rest(r)) \in Nat
    BY RestIs
  <2>2. Len(Rest(r) \o piece) = Len(Rest(r)) + Len(piece)
    BY <1>4, <2>1, TextsJoin
  <2>3. (Rest(r) \o piece) \o left = Rest(r) \o (piece \o left)
    BY <1>4, <2>1, TextsAssociate
  <2>4. QED
    BY <1>4, <1>8, <1>9, <2>1, <2>2, <2>3
<1>11. Len(f.left) + Len(Rest(f)) = Len(r.left) + Len(Rest(r)) /\ Len(Rest(f)) >= Len(Rest(r))
  BY <1>1, <1>3, <1>4, <1>8, <1>10
<1>12. (f.buf = <<>> /\ f.off = 0) \/ f.off < Len(f.buf)
  <2>1. CASE r.off < Len(r.buf)
    BY <1>1, <1>3, <1>6, <1>8, <2>1
  <2>2. CASE r.buf = <<>> /\ r.off = 0
    <3>1. Len(f.buf) \in Nat /\ f.off = 0 /\ f.buf \in Texts
      BY <1>1, <1>3, <1>6, <1>8, <2>2
    <3>2. QED
      BY <3>1, NoText0
  <2>3. QED
    BY <2>1, <2>2
<1>13. f.buf = <<>> => f.left = <<>>
  <2>1. ASSUME f.buf = <<>>
        PROVE  f.left = <<>>
    <3>1. Len(f.buf) = 0
      BY <2>1, NoText0
    <3>2. got < room
      BY <1>1, <1>2, <1>3, <1>6, <1>8, <3>1
    <3>3. QED
      BY <1>3, <1>4, <1>8, <3>2
  <2>2. QED
    BY <2>1
<1>14. (r.eof => r.left = <<>>) => (f.eof => f.left = <<>>)
  <2>1. CASE got < room
    BY <1>3, <1>4, <1>8, <2>1
  <2>2. CASE r.eof /\ r.left = <<>>
    <3>1. Len(r.left) = 0
      BY <2>2, NoText0
    <3>2. QED
      BY <1>3, <1>4, <1>8, <3>1
  <2>3. QED
    BY <1>2, <1>8, <2>1, <2>2
<1>15. ~ f.eof => Len(f.buf) = B - 1
  <2>1. room = B - Len(r.buf) - 1
    BY <1>2
  <2>2. ~ f.eof => ~ (got < room)
    BY <1>2, <1>8
  <2>3. Len(f.buf) = Len(r.buf) + got
    BY <1>6, <1>8
  <2>4. got \in Nat /\ room \in Nat /\ got <= room /\ Len(r.buf) \in Nat /\ B \in Nat
    BY <1>1, <1>3
  <2>5. ~ f.eof => got = room
    BY <2>2, <2>4
  <2>6. Len(r.buf) + room = B - 1
    BY <2>1, <2>4
  <2>7. QED
    BY <2>3, <2>5, <2>6
<1>16. QED
  BY <1>8, <1>10, <1>11, <1>12, <1>13, <1>14, <1>15

(* What has not been delivered yet; and the states a reader is in between   *)
(* two calls, none of which had to leave a part of a line behind.           *)
Unread(r) == r.save \o (Rest(r) \o r.left)

SoundReader(r) ==
  /\ r \in Readers
  /\ r.save = <<>> \/ (r.save = <<Return>> /\ r.off >= Len(r.buf))
  /\ r.eof => r.left = <<>>

Amount(r) == Len(r.left) + (IF r.save = <<>> THEN Len(Rest(r)) ELSE Len(r.save))

LEMMA RefillIs ==
  ASSUME NEW r \in Readers, NEW f, f = Refill(r)
  PROVE  /\ f \in Readers /\ f.save = <<>>
         /\ (f.buf = <<>> /\ f.off = 0) \/ f.off < Len(f.buf)
         /\ Amount(r) \in Nat /\ Len(f.left) + Len(Rest(f)) = Amount(r)
         /\ (r.save # <<>> /\ ~ f.eof) => Len(Rest(f)) >= 2
         /\ f.buf = <<>> => f.left = <<>>
<1> DEFINE k == Kept(r)
           e == Emptied(k)
<1>1. /\ k \in Readers /\ k.save = <<>> /\ k.left = r.left
      /\ r.save = <<>> => Rest(k) = Rest(r)
      /\ r.save # <<>> => Rest(k) = r.save /\ k.buf = r.save /\ k.off = 0
  BY KeptIs
<1> HIDE DEF k
<1>2. /\ e \in Readers /\ e.save = <<>> /\ e.left = r.left
      /\ Rest(e) = Rest(k)
      /\ (e.buf = <<>> /\ e.off = 0) \/ e.off < Len(e.buf)
  BY <1>1, EmptiedIs
<1>3. r.save # <<>> => e.off = 0
  <2>1. ASSUME r.save # <<>>
        PROVE  e.off = 0
    <3>1. k.off = 0 /\ k.buf # <<>> /\ k.buf \in Texts
      BY <1>1, <2>1, ReaderHas
    <3>2. ~ (k.off >= Len(k.buf))
      BY <3>1, NoText0
    <3>3. e = k
      BY <3>2 DEF Emptied
    <3>4. QED
      BY <3>1, <3>3
  <2>2. QED
    BY <2>1
<1> HIDE DEF e
<1>4. f = Filled(e)
  BY RefillSteps DEF e, k
<1>5. /\ f \in Readers /\ f.save = <<>>
      /\ (f.buf = <<>> /\ f.off = 0) \/ f.off < Len(f.buf)
      /\ Len(f.left) + Len(Rest(f)) = Len(e.left) + Len(Rest(e))
      /\ f.buf = <<>> => f.left = <<>>
      /\ ~ f.eof => Len(f.buf) = B - 1
      /\ f.off = e.off
  BY <1>2, <1>4, FilledIs
<1>6. Amount(r) \in Nat
  <2>1. Len(r.left) \in Nat /\ Len(r.save) \in Nat /\ Len(Rest(r)) \in Nat
    BY ReaderHas, RestIs
  <2>2. CASE r.save = <<>>
    <3>1. Amount(r) = Len(r.left) + Len(Rest(r))
      BY <2>2, Zenon DEF Amount
    <3>2. QED
      BY <2>1, <3>1
  <2>3. CASE r.save # <<>>
    <3>1. Amount(r) = Len(r.left) + Len(r.save)
      BY <2>3, Zenon DEF Amount
    <3>2. \A a, b \in Nat : a + b \in Nat
      OBVIOUS
    <3>3. QED
      BY <2>1, <3>1, <3>2, Zenon
  <2>4. QED
    BY <2>2, <2>3
<1>7. Len(f.left) + Len(Rest(f)) = Amount(r)
  BY <1>1, <1>2, <1>5 DEF Amount
<1>8. (r.save # <<>> /\ ~ f.eof) => Len(Rest(f)) >= 2
  <2>1. ASSUME r.save # <<>>, ~ f.eof
        PROVE  Len(Rest(f)) >= 2
    <3>1. f.off = 0 /\ Len(f.buf) = B - 1
      BY <1>3, <1>5, <2>1
    <3>2. Len(Rest(f)) = IF f.off < Len(f.buf) THEN Len(f.buf) - f.off ELSE 0
      BY <1>5, RestIs
    <3>3. QED
      BY <3>1, <3>2, ReaderAssumption
  <2>2. QED
    BY <2>1
<1>9. QED
  BY <1>5, <1>6, <1>7, <1>8

LEMMA RefillReads ==
  ASSUME NEW r, SoundReader(r), NEW f, f = Refill(r)
  PROVE  /\ Unread(r) \in Texts /\ Rest(f) \o f.left = Unread(r)
         /\ f.eof => f.left = <<>>
         /\ r.save # <<>> => LastIs(r.save, Return) /\ IsPrefix(<<Return>>, Rest(f))
         /\ f.buf = <<>> => Unread(r) = <<>> /\ r.save = <<>>
<1> DEFINE k == Kept(r)
           e == Emptied(k)
<1>0. /\ r \in Readers
      /\ r.save = <<>> \/ (r.save = <<Return>> /\ r.off >= Len(r.buf))
      /\ r.eof => r.left = <<>>
  BY DEF SoundReader
<1>1. /\ k \in Readers /\ k.save = <<>> /\ k.left = r.left /\ k.eof = r.eof
      /\ r.save = <<>> => Rest(k) = Rest(r)
      /\ r.save # <<>> => Rest(k) = r.save
  BY <1>0, KeptIs
<1> HIDE DEF k
<1>2. /\ e \in Readers /\ e.save = <<>> /\ e.left = r.left /\ e.eof = r.eof
      /\ Rest(e) = Rest(k)
      /\ (e.buf = <<>> /\ e.off = 0) \/ e.off < Len(e.buf)
  BY <1>1, EmptiedIs
<1> HIDE DEF e
<1>3. f = Filled(e)
  BY RefillSteps DEF e, k
<1>4. /\ f \in Readers
      /\ Rest(f) \o f.left = Rest(e) \o e.left
      /\ f.buf = <<>> => f.left = <<>>
      /\ Len(Rest(f)) >= Len(Rest(e))
      /\ (e.eof => e.left = <<>>) => (f.eof => f.left = <<>>)
  BY <1>2, <1>3, FilledIs
<1>5. /\ Rest(r) \in Texts /\ r.left \in Texts /\ r.save \in Texts /\ Rest(f) \in Texts /\ f.left \in Texts
      /\ Rest(r) \o r.left \in Texts
  <2>1. Rest(r) \in Texts /\ r.left \in Texts /\ r.save \in Texts /\ Rest(f) \in Texts /\ f.left \in Texts
    BY <1>0, <1>4, ReaderHas, RestIs
  <2>2. QED
    BY <2>1, TextsJoin
<1>6. Unread(r) \in Texts
  BY <1>5, TextsJoin DEF Unread
<1>7. Rest(f) \o f.left = Unread(r)
  <2>1. CASE r.save = <<>>
    <3>1. Unread(r) = Rest(r) \o r.left
      BY <1>5, <2>1, NoText0 DEF Unread
    <3>2. QED
      BY <1>1, <1>2, <1>4, <2>1, <3>1
  <2>2. CASE r.save # <<>>
    <3>1. Rest(r) = <<>>
      BY <1>0, <2>2, RestIs
    <3>2. Unread(r) = r.save \o r.left
      BY <1>5, <3>1, NoText0 DEF Unread
    <3>3. QED
      BY <1>1, <1>2, <1>4, <2>2, <3>2
  <2>3. QED
    BY <2>1, <2>2
<1>8. ASSUME r.save # <<>>
      PROVE  LastIs(r.save, Return) /\ IsPrefix(<<Return>>, Rest(f)) /\ Rest(f) # <<>>
  <2>1. r.save = <<Return>>
    BY <1>0, <1>8
  <2>2. LastIs(r.save, Return)
    BY <2>1, OneReturn
  <2>3. Rest(e) = <<Return>>
    BY <1>1, <1>2, <1>8, <2>1
  <2>4. Rest(f) \o f.left = <<Return>> \o e.left /\ Len(Rest(f)) >= 1
    BY <1>4, <2>3, OneReturn
  <2>5. Rest(f)[1] = Return
    <3>1. 1 \in 1..Len(Rest(f)) /\ 1 \in 1..Len(<<Return>>)
      <4>1. Len(Rest(f)) \in Nat
        BY <1>4, RestIs
      <4>2. QED
        BY <2>4, <4>1, OneReturn
    <3>2. (Rest(f) \o f.left)[1] = Rest(f)[1]
      BY <1>5, <3>1, JoinIs
    <3>3. e.left \in Texts
      BY <1>2, ReaderHas
    <3>4. (<<Return>> \o e.left)[1] = <<Return>>[1]
      BY <3>1, <3>3, OneReturn, JoinIs
    <3>5. QED
      BY <2>4, <3>2, <3>4, OneReturn
  <2>6. IsPrefix(<<Return>>, Rest(f))
    <3>1. ASSUME NEW y \in Texts, y = <<Return>>, Len(y) = 1, y[1] = Return
          PROVE  IsPrefix(y, Rest(f))
      <4>1. Len(y) <= Len(Rest(f)) /\ \A i \in 1..Len(y) : y[i] = Rest(f)[i]
        BY <2>4, <2>5, <3>1
      <4>2. QED
        BY <1>5, <4>1, PrefixIs
    <3>2. QED
      BY <3>1, OneReturn
  <2>7. Rest(f) # <<>>
    BY <2>4, <1>5, NoText0
  <2>8. QED
    BY <2>2, <2>6, <2>7
<1>9. ASSUME f.buf = <<>>
      PROVE  Unread(r) = <<>> /\ r.save = <<>>
  <2>1. Rest(f) = <<>>
    <3>1. f.off >= Len(f.buf)
      BY <1>4, <1>9, ReaderHas, Nothing
    <3>2. QED
      BY <1>4, <3>1, RestIs
  <2>2. f.left = <<>>
    BY <1>4, <1>9
  <2>3. <<>> \o <<>> = <<>>
    BY Nothing, NoText0
  <2>4. Unread(r) = <<>>
    BY <1>7, <2>1, <2>2, <2>3
  <2>5. QED
    BY <1>8, <2>1, <2>4
<1>10. f.eof => f.left = <<>>
  BY <1>0, <1>2, <1>4
<1>11. QED
  BY <1>6, <1>7, <1>8, <1>9, <1>10

LEMMA DeliversHas ==
  ASSUME NEW r, NEW t, NEW c, NEW m, m = Delivers(r, t, c)
  PROVE  m.reader = r /\ m.text = t /\ m.ret = c
BY DEF Delivers

(* A piece that is passed on, all of it or what fits.                       *)
PassedPart(f, t, x, fits, m) ==
  /\ x \in Texts /\ x # <<>> /\ Plain(x) \in Texts
  /\ m.text = t \o SubSeq(Plain(x), 1, fits)
  /\ fits < Len(Plain(x)) => m.ret = CONTINUE_READING
  /\ ~ (fits < Len(Plain(x))) =>
       /\ m.ret = 1 /\ fits = Len(Plain(x)) /\ m.text = t \o Plain(x)
       /\ m.reader \in Readers /\ Rest(m.reader) = <<>>
       /\ m.reader.off >= Len(m.reader.buf)
       /\ m.reader.left = f.left /\ m.reader.eof = f.eof
       /\ m.reader.save = IF LastIs(x, Return) THEN <<Return>> ELSE <<>>

LEMMA PassOnIs ==
  ASSUME NEW f \in Readers, f.save = <<>>, f.off < Len(f.buf),
         NEW t \in Texts, NEW cap \in Nat, NEW m, m = PassOn(f, t, cap),
         NEW x, x = Rest(f), NEW fits, fits = Fitting(cap, t, Len(Plain(x)))
  PROVE  PassedPart(f, t, x, fits, m)
<1>1. /\ f.left \in Texts /\ f.eof \in BOOLEAN /\ f.buf \in Texts /\ f.off \in Nat
      /\ Len(f.buf) < B /\ Len(f.buf) \in Nat
  BY ReaderHas
<1>2. x \in Texts /\ Len(x) = Len(f.buf) - f.off /\ Len(x) \in Nat /\ Len(x) > 0
  BY <1>1, RestIs
<1>3. x # <<>> /\ Plain(x) \in Texts /\ Len(Plain(x)) \in Nat
  <2>1. Plain(x) \in Texts
    BY <1>2, PlainIs
  <2>2. QED
    BY <1>2, <2>1, NoText0
<1> DEFINE keep == LastIs(x, Return)
           buf == IF keep THEN Front(f.buf) ELSE f.buf
           save == IF keep THEN <<Return>> ELSE <<>>
<1>4. m = Delivers([f EXCEPT !.buf = buf, !.save = save, !.off = @ + fits],
                   t \o SubSeq(Plain(x), 1, fits),
                   IF fits < Len(Plain(x)) THEN CONTINUE_READING ELSE 1)
  BY Zenon DEF PassOn, Plain
<1>5. buf \in Texts /\ Len(buf) \in Nat /\ Len(buf) < B /\ Len(buf) = f.off + Len(Plain(x))
  <2>1. CASE keep
    <3>1. Len(Plain(x)) = Len(x) - 1
      BY <1>2, <2>1, PlainIs
    <3>2. buf = SubSeq(f.buf, 1, Len(f.buf) - 1)
      BY <2>1 DEF Front
    <3> HIDE DEF buf
    <3>3. ASSUME NEW n, n = Len(f.buf) - 1
          PROVE  buf \in Texts /\ Len(buf) = n
      <4>1. n \in Nat /\ n <= Len(f.buf)
        <5>1. f.off \in Nat /\ Len(f.buf) \in Nat
          BY <1>1
        <5>2. QED
          BY <3>3, <5>1
      <4>2. buf = SubSeq(f.buf, 1, n)
        BY <3>2, <3>3
      <4>3. QED
        BY <1>1, <4>1, <4>2, FirstPart
    <3>4. buf \in Texts /\ Len(buf) = Len(f.buf) - 1
      BY <3>3
    <3>5. f.off \in Nat /\ Len(f.buf) \in Nat /\ Len(f.buf) < B /\ B \in Nat
      BY <1>1, ReaderAssumption
    <3>6. Len(x) = Len(f.buf) - f.off
      BY <1>2
    <3>7. Len(buf) \in Nat /\ Len(buf) < B
      BY <3>4, <3>5
    <3>8. QED
      BY <3>1, <3>4, <3>5, <3>6, <3>7, SMTT(30)
  <2>2. CASE ~ keep
    <3>1. Plain(x) = x /\ buf = f.buf
      BY <1>2, <2>2, PlainIs
    <3> HIDE DEF buf
    <3>2. QED
      BY <1>1, <1>2, <3>1
  <2>3. QED
    BY <2>1, <2>2
<1>6. save \in Texts /\ Len(save) <= 1
  BY OneReturn, Nothing
<1> HIDE DEF buf, save
<1>7. /\ m.text = t \o SubSeq(Plain(x), 1, fits)
      /\ m.ret = IF fits < Len(Plain(x)) THEN CONTINUE_READING ELSE 1
      /\ m.reader = [f EXCEPT !.buf = buf, !.save = save, !.off = @ + fits]
  <2> DEFINE upd == [f EXCEPT !.buf = buf, !.save = save, !.off = @ + fits]
             code == IF fits < Len(Plain(x)) THEN CONTINUE_READING ELSE 1
             told == t \o SubSeq(Plain(x), 1, fits)
  <2>1. m = Delivers(upd, told, code)
    BY <1>4
  <2> HIDE DEF upd, code, told
  <2>2. m.reader = upd /\ m.text = told /\ m.ret = code
    BY <2>1, DeliversHas
  <2>3. QED
    BY <2>2 DEF upd, code, told
<1>8. ASSUME ~ (fits < Len(Plain(x)))
      PROVE  fits = Len(Plain(x))
  <2>1. CASE cap > 0 /\ Len(Plain(x)) + Len(t) >= cap
    <3>1. fits = cap - Len(t) - 1
      BY <2>1 DEF Fitting
    <3>2. Len(t) \in Nat
      BY NoText0
    <3>3. fits < Len(Plain(x))
      BY <1>3, <2>1, <3>1, <3>2
    <3>4. QED
      BY <1>8, <3>3
  <2>2. CASE ~ (cap > 0 /\ Len(Plain(x)) + Len(t) >= cap)
    BY <2>2 DEF Fitting
  <2>3. QED
    BY <2>1, <2>2
<1>9. ASSUME fits = Len(Plain(x))
      PROVE  /\ m.reader \in Readers /\ Rest(m.reader) = <<>>
             /\ m.reader.off >= Len(m.reader.buf)
             /\ m.reader.left = f.left /\ m.reader.eof = f.eof
             /\ m.reader.save = save
  <2>1. m.reader = AReader(f.left, f.eof, buf, f.off + fits, save)
    <3>1. f = AReader(f.left, f.eof, f.buf, f.off, f.save)
      BY ReaderHas
    <3>2. ASSUME NEW left, NEW eof, NEW b, NEW off, NEW s, f = AReader(left, eof, b, off, s)
          PROVE  m.reader = AReader(left, eof, buf, off + fits, save)
      BY <1>7, <3>2 DEF AReader
    <3>3. QED
      BY <3>1, <3>2
  <2>2. f.off + fits \in Nat /\ f.off + fits >= Len(buf)
    BY <1>1, <1>3, <1>5, <1>9
  <2>3. ASSUME NEW off \in Nat, m.reader = AReader(f.left, f.eof, buf, off, save)
        PROVE  /\ m.reader \in Readers
               /\ m.reader.left = f.left /\ m.reader.eof = f.eof /\ m.reader.buf = buf
               /\ m.reader.off = off /\ m.reader.save = save
    <3>1. f.left \in Texts /\ f.eof \in BOOLEAN
      BY <1>1
    <3>2. buf \in Texts /\ Len(buf) < B
      BY <1>5
    <3>3. save \in Texts /\ Len(save) <= 1
      BY <1>6
    <3>4. MadeOf(m.reader, f.left, f.eof, buf, off, save)
      BY <2>3, <3>1, <3>2, <3>3, ReaderAt, Zenon
    <3>5. QED
      BY <3>4, Zenon DEF MadeOf
  <2>4. /\ m.reader \in Readers
        /\ m.reader.left = f.left /\ m.reader.eof = f.eof /\ m.reader.buf = buf
        /\ m.reader.off = f.off + fits /\ m.reader.save = save
    BY <2>1, <2>2, <2>3, Zenon
  <2>5. Rest(m.reader) = <<>>
    BY <2>2, <2>4, RestIs
  <2>6. QED
    BY <2>2, <2>4, <2>5
<1>10. SubSeq(Plain(x), 1, Len(Plain(x))) = Plain(x)
  BY <1>3, TextCutIs
<1>11. ASSUME ~ (fits < Len(Plain(x)))
       PROVE  /\ m.ret = 1 /\ fits = Len(Plain(x)) /\ m.text = t \o Plain(x)
              /\ m.reader \in Readers /\ Rest(m.reader) = <<>>
              /\ m.reader.off >= Len(m.reader.buf)
              /\ m.reader.left = f.left /\ m.reader.eof = f.eof
              /\ m.reader.save = IF LastIs(x, Return) THEN <<Return>> ELSE <<>>
  BY <1>7, <1>8, <1>9, <1>10, <1>11, Zenon DEF save
<1>12. fits < Len(Plain(x)) => m.ret = CONTINUE_READING
  BY <1>7
<1>13. QED
  BY <1>2, <1>3, <1>7, <1>11, <1>12, Zenon DEF PassedPart

(* One round of the loop.                                                   *)
Calls == [reader : Readers, text : Texts]

PullOn(c, cap) ==
  /\ Refill(c.reader).buf # <<>>
  /\ ~ Has(Rest(Refill(c.reader)), <<Newline>>)
  /\ ~ Refill(c.reader).eof
  /\ ~ (PassOn(Refill(c.reader), c.text, cap).ret < 0)

NextCall(c, cap) ==
  LET more == PassOn(Refill(c.reader), c.text, cap)
  IN  IF PullOn(c, cap) THEN [reader |-> more.reader, text |-> more.text] ELSE c

LastCall(c, cap) ==
  LET f == Refill(c.reader)
  IN  IF f.buf = <<>> THEN Delivers(f, c.text, -13)
      ELSE IF Has(Rest(f), <<Newline>>) THEN EndLine(f, c.text, cap)
      ELSE IF f.eof THEN EndFile(f, c.text, cap)
      ELSE PassOn(f, c.text, cap)

Effort(c) == 2 * Amount(c.reader) + (IF c.reader.save = <<>> THEN 1 ELSE 0)

LEMMA NextCallIs ==
  ASSUME NEW c \in Calls, NEW cap \in Nat
  PROVE  /\ Effort(c) \in Nat
         /\ NextCall(c, cap) \in Calls
         /\ PullOn(c, cap) => Effort(NextCall(c, cap)) < Effort(c)
<1>1. c.reader \in Readers /\ c.text \in Texts
  BY DEF Calls
<1> DEFINE f == Refill(c.reader)
           m == PassOn(f, c.text, cap)
           x == Rest(f)
           d == NextCall(c, cap)
<1>2. /\ f \in Readers /\ f.save = <<>>
      /\ (f.buf = <<>> /\ f.off = 0) \/ f.off < Len(f.buf)
      /\ Amount(c.reader) \in Nat /\ Len(f.left) + Len(Rest(f)) = Amount(c.reader)
      /\ (c.reader.save # <<>> /\ ~ f.eof) => Len(Rest(f)) >= 2
  BY <1>1, RefillIs
<1>3. /\ c.reader.save = <<>> => Effort(c) = 2 * Amount(c.reader) + 1
      /\ c.reader.save # <<>> => Effort(c) = 2 * Amount(c.reader)
  BY <1>2 DEF Effort
<1>4. Effort(c) \in Nat
  BY <1>2, <1>3
<1>5. CASE ~ PullOn(c, cap)
  <2>1. d = c
    BY <1>5 DEF NextCall
  <2>2. QED
    BY <1>4, <1>5, <2>1
<1>6. CASE PullOn(c, cap)
  <2>1. f.buf # <<>> /\ ~ f.eof /\ ~ (m.ret < 0) /\ f.off < Len(f.buf)
    BY <1>2, <1>6 DEF PullOn
  <2>2. d = [reader |-> m.reader, text |-> m.text]
    BY <1>6 DEF NextCall
  <2> HIDE DEF f, d, m, x
  <2>3. m = PassOn(f, c.text, cap) /\ x = Rest(f)
    BY DEF m, x
  <2>4. /\ x \in Texts /\ x # <<>> /\ Plain(x) \in Texts
        /\ m.text = c.text \o Plain(x)
        /\ m.reader \in Readers /\ Rest(m.reader) = <<>>
        /\ m.reader.left = f.left
        /\ m.reader.save = IF LastIs(x, Return) THEN <<Return>> ELSE <<>>
    <3>1. ASSUME NEW fits, fits = Fitting(cap, c.text, Len(Plain(x)))
          PROVE  /\ x \in Texts /\ x # <<>> /\ Plain(x) \in Texts
                 /\ fits < Len(Plain(x)) => m.ret = CONTINUE_READING
                 /\ ~ (fits < Len(Plain(x))) =>
                      /\ m.text = c.text \o Plain(x)
                      /\ m.reader \in Readers /\ Rest(m.reader) = <<>>
                      /\ m.reader.left = f.left
                      /\ m.reader.save = IF LastIs(x, Return) THEN <<Return>> ELSE <<>>
      <4>1. f \in Readers /\ f.save = <<>> /\ f.off < Len(f.buf) /\ c.text \in Texts
        BY <1>1, <1>2, <2>1
      <4>2. QED
        <5>1. PassedPart(f, c.text, x, fits, m)
          BY <2>3, <3>1, <4>1, PassOnIs
        <5>2. QED
          BY <5>1, Zenon DEF PassedPart
    <3>2. m.ret # CONTINUE_READING
      BY <2>1 DEF CONTINUE_READING
    <3>3. QED
      BY <3>1, <3>2, Zenon
  <2>5. d \in Calls /\ d.reader = m.reader
    <3>1. m.text \in Texts
      BY <1>1, <2>4, TextsJoin
    <3>2. QED
      BY <2>2, <2>4, <3>1 DEF Calls
  <2>6. Len(x) \in Nat /\ Len(x) > 0 /\ Len(f.left) \in Nat /\ Len(f.left) + Len(x) = Amount(c.reader)
    <3>1. Len(x) \in Nat /\ Len(x) # 0
      BY <2>4, NoText0
    <3>2. Len(f.left) \in Nat
      BY <1>2, ReaderHas
    <3>3. QED
      BY <1>2, <3>1, <3>2 DEF x
  <2>7. CASE LastIs(x, Return)
    <3>1. d.reader.save = <<Return>> /\ d.reader.left = f.left
      BY <2>4, <2>5, <2>7
    <3>2. Amount(d.reader) = Len(f.left) + 1
      BY <3>1, OneReturn DEF Amount
    <3>3. Effort(d) = 2 * Amount(d.reader)
      <4>1. Amount(d.reader) \in Nat
        BY <2>6, <3>2
      <4>2. d.reader.save # <<>>
        BY <3>1, OneReturn
      <4>3. QED
        BY <4>1, <4>2 DEF Effort
    <3>4. c.reader.save # <<>> => Len(x) >= 2
      BY <1>2, <2>1 DEF x
    <3>5. Effort(d) < Effort(c)
      BY <1>2, <1>3, <2>6, <3>2, <3>3, <3>4, SMTT(30)
    <3>6. QED
      BY <1>4, <2>5, <3>5 DEF d
  <2>8. CASE ~ LastIs(x, Return)
    <3>1. d.reader.save = <<>> /\ d.reader.left = f.left /\ Rest(d.reader) = <<>>
      BY <2>4, <2>5, <2>8
    <3>2. Amount(d.reader) = Len(f.left)
      <4>1. Amount(d.reader) = Len(f.left) + Len(<<>>)
        BY <3>1, Zenon DEF Amount
      <4>2. QED
        BY <2>6, <4>1, Nothing
    <3>3. Effort(d) = 2 * Amount(d.reader) + 1
      BY <3>1, Zenon DEF Effort
    <3>4. c.reader.save # <<>> => Len(x) >= 2
      BY <1>2, <2>1 DEF x
    <3>5. Effort(d) < Effort(c)
      BY <1>2, <1>3, <2>6, <3>2, <3>3, <3>4, SMTT(30)
    <3>6. QED
      BY <1>4, <2>5, <3>5 DEF d
  <2>9. QED
    BY <2>7, <2>8
<1>7. QED
  BY <1>5, <1>6

(* The loop of GetLine is a function: of its rounds, and of the call.       *)
Pulling(g, cap) ==
  /\ \A c \in Calls : g[c] = IF PullOn(c, cap) THEN g[NextCall(c, cap)] ELSE LastCall(c, cap)
  /\ \A r \in Readers : TextFileReader_GetLine(r, cap) = g[[reader |-> r, text |-> <<>>]]

LEMMA PullingExists ==
  ASSUME NEW cap \in Nat
  PROVE  \E g : Pulling(g, cap)
<1> DEFINE Outcomes == {LastCall(c, cap) : c \in Calls}
           effort == [c \in Calls |-> Effort(c)]
           next == [c \in Calls |-> NextCall(c, cap)]
           made == [c \in Calls |-> [o \in Outcomes |-> IF PullOn(c, cap) THEN o ELSE LastCall(c, cap)]]
           Body(h) == [c \in Calls |->
             LET f == Refill(c.reader)
                 more == PassOn(f, c.text, cap)
             IN  IF f.buf = <<>> THEN Delivers(f, c.text, -13)
                 ELSE IF Has(Rest(f), <<Newline>>) THEN EndLine(f, c.text, cap)
                 ELSE IF f.eof THEN EndFile(f, c.text, cap)
                 ELSE IF more.ret < 0 THEN more
                 ELSE h[[reader |-> more.reader, text |-> more.text]]]
           g == CHOOSE h : h = Body(h)
<1>1. effort \in [Calls -> Nat] /\ next \in [Calls -> Calls]
  <2>1. \A c \in Calls : Effort(c) \in Nat /\ NextCall(c, cap) \in Calls
    BY NextCallIs
  <2>2. QED
    BY <2>1
<1>2. made \in [Calls -> [Outcomes -> Outcomes]]
  <2>1. \A c \in Calls : LastCall(c, cap) \in Outcomes
    OBVIOUS
  <2> HIDE DEF Outcomes
  <2>2. QED
    BY <2>1
<1>3. ASSUME NEW c \in Calls
      PROVE  Stops(c, Calls, Outcomes, effort, next, made)
  <2>1. CASE PullOn(c, cap)
    <3>1. effort[next[c]] < effort[c]
      <4>1. NextCall(c, cap) \in Calls /\ Effort(NextCall(c, cap)) < Effort(c)
        BY <2>1, NextCallIs
      <4>2. QED
        BY <4>1
    <3> HIDE DEF effort, next, made, Outcomes
    <3>2. QED
      BY <3>1 DEF Stops
  <2>2. CASE ~ PullOn(c, cap)
    <3> HIDE DEF Outcomes
    <3>1. \A r, s \in Outcomes : made[c][r] = made[c][s]
      BY <2>2
    <3> HIDE DEF effort, next, made
    <3>2. QED
      BY <3>1 DEF Stops
  <2>3. QED
    BY <2>1, <2>2
<1>4. ASSUME NEW r \in Readers
      PROVE  [reader |-> r, text |-> <<>>] \in Calls
  BY Nothing DEF Calls
<1>5. PICK h : Recurs(h, Calls, Outcomes, next, made)
  <2>1. \E r0 : r0 \in Outcomes
    <3>1. ASSUME NEW e \in Texts, Len(e) = 0, NEW n \in Nat, NEW eof \in BOOLEAN
          PROVE  AReader(e, eof, e, n, e) \in Readers
      BY <3>1, ReaderAssumption, ReaderMade
    <3>2. \E r : r \in Readers
      BY <3>1, Nothing
    <3>3. QED
      BY <1>4, <3>2
  <2> HIDE DEF effort, next, made, Outcomes
  <2>2. QED
    BY <1>1, <1>2, <1>3, <2>1, TailRecursion
<1>6. ASSUME NEW c \in Calls
      PROVE  h[c] = IF PullOn(c, cap) THEN h[NextCall(c, cap)] ELSE LastCall(c, cap)
  <2> HIDE DEF Outcomes
  <2>1. h \in [Calls -> Outcomes] /\ h[c] = made[c][h[next[c]]]
    BY <1>5 DEF Recurs
  <2>2. next[c] = NextCall(c, cap) /\ h[NextCall(c, cap)] \in Outcomes
    BY <2>1, NextCallIs
  <2>3. \A o \in Outcomes : made[c][o] = IF PullOn(c, cap) THEN o ELSE LastCall(c, cap)
    OBVIOUS
  <2> HIDE DEF made, next
  <2>4. QED
    BY <2>1, <2>2, <2>3
<1>7. ASSUME NEW v, NEW c \in Calls
      PROVE  Body(v)[c] = IF PullOn(c, cap) THEN v[NextCall(c, cap)] ELSE LastCall(c, cap)
  <2> DEFINE f == Refill(c.reader)
             more == PassOn(f, c.text, cap)
  <2>1. Body(v)[c] = IF f.buf = <<>> THEN Delivers(f, c.text, -13)
                     ELSE IF Has(Rest(f), <<Newline>>) THEN EndLine(f, c.text, cap)
                     ELSE IF f.eof THEN EndFile(f, c.text, cap)
                     ELSE IF more.ret < 0 THEN more
                     ELSE v[[reader |-> more.reader, text |-> more.text]]
    OBVIOUS
  <2>2. PullOn(c, cap) <=> (f.buf # <<>> /\ ~ Has(Rest(f), <<Newline>>) /\ ~ f.eof /\ ~ (more.ret < 0))
    BY Zenon DEF PullOn
  <2>3. PullOn(c, cap) => NextCall(c, cap) = [reader |-> more.reader, text |-> more.text]
    BY Zenon DEF NextCall
  <2>4. LastCall(c, cap) = IF f.buf = <<>> THEN Delivers(f, c.text, -13)
                            ELSE IF Has(Rest(f), <<Newline>>) THEN EndLine(f, c.text, cap)
                            ELSE IF f.eof THEN EndFile(f, c.text, cap)
                            ELSE more
    BY Zenon DEF LastCall
  <2> HIDE DEF f, more, Body
  <2>5. QED
    BY <2>1, <2>2, <2>3, <2>4, Zenon
<1>8. h = Body(h)
  <2>1. \A c \in Calls : Body(h)[c] = h[c]
    BY <1>6, <1>7
  <2>2. h \in [Calls -> Outcomes]
    BY <1>5 DEF Recurs
  <2>3. Body(h) = [c \in Calls |-> Body(h)[c]]
    OBVIOUS
  <2>4. h = [c \in Calls |-> h[c]]
    BY <2>2
  <2> HIDE DEF Body
  <2>5. QED
    BY <2>1, <2>3, <2>4
<1>9. g = Body(g)
  <2> HIDE DEF Body
  <2>1. QED
    BY <1>8
<1>10. ASSUME NEW c \in Calls
       PROVE  g[c] = IF PullOn(c, cap) THEN g[NextCall(c, cap)] ELSE LastCall(c, cap)
  <2> HIDE DEF g, Body
  <2>1. QED
    BY <1>7, <1>9
<1>11. ASSUME NEW r \in Readers
       PROVE  TextFileReader_GetLine(r, cap) = g[[reader |-> r, text |-> <<>>]]
  BY DEF TextFileReader_GetLine, Calls, Texts
<1> HIDE DEF g
<1>12. Pulling(g, cap)
  BY <1>10, <1>11 DEF Pulling
<1>13. QED
  BY <1>12

-----------------------------------------------------------------------------
(* Lines, return characters and beginnings of both.                         *)
LEMMA ShorterPlain ==
  ASSUME NEW p \in Texts, NEW x \in Texts, IsPrefix(p, x), Len(p) < Len(x)
  PROVE  IsPrefix(p, Plain(x))
<1>1. /\ Plain(x) \in Texts /\ IsPrefix(Plain(x), x)
      /\ Len(Plain(x)) = Len(x) \/ Len(Plain(x)) = Len(x) - 1
  BY PlainIs
<1>2. Len(p) \in Nat /\ Len(x) \in Nat /\ Len(Plain(x)) \in Nat
  BY <1>1, NoText0
<1>3. Len(p) <= Len(Plain(x))
  BY <1>1, <1>2
<1>4. /\ \A i \in 1..Len(p) : p[i] = x[i]
      /\ \A i \in 1..Len(Plain(x)) : Plain(x)[i] = x[i]
  BY <1>1, PrefixIs
<1>5. \A i \in 1..Len(p) : i \in 1..Len(Plain(x))
  BY <1>2, <1>3
<1>6. \A i \in 1..Len(p) : p[i] = Plain(x)[i]
  BY <1>4, <1>5
<1>7. QED
  BY <1>1, <1>3, <1>6, PrefixIs

LEMMA PlainPart ==
  ASSUME NEW x \in Texts, NEW n \in Nat, n < Len(x)
  PROVE  /\ SubSeq(x, 1, n) \in Texts /\ Len(SubSeq(x, 1, n)) = n
         /\ IsPrefix(SubSeq(x, 1, n), x)
         /\ IsPrefix(SubSeq(x, 1, n), Plain(x))
         /\ IsPrefix(Plain(SubSeq(x, 1, n)), Plain(x))
         /\ Len(Plain(SubSeq(x, 1, n))) <= n /\ Plain(SubSeq(x, 1, n)) \in Texts
<1> DEFINE p == SubSeq(x, 1, n)
<1>1. Len(x) \in Nat /\ n <= Len(x)
  <2>1. Len(x) \in Nat
    BY NoText0
  <2>2. QED
    BY <2>1
<1>2. p \in Texts /\ Len(p) = n /\ \A k \in 1..n : p[k] = x[k]
  BY <1>1, FirstPart
<1> HIDE DEF p
<1>3. IsPrefix(p, x)
  BY <1>1, <1>2, PrefixIs
<1>4. /\ Plain(p) \in Texts /\ IsPrefix(Plain(p), p) /\ Len(Plain(p)) <= Len(p)
  BY <1>2, PlainIs
<1>5. IsPrefix(Plain(p), x)
  BY <1>2, <1>3, <1>4, PrefixAfter
<1>6. Len(Plain(p)) < Len(x) /\ Len(p) < Len(x)
  <2>1. Len(Plain(p)) \in Nat
    BY <1>4, NoText0
  <2>2. QED
    BY <1>1, <1>2, <1>4, <2>1
<1>7. IsPrefix(Plain(p), Plain(x)) /\ IsPrefix(p, Plain(x))
  BY <1>2, <1>3, <1>4, <1>5, <1>6, ShorterPlain
<1>8. QED
  BY <1>2, <1>3, <1>4, <1>7 DEF p

LEMMA ReturnAt ==
  ASSUME NEW x \in Texts, NEW j, j = strstr(x, <<Return>>)
  PROVE  /\ FirstPlace(j, x, Return) /\ j \in 0..Len(x) /\ j \in Nat /\ Len(x) \in Nat
         /\ Until(x, <<Return>>) = IF j > 0 THEN Before(x, j) ELSE x
         /\ j > 0 => /\ Before(x, j) \in Texts /\ Len(Before(x, j)) = j - 1
                     /\ Before(x, j) = SubSeq(x, 1, j - 1) /\ j - 1 \in Nat /\ j - 1 < Len(x)
<1>1. FirstPlace(j, x, Return)
  BY Characters, MarkIs
<1>2. Len(x) \in Nat
  BY NoText0
<1>3. j \in 0..Len(x) /\ j \in Nat
  BY <1>1, <1>2 DEF FirstPlace
<1>4. Until(x, <<Return>>) = IF j > 0 THEN Before(x, j) ELSE x
  BY DEF Until, Has
<1>5. ASSUME j > 0
      PROVE  /\ Before(x, j) \in Texts /\ Len(Before(x, j)) = j - 1
             /\ Before(x, j) = SubSeq(x, 1, j - 1) /\ j - 1 \in Nat /\ j - 1 < Len(x)
  <2>1. j - 1 \in Nat /\ j - 1 < Len(x) /\ j <= Len(x) + 1
    BY <1>2, <1>3, <1>5
  <2>2. QED
    BY <1>3, <1>5, <2>1, PartsAt DEF Before
<1>6. QED
  BY <1>1, <1>2, <1>3, <1>4, <1>5

LEMMA UntilPrefix ==
  ASSUME NEW x \in Texts
  PROVE  /\ Until(x, <<Return>>) \in Texts
         /\ IsPrefix(Until(x, <<Return>>), Plain(x)) /\ IsPrefix(Until(x, <<Return>>), x)
         /\ Len(Until(x, <<Return>>)) <= Len(x)
<1>1. SUFFICES ASSUME NEW j, j = strstr(x, <<Return>>), NEW u, u = Until(x, <<Return>>)
               PROVE  u \in Texts /\ IsPrefix(u, Plain(x)) /\ IsPrefix(u, x) /\ Len(u) <= Len(x)
  BY Zenon
<1>2. /\ FirstPlace(j, x, Return) /\ j \in 0..Len(x) /\ j \in Nat /\ Len(x) \in Nat
      /\ u = IF j > 0 THEN Before(x, j) ELSE x
      /\ j > 0 => /\ Before(x, j) \in Texts /\ Len(Before(x, j)) = j - 1
                  /\ Before(x, j) = SubSeq(x, 1, j - 1) /\ j - 1 \in Nat /\ j - 1 < Len(x)
  BY <1>1, ReturnAt
<1>3. CASE j > 0
  <2>1. ASSUME NEW n, n = j - 1
        PROVE  u \in Texts /\ IsPrefix(u, Plain(x)) /\ IsPrefix(u, x) /\ Len(u) <= Len(x)
    <3>1. n \in Nat /\ n < Len(x) /\ u = SubSeq(x, 1, n)
      BY <1>2, <1>3, <2>1
    <3>2. /\ SubSeq(x, 1, n) \in Texts /\ Len(SubSeq(x, 1, n)) = n
          /\ IsPrefix(SubSeq(x, 1, n), x) /\ IsPrefix(SubSeq(x, 1, n), Plain(x))
      BY <3>1, PlainPart
    <3>3. Len(x) \in Nat
      BY <1>2
    <3>4. Len(u) <= Len(x)
      BY <3>1, <3>2, <3>3
    <3>5. QED
      BY <3>1, <3>2, <3>4
  <2>2. QED
    BY <2>1
<1>4. CASE ~ (j > 0)
  <2>1. u = x
    BY <1>2, <1>4
  <2>2. ~ LastIs(x, Return)
    <3>1. ASSUME LastIs(x, Return)
          PROVE  FALSE
      <4>1. x # <<>> /\ x[Len(x)] = Return
        BY <3>1 DEF LastIs, Last
      <4>2. Len(x) \in 1..Len(x)
        BY <1>2, <4>1, NoText0
      <4>3. \A i \in 1..Len(x) : x[i] # Return
        BY <1>2, <1>4 DEF FirstPlace
      <4>4. QED
        BY <4>1, <4>2, <4>3
    <3>2. QED
      BY <3>1
  <2>3. Plain(x) = x
    BY <2>2, PlainIs
  <2>4. QED
    <3>1. IsPrefix(x, x) /\ Len(x) <= Len(x)
      BY <1>2, PrefixJoins
    <3>2. QED
      BY <2>1, <2>3, <3>1
<1>5. QED
  BY <1>3, <1>4

LEMMA UntilJoins ==
  ASSUME NEW t \in Texts, NEW x \in Texts
  PROVE  IsPrefix(Until(t \o x, <<Return>>), t \o Until(x, <<Return>>))
<1>1. SUFFICES ASSUME NEW w, w = t \o x, NEW u, u = Until(x, <<Return>>),
                      NEW i, i = strstr(t, <<Return>>), NEW j, j = strstr(x, <<Return>>),
                      NEW k, k = strstr(w, <<Return>>)
               PROVE  IsPrefix(Until(w, <<Return>>), t \o u)
  BY Zenon
<1>2. w \in Texts /\ u \in Texts
  BY <1>1, TextsJoin, UntilPrefix
<1>3. /\ i \in 0..Len(t) /\ i \in Nat /\ Len(t) \in Nat
      /\ i > 0 => /\ Before(t, i) \in Texts
                  /\ Before(t, i) = SubSeq(t, 1, i - 1) /\ i - 1 \in Nat /\ i - 1 < Len(t)
  BY <1>1, ReturnAt
<1>4. /\ j \in 0..Len(x) /\ j \in Nat /\ Len(x) \in Nat
      /\ u = IF j > 0 THEN Before(x, j) ELSE x
  BY <1>1, ReturnAt
<1>5. Until(w, <<Return>>) = IF k > 0 THEN Before(w, k) ELSE w
  BY <1>1, <1>2, ReturnAt
<1>6. /\ i > 0 => k = i
      /\ (i = 0 /\ j > 0) => k = Len(t) + j
      /\ (i = 0 /\ j = 0) => k = 0
  BY <1>1, Characters, MarkJoin
<1>7. CASE i > 0
  <2>1. i \in 1..Len(t) + 1
    BY <1>3, <1>7
  <2>2. Before(w, k) = Before(t, i)
    BY <1>1, <1>6, <1>7, <2>1, JoinParts
  <2>3. Until(w, <<Return>>) = Before(t, i)
    BY <1>5, <1>6, <1>7, <2>2
  <2>4. IsPrefix(Before(t, i), t)
    BY <1>3, <1>7, PlainPart
  <2>5. IsPrefix(t, t \o u) /\ t \o u \in Texts
    BY <1>2, PrefixJoins, TextsJoin
  <2>6. QED
    BY <1>3, <1>7, <2>3, <2>4, <2>5, PrefixAfter
<1>8. CASE i = 0 /\ j > 0
  <2>1. k > 0 /\ k = Len(t) + j
    BY <1>3, <1>4, <1>6, <1>8
  <2>2. j \in 1..Len(x) + 1
    BY <1>4, <1>8
  <2>3. Before(w, k) = t \o Before(x, j)
    <3>1. Before(t \o x, Len(t) + j) = t \o Before(x, j)
      BY <2>2, JoinParts
    <3>2. QED
      BY <1>1, <2>1, <3>1
  <2>4. Until(w, <<Return>>) = t \o u
    BY <1>4, <1>5, <1>8, <2>1, <2>3
  <2>5. t \o u \in Texts
    BY <1>2, TextsJoin
  <2>6. QED
    BY <2>4, <2>5, PrefixJoins
<1>9. CASE i = 0 /\ j = 0
  <2>1. u = x /\ Until(w, <<Return>>) = w
    BY <1>4, <1>5, <1>6, <1>9
  <2>2. QED
    BY <1>1, <1>2, <2>1, PrefixJoins
<1>10. QED
  BY <1>3, <1>4, <1>7, <1>8, <1>9

LEMMA ClearIs ==
  ASSUME NEW x \in Texts
  PROVE  Clear(x) <=> \A i \in 1..Len(x) : x[i] # Newline
<1>1. ASSUME NEW k, k = strstr(x, <<Newline>>)
      PROVE  k = 0 <=> \A i \in 1..Len(x) : x[i] # Newline
  <2>1. FirstPlace(k, x, Newline)
    BY <1>1, Characters, MarkIs
  <2>2. Len(x) \in Nat
    BY NoText0
  <2>3. k \in 0..Len(x) /\ (k > 0 => x[k] = Newline) /\ (k = 0 => \A i \in 1..Len(x) : x[i] # Newline)
    BY <2>1 DEF FirstPlace
  <2>4. k # 0 => k \in 1..Len(x) /\ k > 0
    BY <2>2, <2>3
  <2>5. QED
    BY <2>3, <2>4
<1>2. QED
  BY <1>1 DEF Clear

LEMMA ClearJoins ==
  ASSUME NEW s \in Texts, NEW t \in Texts
  PROVE  /\ Clear(s) /\ Clear(t) => Clear(s \o t)
         /\ IsPrefix(s, t) /\ Clear(t) => Clear(s)
<1>1. Clear(s) /\ Clear(t) => Clear(s \o t)
  BY Characters, MarkJoin DEF Clear
<1>2. ASSUME IsPrefix(s, t), Clear(t)
      PROVE  Clear(s)
  <2>1. Len(s) <= Len(t) /\ \A i \in 1..Len(s) : s[i] = t[i]
    BY <1>2, PrefixIs
  <2>2. \A i \in 1..Len(t) : t[i] # Newline
    BY <1>2, ClearIs
  <2>3. \A i \in 1..Len(s) : i \in 1..Len(t)
    <3>1. Len(s) \in Nat /\ Len(t) \in Nat
      BY NoText0
    <3>2. QED
      BY <2>1, <3>1
  <2>4. QED
    BY <2>1, <2>2, <2>3, ClearIs
<1>3. QED
  BY <1>1, <1>2

LEMMA ReaderEmptied ==
  ASSUME NEW f \in Readers, NEW e \in Texts, Len(e) = 0, NEW n \in Nat,
         NEW g, g = AReader(f.left, f.eof, e, n, e)
  PROVE  /\ g \in Readers /\ g.left = f.left /\ g.eof = f.eof /\ g.save = e
         /\ g.off >= Len(g.buf)
<1>1. Len(e) < B /\ Len(e) <= 1
  BY ReaderAssumption
<1>2. g \in Readers /\ g.left = f.left /\ g.eof = f.eof /\ g.buf = e /\ g.off = n /\ g.save = e
  BY <1>1, ReaderChanged
<1>3. QED
  BY <1>2

LEMMA EmptyReader ==
  ASSUME NEW f \in Readers, f.save = <<>>, f.eof => f.left = <<>>,
         NEW g, g = [f EXCEPT !.buf = <<>>, !.off = 0]
  PROVE  SoundReader(g) /\ g.left = f.left /\ Unread(g) = f.left
<1>1. /\ f.left \in Texts /\ f.eof \in BOOLEAN
      /\ f = AReader(f.left, f.eof, f.buf, f.off, <<>>)
  BY ReaderHas
<1>2. g = AReader(f.left, f.eof, <<>>, 0, <<>>)
  <2>1. ASSUME NEW left, NEW eof, NEW b, NEW off, f = AReader(left, eof, b, off, <<>>)
        PROVE  g = AReader(left, eof, <<>>, 0, <<>>)
    BY <2>1 DEF AReader
  <2>2. QED
    BY <1>1, <2>1, Zenon
<1>3. \A e \in Texts, n \in Nat : Len(e) = 0 /\ g = AReader(f.left, f.eof, e, n, e) =>
        /\ g \in Readers /\ g.left = f.left /\ g.eof = f.eof /\ g.save = e
        /\ g.off >= Len(g.buf)
  BY ReaderEmptied
<1>4. g \in Readers /\ g.left = f.left /\ g.eof = f.eof /\ g.save = <<>> /\ g.off >= Len(g.buf)
  BY <1>2, <1>3, Nothing
<1>5. Rest(g) = <<>>
  BY <1>4, RestIs
<1>6. Unread(g) = f.left
  <2>1. Unread(g) = <<>> \o (<<>> \o f.left)
    BY <1>4, <1>5 DEF Unread
  <2>2. <<>> \o f.left = f.left
    BY <1>1, NoText0
  <2>3. QED
    BY <2>1, <2>2
<1>7. SoundReader(g)
  BY <1>4, Zenon DEF SoundReader
<1>8. QED
  BY <1>4, <1>6, <1>7

LEMMA ConsumedIs ==
  ASSUME NEW f \in Readers, f.save = <<>>, f.eof => f.left = <<>>,
         NEW n \in Nat, n <= Len(Rest(f)), NEW g, g = Consumed(f, n)
  PROVE  SoundReader(g) /\ Unread(g) = From(Rest(f), n + 1) \o f.left
<1>1. /\ f.left \in Texts /\ f.eof \in BOOLEAN /\ f.buf \in Texts /\ f.off \in Nat
      /\ Len(f.buf) < B /\ Len(f.buf) \in Nat
      /\ f = AReader(f.left, f.eof, f.buf, f.off, <<>>)
  BY ReaderHas
<1>2. /\ Rest(f) \in Texts /\ Len(Rest(f)) \in Nat
      /\ Len(Rest(f)) = IF f.off < Len(f.buf) THEN Len(f.buf) - f.off ELSE 0
  BY RestIs
<1>3. CASE f.off + n >= Len(f.buf)
  <2>1. g = [f EXCEPT !.buf = <<>>, !.off = 0]
    BY <1>3 DEF Consumed
  <2>2. SoundReader(g) /\ Unread(g) = f.left
    BY <2>1, EmptyReader
  <2>3. n = Len(Rest(f))
    BY <1>1, <1>2, <1>3
  <2>4. From(Rest(f), n + 1) = <<>>
    BY <1>2, <2>3, TextCutIs
  <2>5. <<>> \o f.left = f.left
    BY <1>1, NoText0
  <2>6. QED
    BY <2>2, <2>4, <2>5
<1>4. CASE ~ (f.off + n >= Len(f.buf))
  <2>1. g = AReader(f.left, f.eof, f.buf, f.off + n, <<>>)
    <3>1. g = [f EXCEPT !.off = @ + n]
      BY <1>4 DEF Consumed
    <3>2. ASSUME NEW left, NEW eof, NEW b, NEW off, f = AReader(left, eof, b, off, <<>>)
          PROVE  g = AReader(left, eof, b, off + n, <<>>)
      BY <3>1, <3>2 DEF AReader
    <3>3. QED
      BY <1>1, <3>2
  <2>2. ASSUME NEW off \in Nat, NEW e \in Texts, Len(e) <= 1,
               g = AReader(f.left, f.eof, f.buf, off, e)
        PROVE  /\ g \in Readers /\ g.left = f.left /\ g.eof = f.eof /\ g.buf = f.buf
               /\ g.off = off /\ g.save = e
    <3>1. f.buf \in Texts /\ Len(f.buf) < B
      BY <1>1
    <3>2. QED
      BY <2>2, <3>1, ReaderChanged
  <2>3. f.off + n \in Nat /\ f.off + n <= Len(f.buf)
    BY <1>1, <1>4
  <2>4. /\ g \in Readers /\ g.left = f.left /\ g.eof = f.eof /\ g.buf = f.buf
        /\ g.off = f.off + n /\ g.save = <<>>
    <3>1. <<>> \in Texts /\ Len(<<>>) <= 1
      BY Nothing
    <3>2. QED
      BY <2>1, <2>2, <2>3, <3>1
  <2>5. Rest(g) = From(Rest(f), n + 1)
    <3>1. From(From(f.buf, f.off + 1), n + 1) = From(f.buf, (f.off + n) + 1)
      BY <1>1, <2>3, FromFrom
    <3>2. QED
      BY <2>4, <3>1 DEF Rest
  <2>6. Unread(g) = From(Rest(f), n + 1) \o f.left
    <3>1. From(Rest(f), n + 1) \in Texts
      BY <1>2, TextCutIs
    <3>2. From(Rest(f), n + 1) \o f.left \in Texts
      BY <1>1, <3>1, TextsJoin
    <3>3. QED
      BY <2>4, <2>5, <3>2, NoText0 DEF Unread
  <2>7. SoundReader(g)
    BY <2>4, Zenon DEF SoundReader
  <2>8. QED
    BY <2>6, <2>7
<1>5. QED
  BY <1>3, <1>4

(* What a call may deliver of what is unread, w, to a caller with so much   *)
(* room: the next line, if it is ended, and else the beginning of the last. *)
RoomFor(length, cap) == cap = 0 \/ length < cap

LineTold(w, k, cap, o) ==
  IF RoomFor(k - 1, cap)
  THEN o.ret = 1 /\ o.text = Plain(Before(w, k)) /\ SoundReader(o.reader) /\ Unread(o.reader) = From(w, k + 1)
  ELSE o.ret = CONTINUE_READING /\ IsPrefix(o.text, Plain(Before(w, k)))

EndTold(w, cap, o) ==
  /\ o.ret \in {1, -13, CONTINUE_READING}
  /\ IsPrefix(o.text, Plain(w))
  /\ RoomFor(Len(w), cap) => o.ret # CONTINUE_READING /\ IsPrefix(Until(w, <<Return>>), o.text)
  /\ o.ret # CONTINUE_READING => SoundReader(o.reader) /\ Unread(o.reader) = <<>>
  /\ w = <<>> => o.ret = -13

Told(w, cap, o) ==
  /\ o.text \in Texts /\ RoomFor(Len(o.text), cap)
  /\ strstr(w, <<Newline>>) > 0 => LineTold(w, strstr(w, <<Newline>>), cap, o)
  /\ strstr(w, <<Newline>>) = 0 => EndTold(w, cap, o)

(* A round of the loop, after the refill: t has been delivered, x is in the *)
(* buffer, and w is all of it with what is still in the file.               *)
Facing(t, cap, f, x, w) ==
  /\ t \in Texts /\ Clear(t) /\ RoomFor(Len(t), cap)
  /\ f \in Readers /\ f.save = <<>>
  /\ f.eof => f.left = <<>>
  /\ x = Rest(f)
  /\ w = t \o (x \o f.left)
  /\ LastIs(t, Return) => IsPrefix(<<Return>>, x)

Faced(t, f, x, w) ==
  /\ t \in Texts /\ x \in Texts /\ f.left \in Texts /\ w \in Texts /\ x \o f.left \in Texts
  /\ t \o x \in Texts /\ w = (t \o x) \o f.left
  /\ Len(t) \in Nat /\ Len(x) \in Nat /\ Len(w) \in Nat /\ Len(f.left) \in Nat
  /\ Len(t \o x) = Len(t) + Len(x)
  /\ Len(w) = Len(t) + Len(x) + Len(f.left)
  /\ LastIs(t, Return) => (x # <<>> /\ x[1] = Return)

LEMMA FacingIs ==
  ASSUME NEW t, NEW cap \in Nat, NEW f, NEW x, NEW w, Facing(t, cap, f, x, w)
  PROVE  Faced(t, f, x, w)
<1>1. t \in Texts /\ f \in Readers /\ x = Rest(f) /\ w = t \o (x \o f.left)
  BY DEF Facing
<1>2. x \in Texts /\ f.left \in Texts
  BY <1>1, RestIs, ReaderHas
<1>3. x \o f.left \in Texts /\ Len(x \o f.left) = Len(x) + Len(f.left)
  BY <1>2, TextsJoin
<1>4. w \in Texts /\ Len(w) = Len(t) + Len(x \o f.left)
  BY <1>1, <1>3, TextsJoin
<1>5. t \o x \in Texts /\ Len(t \o x) = Len(t) + Len(x)
  BY <1>1, <1>2, TextsJoin
<1>6. w = (t \o x) \o f.left
  BY <1>1, <1>2, TextsAssociate
<1>7. Len(t) \in Nat /\ Len(x) \in Nat /\ Len(w) \in Nat /\ Len(f.left) \in Nat
  BY <1>1, <1>2, <1>4, NoText0
<1>8. ASSUME LastIs(t, Return)
      PROVE  x # <<>> /\ x[1] = Return
  <2>1. IsPrefix(<<Return>>, x)
    BY <1>8 DEF Facing
  <2>2. ASSUME NEW y \in Texts, Len(y) = 1, y[1] = Return, IsPrefix(y, x)
        PROVE  x # <<>> /\ x[1] = Return
    <3>1. Len(y) <= Len(x) /\ \A i \in 1..Len(y) : y[i] = x[i]
      BY <1>2, <2>2, PrefixIs
    <3>2. QED
      BY <1>2, <2>2, <3>1, NoText0
  <2>3. QED
    BY <2>1, <2>2, OneReturn
<1>9. Len(w) = Len(t) + Len(x) + Len(f.left)
  <2>1. Len(w) = Len(t) + (Len(x) + Len(f.left))
    BY <1>3, <1>4, Zenon
  <2>2. \A a, b, c \in Nat : a + (b + c) = a + b + c
    OBVIOUS
  <2>3. QED
    BY <1>7, <2>1, <2>2, ZenonT(40)
<1>10. QED
  BY <1>1, <1>2, <1>3, <1>4, <1>5, <1>6, <1>7, <1>8, <1>9 DEF Faced

LEMMA FittingIs ==
  ASSUME NEW cap \in Nat, NEW t \in Texts, NEW length \in Nat, NEW fits, fits = Fitting(cap, t, length),
         RoomFor(Len(t), cap)
  PROVE  /\ fits \in Nat /\ fits <= length
         /\ RoomFor(Len(t) + fits, cap)
         /\ RoomFor(Len(t) + length, cap) <=> fits = length
         /\ RoomFor(Len(t) + length, cap) <=> ~ (fits < length)
<1>1. Len(t) \in Nat
  BY NoText0
<1>2. fits = IF cap > 0 /\ length + Len(t) >= cap THEN cap - Len(t) - 1 ELSE length
  BY DEF Fitting
<1>3. cap = 0 \/ Len(t) < cap
  BY DEF RoomFor
<1>4. ASSUME NEW n \in Nat, n = Len(t)
      PROVE  /\ fits \in Nat /\ fits <= length
             /\ cap = 0 \/ n + fits < cap
             /\ (cap = 0 \/ n + length < cap) <=> fits = length
             /\ (cap = 0 \/ n + length < cap) <=> ~ (fits < length)
  BY <1>2, <1>3, <1>4
<1>5. QED
  BY <1>1, <1>4 DEF RoomFor

LEMMA EndLineTells ==
  ASSUME NEW t, NEW cap \in Nat, NEW f, NEW x, NEW w, Facing(t, cap, f, x, w),
         Has(x, <<Newline>>), NEW o, o = EndLine(f, t, cap)
  PROVE  Told(w, cap, o)
<1>1. /\ t \in Texts /\ x \in Texts /\ f.left \in Texts /\ w \in Texts /\ x \o f.left \in Texts
      /\ t \o x \in Texts /\ w = (t \o x) \o f.left
      /\ Len(t) \in Nat /\ Len(x) \in Nat
      /\ LastIs(t, Return) => (x # <<>> /\ x[1] = Return)
  <2>1. Facing(t, cap, f, x, w)
    OBVIOUS
  <2>2. Faced(t, f, x, w)
    BY <2>1, FacingIs, Zenon
  <2>3. QED
    BY <2>2, Zenon DEF Faced
<1>2. /\ Clear(t) /\ RoomFor(Len(t), cap) /\ f \in Readers /\ f.save = <<>>
      /\ f.eof => f.left = <<>>
      /\ x = Rest(f) /\ w = t \o (x \o f.left)
  BY DEF Facing
<1>3. SUFFICES ASSUME NEW j, j = strstr(x, <<Newline>>), NEW length, length = j - 1,
                      NEW fits, fits = Fitting(cap, t, length),
                      NEW piece, piece = SubSeq(x, 1, fits), NEW g, g = Consumed(f, length + 1)
               PROVE  Told(w, cap, o)
  OBVIOUS
<1>4. FirstPlace(j, x, Newline)
  BY <1>1, <1>3, Characters, MarkIs
<1>5. j \in Nat /\ j > 0 /\ j <= Len(x) /\ j \in 1..Len(x) /\ length \in Nat /\ length + 1 = j /\ length < Len(x)
  <2>1. j \in 0..Len(x)
    BY <1>4 DEF FirstPlace
  <2>2. j > 0
    BY <1>3 DEF Has
  <2>3. QED
    BY <1>1, <1>3, <2>1, <2>2
<1>6. /\ o.text = t \o Plain(piece) /\ o.reader = g
      /\ o.ret = IF fits < length THEN CONTINUE_READING ELSE 1
  <2>1. o = Delivers(g, t \o (IF LastIs(piece, Return) THEN Front(piece) ELSE piece),
                     IF fits < length THEN CONTINUE_READING ELSE 1)
    BY <1>2, <1>3 DEF EndLine
  <2>2. o = Delivers(g, t \o Plain(piece), IF fits < length THEN CONTINUE_READING ELSE 1)
    BY <2>1 DEF Plain
  <2>3. ASSUME NEW code, o = Delivers(g, t \o Plain(piece), code)
        PROVE  o.text = t \o Plain(piece) /\ o.reader = g /\ o.ret = code
    <3>1. ASSUME NEW u, o = Delivers(g, u, code)
          PROVE  o.text = u /\ o.reader = g /\ o.ret = code
      BY <3>1, DeliversHas
    <3>2. QED
      BY <2>3, <3>1
  <2>4. QED
    BY <2>2, <2>3, Zenon
<1>7. /\ fits \in Nat /\ fits <= length
      /\ RoomFor(Len(t) + fits, cap)
      /\ RoomFor(Len(t) + length, cap) <=> fits = length
      /\ RoomFor(Len(t) + length, cap) <=> ~ (fits < length)
  <2>1. t \in Texts /\ length \in Nat /\ fits = Fitting(cap, t, length) /\ RoomFor(Len(t), cap)
    BY <1>1, <1>2, <1>3, <1>5, Zenon
  <2>2. QED
    BY <2>1, FittingIs
<1> DEFINE l == Before(x, j)
           k == Len(t) + j
<1>8. /\ l \in Texts /\ Len(l) = length /\ l = SubSeq(x, 1, length)
      /\ \A i \in 1..length : l[i] = x[i]
  <2>1. /\ Before(x, j) \in Texts /\ Len(Before(x, j)) = j - 1
        /\ \A i \in 1..j - 1 : Before(x, j)[i] = x[i]
    <3>1. j <= Len(x) + 1
      BY <1>1, <1>5
    <3>2. QED
      BY <1>1, <1>5, <3>1, PartsAt
  <2>2. Before(x, j) = SubSeq(x, 1, j - 1)
    BY DEF Before
  <2>3. QED
    BY <1>3, <2>1, <2>2
<1> HIDE DEF l, k
<1>9. /\ strstr(w, <<Newline>>) = k /\ k > 0 /\ k - 1 = Len(t) + length
      /\ Before(w, k) = t \o l
      /\ From(w, k + 1) = From(x, j + 1) \o f.left
  <2>1. strstr(t \o x, <<Newline>>) = k
    <3>1. strstr(t, <<Newline>>) = 0 /\ strstr(x, <<Newline>>) > 0 /\ strstr(x, <<Newline>>) = j
      BY <1>2, <1>3, <1>5 DEF Clear
    <3>2. strstr(t \o x, <<Newline>>) = Len(t) + strstr(x, <<Newline>>)
      BY <1>1, <3>1, Characters, MarkJoin
    <3>3. QED
      BY <3>1, <3>2 DEF k
  <2>2. k \in Nat /\ k > 0 /\ k - 1 = Len(t) + length
    <3>1. Len(t) \in Nat /\ j \in Nat /\ j > 0 /\ length = j - 1
      BY <1>1, <1>3, <1>5, Zenon
    <3>2. \A a \in Nat : a + j \in Nat /\ a + j > 0 /\ (a + j) - 1 = a + length
      BY <3>1
    <3>3. QED
      BY <3>1, <3>2, Zenon DEF k
  <2>3. strstr(w, <<Newline>>) = k
    <3>1. strstr((t \o x) \o f.left, <<Newline>>) = strstr(t \o x, <<Newline>>)
      BY <1>1, <2>1, <2>2, Characters, MarkJoin
    <3>2. QED
      BY <1>1, <2>1, <3>1
  <2>4. /\ Before(x \o f.left, j) = l
        /\ From(x \o f.left, j + 1) = From(x, j + 1) \o f.left
    <3>1. j \in 1..Len(x) + 1 /\ j + 1 \in 1..Len(x) + 1
      BY <1>1, <1>5
    <3>2. QED
      BY <1>1, <3>1, JoinParts, ZenonT(40) DEF l
  <2>5. /\ Before(t \o (x \o f.left), Len(t) + j) = t \o Before(x \o f.left, j)
        /\ From(t \o (x \o f.left), Len(t) + (j + 1)) = From(x \o f.left, j + 1)
    <3>1. j \in 1..Len(x \o f.left) + 1 /\ j + 1 \in 1..Len(x \o f.left) + 1
      <4>1. Len(x \o f.left) = Len(x) + Len(f.left) /\ Len(f.left) \in Nat
        BY <1>1, TextsJoin, NoText0
      <4>2. QED
        BY <1>1, <1>5, <4>1
    <3>2. QED
      BY <1>1, <3>1, JoinParts, ZenonT(40)
  <2>6. Len(t) + (j + 1) = k + 1
    BY <1>1, <1>5 DEF k
  <2>7. QED
    BY <1>2, <2>2, <2>3, <2>4, <2>5, <2>6 DEF k
<1>10. SoundReader(g) /\ Unread(g) = From(x, j + 1) \o f.left
  <2>1. j <= Len(Rest(f)) /\ g = Consumed(f, j)
    BY <1>2, <1>3, <1>5
  <2>2. QED
    BY <1>2, <1>5, <2>1, ConsumedIs
<1>11. /\ piece \in Texts /\ Plain(piece) \in Texts /\ Len(Plain(piece)) <= fits /\ Len(Plain(piece)) \in Nat
  <2>1. fits <= Len(x)
    BY <1>1, <1>5, <1>7
  <2>2. piece \in Texts /\ Len(piece) = fits
    BY <1>1, <1>3, <1>7, <2>1, FirstPart
  <2>3. QED
    BY <2>2, PlainIs, NoText0
<1>12. o.text \in Texts /\ RoomFor(Len(o.text), cap)
  <2>1. o.text \in Texts /\ Len(o.text) = Len(t) + Len(Plain(piece))
    BY <1>1, <1>6, <1>11, TextsJoin
  <2>2. cap = 0 \/ Len(t) + fits < cap
    BY <1>7 DEF RoomFor
  <2>3. cap = 0 \/ Len(o.text) < cap
    BY <1>1, <1>7, <1>11, <2>1, <2>2
  <2>4. QED
    BY <2>1, <2>3 DEF RoomFor
<1>13. CASE fits = length
  <2>1. piece = l
    BY <1>3, <1>8, <1>13
  <2>2. Plain(t \o l) = t \o Plain(l)
    <3>1. CASE l = <<>>
      <4>1. ~ LastIs(t, Return)
        <5>1. ASSUME x[1] = Return
              PROVE  FALSE
          <6>1. length = 0
            BY <1>8, <3>1, NoText0
          <6>2. j = 1
            BY <1>5, <6>1
          <6>3. x[j] = Newline
            BY <1>4, <1>5 DEF FirstPlace
          <6>4. QED
            BY <5>1, <6>2, <6>3, Characters
        <5>2. QED
          BY <1>1, <5>1
      <4>2. Plain(t) = t /\ t \o l = t /\ Plain(l) = l
        <5>1. ~ LastIs(l, Return)
          BY <3>1 DEF LastIs
        <5>2. QED
          BY <1>1, <1>8, <3>1, <4>1, <5>1, PlainIs, NoText0
      <4>3. QED
        BY <4>2
    <3>2. CASE l # <<>>
      BY <1>1, <1>8, <3>2, PlainJoins
    <3>3. QED
      BY <3>1, <3>2
  <2>3. o.ret = 1 /\ RoomFor(k - 1, cap)
    <3>1. ~ (fits < length)
      BY <1>5, <1>13
    <3>2. QED
      BY <1>6, <1>7, <1>9, <1>13, <3>1
  <2>4. o.text = Plain(Before(w, k)) /\ SoundReader(o.reader) /\ Unread(o.reader) = From(w, k + 1)
    BY <1>6, <1>9, <1>10, <2>1, <2>2
  <2>5. LineTold(w, k, cap, o)
    BY <2>3, <2>4, Zenon DEF LineTold
  <2>6. k # 0
    BY <1>9
  <2>7. QED
    BY <1>9, <1>12, <2>5, <2>6 DEF Told
<1>14. CASE fits # length
  <2>1. fits < length /\ ~ RoomFor(k - 1, cap)
    BY <1>5, <1>7, <1>9, <1>14
  <2>2. o.ret = CONTINUE_READING
    BY <1>6, <2>1
  <2>3. SubSeq(x, 1, fits) = SubSeq(l, 1, fits)
    <3>1. /\ SubSeq(l, 1, fits) \in Texts /\ Len(SubSeq(l, 1, fits)) = fits
          /\ \A i \in 1..fits : SubSeq(l, 1, fits)[i] = l[i]
      BY <1>7, <1>8, FirstPart
    <3>2. /\ SubSeq(x, 1, fits) \in Texts /\ Len(SubSeq(x, 1, fits)) = fits
          /\ \A i \in 1..fits : SubSeq(x, 1, fits)[i] = x[i]
      <4>1. fits <= Len(x)
        BY <1>1, <1>5, <1>7
      <4>2. QED
        BY <1>1, <1>7, <4>1, FirstPart
    <3>3. \A i \in 1..fits : i \in 1..length
      BY <1>5, <1>7
    <3>4. QED
      BY <1>8, <3>1, <3>2, <3>3, SameText
  <2>4. IsPrefix(Plain(piece), Plain(l)) /\ Plain(l) \in Texts /\ l # <<>>
    <3>1. piece = SubSeq(l, 1, fits) /\ fits < Len(l)
      BY <1>3, <1>8, <2>1, <2>3
    <3>2. l # <<>>
      BY <1>5, <1>7, <1>8, <2>1, Nothing
    <3>3. QED
      BY <1>7, <1>8, <3>1, <3>2, PlainPart, PlainIs
  <2>5. Plain(t \o l) = t \o Plain(l)
    BY <1>1, <1>8, <2>4, PlainJoins
  <2>6. IsPrefix(o.text, Plain(Before(w, k)))
    <3>1. IsPrefix(t \o Plain(piece), t \o Plain(l))
      BY <1>1, <1>11, <2>4, PrefixAfter
    <3>2. QED
      BY <1>6, <1>9, <2>5, <3>1
  <2>7. LineTold(w, k, cap, o)
    BY <2>1, <2>2, <2>6, Zenon DEF LineTold
  <2>8. k # 0
    BY <1>9
  <2>9. QED
    BY <1>9, <1>12, <2>7, <2>8 DEF Told
<1>15. QED
  BY <1>13, <1>14

LEMMA TellsEnd ==
  ASSUME NEW w, NEW cap, NEW o, Clear(w), o.text \in Texts, RoomFor(Len(o.text), cap),
         EndTold(w, cap, o)
  PROVE  Told(w, cap, o)
<1>1. strstr(w, <<Newline>>) = 0
  BY DEF Clear
<1>2. ~ (strstr(w, <<Newline>>) > 0)
  BY <1>1
<1>3. QED
  BY <1>1, <1>2, Zenon DEF Told

LEMMA LessRoom ==
  ASSUME NEW cap \in Nat, NEW a \in Nat, NEW b \in Nat, a <= b, RoomFor(b, cap)
  PROVE  RoomFor(a, cap)
BY DEF RoomFor

LEMMA NothingTells ==
  ASSUME NEW t, NEW cap \in Nat, NEW f, NEW x, NEW w, Facing(t, cap, f, x, w),
         f.buf = <<>>, f.left = <<>>, NEW o, o = Delivers(f, t, -13)
  PROVE  Told(w, cap, o)
<1>1. Faced(t, f, x, w)
  BY FacingIs, Zenon
<1>2. /\ Clear(t) /\ RoomFor(Len(t), cap) /\ f \in Readers /\ f.save = <<>>
      /\ x = Rest(f) /\ w = t \o (x \o f.left)
  BY DEF Facing
<1>3. t \in Texts /\ (LastIs(t, Return) => x # <<>>)
  BY <1>1, Zenon DEF Faced
<1>4. x = <<>>
  <2>1. f.off >= Len(f.buf)
    <3>1. f.off \in Nat
      BY <1>2, ReaderHas
    <3>2. Len(f.buf) = 0
      BY Nothing
    <3>3. QED
      BY <3>1, <3>2
  <2>2. QED
    BY <1>2, <2>1, RestIs
<1>5. w = t
  <2>1. <<>> \o <<>> = <<>> /\ t \o <<>> = t
    BY <1>3, Nothing, NoText0
  <2>2. QED
    BY <1>2, <1>4, <2>1
<1>6. o.text = t /\ o.reader = f /\ o.ret = -13
  BY DeliversHas
<1>7. SoundReader(f) /\ Unread(f) = <<>>
  <2>1. SoundReader(f)
    BY <1>2, Zenon DEF SoundReader
  <2>2. Unread(f) = <<>> \o (<<>> \o <<>>)
    BY <1>2, <1>4, Zenon DEF Unread
  <2>3. <<>> \o <<>> = <<>>
    BY Nothing, NoText0
  <2>4. QED
    BY <2>1, <2>2, <2>3, Zenon
<1>8. Plain(t) = t
  BY <1>3, <1>4, PlainIs
<1>9. IsPrefix(t, t) /\ IsPrefix(Until(t, <<Return>>), t)
  BY <1>3, PrefixJoins, UntilPrefix
<1>10. -13 \in {1, -13, CONTINUE_READING} /\ -13 # CONTINUE_READING
  BY DEF CONTINUE_READING
<1>11. EndTold(w, cap, o)
  BY <1>5, <1>6, <1>7, <1>8, <1>9, <1>10, Zenon DEF EndTold
<1>12. QED
  BY <1>2, <1>3, <1>5, <1>6, <1>11, TellsEnd

LEMMA EndFileTells ==
  ASSUME NEW t, NEW cap \in Nat, NEW f, NEW x, NEW w, Facing(t, cap, f, x, w),
         x # <<>>, ~ Has(x, <<Newline>>), f.eof, NEW o, o = EndFile(f, t, cap)
  PROVE  Told(w, cap, o)
<1>1. Faced(t, f, x, w)
  BY FacingIs, Zenon
<1>2. /\ Clear(t) /\ RoomFor(Len(t), cap) /\ f \in Readers /\ f.save = <<>>
      /\ f.left = <<>> /\ (f.eof => f.left = <<>>)
      /\ x = Rest(f)
  BY DEF Facing
<1>3. t \in Texts /\ x \in Texts /\ w = (t \o x) \o f.left /\ t \o x \in Texts
  BY <1>1, Zenon DEF Faced
<1>4. w = t \o x
  BY <1>2, <1>3, NoText0
<1>5. Clear(w)
  <2>1. strstr(x, <<Newline>>) \in Nat
    BY <1>3, LineIs
  <2>2. Clear(x)
    BY <2>1 DEF Has, Clear
  <2>3. QED
    BY <1>2, <1>3, <1>4, <2>2, ClearJoins
<1>6. SUFFICES ASSUME NEW tail, tail = Until(x, <<Return>>), NEW fits, fits = Fitting(cap, t, Len(tail)),
                      NEW piece, piece = SubSeq(tail, 1, fits), NEW g, g = [f EXCEPT !.buf = <<>>, !.off = 0]
               PROVE  Told(w, cap, o)
  OBVIOUS
<1>7. tail \in Texts /\ IsPrefix(tail, Plain(x)) /\ Len(tail) <= Len(x) /\ Len(tail) \in Nat
  BY <1>3, <1>6, UntilPrefix, NoText0
<1>8. /\ fits \in Nat /\ fits <= Len(tail)
      /\ RoomFor(Len(t) + fits, cap)
      /\ RoomFor(Len(t) + Len(tail), cap) <=> fits = Len(tail)
  <2>1. ASSUME NEW n \in Nat, n = Len(tail)
        PROVE  /\ fits \in Nat /\ fits <= n
               /\ RoomFor(Len(t) + fits, cap)
               /\ RoomFor(Len(t) + n, cap) <=> fits = n
    <3>1. t \in Texts /\ fits = Fitting(cap, t, n) /\ RoomFor(Len(t), cap)
      BY <1>2, <1>3, <1>6, <2>1, Zenon
    <3>2. QED
      BY <3>1, FittingIs
  <2>2. QED
    BY <1>7, <2>1
<1>9. o.text = t \o piece /\ o.reader = g /\ o.ret = 1
  <2>1. o = Delivers(g, t \o piece, 1)
    BY <1>2, <1>6, Zenon DEF EndFile
  <2>2. ASSUME NEW u, o = Delivers(g, u, 1)
        PROVE  o.text = u /\ o.reader = g /\ o.ret = 1
    BY <2>2, DeliversHas
  <2>3. QED
    BY <2>1, <2>2, Zenon
<1>10. SoundReader(g) /\ Unread(g) = <<>>
  <2>1. SoundReader(g) /\ Unread(g) = f.left
    BY <1>2, <1>6, EmptyReader, Zenon
  <2>2. QED
    BY <1>2, <2>1
<1>11. /\ piece \in Texts /\ Len(piece) = fits /\ IsPrefix(piece, tail)
       /\ fits = Len(tail) => piece = tail
  <2>1. /\ SubSeq(tail, 1, fits) \in Texts /\ From(tail, fits + 1) \in Texts
        /\ Len(SubSeq(tail, 1, fits)) = fits
        /\ tail = SubSeq(tail, 1, fits) \o From(tail, fits + 1)
        /\ fits = Len(tail) => SubSeq(tail, 1, fits) = tail
    BY <1>7, <1>8, TextCutIs
  <2>2. \A u, v \in Texts : tail = u \o v => IsPrefix(u, tail)
    BY PrefixJoins
  <2>3. QED
    BY <1>6, <2>1, <2>2, Zenon
<1>12. o.text \in Texts /\ RoomFor(Len(o.text), cap)
  <2>1. t \o piece \in Texts /\ Len(t \o piece) = Len(t) + Len(piece)
    BY <1>3, <1>11, TextsJoin
  <2>2. QED
    BY <1>8, <1>9, <1>11, <2>1
<1>13. IsPrefix(o.text, Plain(w))
  <2>1. Plain(w) = t \o Plain(x) /\ Plain(x) \in Texts
    BY <1>3, <1>4, PlainJoins, PlainIs
  <2>2. IsPrefix(piece, Plain(x))
    BY <1>7, <1>11, <2>1, PrefixAfter
  <2>3. IsPrefix(t \o piece, t \o Plain(x))
    BY <1>3, <1>11, <2>1, <2>2, PrefixAfter
  <2>4. QED
    BY <1>9, <2>1, <2>3
<1>14. ASSUME RoomFor(Len(w), cap)
       PROVE  IsPrefix(Until(w, <<Return>>), o.text)
  <2>1. Len(w) = Len(t) + Len(x) /\ Len(t) \in Nat /\ Len(x) \in Nat /\ Len(w) \in Nat
    BY <1>3, <1>4, TextsJoin, NoText0
  <2>2. Len(t) + Len(tail) \in Nat /\ Len(t) + Len(tail) <= Len(w)
    BY <1>7, <2>1
  <2>3. RoomFor(Len(t) + Len(tail), cap)
    BY <1>14, <2>1, <2>2, LessRoom
  <2>4. o.text = t \o Until(x, <<Return>>)
    BY <1>6, <1>8, <1>9, <1>11, <2>3
  <2>5. QED
    BY <1>3, <1>4, <2>4, UntilJoins
<1>15. w # <<>>
  <2>1. Len(w) = Len(t) + Len(x) /\ Len(t) \in Nat /\ Len(x) \in Nat /\ Len(x) # 0
    BY <1>3, <1>4, TextsJoin, NoText0
  <2>2. Len(w) # 0
    BY <2>1
  <2>3. QED
    BY <2>2, Nothing
<1>16. 1 \in {1, -13, CONTINUE_READING} /\ 1 # CONTINUE_READING
  BY DEF CONTINUE_READING
<1>17. EndTold(w, cap, o)
  BY <1>9, <1>10, <1>13, <1>14, <1>15, <1>16, Zenon DEF EndTold
<1>18. QED
  BY <1>5, <1>12, <1>17, TellsEnd

(* More of the line is in the file.                                         *)
MoreOf(t, cap, f, x, m) ==
  /\ t \in Texts /\ x \in Texts /\ x # <<>> /\ Clear(t \o x) /\ Clear(x)
  /\ Plain(x) \in Texts /\ Len(Plain(x)) <= Len(x) /\ Len(Plain(x)) \in Nat
  /\ Plain(t \o x) = t \o Plain(x)
  /\ m.text \in Texts /\ RoomFor(Len(m.text), cap)
  /\ m.ret < 0 =>
       /\ m.ret = CONTINUE_READING
       /\ ~ RoomFor(Len(t) + Len(Plain(x)), cap)
       /\ IsPrefix(m.text, t \o x) /\ Len(m.text) < Len(t \o x)
  /\ ~ (m.ret < 0) =>
       /\ m.text = t \o Plain(x)
       /\ m.reader \in Readers /\ Rest(m.reader) = <<>>
       /\ m.reader.off >= Len(m.reader.buf)
       /\ m.reader.left = f.left /\ m.reader.eof = f.eof
       /\ m.reader.save = IF LastIs(x, Return) THEN <<Return>> ELSE <<>>

LEMMA MoreIs ==
  ASSUME NEW t, NEW cap \in Nat, NEW f, NEW x, NEW w, Facing(t, cap, f, x, w),
         f.off < Len(f.buf), ~ Has(x, <<Newline>>), ~ f.eof, NEW m, m = PassOn(f, t, cap)
  PROVE  MoreOf(t, cap, f, x, m)
<1>1. Faced(t, f, x, w)
  BY FacingIs, Zenon
<1>2. /\ Clear(t) /\ RoomFor(Len(t), cap) /\ f \in Readers /\ f.save = <<>> /\ x = Rest(f)
  BY DEF Facing
<1>3. t \in Texts /\ x \in Texts /\ t \o x \in Texts
  BY <1>1, Zenon DEF Faced
<1>4. Clear(x) /\ Clear(t \o x)
  <2>1. strstr(x, <<Newline>>) \in Nat
    BY <1>3, LineIs
  <2>2. Clear(x)
    BY <2>1 DEF Has, Clear
  <2>3. QED
    BY <1>2, <1>3, <2>2, ClearJoins
<1>5. Plain(x) \in Texts /\ Len(Plain(x)) <= Len(x) /\ Len(Plain(x)) \in Nat /\ IsPrefix(Plain(x), x)
  BY <1>3, PlainIs, NoText0
<1>6. SUFFICES ASSUME NEW p, p = Plain(x), NEW fits, fits = Fitting(cap, t, Len(p)),
                      NEW piece, piece = SubSeq(p, 1, fits)
               PROVE  /\ x # <<>>
                      /\ Plain(t \o x) = t \o p
                      /\ m.text \in Texts /\ RoomFor(Len(m.text), cap)
                      /\ m.ret < 0 =>
                           /\ m.ret = CONTINUE_READING
                           /\ ~ RoomFor(Len(t) + Len(p), cap)
                           /\ IsPrefix(m.text, t \o x) /\ Len(m.text) < Len(t \o x)
                      /\ ~ (m.ret < 0) =>
                           /\ m.text = t \o p
                           /\ m.reader \in Readers /\ Rest(m.reader) = <<>>
                           /\ m.reader.off >= Len(m.reader.buf)
                           /\ m.reader.left = f.left /\ m.reader.eof = f.eof
                           /\ m.reader.save = IF LastIs(x, Return) THEN <<Return>> ELSE <<>>
  BY <1>3, <1>4, <1>5, Zenon DEF MoreOf
<1>7. /\ x # <<>>
      /\ m.text = t \o piece
      /\ fits < Len(p) => m.ret = CONTINUE_READING
      /\ ~ (fits < Len(p)) =>
           /\ m.ret = 1 /\ fits = Len(p) /\ m.text = t \o p
           /\ m.reader \in Readers /\ Rest(m.reader) = <<>>
           /\ m.reader.off >= Len(m.reader.buf)
           /\ m.reader.left = f.left /\ m.reader.eof = f.eof
           /\ m.reader.save = IF LastIs(x, Return) THEN <<Return>> ELSE <<>>
  <2>1. fits = Fitting(cap, t, Len(Plain(x)))
    BY <1>6
  <2>2. /\ x # <<>>
        /\ m.text = t \o SubSeq(Plain(x), 1, fits)
        /\ fits < Len(Plain(x)) => m.ret = CONTINUE_READING
        /\ ~ (fits < Len(Plain(x))) =>
             /\ m.ret = 1 /\ fits = Len(Plain(x)) /\ m.text = t \o Plain(x)
             /\ m.reader \in Readers /\ Rest(m.reader) = <<>>
             /\ m.reader.off >= Len(m.reader.buf)
             /\ m.reader.left = f.left /\ m.reader.eof = f.eof
             /\ m.reader.save = IF LastIs(x, Return) THEN <<Return>> ELSE <<>>
    <3>1. /\ f \in Readers /\ f.save = <<>> /\ f.off < Len(f.buf) /\ t \in Texts /\ cap \in Nat
          /\ m = PassOn(f, t, cap) /\ x = Rest(f)
      BY <1>2, <1>3
    <3>2. QED
      <4>1. PassedPart(f, t, x, fits, m)
        BY <2>1, <3>1, PassOnIs
      <4>2. QED
        BY <4>1, Zenon DEF PassedPart
  <2>3. QED
    BY <1>6, <2>2, Zenon
<1>8. /\ fits \in Nat /\ fits <= Len(p)
      /\ RoomFor(Len(t) + fits, cap)
      /\ RoomFor(Len(t) + Len(p), cap) <=> ~ (fits < Len(p))
  <2>1. ASSUME NEW n \in Nat, n = Len(p)
        PROVE  /\ fits \in Nat /\ fits <= n
               /\ RoomFor(Len(t) + fits, cap)
               /\ RoomFor(Len(t) + n, cap) <=> ~ (fits < n)
    <3>1. t \in Texts /\ fits = Fitting(cap, t, n) /\ RoomFor(Len(t), cap)
      BY <1>2, <1>3, <1>6, <2>1, Zenon
    <3>2. QED
      BY <3>1, FittingIs
  <2>2. QED
    BY <1>5, <1>6, <2>1
<1>9. /\ piece \in Texts /\ Len(piece) = fits /\ IsPrefix(piece, p)
  <2>1. p \in Texts
    BY <1>5, <1>6
  <2>2. /\ SubSeq(p, 1, fits) \in Texts /\ From(p, fits + 1) \in Texts
        /\ Len(SubSeq(p, 1, fits)) = fits
        /\ p = SubSeq(p, 1, fits) \o From(p, fits + 1)
    BY <2>1, <1>8, TextCutIs
  <2>3. \A u, v \in Texts : p = u \o v => IsPrefix(u, p)
    BY PrefixJoins
  <2>4. QED
    BY <1>6, <2>2, <2>3, Zenon
<1>10. m.text \in Texts /\ Len(m.text) = Len(t) + fits /\ RoomFor(Len(m.text), cap)
  <2>1. t \o piece \in Texts /\ Len(t \o piece) = Len(t) + Len(piece)
    BY <1>3, <1>9, TextsJoin
  <2>2. QED
    BY <1>7, <1>8, <1>9, <2>1
<1>11. Plain(t \o x) = t \o p
  BY <1>3, <1>6, <1>7, PlainJoins
<1>12. m.ret < 0 <=> fits < Len(p)
  <2>1. CONTINUE_READING < 0 /\ ~ (1 < 0)
    BY DEF CONTINUE_READING
  <2>2. QED
    BY <1>7, <2>1, Zenon
<1>13. ASSUME fits < Len(p)
       PROVE  IsPrefix(m.text, t \o x) /\ Len(m.text) < Len(t \o x)
  <2>1. IsPrefix(piece, x)
    BY <1>3, <1>5, <1>6, <1>9, PrefixAfter
  <2>2. IsPrefix(t \o piece, t \o x)
    BY <1>3, <1>9, <2>1, PrefixAfter
  <2>3. Len(t \o x) = Len(t) + Len(x) /\ Len(t) \in Nat /\ Len(x) \in Nat
    BY <1>3, TextsJoin, NoText0
  <2>4. fits < Len(x)
    BY <1>5, <1>6, <1>8, <1>13, <2>3
  <2>5. QED
    BY <1>7, <1>8, <1>10, <2>2, <2>3, <2>4
<1>14. QED
  BY <1>7, <1>8, <1>10, <1>11, <1>12, <1>13, Zenon

LEMMA PassOnTells ==
  ASSUME NEW t, NEW cap \in Nat, NEW f, NEW x, NEW w, Facing(t, cap, f, x, w),
         f.off < Len(f.buf), ~ Has(x, <<Newline>>), ~ f.eof, NEW m, m = PassOn(f, t, cap), m.ret < 0
  PROVE  Told(w, cap, m)
<1>1. Faced(t, f, x, w)
  BY FacingIs, Zenon
<1>2. SUFFICES ASSUME NEW y, y = t \o x, NEW z, z = f.left
               PROVE  Told(w, cap, m)
  OBVIOUS
<1>3. t \in Texts /\ x \in Texts /\ y \in Texts /\ z \in Texts /\ w = y \o z /\ w \in Texts
  BY <1>1, <1>2, Zenon DEF Faced
<1>4. /\ x # <<>> /\ Clear(y)
      /\ Len(Plain(x)) <= Len(x) /\ Len(Plain(x)) \in Nat
      /\ m.text \in Texts /\ RoomFor(Len(m.text), cap)
      /\ m.ret = CONTINUE_READING
      /\ ~ RoomFor(Len(t) + Len(Plain(x)), cap)
      /\ IsPrefix(m.text, y) /\ Len(m.text) < Len(y)
  <2>1. Facing(t, cap, f, x, w) /\ f.off < Len(f.buf) /\ ~ Has(x, <<Newline>>) /\ ~ f.eof /\ m = PassOn(f, t, cap)
    OBVIOUS
  <2>2. /\ x # <<>> /\ Clear(t \o x)
        /\ Len(Plain(x)) <= Len(x) /\ Len(Plain(x)) \in Nat
        /\ m.text \in Texts /\ RoomFor(Len(m.text), cap)
        /\ m.ret = CONTINUE_READING
        /\ ~ RoomFor(Len(t) + Len(Plain(x)), cap)
        /\ IsPrefix(m.text, t \o x) /\ Len(m.text) < Len(t \o x)
    <3>1. MoreOf(t, cap, f, x, m)
      BY <2>1, MoreIs
    <3>2. MoreOf(t, cap, f, x, m) /\ m.ret < 0
      BY <3>1
    <3>3. QED
      BY <3>2, Zenon DEF MoreOf
  <2>3. QED
    BY <1>2, <2>2, Zenon
<1>5. /\ Len(y) = Len(t) + Len(x) /\ Len(t) \in Nat /\ Len(x) \in Nat /\ Len(y) \in Nat
      /\ Len(z) \in Nat /\ Len(w) = Len(y) + Len(z) /\ Len(m.text) \in Nat
  BY <1>2, <1>3, <1>4, TextsJoin, NoText0
<1>6. ASSUME NEW n \in Nat, n >= Len(y)
      PROVE  ~ RoomFor(n, cap)
  <2>1. Len(t) + Len(Plain(x)) \in Nat /\ Len(t) + Len(Plain(x)) <= n
    BY <1>4, <1>5, <1>6
  <2>2. QED
    BY <1>4, <2>1, LessRoom
<1>7. ASSUME NEW u \in Texts, NEW v \in Texts, v = y \o u
      PROVE  IsPrefix(m.text, Plain(v))
  <2>1. IsPrefix(m.text, v)
    BY <1>3, <1>4, <1>7, PrefixAfter
  <2>2. Len(v) = Len(y) + Len(u) /\ Len(u) \in Nat
    BY <1>3, <1>7, TextsJoin, NoText0
  <2>3. Len(m.text) < Len(v)
    BY <1>4, <1>5, <2>2
  <2>4. QED
    BY <1>4, <1>7, <2>1, <2>3, ShorterPlain
<1>8. strstr(y, <<Newline>>) = 0
  BY <1>4 DEF Clear
<1>9. CASE strstr(z, <<Newline>>) > 0
  <2>1. SUFFICES ASSUME NEW i, i = strstr(z, <<Newline>>), NEW k, k = Len(y) + i
                 PROVE  Told(w, cap, m)
    OBVIOUS
  <2>2. strstr(w, <<Newline>>) = k
    BY <1>3, <1>8, <1>9, <2>1, Characters, MarkJoin
  <2>3. i \in 1..Len(z) + 1 /\ i \in Nat /\ i > 0
    <3>1. i \in 0..Len(z)
      BY <1>3, <2>1, LineIs
    <3>2. QED
      BY <1>5, <1>9, <2>1, <3>1
  <2>4. k - 1 \in Nat /\ k - 1 >= Len(y) /\ k > 0 /\ k # 0
    BY <1>5, <2>1, <2>3, SMTT(30)
  <2>5. ~ RoomFor(k - 1, cap)
    BY <1>6, <2>4
  <2>6. Before(w, k) = y \o Before(z, i) /\ Before(z, i) \in Texts
    <3>1. Before(w, k) = y \o Before(z, i)
      BY <1>3, <2>1, <2>3, JoinParts
    <3>2. i <= Len(z) + 1
      BY <1>5, <2>3
    <3>3. QED
      BY <1>3, <2>3, <3>1, <3>2, PartsAt
  <2>7. y \o Before(z, i) \in Texts
    BY <1>3, <2>6, TextsJoin
  <2>8. IsPrefix(m.text, Plain(Before(w, k)))
    BY <1>7, <2>6, <2>7
  <2>9. LineTold(w, k, cap, m)
    BY <1>4, <2>5, <2>8, Zenon DEF LineTold
  <2>10. QED
    BY <1>4, <2>2, <2>4, <2>9, Zenon DEF Told
<1>10. CASE ~ (strstr(z, <<Newline>>) > 0)
  <2>1. strstr(z, <<Newline>>) = 0
    <3>1. strstr(z, <<Newline>>) \in Nat
      BY <1>3, LineIs
    <3>2. QED
      BY <1>10, <3>1
  <2>2. Clear(w)
    BY <1>3, <1>4, <2>1, ClearJoins DEF Clear
  <2>3. IsPrefix(m.text, Plain(w))
    BY <1>3, <1>7
  <2>4. ~ RoomFor(Len(w), cap)
    <3>1. Len(w) \in Nat /\ Len(w) >= Len(y)
      BY <1>5
    <3>2. QED
      BY <1>6, <3>1
  <2>5. w # <<>>
    <3>1. Len(w) # 0
      BY <1>4, <1>5
    <3>2. QED
      BY <3>1, Nothing
  <2>6. CONTINUE_READING \in {1, -13, CONTINUE_READING}
    OBVIOUS
  <2>7. EndTold(w, cap, m)
    BY <1>4, <2>3, <2>4, <2>5, <2>6, Zenon DEF EndTold
  <2>8. QED
    BY <1>4, <2>2, <2>7, TellsEnd
<1>11. QED
  BY <1>9, <1>10

(* What holds of every round: the text so far, and what is still unread,    *)
(* make up w.                                                               *)
Pulled(c, cap, w) ==
  /\ c.text \in Texts /\ Clear(c.text) /\ RoomFor(Len(c.text), cap)
  /\ SoundReader(c.reader)
  /\ w = c.text \o Unread(c.reader)
  /\ LastIs(c.text, Return) => c.reader.save # <<>>

LEMMA PulledFaces ==
  ASSUME NEW c, NEW cap \in Nat, NEW w, Pulled(c, cap, w), NEW f, f = Refill(c.reader)
  PROVE  /\ Facing(c.text, cap, f, Rest(f), w)
         /\ f.buf = <<>> => f.left = <<>>
         /\ f.buf # <<>> => f.off < Len(f.buf) /\ Rest(f) # <<>>
<1>1. SUFFICES ASSUME NEW r, r = c.reader, NEW t, t = c.text
               PROVE  /\ Facing(t, cap, f, Rest(f), w)
                      /\ f.buf = <<>> => f.left = <<>>
                      /\ f.buf # <<>> => f.off < Len(f.buf) /\ Rest(f) # <<>>
  OBVIOUS
<1>2. /\ t \in Texts /\ Clear(t) /\ RoomFor(Len(t), cap) /\ SoundReader(r)
      /\ w = t \o Unread(r) /\ (LastIs(t, Return) => r.save # <<>>) /\ f = Refill(r)
  BY <1>1, Zenon DEF Pulled
<1>3. r \in Readers
  BY <1>2 DEF SoundReader
<1>4. /\ f \in Readers /\ f.save = <<>>
      /\ (f.buf = <<>> /\ f.off = 0) \/ f.off < Len(f.buf)
      /\ f.buf = <<>> => f.left = <<>>
  BY <1>2, <1>3, RefillIs
<1>5. /\ Unread(r) \in Texts /\ Rest(f) \o f.left = Unread(r)
      /\ f.eof => f.left = <<>>
      /\ r.save # <<>> => LastIs(r.save, Return) /\ IsPrefix(<<Return>>, Rest(f))
  BY <1>2, RefillReads
<1>6. Facing(t, cap, f, Rest(f), w)
  BY <1>2, <1>4, <1>5, Zenon DEF Facing
<1>7. ASSUME f.buf # <<>>
      PROVE  f.off < Len(f.buf) /\ Rest(f) # <<>>
  <2>1. f.off < Len(f.buf)
    BY <1>4, <1>7
  <2>2. f.off \in Nat /\ Len(f.buf) \in Nat
    BY <1>4, ReaderHas
  <2>3. Len(Rest(f)) = Len(f.buf) - f.off
    BY <1>4, <2>1, RestIs
  <2>4. Len(Rest(f)) # 0
    BY <2>1, <2>2, <2>3
  <2>5. QED
    BY <2>1, <2>4, Nothing
<1>8. QED
  BY <1>4, <1>6, <1>7

LEMMA PulledOn ==
  ASSUME NEW c, NEW cap \in Nat, NEW w, Pulled(c, cap, w), PullOn(c, cap)
  PROVE  Pulled(NextCall(c, cap), cap, w)
<1>1. SUFFICES ASSUME NEW f, f = Refill(c.reader), NEW t, t = c.text, NEW x, x = Rest(f),
                      NEW m, m = PassOn(f, t, cap), NEW d, d = NextCall(c, cap)
               PROVE  Pulled(d, cap, w)
  BY Zenon
<1>2. f.buf # <<>> /\ ~ Has(x, <<Newline>>) /\ ~ f.eof /\ ~ (m.ret < 0)
  BY <1>1, Zenon DEF PullOn
<1>3. d.reader = m.reader /\ d.text = m.text
  <2>1. d = [reader |-> m.reader, text |-> m.text]
    BY <1>1, Zenon DEF NextCall
  <2>2. QED
    BY <2>1
<1>4. Facing(t, cap, f, x, w) /\ f.off < Len(f.buf)
  BY <1>1, <1>2, PulledFaces
<1>5. MoreOf(t, cap, f, x, m)
  BY <1>1, <1>2, <1>4, MoreIs
<1>6. /\ t \in Texts /\ x \in Texts /\ x # <<>> /\ Clear(t \o x)
      /\ Plain(t \o x) = t \o Plain(x)
      /\ m.text \in Texts /\ RoomFor(Len(m.text), cap)
      /\ m.text = t \o Plain(x)
      /\ m.reader \in Readers /\ Rest(m.reader) = <<>>
      /\ m.reader.off >= Len(m.reader.buf)
      /\ m.reader.left = f.left /\ m.reader.eof = f.eof
      /\ m.reader.save = IF LastIs(x, Return) THEN <<Return>> ELSE <<>>
  BY <1>2, <1>5, Zenon DEF MoreOf
<1>7. SUFFICES ASSUME NEW y, y = t \o x, NEW z, z = f.left, NEW r, r = m.reader
               PROVE  Pulled(d, cap, w)
  BY Zenon
<1>8. y \in Texts /\ z \in Texts /\ w = y \o z
  <2>1. Faced(t, f, x, w)
    BY <1>4, FacingIs, Zenon
  <2>2. QED
    BY <1>7, <2>1, Zenon DEF Faced
<1>9. m.text = Plain(y) /\ Clear(y) /\ Clear(m.text)
  <2>1. m.text = Plain(y) /\ Clear(y)
    BY <1>6, <1>7, Zenon
  <2>2. IsPrefix(Plain(y), y) /\ Plain(y) \in Texts
    BY <1>8, PlainIs
  <2>3. QED
    BY <1>8, <2>1, <2>2, ClearJoins
<1>10. LastIs(y, Return) <=> LastIs(x, Return)
  BY <1>6, <1>7, PlainJoins
<1>11. r.save = <<>> \/ (r.save = <<Return>> /\ r.off >= Len(r.buf))
  BY <1>6, <1>7, Zenon
<1>12. SoundReader(r)
  <2>1. r \in Readers /\ (r.eof => r.left = <<>>)
    BY <1>2, <1>6, <1>7, Zenon
  <2>2. QED
    BY <1>11, <2>1, Zenon DEF SoundReader
<1>13. Unread(r) = r.save \o z
  <2>1. Unread(r) = r.save \o (<<>> \o z)
    BY <1>6, <1>7, Zenon DEF Unread
  <2>2. <<>> \o z = z
    BY <1>8, NoText0
  <2>3. QED
    BY <2>1, <2>2
<1>14. w = m.text \o Unread(r)
  <2>1. y = Plain(y) \o r.save /\ r.save \in Texts /\ Plain(y) \in Texts
    <3>1. CASE LastIs(y, Return)
      <4>1. y = Plain(y) \o <<Return>> /\ r.save = <<Return>> /\ Plain(y) \in Texts
        BY <1>6, <1>7, <1>8, <1>10, <3>1, PlainIs
      <4>2. QED
        BY <4>1, OneReturn
    <3>2. CASE ~ LastIs(y, Return)
      <4>1. y = Plain(y) /\ r.save = <<>> /\ y \o <<>> = y
        BY <1>6, <1>7, <1>8, <1>10, <3>2, PlainIs, NoText0
      <4>2. QED
        BY <1>8, <4>1, Nothing, Zenon
    <3>3. QED
      BY <3>1, <3>2
  <2>2. (Plain(y) \o r.save) \o z = Plain(y) \o (r.save \o z)
    BY <1>8, <2>1, TextsAssociate
  <2>3. QED
    BY <1>8, <1>9, <1>13, <2>1, <2>2, Zenon
<1>15. ASSUME LastIs(m.text, Return)
       PROVE  r.save # <<>>
  <2>1. CASE LastIs(y, Return)
    BY <1>6, <1>7, <1>10, <2>1, OneReturn
  <2>2. CASE ~ LastIs(y, Return)
    <3>1. Plain(y) = y
      BY <1>8, <2>2, PlainIs
    <3>2. QED
      BY <1>9, <1>15, <2>2, <3>1
  <2>3. QED
    BY <2>1, <2>2
<1>16. QED
  BY <1>3, <1>6, <1>7, <1>9, <1>12, <1>14, <1>15, Zenon DEF Pulled

LEMMA PulledTells ==
  ASSUME NEW c, NEW cap \in Nat, NEW w, Pulled(c, cap, w), ~ PullOn(c, cap)
  PROVE  Told(w, cap, LastCall(c, cap))
<1>1. SUFFICES ASSUME NEW f, f = Refill(c.reader), NEW t, t = c.text, NEW x, x = Rest(f),
                      NEW m, m = PassOn(f, t, cap), NEW o, o = LastCall(c, cap)
               PROVE  Told(w, cap, o)
  BY Zenon
<1>2. /\ Facing(t, cap, f, x, w)
      /\ f.buf = <<>> => f.left = <<>>
      /\ f.buf # <<>> => f.off < Len(f.buf) /\ x # <<>>
  BY <1>1, PulledFaces
<1>3. o = IF f.buf = <<>> THEN Delivers(f, t, -13)
          ELSE IF Has(x, <<Newline>>) THEN EndLine(f, t, cap)
          ELSE IF f.eof THEN EndFile(f, t, cap)
          ELSE m
  BY <1>1, Zenon DEF LastCall
<1>4. f.buf = <<>> \/ Has(x, <<Newline>>) \/ f.eof \/ m.ret < 0
  BY <1>1, Zenon DEF PullOn
<1>5. CASE f.buf = <<>>
  <2>1. f.left = <<>> /\ o = Delivers(f, t, -13)
    BY <1>2, <1>3, <1>5, Zenon
  <2>2. QED
    BY <1>2, <1>5, <2>1, NothingTells
<1>6. CASE f.buf # <<>> /\ Has(x, <<Newline>>)
  <2>1. o = EndLine(f, t, cap)
    BY <1>3, <1>6, Zenon
  <2>2. QED
    BY <1>2, <1>6, <2>1, EndLineTells
<1>7. CASE f.buf # <<>> /\ ~ Has(x, <<Newline>>) /\ f.eof
  <2>1. o = EndFile(f, t, cap)
    BY <1>3, <1>7, Zenon
  <2>2. QED
    BY <1>2, <1>7, <2>1, EndFileTells
<1>8. CASE f.buf # <<>> /\ ~ Has(x, <<Newline>>) /\ ~ f.eof
  <2>1. o = m /\ m.ret < 0
    BY <1>3, <1>4, <1>8, Zenon
  <2>2. QED
    BY <1>1, <1>2, <1>8, <2>1, PassOnTells
<1>9. QED
  BY <1>5, <1>6, <1>7, <1>8, Zenon

(* A call of the reader tells of what is unread what Told says, whatever    *)
(* the pieces the file comes in and the cap of the caller's buffer.        *)
LEMMA GetLineIs ==
  ASSUME NEW r, SoundReader(r), NEW cap \in Nat, NEW o, o = TextFileReader_GetLine(r, cap)
  PROVE  Told(Unread(r), cap, o)
<1>1. PICK g : Pulling(g, cap)
  BY PullingExists
<1>2. SUFFICES ASSUME NEW w, w = Unread(r)
               PROVE  Told(w, cap, o)
  OBVIOUS
<1> DEFINE T == {n \in Nat : \A c \in Calls : Effort(c) <= n /\ Pulled(c, cap, w) => Told(w, cap, g[c])}
<1>3. ASSUME NEW n \in Nat, NEW c \in Calls, Pulled(c, cap, w), Effort(c) <= n,
             \A d \in Calls : Effort(d) < n /\ Pulled(d, cap, w) => Told(w, cap, g[d])
      PROVE  Told(w, cap, g[c])
  <2>1. CASE PullOn(c, cap)
    <3>1. NextCall(c, cap) \in Calls /\ Effort(NextCall(c, cap)) < Effort(c)
      BY <2>1, NextCallIs
    <3>2. Pulled(NextCall(c, cap), cap, w)
      BY <1>3, <2>1, PulledOn
    <3>3. g[c] = g[NextCall(c, cap)]
      BY <1>1, <2>1, Zenon DEF Pulling
    <3>4. Effort(NextCall(c, cap)) \in Nat /\ Effort(c) \in Nat
      BY <3>1, NextCallIs
    <3>5. Effort(NextCall(c, cap)) < n
      BY <1>3, <3>1, <3>4
    <3>6. Told(w, cap, g[NextCall(c, cap)])
      BY <1>3, <3>1, <3>2, <3>5, Zenon
    <3>7. QED
      BY <3>3, <3>6, Zenon
  <2>2. CASE ~ PullOn(c, cap)
    <3>1. g[c] = LastCall(c, cap)
      BY <1>1, <2>2, Zenon DEF Pulling
    <3>2. QED
      BY <1>3, <2>2, <3>1, PulledTells
  <2>3. QED
    BY <2>1, <2>2
<1>4. 0 \in T
  <2>1. ASSUME NEW c \in Calls, Effort(c) <= 0, Pulled(c, cap, w)
        PROVE  Told(w, cap, g[c])
    <3>1. \A d \in Calls : ~ (Effort(d) < 0)
      <4>1. \A d \in Calls : Effort(d) \in Nat
        BY NextCallIs
      <4>2. QED
        BY <4>1
    <3>2. QED
      BY <1>3, <2>1, <3>1
  <2>2. QED
    BY <2>1
<1>5. ASSUME NEW n \in Nat, n \in T
      PROVE  n + 1 \in T
  <2>1. \A d \in Calls : Effort(d) < n + 1 /\ Pulled(d, cap, w) => Told(w, cap, g[d])
    <3>1. \A d \in Calls : Effort(d) \in Nat
      BY NextCallIs
    <3>2. \A d \in Calls : Effort(d) < n + 1 => Effort(d) <= n
      BY <3>1
    <3>3. QED
      BY <1>5, <3>2
  <2>2. ASSUME NEW c \in Calls, Effort(c) <= n + 1, Pulled(c, cap, w)
        PROVE  Told(w, cap, g[c])
    <3>1. n + 1 \in Nat
      OBVIOUS
    <3>2. QED
      BY <1>3, <2>1, <2>2, <3>1
  <2>3. QED
    BY <2>2
<1>6. \A n \in Nat : n \in T
  <2> HIDE DEF T
  <2>1. QED
    BY <1>4, <1>5, AllNumbers
<1>7. SUFFICES ASSUME NEW c, c = [reader |-> r, text |-> <<>>]
               PROVE  Told(w, cap, o)
  OBVIOUS
<1>8. c \in Calls /\ c.reader = r /\ c.text = <<>>
  <2>1. c.reader = r /\ c.text = <<>>
    BY <1>7
  <2>2. r \in Readers /\ <<>> \in Texts
    BY Nothing DEF SoundReader
  <2>3. QED
    BY <1>7, <2>1, <2>2 DEF Calls
<1>9. Pulled(c, cap, w)
  <2>1. w \in Texts
    BY <1>2, RefillReads
  <2>2. <<>> \o w = w
    BY <2>1, NoText0
  <2>3. Clear(<<>>)
    <3>1. ASSUME NEW e \in Texts, Len(e) = 0
          PROVE  Clear(e)
      <4>1. 1..Len(e) = {}
        BY <3>1
      <4>2. \A i \in 1..Len(e) : e[i] # Newline
        BY <4>1
      <4>3. QED
        BY <4>2, ClearIs
    <3>2. QED
      BY <3>1, Nothing
  <2>4. RoomFor(Len(<<>>), cap)
    <3>1. RoomFor(0, cap)
      BY DEF RoomFor
    <3>2. QED
      BY <3>1, Nothing
  <2>5. ~ LastIs(<<>>, Return)
    BY DEF LastIs
  <2>6. QED
    BY <1>2, <1>8, <2>2, <2>3, <2>4, <2>5, Nothing, Zenon DEF Pulled
<1>10. Told(w, cap, g[c])
  <2>1. Effort(c) \in Nat /\ Effort(c) <= Effort(c)
    BY <1>8, NextCallIs
  <2>2. Effort(c) \in T
    BY <1>6, <2>1
  <2>3. QED
    BY <1>8, <1>9, <2>1, <2>2
<1>11. o = g[c]
  <2>1. r \in Readers
    BY DEF SoundReader
  <2>2. QED
    BY <1>1, <1>7, <2>1, Zenon DEF Pulling
<1>12. QED
  BY <1>10, <1>11

-----------------------------------------------------------------------------
(* The settings file: its lines, and what is made of each.                  *)
LEMMA Marks ==
  /\ {Equals, Blank, Tab, Newline, Return} \subseteq STRING
  /\ Equals \notin {Blank, Tab, Newline, Return}
  /\ Newline \notin {Blank, Tab, Return} /\ Return \notin {Blank, Tab}
  /\ <<Equals>> \in Texts
<1>1. {Equals, Blank, Tab, Newline, Return} \subseteq STRING
  BY NamedMarks, NamedEnds
<1>2. Equals # Blank /\ Equals # Tab /\ Equals # Newline /\ Equals # Return
  BY Zenon DEF Equals, Blank, Tab, Newline, Return
<1>3. Newline # Blank /\ Newline # Tab /\ Newline # Return /\ Return # Blank /\ Return # Tab
  BY Zenon DEF Blank, Tab, Newline, Return
<1>4. QED
  BY <1>1, <1>2, <1>3, OneCharacter

LEMMA FreshReader ==
  ASSUME NEW x \in Texts, NEW e \in Texts, Len(e) = 0, NEW n \in Nat, NEW eof \in BOOLEAN,
         NEW r, r = AReader(x, eof, e, n, e)
  PROVE  /\ r \in Readers
         /\ r.left = x /\ r.eof = eof /\ r.buf = e /\ r.off = n /\ r.save = e
<1>1. Len(e) < B /\ Len(e) <= 1
  BY ReaderAssumption
<1>2. QED
  BY <1>1, ReaderMade

LEMMA MadeReader ==
  ASSUME NEW x \in Texts, NEW r, r = TextFileReader(x)
  PROVE  SoundReader(r) /\ Unread(r) = x
<1>1. r = AReader(x, FALSE, <<>>, 0, <<>>)
  BY Zenon DEF TextFileReader, AReader
<1>2. ASSUME NEW e \in Texts, Len(e) = 0, NEW n \in Nat, NEW eof \in BOOLEAN,
             r = AReader(x, eof, e, n, e)
      PROVE  /\ r \in Readers
             /\ r.left = x /\ r.eof = eof /\ r.buf = e /\ r.off = n /\ r.save = e
  BY <1>2, FreshReader
<1>3. r \in Readers /\ r.left = x /\ r.eof = FALSE /\ r.buf = <<>> /\ r.off = 0 /\ r.save = <<>>
  <2>1. 0 \in Nat /\ FALSE \in BOOLEAN
    OBVIOUS
  <2>2. QED
    BY <1>1, <1>2, <2>1, Nothing, Zenon
<1>4. Rest(r) = <<>>
  <2>1. r.off >= Len(r.buf)
    BY <1>3, Nothing
  <2>2. QED
    BY <1>3, <2>1, RestIs
<1>5. Unread(r) = x
  <2>1. Unread(r) = <<>> \o (<<>> \o x)
    BY <1>3, <1>4, Zenon DEF Unread
  <2>2. <<>> \o x = x
    BY NoText0
  <2>3. QED
    BY <2>1, <2>2
<1>6. SoundReader(r)
  BY <1>3, Zenon DEF SoundReader
<1>7. QED
  BY <1>5, <1>6

(* The blanks before a value.                                               *)
LEMMA ValueIs ==
  ASSUME NEW x \in Texts
  PROVE  /\ Value(x) \in Texts
         /\ Value(x) = x <=> (x # <<>> => x[1] \notin {Blank, Tab})
<1> DEFINE ink == {i \in 1..Len(x) : x[i] \notin {Blank, Tab}}
           i == CHOOSE k \in ink : \A j \in ink : k <= j
           v == IF ink = {} THEN <<>> ELSE From(x, i)
<1>0. Value(x) = v
  <2>1. DOMAIN x = 1..Len(x)
    BY DEF Texts
  <2>2. QED
    BY <2>1 DEF Value
<1>1. /\ ink = {k \in 1..Len(x) : x[k] \notin {Blank, Tab}}
      /\ i = CHOOSE k \in ink : \A j \in ink : k <= j
      /\ v = IF ink = {} THEN <<>> ELSE From(x, i)
  OBVIOUS
<1> HIDE DEF ink, i, v
<1> SUFFICES /\ v \in Texts
             /\ v = x <=> (x # <<>> => x[1] \notin {Blank, Tab})
  BY <1>0, Zenon
<1>2. Len(x) \in Nat /\ (Len(x) = 0 <=> x = <<>>)
  BY NoText0
<1>3. CASE ink = {}
  <2>1. v = <<>>
    BY <1>1, <1>3
  <2>2. x # <<>> => x[1] \in {Blank, Tab}
    <3>1. x # <<>> => 1 \in 1..Len(x)
      BY <1>2
    <3>2. QED
      BY <1>1, <1>3, <3>1
  <2>3. QED
    BY <2>1, <2>2, Nothing
<1>4. CASE ink # {}
  <2>1. v = From(x, i)
    BY <1>1, <1>4
  <2>2. i \in ink /\ \A j \in ink : i <= j
    <3>1. ink \in SUBSET Nat
      BY <1>1
    <3>2. \E k \in ink : \A j \in ink : k <= j
      BY <1>4, <3>1, LeastNumber
    <3>3. QED
      BY <1>1, <3>2, Zenon
  <2>3. i \in 1..Len(x) /\ x[i] \notin {Blank, Tab} /\ i \in Nat /\ i > 0 /\ i <= Len(x) + 1
    BY <1>1, <1>2, <2>2
  <2>4. v \in Texts /\ Len(v) = Len(x) - i + 1
    BY <2>1, <2>3, PartsAt
  <2>5. x # <<>>
    <3>1. Len(x) # 0
      BY <1>2, <2>3
    <3>2. QED
      BY <1>2, <3>1
  <2>6. CASE i = 1
    <3>1. v = x
      <4>1. 0 \in Nat /\ 0 <= Len(x) /\ 0 + 1 = 1
        BY <1>2
      <4>2. \A n \in Nat : n = 0 => (n <= Len(x) => From(x, n + 1) = x)
        BY TextCutIs
      <4>3. From(x, 0 + 1) = x
        BY <4>1, <4>2
      <4>4. QED
        BY <2>1, <2>6, <4>1, <4>3
    <3>2. QED
      BY <2>3, <2>4, <2>6, <3>1
  <2>7. CASE i # 1
    <3>1. Len(v) # Len(x)
      BY <1>2, <2>3, <2>4, <2>7
    <3>2. 1 \notin ink /\ 1 \in 1..Len(x)
      BY <1>2, <2>2, <2>3, <2>7
    <3>3. x[1] \in {Blank, Tab}
      BY <1>1, <3>2
    <3>4. QED
      BY <2>4, <2>5, <3>1, <3>3
  <2>8. QED
    BY <2>6, <2>7
<1>5. QED
  BY <1>3, <1>4, Zenon

LEMMA ValuePart ==
  ASSUME NEW x \in Texts, NEW y \in Texts, IsPrefix(x, y), Value(y) = y
  PROVE  Value(x) = x
<1>1. Len(x) <= Len(y) /\ \A i \in 1..Len(x) : x[i] = y[i]
  BY PrefixIs
<1>2. ASSUME x # <<>>
      PROVE  x[1] \notin {Blank, Tab}
  <2>1. Len(x) \in Nat /\ Len(y) \in Nat /\ Len(x) # 0
    BY <1>2, NoText0
  <2>2. 1 \in 1..Len(x) /\ Len(y) # 0
    BY <1>1, <2>1
  <2>3. x[1] = y[1]
    BY <1>1, <2>2
  <2>4. y # <<>>
    BY <2>2, Nothing
  <2>5. QED
    BY <2>3, <2>4, ValueIs
<1>3. QED
  BY <1>2, ValueIs

(* The items there may be, and a line without its end.                      *)
Settings == [key : Texts, value : Texts]

KeyValue(it) == it.key \o (<<Equals>> \o it.value)

LEMMA KeyValueIs ==
  ASSUME NEW it \in Settings
  PROVE  /\ it.key \in Texts /\ it.value \in Texts /\ it = Item(it.key, it.value)
         /\ Len(it.key) \in Nat /\ Len(it.value) \in Nat
         /\ <<Equals>> \o it.value \in Texts /\ Len(<<Equals>> \o it.value) = Len(it.value) + 1
         /\ KeyValue(it) \in Texts /\ Len(KeyValue(it)) = Len(it.key) + Len(it.value) + 1
<1>1. it.key \in Texts /\ it.value \in Texts /\ it = Item(it.key, it.value)
  BY DEF Settings, Item
<1>2. SUFFICES ASSUME NEW k \in Texts, k = it.key, NEW v \in Texts, v = it.value, NEW e, e = <<Equals>>
               PROVE  /\ Len(k) \in Nat /\ Len(v) \in Nat
                      /\ e \o v \in Texts /\ Len(e \o v) = Len(v) + 1
                      /\ k \o (e \o v) \in Texts /\ Len(k \o (e \o v)) = Len(k) + Len(v) + 1
  BY <1>1, Zenon DEF KeyValue
<1>3. e \in Texts /\ Len(e) = 1
  BY <1>2, Marks
<1>4. e \o v \in Texts /\ Len(e \o v) = Len(e) + Len(v) /\ Len(k) \in Nat /\ Len(v) \in Nat
  BY <1>3, TextsJoin, NoText0
<1>5. k \o (e \o v) \in Texts /\ Len(k \o (e \o v)) = Len(k) + Len(e \o v)
  BY <1>4, TextsJoin
<1>6. QED
  BY <1>3, <1>4, <1>5

LEMMA LineHas ==
  ASSUME NEW it \in Settings
  PROVE  /\ Line(it) \in Texts
         /\ Clean(it) => Line(it) = (KeyValue(it) \o <<Return>>) \o <<Newline>>
<1>1. /\ it.key \in Texts /\ it.value \in Texts
      /\ Len(it.key) \in Nat /\ Len(it.value) \in Nat
      /\ <<Equals>> \o it.value \in Texts
      /\ KeyValue(it) \in Texts /\ Len(KeyValue(it)) = Len(it.key) + Len(it.value) + 1
  BY KeyValueIs
<1>2. SUFFICES ASSUME NEW k, k = it.key, NEW v, v = it.value, NEW a, a = KeyValue(it),
                      NEW e, e = <<Equals>>, NEW c, c = <<Return>>, NEW n, n = <<Newline>>,
                      NEW b, b = <<Return, Newline>>,
                      NEW line, line = k \o e \o v \o b
               PROVE  /\ Line(it) \in Texts
                      /\ Clean(it) => Line(it) = (a \o c) \o n
  BY Zenon
<1>3. /\ k \in Texts /\ v \in Texts /\ e \in Texts /\ c \in Texts /\ n \in Texts
      /\ a \in Texts /\ Len(a) = Len(k) + Len(v) + 1 /\ Len(k) \in Nat /\ Len(v) \in Nat
  BY <1>1, <1>2, Marks, Characters
<1>4. b = c \o n
  BY <1>2
<1>5. b \in Texts /\ Len(b) = 2
  <2>1. b \in Texts
    BY <1>3, <1>4, TextsJoin
  <2>2. QED
    BY <1>2, <2>1
<1>6. a = (k \o e) \o v
  <2>1. a = k \o (e \o v)
    BY <1>2, Zenon DEF KeyValue
  <2>2. k \in Texts /\ e \in Texts /\ v \in Texts
    BY <1>3
  <2>3. (k \o e) \o v = k \o (e \o v)
    BY <2>2, TextsAssociate
  <2>4. QED
    BY <2>1, <2>3, Zenon
<1>7. line = a \o b /\ line \in Texts /\ Len(line) = Len(k) + Len(v) + 3
  <2>1. line = a \o b
    BY <1>2, <1>6, Zenon
  <2>2. a \o b \in Texts /\ Len(a \o b) = Len(a) + Len(b)
    BY <1>3, <1>5, TextsJoin
  <2>3. QED
    BY <1>3, <1>5, <2>1, <2>2
<1>8. line = (a \o c) \o n
  <2>1. (a \o c) \o n = a \o (c \o n)
    BY <1>3, TextsAssociate
  <2>2. QED
    BY <1>4, <1>7, <2>1
<1>9. Line(it) = SubSeq(line, 1, Least(Len(line), Room - 2))
  BY <1>2, Zenon DEF Line
<1>10. Room \in Nat /\ Room > 5
  BY ConfigAssumption
<1>11. ASSUME NEW l, l = Least(Len(line), Room - 2)
       PROVE  /\ SubSeq(line, 1, l) \in Texts
              /\ Len(k) + Len(v) + 3 <= Room - 2 => SubSeq(line, 1, l) = line
  <2>1. Len(line) \in Nat
    BY <1>7, NoText0
  <2>2. l \in Nat /\ l <= Len(line) /\ (Len(line) <= Room - 2 => l = Len(line))
    BY <1>10, <1>11, <2>1 DEF Least
  <2>3. /\ SubSeq(line, 1, l) \in Texts
        /\ l = Len(line) => SubSeq(line, 1, l) = line
    BY <1>7, <2>2, TextCutIs
  <2>4. QED
    BY <1>7, <2>2, <2>3
<1>12. Clean(it) => Len(k) + Len(v) + 3 <= Room - 2
  <2>1. Clean(it) => Len(k \o v) + 3 <= Room - 2
    BY <1>2 DEF Clean
  <2>2. Len(k \o v) = Len(k) + Len(v)
    BY <1>3, TextsJoin
  <2>3. QED
    BY <2>1, <2>2
<1>13. QED
  BY <1>8, <1>9, <1>11, <1>12, Zenon

(* What the beginning of a clean line is parsed into: nothing before the    *)
(* equals sign, and behind it the key and the beginning of the value.       *)
LEMMA ParsedIs ==
  ASSUME NEW it \in Settings, Clean(it), NEW t \in Texts, IsPrefix(t, KeyValue(it)),
         NEW n, n = Len(it.key)
  PROVE  /\ Len(t) > n => /\ Parsed(t) = <<Item(it.key, From(t, n + 2))>>
                          /\ From(t, n + 2) \in Texts
                          /\ IsPrefix(From(t, n + 2), it.value)
                          /\ Delimiter(t) = n + 1
         /\ t = KeyValue(it) => Len(t) > n /\ Parsed(t) = <<it>>
         /\ Len(t) <= n /\ ~ Has(it.key, <<Blank>>) /\ ~ Has(it.key, <<Tab>>) => Parsed(t) = <<>> /\ Delimiter(t) = 0
<1>1. /\ it.key \in Texts /\ it.value \in Texts /\ it = Item(it.key, it.value)
      /\ n \in Nat /\ Len(it.value) \in Nat
      /\ <<Equals>> \o it.value \in Texts
      /\ KeyValue(it) \in Texts /\ Len(KeyValue(it)) = n + Len(it.value) + 1
  BY KeyValueIs
<1>2. /\ ~ Has(it.key, <<Equals>>)
      /\ it.value = Value(it.value)
      /\ Len(it.key \o it.value) + 3 <= Room - 2
  BY DEF Clean
<1>3. SUFFICES ASSUME NEW k, k = it.key, NEW v, v = it.value, NEW e, e = <<Equals>>, NEW a, a = KeyValue(it)
               PROVE  /\ Len(t) > n => /\ Parsed(t) = <<Item(k, From(t, n + 2))>>
                                       /\ From(t, n + 2) \in Texts
                                       /\ IsPrefix(From(t, n + 2), v)
                                       /\ Delimiter(t) = n + 1
                      /\ t = a => Len(t) > n /\ Parsed(t) = <<it>>
                      /\ Len(t) <= n /\ ~ Has(k, <<Blank>>) /\ ~ Has(k, <<Tab>>) => Parsed(t) = <<>> /\ Delimiter(t) = 0
  BY Zenon
<1>4. /\ k \in Texts /\ v \in Texts /\ e \in Texts /\ e \o v \in Texts /\ a \in Texts /\ n = Len(k)
      /\ Len(e) = 1 /\ a = k \o (e \o v) /\ Len(t) \in Nat
  BY <1>1, <1>3, Marks, NoText0 DEF KeyValue
<1>5. n + 1 < Room - 1 /\ Room \in Nat /\ Len(a) < Room - 1
  <2>1. Len(k \o v) = n + Len(v) /\ Len(v) \in Nat
    BY <1>4, TextsJoin, NoText0
  <2>2. Room \in Nat
    BY ConfigAssumption
  <2>3. Len(k \o v) + 3 <= Room - 2 /\ n \in Nat
    BY <1>1, <1>2, <1>3, Zenon
  <2>4. n + Len(v) + 3 <= Room - 2
    BY <2>1, <2>3, Zenon
  <2>5. Len(a) = n + Len(v) + 1
    BY <1>1, <1>3, Zenon
  <2>6. QED
    BY <2>1, <2>2, <2>3, <2>4, <2>5
<1>6. IsPrefix(t, k \o (e \o v))
  BY <1>3, <1>4
<1>7. ASSUME Len(t) <= n, ~ Has(k, <<Blank>>), ~ Has(k, <<Tab>>)
      PROVE  Parsed(t) = <<>> /\ Delimiter(t) = 0
  <2>1. IsPrefix(t, k)
    BY <1>4, <1>6, <1>7, PrefixOfTwo
  <2>2. ~ Has(t, <<Equals>>) /\ ~ Has(t, <<Blank>>) /\ ~ Has(t, <<Tab>>)
    BY <1>2, <1>3, <1>4, <1>7, <2>1, LacksToo, Marks
  <2>3. strstr(t, <<Tab>>) = 0
    BY <2>2, HasIs, Marks
  <2>4. Delimiter(t) = 0
    BY <2>2, <2>3, Zenon DEF Delimiter
  <2>5. QED
    BY <2>4, Zenon DEF Parsed
<1>8. ASSUME Len(t) > n, NEW u, u = From(t, n + 2)
      PROVE  /\ Parsed(t) = <<Item(k, u)>> /\ u \in Texts /\ IsPrefix(u, v) /\ (t = a => u = v)
             /\ Delimiter(t) = n + 1
  <2>1. SUFFICES ASSUME NEW w, w = From(t, n + 1)
                 PROVE  /\ Parsed(t) = <<Item(k, u)>> /\ u \in Texts /\ IsPrefix(u, v) /\ (t = a => u = v)
                        /\ Delimiter(t) = n + 1
    OBVIOUS
  <2>2. t = k \o w /\ w \in Texts /\ Len(w) = Len(t) - n /\ IsPrefix(w, e \o v)
    <3>1. Len(t) >= Len(k)
      BY <1>1, <1>4, <1>8
    <3>2. QED
      BY <1>4, <1>6, <2>1, <3>1, PrefixOfTwo, ZenonT(40)
  <2>3. /\ w = e \o From(w, Len(e) + 1)
        /\ From(w, Len(e) + 1) \in Texts
        /\ IsPrefix(From(w, Len(e) + 1), v)
    <3>1. Len(w) >= Len(e)
      BY <1>1, <1>4, <1>8, <2>2
    <3>2. QED
      BY <1>4, <2>2, <3>1, PrefixOfTwo
  <2>4. u = From(w, Len(e) + 1)
    <3>1. 2 \in 1..Len(w) + 1 /\ Len(k) + 2 = n + 2 /\ Len(e) + 1 = 2
      BY <1>1, <1>4, <1>8, <2>2
    <3>2. From(k \o w, Len(k) + 2) = From(w, 2)
      BY <1>4, <2>2, <3>1, JoinParts
    <3>3. QED
      BY <1>4, <1>8, <2>2, <3>1, <3>2
  <2>5. u \in Texts /\ IsPrefix(u, v) /\ w = e \o u
    BY <2>3, <2>4
  <2>6. strstr(t, <<Equals>>) = n + 1
    <3>1. FirstPlace(1, e \o u, Equals)
      <4>1. e[1] = Equals
        BY <1>3
      <4>2. e \o u \in Texts /\ Len(e \o u) = Len(e) + Len(u) /\ Len(u) \in Nat /\ (e \o u)[1] = e[1]
        <5>1. 1 \in 1..Len(e) /\ e \in Texts /\ u \in Texts
          BY <1>4, <2>5
        <5>2. /\ e \o u \in Texts /\ Len(e \o u) = Len(e) + Len(u) /\ Len(u) \in Nat
              /\ \A i \in 1..Len(e) : (e \o u)[i] = e[i]
          BY <5>1, JoinIs
        <5>3. QED
          BY <5>1, <5>2, Zenon
      <4>3. QED
        BY <1>4, <4>1, <4>2 DEF FirstPlace
    <3>2. strstr(e \o u, <<Equals>>) = 1
      BY <1>4, <2>2, <2>5, <3>1, Marks, MarkAt
    <3>3. strstr(k, <<Equals>>) = 0
      BY <1>2, <1>3, <1>4, HasIs, Marks
    <3>4. k \in Texts /\ w \in Texts /\ Equals \in STRING /\ strstr(w, <<Equals>>) = 1
      BY <1>4, <2>2, <2>5, <3>2, Marks
    <3>5. strstr(w, <<Equals>>) > 0
      BY <3>4
    <3>6. strstr(k \o w, <<Equals>>) = Len(k) + strstr(w, <<Equals>>)
      BY <3>3, <3>4, <3>5, MarkJoin
    <3>7. QED
      BY <1>4, <2>2, <3>4, <3>6, Zenon
  <2>7. Delimiter(t) = n + 1
    <3>1. Has(t, <<Equals>>)
      BY <1>1, <2>6 DEF Has
    <3>2. QED
      BY <2>6, <3>1, Zenon DEF Delimiter
  <2>8. Before(t, n + 1) = k
    <3>1. 1 \in 1..Len(w) + 1 /\ n + 1 = Len(k) + 1 /\ n + 1 \in 1..Len(k) + 1
      BY <1>1, <1>4, <1>8, <2>2
    <3>2. Before(k \o w, n + 1) = Before(k, n + 1)
      BY <1>4, <2>2, <3>1, JoinParts
    <3>3. Before(k, Len(k) + 1) = k
      <4>1. n \in Nat /\ n <= Len(k)
        BY <1>1, <1>4
      <4>2. Before(k, n + 1) = SubSeq(k, 1, n) /\ (n = Len(k) => SubSeq(k, 1, n) = k)
        BY <1>4, <4>1, TextCutIs
      <4>3. QED
        BY <1>4, <4>2
    <3>4. QED
      BY <1>4, <2>2, <3>2, <3>3
  <2>9. Value(u) = u
    BY <1>2, <1>3, <1>4, <2>5, ValuePart
  <2>10. Parsed(t) = <<Item(k, u)>>
    <3>1. n + 1 = 0 \/ n + 1 >= Room - 1 \/ Len(t) >= Room - 1
            \/ Parsed(t) = <<Item(Before(t, n + 1), Value(From(t, (n + 1) + 1)))>>
      BY <2>7, Zenon DEF Parsed
    <3>2. ~ (n + 1 = 0 \/ n + 1 >= Room - 1) /\ (n + 1) + 1 = n + 2
      BY <1>1, <1>5
    <3>3. ~ (Len(t) >= Room - 1)
      <4>1. Len(t) <= Len(a)
        BY <1>3, <1>4, PrefixIs
      <4>2. Len(t) \in Nat /\ Len(a) \in Nat
        BY <1>4, NoText0
      <4>3. QED
        BY <1>5, <4>1, <4>2
    <3>4. QED
      BY <1>8, <2>8, <2>9, <3>1, <3>2, <3>3, Zenon
  <2>11. ASSUME t = a
         PROVE  u = v
    <3>1. Len(t) = n + Len(v) + 1
      BY <1>1, <1>3, <2>11
    <3>2. Len(w) = 1 + Len(u) /\ Len(u) \in Nat /\ Len(v) \in Nat
      <4>1. e \in Texts /\ u \in Texts /\ v \in Texts
        BY <1>4, <2>5
      <4>2. Len(e \o u) = Len(e) + Len(u) /\ Len(u) \in Nat /\ Len(v) \in Nat
        BY <4>1, TextsJoin, NoText0
      <4>3. QED
        BY <1>4, <2>5, <4>2, Zenon
    <3>3. Len(u) = Len(v)
      BY <1>1, <2>2, <3>1, <3>2
    <3>4. QED
      BY <1>4, <2>5, <3>3, PrefixAfter
  <2>12. QED
    BY <2>5, <2>7, <2>10, <2>11
<1>9. ASSUME t = a
      PROVE  Len(t) > n /\ Parsed(t) = <<it>>
  <2>1. Len(t) > n
    <3>1. Len(t) = n + Len(it.value) + 1 /\ n \in Nat /\ Len(it.value) \in Nat
      BY <1>1, <1>3, <1>9, Zenon
    <3>2. \A b, c \in Nat : b + c + 1 > b
      OBVIOUS
    <3>3. n + Len(it.value) + 1 > n
      BY <3>1, <3>2, Zenon
    <3>4. QED
      BY <3>1, <3>3, Zenon
  <2>2. Parsed(t) = <<Item(k, v)>>
    BY <1>8, <1>9, <2>1
  <2>3. it = Item(k, v)
    BY <1>1, <1>3, Zenon
  <2>4. QED
    BY <2>1, <2>2, <2>3, Zenon
<1>10. QED
  BY <1>7, <1>8, <1>9

(* Settings whose parts their fields hold, with the zeros behind them.      *)
InFields(it) == Len(it.key) < KeySize /\ Len(it.value) < ValueSize

(* What the beginning of its line is parsed into is in its fields, too.     *)
LEMMA BeginningInFields ==
  ASSUME NEW it \in Settings, Clean(it), InFields(it), NEW t \in Texts, IsPrefix(t, KeyValue(it)),
         \/ t = KeyValue(it)
         \/ ~ Has(it.key, <<Blank>>) /\ ~ Has(it.key, <<Tab>>)
  PROVE  ~ Overlong(t)
<1>1. SUFFICES ASSUME NEW n, n = Len(it.key), NEW p, p = Parsed(t)
               PROVE  ~ Overlong(t)
  OBVIOUS
<1>2. /\ Len(t) > n => /\ p = <<Item(it.key, From(t, n + 2))>>
                       /\ From(t, n + 2) \in Texts /\ IsPrefix(From(t, n + 2), it.value)
                       /\ Delimiter(t) = n + 1
      /\ t = KeyValue(it) => Len(t) > n
      /\ Len(t) <= n /\ ~ Has(it.key, <<Blank>>) /\ ~ Has(it.key, <<Tab>>) => p = <<>> /\ Delimiter(t) = 0
  BY <1>1, ParsedIs
<1>3. /\ n \in Nat /\ Len(it.value) \in Nat /\ it.value \in Texts /\ Len(t) \in Nat
      /\ KeySize \in Nat /\ ValueSize \in Nat /\ n < KeySize /\ Len(it.value) < ValueSize
  BY <1>1, KeyValueIs, NoText0, ConfigAssumption DEF InFields
<1>4. CASE Len(t) > n
  <2>1. SUFFICES ASSUME NEW u, u = From(t, n + 2)
                 PROVE  ~ Overlong(t)
    OBVIOUS
  <2>2. ~ (Delimiter(t) > KeySize)
    BY <1>2, <1>3, <1>4
  <2>3. ~ (Len(u) >= ValueSize)
    <3>1. u \in Texts /\ IsPrefix(u, it.value)
      BY <1>2, <1>4, <2>1
    <3>2. Len(u) \in Nat /\ Len(u) <= Len(it.value)
      BY <1>3, <3>1, PrefixIs, NoText0
    <3>3. QED
      BY <1>3, <3>2
  <2>4. \A i \in DOMAIN p : p[i].value = u
    BY <1>2, <1>4, <2>1 DEF Item
  <2>5. QED
    BY <1>1, <2>2, <2>3, <2>4, Zenon DEF Overlong
<1>5. CASE ~ (Len(t) > n)
  <2>1. p = <<>> /\ Delimiter(t) = 0
    <3>1. Len(t) <= n
      BY <1>3, <1>5
    <3>2. QED
      BY <1>2, <1>5, <3>1, Zenon
  <2>2. ~ (Delimiter(t) > KeySize)
    BY <1>3, <2>1
  <2>3. \A i \in DOMAIN p : FALSE
    BY <2>1
  <2>4. QED
    BY <1>1, <2>2, <2>3, Zenon DEF Overlong
<1>6. QED
  BY <1>4, <1>5

LEMMA LineClear ==
  ASSUME NEW it \in Settings, Clean(it), NEW a, a = KeyValue(it), NEW l, l = a \o <<Return>>
  PROVE  /\ Clear(l) /\ Plain(l) = a
         /\ Len(a) \in Nat /\ l \in Texts /\ Len(l) = Len(a) + 1 /\ Len(l) + 3 <= Room
<1>1. /\ KeyValue(it) \in Texts /\ Len(KeyValue(it)) = Len(it.key) + Len(it.value) + 1
      /\ Len(it.key) \in Nat /\ Len(it.value) \in Nat /\ it.key \in Texts /\ it.value \in Texts
  BY KeyValueIs
<1>2. SUFFICES ASSUME NEW c, c = <<Return>>, NEW n, n = <<Newline>>
               PROVE  /\ Clear(l) /\ Plain(l) = a
                      /\ Len(a) \in Nat /\ l \in Texts /\ Len(l) = Len(a) + 1 /\ Len(l) + 3 <= Room
  OBVIOUS
<1>3. a \in Texts /\ c \in Texts /\ n \in Texts /\ l \in Texts /\ Len(c) = 1 /\ l = a \o c
  <2>1. a \in Texts /\ c \in Texts /\ n \in Texts /\ Len(c) = 1
    BY <1>1, <1>2, Characters, OneReturn
  <2>2. QED
    BY <1>2, <2>1, TextsJoin
<1>4. Clear(l)
  <2>1. ~ Has(it.key, n) /\ ~ Has(it.value, n)
    BY <1>2 DEF Clean
  <2>2. Clear(it.key) /\ Clear(it.value)
    BY <1>1, <1>2, <2>1, HasIs, Characters DEF Clear
  <2>3. \A x \in STRING : x # Newline => Clear(<<x>>)
    <3>1. ASSUME NEW x \in STRING, x # Newline, NEW y, y = <<x>>
          PROVE  Clear(y)
      <4>1. y \in Texts
        BY <3>1, OneCharacter
      <4>2. Len(y) = 1 /\ y[1] = x
        BY <3>1
      <4>3. \A i \in 1..Len(y) : i = 1
        BY <4>2
      <4>4. \A i \in 1..Len(y) : y[i] # Newline
        BY <3>1, <4>2, <4>3, Zenon
      <4>5. QED
        BY <4>1, <4>4, ClearIs
    <3>2. QED
      BY <3>1
  <2>4. Clear(<<Equals>>) /\ Clear(c)
    BY <1>2, <2>3, Marks
  <2>5. Clear(<<Equals>> \o it.value) /\ <<Equals>> \o it.value \in Texts
    BY <1>1, <2>2, <2>4, ClearJoins, Marks, TextsJoin
  <2>6. Clear(a)
    BY <1>1, <1>2, <2>2, <2>5, ClearJoins DEF KeyValue
  <2>7. QED
    BY <1>2, <1>3, <2>4, <2>6, ClearJoins
<1>5. Plain(l) = a
  <2>1. LastIs(c, Return) /\ Plain(c) = <<>> /\ c # <<>>
    <3>1. LastIs(c, Return) /\ c # <<>>
      BY <1>2, OneReturn
    <3>2. Len(Plain(c)) = 0 /\ Plain(c) \in Texts
      BY <1>3, <3>1, PlainIs
    <3>3. QED
      BY <3>1, <3>2, NoText0
  <2>2. Plain(a \o c) = a \o Plain(c)
    BY <1>3, <2>1, PlainJoins
  <2>3. a \o <<>> = a
    BY <1>3, NoText0
  <2>4. QED
    BY <1>3, <2>1, <2>2, <2>3, Zenon
<1>6. Len(a) \in Nat /\ Len(l) = Len(a) + 1
  BY <1>3, TextsJoin, NoText0
<1>7. Len(l) + 3 <= Room
  <2>1. Len(it.key \o it.value) + 3 <= Room - 2 /\ Len(it.key \o it.value) = Len(it.key) + Len(it.value)
    BY <1>1, TextsJoin DEF Clean
  <2>2. Room \in Nat
    BY ConfigAssumption
  <2>3. Len(it.key) + Len(it.value) + 3 <= Room - 2 /\ Len(l) = Len(it.key) + Len(it.value) + 1 + 1
    BY <1>1, <1>6, <2>1, Zenon
  <2>4. \A x, y \in Nat : x + y + 3 <= Room - 2 => (x + y + 1 + 1) + 3 <= Room
    BY <2>2
  <2>5. QED
    BY <1>1, <2>3, <2>4, Zenon
<1>8. QED
  BY <1>3, <1>4, <1>5, <1>6, <1>7

(* The next line of the file is a setting.                                  *)
LEMMA SettingRead ==
  ASSUME NEW r, SoundReader(r), NEW it \in Settings, Clean(it), NEW u \in Texts,
         Unread(r) = Line(it) \o u, NEW o, o = TextFileReader_GetLine(r, Room)
  PROVE  /\ o.ret = 1 /\ SoundReader(o.reader) /\ Unread(o.reader) = u /\ Parsed(o.text) = <<it>>
         /\ InFields(it) => ~ Overlong(o.text)
<1>1. /\ KeyValue(it) \in Texts /\ Len(KeyValue(it)) = Len(it.key) + Len(it.value) + 1
      /\ Len(it.key) \in Nat /\ Len(it.value) \in Nat /\ it.key \in Texts /\ it.value \in Texts
      /\ Line(it) = (KeyValue(it) \o <<Return>>) \o <<Newline>>
  BY KeyValueIs, LineHas
<1>2. SUFFICES ASSUME NEW a, a = KeyValue(it), NEW c, c = <<Return>>, NEW n, n = <<Newline>>,
                      NEW l, l = a \o c, NEW w, w = Unread(r), NEW k, k = Len(l) + 1
               PROVE  /\ o.ret = 1 /\ SoundReader(o.reader) /\ Unread(o.reader) = u /\ Parsed(o.text) = <<it>>
                      /\ InFields(it) => ~ Overlong(o.text)
  OBVIOUS
<1>3. a \in Texts /\ c \in Texts /\ n \in Texts /\ l \in Texts /\ Len(l) \in Nat /\ Len(c) = 1
  <2>1. a \in Texts /\ c \in Texts /\ n \in Texts /\ Len(c) = 1
    BY <1>1, <1>2, Characters, OneReturn
  <2>2. QED
    BY <1>2, <2>1, TextsJoin, NoText0
<1>4. w = l \o (n \o u) /\ w \in Texts
  <2>1. w = (l \o n) \o u
    BY <1>1, <1>2
  <2>2. (l \o n) \o u = l \o (n \o u)
    BY <1>3, TextsAssociate
  <2>3. w \in Texts
    BY <1>2, RefillReads
  <2>4. QED
    BY <2>1, <2>2, <2>3
<1>5. Clear(l) /\ Plain(l) = a
  BY <1>2, LineClear
<1>6. /\ strstr(w, <<Newline>>) = k
      /\ Before(w, k) = l
      /\ From(w, k + 1) = u
  <2>1. w = l \o (<<Newline>> \o u)
    BY <1>2, <1>4
  <2>2. /\ strstr(w, <<Newline>>) = Len(l) + 1
        /\ Before(w, Len(l) + 1) = l
        /\ From(w, (Len(l) + 1) + 1) = u
    BY <1>3, <1>5, <2>1, LineOf
  <2>3. QED
    BY <1>2, <2>2, Zenon
<1>7. Plain(l) = a
  BY <1>5
<1>8. RoomFor(k - 1, Room) /\ k > 0 /\ k # 0
  <2>1. Len(l) + 3 <= Room
    BY <1>2, LineClear
  <2>2. Room \in Nat
    BY ConfigAssumption
  <2>3. k - 1 < Room /\ k > 0 /\ k # 0
    BY <1>2, <1>3, <2>1, <2>2
  <2>4. QED
    BY <2>3, Zenon DEF RoomFor
<1>9. Told(w, Room, o)
  <2>1. Room \in Nat
    BY ConfigAssumption
  <2>2. QED
    BY <1>2, <2>1, GetLineIs
<1>10. LineTold(w, k, Room, o)
  BY <1>6, <1>8, <1>9, Zenon DEF Told
<1>11. o.ret = 1 /\ o.text = a /\ SoundReader(o.reader) /\ Unread(o.reader) = u
  BY <1>6, <1>7, <1>8, <1>10, Zenon DEF LineTold
<1>12. Parsed(a) = <<it>> /\ (InFields(it) => ~ Overlong(a))
  <2>1. IsPrefix(a, KeyValue(it)) /\ a = KeyValue(it)
    BY <1>2, <1>3, PrefixJoins
  <2>2. Parsed(a) = <<it>>
    BY <1>3, <2>1, ParsedIs
  <2>3. InFields(it) => ~ Overlong(a)
    BY <1>3, <2>1, BeginningInFields
  <2>4. QED
    BY <2>2, <2>3
<1>13. QED
  BY <1>11, <1>12

(* The file ends inside the line of a setting.                              *)
LEMMA SettingCut ==
  ASSUME NEW r, SoundReader(r), NEW it \in Settings, Clean(it),
         ~ Has(it.key, <<Blank>>), ~ Has(it.key, <<Tab>>),
         NEW w, w = Unread(r), IsPrefix(w, Line(it)), Len(w) < Len(Line(it)),
         NEW o, o = TextFileReader_GetLine(r, Room)
  PROVE  /\ o.ret > 0 => SoundReader(o.reader) /\ Unread(o.reader) = <<>>
         /\ Parsed(o.text) = <<>> \/ \E v \in Texts : IsPrefix(v, it.value) /\ Parsed(o.text) = <<Item(it.key, v)>>
         /\ w = <<>> => ~ (o.ret > 0)
         /\ InFields(it) => ~ Overlong(o.text)
<1>1. /\ KeyValue(it) \in Texts /\ Len(KeyValue(it)) = Len(it.key) + Len(it.value) + 1
      /\ Len(it.key) \in Nat /\ Len(it.value) \in Nat /\ it.key \in Texts /\ it.value \in Texts
      /\ Line(it) = (KeyValue(it) \o <<Return>>) \o <<Newline>>
  BY KeyValueIs, LineHas
<1>2. SUFFICES ASSUME NEW a, a = KeyValue(it), NEW c, c = <<Return>>, NEW n, n = <<Newline>>,
                      NEW l, l = a \o c, NEW t, t = o.text
               PROVE  /\ o.ret > 0 => SoundReader(o.reader) /\ Unread(o.reader) = <<>>
                      /\ Parsed(t) = <<>> \/ \E v \in Texts : IsPrefix(v, it.value) /\ Parsed(t) = <<Item(it.key, v)>>
                      /\ w = <<>> => ~ (o.ret > 0)
                      /\ InFields(it) => ~ Overlong(t)
  OBVIOUS
<1>3. a \in Texts /\ c \in Texts /\ n \in Texts /\ l \in Texts /\ Len(l) \in Nat /\ Len(c) = 1 /\ Len(n) = 1
  <2>1. a \in Texts /\ c \in Texts /\ n \in Texts /\ Len(c) = 1 /\ Len(n) = 1
    BY <1>1, <1>2, Characters, OneReturn
  <2>2. QED
    BY <1>2, <2>1, TextsJoin, NoText0
<1>4. w \in Texts /\ Len(w) \in Nat
  BY RefillReads, NoText0

<1>5. Clear(l) /\ Plain(l) = a /\ Len(a) \in Nat /\ Len(l) = Len(a) + 1 /\ Len(l) + 3 <= Room
  BY <1>2, LineClear
<1>6. IsPrefix(w, l) /\ Len(w) <= Len(l)
  <2>1. Line(it) = l \o n /\ Len(l \o n) = Len(l) + Len(n)
    BY <1>1, <1>2, <1>3, TextsJoin
  <2>2. Len(w) <= Len(l) /\ IsPrefix(w, l \o n)
    BY <1>3, <1>4, <2>1
  <2>3. QED
    BY <1>3, <1>4, <2>2, PrefixOfTwo
<1>7. EndTold(w, Room, o) /\ t \in Texts
  <2>1. Room \in Nat
    BY ConfigAssumption
  <2>2. Told(w, Room, o)
    BY <2>1, GetLineIs
  <2>3. strstr(w, <<Newline>>) = 0
    BY <1>3, <1>4, <1>5, <1>6, ClearJoins DEF Clear
  <2>4. QED
    BY <1>2, <2>2, <2>3, Zenon DEF Told
<1>8. RoomFor(Len(w), Room)
  <2>1. Room \in Nat
    BY ConfigAssumption
  <2>2. Len(w) < Room
    BY <1>3, <1>4, <1>5, <1>6, <2>1
  <2>3. QED
    BY <2>2 DEF RoomFor
<1>9. /\ o.ret \in {1, -13} /\ IsPrefix(t, Plain(w))
      /\ SoundReader(o.reader) /\ Unread(o.reader) = <<>>
      /\ w = <<>> => o.ret = -13
  BY <1>2, <1>7, <1>8, Zenon DEF EndTold
<1>10. IsPrefix(Plain(w), a) /\ Plain(w) \in Texts
  <2>1. Plain(w) \in Texts /\ IsPrefix(Plain(w), w)
    BY <1>4, PlainIs
  <2>2. CASE Len(w) <= Len(a)
    <3>1. IsPrefix(w, a)
      BY <1>2, <1>3, <1>4, <1>6, <2>2, PrefixOfTwo
    <3>2. QED
      BY <1>3, <1>4, <2>1, <3>1, PrefixAfter
  <2>3. CASE ~ (Len(w) <= Len(a))
    <3>1. Len(w) = Len(l)
      BY <1>4, <1>5, <1>6, <2>3
    <3>2. w = l
      BY <1>3, <1>4, <1>6, <3>1, PrefixAfter
    <3>3. QED
      BY <1>3, <1>5, <2>1, <3>2, PrefixJoins
  <2>4. QED
    BY <2>2, <2>3
<1>11. IsPrefix(t, a)
  BY <1>3, <1>7, <1>9, <1>10, PrefixAfter
<1>12. Parsed(t) = <<>> \/ \E v \in Texts : IsPrefix(v, it.value) /\ Parsed(t) = <<Item(it.key, v)>>
  <2>1. SUFFICES ASSUME NEW m, m = Len(it.key)
                 PROVE  Parsed(t) = <<>> \/ \E v \in Texts : IsPrefix(v, it.value) /\ Parsed(t) = <<Item(it.key, v)>>
    OBVIOUS
  <2>2. /\ Len(t) > m => /\ Parsed(t) = <<Item(it.key, From(t, m + 2))>>
                         /\ From(t, m + 2) \in Texts
                         /\ IsPrefix(From(t, m + 2), it.value)
        /\ Len(t) <= m => Parsed(t) = <<>>
    <3>1. IsPrefix(t, KeyValue(it)) /\ t \in Texts
      BY <1>2, <1>7, <1>11
    <3>2. QED
      BY <2>1, <3>1, ParsedIs
  <2>3. Len(t) > m \/ Len(t) <= m
    BY <1>1, <1>7, <2>1, NoText0
  <2>4. QED
    BY <2>2, <2>3, Zenon
<1>13. o.ret > 0 => o.ret # -13
  OBVIOUS
<1>14. InFields(it) => ~ Overlong(t)
  <2>1. IsPrefix(t, KeyValue(it)) /\ t \in Texts
    BY <1>2, <1>7, <1>11
  <2>2. QED
    BY <2>1, BeginningInFields
<1>15. QED
  BY <1>9, <1>12, <1>13, <1>14, Zenon

-----------------------------------------------------------------------------
(* The settings of a file, from one of them on.                             *)
LinesFrom(s, m) == [i \in 1..Len(s) - m |-> Line(s[m + i])]

FileFrom(s, m) == FlattenSeq(LinesFrom(s, m))

LEMMA FileFromIs ==
  ASSUME NEW s \in Seq(Settings), NEW m \in Nat, m <= Len(s)
  PROVE  /\ FileFrom(s, m) \in Texts
         /\ m = Len(s) => FileFrom(s, m) = <<>>
         /\ m < Len(s) => FileFrom(s, m) = Line(s[m + 1]) \o FileFrom(s, m + 1)
<1>1. ASSUME NEW k \in Nat, k <= Len(s)
      PROVE  /\ LinesFrom(s, k) \in Seq(Texts) /\ Len(LinesFrom(s, k)) = Len(s) - k
             /\ \A i \in 1..Len(s) - k : LinesFrom(s, k)[i] = Line(s[k + i])
  <2>1. Len(s) - k \in Nat
    BY <1>1
  <2>2. \A i \in 1..Len(s) - k : Line(s[k + i]) \in Texts
    <3>1. ASSUME NEW i \in 1..Len(s) - k
          PROVE  Line(s[k + i]) \in Texts
      <4>1. k + i \in 1..Len(s)
        BY <1>1
      <4>2. s[k + i] \in Settings
        BY <4>1
      <4>3. QED
        BY <4>2, LineHas
    <3>2. QED
      BY <3>1
  <2>3. QED
    BY <2>1, <2>2 DEF LinesFrom
<1>2. FileFrom(s, m) \in Texts
  BY <1>1, FlattenType DEF FileFrom
<1>3. ASSUME m = Len(s)
      PROVE  FileFrom(s, m) = <<>>
  <2>1. LinesFrom(s, m) \in Seq(Texts) /\ Len(LinesFrom(s, m)) = 0
    BY <1>1, <1>3
  <2>2. LinesFrom(s, m) = <<>>
    BY <2>1
  <2>3. QED
    BY <2>2 DEF FileFrom, FlattenSeq
<1>4. ASSUME m < Len(s)
      PROVE  FileFrom(s, m) = Line(s[m + 1]) \o FileFrom(s, m + 1)
  <2>1. SUFFICES ASSUME NEW f, f = LinesFrom(s, m), NEW g, g = LinesFrom(s, m + 1), NEW x, x = Line(s[m + 1])
                 PROVE  FlattenSeq(f) = x \o FlattenSeq(g)
    BY Zenon DEF FileFrom
  <2>2. /\ f \in Seq(Texts) /\ Len(f) = Len(s) - m
        /\ \A i \in 1..Len(s) - m : f[i] = Line(s[m + i])
    BY <1>1, <2>1
  <2>3. /\ g \in Seq(Texts) /\ Len(g) = Len(s) - (m + 1)
        /\ \A i \in 1..Len(s) - (m + 1) : g[i] = Line(s[(m + 1) + i])
    <3>1. m + 1 \in Nat /\ m + 1 <= Len(s)
      BY <1>4
    <3>2. QED
      BY <1>1, <2>1, <3>1
  <2>4. Len(f) = Len(g) + 1
    BY <1>4, <2>2, <2>3
  <2>5. f[1] = x /\ x \in Texts
    <3>1. 1 \in 1..Len(s) - m
      BY <1>4
    <3>2. f[1] = x
      BY <2>1, <2>2, <3>1
    <3>3. 1 \in 1..Len(f)
      BY <2>2, <3>1
    <3>4. QED
      BY <2>2, <3>2, <3>3
  <2>6. \A i \in 1..Len(g) : f[i + 1] = g[i]
    <3>1. ASSUME NEW i \in 1..Len(g)
          PROVE  f[i + 1] = g[i]
      <4>1. i \in 1..Len(s) - (m + 1) /\ i + 1 \in 1..Len(s) - m /\ m + (i + 1) = (m + 1) + i
        BY <2>3
      <4>2. g[i] = Line(s[(m + 1) + i]) /\ f[i + 1] = Line(s[m + (i + 1)])
        BY <2>2, <2>3, <4>1
      <4>3. QED
        BY <4>1, <4>2
    <3>2. QED
      BY <3>1
  <2>7. QED
    BY <2>2, <2>3, <2>4, <2>5, <2>6, FlattenHead
<1>5. QED
  BY <1>2, <1>3, <1>4

LEMMA WrittenIs ==
  ASSUME NEW s \in Seq(Settings)
  PROVE  FlattenSeq([i \in DOMAIN s |-> Line(s[i])]) = FileFrom(s, 0)
<1>1. [i \in DOMAIN s |-> Line(s[i])] = LinesFrom(s, 0)
  <2>1. DOMAIN s = 1..Len(s) - 0 /\ \A i \in 1..Len(s) - 0 : 0 + i = i
    OBVIOUS
  <2>2. QED
    BY <2>1 DEF LinesFrom
<1>2. QED
  BY <1>1, Zenon DEF FileFrom

(* What is left of the settings all after a crash.                          *)
Survives(some, all) ==
  /\ Len(some) <= Len(all)
  /\ \A i \in DOMAIN some :
       /\ some[i].key = all[i].key
       /\ IF i < Len(some) THEN some[i] = all[i] ELSE IsPrefix(some[i].value, all[i].value)

LEMMA BeginningIs ==
  ASSUME NEW s \in Seq(Settings), NEW m \in Nat, m <= Len(s)
  PROVE  /\ SubSeq(s, 1, m) \in Seq(Settings) /\ Len(SubSeq(s, 1, m)) = m
         /\ \A i \in 1..m : SubSeq(s, 1, m)[i] = s[i]
         /\ m = Len(s) => SubSeq(s, 1, m) = s
         /\ m < Len(s) => SubSeq(s, 1, m) \o <<s[m + 1]>> = SubSeq(s, 1, m + 1)
         /\ m = 0 => SubSeq(s, 1, m) = <<>>
<1>1. ASSUME NEW k \in Nat, k <= Len(s)
      PROVE  /\ SubSeq(s, 1, k) \in Seq(Settings) /\ Len(SubSeq(s, 1, k)) = k
             /\ \A i \in 1..k : SubSeq(s, 1, k)[i] = s[i]
  BY <1>1
<1>2. m = Len(s) => SubSeq(s, 1, m) = s
  OBVIOUS
<1>3. ASSUME m < Len(s)
      PROVE  SubSeq(s, 1, m) \o <<s[m + 1]>> = SubSeq(s, 1, m + 1)
  <2>1. m + 1 \in Nat /\ m + 1 <= Len(s) /\ m + 1 \in 1..Len(s)
    BY <1>3
  <2>2. SUFFICES ASSUME NEW a, a = SubSeq(s, 1, m), NEW b, b = SubSeq(s, 1, m + 1)
                 PROVE  Append(a, s[m + 1]) = b
    <3>1. \A a \in Seq(Settings), x \in Settings : a \o <<x>> = Append(a, x)
      OBVIOUS
    <3>2. QED
      BY <1>1, <2>1, <2>2, <3>1
  <2>3. /\ a \in Seq(Settings) /\ Len(a) = m /\ \A i \in 1..m : a[i] = s[i]
        /\ b \in Seq(Settings) /\ Len(b) = m + 1 /\ \A i \in 1..m + 1 : b[i] = s[i]
    BY <1>1, <1>3, <2>1, <2>2
  <2>4. s[m + 1] \in Settings
    BY <2>1
  <2>5. /\ Append(a, s[m + 1]) \in Seq(Settings) /\ Len(Append(a, s[m + 1])) = m + 1
        /\ \A i \in 1..m + 1 : Append(a, s[m + 1])[i] = IF i = m + 1 THEN s[m + 1] ELSE a[i]
    BY <2>3, <2>4
  <2>6. QED
    BY <2>3, <2>5, SeqEqual
<1>4. m = 0 => SubSeq(s, 1, m) = <<>>
  BY <1>1
<1>5. QED
  BY <1>1, <1>2, <1>3, <1>4

LEMMA BeginningSurvives ==
  ASSUME NEW s \in Seq(Settings), NEW m \in Nat, m <= Len(s)
  PROVE  /\ Survives(SubSeq(s, 1, m), s)
         /\ Survives(<<>>, s)
         /\ \A v \in Texts : m < Len(s) /\ IsPrefix(v, s[m + 1].value)
              => Survives(SubSeq(s, 1, m) \o <<Item(s[m + 1].key, v)>>, s)
<1>1. SUFFICES ASSUME NEW a, a = SubSeq(s, 1, m)
               PROVE  /\ Survives(a, s)
                      /\ Survives(<<>>, s)
                      /\ \A v \in Texts : m < Len(s) /\ IsPrefix(v, s[m + 1].value)
                           => Survives(a \o <<Item(s[m + 1].key, v)>>, s)
  OBVIOUS
<1>2. a \in Seq(Settings) /\ Len(a) = m /\ \A i \in 1..m : a[i] = s[i]
  BY <1>1, BeginningIs
<1>3. DOMAIN a = 1..m /\ DOMAIN s = 1..Len(s) /\ Len(s) \in Nat
  BY <1>2
<1>4. Survives(a, s)
  <2>1. ASSUME NEW i \in 1..m
        PROVE  a[i] = s[i] /\ IsPrefix(a[i].value, s[i].value)
    <3>1. a[i] = s[i] /\ s[i] \in Settings
      BY <1>2, <1>3
    <3>2. s[i].value \in Texts
      BY <3>1 DEF Settings
    <3>3. QED
      BY <3>1, <3>2, PrefixJoins
  <2>2. QED
    BY <1>2, <1>3, <2>1 DEF Survives
<1>5. Survives(<<>>, s)
  BY <1>3 DEF Survives
<1>6. ASSUME NEW v \in Texts, m < Len(s), IsPrefix(v, s[m + 1].value)
      PROVE  Survives(a \o <<Item(s[m + 1].key, v)>>, s)
  <2>1. SUFFICES ASSUME NEW x, x = Item(s[m + 1].key, v), NEW b, b = Append(a, x)
                 PROVE  Survives(b, s)
    <3>1. s[m + 1] \in Settings
      BY <1>6
    <3>2. Item(s[m + 1].key, v) \in Settings
      BY <3>1 DEF Item, Settings
    <3>3. \A y \in Settings : a \o <<y>> = Append(a, y)
      BY <1>2
    <3>4. QED
      BY <2>1, <3>2, <3>3
  <2>2. x.key = s[m + 1].key /\ x.value = v /\ x \in Settings
    <3>1. s[m + 1] \in Settings
      BY <1>6
    <3>2. QED
      BY <2>1, <3>1 DEF Item, Settings
  <2>3. /\ b \in Seq(Settings) /\ Len(b) = m + 1 /\ DOMAIN b = 1..m + 1
        /\ \A i \in 1..m + 1 : b[i] = IF i = m + 1 THEN x ELSE a[i]
    BY <1>2, <2>1, <2>2
  <2>4. ASSUME NEW i \in 1..m + 1
        PROVE  /\ b[i].key = s[i].key
               /\ IF i < m + 1 THEN b[i] = s[i] ELSE IsPrefix(b[i].value, s[i].value)
    <3>1. CASE i = m + 1
      <4>1. b[i] = x /\ ~ (i < m + 1)
        BY <2>3, <3>1
      <4>2. QED
        BY <1>6, <2>2, <3>1, <4>1
    <3>2. CASE i # m + 1
      <4>1. i \in 1..m /\ i < m + 1 /\ b[i] = a[i]
        BY <2>3, <3>2
      <4>2. b[i] = s[i]
        BY <1>2, <4>1
      <4>3. QED
        BY <4>1, <4>2
    <3>3. QED
      BY <3>1, <3>2
  <2>5. Len(b) <= Len(s)
    BY <1>3, <1>6, <2>3
  <2>6. QED
    BY <2>3, <2>4, <2>5 DEF Survives
<1>7. QED
  BY <1>4, <1>5, <1>6

(* How far the settings of a file have been loaded: of a file that is whole, *)
(* and of one that a crash has cut off.                                     *)
WholeTo(its, s, r) == \E m \in 0..Len(s) : its = SubSeq(s, 1, m) /\ Unread(r) = FileFrom(s, m)

TornTo(its, s, r) ==
  \/ \E m \in 0..Len(s) : its = SubSeq(s, 1, m) /\ IsPrefix(Unread(r), FileFrom(s, m))
  \/ Unread(r) = <<>> /\ Survives(its, s)

LEMMA EmptyEnds ==
  ASSUME NEW r, SoundReader(r), Unread(r) = <<>>, NEW o, o = TextFileReader_GetLine(r, Room)
  PROVE  ~ (o.ret > 0)
<1>1. Told(Unread(r), Room, o)
  <2>1. Room \in Nat
    BY ConfigAssumption
  <2>2. QED
    BY <2>1, GetLineIs
<1>2. strstr(<<>>, <<Newline>>) = 0
  <2>1. strstr(<<>>, <<Newline>>) \in 0..Len(<<>>)
    BY Nothing, LineIs
  <2>2. Len(<<>>) = 0
    BY Nothing
  <2>3. QED
    BY <2>1, <2>2
<1>3. EndTold(<<>>, Room, o)
  BY <1>1, <1>2, Zenon DEF Told
<1>4. o.ret = -13
  BY <1>3, Zenon DEF EndTold
<1>5. QED
  BY <1>4

LEMMA WholeOn ==
  ASSUME NEW s \in Seq(Settings), \A i \in DOMAIN s : Clean(s[i]) /\ InFields(s[i]),
         NEW r, SoundReader(r), NEW its, WholeTo(its, s, r), NEW o, o = TextFileReader_GetLine(r, Room)
  PROVE  /\ o.ret > 0 => WholeTo(its \o Parsed(o.text), s, o.reader) /\ ~ Overlong(o.text)
         /\ ~ (o.ret > 0) => its = s
<1>1. PICK m \in 0..Len(s) : its = SubSeq(s, 1, m) /\ Unread(r) = FileFrom(s, m)
  BY DEF WholeTo
<1>2. m \in Nat /\ m <= Len(s) /\ Len(s) \in Nat /\ DOMAIN s = 1..Len(s)
  OBVIOUS
<1>3. /\ m = Len(s) => FileFrom(s, m) = <<>>
      /\ m < Len(s) => FileFrom(s, m) = Line(s[m + 1]) \o FileFrom(s, m + 1)
  BY <1>2, FileFromIs
<1>4. /\ m = Len(s) => SubSeq(s, 1, m) = s
      /\ m < Len(s) => SubSeq(s, 1, m) \o <<s[m + 1]>> = SubSeq(s, 1, m + 1)
  BY <1>2, BeginningIs
<1>5. CASE m = Len(s)
  <2>1. ~ (o.ret > 0)
    BY <1>1, <1>3, <1>5, EmptyEnds
  <2>2. its = s
    BY <1>1, <1>4, <1>5
  <2>3. QED
    BY <2>1, <2>2
<1>6. CASE m < Len(s)
  <2>1. m + 1 \in 1..Len(s) /\ m + 1 \in Nat /\ m + 1 <= Len(s) /\ m + 1 \in 0..Len(s)
    BY <1>2, <1>6
  <2>2. SUFFICES ASSUME NEW it, it = s[m + 1], NEW u, u = FileFrom(s, m + 1)
                 PROVE  /\ o.ret > 0 => WholeTo(its \o Parsed(o.text), s, o.reader) /\ ~ Overlong(o.text)
                        /\ ~ (o.ret > 0) => its = s
    OBVIOUS
  <2>3. /\ it \in Settings /\ Clean(it) /\ InFields(it)
        /\ u \in Texts /\ Unread(r) = Line(it) \o u
    <3>1. it \in Settings /\ Clean(it) /\ InFields(it)
      BY <1>2, <2>1, <2>2
    <3>2. u \in Texts
      BY <2>1, <2>2, FileFromIs
    <3>3. Unread(r) = Line(it) \o u
      BY <1>1, <1>3, <1>6, <2>2, Zenon
    <3>4. QED
      BY <3>1, <3>2, <3>3
  <2>4. o.ret = 1 /\ Unread(o.reader) = u /\ Parsed(o.text) = <<it>> /\ ~ Overlong(o.text)
    BY <2>3, SettingRead
  <2>5. its \o Parsed(o.text) = SubSeq(s, 1, m + 1)
    BY <1>1, <1>4, <1>6, <2>2, <2>4
  <2>6. WholeTo(its \o Parsed(o.text), s, o.reader)
    BY <2>1, <2>2, <2>4, <2>5 DEF WholeTo
  <2>7. QED
    BY <2>4, <2>6
<1>7. m = Len(s) \/ m < Len(s)
  <2>1. \A a, b \in Nat : a <= b => a = b \/ a < b
    OBVIOUS
  <2>2. QED
    BY <1>2, <2>1, Zenon
<1>8. QED
  BY <1>5, <1>6, <1>7, Zenon

LEMMA NextSetting ==
  \A r, it, u, o : /\ SoundReader(r) /\ it \in Settings /\ Clean(it) /\ InFields(it) /\ u \in Texts
                  /\ Unread(r) = Line(it) \o u /\ o = TextFileReader_GetLine(r, Room)
                  => Unread(o.reader) = u /\ Parsed(o.text) = <<it>> /\ ~ Overlong(o.text)
BY SettingRead

LEMMA TornOn ==
  ASSUME NEW s \in Seq(Settings),
         \A i \in DOMAIN s : /\ Clean(s[i]) /\ InFields(s[i])
                              /\ ~ Has(s[i].key, <<Blank>>) /\ ~ Has(s[i].key, <<Tab>>),
         NEW r, SoundReader(r), NEW its, its \in Seq(Settings), TornTo(its, s, r),
         NEW o, o = TextFileReader_GetLine(r, Room)
  PROVE  /\ o.ret > 0 => TornTo(its \o Parsed(o.text), s, o.reader) /\ ~ Overlong(o.text)
         /\ ~ (o.ret > 0) => Survives(its, s)
<1>1. CASE Unread(r) = <<>> /\ Survives(its, s)
  BY <1>1, EmptyEnds
<1>2. ASSUME NEW m \in 0..Len(s), its = SubSeq(s, 1, m), IsPrefix(Unread(r), FileFrom(s, m))
      PROVE  /\ o.ret > 0 => TornTo(its \o Parsed(o.text), s, o.reader) /\ ~ Overlong(o.text)
             /\ ~ (o.ret > 0) => Survives(its, s)
  <2>1. m \in Nat /\ m <= Len(s) /\ Len(s) \in Nat /\ DOMAIN s = 1..Len(s)
    OBVIOUS
  <2>2. /\ m = Len(s) => FileFrom(s, m) = <<>>
        /\ m < Len(s) => FileFrom(s, m) = Line(s[m + 1]) \o FileFrom(s, m + 1)
    BY <2>1, FileFromIs
  <2>3. m < Len(s) => SubSeq(s, 1, m) \o <<s[m + 1]>> = SubSeq(s, 1, m + 1)
    BY <2>1, BeginningIs
  <2>4. Survives(its, s)
    BY <1>2, <2>1, BeginningSurvives
  <2>5. SUFFICES ASSUME NEW w, w = Unread(r)
                 PROVE  o.ret > 0 => TornTo(its \o Parsed(o.text), s, o.reader) /\ ~ Overlong(o.text)
    BY <2>4
  <2>6. w \in Texts
    BY <2>5, RefillReads
  <2>7. CASE m = Len(s)
    <3>1. IsPrefix(w, <<>>)
      BY <1>2, <2>2, <2>5, <2>7
    <3>2. Len(w) = 0
      <4>1. ASSUME NEW e \in Texts, Len(e) = 0, IsPrefix(w, e)
            PROVE  Len(w) = 0
        BY <2>6, <4>1, PrefixIs, NoText0
      <4>2. QED
        BY <3>1, <4>1, Nothing
    <3>3. w = <<>>
      BY <2>6, <3>2, NoText0
    <3>4. ~ (o.ret > 0)
      BY <2>5, <3>3, EmptyEnds
    <3>5. QED
      BY <3>4
  <2>8. CASE m < Len(s)
    <3>1. m + 1 \in 1..Len(s) /\ m + 1 \in Nat /\ m + 1 <= Len(s) /\ m + 1 \in 0..Len(s)
      BY <2>1, <2>8
    <3>2. SUFFICES ASSUME NEW it, it = s[m + 1], NEW u, u = FileFrom(s, m + 1), NEW l, l = Line(it)
                   PROVE  o.ret > 0 => TornTo(its \o Parsed(o.text), s, o.reader) /\ ~ Overlong(o.text)
      OBVIOUS
    <3>3. /\ it \in Settings /\ Clean(it) /\ InFields(it) /\ ~ Has(it.key, <<Blank>>) /\ ~ Has(it.key, <<Tab>>)
          /\ u \in Texts /\ l \in Texts /\ IsPrefix(w, l \o u)
      <4>1. it \in Settings /\ Clean(it) /\ InFields(it) /\ ~ Has(it.key, <<Blank>>) /\ ~ Has(it.key, <<Tab>>)
        BY <2>1, <3>1, <3>2
      <4>2. u \in Texts /\ l \in Texts
        BY <3>1, <3>2, <4>1, FileFromIs, LineHas
      <4>3. IsPrefix(w, l \o u)
        BY <1>2, <2>2, <2>5, <2>8, <3>2, Zenon
      <4>4. QED
        BY <4>1, <4>2, <4>3
    <3>4. CASE Len(w) >= Len(l)
      <4>1. SUFFICES ASSUME NEW v, v = From(w, Len(l) + 1)
                     PROVE  o.ret > 0 => TornTo(its \o Parsed(o.text), s, o.reader) /\ ~ Overlong(o.text)
        OBVIOUS
      <4>2. w = l \o v /\ v \in Texts /\ IsPrefix(v, u)
        BY <2>6, <3>3, <3>4, <4>1, PrefixOfTwo
      <4>3. Unread(r) = Line(it) \o v
        BY <2>5, <3>2, <4>2
      <4>4. Unread(o.reader) = v /\ Parsed(o.text) = <<it>> /\ ~ Overlong(o.text)
        <5>1. it \in Settings /\ Clean(it) /\ InFields(it)
          BY <3>3
        <5>2. ASSUME NEW x \in Texts, Unread(r) = Line(it) \o x
              PROVE  Unread(o.reader) = x /\ Parsed(o.text) = <<it>> /\ ~ Overlong(o.text)
          BY <5>1, <5>2, NextSetting, Zenon
        <5>3. QED
          BY <4>2, <4>3, <5>2, Zenon
      <4>5. its \o Parsed(o.text) = SubSeq(s, 1, m + 1)
        BY <1>2, <2>3, <2>8, <3>2, <4>4
      <4>6. IsPrefix(Unread(o.reader), FileFrom(s, m + 1))
        BY <3>2, <4>2, <4>4
      <4>7. TornTo(its \o Parsed(o.text), s, o.reader)
        BY <3>1, <4>5, <4>6, Zenon DEF TornTo
      <4>8. QED
        BY <4>4, <4>7
    <3>5. CASE ~ (Len(w) >= Len(l))
      <4>1. Len(w) < Len(l) /\ IsPrefix(w, l)
        <5>1. Len(w) \in Nat /\ Len(l) \in Nat
          BY <2>6, <3>3, NoText0
        <5>2. Len(w) < Len(l) /\ Len(w) <= Len(l)
          BY <3>5, <5>1
        <5>3. QED
          BY <2>6, <3>3, <5>2, PrefixOfTwo
      <4>2. /\ o.ret > 0 => Unread(o.reader) = <<>>
            /\ Parsed(o.text) = <<>> \/ \E v \in Texts : IsPrefix(v, it.value) /\ Parsed(o.text) = <<Item(it.key, v)>>
            /\ ~ Overlong(o.text)
        BY <2>5, <3>2, <3>3, <4>1, SettingCut
      <4>3. CASE Parsed(o.text) = <<>>
        <5>1. its \o Parsed(o.text) = its
          BY <4>3
        <5>2. QED
          BY <2>4, <4>2, <5>1, Zenon DEF TornTo
      <4>4. ASSUME NEW v \in Texts, IsPrefix(v, it.value), Parsed(o.text) = <<Item(it.key, v)>>
            PROVE  o.ret > 0 => TornTo(its \o Parsed(o.text), s, o.reader) /\ ~ Overlong(o.text)
        <5>1. Survives(its \o Parsed(o.text), s)
          <6>1. IsPrefix(v, s[m + 1].value)
            BY <3>2, <4>4
          <6>2. Survives(SubSeq(s, 1, m) \o <<Item(s[m + 1].key, v)>>, s)
            BY <2>1, <2>8, <4>4, <6>1, BeginningSurvives
          <6>3. QED
            BY <1>2, <3>2, <4>4, <6>2, Zenon
        <5>2. QED
          BY <4>2, <5>1, Zenon DEF TornTo
      <4>5. QED
        BY <4>2, <4>3, <4>4, Zenon
    <3>6. QED
      BY <3>4, <3>5, Zenon
  <2>9. m = Len(s) \/ m < Len(s)
    <3>1. \A a, b \in Nat : a <= b => a = b \/ a < b
      OBVIOUS
    <3>2. QED
      BY <2>1, <3>1, Zenon
  <2>10. QED
    BY <2>7, <2>8, <2>9, Zenon
<1>3. QED
  BY <1>1, <1>2, Zenon DEF TornTo

LEMMA ParsedType ==
  ASSUME NEW t \in Texts
  PROVE  Parsed(t) \in Seq(Settings)
<1>1. Delimiter(t) \in 0..Len(t) /\ Len(t) \in Nat
  <2>1. ASSUME NEW c \in STRING
        PROVE  strstr(t, <<c>>) \in 0..Len(t)
    BY <2>1, MarkIs DEF FirstPlace
  <2>2. /\ strstr(t, <<Equals>>) \in 0..Len(t) /\ strstr(t, <<Blank>>) \in 0..Len(t)
        /\ strstr(t, <<Tab>>) \in 0..Len(t)
    BY <2>1, Marks
  <2>3. QED
    BY <2>2, NoText0, Zenon DEF Delimiter
<1>2. SUFFICES ASSUME NEW at, at = Delimiter(t), at # 0
               PROVE  <<Item(Before(t, at), Value(From(t, at + 1)))>> \in Seq(Settings)
  <2>1. ASSUME NEW p, p = <<Item(Before(t, Delimiter(t)), Value(From(t, Delimiter(t) + 1)))>>,
               Delimiter(t) # 0 => p \in Seq(Settings)
        PROVE  Parsed(t) \in Seq(Settings)
    <3>1. Parsed(t) = <<>> \/ (Delimiter(t) # 0 /\ Parsed(t) = p)
      BY <2>1, Zenon DEF Parsed
    <3>2. <<>> \in Seq(Settings)
      OBVIOUS
    <3>3. QED
      BY <2>1, <3>1, <3>2, Zenon
  <2>2. QED
    BY <2>1, Zenon
<1>3. at \in Nat /\ at > 0 /\ at <= Len(t) + 1 /\ at + 1 \in Nat /\ at + 1 > 0 /\ at + 1 <= Len(t) + 1
  BY <1>1, <1>2
<1>4. Before(t, at) \in Texts /\ From(t, at + 1) \in Texts
  BY <1>3, PartsAt
<1>5. Item(Before(t, at), Value(From(t, at + 1))) \in Settings
  BY <1>4, ValueIs DEF Item, Settings
<1>6. QED
  BY <1>5

AllInFields(its) == \A i \in DOMAIN its : InFields(its[i])

(* What a line leaves in an item is in its fields, or has overrun them.     *)
LEMMA ParsedInFields ==
  ASSUME NEW t \in Texts, ~ Overlong(t)
  PROVE  AllInFields(Parsed(t))
<1>1. SUFFICES ASSUME NEW p, p = Parsed(t), NEW at, at = Delimiter(t), NEW i \in DOMAIN p
               PROVE  InFields(p[i])
  BY Zenon DEF AllInFields
<1>2. at \in 0..Len(t) /\ Len(t) \in Nat
  <2>1. ASSUME NEW c \in STRING
        PROVE  strstr(t, <<c>>) \in 0..Len(t)
    BY <2>1, MarkIs DEF FirstPlace
  <2>2. /\ strstr(t, <<Equals>>) \in 0..Len(t) /\ strstr(t, <<Blank>>) \in 0..Len(t)
        /\ strstr(t, <<Tab>>) \in 0..Len(t)
    BY <2>1, Marks
  <2>3. QED
    BY <1>1, <2>2, NoText0, Zenon DEF Delimiter
<1>3. /\ ~ (at > KeySize) /\ ~ (Len(p[i].value) >= ValueSize)
  BY <1>1, Zenon DEF Overlong
<1>4. p \in Seq(Settings) /\ p[i] \in Settings
  <2>1. p \in Seq(Settings)
    BY <1>1, ParsedType
  <2>2. QED
    BY <2>1
<1>5. Len(p[i].value) \in Nat /\ KeySize \in Nat /\ ValueSize \in Nat
  <2>1. p[i].value \in Texts
    BY <1>4 DEF Settings
  <2>2. QED
    BY <2>1, NoText0, ConfigAssumption
<1>6. p = <<Item(Before(t, at), Value(From(t, at + 1)))>> /\ at # 0
  <2>1. p # <<>>
    OBVIOUS
  <2>2. QED
    BY <1>1, <2>1, Zenon DEF Parsed
<1>7. p[i].key = Before(t, at)
  <2>1. ASSUME NEW x, p = <<x>>
        PROVE  p[i] = x
    BY <2>1
  <2>2. \A k, v : Item(k, v).key = k
    BY DEF Item
  <2>3. QED
    BY <1>6, <2>1, <2>2, Zenon
<1>8. Len(Before(t, at)) = at - 1
  <2>1. at \in Nat /\ at > 0 /\ at <= Len(t) + 1
    BY <1>2, <1>6
  <2>2. QED
    BY <2>1, PartsAt
<1>9. QED
  BY <1>2, <1>3, <1>5, <1>7, <1>8 DEF InFields

-----------------------------------------------------------------------------
(* The settings while the daemon runs, starts again, and crashes: what is   *)
(* read is a beginning of what was saved, and the rest is still in the file. *)
ConfigTypes ==
  /\ file \in Texts /\ items \in Seq(Settings) /\ saved \in Seq(Settings)
  /\ phase = Reading => SoundReader(reader) /\ ~ changed
  /\ phase # Spoiled => AllInFields(items)
  /\ AllInFields(saved)

WholeKept ==
  wrote = "whole" /\ AllClean =>
    /\ file = FileFrom(saved, 0)
    /\ phase = Reading => WholeTo(items, saved, reader)
    /\ phase = Loaded /\ ~ changed /\ ~ file_not_found => items = saved
    /\ phase = Spoiled => changed

TornKept ==
  wrote = "torn" /\ AllClean /\ NoBlankKeys =>
    /\ IsPrefix(file, FileFrom(saved, 0))
    /\ phase = Reading => TornTo(items, saved, reader)
    /\ phase = Loaded /\ ~ changed => Survives(items, saved)
    /\ phase = Spoiled => changed

(* The phases are three.                                                    *)
LEMMA Phases == Reading # Loaded /\ Spoiled # Reading /\ Spoiled # Loaded
BY DEF Reading, Loaded, Spoiled

ConfigInv == into = "config" => ConfigTypes /\ WholeKept /\ TornKept

LEMMA LoadedLine ==
  ASSUME NEW r, SoundReader(r), NEW o, o = TextFileReader_GetLine(r, Room)
  PROVE  /\ Parsed(o.text) \in Seq(Settings)
         /\ o.ret > 0 => SoundReader(o.reader)
         /\ ~ Overlong(o.text) => AllInFields(Parsed(o.text))
<1>1. Told(Unread(r), Room, o)
  <2>1. Room \in Nat
    BY ConfigAssumption
  <2>2. QED
    BY <2>1, GetLineIs
<1>2. o.text \in Texts
  BY <1>1, Zenon DEF Told
<1>3. Parsed(o.text) \in Seq(Settings)
  BY <1>2, ParsedType
<1>4. ~ (CONTINUE_READING > 0)
  BY DEF CONTINUE_READING
<1>5. ASSUME o.ret > 0
      PROVE  SoundReader(o.reader)
  <2>1. o.ret # CONTINUE_READING
    BY <1>4, <1>5, Zenon
  <2>2. strstr(Unread(r), <<Newline>>) > 0 \/ strstr(Unread(r), <<Newline>>) = 0
    <3>1. Unread(r) \in Texts
      BY RefillReads
    <3>2. strstr(Unread(r), <<Newline>>) \in Nat
      <4>1. ASSUME NEW w \in Texts
            PROVE  strstr(w, <<Newline>>) \in Nat
        BY LineIs, NoText0
      <4>2. QED
        BY <3>1, <4>1, Zenon
    <3>3. QED
      BY <3>2
  <2>3. CASE strstr(Unread(r), <<Newline>>) > 0
    BY <1>1, <2>1, <2>3, Zenon DEF Told, LineTold
  <2>4. CASE strstr(Unread(r), <<Newline>>) = 0
    BY <1>1, <2>1, <2>4, Zenon DEF Told, EndTold
  <2>5. QED
    BY <2>2, <2>3, <2>4, Zenon
<1>6. ~ Overlong(o.text) => AllInFields(Parsed(o.text))
  BY <1>2, ParsedInFields
<1>7. QED
  BY <1>3, <1>5, <1>6

(* Items from the file go behind those that are there.                      *)
LEMMA FieldsJoin ==
  ASSUME NEW a \in Seq(Settings), NEW b \in Seq(Settings), AllInFields(a), AllInFields(b)
  PROVE  AllInFields(a \o b)
<1>1. SUFFICES ASSUME NEW c, c = a \o b, NEW i \in DOMAIN c
               PROVE  InFields(c[i])
  BY Zenon DEF AllInFields
<1>2. c[i] \in {a[k] : k \in DOMAIN a} \cup {b[k] : k \in DOMAIN b}
  BY <1>1
<1>3. QED
  BY <1>2, Zenon DEF AllInFields

(* A reader made anew has everything before it.                             *)
LEMMA AllBefore ==
  ASSUME NEW s \in Seq(Settings), NEW x \in Texts, NEW r, r = TextFileReader(x)
  PROVE  /\ x = FileFrom(s, 0) => WholeTo(<<>>, s, r)
         /\ IsPrefix(x, FileFrom(s, 0)) => TornTo(<<>>, s, r)
<1>1. Unread(r) = x
  BY MadeReader
<1>2. 0 \in 0..Len(s) /\ SubSeq(s, 1, 0) = <<>>
  <2>1. \A m \in Nat : m = 0 /\ m <= Len(s) => m \in 0..Len(s) /\ SubSeq(s, 1, m) = <<>>
    BY BeginningIs
  <2>2. 0 \in Nat /\ 0 <= Len(s)
    OBVIOUS
  <2>3. QED
    BY <2>1, <2>2, Zenon
<1>3. QED
  BY <1>1, <1>2, Zenon DEF WholeTo, TornTo

(* The settings file may be any text, and what is set are texts.            *)
LEMMA ConfigTexts ==
  ConfigFiles \subseteq Texts /\ Keys \subseteq Texts /\ Values \subseteq Texts
    /\ Integers10 \subseteq Texts /\ Junk \subseteq Texts
BY ConfigAssumption DEF Texts

LEMMA ConfigInitInv ==
  TextInit => ConfigInv
<1>1. ASSUME ConfigInit
      PROVE  ConfigInv
  <2>1. /\ file \in ConfigFiles /\ reader = TextFileReader(file)
        /\ items = <<>> /\ saved = <<>> /\ wrote = "never" /\ changed = FALSE
    BY <1>1, Zenon DEF ConfigInit
  <2>2. ConfigTypes
    <3>1. file \in Texts
      BY <2>1, ConfigTexts
    <3>2. SoundReader(reader)
      BY <2>1, <3>1, MadeReader
    <3>3. items \in Seq(Settings) /\ saved \in Seq(Settings)
      BY <2>1
    <3>4. AllInFields(items) /\ AllInFields(saved)
      BY <2>1 DEF AllInFields
    <3>5. QED
      BY <2>1, <3>1, <3>2, <3>3, <3>4, Zenon DEF ConfigTypes
  <2>3. wrote # "whole" /\ wrote # "torn"
    BY <2>1, Zenon
  <2>4. QED
    BY <2>2, <2>3, Zenon DEF ConfigInv, WholeKept, TornKept
<1>2. ASSUME LoadInit
      PROVE  into # "config"
  BY <1>2, Zenon DEF LoadInit, StartArray, StartBuffer, StartMalloc, StartRows, Start
<1>3. QED
  BY <1>1, <1>2, Zenon DEF TextInit, ConfigInv

LEMMA LoadItemInv ==
  ConfigInv /\ LoadItem => ConfigInv'
<1>1. SUFFICES ASSUME ConfigInv, LoadItem, NEW o, o = TextFileReader_GetLine(reader, Room)
               PROVE  ConfigInv'
  BY Zenon
<1>2. /\ into = "config" /\ phase = Reading /\ reader' = o.reader
      /\ items' = IF o.ret > 0 THEN items \o Parsed(o.text) ELSE items
      /\ phase' = IF o.ret > 0 /\ Overlong(o.text) THEN Spoiled ELSE IF o.ret > 0 THEN Reading ELSE Loaded
      /\ file' = file /\ file_not_found' = file_not_found /\ saved' = saved
      /\ wrote' = wrote /\ changed' = changed
  BY <1>1, Zenon DEF LoadItem
<1>3. /\ file \in Texts /\ items \in Seq(Settings) /\ saved \in Seq(Settings)
      /\ SoundReader(reader) /\ ~ changed /\ WholeKept /\ TornKept
      /\ AllInFields(items) /\ AllInFields(saved)
  BY <1>1, <1>2, Phases, Zenon DEF ConfigInv, ConfigTypes
<1>4. /\ Parsed(o.text) \in Seq(Settings) /\ (o.ret > 0 => SoundReader(o.reader))
      /\ ~ Overlong(o.text) => AllInFields(Parsed(o.text))
  BY <1>1, <1>3, LoadedLine
<1>5. /\ items \o Parsed(o.text) \in Seq(Settings)
      /\ ~ Overlong(o.text) => AllInFields(items \o Parsed(o.text))
  BY <1>3, <1>4, FieldsJoin
<1>6. Reading # Loaded /\ Spoiled # Reading /\ Spoiled # Loaded
  BY Phases
<1>7. ConfigTypes'
  <2>1. items' \in Seq(Settings)
    BY <1>2, <1>3, <1>5, Zenon
  <2>2. phase' = Reading => SoundReader(reader') /\ ~ changed'
    BY <1>2, <1>3, <1>4, <1>6, Zenon
  <2>3. phase' # Spoiled => AllInFields(items')
    BY <1>2, <1>3, <1>5, <1>6, Zenon
  <2>4. AllInFields(saved')
    BY <1>2, <1>3
  <2>5. QED
    BY <1>2, <1>3, <2>1, <2>2, <2>3, <2>4, Zenon DEF ConfigTypes
<1>8. WholeKept'
  <2>1. AllClean' <=> AllClean
    BY <1>2, Zenon DEF AllClean
  <2>2. ASSUME wrote = "whole", AllClean
        PROVE  /\ file = FileFrom(saved, 0)
               /\ o.ret > 0 => WholeTo(items \o Parsed(o.text), saved, o.reader) /\ ~ Overlong(o.text)
               /\ ~ (o.ret > 0) => items = saved
    <3>1. file = FileFrom(saved, 0) /\ WholeTo(items, saved, reader)
      BY <1>2, <1>3, <2>2, Zenon DEF WholeKept
    <3>2. \A i \in DOMAIN saved : Clean(saved[i]) /\ InFields(saved[i])
      BY <1>3, <2>2, Zenon DEF AllClean, AllInFields
    <3>3. QED
      BY <1>1, <1>3, <3>1, <3>2, WholeOn, Zenon
  <2>3. QED
    BY <1>2, <1>6, <2>1, <2>2, Zenon DEF WholeKept
<1>9. TornKept'
  <2>1. (AllClean' <=> AllClean) /\ (NoBlankKeys' <=> NoBlankKeys)
    BY <1>2, Zenon DEF AllClean, NoBlankKeys
  <2>2. ASSUME wrote = "torn", AllClean, NoBlankKeys
        PROVE  /\ IsPrefix(file, FileFrom(saved, 0))
               /\ o.ret > 0 => TornTo(items \o Parsed(o.text), saved, o.reader) /\ ~ Overlong(o.text)
               /\ ~ (o.ret > 0) => Survives(items, saved)
    <3>1. IsPrefix(file, FileFrom(saved, 0)) /\ TornTo(items, saved, reader)
      BY <1>2, <1>3, <2>2, Zenon DEF TornKept
    <3>2. \A i \in DOMAIN saved : /\ Clean(saved[i]) /\ InFields(saved[i])
                                  /\ ~ Has(saved[i].key, <<Blank>>) /\ ~ Has(saved[i].key, <<Tab>>)
      BY <1>3, <2>2, Zenon DEF AllClean, NoBlankKeys, AllInFields
    <3>3. QED
      BY <1>1, <1>3, <3>1, <3>2, TornOn, Zenon
  <2>3. QED
    BY <1>2, <1>6, <2>1, <2>2, Zenon DEF TornKept
<1>10. QED
  BY <1>7, <1>8, <1>9, Zenon DEF ConfigInv

LEMMA RestartInv ==
  ConfigInv /\ Restart => ConfigInv'
<1>1. SUFFICES ASSUME ConfigInv, Restart
               PROVE  ConfigInv'
  BY Zenon
<1>2. PICK missing \in BOOLEAN : Constructed(missing)
  BY <1>1, Zenon DEF Restart
<1>3. /\ into = "config" /\ items' = <<>> /\ changed' = FALSE /\ file_not_found' = missing
      /\ reader' = TextFileReader(file) /\ phase' = IF missing THEN Loaded ELSE Reading
      /\ file' = file /\ saved' = saved /\ wrote' = wrote
  BY <1>1, <1>2, Zenon DEF Restart, Constructed
<1>4. /\ file \in Texts /\ saved \in Seq(Settings) /\ WholeKept /\ TornKept /\ AllInFields(saved)
  BY <1>1, <1>3, Zenon DEF ConfigInv, ConfigTypes
<1>5. Reading # Loaded /\ Spoiled # Reading /\ Spoiled # Loaded
  BY Phases
<1>6. SoundReader(reader')
  BY <1>3, <1>4, MadeReader
<1>7. /\ file = FileFrom(saved, 0) => WholeTo(<<>>, saved, reader')
      /\ IsPrefix(file, FileFrom(saved, 0)) => TornTo(<<>>, saved, reader')
  BY <1>3, <1>4, AllBefore, Zenon
<1>8. Survives(<<>>, saved)
  <2>1. 0 \in Nat /\ 0 <= Len(saved)
    BY <1>4
  <2>2. QED
    BY <1>4, <2>1, BeginningSurvives, Zenon
<1>9. ConfigTypes'
  <2>1. items' \in Seq(Settings) /\ AllInFields(items') /\ AllInFields(saved')
    BY <1>3, <1>4 DEF AllInFields
  <2>2. QED
    BY <1>3, <1>4, <1>6, <2>1, Zenon DEF ConfigTypes
<1>10. WholeKept'
  <2>1. AllClean' <=> AllClean
    BY <1>3, Zenon DEF AllClean
  <2>2. (phase' = Loaded => file_not_found') /\ phase' # Spoiled
    BY <1>3, <1>5, Zenon
  <2>3. QED
    BY <1>3, <1>4, <1>7, <2>1, <2>2, Zenon DEF WholeKept
<1>11. TornKept'
  <2>1. (AllClean' <=> AllClean) /\ (NoBlankKeys' <=> NoBlankKeys)
    BY <1>3, Zenon DEF AllClean, NoBlankKeys
  <2>2. phase' # Spoiled
    BY <1>3, <1>5, Zenon
  <2>3. QED
    BY <1>3, <1>4, <1>7, <1>8, <2>1, <2>2, Zenon DEF TornKept
<1>12. QED
  BY <1>9, <1>10, <1>11, Zenon DEF ConfigInv

(* What SetInteger stores is a text, with or without the rubbish.           *)
LEMMA DigitsAreTexts ==
  ASSUME NEW d \in Texts, NEW v \in C_itoa(d)
  PROVE  v \in Texts
<1>1. CASE Len(d) <= IntRoom - 2
  BY <1>1 DEF C_itoa
<1>2. CASE ~ (Len(d) <= IntRoom - 2)
  <2>1. PICK junk \in Junk : v = SubSeq(d, 1, IntRoom - 1) \o <<Newline>> \o junk
    BY <1>2, Zenon DEF C_itoa
  <2>2. IntRoom - 1 \in Nat /\ IntRoom - 1 <= Len(d)
    <3>1. Len(d) \in Nat /\ IntRoom \in Nat /\ IntRoom > 2
      BY NoText0, ConfigAssumption
    <3>2. QED
      BY <1>2, <3>1
  <2>3. SubSeq(d, 1, IntRoom - 1) \in Texts
    <3>1. ASSUME NEW n \in Nat, n <= Len(d)
          PROVE  SubSeq(d, 1, n) \in Texts
      BY <3>1, TextCutIs
    <3>2. QED
      BY <2>2, <3>1
  <2>4. <<Newline>> \in Texts /\ junk \in Texts
    BY Characters, ConfigTexts
  <2>5. \A a, b, c \in Texts : a \o b \o c \in Texts
    BY DEF Texts
  <2>6. QED
    BY <2>1, <2>3, <2>4, <2>5, Zenon
<1>3. QED
  BY <1>1, <1>2

LEMMA SetInv ==
  ASSUME ConfigInv, NEW key \in Texts, NEW value \in Texts, Set(key, value)
  PROVE  ConfigInv'
<1>1. /\ into = "config" /\ phase = Loaded /\ changed' = TRUE
      /\ \/ Found(key) > 0 /\ items' = [items EXCEPT ![Found(key)].value = value]
         \/ Found(key) = 0 /\ items' = Append(items, Item(key, value))
      /\ phase' = IF Len(value) >= ValueSize \/ (Found(key) = 0 /\ Len(key) >= KeySize) THEN Spoiled ELSE phase
      /\ file' = file /\ saved' = saved /\ wrote' = wrote
  BY Zenon DEF Set, Running
<1>2. /\ file \in Texts /\ items \in Seq(Settings) /\ saved \in Seq(Settings)
      /\ WholeKept /\ TornKept /\ AllInFields(items) /\ AllInFields(saved)
  BY <1>1, Phases, Zenon DEF ConfigInv, ConfigTypes
<1>3. Reading # Loaded /\ Spoiled # Reading /\ Spoiled # Loaded
  BY Phases
<1>4. /\ items' \in Seq(Settings)
      /\ phase' # Spoiled => AllInFields(items')
  <2>1. ASSUME NEW n, NEW its, its = [items EXCEPT ![n].value = value]
        PROVE  its \in Seq(Settings) /\ (Len(value) < ValueSize => AllInFields(its))
    <3>1. /\ DOMAIN items = 1..Len(items) /\ Len(items) \in Nat
          /\ \A i \in 1..Len(items) : items[i] \in Settings
      BY <1>2
    <3>2. \A x \in Settings : [x EXCEPT !.value = value] \in Settings
      BY DEF Settings
    <3>3. its = [i \in 1..Len(items) |-> IF i = n THEN [items[i] EXCEPT !.value = value] ELSE items[i]]
      BY <2>1, <3>1
    <3>4. \A i \in 1..Len(items) :
            (IF i = n THEN [items[i] EXCEPT !.value = value] ELSE items[i]) \in Settings
      BY <3>1, <3>2, Zenon
    <3>5. its \in Seq(Settings)
      BY <3>1, <3>3, <3>4
    <3>6. ASSUME Len(value) < ValueSize
          PROVE  AllInFields(its)
      <4>1. DOMAIN its = DOMAIN items
        BY <3>1, <3>3
      <4>2. \A x \in Settings : InFields(x) => InFields([x EXCEPT !.value = value])
        BY <3>6 DEF Settings, InFields
      <4>3. \A i \in DOMAIN its : items[i] \in Settings /\ InFields(items[i])
        BY <1>2, <3>1, <4>1, Zenon DEF AllInFields
      <4>4. \A i \in DOMAIN its : its[i] = [items[i] EXCEPT !.value = value] \/ its[i] = items[i]
        BY <3>1, <3>3, <4>1
      <4>5. \A i \in DOMAIN its : InFields(its[i])
        BY <4>2, <4>3, <4>4, Zenon
      <4>6. QED
        BY <4>5, Zenon DEF AllInFields
    <3>7. QED
      BY <3>5, <3>6
  <2>2. /\ Append(items, Item(key, value)) \in Seq(Settings)
        /\ Len(value) < ValueSize /\ Len(key) < KeySize => AllInFields(Append(items, Item(key, value)))
    <3>1. SUFFICES ASSUME NEW it, it = Item(key, value)
                   PROVE  /\ Append(items, it) \in Seq(Settings)
                          /\ Len(value) < ValueSize /\ Len(key) < KeySize => AllInFields(Append(items, it))
      BY Zenon
    <3>2. it \in Settings /\ (Len(value) < ValueSize /\ Len(key) < KeySize => InFields(it))
      BY <3>1 DEF Item, Settings, InFields
    <3>3. \A i \in DOMAIN Append(items, it) : Append(items, it)[i] \in {items[k] : k \in DOMAIN items} \cup {it}
      BY <1>2, <3>2
    <3>4. InFields(it) => \A i \in DOMAIN Append(items, it) : InFields(Append(items, it)[i])
      BY <1>2, <3>3, Zenon DEF AllInFields
    <3>5. Append(items, it) \in Seq(Settings)
      BY <1>2, <3>2
    <3>6. QED
      BY <3>2, <3>4, <3>5, Zenon DEF AllInFields
  <2>3. /\ ~ (Len(value) >= ValueSize) => Len(value) < ValueSize
        /\ ~ (Len(key) >= KeySize) => Len(key) < KeySize
    <3>1. Len(value) \in Nat /\ Len(key) \in Nat /\ ValueSize \in Nat /\ KeySize \in Nat
      BY NoText0, ConfigAssumption
    <3>2. QED
      BY <3>1
  <2>4. QED
    BY <1>1, <2>1, <2>2, <2>3, Zenon
<1>5. ConfigTypes'
  BY <1>1, <1>2, <1>3, <1>4, Zenon DEF ConfigTypes
<1>6. (AllClean' <=> AllClean) /\ (NoBlankKeys' <=> NoBlankKeys)
  BY <1>1, Zenon DEF AllClean, NoBlankKeys
<1>7. WholeKept' /\ TornKept'
  BY <1>1, <1>2, <1>3, <1>6, Zenon DEF WholeKept, TornKept
<1>8. QED
  BY <1>5, <1>7, Zenon DEF ConfigInv

LEMMA WriteConfigInv ==
  ConfigInv /\ WriteConfig => ConfigInv'
<1>1. SUFFICES ASSUME ConfigInv, WriteConfig
               PROVE  ConfigInv'
  BY Zenon
<1>2. /\ into = "config" /\ phase = Loaded
      /\ file' = FlattenSeq([i \in DOMAIN items |-> Line(items[i])])
      /\ saved' = items /\ wrote' = "whole" /\ phase' = phase /\ items' = items
  BY <1>1, Zenon DEF WriteConfig, Running
<1>3. items \in Seq(Settings) /\ AllInFields(items)
  BY <1>1, <1>2, Phases, Zenon DEF ConfigInv, ConfigTypes
<1>4. file' = FileFrom(items, 0) /\ file' \in Texts
  <2>1. 0 \in Nat /\ 0 <= Len(items)
    BY <1>3
  <2>2. FileFrom(items, 0) \in Texts
    BY <1>3, <2>1, FileFromIs, Zenon
  <2>3. QED
    BY <1>2, <1>3, <2>2, WrittenIs
<1>5. Reading # Loaded /\ Spoiled # Loaded /\ "whole" # "torn"
  <2>1. "whole" # "torn"
    BY Zenon
  <2>2. QED
    BY <2>1, Phases
<1>6. ConfigTypes'
  BY <1>2, <1>3, <1>4, <1>5, Zenon DEF ConfigTypes
<1>7. WholeKept' /\ TornKept'
  BY <1>2, <1>4, <1>5, Zenon DEF WholeKept, TornKept
<1>8. QED
  BY <1>6, <1>7, Zenon DEF ConfigInv

LEMMA CrashInv ==
  ConfigInv /\ CrashInWriteConfig => ConfigInv'
<1>1. SUFFICES ASSUME ConfigInv, CrashInWriteConfig,
                      NEW whole, whole = FlattenSeq([i \in DOMAIN items |-> Line(items[i])])
               PROVE  ConfigInv'
  BY Zenon
<1>2. /\ into = "config" /\ phase = Loaded /\ \E n \in 0..Len(whole) : file' = SubSeq(whole, 1, n)
      /\ saved' = items /\ wrote' = "torn" /\ items' = <<>> /\ changed' = FALSE
      /\ reader' = TextFileReader(file') /\ phase' = Reading
  BY <1>1, Zenon DEF CrashInWriteConfig, Running
<1>3. items \in Seq(Settings) /\ AllInFields(items)
  BY <1>1, <1>2, Phases, Zenon DEF ConfigInv, ConfigTypes
<1>4. whole = FileFrom(items, 0) /\ whole \in Texts
  <2>1. 0 \in Nat /\ 0 <= Len(items)
    BY <1>3
  <2>2. FileFrom(items, 0) \in Texts
    BY <1>3, <2>1, FileFromIs, Zenon
  <2>3. QED
    BY <1>1, <1>3, <2>2, WrittenIs
<1>5. file' \in Texts /\ IsPrefix(file', whole)
  <2>1. PICK n \in 0..Len(whole) : file' = SubSeq(whole, 1, n)
    BY <1>2
  <2>2. n \in Nat /\ n <= Len(whole)
    BY <1>4, NoText0
  <2>3. ASSUME NEW a, a = SubSeq(whole, 1, n)
        PROVE  a \in Texts /\ IsPrefix(a, whole)
    <3>1. a \in Texts /\ Len(a) = n /\ \A i \in 1..n : a[i] = whole[i]
      BY <1>4, <2>2, <2>3, FirstPart
    <3>2. QED
      BY <1>4, <2>2, <3>1, PrefixIs
  <2>4. QED
    BY <2>1, <2>3, Zenon
<1>6. Reading # Loaded /\ Spoiled # Reading /\ "whole" # "torn"
  <2>1. "whole" # "torn"
    BY Zenon
  <2>2. QED
    BY <2>1, Phases
<1>7. SoundReader(reader')
  BY <1>2, <1>5, MadeReader
<1>8. TornTo(<<>>, items, reader')
  <2>1. \A r : r = TextFileReader(file') => TornTo(<<>>, items, r)
    BY <1>3, <1>4, <1>5, AllBefore, Zenon
  <2>2. QED
    BY <1>2, <2>1, Zenon
<1>9. ConfigTypes'
  <2>1. items' \in Seq(Settings) /\ AllInFields(items')
    BY <1>2 DEF AllInFields
  <2>2. QED
    BY <1>2, <1>3, <1>5, <1>7, <2>1, Zenon DEF ConfigTypes
<1>10. WholeKept' /\ TornKept'
  BY <1>2, <1>4, <1>5, <1>6, <1>8, Zenon DEF WholeKept, TornKept
<1>11. QED
  BY <1>9, <1>10, Zenon DEF ConfigInv

(* Every step keeps the invariant: one that is not of the settings loads    *)
(* another text, and keeps doing so.                                       *)
LEMMA ConfigStepInv ==
  ConfigInv /\ [TextNext]_<<loadVars, configVars>> => ConfigInv'
<1>1. SUFFICES ASSUME ConfigInv, [TextNext]_<<loadVars, configVars>>
               PROVE  ConfigInv'
  BY Zenon
<1>2. CASE SetChar
  <2>1. PICK key \in Keys, value \in Values : Set(key, value)
    BY <1>2, Zenon DEF SetChar
  <2>2. key \in Texts /\ value \in Texts
    BY ConfigTexts
  <2>3. QED
    BY <1>1, <2>1, <2>2, SetInv
<1>3. CASE SetInteger
  <2>1. PICK key \in Keys, d \in Integers10 : \E value \in C_itoa(d) : Set(key, value)
    BY <1>3, Zenon DEF SetInteger
  <2>2. PICK value \in C_itoa(d) : Set(key, value)
    BY <2>1
  <2>3. key \in Texts /\ d \in Texts
    BY ConfigTexts
  <2>4. value \in Texts
    BY <2>3, DigitsAreTexts
  <2>5. QED
    BY <1>1, <2>2, <2>3, <2>4, SetInv
<1>4. CASE LoadNext /\ UNCHANGED configVars
  <2>1. into' = into /\ into # "config"
    BY <1>4, Zenon DEF LoadNext, ReadRow, AppendLine, AppendAndGrow, ReadBufferRow
  <2>2. QED
    BY <2>1, Zenon DEF ConfigInv
<1>5. CASE UNCHANGED <<loadVars, configVars>>
  BY <1>1, <1>5, Zenon DEF loadVars, configVars, ConfigInv, ConfigTypes, WholeKept, TornKept,
                           AllClean, NoBlankKeys
<1>6. QED
  BY <1>1, <1>2, <1>3, <1>4, <1>5, LoadItemInv, RestartInv, WriteConfigInv, CrashInv, Zenon
     DEF TextNext, ConfigNext

THEOREM ConfigAlways == TextSpec => []ConfigInv
<1>1. TextInit => ConfigInv
  BY ConfigInitInv
<1>2. ConfigInv /\ [TextNext]_<<loadVars, configVars>> => ConfigInv'
  BY ConfigStepInv
<1>3. QED
  BY <1>1, <1>2, PTL DEF TextSpec

(* Where whole texts are loaded nothing is written.                         *)
ElsewhereNothing == into # "config" => wrote = "never"

LEMMA NothingElsewhere == TextSpec => []ElsewhereNothing
<1>1. TextInit => ElsewhereNothing
  BY Zenon DEF TextInit, ConfigInit, ElsewhereNothing
<1>2. ElsewhereNothing /\ [TextNext]_<<loadVars, configVars>> => ElsewhereNothing'
  <2>1. SUFFICES ASSUME ElsewhereNothing, [TextNext]_<<loadVars, configVars>>
                 PROVE  ElsewhereNothing'
    BY Zenon
  <2>2. CASE ConfigNext
    <3>1. into' = into /\ into = "config"
      BY <2>2, Zenon DEF ConfigNext, LoadItem, Restart, SetChar, SetInteger, Set, WriteConfig,
                         CrashInWriteConfig, Running
    <3>2. QED
      BY <3>1, Zenon DEF ElsewhereNothing
  <2>3. CASE LoadNext /\ UNCHANGED configVars
    <3>1. into' = into /\ wrote' = wrote
      BY <2>3, Zenon DEF LoadNext, ReadRow, AppendLine, AppendAndGrow, ReadBufferRow, configVars
    <3>2. QED
      BY <2>1, <3>1, Zenon DEF ElsewhereNothing
  <2>4. CASE UNCHANGED <<loadVars, configVars>>
    BY <2>1, <2>4, Zenon DEF loadVars, configVars, ElsewhereNothing
  <2>5. QED
    BY <2>1, <2>2, <2>3, <2>4, Zenon DEF TextNext
<1>3. QED
  BY <1>1, <1>2, PTL DEF TextSpec

(* What WriteConfig has written is what the next start reads, for every     *)
(* size of the buffers and wherever the pieces of the reader end.           *)
THEOREM RoundTripAlways == TextSpec => []RoundTrip
<1>1. ConfigInv /\ ElsewhereNothing => RoundTrip
  <2>1. SUFFICES ASSUME ConfigInv, ElsewhereNothing, wrote = "whole", ~ changed, ~ file_not_found, AllClean
                 PROVE  phase # Spoiled /\ (Running => items = saved)
    BY Zenon DEF RoundTrip
  <2>2. "whole" # "never"
    BY Zenon
  <2>3. into = "config"
    BY <2>1, <2>2, Zenon DEF ElsewhereNothing
  <2>4. WholeKept
    BY <2>1, <2>3, Zenon DEF ConfigInv
  <2>5. QED
    BY <2>1, <2>4, Zenon DEF WholeKept, Running
<1>2. QED
  BY <1>1, ConfigAlways, NothingElsewhere, PTL

(* A process that ends inside WriteConfig costs settings at the end and     *)
(* part of one value, wherever it ends.                                    *)
THEOREM CrashKeepsPrefixAlways == TextSpec => []CrashKeepsPrefix
<1>1. ConfigInv /\ ElsewhereNothing => CrashKeepsPrefix
  <2>1. SUFFICES ASSUME ConfigInv, ElsewhereNothing, wrote = "torn", ~ changed, AllClean, NoBlankKeys
                 PROVE  phase # Spoiled /\ (Running => Survives(items, saved))
    BY Zenon DEF CrashKeepsPrefix, Survives
  <2>2. "torn" # "never"
    BY Zenon
  <2>3. into = "config"
    BY <2>1, <2>2, Zenon DEF ElsewhereNothing
  <2>4. TornKept
    BY <2>1, <2>3, Zenon DEF ConfigInv
  <2>5. QED
    BY <2>1, <2>4, Zenon DEF TornKept, Running
<1>2. QED
  BY <1>1, ConfigAlways, NothingElsewhere, PTL

-----------------------------------------------------------------------------
(* BehindMark the first newline of a text.                                      *)
NextLine(x) == IF strstr(x, <<Newline>>) = 0 THEN <<>> ELSE From(x, strstr(x, <<Newline>>) + 1)

LEMMA NextLineIs ==
  ASSUME NEW x \in Texts
  PROVE  /\ NextLine(x) \in Texts
         /\ strstr(x, <<Newline>>) \in Nat
         /\ strstr(x, <<Newline>>) # 0 => /\ Len(NextLine(x)) < Len(x)
                                         /\ NextLine(x) = From(x, strstr(x, <<Newline>>) + 1)
<1>1. SUFFICES ASSUME NEW k, k = strstr(x, <<Newline>>), NEW n, n = NextLine(x)
               PROVE  /\ n \in Texts /\ k \in Nat
                      /\ k # 0 => Len(n) < Len(x) /\ n = From(x, k + 1)
  BY Zenon
<1>2. k \in 0..Len(x) /\ Len(x) \in Nat
  BY <1>1, LineIs, NoText0
<1>3. CASE k = 0
  BY <1>1, <1>2, <1>3, Nothing DEF NextLine
<1>4. CASE k # 0
  <2>1. k > 0
    BY <1>2, <1>4
  <2>2. n = From(x, k + 1)
    BY <1>1, <1>4, Zenon DEF NextLine
  <2>3. From(x, k + 1) \in Texts /\ Len(From(x, k + 1)) = Len(x) - k
    BY <1>1, <2>1, LineIs
  <2>4. QED
    BY <1>2, <2>1, <2>2, <2>3
<1>5. QED
  BY <1>3, <1>4

(* What is made of a text and of what has been made behind its first line   *)
(* exists for every text,                                                  *)
Behaves(h, R, made) == h \in [Texts -> R] /\ \A x \in Texts : h[x] = made[x][h[NextLine(x)]]

LEMMA WalkExists ==
  ASSUME NEW R, NEW made \in [Texts -> [R -> R]], NEW r0 \in R,
         \A x \in Texts : strstr(x, <<Newline>>) = 0 => \A r, s \in R : made[x][r] = made[x][s]
  PROVE  \E h : Behaves(h, R, made)
<1> DEFINE length == [x \in Texts |-> Len(x)]
           next == [x \in Texts |-> NextLine(x)]
<1>1. length \in [Texts -> Nat] /\ next \in [Texts -> Texts]
  <2>1. \A x \in Texts : Len(x) \in Nat /\ NextLine(x) \in Texts
    BY NoText0, NextLineIs
  <2>2. QED
    BY <2>1
<1>2. ASSUME NEW x \in Texts
      PROVE  Stops(x, Texts, R, length, next, made)
  <2>1. CASE strstr(x, <<Newline>>) # 0
    <3>1. NextLine(x) \in Texts /\ Len(NextLine(x)) < Len(x)
      BY <2>1, NextLineIs
    <3>2. length[next[x]] < length[x]
      BY <3>1
    <3> HIDE DEF length, next
    <3>3. QED
      BY <3>2 DEF Stops
  <2>2. CASE strstr(x, <<Newline>>) = 0
    BY <2>2 DEF Stops
  <2>3. QED
    BY <2>1, <2>2
<1>3. PICK h : Recurs(h, Texts, R, next, made)
  <2> HIDE DEF length, next
  <2>1. QED
    BY <1>1, <1>2, TailRecursion
<1>4. h \in [Texts -> R] /\ \A x \in Texts : h[x] = made[x][h[next[x]]]
  BY <1>3 DEF Recurs
<1>5. \A x \in Texts : next[x] = NextLine(x)
  OBVIOUS
<1> HIDE DEF next
<1>6. Behaves(h, R, made)
  BY <1>4, <1>5 DEF Behaves
<1>7. QED
  BY <1>6

(* and has the type that one line keeps.                                    *)
LEMMA WalkTyped ==
  ASSUME NEW R, NEW g,
         \A x \in Texts : strstr(x, <<Newline>>) = 0 \/ g[NextLine(x)] \in R => g[x] \in R
  PROVE  \A x \in Texts : g[x] \in R
<1> DEFINE T == {x \in Texts : g[x] \in R}
<1>1. ASSUME NEW x \in Texts, \A y \in Texts : Len(y) < Len(x) => y \in T
      PROVE  x \in T
  <2>1. CASE strstr(x, <<Newline>>) = 0
    BY <2>1
  <2>2. CASE strstr(x, <<Newline>>) # 0
    <3>1. NextLine(x) \in T
      <4>1. NextLine(x) \in Texts /\ Len(NextLine(x)) < Len(x)
        BY <2>2, NextLineIs
      <4> HIDE DEF T
      <4>2. QED
        BY <1>1, <4>1
    <3>2. QED
      BY <3>1
  <2>3. QED
    BY <2>1, <2>2
<1> HIDE DEF T
<1>2. \A x \in Texts : x \in T
  BY <1>1, ShorterTexts
<1>3. QED
  BY <1>2 DEF T

(* One line of each walk.                                                  *)
EndedOnto(x, r) == IF strstr(x, <<Newline>>) = 0 THEN <<>> ELSE <<Before(x, strstr(x, <<Newline>>))>> \o r

LastOnto(x, r) == IF strstr(x, <<Newline>>) = 0 THEN x ELSE r

InkOf(line) == IF line = <<>> THEN <<>> ELSE <<line>>

InkOnto(x, r) ==
  IF strstr(x, <<Newline>>) = 0 THEN <<>> ELSE InkOf(Plain(Before(x, strstr(x, <<Newline>>)))) \o r

LEMMA InkOntoIs ==
  ASSUME NEW x \in Texts
  PROVE  /\ \A r \in Seq(Texts) : EndedOnto(x, r) \in Seq(Texts) /\ InkOnto(x, r) \in Seq(Texts)
         /\ \A r \in Texts : LastOnto(x, r) \in Texts
         /\ strstr(x, <<Newline>>) = 0 => \A r, s : /\ EndedOnto(x, r) = EndedOnto(x, s)
                                                    /\ InkOnto(x, r) = InkOnto(x, s)
                                                    /\ LastOnto(x, r) = LastOnto(x, s)
<1>1. ASSUME strstr(x, <<Newline>>) = 0, NEW r, NEW s
      PROVE  /\ EndedOnto(x, r) = EndedOnto(x, s)
             /\ InkOnto(x, r) = InkOnto(x, s)
             /\ LastOnto(x, r) = LastOnto(x, s)
  BY <1>1, Zenon DEF EndedOnto, InkOnto, LastOnto
<1>2. ASSUME NEW r \in Texts
      PROVE  LastOnto(x, r) \in Texts
  BY <1>2 DEF LastOnto
<1>3. ASSUME NEW r \in Seq(Texts)
      PROVE  EndedOnto(x, r) \in Seq(Texts) /\ InkOnto(x, r) \in Seq(Texts)
  <2>1. CASE strstr(x, <<Newline>>) = 0
    <3>1. EndedOnto(x, r) = <<>> /\ InkOnto(x, r) = <<>>
      BY <2>1, Zenon DEF EndedOnto, InkOnto
    <3>2. QED
      BY <3>1
  <2>2. CASE strstr(x, <<Newline>>) # 0
    <3>1. SUFFICES ASSUME NEW l, l = Before(x, strstr(x, <<Newline>>))
                   PROVE  <<l>> \o r \in Seq(Texts) /\ InkOf(Plain(l)) \o r \in Seq(Texts)
      BY <2>2, Zenon DEF EndedOnto, InkOnto
    <3>2. l \in Texts
      <4>1. \A k : k = strstr(x, <<Newline>>) => (k > 0 => Before(x, k) \in Texts)
        BY LineIs
      <4>2. strstr(x, <<Newline>>) > 0
        BY <2>2, NextLineIs
      <4>3. QED
        BY <3>1, <4>1, <4>2, Zenon
    <3>3. InkOf(Plain(l)) \in Seq(Texts)
      <4>1. Plain(l) \in Texts
        BY <3>2, PlainIs
      <4>2. \A p \in Texts : <<p>> \in Seq(Texts)
        OBVIOUS
      <4>3. <<>> \in Seq(Texts)
        OBVIOUS
      <4>4. QED
        BY <4>1, <4>2, <4>3, Zenon DEF InkOf
    <3>4. <<l>> \in Seq(Texts)
      BY <3>2
    <3>5. QED
      BY <3>3, <3>4
  <2>3. QED
    BY <2>1, <2>2
<1>4. QED
  BY <1>1, <1>2, <1>3

LEMMA EndedSteps ==
  \A x \in Texts : EndedLines(x) \in Seq(Texts) /\ EndedLines(x) = EndedOnto(x, EndedLines(NextLine(x)))
<1> DEFINE R == Seq(Texts)
           made == [x \in Texts |-> [r \in R |-> EndedOnto(x, r)]]
           Body(h) == [rest \in Texts |-> EndedOnto(rest, h[NextLine(rest)])]
           g == CHOOSE h : h = Body(h)
<1>1. made \in [Texts -> [R -> R]]
  <2>1. \A x \in Texts, r \in R : EndedOnto(x, r) \in R
    BY InkOntoIs
  <2> HIDE DEF R
  <2>2. QED
    BY <2>1
<1>2. \A x \in Texts, r \in R : made[x][r] = EndedOnto(x, r)
  OBVIOUS
<1>3. <<>> \in R
  OBVIOUS
<1>4. PICK h : Behaves(h, R, made)
  <2> HIDE DEF made, R
  <2>1. \A x \in Texts : strstr(x, <<Newline>>) = 0 => \A r, s \in R : made[x][r] = made[x][s]
    <3>1. ASSUME NEW x \in Texts, strstr(x, <<Newline>>) = 0, NEW r \in R, NEW s \in R
          PROVE  made[x][r] = made[x][s]
      <4>1. \A a, b : EndedOnto(x, a) = EndedOnto(x, b)
        BY <3>1, InkOntoIs
      <4>2. QED
        BY <1>2, <3>1, <4>1, Zenon
    <3>2. QED
      BY <3>1
  <2>2. QED
    BY <1>1, <1>3, <2>1, WalkExists
<1>5. h = Body(h)
  <2> HIDE DEF made, R
  <2>1. h \in [Texts -> R] /\ \A x \in Texts : h[x] = made[x][h[NextLine(x)]]
    BY <1>4 DEF Behaves
  <2>2. ASSUME NEW x \in Texts
        PROVE  h[x] = EndedOnto(x, h[NextLine(x)])
    <3>1. h[NextLine(x)] \in R
      BY <2>1, NextLineIs
    <3>2. QED
      BY <1>2, <2>1, <3>1
  <2>3. QED
    BY <2>1, <2>2
<1>6. g = Body(g)
  <2> HIDE DEF Body
  <2>1. QED
    BY <1>5
<1>7. ASSUME NEW x
      PROVE  EndedLines(x) = g[x]
  BY DEF EndedLines, EndedOnto, NextLine, Texts
<1>8. ASSUME NEW x \in Texts
      PROVE  g[x] = EndedOnto(x, g[NextLine(x)])
  <2>1. Body(g)[x] = EndedOnto(x, g[NextLine(x)])
    OBVIOUS
  <2> HIDE DEF g, Body
  <2>2. QED
    BY <1>6, <2>1
<1> HIDE DEF g, Body, made, R
<1>9. \A x \in Texts : g[x] \in R
  <2>1. ASSUME NEW x \in Texts, strstr(x, <<Newline>>) = 0 \/ g[NextLine(x)] \in R
        PROVE  g[x] \in R
    <3>1. \A r \in R : EndedOnto(x, r) \in R
      BY InkOntoIs DEF R
    <3>2. strstr(x, <<Newline>>) = 0 => EndedOnto(x, g[NextLine(x)]) = EndedOnto(x, <<>>)
      BY InkOntoIs
    <3>3. QED
      BY <1>3, <1>8, <2>1, <3>1, <3>2
  <2>2. QED
    BY <2>1, WalkTyped
<1>10. QED
  BY <1>7, <1>8, <1>9 DEF R

LEMMA LastSteps ==
  \A x \in Texts : LastLine(x) \in Texts /\ LastLine(x) = LastOnto(x, LastLine(NextLine(x)))
<1> DEFINE R == Texts
           made == [x \in Texts |-> [r \in R |-> LastOnto(x, r)]]
           Body(h) == [rest \in Texts |-> LastOnto(rest, h[NextLine(rest)])]
           g == CHOOSE h : h = Body(h)
<1>1. made \in [Texts -> [R -> R]]
  <2>1. \A x \in Texts, r \in R : LastOnto(x, r) \in R
    BY InkOntoIs
  <2> HIDE DEF R
  <2>2. QED
    BY <2>1
<1>2. \A x \in Texts, r \in R : made[x][r] = LastOnto(x, r)
  OBVIOUS
<1>3. <<>> \in R
  BY Nothing
<1>4. PICK h : Behaves(h, R, made)
  <2> HIDE DEF made, R
  <2>1. \A x \in Texts : strstr(x, <<Newline>>) = 0 => \A r, s \in R : made[x][r] = made[x][s]
    <3>1. ASSUME NEW x \in Texts, strstr(x, <<Newline>>) = 0, NEW r \in R, NEW s \in R
          PROVE  made[x][r] = made[x][s]
      <4>1. \A a, b : LastOnto(x, a) = LastOnto(x, b)
        BY <3>1, InkOntoIs
      <4>2. QED
        BY <1>2, <3>1, <4>1, Zenon
    <3>2. QED
      BY <3>1
  <2>2. QED
    BY <1>1, <1>3, <2>1, WalkExists
<1>5. h = Body(h)
  <2> HIDE DEF made, R
  <2>1. h \in [Texts -> R] /\ \A x \in Texts : h[x] = made[x][h[NextLine(x)]]
    BY <1>4 DEF Behaves
  <2>2. ASSUME NEW x \in Texts
        PROVE  h[x] = LastOnto(x, h[NextLine(x)])
    <3>1. h[NextLine(x)] \in R
      BY <2>1, NextLineIs
    <3>2. QED
      BY <1>2, <2>1, <3>1
  <2>3. QED
    BY <2>1, <2>2
<1>6. g = Body(g)
  <2> HIDE DEF Body
  <2>1. QED
    BY <1>5
<1>7. ASSUME NEW x
      PROVE  LastLine(x) = g[x]
  BY DEF LastLine, LastOnto, NextLine, Texts
<1>8. ASSUME NEW x \in Texts
      PROVE  g[x] = LastOnto(x, g[NextLine(x)])
  <2>1. Body(g)[x] = LastOnto(x, g[NextLine(x)])
    OBVIOUS
  <2> HIDE DEF g, Body
  <2>2. QED
    BY <1>6, <2>1
<1> HIDE DEF g, Body, made, R
<1>9. \A x \in Texts : g[x] \in R
  <2>1. ASSUME NEW x \in Texts, strstr(x, <<Newline>>) = 0 \/ g[NextLine(x)] \in R
        PROVE  g[x] \in R
    <3>1. \A r \in R : LastOnto(x, r) \in R
      BY InkOntoIs DEF R
    <3>2. strstr(x, <<Newline>>) = 0 => LastOnto(x, g[NextLine(x)]) = LastOnto(x, <<>>)
      BY InkOntoIs
    <3>3. QED
      BY <1>3, <1>8, <2>1, <3>1, <3>2
  <2>2. QED
    BY <2>1, WalkTyped
<1>10. QED
  BY <1>7, <1>8, <1>9 DEF R

LEMMA InkSteps ==
  \A x \in Texts : InkLines(x) \in Seq(Texts) /\ InkLines(x) = InkOnto(x, InkLines(NextLine(x)))
<1> DEFINE R == Seq(Texts)
           made == [x \in Texts |-> [r \in R |-> InkOnto(x, r)]]
           Body(h) == [rest \in Texts |-> InkOnto(rest, h[NextLine(rest)])]
           g == CHOOSE h : h = Body(h)
<1>1. made \in [Texts -> [R -> R]]
  <2>1. \A x \in Texts, r \in R : InkOnto(x, r) \in R
    BY InkOntoIs
  <2> HIDE DEF R
  <2>2. QED
    BY <2>1
<1>2. \A x \in Texts, r \in R : made[x][r] = InkOnto(x, r)
  OBVIOUS
<1>3. <<>> \in R
  OBVIOUS
<1>4. PICK h : Behaves(h, R, made)
  <2> HIDE DEF made, R
  <2>1. \A x \in Texts : strstr(x, <<Newline>>) = 0 => \A r, s \in R : made[x][r] = made[x][s]
    <3>1. ASSUME NEW x \in Texts, strstr(x, <<Newline>>) = 0, NEW r \in R, NEW s \in R
          PROVE  made[x][r] = made[x][s]
      <4>1. \A a, b : InkOnto(x, a) = InkOnto(x, b)
        BY <3>1, InkOntoIs
      <4>2. QED
        BY <1>2, <3>1, <4>1, Zenon
    <3>2. QED
      BY <3>1
  <2>2. QED
    BY <1>1, <1>3, <2>1, WalkExists
<1>5. h = Body(h)
  <2> HIDE DEF made, R
  <2>1. h \in [Texts -> R] /\ \A x \in Texts : h[x] = made[x][h[NextLine(x)]]
    BY <1>4 DEF Behaves
  <2>2. ASSUME NEW x \in Texts
        PROVE  h[x] = InkOnto(x, h[NextLine(x)])
    <3>1. h[NextLine(x)] \in R
      BY <2>1, NextLineIs
    <3>2. QED
      BY <1>2, <2>1, <3>1
  <2>3. QED
    BY <2>1, <2>2
<1>6. g = Body(g)
  <2> HIDE DEF Body
  <2>1. QED
    BY <1>5
<1>7. ASSUME NEW x
      PROVE  InkLines(x) = g[x]
  BY DEF InkLines, InkOnto, InkOf, NextLine, Texts
<1>8. ASSUME NEW x \in Texts
      PROVE  g[x] = InkOnto(x, g[NextLine(x)])
  <2>1. Body(g)[x] = InkOnto(x, g[NextLine(x)])
    OBVIOUS
  <2> HIDE DEF g, Body
  <2>2. QED
    BY <1>6, <2>1
<1> HIDE DEF g, Body, made, R
<1>9. \A x \in Texts : g[x] \in R
  <2>1. ASSUME NEW x \in Texts, strstr(x, <<Newline>>) = 0 \/ g[NextLine(x)] \in R
        PROVE  g[x] \in R
    <3>1. \A r \in R : InkOnto(x, r) \in R
      BY InkOntoIs DEF R
    <3>2. strstr(x, <<Newline>>) = 0 => InkOnto(x, g[NextLine(x)]) = InkOnto(x, <<>>)
      BY InkOntoIs
    <3>3. QED
      BY <1>3, <1>8, <2>1, <3>1, <3>2
  <2>2. QED
    BY <2>1, WalkTyped
<1>10. QED
  BY <1>7, <1>8, <1>9 DEF R

(* The lines without their return characters, and one behind another with a *)
(* newline after each.                                                     *)
PlainLines(x) == [i \in DOMAIN EndedLines(x) |-> Plain(EndedLines(x)[i])]

WithEnds(lines) == [i \in DOMAIN lines |-> Append(lines[i], Newline)]

EndedText(x) == FlattenSeq(WithEnds(PlainLines(x)))

LinesTyped(x) ==
  /\ EndedLines(x) \in Seq(Texts) /\ InkLines(x) \in Seq(Texts) /\ LastLine(x) \in Texts
  /\ PlainLines(x) \in Seq(Texts) /\ Len(PlainLines(x)) = Len(EndedLines(x))
  /\ \A i \in 1..Len(EndedLines(x)) : PlainLines(x)[i] = Plain(EndedLines(x)[i])
  /\ EndedText(x) \in Texts

LEMMA LineEnds ==
  ASSUME NEW t \in Texts
  PROVE  Append(t, Newline) \in Texts /\ Append(t, Newline) = t \o <<Newline>>
<1>1. Newline \in STRING
  BY Characters
<1>2. t \in Seq(STRING)
  BY DEF Texts
<1>3. Append(t, Newline) = t \o <<Newline>>
  BY <1>1, <1>2, AppendIsConcat
<1>4. t \o <<Newline>> \in Texts
  BY Characters, JoinIs
<1>5. QED
  BY <1>3, <1>4

LEMMA EndsAre ==
  ASSUME NEW p \in Seq(Texts)
  PROVE  /\ WithEnds(p) \in Seq(Texts) /\ Len(WithEnds(p)) = Len(p)
         /\ \A i \in 1..Len(p) : WithEnds(p)[i] = Append(p[i], Newline)
<1>1. Len(p) \in Nat /\ DOMAIN p = 1..Len(p)
  OBVIOUS
<1>2. \A i \in 1..Len(p) : Append(p[i], Newline) \in Texts
  <2>1. \A i \in 1..Len(p) : p[i] \in Texts
    OBVIOUS
  <2>2. QED
    BY <2>1, LineEnds
<1>3. WithEnds(p) \in [1..Len(p) -> Texts] /\ \A i \in 1..Len(p) : WithEnds(p)[i] = Append(p[i], Newline)
  BY <1>1, <1>2, Zenon DEF WithEnds
<1>4. \A n \in Nat : \A f \in [1..n -> Texts] : f \in Seq(Texts) /\ Len(f) = n
  OBVIOUS
<1>5. QED
  BY <1>1, <1>3, <1>4, Zenon

LEMMA EndsFlatten ==
  ASSUME NEW a \in Texts, NEW q \in Seq(Texts)
  PROVE  FlattenSeq(WithEnds(<<a>> \o q)) = Append(a, Newline) \o FlattenSeq(WithEnds(q))
<1>1. SUFFICES ASSUME NEW p, p = <<a>> \o q, NEW f, f = WithEnds(p), NEW g, g = WithEnds(q)
               PROVE  FlattenSeq(f) = Append(a, Newline) \o FlattenSeq(g)
  BY Zenon
<1>2. /\ p \in Seq(Texts) /\ Len(p) = Len(q) + 1 /\ p[1] = a /\ Len(q) \in Nat
      /\ \A i \in 1..Len(q) : p[i + 1] = q[i]
  <2>1. Len(<<a>>) = 1 /\ <<a>>[1] = a /\ <<a>> \in Seq(Texts)
    OBVIOUS
  <2>2. QED
    BY <1>1, <2>1
<1>3. /\ f \in Seq(Texts) /\ Len(f) = Len(p) /\ \A i \in 1..Len(p) : f[i] = Append(p[i], Newline)
      /\ g \in Seq(Texts) /\ Len(g) = Len(q) /\ \A i \in 1..Len(q) : g[i] = Append(q[i], Newline)
  BY <1>1, <1>2, EndsAre
<1>4. Append(a, Newline) \in Texts
  BY LineEnds
<1>5. Len(f) = Len(g) + 1 /\ f[1] = Append(a, Newline)
  BY <1>2, <1>3
<1>6. ASSUME NEW i \in 1..Len(g)
      PROVE  f[i + 1] = g[i]
  <2>1. i \in 1..Len(q) /\ i + 1 \in 1..Len(p)
    BY <1>2, <1>3
  <2>2. f[i + 1] = Append(p[i + 1], Newline) /\ g[i] = Append(q[i], Newline) /\ p[i + 1] = q[i]
    BY <1>2, <1>3, <2>1
  <2>3. QED
    BY <2>2, Zenon
<1>7. QED
  BY <1>3, <1>4, <1>5, <1>6, FlattenHead

LEMMA LinesType ==
  \A x \in Texts : LinesTyped(x)
<1>1. SUFFICES ASSUME NEW x \in Texts
               PROVE  LinesTyped(x)
  OBVIOUS
<1>2. EndedLines(x) \in Seq(Texts) /\ InkLines(x) \in Seq(Texts) /\ LastLine(x) \in Texts
  BY EndedSteps, InkSteps, LastSteps
<1>3. /\ PlainLines(x) \in Seq(Texts) /\ Len(PlainLines(x)) = Len(EndedLines(x))
      /\ \A i \in 1..Len(EndedLines(x)) : PlainLines(x)[i] = Plain(EndedLines(x)[i])
  <2>1. SUFFICES ASSUME NEW e \in Seq(Texts), NEW p, p = [i \in DOMAIN e |-> Plain(e[i])]
                 PROVE  p \in Seq(Texts) /\ Len(p) = Len(e) /\ \A i \in 1..Len(e) : p[i] = Plain(e[i])
    BY <1>2, Zenon DEF PlainLines
  <2>2. \A i \in 1..Len(e) : Plain(e[i]) \in Texts
    BY PlainIs
  <2>3. QED
    BY <2>1, <2>2
<1>4. WithEnds(PlainLines(x)) \in Seq(Texts)
  BY <1>3, EndsAre
<1>5. EndedText(x) \in Texts
  BY <1>4, FlattenType DEF EndedText
<1>6. QED
  BY <1>2, <1>3, <1>4, <1>5, Zenon DEF LinesTyped

LEMMA NoLines ==
  ASSUME NEW x \in Texts, strstr(x, <<Newline>>) = 0
  PROVE  /\ PlainLines(x) = <<>> /\ EndedText(x) = <<>> /\ InkLines(x) = <<>> /\ LastLine(x) = x
         /\ EndedLines(x) = <<>>
<1>1. EndedLines(x) = <<>> /\ InkLines(x) = <<>> /\ LastLine(x) = x
  BY EndedSteps, InkSteps, LastSteps, Zenon DEF EndedOnto, InkOnto, LastOnto
<1>2. PlainLines(x) = <<>>
  <2>1. PlainLines(x) \in Seq(Texts) /\ Len(PlainLines(x)) = Len(<<>>)
    BY <1>1, LinesType, Zenon DEF LinesTyped
  <2>2. QED
    BY <2>1
<1>3. EndedText(x) = <<>>
  <2>1. WithEnds(<<>>) \in Seq(Texts) /\ Len(WithEnds(<<>>)) = Len(<<>>)
    <3>1. <<>> \in Seq(Texts)
      OBVIOUS
    <3>2. QED
      BY <3>1, EndsAre
  <2>2. WithEnds(<<>>) = <<>>
    BY <2>1
  <2>3. FlattenSeq(<<>>) = <<>>
    BY DEF FlattenSeq
  <2>4. QED
    BY <1>2, <2>2, <2>3, Zenon DEF EndedText
<1>4. QED
  BY <1>1, <1>2, <1>3

(* The first line l of a text, and y behind it.                             *)
LineFirst(x, l, y) ==
  /\ l \in Texts /\ y \in Texts
  /\ EndedLines(x) = <<l>> \o EndedLines(y)
  /\ PlainLines(x) = <<Plain(l)>> \o PlainLines(y)
  /\ EndedText(x) = Append(Plain(l), Newline) \o EndedText(y)
  /\ InkLines(x) = InkOf(Plain(l)) \o InkLines(y)
  /\ LastLine(x) = LastLine(y)

LEMMA FirstLine ==
  ASSUME NEW x \in Texts, NEW k, k = strstr(x, <<Newline>>), k # 0
  PROVE  LineFirst(x, Before(x, k), From(x, k + 1))
<1>1. SUFFICES ASSUME NEW l, l = Before(x, k), NEW y, y = From(x, k + 1)
               PROVE  LineFirst(x, l, y)
  BY Zenon
<1>2. l \in Texts /\ y \in Texts /\ y = NextLine(x)
  <2>1. k > 0
    BY NextLineIs
  <2>2. y = NextLine(x)
    BY <1>1, Zenon DEF NextLine
  <2>3. QED
    BY <1>1, <2>1, <2>2, LineIs
<1>3. /\ EndedLines(x) = <<l>> \o EndedLines(y)
      /\ InkLines(x) = InkOf(Plain(l)) \o InkLines(y)
      /\ LastLine(x) = LastLine(y)
  BY <1>1, <1>2, EndedSteps, InkSteps, LastSteps, Zenon DEF EndedOnto, InkOnto, LastOnto
<1>4. PlainLines(x) = <<Plain(l)>> \o PlainLines(y)
  <2>1. SUFFICES ASSUME NEW e \in Seq(Texts), NEW f \in Seq(Texts), e = <<l>> \o f,
                        NEW p \in Seq(Texts), NEW q \in Seq(Texts), Len(p) = Len(e), Len(q) = Len(f),
                        \A i \in 1..Len(e) : p[i] = Plain(e[i]), \A i \in 1..Len(f) : q[i] = Plain(f[i])
                 PROVE  p = <<Plain(l)>> \o q
    <3>1. LinesTyped(x) /\ LinesTyped(y)
      BY <1>2, LinesType, Zenon
    <3>2. QED
      BY <1>3, <3>1, Zenon DEF LinesTyped
  <2>2. Len(e) = Len(f) + 1 /\ e[1] = l /\ \A i \in 1..Len(f) : e[i + 1] = f[i]
    BY <1>2, <2>1
  <2>3. p[1] = Plain(l) /\ \A i \in 1..Len(f) : p[i + 1] = q[i]
    <3>1. Len(f) \in Nat /\ 1 \in 1..Len(e)
      BY <2>1, <2>2
    <3>2. p[1] = Plain(l)
      BY <2>1, <2>2, <3>1
    <3>3. ASSUME NEW i \in 1..Len(f), NEW n, n = i + 1
          PROVE  p[n] = q[i]
      <4>1. n \in 1..Len(e)
        BY <2>2, <3>1, <3>3
      <4>2. p[n] = Plain(e[n]) /\ e[n] = f[i] /\ q[i] = Plain(f[i])
        BY <2>1, <2>2, <3>3, <4>1
      <4>3. QED
        BY <4>2
    <3>4. QED
      BY <3>2, <3>3
  <2>4. SUFFICES ASSUME NEW a \in Texts, a = Plain(l)
                 PROVE  p = <<a>> \o q
    <3>1. Plain(l) \in Texts
      BY <1>2, PlainIs
    <3>2. QED
      BY <3>1, Zenon
  <2>5. Len(<<a>> \o q) = Len(q) + 1 /\ <<a>> \o q \in Seq(Texts)
    BY <2>4
  <2>6. ASSUME NEW i \in 1..Len(p)
        PROVE  p[i] = (<<a>> \o q)[i]
    <3>1. CASE i = 1
      BY <2>1, <2>3, <2>4, <3>1
    <3>2. CASE i # 1
      <4>1. i - 1 \in 1..Len(f) /\ (i - 1) + 1 = i
        BY <2>1, <2>2, <3>2
      <4>2. (<<a>> \o q)[i] = q[i - 1]
        BY <2>1, <2>4, <3>2, <4>1
      <4>3. QED
        BY <2>3, <4>1, <4>2
    <3>3. QED
      BY <3>1, <3>2
  <2>7. Len(p) = Len(<<a>> \o q)
    BY <2>1, <2>2, <2>5
  <2>8. SUFFICES ASSUME NEW s \in Seq(Texts), s = <<a>> \o q, Len(p) = Len(s), \A i \in 1..Len(p) : p[i] = s[i]
                 PROVE  p = s
    BY <2>5, <2>6, <2>7, Zenon
  <2>9. QED
    BY <2>1, <2>8, SeqEqual
<1>5. EndedText(x) = Append(Plain(l), Newline) \o EndedText(y)
  <2>1. Plain(l) \in Texts /\ PlainLines(y) \in Seq(Texts)
    <3>1. LinesTyped(y) /\ Plain(l) \in Texts
      BY <1>2, LinesType, PlainIs
    <3>2. QED
      BY <3>1, Zenon DEF LinesTyped
  <2>2. \A a \in Texts, q \in Seq(Texts) :
          FlattenSeq(WithEnds(<<a>> \o q)) = Append(a, Newline) \o FlattenSeq(WithEnds(q))
    BY EndsFlatten
  <2>3. QED
    BY <1>4, <2>1, <2>2, Zenon DEF EndedText
<1>6. QED
  BY <1>2, <1>3, <1>4, <1>5, Zenon DEF LineFirst

-----------------------------------------------------------------------------
(* What is in the rows, or behind the text, when a reader has the text w    *)
(* before it: what is made of the whole file, but for what will be made of w.*)
LEMMA RowsJoin ==
  ASSUME NEW s \in Seq(Texts), NEW t \in Seq(Texts), NEW u \in Seq(Texts)
  PROVE  /\ s \o t \in Seq(Texts) /\ (s \o t) \o u = s \o (t \o u)
         /\ s \o <<>> = s /\ <<>> \o s = s
         /\ Len(s \o t) = Len(s) + Len(t) /\ Len(s) \in Nat /\ Len(t) \in Nat
         /\ IsPrefix(s, s \o t)
         /\ s \o t = <<>> => s = <<>>
<1>1. s \o t \in Seq(Texts) /\ Len(s \o t) = Len(s) + Len(t) /\ Len(s) \in Nat /\ Len(t) \in Nat
  OBVIOUS
<1>2. (s \o t) \o u = s \o (t \o u)
  BY ConcatAssociative
<1>3. s \o <<>> = s /\ <<>> \o s = s
  BY ConcatEmptySeq
<1>4. IsPrefix(s, s \o t)
  <2>1. SUFFICES ASSUME NEW v, v = s \o t
                 PROVE  Len(s) <= Len(v) /\ SubSeq(s, 1, Len(s)) = SubSeq(v, 1, Len(s))
    BY Zenon DEF IsPrefix
  <2>2. v \in Seq(Texts) /\ Len(v) = Len(s) + Len(t) /\ \A i \in 1..Len(s) : v[i] = s[i]
    BY <2>1
  <2>3. QED
    BY <2>2
<1>5. s \o t = <<>> => s = <<>>
  <2>1. ASSUME s \o t = <<>>
        PROVE  Len(s) = 0
    BY <1>1, <2>1
  <2>2. QED
    BY <2>1
<1>6. QED
  BY <1>1, <1>2, <1>3, <1>4, <1>5

LEMMA LineGot ==
  ASSUME NEW r, SoundReader(r), NEW cap \in Nat, NEW o, o = TextFileReader_GetLine(r, cap),
         NEW w, w = Unread(r), NEW k, k = strstr(w, <<Newline>>)
  PROVE  /\ w \in Texts /\ k \in Nat /\ o.text \in Texts /\ RoomFor(Len(o.text), cap)
         /\ k # 0 => LineTold(w, k, cap, o)
         /\ k = 0 => EndTold(w, cap, o)
<1>1. w \in Texts
  BY RefillReads
<1>2. k \in Nat
  BY <1>1, NextLineIs
<1>3. Told(w, cap, o)
  BY GetLineIs
<1>4. k # 0 => k > 0
  BY <1>2
<1>5. QED
  BY <1>1, <1>2, <1>3, <1>4, Zenon DEF Told

RowsToCome(s, x, r) == s \o PlainLines(Unread(r)) = PlainLines(x) /\ LastLine(Unread(r)) = LastLine(x)

(* BehindMark the lines of the file there is a row of the line that is not      *)
(* ended.                                                                  *)
OneRowMore(s, x) == \E p \in Texts : s = PlainLines(x) \o <<p>> /\ IsPrefix(Until(LastLine(x), <<Return>>), p)

Filling(s, x, r) == RowsToCome(s, x, r) \/ (Unread(r) = <<>> /\ OneRowMore(s, x))

FilledUp(s, x) == s = PlainLines(x) \/ OneRowMore(s, x)

LEMMA RowFilled ==
  ASSUME NEW x \in Texts, NEW s \in Seq(Texts), NEW r, SoundReader(r), Filling(s, x, r),
         NEW o, o = TextFileReader_GetLine(r, 0)
  PROVE  /\ o.text \in Texts
         /\ o.ret > 0 => SoundReader(o.reader) /\ Filling(s \o <<o.text>>, x, o.reader)
         /\ ~ (o.ret > 0) => FilledUp(IF s = <<>> THEN s \o <<o.text>> ELSE s, x)
<1>1. SUFFICES ASSUME NEW w, w = Unread(r), NEW k, k = strstr(w, <<Newline>>)
               PROVE  /\ o.text \in Texts
                      /\ o.ret > 0 => SoundReader(o.reader) /\ Filling(s \o <<o.text>>, x, o.reader)
                      /\ ~ (o.ret > 0) => FilledUp(IF s = <<>> THEN s \o <<o.text>> ELSE s, x)
  BY Zenon
<1>2. /\ w \in Texts /\ k \in Nat /\ o.text \in Texts
      /\ k # 0 => LineTold(w, k, 0, o)
      /\ k = 0 => EndTold(w, 0, o)
  <2>1. 0 \in Nat
    OBVIOUS
  <2>2. QED
    BY <1>1, <2>1, LineGot
<1>3. /\ \A n : RoomFor(n, 0)
      /\ PlainLines(x) \in Seq(Texts) /\ PlainLines(w) \in Seq(Texts)
  <2>1. LinesTyped(x) /\ LinesTyped(w)
    BY <1>2, LinesType
  <2>2. QED
    BY <2>1, Zenon DEF RoomFor, LinesTyped
<1>4. ASSUME k # 0
      PROVE  /\ o.ret > 0 /\ SoundReader(o.reader) /\ RowsToCome(s \o <<o.text>>, x, o.reader)
  <2>1. o.ret = 1 /\ o.text = Plain(Before(w, k)) /\ SoundReader(o.reader) /\ Unread(o.reader) = From(w, k + 1)
    BY <1>2, <1>3, <1>4, Zenon DEF LineTold
  <2>2. SUFFICES ASSUME NEW l, l = Before(w, k), NEW y, y = From(w, k + 1), LineFirst(w, l, y)
                 PROVE  RowsToCome(s \o <<o.text>>, x, o.reader)
    <3>1. LineFirst(w, Before(w, k), From(w, k + 1))
      BY <1>1, <1>2, <1>4, FirstLine
    <3>2. 1 > 0
      OBVIOUS
    <3>3. QED
      BY <2>1, <3>1, <3>2, Zenon
  <2>3. RowsToCome(s, x, r)
    <3>1. w # <<>>
      <4>1. \A z \in Texts : strstr(z, <<Newline>>) \in 0..Len(z)
        BY LineIs
      <4>2. Len(<<>>) = 0 /\ Len(w) \in Nat
        BY <1>2, NoText0
      <4>3. ~ (Len(w) = 0)
        BY <1>1, <1>2, <1>4, <4>1, <4>2
      <4>4. QED
        BY <4>2, <4>3, Zenon
    <3>2. QED
      BY <1>1, <3>1, Zenon DEF Filling
  <2>4. /\ PlainLines(w) = <<o.text>> \o PlainLines(y) /\ LastLine(w) = LastLine(y)
        /\ PlainLines(y) \in Seq(Texts)
    <3>1. y \in Texts
      BY <2>2, Zenon DEF LineFirst
    <3>2. LinesTyped(y)
      BY <3>1, LinesType, Zenon
    <3>3. QED
      BY <2>1, <2>2, <3>2, Zenon DEF LineFirst, LinesTyped
  <2>5. (s \o <<o.text>>) \o PlainLines(y) = s \o (<<o.text>> \o PlainLines(y))
    <3>1. <<o.text>> \in Seq(Texts)
      BY <1>2
    <3>2. QED
      BY <2>4, <3>1, RowsJoin
  <2>6. QED
    BY <1>1, <2>1, <2>2, <2>3, <2>4, <2>5, Zenon DEF RowsToCome
<1>5. ASSUME k = 0
      PROVE  /\ o.ret > 0 => SoundReader(o.reader) /\ Unread(o.reader) = <<>> /\ OneRowMore(s \o <<o.text>>, x)
             /\ ~ (o.ret > 0) => FilledUp(IF s = <<>> THEN s \o <<o.text>> ELSE s, x)
  <2>1. /\ o.ret \in {1, -13} /\ IsPrefix(Until(w, <<Return>>), o.text)
        /\ SoundReader(o.reader) /\ Unread(o.reader) = <<>>
        /\ w = <<>> => o.ret = -13
    BY <1>2, <1>3, <1>5, Zenon DEF EndTold
  <2>2. ASSUME RowsToCome(s, x, r)
        PROVE  s = PlainLines(x) /\ OneRowMore(s \o <<o.text>>, x)
    <3>1. PlainLines(w) = <<>> /\ LastLine(w) = w
      BY <1>1, <1>2, <1>5, NoLines
    <3>2. s \o <<>> = s
      BY RowsJoin
    <3>3. s = PlainLines(x) /\ LastLine(x) = w
      BY <1>1, <2>2, <3>1, <3>2, Zenon DEF RowsToCome
    <3>4. QED
      BY <1>2, <2>1, <3>3, Zenon DEF OneRowMore
  <2>3. ASSUME ~ RowsToCome(s, x, r)
        PROVE  o.ret = -13 /\ OneRowMore(s, x) /\ s # <<>>
    <3>1. w = <<>> /\ OneRowMore(s, x)
      BY <1>1, <2>3, Zenon DEF Filling
    <3>2. s # <<>>
      <4>1. PICK p \in Texts : s = PlainLines(x) \o <<p>>
        BY <3>1, Zenon DEF OneRowMore
      <4>2. <<p>> \in Seq(Texts) /\ Len(<<p>>) = 1
        OBVIOUS
      <4>3. Len(s) = Len(PlainLines(x)) + 1 /\ Len(PlainLines(x)) \in Nat
        BY <1>3, <4>1, <4>2, RowsJoin
      <4>4. Len(s) # 0
        BY <4>3
      <4>5. QED
        BY <4>4
    <3>3. QED
      BY <2>1, <3>1, <3>2, Zenon
  <2>4. ~ (-13 > 0) /\ 1 > 0
    OBVIOUS
  <2>5. QED
    BY <2>1, <2>2, <2>3, <2>4, Zenon DEF FilledUp
<1>6. QED
  BY <1>2, <1>4, <1>5, Zenon DEF Filling

ArrayKept ==
  into = "array" =>
    /\ file \in Texts /\ rows \in Seq(Texts)
    /\ phase = Reading => SoundReader(reader) /\ Filling(rows, file, reader)
    /\ phase # Reading => phase = Loaded /\ FilledUp(rows, file)

(* The functions that load texts touch no settings, and these no text that  *)
(* is being loaded.                                                        *)
LEMMA LoadSteps ==
  [TextNext]_<<loadVars, configVars>> /\ into' # "config" =>
    /\ into' = into
    /\ UNCHANGED loadVars \/ ReadRow \/ AppendLine \/ AppendAndGrow \/ ReadBufferRow
<1>1. SUFFICES ASSUME [TextNext]_<<loadVars, configVars>>, into' # "config"
               PROVE  /\ into' = into
                      /\ UNCHANGED loadVars \/ ReadRow \/ AppendLine \/ AppendAndGrow \/ ReadBufferRow
  BY Zenon
<1>2. CASE LoadNext
  BY <1>2, Zenon DEF LoadNext, ReadRow, AppendLine, AppendAndGrow, ReadBufferRow
<1>3. CASE ConfigNext
  <2>1. into' = into /\ into = "config"
    <3>1. \A key, value : Set(key, value) => into' = into /\ into = "config"
      BY Zenon DEF Set, Running, loadVars
    <3>2. SetChar \/ SetInteger => into' = into /\ into = "config"
      BY <3>1, Zenon DEF SetChar, SetInteger
    <3>3. QED
      BY <1>3, <3>2, Zenon DEF ConfigNext, LoadItem, Restart, WriteConfig, CrashInWriteConfig, Running
  <2>2. QED
    BY <1>1, <2>1, Zenon
<1>4. CASE UNCHANGED <<loadVars, configVars>>
  BY <1>4, Zenon DEF loadVars
<1>5. QED
  BY <1>1, <1>2, <1>3, <1>4, Zenon DEF TextNext

LEMMA StartsUnread ==
  TextInit /\ into # "config" =>
    /\ file \in Texts /\ rows = <<>> /\ text = <<>> /\ over = FALSE /\ phase = Reading
    /\ into = "array" => reader = TextFileReader(file)
    /\ into = "to_buffer" => reader = TextFileReader(file) /\ size = N
    /\ into = "malloc" => reader = TextFileReader(file) /\ size = 2 * B
    /\ into = "rows" => reader = TextBufferReader(file)
<1>1. SUFFICES ASSUME TextInit, into # "config"
               PROVE  /\ file \in Texts /\ rows = <<>> /\ text = <<>> /\ over = FALSE /\ phase = Reading
                      /\ into = "array" => reader = TextFileReader(file)
                      /\ into = "to_buffer" => reader = TextFileReader(file) /\ size = N
                      /\ into = "malloc" => reader = TextFileReader(file) /\ size = 2 * B
                      /\ into = "rows" => reader = TextBufferReader(file)
  BY Zenon
<1>2. LoadInit
  BY <1>1, Zenon DEF TextInit, ConfigInit, Start
<1>3. file \in Texts
  <2>1. file \in Files
    BY <1>2, Zenon DEF LoadInit
  <2>2. QED
    BY <2>1, LoadingAssumption DEF Texts
<1>4. QED
  BY <1>2, <1>3, Zenon DEF LoadInit, StartArray, StartBuffer, StartMalloc, StartRows, Start

LEMMA ArrayStarts ==
  TextInit => ArrayKept
<1>1. SUFFICES ASSUME TextInit, into = "array"
               PROVE  ArrayKept
  BY Zenon DEF ArrayKept
<1>2. file \in Texts /\ rows = <<>> /\ phase = Reading /\ reader = TextFileReader(file)
  BY <1>1, StartsUnread, Zenon
<1>3. SoundReader(reader) /\ Unread(reader) = file
  BY <1>2, MadeReader
<1>4. <<>> \in Seq(Texts)
  OBVIOUS
<1>5. <<>> \o PlainLines(file) = PlainLines(file)
  <2>1. PlainLines(file) \in Seq(Texts)
    BY <1>2, LinesType, Zenon DEF LinesTyped
  <2>2. QED
    BY <2>1, RowsJoin
<1>6. QED
  BY <1>2, <1>3, <1>4, <1>5, Zenon DEF ArrayKept, Filling, RowsToCome

LEMMA ArrayStep ==
  ArrayKept /\ [TextNext]_<<loadVars, configVars>> => ArrayKept'
<1>1. SUFFICES ASSUME ArrayKept, [TextNext]_<<loadVars, configVars>>, into' = "array"
               PROVE  ArrayKept'
  BY Zenon DEF ArrayKept
<1>2. into = "array" /\ (UNCHANGED loadVars \/ ReadRow)
  <2>1. into' # "config"
    BY <1>1
  <2>2. into = "array" /\ (UNCHANGED loadVars \/ ReadRow \/ AppendLine \/ AppendAndGrow \/ ReadBufferRow)
    BY <1>1, <2>1, LoadSteps, Zenon
  <2>3. QED
    BY <2>2, Zenon DEF AppendLine, AppendAndGrow, ReadBufferRow
<1>3. CASE UNCHANGED loadVars
  BY <1>1, <1>3, Zenon DEF loadVars, ArrayKept
<1>4. CASE ReadRow
  <2>1. SUFFICES ASSUME NEW o, o = TextFileReader_GetLine(reader, 0)
                 PROVE  ArrayKept'
    BY Zenon
  <2>2. /\ phase = Reading /\ reader' = o.reader /\ file' = file
        /\ rows' = IF o.ret > 0 \/ rows = <<>> THEN Append(rows, o.text) ELSE rows
        /\ phase' = IF o.ret > 0 THEN Reading ELSE Loaded
    BY <1>4, <2>1, Zenon DEF ReadRow
  <2>3. file \in Texts /\ rows \in Seq(Texts) /\ SoundReader(reader) /\ Filling(rows, file, reader)
    BY <1>1, <1>2, <2>2, Zenon DEF ArrayKept
  <2>4. /\ o.text \in Texts
        /\ o.ret > 0 => SoundReader(o.reader) /\ Filling(rows \o <<o.text>>, file, o.reader)
        /\ ~ (o.ret > 0) => FilledUp(IF rows = <<>> THEN rows \o <<o.text>> ELSE rows, file)
    BY <2>1, <2>3, RowFilled
  <2>5. Append(rows, o.text) = rows \o <<o.text>> /\ rows \o <<o.text>> \in Seq(Texts)
    <3>1. <<o.text>> \in Seq(Texts)
      BY <2>4
    <3>2. QED
      BY <2>3, <2>4, <3>1, AppendIsConcat, RowsJoin
  <2>6. Reading # Loaded
    BY DEF Reading, Loaded
  <2>7. QED
    BY <2>2, <2>3, <2>4, <2>5, <2>6, Zenon DEF ArrayKept
<1>5. QED
  BY <1>2, <1>3, <1>4

LEMMA ArrayHolds ==
  ASSUME NEW x \in Texts, NEW s \in Seq(Texts), NEW f, f = PlainLines(x), NEW n, n = Len(f)
  PROVE  /\ FilledUp(s, x) => /\ Len(s) \in n..n + 1
                              /\ IsPrefix(f, s)
                              /\ Len(s) = n + 1 => IsPrefix(Until(LastLine(x), <<Return>>), s[n + 1])
         /\ \A r : SoundReader(r) /\ Filling(s, x, r) => IsPrefix(s, f) \/ IsPrefix(f, s)
<1>1. f \in Seq(Texts) /\ n \in Nat
  <2>1. LinesTyped(x)
    BY LinesType
  <2>2. f \in Seq(Texts)
    BY <2>1, Zenon DEF LinesTyped
  <2>3. QED
    BY <2>2
<1>2. ASSUME s = f
      PROVE  Len(s) = n /\ IsPrefix(f, s)
  <2>1. IsPrefix(f, f \o <<>>) /\ f \o <<>> = f
    <3>1. <<>> \in Seq(Texts)
      OBVIOUS
    <3>2. QED
      BY <1>1, <3>1, RowsJoin
  <2>2. QED
    BY <1>2, <2>1, Zenon
<1>3. ASSUME OneRowMore(s, x)
      PROVE  Len(s) = n + 1 /\ IsPrefix(f, s) /\ IsPrefix(Until(LastLine(x), <<Return>>), s[n + 1])
  <2>1. PICK p \in Texts : s = f \o <<p>> /\ IsPrefix(Until(LastLine(x), <<Return>>), p)
    BY <1>3, Zenon DEF OneRowMore
  <2>2. <<p>> \in Seq(Texts) /\ Len(<<p>>) = 1 /\ <<p>>[1] = p
    OBVIOUS
  <2>3. Len(s) = n + 1 /\ IsPrefix(f, s)
    <3>1. \A t \in Seq(Texts) : Len(f \o t) = Len(f) + Len(t) /\ IsPrefix(f, f \o t)
      BY <1>1, RowsJoin
    <3>2. QED
      BY <2>1, <2>2, <3>1, Zenon
  <2>4. s[n + 1] = p
    BY <1>1, <2>1, <2>2
  <2>5. QED
    BY <2>1, <2>3, <2>4, Zenon
<1>4. ASSUME FilledUp(s, x)
      PROVE  /\ Len(s) \in n..n + 1
             /\ IsPrefix(f, s)
             /\ Len(s) = n + 1 => IsPrefix(Until(LastLine(x), <<Return>>), s[n + 1])
  <2>1. s = f \/ OneRowMore(s, x)
    BY <1>4, Zenon DEF FilledUp
  <2>2. n \in n..n + 1 /\ n + 1 \in n..n + 1 /\ n # n + 1
    BY <1>1
  <2>3. QED
    BY <1>2, <1>3, <2>1, <2>2, Zenon
<1>5. ASSUME NEW r, SoundReader(r), Filling(s, x, r)
      PROVE  IsPrefix(s, f) \/ IsPrefix(f, s)
  <2>1. CASE RowsToCome(s, x, r)
    <3>1. PICK more \in Seq(Texts) : s \o more = f
      <4>1. Unread(r) \in Texts
        BY <1>5, RefillReads
      <4>2. PlainLines(Unread(r)) \in Seq(Texts)
        BY <4>1, LinesType, Zenon DEF LinesTyped
      <4>3. QED
        BY <2>1, <4>2, Zenon DEF RowsToCome
    <3>2. IsPrefix(s, s \o more)
      BY RowsJoin
    <3>3. QED
      BY <3>1, <3>2, Zenon
  <2>2. QED
    BY <1>3, <1>5, <2>1, Zenon DEF Filling
<1>6. QED
  BY <1>4, <1>5, Zenon

-----------------------------------------------------------------------------
(* The text of a buffer: every line with a newline, and how the last goes   *)
(* on.                                                                     *)
WholeText(x) == EndedText(x) \o LastLine(x)

(* A beginning of a text, and the newline behind its last line if that has  *)
(* none in the file.                                                       *)
Begun(t, whole) == IsPrefix(t, whole) \/ (LastIs(t, Newline) /\ IsPrefix(Front(t), whole))

TextToCome(t, x, w) == EndedText(x) = t \o EndedText(w) /\ LastLine(x) = LastLine(w)

TextOver(t, x, w) == w = <<>> /\ IsPrefix(EndedText(x), t) /\ Begun(t, WholeText(x))

LEMMA WholeTextIs ==
  ASSUME NEW x \in Texts, NEW w \in Texts, NEW t \in Texts, TextToCome(t, x, w)
  PROVE  /\ WholeText(x) \in Texts /\ WholeText(w) \in Texts
         /\ WholeText(x) = t \o WholeText(w)
         /\ IsPrefix(t, WholeText(x))
<1>1. EndedText(x) \in Texts /\ LastLine(x) \in Texts /\ EndedText(w) \in Texts /\ LastLine(w) \in Texts
  BY LinesType, Zenon DEF LinesTyped
<1>2. WholeText(x) \in Texts /\ WholeText(w) \in Texts
  BY <1>1, TextsJoin DEF WholeText
<1>3. InARow(t, EndedText(w), LastLine(w))
  BY <1>1, ThreeTexts
<1>4. WholeText(x) = t \o WholeText(w)
  BY <1>3, Zenon DEF WholeText, TextToCome, InARow
<1>5. IsPrefix(t, t \o WholeText(w))
  BY <1>2, PrefixJoins
<1>6. QED
  BY <1>2, <1>4, <1>5, Zenon

LEMMA EndsInNewline ==
  ASSUME NEW t \in Texts
  PROVE  LastIs(t \o <<Newline>>, Newline) /\ Front(t \o <<Newline>>) = t
<1>1. SUFFICES ASSUME NEW e, e = t \o <<Newline>>
               PROVE  LastIs(e, Newline) /\ Front(e) = t
  BY Zenon
<1>2. <<Newline>> \in Texts /\ Len(<<Newline>>) = 1 /\ <<Newline>>[1] = Newline /\ 1 \in 1..1
  BY Characters
<1>3. /\ e \in Texts /\ Len(e) = Len(t) + 1 /\ Len(t) \in Nat
      /\ \A i \in 1..Len(t) : e[i] = t[i]
      /\ e[Len(t) + 1] = Newline
  BY <1>1, <1>2, JoinIs
<1>4. e # <<>> /\ Last(e) = Newline
  <2>1. Len(e) # 0
    BY <1>3
  <2>2. e # <<>>
    BY <2>1, Nothing
  <2>3. QED
    BY <1>3, <2>2, Zenon DEF Last
<1>5. Front(e) = t
  <2>1. Front(e) = SubSeq(e, 1, Len(t))
    <3>1. Len(e) - 1 = Len(t)
      BY <1>3
    <3>2. QED
      BY <3>1, Zenon DEF Front
  <2>2. \A n \in Nat : n <= Len(e) => /\ SubSeq(e, 1, n) \in Texts /\ Len(SubSeq(e, 1, n)) = n
                                      /\ \A i \in 1..n : SubSeq(e, 1, n)[i] = e[i]
    BY <1>3, FirstPart
  <2>3. SUFFICES ASSUME NEW f, f = SubSeq(e, 1, Len(t))
                 PROVE  f = t
    BY <2>1, Zenon
  <2>4. f \in Texts /\ Len(f) = Len(t) /\ \A i \in 1..Len(t) : f[i] = e[i]
    <3>1. Len(t) <= Len(e)
      BY <1>3
    <3>2. QED
      BY <1>3, <2>2, <2>3, <3>1, Zenon
  <2>5. QED
    BY <1>3, <2>4, SameText
<1>6. QED
  BY <1>4, <1>5, Zenon DEF LastIs

(* A line that is taken from the text before the reader.                    *)
LEMMA LineTaken ==
  ASSUME NEW x \in Texts, NEW w \in Texts, NEW t \in Texts, TextToCome(t, x, w),
         NEW k, k = strstr(w, <<Newline>>), k # 0, NEW l, l = Plain(Before(w, k)),
         NEW y, y = From(w, k + 1)
  PROVE  /\ l \in Texts /\ y \in Texts
         /\ TextToCome((t \o l) \o <<Newline>>, x, y)
         /\ \A p \in Texts : IsPrefix(p, l) => IsPrefix(t \o p, WholeText(x))
<1>1. LineFirst(w, Before(w, k), y)
  BY FirstLine
<1>2. l \in Texts /\ y \in Texts /\ EndedText(y) \in Texts /\ LastLine(y) \in Texts
  <2>1. Before(w, k) \in Texts /\ y \in Texts
    BY <1>1, Zenon DEF LineFirst
  <2>2. l \in Texts
    BY <2>1, PlainIs
  <2>3. QED
    BY <2>1, <2>2, LinesType, Zenon DEF LinesTyped
<1>3. l \o <<Newline>> \in Texts /\ Append(l, Newline) = l \o <<Newline>> /\ <<Newline>> \in Texts
  BY <1>2, LineEnds, Characters
<1>4. EndedText(w) = (l \o <<Newline>>) \o EndedText(y) /\ LastLine(w) = LastLine(y)
  BY <1>1, <1>3, Zenon DEF LineFirst
<1>5. TextToCome((t \o l) \o <<Newline>>, x, y)
  <2>1. InARow(t, l, <<Newline>>) /\ InARow(t, l \o <<Newline>>, EndedText(y))
    BY <1>2, <1>3, ThreeTexts
  <2>2. QED
    BY <1>4, <2>1, Zenon DEF TextToCome, InARow
<1>6. ASSUME NEW p \in Texts, IsPrefix(p, l)
      PROVE  IsPrefix(t \o p, WholeText(x))
  <2>1. IsPrefix(t \o p, t \o l) /\ t \o l \in Texts /\ t \o p \in Texts
    BY <1>2, <1>6, PrefixAfter, TextsJoin
  <2>2. (t \o l) \o <<Newline>> \in Texts /\ IsPrefix(t \o l, (t \o l) \o <<Newline>>)
    BY <1>3, <2>1, TextsJoin, PrefixJoins
  <2>3. IsPrefix((t \o l) \o <<Newline>>, WholeText(x)) /\ WholeText(x) \in Texts
    BY <1>2, <1>5, <2>2, WholeTextIs
  <2>4. \A a, b, c \in Texts : IsPrefix(a, b) /\ IsPrefix(b, c) => IsPrefix(a, c)
    BY PrefixAfter
  <2>5. QED
    BY <2>1, <2>2, <2>3, <2>4, Zenon
<1>7. QED
  BY <1>2, <1>5, <1>6

(* The line that is not ended.                                              *)
LEMMA EndTaken ==
  ASSUME NEW x \in Texts, NEW w \in Texts, NEW t \in Texts, TextToCome(t, x, w),
         strstr(w, <<Newline>>) = 0, NEW p \in Texts, IsPrefix(p, Plain(w))
  PROVE  /\ t = EndedText(x)
         /\ TextOver(t \o p, x, <<>>) /\ IsPrefix(t \o p, WholeText(x))
         /\ TextOver((t \o p) \o <<Newline>>, x, <<>>)
<1>1. EndedText(w) = <<>> /\ LastLine(w) = w
  BY NoLines
<1>2. t \o <<>> = t
  BY NoText0
<1>3. EndedText(x) = t /\ LastLine(x) = w
  BY <1>1, <1>2, Zenon DEF TextToCome
<1>4. t \o p \in Texts /\ <<Newline>> \in Texts /\ (t \o p) \o <<Newline>> \in Texts
  BY Characters, TextsJoin
<1>5. IsPrefix(p, w)
  <2>1. Plain(w) \in Texts /\ IsPrefix(Plain(w), w)
    BY PlainIs
  <2>2. QED
    BY <2>1, PrefixAfter
<1>6. IsPrefix(t \o p, WholeText(x))
  <2>1. IsPrefix(t \o p, t \o w)
    BY <1>5, PrefixAfter
  <2>2. QED
    BY <1>3, <2>1, Zenon DEF WholeText
<1>7. IsPrefix(t, t \o p) /\ IsPrefix(t, (t \o p) \o <<Newline>>)
  <2>1. IsPrefix(t, t \o p) /\ IsPrefix(t \o p, (t \o p) \o <<Newline>>)
    BY <1>4, PrefixJoins
  <2>2. QED
    BY <1>4, <2>1, PrefixAfter
<1>8. LastIs((t \o p) \o <<Newline>>, Newline) /\ Front((t \o p) \o <<Newline>>) = t \o p
  BY <1>4, EndsInNewline
<1>9. QED
  BY <1>3, <1>6, <1>7, <1>8, Zenon DEF TextOver, Begun

(* What a call leaves when it has been given enough room.                   *)
LEMMA GotOn ==
  ASSUME NEW r, SoundReader(r), NEW cap \in Nat, NEW o, o = TextFileReader_GetLine(r, cap)
  PROVE  /\ o.ret > 0 => SoundReader(o.reader) /\ o.ret # CONTINUE_READING
         /\ Unread(r) = <<>> => o.text = <<>> /\ o.ret # CONTINUE_READING /\ ~ (o.ret > 0)
<1>1. SUFFICES ASSUME NEW w, w = Unread(r), NEW k, k = strstr(w, <<Newline>>)
               PROVE  /\ o.ret > 0 => SoundReader(o.reader) /\ o.ret # CONTINUE_READING
                      /\ w = <<>> => o.text = <<>> /\ o.ret # CONTINUE_READING /\ ~ (o.ret > 0)
  BY Zenon
<1>2. /\ w \in Texts /\ k \in Nat /\ o.text \in Texts /\ RoomFor(Len(o.text), cap)
      /\ k # 0 => LineTold(w, k, cap, o)
      /\ k = 0 => EndTold(w, cap, o)
  BY <1>1, LineGot
<1>3. ~ (CONTINUE_READING > 0) /\ ~ (-13 > 0) /\ -13 # CONTINUE_READING
  BY DEF CONTINUE_READING
<1>4. ASSUME o.ret > 0
      PROVE  SoundReader(o.reader) /\ o.ret # CONTINUE_READING
  <2>1. o.ret # CONTINUE_READING
    BY <1>3, <1>4, Zenon
  <2>2. QED
    BY <1>2, <2>1, Zenon DEF LineTold, EndTold
<1>5. ASSUME w = <<>>
      PROVE  o.text = <<>> /\ o.ret = -13
  <2>1. Len(w) = 0
    BY <1>5, Nothing
  <2>2. k \in 0..Len(w)
    BY <1>1, <1>2, LineIs
  <2>3. k = 0
    BY <1>2, <2>1, <2>2
  <2>4. o.ret = -13 /\ IsPrefix(o.text, Plain(w))
    BY <1>2, <1>5, <2>3, Zenon DEF EndTold
  <2>5. Plain(w) \in Texts /\ Len(Plain(w)) <= Len(w)
    BY <1>2, PlainIs
  <2>6. Len(o.text) <= Len(Plain(w))
    BY <1>2, <2>4, <2>5, PrefixIs
  <2>7. Len(o.text) = 0
    BY <1>2, <2>1, <2>5, <2>6, NoText0
  <2>8. QED
    BY <1>2, <2>4, <2>7, NoText0
<1>6. QED
  BY <1>3, <1>4, <1>5, Zenon

LEMMA OneNewline == <<Newline>> \in Texts /\ Len(<<Newline>>) = 1
BY Characters

Pouring(t, x, r, room) ==
  \/ TextToCome(t, x, Unread(r))
  \/ TextOver(t, x, Unread(r))
  \/ Len(t) = room - 1 /\ Begun(t, WholeText(x))

EndedIn(e, v, room) ==
  /\ e \in Texts /\ Len(e) < room
  /\ e = v \o <<Newline>> \/ (e = v /\ Len(v) = room - 1)
  /\ Len(v) = room - 1 => e = v

LEMMA EndedIs ==
  ASSUME NEW v \in Texts, NEW room \in Nat, Len(v) < room
  PROVE  EndedIn(Ended(v, room), v, room)
<1> SUFFICES ASSUME NEW e, e = Ended(v, room)
             PROVE  /\ e \in Texts /\ Len(e) < room
                    /\ e = v \o <<Newline>> \/ (e = v /\ Len(v) = room - 1)
                    /\ Len(v) = room - 1 => e = v
  BY Zenon DEF EndedIn
<1>1. Append(v, Newline) = v \o <<Newline>> /\ v \o <<Newline>> \in Texts
  BY LineEnds
<1>2. Len(v \o <<Newline>>) = Len(v) + 1 /\ Len(v) \in Nat
  BY Characters, OneNewline, TextsJoin, NoText0
<1>3. CASE room - Len(v) > 1
  <2>1. e = v \o <<Newline>>
    BY <1>1, <1>3, Zenon DEF Ended
  <2>2. Len(v) + 1 < room
    BY <1>2, <1>3
  <2>3. Len(v) # room - 1
    BY <1>2, <1>3
  <2>4. Len(e) < room
    BY <1>2, <2>1, <2>2
  <2>5. QED
    BY <1>1, <2>1, <2>3, <2>4, Zenon
<1>4. CASE ~ (room - Len(v) > 1)
  <2>1. e = v
    BY <1>4, Zenon DEF Ended
  <2>2. Len(v) = room - 1
    BY <1>2, <1>4
  <2>3. QED
    BY <2>1, <2>2, Zenon
<1>5. QED
  BY <1>3, <1>4, Zenon

LEMMA Poured ==
  ASSUME NEW x \in Texts, NEW t \in Texts, NEW room \in Nat, Len(t) < room,
         NEW r, SoundReader(r), Pouring(t, x, r, room),
         NEW o, o = TextFileReader_GetLine(r, room - Len(t)),
         NEW v, v = t \o o.text, NEW e, e = Ended(v, room)
  PROVE  /\ v \in Texts /\ Len(v) < room /\ e \in Texts /\ Len(e) < room
         /\ o.ret > 0 => SoundReader(o.reader) /\ Pouring(e, x, o.reader, room)
         /\ ~ (o.ret > 0) =>
              /\ Begun(v, WholeText(x))
              /\ o.ret # CONTINUE_READING => Len(v) = room - 1 \/ IsPrefix(EndedText(x), v)
<1>1. SUFFICES ASSUME NEW w, w = Unread(r), NEW k, k = strstr(w, <<Newline>>), NEW cap, cap = room - Len(t)
               PROVE  /\ v \in Texts /\ Len(v) < room /\ e \in Texts /\ Len(e) < room
                      /\ o.ret > 0 => SoundReader(o.reader) /\ Pouring(e, x, o.reader, room)
                      /\ ~ (o.ret > 0) =>
                           /\ Begun(v, WholeText(x))
                           /\ o.ret # CONTINUE_READING => Len(v) = room - 1 \/ IsPrefix(EndedText(x), v)
  BY Zenon
<1>2. cap \in Nat /\ cap # 0 /\ Len(t) \in Nat
  <2>1. Len(t) \in Nat
    BY NoText0
  <2>2. QED
    BY <1>1, <2>1
<1>3. /\ w \in Texts /\ k \in Nat /\ o.text \in Texts /\ RoomFor(Len(o.text), cap)
      /\ k # 0 => LineTold(w, k, cap, o)
      /\ k = 0 => EndTold(w, cap, o)
  BY <1>1, <1>2, LineGot
<1>4. Len(o.text) < cap /\ Len(o.text) \in Nat
  <2>1. Len(o.text) < cap
    BY <1>2, <1>3, Zenon DEF RoomFor
  <2>2. QED
    BY <1>3, <2>1, NoText0
<1>5. v \in Texts /\ Len(v) < room /\ (Len(t) = room - 1 => v = t)
  <2>1. t \o o.text \in Texts /\ Len(t \o o.text) = Len(t) + Len(o.text)
    BY <1>3, TextsJoin
  <2>2. Len(t) + Len(o.text) < room
    BY <1>1, <1>2, <1>4
  <2>3. ASSUME Len(t) = room - 1
        PROVE  v = t
    <3>1. Len(o.text) = 0
      BY <1>1, <1>2, <1>4, <2>3
    <3>2. o.text = <<>> /\ t \o <<>> = t
      BY <1>3, <3>1, NoText0
    <3>3. QED
      BY <3>2, Zenon
  <2>4. QED
    BY <2>1, <2>2, <2>3, Zenon
<1>6. /\ e \in Texts /\ Len(e) < room
      /\ e = v \o <<Newline>> \/ (e = v /\ Len(v) = room - 1)
      /\ Len(v) = room - 1 => e = v
  <2>1. EndedIn(Ended(v, room), v, room)
    BY <1>5, EndedIs, Zenon
  <2>2. QED
    BY <2>1, Zenon DEF EndedIn
<1>7. /\ o.ret > 0 => SoundReader(o.reader) /\ o.ret # CONTINUE_READING
      /\ w = <<>> => o.text = <<>> /\ o.ret # CONTINUE_READING /\ ~ (o.ret > 0)
  BY <1>1, <1>2, GotOn
<1>8. ASSUME TextToCome(t, x, w), k # 0
      PROVE  /\ o.ret > 0 => Pouring(e, x, o.reader, room)
             /\ ~ (o.ret > 0) => Begun(v, WholeText(x)) /\ o.ret = CONTINUE_READING
  <2>1. SUFFICES ASSUME NEW l, l = Plain(Before(w, k)), NEW y, y = From(w, k + 1)
                 PROVE  /\ o.ret > 0 => Pouring(e, x, o.reader, room)
                        /\ ~ (o.ret > 0) => Begun(v, WholeText(x)) /\ o.ret = CONTINUE_READING
    BY Zenon
  <2>2. /\ l \in Texts /\ y \in Texts
        /\ TextToCome((t \o l) \o <<Newline>>, x, y)
        /\ \A p \in Texts : IsPrefix(p, l) => IsPrefix(t \o p, WholeText(x))
    BY <1>1, <1>3, <1>8, <2>1, LineTaken
  <2>3. IsPrefix(l, l)
    BY <2>2, PrefixJoins
  <2>4. CASE RoomFor(k - 1, cap)
    <3>1. o.ret = 1 /\ o.text = l /\ Unread(o.reader) = y
      BY <1>3, <1>8, <2>1, <2>4, Zenon DEF LineTold
    <3>2. IsPrefix(v, WholeText(x)) /\ TextToCome(v \o <<Newline>>, x, y)
      BY <2>2, <2>3, <3>1, Zenon
    <3>3. Pouring(e, x, o.reader, room)
      BY <1>6, <3>1, <3>2, Zenon DEF Pouring, Begun
    <3>4. 1 > 0
      OBVIOUS
    <3>5. QED
      BY <3>1, <3>3, <3>4, Zenon
  <2>5. CASE ~ RoomFor(k - 1, cap)
    <3>1. o.ret = CONTINUE_READING /\ IsPrefix(o.text, l)
      BY <1>3, <1>8, <2>1, <2>5, Zenon DEF LineTold
    <3>2. IsPrefix(v, WholeText(x))
      BY <1>3, <2>2, <3>1, Zenon
    <3>3. QED
      BY <1>7, <3>1, <3>2, Zenon DEF Begun
  <2>6. QED
    BY <2>4, <2>5
<1>9. ASSUME TextToCome(t, x, w), k = 0
      PROVE  /\ o.ret > 0 => Pouring(e, x, o.reader, room)
             /\ Begun(v, WholeText(x)) /\ IsPrefix(EndedText(x), v)
  <2>1. IsPrefix(o.text, Plain(w)) /\ (o.ret > 0 => Unread(o.reader) = <<>>)
    BY <1>3, <1>7, <1>9, Zenon DEF EndTold
  <2>2. TextOver(v, x, <<>>) /\ TextOver(v \o <<Newline>>, x, <<>>)
    BY <1>1, <1>3, <1>9, <2>1, EndTaken
  <2>3. QED
    BY <1>6, <2>1, <2>2, Zenon DEF Pouring, TextOver
<1>10. ASSUME TextOver(t, x, w)
       PROVE  ~ (o.ret > 0) /\ Begun(v, WholeText(x)) /\ IsPrefix(EndedText(x), v)
  <2>1. w = <<>> /\ IsPrefix(EndedText(x), t) /\ Begun(t, WholeText(x))
    BY <1>10, Zenon DEF TextOver
  <2>2. v = t \o <<>> /\ t \o <<>> = t
    BY <1>7, <2>1, NoText0
  <2>3. QED
    BY <1>7, <2>1, <2>2, Zenon
<1>11. ASSUME Len(t) = room - 1, Begun(t, WholeText(x))
       PROVE  v = t /\ e = t
  BY <1>5, <1>6, <1>11, Zenon
<1>12. Pouring(t, x, r, room)
  OBVIOUS
<1>13. QED
  BY <1>1, <1>5, <1>6, <1>7, <1>8, <1>9, <1>10, <1>11, <1>12, Zenon DEF Pouring

BufferKept ==
  into = "to_buffer" =>
    /\ file \in Texts /\ text \in Texts /\ size \in Nat /\ Len(text) < size /\ ~ over
    /\ phase = Reading => SoundReader(reader) /\ Pouring(text, file, reader, size)
    /\ phase # Reading => /\ Begun(text, WholeText(file))
                          /\ phase = Loaded => Len(text) = size - 1 \/ IsPrefix(EndedText(file), text)

LEMMA NothingTaken ==
  ASSUME NEW x \in Texts
  PROVE  TextToCome(<<>>, x, x)
<1>1. EndedText(x) \in Texts
  BY LinesType, Zenon DEF LinesTyped
<1>2. <<>> \o EndedText(x) = EndedText(x)
  BY <1>1, NoText0
<1>3. QED
  BY <1>2, Zenon DEF TextToCome

LEMMA BufferStarts ==
  TextInit => BufferKept
<1>1. SUFFICES ASSUME TextInit, into = "to_buffer"
               PROVE  BufferKept
  BY Zenon DEF BufferKept
<1>2. into # "config"
  BY <1>1
<1>3. /\ file \in Texts /\ text = <<>> /\ over = FALSE /\ phase = Reading
      /\ reader = TextFileReader(file) /\ size = N
  BY <1>1, <1>2, StartsUnread, Zenon
<1>4. SoundReader(reader) /\ Unread(reader) = file
  BY <1>3, MadeReader
<1>5. Pouring(text, file, reader, size)
  BY <1>3, <1>4, NothingTaken, Zenon DEF Pouring
<1>6. text \in Texts /\ size \in Nat /\ Len(text) < size
  <2>1. Len(<<>>) < N /\ N \in Nat
    BY Nothing, LoadingAssumption
  <2>2. QED
    BY <1>3, <2>1, Nothing, Zenon
<1>7. QED
  BY <1>3, <1>4, <1>5, <1>6, Zenon DEF BufferKept

LEMMA BufferStep ==
  BufferKept /\ [TextNext]_<<loadVars, configVars>> => BufferKept'
<1>1. SUFFICES ASSUME BufferKept, [TextNext]_<<loadVars, configVars>>, into' = "to_buffer"
               PROVE  BufferKept'
  BY Zenon DEF BufferKept
<1>2. into = "to_buffer" /\ (UNCHANGED loadVars \/ AppendLine)
  <2>1. into' # "config"
    BY <1>1
  <2>2. into = "to_buffer" /\ (UNCHANGED loadVars \/ ReadRow \/ AppendLine \/ AppendAndGrow \/ ReadBufferRow)
    BY <1>1, <2>1, LoadSteps, Zenon
  <2>3. QED
    BY <2>2, Zenon DEF ReadRow, AppendAndGrow, ReadBufferRow
<1>3. CASE UNCHANGED loadVars
  BY <1>1, <1>3, Zenon DEF loadVars, BufferKept
<1>4. CASE AppendLine
  <2>1. SUFFICES ASSUME NEW o, o = TextFileReader_GetLine(reader, size - Len(text)),
                        NEW v, v = text \o o.text, NEW e, e = Ended(v, size)
                 PROVE  BufferKept'
    BY Zenon
  <2>2. /\ phase = Reading /\ reader' = o.reader /\ file' = file /\ size' = size
        /\ text' = IF o.ret > 0 THEN e ELSE v
        /\ over' = (over \/ Len(text') >= size)
        /\ phase' = IF o.ret > 0 THEN Reading
                    ELSE IF o.ret = CONTINUE_READING THEN BUFFER_TOO_SMALL ELSE Loaded
    BY <1>4, <2>1, Zenon DEF AppendLine
  <2>3. /\ file \in Texts /\ text \in Texts /\ size \in Nat /\ Len(text) < size /\ ~ over
        /\ SoundReader(reader) /\ Pouring(text, file, reader, size)
    BY <1>1, <1>2, <2>2, Zenon DEF BufferKept
  <2>4. /\ v \in Texts /\ Len(v) < size /\ e \in Texts /\ Len(e) < size
        /\ o.ret > 0 => SoundReader(o.reader) /\ Pouring(e, file, o.reader, size)
        /\ ~ (o.ret > 0) =>
             /\ Begun(v, WholeText(file))
             /\ o.ret # CONTINUE_READING => Len(v) = size - 1 \/ IsPrefix(EndedText(file), v)
    BY <2>1, <2>3, Poured
  <2>5. text' \in Texts /\ Len(text') < size
    BY <2>2, <2>4, Zenon
  <2>6. ~ over'
    <3>1. Len(text') \in Nat
      BY <2>5, NoText0
    <3>2. ~ (Len(text') >= size)
      BY <2>3, <2>5, <3>1
    <3>3. QED
      BY <2>2, <2>3, <3>2, Zenon
  <2>7. Reading # Loaded /\ BUFFER_TOO_SMALL # Reading /\ BUFFER_TOO_SMALL # Loaded
    BY DEF Reading, Loaded, BUFFER_TOO_SMALL
  <2>8. QED
    BY <2>2, <2>3, <2>4, <2>5, <2>6, <2>7, Zenon DEF BufferKept
<1>5. QED
  BY <1>2, <1>3, <1>4

(* No line is longer than the reader's buffer.                              *)
ShortLines(x) == Shorter(EndedLines(x) \o <<LastLine(x)>>, B + 1)

LEMMA ShortOnes ==
  ASSUME NEW x \in Texts, ShortLines(x), NEW k, k = strstr(x, <<Newline>>)
  PROVE  /\ k = 0 => Len(x) <= B
         /\ k # 0 => k - 1 <= B /\ ShortLines(From(x, k + 1))
<1>1. B \in Nat
  BY ReaderAssumption
<1>2. ASSUME k = 0
      PROVE  Len(x) <= B
  <2>1. EndedLines(x) = <<>> /\ LastLine(x) = x
    BY <1>2, NoLines
  <2>2. Shorter(<<>> \o <<x>>, B + 1)
    BY <2>1, Zenon DEF ShortLines
  <2>3. <<>> \o <<x>> = <<x>> /\ 1 \in DOMAIN <<x>> /\ <<x>>[1] = x
    OBVIOUS
  <2>4. Len(x) < B + 1
    BY <2>2, <2>3, Zenon DEF Shorter
  <2>5. QED
    BY <1>1, <2>4, NoText0
<1>3. ASSUME k # 0
      PROVE  k - 1 <= B /\ ShortLines(From(x, k + 1))
  <2>1. SUFFICES ASSUME NEW l, l = Before(x, k), NEW y, y = From(x, k + 1), LineFirst(x, l, y)
                 PROVE  k - 1 <= B /\ ShortLines(y)
    BY <1>3, FirstLine, Zenon
  <2>2. l \in Texts /\ y \in Texts /\ EndedLines(x) = <<l>> \o EndedLines(y) /\ LastLine(x) = LastLine(y)
    BY <2>1, Zenon DEF LineFirst
  <2>3. Len(l) = k - 1 /\ k \in Nat
    <3>1. k > 0
      BY <1>3, NextLineIs
    <3>2. QED
      BY <2>1, <3>1, LineIs, NextLineIs
  <2>4. SUFFICES ASSUME NEW e \in Seq(Texts), NEW last \in Texts, e = EndedLines(y), last = LastLine(y)
                 PROVE  k - 1 <= B /\ ShortLines(y)
    <3>1. EndedLines(y) \in Seq(Texts) /\ LastLine(y) \in Texts
      BY <2>2, LinesType, Zenon DEF LinesTyped
    <3>2. QED
      BY <3>1, Zenon
  <2>5. Shorter((<<l>> \o e) \o <<last>>, B + 1)
    BY <2>2, <2>4, Zenon DEF ShortLines
  <2>6. SUFFICES ASSUME NEW a, a = (<<l>> \o e) \o <<last>>, NEW b, b = e \o <<last>>
                 PROVE  k - 1 <= B /\ Shorter(b, B + 1)
    BY <2>4, Zenon DEF ShortLines
  <2>7. a = <<l>> \o b /\ b \in Seq(Texts)
    <3>1. <<l>> \in Seq(Texts) /\ <<last>> \in Seq(Texts)
      BY <2>2
    <3>2. QED
      BY <2>6, <3>1, RowsJoin
  <2>8. /\ 1 \in DOMAIN a /\ a[1] = l
        /\ \A i \in DOMAIN b : i + 1 \in DOMAIN a /\ a[i + 1] = b[i]
    BY <2>2, <2>7
  <2>9. Len(l) < B + 1 /\ \A i \in DOMAIN b : Len(b[i]) < B + 1
    <3>1. \A i \in DOMAIN a : Len(a[i]) < B + 1
      BY <2>5, <2>6, Zenon DEF Shorter
    <3>2. QED
      BY <2>8, <3>1, Zenon
  <2>10. k - 1 <= B
    BY <1>1, <2>3, <2>9
  <2>11. QED
    BY <2>9, <2>10, Zenon DEF Shorter
<1>4. QED
  BY <1>2, <1>3

Flooding(t, x, w) == (TextToCome(t, x, w) /\ ShortLines(w)) \/ TextOver(t, x, w)

LEMMA Flooded ==
  ASSUME NEW x \in Texts, NEW t \in Texts, NEW r, SoundReader(r), Flooding(t, x, Unread(r)),
         NEW cap \in Nat, cap >= B + 2, NEW o, o = TextFileReader_GetLine(r, cap)
  PROVE  /\ o.text \in Texts /\ Len(o.text) <= B /\ o.ret # CONTINUE_READING
         /\ o.ret > 0 => SoundReader(o.reader) /\ Flooding((t \o o.text) \o <<Newline>>, x, Unread(o.reader))
         /\ ~ (o.ret > 0) => IsPrefix(EndedText(x), t) /\ Begun(t, WholeText(x))
<1>1. SUFFICES ASSUME NEW w, w = Unread(r), NEW k, k = strstr(w, <<Newline>>)
      PROVE  /\ o.text \in Texts /\ Len(o.text) <= B /\ o.ret # CONTINUE_READING
             /\ o.ret > 0 => SoundReader(o.reader) /\ Flooding((t \o o.text) \o <<Newline>>, x, Unread(o.reader))
             /\ ~ (o.ret > 0) => IsPrefix(EndedText(x), t) /\ Begun(t, WholeText(x))
  BY Zenon
<1>2. /\ w \in Texts /\ k \in Nat /\ o.text \in Texts
      /\ k # 0 => LineTold(w, k, cap, o)
      /\ k = 0 => EndTold(w, cap, o)
  BY <1>1, LineGot
<1>3. B \in Nat /\ Len(w) \in Nat /\ Len(o.text) \in Nat
  BY <1>2, ReaderAssumption, NoText0
<1>4. /\ o.ret > 0 => SoundReader(o.reader) /\ o.ret # CONTINUE_READING
      /\ w = <<>> => o.text = <<>> /\ o.ret # CONTINUE_READING /\ ~ (o.ret > 0)
  BY <1>1, GotOn
<1>5. ASSUME TextToCome(t, x, w), ShortLines(w), k # 0
      PROVE  /\ Len(o.text) <= B /\ o.ret > 0 /\ o.ret # CONTINUE_READING
             /\ Flooding((t \o o.text) \o <<Newline>>, x, Unread(o.reader))
  <2>1. SUFFICES ASSUME NEW u, u = Before(w, k), NEW l, l = Plain(u), NEW y, y = From(w, k + 1)
                 PROVE  /\ Len(o.text) <= B /\ o.ret > 0 /\ o.ret # CONTINUE_READING
                        /\ Flooding((t \o o.text) \o <<Newline>>, x, Unread(o.reader))
    BY Zenon
  <2>2. k - 1 <= B /\ ShortLines(y)
    BY <1>1, <1>2, <1>5, <2>1, ShortOnes
  <2>3. RoomFor(k - 1, cap)
    BY <1>2, <1>3, <2>2 DEF RoomFor
  <2>4. o.ret = 1 /\ o.text = l /\ Unread(o.reader) = y
    BY <1>2, <1>5, <2>1, <2>3, Zenon DEF LineTold
  <2>5. TextToCome((t \o l) \o <<Newline>>, x, y)
    BY <1>1, <1>2, <1>5, <2>1, LineTaken
  <2>6. Len(l) <= B
    <3>1. u \in Texts /\ Len(u) = k - 1
      <4>1. k > 0
        BY <1>2, <1>5
      <4>2. QED
        BY <1>1, <1>2, <2>1, <4>1, LineIs
    <3>2. l \in Texts /\ Len(l) <= Len(u)
      BY <2>1, <3>1, PlainIs
    <3>3. Len(l) \in Nat
      BY <3>2, NoText0
    <3>4. QED
      BY <1>2, <1>3, <2>2, <3>1, <3>2, <3>3
  <2>7. 1 > 0
    OBVIOUS
  <2>8. QED
    BY <1>4, <2>2, <2>4, <2>5, <2>6, <2>7, Zenon DEF Flooding
<1>6. ASSUME TextToCome(t, x, w), Len(w) <= B, k = 0
      PROVE  /\ Len(o.text) <= B /\ o.ret # CONTINUE_READING
             /\ o.ret > 0 => Flooding((t \o o.text) \o <<Newline>>, x, Unread(o.reader))
             /\ IsPrefix(EndedText(x), t) /\ Begun(t, WholeText(x))
  <2>1. RoomFor(Len(w), cap)
    BY <1>3, <1>6 DEF RoomFor
  <2>2. /\ o.ret # CONTINUE_READING /\ IsPrefix(o.text, Plain(w))
        /\ Unread(o.reader) = <<>>
    BY <1>2, <1>6, <2>1, Zenon DEF EndTold
  <2>3. Len(o.text) <= B
    <3>1. Plain(w) \in Texts /\ Len(Plain(w)) <= Len(w)
      BY <1>2, PlainIs
    <3>2. Len(o.text) <= Len(Plain(w)) /\ Len(Plain(w)) \in Nat
      BY <1>2, <2>2, <3>1, PrefixIs, NoText0
    <3>3. QED
      BY <1>3, <1>6, <3>1, <3>2
  <2>4. t = EndedText(x) /\ TextOver((t \o o.text) \o <<Newline>>, x, <<>>)
    BY <1>1, <1>2, <1>6, <2>2, EndTaken
  <2>5. IsPrefix(t, t) /\ IsPrefix(t, WholeText(x))
    BY <1>2, <1>6, PrefixJoins, WholeTextIs
  <2>6. QED
    BY <2>2, <2>3, <2>4, <2>5, Zenon DEF Flooding, Begun
<1>7. ASSUME TextToCome(t, x, w), ShortLines(w), k = 0
      PROVE  Len(w) <= B
  BY <1>1, <1>2, <1>7, ShortOnes
<1>8. ASSUME TextOver(t, x, w)
      PROVE  /\ Len(o.text) <= B /\ o.ret # CONTINUE_READING /\ ~ (o.ret > 0)
             /\ IsPrefix(EndedText(x), t) /\ Begun(t, WholeText(x))
  <2>1. w = <<>> /\ IsPrefix(EndedText(x), t) /\ Begun(t, WholeText(x))
    BY <1>8, Zenon DEF TextOver
  <2>2. Len(o.text) <= B
    BY <1>3, <1>4, <2>1, Nothing
  <2>3. QED
    BY <1>4, <2>1, <2>2, Zenon
<1>9. QED
  BY <1>1, <1>2, <1>4, <1>5, <1>6, <1>7, <1>8, Zenon DEF Flooding

GrowKept ==
  into = "malloc" /\ ShortLines(file) =>
    /\ file \in Texts /\ text \in Texts /\ size \in Nat /\ size - Len(text) >= B + 2 /\ ~ over
    /\ phase = Reading => SoundReader(reader) /\ Flooding(text, file, Unread(reader))
    /\ phase # Reading => /\ phase = Loaded
                          /\ IsPrefix(EndedText(file), text) /\ Begun(text, WholeText(file))

LEMMA GrowStarts ==
  TextInit => GrowKept
<1>1. SUFFICES ASSUME TextInit, into = "malloc", ShortLines(file)
               PROVE  GrowKept
  BY Zenon DEF GrowKept
<1>2. into # "config"
  BY <1>1
<1>3. /\ file \in Texts /\ text = <<>> /\ over = FALSE /\ phase = Reading
      /\ reader = TextFileReader(file) /\ size = 2 * B
  BY <1>1, <1>2, StartsUnread, Zenon
<1>4. SoundReader(reader) /\ Unread(reader) = file
  BY <1>3, MadeReader
<1>5. Flooding(text, file, Unread(reader))
  BY <1>1, <1>3, <1>4, NothingTaken, Zenon DEF Flooding
<1>6. text \in Texts /\ size \in Nat /\ size - Len(text) >= B + 2
  <2>1. Len(text) = 0 /\ text \in Texts
    BY <1>3, Nothing, Zenon
  <2>2. QED
    BY <1>3, <2>1, ReaderAssumption
<1>7. QED
  BY <1>3, <1>4, <1>5, <1>6, Zenon DEF GrowKept

LEMMA GrowStep ==
  GrowKept /\ [TextNext]_<<loadVars, configVars>> => GrowKept'
<1>1. SUFFICES ASSUME GrowKept, [TextNext]_<<loadVars, configVars>>, into' = "malloc", ShortLines(file')
               PROVE  GrowKept'
  BY Zenon DEF GrowKept
<1>2. into = "malloc" /\ (UNCHANGED loadVars \/ AppendAndGrow)
  <2>1. into' # "config"
    BY <1>1
  <2>2. into = "malloc" /\ (UNCHANGED loadVars \/ ReadRow \/ AppendLine \/ AppendAndGrow \/ ReadBufferRow)
    BY <1>1, <2>1, LoadSteps, Zenon
  <2>3. QED
    BY <2>2, Zenon DEF ReadRow, AppendLine, ReadBufferRow
<1>3. CASE UNCHANGED loadVars
  <2>1. /\ file' = file /\ into' = into /\ reader' = reader /\ text' = text /\ size' = size
        /\ over' = over /\ phase' = phase
    BY <1>3, Zenon DEF loadVars
  <2>2. QED
    BY <1>1, <2>1, Zenon DEF GrowKept
<1>4. CASE AppendAndGrow
  <2>1. SUFFICES ASSUME NEW o, o = TextFileReader_GetLine(reader, size - Len(text)),
                        NEW more, more = (text \o o.text) \o <<Newline>>
                 PROVE  GrowKept'
    BY Zenon
  <2>2. /\ phase = Reading /\ reader' = o.reader /\ file' = file
        /\ o.ret # CONTINUE_READING =>
             IF o.ret > 0
             THEN /\ text' = more /\ over' = (over \/ Len(more) >= size)
                  /\ size' = Grown(size, Len(more)) /\ phase' = Reading
             ELSE phase' = Loaded /\ text' = text /\ over' = over /\ size' = size
    BY <1>4, <2>1, Zenon DEF AppendAndGrow
  <2>3. /\ file \in Texts /\ text \in Texts /\ size \in Nat /\ size - Len(text) >= B + 2 /\ ~ over
        /\ SoundReader(reader) /\ Flooding(text, file, Unread(reader))
    BY <1>1, <1>2, <2>2, Zenon DEF GrowKept
  <2>4. B \in Nat /\ Len(text) \in Nat /\ size - Len(text) \in Nat
    BY <2>3, ReaderAssumption, NoText0
  <2>5. /\ o.text \in Texts /\ Len(o.text) <= B /\ o.ret # CONTINUE_READING
        /\ o.ret > 0 => SoundReader(o.reader) /\ Flooding(more, file, Unread(o.reader))
        /\ ~ (o.ret > 0) => IsPrefix(EndedText(file), text) /\ Begun(text, WholeText(file))
    BY <2>1, <2>3, <2>4, Flooded
  <2>6. more \in Texts /\ Len(more) = Len(text) + Len(o.text) + 1 /\ Len(o.text) \in Nat
    BY <2>1, <2>3, <2>5, OneNewline, TextsJoin, NoText0
  <2>7. ~ (Len(more) >= size) /\ Grown(size, Len(more)) \in Nat /\ Grown(size, Len(more)) - Len(more) >= B + 2
    <3>1. Len(more) \in Nat /\ Len(more) < size
      BY <2>3, <2>4, <2>5, <2>6
    <3>2. \A n \in Nat : n < size => Grown(size, n) \in Nat /\ Grown(size, n) - n >= B + 2
      BY <2>3, <2>4 DEF Grown
    <3>3. ~ (Len(more) >= size)
      BY <2>3, <3>1
    <3>4. QED
      BY <3>1, <3>2, <3>3, Zenon
  <2>8. Reading # Loaded
    BY DEF Reading, Loaded
  <2>9. CASE o.ret > 0
    BY <2>2, <2>3, <2>5, <2>6, <2>7, <2>8, <2>9, Zenon DEF GrowKept
  <2>10. CASE ~ (o.ret > 0)
    BY <2>2, <2>3, <2>5, <2>8, <2>10, Zenon DEF GrowKept
  <2>11. QED
    BY <2>9, <2>10
<1>5. QED
  BY <1>2, <1>3, <1>4

LEMMA PouredIs ==
  ASSUME NEW t \in Texts, NEW x \in Texts, NEW r, SoundReader(r), NEW room, Pouring(t, x, r, room)
  PROVE  Begun(t, WholeText(x))
<1>1. CASE TextToCome(t, x, Unread(r))
  <2>1. Unread(r) \in Texts
    BY RefillReads
  <2>2. \A w \in Texts : TextToCome(t, x, w) => IsPrefix(t, WholeText(x))
    BY WholeTextIs
  <2>3. QED
    BY <1>1, <2>1, <2>2, Zenon DEF Begun
<1>2. QED
  BY <1>1, Zenon DEF Pouring, TextOver

LEMMA FloodingIs ==
  ASSUME NEW t \in Texts, NEW x \in Texts, NEW r, SoundReader(r), Flooding(t, x, Unread(r))
  PROVE  Begun(t, WholeText(x))
<1>1. Pouring(t, x, r, 0)
  BY Zenon DEF Flooding, Pouring
<1>2. QED
  BY <1>1, PouredIs, Zenon

LEMMA BufferHolds ==
  ASSUME BufferKept, GrowKept
  PROVE  BufferHoldsTheLines
<1>1. SUFFICES ASSUME NEW ended, ended = EndedText(file), NEW whole, whole = WholeText(file),
                      into \in {"to_buffer", "malloc"}, into = "malloc" => ShortLines(file)
               PROVE  /\ Begun(text, whole)
                      /\ phase = Loaded => Len(text) = size - 1 \/ IsPrefix(ended, text)
                      /\ ~over
  BY Zenon DEF BufferHoldsTheLines, FileLines, EndedText, WholeText, WithEnds, PlainLines, Begun, ShortLines
<1>2. CASE into = "to_buffer"
  <2>1. /\ file \in Texts /\ text \in Texts /\ ~ over
        /\ phase = Reading => SoundReader(reader) /\ Pouring(text, file, reader, size)
        /\ phase # Reading => /\ Begun(text, WholeText(file))
                              /\ phase = Loaded => Len(text) = size - 1 \/ IsPrefix(EndedText(file), text)
    BY <1>2, Zenon DEF BufferKept
  <2>2. phase = Reading => Begun(text, WholeText(file))
    BY <2>1, PouredIs
  <2>3. Reading # Loaded
    BY DEF Reading, Loaded
  <2>4. QED
    BY <1>1, <2>1, <2>2, <2>3, Zenon
<1>3. CASE into = "malloc"
  <2>1. /\ file \in Texts /\ text \in Texts /\ ~ over
        /\ phase = Reading => SoundReader(reader) /\ Flooding(text, file, Unread(reader))
        /\ phase # Reading => /\ phase = Loaded
                              /\ IsPrefix(EndedText(file), text) /\ Begun(text, WholeText(file))
    BY <1>1, <1>3, Zenon DEF GrowKept
  <2>2. phase = Reading => Begun(text, WholeText(file))
    BY <2>1, FloodingIs
  <2>3. Reading # Loaded
    BY DEF Reading, Loaded
  <2>4. QED
    BY <1>1, <2>1, <2>2, <2>3, Zenon
<1>4. QED
  BY <1>1, <1>2, <1>3, Zenon

(* What is in the buffer is what the file begins with, line by line, and    *)
(* all its lines unless the buffer is full, for every size of the buffer    *)
(* and of the reader's.                                                    *)
THEOREM BufferAlwaysHolds == TextSpec => []BufferHoldsTheLines
<1>1. TextInit => BufferKept /\ GrowKept
  BY BufferStarts, GrowStarts
<1>2. BufferKept /\ GrowKept /\ [TextNext]_<<loadVars, configVars>> => (BufferKept /\ GrowKept)'
  BY BufferStep, GrowStep
<1>3. BufferKept /\ GrowKept => BufferHoldsTheLines
  BY BufferHolds
<1>4. QED
  BY <1>1, <1>2, <1>3, PTL DEF TextSpec

-----------------------------------------------------------------------------
(* Empty lines at the start of a text: so many characters of it that are    *)
(* newlines, and returns before newlines.                                  *)
EmptyTo(x, k) ==
  /\ k \in 0..Len(x)
  /\ \A i \in 1..k : x[i] \in {Return, Newline}
  /\ \A i \in 1..k : x[i] = Return => i < k /\ x[i + 1] = Newline

MostEmpty(x, k) == EmptyTo(x, k) /\ \A l : EmptyTo(x, l) => l <= k

LEMMA EmptyIs ==
  ASSUME NEW x \in Texts
  PROVE  MostEmpty(x, EmptyLines(x))
<1> DEFINE T == {k \in 0..Len(x) :
                   /\ \A i \in 1..k : x[i] \in {Return, Newline}
                   /\ \A i \in 1..k : x[i] = Return => i < k /\ x[i + 1] = Newline}
<1>1. Len(x) \in Nat
  BY NoText0
<1>2. 0 \in T /\ T \in SUBSET (0..Len(x))
  BY <1>1
<1>3. \A k : k \in T <=> EmptyTo(x, k)
  BY Zenon DEF EmptyTo
<1>4. EmptyLines(x) = CHOOSE k \in T : \A l \in T : l <= k
  BY Zenon DEF EmptyLines
<1> HIDE DEF T
<1>5. \E k \in T : \A l \in T : l <= k
  BY <1>1, <1>2, GreatestNumber
<1>6. EmptyLines(x) \in T /\ \A l \in T : l <= EmptyLines(x)
  BY <1>4, <1>5, Zenon
<1>7. QED
  BY <1>3, <1>6, Zenon DEF MostEmpty

LEMMA EmptyOnly ==
  ASSUME NEW x \in Texts, NEW k, NEW l, MostEmpty(x, k), MostEmpty(x, l)
  PROVE  k = l
<1>1. k <= l /\ l <= k /\ k \in 0..Len(x) /\ l \in 0..Len(x) /\ Len(x) \in Nat
  BY NoText0 DEF MostEmpty, EmptyTo
<1>2. QED
  BY <1>1

(* In the window a reader looks through.                                    *)
LEMMA EmptyPrefix ==
  ASSUME NEW x \in Texts, NEW m \in Nat, m <= Len(x), NEW u, u = SubSeq(x, 1, m),
         NEW e, MostEmpty(x, e), e <= m
  PROVE  EmptyLines(u) = e
<1>1. u \in Texts /\ Len(u) = m /\ (\A i \in 1..m : u[i] = x[i]) /\ Len(x) \in Nat
  BY FirstPart, NoText0
<1>2. ASSUME NEW l \in 0..m
      PROVE  EmptyTo(u, l) <=> EmptyTo(x, l)
  <2>1. l \in 0..Len(x) /\ l \in 0..Len(u)
    BY <1>1
  <2>2. \A i \in 1..l : i \in 1..m /\ u[i] = x[i] /\ (i < l => u[i + 1] = x[i + 1])
    BY <1>1
  <2>3. QED
    BY <2>1, <2>2, Zenon DEF EmptyTo
<1>3. EmptyTo(x, e) /\ \A l : EmptyTo(x, l) => l <= e
  BY DEF MostEmpty
<1>4. e \in 0..m
  BY <1>3 DEF EmptyTo
<1>5. \A l : EmptyTo(u, l) => l \in 0..m
  BY <1>1 DEF EmptyTo
<1>6. MostEmpty(u, e)
  BY <1>2, <1>3, <1>4, <1>5, Zenon DEF MostEmpty
<1>7. QED
  BY <1>1, <1>6, EmptyIs, EmptyOnly

(* The first of them.                                                       *)
LEMMA EmptyLine ==
  ASSUME NEW x \in Texts, NEW e, EmptyTo(x, e), e # 0
  PROVE  \E k \in 1..e : /\ strstr(x, <<Newline>>) = k /\ Plain(Before(x, k)) = <<>>
                         /\ From(x, k + 1) \in Texts /\ Len(From(x, k + 1)) < Len(x)
                         /\ EmptyTo(From(x, k + 1), e - k)
                         /\ From(From(x, k + 1), (e - k) + 1) = From(x, e + 1)
<1>1. /\ Len(x) \in Nat /\ e \in Nat /\ e > 0 /\ e <= Len(x)
      /\ \A i \in 1..e : x[i] \in {Return, Newline}
      /\ \A i \in 1..e : x[i] = Return => i < e /\ x[i + 1] = Newline
  BY NoText0 DEF EmptyTo
<1>2. PICK k \in 1..e : x[k] = Newline /\ (k = 1 \/ (k = 2 /\ x[1] = Return))
  <2>1. CASE x[1] = Newline
    <3>1. 1 \in 1..e
      BY <1>1
    <3>2. QED
      BY <2>1, <3>1
  <2>2. CASE x[1] = Return
    <3>1. 1 < e /\ x[2] = Newline
      BY <1>1, <2>2
    <3>2. 2 \in 1..e
      BY <1>1, <3>1
    <3>3. QED
      BY <2>2, <3>1, <3>2
  <2>3. 1 \in 1..e
    BY <1>1
  <2>4. QED
    BY <1>1, <2>1, <2>2, <2>3
<1>3. k \in Nat /\ k > 0 /\ k <= e /\ k <= Len(x) /\ e - k \in Nat /\ k + (e - k) = e
  BY <1>1, <1>2
<1>4. strstr(x, <<Newline>>) = k
  <2>1. FirstPlace(k, x, Newline)
    <3>1. k \in 0..Len(x)
      BY <1>1, <1>3
    <3>2. ASSUME NEW i \in 1..k - 1
          PROVE  x[i] # Newline
      <4>1. k = 2 /\ x[1] = Return /\ i = 1
        BY <1>2, <1>3
      <4>2. QED
        BY <4>1, Characters, Zenon
    <3>3. QED
      BY <1>2, <1>3, <3>1, <3>2 DEF FirstPlace
  <2>2. QED
    BY <2>1, Characters, MarkAt
<1>5. Plain(Before(x, k)) = <<>>
  <2>1. SUFFICES ASSUME NEW b, b = Before(x, k)
                 PROVE  Plain(b) = <<>>
    BY Zenon
  <2>2. b \in Texts /\ Len(b) = k - 1 /\ \A i \in 1..k - 1 : b[i] = x[i]
    <3>1. k <= Len(x) + 1
      BY <1>1, <1>3
    <3>2. QED
      BY <1>3, <2>1, <3>1, PartsAt
  <2>3. /\ Plain(b) \in Texts /\ Len(Plain(b)) <= Len(b)
        /\ LastIs(b, Return) => Len(Plain(b)) = Len(b) - 1
    BY <2>2, PlainIs
  <2>4. Len(Plain(b)) \in Nat
    BY <2>3, NoText0
  <2>5. Len(Plain(b)) = 0
    <3>1. CASE k = 1
      BY <2>2, <2>3, <2>4, <3>1
    <3>2. CASE k = 2 /\ x[1] = Return
      <4>1. Len(b) = 1 /\ b[1] = Return
        BY <2>2, <3>2
      <4>2. Len(b) # 0
        BY <4>1
      <4>3. b # <<>>
        BY <4>2, Nothing, Zenon
      <4>4. LastIs(b, Return)
        BY <4>1, <4>3, Zenon DEF LastIs, Last
      <4>5. QED
        BY <2>3, <4>1, <4>4
    <3>3. QED
      BY <1>2, <3>1, <3>2
  <2>6. QED
    BY <2>3, <2>5, NoText0
<1>6. SUFFICES ASSUME NEW y, y = From(x, k + 1)
               PROVE  /\ y \in Texts /\ Len(y) < Len(x)
                      /\ EmptyTo(y, e - k)
                      /\ From(y, (e - k) + 1) = From(x, e + 1)
  BY <1>4, <1>5, Zenon
<1>7. /\ y \in Texts /\ Len(y) = Len(x) - k
      /\ \A i \in 1..Len(x) - k : y[i] = x[k + i]
  <2>1. k + 1 \in Nat /\ k + 1 > 0 /\ k + 1 <= Len(x) + 1
    BY <1>1, <1>3
  <2>2. /\ y \in Texts /\ Len(y) = Len(x) - (k + 1) + 1
        /\ \A i \in 1..Len(x) - (k + 1) + 1 : y[i] = x[(k + 1) + i - 1]
    BY <1>6, <2>1, PartsAt
  <2>3. QED
    BY <1>1, <1>3, <2>2
<1>8. EmptyTo(y, e - k)
  <2>1. e - k \in 0..Len(y)
    BY <1>1, <1>3, <1>7
  <2>2. ASSUME NEW i \in 1..e - k
        PROVE  /\ y[i] \in {Return, Newline}
               /\ y[i] = Return => i < e - k /\ y[i + 1] = Newline
    <3>1. k + i \in 1..e /\ y[i] = x[k + i]
      BY <1>1, <1>3, <1>7
    <3>2. ASSUME y[i] = Return
          PROVE  i < e - k /\ y[i + 1] = Newline
      <4>1. k + i < e /\ x[(k + i) + 1] = Newline
        BY <1>1, <3>1, <3>2
      <4>2. i < e - k /\ i + 1 \in 1..Len(x) - k /\ k + (i + 1) = (k + i) + 1
        BY <1>1, <1>3, <4>1
      <4>3. y[i + 1] = x[k + (i + 1)]
        BY <1>7, <4>2
      <4>4. QED
        BY <4>1, <4>2, <4>3
    <3>3. QED
      BY <1>1, <3>1, <3>2
  <2>3. QED
    BY <2>1, <2>2 DEF EmptyTo
<1>9. From(y, (e - k) + 1) = From(x, e + 1)
  <2>1. \A a, b \in Nat : a + b <= Len(x) => From(From(x, a + 1), b + 1) = From(x, (a + b) + 1)
    BY FromFrom
  <2>2. k + (e - k) <= Len(x)
    BY <1>1, <1>3
  <2>3. From(From(x, k + 1), (e - k) + 1) = From(x, (k + (e - k)) + 1)
    BY <1>3, <2>1, <2>2
  <2>4. QED
    BY <1>3, <1>6, <2>3, Zenon
<1>10. QED
  BY <1>1, <1>3, <1>7, <1>8, <1>9

LEMMA EmptySkipped ==
  \A x \in Texts : \A e : EmptyTo(x, e) =>
    InkLines(x) = InkLines(From(x, e + 1)) /\ LastLine(x) = LastLine(From(x, e + 1))
<1> DEFINE T == {x \in Texts : \A e : EmptyTo(x, e) =>
                   InkLines(x) = InkLines(From(x, e + 1)) /\ LastLine(x) = LastLine(From(x, e + 1))}
<1>1. ASSUME NEW x \in Texts, \A y \in Texts : Len(y) < Len(x) => y \in T
      PROVE  x \in T
  <2>1. SUFFICES ASSUME NEW e, EmptyTo(x, e)
                 PROVE  InkLines(x) = InkLines(From(x, e + 1)) /\ LastLine(x) = LastLine(From(x, e + 1))
    OBVIOUS
  <2>2. CASE e = 0
    <3>1. From(x, 0 + 1) = x
      BY TextCutIs, NoText0
    <3>2. QED
      BY <2>2, <3>1, Zenon
  <2>3. CASE e # 0
    <3>1. PICK k \in 1..e : /\ strstr(x, <<Newline>>) = k /\ Plain(Before(x, k)) = <<>>
                            /\ From(x, k + 1) \in Texts /\ Len(From(x, k + 1)) < Len(x)
                            /\ EmptyTo(From(x, k + 1), e - k)
                            /\ From(From(x, k + 1), (e - k) + 1) = From(x, e + 1)
      BY <2>1, <2>3, EmptyLine
    <3>2. SUFFICES ASSUME NEW y \in Texts, y = From(x, k + 1), NEW d, d = e - k
                   PROVE  InkLines(x) = InkLines(From(x, e + 1)) /\ LastLine(x) = LastLine(From(x, e + 1))
      BY <3>1, Zenon
    <3>3. InkLines(y) = InkLines(From(y, d + 1)) /\ LastLine(y) = LastLine(From(y, d + 1))
      <4>1. y \in T /\ EmptyTo(y, d)
        BY <1>1, <3>1, <3>2
      <4>2. QED
        BY <4>1
    <3>4. LineFirst(x, Before(x, k), y)
      <4>1. k # 0 /\ k = strstr(x, <<Newline>>)
        BY <3>1
      <4>2. LineFirst(x, Before(x, k), From(x, k + 1))
        BY <4>1, FirstLine
      <4>3. QED
        BY <3>2, <4>2, Zenon
    <3>5. InkLines(x) = InkOf(<<>>) \o InkLines(y) /\ LastLine(x) = LastLine(y)
      BY <3>1, <3>4, Zenon DEF LineFirst
    <3>6. InkOf(<<>>) \o InkLines(y) = InkLines(y)
      <4>1. InkOf(<<>>) = <<>>
        BY Zenon DEF InkOf
      <4>2. InkLines(y) \in Seq(Texts)
        BY <3>2, LinesType, Zenon DEF LinesTyped
      <4>3. <<>> \o InkLines(y) = InkLines(y)
        BY <4>2, RowsJoin
      <4>4. QED
        BY <4>1, <4>3, Zenon
    <3>7. From(y, d + 1) = From(x, e + 1)
      BY <3>1, <3>2, Zenon
    <3>8. QED
      BY <3>3, <3>5, <3>6, <3>7, Zenon
  <2>4. QED
    BY <2>2, <2>3
<1> HIDE DEF T
<1>2. \A x \in Texts : x \in T
  BY <1>1, ShorterTexts
<1>3. QED
  BY <1>2 DEF T

(* BehindMark the empty lines the first one is not empty.                       *)
LEMMA InkFirst ==
  ASSUME NEW x \in Texts, NEW e, MostEmpty(x, e), NEW v, v = From(x, e + 1),
         NEW k, k = strstr(v, <<Newline>>), k # 0
  PROVE  Plain(Before(v, k)) # <<>>
<1>1. EmptyTo(x, e) /\ \A l : EmptyTo(x, l) => l <= e
  BY DEF MostEmpty
<1>2. /\ Len(x) \in Nat /\ e \in Nat /\ e <= Len(x)
      /\ \A i \in 1..e : x[i] \in {Return, Newline}
      /\ \A i \in 1..e : x[i] = Return => i < e /\ x[i + 1] = Newline
  BY <1>1, NoText0 DEF EmptyTo
<1>3. v \in Texts /\ Len(v) = Len(x) - e /\ \A i \in 1..Len(x) - e : v[i] = x[e + i]
  <2>1. e + 1 \in Nat /\ e + 1 > 0 /\ e + 1 <= Len(x) + 1
    BY <1>2
  <2>2. /\ v \in Texts /\ Len(v) = Len(x) - (e + 1) + 1
        /\ \A i \in 1..Len(x) - (e + 1) + 1 : v[i] = x[(e + 1) + i - 1]
    BY <2>1, PartsAt
  <2>3. QED
    BY <1>2, <2>2
<1>4. k \in 1..Len(v) /\ v[k] = Newline
  <2>1. FirstPlace(k, v, Newline)
    BY <1>3, Characters, MarkIs
  <2>2. QED
    BY <2>1 DEF FirstPlace
<1>5. SUFFICES ASSUME NEW b, b = Before(v, k), Plain(b) = <<>>
               PROVE  FALSE
  BY Zenon
<1>6. b \in Texts /\ Len(b) = k - 1 /\ \A i \in 1..k - 1 : b[i] = v[i]
  <2>1. k \in Nat /\ k > 0 /\ k <= Len(v) + 1
    BY <1>3, <1>4, NoText0
  <2>2. QED
    BY <1>3, <1>5, <2>1, PartsAt
<1>7. /\ Len(Plain(b)) = 0
      /\ LastIs(b, Return) => Len(Plain(b)) = Len(b) - 1
      /\ ~ LastIs(b, Return) => Plain(b) = b
  BY <1>5, <1>6, PlainIs, Nothing
<1>8. k = 1 \/ (k = 2 /\ v[1] = Return)
  <2>1. CASE LastIs(b, Return)
    <3>1. k = 2 /\ Len(b) = 1
      BY <1>4, <1>6, <1>7, <2>1
    <3>2. b[Len(b)] = Return
      BY <2>1, Zenon DEF LastIs, Last
    <3>3. QED
      BY <1>6, <3>1, <3>2
  <2>2. CASE ~ LastIs(b, Return)
    BY <1>4, <1>6, <1>7, <2>2
  <2>3. QED
    BY <2>1, <2>2
<1>9. \A i \in 1..k : x[e + i] = v[i] /\ e + i <= Len(x)
  BY <1>2, <1>3, <1>4
<1>10. EmptyTo(x, e + k)
  <2>1. e + k \in 0..Len(x) /\ k \in Nat /\ k > 0
    BY <1>2, <1>3, <1>4
  <2>2. ASSUME NEW i \in 1..e + k
        PROVE  /\ x[i] \in {Return, Newline}
               /\ x[i] = Return => i < e + k /\ x[i + 1] = Newline
    <3>1. CASE i <= e
      BY <1>2, <2>1, <3>1
    <3>2. CASE i = e + 1
      <4>1. x[i] = v[1]
        BY <1>9, <2>1, <3>2
      <4>2. CASE k = 1
        BY <1>4, <4>1, <4>2, Characters
      <4>3. CASE k = 2 /\ v[1] = Return
        <5>1. x[e + 2] = Newline /\ i < e + k /\ i + 1 = e + 2
          BY <1>2, <1>4, <1>9, <3>2, <4>3
        <5>2. QED
          BY <4>1, <4>3, <5>1
      <4>4. QED
        BY <1>8, <4>2, <4>3
    <3>3. CASE i > e + 1
      <4>1. k = 2 /\ i = e + k
        BY <1>2, <1>8, <2>1, <3>3
      <4>2. x[i] = Newline
        BY <1>4, <1>9, <4>1
      <4>3. QED
        BY <4>2, Characters
    <3>4. QED
      BY <1>2, <2>1, <3>1, <3>2, <3>3
  <2>3. QED
    BY <2>1, <2>2 DEF EmptyTo
<1>11. e + k <= e
  BY <1>1, <1>10
<1>12. QED
  BY <1>2, <1>4, <1>11

WindowOf(r) == SubSeq(r.buffer, r.offset + 1, r.offset + Least(M - 1, Len(r.buffer) - r.offset))

BufferTold(r, window, skipped, line, end, o) ==
  /\ window = <<>> => o.ret = -10
  /\ window # <<>> /\ line = <<>> => o.ret = -21
  /\ window # <<>> /\ line # <<>> /\ end > 0 =>
       /\ o.ret = 1 /\ o.text = Plain(Before(line, end))
       /\ o.reader = [r EXCEPT !.offset = r.offset + skipped + end]

LEMMA BufferCall ==
  ASSUME NEW r, NEW window, window = WindowOf(r),
         NEW skipped, skipped = EmptyLines(window), NEW line, line = From(window, skipped + 1),
         NEW end, end = strstr(line, <<Newline>>), NEW o, o = TextBufferReader_GetLine(r)
  PROVE  BufferTold(r, window, skipped, line, end, o)
<1>1. /\ window = <<>> => o = Delivers([r EXCEPT !.offset = r.offset], <<>>, -10)
      /\ window # <<>> /\ line = <<>> => o = Delivers([r EXCEPT !.offset = r.offset], <<>>, -21)
      /\ window # <<>> /\ line # <<>> /\ end > 0 =>
           o = Delivers([r EXCEPT !.offset = r.offset + skipped + end], Plain(Before(line, end)), 1)
  BY Zenon DEF TextBufferReader_GetLine, Plain, WindowOf
<1>2. ASSUME NEW g, NEW t, NEW n, o = Delivers(g, t, n)
      PROVE  o.reader = g /\ o.text = t /\ o.ret = n
  BY <1>2 DEF Delivers
<1>3. window = <<>> => o.ret = -10
  BY <1>1, <1>2, Zenon
<1>4. window # <<>> /\ line = <<>> => o.ret = -21
  BY <1>1, <1>2, Zenon
<1>5. ASSUME window # <<>>, line # <<>>, end > 0
      PROVE  /\ o.ret = 1 /\ o.text = Plain(Before(line, end))
             /\ o.reader = [r EXCEPT !.offset = r.offset + skipped + end]
  <2>1. SUFFICES ASSUME NEW g, g = [r EXCEPT !.offset = r.offset + skipped + end],
                        NEW t, t = Plain(Before(line, end))
                 PROVE  o.ret = 1 /\ o.text = t /\ o.reader = g
    BY Zenon
  <2>2. o = Delivers(g, t, 1)
    BY <1>1, <1>5, <2>1, Zenon
  <2>3. QED
    BY <1>2, <2>2, Zenon
<1>6. QED
  BY <1>3, <1>4, <1>5, Zenon DEF BufferTold

(* The window: of the text w ahead so much as the caller's buffer holds.    *)
Window(x, n, w, m) ==
  /\ w \in Texts /\ Len(w) = Len(x) - n
  /\ m \in Nat /\ m <= Len(w) /\ m <= M - 1 /\ (m = Len(w) \/ m = M - 1)
  /\ SubSeq(x, n + 1, n + m) = SubSeq(w, 1, m)

LEMMA WindowIs ==
  ASSUME NEW x \in Texts, NEW n \in 0..Len(x)
  PROVE  Window(x, n, From(x, n + 1), Least(M - 1, Len(x) - n))
<1> SUFFICES ASSUME NEW w, w = From(x, n + 1), NEW m, m = Least(M - 1, Len(x) - n)
             PROVE  /\ w \in Texts /\ Len(w) = Len(x) - n
                    /\ m \in Nat /\ m <= Len(w) /\ m <= M - 1 /\ (m = Len(w) \/ m = M - 1)
                    /\ SubSeq(x, n + 1, n + m) = SubSeq(w, 1, m)
  BY Zenon DEF Window
<1>1. Len(x) \in Nat /\ n \in Nat /\ n <= Len(x) /\ M \in Nat /\ M > 1
  BY NoText0, ReaderAssumption
<1>2. /\ w \in Texts /\ Len(w) = Len(x) - n
      /\ \A i \in 1..Len(x) - n : w[i] = x[n + i]
  <2>1. n + 1 \in Nat /\ n + 1 > 0 /\ n + 1 <= Len(x) + 1
    BY <1>1
  <2>2. /\ w \in Texts /\ Len(w) = Len(x) - (n + 1) + 1
        /\ \A i \in 1..Len(x) - (n + 1) + 1 : w[i] = x[(n + 1) + i - 1]
    BY <2>1, PartsAt
  <2>3. QED
    BY <1>1, <2>2
<1>3. m \in Nat /\ m <= Len(w) /\ m <= M - 1 /\ (m = Len(w) \/ m = M - 1)
  BY <1>1, <1>2 DEF Least
<1>4. SUFFICES ASSUME NEW u, u = SubSeq(w, 1, m), NEW i, i = n + 1, NEW j, j = n + m
               PROVE  SubSeq(x, i, j) = u
  BY <1>2, <1>3, Zenon
<1>5. u \in Texts /\ Len(u) = m /\ \A k \in 1..m : u[k] = w[k]
  BY <1>2, <1>3, <1>4, FirstPart
<1>6. i \in Nat \ {0} /\ j \in Int /\ j <= Len(x) /\ j - i + 1 = m
  <2>1. m <= Len(x) - n
    BY <1>2, <1>3, Zenon
  <2>2. n + 1 \in Nat \ {0} /\ n + m \in Int /\ n + m <= Len(x) /\ (n + m) - (n + 1) + 1 = m
    <3>1. Len(x) \in Nat /\ n \in Nat /\ m \in Nat /\ n <= Len(x)
      BY <1>1, <1>3
    <3>2. QED
      BY <2>1, <3>1
  <2>3. QED
    BY <1>4, <2>2, Zenon
<1>7. /\ SubSeq(x, i, j) \in Texts /\ Len(SubSeq(x, i, j)) = m
      /\ \A k \in 1..m : SubSeq(x, i, j)[k] = x[i + k - 1]
  <2>1. /\ SubSeq(x, i, j) \in Texts
        /\ Len(SubSeq(x, i, j)) = IF i <= j THEN j - i + 1 ELSE 0
        /\ \A k \in 1..j - i + 1 : SubSeq(x, i, j)[k] = x[i + k - 1]
    BY <1>6, PartOfText
  <2>2. QED
    BY <1>3, <1>6, <2>1
<1>8. \A k \in 1..m : SubSeq(x, i, j)[k] = u[k]
  <2>1. ASSUME NEW k \in 1..m
        PROVE  SubSeq(x, i, j)[k] = u[k]
    <3>1. k \in 1..Len(x) - n /\ i + k - 1 = n + k
      BY <1>1, <1>2, <1>3, <1>4
    <3>2. QED
      BY <1>2, <1>5, <1>7, <2>1, <3>1
  <2>2. QED
    BY <2>1
<1>9. QED
  BY <1>5, <1>7, <1>8, SameText

(* A line that with the empty ones before it fits into the window is found  *)
(* there as it is in the text.                                             *)
FoundThere(u, e, v, k, line, length) ==
  /\ k \in 0..Len(v) /\ EmptyLines(u) = e /\ line \in Texts /\ Len(line) = length
  /\ k # 0 => strstr(line, <<Newline>>) = k /\ Before(line, k) = Before(v, k) /\ Len(line) # 0

LEMMA LineInWindow ==
  ASSUME NEW w \in Texts, NEW m \in Nat, m <= Len(w), m = Len(w) \/ m = M - 1,
         NEW e, e = EmptyLines(w), NEW v, v = From(w, e + 1),
         NEW k, k = strstr(v, <<Newline>>), e + k < M
  PROVE  FoundThere(SubSeq(w, 1, m), e, v, k, From(SubSeq(w, 1, m), e + 1), m - e)
<1> SUFFICES ASSUME NEW u, u = SubSeq(w, 1, m), NEW line, line = From(u, e + 1)
             PROVE  /\ k \in 0..Len(v) /\ EmptyLines(u) = e /\ line \in Texts /\ Len(line) = m - e
                    /\ k # 0 => strstr(line, <<Newline>>) = k /\ Before(line, k) = Before(v, k) /\ Len(line) # 0
  BY Zenon DEF FoundThere
<1>1. MostEmpty(w, e) /\ e \in Nat /\ e <= Len(w) /\ Len(w) \in Nat
  <2>1. MostEmpty(w, e)
    BY EmptyIs
  <2>2. QED
    BY <2>1, NoText0 DEF MostEmpty, EmptyTo
<1>2. v \in Texts /\ Len(v) = Len(w) - e
  BY <1>1, TextCutIs
<1>3. k \in 0..Len(v)
  BY <1>2, LineIs
<1>4. e <= m /\ k <= m - e
  BY <1>1, <1>2, <1>3, ReaderAssumption
<1>5. EmptyLines(u) = e
  BY <1>1, <1>4, EmptyPrefix
<1>6. u \in Texts /\ Len(u) = m
  BY FirstPart
<1>7. line \in Texts /\ Len(line) = m - e
  BY <1>1, <1>4, <1>6, TextCutIs
<1>8. PICK y \in Texts : w = u \o y
  <2>1. From(w, m + 1) \in Texts /\ w = SubSeq(w, 1, m) \o From(w, m + 1)
    BY TextCutIs
  <2>2. QED
    BY <2>1, Zenon
<1>9. v = line \o y
  <2>1. e + 1 \in 1..Len(u) + 1
    BY <1>1, <1>4, <1>6
  <2>2. From(u \o y, e + 1) = From(u, e + 1) \o y
    BY <1>6, <1>8, <2>1, JoinParts
  <2>3. QED
    BY <1>8, <2>2, Zenon
<1>10. ASSUME k # 0
       PROVE  strstr(line, <<Newline>>) = k /\ Before(line, k) = Before(v, k) /\ Len(line) # 0
  <2>1. k \in 1..Len(line) + 1 /\ k <= Len(line) /\ Len(line) # 0
    BY <1>2, <1>3, <1>4, <1>7, <1>10, NoText0
  <2>2. Before(line \o y, k) = Before(line, k)
    BY <1>7, <1>8, <2>1, JoinParts
  <2>3. SUFFICES ASSUME NEW l, l = strstr(line, <<Newline>>), NEW h, h = strstr(y, <<Newline>>)
                 PROVE  l = k
    BY <1>9, <2>1, <2>2, Zenon
  <2>4. l \in Nat /\ h \in Nat
    <3>1. l \in 0..Len(line) /\ h \in 0..Len(y)
      BY <1>7, <1>8, <2>3, LineIs
    <3>2. QED
      BY <3>1
  <2>5. /\ l > 0 => k = l
        /\ l = 0 /\ h > 0 => k = Len(line) + h
        /\ l = 0 /\ h = 0 => k = 0
    <3>1. Newline \in STRING
      BY Characters
    <3>2. k = strstr(line \o y, <<Newline>>)
      BY <1>9, Zenon
    <3>3. /\ strstr(line, <<Newline>>) > 0 => strstr(line \o y, <<Newline>>) = strstr(line, <<Newline>>)
          /\ (strstr(line, <<Newline>>) = 0 /\ strstr(y, <<Newline>>) > 0)
               => strstr(line \o y, <<Newline>>) = Len(line) + strstr(y, <<Newline>>)
          /\ (strstr(line, <<Newline>>) = 0 /\ strstr(y, <<Newline>>) = 0)
               => strstr(line \o y, <<Newline>>) = 0
      BY <1>7, <1>8, <3>1, MarkJoin, Zenon
    <3>4. QED
      BY <2>3, <3>2, <3>3, Zenon
  <2>6. QED
    BY <1>10, <2>1, <2>4, <2>5
<1>11. QED
  BY <1>3, <1>5, <1>7, <1>10

-----------------------------------------------------------------------------
(* What is in the rows when the reader is at n: what is made of the text,   *)
(* but for what is behind n, where a line starts.                          *)
Halfway(x, s, n) ==
  /\ n \in 0..Len(x) /\ (n = 0 \/ x[n] = Newline)
  /\ s \o InkLines(From(x, n + 1)) = InkLines(x)
  /\ LastLine(From(x, n + 1)) = <<>>

At(x, n) == [buffer |-> x, offset |-> n]

(* A reader at the start of a line, w ahead of it.                          *)
LEMMA WindowCall ==
  ASSUME NEW x \in Texts, Windows(x), NEW n \in 0..Len(x), n = 0 \/ x[n] = Newline,
         NEW w, w = From(x, n + 1), NEW e, e = EmptyLines(w), NEW v, v = From(w, e + 1),
         NEW k, k = strstr(v, <<Newline>>), NEW o, o = TextBufferReader_GetLine(At(x, n)),
         LastLine(w) = <<>>
  PROVE  /\ w \in Texts /\ v \in Texts /\ MostEmpty(w, e) /\ e \in Nat /\ n + e <= Len(x)
         /\ v = From(x, (n + e) + 1) /\ InkLines(w) = InkLines(v) /\ LastLine(v) = <<>>
         /\ k = 0 => InkLines(v) = <<>> /\ o.ret \in {-10, -21}
         /\ k # 0 => /\ o.ret = 1 /\ o.text = Plain(Before(v, k))
                     /\ o.reader = At(x, n + e + k)
<1>1. n \in Nat /\ n <= Len(x) /\ Len(x) \in Nat /\ M \in Nat /\ M > 1
  BY NoText0, ReaderAssumption
<1>2. PICK m \in Nat : /\ m = Least(M - 1, Len(x) - n) /\ w \in Texts /\ Len(w) = Len(x) - n
                       /\ m <= Len(w) /\ m <= M - 1 /\ (m = Len(w) \/ m = M - 1)
                       /\ SubSeq(x, n + 1, n + m) = SubSeq(w, 1, m)
  <2>1. Window(x, n, From(x, n + 1), Least(M - 1, Len(x) - n))
    BY WindowIs
  <2>2. QED
    BY <2>1, Zenon DEF Window
<1>3. PICK u : u = SubSeq(w, 1, m) /\ u \in Texts /\ Len(u) = m
  <2>1. SubSeq(w, 1, m) \in Texts /\ Len(SubSeq(w, 1, m)) = m
    BY <1>2, FirstPart
  <2>2. QED
    BY <2>1
<1>4. MostEmpty(w, e) /\ EmptyTo(w, e) /\ e \in Nat /\ e <= Len(w) /\ n + e <= Len(x)
  <2>1. MostEmpty(w, e)
    BY <1>2, EmptyIs
  <2>2. EmptyTo(w, e)
    BY <2>1, Zenon DEF MostEmpty
  <2>3. e \in 0..Len(w)
    BY <2>2 DEF EmptyTo
  <2>4. QED
    BY <1>1, <1>2, <2>1, <2>2, <2>3
<1>5. v \in Texts /\ Len(v) = Len(w) - e /\ v = From(x, (n + e) + 1)
  <2>1. v \in Texts /\ Len(v) = Len(w) - e
    BY <1>2, <1>4, TextCutIs
  <2>2. v = From(x, (n + e) + 1)
    <3>1. From(From(x, n + 1), e + 1) = From(x, (n + e) + 1)
      BY <1>1, <1>4, FromFrom
    <3>2. QED
      BY <3>1, Zenon
  <2>3. QED
    BY <2>1, <2>2
<1>6. InkLines(w) = InkLines(v) /\ LastLine(v) = <<>>
  BY <1>2, <1>4, EmptySkipped, Zenon
<1>7. k = 0 => InkLines(v) = <<>> /\ Len(v) = 0
  <2>1. ASSUME k = 0
        PROVE  InkLines(v) = <<>> /\ LastLine(v) = v
    BY <1>5, <2>1, NoLines
  <2>2. QED
    BY <1>6, <2>1, Nothing
<1>8. PICK r, skipped, line, end : /\ r = At(x, n) /\ skipped = EmptyLines(u)
                                   /\ line = From(u, skipped + 1) /\ end = strstr(line, <<Newline>>)
  OBVIOUS
<1>9. r.buffer = x /\ r.offset = n
  BY <1>8 DEF At
<1>10. u = WindowOf(r)
  BY <1>2, <1>3, <1>9, Zenon DEF WindowOf
<1>11. /\ u = <<>> => o.ret = -10
       /\ u # <<>> /\ line = <<>> => o.ret = -21
       /\ u # <<>> /\ line # <<>> /\ end > 0 =>
            /\ o.ret = 1 /\ o.text = Plain(Before(line, end))
            /\ o.reader = [r EXCEPT !.offset = n + skipped + end]
  <2>1. o = TextBufferReader_GetLine(r)
    BY <1>8, Zenon
  <2>2. BufferTold(r, u, skipped, line, end, o)
    BY <1>8, <1>10, <2>1, BufferCall
  <2>3. QED
    BY <1>9, <2>2, Zenon DEF BufferTold
<1>12. CASE Len(w) = 0
  <2>1. Len(u) = 0 /\ Len(v) = 0
    BY <1>2, <1>3, <1>4, <1>5, <1>12
  <2>2. u = <<>> /\ o.ret = -10
    BY <1>3, <1>11, <2>1, NoText0
  <2>3. k = 0
    <3>1. k \in 0..Len(v)
      BY <1>5, LineIs
    <3>2. QED
      BY <2>1, <3>1
  <2>4. QED
    BY <1>2, <1>4, <1>5, <1>6, <1>7, <2>2, <2>3
<1>13. CASE Len(w) # 0
  <2>1. e + k < M
    <3>1. n + 1 \in DOMAIN x
      <4>1. n + 1 \in 1..Len(x)
        BY <1>1, <1>2, <1>13
      <4>2. DOMAIN x = 1..Len(x)
        BY DEF Texts
      <4>3. QED
        BY <4>1, <4>2
    <3>2. \A i \in DOMAIN x : i = 1 \/ x[i - 1] = Newline =>
            EmptyLines(From(x, i)) + strstr(From(x, i + EmptyLines(From(x, i))), <<Newline>>) < M
      BY Zenon DEF Windows
    <3>3. n + 1 = 1 \/ x[(n + 1) - 1] = Newline
      <4>1. (n + 1) - 1 = n
        BY <1>1
      <4>2. n = 0 => n + 1 = 1
        BY <1>1
      <4>3. QED
        BY <4>1, <4>2, Zenon
    <3>4. e + strstr(From(x, (n + 1) + e), <<Newline>>) < M
      BY <3>1, <3>2, <3>3, Zenon
    <3>5. (n + 1) + e = (n + e) + 1
      BY <1>1, <1>4
    <3>6. QED
      BY <1>5, <3>4, <3>5, Zenon
  <2>2. PICK l : /\ l = From(u, e + 1) /\ k \in 0..Len(v) /\ EmptyLines(u) = e
                 /\ l \in Texts /\ Len(l) = m - e
                 /\ k # 0 => strstr(l, <<Newline>>) = k /\ Before(l, k) = Before(v, k) /\ Len(l) # 0
    <3>1. ASSUME NEW l, l = From(u, e + 1)
          PROVE  /\ k \in 0..Len(v) /\ EmptyLines(u) = e
                 /\ l \in Texts /\ Len(l) = m - e
                 /\ k # 0 => strstr(l, <<Newline>>) = k /\ Before(l, k) = Before(v, k) /\ Len(l) # 0
      <4>1. w \in Texts /\ m <= Len(w) /\ (m = Len(w) \/ m = M - 1) /\ u = SubSeq(w, 1, m)
        BY <1>2, <1>3
      <4>2. FoundThere(SubSeq(w, 1, m), e, v, k, From(SubSeq(w, 1, m), e + 1), m - e)
        BY <2>1, <4>1, LineInWindow
      <4>3. QED
        BY <3>1, <4>1, <4>2, Zenon DEF FoundThere
    <3>2. QED
      BY <3>1, Zenon
  <2>3. l = line /\ skipped = e /\ (k # 0 => end = k)
    BY <1>8, <2>2, Zenon
  <2>4. m # 0 /\ u # <<>>
    <3>1. m # 0
      <4>1. M - 1 # 0 /\ (m = Len(w) \/ m = M - 1)
        BY <1>1, <1>2
      <4>2. QED
        BY <1>13, <4>1, Zenon
    <3>2. QED
      BY <1>3, <3>1, Nothing
  <2>5. CASE k = 0
    <3>1. Len(l) = 0
      <4>1. Len(w) = e /\ e < M
        <5>1. Len(w) \in Nat
          BY <1>2, NoText0
        <5>2. QED
          BY <1>4, <1>5, <1>7, <2>1, <2>5, <5>1
      <4>2. m = e
        <5>1. m \in Nat /\ m <= Len(w) /\ (m = Len(w) \/ m = M - 1)
          BY <1>2
        <5>2. QED
          BY <1>1, <1>4, <4>1, <5>1
      <4>3. Len(l) = m - e
        BY <2>2
      <4>4. QED
        BY <1>4, <4>2, <4>3
    <3>2. line = <<>>
      BY <2>2, <2>3, <3>1, NoText0
    <3>3. o.ret = -21
      BY <1>11, <2>4, <3>2, Zenon
    <3>4. QED
      BY <1>2, <1>4, <1>5, <1>6, <1>7, <2>5, <3>3
  <2>6. CASE k # 0
    <3>1. k > 0 /\ k \in Nat
      BY <2>2, <2>6
    <3>2. line # <<>>
      BY <2>2, <2>3, <2>6, Nothing
    <3>3. /\ o.ret = 1 /\ o.text = Plain(Before(v, k))
          /\ o.reader = [At(x, n) EXCEPT !.offset = n + e + k]
      BY <1>8, <1>11, <2>2, <2>3, <2>4, <2>6, <3>1, <3>2, Zenon
    <3>4. [At(x, n) EXCEPT !.offset = n + e + k] = At(x, n + e + k)
      BY DEF At
    <3>5. QED
      BY <1>2, <1>4, <1>5, <1>6, <2>6, <3>3, <3>4, Zenon
  <2>7. QED
    BY <2>5, <2>6
<1>14. QED
  BY <1>12, <1>13

LEMMA RowGot ==
  ASSUME NEW x \in Texts, Windows(x), NEW s \in Seq(Texts), NEW n, Halfway(x, s, n),
         NEW o, o = TextBufferReader_GetLine(At(x, n))
  PROVE  /\ o.ret > 0 => /\ o.text \in Texts
                         /\ \E m : o.reader = At(x, m) /\ Halfway(x, s \o <<o.text>>, m)
         /\ ~ (o.ret > 0) => o.ret # CONTINUE_READING /\ s = InkLines(x)
<1>1. /\ n \in 0..Len(x) /\ (n = 0 \/ x[n] = Newline) /\ n \in Nat /\ Len(x) \in Nat
      /\ s \o InkLines(From(x, n + 1)) = InkLines(x)
      /\ LastLine(From(x, n + 1)) = <<>>
  BY NoText0 DEF Halfway
<1>2. PICK w, e, v, k : /\ w = From(x, n + 1) /\ e = EmptyLines(w) /\ v = From(w, e + 1)
                        /\ k = strstr(v, <<Newline>>)
  OBVIOUS
<1>3. /\ w \in Texts /\ v \in Texts /\ MostEmpty(w, e) /\ e \in Nat /\ n + e <= Len(x)
      /\ v = From(x, (n + e) + 1) /\ InkLines(w) = InkLines(v) /\ LastLine(v) = <<>>
      /\ k = 0 => InkLines(v) = <<>> /\ o.ret \in {-10, -21}
      /\ k # 0 => /\ o.ret = 1 /\ o.text = Plain(Before(v, k))
                  /\ o.reader = At(x, n + e + k)
  BY <1>1, <1>2, WindowCall
<1>4. s \o InkLines(v) = InkLines(x)
  BY <1>1, <1>2, <1>3, Zenon
<1>5. CASE k = 0
  <2>1. s \o <<>> = InkLines(x) /\ o.ret \in {-10, -21}
    BY <1>3, <1>4, <1>5, Zenon
  <2>2. s \o <<>> = s
    BY RowsJoin
  <2>3. ~ (o.ret > 0) /\ o.ret # CONTINUE_READING
    BY <2>1 DEF CONTINUE_READING
  <2>4. QED
    BY <2>1, <2>2, <2>3, Zenon
<1>6. CASE k # 0
  <2>1. k \in 1..Len(v) /\ Len(v) = Len(x) - (n + e) /\ v[k] = Newline /\ v[k] = x[(n + e) + k]
    <3>1. FirstPlace(k, v, Newline)
      BY <1>2, <1>3, Characters, MarkIs
    <3>2. k \in 1..Len(v) /\ v[k] = Newline
      BY <1>3, <1>6, <3>1, NoText0 DEF FirstPlace
    <3>3. PICK a \in Nat : a = n + e /\ a <= Len(x)
      BY <1>1, <1>3
    <3>4. Len(v) = Len(x) - a /\ \A i \in 1..Len(x) - a : v[i] = x[a + i]
      <4>1. a + 1 \in Nat /\ a + 1 > 0 /\ a + 1 <= Len(x) + 1 /\ v = From(x, a + 1)
        BY <1>1, <1>3, <3>3
      <4>2. /\ Len(v) = Len(x) - (a + 1) + 1
            /\ \A i \in 1..Len(x) - (a + 1) + 1 : v[i] = x[(a + 1) + i - 1]
        BY <4>1, PartsAt
      <4>3. QED
        BY <1>1, <3>3, <4>2, SMTT(30)
    <3>5. QED
      BY <3>2, <3>3, <3>4
  <2>2. PICK m : m = n + e + k
    OBVIOUS
  <2>3. m \in 0..Len(x) /\ x[m] = Newline /\ n + e \in Nat /\ k \in Nat /\ (n + e) + k <= Len(x)
    BY <1>1, <1>3, <2>1, <2>2
  <2>4. PICK p, y : p = Plain(Before(v, k)) /\ y = From(v, k + 1)
    OBVIOUS
  <2>5. y = From(x, m + 1)
    <3>1. From(From(x, (n + e) + 1), k + 1) = From(x, ((n + e) + k) + 1)
      BY <2>3, FromFrom
    <3>2. QED
      BY <1>3, <2>2, <2>4, <3>1, Zenon
  <2>6. LineFirst(v, Before(v, k), y)
    BY <1>2, <1>3, <1>6, <2>4, FirstLine
  <2>7. /\ p \in Texts /\ y \in Texts /\ InkLines(v) = InkOf(p) \o InkLines(y) /\ LastLine(y) = <<>>
    <3>1. Before(v, k) \in Texts /\ y \in Texts
      BY <2>6, Zenon DEF LineFirst
    <3>2. p \in Texts
      BY <2>4, <3>1, PlainIs, Zenon
    <3>3. QED
      BY <1>3, <2>4, <2>6, <3>1, <3>2, Zenon DEF LineFirst
  <2>8. InkOf(p) = <<p>>
    <3>1. Plain(Before(v, k)) # <<>>
      BY <1>2, <1>3, <1>6, InkFirst
    <3>2. QED
      BY <2>4, <3>1, Zenon DEF InkOf
  <2>9. (s \o <<p>>) \o InkLines(y) = InkLines(x)
    <3>1. InkLines(y) \in Seq(Texts)
      BY <2>7, LinesType, Zenon DEF LinesTyped
    <3>2. <<p>> \in Seq(Texts)
      BY <2>7
    <3>3. (s \o <<p>>) \o InkLines(y) = s \o (<<p>> \o InkLines(y))
      BY <3>1, <3>2, RowsJoin
    <3>4. QED
      BY <1>4, <2>7, <2>8, <3>3, Zenon
  <2>10. Halfway(x, s \o <<p>>, m)
    BY <2>3, <2>5, <2>7, <2>9, Zenon DEF Halfway
  <2>11. o.ret = 1 /\ o.text = p /\ o.reader = At(x, m)
    BY <1>3, <1>6, <2>2, <2>4, Zenon
  <2>12. o.ret > 0
    BY <2>11
  <2>13. QED
    BY <2>7, <2>10, <2>11, <2>12, Zenon
<1>7. QED
  BY <1>5, <1>6

RowsKept ==
  into = "rows" /\ LastLine(file) = <<>> /\ Windows(file) =>
    /\ file \in Texts /\ rows \in Seq(Texts)
    /\ phase = Reading => \E n : reader = At(file, n) /\ Halfway(file, rows, n)
    /\ phase # Reading => rows = InkLines(file)

LEMMA RowsStarts ==
  TextInit => RowsKept
<1>1. SUFFICES ASSUME TextInit, into = "rows", LastLine(file) = <<>>
               PROVE  RowsKept
  BY Zenon DEF RowsKept
<1>2. file \in Texts /\ rows = <<>> /\ phase = Reading /\ reader = TextBufferReader(file)
  <2>1. into # "config"
    BY <1>1
  <2>2. QED
    BY <1>1, <2>1, StartsUnread, Zenon
<1>3. reader = At(file, 0)
  BY <1>2, Zenon DEF TextBufferReader, At
<1>4. Halfway(file, rows, 0)
  <2>1. From(file, 0 + 1) = file /\ 0 \in 0..Len(file)
    BY <1>2, TextCutIs, NoText0
  <2>2. <<>> \o InkLines(file) = InkLines(file)
    <3>1. InkLines(file) \in Seq(Texts)
      BY <1>2, LinesType, Zenon DEF LinesTyped
    <3>2. QED
      BY <3>1, RowsJoin
  <2>3. QED
    BY <1>1, <1>2, <2>1, <2>2, Zenon DEF Halfway
<1>5. <<>> \in Seq(Texts)
  OBVIOUS
<1>6. QED
  BY <1>2, <1>3, <1>4, <1>5, Zenon DEF RowsKept

LEMMA RowsStep ==
  RowsKept /\ [TextNext]_<<loadVars, configVars>> => RowsKept'
<1>1. SUFFICES ASSUME RowsKept, [TextNext]_<<loadVars, configVars>>, into' = "rows",
                      LastLine(file') = <<>>, Windows(file')
               PROVE  RowsKept'
  BY Zenon DEF RowsKept, Windows, LastLine
<1>2. into = "rows" /\ (UNCHANGED loadVars \/ ReadBufferRow)
  <2>1. into' # "config"
    BY <1>1
  <2>2. into = "rows" /\ (UNCHANGED loadVars \/ ReadRow \/ AppendLine \/ AppendAndGrow \/ ReadBufferRow)
    BY <1>1, <2>1, LoadSteps, Zenon
  <2>3. QED
    BY <2>2, Zenon DEF ReadRow, AppendLine, AppendAndGrow
<1>3. file' = file
  BY <1>2, Zenon DEF loadVars, ReadBufferRow
<1>4. CASE UNCHANGED loadVars
  <2>1. UNCHANGED <<file, into, reader, rows, phase>>
    BY <1>4, Zenon DEF loadVars
  <2>2. QED
    BY <1>1, <2>1, Zenon DEF RowsKept
<1>5. CASE ReadBufferRow
  <2>1. SUFFICES ASSUME NEW o, o = TextBufferReader_GetLine(reader)
                 PROVE  RowsKept'
    BY Zenon
  <2>2. /\ phase = Reading /\ reader' = o.reader
        /\ rows' = IF o.ret > 0 THEN Append(rows, o.text) ELSE rows
        /\ phase' = IF o.ret > 0 \/ o.ret = CONTINUE_READING THEN Reading ELSE Loaded
    BY <1>5, <2>1, Zenon DEF ReadBufferRow
  <2>3. /\ file \in Texts /\ rows \in Seq(Texts) /\ Windows(file)
        /\ \E n : reader = At(file, n) /\ Halfway(file, rows, n)
    BY <1>1, <1>2, <1>3, <2>2, Zenon DEF RowsKept
  <2>4. PICK n : reader = At(file, n) /\ Halfway(file, rows, n)
    BY <2>3, Zenon
  <2>5. o = TextBufferReader_GetLine(At(file, n))
    BY <2>1, <2>4, Zenon
  <2>6. /\ o.ret > 0 => /\ o.text \in Texts
                        /\ \E m : o.reader = At(file, m) /\ Halfway(file, rows \o <<o.text>>, m)
        /\ ~ (o.ret > 0) => o.ret # CONTINUE_READING /\ rows = InkLines(file)
    BY <2>3, <2>4, <2>5, RowGot
  <2>7. Reading # Loaded
    BY DEF Reading, Loaded
  <2>8. CASE o.ret > 0
    <3>1. Append(rows, o.text) = rows \o <<o.text>> /\ rows \o <<o.text>> \in Seq(Texts)
      <4>1. <<o.text>> \in Seq(Texts)
        BY <2>6, <2>8
      <4>2. QED
        BY <2>3, <2>6, <2>8, <4>1, AppendIsConcat, RowsJoin
    <3>2. rows' = rows \o <<o.text>> /\ phase' = Reading /\ reader' = o.reader
      BY <2>2, <2>8, <3>1, Zenon
    <3>3. QED
      BY <1>3, <2>3, <2>6, <2>8, <3>1, <3>2, Zenon DEF RowsKept
  <2>9. CASE ~ (o.ret > 0)
    <3>1. rows' = rows /\ phase' = Loaded /\ rows = InkLines(file)
      BY <2>2, <2>6, <2>9, Zenon
    <3>2. InkLines(file') = InkLines(file)
      BY <1>3, Zenon
    <3>3. QED
      BY <1>3, <2>3, <2>7, <3>1, <3>2, Zenon DEF RowsKept
  <2>10. QED
    BY <2>8, <2>9
<1>6. QED
  BY <1>2, <1>4, <1>5

(* Every loaded array holds the lines, and that of a text in memory all but *)
(* the empty ones, for every text and every size of the readers' buffers.   *)
LEMMA RowsHold == ArrayKept /\ RowsKept => RowsAreTheLines
<1>1. SUFFICES ASSUME ArrayKept, RowsKept
               PROVE  RowsAreTheLines
  BY Zenon
<1>2. RowsAreTheInk
  <2>1. Loaded # Reading
    BY DEF Reading, Loaded
  <2>2. QED
    BY <1>1, <2>1, Zenon DEF RowsAreTheInk, RowsKept
<1>3. ASSUME into = "array"
      PROVE  IF phase = Loaded
             THEN /\ Len(rows) \in Len(FileLines)..Len(FileLines) + 1
                  /\ IsPrefix(FileLines, rows)
                  /\ Len(rows) = Len(FileLines) + 1 =>
                       IsPrefix(Until(LastLine(file), <<Return>>), rows[Len(FileLines) + 1])
             ELSE IsPrefix(rows, FileLines) \/ IsPrefix(FileLines, rows)
  <2>1. /\ file \in Texts /\ rows \in Seq(Texts)
        /\ phase = Reading => SoundReader(reader) /\ Filling(rows, file, reader)
        /\ phase # Reading => phase = Loaded /\ FilledUp(rows, file)
    BY <1>1, <1>3, Zenon DEF ArrayKept
  <2>2. PICK f, n : f = PlainLines(file) /\ n = Len(f)
    OBVIOUS
  <2>3. FileLines = f
    BY <2>2, Zenon DEF FileLines, PlainLines
  <2>4. /\ FilledUp(rows, file) => /\ Len(rows) \in n..n + 1
                                   /\ IsPrefix(f, rows)
                                   /\ Len(rows) = n + 1 => IsPrefix(Until(LastLine(file), <<Return>>), rows[n + 1])
        /\ \A r : SoundReader(r) /\ Filling(rows, file, r) => IsPrefix(rows, f) \/ IsPrefix(f, rows)
    BY <2>1, <2>2, ArrayHolds
  <2>5. Loaded # Reading
    BY DEF Reading, Loaded
  <2>6. CASE phase = Reading
    <3>1. IsPrefix(rows, FileLines) \/ IsPrefix(FileLines, rows)
      BY <2>1, <2>3, <2>4, <2>6, Zenon
    <3>2. QED
      BY <2>5, <2>6, <3>1, Zenon
  <2>7. CASE phase # Reading
    <3>1. FilledUp(rows, file) /\ phase = Loaded
      BY <2>1, <2>7, Zenon
    <3>2. n = Len(FileLines)
      BY <2>2, <2>3, Zenon
    <3>3. QED
      BY <2>3, <2>4, <3>1, <3>2, Zenon
  <2>8. QED
    BY <2>6, <2>7, Zenon
<1>4. QED
  BY <1>2, <1>3, Zenon DEF RowsAreTheLines

(* A text is loaded into the rows of an array line by line: every line of a *)
(* file once and in order, and of a text in memory every line that is not   *)
(* empty, for every text and every size of the readers' buffers.            *)
THEOREM RowsAlwaysTheLines == TextSpec => []RowsAreTheLines
<1>1. TextInit => ArrayKept /\ RowsKept
  BY ArrayStarts, RowsStarts
<1>2. ArrayKept /\ RowsKept /\ [TextNext]_<<loadVars, configVars>> => (ArrayKept /\ RowsKept)'
  BY ArrayStep, RowsStep
<1>3. ArrayKept /\ RowsKept => RowsAreTheLines
  BY RowsHold
<1>4. QED
  BY <1>1, <1>2, <1>3, PTL DEF TextSpec
=============================================================================
