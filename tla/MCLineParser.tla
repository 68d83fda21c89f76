--------------------------- MODULE MCLineParser ---------------------------
(* LineParser for TLC: every short line over the characters each call       *)
(* looks for, and lines as long as the workspace and longer; tags that      *)
(* leave room in tag_start, that fill it only with the marks added to them, *)
(* that fill it, and that are refused.                                     *)
EXTENDS LineParser

MarkLines == BoundedSeq({"a", ":"}, 7)
TagLines == BoundedSeq({"a", "(", ")"}, 5) \cup {<<"a", "(", "a", "a", "a", "a", ")">>}
DashLines == {<<"-", "a", " ">> \o s : s \in BoundedSeq({"a", " ", "\""}, 3)}
               \cup {<<"a", "-", "a", " ", "a">>}
BlankLines == BoundedSeq({"a", " ", "\n"}, 5)
PairLines == {<<"a">> \o s : s \in BoundedSeq({"a", ";"}, 3)}
LongLines == {[i \in 1..8 |-> "a"]}

MCLines == MarkLines \cup TagLines \cup DashLines \cup BlankLines \cup PairLines \cup LongLines

MCTags == {<<>>, <<"a">>, <<":">>, <<":", ":">>} \cup {[i \in 1..n |-> "a"] : n \in 3..6}

MCReplacements == {<<>>, <<"b", ":">>, <<"b", "a", "b">>, [i \in 1..7 |-> "b"]}
=============================================================================
