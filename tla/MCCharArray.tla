---------------------------- MODULE MCCharArray ----------------------------
(* CharArray for TLC: lines shorter and longer than a cell, with a mark,    *)
(* arrays of one and of two columns, and replacements with which a line     *)
(* fills its cell or is too long for it.                                    *)
EXTENDS CharArray

MCLines == {<<"a", ":", "a">>, <<"a", ":", "a", "b", "b">>}

MCReplacements == {<<"b", "b">>, <<"b", "b", "b">>}

MCNeedles == {<<>>, <<"a">>, <<":">>, <<"b", "|", "a">>, <<"a", "*", "b">>}

MCTables == {<< << <<"a">> >>, << <<>>, <<":">> >> >>}

MCRank == [c \in {"a", "b", ":", "*", "|"} |-> CASE c = "*" -> 1 [] c = ":" -> 2 [] c = "a" -> 3
                                               [] c = "b" -> 4 [] c = "|" -> 5]
=============================================================================
