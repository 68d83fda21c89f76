---------------------------- MODULE MCConfigIni ----------------------------
(* Instances for TLC: every short text over a letter, a newline and a return *)
(* character is loaded, and one with a line longer than any buffer; the      *)
(* settings files are short texts with delimiters, lines of blanks that      *)
(* fill a line buffer or nearly, and lines with a key or a value as long as  *)
(* its field.                                                               *)
EXTENDS ConfigIni

MCFiles ==
  BoundedSeq({"a", "\n", "\r"}, 8)
    \cup {<<"a", "a", "a", "a", "a", "a", "a", "a", "\r", "a", "\n">>}
MCConfigFiles ==
  BoundedSeq({"k", "=", " ", "\n"}, 3)
    \cup {<<"k", "=", "\t", "v", "\r", "\n", "k", "=", "w", "\r", "\n", "l">>,
          <<"k", "k", "k", "k", "k", "k", "k", "=", "v">>,
          <<"k", "k", "k", "k", "=", "v">>,
          <<"k", "k", "k", "=", "v", "v", "v", "v">>,
          <<"k", "=", "v", "v", "v", "v", "v">>,
          <<"k", "=", " ", " ", " ", " ", " ", " ">>,
          <<"k", "=", " ", " ", " ", " ", " ">>}
MCKeys == {<<"k">>, <<"l", " ">>, <<"k", "k", "k", "k">>}
MCValues == {<<"v", "=">>, <<" ", "v">>, <<"v", "v", "v", "v", "v">>}
MCIntegers == {<<"7", "8">>}
MCJunk == {<<"x">>}
=============================================================================
