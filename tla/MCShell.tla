------------------------------ MODULE MCShell -------------------------------
(* Shell for TLC: all lines of up to four characters, and longer ones with *)
(* every way to nest two pipes, lists and blocks.                          *)
EXTENDS Shell

Chars == {"c", Blank} \cup Symbols
ShortLines == UNION {[1 .. n -> Chars] : n \in 0 .. 4}

LongLines == {
  <<"c", "|", "c", "|", "e">>,
  <<"e", "|", "e", "|", "c">>,
  <<"c", "|", "e", "|", "c">>,
  <<"e", "|", "(", "e", ";", "c", ")">>,
  <<"(", "e", ";", "c", ")", "|", "c">>,
  <<"(", "e", "|", "c", ")", "|", "e">>,
  <<"(", "e", "&", ")", "|", "c">>,
  <<"e", "|", "c", "&", ";", "e">>,
  <<"(", "c", "|", "e", "e", " ", ")", ">", "c">>,
  <<"e", " ", "|", "c", "<", "e", "e">>,
  <<"e", "|", "c", ">", ">", "c", "<", "e">>,
  <<"c", " ", "e", " ", "c", " ", "e">>, <<"c", " ", "e", "<", "c", " ", "e", ">", "e">>,
  <<"(", "c", ";", ")", "|", "c", "&">>}
MCLaterLines == {<<"e">>}
MCLines == ShortLines \cup LongLines
=============================================================================
