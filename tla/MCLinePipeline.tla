----------------------------- MODULE MCLinePipeline -----------------------------
(***************************************************************************)
(* Pages and raw lines for TLC.  "@" is a date, "ERROR" and "LOG" are      *)
(* severity words; e1 e2 is a char of two bytes, z1 to z4 one of four (two *)
(* UTF-16 units), b1 b2 b3 the byte order mark.                            *)
(***************************************************************************)
EXTENDS LinePipeline

PDigit == {"4"}
PHex == {"4", "a"}
PFloat == {"4", "a", "-"}
PLevel == {"ERROR", "LOG"}
PAscii == PFloat \cup PLevel \cup {"q", "x", " ", ":", "@", "nl", "(", ")", "n", "i", "l", "[", "]", "+"}
PCont == {"e2", "z2", "z3", "z4", "b2", "b3"}
PByte == PAscii \cup PCont \cup {"e1", "z1", "b1"}
PWidth == [ b \in PByte \ PCont |-> CASE b = "e1" -> 2 [] b = "z1" -> 4 [] b = "b1" -> 3 [] OTHER -> 1 ]
PWordChar == PLevel \cup {"q", "x", "a", "4", "n", "i", "l"}
PStampChar == {"4", ":", "+", "-"}
PHexPrefix == <<"4", "x">>
PNilText == <<"(", "n", "i", "l", ")">>
PBom == <<"b1", "b2", "b3">>
E2 == <<"e1", "e2">>
Z4 == <<"z1", "z2", "z3", "z4">>

PStr == SpecTok("Str")
Low(toks, n, groups) == [ok |-> TRUE, toks |-> toks, literal_len |-> n, groups |-> groups]
PLower ==
  [ m \in {"dangling", "all", "word", "headed", "tailed", "number", "accent", "pair"} |->
      CASE m = "dangling" -> [ok |-> FALSE, toks |-> <<>>, literal_len |-> 0, groups |-> <<>>]
        [] m = "all"    -> Low(<<PStr>>, 0, <<"s">>)
        [] m = "word"   -> Low(<<LitTok(<<"q">>)>>, 1, <<>>)
        [] m = "headed" -> Low(<<LitTok(<<"q">>), PStr>>, 1, <<"s">>)
        [] m = "tailed" -> Low(<<PStr, LitTok(<<" ", "q">>), SpecTok("Errno")>>, 2, <<"s", "m">>)
        [] m = "number" -> Low(<<PStr, LitTok(<<" ">>), SpecTok("Int")>>, 1, <<"s", "d">>)
        [] m = "accent" -> Low(<<LitTok(E2 \o <<" ">>), PStr>>, 2, <<"s">>)
        [] m = "pair"   -> Low(<<SpecTok("Char"), LitTok(<<" ">>), PStr>>, 1, <<"c", "s">>) ]
PMessage == DOMAIN PLower

PSlugRank == [ s \in PMessage |-> CASE s = "dangling" -> 1 [] s = "tailed" -> 2 [] s = "pair" -> 3 [] s = "word" -> 4
                                    [] s = "headed" -> 5 [] s = "number" -> 6 [] s = "accent" -> 7 [] s = "all" -> 8 ]

Pages(names) == [ k \in DOMAIN names |-> [slug |-> names[k], message |-> names[k]] ]
PCatalogs ==
  { Pages(names) : names \in
      { <<>>, <<"all">>, <<"headed", "word">>, <<"number", "dangling", "tailed">>,
        <<"word", "number", "accent">>, <<"all", "pair", "headed", "number">>,
        <<"accent", "all", "headed", "word", "tailed">>,
        <<"headed", "word", "tailed", "number", "accent", "pair", "dangling", "all">> } }

Logged(prefix, message) == [text |-> prefix \o message, message |-> message]
Dated == <<"@", "4", ":", "4">>
Pids == <<"[", "4", "]">>
Blank == <<" ">>
Heads ==
  { <<>>, Dated \o Blank, Dated \o <<" ", "x", " ">>, Dated \o <<" ", "x", " ">> \o Pids \o Blank,
    Dated \o <<"+", "4">> \o Blank \o Pids \o Blank, Dated \o <<" ", "+", "4">> \o Blank \o Pids \o Blank,
    <<"@", " ", "LOG", ":", " ">>, <<"ERROR", ":", "nl", " ">>,
    Dated \o <<" ", "x", " ", "LOG", ":", " ", "ERROR", ":", " ">> }
Messages == { <<"q">>, <<"4", " ", "4">>, <<"x", "q", " ", "q">>, E2 \o <<" ", "4">>,
              <<"q">> \o Z4 \o <<" ", "4">>, Z4 \o <<" ", "q">> \o E2,
              Pids \o <<" ", "q">>, <<"[", "q">>, <<"q", "LOG", ":", " ", "4">>, <<"q", " ", "LOG", ":">>, <<"q", " ", "LOG", ":", " ", "q">> }
PRaws == { Logged(f, m) : f \in Heads, m \in Messages }

BomBatches ==
  { <<Logged(<<"LOG", ":", " ">>, m)>> : m \in Messages \cup { <<"q">> \o PBom \o <<"4">>, <<"4">> \o PBom \o <<" ", "4">> } }

PBatches ==
  { <<>> } \cup { <<r>> : r \in PRaws }
  \cup { <<Logged(<<>>, m), Logged(<<"LOG", ":", " ">>, n)>> : m \in Messages, n \in Messages }
  \cup BomBatches
===============================================================================
