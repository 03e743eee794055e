------------------------------ MODULE MCLowering ------------------------------
(***************************************************************************)
(* Formats for TLC: every shape of one conversion, messages of up to four  *)
(* pieces, and short strings that need not be formats at all.              *)
(***************************************************************************)
EXTENDS Lowering, SequencesExt

LDigit == {"0", "1", "2", "3", "4", "5", "6", "7", "8", "9"}
LFloat == LDigit \cup {"-", "+", ".", "e", "E", "p", "P", "x", "X", "a", "A", "f", "F", "n", "N"}
LCont == {"e2"}
LAscii == LFloat \cup {"w", "Q", "q", "%", "nl", "(", "i", "l", ")", " ", "*", "$", "#", "h", "s", "d",
                       "u", "o", "c", "m", "y", "z", "g", "'", ",", "b", "B", "C", "D"}
LByte == LAscii \cup {"e1", "e2"}
LWidth == [ b \in LByte \ LCont |-> IF b = "e1" THEN 2 ELSE 1 ]
LHex == LDigit \cup {"a", "b", "c", "d", "e", "f", "A", "B", "C", "D", "E", "F"}
LOctal == LDigit \ {"8", "9"}
LHexPrefix == <<"0", "x">>
LSeparator == <<",">>
LNilText == <<"(", "n", "i", "l", ")">>

LChar == LAscii \cup {"wide"}
LUtf8 == [ c \in LChar |-> IF c = "wide" THEN <<"e1", "e2">> ELSE <<c>> ]

Text(c) == [conv |-> "", char |-> c]
Conv(pos, flags, width, prec, len, c) ==
  [conv |-> c, pos |-> pos, flags |-> flags, width |-> width, prec |-> prec, len |-> len]
Plain(c) == Conv(<<>>, <<>>, <<>>, <<>>, <<>>, c)

LValue ==
  [ c \in Conversion |->
      CASE c = "s" -> {<<>>, <<"-", "e1", "e2">>} [] c = "n" -> {<<>>} [] c = "m" -> {<<"w">>}
        [] c \in {"d", "i"} -> {<<"4">>, <<"-", "1", "2", "3", "4">>} [] c \in {"u", "o", "x", "X"} -> {<<"5">>}
        [] c \in HexFloat -> {<<"1", ".", "8", "p", "+", "1">>, <<"-", "1", ".", "b", "p", "+", "4">>}
        [] c \in FloatConv \ HexFloat -> {<<"1", ".", "5">>, <<"-", "5">>} [] c = "c" -> {<<"Q">>, <<"-">>}
        [] OTHER -> {LHexPrefix \o <<"5">>, LNilText} ]

Meant(ps) == [pieces |-> ps, fmt |-> FlattenSeq([ k \in DOMAIN ps |-> Spelling(ps[k]) ])]

UpTo(S, m) == UNION { [1 .. k -> S] : k \in 0 .. m }

Shapes ==
  { Conv(pos, flags, width, prec, len, c) :
      pos \in { <<>>, <<"1", "0", "$">> },
      flags \in { <<>>, <<"-">>, <<"0">>, <<"+">>, <<"#">>, <<" ">>, <<"'">>, <<"-", "0">> },
      width \in { <<>>, <<"3">>, <<"*">> },
      prec \in { <<>>, <<".">>, <<".", "1", "2">>, <<".", "*">> },
      len \in { <<>>, <<"l">>, <<"h", "h">>, <<"l", "l">>, <<"z">> },
      c \in { "s", "d", "x", "f", "a", "c", "p" } }

Short ==
  { Plain(c) : c \in { "s", "d", "u", "o", "X", "g", "c", "p", "m", "n" } }
  \cup { Text(c) : c \in { "q", "0", "wide", "%" } }

MeantInputs ==
  { Meant(<<p>>) : p \in Shapes }
  \cup { Meant(ps) : ps \in UpTo(Short, 3) \ {<<>>} }
  \cup { Meant(<<Text("q"), Conv(<<>>, <<"0">>, <<"3">>, <<>>, <<>>, "d"), p, q>>) :
            p \in Short, q \in Short }

PaddedInputs == { Meant(<<Text("q"), Conv(<<>>, flags, width, <<>>, <<>>, c)>>) :
                  flags \in { <<>>, <<"0">>, <<"+">>, <<"#">>, <<"'">> },
                  width \in { <<>>, <<"3">> }, c \in { "d", "x", "a" } }

JunkInputs ==
  { [pieces |-> <<>>, fmt |-> f] : f \in UpTo({ "%", "5", "*", ".", "$", "l", "s", "n", "y" }, 4) }

MCInputs == MeantInputs \cup JunkInputs
===============================================================================
