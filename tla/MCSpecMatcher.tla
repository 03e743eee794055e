---------------------------- MODULE MCSpecMatcher ----------------------------
(***************************************************************************)
(* The inputs of SpecMatcher for TLC.                                      *)
(***************************************************************************)
EXTENDS SpecMatcher, MCAlphabet

PatternsOf(S, m) == { p \in UpTo(S, m) : IsPattern(p) }

Lits(texts) == { LitTok(t) : t \in texts }
Specs(kinds) == { SpecTok(kd) : kd \in kinds }

Pairs(P, L) == [patterns |-> P, lines |-> L]

(* Lazy gaps against literals, specs, newlines and two-byte chars.         *)
GapInputs ==
  Pairs(PatternsOf(Specs({"Str", "Errno", "Char"}) \cup Lits({<<"q">>, <<"q", "q">>, Letter}), 3),
        LinesOf({<<"q">>, <<"0">>, <<"nl">>, Letter}, 4))

(* Numeric classes against each other, a literal digit and a gap.          *)
NumberInputs ==
  Pairs(PatternsOf(Specs({"Int", "Uint", "Oct", "Hex", "Float", "Str"}) \cup Lits({<<"0">>, <<"-">>}), 3),
        LinesOf({<<"0">>, <<"9">>, <<"a">>, <<"-">>}, 3))

(* %p beside hex digits and gaps.                                          *)
PointerInputs ==
  Pairs(PatternsOf(Specs({"Ptr", "Hex", "Errno"}) \cup Lits({<<"a">>}), 3),
        LinesOf({MCHexPrefix, <<"a">>, <<"0">>, MCNilText}, 3))

(* Digits that only Unicode knows.                                         *)
WideInputs ==
  Pairs(PatternsOf(Specs({"Int", "Uint", "Str", "Hex"}) \cup Lits({<<"q">>}), 2),
        LinesOf({<<"0">>, <<"-">>, <<"q">>, Arabic}, 3))

(* Longer messages: two or three gaps between literals.                    *)
MessageInputs ==
  Pairs({ <<SpecTok("Str"), LitTok(<<"q">>), SpecTok(a), LitTok(<<"q">>), SpecTok(b)>> :
          a \in {"Str", "Errno"}, b \in {"Str", "Int"} },
        LinesOf({<<"q">>, <<"0">>, Letter}, 5))

MCInputs == {GapInputs, NumberInputs, PointerInputs, WideInputs, MessageInputs}
==============================================================================
