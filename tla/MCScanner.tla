------------------------------- MODULE MCScanner -------------------------------
(***************************************************************************)
(* Catalogs and lines of Scanner for TLC.                                  *)
(***************************************************************************)
EXTENDS Scanner, MCAlphabet

MCChar == { <<b>> : b \in MCAscii }
          \cup {Letter, Arabic, DottedI, CombiningDot, MCSigma, MCSmallSigma, MCFinalSigma,
                Omicron, CapitalOmicron}

(* In code point order.                                                    *)
MCCodePoint ==
  LET order == << <<"nl">>, <<"(">>, <<")">>, <<"-">>, <<".">>, <<"0">>, <<"9">>, <<"A">>,
                  <<"a">>, <<"i">>, <<"l">>, <<"n">>, <<"q">>, <<"x">>, Letter, DottedI,
                  CombiningDot, CapitalOmicron, MCSigma, Omicron, MCFinalSigma,
                  MCSmallSigma, Arabic >>
  IN [ c \in MCChar |-> CHOOSE i \in DOMAIN order : order[i] = c ]

MCLowerChar ==
  [ c \in MCChar |-> CASE c = <<"A">> -> << <<"a">> >>
                       [] c = DottedI -> << <<"i">>, CombiningDot >>
                       [] c = CapitalOmicron -> <<Omicron>>
                       [] OTHER -> <<c>> ]

MCCased == { <<b>> : b \in {"a", "A", "x", "q", "n", "i", "l"} }
           \cup {Letter, DottedI, MCSigma, MCSmallSigma, MCFinalSigma, Omicron, CapitalOmicron}
MCCaseIgnorable == { <<".">>, CombiningDot }

(* The texts of a message, named; what lower_format makes of them.         *)
Str == SpecTok("Str")
Lowering(toks, k) == [ok |-> TRUE, toks |-> toks, literal_len |-> k]
Rejected == [ok |-> FALSE, toks |-> <<>>, literal_len |-> 0]

MCLowerFormat ==
  [ t \in {"dangling", "catchall", "short", "word", "headed", "tailed", "twice", "long", "upper",
           "dotted", "greek", "number", "echo"} |->
      CASE t = "dangling" -> Rejected
        [] t = "catchall" -> Lowering(<<Str>>, 0)
        [] t = "short"    -> Lowering(<<Str, LitTok(<<"q", "a">>), SpecTok("Errno")>>, 2)
        [] t = "word"     -> Lowering(<<LitTok(<<"a", "q", "a">>)>>, 3)
        [] t = "headed"   -> Lowering(<<LitTok(<<"a", "q", "a">>), Str>>, 3)
        [] t = "tailed"   -> Lowering(<<Str, LitTok(<<"q", "a", "q">>), SpecTok("Char")>>, 3)
        [] t = "twice"    -> Lowering(<<Str, LitTok(<<"a", "q", "a">>), Str, LitTok(<<"q">>)>>, 4)
        [] t = "long"     -> Lowering(<<Str, LitTok(<<"a", "q", "a", "q">>)>>, 4)
        [] t = "upper"    -> Lowering(<<LitTok(<<"A", "q", "a">>), SpecTok("Errno")>>, 3)
        [] t = "dotted"   -> Lowering(<<Str, LitTok(DottedI \o <<"q">>), Str>>, 2)
        [] t = "greek"    -> Lowering(<<LitTok(CapitalOmicron \o CapitalOmicron \o MCSigma), Str>>, 3)
        [] t = "number"   -> Lowering(<<LitTok(<<"a">>), SpecTok("Int")>>, 1)
        [] t = "echo"     -> Lowering(<<LitTok(<<"q", "a", "q">>), Str,
                                        LitTok(<<"q", "a", "q", "a">>)>>, 7) ]
MCText == DOMAIN MCLowerFormat

(* Sites that share trigrams, rank alike or shadow one another.            *)
MCCatalogs ==
  UpTo({"none", "dangling", "headed", "upper", "catchall"}, 2)
  \cup { <<"headed", "tailed", "short", "word", "twice">>,
         <<"twice", "none", "tailed", "headed", "catchall">>,
         <<"dotted", "short", "dangling", "tailed">>,
         <<"word", "upper", "headed">>, <<"tailed", "twice">>, <<"dotted", "headed">>,
         <<"long", "headed">>, <<"tailed", "long", "twice">>,
         <<"echo", "headed">>, <<"number", "catchall", "headed">> }

MCLines == LinesOf({ <<"a">>, <<"q">> }, 4)
           \cup { <<"a", "q", "a", "q", "a">>, <<"a", "q", "a", "nl", "q">>,
                  <<"q", "a", "q", "a", "q">>, <<"a", "q", "a", "a", "q">>,
                  <<"A", "q", "a">>, <<"A", "q", "a", "q">>, <<"a", "q", "A">>,
                  <<"A", "q", "A", "q">> \o Letter, Letter \o <<"q", "a", "q">> \o Letter,
                  DottedI \o <<"q">>, <<"a">> \o DottedI \o <<"q">>,
                  <<"i">> \o CombiningDot \o <<"q">>,
                  <<"q", "a", "q", "q", "a", "q", "a">>,
                  <<"a", "0">>, <<"a", "-", "9", "0">>, <<"a", "0", "q">>, <<"a", "9">> \o Letter }

SigmaCatalogs == { <<"greek">>, <<"catchall", "greek">> }
SigmaLines == LinesOf({ CapitalOmicron, MCSigma, <<"q">>, <<".">> }, 4)
===============================================================================
