----------------------------- MODULE MCExtractor -----------------------------
(***************************************************************************)
(* Calls for TLC, put together from their parts: each constructor gives    *)
(* the source text next to what it means.  A checkout holds one call of    *)
(* the grammar, or several calls in two files that may be edited.          *)
(***************************************************************************)
EXTENDS Extractor

XStart == { "q", "n", "x", "a", "s", "_", "ERROR", "CODE", "msgbuf", "psprintf", "relkind", "gettext", "_noop",
            "dgettext", "ngettext", "DOMAIN", "ereport", "ereport_domain", "elog", "write_stderr",
            "errmsg", "errdetail", "errhint", "errcontext", "errcode", "_internal", "_plural", "_log", "_msg",
            "pg_log_error", "pg_fatal", "pg_log_generic", "pg_detail", "_detail", "_hint", "don", "t" }
XDigit == { "0", "1", "4", "8" }
XIdentChar == XStart \cup XDigit
XCharLen == [ c \in {"e1"} |-> 2 ]
XAtom == XStart \cup XDigit
  \cup { "\"", "'", "\\", "(", ")", "[", "]", "{", "}", ",", ";", "?", ":", "/", "*", "%", " ", "nl", "e1", "e2", "fffd" }
XCharOf == 0 :> <<"nul">> @@ 1 :> <<"soh">> @@ 65 :> <<"A">> @@ 233 :> <<"e1", "e2">>

Joined(args) == FlattenSeq([ k \in DOMAIN args |-> IF k = 1 THEN args[k] ELSE <<",", " ">> \o args[k] ])
CallOf(name, args) == name \o <<"(">> \o Joined(args) \o <<")">>

(* Spellings of chars in a string literal.                                 *)
Is(atoms) == [src |-> atoms, text |-> atoms]
As(src, text) == [src |-> src, text |-> text]
Quote == As(<<"\\", "\"">>, <<"\"">>)
Slash == As(<<"\\", "\\">>, <<"\\">>)
Nl == As(<<"\\", "n">>, <<"nl">>)
HexA == As(<<"\\", "x", "4", "1">>, <<"A">>)
OctA == As(<<"\\", "1", "0", "1">>, <<"A">>)
Nul == As(<<"\\", "0">>, <<"nul">>)
OneEight == As(<<"\\", "1", "8">>, <<"soh", "8">>)
Wide == Is(<<"e1", "e2">>)
Word == Is(<<"q">>)
Blank == Is(<<" ">>)

(* Message expressions.                                                    *)
Lit(chars) == [ src |-> <<"\"">> \o FlattenSeq([ k \in DOMAIN chars |-> chars[k].src ]) \o <<"\"">>,
                text |-> FlattenSeq([ k \in DOMAIN chars |-> chars[k].text ]) ]
Next2(e, f) == [src |-> e.src \o <<"nl", " ">> \o f.src, text |-> e.text \o f.text]
Wrapped(name, e) == [src |-> CallOf(name, <<e.src>>), text |-> e.text]
InDomain(e) == [src |-> CallOf(<<"dgettext">>, << <<"DOMAIN">>, e.src >>), text |-> e.text]
Plural(e, f) == [src |-> CallOf(<<"ngettext">>, << e.src, f.src, <<"n">> >>), text |-> e.text]
Computed(src) == [src |-> src, text |-> None]

Q == Lit(<<Word>>)
Literals ==
  { Lit(<<>>), Q, Lit(<<Quote, Blank>>), Lit(<<Slash>>), Lit(<<Word, Slash, Quote>>),
    Lit(<<Is(<<"(">>), Quote>>), Lit(<<Is(<<")", ",">>), Word>>), Lit(<<Is(<<"'">>)>>),
    Lit(<<Is(<<"errmsg", "(">>)>>), Lit(<<HexA, Blank, OctA, Nul>>), Lit(<<Nl, OneEight>>),
    Lit(<<Wide, Is(<<"%", "s">>)>>), Lit(<<Is(<<"/", "*">>), Is(<<"{">>)>>) }
Exprs == Literals \cup
  { Next2(Q, Lit(<<Quote>>)), Wrapped(<<"_">>, Lit(<<Wide>>)), Wrapped(<<"gettext", "_noop">>, Wrapped(<<"_">>, Lit(<<Quote>>))),
    InDomain(Next2(Q, Q)), Plural(Q, Lit(<<>>)), Plural(Wrapped(<<"_">>, Q), Q) \* no literal argument
    , Computed(<<"msgbuf">>), Computed(CallOf(<<"psprintf">>, << Q.src, <<"x">> >>)),
    Computed(<<"msgbuf", "[", "x", ",", "n", "]">>), Computed(<<"x", "?">> \o Q.src \o <<":">> \o Q.src),
    Computed(Q.src \o <<" ", "msgbuf">>) }
SomeExprs == { Q, Lit(<<Is(<<"(">>), Quote>>), Next2(Lit(<<Quote>>), Q), Computed(<<"msgbuf">>) }

Message(e) == [expr |-> e.src, text |-> e.text]

(* Parts of an ereport: role, source, and the message or code.             *)
Part(role, name, e, more) == [role |-> role, src |-> CallOf(name, <<e.src>> \o more), of |-> e]
CharArg == << <<"'", "\"", "'">>, <<"'", "(", "'">> >>
NestedArg == << CallOf(<<"relkind">>, << <<"x">>, Lit(<<Is(<<")">>)>>).src >>) >>
Code == Part("code", <<"errcode">>, Computed(<<"CODE">>), <<>>)
Extras ==
  { <<>>, <<Code>>,
    <<Part("detail", <<"errdetail">>, Q, <<>>), Part("hint", <<"errhint">>, Q, CharArg)>>,
    <<Part("other", <<"errdetail", "relkind">>, Q, <<>>), Code,
      Part("detail", <<"errdetail", "_log", "_plural">>, Lit(<<Quote>>), <<Q.src, <<"n">> >>)>>,
    <<Part("context", <<"errcontext", "_msg">>, Computed(<<"msgbuf">>), NestedArg),
      Part("detail", <<"errdetail">>, Q, <<>>), Part("detail", <<"errdetail", "_internal">>, Lit(<<Word, Quote>>), <<>>)>> }

Only(parts, role) == SelectSeq(parts, LAMBDA p : p.role = role)
Messages(parts, role) == LET ps == Only(parts, role) IN [ k \in DOMAIN ps |-> Message(ps[k].of) ]
Site(api, kind, level, part, message, parts, src) ==
  [ api |-> api, kind |-> kind, level |-> level, part |-> part, message |-> message,
    details |-> Messages(parts, "detail"), hints |-> Messages(parts, "hint"),
    contexts |-> Messages(parts, "context"),
    sqlstates |-> [ k \in DOMAIN Only(parts, "code") |-> <<"CODE">> ], call |-> src ]

Comment(words) == <<"/", "*", " ">> \o words \o <<" ", "*", "/", " ">>

(* Calls, with the rule that reports them and the site that is meant.      *)
EreportWith(rule, args, parts, src) ==
  [ rule |-> rule, src |-> src,
    meant |-> Site(args[1], "backend", <<"ERROR">>, "primary",
                   IF Only(parts, "msg") = <<>> THEN NoMessage ELSE Messages(parts, "msg")[1], parts, src) ]
Ereport(head, parts, grouped) ==
  LET srcs == [ k \in DOMAIN parts |-> parts[k].src ]
      body == IF grouped THEN <<CallOf(<<>>, srcs)>> ELSE srcs
  IN EreportWith(IF Len(head) = 3 THEN "domain" ELSE "ereport", head, parts,
                 CallOf(head[1], SubSeq(head, 2, Len(head)) \o body))
Commented(words) ==
  LET parts == <<Part("msg", <<"errmsg">>, Q, <<>>), Code>>
  IN EreportWith("ereport", << <<"ereport">> >>, parts,
                 CallOf(<<"ereport">>, << <<"ERROR">>, Comment(words) \o parts[1].src, Code.src >>))

Plainly(rule, api, kind, level, part, before, e) ==
  LET src == CallOf(api, before \o <<e.src, <<"x">> >>)
  IN [ rule |-> rule, src |-> src, meant |-> Site(api, kind, level, part, Message(e), <<>>, src) ]
Elog(e) == Plainly("elog", <<"elog">>, "backend", <<"ERROR">>, "primary", << <<"ERROR">> >>, e)
Frontend(api, level, part, e) == Plainly("primary", api, "frontend", level, part, <<>>, e)

EreportHead == << <<"ereport">>, <<"ERROR">> >>
DomainHead == << <<"ereport_domain">>, <<"ERROR">>, <<"DOMAIN">> >>
MsgPart(e) == Part("msg", <<"errmsg">>, e, NestedArg)

Calls ==
  { Elog(e) : e \in Exprs }
  \cup { Ereport(EreportHead, <<MsgPart(e)>> \o more, g) : e \in SomeExprs, more \in Extras, g \in BOOLEAN }
  \cup { Ereport(EreportHead, more \o <<MsgPart(e)>>, TRUE) : e \in Exprs, more \in Extras }
  \cup { Ereport(DomainHead, <<Part("msg", <<"errmsg", "_internal">>, e, <<>>), MsgPart(Q)>>, g) : e \in SomeExprs, g \in BOOLEAN }
  \cup { Ereport(EreportHead, more, TRUE) : more \in Extras \ {<<>>} }
  \cup { Commented(<<"msgbuf", " ", "%", "s">>) }
  \cup { Plainly("stderr", <<"write_stderr">>, "stderr", None, "primary", <<>>, e) : e \in SomeExprs }
  \cup { Plainly("generic", <<"pg_log_generic">>, "frontend", <<"ERROR">>, "generic",
                 << <<"ERROR">>, <<"pg_detail">> >>, e) : e \in SomeExprs }
  \cup UNION { { Frontend(<<"pg_log_error">>, <<"ERROR">>, "primary", e),
                 Frontend(<<"pg_fatal", "_internal">>, <<"FATAL">>, "primary", e),
                 Frontend(<<"pg_log_error", "_detail">>, <<"ERROR">>, "detail", e),
                 Frontend(<<"pg_log_error", "_hint">>, <<"ERROR">>, "hint", e) } : e \in SomeExprs }

(* A checkout of files that hold the calls given as <<path, call>>.        *)
Checkout(paths, located) ==
  LET upto[k \in 0 .. Len(located)] ==
        IF k = 0 THEN [disk |-> [ p \in paths |-> <<>> ], results |-> <<>>]
        ELSE LET so == upto[k - 1]
                 path == located[k][1]
                 call == located[k][2]
                 from == Len(so.disk[path]) + 1
             IN [ disk |-> [so.disk EXCEPT ![path] = @ \o call.src \o <<";", "nl">>],
                  results |-> Append(so.results,
                    [ path |-> path, rule |-> call.rule, from |-> from, to |-> from + Len(call.src) - 1,
                      meant |-> call.meant ]) ]
  IN upto[Len(located)]

OneCall == { Checkout({"c"}, << <<"c", call>> >>) : call \in Calls }

SomeCalls == { Elog(Q), Elog(Lit(<<Wide>>)), Frontend(<<"pg_fatal">>, <<"FATAL">>, "primary", Computed(<<"x">>)) }
TwoFiles ==
  { Checkout({"a", "b"}, [ k \in 1 .. 3 |-> <<paths[k], calls[k]>> ]) :
      paths \in [1 .. 3 -> {"a", "b"}], calls \in [1 .. 3 -> SomeCalls] }
Lost == { [c EXCEPT !.disk["b"] = Missing] : c \in TwoFiles }

XCheckouts == OneCall \cup TwoFiles \cup Lost

(* Edits that move, shorten or cut a call.                                 *)
Torn == <<"elog", "(", "ERROR", ",">> \o [ k \in 1 .. 7 |-> " " ] \o <<"\"">>
XEdits ==
  { [path |-> "a", text |-> text] :
      text \in { <<>>, <<";">> \o Elog(Q).src \o Elog(Lit(<<Wide>>)).src \o <<"e1", "e2">>,
                 Elog(Lit(<<Wide>>)).src, Torn \o Elog(Lit(<<Wide>>)).src } }

ApostropheCheckouts ==
  { Checkout({"c"}, << <<"c", call>> >>) :
      call \in { Commented(<<"don", "t">>), Commented(<<"don", "'", "t">>) } \cup { Elog(e) : e \in SomeExprs } }
===============================================================================
