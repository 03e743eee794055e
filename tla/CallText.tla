-------------------------------- MODULE CallText --------------------------------
(***************************************************************************)
(* The C argument walker of logref-extract: from the text of a logging     *)
(* call to the site it records.                                            *)
(*                                                                         *)
(* A text is a sequence of atoms: a punctuation char, a byte, or a word    *)
(* that stands for a run of identifier chars; an identifier is a maximal   *)
(* run of words.  The index i of the code is i + 1 here.                   *)
(***************************************************************************)
EXTENDS Integers, Sequences, FiniteSets

CONSTANTS
  Atom,       \* all atoms
  IdentStart, \* those an identifier can start with
  IdentChar,  \* those it can go on with
  Cont,       \* UTF-8 continuation bytes
  CharLen,    \* utf8_len of the lead bytes; 1 for every other atom
  U32,        \* 2^32, scaled down
  CharOf      \* char::from_u32: the text of each code that is a char

ASSUME CallTextAssumption ==
  /\ IdentStart \subseteq IdentChar /\ IdentChar \subseteq Atom /\ Cont \subseteq Atom
  /\ U32 \in Nat /\ DOMAIN CharOf \subseteq 0 .. U32 - 1

Space == {" ", "nl"}
Quotes == {"\"", "'"}
HexDigits == <<"0", "1", "2", "3", "4", "5", "6", "7", "8", "9", "a", "b", "c", "d", "e", "f">>
IsDigit(c) == \E k \in 1 .. 10 : HexDigits[k] = c
IsHex(c) == \E k \in 1 .. 16 : HexDigits[k] = c

None == <<"none">>   \* no value: no atom is called none
Panic == "panic"     \* marks a text whose computation panics: no atom either

NoAtom == ""
At(b, k) == IF k \in DOMAIN b THEN b[k] ELSE NoAtom

(* The end of the run of atoms of C that starts at k.                      *)
Past(b, k, C) ==
  CHOOSE e \in k .. Len(b) + 1 : At(b, e) \notin C /\ \A x \in k .. e - 1 : b[x] \in C

Trim(s) ==
  LET ink == { k \in DOMAIN s : s[k] \notin Space }
  IN IF ink = {} THEN <<>>
     ELSE SubSeq(s, CHOOSE k \in ink : \A x \in ink : k <= x, CHOOSE k \in ink : \A x \in ink : x <= k)

-----------------------------------------------------------------------------
(* Faulty: an escaped quote ends the literal.                              *)
skip_literal_unescaped(b, i) == Past(b, i + 1, Atom \ {b[i]}) + 1

(* The index past the quote that closes the one at i; past the end of b if *)
(* none does, two past it if b ends with a backslash.                      *)
skip_literal(b, i) ==
  LET end[k \in i + 1 .. Len(b) + 2] ==
        CASE k > Len(b) -> k
          [] k <= Len(b) /\ b[k] = "\\" -> end[k + 2]
          [] k <= Len(b) /\ b[k] = b[i] -> k + 1
          [] OTHER -> end[k + 1]
  IN end[i + 1]

(* Faulty: the last char before the paren is lost.                         *)
BetweenShort(b, open, close) == SubSeq(b, open + 1, close - 2)
Between(b, open, close) == SubSeq(b, open + 1, close - 1)

(* What is between the paren at open and its match, or up to the end.      *)
capture_parens(b, open) ==
  LET match[k \in open .. Len(b) + 2, depth \in 0 .. Len(b)] ==
        CASE k > Len(b) -> k
          [] At(b, k) \in Quotes -> match[skip_literal(b, k), depth]
          [] At(b, k) = "(" -> match[k + 1, depth + 1]
          [] At(b, k) = ")" -> IF depth = 1 THEN k ELSE match[k + 1, depth - 1]
          [] OTHER -> match[k + 1, depth]
      close == match[open, 0]
  IN IF close > Len(b) THEN [inner |-> SubSeq(b, open + 1, Len(b)), after |-> Len(b) + 1]
     ELSE [inner |-> Between(b, open, close), after |-> close + 1]

leading_ident(s) ==
  LET k == Past(s, 1, Space)
  IN IF At(s, k) \in IdentStart THEN SubSeq(s, k, Past(s, k, IdentChar) - 1) ELSE None

as_call(s) ==
  LET open == Past(s, Past(s, Past(s, 1, Space), IdentChar), Space)
      args == capture_parens(s, open)
  IN IF /\ leading_ident(s) # None /\ At(s, open) = "("
        /\ Trim(SubSeq(s, args.after, Len(s))) = <<>>
     THEN [name |-> leading_ident(s), inner |-> args.inner] ELSE [name |-> None, inner |-> <<>>]

Opener == {"(", "[", "{"}
Closer == {")", "]", "}"}

(* The commas outside of all brackets and literals.                        *)
TopCommas(s) ==
  LET from[k \in 1 .. Len(s) + 2, depth \in -Len(s) .. Len(s)] ==
        CASE k > Len(s) -> <<>>
          [] At(s, k) \in Quotes -> from[skip_literal(s, k), depth]
          [] At(s, k) \in Opener -> from[k + 1, depth + 1]
          [] At(s, k) \in Closer -> from[k + 1, depth - 1]
          [] At(s, k) = "," /\ depth = 0 -> <<k>> \o from[k + 1, depth]
          [] OTHER -> from[k + 1, depth]
  IN from[1, 0]

split_top_level_args(s) ==
  LET cut == <<0>> \o TopCommas(s) \o <<Len(s) + 1>>
      args == [ a \in 1 .. Len(cut) - 1 |-> Trim(SubSeq(s, cut[a] + 1, cut[a + 1] - 1)) ]
  IN IF args = << <<>> >> THEN <<>> ELSE args

IsCallStart(b, k) == At(b, k) \in IdentStart /\ (k > 1 => b[k - 1] \notin IdentChar)

(* The arguments of the calls to one of names, in order; the arguments of  *)
(* a call are not searched.                                                *)
find_calls(b, names) ==
  LET from[k \in 1 .. Len(b) + 2] ==
        LET end == Past(b, k, IdentChar)
            open == Past(b, end, Space)
            call == capture_parens(b, open)
        IN CASE k > Len(b) -> <<>>
             [] At(b, k) \in Quotes -> from[skip_literal(b, k)]
             [] At(b, k) \notin Quotes \cup {NoAtom} /\ ~IsCallStart(b, k) -> from[k + 1]
             [] OTHER -> IF At(b, open) = "(" /\ SubSeq(b, k, end - 1) \in names
                         THEN <<call.inner>> \o from[call.after] ELSE from[end]
  IN from[1]

-----------------------------------------------------------------------------
(* Escapes.                                                                *)
Simple == [ n |-> "nl", t |-> "tab", r |-> "cr", a |-> "bel", b |-> "bs", f |-> "ff", v |-> "vt" ]

Number(b, from, to, base) ==
  LET value[k \in from - 1 .. to] ==
        IF k < from THEN 0
        ELSE (value[k - 1] * base + (CHOOSE d \in 1 .. 16 : HexDigits[d] = b[k]) - 1) % U32
  IN value[to]

CharText(code) == IF code \in DOMAIN CharOf THEN CharOf[code] ELSE <<>>

HexRun(b, k) == Past(b, k, { HexDigits[d] : d \in 1 .. 16 })

(* At most three octal digits; none of them if k holds an 8 or a 9.        *)
OctalRun(b, k) ==
  LET all == Past(b, k, { HexDigits[d] : d \in 1 .. 8 }) IN IF all > k + 3 THEN k + 3 ELSE all

(* The escape whose letter is at k: its text and the index past it.        *)
Escape(b, k) ==
  LET c == At(b, k)
  IN CASE c = NoAtom -> [text |-> <<"\\">>, next |-> k]
       [] c \in DOMAIN Simple -> [text |-> <<Simple[c]>>, next |-> k + 1]
       [] c = "x" /\ IsHex(At(b, k + 1)) ->
            [text |-> CharText(Number(b, k + 1, HexRun(b, k + 1) - 1, 16)), next |-> HexRun(b, k + 1)]
       [] IsDigit(c) -> [text |-> CharText(Number(b, k, OctalRun(b, k) - 1, 8)), next |-> OctalRun(b, k)]
       [] c \in DOMAIN CharLen -> [text |-> <<Panic>>, next |-> k + CharLen[c]]
       [] OTHER -> [text |-> <<c>>, next |-> k + 1]

decode_c_string(b) ==
  LET from[k \in 1 .. Len(b) + 1] ==
        LET size == IF b[k] \in DOMAIN CharLen THEN CharLen[b[k]] ELSE 1
        IN CASE k > Len(b) -> <<>>
             [] k <= Len(b) /\ b[k] = "\\" -> Escape(b, k + 1).text \o from[Escape(b, k + 1).next]
             [] OTHER -> SubSeq(b, k, k + size - 1) \o from[k + size]
  IN from[1]

(* A literal that panics does so before what is behind it is looked at.    *)
WithRest(text, rest) ==
  CASE \E m \in DOMAIN text : text[m] = Panic -> text
    [] rest = None -> None
    [] OTHER -> text \o rest

(* Adjacent literals, decoded; None if there is anything else.  Slicing    *)
(* out an unclosed literal drops its last byte, which may be half a char   *)
(* or the opening quote itself.                                            *)
parse_adjacent_literals(s) ==
  LET from[k \in 1 .. Len(s) + 2] ==
        LET end == skip_literal(s, k)
        IN CASE k > Len(s) -> <<>>
             [] At(s, k) \in Space -> from[k + 1]
             [] At(s, k) = "\"" ->
                  IF end = k + 1 \/ At(s, end - 1) \in Cont THEN <<Panic>>
                  ELSE WithRest(decode_c_string(SubSeq(s, k + 1, end - 2)), from[end])
             [] OTHER -> None
  IN IF Trim(s) = <<>> THEN None ELSE from[1]

Wrapper == { <<"_">>, <<"gettext">>, <<"gettext", "_noop">> }
DomainWrapper == { <<"dgettext">>, <<"dngettext">>, <<"ngettext">> }

(* Translation wrappers are peeled; of dgettext and its kin the first      *)
(* argument that is a literal is the message.                              *)
literal_text(expr) ==
  LET peel[e \in Seq(Atom)] ==
        LET call == as_call(e)
            literals == SelectSeq(split_top_level_args(call.inner), LAMBDA a : At(a, 1) = "\"")
        IN CASE call.name \in Wrapper -> peel[Trim(call.inner)]
             [] call.name \in DomainWrapper -> IF literals = <<>> THEN None ELSE peel[literals[1]]
             [] OTHER -> parse_adjacent_literals(e)
  IN peel[Trim(expr)]

message_from_expr(expr) ==
  [ expr |-> IF Trim(expr) = <<>> THEN None ELSE Trim(expr), text |-> literal_text(expr) ]

-----------------------------------------------------------------------------
ERRMSG_NAMES == { <<"errmsg">>, <<"errmsg", "_internal">>, <<"errmsg", "_plural">> }
ERRDETAIL_NAMES ==
  { <<"errdetail">>, <<"errdetail", "_internal">>, <<"errdetail", "_plural">>, <<"errdetail", "_log">>,
    <<"errdetail", "_log", "_plural">> }
ERRHINT_NAMES == { <<"errhint">>, <<"errhint", "_plural">>, <<"errhint", "_internal">> }
ERRCONTEXT_NAMES == { <<"errcontext">>, <<"errcontext", "_msg">> }
ERRCODE_NAMES == { <<"errcode">> }

first_arg(s) == LET args == split_top_level_args(s) IN IF args = <<>> THEN <<>> ELSE args[1]

MessagesOf(body, names) ==
  LET calls == find_calls(body, names)
  IN [ c \in DOMAIN calls |-> message_from_expr(first_arg(calls[c])) ]

EndsWith(s, suffix) == s # <<>> /\ s[Len(s)] = suffix
Stripped(s, suffixes) ==
  IF \E x \in suffixes : EndsWith(s, x) THEN SubSeq(s, 1, Len(s) - 1) ELSE s

FrontendLevel ==
  [ pg_fatal |-> "FATAL", pg_log_error |-> "ERROR", pg_log_warning |-> "WARNING",
    pg_log_info |-> "INFO", pg_log_debug |-> "DEBUG" ]

frontend_level(api) ==
  LET base == Stripped(Stripped(api, {"_internal"}), {"_detail", "_hint"})
  IN IF Len(base) = 1 /\ base[1] \in DOMAIN FrontendLevel THEN <<FrontendLevel[base[1]]>> ELSE None

frontend_part(api) ==
  CASE EndsWith(api, "_detail") -> "detail" [] EndsWith(api, "_hint") -> "hint" [] OTHER -> "primary"

(* The arguments from the first one after from, rejoined.                  *)
join_args_from(inner, from) ==
  LET args == split_top_level_args(inner)
      joined[k \in from .. Len(args)] ==
        IF k = from THEN <<>>
        ELSE joined[k - 1] \o (IF k = from + 1 THEN <<>> ELSE <<",", " ">>) \o args[k]
  IN IF from >= Len(args) THEN <<>> ELSE joined[Len(args)]

NoMessage == [expr |-> None, text |-> None]

(* The site of a call matched by rule.  domain and stderr are the rules    *)
(* postgres-ereport-domain and postgres-write-stderr, and so on.           *)
build_site(rule, call) ==
  LET api == IF leading_ident(call) = None THEN <<rule>> ELSE leading_ident(call)
      inner == as_call(call).inner
      args == split_top_level_args(inner)
      arg(k) == IF k \in DOMAIN args THEN args[k] ELSE None
      body == join_args_from(inner, IF rule = "domain" THEN 2 ELSE 1)
      messages == MessagesOf(body, ERRMSG_NAMES)
      message(k) == IF k \in DOMAIN args THEN message_from_expr(args[k]) ELSE NoMessage
      Site(kind, level, part, main) ==
        [ api |-> api, kind |-> kind, level |-> level, part |-> part, message |-> main,
          details |-> <<>>, hints |-> <<>>, contexts |-> <<>>, sqlstates |-> <<>>, call |-> call ]
  IN CASE rule \in {"ereport", "domain"} ->
            LET codes == find_calls(body, ERRCODE_NAMES)
            IN [ Site("backend", arg(1), "primary",
                      IF messages = <<>> THEN NoMessage ELSE messages[1])
                 EXCEPT !.details = MessagesOf(body, ERRDETAIL_NAMES),
                        !.hints = MessagesOf(body, ERRHINT_NAMES),
                        !.contexts = MessagesOf(body, ERRCONTEXT_NAMES),
                        !.sqlstates = SelectSeq([ c \in DOMAIN codes |-> first_arg(codes[c]) ],
                                                LAMBDA code : code # <<>>) ]
       [] rule = "elog" -> Site("backend", arg(1), "primary", message(2))
       [] rule = "stderr" -> Site("stderr", None, "primary", message(1))
       [] rule = "generic" -> Site("frontend", arg(1), "generic", message(3))
       [] OTHER -> Site("frontend", frontend_level(api), frontend_part(api), message(1))
===============================================================================
