-------------------------------- MODULE Lowering --------------------------------
(***************************************************************************)
(* lower_format and render_sample of logref-core, one after the other on   *)
(* one format string, char by char.                                        *)
(*                                                                         *)
(* A char is an element of Char and Utf8 gives its bytes; an index i of    *)
(* the code is i + 1 here.  pieces is the format the programmer meant, of  *)
(* which fmt is the spelling; it is a history that no action reads.        *)
(***************************************************************************)
EXTENDS AnchorFilter

CONSTANTS
  Char,       \* the chars of formats, ASCII ones named by themselves
  Utf8,       \* [Char -> Seq(Byte)]
  Inputs,     \* records [pieces, fmt]
  Value,      \* printf's: what it writes for the arguments of a conversion
  FieldWidth, \* printf's: the widths of padded arguments
  Separator   \* printf's: what the locale sets between groups of digits

ASSUME LoweringAssumption ==
  /\ Utf8 \in [Char -> Seq(Byte)]
  /\ \A c \in Char : /\ WellFormed(Utf8[c]) /\ Utf8[c] # <<>>
                     /\ \A k \in 2 .. Len(Utf8[c]) : Utf8[c][k] \in Cont
  /\ "%" \in Char
  /\ \A x \in Inputs : x.fmt \in Seq(Char)

VARIABLES
  pieces, fmt,   \* the input
  phase,         \* "lower", then "render", then "done"
  i,             \* the loop index
  literal,       \* the literal run that is not flushed yet
  lowered,       \* Lowered: tokens, literal_len, spec_count, groups
  verdict,       \* of lower_format: "ok", "DanglingPercent", "UnknownConversion"
  out, rendered  \* the sample, and whether render_sample gave one

vars == <<pieces, fmt, phase, i, literal, lowered, verdict, out, rendered>>

DigitChar == {"0", "1", "2", "3", "4", "5", "6", "7", "8", "9"}
FlagChar == {"-", "+", " ", "0", "#", "'"}
LengthChar == {"h", "l", "L", "q", "j", "z", "t"}
FloatConv == {"e", "E", "f", "F", "g", "G", "a", "A"}

(* render_sample has no value for a conversion.                            *)
NoSample == <<"none">>

-----------------------------------------------------------------------------
(* The spec parser.  At the end of the format there is no char.            *)
NoChar == ""
CharAt(f, k) == IF k <= Len(f) THEN f[k] ELSE NoChar

(* The end of the run of chars of C that starts at k.                      *)
PastRun(f, k, C) == Least({ e \in k .. Len(f) + 1 : CharAt(f, e) \notin C })

(* Faulty: an argument-supplied width is not understood.                   *)
consume_width_digits(f, k) == PastRun(f, k, DigitChar)

consume_width(f, k) == IF CharAt(f, k) = "*" THEN k + 1 ELSE PastRun(f, k, DigitChar)

(* The conversion that begins with the % at start, and where it ends.      *)
parse_spec(f, start) ==
  LET digits == PastRun(f, start + 1, DigitChar)
      position == IF digits > start + 1 /\ CharAt(f, digits) = "$" THEN digits + 1 ELSE start + 1
      width == consume_width(f, PastRun(f, position, FlagChar))
      precision == IF CharAt(f, width) = "." THEN consume_width(f, width + 1) ELSE width
      length == CharAt(f, precision)
      conv == IF length \in {"h", "l"} /\ CharAt(f, precision + 1) = length THEN precision + 2
              ELSE IF length \in LengthChar THEN precision + 1 ELSE precision
  IN [ conv |-> CharAt(f, conv), next |-> conv + 1 ]

(* Faulty: a signed number is taken for an unsigned one.                   *)
conversion_kind_unsigned(c) ==
  CASE c = "s" -> "Str" [] c \in {"d", "i", "u"} -> "Uint" [] c = "o" -> "Oct"
    [] c \in {"x", "X"} -> "Hex" [] c \in FloatConv -> "Float" [] c = "c" -> "Char"
    [] c = "p" -> "Ptr" [] c = "m" -> "Errno" [] c = "n" -> "None" [] OTHER -> "Unknown"

(* The class of a conversion; %n has none.                                 *)
conversion_kind(c) ==
  CASE c = "s" -> "Str" [] c \in {"d", "i"} -> "Int" [] c = "u" -> "Uint" [] c = "o" -> "Oct"
    [] c \in {"x", "X"} -> "Hex" [] c \in FloatConv -> "Float" [] c = "c" -> "Char"
    [] c = "p" -> "Ptr" [] c = "m" -> "Errno" [] c = "n" -> "None" [] OTHER -> "Unknown"

(* Faulty: a pointer is rendered without its prefix.                       *)
PtrSampleBare == <<"5", "5", "a", "0">>
PtrSample == HexPrefix \o <<"5", "5", "a", "0">>

(* render_sample's canned values; a word stands for the prose.             *)
Canned(c) ==
  CASE c \in {"s", "m"} -> <<"w">> [] c \in {"d", "i", "u"} -> <<"4", "2">>
    [] c = "o" -> <<"5", "2">> [] c = "x" -> <<"2", "a">> [] c = "X" -> <<"2", "A">>
    [] c \in FloatConv -> <<"1", ".", "5">> [] c = "c" -> <<"Q">>
    [] c = "p" -> PtrSample [] c = "n" -> <<>> [] OTHER -> NoSample

(* The bytes of the canned values are the ASCII ones they are named by.    *)
ASSUME SampleAssumption ==
  /\ {"0", "1", "2", "4", "5"} \subseteq Digit /\ {"2", "5"} \subseteq Octal
  /\ {"a", "A"} \subseteq Hex /\ "." \in Float
  /\ {"w", "Q"} \subseteq Byte \ (Cont \cup {Newline}) /\ Width["w"] = 1 /\ Width["Q"] = 1

-----------------------------------------------------------------------------
Init ==
  /\ \E x \in Inputs : pieces = x.pieces /\ fmt = x.fmt
  /\ phase = "lower" /\ i = 1 /\ literal = <<>>
  /\ lowered = [tokens |-> <<>>, literal_len |-> 0, spec_count |-> 0, groups |-> <<>>]
  /\ verdict = "ok" /\ out = <<>> /\ rendered = TRUE

(* What both loops find at i: a char, an escaped %, a spec, or the end.    *)
AtChar == i <= Len(fmt) /\ fmt[i] # "%"
AtPercent == i < Len(fmt) /\ fmt[i] = "%" /\ fmt[i + 1] = "%"
AtSpec == i <= Len(fmt) /\ fmt[i] = "%" /\ ~AtPercent
spec == parse_spec(fmt, i)

Flushed(tokens) == IF literal = <<>> THEN tokens ELSE Append(tokens, LitTok(literal))

Lowering == phase = "lower" /\ UNCHANGED <<pieces, fmt, out, rendered>>

(* Faulty: the two chars of an escaped % both count.                       *)
LowerTextByWidth(c, width) ==
  /\ literal' = literal \o Utf8[c]
  /\ lowered' = [lowered EXCEPT !.literal_len = @ + width]
  /\ i' = i + width
  /\ UNCHANGED <<phase, verdict>>

LowerText(c, width) ==
  /\ literal' = literal \o Utf8[c]
  /\ lowered' = [lowered EXCEPT !.literal_len = @ + 1]
  /\ i' = i + width
  /\ UNCHANGED <<phase, verdict>>

LowerChar == Lowering /\ AtChar /\ LowerText(fmt[i], 1)
LowerPercent == Lowering /\ AtPercent /\ LowerText("%", 2)

LowerSpec ==
  /\ Lowering /\ AtSpec /\ conversion_kind(spec.conv) \in Kind
  /\ literal' = <<>>
  /\ lowered' = [lowered EXCEPT
                   !.tokens = Append(Flushed(@), SpecTok(conversion_kind(spec.conv))),
                   !.spec_count = @ + 1,
                   !.groups = Append(@, spec.conv)]
  /\ i' = spec.next
  /\ UNCHANGED <<phase, verdict>>

(* Faulty: the run is flushed before %n too.                               *)
LowerNothingFlushes ==
  /\ Lowering /\ AtSpec /\ conversion_kind(spec.conv) = "None"
  /\ literal' = <<>> /\ lowered' = [lowered EXCEPT !.tokens = Flushed(@)]
  /\ i' = spec.next
  /\ UNCHANGED <<phase, verdict>>

(* %n writes nothing: the literal run goes on.                             *)
LowerNothing ==
  /\ Lowering /\ AtSpec /\ conversion_kind(spec.conv) = "None"
  /\ i' = spec.next
  /\ UNCHANGED <<phase, literal, lowered, verdict>>

LowerFails ==
  /\ Lowering /\ AtSpec /\ conversion_kind(spec.conv) = "Unknown"
  /\ verdict' = IF spec.conv = NoChar THEN "DanglingPercent" ELSE "UnknownConversion"
  /\ phase' = "render" /\ i' = 1
  /\ UNCHANGED <<literal, lowered>>

LowerEnds ==
  /\ Lowering /\ i > Len(fmt)
  /\ literal' = <<>> /\ lowered' = [lowered EXCEPT !.tokens = Flushed(@)]
  /\ phase' = "render" /\ i' = 1
  /\ UNCHANGED verdict

Rendering == phase = "render" /\ UNCHANGED <<pieces, fmt, literal, lowered, verdict>>

Emit(bytes, next) == out' = out \o bytes /\ i' = next /\ UNCHANGED <<phase, rendered>>

RenderChar == Rendering /\ AtChar /\ Emit(Utf8[fmt[i]], i + 1)
RenderPercent == Rendering /\ AtPercent /\ Emit(Utf8["%"], i + 2)
RenderSpec ==
  Rendering /\ AtSpec /\ Canned(spec.conv) # NoSample /\ Emit(Canned(spec.conv), spec.next)

(* Faulty: a conversion without a canned value is skipped.                 *)
RenderSkips ==
  Rendering /\ AtSpec /\ Canned(spec.conv) = NoSample /\ Emit(<<>>, spec.next)

RenderFails ==
  /\ Rendering /\ AtSpec /\ Canned(spec.conv) = NoSample
  /\ rendered' = FALSE /\ phase' = "done" /\ UNCHANGED <<i, out>>

RenderEnds ==
  /\ Rendering /\ i > Len(fmt)
  /\ phase' = "done" /\ UNCHANGED <<i, out, rendered>>

lower_format ==
  LowerChar \/ LowerPercent \/ LowerSpec \/ LowerNothing \/ LowerFails \/ LowerEnds
render_sample ==
  RenderChar \/ RenderPercent \/ RenderSpec \/ RenderFails \/ RenderEnds

Next == lower_format \/ render_sample

Spec == Init /\ [][Next]_vars

-----------------------------------------------------------------------------
TypeOK ==
  /\ fmt \in Seq(Char) /\ phase \in {"lower", "render", "done"}
  /\ i \in 1 .. Len(fmt) + 1
  /\ literal \in Seq(Byte) /\ out \in Seq(Byte) /\ rendered \in BOOLEAN
  /\ lowered \in [tokens : Seq(Token), literal_len : Nat, spec_count : Nat, groups : Seq(Char)]
  /\ verdict \in {"ok", "DanglingPercent", "UnknownConversion"}

(* The token sequence is one the matcher accepts: literal runs are         *)
(* maximal, whole UTF-8 and never empty ("The maximal literal runs between *)
(* conversion specs", scan.rs:176), whatever stands between them, %n and   *)
(* %% included.                                                            *)
TokensArePattern ==
  LET toks == lowered.tokens
  IN /\ IsPattern(toks)
     /\ WellFormed(literal)
     /\ phase = "lower" => toks = <<>> \/ toks[Len(toks)].kind # "Lit"

(* The counts ranking and labelling rely on: literal_len is the number of  *)
(* literal chars, spec_count the number of groups, and group g names a     *)
(* conversion of the g-th spec token (scan.rs:158-175).                    *)
NumChars(bytes) == Cardinality({ k \in DOMAIN bytes : bytes[k] \notin Cont })

CountsAreOfTokens ==
  LET toks == lowered.tokens
      specs == { k \in DOMAIN toks : toks[k].kind # "Lit" }
      chars[k \in 0 .. Len(toks)] ==
        IF k = 0 THEN NumChars(literal) ELSE chars[k - 1] + NumChars(toks[k].text)
  IN /\ lowered.literal_len = chars[Len(toks)]
     /\ lowered.spec_count = Cardinality(specs) /\ Len(lowered.groups) = Cardinality(specs)
     /\ \A k \in specs :
          conversion_kind(lowered.groups[Cardinality({ j \in specs : j <= k })]) = toks[k].kind

(* A sample resolves to its own format: render_sample is "the inverse of   *)
(* lower_format" (scan.rs:344).                                            *)
SampleResolves ==
  phase = "done" /\ verdict = "ok" => rendered /\ Captures(lowered.tokens, out) # NoMatch

(* Both loops reject the same formats: None "if the format contains a spec *)
(* that lowering itself would reject" (scan.rs:346).                       *)
VerdictsAgree == phase = "done" => (rendered <=> verdict = "ok")

-----------------------------------------------------------------------------
(* What the programmer meant.  A piece is a char or a conversion with its  *)
(* modifiers; the char % is spelled %%.                                    *)
IsText(p) == p.conv = NoChar

Spelling(p) ==
  IF ~IsText(p) THEN <<"%">> \o p.pos \o p.flags \o p.width \o p.prec \o p.len \o <<p.conv>>
  ELSE IF p.char = "%" THEN <<"%", "%">> ELSE <<p.char>>

(* C's grammar of a conversion (printf(3)), *m$ left out: a position ends  *)
(* in $, and a width does not begin with 0, which is a flag.               *)
Conversion == {"s", "d", "i", "u", "o", "x", "X", "c", "p", "m", "n"} \cup FloatConv

IsPosition(s) ==
  Len(s) > 1 /\ s[Len(s)] = "$" /\ \A k \in 1 .. Len(s) - 1 : s[k] \in DigitChar
IsNumber(s) == s \in {<<>>, <<"*">>} \/ s \in Seq(DigitChar)

IsConversion(p) ==
  /\ p.conv \in Conversion
  /\ p.pos \in Seq(DigitChar \cup {"$"}) /\ (p.pos = <<>> \/ IsPosition(p.pos))
  /\ p.flags \in Seq(FlagChar)
  /\ IsNumber(p.width) /\ (p.width # <<>> => p.width[1] # "0")
  /\ p.prec \in Seq(DigitChar \cup {".", "*"})
  /\ p.prec # <<>> => p.prec[1] = "." /\ IsNumber(Tail(p.prec))
  /\ p.len \in {<<>>, <<"h", "h">>, <<"l", "l">>} \cup { <<c>> : c \in LengthChar }

(* Where the pieces begin, and where the last one ends.                    *)
Starts(ps) ==
  LET at[k \in 0 .. Len(ps)] == IF k = 0 THEN 1 ELSE at[k - 1] + Len(Spelling(ps[k]))
  IN at

Stands(s, f, k) == k + Len(s) <= Len(f) + 1 /\ \A j \in 1 .. Len(s) : f[k + j - 1] = s[j]

Spells(ps, f) ==
  /\ Starts(ps)[Len(ps)] = Len(f) + 1
  /\ \A k \in 1 .. Len(ps) :
       (IsText(ps[k]) \/ IsConversion(ps[k])) /\ Stands(Spelling(ps[k]), f, Starts(ps)[k - 1])

ASSUME PiecesAssumption ==
  \A x \in Inputs : x.pieces # <<>> =>
    Len(x.pieces) \in Nat /\ DOMAIN x.pieces = 1 .. Len(x.pieces) /\ Spells(x.pieces, x.fmt)

(* Width, precision, flags, length and position "are parsed and discarded" *)
(* (scan.rs:280): the tokens are those of the pieces without them.         *)
Extended(toks, p) ==
  LET afterText == toks # <<>> /\ toks[Len(toks)].kind = "Lit"
  IN CASE IsText(p) /\ afterText -> [toks EXCEPT ![Len(toks)].text = @ \o Utf8[p.char]]
       [] IsText(p) /\ ~afterText -> Append(toks, LitTok(Utf8[p.char]))
       [] p.conv = "n" -> toks
       [] OTHER -> Append(toks, SpecTok(conversion_kind(p.conv)))

Bare(ps) ==
  LET upto[k \in 0 .. Len(ps)] == IF k = 0 THEN <<>> ELSE Extended(upto[k - 1], ps[k])
  IN upto

LowersLikeBareForm ==
  phase = "done" /\ pieces # <<>> => verdict = "ok" /\ lowered.tokens = Bare(pieces)[Len(pieces)]

(* What printf writes for an argument before it signs, groups and pads it: *)
(* one line's text, a number that is finite.  The digits of %a are hex.    *)
Signed == {"d", "i"} \cup FloatConv
Numeric == Signed \cup {"u", "o", "x", "X"}
HexFloat == {"a", "A"}
DecimalMark == {".", "e", "E", "+", "-"}
NumberByte(c) ==
  CASE c \in {"d", "i", "u"} -> Digit [] c = "o" -> Octal [] c \in {"x", "X"} -> Hex
    [] c \in HexFloat -> Hex \cup {".", "p", "P", "+", "-"}
    [] OTHER -> Digit \cup DecimalMark
Negative(c, value) == c \in Signed /\ value # <<>> /\ value[1] = "-"
Magnitude(c, value) == IF Negative(c, value) THEN Tail(value) ELSE value

IsValue(c, value) ==
  CASE c \in {"s", "m"} -> /\ WellFormed(value) /\ \A k \in 1 .. Len(value) : value[k] # Newline
                           /\ c = "m" => value # <<>>
    [] c = "n" -> value = <<>>
    [] c = "c" -> /\ Len(value) = 1 /\ value[1] \notin Cont \cup {Newline}
                  /\ Width[value[1]] = 1
    [] c = "p" -> \/ value = NilText
                  \/ StartsWith(value, 0, HexPrefix) /\ RunOf(Hex, value, 2, Len(value))
    [] OTHER -> LET m == Magnitude(c, value)
                IN m \in Seq(NumberByte(c)) /\ m # <<>> /\ (c \in FloatConv => m[1] \in Digit)

Blank == " "
Apostrophe == "'"

ASSUME PrintedAssumption ==
  /\ \A c \in Conversion : Value[c] \subseteq Seq(Byte) /\ \A v \in Value[c] : IsValue(c, v)
  /\ FieldWidth \subseteq Nat /\ Separator \in Seq(Byte)
  /\ DecimalMark \subseteq Float
  /\ Minus = "-" /\ "0" \in Octal
  /\ Blank \in Byte \ (Cont \cup {Newline}) /\ Width[Blank] = 1

HasFlag(p, c) == \E k \in DOMAIN p.flags : p.flags[k] = c

(* The flag 0 is ignored beside a - and, of an integer, beside a precision. *)
ZeroFilled(p) ==
  /\ HasFlag(p, "0") /\ ~HasFlag(p, "-") /\ p.conv \in Numeric
  /\ p.prec = <<>> \/ p.conv \in FloatConv

Fill(byte, m) == [ k \in 1 .. m |-> byte ]

(* The flag ' sets the locale's separator between groups of three of the   *)
(* digits before the point.                                                *)
Grouped(m) ==
  LET whole == Least({ k \in 0 .. Len(m) : k = Len(m) \/ m[k + 1] \notin Digit })
      upto[k \in 0 .. Len(m)] ==
        IF k = 0 THEN <<>>
        ELSE upto[k - 1] \o <<m[k]>>
               \o (IF k < whole /\ (whole - k) % 3 = 0 THEN Separator ELSE <<>>)
  IN upto[Len(m)]

Groups(p) == p.conv \in {"d", "i", "u", "f", "F", "g", "G"} /\ HasFlag(p, Apostrophe)

Printed(p, width, value) ==
  LET positive == p.conv \in Signed /\ ~Negative(p.conv, value)
      sign == CASE Negative(p.conv, value) -> <<"-">>
                [] positive /\ HasFlag(p, "+") -> <<"+">>
                [] positive /\ ~HasFlag(p, "+") /\ HasFlag(p, Blank) -> <<Blank>>
                [] OTHER -> <<>>
      prefixed == p.conv \in HexFloat \/ (p.conv \in {"x", "X"} /\ HasFlag(p, "#"))
      head == IF prefixed THEN sign \o HexPrefix ELSE sign
      digits == Magnitude(p.conv, value)
      body == IF Groups(p) THEN Grouped(digits) ELSE digits
      room == width - Len(head) - Len(body)
  IN IF HasFlag(p, "-") THEN head \o body \o Fill(Blank, room)
     ELSE IF ZeroFilled(p) THEN head \o Fill("0", room) \o body
     ELSE Fill(Blank, room) \o head \o body

Widths(p) == IF p.width = <<>> \/ p.conv = "n" THEN {0} ELSE FieldWidth

Written(p) ==
  IF IsText(p) THEN {Utf8[p.char]}
  ELSE { Printed(p, w, v) : w \in Widths(p), v \in Value[p.conv] }

Continued(lines, p) == { l \o t : l \in lines, t \in Written(p) }

Lines(ps) ==
  LET upto[k \in 0 .. Len(ps)] == IF k = 0 THEN {<<>>} ELSE Continued(upto[k - 1], ps[k])
  IN upto

AllResolve == \A l \in Lines(pieces)[Len(pieces)] : Captures(lowered.tokens, l) # NoMatch

(* Every line printf writes for a format resolves to it: the modifiers     *)
(* affect "rendering, not what characters can appear" (scan.rs:281).       *)
LinesResolve == phase = "done" /\ pieces # <<>> => AllResolve

(* The same for formats without %a that do not pad a number with blanks,   *)
(* ask for a plus sign, a blank or a 0x, nor group its digits.             *)
Unpadded(p) ==
  \/ IsText(p) \/ p.conv \in {"s", "m", "n"}
  \/ /\ p.conv \notin HexFloat
     /\ ~HasFlag(p, "+") /\ ~HasFlag(p, Blank) /\ ~HasFlag(p, "#") /\ ~HasFlag(p, Apostrophe)
     /\ p.width = <<>> \/ ZeroFilled(p)

PlainLinesResolve ==
  phase = "done" /\ pieces # <<>> /\ (\A k \in DOMAIN pieces : Unpadded(pieces[k])) => AllResolve
===============================================================================
