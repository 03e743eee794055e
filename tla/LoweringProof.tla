----------------------------- MODULE LoweringProof -----------------------------
(***************************************************************************)
(* Proofs about Lowering, for every alphabet and every format string.      *)
(*                                                                         *)
(* TypeOK and TokensArePattern are inductive together.  That the two loops *)
(* reject the same formats is an invariant about the positions they pass:  *)
(* the first loop leaves a path of positions which the second one follows. *)
(* The counts are invariant with the run: what it holds is counted before  *)
(* the token is there.                                                     *)
(* Along that path the sample so far is a line the tokens so far parse.    *)
(* A format that pieces spell is read piece by piece: the loop stands at   *)
(* the start of a piece, with the tokens of the pieces behind it.  So what *)
(* printf writes piece by piece is again a line those tokens parse.        *)
(***************************************************************************)
EXTENDS Lowering, PatternFacts

-----------------------------------------------------------------------------
(* The spec parser stays inside the format.                                *)

LEMMA RunInside ==
  ASSUME NEW f \in Seq(Char), NEW k \in 1 .. Len(f) + 1, NEW C, NoChar \notin C
  PROVE  PastRun(f, k, C) \in k .. Len(f) + 1
<1> DEFINE S == { e \in k .. Len(f) + 1 : CharAt(f, e) \notin C }
<1>1. S \in SUBSET Nat /\ Len(f) + 1 \in S
  BY DEF CharAt
<1>2. Least(S) \in S
  <2> HIDE DEF S
  <2>1. QED
    BY <1>1, LeastIsSmallest
<1>3. QED
  BY <1>2 DEF PastRun

LEMMA WidthInside ==
  ASSUME NEW f \in Seq(Char), NEW k \in 1 .. Len(f) + 1
  PROVE  consume_width(f, k) \in k .. Len(f) + 1
<1>1. CASE CharAt(f, k) = "*"
  BY <1>1 DEF consume_width, CharAt, NoChar
<1>2. CASE CharAt(f, k) # "*"
  <2>1. NoChar \notin DigitChar
    BY DEF NoChar, DigitChar
  <2>2. QED
    BY <1>2, <2>1, RunInside DEF consume_width
<1>3. QED
  BY <1>1, <1>2

(* The conversion char is the last char of its spec, or the end of the     *)
(* format stands in its place.                                             *)
LEMMA SpecInside ==
  ASSUME NEW f \in Seq(Char), NEW start \in 1 .. Len(f)
  PROVE  LET p == parse_spec(f, start)
         IN /\ p.next \in start + 2 .. Len(f) + 2
            /\ p.conv = CharAt(f, p.next - 1)
<1> DEFINE digits == PastRun(f, start + 1, DigitChar)
           position == IF digits > start + 1 /\ CharAt(f, digits) = "$" THEN digits + 1 ELSE start + 1
           flags == PastRun(f, position, FlagChar)
           width == consume_width(f, flags)
           precision == IF CharAt(f, width) = "." THEN consume_width(f, width + 1) ELSE width
           length == CharAt(f, precision)
           conv == IF length \in {"h", "l"} /\ CharAt(f, precision + 1) = length THEN precision + 2
                   ELSE IF length \in LengthChar THEN precision + 1 ELSE precision
<1>1. NoChar \notin DigitChar /\ NoChar \notin FlagChar /\ NoChar \notin LengthChar
      /\ NoChar \notin {"$", ".", "h", "l"}
  BY DEF NoChar, DigitChar, FlagChar, LengthChar
<1>2. \A k \in Nat : CharAt(f, k) # NoChar => k <= Len(f)
  BY DEF CharAt
<1>3. digits \in start + 1 .. Len(f) + 1
  <2>1. start + 1 \in 1 .. Len(f) + 1
    OBVIOUS
  <2>2. QED
    BY <1>1, <2>1, RunInside
<1>4. position \in start + 1 .. Len(f) + 1
  <2> HIDE DEF digits
  <2>1. QED
    BY <1>1, <1>2, <1>3
<1>5. flags \in start + 1 .. Len(f) + 1
  <2> HIDE DEF position
  <2>1. flags \in position .. Len(f) + 1
    BY <1>1, <1>4, RunInside
  <2>2. QED
    BY <1>4, <2>1
<1>6. width \in start + 1 .. Len(f) + 1
  <2> HIDE DEF flags
  <2>1. width \in flags .. Len(f) + 1
    BY <1>5, WidthInside
  <2>2. QED
    BY <1>5, <2>1
<1>7. precision \in start + 1 .. Len(f) + 1
  <2> HIDE DEF width
  <2>1. CASE CharAt(f, width) = "."
    <3>1. width + 1 \in 1 .. Len(f) + 1
      BY <1>1, <1>2, <1>6, <2>1
    <3>2. consume_width(f, width + 1) \in width + 1 .. Len(f) + 1
      BY <3>1, WidthInside
    <3>3. QED
      BY <1>6, <2>1, <3>2
  <2>2. QED
    BY <1>6, <2>1
<1>8. conv \in start + 1 .. Len(f) + 1
  <2> HIDE DEF precision
  <2>1. QED
    BY <1>1, <1>2, <1>7
<1>9. parse_spec(f, start) = [conv |-> CharAt(f, conv), next |-> conv + 1]
  BY DEF parse_spec
<1>10. QED
  <2> HIDE DEF conv
  <2>1. QED
    BY <1>8, <1>9

(* A conversion that is one of printf's has a char.                        *)
LEMMA KnownIsChar ==
  ASSUME NEW f \in Seq(Char), NEW start \in 1 .. Len(f), parse_spec(f, start).conv # NoChar
  PROVE  /\ parse_spec(f, start).conv \in Char
         /\ parse_spec(f, start).next \in start + 2 .. Len(f) + 1
<1> DEFINE p == parse_spec(f, start)
<1>1. p.next \in start + 2 .. Len(f) + 2 /\ p.conv = CharAt(f, p.next - 1)
  BY SpecInside
<1> HIDE DEF p
<1>2. p.next - 1 \in 1 .. Len(f) /\ p.conv = f[p.next - 1]
  BY <1>1 DEF CharAt, p
<1>3. QED
  BY <1>1, <1>2 DEF p

(* Lowering has a class for a conversion, or %n, just when a sample of it  *)
(* has a value.                                                            *)
LEMMA SampleOfKnown ==
  ASSUME NEW c
  PROVE  /\ conversion_kind(c) \in Kind \cup {"None", "Unknown"}
         /\ conversion_kind(c) = "Unknown" <=> Canned(c) = NoSample
         /\ conversion_kind(NoChar) = "Unknown"
<1>1. Len(PtrSample) = 6 /\ PtrSample # NoSample
  <2>1. HexPrefix \in Seq(Byte) /\ Len(HexPrefix) = 2
    BY AlphabetAssumption
  <2>2. HexPrefix \in Seq(Byte \cup {"5", "a", "0"})
        /\ <<"5", "5", "a", "0">> \in Seq(Byte \cup {"5", "a", "0"})
    BY <2>1
  <2>3. Len(PtrSample) = Len(HexPrefix) + Len(<<"5", "5", "a", "0">>)
    BY <2>2, ConcatProperties DEF PtrSample
  <2>4. Len(<<"5", "5", "a", "0">>) = 4 /\ Len(NoSample) = 1
    BY DEF NoSample
  <2>5. Len(PtrSample) = 6
    BY <2>1, <2>3, <2>4
  <2>6. QED
    BY <2>4, <2>5
<1>2. conversion_kind(c) \in Kind \cup {"None", "Unknown"}
  BY DEF conversion_kind, Kind
<1>3. conversion_kind(NoChar) = "Unknown"
  BY DEF conversion_kind, NoChar, FloatConv
<1>4. conversion_kind(c) = "Unknown" <=> Canned(c) = NoSample
  BY <1>1 DEF conversion_kind, Canned, NoSample, FloatConv
<1>5. QED
  BY <1>2, <1>3, <1>4

-----------------------------------------------------------------------------
(* Texts and patterns that grow.                                           *)

(* A whole char, or any well-formed text, keeps a text well-formed.        *)
LEMMA ConcatWellFormed ==
  ASSUME NEW a \in Seq(Byte), WellFormed(a), NEW b \in Seq(Byte), WellFormed(b)
  PROVE  a \o b \in Seq(Byte) /\ WellFormed(a \o b)
<1> DEFINE s == a \o b
<1>1. /\ s \in Seq(Byte) /\ Len(s) = Len(a) + Len(b)
      /\ \A k \in 1 .. Len(s) : s[k] = IF k <= Len(a) THEN a[k] ELSE b[k - Len(a)]
  BY ConcatProperties
<1>2. Len(a) \in Nat /\ Len(b) \in Nat
  OBVIOUS
<1>3. \A k \in 1 .. Len(a) : s[k] = a[k]
  BY <1>1, <1>2
<1>4. \A k \in 1 .. Len(b) : s[Len(a) + k] = b[k]
  BY <1>1, <1>2
<1>5. \A k \in 1 .. Len(s) : s[k] \notin Cont => Width[s[k]] \in 1 .. 4
  BY <1>1, AlphabetAssumption
<1> HIDE DEF s
<1>6. s # <<>> => s[1] \notin Cont
  <2>1. CASE Len(a) = 0
    BY <1>1, <1>2, <1>4, <2>1 DEF WellFormed
  <2>2. CASE Len(a) > 0
    BY <1>1, <1>2, <1>3, <2>2 DEF WellFormed
  <2>3. QED
    BY <1>2, <2>1, <2>2
<1>7. ASSUME NEW k \in 1 .. Len(s), s[k] \notin Cont
      PROVE  /\ k + Width[s[k]] - 1 <= Len(s)
             /\ \A j \in k + 1 .. k + Width[s[k]] - 1 : s[j] \in Cont
             /\ k + Width[s[k]] <= Len(s) => s[k + Width[s[k]]] \notin Cont
  <2> DEFINE w == Width[s[k]]
  <2>1. w \in 1 .. 4
    BY <1>5, <1>7
  <2>2. CASE k <= Len(a)
    <3>1. /\ s[k] = a[k] /\ k + w - 1 <= Len(a)
          /\ \A j \in k + 1 .. k + w - 1 : a[j] \in Cont
          /\ k + w <= Len(a) => a[k + w] \notin Cont
      BY <1>3, <1>7, <2>2 DEF WellFormed
    <3> HIDE DEF w
    <3>2. \A j \in k + 1 .. k + w - 1 : s[j] \in Cont
      BY <1>2, <1>3, <2>1, <3>1
    <3>3. k + w <= Len(s) => s[k + w] \notin Cont
      <4>1. CASE k + w <= Len(a)
        BY <1>2, <1>3, <2>1, <3>1, <4>1
      <4>2. CASE k + w = Len(a) + 1
        <5>1. k + w <= Len(s) => 1 \in 1 .. Len(b) /\ b # <<>>
          BY <1>1, <1>2, <4>2
        <5>2. QED
          BY <1>4, <4>2, <5>1 DEF WellFormed
      <4>3. QED
        BY <1>2, <2>1, <3>1, <4>1, <4>2
    <3>4. QED
      BY <1>1, <1>2, <2>1, <3>1, <3>2, <3>3 DEF w
  <2>3. CASE k > Len(a)
    <3> DEFINE m == k - Len(a)
    <3>1. m \in 1 .. Len(b) /\ k = Len(a) + m
      BY <1>1, <1>2, <2>3
    <3>2. s[k] = b[m]
      BY <1>4, <3>1
    <3>3. /\ m + w - 1 <= Len(b)
          /\ \A j \in m + 1 .. m + w - 1 : b[j] \in Cont
          /\ m + w <= Len(b) => b[m + w] \notin Cont
      BY <1>7, <3>1, <3>2 DEF WellFormed
    <3> HIDE DEF w, m
    <3>4. \A j \in k + 1 .. k + w - 1 : s[j] \in Cont
      <4> TAKE j \in k + 1 .. k + w - 1
      <4>1. j - Len(a) \in m + 1 .. m + w - 1 /\ j - Len(a) \in 1 .. Len(b) /\ Len(a) + (j - Len(a)) = j
        BY <1>2, <2>1, <3>1, <3>3
      <4>2. QED
        BY <1>4, <3>3, <4>1
    <3>5. k + w <= Len(s) => s[k + w] \notin Cont
      <4>1. k + w <= Len(s) => m + w \in 1 .. Len(b) /\ Len(a) + (m + w) = k + w
        BY <1>1, <1>2, <2>1, <3>1
      <4>2. QED
        BY <1>4, <3>3, <4>1
    <3>6. QED
      BY <1>1, <1>2, <2>1, <3>1, <3>3, <3>4, <3>5 DEF w
  <2>4. QED
    BY <1>2, <2>2, <2>3
<1>8. QED
  BY <1>1, <1>6, <1>7 DEF WellFormed, s

(* A spec may follow anything, a literal anything but a literal.           *)
LEMMA AppendToPattern ==
  ASSUME NEW toks, IsPattern(toks), NEW t \in Token, WellFormed(t.text),
         t.kind = "Lit" /\ toks # <<>> => toks[Len(toks)].kind # "Lit"
  PROVE  IsPattern(Append(toks, t))
<1>1. /\ toks \in Seq(Token) /\ \A k \in 1 .. Len(toks) : WellFormed(toks[k].text)
      /\ \A k \in 1 .. Len(toks) - 1 : ~(toks[k].kind = "Lit" /\ toks[k + 1].kind = "Lit")
  BY DEF IsPattern
<1> DEFINE new == Append(toks, t)
<1>2. /\ new \in Seq(Token) /\ Len(new) = Len(toks) + 1 /\ new[Len(toks) + 1] = t
      /\ \A k \in 1 .. Len(toks) : new[k] = toks[k]
  BY <1>1, AppendProperties
<1> HIDE DEF new
<1>3. \A k \in 1 .. Len(new) : WellFormed(new[k].text)
  BY <1>1, <1>2
<1>4. \A k \in 1 .. Len(new) - 1 : ~(new[k].kind = "Lit" /\ new[k + 1].kind = "Lit")
  <2> TAKE k \in 1 .. Len(new) - 1
  <2>1. CASE k < Len(toks)
    <3>1. k \in 1 .. Len(toks) - 1 /\ k \in 1 .. Len(toks) /\ k + 1 \in 1 .. Len(toks)
      BY <1>1, <1>2, <2>1
    <3>2. QED
      BY <1>1, <1>2, <3>1
  <2>2. CASE k = Len(toks)
    BY <1>1, <1>2, <2>2
  <2>3. QED
    BY <1>1, <1>2, <2>1, <2>2
<1>5. QED
  BY <1>2, <1>3, <1>4 DEF IsPattern, new

-----------------------------------------------------------------------------
(* Canned values.                                                          *)

(* The bytes of the classes that match runs.                               *)
Class(kind) ==
  CASE kind \in {"Int", "Uint"} -> Digit [] kind = "Oct" -> Octal [] kind = "Hex" -> Hex
    [] OTHER -> Float

(* What a value of a class looks like, a canned one or an argument's.      *)
Fits(kind, w) ==
  /\ kind # "Str" => Len(w) >= 1
  /\ kind \in {"Str", "Errno", "Char"} => \A k \in 1 .. Len(w) : w[k] # Newline
  /\ kind = "Char" => Len(w) = 1 /\ Width[w[1]] = 1
  /\ kind \in {"Uint", "Oct", "Hex", "Float"} => \A k \in 1 .. Len(w) : w[k] \in Class(kind)
  /\ kind = "Int" => \/ \A k \in 1 .. Len(w) : w[k] \in Digit
                     \/ Len(w) > 1 /\ w[1] = Minus /\ \A k \in 2 .. Len(w) : w[k] \in Digit
  /\ kind = "Ptr" => \/ w = NilText
                     \/ /\ Len(w) > 2 /\ w[1] = HexPrefix[1] /\ w[2] = HexPrefix[2]
                        /\ \A k \in 3 .. Len(w) : w[k] \in Hex

(* A text of one-byte chars is well-formed.                                *)
LEMMA OneByteChars ==
  ASSUME NEW s \in Seq(Byte), \A k \in 1 .. Len(s) : s[k] \notin Cont /\ Width[s[k]] = 1
  PROVE  WellFormed(s)
<1>1. Len(s) \in Nat
  OBVIOUS
<1>2. s # <<>> => s[1] \notin Cont
  BY <1>1
<1>3. QED
  BY <1>1, <1>2 DEF WellFormed

(* Each canned value is one of its class.                                  *)
LEMMA CannedFits ==
  ASSUME NEW c, Canned(c) # NoSample
  PROVE  /\ Canned(c) \in Seq(Byte) /\ WellFormed(Canned(c))
         /\ conversion_kind(c) \in Kind => Fits(conversion_kind(c), Canned(c))
         /\ conversion_kind(c) = "None" => Canned(c) = <<>>
<1> DEFINE w == Canned(c)
           Ascii == Hex \cup Float \cup {"w", "Q"}
<1>1. /\ {"0", "1", "2", "4", "5"} \subseteq Digit /\ {"2", "5"} \subseteq Octal
      /\ {"a", "A"} \subseteq Hex /\ "." \in Float /\ Digit \subseteq Hex /\ Digit \subseteq Float
      /\ Ascii \subseteq Byte \ (Cont \cup {Newline}) /\ \A b \in Ascii : Width[b] = 1
  BY SampleAssumption, AlphabetAssumption
<1> HIDE DEF Ascii
<1>2. ASSUME NEW s \in Seq(Ascii)
      PROVE  s \in Seq(Byte) /\ WellFormed(s) /\ \A k \in 1 .. Len(s) : s[k] # Newline
  <2>1. \A k \in 1 .. Len(s) : s[k] \in Ascii
    OBVIOUS
  <2>2. s \in Seq(Byte)
    BY <1>1, <2>1
  <2>3. \A k \in 1 .. Len(s) : s[k] \notin Cont /\ Width[s[k]] = 1 /\ s[k] # Newline
    BY <1>1, <2>1
  <2>4. QED
    BY <2>2, <2>3, OneByteChars
<1>3. /\ "w" \in Ascii /\ "Q" \in Ascii /\ "0" \in Ascii /\ "1" \in Ascii /\ "2" \in Ascii
      /\ "4" \in Ascii /\ "5" \in Ascii /\ "a" \in Ascii /\ "A" \in Ascii /\ "." \in Ascii
  BY <1>1 DEF Ascii
<1>4. CASE c \in {"s", "m"}
  <2>1. w = <<"w">> /\ conversion_kind(c) = IF c = "s" THEN "Str" ELSE "Errno"
    BY <1>4 DEF Canned, conversion_kind, FloatConv
  <2>2. <<"w">> \in Seq(Ascii) /\ Len(<<"w">>) = 1
    BY <1>3
  <2>3. <<"w">> \in Seq(Byte) /\ WellFormed(<<"w">>) /\ \A k \in 1 .. Len(<<"w">>) : <<"w">>[k] # Newline
    BY <1>2, <2>2
  <2>4. QED
    BY <2>1, <2>2, <2>3 DEF Fits
<1>5. CASE c \in {"d", "i", "u"}
  <2>1. w = <<"4", "2">> /\ conversion_kind(c) \in {"Int", "Uint"}
    BY <1>5 DEF Canned, conversion_kind, FloatConv
  <2>2. <<"4", "2">> \in Seq(Ascii) /\ Len(<<"4", "2">>) = 2
        /\ \A k \in 1 .. 2 : <<"4", "2">>[k] \in Digit
    BY <1>1, <1>3
  <2>3. <<"4", "2">> \in Seq(Byte) /\ WellFormed(<<"4", "2">>)
    BY <1>2, <2>2
  <2>4. QED
    BY <2>1, <2>2, <2>3 DEF Fits, Class
<1>6. CASE c = "o"
  <2>1. w = <<"5", "2">> /\ conversion_kind(c) = "Oct"
    BY <1>6 DEF Canned, conversion_kind, FloatConv
  <2>2. <<"5", "2">> \in Seq(Ascii) /\ Len(<<"5", "2">>) = 2
        /\ \A k \in 1 .. 2 : <<"5", "2">>[k] \in Octal
    BY <1>1, <1>3
  <2>3. <<"5", "2">> \in Seq(Byte) /\ WellFormed(<<"5", "2">>)
    BY <1>2, <2>2
  <2>4. QED
    BY <2>1, <2>2, <2>3 DEF Fits, Class
<1>7. CASE c \in {"x", "X"}
  <2> DEFINE d == IF c = "x" THEN "a" ELSE "A"
  <2>1. w = <<"2", d>> /\ conversion_kind(c) = "Hex"
    BY <1>7 DEF Canned, conversion_kind, FloatConv
  <2>2. d \in Ascii /\ d \in Hex
    BY <1>1, <1>3
  <2> HIDE DEF d
  <2>3. <<"2", d>> \in Seq(Ascii) /\ Len(<<"2", d>>) = 2
        /\ \A k \in 1 .. 2 : <<"2", d>>[k] \in Hex
    BY <1>1, <1>3, <2>2
  <2>4. <<"2", d>> \in Seq(Byte) /\ WellFormed(<<"2", d>>)
    BY <1>2, <2>3
  <2>5. QED
    BY <2>1, <2>3, <2>4 DEF Fits, Class
<1>8. CASE c \in FloatConv
  <2>1. w = <<"1", ".", "5">> /\ conversion_kind(c) = "Float"
    BY <1>8 DEF Canned, conversion_kind, FloatConv
  <2>2. <<"1", ".", "5">> \in Seq(Ascii) /\ Len(<<"1", ".", "5">>) = 3
        /\ \A k \in 1 .. 3 : <<"1", ".", "5">>[k] \in Float
    BY <1>1, <1>3
  <2>3. <<"1", ".", "5">> \in Seq(Byte) /\ WellFormed(<<"1", ".", "5">>)
    BY <1>2, <2>2
  <2>4. QED
    BY <2>1, <2>2, <2>3 DEF Fits, Class
<1>9. CASE c = "c"
  <2>1. w = <<"Q">> /\ conversion_kind(c) = "Char"
    BY <1>9 DEF Canned, conversion_kind, FloatConv
  <2>2. <<"Q">> \in Seq(Ascii) /\ Len(<<"Q">>) = 1 /\ <<"Q">>[1] = "Q" /\ Width["Q"] = 1
    BY <1>1, <1>3
  <2>3. <<"Q">> \in Seq(Byte) /\ WellFormed(<<"Q">>) /\ \A k \in 1 .. Len(<<"Q">>) : <<"Q">>[k] # Newline
    BY <1>2, <2>2
  <2>4. QED
    BY <2>1, <2>2, <2>3 DEF Fits
<1>10. CASE c = "p"
  <2> DEFINE hex == <<"5", "5", "a", "0">>
  <2>1. w = HexPrefix \o hex /\ conversion_kind(c) = "Ptr"
    BY <1>10 DEF Canned, conversion_kind, FloatConv, PtrSample
  <2>2. hex \in Seq(Ascii) /\ Len(hex) = 4 /\ \A k \in 1 .. 4 : hex[k] \in Hex
    BY <1>1, <1>3
  <2> HIDE DEF hex
  <2>3. hex \in Seq(Byte) /\ WellFormed(hex)
    BY <1>2, <2>2
  <2>4. HexPrefix \in Seq(Byte) /\ WellFormed(HexPrefix) /\ Len(HexPrefix) = 2
    BY AlphabetAssumption
  <2>5. w \in Seq(Byte) /\ WellFormed(w)
    BY <2>1, <2>3, <2>4, ConcatWellFormed
  <2>6. Len(w) = 6 /\ \A k \in 1 .. 6 : w[k] = IF k <= 2 THEN HexPrefix[k] ELSE hex[k - 2]
    <3>1. /\ Len(HexPrefix \o hex) = Len(HexPrefix) + Len(hex)
          /\ \A k \in 1 .. Len(HexPrefix) + Len(hex) : (HexPrefix \o hex)[k] =
               IF k <= Len(HexPrefix) THEN HexPrefix[k] ELSE hex[k - Len(HexPrefix)]
      BY <2>3, <2>4, ConcatProperties
    <3>2. Len(HexPrefix) = 2 /\ Len(hex) = 4 /\ 2 + 4 = 6
      BY <2>2, <2>4
    <3> HIDE DEF w
    <3>3. QED
      BY <2>1, <3>1, <3>2
  <2> HIDE DEF w
  <2>7. w[1] = HexPrefix[1] /\ w[2] = HexPrefix[2] /\ \A k \in 3 .. 6 : w[k] \in Hex
    BY <2>2, <2>6
  <2>8. Len(w) = 6 /\ 6 >= 1 /\ 6 > 2
    BY <2>6
  <2>9. Fits("Ptr", w)
    BY <2>7, <2>8 DEF Fits
  <2> USE DEF w
  <2>10. QED
    BY <2>1, <2>5, <2>9
<1>11. CASE c = "n"
  <2>1. w = <<>> /\ conversion_kind(c) = "None"
    BY <1>11 DEF Canned, conversion_kind, FloatConv
  <2>2. QED
    BY <2>1 DEF WellFormed, Kind
<1>12. QED
  BY <1>4, <1>5, <1>6, <1>7, <1>8, <1>9, <1>10, <1>11 DEF Canned, FloatConv

-----------------------------------------------------------------------------
(* Types and patterns.                                                     *)

TokInv == TypeOK /\ TokensArePattern

LEMMA InitTok == Init => TokInv
<1> SUFFICES ASSUME Init PROVE TokInv
  OBVIOUS
<1>1. fmt \in Seq(Char)
  BY LoweringAssumption DEF Init
<1>2. TypeOK
  BY <1>1 DEF Init, TypeOK
<1>3. TokensArePattern
  BY DEF Init, TokensArePattern, IsPattern, WellFormed
<1>4. QED
  BY <1>2, <1>3 DEF TokInv

(* flush: the tokens with the literal run behind them.                     *)
LEMMA FlushedIsPattern ==
  ASSUME TokInv, phase = "lower"
  PROVE  IsPattern(Flushed(lowered.tokens)) /\ Flushed(lowered.tokens) \in Seq(Token)
<1> DEFINE toks == lowered.tokens
<1>1. literal \in Seq(Byte) /\ WellFormed(literal) /\ IsPattern(toks) /\ toks \in Seq(Token)
      /\ (toks = <<>> \/ toks[Len(toks)].kind # "Lit")
  BY DEF TokInv, TypeOK, TokensArePattern
<1> HIDE DEF toks
<1>2. CASE literal = <<>>
  BY <1>1, <1>2 DEF Flushed, toks
<1>3. CASE literal # <<>>
  <2>1. LitTok(literal) \in Token /\ LitTok(literal).text = literal
    BY <1>1, <1>3 DEF Token, LitTok
  <2>2. IsPattern(Append(toks, LitTok(literal)))
    BY <1>1, <2>1, AppendToPattern
  <2>3. QED
    BY <1>3, <2>2 DEF Flushed, IsPattern, toks
<1>4. QED
  BY <1>2, <1>3

(* lower_format's actions.                                                 *)
LEMMA LowerTextTok ==
  ASSUME TokInv, Lowering, NEW c \in Char, NEW width \in {1, 2}, i + width <= Len(fmt) + 1,
         LowerText(c, width)
  PROVE  TokInv'
<1>1. /\ literal \in Seq(Byte) /\ WellFormed(literal) /\ Utf8[c] \in Seq(Byte) /\ WellFormed(Utf8[c])
  BY LoweringAssumption DEF TokInv, TypeOK, TokensArePattern
<1>2. literal' \in Seq(Byte) /\ WellFormed(literal')
  BY <1>1, ConcatWellFormed DEF LowerText
<1>3. /\ lowered' \in [tokens : Seq(Token), literal_len : Nat, spec_count : Nat, groups : Seq(Char)]
      /\ lowered'.tokens = lowered.tokens
  <2>1. lowered' = [lowered EXCEPT !.literal_len = @ + 1]
    BY DEF LowerText
  <2>2. lowered \in [tokens : Seq(Token), literal_len : Nat, spec_count : Nat, groups : Seq(Char)]
    BY DEF TokInv, TypeOK
  <2>3. lowered.literal_len + 1 \in Nat
    BY <2>2
  <2>4. QED
    BY <2>1, <2>2, <2>3
<1>4. i' \in 1 .. Len(fmt) + 1
  BY DEF LowerText, TokInv, TypeOK
<1>5. QED
  BY <1>2, <1>3, <1>4 DEF TokInv, TypeOK, TokensArePattern, Lowering, LowerText

LEMMA LowerSpecTok ==
  ASSUME TokInv, LowerSpec
  PROVE  TokInv'
<1> DEFINE kind == conversion_kind(spec.conv)
           toks == Flushed(lowered.tokens)
<1>1. fmt \in Seq(Char) /\ i \in 1 .. Len(fmt) /\ kind \in Kind
  BY DEF TokInv, TypeOK, LowerSpec, AtSpec
<1>2. spec.conv \in Char /\ spec.next \in 1 .. Len(fmt) + 1
  <2>1. spec.conv # NoChar
    BY <1>1, SampleOfKnown DEF Kind
  <2>2. QED
    BY <1>1, <2>1, KnownIsChar DEF spec
<1>3. toks \in Seq(Token) /\ IsPattern(toks)
  BY FlushedIsPattern DEF LowerSpec, Lowering
<1>4. SpecTok(kind) \in Token /\ SpecTok(kind).text = <<>> /\ SpecTok(kind).kind # "Lit"
  BY <1>1 DEF SpecTok, Token, Kind
<1> HIDE DEF toks, kind
<1>5. IsPattern(Append(toks, SpecTok(kind)))
  <2>1. WellFormed(<<>>)
    BY DEF WellFormed
  <2>2. QED
    BY <1>3, <1>4, <2>1, AppendToPattern
<1>6. /\ lowered' \in [tokens : Seq(Token), literal_len : Nat, spec_count : Nat, groups : Seq(Char)]
      /\ lowered'.tokens = Append(toks, SpecTok(kind))
  <2>1. lowered' = [lowered EXCEPT !.tokens = Append(toks, SpecTok(kind)),
                                   !.spec_count = @ + 1, !.groups = Append(@, spec.conv)]
    BY DEF LowerSpec, toks, kind
  <2>2. lowered \in [tokens : Seq(Token), literal_len : Nat, spec_count : Nat, groups : Seq(Char)]
    BY DEF TokInv, TypeOK
  <2>3. Append(toks, SpecTok(kind)) \in Seq(Token)
    BY <1>5 DEF IsPattern
  <2>4. Append(lowered.groups, spec.conv) \in Seq(Char) /\ lowered.spec_count + 1 \in Nat
    BY <1>2, <2>2
  <2>5. QED
    BY <2>1, <2>2, <2>3, <2>4
<1>7. lowered'.tokens[Len(lowered'.tokens)].kind # "Lit"
  <2>1. Append(toks, SpecTok(kind))[Len(Append(toks, SpecTok(kind)))] = SpecTok(kind)
    BY <1>3
  <2>2. QED
    BY <1>4, <1>6, <2>1
<1>8. literal' = <<>> /\ i' = spec.next /\ UNCHANGED <<fmt, phase, out, rendered, verdict>>
  BY DEF LowerSpec, Lowering
<1>9. TypeOK'
  BY <1>2, <1>6, <1>8 DEF TokInv, TypeOK
<1>10. TokensArePattern'
  BY <1>5, <1>6, <1>7, <1>8 DEF TokensArePattern, WellFormed
<1>11. QED
  BY <1>9, <1>10 DEF TokInv

LEMMA NextTok ==
  ASSUME TokInv, [Next]_vars
  PROVE  TokInv'
<1> USE DEF TokInv
<1>1. fmt \in Seq(Char) /\ i \in 1 .. Len(fmt) + 1
  BY DEF TypeOK
<1>2. CASE LowerChar
  <2>1. fmt[i] \in Char /\ i + 1 <= Len(fmt) + 1
    BY <1>1, <1>2 DEF LowerChar, AtChar
  <2>2. QED
    BY <1>2, <2>1, LowerTextTok DEF LowerChar
<1>3. CASE LowerPercent
  <2>1. i + 2 <= Len(fmt) + 1
    BY <1>1, <1>3 DEF LowerPercent, AtPercent
  <2>2. QED
    BY <1>3, <2>1, LowerTextTok, LoweringAssumption DEF LowerPercent
<1>4. CASE LowerSpec
  BY <1>4, LowerSpecTok
<1>5. CASE LowerNothing
  <2>1. i \in 1 .. Len(fmt) /\ spec.conv # NoChar
    BY <1>1, <1>5, SampleOfKnown DEF LowerNothing, AtSpec
  <2>2. spec.next \in 1 .. Len(fmt) + 1
    BY <1>1, <2>1, KnownIsChar DEF spec
  <2>3. QED
    BY <1>5, <2>2 DEF LowerNothing, Lowering, TypeOK, TokensArePattern
<1>6. CASE LowerFails
  BY <1>1, <1>6 DEF LowerFails, Lowering, TypeOK, TokensArePattern
<1>7. CASE LowerEnds
  <2>1. IsPattern(Flushed(lowered.tokens)) /\ Flushed(lowered.tokens) \in Seq(Token)
    BY <1>7, FlushedIsPattern DEF LowerEnds, Lowering
  <2>2. /\ lowered' \in [tokens : Seq(Token), literal_len : Nat, spec_count : Nat, groups : Seq(Char)]
        /\ lowered'.tokens = Flushed(lowered.tokens)
    BY <1>7, <2>1 DEF LowerEnds, TypeOK
  <2>3. phase' = "render" /\ literal' = <<>> /\ i' = 1 /\ UNCHANGED <<fmt, out, rendered, verdict>>
    BY <1>7 DEF LowerEnds, Lowering
  <2>4. QED
    BY <1>1, <2>1, <2>2, <2>3 DEF TypeOK, TokensArePattern, WellFormed
<1>8. ASSUME Rendering, NEW bytes \in Seq(Byte), NEW next \in 1 .. Len(fmt) + 1, Emit(bytes, next)
      PROVE  TokInv'
  <2>1. out' \in Seq(Byte)
    BY <1>8 DEF Emit, TypeOK
  <2>2. QED
    BY <1>8, <2>1 DEF Emit, Rendering, TypeOK, TokensArePattern
<1>9. CASE RenderChar
  <2>1. Utf8[fmt[i]] \in Seq(Byte) /\ i + 1 \in 1 .. Len(fmt) + 1
    BY <1>1, <1>9, LoweringAssumption DEF RenderChar, AtChar
  <2>2. QED
    BY <1>8, <1>9, <2>1 DEF RenderChar
<1>10. CASE RenderPercent
  <2>1. Utf8["%"] \in Seq(Byte) /\ i + 2 \in 1 .. Len(fmt) + 1
    BY <1>1, <1>10, LoweringAssumption DEF RenderPercent, AtPercent
  <2>2. QED
    BY <1>8, <1>10, <2>1 DEF RenderPercent
<1>11. CASE RenderSpec
  <2>1. i \in 1 .. Len(fmt) /\ spec.conv # NoChar
    BY <1>1, <1>11, SampleOfKnown DEF RenderSpec, AtSpec
  <2>2. spec.conv \in Char /\ spec.next \in 1 .. Len(fmt) + 1
    BY <1>1, <2>1, KnownIsChar DEF spec
  <2>3. Canned(spec.conv) \in Seq(Byte)
    BY <1>11, CannedFits DEF RenderSpec
  <2>4. QED
    BY <1>8, <1>11, <2>2, <2>3 DEF RenderSpec
<1>12. CASE RenderFails
  BY <1>12 DEF RenderFails, Rendering, TypeOK, TokensArePattern
<1>13. CASE RenderEnds
  BY <1>13 DEF RenderEnds, Rendering, TypeOK, TokensArePattern
<1>14. CASE UNCHANGED vars
  BY <1>14 DEF vars, TypeOK, TokensArePattern
<1>15. QED
  BY <1>2, <1>3, <1>4, <1>5, <1>6, <1>7, <1>9, <1>10, <1>11, <1>12, <1>13, <1>14
  DEF Next, lower_format, render_sample

LEMMA AlwaysTok == Spec => []TokInv
<1>1. QED
  BY InitTok, NextTok, PTL DEF Spec

(* Every index of both loops lies in the format, every byte of the sample  *)
(* and every token is of its type (scan.rs:283-383).                       *)
THEOREM TypeCorrect == Spec => []TypeOK
<1>1. TokInv => TypeOK
  BY DEF TokInv
<1>2. QED
  BY <1>1, AlwaysTok, PTL

(* Whatever the format, the tokens are a pattern as SpecMatcher and its    *)
(* proofs assume: literal runs maximal, never empty, whole UTF-8.          *)
THEOREM LowersToPatterns == Spec => []TokensArePattern
<1>1. TokInv => TokensArePattern
  BY DEF TokInv
<1>2. QED
  BY <1>1, AlwaysTok, PTL

-----------------------------------------------------------------------------
(* The positions of the two loops.                                         *)

EscapeAt(f, k) == k < Len(f) /\ f[k] = "%" /\ f[k + 1] = "%"
SpecAt(f, k) == k <= Len(f) /\ f[k] = "%" /\ ~EscapeAt(f, k)

(* Where the loops go on from k, and whether they do.                      *)
Step(f, k) ==
  IF SpecAt(f, k) THEN parse_spec(f, k).next ELSE IF EscapeAt(f, k) THEN k + 2 ELSE k + 1
Passable(f, k) ==
  k <= Len(f) /\ (SpecAt(f, k) => conversion_kind(parse_spec(f, k).conv) # "Unknown")

(* The positions passed from the first one to last.                        *)
Path(f, S, last) ==
  1 \in S /\ last \in S /\ \A k \in S \ {last} : Passable(f, k) /\ Step(f, k) \in S

LoopsInv ==
  /\ phase = "lower" => verdict = "ok" /\ rendered /\ \E S \in SUBSET Nat : Path(fmt, S, i)
  /\ phase = "render" =>
       rendered /\ \E S \in SUBSET Nat, last \in Nat :
         /\ Path(fmt, S, last) /\ i \in S /\ ~Passable(fmt, last)
         /\ verdict = "ok" <=> last > Len(fmt)
  /\ VerdictsAgree

(* Passing a position of the first loop lengthens the path by one.         *)
LEMMA PathGrows ==
  ASSUME NEW f, NEW S \in SUBSET Nat, NEW k \in Nat, Path(f, S, k), Passable(f, k),
         Step(f, k) \in Nat
  PROVE  \E T \in SUBSET Nat : Path(f, T, Step(f, k))
<1> DEFINE T == S \cup {Step(f, k)}
<1>1. T \in SUBSET Nat
  OBVIOUS
<1>2. Path(f, T, Step(f, k))
  BY DEF Path
<1>3. QED
  BY <1>1, <1>2

(* The tests of the code, and what they say of the position.               *)
LEMMA WhatIsAt ==
  ASSUME TokInv
  PROVE  /\ AtChar => Passable(fmt, i) /\ Step(fmt, i) = i + 1
         /\ AtPercent => Passable(fmt, i) /\ Step(fmt, i) = i + 2
         /\ AtSpec => /\ Step(fmt, i) = spec.next /\ i <= Len(fmt)
                      /\ Passable(fmt, i) <=> conversion_kind(spec.conv) # "Unknown"
                      /\ Passable(fmt, i) <=> Canned(spec.conv) # NoSample
<1>1. fmt \in Seq(Char) /\ i \in 1 .. Len(fmt) + 1
  BY DEF TokInv, TypeOK
<1>2. AtPercent <=> EscapeAt(fmt, i)
  BY DEF AtPercent, EscapeAt
<1>3. AtSpec <=> SpecAt(fmt, i)
  BY <1>2 DEF AtSpec, SpecAt
<1>4. AtChar => ~SpecAt(fmt, i) /\ ~EscapeAt(fmt, i) /\ i <= Len(fmt)
  BY DEF AtChar, SpecAt, EscapeAt
<1>5. AtPercent => ~SpecAt(fmt, i) /\ i <= Len(fmt)
  BY <1>1, <1>2 DEF SpecAt, AtPercent
<1>6. AtSpec => i <= Len(fmt)
  BY DEF AtSpec
<1>7. QED
  BY <1>2, <1>3, <1>4, <1>5, <1>6, SampleOfKnown DEF Passable, Step, spec

(* A step of the first loop that goes on.                                  *)
LEMMA LowerGoesOn ==
  ASSUME TokInv, TokInv', LoopsInv, phase = "lower", Passable(fmt, i), i' = Step(fmt, i),
         UNCHANGED <<fmt, phase, verdict, rendered>>
  PROVE  LoopsInv'
<1>1. PICK S \in SUBSET Nat : Path(fmt, S, i)
  BY DEF LoopsInv
<1>2. i \in Nat /\ Step(fmt, i) \in Nat
  BY DEF TokInv, TypeOK
<1>3. \E T \in SUBSET Nat : Path(fmt, T, Step(fmt, i))
  BY <1>1, <1>2, PathGrows
<1>4. QED
  BY <1>3 DEF LoopsInv, VerdictsAgree

(* The step that leaves the first loop.                                    *)
LEMMA LowerStops ==
  ASSUME TokInv, LoopsInv, phase = "lower", ~Passable(fmt, i), phase' = "render", i' = 1,
         UNCHANGED <<fmt, rendered>>, verdict' = "ok" <=> i > Len(fmt)
  PROVE  LoopsInv'
<1>1. PICK S \in SUBSET Nat : Path(fmt, S, i)
  BY DEF LoopsInv
<1>2. i \in Nat /\ 1 \in S /\ rendered
  BY <1>1 DEF TokInv, TypeOK, Path, LoopsInv
<1>3. QED
  BY <1>1, <1>2 DEF LoopsInv, VerdictsAgree

(* The second loop follows the path and stops where the first one did.     *)
LEMMA RenderFollows ==
  ASSUME LoopsInv, phase = "render"
  PROVE  /\ rendered
         /\ ~Passable(fmt, i) => (verdict = "ok" <=> i > Len(fmt))
         /\ Passable(fmt, i) /\ i' = Step(fmt, i) /\ UNCHANGED <<fmt, phase, verdict, rendered>>
              => LoopsInv'
<1>1. PICK S \in SUBSET Nat, last \in Nat :
        /\ Path(fmt, S, last) /\ i \in S /\ ~Passable(fmt, last)
        /\ verdict = "ok" <=> last > Len(fmt)
  BY DEF LoopsInv
<1>2. ~Passable(fmt, i) => i = last
  BY <1>1 DEF Path
<1>3. ASSUME Passable(fmt, i), i' = Step(fmt, i), UNCHANGED <<fmt, phase, verdict, rendered>>
      PROVE  LoopsInv'
  <2>1. i' \in S
    BY <1>1, <1>3 DEF Path
  <2>2. QED
    BY <1>1, <1>3, <2>1 DEF LoopsInv, VerdictsAgree
<1>4. QED
  BY <1>1, <1>2, <1>3 DEF LoopsInv

LEMMA InitLoops == Init => LoopsInv
<1> SUFFICES ASSUME Init PROVE LoopsInv
  OBVIOUS
<1>1. Path(fmt, {1}, i)
  BY DEF Path, Init
<1>2. QED
  BY <1>1 DEF Init, LoopsInv, VerdictsAgree

LEMMA NextLoops ==
  ASSUME TokInv, TokInv', LoopsInv, [Next]_vars
  PROVE  LoopsInv'
<1>1. CASE LowerChar
  BY <1>1, WhatIsAt, LowerGoesOn DEF LowerChar, LowerText, Lowering
<1>2. CASE LowerPercent
  BY <1>2, WhatIsAt, LowerGoesOn DEF LowerPercent, LowerText, Lowering
<1>3. CASE LowerSpec
  <2>1. "Unknown" \notin Kind
    BY DEF Kind
  <2>2. QED
    BY <1>3, <2>1, WhatIsAt, LowerGoesOn DEF LowerSpec, Lowering
<1>4. CASE LowerNothing
  BY <1>4, WhatIsAt, LowerGoesOn DEF LowerNothing, Lowering
<1>5. CASE LowerFails
  <2>1. verdict' # "ok" /\ ~Passable(fmt, i) /\ i <= Len(fmt)
    BY <1>5, WhatIsAt DEF LowerFails
  <2>2. i > Len(fmt) <=> FALSE
    BY <2>1 DEF TokInv, TypeOK
  <2>3. QED
    BY <1>5, <2>1, <2>2, LowerStops DEF LowerFails, Lowering
<1>6. CASE LowerEnds
  <2>1. ~Passable(fmt, i) /\ i > Len(fmt) /\ verdict = "ok"
    BY <1>6 DEF LowerEnds, Lowering, LoopsInv, Passable, TokInv, TypeOK
  <2>2. QED
    BY <1>6, <2>1, LowerStops DEF LowerEnds, Lowering
<1>7. CASE RenderChar
  BY <1>7, WhatIsAt, RenderFollows DEF RenderChar, Rendering, Emit
<1>8. CASE RenderPercent
  BY <1>8, WhatIsAt, RenderFollows DEF RenderPercent, Rendering, Emit
<1>9. CASE RenderSpec
  BY <1>9, WhatIsAt, RenderFollows DEF RenderSpec, Rendering, Emit
<1>10. CASE RenderFails
  <2>1. ~Passable(fmt, i) /\ ~(i > Len(fmt))
    BY <1>10, WhatIsAt DEF RenderFails, TokInv, TypeOK
  <2>2. verdict # "ok"
    BY <1>10, <2>1, RenderFollows DEF RenderFails, Rendering
  <2>3. QED
    BY <1>10, <2>2 DEF RenderFails, Rendering, LoopsInv, VerdictsAgree
<1>11. CASE RenderEnds
  <2>1. ~Passable(fmt, i)
    BY <1>11 DEF RenderEnds, Passable, TokInv, TypeOK
  <2>2. verdict = "ok" /\ rendered
    BY <1>11, <2>1, RenderFollows DEF RenderEnds, Rendering
  <2>3. QED
    BY <1>11, <2>2 DEF RenderEnds, Rendering, LoopsInv, VerdictsAgree
<1>12. CASE UNCHANGED vars
  BY <1>12 DEF vars, LoopsInv, VerdictsAgree
<1>13. QED
  BY <1>1, <1>2, <1>3, <1>4, <1>5, <1>6, <1>7, <1>8, <1>9, <1>10, <1>11, <1>12
  DEF Next, lower_format, render_sample

(* Whatever the format, render_sample has a sample for it just when        *)
(* lower_format accepts it: None "if the format contains a spec that       *)
(* lowering itself would reject" (scan.rs:346), although the two keep      *)
(* their own lists of conversions and their own loops.                     *)
THEOREM LoopsAgree == Spec => []VerdictsAgree
<1>1. TokInv /\ LoopsInv /\ [Next]_vars => (TokInv /\ LoopsInv)'
  BY NextTok, NextLoops
<1>2. LoopsInv => VerdictsAgree
  BY DEF LoopsInv
<1>3. QED
  BY <1>1, <1>2, InitTok, InitLoops, PTL DEF Spec

-----------------------------------------------------------------------------
(* Counts.                                                                 *)

(* A text has a number of chars.                                           *)
LEMMA CharsAreCounted ==
  ASSUME NEW text \in Seq(Byte)
  PROVE  NumChars(text) \in Nat /\ IsFiniteSet({ k \in DOMAIN text : text[k] \notin Cont })
<1> DEFINE S == { k \in DOMAIN text : text[k] \notin Cont }
<1>1. Len(text) \in Nat /\ S \in SUBSET (1 .. Len(text))
  OBVIOUS
<1> HIDE DEF S
<1>2. IsFiniteSet(S) /\ Cardinality(S) \in Nat
  BY <1>1, SmallSets
<1>3. QED
  BY <1>2 DEF NumChars, S

(* One more char counts one.                                               *)
LEMMA CharCounts ==
  ASSUME NEW text \in Seq(Byte), NEW c \in Char
  PROVE  NumChars(text \o Utf8[c]) = NumChars(text) + 1
<1> DEFINE w == Utf8[c]
           all == text \o w
           S == { k \in DOMAIN text : text[k] \notin Cont }
           T == { k \in DOMAIN all : all[k] \notin Cont }
           l == Len(text)
<1>1. /\ w \in Seq(Byte) /\ Len(w) \in Nat /\ Len(w) >= 1 /\ w[1] \notin Cont
      /\ \A k \in 2 .. Len(w) : w[k] \in Cont
  BY LoweringAssumption DEF WellFormed
<1>2. l \in Nat
  OBVIOUS
<1> HIDE DEF w
<1>3. /\ all \in Seq(Byte) /\ Len(all) = l + Len(w)
      /\ \A k \in 1 .. Len(all) : all[k] = IF k <= l THEN text[k] ELSE w[k - l]
  BY <1>1, ConcatProperties
<1> HIDE DEF all
<1>4. DOMAIN all = 1 .. Len(all) /\ DOMAIN text = 1 .. l
  BY <1>3
<1>5. ASSUME NEW k \in 1 .. Len(all) PROVE all[k] \notin Cont <=> k \in S \cup {l + 1}
  <2>1. CASE k <= l
    BY <1>2, <1>3, <1>4, <2>1
  <2>2. CASE k = l + 1
    BY <1>1, <1>2, <1>3, <2>2
  <2>3. CASE k > l + 1
    <3>1. k - l \in 2 .. Len(w) /\ ~(k <= l)
      BY <1>1, <1>2, <1>3, <2>3
    <3>2. all[k] \in Cont
      BY <1>1, <1>3, <3>1
    <3>3. k \notin S
      BY <1>2, <1>4, <2>3
    <3>4. QED
      BY <1>2, <2>3, <3>2, <3>3
  <2>4. QED
    BY <1>2, <1>3, <2>1, <2>2, <2>3
<1>6. T = S \cup {l + 1}
  <2>1. l + 1 \in 1 .. Len(all) /\ \A k \in S : k \in 1 .. Len(all)
    BY <1>1, <1>2, <1>3, <1>4
  <2>2. QED
    BY <1>4, <1>5, <2>1
<1>7. l + 1 \notin S /\ IsFiniteSet(S)
  <2>1. \A k \in S : k \in 1 .. l
    BY <1>4
  <2>2. IsFiniteSet(S)
    BY CharsAreCounted
  <2> HIDE DEF S, l
  <2>3. QED
    BY <1>2, <2>1, <2>2
<1> HIDE DEF S, T, l
<1>8. Cardinality(T) = Cardinality(S) + 1
  BY <1>6, <1>7, FS_AddElement
<1>9. QED
  BY <1>8 DEF NumChars, S, T, all, w

(* The chars of the first tokens.                                          *)
Totals(toks, sum) ==
  /\ sum \in [0 .. Len(toks) -> Nat] /\ sum[0] = 0
  /\ \A k \in 1 .. Len(toks) : sum[k] = sum[k - 1] + NumChars(toks[k].text)

(* The chars of one more token.                                            *)
LEMMA TotalsGrow ==
  ASSUME NEW toks \in Seq(Token), NEW t \in Token, NEW sum, Totals(toks, sum)
  PROVE  \E more : /\ Totals(Append(toks, t), more)
                   /\ more[Len(toks) + 1] = sum[Len(toks)] + NumChars(t.text)
<1> DEFINE n == Len(toks)
           new == Append(toks, t)
           x == NumChars(t.text)
           more == [ k \in 0 .. n + 1 |-> IF k = n + 1 THEN sum[n] + x ELSE sum[k] ]
<1>1. n \in Nat /\ new \in Seq(Token) /\ Len(new) = n + 1 /\ new[n + 1] = t /\ \A k \in 1 .. n : new[k] = toks[k]
  BY AppendProperties
<1>2. x \in Nat
  <2>1. t.text \in Seq(Byte)
    <3>1. <<>> \in Seq(Byte)
      OBVIOUS
    <3>2. QED
      BY <3>1 DEF Token
  <2>2. QED
    BY <2>1, CharsAreCounted
<1>3. sum \in [0 .. n -> Nat] /\ sum[0] = 0 /\ \A k \in 1 .. n : sum[k] = sum[k - 1] + NumChars(toks[k].text)
  BY DEF Totals
<1> HIDE DEF n, new
<1>4. sum[n] + x \in Nat /\ \A k \in 0 .. n : sum[k] \in Nat
  BY <1>1, <1>2, <1>3
<1>5. more \in [0 .. n + 1 -> Nat] /\ more[0] = 0 /\ more[n + 1] = sum[n] + x
  BY <1>1, <1>3, <1>4
<1>6. \A k \in 0 .. n : more[k] = sum[k]
  BY <1>1
<1> HIDE DEF more
<1>7. ASSUME NEW k \in 1 .. n + 1 PROVE more[k] = more[k - 1] + NumChars(new[k].text)
  <2>1. CASE k = n + 1
    <3>1. k - 1 = n /\ n \in 0 .. n
      BY <1>1, <2>1
    <3>2. more[k - 1] = sum[n] /\ more[k] = sum[n] + x /\ new[k] = t
      BY <1>1, <1>5, <1>6, <2>1, <3>1
    <3>3. QED
      BY <3>2 DEF x
  <2>2. CASE k \in 1 .. n
    <3>1. k - 1 \in 0 .. n /\ k \in 0 .. n
      BY <1>1, <2>2
    <3>2. more[k - 1] = sum[k - 1] /\ more[k] = sum[k] /\ new[k] = toks[k]
      BY <1>1, <1>6, <2>2, <3>1
    <3>3. sum[k] = sum[k - 1] + NumChars(toks[k].text)
      BY <1>3, <2>2
    <3>4. QED
      BY <3>2, <3>3
  <2>3. QED
    BY <1>1, <2>1, <2>2
<1>8. Totals(new, more)
  BY <1>1, <1>5, <1>7 DEF Totals
<1>9. QED
  BY <1>5, <1>8 DEF new, n, x

(* Where the specs are.                                                    *)
SpecsOf(toks) == { k \in DOMAIN toks : toks[k].kind # "Lit" }

(* Each spec token has a group, at its place among them.                   *)
Labels(toks, groups) ==
  /\ Len(groups) = Cardinality(SpecsOf(toks))
  /\ \A k \in SpecsOf(toks) :
       conversion_kind(groups[Cardinality({ j \in SpecsOf(toks) : j <= k })]) = toks[k].kind

(* A literal needs no group.                                               *)
LEMMA LabelsKeep ==
  ASSUME NEW toks \in Seq(Token), NEW groups \in Seq(Char), Labels(toks, groups),
         NEW t \in Token, t.kind = "Lit"
  PROVE  Labels(Append(toks, t), groups) /\ SpecsOf(Append(toks, t)) = SpecsOf(toks)
<1> DEFINE n == Len(toks)
           new == Append(toks, t)
<1>1. n \in Nat /\ new \in Seq(Token) /\ Len(new) = n + 1 /\ new[n + 1] = t /\ \A k \in 1 .. n : new[k] = toks[k]
  BY AppendProperties
<1>2. DOMAIN new = 1 .. n + 1 /\ DOMAIN toks = 1 .. n
  BY <1>1
<1> HIDE DEF n, new
<1>3. SpecsOf(new) = SpecsOf(toks)
  <2>1. \A k \in 1 .. n + 1 : k \in 1 .. n \/ k = n + 1
    BY <1>1
  <2>2. \A k \in 1 .. n : k \in 1 .. n + 1
    BY <1>1
  <2>3. QED
    BY <1>1, <1>2, <2>1, <2>2 DEF SpecsOf
<1>4. \A k \in SpecsOf(toks) : new[k] = toks[k]
  BY <1>1, <1>2 DEF SpecsOf
<1> DEFINE S == SpecsOf(toks)
<1> HIDE DEF S
<1>5. Labels(new, groups)
  <2>1. SpecsOf(new) = S /\ SpecsOf(toks) = S
    BY <1>3 DEF S
  <2>2. /\ Len(groups) = Cardinality(S)
        /\ \A k \in S : conversion_kind(groups[Cardinality({ j \in S : j <= k })]) = toks[k].kind
    BY <2>1 DEF Labels
  <2>3. \A k \in S : new[k] = toks[k]
    BY <1>4, <2>1
  <2>4. \A k \in S : conversion_kind(groups[Cardinality({ j \in S : j <= k })]) = new[k].kind
    BY <2>2, <2>3
  <2>5. QED
    BY <2>1, <2>2, <2>4 DEF Labels
<1>6. QED
  BY <1>3, <1>5 DEF new

(* A spec gets the next group.                                             *)
LEMMA LabelsGrow ==
  ASSUME NEW toks \in Seq(Token), NEW groups \in Seq(Char), Labels(toks, groups),
         NEW c \in Char, conversion_kind(c) \in Kind
  PROVE  /\ Labels(Append(toks, SpecTok(conversion_kind(c))), Append(groups, c))
         /\ Cardinality(SpecsOf(Append(toks, SpecTok(conversion_kind(c))))) = Cardinality(SpecsOf(toks)) + 1
<1> DEFINE n == Len(toks)
           kind == conversion_kind(c)
           t == SpecTok(kind)
           new == Append(toks, t)
           more == Append(groups, c)
           S == SpecsOf(toks)
           T == SpecsOf(new)
           m == Cardinality(S)
<1>0. t \in Token /\ t.kind = kind /\ kind # "Lit"
  BY DEF Token, SpecTok, Kind
<1>1. n \in Nat /\ new \in Seq(Token) /\ Len(new) = n + 1 /\ new[n + 1] = t /\ \A k \in 1 .. n : new[k] = toks[k]
  BY <1>0, AppendProperties
<1>2. DOMAIN new = 1 .. n + 1 /\ DOMAIN toks = 1 .. n
  BY <1>1
<1> HIDE DEF kind, t, new
<1>3. S \in SUBSET (1 .. n) /\ \A k \in S : toks[k].kind # "Lit" /\ new[k] = toks[k]
  <2> HIDE DEF n
  <2>1. QED
    BY <1>1, <1>2 DEF SpecsOf
<1>4. T = S \cup {n + 1}
  <2> HIDE DEF n
  <2>1. \A k \in 1 .. n + 1 : k \in 1 .. n \/ k = n + 1
    BY <1>1
  <2>2. (\A k \in 1 .. n : k \in 1 .. n + 1) /\ n + 1 \in 1 .. n + 1
    BY <1>1
  <2>3. QED
    BY <1>0, <1>1, <1>2, <2>1, <2>2 DEF SpecsOf
<1> HIDE DEF S, T, n
<1>5. IsFiniteSet(S) /\ m \in Nat /\ n + 1 \notin S
  <2>1. n + 1 \notin 1 .. n
    BY <1>1
  <2>2. IsFiniteSet(S) /\ Cardinality(S) \in Nat
    BY <1>1, <1>3, SmallSets
  <2>3. QED
    BY <1>3, <2>1, <2>2
<1>6. Cardinality(T) = m + 1
  BY <1>4, <1>5, FS_AddElement
<1>7. /\ Len(groups) = m
      /\ \A k \in S : conversion_kind(groups[Cardinality({ j \in S : j <= k })]) = toks[k].kind
  BY DEF Labels, S
<1>8. more \in Seq(Char) /\ Len(more) = m + 1 /\ more[m + 1] = c /\ \A g \in 1 .. m : more[g] = groups[g]
  BY <1>7, AppendProperties
<1> HIDE DEF more, m
<1>9. ASSUME NEW k \in T
      PROVE  conversion_kind(more[Cardinality({ j \in T : j <= k })]) = new[k].kind
  <2>1. CASE k = n + 1
    <3>1. { j \in T : j <= k } = T
      <4>1. \A j \in T : j <= k
        BY <1>1, <1>3, <1>4, <2>1
      <4>2. QED
        BY <4>1
    <3>2. more[Cardinality({ j \in T : j <= k })] = c
      BY <1>6, <1>8, <3>1
    <3>3. new[k].kind = kind
      BY <1>0, <1>1, <2>1
    <3>4. QED
      BY <3>2, <3>3 DEF kind
  <2>2. CASE k \in S
    <3> DEFINE U == { j \in S : j <= k }
    <3>1. { j \in T : j <= k } = U
      <4>1. ~(n + 1 <= k)
        BY <1>1, <1>3, <2>2
      <4>2. QED
        BY <1>4, <4>1
    <3>2. U \in SUBSET S /\ k \in U /\ U # {}
      BY <1>1, <1>3, <2>2
    <3>3. conversion_kind(groups[Cardinality(U)]) = toks[k].kind
      BY <1>7, <2>2
    <3> HIDE DEF U
    <3>4. Cardinality(U) \in 1 .. m
      <4>1. IsFiniteSet(U) /\ Cardinality(U) <= m
        BY <1>5, <3>2, FS_Subset DEF m
      <4>2. Cardinality(U) \in Nat /\ Cardinality(U) # 0
        BY <3>2, <4>1, FS_CardinalityType, FS_EmptySet
      <4>3. QED
        BY <1>5, <4>1, <4>2
    <3>5. more[Cardinality(U)] = groups[Cardinality(U)]
      BY <1>8, <3>4
    <3>6. new[k] = toks[k]
      BY <1>3, <2>2
    <3>7. QED
      BY <3>1, <3>3, <3>5, <3>6
  <2>3. QED
    BY <1>4, <2>1, <2>2
<1>10. Labels(new, more)
  BY <1>6, <1>8, <1>9 DEF Labels, T
<1>11. QED
  BY <1>6, <1>10 DEF new, more, m, S, T, t, kind

-----------------------------------------------------------------------------
(* What the tokens so far and the literal run make of the counts.          *)
CountsInv ==
  /\ Labels(lowered.tokens, lowered.groups)
  /\ lowered.spec_count = Cardinality(SpecsOf(lowered.tokens))
  /\ \E sum : /\ Totals(lowered.tokens, sum)
              /\ lowered.literal_len = sum[Len(lowered.tokens)] + NumChars(literal)

(* An empty run counts nothing.                                            *)
LEMMA NoChars == NumChars(<<>>) = 0
<1>1. { k \in DOMAIN <<>> : <<>>[k] \notin Cont } = {}
  OBVIOUS
<1>2. QED
  BY <1>1, FS_EmptySet DEF NumChars

LEMMA InitCounts == Init => CountsInv
<1> SUFFICES ASSUME Init PROVE CountsInv
  OBVIOUS
<1>1. /\ lowered.tokens = <<>> /\ lowered.literal_len = 0 /\ lowered.spec_count = 0
      /\ lowered.groups = <<>> /\ literal = <<>>
  BY DEF Init
<1>2. SpecsOf(<<>>) = {} /\ Cardinality({}) = 0
  BY FS_EmptySet DEF SpecsOf
<1>3. Labels(<<>>, <<>>)
  BY <1>2 DEF Labels
<1>4. Totals(<<>>, [ k \in 0 .. 0 |-> 0 ])
  BY DEF Totals
<1>5. [ k \in 0 .. 0 |-> 0 ][Len(<<>>)] + NumChars(<<>>) = 0
  BY NoChars
<1>6. QED
  BY <1>1, <1>2, <1>3, <1>4, <1>5 DEF CountsInv

(* The counts' types.                                                      *)
LEMMA CountTypes ==
  ASSUME TokInv
  PROVE  /\ lowered.tokens \in Seq(Token) /\ lowered.groups \in Seq(Char)
         /\ lowered.literal_len \in Nat /\ lowered.spec_count \in Nat /\ literal \in Seq(Byte)
         /\ DOMAIN lowered = {"tokens", "literal_len", "spec_count", "groups"}
<1>1. QED
  BY DEF TokInv, TypeOK

(* flush: the literal run becomes a token, its chars the token's.          *)
LEMMA FlushCounts ==
  ASSUME TokInv, CountsInv
  PROVE  LET toks == Flushed(lowered.tokens)
         IN /\ toks \in Seq(Token) /\ Labels(toks, lowered.groups)
            /\ lowered.spec_count = Cardinality(SpecsOf(toks))
            /\ \E sum : Totals(toks, sum) /\ lowered.literal_len = sum[Len(toks)]
<1> DEFINE toks == lowered.tokens
           t == LitTok(literal)
<1>1. toks \in Seq(Token) /\ lowered.groups \in Seq(Char) /\ literal \in Seq(Byte)
  BY CountTypes
<1>2. PICK sum : Totals(toks, sum) /\ lowered.literal_len = sum[Len(toks)] + NumChars(literal)
  BY DEF CountsInv
<1>3. Labels(toks, lowered.groups) /\ lowered.spec_count = Cardinality(SpecsOf(toks))
  BY DEF CountsInv
<1>4. CASE literal = <<>>
  <2>1. sum[Len(toks)] \in Nat
    BY <1>1, <1>2 DEF Totals
  <2>2. lowered.literal_len = sum[Len(toks)]
    BY <1>2, <1>4, <2>1, NoChars
  <2>3. Flushed(toks) = toks
    BY <1>4 DEF Flushed
  <2>4. QED
    BY <1>1, <1>2, <1>3, <2>2, <2>3
<1>5. CASE literal # <<>>
  <2>1. t \in Token /\ t.kind = "Lit" /\ t.text = literal
    BY <1>1, <1>5 DEF Token, LitTok
  <2>2. Flushed(toks) = Append(toks, t)
    BY <1>5 DEF Flushed
  <2> HIDE DEF t, toks
  <2>3. Append(toks, t) \in Seq(Token) /\ Len(Append(toks, t)) = Len(toks) + 1
    BY <1>1, <2>1, AppendProperties
  <2>4. Labels(Append(toks, t), lowered.groups) /\ SpecsOf(Append(toks, t)) = SpecsOf(toks)
    BY <1>1, <1>3, <2>1, LabelsKeep
  <2>5. PICK more : /\ Totals(Append(toks, t), more)
                    /\ more[Len(toks) + 1] = sum[Len(toks)] + NumChars(t.text)
    BY <1>1, <1>2, <2>1, TotalsGrow
  <2>6. lowered.literal_len = more[Len(Append(toks, t))]
    BY <1>2, <2>1, <2>3, <2>5
  <2>7. QED
    BY <1>3, <2>2, <2>3, <2>4, <2>5, <2>6 DEF toks
<1>6. QED
  BY <1>4, <1>5

(* A char more in the run.                                                 *)
LEMMA LowerTextCounts ==
  ASSUME TokInv, CountsInv, NEW c \in Char, NEW width, LowerText(c, width)
  PROVE  CountsInv'
<1>1. /\ lowered.tokens \in Seq(Token) /\ lowered.groups \in Seq(Char)
      /\ lowered.literal_len \in Nat /\ literal \in Seq(Byte)
      /\ DOMAIN lowered = {"tokens", "literal_len", "spec_count", "groups"}
  BY CountTypes
<1>2. lowered' = [lowered EXCEPT !.literal_len = @ + 1] /\ literal' = literal \o Utf8[c]
  BY DEF LowerText
<1>3. /\ lowered'.tokens = lowered.tokens /\ lowered'.groups = lowered.groups
      /\ lowered'.spec_count = lowered.spec_count /\ lowered'.literal_len = lowered.literal_len + 1
  BY <1>1, <1>2
<1>4. NumChars(literal') = NumChars(literal) + 1
  BY <1>1, <1>2, CharCounts
<1>5. PICK sum : /\ Totals(lowered.tokens, sum)
                 /\ lowered.literal_len = sum[Len(lowered.tokens)] + NumChars(literal)
  BY DEF CountsInv
<1>6. sum[Len(lowered.tokens)] \in Nat /\ NumChars(literal) \in Nat
  <2>1. Len(lowered.tokens) \in 0 .. Len(lowered.tokens)
    BY <1>1
  <2>2. QED
    BY <1>1, <1>5, <2>1, CharsAreCounted DEF Totals
<1>7. lowered'.literal_len = sum[Len(lowered'.tokens)] + NumChars(literal')
  BY <1>3, <1>4, <1>5, <1>6
<1>8. QED
  BY <1>3, <1>5, <1>7 DEF CountsInv

(* A spec: the run is flushed, the token and the group follow.             *)
LEMMA LowerSpecCounts ==
  ASSUME TokInv, CountsInv, LowerSpec
  PROVE  CountsInv'
<1> DEFINE c == spec.conv
           flushed == Flushed(lowered.tokens)
           t == SpecTok(conversion_kind(c))
<1>1. fmt \in Seq(Char) /\ i \in 1 .. Len(fmt) /\ conversion_kind(c) \in Kind
  BY DEF TokInv, TypeOK, LowerSpec, AtSpec
<1>2. c \in Char
  <2>1. spec.conv # NoChar
    BY <1>1, SampleOfKnown DEF Kind
  <2>2. QED
    BY <1>1, <2>1, KnownIsChar DEF spec
<1>3. /\ lowered.tokens \in Seq(Token) /\ lowered.groups \in Seq(Char)
      /\ lowered.spec_count \in Nat
      /\ DOMAIN lowered = {"tokens", "literal_len", "spec_count", "groups"}
  BY CountTypes
<1>4. /\ flushed \in Seq(Token) /\ Labels(flushed, lowered.groups)
      /\ lowered.spec_count = Cardinality(SpecsOf(flushed))
      /\ \E sum : Totals(flushed, sum) /\ lowered.literal_len = sum[Len(flushed)]
  BY FlushCounts
<1>5. /\ lowered' = [lowered EXCEPT !.tokens = Append(flushed, t), !.spec_count = @ + 1,
                                    !.groups = Append(@, c)]
      /\ literal' = <<>>
  BY DEF LowerSpec
<1>6. /\ lowered'.tokens = Append(flushed, t) /\ lowered'.groups = Append(lowered.groups, c)
      /\ lowered'.spec_count = lowered.spec_count + 1 /\ lowered'.literal_len = lowered.literal_len
  BY <1>3, <1>5
<1>7. t \in Token /\ t.text = <<>>
  BY <1>1 DEF Token, SpecTok, Kind
<1> HIDE DEF c, flushed
<1>8. Labels(Append(flushed, t), Append(lowered.groups, c))
      /\ Cardinality(SpecsOf(Append(flushed, t))) = Cardinality(SpecsOf(flushed)) + 1
  BY <1>1, <1>2, <1>3, <1>4, LabelsGrow
<1> HIDE DEF t
<1>9. PICK sum : Totals(flushed, sum) /\ lowered.literal_len = sum[Len(flushed)]
  BY <1>4
<1>10. PICK more : /\ Totals(Append(flushed, t), more)
                   /\ more[Len(flushed) + 1] = sum[Len(flushed)] + NumChars(t.text)
  BY <1>4, <1>7, <1>9, TotalsGrow
<1>11. Len(flushed) \in Nat /\ Len(Append(flushed, t)) = Len(flushed) + 1
  BY <1>4, <1>7, AppendProperties
<1>12. sum[Len(flushed)] \in Nat
  BY <1>9, <1>11 DEF Totals
<1>13. lowered'.literal_len = more[Len(lowered'.tokens)] + NumChars(literal')
  BY <1>5, <1>6, <1>7, <1>9, <1>10, <1>11, <1>12, NoChars
<1>14. QED
  BY <1>4, <1>6, <1>8, <1>10, <1>13 DEF CountsInv

LEMMA NextCounts ==
  ASSUME TokInv, CountsInv, [Next]_vars
  PROVE  CountsInv'
<1>1. fmt \in Seq(Char) /\ i \in 1 .. Len(fmt) + 1
  BY DEF TokInv, TypeOK
<1>2. CASE LowerChar
  <2>1. fmt[i] \in Char
    BY <1>1, <1>2 DEF LowerChar, AtChar
  <2>2. QED
    BY <1>2, <2>1, LowerTextCounts DEF LowerChar
<1>3. CASE LowerPercent
  BY <1>3, LowerTextCounts, LoweringAssumption DEF LowerPercent
<1>4. CASE LowerSpec
  BY <1>4, LowerSpecCounts
<1>5. CASE LowerEnds
  <2> DEFINE flushed == Flushed(lowered.tokens)
  <2>1. /\ flushed \in Seq(Token) /\ Labels(flushed, lowered.groups)
        /\ lowered.spec_count = Cardinality(SpecsOf(flushed))
        /\ \E sum : Totals(flushed, sum) /\ lowered.literal_len = sum[Len(flushed)]
    BY FlushCounts
  <2>2. PICK sum : Totals(flushed, sum) /\ lowered.literal_len = sum[Len(flushed)]
    BY <2>1
  <2>3. lowered' = [lowered EXCEPT !.tokens = flushed] /\ literal' = <<>>
    BY <1>5 DEF LowerEnds
  <2>4. /\ lowered'.tokens = flushed /\ lowered'.groups = lowered.groups
        /\ lowered'.spec_count = lowered.spec_count /\ lowered'.literal_len = lowered.literal_len
    BY <2>3, CountTypes
  <2> HIDE DEF flushed
  <2>5. sum[Len(flushed)] \in Nat
    <3>1. Len(flushed) \in 0 .. Len(flushed)
      BY <2>1
    <3>2. QED
      BY <2>2, <3>1 DEF Totals
  <2>6. lowered'.literal_len = sum[Len(lowered'.tokens)] + NumChars(literal')
    BY <2>2, <2>3, <2>4, <2>5, NoChars
  <2>7. QED
    BY <2>1, <2>2, <2>4, <2>6 DEF CountsInv
<1>6. CASE UNCHANGED <<lowered, literal>>
  BY <1>6 DEF CountsInv
<1>7. CASE LowerNothing \/ LowerFails
  BY <1>6, <1>7 DEF LowerNothing, LowerFails
<1>8. CASE render_sample
  BY <1>6, <1>8 DEF render_sample, RenderChar, RenderPercent, RenderSpec, RenderFails, RenderEnds,
     Rendering
<1>9. CASE UNCHANGED vars
  BY <1>6, <1>9 DEF vars
<1>10. QED
  BY <1>2, <1>3, <1>4, <1>5, <1>7, <1>8, <1>9 DEF Next, lower_format

(* The recurrence of CountsAreOfTokens adds the run to the tokens' chars.  *)
LEMMA CountsOfInv ==
  ASSUME TokInv, CountsInv
  PROVE  CountsAreOfTokens
<1> DEFINE toks == lowered.tokens
           n == Len(toks)
           x == NumChars(literal)
           step(f, k) == IF k = 0 THEN x ELSE f[k - 1] + NumChars(toks[k].text)
           chars == CHOOSE f : f = [ k \in 0 .. n |-> step(f, k) ]
           S == SpecsOf(toks)
<1>1. n \in Nat /\ x \in Nat /\ toks \in Seq(Token)
  <2>1. literal \in Seq(Byte) /\ lowered.tokens \in Seq(Token)
    BY CountTypes
  <2>2. NumChars(literal) \in Nat
    BY <2>1, CharsAreCounted
  <2> HIDE DEF chars, step
  <2>3. QED
    BY <2>1, <2>2
<1>2. PICK sum : Totals(toks, sum) /\ lowered.literal_len = sum[n] + x
  BY DEF CountsInv
<1>3. /\ \A k \in 0 .. n : sum[k] \in Nat
      /\ sum[0] = 0 /\ \A k \in 1 .. n : sum[k] = sum[k - 1] + NumChars(toks[k].text)
  BY <1>2 DEF Totals
<1>4. \A k \in 1 .. n : NumChars(toks[k].text) \in Nat
  <2> TAKE k \in 1 .. n
  <2>1. toks[k] \in Token
    BY <1>1
  <2>2. toks[k].text \in Seq(Byte)
    <3>1. <<>> \in Seq(Byte)
      OBVIOUS
    <3>2. QED
      BY <2>1, <3>1 DEF Token
  <2>3. QED
    BY <2>2, CharsAreCounted
<1> HIDE DEF toks, n, x
<1>5. chars = [ k \in 0 .. n |-> step(chars, k) ]
  <2> DEFINE g == [ k \in 0 .. n |-> sum[k] + x ]
  <2>1. \A k \in 0 .. n : g[k] = sum[k] + x
    OBVIOUS
  <2>2. ASSUME NEW k \in 0 .. n PROVE g[k] = step(g, k)
    <3>1. CASE k = 0
      BY <1>1, <1>3, <2>1, <3>1
    <3>2. CASE k \in 1 .. n
      <4>1. k - 1 \in 0 .. n /\ k # 0
        BY <1>1, <3>2
      <4>2. PICK a \in Nat : a = NumChars(toks[k].text)
        BY <1>4, <3>2
      <4>3. sum[k] = sum[k - 1] + a /\ sum[k - 1] \in Nat
        BY <1>3, <3>2, <4>1, <4>2
      <4>4. g[k] = sum[k] + x /\ g[k - 1] = sum[k - 1] + x
        BY <2>1, <4>1
      <4>5. g[k] = g[k - 1] + a
        BY <1>1, <4>3, <4>4
      <4>6. QED
        BY <4>1, <4>2, <4>5
    <3>3. QED
      BY <1>1, <3>1, <3>2
  <2>3. g = [ k \in 0 .. n |-> g[k] ]
    OBVIOUS
  <2> HIDE DEF g
  <2>4. g = [ k \in 0 .. n |-> step(g, k) ]
    BY <2>2, <2>3
  <2> HIDE DEF step
  <2>5. QED
    BY <2>4
<1> HIDE DEF chars
<1>6. chars[0] = x /\ \A k \in 1 .. n : chars[k] = chars[k - 1] + NumChars(toks[k].text)
  <2>1. \A k \in 0 .. n : chars[k] = step(chars, k)
    <3> HIDE DEF step
    <3>1. QED
      BY <1>5
  <2>2. QED
    BY <1>1, <2>1
<1>7. chars[n] = sum[n] + x
  <2> DEFINE P == { k \in 0 .. n : chars[k] = sum[k] + x }
  <2>1. 0 \in P
    BY <1>1, <1>3, <1>6
  <2>2. ASSUME NEW k \in 1 .. n, k - 1 \in P PROVE k \in P
    <3>1. k - 1 \in 0 .. n /\ k \in 0 .. n
      BY <1>1
    <3>2. PICK a \in Nat : a = NumChars(toks[k].text)
      BY <1>4
    <3>3. sum[k] = sum[k - 1] + a /\ sum[k - 1] \in Nat /\ chars[k] = chars[k - 1] + a
      BY <1>3, <1>6, <3>1, <3>2
    <3>4. chars[k - 1] = sum[k - 1] + x
      BY <2>2
    <3>5. chars[k] = sum[k] + x
      BY <1>1, <3>3, <3>4
    <3>6. QED
      BY <3>1, <3>5
  <2> HIDE DEF P
  <2>3. n \in P
    <3>1. \A k \in 0 .. n : k \in P
      BY <1>1, <2>1, <2>2, Climbs
    <3>2. QED
      BY <1>1, <3>1
  <2>4. QED
    BY <2>3 DEF P
<1>8. /\ Len(lowered.groups) = Cardinality(S) /\ lowered.spec_count = Cardinality(S)
      /\ \A k \in S : conversion_kind(lowered.groups[Cardinality({ j \in S : j <= k })]) = toks[k].kind
  BY DEF CountsInv, Labels, toks
<1>9. lowered.literal_len = chars[n]
  BY <1>2, <1>7
<1>10. QED
  BY <1>8, <1>9 DEF CountsAreOfTokens, chars, n, x, toks, SpecsOf

(* literal_len counts the chars of the literal runs, spec_count the specs, *)
(* and each spec token has its own group, in the order of the format: what *)
(* ranking and the labels of captures read (scan.rs:158-175).              *)
THEOREM CountsAreRight == Spec => []CountsAreOfTokens
<1>1. TokInv /\ CountsInv /\ [Next]_vars => (TokInv /\ CountsInv)'
  BY NextTok, NextCounts
<1>2. TokInv /\ CountsInv => CountsAreOfTokens
  BY CountsOfInv
<1>3. QED
  BY <1>1, <1>2, InitTok, InitCounts, PTL DEF Spec

-----------------------------------------------------------------------------
(* Samples.                                                                *)

(* The part of a sample that stands for a token.                           *)
MadeFor(tok, w) == IF tok.kind = "Lit" THEN w = tok.text ELSE Fits(tok.kind, w)

(* What was made for a token its fragment matches, between whole chars.    *)
LEMMA MadeMatches ==
  ASSUME NEW tok \in Token, NEW s \in Seq(Byte), NEW w \in Seq(Byte), MadeFor(tok, w),
         NEW a \in 0 .. Len(s), NEW b \in 0 .. Len(s), b = a + Len(w), Boundary(s, a), Boundary(s, b),
         \A k \in 1 .. Len(w) : s[a + k] = w[k]
  PROVE  Segment(tok, s, a, b)
<1>1. Len(w) \in Nat /\ Len(s) \in Nat /\ tok.kind \in Kind \cup {"Lit"}
  BY DEF Token
<1>2. \A p \in a .. b - 1 : p + 1 - a \in 1 .. Len(w) /\ s[p + 1] = w[p + 1 - a]
  <2> TAKE p \in a .. b - 1
  <2>1. p + 1 - a \in 1 .. Len(w) /\ a + (p + 1 - a) = p + 1
    BY <1>1
  <2>2. QED
    BY <2>1
<1>3. StartsWith(s, a, w) /\ a + Len(w) = b
  <2> DEFINE sub == SubSeq(s, a + 1, a + Len(w))
  <2>1. sub \in Seq(Byte) /\ Len(sub) = Len(w) /\ \A k \in 1 .. Len(w) : sub[k] = s[a + k]
    BY <1>1
  <2> HIDE DEF sub
  <2>2. \A k \in 1 .. Len(w) : sub[k] = w[k]
    BY <2>1
  <2>3. sub = w
    BY <2>1, <2>2
  <2>4. QED
    BY <2>3 DEF sub, StartsWith
<1>4. CASE tok.kind = "Lit"
  <2>1. w = tok.text
    BY <1>4 DEF MadeFor
  <2>2. QED
    BY <1>3, <1>4, <2>1 DEF Segment
<1>5. CASE tok.kind = "Str"
  <2>1. \A k \in 1 .. Len(w) : w[k] # Newline
    BY <1>5 DEF MadeFor, Fits
  <2>2. Dots(s, a, b)
    BY <1>1, <1>2, <2>1 DEF Dots
  <2>3. QED
    BY <1>5, <2>2 DEF Segment
<1>6. CASE tok.kind \in Kind \ {"Str"}
  <2>1. Fits(tok.kind, w)
    BY <1>6 DEF MadeFor, Kind
  <2>2. Len(w) >= 1 /\ a < b /\ a <= b
    BY <1>1, <1>6, <2>1 DEF Fits
  <2>3. CASE tok.kind \in {"Errno", "Char"}
    <3>1. \A k \in 1 .. Len(w) : w[k] # Newline
      BY <2>1, <2>3 DEF Fits
    <3>2. \A p \in a .. b - 1 : s[p + 1] # Newline
      BY <1>2, <3>1
    <3>3. Dots(s, a, b)
      BY <2>2, <3>2 DEF Dots
    <3>4. tok.kind = "Char" => b = a + Width[s[a + 1]]
      <4>1. tok.kind = "Char" => Len(w) = 1 /\ Width[w[1]] = 1
        BY <2>1 DEF Fits
      <4>2. s[a + 1] = w[1]
        BY <1>1, <2>2
      <4>3. QED
        BY <4>1, <4>2
    <3>5. QED
      BY <2>2, <2>3, <3>3, <3>4 DEF Segment
  <2>4. CASE tok.kind \in {"Uint", "Oct", "Hex", "Float"}
    <3>1. \A k \in 1 .. Len(w) : w[k] \in Class(tok.kind)
      BY <2>1, <2>4 DEF Fits
    <3>2. \A p \in a .. b - 1 : s[p + 1] \in Class(tok.kind)
      BY <1>2, <3>1
    <3>3. CASE tok.kind = "Uint"
      <4>1. Digits(s, a, b)
        BY <2>2, <3>2, <3>3 DEF Digits, Class
      <4>2. QED
        BY <3>3, <4>1 DEF Segment
    <3>4. CASE tok.kind \in {"Oct", "Hex", "Float"}
      <4>1. RunOf(Class(tok.kind), s, a, b)
        BY <2>2, <3>2 DEF RunOf
      <4>2. QED
        BY <3>4, <4>1 DEF Segment, Class
    <3>5. QED
      BY <2>4, <3>3, <3>4
  <2>5. CASE tok.kind = "Int"
    <3>1. CASE \A k \in 1 .. Len(w) : w[k] \in Digit
      <4>1. \A p \in a .. b - 1 : s[p + 1] \in Digit
        BY <1>2, <3>1
      <4>2. Digits(s, a, b)
        BY <2>2, <4>1 DEF Digits
      <4>3. QED
        BY <2>5, <4>2 DEF Segment
    <3>2. CASE Len(w) > 1 /\ w[1] = Minus /\ \A k \in 2 .. Len(w) : w[k] \in Digit
      <4>1. \A p \in a + 1 .. b - 1 : s[p + 1] \in Digit
        <5> TAKE p \in a + 1 .. b - 1
        <5>1. p \in a .. b - 1 /\ p + 1 - a \in 2 .. Len(w)
          BY <1>1
        <5>2. QED
          BY <1>2, <3>2, <5>1
      <4>2. a + 1 < b /\ a + 1 \in 0 .. Len(s) /\ a + 1 \in a + 1 .. b - 1
        BY <1>1, <3>2
      <4>3. s[a + 1 + 1] \in Digit /\ Digit \cap Cont = {}
        BY <4>1, <4>2, AlphabetAssumption
      <4>4. Boundary(s, a + 1)
        BY <4>2, <4>3 DEF Boundary
      <4>5. Digits(s, a + 1, b)
        BY <4>1, <4>2, <4>4 DEF Digits
      <4>6. s[a + 1] = Minus
        BY <1>1, <3>2
      <4>7. QED
        BY <2>2, <2>5, <4>5, <4>6 DEF Segment
    <3>3. QED
      BY <2>1, <2>5, <3>1, <3>2 DEF Fits
  <2>6. CASE tok.kind = "Ptr" /\ w = NilText
    BY <1>3, <2>6 DEF Segment
  <2>7. CASE tok.kind = "Ptr" /\ w # NilText
    <3>1. /\ Len(w) > 2 /\ w[1] = HexPrefix[1] /\ w[2] = HexPrefix[2]
          /\ \A k \in 3 .. Len(w) : w[k] \in Hex
      BY <2>1, <2>7 DEF Fits
    <3>2. HexPrefix \in Seq(Byte) /\ Len(HexPrefix) = 2
      BY AlphabetAssumption
    <3>3. SubSeq(s, a + 1, a + 2) = HexPrefix
      <4> DEFINE sub == SubSeq(s, a + 1, a + 2)
      <4>1. a + 2 <= Len(s) /\ 1 \in 1 .. Len(w) /\ 2 \in 1 .. Len(w)
        BY <1>1, <3>1
      <4>2. s[a + 1] = w[1] /\ s[a + 2] = w[2]
        BY <4>1
      <4>3. sub \in Seq(Byte) /\ Len(sub) = 2 /\ sub[1] = s[a + 1] /\ sub[2] = s[a + 2]
        BY <1>1, <4>1
      <4> HIDE DEF sub
      <4>4. Len(sub) = Len(HexPrefix) /\ \A k \in 1 .. Len(sub) : sub[k] = HexPrefix[k]
        BY <3>1, <3>2, <4>2, <4>3
      <4>5. sub = HexPrefix
        BY <3>2, <4>3, <4>4, SeqEqual
      <4>6. QED
        BY <4>5 DEF sub
    <3>4. StartsWith(s, a, HexPrefix)
      BY <1>1, <3>1, <3>2, <3>3 DEF StartsWith
    <3>5. RunOf(Hex, s, a + 2, b)
      <4>1. a + 2 < b
        BY <1>1, <3>1
      <4>2. \A p \in a + 2 .. b - 1 : s[p + 1] \in Hex
        <5> TAKE p \in a + 2 .. b - 1
        <5>1. p \in a .. b - 1 /\ p + 1 - a \in 3 .. Len(w)
          BY <1>1
        <5>2. QED
          BY <1>2, <3>1, <5>1
      <4>3. QED
        BY <4>1, <4>2 DEF RunOf
    <3>6. QED
      BY <2>7, <3>4, <3>5 DEF Segment
  <2>8. QED
    BY <1>6, <2>3, <2>4, <2>5, <2>6, <2>7 DEF Kind
<1>7. QED
  BY <1>1, <1>4, <1>5, <1>6

-----------------------------------------------------------------------------
(* Samples as lines: token k stands between cut[k] and cut[k + 1].         *)
Renders(toks, s, cut) ==
  /\ cut \in Seq(0 .. Len(s)) /\ Len(cut) = Len(toks) + 1
  /\ cut[1] = 0 /\ cut[Len(toks) + 1] = Len(s)
  /\ \A k \in 1 .. Len(toks) + 1 : Boundary(s, cut[k])
  /\ \A k \in 1 .. Len(toks) : \E w \in Seq(Byte) :
       /\ MadeFor(toks[k], w) /\ cut[k + 1] = cut[k] + Len(w)
       /\ \A j \in 1 .. Len(w) : s[cut[k] + j] = w[j]

(* One more token.                                                         *)
LEMMA RendersGrow ==
  ASSUME NEW toks \in Seq(Token), NEW s \in Seq(Byte), WellFormed(s), NEW cut, Renders(toks, s, cut),
         NEW tok \in Token, NEW w \in Seq(Byte), WellFormed(w), MadeFor(tok, w)
  PROVE  Renders(Append(toks, tok), s \o w, Append(cut, Len(s) + Len(w)))
<1> DEFINE n == Len(toks)
           l == Len(s)
           m == Len(w)
           all == s \o w
           new == Append(toks, tok)
           more == Append(cut, l + m)
<1>1. n \in Nat /\ l \in Nat /\ m \in Nat
  OBVIOUS
<1>2. new \in Seq(Token) /\ Len(new) = n + 1 /\ new[n + 1] = tok /\ \A k \in 1 .. n : new[k] = toks[k]
  BY AppendProperties
<1>3. /\ all \in Seq(Byte) /\ Len(all) = l + m
      /\ \A k \in 1 .. l + m : all[k] = IF k <= l THEN s[k] ELSE w[k - l]
  BY ConcatProperties
<1>4. /\ cut \in Seq(0 .. l) /\ Len(cut) = n + 1 /\ cut[1] = 0 /\ cut[n + 1] = l
      /\ \A k \in 1 .. n + 1 : Boundary(s, cut[k])
      /\ \A k \in 1 .. n : \E v \in Seq(Byte) :
           /\ MadeFor(toks[k], v) /\ cut[k + 1] = cut[k] + Len(v)
           /\ \A j \in 1 .. Len(v) : s[cut[k] + j] = v[j]
  BY DEF Renders
<1>5. \A k \in 1 .. n + 1 : cut[k] \in 0 .. l
  <2> HIDE DEF n, l
  <2> TAKE k \in 1 .. n + 1
  <2>1. cut \in Seq(0 .. l) /\ k \in 1 .. Len(cut)
    BY <1>4
  <2> HIDE DEF m, all, new, more
  <2>2. QED
    BY <2>1, ElementOfSeq
<1>6. w # <<>> => w[1] \notin Cont
  BY DEF WellFormed
<1>7. m # 0 => w # <<>>
  BY <1>1
<1> HIDE DEF n, l, m, all, new
<1>8. /\ more \in Seq(0 .. l + m) /\ Len(more) = n + 2 /\ more[n + 2] = l + m
      /\ \A k \in 1 .. n + 1 : more[k] = cut[k]
  <2>1. cut \in Seq(0 .. l + m) /\ l + m \in 0 .. l + m
    <3>1. \A k \in 1 .. Len(cut) : cut[k] \in 0 .. l + m
      BY <1>1, <1>4, <1>5
    <3>2. QED
      BY <1>1, <1>4, <3>1
  <2>2. n + 1 + 1 = n + 2
    BY <1>1
  <2>3. QED
    BY <1>1, <1>4, <2>1, <2>2, AppendProperties
<1> HIDE DEF more
<1>9. ASSUME NEW p \in 0 .. l, Boundary(s, p) PROVE Boundary(all, p)
  <2>1. CASE p < l
    BY <1>1, <1>3, <1>9, <2>1 DEF Boundary, l
  <2>2. CASE p = l /\ m # 0
    <3>1. all[p + 1] = w[1]
      BY <1>1, <1>3, <2>2
    <3>2. QED
      BY <1>1, <1>3, <1>6, <1>7, <2>2, <3>1 DEF Boundary
  <2>3. CASE p = l /\ m = 0
    BY <1>1, <1>3, <2>3 DEF Boundary
  <2>4. QED
    BY <1>1, <2>1, <2>2, <2>3
<1>10. ASSUME NEW k \in 1 .. n + 2 PROVE Boundary(all, more[k])
  <2>1. CASE k = n + 2
    BY <1>1, <1>3, <1>8, <2>1 DEF Boundary
  <2>2. CASE k \in 1 .. n + 1
    <3>1. cut[k] \in 0 .. l /\ Boundary(s, cut[k])
      BY <1>4, <1>5, <2>2
    <3>2. QED
      BY <1>8, <1>9, <2>2, <3>1
  <2>3. QED
    BY <1>1, <2>1, <2>2
<1>11. ASSUME NEW k \in 1 .. n + 1
       PROVE  \E v \in Seq(Byte) :
                /\ MadeFor(new[k], v) /\ more[k + 1] = more[k] + Len(v)
                /\ \A j \in 1 .. Len(v) : all[more[k] + j] = v[j]
  <2>1. CASE k = n + 1
    <3>1. more[k] = l /\ more[k + 1] = l + m /\ new[k] = tok
      BY <1>1, <1>2, <1>4, <1>8, <2>1
    <3>2. \A j \in 1 .. m : all[l + j] = w[j]
      BY <1>1, <1>3
    <3>3. QED
      BY <3>1, <3>2 DEF m
  <2>2. CASE k \in 1 .. n
    <3>1. PICK v \in Seq(Byte) : /\ MadeFor(toks[k], v) /\ cut[k + 1] = cut[k] + Len(v)
                                 /\ \A j \in 1 .. Len(v) : s[cut[k] + j] = v[j]
      BY <1>4, <2>2
    <3>2. k \in 1 .. n + 1 /\ k + 1 \in 1 .. n + 1
      BY <1>1, <2>2
    <3>3. more[k] = cut[k] /\ more[k + 1] = cut[k + 1] /\ new[k] = toks[k]
      BY <1>2, <1>8, <2>2, <3>2
    <3>4. cut[k] \in 0 .. l /\ cut[k + 1] \in 0 .. l /\ Len(v) \in Nat
      BY <1>5, <3>2
    <3>5. \A j \in 1 .. Len(v) : all[cut[k] + j] = v[j]
      <4> TAKE j \in 1 .. Len(v)
      <4>1. cut[k] + j \in 1 .. l + m /\ cut[k] + j <= l
        BY <1>1, <3>1, <3>4
      <4>2. QED
        BY <1>3, <3>1, <4>1
    <3>6. QED
      BY <3>1, <3>3, <3>5
  <2>3. QED
    BY <1>1, <2>1, <2>2
<1>12. more[1] = 0
  BY <1>1, <1>4, <1>8
<1>13. Renders(new, all, more)
  <2>1. Len(new) + 1 = n + 2
    BY <1>1, <1>2
  <2>2. QED
    BY <1>2, <1>3, <1>8, <1>10, <1>11, <1>12, <2>1 DEF Renders
<1>14. QED
  BY <1>13 DEF new, all, more, l, m

(* A sample of the tokens is matched by their pattern.                     *)
LEMMA RenderedIsCaptured ==
  ASSUME NEW toks \in Seq(Token), NEW s \in Seq(Byte), NEW cut, Renders(toks, s, cut)
  PROVE  Captures(toks, s) # NoMatch
<1>1. /\ cut \in Seq(0 .. Len(s)) /\ Len(cut) = Len(toks) + 1
      /\ cut[1] = 0 /\ cut[Len(toks) + 1] = Len(s)
      /\ \A k \in 1 .. Len(toks) + 1 : Boundary(s, cut[k])
  BY DEF Renders
<1>2. Len(toks) \in Nat /\ Len(s) \in Nat
  OBVIOUS
<1>3. ASSUME NEW k \in 1 .. Len(toks)
      PROVE  Segment(toks[k], s, cut[k], cut[k + 1]) /\ cut[k] <= cut[k + 1]
  <2>1. PICK w \in Seq(Byte) : /\ MadeFor(toks[k], w) /\ cut[k + 1] = cut[k] + Len(w)
                               /\ \A j \in 1 .. Len(w) : s[cut[k] + j] = w[j]
    BY DEF Renders
  <2>2. k \in 1 .. Len(toks) + 1 /\ k + 1 \in 1 .. Len(toks) + 1 /\ toks[k] \in Token
    BY <1>2
  <2>3. cut[k] \in 0 .. Len(s) /\ cut[k + 1] \in 0 .. Len(s)
    BY <1>1, <2>2
  <2>4. Boundary(s, cut[k]) /\ Boundary(s, cut[k + 1])
    BY <1>1, <2>2
  <2>5. Segment(toks[k], s, cut[k], cut[k + 1])
    BY <2>1, <2>2, <2>3, <2>4, MadeMatches
  <2>6. Len(w) \in Nat
    OBVIOUS
  <2>7. QED
    BY <2>1, <2>3, <2>5, <2>6
<1>4. IsParse(toks, s, cut)
  BY <1>1, <1>3 DEF IsParse
<1>5. cut \in Parses(toks, s)
  BY <1>1, <1>3, <1>4, ParseIsFound
<1>6. QED
  BY <1>5, ParsedIsCaptured

(* What the second loop emits at a position.                               *)
Emitted(f, k) ==
  IF SpecAt(f, k) THEN Canned(parse_spec(f, k).conv)
  ELSE IF EscapeAt(f, k) THEN Utf8["%"] ELSE Utf8[f[k]]

(* The samples up to the positions of a path.                              *)
Samples(f, S, last, upto) ==
  /\ S \subseteq 1 .. last /\ Path(f, S, last)
  /\ upto \in [S -> Seq(Byte)] /\ upto[1] = <<>>
  /\ \A k \in S \ {last} : upto[Step(f, k)] = upto[k] \o Emitted(f, k)

(* The first loop's tokens and run are those of the sample so far; the     *)
(* second loop has made the sample up to where it stands.                  *)
SampleInv ==
  /\ phase = "lower" => out = <<>> /\ \E S \in SUBSET Nat : \E upto, body, cut :
       /\ Samples(fmt, S, i, upto)
       /\ body \in Seq(Byte) /\ WellFormed(body) /\ Renders(lowered.tokens, body, cut)
       /\ upto[i] = body \o literal
  /\ phase = "render" /\ verdict = "ok" => \E S \in SUBSET Nat, last \in Nat : \E upto, cut :
       /\ Samples(fmt, S, last, upto) /\ ~Passable(fmt, last) /\ i \in S /\ out = upto[i]
       /\ Renders(lowered.tokens, upto[last], cut)
  /\ phase = "done" /\ verdict = "ok" => \E cut : Renders(lowered.tokens, out, cut)

(* The path of samples, longer by a position.                              *)
LEMMA SamplesGrow ==
  ASSUME NEW f, NEW k \in Nat, NEW S \in SUBSET Nat, NEW upto, Samples(f, S, k, upto), Passable(f, k),
         Step(f, k) \in Nat, Step(f, k) > k, Emitted(f, k) \in Seq(Byte)
  PROVE  \E T \in SUBSET Nat : \E more : /\ Samples(f, T, Step(f, k), more)
                                         /\ more[Step(f, k)] = upto[k] \o Emitted(f, k)
<1> DEFINE next == Step(f, k)
           T == S \cup {next}
           w == upto[k] \o Emitted(f, k)
           more == [ p \in T |-> IF p = next THEN w ELSE upto[p] ]
<1>1. /\ S \subseteq 1 .. k /\ 1 \in S /\ k \in S
      /\ \A p \in S \ {k} : Passable(f, p) /\ Step(f, p) \in S
      /\ upto \in [S -> Seq(Byte)] /\ upto[1] = <<>>
      /\ \A p \in S \ {k} : upto[Step(f, p)] = upto[p] \o Emitted(f, p)
  BY DEF Samples, Path
<1>2. w \in Seq(Byte)
  BY <1>1, ConcatProperties
<1>3. next \notin S /\ next \in Nat
  BY <1>1
<1>4. T \subseteq 1 .. next /\ T \in SUBSET Nat
  <2> HIDE DEF next
  <2>1. next > k /\ next >= 1
    BY <1>3 DEF next
  <2>2. \A p \in T : p \in 1 .. next
    BY <1>1, <1>3, <2>1
  <2>3. \A p \in T : p \in Nat
    BY <1>3
  <2> HIDE DEF T
  <2>4. QED
    BY <2>2, <2>3
<1>5. Path(f, T, next)
  BY <1>1 DEF Path
<1> HIDE DEF w
<1>6. more \in [T -> Seq(Byte)] /\ more[next] = w /\ \A p \in S : more[p] = upto[p]
  BY <1>1, <1>2, <1>3
<1> HIDE DEF more
<1>7. more[1] = <<>>
  BY <1>1, <1>6
<1>8. ASSUME NEW p \in T \ {next} PROVE more[Step(f, p)] = more[p] \o Emitted(f, p)
  <2>1. p \in S /\ more[p] = upto[p]
    BY <1>6
  <2>2. CASE p = k
    BY <1>6, <2>1, <2>2 DEF w
  <2>3. CASE p # k
    <3>1. Step(f, p) \in S
      BY <1>1, <2>1, <2>3
    <3>2. more[Step(f, p)] = upto[Step(f, p)]
      BY <1>6, <3>1
    <3>3. QED
      BY <1>1, <2>1, <2>3, <3>2
  <2>4. QED
    BY <2>2, <2>3
<1>9. Samples(f, T, next, more)
  BY <1>4, <1>5, <1>6, <1>7, <1>8 DEF Samples
<1>10. QED
  BY <1>4, <1>6, <1>9 DEF w

(* flush: the run becomes the last token's part of the sample.             *)
LEMMA FlushRenders ==
  ASSUME TokInv, NEW body \in Seq(Byte), WellFormed(body), NEW cut, Renders(lowered.tokens, body, cut)
  PROVE  /\ body \o literal \in Seq(Byte) /\ WellFormed(body \o literal)
         /\ \E more : Renders(Flushed(lowered.tokens), body \o literal, more)
<1>1. lowered.tokens \in Seq(Token) /\ literal \in Seq(Byte) /\ WellFormed(literal)
  BY DEF TokInv, TypeOK, TokensArePattern
<1>2. body \o literal \in Seq(Byte) /\ WellFormed(body \o literal)
  BY <1>1, ConcatWellFormed
<1>3. CASE literal = <<>>
  <2>1. body \o literal = body
    BY <1>3, ConcatEmptySeq
  <2>2. QED
    BY <1>2, <1>3, <2>1 DEF Flushed
<1>4. CASE literal # <<>>
  <2>1. LitTok(literal) \in Token /\ MadeFor(LitTok(literal), literal)
    BY <1>1, <1>4 DEF Token, LitTok, MadeFor
  <2>2. Renders(Append(lowered.tokens, LitTok(literal)), body \o literal,
                Append(cut, Len(body) + Len(literal)))
    BY <1>1, <2>1, RendersGrow
  <2>3. QED
    BY <1>2, <1>4, <2>2 DEF Flushed
<1>5. QED
  BY <1>3, <1>4

(* What is emitted at the position of either loop.                         *)
LEMMA EmittedAt ==
  ASSUME TokInv
  PROVE  /\ AtChar => Emitted(fmt, i) = Utf8[fmt[i]] /\ fmt[i] \in Char
         /\ AtPercent => Emitted(fmt, i) = Utf8["%"]
         /\ AtSpec => Emitted(fmt, i) = Canned(spec.conv) /\ spec.next > i /\ spec.next \in Nat
<1>1. fmt \in Seq(Char) /\ i \in 1 .. Len(fmt) + 1
  BY DEF TokInv, TypeOK
<1>2. AtPercent <=> EscapeAt(fmt, i)
  BY DEF AtPercent, EscapeAt
<1>3. AtSpec <=> SpecAt(fmt, i)
  BY <1>2 DEF AtSpec, SpecAt
<1>4. AtChar => ~SpecAt(fmt, i) /\ ~EscapeAt(fmt, i) /\ fmt[i] \in Char
  BY <1>1 DEF AtChar, SpecAt, EscapeAt
<1>5. AtPercent => ~SpecAt(fmt, i)
  BY <1>2 DEF SpecAt
<1>6. AtSpec => spec.next \in i + 2 .. Len(fmt) + 2
  <2> SUFFICES ASSUME AtSpec PROVE spec.next \in i + 2 .. Len(fmt) + 2
    OBVIOUS
  <2>1. i \in 1 .. Len(fmt)
    BY <1>1 DEF AtSpec
  <2>2. QED
    BY <1>1, <2>1, SpecInside DEF spec
<1>7. AtSpec => spec.next > i /\ spec.next \in Nat
  BY <1>1, <1>6
<1>8. QED
  BY <1>2, <1>3, <1>4, <1>5, <1>7 DEF Emitted, spec

(* A step of the first loop that goes on.                                  *)
LEMMA LowerSampled ==
  ASSUME TokInv, SampleInv, phase = "lower", Passable(fmt, i), i' = Step(fmt, i),
         Step(fmt, i) \in Nat, Step(fmt, i) > i, Emitted(fmt, i) \in Seq(Byte),
         UNCHANGED <<fmt, phase, out>>,
         \A body \in Seq(Byte) : \A cut : WellFormed(body) /\ Renders(lowered.tokens, body, cut) =>
           \E new, more : /\ new \in Seq(Byte) /\ WellFormed(new) /\ Renders(lowered'.tokens, new, more)
                          /\ (body \o literal) \o Emitted(fmt, i) = new \o literal'
  PROVE  SampleInv'
<1>1. PICK S \in SUBSET Nat : \E upto, body, cut :
         /\ Samples(fmt, S, i, upto)
         /\ body \in Seq(Byte) /\ WellFormed(body) /\ Renders(lowered.tokens, body, cut)
         /\ upto[i] = body \o literal
  BY DEF SampleInv
<1>2. PICK upto, body, cut :
         /\ Samples(fmt, S, i, upto)
         /\ body \in Seq(Byte) /\ WellFormed(body) /\ Renders(lowered.tokens, body, cut)
         /\ upto[i] = body \o literal
  BY <1>1
<1>3. i \in Nat
  BY DEF TokInv, TypeOK
<1>4. PICK T \in SUBSET Nat : \E longer : /\ Samples(fmt, T, Step(fmt, i), longer)
                                          /\ longer[Step(fmt, i)] = upto[i] \o Emitted(fmt, i)
  BY <1>2, <1>3, SamplesGrow
<1>5. PICK longer : /\ Samples(fmt, T, Step(fmt, i), longer)
                    /\ longer[Step(fmt, i)] = upto[i] \o Emitted(fmt, i)
  BY <1>4
<1>6. PICK new, more : /\ new \in Seq(Byte) /\ WellFormed(new) /\ Renders(lowered'.tokens, new, more)
                       /\ (body \o literal) \o Emitted(fmt, i) = new \o literal'
  BY <1>2
<1>7. longer[i'] = new \o literal' /\ Samples(fmt', T, i', longer)
  BY <1>2, <1>5, <1>6
<1>8. out' = <<>> /\ phase' = "lower"
  BY DEF SampleInv
<1>9. /\ Samples(fmt', T, i', longer)
      /\ new \in Seq(Byte) /\ WellFormed(new) /\ Renders(lowered'.tokens, new, more)
      /\ longer[i'] = new \o literal'
  BY <1>6, <1>7
<1>10. \E U \in SUBSET Nat : \E upto2, body2, cut2 :
         /\ Samples(fmt', U, i', upto2)
         /\ body2 \in Seq(Byte) /\ WellFormed(body2) /\ Renders(lowered'.tokens, body2, cut2)
         /\ upto2[i'] = body2 \o literal'
  BY <1>9
<1>11. QED
  BY <1>8, <1>10 DEF SampleInv

LEMMA InitSamples == Init => SampleInv
<1> SUFFICES ASSUME Init PROVE SampleInv
  OBVIOUS
<1>1. phase = "lower" /\ out = <<>> /\ i = 1 /\ literal = <<>> /\ lowered.tokens = <<>>
  BY DEF Init
<1> DEFINE upto == [ k \in {1} |-> <<>> ]
<1>2. <<>> \in Seq(Byte) /\ WellFormed(<<>>) /\ <<>> \o <<>> = <<>> /\ Len(<<>>) = 0
  BY DEF WellFormed
<1>3. Samples(fmt, {1}, 1, upto)
  BY <1>2 DEF Samples, Path
<1>4. upto[1] = <<>> \o <<>>
  BY <1>2
<1>5. Renders(<<>>, <<>>, <<0>>)
  <2>1. <<0>> \in Seq(0 .. 0) /\ Len(<<0>>) = 1 /\ <<0>>[1] = 0
    OBVIOUS
  <2>2. Boundary(<<>>, 0)
    BY <1>2 DEF Boundary
  <2>3. QED
    BY <1>2, <2>1, <2>2 DEF Renders
<1> HIDE DEF upto
<1>6. {1} \in SUBSET Nat
  OBVIOUS
<1>7. QED
  BY <1>1, <1>2, <1>3, <1>4, <1>5, <1>6 DEF SampleInv

(* A char, or an escaped %, lengthens the run and the sample alike.        *)
LEMMA LowerTextSampled ==
  ASSUME TokInv, SampleInv, Lowering, NEW c \in Char, NEW width \in {1, 2}, LowerText(c, width),
         Passable(fmt, i), Step(fmt, i) = i + width, Emitted(fmt, i) = Utf8[c]
  PROVE  SampleInv'
<1>1. /\ i' = i + width /\ literal' = literal \o Utf8[c] /\ lowered'.tokens = lowered.tokens
      /\ UNCHANGED <<fmt, phase, out>> /\ phase = "lower"
  <2>1. lowered' = [lowered EXCEPT !.literal_len = @ + 1]
    BY DEF LowerText
  <2>2. lowered'.tokens = lowered.tokens
    BY <2>1 DEF TokInv, TypeOK
  <2>3. QED
    BY <2>2 DEF LowerText, Lowering
<1>2. i \in Nat /\ literal \in Seq(Byte) /\ Utf8[c] \in Seq(Byte)
  BY LoweringAssumption DEF TokInv, TypeOK
<1>3. ASSUME NEW body \in Seq(Byte), NEW cut, WellFormed(body), Renders(lowered.tokens, body, cut)
      PROVE  \E new, more :
               /\ new \in Seq(Byte) /\ WellFormed(new) /\ Renders(lowered'.tokens, new, more)
               /\ (body \o literal) \o Emitted(fmt, i) = new \o literal'
  <2>1. (body \o literal) \o Utf8[c] = body \o (literal \o Utf8[c])
    <3> DEFINE u == Utf8[c]
    <3>1. body \in Seq(Byte) /\ literal \in Seq(Byte) /\ u \in Seq(Byte)
      BY <1>2
    <3> HIDE DEF u
    <3>2. (body \o literal) \o u = body \o (literal \o u)
      BY <3>1, ConcatAssociative
    <3>3. QED
      BY <3>2 DEF u
  <2>2. QED
    BY <1>1, <1>3, <2>1
<1>4. Step(fmt, i) \in Nat /\ Step(fmt, i) > i
  BY <1>2
<1>5. QED
  BY <1>1, <1>2, <1>3, <1>4, LowerSampled

(* A spec ends the run; its canned value is the token's part.              *)
LEMMA LowerSpecSampled ==
  ASSUME TokInv, SampleInv, LowerSpec
  PROVE  SampleInv'
<1> DEFINE kind == conversion_kind(spec.conv)
           toks == Flushed(lowered.tokens)
           w == Canned(spec.conv)
<1>1. AtSpec /\ kind \in Kind /\ phase = "lower" /\ UNCHANGED <<fmt, phase, out>>
      /\ i' = spec.next /\ literal' = <<>>
  BY DEF LowerSpec, Lowering
<1>2. lowered'.tokens = Append(toks, SpecTok(kind))
  BY DEF LowerSpec, TokInv, TypeOK
<1>3. SpecTok(kind) \in Token /\ SpecTok(kind).kind = kind /\ kind # "Lit"
  BY <1>1 DEF SpecTok, Token, Kind
<1>4. Passable(fmt, i) /\ Step(fmt, i) = spec.next /\ Emitted(fmt, i) = w
      /\ spec.next > i /\ spec.next \in Nat /\ w # NoSample
  <2>1. kind # "Unknown"
    BY <1>1 DEF Kind
  <2>2. QED
    BY <1>1, <2>1, WhatIsAt, EmittedAt
<1>5. w \in Seq(Byte) /\ WellFormed(w) /\ MadeFor(SpecTok(kind), w)
  <2>1. w \in Seq(Byte) /\ WellFormed(w) /\ Fits(kind, w)
    BY <1>1, <1>4, CannedFits
  <2>2. QED
    BY <1>3, <2>1 DEF MadeFor
<1>6. toks \in Seq(Token)
  BY <1>1, FlushedIsPattern
<1> HIDE DEF toks, w, kind
<1>7. ASSUME NEW body \in Seq(Byte), NEW cut, WellFormed(body), Renders(lowered.tokens, body, cut)
      PROVE  \E new, more :
               /\ new \in Seq(Byte) /\ WellFormed(new) /\ Renders(lowered'.tokens, new, more)
               /\ (body \o literal) \o Emitted(fmt, i) = new \o literal'
  <2> DEFINE start == body \o literal
  <2>1. start \in Seq(Byte) /\ WellFormed(start) /\ \E c : Renders(toks, start, c)
    BY <1>7, FlushRenders DEF toks
  <2> HIDE DEF start
  <2>2. PICK c : Renders(toks, start, c)
    BY <2>1
  <2>3. Renders(Append(toks, SpecTok(kind)), start \o w, Append(c, Len(start) + Len(w)))
    BY <1>3, <1>5, <1>6, <2>1, <2>2, RendersGrow
  <2>4. start \o w \in Seq(Byte) /\ WellFormed(start \o w)
    BY <1>5, <2>1, ConcatWellFormed
  <2>5. (start \o w) \o literal' = start \o w
    BY <1>1, <2>4, ConcatEmptySeq
  <2>6. QED
    BY <1>2, <1>4, <2>3, <2>4, <2>5 DEF start
<1>8. QED
  BY <1>1, <1>4, <1>5, <1>7, LowerSampled

LEMMA NextSamples ==
  ASSUME TokInv, LoopsInv, LoopsInv', SampleInv, [Next]_vars
  PROVE  SampleInv'
<1>1. fmt \in Seq(Char) /\ i \in 1 .. Len(fmt) + 1
  BY DEF TokInv, TypeOK
<1>2. CASE LowerChar
  <2>1. AtChar /\ Lowering /\ LowerText(fmt[i], 1)
    BY <1>2 DEF LowerChar
  <2>2. QED
    BY <2>1, WhatIsAt, EmittedAt, LowerTextSampled
<1>3. CASE LowerPercent
  <2>1. AtPercent /\ Lowering /\ LowerText("%", 2) /\ "%" \in Char
    BY <1>3, LoweringAssumption DEF LowerPercent
  <2>2. QED
    BY <2>1, WhatIsAt, EmittedAt, LowerTextSampled
<1>4. CASE LowerSpec
  BY <1>4, LowerSpecSampled
<1>5. CASE LowerNothing
  <2>1. AtSpec /\ conversion_kind(spec.conv) = "None" /\ phase = "lower" /\ i' = spec.next
        /\ UNCHANGED <<fmt, phase, out, literal, lowered>>
    BY <1>5 DEF LowerNothing, Lowering
  <2>2. Passable(fmt, i) /\ Step(fmt, i) = spec.next /\ Emitted(fmt, i) = Canned(spec.conv)
        /\ spec.next > i /\ spec.next \in Nat /\ Canned(spec.conv) # NoSample
    BY <2>1, WhatIsAt, EmittedAt
  <2>3. Emitted(fmt, i) = <<>>
    BY <2>1, <2>2, CannedFits
  <2>4. <<>> \in Seq(Byte)
    OBVIOUS
  <2>5. ASSUME NEW body \in Seq(Byte), NEW cut, WellFormed(body), Renders(lowered.tokens, body, cut)
        PROVE  \E new, more :
                 /\ new \in Seq(Byte) /\ WellFormed(new) /\ Renders(lowered'.tokens, new, more)
                 /\ (body \o literal) \o Emitted(fmt, i) = new \o literal'
    <3>1. body \o literal \in Seq(Byte)
      BY <2>5, FlushRenders
    <3>2. (body \o literal) \o <<>> = body \o literal
      BY <3>1, ConcatEmptySeq
    <3>3. QED
      BY <2>1, <2>3, <2>5, <3>2
  <2>6. QED
    BY <2>1, <2>2, <2>3, <2>4, <2>5, LowerSampled
<1>6. CASE LowerFails
  <2>1. phase' = "render" /\ verdict' # "ok"
    BY <1>6 DEF LowerFails
  <2>2. QED
    BY <2>1 DEF SampleInv
<1>7. CASE LowerEnds
  <2>1. /\ phase = "lower" /\ i > Len(fmt) /\ phase' = "render" /\ i' = 1 /\ UNCHANGED <<fmt, out>>
        /\ lowered'.tokens = Flushed(lowered.tokens)
    BY <1>7 DEF LowerEnds, Lowering, TokInv, TypeOK
  <2>2. PICK S \in SUBSET Nat : \E upto, body, cut :
           /\ Samples(fmt, S, i, upto)
           /\ body \in Seq(Byte) /\ WellFormed(body) /\ Renders(lowered.tokens, body, cut)
           /\ upto[i] = body \o literal
    BY <2>1 DEF SampleInv
  <2>3. PICK upto, body, cut :
           /\ Samples(fmt, S, i, upto)
           /\ body \in Seq(Byte) /\ WellFormed(body) /\ Renders(lowered.tokens, body, cut)
           /\ upto[i] = body \o literal
    BY <2>2
  <2>4. PICK more : Renders(Flushed(lowered.tokens), body \o literal, more)
    BY <2>3, FlushRenders
  <2>5. ~Passable(fmt, i) /\ i \in Nat /\ out = <<>>
    BY <1>1, <2>1 DEF Passable, SampleInv
  <2>6. 1 \in S /\ upto[1] = <<>>
    BY <2>3 DEF Samples, Path
  <2>7. Samples(fmt', S, i, upto) /\ ~Passable(fmt', i) /\ i' \in S /\ out' = upto[i']
        /\ Renders(lowered'.tokens, upto[i], more)
    BY <2>1, <2>3, <2>4, <2>5, <2>6
  <2>8. QED
    BY <2>1, <2>5, <2>7 DEF SampleInv
<1>8. ASSUME Rendering, Passable(fmt, i), i' = Step(fmt, i), out' = out \o Emitted(fmt, i),
             UNCHANGED phase
      PROVE  SampleInv'
  <2>1. phase = "render" /\ phase' = "render" /\ UNCHANGED <<fmt, verdict, lowered>>
    BY <1>8 DEF Rendering
  <2>2. SUFFICES ASSUME verdict = "ok"
                 PROVE  \E S \in SUBSET Nat, last \in Nat : \E upto, cut :
                          /\ Samples(fmt', S, last, upto) /\ ~Passable(fmt', last) /\ i' \in S
                          /\ out' = upto[i'] /\ Renders(lowered'.tokens, upto[last], cut)
    BY <2>1 DEF SampleInv
  <2>3. PICK S \in SUBSET Nat, last \in Nat : \E upto, cut :
          /\ Samples(fmt, S, last, upto) /\ ~Passable(fmt, last) /\ i \in S /\ out = upto[i]
          /\ Renders(lowered.tokens, upto[last], cut)
    BY <2>1, <2>2 DEF SampleInv
  <2>4. PICK upto, cut :
          /\ Samples(fmt, S, last, upto) /\ ~Passable(fmt, last) /\ i \in S /\ out = upto[i]
          /\ Renders(lowered.tokens, upto[last], cut)
    BY <2>3
  <2>5. i \in S \ {last}
    BY <1>8, <2>4
  <2>6. Step(fmt, i) \in S /\ upto[Step(fmt, i)] = upto[i] \o Emitted(fmt, i)
    BY <2>4, <2>5 DEF Samples, Path
  <2>7. QED
    BY <1>8, <2>1, <2>4, <2>6
<1>9. CASE RenderChar
  <2>1. AtChar /\ Rendering /\ out' = out \o Utf8[fmt[i]] /\ i' = i + 1 /\ UNCHANGED phase
    BY <1>9 DEF RenderChar, Emit
  <2>2. QED
    BY <1>8, <2>1, WhatIsAt, EmittedAt
<1>10. CASE RenderPercent
  <2>1. AtPercent /\ Rendering /\ out' = out \o Utf8["%"] /\ i' = i + 2 /\ UNCHANGED phase
    BY <1>10 DEF RenderPercent, Emit
  <2>2. QED
    BY <1>8, <2>1, WhatIsAt, EmittedAt
<1>11. CASE RenderSpec
  <2>1. AtSpec /\ Canned(spec.conv) # NoSample /\ Rendering /\ out' = out \o Canned(spec.conv)
        /\ i' = spec.next /\ UNCHANGED phase
    BY <1>11 DEF RenderSpec, Emit
  <2>2. QED
    BY <1>8, <2>1, WhatIsAt, EmittedAt
<1>12. CASE RenderFails
  <2>1. phase' = "done" /\ rendered' = FALSE
    BY <1>12 DEF RenderFails
  <2>2. verdict' # "ok"
    BY <2>1 DEF LoopsInv, VerdictsAgree
  <2>3. QED
    BY <2>1, <2>2 DEF SampleInv
<1>13. CASE RenderEnds
  <2>1. phase = "render" /\ phase' = "done" /\ i > Len(fmt) /\ UNCHANGED <<out, verdict, lowered>>
    BY <1>13 DEF RenderEnds, Rendering
  <2>2. SUFFICES ASSUME verdict = "ok" PROVE \E cut : Renders(lowered'.tokens, out', cut)
    BY <2>1 DEF SampleInv
  <2>3. PICK S \in SUBSET Nat, last \in Nat : \E upto, cut :
          /\ Samples(fmt, S, last, upto) /\ ~Passable(fmt, last) /\ i \in S /\ out = upto[i]
          /\ Renders(lowered.tokens, upto[last], cut)
    BY <2>1, <2>2 DEF SampleInv
  <2>4. ~Passable(fmt, i)
    BY <1>1, <2>1 DEF Passable
  <2>5. i = last
    BY <2>3, <2>4 DEF Samples, Path
  <2>6. QED
    BY <2>1, <2>3, <2>5
<1>14. CASE UNCHANGED vars
  BY <1>14 DEF vars, SampleInv
<1>15. QED
  BY <1>2, <1>3, <1>4, <1>5, <1>6, <1>7, <1>9, <1>10, <1>11, <1>12, <1>13, <1>14
  DEF Next, lower_format, render_sample

(* Whatever the format, if lower_format accepts it, the sample of it is a  *)
(* line that its own pattern matches: render_sample is "the inverse of     *)
(* lower_format" (scan.rs:344).                                            *)
THEOREM SamplesResolve == Spec => []SampleResolves
<1>1. TokInv /\ LoopsInv /\ SampleInv /\ [Next]_vars => (TokInv /\ LoopsInv /\ SampleInv)'
  BY NextTok, NextLoops, NextSamples
<1>2. ASSUME TokInv, LoopsInv, SampleInv PROVE SampleResolves
  <2> SUFFICES ASSUME phase = "done", verdict = "ok"
               PROVE  rendered /\ Captures(lowered.tokens, out) # NoMatch
    BY DEF SampleResolves
  <2>1. rendered
    BY <1>2 DEF LoopsInv, VerdictsAgree
  <2>2. PICK cut : Renders(lowered.tokens, out, cut)
    BY <1>2 DEF SampleInv
  <2>3. lowered.tokens \in Seq(Token) /\ out \in Seq(Byte)
    BY <1>2 DEF TokInv, TypeOK
  <2>4. QED
    BY <2>1, <2>2, <2>3, RenderedIsCaptured
<1>3. QED
  BY <1>1, <1>2, InitTok, InitLoops, InitSamples, PTL DEF Spec
-----------------------------------------------------------------------------
(* Formats as they are meant.                                              *)

(* A run ends where the first char of another kind stands.                 *)
LEMMA RunEnds ==
  ASSUME NEW f \in Seq(Char), NEW k \in 1 .. Len(f) + 1, NEW e \in k .. Len(f) + 1, NEW C,
         \A j \in k .. e - 1 : f[j] \in C, CharAt(f, e) \notin C
  PROVE  PastRun(f, k, C) = e
<1> DEFINE S == { x \in k .. Len(f) + 1 : CharAt(f, x) \notin C }
<1>1. S \in SUBSET Nat /\ e \in S
  OBVIOUS
<1>2. Least(S) \in S /\ Least(S) <= e
  <2> HIDE DEF S
  <2>1. QED
    BY <1>1, LeastIsSmallest
<1>3. Least(S) \notin k .. e - 1
  BY <1>2 DEF CharAt
<1>4. QED
  BY <1>2, <1>3 DEF PastRun

(* A run does not pass a char of another kind.                             *)
LEMMA RunStops ==
  ASSUME NEW f \in Seq(Char), NEW k \in 1 .. Len(f) + 1, NEW e \in k .. Len(f) + 1, NEW C,
         CharAt(f, e) \notin C
  PROVE  PastRun(f, k, C) \in k .. e
<1> DEFINE S == { x \in k .. Len(f) + 1 : CharAt(f, x) \notin C }
<1>1. S \in SUBSET Nat /\ e \in S
  OBVIOUS
<1>2. Least(S) \in S /\ Least(S) <= e
  <2> HIDE DEF S
  <2>1. QED
    BY <1>1, LeastIsSmallest
<1>3. QED
  BY <1>2 DEF PastRun

(* What stands somewhere does so part by part.                             *)
LEMMA StandsApart ==
  ASSUME NEW C, NEW s \in Seq(C), NEW t \in Seq(C), NEW f, Len(f) \in Nat, NEW k \in Nat,
         Stands(s \o t, f, k)
  PROVE  Stands(s, f, k) /\ Stands(t, f, k + Len(s)) /\ Len(s \o t) = Len(s) + Len(t)
<1>1. /\ Len(s \o t) = Len(s) + Len(t) /\ Len(s) \in Nat /\ Len(t) \in Nat
      /\ \A j \in 1 .. Len(s) : (s \o t)[j] = s[j]
      /\ \A j \in 1 .. Len(t) : (s \o t)[Len(s) + j] = t[j]
  OBVIOUS
<1>2. Stands(s, f, k)
  BY <1>1 DEF Stands
<1>3. ASSUME NEW j \in 1 .. Len(t) PROVE f[k + Len(s) + j - 1] = t[j]
  <2>1. Len(s) + j \in 1 .. Len(s \o t) /\ k + (Len(s) + j) - 1 = k + Len(s) + j - 1
    BY <1>1
  <2>2. QED
    BY <1>1, <2>1 DEF Stands
<1>4. QED
  BY <1>1, <1>2, <1>3 DEF Stands

(* A width or a precision is read as it was written.                       *)
LEMMA NumberRead ==
  ASSUME NEW f \in Seq(Char), NEW s, NEW k \in 1 .. Len(f) + 1, IsNumber(s), Stands(s, f, k),
         CharAt(f, k + Len(s)) \notin DigitChar \cup {"*"}
  PROVE  consume_width(f, k) = k + Len(s)
<1>1. CASE s = <<"*">>
  BY <1>1 DEF consume_width, Stands, CharAt
<1>2. CASE s \in Seq(DigitChar)
  <2>1. Len(s) \in Nat /\ k + Len(s) \in k .. Len(f) + 1
    BY <1>2 DEF Stands
  <2>2. ASSUME NEW j \in k .. k + Len(s) - 1 PROVE f[j] \in DigitChar
    <3>1. PICK m \in 1 .. Len(s) : k + m - 1 = j
      <4>1. j - k + 1 \in 1 .. Len(s) /\ k + (j - k + 1) - 1 = j
        BY <2>1
      <4>2. QED
        BY <4>1
    <3>2. s[m] \in DigitChar /\ f[k + m - 1] = s[m]
      BY <1>2, <3>1 DEF Stands
    <3>3. QED
      BY <3>1, <3>2
  <2>3. PastRun(f, k, DigitChar) = k + Len(s)
    BY <2>1, <2>2, RunEnds
  <2>4. CharAt(f, k) # "*"
    <3>1. CASE Len(s) = 0
      BY <3>1
    <3>2. CASE Len(s) # 0
      <4>1. k \in k .. k + Len(s) - 1 /\ k <= Len(f)
        <5>1. PICK m \in Nat : m = Len(s)
          BY <2>1
        <5>2. m >= 1 /\ k + m <= Len(f) + 1 /\ k \in Nat /\ Len(f) \in Nat
          BY <2>1, <3>2, <5>1
        <5>3. k \in k .. k + m - 1 /\ k <= Len(f)
          BY <5>2
        <5>4. QED
          BY <5>1, <5>3
      <4>3. f[k] \in DigitChar
        BY <2>2, <4>1
      <4>2. QED
        BY <4>1, <4>3 DEF CharAt, DigitChar
    <3>3. QED
      BY <3>1, <3>2
  <2>5. QED
    BY <2>3, <2>4 DEF consume_width
<1>3. CASE s = <<>>
  <2>1. s \in Seq(DigitChar)
    BY <1>3
  <2>2. QED
    BY <1>2, <2>1
<1>4. QED
  BY <1>1, <1>2, <1>3 DEF IsNumber

LEMMA Wider ==
  ASSUME NEW S, NEW T, S \subseteq T, NEW s \in Seq(S)
  PROVE  s \in Seq(T)
OBVIOUS

(* Seven parts, one behind the other.                                      *)
InTurn(r, s, t, u, v, w, x, f, k) ==
  LET a1 == k + Len(r)  a2 == a1 + Len(s)  a3 == a2 + Len(t)
      a4 == a3 + Len(u)  a5 == a4 + Len(v)  a6 == a5 + Len(w)
  IN /\ Stands(r, f, k) /\ Stands(s, f, a1) /\ Stands(t, f, a2) /\ Stands(u, f, a3)
     /\ Stands(v, f, a4) /\ Stands(w, f, a5) /\ Stands(x, f, a6)
     /\ k + Len(r \o s \o t \o u \o v \o w \o x) = a6 + Len(x)

LEMMA SevenParts ==
  ASSUME NEW C, NEW f, Len(f) \in Nat, NEW k \in Nat, NEW r \in Seq(C), NEW s \in Seq(C),
         NEW t \in Seq(C), NEW u \in Seq(C), NEW v \in Seq(C), NEW w \in Seq(C), NEW x \in Seq(C),
         Stands(r \o s \o t \o u \o v \o w \o x, f, k)
  PROVE  InTurn(r, s, t, u, v, w, x, f, k)
<1>1. PICK y2 : y2 = r \o s
  OBVIOUS
<1>2. PICK y3 : y3 = y2 \o t
  OBVIOUS
<1>3. PICK y4 : y4 = y3 \o u
  OBVIOUS
<1>4. PICK y5 : y5 = y4 \o v
  OBVIOUS
<1>5. PICK y6 : y6 = y5 \o w
  OBVIOUS
<1>6. ASSUME NEW p \in Seq(C), NEW q \in Seq(C)
      PROVE  p \o q \in Seq(C) /\ Len(p \o q) = Len(p) + Len(q) /\ Len(p) \in Nat
  OBVIOUS
<1>7. y2 \in Seq(C) /\ Len(y2) = Len(r) + Len(s)
  BY <1>1, <1>6
<1>8. y3 \in Seq(C) /\ Len(y3) = Len(y2) + Len(t)
  BY <1>2, <1>6, <1>7
<1>9. y4 \in Seq(C) /\ Len(y4) = Len(y3) + Len(u)
  BY <1>3, <1>6, <1>8
<1>10. y5 \in Seq(C) /\ Len(y5) = Len(y4) + Len(v)
  BY <1>4, <1>6, <1>9
<1>11. y6 \in Seq(C) /\ Len(y6) = Len(y5) + Len(w)
  BY <1>5, <1>6, <1>10
<1>12. Stands(y6 \o x, f, k) /\ r \o s \o t \o u \o v \o w \o x = y6 \o x
  BY <1>1, <1>2, <1>3, <1>4, <1>5
<1>13. Stands(y6, f, k) /\ Stands(x, f, k + Len(y6)) /\ Len(y6 \o x) = Len(y6) + Len(x)
  BY <1>11, <1>12, StandsApart
<1>14. Stands(y5, f, k) /\ Stands(w, f, k + Len(y5))
  BY <1>5, <1>10, <1>13, StandsApart
<1>15. Stands(y4, f, k) /\ Stands(v, f, k + Len(y4))
  BY <1>4, <1>9, <1>14, StandsApart
<1>16. Stands(y3, f, k) /\ Stands(u, f, k + Len(y3))
  BY <1>3, <1>8, <1>15, StandsApart
<1>17. Stands(y2, f, k) /\ Stands(t, f, k + Len(y2))
  BY <1>2, <1>7, <1>16, StandsApart
<1>18. Stands(r, f, k) /\ Stands(s, f, k + Len(r))
  BY <1>1, <1>17, StandsApart
<1>19. /\ Len(r) \in Nat /\ Len(s) \in Nat /\ Len(t) \in Nat /\ Len(u) \in Nat
       /\ Len(v) \in Nat /\ Len(w) \in Nat /\ Len(x) \in Nat
  BY <1>6
<1> DEFINE a1 == k + Len(r)
           a2 == a1 + Len(s)
           a3 == a2 + Len(t)
           a4 == a3 + Len(u)
           a5 == a4 + Len(v)
           a6 == a5 + Len(w)
<1>20. a1 \in Nat
  BY <1>19
<1> HIDE DEF a1
<1> HIDE DEF a2
<1> HIDE DEF a3
<1> HIDE DEF a4
<1> HIDE DEF a5
<1> HIDE DEF a6
<1>21. k + Len(y2) = a2 /\ a2 \in Nat
  <2>1. PICK m \in Nat, n \in Nat : m = Len(r) /\ n = Len(s)
    BY <1>19
  <2>2. a1 = k + m /\ a2 = a1 + n
    BY <2>1 DEF a1, a2
  <2>3. k + (m + n) = a1 + n /\ a1 + n \in Nat
    BY <1>20, <2>2
  <2>4. QED
    BY <1>7, <2>1, <2>2, <2>3
<1>22. k + Len(y3) = a3 /\ a3 \in Nat
  <2>1. Len(y2) \in Nat
    BY <1>6, <1>7
  <2>2. PICK m \in Nat, n \in Nat : m = Len(y2) /\ n = Len(t)
    BY <1>19, <2>1
  <2>3. k + m = a2 /\ Len(y3) = m + n /\ a3 = a2 + n
    BY <1>8, <1>21, <2>2 DEF a3
  <2>4. k + (m + n) = a2 + n /\ a2 + n \in Nat
    BY <1>21, <2>3
  <2>5. QED
    BY <2>3, <2>4
<1>23. k + Len(y4) = a4 /\ a4 \in Nat
  <2>1. Len(y3) \in Nat
    BY <1>6, <1>8
  <2>2. PICK m \in Nat, n \in Nat : m = Len(y3) /\ n = Len(u)
    BY <1>19, <2>1
  <2>3. k + m = a3 /\ Len(y4) = m + n /\ a4 = a3 + n
    BY <1>9, <1>22, <2>2 DEF a4
  <2>4. k + (m + n) = a3 + n /\ a3 + n \in Nat
    BY <1>22, <2>3
  <2>5. QED
    BY <2>3, <2>4
<1>24. k + Len(y5) = a5 /\ a5 \in Nat
  <2>1. Len(y4) \in Nat
    BY <1>6, <1>9
  <2>2. PICK m \in Nat, n \in Nat : m = Len(y4) /\ n = Len(v)
    BY <1>19, <2>1
  <2>3. k + m = a4 /\ Len(y5) = m + n /\ a5 = a4 + n
    BY <1>10, <1>23, <2>2 DEF a5
  <2>4. k + (m + n) = a4 + n /\ a4 + n \in Nat
    BY <1>23, <2>3
  <2>5. QED
    BY <2>3, <2>4
<1>25. k + Len(y6) = a6 /\ a6 \in Nat
  <2>1. Len(y5) \in Nat
    BY <1>6, <1>10
  <2>2. PICK m \in Nat, n \in Nat : m = Len(y5) /\ n = Len(w)
    BY <1>19, <2>1
  <2>3. k + m = a5 /\ Len(y6) = m + n /\ a6 = a5 + n
    BY <1>11, <1>24, <2>2 DEF a6
  <2>4. k + (m + n) = a5 + n /\ a5 + n \in Nat
    BY <1>24, <2>3
  <2>5. QED
    BY <2>3, <2>4
<1>26. k + Len(y6 \o x) = a6 + Len(x)
  <2>1. Len(y6) \in Nat
    BY <1>6, <1>11
  <2>2. PICK m \in Nat, n \in Nat : m = Len(y6) /\ n = Len(x)
    BY <1>19, <2>1
  <2>3. k + m = a6 /\ Len(y6 \o x) = m + n
    BY <1>13, <1>25, <2>2
  <2>4. k + (m + n) = a6 + n
    BY <1>25, <2>3
  <2>5. QED
    BY <2>2, <2>3, <2>4
<1>27. /\ Stands(s, f, a1) /\ Stands(t, f, a2) /\ Stands(u, f, a3)
       /\ Stands(v, f, a4) /\ Stands(w, f, a5) /\ Stands(x, f, a6)
  BY <1>13, <1>14, <1>15, <1>16, <1>17, <1>18, <1>21, <1>22, <1>23, <1>24, <1>25 DEF a1
<1>28. QED
  BY <1>12, <1>18, <1>26, <1>27 DEF InTurn, a1, a2, a3, a4, a5, a6

(* The chars a conversion is spelled with.                                 *)
FormatChar == DigitChar \cup FlagChar \cup LengthChar \cup Conversion \cup {"%", "*", ".", "$"}

LEMMA PartsAreTexts ==
  ASSUME NEW p, IsConversion(p)
  PROVE  /\ p.pos \in Seq(FormatChar) /\ p.flags \in Seq(FormatChar) /\ p.width \in Seq(FormatChar)
         /\ p.prec \in Seq(FormatChar) /\ p.len \in Seq(FormatChar) /\ <<p.conv>> \in Seq(FormatChar)
         /\ <<"%">> \in Seq(FormatChar)
<1>1. /\ p.pos \in Seq(FormatChar) /\ p.flags \in Seq(FormatChar) /\ p.width \in Seq(FormatChar) /\ p.prec \in Seq(FormatChar)
      /\ p.len \in Seq(FormatChar) /\ <<p.conv>> \in Seq(FormatChar)
  <2>1. p.pos \in Seq(FormatChar)
    <3>1. p.pos \in Seq(DigitChar \cup {"$"}) /\ DigitChar \cup {"$"} \subseteq FormatChar
      BY DEF IsConversion, FormatChar
    <3>2. QED
      BY <3>1, Wider
  <2>2. p.flags \in Seq(FormatChar)
    <3>1. p.flags \in Seq(FlagChar) /\ FlagChar \subseteq FormatChar
      BY DEF IsConversion, FormatChar
    <3>2. QED
      BY <3>1, Wider
  <2>3. p.width \in Seq(FormatChar)
    <3>1. CASE p.width \in Seq(DigitChar)
      <4>1. DigitChar \subseteq FormatChar
        BY DEF FormatChar
      <4>2. QED
        BY <3>1, <4>1, Wider
    <3>2. CASE p.width \in {<<>>, <<"*">>}
      <4>1. "*" \in FormatChar
        BY DEF FormatChar
      <4>2. <<>> \in Seq(FormatChar) /\ <<"*">> \in Seq(FormatChar)
        BY <4>1
      <4>3. QED
        BY <3>2, <4>2
    <3>3. QED
      BY <3>1, <3>2 DEF IsConversion, IsNumber
  <2>4. p.prec \in Seq(FormatChar)
    <3>1. p.prec \in Seq(DigitChar \cup {".", "*"}) /\ DigitChar \cup {".", "*"} \subseteq FormatChar
      BY DEF IsConversion, FormatChar
    <3>2. QED
      BY <3>1, Wider
  <2>5. p.len \in Seq(FormatChar)
    <3>1. LengthChar \subseteq FormatChar /\ "h" \in FormatChar /\ "l" \in FormatChar
      BY DEF LengthChar, FormatChar
    <3>2. p.len \in {<<>>, <<"h", "h">>, <<"l", "l">>} \cup { <<c>> : c \in LengthChar }
      BY DEF IsConversion
    <3>3. <<>> \in Seq(FormatChar) /\ <<"h", "h">> \in Seq(FormatChar) /\ <<"l", "l">> \in Seq(FormatChar)
      BY <3>1
    <3>4. \A c \in LengthChar : <<c>> \in Seq(FormatChar)
      BY <3>1
    <3>5. QED
      BY <3>2, <3>3, <3>4
  <2>6. <<p.conv>> \in Seq(FormatChar)
    <3>1. p.conv \in FormatChar
      BY DEF IsConversion, FormatChar
    <3>2. QED
      BY <3>1
  <2>7. QED
    BY <2>1, <2>2, <2>3, <2>4, <2>5, <2>6
<1>2. <<"%">> \in Seq(FormatChar)
  <2>1. "%" \in FormatChar
    BY DEF FormatChar
  <2> HIDE DEF FormatChar
  <2>2. QED
    BY <2>1
<1> HIDE DEF FormatChar
<1>3. QED
  BY <1>1, <1>2

(* The parts of a conversion, where they stand.                            *)
LEMMA PartsStand ==
  ASSUME NEW f \in Seq(Char), NEW k \in 1 .. Len(f), NEW p, IsConversion(p), ~IsText(p),
         Stands(Spelling(p), f, k)
  PROVE  LET a1 == k + 1 + Len(p.pos)  a2 == a1 + Len(p.flags)  a3 == a2 + Len(p.width)
             a4 == a3 + Len(p.prec)  a5 == a4 + Len(p.len)
         IN /\ f[k] = "%" /\ Stands(p.pos, f, k + 1) /\ Stands(p.flags, f, a1)
            /\ Stands(p.width, f, a2) /\ Stands(p.prec, f, a3) /\ Stands(p.len, f, a4)
            /\ f[a5] = p.conv /\ a5 <= Len(f) /\ k + Len(Spelling(p)) = a5 + 1
            /\ Len(p.pos) \in Nat /\ Len(p.flags) \in Nat /\ Len(p.width) \in Nat
            /\ Len(p.prec) \in Nat /\ Len(p.len) \in Nat
<1> DEFINE C == FormatChar
<1>1. /\ p.pos \in Seq(C) /\ p.flags \in Seq(C) /\ p.width \in Seq(C) /\ p.prec \in Seq(C)
      /\ p.len \in Seq(C) /\ <<p.conv>> \in Seq(C) /\ <<"%">> \in Seq(C)
  BY PartsAreTexts
<1>2. Stands(<<"%">> \o p.pos \o p.flags \o p.width \o p.prec \o p.len \o <<p.conv>>, f, k)
  BY DEF Spelling
<1>3. k \in Nat /\ Len(f) \in Nat
  OBVIOUS
<1> HIDE DEF C
<1>4. PICK r \in Seq(C), s \in Seq(C), t \in Seq(C), u \in Seq(C), v \in Seq(C), w \in Seq(C), x \in Seq(C) :
        /\ r = <<"%">> /\ s = p.pos /\ t = p.flags /\ u = p.width /\ v = p.prec /\ w = p.len
        /\ x = <<p.conv>>
  BY <1>1
<1>5. Stands(r \o s \o t \o u \o v \o w \o x, f, k)
  BY <1>2, <1>4
<1>6. InTurn(r, s, t, u, v, w, x, f, k)
  BY <1>3, <1>5, SevenParts, Zenon
<1>7. Len(r) = 1 /\ Len(x) = 1 /\ r[1] = "%" /\ x[1] = p.conv
  BY <1>4
<1>8. /\ Len(s) \in Nat /\ Len(t) \in Nat /\ Len(u) \in Nat /\ Len(v) \in Nat /\ Len(w) \in Nat
  OBVIOUS
<1> DEFINE a1 == k + 1 + Len(s)
           a2 == a1 + Len(t)
           a3 == a2 + Len(u)
           a4 == a3 + Len(v)
           a5 == a4 + Len(w)
<1>9. /\ Stands(r, f, k) /\ Stands(s, f, k + 1) /\ Stands(t, f, a1) /\ Stands(u, f, a2)
      /\ Stands(v, f, a3) /\ Stands(w, f, a4) /\ Stands(x, f, a5)
      /\ k + Len(r \o s \o t \o u \o v \o w \o x) = a5 + 1
  BY <1>6, <1>7 DEF InTurn
<1>10. a5 \in Nat
  BY <1>3, <1>8
<1> HIDE DEF a1, a2, a3, a4, a5
<1>11. f[k] = "%"
  <2>1. f[k + 1 - 1] = r[1]
    BY <1>7, <1>9 DEF Stands
  <2>2. QED
    BY <1>3, <1>7, <2>1
<1>12. f[a5] = p.conv /\ a5 <= Len(f)
  <2>1. f[a5 + 1 - 1] = x[1] /\ a5 + 1 <= Len(f) + 1
    BY <1>7, <1>9 DEF Stands
  <2>2. QED
    BY <1>3, <1>7, <1>10, <2>1
<1>13. Spelling(p) = r \o s \o t \o u \o v \o w \o x
  BY <1>4 DEF Spelling
<1>14. QED
  BY <1>4, <1>8, <1>9, <1>11, <1>12, <1>13 DEF a1, a2, a3, a4, a5
(* The first char of a part, or of what follows an empty one.              *)
LEMMA HeadOf ==
  ASSUME NEW s, NEW f \in Seq(Char), NEW a \in Nat, Len(s) \in Nat, Stands(s, f, a), NEW S,
         s # <<>> => Len(s) > 0 /\ s[1] \in S, NEW T, a + Len(s) <= Len(f), f[a + Len(s)] \in T,
         s = <<>> => Len(s) = 0
  PROVE  f[a] \in S \cup T /\ a <= Len(f)
<1>1. CASE s = <<>>
  BY <1>1
<1>2. CASE s # <<>>
  <2>1. PICK m \in Nat : m = Len(s) /\ m > 0
    BY <1>2
  <2>2. f[a + 1 - 1] = s[1]
    BY <2>1 DEF Stands
  <2>3. QED
    BY <1>2, <2>1, <2>2
<1>3. QED
  BY <1>1, <1>2

(* A conversion is parsed as it is meant: nothing but its conversion char  *)
(* and its end are left of it.                                             *)
LEMMA SpelledSpec ==
  ASSUME NEW f \in Seq(Char), NEW k \in 1 .. Len(f), NEW p, IsConversion(p), ~IsText(p),
         Stands(Spelling(p), f, k)
  PROVE  /\ parse_spec(f, k).conv = p.conv /\ parse_spec(f, k).next = k + Len(Spelling(p))
         /\ f[k] = "%" /\ k + 1 <= Len(f) /\ f[k + 1] # "%"
<1> DEFINE a1 == k + 1 + Len(p.pos)
           a2 == a1 + Len(p.flags)
           a3 == a2 + Len(p.width)
           a4 == a3 + Len(p.prec)
           a5 == a4 + Len(p.len)
<1>1. /\ f[k] = "%" /\ Stands(p.pos, f, k + 1) /\ Stands(p.flags, f, a1)
      /\ Stands(p.width, f, a2) /\ Stands(p.prec, f, a3) /\ Stands(p.len, f, a4)
      /\ f[a5] = p.conv /\ a5 <= Len(f) /\ k + Len(Spelling(p)) = a5 + 1
  BY PartsStand
<1>2. /\ Len(p.pos) \in Nat /\ Len(p.flags) \in Nat /\ Len(p.width) \in Nat
      /\ Len(p.prec) \in Nat /\ Len(p.len) \in Nat
  BY PartsStand
<1>3. PICK n1 \in Nat, n2 \in Nat, n3 \in Nat, n4 \in Nat, n5 \in Nat :
        /\ n1 = Len(p.pos) /\ n2 = Len(p.flags) /\ n3 = Len(p.width) /\ n4 = Len(p.prec)
        /\ n5 = Len(p.len)
  BY <1>2
<1>4. /\ a1 = k + 1 + n1 /\ a2 = a1 + n2 /\ a3 = a2 + n3 /\ a4 = a3 + n4 /\ a5 = a4 + n5
  BY <1>3
<1> HIDE DEF a1, a2, a3, a4, a5
<1>5. /\ k \in Nat /\ k >= 1 /\ Len(f) \in Nat /\ a1 \in Nat /\ a2 \in Nat /\ a3 \in Nat
      /\ a4 \in Nat /\ a5 \in Nat /\ k + 1 <= a1 /\ a1 <= a2 /\ a2 <= a3 /\ a3 <= a4 /\ a4 <= a5
      /\ a5 <= Len(f)
  <2>1. k \in Nat /\ k >= 1 /\ Len(f) \in Nat
    OBVIOUS
  <2>2. QED
    BY <1>1, <1>4, <2>1
<1>6. PICK pos, flags, width, prec, len, conv :
        /\ pos = p.pos /\ flags = p.flags /\ width = p.width /\ prec = p.prec /\ len = p.len
        /\ conv = p.conv
  OBVIOUS
<1>7. /\ pos \in Seq(DigitChar \cup {"$"}) /\ (pos = <<>> \/ IsPosition(pos))
      /\ flags \in Seq(FlagChar) /\ IsNumber(width) /\ (width # <<>> => width[1] # "0")
      /\ prec \in Seq(DigitChar \cup {".", "*"})
      /\ prec # <<>> => prec[1] = "." /\ IsNumber(Tail(prec))
      /\ len \in {<<>>, <<"h", "h">>, <<"l", "l">>} \cup { <<c>> : c \in LengthChar }
      /\ conv \in Conversion
  BY <1>6 DEF IsConversion
<1>8. /\ Stands(pos, f, k + 1) /\ Stands(flags, f, a1) /\ Stands(width, f, a2)
      /\ Stands(prec, f, a3) /\ Stands(len, f, a4) /\ f[a5] = conv
      /\ Len(pos) = n1 /\ Len(flags) = n2 /\ Len(width) = n3 /\ Len(prec) = n4 /\ Len(len) = n5
  BY <1>1, <1>3, <1>6
<1> DEFINE H5 == Conversion
           H4 == LengthChar \cup H5
           H3 == {"."} \cup H4
           NonZero == DigitChar \ {"0"}
           H2 == (NonZero \cup {"*"}) \cup H3
           H1 == FlagChar \cup H2
<1>9. f[a4] \in H4
  <2>1. len # <<>> => Len(len) > 0 /\ len[1] \in LengthChar
    <3>1. "h" \in LengthChar /\ "l" \in LengthChar
      BY DEF LengthChar
    <3>2. ASSUME NEW c \in LengthChar PROVE Len(<<c>>) = 1 /\ <<c>>[1] = c
      OBVIOUS
    <3>3. Len(<<"h", "h">>) = 2 /\ Len(<<"l", "l">>) = 2 /\ <<"h", "h">>[1] = "h" /\ <<"l", "l">>[1] = "l"
      OBVIOUS
    <3>4. CASE \E c \in LengthChar : len = <<c>>
      BY <3>2, <3>4
    <3>5. CASE len \in {<<"h", "h">>, <<"l", "l">>}
      <4>1. Len(len) = 2 /\ (len[1] = "h" \/ len[1] = "l")
        BY <3>3, <3>5
      <4>2. QED
        BY <3>1, <4>1
    <3>6. QED
      BY <1>7, <3>4, <3>5
  <2>2. a4 + Len(len) = a5 /\ Len(len) \in Nat
    BY <1>4, <1>8
  <2>3. f[a4] \in LengthChar \cup Conversion
    <3>1. Len(<<>>) = 0
      OBVIOUS
    <3>2. QED
      BY <1>5, <1>7, <1>8, <2>1, <2>2, <3>1, HeadOf
  <2>4. QED
    BY <2>3
<1>10. f[a3] \in H3
  <2> HIDE DEF H4
  <2>1. prec # <<>> => Len(prec) > 0 /\ prec[1] \in {"."}
    BY <1>7
  <2>2. a3 + Len(prec) = a4 /\ Len(prec) \in Nat /\ a4 <= Len(f)
    BY <1>4, <1>5, <1>8
  <2>3. prec = <<>> => Len(prec) = 0
    OBVIOUS
  <2>4. f[a3] \in {"."} \cup H4
    BY <1>5, <1>8, <1>9, <2>1, <2>2, <2>3, HeadOf
  <2>5. QED
    BY <2>4
<1>11. f[a2] \in H2
  <2> HIDE DEF H3
  <2>1. width # <<>> => Len(width) > 0 /\ width[1] \in NonZero \cup {"*"}
    <3>1. CASE width \in {<<>>, <<"*">>}
      <4>1. CASE width = <<"*">>
        <5>1. Len(<<"*">>) = 1 /\ <<"*">>[1] = "*"
          OBVIOUS
        <5>2. Len(width) = 1 /\ width[1] = "*"
          BY <4>1, <5>1
        <5>3. QED
          BY <5>2
      <4>2. QED
        BY <3>1, <4>1
    <3>2. CASE width \in Seq(DigitChar)
      <4>1. width # <<>> => Len(width) > 0 /\ width[1] \in DigitChar
        BY <3>2
      <4>2. QED
        BY <1>7, <4>1
    <3>3. QED
      BY <1>7, <3>1, <3>2 DEF IsNumber
  <2>2. a2 + Len(width) = a3 /\ Len(width) \in Nat /\ a3 <= Len(f)
    BY <1>4, <1>5, <1>8
  <2>3. width = <<>> => Len(width) = 0
    OBVIOUS
  <2> HIDE DEF NonZero
  <2>4. f[a2] \in (NonZero \cup {"*"}) \cup H3
    BY <1>5, <1>8, <1>10, <2>1, <2>2, <2>3, HeadOf
  <2>5. QED
    BY <2>4
<1>12. f[a1] \in H1
  <2> HIDE DEF H2
  <2>1. flags # <<>> => Len(flags) > 0 /\ flags[1] \in FlagChar
    BY <1>7
  <2>2. a1 + Len(flags) = a2 /\ Len(flags) \in Nat /\ a2 <= Len(f)
    BY <1>4, <1>5, <1>8
  <2>3. flags = <<>> => Len(flags) = 0
    OBVIOUS
  <2>4. f[a1] \in FlagChar \cup H2
    BY <1>5, <1>8, <1>11, <2>1, <2>2, <2>3, HeadOf
  <2>5. QED
    BY <2>4
<1> HIDE DEF H5, H4, H3, NonZero, H2, H1
<1>13. \A a \in Nat : a <= Len(f) => CharAt(f, a) = f[a]
  BY DEF CharAt
<1>14. /\ CharAt(f, a1) = f[a1] /\ CharAt(f, a2) = f[a2] /\ CharAt(f, a3) = f[a3]
       /\ CharAt(f, a4) = f[a4] /\ CharAt(f, a5) = f[a5]
  BY <1>5, <1>13
<1> DEFINE digits == PastRun(f, k + 1, DigitChar)
           position == IF digits > k + 1 /\ CharAt(f, digits) = "$" THEN digits + 1 ELSE k + 1
           start == PastRun(f, position, FlagChar)
           past == consume_width(f, start)
           precision == IF CharAt(f, past) = "." THEN consume_width(f, past + 1) ELSE past
           length == CharAt(f, precision)
           last == IF length \in {"h", "l"} /\ CharAt(f, precision + 1) = length THEN precision + 2
                   ELSE IF length \in LengthChar THEN precision + 1 ELSE precision
<1>15. position = a1
  <2>1. CASE pos = <<>>
    <3>1. a1 = k + 1
      <4>1. Len(pos) = 0
        BY <2>1
      <4>2. QED
        BY <1>4, <1>5, <1>8, <4>1
    <3>2. digits \in k + 1 .. a5
      <4>1. CharAt(f, a5) \notin DigitChar
        BY <1>7, <1>8, <1>14 DEF Conversion, FloatConv, DigitChar
      <4>2. k + 1 \in 1 .. Len(f) + 1 /\ a5 \in k + 1 .. Len(f) + 1
        BY <1>5
      <4>3. QED
        BY <4>1, <4>2, RunStops
    <3>3. \A a \in k + 1 .. a5 : f[a] # "$"
      <4>1. ASSUME NEW a \in k + 1 .. a5 PROVE f[a] # "$"
        <5>1. a \in a1 .. a2 - 1 \/ a \in a2 .. a3 - 1 \/ a \in a3 .. a4 - 1 \/ a \in a4 .. a5 - 1 \/ a = a5
          BY <1>5, <3>1
        <5>2. ASSUME NEW S, NEW s \in Seq(S), NEW b \in Nat, Stands(s, f, b), NEW n \in Nat, n = Len(s),
                     a \in b .. b + n - 1
              PROVE  f[a] \in S
          <6>1. PICK m \in 1 .. n : b + m - 1 = a
            <7>1. a - b + 1 \in 1 .. n /\ b + (a - b + 1) - 1 = a
              BY <5>2
            <7>2. QED
              BY <7>1
          <6>2. f[b + m - 1] = s[m] /\ s[m] \in S
            BY <5>2, <6>1 DEF Stands
          <6>3. QED
            BY <6>1, <6>2
        <5>3. CASE a \in a1 .. a2 - 1
          <6>1. a \in a1 .. a1 + n2 - 1
            BY <1>4, <5>3
          <6>2. f[a] \in FlagChar
            BY <1>5, <1>7, <1>8, <5>2, <6>1
          <6>3. QED
            BY <6>2 DEF FlagChar
        <5>4. CASE a \in a2 .. a3 - 1
          <6>1. a \in a2 .. a2 + n3 - 1
            BY <1>4, <5>4
          <6>2. width \in Seq(DigitChar \cup {"*"})
            <7>1. CASE width \in {<<>>, <<"*">>}
              <8>1. <<>> \in Seq(DigitChar \cup {"*"}) /\ <<"*">> \in Seq(DigitChar \cup {"*"})
                OBVIOUS
              <8>2. QED
                BY <7>1, <8>1
            <7>2. CASE width \in Seq(DigitChar)
              BY <7>2, Wider
            <7>3. QED
              BY <1>7, <7>1, <7>2 DEF IsNumber
          <6>3. f[a] \in DigitChar \cup {"*"}
            BY <1>5, <1>8, <5>2, <6>1, <6>2
          <6>4. QED
            BY <6>3 DEF DigitChar
        <5>5. CASE a \in a3 .. a4 - 1
          <6>1. a \in a3 .. a3 + n4 - 1
            BY <1>4, <5>5
          <6>2. f[a] \in DigitChar \cup {".", "*"}
            BY <1>5, <1>7, <1>8, <5>2, <6>1
          <6>3. QED
            BY <6>2 DEF DigitChar
        <5>6. CASE a \in a4 .. a5 - 1
          <6>1. a \in a4 .. a4 + n5 - 1
            BY <1>4, <5>6
          <6>2. len \in Seq(LengthChar)
            <7>1. "h" \in LengthChar /\ "l" \in LengthChar
              BY DEF LengthChar
            <7>2. /\ <<>> \in Seq(LengthChar) /\ <<"h", "h">> \in Seq(LengthChar)
                  /\ <<"l", "l">> \in Seq(LengthChar) /\ \A c \in LengthChar : <<c>> \in Seq(LengthChar)
              BY <7>1
            <7>3. QED
              BY <1>7, <7>2
          <6>3. f[a] \in LengthChar
            BY <1>5, <1>8, <5>2, <6>1, <6>2
          <6>4. QED
            BY <6>3 DEF LengthChar
        <5>7. CASE a = a5
          BY <1>7, <1>8, <5>7 DEF Conversion, FloatConv
        <5>8. QED
          BY <5>1, <5>3, <5>4, <5>5, <5>6, <5>7
      <4>2. QED
        BY <4>1
    <3> HIDE DEF digits
    <3>4. CharAt(f, digits) # "$"
      <4>1. digits \in Nat /\ digits <= Len(f)
        BY <1>5, <3>2
      <4>2. QED
        BY <1>13, <3>2, <3>3, <4>1
    <3>5. QED
      BY <3>1, <3>4
  <2>2. CASE pos # <<>>
    <3>1. n1 > 1 /\ pos[n1] = "$" /\ \A m \in 1 .. n1 - 1 : pos[m] \in DigitChar
      BY <1>7, <1>8, <2>2 DEF IsPosition
    <3>2. ASSUME NEW j \in k + 1 .. a1 - 2 PROVE f[j] \in DigitChar
      <4>1. PICK m \in 1 .. n1 - 1 : k + 1 + m - 1 = j
        <5>1. j - k \in 1 .. n1 - 1 /\ k + 1 + (j - k) - 1 = j
          BY <1>4, <1>5
        <5>2. QED
          BY <5>1
      <4>2. m \in 1 .. n1
        OBVIOUS
      <4>3. f[k + 1 + m - 1] = pos[m]
        BY <1>8, <4>2 DEF Stands
      <4>4. QED
        BY <3>1, <4>1, <4>3
    <3>3. f[a1 - 1] = "$"
      <4>1. n1 \in 1 .. n1 /\ k + 1 + n1 - 1 = a1 - 1
        BY <1>4, <1>5, <3>1
      <4>2. f[k + 1 + n1 - 1] = pos[n1]
        BY <1>8, <4>1 DEF Stands
      <4>3. QED
        BY <3>1, <4>1, <4>2
    <3>4. a1 - 1 \in Nat /\ a1 - 1 <= Len(f) /\ a1 - 1 > k + 1 /\ k + 1 \in 1 .. Len(f) + 1
          /\ a1 - 1 \in k + 1 .. Len(f) + 1 /\ (a1 - 1) - 1 = a1 - 2 /\ (a1 - 1) + 1 = a1
      BY <1>4, <1>5, <3>1
    <3>5. CharAt(f, a1 - 1) = "$"
      BY <1>13, <3>3, <3>4
    <3>6. digits = a1 - 1
      <4>1. "$" \notin DigitChar
        BY DEF DigitChar
      <4>2. PICK e \in k + 1 .. Len(f) + 1 : e = a1 - 1
        BY <3>4
      <4>3. \A j \in k + 1 .. e - 1 : f[j] \in DigitChar
        BY <3>2, <3>4, <4>2
      <4>4. CharAt(f, e) \notin DigitChar
        BY <3>5, <4>1, <4>2
      <4>5. PastRun(f, k + 1, DigitChar) = e
        BY <3>4, <4>3, <4>4, RunEnds
      <4>6. QED
        BY <4>2, <4>5
    <3> HIDE DEF digits
    <3>7. QED
      BY <3>4, <3>5, <3>6
  <2>3. QED
    BY <2>1, <2>2
<1> HIDE DEF position
<1>16. start = a2
  <2>1. ASSUME NEW j \in a1 .. a2 - 1 PROVE f[j] \in FlagChar
    <3>1. PICK m \in 1 .. n2 : a1 + m - 1 = j
      <4>1. j - a1 + 1 \in 1 .. n2 /\ a1 + (j - a1 + 1) - 1 = j
        BY <1>4, <1>5
      <4>2. QED
        BY <4>1
    <3>2. m \in 1 .. Len(flags)
      BY <1>8, <3>1
    <3>4. f[a1 + m - 1] = flags[m] /\ flags[m] \in FlagChar
      <4>1. Stands(flags, f, a1) /\ flags \in Seq(FlagChar)
        BY <1>7, <1>8
      <4>2. f[a1 + m - 1] = flags[m]
        BY <3>2, <4>1 DEF Stands
      <4>3. flags[m] \in FlagChar
        BY <3>2, <4>1
      <4>4. QED
        BY <4>2, <4>3
    <3>3. QED
      BY <3>1, <3>4
  <2>2. CharAt(f, a2) \notin FlagChar
    <3>1. H2 \cap FlagChar = {}
      BY DEF H2, NonZero, H3, H4, H5, Conversion, FloatConv, LengthChar, DigitChar, FlagChar
    <3>2. QED
      BY <1>11, <1>14, <3>1
  <2>3. a1 \in 1 .. Len(f) + 1 /\ a2 \in a1 .. Len(f) + 1
    BY <1>5
  <2>4. PastRun(f, a1, FlagChar) = a2
    BY <2>1, <2>2, <2>3, RunEnds
  <2>5. QED
    BY <1>15, <2>4
<1> HIDE DEF start
<1>17. past = a3
  <2>1. a2 \in 1 .. Len(f) + 1 /\ a2 + Len(width) = a3
    BY <1>4, <1>5, <1>8
  <2>2. CharAt(f, a3) \notin DigitChar \cup {"*"}
    <3>1. H3 \cap (DigitChar \cup {"*"}) = {}
      BY DEF H3, H4, H5, Conversion, FloatConv, LengthChar, DigitChar
    <3>2. QED
      BY <1>10, <1>14, <3>1
  <2>3. consume_width(f, a2) = a3
    BY <1>7, <1>8, <2>1, <2>2, NumberRead
  <2>4. QED
    BY <1>16, <2>3
<1> HIDE DEF past
<1>18. precision = a4
  <2>1. CASE prec = <<>>
    <3>1. a4 = a3
      <4>1. Len(prec) = 0
        BY <2>1
      <4>2. QED
        BY <1>4, <1>5, <1>8, <4>1
    <3>2. "." \notin H4
      BY DEF H4, H5, Conversion, FloatConv, LengthChar
    <3>3. QED
      BY <1>9, <1>14, <1>17, <3>1, <3>2
  <2>2. CASE prec # <<>>
    <3>1. PICK s : s = Tail(prec)
      OBVIOUS
    <3>2. n4 > 0 /\ Len(s) = n4 - 1 /\ Len(s) \in Nat /\ \A m \in 1 .. n4 - 1 : s[m] = prec[m + 1]
      BY <1>7, <1>8, <2>2, <3>1
    <3>3. f[a3] = "."
      <4>1. f[a3 + 1 - 1] = prec[1]
        BY <1>8, <3>2 DEF Stands
      <4>2. QED
        BY <1>5, <1>7, <2>2, <4>1
    <3>4. a3 + 1 \in 1 .. Len(f) + 1 /\ (a3 + 1) + Len(s) = a4
      <4>1. PICK q \in Nat : q = Len(s)
        BY <3>2
      <4>2. q = n4 - 1 /\ a4 = a3 + n4
        BY <1>4, <3>2, <4>1
      <4>3. (a3 + 1) + q = a4 /\ a3 + 1 \in 1 .. Len(f) + 1
        BY <1>5, <4>2
      <4>4. QED
        BY <4>1, <4>3
    <3>5. Stands(s, f, a3 + 1)
      <4>1. a3 + 1 + Len(s) <= Len(f) + 1
        BY <1>5, <3>4
      <4>2. ASSUME NEW j \in 1 .. Len(s) PROVE f[a3 + 1 + j - 1] = s[j]
        <5>1. j + 1 \in 1 .. n4 /\ j \in 1 .. n4 - 1
          BY <3>2
        <5>2. f[a3 + (j + 1) - 1] = prec[j + 1]
          BY <1>8, <5>1 DEF Stands
        <5>3. a3 + (j + 1) - 1 = a3 + 1 + j - 1
          BY <1>5
        <5>4. QED
          BY <3>2, <5>1, <5>2, <5>3
      <4>3. QED
        BY <4>1, <4>2 DEF Stands
    <3>6. CharAt(f, a4) \notin DigitChar \cup {"*"}
      <4>1. H4 \cap (DigitChar \cup {"*"}) = {}
        BY DEF H4, H5, Conversion, FloatConv, LengthChar, DigitChar
      <4>2. QED
        BY <1>9, <1>14, <4>1
    <3>7. IsNumber(s)
      BY <1>7, <2>2, <3>1
    <3>8. consume_width(f, a3 + 1) = a4
      BY <3>4, <3>5, <3>6, <3>7, NumberRead
    <3>9. QED
      BY <1>14, <1>17, <3>3, <3>8
  <2>3. QED
    BY <2>1, <2>2
<1> HIDE DEF precision
<1>19. last = a5
  <2>1. Conversion \cap LengthChar = {} /\ "h" \notin Conversion /\ "l" \notin Conversion
    BY DEF Conversion, FloatConv, LengthChar
  <2>2. CASE len = <<>>
    <3>1. a5 = a4
      <4>1. Len(len) = 0
        BY <2>2
      <4>2. QED
        BY <1>4, <1>5, <1>8, <4>1
    <3>2. length \notin LengthChar /\ length \notin {"h", "l"}
      BY <1>7, <1>8, <1>14, <1>18, <2>1, <3>1
    <3>3. QED
      BY <1>18, <3>1, <3>2
  <2>3. ASSUME NEW c \in LengthChar, len = <<c>> PROVE last = a5
    <3>1. Len(len) = 1 /\ len[1] = c
      BY <2>3
    <3>2. a5 = a4 + 1 /\ f[a4] = c
      <4>1. 1 \in 1 .. Len(len) /\ a4 + 1 - 1 = a4
        BY <1>5, <3>1
      <4>2. f[a4 + 1 - 1] = len[1]
        BY <1>8, <4>1 DEF Stands
      <4>3. QED
        BY <1>4, <1>8, <3>1, <4>1, <4>2
    <3>3. length = c /\ CharAt(f, precision + 1) # length
      BY <1>7, <1>8, <1>14, <1>18, <2>1, <2>3, <3>2
    <3>4. QED
      BY <1>18, <2>3, <3>2, <3>3
  <2>4. ASSUME NEW c \in {"h", "l"}, len = <<c, c>> PROVE last = a5
    <3>1. Len(len) = 2 /\ len[1] = c /\ len[2] = c
      BY <2>4
    <3>2. a5 = a4 + 2 /\ f[a4] = c /\ f[a4 + 1] = c
      <4>1. 1 \in 1 .. Len(len) /\ 2 \in 1 .. Len(len) /\ a4 + 1 - 1 = a4 /\ a4 + 2 - 1 = a4 + 1
        BY <1>5, <3>1
      <4>2. f[a4 + 1 - 1] = len[1] /\ f[a4 + 2 - 1] = len[2]
        BY <1>8, <4>1 DEF Stands
      <4>3. QED
        BY <1>4, <1>8, <3>1, <4>1, <4>2
    <3>3. a4 + 1 \in Nat /\ a4 + 1 <= Len(f)
      BY <1>5, <3>2
    <3>4. length = c /\ CharAt(f, precision + 1) = length
      BY <1>13, <1>14, <1>18, <3>2, <3>3
    <3>5. QED
      BY <1>18, <2>4, <3>2, <3>4
  <2>5. QED
    <3> HIDE DEF last
    <3>1. QED
      BY <1>7, <2>2, <2>3, <2>4
<1>20. parse_spec(f, k) = [conv |-> CharAt(f, last), next |-> last + 1]
  BY DEF parse_spec, last, length, precision, past, start, position, digits
<1>21. f[k + 1] # "%"
  <2>1. CASE pos = <<>>
    <3>1. Len(pos) = 0
      BY <2>1
    <3>2. a1 = k + 1
      BY <1>4, <1>5, <1>8, <3>1
    <3>3. "%" \notin H1
      BY DEF H1, H2, NonZero, H3, H4, H5, Conversion, FloatConv, LengthChar, DigitChar, FlagChar
    <3>4. QED
      BY <1>12, <3>2, <3>3
  <2>2. CASE pos # <<>>
    <3>1. n1 > 1 /\ \A m \in 1 .. n1 - 1 : pos[m] \in DigitChar
      BY <1>7, <1>8, <2>2 DEF IsPosition
    <3>2. f[k + 1 + 1 - 1] = pos[1] /\ pos[1] \in DigitChar
      BY <1>8, <3>1 DEF Stands
    <3>3. k + 1 + 1 - 1 = k + 1
      BY <1>5
    <3>4. QED
      BY <3>2, <3>3 DEF DigitChar
  <2>3. QED
    BY <2>1, <2>2
<1>22. k + 1 <= Len(f)
  BY <1>5
<1> HIDE DEF last
<1>23. QED
  BY <1>1, <1>6, <1>8, <1>14, <1>19, <1>20, <1>21, <1>22

-----------------------------------------------------------------------------
(* The pieces of a format.                                                 *)

(* A format as it is meant.                                                *)
MeantBy(ps, f) ==
  /\ f \in Seq(Char) /\ Len(ps) \in Nat /\ DOMAIN ps = 1 .. Len(ps) /\ Spells(ps, f)

(* Each piece begins where the one before it ends.                         *)
LEMMA StartsRise ==
  ASSUME NEW ps, Len(ps) \in Nat, \A k \in 1 .. Len(ps) : Len(Spelling(ps[k])) \in Nat
  PROVE  /\ Starts(ps)[0] = 1 /\ \A k \in 0 .. Len(ps) : Starts(ps)[k] \in Nat
         /\ \A k \in 1 .. Len(ps) : Starts(ps)[k] = Starts(ps)[k - 1] + Len(Spelling(ps[k]))
<1> DEFINE n == Len(ps)
           body(f, k) == IF k = 0 THEN 1 ELSE f[k - 1] + Len(Spelling(ps[k]))
           at == CHOOSE f : f = [ k \in 0 .. n |-> body(f, k) ]
           step == [ k \in 1 .. n |-> [ x \in Nat |-> x + Len(Spelling(ps[k])) ] ]
<1>1. Steps(n, Nat, 1, step)
  BY DEF Steps
<1>2. PICK f : Follows(f, n, Nat, 1, step)
  <2> HIDE DEF step, n
  <2>1. QED
    BY <1>1, Recurrence
<1>3. /\ f \in [0 .. n -> Nat] /\ f[0] = 1
      /\ \A k \in 1 .. n : f[k] = step[k][f[k - 1]]
  BY <1>2 DEF Follows
<1>4. \A k \in 1 .. n : f[k] = f[k - 1] + Len(Spelling(ps[k]))
  <2> TAKE k \in 1 .. n
  <2>1. k - 1 \in 0 .. n
    OBVIOUS
  <2>2. f[k - 1] \in Nat
    BY <1>3, <2>1
  <2>3. step[k][f[k - 1]] = f[k - 1] + Len(Spelling(ps[k]))
    BY <2>2
  <2>4. QED
    BY <1>3, <2>3
<1> HIDE DEF step
<1>5. f = [ k \in 0 .. n |-> body(f, k) ]
  <2>1. \A k \in 0 .. n : f[k] = body(f, k)
    BY <1>3, <1>4
  <2>2. f = [ k \in 0 .. n |-> f[k] ]
    BY <1>3
  <2> HIDE DEF body
  <2>3. QED
    BY <2>1, <2>2
<1>6. at = [ k \in 0 .. n |-> body(at, k) ]
  <2> HIDE DEF body
  <2>1. QED
    BY <1>5
<1> HIDE DEF at
<1>7. \A k \in 0 .. n : at[k] = body(at, k)
  <2> HIDE DEF body
  <2>1. QED
    BY <1>6
<1>8. at[0] = 1 /\ \A k \in 1 .. n : at[k] = at[k - 1] + Len(Spelling(ps[k]))
  BY <1>7
<1>9. \A k \in 0 .. n : at[k] \in Nat
  <2> DEFINE P == { k \in 0 .. n : at[k] \in Nat }
  <2>1. 0 \in P
    BY <1>8
  <2>2. ASSUME NEW k \in 1 .. n, k - 1 \in P PROVE k \in P
    <3>1. at[k - 1] \in Nat /\ Len(Spelling(ps[k])) \in Nat
      BY <2>2
    <3>2. QED
      BY <1>8, <3>1
  <2> HIDE DEF P
  <2>3. \A k \in 0 .. n : k \in P
    BY <2>1, <2>2, Climbs
  <2>4. QED
    BY <2>3 DEF P
<1>10. Starts(ps) = at
  BY DEF Starts, at, body, n
<1>11. QED
  BY <1>8, <1>9, <1>10

(* How long a piece is.                                                    *)
LEMMA PieceLength ==
  ASSUME NEW p, IsText(p) \/ IsConversion(p)
  PROVE  /\ Len(Spelling(p)) \in Nat
         /\ IsText(p) => Spelling(p) \in {<<"%", "%">>, <<p.char>>}
<1>1. CASE IsText(p)
  BY <1>1 DEF Spelling
<1>2. CASE ~IsText(p)
  <2> DEFINE C == FormatChar
  <2>1. /\ p.pos \in Seq(C) /\ p.flags \in Seq(C) /\ p.width \in Seq(C) /\ p.prec \in Seq(C)
        /\ p.len \in Seq(C) /\ <<p.conv>> \in Seq(C) /\ <<"%">> \in Seq(C)
    BY <1>2, PartsAreTexts
  <2>2. Spelling(p) \in Seq(C)
    <3> HIDE DEF C
    <3>1. ASSUME NEW x \in Seq(C), NEW y \in Seq(C) PROVE x \o y \in Seq(C)
      OBVIOUS
    <3>2. <<"%">> \o p.pos \in Seq(C)
      BY <2>1, <3>1
    <3>3. <<"%">> \o p.pos \o p.flags \in Seq(C)
      BY <2>1, <3>1, <3>2
    <3>4. <<"%">> \o p.pos \o p.flags \o p.width \in Seq(C)
      BY <2>1, <3>1, <3>3
    <3>5. <<"%">> \o p.pos \o p.flags \o p.width \o p.prec \in Seq(C)
      BY <2>1, <3>1, <3>4
    <3>6. <<"%">> \o p.pos \o p.flags \o p.width \o p.prec \o p.len \in Seq(C)
      BY <2>1, <3>1, <3>5
    <3>7. QED
      BY <1>2, <2>1, <3>1, <3>6 DEF Spelling
  <2>3. QED
    BY <1>2, <2>2
<1>3. QED
  BY <1>1, <1>2

(* One more char lengthens the last literal.                               *)
LEMMA LastLengthens ==
  ASSUME NEW T \in Seq(Token), NEW x \in Seq(Byte), x # <<>>, NEW u \in Seq(Byte)
  PROVE  LET toks == Append(T, LitTok(x))
         IN /\ toks # <<>> /\ toks[Len(toks)].kind = "Lit"
            /\ [toks EXCEPT ![Len(toks)].text = @ \o u] = Append(T, LitTok(x \o u))
<1> DEFINE toks == Append(T, LitTok(x))
           n == Len(T) + 1
<1>1. LitTok(x) = [kind |-> "Lit", text |-> x] /\ LitTok(x \o u) = [kind |-> "Lit", text |-> x \o u]
  BY DEF LitTok
<1>2. n \in Nat /\ n > 0 /\ Len(toks) = n /\ DOMAIN toks = 1 .. n /\ toks[n] = LitTok(x)
      /\ \A k \in 1 .. n - 1 : toks[k] = T[k]
  OBVIOUS
<1>3. PICK y : y = Append(T, LitTok(x \o u))
  OBVIOUS
<1>4. /\ DOMAIN y = 1 .. n /\ y[n] = LitTok(x \o u) /\ \A k \in 1 .. n - 1 : y[k] = T[k]
      /\ y = [ k \in 1 .. n |-> y[k] ]
  <2>1. PICK w : w = x \o u
    OBVIOUS
  <2>2. LitTok(w).kind = "Lit" /\ y = Append(T, LitTok(w))
    BY <1>3, <2>1 DEF LitTok
  <2>3. PICK t : t = LitTok(w)
    OBVIOUS
  <2>4. /\ DOMAIN Append(T, t) = 1 .. n /\ Append(T, t)[n] = t
        /\ \A k \in 1 .. n - 1 : Append(T, t)[k] = T[k]
    OBVIOUS
  <2>5. Append(T, t) = [ k \in 1 .. n |-> Append(T, t)[k] ]
    <3>1. Append(T, t) \in Seq(Token \cup {t}) /\ Len(Append(T, t)) = n
      OBVIOUS
    <3>2. PICK q \in Seq(Token \cup {t}) : q = Append(T, t) /\ Len(q) = n
      BY <3>1
    <3>3. q = [ k \in 1 .. Len(q) |-> q[k] ]
      OBVIOUS
    <3>4. QED
      BY <3>2, <3>3
  <2>6. QED
    BY <2>1, <2>2, <2>3, <2>4, <2>5
<1>5. PICK z : z = [toks EXCEPT ![n].text = @ \o u]
  OBVIOUS
<1> HIDE DEF toks
<1>6. z = [ k \in 1 .. n |-> IF k = n THEN [toks[n] EXCEPT !.text = @ \o u] ELSE toks[k] ]
  BY <1>2, <1>5
<1>7. [toks[n] EXCEPT !.text = @ \o u] = LitTok(x \o u)
  <2>1. PICK v : v = x \o u
    OBVIOUS
  <2>2. PICK r : r = [kind |-> "Lit", text |-> x]
    OBVIOUS
  <2>3. r.text = x /\ [r EXCEPT !.text = v] = [kind |-> "Lit", text |-> v]
    BY <2>2
  <2>4. toks[n] = r
    BY <1>1, <1>2, <2>2
  <2>5. [r EXCEPT !.text = r.text \o u] = [kind |-> "Lit", text |-> v]
    BY <2>1, <2>3
  <2>6. QED
    BY <1>1, <2>1, <2>4, <2>5
<1>8. \A k \in 1 .. n : z[k] = y[k]
  <2> TAKE k \in 1 .. n
  <2>1. CASE k = n
    BY <1>4, <1>6, <1>7, <2>1
  <2>2. CASE k # n
    <3>1. k \in 1 .. n - 1
      BY <1>2, <2>2
    <3>2. QED
      BY <1>2, <1>4, <1>6, <2>2, <3>1
  <2>3. QED
    BY <2>1, <2>2
<1>9. z = y
  BY <1>4, <1>6, <1>8
<1>10. toks # <<>> /\ toks[Len(toks)].kind = "Lit"
  BY <1>1, <1>2
<1>11. [toks EXCEPT ![Len(toks)].text = @ \o u] = Append(T, LitTok(x \o u))
  BY <1>2, <1>3, <1>5, <1>9
<1>12. QED
  BY <1>10, <1>11 DEF toks

(* The tokens of one piece more.                                           *)
LEMMA ExtendedType ==
  ASSUME NEW toks \in Seq(Token), NEW p,
         (IsText(p) /\ p.char \in Char) \/ (~IsText(p) /\ IsConversion(p))
  PROVE  Extended(toks, p) \in Seq(Token)
<1>1. CASE IsText(p) /\ toks # <<>> /\ toks[Len(toks)].kind = "Lit"
  <2> DEFINE n == Len(toks)
             u == Utf8[p.char]
             z == [toks EXCEPT ![n].text = @ \o u]
  <2>1. n \in Nat /\ n \in 1 .. n /\ DOMAIN toks = 1 .. n /\ \A k \in 1 .. n : toks[k] \in Token
    BY <1>1
  <2>2. u \in Seq(Byte)
    BY <1>1, LoweringAssumption
  <2>3. toks[n].kind = "Lit" /\ toks[n] \in [kind : {"Lit"}, text : Seq(Byte) \ {<<>>}]
    BY <1>1, <2>1 DEF Token, Kind
  <2>4. toks[n].text \o u \in Seq(Byte) \ {<<>>}
    <3>1. PICK x \in Seq(Byte) : x = toks[n].text /\ x # <<>>
      BY <2>3
    <3>2. x \o u \in Seq(Byte) /\ Len(x \o u) = Len(x) + Len(u) /\ Len(x) \in Nat /\ Len(u) \in Nat
          /\ Len(x) > 0
      BY <2>2, <3>1
    <3>3. x \o u # <<>>
      BY <3>2
    <3>4. QED
      BY <3>1, <3>2, <3>3
  <2>5. [toks[n] EXCEPT !.text = @ \o u] \in Token
    BY <2>3, <2>4 DEF Token
  <2>6. z = [ k \in 1 .. n |-> IF k = n THEN [toks[n] EXCEPT !.text = @ \o u] ELSE toks[k] ]
    BY <2>1
  <2>7. \A k \in 1 .. n : z[k] \in Token
    <3> HIDE DEF z, n, u
    <3>1. QED
      BY <2>1, <2>5, <2>6
  <2>8. z \in Seq(Token)
    <3> HIDE DEF n, u
    <3>1. z \in [1 .. n -> Token]
      <4> HIDE DEF z
      <4>1. QED
        BY <2>6, <2>7
    <3> HIDE DEF z
    <3>2. QED
      BY <2>1, <3>1
  <2>9. Extended(toks, p) = z
    BY <1>1 DEF Extended, IsText, NoChar
  <2>10. QED
    BY <2>8, <2>9
<1>2. CASE IsText(p) /\ ~(toks # <<>> /\ toks[Len(toks)].kind = "Lit")
  <2>1. LitTok(Utf8[p.char]) \in Token
    BY <1>2, LoweringAssumption DEF LitTok, Token
  <2>2. Extended(toks, p) = Append(toks, LitTok(Utf8[p.char]))
    BY <1>2 DEF Extended, IsText, NoChar
  <2>3. QED
    BY <2>1, <2>2
<1>3. CASE ~IsText(p) /\ p.conv = "n"
  BY <1>3 DEF Extended
<1>4. CASE ~IsText(p) /\ p.conv # "n"
  <2>1. conversion_kind(p.conv) \in Kind
    BY <1>4 DEF IsConversion, Conversion, FloatConv, conversion_kind, Kind
  <2>2. SpecTok(conversion_kind(p.conv)) \in Token
    BY <2>1 DEF SpecTok, Token
  <2>3. Extended(toks, p) = Append(toks, SpecTok(conversion_kind(p.conv)))
    BY <1>4 DEF Extended
  <2>4. QED
    BY <2>2, <2>3
<1>5. QED
  BY <1>1, <1>2, <1>3, <1>4

(* The bare forms of the first pieces.                                     *)
LEMMA BareGrows ==
  ASSUME NEW ps, Len(ps) \in Nat,
         \A k \in 1 .. Len(ps) : (IsText(ps[k]) /\ ps[k].char \in Char) \/ (~IsText(ps[k]) /\ IsConversion(ps[k]))
  PROVE  /\ Bare(ps)[0] = <<>> /\ \A k \in 0 .. Len(ps) : Bare(ps)[k] \in Seq(Token)
         /\ \A k \in 1 .. Len(ps) : Bare(ps)[k] = Extended(Bare(ps)[k - 1], ps[k])
<1> DEFINE n == Len(ps)
           V == Seq(Token)
           body(f, k) == IF k = 0 THEN <<>> ELSE Extended(f[k - 1], ps[k])
           upto == CHOOSE f : f = [ k \in 0 .. n |-> body(f, k) ]
           step == [ k \in 1 .. n |-> [ x \in V |-> Extended(x, ps[k]) ] ]
<1>1. Steps(n, V, <<>>, step)
  <2>1. ASSUME NEW k \in 1 .. n, NEW x \in V PROVE Extended(x, ps[k]) \in V
    BY ExtendedType
  <2> HIDE DEF V
  <2>2. step \in [1 .. n -> [V -> V]]
    BY <2>1
  <2>3. <<>> \in V
    BY DEF V
  <2>4. QED
    BY <2>2, <2>3 DEF Steps
<1>2. PICK f : Follows(f, n, V, <<>>, step)
  <2> HIDE DEF step, n, V
  <2>1. QED
    BY <1>1, Recurrence
<1> HIDE DEF V
<1>3. /\ f \in [0 .. n -> V] /\ f[0] = <<>>
      /\ \A k \in 1 .. n : f[k] = step[k][f[k - 1]]
  BY <1>2 DEF Follows
<1>4. \A k \in 1 .. n : f[k] = Extended(f[k - 1], ps[k])
  <2> TAKE k \in 1 .. n
  <2>1. k - 1 \in 0 .. n
    OBVIOUS
  <2>2. f[k - 1] \in V
    BY <1>3, <2>1
  <2>3. step[k][f[k - 1]] = Extended(f[k - 1], ps[k])
    BY <2>2
  <2>4. QED
    BY <1>3, <2>3
<1> HIDE DEF step
<1>5. f = [ k \in 0 .. n |-> body(f, k) ]
  <2>1. \A k \in 0 .. n : f[k] = body(f, k)
    BY <1>3, <1>4
  <2>2. f = [ k \in 0 .. n |-> f[k] ]
    BY <1>3
  <2> HIDE DEF body
  <2>3. QED
    BY <2>1, <2>2
<1>6. upto = [ k \in 0 .. n |-> body(upto, k) ]
  <2> HIDE DEF body
  <2>1. QED
    BY <1>5
<1> HIDE DEF upto
<1>7. \A k \in 0 .. n : upto[k] = body(upto, k)
  <2> HIDE DEF body
  <2>1. QED
    BY <1>6
<1>8. upto[0] = <<>> /\ \A k \in 1 .. n : upto[k] = Extended(upto[k - 1], ps[k])
  BY <1>7
<1>9. \A k \in 0 .. n : upto[k] \in V
  <2> DEFINE P == { k \in 0 .. n : upto[k] \in V }
  <2>1. 0 \in P
    <3>1. <<>> \in V
      BY DEF V
    <3>2. QED
      BY <1>8, <3>1
  <2>2. ASSUME NEW k \in 1 .. n, k - 1 \in P PROVE k \in P
    <3>1. upto[k - 1] \in V
      BY <2>2
    <3>2. Extended(upto[k - 1], ps[k]) \in V
      BY <3>1, ExtendedType DEF V
    <3>3. QED
      BY <1>8, <3>2
  <2> HIDE DEF P
  <2>3. \A k \in 0 .. n : k \in P
    BY <2>1, <2>2, Climbs
  <2>4. QED
    BY <2>3 DEF P
<1>10. Bare(ps) = upto
  BY DEF Bare, upto, body, n
<1>11. QED
  BY <1>8, <1>9, <1>10 DEF V

(* What a format that is meant has at the beginning of a piece.            *)
LEMMA PieceStands ==
  ASSUME NEW ps, NEW f, MeantBy(ps, f), NEW k \in 1 .. Len(ps)
  PROVE  LET a == Starts(ps)[k - 1]
             p == ps[k]
         IN /\ a \in 1 .. Len(f) /\ Starts(ps)[k] \in Nat
            /\ \/ /\ IsText(p) /\ p.char # "%" /\ p.char \in Char
                  /\ f[a] = p.char /\ Starts(ps)[k] = a + 1
               \/ /\ IsText(p) /\ p.char = "%" /\ p.char \in Char
                  /\ a < Len(f) /\ f[a] = "%" /\ f[a + 1] = "%" /\ Starts(ps)[k] = a + 2
               \/ /\ ~IsText(p) /\ IsConversion(p)
                  /\ f[a] = "%" /\ a < Len(f) /\ f[a + 1] # "%"
                  /\ parse_spec(f, a).conv = p.conv /\ parse_spec(f, a).next = Starts(ps)[k]
<1> DEFINE a == Starts(ps)[k - 1]
           b == Starts(ps)[k]
           p == ps[k]
<1>1. /\ f \in Seq(Char) /\ Len(ps) \in Nat /\ Len(f) \in Nat
      /\ \A j \in 1 .. Len(ps) :
           (IsText(ps[j]) \/ IsConversion(ps[j])) /\ Stands(Spelling(ps[j]), f, Starts(ps)[j - 1])
  BY DEF MeantBy, Spells
<1>2. \A j \in 1 .. Len(ps) : Len(Spelling(ps[j])) \in Nat
  BY <1>1, PieceLength
<1>3. /\ Starts(ps)[0] = 1 /\ \A j \in 0 .. Len(ps) : Starts(ps)[j] \in Nat
      /\ \A j \in 1 .. Len(ps) : Starts(ps)[j] = Starts(ps)[j - 1] + Len(Spelling(ps[j]))
  BY <1>1, <1>2, StartsRise
<1>4. \A j \in 0 .. Len(ps) : Starts(ps)[j] >= 1
  <2> DEFINE P == { j \in 0 .. Len(ps) : Starts(ps)[j] >= 1 }
  <2>1. 0 \in P
    BY <1>1, <1>3
  <2>2. ASSUME NEW j \in 1 .. Len(ps), j - 1 \in P PROVE j \in P
    <3>1. Starts(ps)[j - 1] >= 1 /\ Starts(ps)[j - 1] \in Nat /\ Len(Spelling(ps[j])) \in Nat
      BY <1>2, <1>3, <2>2
    <3>2. QED
      BY <1>3, <3>1
  <2> HIDE DEF P
  <2>3. \A j \in 0 .. Len(ps) : j \in P
    BY <1>1, <2>1, <2>2, Climbs
  <2>4. QED
    BY <2>3 DEF P
<1>5. /\ a \in Nat /\ a >= 1 /\ b \in Nat /\ b = a + Len(Spelling(p)) /\ Stands(Spelling(p), f, a)
      /\ IsText(p) \/ IsConversion(p)
  <2>1. k - 1 \in 0 .. Len(ps) /\ k \in 0 .. Len(ps)
    BY <1>1
  <2>2. QED
    BY <1>1, <1>3, <1>4, <2>1
<1> HIDE DEF a, b, p
<1>6. CASE IsText(p) /\ p.char # "%"
  <2>1. Spelling(p) = <<p.char>> /\ Len(<<p.char>>) = 1 /\ <<p.char>>[1] = p.char
    BY <1>6 DEF Spelling
  <2>2. a + 1 <= Len(f) + 1 /\ f[a + 1 - 1] = p.char
    BY <1>5, <2>1 DEF Stands
  <2>3. a \in 1 .. Len(f) /\ f[a] = p.char /\ b = a + 1
    BY <1>1, <1>5, <2>1, <2>2
  <2>4. p.char \in Char
    BY <1>1, <2>3
  <2>5. QED
    BY <1>5, <1>6, <2>3, <2>4 DEF a, b, p
<1>7. CASE IsText(p) /\ p.char = "%"
  <2>1. /\ Spelling(p) = <<"%", "%">> /\ Len(<<"%", "%">>) = 2
        /\ <<"%", "%">>[1] = "%" /\ <<"%", "%">>[2] = "%"
    BY <1>7 DEF Spelling
  <2>2. a + 2 <= Len(f) + 1 /\ f[a + 1 - 1] = "%" /\ f[a + 2 - 1] = "%"
    BY <1>5, <2>1 DEF Stands
  <2>3. a \in 1 .. Len(f) /\ a < Len(f) /\ f[a] = "%" /\ f[a + 1] = "%" /\ b = a + 2
    BY <1>1, <1>5, <2>1, <2>2
  <2>4. QED
    BY <1>5, <1>7, <2>3, LoweringAssumption DEF a, b, p
<1>8. CASE ~IsText(p)
  <2>1. a \in 1 .. Len(f)
    <3>1. Spelling(p) = <<"%">> \o p.pos \o p.flags \o p.width \o p.prec \o p.len \o <<p.conv>>
      BY <1>8 DEF Spelling
    <3>2. Len(Spelling(p)) >= 1
      <4> DEFINE C == FormatChar
      <4>1. /\ p.pos \in Seq(C) /\ p.flags \in Seq(C) /\ p.width \in Seq(C) /\ p.prec \in Seq(C)
            /\ p.len \in Seq(C) /\ <<p.conv>> \in Seq(C) /\ <<"%">> \in Seq(C)
        BY <1>5, <1>8, PartsAreTexts
      <4> HIDE DEF C
      <4>2. ASSUME NEW x \in Seq(C), NEW y \in Seq(C)
            PROVE  x \o y \in Seq(C) /\ Len(x \o y) = Len(x) + Len(y) /\ Len(x) \in Nat
        OBVIOUS
      <4>3. PICK t \in Seq(C) : t = <<"%">> \o p.pos \o p.flags \o p.width \o p.prec \o p.len
        <5>1. <<"%">> \o p.pos \in Seq(C)
          BY <4>1, <4>2
        <5>2. <<"%">> \o p.pos \o p.flags \in Seq(C)
          BY <4>1, <4>2, <5>1
        <5>3. <<"%">> \o p.pos \o p.flags \o p.width \in Seq(C)
          BY <4>1, <4>2, <5>2
        <5>4. <<"%">> \o p.pos \o p.flags \o p.width \o p.prec \in Seq(C)
          BY <4>1, <4>2, <5>3
        <5>5. <<"%">> \o p.pos \o p.flags \o p.width \o p.prec \o p.len \in Seq(C)
          BY <4>1, <4>2, <5>4
        <5>6. QED
          BY <5>5
      <4>4. PICK c \in Seq(C) : c = <<p.conv>> /\ Len(c) = 1
        BY <4>1
      <4>5. Len(t \o c) = Len(t) + Len(c) /\ Len(t) \in Nat
        BY <4>2
      <4>6. Len(t \o c) >= 1
        BY <4>4, <4>5
      <4>7. Spelling(p) = t \o c
        BY <3>1, <4>3, <4>4
      <4>8. QED
        BY <4>6, <4>7
    <3>3. a + Len(Spelling(p)) <= Len(f) + 1 /\ Len(Spelling(p)) \in Nat
      BY <1>5, PieceLength DEF Stands
    <3>4. QED
      BY <1>1, <1>5, <3>2, <3>3
  <2>2. /\ parse_spec(f, a).conv = p.conv /\ parse_spec(f, a).next = a + Len(Spelling(p))
        /\ f[a] = "%" /\ a + 1 <= Len(f) /\ f[a + 1] # "%"
    BY <1>1, <1>5, <1>8, <2>1, SpelledSpec
  <2>3. a < Len(f)
    BY <1>1, <2>1, <2>2
  <2>4. QED
    BY <1>5, <1>8, <2>1, <2>2, <2>3 DEF a, b, p
<1>9. QED
  BY <1>6, <1>7, <1>8

-----------------------------------------------------------------------------
(* The first loop and the pieces.                                          *)

(* Between two pieces the tokens, the run among them, are the bare form of *)
(* the pieces so far.                                                      *)
PiecesInv ==
  pieces # <<>> =>
    /\ MeantBy(pieces, fmt)
    /\ phase = "lower" =>
         \E k \in 0 .. Len(pieces) :
           i = Starts(pieces)[k] /\ Flushed(lowered.tokens) = Bare(pieces)[k]
    /\ phase # "lower" => verdict = "ok" /\ lowered.tokens = Bare(pieces)[Len(pieces)]

LEMMA MeantFacts ==
  ASSUME NEW ps, NEW f, MeantBy(ps, f)
  PROVE  /\ Len(ps) \in Nat /\ Starts(ps)[0] = 1 /\ Starts(ps)[Len(ps)] = Len(f) + 1
         /\ Bare(ps)[0] = <<>> /\ \A k \in 0 .. Len(ps) : Bare(ps)[k] \in Seq(Token)
         /\ \A k \in 1 .. Len(ps) : Bare(ps)[k] = Extended(Bare(ps)[k - 1], ps[k])
<1>1. /\ Len(ps) \in Nat /\ Starts(ps)[Len(ps)] = Len(f) + 1
      /\ \A k \in 1 .. Len(ps) : IsText(ps[k]) \/ IsConversion(ps[k])
  BY DEF MeantBy, Spells
<1>2. \A k \in 1 .. Len(ps) :
        (IsText(ps[k]) /\ ps[k].char \in Char) \/ (~IsText(ps[k]) /\ IsConversion(ps[k]))
  BY PieceStands
<1>3. \A k \in 1 .. Len(ps) : Len(Spelling(ps[k])) \in Nat
  BY <1>1, PieceLength
<1>4. Starts(ps)[0] = 1
  BY <1>1, <1>3, StartsRise
<1>5. /\ Bare(ps)[0] = <<>> /\ \A k \in 0 .. Len(ps) : Bare(ps)[k] \in Seq(Token)
      /\ \A k \in 1 .. Len(ps) : Bare(ps)[k] = Extended(Bare(ps)[k - 1], ps[k])
  BY <1>1, <1>2, BareGrows
<1>6. QED
  BY <1>1, <1>4, <1>5

LEMMA InitPieces == Init => PiecesInv
<1> SUFFICES ASSUME Init, pieces # <<>> PROVE PiecesInv
  BY DEF PiecesInv
<1>1. PICK x \in Inputs : pieces = x.pieces /\ fmt = x.fmt
  BY DEF Init
<1>2. MeantBy(pieces, fmt)
  BY <1>1, PiecesAssumption, LoweringAssumption DEF MeantBy
<1>3. Len(pieces) \in Nat /\ Starts(pieces)[0] = 1 /\ Bare(pieces)[0] = <<>>
  BY <1>2, MeantFacts
<1>4. 0 \in 0 .. Len(pieces)
  BY <1>3
<1>5. i = 1 /\ Flushed(lowered.tokens) = <<>> /\ phase = "lower"
  BY DEF Init, Flushed
<1>6. QED
  BY <1>2, <1>3, <1>4, <1>5 DEF PiecesInv

(* What the first loop finds behind k pieces: the next one.                *)
Meets(k) ==
  LET p == pieces[k + 1]
      next == Starts(pieces)[k + 1]
  IN /\ k + 1 \in 0 .. Len(pieces) /\ i <= Len(fmt)
     /\ Bare(pieces)[k + 1] = Extended(Flushed(lowered.tokens), p)
     /\ \/ /\ IsText(p) /\ p.char # "%" /\ p.char \in Char
           /\ ~AtPercent /\ ~AtSpec /\ fmt[i] = p.char /\ next = i + 1
        \/ /\ IsText(p) /\ p.char = "%" /\ p.char \in Char
           /\ ~AtChar /\ ~AtSpec /\ next = i + 2
        \/ /\ ~IsText(p) /\ IsConversion(p)
           /\ ~AtChar /\ ~AtPercent /\ spec.conv = p.conv /\ spec.next = next

LEMMA AtPiece ==
  ASSUME TokInv, PiecesInv, pieces # <<>>, phase = "lower"
  PROVE  \E k \in 0 .. Len(pieces) :
           /\ i = Starts(pieces)[k] /\ Flushed(lowered.tokens) = Bare(pieces)[k]
           /\ (k = Len(pieces) /\ i > Len(fmt)) \/ Meets(k)
<1>1. MeantBy(pieces, fmt)
  BY DEF PiecesInv
<1>2. PICK k \in 0 .. Len(pieces) : i = Starts(pieces)[k] /\ Flushed(lowered.tokens) = Bare(pieces)[k]
  BY DEF PiecesInv
<1>3. /\ Len(pieces) \in Nat /\ Starts(pieces)[Len(pieces)] = Len(fmt) + 1
      /\ \A j \in 1 .. Len(pieces) : Bare(pieces)[j] = Extended(Bare(pieces)[j - 1], pieces[j])
  BY <1>1, MeantFacts
<1>4. CASE k = Len(pieces)
  <2>1. Len(fmt) \in Nat
    BY DEF TokInv, TypeOK
  <2>2. QED
    BY <1>2, <1>3, <1>4, <2>1
<1>5. CASE k # Len(pieces)
  <2>1. PICK m \in 1 .. Len(pieces) : m = k + 1 /\ m - 1 = k
    <3>1. PICK n \in Nat : n = Len(pieces)
      BY <1>3
    <3>2. k \in 0 .. n /\ k # n
      BY <1>5, <3>1
    <3>3. k + 1 \in 1 .. n /\ (k + 1) - 1 = k
      BY <3>2
    <3>4. QED
      BY <3>1, <3>3
  <2>2. Bare(pieces)[m] = Extended(Flushed(lowered.tokens), pieces[m]) /\ m \in 0 .. Len(pieces)
    BY <1>2, <1>3, <2>1
  <2>3. /\ i \in 1 .. Len(fmt)
        /\ \/ /\ IsText(pieces[m]) /\ pieces[m].char # "%" /\ pieces[m].char \in Char
              /\ fmt[i] = pieces[m].char /\ Starts(pieces)[m] = i + 1
           \/ /\ IsText(pieces[m]) /\ pieces[m].char = "%" /\ pieces[m].char \in Char
              /\ i < Len(fmt) /\ fmt[i] = "%" /\ fmt[i + 1] = "%" /\ Starts(pieces)[m] = i + 2
           \/ /\ ~IsText(pieces[m]) /\ IsConversion(pieces[m])
              /\ fmt[i] = "%" /\ i < Len(fmt) /\ fmt[i + 1] # "%"
              /\ parse_spec(fmt, i).conv = pieces[m].conv /\ parse_spec(fmt, i).next = Starts(pieces)[m]
    BY <1>1, <1>2, <2>1, PieceStands
  <2>4. \/ /\ IsText(pieces[m]) /\ pieces[m].char # "%" /\ pieces[m].char \in Char
           /\ ~AtPercent /\ ~AtSpec
           /\ fmt[i] = pieces[m].char /\ Starts(pieces)[m] = i + 1
        \/ /\ IsText(pieces[m]) /\ pieces[m].char = "%" /\ pieces[m].char \in Char
           /\ ~AtChar /\ ~AtSpec
           /\ Starts(pieces)[m] = i + 2
        \/ /\ ~IsText(pieces[m]) /\ IsConversion(pieces[m])
           /\ ~AtChar /\ ~AtPercent
           /\ spec.conv = pieces[m].conv /\ spec.next = Starts(pieces)[m]
    BY <2>3 DEF AtChar, AtPercent, AtSpec, spec
  <2>5. i <= Len(fmt)
    BY <2>3
  <2>6. Meets(k)
    BY <2>1, <2>2, <2>4, <2>5 DEF Meets
  <2>7. QED
    BY <1>2, <2>6
<1>6. QED
  BY <1>4, <1>5

(* A char of the text.                                                     *)
LEMMA LowerTextPieces ==
  ASSUME TokInv, PiecesInv, Lowering, NEW c, NEW width, LowerText(c, width),
         \/ AtChar /\ c = fmt[i] /\ width = 1
         \/ AtPercent /\ c = "%" /\ width = 2
  PROVE  PiecesInv'
<1> SUFFICES ASSUME pieces # <<>> PROVE PiecesInv'
  BY DEF PiecesInv, Lowering
<1> DEFINE toks == lowered.tokens
           u == Utf8[c]
<1>0. phase = "lower" /\ i \in Nat /\ Len(fmt) \in Nat
  BY DEF Lowering, TokInv, TypeOK
<1>1. PICK k \in 0 .. Len(pieces) :
        /\ i = Starts(pieces)[k] /\ Flushed(toks) = Bare(pieces)[k]
        /\ (k = Len(pieces) /\ i > Len(fmt)) \/ Meets(k)
  BY <1>0, AtPiece
<1>2. i <= Len(fmt) /\ ~(i > Len(fmt))
  BY <1>0 DEF AtChar, AtPercent
<1>4. Meets(k)
  BY <1>1, <1>2
<1>5. /\ IsText(pieces[k + 1]) /\ pieces[k + 1].char = c /\ c \in Char
      /\ Starts(pieces)[k + 1] = i + width
      /\ Bare(pieces)[k + 1] = Extended(Flushed(toks), pieces[k + 1]) /\ k + 1 \in 0 .. Len(pieces)
  BY <1>4 DEF Meets
<1>6. /\ literal' = literal \o u /\ i' = i + width /\ lowered'.tokens = toks
      /\ UNCHANGED <<pieces, fmt, phase, verdict>>
  <2>1. lowered' = [lowered EXCEPT !.literal_len = @ + 1]
    BY DEF LowerText
  <2>2. lowered \in [tokens : Seq(Token), literal_len : Nat, spec_count : Nat, groups : Seq(Char)]
    BY DEF TokInv, TypeOK
  <2>3. lowered'.tokens = lowered.tokens
    BY <2>1, <2>2
  <2>4. QED
    BY <2>3 DEF LowerText, Lowering
<1>7. /\ literal \in Seq(Byte) /\ u \in Seq(Byte) /\ u # <<>> /\ toks \in Seq(Token)
      /\ (toks = <<>> \/ toks[Len(toks)].kind # "Lit")
  BY <1>0, <1>5, LoweringAssumption DEF TokInv, TypeOK, TokensArePattern
<1> HIDE DEF u, toks
<1>8. literal' # <<>> /\ Flushed(lowered.tokens)' = Append(toks, LitTok(literal \o u))
  <2>1. literal \o u # <<>>
    <3>1. Len(literal \o u) = Len(literal) + Len(u) /\ Len(literal) \in Nat /\ Len(u) \in Nat /\ Len(u) > 0
      BY <1>7
    <3>2. QED
      BY <3>1
  <2>2. literal' # <<>>
    BY <1>6, <2>1
  <2>3. Flushed(lowered.tokens)' = Append(lowered'.tokens, LitTok(literal'))
    BY <2>2 DEF Flushed
  <2>4. QED
    BY <1>6, <2>2, <2>3
<1>9. Extended(Flushed(toks), pieces[k + 1]) = Append(toks, LitTok(literal \o u))
  <2>1. CASE literal = <<>>
    <3>1. Flushed(toks) = toks /\ literal \o u = u
      BY <1>7, <2>1 DEF Flushed
    <3>2. Extended(toks, pieces[k + 1]) = Append(toks, LitTok(u))
      BY <1>5, <1>7 DEF Extended, IsText, NoChar, u
    <3>3. QED
      BY <3>1, <3>2
  <2>2. CASE literal # <<>>
    <3>1. PICK t : t = Append(toks, LitTok(literal))
      OBVIOUS
    <3>2. Flushed(toks) = t
      BY <2>2, <3>1 DEF Flushed
    <3>3. /\ t # <<>> /\ t[Len(t)].kind = "Lit"
          /\ [t EXCEPT ![Len(t)].text = @ \o u] = Append(toks, LitTok(literal \o u))
      BY <1>7, <2>2, <3>1, LastLengthens
    <3>4. Extended(t, pieces[k + 1]) = [t EXCEPT ![Len(t)].text = @ \o u]
      BY <1>5, <3>3 DEF Extended, IsText, NoChar, u
    <3>5. QED
      BY <3>2, <3>3, <3>4
  <2>3. QED
    BY <2>1, <2>2
<1>10. i' = Starts(pieces)[k + 1] /\ Flushed(lowered.tokens)' = Bare(pieces)[k + 1] /\ k + 1 \in 0 .. Len(pieces)
  BY <1>5, <1>6, <1>8, <1>9
<1>11. MeantBy(pieces, fmt)' /\ phase' = "lower"
  BY <1>0, <1>6 DEF PiecesInv
<1>12. QED
  BY <1>6, <1>10, <1>11 DEF PiecesInv

(* A conversion that writes something, and one that does not.              *)
LEMMA LowerSpecPieces ==
  ASSUME TokInv, PiecesInv, LowerSpec \/ LowerNothing
  PROVE  PiecesInv'
<1> SUFFICES ASSUME pieces # <<>> PROVE PiecesInv'
  BY DEF PiecesInv, LowerSpec, LowerNothing, Lowering
<1>0. /\ phase = "lower" /\ i \in Nat /\ Len(fmt) \in Nat /\ AtSpec
      /\ UNCHANGED <<pieces, fmt, phase, verdict>> /\ i' = spec.next
  BY DEF LowerSpec, LowerNothing, Lowering, TokInv, TypeOK
<1>1. PICK k \in 0 .. Len(pieces) :
        /\ i = Starts(pieces)[k] /\ Flushed(lowered.tokens) = Bare(pieces)[k]
        /\ (k = Len(pieces) /\ i > Len(fmt)) \/ Meets(k)
  BY <1>0, AtPiece
<1>2. ~(i > Len(fmt))
  BY <1>0 DEF AtSpec
<1>4. Meets(k)
  BY <1>1, <1>2
<1>5. /\ ~IsText(pieces[k + 1]) /\ IsConversion(pieces[k + 1])
      /\ spec.conv = pieces[k + 1].conv /\ i' = Starts(pieces)[k + 1]
      /\ Bare(pieces)[k + 1] = Extended(Flushed(lowered.tokens), pieces[k + 1])
      /\ k + 1 \in 0 .. Len(pieces)
  BY <1>0, <1>4 DEF Meets
<1>6. Flushed(lowered.tokens)' = Extended(Flushed(lowered.tokens), pieces[k + 1])
  <2>1. CASE LowerSpec
    <3>1. spec.conv # "n"
      BY <2>1 DEF LowerSpec, conversion_kind, Kind, FloatConv
    <3>2. Extended(Flushed(lowered.tokens), pieces[k + 1]) =
            Append(Flushed(lowered.tokens), SpecTok(conversion_kind(spec.conv)))
      BY <1>5, <3>1 DEF Extended
    <3>3. lowered'.tokens = Append(Flushed(lowered.tokens), SpecTok(conversion_kind(spec.conv))) /\ literal' = <<>>
      <4>1. lowered' = [lowered EXCEPT
                          !.tokens = Append(Flushed(lowered.tokens), SpecTok(conversion_kind(spec.conv))),
                          !.spec_count = @ + 1, !.groups = Append(@, spec.conv)] /\ literal' = <<>>
        BY <2>1 DEF LowerSpec
      <4>2. lowered \in [tokens : Seq(Token), literal_len : Nat, spec_count : Nat, groups : Seq(Char)]
        BY DEF TokInv, TypeOK
      <4>3. QED
        BY <4>1, <4>2
    <3>4. QED
      BY <3>2, <3>3 DEF Flushed
  <2>2. CASE LowerNothing
    <3>1. spec.conv = "n"
      <4>1. conversion_kind(spec.conv) = "None" /\ spec.conv \in Conversion
        BY <1>5, <2>2 DEF LowerNothing, IsConversion
      <4>2. QED
        BY <4>1 DEF Conversion, FloatConv, conversion_kind
    <3>2. Extended(Flushed(lowered.tokens), pieces[k + 1]) = Flushed(lowered.tokens)
      BY <1>5, <3>1 DEF Extended
    <3>3. UNCHANGED <<lowered, literal>>
      BY <2>2 DEF LowerNothing
    <3>4. QED
      BY <3>2, <3>3 DEF Flushed
  <2>3. QED
    BY <2>1, <2>2
<1>7. i' = Starts(pieces)[k + 1] /\ Flushed(lowered.tokens)' = Bare(pieces)[k + 1] /\ k + 1 \in 0 .. Len(pieces)
  BY <1>5, <1>6
<1>8. MeantBy(pieces, fmt)' /\ phase' = "lower"
  BY <1>0 DEF PiecesInv
<1>9. QED
  BY <1>0, <1>7, <1>8 DEF PiecesInv

(* The first loop does not fail on a format that is meant, and ends with   *)
(* its last piece.                                                         *)
LEMMA LowerStopsPieces ==
  ASSUME TokInv, LoopsInv, PiecesInv, LowerFails \/ LowerEnds
  PROVE  PiecesInv'
<1> SUFFICES ASSUME pieces # <<>> PROVE PiecesInv'
  BY DEF PiecesInv, LowerFails, LowerEnds, Lowering
<1>0. /\ phase = "lower" /\ i \in Nat /\ Len(fmt) \in Nat
      /\ UNCHANGED <<pieces, fmt>> /\ phase' = "render"
  BY DEF LowerFails, LowerEnds, Lowering, TokInv, TypeOK
<1>1. PICK k \in 0 .. Len(pieces) :
        /\ i = Starts(pieces)[k] /\ Flushed(lowered.tokens) = Bare(pieces)[k]
        /\ (k = Len(pieces) /\ i > Len(fmt)) \/ Meets(k)
  BY <1>0, AtPiece
<1>3. Len(pieces) \in Nat /\ MeantBy(pieces, fmt)
  BY MeantFacts DEF PiecesInv
<1>4. CASE LowerFails
  <2>1. AtSpec /\ conversion_kind(spec.conv) = "Unknown" /\ ~(i > Len(fmt))
    BY <1>0, <1>4 DEF LowerFails, AtSpec
  <2>2. Meets(k)
    BY <1>1, <2>1
  <2>4. spec.conv \in Conversion
    BY <2>1, <2>2 DEF IsConversion, Meets
  <2>5. QED
    BY <2>1, <2>4 DEF Conversion, FloatConv, conversion_kind
<1>5. CASE LowerEnds
  <2>1. i > Len(fmt) /\ ~(i <= Len(fmt)) /\ verdict' = verdict
    BY <1>0, <1>5 DEF LowerEnds
  <2>2. k = Len(pieces)
    BY <1>1, <2>1 DEF Meets
  <2>3. lowered'.tokens = Flushed(lowered.tokens)
    <3>1. lowered' = [lowered EXCEPT !.tokens = Flushed(@)]
      BY <1>5 DEF LowerEnds
    <3>2. lowered \in [tokens : Seq(Token), literal_len : Nat, spec_count : Nat, groups : Seq(Char)]
      BY DEF TokInv, TypeOK
    <3>3. QED
      BY <3>1, <3>2
  <2>4. verdict = "ok"
    BY <1>0 DEF LoopsInv
  <2>5. QED
    BY <1>0, <1>1, <1>3, <2>1, <2>2, <2>3, <2>4 DEF PiecesInv
<1>6. QED
  BY <1>4, <1>5

LEMMA NextPieces ==
  ASSUME TokInv, LoopsInv, PiecesInv, [Next]_vars
  PROVE  PiecesInv'
<1>1. CASE LowerChar
  BY <1>1, LowerTextPieces DEF LowerChar
<1>2. CASE LowerPercent
  BY <1>2, LowerTextPieces DEF LowerPercent
<1>3. CASE LowerSpec \/ LowerNothing
  BY <1>3, LowerSpecPieces
<1>4. CASE LowerFails \/ LowerEnds
  BY <1>4, LowerStopsPieces
<1>5. CASE render_sample
  <2>1. Rendering /\ phase' # "lower"
    BY <1>5 DEF render_sample, RenderChar, RenderPercent, RenderSpec, RenderFails, RenderEnds, Rendering, Emit
  <2>2. QED
    BY <2>1 DEF Rendering, PiecesInv
<1>6. CASE UNCHANGED vars
  <2>1. Flushed(lowered.tokens)' = Flushed(lowered.tokens)
    BY <1>6 DEF vars, Flushed
  <2>2. QED
    BY <1>6, <2>1 DEF vars, PiecesInv
<1>7. QED
  BY <1>1, <1>2, <1>3, <1>4, <1>5, <1>6 DEF Next, lower_format

LEMMA AlwaysPieces == Spec => [](TokInv /\ PiecesInv)
<1>1. TokInv /\ LoopsInv /\ PiecesInv /\ [Next]_vars => (TokInv /\ LoopsInv /\ PiecesInv)'
  BY NextTok, NextLoops, NextPieces
<1>2. QED
  BY <1>1, InitTok, InitLoops, InitPieces, PTL DEF Spec

(* Whatever position, flags, width, precision and length a conversion has, *)
(* they "are parsed and discarded" (scan.rs:280): any format of C's        *)
(* grammar is accepted, and lowered to the tokens of its conversions and   *)
(* the text between them.                                                  *)
THEOREM ModifiersAreDiscarded == Spec => []LowersLikeBareForm
<1>1. PiecesInv => LowersLikeBareForm
  BY DEF PiecesInv, LowersLikeBareForm
<1>2. QED
  BY <1>1, AlwaysPieces, PTL
-----------------------------------------------------------------------------
(* Lines of formats that do not pad numbers with blanks.                   *)

(* A fill is one byte throughout.                                          *)
LEMMA FillIs ==
  ASSUME NEW C, NEW byte \in C, NEW m \in Int
  PROVE  Fill(byte, m) \in Seq(C) /\ (m <= 0 => Fill(byte, m) = <<>>)
<1> DEFINE n == IF m <= 0 THEN 0 ELSE m
           F == [ k \in 1 .. m |-> byte ]
<1>1. n \in Nat /\ 1 .. m = 1 .. n /\ (m <= 0 => n = 0)
  OBVIOUS
<1> HIDE DEF n
<1>2. F \in [1 .. n -> C]
  BY <1>1
<1> HIDE DEF F
<1>3. F \in Seq(C) /\ (n = 0 => F = <<>>)
  BY <1>1, <1>2
<1>4. QED
  BY <1>1, <1>3 DEF Fill, F

(* Three texts in turn.                                                    *)
LEMMA ThreeTexts ==
  ASSUME NEW C, NEW x \in Seq(C), NEW y \in Seq(C), NEW z \in Seq(C)
  PROVE  x \o y \o z \in Seq(C) /\ Len(x \o y \o z) = Len(x) + Len(y) + Len(z)
<1>1. x \o y \in Seq(C) /\ Len(x \o y) = Len(x) + Len(y)
  OBVIOUS
<1>2. PICK xy \in Seq(C) : xy = x \o y
  BY <1>1
<1>3. xy \o z \in Seq(C) /\ Len(xy \o z) = Len(xy) + Len(z)
  OBVIOUS
<1>4. QED
  BY <1>1, <1>2, <1>3

(* Bytes of one-byte chars, blanks among them.                             *)
OneByte == { b \in Byte \ (Cont \cup {Newline}) : Width[b] = 1 }

LEMMA OneByteTexts ==
  /\ Hex \subseteq OneByte /\ Float \subseteq OneByte /\ Blank \in OneByte
  /\ \A s \in Seq(OneByte) :
       s \in Seq(Byte) /\ WellFormed(s) /\ \A k \in 1 .. Len(s) : s[k] # Newline
<1>1. Hex \subseteq OneByte /\ Float \subseteq OneByte /\ Blank \in OneByte
  BY AlphabetAssumption, PrintedAssumption DEF OneByte
<1>2. ASSUME NEW s \in Seq(OneByte)
      PROVE  s \in Seq(Byte) /\ WellFormed(s) /\ \A k \in 1 .. Len(s) : s[k] # Newline
  <2>1. \A k \in 1 .. Len(s) : s[k] \in OneByte
    OBVIOUS
  <2>2. \A k \in 1 .. Len(s) :
          s[k] \in Byte /\ s[k] \notin Cont /\ Width[s[k]] = 1 /\ s[k] # Newline
    BY <2>1 DEF OneByte
  <2>3. s \in Seq(Byte)
    BY <2>2
  <2>4. QED
    BY <2>2, <2>3, OneByteChars
<1>3. QED
  BY <1>1, <1>2

(* What is printed is the value's head and body, filled up on a side.      *)
FilledUp(p, width, v) ==
  \E h \in Seq(Byte), b \in Seq(Byte), f \in Seq({Blank}), z \in Seq({"0"}) :
    /\ \/ ~Negative(p.conv, v) /\ h = <<>> /\ b = v
       \/ Negative(p.conv, v) /\ h = <<"-">> /\ b = Tail(v)
    /\ width = 0 => f = <<>> /\ z = <<>>
    /\ \/ /\ ~ZeroFilled(p)
          /\ Printed(p, width, v) = h \o b \o f \/ Printed(p, width, v) = f \o h \o b
       \/ /\ ZeroFilled(p)
          /\ Printed(p, width, v) = h \o z \o b

LEMMA PrintedParts ==
  ASSUME NEW p, p.conv \in Conversion, ~IsText(p), Unpadded(p), NEW width \in Nat,
         NEW v \in Seq(Byte)
  PROVE  FilledUp(p, width, v)
<1> DEFINE c == p.conv
           N == Negative(c, v)
           positive == c \in Signed /\ ~N
           sign == CASE N -> <<"-">>
                     [] positive /\ HasFlag(p, "+") -> <<"+">>
                     [] positive /\ ~HasFlag(p, "+") /\ HasFlag(p, Blank) -> <<Blank>>
                     [] OTHER -> <<>>
           prefixed == c \in HexFloat \/ (c \in {"x", "X"} /\ HasFlag(p, "#"))
           head == IF prefixed THEN sign \o HexPrefix ELSE sign
           body == IF Groups(p) THEN Grouped(Magnitude(c, v)) ELSE Magnitude(c, v)
           room == width - Len(head) - Len(body)
<1>1. c \in {"s", "m", "n"} => c \notin Signed
  BY DEF Signed, FloatConv
<1>2. c \in Signed \/ c \in {"x", "X"} =>
        ~HasFlag(p, "+") /\ ~HasFlag(p, Blank) /\ ~HasFlag(p, "#")
  BY <1>1 DEF Unpadded
<1>23. ~prefixed /\ ~Groups(p)
  <2>1. c \notin HexFloat
    BY DEF Unpadded, HexFloat
  <2>2. ~Groups(p)
    BY DEF Unpadded, Groups
  <2>3. QED
    BY <1>2, <2>1, <2>2
<1>21. head = sign /\ body = Magnitude(c, v)
  BY <1>23
<1> HIDE DEF prefixed, head, body
<1>3. /\ \/ ~N /\ head = <<>> /\ body = v
         \/ N /\ head = <<"-">> /\ body = Tail(v)
      /\ head \in Seq(Byte) /\ body \in Seq(Byte)
  <2>1. CASE N
    <3>1. head = <<"-">> /\ body = Tail(v)
      BY <1>2, <1>21, <2>1 DEF Magnitude, Negative
    <3>2. "-" \in Byte
      BY PrintedAssumption, AlphabetAssumption
    <3>3. v # <<>>
      BY <2>1 DEF Negative
    <3>4. Tail(v) \in Seq(Byte) /\ <<"-">> \in Seq(Byte)
      BY <3>2, <3>3
    <3>5. QED
      BY <2>1, <3>1, <3>4
  <2>2. CASE ~N
    <3>1. body = v
      BY <1>21, <2>2 DEF Magnitude
    <3>2. head = <<>>
      <4> HIDE DEF N
      <4>1. ~(positive /\ HasFlag(p, "+")) /\ ~(positive /\ ~HasFlag(p, "+") /\ HasFlag(p, Blank))
        BY <1>2
      <4>2. QED
        BY <1>21, <2>2, <4>1
    <3>3. <<>> \in Seq(Byte)
      OBVIOUS
    <3> HIDE DEF head, body, N
    <3>4. QED
      BY <2>2, <3>1, <3>2, <3>3
  <2>3. QED
    BY <2>1, <2>2
<1>4. Printed(p, width, v) =
        IF HasFlag(p, "-") THEN head \o body \o Fill(Blank, room)
        ELSE IF ZeroFilled(p) THEN head \o Fill("0", room) \o body
        ELSE Fill(Blank, room) \o head \o body
  BY DEF Printed, head, body, prefixed
<1> HIDE DEF head, body, N
<1>5. room \in Int /\ (width = 0 => room <= 0)
  <2>1. PICK m \in Nat, n \in Nat : m = Len(head) /\ n = Len(body)
    BY <1>3
  <2>2. width - m - n \in Int /\ (width = 0 => width - m - n <= 0)
    OBVIOUS
  <2>3. QED
    BY <2>1, <2>2
<1> HIDE DEF room
<1>6. PICK f \in Seq({Blank}), z \in Seq({"0"}) :
        /\ f = Fill(Blank, room) /\ z = Fill("0", room)
        /\ width = 0 => f = <<>> /\ z = <<>>
  BY <1>5, FillIs
<1>7. \/ /\ ~ZeroFilled(p)
         /\ Printed(p, width, v) = head \o body \o f \/ Printed(p, width, v) = f \o head \o body
      \/ /\ ZeroFilled(p)
         /\ Printed(p, width, v) = head \o z \o body
  <2>1. ZeroFilled(p) => ~HasFlag(p, "-")
    BY DEF ZeroFilled
  <2> HIDE DEF c
  <2>2. QED
    BY <1>4, <1>6, <2>1, Zenon
<1>8. (~N /\ head = <<>> /\ body = v) \/ (N /\ head = <<"-">> /\ body = Tail(v))
  BY <1>3
<1> USE DEF N
<1>9. QED
  BY <1>3, <1>6, <1>7, <1>8 DEF FilledUp

(* A value with its sign put back.                                         *)
LEMMA SignedValue ==
  ASSUME NEW v \in Seq(Byte), NEW h \in Seq(Byte), NEW b \in Seq(Byte), NEW c,
         \/ ~Negative(c, v) /\ h = <<>> /\ b = v
         \/ Negative(c, v) /\ h = <<"-">> /\ b = Tail(v)
  PROVE  h \o b = v
<1>1. CASE ~Negative(c, v)
  <2>1. <<>> \o v = v
    OBVIOUS
  <2>2. h = <<>> /\ b = v
    BY <1>1
  <2>3. QED
    BY <2>1, <2>2
<1>2. CASE Negative(c, v)
  <2>1. v # <<>> /\ v[1] = "-" /\ h = <<"-">> /\ b = Tail(v) /\ Len(v) \in Nat
    BY <1>2 DEF Negative
  <2>2. Len(h) = 1 /\ h[1] = "-" /\ Len(b) = Len(v) - 1 /\ \A k \in 1 .. Len(b) : b[k] = v[k + 1]
    BY <2>1
  <2>3. PICK w \in Seq(Byte) : w = h \o b
    <3>1. h \o b \in Seq(Byte)
      OBVIOUS
    <3>2. QED
      BY <3>1
  <2>4. Len(w) = Len(v) /\ \A k \in 1 .. Len(w) : w[k] = IF k <= 1 THEN h[k] ELSE b[k - 1]
    <3>1. Len(b) \in Nat /\ Len(w) = Len(h) + Len(b)
      BY <2>3
    <3>2. \A k \in 1 .. Len(w) : w[k] = IF k <= Len(h) THEN h[k] ELSE b[k - Len(h)]
      BY <2>3, <3>1
    <3>3. QED
      BY <2>1, <2>2, <3>1, <3>2
  <2>5. \A k \in 1 .. Len(w) : w[k] = v[k]
    BY <2>1, <2>2, <2>4
  <2>6. w = v
    BY <2>4, <2>5, SeqEqual
  <2>7. QED
    BY <2>3, <2>6
<1>3. QED
  BY <1>1, <1>2

(* A number and its sign, with zeros before the digits or without.         *)
LEMMA NumberFits ==
  ASSUME NEW c \in Numeric \ HexFloat, NEW h \in {<<>>, <<"-">>}, h # <<>> => c \in Signed,
         NEW m \in Seq(NumberByte(c)), m # <<>>
  PROVE  h \o m \in Seq(OneByte) /\ Fits(conversion_kind(c), h \o m)
<1> DEFINE C == NumberByte(c)
           kind == conversion_kind(c)
<1>1. /\ kind \in {"Int", "Uint", "Oct", "Hex", "Float"} /\ C \subseteq Class(kind)
      /\ kind \in {"Int", "Uint"} => C = Digit
      /\ c \in Signed => kind \in {"Int", "Float"}
  <2>1. CASE c \in {"d", "i", "u"}
    BY <2>1 DEF conversion_kind, NumberByte, Class, Signed, FloatConv
  <2>2. CASE c = "o"
    BY <2>2 DEF conversion_kind, NumberByte, Class, Signed, FloatConv
  <2>3. CASE c \in {"x", "X"}
    BY <2>3 DEF conversion_kind, NumberByte, Class, Signed, FloatConv
  <2>4. CASE c \in FloatConv
    <3>1. C = Digit \cup DecimalMark /\ kind = "Float"
      BY <2>4 DEF conversion_kind, NumberByte, FloatConv, HexFloat
    <3>2. Digit \cup DecimalMark \subseteq Float
      BY AlphabetAssumption, PrintedAssumption
    <3>3. QED
      BY <3>1, <3>2 DEF Class
  <2>5. QED
    BY <2>1, <2>2, <2>3, <2>4 DEF Numeric, Signed
<1>2. C \subseteq OneByte /\ Minus \in OneByte /\ Minus \in Float /\ Minus = "-"
  <2>1. Digit \subseteq Hex /\ Octal \subseteq Hex /\ Minus \in Float /\ Minus = "-"
    BY AlphabetAssumption, PrintedAssumption
  <2>2. C \subseteq Digit \/ C \subseteq Octal \/ C \subseteq Hex \/ C \subseteq Float
    BY <1>1 DEF Class
  <2>3. QED
    BY <2>1, <2>2, OneByteTexts
<1> HIDE DEF C, kind
<1>3. m \in Seq(C) /\ Len(m) \in Nat /\ Len(m) >= 1 /\ \A k \in 1 .. Len(m) : m[k] \in C
  <2>1. m \in Seq(C)
    BY DEF C
  <2>2. QED
    BY <2>1
<1>4. m \in Seq(OneByte)
  <2>1. \A k \in 1 .. Len(m) : m[k] \in OneByte
    BY <1>2, <1>3
  <2>2. QED
    BY <1>3, <2>1
<1>5. CASE h = <<>>
  <2>1. h \o m = m
    BY <1>5
  <2>2. Fits(kind, m)
    <3>1. kind = "Int" => C = Digit
      BY <1>1
    <3>2. \A k \in 1 .. Len(m) : m[k] \in Class(kind)
      BY <1>1, <1>3
    <3>3. QED
      BY <1>1, <1>3, <3>1, <3>2 DEF Fits
  <2>3. QED
    BY <1>4, <2>1, <2>2 DEF kind
<1>6. CASE h = <<"-">>
  <2>1. PICK g \in Seq(OneByte) : g = h /\ h # <<>> /\ Len(g) = 1 /\ g[1] = Minus
    <3>1. <<"-">> \in Seq(OneByte) /\ <<"-">> # <<>> /\ Len(<<"-">>) = 1 /\ <<"-">>[1] = Minus
      BY <1>2
    <3>2. QED
      BY <1>6, <3>1
  <2>2. /\ g \o m \in Seq(OneByte) /\ Len(g \o m) = Len(g) + Len(m)
        /\ \A k \in 1 .. Len(g) + Len(m) :
             (g \o m)[k] = IF k <= Len(g) THEN g[k] ELSE m[k - Len(g)]
    BY <1>4, ConcatProperties
  <2>3. PICK w \in Seq(OneByte) : w = g \o m
    BY <2>2
  <2>4. Len(w) = 1 + Len(m) /\ \A k \in 1 .. 1 + Len(m) : w[k] = IF k <= 1 THEN g[k] ELSE m[k - 1]
    BY <2>1, <2>2, <2>3
  <2>5. w[1] = Minus /\ Len(w) > 1 /\ \A k \in 2 .. Len(w) : w[k] \in C
    <3>1. \A k \in 2 .. Len(w) : w[k] = m[k - 1] /\ k - 1 \in 1 .. Len(m)
      BY <1>3, <2>4
    <3>2. 1 \in 1 .. Len(w) /\ Len(w) > 1
      BY <1>3, <2>4
    <3>3. w[1] = Minus
      BY <2>1, <2>4, <3>2
    <3>4. \A k \in 2 .. Len(w) : w[k] \in C
      BY <1>3, <3>1
    <3>5. QED
      BY <3>2, <3>3, <3>4
  <2>6. CASE kind = "Int"
    <3>1. C = Digit
      BY <1>1, <2>6
    <3>2. Fits(kind, w)
      BY <2>5, <2>6, <3>1 DEF Fits
    <3>3. QED
      BY <2>1, <2>3, <3>2 DEF kind
  <2>7. CASE kind = "Float"
    <3>1. C \subseteq Float
      BY <1>1, <2>7 DEF Class
    <3>2. \A k \in 1 .. Len(w) : w[k] \in Float
      <4> TAKE k \in 1 .. Len(w)
      <4>1. k = 1 \/ k \in 2 .. Len(w)
        BY <1>3, <2>4
      <4>2. QED
        BY <1>2, <2>5, <3>1, <4>1
    <3>3. Fits(kind, w)
      BY <2>5, <2>7, <3>2 DEF Fits, Class
    <3>4. QED
      BY <2>1, <2>3, <3>3 DEF kind
  <2>8. QED
    BY <1>1, <2>1, <2>6, <2>7
<1>7. QED
  BY <1>5, <1>6

(* What printf writes for an argument is of the class of its conversion.   *)
LEMMA ValueFits ==
  ASSUME NEW c \in Conversion \ HexFloat, NEW v \in Seq(Byte), IsValue(c, v)
  PROVE  WellFormed(v) /\ (c = "n" => v = <<>>) /\ (c # "n" => Fits(conversion_kind(c), v))
<1>1. CASE c \in {"s", "m"}
  <2>1. WellFormed(v) /\ (\A k \in 1 .. Len(v) : v[k] # Newline) /\ (c = "m" => v # <<>>)
    BY <1>1 DEF IsValue
  <2>2. conversion_kind(c) = IF c = "s" THEN "Str" ELSE "Errno"
    BY <1>1 DEF conversion_kind, FloatConv
  <2>3. c = "m" => Len(v) >= 1
    BY <2>1
  <2>4. QED
    BY <1>1, <2>1, <2>2, <2>3 DEF Fits
<1>2. CASE c = "n"
  BY <1>2 DEF IsValue, WellFormed
<1>3. CASE c = "c"
  <2>1. Len(v) = 1 /\ v[1] \notin Cont \cup {Newline} /\ Width[v[1]] = 1
    BY <1>3 DEF IsValue
  <2>2. conversion_kind(c) = "Char"
    BY <1>3 DEF conversion_kind, FloatConv
  <2>3. \A k \in 1 .. Len(v) : k = 1
    BY <2>1
  <2>4. WellFormed(v)
    BY <2>1, <2>3, OneByteChars
  <2>5. Fits("Char", v)
    BY <2>1, <2>3 DEF Fits
  <2>6. QED
    BY <1>3, <2>2, <2>4, <2>5
<1>4. CASE c = "p" /\ v = NilText
  <2>1. conversion_kind(c) = "Ptr"
    BY <1>4 DEF conversion_kind, FloatConv
  <2>2. WellFormed(v) /\ Len(v) = 5
    BY <1>4, AlphabetAssumption
  <2>3. Fits("Ptr", v)
    BY <1>4, <2>2 DEF Fits
  <2>4. QED
    BY <1>4, <2>1, <2>2, <2>3
<1>5. CASE c = "p" /\ v # NilText
  <2>1. StartsWith(v, 0, HexPrefix) /\ RunOf(Hex, v, 2, Len(v))
    BY <1>5 DEF IsValue
  <2>2. HexPrefix \in Seq(Byte) /\ Len(HexPrefix) = 2 /\ WellFormed(HexPrefix)
    BY AlphabetAssumption
  <2>3. Len(v) > 2 /\ \A k \in 3 .. Len(v) : v[k] \in Hex
    <3>1. 2 < Len(v) /\ \A q \in 2 .. Len(v) - 1 : v[q + 1] \in Hex
      BY <2>1 DEF RunOf
    <3>2. \A k \in 3 .. Len(v) : k - 1 \in 2 .. Len(v) - 1 /\ (k - 1) + 1 = k
      OBVIOUS
    <3>3. QED
      BY <3>1, <3>2
  <2>4. SubSeq(v, 1, 2) = HexPrefix
    BY <2>1, <2>2 DEF StartsWith
  <2>5. v[1] = HexPrefix[1] /\ v[2] = HexPrefix[2]
    <3>1. SubSeq(v, 1, 2)[1] = v[1] /\ SubSeq(v, 1, 2)[2] = v[2]
      BY <2>3
    <3>2. QED
      BY <2>4, <3>1
  <2>6. Fits("Ptr", v)
    BY <2>3, <2>5 DEF Fits
  <2>7. WellFormed(v)
    <3>1. PICK d \in Seq(Byte) : d = SubSeq(v, 3, Len(v))
      <4>1. SubSeq(v, 3, Len(v)) \in Seq(Byte)
        BY <2>3
      <4>2. QED
        BY <4>1
    <3>2. Len(d) = Len(v) - 2 /\ \A k \in 1 .. Len(d) : d[k] = v[k + 2]
      BY <2>3, <3>1
    <3>3. \A k \in 1 .. Len(d) : d[k] \in OneByte
      <4> TAKE k \in 1 .. Len(d)
      <4>1. k + 2 \in 3 .. Len(v)
        BY <3>2
      <4>2. QED
        BY <2>3, <3>2, <4>1, OneByteTexts
    <3>4. WellFormed(d)
      BY <3>3, OneByteChars DEF OneByte
    <3>5. PICK w \in Seq(Byte) : w = HexPrefix \o d /\ WellFormed(w)
      BY <2>2, <3>4, ConcatWellFormed
    <3>6. w = v
      <4>1. Len(w) = Len(v) /\ \A k \in 1 .. Len(w) : w[k] = IF k <= 2 THEN HexPrefix[k] ELSE d[k - 2]
        <5>1. /\ Len(HexPrefix \o d) = Len(HexPrefix) + Len(d)
              /\ \A k \in 1 .. Len(HexPrefix) + Len(d) :
                   (HexPrefix \o d)[k] = IF k <= Len(HexPrefix) THEN HexPrefix[k] ELSE d[k - Len(HexPrefix)]
          BY <2>2, ConcatProperties
        <5>2. Len(w) = 2 + Len(d) /\ 2 + Len(d) = Len(v)
          BY <2>2, <2>3, <3>2, <3>5, <5>1
        <5>3. \A k \in 1 .. 2 + Len(d) : w[k] = IF k <= 2 THEN HexPrefix[k] ELSE d[k - 2]
          BY <2>2, <3>5, <5>1
        <5>4. QED
          BY <5>2, <5>3
      <4>2. \A k \in 1 .. Len(w) : w[k] = v[k]
        <5> TAKE k \in 1 .. Len(w)
        <5>1. CASE k <= 2
          BY <2>5, <4>1, <5>1
        <5>2. CASE k > 2
          <6>1. k - 2 \in 1 .. Len(d) /\ (k - 2) + 2 = k
            BY <3>2, <4>1, <5>2
          <6>2. QED
            BY <3>2, <4>1, <5>2, <6>1
        <5>3. QED
          BY <2>3, <4>1, <5>1, <5>2
      <4>3. QED
        BY <4>1, <4>2, SeqEqual
    <3>7. QED
      BY <3>5, <3>6
  <2>8. conversion_kind(c) = "Ptr"
    BY <1>5 DEF conversion_kind, FloatConv
  <2>9. QED
    BY <1>5, <2>6, <2>7, <2>8
<1>6. CASE c \in Numeric
  <2>1. c \notin {"s", "m", "n", "c", "p"}
    BY <1>6 DEF Numeric, Signed, FloatConv
  <2>2. Magnitude(c, v) \in Seq(NumberByte(c)) /\ Magnitude(c, v) # <<>>
    BY <2>1 DEF IsValue
  <2>3. PICK h \in {<<>>, <<"-">>} : (h # <<>> => c \in Signed) /\ v = h \o Magnitude(c, v)
    <3>1. CASE Negative(c, v)
      <4>1. Magnitude(c, v) = Tail(v) /\ c \in Signed /\ v # <<>> /\ v[1] = "-"
        BY <3>1 DEF Magnitude, Negative
      <4>2. "-" \in Byte
        BY PrintedAssumption, AlphabetAssumption
      <4>3. <<"-">> \in Seq(Byte) /\ Tail(v) \in Seq(Byte)
        BY <4>1, <4>2
      <4>4. <<"-">> \o Tail(v) = v
        BY <3>1, <4>3, SignedValue
      <4>5. QED
        BY <4>1, <4>4
    <3>2. CASE ~Negative(c, v)
      <4>1. Magnitude(c, v) = v
        BY <3>2 DEF Magnitude
      <4>2. <<>> \o v = v
        OBVIOUS
      <4>3. QED
        BY <4>1, <4>2
    <3>3. QED
      BY <3>1, <3>2
  <2>4. v \in Seq(OneByte) /\ Fits(conversion_kind(c), v)
    BY <1>6, <2>2, <2>3, NumberFits
  <2>5. QED
    BY <2>1, <2>4, OneByteTexts
<1>7. QED
  BY <1>1, <1>2, <1>3, <1>4, <1>5, <1>6 DEF Conversion, Numeric, Signed

(* Blanks on a side of a text without newlines.                            *)
LEMMA BlanksFit ==
  ASSUME NEW kind \in {"Str", "Errno"}, NEW v \in Seq(Byte), WellFormed(v), Fits(kind, v), NEW z \in Seq(OneByte),
         NEW w, w = v \o z \/ w = z \o v
  PROVE  w \in Seq(Byte) /\ WellFormed(w) /\ Fits(kind, w)
<1>2. z \in Seq(Byte) /\ WellFormed(z) /\ \A k \in 1 .. Len(z) : z[k] # Newline
  BY OneByteTexts
<1>3. (\A k \in 1 .. Len(v) : v[k] # Newline) /\ (kind = "Errno" => Len(v) >= 1)
  BY DEF Fits
<1>4. ASSUME NEW x \in Seq(Byte), NEW y \in Seq(Byte), WellFormed(x), WellFormed(y), w = x \o y,
             \A k \in 1 .. Len(x) : x[k] # Newline, \A k \in 1 .. Len(y) : y[k] # Newline
      PROVE  /\ w \in Seq(Byte) /\ WellFormed(w) /\ Len(w) = Len(x) + Len(y)
             /\ \A k \in 1 .. Len(w) : w[k] # Newline
  <2>1. x \o y \in Seq(Byte) /\ WellFormed(x \o y)
    BY <1>4, ConcatWellFormed
  <2>2. /\ Len(x \o y) = Len(x) + Len(y)
        /\ \A k \in 1 .. Len(x) + Len(y) : (x \o y)[k] = IF k <= Len(x) THEN x[k] ELSE y[k - Len(x)]
    BY ConcatProperties
  <2>3. Len(x) \in Nat /\ Len(y) \in Nat
    OBVIOUS
  <2>4. ASSUME NEW k \in 1 .. Len(x) + Len(y) PROVE w[k] # Newline
    <3>1. CASE k <= Len(x)
      BY <1>4, <2>2, <2>3, <3>1
    <3>2. CASE k > Len(x)
      <4>1. w[k] = y[k - Len(x)] /\ k - Len(x) \in 1 .. Len(y)
        BY <1>4, <2>2, <2>3, <3>2
      <4>2. QED
        BY <1>4, <4>1
    <3>3. QED
      BY <2>3, <3>1, <3>2
  <2>5. QED
    BY <1>4, <2>1, <2>2, <2>4
<1>5. /\ w \in Seq(Byte) /\ WellFormed(w) /\ Len(w) = Len(v) + Len(z)
      /\ \A k \in 1 .. Len(w) : w[k] # Newline
  <2>1. CASE w = v \o z
    BY <1>2, <1>3, <1>4, <2>1
  <2>2. CASE w = z \o v
    <3>1. w \in Seq(Byte) /\ WellFormed(w) /\ Len(w) = Len(z) + Len(v) /\ \A k \in 1 .. Len(w) : w[k] # Newline
      BY <1>2, <1>3, <1>4, <2>2
    <3>2. Len(z) \in Nat /\ Len(v) \in Nat
      OBVIOUS
    <3>3. Len(z) + Len(v) = Len(v) + Len(z)
      BY <3>2
    <3>4. QED
      BY <3>1, <3>3
  <2>3. QED
    BY <2>1, <2>2
<1>6. kind = "Errno" => Len(w) >= 1
  <2>1. Len(z) \in Nat /\ Len(v) \in Nat
    OBVIOUS
  <2>2. QED
    BY <1>3, <1>5, <2>1
<1>7. QED
  BY <1>5, <1>6 DEF Fits

(* What printf writes for an argument that is not padded with blanks, or   *)
(* is a text, is of the class of its conversion.                           *)
LEMMA WrittenFits ==
  ASSUME NEW p, ~IsText(p), IsConversion(p), Unpadded(p), NEW w \in Written(p)
  PROVE  /\ w \in Seq(Byte) /\ WellFormed(w) /\ (p.conv = "n" => w = <<>>)
         /\ p.conv # "n" => Fits(conversion_kind(p.conv), w)
<1> DEFINE c == p.conv
           kind == conversion_kind(c)
<1>1. c \in Conversion \ HexFloat
  BY DEF IsConversion, Unpadded, HexFloat, IsText
<1>2. PICK width \in Nat, v \in Value[c] :
        w = Printed(p, width, v) /\ (p.width = <<>> \/ c = "n" => width = 0)
  <2>1. PICK x \in Widths(p), v \in Value[c] : w = Printed(p, x, v)
    BY DEF Written
  <2>2. x \in Nat /\ (p.width = <<>> \/ c = "n" => x = 0)
    BY PrintedAssumption DEF Widths
  <2>3. QED
    BY <2>1, <2>2
<1>3. v \in Seq(Byte) /\ IsValue(c, v)
  BY <1>1, <1>2, PrintedAssumption
<1>4. WellFormed(v) /\ (c = "n" => v = <<>>) /\ (c # "n" => Fits(kind, v))
  BY <1>1, <1>3, ValueFits
<1>5. PICK h \in Seq(Byte), b \in Seq(Byte), f \in Seq({Blank}), z \in Seq({"0"}) :
        /\ \/ ~Negative(c, v) /\ h = <<>> /\ b = v
           \/ Negative(c, v) /\ h = <<"-">> /\ b = Tail(v)
        /\ width = 0 => f = <<>> /\ z = <<>>
        /\ \/ /\ ~ZeroFilled(p)
              /\ Printed(p, width, v) = h \o b \o f \/ Printed(p, width, v) = f \o h \o b
           \/ /\ ZeroFilled(p)
              /\ Printed(p, width, v) = h \o z \o b
  <2>1. FilledUp(p, width, v)
    BY <1>1, <1>3, PrintedParts
  <2>2. QED
    BY <2>1 DEF FilledUp
<1>6. h \o b = v
  BY <1>3, <1>5, SignedValue
<1>7. CASE width = 0
  <2>1. f = <<>> /\ z = <<>>
    BY <1>5, <1>7
  <2>2. v \o <<>> = v /\ <<>> \o h = h /\ h \o <<>> = h
    BY <1>3
  <2>3. w = v
    BY <1>2, <1>5, <1>6, <2>1, <2>2
  <2>4. QED
    BY <1>3, <1>4, <2>3
<1>8. CASE c \in {"s", "m"}
  <2>1. kind \in {"Str", "Errno"} /\ c \notin Signed /\ c \notin Numeric /\ c # "n"
    BY <1>8 DEF conversion_kind, FloatConv, Signed, Numeric
  <2>2. h = <<>> /\ b = v
    BY <1>5, <2>1 DEF Negative
  <2>3. w = h \o b \o f \/ w = f \o h \o b
    BY <1>2, <1>5, <2>1 DEF ZeroFilled
  <2>4. f \in Seq(OneByte)
    BY OneByteTexts, Wider
  <2>5. w = v \o f \/ w = f \o v
    <3>1. f \o <<>> = f
      OBVIOUS
    <3>2. QED
      BY <1>6, <2>2, <2>3, <3>1
  <2>6. QED
    BY <1>3, <1>4, <2>1, <2>4, <2>5, BlanksFit
<1>9. CASE width # 0 /\ c \notin {"s", "m"}
  <2>1. ZeroFilled(p) /\ c \in Numeric /\ c # "n"
    BY <1>2, <1>9 DEF Unpadded, ZeroFilled
  <2>2. w = h \o z \o b
    BY <1>2, <1>5, <2>1
  <2>3. b = Magnitude(c, v) /\ h \in {<<>>, <<"-">>} /\ (h # <<>> => c \in Signed)
    BY <1>5 DEF Magnitude, Negative
  <2>4. c \notin {"s", "m", "n", "c", "p"}
    BY <2>1 DEF Numeric, Signed, FloatConv
  <2>5. b \in Seq(NumberByte(c)) /\ b # <<>>
    BY <1>3, <2>3, <2>4 DEF IsValue
  <2>6. "0" \in NumberByte(c) /\ "0" \in Byte
    BY AlphabetAssumption, PrintedAssumption DEF NumberByte
  <2>7. z \in Seq(NumberByte(c)) /\ z \in Seq(Byte)
    BY <2>6, Wider
  <2>8. z \o b \in Seq(NumberByte(c)) /\ z \o b # <<>>
    <3>1. z \o b \in Seq(NumberByte(c)) /\ Len(z \o b) = Len(z) + Len(b)
      BY <2>5, <2>7, ConcatProperties
    <3>2. Len(z) \in Nat /\ Len(b) \in Nat /\ Len(b) > 0
      BY <2>5
    <3>3. QED
      BY <3>1, <3>2
  <2>9. h \o (z \o b) \in Seq(OneByte) /\ Fits(kind, h \o (z \o b))
    BY <1>1, <2>1, <2>3, <2>8, NumberFits
  <2>10. h \o (z \o b) = h \o z \o b
    BY <2>7, ConcatAssociative
  <2>11. QED
    BY <2>1, <2>2, <2>9, <2>10, OneByteTexts
<1>10. QED
  BY <1>7, <1>8, <1>9

(* The lines of the first pieces, in which each piece writes texts.        *)
LEMMA LinesGrow ==
  ASSUME NEW ps, Len(ps) \in Nat, \A k \in 1 .. Len(ps) : Written(ps[k]) \subseteq Seq(Byte)
  PROVE  /\ Lines(ps)[0] = {<<>>}
         /\ \A k \in 1 .. Len(ps) : Lines(ps)[k] = Continued(Lines(ps)[k - 1], ps[k])
<1> DEFINE n == Len(ps)
           V == SUBSET Seq(Byte)
           body(f, k) == IF k = 0 THEN {<<>>} ELSE Continued(f[k - 1], ps[k])
           upto == CHOOSE f : f = [ k \in 0 .. n |-> body(f, k) ]
           step == [ k \in 1 .. n |-> [ x \in V |-> Continued(x, ps[k]) ] ]
<1>1. Steps(n, V, {<<>>}, step)
  <2>1. ASSUME NEW k \in 1 .. n, NEW x \in V PROVE Continued(x, ps[k]) \in V
    <3>1. ASSUME NEW y \in Continued(x, ps[k]) PROVE y \in Seq(Byte)
      <4>1. PICK l \in x, t \in Written(ps[k]) : y = l \o t
        BY DEF Continued
      <4>2. l \in Seq(Byte) /\ t \in Seq(Byte)
        OBVIOUS
      <4>3. QED
        BY <4>1, <4>2, ConcatProperties
    <3>2. QED
      BY <3>1
  <2> HIDE DEF V
  <2>2. step \in [1 .. n -> [V -> V]]
    BY <2>1
  <2>3. {<<>>} \in V
    <3>1. <<>> \in Seq(Byte)
      OBVIOUS
    <3>2. QED
      BY <3>1 DEF V
  <2>4. QED
    BY <2>2, <2>3 DEF Steps
<1>2. PICK f : Follows(f, n, V, {<<>>}, step)
  <2> HIDE DEF step, n, V
  <2>1. QED
    BY <1>1, Recurrence
<1> HIDE DEF V
<1>3. /\ f \in [0 .. n -> V] /\ f[0] = {<<>>}
      /\ \A k \in 1 .. n : f[k] = step[k][f[k - 1]]
  BY <1>2 DEF Follows
<1>4. \A k \in 1 .. n : f[k] = Continued(f[k - 1], ps[k])
  <2> TAKE k \in 1 .. n
  <2>1. k - 1 \in 0 .. n
    OBVIOUS
  <2>2. f[k - 1] \in V
    BY <1>3, <2>1
  <2>3. step[k][f[k - 1]] = Continued(f[k - 1], ps[k])
    BY <2>2
  <2>4. QED
    BY <1>3, <2>3
<1> HIDE DEF step
<1>5. f = [ k \in 0 .. n |-> body(f, k) ]
  <2>1. \A k \in 0 .. n : f[k] = body(f, k)
    BY <1>3, <1>4
  <2>2. f = [ k \in 0 .. n |-> f[k] ]
    BY <1>3
  <2> HIDE DEF body
  <2>3. QED
    BY <2>1, <2>2
<1>6. upto = [ k \in 0 .. n |-> body(upto, k) ]
  <2> HIDE DEF body
  <2>1. QED
    BY <1>5
<1> HIDE DEF upto
<1>7. \A k \in 0 .. n : upto[k] = body(upto, k)
  <2> HIDE DEF body
  <2>1. QED
    BY <1>6
<1>8. upto[0] = {<<>>} /\ \A k \in 1 .. n : upto[k] = Continued(upto[k - 1], ps[k])
  BY <1>7
<1>9. Lines(ps) = upto
  BY DEF Lines, upto, body, n
<1>10. QED
  BY <1>8, <1>9

(* A line of the first pieces is a sample of their bare form; the text at  *)
(* its end may still grow.                                                 *)
Renderable(toks, l) ==
  \E T \in Seq(Token), x \in Seq(Byte), s \in Seq(Byte) : \E cut :
    /\ T = <<>> \/ T[Len(T)].kind # "Lit"
    /\ toks = IF x = <<>> THEN T ELSE Append(T, LitTok(x))
    /\ WellFormed(x) /\ WellFormed(s) /\ l = s \o x /\ Renders(T, s, cut)

LEMMA RenderableRenders ==
  ASSUME NEW toks, NEW l, Renderable(toks, l)
  PROVE  toks \in Seq(Token) /\ l \in Seq(Byte) /\ WellFormed(l) /\ \E cut : Renders(toks, l, cut)
<1>1. PICK T \in Seq(Token), x \in Seq(Byte), s \in Seq(Byte) : \E cut :
        /\ toks = IF x = <<>> THEN T ELSE Append(T, LitTok(x))
        /\ WellFormed(x) /\ WellFormed(s) /\ l = s \o x /\ Renders(T, s, cut)
  BY DEF Renderable
<1>2. PICK cut : Renders(T, s, cut)
  BY <1>1
<1>3. l \in Seq(Byte) /\ WellFormed(l)
  BY <1>1, ConcatWellFormed
<1>4. CASE x = <<>>
  <2>1. l = s /\ toks = T
    BY <1>1, <1>4
  <2>2. QED
    BY <1>2, <1>3, <2>1
<1>5. CASE x # <<>>
  <2>1. LitTok(x) \in Token /\ MadeFor(LitTok(x), x)
    BY <1>5 DEF Token, LitTok, MadeFor
  <2>2. toks = Append(T, LitTok(x)) /\ l = s \o x
    BY <1>1, <1>5
  <2>3. Renders(toks, l, Append(cut, Len(s) + Len(x)))
    BY <1>1, <1>2, <2>1, <2>2, RendersGrow
  <2>4. toks \in Seq(Token)
    BY <2>1, <2>2, AppendProperties
  <2>5. QED
    BY <1>3, <2>3, <2>4
<1>6. QED
  BY <1>4, <1>5

LEMMA TextLengthens ==
  ASSUME NEW T \in Seq(Token), NEW x \in Seq(Byte), x # <<>>, NEW p, IsText(p), p.char \in Char
  PROVE  Extended(Append(T, LitTok(x)), p) = Append(T, LitTok(x \o Utf8[p.char]))
<1> DEFINE u == Utf8[p.char]
<1>1. u \in Seq(Byte)
  BY LoweringAssumption
<1> HIDE DEF u
<1>2. PICK t : t = Append(T, LitTok(x))
  OBVIOUS
<1>3. /\ t # <<>> /\ t[Len(t)].kind = "Lit"
      /\ [t EXCEPT ![Len(t)].text = @ \o u] = Append(T, LitTok(x \o u))
  BY <1>1, <1>2, LastLengthens
<1>4. Extended(t, p) = [t EXCEPT ![Len(t)].text = @ \o u]
  BY <1>3 DEF Extended, IsText, NoChar, u
<1>5. QED
  BY <1>2, <1>3, <1>4 DEF u

(* One more piece, and what it writes.                                     *)
LEMMA RenderableGrows ==
  ASSUME NEW toks, NEW l, Renderable(toks, l), NEW p,
         (IsText(p) /\ p.char \in Char) \/ (~IsText(p) /\ IsConversion(p)), Unpadded(p),
         NEW w \in Written(p)
  PROVE  Renderable(Extended(toks, p), l \o w)
<1>1. PICK T \in Seq(Token), x \in Seq(Byte), s \in Seq(Byte) : \E cut :
        /\ T = <<>> \/ T[Len(T)].kind # "Lit"
        /\ toks = IF x = <<>> THEN T ELSE Append(T, LitTok(x))
        /\ WellFormed(x) /\ WellFormed(s) /\ l = s \o x /\ Renders(T, s, cut)
  BY DEF Renderable
<1>2. PICK cut : Renders(T, s, cut)
  BY <1>1
<1>3. CASE IsText(p)
  <2> DEFINE u == Utf8[p.char]
  <2>1. u \in Seq(Byte) /\ WellFormed(u) /\ u # <<>> /\ w = u
    <3>1. p.char \in Char
      BY <1>3
    <3>2. w = u
      BY <1>3 DEF Written
    <3>3. QED
      BY <3>1, <3>2, LoweringAssumption
  <2> HIDE DEF u
  <2>2. PICK xw \in Seq(Byte) : xw = x \o u /\ WellFormed(xw)
    BY <1>1, <2>1, ConcatWellFormed
  <2>3. xw # <<>>
    <3>1. Len(xw) = Len(x) + Len(u) /\ Len(x) \in Nat /\ Len(u) \in Nat /\ Len(u) > 0
      BY <2>1, <2>2, ConcatProperties
    <3>2. QED
      BY <3>1
  <2>4. l \o w = s \o xw
    <3>1. (s \o x) \o u = s \o (x \o u)
      BY <2>1, ConcatAssociative
    <3>2. QED
      BY <1>1, <2>1, <2>2, <3>1
  <2>5. Extended(toks, p) = Append(T, LitTok(xw))
    <3>1. CASE x = <<>>
      <4>1. toks = T /\ xw = u
        BY <1>1, <2>1, <2>2, <3>1
      <4>2. ~(toks # <<>> /\ toks[Len(toks)].kind = "Lit")
        BY <1>1, <4>1
      <4>3. Extended(toks, p) = Append(toks, LitTok(u))
        BY <1>3, <4>2 DEF Extended, IsText, NoChar, u
      <4>4. QED
        BY <4>1, <4>3
    <3>2. CASE x # <<>>
      <4>1. toks = Append(T, LitTok(x)) /\ p.char \in Char
        BY <1>1, <1>3, <3>2
      <4>2. Extended(Append(T, LitTok(x)), p) = Append(T, LitTok(x \o u))
        BY <1>3, <3>2, <4>1, TextLengthens DEF u
      <4>3. QED
        BY <2>2, <4>1, <4>2
    <3>3. QED
      BY <3>1, <3>2
  <2>6. QED
    BY <1>1, <1>2, <2>2, <2>3, <2>4, <2>5 DEF Renderable
<1>4. CASE ~IsText(p) /\ p.conv = "n"
  <2>1. Extended(toks, p) = toks
    BY <1>4 DEF Extended
  <2>2. w = <<>> /\ l \in Seq(Byte)
    BY <1>4, WrittenFits, RenderableRenders
  <2>3. l \o w = l
    BY <2>2
  <2>4. QED
    BY <2>1, <2>3
<1>5. CASE ~IsText(p) /\ p.conv # "n"
  <2> DEFINE tok == SpecTok(conversion_kind(p.conv))
             new == Append(toks, tok)
  <2>1. conversion_kind(p.conv) \in Kind
    BY <1>5 DEF IsConversion, Conversion, FloatConv, conversion_kind, Kind
  <2>2. tok \in Token /\ tok.kind \in Kind /\ tok.kind # "Lit"
    BY <2>1 DEF SpecTok, Token, Kind
  <2>3. w \in Seq(Byte) /\ WellFormed(w) /\ MadeFor(tok, w)
    <3>1. w \in Seq(Byte) /\ WellFormed(w) /\ Fits(conversion_kind(p.conv), w)
      BY <1>5, WrittenFits
    <3>2. QED
      BY <2>2, <3>1 DEF MadeFor, SpecTok
  <2>4. Extended(toks, p) = new
    BY <1>5 DEF Extended
  <2> HIDE DEF tok
  <2>5. /\ toks \in Seq(Token) /\ l \in Seq(Byte) /\ WellFormed(l)
        /\ \E c : Renders(toks, l, c)
    BY RenderableRenders
  <2>6. PICK c : Renders(new, l \o w, c)
    BY <2>2, <2>3, <2>5, RendersGrow
  <2>7. new \in Seq(Token) /\ new # <<>> /\ new[Len(new)].kind # "Lit"
    BY <2>2, <2>5, AppendProperties
  <2>8. l \o w \in Seq(Byte) /\ WellFormed(l \o w)
    BY <2>3, <2>5, ConcatWellFormed
  <2> HIDE DEF new
  <2>9. PICK lw \in Seq(Byte) : lw = l \o w /\ WellFormed(lw) /\ Renders(new, lw, c)
    BY <2>6, <2>8
  <2>10. lw = lw \o <<>> /\ <<>> \in Seq(Byte) /\ WellFormed(<<>>)
    BY DEF WellFormed
  <2>11. Renderable(new, lw)
    BY <2>7, <2>9, <2>10 DEF Renderable
  <2>12. QED
    BY <2>4, <2>9, <2>11
<1>6. QED
  BY <1>3, <1>4, <1>5

(* The lines of a format that is meant are samples of its bare form.       *)
LEMMA LinesAreRendered ==
  ASSUME NEW ps, NEW f, MeantBy(ps, f), \A k \in 1 .. Len(ps) : Unpadded(ps[k]),
         NEW l \in Lines(ps)[Len(ps)]
  PROVE  Renderable(Bare(ps)[Len(ps)], l)
<1> DEFINE n == Len(ps)
           P == { k \in 0 .. n : \A t \in Lines(ps)[k] : Renderable(Bare(ps)[k], t) }
<1>1. /\ n \in Nat /\ Bare(ps)[0] = <<>>
      /\ \A k \in 1 .. n : Bare(ps)[k] = Extended(Bare(ps)[k - 1], ps[k])
  BY MeantFacts
<1>2. ASSUME NEW k \in 1 .. n
      PROVE  (IsText(ps[k]) /\ ps[k].char \in Char) \/ (~IsText(ps[k]) /\ IsConversion(ps[k]))
  BY PieceStands
<1>3. ASSUME NEW k \in 1 .. n PROVE Written(ps[k]) \subseteq Seq(Byte)
  <2>1. CASE IsText(ps[k])
    <3>1. Written(ps[k]) = {Utf8[ps[k].char]} /\ ps[k].char \in Char
      BY <1>2, <2>1 DEF Written
    <3>2. QED
      BY <3>1, LoweringAssumption
  <2>2. CASE ~IsText(ps[k])
    <3>1. IsConversion(ps[k]) /\ Unpadded(ps[k])
      BY <1>2, <2>2
    <3>2. QED
      BY <2>2, <3>1, WrittenFits
  <2>3. QED
    BY <2>1, <2>2
<1>4. /\ Lines(ps)[0] = {<<>>}
      /\ \A k \in 1 .. n : Lines(ps)[k] = Continued(Lines(ps)[k - 1], ps[k])
  BY <1>1, <1>3, LinesGrow
<1>5. 0 \in P
  <2>1. Renders(<<>>, <<>>, <<0>>)
    BY DEF Renders, Boundary
  <2>2. <<>> \in Seq(Token) /\ <<>> \in Seq(Byte) /\ WellFormed(<<>>) /\ <<>> \o <<>> = <<>>
    BY DEF WellFormed
  <2>3. Renderable(<<>>, <<>>)
    BY <2>1, <2>2 DEF Renderable
  <2>4. QED
    BY <1>1, <1>4, <2>3
<1>6. ASSUME NEW k \in 1 .. n, k - 1 \in P PROVE k \in P
  <2>1. ASSUME NEW t \in Lines(ps)[k - 1], NEW w \in Written(ps[k])
        PROVE  Renderable(Extended(Bare(ps)[k - 1], ps[k]), t \o w)
    <3>1. Renderable(Bare(ps)[k - 1], t)
      BY <1>6
    <3>2. QED
      BY <1>2, <3>1, RenderableGrows
  <2>2. ASSUME NEW y \in Lines(ps)[k] PROVE Renderable(Bare(ps)[k], y)
    <3>1. y \in Continued(Lines(ps)[k - 1], ps[k])
      BY <1>4
    <3>2. PICK t \in Lines(ps)[k - 1], w \in Written(ps[k]) : y = t \o w
      BY <3>1 DEF Continued
    <3>3. QED
      BY <1>1, <2>1, <3>2
  <2>3. QED
    BY <2>2
<1> HIDE DEF P
<1>7. n \in P
  <2>1. \A k \in 0 .. n : k \in P
    BY <1>1, <1>5, <1>6, Climbs
  <2>2. QED
    BY <1>1, <2>1
<1>8. QED
  BY <1>7 DEF P

(* Whatever printf writes for the arguments of a format that neither pads  *)
(* numbers with blanks nor asks for a sign or a 0x, the line resolves to   *)
(* the tokens lower_format made of the format.                             *)
THEOREM PlainLinesAreResolved == Spec => []PlainLinesResolve
<1>1. ASSUME TokInv, PiecesInv, phase = "done", pieces # <<>>,
             \A k \in DOMAIN pieces : Unpadded(pieces[k]), NEW l \in Lines(pieces)[Len(pieces)]
      PROVE  Captures(lowered.tokens, l) # NoMatch
  <2>1. MeantBy(pieces, fmt) /\ lowered.tokens = Bare(pieces)[Len(pieces)]
    BY <1>1 DEF PiecesInv
  <2>2. \A k \in 1 .. Len(pieces) : Unpadded(pieces[k])
    BY <1>1, <2>1 DEF MeantBy
  <2>3. Renderable(lowered.tokens, l)
    BY <1>1, <2>1, <2>2, LinesAreRendered
  <2>4. QED
    BY <2>3, RenderableRenders, RenderedIsCaptured
<1>2. TokInv /\ PiecesInv => PlainLinesResolve
  BY <1>1 DEF PlainLinesResolve, AllResolve
<1>3. QED
  BY <1>2, AlwaysPieces, PTL
===============================================================================
