---------------------------- MODULE PrintfPattern ----------------------------
(***************************************************************************)
(* The vocabulary shared by the scanner's modules: bytes and UTF-8 text,   *)
(* the token sequence a printf format is lowered to, and the meaning of    *)
(* the anchored regular expression that token sequence stands for.         *)
(*                                                                         *)
(* A position p is a byte offset as in the Rust code, 0 .. Len(s); the     *)
(* byte at offset p is s[p + 1].                                           *)
(***************************************************************************)
EXTENDS Integers, Sequences, FiniteSets

CONSTANTS
  Byte,        \* the byte values the instance uses
  Cont,        \* UTF-8 continuation bytes
  Width,       \* [Byte \ Cont -> 1 .. 4]: length of the char a lead byte starts
  Newline,     \* the byte '\n'
  Minus,       \* the byte '-'
  Digit,       \* u8::is_ascii_digit
  Octal,       \* '0' ..= '7'
  Hex,         \* u8::is_ascii_hexdigit
  Float,       \* FLOAT_CLASS
  WideDigit,   \* encodings of the non-ASCII chars that the regex class \d holds
  HexPrefix,   \* the text "0x"
  NilText      \* the text "(nil)"

(* A C/Postgres conversion class (SpecKind); "Lit" marks a literal token.  *)
Kind == {"Str", "Int", "Uint", "Oct", "Hex", "Float", "Char", "Ptr", "Errno"}

(* The classes whose regex fragment is lazy, (.*?) and (.+?).              *)
LazyKind == {"Str", "Errno"}

(* A token: a literal run, or a spec (which carries no text).              *)
Token == [kind : {"Lit"}, text : Seq(Byte) \ {<<>>}] \cup [kind : Kind, text : {<<>>}]

LitTok(t) == [kind |-> "Lit", text |-> t]
SpecTok(k) == [kind |-> k, text |-> <<>>]

(***************************************************************************)
(* UTF-8 text.  Rust's str is well-formed by its type: every lead byte is  *)
(* followed by exactly its continuation bytes.                             *)
(***************************************************************************)
WellFormed(s) ==
  /\ s # <<>> => s[1] \notin Cont
  /\ \A i \in 1 .. Len(s) : s[i] \notin Cont =>
       /\ i + Width[s[i]] - 1 <= Len(s)
       /\ \A j \in i + 1 .. i + Width[s[i]] - 1 : s[j] \in Cont
       /\ i + Width[s[i]] <= Len(s) => s[i + Width[s[i]]] \notin Cont

(* str::is_char_boundary: slicing a str anywhere else panics.              *)
Boundary(s, p) ==
  /\ p \in 0 .. Len(s)
  /\ p < Len(s) => s[p + 1] \notin Cont

StartsWith(s, p, t) ==
  /\ p + Len(t) <= Len(s)
  /\ SubSeq(s, p + 1, p + Len(t)) = t

ASSUME AlphabetAssumption ==
  /\ Cont \subseteq Byte
  /\ Width \in [Byte \ Cont -> 1 .. 4]
  /\ Octal \subseteq Digit /\ Digit \subseteq Hex /\ Digit \subseteq Float
  /\ Newline \in Byte \ Cont /\ Minus \in Float \ Hex
  /\ Hex \cup Float \subseteq Byte \ (Cont \cup {Newline})
  /\ \A b \in Hex \cup Float \cup {Newline} : Width[b] = 1
  /\ HexPrefix \in Seq(Byte) /\ Len(HexPrefix) = 2 /\ WellFormed(HexPrefix)
  /\ NilText \in Seq(Byte) /\ Len(NilText) = 5 /\ WellFormed(NilText)
  /\ \A i \in 1 .. 5 : NilText[i] # Newline
  /\ HexPrefix[1] # NilText[1]
  /\ WideDigit \subseteq Seq(Byte)

(* What lower_format produces: no empty literal and no two literals in a   *)
(* row, because a literal run is flushed only when a spec follows it.      *)
IsPattern(toks) ==
  /\ toks \in Seq(Token)
  /\ \A i \in 1 .. Len(toks) : WellFormed(toks[i].text)
  /\ \A i \in 1 .. Len(toks) - 1 : ~(toks[i].kind = "Lit" /\ toks[i + 1].kind = "Lit")

-----------------------------------------------------------------------------
(***************************************************************************)
(* What each regex fragment matches: Segment(tok, s, a, b) holds when the  *)
(* slice s[a .. b) is in the language of tok's fragment.                   *)
(***************************************************************************)

(* .*  (no newline, whole chars)                                           *)
Dots(s, a, b) ==
  /\ a <= b /\ Boundary(s, a) /\ Boundary(s, b)
  /\ \A p \in a .. b - 1 : s[p + 1] # Newline

(* One or more bytes of an ASCII class.                                    *)
RunOf(C, s, a, b) ==
  /\ a < b
  /\ \A p \in a .. b - 1 : s[p + 1] \in C

(* \d+ : the regex crate's \d is the Unicode class of decimal digits.      *)
Digits(s, a, b) ==
  /\ a < b /\ Boundary(s, a) /\ Boundary(s, b)
  /\ \A p \in a .. b - 1 : s[p + 1] \notin Cont =>
       \/ s[p + 1] \in Digit
       \/ SubSeq(s, p + 1, p + Width[s[p + 1]]) \in WideDigit

Segment(tok, s, a, b) ==
  CASE tok.kind = "Lit"   -> a + Len(tok.text) = b /\ StartsWith(s, a, tok.text)
    [] tok.kind = "Str"   -> Dots(s, a, b)
    [] tok.kind = "Errno" -> a < b /\ Dots(s, a, b)
    [] tok.kind = "Char"  -> a < b /\ Dots(s, a, b) /\ b = a + Width[s[a + 1]]
    [] tok.kind = "Int"   -> \/ Digits(s, a, b)
                             \/ a < b /\ s[a + 1] = Minus /\ Digits(s, a + 1, b)
    [] tok.kind = "Uint"  -> Digits(s, a, b)
    [] tok.kind = "Oct"   -> RunOf(Octal, s, a, b)
    [] tok.kind = "Hex"   -> RunOf(Hex, s, a, b)
    [] tok.kind = "Float" -> RunOf(Float, s, a, b)
    [] tok.kind = "Ptr"   -> \/ StartsWith(s, a, HexPrefix) /\ RunOf(Hex, s, a + 2, b)
                             \/ a + Len(NilText) = b /\ StartsWith(s, a, NilText)

(* cut is a way to match the whole line: token i covers cut[i] .. cut[i+1]. *)
(* The captures are the slices of the spec tokens.                         *)
IsParse(toks, s, cut) ==
  /\ Len(cut) = Len(toks) + 1
  /\ cut[1] = 0
  /\ cut[Len(cut)] = Len(s)
  /\ \A i \in 1 .. Len(toks) : Segment(toks[i], s, cut[i], cut[i + 1])

(* All parses, built one token at a time.                                  *)
Parses(toks, s) ==
  LET partial[i \in 0 .. Len(toks)] ==
        IF i = 0 THEN {<<0>>}
        ELSE UNION { { Append(c, e) : e \in { x \in c[i] .. Len(s) :
                                              Segment(toks[i], s, c[i], x) } }
                     : c \in partial[i - 1] }
  IN { c \in partial[Len(toks)] : c[Len(c)] = Len(s) }

(* Leftmost-first preference: at the first token where two parses differ,  *)
(* a lazy fragment prefers the shorter slice, any other the longer.        *)
Prefers(toks, c, d) ==
  \E i \in 1 .. Len(toks) :
     /\ \A j \in 1 .. i : c[j] = d[j]
     /\ IF toks[i].kind \in LazyKind THEN c[i + 1] < d[i + 1] ELSE c[i + 1] > d[i + 1]

(* A parse has at least one position, so the empty sequence can say "none". *)
NoMatch == <<>>

(* Regex::captures on the anchored pattern: the preferred parse, if any.   *)
Captures(toks, s) ==
  LET all == Parses(toks, s)
  IN IF all = {} THEN NoMatch
     ELSE CHOOSE c \in all : \A d \in all \ {c} : Prefers(toks, c, d)
==============================================================================
