------------------------------ MODULE MCAlphabet ------------------------------
(***************************************************************************)
(* The bytes TLC uses.  ASCII bytes are named by their character, "nl" is  *)
(* '\n'.  Some chars take two bytes: e1 e2 is a letter (U+00E9), t1 t2 a   *)
(* decimal digit that is not ASCII (U+0663), D1 D2 the dotted capital I    *)
(* (U+0130), c1 c2 a combining dot (U+0307), S1 S2, s1 s2 and f1 f2 the    *)
(* capital, small and final sigma, o1 o2 and O1 O2 an omicron.             *)
(***************************************************************************)
EXTENDS Naturals, Sequences, SequencesExt

MCCont  == {"e2", "t2", "D2", "c2", "S2", "s2", "f2", "o2", "O2"}
MCLead  == {"e1", "t1", "D1", "c1", "S1", "s1", "f1", "o1", "O1"}
MCAscii == {"0", "9", "a", "A", "x", "-", "q", "nl", "(", "n", "i", "l", ")", "."}
MCByte  == MCAscii \cup MCLead \cup MCCont
MCWidth == [b \in MCAscii \cup MCLead |-> IF b \in MCLead THEN 2 ELSE 1]
MCDigit == {"0", "9"}
MCHex   == {"0", "9", "a", "A"}
MCFloat == {"0", "9", "a", "A", "x", "-", "n", "."}
MCOctal == {"0"}
MCHexPrefix == <<"0", "x">>
MCNilText   == <<"(", "n", "i", "l", ")">>

Letter == <<"e1", "e2">>
Arabic == <<"t1", "t2">>
DottedI == <<"D1", "D2">>
CombiningDot == <<"c1", "c2">>
MCSigma == <<"S1", "S2">>
MCSmallSigma == <<"s1", "s2">>
MCFinalSigma == <<"f1", "f2">>
Omicron == <<"o1", "o2">>
CapitalOmicron == <<"O1", "O2">>

MCWideDigit == {Arabic}

UpTo(S, m) == UNION { [1 .. i -> S] : i \in 0 .. m }

(* Lines of at most m of the given pieces.                                 *)
LinesOf(pieces, m) == { FlattenSeq(s) : s \in UpTo(pieces, m) }
===============================================================================
