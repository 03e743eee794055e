----------------------------- MODULE SpecMatcher -----------------------------
(***************************************************************************)
(* SpecMatcher of logref-core: one pattern is tried on one line.  The      *)
(* anchor literal decides whether the pattern is a candidate, two cheap    *)
(* tests may reject it, and match_toks walks the tokens, backtracking into *)
(* a spec when what follows it fails.                                      *)
(*                                                                         *)
(* match_toks calls itself once per spec.  The frames of those calls are   *)
(* the variable cut: cut[i] is the position at which token i was tried     *)
(* (the frame's pos) and cut[i + 1] the end it tries now (e, ls or end in  *)
(* the code), so the capture of spec token i is cut[i] .. cut[i + 1].      *)
(***************************************************************************)
EXTENDS AnchorFilter

CONSTANT Inputs   \* sets of patterns, each with the lines they are tried on

ASSUME InputsAssumption ==
  \A x \in Inputs : /\ \A p \in x.patterns : IsPattern(p)
                    /\ \A s \in x.lines : s \in Seq(Byte) /\ WellFormed(s)

VARIABLES
  toks,    \* the tokens of the pattern (MPat.toks)
  line,    \* the scanned line
  pc,      \* where scan_line is with this pattern
  cut      \* the positions of the frames of match_toks

vars == <<toks, line, pc, cut>>

Phase == {"candidate", "verify", "walk", "fail", "matched", "nomatch"}

n == Len(line)
At(p) == line[p + 1]

-----------------------------------------------------------------------------
(* The end of the run of bytes of class C that starts at p.                *)
RunEnd(C, p) == Least({ e \in p .. n : e < n => At(e) \notin C })

ClassOf(k) == CASE k = "Oct" -> Octal [] k \in {"Hex", "Ptr"} -> Hex [] k = "Float" -> Float
                [] OTHER -> Digit

NoEnd == -1

(* A greedy class never gives back its last byte: tried at a, the shortest *)
(* slice it may keep ends at FloorIn + 1.  %d may start with a '-'.        *)
FloorIn(s, k, a) ==
  CASE k = "Int" -> (IF a < Len(s) /\ s[a + 1] = Minus THEN a + 1 ELSE a)
    [] k = "Ptr" -> a + 2
    [] OTHER -> a

GreedyFloor(k, a) == FloorIn(line, k, a)

(* Faulty: the gap grows by one byte.                                      *)
GapStepByByte(e) == IF e < n /\ At(e) # Newline THEN e + 1 ELSE NoEnd

(* Faulty: a two-byte lead is taken for a three-byte one.                  *)
GapStepTooWide(e) ==
  IF e < n /\ At(e) # Newline
  THEN e + (IF Width[At(e)] = 2 THEN 3 ELSE Width[At(e)]) ELSE NoEnd

(* One more char of a lazy gap, which cannot cross a newline.              *)
GapStep(e) == IF e < n /\ At(e) # Newline THEN e + Width[At(e)] ELSE NoEnd

(* Faulty: the literal is looked for beyond the newline.                   *)
GapToLiteralAcrossLines(p, f, text) ==
  LET found == { e \in f .. n : StartsWith(line, e, text) }
  IN IF found # {} THEN Least(found) ELSE NoEnd

(* memmem from position f, for a gap that began at p: the first occurrence *)
(* of the literal, unless the gap would swallow a newline.                 *)
GapToLiteral(p, f, text) ==
  LET found == { e \in f .. n : StartsWith(line, e, text) }
      ls == Least(found)
  IN IF found # {} /\ \A q \in p .. ls - 1 : At(q) # Newline THEN ls ELSE NoEnd

(* %s may be empty, %m takes at least one char.                            *)
MinOne(k) == k = "Errno"

-----------------------------------------------------------------------------
Init ==
  /\ \E x \in Inputs : toks \in x.patterns /\ line \in x.lines
  /\ pc = "candidate"
  /\ cut = <<0>>

Answer(phase) == pc' = phase /\ UNCHANGED <<toks, line, cut>>

(* candidates: the sweep for the anchor literals.                          *)
Nominate == pc = "candidate" /\ IsCandidate(toks, line) /\ Answer("verify")
Prune    == pc = "candidate" /\ ~IsCandidate(toks, line) /\ Answer("nomatch")

(* verify: the two cheap rejects.                                          *)
TooShort == n < WidthSum(toks, 1, Len(toks))

MissesSuffix ==
  /\ toks # <<>> /\ toks[Len(toks)].kind = "Lit"
  /\ LET text == toks[Len(toks)].text
     IN ~(Len(text) <= n /\ StartsWith(line, n - Len(text), text))

RejectEarly == pc = "verify" /\ (TooShort \/ MissesSuffix) /\ Answer("nomatch")
BeginWalk   == pc = "verify" /\ ~TooShort /\ ~MissesSuffix /\ Answer("walk")

(* match_toks is trying token number depth at position pos.                *)
depth == Len(cut)
pos == cut[depth]

Entering(kinds) == pc = "walk" /\ depth <= Len(toks) /\ toks[depth].kind \in kinds

(* Try the end e for the current token, or return false.                   *)
Try(e) ==
  /\ IF e = NoEnd THEN pc' = "fail" /\ UNCHANGED cut
                  ELSE cut' = Append(cut, e) /\ UNCHANGED pc
  /\ UNCHANGED <<toks, line>>

(* A gap before a literal jumps past the occurrence it found: the literal  *)
(* is consumed with it.                                                    *)
TryBeforeLiteral(prefix, ls, text) ==
  /\ IF ls = NoEnd THEN cut' = prefix /\ pc' = "fail"
                   ELSE cut' = prefix \o <<ls, ls + Len(text)>> /\ pc' = "walk"
  /\ UNCHANGED <<toks, line>>

EndOfPattern ==
  /\ pc = "walk" /\ depth > Len(toks)
  /\ Answer(IF pos = n THEN "matched" ELSE "fail")

Literal ==
  /\ Entering({"Lit"})
  /\ Try(IF StartsWith(line, pos, toks[depth].text) THEN pos + Len(toks[depth].text) ELSE NoEnd)

Char == Entering({"Char"}) /\ Try(GapStep(pos))

(* -?\d+ and the byte classes: the longest run first.                      *)
Number ==
  /\ Entering({"Int", "Uint", "Oct", "Hex", "Float"})
  /\ LET start == GreedyFloor(toks[depth].kind, pos)
         e == RunEnd(ClassOf(toks[depth].kind), start)
     IN Try(IF e > start THEN e ELSE NoEnd)

(* 0x and hex digits, or (nil): at most one arm applies at a position.     *)
Pointer ==
  /\ Entering({"Ptr"})
  /\ IF StartsWith(line, pos, HexPrefix) /\ RunEnd(Hex, pos + 2) > pos + 2
     THEN Try(RunEnd(Hex, pos + 2))
     ELSE Try(IF StartsWith(line, pos, NilText) THEN pos + Len(NilText) ELSE NoEnd)

(* A lazy gap that ends the pattern runs to the end of the line.           *)
LastGap ==
  /\ Entering(LazyKind) /\ depth = Len(toks)
  /\ IF (\E q \in pos .. n - 1 : At(q) = Newline) \/ (MinOne(toks[depth].kind) /\ pos = n)
     THEN pc' = "fail" /\ UNCHANGED cut
     ELSE cut' = Append(cut, n) /\ pc' = "matched"
  /\ UNCHANGED <<toks, line>>

GapBeforeLiteral ==
  /\ Entering(LazyKind) /\ depth < Len(toks) /\ toks[depth + 1].kind = "Lit"
  /\ LET text == toks[depth + 1].text
         from == IF MinOne(toks[depth].kind) THEN pos + 1 ELSE pos
     IN TryBeforeLiteral(cut, GapToLiteral(pos, from, text), text)

GapBeforeSpec ==
  /\ Entering(LazyKind) /\ depth < Len(toks) /\ toks[depth + 1].kind # "Lit"
  /\ Try(IF MinOne(toks[depth].kind) THEN GapStep(pos) ELSE pos)

-----------------------------------------------------------------------------
(* A call returned false: its caller, token depth - 1, tries its next end, or  *)
(* returns false itself.                                                   *)
Returning(kinds) == pc = "fail" /\ depth > 1 /\ toks[depth - 1].kind \in kinds

Callers == SubSeq(cut, 1, depth - 1)

Retry(e) ==
  /\ IF e = NoEnd THEN cut' = Callers /\ pc' = "fail"
                  ELSE cut' = Append(Callers, e) /\ pc' = "walk"
  /\ UNCHANGED <<toks, line>>

(* Literals, %c and (nil) have no other end.                               *)
ReturnFalse ==
  /\ \/ Returning({"Lit", "Char"})
     \/ Returning({"Ptr"}) /\ ~StartsWith(line, cut[depth - 1], HexPrefix)
  /\ Retry(NoEnd)

(* A greedy class gives back one byte.                                     *)
Shrink ==
  /\ \/ Returning({"Int", "Uint", "Oct", "Hex", "Float"})
     \/ Returning({"Ptr"}) /\ StartsWith(line, cut[depth - 1], HexPrefix)
  /\ LET floor == GreedyFloor(toks[depth - 1].kind, cut[depth - 1])
     IN Retry(IF pos - 1 > floor THEN pos - 1 ELSE NoEnd)

(* Faulty: the search resumes at the occurrence that just failed.          *)
NextOccurrenceAgain ==
  /\ Returning(LazyKind) /\ toks[depth].kind = "Lit"
  /\ LET text == toks[depth].text
     IN TryBeforeLiteral(Callers, GapToLiteral(cut[depth - 1], pos, text), text)

(* A lazy gap before a literal goes on to the next occurrence.             *)
NextOccurrence ==
  /\ Returning(LazyKind) /\ toks[depth].kind = "Lit"
  /\ LET text == toks[depth].text
     IN TryBeforeLiteral(Callers, GapToLiteral(cut[depth - 1], pos + 1, text), text)

(* Faulty: the gap starts over instead of growing.                         *)
GrowFromStart ==
  /\ Returning(LazyKind) /\ toks[depth].kind # "Lit"
  /\ Retry(GapStep(cut[depth - 1]))

(* A lazy gap before a spec grows by one char.                             *)
Grow ==
  /\ Returning(LazyKind) /\ toks[depth].kind # "Lit"
  /\ Retry(GapStep(pos))

(* The outermost call returned false.                                      *)
GiveUp == pc = "fail" /\ depth = 1 /\ Answer("nomatch")

Walk ==
  \/ EndOfPattern \/ Literal \/ Char \/ Number \/ Pointer
  \/ LastGap \/ GapBeforeLiteral \/ GapBeforeSpec

Backtrack == ReturnFalse \/ Shrink \/ NextOccurrence \/ Grow \/ GiveUp

Next == Nominate \/ Prune \/ RejectEarly \/ BeginWalk \/ Walk \/ Backtrack

(* One thread runs scan_line to its end.                                   *)
Spec == Init /\ [][Next]_vars /\ WF_vars(Next)

-----------------------------------------------------------------------------
TypeOK ==
  /\ IsPattern(toks)
  /\ line \in Seq(Byte) /\ WellFormed(line)
  /\ pc \in Phase
  /\ cut \in Seq(0 .. Len(line)) /\ cut # <<>> /\ Len(cut) <= Len(toks) + 1

(* Every position of the walk is a char boundary, so no capture slice      *)
(* line[start..end] of scan_line can panic: a literal and a numeric class  *)
(* leave the walk on a boundary, memmem cannot hit inside a char, and gaps *)
(* grow by whole chars (comment at scan.rs:829).                           *)
SlicesOnBoundaries == \A i \in 1 .. Len(cut) : Boundary(line, cut[i])

(* A match leaves nothing of the line uncovered: its spans are a parse of  *)
(* the line (match_toks: "which must be consumed COMPLETELY", scan.rs:692). *)
MatchIsParse == pc = "matched" => IsParse(toks, line, cut)

(* The frames of the walk.  Each token passed so far matched its fragment  *)
(* between its two positions; a greedy class covers only its own bytes, so *)
(* it stays on boundaries when it gives bytes back; and a call that could  *)
(* still fail never holds an end for a gap that closes the pattern.        *)
Greedy(tok, s, a) ==
  \/ tok.kind \in {"Int", "Uint", "Oct", "Hex", "Float"}
  \/ tok.kind = "Ptr" /\ StartsWith(s, a, HexPrefix)

Passed(tok, s, a, b) ==
  /\ Segment(tok, s, a, b)
  /\ Greedy(tok, s, a) => RunOf(ClassOf(tok.kind), s, FloorIn(s, tok.kind, a), b)

Reached(p, s, c) ==
  /\ c \in Seq(0 .. Len(s)) /\ c # <<>> /\ Len(c) <= Len(p) + 1
  /\ c[1] = 0
  /\ \A i \in 1 .. Len(c) : Boundary(s, c[i])
  /\ \A i \in 1 .. Len(c) - 1 : Passed(p[i], s, c[i], c[i + 1])

WalkInv ==
  /\ IsPattern(toks) /\ line \in Seq(Byte) /\ WellFormed(line)
  /\ pc \in Phase
  /\ Reached(toks, line, cut)
  /\ pc \in {"candidate", "verify"} => Len(cut) = 1
  /\ pc \in {"walk", "fail"} =>
       \A i \in 1 .. Len(toks) : i = Len(toks) /\ Len(cut) = i + 1 => toks[i].kind \notin LazyKind
  /\ pc = "matched" => Len(cut) = Len(toks) + 1 /\ cut[Len(cut)] = Len(line)

(* Backtracking tries the ends of a spec in the order the regex engine     *)
(* prefers them: a greedy class only shrinks and a lazy gap only grows, so *)
(* the first success is the leftmost-first one.                            *)
PreferenceOrder ==
  [][ pc = "fail" /\ pc' = "walk" =>
        /\ Len(cut') >= depth
        /\ SubSeq(cut', 1, depth - 1) = SubSeq(cut, 1, depth - 1)
        /\ IF toks[depth - 1].kind \in LazyKind THEN cut'[depth] > cut[depth] ELSE cut'[depth] < cut[depth]
    ]_vars

(* The answer is the regex crate's, with \d read as the ASCII digits.      *)
ResultOf == CASE pc = "matched" -> cut [] pc = "nomatch" -> NoMatch [] OTHER -> <<-1>>

AsciiOracle == INSTANCE RegexOracle WITH WideDigit <- {}, result <- ResultOf
ImplementsAsciiRegex == AsciiOracle!OracleSpec

(* The answer is the regex crate's (scan.rs:533-535, 1246-1248).           *)
Oracle == INSTANCE RegexOracle WITH result <- ResultOf
ImplementsRegex == Oracle!OracleSpec

(* The backtracking ends: every pattern gets an answer.                    *)
EventuallyDecided == <>(pc \in {"matched", "nomatch"})
==============================================================================
