--------------------------- MODULE SpecMatcherProof ---------------------------
(***************************************************************************)
(* Proofs about SpecMatcher, for every alphabet, pattern and line.         *)
(*                                                                         *)
(* WalkInv is the inductive invariant: the frames of match_toks hold a     *)
(* partial parse whose positions are char boundaries.  The three lemmas    *)
(* TryKeeps, TryBeforeLiteralKeeps and RetryKeeps reduce each action to    *)
(* what its new end must satisfy.                                          *)
(*                                                                         *)
(* CompleteInv adds what the walk has ruled out: no parse of the line has  *)
(* been passed over.  TryComplete, TryBeforeLiteralComplete and            *)
(* RetryComplete reduce each action to how a parse could go on from the    *)
(* frames.  With it the walk implements the regular expression.            *)
(***************************************************************************)
EXTENDS SpecMatcher, PatternFacts

-----------------------------------------------------------------------------
(* What the helpers of the walk return.                                    *)

(* RunEnd is the end of a run: its bytes are of the class, the next is not. *)
LEMMA RunEndStops ==
  ASSUME line \in Seq(Byte), NEW C, NEW p \in 0 .. n
  PROVE  /\ RunEnd(C, p) \in p .. n
         /\ \A q \in p .. RunEnd(C, p) - 1 : line[q + 1] \in C
<1> DEFINE stops == { e \in p .. n : e < n => At(e) \notin C }
<1>1. n \in Nat /\ n = Len(line)
  BY DEF n
<1>2. stops \in SUBSET Nat /\ n \in stops
  BY <1>1
<1>3. RunEnd(C, p) \in stops /\ \A f \in stops : RunEnd(C, p) <= f
  <2> HIDE DEF stops
  <2>1. Least(stops) \in stops /\ \A f \in stops : Least(stops) <= f
    BY <1>2, LeastIsSmallest
  <2>2. RunEnd(C, p) = Least(stops)
    BY DEF RunEnd, stops
  <2>3. QED
    BY <2>1, <2>2
<1>4. \A q \in p .. RunEnd(C, p) - 1 : line[q + 1] \in C
  <2> SUFFICES ASSUME NEW q \in p .. RunEnd(C, p) - 1, line[q + 1] \notin C PROVE FALSE
    OBVIOUS
  <2>1. q \in stops
    BY <1>1, <1>3 DEF At
  <2>2. QED
    BY <1>1, <1>3, <2>1
<1>5. QED
  BY <1>3, <1>4

(* memmem: an occurrence that the gap from p can reach.                    *)
LEMMA GapToLiteralFinds ==
  ASSUME line \in Seq(Byte), NEW p \in Nat, NEW f \in Nat, NEW text,
         GapToLiteral(p, f, text) # NoEnd
  PROVE  LET ls == GapToLiteral(p, f, text)
         IN /\ ls \in f .. n
            /\ StartsWith(line, ls, text)
            /\ \A q \in p .. ls - 1 : line[q + 1] # Newline
<1> DEFINE found == { e \in f .. n : StartsWith(line, e, text) }
<1>1. n \in Nat
  BY DEF n
<1>2. found # {} /\ GapToLiteral(p, f, text) = Least(found)
      /\ \A q \in p .. Least(found) - 1 : line[q + 1] # Newline
  BY DEF GapToLiteral, At, NoEnd
<1>3. found \in SUBSET Nat
  BY <1>1
<1>4. Least(found) \in found
  <2> HIDE DEF found
  <2>1. QED
    BY <1>2, <1>3, LeastIsSmallest
<1>5. QED
  BY <1>2, <1>4

(* A gap that grows takes a whole char that is not a newline.              *)
LEMMA GapStepGrows ==
  ASSUME line \in Seq(Byte), WellFormed(line), NEW a \in Nat,
         NEW e, Dots(line, a, e), GapStep(e) # NoEnd
  PROVE  /\ GapStep(e) > e /\ Dots(line, a, GapStep(e))
         /\ GapStep(e) = e + Width[line[e + 1]]
<1>1. /\ e < Len(line) /\ line[e + 1] # Newline
      /\ GapStep(e) = e + Width[line[e + 1]]
  BY DEF GapStep, n, At
<1>2. Boundary(line, e) /\ e \in Nat
  BY DEF Dots, Boundary
<1>3. Width[line[e + 1]] \in 1 .. 4
  BY <1>1, <1>2, CharEndsOnBoundary
<1>4. Dots(line, a, e + Width[line[e + 1]])
  BY <1>1, <1>2, DotsGrow
<1>5. QED
  BY <1>1, <1>2, <1>3, <1>4

-----------------------------------------------------------------------------
(* Frames.                                                                 *)

(* One more position.                                                      *)
LEMMA ReachedAppend ==
  ASSUME NEW p, NEW s \in Seq(Byte), NEW c, Reached(p, s, c), p \in Seq(Token),
         Len(c) <= Len(p),
         NEW e, Boundary(s, e), Passed(p[Len(c)], s, c[Len(c)], e)
  PROVE  Reached(p, s, Append(c, e)) /\ Len(Append(c, e)) = Len(c) + 1
         /\ Append(c, e)[Len(c) + 1] = e
<1>1. c \in Seq(0 .. Len(s)) /\ c # <<>> /\ e \in 0 .. Len(s)
  BY DEF Reached, Boundary
<1>2. /\ Append(c, e) \in Seq(0 .. Len(s)) /\ Append(c, e) # <<>>
      /\ Len(Append(c, e)) = Len(c) + 1
      /\ Append(c, e)[Len(c) + 1] = e
      /\ \A i \in 1 .. Len(c) : Append(c, e)[i] = c[i]
  BY <1>1
<1>3. Len(c) \in Nat \ {0} /\ Len(p) \in Nat
  BY <1>1
<1>4. \A i \in 1 .. Len(c) + 1 : Boundary(s, Append(c, e)[i])
  BY <1>2, <1>3 DEF Reached
<1>5. \A i \in 1 .. Len(c) : Passed(p[i], s, Append(c, e)[i], Append(c, e)[i + 1])
  <2> TAKE i \in 1 .. Len(c)
  <2>1. CASE i < Len(c)
    <3>1. i \in 1 .. Len(c) - 1 /\ i + 1 \in 1 .. Len(c)
      BY <1>3, <2>1
    <3>2. Passed(p[i], s, c[i], c[i + 1])
      BY <3>1 DEF Reached
    <3>3. QED
      BY <1>2, <3>1, <3>2
  <2>2. CASE i = Len(c)
    BY <1>2, <1>3, <2>2
  <2>3. QED
    BY <1>3, <2>1, <2>2
<1>6. Append(c, e)[1] = 0
  BY <1>2, <1>3 DEF Reached
<1> DEFINE d == Append(c, e)
<1>7. /\ d \in Seq(0 .. Len(s)) /\ d # <<>> /\ Len(d) = Len(c) + 1 /\ d[1] = 0
      /\ \A i \in 1 .. Len(c) + 1 : Boundary(s, d[i])
      /\ \A i \in 1 .. Len(c) : Passed(p[i], s, d[i], d[i + 1])
  BY <1>2, <1>4, <1>5, <1>6
<1> HIDE DEF d
<1>8. Len(d) <= Len(p) + 1 /\ Len(d) - 1 = Len(c)
  BY <1>3, <1>7
<1>9. Reached(p, s, d)
  BY <1>7, <1>8 DEF Reached
<1>10. QED
  BY <1>2, <1>9 DEF d

(* One position less.                                                      *)
LEMMA ReachedCallers ==
  ASSUME NEW p, NEW s \in Seq(Byte), NEW c, Reached(p, s, c), Len(c) > 1
  PROVE  LET d == SubSeq(c, 1, Len(c) - 1)
         IN /\ Reached(p, s, d) /\ Len(d) = Len(c) - 1
            /\ \A i \in 1 .. Len(d) : d[i] = c[i]
<1> DEFINE d == SubSeq(c, 1, Len(c) - 1)
<1>1. c \in Seq(0 .. Len(s)) /\ Len(c) \in Nat
  BY DEF Reached
<1>2. /\ d \in Seq(0 .. Len(s)) /\ Len(d) = Len(c) - 1
      /\ \A i \in 1 .. Len(d) : d[i] = c[i]
  BY <1>1
<1>3. d # <<>> /\ d[1] = 0
  <2>1. 1 \in 1 .. Len(d) /\ c[1] = 0
    BY <1>1, <1>2 DEF Reached
  <2> HIDE DEF d
  <2>2. QED
    BY <1>2, <2>1
<1>4. \A i \in 1 .. Len(d) : Boundary(s, d[i])
  BY <1>1, <1>2 DEF Reached
<1>5. \A i \in 1 .. Len(d) - 1 : Passed(p[i], s, d[i], d[i + 1])
  <2> TAKE i \in 1 .. Len(d) - 1
  <2>1. i \in 1 .. Len(c) - 1 /\ i \in 1 .. Len(d) /\ i + 1 \in 1 .. Len(d)
    BY <1>1, <1>2
  <2>2. Passed(p[i], s, c[i], c[i + 1])
    BY <2>1 DEF Reached
  <2>3. QED
    BY <1>2, <2>1, <2>2
<1>6. Len(d) <= Len(p) + 1
  <2>1. Len(c) <= Len(p) + 1
    BY DEF Reached
  <2>2. QED
    BY <1>1, <1>2, <2>1
<1>7. QED
  BY <1>2, <1>3, <1>4, <1>5, <1>6 DEF Reached

(* A segment never ends before it starts, and a literal or a lazy gap is   *)
(* what its kind says.                                                     *)
LEMMA SegmentAdvances ==
  ASSUME NEW tok \in Token, NEW s \in Seq(Byte), NEW a \in Nat, NEW b \in Nat,
         Segment(tok, s, a, b)
  PROVE  a <= b
<1>1. Len(tok.text) \in Nat
  BY DEF Token, Kind
<1>2. CASE tok.kind = "Lit"
  BY <1>1, <1>2 DEF Segment
<1>3. CASE tok.kind \in {"Str", "Errno", "Char"}
  BY <1>3 DEF Segment, Dots
<1>4. CASE tok.kind \in {"Int", "Uint"}
  <2>1. Digits(s, a, b) \/ Digits(s, a + 1, b)
    <3>1. CASE tok.kind = "Int"
      BY <3>1 DEF Segment
    <3>2. CASE tok.kind = "Uint"
      BY <3>2 DEF Segment
    <3>3. QED
      BY <1>4, <3>1, <3>2
  <2>2. QED
    BY <2>1 DEF Digits
<1>5. CASE tok.kind \in {"Oct", "Hex", "Float"}
  <2>1. RunOf(Octal, s, a, b) \/ RunOf(Hex, s, a, b) \/ RunOf(Float, s, a, b)
    <3>1. CASE tok.kind = "Oct"
      BY <3>1 DEF Segment
    <3>2. CASE tok.kind = "Hex"
      BY <3>2 DEF Segment
    <3>3. CASE tok.kind = "Float"
      BY <3>3 DEF Segment
    <3>4. QED
      BY <1>5, <3>1, <3>2, <3>3
  <2>2. QED
    BY <2>1 DEF RunOf
<1>6. CASE tok.kind = "Ptr"
  <2>1. Len(NilText) = 5
    BY AlphabetAssumption
  <2>2. QED
    BY <1>6, <2>1 DEF Segment, RunOf
<1>7. QED
  BY <1>2, <1>3, <1>4, <1>5, <1>6 DEF Token, Kind

(* A run of its class that starts at the floor makes a greedy token pass.  *)
LEMMA RunPasses ==
  ASSUME line \in Seq(Byte), WellFormed(line),
         NEW tok \in Token, NEW a \in Nat, Boundary(line, a), Greedy(tok, line, a),
         NEW b \in 0 .. Len(line), RunOf(ClassOf(tok.kind), line, FloorIn(line, tok.kind, a), b)
  PROVE  Passed(tok, line, a, b) /\ Boundary(line, b)
<1> DEFINE f == FloorIn(line, tok.kind, a)
           C == ClassOf(tok.kind)
<1>1. f \in Nat /\ C \in SUBSET (Hex \cup Float)
  BY AlphabetAssumption DEF FloorIn, ClassOf
<1>2. Boundary(line, b)
  BY <1>1, RunOnBoundary
<1>3. Segment(tok, line, a, b)
  <2>1. CASE tok.kind = "Int"
    <3>1. Digits(line, f, b)
      BY <1>1, <2>1, DigitRunIsDigits DEF ClassOf
    <3>2. QED
      BY <2>1, <3>1 DEF Segment, FloorIn, Digits
  <2>2. CASE tok.kind = "Uint"
    <3>1. Digits(line, f, b)
      BY <1>1, <2>2, DigitRunIsDigits DEF ClassOf
    <3>2. QED
      BY <2>2, <3>1 DEF Segment, FloorIn
  <2>3. CASE tok.kind \in {"Oct", "Hex", "Float"}
    BY <2>3 DEF Segment, FloorIn, ClassOf
  <2>4. CASE tok.kind = "Ptr"
    BY <2>4 DEF Segment, FloorIn, ClassOf, Greedy
  <2>5. QED
    BY <2>1, <2>2, <2>3, <2>4 DEF Greedy
<1>4. QED
  BY <1>2, <1>3 DEF Passed

(* Any shorter run that is not empty is a run.                             *)
LEMMA RunShrinks ==
  ASSUME NEW C, NEW s, NEW a \in Nat, NEW b \in Nat, RunOf(C, s, a, b),
         NEW e \in Nat, a < e, e <= b
  PROVE  RunOf(C, s, a, e)
BY DEF RunOf

(* A literal that occurs at a boundary passes.                             *)
LEMMA LiteralPasses ==
  ASSUME line \in Seq(Byte), WellFormed(line),
         NEW tok \in Token, tok.kind = "Lit", WellFormed(tok.text),
         NEW a \in Nat, StartsWith(line, a, tok.text)
  PROVE  /\ Passed(tok, line, a, a + Len(tok.text))
         /\ Boundary(line, a) /\ Boundary(line, a + Len(tok.text))
<1>1. tok.text \in Seq(Byte) /\ tok.text # <<>>
  BY DEF Token, Kind
<1>2. Boundary(line, a) /\ Boundary(line, a + Len(tok.text))
  BY <1>1, OccurrenceOnBoundaries
<1>3. Segment(tok, line, a, a + Len(tok.text))
  BY DEF Segment
<1>4. QED
  BY <1>2, <1>3 DEF Passed, Greedy

(* "The two arms' prefixes are disjoint, so at most one can apply to a     *)
(* given position" (scan.rs:782-783).                                      *)
LEMMA ArmsAreDisjoint ==
  ASSUME line \in Seq(Byte), NEW a \in Nat, StartsWith(line, a, NilText)
  PROVE  ~StartsWith(line, a, HexPrefix)
<1>1. \A t \in {NilText, HexPrefix} : StartsWith(line, a, t) => t[1] = line[a + 1]
  <2> SUFFICES ASSUME NEW t \in {NilText, HexPrefix}, StartsWith(line, a, t)
               PROVE  t[1] = line[a + 1]
    OBVIOUS
  <2>1. Len(t) \in Nat /\ Len(t) >= 1 /\ a + Len(t) <= Len(line)
    <3>1. Len(t) = 2 \/ Len(t) = 5
      BY AlphabetAssumption
    <3>2. a + Len(t) <= Len(line)
      BY DEF StartsWith
    <3>3. CASE Len(t) = 2
      BY <3>2, <3>3
    <3>4. CASE Len(t) = 5
      BY <3>2, <3>4
    <3>5. QED
      BY <3>1, <3>3, <3>4
  <2>2. SubSeq(line, a + 1, a + Len(t))[1] = line[a + 1]
    BY <2>1
  <2>3. QED
    BY <2>2 DEF StartsWith
<1>2. QED
  BY <1>1, AlphabetAssumption

-----------------------------------------------------------------------------
(* What a new end must satisfy for a step to preserve the invariant.       *)

(* What the invariant says of the frames of a walk.                        *)
LEMMA Frames ==
  ASSUME WalkInv
  PROVE  /\ toks \in Seq(Token) /\ Len(toks) \in Nat
         /\ line \in Seq(Byte) /\ WellFormed(line) /\ n \in Nat /\ n = Len(line)
         /\ cut \in Seq(0 .. n) /\ depth \in 1 .. Len(toks) + 1 /\ depth = Len(cut)
         /\ \A i \in 1 .. depth : cut[i] \in 0 .. n /\ Boundary(line, cut[i])
         /\ pos = cut[depth]
         /\ \A i \in 1 .. depth - 1 : Passed(toks[i], line, cut[i], cut[i + 1])
         /\ \A i \in 1 .. Len(toks) : toks[i] \in Token /\ WellFormed(toks[i].text)
<1>1. Reached(toks, line, cut) /\ toks \in Seq(Token) /\ line \in Seq(Byte) /\ WellFormed(line)
      /\ \A i \in 1 .. Len(toks) : WellFormed(toks[i].text)
  BY DEF WalkInv, IsPattern
<1>2. n = Len(line) /\ n \in Nat /\ depth = Len(cut) /\ pos = cut[depth]
  BY <1>1 DEF n, depth, pos
<1>3. cut \in Seq(0 .. n) /\ depth \in 1 .. Len(toks) + 1
  BY <1>1, <1>2 DEF Reached
<1>4. \A i \in 1 .. depth : cut[i] \in 0 .. n /\ Boundary(line, cut[i])
  BY <1>1, <1>2, <1>3 DEF Reached
<1>5. \A i \in 1 .. depth - 1 : Passed(toks[i], line, cut[i], cut[i + 1])
  BY <1>1, <1>2 DEF Reached
<1>6. QED
  BY <1>1, <1>2, <1>3, <1>4, <1>5

(* Trying an end that makes the current token pass keeps the invariant.     *)
LEMMA TryKeeps ==
  ASSUME WalkInv, pc = "walk", depth <= Len(toks),
         depth = Len(toks) => toks[depth].kind \notin LazyKind,
         NEW e, Try(e),
         e # NoEnd => Boundary(line, e) /\ Passed(toks[depth], line, pos, e)
  PROVE  WalkInv'
<1>1. toks' = toks /\ line' = line /\ Reached(toks, line, cut)
  BY DEF Try, WalkInv
<1>2. IsPattern(toks) /\ line \in Seq(Byte) /\ WellFormed(line) /\ depth = Len(cut)
      /\ depth \in Nat /\ Len(toks) \in Nat /\ toks \in Seq(Token)
  BY Frames DEF WalkInv
<1>3. CASE e = NoEnd
  <2>1. pc' = "fail" /\ cut' = cut
    BY <1>3 DEF Try
  <2>2. QED
    BY <1>1, <2>1 DEF WalkInv, Phase
<1>4. CASE e # NoEnd
  <2>1. cut' = Append(cut, e) /\ pc' = "walk"
    BY <1>4 DEF Try
  <2>2. Reached(toks, line, cut') /\ Len(cut') = depth + 1
    BY <1>1, <1>2, <1>4, <2>1, ReachedAppend DEF pos
  <2>3. \A i \in 1 .. Len(toks) : i = Len(toks) /\ Len(cut') = i + 1 => toks[i].kind \notin LazyKind
    BY <1>2, <2>2
  <2>4. QED
    BY <1>1, <1>2, <2>1, <2>2, <2>3 DEF WalkInv, Phase
<1>5. QED
  BY <1>3, <1>4

(* So does trying a gap together with the literal that follows it.          *)
LEMMA TryBeforeLiteralKeeps ==
  ASSUME WalkInv,
         NEW prefix, Reached(toks, line, prefix), Len(prefix) < Len(toks),
         toks[Len(prefix) + 1].kind = "Lit",
         NEW ls, TryBeforeLiteral(prefix, ls, toks[Len(prefix) + 1].text),
         ls # NoEnd => /\ ls \in Nat /\ StartsWith(line, ls, toks[Len(prefix) + 1].text)
                       /\ Passed(toks[Len(prefix)], line, prefix[Len(prefix)], ls)
  PROVE  WalkInv'
<1> DEFINE d == Len(prefix)
           lit == toks[d + 1]
<1>1. toks' = toks /\ line' = line
  BY DEF TryBeforeLiteral
<1>2. /\ IsPattern(toks) /\ toks \in Seq(Token) /\ Len(toks) \in Nat
      /\ line \in Seq(Byte) /\ WellFormed(line)
      /\ d \in 1 .. Len(toks) - 1
      /\ lit \in Token /\ WellFormed(lit.text)
  <2>1. prefix # <<>> /\ prefix \in Seq(0 .. Len(line))
    BY DEF Reached
  <2>2. d \in 1 .. Len(toks) - 1
    BY <2>1, Frames
  <2>3. QED
    BY <2>2, Frames DEF WalkInv
<1>3. CASE ls = NoEnd
  <2>1. cut' = prefix /\ pc' = "fail"
    BY <1>3 DEF TryBeforeLiteral
  <2>2. \A i \in 1 .. Len(toks) : i = Len(toks) /\ Len(cut') = i + 1 => toks[i].kind \notin LazyKind
    BY <1>2, <2>1
  <2>3. QED
    BY <1>1, <1>2, <2>1, <2>2 DEF WalkInv, Phase
<1>4. CASE ls # NoEnd
  <2> DEFINE e == ls + Len(lit.text)
             gap == Append(prefix, ls)
             full == Append(gap, e)
  <2>1. pc' = "walk" /\ cut' = prefix \o <<ls, e>>
    BY <1>4 DEF TryBeforeLiteral
  <2>2. Passed(lit, line, ls, e) /\ Boundary(line, ls) /\ Boundary(line, e)
    BY <1>2, <1>4, LiteralPasses
  <2>3. Reached(toks, line, gap) /\ Len(gap) = d + 1 /\ gap[d + 1] = ls
    BY <1>2, <1>4, <2>2, ReachedAppend
  <2>4. Reached(toks, line, full) /\ Len(full) = d + 2
    <3> HIDE DEF gap, e, lit
    <3>1. Len(gap) <= Len(toks) /\ Passed(toks[Len(gap)], line, gap[Len(gap)], e)
      BY <1>2, <2>2, <2>3 DEF lit
    <3>2. QED
      BY <1>2, <2>2, <2>3, <3>1, ReachedAppend
  <2>5. cut' = full
    <3>1. prefix \in Seq(0 .. Len(line)) /\ ls \in 0 .. Len(line) /\ e \in 0 .. Len(line)
      BY <2>2 DEF Reached, Boundary
    <3> HIDE DEF e
    <3>2. prefix \o <<ls, e>> = Append(Append(prefix, ls), e)
      BY <3>1
    <3>3. QED
      BY <2>1, <3>2
  <2>6. \A i \in 1 .. Len(toks) : i = Len(toks) /\ Len(cut') = i + 1 => toks[i].kind \notin LazyKind
    BY <1>2, <2>4, <2>5 DEF LazyKind
  <2>7. QED
    BY <1>1, <1>2, <2>1, <2>4, <2>5, <2>6 DEF WalkInv, Phase
<1>5. QED
  BY <1>3, <1>4

(* So does another end for the token of the caller.                         *)
LEMMA RetryKeeps ==
  ASSUME WalkInv, pc = "fail", depth > 1,
         NEW e, Retry(e),
         e # NoEnd => Boundary(line, e) /\ Passed(toks[depth - 1], line, cut[depth - 1], e)
  PROVE  WalkInv'
<1>1. toks' = toks /\ line' = line /\ Reached(toks, line, cut) /\ IsPattern(toks)
  BY DEF Retry, WalkInv
<1>2. /\ toks \in Seq(Token) /\ Len(toks) \in Nat
      /\ line \in Seq(Byte) /\ WellFormed(line)
      /\ depth \in 2 .. Len(toks) + 1 /\ depth = Len(cut)
  BY Frames
<1>3. /\ Reached(toks, line, Callers) /\ Len(Callers) = depth - 1
      /\ \A i \in 1 .. depth - 1 : Callers[i] = cut[i]
  BY <1>1, <1>2, ReachedCallers DEF Callers, depth
<1>4. CASE e = NoEnd
  <2>1. cut' = Callers /\ pc' = "fail"
    BY <1>4 DEF Retry
  <2>2. \A i \in 1 .. Len(toks) : i = Len(toks) /\ Len(cut') = i + 1 => toks[i].kind \notin LazyKind
    BY <1>2, <1>3, <2>1
  <2>3. QED
    BY <1>1, <1>2, <1>3, <2>1, <2>2 DEF WalkInv, Phase
<1>5. CASE e # NoEnd
  <2>1. cut' = Append(Callers, e) /\ pc' = "walk"
    BY <1>5 DEF Retry
  <2>2. Len(Callers) <= Len(toks) /\ Passed(toks[Len(Callers)], line, Callers[Len(Callers)], e)
    BY <1>2, <1>3, <1>5
  <2>3. Reached(toks, line, cut') /\ Len(cut') = depth
    BY <1>2, <1>3, <1>5, <2>1, <2>2, ReachedAppend
  <2>4. \A i \in 1 .. Len(toks) : i = Len(toks) /\ Len(cut') = i + 1 => toks[i].kind \notin LazyKind
    BY <1>2, <2>3 DEF WalkInv
  <2>5. QED
    BY <1>1, <1>2, <2>1, <2>3, <2>4 DEF WalkInv, Phase
<1>6. QED
  BY <1>4, <1>5

-----------------------------------------------------------------------------
(* The inductive invariant.                                                *)

(* The walk starts at offset 0 with no token passed.                        *)
LEMMA WalkInvInit == Init => WalkInv
<1> SUFFICES ASSUME Init PROVE WalkInv
  OBVIOUS
<1>1. PICK x \in Inputs : toks \in x.patterns /\ line \in x.lines
  BY DEF Init
<1>2. IsPattern(toks) /\ line \in Seq(Byte) /\ WellFormed(line)
  BY <1>1, InputsAssumption
<1>3. pc = "candidate" /\ cut = <<0>>
  BY DEF Init
<1>4. Len(toks) \in Nat /\ Len(line) \in Nat
  BY <1>2 DEF IsPattern
<1>5. Boundary(line, 0)
  <2>1. 0 < Len(line) => line # <<>>
    BY <1>2
  <2>2. QED
    BY <1>2, <1>4, <2>1 DEF Boundary, WellFormed
<1>6. cut \in Seq(0 .. Len(line)) /\ cut # <<>> /\ Len(cut) = 1 /\ cut[1] = 0
  BY <1>3, <1>4
<1>7. Reached(toks, line, cut)
  BY <1>4, <1>5, <1>6 DEF Reached
<1>8. QED
  BY <1>2, <1>3, <1>6, <1>7 DEF WalkInv, Phase

(* Answers leave the frames alone.                                         *)
LEMMA AnswerKeeps ==
  ASSUME WalkInv, Nominate \/ Prune \/ RejectEarly \/ BeginWalk \/ EndOfPattern \/ GiveUp
  PROVE  WalkInv'
<1>1. toks' = toks /\ line' = line /\ cut' = cut
  BY DEF Nominate, Prune, RejectEarly, BeginWalk, EndOfPattern, GiveUp, Answer
<1>2. /\ Len(toks) \in Nat /\ n = Len(line) /\ pos = cut[depth]
      /\ depth \in 1 .. Len(toks) + 1 /\ depth = Len(cut)
  BY Frames
<1>3. CASE Nominate \/ Prune \/ RejectEarly \/ GiveUp
  <2>1. pc' = "nomatch" \/ (pc' = "verify" /\ pc = "candidate")
    BY <1>3 DEF Nominate, Prune, RejectEarly, GiveUp, Answer
  <2>2. QED
    BY <1>1, <2>1 DEF WalkInv, Phase
<1>4. CASE BeginWalk
  <2>1. pc = "verify" /\ pc' = "walk"
    BY <1>4 DEF BeginWalk, Answer
  <2>2. Len(cut) = 1
    BY <2>1 DEF WalkInv
  <2>3. \A i \in 1 .. Len(toks) : Len(cut) # i + 1
    BY <1>2, <2>2
  <2>4. QED
    BY <1>1, <2>1, <2>3 DEF WalkInv, Phase
<1>5. CASE EndOfPattern
  <2>1. pc = "walk" /\ depth = Len(toks) + 1 /\ pc' = IF pos = n THEN "matched" ELSE "fail"
    BY <1>2, <1>5 DEF EndOfPattern, Answer
  <2>2. CASE pos = n
    BY <1>1, <1>2, <2>1, <2>2 DEF WalkInv, Phase
  <2>3. CASE pos # n
    BY <1>1, <2>1, <2>3 DEF WalkInv, Phase
  <2>4. QED
    BY <2>2, <2>3
<1>6. QED
  BY <1>3, <1>4, <1>5

(* A literal that occurs at the position passes (scan.rs:709-716).          *)
LEMMA LiteralKeeps == ASSUME WalkInv, Literal PROVE WalkInv'
<1> DEFINE tok == toks[depth]
           e == IF StartsWith(line, pos, tok.text) THEN pos + Len(tok.text) ELSE NoEnd
<1>1. pc = "walk" /\ depth <= Len(toks) /\ tok.kind = "Lit" /\ Try(e)
  BY DEF Literal, Entering
<1>2. /\ line \in Seq(Byte) /\ WellFormed(line) /\ tok \in Token /\ WellFormed(tok.text)
      /\ pos \in Nat
  BY <1>1, Frames
<1>3. e # NoEnd => Boundary(line, e) /\ Passed(tok, line, pos, e)
  BY <1>1, <1>2, LiteralPasses
<1>4. tok.kind \notin LazyKind
  BY <1>1 DEF LazyKind
<1>5. QED
  BY <1>1, <1>3, <1>4, TryKeeps

(* %c passes one whole char (scan.rs:727-735).                              *)
LEMMA CharKeeps == ASSUME WalkInv, Char PROVE WalkInv'
<1> DEFINE tok == toks[depth]
<1>1. pc = "walk" /\ depth <= Len(toks) /\ tok.kind = "Char" /\ Try(GapStep(pos))
  BY DEF Char, Entering
<1>2. line \in Seq(Byte) /\ WellFormed(line) /\ pos \in Nat /\ Boundary(line, pos)
  BY Frames
<1>3. Dots(line, pos, pos)
  BY <1>2 DEF Dots
<1>4. ASSUME GapStep(pos) # NoEnd
      PROVE  Boundary(line, GapStep(pos)) /\ Passed(tok, line, pos, GapStep(pos))
  <2>1. /\ GapStep(pos) > pos /\ Dots(line, pos, GapStep(pos))
        /\ GapStep(pos) = pos + Width[line[pos + 1]]
    BY <1>2, <1>3, <1>4, GapStepGrows
  <2>2. Segment(tok, line, pos, GapStep(pos))
    BY <1>1, <2>1 DEF Segment
  <2>3. QED
    BY <1>1, <2>1, <2>2 DEF Passed, Greedy, Dots
<1>5. tok.kind \notin LazyKind
  BY <1>1 DEF LazyKind
<1>6. QED
  BY <1>1, <1>4, <1>5, TryKeeps

(* The longest run from the floor of a greedy token.                       *)
LEMMA LongestRunPasses ==
  ASSUME line \in Seq(Byte), WellFormed(line), NEW tok \in Token,
         NEW a \in 0 .. n, Boundary(line, a), Greedy(tok, line, a),
         RunEnd(ClassOf(tok.kind), GreedyFloor(tok.kind, a)) > GreedyFloor(tok.kind, a)
  PROVE  LET e == RunEnd(ClassOf(tok.kind), GreedyFloor(tok.kind, a))
         IN Boundary(line, e) /\ Passed(tok, line, a, e)
<1> DEFINE f == FloorIn(line, tok.kind, a)
           e == RunEnd(ClassOf(tok.kind), f)
<1>1. n = Len(line) /\ n \in Nat /\ GreedyFloor(tok.kind, a) = f
  BY DEF n, GreedyFloor
<1>2. f \in 0 .. n
  <2>1. CASE tok.kind = "Ptr"
    BY <1>1, <2>1, AlphabetAssumption DEF FloorIn, Greedy, StartsWith
  <2>2. CASE tok.kind # "Ptr"
    BY <1>1, <2>2 DEF FloorIn
  <2>3. QED
    BY <2>1, <2>2
<1>3. e \in f .. n /\ \A q \in f .. e - 1 : line[q + 1] \in ClassOf(tok.kind)
  BY <1>2, RunEndStops
<1>4. RunOf(ClassOf(tok.kind), line, f, e) /\ e \in 0 .. Len(line)
  BY <1>1, <1>2, <1>3 DEF RunOf
<1>5. QED
  BY <1>1, <1>4, RunPasses

(* A number or byte class passes its longest run (scan.rs:736-779).         *)
LEMMA NumberKeeps == ASSUME WalkInv, Number PROVE WalkInv'
<1> DEFINE tok == toks[depth]
           start == GreedyFloor(tok.kind, pos)
           e == RunEnd(ClassOf(tok.kind), start)
           end == IF e > start THEN e ELSE NoEnd
<1>1. /\ pc = "walk" /\ depth <= Len(toks) /\ Try(end)
      /\ tok.kind \in {"Int", "Uint", "Oct", "Hex", "Float"}
  BY DEF Number, Entering
<1>2. /\ line \in Seq(Byte) /\ WellFormed(line) /\ tok \in Token
      /\ pos \in 0 .. n /\ Boundary(line, pos)
  BY <1>1, Frames
<1>3. Greedy(tok, line, pos) /\ tok.kind \notin LazyKind
  BY <1>1 DEF Greedy, LazyKind
<1>4. e > start => Boundary(line, e) /\ Passed(tok, line, pos, e)
  BY <1>2, <1>3, LongestRunPasses
<1>5. QED
  BY <1>1, <1>3, <1>4, TryKeeps

(* Either arm of %p passes (scan.rs:780-803).                               *)
LEMMA PointerKeeps == ASSUME WalkInv, Pointer PROVE WalkInv'
<1> DEFINE tok == toks[depth]
           nil == IF StartsWith(line, pos, NilText) THEN pos + Len(NilText) ELSE NoEnd
<1>1. pc = "walk" /\ depth <= Len(toks) /\ tok.kind = "Ptr" /\ tok.kind \notin LazyKind
  BY DEF Pointer, Entering, LazyKind
<1>2. /\ line \in Seq(Byte) /\ WellFormed(line) /\ tok \in Token
      /\ pos \in 0 .. n /\ Boundary(line, pos)
  BY <1>1, Frames
<1>3. CASE StartsWith(line, pos, HexPrefix) /\ RunEnd(Hex, pos + 2) > pos + 2
  <2>1. Try(RunEnd(Hex, pos + 2))
    BY <1>3 DEF Pointer
  <2>2. Greedy(tok, line, pos) /\ ClassOf(tok.kind) = Hex /\ GreedyFloor(tok.kind, pos) = pos + 2
    BY <1>1, <1>3 DEF Greedy, ClassOf, GreedyFloor, FloorIn
  <2>3. Boundary(line, RunEnd(Hex, pos + 2)) /\ Passed(tok, line, pos, RunEnd(Hex, pos + 2))
    BY <1>2, <1>3, <2>2, LongestRunPasses
  <2>4. QED
    BY <1>1, <2>1, <2>3, TryKeeps
<1>4. CASE ~(StartsWith(line, pos, HexPrefix) /\ RunEnd(Hex, pos + 2) > pos + 2)
  <2>1. Try(nil)
    BY <1>4 DEF Pointer
  <2>2. ASSUME StartsWith(line, pos, NilText)
        PROVE  Boundary(line, pos + Len(NilText)) /\ Passed(tok, line, pos, pos + Len(NilText))
    <3>1. NilText # <<>> /\ NilText \in Seq(Byte) /\ WellFormed(NilText)
      BY AlphabetAssumption
    <3>2. Boundary(line, pos + Len(NilText))
      BY <1>2, <2>2, <3>1, OccurrenceOnBoundaries
    <3>3. ~StartsWith(line, pos, HexPrefix)
      BY <1>2, <2>2, ArmsAreDisjoint
    <3>4. Segment(tok, line, pos, pos + Len(NilText))
      BY <1>1, <2>2 DEF Segment
    <3>5. QED
      BY <1>1, <3>2, <3>3, <3>4 DEF Passed, Greedy
  <2>3. QED
    BY <1>1, <2>1, <2>2, TryKeeps
<1>5. QED
  BY <1>3, <1>4

(* A gap that ends the pattern covers the rest of the line.                *)
LEMMA LastGapKeeps == ASSUME WalkInv, LastGap PROVE WalkInv'
<1> DEFINE tok == toks[depth]
           blocked == \/ \E q \in pos .. n - 1 : At(q) = Newline
                      \/ MinOne(tok.kind) /\ pos = n
<1>1. /\ pc = "walk" /\ depth = Len(toks) /\ tok.kind \in LazyKind
      /\ toks' = toks /\ line' = line
      /\ IF blocked THEN pc' = "fail" /\ cut' = cut
                    ELSE cut' = Append(cut, n) /\ pc' = "matched"
  BY DEF LastGap, Entering
<1>2. /\ IsPattern(toks) /\ toks \in Seq(Token) /\ Len(toks) \in Nat
      /\ line \in Seq(Byte) /\ WellFormed(line) /\ n \in Nat /\ n = Len(line)
      /\ pos \in 0 .. n /\ Boundary(line, pos) /\ pos = cut[depth] /\ depth = Len(cut)
      /\ Reached(toks, line, cut)
  BY Frames DEF WalkInv
<1>3. CASE blocked
  <2>1. pc' = "fail" /\ cut' = cut
    BY <1>1, <1>3
  <2>2. QED
    BY <1>1, <2>1 DEF WalkInv, Phase
<1>4. CASE ~blocked
  <2>1. cut' = Append(cut, n) /\ pc' = "matched"
    BY <1>1, <1>4
  <2>2. Boundary(line, n)
    BY <1>2 DEF Boundary
  <2>3. Dots(line, pos, n)
    BY <1>2, <1>4, <2>2 DEF Dots, At
  <2>4. tok.kind = "Errno" => pos < n
    BY <1>2, <1>4 DEF MinOne
  <2>5. Passed(tok, line, pos, n)
    <3>1. CASE tok.kind = "Str"
      BY <2>3, <3>1 DEF Passed, Segment, Greedy
    <3>2. CASE tok.kind = "Errno"
      BY <2>3, <2>4, <3>2 DEF Passed, Segment, Greedy
    <3>3. QED
      BY <1>1, <3>1, <3>2 DEF LazyKind
  <2>6. Reached(toks, line, cut') /\ Len(cut') = Len(toks) + 1 /\ cut'[Len(toks) + 1] = n
    <3>1. Len(cut) = Len(toks) /\ Passed(toks[Len(cut)], line, cut[Len(cut)], n)
      BY <1>1, <1>2, <2>5
    <3>2. Reached(toks, line, Append(cut, n)) /\ Len(Append(cut, n)) = Len(cut) + 1
          /\ Append(cut, n)[Len(cut) + 1] = n
      BY <1>2, <2>2, <3>1, ReachedAppend
    <3>3. QED
      BY <2>1, <3>1, <3>2
  <2>7. QED
    BY <1>1, <1>2, <2>1, <2>6 DEF WalkInv, Phase
<1>5. QED
  BY <1>3, <1>4

(* A lazy gap passes if it holds no newline and %m takes at least a char.  *)
LEMMA GapPasses ==
  ASSUME NEW tok, tok.kind \in LazyKind, NEW a, NEW e, Dots(line, a, e),
         tok.kind = "Errno" => a < e
  PROVE  Passed(tok, line, a, e)
<1>1. CASE tok.kind = "Str"
  BY <1>1 DEF Passed, Segment, Greedy
<1>2. CASE tok.kind = "Errno"
  BY <1>2 DEF Passed, Segment, Greedy
<1>3. QED
  BY <1>1, <1>2 DEF LazyKind

(* The gap before an occurrence of the next literal passes.                *)
LEMMA GapBeforeOccurrencePasses ==
  ASSUME line \in Seq(Byte), WellFormed(line),
         NEW tok, tok.kind \in LazyKind,
         NEW text \in Seq(Byte), WellFormed(text), text # <<>>,
         NEW a \in Nat, Boundary(line, a), NEW f \in Nat, a <= f,
         tok.kind = "Errno" => a < f,
         GapToLiteral(a, f, text) # NoEnd
  PROVE  LET ls == GapToLiteral(a, f, text)
         IN ls \in Nat /\ f <= ls /\ StartsWith(line, ls, text) /\ Passed(tok, line, a, ls)
<1> DEFINE ls == GapToLiteral(a, f, text)
<1>1. /\ ls \in f .. n /\ StartsWith(line, ls, text)
      /\ \A q \in a .. ls - 1 : line[q + 1] # Newline
  BY GapToLiteralFinds
<1>2. n \in Nat
  BY DEF n
<1> HIDE DEF ls
<1>3. Boundary(line, ls)
  BY <1>1, <1>2, OccurrenceOnBoundaries
<1>4. Dots(line, a, ls)
  BY <1>1, <1>2, <1>3 DEF Dots
<1>5. Passed(tok, line, a, ls)
  BY <1>1, <1>2, <1>4, GapPasses
<1>6. QED
  BY <1>1, <1>2, <1>5 DEF ls

(* The first occurrence for a gap before a literal (scan.rs:818-838).       *)
LEMMA GapBeforeLiteralKeeps == ASSUME WalkInv, GapBeforeLiteral PROVE WalkInv'
<1> DEFINE tok == toks[depth]
           text == toks[depth + 1].text
           from == IF MinOne(tok.kind) THEN pos + 1 ELSE pos
           ls == GapToLiteral(pos, from, text)
<1>1. /\ depth < Len(toks) /\ tok.kind \in LazyKind /\ toks[depth + 1].kind = "Lit"
      /\ TryBeforeLiteral(cut, ls, text)
  BY DEF GapBeforeLiteral, Entering
<1>2. /\ line \in Seq(Byte) /\ WellFormed(line) /\ pos \in Nat /\ Boundary(line, pos)
      /\ depth = Len(cut) /\ depth \in Nat /\ pos = cut[depth] /\ Reached(toks, line, cut)
  BY Frames DEF WalkInv
<1>3. text \in Seq(Byte) /\ WellFormed(text) /\ text # <<>>
  <2>1. toks[depth + 1] \in Token /\ WellFormed(text)
    <3>1. depth + 1 \in 1 .. Len(toks) /\ toks \in Seq(Token)
      BY <1>1, <1>2, Frames
    <3>2. WellFormed(toks[depth + 1].text)
      BY <3>1, Frames
    <3>3. QED
      BY <3>1, <3>2
  <2>2. QED
    BY <1>1, <2>1 DEF Token, Kind
<1>4. from \in Nat /\ pos <= from /\ (tok.kind = "Errno" => pos < from)
  BY <1>2 DEF MinOne
<1>5. ls # NoEnd => ls \in Nat /\ StartsWith(line, ls, text) /\ Passed(tok, line, pos, ls)
  <2> HIDE DEF tok, text, from
  <2>1. QED
    BY <1>1, <1>2, <1>3, <1>4, GapBeforeOccurrencePasses DEF tok
<1>6. QED
  BY <1>1, <1>2, <1>5, TryBeforeLiteralKeeps

(* The shortest gap before a spec (scan.rs:844-857).                        *)
LEMMA GapBeforeSpecKeeps == ASSUME WalkInv, GapBeforeSpec PROVE WalkInv'
<1> DEFINE tok == toks[depth]
           e == IF MinOne(tok.kind) THEN GapStep(pos) ELSE pos
<1>1. /\ pc = "walk" /\ depth < Len(toks) /\ tok.kind \in LazyKind /\ Try(e)
  BY DEF GapBeforeSpec, Entering
<1>2. /\ line \in Seq(Byte) /\ WellFormed(line) /\ pos \in Nat /\ Boundary(line, pos)
      /\ depth \in Nat /\ Len(toks) \in Nat
  BY Frames
<1>3. Dots(line, pos, pos)
  BY <1>2 DEF Dots
<1>4. ASSUME e # NoEnd PROVE Boundary(line, e) /\ Passed(tok, line, pos, e)
  <2>1. Dots(line, pos, e) /\ (tok.kind = "Errno" => pos < e)
    <3>1. CASE tok.kind = "Errno"
      <4>1. e = GapStep(pos)
        BY <3>1 DEF MinOne
      <4>2. GapStep(pos) > pos /\ Dots(line, pos, GapStep(pos))
        BY <1>2, <1>3, <1>4, <4>1, GapStepGrows
      <4>3. QED
        BY <4>1, <4>2 DEF Dots, Boundary
    <3>2. CASE tok.kind # "Errno"
      BY <1>3, <3>2 DEF MinOne
    <3>3. QED
      BY <3>1, <3>2
  <2>2. QED
    BY <1>1, <2>1, GapPasses DEF Dots
<1>5. QED
  BY <1>1, <1>2, <1>4, TryKeeps

-----------------------------------------------------------------------------
(* The callers' retries.                                                   *)

(* What a caller knows when the call below it returned false.              *)
LEMMA Caller ==
  ASSUME WalkInv, depth > 1
  PROVE  /\ depth - 1 \in 1 .. Len(toks) /\ toks[depth - 1] \in Token
         /\ cut[depth - 1] \in 0 .. n /\ Boundary(line, cut[depth - 1])
         /\ pos \in 0 .. n /\ Boundary(line, pos)
         /\ Passed(toks[depth - 1], line, cut[depth - 1], pos)
         /\ cut[depth - 1] <= pos
<1>1. /\ depth \in 2 .. Len(toks) + 1 /\ Len(toks) \in Nat /\ pos = cut[depth] /\ n \in Nat
      /\ depth - 1 \in 1 .. Len(toks) /\ depth - 1 \in 1 .. depth - 1 /\ depth - 1 \in 1 .. depth
      /\ depth \in 1 .. depth
  BY Frames
<1>2. /\ toks[depth - 1] \in Token /\ line \in Seq(Byte)
      /\ cut[depth - 1] \in 0 .. n /\ Boundary(line, cut[depth - 1])
      /\ pos \in 0 .. n /\ Boundary(line, pos)
  BY <1>1, Frames
<1>3. Passed(toks[depth - 1], line, cut[depth - 1], cut[depth - 1 + 1])
  BY <1>1, Frames
<1>4. Passed(toks[depth - 1], line, cut[depth - 1], pos)
  BY <1>1, <1>3
<1>5. cut[depth - 1] <= pos
  BY <1>1, <1>2, <1>4, SegmentAdvances DEF Passed
<1>6. QED
  BY <1>1, <1>2, <1>4, <1>5

(* Before a call below a gap can fail, there is a token below it.          *)
LEMMA GapIsNotLast ==
  ASSUME WalkInv, Returning(LazyKind)
  PROVE  depth \in 2 .. Len(toks)
<1>1. pc = "fail" /\ depth > 1 /\ toks[depth - 1].kind \in LazyKind
  BY DEF Returning
<1>2. depth \in 2 .. Len(toks) + 1 /\ Len(toks) \in Nat /\ depth = Len(cut)
  BY <1>1, Frames
<1>3. depth # Len(toks) + 1
  <2> SUFFICES ASSUME depth = Len(toks) + 1 PROVE FALSE
    OBVIOUS
  <2>1. Len(toks) \in 1 .. Len(toks) /\ depth - 1 = Len(toks)
    BY <1>2
  <2>2. toks[Len(toks)].kind \notin LazyKind
    BY <1>1, <1>2, <2>1 DEF WalkInv
  <2>3. QED
    BY <1>1, <2>1, <2>2
<1>4. QED
  BY <1>2, <1>3

(* Dropping the last frame leaves those of its callers.                     *)
LEMMA ReturnFalseKeeps == ASSUME WalkInv, ReturnFalse PROVE WalkInv'
<1>1. pc = "fail" /\ depth > 1 /\ Retry(NoEnd)
  BY DEF ReturnFalse, Returning
<1>2. QED
  BY <1>1, RetryKeeps

(* Giving back one byte of a greedy class leaves a run of its class.       *)
LEMMA ShrunkRunPasses ==
  ASSUME WalkInv, depth > 1,
         Greedy(toks[depth - 1], line, cut[depth - 1]),
         pos - 1 > GreedyFloor(toks[depth - 1].kind, cut[depth - 1])
  PROVE  Boundary(line, pos - 1) /\ Passed(toks[depth - 1], line, cut[depth - 1], pos - 1)
<1> DEFINE tok == toks[depth - 1]
           a == cut[depth - 1]
           f == FloorIn(line, tok.kind, a)
<1>1. /\ tok \in Token /\ a \in 0 .. n /\ Boundary(line, a) /\ pos \in 0 .. n
      /\ Passed(tok, line, a, pos)
  BY Caller
<1>2. line \in Seq(Byte) /\ WellFormed(line) /\ n = Len(line) /\ n \in Nat
  BY Frames
<1>3. f \in Nat /\ pos - 1 > f
  BY <1>1, <1>2 DEF GreedyFloor, FloorIn
<1>4. RunOf(ClassOf(tok.kind), line, f, pos)
  BY <1>1 DEF Passed
<1>5. RunOf(ClassOf(tok.kind), line, f, pos - 1) /\ pos - 1 \in 0 .. Len(line)
  <2> HIDE DEF f, tok
  <2>1. pos - 1 \in Nat /\ f < pos - 1 /\ pos - 1 <= pos /\ pos \in Nat
    BY <1>1, <1>2, <1>3
  <2>2. QED
    BY <1>1, <1>2, <1>3, <1>4, <2>1, RunShrinks
<1>6. QED
  BY <1>1, <1>2, <1>5, RunPasses

(* A greedy class that gives back one byte still passes (scan.rs:755, 776). *)
LEMMA ShrinkKeeps == ASSUME WalkInv, Shrink PROVE WalkInv'
<1> DEFINE tok == toks[depth - 1]
           e == IF pos - 1 > GreedyFloor(tok.kind, cut[depth - 1]) THEN pos - 1 ELSE NoEnd
<1>1. pc = "fail" /\ depth > 1 /\ Greedy(tok, line, cut[depth - 1]) /\ Retry(e)
  BY DEF Shrink, Returning, Greedy
<1>2. e # NoEnd => Boundary(line, e) /\ Passed(tok, line, cut[depth - 1], e)
  BY <1>1, ShrunkRunPasses
<1>3. QED
  BY <1>1, <1>2, RetryKeeps

(* A later occurrence is as good as the first (scan.rs:840).                *)
LEMMA NextOccurrenceKeeps == ASSUME WalkInv, NextOccurrence PROVE WalkInv'
<1> DEFINE tok == toks[depth - 1]
           a == cut[depth - 1]
           text == toks[depth].text
           ls == GapToLiteral(a, pos + 1, text)
<1>1. /\ pc = "fail" /\ depth > 1 /\ tok.kind \in LazyKind /\ toks[depth].kind = "Lit"
      /\ TryBeforeLiteral(Callers, ls, text)
  BY DEF NextOccurrence, Returning
<1>2. depth \in 2 .. Len(toks) /\ Len(toks) \in Nat
  BY GapIsNotLast, Frames DEF NextOccurrence
<1>3. /\ line \in Seq(Byte) /\ WellFormed(line) /\ n \in Nat
      /\ toks[depth] \in Token /\ WellFormed(text)
  BY <1>2, Frames
<1>4. text \in Seq(Byte) /\ text # <<>>
  BY <1>1, <1>3 DEF Token, Kind
<1>5. a \in Nat /\ Boundary(line, a) /\ pos \in Nat /\ a < pos + 1
  BY <1>1, <1>3, Caller
<1>6. ls # NoEnd => ls \in Nat /\ StartsWith(line, ls, text) /\ Passed(tok, line, a, ls)
  <2> HIDE DEF tok, text, a
  <2>1. QED
    BY <1>1, <1>3, <1>4, <1>5, GapBeforeOccurrencePasses DEF tok
<1>7. /\ Reached(toks, line, Callers) /\ Len(Callers) = depth - 1
      /\ Callers[depth - 1] = a
  <2>1. Reached(toks, line, cut) /\ Len(cut) = depth
    BY Frames DEF WalkInv
  <2>2. QED
    BY <1>2, <1>3, <2>1, ReachedCallers DEF Callers
<1>8. Len(Callers) < Len(toks) /\ Len(Callers) + 1 = depth
  BY <1>2, <1>7
<1>9. QED
  BY <1>1, <1>6, <1>7, <1>8, TryBeforeLiteralKeeps

(* A gap that grows by one char still passes (scan.rs:858-861).             *)
LEMMA GrowKeeps == ASSUME WalkInv, Grow PROVE WalkInv'
<1> DEFINE tok == toks[depth - 1]
           a == cut[depth - 1]
           e == GapStep(pos)
<1>1. pc = "fail" /\ depth > 1 /\ tok.kind \in LazyKind /\ Retry(e)
  BY DEF Grow, Returning
<1>2. /\ line \in Seq(Byte) /\ WellFormed(line) /\ n \in Nat
      /\ a \in 0 .. n /\ pos \in 0 .. n /\ Passed(tok, line, a, pos) /\ a <= pos
  BY <1>1, Frames, Caller
<1>3. Dots(line, a, pos)
  <2>1. CASE tok.kind = "Str"
    BY <1>2, <2>1 DEF Passed, Segment
  <2>2. CASE tok.kind = "Errno"
    BY <1>2, <2>2 DEF Passed, Segment
  <2>3. QED
    BY <1>1, <2>1, <2>2 DEF LazyKind
<1>4. ASSUME e # NoEnd PROVE Boundary(line, e) /\ Passed(tok, line, a, e)
  <2>1. e > pos /\ Dots(line, a, e)
    BY <1>2, <1>3, <1>4, GapStepGrows
  <2>2. a < e /\ Boundary(line, e)
    BY <1>2, <2>1 DEF Dots, Boundary
  <2>3. QED
    BY <1>1, <2>1, <2>2, GapPasses
<1>5. QED
  BY <1>1, <1>4, RetryKeeps

(* The invariant is inductive: one step per action.                         *)
LEMMA WalkInvStep == WalkInv /\ [Next]_vars => WalkInv'
<1> SUFFICES ASSUME WalkInv, [Next]_vars PROVE WalkInv'
  OBVIOUS
<1>1. CASE Nominate \/ Prune \/ RejectEarly \/ BeginWalk \/ EndOfPattern \/ GiveUp
  BY <1>1, AnswerKeeps
<1>2. CASE Literal
  BY <1>2, LiteralKeeps
<1>3. CASE Char
  BY <1>3, CharKeeps
<1>4. CASE Number
  BY <1>4, NumberKeeps
<1>5. CASE Pointer
  BY <1>5, PointerKeeps
<1>6. CASE LastGap
  BY <1>6, LastGapKeeps
<1>7. CASE GapBeforeLiteral
  BY <1>7, GapBeforeLiteralKeeps
<1>8. CASE GapBeforeSpec
  BY <1>8, GapBeforeSpecKeeps
<1>9. CASE ReturnFalse
  BY <1>9, ReturnFalseKeeps
<1>10. CASE Shrink
  BY <1>10, ShrinkKeeps
<1>11. CASE NextOccurrence
  BY <1>11, NextOccurrenceKeeps
<1>12. CASE Grow
  BY <1>12, GrowKeeps
<1>13. CASE UNCHANGED vars
  BY <1>13 DEF WalkInv, vars
<1>14. QED
  BY <1>1, <1>2, <1>3, <1>4, <1>5, <1>6, <1>7, <1>8, <1>9, <1>10, <1>11, <1>12, <1>13
     DEF Next, Walk, Backtrack

(* The frames of match_toks always hold a partial parse of the line on     *)
(* char boundaries.                                                        *)
THEOREM FramesHoldPartialParse == Spec => []WalkInv
<1>1. Init => WalkInv
  BY WalkInvInit
<1>2. WalkInv /\ [Next]_vars => WalkInv'
  BY WalkInvStep
<1>3. QED
  BY <1>1, <1>2, PTL DEF Spec

(* Every position of the walk lies in the line, whatever the input.        *)
THEOREM TypeCorrect == Spec => []TypeOK
<1>1. WalkInv => TypeOK
  BY DEF WalkInv, TypeOK, Reached
<1>2. QED
  BY <1>1, FramesHoldPartialParse, PTL

(* No slice of scan_line or match_toks splits a char: line[start..end] of  *)
(* a capture cannot panic, whatever the pattern and the line.              *)
THEOREM SlicesNeverSplitChars == Spec => []SlicesOnBoundaries
<1>1. WalkInv => SlicesOnBoundaries
  BY DEF WalkInv, SlicesOnBoundaries, Reached
<1>2. QED
  BY <1>1, FramesHoldPartialParse, PTL

(* Soundness of verify: the spans of a match cut the whole line into       *)
(* slices that the fragments of the anchored regex match.                  *)
THEOREM MatchesAreParses == Spec => []MatchIsParse
<1>1. WalkInv => MatchIsParse
  <2> SUFFICES ASSUME WalkInv, pc = "matched" PROVE IsParse(toks, line, cut)
    BY DEF MatchIsParse
  <2>1. Len(cut) = Len(toks) + 1 /\ cut[Len(cut)] = Len(line)
    BY DEF WalkInv
  <2>2. cut[1] = 0
    BY DEF WalkInv, Reached
  <2>3. depth = Len(cut) /\ Len(toks) \in Nat
    BY Frames
  <2>4. \A i \in 1 .. Len(toks) : Segment(toks[i], line, cut[i], cut[i + 1])
    BY <2>1, <2>3, Frames DEF Passed
  <2>5. QED
    BY <2>1, <2>2, <2>4 DEF IsParse
<1>2. QED
  BY <1>1, FramesHoldPartialParse, PTL

-----------------------------------------------------------------------------
(* The order of the retries.                                               *)

(* A retry that appends a new end after the callers' positions.            *)
LEMMA RetryReplacesLast ==
  ASSUME WalkInv, depth > 1, NEW e,
         e \in 0 .. n, NEW rest \in Seq(0 .. n), cut' = Append(Callers, e) \o rest
  PROVE  /\ Len(cut') >= depth /\ cut'[depth] = e
         /\ SubSeq(cut', 1, depth - 1) = SubSeq(cut, 1, depth - 1)
<1>1. /\ cut \in Seq(0 .. n) /\ depth \in Nat /\ depth = Len(cut)
      /\ line \in Seq(Byte) /\ Reached(toks, line, cut)
  BY Frames DEF WalkInv
<1>2. Callers \in Seq(0 .. n) /\ Len(Callers) = depth - 1
  <2>1. n = Len(line) /\ Len(cut) > 1
    BY <1>1 DEF n
  <2>2. Reached(toks, line, Callers) /\ Len(Callers) = Len(cut) - 1
    BY <1>1, <2>1, ReachedCallers DEF Callers, depth
  <2>3. QED
    BY <1>1, <2>1, <2>2 DEF Reached
<1>3. /\ Append(Callers, e) \in Seq(0 .. n) /\ Len(Append(Callers, e)) = depth
      /\ Append(Callers, e)[depth] = e
      /\ \A i \in 1 .. depth - 1 : Append(Callers, e)[i] = Callers[i]
  <2>1. /\ Append(Callers, e) \in Seq(0 .. n) /\ Len(Append(Callers, e)) = Len(Callers) + 1
        /\ \A i \in 1 .. Len(Callers) : Append(Callers, e)[i] = Callers[i]
        /\ Append(Callers, e)[Len(Callers) + 1] = e
    BY <1>2, AppendProperties
  <2>2. QED
    BY <1>1, <1>2, <2>1
<1> DEFINE next == Append(Callers, e) \o rest
<1>4. /\ next \in Seq(0 .. n) /\ Len(next) >= depth /\ next[depth] = e
      /\ \A i \in 1 .. depth - 1 : next[i] = Callers[i]
  <2> DEFINE head == Append(Callers, e)
  <2> HIDE DEF head
  <2>1. head \in Seq(0 .. n) /\ Len(head) = depth
    BY <1>3 DEF head
  <2>2. /\ head \o rest \in Seq(0 .. n) /\ Len(head \o rest) >= depth
        /\ \A i \in 1 .. depth : (head \o rest)[i] = head[i]
    BY <1>1, <2>1
  <2>3. QED
    BY <1>1, <1>3, <2>2 DEF head
<1> HIDE DEF next
<1>5. SubSeq(next, 1, depth - 1) = Callers
  <2>1. /\ SubSeq(next, 1, depth - 1) \in Seq(0 .. n) /\ Len(SubSeq(next, 1, depth - 1)) = depth - 1
        /\ \A i \in 1 .. depth - 1 : SubSeq(next, 1, depth - 1)[i] = next[i]
    <3> DEFINE m == depth - 1
    <3>1. m \in 0 .. Len(next) /\ Len(next) \in Nat
      BY <1>1, <1>4
    <3> HIDE DEF m
    <3>2. /\ SubSeq(next, 1, m) \in Seq(0 .. n) /\ Len(SubSeq(next, 1, m)) = m
          /\ \A i \in 1 .. m : SubSeq(next, 1, m)[i] = next[i]
      <4>1. SubSeq(next, 1, m) \in Seq(0 .. n)
        <5>1. \A i \in 1 .. m : next[i] \in 0 .. n
          <6>1. \A i \in 1 .. m : Callers[i] \in 0 .. n
            BY <1>2, ElementOfSeq DEF m
          <6>2. QED
            BY <1>4, <6>1 DEF m
        <5>2. QED
          BY <3>1, <5>1, SubSeqProperties
      <4>2. Len(SubSeq(next, 1, m)) = m
        BY <3>1
      <4>3. ASSUME NEW i \in 1 .. m PROVE SubSeq(next, 1, m)[i] = next[i]
        <5>1. SubSeq(next, 1, m)[i] = next[1 + i - 1]
          BY <3>1
        <5>2. 1 + i - 1 = i
          BY <3>1
        <5>3. QED
          BY <5>1, <5>2
      <4>4. QED
        BY <4>1, <4>2, <4>3
    <3>3. QED
      BY <3>2 DEF m
  <2>2. \A i \in 1 .. depth - 1 : SubSeq(next, 1, depth - 1)[i] = Callers[i]
    BY <1>4, <2>1
  <2>3. QED
    BY <1>1, <1>2, <2>1, <2>2, SeqEqual
<1>6. cut' = next
  BY DEF next
<1>7. QED
  BY <1>4, <1>5, <1>6 DEF Callers

(* A retry by one end leaves the callers' positions alone.                  *)
LEMMA RetryByOne ==
  ASSUME WalkInv, depth > 1, NEW e, e \in 0 .. n, cut' = Append(Callers, e)
  PROVE  /\ Len(cut') >= depth /\ cut'[depth] = e
         /\ SubSeq(cut', 1, depth - 1) = SubSeq(cut, 1, depth - 1)
<1>1. Callers \in Seq(0 .. n)
  BY Frames DEF Callers
<1>2. Append(Callers, e) \o <<>> = Append(Callers, e) /\ <<>> \in Seq(0 .. n)
  BY <1>1
<1>3. QED
  BY <1>2, RetryReplacesLast

(* The new end of a retry is on the preferred side of the old one.         *)
LEMMA RetryOrder ==
  ASSUME WalkInv, Next, pc = "fail", pc' = "walk"
  PROVE  /\ Len(cut') >= depth
         /\ SubSeq(cut', 1, depth - 1) = SubSeq(cut, 1, depth - 1)
         /\ IF toks[depth - 1].kind \in LazyKind THEN cut'[depth] > cut[depth] ELSE cut'[depth] < cut[depth]
<1>1. Shrink \/ NextOccurrence \/ Grow
  BY DEF Next, Walk, Backtrack, Nominate, Prune, RejectEarly, BeginWalk, EndOfPattern, Literal, Char,
         Number, Pointer, LastGap, GapBeforeLiteral, GapBeforeSpec, ReturnFalse, GiveUp, Answer,
         Entering, Retry, NoEnd
<1>2. depth > 1
  BY <1>1 DEF Shrink, NextOccurrence, Grow, Returning
<1>3. /\ cut \in Seq(0 .. n) /\ n \in Nat /\ line \in Seq(Byte) /\ WellFormed(line)
      /\ cut[depth - 1] \in 0 .. n /\ pos \in 0 .. n /\ pos = cut[depth]
      /\ Passed(toks[depth - 1], line, cut[depth - 1], pos) /\ cut[depth - 1] <= pos
  BY <1>2, Frames, Caller
<1>4. CASE Shrink
  <2> DEFINE e == IF pos - 1 > GreedyFloor(toks[depth - 1].kind, cut[depth - 1]) THEN pos - 1 ELSE NoEnd
  <2>1. Retry(e) /\ toks[depth - 1].kind \notin LazyKind
    BY <1>4 DEF Shrink, Returning, LazyKind
  <2>2. e = pos - 1 /\ e # NoEnd /\ cut' = Append(Callers, e)
    BY <2>1 DEF Retry
  <2>3. e \in 0 .. n /\ e < pos
    <3>1. GreedyFloor(toks[depth - 1].kind, cut[depth - 1]) >= 0
      BY <1>3 DEF GreedyFloor, FloorIn
    <3>2. e = pos - 1 /\ pos - 1 > GreedyFloor(toks[depth - 1].kind, cut[depth - 1])
      BY <2>2
    <3>3. GreedyFloor(toks[depth - 1].kind, cut[depth - 1]) \in Int
      BY <1>3 DEF GreedyFloor, FloorIn
    <3>4. pos - 1 >= 0 /\ pos - 1 <= n
      BY <1>3, <3>1, <3>2, <3>3
    <3>5. QED
      BY <1>3, <3>2, <3>4
  <2>4. QED
    BY <1>2, <1>3, <2>1, <2>2, <2>3, RetryByOne
<1>5. CASE NextOccurrence
  <2> DEFINE text == toks[depth].text
             ls == GapToLiteral(cut[depth - 1], pos + 1, text)
  <2>1. toks[depth - 1].kind \in LazyKind /\ TryBeforeLiteral(Callers, ls, text)
    BY <1>5 DEF NextOccurrence, Returning
  <2>2. ls # NoEnd /\ cut' = Callers \o <<ls, ls + Len(text)>>
    BY <2>1 DEF TryBeforeLiteral
  <2>3. ls \in pos + 1 .. n /\ StartsWith(line, ls, text)
    <3>1. pos + 1 \in Nat /\ cut[depth - 1] \in Nat
      BY <1>3
    <3>2. QED
      BY <1>3, <2>2, <3>1, GapToLiteralFinds
  <2>4. text \in Seq(Byte)
    <3>1. depth \in 1 .. Len(toks)
      BY <1>5, GapIsNotLast DEF NextOccurrence
    <3>2. toks[depth] \in Token
      BY <3>1, Frames
    <3>3. toks[depth].kind = "Lit"
      BY <1>5 DEF NextOccurrence
    <3>4. QED
      BY <3>2, <3>3 DEF Token, Kind
  <2>5. ls \in 0 .. n /\ ls + Len(text) \in 0 .. n
    <3>1. n = Len(line) /\ Len(text) \in Nat
      BY <2>4 DEF n
    <3>2. ls + Len(text) <= n
      BY <2>3, <3>1 DEF StartsWith
    <3> HIDE DEF ls, text
    <3>3. QED
      BY <1>3, <2>3, <3>1, <3>2
  <2> HIDE DEF ls, text
  <2>6. cut' = Append(Callers, ls) \o <<ls + Len(text)>> /\ <<ls + Len(text)>> \in Seq(0 .. n)
    <3>1. Callers \in Seq(0 .. n)
      BY <1>3, Frames DEF Callers
    <3>2. QED
      BY <2>2, <2>5, <3>1
  <2>7. /\ Len(cut') >= depth /\ cut'[depth] = ls
        /\ SubSeq(cut', 1, depth - 1) = SubSeq(cut, 1, depth - 1)
    BY <1>2, <2>5, <2>6, RetryReplacesLast
  <2>8. ls > pos
    BY <1>3, <2>3
  <2>9. QED
    BY <1>3, <2>1, <2>7, <2>8
<1>6. CASE Grow
  <2>1. Retry(GapStep(pos)) /\ toks[depth - 1].kind \in LazyKind
    BY <1>6 DEF Grow, Returning
  <2>2. GapStep(pos) # NoEnd /\ cut' = Append(Callers, GapStep(pos))
    BY <2>1 DEF Retry
  <2>3. Dots(line, pos, pos)
    BY <1>2, <1>3, Caller DEF Dots
  <2>4. GapStep(pos) > pos /\ GapStep(pos) \in 0 .. n
    <3>1. GapStep(pos) > pos /\ Dots(line, pos, GapStep(pos))
      BY <1>3, <2>2, <2>3, GapStepGrows
    <3>2. QED
      BY <3>1 DEF Dots, Boundary, n
  <2>5. QED
    BY <1>2, <1>3, <2>1, <2>2, <2>4, RetryByOne
<1>7. QED
  BY <1>1, <1>4, <1>5, <1>6

(* Backtracking tries the ends of a spec in the regex engine's order.      *)
THEOREM RetriesFollowPreference == Spec => PreferenceOrder
<1>1. WalkInv /\ [Next]_vars =>
        [ pc = "fail" /\ pc' = "walk" =>
            /\ Len(cut') >= depth
            /\ SubSeq(cut', 1, depth - 1) = SubSeq(cut, 1, depth - 1)
            /\ IF toks[depth - 1].kind \in LazyKind THEN cut'[depth] > cut[depth] ELSE cut'[depth] < cut[depth]
        ]_vars
  BY RetryOrder
<1>2. QED
  BY <1>1, FramesHoldPartialParse, PTL DEF Spec, PreferenceOrder

-----------------------------------------------------------------------------
(***************************************************************************)
(* The walk implements the anchored regular expression, with \d read as    *)
(* the ASCII digits: of the oracle's parses of the line it finds the one    *)
(* the regex engine prefers, and it gives up only when there is none.       *)
(***************************************************************************)

(* \d read as the ASCII digits: a run of them, as lines hold whole chars.  *)
LEMMA AsciiDigits ==
  ASSUME NEW s \in Seq(Byte), WellFormed(s), NEW a \in Nat, NEW b \in 0 .. Len(s)
  PROVE  AsciiOracle!Digits(s, a, b) <=> RunOf(Digit, s, a, b)
<1>0. Len(s) \in Nat /\ b \in Nat
  OBVIOUS
<1>1. \A x, p : AsciiOracle!Boundary(x, p) = Boundary(x, p)
  BY Zenon DEF AsciiOracle!Boundary, Boundary
<1>2. AsciiOracle!Digits(s, a, b) <=>
        /\ a < b /\ Boundary(s, a) /\ Boundary(s, b)
        /\ \A p \in a .. b - 1 : s[p + 1] \notin Cont => s[p + 1] \in Digit
  BY <1>1 DEF AsciiOracle!Digits
<1>3. ASSUME RunOf(Digit, s, a, b) PROVE AsciiOracle!Digits(s, a, b)
  <2>1. Digit \in SUBSET (Hex \cup Float)
    BY AlphabetAssumption
  <2>2. Boundary(s, a) /\ Boundary(s, b)
    BY <1>3, <2>1, RunOnBoundary
  <2>3. QED
    BY <1>2, <1>3, <2>2 DEF RunOf
<1>4. ASSUME AsciiOracle!Digits(s, a, b) PROVE RunOf(Digit, s, a, b)
  <2> DEFINE inner == { p \in a .. b - 1 : s[p + 1] \in Cont }
  <2>1. inner = {}
    <3> SUFFICES ASSUME inner # {} PROVE FALSE
      OBVIOUS
    <3>1. inner \in SUBSET Nat
      OBVIOUS
    <3>2. Least(inner) \in inner /\ \A f \in inner : Least(inner) <= f
      <4> HIDE DEF inner
      <4>1. QED
        BY <3>1, LeastIsSmallest
    <3> DEFINE p == Least(inner)
    <3>3. p \in a .. b - 1 /\ s[p + 1] \in Cont /\ \A f \in inner : p <= f
      BY <3>2
    <3> HIDE DEF p
    <3>4. p > a
      <4>1. s[a + 1] \notin Cont
        BY <1>0, <1>2, <1>4 DEF Boundary
      <4>2. QED
        BY <3>3, <4>1
    <3>5. p - 1 \in a .. b - 1 /\ p - 1 + 1 = p /\ p - 1 \notin inner
      <4>1. p \in a .. b - 1 /\ \A f \in inner : p <= f
        BY <3>3
      <4> HIDE DEF inner
      <4>2. p - 1 \in a .. b - 1 /\ p - 1 + 1 = p /\ ~(p <= p - 1)
        BY <3>4, <4>1
      <4>3. p - 1 \notin inner
        BY <4>1, <4>2
      <4>4. QED
        BY <4>2, <4>3
    <3>6. s[p] \notin Cont
      BY <3>5
    <3>7. s[p] \in Digit
      BY <1>2, <1>4, <3>5, <3>6
    <3>8. Width[s[p]] = 1
      BY <3>7, AlphabetAssumption
    <3>9. p \in 1 .. Len(s) /\ p + 1 <= Len(s)
      BY <1>0, <3>3, <3>4
    <3>10. s[p + 1] \notin Cont
      BY <3>6, <3>8, <3>9 DEF WellFormed
    <3>11. QED
      BY <3>3, <3>10
  <2>2. \A p \in a .. b - 1 : s[p + 1] \notin Cont
    BY <2>1
  <2>3. QED
    BY <1>2, <1>4, <2>2 DEF RunOf
<1>5. QED
  BY <1>3, <1>4

(* Nothing but the digits is read differently.                             *)
LEMMA OtherSegments ==
  ASSUME NEW tok \in Token, tok.kind \notin {"Int", "Uint"}, NEW s, NEW a, NEW b
  PROVE  AsciiOracle!Segment(tok, s, a, b) <=> Segment(tok, s, a, b)
<1>1. \A x, p : AsciiOracle!Boundary(x, p) = Boundary(x, p)
  BY Zenon DEF AsciiOracle!Boundary, Boundary
<1>2. \A x, p, t : AsciiOracle!StartsWith(x, p, t) <=> StartsWith(x, p, t)
  BY Zenon DEF AsciiOracle!StartsWith, StartsWith
<1>3. \A x, c, d : AsciiOracle!Dots(x, c, d) <=> Dots(x, c, d)
  BY <1>1, Zenon DEF AsciiOracle!Dots, Dots
<1>4. \A C, x, c, d : AsciiOracle!RunOf(C, x, c, d) <=> RunOf(C, x, c, d)
  BY Zenon DEF AsciiOracle!RunOf, RunOf
<1>5. CASE tok.kind = "Lit"
  BY <1>2, <1>5 DEF AsciiOracle!Segment, Segment
<1>6. CASE tok.kind = "Str"
  BY <1>3, <1>6 DEF AsciiOracle!Segment, Segment
<1>7. CASE tok.kind = "Errno"
  BY <1>3, <1>7 DEF AsciiOracle!Segment, Segment
<1>8. CASE tok.kind = "Char"
  BY <1>3, <1>8 DEF AsciiOracle!Segment, Segment
<1>9. CASE tok.kind = "Oct"
  BY <1>4, <1>9 DEF AsciiOracle!Segment, Segment
<1>10. CASE tok.kind = "Hex"
  BY <1>4, <1>10 DEF AsciiOracle!Segment, Segment
<1>11. CASE tok.kind = "Float"
  BY <1>4, <1>11 DEF AsciiOracle!Segment, Segment
<1>12. CASE tok.kind = "Ptr"
  BY <1>2, <1>4, <1>12 DEF AsciiOracle!Segment, Segment
<1>13. QED
  BY <1>5, <1>6, <1>7, <1>8, <1>9, <1>10, <1>11, <1>12 DEF Token, Kind

(* With \d read so, a token matches what its frame may hold.               *)
LEMMA AsciiSegment ==
  ASSUME line \in Seq(Byte), WellFormed(line), NEW tok \in Token,
         NEW a \in 0 .. Len(line), Boundary(line, a), NEW b \in 0 .. Len(line)
  PROVE  AsciiOracle!Segment(tok, line, a, b) <=> Passed(tok, line, a, b)
<1>0. Len(line) \in Nat /\ a \in Nat /\ b \in Nat
  OBVIOUS
<1>5. CASE tok.kind = "Int"
  <2>1. AsciiOracle!Segment(tok, line, a, b) <=>
          \/ RunOf(Digit, line, a, b)
          \/ a < b /\ line[a + 1] = Minus /\ RunOf(Digit, line, a + 1, b)
    <3>1. AsciiOracle!Segment(tok, line, a, b) <=>
            \/ AsciiOracle!Digits(line, a, b)
            \/ a < b /\ line[a + 1] = Minus /\ AsciiOracle!Digits(line, a + 1, b)
      BY <1>5 DEF AsciiOracle!Segment
    <3>2. a + 1 \in Nat
      BY <1>0
    <3>3. QED
      BY <1>0, <3>1, <3>2, AsciiDigits
  <2>2. Minus \notin Digit
    BY AlphabetAssumption
  <2>3. ClassOf(tok.kind) = Digit /\ Greedy(tok, line, a)
    BY <1>5 DEF ClassOf, Greedy
  <2>4. FloorIn(line, tok.kind, a) = IF a < Len(line) /\ line[a + 1] = Minus THEN a + 1 ELSE a
    BY <1>5 DEF FloorIn
  <2>5. RunOf(Digit, line, a, b) => line[a + 1] \in Digit /\ a < b
    BY <1>0 DEF RunOf
  <2>6. RunOf(Digit, line, a + 1, b) => a < b
    BY <1>0 DEF RunOf
  <2>7. AsciiOracle!Segment(tok, line, a, b) <=> RunOf(Digit, line, FloorIn(line, tok.kind, a), b)
    BY <1>0, <2>1, <2>2, <2>4, <2>5, <2>6
  <2>8. QED
    BY <2>3, <2>7, RunPasses DEF Passed
<1>6. CASE tok.kind = "Uint"
  <2>1. AsciiOracle!Segment(tok, line, a, b) <=> RunOf(Digit, line, a, b)
    <3>1. AsciiOracle!Segment(tok, line, a, b) <=> AsciiOracle!Digits(line, a, b)
      BY <1>6 DEF AsciiOracle!Segment
    <3>2. QED
      BY <1>0, <3>1, AsciiDigits
  <2>2. ClassOf(tok.kind) = Digit /\ Greedy(tok, line, a) /\ FloorIn(line, tok.kind, a) = a
    BY <1>6 DEF ClassOf, Greedy, FloorIn
  <2>3. QED
    BY <2>1, <2>2, RunPasses DEF Passed
<1>7. CASE tok.kind \notin {"Int", "Uint"}
  <2>1. AsciiOracle!Segment(tok, line, a, b) <=> Segment(tok, line, a, b)
    BY <1>7, OtherSegments
  <2>2. ASSUME Segment(tok, line, a, b), Greedy(tok, line, a)
        PROVE  RunOf(ClassOf(tok.kind), line, FloorIn(line, tok.kind, a), b)
    <3>1. CASE tok.kind \in {"Oct", "Hex", "Float"}
      BY <2>2, <3>1 DEF Segment, ClassOf, FloorIn
    <3>2. CASE tok.kind = "Ptr"
      <4>1. StartsWith(line, a, HexPrefix)
        BY <2>2, <3>2 DEF Greedy
      <4>2. ~StartsWith(line, a, NilText)
        BY <1>0, <4>1, ArmsAreDisjoint
      <4>3. RunOf(Hex, line, a + 2, b)
        BY <2>2, <3>2, <4>2 DEF Segment
      <4>4. QED
        BY <3>2, <4>3 DEF ClassOf, FloorIn
    <3>3. QED
      BY <1>7, <2>2, <3>1, <3>2 DEF Greedy
  <2>3. QED
    BY <2>1, <2>2 DEF Passed
<1>8. QED
  BY <1>5, <1>6, <1>7

(* And what it matches lies ahead.                                         *)
LEMMA AsciiAdvances ==
  ASSUME NEW tok \in Token, NEW s \in Seq(Byte), NEW a \in Nat, NEW b \in 0 .. Len(s),
         AsciiOracle!Segment(tok, s, a, b)
  PROVE  a <= b
<1>0. Len(s) \in Nat /\ b \in Nat
  OBVIOUS
<1>3. CASE tok.kind \in {"Int", "Uint"}
  <2>1. AsciiOracle!Digits(s, a, b) \/ AsciiOracle!Digits(s, a + 1, b)
    <3>1. CASE tok.kind = "Int"
      BY <3>1 DEF AsciiOracle!Segment
    <3>2. CASE tok.kind = "Uint"
      BY <3>2 DEF AsciiOracle!Segment
    <3>3. QED
      BY <1>3, <3>1, <3>2
  <2>2. a < b \/ a + 1 < b
    BY <2>1 DEF AsciiOracle!Digits
  <2>3. QED
    BY <1>0, <2>2
<1>4. CASE tok.kind \notin {"Int", "Uint"}
  <2>1. Segment(tok, s, a, b)
    BY <1>4, OtherSegments
  <2>2. QED
    BY <1>0, <2>1, SegmentAdvances
<1>5. QED
  BY <1>3, <1>4

(* The parses of the first i tokens, each grown by one slice.              *)
AsciiGrown(p, s, i, C) ==
  UNION { { Append(c, e) : e \in { x \in c[i] .. Len(s) : AsciiOracle!Segment(p[i], s, c[i], x) } } : c \in C }

(* The partial parses, one token longer at each index.                      *)
LEMMA AsciiPartialParses ==
  ASSUME NEW p \in Seq(Token), NEW s
  PROVE  \E partial :
           /\ partial[0] = {<<0>>}
           /\ \A i \in 1 .. Len(p) : partial[i] = AsciiGrown(p, s, i, partial[i - 1])
           /\ AsciiOracle!Parses(p, s) = { c \in partial[Len(p)] : c[Len(c)] = Len(s) }
<1> DEFINE V == SUBSET Seq(Int)
           step == [ i \in 1 .. Len(p) |-> [ C \in V |-> AsciiGrown(p, s, i, C) ] ]
           partial == CHOOSE f : f = [ i \in 0 .. Len(p) |->
             IF i = 0 THEN {<<0>>}
             ELSE UNION { { Append(c, e) : e \in { x \in c[i] .. Len(s) :
                                                   AsciiOracle!Segment(p[i], s, c[i], x) } }
                          : c \in f[i - 1] } ]
<1>1. AsciiOracle!Parses(p, s) = { c \in partial[Len(p)] : c[Len(c)] = Len(s) }
  BY DEF AsciiOracle!Parses
<1>2. Len(p) \in Nat
  OBVIOUS
<1>3. \A i \in 1 .. Len(p) : \A C \in V : AsciiGrown(p, s, i, C) \in V
  <2> SUFFICES ASSUME NEW i \in 1 .. Len(p), NEW C \in V, NEW d \in AsciiGrown(p, s, i, C)
               PROVE  d \in Seq(Int)
    OBVIOUS
  <2>1. PICK c \in C : \E e \in c[i] .. Len(s) : d = Append(c, e)
    BY DEF AsciiGrown
  <2>2. QED
    BY <2>1
<1>4. {<<0>>} \in V
  OBVIOUS
<1>5. Steps(Len(p), V, {<<0>>}, step)
  BY <1>2, <1>3, <1>4 DEF Steps
<1>6. \A i \in 1 .. Len(p) : \A C \in V : step[i][C] = AsciiGrown(p, s, i, C)
  OBVIOUS
<1>7. PICK f : Follows(f, Len(p), V, {<<0>>}, step)
  <2> HIDE DEF step
  <2>1. QED
    BY <1>5, Recurrence
<1> HIDE DEF step
<1>8. /\ f \in [0 .. Len(p) -> V] /\ f[0] = {<<0>>}
      /\ \A i \in 1 .. Len(p) : f[i] = step[i][f[i - 1]]
  BY <1>7, Zenon DEF Follows
<1>9. f = [ i \in 0 .. Len(p) |-> IF i = 0 THEN {<<0>>} ELSE AsciiGrown(p, s, i, f[i - 1]) ]
  <2>1. \A i \in 1 .. Len(p) : f[i - 1] \in V
    BY <1>2, <1>8
  <2>2. \A i \in 1 .. Len(p) : f[i] = AsciiGrown(p, s, i, f[i - 1])
    BY <1>6, <1>8, <2>1
  <2>3. QED
    BY <1>2, <1>8, <2>2
<1>10. partial = [ i \in 0 .. Len(p) |-> IF i = 0 THEN {<<0>>} ELSE AsciiGrown(p, s, i, partial[i - 1]) ]
  BY <1>9 DEF AsciiGrown
<1> HIDE DEF partial
<1>11. \A i \in 0 .. Len(p) :
          partial[i] = IF i = 0 THEN {<<0>>} ELSE AsciiGrown(p, s, i, partial[i - 1])
  BY <1>10
<1>12. partial[0] = {<<0>>} /\ \A i \in 1 .. Len(p) : partial[i] = AsciiGrown(p, s, i, partial[i - 1])
  BY <1>2, <1>11
<1>13. QED
  BY <1>1, <1>12

(* The oracle's parses are all the ways to cut the line into slices that   *)
(* the tokens match.                                                       *)
IsAsciiParse(p, s, c) ==
  /\ c \in Seq(0 .. Len(s)) /\ Len(c) = Len(p) + 1 /\ c[1] = 0 /\ c[Len(p) + 1] = Len(s)
  /\ \A j \in 1 .. Len(p) : AsciiOracle!Segment(p[j], s, c[j], c[j + 1])

(* Parses holds exactly those cuts.                                         *)
LEMMA AllAsciiParses ==
  ASSUME NEW p \in Seq(Token), NEW s \in Seq(Byte)
  PROVE  \A c : c \in AsciiOracle!Parses(p, s) <=> IsAsciiParse(p, s, c)
<1> DEFINE Whole(i, c) == /\ c \in Seq(0 .. Len(s)) /\ Len(c) = i + 1 /\ c[1] = 0
                          /\ \A j \in 1 .. i : AsciiOracle!Segment(p[j], s, c[j], c[j + 1])
<1>1. PICK partial :
        /\ partial[0] = {<<0>>}
        /\ \A i \in 1 .. Len(p) : partial[i] = AsciiGrown(p, s, i, partial[i - 1])
        /\ AsciiOracle!Parses(p, s) = { c \in partial[Len(p)] : c[Len(c)] = Len(s) }
  BY AsciiPartialParses
<1>2. Len(p) \in Nat /\ Len(s) \in Nat
  OBVIOUS
<1> DEFINE P == { i \in 0 .. Len(p) : \A c : c \in partial[i] <=> Whole(i, c) }
<1>3. 0 \in P
  <2>1. Whole(0, <<0>>)
    BY <1>2
  <2>2. ASSUME NEW c, Whole(0, c) PROVE c = <<0>>
    BY <1>2, <2>2
  <2> HIDE DEF Whole
  <2>3. QED
    BY <1>1, <1>2, <2>1, <2>2
<1>4. ASSUME NEW i \in 1 .. Len(p), i - 1 \in P PROVE i \in P
  <2>0. i - 1 + 1 = i /\ i \in Nat /\ i - 1 \in 0 .. Len(p) /\ i \in 0 .. Len(p)
    BY <1>2
  <2>a. \A c : c \in partial[i - 1] <=> Whole(i - 1, c)
    BY <1>4
  <2>b. partial[i] = AsciiGrown(p, s, i, partial[i - 1])
    BY <1>1
  <2>1. ASSUME NEW d \in partial[i] PROVE Whole(i, d)
    <3>1. PICK c \in partial[i - 1] : \E e \in c[i] .. Len(s) : AsciiOracle!Segment(p[i], s, c[i], e) /\ d = Append(c, e)
      <4>1. d \in AsciiGrown(p, s, i, partial[i - 1])
        BY <2>b
      <4>2. QED
        BY <4>1, Zenon DEF AsciiGrown
    <3>2. PICK e \in c[i] .. Len(s) : AsciiOracle!Segment(p[i], s, c[i], e) /\ d = Append(c, e)
      BY <3>1
    <3>3. Whole(i - 1, c)
      BY <2>a
    <3>4. /\ c \in Seq(0 .. Len(s)) /\ Len(c) = i /\ c[1] = 0
          /\ \A j \in 1 .. i - 1 : AsciiOracle!Segment(p[j], s, c[j], c[j + 1])
      BY <2>0, <3>3
    <3>5. e \in 0 .. Len(s)
      BY <3>2, <3>4
    <3>6. d \in Seq(0 .. Len(s)) /\ Len(d) = i + 1 /\ d[i + 1] = e /\ \A j \in 1 .. i : d[j] = c[j]
      BY <3>2, <3>4, <3>5
    <3>7. ASSUME NEW j \in 1 .. i PROVE AsciiOracle!Segment(p[j], s, d[j], d[j + 1])
      <4>1. CASE j = i
        BY <3>2, <3>6, <4>1
      <4>2. CASE j \in 1 .. i - 1
        BY <3>4, <3>6, <4>2
      <4>3. QED
        BY <4>1, <4>2
    <3>8. QED
      BY <3>4, <3>6, <3>7
  <2>2. ASSUME NEW d, Whole(i, d) PROVE d \in partial[i]
    <3> DEFINE c == SubSeq(d, 1, i)
               e == d[i + 1]
    <3>1. /\ d \in Seq(0 .. Len(s)) /\ Len(d) = i + 1 /\ d[1] = 0
          /\ \A j \in 1 .. i : AsciiOracle!Segment(p[j], s, d[j], d[j + 1])
      BY <2>2
    <3>2. /\ c \in Seq(0 .. Len(s)) /\ Len(c) = i /\ \A j \in 1 .. i : c[j] = d[j]
      BY <2>0, <3>1
    <3>3. e \in 0 .. Len(s) /\ d[i] \in 0 .. Len(s)
      BY <2>0, <3>1
    <3>4. d = Append(c, e)
      BY <2>0, <3>1, <3>2
    <3> HIDE DEF c, e
    <3>5. Whole(i - 1, c)
      <4>1. c[1] = 0
        BY <2>0, <3>1, <3>2
      <4>2. ASSUME NEW j \in 1 .. i - 1 PROVE AsciiOracle!Segment(p[j], s, c[j], c[j + 1])
        <5>1. j \in 1 .. i /\ j + 1 \in 1 .. i
          BY <2>0
        <5>2. QED
          BY <3>1, <3>2, <5>1
      <4>3. QED
        BY <2>0, <3>2, <4>1, <4>2
    <3>6. AsciiOracle!Segment(p[i], s, c[i], e)
      <4>1. i \in 1 .. i
        BY <2>0
      <4>2. QED
        BY <3>1, <3>2, <4>1 DEF e
    <3>7. e \in c[i] .. Len(s)
      <4>1. c[i] = d[i] /\ c[i] \in Nat /\ e \in 0 .. Len(s)
        BY <2>0, <3>2, <3>3
      <4>2. p[i] \in Token
        OBVIOUS
      <4>3. c[i] <= e
        BY <3>6, <4>1, <4>2, AsciiAdvances
      <4>4. QED
        BY <1>2, <4>1, <4>3
    <3>8. c \in partial[i - 1]
      BY <2>a, <3>5
    <3>9. d \in AsciiGrown(p, s, i, partial[i - 1])
      <4> DEFINE ends == { x \in c[i] .. Len(s) : AsciiOracle!Segment(p[i], s, c[i], x) }
      <4>1. e \in ends
        BY <3>6, <3>7
      <4> HIDE DEF ends
      <4>2. d \in { Append(c, x) : x \in ends }
        BY <3>4, <4>1
      <4>3. QED
        BY <3>8, <4>2, Zenon DEF AsciiGrown, ends
    <3>10. QED
      BY <2>b, <3>9
  <2> HIDE DEF Whole
  <2>3. QED
    BY <2>0, <2>1, <2>2
<1>5. \A c : c \in partial[Len(p)] <=> Whole(Len(p), c)
  <2> HIDE DEF P
  <2>1. \A i \in 0 .. Len(p) : i \in P
    BY <1>2, <1>3, <1>4, Climbs, Zenon
  <2>2. Len(p) \in P
    BY <1>2, <2>1
  <2> HIDE DEF Whole
  <2>3. QED
    BY <2>2 DEF P
<1>6. QED
  BY <1>1, <1>2, <1>5 DEF IsAsciiParse

(* One parse is preferred to all others at most.                           *)
LEMMA AsciiCaptures ==
  ASSUME NEW p \in Seq(Token), NEW s \in Seq(Byte)
  PROVE  /\ AsciiOracle!Parses(p, s) = {} => AsciiOracle!Captures(p, s) = NoMatch
         /\ \A c \in AsciiOracle!Parses(p, s) :
              (\A d \in AsciiOracle!Parses(p, s) \ {c} : Prefers(p, c, d)) => AsciiOracle!Captures(p, s) = c
<1> DEFINE all == AsciiOracle!Parses(p, s)
           Wins(c) == \A d \in all \ {c} : AsciiOracle!Prefers(p, c, d)
<1>1. AsciiOracle!Captures(p, s) = IF all = {} THEN NoMatch ELSE CHOOSE c \in all : Wins(c)
  BY DEF AsciiOracle!Captures, AsciiOracle!NoMatch, NoMatch
<1>2. \A c, d : AsciiOracle!Prefers(p, c, d) <=> Prefers(p, c, d)
  BY DEF AsciiOracle!Prefers, Prefers, AsciiOracle!LazyKind, LazyKind
<1>3. ASSUME NEW c \in all, NEW d \in all, c # d, Prefers(p, c, d) PROVE ~Prefers(p, d, c)
  <2> SUFFICES ASSUME Prefers(p, d, c) PROVE FALSE
    OBVIOUS
  <2>0. IsAsciiParse(p, s, c) /\ IsAsciiParse(p, s, d)
    BY AllAsciiParses
  <2>1. /\ \A i \in 1 .. Len(p) + 1 : c[i] \in Nat /\ d[i] \in Nat
        /\ Len(p) \in Nat
    BY <2>0 DEF IsAsciiParse
  <2>2. PICK i \in 1 .. Len(p) :
          /\ \A j \in 1 .. i : c[j] = d[j]
          /\ IF p[i].kind \in LazyKind THEN c[i + 1] < d[i + 1] ELSE c[i + 1] > d[i + 1]
    BY <1>3 DEF Prefers
  <2>3. PICK k \in 1 .. Len(p) :
          /\ \A j \in 1 .. k : d[j] = c[j]
          /\ IF p[k].kind \in LazyKind THEN d[k + 1] < c[k + 1] ELSE d[k + 1] > c[k + 1]
    BY DEF Prefers
  <2>4. c[i + 1] # d[i + 1] /\ c[k + 1] # d[k + 1]
    <3>1. i + 1 \in 1 .. Len(p) + 1 /\ k + 1 \in 1 .. Len(p) + 1
      BY <2>1
    <3>2. c[i + 1] \in Nat /\ d[i + 1] \in Nat /\ c[k + 1] \in Nat /\ d[k + 1] \in Nat
      BY <2>1, <3>1
    <3>3. c[i + 1] # d[i + 1]
      BY <2>2, <3>2
    <3>4. c[k + 1] # d[k + 1]
      BY <2>3, <3>2
    <3>5. QED
      BY <3>3, <3>4
  <2>5. ~(i < k) /\ ~(k < i)
    BY <2>1, <2>2, <2>3, <2>4
  <2>6. i = k
    BY <2>1, <2>5
  <2>7. QED
    BY <2>1, <2>2, <2>3, <2>6
<1>4. ASSUME NEW c \in all, \A d \in all \ {c} : Prefers(p, c, d) PROVE AsciiOracle!Captures(p, s) = c
  <2> HIDE DEF all
  <2>1. Wins(c)
    BY <1>2, <1>4
  <2>2. \A d \in all : Wins(d) => d = c
    BY <1>2, <1>3, <1>4
  <2>3. (CHOOSE d \in all : Wins(d)) = c
    <3> HIDE DEF Wins
    <3>1. QED
      BY <2>1, <2>2
  <2>4. all # {}
    OBVIOUS
  <2>5. QED
    BY <1>1, <2>3, <2>4
<1>5. QED
  BY <1>1, <1>4

(* d takes the first m positions of c.                                     *)
Agree(c, d, m) == \A j \in 1 .. m : d[j] = c[j]

(* A token of the kind prefers to end at x rather than at y.               *)
Better(kind, x, y) == IF kind \in LazyKind THEN x < y ELSE x > y

(* No parse has been passed over: none has the frames up to a token and    *)
(* an end of that token that is preferred to the one now tried.            *)
NoneBetter(p, s, c) ==
  \A d \in AsciiOracle!Parses(p, s) : \A i \in 1 .. Len(c) - 1 :
    Agree(c, d, i) => ~Better(p[i].kind, d[i + 1], c[i + 1])

(* No parse goes on from the frames.                                       *)
Refuted(p, s, c) == \A d \in AsciiOracle!Parses(p, s) : ~Agree(c, d, Len(c))

CompleteInv ==
  /\ WalkInv /\ NoneBetter(toks, line, cut)
  /\ pc = "fail" => Refuted(toks, line, cut)
  /\ pc = "nomatch" => AsciiOracle!Parses(toks, line) = {}

-----------------------------------------------------------------------------
(* Frames pushed and popped: an end that no parse betters may be pushed.   *)
LEMMA NoneBetterAppend ==
  ASSUME NEW p, NEW s, NEW c \in Seq(Nat), c # <<>>, NoneBetter(p, s, c), NEW e \in Nat,
         \A d \in AsciiOracle!Parses(p, s) : Agree(c, d, Len(c)) => ~Better(p[Len(c)].kind, d[Len(c) + 1], e)
  PROVE  NoneBetter(p, s, Append(c, e))
<1> DEFINE f == Append(c, e)
           m == Len(c)
<1>1. m \in Nat \ {0} /\ Len(f) = m + 1 /\ f[m + 1] = e /\ \A j \in 1 .. m : f[j] = c[j]
  OBVIOUS
<1> HIDE DEF f
<1>2. SUFFICES ASSUME NEW d \in AsciiOracle!Parses(p, s), NEW i \in 1 .. m, Agree(f, d, i)
               PROVE  ~Better(p[i].kind, d[i + 1], f[i + 1])
  BY <1>1 DEF NoneBetter, f
<1>3. Agree(c, d, i)
  BY <1>1, <1>2 DEF Agree
<1>4. CASE i = m
  BY <1>1, <1>3, <1>4
<1>5. CASE i # m
  <2>1. i \in 1 .. m - 1 /\ i + 1 \in 1 .. m
    BY <1>1, <1>5
  <2>2. ~Better(p[i].kind, d[i + 1], c[i + 1])
    BY <1>3, <2>1 DEF NoneBetter
  <2>3. QED
    BY <1>1, <2>1, <2>2
<1>6. QED
  BY <1>4, <1>5

(* One frame fewer, when there are two.                                     *)
LEMMA OneLess == \A k \in Nat : k > 1 => k - 1 \in Nat \ {0} /\ k - 1 <= k
  OBVIOUS

(* Popping a frame forgets only what was tried there.                       *)
LEMMA NoneBetterCallers ==
  ASSUME NEW p, NEW s, NEW c \in Seq(Nat), Len(c) > 1, NoneBetter(p, s, c)
  PROVE  LET f == SubSeq(c, 1, Len(c) - 1)
         IN /\ NoneBetter(p, s, f) /\ f \in Seq(Nat) /\ f # <<>> /\ Len(f) = Len(c) - 1
            /\ \A j \in 1 .. Len(c) - 1 : f[j] = c[j]
<1> DEFINE f == SubSeq(c, 1, Len(c) - 1)
           m == Len(c) - 1
<1>0. m \in Nat \ {0} /\ m <= Len(c)
  <2>1. Len(c) \in Nat
    OBVIOUS
  <2>2. QED
    BY <2>1, OneLess
<1>1. m \in Nat \ {0} /\ f \in Seq(Nat) /\ Len(f) = m /\ f # <<>> /\ \A j \in 1 .. m : f[j] = c[j]
  <2> HIDE DEF m
  <2>1. f = SubSeq(c, 1, m)
    BY DEF m
  <2> HIDE DEF f
  <2>2. f \in Seq(Nat) /\ Len(f) = m
    BY <1>0, <2>1
  <2>3. \A j \in 1 .. m : f[j] = c[j]
    BY <1>0, <2>1
  <2>4. QED
    BY <1>0, <2>2, <2>3
<1> HIDE DEF f
<1>2. ASSUME NEW d \in AsciiOracle!Parses(p, s), NEW i \in 1 .. m - 1, Agree(f, d, i)
      PROVE  ~Better(p[i].kind, d[i + 1], f[i + 1])
  <2>1. i \in 1 .. m /\ i + 1 \in 1 .. m
    BY <1>1
  <2>2. Agree(c, d, i)
    <3>1. \A j \in 1 .. i : j \in 1 .. m
      BY <1>0, <2>1
    <3>2. QED
      BY <1>1, <1>2, <3>1 DEF Agree
  <2>3. ~Better(p[i].kind, d[i + 1], c[i + 1])
    BY <2>1, <2>2 DEF NoneBetter
  <2>4. QED
    BY <1>1, <2>1, <2>3
<1>3. NoneBetter(p, s, f)
  BY <1>1, <1>2 DEF NoneBetter
<1>4. QED
  BY <1>1, <1>3 DEF f

(* The elements of a sequence.                                             *)
LEMMA ElementOf == \A S : \A c \in Seq(S) : \A k \in 1 .. Len(c) : c[k] \in S
  OBVIOUS

(* What a parse that goes on from the first m frames does at token m.      *)
LEMMA ParseAt ==
  ASSUME WalkInv, NEW m \in 1 .. depth, m <= Len(toks),
         NEW d \in AsciiOracle!Parses(toks, line), Agree(cut, d, m)
  PROVE  /\ cut[m] \in 0 .. n /\ Boundary(line, cut[m]) /\ d[m + 1] \in 0 .. n /\ cut[m] <= d[m + 1]
         /\ Passed(toks[m], line, cut[m], d[m + 1])
         /\ m = Len(toks) => d[m + 1] = n
         /\ m < Len(toks) /\ toks[m + 1].kind = "Lit" =>
              StartsWith(line, d[m + 1], toks[m + 1].text) /\ d[m + 2] = d[m + 1] + Len(toks[m + 1].text)
<1>1. /\ toks \in Seq(Token) /\ Len(toks) \in Nat /\ line \in Seq(Byte) /\ WellFormed(line) /\ n = Len(line) /\ n \in Nat
      /\ m \in Nat /\ m \in 1 .. Len(toks) /\ cut[m] \in 0 .. n /\ Boundary(line, cut[m])
      /\ toks[m] \in Token
  BY Frames
<1>2. IsAsciiParse(toks, line, d)
  BY <1>1, AllAsciiParses
<1>3. /\ \A j \in 1 .. Len(toks) + 1 : d[j] \in 0 .. n
      /\ d[Len(toks) + 1] = n
      /\ \A j \in 1 .. Len(toks) : AsciiOracle!Segment(toks[j], line, d[j], d[j + 1])
  <2>1. d \in Seq(0 .. n)
    BY <1>1, <1>2 DEF IsAsciiParse
  <2>2. ASSUME NEW j \in 1 .. Len(toks) + 1 PROVE d[j] \in 0 .. n
    <3>1. j \in 1 .. Len(d)
      BY <1>2 DEF IsAsciiParse
    <3>2. QED
      BY <2>1, <3>1, ElementOf
  <2>3. QED
    BY <1>1, <1>2, <2>2 DEF IsAsciiParse
<1>4. d[m] = cut[m] /\ d[m + 1] \in 0 .. n
  BY <1>1, <1>3 DEF Agree
<1>5. AsciiOracle!Segment(toks[m], line, cut[m], d[m + 1])
  BY <1>1, <1>3, <1>4
<1>6. Passed(toks[m], line, cut[m], d[m + 1])
  BY <1>1, <1>4, <1>5, AsciiSegment
<1>7. cut[m] <= d[m + 1]
  <2>1. cut[m] \in Nat /\ d[m + 1] \in 0 .. Len(line)
    BY <1>1, <1>4
  <2>2. QED
    BY <1>1, <1>5, <2>1, AsciiAdvances
<1>8. ASSUME m < Len(toks), toks[m + 1].kind = "Lit"
      PROVE  StartsWith(line, d[m + 1], toks[m + 1].text) /\ d[m + 2] = d[m + 1] + Len(toks[m + 1].text)
  <2>1. m + 1 \in 1 .. Len(toks) /\ m + 1 + 1 = m + 2
    BY <1>1, <1>8
  <2>2. AsciiOracle!Segment(toks[m + 1], line, d[m + 1], d[m + 2])
    BY <1>3, <2>1
  <2>3. toks[m + 1] \in Token
    BY <1>1, <2>1
  <2>4. Segment(toks[m + 1], line, d[m + 1], d[m + 2])
    BY <1>8, <2>2, <2>3, OtherSegments
  <2>5. QED
    BY <1>8, <2>4 DEF Segment
<1>9. QED
  BY <1>1, <1>3, <1>4, <1>6, <1>7, <1>8

-----------------------------------------------------------------------------
(* What a new end must satisfy.                                            *)

(* A token entered: its first end is the best any parse has.                *)
LEMMA TryComplete ==
  ASSUME CompleteInv, WalkInv', pc = "walk", depth <= Len(toks), NEW e, Try(e),
         \A d \in AsciiOracle!Parses(toks, line) : Agree(cut, d, depth) =>
           e # NoEnd /\ ~Better(toks[depth].kind, d[depth + 1], e)
  PROVE  CompleteInv'
<1>1. toks' = toks /\ line' = line
  BY DEF Try
<1>2. /\ cut \in Seq(Nat) /\ cut # <<>> /\ depth = Len(cut) /\ NoneBetter(toks, line, cut)
  <2>1. cut \in Seq(0 .. n) /\ depth \in 1 .. Len(toks) + 1 /\ depth = Len(cut) /\ n \in Nat
    BY Frames DEF CompleteInv
  <2>2. cut \in Seq(Nat) /\ cut # <<>>
    BY <2>1
  <2>3. QED
    BY <2>1, <2>2 DEF CompleteInv
<1>3. CASE e = NoEnd
  <2>1. pc' = "fail" /\ cut' = cut
    BY <1>3 DEF Try
  <2>2. Refuted(toks, line, cut)
    BY <1>2, <1>3 DEF Refuted
  <2>3. QED
    BY <1>1, <1>2, <2>1, <2>2 DEF CompleteInv
<1>4. CASE e # NoEnd
  <2>1. cut' = Append(cut, e) /\ pc' = "walk"
    BY <1>4 DEF Try
  <2>2. e \in Nat
    <3>1. cut' \in Seq(0 .. Len(line)) /\ Len(line) \in Nat
      BY <1>1, Frames DEF WalkInv, Reached, CompleteInv
    <3>2. Len(cut') = Len(cut) + 1 /\ cut'[Len(cut) + 1] = e /\ Len(cut) \in Nat
      BY <1>2, <2>1
    <3>3. QED
      BY <3>1, <3>2
  <2>3. NoneBetter(toks, line, cut')
    BY <1>2, <2>1, <2>2, NoneBetterAppend
  <2>4. QED
    BY <1>1, <2>1, <2>3 DEF CompleteInv
<1>5. QED
  BY <1>3, <1>4

(* A gap, and the literal that follows it.                                 *)
LEMMA TryBeforeLiteralComplete ==
  ASSUME CompleteInv, WalkInv', NEW prefix \in Seq(Nat), prefix # <<>>, NoneBetter(toks, line, prefix),
         NEW m, m = Len(prefix), m < Len(toks),
         toks[m].kind \in LazyKind, toks[m + 1].kind = "Lit",
         NEW ls, ls = NoEnd \/ ls \in Nat, TryBeforeLiteral(prefix, ls, toks[m + 1].text),
         \A d \in AsciiOracle!Parses(toks, line) : Agree(prefix, d, m) =>
           /\ ls # NoEnd /\ d[m + 1] \in Nat /\ ls <= d[m + 1]
           /\ d[m + 2] = d[m + 1] + Len(toks[m + 1].text)
  PROVE  CompleteInv'
<1>1. toks' = toks /\ line' = line /\ m \in Nat \ {0}
  BY DEF TryBeforeLiteral
<1>2. CASE ls = NoEnd
  <2>1. pc' = "fail" /\ cut' = prefix
    BY <1>2 DEF TryBeforeLiteral
  <2>2. Refuted(toks, line, prefix)
    BY <1>2 DEF Refuted
  <2>3. QED
    BY <1>1, <2>1, <2>2 DEF CompleteInv
<1>3. CASE ls # NoEnd
  <2> DEFINE e == ls + Len(toks[m + 1].text)
             gap == Append(prefix, ls)
  <2>1. pc' = "walk" /\ cut' = prefix \o <<ls, e>>
    BY <1>3 DEF TryBeforeLiteral
  <2>2. ls \in Nat /\ Len(toks[m + 1].text) \in Nat /\ e \in Nat
    <3>1. m + 1 \in 1 .. Len(toks)
      BY <1>1, Frames DEF CompleteInv
    <3>2. toks[m + 1].text \in Seq(Byte)
      <4>1. toks[m + 1] \in Token
        BY <3>1, Frames DEF CompleteInv
      <4>2. QED
        BY <4>1 DEF Token, Kind
    <3>3. Len(toks[m + 1].text) \in Nat
      BY <3>2
    <3>4. QED
      BY <1>3, <3>3
  <2>3. gap \in Seq(Nat) /\ gap # <<>> /\ Len(gap) = m + 1 /\ gap[m + 1] = ls /\ \A j \in 1 .. m : gap[j] = prefix[j]
    BY <1>1, <2>2
  <2>4. cut' = Append(gap, e)
    <3> HIDE DEF e
    <3>1. prefix \o <<ls, e>> = Append(Append(prefix, ls), e)
      BY <2>2
    <3>2. QED
      BY <2>1, <3>1
  <2>5. NoneBetter(toks, line, gap)
    <3>1. \A d \in AsciiOracle!Parses(toks, line) : Agree(prefix, d, m) => ~Better(toks[m].kind, d[m + 1], ls)
      BY <1>1, <2>2 DEF Better
    <3>2. QED
      BY <1>1, <2>2, <3>1, NoneBetterAppend
  <2>6. ASSUME NEW d \in AsciiOracle!Parses(toks, line), Agree(gap, d, m + 1)
        PROVE  ~Better(toks[m + 1].kind, d[m + 2], e)
    <3>1. Agree(prefix, d, m) /\ d[m + 1] = ls
      <4> HIDE DEF gap
      <4>1. \A j \in 1 .. m : j \in 1 .. m + 1
        BY <1>1
      <4>2. m + 1 \in 1 .. m + 1
        BY <1>1
      <4>3. QED
        BY <2>3, <2>6, <4>1, <4>2 DEF Agree
    <3>2. d[m + 2] = e
      BY <3>1
    <3>3. QED
      BY <2>2, <3>2 DEF Better, LazyKind
  <2>7. NoneBetter(toks, line, Append(gap, e))
    <3> HIDE DEF gap, e
    <3>0. m + 1 + 1 = m + 2
      BY <1>1
    <3>1. QED
      BY <2>2, <2>3, <2>5, <2>6, <3>0, NoneBetterAppend
  <2>8. QED
    BY <1>1, <2>1, <2>4, <2>7 DEF CompleteInv
<1>4. QED
  BY <1>2, <1>3

(* Another end of the caller's token: the ends that were refuted are those *)
(* preferred to the last one, and that one.                                *)
LEMMA Unrefuted ==
  ASSUME CompleteInv, pc = "fail", depth > 1,
         NEW d \in AsciiOracle!Parses(toks, line), Agree(cut, d, depth - 1)
  PROVE  d[depth] \in 0 .. n /\ pos \in 0 .. n /\ Better(toks[depth - 1].kind, pos, d[depth])
<1>1. /\ depth = Len(cut) /\ depth \in 2 .. Len(toks) + 1 /\ Len(toks) \in Nat /\ pos = cut[depth] /\ n \in Nat
      /\ pos \in 0 .. n
  BY Frames DEF CompleteInv
<1>2. depth - 1 \in 1 .. Len(cut) - 1 /\ depth - 1 + 1 = depth
  BY <1>1
<1>3. d[depth] \in 0 .. n
  <2>1. depth - 1 \in 1 .. depth /\ depth - 1 <= Len(toks)
    BY <1>1
  <2>2. d[depth - 1 + 1] \in 0 .. n
    BY <2>1, ParseAt DEF CompleteInv
  <2>3. QED
    BY <1>2, <2>2
<1>4. ~Better(toks[depth - 1].kind, d[depth], pos)
  <2>1. NoneBetter(toks, line, cut)
    BY DEF CompleteInv
  <2>2. ~Better(toks[depth - 1].kind, d[depth - 1 + 1], cut[depth - 1 + 1])
    BY <1>2, <2>1 DEF NoneBetter
  <2>3. QED
    BY <1>1, <1>2, <2>2
<1>5. d[depth] # pos
  <2>1. ~Agree(cut, d, depth)
    BY <1>1 DEF CompleteInv, Refuted
  <2>2. \A j \in 1 .. depth : j \in 1 .. depth - 1 \/ j = depth
    BY <1>1
  <2>3. QED
    BY <1>1, <2>1, <2>2 DEF Agree
<1>6. QED
  BY <1>1, <1>3, <1>4, <1>5 DEF Better

(* A call returned: the next end is the best of those not refuted.          *)
LEMMA RetryComplete ==
  ASSUME CompleteInv, WalkInv', pc = "fail", depth > 1, NEW e, e = NoEnd \/ e \in Nat, Retry(e),
         \A d \in AsciiOracle!Parses(toks, line) :
           Agree(cut, d, depth - 1) /\ Better(toks[depth - 1].kind, pos, d[depth]) =>
             e # NoEnd /\ ~Better(toks[depth - 1].kind, d[depth], e)
  PROVE  CompleteInv'
<1>1. toks' = toks /\ line' = line
  BY DEF Retry
<1>2. /\ cut \in Seq(Nat) /\ depth = Len(cut) /\ depth \in Nat /\ Len(cut) > 1 /\ NoneBetter(toks, line, cut)
  <2>1. cut \in Seq(0 .. n) /\ depth \in 1 .. Len(toks) + 1 /\ depth = Len(cut) /\ n \in Nat /\ Len(toks) \in Nat
    BY Frames DEF CompleteInv
  <2>2. cut \in Seq(Nat)
    BY <2>1
  <2>3. QED
    BY <2>1, <2>2 DEF CompleteInv
<1>3. /\ NoneBetter(toks, line, Callers) /\ Callers \in Seq(Nat) /\ Callers # <<>> /\ Len(Callers) = depth - 1
      /\ \A j \in 1 .. depth - 1 : Callers[j] = cut[j]
  BY <1>2, NoneBetterCallers DEF Callers
<1>4. \A d : Agree(Callers, d, depth - 1) <=> Agree(cut, d, depth - 1)
  BY <1>3 DEF Agree
<1>5. \A d \in AsciiOracle!Parses(toks, line) : Agree(Callers, d, depth - 1) =>
         e # NoEnd /\ ~Better(toks[depth - 1].kind, d[depth], e)
  BY <1>4, Unrefuted
<1>6. CASE e = NoEnd
  <2>1. cut' = Callers /\ pc' = "fail"
    BY <1>6 DEF Retry
  <2>2. Refuted(toks, line, Callers)
    BY <1>3, <1>5, <1>6 DEF Refuted
  <2>3. QED
    BY <1>1, <1>3, <2>1, <2>2 DEF CompleteInv
<1>7. CASE e # NoEnd
  <2>1. cut' = Append(Callers, e) /\ pc' = "walk"
    BY <1>7 DEF Retry
  <2>2. depth - 1 + 1 = depth
    BY <1>2
  <2>3. NoneBetter(toks, line, cut')
    BY <1>3, <1>5, <1>7, <2>1, <2>2, NoneBetterAppend
  <2>4. QED
    BY <1>1, <2>1, <2>3 DEF CompleteInv
<1>8. QED
  BY <1>6, <1>7

(* A run of the class is covered by the longest one from its start.        *)
LEMMA RunEndIsLongest ==
  ASSUME line \in Seq(Byte), NEW C, NEW f \in 0 .. n, NEW b \in 0 .. n, RunOf(C, line, f, b)
  PROVE  RunEnd(C, f) \in 0 .. n /\ b <= RunEnd(C, f)
<1> DEFINE stops == { e \in f .. n : e < n => At(e) \notin C }
           end == RunEnd(C, f)
<1>1. n \in Nat /\ n = Len(line)
  BY DEF n
<1>2. stops \in SUBSET Nat /\ n \in stops
  BY <1>1
<1>3. end \in stops
  <2>1. Least(stops) \in stops
    <3> HIDE DEF stops
    <3>1. QED
      BY <1>2, LeastIsSmallest
  <2>2. QED
    BY <2>1 DEF RunEnd
<1>4. end \in f .. n /\ (end < n => At(end) \notin C)
  BY <1>3
<1> HIDE DEF end
<1>5. \A q \in f .. b - 1 : At(q) \in C
  BY DEF RunOf, At
<1>6. ~(end < b)
  BY <1>1, <1>4, <1>5
<1>7. QED
  BY <1>1, <1>4, <1>6 DEF end

(* memmem finds an occurrence that the gap can reach, or an earlier one.   *)
LEMMA GapToLiteralIsFirst ==
  ASSUME line \in Seq(Byte), NEW p \in Nat, NEW f \in Nat, NEW text,
         NEW x \in f .. n, StartsWith(line, x, text), \A q \in p .. x - 1 : line[q + 1] # Newline
  PROVE  GapToLiteral(p, f, text) # NoEnd /\ GapToLiteral(p, f, text) \in Nat /\ GapToLiteral(p, f, text) <= x
<1> DEFINE found == { e \in f .. n : StartsWith(line, e, text) }
           ls == Least(found)
<1>1. n \in Nat
  BY DEF n
<1>2. found \in SUBSET Nat /\ x \in found
  BY <1>1
<1>3. ls \in found /\ ls <= x
  <2> HIDE DEF found
  <2>1. QED
    BY <1>2, LeastIsSmallest
<1>4. ls \in f .. n
  BY <1>3
<1>5. \A q \in p .. ls - 1 : At(q) # Newline
  <2> HIDE DEF ls
  <2>1. \A q \in p .. ls - 1 : q \in p .. x - 1
    BY <1>1, <1>3, <1>4
  <2>2. QED
    BY <2>1 DEF At
<1>6. GapToLiteral(p, f, text) = ls
  BY <1>2, <1>5 DEF GapToLiteral
<1> HIDE DEF ls
<1>7. QED
  BY <1>1, <1>3, <1>4, <1>6 DEF NoEnd

(* One more char of a gap is the least it can grow by.                     *)
LEMMA GapStepIsLeast ==
  ASSUME line \in Seq(Byte), WellFormed(line), NEW a \in Nat, NEW e \in Nat, a <= e, Boundary(line, e),
         NEW b \in 0 .. n, e < b, Dots(line, a, b)
  PROVE  /\ GapStep(e) # NoEnd /\ GapStep(e) \in Nat /\ GapStep(e) <= b
         /\ GapStep(e) = e + Width[line[e + 1]]
<1>1. n = Len(line) /\ n \in Nat /\ b \in Nat /\ e < n
  BY DEF n
<1>2. line[e + 1] # Newline
  BY <1>1 DEF Dots
<1>3. GapStep(e) = e + Width[line[e + 1]]
  BY <1>1, <1>2 DEF GapStep, At
<1>4. /\ Width[line[e + 1]] \in 1 .. 4 /\ e + Width[line[e + 1]] \in e + 1 .. Len(line)
      /\ \A q \in e + 1 .. e + Width[line[e + 1]] - 1 : line[q + 1] \in Cont
  BY <1>1, CharEndsOnBoundary
<1>5. b < n => line[b + 1] \notin Cont
  BY <1>1 DEF Dots, Boundary
<1>6. ~(b < e + Width[line[e + 1]])
  <2>1. SUFFICES ASSUME b < e + Width[line[e + 1]] PROVE FALSE
    OBVIOUS
  <2>2. b \in e + 1 .. e + Width[line[e + 1]] - 1 /\ b < n
    BY <1>1, <1>4, <2>1
  <2>3. QED
    BY <1>4, <1>5, <2>2
<1>7. QED
  BY <1>1, <1>3, <1>4, <1>6 DEF NoEnd

(* What the slice of a lazy gap looks like.                                 *)
LEMMA LazyPasses ==
  ASSUME NEW tok, tok.kind \in LazyKind, NEW s, NEW a, NEW b, Passed(tok, s, a, b)
  PROVE  Dots(s, a, b) /\ (MinOne(tok.kind) => a < b)
<1>1. Segment(tok, s, a, b)
  BY DEF Passed
<1>2. CASE tok.kind = "Str"
  BY <1>1, <1>2 DEF Segment, MinOne
<1>3. CASE tok.kind = "Errno"
  BY <1>1, <1>3 DEF Segment
<1>4. QED
  BY <1>2, <1>3 DEF LazyKind

(* The oracle's parses are parses, which the cheap rejects let through.    *)
LEMMA AsciiParsesAreParses ==
  ASSUME NEW p \in Seq(Token), NEW s \in Seq(Byte), NEW c \in AsciiOracle!Parses(p, s)
  PROVE  c \in Seq(0 .. Len(s)) /\ IsParse(p, s, c)
<1>1. IsAsciiParse(p, s, c)
  BY AllAsciiParses
<1>2. ASSUME NEW j \in 1 .. Len(p) PROVE Segment(p[j], s, c[j], c[j + 1])
  <2>1. p[j] \in Token /\ AsciiOracle!Segment(p[j], s, c[j], c[j + 1])
    BY <1>1 DEF IsAsciiParse
  <2>2. \A x, i : AsciiOracle!Boundary(x, i) = Boundary(x, i)
    BY Zenon DEF AsciiOracle!Boundary, Boundary
  <2>3. \A a, b : AsciiOracle!Digits(s, a, b) => Digits(s, a, b)
    BY <2>2, Zenon DEF AsciiOracle!Digits, Digits
  <2>4. CASE p[j].kind = "Int"
    <3>1. \/ AsciiOracle!Digits(s, c[j], c[j + 1])
          \/ c[j] < c[j + 1] /\ s[c[j] + 1] = Minus /\ AsciiOracle!Digits(s, c[j] + 1, c[j + 1])
      BY <2>1, <2>4 DEF AsciiOracle!Segment
    <3>2. QED
      BY <2>3, <2>4, <3>1 DEF Segment
  <2>5. CASE p[j].kind = "Uint"
    <3>1. AsciiOracle!Digits(s, c[j], c[j + 1])
      BY <2>1, <2>5 DEF AsciiOracle!Segment
    <3>2. QED
      BY <2>3, <2>5, <3>1 DEF Segment
  <2>6. CASE p[j].kind \notin {"Int", "Uint"}
    BY <2>1, <2>6, OtherSegments
  <2>7. QED
    BY <2>4, <2>5, <2>6
<1>3. QED
  BY <1>1, <1>2 DEF IsAsciiParse, IsParse

(* A token's text is a byte sequence, empty or not.                         *)
LEMMA TokenText ==
  ASSUME NEW tok \in Token
  PROVE  tok.text \in Seq(Byte) /\ Len(tok.text) \in Nat
<1>1. tok.text \in Seq(Byte) \/ tok.text = <<>>
  BY DEF Token, Kind
<1>2. <<>> \in Seq(Byte)
  OBVIOUS
<1>3. tok.text \in Seq(Byte)
  BY <1>1, <1>2
<1>4. QED
  BY <1>3

-----------------------------------------------------------------------------
(* One step of the walk at a time: no parse is passed over.                *)
LEMMA CompleteInit == Init => CompleteInv
<1> SUFFICES ASSUME Init PROVE CompleteInv
  OBVIOUS
<1>1. WalkInv
  BY WalkInvInit
<1>2. pc = "candidate" /\ cut = <<0>>
  BY DEF Init
<1>3. NoneBetter(toks, line, cut)
  BY <1>2 DEF NoneBetter
<1>4. QED
  BY <1>1, <1>2, <1>3 DEF CompleteInv

(* The cheap rejects reject no line the pattern matches.                   *)
LEMMA RejectsComplete ==
  ASSUME CompleteInv, WalkInv', Nominate \/ BeginWalk \/ Prune \/ RejectEarly
  PROVE  CompleteInv'
<1>1. toks' = toks /\ line' = line /\ cut' = cut
  BY DEF Nominate, Prune, RejectEarly, BeginWalk, Answer
<1>2. toks \in Seq(Token) /\ line \in Seq(Byte) /\ n = Len(line) /\ n \in Nat /\ Len(toks) \in Nat
  BY Frames DEF CompleteInv
<1>3. CASE Nominate \/ BeginWalk
  <2>1. pc' \in {"verify", "walk"}
    BY <1>3 DEF Nominate, BeginWalk, Answer
  <2>2. QED
    BY <1>1, <2>1 DEF CompleteInv
<1>4. CASE Prune \/ RejectEarly
  <2>1. pc' = "nomatch"
    BY <1>4 DEF Prune, RejectEarly, Answer
  <2>2. ASSUME NEW d \in AsciiOracle!Parses(toks, line) PROVE FALSE
    <3>1. d \in Seq(0 .. Len(line)) /\ IsParse(toks, line, d)
      BY <1>2, AsciiParsesAreParses
    <3>2. CASE Prune
      BY <1>2, <3>1, <3>2, CutsAreCandidates DEF Prune
    <3>3. CASE TooShort
      <4>1. WidthSum(toks, 1, Len(toks)) <= Len(line) /\ n < WidthSum(toks, 1, Len(toks))
        BY <1>2, <3>1, <3>3, ParsesLeaveRoom DEF TooShort
      <4>2. PICK sum : /\ \A i \in 0 .. Len(toks) : sum[i] \in Nat
                       /\ \A a, b : WidthSum(toks, a, b) = IF a > b THEN 0 ELSE sum[b] - sum[a - 1]
        BY <1>2, WidthSums
      <4>3. WidthSum(toks, 1, Len(toks)) \in Int
        <5>1. 1 - 1 = 0 /\ 0 \in 0 .. Len(toks) /\ Len(toks) \in 0 .. Len(toks)
          BY <1>2
        <5>2. sum[Len(toks)] \in Nat /\ sum[0] \in Nat
          BY <4>2, <5>1
        <5>3. WidthSum(toks, 1, Len(toks)) = IF 1 > Len(toks) THEN 0 ELSE sum[Len(toks)] - sum[0]
          BY <4>2, <5>1
        <5>4. QED
          BY <5>2, <5>3
      <4>4. QED
        BY <1>2, <4>1, <4>3
    <3>4. CASE MissesSuffix
      <4> DEFINE k == Len(toks)
                 text == toks[k].text
      <4>1. toks # <<>> /\ toks[k].kind = "Lit" /\ ~(Len(text) <= n /\ StartsWith(line, n - Len(text), text))
        BY <3>4 DEF MissesSuffix
      <4>2. k \in 1 .. k /\ k \in Nat
        BY <1>2, <4>1
      <4>3. Len(d) = k + 1 /\ d[k + 1] = n /\ d[k] \in 0 .. n
        BY <1>2, <3>1, <4>2 DEF IsParse
      <4>4. Segment(toks[k], line, d[k], d[k + 1])
        BY <3>1, <4>2 DEF IsParse
      <4>5. d[k] + Len(text) = n /\ StartsWith(line, d[k], text)
        BY <4>1, <4>3, <4>4 DEF Segment
      <4>6. Len(text) \in Nat
        <5>1. toks[k] \in Token
          BY <1>2, <4>2
        <5>2. QED
          BY <5>1, TokenText
      <4> HIDE DEF text, k
      <4>7. n - Len(text) = d[k] /\ Len(text) <= n
        BY <1>2, <4>3, <4>5, <4>6
      <4>8. QED
        BY <4>1, <4>5, <4>7 DEF text, k
    <3>5. QED
      BY <1>4, <3>2, <3>3, <3>4 DEF RejectEarly
  <2>3. AsciiOracle!Parses(toks, line) = {}
    BY <2>2
  <2>4. QED
    BY <1>1, <2>1, <2>3 DEF CompleteInv
<1>5. QED
  BY <1>3, <1>4

(* Short of the end of the line, the frames are refuted.                    *)
LEMMA EndOfPatternComplete == ASSUME CompleteInv, WalkInv', EndOfPattern PROVE CompleteInv'
<1>1. toks' = toks /\ line' = line /\ cut' = cut /\ pc' = (IF pos = n THEN "matched" ELSE "fail")
  BY DEF EndOfPattern, Answer
<1>2. /\ toks \in Seq(Token) /\ line \in Seq(Byte) /\ n = Len(line) /\ Len(toks) \in Nat
      /\ depth \in 1 .. Len(toks) + 1 /\ depth = Len(cut) /\ pos = cut[depth]
  BY Frames DEF CompleteInv
<1>3. depth = Len(toks) + 1
  BY <1>2 DEF EndOfPattern
<1>4. ASSUME pos # n, NEW d \in AsciiOracle!Parses(toks, line), Agree(cut, d, Len(cut)) PROVE FALSE
  <2>1. d[Len(toks) + 1] = n
    BY <1>2, AllAsciiParses DEF IsAsciiParse
  <2>2. d[depth] = cut[depth]
    BY <1>2, <1>4 DEF Agree
  <2>3. QED
    BY <1>2, <1>3, <1>4, <2>1, <2>2
<1>5. pos # n => Refuted(toks, line, cut)
  BY <1>4 DEF Refuted
<1>6. QED
  BY <1>1, <1>5 DEF CompleteInv

(* Tokens entered.                                                         *)
LEMMA LiteralComplete == ASSUME CompleteInv, WalkInv', Literal PROVE CompleteInv'
<1> DEFINE tok == toks[depth]
           e == IF StartsWith(line, pos, tok.text) THEN pos + Len(tok.text) ELSE NoEnd
<1>1. pc = "walk" /\ depth <= Len(toks) /\ tok.kind = "Lit" /\ Try(e)
  BY DEF Literal, Entering
<1>2. WalkInv /\ depth \in 1 .. depth /\ depth \in Nat /\ pos = cut[depth] /\ pos \in 0 .. n /\ n \in Nat
      /\ tok \in Token
  BY <1>1, Frames DEF CompleteInv
<1>3. ASSUME NEW d \in AsciiOracle!Parses(toks, line), Agree(cut, d, depth)
      PROVE  e # NoEnd /\ ~Better(tok.kind, d[depth + 1], e)
  <2>1. Passed(tok, line, pos, d[depth + 1]) /\ d[depth + 1] \in 0 .. n
    BY <1>1, <1>2, <1>3, ParseAt
  <2>2. pos + Len(tok.text) = d[depth + 1] /\ StartsWith(line, pos, tok.text)
    BY <1>1, <2>1 DEF Passed, Segment
  <2>3. e = d[depth + 1]
    BY <2>2
  <2>4. QED
    BY <1>2, <2>1, <2>3 DEF NoEnd, Better
<1> HIDE DEF e
<1>4. QED
  BY <1>1, <1>3, TryComplete

(* %c has one end, the end of the char.                                     *)
LEMMA CharComplete == ASSUME CompleteInv, WalkInv', Char PROVE CompleteInv'
<1> DEFINE tok == toks[depth]
           e == GapStep(pos)
<1>1. pc = "walk" /\ depth <= Len(toks) /\ tok.kind = "Char" /\ Try(e)
  BY DEF Char, Entering
<1>2. WalkInv /\ depth \in 1 .. depth /\ depth \in Nat /\ pos = cut[depth] /\ pos \in 0 .. n /\ n \in Nat
      /\ Boundary(line, pos) /\ line \in Seq(Byte) /\ WellFormed(line)
  BY <1>1, Frames DEF CompleteInv
<1>3. ASSUME NEW d \in AsciiOracle!Parses(toks, line), Agree(cut, d, depth)
      PROVE  e # NoEnd /\ ~Better(tok.kind, d[depth + 1], e)
  <2>1. Passed(tok, line, pos, d[depth + 1]) /\ d[depth + 1] \in 0 .. n
    BY <1>1, <1>2, <1>3, ParseAt
  <2>2. pos < d[depth + 1] /\ Dots(line, pos, d[depth + 1]) /\ d[depth + 1] = pos + Width[line[pos + 1]]
    BY <1>1, <2>1 DEF Passed, Segment
  <2>3. e # NoEnd /\ e = d[depth + 1]
    BY <1>2, <2>1, <2>2, GapStepIsLeast
  <2>4. QED
    BY <1>2, <2>1, <2>3 DEF Better
<1> HIDE DEF e
<1>4. QED
  BY <1>1, <1>3, TryComplete

(* Where a greedy class tried at a may end.                                *)
LEMMA LongestRunIsFirst ==
  ASSUME WalkInv, NEW tok \in Token, NEW a \in 0 .. n, Greedy(tok, line, a),
         NEW b \in 0 .. n, Passed(tok, line, a, b)
  PROVE  LET f == GreedyFloor(tok.kind, a)
             e == RunEnd(ClassOf(tok.kind), f)
         IN f \in 0 .. n /\ f < b /\ e \in 0 .. n /\ b <= e
<1> DEFINE f == GreedyFloor(tok.kind, a)
           C == ClassOf(tok.kind)
<1>1. n \in Nat /\ n = Len(line) /\ line \in Seq(Byte)
  BY Frames
<1>2. RunOf(C, line, f, b)
  BY DEF Passed, GreedyFloor
<1>3. f \in Nat
  BY <1>1 DEF GreedyFloor, FloorIn
<1>4. f < b
  BY <1>2 DEF RunOf
<1>5. f \in 0 .. n
  BY <1>1, <1>3, <1>4
<1> HIDE DEF f, C
<1>6. RunEnd(C, f) \in 0 .. n /\ b <= RunEnd(C, f)
  BY <1>1, <1>2, <1>5, RunEndIsLongest
<1>7. QED
  BY <1>4, <1>5, <1>6 DEF f, C

(* The longest run is the end the class prefers.                            *)
LEMMA NumberComplete == ASSUME CompleteInv, WalkInv', Number PROVE CompleteInv'
<1> DEFINE tok == toks[depth]
           start == GreedyFloor(tok.kind, pos)
           e == RunEnd(ClassOf(tok.kind), start)
           end == IF e > start THEN e ELSE NoEnd
<1>1. /\ pc = "walk" /\ depth <= Len(toks) /\ Try(end)
      /\ tok.kind \in {"Int", "Uint", "Oct", "Hex", "Float"}
  BY DEF Number, Entering
<1>2. WalkInv /\ depth \in 1 .. depth /\ depth \in Nat /\ pos = cut[depth] /\ pos \in 0 .. n /\ n \in Nat
      /\ tok \in Token
  BY <1>1, Frames DEF CompleteInv
<1>3. Greedy(tok, line, pos) /\ tok.kind \notin LazyKind
  BY <1>1 DEF Greedy, LazyKind
<1>4. ASSUME NEW d \in AsciiOracle!Parses(toks, line), Agree(cut, d, depth)
      PROVE  end # NoEnd /\ ~Better(tok.kind, d[depth + 1], end)
  <2>1. Passed(tok, line, pos, d[depth + 1]) /\ d[depth + 1] \in 0 .. n
    BY <1>1, <1>2, <1>4, ParseAt
  <2>2. start \in 0 .. n /\ start < d[depth + 1] /\ e \in 0 .. n /\ d[depth + 1] <= e
    BY <1>2, <1>3, <2>1, LongestRunIsFirst
  <2> HIDE DEF e, start
  <2>3. end = e
    BY <1>2, <2>1, <2>2
  <2>4. QED
    BY <1>2, <1>3, <2>1, <2>2, <2>3 DEF NoEnd, Better
<1> HIDE DEF end
<1>5. QED
  BY <1>1, <1>4, TryComplete

(* 0x and hex digits, or (nil): a parse takes the same arm.                 *)
LEMMA PointerComplete == ASSUME CompleteInv, WalkInv', Pointer PROVE CompleteInv'
<1> DEFINE tok == toks[depth]
           hex == RunEnd(Hex, pos + 2)
           found == StartsWith(line, pos, HexPrefix) /\ hex > pos + 2
           e == IF found THEN hex
                ELSE IF StartsWith(line, pos, NilText) THEN pos + Len(NilText) ELSE NoEnd
<1>1. pc = "walk" /\ depth <= Len(toks) /\ tok.kind = "Ptr" /\ Try(e)
  BY DEF Pointer, Entering
<1>2. WalkInv /\ depth \in 1 .. depth /\ depth \in Nat /\ pos = cut[depth] /\ pos \in 0 .. n /\ n \in Nat
      /\ tok \in Token /\ line \in Seq(Byte)
  BY <1>1, Frames DEF CompleteInv
<1>3. ASSUME NEW d \in AsciiOracle!Parses(toks, line), Agree(cut, d, depth)
      PROVE  e # NoEnd /\ ~Better(tok.kind, d[depth + 1], e)
  <2>1. Passed(tok, line, pos, d[depth + 1]) /\ d[depth + 1] \in 0 .. n
    BY <1>1, <1>2, <1>3, ParseAt
  <2>2. \/ StartsWith(line, pos, HexPrefix)
        \/ pos + Len(NilText) = d[depth + 1] /\ StartsWith(line, pos, NilText)
    BY <1>1, <2>1 DEF Passed, Segment
  <2>3. CASE StartsWith(line, pos, HexPrefix)
    <3>1. Greedy(tok, line, pos)
      BY <1>1, <2>3 DEF Greedy
    <3>2. /\ GreedyFloor(tok.kind, pos) < d[depth + 1]
          /\ RunEnd(ClassOf(tok.kind), GreedyFloor(tok.kind, pos)) \in 0 .. n
          /\ d[depth + 1] <= RunEnd(ClassOf(tok.kind), GreedyFloor(tok.kind, pos))
      BY <1>2, <2>1, <3>1, LongestRunIsFirst
    <3>3. ClassOf(tok.kind) = Hex /\ GreedyFloor(tok.kind, pos) = pos + 2
      BY <1>1 DEF ClassOf, GreedyFloor, FloorIn
    <3>4. pos + 2 < d[depth + 1] /\ hex \in 0 .. n /\ d[depth + 1] <= hex
      BY <3>2, <3>3
    <3> HIDE DEF hex
    <3>5. e = hex
      BY <1>2, <2>1, <2>3, <3>4
    <3>6. e # NoEnd /\ ~(d[depth + 1] > e)
      BY <1>2, <2>1, <3>4, <3>5 DEF NoEnd
    <3>7. tok.kind \notin LazyKind
      BY <1>1 DEF LazyKind
    <3> HIDE DEF e, tok
    <3>8. QED
      BY <3>6, <3>7 DEF Better
  <2>4. CASE ~StartsWith(line, pos, HexPrefix)
    <3>1. e = d[depth + 1]
      BY <2>2, <2>4
    <3>2. QED
      BY <1>2, <2>1, <3>1 DEF NoEnd, Better
  <2>5. QED
    BY <2>3, <2>4
<1> HIDE DEF e
<1>4. QED
  BY <1>1, <1>3, TryComplete

(* A gap that ends the pattern has one end, the end of the line.            *)
LEMMA LastGapComplete == ASSUME CompleteInv, WalkInv', LastGap PROVE CompleteInv'
<1> DEFINE tok == toks[depth]
           blocked == \/ \E q \in pos .. n - 1 : At(q) = Newline
                      \/ MinOne(tok.kind) /\ pos = n
<1>1. /\ pc = "walk" /\ depth = Len(toks) /\ tok.kind \in LazyKind
      /\ toks' = toks /\ line' = line
      /\ IF blocked THEN pc' = "fail" /\ cut' = cut
                    ELSE cut' = Append(cut, n) /\ pc' = "matched"
  BY DEF LastGap, Entering
<1>2. /\ WalkInv /\ depth \in 1 .. depth /\ depth \in Nat /\ depth = Len(cut) /\ cut \in Seq(0 .. n)
      /\ pos = cut[depth] /\ pos \in 0 .. n /\ n \in Nat /\ NoneBetter(toks, line, cut)
  BY <1>1, Frames DEF CompleteInv
<1>3. ASSUME NEW d \in AsciiOracle!Parses(toks, line), Agree(cut, d, depth)
      PROVE  d[depth + 1] = n /\ ~blocked
  <2>1. Passed(tok, line, pos, d[depth + 1]) /\ d[depth + 1] = n
    BY <1>1, <1>2, <1>3, ParseAt
  <2>2. Dots(line, pos, n) /\ (MinOne(tok.kind) => pos < n)
    BY <1>1, <2>1, LazyPasses
  <2>3. \A q \in pos .. n - 1 : At(q) # Newline
    BY <2>2 DEF Dots, At
  <2>4. QED
    BY <1>2, <2>1, <2>2, <2>3
<1> HIDE DEF blocked
<1>4. CASE blocked
  <2>1. Refuted(toks, line, cut)
    BY <1>2, <1>3, <1>4 DEF Refuted
  <2>2. QED
    BY <1>1, <1>2, <1>4, <2>1 DEF CompleteInv
<1>5. CASE ~blocked
  <2>1. \A d \in AsciiOracle!Parses(toks, line) :
          Agree(cut, d, Len(cut)) => ~Better(toks[Len(cut)].kind, d[Len(cut) + 1], n)
    BY <1>2, <1>3 DEF Better
  <2>2. cut \in Seq(Nat) /\ cut # <<>>
    BY <1>2
  <2>3. NoneBetter(toks, line, Append(cut, n))
    BY <1>2, <2>1, <2>2, NoneBetterAppend
  <2>4. QED
    BY <1>1, <1>5, <2>3 DEF CompleteInv
<1>6. QED
  BY <1>4, <1>5

(* memmem finds an offset or nothing.                                       *)
LEMMA FindsOrNot ==
  ASSUME line \in Seq(Byte), NEW p \in Nat, NEW f \in Nat, NEW text
  PROVE  GapToLiteral(p, f, text) = NoEnd \/ GapToLiteral(p, f, text) \in Nat
<1>1. CASE GapToLiteral(p, f, text) # NoEnd
  <2>1. GapToLiteral(p, f, text) \in f .. n /\ n \in Nat
    BY <1>1, GapToLiteralFinds DEF n
  <2>2. QED
    BY <2>1
<1>2. QED
  BY <1>1

(* The first occurrence is the shortest gap.                                *)
LEMMA GapBeforeLiteralComplete == ASSUME CompleteInv, WalkInv', GapBeforeLiteral PROVE CompleteInv'
<1> DEFINE tok == toks[depth]
           text == toks[depth + 1].text
           from == IF MinOne(tok.kind) THEN pos + 1 ELSE pos
           ls == GapToLiteral(pos, from, text)
<1>1. /\ depth < Len(toks) /\ tok.kind \in LazyKind /\ toks[depth + 1].kind = "Lit"
      /\ TryBeforeLiteral(cut, ls, text)
  BY DEF GapBeforeLiteral, Entering
<1>2. /\ WalkInv /\ depth \in 1 .. depth /\ depth \in Nat /\ depth = Len(cut) /\ cut \in Seq(0 .. n)
      /\ pos = cut[depth] /\ pos \in 0 .. n /\ n \in Nat /\ NoneBetter(toks, line, cut)
      /\ line \in Seq(Byte) /\ Len(toks) \in Nat
  BY <1>1, Frames DEF CompleteInv
<1>3. from \in Nat /\ pos \in Nat
  BY <1>2
<1>4. ls = NoEnd \/ ls \in Nat
  BY <1>2, <1>3, FindsOrNot
<1>5. ASSUME NEW d \in AsciiOracle!Parses(toks, line), Agree(cut, d, depth)
      PROVE  /\ ls # NoEnd /\ d[depth + 1] \in Nat /\ ls <= d[depth + 1]
             /\ d[depth + 2] = d[depth + 1] + Len(text)
  <2>1. /\ Passed(tok, line, pos, d[depth + 1]) /\ d[depth + 1] \in 0 .. n /\ pos <= d[depth + 1]
        /\ StartsWith(line, d[depth + 1], text) /\ d[depth + 2] = d[depth + 1] + Len(text)
    BY <1>1, <1>2, <1>5, ParseAt
  <2>2. Dots(line, pos, d[depth + 1]) /\ (MinOne(tok.kind) => pos < d[depth + 1])
    BY <1>1, <2>1, LazyPasses
  <2>3. d[depth + 1] \in from .. n
    BY <1>2, <2>1, <2>2
  <2>4. \A q \in pos .. d[depth + 1] - 1 : line[q + 1] # Newline
    BY <2>2 DEF Dots
  <2> HIDE DEF from, text
  <2>5. ls # NoEnd /\ ls \in Nat /\ ls <= d[depth + 1]
    BY <1>2, <1>3, <2>1, <2>3, <2>4, GapToLiteralIsFirst
  <2>6. QED
    BY <1>2, <2>1, <2>5
<1>6. cut \in Seq(Nat) /\ cut # <<>>
  BY <1>2
<1> HIDE DEF ls
<1>7. QED
  BY <1>1, <1>2, <1>4, <1>5, <1>6, TryBeforeLiteralComplete

(* A gap before a spec starts as short as it may be.                        *)
LEMMA GapBeforeSpecComplete == ASSUME CompleteInv, WalkInv', GapBeforeSpec PROVE CompleteInv'
<1> DEFINE tok == toks[depth]
           e == IF MinOne(tok.kind) THEN GapStep(pos) ELSE pos
<1>1. pc = "walk" /\ depth < Len(toks) /\ tok.kind \in LazyKind /\ Try(e)
  BY DEF GapBeforeSpec, Entering
<1>2. /\ WalkInv /\ depth \in 1 .. depth /\ depth \in Nat /\ pos = cut[depth] /\ pos \in 0 .. n /\ n \in Nat
      /\ line \in Seq(Byte) /\ WellFormed(line) /\ Boundary(line, pos) /\ Len(toks) \in Nat
  BY <1>1, Frames DEF CompleteInv
<1>3. depth <= Len(toks)
  BY <1>1, <1>2
<1>4. ASSUME NEW d \in AsciiOracle!Parses(toks, line), Agree(cut, d, depth)
      PROVE  e # NoEnd /\ ~Better(tok.kind, d[depth + 1], e)
  <2>1. Passed(tok, line, pos, d[depth + 1]) /\ d[depth + 1] \in 0 .. n /\ pos <= d[depth + 1]
    BY <1>2, <1>3, <1>4, ParseAt
  <2>2. Dots(line, pos, d[depth + 1]) /\ (MinOne(tok.kind) => pos < d[depth + 1])
    BY <1>1, <2>1, LazyPasses
  <2>3. CASE MinOne(tok.kind)
    <3>1. GapStep(pos) # NoEnd /\ GapStep(pos) \in Nat /\ GapStep(pos) <= d[depth + 1]
      <4>1. pos \in Nat /\ pos <= pos
        BY <1>2
      <4>2. QED
        BY <1>2, <2>1, <2>2, <2>3, <4>1, GapStepIsLeast
    <3>2. e = GapStep(pos)
      BY <2>3
    <3> HIDE DEF e
    <3>3. e \in Nat /\ d[depth + 1] \in Nat /\ ~(d[depth + 1] < e)
      BY <1>2, <2>1, <3>1, <3>2
    <3>4. QED
      BY <1>1, <3>1, <3>2, <3>3 DEF Better
  <2>4. CASE ~MinOne(tok.kind)
    <3>1. e = pos /\ ~(d[depth + 1] < pos)
      BY <1>2, <2>1, <2>4
    <3>2. QED
      BY <1>1, <1>2, <3>1 DEF NoEnd, Better
  <2>5. QED
    BY <2>3, <2>4
<1> HIDE DEF e
<1>5. QED
  BY <1>1, <1>3, <1>4, TryComplete

-----------------------------------------------------------------------------
(* What a parse that goes on from a returned call's callers does.          *)
LEMMA CallerParse ==
  ASSUME WalkInv, depth > 1, NEW d \in AsciiOracle!Parses(toks, line), Agree(cut, d, depth - 1)
  PROVE  /\ d[depth] \in 0 .. n /\ cut[depth - 1] <= d[depth]
         /\ Passed(toks[depth - 1], line, cut[depth - 1], d[depth])
         /\ depth <= Len(toks) /\ toks[depth].kind = "Lit" =>
              StartsWith(line, d[depth], toks[depth].text) /\ d[depth + 1] = d[depth] + Len(toks[depth].text)
<1> DEFINE m == depth - 1
<1>1. depth \in 2 .. Len(toks) + 1 /\ Len(toks) \in Nat
  BY Frames
<1>2. m \in 1 .. depth /\ m <= Len(toks) /\ m + 1 = depth /\ m + 2 = depth + 1 /\ (m < Len(toks) <=> depth <= Len(toks))
  BY <1>1
<1> HIDE DEF m
<1>3. Agree(cut, d, m)
  BY DEF m
<1>4. /\ d[m + 1] \in 0 .. n /\ cut[m] <= d[m + 1] /\ Passed(toks[m], line, cut[m], d[m + 1])
      /\ m < Len(toks) /\ toks[m + 1].kind = "Lit" =>
              StartsWith(line, d[m + 1], toks[m + 1].text) /\ d[m + 2] = d[m + 1] + Len(toks[m + 1].text)
  BY <1>2, <1>3, ParseAt
<1>5. QED
  BY <1>2, <1>4 DEF m

(* Literals, %c and (nil) have no other end, so the callers are refuted.    *)
LEMMA ReturnFalseComplete == ASSUME CompleteInv, WalkInv', ReturnFalse PROVE CompleteInv'
<1> DEFINE tok == toks[depth - 1]
           a == cut[depth - 1]
<1>1. /\ pc = "fail" /\ depth > 1 /\ Retry(NoEnd)
      /\ \/ tok.kind \in {"Lit", "Char"}
         \/ tok.kind = "Ptr" /\ ~StartsWith(line, a, HexPrefix)
  BY DEF ReturnFalse, Returning
<1>2. WalkInv /\ Passed(tok, line, a, pos) /\ pos \in 0 .. n /\ n \in Nat
  BY <1>1, Caller, Frames DEF CompleteInv
<1>3. ASSUME NEW d \in AsciiOracle!Parses(toks, line), Agree(cut, d, depth - 1), Better(tok.kind, pos, d[depth])
      PROVE  FALSE
  <2>1. Passed(tok, line, a, d[depth]) /\ d[depth] \in 0 .. n
    BY <1>1, <1>2, <1>3, CallerParse
  <2>2. Segment(tok, line, a, d[depth]) /\ Segment(tok, line, a, pos)
    BY <1>2, <2>1 DEF Passed
  <2>3. d[depth] = pos
    <3>1. CASE tok.kind = "Lit"
      BY <2>2, <3>1 DEF Segment
    <3>2. CASE tok.kind = "Char"
      BY <2>2, <3>2 DEF Segment
    <3>3. CASE tok.kind = "Ptr" /\ ~StartsWith(line, a, HexPrefix)
      BY <2>2, <3>3 DEF Segment
    <3>4. QED
      BY <1>1, <3>1, <3>2, <3>3
  <2>4. QED
    BY <1>2, <1>3, <2>3 DEF Better
<1>4. QED
  BY <1>1, <1>3, RetryComplete

(* One byte less is the next longest run.                                   *)
LEMMA ShrinkComplete == ASSUME CompleteInv, WalkInv', Shrink PROVE CompleteInv'
<1> DEFINE tok == toks[depth - 1]
           a == cut[depth - 1]
           floor == GreedyFloor(tok.kind, a)
           e == IF pos - 1 > floor THEN pos - 1 ELSE NoEnd
<1>1. pc = "fail" /\ depth > 1 /\ Greedy(tok, line, a) /\ Retry(e) /\ tok.kind \notin LazyKind
  BY DEF Shrink, Returning, Greedy, LazyKind
<1>2. WalkInv /\ tok \in Token /\ a \in 0 .. n /\ pos \in 0 .. n /\ n \in Nat
  BY <1>1, Caller, Frames DEF CompleteInv
<1>3. floor \in Nat
  BY <1>2 DEF GreedyFloor, FloorIn
<1>4. ASSUME NEW d \in AsciiOracle!Parses(toks, line), Agree(cut, d, depth - 1), Better(tok.kind, pos, d[depth])
      PROVE  e # NoEnd /\ ~Better(tok.kind, d[depth], e)
  <2>1. Passed(tok, line, a, d[depth]) /\ d[depth] \in 0 .. n
    BY <1>1, <1>2, <1>4, CallerParse
  <2>2. floor < d[depth]
    BY <1>1, <1>2, <2>1, LongestRunIsFirst
  <2>3. pos > d[depth]
    BY <1>1, <1>4 DEF Better
  <2> HIDE DEF floor
  <2>4. e = pos - 1 /\ e # NoEnd /\ ~(d[depth] > e)
    BY <1>2, <1>3, <2>1, <2>2, <2>3 DEF NoEnd
  <2> HIDE DEF e
  <2>5. QED
    BY <1>1, <2>4 DEF Better
<1>5. e = NoEnd \/ e \in Nat
  <2> HIDE DEF floor
  <2>1. QED
    BY <1>2, <1>3
<1> HIDE DEF e
<1>6. QED
  BY <1>1, <1>4, <1>5, RetryComplete

(* One char more is the next shortest gap.                                  *)
LEMMA GrowComplete == ASSUME CompleteInv, WalkInv', Grow PROVE CompleteInv'
<1> DEFINE tok == toks[depth - 1]
           a == cut[depth - 1]
           e == GapStep(pos)
<1>1. pc = "fail" /\ depth > 1 /\ tok.kind \in LazyKind /\ Retry(e)
  BY DEF Grow, Returning
<1>2. /\ WalkInv /\ a \in 0 .. n /\ pos \in 0 .. n /\ a <= pos /\ Boundary(line, pos) /\ n \in Nat
      /\ line \in Seq(Byte) /\ WellFormed(line)
  BY <1>1, Caller, Frames DEF CompleteInv
<1>3. ASSUME NEW d \in AsciiOracle!Parses(toks, line), Agree(cut, d, depth - 1), Better(tok.kind, pos, d[depth])
      PROVE  e # NoEnd /\ ~Better(tok.kind, d[depth], e)
  <2>1. Passed(tok, line, a, d[depth]) /\ d[depth] \in 0 .. n
    BY <1>1, <1>2, <1>3, CallerParse
  <2>2. Dots(line, a, d[depth])
    BY <1>1, <2>1, LazyPasses
  <2>3. pos < d[depth]
    BY <1>1, <1>3 DEF Better
  <2>4. a \in Nat /\ pos \in Nat
    BY <1>2
  <2>5. e # NoEnd /\ e \in Nat /\ e <= d[depth]
    BY <1>2, <2>1, <2>2, <2>3, <2>4, GapStepIsLeast
  <2> HIDE DEF e
  <2>6. ~(d[depth] < e)
    BY <1>2, <2>1, <2>5
  <2>7. QED
    BY <1>1, <2>5, <2>6 DEF Better
<1>4. e = NoEnd \/ e \in Nat
  <2>1. ASSUME e # NoEnd PROVE e \in Nat
    <3>1. Dots(line, pos, pos)
      BY <1>2 DEF Dots
    <3>2. pos \in Nat
      BY <1>2
    <3>3. e > pos /\ Dots(line, pos, e)
      BY <1>2, <2>1, <3>1, <3>2, GapStepGrows
    <3> HIDE DEF e
    <3>4. e \in 0 .. Len(line)
      BY <3>3 DEF Dots, Boundary
    <3>5. QED
      BY <1>2, <3>4
  <2>2. QED
    BY <2>1
<1> HIDE DEF e
<1>5. QED
  BY <1>1, <1>3, <1>4, RetryComplete

(* The next occurrence is the next shortest gap.                            *)
LEMMA NextOccurrenceComplete == ASSUME CompleteInv, WalkInv', NextOccurrence PROVE CompleteInv'
<1> DEFINE m == depth - 1
           tok == toks[m]
           a == cut[m]
           text == toks[depth].text
           ls == GapToLiteral(a, pos + 1, text)
<1>1. /\ pc = "fail" /\ depth > 1 /\ tok.kind \in LazyKind /\ toks[depth].kind = "Lit"
      /\ TryBeforeLiteral(Callers, ls, text)
  BY DEF NextOccurrence, Returning
<1>2. WalkInv /\ depth \in 2 .. Len(toks) /\ Len(toks) \in Nat
  BY GapIsNotLast, Frames DEF NextOccurrence, CompleteInv
<1>3. /\ a \in 0 .. n /\ pos \in 0 .. n /\ a <= pos /\ n \in Nat /\ line \in Seq(Byte)
      /\ depth = Len(cut) /\ cut \in Seq(0 .. n)
  BY <1>1, <1>2, Caller, Frames
<1>4. pos + 1 \in Nat /\ a \in Nat
  BY <1>3
<1>5. ls = NoEnd \/ ls \in Nat
  BY <1>3, <1>4, FindsOrNot
<1>6. /\ NoneBetter(toks, line, Callers) /\ Callers \in Seq(Nat) /\ Callers # <<>> /\ Len(Callers) = m
      /\ \A j \in 1 .. m : Callers[j] = cut[j]
  <2>1. cut \in Seq(Nat) /\ Len(cut) > 1 /\ NoneBetter(toks, line, cut)
    BY <1>1, <1>3 DEF CompleteInv
  <2>2. QED
    BY <1>3, <2>1, NoneBetterCallers DEF Callers
<1>7. m \in Nat /\ m + 1 = depth /\ m + 2 = depth + 1 /\ m < Len(toks)
  BY <1>2
<1>8. ASSUME NEW d \in AsciiOracle!Parses(toks, line), Agree(Callers, d, m)
      PROVE  ls # NoEnd /\ d[depth] \in Nat /\ ls <= d[depth] /\ d[depth + 1] = d[depth] + Len(text)
  <2>1. Agree(cut, d, depth - 1)
    BY <1>6, <1>8 DEF Agree
  <2>2. /\ d[depth] \in 0 .. n /\ Passed(tok, line, a, d[depth])
        /\ StartsWith(line, d[depth], text) /\ d[depth + 1] = d[depth] + Len(text)
    BY <1>1, <1>2, <2>1, CallerParse
  <2>3. pos < d[depth]
    <3>1. Better(tok.kind, pos, d[depth])
      BY <1>1, <2>1, Unrefuted
    <3>2. QED
      BY <1>1, <3>1 DEF Better
  <2>4. d[depth] \in pos + 1 .. n
    BY <1>3, <2>2, <2>3
  <2>5. \A q \in a .. d[depth] - 1 : line[q + 1] # Newline
    BY <1>1, <2>2, LazyPasses DEF Dots
  <2> HIDE DEF text
  <2>6. ls # NoEnd /\ ls \in Nat /\ ls <= d[depth]
    BY <1>3, <1>4, <2>2, <2>4, <2>5, GapToLiteralIsFirst
  <2>7. QED
    BY <1>3, <2>2, <2>6
<1> HIDE DEF ls, m
<1>9. /\ toks[m].kind \in LazyKind /\ toks[m + 1].kind = "Lit"
      /\ TryBeforeLiteral(Callers, ls, toks[m + 1].text)
  BY <1>1, <1>7
<1>10. \A d \in AsciiOracle!Parses(toks, line) : Agree(Callers, d, m) =>
           /\ ls # NoEnd /\ d[m + 1] \in Nat /\ ls <= d[m + 1]
           /\ d[m + 2] = d[m + 1] + Len(toks[m + 1].text)
  BY <1>7, <1>8
<1>11. QED
  BY <1>5, <1>6, <1>7, <1>9, <1>10, TryBeforeLiteralComplete

(* With no caller left, no parse is left.                                   *)
LEMMA GiveUpComplete == ASSUME CompleteInv, WalkInv', GiveUp PROVE CompleteInv'
<1>1. toks' = toks /\ line' = line /\ cut' = cut /\ pc' = "nomatch" /\ pc = "fail" /\ depth = 1
  BY DEF GiveUp, Answer
<1>2. /\ toks \in Seq(Token) /\ line \in Seq(Byte) /\ depth = Len(cut) /\ cut[1] = 0
  BY Frames DEF CompleteInv, WalkInv, Reached
<1>3. \A d \in AsciiOracle!Parses(toks, line) : d[1] = 0
  BY <1>2, AllAsciiParses DEF IsAsciiParse
<1>4. \A d \in AsciiOracle!Parses(toks, line) : Agree(cut, d, Len(cut))
  <2>1. Len(cut) = 1
    BY <1>1, <1>2
  <2>2. \A j \in 1 .. 1 : j = 1
    OBVIOUS
  <2>3. QED
    BY <1>2, <1>3, <2>1, <2>2 DEF Agree
<1>5. AsciiOracle!Parses(toks, line) = {}
  BY <1>1, <1>4 DEF CompleteInv, Refuted
<1>6. QED
  BY <1>1, <1>5 DEF CompleteInv

(* No step of the walk passes over a parse.                                 *)
LEMMA CompleteStep == CompleteInv /\ [Next]_vars => CompleteInv'
<1> SUFFICES ASSUME CompleteInv, [Next]_vars PROVE CompleteInv'
  OBVIOUS
<1>0. WalkInv'
  BY WalkInvStep DEF CompleteInv
<1>1. CASE Nominate \/ Prune \/ RejectEarly \/ BeginWalk
  BY <1>0, <1>1, RejectsComplete
<1>2. CASE EndOfPattern
  BY <1>0, <1>2, EndOfPatternComplete
<1>3. CASE Literal
  BY <1>0, <1>3, LiteralComplete
<1>4. CASE Char
  BY <1>0, <1>4, CharComplete
<1>5. CASE Number
  BY <1>0, <1>5, NumberComplete
<1>6. CASE Pointer
  BY <1>0, <1>6, PointerComplete
<1>7. CASE LastGap
  BY <1>0, <1>7, LastGapComplete
<1>8. CASE GapBeforeLiteral
  BY <1>0, <1>8, GapBeforeLiteralComplete
<1>9. CASE GapBeforeSpec
  BY <1>0, <1>9, GapBeforeSpecComplete
<1>10. CASE ReturnFalse
  BY <1>0, <1>10, ReturnFalseComplete
<1>11. CASE Shrink
  BY <1>0, <1>11, ShrinkComplete
<1>12. CASE NextOccurrence
  BY <1>0, <1>12, NextOccurrenceComplete
<1>13. CASE Grow
  BY <1>0, <1>13, GrowComplete
<1>14. CASE GiveUp
  BY <1>0, <1>14, GiveUpComplete
<1>15. CASE UNCHANGED vars
  <2>1. toks' = toks /\ line' = line /\ cut' = cut /\ pc' = pc
    BY <1>15 DEF vars
  <2>2. QED
    BY <1>0, <2>1 DEF CompleteInv
<1>16. QED
  BY <1>1, <1>2, <1>3, <1>4, <1>5, <1>6, <1>7, <1>8, <1>9, <1>10, <1>11, <1>12, <1>13, <1>14, <1>15
     DEF Next, Walk, Backtrack

(* The walk passes over no parse: the frames below the current one hold    *)
(* only ends that the regex engine prefers to those not tried, and a line  *)
(* is given up only when the pattern has no parse of it.                   *)
THEOREM NoParseIsPassedOver == Spec => []CompleteInv
<1>1. QED
  BY CompleteInit, CompleteStep, PTL DEF Spec

(* Sequences that agree at first, and then do not, part somewhere.         *)
LEMMA PartSomewhere ==
  ASSUME NEW m \in Nat, NEW c, NEW d, Agree(c, d, 1), ~Agree(c, d, m + 1)
  PROVE  \E i \in 1 .. m : Agree(c, d, i) /\ ~Agree(c, d, i + 1)
<1> DEFINE apart == { j \in 1 .. m + 1 : ~Agree(c, d, j) }
           k == Least(apart)
<1>1. apart \in SUBSET Nat /\ m + 1 \in apart
  OBVIOUS
<1>2. k \in apart /\ \A j \in apart : k <= j
  <2> HIDE DEF apart
  <2>1. QED
    BY <1>1, LeastIsSmallest
<1>3. k \in 1 .. m + 1 /\ ~Agree(c, d, k) /\ \A j \in 1 .. m + 1 : ~Agree(c, d, j) => k <= j
  BY <1>2
<1> HIDE DEF k, apart
<1>4. k # 1
  BY <1>3
<1>5. k - 1 \in 1 .. m /\ k - 1 + 1 = k /\ k - 1 \in 1 .. m + 1 /\ ~(k <= k - 1)
  BY <1>3, <1>4
<1>6. Agree(c, d, k - 1)
  BY <1>3, <1>5
<1>7. QED
  BY <1>3, <1>5, <1>6

(* A parse that no other was passed over for is the regex engine's answer. *)
LEMMA UnbeatenIsCaptures ==
  ASSUME NEW p \in Seq(Token), NEW s \in Seq(Byte), NEW c, IsAsciiParse(p, s, c), NoneBetter(p, s, c)
  PROVE  AsciiOracle!Captures(p, s) = c
<1>0. Len(p) \in Nat /\ Len(s) \in Nat
  OBVIOUS
<1>1. c \in Seq(0 .. Len(s)) /\ Len(c) = Len(p) + 1 /\ c[1] = 0
  BY DEF IsAsciiParse
<1>2. ASSUME NEW d \in AsciiOracle!Parses(p, s), d # c PROVE Prefers(p, c, d)
  <2>1. d \in Seq(0 .. Len(s)) /\ Len(d) = Len(p) + 1 /\ d[1] = 0
    BY AllAsciiParses DEF IsAsciiParse
  <2>2. PICK i \in 1 .. Len(p) : Agree(c, d, i) /\ ~Agree(c, d, i + 1)
    <3>1. Agree(c, d, 1)
      <4>1. \A j \in 1 .. 1 : j = 1
        OBVIOUS
      <4>2. QED
        BY <1>1, <2>1, <4>1 DEF Agree
    <3>2. ~Agree(c, d, Len(p) + 1)
      <4>1. SUFFICES ASSUME \A j \in 1 .. Len(p) + 1 : d[j] = c[j] PROVE d = c
        BY <1>2 DEF Agree
      <4>2. c \in Seq(0 .. Len(s)) /\ d \in Seq(0 .. Len(s)) /\ Len(c) = Len(d) /\ \A j \in 1 .. Len(d) : d[j] = c[j]
        BY <1>1, <2>1, <4>1
      <4>3. c = [ j \in 1 .. Len(d) |-> c[j] ] /\ d = [ j \in 1 .. Len(d) |-> d[j] ]
        BY <4>2
      <4>4. QED
        BY <4>2, <4>3
    <3>3. QED
      BY <1>0, <3>1, <3>2, PartSomewhere
  <2>3. i \in 1 .. Len(c) - 1 /\ i + 1 \in 1 .. Len(c) /\ i + 1 \in 1 .. Len(d)
    BY <1>0, <1>1, <2>1
  <2>4. ~Better(p[i].kind, d[i + 1], c[i + 1])
    <3>1. QED
      BY <2>2, <2>3 DEF NoneBetter
  <2>5. d[i + 1] \in 0 .. Len(s) /\ c[i + 1] \in 0 .. Len(s)
    <3> DEFINE k == i + 1
    <3>1. k \in 1 .. Len(c) /\ k \in 1 .. Len(d)
      BY <2>3
    <3> HIDE DEF k
    <3>2. c \in Seq(0 .. Len(s)) /\ d \in Seq(0 .. Len(s))
      BY <1>1, <2>1
    <3>3. d[k] \in 0 .. Len(s)
      BY <3>1, <3>2
    <3>4. c[k] \in 0 .. Len(s)
      BY <3>1, <3>2
    <3>5. QED
      BY <3>3, <3>4 DEF k
  <2>6. d[i + 1] # c[i + 1]
    <3>1. \A j \in 1 .. i + 1 : j \in 1 .. i \/ j = i + 1
      BY <1>0
    <3>2. QED
      BY <2>2, <3>1 DEF Agree
  <2>7. IF p[i].kind \in LazyKind THEN c[i + 1] < d[i + 1] ELSE c[i + 1] > d[i + 1]
    BY <1>0, <2>4, <2>5, <2>6 DEF Better
  <2>8. QED
    BY <2>2, <2>7 DEF Prefers, Agree
<1>3. c \in AsciiOracle!Parses(p, s)
  BY AllAsciiParses
<1>4. QED
  BY <1>2, <1>3, AsciiCaptures

(* The step that answers gives the oracle's answer.                        *)
LEMMA DecidesRight == ASSUME CompleteInv, CompleteInv', [Next]_vars PROVE [AsciiOracle!Decide]_(AsciiOracle!oracleVars)
<1>1. ResultOf = IF pc = "matched" THEN cut ELSE IF pc = "nomatch" THEN <<>> ELSE <<-1>>
  BY DEF ResultOf, NoMatch
<1>2. ResultOf' = IF pc' = "matched" THEN cut' ELSE IF pc' = "nomatch" THEN <<>> ELSE <<-1>>
  BY DEF ResultOf, NoMatch
<1>3. toks' = toks /\ line' = line
  BY DEF vars, Next, Walk, Backtrack, Nominate, Prune, RejectEarly, BeginWalk, EndOfPattern, Literal, Char,
         Number, Pointer, LastGap, GapBeforeLiteral, GapBeforeSpec, ReturnFalse, Shrink, NextOccurrence,
         Grow, GiveUp, Answer, Try, TryBeforeLiteral, Retry
<1>4. CASE UNCHANGED vars
  <2>1. ResultOf' = ResultOf
    BY <1>1, <1>2, <1>4 DEF vars
  <2>2. QED
    BY <1>3, <2>1 DEF AsciiOracle!oracleVars
<1>5. CASE Next
  <2>1. pc \notin {"matched", "nomatch"}
    BY <1>5 DEF Next, Walk, Backtrack, Nominate, Prune, RejectEarly, BeginWalk, EndOfPattern, Literal, Char,
         Number, Pointer, LastGap, GapBeforeLiteral, GapBeforeSpec, ReturnFalse, Shrink, NextOccurrence,
         Grow, GiveUp, Entering, Returning
  <2>2. ResultOf = <<-1>>
    BY <1>1, <2>1
  <2>3. toks \in Seq(Token) /\ line \in Seq(Byte) /\ WellFormed(line) /\ Len(line) \in Nat
    BY Frames DEF CompleteInv
  <2>4. CASE pc' = "matched"
    <3>1. ResultOf' = cut'
      BY <1>2, <2>4
    <3>2. /\ cut' \in Seq(0 .. Len(line)) /\ Len(cut') = Len(toks) + 1 /\ cut'[1] = 0
          /\ cut'[Len(toks) + 1] = Len(line)
          /\ \A i \in 1 .. Len(cut') : Boundary(line, cut'[i])
          /\ \A i \in 1 .. Len(cut') - 1 : Passed(toks[i], line, cut'[i], cut'[i + 1])
      BY <1>3, <2>4 DEF CompleteInv, WalkInv, Reached
    <3>3. IsAsciiParse(toks, line, cut')
      <4>1. ASSUME NEW i \in 1 .. Len(toks)
            PROVE  AsciiOracle!Segment(toks[i], line, cut'[i], cut'[i + 1])
        <5>0. Len(toks) \in Nat
          BY <2>3
        <5>1. i \in 1 .. Len(cut') - 1 /\ i \in 1 .. Len(cut') /\ i + 1 \in 1 .. Len(cut')
          BY <3>2, <5>0
        <5>2. /\ cut'[i] \in 0 .. Len(line) /\ cut'[i + 1] \in 0 .. Len(line)
              /\ Boundary(line, cut'[i]) /\ Passed(toks[i], line, cut'[i], cut'[i + 1])
          BY <3>2, <5>1
        <5>3. toks[i] \in Token
          BY <2>3
        <5>4. QED
          BY <2>3, <5>2, <5>3, AsciiSegment
      <4>2. QED
        BY <3>2, <4>1 DEF IsAsciiParse
    <3>4. NoneBetter(toks, line, cut')
      BY <1>3 DEF CompleteInv
    <3>5. AsciiOracle!Captures(toks, line) = cut'
      BY <2>3, <3>3, <3>4, UnbeatenIsCaptures
    <3>6. cut' # <<-1>>
      BY <3>2
    <3>7. QED
      BY <1>3, <2>2, <3>1, <3>5, <3>6 DEF AsciiOracle!Decide, AsciiOracle!Pending
  <2>5. CASE pc' = "nomatch"
    <3>1. AsciiOracle!Parses(toks, line) = {}
      BY <1>3, <2>5 DEF CompleteInv
    <3>2. AsciiOracle!Captures(toks, line) = <<>>
      BY <2>3, <3>1, AsciiCaptures DEF NoMatch
    <3>3. ResultOf' = <<>>
      BY <1>2, <2>5
    <3>4. <<-1>> # <<>>
      OBVIOUS
    <3>5. QED
      BY <1>3, <2>2, <3>2, <3>3, <3>4 DEF AsciiOracle!Decide, AsciiOracle!Pending
  <2>6. CASE pc' \notin {"matched", "nomatch"}
    <3>1. ResultOf' = ResultOf
      BY <1>2, <2>2, <2>6
    <3>2. QED
      BY <1>3, <3>1 DEF AsciiOracle!oracleVars
  <2>7. QED
    BY <2>4, <2>5, <2>6
<1>6. QED
  BY <1>4, <1>5

(* SpecMatcher answers every pattern and line as the anchored regex, with  *)
(* \d read as the ASCII digits, does: the preferred parse if there is one. *)
THEOREM MatcherIsTheAsciiRegex == Spec => ImplementsAsciiRegex
<1>1. Init => AsciiOracle!OracleInit
  BY DEF Init, AsciiOracle!OracleInit, ResultOf, AsciiOracle!Pending
<1>2. CompleteInv /\ CompleteInv' /\ [Next]_vars => [AsciiOracle!Decide]_(AsciiOracle!oracleVars)
  BY DecidesRight
<1>3. QED
  BY <1>1, <1>2, NoParseIsPassedOver, PTL DEF Spec, ImplementsAsciiRegex, AsciiOracle!OracleSpec
===============================================================================
