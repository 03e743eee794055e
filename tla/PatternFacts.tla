----------------------------- MODULE PatternFacts -----------------------------
(***************************************************************************)
(* Facts about UTF-8 text, the fragments of a pattern, its parses and      *)
(* sorting that hold for every alphabet, proved once and cited by the      *)
(* proofs about SpecMatcher, Scanner and LinePipeline.                     *)
(***************************************************************************)
EXTENDS AnchorFilter, Sorting, WellFoundedInduction, SequenceTheorems, FiniteSetTheorems, TLAPS

(* Least picks the smallest element of a nonempty set of naturals.         *)
LEMMA LeastIsSmallest ==
  ASSUME NEW S \in SUBSET Nat, S # {}
  PROVE  Least(S) \in S /\ \A f \in S : Least(S) <= f
<1>1. PICK x \in S : \A y \in S : ~(<<y, x>> \in OpToRel(<, Nat))
  BY WFMin, NatLessThanWellFounded, Zenon
<1>2. \A y \in S : x <= y
  <2> SUFFICES ASSUME NEW y \in S, y < x PROVE FALSE
    OBVIOUS
  <2>1. <<y, x>> \in Nat \X Nat /\ <<y, x>>[1] < <<y, x>>[2]
    OBVIOUS
  <2>2. <<y, x>> \in OpToRel(<, Nat)
    BY <2>1, Zenon DEF OpToRel
  <2>3. QED
    BY <1>1, <2>2
<1>3. \E e \in S : \A f \in S : e <= f
  BY <1>2
<1>4. QED
  BY <1>3 DEF Least

(* The char that starts at a boundary ends at a boundary.                  *)
LEMMA CharEndsOnBoundary ==
  ASSUME NEW s \in Seq(Byte), WellFormed(s),
         NEW p, Boundary(s, p), p < Len(s)
  PROVE  /\ Width[s[p + 1]] \in 1 .. 4
         /\ p + Width[s[p + 1]] \in p + 1 .. Len(s)
         /\ Boundary(s, p + Width[s[p + 1]])
         /\ \A q \in p + 1 .. p + Width[s[p + 1]] - 1 : s[q + 1] \in Cont
<1> DEFINE w == Width[s[p + 1]]
<1>1. p \in 0 .. Len(s) /\ s[p + 1] \notin Cont /\ p + 1 \in 1 .. Len(s)
  BY DEF Boundary
<1>2. s[p + 1] \in Byte
  BY <1>1
<1>3. w \in 1 .. 4
  BY <1>1, <1>2, AlphabetAssumption
<1>4. /\ p + 1 + w - 1 <= Len(s)
      /\ \A j \in p + 2 .. p + w : s[j] \in Cont
      /\ p + 1 + w <= Len(s) => s[p + 1 + w] \notin Cont
  BY <1>1, <1>3 DEF WellFormed
<1>5. Boundary(s, p + w)
  <2>1. p + w \in 0 .. Len(s)
    BY <1>1, <1>3, <1>4
  <2>2. p + w < Len(s) => s[p + w + 1] \notin Cont
    <3>1. p + w + 1 = p + 1 + w /\ (p + w < Len(s) => p + 1 + w <= Len(s))
      BY <1>1, <1>3
    <3> HIDE DEF w
    <3>2. QED
      BY <1>4, <3>1
  <2>3. QED
    BY <2>1, <2>2 DEF Boundary
<1>6. \A q \in p + 1 .. p + w - 1 : s[q + 1] \in Cont
  BY <1>1, <1>3, <1>4
<1>7. QED
  BY <1>1, <1>3, <1>4, <1>5, <1>6

(* An occurrence of a text starts and ends on a boundary: a needle that is *)
(* valid UTF-8 cannot match inside a char (comment at scan.rs:823).        *)
LEMMA OccurrenceOnBoundaries ==
  ASSUME NEW s \in Seq(Byte), WellFormed(s),
         NEW t \in Seq(Byte), WellFormed(t), t # <<>>,
         NEW a \in Nat, StartsWith(s, a, t)
  PROVE  /\ a + Len(t) \in 0 .. Len(s)
         /\ Boundary(s, a)
         /\ Boundary(s, a + Len(t))
<1>1. Len(t) \in Nat \ {0} /\ a + Len(t) <= Len(s)
  BY DEF StartsWith
<1>2. \A i \in 1 .. Len(t) : s[a + i] = t[i]
  <2> TAKE i \in 1 .. Len(t)
  <2>1. SubSeq(s, a + 1, a + Len(t))[i] = s[a + 1 + i - 1]
    BY <1>1
  <2>2. QED
    BY <1>1, <2>1 DEF StartsWith
<1>3. Boundary(s, a)
  BY <1>1, <1>2 DEF Boundary, WellFormed
<1>4. PICK j \in 1 .. Len(t) : t[j] \notin Cont /\ \A i \in j + 1 .. Len(t) : t[i] \in Cont
  <2> DEFINE back == { d \in 0 .. Len(t) - 1 : t[Len(t) - d] \notin Cont }
  <2>1. Len(t) - 1 \in back
    BY <1>1 DEF WellFormed
  <2>2. back \in SUBSET Nat
    OBVIOUS
  <2>3. PICK d \in back : \A f \in back : d <= f
    <3> HIDE DEF back
    <3>1. back # {}
      BY <2>1
    <3>2. QED
      BY <2>2, <3>1, LeastIsSmallest
  <2>4. d \in 0 .. Len(t) - 1 /\ t[Len(t) - d] \notin Cont
    BY <2>3
  <2>5. \A i \in Len(t) - d + 1 .. Len(t) : t[i] \in Cont
    <3> SUFFICES ASSUME NEW i \in Len(t) - d + 1 .. Len(t), t[i] \notin Cont PROVE FALSE
      OBVIOUS
    <3>1. i \in Nat /\ Len(t) - i \in 0 .. Len(t) - 1 /\ Len(t) - i < d /\ Len(t) - (Len(t) - i) = i
      BY <1>1, <2>4
    <3>2. Len(t) - i \in back
      BY <3>1
    <3>3. d <= Len(t) - i
      BY <2>3, <3>2
    <3> HIDE DEF back
    <3>4. QED
      BY <2>4, <3>1, <3>3
  <2>6. Len(t) - d \in 1 .. Len(t)
    BY <1>1, <2>4
  <2>7. QED
    BY <2>4, <2>5, <2>6
<1> DEFINE w == Width[t[j]]
<1>5. w \in 1 .. 4
  BY <1>4, AlphabetAssumption
<1>6. j + w = Len(t) + 1
  <2>1. j + w - 1 <= Len(t) /\ (j + w <= Len(t) => t[j + w] \notin Cont)
    BY <1>1, <1>4 DEF WellFormed
  <2>2. j + w <= Len(t) => j + w \in j + 1 .. Len(t)
    BY <1>1, <1>4, <1>5
  <2>3. ~(j + w <= Len(t))
    BY <1>4, <2>1, <2>2
  <2> HIDE DEF w
  <2>4. QED
    BY <1>1, <1>5, <2>1, <2>3
<1>7. s[a + j] \notin Cont /\ Width[s[a + j]] = w /\ a + j \in 1 .. Len(s)
  BY <1>1, <1>2, <1>4
<1>8. a + j + w <= Len(s) => s[a + j + w] \notin Cont
  BY <1>5, <1>7 DEF WellFormed
<1>9. Boundary(s, a + Len(t))
  <2>1. a + j + w = a + Len(t) + 1 /\ a + Len(t) \in 0 .. Len(s)
    <3> HIDE DEF w
    <3>1. QED
      BY <1>1, <1>4, <1>5, <1>6
  <2>2. QED
    BY <1>1, <1>8, <2>1 DEF Boundary
<1>10. QED
  BY <1>1, <1>3, <1>9

(* Where a run of one-byte chars ends is a boundary, wherever it is cut.   *)
LEMMA RunOnBoundary ==
  ASSUME NEW s \in Seq(Byte), WellFormed(s),
         NEW C \in SUBSET (Hex \cup Float),
         NEW a \in Nat, NEW b \in 0 .. Len(s), RunOf(C, s, a, b)
  PROVE  Boundary(s, a) /\ Boundary(s, b) /\ \A p \in a .. b - 1 : s[p + 1] \notin Cont
<1>1. a < b /\ \A p \in a .. b - 1 : s[p + 1] \in Byte \ Cont /\ Width[s[p + 1]] = 1
  BY AlphabetAssumption DEF RunOf
<1>2. b - 1 \in a .. b - 1 /\ s[b] \notin Cont /\ Width[s[b]] = 1
  <2>1. b - 1 \in a .. b - 1 /\ b - 1 + 1 = b
    BY <1>1
  <2>2. QED
    BY <1>1, <2>1
<1>3. b + 1 <= Len(s) => s[b + 1] \notin Cont
  BY <1>1, <1>2 DEF WellFormed
<1>4. QED
  BY <1>1, <1>3 DEF Boundary

(* A run of ASCII digits is matched by \d+ too.                            *)
LEMMA DigitRunIsDigits ==
  ASSUME NEW s \in Seq(Byte), WellFormed(s),
         NEW a \in Nat, NEW b \in 0 .. Len(s), RunOf(Digit, s, a, b)
  PROVE  Digits(s, a, b)
<1>1. Digit \in SUBSET (Hex \cup Float)
  BY AlphabetAssumption
<1>2. Boundary(s, a) /\ Boundary(s, b)
  BY <1>1, RunOnBoundary
<1>3. QED
  BY <1>2 DEF RunOf, Digits

(* A gap without a newline may grow by the char that follows it, unless    *)
(* that is a newline.                                                      *)
LEMMA DotsGrow ==
  ASSUME NEW s \in Seq(Byte), WellFormed(s),
         NEW a \in Nat, NEW p, Dots(s, a, p), p < Len(s), s[p + 1] # Newline
  PROVE  Dots(s, a, p + Width[s[p + 1]])
<1>1. Boundary(s, p) /\ p \in Nat /\ a <= p
  BY DEF Dots, Boundary
<1> DEFINE w == Width[s[p + 1]]
<1>2. w \in 1 .. 4 /\ Boundary(s, p + w) /\ \A q \in p + 1 .. p + w - 1 : s[q + 1] \in Cont
  BY <1>1, CharEndsOnBoundary
<1>3. \A q \in a .. p + w - 1 : s[q + 1] # Newline
  <2> TAKE q \in a .. p + w - 1
  <2>1. CASE q < p
    BY <1>1, <2>1 DEF Dots
  <2>2. CASE q = p
    BY <2>2
  <2>3. CASE q > p
    BY <1>1, <1>2, <2>3, AlphabetAssumption
  <2>4. QED
    BY <1>1, <1>2, <2>1, <2>2, <2>3
<1>4. QED
  BY <1>1, <1>2, <1>3 DEF Dots

(* Induction up to n, for the numbers of a set.                            *)
LEMMA Climbs ==
  ASSUME NEW n \in Nat, NEW P, 0 \in P, \A i \in 1 .. n : i - 1 \in P => i \in P
  PROVE  \A i \in 0 .. n : i \in P
<1> DEFINE bad == { i \in 0 .. n : i \notin P }
<1> SUFFICES ASSUME bad # {} PROVE FALSE
  OBVIOUS
<1> DEFINE m == Least(bad)
<1>1. bad \in SUBSET Nat
  OBVIOUS
<1>2. m \in bad /\ \A k \in bad : m <= k
  <2> HIDE DEF bad
  <2>1. QED
    BY <1>1, LeastIsSmallest
<1> HIDE DEF m
<1>3. m \in 1 .. n /\ m \notin P
  BY <1>2
<1>4. m - 1 \in P
  <2>1. m - 1 \notin bad
    <3> HIDE DEF bad
    <3>1. QED
      BY <1>2, <1>3
  <2>2. QED
    BY <1>3, <2>1
<1>5. QED
  BY <1>3, <1>4

(* Values that are computed one from the other: step[i] leads to the i-th. *)
Steps(n, V, v, step) == n \in Nat /\ v \in V /\ step \in [1 .. n -> [V -> V]]
Follows(f, n, V, v, step) ==
  f \in [0 .. n -> V] /\ f[0] = v /\ \A i \in 1 .. n : f[i] = step[i][f[i - 1]]

LEMMA Recurrence ==
  ASSUME NEW n, NEW V, NEW v, NEW step, Steps(n, V, v, step)
  PROVE  \E f : Follows(f, n, V, v, step)
<1> DEFINE Upto(m, f) == /\ f \in [0 .. m -> V] /\ f[0] = v
                         /\ \A i \in 1 .. m : f[i] = step[i][f[i - 1]]
           P == { m \in 0 .. n : \E f : Upto(m, f) }
<1>1. n \in Nat /\ v \in V /\ step \in [1 .. n -> [V -> V]]
  BY DEF Steps
<1>2. 0 \in P
  <2>1. Upto(0, [ i \in 0 .. 0 |-> v ])
    BY <1>1
  <2> HIDE DEF Upto
  <2>2. QED
    BY <1>1, <2>1
<1>3. ASSUME NEW m \in 1 .. n, m - 1 \in P PROVE m \in P
  <2>1. PICK f : Upto(m - 1, f)
    BY <1>3
  <2> DEFINE g == [ i \in 0 .. m |-> IF i = m THEN step[m][f[m - 1]] ELSE f[i] ]
  <2>2. f[m - 1] \in V /\ step[m][f[m - 1]] \in V
    BY <1>1, <2>1
  <2>3. Upto(m, g)
    <3>1. g \in [0 .. m -> V]
      BY <1>1, <2>1, <2>2
    <3>2. \A i \in 0 .. m : g[i] = IF i = m THEN step[m][f[m - 1]] ELSE f[i]
      OBVIOUS
    <3> HIDE DEF g
    <3>3. g[0] = v
      BY <2>1, <3>2
    <3>4. ASSUME NEW i \in 1 .. m PROVE g[i] = step[i][g[i - 1]]
      BY <2>1, <3>2
    <3>5. QED
      BY <3>1, <3>3, <3>4
  <2>4. QED
    <3> HIDE DEF Upto, g
    <3>1. QED
      BY <2>3
<1>4. PICK f : Upto(n, f)
  <2> HIDE DEF P
  <2>1. \A i \in 0 .. n : i \in P
    BY <1>1, <1>2, <1>3, Climbs, Zenon
  <2>2. n \in P
    BY <1>1, <2>1
  <2> HIDE DEF Upto
  <2>3. QED
    BY <2>2 DEF P
<1>5. QED
  BY <1>4 DEF Follows

(* What never falls from one step to the next never falls.                 *)
LEMMA NeverFalls ==
  ASSUME NEW n \in Nat, NEW d, \A i \in 0 .. n : d[i] \in Int, \A i \in 1 .. n : d[i - 1] <= d[i],
         NEW i \in 0 .. n, NEW j \in i .. n
  PROVE  d[i] <= d[j]
<1> DEFINE P == { k \in 0 .. n : k >= i => d[i] <= d[k] }
<1>1. 0 \in P
  OBVIOUS
<1>2. ASSUME NEW k \in 1 .. n, k - 1 \in P PROVE k \in P
  BY <1>2
<1> HIDE DEF P
<1>3. j \in P
  BY <1>1, <1>2, Climbs
<1>4. QED
  BY <1>3 DEF P

(* The widths of a prefix.                                                 *)
LEMMA WidthSums ==
  ASSUME NEW p \in Seq(Token)
  PROVE  \E sum :
           /\ sum[0] = 0
           /\ \A i \in 0 .. Len(p) : sum[i] \in Nat
           /\ \A i \in 1 .. Len(p) : sum[i] = sum[i - 1] + MinWidth(p[i])
           /\ \A a, b : WidthSum(p, a, b) = IF a > b THEN 0 ELSE sum[b] - sum[a - 1]
<1> DEFINE sum == CHOOSE f : f = [ i \in 0 .. Len(p) |-> IF i = 0 THEN 0 ELSE f[i - 1] + MinWidth(p[i]) ]
           step == [ i \in 1 .. Len(p) |-> [ x \in Nat |-> x + MinWidth(p[i]) ] ]
<1>1. \A a, b : WidthSum(p, a, b) = IF a > b THEN 0 ELSE sum[b] - sum[a - 1]
  BY DEF WidthSum
<1>2. Len(p) \in Nat /\ \A i \in 1 .. Len(p) : MinWidth(p[i]) \in Nat
  BY DEF MinWidth, MinBytes, Token
<1>3. Steps(Len(p), Nat, 0, step)
  BY <1>2 DEF Steps
<1>4. \A i \in 1 .. Len(p) : \A x \in Nat : step[i][x] = x + MinWidth(p[i])
  OBVIOUS
<1>5. PICK f : Follows(f, Len(p), Nat, 0, step)
  <2> HIDE DEF step
  <2>1. QED
    BY <1>3, Recurrence
<1> HIDE DEF step
<1>6. f = [ i \in 0 .. Len(p) |-> IF i = 0 THEN 0 ELSE f[i - 1] + MinWidth(p[i]) ]
  <2>1. f \in [0 .. Len(p) -> Nat] /\ f[0] = 0
    BY <1>5, Zenon DEF Follows
  <2>2. \A i \in 1 .. Len(p) : f[i] = step[i][f[i - 1]]
    BY <1>5, Zenon DEF Follows
  <2>3. \A i \in 0 .. Len(p) : f[i] = IF i = 0 THEN 0 ELSE f[i - 1] + MinWidth(p[i])
    <3> SUFFICES ASSUME NEW i \in 1 .. Len(p) PROVE f[i] = f[i - 1] + MinWidth(p[i])
      BY <1>2, <2>1
    <3>1. f[i - 1] \in Nat
      BY <1>2, <2>1
    <3>2. QED
      BY <1>4, <2>2, <3>1
  <2>4. QED
    BY <2>1, <2>3
<1>7. sum = [ i \in 0 .. Len(p) |-> IF i = 0 THEN 0 ELSE sum[i - 1] + MinWidth(p[i]) ]
  BY <1>6
<1> HIDE DEF sum
<1>8. \A i \in 0 .. Len(p) : sum[i] = IF i = 0 THEN 0 ELSE sum[i - 1] + MinWidth(p[i])
  BY <1>7
<1>9. sum[0] = 0 /\ \A i \in 1 .. Len(p) : sum[i] = sum[i - 1] + MinWidth(p[i])
  BY <1>2, <1>8
<1>10. \A i \in 0 .. Len(p) : sum[i] \in Nat
  <2> DEFINE P == { i \in 0 .. Len(p) : sum[i] \in Nat }
  <2>1. 0 \in P /\ \A i \in 1 .. Len(p) : i - 1 \in P => i \in P
    BY <1>2, <1>9
  <2> HIDE DEF P
  <2>2. \A i \in 0 .. Len(p) : i \in P
    BY <1>2, <2>1, Climbs
  <2>3. QED
    BY <2>2 DEF P
<1>11. QED
  BY <1>1, <1>9, <1>10

(* A slice that matches a token is at least as wide as the token.          *)
LEMMA SegmentIsWide ==
  ASSUME NEW tok \in Token, NEW s \in Seq(Byte), NEW a \in Nat, NEW b \in Nat,
         Segment(tok, s, a, b)
  PROVE  a + MinWidth(tok) <= b
<1>1. Len(tok.text) \in Nat /\ tok.kind \in Kind \cup {"Lit"}
  BY DEF Token, Kind
<1>2. CASE tok.kind = "Lit"
  BY <1>1, <1>2 DEF Segment, MinWidth
<1>3. CASE tok.kind = "Str"
  BY <1>3 DEF Segment, Dots, MinWidth, MinBytes
<1>4. CASE tok.kind \in {"Errno", "Char", "Uint", "Oct", "Hex", "Float"}
  <2>1. a < b
    BY <1>4 DEF Segment, Digits, RunOf
  <2>2. MinWidth(tok) = 1
    BY <1>4 DEF MinWidth, MinBytes
  <2>3. QED
    BY <2>1, <2>2
<1>5. CASE tok.kind = "Int"
  BY <1>5 DEF Segment, Digits, MinWidth, MinBytes
<1>6. CASE tok.kind = "Ptr"
  <2>1. Len(NilText) = 5 /\ MinWidth(tok) = 3
    BY <1>6, AlphabetAssumption DEF MinWidth, MinBytes
  <2>2. RunOf(Hex, s, a + 2, b) \/ a + Len(NilText) = b
    BY <1>6, Zenon DEF Segment
  <2>3. RunOf(Hex, s, a + 2, b) => a + 2 < b
    BY DEF RunOf
  <2>4. QED
    BY <2>1, <2>2, <2>3
<1>7. QED
  BY <1>1, <1>2, <1>3, <1>4, <1>5, <1>6 DEF Kind

(* The parses of the first i tokens, each grown by one slice.              *)
Grown(toks, s, i, C) ==
  UNION { { Append(c, e) : e \in { x \in c[i] .. Len(s) : Segment(toks[i], s, c[i], x) } } : c \in C }

LEMMA PartialParses ==
  ASSUME NEW toks \in Seq(Token), NEW s
  PROVE  \E partial :
           /\ partial[0] = {<<0>>}
           /\ \A i \in 1 .. Len(toks) : partial[i] = Grown(toks, s, i, partial[i - 1])
           /\ Parses(toks, s) = { c \in partial[Len(toks)] : c[Len(c)] = Len(s) }
<1> DEFINE V == SUBSET Seq(Int)
           step == [ i \in 1 .. Len(toks) |-> [ C \in V |-> Grown(toks, s, i, C) ] ]
           partial == CHOOSE f : f = [ i \in 0 .. Len(toks) |->
             IF i = 0 THEN {<<0>>}
             ELSE UNION { { Append(c, e) : e \in { x \in c[i] .. Len(s) :
                                                   Segment(toks[i], s, c[i], x) } }
                          : c \in f[i - 1] } ]
<1>1. Parses(toks, s) = { c \in partial[Len(toks)] : c[Len(c)] = Len(s) }
  BY DEF Parses
<1>2. Len(toks) \in Nat
  OBVIOUS
<1>3. \A i \in 1 .. Len(toks) : \A C \in V : Grown(toks, s, i, C) \in V
  <2> SUFFICES ASSUME NEW i \in 1 .. Len(toks), NEW C \in V, NEW d \in Grown(toks, s, i, C)
               PROVE  d \in Seq(Int)
    OBVIOUS
  <2>1. PICK c \in C : \E e \in c[i] .. Len(s) : d = Append(c, e)
    BY DEF Grown
  <2>2. QED
    BY <2>1
<1>4. {<<0>>} \in V
  OBVIOUS
<1>5. Steps(Len(toks), V, {<<0>>}, step)
  BY <1>2, <1>3, <1>4 DEF Steps
<1>6. \A i \in 1 .. Len(toks) : \A C \in V : step[i][C] = Grown(toks, s, i, C)
  OBVIOUS
<1>7. PICK f : Follows(f, Len(toks), V, {<<0>>}, step)
  <2> HIDE DEF step
  <2>1. QED
    BY <1>5, Recurrence
<1> HIDE DEF step
<1>8. /\ f \in [0 .. Len(toks) -> V] /\ f[0] = {<<0>>}
      /\ \A i \in 1 .. Len(toks) : f[i] = step[i][f[i - 1]]
  BY <1>7, Zenon DEF Follows
<1>9. f = [ i \in 0 .. Len(toks) |-> IF i = 0 THEN {<<0>>} ELSE Grown(toks, s, i, f[i - 1]) ]
  <2>1. \A i \in 1 .. Len(toks) : f[i - 1] \in V
    BY <1>2, <1>8
  <2>2. \A i \in 1 .. Len(toks) : f[i] = Grown(toks, s, i, f[i - 1])
    BY <1>6, <1>8, <2>1
  <2>3. QED
    BY <1>2, <1>8, <2>2
<1>10. partial = [ i \in 0 .. Len(toks) |-> IF i = 0 THEN {<<0>>} ELSE Grown(toks, s, i, partial[i - 1]) ]
  BY <1>9 DEF Grown
<1> HIDE DEF partial
<1>11. \A i \in 0 .. Len(toks) :
          partial[i] = IF i = 0 THEN {<<0>>} ELSE Grown(toks, s, i, partial[i - 1])
  BY <1>10
<1>12. partial[0] = {<<0>>} /\ \A i \in 1 .. Len(toks) : partial[i] = Grown(toks, s, i, partial[i - 1])
  BY <1>2, <1>11
<1>13. QED
  BY <1>1, <1>12

LEMMA ParsesAreParses ==
  ASSUME NEW toks \in Seq(Token), NEW s \in Seq(Byte), NEW cut \in Parses(toks, s)
  PROVE  cut \in Seq(0 .. Len(s)) /\ IsParse(toks, s, cut)
<1> DEFINE Whole(i, c) == /\ c \in Seq(0 .. Len(s)) /\ Len(c) = i + 1 /\ c[1] = 0
                          /\ \A j \in 1 .. i : Segment(toks[j], s, c[j], c[j + 1])
<1>1. PICK partial :
        /\ partial[0] = {<<0>>}
        /\ \A i \in 1 .. Len(toks) : partial[i] = Grown(toks, s, i, partial[i - 1])
        /\ Parses(toks, s) = { c \in partial[Len(toks)] : c[Len(c)] = Len(s) }
  BY PartialParses
<1>2. Len(toks) \in Nat /\ Len(s) \in Nat
  OBVIOUS
<1> DEFINE P == { i \in 0 .. Len(toks) : \A c \in partial[i] : Whole(i, c) }
<1>3. 0 \in P
  <2>1. Whole(0, <<0>>)
    BY <1>2
  <2> HIDE DEF Whole
  <2>2. QED
    BY <1>1, <1>2, <2>1
<1>4. ASSUME NEW i \in 1 .. Len(toks), i - 1 \in P PROVE i \in P
  <2> SUFFICES ASSUME NEW d \in partial[i] PROVE Whole(i, d)
    OBVIOUS
  <2>0. d \in Grown(toks, s, i, partial[i - 1])
    BY <1>1
  <2>1. PICK c \in partial[i - 1] : \E e \in c[i] .. Len(s) : Segment(toks[i], s, c[i], e) /\ d = Append(c, e)
    BY <2>0, Zenon DEF Grown
  <2>2. PICK e \in c[i] .. Len(s) : Segment(toks[i], s, c[i], e) /\ d = Append(c, e)
    BY <2>1
  <2>3. Whole(i - 1, c)
    BY <1>4
  <2>4. /\ c \in Seq(0 .. Len(s)) /\ Len(c) = i /\ c[1] = 0
        /\ \A j \in 1 .. i - 1 : Segment(toks[j], s, c[j], c[j + 1])
    BY <2>3
  <2>5. e \in 0 .. Len(s)
    BY <2>2, <2>4
  <2>6. d \in Seq(0 .. Len(s)) /\ Len(d) = i + 1 /\ d[i + 1] = e /\ \A j \in 1 .. i : d[j] = c[j]
    BY <2>2, <2>4, <2>5
  <2>7. ASSUME NEW j \in 1 .. i PROVE Segment(toks[j], s, d[j], d[j + 1])
    <3>1. CASE j = i
      BY <2>2, <2>6, <3>1
    <3>2. CASE j \in 1 .. i - 1
      BY <2>4, <2>6, <3>2
    <3>3. QED
      BY <3>1, <3>2
  <2>8. QED
    BY <2>4, <2>6, <2>7
<1>5. Whole(Len(toks), cut) /\ cut[Len(cut)] = Len(s)
  <2> HIDE DEF P
  <2>1. \A i \in 0 .. Len(toks) : i \in P
    BY <1>2, <1>3, <1>4, Climbs, Zenon
  <2>2. Len(toks) \in P
    BY <1>2, <2>1
  <2> HIDE DEF Whole
  <2>3. QED
    BY <1>1, <2>2 DEF P
<1>6. QED
  BY <1>5 DEF IsParse

(* Of numbered numbers one is the greatest.                                *)
LEMMA GreatestOf ==
  ASSUME NEW n \in Nat, NEW L \in SUBSET (1 .. n), L # {}, NEW w, \A i \in L : w[i] \in Nat
  PROVE  \E i \in L : \A j \in L : w[j] <= w[i]
<1> DEFINE upto(k) == { i \in L : i <= k }
           P == { k \in 0 .. n : upto(k) # {} => \E i \in upto(k) : \A j \in upto(k) : w[j] <= w[i] }
<1>0. \A i \in L : i \in 1 .. n
  OBVIOUS
<1>1. 0 \in P
  <2>1. upto(0) = {}
    <3>1. \A i \in L : ~(i <= 0)
      BY <1>0
    <3>2. QED
      BY <3>1
  <2> HIDE DEF upto
  <2>2. QED
    BY <2>1
<1>2. ASSUME NEW k \in 1 .. n, k - 1 \in P PROVE k \in P
  <2>1. CASE k \notin L
    <3>1. upto(k) = upto(k - 1)
      <4>1. \A i \in L : i <= k <=> i <= k - 1
        BY <1>0, <2>1
      <4>2. QED
        BY <4>1
    <3> HIDE DEF upto
    <3>2. QED
      BY <1>2, <3>1
  <2>2. CASE k \in L
    <3>1. upto(k) = upto(k - 1) \cup {k} /\ upto(k - 1) \subseteq L
      <4>1. \A i \in L : i <= k <=> i <= k - 1 \/ i = k
        BY <1>0
      <4>2. QED
        BY <2>2, <4>1
    <3> HIDE DEF upto
    <3>2. CASE upto(k - 1) = {}
      BY <2>2, <3>1, <3>2
    <3>3. CASE upto(k - 1) # {}
      <4>1. PICK i \in upto(k - 1) : \A j \in upto(k - 1) : w[j] <= w[i]
        BY <1>2, <3>3
      <4>2. w[i] \in Nat /\ w[k] \in Nat /\ \A j \in upto(k - 1) : w[j] \in Nat
        BY <2>2, <3>1
      <4>3. CASE w[k] <= w[i]
        BY <3>1, <4>1, <4>3
      <4>4. CASE w[i] <= w[k]
        <5>1. \A j \in upto(k) : w[j] <= w[k]
          BY <3>1, <4>1, <4>2, <4>4
        <5>2. QED
          BY <3>1, <5>1
      <4>5. QED
        BY <4>2, <4>3, <4>4
    <3>4. QED
      BY <3>2, <3>3
  <2>3. QED
    BY <2>1, <2>2
<1>3. n \in P
  <2> HIDE DEF P
  <2>1. \A k \in 0 .. n : k \in P
    BY <1>1, <1>2, Climbs, Zenon
  <2>2. QED
    BY <2>1
<1>4. upto(n) = L
  <2>1. \A i \in L : i <= n
    BY <1>0
  <2>2. QED
    BY <2>1
<1> HIDE DEF upto
<1>5. QED
  BY <1>3, <1>4

(* The anchor is a literal.                                                *)
LEMMA AnchorIsLiteral ==
  ASSUME NEW p \in Seq(Token), LiteralIndexes(p) # {}
  PROVE  AnchorTok(p) \in LiteralIndexes(p)
<1> DEFINE L == LiteralIndexes(p)
           M == { i \in L : \A j \in L : Len(p[j].text) <= Len(p[i].text) }
           w == [ i \in L |-> Len(p[i].text) ]
<1>1. Len(p) \in Nat /\ L \in SUBSET (1 .. Len(p)) /\ \A i \in L : Len(p[i].text) \in Nat
  BY DEF LiteralIndexes, Token
<1>2. \A i \in L : w[i] = Len(p[i].text)
  OBVIOUS
<1>3. \E i \in L : \A j \in L : w[j] <= w[i]
  <2> HIDE DEF w, L
  <2>1. L # {} /\ \A i \in L : w[i] \in Nat
    BY <1>1, <1>2 DEF L
  <2>2. QED
    BY <1>1, <2>1, GreatestOf
<1> HIDE DEF w
<1>4. M # {} /\ M \in SUBSET Nat
  <2>1. PICK i \in L : \A j \in L : w[j] <= w[i]
    BY <1>3
  <2>2. \A j \in L : Len(p[j].text) <= Len(p[i].text)
    BY <1>2, <2>1
  <2>3. i \in M
    BY <2>2
  <2>4. \A j \in M : j \in L
    OBVIOUS
  <2>5. \A j \in M : j \in Nat
    <3> HIDE DEF M
    <3>1. QED
      BY <1>1, <2>4
  <2> HIDE DEF M
  <2>6. QED
    BY <2>3, <2>5
<1>5. Least(M) \in M
  <2> HIDE DEF M
  <2>1. QED
    BY <1>4, LeastIsSmallest
<1>6. QED
  BY <1>5 DEF AnchorTok

LEMMA Differences ==
  /\ \A u, w, x, y \in Int : x + w <= y => x - u <= y - (u + w)
  /\ \A u, x, t, m \in Int : 0 <= x - u /\ x - u <= m - t => u <= x /\ x + (t - u) <= m
  OBVIOUS

(* A parse leaves every token room for the tokens before and after it.     *)
LEMMA ParsesLeaveRoom ==
  ASSUME NEW p \in Seq(Token), NEW s \in Seq(Byte),
         NEW c \in Seq(0 .. Len(s)), IsParse(p, s, c)
  PROVE  /\ WidthSum(p, 1, Len(p)) <= Len(s)
         /\ \A k \in 1 .. Len(p) : /\ WidthSum(p, 1, k - 1) <= c[k]
                                  /\ c[k + 1] + WidthSum(p, k + 1, Len(p)) <= Len(s)
<1>1. Len(p) \in Nat /\ Len(s) \in Nat
  OBVIOUS
<1>3. /\ Len(c) = Len(p) + 1 /\ c[1] = 0 /\ c[Len(p) + 1] = Len(s)
      /\ \A i \in 1 .. Len(p) : Segment(p[i], s, c[i], c[i + 1])
  BY DEF IsParse
<1>4. \A i \in 1 .. Len(p) + 1 : c[i] \in 0 .. Len(s)
  BY <1>1, <1>3
<1>6. PICK sum :
        /\ sum[0] = 0
        /\ \A i \in 0 .. Len(p) : sum[i] \in Nat
        /\ \A i \in 1 .. Len(p) : sum[i] = sum[i - 1] + MinWidth(p[i])
        /\ \A a, b : WidthSum(p, a, b) = IF a > b THEN 0 ELSE sum[b] - sum[a - 1]
  BY WidthSums
<1> DEFINE d == [ i \in 0 .. Len(p) |-> c[i + 1] - sum[i] ]
<1>7. \A i \in 0 .. Len(p) : d[i] = c[i + 1] - sum[i] /\ d[i] \in Int /\ c[i + 1] \in Nat /\ sum[i] \in Nat
  BY <1>1, <1>4, <1>6
<1> HIDE DEF d
<1>8. ASSUME NEW i \in 1 .. Len(p) PROVE d[i - 1] <= d[i]
  <2>1. p[i] \in Token /\ c[i] \in Nat /\ c[i + 1] \in Nat /\ Segment(p[i], s, c[i], c[i + 1])
    <3>1. i \in 1 .. Len(p) + 1 /\ i + 1 \in 1 .. Len(p) + 1
      BY <1>1
    <3>2. QED
      BY <1>3, <1>4, <3>1
  <2>2. c[i] + MinWidth(p[i]) <= c[i + 1] /\ MinWidth(p[i]) \in Nat
    BY <2>1, SegmentIsWide DEF MinWidth, MinBytes, Token
  <2>3. d[i - 1] = c[i] - sum[i - 1] /\ d[i] = c[i + 1] - sum[i] /\ sum[i] = sum[i - 1] + MinWidth(p[i])
    BY <1>1, <1>6, <1>7
  <2>4. sum[i - 1] \in Nat /\ sum[i] \in Nat
    BY <1>1, <1>6
  <2>5. c[i] - sum[i - 1] <= c[i + 1] - (sum[i - 1] + MinWidth(p[i]))
    <3>1. c[i] \in Int /\ c[i + 1] \in Int /\ sum[i - 1] \in Int /\ MinWidth(p[i]) \in Int
      BY <2>1, <2>2, <2>4
    <3>2. QED
      BY <2>2, <3>1, Differences
  <2>6. QED
    BY <2>3, <2>5
<1>9. \A i \in 0 .. Len(p) : \A j \in i .. Len(p) : d[i] <= d[j]
  <2>1. \A i \in 0 .. Len(p) : d[i] \in Int
    BY <1>7
  <2>2. QED
    BY <1>1, <1>8, <2>1, NeverFalls
<1>10. ASSUME NEW k \in 0 .. Len(p)
       PROVE  sum[k] <= c[k + 1] /\ c[k + 1] + (sum[Len(p)] - sum[k]) <= Len(s)
  <2>1. d[0] <= d[k] /\ d[k] <= d[Len(p)]
    BY <1>1, <1>9
  <2>2. d[0] = c[1] - sum[0] /\ d[k] = c[k + 1] - sum[k] /\ d[Len(p)] = c[Len(p) + 1] - sum[Len(p)]
        /\ sum[k] \in Nat /\ sum[Len(p)] \in Nat /\ c[k + 1] \in Nat
    BY <1>1, <1>7
  <2>3. d[0] = 0 /\ d[Len(p)] = Len(s) - sum[Len(p)]
    BY <1>3, <1>6, <2>2
  <2>4. 0 <= c[k + 1] - sum[k] /\ c[k + 1] - sum[k] <= Len(s) - sum[Len(p)]
    BY <2>1, <2>2, <2>3
  <2>5. c[k + 1] \in Int /\ sum[k] \in Int /\ sum[Len(p)] \in Int /\ Len(s) \in Int
    BY <1>1, <2>2
  <2>6. QED
    BY <2>4, <2>5, Differences
<1>11. WidthSum(p, 1, Len(p)) <= Len(s)
  <2>1. sum[Len(p)] <= Len(s)
    BY <1>1, <1>3, <1>10
  <2>2. WidthSum(p, 1, Len(p)) = IF 1 > Len(p) THEN 0 ELSE sum[Len(p)] - sum[0]
    BY <1>1, <1>6
  <2>3. sum[Len(p)] \in Nat /\ sum[0] = 0
    BY <1>1, <1>6
  <2>4. QED
    BY <1>1, <2>1, <2>2, <2>3
<1>12. ASSUME NEW k \in 1 .. Len(p)
       PROVE  WidthSum(p, 1, k - 1) <= c[k] /\ c[k + 1] + WidthSum(p, k + 1, Len(p)) <= Len(s)
  <2>1. k - 1 \in 0 .. Len(p) /\ k \in 0 .. Len(p) /\ k - 1 + 1 = k /\ 1 - 1 = 0 /\ k + 1 - 1 = k
    BY <1>1
  <2>2. sum[k - 1] <= c[k] /\ c[k + 1] + (sum[Len(p)] - sum[k]) <= Len(s)
    BY <1>10, <2>1
  <2>3. sum[k - 1] \in Nat /\ sum[k] \in Nat /\ sum[Len(p)] \in Nat /\ sum[0] = 0
        /\ c[k] \in 0 .. Len(s) /\ c[k + 1] \in 0 .. Len(s)
    BY <1>1, <1>4, <1>6, <2>1
  <2>4. WidthSum(p, 1, k - 1) = IF 1 > k - 1 THEN 0 ELSE sum[k - 1] - sum[0]
    BY <1>6, <2>1
  <2>5. WidthSum(p, k + 1, Len(p)) = IF k + 1 > Len(p) THEN 0 ELSE sum[Len(p)] - sum[k]
    BY <1>6, <2>1
  <2>6. WidthSum(p, 1, k - 1) <= c[k]
    BY <2>2, <2>3, <2>4
  <2>7. c[k + 1] + WidthSum(p, k + 1, Len(p)) <= Len(s)
    BY <1>1, <2>2, <2>3, <2>5
  <2>8. QED
    BY <2>6, <2>7
<1>13. QED
  BY <1>11, <1>12

(* No prefilter loses a match: a line that has a parse is a candidate.     *)
LEMMA CutsAreCandidates ==
  ASSUME NEW p \in Seq(Token), NEW s \in Seq(Byte),
         NEW c \in Seq(0 .. Len(s)), IsParse(p, s, c)
  PROVE  IsCandidate(p, s)
<1> SUFFICES ASSUME LiteralIndexes(p) # {} PROVE IsCandidate(p, s)
  BY DEF IsCandidate
<1>1. PICK k : k = AnchorTok(p)
  OBVIOUS
<1>2. k \in 1 .. Len(p) /\ p[k].kind = "Lit" /\ p[k] \in Token /\ Len(p) \in Nat /\ Len(s) \in Nat
  BY <1>1, AnchorIsLiteral DEF LiteralIndexes
<1>3. /\ c[1] = 0 /\ c[k] \in 0 .. Len(s) /\ Segment(p[k], s, c[k], c[k + 1])
  BY <1>2 DEF IsParse
<1>4. c[k] + Len(p[k].text) = c[k + 1] /\ StartsWith(s, c[k], p[k].text)
  BY <1>2, <1>3 DEF Segment
<1>5. /\ WidthSum(p, 1, k - 1) <= c[k]
      /\ c[k] + Len(p[k].text) + WidthSum(p, k + 1, Len(p)) <= Len(s)
  BY <1>2, <1>4, ParsesLeaveRoom
<1>6. AnchorFits(p, s, c[k], k)
  <2>1. WidthSum(p, 1, k - 1) \in Int
    <3>1. PICK sum :
            /\ \A i \in 0 .. Len(p) : sum[i] \in Nat
            /\ \A a, b : WidthSum(p, a, b) = IF a > b THEN 0 ELSE sum[b] - sum[a - 1]
      BY WidthSums
    <3>2. 1 - 1 \in 0 .. Len(p) /\ k - 1 \in 0 .. Len(p)
      BY <1>2
    <3>3. QED
      BY <3>1, <3>2
  <2>2. QED
    BY <1>2, <1>3, <1>5, <2>1 DEF AnchorFits
<1>7. QED
  BY <1>1, <1>3, <1>4, <1>6 DEF IsCandidate

LEMMA ParsesAreCandidates ==
  ASSUME NEW p \in Seq(Token), NEW s \in Seq(Byte), Parses(p, s) # {}
  PROVE  IsCandidate(p, s)
  BY ParsesAreParses, CutsAreCandidates

(* A nonempty set of naturals below a bound has a least and a greatest.    *)
LEMMA Extremes ==
  ASSUME NEW m \in Nat, NEW V \in SUBSET (0 .. m), V # {}
  PROVE  (\E v \in V : \A w \in V : v <= w) /\ (\E v \in V : \A w \in V : w <= v)
<1>1. \E v \in V : \A w \in V : v <= w
  <2>1. V \in SUBSET Nat
    OBVIOUS
  <2>2. QED
    BY <2>1, LeastIsSmallest
<1>2. \E v \in V : \A w \in V : w <= v
  <2> DEFINE U == { m - v : v \in V }
  <2>1. U \in SUBSET Nat /\ U # {}
    <3>1. \A v \in V : v \in 0 .. m /\ m - v \in Nat
      OBVIOUS
    <3>2. QED
      BY <3>1
  <2>2. PICK u \in U : \A x \in U : u <= x
    <3> HIDE DEF U
    <3>1. QED
      BY <2>1, LeastIsSmallest
  <2>3. PICK v \in V : u = m - v
    BY <2>2
  <2>4. ASSUME NEW w \in V PROVE w <= v
    <3>1. m - w \in U
      OBVIOUS
    <3>2. m - v <= m - w
      BY <2>2, <2>3, <3>1
    <3>3. w \in Nat /\ v \in Nat
      OBVIOUS
    <3>4. QED
      BY <3>2, <3>3
  <2>5. QED
    BY <2>3, <2>4
<1>3. QED
  BY <1>1, <1>2

Alike(c, d, k) == \A j \in 1 .. k : c[j] = d[j]

(* Of the parses of a line one is preferred to all others.                 *)
LEMMA SomeIsPreferred ==
  ASSUME NEW toks \in Seq(Token), NEW m \in Nat, NEW C, C # {},
         \A c \in C : c \in Seq(0 .. m) /\ Len(c) = Len(toks) + 1 /\ c[1] = 0
  PROVE  \E c \in C : \A d \in C \ {c} : Prefers(toks, c, d)
<1> DEFINE n == Len(toks)
           Best(k, c) == \A d \in C : Alike(c, d, k + 1) \/ Prefers(toks, c, d)
           P == { k \in 0 .. n : \E c \in C : Best(k, c) }
<1>1. n \in Nat
  OBVIOUS
<1>0. \A c \in C : \A j \in 1 .. n + 1 : c[j] \in 0 .. m
  OBVIOUS
<1>2. 0 \in P
  <2>1. PICK c \in C : TRUE
    OBVIOUS
  <2>2. \A d \in C : Alike(c, d, 1)
    BY DEF Alike
  <2>3. QED
    BY <1>1, <2>1, <2>2
<1>3. ASSUME NEW k \in 1 .. n, k - 1 \in P PROVE k \in P
  <2>1. PICK c \in C : Best(k - 1, c)
    BY <1>3
  <2>2. \A d \in C : Alike(c, d, k) \/ Prefers(toks, c, d)
    <3>1. k - 1 + 1 = k
      BY <1>1
    <3>2. QED
      BY <2>1, <3>1
  <2> DEFINE D == { d \in C : Alike(c, d, k) }
             V == { d[k + 1] : d \in D }
             lazy == toks[k].kind \in LazyKind
  <2>3. V \in SUBSET (0 .. m) /\ V # {}
    <3>1. c \in D
      BY DEF Alike
    <3>2. \A d \in D : d[k + 1] \in 0 .. m
      <4>1. k + 1 \in 1 .. n + 1
        BY <1>1
      <4> HIDE DEF n
      <4>2. QED
        BY <1>0, <4>1
    <3>3. QED
      BY <3>1, <3>2
  <2>4. PICK v \in V : \A w \in V : IF lazy THEN v <= w ELSE w <= v
    <3> HIDE DEF V, lazy
    <3>1. QED
      BY <2>3, Extremes
  <2>5. PICK e \in D : e[k + 1] = v
    BY <2>4
  <2>6. ASSUME NEW d \in D PROVE Alike(e, d, k + 1) \/ Prefers(toks, e, d)
    <3>1. \A j \in 1 .. k : e[j] = d[j]
      BY <2>5 DEF Alike
    <3>2. d[k + 1] \in V /\ d[k + 1] \in Nat /\ e[k + 1] \in Nat
      <4>1. k + 1 \in 1 .. n + 1 /\ d \in C /\ e \in C
        BY <1>1
      <4>2. d[k + 1] \in 0 .. m /\ e[k + 1] \in 0 .. m
        <5> HIDE DEF n
        <5>1. QED
          BY <1>0, <4>1
      <4>3. d[k + 1] \in V
        OBVIOUS
      <4> HIDE DEF V, D, n
      <4>4. QED
        BY <4>2, <4>3
    <3>3. CASE d[k + 1] = e[k + 1]
      <4>1. Alike(e, d, k + 1)
        <5>1. \A j \in 1 .. k + 1 : j \in 1 .. k \/ j = k + 1
          BY <1>1
        <5> HIDE DEF n, D, V
        <5>2. QED
          BY <3>1, <3>3, <5>1 DEF Alike
      <4>2. QED
        BY <4>1
    <3>4. CASE d[k + 1] # e[k + 1]
      <4>1. IF lazy THEN e[k + 1] < d[k + 1] ELSE e[k + 1] > d[k + 1]
        <5>1. IF lazy THEN e[k + 1] <= d[k + 1] ELSE d[k + 1] <= e[k + 1]
          <6> HIDE DEF V, lazy, D
          <6>1. QED
            BY <2>4, <2>5, <3>2
        <5> HIDE DEF lazy, V, D, n
        <5>2. QED
          BY <3>2, <3>4, <5>1
      <4>2. QED
        BY <1>1, <3>1, <4>1 DEF Prefers
    <3>5. QED
      BY <3>3, <3>4
  <2>7. ASSUME NEW d \in C, d \notin D PROVE Prefers(toks, e, d)
    <3>1. Prefers(toks, c, d) /\ ~Alike(c, d, k)
      BY <2>2, <2>7
    <3>2. PICK i \in 1 .. n :
            /\ \A j \in 1 .. i : c[j] = d[j]
            /\ IF toks[i].kind \in LazyKind THEN c[i + 1] < d[i + 1] ELSE c[i + 1] > d[i + 1]
      BY <3>1 DEF Prefers
    <3>3. i < k
      BY <1>1, <3>1, <3>2 DEF Alike
    <3>4. \A j \in 1 .. k : c[j] = e[j]
      BY <2>5 DEF Alike
    <3>5. (\A j \in 1 .. i : e[j] = d[j]) /\ e[i + 1] = c[i + 1]
      <4>1. i + 1 \in 1 .. k /\ \A j \in 1 .. i : j \in 1 .. k
        BY <1>1, <3>3
      <4> HIDE DEF n, D, V
      <4>2. QED
        BY <3>2, <3>4, <4>1
    <3>6. QED
      BY <3>2, <3>5 DEF Prefers
  <2>8. e \in C /\ Best(k, e)
    BY <2>5, <2>6, <2>7
  <2> HIDE DEF Best
  <2>9. QED
    BY <1>1, <2>8
<1>4. n \in P
  <2> HIDE DEF P, n
  <2>1. \A k \in 0 .. n : k \in P
    BY <1>1, <1>2, <1>3, Climbs
  <2>2. QED
    BY <1>1, <2>1
<1>5. PICK c \in C : Best(n, c)
  BY <1>4
<1>6. ASSUME NEW d \in C, Alike(c, d, n + 1) PROVE d = c
  <2>1. /\ c \in Seq(0 .. m) /\ d \in Seq(0 .. m) /\ Len(c) = n + 1 /\ Len(d) = n + 1
        /\ \A j \in 1 .. n + 1 : c[j] = d[j]
    BY <1>6 DEF Alike
  <2> HIDE DEF n
  <2>2. QED
    BY <1>1, <2>1
<1>7. QED
  BY <1>5, <1>6

(* The captures of a line that matches are one of its parses.              *)
LEMMA CapturesAreParses ==
  ASSUME NEW toks \in Seq(Token), NEW s \in Seq(Byte), Captures(toks, s) # NoMatch
  PROVE  Captures(toks, s) \in Seq(0 .. Len(s)) /\ IsParse(toks, s, Captures(toks, s))
<1> DEFINE C == Parses(toks, s)
<1>1. C # {}
  BY DEF Captures
<1>2. ASSUME NEW c \in C PROVE c \in Seq(0 .. Len(s)) /\ Len(c) = Len(toks) + 1 /\ c[1] = 0
  BY ParsesAreParses DEF IsParse
<1>3. \E c \in C : \A d \in C \ {c} : Prefers(toks, c, d)
  <2> HIDE DEF C
  <2>1. Len(s) \in Nat
    OBVIOUS
  <2>2. QED
    BY <1>1, <1>2, <2>1, SomeIsPreferred
<1>4. Captures(toks, s) \in C
  <2>1. Captures(toks, s) = CHOOSE c \in C : \A d \in C \ {c} : Prefers(toks, c, d)
    BY <1>1 DEF Captures
  <2> HIDE DEF C
  <2>2. QED
    BY <1>3, <2>1
<1>5. QED
  BY <1>4, ParsesAreParses

(* A cut that is a parse is one of Parses.                                 *)
LEMMA ParseIsFound ==
  ASSUME NEW toks \in Seq(Token), NEW s \in Seq(Byte), NEW cut \in Seq(0 .. Len(s)),
         IsParse(toks, s, cut), \A k \in 1 .. Len(toks) : cut[k] <= cut[k + 1]
  PROVE  cut \in Parses(toks, s)
<1> DEFINE n == Len(toks)
<1>1. PICK partial :
        /\ partial[0] = {<<0>>}
        /\ \A i \in 1 .. n : partial[i] = Grown(toks, s, i, partial[i - 1])
        /\ Parses(toks, s) = { c \in partial[n] : c[Len(c)] = Len(s) }
  BY PartialParses
<1>2. n \in Nat /\ Len(s) \in Nat
  OBVIOUS
<1>3. /\ Len(cut) = n + 1 /\ cut[1] = 0 /\ cut[n + 1] = Len(s)
      /\ \A i \in 1 .. n : Segment(toks[i], s, cut[i], cut[i + 1])
  BY DEF IsParse
<1> HIDE DEF n
<1> DEFINE P == { i \in 0 .. n : SubSeq(cut, 1, i + 1) \in partial[i] }
<1>4. 0 \in P
  <2> DEFINE one == SubSeq(cut, 1, 1)
  <2>1. one \in Seq(0 .. Len(s)) /\ Len(one) = 1 /\ one[1] = cut[1]
    <3>1. 1 \in 1 .. Len(cut)
      BY <1>2, <1>3
    <3>2. QED
      BY <3>1
  <2> HIDE DEF one
  <2>2. one = <<0>>
    BY <1>3, <2>1
  <2>3. SubSeq(cut, 1, 0 + 1) \in partial[0]
    BY <1>1, <2>2 DEF one
  <2>4. QED
    BY <1>2, <2>3
<1>5. ASSUME NEW i \in 1 .. n, i - 1 \in P PROVE i \in P
  <2> DEFINE c == SubSeq(cut, 1, i)
             e == cut[i + 1]
  <2>1. c \in partial[i - 1]
    <3>1. i - 1 + 1 = i
      BY <1>2
    <3>2. QED
      BY <1>5, <3>1
  <2>2. c \in Seq(0 .. Len(s)) /\ Len(c) = i /\ \A j \in 1 .. i : c[j] = cut[j]
    <3>1. i \in 1 .. Len(cut)
      BY <1>2, <1>3
    <3>2. QED
      BY <1>2, <3>1
  <2>3. SubSeq(cut, 1, i + 1) = Append(c, e)
    <3> DEFINE longer == SubSeq(cut, 1, i + 1)
    <3>1. i + 1 \in 1 .. Len(cut) /\ i \in Nat
      BY <1>2, <1>3
    <3>2. e \in 0 .. Len(s)
      BY <3>1
    <3>3. longer \in Seq(0 .. Len(s)) /\ Len(longer) = i + 1 /\ \A j \in 1 .. i + 1 : longer[j] = cut[j]
      BY <3>1
    <3> HIDE DEF longer, c, e
    <3>4. /\ Append(c, e) \in Seq(0 .. Len(s)) /\ Len(Append(c, e)) = i + 1 /\ Append(c, e)[i + 1] = e
          /\ \A j \in 1 .. i : Append(c, e)[j] = c[j]
      BY <2>2, <3>2, AppendProperties
    <3>5. \A j \in 1 .. i + 1 : longer[j] = Append(c, e)[j]
      <4> TAKE j \in 1 .. i + 1
      <4>1. CASE j = i + 1
        BY <3>3, <3>4, <4>1 DEF e
      <4>2. CASE j \in 1 .. i
        BY <2>2, <3>1, <3>3, <3>4, <4>2
      <4>3. j = i + 1 \/ j \in 1 .. i
        BY <3>1
      <4>4. QED
        BY <4>1, <4>2, <4>3
    <3>6. longer = Append(c, e)
      BY <3>3, <3>4, <3>5
    <3>7. QED
      BY <3>6 DEF longer
  <2>4. e \in cut[i] .. Len(s)
    <3>1. i \in 1 .. n + 1 /\ i + 1 \in 1 .. n + 1
      BY <1>2
    <3>2. cut[i] \in 0 .. Len(s) /\ cut[i + 1] \in 0 .. Len(s)
      BY <1>3, <3>1
    <3>3. cut[i] <= cut[i + 1]
      BY DEF n
    <3>4. QED
      BY <1>2, <3>2, <3>3
  <2>5. Segment(toks[i], s, cut[i], e)
    BY <1>3
  <2> HIDE DEF c, e
  <2>6. Append(c, e) \in Grown(toks, s, i, partial[i - 1])
    <3> DEFINE ends == { x \in c[i] .. Len(s) : Segment(toks[i], s, c[i], x) }
    <3>0. c[i] = cut[i]
      BY <1>2, <2>2
    <3>1. e \in ends
      BY <2>4, <2>5, <3>0
    <3> HIDE DEF ends
    <3>2. Append(c, e) \in { Append(c, x) : x \in ends }
      BY <3>1
    <3>3. QED
      BY <2>1, <3>2, Zenon DEF Grown, ends
  <2>7. SubSeq(cut, 1, i + 1) \in partial[i]
    BY <1>1, <2>6, <2>3
  <2>8. i \in 0 .. n
    BY <1>2
  <2>9. QED
    BY <2>7, <2>8
<1> HIDE DEF P
<1>6. n \in P
  <2>1. \A i \in 0 .. n : i \in P
    BY <1>2, <1>4, <1>5, Climbs, Zenon
  <2>2. QED
    BY <1>2, <2>1
<1>7. SubSeq(cut, 1, n + 1) = cut
  BY <1>2, <1>3
<1>8. cut \in partial[n]
  BY <1>6, <1>7 DEF P
<1>9. cut[Len(cut)] = Len(s)
  BY <1>3
<1>10. QED
  BY <1>1, <1>8, <1>9

(* A line with a parse has captures.                                       *)
LEMMA ParsedIsCaptured ==
  ASSUME NEW toks \in Seq(Token), NEW s \in Seq(Byte), Parses(toks, s) # {}
  PROVE  Captures(toks, s) # NoMatch
<1> DEFINE C == Parses(toks, s)
<1>1. ASSUME NEW c \in C PROVE c \in Seq(0 .. Len(s)) /\ Len(c) = Len(toks) + 1 /\ c[1] = 0
  BY ParsesAreParses DEF IsParse
<1>2. \E c \in C : \A d \in C \ {c} : Prefers(toks, c, d)
  <2> HIDE DEF C
  <2>1. Len(s) \in Nat
    OBVIOUS
  <2>2. C # {}
    BY DEF C
  <2>3. QED
    BY <1>1, <2>1, <2>2, SomeIsPreferred
<1>3. Captures(toks, s) \in C
  <2>1. Captures(toks, s) = CHOOSE c \in C : \A d \in C \ {c} : Prefers(toks, c, d)
    BY DEF Captures
  <2> HIDE DEF C
  <2>2. QED
    BY <1>2, <2>1
<1>4. Len(Captures(toks, s)) = Len(toks) + 1 /\ Len(toks) \in Nat
  BY <1>1, <1>3
<1>5. QED
  BY <1>4 DEF NoMatch

-----------------------------------------------------------------------------
(* Ranked and the sequences made with it.                                  *)

(* A strict linear order on a finite set ranks it: Ranked lists every      *)
(* element, each after those before it (sort_unstable, sort_by_key).       *)
IsLinearOrder(S, R) ==
  /\ \A x \in S : <<x, x>> \notin R
  /\ \A x, y \in S : x # y => <<x, y>> \in R \/ <<y, x>> \in R
  /\ \A x, y, z \in S : <<x, y>> \in R /\ <<y, z>> \in R => <<x, z>> \in R

(* Ranked lists the elements of a linear order, each once, in that order.  *)
LEMMA RankedSorts ==
  ASSUME NEW S, IsFiniteSet(S), NEW R, IsLinearOrder(S, R)
  PROVE  /\ Cardinality(S) \in Nat
         /\ Ranked(S, R) \in [1 .. Cardinality(S) -> S]
         /\ \A x \in S : \E k \in 1 .. Cardinality(S) : Ranked(S, R)[k] = x
         /\ \A j, k \in 1 .. Cardinality(S) :
              j < k => <<Ranked(S, R)[j], Ranked(S, R)[k]>> \in R
<1> DEFINE n == Cardinality(S)
           below(x) == { y \in S : <<y, x>> \in R }
           rank == [ x \in S |-> Cardinality(below(x)) ]
           q == Ranked(S, R)
<1>1. n \in Nat
  BY FS_CardinalityType
<1>2. ASSUME NEW x \in S PROVE IsFiniteSet(below(x)) /\ Cardinality(below(x)) \in 0 .. n - 1
  <2>1. below(x) \in SUBSET S /\ below(x) # S
    BY DEF IsLinearOrder
  <2> HIDE DEF below
  <2>2. IsFiniteSet(below(x)) /\ Cardinality(below(x)) <= n /\ n # Cardinality(below(x))
    BY <2>1, FS_Subset
  <2>3. Cardinality(below(x)) \in Nat
    BY <2>2, FS_CardinalityType
  <2> HIDE DEF n
  <2>4. QED
    BY <1>1, <2>2, <2>3
<1>3. ASSUME NEW x \in S, NEW y \in S, <<x, y>> \in R PROVE Cardinality(below(x)) < Cardinality(below(y))
  <2>1. below(x) \in SUBSET below(y) /\ below(x) # below(y)
    <3>1. \A z \in below(x) : z \in below(y)
      BY <1>3 DEF IsLinearOrder
    <3>2. x \in below(y) /\ x \notin below(x)
      BY <1>3 DEF IsLinearOrder
    <3>3. QED
      BY <3>1, <3>2
  <2> HIDE DEF below
  <2>2. IsFiniteSet(below(y)) /\ Cardinality(below(y)) \in Int /\ Cardinality(below(x)) \in Int
    BY <1>2
  <2>3. Cardinality(below(x)) <= Cardinality(below(y)) /\ Cardinality(below(y)) # Cardinality(below(x))
    BY <2>1, <2>2, FS_Subset
  <2>4. QED
    BY <2>2, <2>3
<1>4. \A x \in S : rank[x] = Cardinality(below(x)) /\ rank[x] \in 0 .. n - 1
  <2> HIDE DEF below, n
  <2>1. QED
    BY <1>2
<1>5. \A x, y \in S : <<x, y>> \in R => rank[x] < rank[y]
  <2> HIDE DEF below, n
  <2>1. QED
    BY <1>3
<1>6. rank \in [S -> 0 .. n - 1]
  <2> HIDE DEF below, n
  <2>1. QED
    BY <1>2
<1> HIDE DEF rank
<1>7. \A x, y \in S : rank[x] = rank[y] => x = y
  <2> SUFFICES ASSUME NEW x \in S, NEW y \in S, rank[x] = rank[y], x # y PROVE FALSE
    OBVIOUS
  <2>1. rank[x] < rank[y] \/ rank[y] < rank[x]
    BY <1>5 DEF IsLinearOrder
  <2>2. rank[x] \in Int /\ rank[y] \in Int
    <3> HIDE DEF n, below
    <3>1. QED
      BY <1>1, <1>4
  <2>3. QED
    BY <2>1, <2>2
<1>8. \A k \in 1 .. n : \E x \in S : rank[x] = k - 1
  <2>1. rank \in Injection(S, 0 .. n - 1)
    BY <1>6, <1>7 DEF Injection, IsInjective
  <2>2. IsFiniteSet(0 .. n - 1) /\ Cardinality(0 .. n - 1) = n
    <3> HIDE DEF n
    <3>1. IsFiniteSet(0 .. n - 1) /\ Cardinality(0 .. n - 1) = IF 0 > n - 1 THEN 0 ELSE n - 1 - 0 + 1
      BY <1>1, FS_Interval
    <3>2. QED
      BY <1>1, <3>1
  <2>3. rank \in Surjection(S, 0 .. n - 1)
    BY <2>1, <2>2, FS_Injection
  <2> HIDE DEF n
  <2>4. \A k \in 0 .. n - 1 : \E x \in S : rank[x] = k
    BY <2>3 DEF Surjection
  <2>5. QED
    BY <1>1, <2>4
<1>9. \A k \in 1 .. n : q[k] \in S /\ rank[q[k]] = k - 1
  <2> TAKE k \in 1 .. n
  <2>1. q[k] = CHOOSE x \in S : Cardinality(below(x)) = k - 1
    BY DEF Ranked
  <2>2. \E x \in S : Cardinality(below(x)) = k - 1
    <3> HIDE DEF below, n
    <3>1. QED
      BY <1>4, <1>8
  <2> HIDE DEF below, n, q
  <2>3. q[k] \in S /\ Cardinality(below(q[k])) = k - 1
    BY <2>1, <2>2
  <2>4. QED
    BY <1>4, <2>3
<1>10. q \in [1 .. n -> S]
  <2> DEFINE kth(k) == CHOOSE x \in S : Cardinality(below(x)) = k - 1
  <2>1. q = [ k \in 1 .. n |-> kth(k) ]
    BY DEF Ranked
  <2> HIDE DEF q, n, kth
  <2>2. \A k \in 1 .. n : q[k] = kth(k)
    BY <2>1
  <2>3. QED
    BY <1>9, <2>1, <2>2
<1> HIDE DEF q, n, below
<1>11. \A x \in S : \E k \in 1 .. n : q[k] = x
  <2> TAKE x \in S
  <2>1. rank[x] \in 0 .. n - 1 /\ rank[x] + 1 \in 1 .. n
    BY <1>1, <1>4
  <2>2. q[rank[x] + 1] \in S /\ rank[q[rank[x] + 1]] = rank[x]
    BY <1>9, <2>1
  <2>3. QED
    BY <1>7, <2>1, <2>2
<1>12. \A j, k \in 1 .. n : j < k => <<q[j], q[k]>> \in R
  <2> SUFFICES ASSUME NEW j \in 1 .. n, NEW k \in 1 .. n, j < k PROVE <<q[j], q[k]>> \in R
    OBVIOUS
  <2>1. q[j] \in S /\ q[k] \in S /\ rank[q[j]] = j - 1 /\ rank[q[k]] = k - 1
    BY <1>9
  <2>2. q[j] # q[k] /\ ~(rank[q[k]] < rank[q[j]])
    BY <2>1
  <2>3. QED
    BY <1>5, <2>1, <2>2 DEF IsLinearOrder
<1>13. QED
  BY <1>1, <1>10, <1>11, <1>12 DEF n, q

(* The candidates of a call, listed ascending and without repetition.      *)
LEMMA AscendingSorts ==
  ASSUME NEW n \in Nat, NEW S \in SUBSET (1 .. n)
  PROVE  /\ Ascending(S) \in Seq(S)
         /\ \A x \in S : \E k \in DOMAIN Ascending(S) : Ascending(S)[k] = x
         /\ \A j, k \in DOMAIN Ascending(S) : j < k => Ascending(S)[j] < Ascending(S)[k]
<1> DEFINE R == { e \in S \X S : e[1] < e[2] }
           q == Ranked(S, R)
<1>1. IsFiniteSet(S)
  <2>1. IsFiniteSet(1 .. n)
    BY FS_Interval
  <2>2. QED
    BY <2>1, FS_Subset
<1>2. \A x, y \in S : <<x, y>> \in R <=> x < y
  OBVIOUS
<1>3. \A x \in S : x \in Int
  OBVIOUS
<1>4. q = Ascending(S)
  BY DEF Ascending
<1> HIDE DEF R, q
<1>5. IsLinearOrder(S, R)
  BY <1>2, <1>3 DEF IsLinearOrder
<1>6. /\ Cardinality(S) \in Nat /\ q \in [1 .. Cardinality(S) -> S]
      /\ \A x \in S : \E k \in 1 .. Cardinality(S) : q[k] = x
      /\ \A j, k \in 1 .. Cardinality(S) : j < k => <<q[j], q[k]>> \in R
  BY <1>1, <1>5, RankedSorts DEF q
<1>7. q \in Seq(S) /\ DOMAIN q = 1 .. Cardinality(S)
  BY <1>6
<1>8. \A j, k \in 1 .. Cardinality(S) : j < k => q[j] < q[k]
  BY <1>2, <1>6
<1>9. QED
  BY <1>4, <1>6, <1>7, <1>8

(* A set of the numbers to n has at most n.                                *)
LEMMA SmallSets ==
  ASSUME NEW n \in Nat, NEW S \in SUBSET (1 .. n)
  PROVE  IsFiniteSet(S) /\ Cardinality(S) \in Nat /\ Cardinality(S) <= n
<1>1. IsFiniteSet(1 .. n) /\ Cardinality(1 .. n) = n
  BY FS_Interval
<1>2. IsFiniteSet(S) /\ Cardinality(S) <= Cardinality(1 .. n)
  BY <1>1, FS_Subset
<1>3. QED
  BY <1>1, <1>2, FS_CardinalityType
===============================================================================
