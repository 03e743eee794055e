--------------------------- MODULE LinePipelineProof ---------------------------
(***************************************************************************)
(* Proofs about LinePipeline.  The buffer is a row of blocks, one for each *)
(* line, between the marks; the reader stands where the hit it is to read  *)
(* begins; a site number means the same page to the scanner and to the     *)
(* page that labels.  So what is shown of a line is what the formats of    *)
(* the catalog's pages capture of it.                                      *)
(***************************************************************************)
EXTENDS LinePipeline, PatternFacts

-----------------------------------------------------------------------------
(* Sequences joined into one.                                              *)

(* The ends of the parts in the whole.                                     *)
Ends(parts, end) ==
  /\ end \in [0 .. Len(parts) -> Nat] /\ end[0] = 0
  /\ \A i \in 1 .. Len(parts) : end[i] = end[i - 1] + Len(parts[i])

(* Every list of parts has ends.                                           *)
LEMMA EndsExist ==
  ASSUME NEW X, NEW parts \in Seq(Seq(X))
  PROVE  \E end : Ends(parts, end)
<1> DEFINE n == Len(parts)
           step == [ i \in 1 .. n |-> [ x \in Nat |-> x + Len(parts[i]) ] ]
<1>1. n \in Nat /\ \A i \in 1 .. n : Len(parts[i]) \in Nat
  OBVIOUS
<1>2. Steps(n, Nat, 0, step) /\ \A i \in 1 .. n : \A x \in Nat : step[i][x] = x + Len(parts[i])
  <2> HIDE DEF n
  <2>1. QED
    BY <1>1 DEF Steps
<1> HIDE DEF step
<1>3. PICK f : Follows(f, n, Nat, 0, step)
  <2> HIDE DEF n
  <2>1. QED
    BY <1>2, Recurrence
<1>4. f \in [0 .. n -> Nat] /\ f[0] = 0 /\ \A i \in 1 .. n : f[i] = step[i][f[i - 1]]
  BY <1>3, Zenon DEF Follows
<1>5. \A i \in 1 .. n : f[i] = f[i - 1] + Len(parts[i])
  <2> HIDE DEF n
  <2> TAKE i \in 1 .. n
  <2>1. f[i - 1] \in Nat
    BY <1>1, <1>4
  <2>2. QED
    BY <1>2, <1>4, <2>1
<1>6. QED
  BY <1>4, <1>5 DEF Ends

(* The parts lie in order.                                                 *)
LEMMA EndsRise ==
  ASSUME NEW X, NEW parts \in Seq(Seq(X)), NEW end, Ends(parts, end)
  PROVE  \A i \in 0 .. Len(parts) : \A j \in i .. Len(parts) : end[i] <= end[j]
<1>1. Len(parts) \in Nat /\ \A i \in 1 .. Len(parts) : Len(parts[i]) \in Nat
  OBVIOUS
<1>2. \A i \in 0 .. Len(parts) : end[i] \in Int
  BY DEF Ends
<1>3. \A i \in 1 .. Len(parts) : end[i - 1] <= end[i]
  <2> TAKE i \in 1 .. Len(parts)
  <2>1. i - 1 \in 0 .. Len(parts)
    BY <1>1
  <2>2. end[i - 1] \in Nat /\ end[i] = end[i - 1] + Len(parts[i])
    BY <2>1 DEF Ends
  <2>3. QED
    BY <1>1, <2>2
<1>4. QED
  BY <1>1, <1>2, <1>3, NeverFalls

(* The first i parts lie in flat one behind the other.                     *)
Laid(flat, parts, end, i) ==
  /\ Len(flat) = end[i]
  /\ \A j \in 1 .. i : \A x \in 1 .. Len(parts[j]) : flat[end[j - 1] + x] = parts[j][x]

(* One more part is laid behind the others.                                *)
LEMMA LayOne ==
  ASSUME NEW X, NEW parts \in Seq(Seq(X)), NEW end, Ends(parts, end), NEW i \in 1 .. Len(parts),
         NEW flat \in Seq(X), Laid(flat, parts, end, i - 1)
  PROVE  flat \o parts[i] \in Seq(X) /\ Laid(flat \o parts[i], parts, end, i)
<1> DEFINE all == flat \o parts[i]
<1>1. parts[i] \in Seq(X) /\ Len(parts) \in Nat
  OBVIOUS
<1>2. /\ all \in Seq(X) /\ Len(all) = Len(flat) + Len(parts[i])
      /\ \A x \in 1 .. Len(flat) : all[x] = flat[x]
      /\ \A x \in 1 .. Len(parts[i]) : all[Len(flat) + x] = parts[i][x]
  <2>1. Len(flat) \in Nat /\ Len(parts[i]) \in Nat
    BY <1>1
  <2>2. QED
    BY <1>1, <2>1
<1> HIDE DEF all
<1>3. Len(flat) = end[i - 1] /\ Len(all) = end[i] /\ end[i - 1] \in Nat
  BY <1>1, <1>2 DEF Laid, Ends
<1>4. ASSUME NEW j \in 1 .. i, NEW x \in 1 .. Len(parts[j]) PROVE all[end[j - 1] + x] = parts[j][x]
  <2>1. CASE j = i
    BY <1>2, <1>3, <2>1
  <2>2. CASE j \in 1 .. i - 1
    <3>1. flat[end[j - 1] + x] = parts[j][x]
      BY <2>2 DEF Laid
    <3>2. j \in 1 .. Len(parts) /\ j - 1 \in 0 .. Len(parts) /\ j \in 0 .. Len(parts) /\ i - 1 \in j .. Len(parts)
      BY <1>1, <2>2
    <3>3. end[j - 1] \in Nat /\ end[j] \in Nat /\ end[j] = end[j - 1] + Len(parts[j]) /\ end[j] <= end[i - 1]
      <4>1. end[j - 1] \in Nat /\ end[j] \in Nat /\ end[j] = end[j - 1] + Len(parts[j])
        BY <3>2 DEF Ends
      <4>2. end[j] <= end[i - 1]
        BY <3>2, EndsRise
      <4>3. QED
        BY <4>1, <4>2
    <3>4. Len(parts[j]) \in Nat
      BY <3>2
    <3>5. end[j - 1] + x \in 1 .. Len(flat)
      <4>1. \A a, b, c, l \in Nat : \A y \in 1 .. l : b = a + l /\ b <= c => a + y \in 1 .. c
        OBVIOUS
      <4>2. QED
        BY <1>3, <3>3, <3>4, <4>1
    <3>6. QED
      BY <1>2, <3>1, <3>5
  <2>3. QED
    BY <2>1, <2>2
<1>5. QED
  BY <1>2, <1>3, <1>4 DEF Laid, all

(* FlattenSeq lays the parts one behind the other.                         *)
LEMMA FlattenLays ==
  ASSUME NEW X, NEW parts \in Seq(Seq(X)), NEW end, Ends(parts, end)
  PROVE  FlattenSeq(parts) \in Seq(X) /\ Laid(FlattenSeq(parts), parts, end, Len(parts))
<1> DEFINE n == Len(parts)
<1>1. n \in Nat /\ \A i \in 1 .. n : parts[i] \in Seq(X)
  OBVIOUS
<1>2. CASE n = 0
  <2>1. FlattenSeq(parts) = parts /\ parts = <<>>
    BY <1>2 DEF FlattenSeq
  <2>2. <<>> \in Seq(X) /\ Len(<<>>) = 0 /\ end[0] = 0
    BY DEF Ends
  <2>3. QED
    BY <1>2, <2>1, <2>2 DEF Laid
<1>3. CASE n # 0
  <2> DEFINE join(u, w) == u \o w
             flatten == CHOOSE f : f = [ i \in 1 .. n |-> IF i = 1 THEN parts[i] ELSE f[i - 1] \o parts[i] ]
             step == [ i \in 1 .. n |-> [ x \in Seq(X) |-> x \o parts[i] ] ]
  <2>1. FlattenSeq(parts) = flatten[n]
    BY <1>3 DEF FlattenSeq
  <2>2. Steps(n, Seq(X), <<>>, step)
    <3>1. <<>> \in Seq(X) /\ \A i \in 1 .. n : \A x \in Seq(X) : x \o parts[i] \in Seq(X)
      BY <1>1
    <3> HIDE DEF n
    <3>2. QED
      BY <1>1, <3>1 DEF Steps
  <2>3. \A i \in 1 .. n : \A x \in Seq(X) : step[i][x] = x \o parts[i]
    OBVIOUS
  <2> HIDE DEF step
  <2>4. PICK f : Follows(f, n, Seq(X), <<>>, step)
    <3> HIDE DEF n
    <3>1. QED
      BY <2>2, Recurrence
  <2>5. f \in [0 .. n -> Seq(X)] /\ f[0] = <<>> /\ \A i \in 1 .. n : f[i] = step[i][f[i - 1]]
    BY <2>4, Zenon DEF Follows
  <2>6. ASSUME NEW i \in 1 .. n PROVE f[i] = IF i = 1 THEN parts[i] ELSE f[i - 1] \o parts[i]
    <3>1. i - 1 \in 0 .. n /\ f[i - 1] \in Seq(X)
      <4> HIDE DEF n
      <4>1. QED
        BY <1>1, <2>5
    <3>2. f[i] = f[i - 1] \o parts[i]
      BY <2>3, <2>5, <3>1
    <3>3. <<>> \o parts[i] = parts[i]
      BY <1>1
    <3>4. i = 1 => f[i - 1] = <<>>
      BY <2>5
    <3>5. QED
      BY <3>2, <3>3, <3>4, Zenon
  <2>7. flatten = [ i \in 1 .. n |-> IF i = 1 THEN parts[i] ELSE flatten[i - 1] \o parts[i] ]
    <3> DEFINE g == [ i \in 1 .. n |-> f[i] ]
    <3>1. \A i \in 1 .. n : i # 1 => i - 1 \in 1 .. n
      BY <1>1
    <3>2. \A i \in 1 .. n : g[i] = f[i] /\ (i # 1 => g[i - 1] = f[i - 1])
      BY <3>1
    <3>3. \A i \in 1 .. n : g[i] = IF i = 1 THEN parts[i] ELSE g[i - 1] \o parts[i]
      BY <2>6, <3>2, Zenon
    <3>4. DOMAIN g = 1 .. n /\ g = [ i \in 1 .. n |-> g[i] ]
      OBVIOUS
    <3> HIDE DEF g, n
    <3>5. g = [ i \in 1 .. n |-> IF i = 1 THEN parts[i] ELSE g[i - 1] \o parts[i] ]
      BY <3>3, <3>4
    <3>6. QED
      BY <3>5
  <2> HIDE DEF flatten
  <2>8. \A i \in 1 .. n : flatten[i] = IF i = 1 THEN parts[i] ELSE flatten[i - 1] \o parts[i]
    BY <2>7
  <2> DEFINE P == { k \in 0 .. n - 1 : flatten[k + 1] \in Seq(X) /\ Laid(flatten[k + 1], parts, end, k + 1) }
  <2>9. 0 \in P
    <3>1. 1 \in 1 .. n /\ flatten[1] = parts[1] /\ 0 \in 0 .. n - 1 /\ 0 + 1 = 1
      BY <1>1, <1>3, <2>8
    <3>2. Laid(<<>>, parts, end, 0) /\ <<>> \in Seq(X)
      BY DEF Laid, Ends
    <3>3. <<>> \o parts[1] = parts[1] /\ 1 - 1 = 0
      BY <1>1, <3>1
    <3>4. parts[1] \in Seq(X) /\ Laid(parts[1], parts, end, 1)
      <4>1. <<>> \o parts[1] \in Seq(X) /\ Laid(<<>> \o parts[1], parts, end, 1)
        <5> HIDE DEF P
        <5>1. Laid(<<>>, parts, end, 1 - 1) /\ 1 \in 1 .. Len(parts)
          BY <3>1, <3>2, <3>3
        <5>2. QED
          BY <3>2, <5>1, LayOne
      <4>2. QED
        BY <3>3, <4>1
    <3>5. QED
      BY <3>1, <3>4
  <2>10. ASSUME NEW k \in 1 .. n - 1, k - 1 \in P PROVE k \in P
    <3>1. k - 1 + 1 = k /\ k + 1 - 1 = k /\ k + 1 \in 1 .. n /\ k + 1 # 1 /\ k \in 0 .. n - 1
      BY <1>1
    <3>2. flatten[k] \in Seq(X) /\ Laid(flatten[k], parts, end, k)
      BY <2>10, <3>1
    <3>3. flatten[k + 1] = flatten[k] \o parts[k + 1]
      <4>1. PICK m : m = k + 1
        OBVIOUS
      <4>2. m \in 1 .. n /\ m # 1 /\ m - 1 = k
        BY <3>1, <4>1
      <4>3. flatten[m] = IF m = 1 THEN parts[m] ELSE flatten[m - 1] \o parts[m]
        BY <2>8, <4>2, Zenon
      <4>4. QED
        BY <4>1, <4>2, <4>3, Zenon
    <3>4. flatten[k + 1] \in Seq(X) /\ Laid(flatten[k + 1], parts, end, k + 1)
      BY <3>1, <3>2, <3>3, LayOne
    <3>5. QED
      BY <3>1, <3>4
  <2>11. n - 1 \in P
    <3> HIDE DEF P, n
    <3>1. n - 1 \in Nat
      BY <1>1, <1>3
    <3>2. \A k \in 0 .. n - 1 : k \in P
      BY <2>9, <2>10, <3>1, Climbs
    <3>3. QED
      BY <3>1, <3>2
  <2>12. n - 1 + 1 = n
    BY <1>1
  <2>13. QED
    BY <2>1, <2>11, <2>12
<1>4. QED
  BY <1>2, <1>3

-----------------------------------------------------------------------------
(* The prefix is cut off: what is left is no longer than the line.         *)

(* A part cut out of a text is a text, and no longer.                      *)
LEMMA CutOut ==
  ASSUME NEW X, NEW s \in Seq(X), NEW a \in Nat \ {0}, NEW b \in 0 .. Len(s)
  PROVE  SubSeq(s, a, b) \in Seq(X) /\ Len(SubSeq(s, a, b)) <= Len(s)
<1>1. Len(s) \in Nat
  OBVIOUS
<1>2. CASE a <= b
  <2>1. SubSeq(s, a, b) \in Seq(X) /\ Len(SubSeq(s, a, b)) = b - a + 1
    BY <1>1, <1>2
  <2>2. QED
    BY <1>1, <2>1
<1>3. CASE ~(a <= b)
  <2>1. SubSeq(s, a, b) = <<>>
    BY <1>1, <1>3
  <2>2. QED
    BY <1>1, <2>1
<1>4. QED
  BY <1>2, <1>3

(* Min and Max choose from their set.                                      *)
LEMMA ExtremesAreChosen ==
  ASSUME NEW m \in Nat, NEW V \in SUBSET (1 .. m), V # {}
  PROVE  Min(V) \in V /\ Max(V) \in V
<1>1. (\E v \in V : \A w \in V : v <= w) /\ (\E v \in V : \A w \in V : w <= v)
  <2>1. V \in SUBSET (0 .. m)
    OBVIOUS
  <2>2. QED
    BY <2>1, Extremes
<1>2. \E v \in V : \A w \in V : v >= w
  BY <1>1
<1>3. QED
  BY <1>1, <1>2 DEF Min, Max

(* Trim returns a part of the text.                                        *)
LEMMA TrimShortens ==
  ASSUME NEW X, NEW t \in Seq(X)
  PROVE  Trim(t) \in Seq(X) /\ Len(Trim(t)) <= Len(t)
<1> DEFINE ink == { k \in DOMAIN t : t[k] \notin Space }
<1>1. ink \in SUBSET (1 .. Len(t)) /\ Len(t) \in Nat
  OBVIOUS
<1>2. Trim(t) = IF ink = {} THEN <<>> ELSE SubSeq(t, Min(ink), Max(ink))
  BY DEF Trim
<1> HIDE DEF ink
<1>3. CASE ink = {}
  <2>1. <<>> \in Seq(X) /\ Len(<<>>) = 0
    OBVIOUS
  <2>2. QED
    BY <1>1, <1>2, <1>3, <2>1
<1>4. CASE ink # {}
  <2>1. Min(ink) \in Nat \ {0} /\ Max(ink) \in 0 .. Len(t)
    <3>1. Min(ink) \in ink /\ Max(ink) \in ink
      BY <1>1, <1>4, ExtremesAreChosen
    <3>2. Min(ink) \in 1 .. Len(t) /\ Max(ink) \in 1 .. Len(t)
      BY <1>1, <3>1
    <3>3. QED
      BY <3>2
  <2>2. SubSeq(t, Min(ink), Max(ink)) \in Seq(X) /\ Len(SubSeq(t, Min(ink), Max(ink))) <= Len(t)
    BY <2>1, CutOut
  <2>3. QED
    BY <1>2, <1>4, <2>2
<1>5. QED
  BY <1>3, <1>4

(* A run ends at the first byte that is not of its class.                  *)
LEMMA PastRunIs ==
  ASSUME NEW X, NEW t \in Seq(X), NEW a \in 0 .. Len(t), NEW C
  PROVE  /\ PastRun(C, t, a) \in a .. Len(t)
         /\ \A e \in a .. Len(t) :
              (\A q \in a .. e - 1 : t[q + 1] \in C) /\ (e = Len(t) \/ t[e + 1] \notin C)
                => PastRun(C, t, a) = e
<1> DEFINE V == { e \in a .. Len(t) : e = Len(t) \/ t[e + 1] \notin C }
           r == Min(V)
<1>1. Len(t) \in Nat /\ a \in Nat /\ V \in SUBSET (a .. Len(t)) /\ Len(t) \in V
  OBVIOUS
<1>2. \A e \in a .. Len(t) : e \in V <=> (e = Len(t) \/ t[e + 1] \notin C)
  OBVIOUS
<1>3. PastRun(C, t, a) = r
  BY DEF PastRun
<1> HIDE DEF V
<1>4. r \in V /\ \A w \in V : r <= w
  <2>1. V \in SUBSET (0 .. Len(t)) /\ V # {}
    BY <1>1
  <2>2. \E v \in V : \A w \in V : v <= w
    BY <1>1, <2>1, Extremes
  <2>3. QED
    BY <2>2 DEF Min
<1> HIDE DEF r
<1>5. r \in a .. Len(t)
  BY <1>1, <1>4
<1>6. ASSUME NEW e \in a .. Len(t), \A q \in a .. e - 1 : t[q + 1] \in C,
             e = Len(t) \/ t[e + 1] \notin C
      PROVE  r = e
  <2>1. e \in V /\ r <= e
    BY <1>2, <1>4, <1>6
  <2>2. r \notin a .. e - 1
    <3> SUFFICES ASSUME r \in a .. e - 1 PROVE FALSE
      OBVIOUS
    <3>1. t[r + 1] \in C /\ r # Len(t)
      BY <1>1, <1>6
    <3>2. QED
      BY <1>2, <1>4, <1>5, <3>1
  <2>3. QED
    BY <1>1, <1>5, <2>1, <2>2
<1>7. QED
  BY <1>3, <1>5, <1>6

(* A timestamp ends in the text.                                           *)
LEMMA PastStampIn ==
  ASSUME NEW X, NEW t \in Seq(X)
  PROVE  PastStamp(t) \in Nat
<1> DEFINE run == PastRun(StampChar, t, 1)
           blank == PastRun(Space, t, run)
           zone == PastZone(t, run)
           open == PastRun(Space, t, zone)
           pid == PastPid(t, open)
<1>1. PastStamp(t) = IF t # <<>> /\ t[1] = Stamp /\ run > 1 THEN PastRun(Space, t, pid) ELSE 0
  BY DEF PastStamp
<1>2. CASE t = <<>>
  BY <1>1, <1>2
<1>3. CASE t # <<>>
  <2>1. Len(t) \in Nat /\ 1 \in 0 .. Len(t)
    BY <1>3
  <2>2. run \in 0 .. Len(t)
    <3>1. run \in 1 .. Len(t)
      BY <2>1, PastRunIs
    <3> HIDE DEF run
    <3>2. QED
      BY <3>1
  <2> HIDE DEF run
  <2>3. blank \in 0 .. Len(t)
    <3>1. blank \in run .. Len(t)
      BY <2>2, PastRunIs
    <3> HIDE DEF blank
    <3>2. QED
      BY <2>1, <2>2, <3>1
  <2>4. zone \in 0 .. Len(t)
    <3> DEFINE word == PastRun(WordChar, t, blank)
    <3>1. zone = IF blank > run /\ word > blank THEN word ELSE run
      BY DEF PastZone
    <3> HIDE DEF blank, zone
    <3>2. word \in blank .. Len(t)
      BY <2>3, PastRunIs
    <3> HIDE DEF word
    <3>3. word \in 0 .. Len(t)
      BY <2>1, <2>3, <3>2
    <3>4. QED
      BY <2>2, <3>1, <3>3
  <2> HIDE DEF zone
  <2>5. open \in 0 .. Len(t)
    <3>1. open \in zone .. Len(t)
      BY <2>4, PastRunIs
    <3> HIDE DEF open
    <3>2. QED
      BY <2>1, <2>4, <3>1
  <2> HIDE DEF open
  <2>6. pid \in 0 .. Len(t)
    <3>1. CASE HasPid(t, open)
      <4>1. pid = CHOOSE b \in open + 1 .. Len(t) : Pid(t, open, b)
        BY <3>1 DEF PastPid
      <4>2. \E b \in open + 1 .. Len(t) : Pid(t, open, b)
        BY <3>1 DEF HasPid
      <4> HIDE DEF pid
      <4>3. pid \in open + 1 .. Len(t)
        BY <4>1, <4>2
      <4>4. QED
        BY <2>1, <2>5, <4>3
    <3>2. CASE ~HasPid(t, open)
      BY <2>5, <3>2 DEF PastPid
    <3>3. QED
      BY <3>1, <3>2
  <2> HIDE DEF pid
  <2>7. PastRun(Space, t, pid) \in pid .. Len(t)
    BY <2>6, PastRunIs
  <2>8. PastRun(Space, t, pid) \in Nat
    BY <2>1, <2>6, <2>7
  <2>9. QED
    BY <1>1, <2>8
<1>4. QED
  BY <1>2, <1>3

(* stripLogPrefix returns a part of the line.                              *)
LEMMA CoreIsPart ==
  ASSUME NEW X, NEW t \in Seq(X)
  PROVE  stripLogPrefix(t).core \in Seq(X) /\ Len(stripLogPrefix(t).core) <= Len(t)
<1> DEFINE ink == { k \in DOMAIN t : t[k] \notin Space }
           trimmed == IF ink = {} THEN <<>> ELSE SubSeq(t, 1, Max(ink))
           markers == { k \in DOMAIN trimmed : Marker(trimmed, k) }
           cut == IF markers # {} THEN SubSeq(trimmed, Max(markers) + 2, Len(trimmed))
                  ELSE SubSeq(trimmed, PastStamp(trimmed) + 1, Len(trimmed))
<1>1. ink \in SUBSET (1 .. Len(t)) /\ Len(t) \in Nat
  OBVIOUS
<1>2. trimmed \in Seq(X) /\ Len(trimmed) <= Len(t)
  <2> HIDE DEF ink
  <2>1. CASE ink = {}
    <3>1. <<>> \in Seq(X) /\ Len(<<>>) = 0
      OBVIOUS
    <3>2. QED
      BY <1>1, <2>1, <3>1
  <2>2. CASE ink # {}
    <3>1. Max(ink) \in 1 .. Len(t)
      BY <1>1, <2>2, ExtremesAreChosen
    <3>2. Max(ink) \in 0 .. Len(t) /\ 1 \in Nat \ {0}
      BY <1>1, <3>1
    <3>3. SubSeq(t, 1, Max(ink)) \in Seq(X) /\ Len(SubSeq(t, 1, Max(ink))) <= Len(t)
      BY <3>2, CutOut
    <3>4. QED
      BY <2>2, <3>3
  <2>3. QED
    BY <2>1, <2>2
<1>3. stripLogPrefix(t).core = Trim(cut)
  BY DEF stripLogPrefix
<1> HIDE DEF ink, trimmed
<1>4. markers \in SUBSET (1 .. Len(trimmed)) /\ Len(trimmed) \in Nat
  BY <1>2
<1> HIDE DEF markers
<1>5. cut \in Seq(X) /\ Len(cut) <= Len(trimmed)
  <2>1. CASE markers # {}
    <3>1. Max(markers) \in 1 .. Len(trimmed)
      BY <1>4, <2>1, ExtremesAreChosen
    <3>2. Max(markers) + 2 \in Nat \ {0} /\ Len(trimmed) \in 0 .. Len(trimmed)
      BY <1>4, <3>1
    <3>3. /\ SubSeq(trimmed, Max(markers) + 2, Len(trimmed)) \in Seq(X)
          /\ Len(SubSeq(trimmed, Max(markers) + 2, Len(trimmed))) <= Len(trimmed)
      BY <1>2, <3>2, CutOut
    <3>4. QED
      BY <2>1, <3>3
  <2>2. CASE markers = {}
    <3>1. PastStamp(trimmed) \in Nat
      BY <1>2, PastStampIn
    <3>2. PastStamp(trimmed) + 1 \in Nat \ {0} /\ Len(trimmed) \in 0 .. Len(trimmed)
      BY <1>4, <3>1
    <3>3. /\ SubSeq(trimmed, PastStamp(trimmed) + 1, Len(trimmed)) \in Seq(X)
          /\ Len(SubSeq(trimmed, PastStamp(trimmed) + 1, Len(trimmed))) <= Len(trimmed)
      BY <1>2, <3>2, CutOut
    <3>4. QED
      BY <2>2, <3>3
  <2>3. QED
    BY <2>1, <2>2
<1> HIDE DEF cut
<1>6. Trim(cut) \in Seq(X) /\ Len(Trim(cut)) <= Len(cut)
  BY <1>5, TrimShortens
<1>7. Len(cut) \in Nat /\ Len(Trim(cut)) \in Nat
  BY <1>5, <1>6
<1>8. QED
  BY <1>1, <1>2, <1>3, <1>4, <1>5, <1>6, <1>7

-----------------------------------------------------------------------------
(* The index.                                                              *)

Page0 == [slug : DOMAIN SlugRank, message : Message]
Scannable(d) == lower_format[d.message].ok /\ lower_format[d.message].literal_len > 0
Entry(d) ==
  [ doc |-> d, groups |-> lower_format[d.message].groups,
    literalLen |-> lower_format[d.message].literal_len ]
Entries == { Entry(d) : d \in { e \in Page0 : Scannable(e) } }

(* list has the scannable ones of the first k pages, each once.            *)
Holds(pages, list, k) ==
  /\ \A n \in DOMAIN list : \E i \in 1 .. k : Scannable(pages[i]) /\ list[n] = Entry(pages[i])
  /\ \A i \in 1 .. k : Scannable(pages[i]) => \E n \in DOMAIN list : list[n] = Entry(pages[i])
  /\ \A m, n \in DOMAIN list : list[m] = list[n] => m = n

IndexInv ==
  /\ docs \in Catalogs /\ raws \in Batches
  /\ report \in [total : Nat, lowerFailed : Nat, compiled : Nat, catchAlls : Nat]
  /\ report.total <= Len(docs)
  /\ report.total = report.lowerFailed + report.compiled + report.catchAlls
  /\ report.compiled = Len(scored)
  /\ scored \in Seq(Entries) /\ Holds(docs, scored, report.total)

(* The scanner numbers the pages as the index lists them, and it lists     *)
(* them by specificity.                                                    *)
Shipped ==
  /\ report.total = Len(docs)
  /\ sites \in Seq(Entries) /\ Holds(docs, sites, Len(docs)) /\ Len(sites) <= Len(docs)
  /\ \A m, n \in DOMAIN sites : m < n => MoreSpecific(sites[m], sites[n])
  /\ scanner = [ k \in DOMAIN sites |-> sites[k].doc.message ]

ShippedInv == IF phase = "index" THEN sites = <<>> /\ scanner = <<>> ELSE Shipped

(* An entry is of a page with literal text, and carries its lowering.      *)
LEMMA EntryFields ==
  ASSUME NEW e \in Entries
  PROVE  /\ e.doc \in Page0 /\ Scannable(e.doc) /\ e = Entry(e.doc)
         /\ e.groups = lower_format[e.doc.message].groups
         /\ e.literalLen = lower_format[e.doc.message].literal_len
         /\ e.literalLen \in Nat /\ e.literalLen > 0 /\ SlugRank[e.doc.slug] \in Nat
<1>1. PICK d \in Page0 : Scannable(d) /\ e = Entry(d)
  BY DEF Entries
<1>2. e.doc = d /\ e.groups = lower_format[d.message].groups /\ e.literalLen = lower_format[d.message].literal_len
  BY <1>1 DEF Entry
<1>3. d.message \in Message /\ d.slug \in DOMAIN SlugRank
  BY DEF Page0
<1>4. lower_format[d.message].literal_len \in Nat /\ lower_format[d.message].literal_len > 0
  BY <1>1, <1>3, LoweredAssumption DEF Scannable
<1>5. SlugRank[d.slug] \in Nat
  BY <1>3, PagesAssumption
<1>6. QED
  BY <1>1, <1>2, <1>4, <1>5

(* No two pages of a catalog rank alike.                                   *)
LEMMA PagesDiffer ==
  ASSUME docs \in Catalogs
  PROVE  /\ docs \in Seq(Page0)
         /\ \A i, j \in DOMAIN docs : SlugRank[docs[i].slug] = SlugRank[docs[j].slug] => i = j
  BY PagesAssumption DEF Page0

(* Of two entries of the index one is more specific.                       *)
LEMMA EntriesCompare ==
  ASSUME docs \in Catalogs, NEW list \in Seq(Entries), NEW k \in 0 .. Len(docs), Holds(docs, list, k)
  PROVE  \A m, n \in DOMAIN list :
           m # n => MoreSpecific(list[m], list[n]) \/ MoreSpecific(list[n], list[m])
<1> SUFFICES ASSUME NEW m \in DOMAIN list, NEW n \in DOMAIN list, m # n
             PROVE  MoreSpecific(list[m], list[n]) \/ MoreSpecific(list[n], list[m])
  OBVIOUS
<1>1. PICK i \in 1 .. k : list[m] = Entry(docs[i])
  BY DEF Holds
<1>2. PICK j \in 1 .. k : list[n] = Entry(docs[j])
  BY DEF Holds
<1>3. i # j
  BY <1>1, <1>2 DEF Holds
<1>4. i \in DOMAIN docs /\ j \in DOMAIN docs
  BY PagesDiffer
<1>5. SlugRank[docs[i].slug] # SlugRank[docs[j].slug]
  BY <1>3, <1>4, PagesDiffer
<1>6. list[m].doc = docs[i] /\ list[n].doc = docs[j]
  BY <1>1, <1>2 DEF Entry
<1>7. list[m] \in Entries /\ list[n] \in Entries
  OBVIOUS
<1>8. /\ list[m].literalLen \in Nat /\ list[n].literalLen \in Nat
      /\ SlugRank[list[m].doc.slug] \in Nat /\ SlugRank[list[n].doc.slug] \in Nat
  BY <1>7, EntryFields
<1>9. SlugRank[list[m].doc.slug] # SlugRank[list[n].doc.slug]
  BY <1>5, <1>6
<1>10. QED
  BY <1>8, <1>9 DEF MoreSpecific

(* A list any two of whose entries compare is sorted by specificity.       *)
LEMMA SortedSorts ==
  ASSUME NEW list \in Seq(Entries),
         \A m, n \in DOMAIN list :
           m # n => MoreSpecific(list[m], list[n]) \/ MoreSpecific(list[n], list[m])
  PROVE  /\ Sorted(list) \in Seq(Entries) /\ Len(Sorted(list)) = Len(list)
         /\ \A n \in DOMAIN Sorted(list) : \E m \in DOMAIN list : Sorted(list)[n] = list[m]
         /\ \A m \in DOMAIN list : \E n \in DOMAIN Sorted(list) : Sorted(list)[n] = list[m]
         /\ \A m, n \in DOMAIN Sorted(list) : m < n => MoreSpecific(Sorted(list)[m], Sorted(list)[n])
<1> DEFINE D == DOMAIN list
           R == { e \in D \X D : \/ MoreSpecific(list[e[1]], list[e[2]])
                                 \/ ~MoreSpecific(list[e[2]], list[e[1]]) /\ e[1] < e[2] }
           from == Ranked(D, R)
           sorted == Sorted(list)
<1>1. D = 1 .. Len(list) /\ Len(list) \in Nat /\ \A m \in D : list[m] \in Entries
  OBVIOUS
<1>2. IsFiniteSet(D) /\ Cardinality(D) = Len(list)
  <2> HIDE DEF D
  <2>1. PICK l \in Nat : l = Len(list)
    BY <1>1
  <2>2. IsFiniteSet(1 .. l) /\ Cardinality(1 .. l) = l
    BY FS_Interval
  <2>3. QED
    BY <1>1, <2>1, <2>2
<1>3. \A m, n \in D : <<m, n>> \in R <=>
        MoreSpecific(list[m], list[n]) \/ (~MoreSpecific(list[n], list[m]) /\ m < n)
  OBVIOUS
<1>4. ASSUME NEW m \in D, NEW n \in D PROVE <<m, n>> \in R <=> MoreSpecific(list[m], list[n])
  <2>1. m \in Nat /\ ~(m < m)
    BY <1>1
  <2>2. CASE m = n
    BY <1>3, <2>1, <2>2
  <2>3. CASE m # n
    BY <1>3, <2>3
  <2>4. QED
    BY <2>2, <2>3
<1>5. sorted = [ k \in D |-> list[from[k]] ]
  BY DEF Sorted
<1> HIDE DEF R, from, sorted
<1>6. IsLinearOrder(D, R)
  <2>1. \A m \in D : list[m].literalLen \in Nat /\ SlugRank[list[m].doc.slug] \in Nat
    BY <1>1, EntryFields
  <2> HIDE DEF D
  <2>2. \A m \in D : ~MoreSpecific(list[m], list[m])
    BY <2>1 DEF MoreSpecific
  <2>3. \A x, y, z \in D : MoreSpecific(list[x], list[y]) /\ MoreSpecific(list[y], list[z]) =>
          MoreSpecific(list[x], list[z])
    BY <2>1 DEF MoreSpecific
  <2>4. \A m, n \in D : m # n => MoreSpecific(list[m], list[n]) \/ MoreSpecific(list[n], list[m])
    BY DEF D
  <2>5. QED
    BY <1>4, <2>2, <2>3, <2>4 DEF IsLinearOrder
<1>7. /\ from \in [D -> D]
      /\ \A m \in D : \E n \in D : from[n] = m
      /\ \A m, n \in D : m < n => <<from[m], from[n]>> \in R
  <2>1. /\ from \in [1 .. Cardinality(D) -> D]
        /\ \A m \in D : \E n \in 1 .. Cardinality(D) : from[n] = m
        /\ \A m, n \in 1 .. Cardinality(D) : m < n => <<from[m], from[n]>> \in R
    <3> HIDE DEF D
    <3>1. QED
      BY <1>2, <1>6, RankedSorts DEF from
  <2> HIDE DEF D
  <2>2. QED
    BY <1>1, <1>2, <2>1
<1> HIDE DEF D
<1>8. \A k \in D : sorted[k] = list[from[k]] /\ from[k] \in D
  BY <1>5, <1>7
<1>9. DOMAIN sorted = D
  BY <1>5
<1>10. sorted \in Seq(Entries) /\ Len(sorted) = Len(list)
  <2>1. \A k \in D : list[from[k]] \in Entries
    BY <1>1, <1>8
  <2>2. sorted \in [1 .. Len(list) -> Entries]
    BY <1>1, <1>5, <2>1
  <2>3. QED
    BY <1>1, <2>2
<1>11. \A n \in D : \E m \in D : sorted[n] = list[m]
  BY <1>8
<1>12. \A m \in D : \E n \in D : sorted[n] = list[m]
  BY <1>7, <1>8
<1>13. \A m, n \in D : m < n => MoreSpecific(sorted[m], sorted[n])
  <2> SUFFICES ASSUME NEW m \in D, NEW n \in D, m < n PROVE MoreSpecific(sorted[m], sorted[n])
    OBVIOUS
  <2>1. <<from[m], from[n]>> \in R /\ from[m] \in D /\ from[n] \in D
    BY <1>7
  <2>2. MoreSpecific(list[from[m]], list[from[n]])
    BY <1>4, <2>1
  <2>3. QED
    BY <1>8, <2>2
<1>14. QED
  BY <1>9, <1>10, <1>11, <1>12, <1>13 DEF D, sorted

(* What is sorted stays in the list, each entry once.                      *)
LEMMA SortedHolds ==
  ASSUME docs \in Catalogs, NEW list \in Seq(Entries), NEW k \in 0 .. Len(docs), Holds(docs, list, k)
  PROVE  /\ Sorted(list) \in Seq(Entries) /\ Len(Sorted(list)) = Len(list) /\ Holds(docs, Sorted(list), k)
         /\ \A m, n \in DOMAIN Sorted(list) : m < n => MoreSpecific(Sorted(list)[m], Sorted(list)[n])
<1> DEFINE sorted == Sorted(list)
<1>1. /\ sorted \in Seq(Entries) /\ Len(sorted) = Len(list)
      /\ \A n \in DOMAIN sorted : \E m \in DOMAIN list : sorted[n] = list[m]
      /\ \A m \in DOMAIN list : \E n \in DOMAIN sorted : sorted[n] = list[m]
      /\ \A m, n \in DOMAIN sorted : m < n => MoreSpecific(sorted[m], sorted[n])
  BY EntriesCompare, SortedSorts
<1> HIDE DEF sorted
<1>2. \A n \in DOMAIN sorted : \E i \in 1 .. k : Scannable(docs[i]) /\ sorted[n] = Entry(docs[i])
  BY <1>1 DEF Holds
<1>3. \A i \in 1 .. k : Scannable(docs[i]) => \E n \in DOMAIN sorted : sorted[n] = Entry(docs[i])
  <2> SUFFICES ASSUME NEW i \in 1 .. k, Scannable(docs[i])
               PROVE  \E n \in DOMAIN sorted : sorted[n] = Entry(docs[i])
    OBVIOUS
  <2>1. PICK m \in DOMAIN list : list[m] = Entry(docs[i])
    BY DEF Holds
  <2>2. QED
    BY <1>1, <2>1
<1>4. ASSUME NEW m \in DOMAIN sorted, NEW n \in DOMAIN sorted, sorted[m] = sorted[n] PROVE m = n
  <2>1. sorted[m] \in Entries /\ m \in Nat /\ n \in Nat
    <3>1. DOMAIN sorted = 1 .. Len(sorted) /\ Len(sorted) \in Nat
      BY <1>1
    <3>2. m \in 1 .. Len(sorted) /\ n \in 1 .. Len(sorted)
      BY <3>1
    <3>3. sorted[m] \in Entries
      BY <1>1, <3>2
    <3>4. QED
      BY <3>1, <3>2, <3>3
  <2>2. sorted[m].literalLen \in Nat /\ SlugRank[sorted[m].doc.slug] \in Nat
    BY <2>1, EntryFields
  <2>3. ~MoreSpecific(sorted[m], sorted[m])
    BY <2>2 DEF MoreSpecific
  <2>4. ~(m < n) /\ ~(n < m)
    BY <1>1, <1>4, <2>3
  <2>5. QED
    BY <2>1, <2>4
<1>5. Holds(docs, sorted, k)
  BY <1>2, <1>3, <1>4 DEF Holds
<1>6. QED
  BY <1>1, <1>5 DEF sorted

(* At first nothing is indexed.                                            *)
LEMMA InitIndex == Init => IndexInv /\ ShippedInv
<1> SUFFICES ASSUME Init PROVE IndexInv /\ ShippedInv
  OBVIOUS
<1>1. /\ docs \in Catalogs /\ raws \in Batches /\ phase = "index" /\ scored = <<>> /\ sites = <<>> /\ scanner = <<>>
      /\ report = [total |-> 0, lowerFailed |-> 0, compiled |-> 0, catchAlls |-> 0]
  BY DEF Init
<1>2. 0 <= Len(docs)
  BY <1>1, PagesDiffer
<1>3. scored \in Seq(Entries) /\ Len(scored) = 0 /\ DOMAIN scored = {}
  BY <1>1
<1>4. Holds(docs, scored, 0)
  BY <1>3 DEF Holds
<1>5. QED
  BY <1>1, <1>2, <1>3, <1>4 DEF IndexInv, ShippedInv

(* A page that is filed elsewhere leaves the list as it is.                *)
LEMMA HoldsSkips ==
  ASSUME NEW list, NEW k \in Nat, Holds(docs, list, k), ~Scannable(docs[k + 1])
  PROVE  Holds(docs, list, k + 1)
<1>1. \A i \in 1 .. k + 1 : i \in 1 .. k \/ i = k + 1
  OBVIOUS
<1>2. \A i \in 1 .. k : i \in 1 .. k + 1
  OBVIOUS
<1>3. QED
  BY <1>1, <1>2 DEF Holds

(* A page with literal text is added to the list.                          *)
LEMMA HoldsGrows ==
  ASSUME docs \in Catalogs, NEW list \in Seq(Entries), NEW k \in Nat, k < Len(docs),
         Holds(docs, list, k), Scannable(docs[k + 1])
  PROVE  /\ Append(list, Entry(docs[k + 1])) \in Seq(Entries)
         /\ Len(Append(list, Entry(docs[k + 1]))) = Len(list) + 1
         /\ Holds(docs, Append(list, Entry(docs[k + 1])), k + 1)
<1> DEFINE e == Entry(docs[k + 1])
           more == Append(list, e)
           l == Len(list)
<1>1. docs \in Seq(Page0) /\ DOMAIN docs = 1 .. Len(docs) /\ Len(docs) \in Nat /\ l \in Nat
  BY PagesDiffer
<1>2. k + 1 \in 1 .. Len(docs) /\ docs[k + 1] \in Page0
  BY <1>1
<1>3. e \in Entries
  BY <1>2 DEF Entries
<1>4. /\ more \in Seq(Entries) /\ Len(more) = l + 1 /\ DOMAIN more = 1 .. l + 1 /\ more[l + 1] = e
      /\ \A n \in 1 .. l : more[n] = list[n]
      /\ DOMAIN list = 1 .. l
  <2> HIDE DEF e
  <2>1. QED
    BY <1>3
<1> HIDE DEF more, l
<1>5. \A n \in 1 .. l + 1 : n \in 1 .. l \/ n = l + 1
  BY <1>1
<1>6. \A i \in 1 .. k + 1 : i \in 1 .. k \/ i = k + 1
  OBVIOUS
<1>7. \A i \in 1 .. k : i \in 1 .. k + 1
  OBVIOUS
<1>8. ASSUME NEW n \in DOMAIN more
      PROVE  \E i \in 1 .. k + 1 : Scannable(docs[i]) /\ more[n] = Entry(docs[i])
  <2>1. CASE n \in 1 .. l
    <3>1. PICK i \in 1 .. k : Scannable(docs[i]) /\ list[n] = Entry(docs[i])
      BY <1>4, <2>1 DEF Holds
    <3>2. QED
      BY <1>4, <1>7, <2>1, <3>1
  <2>2. CASE n = l + 1
    <3>1. k + 1 \in 1 .. k + 1
      OBVIOUS
    <3>2. QED
      BY <1>4, <2>2, <3>1
  <2>3. QED
    BY <1>4, <1>5, <2>1, <2>2
<1>9. ASSUME NEW i \in 1 .. k + 1, Scannable(docs[i])
      PROVE  \E n \in DOMAIN more : more[n] = Entry(docs[i])
  <2>1. CASE i \in 1 .. k
    <3>1. PICK n \in DOMAIN list : list[n] = Entry(docs[i])
      BY <1>9, <2>1 DEF Holds
    <3>2. n \in 1 .. l /\ n \in 1 .. l + 1
      BY <1>1, <1>4
    <3>3. QED
      BY <1>4, <3>1, <3>2
  <2>2. CASE i = k + 1
    <3>1. l + 1 \in 1 .. l + 1
      BY <1>1
    <3>2. QED
      BY <1>4, <2>2, <3>1
  <2>3. QED
    BY <1>6, <2>1, <2>2
<1>10. ASSUME NEW n \in 1 .. l PROVE list[n] # e
  <2>1. PICK i \in 1 .. k : list[n] = Entry(docs[i])
    BY <1>4 DEF Holds
  <2>2. i \in DOMAIN docs /\ k + 1 \in DOMAIN docs /\ i # k + 1
    BY <1>1, <1>2
  <2>3. docs[i] # docs[k + 1]
    BY <2>2, PagesDiffer
  <2>4. Entry(docs[i]).doc = docs[i] /\ e.doc = docs[k + 1]
    BY DEF Entry
  <2>5. QED
    BY <2>1, <2>3, <2>4
<1>11. ASSUME NEW m \in DOMAIN more, NEW n \in DOMAIN more, more[m] = more[n] PROVE m = n
  <2>1. CASE m \in 1 .. l /\ n \in 1 .. l
    BY <1>4, <1>11, <2>1 DEF Holds
  <2>2. CASE m = l + 1 /\ n \in 1 .. l
    BY <1>4, <1>10, <1>11, <2>2
  <2>3. CASE m \in 1 .. l /\ n = l + 1
    BY <1>4, <1>10, <1>11, <2>3
  <2>4. CASE m = l + 1 /\ n = l + 1
    BY <2>4
  <2>5. QED
    BY <1>4, <1>5, <2>1, <2>2, <2>3, <2>4
<1>12. Holds(docs, more, k + 1)
  BY <1>8, <1>9, <1>11 DEF Holds
<1>13. QED
  BY <1>4, <1>12 DEF more, l

(* The page the loop is at.                                                *)
LEMMA AtPage ==
  ASSUME IndexInv, Indexing
  PROVE  /\ docs \in Seq(Page0) /\ report.total \in Nat /\ report.total + 1 \in 1 .. Len(docs)
         /\ doc \in Page0 /\ doc.message \in Message
         /\ lowered.ok => lowered.literal_len \in Nat
         /\ Len(docs) \in Nat
<1>1. docs \in Seq(Page0) /\ report.total \in Nat /\ report.total < Len(docs) /\ Len(docs) \in Nat
  BY PagesDiffer DEF IndexInv, Indexing
<1>2. report.total + 1 \in 1 .. Len(docs)
  BY <1>1
<1>3. doc \in Page0
  BY <1>1, <1>2 DEF doc
<1>4. doc.message \in Message
  BY <1>3 DEF Page0
<1>5. QED
  BY <1>1, <1>2, <1>3, <1>4, LoweredAssumption DEF lowered

Counters == [total : Nat, lowerFailed : Nat, compiled : Nat, catchAlls : Nat]

(* The counters are numbers.                                               *)
LEMMA ReportFields ==
  ASSUME IndexInv
  PROVE  /\ report \in Counters
         /\ report.total \in Nat /\ report.lowerFailed \in Nat /\ report.compiled \in Nat /\ report.catchAlls \in Nat
  BY DEF IndexInv, Counters

(* What a step of the loop has to show.                                    *)
LEMMA LoopKeeps ==
  ASSUME IndexInv, ShippedInv, Indexing,
         report' \in Counters,
         report'.total = report.total + 1,
         report'.total = report'.lowerFailed + report'.compiled + report'.catchAlls,
         report'.compiled = Len(scored'), scored' \in Seq(Entries),
         Holds(docs, scored', report.total + 1)
  PROVE  IndexInv' /\ ShippedInv'
<1>1. docs' = docs /\ raws' = raws /\ phase' = phase /\ sites' = sites /\ scanner' = scanner /\ phase = "index"
  BY DEF Indexing
<1>2. report.total + 1 <= Len(docs)
  BY AtPage
<1>3. docs \in Catalogs /\ raws \in Batches /\ sites = <<>> /\ scanner = <<>>
  BY <1>1 DEF IndexInv, ShippedInv
<1>4. IndexInv'
  BY <1>1, <1>2, <1>3 DEF IndexInv, Counters
<1>5. ShippedInv'
  BY <1>1, <1>3 DEF ShippedInv
<1>6. QED
  BY <1>4, <1>5

(* No step loses a page of the index, or ships it out of order.            *)
LEMMA IndexStep ==
  ASSUME IndexInv, ShippedInv, [Next]_vars
  PROVE  IndexInv' /\ ShippedInv'
<1>0. /\ report \in Counters /\ report.total = report.lowerFailed + report.compiled + report.catchAlls
      /\ report.total \in Nat /\ report.lowerFailed \in Nat /\ report.compiled \in Nat /\ report.catchAlls \in Nat
      /\ report.compiled = Len(scored) /\ scored \in Seq(Entries) /\ Holds(docs, scored, report.total)
  BY ReportFields DEF IndexInv
<1>0a. report \in Counters
  BY <1>0
<1>1. ASSUME Indexing, ~Scannable(doc), UNCHANGED scored, report' \in Counters,
             report'.total = report.total + 1, report'.compiled = report.compiled,
             report'.lowerFailed + report'.catchAlls = report.lowerFailed + report.catchAlls + 1
      PROVE  IndexInv' /\ ShippedInv'
  <2>1. report'.lowerFailed \in Nat /\ report'.catchAlls \in Nat
    BY <1>1 DEF Counters
  <2>2. report'.total = report'.lowerFailed + report'.compiled + report'.catchAlls
    <3>1. report'.compiled \in Nat
      BY <1>1 DEF Counters
    <3>2. report.total + 1 = report'.lowerFailed + report'.compiled + report'.catchAlls
      <4> DEFINE T == report.total
                 L == report.lowerFailed
                 C == report.compiled
                 A == report.catchAlls
                 M == report'.lowerFailed
                 B == report'.catchAlls
                 D == report'.compiled
      <4>1. T = L + C + A /\ M + B = L + A + 1 /\ D = C
        BY <1>0, <1>1
      <4>2. T \in Nat /\ L \in Nat /\ C \in Nat /\ A \in Nat /\ M \in Nat /\ B \in Nat /\ D \in Nat
        BY <1>0, <2>1, <3>1
      <4> HIDE DEF T, L, C, A, M, B, D
      <4>3. T + 1 = M + D + B
        BY <4>1, <4>2
      <4>4. QED
        BY <4>3 DEF T, M, D, B
    <3>3. QED
      BY <1>1, <3>2
  <2>3. Holds(docs, scored, report.total + 1)
    BY <1>0, <1>1, HoldsSkips DEF doc
  <2>4. QED
    BY <1>0, <1>1, <2>2, <2>3, LoopKeeps
<1>2. CASE HoldCatchAll
  <2>1. Indexing /\ ~Scannable(doc) /\ UNCHANGED scored
        /\ report' = [report EXCEPT !.total = report.total + 1, !.catchAlls = report.catchAlls + 1]
    BY <1>2 DEF HoldCatchAll, Scannable, lowered
  <2>1a. report' = [report EXCEPT !.total = report.total + 1, !.catchAlls = report.catchAlls + 1]
    BY <2>1
  <2>2. report.total + 1 \in Nat /\ report.catchAlls + 1 \in Nat
    BY <1>0
  <2>3. /\ report' \in Counters /\ report'.total = report.total + 1 /\ report'.compiled = report.compiled
        /\ report'.lowerFailed = report.lowerFailed /\ report'.catchAlls = report.catchAlls + 1
    BY <1>0a, <2>1a, <2>2 DEF Counters
  <2>4. report'.lowerFailed + report'.catchAlls = report.lowerFailed + report.catchAlls + 1
    BY <1>0, <2>3
  <2>5. QED
    BY <1>1, <2>1, <2>3, <2>4
<1>3. CASE SkipUnlowered
  <2>1. Indexing /\ ~Scannable(doc) /\ UNCHANGED scored
        /\ report' = [report EXCEPT !.total = report.total + 1, !.lowerFailed = report.lowerFailed + 1]
    BY <1>3 DEF SkipUnlowered, Scannable, lowered
  <2>1a. report' = [report EXCEPT !.total = report.total + 1, !.lowerFailed = report.lowerFailed + 1]
    BY <2>1
  <2>2. report.total + 1 \in Nat /\ report.lowerFailed + 1 \in Nat
    BY <1>0
  <2>3. /\ report' \in Counters /\ report'.total = report.total + 1 /\ report'.compiled = report.compiled
        /\ report'.lowerFailed = report.lowerFailed + 1 /\ report'.catchAlls = report.catchAlls
    BY <1>0a, <2>1a, <2>2 DEF Counters
  <2>4. report'.lowerFailed + report'.catchAlls = report.lowerFailed + report.catchAlls + 1
    BY <1>0, <2>3
  <2>5. QED
    BY <1>1, <2>1, <2>3, <2>4
<1>4. CASE IndexDoc
  <2>1. Indexing /\ Scannable(doc) /\ scored' = Append(scored, Entry(doc))
        /\ report' = [report EXCEPT !.total = report.total + 1, !.compiled = report.compiled + 1]
    BY <1>4 DEF IndexDoc, Scannable, lowered, Entry
  <2>1a. report' = [report EXCEPT !.total = report.total + 1, !.compiled = report.compiled + 1]
    BY <2>1
  <2>2. report.total + 1 \in Nat /\ report.compiled + 1 \in Nat
    BY <1>0
  <2>3. /\ report' \in Counters /\ report'.total = report.total + 1 /\ report'.compiled = report.compiled + 1
        /\ report'.lowerFailed = report.lowerFailed /\ report'.catchAlls = report.catchAlls
    BY <1>0a, <2>1a, <2>2 DEF Counters
  <2>4. report'.total = report'.lowerFailed + report'.compiled + report'.catchAlls
    BY <1>0, <2>3
  <2>5. scored' \in Seq(Entries) /\ Len(scored') = Len(scored) + 1 /\ Holds(docs, scored', report.total + 1)
    BY <1>0, <2>1, HoldsGrows DEF IndexInv, doc, Indexing
  <2>6. report'.compiled = Len(scored')
    BY <1>0, <2>3, <2>5
  <2>7. QED
    BY <2>1, <2>3, <2>4, <2>5, <2>6, LoopKeeps
<1>5. CASE ShipIndex
  <2>1. /\ phase = "index" /\ report.total = Len(docs) /\ sites' = Sorted(scored) /\ phase' = "pack"
        /\ scanner' = [ k \in DOMAIN sites' |-> sites'[k].doc.message ]
        /\ UNCHANGED <<docs, raws, scored, report>>
    BY <1>5 DEF ShipIndex
  <2>2. docs \in Catalogs /\ scored \in Seq(Entries) /\ Holds(docs, scored, Len(docs)) /\ Len(docs) \in 0 .. Len(docs)
    BY <2>1, PagesDiffer DEF IndexInv
  <2>3. /\ Sorted(scored) \in Seq(Entries) /\ Holds(docs, Sorted(scored), Len(docs))
        /\ \A m, n \in DOMAIN Sorted(scored) : m < n => MoreSpecific(Sorted(scored)[m], Sorted(scored)[n])
    BY <2>2, SortedHolds
  <2>3a. Len(Sorted(scored)) <= Len(docs)
    <3>1. Len(Sorted(scored)) = Len(scored)
      BY <2>2, SortedHolds
    <3>2. QED
      BY <1>0, <2>1, <3>1
  <2>4. Shipped'
    BY <2>1, <2>3, <2>3a DEF Shipped
  <2>5. IndexInv'
    BY <2>1 DEF IndexInv
  <2>6. QED
    BY <2>1, <2>4, <2>5 DEF ShippedInv
<1>6. ASSUME UNCHANGED <<docs, raws, scored, report, sites, scanner>>, phase = phase' \/ (phase # "index" /\ phase' # "index")
      PROVE  IndexInv' /\ ShippedInv'
  <2>1. IndexInv'
    BY <1>6 DEF IndexInv
  <2>2. Shipped' = Shipped
    BY <1>6 DEF Shipped
  <2>3. QED
    BY <1>6, <2>1, <2>2 DEF ShippedInv
<1>7. CASE PackLine \/ CrossBoundary \/ ReadCount \/ ReadHit \/ Label \/ UNCHANGED vars
  BY <1>6, <1>7 DEF PackLine, CrossBoundary, ReadCount, ReadHit, Label, Decoding, vars
<1>8. QED
  BY <1>2, <1>3, <1>4, <1>5, <1>7 DEF Next

-----------------------------------------------------------------------------
(* The buffer.                                                             *)

(* Where the elements of two sequences are in their concatenation.         *)
LEMMA Joins ==
  ASSUME NEW X, NEW s \in Seq(X), NEW t \in Seq(X)
  PROVE  /\ s \o t \in Seq(X) /\ Len(s \o t) = Len(s) + Len(t)
         /\ \A x \in 1 .. Len(s) : (s \o t)[x] = s[x]
         /\ \A x \in 1 .. Len(t) : (s \o t)[Len(s) + x] = t[x]
<1>1. Len(s) \in Nat /\ Len(t) \in Nat
  OBVIOUS
<1>2. QED
  BY <1>1

(* The numbers an i32 holds that are not negative.                         *)
Number == 0 .. I32 \div 2 - 1

(* AsI32 leaves alone what an i32 can hold.                                *)
LEMMA NumbersFit ==
  ASSUME NEW x \in Number
  PROVE  AsI32(x) = x
<1>1. PICK half \in Nat : half = I32 \div 2 /\ I32 = half + half
  BY SizeAssumption
<1>2. x \in 0 .. half - 1
  BY <1>1 DEF Number
<1>3. x + half \in Nat /\ x + half < I32 /\ I32 \in Nat /\ I32 > 0
  BY <1>1, <1>2
<1>4. \A a, b \in Nat : b > 0 /\ a < b => a % b = a
  OBVIOUS
<1>5. (x + half) % I32 = x + half
  BY <1>3, <1>4
<1>6. QED
  BY <1>1, <1>2, <1>5 DEF AsI32

Pair == Number \X Number
Packable == [site : Number, literalLen : Number, captures : { c \in Seq(Pair) : Len(c) \in Number }]

(* What is where in a packed hit.                                          *)
LEMMA PackedReads ==
  ASSUME NEW hit \in Packable
  PROVE  /\ Packed(hit) \in Seq(Number) /\ Len(Packed(hit)) = 3 + 2 * Len(hit.captures)
         /\ Packed(hit)[1] = hit.site /\ Packed(hit)[2] = hit.literalLen /\ Packed(hit)[3] = Len(hit.captures)
         /\ \A g \in 1 .. Len(hit.captures) :
              Packed(hit)[2 + 2 * g] = hit.captures[g][1] /\ Packed(hit)[3 + 2 * g] = hit.captures[g][2]
<1> DEFINE caps == hit.captures
           n == Len(caps)
           pairs == [ g \in DOMAIN caps |-> <<AsI32(caps[g][1]), AsI32(caps[g][2])>> ]
           end == [ i \in 0 .. n |-> 2 * i ]
           head == <<AsI32(hit.site), AsI32(hit.literalLen), AsI32(n)>>
           flat == FlattenSeq(pairs)
<1>1. hit.site \in Number /\ hit.literalLen \in Number /\ n \in Number /\ caps \in Seq(Pair) /\ n \in Nat
  BY DEF Packable
<1>2. head = <<hit.site, hit.literalLen, n>>
  <2> HIDE DEF n
  <2>1. QED
    BY <1>1, NumbersFit
<1>3. Packed(hit) = head \o flat
  BY DEF Packed
<1>4. \A g \in 1 .. n : caps[g] \in Pair
  BY <1>1
<1>5. \A g \in 1 .. n : /\ caps[g][1] \in Number /\ caps[g][2] \in Number
                        /\ pairs[g] = <<caps[g][1], caps[g][2]>> /\ pairs[g] \in Seq(Number) /\ Len(pairs[g]) = 2
  <2> TAKE g \in 1 .. n
  <2>1. caps[g][1] \in Number /\ caps[g][2] \in Number
    BY <1>4 DEF Pair
  <2>2. pairs[g] = <<AsI32(caps[g][1]), AsI32(caps[g][2])>>
    BY <1>1
  <2>3. pairs[g] = <<caps[g][1], caps[g][2]>>
    BY <2>1, <2>2, NumbersFit
  <2> HIDE DEF pairs
  <2>4. QED
    BY <2>1, <2>3
<1>6. DOMAIN pairs = 1 .. n
  BY <1>1
<1>7. pairs = [ g \in 1 .. n |-> pairs[g] ]
  BY <1>6
<1> HIDE DEF pairs, caps, head, flat
<1>8. pairs \in Seq(Seq(Number)) /\ Len(pairs) = n
  BY <1>1, <1>5, <1>7
<1>9. Ends(pairs, end)
  <2>1. \A i \in 1 .. n : end[i] = end[i - 1] + Len(pairs[i])
    <3> TAKE i \in 1 .. n
    <3>1. i \in 0 .. n /\ i - 1 \in 0 .. n /\ i \in Nat
      BY <1>1
    <3>2. end[i] = 2 * i /\ end[i - 1] = 2 * (i - 1)
      BY <3>1
    <3>3. 2 * i = 2 * (i - 1) + 2
      BY <3>1
    <3>4. QED
      BY <1>5, <3>2, <3>3
  <2>2. end \in [0 .. n -> Nat] /\ end[0] = 0
    BY <1>1
  <2>3. QED
    BY <1>8, <2>1, <2>2 DEF Ends
<1>10. flat \in Seq(Number) /\ Laid(flat, pairs, end, n)
  BY <1>8, <1>9, FlattenLays DEF flat
<1>11a. Len(flat) = 2 * n
  BY <1>1, <1>10 DEF Laid
<1>11b. ASSUME NEW g \in 1 .. n PROVE flat[2 * g - 1] = caps[g][1] /\ flat[2 * g] = caps[g][2]
  <2>1. g \in Nat /\ g - 1 \in 0 .. n
    BY <1>1
  <2>2. end[g - 1] = 2 * (g - 1) /\ 1 \in 1 .. Len(pairs[g]) /\ 2 \in 1 .. Len(pairs[g])
    <3>1. PICK m : m = g - 1
      OBVIOUS
    <3>2. m \in 0 .. n
      BY <2>1, <3>1
    <3>3. end[m] = 2 * m
      BY <3>2
    <3> HIDE DEF end
    <3>4. Len(pairs[g]) = 2
      BY <1>5
    <3>5. QED
      BY <3>1, <3>3, <3>4
  <2> HIDE DEF end
  <2>3. flat[end[g - 1] + 1] = pairs[g][1] /\ flat[end[g - 1] + 2] = pairs[g][2]
    BY <1>10, <2>2 DEF Laid
  <2>4. end[g - 1] + 1 = 2 * g - 1 /\ end[g - 1] + 2 = 2 * g
    BY <2>1, <2>2
  <2>5. pairs[g][1] = caps[g][1] /\ pairs[g][2] = caps[g][2]
    BY <1>5
  <2>6. QED
    BY <2>3, <2>4, <2>5
<1>11. Len(flat) = 2 * n /\ \A g \in 1 .. n : flat[2 * g - 1] = caps[g][1] /\ flat[2 * g] = caps[g][2]
  BY <1>11a, <1>11b
<1>12. head \in Seq(Number) /\ Len(head) = 3 /\ head[1] = hit.site /\ head[2] = hit.literalLen /\ head[3] = n
  BY <1>1, <1>2
<1> HIDE DEF n
<1>13. /\ head \o flat \in Seq(Number) /\ Len(head \o flat) = 3 + Len(flat)
       /\ \A x \in 1 .. 3 : (head \o flat)[x] = head[x]
       /\ \A x \in 1 .. Len(flat) : (head \o flat)[3 + x] = flat[x]
  <2>0. Len(head) = 3
    BY <1>12
  <2>1. head \in Seq(Number) /\ flat \in Seq(Number)
    BY <1>10, <1>12
  <2>2. head \o flat \in Seq(Number) /\ Len(head \o flat) = Len(head) + Len(flat)
    BY <2>1, Joins
  <2>3. \A x \in 1 .. Len(head) : (head \o flat)[x] = head[x]
    BY <2>1, Joins
  <2>4. \A x \in 1 .. Len(flat) : (head \o flat)[Len(head) + x] = flat[x]
    BY <2>1, Joins
  <2>5. QED
    BY <2>0, <2>1, <2>2, <2>3, <2>4
<1>14. ASSUME NEW g \in 1 .. n
       PROVE  Packed(hit)[2 + 2 * g] = caps[g][1] /\ Packed(hit)[3 + 2 * g] = caps[g][2]
  <2>1. 2 * g - 1 \in 1 .. Len(flat) /\ 2 * g \in 1 .. Len(flat) /\ 3 + (2 * g - 1) = 2 + 2 * g
    BY <1>1, <1>11
  <2>2. (head \o flat)[3 + (2 * g - 1)] = flat[2 * g - 1] /\ (head \o flat)[3 + 2 * g] = flat[2 * g]
    BY <1>13, <2>1
  <2>3. QED
    BY <1>3, <1>11, <2>1, <2>2
<1>15. 1 \in 1 .. 3 /\ 2 \in 1 .. 3 /\ 3 \in 1 .. 3
  OBVIOUS
<1>16. Packed(hit)[1] = hit.site /\ Packed(hit)[2] = hit.literalLen /\ Packed(hit)[3] = n
  BY <1>3, <1>12, <1>13, <1>15
<1>17. Packed(hit) \in Seq(Number) /\ Len(Packed(hit)) = 3 + 2 * n
  BY <1>3, <1>11, <1>13
<1>18. QED
  BY <1>14, <1>16, <1>17 DEF n, caps

(* What a line adds to the buffer, and how long its first h hits are.      *)
Block(hits) == <<AsI32(Len(hits))>> \o FlattenSeq([ h \in DOMAIN hits |-> Packed(hits[h]) ])
Starts(hits) == CHOOSE end : Ends([ h \in DOMAIN hits |-> Packed(hits[h]) ], end)

(* hit lies in text behind place b.                                        *)
LiesAt(text, b, hit) ==
  /\ b + 3 + 2 * Len(hit.captures) <= Len(text)
  /\ text[b + 1] = hit.site /\ text[b + 2] = hit.literalLen /\ text[b + 3] = Len(hit.captures)
  /\ \A g \in 1 .. Len(hit.captures) :
       text[b + 2 + 2 * g] = hit.captures[g][1] /\ text[b + 3 + 2 * g] = hit.captures[g][2]

(* A packed hit that is part of a text lies there.                         *)
LEMMA PackedLies ==
  ASSUME NEW text \in Seq(Number), NEW b \in Nat, NEW hit \in Packable,
         b + Len(Packed(hit)) <= Len(text),
         \A x \in 1 .. Len(Packed(hit)) : text[b + x] = Packed(hit)[x]
  PROVE  LiesAt(text, b, hit)
<1> DEFINE w == Packed(hit)
           n == Len(hit.captures)
<1>1. n \in Nat
  BY DEF Packable
<1>2. /\ Len(w) = 3 + 2 * n /\ w[1] = hit.site /\ w[2] = hit.literalLen /\ w[3] = n
      /\ \A g \in 1 .. n : w[2 + 2 * g] = hit.captures[g][1] /\ w[3 + 2 * g] = hit.captures[g][2]
  BY PackedReads
<1> HIDE DEF w, n
<1>3. \A x \in 1 .. 3 + 2 * n : text[b + x] = w[x]
  BY <1>2 DEF w
<1>4. 1 \in 1 .. 3 + 2 * n /\ 2 \in 1 .. 3 + 2 * n /\ 3 \in 1 .. 3 + 2 * n
  BY <1>1
<1>5. text[b + 1] = w[1] /\ text[b + 2] = w[2] /\ text[b + 3] = w[3]
  BY <1>3, <1>4
<1>6. ASSUME NEW g \in 1 .. n
      PROVE  text[b + 2 + 2 * g] = hit.captures[g][1] /\ text[b + 3 + 2 * g] = hit.captures[g][2]
  <2>1. PICK y, z : y = 2 + 2 * g /\ z = 3 + 2 * g
    OBVIOUS
  <2>2. y \in 1 .. 3 + 2 * n /\ z \in 1 .. 3 + 2 * n /\ b + y = b + 2 + 2 * g /\ b + z = b + 3 + 2 * g
    BY <1>1, <2>1
  <2>3. text[b + y] = w[y] /\ text[b + z] = w[z]
    BY <1>3, <2>2
  <2>4. w[y] = hit.captures[g][1] /\ w[z] = hit.captures[g][2]
    BY <1>2, <2>1
  <2>5. QED
    BY <2>2, <2>3, <2>4
<1>7. b + 3 + 2 * n <= Len(text)
  <2>1. Len(w) = 3 + 2 * n /\ b + Len(w) <= Len(text)
    BY <1>2 DEF w
  <2>2. QED
    BY <1>1, <2>1
<1>8. QED
  BY <1>2, <1>5, <1>6, <1>7 DEF LiesAt, n

(* What is where in the numbers of a line.                                 *)
LEMMA BlockReads ==
  ASSUME NEW hits \in Seq(Packable), Len(hits) \in Number
  PROVE  /\ Block(hits) \in Seq(Number) /\ Block(hits)[1] = Len(hits)
         /\ Len(Block(hits)) = 1 + Starts(hits)[Len(hits)]
         /\ Starts(hits) \in [0 .. Len(hits) -> Nat] /\ Starts(hits)[0] = 0
         /\ \A h \in 1 .. Len(hits) :
              /\ Starts(hits)[h] = Starts(hits)[h - 1] + 3 + 2 * Len(hits[h].captures)
              /\ LiesAt(Block(hits), 1 + Starts(hits)[h - 1], hits[h])
<1> DEFINE n == Len(hits)
           parts == [ h \in DOMAIN hits |-> Packed(hits[h]) ]
           end == Starts(hits)
           flat == FlattenSeq(parts)
           head == <<n>>
           block == head \o flat
<1>1. n \in Nat /\ n \in Number /\ \A h \in 1 .. n : hits[h] \in Packable
  OBVIOUS
<1>2. \A h \in 1 .. n : parts[h] = Packed(hits[h])
  OBVIOUS
<1>3. parts = [ h \in 1 .. n |-> parts[h] ]
  OBVIOUS
<1>4. Block(hits) = block
  BY <1>1, NumbersFit DEF Block
<1> HIDE DEF parts
<1>5. \A h \in 1 .. n : parts[h] \in Seq(Number) /\ Len(parts[h]) = 3 + 2 * Len(hits[h].captures)
  BY <1>1, <1>2, PackedReads
<1>6. parts \in Seq(Seq(Number)) /\ Len(parts) = n
  <2>1. n \in Nat /\ \A h \in 1 .. n : parts[h] \in Seq(Number)
    BY <1>1, <1>5
  <2> HIDE DEF n
  <2>2. QED
    BY <1>3, <2>1
<1>7. Ends(parts, end)
  <2>1. \E e : Ends(parts, e)
    BY <1>6, EndsExist
  <2>2. end = CHOOSE e : Ends(parts, e)
    BY DEF Starts, parts
  <2>3. QED
    BY <2>1, <2>2
<1> HIDE DEF end, flat
<1>8. flat \in Seq(Number) /\ Laid(flat, parts, end, n)
  BY <1>6, <1>7, FlattenLays DEF flat
<1>9. /\ end \in [0 .. n -> Nat] /\ end[0] = 0 /\ \A h \in 1 .. n : end[h] = end[h - 1] + Len(parts[h])
      /\ Len(flat) = end[n] /\ \A h \in 1 .. n : \A x \in 1 .. Len(parts[h]) : flat[end[h - 1] + x] = parts[h][x]
  BY <1>6, <1>7, <1>8 DEF Ends, Laid
<1>10. \A h \in 1 .. n : end[h] <= end[n] /\ end[h - 1] \in Nat /\ end[h] \in Nat
  <2> TAKE h \in 1 .. n
  <2>1. h \in 0 .. n /\ n \in h .. n /\ h - 1 \in 0 .. n
    BY <1>1
  <2>2. end[h] <= end[n]
    BY <1>6, <1>7, <2>1, EndsRise
  <2>3. end[h - 1] \in Nat /\ end[h] \in Nat
    BY <1>9, <2>1
  <2>4. QED
    BY <2>2, <2>3
<1>11. head \in Seq(Number) /\ Len(head) = 1 /\ head[1] = n
  BY <1>1
<1> HIDE DEF head
<1>12. /\ block \in Seq(Number) /\ Len(block) = 1 + Len(flat) /\ block[1] = n
       /\ \A x \in 1 .. Len(flat) : block[1 + x] = flat[x]
  <2>0. head \in Seq(Number)
    BY <1>11
  <2>1. block \in Seq(Number) /\ Len(block) = Len(head) + Len(flat)
    BY <2>0, <1>8, Joins
  <2>2. \A x \in 1 .. Len(head) : block[x] = head[x]
    BY <2>0, <1>8, Joins
  <2>3. \A x \in 1 .. Len(flat) : block[Len(head) + x] = flat[x]
    BY <2>0, <1>8, Joins
  <2>4. QED
    BY <1>11, <2>1, <2>2, <2>3
<1> HIDE DEF block, n
<1>13. ASSUME NEW h \in 1 .. n
       PROVE  LiesAt(block, 1 + end[h - 1], hits[h])
  <2>1. PICK b \in Nat : b = 1 + end[h - 1]
    BY <1>10
  <2>2. PICK l \in Nat : l = Len(parts[h])
    BY <1>5
  <2>3. l = Len(Packed(hits[h])) /\ Packed(hits[h]) = parts[h]
    BY <1>2, <2>2
  <2>4. b + l <= Len(block)
    <3>1. end[h] = end[h - 1] + l /\ end[h] <= end[n] /\ end[n] = Len(flat) /\ Len(block) = 1 + Len(flat)
      BY <1>9, <1>10, <1>12, <2>2
    <3>2. end[h - 1] \in Nat /\ end[n] \in Nat
      BY <1>1, <1>9, <1>10
    <3>3. QED
      BY <2>1, <3>1, <3>2
  <2>5. ASSUME NEW x \in 1 .. l PROVE block[b + x] = parts[h][x]
    <3>1. PICK y : y = end[h - 1] + x
      OBVIOUS
    <3>2. y \in 1 .. Len(flat) /\ 1 + y = b + x
      <4>1. end[h - 1] \in Nat /\ Len(flat) \in Nat /\ Len(block) = 1 + Len(flat) /\ x \in 1 .. l
        BY <1>8, <1>10, <1>12
      <4>2. PICK e \in Nat, c \in Nat : e = end[h - 1] /\ c = Len(flat)
        BY <4>1
      <4>3. b = 1 + e /\ b + l <= 1 + c /\ y = e + x
        BY <2>1, <2>4, <3>1, <4>1, <4>2
      <4>4. y \in 1 .. c /\ 1 + y = b + x
        BY <4>3
      <4>5. QED
        BY <4>2, <4>4
    <3>3. block[1 + y] = flat[y] /\ flat[y] = parts[h][x]
      BY <1>9, <1>12, <2>2, <3>1, <3>2
    <3>4. QED
      BY <3>2, <3>3
  <2>6. LiesAt(block, b, hits[h])
    BY <1>1, <1>12, <2>3, <2>4, <2>5, PackedLies
  <2>7. QED
    BY <2>1, <2>6
<1>14. \A h \in 1 .. n : end[h] = end[h - 1] + 3 + 2 * Len(hits[h].captures)
  <2> TAKE h \in 1 .. n
  <2>1. end[h] = end[h - 1] + Len(parts[h]) /\ Len(parts[h]) = 3 + 2 * Len(hits[h].captures)
    BY <1>5, <1>9
  <2>2. Len(hits[h].captures) \in Nat /\ end[h - 1] \in Nat
    BY <1>1, <1>10 DEF Packable
  <2>3. \A x, c \in Nat : x + (3 + 2 * c) = x + 3 + 2 * c
    OBVIOUS
  <2>4. end[h] = end[h - 1] + (3 + 2 * Len(hits[h].captures))
    BY <2>1, Zenon
  <2>5. QED
    BY <2>2, <2>3, <2>4
<1>15. block \in Seq(Number) /\ block[1] = n /\ Len(block) = 1 + end[n] /\ end \in [0 .. n -> Nat] /\ end[0] = 0
  BY <1>9, <1>12
<1>16. QED
  BY <1>4, <1>13, <1>14, <1>15 DEF n, end

-----------------------------------------------------------------------------
(* What the scanner answers.                                               *)

Low(sc, n) == lower_format[sc[n]]
Found(sc, line) == { n \in DOMAIN sc : Captures(Low(sc, n).toks, line) # NoMatch }
BestFirst(sc, S) ==
  { e \in S \X S :
      \/ Low(sc, e[1]).literal_len > Low(sc, e[2]).literal_len
      \/ Low(sc, e[1]).literal_len = Low(sc, e[2]).literal_len /\ e[1] < e[2] }
HitOf(sc, n, line) ==
  [ site |-> n - 1, literalLen |-> Low(sc, n).literal_len,
    captures |-> Spans(Low(sc, n).toks, Captures(Low(sc, n).toks, line)) ]
Answer(sc, line) ==
  LET order == Ranked(Found(sc, line), BestFirst(sc, Found(sc, line)))
  IN [ h \in DOMAIN order |-> HitOf(sc, order[h], line) ]

(* The scanner answers from its sites alone.                               *)
LEMMA HitsAreAnswer ==
  ASSUME NEW line
  PROVE  Hits(line) = Answer(scanner, line)
  BY DEF Hits, Answer, HitOf, BestFirst, Found, Low

(* The spans of a match are offsets into the line, one for each spec.      *)
LEMMA SpansFit ==
  ASSUME NEW m \in Message, lower_format[m].ok, NEW line \in Seq(Byte), Len(line) \in Number,
         NEW cut, cut = Captures(lower_format[m].toks, line), cut # NoMatch
  PROVE  /\ Spans(lower_format[m].toks, cut) \in { c \in Seq(Pair) : Len(c) \in Number }
         /\ Len(Spans(lower_format[m].toks, cut)) = Cardinality(Specs(lower_format[m].toks))
         /\ \A g \in DOMAIN Spans(lower_format[m].toks, cut) :
              Spans(lower_format[m].toks, cut)[g][1] \in 0 .. Len(line)
              /\ Spans(lower_format[m].toks, cut)[g][2] \in 0 .. Len(line)
<1> DEFINE toks == lower_format[m].toks
           S == Specs(toks)
           at == Ascending(S)
           n == Cardinality(S)
           spans == Spans(toks, cut)
<1>1. toks \in Seq(Token) /\ Len(toks) < I32 \div 2 /\ Len(toks) \in Nat
  BY LoweredAssumption, SizeAssumption DEF IsPattern
<1>2. cut \in Seq(0 .. Len(line)) /\ Len(cut) = Len(toks) + 1
  BY <1>1, CapturesAreParses DEF IsParse
<1>3. S \in SUBSET (1 .. Len(toks))
  <2> HIDE DEF toks
  <2>1. QED
    BY <1>1 DEF Specs
<1> HIDE DEF S, toks
<1>4. n \in Nat /\ n <= Len(toks)
  BY <1>1, <1>3, SmallSets
<1>5. at \in Seq(S) /\ DOMAIN at = 1 .. n
  <2>1. at \in Seq(S)
    BY <1>1, <1>3, AscendingSorts
  <2>2. DOMAIN at = 1 .. n
    BY DEF Ascending, Ranked
  <2>3. QED
    BY <2>1, <2>2
<1>6. spans = [ g \in 1 .. n |-> <<cut[at[g]], cut[at[g] + 1]>> ]
  BY <1>5 DEF Spans, S
<1> HIDE DEF at, spans
<1>7. ASSUME NEW g \in 1 .. n
      PROVE  spans[g] = <<cut[at[g]], cut[at[g] + 1]>> /\ cut[at[g]] \in 0 .. Len(line) /\ cut[at[g] + 1] \in 0 .. Len(line)
  <2>1. spans[g] = <<cut[at[g]], cut[at[g] + 1]>>
    BY <1>6
  <2>2. PICK a \in S : a = at[g]
    <3>1. n = Len(at) /\ g \in 1 .. Len(at)
      <4>1. n = Len(at)
        BY <1>4, <1>5
      <4> HIDE DEF n
      <4>2. QED
        BY <4>1
    <3>2. at[g] \in S
      BY <1>5, <3>1
    <3>3. QED
      BY <3>2
  <2>3. a \in 1 .. Len(cut) /\ a + 1 \in 1 .. Len(cut)
    BY <1>1, <1>2, <1>3
  <2>4. cut[a] \in 0 .. Len(line) /\ cut[a + 1] \in 0 .. Len(line)
    BY <1>2, <2>3
  <2>5. QED
    BY <2>1, <2>2, <2>4
<1>8. \A x \in 0 .. Len(line) : x \in Number
  BY SizeAssumption DEF Number
<1>9. ASSUME NEW g \in 1 .. n
      PROVE  spans[g] \in Pair /\ spans[g][1] \in 0 .. Len(line) /\ spans[g][2] \in 0 .. Len(line)
  <2>1. PICK x \in 0 .. Len(line), y \in 0 .. Len(line) : spans[g] = <<x, y>>
    BY <1>7
  <2>2. x \in Number /\ y \in Number
    BY <1>8
  <2>3. QED
    BY <2>1, <2>2 DEF Pair
<1>10. n \in Number
  BY <1>1, <1>4, SizeAssumption DEF Number
<1>11. spans \in Seq(Pair) /\ Len(spans) = n /\ DOMAIN spans = 1 .. n
  <2>1. DOMAIN spans = 1 .. n /\ spans = [ g \in 1 .. n |-> spans[g] ]
    BY <1>6
  <2>2. \A g \in 1 .. n : spans[g] \in Pair
    BY <1>9
  <2>3. n \in Nat
    BY <1>4
  <2> HIDE DEF n
  <2>4. QED
    BY <2>1, <2>2, <2>3
<1>12. QED
  BY <1>9, <1>10, <1>11 DEF spans, toks, S

(* The scanner's sites are the entries of the index, by number.            *)
LEMMA ScannerSites ==
  ASSUME docs \in Catalogs, Shipped
  PROVE  /\ DOMAIN scanner = 1 .. Len(sites) /\ Len(sites) \in Nat /\ Len(sites) < I32 \div 2
         /\ \A n \in DOMAIN scanner :
              /\ sites[n] \in Entries /\ scanner[n] = sites[n].doc.message /\ scanner[n] \in Message
              /\ lower_format[scanner[n]].ok /\ Low(scanner, n).literal_len \in Number
              /\ Low(scanner, n).literal_len > 0 /\ sites[n].literalLen = Low(scanner, n).literal_len
         /\ \A m, n \in DOMAIN scanner : m < n => Low(scanner, m).literal_len >= Low(scanner, n).literal_len
<1>1. /\ DOMAIN scanner = 1 .. Len(sites) /\ Len(sites) \in Nat
      /\ \A n \in 1 .. Len(sites) : sites[n] \in Entries /\ scanner[n] = sites[n].doc.message
      /\ \A m, n \in 1 .. Len(sites) : m < n => MoreSpecific(sites[m], sites[n])
  BY DEF Shipped
<1>2. Len(sites) < I32 \div 2
  <2>1. Len(docs) < I32 \div 2 /\ Len(docs) \in Nat /\ Len(sites) <= Len(docs) /\ I32 \div 2 \in Int
    BY SizeAssumption, PagesDiffer DEF Shipped
  <2>2. QED
    BY <1>1, <2>1
<1>3. ASSUME NEW n \in 1 .. Len(sites)
      PROVE  /\ scanner[n] \in Message /\ lower_format[scanner[n]].ok /\ Low(scanner, n).literal_len \in Number
             /\ Low(scanner, n).literal_len > 0 /\ sites[n].literalLen = Low(scanner, n).literal_len
  <2>1. PICK e \in Entries : e = sites[n] /\ scanner[n] = e.doc.message
    BY <1>1
  <2>2. e.doc \in Page0 /\ Scannable(e.doc) /\ e.literalLen = lower_format[e.doc.message].literal_len /\ e.literalLen \in Nat
    BY EntryFields
  <2>3. e.doc.message \in Message
    BY <2>2 DEF Page0
  <2>4. lower_format[scanner[n]].ok /\ Low(scanner, n).literal_len > 0 /\ sites[n].literalLen = Low(scanner, n).literal_len
    BY <2>1, <2>2 DEF Scannable, Low
  <2>5. Low(scanner, n).literal_len \in Nat /\ Low(scanner, n).literal_len < I32 \div 2
    BY <2>1, <2>2, <2>3, <2>4, SizeAssumption DEF Low
  <2>6. QED
    BY <2>1, <2>3, <2>4, <2>5, SizeAssumption DEF Number
<1>4. ASSUME NEW m \in 1 .. Len(sites), NEW n \in 1 .. Len(sites), m < n
      PROVE  Low(scanner, m).literal_len >= Low(scanner, n).literal_len
  <2>1. sites[m].literalLen > sites[n].literalLen \/ sites[m].literalLen = sites[n].literalLen
    BY <1>1, <1>4 DEF MoreSpecific
  <2>2. sites[m].literalLen = Low(scanner, m).literal_len /\ sites[n].literalLen = Low(scanner, n).literal_len
    BY <1>3
  <2>3. Low(scanner, m).literal_len \in Nat /\ Low(scanner, n).literal_len \in Nat
    BY <1>3 DEF Number
  <2>4. QED
    BY <2>1, <2>2, <2>3
<1>5. QED
  BY <1>1, <1>2, <1>3, <1>4

(* A line's hits are the sites that match, in the order of the index.      *)
LEMMA AnswerReads ==
  ASSUME docs \in Catalogs, Shipped, NEW line \in Seq(Byte), Len(line) \in Number
  PROVE  /\ Answer(scanner, line) \in Seq(Packable) /\ Len(Answer(scanner, line)) \in Number
         /\ \A h \in 1 .. Len(Answer(scanner, line)) :
              \E n \in Found(scanner, line) : Answer(scanner, line)[h] = HitOf(scanner, n, line)
         /\ \A n \in Found(scanner, line) :
              \E h \in 1 .. Len(Answer(scanner, line)) : Answer(scanner, line)[h] = HitOf(scanner, n, line)
         /\ \A g, h \in 1 .. Len(Answer(scanner, line)) :
              g < h => Answer(scanner, line)[g].site < Answer(scanner, line)[h].site
<1> DEFINE S == Found(scanner, line)
           R == BestFirst(scanner, S)
           order == Ranked(S, R)
           hits == Answer(scanner, line)
           c == Cardinality(S)
           len(n) == Low(scanner, n).literal_len
<1>1. /\ DOMAIN scanner = 1 .. Len(sites) /\ Len(sites) \in Nat /\ Len(sites) < I32 \div 2
      /\ \A n \in 1 .. Len(sites) : scanner[n] \in Message /\ lower_format[scanner[n]].ok /\ len(n) \in Number
      /\ \A m, n \in 1 .. Len(sites) : m < n => len(m) >= len(n)
  BY ScannerSites
<1>2. S \in SUBSET (1 .. Len(sites)) /\ \A n \in S : Captures(Low(scanner, n).toks, line) # NoMatch
  BY <1>1 DEF Found
<1> HIDE DEF S
<1>3. ASSUME NEW n \in S PROVE n \in Nat /\ n \in 1 .. Len(sites) /\ len(n) \in Nat
  <2>1. \A x \in Number : x \in Nat
    BY SizeAssumption DEF Number
  <2>2. n \in 1 .. Len(sites)
    BY <1>2
  <2>3. len(n) \in Number /\ n \in Nat
    BY <1>1, <2>2
  <2> HIDE DEF len
  <2>4. QED
    BY <2>1, <2>2, <2>3
<1>4. IsFiniteSet(S) /\ c \in Nat /\ c <= Len(sites)
  BY <1>1, <1>2, SmallSets
<1>5. ASSUME NEW m \in S, NEW n \in S PROVE <<m, n>> \in R <=> m < n
  <2>1. <<m, n>> \in R <=> len(m) > len(n) \/ (len(m) = len(n) /\ m < n)
    BY DEF BestFirst
  <2>2. m < n => len(m) >= len(n)
    BY <1>1, <1>3
  <2>3. n < m => len(n) >= len(m)
    BY <1>1, <1>3
  <2>4. m \in Nat /\ n \in Nat /\ len(m) \in Nat /\ len(n) \in Nat
    BY <1>3
  <2> HIDE DEF R, len
  <2>5. QED
    BY <2>1, <2>2, <2>3, <2>4
<1>6. hits = [ h \in DOMAIN order |-> HitOf(scanner, order[h], line) ]
  BY DEF Answer, S
<1> HIDE DEF R, hits
<1>7. IsLinearOrder(S, R)
  BY <1>3, <1>5 DEF IsLinearOrder
<1>8. /\ order \in [1 .. c -> S]
      /\ \A n \in S : \E k \in 1 .. c : order[k] = n
      /\ \A j, k \in 1 .. c : j < k => <<order[j], order[k]>> \in R
  BY <1>4, <1>7, RankedSorts
<1> HIDE DEF order
<1>9. DOMAIN order = 1 .. c /\ \A h \in 1 .. c : order[h] \in S /\ hits[h] = HitOf(scanner, order[h], line)
  BY <1>6, <1>8
<1>10. ASSUME NEW n \in S
       PROVE  HitOf(scanner, n, line) \in Packable /\ HitOf(scanner, n, line).site = n - 1
  <2>1. /\ scanner[n] \in Message /\ lower_format[scanner[n]].ok /\ len(n) \in Number
        /\ Captures(lower_format[scanner[n]].toks, line) # NoMatch
    BY <1>1, <1>2, <1>3 DEF Low
  <2> DEFINE spans == Spans(Low(scanner, n).toks, Captures(Low(scanner, n).toks, line))
  <2>2. spans \in { s \in Seq(Pair) : Len(s) \in Number }
    BY <2>1, SpansFit DEF Low
  <2>3. n - 1 \in Number
    BY <1>1, <1>3, SizeAssumption DEF Number
  <2>4. HitOf(scanner, n, line) = [site |-> n - 1, literalLen |-> len(n), captures |-> spans]
    BY DEF HitOf
  <2> HIDE DEF spans, len
  <2>5. QED
    BY <2>1, <2>2, <2>3, <2>4 DEF Packable
<1>11. hits \in Seq(Packable) /\ Len(hits) = c /\ DOMAIN hits = 1 .. c
  <2>1. DOMAIN hits = 1 .. c /\ hits = [ h \in 1 .. c |-> hits[h] ]
    BY <1>6, <1>9
  <2>2. \A h \in 1 .. c : hits[h] \in Packable
    BY <1>9, <1>10
  <2>3. c \in Nat
    BY <1>4
  <2> HIDE DEF c
  <2>4. QED
    BY <2>1, <2>2, <2>3
<1>12. Len(hits) \in Number
  BY <1>1, <1>4, <1>11, SizeAssumption DEF Number
<1>13. \A h \in 1 .. c : \E n \in S : hits[h] = HitOf(scanner, n, line)
  BY <1>9
<1>14. \A n \in S : \E h \in 1 .. c : hits[h] = HitOf(scanner, n, line)
  BY <1>8, <1>9
<1>15. ASSUME NEW g \in 1 .. c, NEW h \in 1 .. c, g < h PROVE hits[g].site < hits[h].site
  <2>1. <<order[g], order[h]>> \in R /\ order[g] \in S /\ order[h] \in S
    BY <1>8, <1>9, <1>15
  <2>2. order[g] < order[h]
    BY <1>5, <2>1
  <2>3. hits[g].site = order[g] - 1 /\ hits[h].site = order[h] - 1
    BY <1>9, <1>10, <2>1
  <2>4. order[g] \in Nat /\ order[h] \in Nat
    BY <1>3, <2>1
  <2>5. QED
    BY <2>2, <2>3, <2>4
<1>16. QED
  BY <1>11, <1>12, <1>13, <1>14, <1>15 DEF hits, S

-----------------------------------------------------------------------------
(* Writing and reading.                                                    *)

Core(rs, k) == stripLogPrefix(rs[k].text).core
Said(sc, rs, k) == Answer(sc, Core(rs, k))

(* The core of a line is a text that an i32 can index.                     *)
LEMMA CoresAreLines ==
  ASSUME raws \in Batches, NEW k \in 1 .. Len(raws)
  PROVE  /\ cores[k] = Core(raws, k) /\ Core(raws, k) \in Seq(Byte) /\ Len(Core(raws, k)) \in Number
         /\ raws[k].text \in Seq(Byte) /\ k \in DOMAIN raws
<1>1. raws \in Seq([text : Seq(Byte), message : Seq(Byte)])
  BY TextAssumption
<1>2. k \in DOMAIN raws /\ raws[k] \in [text : Seq(Byte), message : Seq(Byte)]
  <2>1. \A X : raws \in Seq(X) => DOMAIN raws = 1 .. Len(raws) /\ raws[k] \in X
    OBVIOUS
  <2>2. QED
    BY <1>1, <2>1
<1>3. raws[k].text \in Seq(Byte)
  BY <1>2
<1>4. Core(raws, k) \in Seq(Byte) /\ Len(Core(raws, k)) <= Len(raws[k].text)
  BY <1>3, CoreIsPart DEF Core
<1>5. Len(raws[k].text) < I32 \div 2
  BY <1>2, SizeAssumption
<1>6. Len(Core(raws, k)) \in Number
  <2>1. Len(Core(raws, k)) \in Nat /\ Len(raws[k].text) \in Nat
    BY <1>3, <1>4
  <2>2. QED
    BY <1>4, <1>5, <2>1, SizeAssumption DEF Number
<1>7. cores[k] = Core(raws, k)
  BY <1>2 DEF cores, Core
<1>8. QED
  BY <1>2, <1>3, <1>4, <1>6, <1>7

(* block is what lies in text from one mark to the next.                   *)
Sits(text, b, block) == \A x \in 1 .. Len(block) : text[b + x] = block[x]
Placed(text, a, b, block) ==
  /\ a \in Nat /\ block \in Seq(Number) /\ b = a + Len(block) /\ b <= Len(text) /\ Sits(text, a, block)

(* What was placed in the buffer stays there when more is written.         *)
LEMMA PlacedLater ==
  ASSUME NEW text \in Seq(Number), NEW more \in Seq(Number), NEW a, NEW b, NEW block,
         Placed(text, a, b, block)
  PROVE  Placed(text \o more, a, b, block)
<1>1. a \in Nat /\ block \in Seq(Number) /\ b = a + Len(block) /\ b <= Len(text)
  BY DEF Placed
<1>2. Len(text \o more) = Len(text) + Len(more)
  BY Joins
<1>3. \A x \in 1 .. Len(text) : (text \o more)[x] = text[x]
  BY Joins
<1>4. ASSUME NEW x \in 1 .. Len(block) PROVE (text \o more)[a + x] = block[x]
  <2>1. PICK y : y = a + x
    OBVIOUS
  <2>2. y \in 1 .. Len(text)
    <3>1. Len(block) \in Nat /\ Len(text) \in Nat
      BY <1>1
    <3>2. QED
      BY <1>1, <2>1, <3>1
  <2>3. text[a + x] = block[x]
    BY DEF Placed, Sits
  <2>4. QED
    BY <1>3, <2>1, <2>2, <2>3
<1>5. b <= Len(text \o more)
  <2>1. Len(block) \in Nat /\ Len(text) \in Nat /\ Len(more) \in Nat
    BY <1>1
  <2>2. QED
    BY <1>1, <1>2, <2>1
<1> DEFINE all == text \o more
<1> HIDE DEF all
<1>6. Sits(all, a, block)
  BY <1>4 DEF Sits, all
<1>7. b <= Len(all)
  BY <1>5 DEF all
<1>8. Placed(all, a, b, block)
  BY <1>1, <1>6, <1>7 DEF Placed
<1>9. QED
  BY <1>8 DEF all

(* What is written is placed at the end.                                   *)
LEMMA PlacedLast ==
  ASSUME NEW text \in Seq(Number), NEW block \in Seq(Number)
  PROVE  Placed(text \o block, Len(text), Len(text \o block), block)
<1>1. Len(text \o block) = Len(text) + Len(block)
  BY Joins
<1>2. \A x \in 1 .. Len(block) : (text \o block)[Len(text) + x] = block[x]
  BY Joins
<1>3. Len(text) \in Nat /\ Len(block) \in Nat
  OBVIOUS
<1> DEFINE all == text \o block
<1> HIDE DEF all
<1>4. Sits(all, Len(text), block) /\ Len(all) = Len(text) + Len(block)
  BY <1>1, <1>2 DEF Sits, all
<1>5. Placed(all, Len(text), Len(all), block)
  BY <1>3, <1>4 DEF Placed
<1>6. QED
  BY <1>5 DEF all

(* text holds what the lines before the last mark add, from mark to mark.  *)
Written(text, m, sc, rs) ==
  /\ text \in Seq(Number) /\ m \in Seq(Nat) /\ Len(m) \in 1 .. Len(rs) + 1
  /\ m[1] = 0 /\ m[Len(m)] = Len(text)
  /\ \A k \in 1 .. Len(m) - 1 : Placed(text, m[k], m[k + 1], Block(Said(sc, rs, k)))

BufferInv ==
  /\ phase \in {"index", "pack", "decode", "done"}
  /\ Written(buf, marks, scanner, raws)
  /\ phase = "index" => Len(marks) = 1
  /\ phase \in {"decode", "done"} => Len(marks) = Len(raws) + 1

(* One more line is written behind the last mark.                          *)
LEMMA WrittenGrows ==
  ASSUME NEW text, NEW m, NEW sc, NEW rs, Len(rs) \in Nat,
         Written(text, m, sc, rs), Len(m) <= Len(rs),
         NEW block, block = Block(Said(sc, rs, Len(m))), block \in Seq(Number)
  PROVE  Written(text \o block, Append(m, Len(text \o block)), sc, rs)
<1> DEFINE all == text \o block
           more == Append(m, Len(all))
           n == Len(m)
<1>1. /\ text \in Seq(Number) /\ m \in Seq(Nat) /\ n \in Nat /\ n >= 1 /\ m[1] = 0 /\ m[n] = Len(text)
      /\ Len(text) \in Nat /\ n <= Len(rs)
  BY DEF Written
<1>2. all \in Seq(Number) /\ Len(all) \in Nat
  BY <1>1, Joins
<1>3. Placed(all, Len(text), Len(all), block)
  BY <1>1, PlacedLast
<1> HIDE DEF all
<1>4. /\ more \in Seq(Nat) /\ Len(more) = n + 1 /\ more[n + 1] = Len(all)
      /\ \A k \in 1 .. n : more[k] = m[k]
  BY <1>1, <1>2
<1> HIDE DEF more
<1>5. ASSUME NEW k \in 1 .. n
      PROVE  Placed(all, more[k], more[k + 1], Block(Said(sc, rs, k)))
  <2>1. CASE k = n
    <3>1. more[k] = Len(text) /\ more[k + 1] = Len(all) /\ Block(Said(sc, rs, k)) = block
      BY <1>1, <1>4, <2>1
    <3>2. QED
      BY <1>3, <3>1
  <2>2. CASE k \in 1 .. n - 1
    <3>1. Placed(text, m[k], m[k + 1], Block(Said(sc, rs, k)))
      BY <2>2 DEF Written
    <3>2. PICK j : j = k + 1
      OBVIOUS
    <3>3. j \in 1 .. n
      BY <1>1, <2>2, <3>2
    <3>4. more[k] = m[k] /\ more[j] = m[j]
      BY <1>4, <3>3
    <3>5. Placed(all, m[k], m[k + 1], Block(Said(sc, rs, k)))
      BY <1>1, <3>1, PlacedLater DEF all
    <3>6. QED
      BY <3>2, <3>4, <3>5
  <2>3. k = n \/ k \in 1 .. n - 1
    BY <1>1
  <2>4. QED
    BY <2>1, <2>2, <2>3
<1>6. more[1] = 0 /\ Len(more) \in 1 .. Len(rs) + 1 /\ more[Len(more)] = Len(all)
  BY <1>1, <1>4
<1>7. \A k \in 1 .. Len(more) - 1 : k \in 1 .. n
  BY <1>1, <1>4
<1>8. \A k \in 1 .. Len(more) - 1 : Placed(all, more[k], more[k + 1], Block(Said(sc, rs, k)))
  BY <1>5, <1>7
<1>9. Written(all, more, sc, rs)
  BY <1>2, <1>4, <1>6, <1>8 DEF Written
<1>10. QED
  BY <1>9 DEF all, more

ReadBack(hit, line) ==
  [ site |-> hit.site, literalLen |-> hit.literalLen,
    captures |-> [ c \in 1 .. Len(hit.captures) |->
                    CaptureText(line, hit.captures[c][1], hit.captures[c][2]) ] ]
Reading == { ReadBack(hit, line) : hit \in Packable, line \in Seq(Byte) }

(* list is the first n hits of line j, read back.                          *)
IsRead(list, sc, rs, j, n) ==
  /\ list \in Seq(Reading) /\ Len(list) = n
  /\ \A h \in 1 .. n : list[h] = ReadBack(Said(sc, rs, j)[h], Core(rs, j))

(* The cursor is behind the hits of line j that were read.                 *)
CursorAt(q, l, m, sc, rs, j) ==
  /\ l \in 0 .. Len(Said(sc, rs, j))
  /\ q = m[j] + 2 + Starts(Said(sc, rs, j))[Len(Said(sc, rs, j)) - l]

ReaderInv ==
  /\ decoded \in Seq(Seq(Reading)) /\ Len(decoded) <= Len(raws) /\ left \in Nat
  /\ phase \in {"index", "pack"} => decoded = <<>>
  /\ phase = "done" => left = 0 /\ Len(decoded) = Len(raws)
  /\ Len(decoded) = 0 => p = 1 /\ left = 0
  /\ Len(decoded) # 0 => CursorAt(p, left, marks, scanner, raws, Len(decoded))
  /\ \A j \in 1 .. Len(decoded) :
       IsRead(decoded[j], scanner, raws, j,
              Len(Said(scanner, raws, j)) - (IF j = Len(decoded) THEN left ELSE 0))

(* The answer for a line can be packed.                                    *)
LEMMA LineSaid ==
  ASSUME docs \in Catalogs, raws \in Batches, Shipped, NEW k \in 1 .. Len(raws)
  PROVE  /\ Said(scanner, raws, k) \in Seq(Packable) /\ Len(Said(scanner, raws, k)) \in Number
         /\ Len(Said(scanner, raws, k)) \in Nat
<1>1. Core(raws, k) \in Seq(Byte) /\ Len(Core(raws, k)) \in Number
  BY CoresAreLines
<1>2. Said(scanner, raws, k) \in Seq(Packable) /\ Len(Said(scanner, raws, k)) \in Number
  BY <1>1, AnswerReads DEF Said
<1>3. QED
  BY <1>2

(* Where a hit lies the reader reads that hit, and goes past it.           *)
LEMMA HitReads ==
  ASSUME buf \in Seq(Number), NEW b \in Nat, NEW hit \in Packable, LiesAt(buf, b, hit), p = b + 1, NEW line
  PROVE  /\ [ site |-> arr(p), literalLen |-> arr(p + 1),
              captures |-> [ c \in 1 .. arr(p + 2) |->
                             CaptureText(line, arr(p + 1 + 2 * c), arr(p + 2 + 2 * c)) ] ]
            = ReadBack(hit, line)
         /\ arr(p + 2) = Len(hit.captures) /\ p + 3 + 2 * arr(p + 2) = b + 4 + 2 * Len(hit.captures)
<1> DEFINE n == Len(hit.captures)
<1>1. n \in Nat
  BY DEF Packable
<1> HIDE DEF n
<1>2. /\ b + 3 + 2 * n <= Len(buf) /\ Len(buf) \in Nat
      /\ buf[b + 1] = hit.site /\ buf[b + 2] = hit.literalLen /\ buf[b + 3] = n
      /\ \A g \in 1 .. n : buf[b + 2 + 2 * g] = hit.captures[g][1] /\ buf[b + 3 + 2 * g] = hit.captures[g][2]
  <2>1. Len(buf) \in Nat
    OBVIOUS
  <2>2. LiesAt(buf, b, hit)
    OBVIOUS
  <2>3. /\ b + 3 + 2 * n <= Len(buf)
        /\ buf[b + 1] = hit.site /\ buf[b + 2] = hit.literalLen /\ buf[b + 3] = n
        /\ \A g \in 1 .. n : buf[b + 2 + 2 * g] = hit.captures[g][1] /\ buf[b + 3 + 2 * g] = hit.captures[g][2]
    BY <2>2, Zenon DEF LiesAt, n
  <2>4. QED
    BY <2>1, <2>3, Zenon
<1>3. \A x \in 1 .. Len(buf) : arr(x) = buf[x]
  BY DEF arr
<1>4. p \in 1 .. Len(buf) /\ p + 1 \in 1 .. Len(buf) /\ p + 2 \in 1 .. Len(buf) /\ p = b + 1 /\ p + 1 = b + 2 /\ p + 2 = b + 3
  BY <1>1, <1>2
<1>5. arr(p) = hit.site /\ arr(p + 1) = hit.literalLen /\ arr(p + 2) = n
  <2>1. arr(p) = buf[p] /\ arr(p + 1) = buf[p + 1] /\ arr(p + 2) = buf[p + 2]
    BY <1>3, <1>4
  <2>2. QED
    BY <1>2, <1>4, <2>1
<1>6. ASSUME NEW c \in 1 .. n
      PROVE  arr(p + 1 + 2 * c) = hit.captures[c][1] /\ arr(p + 2 + 2 * c) = hit.captures[c][2]
  <2>1. PICK x, y : x = p + 1 + 2 * c /\ y = p + 2 + 2 * c
    OBVIOUS
  <2>2. x \in 1 .. Len(buf) /\ y \in 1 .. Len(buf) /\ x = b + 2 + 2 * c /\ y = b + 3 + 2 * c
    BY <1>1, <1>2, <2>1
  <2>3. arr(x) = buf[x] /\ arr(y) = buf[y]
    BY <1>3, <2>2
  <2>4. buf[x] = hit.captures[c][1] /\ buf[y] = hit.captures[c][2]
    BY <1>2, <2>2
  <2>5. QED
    BY <2>1, <2>3, <2>4
<1>7. [ c \in 1 .. arr(p + 2) |-> CaptureText(line, arr(p + 1 + 2 * c), arr(p + 2 + 2 * c)) ]
      = [ c \in 1 .. n |-> CaptureText(line, hit.captures[c][1], hit.captures[c][2]) ]
  BY <1>5, <1>6
<1>8. ReadBack(hit, line) =
        [ site |-> hit.site, literalLen |-> hit.literalLen,
          captures |-> [ c \in 1 .. n |-> CaptureText(line, hit.captures[c][1], hit.captures[c][2]) ] ]
  BY DEF ReadBack, n
<1>9. p + 3 + 2 * arr(p + 2) = b + 4 + 2 * n
  BY <1>1, <1>5
<1>10. QED
  BY <1>5, <1>7, <1>8, <1>9 DEF n

(* Between two lines the reader is at the mark.                            *)
LEMMA CursorAtMark ==
  ASSUME docs \in Catalogs, raws \in Batches, Shipped, BufferInv, ReaderInv, left = 0,
         phase \in {"decode", "done"}
  PROVE  /\ p = marks[Len(decoded) + 1] + 1
         /\ Len(decoded) \in Nat /\ marks[Len(decoded) + 1] \in Nat /\ Len(raws) \in Nat
<1>1. Len(decoded) \in Nat /\ marks \in Seq(Nat) /\ Len(marks) = Len(raws) + 1 /\ marks[1] = 0
  BY DEF BufferInv, ReaderInv, Written
<1>2. Len(raws) \in Nat
  <2>1. raws \in Seq([text : Seq(Byte), message : Seq(Byte)])
    BY TextAssumption
  <2>2. QED
    BY <2>1
<1>3. Len(decoded) + 1 \in 1 .. Len(marks)
  BY <1>1, <1>2 DEF ReaderInv
<1>4. marks[Len(decoded) + 1] \in Nat
  <2>1. PICK i : i = Len(decoded) + 1
    OBVIOUS
  <2>2. marks[i] \in Nat
    BY <1>1, <1>3, <2>1
  <2>3. QED
    BY <2>1, <2>2
<1>5. CASE Len(decoded) = 0
  BY <1>1, <1>5 DEF ReaderInv
<1>6. CASE Len(decoded) # 0
  <2> DEFINE k == Len(decoded)
             hits == Said(scanner, raws, k)
  <2>1. k \in 1 .. Len(raws) /\ k \in 1 .. Len(marks) - 1
    BY <1>1, <1>2, <1>6 DEF ReaderInv
  <2> HIDE DEF k
  <2>2. hits \in Seq(Packable) /\ Len(hits) \in Number /\ Len(hits) \in Nat
    BY <2>1, LineSaid
  <2>3. p = marks[k] + 2 + Starts(hits)[Len(hits) - 0]
    BY <1>6 DEF ReaderInv, CursorAt, k
  <2>4. Placed(buf, marks[k], marks[k + 1], Block(hits))
    BY <2>1 DEF BufferInv, Written
  <2> HIDE DEF hits
  <2>5. marks[k + 1] = marks[k] + Len(Block(hits)) /\ marks[k] \in Nat
    BY <2>4 DEF Placed
  <2>6. Len(Block(hits)) = 1 + Starts(hits)[Len(hits)] /\ Starts(hits) \in [0 .. Len(hits) -> Nat]
    BY <2>2, BlockReads
  <2>7. Len(hits) - 0 = Len(hits) /\ Starts(hits)[Len(hits)] \in Nat
    BY <2>2, <2>6
  <2>8. p = marks[k + 1] + 1
    <3>1. PICK a \in Nat, c \in Nat : a = marks[k] /\ c = Starts(hits)[Len(hits)]
      BY <2>5, <2>7
    <3>2. p = a + 2 + c /\ marks[k + 1] = a + (1 + c)
      BY <2>3, <2>5, <2>6, <2>7, <3>1
    <3>3. QED
      BY <3>2
  <2>9. QED
    BY <1>1, <1>2, <1>4, <2>8 DEF k
<1>7. QED
  BY <1>5, <1>6

(* Concatenation is associative.                                           *)
LEMMA JoinsThree ==
  ASSUME NEW X, NEW s \in Seq(X), NEW t \in Seq(X), NEW u \in Seq(X)
  PROVE  (s \o t) \o u = s \o (t \o u)
  OBVIOUS

(* A function on 1 .. n is a sequence.                                     *)
LEMMA MadeOf ==
  ASSUME NEW X, NEW n \in Nat, NEW f, f = [ i \in 1 .. n |-> f[i] ], \A i \in 1 .. n : f[i] \in X
  PROVE  f \in Seq(X) /\ Len(f) = n
  OBVIOUS

(* A batch is a finite list of lines.                                      *)
LEMMA BatchIsFinite ==
  ASSUME raws \in Batches
  PROVE  Len(raws) \in Nat /\ DOMAIN raws = 1 .. Len(raws)
<1>1. raws \in Seq([text : Seq(Byte), message : Seq(Byte)])
  BY TextAssumption
<1>2. QED
  BY <1>1

(* PackLine writes the block of the line's answer.                         *)
LEMMA BlockPacked ==
  ASSUME docs \in Catalogs, raws \in Batches, Shipped, NEW k \in 1 .. Len(raws),
         NEW text \in Seq(Number)
  PROVE  LET hits == Hits(cores[k])
         IN /\ text \o <<AsI32(Len(hits))>> \o FlattenSeq([ h \in DOMAIN hits |-> Packed(hits[h]) ])
               = text \o Block(Said(scanner, raws, k))
            /\ Block(Said(scanner, raws, k)) \in Seq(Number)
<1> DEFINE hits == Hits(cores[k])
           head == <<AsI32(Len(hits))>>
           parts == [ h \in DOMAIN hits |-> Packed(hits[h]) ]
           flat == FlattenSeq(parts)
<1>1. hits = Said(scanner, raws, k)
  BY CoresAreLines, HitsAreAnswer DEF Said
<1>2. hits \in Seq(Packable) /\ Len(hits) \in Number
  BY <1>1, LineSaid
<1> HIDE DEF hits
<1>3. Block(hits) \in Seq(Number) /\ Block(hits) = head \o flat
  BY <1>2, BlockReads DEF Block
<1>4. head \in Seq(Number)
  BY <1>2, NumbersFit
<1>5. flat \in Seq(Number)
  <2>1. \A h \in 1 .. Len(hits) : Packed(hits[h]) \in Seq(Number)
    BY <1>2, PackedReads
  <2>2. parts \in Seq(Seq(Number))
    <3>1. PICK n \in Nat : n = Len(hits) /\ DOMAIN hits = 1 .. n
      BY <1>2
    <3>2. parts = [ h \in 1 .. n |-> parts[h] ] /\ \A h \in 1 .. n : parts[h] = Packed(hits[h])
      BY <3>1
    <3>3. \A h \in 1 .. n : parts[h] \in Seq(Number)
      BY <2>1, <3>1, <3>2
    <3> HIDE DEF parts
    <3>4. QED
      BY <3>2, <3>3, MadeOf
  <2> HIDE DEF parts
  <2>3. PICK end : Ends(parts, end)
    BY <2>2, EndsExist
  <2>4. QED
    BY <2>2, <2>3, FlattenLays
<1> HIDE DEF head, flat
<1>6. (text \o head) \o flat = text \o Block(hits)
  BY <1>3, <1>4, <1>5, JoinsThree
<1>7. /\ (text \o head) \o flat = text \o Block(Said(scanner, raws, k))
      /\ Block(Said(scanner, raws, k)) \in Seq(Number)
  BY <1>1, <1>3, <1>6
<1> USE DEF hits, head, flat
<1>8. QED
  BY <1>7, Zenon

(* While no line is written the scanner may change.                        *)
LEMMA NothingWritten ==
  ASSUME NEW text, NEW m, NEW sc, NEW rs, NEW other, Written(text, m, sc, rs), Len(m) = 1
  PROVE  Written(text, m, other, rs)
<1>1. \A k \in 1 .. Len(m) - 1 : FALSE
  OBVIOUS
<1>2. QED
  BY <1>1 DEF Written

(* At first the buffer is empty.                                           *)
LEMMA BufferInit == Init => BufferInv
<1> SUFFICES ASSUME Init PROVE BufferInv
  OBVIOUS
<1>1. raws \in Batches /\ phase = "index" /\ buf = <<>> /\ marks = <<0>>
  BY DEF Init
<1>2. Len(raws) \in Nat
  BY <1>1, BatchIsFinite
<1>3. buf \in Seq(Number) /\ Len(buf) = 0 /\ marks \in Seq(Nat) /\ Len(marks) = 1 /\ marks[1] = 0
  BY <1>1
<1>4. \A k \in 1 .. Len(marks) - 1 : FALSE
  BY <1>3
<1>5. Written(buf, marks, scanner, raws)
  BY <1>2, <1>3, <1>4 DEF Written
<1>6. QED
  BY <1>1, <1>3, <1>5 DEF BufferInv

(* Every step keeps the buffer in blocks.                                  *)
LEMMA BufferStep ==
  ASSUME IndexInv, ShippedInv, BufferInv, [Next]_vars
  PROVE  BufferInv'
<1>1. ASSUME UNCHANGED <<raws, phase, scanner, buf, marks>> PROVE BufferInv'
  BY <1>1 DEF BufferInv
<1>2. CASE HoldCatchAll \/ SkipUnlowered \/ IndexDoc
  BY <1>1, <1>2 DEF HoldCatchAll, SkipUnlowered, IndexDoc, Indexing
<1>3. CASE ReadCount \/ ReadHit \/ UNCHANGED vars
  BY <1>1, <1>3 DEF ReadCount, ReadHit, Decoding, vars
<1>4. CASE ShipIndex
  <2>1. phase = "index" /\ phase' = "pack" /\ UNCHANGED <<raws, buf, marks>>
    BY <1>4 DEF ShipIndex
  <2>2. Len(marks) = 1 /\ Written(buf, marks, scanner, raws)
    BY <2>1 DEF BufferInv
  <2>3. Written(buf, marks, scanner', raws)
    BY <2>2, NothingWritten
  <2>4. QED
    BY <2>1, <2>3 DEF BufferInv
<1>5. CASE PackLine
  <2>1. /\ phase = "pack" /\ Len(marks) <= Len(raws) /\ UNCHANGED <<raws, phase, scanner>>
        /\ marks' = Append(marks, Len(buf'))
    BY <1>5 DEF PackLine
  <2>2. docs \in Catalogs /\ raws \in Batches /\ Shipped
    BY <2>1 DEF IndexInv, ShippedInv
  <2>3. Written(buf, marks, scanner, raws)
    BY DEF BufferInv
  <2>4. Len(raws) \in Nat /\ Len(marks) \in 1 .. Len(raws) /\ buf \in Seq(Number)
    BY <2>1, <2>2, <2>3, BatchIsFinite DEF Written
  <2> DEFINE block == Block(Said(scanner, raws, Len(marks)))
  <2>5. buf' = buf \o block /\ block \in Seq(Number)
    <3>1. LET hits == Hits(cores[Len(marks)])
          IN buf' = buf \o <<AsI32(Len(hits))>> \o FlattenSeq([ h \in DOMAIN hits |-> Packed(hits[h]) ])
      BY <1>5 DEF PackLine
    <3>2. PICK k \in 1 .. Len(raws) : k = Len(marks)
      BY <2>4
    <3>3. LET hits == Hits(cores[k])
          IN /\ buf \o <<AsI32(Len(hits))>> \o FlattenSeq([ h \in DOMAIN hits |-> Packed(hits[h]) ])
                = buf \o Block(Said(scanner, raws, k))
             /\ Block(Said(scanner, raws, k)) \in Seq(Number)
      BY <2>2, <2>4, BlockPacked
    <3>4. QED
      BY <3>1, <3>2, <3>3, Zenon
  <2> HIDE DEF block
  <2>6. Written(buf \o block, Append(marks, Len(buf \o block)), scanner, raws)
    BY <2>3, <2>4, <2>5, WrittenGrows DEF block
  <2>7. Written(buf', marks', scanner', raws')
    BY <2>1, <2>5, <2>6
  <2>8. QED
    BY <2>1, <2>7 DEF BufferInv
<1>6. CASE CrossBoundary
  <2>1. phase' = "decode" /\ Len(marks) > Len(raws) /\ UNCHANGED <<raws, scanner, buf, marks>>
    BY <1>6 DEF CrossBoundary
  <2>2. Written(buf, marks, scanner, raws) /\ Len(raws) \in Nat
    BY BatchIsFinite DEF BufferInv, IndexInv
  <2>3. Len(marks) = Len(raws) + 1
    BY <2>1, <2>2 DEF Written
  <2>4. QED
    BY <2>1, <2>2, <2>3 DEF BufferInv
<1>7. CASE Label
  <2>1. phase = "decode" /\ phase' = "done" /\ UNCHANGED <<raws, scanner, buf, marks>>
    BY <1>7 DEF Label
  <2>2. QED
    BY <2>1 DEF BufferInv
<1>8. QED
  BY <1>2, <1>3, <1>4, <1>5, <1>6, <1>7 DEF Next

(* At first nothing is read.                                               *)
LEMMA ReaderInit == Init => ReaderInv
<1> SUFFICES ASSUME Init PROVE ReaderInv
  OBVIOUS
<1>1. raws \in Batches /\ phase = "index" /\ decoded = <<>> /\ p = 1 /\ left = 0
  BY DEF Init
<1>2. Len(raws) \in Nat
  BY <1>1, BatchIsFinite
<1>3. decoded \in Seq(Seq(Reading)) /\ Len(decoded) = 0
  BY <1>1
<1>4. \A j \in 1 .. Len(decoded) : FALSE
  BY <1>3
<1>5. QED
  BY <1>1, <1>2, <1>3, <1>4 DEF ReaderInv

(* The reader has not begun.                                               *)
LEMMA ReaderWaits ==
  ASSUME ReaderInv, raws \in Batches, decoded = <<>>, UNCHANGED <<raws, p, left, decoded>>, phase' # "done"
  PROVE  ReaderInv'
<1>1. Len(raws) \in Nat
  BY BatchIsFinite
<1>2. decoded \in Seq(Seq(Reading)) /\ Len(decoded) = 0 /\ p = 1 /\ left = 0
  BY DEF ReaderInv
<1>3. \A j \in 1 .. Len(decoded) : FALSE
  BY <1>2
<1>4. QED
  BY <1>1, <1>2, <1>3 DEF ReaderInv

(* Between two lines all hits of the lines so far are read.                *)
LEMMA LineIsRead ==
  ASSUME docs \in Catalogs, raws \in Batches, Shipped, ReaderInv,
         NEW j \in 1 .. Len(decoded), j # Len(decoded) \/ left = 0
  PROVE  IsRead(decoded[j], scanner, raws, j, Len(Said(scanner, raws, j)))
<1> DEFINE n == Len(Said(scanner, raws, j))
<1>1. IsRead(decoded[j], scanner, raws, j, n - (IF j = Len(decoded) THEN left ELSE 0))
  BY DEF ReaderInv
<1>2. j \in 1 .. Len(raws)
  <2>1. Len(decoded) \in Nat /\ Len(raws) \in Nat /\ Len(decoded) <= Len(raws)
    BY BatchIsFinite DEF ReaderInv
  <2>2. QED
    BY <2>1
<1>3. n \in Nat
  BY <1>2, LineSaid
<1> HIDE DEF n
<1>4. n - (IF j = Len(decoded) THEN left ELSE 0) = n
  BY <1>3
<1>5. QED
  BY <1>1, <1>4 DEF n

(* Reading a hit count keeps the reader in step.                           *)
LEMMA CountStep ==
  ASSUME IndexInv, ShippedInv, BufferInv, ReaderInv, ReadCount
  PROVE  ReaderInv'
<1>1. /\ phase = "decode" /\ UNCHANGED <<raws, scanner, phase, buf, marks>> /\ left = 0 /\ Len(decoded) < Len(raws)
      /\ left' = arr(p) /\ p' = p + 1 /\ decoded' = Append(decoded, <<>>)
  BY DEF ReadCount, Decoding
<1>2. docs \in Catalogs /\ raws \in Batches /\ Shipped
  BY <1>1 DEF IndexInv, ShippedInv
<1>3. /\ p = marks[Len(decoded) + 1] + 1 /\ Len(decoded) \in Nat /\ marks[Len(decoded) + 1] \in Nat
      /\ Len(raws) \in Nat
  BY <1>1, <1>2, CursorAtMark
<1>4. PICK k \in 1 .. Len(raws) : k = Len(decoded) + 1
  BY <1>1, <1>3
<1> DEFINE hits == Said(scanner, raws, k)
<1>5. hits \in Seq(Packable) /\ Len(hits) \in Number /\ Len(hits) \in Nat
  BY <1>2, LineSaid
<1>6. Placed(buf, marks[k], marks[k + 1], Block(hits)) /\ buf \in Seq(Number)
  <2>1. Written(buf, marks, scanner, raws) /\ Len(marks) = Len(raws) + 1
    BY <1>1 DEF BufferInv
  <2>2. k \in 1 .. Len(marks) - 1
    BY <1>3, <2>1
  <2>3. QED
    BY <2>1, <2>2 DEF Written
<1> HIDE DEF hits
<1>7. /\ Block(hits)[1] = Len(hits) /\ Len(Block(hits)) = 1 + Starts(hits)[Len(hits)]
      /\ Starts(hits) \in [0 .. Len(hits) -> Nat] /\ Starts(hits)[0] = 0
  BY <1>5, BlockReads
<1>8. /\ marks[k] \in Nat /\ marks[k + 1] = marks[k] + Len(Block(hits)) /\ marks[k + 1] <= Len(buf)
      /\ \A x \in 1 .. Len(Block(hits)) : buf[marks[k] + x] = Block(hits)[x]
  BY <1>6 DEF Placed, Sits
<1>9. left' = Len(hits)
  <2>1. Starts(hits)[Len(hits)] \in Nat
    BY <1>5, <1>7
  <2>2. 1 \in 1 .. Len(Block(hits)) /\ Len(Block(hits)) \in Nat
    BY <1>7, <2>1
  <2>3. buf[marks[k] + 1] = Len(hits)
    BY <1>7, <1>8, <2>2
  <2>4. p \in 1 .. Len(buf) /\ p = marks[k] + 1
    <3>1. PICK a \in Nat, l \in Nat : a = marks[k] /\ l = Len(Block(hits))
      BY <1>8, <2>2
    <3>2. Len(buf) \in Nat /\ l >= 1 /\ a + l <= Len(buf) /\ p = a + 1
      BY <1>3, <1>4, <1>6, <1>8, <2>2, <3>1
    <3>3. QED
      BY <3>1, <3>2
  <2>5. arr(p) = buf[p]
    BY <1>6, <2>4 DEF arr
  <2>6. QED
    BY <1>1, <2>3, <2>4, <2>5
<1>10. CursorAt(p', left', marks, scanner, raws, k)
  <2>1. Len(hits) - Len(hits) = 0 /\ Len(hits) \in 0 .. Len(hits)
    BY <1>5
  <2>2. p' = marks[k] + 2
    BY <1>1, <1>3, <1>4, <1>8
  <2>3. p' = marks[k] + 2 + Starts(hits)[Len(hits) - left']
    BY <1>7, <1>8, <1>9, <2>1, <2>2
  <2>4. QED
    BY <1>9, <2>1, <2>3 DEF CursorAt, hits
<1>11. /\ decoded' \in Seq(Seq(Reading)) /\ Len(decoded') = k /\ decoded'[k] = <<>>
       /\ \A j \in 1 .. k - 1 : decoded'[j] = decoded[j] /\ j \in 1 .. Len(decoded)
  <2>1. decoded \in Seq(Seq(Reading)) /\ <<>> \in Seq(Reading)
    BY DEF ReaderInv
  <2>2. QED
    BY <1>1, <1>3, <1>4, <2>1
<1>12. ASSUME NEW j \in 1 .. k
       PROVE  IsRead(decoded'[j], scanner, raws, j,
                     Len(Said(scanner, raws, j)) - (IF j = k THEN left' ELSE 0))
  <2>1. CASE j = k
    <3>1. Len(hits) - left' = 0 /\ decoded'[j] = <<>>
      BY <1>5, <1>9, <1>11, <2>1
    <3>2. <<>> \in Seq(Reading) /\ Len(<<>>) = 0 /\ \A h \in 1 .. 0 : FALSE
      OBVIOUS
    <3>3. IsRead(<<>>, scanner, raws, j, 0)
      BY <3>2 DEF IsRead
    <3>4. QED
      BY <2>1, <3>1, <3>3 DEF hits
  <2>2. CASE j \in 1 .. k - 1
    <3>1. decoded'[j] = decoded[j] /\ j \in 1 .. Len(decoded)
      BY <1>11, <2>2
    <3>2. IsRead(decoded[j], scanner, raws, j, Len(Said(scanner, raws, j)))
      BY <1>1, <1>2, <3>1, LineIsRead
    <3>3. Len(Said(scanner, raws, j)) \in Nat /\ j # k
      <4>1. j \in 1 .. Len(raws)
        BY <1>3, <2>2
      <4>2. QED
        BY <1>2, <2>2, <4>1, LineSaid
    <3>4. Len(Said(scanner, raws, j)) - (IF j = k THEN left' ELSE 0) = Len(Said(scanner, raws, j))
      <4>1. (IF j = k THEN left' ELSE 0) = 0
        BY <3>3, Zenon
      <4>2. PICK n \in Nat : n = Len(Said(scanner, raws, j))
        BY <3>3
      <4>3. n - 0 = n
        OBVIOUS
      <4>4. QED
        BY <4>1, <4>2, <4>3, Zenon
    <3>5. QED
      BY <3>1, <3>2, <3>4
  <2>3. QED
    BY <2>1, <2>2
<1>13. left' \in Nat /\ Len(decoded') # 0 /\ Len(decoded') <= Len(raws)
  BY <1>3, <1>4, <1>5, <1>9, <1>11
<1>14. CursorAt(p', left', marks', scanner', raws', Len(decoded'))
  BY <1>1, <1>10, <1>11
<1>15. \A j \in 1 .. Len(decoded') :
         IsRead(decoded'[j], scanner', raws', j,
                Len(Said(scanner', raws', j)) - (IF j = Len(decoded') THEN left' ELSE 0))
  BY <1>1, <1>11, <1>12
<1>16. phase' = "decode" /\ raws' = raws
  BY <1>1
<1>17. QED
  BY <1>11, <1>13, <1>14, <1>15, <1>16 DEF ReaderInv

(* One more hit of a line is read.                                         *)
LEMMA ReadGrows ==
  ASSUME NEW list, NEW sc, NEW rs, NEW j, NEW n \in Nat, IsRead(list, sc, rs, j, n),
         NEW hit \in Reading, hit = ReadBack(Said(sc, rs, j)[n + 1], Core(rs, j))
  PROVE  IsRead(Append(list, hit), sc, rs, j, n + 1)
<1> DEFINE more == Append(list, hit)
<1>1. list \in Seq(Reading) /\ Len(list) = n
  BY DEF IsRead
<1>2. more \in Seq(Reading) /\ Len(more) = n + 1 /\ more[n + 1] = hit /\ \A h \in 1 .. n : more[h] = list[h]
  BY <1>1
<1> HIDE DEF more
<1>3. ASSUME NEW h \in 1 .. n + 1 PROVE more[h] = ReadBack(Said(sc, rs, j)[h], Core(rs, j))
  <2>1. CASE h = n + 1
    BY <1>2, <2>1
  <2>2. CASE h \in 1 .. n
    BY <1>2, <2>2 DEF IsRead
  <2>3. QED
    BY <2>1, <2>2
<1>4. IsRead(more, sc, rs, j, n + 1)
  BY <1>2, <1>3 DEF IsRead
<1>5. QED
  BY <1>4 DEF more

(* What lies in a block lies in the buffer that holds the block.           *)
LEMMA LiesWithin ==
  ASSUME NEW text \in Seq(Number), NEW block \in Seq(Number), NEW a \in Nat, NEW c \in Nat,
         NEW hit \in Packable, a + Len(block) <= Len(text),
         \A x \in 1 .. Len(block) : text[a + x] = block[x], LiesAt(block, c, hit)
  PROVE  LiesAt(text, a + c, hit)
<1> DEFINE n == Len(hit.captures)
           l == Len(block)
           Here(y) == text[a + y] = block[y]
<1>1. n \in Nat /\ l \in Nat /\ Len(text) \in Nat
  BY DEF Packable
<1>2. \A x \in 1 .. l : Here(x)
  OBVIOUS
<1>3. c + 3 + 2 * n <= l
  BY DEF LiesAt
<1>4. block[c + 1] = hit.site /\ block[c + 2] = hit.literalLen /\ block[c + 3] = n
  BY Zenon DEF LiesAt
<1>5. \A g \in 1 .. n : block[c + 2 + 2 * g] = hit.captures[g][1] /\ block[c + 3 + 2 * g] = hit.captures[g][2]
  BY Zenon DEF LiesAt
<1> HIDE DEF Here, n, l
<1>6. a + c + 3 + 2 * n <= Len(text)
  <2>1. a + l <= Len(text)
    BY DEF l
  <2>2. QED
    BY <1>1, <1>3, <2>1
<1>7. text[a + c + 1] = hit.site /\ text[a + c + 2] = hit.literalLen /\ text[a + c + 3] = n
  <2>1. PICK x, y, z : x = c + 1 /\ y = c + 2 /\ z = c + 3
    OBVIOUS
  <2>2. x \in 1 .. l /\ y \in 1 .. l /\ z \in 1 .. l /\ a + x = a + c + 1 /\ a + y = a + c + 2 /\ a + z = a + c + 3
    BY <1>1, <1>3, <2>1
  <2>3. text[a + x] = block[x] /\ text[a + y] = block[y] /\ text[a + z] = block[z]
    BY <1>2, <2>2 DEF Here
  <2>4. QED
    BY <1>4, <2>1, <2>2, <2>3
<1>8. ASSUME NEW g \in 1 .. n
      PROVE  text[a + c + 2 + 2 * g] = hit.captures[g][1] /\ text[a + c + 3 + 2 * g] = hit.captures[g][2]
  <2>1. PICK x, y : x = c + 2 + 2 * g /\ y = c + 3 + 2 * g
    OBVIOUS
  <2>2. x \in 1 .. l /\ y \in 1 .. l /\ a + x = a + c + 2 + 2 * g /\ a + y = a + c + 3 + 2 * g
    BY <1>1, <1>3, <2>1
  <2>3. text[a + x] = block[x] /\ text[a + y] = block[y]
    BY <1>2, <2>2 DEF Here
  <2>4. QED
    BY <1>5, <2>1, <2>2, <2>3
<1>9. QED
  BY <1>6, <1>7, <1>8 DEF LiesAt, n

(* Reading a hit keeps the reader in step.                                 *)
LEMMA HitStep ==
  ASSUME IndexInv, ShippedInv, BufferInv, ReaderInv, ReadHit
  PROVE  ReaderInv'
<1> DEFINE k == Len(decoded)
           hits == Said(scanner, raws, k)
           line == cores[k]
           hit == [ site |-> arr(p), literalLen |-> arr(p + 1),
                    captures |-> [ c \in 1 .. arr(p + 2) |->
                                   CaptureText(line, arr(p + 1 + 2 * c), arr(p + 2 + 2 * c)) ] ]
           h == Len(hits) - left + 1
<1>1. /\ phase = "decode" /\ UNCHANGED <<raws, scanner, phase, buf, marks>> /\ left > 0 /\ left' = left - 1
      /\ decoded' = [decoded EXCEPT ![k] = Append(@, hit)] /\ p' = p + 3 + 2 * arr(p + 2)
  BY DEF ReadHit, Decoding
<1>2. docs \in Catalogs /\ raws \in Batches /\ Shipped
  BY <1>1 DEF IndexInv, ShippedInv
<1>3. k \in Nat /\ k # 0 /\ k <= Len(raws) /\ left \in Nat /\ Len(raws) \in Nat /\ decoded \in Seq(Seq(Reading))
  BY <1>1, <1>2, BatchIsFinite DEF ReaderInv
<1>4. k \in 1 .. Len(raws)
  BY <1>3
<1>5. hits \in Seq(Packable) /\ Len(hits) \in Number /\ Len(hits) \in Nat
  BY <1>2, <1>4, LineSaid
<1>6. Placed(buf, marks[k], marks[k + 1], Block(hits)) /\ buf \in Seq(Number)
  <2>1. Written(buf, marks, scanner, raws) /\ Len(marks) = Len(raws) + 1
    BY <1>1 DEF BufferInv
  <2>2. k \in 1 .. Len(marks) - 1
    BY <1>3, <1>4, <2>1
  <2>3. QED
    BY <2>1, <2>2 DEF Written
<1>7. left \in 1 .. Len(hits) /\ p = marks[k] + 2 + Starts(hits)[Len(hits) - left]
  <2>1. CursorAt(p, left, marks, scanner, raws, k)
    BY <1>3 DEF ReaderInv
  <2>2. left \in 0 .. Len(hits) /\ p = marks[k] + 2 + Starts(hits)[Len(hits) - left]
    BY <2>1 DEF CursorAt
  <2>3. QED
    BY <1>1, <2>2
<1>8. IsRead(decoded[k], scanner, raws, k, Len(hits) - left)
  <2>1. k \in 1 .. Len(decoded)
    BY <1>3
  <2>2. IsRead(decoded[k], scanner, raws, k, Len(Said(scanner, raws, k)) - (IF k = Len(decoded) THEN left ELSE 0))
    BY <2>1 DEF ReaderInv
  <2>3. QED
    BY <2>2
<1>9. line = Core(raws, k) /\ Core(raws, k) \in Seq(Byte)
  BY <1>2, <1>4, CoresAreLines
<1> HIDE DEF hits, line, hit
<1>10. h \in 1 .. Len(hits) /\ h - 1 = Len(hits) - left /\ h = Len(hits) - (left - 1) /\ h - 1 \in Nat
  BY <1>5, <1>7
<1> HIDE DEF h
<1>11. hits[h] \in Packable
  BY <1>5, <1>10
<1>12. PICK e \in Nat : e = Starts(hits)[h - 1] /\ Starts(hits)[h] = e + 3 + 2 * Len(hits[h].captures)
                        /\ LiesAt(Block(hits), 1 + e, hits[h])
  <2>1. /\ Starts(hits) \in [0 .. Len(hits) -> Nat]
        /\ \A g \in 1 .. Len(hits) : /\ Starts(hits)[g] = Starts(hits)[g - 1] + 3 + 2 * Len(hits[g].captures)
                                     /\ LiesAt(Block(hits), 1 + Starts(hits)[g - 1], hits[g])
    BY <1>5, BlockReads
  <2>2. Starts(hits)[h - 1] \in Nat
    <3>1. PICK g \in 0 .. Len(hits) : g = h - 1
      BY <1>5, <1>10
    <3>2. QED
      BY <2>1, <3>1
  <2>3. QED
    BY <1>10, <2>1, <2>2
<1>13. PICK b \in Nat : b = marks[k] + 1 + e /\ LiesAt(buf, b, hits[h]) /\ p = b + 1
  <2>1. PICK a \in Nat : a = marks[k] /\ marks[k + 1] = a + Len(Block(hits)) /\ marks[k + 1] <= Len(buf)
                         /\ Block(hits) \in Seq(Number) /\ \A x \in 1 .. Len(Block(hits)) : buf[a + x] = Block(hits)[x]
    BY <1>6 DEF Placed, Sits
  <2>2. a + 1 + e \in Nat
    OBVIOUS
  <2>3. LiesAt(buf, a + (1 + e), hits[h])
    <3>1. buf \in Seq(Number) /\ hits[h] \in Packable /\ LiesAt(Block(hits), 1 + e, hits[h])
      BY <1>6, <1>11, <1>12
    <3>2. PICK c \in Nat : c = 1 + e
      OBVIOUS
    <3>3. PICK block \in Seq(Number) : block = Block(hits)
      BY <2>1
    <3>4. a + Len(block) <= Len(buf) /\ \A x \in 1 .. Len(block) : buf[a + x] = block[x]
      BY <2>1, <3>3
    <3>5. LiesAt(buf, a + c, hits[h])
      BY <3>1, <3>2, <3>3, <3>4, LiesWithin
    <3>6. QED
      BY <3>2, <3>5
  <2>4. a + (1 + e) = a + 1 + e /\ a + 1 + e + 1 = a + 2 + e
    OBVIOUS
  <2>5. p = a + 2 + e
    BY <1>7, <1>10, <1>12, <2>1
  <2>6. QED
    BY <2>1, <2>2, <2>3, <2>4, <2>5
<1>14. hit = ReadBack(hits[h], line) /\ p' = b + 4 + 2 * Len(hits[h].captures)
  <2>1. /\ hit = ReadBack(hits[h], line)
        /\ p + 3 + 2 * arr(p + 2) = b + 4 + 2 * Len(hits[h].captures)
    BY <1>6, <1>11, <1>13, HitReads DEF hit
  <2>2. QED
    BY <1>1, <2>1
<1>15. CursorAt(p', left', marks, scanner, raws, k)
  <2>1. left' \in 0 .. Len(hits) /\ Len(hits) - left' = h
    BY <1>1, <1>5, <1>7, <1>10
  <2>2. p' = marks[k] + 2 + Starts(hits)[h]
    <3>1. marks[k] \in Nat /\ Len(hits[h].captures) \in Nat
      BY <1>6, <1>11 DEF Placed, Packable
    <3>2. p' = marks[k] + 1 + e + 4 + 2 * Len(hits[h].captures)
      BY <1>13, <1>14
    <3>3. Starts(hits)[h] = e + 3 + 2 * Len(hits[h].captures)
      BY <1>12
    <3>4. PICK a \in Nat, n \in Nat : a = marks[k] /\ n = Len(hits[h].captures)
      BY <3>1
    <3>5. a + 1 + e + 4 + 2 * n = a + 2 + (e + 3 + 2 * n)
      OBVIOUS
    <3>6. QED
      BY <3>2, <3>3, <3>4, <3>5
  <2>3. QED
    BY <2>1, <2>2 DEF CursorAt, hits
<1>16. hit \in Reading
  BY <1>9, <1>11, <1>14 DEF Reading
<1>17. IsRead(Append(decoded[k], hit), scanner, raws, k, Len(hits) - left')
  <2>1. IsRead(decoded[k], scanner, raws, k, h - 1) /\ h - 1 + 1 = h
    BY <1>8, <1>10
  <2>2. hit = ReadBack(Said(scanner, raws, k)[h], Core(raws, k))
    BY <1>9, <1>14 DEF hits
  <2>3. IsRead(Append(decoded[k], hit), scanner, raws, k, h - 1 + 1)
    BY <1>10, <1>16, <2>1, <2>2, ReadGrows
  <2>4. Len(hits) - left' = h
    BY <1>1, <1>5, <1>7, <1>10
  <2>5. QED
    BY <2>1, <2>3, <2>4
<1>18. /\ decoded' \in Seq(Seq(Reading)) /\ Len(decoded') = k /\ decoded'[k] = Append(decoded[k], hit)
       /\ \A j \in 1 .. k - 1 : decoded'[j] = decoded[j] /\ j \in 1 .. k
  <2>1. decoded[k] \in Seq(Reading) /\ k \in 1 .. Len(decoded)
    BY <1>3
  <2>2. Append(decoded[k], hit) \in Seq(Reading)
    BY <1>16, <2>1
  <2>3. decoded' = [decoded EXCEPT ![k] = Append(decoded[k], hit)]
    BY <1>1
  <2>4. QED
    BY <1>3, <2>1, <2>2, <2>3
<1>19. ASSUME NEW j \in 1 .. k
       PROVE  IsRead(decoded'[j], scanner, raws, j,
                     Len(Said(scanner, raws, j)) - (IF j = k THEN left' ELSE 0))
  <2>1. CASE j = k
    BY <1>17, <1>18, <2>1 DEF hits
  <2>2. CASE j \in 1 .. k - 1
    <3>1. decoded'[j] = decoded[j] /\ j \in 1 .. Len(decoded) /\ j # k
      BY <1>3, <1>18, <2>2
    <3>2. IsRead(decoded[j], scanner, raws, j,
                 Len(Said(scanner, raws, j)) - (IF j = Len(decoded) THEN left ELSE 0))
      BY <3>1 DEF ReaderInv
    <3>3. (IF j = Len(decoded) THEN left ELSE 0) = 0 /\ (IF j = k THEN left' ELSE 0) = 0
      BY <3>1, Zenon DEF k
    <3>4. QED
      BY <3>1, <3>2, <3>3
  <2>3. QED
    BY <1>3, <2>1, <2>2
<1>20. left' \in Nat /\ Len(decoded') # 0 /\ Len(decoded') <= Len(raws)
  <2>1. left' = left - 1 /\ left > 0 /\ left \in Nat
    BY <1>1, <1>3
  <2>2. left' \in Nat
    BY <2>1
  <2>3. Len(decoded') # 0 /\ Len(decoded') <= Len(raws)
    <3>1. Len(decoded') = k
      BY <1>18
    <3>2. k # 0 /\ k <= Len(raws)
      BY <1>3
    <3> HIDE DEF k
    <3>3. QED
      BY <3>1, <3>2
  <2>4. QED
    BY <2>2, <2>3
<1>21. CursorAt(p', left', marks', scanner', raws', Len(decoded'))
  BY <1>1, <1>15, <1>18
<1>22. \A j \in 1 .. Len(decoded') :
         IsRead(decoded'[j], scanner', raws', j,
                Len(Said(scanner', raws', j)) - (IF j = Len(decoded') THEN left' ELSE 0))
  BY <1>1, <1>18, <1>19
<1>23. phase' = "decode" /\ raws' = raws
  BY <1>1
<1>24. QED
  BY <1>18, <1>20, <1>21, <1>22, <1>23 DEF ReaderInv

(* Every step keeps the reader in step.                                    *)
LEMMA ReaderStep ==
  ASSUME IndexInv, ShippedInv, BufferInv, ReaderInv, [Next]_vars
  PROVE  ReaderInv'
<1>1. raws \in Batches
  BY DEF IndexInv
<1>2. CASE HoldCatchAll \/ SkipUnlowered \/ IndexDoc
  <2>1. phase = "index" /\ phase' = phase /\ UNCHANGED <<raws, p, left, decoded>>
    BY <1>2 DEF HoldCatchAll, SkipUnlowered, IndexDoc, Indexing
  <2>2. decoded = <<>>
    BY <2>1 DEF ReaderInv
  <2>3. QED
    BY <1>1, <2>1, <2>2, ReaderWaits
<1>3. CASE ShipIndex \/ PackLine \/ CrossBoundary
  <2>1. phase \in {"index", "pack"} /\ phase' \in {"pack", "decode"} /\ UNCHANGED <<raws, p, left, decoded>>
    BY <1>3 DEF ShipIndex, PackLine, CrossBoundary
  <2>2. decoded = <<>>
    BY <2>1 DEF ReaderInv
  <2>3. QED
    BY <1>1, <2>1, <2>2, ReaderWaits
<1>4. CASE ReadCount
  BY <1>4, CountStep
<1>5. CASE ReadHit
  BY <1>5, HitStep
<1>6. CASE Label
  <2>1. /\ phase = "decode" /\ phase' = "done" /\ UNCHANGED <<raws, scanner, marks, p, left, decoded>>
        /\ left = 0 /\ Len(decoded) = Len(raws)
    BY <1>6 DEF Label
  <2>2. QED
    BY <2>1 DEF ReaderInv
<1>7. CASE UNCHANGED vars
  <2>1. UNCHANGED <<raws, phase, scanner, marks, p, left, decoded>>
    BY <1>7 DEF vars
  <2>2. QED
    BY <2>1 DEF ReaderInv
<1>8. QED
  BY <1>2, <1>3, <1>4, <1>5, <1>6, <1>7 DEF Next

(* What Label makes of a hit that was read.                                *)
LabelOf(st, hit) ==
  LET site == st[hit.site + 1]
  IN [ slug |-> site.doc.slug, literalLen |-> hit.literalLen,
       captures |-> [ g \in DOMAIN hit.captures |->
          [spec |-> IF g \in DOMAIN site.groups THEN site.groups[g] ELSE "?",
           value |-> hit.captures[g]] ] ]

Scanned(list) == { h \in DOMAIN list : list[h].literalLen > 0 }
LabelsOf(rs, d, st) ==
  [ k \in DOMAIN rs |->
     [ core |-> stripLogPrefix(rs[k].text).core, level |-> stripLogPrefix(rs[k].text).level,
       hits |-> [ h \in DOMAIN Ascending(Scanned(d[k])) |->
                    LabelOf(st, d[k][Ascending(Scanned(d[k]))[h]]) ] ] ]

(* What the page shows is what Label made of the numbers read.             *)
ShownInv == phase = "done" => results = LabelsOf(raws, decoded, sites)

(* Every step keeps what is shown in line with what was read.              *)
LEMMA ShownStep ==
  ASSUME IndexInv, BufferInv, ShownInv, [Next]_vars
  PROVE  ShownInv'
<1>1. CASE Label
  <2>1. UNCHANGED <<raws, decoded, sites>>
    BY <1>1 DEF Label
  <2>2. results' = LabelsOf(raws, decoded, sites)
    <3>1. \A k \in DOMAIN raws : cores[k] = stripLogPrefix(raws[k].text).core
      BY DEF cores
    <3>2. QED
      BY <1>1, <3>1 DEF Label, LabelsOf, LabelOf, Labelled, Scanned
  <2>3. QED
    BY <2>1, <2>2 DEF ShownInv
<1>2. CASE UNCHANGED vars
  BY <1>2 DEF vars, ShownInv
<1>3. CASE Next /\ ~Label
  <2>1. phase' # "done"
    BY <1>3 DEF Next, HoldCatchAll, SkipUnlowered, IndexDoc, Indexing, ShipIndex, PackLine, CrossBoundary,
                ReadCount, ReadHit, Decoding
  <2>2. QED
    BY <2>1 DEF ShownInv
<1>4. QED
  BY <1>1, <1>2, <1>3

PipelineInv == IndexInv /\ ShippedInv /\ BufferInv /\ ReaderInv /\ ShownInv

(* The inductive invariant holds of every reachable state.                 *)
LEMMA PipelineInvariant == Spec => []PipelineInv
<1>1. Init => PipelineInv
  <2>1. Init => phase # "done"
    BY DEF Init
  <2>2. QED
    BY <2>1, InitIndex, BufferInit, ReaderInit DEF PipelineInv, ShownInv
<1>2. PipelineInv /\ [Next]_vars => PipelineInv'
  <2> SUFFICES ASSUME PipelineInv, [Next]_vars PROVE PipelineInv'
    OBVIOUS
  <2>1. IndexInv /\ ShippedInv /\ BufferInv /\ ReaderInv /\ ShownInv
    BY DEF PipelineInv
  <2>2. IndexInv' /\ ShippedInv'
    BY <2>1, IndexStep
  <2>3. BufferInv'
    BY <2>1, BufferStep
  <2>4. ReaderInv'
    BY <2>1, ReaderStep
  <2>5. ShownInv'
    BY <2>1, ShownStep
  <2>6. QED
    BY <2>2, <2>3, <2>4, <2>5 DEF PipelineInv
<1>3. QED
  BY <1>1, <1>2, PTL DEF Spec

(* Every page is in one bucket of the report, and no catch-all in the      *)
(* index.                                                                  *)
THEOREM PagesAreAccounted == Spec => []PagesAccountedFor
<1>1. PipelineInv => PagesAccountedFor
  <2> SUFFICES ASSUME IndexInv, ShippedInv PROVE PagesAccountedFor
    BY DEF PipelineInv
  <2>1. ASSUME NEW n \in DOMAIN sites
        PROVE  \E k \in DOMAIN lower_format[sites[n].doc.message].toks :
                 lower_format[sites[n].doc.message].toks[k].kind = "Lit"
    <3>1. Shipped
      <4>1. sites # <<>>
        BY <2>1
      <4>2. QED
        BY <4>1 DEF ShippedInv
    <3>2. PICK e \in Entries : e = sites[n]
      BY <2>1, <3>1 DEF Shipped
    <3>3. e.doc \in Page0 /\ Scannable(e.doc)
      BY EntryFields
    <3>4. e.doc.message \in Message /\ lower_format[e.doc.message].ok /\ lower_format[e.doc.message].literal_len > 0
      BY <3>3 DEF Page0, Scannable
    <3>5. QED
      BY <3>2, <3>4, LoweredAssumption
  <2>2. report.total = report.lowerFailed + report.compiled + report.catchAlls /\ report.compiled = Len(scored)
    BY DEF IndexInv
  <2>3. QED
    BY <2>1, <2>2 DEF PagesAccountedFor
<1>2. QED
  BY <1>1, PipelineInvariant, PTL

(* The reader never loses step with the writer.                            *)
THEOREM ReaderInStep == Spec => []CursorInStep
<1>1. PipelineInv => CursorInStep
  <2> SUFFICES ASSUME IndexInv, ShippedInv, BufferInv, ReaderInv PROVE CursorInStep
    BY DEF PipelineInv
  <2>1. ASSUME phase \in {"decode", "done"}, left = 0
        PROVE  p = marks[Len(decoded) + 1] + 1
    <3>1. docs \in Catalogs /\ raws \in Batches /\ Shipped
      BY <2>1 DEF IndexInv, ShippedInv
    <3>2. QED
      BY <2>1, <3>1, CursorAtMark
  <2>2. ASSUME phase = "done" PROVE p = Len(buf) + 1
    <3>1. left = 0 /\ Len(decoded) = Len(raws)
      BY <2>2 DEF ReaderInv
    <3>2. marks[Len(decoded) + 1] = Len(buf)
      <4>1. Len(marks) = Len(raws) + 1 /\ marks[Len(marks)] = Len(buf)
        BY <2>2 DEF BufferInv, Written
      <4>2. QED
        BY <3>1, <4>1
    <3>3. QED
      BY <2>1, <2>2, <3>1, <3>2
  <2>3. QED
    BY <2>1, <2>2 DEF CursorInStep
<1>2. QED
  BY <1>1, PipelineInvariant, PTL

(* A hit of n captures that lies in a block of the buffer begins in it.    *)
LEMMA BeginsInside ==
  ASSUME NEW a \in Nat, NEW e \in Nat, NEW n \in Nat, NEW l \in Nat, NEW m \in Nat,
         1 + e + 3 + 2 * n <= l, a + l <= m
  PROVE  a + 2 + e \in 1 .. m + 1
<1>1. a + 2 + e \in Nat /\ 1 <= a + 2 + e
  OBVIOUS
<1>2. 0 <= 2 * n
  OBVIOUS
<1>3. 1 + e + 3 <= l
  BY <1>2
<1>4. a + 2 + e <= m + 1
  BY <1>3
<1>5. QED
  BY <1>1, <1>4

(* The cursor stays in the buffer.                                         *)
LEMMA CursorInside ==
  ASSUME IndexInv, ShippedInv, BufferInv, ReaderInv
  PROVE  p \in 1 .. Len(buf) + 1
<1>1. Written(buf, marks, scanner, raws) /\ buf \in Seq(Number) /\ Len(buf) \in Nat
  BY DEF BufferInv, Written
<1>2. CASE Len(decoded) = 0
  BY <1>1, <1>2 DEF ReaderInv
<1>3. CASE Len(decoded) # 0
  <2> DEFINE k == Len(decoded)
             hits == Said(scanner, raws, k)
  <2>1. phase \in {"decode", "done"}
    <3>1. decoded # <<>> /\ phase \in {"index", "pack", "decode", "done"}
      BY <1>3 DEF BufferInv
    <3>2. QED
      BY <3>1 DEF ReaderInv
  <2>2. docs \in Catalogs /\ raws \in Batches /\ Shipped /\ Len(marks) = Len(raws) + 1
    BY <2>1 DEF IndexInv, ShippedInv, BufferInv
  <2>3. k \in 1 .. Len(raws) /\ k \in 1 .. Len(marks) - 1 /\ k \in Nat
    <3>1. Len(decoded) \in Nat /\ Len(raws) \in Nat /\ Len(decoded) <= Len(raws)
      BY <2>2, BatchIsFinite DEF ReaderInv
    <3>2. k \in Nat /\ k # 0 /\ k <= Len(raws) /\ Len(raws) \in Nat
      BY <1>3, <3>1
    <3> HIDE DEF k
    <3>3. QED
      BY <2>2, <3>2
  <2>4. Placed(buf, marks[k], marks[k + 1], Block(hits))
    BY <1>1, <2>3 DEF Written
  <2>5. CursorAt(p, left, marks, scanner, raws, k)
    BY <1>3 DEF ReaderInv
  <2>6. hits \in Seq(Packable) /\ Len(hits) \in Number /\ Len(hits) \in Nat
    BY <2>2, <2>3, LineSaid
  <2>7. CASE left = 0
    <3>1. p = marks[k + 1] + 1 /\ marks[k + 1] \in Nat
      BY <2>1, <2>2, <2>7, CursorAtMark
    <3>2. marks[k + 1] <= Len(buf)
      BY <2>4 DEF Placed
    <3>3. QED
      BY <1>1, <3>1, <3>2
  <2>8. CASE left # 0
    <3> HIDE DEF k
    <3>1. left \in 0 .. Len(hits) /\ p = marks[k] + 2 + Starts(hits)[Len(hits) - left]
      BY <2>5 DEF CursorAt
    <3> HIDE DEF hits
    <3>2. PICK h \in 1 .. Len(hits) : h - 1 = Len(hits) - left
      <4>1. PICK g : g = Len(hits) - left + 1
        OBVIOUS
      <4>2. g \in 1 .. Len(hits) /\ g - 1 = Len(hits) - left
        BY <2>6, <2>8, <3>1, <4>1
      <4>3. QED
        BY <4>2
    <3>3. PICK e \in Nat : e = Starts(hits)[h - 1] /\ LiesAt(Block(hits), 1 + e, hits[h])
      <4>1. /\ Starts(hits) \in [0 .. Len(hits) -> Nat]
            /\ \A g \in 1 .. Len(hits) : LiesAt(Block(hits), 1 + Starts(hits)[g - 1], hits[g])
        BY <2>6, BlockReads
      <4>2. PICK g \in 0 .. Len(hits) : g = h - 1
        BY <2>6
      <4>3. Starts(hits)[h - 1] \in Nat
        BY <4>1, <4>2
      <4>4. QED
        BY <4>1, <4>3
    <3>4. PICK n \in Nat : n = Len(hits[h].captures)
      <4>1. hits[h] \in Packable
        BY <2>6
      <4>2. Len(hits[h].captures) \in Nat
        BY <4>1 DEF Packable
      <4>3. QED
        BY <4>2
    <3>5. 1 + e + 3 + 2 * n <= Len(Block(hits))
      BY <3>3, <3>4 DEF LiesAt
    <3>6. PICK a \in Nat, l \in Nat : a = marks[k] /\ l = Len(Block(hits)) /\ a + l <= Len(buf)
      <4>1. marks[k] \in Nat /\ Len(Block(hits)) \in Nat /\ marks[k] + Len(Block(hits)) <= Len(buf)
        BY <2>4 DEF Placed
      <4>2. QED
        BY <4>1
    <3>7. p = a + 2 + e /\ 1 + e + 3 + 2 * n <= l
      BY <3>1, <3>2, <3>3, <3>5, <3>6
    <3>8. a + 2 + e \in 1 .. Len(buf) + 1
      BY <1>1, <3>6, <3>7, BeginsInside
    <3>9. QED
      BY <3>7, <3>8
  <2>9. QED
    BY <2>7, <2>8
<1>4. QED
  BY <1>2, <1>3

(* The variables have their types; the cursor never leaves the buffer,     *)
(* and every number is an i32.                                             *)
THEOREM TypeCorrect == Spec => []TypeOK
<1>1. PipelineInv => TypeOK
  <2> SUFFICES ASSUME IndexInv, ShippedInv, BufferInv, ReaderInv PROVE TypeOK
    BY DEF PipelineInv
  <2>1. phase \in {"index", "pack", "decode", "done"}
    BY DEF BufferInv
  <2>2. buf \in Seq(-(I32 \div 2) .. I32 \div 2 - 1)
    <3>1. buf \in Seq(Number) /\ Number \subseteq -(I32 \div 2) .. I32 \div 2 - 1
      BY SizeAssumption DEF BufferInv, Written, Number
    <3>2. \A X, Y : X \subseteq Y => Seq(X) \subseteq Seq(Y)
      OBVIOUS
    <3>3. QED
      BY <3>1, <3>2
  <2>3. p \in 1 .. Len(buf) + 1
    BY CursorInside
  <2>4. left \in Nat /\ Len(decoded) <= Len(raws)
    BY DEF ReaderInv
  <2>5. Len(scanner) = Len(sites)
    <3>1. CASE phase = "index"
      BY <3>1 DEF ShippedInv
    <3>2. CASE phase # "index"
      BY <3>2 DEF ShippedInv, Shipped
    <3>3. QED
      BY <3>1, <3>2
  <2>6. QED
    BY <2>1, <2>2, <2>3, <2>4, <2>5 DEF TypeOK
<1>2. QED
  BY <1>1, PipelineInvariant, PTL

-----------------------------------------------------------------------------
(* What is shown.                                                          *)

(* A slug names one page.                                                  *)
LEMMA PageOfSlug ==
  ASSUME docs \in Catalogs, NEW i \in DOMAIN docs
  PROVE  docs[i] \in Range(docs) /\ Page(docs[i].slug) = docs[i]
<1>1. docs[i] \in Range(docs)
  BY DEF Range
<1>2. ASSUME NEW d \in Range(docs), d.slug = docs[i].slug PROVE d = docs[i]
  <2>1. PICK j \in DOMAIN docs : d = docs[j]
    BY DEF Range
  <2>2. SlugRank[docs[j].slug] = SlugRank[docs[i].slug]
    BY <1>2, <2>1
  <2>3. QED
    BY <2>1, <2>2, PagesDiffer
<1>3. QED
  BY <1>1, <1>2 DEF Page

(* A site number means one page, on both sides.                            *)
LEMMA SitePages ==
  ASSUME docs \in Catalogs, Shipped, NEW n \in DOMAIN scanner
  PROVE  /\ n \in DOMAIN sites /\ sites[n].doc \in Range(docs) /\ Scannable(sites[n].doc)
         /\ Page(sites[n].doc.slug) = sites[n].doc /\ scanner[n] = sites[n].doc.message
         /\ sites[n].groups = lower_format[sites[n].doc.message].groups
         /\ sites[n].literalLen = lower_format[sites[n].doc.message].literal_len
<1>1. n \in DOMAIN sites /\ n \in 1 .. Len(sites) /\ scanner[n] = sites[n].doc.message /\ sites[n] \in Entries
  BY ScannerSites DEF Shipped
<1>2. PICK i \in 1 .. Len(docs) : Scannable(docs[i]) /\ sites[n] = Entry(docs[i])
  BY <1>1 DEF Shipped, Holds
<1>3. i \in DOMAIN docs
  BY PagesDiffer
<1>4. sites[n].doc = docs[i]
  BY <1>2 DEF Entry
<1>5. docs[i] \in Range(docs) /\ Page(docs[i].slug) = docs[i]
  BY <1>3, PageOfSlug
<1>6. /\ sites[n].groups = lower_format[sites[n].doc.message].groups
      /\ sites[n].literalLen = lower_format[sites[n].doc.message].literal_len
  BY <1>1, EntryFields
<1>7. QED
  BY <1>1, <1>2, <1>4, <1>5, <1>6

(* Every page with literal text has a site.                                *)
LEMMA PageSites ==
  ASSUME docs \in Catalogs, Shipped, NEW d \in Range(docs), Scannable(d)
  PROVE  \E n \in DOMAIN scanner : sites[n].doc = d /\ scanner[n] = d.message
<1>1. PICK i \in DOMAIN docs : d = docs[i]
  BY DEF Range
<1>2. i \in 1 .. Len(docs)
  BY PagesDiffer
<1>3. PICK n \in DOMAIN sites : sites[n] = Entry(docs[i])
  BY <1>1, <1>2 DEF Shipped, Holds
<1>4. sites[n].doc = d
  BY <1>1, <1>3 DEF Entry
<1>5. n \in DOMAIN scanner /\ scanner[n] = sites[n].doc.message
  BY <1>3 DEF Shipped
<1>6. QED
  BY <1>4, <1>5

(* What is shown of site n for a line.                                     *)
Show(st, sc, n, line) ==
  LET spans == Spans(Low(sc, n).toks, Captures(Low(sc, n).toks, line))
  IN [ slug |-> st[n].doc.slug, literalLen |-> Low(sc, n).literal_len,
       captures |-> [ g \in 1 .. Len(spans) |->
          [spec |-> st[n].groups[g], value |-> CaptureText(line, spans[g][1], spans[g][2])] ] ]

(* What is read back and labelled is what is shown of the site.            *)
LEMMA LabelShows ==
  ASSUME docs \in Catalogs, Shipped, NEW line \in Seq(Byte), Len(line) \in Number,
         NEW n \in Found(scanner, line)
  PROVE  /\ LabelOf(sites, ReadBack(HitOf(scanner, n, line), line)) = Show(sites, scanner, n, line)
         /\ ReadBack(HitOf(scanner, n, line), line).literalLen > 0
<1> DEFINE cut == Captures(Low(scanner, n).toks, line)
           spans == Spans(Low(scanner, n).toks, cut)
           hit == ReadBack(HitOf(scanner, n, line), line)
           N == Len(spans)
<1>1. n \in DOMAIN scanner /\ cut # NoMatch
  BY DEF Found
<1>2. /\ scanner[n] \in Message /\ lower_format[scanner[n]].ok /\ Low(scanner, n).literal_len > 0
      /\ n \in 1 .. Len(sites) /\ Len(sites) \in Nat
  BY <1>1, ScannerSites
<1>3. N = Cardinality(Specs(Low(scanner, n).toks)) /\ spans \in { c \in Seq(Pair) : Len(c) \in Number }
  BY <1>1, <1>2, SpansFit DEF Low
<1>4. DOMAIN sites[n].groups = 1 .. N
  <2>1. sites[n].groups = Low(scanner, n).groups
    BY <1>1, SitePages DEF Low
  <2>2. DOMAIN Low(scanner, n).groups = 1 .. Cardinality(Specs(Low(scanner, n).toks))
    BY <1>2, LoweredAssumption DEF Low
  <2>3. QED
    BY <1>3, <2>1, <2>2
<1> HIDE DEF cut, spans, N
<1>5. hit = [ site |-> n - 1, literalLen |-> Low(scanner, n).literal_len,
              captures |-> [ c \in 1 .. N |-> CaptureText(line, spans[c][1], spans[c][2]) ] ]
  BY DEF ReadBack, HitOf, spans, cut, N
<1> HIDE DEF hit
<1>6. hit.site + 1 = n /\ hit.literalLen = Low(scanner, n).literal_len
  <2>1. n - 1 + 1 = n
    BY <1>2
  <2>2. QED
    BY <1>5, <2>1
<1>7. /\ DOMAIN hit.captures = 1 .. N
      /\ \A g \in 1 .. N : hit.captures[g] = CaptureText(line, spans[g][1], spans[g][2])
  BY <1>5
<1>8. LabelOf(sites, hit) =
        [ slug |-> sites[n].doc.slug, literalLen |-> Low(scanner, n).literal_len,
          captures |-> [ g \in 1 .. N |->
            [spec |-> IF g \in DOMAIN sites[n].groups THEN sites[n].groups[g] ELSE "?",
             value |-> hit.captures[g]] ] ]
  BY <1>6, <1>7 DEF LabelOf
<1>9. [ g \in 1 .. N |-> [spec |-> IF g \in DOMAIN sites[n].groups THEN sites[n].groups[g] ELSE "?",
                          value |-> hit.captures[g]] ]
      = [ g \in 1 .. N |-> [spec |-> sites[n].groups[g], value |-> CaptureText(line, spans[g][1], spans[g][2])] ]
  BY <1>4, <1>7
<1>10. Show(sites, scanner, n, line) =
        [ slug |-> sites[n].doc.slug, literalLen |-> Low(scanner, n).literal_len,
          captures |-> [ g \in 1 .. N |->
            [spec |-> sites[n].groups[g], value |-> CaptureText(line, spans[g][1], spans[g][2])] ] ]
  BY DEF Show, spans, cut, N
<1>11. QED
  BY <1>2, <1>6, <1>8, <1>9, <1>10 DEF hit

(* The hits shown for a line: the sites that match, in the index's order.  *)
LEMMA LineShown ==
  ASSUME PipelineInv, phase = "done", NEW k \in DOMAIN raws
  PROVE  LET line == Core(raws, k)
             hits == results[k].hits
             found == Found(scanner, line)
         IN /\ results[k].core = line /\ line \in Seq(Byte) /\ Len(line) \in Number
            /\ Len(hits) \in Nat /\ DOMAIN hits = 1 .. Len(hits)
            /\ \A h \in DOMAIN hits : \E n \in found : hits[h] = Show(sites, scanner, n, line)
            /\ \A n \in found : \E h \in DOMAIN hits : hits[h] = Show(sites, scanner, n, line)
            /\ \A g, h \in DOMAIN hits : g < h =>
                 \E m, n \in found : /\ m < n /\ hits[g] = Show(sites, scanner, m, line)
                                     /\ hits[h] = Show(sites, scanner, n, line)
<1> DEFINE line == Core(raws, k)
           hits == results[k].hits
           found == Found(scanner, line)
           said == Said(scanner, raws, k)
           N == Len(said)
           kept == Scanned(decoded[k])
           at == Ascending(kept)
<1>1. docs \in Catalogs /\ raws \in Batches /\ Shipped /\ ReaderInv /\ left = 0 /\ Len(decoded) = Len(raws)
      /\ results = LabelsOf(raws, decoded, sites)
  BY DEF PipelineInv, IndexInv, ShippedInv, ReaderInv, ShownInv
<1>2. k \in 1 .. Len(raws) /\ k \in 1 .. Len(decoded)
  BY <1>1, BatchIsFinite
<1>3. line \in Seq(Byte) /\ Len(line) \in Number
  BY <1>1, <1>2, CoresAreLines
<1>4. results[k].core = line /\ hits = [ h \in DOMAIN at |-> LabelOf(sites, decoded[k][at[h]]) ]
  <2>1. results[k] = LabelsOf(raws, decoded, sites)[k]
    BY <1>1
  <2>2. QED
    BY <2>1 DEF LabelsOf, Core
<1>5. IsRead(decoded[k], scanner, raws, k, N)
  BY <1>1, <1>2, LineIsRead
<1> HIDE DEF kept, hits
<1>6. /\ said = Answer(scanner, line) /\ said \in Seq(Packable) /\ N \in Nat
      /\ \A x \in 1 .. N : \E n \in found : said[x] = HitOf(scanner, n, line)
      /\ \A n \in found : \E x \in 1 .. N : said[x] = HitOf(scanner, n, line)
      /\ \A x, y \in 1 .. N : x < y => said[x].site < said[y].site
  <2>1. said = Answer(scanner, line)
    BY DEF Said
  <2> HIDE DEF line, said
  <2>2. said \in Seq(Packable)
    BY <1>1, <1>3, <2>1, AnswerReads
  <2>3. \A x \in 1 .. N : \E n \in found : said[x] = HitOf(scanner, n, line)
    BY <1>1, <1>3, <2>1, AnswerReads
  <2>4. \A n \in found : \E x \in 1 .. N : said[x] = HitOf(scanner, n, line)
    BY <1>1, <1>3, <2>1, AnswerReads
  <2>5. \A x, y \in 1 .. N : x < y => said[x].site < said[y].site
    BY <1>1, <1>3, <2>1, AnswerReads
  <2>6. N \in Nat
    BY <2>2
  <2>7. QED
    BY <2>1, <2>2, <2>3, <2>4, <2>5, <2>6, Zenon
<1>7. DOMAIN decoded[k] = 1 .. N /\ \A x \in 1 .. N : decoded[k][x] = ReadBack(said[x], line)
  BY <1>5 DEF IsRead
<1> HIDE DEF said, N, line, found
<1>8. ASSUME NEW x \in 1 .. N, NEW n \in found, said[x] = HitOf(scanner, n, line)
      PROVE  LabelOf(sites, decoded[k][x]) = Show(sites, scanner, n, line) /\ decoded[k][x].literalLen > 0
  <2>1. decoded[k][x] = ReadBack(HitOf(scanner, n, line), line)
    BY <1>7, <1>8
  <2>2. /\ LabelOf(sites, ReadBack(HitOf(scanner, n, line), line)) = Show(sites, scanner, n, line)
        /\ ReadBack(HitOf(scanner, n, line), line).literalLen > 0
    BY <1>1, <1>3, LabelShows DEF found
  <2>3. QED
    BY <2>1, <2>2
<1>9. kept = 1 .. N
  BY <1>6, <1>7, <1>8 DEF kept, Scanned
<1>10. /\ at \in Seq(1 .. N)
       /\ \A x \in 1 .. N : \E h \in DOMAIN at : at[h] = x
       /\ \A g, h \in DOMAIN at : g < h => at[g] < at[h]
  <2>1. 1 .. N \in SUBSET (1 .. N)
    OBVIOUS
  <2>2. at = Ascending(1 .. N)
    BY <1>9
  <2> HIDE DEF at
  <2>3. QED
    BY <1>6, <2>1, <2>2, AscendingSorts
<1> HIDE DEF at
<1>11. DOMAIN hits = DOMAIN at /\ DOMAIN at = 1 .. Len(at) /\ Len(at) \in Nat /\ Len(hits) = Len(at)
  <2>1. DOMAIN at = 1 .. Len(at) /\ Len(at) \in Nat
    BY <1>10
  <2>2. hits = [ h \in 1 .. Len(at) |-> LabelOf(sites, decoded[k][at[h]]) ]
    BY <1>4, <2>1
  <2>3. QED
    BY <2>1, <2>2
<1>12. ASSUME NEW h \in DOMAIN at
       PROVE  at[h] \in 1 .. N /\ hits[h] = LabelOf(sites, decoded[k][at[h]])
  <2>1. hits[h] = LabelOf(sites, decoded[k][at[h]])
    BY <1>4
  <2>2. h \in 1 .. Len(at)
    BY <1>11
  <2>3. at[h] \in 1 .. N
    <3>1. \A X : at \in Seq(X) => at[h] \in X
      BY <2>2
    <3>2. QED
      BY <1>10, <3>1
  <2>4. QED
    BY <2>1, <2>3
<1>13. ASSUME NEW h \in DOMAIN at
       PROVE  \E n \in found : hits[h] = Show(sites, scanner, n, line) /\ said[at[h]] = HitOf(scanner, n, line)
  <2>1. PICK x \in 1 .. N : x = at[h] /\ hits[h] = LabelOf(sites, decoded[k][x])
    BY <1>12
  <2>2. PICK n \in found : said[x] = HitOf(scanner, n, line)
    BY <1>6
  <2>3. QED
    BY <1>8, <2>1, <2>2
<1>14. ASSUME NEW n \in found
       PROVE  \E h \in DOMAIN at : hits[h] = Show(sites, scanner, n, line)
  <2>1. PICK x \in 1 .. N : said[x] = HitOf(scanner, n, line)
    BY <1>6
  <2>2. PICK h \in DOMAIN at : at[h] = x
    BY <1>10
  <2>3. QED
    BY <1>8, <1>12, <2>1, <2>2
<1>15. ASSUME NEW g \in DOMAIN at, NEW h \in DOMAIN at, g < h
       PROVE  \E m, n \in found : /\ m < n /\ hits[g] = Show(sites, scanner, m, line)
                                  /\ hits[h] = Show(sites, scanner, n, line)
  <2>1. PICK m \in found : hits[g] = Show(sites, scanner, m, line) /\ said[at[g]] = HitOf(scanner, m, line)
    BY <1>13
  <2>2. PICK n \in found : hits[h] = Show(sites, scanner, n, line) /\ said[at[h]] = HitOf(scanner, n, line)
    BY <1>13
  <2>3. at[g] < at[h] /\ at[g] \in 1 .. N /\ at[h] \in 1 .. N
    BY <1>10, <1>12, <1>15
  <2>4. said[at[g]].site < said[at[h]].site
    BY <1>6, <2>3
  <2>5. m - 1 < n - 1
    BY <2>1, <2>2, <2>4 DEF HitOf
  <2>6. m \in Int /\ n \in Int
    <3>1. DOMAIN scanner = 1 .. Len(sites)
      BY <1>1, ScannerSites
    <3>2. QED
      BY <3>1 DEF found, Found
  <2>7. m < n
    BY <2>5, <2>6
  <2>8. QED
    BY <2>1, <2>2, <2>7
<1>16. QED
  BY <1>3, <1>4, <1>11, <1>13, <1>14, <1>15 DEF hits, line, found

(* Sites that match a line, and pages whose format does.                   *)
Rendered(d, line) ==
  /\ lower_format[d.message].ok /\ lower_format[d.message].literal_len > 0
  /\ Cut(d, line) # NoMatch

(* The sites that match stand for the pages whose format does.             *)
LEMMA FoundPages ==
  ASSUME docs \in Catalogs, Shipped, NEW line
  PROVE  /\ \A n \in Found(scanner, line) :
              /\ sites[n].doc \in Range(docs) /\ Rendered(sites[n].doc, line)
              /\ Page(sites[n].doc.slug) = sites[n].doc
              /\ Show(sites, scanner, n, line).slug = sites[n].doc.slug
         /\ \A d \in Range(docs) : Rendered(d, line) =>
              \E n \in Found(scanner, line) : sites[n].doc = d
         /\ \A m, n \in Found(scanner, line) : m < n => MoreSpecific(sites[m], sites[n])
<1>1. ASSUME NEW n \in Found(scanner, line)
      PROVE  /\ sites[n].doc \in Range(docs) /\ Rendered(sites[n].doc, line)
             /\ Page(sites[n].doc.slug) = sites[n].doc
             /\ Show(sites, scanner, n, line).slug = sites[n].doc.slug
             /\ n \in DOMAIN sites
  <2>1. n \in DOMAIN scanner /\ Captures(Low(scanner, n).toks, line) # NoMatch
    BY DEF Found
  <2>2. /\ n \in DOMAIN sites /\ sites[n].doc \in Range(docs) /\ Scannable(sites[n].doc)
        /\ Page(sites[n].doc.slug) = sites[n].doc /\ scanner[n] = sites[n].doc.message
    BY <2>1, SitePages
  <2>3. Rendered(sites[n].doc, line)
    BY <2>1, <2>2 DEF Rendered, Scannable, Cut, Low
  <2>4. Show(sites, scanner, n, line).slug = sites[n].doc.slug
    BY DEF Show
  <2>5. QED
    BY <2>2, <2>3, <2>4
<1>2. ASSUME NEW d \in Range(docs), Rendered(d, line)
      PROVE  \E n \in Found(scanner, line) : sites[n].doc = d
  <2>1. PICK n \in DOMAIN scanner : sites[n].doc = d /\ scanner[n] = d.message
    BY <1>2, PageSites DEF Rendered, Scannable
  <2>2. n \in Found(scanner, line)
    BY <1>2, <2>1 DEF Rendered, Cut, Found, Low
  <2>3. QED
    BY <2>1, <2>2
<1>3. ASSUME NEW m \in Found(scanner, line), NEW n \in Found(scanner, line), m < n
      PROVE  MoreSpecific(sites[m], sites[n])
  <2>1. m \in DOMAIN sites /\ n \in DOMAIN sites
    BY <1>1
  <2>2. QED
    BY <1>3, <2>1 DEF Shipped
<1>4. QED
  BY <1>1, <1>2, <1>3

(* What is shown of a line, in terms of the pages.                         *)
LEMMA LinePages ==
  ASSUME PipelineInv, phase = "done", NEW k \in DOMAIN raws
  PROVE  LET hits == results[k].hits
             Len0(slug) == lower_format[Page(slug).message].literal_len
         IN /\ { hits[h].slug : h \in DOMAIN hits } =
                 { d.slug : d \in { x \in Range(docs) : Rendered(x, results[k].core) } }
            /\ \A h \in 2 .. Len(hits) :
                 \/ Len0(hits[h - 1].slug) > Len0(hits[h].slug)
                 \/ /\ Len0(hits[h - 1].slug) = Len0(hits[h].slug)
                    /\ SlugRank[hits[h - 1].slug] < SlugRank[hits[h].slug]
<1> DEFINE hits == results[k].hits
           line == Core(raws, k)
           found == Found(scanner, line)
           Len0(slug) == lower_format[Page(slug).message].literal_len
<1>1. docs \in Catalogs /\ Shipped
  BY DEF PipelineInv, IndexInv, ShippedInv
<1>2. /\ results[k].core = line /\ Len(hits) \in Nat /\ DOMAIN hits = 1 .. Len(hits)
      /\ \A h \in DOMAIN hits : \E n \in found : hits[h] = Show(sites, scanner, n, line)
      /\ \A n \in found : \E h \in DOMAIN hits : hits[h] = Show(sites, scanner, n, line)
      /\ \A g, h \in DOMAIN hits : g < h =>
           \E m, n \in found : /\ m < n /\ hits[g] = Show(sites, scanner, m, line)
                               /\ hits[h] = Show(sites, scanner, n, line)
  BY LineShown
<1> HIDE DEF hits, line
<1>3. /\ \A n \in found : /\ sites[n].doc \in Range(docs) /\ Rendered(sites[n].doc, line)
                          /\ Page(sites[n].doc.slug) = sites[n].doc
                          /\ Show(sites, scanner, n, line).slug = sites[n].doc.slug
      /\ \A d \in Range(docs) : Rendered(d, line) => \E n \in found : sites[n].doc = d
      /\ \A m, n \in found : m < n => MoreSpecific(sites[m], sites[n])
  BY <1>1, FoundPages
<1>4. \A n \in found : sites[n].literalLen = Len0(sites[n].doc.slug)
  <2> TAKE n \in found
  <2>1. n \in DOMAIN scanner
    BY DEF Found
  <2>2. /\ sites[n].literalLen = lower_format[sites[n].doc.message].literal_len
        /\ Page(sites[n].doc.slug) = sites[n].doc
    BY <1>1, <2>1, SitePages
  <2>3. QED
    BY <2>2
<1> HIDE DEF found, Len0
<1>5. { hits[h].slug : h \in DOMAIN hits } = { d.slug : d \in { x \in Range(docs) : Rendered(x, line) } }
  <2>1. ASSUME NEW h \in DOMAIN hits
        PROVE  \E d \in Range(docs) : Rendered(d, line) /\ hits[h].slug = d.slug
    <3>1. PICK n \in found : hits[h] = Show(sites, scanner, n, line)
      BY <1>2
    <3>2. QED
      BY <1>3, <3>1
  <2>2. ASSUME NEW d \in Range(docs), Rendered(d, line)
        PROVE  \E h \in DOMAIN hits : hits[h].slug = d.slug
    <3>1. PICK n \in found : sites[n].doc = d
      BY <1>3, <2>2
    <3>2. PICK h \in DOMAIN hits : hits[h] = Show(sites, scanner, n, line)
      BY <1>2
    <3>3. QED
      BY <1>3, <3>1, <3>2
  <2>3. QED
    BY <2>1, <2>2
<1>6. ASSUME NEW h \in 2 .. Len(hits)
      PROVE  \/ Len0(hits[h - 1].slug) > Len0(hits[h].slug)
             \/ /\ Len0(hits[h - 1].slug) = Len0(hits[h].slug)
                /\ SlugRank[hits[h - 1].slug] < SlugRank[hits[h].slug]
  <2>1. PICK g \in DOMAIN hits : g = h - 1 /\ g < h /\ h \in DOMAIN hits
    <3>1. PICK g : g = h - 1
      OBVIOUS
    <3>2. g \in 1 .. Len(hits) /\ g < h /\ h \in 1 .. Len(hits)
      BY <1>2, <3>1
    <3>3. QED
      BY <1>2, <3>1, <3>2
  <2>2. PICK m \in found, n \in found : /\ m < n /\ hits[g] = Show(sites, scanner, m, line)
                                        /\ hits[h] = Show(sites, scanner, n, line)
    BY <1>2, <2>1
  <2>3. MoreSpecific(sites[m], sites[n])
    BY <1>3, <2>2
  <2>4. hits[g].slug = sites[m].doc.slug /\ hits[h].slug = sites[n].doc.slug
    BY <1>3, <2>2
  <2>5. sites[m].literalLen = Len0(hits[g].slug) /\ sites[n].literalLen = Len0(hits[h].slug)
    BY <1>4, <2>4
  <2>6. \/ Len0(hits[g].slug) > Len0(hits[h].slug)
        \/ Len0(hits[g].slug) = Len0(hits[h].slug) /\ SlugRank[hits[g].slug] < SlugRank[hits[h].slug]
    BY <2>3, <2>4, <2>5 DEF MoreSpecific
  <2>7. QED
    BY <2>1, <2>6
<1>7. QED
  BY <1>2, <1>5, <1>6 DEF hits, Len0

(* The pages shown for a line are those whose format it renders, the more  *)
(* specific first.                                                         *)
THEOREM PagesShownMatch == Spec => []ShownPagesMatch
<1>1. PipelineInv => ShownPagesMatch
  <2> SUFFICES ASSUME PipelineInv, phase = "done", NEW k \in DOMAIN raws
               PROVE  LET hits == results[k].hits
                          Len0(slug) == lower_format[Page(slug).message].literal_len
                      IN /\ { hits[h].slug : h \in DOMAIN hits } =
                              { d.slug : d \in { x \in Range(docs) :
                                  /\ lower_format[x.message].ok /\ lower_format[x.message].literal_len > 0
                                  /\ Cut(x, results[k].core) # NoMatch } }
                         /\ \A h \in 2 .. Len(hits) :
                              \/ Len0(hits[h - 1].slug) > Len0(hits[h].slug)
                              \/ /\ Len0(hits[h - 1].slug) = Len0(hits[h].slug)
                                 /\ SlugRank[hits[h - 1].slug] < SlugRank[hits[h].slug]
    BY DEF ShownPagesMatch
  <2>1. QED
    BY LinePages DEF Rendered
<1>2. QED
  BY <1>1, PipelineInvariant, PTL

-----------------------------------------------------------------------------
(* The text of a capture.                                                  *)

Singles(t) == [ i \in 1 .. Len(t) |-> <<t[i]>> ]

(* Sequences of the same elements are equal.                               *)
LEMMA SameSequence ==
  ASSUME NEW X, NEW a \in Seq(X), NEW b \in Seq(X), Len(a) = Len(b),
         \A i \in 1 .. Len(a) : a[i] = b[i]
  PROVE  a = b
<1>1. Len(a) \in Nat /\ a = [ i \in 1 .. Len(a) |-> a[i] ]
  OBVIOUS
<1>2. Len(b) \in Nat /\ b = [ i \in 1 .. Len(b) |-> b[i] ]
  OBVIOUS
<1>3. QED
  BY <1>1, <1>2

(* The text between two offsets.                                           *)
LEMMA PartReads ==
  ASSUME NEW X, NEW t \in Seq(X), NEW s \in 0 .. Len(t), NEW e \in 0 .. Len(t)
  PROVE  /\ SubSeq(t, s + 1, e) \in Seq(X) /\ Len(SubSeq(t, s + 1, e)) \in Nat
         /\ Len(SubSeq(t, s + 1, e)) = IF s + 1 <= e THEN e - s ELSE 0
         /\ \A i \in 1 .. Len(SubSeq(t, s + 1, e)) :
              SubSeq(t, s + 1, e)[i] = t[s + i] /\ s + i \in 1 .. Len(t)
<1>1. Len(t) \in Nat /\ s \in Nat /\ e \in Nat /\ s <= Len(t) /\ e <= Len(t) /\ s + 1 \in Nat \ {0}
  OBVIOUS
<1>2. PICK m \in Nat : m = IF s + 1 <= e THEN e - s ELSE 0
  <2>1. (IF s + 1 <= e THEN e - s ELSE 0) \in Nat
    BY <1>1
  <2>2. QED
    BY <2>1
<1>3. SubSeq(t, s + 1, e) \in Seq(X)
  BY <1>1, CutOut
<1>4. Len(SubSeq(t, s + 1, e)) = m
  <2>1. CASE s + 1 <= e
    <3>1. Len(SubSeq(t, s + 1, e)) = e - (s + 1) + 1
      BY <1>1, <2>1
    <3>2. QED
      BY <1>1, <1>2, <2>1, <3>1
  <2>2. CASE ~(s + 1 <= e)
    <3>1. SubSeq(t, s + 1, e) = <<>>
      BY <1>1, <2>2
    <3>2. QED
      BY <1>2, <2>2, <3>1
  <2>3. QED
    BY <2>1, <2>2
<1>5. ASSUME NEW i \in 1 .. m
      PROVE  SubSeq(t, s + 1, e)[i] = t[s + i] /\ s + i \in 1 .. Len(t)
  <2>1. s + 1 <= e /\ m = e - s
    BY <1>2
  <2>2. s + i \in 1 .. Len(t) /\ s + 1 + i - 1 = s + i
    BY <1>1, <2>1
  <2>3. SubSeq(t, s + 1, e)[i] = t[s + 1 + i - 1]
    BY <1>1, <2>1
  <2>4. QED
    BY <2>2, <2>3
<1>6. QED
  BY <1>2, <1>3, <1>4, <1>5

(* One unit for each byte of an ASCII text.                                *)
LEMMA AsciiUnits ==
  ASSUME NEW t \in Seq(Byte), isAscii(t)
  PROVE  Utf16(t) = Singles(t)
<1> DEFINE n == Len(t)
           first(k) == [ i \in 1 .. k |-> <<t[i]>> ]
           body(f, k) == CASE k = 0 -> <<>>
                           [] k > 0 /\ t[k] \in Cont -> f[k - 1]
                           [] OTHER -> f[k - 1] \o
                                (IF Width[t[k]] = 4 THEN <<SubSeq(t, k, k + 1), SubSeq(t, k + 2, k + 3)>>
                                 ELSE <<SubSeq(t, k, k + Width[t[k]] - 1)>>)
           upto == CHOOSE f : f = [ k \in 0 .. n |-> body(f, k) ]
           g == [ k \in 0 .. n |-> first(k) ]
<1>1. n \in Nat /\ \A k \in 1 .. n : t[k] \in Byte /\ t[k] \notin Cont /\ Width[t[k]] = 1
  BY TextAssumption DEF isAscii
<1>2. Utf16(t) = upto[n]
  BY DEF Utf16
<1>3. ASSUME NEW k \in 1 .. n PROVE SubSeq(t, k, k + Width[t[k]] - 1) = <<t[k]>>
  <2>1. k + Width[t[k]] - 1 = k
    BY <1>1
  <2>2. SubSeq(t, k, k) = <<t[k]>>
    <3> DEFINE cut == SubSeq(t, k - 1 + 1, k)
    <3>1. k - 1 \in 0 .. Len(t) /\ k \in 0 .. Len(t) /\ k - 1 + 1 = k /\ k - (k - 1) = 1
      BY <1>1
    <3>2. cut \in Seq(Byte) /\ Len(cut) = 1 /\ cut[1] = t[k - 1 + 1]
      <4>1. /\ cut \in Seq(Byte) /\ Len(cut) \in Nat
            /\ Len(cut) = IF k - 1 + 1 <= k THEN k - (k - 1) ELSE 0
            /\ \A i \in 1 .. Len(cut) : cut[i] = t[k - 1 + i] /\ k - 1 + i \in 1 .. Len(t)
        BY <3>1, PartReads
      <4> HIDE DEF cut
      <4>2. Len(cut) = 1
        BY <1>1, <3>1, <4>1
      <4>3. QED
        BY <4>1, <4>2
    <3> HIDE DEF cut
    <3>3. <<t[k]>> \in Seq(Byte) /\ Len(<<t[k]>>) = 1 /\ <<t[k]>>[1] = t[k]
      BY <1>1
    <3>4. cut = <<t[k]>>
      <4>1. \A i \in 1 .. Len(cut) : cut[i] = <<t[k]>>[i]
        BY <3>1, <3>2, <3>3
      <4>2. QED
        BY <3>2, <3>3, <4>1, SameSequence
    <3>5. QED
      BY <3>1, <3>4 DEF cut
  <2>3. QED
    BY <2>1, <2>2
<1>4. ASSUME NEW k \in 1 .. n PROVE first(k - 1) \o <<<<t[k]>>>> = first(k)
  <2> DEFINE a == first(k - 1)
             b == <<<<t[k]>>>>
  <2>1. k \in Nat /\ k - 1 \in Nat
    BY <1>1
  <2>2. a \in Seq(Seq(Byte)) /\ Len(a) = k - 1 /\ \A i \in 1 .. k - 1 : a[i] = <<t[i]>>
    <3>1. \A i \in 1 .. k - 1 : <<t[i]>> \in Seq(Byte)
      BY <1>1
    <3>2. QED
      BY <2>1, <3>1
  <2>3. b \in Seq(Seq(Byte)) /\ Len(b) = 1 /\ b[1] = <<t[k]>>
    BY <1>1
  <2> HIDE DEF a, b
  <2>4. a \o b \in Seq(Seq(Byte)) /\ Len(a \o b) = k
        /\ (\A i \in 1 .. k - 1 : (a \o b)[i] = a[i]) /\ (a \o b)[k] = b[1]
    <3>1. /\ a \o b \in Seq(Seq(Byte)) /\ Len(a \o b) = Len(a) + Len(b)
          /\ \A i \in 1 .. Len(a) : (a \o b)[i] = a[i]
          /\ \A i \in 1 .. Len(b) : (a \o b)[Len(a) + i] = b[i]
      <4>1. a \in Seq(Seq(Byte)) /\ b \in Seq(Seq(Byte))
        BY <2>2, <2>3
      <4>2. PICK X : X = Seq(Byte)
        OBVIOUS
      <4>3. a \in Seq(X) /\ b \in Seq(X)
        BY <4>1, <4>2
      <4>4. /\ a \o b \in Seq(X) /\ Len(a \o b) = Len(a) + Len(b)
            /\ \A i \in 1 .. Len(a) : (a \o b)[i] = a[i]
            /\ \A i \in 1 .. Len(b) : (a \o b)[Len(a) + i] = b[i]
        BY <4>3, Joins
      <4>5. QED
        BY <4>2, <4>4
    <3>2. k - 1 + 1 = k /\ 1 \in 1 .. Len(b)
      BY <2>1, <2>3
    <3>3. (a \o b)[Len(a) + 1] = b[1] /\ Len(a) + 1 = k
      BY <2>2, <3>1, <3>2
    <3>4. QED
      BY <2>2, <2>3, <3>1, <3>2, <3>3
  <2>5. \A i \in 1 .. k : (a \o b)[i] = <<t[i]>>
    BY <2>1, <2>2, <2>3, <2>4
  <2>6. first(k) \in Seq(Seq(Byte)) /\ Len(first(k)) = k /\ \A i \in 1 .. k : first(k)[i] = <<t[i]>>
    <3>1. \A i \in 1 .. k : <<t[i]>> \in Seq(Byte)
      BY <1>1
    <3>2. QED
      BY <2>1, <3>1
  <2> HIDE DEF first
  <2>7. a \o b = first(k)
    <3>1. \A i \in 1 .. Len(a \o b) : (a \o b)[i] = first(k)[i]
      BY <2>4, <2>5, <2>6
    <3>2. QED
      BY <2>4, <2>6, <3>1, SameSequence
  <2>8. QED
    BY <2>7 DEF a, b
<1>5. ASSUME NEW f, NEW k \in 1 .. n PROVE body(f, k) = f[k - 1] \o <<<<t[k]>>>>
  <2>1. k # 0 /\ k > 0 /\ t[k] \notin Cont /\ Width[t[k]] # 4
    BY <1>1
  <2>2. QED
    BY <1>3, <2>1
<1>6. \A f : body(f, 0) = <<>>
  OBVIOUS
<1>7. first(0) = <<>>
  OBVIOUS
<1> HIDE DEF body, first
<1>8. g = [ k \in 0 .. n |-> body(g, k) ]
  <2>1. ASSUME NEW k \in 0 .. n PROVE first(k) = body(g, k)
    <3>1. CASE k = 0
      BY <1>6, <1>7, <3>1
    <3>2. CASE k \in 1 .. n
      <4>1. g[k - 1] = first(k - 1)
        BY <1>1, <3>2
      <4> HIDE DEF g
      <4>2. body(g, k) = first(k - 1) \o <<<<t[k]>>>>
        BY <1>5, <3>2, <4>1
      <4>3. QED
        BY <1>4, <3>2, <4>2
    <3>3. QED
      BY <3>1, <3>2
  <2>2. QED
    BY <2>1
<1> HIDE DEF g
<1>9. upto = [ k \in 0 .. n |-> body(upto, k) ]
  BY <1>8, Zenon
<1> HIDE DEF upto
<1>10. \A k \in 0 .. n : k \in { j \in 0 .. n : upto[j] = first(j) }
  <2> DEFINE P == { j \in 0 .. n : upto[j] = first(j) }
  <2>1. 0 \in P
    BY <1>1, <1>6, <1>7, <1>9
  <2>2. ASSUME NEW k \in 1 .. n, k - 1 \in P PROVE k \in P
    <3>1. upto[k - 1] = first(k - 1)
      BY <2>2
    <3>2. upto[k] = body(upto, k)
      BY <1>9
    <3>3. upto[k] = first(k)
      BY <1>4, <1>5, <3>1, <3>2
    <3>4. QED
      BY <3>3
  <2> HIDE DEF P, n
  <2>3. QED
    BY <1>1, <2>1, <2>2, Climbs DEF P
<1>11. upto[n] = first(n)
  BY <1>1, <1>10
<1>12. QED
  BY <1>2, <1>11 DEF first, Singles

(* A text is its bytes, one behind the other.                              *)
LEMMA SinglesJoin ==
  ASSUME NEW t \in Seq(Byte)
  PROVE  FlattenSeq(Singles(t)) = t
<1> DEFINE parts == Singles(t)
           n == Len(t)
           flat == FlattenSeq(parts)
<1>1. n \in Nat /\ \A i \in 1 .. n : t[i] \in Byte
  OBVIOUS
<1>2. parts \in Seq(Seq(Byte)) /\ Len(parts) = n /\ \A i \in 1 .. n : parts[i] = <<t[i]>> /\ Len(parts[i]) = 1
  <2>1. \A i \in 1 .. n : <<t[i]>> \in Seq(Byte)
    BY <1>1
  <2>2. parts = [ i \in 1 .. n |-> <<t[i]>> ]
    BY DEF Singles
  <2> HIDE DEF parts, n
  <2>3. QED
    BY <1>1, <2>1, <2>2
<1> HIDE DEF parts
<1>3. PICK end : Ends(parts, end)
  BY <1>2, EndsExist
<1>4. flat \in Seq(Byte) /\ Laid(flat, parts, end, Len(parts))
  BY <1>2, <1>3, FlattenLays
<1> HIDE DEF flat
<1>5. \A i \in 0 .. n : i \in { j \in 0 .. n : end[j] = j }
  <2> DEFINE P == { j \in 0 .. n : end[j] = j }
  <2>1. 0 \in P
    BY <1>1, <1>3 DEF Ends
  <2>2. ASSUME NEW k \in 1 .. n, k - 1 \in P PROVE k \in P
    <3>1. end[k] = end[k - 1] + Len(parts[k]) /\ Len(parts[k]) = 1 /\ end[k - 1] = k - 1
      BY <1>2, <1>3, <2>2 DEF Ends
    <3>2. end[k] = k
      BY <1>1, <3>1
    <3>3. QED
      BY <3>2
  <2> HIDE DEF P, n
  <2>3. QED
    BY <1>1, <2>1, <2>2, Climbs DEF P
<1>6. Len(flat) = n
  <2>1. end[n] = n
    BY <1>1, <1>5
  <2>2. QED
    BY <1>2, <1>4, <2>1 DEF Laid
<1>7. ASSUME NEW i \in 1 .. n PROVE flat[i] = t[i]
  <2>1. end[i - 1] = i - 1
    BY <1>1, <1>5
  <2>2. flat[end[i - 1] + 1] = parts[i][1]
    BY <1>2, <1>4 DEF Laid
  <2>3. end[i - 1] + 1 = i
    BY <1>1, <2>1
  <2>4. parts[i][1] = t[i]
    BY <1>2
  <2>5. QED
    BY <2>2, <2>3, <2>4
<1>8. QED
  BY <1>1, <1>4, <1>6, <1>7 DEF flat, parts

(* Either way of reading a capture gives the text between its offsets,     *)
(* less a byte order mark in front.                                        *)
LEMMA CaptureIsText ==
  ASSUME NEW line \in Seq(Byte), NEW s \in 0 .. Len(line), NEW e \in 0 .. Len(line)
  PROVE  CaptureText(line, s, e) = TextDecode(SubSeq(line, s + 1, e))
<1> DEFINE text == SubSeq(line, s + 1, e)
<1>1. CASE ~isAscii(line)
  BY <1>1 DEF CaptureText
<1>2. CASE isAscii(line)
  <2>1. /\ text \in Seq(Byte) /\ Len(text) \in Nat
        /\ Len(text) = IF s + 1 <= e THEN e - s ELSE 0
        /\ \A i \in 1 .. Len(text) : text[i] = line[s + i] /\ s + i \in 1 .. Len(line)
    BY PartReads
  <2>2. Utf16(line) = Singles(line)
    BY <1>2, AsciiUnits
  <2>3. /\ Singles(line) \in Seq(Seq(Byte)) /\ Len(Singles(line)) = Len(line)
        /\ \A i \in 1 .. Len(line) : Singles(line)[i] = <<line[i]>>
    <3>1. \A i \in 1 .. Len(line) : <<line[i]>> \in Seq(Byte)
      OBVIOUS
    <3>2. QED
      BY <3>1 DEF Singles
  <2> DEFINE units == Singles(line)
             part == SubSeq(units, s + 1, e)
  <2>4. CaptureText(line, s, e) = FlattenSeq(part)
    <3>1. ~(e > Len(units)) /\ ~(s < 0)
      BY <2>3
    <3>2. QED
      BY <1>2, <2>2, <3>1 DEF CaptureText, slice
  <2> HIDE DEF units
  <2>5. /\ part \in Seq(Seq(Byte)) /\ Len(part) = Len(text)
        /\ \A i \in 1 .. Len(text) : part[i] = units[s + i]
    <3>1. units \in Seq(Seq(Byte)) /\ s \in 0 .. Len(units) /\ e \in 0 .. Len(units)
      BY <2>3 DEF units
    <3>2. /\ part \in Seq(Seq(Byte)) /\ Len(part) = IF s + 1 <= e THEN e - s ELSE 0
          /\ \A i \in 1 .. Len(part) : part[i] = units[s + i]
      BY <3>1, PartReads
    <3> HIDE DEF part, text
    <3>3. Len(part) = Len(text)
      BY <2>1, <3>2
    <3>4. QED
      BY <3>2, <3>3
  <2>6. part = Singles(text)
    <3>1. \A i \in 1 .. Len(text) : part[i] = <<text[i]>>
      BY <2>1, <2>3, <2>5 DEF units
    <3> HIDE DEF part, text
    <3>2. part = [ i \in 1 .. Len(part) |-> part[i] ]
      BY <2>5
    <3>3. part = [ i \in 1 .. Len(text) |-> <<text[i]>> ]
      BY <2>5, <3>1, <3>2
    <3>4. QED
      BY <3>3 DEF Singles
  <2>7. FlattenSeq(Singles(text)) = text
    BY <2>1, SinglesJoin
  <2>8. TextDecode(text) = text
    <3>1. SUFFICES ~StartsWith(text, 0, Bom)
      BY DEF TextDecode
    <3>2. SUFFICES ASSUME StartsWith(text, 0, Bom) PROVE FALSE
      OBVIOUS
    <3> HIDE DEF text
    <3>3. Bom \in Seq(Byte) /\ Len(Bom) \in Nat /\ Len(Bom) >= 1 /\ Bom[1] \notin Ascii
      BY TextAssumption
    <3>4. 0 + Len(Bom) <= Len(text) /\ SubSeq(text, 0 + 1, 0 + Len(Bom)) = Bom
      BY <3>2 DEF StartsWith
    <3>5. SubSeq(text, 1, Len(Bom))[1] = text[1]
      BY <2>1, <3>3, <3>4
    <3>6. text[1] = Bom[1] /\ 1 \in 1 .. Len(text)
      BY <2>1, <3>3, <3>4, <3>5
    <3>7. text[1] \in Ascii
      BY <1>2, <2>1, <3>6 DEF isAscii
    <3>8. QED
      BY <3>3, <3>6, <3>7
  <2>9. QED
    BY <2>4, <2>6, <2>7, <2>8
<1>3. QED
  BY <1>1, <1>2

(* What is shown of a hit is what its page's format captured.              *)
LEMMA HitLabelled ==
  ASSUME PipelineInv, phase = "done", NEW k \in DOMAIN raws, NEW h \in DOMAIN results[k].hits
  PROVE  LET hit == results[k].hits[h]
             page == Page(hit.slug)
             spans == Spans(lower_format[page.message].toks, Cut(page, results[k].core))
         IN hit.captures =
              [ g \in DOMAIN spans |->
                  [ spec |-> lower_format[page.message].groups[g],
                    value |-> TextDecode(SubSeq(results[k].core, spans[g][1] + 1, spans[g][2])) ] ]
<1> DEFINE line == Core(raws, k)
           hit == results[k].hits[h]
           page == Page(hit.slug)
           spans == Spans(lower_format[page.message].toks, Cut(page, line))
<1>1. docs \in Catalogs /\ Shipped
  BY DEF PipelineInv, IndexInv, ShippedInv
<1>2. /\ results[k].core = line /\ line \in Seq(Byte) /\ Len(line) \in Number
      /\ \E n \in Found(scanner, line) : hit = Show(sites, scanner, n, line)
  BY LineShown
<1> HIDE DEF line, hit
<1>3. PICK n \in Found(scanner, line) : hit = Show(sites, scanner, n, line)
  BY <1>2
<1>4. n \in DOMAIN scanner /\ Captures(Low(scanner, n).toks, line) # NoMatch
  BY DEF Found
<1>5. /\ page = sites[n].doc /\ hit.slug = sites[n].doc.slug
      /\ scanner[n] = page.message /\ sites[n].groups = lower_format[page.message].groups
  <2>1. hit.slug = sites[n].doc.slug
    BY <1>3 DEF Show
  <2>2. Page(sites[n].doc.slug) = sites[n].doc
    BY <1>1, <1>4, SitePages
  <2>3. page = sites[n].doc
    BY <2>1, <2>2
  <2>4. scanner[n] = sites[n].doc.message /\ sites[n].groups = lower_format[sites[n].doc.message].groups
    BY <1>1, <1>4, SitePages
  <2>5. QED
    BY <2>1, <2>3, <2>4
<1> HIDE DEF page
<1>6. spans = Spans(Low(scanner, n).toks, Captures(Low(scanner, n).toks, line))
  BY <1>5 DEF Cut, Low
<1>7. /\ spans \in Seq(Pair)
      /\ \A g \in DOMAIN spans : spans[g][1] \in 0 .. Len(line) /\ spans[g][2] \in 0 .. Len(line)
  <2>1. scanner[n] \in Message /\ lower_format[scanner[n]].ok
    BY <1>1, <1>4, ScannerSites
  <2>2. spans = Spans(lower_format[scanner[n]].toks, Captures(lower_format[scanner[n]].toks, line))
        /\ Captures(lower_format[scanner[n]].toks, line) # NoMatch
    BY <1>4, <1>6 DEF Low
  <2> HIDE DEF spans
  <2>3. QED
    BY <1>2, <2>1, <2>2, SpansFit
<1>8. hit.captures = [ g \in 1 .. Len(spans) |->
        [spec |-> sites[n].groups[g], value |-> CaptureText(line, spans[g][1], spans[g][2])] ]
  BY <1>3, <1>6 DEF Show
<1> HIDE DEF spans
<1>9. DOMAIN spans = 1 .. Len(spans)
  BY <1>7
<1>10. \A g \in DOMAIN spans :
         CaptureText(line, spans[g][1], spans[g][2]) = TextDecode(SubSeq(line, spans[g][1] + 1, spans[g][2]))
  BY <1>2, <1>7, CaptureIsText
<1>11. hit.captures = [ g \in DOMAIN spans |->
         [ spec |-> lower_format[page.message].groups[g],
           value |-> TextDecode(SubSeq(line, spans[g][1] + 1, spans[g][2])) ] ]
  BY <1>5, <1>8, <1>9, <1>10
<1>12. QED
  BY <1>2, <1>11 DEF spans, page, hit

(* Every value shown is the text its conversion captured, under that       *)
(* conversion's label.                                                     *)
THEOREM CapturesAreLabelled == Spec => []CapturesLabelled
<1>1. PipelineInv => CapturesLabelled
  <2> SUFFICES ASSUME PipelineInv, phase = "done", NEW k \in DOMAIN raws, NEW h \in DOMAIN results[k].hits
               PROVE  LET hit == results[k].hits[h]
                          page == Page(hit.slug)
                          spans == Spans(lower_format[page.message].toks, Cut(page, results[k].core))
                      IN hit.captures =
                           [ g \in DOMAIN spans |->
                               [ spec |-> lower_format[page.message].groups[g],
                                 value |-> TextDecode(SubSeq(results[k].core, spans[g][1] + 1, spans[g][2])) ] ]
    BY DEF CapturesLabelled, EveryCapture
  <2>1. QED
    BY HitLabelled
<1>2. QED
  BY <1>1, PipelineInvariant, PTL
-----------------------------------------------------------------------------
(* The message behind its prefix.                                          *)

(* Min and Max are the extremes.                                           *)
LEMMA ExtremesAre ==
  ASSUME NEW m \in Nat, NEW V \in SUBSET (1 .. m), NEW x \in V
  PROVE  /\ (\A w \in V : w <= x) => Max(V) = x
         /\ (\A w \in V : x <= w) => Min(V) = x
<1>1. \E v \in V : \A w \in V : v <= w
  <2>1. V \in SUBSET (0 .. m) /\ V # {}
    OBVIOUS
  <2>2. QED
    BY <2>1, Extremes
<1>2. \E v \in V : \A w \in V : v >= w
  <2>1. V \in SUBSET (0 .. m) /\ V # {}
    OBVIOUS
  <2>2. \E v \in V : \A w \in V : w <= v
    BY <2>1, Extremes
  <2>3. QED
    BY <2>2
<1>3. Max(V) \in V /\ \A w \in V : Max(V) >= w
  BY <1>2 DEF Max
<1>4. Min(V) \in V /\ \A w \in V : Min(V) <= w
  BY <1>1 DEF Min
<1>5. x \in Nat /\ \A w \in V : w \in Nat
  OBVIOUS
<1>6. ASSUME \A w \in V : w <= x PROVE Max(V) = x
  <2>1. Max(V) \in Nat /\ Max(V) <= x /\ Max(V) >= x
    BY <1>3, <1>5, <1>6
  <2>2. QED
    BY <1>5, <2>1
<1>7. ASSUME \A w \in V : x <= w PROVE Min(V) = x
  <2>1. Min(V) \in Nat /\ Min(V) <= x /\ x <= Min(V)
    BY <1>4, <1>5, <1>7
  <2>2. QED
    BY <1>5, <2>1
<1>8. QED
  BY <1>6, <1>7

(* Blanks, and a text without blanks around it.                            *)
LEMMA TrimLeaves ==
  ASSUME NEW X, NEW s \in Seq(X), NEW j \in 0 .. Len(s) - 1, \A k \in 1 .. j : s[k] \in Space,
         s[j + 1] \notin Space, s[Len(s)] \notin Space
  PROVE  Trim(s) = SubSeq(s, j + 1, Len(s))
<1> DEFINE ink == { k \in DOMAIN s : s[k] \notin Space }
<1>1. Len(s) \in Nat /\ DOMAIN s = 1 .. Len(s)
  OBVIOUS
<1>2. ink \in SUBSET (1 .. Len(s)) /\ j + 1 \in ink /\ Len(s) \in ink
  BY <1>1
<1>3. \A k \in ink : j + 1 <= k /\ k <= Len(s)
  BY <1>1
<1>4. Trim(s) = IF ink = {} THEN <<>> ELSE SubSeq(s, Min(ink), Max(ink))
  BY DEF Trim
<1> HIDE DEF ink
<1>5. Min(ink) = j + 1 /\ Max(ink) = Len(s)
  BY <1>1, <1>2, <1>3, ExtremesAre
<1>6. QED
  BY <1>2, <1>4, <1>5

(* A part of a part.                                                       *)
LEMMA PartOfRest ==
  ASSUME NEW X, NEW t \in Seq(X), NEW a \in 1 .. Len(t), NEW n \in a - 1 .. Len(t) - 1
  PROVE  LET s == SubSeq(t, a, Len(t))
         IN /\ s \in Seq(X) /\ Len(s) = Len(t) - a + 1
            /\ \A k \in 1 .. Len(s) : s[k] = t[a + k - 1]
            /\ SubSeq(s, n - a + 2, Len(s)) = SubSeq(t, n + 1, Len(t))
<1> DEFINE s == SubSeq(t, a, Len(t))
           l == Len(t) - a + 1
           u == SubSeq(s, n - a + 2, l)
           v == SubSeq(t, n + 1, Len(t))
<1>1. Len(t) \in Nat
  OBVIOUS
<1>2. s \in Seq(X) /\ Len(s) = l /\ \A k \in 1 .. l : s[k] = t[a + k - 1]
  BY <1>1
<1> HIDE DEF s
<1>3. u \in Seq(X) /\ Len(u) = Len(t) - n /\ \A k \in 1 .. Len(t) - n : u[k] = s[n - a + 2 + k - 1]
  BY <1>1, <1>2
<1>4. v \in Seq(X) /\ Len(v) = Len(t) - n /\ \A k \in 1 .. Len(t) - n : v[k] = t[n + 1 + k - 1]
  BY <1>1
<1> HIDE DEF u, v
<1>5. \A k \in 1 .. Len(t) - n : u[k] = v[k]
  <2> TAKE k \in 1 .. Len(t) - n
  <2>1. n - a + 1 + k \in 1 .. l /\ a + (n - a + 1 + k) - 1 = n + k
    BY <1>1
  <2>2. s[n - a + 1 + k] = t[n + k]
    BY <1>2, <2>1
  <2>3. n - a + 2 + k - 1 = n - a + 1 + k /\ n + 1 + k - 1 = n + k
    BY <1>1
  <2>4. QED
    BY <1>3, <1>4, <2>2, <2>3
<1>6. u = v
  BY <1>3, <1>4, <1>5, SeqEqual
<1>7. QED
  BY <1>2, <1>6 DEF s, u, v

(* Offsets in the rest of a text of length l, m long, behind the marker at *)
(* q: j blanks, then the message, which begins at n + 1 in the whole text. *)
LEMMA RestOffsets ==
  ASSUME NEW l \in Nat, NEW n \in 0 .. l - 1, NEW q \in 1 .. n - 2, NEW m,
         m = l - (q + 2) + 1, NEW j, j = n - q - 1
  PROVE  /\ m \in Nat /\ j \in 0 .. m - 1 /\ j + 1 \in 1 .. m /\ m \in 1 .. m
         /\ (q + 2) + (j + 1) - 1 = n + 1 /\ (q + 2) + m - 1 = l
         /\ \A k \in 1 .. j : k \in 1 .. m /\ (q + 2) + k - 1 \in q + 2 .. n
OBVIOUS

(* Where the parts of a timestamp end: its run at a, its zone at z, the    *)
(* blanks behind at o, its pid at d, the blanks behind at n.               *)
StampParts(t, n, zone, pid, a, z, o, d) ==
  /\ a \in 2 .. z /\ z \in a .. d /\ o \in z .. n /\ d \in z .. n - 1
  /\ t[1] = Stamp /\ \A q \in 1 .. a - 1 : t[q + 1] \in StampChar
  /\ zone = "none" => z = a
  /\ zone = "word" => \E b \in a + 1 .. z - 1 : /\ \A q \in a .. b - 1 : t[q + 1] \in Space
                                              /\ \A q \in b .. z - 1 : t[q + 1] \in WordChar
  /\ \A q \in z .. o - 1 : t[q + 1] \in Space
  /\ pid => o \in z .. d - 1 /\ Pid(t, o, d)
  /\ ~pid => o = n /\ d = z
  /\ \A q \in d .. n - 1 : t[q + 1] \in Space

LEMMA StampHasParts ==
  ASSUME NEW t \in Seq(Byte), NEW n \in 0 .. Len(t) - 1, NEW zone \in {"none", "word"},
         NEW pid \in BOOLEAN, Timestamped(t, n, zone, pid)
  PROVE  \E a, z, o, d \in Nat : StampParts(t, n, zone, pid, a, z, o, d)
<1>1. n \in Nat
  OBVIOUS
<1>2. PICK a \in 2 .. n, z \in 2 .. n, d \in 2 .. n :
        /\ t[1] = Stamp /\ RunOf(StampChar, t, 1, a)
        /\ IF zone = "none" THEN z = a
           ELSE \E b \in a + 1 .. z :
                  /\ RunOf(Space, t, a, b)
                  /\ zone = "word" => RunOf(WordChar, t, b, z)
                  /\ zone = "offset" => t[b + 1] \in {"+", "-"} /\ RunOf(Digit, t, b + 1, z)
        /\ IF pid THEN \E b \in z .. d : (z = b \/ RunOf(Space, t, z, b)) /\ Pid(t, b, d) ELSE d = z
        /\ RunOf(Space, t, d, n)
  BY DEF Timestamped
<1>3. /\ t[1] = Stamp /\ \A q \in 1 .. a - 1 : t[q + 1] \in StampChar
      /\ d < n /\ \A q \in d .. n - 1 : t[q + 1] \in Space
  BY <1>2 DEF RunOf
<1>4. zone = "word" => \E b \in a + 1 .. z - 1 : /\ \A q \in a .. b - 1 : t[q + 1] \in Space
                                               /\ \A q \in b .. z - 1 : t[q + 1] \in WordChar
  <2> SUFFICES ASSUME zone = "word"
               PROVE  \E b \in a + 1 .. z - 1 : /\ \A q \in a .. b - 1 : t[q + 1] \in Space
                                              /\ \A q \in b .. z - 1 : t[q + 1] \in WordChar
    OBVIOUS
  <2>1. PICK b \in a + 1 .. z : RunOf(Space, t, a, b) /\ RunOf(WordChar, t, b, z)
    BY <1>2
  <2>2. b < z /\ b \in a + 1 .. z - 1
    BY <1>1, <2>1 DEF RunOf
  <2>3. QED
    BY <2>1, <2>2 DEF RunOf
<1>5. zone = "none" => z = a
  BY <1>2
<1>6. a \in 2 .. z
  BY <1>1, <1>4, <1>5
<1>7. CASE pid
  <2>1. PICK o \in z .. d : (z = o \/ RunOf(Space, t, z, o)) /\ Pid(t, o, d)
    BY <1>2, <1>7
  <2>2. o \in z .. d - 1
    BY <1>1, <2>1 DEF Pid, RunOf
  <2>3. \A q \in z .. o - 1 : t[q + 1] \in Space
    BY <1>1, <2>1 DEF RunOf
  <2>4. a \in Nat /\ z \in Nat /\ o \in Nat /\ d \in Nat /\ z \in a .. d /\ o \in z .. n /\ d \in z .. n - 1
    BY <1>1, <1>3, <1>6, <2>2
  <2>5. StampParts(t, n, zone, pid, a, z, o, d)
    BY <1>3, <1>4, <1>5, <1>6, <1>7, <2>1, <2>2, <2>3, <2>4 DEF StampParts
  <2>6. QED
    BY <2>4, <2>5
<1>8. CASE ~pid
  <2>1. d = z
    BY <1>2, <1>8
  <2>2. a \in Nat /\ z \in Nat /\ n \in Nat /\ d \in Nat /\ z \in a .. d /\ n \in z .. n /\ d \in z .. n - 1
    BY <1>1, <1>3, <1>6, <2>1
  <2>3. StampParts(t, n, zone, pid, a, z, n, d)
    BY <1>3, <1>4, <1>5, <1>6, <1>8, <2>1, <2>2 DEF StampParts
  <2>4. QED
    BY <2>2, <2>3
<1>9. QED
  BY <1>7, <1>8

(* The regex ends where the timestamp does, unless it is ambiguous.        *)
LEMMA StampEnds ==
  ASSUME NEW t \in Seq(Byte), NEW n \in 0 .. Len(t) - 1, NEW zone \in {"none", "word"},
         NEW pid \in BOOLEAN, Timestamped(t, n, zone, pid), ~Ambiguous(t, n), t[n + 1] \notin Space,
         NEW a \in Nat, NEW z \in Nat, NEW o \in Nat, NEW d \in Nat,
         StampParts(t, n, zone, pid, a, z, o, d)
  PROVE  PastStamp(t) = n
<1>1. Len(t) \in Nat /\ n \in Nat /\ n < Len(t)
  OBVIOUS
<1>2. /\ a \in 2 .. z /\ z \in a .. d /\ o \in z .. n /\ d \in z .. n - 1
      /\ t[1] = Stamp /\ \A q \in 1 .. a - 1 : t[q + 1] \in StampChar
      /\ zone = "none" => z = a
      /\ zone = "word" => \E b \in a + 1 .. z - 1 : /\ \A q \in a .. b - 1 : t[q + 1] \in Space
                                                  /\ \A q \in b .. z - 1 : t[q + 1] \in WordChar
      /\ \A q \in z .. o - 1 : t[q + 1] \in Space
      /\ pid => o \in z .. d - 1 /\ Pid(t, o, d)
      /\ ~pid => o = n /\ d = z
      /\ \A q \in d .. n - 1 : t[q + 1] \in Space
  BY DEF StampParts
<1>3. /\ Space \cap (StampChar \cup WordChar) = {} /\ "[" \notin StampChar \cup WordChar \cup Space
      /\ "]" \notin Digit
  BY LoggedAssumption
<1>4. /\ ~pid /\ zone = "none" => t[n + 1] \notin WordChar
      /\ ~pid => ~HasPid(t, n)
  BY DEF Ambiguous
<1>5. pid => t[o + 1] = "["
  BY <1>2 DEF Pid
<1>6. t[o + 1] \notin Space
  BY <1>2, <1>3, <1>5
<1>7. t[z + 1] \in Space \cup {"["}
  <2>1. CASE z < o
    BY <1>2, <2>1
  <2>2. CASE z = o
    BY <1>1, <1>2, <1>5, <2>2
  <2>3. QED
    BY <1>2, <2>1, <2>2
<1>8. t[a + 1] \notin StampChar
  <2>1. CASE zone = "word"
    <3>1. t[a + 1] \in Space
      BY <1>2, <2>1
    <3>2. QED
      BY <1>3, <3>1
  <2>2. CASE zone = "none"
    BY <1>2, <1>3, <1>7, <2>2
  <2>3. QED
    BY <2>1, <2>2
<1>9. a \in 1 .. Len(t) /\ z \in 0 .. Len(t) /\ o \in z .. Len(t) /\ d \in 0 .. Len(t) /\ n \in d .. Len(t)
      /\ 1 \in 0 .. Len(t) /\ a \in 0 .. Len(t) /\ o \in 0 .. Len(t) /\ n \in 0 .. Len(t)
      /\ n \in n .. Len(t) /\ o \in o .. Len(t)
  BY <1>1, <1>2
<1>10. PastRun(StampChar, t, 1) = a
  BY <1>2, <1>8, <1>9, PastRunIs
<1>11. PastRun(Space, t, z) = o
  BY <1>2, <1>6, <1>9, PastRunIs
<1>12. PastZone(t, a) = z
  <2>1. CASE zone = "word"
    <3>1. PICK b \in a + 1 .. z - 1 : /\ \A q \in a .. b - 1 : t[q + 1] \in Space
                                    /\ \A q \in b .. z - 1 : t[q + 1] \in WordChar
      BY <1>2, <2>1
    <3>2. b \in a .. Len(t) /\ b \in 0 .. Len(t) /\ z \in b .. Len(t) /\ b \in b .. z - 1 /\ b > a /\ z > b
      BY <1>1, <1>2, <3>1
    <3>3. t[b + 1] \notin Space
      BY <1>3, <3>1, <3>2
    <3>4. PastRun(Space, t, a) = b
      BY <1>9, <3>1, <3>2, <3>3, PastRunIs
    <3>5. t[z + 1] \notin WordChar
      BY <1>3, <1>7
    <3>6. PastRun(WordChar, t, b) = z
      BY <3>1, <3>2, <3>5, PastRunIs
    <3>7. QED
      BY <3>2, <3>4, <3>6 DEF PastZone
  <2>2. CASE zone = "none"
    <3>1. PastRun(Space, t, a) = o
      BY <1>2, <1>11, <2>2
    <3>2. t[o + 1] \notin WordChar
      BY <1>2, <1>3, <1>4, <1>5, <2>2
    <3>3. \A q \in o .. o - 1 : t[q + 1] \in WordChar
      BY <1>2
    <3>4. PastRun(WordChar, t, o) = o
      BY <1>9, <3>2, <3>3, PastRunIs
    <3>5. ~(o > o)
      BY <1>2
    <3>6. QED
      BY <1>2, <2>2, <3>1, <3>4, <3>5 DEF PastZone
  <2>3. QED
    BY <2>1, <2>2
<1>13. PastPid(t, o) = IF pid THEN d ELSE n
  <2>1. CASE pid
    <3>1. Pid(t, o, d) /\ d \in o + 1 .. Len(t)
      BY <1>1, <1>2, <2>1
    <3>2. ASSUME NEW b \in o + 1 .. Len(t), Pid(t, o, b), NEW c \in o + 1 .. Len(t), Pid(t, o, c)
          PROVE  ~(b < c)
      <4>1. o + 1 < b - 1 /\ t[b] = "]" /\ \A q \in o + 1 .. (c - 1) - 1 : t[q + 1] \in Digit
        BY <3>2 DEF Pid, RunOf
      <4>2. b < c => b - 1 \in o + 1 .. (c - 1) - 1 /\ (b - 1) + 1 = b
        BY <1>1, <4>1
      <4>3. QED
        BY <1>3, <4>1, <4>2
    <3>3. \A b \in o + 1 .. Len(t) : Pid(t, o, b) => b = d
      <4> TAKE b \in o + 1 .. Len(t)
      <4>1. Pid(t, o, b) => ~(b < d) /\ ~(d < b)
        BY <3>1, <3>2
      <4>2. QED
        BY <4>1
    <3>4. HasPid(t, o)
      BY <3>1 DEF HasPid
    <3>5. (CHOOSE b \in o + 1 .. Len(t) : Pid(t, o, b)) = d
      BY <3>1, <3>3
    <3>6. QED
      BY <2>1, <3>4, <3>5 DEF PastPid
  <2>2. CASE ~pid
    <3>1. o = n /\ ~HasPid(t, n)
      BY <1>2, <1>4, <2>2
    <3>2. QED
      BY <2>2, <3>1 DEF PastPid
  <2>3. QED
    BY <2>1, <2>2
<1>14. PastRun(Space, t, IF pid THEN d ELSE n) = n
  <2>1. CASE pid
    <3>1. PastRun(Space, t, d) = n
      BY <1>2, <1>9, PastRunIs
    <3>2. QED
      BY <2>1, <3>1
  <2>2. CASE ~pid
    <3>1. \A q \in n .. n - 1 : t[q + 1] \in Space
      BY <1>1
    <3>2. PastRun(Space, t, n) = n
      BY <1>9, <3>1, PastRunIs
    <3>3. QED
      BY <2>2, <3>2
  <2>3. QED
    BY <2>1, <2>2
<1>15. t # <<>> /\ a > 1
  BY <1>1, <1>2
<1>16. QED
  BY <1>2, <1>10, <1>11, <1>12, <1>13, <1>14, <1>15 DEF PastStamp

(* A timestamp holds no marker.                                            *)
LEMMA StampUnmarked ==
  ASSUME NEW t \in Seq(Byte), NEW n \in 0 .. Len(t) - 1, NEW zone \in {"none", "word"},
         NEW pid \in BOOLEAN, NEW a \in Nat, NEW z \in Nat, NEW o \in Nat, NEW d \in Nat,
         StampParts(t, n, zone, pid, a, z, o, d), NEW k \in 1 .. n
  PROVE  ~Marker(t, k)
<1>1. n \in Nat
  OBVIOUS
<1>2. /\ a \in 2 .. z /\ z \in a .. d /\ o \in z .. n /\ d \in z .. n - 1
      /\ t[1] = Stamp /\ \A q \in 1 .. a - 1 : t[q + 1] \in StampChar
      /\ zone = "none" => z = a
      /\ zone = "word" => \E b \in a + 1 .. z - 1 : /\ \A q \in a .. b - 1 : t[q + 1] \in Space
                                                  /\ \A q \in b .. z - 1 : t[q + 1] \in WordChar
      /\ \A q \in z .. o - 1 : t[q + 1] \in Space
      /\ pid => o \in z .. d - 1 /\ Pid(t, o, d)
      /\ ~pid => o = n /\ d = z
      /\ \A q \in d .. n - 1 : t[q + 1] \in Space
  BY DEF StampParts
<1>3. /\ Level \cap (Space \cup StampChar) = {} /\ Stamp \notin Level
      /\ ":" \notin Space \cup WordChar \cup Digit
  BY LoggedAssumption
<1>4. ASSUME NEW q \in a .. n - 1 PROVE t[q + 1] # ":"
  <2>1. CASE q \in a .. z - 1
    <3>1. CASE zone = "none"
      BY <1>2, <2>1, <3>1
    <3>2. CASE zone = "word"
      <4>1. PICK b \in a + 1 .. z - 1 : /\ \A x \in a .. b - 1 : t[x + 1] \in Space
                                      /\ \A x \in b .. z - 1 : t[x + 1] \in WordChar
        BY <1>2, <3>2
      <4>2. q \in a .. b - 1 \/ q \in b .. z - 1
        BY <1>2, <2>1, <4>1
      <4>3. QED
        BY <1>3, <4>1, <4>2
    <3>3. QED
      BY <3>1, <3>2
  <2>2. CASE q \in z .. o - 1
    BY <1>2, <1>3, <2>2
  <2>3. CASE pid /\ q \in o .. d - 1
    <3>1. t[o + 1] = "[" /\ (\A x \in o + 1 .. (d - 1) - 1 : t[x + 1] \in Digit) /\ t[d] = "]"
      BY <1>2, <2>3 DEF Pid, RunOf
    <3>2. q = o \/ q \in o + 1 .. (d - 1) - 1 \/ q + 1 = d
      BY <1>2, <2>3
    <3>3. QED
      BY <1>3, <3>1, <3>2
  <2>4. CASE q \in d .. n - 1
    BY <1>2, <1>3, <2>4
  <2>5. QED
    BY <1>1, <1>2, <1>4, <2>1, <2>2, <2>3, <2>4
<1>5. SUFFICES ASSUME t[k] \in Level, t[k + 1] = ":" PROVE FALSE
  BY DEF Marker
<1>6. CASE k = 1
  BY <1>2, <1>3, <1>5, <1>6
<1>7. CASE k \in 2 .. a
  <2>1. k - 1 \in 1 .. a - 1 /\ (k - 1) + 1 = k
    BY <1>2, <1>7
  <2>2. t[k] \in StampChar
    BY <1>2, <2>1
  <2>3. QED
    BY <1>3, <1>5, <2>2
<1>8. CASE k \in a + 1 .. n - 1
  <2>1. k \in a .. n - 1
    BY <1>1, <1>2, <1>8
  <2>2. QED
    BY <1>4, <1>5, <2>1
<1>9. CASE k = n
  <2>1. n - 1 \in d .. n - 1 /\ (n - 1) + 1 = n
    BY <1>1, <1>2
  <2>2. t[n] \in Space
    BY <1>2, <2>1
  <2>3. QED
    BY <1>3, <1>5, <1>9, <2>2
<1>10. QED
  BY <1>1, <1>2, <1>6, <1>7, <1>8, <1>9

(* What stands behind a prefix is the core, unless a marker stands in it   *)
(* or the prefix is ambiguous.                                             *)
LEMMA CoreIsBehind ==
  ASSUME NEW t \in Seq(Byte), NEW n \in 0 .. Len(t) - 1, Prefixed(t, n),
         t[n + 1] \notin Space, t[Len(t)] \notin Space, ~Ambiguous(t, n),
         \A k \in 1 .. Len(t) : Marker(t, k) => k <= n
  PROVE  stripLogPrefix(t).core = SubSeq(t, n + 1, Len(t))
<1> DEFINE l == Len(t)
           ink == { k \in DOMAIN t : t[k] \notin Space }
           trimmed == IF ink = {} THEN <<>> ELSE SubSeq(t, 1, Max(ink))
           markers == { k \in DOMAIN trimmed : Marker(trimmed, k) }
           cut == IF markers # {} THEN SubSeq(trimmed, Max(markers) + 2, Len(trimmed))
                  ELSE SubSeq(trimmed, PastStamp(trimmed) + 1, Len(trimmed))
<1>1. l \in Nat /\ l > 0 /\ DOMAIN t = 1 .. l /\ n \in 0 .. l - 1
  OBVIOUS
<1>2. trimmed = t
  <2>1. l \in ink /\ ink \in SUBSET (1 .. l) /\ \A k \in ink : k <= l
    BY <1>1
  <2>2. SubSeq(t, 1, l) = t
    OBVIOUS
  <2> HIDE DEF ink, l
  <2>3. Max(ink) = l
    BY <1>1, <2>1, ExtremesAre
  <2>4. QED
    BY <2>1, <2>2, <2>3
<1>3. stripLogPrefix(t).core = Trim(cut)
  BY DEF stripLogPrefix
<1>4. markers \in SUBSET (1 .. l) /\ markers = { k \in 1 .. l : Marker(t, k) }
  BY <1>1, <1>2
<1>5. \A k \in 1 .. l : Marker(t, k) => t[k] \in Level
  BY DEF Marker
<1> HIDE DEF markers, trimmed, ink
<1>6. \A k \in markers : k \in 1 .. n /\ t[k] \in Level
  BY <1>1, <1>4, <1>5
<1>7. Level \cap Space = {} /\ ":" \notin Level
  BY LoggedAssumption
<1>8. ASSUME markers = {}, PastStamp(t) = n PROVE stripLogPrefix(t).core = SubSeq(t, n + 1, Len(t))
  <2> DEFINE s == SubSeq(t, n + 1, l)
  <2>1. cut = s
    BY <1>2, <1>8
  <2>2. n + 1 \in 1 .. Len(t) /\ n \in (n + 1) - 1 .. Len(t) - 1
    BY <1>1
  <2>3. s \in Seq(Byte) /\ Len(s) = l - (n + 1) + 1 /\ \A k \in 1 .. Len(s) : s[k] = t[n + 1 + k - 1]
    BY <2>2, PartOfRest
  <2> HIDE DEF s, cut
  <2>4. /\ 0 \in 0 .. Len(s) - 1 /\ 1 \in 1 .. Len(s) /\ Len(s) \in 1 .. Len(s)
        /\ n + 1 + 1 - 1 = n + 1 /\ n + 1 + Len(s) - 1 = l
    BY <1>1, <2>3
  <2>5. s[0 + 1] \notin Space /\ s[Len(s)] \notin Space
    <3>1. s[1] = t[n + 1 + 1 - 1] /\ s[Len(s)] = t[n + 1 + Len(s) - 1]
      BY <2>3, <2>4
    <3>2. s[1] = t[n + 1] /\ s[Len(s)] = t[l]
      BY <2>4, <3>1
    <3>3. 0 + 1 = 1
      OBVIOUS
    <3>4. QED
      BY <3>2, <3>3
  <2>6. \A k \in 1 .. 0 : s[k] \in Space
    OBVIOUS
  <2>7. Trim(s) = SubSeq(s, 0 + 1, Len(s))
    BY <2>3, <2>4, <2>5, <2>6, TrimLeaves
  <2>8. SubSeq(s, 0 + 1, Len(s)) = s
    BY <2>3
  <2>9. QED
    BY <1>3, <2>1, <2>7, <2>8 DEF s
<1>9. CASE n = 0 /\ t[1] # Stamp
  <2>1. markers = {}
    BY <1>6, <1>9
  <2>2. PastStamp(t) = n
    BY <1>9 DEF PastStamp
  <2> HIDE DEF cut
  <2>3. QED
    BY <1>8, <2>1, <2>2
<1>10. CASE \E zone \in Zones, pid \in BOOLEAN : Timestamped(t, n, zone, pid)
  <2>1. PICK zone \in {"none", "word"}, pid \in BOOLEAN : Timestamped(t, n, zone, pid)
    BY <1>10 DEF Zones, Ambiguous
  <2>2. PICK a \in Nat, z \in Nat, o \in Nat, d \in Nat : StampParts(t, n, zone, pid, a, z, o, d)
    BY <2>1, StampHasParts
  <2>3. PastStamp(t) = n
    BY <2>1, <2>2, StampEnds
  <2>4. \A k \in 1 .. n : ~Marker(t, k)
    BY <2>2, StampUnmarked
  <2>5. markers = {}
    BY <1>4, <1>6, <2>4
  <2> HIDE DEF cut
  <2>6. QED
    BY <1>8, <2>3, <2>5
<1>11. CASE \E q \in 1 .. n - 2 : Marker(t, q) /\ \A k \in q + 2 .. n : t[k] \in Space
  <2>1. PICK q \in 1 .. n - 2 : Marker(t, q) /\ \A k \in q + 2 .. n : t[k] \in Space
    BY <1>11
  <2>2. q \in 1 .. l /\ q + 2 \in 1 .. l /\ q \in Nat
    BY <1>1
  <2>3. q \in markers /\ t[q + 1] = ":"
    BY <1>4, <2>1, <2>2 DEF Marker
  <2>4. \A k \in markers : k <= q
    <3> SUFFICES ASSUME NEW k \in markers, ~(k <= q) PROVE FALSE
      OBVIOUS
    <3>1. k \in 1 .. n /\ t[k] \in Level
      BY <1>6
    <3>2. k = q + 1 \/ k \in q + 2 .. n
      BY <1>1, <2>2, <3>1
    <3>3. QED
      BY <1>7, <2>1, <2>3, <3>1, <3>2
  <2>5. Max(markers) = q
    BY <1>1, <1>4, <2>3, <2>4, ExtremesAre
  <2> DEFINE s == SubSeq(t, q + 2, l)
  <2>6. cut = s
    BY <1>2, <2>3, <2>5
  <2>7. n \in (q + 2) - 1 .. Len(t) - 1
    BY <1>1
  <2>8. /\ s \in Seq(Byte) /\ Len(s) = l - (q + 2) + 1 /\ \A k \in 1 .. Len(s) : s[k] = t[(q + 2) + k - 1]
        /\ SubSeq(s, n - (q + 2) + 2, Len(s)) = SubSeq(t, n + 1, l)
    BY <2>2, <2>7, PartOfRest
  <2> HIDE DEF s, cut
  <2> DEFINE j == n - q - 1
  <2>9. /\ j \in 0 .. Len(s) - 1 /\ \A k \in 1 .. j : s[k] \in Space
        /\ s[j + 1] \notin Space /\ s[Len(s)] \notin Space
    <3>1. /\ j \in 0 .. Len(s) - 1 /\ j + 1 \in 1 .. Len(s) /\ Len(s) \in 1 .. Len(s)
          /\ (q + 2) + (j + 1) - 1 = n + 1 /\ (q + 2) + Len(s) - 1 = l
          /\ \A k \in 1 .. j : k \in 1 .. Len(s) /\ (q + 2) + k - 1 \in q + 2 .. n
      <4>1. Len(s) = l - (q + 2) + 1
        BY <2>8
      <4> HIDE DEF l
      <4>2. QED
        BY <1>1, <4>1, RestOffsets
    <3> HIDE DEF j
    <3>2. s[j + 1] = t[(q + 2) + (j + 1) - 1] /\ s[Len(s)] = t[(q + 2) + Len(s) - 1]
      BY <2>8, <3>1
    <3>3. s[j + 1] = t[n + 1] /\ s[Len(s)] = t[l]
      BY <3>1, <3>2
    <3>4. \A k \in 1 .. j : s[k] \in Space
      BY <2>1, <2>8, <3>1
    <3>5. QED
      BY <3>1, <3>3, <3>4
  <2>10. Trim(s) = SubSeq(s, j + 1, Len(s))
    <3> HIDE DEF j
    <3>1. QED
      BY <2>8, <2>9, TrimLeaves
  <2>11. j + 1 = n - (q + 2) + 2
    BY <1>1
  <2> HIDE DEF j
  <2>12. QED
    BY <1>3, <2>6, <2>8, <2>10, <2>11 DEF l
<1>12. QED
  BY <1>9, <1>10, <1>11 DEF Prefixed

(* The text of a message is that of its line, shifted: so are its markers. *)
LEMMA MarkersOfMessage ==
  ASSUME NEW t \in Seq(Byte), NEW n \in 0 .. Len(t) - 1, NEW k \in n + 1 .. Len(t), Marker(t, k)
  PROVE  LET m == SubSeq(t, n + 1, Len(t)) IN \E x \in DOMAIN m : Marker(m, x)
<1> DEFINE m == SubSeq(t, n + 1, Len(t))
           x == k - n
<1>1. Len(t) \in Nat /\ n \in Nat /\ k \in Nat
  OBVIOUS
<1>2. m \in Seq(Byte) /\ Len(m) = Len(t) - n /\ \A y \in 1 .. Len(t) - n : m[y] = t[n + 1 + y - 1]
  BY <1>1
<1> HIDE DEF m
<1>3. \A y \in 1 .. Len(m) : m[y] = t[n + y]
  <2> TAKE y \in 1 .. Len(m)
  <2>1. n + 1 + y - 1 = n + y
    BY <1>1
  <2>2. QED
    BY <1>2, <2>1
<1>4. t[k] \in Level /\ k + 2 <= Len(t) /\ t[k + 1] = ":" /\ t[k + 2] \in Space /\ (k > 1 => t[k - 1] \notin WordChar)
  BY DEF Marker
<1>5. x \in 1 .. Len(m) /\ x + 2 <= Len(m) /\ x + 1 \in 1 .. Len(m) /\ x + 2 \in 1 .. Len(m)
      /\ n + x = k /\ n + (x + 1) = k + 1 /\ n + (x + 2) = k + 2
  BY <1>1, <1>2, <1>4
<1> HIDE DEF x
<1>6. m[x] = t[k] /\ m[x + 1] = t[k + 1] /\ m[x + 2] = t[k + 2]
  BY <1>3, <1>5
<1>7. x > 1 => m[x - 1] \notin WordChar
  <2> SUFFICES ASSUME x > 1 PROVE m[x - 1] \notin WordChar
    OBVIOUS
  <2>1. x - 1 \in 1 .. Len(m) /\ n + (x - 1) = k - 1 /\ k > 1
    BY <1>1, <1>2, <1>5
  <2>2. m[x - 1] = t[k - 1]
    BY <1>3, <2>1
  <2>3. QED
    BY <1>4, <2>1, <2>2
<1>8. x \in DOMAIN m
  BY <1>2, <1>5
<1>9. Marker(m, x)
  BY <1>4, <1>5, <1>6, <1>7 DEF Marker
<1>10. QED
  BY <1>8, <1>9 DEF m

(* What the page matches and shows is the message that was logged, unless  *)
(* it holds a marker or its prefix is ambiguous: the last marker, or the   *)
(* leading timestamp with its zone and pid, ends the prefix and nothing    *)
(* else is lost (prefix.ts:44).                                            *)
THEOREM CoresAreMessages == Spec => []CoreIsMessage
<1>1. PipelineInv => CoreIsMessage
  <2> SUFFICES ASSUME PipelineInv, phase = "done", NEW k \in DOMAIN raws,
                      ~(\E x \in DOMAIN raws[k].message : Marker(raws[k].message, x)),
                      ~Ambiguous(raws[k].text, Len(raws[k].text) - Len(raws[k].message))
               PROVE  results[k].core = raws[k].message
    BY DEF CoreIsMessage
  <2> DEFINE t == raws[k].text
             m == raws[k].message
  <2>1. raws \in Batches /\ results = LabelsOf(raws, decoded, sites)
    BY DEF PipelineInv, IndexInv, ShownInv
  <2>2. results[k].core = stripLogPrefix(t).core
    BY <2>1 DEF LabelsOf
  <2>3. t \in Seq(Byte)
    <3>1. raws \in Seq([text : Seq(Byte), message : Seq(Byte)])
      BY <2>1, TextAssumption
    <3>2. \A X : raws \in Seq(X) => raws[k] \in X
      OBVIOUS
    <3>3. raws[k] \in [text : Seq(Byte), message : Seq(Byte)]
      BY <3>1, <3>2
    <3>4. QED
      BY <3>3
  <2>4. m # <<>> /\ m[1] \notin Space /\ m[Len(m)] \notin Space
        /\ \E n \in 0 .. Len(t) - 1 : m = SubSeq(t, n + 1, Len(t)) /\ Prefixed(t, n)
    BY <2>1, LoggedAssumption
  <2> HIDE DEF t, m
  <2>5. PICK n \in 0 .. Len(t) - 1 : m = SubSeq(t, n + 1, Len(t)) /\ Prefixed(t, n)
    BY <2>4
  <2>6. m[1] = t[n + 1] /\ m[Len(m)] = t[Len(t)]
    <3> DEFINE s == SubSeq(t, n + 1, Len(t))
    <3>1. Len(t) \in Nat /\ n \in Nat /\ n < Len(t)
      BY <2>3
    <3>2. Len(s) = Len(t) - n /\ \A y \in 1 .. Len(t) - n : s[y] = t[n + 1 + y - 1]
      BY <2>3, <3>1
    <3> HIDE DEF s
    <3>3. 1 \in 1 .. Len(t) - n /\ Len(s) \in 1 .. Len(t) - n
          /\ n + 1 + 1 - 1 = n + 1 /\ n + 1 + Len(s) - 1 = Len(t)
      BY <3>1, <3>2
    <3>4. s[1] = t[n + 1] /\ s[Len(s)] = t[Len(t)]
      BY <3>2, <3>3
    <3>5. QED
      BY <2>5, <3>4 DEF s
  <2>7. ~Ambiguous(t, n)
    <3>1. Len(t) \in Nat /\ n \in Nat /\ n < Len(t)
      BY <2>3
    <3>2. Len(m) = Len(t) - n
      BY <2>3, <2>5, <3>1
    <3>3. Len(t) - Len(m) = n
      BY <3>1, <3>2
    <3>4. ~Ambiguous(t, Len(t) - Len(m))
      BY DEF t, m
    <3>5. QED
      BY <3>3, <3>4
  <2>8. \A y \in 1 .. Len(t) : Marker(t, y) => y <= n
    <3> SUFFICES ASSUME NEW y \in 1 .. Len(t), Marker(t, y), ~(y <= n) PROVE FALSE
      OBVIOUS
    <3>1. y \in n + 1 .. Len(t)
      BY <2>3
    <3>2. \E x \in DOMAIN m : Marker(m, x)
      BY <2>3, <2>5, <3>1, MarkersOfMessage
    <3>3. QED
      BY <3>2 DEF m
  <2>9. stripLogPrefix(t).core = m
    BY <2>3, <2>4, <2>5, <2>6, <2>7, <2>8, CoreIsBehind
  <2>10. QED
    BY <2>2, <2>9 DEF m
<1>2. QED
  BY <1>1, PipelineInvariant, PTL
===============================================================================
