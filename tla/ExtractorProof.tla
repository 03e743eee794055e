----------------------------- MODULE ExtractorProof -----------------------------
(***************************************************************************)
(* Proofs about Extractor, for any checkouts and edits.                    *)
(*                                                                         *)
(* The calls of one file that are next to each other come out of one       *)
(* version of it because the file in the cache is that of the last call,   *)
(* and the text in it one the file has had: ExtractorInv says so.          *)
(***************************************************************************)
EXTENDS Extractor, FiniteSetTheorems, TLAPS

(* A sequence, whatever it holds.                                          *)
IsList(s) == s \in Seq({ s[k] : k \in DOMAIN s })

(* What a file held, or holds, is a text of it.                            *)
Texts ==
  /\ DOMAIN past = DOMAIN disk /\ NoFile.path \notin DOMAIN disk
  /\ \A p \in DOMAIN disk : disk[p] \in past[p] /\ (disk[p] = Missing \/ disk[p] \in Seq(Atom))

Report ==
  /\ IsList(results)
  /\ \A k \in DOMAIN results :
       results[k].path \in DOMAIN disk /\ results[k].from \in Nat \ {0} /\ results[k].to \in Nat

CacheOfPast ==
  cache = NoFile \/ (cache.path \in DOMAIN disk /\ cache.text \in past[cache.path] /\ cache.text \in Seq(Atom))

(* The last call was cut out of the cached text.                           *)
LastIsCached ==
  matches # <<>> =>
    /\ cache.path = results[Len(matches)].path
    /\ matches[Len(matches)].call = Slice(cache.text, results[Len(matches)])

Lists == IsList(matches) /\ IsList(sites) /\ IsList(inventory.lines)

(* The sources are all read before the inventory is created, and it is     *)
(* created before a site is built.                                         *)
InTurn ==
  /\ phase \in {"emit", "done", "panicked"} => Len(matches) = Len(results)
  /\ phase \in {"semgrep", "read"} => sites = <<>> /\ inventory = Old
  /\ phase = "done" => inventory.lines = sites /\ Len(sites) = Len(matches)

InventoryShape == inventory = [created |-> inventory.created, lines |-> inventory.lines]

ExtractorInv ==
  /\ TypeOK /\ Texts /\ Report /\ CacheOfPast /\ Lists /\ InventoryShape
  /\ LastIsCached /\ CallsFromOneVersion /\ InTurn

-----------------------------------------------------------------------------
(* Sequences that grow.                                                    *)
LEMMA ListFacts ==
  ASSUME NEW s, IsList(s)
  PROVE  Len(s) \in Nat /\ DOMAIN s = 1 .. Len(s)
  BY DEF IsList

LEMMA ListGrows ==
  ASSUME NEW s, IsList(s), NEW e
  PROVE  /\ IsList(Append(s, e)) /\ Append(s, e) # <<>>
         /\ Len(Append(s, e)) = Len(s) + 1 /\ DOMAIN Append(s, e) = 1 .. Len(s) + 1
         /\ \A k \in 1 .. Len(s) : Append(s, e)[k] = s[k]
         /\ Append(s, e)[Len(s) + 1] = e
<1> DEFINE S == { s[k] : k \in DOMAIN s } \cup {e}
           t == Append(s, e)
<1>1. s \in Seq(S)
  BY ListFacts DEF IsList
<1>2. /\ t \in Seq(S) /\ Len(t) = Len(s) + 1
      /\ \A k \in 1 .. Len(s) : t[k] = s[k]
      /\ t[Len(s) + 1] = e
  BY <1>1
<1>3. t \in Seq({ t[k] : k \in DOMAIN t })
  BY <1>2
<1>4. DOMAIN t = 1 .. Len(s) + 1 /\ t # <<>>
  BY <1>2, ListFacts
<1>5. QED
  BY <1>2, <1>3, <1>4 DEF IsList

LEMMA PrefixGrows ==
  ASSUME NEW s, NEW t, IsList(s), IsList(t), IsPrefix(s, t), NEW e
  PROVE  IsPrefix(s, Append(t, e))
<1>1. Len(s) \in Nat /\ Len(t) \in Nat /\ Len(s) <= Len(t)
  BY ListFacts DEF IsPrefix
<1>2. SubSeq(Append(t, e), 1, Len(s)) = SubSeq(t, 1, Len(s))
  <2> DEFINE S == { t[k] : k \in DOMAIN t } \cup {e}
  <2>1. t \in Seq(S) /\ Append(t, e) \in Seq(S) /\ e \in S
    BY ListFacts DEF IsList
  <2>2. \A k \in 1 .. Len(s) : Append(t, e)[k] = t[k]
    BY <1>1, ListGrows
  <2>3. QED
    BY <1>1, <2>1, <2>2
<1>3. QED
  BY <1>1, <1>2, ListGrows DEF IsPrefix

LEMMA PrefixOfItself ==
  ASSUME NEW s, IsList(s)
  PROVE  IsPrefix(s, s) /\ IsPrefix(<<>>, s)
  BY ListFacts DEF IsPrefix, IsList

(* A call cut out of a text is a text.                                     *)
LEMMA SliceIsText ==
  ASSUME NEW text \in Seq(Atom), NEW r, r.from \in Nat \ {0}, r.to \in Nat
  PROVE  Slice(text, r) \in Seq(Atom)
<1>1. CASE r.to <= Len(text)
  <2> DEFINE s == SubSeq(text, r.from, r.to)
  <2>1. s \in Seq(Atom)
    BY <1>1
  <2> HIDE DEF s
  <2>2. Len(s) \in Nat /\ DOMAIN s = 1 .. Len(s) /\ \A k \in 1 .. Len(s) : s[k] \in Atom
    BY <2>1
  <2>3. Lossy(s) \in [1 .. Len(s) -> Atom]
    BY <2>2, CheckoutAssumption DEF Lossy
  <2>4. Lossy(s) \in Seq(Atom)
    BY <2>2, <2>3
  <2>5. QED
    BY <1>1, <2>4 DEF Slice, s
<1>2. CASE ~(r.to <= Len(text))
  BY <1>2 DEF Slice
<1>3. QED
  BY <1>1, <1>2

-----------------------------------------------------------------------------
LEMMA InitExtractor == Init => ExtractorInv
<1> SUFFICES ASSUME Init PROVE ExtractorInv
  OBVIOUS
<1>1. PICK c \in Checkouts : /\ disk = c.disk /\ results = c.results
                             /\ past = [ p \in DOMAIN c.disk |-> {c.disk[p]} ]
  BY DEF Init
<1>2. Texts
  BY <1>1, CheckoutAssumption DEF Texts
<1>3. Report
  BY <1>1, CheckoutAssumption DEF Report, IsList
<1>4. matches = <<>> /\ sites = <<>> /\ inventory = Old /\ phase = "semgrep" /\ cache = NoFile
  BY DEF Init
<1>5. IsList(<<>>) /\ Len(<<>>) = 0 /\ DOMAIN <<>> = {} /\ inventory.lines = <<>> /\ inventory.created = FALSE
  BY <1>4 DEF IsList, Old
<1>6. Lists /\ InventoryShape
  BY <1>4, <1>5 DEF Lists, InventoryShape, Old
<1>7. TypeOK
  <2>1. Len(results) \in Nat
    BY <1>3, ListFacts DEF Report
  <2>2. IsPrefix(inventory.lines, sites)
    BY <1>4, <1>5, PrefixOfItself
  <2>3. Len(matches) <= Len(results) /\ Len(sites) <= Len(matches)
    BY <1>4, <1>5, <2>1
  <2>4. QED
    BY <1>4, <1>5, <2>2, <2>3 DEF TypeOK
<1>8. LastIsCached /\ CallsFromOneVersion /\ CacheOfPast
  BY <1>4, <1>5 DEF LastIsCached, CallsFromOneVersion, CacheOfPast
<1>9. InTurn
  BY <1>4 DEF InTurn
<1>10. QED
  BY <1>2, <1>3, <1>6, <1>7, <1>8, <1>9 DEF ExtractorInv

-----------------------------------------------------------------------------
(* A file gets another text: the ones it had stay in its past.             *)
LEMMA EditStep == ExtractorInv /\ Edit => ExtractorInv'
<1> SUFFICES ASSUME ExtractorInv, Edit PROVE ExtractorInv'
  OBVIOUS
<1>1. PICK e \in Edits : /\ e.path \in DOMAIN disk
                         /\ disk' = [disk EXCEPT ![e.path] = e.text]
                         /\ past' = [past EXCEPT ![e.path] = @ \cup {e.text}]
  BY DEF Edit
<1>2. UNCHANGED <<results, phase, cache, matches, sites, tally, inventory>>
  BY DEF Edit
<1>3. e.text \in Seq(Atom)
  BY CheckoutAssumption
<1>4. DOMAIN disk' = DOMAIN disk /\ DOMAIN past' = DOMAIN past /\ DOMAIN past = DOMAIN disk
  BY <1>1 DEF ExtractorInv, Texts
<1>5. \A p \in DOMAIN disk : past[p] \subseteq past'[p]
  BY <1>1, <1>4
<1>6. Texts'
  <2>1. ASSUME NEW p \in DOMAIN disk
        PROVE  disk'[p] \in past'[p] /\ (disk'[p] = Missing \/ disk'[p] \in Seq(Atom))
    <3>1. CASE p = e.path
      BY <1>1, <1>3, <1>4, <3>1
    <3>2. CASE p # e.path
      BY <1>1, <1>4, <3>2 DEF ExtractorInv, Texts
    <3>3. QED
      BY <3>1, <3>2
  <2>2. QED
    BY <1>4, <2>1 DEF ExtractorInv, Texts
<1>7. Report'
  BY <1>2, <1>4 DEF ExtractorInv, Report
<1>8. CacheOfPast'
  BY <1>2, <1>4, <1>5 DEF ExtractorInv, CacheOfPast
<1>9. TypeOK' /\ Lists' /\ InventoryShape' /\ LastIsCached' /\ InTurn'
  BY <1>2 DEF ExtractorInv, TypeOK, Lists, InventoryShape, LastIsCached, InTurn
<1>10. CallsFromOneVersion'
  <2>1. \A k \in DOMAIN matches : results[k].path \in DOMAIN disk
    <3>1. DOMAIN matches = 1 .. Len(matches) /\ DOMAIN results = 1 .. Len(results)
          /\ Len(matches) \in Nat /\ Len(results) \in Nat /\ Len(matches) <= Len(results)
      BY ListFacts DEF ExtractorInv, Lists, Report, TypeOK
    <3>2. QED
      BY <3>1 DEF ExtractorInv, Report
  <2>2. CallsFromOneVersion
    BY DEF ExtractorInv
  <2>3. matches' = matches /\ results' = results
    BY <1>2
  <2>4. QED
    BY <1>5, <2>1, <2>2, <2>3 DEF CallsFromOneVersion
<1>11. QED
  BY <1>6, <1>7, <1>8, <1>9, <1>10 DEF ExtractorInv
-----------------------------------------------------------------------------
(* What the invariant says of the lengths.                                 *)
LEMMA Lengths ==
  ASSUME ExtractorInv
  PROVE  /\ Len(results) \in Nat /\ Len(matches) \in Nat /\ Len(sites) \in Nat
         /\ DOMAIN results = 1 .. Len(results) /\ DOMAIN matches = 1 .. Len(matches)
         /\ DOMAIN sites = 1 .. Len(sites)
         /\ Len(matches) <= Len(results) /\ Len(sites) <= Len(matches)
  BY ListFacts DEF ExtractorInv, Lists, Report, TypeOK

(* The cache is that of the next result if it is of the last one's file.   *)
LEMMA ReadStep == ExtractorInv /\ ReadMatch => ExtractorInv'
<1> SUFFICES ASSUME ExtractorInv, ReadMatch PROVE ExtractorInv'
  OBVIOUS
<1> DEFINE n == Len(matches)
           call == Slice(cache'.text, result)
           new == [rule |-> result.rule, path |-> result.path, call |-> call]
<1>1. /\ UNCHANGED <<disk, past, results, phase, sites, tally, inventory>>
      /\ phase = "read" /\ n < Len(results)
      /\ matches' = Append(matches, new)
  BY DEF ReadMatch, Program, reading
<1>2. n \in Nat /\ n + 1 \in DOMAIN results /\ result = results[n + 1]
  BY <1>1, Lengths DEF result
<1>3. /\ result.path \in DOMAIN disk /\ result.path # NoFile.path
      /\ result.from \in Nat \ {0} /\ result.to \in Nat
  BY <1>2 DEF ExtractorInv, Report, Texts
<1>4. /\ cache'.path = result.path
      /\ cache'.text \in past[result.path] /\ cache'.text \in Seq(Atom)
  <2>1. CASE Cached
    <3>1. cache' = cache
      BY <2>1 DEF ReadMatch
    <3>2. cache.path = result.path /\ cache # NoFile
      BY <1>3, <2>1 DEF Cached
    <3>3. QED
      BY <3>1, <3>2 DEF ExtractorInv, CacheOfPast
  <2>2. CASE ~Cached
    <3>1. cache' = [path |-> result.path, text |-> disk[result.path]] /\ disk[result.path] # Missing
      BY <2>2 DEF ReadMatch
    <3>2. QED
      BY <1>3, <3>1 DEF ExtractorInv, Texts
  <2>3. QED
    BY <2>1, <2>2
<1>5. call \in Seq(Atom)
  BY <1>3, <1>4, SliceIsText
<1> HIDE DEF call
<1>6. new.call = call
  OBVIOUS
<1> HIDE DEF new
<1>7. IsList(matches)
  BY DEF ExtractorInv, Lists
<1>8. /\ IsList(matches') /\ matches' # <<>> /\ Len(matches') = n + 1 /\ DOMAIN matches' = 1 .. n + 1
      /\ \A k \in 1 .. n : matches'[k] = matches[k]
      /\ matches'[n + 1] = new
  BY <1>1, <1>7, ListGrows
<1>9. Texts' /\ Report' /\ InventoryShape'
  BY <1>1 DEF ExtractorInv, Texts, Report, InventoryShape
<1>10. Lists'
  BY <1>1, <1>8 DEF ExtractorInv, Lists
<1>11. CacheOfPast'
  BY <1>1, <1>3, <1>4 DEF CacheOfPast
<1>12. LastIsCached'
  BY <1>1, <1>2, <1>4, <1>6, <1>8 DEF LastIsCached, call
<1>13. TypeOK'
  <2>1. Len(matches') <= Len(results') /\ Len(sites') <= Len(matches')
    BY <1>1, <1>2, <1>8, Lengths
  <2>2. \A k \in DOMAIN matches' : matches'[k].call \in Seq(Atom)
    <3>1. \A k \in 1 .. n : matches[k].call \in Seq(Atom)
      BY Lengths DEF ExtractorInv, TypeOK
    <3>2. QED
      BY <1>2, <1>5, <1>6, <1>8, <3>1
  <2>3. QED
    BY <1>1, <2>1, <2>2 DEF ExtractorInv, TypeOK
<1>14. InTurn'
  BY <1>1 DEF ExtractorInv, InTurn
<1>15. CallsFromOneVersion'
  <2> DEFINE After(m, k) ==
        IF k + 1 \in DOMAIN m /\ results[k + 1].path = results[k].path THEN k + 1 ELSE k
  <2>1. ASSUME NEW k \in 1 .. n + 1
        PROVE  \E text \in past[results[k].path] :
                 \A x \in {k, After(matches', k)} : matches'[x].call = Slice(text, results[x])
    <3>1. matches'[n + 1].call = Slice(cache'.text, results[n + 1])
      BY <1>2, <1>6, <1>8 DEF call
    <3>2. CASE k = n + 1
      <4>1. After(matches', k) = k
        BY <1>2, <1>8, <3>2
      <4>2. QED
        BY <1>2, <1>4, <3>1, <3>2, <4>1
    <3>3. CASE k = n /\ results[n + 1].path = results[n].path
      <4>1. After(matches', k) = n + 1
        BY <1>2, <1>8, <3>3
      <4>2. n \in 1 .. n /\ matches # <<>>
        BY <1>2, <1>7, <3>3, ListFacts
      <4>3. cache.path = results[n].path /\ matches[n].call = Slice(cache.text, results[n])
        BY <4>2 DEF ExtractorInv, LastIsCached
      <4>4. Cached
        BY <1>2, <3>3, <4>3 DEF Cached
      <4>5. cache' = cache
        BY <4>4 DEF ReadMatch
      <4>6. matches'[n].call = Slice(cache'.text, results[n])
        BY <1>8, <4>2, <4>3, <4>5
      <4>7. QED
        BY <1>2, <1>4, <3>1, <3>3, <4>1, <4>6
    <3>4. CASE k \in 1 .. n /\ (k = n => results[n + 1].path # results[n].path)
      <4>1. After(matches', k) = After(matches, k) /\ After(matches, k) \in 1 .. n
        <5>1. CASE k = n
          BY <1>2, <1>8, <3>4, <5>1, Lengths
        <5>2. CASE k # n
          <6>1. k + 1 \in 1 .. n
            <7>1. n \in Nat /\ k \in 1 .. n
              BY <1>2, <3>4
            <7> HIDE DEF n
            <7>2. QED
              BY <5>2, <7>1
          <6>2. k + 1 \in DOMAIN matches /\ k + 1 \in DOMAIN matches'
            BY <1>2, <1>8, <6>1, Lengths
          <6>3. QED
            BY <3>4, <6>1, <6>2
        <5>3. QED
          BY <5>1, <5>2
      <4>2. k \in DOMAIN matches
        BY <3>4, Lengths
      <4>3. PICK text \in past[results[k].path] :
              \A x \in {k, After(matches, k)} : matches[x].call = Slice(text, results[x])
        BY <4>2 DEF ExtractorInv, CallsFromOneVersion
      <4>4. QED
        BY <1>8, <3>4, <4>1, <4>3
    <3>5. QED
      BY <1>2, <3>2, <3>3, <3>4
  <2>2. past' = past /\ results' = results
    BY <1>1
  <2>3. QED
    BY <1>8, <2>1, <2>2 DEF CallsFromOneVersion
<1>16. QED
  BY <1>9, <1>10, <1>11, <1>12, <1>13, <1>14, <1>15 DEF ExtractorInv

-----------------------------------------------------------------------------
(* The steps that leave the calls alone.                                   *)
LEMMA KeepsCalls ==
  ASSUME ExtractorInv, UNCHANGED <<disk, past, results, cache, matches>>
  PROVE  Texts' /\ Report' /\ CacheOfPast' /\ LastIsCached' /\ CallsFromOneVersion'
         /\ IsList(matches')
  BY DEF ExtractorInv, Texts, Report, CacheOfPast, LastIsCached, CallsFromOneVersion, Lists

(* Those that do not touch the sites and the inventory either.             *)
LEMMA PhaseSteps ==
  ExtractorInv /\ (SemgrepEnds \/ ReadFails \/ WriteFails) => ExtractorInv'
<1> SUFFICES ASSUME ExtractorInv, SemgrepEnds \/ ReadFails \/ WriteFails PROVE ExtractorInv'
  OBVIOUS
<1>1. /\ UNCHANGED <<disk, past, results, cache, matches, sites, tally, inventory>>
      /\ phase' \in {"read", "failed"} /\ (phase' = "read" => phase = "semgrep")
  BY DEF SemgrepEnds, ReadFails, WriteFails, Program
<1>2. TypeOK' /\ InTurn' /\ Lists' /\ InventoryShape'
  BY <1>1 DEF ExtractorInv, TypeOK, InTurn, Lists, InventoryShape
<1>3. QED
  BY <1>1, <1>2, KeepsCalls DEF ExtractorInv

LEMMA CreateStep == ExtractorInv /\ CreateOutput => ExtractorInv'
<1> SUFFICES ASSUME ExtractorInv, CreateOutput PROVE ExtractorInv'
  OBVIOUS
<1>1. /\ UNCHANGED <<disk, past, results, cache, matches, sites, tally>>
      /\ phase = "read" /\ Len(matches) = Len(results)
  BY DEF CreateOutput, Program
<1>2. CASE phase' = "emit" /\ inventory' = [created |-> TRUE, lines |-> <<>>]
  <2>1. inventory'.created = TRUE /\ inventory'.lines = <<>>
    BY <1>2
  <2>2. InventoryShape'
    BY <1>2, <2>1 DEF InventoryShape
  <2>3. IsList(sites') /\ IsList(matches') /\ IsList(<<>>)
    BY <1>1 DEF ExtractorInv, Lists, IsList
  <2>4. Lists'
    BY <2>1, <2>3 DEF Lists
  <2>5. IsPrefix(inventory'.lines, sites')
    BY <2>1, <2>3, PrefixOfItself
  <2>6. TypeOK'
    BY <1>1, <1>2, <2>1, <2>5 DEF ExtractorInv, TypeOK
  <2>7. InTurn'
    BY <1>1, <1>2 DEF InTurn
  <2>8. QED
    BY <1>1, <2>2, <2>4, <2>6, <2>7, KeepsCalls DEF ExtractorInv
<1>3. CASE phase' = "failed" /\ UNCHANGED inventory
  <2>1. TypeOK' /\ InTurn' /\ Lists' /\ InventoryShape'
    BY <1>1, <1>3 DEF ExtractorInv, TypeOK, InTurn, Lists, InventoryShape
  <2>2. QED
    BY <1>1, <2>1, KeepsCalls DEF ExtractorInv
<1>4. QED
  BY <1>2, <1>3 DEF CreateOutput

(* A site is added; the lines that are written stay what they were.        *)
LEMMA EmitStep == ExtractorInv /\ EmitSite => ExtractorInv'
<1> SUFFICES ASSUME ExtractorInv, EmitSite PROVE ExtractorInv'
  OBVIOUS
<1>1. PICK site : sites' = Append(sites, site)
  BY DEF EmitSite
<1>2. /\ UNCHANGED <<disk, past, results, phase, cache, matches, inventory>>
      /\ phase = "emit" /\ Len(sites) < Len(matches)
  BY DEF EmitSite, Program, emitting
<1>3. IsList(sites) /\ IsList(inventory.lines) /\ IsPrefix(inventory.lines, sites)
  BY DEF ExtractorInv, Lists, TypeOK
<1>4. IsList(sites') /\ Len(sites') = Len(sites) + 1 /\ IsPrefix(inventory.lines, sites')
  BY <1>1, <1>3, ListGrows, PrefixGrows
<1>5. Lists'
  BY <1>2, <1>4 DEF ExtractorInv, Lists
<1>6. Len(sites') <= Len(matches')
  BY <1>2, <1>4, Lengths
<1>7. TypeOK'
  BY <1>2, <1>4, <1>6 DEF ExtractorInv, TypeOK
<1>8. InTurn' /\ InventoryShape'
  BY <1>2 DEF ExtractorInv, InTurn, InventoryShape
<1>9. QED
  BY <1>2, <1>5, <1>7, <1>8, KeepsCalls DEF ExtractorInv

(* All sites are written, and the run goes on, panics or is done.          *)
LEMMA WriteSteps ==
  ExtractorInv /\ (FlushBuffer \/ EmitPanics \/ Finish) => ExtractorInv'
<1> SUFFICES ASSUME ExtractorInv, FlushBuffer \/ EmitPanics \/ Finish PROVE ExtractorInv'
  OBVIOUS
<1>1. /\ UNCHANGED <<disk, past, results, cache, matches, sites, tally>>
      /\ phase = "emit" /\ phase' \in {"emit", "panicked", "done"}
      /\ phase' = "done" => Len(sites) = Len(matches)
      /\ inventory' = [inventory EXCEPT !.lines = sites]
  BY DEF FlushBuffer, EmitPanics, Finish, Program, emitting
<1>2. inventory' = [created |-> inventory.created, lines |-> sites]
  BY <1>1 DEF ExtractorInv, InventoryShape
<1>3. inventory'.created = inventory.created /\ inventory'.lines = sites'
  BY <1>1, <1>2
<1>4. InventoryShape'
  BY <1>1, <1>2, <1>3 DEF InventoryShape
<1>5. IsList(sites') /\ IsPrefix(inventory'.lines, sites')
  BY <1>1, <1>3, PrefixOfItself DEF ExtractorInv, Lists
<1>6. Lists'
  BY <1>1, <1>3, <1>5 DEF ExtractorInv, Lists
<1>7. TypeOK'
  BY <1>1, <1>3, <1>5 DEF ExtractorInv, TypeOK
<1>8. InTurn'
  BY <1>1, <1>3 DEF ExtractorInv, InTurn
<1>9. QED
  BY <1>1, <1>4, <1>6, <1>7, <1>8, KeepsCalls DEF ExtractorInv

LEMMA StutterStep == ExtractorInv /\ UNCHANGED vars => ExtractorInv'
  BY DEF ExtractorInv, TypeOK, Texts, Report, CacheOfPast, Lists, InventoryShape, LastIsCached,
         CallsFromOneVersion, InTurn, vars

LEMMA ExtractorStep == ExtractorInv /\ [Next]_vars => ExtractorInv'
  BY EditStep, ReadStep, PhaseSteps, CreateStep, EmitStep, WriteSteps, StutterStep DEF Next, Step

-----------------------------------------------------------------------------
LEMMA ExtractorInvariant == Spec => []ExtractorInv
  BY InitExtractor, ExtractorStep, PTL DEF Spec

(* Sites are built of calls that were cut out, lines written of sites.     *)
THEOREM TypeCorrect == Spec => []TypeOK
<1>1. ExtractorInv => TypeOK
  BY DEF ExtractorInv
<1>2. QED
  BY <1>1, ExtractorInvariant, PTL

(* Consecutive calls of one file come out of one version of it (the cache  *)
(* of read_match_text), whatever is edited and when.                       *)
THEOREM OneVersionPerRun == Spec => []CallsFromOneVersion
<1>1. ExtractorInv => CallsFromOneVersion
  BY DEF ExtractorInv
<1>2. QED
  BY <1>1, ExtractorInvariant, PTL

(* A run that ends well has written one line for each result.              *)
THEOREM EndsComplete == Spec => []DoneIsComplete
<1>1. ExtractorInv => DoneIsComplete
  BY DEF ExtractorInv, InTurn, DoneIsComplete
<1>2. QED
  BY <1>1, ExtractorInvariant, PTL

(* The old inventory is only given up once all the sources were read.      *)
THEOREM ReplacedOnlyWhenRead == Spec => OldInventoryKept
<1>1. ExtractorInv /\ [Next]_vars => [inventory' # inventory => Len(matches) = Len(results)]_vars
  <2> SUFFICES ASSUME ExtractorInv, Next, inventory' # inventory PROVE Len(matches) = Len(results)
    BY DEF vars
  <2>1. phase = "emit" => Len(matches) = Len(results)
    BY DEF ExtractorInv, InTurn
  <2>2. CreateOutput \/ phase = "emit"
    BY DEF Next, Step, Edit, SemgrepEnds, ReadMatch, ReadFails, EmitSite, FlushBuffer, EmitPanics,
           WriteFails, Finish, emitting
  <2>3. QED
    BY <2>1, <2>2 DEF CreateOutput
<1>2. QED
  BY <1>1, ExtractorInvariant, PTL DEF Spec, OldInventoryKept
-----------------------------------------------------------------------------
(* Tallies.                                                                *)

(* The places of a key.                                                    *)
LEMMA PlacesGrow ==
  ASSUME NEW n \in Nat, NEW S \in SUBSET (1 .. n)
  PROVE  /\ IsFiniteSet(S) /\ Cardinality(S) \in Nat
         /\ Cardinality(S \cup {n + 1}) = Cardinality(S) + 1
<1>1. IsFiniteSet(1 .. n)
  BY FS_Interval
<1>2. IsFiniteSet(S)
  BY <1>1, FS_Subset
<1>3. n + 1 \notin S
  OBVIOUS
<1>4. QED
  BY <1>2, <1>3, FS_CardinalityType, FS_AddElement

(* One more key is counted at its own line, which it may be the first of.  *)
LEMMA TalliesGrow ==
  ASSUME NEW n \in Nat, NEW keys, DOMAIN keys = 1 .. n, NEW more, DOMAIN more = 1 .. n + 1,
         \A k \in 1 .. n : more[k] = keys[k], NEW bag, Tallies(bag, keys)
  PROVE  Tallies(Count(bag, more[n + 1]), more)
<1> DEFINE key == more[n + 1]
           bags == Count(bag, key)
           At0(x) == { k \in DOMAIN keys : keys[k] = x }
           At1(x) == { k \in DOMAIN more : more[k] = x }
<1>1. DOMAIN bag = Range(keys) /\ \A x \in DOMAIN bag : bag[x] = Cardinality(At0(x))
  BY DEF Tallies
<1>2. Range(keys) = { keys[k] : k \in 1 .. n } /\ Range(more) = { more[k] : k \in 1 .. n + 1 }
  BY DEF Range
<1>3. Range(more) = Range(keys) \cup {key}
  <2>1. \A k \in 1 .. n + 1 : k \in 1 .. n \/ k = n + 1
    OBVIOUS
  <2>2. \A k \in 1 .. n : k \in 1 .. n + 1
    OBVIOUS
  <2>3. n + 1 \in 1 .. n + 1
    OBVIOUS
  <2>4. Range(more) \subseteq Range(keys) \cup {key}
    BY <1>2, <2>1
  <2>5. Range(keys) \cup {key} \subseteq Range(more)
    BY <1>2, <2>2, <2>3
  <2>6. QED
    BY <2>4, <2>5
<1>4. /\ DOMAIN bags = (DOMAIN bag) \cup {key}
      /\ \A x \in (DOMAIN bag) \cup {key} :
           bags[x] = (IF x \in DOMAIN bag THEN bag[x] ELSE 0) + (IF x = key THEN 1 ELSE 0)
  BY DEF Count
<1>5. ASSUME NEW x \in (DOMAIN bag) \cup {key} PROVE bags[x] = Cardinality(At1(x))
  <2>1. At0(x) \in SUBSET (1 .. n)
    OBVIOUS
  <2>2. At1(x) = IF x = key THEN At0(x) \cup {n + 1} ELSE At0(x)
    <3>1. \A k : k \in 1 .. n + 1 <=> k \in 1 .. n \/ k = n + 1
      OBVIOUS
    <3>2. \A k : k \in At1(x) <=> (k \in 1 .. n /\ keys[k] = x) \/ (k = n + 1 /\ key = x)
      BY <3>1
    <3>3. QED
      BY <3>2
  <2>3. x \notin DOMAIN bag => At0(x) = {}
    BY <1>1, <1>2
  <2> HIDE DEF At0, At1, key, bags
  <2>4. Cardinality(At0(x)) \in Nat /\ Cardinality(At0(x) \cup {n + 1}) = Cardinality(At0(x)) + 1
    BY <2>1, PlacesGrow
  <2>5. (IF x \in DOMAIN bag THEN bag[x] ELSE 0) = Cardinality(At0(x))
    <3>1. CASE x \in DOMAIN bag
      BY <1>1, <3>1
    <3>2. CASE x \notin DOMAIN bag
      BY <2>3, <3>2, FS_EmptySet
    <3>3. QED
      BY <3>1, <3>2
  <2>6. bags[x] = Cardinality(At0(x)) + (IF x = key THEN 1 ELSE 0)
    BY <1>4, <2>5
  <2>7. QED
    BY <2>2, <2>4, <2>6
<1>6. QED
  BY <1>1, <1>3, <1>4, <1>5 DEF Tallies

Literals == { k \in DOMAIN sites : sites[k].message.text # None }
LevelOf(s) == IF s.level = None THEN <<"-">> ELSE s.level

(* The tallies are in step with the sites at every moment.                 *)
TallyInv ==
  /\ Tallies(tally.by_api, [ k \in DOMAIN sites |-> sites[k].api ])
  /\ Tallies(tally.by_kind, [ k \in DOMAIN sites |-> sites[k].kind ])
  /\ Tallies(tally.by_level, [ k \in DOMAIN sites |-> LevelOf(sites[k]) ])
  /\ tally.literal = Cardinality(Literals) /\ tally.computed \in Nat
  /\ tally.literal + tally.computed = Len(sites)

LEMMA InitTally == Init => TallyInv
<1> SUFFICES ASSUME Init PROVE TallyInv
  OBVIOUS
<1>1. sites = <<>>
      /\ tally = [by_api |-> <<>>, by_level |-> <<>>, by_kind |-> <<>>, literal |-> 0, computed |-> 0]
  BY DEF Init
<1>2. /\ tally.by_api = <<>> /\ tally.by_level = <<>> /\ tally.by_kind = <<>>
      /\ tally.literal = 0 /\ tally.computed = 0 /\ DOMAIN sites = {} /\ Len(sites) = 0
  BY <1>1
<1>3. ASSUME NEW keys, DOMAIN keys = {} PROVE Tallies(<<>>, keys)
  <2>1. DOMAIN <<>> = {} /\ Range(keys) = {}
    BY <1>3 DEF Range
  <2>2. QED
    BY <2>1 DEF Tallies
<1>4. Cardinality(Literals) = 0
  BY <1>2, FS_EmptySet DEF Literals
<1>5. QED
  BY <1>2, <1>3, <1>4 DEF TallyInv

LEMMA EmitTally == ASSUME ExtractorInv, TallyInv, EmitSite PROVE TallyInv'
<1> DEFINE n == Len(sites)
<1>1. PICK site :
        /\ sites' = Append(sites, site)
        /\ tally' = [ by_api |-> Count(tally.by_api, site.api), by_level |-> Levels(tally.by_level, site),
                      by_kind |-> Count(tally.by_kind, site.kind),
                      literal |-> tally.literal + (IF site.message.text # None THEN 1 ELSE 0),
                      computed |-> tally.computed + (IF site.message.text # None THEN 0 ELSE 1) ]
  BY DEF EmitSite
<1>2. n \in Nat /\ DOMAIN sites = 1 .. n
  BY ListFacts DEF ExtractorInv, Lists
<1>3. /\ Len(sites') = n + 1 /\ DOMAIN sites' = 1 .. n + 1 /\ sites'[n + 1] = site
      /\ \A k \in 1 .. n : sites'[k] = sites[k]
  BY <1>1, ListGrows DEF ExtractorInv, Lists
<1>4. /\ tally'.by_api = Count(tally.by_api, site.api) /\ tally'.by_kind = Count(tally.by_kind, site.kind)
      /\ tally'.by_level = Count(tally.by_level, LevelOf(site))
      /\ tally'.literal = tally.literal + (IF site.message.text # None THEN 1 ELSE 0)
      /\ tally'.computed = tally.computed + (IF site.message.text # None THEN 0 ELSE 1)
  BY <1>1 DEF Levels, LevelOf
<1> HIDE DEF n
<1>5. Tallies(tally'.by_api, [ k \in DOMAIN sites' |-> sites'[k].api ])
  <2> DEFINE keys == [ k \in DOMAIN sites |-> sites[k].api ]
             more == [ k \in DOMAIN sites' |-> sites'[k].api ]
  <2>1. DOMAIN keys = 1 .. n /\ DOMAIN more = 1 .. n + 1 /\ more[n + 1] = site.api
    BY <1>2, <1>3
  <2>2. \A k \in 1 .. n : more[k] = keys[k]
    BY <1>2, <1>3
  <2>3. Tallies(tally.by_api, keys)
    BY DEF TallyInv
  <2> HIDE DEF keys, more
  <2>4. Tallies(Count(tally.by_api, more[n + 1]), more)
    BY <1>2, <2>1, <2>2, <2>3, TalliesGrow
  <2>5. QED
    BY <1>4, <2>1, <2>4 DEF more
<1>6. Tallies(tally'.by_kind, [ k \in DOMAIN sites' |-> sites'[k].kind ])
  <2> DEFINE keys == [ k \in DOMAIN sites |-> sites[k].kind ]
             more == [ k \in DOMAIN sites' |-> sites'[k].kind ]
  <2>1. DOMAIN keys = 1 .. n /\ DOMAIN more = 1 .. n + 1 /\ more[n + 1] = site.kind
    BY <1>2, <1>3
  <2>2. \A k \in 1 .. n : more[k] = keys[k]
    BY <1>2, <1>3
  <2>3. Tallies(tally.by_kind, keys)
    BY DEF TallyInv
  <2> HIDE DEF keys, more
  <2>4. Tallies(Count(tally.by_kind, more[n + 1]), more)
    BY <1>2, <2>1, <2>2, <2>3, TalliesGrow
  <2>5. QED
    BY <1>4, <2>1, <2>4 DEF more
<1>7. Tallies(tally'.by_level, [ k \in DOMAIN sites' |-> LevelOf(sites'[k]) ])
  <2> DEFINE keys == [ k \in DOMAIN sites |-> LevelOf(sites[k]) ]
             more == [ k \in DOMAIN sites' |-> LevelOf(sites'[k]) ]
  <2>1. DOMAIN keys = 1 .. n /\ DOMAIN more = 1 .. n + 1 /\ more[n + 1] = LevelOf(site)
    BY <1>2, <1>3
  <2>2. \A k \in 1 .. n : more[k] = keys[k]
    BY <1>2, <1>3
  <2>3. Tallies(tally.by_level, keys)
    BY DEF TallyInv
  <2> HIDE DEF keys, more
  <2>4. Tallies(Count(tally.by_level, more[n + 1]), more)
    BY <1>2, <2>1, <2>2, <2>3, TalliesGrow
  <2>5. QED
    BY <1>4, <2>1, <2>4 DEF more
<1>8. Literals' = IF site.message.text # None THEN Literals \cup {n + 1} ELSE Literals
  <2>1. \A k : k \in 1 .. n + 1 <=> k \in 1 .. n \/ k = n + 1
    BY <1>2
  <2>2. \A k : k \in Literals' <=>
          (k \in 1 .. n /\ sites[k].message.text # None) \/ (k = n + 1 /\ site.message.text # None)
    BY <1>2, <1>3, <2>1 DEF Literals
  <2>3. \A k : k \in Literals <=> k \in 1 .. n /\ sites[k].message.text # None
    BY <1>2 DEF Literals
  <2>4. QED
    BY <2>2, <2>3
<1>9. Cardinality(Literals) \in Nat /\ Cardinality(Literals \cup {n + 1}) = Cardinality(Literals) + 1
  <2>1. Literals \in SUBSET (1 .. n)
    BY <1>2 DEF Literals
  <2>2. QED
    BY <1>2, <2>1, PlacesGrow
<1>10. tally.literal = Cardinality(Literals) /\ tally.computed \in Nat /\ tally.literal + tally.computed = n
  BY DEF TallyInv, n
<1>11. tally'.literal = Cardinality(Literals')
  BY <1>4, <1>8, <1>9, <1>10
<1>12. tally'.computed \in Nat /\ tally'.literal + tally'.computed = n + 1
  BY <1>4, <1>9, <1>10
<1>13. QED
  BY <1>3, <1>5, <1>6, <1>7, <1>11, <1>12 DEF TallyInv

LEMMA TallyStep == ASSUME ExtractorInv, TallyInv, [Next]_vars PROVE TallyInv'
<1>1. UNCHANGED <<sites, tally>> => TallyInv'
  BY DEF TallyInv, Literals
<1>2. EmitSite \/ UNCHANGED <<sites, tally>>
  BY DEF Next, Step, vars, Edit, SemgrepEnds, ReadMatch, ReadFails, CreateOutput, FlushBuffer, EmitPanics,
         WriteFails, Finish
<1>3. QED
  BY <1>1, <1>2, EmitTally

(* What is printed at the end counts the sites, whether the run got as far *)
(* as that or not (main.rs:114-157).                                       *)
THEOREM TalliesAreOfSites == Spec => []TalliesOfSites
<1>1. TallyInv => TalliesOfSites
  BY DEF TallyInv, TalliesOfSites, Literals, LevelOf
<1>2. ExtractorInv /\ TallyInv /\ [Next]_vars => TallyInv'
  BY TallyStep
<1>3. QED
  BY <1>1, <1>2, InitTally, ExtractorInvariant, PTL DEF Spec
===============================================================================
