---------------------------- MODULE ScannerProof ----------------------------
(***************************************************************************)
(* What is proved of Scanner for every catalog: the build accounts for     *)
(* each site, the making of the oracle side files each pattern once, no    *)
(* prefilter loses a match, and the three paths give the answer of         *)
(* ScanOracle on lines without a decimal digit that is not ASCII.          *)
(*                                                                         *)
(* ScannerInv is the inductive invariant.  Its first part relates the      *)
(* report and the parallel vectors to the sites passed so far; its second  *)
(* says that the counts are those of the patterns counted so far, and the  *)
(* buckets hold those filed so far under the rarest of their trigrams; its *)
(* third that a call has its hits and its candidates in catalog order,     *)
(* each hit before every candidate, so that the stable sort of Return      *)
(* ranks sites of equal specificity by their place in the catalog.         *)
(*                                                                         *)
(* A prefilter keeps a match for two reasons.  The anchor literal of a     *)
(* pattern occurs in every line the pattern matches, at a place the widths *)
(* allow (ParsesAreCandidates).  And lowercasing works char by char, so    *)
(* every trigram of a literal is a trigram of a line that holds it; for a  *)
(* capital sigma, whose lowercase depends on its neighbours, that is false *)
(* and the trigram path needs the hypothesis NoCapitalSigma.  The path of  *)
(* scan_line reads \d as the ASCII digits, the other two as the regular    *)
(* expressions do: that they agree needs NoWideDigits.                     *)
(***************************************************************************)
EXTENDS Scanner, PatternFacts, FiniteSetTheorems

-----------------------------------------------------------------------------
(* The build: sites, report and parallel vectors.                          *)

(* The first n sites, split by what the build makes of them.               *)
Textless(n) == { i \in 1 .. n : sites[i] = NoText }
Rejected(n) == { i \in 1 .. n : sites[i] # NoText /\ ~lower_format[sites[i]].ok }
Compiled(n) == { i \in 1 .. n : sites[i] # NoText /\ lower_format[sites[i]].ok }

(* The vectors describe the compiled ones, in catalog order.               *)
Described ==
  /\ Len(site_idx) = Len(pats) /\ Len(literal_len) = Len(pats)
  /\ \A i \in Patterns : /\ site_idx[i] \in Compiled(Accounted)
                         /\ pats[i] = lower_format[sites[site_idx[i]]].toks
                         /\ literal_len[i] = lower_format[sites[site_idx[i]]].literal_len
  /\ \A j, i \in Patterns : j < i => site_idx[j] < site_idx[i]
  /\ \A k \in Compiled(Accounted) : \E i \in Patterns : site_idx[i] = k

(* What the report says of the sites that were passed.                     *)
Reported ==
  /\ Accounted <= report.total /\ report.total = Len(sites)
  /\ report.no_text = Cardinality(Textless(Accounted))
  /\ report.lower_failed = Cardinality(Rejected(Accounted))
  /\ phase # "build" => Accounted = report.total /\ report.compiled = Len(pats)

Phases == {"build", "idle", "oracle", "find", "scan", "answered"}

(* The types.                                                              *)
CatalogTyped ==
  /\ sites \in Catalogs
  /\ report \in [total : Nat, no_text : Nat, lower_failed : Nat, compiled : Nat]
  /\ site_idx \in Seq(DOMAIN sites) /\ literal_len \in Seq(Nat)
  /\ pats \in Seq(Seq(Token))
  /\ phase \in Phases

CatalogInv == CatalogTyped /\ Reported /\ Described

(* The counters are numbers and the next site is the one after them.       *)
LEMMA CatalogNumbers ==
  ASSUME CatalogInv
  PROVE  /\ sites \in Seq(Text \cup {NoText}) /\ DOMAIN sites = 1 .. Len(sites) /\ Len(sites) \in Nat
         /\ Len(pats) \in Nat /\ Patterns = 1 .. Len(pats)
         /\ Accounted \in Nat /\ Accounted = report.no_text + report.lower_failed + Len(pats)
         /\ report.no_text \in Nat /\ report.lower_failed \in Nat /\ report.total \in Nat
         /\ idx = Accounted + 1
<1>1. sites \in Seq(Text \cup {NoText})
  BY CatalogAssumption DEF CatalogInv, CatalogTyped
<1>2. report \in [total : Nat, no_text : Nat, lower_failed : Nat, compiled : Nat] /\ pats \in Seq(Seq(Token))
  BY DEF CatalogInv, CatalogTyped
<1>3. QED
  BY <1>1, <1>2 DEF Accounted, Patterns, idx

(* The invariant of the catalog says what the report promises.             *)
LEMMA CatalogAccounts ==
  ASSUME CatalogInv
  PROVE  SitesAccountedFor
<1> DEFINE done == 1 .. Accounted
           textless == { i \in done : sites[i] = NoText }
           rejected == { i \in done : sites[i] # NoText /\ ~lower_format[sites[i]].ok }
           compiled == { i \in done : sites[i] # NoText /\ lower_format[sites[i]].ok }
<1>1. textless = Textless(Accounted) /\ rejected = Rejected(Accounted) /\ compiled = Compiled(Accounted)
  BY DEF Textless, Rejected, Compiled
<1>2. done \ (textless \cup rejected) = compiled
  OBVIOUS
<1> HIDE DEF textless, rejected, compiled
<1>3. { site_idx[i] : i \in Patterns } = compiled
  BY <1>1 DEF CatalogInv, Described
<1>4. \A i \in Patterns : /\ \A j \in 1 .. i - 1 : site_idx[j] < site_idx[i]
                          /\ pats[i] = lower_format[sites[site_idx[i]]].toks
                          /\ literal_len[i] = lower_format[sites[site_idx[i]]].literal_len
  <2> TAKE i \in Patterns
  <2>1. \A j \in 1 .. i - 1 : j \in Patterns /\ j < i
    BY CatalogNumbers
  <2>2. QED
    BY <2>1 DEF CatalogInv, Described
<1>5. phase # "build" => /\ Accounted = report.total
                         /\ report.total = report.no_text + report.lower_failed + report.compiled
  BY CatalogNumbers DEF CatalogInv, Reported
<1>6. /\ Accounted <= report.total /\ report.total = Len(sites)
      /\ report.no_text = Cardinality(textless) /\ report.lower_failed = Cardinality(rejected)
      /\ Len(site_idx) = Len(pats) /\ Len(literal_len) = Len(pats)
  BY <1>1 DEF CatalogInv, Described, Reported
<1>7. QED
  BY <1>2, <1>3, <1>4, <1>5, <1>6 DEF SitesAccountedFor, textless, rejected

(* Before the first site nothing is accounted for.                         *)
LEMMA CatalogInit == Init => CatalogInv
<1> SUFFICES ASSUME Init PROVE CatalogInv
  OBVIOUS
<1>1. /\ sites \in Catalogs /\ site_idx = <<>> /\ literal_len = <<>> /\ pats = <<>> /\ phase = "build"
      /\ report = [total |-> Len(sites), no_text |-> 0, lower_failed |-> 0, compiled |-> 0]
  BY DEF Init
<1>2. sites \in Seq(Text \cup {NoText}) /\ Len(sites) \in Nat
  BY <1>1, CatalogAssumption
<1>3. Accounted = 0 /\ Patterns = {}
  BY <1>1 DEF Accounted, Patterns
<1>4. Textless(0) = {} /\ Rejected(0) = {} /\ Compiled(0) = {}
  BY DEF Textless, Rejected, Compiled
<1>5. CatalogTyped
  BY <1>1, <1>2 DEF CatalogTyped, Phases
<1>6. Reported
  <2>1. Cardinality({}) = 0
    BY FS_EmptySet
  <2>2. Cardinality(Textless(Accounted)) = 0 /\ Cardinality(Rejected(Accounted)) = 0
    BY <1>3, <1>4, <2>1
  <2>3. report.total = Len(sites) /\ report.no_text = 0 /\ report.lower_failed = 0
    BY <1>1
  <2>4. QED
    BY <1>1, <1>2, <1>3, <2>2, <2>3 DEF Reported
<1>7. Described
  BY <1>1, <1>3, <1>4 DEF Described
<1>8. QED
  BY <1>5, <1>6, <1>7 DEF CatalogInv

(* Each site of the catalog goes to one of the three buckets.              *)
LEMMA Buckets ==
  ASSUME NEW n \in Nat
  PROVE  /\ IsFiniteSet(Textless(n)) /\ IsFiniteSet(Rejected(n))
         /\ n + 1 \notin Textless(n) /\ n + 1 \notin Rejected(n)
         /\ sites[n + 1] = NoText =>
              /\ Textless(n + 1) = Textless(n) \cup {n + 1}
              /\ Rejected(n + 1) = Rejected(n) /\ Compiled(n + 1) = Compiled(n)
         /\ sites[n + 1] # NoText /\ ~lower_format[sites[n + 1]].ok =>
              /\ Rejected(n + 1) = Rejected(n) \cup {n + 1}
              /\ Textless(n + 1) = Textless(n) /\ Compiled(n + 1) = Compiled(n)
         /\ sites[n + 1] # NoText /\ lower_format[sites[n + 1]].ok =>
              /\ Compiled(n + 1) = Compiled(n) \cup {n + 1}
              /\ Textless(n + 1) = Textless(n) /\ Rejected(n + 1) = Rejected(n)
<1>1. 1 .. n + 1 = (1 .. n) \cup {n + 1} /\ n + 1 \notin 1 .. n
  OBVIOUS
<1>2. IsFiniteSet(1 .. n) /\ Textless(n) \in SUBSET (1 .. n) /\ Rejected(n) \in SUBSET (1 .. n)
  <2>1. IsFiniteSet(1 .. n)
    BY FS_Interval
  <2>2. QED
    BY <2>1 DEF Textless, Rejected
<1>3. IsFiniteSet(Textless(n)) /\ IsFiniteSet(Rejected(n))
  BY <1>2, FS_Subset
<1> DEFINE i == n + 1
<1>4. CASE sites[i] = NoText
  BY <1>1, <1>3, <1>4 DEF Textless, Rejected, Compiled
<1>5. CASE sites[i] # NoText /\ ~lower_format[sites[i]].ok
  BY <1>1, <1>3, <1>5 DEF Textless, Rejected, Compiled
<1>6. CASE sites[i] # NoText /\ lower_format[sites[i]].ok
  BY <1>1, <1>3, <1>6 DEF Textless, Rejected, Compiled
<1>7. QED
  BY <1>4, <1>5, <1>6

(* A call leaves the catalog alone, and so does the making of the oracle   *)
(* side.                                                                   *)
LEMMA CallsLeaveCatalog ==
  ASSUME Call \/ MakeOracle \/ FindCandidates \/ Verify \/ Return
  PROVE  /\ UNCHANGED catalogVars
         /\ phase # "build" /\ phase' \in Phases \ {"build"}
<1>1. CASE Call
  BY <1>1 DEF Call, scan_line, scan_line_trigram, scan_line_regexset, Diagnose, Start, Ready, Phases
<1>2. CASE MakeOracle
  BY <1>2 DEF MakeOracle, TallyPattern, FilePattern, HaveOracle, Filing, Missing, callVars, Phases
<1>3. CASE FindCandidates \/ Verify \/ Return
  BY <1>3 DEF FindCandidates, Verify, Return, Phases
<1>4. QED
  BY <1>1, <1>2, <1>3

(* Each step of the build loop moves one site into one bucket; after the   *)
(* loop nothing of the catalog moves.                                      *)
LEMMA CatalogStep ==
  ASSUME CatalogInv, [Next]_vars
  PROVE  CatalogInv'
<1> DEFINE n == Accounted
<1>0. /\ sites \in Seq(Text \cup {NoText}) /\ DOMAIN sites = 1 .. Len(sites) /\ Len(sites) \in Nat
      /\ Len(pats) \in Nat /\ Patterns = 1 .. Len(pats)
      /\ n \in Nat /\ n = report.no_text + report.lower_failed + Len(pats)
      /\ report.no_text \in Nat /\ report.lower_failed \in Nat /\ report.total \in Nat
      /\ idx = n + 1
  BY CatalogNumbers
<1>1. CatalogTyped /\ Reported /\ Described
  BY DEF CatalogInv
<1>2. /\ n <= report.total /\ report.total = Len(sites)
      /\ report.no_text = Cardinality(Textless(n)) /\ report.lower_failed = Cardinality(Rejected(n))
  BY <1>1 DEF Reported
<1>3. /\ report \in [total : Nat, no_text : Nat, lower_failed : Nat, compiled : Nat]
      /\ sites \in Catalogs
  BY <1>1 DEF CatalogTyped
<1> HIDE DEF n
<1>4. ASSUME SkipNoText PROVE CatalogInv'
  <2>1. /\ phase = "build" /\ n + 1 <= Len(sites) /\ sites[n + 1] = NoText
        /\ report' = [report EXCEPT !.no_text = report.no_text + 1]
        /\ sites' = sites /\ site_idx' = site_idx /\ literal_len' = literal_len /\ pats' = pats
        /\ phase' = phase
    BY <1>0, <1>4 DEF SkipNoText, Building, callVars
  <2>2. /\ report' \in [total : Nat, no_text : Nat, lower_failed : Nat, compiled : Nat]
        /\ report'.total = report.total /\ report'.no_text = report.no_text + 1
        /\ report'.lower_failed = report.lower_failed
    <3>1. report' = [report EXCEPT !.no_text = report.no_text + 1] /\ report.no_text + 1 \in Nat
      BY <1>0, <2>1
    <3>2. QED
      BY <1>3, <3>1
  <2>3. Accounted' = n + 1 /\ Patterns' = Patterns
    BY <1>0, <2>1, <2>2 DEF Accounted, Patterns
  <2>4. /\ Textless(n + 1) = Textless(n) \cup {n + 1} /\ n + 1 \notin Textless(n)
        /\ IsFiniteSet(Textless(n))
        /\ Rejected(n + 1) = Rejected(n) /\ Compiled(n + 1) = Compiled(n)
    BY <1>0, <2>1, Buckets
  <2>5. /\ Cardinality(Textless(n + 1)) = report.no_text + 1
        /\ Cardinality(Rejected(n + 1)) = report.lower_failed
    BY <1>2, <2>4, FS_AddElement
  <2>6. \A k : Textless(k)' = Textless(k) /\ Rejected(k)' = Rejected(k) /\ Compiled(k)' = Compiled(k)
    BY <2>1 DEF Textless, Rejected, Compiled
  <2>7. CatalogTyped'
    BY <1>1, <2>1, <2>2 DEF CatalogTyped
  <2>8. Reported'
    BY <1>0, <1>2, <2>1, <2>2, <2>3, <2>5, <2>6 DEF Reported
  <2>9. Described'
    BY <1>1, <2>1, <2>3, <2>4, <2>6 DEF Described, n
  <2>10. QED
    BY <2>7, <2>8, <2>9 DEF CatalogInv
<1>5. ASSUME RejectText PROVE CatalogInv'
  <2>1. /\ phase = "build" /\ n + 1 <= Len(sites)
        /\ sites[n + 1] # NoText /\ ~lower_format[sites[n + 1]].ok
        /\ report' = [report EXCEPT !.lower_failed = report.lower_failed + 1]
        /\ sites' = sites /\ site_idx' = site_idx /\ literal_len' = literal_len /\ pats' = pats
        /\ phase' = phase
    BY <1>0, <1>5 DEF RejectText, Building, callVars
  <2>2. /\ report' \in [total : Nat, no_text : Nat, lower_failed : Nat, compiled : Nat]
        /\ report'.total = report.total /\ report'.no_text = report.no_text
        /\ report'.lower_failed = report.lower_failed + 1
    <3>1. report' = [report EXCEPT !.lower_failed = report.lower_failed + 1] /\ report.lower_failed + 1 \in Nat
      BY <1>0, <2>1
    <3>2. QED
      BY <1>3, <3>1
  <2>3. Accounted' = n + 1 /\ Patterns' = Patterns
    BY <1>0, <2>1, <2>2 DEF Accounted, Patterns
  <2>4. /\ Rejected(n + 1) = Rejected(n) \cup {n + 1} /\ n + 1 \notin Rejected(n)
        /\ IsFiniteSet(Rejected(n))
        /\ Textless(n + 1) = Textless(n) /\ Compiled(n + 1) = Compiled(n)
    BY <1>0, <2>1, Buckets
  <2>5. /\ Cardinality(Textless(n + 1)) = report.no_text
        /\ Cardinality(Rejected(n + 1)) = report.lower_failed + 1
    BY <1>2, <2>4, FS_AddElement
  <2>6. \A k : Textless(k)' = Textless(k) /\ Rejected(k)' = Rejected(k) /\ Compiled(k)' = Compiled(k)
    BY <2>1 DEF Textless, Rejected, Compiled
  <2>7. CatalogTyped'
    BY <1>1, <2>1, <2>2 DEF CatalogTyped
  <2>8. Reported'
    BY <1>0, <1>2, <2>1, <2>2, <2>3, <2>5, <2>6 DEF Reported
  <2>9. Described'
    BY <1>1, <2>1, <2>3, <2>4, <2>6 DEF Described, n
  <2>10. QED
    BY <2>7, <2>8, <2>9 DEF CatalogInv
<1>6. ASSUME CompileSite PROVE CatalogInv'
  <2> DEFINE low == lower_format[sites[n + 1]]
  <2>1. /\ phase = "build" /\ n + 1 <= Len(sites) /\ sites[n + 1] # NoText /\ low.ok
        /\ site_idx' = Append(site_idx, n + 1)
        /\ literal_len' = Append(literal_len, low.literal_len)
        /\ pats' = Append(pats, low.toks)
        /\ sites' = sites /\ report' = report /\ phase' = phase
    BY <1>0, <1>6 DEF CompileSite, Building, callVars
  <2>2. low.toks \in Seq(Token) /\ low.literal_len \in Nat
    BY <1>0, <2>1, CatalogAssumption DEF IsPattern
  <2>3. /\ Compiled(n + 1) = Compiled(n) \cup {n + 1}
        /\ Textless(n + 1) = Textless(n) /\ Rejected(n + 1) = Rejected(n)
    BY <1>0, <2>1, Buckets
  <2> HIDE DEF low
  <2>4. \A k : Textless(k)' = Textless(k) /\ Rejected(k)' = Rejected(k) /\ Compiled(k)' = Compiled(k)
    BY <2>1 DEF Textless, Rejected, Compiled
  <2>5. /\ pats \in Seq(Seq(Token)) /\ site_idx \in Seq(DOMAIN sites) /\ literal_len \in Seq(Nat)
        /\ Len(site_idx) = Len(pats) /\ Len(literal_len) = Len(pats)
    BY <1>1 DEF CatalogTyped, Described
  <2>6. n + 1 \in DOMAIN sites
    BY <1>0, <2>1
  <2>7. CatalogTyped'
    BY <1>1, <2>1, <2>2, <2>5, <2>6 DEF CatalogTyped
  <2>8. Len(pats') = Len(pats) + 1 /\ Len(site_idx') = Len(pats) + 1 /\ Len(literal_len') = Len(pats) + 1
    BY <2>1, <2>5
  <2>9. Accounted' = n + 1 /\ Patterns' = Patterns \cup {Len(pats) + 1}
    <3>1. Accounted' = report.no_text + report.lower_failed + (Len(pats) + 1)
      BY <2>1, <2>8 DEF Accounted
    <3>2. Patterns' = 1 .. Len(pats) + 1
      BY <2>8 DEF Patterns
    <3>3. Accounted' = n + 1
      BY <1>0, <3>1
    <3>4. Patterns' = Patterns \cup {Len(pats) + 1}
      <4>1. \A m \in Nat : 1 .. m + 1 = (1 .. m) \cup {m + 1}
        OBVIOUS
      <4>2. QED
        BY <1>0, <3>2, <4>1
    <3>5. QED
      BY <3>3, <3>4
  <2>10. Reported'
    BY <1>0, <1>2, <2>1, <2>3, <2>4, <2>9 DEF Reported
  <2>11. \A i \in Patterns : pats'[i] = pats[i] /\ site_idx'[i] = site_idx[i] /\ literal_len'[i] = literal_len[i]
    <3>1. \A i \in Patterns : i \in 1 .. Len(pats) /\ i \in 1 .. Len(site_idx) /\ i \in 1 .. Len(literal_len)
      BY <1>0, <2>5
    <3>2. \A i \in 1 .. Len(pats) : pats'[i] = pats[i]
      BY <2>1, <2>5
    <3>3. \A i \in 1 .. Len(site_idx) : site_idx'[i] = site_idx[i]
      BY <2>1, <2>5
    <3>4. \A i \in 1 .. Len(literal_len) : literal_len'[i] = literal_len[i]
      BY <2>1, <2>5
    <3>5. QED
      BY <3>1, <3>2, <3>3, <3>4
  <2>12. /\ pats'[Len(pats) + 1] = low.toks /\ site_idx'[Len(pats) + 1] = n + 1
         /\ literal_len'[Len(pats) + 1] = low.literal_len
    BY <1>0, <2>1, <2>5
  <2>13. \A i \in Patterns' : i \in Patterns \/ i = Len(pats) + 1
    BY <2>9
  <2>14. \A i \in Patterns' : /\ site_idx'[i] \in Compiled(n + 1)
                              /\ pats'[i] = lower_format[sites[site_idx'[i]]].toks
                              /\ literal_len'[i] = lower_format[sites[site_idx'[i]]].literal_len
    BY <1>1, <2>3, <2>11, <2>12, <2>13 DEF Described, n, low
  <2>15. \A i \in Patterns : site_idx[i] < n + 1
    <3>1. \A k \in Compiled(n) : k < n + 1
      BY <1>0 DEF Compiled
    <3>2. QED
      BY <1>1, <3>1 DEF Described, n
  <2>16. \A j, i \in Patterns' : j < i => site_idx'[j] < site_idx'[i]
    <3> SUFFICES ASSUME NEW j \in Patterns', NEW i \in Patterns', j < i PROVE site_idx'[j] < site_idx'[i]
      OBVIOUS
    <3>1. j \in Patterns
      BY <1>0, <2>13
    <3>2. CASE i \in Patterns
      BY <1>1, <2>11, <3>1, <3>2 DEF Described
    <3>3. CASE i = Len(pats) + 1
      BY <2>11, <2>12, <2>15, <3>1, <3>3
    <3>4. QED
      BY <2>13, <3>2, <3>3
  <2>17. \A k \in Compiled(n + 1) : \E i \in Patterns' : site_idx'[i] = k
    <3> TAKE k \in Compiled(n + 1)
    <3>1. CASE k = n + 1
      BY <2>9, <2>12, <3>1
    <3>2. CASE k \in Compiled(n)
      BY <1>1, <2>9, <2>11, <3>2 DEF Described, n
    <3>3. QED
      BY <2>3, <3>1, <3>2
  <2>18. Described'
    BY <2>1, <2>4, <2>8, <2>9, <2>14, <2>16, <2>17 DEF Described
  <2>19. QED
    BY <2>7, <2>10, <2>18 DEF CatalogInv
<1>7. ASSUME FinishBuild PROVE CatalogInv'
  <2>1. /\ phase = "build" /\ n + 1 > Len(sites) /\ phase' = "idle"
        /\ report' = [report EXCEPT !.compiled = Len(pats)]
        /\ sites' = sites /\ site_idx' = site_idx /\ literal_len' = literal_len /\ pats' = pats
    BY <1>0, <1>7 DEF FinishBuild
  <2>2. /\ report' \in [total : Nat, no_text : Nat, lower_failed : Nat, compiled : Nat]
        /\ report'.total = report.total /\ report'.no_text = report.no_text
        /\ report'.lower_failed = report.lower_failed /\ report'.compiled = Len(pats)
    BY <1>0, <1>3, <2>1
  <2>3. Accounted' = n /\ Patterns' = Patterns
    BY <1>0, <2>1, <2>2 DEF Accounted, Patterns
  <2>4. \A k : Textless(k)' = Textless(k) /\ Rejected(k)' = Rejected(k) /\ Compiled(k)' = Compiled(k)
    BY <2>1 DEF Textless, Rejected, Compiled
  <2>5. CatalogTyped'
    BY <1>1, <2>1, <2>2 DEF CatalogTyped, Phases
  <2>6. Reported'
    BY <1>0, <1>2, <2>1, <2>2, <2>3, <2>4 DEF Reported
  <2>7. Described'
    BY <1>1, <2>1, <2>3, <2>4 DEF Described, n
  <2>8. QED
    BY <2>5, <2>6, <2>7 DEF CatalogInv
<1>8. ASSUME UNCHANGED catalogVars, phase' \in Phases, phase' # "build" => phase # "build"
      PROVE  CatalogInv'
  <2>1. /\ sites' = sites /\ report' = report /\ site_idx' = site_idx
        /\ literal_len' = literal_len /\ pats' = pats
    BY <1>8 DEF catalogVars
  <2>2. Accounted' = n /\ Patterns' = Patterns
    BY <2>1 DEF Accounted, Patterns, n
  <2>3. \A k : Textless(k)' = Textless(k) /\ Rejected(k)' = Rejected(k) /\ Compiled(k)' = Compiled(k)
    BY <2>1 DEF Textless, Rejected, Compiled
  <2>4. CatalogTyped'
    BY <1>1, <1>8, <2>1 DEF CatalogTyped
  <2>5. Reported'
    BY <1>1, <1>8, <2>1, <2>2, <2>3 DEF Reported, n
  <2>6. Described'
    BY <1>1, <2>1, <2>2, <2>3 DEF Described, n
  <2>7. QED
    BY <2>4, <2>5, <2>6 DEF CatalogInv
<1>9. ASSUME Call \/ MakeOracle \/ FindCandidates \/ Verify \/ Return PROVE CatalogInv'
  BY <1>8, <1>9, CallsLeaveCatalog DEF Phases
<1>10. ASSUME UNCHANGED vars PROVE CatalogInv'
  <2>1. UNCHANGED catalogVars /\ phase' = phase
    BY <1>10 DEF vars, callVars
  <2>2. phase \in Phases
    BY <1>1 DEF CatalogTyped
  <2>3. QED
    BY <1>8, <2>1, <2>2
<1>11. QED
  BY <1>4, <1>5, <1>6, <1>7, <1>9, <1>10 DEF Next, Build

-----------------------------------------------------------------------------
(* The sorted answer.                                                      *)

(* The hits a line can have along path w.                                  *)
HitsFor(w, l) == { Hit(w, i, l) : i \in { k \in Patterns : MatchedBy(w, k, l) } }

(* Nothing that is built from the catalog moves when the catalog does not. *)
LEMMA CatalogStands ==
  ASSUME UNCHANGED catalogVars
  PROVE  /\ Patterns' = Patterns
         /\ \A w, i, l : Hit(w, i, l)' = Hit(w, i, l)
         /\ \A w, i, l : MatchedBy(w, i, l)' = MatchedBy(w, i, l)
         /\ \A w, l : HitsFor(w, l)' = HitsFor(w, l)
         /\ sites' = sites /\ pats' = pats /\ site_idx' = site_idx /\ literal_len' = literal_len
<1>1. /\ sites' = sites /\ report' = report /\ site_idx' = site_idx
      /\ literal_len' = literal_len /\ pats' = pats
  BY DEF catalogVars
<1>2. Patterns' = Patterns
  BY <1>1 DEF Patterns
<1>3. \A w, i, l : CapturesOn(w, i, l)' = CapturesOn(w, i, l)
  BY <1>1, Zenon DEF CapturesOn
<1>4. \A w, i, l : Hit(w, i, l)' = Hit(w, i, l)
  BY <1>1, <1>3, Zenon DEF Hit
<1>5. \A w, i, l : MatchedBy(w, i, l)' = MatchedBy(w, i, l)
  BY <1>3, Zenon DEF MatchedBy
<1>6. \A w, l : HitsFor(w, l)' = HitsFor(w, l)
  BY <1>2, <1>4, <1>5, Zenon DEF HitsFor
<1>7. QED
  BY <1>1, <1>2, <1>4, <1>5, <1>6

(* The answer of a call: the hits, the most specific first, those of equal *)
(* specificity as they were.                                               *)
LEMMA StableSortSorts ==
  ASSUME NEW X, NEW h \in Seq(X), \A i \in DOMAIN h : h[i].literal_len \in Nat
  PROVE  /\ StableSort(h) \in Seq(X) /\ Len(StableSort(h)) = Len(h)
         /\ \E from \in [1 .. Len(h) -> 1 .. Len(h)] :
              /\ \A k \in 1 .. Len(h) : StableSort(h)[k] = h[from[k]]
              /\ \A i \in 1 .. Len(h) : \E k \in 1 .. Len(h) : from[k] = i
              /\ \A j, k \in 1 .. Len(h) : j < k =>
                   \/ h[from[j]].literal_len > h[from[k]].literal_len
                   \/ h[from[j]].literal_len = h[from[k]].literal_len /\ from[j] < from[k]
<1> DEFINE n == Len(h)
           S == DOMAIN h
           R == { e \in S \X S : \/ h[e[1]].literal_len > h[e[2]].literal_len
                                 \/ h[e[1]].literal_len = h[e[2]].literal_len /\ e[1] < e[2] }
           from == Ranked(S, R)
<1>1. n \in Nat /\ S = 1 .. n
  OBVIOUS
<1>2. StableSort(h) = [ k \in S |-> h[from[k]] ]
  BY Zenon DEF StableSort
<1>3. \A i, j \in S : <<i, j>> \in R <=> \/ h[i].literal_len > h[j].literal_len
                                         \/ h[i].literal_len = h[j].literal_len /\ i < j
  OBVIOUS
<1> HIDE DEF R
<1>4. IsLinearOrder(S, R)
  <2>1. \A i \in S : i \in Int /\ h[i].literal_len \in Int
    BY <1>1
  <2> HIDE DEF S
  <2>2. \A i \in S : <<i, i>> \notin R
    BY <1>3, <2>1
  <2>3. \A i, j \in S : i # j => <<i, j>> \in R \/ <<j, i>> \in R
    BY <1>3, <2>1
  <2>4. ASSUME NEW i \in S, NEW j \in S, NEW k \in S, <<i, j>> \in R, <<j, k>> \in R PROVE <<i, k>> \in R
    <3> DEFINE Before(p, x, q, y) == p > q \/ (p = q /\ x < y)
    <3>1. \A x, y \in S : <<x, y>> \in R <=> Before(h[x].literal_len, x, h[y].literal_len, y)
      BY <1>3
    <3>2. \A p, q, r, x, y, z \in Int : Before(p, x, q, y) /\ Before(q, y, r, z) => Before(p, x, r, z)
      OBVIOUS
    <3> DEFINE v(x) == h[x].literal_len
    <3>3. i \in Int /\ j \in Int /\ k \in Int /\ v(i) \in Int /\ v(j) \in Int /\ v(k) \in Int
      BY <2>1
    <3> HIDE DEF Before
    <3>4. Before(v(i), i, v(j), j) /\ Before(v(j), j, v(k), k)
      BY <2>4, <3>1, Zenon
    <3> HIDE DEF v
    <3>5. Before(v(i), i, v(k), k)
      BY <3>2, <3>3, <3>4
    <3>6. QED
      BY <3>1, <3>5 DEF v
  <2>5. QED
    BY <2>2, <2>3, <2>4 DEF IsLinearOrder
<1>5. IsFiniteSet(S) /\ Cardinality(S) = n
  <2>1. IsFiniteSet(1 .. n) /\ Cardinality(1 .. n) = n
    <3> HIDE DEF n
    <3>1. IsFiniteSet(1 .. n) /\ Cardinality(1 .. n) = IF 1 > n THEN 0 ELSE n - 1 + 1
      BY <1>1, FS_Interval
    <3>2. QED
      BY <1>1, <3>1
  <2>2. QED
    BY <1>1, <2>1
<1>6. /\ from \in [1 .. n -> S]
      /\ \A i \in S : \E k \in 1 .. n : from[k] = i
      /\ \A j, k \in 1 .. n : j < k => <<from[j], from[k]>> \in R
  <2> HIDE DEF S, n
  <2>1. QED
    BY <1>4, <1>5, RankedSorts
<1> HIDE DEF from, S
<1>7. \A j, k \in 1 .. n : j < k =>
        \/ h[from[j]].literal_len > h[from[k]].literal_len
        \/ h[from[j]].literal_len = h[from[k]].literal_len /\ from[j] < from[k]
  <2> SUFFICES ASSUME NEW j \in 1 .. n, NEW k \in 1 .. n, j < k
               PROVE  \/ h[from[j]].literal_len > h[from[k]].literal_len
                      \/ h[from[j]].literal_len = h[from[k]].literal_len /\ from[j] < from[k]
    OBVIOUS
  <2>1. from[j] \in S /\ from[k] \in S /\ <<from[j], from[k]>> \in R
    BY <1>6
  <2> HIDE DEF n
  <2>2. QED
    BY <1>3, <2>1
<1>8. \A k \in 1 .. n : StableSort(h)[k] = h[from[k]]
  BY <1>1, <1>2
<1>9. StableSort(h) \in Seq(X) /\ Len(StableSort(h)) = n
  <2>1. \A k \in 1 .. n : from[k] \in 1 .. n /\ h[from[k]] \in X
    <3>1. \A k \in 1 .. n : from[k] \in 1 .. n
      <4> HIDE DEF n
      <4>1. QED
        BY <1>1, <1>6
    <3>2. \A i \in 1 .. n : h[i] \in X
      OBVIOUS
    <3>3. QED
      BY <3>1, <3>2
  <2> HIDE DEF n
  <2>2. StableSort(h) = [ k \in 1 .. n |-> h[from[k]] ]
    BY <1>1, <1>2
  <2>3. QED
    BY <1>1, <2>1, <2>2
<1>10. QED
  BY <1>1, <1>6, <1>7, <1>8, <1>9

-----------------------------------------------------------------------------
(* The making of the oracle side.                                          *)

(* The trigrams of the first n patterns, and those that hold trigram t.    *)
Seen(n) == UNION { TrigramsOf(pats[i]) : i \in 1 .. n }
Holding(t, n) == { i \in 1 .. n : t \in TrigramsOf(pats[i]) }

(* Of the first n patterns, those without a trigram and those whose rarest *)
(* trigram, by the counts, is t.                                           *)
Bare(n) == { i \in 1 .. n : TrigramsOf(pats[i]) = {} }
Under(t, n) == { i \in 1 .. n : TrigramsOf(pats[i]) # {} /\ Rarest(freq, TrigramsOf(pats[i])) = t }

(* The counts are those of the patterns counted so far.                    *)
Tallied ==
  /\ tallied \in 0 .. Len(pats) /\ DOMAIN freq = Seen(tallied)
  /\ \A t \in Seen(tallied) : freq[t] = Cardinality(Holding(t, tallied))

(* Filing starts when all are counted, and files in order.                 *)
Filed ==
  /\ filed \in 0 .. Len(pats) /\ (filed # 0 => tallied = Len(pats))
  /\ always_check = Bare(filed)
  /\ \A t : t \in DOMAIN buckets <=> Under(t, filed) # {}
  /\ \A t \in DOMAIN buckets : buckets[t] = Under(t, filed)

(* The oracle side is made after the build, as a whole, before a path that *)
(* needs it goes on.                                                       *)
OracleInv ==
  /\ Tallied /\ Filed
  /\ built => tallied = Len(pats) /\ filed = Len(pats)
  /\ phase = "build" => tallied = 0 /\ filed = 0 /\ built = FALSE
  /\ built \in BOOLEAN
  /\ phase \in {"find", "scan", "answered"} /\ path # "spec" => built

(* Before the build nothing is counted or filed.                           *)
LEMMA OracleInit == Init => OracleInv
<1> SUFFICES ASSUME Init PROVE OracleInv
  OBVIOUS
<1>1. /\ tallied = 0 /\ filed = 0 /\ built = FALSE /\ phase = "build"
      /\ pats = <<>> /\ freq = <<>> /\ buckets = <<>> /\ always_check = {}
  BY DEF Init
<1>2. Seen(0) = {} /\ Bare(0) = {} /\ \A t : Under(t, 0) = {}
  BY DEF Seen, Bare, Under
<1>3. DOMAIN freq = {} /\ DOMAIN buckets = {} /\ Len(pats) = 0
  BY <1>1
<1>4. Tallied
  <2>1. Seen(tallied) = {} /\ tallied \in 0 .. Len(pats)
    BY <1>1, <1>2, <1>3
  <2>2. QED
    BY <1>3, <2>1 DEF Tallied
<1>5. Filed
  <2>1. Bare(filed) = {} /\ \A t : Under(t, filed) = {}
    BY <1>1, <1>2
  <2>2. filed \in 0 .. Len(pats) /\ ~(filed # 0)
    BY <1>1, <1>3
  <2>3. QED
    BY <1>1, <1>3, <2>1, <2>2, Zenon DEF Filed
<1>6. QED
  BY <1>1, <1>4, <1>5 DEF OracleInv

(* The oracle side stands while neither it nor the catalog moves.          *)
LEMMA OracleStands ==
  ASSUME OracleInv, UNCHANGED oracleVars, pats' = pats \/ phase = "build", Len(pats') \in Nat
  PROVE  /\ Tallied' /\ Filed' /\ (built' => tallied' = Len(pats') /\ filed' = Len(pats'))
         /\ built' \in BOOLEAN /\ built' = built
         /\ phase = "build" => tallied' = 0 /\ filed' = 0 /\ built' = FALSE
<1>1. /\ built' = built /\ tallied' = tallied /\ freq' = freq /\ filed' = filed
      /\ buckets' = buckets /\ always_check' = always_check
  BY DEF oracleVars
<1>2. /\ Tallied /\ Filed /\ built \in BOOLEAN
      /\ built => tallied = Len(pats) /\ filed = Len(pats)
      /\ phase = "build" => tallied = 0 /\ filed = 0 /\ built = FALSE
  BY DEF OracleInv
<1>3. CASE pats' = pats
  <2>1. /\ \A n : Seen(n)' = Seen(n) /\ Bare(n)' = Bare(n)
        /\ \A t, n : Holding(t, n)' = Holding(t, n) /\ Under(t, n)' = Under(t, n)
    BY <1>1, <1>3 DEF Seen, Bare, Holding, Under
  <2>2. Tallied'
    BY <1>1, <1>2, <1>3, <2>1 DEF Tallied
  <2>3. Filed'
    BY <1>1, <1>2, <1>3, <2>1 DEF Filed
  <2>4. QED
    BY <1>1, <1>2, <1>3, <2>2, <2>3
<1>4. CASE phase = "build"
  <2>1. tallied = 0 /\ filed = 0 /\ built = FALSE
    BY <1>2, <1>4
  <2>2. /\ Seen(0) = {} /\ Bare(0) = {} /\ \A t : Under(t, 0) = {}
        /\ Seen(0)' = {} /\ Bare(0)' = {} /\ \A t : Under(t, 0)' = {}
    BY DEF Seen, Bare, Under
  <2>3. Tallied'
    BY <1>1, <1>2, <2>1, <2>2 DEF Tallied
  <2>4. DOMAIN buckets = {} /\ always_check = {}
    BY <1>2, <2>1, <2>2 DEF Filed
  <2>5. /\ filed' = 0 /\ 0 \in 0 .. Len(pats') /\ DOMAIN buckets' = {} /\ always_check' = {}
    BY <1>1, <2>1, <2>4
  <2>6. Filed'
    BY <2>2, <2>5 DEF Filed
  <2>7. QED
    BY <1>1, <2>1, <2>3, <2>6
<1>5. QED
  BY <1>3, <1>4

(* One more pattern is counted.                                            *)
LEMMA TallyStep ==
  ASSUME OracleInv, TallyPattern, Len(pats) \in Nat
  PROVE  OracleInv'
<1> DEFINE n == tallied
           T == TrigramsOf(pats[n + 1])
<1>1. /\ built = FALSE /\ phase = "oracle" /\ n < Len(pats) /\ tallied' = n + 1
      /\ freq' = [ t \in DOMAIN freq \cup T |-> (IF t \in DOMAIN freq THEN freq[t] ELSE 0)
                                               + (IF t \in T THEN 1 ELSE 0) ]
      /\ UNCHANGED catalogVars /\ built' = built /\ filed' = filed /\ buckets' = buckets
      /\ always_check' = always_check /\ UNCHANGED callVars
  BY DEF TallyPattern, Missing, Counted, OracleInv
<1>2. /\ pats' = pats /\ phase' = phase
  BY <1>1 DEF catalogVars, callVars
<1>3. /\ n \in Nat /\ n + 1 \in 0 .. Len(pats) /\ DOMAIN freq = Seen(n)
      /\ \A t \in Seen(n) : freq[t] = Cardinality(Holding(t, n))
      /\ filed = 0 /\ Filed
  BY <1>1 DEF OracleInv, Tallied, Filed
<1>4. 1 .. n + 1 = (1 .. n) \cup {n + 1} /\ n + 1 \notin 1 .. n
  BY <1>3
<1>5. Seen(n + 1) = Seen(n) \cup T
  BY <1>4 DEF Seen
<1>6. \A t : /\ t \in T => Holding(t, n + 1) = Holding(t, n) \cup {n + 1}
             /\ t \notin T => Holding(t, n + 1) = Holding(t, n)
             /\ n + 1 \notin Holding(t, n)
             /\ t \notin Seen(n) => Holding(t, n) = {}
  BY <1>4 DEF Holding, Seen
<1> HIDE DEF n, T
<1>7. \A t : IsFiniteSet(Holding(t, n)) /\ Cardinality(Holding(t, n)) \in Nat
  <2> TAKE t
  <2>1. Holding(t, n) \in SUBSET (1 .. n)
    BY DEF Holding
  <2>2. QED
    BY <1>3, <2>1, SmallSets
<1>8. \A t : Cardinality(Holding(t, n + 1)) =
               Cardinality(Holding(t, n)) + (IF t \in T THEN 1 ELSE 0)
  <2> TAKE t
  <2>1. CASE t \in T
    BY <1>6, <1>7, <2>1, FS_AddElement
  <2>2. CASE t \notin T
    BY <1>6, <1>7, <2>2
  <2>3. QED
    BY <2>1, <2>2
<1>9. \A t : t \notin Seen(n) => Cardinality(Holding(t, n)) = 0
  BY <1>6, FS_EmptySet
<1>10. Tallied'
  <2>1. /\ \A k : Seen(k)' = Seen(k)
        /\ \A t, k : Holding(t, k)' = Holding(t, k)
    BY <1>2 DEF Seen, Holding
  <2>2. DOMAIN freq' = Seen(n + 1)
    BY <1>1, <1>3, <1>5
  <2>3. ASSUME NEW t \in Seen(n + 1) PROVE freq'[t] = Cardinality(Holding(t, n + 1))
    <3>1. freq'[t] = (IF t \in Seen(n) THEN freq[t] ELSE 0) + (IF t \in T THEN 1 ELSE 0)
      BY <1>1, <1>3, <1>5, <2>3
    <3>2. (IF t \in Seen(n) THEN freq[t] ELSE 0) = Cardinality(Holding(t, n))
      BY <1>3, <1>9
    <3>3. QED
      BY <1>8, <3>1, <3>2
  <2>4. QED
    BY <1>1, <1>2, <1>3, <2>1, <2>2, <2>3 DEF Tallied, n
<1>11. Filed'
  <2>1. Bare(0)' = {} /\ Bare(0) = {} /\ \A t : Under(t, 0) = {} /\ Under(t, 0)' = {}
    BY DEF Bare, Under
  <2>2. QED
    BY <1>1, <1>2, <1>3, <2>1 DEF Filed
<1>12. QED
  BY <1>1, <1>2, <1>10, <1>11 DEF OracleInv

(* One more pattern is filed, where it belongs.                            *)
LEMMA FileStep ==
  ASSUME OracleInv, FilePattern, Len(pats) \in Nat
  PROVE  OracleInv'
<1> DEFINE n == filed
           T == TrigramsOf(pats[n + 1])
           r == Rarest(freq, T)
<1>1. /\ built = FALSE /\ phase = "oracle" /\ n < Len(pats) /\ filed' = n + 1
      /\ tallied = Len(pats)
      /\ \/ T = {} /\ always_check' = always_check \cup {n + 1} /\ buckets' = buckets
         \/ T # {} /\ FileUnder(r, n + 1) /\ always_check' = always_check
      /\ UNCHANGED catalogVars /\ built' = built /\ tallied' = tallied /\ freq' = freq
      /\ UNCHANGED callVars
  BY DEF FilePattern, Filing, Missing, OracleInv
<1>2. /\ pats' = pats /\ phase' = phase
  BY <1>1 DEF catalogVars, callVars
<1>3. /\ n \in Nat /\ n + 1 \in 0 .. Len(pats) /\ Tallied
      /\ always_check = Bare(n)
      /\ \A t : t \in DOMAIN buckets <=> Under(t, n) # {}
      /\ \A t \in DOMAIN buckets : buckets[t] = Under(t, n)
  BY <1>1 DEF OracleInv, Filed
<1>4. 1 .. n + 1 = (1 .. n) \cup {n + 1}
  BY <1>3
<1>5. /\ T = {} => Bare(n + 1) = Bare(n) \cup {n + 1} /\ \A t : Under(t, n + 1) = Under(t, n)
      /\ T # {} => /\ Bare(n + 1) = Bare(n)
                   /\ \A t : t # r => Under(t, n + 1) = Under(t, n)
                   /\ Under(r, n + 1) = Under(r, n) \cup {n + 1}
  BY <1>4 DEF Bare, Under
<1>6. /\ \A k : Seen(k)' = Seen(k) /\ Bare(k)' = Bare(k)
      /\ \A t, k : Holding(t, k)' = Holding(t, k) /\ Under(t, k)' = Under(t, k)
  BY <1>1, <1>2 DEF Seen, Holding, Bare, Under
<1>7. Tallied'
  BY <1>1, <1>2, <1>3, <1>6 DEF Tallied
<1> HIDE DEF n, T, r
<1>8. Filed'
  <2>1. CASE T = {}
    <3>1. /\ always_check' = Bare(n + 1) /\ buckets' = buckets
          /\ \A t : Under(t, n + 1) = Under(t, n)
      BY <1>1, <1>3, <1>5, <2>1
    <3>2. QED
      BY <1>1, <1>2, <1>3, <1>6, <3>1 DEF Filed
  <2>2. CASE T # {}
    <3>1. always_check' = Bare(n + 1)
      BY <1>1, <1>3, <1>5, <2>2
    <3>2. buckets' = [ u \in DOMAIN buckets \cup {r} |->
                         (IF u \in DOMAIN buckets THEN buckets[u] ELSE {})
                         \cup (IF u = r THEN {n + 1} ELSE {}) ]
      BY <1>1, <2>2 DEF FileUnder
    <3>3. \A t : t \in DOMAIN buckets' <=> Under(t, n + 1) # {}
      <4> TAKE t
      <4>1. t \in DOMAIN buckets' <=> t \in DOMAIN buckets \/ t = r
        BY <3>2
      <4>2. QED
        BY <1>3, <1>5, <2>2, <4>1
    <3>4. \A t \in DOMAIN buckets' : buckets'[t] = Under(t, n + 1)
      <4> TAKE t \in DOMAIN buckets'
      <4>1. buckets'[t] = (IF t \in DOMAIN buckets THEN buckets[t] ELSE {})
                          \cup (IF t = r THEN {n + 1} ELSE {})
        BY <3>2
      <4>2. (IF t \in DOMAIN buckets THEN buckets[t] ELSE {}) = Under(t, n)
        BY <1>3
      <4>3. QED
        BY <1>5, <2>2, <4>1, <4>2
    <3>5. QED
      BY <1>1, <1>2, <1>3, <1>6, <3>1, <3>3, <3>4 DEF Filed
  <2>3. QED
    BY <2>1, <2>2
<1>9. QED
  BY <1>1, <1>2, <1>7, <1>8 DEF OracleInv

(* The oracle side is made once, by the first call that needs it.          *)
LEMMA OracleStep ==
  ASSUME CatalogInv, OracleInv, [Next]_vars
  PROVE  OracleInv'
<1>0. Len(pats) \in Nat /\ Len(pats') \in Nat
  <2>1. CatalogInv'
    BY CatalogStep
  <2>2. pats \in Seq(Seq(Token)) /\ pats' \in Seq(Seq(Token))
    BY <2>1 DEF CatalogInv, CatalogTyped
  <2>3. QED
    BY <2>2
<1>1. ASSUME Build PROVE OracleInv'
  <2>1. phase = "build" /\ phase' \in {"build", "idle"} /\ UNCHANGED oracleVars
    BY <1>1 DEF Build, SkipNoText, RejectText, CompileSite, FinishBuild, Building, callVars
  <2>2. QED
    BY <1>0, <2>1, OracleStands DEF OracleInv
<1>2. ASSUME UNCHANGED catalogVars, UNCHANGED oracleVars, phase' = "build" => phase = "build",
             phase' \in {"find", "scan", "answered"} /\ path' # "spec" => built
      PROVE  OracleInv'
  <2>1. pats' = pats
    BY <1>2 DEF catalogVars
  <2>2. QED
    BY <1>0, <1>2, <2>1, OracleStands DEF OracleInv
<1>3. ASSUME Call PROVE OracleInv'
  <2>1. /\ UNCHANGED catalogVars /\ UNCHANGED oracleVars
        /\ phase' \in {"find", "oracle"} /\ (phase' = "find" => path' = "spec")
    BY <1>3 DEF Call, scan_line, scan_line_trigram, scan_line_regexset, Diagnose, Start
  <2>2. QED
    BY <1>2, <2>1
<1>4. ASSUME HaveOracle PROVE OracleInv'
  <2>1. /\ built' = TRUE /\ phase = "oracle" /\ phase' \in {"idle", "find"}
        /\ tallied = Len(pats) /\ filed = Len(pats)
        /\ UNCHANGED catalogVars /\ tallied' = tallied /\ freq' = freq /\ filed' = filed
        /\ buckets' = buckets /\ always_check' = always_check
    BY <1>4 DEF HaveOracle, OracleInv
  <2>2. pats' = pats
    BY <2>1 DEF catalogVars
  <2>3. /\ \A n : Seen(n)' = Seen(n) /\ Bare(n)' = Bare(n)
        /\ \A t, n : Holding(t, n)' = Holding(t, n) /\ Under(t, n)' = Under(t, n)
    BY <2>1, <2>2 DEF Seen, Bare, Holding, Under
  <2>4. Tallied' /\ Filed'
    BY <2>1, <2>2, <2>3 DEF OracleInv, Tallied, Filed
  <2>5. QED
    BY <2>1, <2>2, <2>4 DEF OracleInv
<1>5. ASSUME FindCandidates PROVE OracleInv'
  <2>1. /\ phase = "find" /\ phase' = "scan" /\ path' = path
        /\ UNCHANGED catalogVars /\ UNCHANGED oracleVars
    BY <1>5 DEF FindCandidates
  <2>2. QED
    BY <1>2, <2>1 DEF OracleInv
<1>6. ASSUME Verify PROVE OracleInv'
  <2>1. phase' = phase /\ path' = path /\ UNCHANGED catalogVars /\ UNCHANGED oracleVars
    BY <1>6 DEF Verify
  <2>2. QED
    BY <1>2, <2>1 DEF OracleInv
<1>7. ASSUME Return PROVE OracleInv'
  <2>1. /\ phase = "scan" /\ phase' = "answered" /\ path' = path
        /\ UNCHANGED catalogVars /\ UNCHANGED oracleVars
    BY <1>7 DEF Return
  <2>2. QED
    BY <1>2, <2>1 DEF OracleInv
<1>8. ASSUME UNCHANGED vars PROVE OracleInv'
  <2>1. phase' = phase /\ path' = path /\ UNCHANGED catalogVars /\ UNCHANGED oracleVars
    BY <1>8 DEF vars, callVars
  <2>2. QED
    BY <1>2, <2>1 DEF OracleInv
<1>9. QED
  BY <1>0, <1>1, <1>3, <1>4, <1>5, <1>6, <1>7, <1>8, TallyStep, FileStep DEF Next, MakeOracle

(* What is filed are patterns.                                             *)
LEMMA FiledPatterns ==
  ASSUME OracleInv, Len(pats) \in Nat
  PROVE  /\ always_check \in SUBSET Patterns
         /\ \A t \in DOMAIN buckets : buckets[t] \in SUBSET Patterns
         /\ filed \in 0 .. tallied /\ tallied \in 0 .. Len(pats)
<1>1. filed \in 0 .. Len(pats) /\ tallied \in 0 .. Len(pats) /\ (filed # 0 => tallied = Len(pats))
  BY DEF OracleInv, Tallied, Filed
<1>2. \A i \in 1 .. filed : i \in Patterns
  BY <1>1 DEF Patterns
<1>3. Bare(filed) \in SUBSET Patterns /\ \A t : Under(t, filed) \in SUBSET Patterns
  BY <1>2 DEF Bare, Under
<1>4. QED
  BY <1>1, <1>3 DEF OracleInv, Filed

-----------------------------------------------------------------------------
(* The inductive invariant.                                                *)

(* A call works off its candidates in catalog order.                       *)
InOrder ==
  /\ \A j, k \in DOMAIN todo : j < k => todo[j] < todo[k]
  /\ \A j, k \in DOMAIN hits : j < k => hits[j].site < hits[k].site
  /\ \A j \in DOMAIN hits : \A k \in DOMAIN todo : hits[j].site < site_idx[todo[k]]

Paths == {"spec", "trigram", "regexset"}

CallInv ==
  /\ todo \in Seq(Patterns) /\ path \in Paths \cup {"count"}
  /\ phase \in {"build", "idle", "oracle", "find"} => todo = <<>> /\ hits = <<>>
  /\ phase = "oracle" /\ path # "count" => line \in Lines
  /\ phase \in {"find", "scan", "answered"} => path \in Paths /\ line \in Lines
  /\ phase \in {"scan", "answered"} => hits \in Seq(HitsFor(path, line))
  /\ phase = "scan" => InOrder

(* The inductive invariant of the scanner.                                 *)
ScannerInv == CatalogInv /\ OracleInv /\ CallInv

(* The invariant holds before the build.                                   *)
LEMMA ScannerInit == Init => ScannerInv
<1> SUFFICES ASSUME Init PROVE ScannerInv
  OBVIOUS
<1>1. CatalogInv /\ OracleInv
  BY CatalogInit, OracleInit
<1>2. CallInv
  BY DEF Init, CallInv, Paths
<1>3. QED
  BY <1>1, <1>2 DEF ScannerInv

(* The candidates of every path are patterns.                              *)
LEMMA CandidatesArePatterns ==
  ASSUME OracleInv, Len(pats) \in Nat, NEW l
  PROVE  /\ AnchorCandidates(l) \in SUBSET Patterns
         /\ TrigramCandidates(l) \in SUBSET Patterns
         /\ SetCandidates(l) \in SUBSET Patterns
<1> DEFINE T == Trigrams(l) \cap DOMAIN buckets
           U == UNION { buckets[t] : t \in T }
<1>1. TrigramCandidates(l) = always_check \cup U
  BY DEF TrigramCandidates
<1>2. \A t \in T : buckets[t] \in SUBSET Patterns
  BY FiledPatterns
<1> HIDE DEF T
<1>3. U \in SUBSET Patterns
  BY <1>2
<1> HIDE DEF U
<1>4. TrigramCandidates(l) \in SUBSET Patterns
  BY <1>1, <1>3, FiledPatterns
<1>5. QED
  BY <1>4 DEF AnchorCandidates, SetCandidates

(* A call keeps its candidates and its hits in catalog order, the hits     *)
(* before the candidates, until Return sorts them.                         *)
LEMMA CallStep ==
  ASSUME ScannerInv, [Next]_vars
  PROVE  CallInv'
<1>1. /\ todo \in Seq(Patterns) /\ path \in Paths \cup {"count"}
      /\ phase \in {"build", "idle", "oracle", "find"} => todo = <<>> /\ hits = <<>>
      /\ phase = "oracle" /\ path # "count" => line \in Lines
      /\ phase \in {"find", "scan", "answered"} => path \in Paths /\ line \in Lines
      /\ phase \in {"scan", "answered"} => hits \in Seq(HitsFor(path, line))
      /\ phase = "scan" => InOrder
  BY DEF ScannerInv, CallInv
<1>0. Len(pats) \in Nat /\ Patterns = 1 .. Len(pats) /\ OracleInv
  BY CatalogNumbers DEF ScannerInv
<1>2. ASSUME Build PROVE CallInv'
  <2>1. phase = "build" /\ phase' \in {"build", "idle"} /\ todo' = todo /\ hits' = hits /\ path' = path
    BY <1>2 DEF Build, SkipNoText, RejectText, CompileSite, FinishBuild, Building, callVars
  <2>2. todo' = <<>> /\ hits' = <<>>
    BY <1>1, <2>1
  <2>3. QED
    BY <1>1, <2>1, <2>2 DEF CallInv
<1>3. ASSUME Call PROVE CallInv'
  <2>1. /\ todo' = <<>> /\ hits' = <<>> /\ path' \in Paths \cup {"count"}
        /\ \/ phase' = "find" /\ path' = "spec" /\ line' \in Lines
           \/ phase' = "oracle" /\ (path' = "count" \/ line' \in Lines)
    BY <1>3 DEF Call, scan_line, scan_line_trigram, scan_line_regexset, Diagnose, Start, Paths
  <2>2. QED
    BY <2>1 DEF CallInv, Paths
<1>4. ASSUME MakeOracle PROVE CallInv'
  <2>1. /\ phase = "oracle" /\ path' = path /\ line' = line /\ todo' = todo /\ hits' = hits
        /\ \/ phase' = "oracle"
           \/ phase' = IF path = "count" THEN "idle" ELSE "find"
    BY <1>4 DEF MakeOracle, TallyPattern, FilePattern, HaveOracle, Filing, Missing, callVars
  <2>2. todo' = <<>> /\ hits' = <<>>
    BY <1>1, <2>1
  <2>3. QED
    BY <1>1, <2>1, <2>2 DEF CallInv
<1>5. ASSUME FindCandidates PROVE CallInv'
  <2>1. /\ phase = "find" /\ phase' = "scan" /\ path' = path /\ line' = line /\ hits' = hits
        /\ UNCHANGED catalogVars
    BY <1>5 DEF FindCandidates
  <2>2. PICK C \in SUBSET Patterns : todo' = Ascending(C)
    BY <1>0, <1>5, CandidatesArePatterns DEF FindCandidates
  <2>3. todo' \in Seq(C) /\ \A j, k \in DOMAIN todo' : j < k => todo'[j] < todo'[k]
    BY <1>0, <2>2, AscendingSorts
  <2>4. todo' \in Seq(Patterns)
    BY <2>3
  <2>5. Patterns' = Patterns
    BY <2>1, CatalogStands
  <2>6. hits' = <<>> /\ path \in Paths /\ line \in Lines
    BY <1>1, <2>1
  <2>7. hits' \in Seq(HitsFor(path, line)') /\ DOMAIN hits' = {}
    BY <2>6
  <2>8. InOrder'
    BY <2>3, <2>7 DEF InOrder
  <2>9. QED
    BY <2>1, <2>4, <2>5, <2>6, <2>7, <2>8 DEF CallInv
<1>6. ASSUME UNCHANGED vars PROVE CallInv'
  <2>1. /\ phase' = phase /\ path' = path /\ line' = line /\ todo' = todo /\ hits' = hits
        /\ UNCHANGED catalogVars
    BY <1>6 DEF vars, callVars
  <2>2. Patterns' = Patterns /\ site_idx' = site_idx /\ HitsFor(path, line)' = HitsFor(path, line)
    BY <2>1, CatalogStands
  <2>3. InOrder => InOrder'
    BY <2>1, <2>2 DEF InOrder
  <2>4. QED
    BY <1>1, <2>1, <2>2, <2>3 DEF CallInv
<1>7. ASSUME Verify PROVE CallInv'
  <2> DEFINE i == Head(todo)
             h == Hit(path, i, line)
  <2>1. /\ phase = "scan" /\ todo # <<>> /\ todo' = Tail(todo) /\ phase' = phase
        /\ path' = path /\ line' = line
        /\ hits' = IF MatchedBy(path, i, line) THEN Append(hits, h) ELSE hits
        /\ UNCHANGED catalogVars
    BY <1>7 DEF Verify
  <2>2. Patterns' = Patterns /\ site_idx' = site_idx /\ HitsFor(path, line)' = HitsFor(path, line)
    BY <2>1, CatalogStands
  <2>3. hits \in Seq(HitsFor(path, line)) /\ InOrder /\ path \in Paths /\ line \in Lines
    BY <1>1, <2>1
  <2>4. /\ i \in Patterns /\ i = todo[1] /\ 1 \in DOMAIN todo /\ todo' \in Seq(Patterns)
        /\ \A k \in DOMAIN todo' : k + 1 \in DOMAIN todo /\ todo'[k] = todo[k + 1] /\ k \in Nat \ {0}
    BY <1>1, <2>1
  <2>5. h.site = site_idx[i] /\ (MatchedBy(path, i, line) => h \in HitsFor(path, line))
    BY <2>4 DEF Hit, HitsFor
  <2> HIDE DEF i, h
  <2>6. \A k \in DOMAIN todo' : todo'[k] \in Patterns /\ i < todo'[k]
    BY <1>1, <2>3, <2>4 DEF InOrder
  <2>7. \A k \in DOMAIN todo' : site_idx[i] < site_idx[todo'[k]]
    BY <2>4, <2>6 DEF ScannerInv, CatalogInv, Described
  <2>8. \A j \in DOMAIN hits : \A k \in DOMAIN todo' : hits[j].site < site_idx[todo'[k]]
    BY <2>3, <2>4 DEF InOrder
  <2>9. \A j, k \in DOMAIN todo' : j < k => todo'[j] < todo'[k]
    <3> SUFFICES ASSUME NEW j \in DOMAIN todo', NEW k \in DOMAIN todo', j < k PROVE todo'[j] < todo'[k]
      OBVIOUS
    <3>1. j + 1 \in DOMAIN todo /\ k + 1 \in DOMAIN todo /\ j + 1 < k + 1
      BY <2>4
    <3>2. todo[j + 1] < todo[k + 1]
      BY <2>3, <3>1 DEF InOrder
    <3>3. QED
      BY <2>4, <3>2
  <2>10. CASE ~MatchedBy(path, i, line)
    <3>1. hits' = hits
      BY <2>1, <2>10
    <3>2. InOrder'
      BY <2>2, <2>3, <2>8, <2>9, <3>1 DEF InOrder
    <3>3. QED
      BY <2>1, <2>2, <2>3, <2>4, <3>1, <3>2 DEF CallInv
  <2>11. CASE MatchedBy(path, i, line)
    <3>1. hits' = Append(hits, h) /\ h \in HitsFor(path, line)
      BY <2>1, <2>5, <2>11
    <3>2. /\ hits' \in Seq(HitsFor(path, line)) /\ Len(hits) \in Nat /\ hits'[Len(hits) + 1] = h
          /\ DOMAIN hits = 1 .. Len(hits) /\ DOMAIN hits' = 1 .. Len(hits) + 1
          /\ \A j \in DOMAIN hits : hits'[j] = hits[j]
      BY <2>3, <3>1
    <3>3. \A j \in DOMAIN hits : hits[j].site < h.site
      BY <2>3, <2>4, <2>5 DEF InOrder
    <3>4. \A j \in DOMAIN hits' : (j \in DOMAIN hits /\ hits'[j] = hits[j]) \/ (j = Len(hits) + 1 /\ hits'[j] = h)
      BY <3>2
    <3>5. \A j \in DOMAIN hits' : \A k \in DOMAIN todo' : hits'[j].site < site_idx[todo'[k]]
      BY <2>5, <2>7, <2>8, <3>4
    <3>6. \A j, k \in DOMAIN hits' : j < k => hits'[j].site < hits'[k].site
      <4> SUFFICES ASSUME NEW j \in DOMAIN hits', NEW k \in DOMAIN hits', j < k
                   PROVE  hits'[j].site < hits'[k].site
        OBVIOUS
      <4>1. j \in DOMAIN hits
        BY <3>2
      <4>2. QED
        BY <2>3, <3>2, <3>3, <3>4, <4>1 DEF InOrder
    <3>7. InOrder'
      BY <2>2, <2>9, <3>5, <3>6 DEF InOrder
    <3>8. QED
      BY <2>1, <2>2, <2>3, <2>4, <3>2, <3>7 DEF CallInv
  <2>12. QED
    BY <2>10, <2>11
<1>8. ASSUME Return PROVE CallInv'
  <2>1. /\ phase = "scan" /\ phase' = "answered" /\ hits' = StableSort(hits)
        /\ path' = path /\ line' = line /\ todo' = todo /\ UNCHANGED catalogVars
    BY <1>8 DEF Return
  <2>2. Patterns' = Patterns /\ HitsFor(path, line)' = HitsFor(path, line)
    BY <2>1, CatalogStands
  <2>3. hits \in Seq(HitsFor(path, line)) /\ path \in Paths /\ line \in Lines
    BY <1>1, <2>1
  <2>4. \A i \in DOMAIN hits : hits[i].literal_len \in Nat
    <3>1. \A i \in Patterns : literal_len[i] \in Nat
      <4>1. literal_len \in Seq(Nat) /\ Len(literal_len) = Len(pats) /\ CatalogInv
        BY DEF ScannerInv, CatalogInv, CatalogTyped, Described
      <4>2. Patterns = 1 .. Len(pats)
        BY <4>1, CatalogNumbers
      <4>3. QED
        BY <4>1, <4>2
    <3>2. \A h \in HitsFor(path, line) : h.literal_len \in Nat
      BY <3>1 DEF HitsFor, Hit
    <3>3. QED
      BY <2>3, <3>2
  <2>5. StableSort(hits) \in Seq(HitsFor(path, line))
    BY <2>3, <2>4, StableSortSorts
  <2>6. QED
    BY <1>1, <2>1, <2>2, <2>3, <2>5 DEF CallInv
<1>9. QED
  BY <1>2, <1>3, <1>4, <1>5, <1>6, <1>7, <1>8 DEF Next

(* Every step keeps the invariant.                                         *)
LEMMA ScannerStep == ScannerInv /\ [Next]_vars => ScannerInv'
  BY CatalogStep, OracleStep, CallStep DEF ScannerInv

(* The invariant holds throughout.                                         *)
LEMMA ScannerInvariant == Spec => []ScannerInv
  BY ScannerInit, ScannerStep, PTL DEF Spec

-----------------------------------------------------------------------------
(* Concatenations.                                                         *)

Inside(t, s, m) == m + Len(t) <= Len(s) /\ \A k \in 1 .. Len(t) : s[m + k] = t[k]

(* \o under a name of its own.                                            *)
Join(u, v) == u \o v

(* What lies in a joined sequence.                                         *)
LEMMA JoinedSeq ==
  ASSUME NEW X, NEW u \in Seq(X), NEW v \in Seq(X)
  PROVE  Join(u, v) \in Seq(X)
  BY DEF Join

(* The second of two joined sequences follows the first.                   *)
LEMMA JoinedTail ==
  ASSUME NEW X, NEW u \in Seq(X), NEW w \in Seq(X), NEW i \in Len(u) + 1 .. Len(u) + Len(w)
  PROVE  (u \o w)[i] = w[i - Len(u)]
  OBVIOUS

(* What lies in a part lies in the whole.                                  *)
LEMMA InsideGrows ==
  ASSUME NEW X, NEW u \in Seq(X), NEW v \in Seq(X), NEW w \in Seq(X), NEW m \in Nat,
         Len(u) = m + Len(v), Inside(v, u, m)
  PROVE  Len(Join(u, w)) = m + Len(Join(v, w)) /\ Inside(Join(v, w), Join(u, w), m)
<1>1. Len(u) \in Nat /\ Len(v) \in Nat /\ Len(w) \in Nat
  OBVIOUS
<1>2. Len(u \o w) = Len(u) + Len(w) /\ Len(v \o w) = Len(v) + Len(w)
  OBVIOUS
<1>3. \A j \in 1 .. Len(v) + Len(w) : (u \o w)[m + j] = (v \o w)[j]
  <2> TAKE j \in 1 .. Len(v) + Len(w)
  <2>1. CASE j <= Len(v)
    <3>1. j \in 1 .. Len(v) /\ m + j \in 1 .. Len(u)
      BY <1>1, <2>1
    <3>2. (u \o w)[m + j] = u[m + j] /\ (v \o w)[j] = v[j]
      BY <1>1, <3>1
    <3>3. u[m + j] = v[j]
      BY <3>1 DEF Inside
    <3>4. QED
      BY <3>2, <3>3
  <2>2. CASE j > Len(v)
    <3>1. /\ m + j - Len(u) = j - Len(v)
          /\ m + j \in Len(u) + 1 .. Len(u) + Len(w) /\ j \in Len(v) + 1 .. Len(v) + Len(w)
      BY <1>1, <2>2
    <3>2. (u \o w)[m + j] = w[m + j - Len(u)]
      <4>1. \A i \in Len(u) + 1 .. Len(u) + Len(w) : (u \o w)[i] = w[i - Len(u)]
        BY JoinedTail
      <4> DEFINE i == m + j
      <4>2. i \in Len(u) + 1 .. Len(u) + Len(w)
        BY <3>1
      <4> HIDE DEF i
      <4>3. (u \o w)[i] = w[i - Len(u)]
        BY <4>1, <4>2, Zenon
      <4>4. QED
        BY <4>3 DEF i
    <3>3. (v \o w)[j] = w[j - Len(v)]
      BY <1>1, <3>1
    <3>4. QED
      BY <3>1, <3>2, <3>3
  <2>3. QED
    BY <1>1, <2>1, <2>2
<1> DEFINE a == u \o w
           b == v \o w
<1>4. Len(a) = m + Len(b) /\ Inside(b, a, m)
  <2>1. Len(a) = m + Len(b)
    BY <1>1, <1>2
  <2>2. \A j \in 1 .. Len(b) : a[m + j] = b[j]
    BY <1>2, <1>3
  <2> HIDE DEF a, b
  <2>3. QED
    BY <1>1, <1>2, <2>1, <2>2 DEF Inside
<1>5. QED
  BY <1>4, Zenon DEF Join

(* What lies in a sequence stays in it when the sequence grows at its      *)
(* end.                                                                    *)
LEMMA InsideStays ==
  ASSUME NEW X, NEW u \in Seq(X), NEW v \in Seq(X), NEW w \in Seq(X), NEW m \in Nat,
         Inside(v, u, m)
  PROVE  Inside(v, Join(u, w), m)
<1>1. Len(u) \in Nat /\ Len(v) \in Nat /\ Len(w) \in Nat
  OBVIOUS
<1>2. Len(u \o w) = Len(u) + Len(w) /\ \A j \in 1 .. Len(u) : (u \o w)[j] = u[j]
  OBVIOUS
<1>3. m + Len(v) <= Len(u) /\ \A j \in 1 .. Len(v) : u[m + j] = v[j]
  BY DEF Inside
<1>4. \A j \in 1 .. Len(v) : m + j \in 1 .. Len(u)
  BY <1>1, <1>3
<1> DEFINE a == u \o w
<1> HIDE DEF a
<1>5. Len(a) = Len(u) + Len(w) /\ \A j \in 1 .. Len(u) : a[j] = u[j]
  BY <1>2 DEF a
<1>6. Inside(v, a, m)
  BY <1>1, <1>3, <1>4, <1>5 DEF Inside
<1>7. QED
  BY <1>6, Zenon DEF Join, a

(* The parts joined so far.                                                *)
Joins(f, S, n, parts) ==
  /\ \A i \in 0 .. n : f[i] \in S
  /\ f[0] = <<>>
  /\ \A i \in 1 .. n : f[i] = Join(f[i - 1], parts[i])

(* Concat joins one part after another.                                    *)
LEMMA ConcatJoins ==
  ASSUME NEW X, NEW parts \in Seq(Seq(X))
  PROVE  \E f : Joins(f, Seq(X), Len(parts), parts) /\ Concat(parts) = f[Len(parts)]
<1> DEFINE n == Len(parts)
           S == Seq(X)
           upto == CHOOSE f : f = [ i \in 0 .. n |-> IF i = 0 THEN <<>> ELSE Join(f[i - 1], parts[i]) ]
           step == [ i \in 1 .. n |-> [ x \in S |-> Join(x, parts[i]) ] ]
<1>1. Concat(parts) = upto[n]
  BY Zenon DEF Concat, Join
<1>2. n \in Nat /\ <<>> \in S /\ \A i \in 1 .. n : parts[i] \in S
  OBVIOUS
<1>3. \A i \in 1 .. n : \A x \in S : Join(x, parts[i]) \in S
  BY <1>2, JoinedSeq
<1> HIDE DEF S, n
<1>4. Steps(n, S, <<>>, step) /\ \A i \in 1 .. n : \A x \in S : step[i][x] = Join(x, parts[i])
  BY <1>2, <1>3 DEF Steps
<1> HIDE DEF step
<1>5. PICK f : Follows(f, n, S, <<>>, step)
  BY <1>4, Recurrence
<1>6. /\ f \in [0 .. n -> S] /\ f[0] = <<>>
      /\ \A i \in 1 .. n : f[i] = step[i][f[i - 1]]
  BY <1>5, Zenon DEF Follows
<1>7. \A i \in 1 .. n : f[i] = Join(f[i - 1], parts[i])
  <2> TAKE i \in 1 .. n
  <2>1. f[i - 1] \in S
    BY <1>2, <1>6
  <2>2. QED
    BY <1>4, <1>6, <2>1
<1>8. f = [ i \in 0 .. n |-> IF i = 0 THEN <<>> ELSE Join(f[i - 1], parts[i]) ]
  <2>1. \A i \in 0 .. n : f[i] = IF i = 0 THEN <<>> ELSE Join(f[i - 1], parts[i])
    BY <1>2, <1>6, <1>7
  <2>2. QED
    BY <1>6, <2>1
<1>9. upto = [ i \in 0 .. n |-> IF i = 0 THEN <<>> ELSE Join(upto[i - 1], parts[i]) ]
  BY <1>8
<1> HIDE DEF upto
<1>10. \A i \in 0 .. n : upto[i] = IF i = 0 THEN <<>> ELSE Join(upto[i - 1], parts[i])
  BY <1>9
<1>11. upto[0] = <<>> /\ \A i \in 1 .. n : upto[i] = Join(upto[i - 1], parts[i])
  BY <1>2, <1>10
<1>12. \A i \in 0 .. n : upto[i] \in S
  <2> DEFINE P == { i \in 0 .. n : upto[i] \in S }
  <2>1. 0 \in P
    BY <1>2, <1>11
  <2>2. ASSUME NEW i \in 1 .. n, i - 1 \in P PROVE i \in P
    BY <1>2, <1>3, <1>11, <2>2
  <2> HIDE DEF P
  <2>3. \A i \in 0 .. n : i \in P
    BY <1>2, <2>1, <2>2, Climbs
  <2>4. QED
    BY <2>3 DEF P
<1>13. Joins(upto, S, n, parts)
  BY <1>11, <1>12 DEF Joins
<1>14. QED
  BY <1>1, <1>13 DEF n, S

(* What is joined in the middle of a whole is in the middle of the whole.  *)
LEMMA ConcatInside ==
  ASSUME NEW X, NEW parts \in Seq(Seq(X)), NEW inner \in Seq(Seq(X)), NEW a \in Nat,
         Inside(inner, parts, a)
  PROVE  /\ Concat(parts) \in Seq(X) /\ Concat(inner) \in Seq(X)
         /\ \E m \in Nat : Inside(Concat(inner), Concat(parts), m)
<1> DEFINE n == Len(parts)
           e == Len(inner)
           S == Seq(X)
<1>1. PICK f : Joins(f, S, n, parts) /\ Concat(parts) = f[n]
  BY ConcatJoins, Zenon
<1>2. PICK g : Joins(g, S, e, inner) /\ Concat(inner) = g[e]
  BY ConcatJoins, Zenon
<1>3. n \in Nat /\ e \in Nat /\ a + e <= n /\ \A k \in 1 .. e : parts[a + k] = inner[k]
  BY DEF Inside
<1>4. /\ \A i \in 1 .. n : parts[i] \in S
      /\ \A i \in 1 .. e : inner[i] \in S
  OBVIOUS
<1>5. /\ \A i \in 0 .. n : f[i] \in S
      /\ \A i \in 1 .. n : f[i] = Join(f[i - 1], parts[i])
      /\ \A i \in 0 .. e : g[i] \in S
      /\ g[0] = <<>>
      /\ \A i \in 1 .. e : g[i] = Join(g[i - 1], inner[i])
  BY <1>1, <1>2, Zenon DEF Joins
<1>6. \A x \in S : Len(x) \in Nat
  OBVIOUS
<1>7. /\ \A u, v, w \in S : \A m \in Nat : Len(u) = m + Len(v) /\ Inside(v, u, m) =>
            Len(Join(u, w)) = m + Len(Join(v, w)) /\ Inside(Join(v, w), Join(u, w), m)
      /\ \A u, v, w \in S : \A m \in Nat : Inside(v, u, m) => Inside(v, Join(u, w), m)
  BY InsideGrows, InsideStays
<1> HIDE DEF n, e, S
<1> DEFINE m == Len(f[a])
           P == { k \in 0 .. e : Len(f[a + k]) = m + Len(g[k]) /\ Inside(g[k], f[a + k], m) }
<1>8. a \in 0 .. n /\ m \in Nat
  BY <1>3, <1>5, <1>6
<1>9. 0 \in P
  <2>1. Len(<<>>) = 0 /\ a + 0 = a
    OBVIOUS
  <2>2. Inside(<<>>, f[a], m)
    BY <1>8, <2>1 DEF Inside
  <2>3. g[0] = <<>> /\ f[a + 0] = f[a] /\ m + 0 = m /\ 0 \in 0 .. e
    BY <1>3, <1>5, <1>8, <2>1
  <2>4. Len(f[a + 0]) = m + Len(g[0]) /\ Inside(g[0], f[a + 0], m)
    BY <1>8, <2>1, <2>2, <2>3
  <2>5. QED
    BY <2>3, <2>4
<1>10. ASSUME NEW k \in 1 .. e, k - 1 \in P PROVE k \in P
  <2> DEFINE u == f[a + (k - 1)]
             v == g[k - 1]
             w == inner[k]
  <2>1. /\ a + k \in 1 .. n /\ a + k - 1 = a + (k - 1) /\ a + (k - 1) \in 0 .. n /\ k - 1 \in 0 .. e
        /\ k \in 0 .. e
    BY <1>3
  <2>2. u \in S /\ v \in S /\ w \in S
    BY <1>4, <1>5, <2>1
  <2>3. f[a + k] = Join(u, w) /\ g[k] = Join(v, w)
    BY <1>3, <1>5, <2>1
  <2>4. Len(u) = m + Len(v) /\ Inside(v, u, m)
    BY <1>10
  <2> HIDE DEF u, v, w, m
  <2>5. Len(f[a + k]) = m + Len(g[k]) /\ Inside(g[k], f[a + k], m)
    BY <1>7, <1>8, <2>2, <2>3, <2>4
  <2>6. QED
    BY <2>1, <2>5
<1>11. Inside(g[e], f[a + e], m)
  <2> HIDE DEF P
  <2>1. \A k \in 0 .. e : k \in P
    BY <1>3, <1>9, <1>10, Climbs
  <2>2. e \in P
    BY <1>3, <2>1
  <2>3. QED
    BY <2>2 DEF P
<1> HIDE DEF P, m
<1> DEFINE Q == { i \in 0 .. n : i >= a + e => Inside(g[e], f[i], m) }
<1>12. 0 \in Q
  BY <1>3, <1>11
<1>13. ASSUME NEW i \in 1 .. n, i - 1 \in Q PROVE i \in Q
  <2>1. CASE i < a + e
    BY <1>3, <2>1
  <2>2. CASE i = a + e
    BY <1>3, <1>11, <2>2
  <2>3. CASE i > a + e
    <3>1. Inside(g[e], f[i - 1], m) /\ i - 1 \in 0 .. n /\ e \in 0 .. e
      BY <1>3, <1>13, <2>3
    <3>2. f[i - 1] \in S /\ parts[i] \in S /\ f[i] = Join(f[i - 1], parts[i]) /\ g[e] \in S
      BY <1>4, <1>5, <3>1
    <3>3. Inside(g[e], f[i], m)
      BY <1>7, <1>8, <3>1, <3>2
    <3>4. QED
      BY <3>3
  <2> HIDE DEF Q
  <2>4. i < a + e \/ i = a + e \/ i > a + e
    BY <1>3
  <2>5. QED
    BY <2>1, <2>2, <2>3, <2>4
<1>14. Inside(g[e], f[n], m)
  <2> HIDE DEF Q
  <2>1. \A i \in 0 .. n : i \in Q
    BY <1>3, <1>12, <1>13, Climbs
  <2>2. n \in Q
    BY <1>3, <2>1
  <2>3. QED
    BY <1>3, <2>2 DEF Q
<1>15. QED
  <2>1. f[n] \in S /\ g[e] \in S
    BY <1>3, <1>5
  <2>2. QED
    BY <1>1, <1>2, <1>8, <1>14, <2>1 DEF S

-----------------------------------------------------------------------------
(* Chars, lowercase and trigrams.                                          *)

Char == DOMAIN CodePoint

(* What Chars and Lowercase join.                                          *)
CharParts(s) ==
  [ p \in 1 .. Len(s) |-> IF s[p] \in Cont THEN <<>> ELSE <<SubSeq(s, p, p + Width[s[p]] - 1)>> ]

LowerParts(c) ==
  [ i \in 1 .. Len(c) |-> IF c[i] = Sigma THEN <<IF WordFinal(c, i) THEN FinalSigma ELSE SmallSigma>>
                          ELSE LowerChar[c[i]] ]

(* The parts Chars joins.                                                  *)
LEMMA CharPartsAreSeqs ==
  ASSUME NEW s \in Seq(Byte), WellFormed(s)
  PROVE  CharParts(s) \in Seq(Seq(Seq(Byte)))
<1> DEFINE part(p) == IF s[p] \in Cont THEN <<>> ELSE <<SubSeq(s, p, p + Width[s[p]] - 1)>>
<1>1. Len(s) \in Nat /\ CharParts(s) = [ p \in 1 .. Len(s) |-> part(p) ]
  BY DEF CharParts
<1>2. ASSUME NEW p \in 1 .. Len(s) PROVE part(p) \in Seq(Seq(Byte))
  <2>1. CASE s[p] \in Cont
    BY <2>1
  <2>2. CASE s[p] \notin Cont
    <3>1. s[p] \in Byte \ Cont
      BY <2>2
    <3>2. Width[s[p]] \in 1 .. 4
      BY <3>1, AlphabetAssumption
    <3>3. p + Width[s[p]] - 1 <= Len(s)
      BY <2>2 DEF WellFormed
    <3> DEFINE q == p + Width[s[p]] - 1
    <3>4. p \in 1 .. Len(s) /\ q \in 1 .. Len(s)
      BY <1>1, <3>2, <3>3
    <3> HIDE DEF q
    <3>5. SubSeq(s, p, q) \in Seq(Byte)
      BY <3>4
    <3> DEFINE c == SubSeq(s, p, q)
    <3> HIDE DEF c
    <3>6. <<c>> \in Seq(Seq(Byte))
      BY <3>5 DEF c
    <3>7. QED
      BY <2>2, <3>6 DEF c, q
  <2>3. QED
    BY <2>1, <2>2
<1> HIDE DEF part
<1>3. QED
  BY <1>1, <1>2

(* A literal is cut into chars alike wherever it occurs.                   *)
LEMMA CharsInside ==
  ASSUME NEW s \in Seq(Byte), NEW t \in Seq(Byte), WellFormed(t), NEW a \in Nat, StartsWith(s, a, t)
  PROVE  Inside(CharParts(t), CharParts(s), a)
<1>1. Len(s) \in Nat /\ Len(t) \in Nat /\ a + Len(t) <= Len(s)
  BY DEF StartsWith
<1>2. \A i \in 1 .. Len(t) : s[a + i] = t[i]
  <2> TAKE i \in 1 .. Len(t)
  <2>1. SubSeq(s, a + 1, a + Len(t))[i] = s[a + 1 + i - 1]
    BY <1>1
  <2>2. QED
    BY <1>1, <2>1 DEF StartsWith
<1>3. ASSUME NEW k \in 1 .. Len(t), t[k] \notin Cont
      PROVE  SubSeq(s, a + k, a + k + Width[t[k]] - 1) = SubSeq(t, k, k + Width[t[k]] - 1)
  <2> DEFINE w == Width[t[k]]
             q == k + w - 1
  <2>1. w \in 1 .. 4
    <3>1. t[k] \in Byte \ Cont
      BY <1>3
    <3>2. QED
      BY <3>1, AlphabetAssumption
  <2>2. q <= Len(t)
    BY <1>3 DEF WellFormed
  <2> HIDE DEF w
  <2>3. q \in k .. Len(t) /\ a + k + w - 1 = a + q /\ a + q \in a + k .. Len(s)
        /\ a + k \in 1 .. Len(s) /\ k \in 1 .. Len(t) /\ q - k + 1 = w /\ a + q - (a + k) + 1 = w
    BY <1>1, <2>1, <2>2
  <2> HIDE DEF q
  <2>4. \A i \in 1 .. w : s[a + k + i - 1] = t[k + i - 1]
    <3> TAKE i \in 1 .. w
    <3>1. k + i - 1 \in 1 .. Len(t) /\ a + (k + i - 1) = a + k + i - 1
      BY <1>1, <2>1, <2>3
    <3>2. QED
      BY <1>2, <3>1
  <2>5. SubSeq(s, a + k, a + q) = [ i \in 1 .. w |-> s[a + k + i - 1] ]
    BY <1>1, <2>1, <2>3
  <2>6. SubSeq(t, k, q) = [ i \in 1 .. w |-> t[k + i - 1] ]
    BY <1>1, <2>1, <2>3
  <2>7. SubSeq(s, a + k, a + q) = SubSeq(t, k, q)
    BY <2>4, <2>5, <2>6
  <2>8. QED
    BY <2>3, <2>7 DEF q, w
<1>4. ASSUME NEW k \in 1 .. Len(t) PROVE CharParts(s)[a + k] = CharParts(t)[k]
  <2>1. a + k \in 1 .. Len(s) /\ s[a + k] = t[k]
    BY <1>1, <1>2
  <2>2. CharParts(t)[k] = IF t[k] \in Cont THEN <<>> ELSE <<SubSeq(t, k, k + Width[t[k]] - 1)>>
    BY Zenon DEF CharParts
  <2>3. CharParts(s)[a + k] = IF t[k] \in Cont THEN <<>> ELSE <<SubSeq(s, a + k, a + k + Width[t[k]] - 1)>>
    BY <2>1, Zenon DEF CharParts
  <2>4. CASE t[k] \in Cont
    BY <2>2, <2>3, <2>4, Zenon
  <2>5. CASE t[k] \notin Cont
    <3>1. SubSeq(s, a + k, a + k + Width[t[k]] - 1) = SubSeq(t, k, k + Width[t[k]] - 1)
      BY <1>3, <2>5
    <3>2. QED
      BY <2>2, <2>3, <2>5, <3>1, Zenon
  <2>6. QED
    BY <2>4, <2>5
<1>5. Len(CharParts(t)) = Len(t) /\ Len(CharParts(s)) = Len(s)
  BY <1>1 DEF CharParts
<1>6. QED
  BY <1>1, <1>4, <1>5 DEF Inside

(* The parts Lowercase joins.                                              *)
LEMMA LowerPartsAreSeqs ==
  ASSUME NEW c \in Seq(Char)
  PROVE  LowerParts(c) \in Seq(Seq(Char))
<1> DEFINE part(i) == IF c[i] = Sigma THEN <<IF WordFinal(c, i) THEN FinalSigma ELSE SmallSigma>>
                      ELSE LowerChar[c[i]]
<1>1. Len(c) \in Nat /\ LowerParts(c) = [ i \in 1 .. Len(c) |-> part(i) ]
  BY DEF LowerParts
<1>2. /\ SmallSigma \in Char /\ FinalSigma \in Char /\ LowerChar \in [Char -> Seq(Char)]
  BY CharAssumption DEF Char
<1>3. ASSUME NEW i \in 1 .. Len(c) PROVE part(i) \in Seq(Char)
  <2>1. c[i] \in Char
    OBVIOUS
  <2> HIDE DEF Char
  <2>2. LowerChar[c[i]] \in Seq(Char)
    BY <1>2, <2>1
  <2>3. <<FinalSigma>> \in Seq(Char) /\ <<SmallSigma>> \in Seq(Char)
    BY <1>2
  <2>4. QED
    BY <2>2, <2>3
<1> HIDE DEF part, Char
<1>4. QED
  BY <1>1, <1>3

(* Lowercase looks past a char only at a capital sigma.                    *)
LEMMA LowerInside ==
  ASSUME NEW c \in Seq(Char), NEW d \in Seq(Char), NEW n \in Nat, Inside(d, c, n),
         \A i \in 1 .. Len(d) : d[i] # Sigma
  PROVE  Inside(LowerParts(d), LowerParts(c), n)
<1>1. Len(c) \in Nat /\ Len(d) \in Nat /\ n + Len(d) <= Len(c) /\ \A k \in 1 .. Len(d) : c[n + k] = d[k]
  BY DEF Inside
<1>2. ASSUME NEW k \in 1 .. Len(d) PROVE LowerParts(c)[n + k] = LowerParts(d)[k]
  <2>1. n + k \in 1 .. Len(c) /\ c[n + k] = d[k] /\ d[k] # Sigma
    BY <1>1
  <2>2. LowerParts(d)[k] = LowerChar[d[k]]
    BY <2>1, Zenon DEF LowerParts
  <2>3. LowerParts(c)[n + k] = LowerChar[c[n + k]]
    BY <2>1, Zenon DEF LowerParts
  <2>4. QED
    BY <2>1, <2>2, <2>3
<1>3. Len(LowerParts(d)) = Len(d) /\ Len(LowerParts(c)) = Len(c)
  BY <1>1 DEF LowerParts
<1>4. QED
  BY <1>1, <1>2, <1>3 DEF Inside

(* The trigrams of a text: three chars each.                               *)
LEMMA TrigramsOfText ==
  ASSUME NEW s, Chars(s) \in Seq(Char)
  PROVE  \A t \in Trigrams(s) : t \in Seq(Char) /\ Len(t) = 3
<1> DEFINE lower == Lowercase(Chars(s))
<1>1. lower \in Seq(Char)
  <2>1. Lowercase(Chars(s)) = Concat(LowerParts(Chars(s)))
    BY Zenon DEF Lowercase, LowerParts
  <2>2. LowerParts(Chars(s)) \in Seq(Seq(Char))
    BY LowerPartsAreSeqs
  <2>3. Inside(<<>>, LowerParts(Chars(s)), 0)
    BY <2>2 DEF Inside
  <2>4. <<>> \in Seq(Seq(Char)) /\ 0 \in Nat
    OBVIOUS
  <2>5. Concat(LowerParts(Chars(s))) \in Seq(Char)
    BY <2>2, <2>3, <2>4, ConcatInside, Zenon
  <2>6. QED
    BY <2>1, <2>5
<1>2. Trigrams(s) = { SubSeq(lower, k, k + 2) : k \in 1 .. Len(lower) - 2 }
  BY Zenon DEF Trigrams
<1> HIDE DEF lower, Char
<1>3. \A k \in 1 .. Len(lower) - 2 : SubSeq(lower, k, k + 2) \in Seq(Char) /\ Len(SubSeq(lower, k, k + 2)) = 3
  BY <1>1
<1>4. QED
  BY <1>2, <1>3

(* A window is its three elements.                                         *)
LEMMA WindowIsThree ==
  ASSUME NEW X, NEW w \in Seq(X), NEW k \in Nat, k >= 1, k + 2 <= Len(w)
  PROVE  SubSeq(w, k, k + 2) = [ i \in 1 .. 3 |-> w[k + i - 1] ]
<1> DEFINE three == [ i \in 1 .. 3 |-> w[k + i - 1] ]
           sub == SubSeq(w, k, k + 2)
<1>1. sub \in Seq(X) /\ Len(sub) = 3 /\ \A i \in 1 .. 3 : sub[i] = w[k + i - 1]
  <2>1. Len(w) \in Nat /\ \A i \in 1 .. Len(w) : w[i] \in X
    OBVIOUS
  <2>2. \A i \in k .. k + 2 : w[i] \in X
    BY <2>1
  <2>3. k \in Int /\ k + 2 \in Int /\ k + 2 - k + 1 = 3 /\ k <= k + 2
    OBVIOUS
  <2>4. /\ sub \in Seq(X) /\ Len(sub) = k + 2 - k + 1
        /\ \A i \in 1 .. k + 2 - k + 1 : sub[i] = w[k + i - 1]
    BY <2>2, <2>3, SubSeqProperties
  <2>5. QED
    BY <2>3, <2>4
<1>2. three = [ i \in 1 .. 3 |-> three[i] ] /\ \A i \in 1 .. 3 : three[i] = w[k + i - 1]
  OBVIOUS
<1> HIDE DEF three, sub
<1>3. sub = [ i \in 1 .. 3 |-> sub[i] ]
  BY <1>1
<1>4. sub = three
  BY <1>1, <1>2, <1>3
<1>5. QED
  BY <1>4 DEF sub, three

(* A line that holds a literal holds its trigrams, unless the literal has  *)
(* a capital sigma ("a verbatim literal in the line always yields its      *)
(* lowercased trigrams", scan.rs:66-67).                                   *)
LEMMA TrigramsInside ==
  ASSUME NEW s \in Seq(Byte), WellFormed(s), Chars(s) \in Seq(Char),
         NEW t \in Seq(Byte), WellFormed(t), Chars(t) \in Seq(Char),
         \A i \in 1 .. Len(Chars(t)) : Chars(t)[i] # Sigma,
         NEW a \in Nat, StartsWith(s, a, t)
  PROVE  \A g \in Trigrams(t) : g \in Trigrams(s)
<1> DEFINE c == Chars(s)
           d == Chars(t)
           u == Lowercase(c)
           v == Lowercase(d)
<1>1. /\ c = Concat(CharParts(s)) /\ d = Concat(CharParts(t))
      /\ u = Concat(LowerParts(c)) /\ v = Concat(LowerParts(d))
  BY Zenon DEF Chars, CharParts, Lowercase, LowerParts
<1>2. \E n \in Nat : Inside(d, c, n)
  <2>1. CharParts(s) \in Seq(Seq(Seq(Byte))) /\ CharParts(t) \in Seq(Seq(Seq(Byte)))
    BY CharPartsAreSeqs
  <2>2. Inside(CharParts(t), CharParts(s), a)
    BY CharsInside
  <2> HIDE DEF c, d
  <2>3. QED
    BY <1>1, <2>1, <2>2, ConcatInside
<1> HIDE DEF u, v
<1>3. PICK n \in Nat : Inside(d, c, n)
  BY <1>2
<1>4. u \in Seq(Char) /\ v \in Seq(Char) /\ \E m \in Nat : Inside(v, u, m)
  <2>1. Inside(LowerParts(d), LowerParts(c), n)
    BY <1>3, LowerInside
  <2>2. LowerParts(d) \in Seq(Seq(Char)) /\ LowerParts(c) \in Seq(Seq(Char))
    BY LowerPartsAreSeqs
  <2> HIDE DEF c, d
  <2>3. QED
    BY <1>1, <2>1, <2>2, ConcatInside
<1>5. PICK m \in Nat : Inside(v, u, m)
  BY <1>4
<1>6. /\ Trigrams(s) = { SubSeq(u, k, k + 2) : k \in 1 .. Len(u) - 2 }
      /\ Trigrams(t) = { SubSeq(v, k, k + 2) : k \in 1 .. Len(v) - 2 }
  BY Zenon DEF Trigrams, u, v
<1> HIDE DEF Char
<1>7. ASSUME NEW k \in 1 .. Len(v) - 2
      PROVE  m + k \in 1 .. Len(u) - 2 /\ SubSeq(u, m + k, m + k + 2) = SubSeq(v, k, k + 2)
  <2>1. Len(u) \in Nat /\ Len(v) \in Nat /\ m + Len(v) <= Len(u) /\ \A j \in 1 .. Len(v) : u[m + j] = v[j]
    BY <1>4, <1>5 DEF Inside
  <2>2. m + k \in 1 .. Len(u) - 2 /\ k + 2 \in 1 .. Len(v) /\ k \in 1 .. Len(v)
        /\ m + k + 2 \in 1 .. Len(u)
    <3>1. Len(u) \in Nat /\ Len(v) \in Nat /\ m + Len(v) <= Len(u)
      BY <2>1
    <3>2. PICK p \in Nat, q \in Nat : p = Len(u) /\ q = Len(v)
      BY <3>1
    <3>3. k \in 1 .. q - 2 /\ m \in Nat /\ m + q <= p
      BY <3>1, <3>2
    <3>4. m + k \in 1 .. p - 2 /\ k + 2 \in 1 .. q /\ k \in 1 .. q /\ m + k + 2 \in 1 .. p
      BY <3>3
    <3>5. QED
      BY <3>2, <3>4
  <2>3. SubSeq(u, m + k, m + k + 2) = [ i \in 1 .. 3 |-> u[m + k + i - 1] ]
    <3>1. m + k \in Nat /\ m + k >= 1 /\ m + k + 2 <= Len(u)
      BY <2>1, <2>2
    <3>2. QED
      BY <1>4, <3>1, WindowIsThree
  <2>4. SubSeq(v, k, k + 2) = [ i \in 1 .. 3 |-> v[k + i - 1] ]
    <3>1. k \in Nat /\ k >= 1 /\ k + 2 <= Len(v)
      BY <2>1, <2>2
    <3>2. QED
      BY <1>4, <3>1, WindowIsThree
  <2>5. \A i \in 1 .. 3 : u[m + k + i - 1] = v[k + i - 1]
    <3> TAKE i \in 1 .. 3
    <3>1. k + i - 1 \in 1 .. Len(v) /\ m + (k + i - 1) = m + k + i - 1
      BY <2>1, <2>2
    <3>2. QED
      BY <2>1, <3>1
  <2>6. QED
    BY <2>2, <2>3, <2>4, <2>5
<1>8. QED
  BY <1>6, <1>7

-----------------------------------------------------------------------------
(* Literals without a capital sigma.                                       *)

(* No literal of a catalog's texts holds a capital sigma.                  *)
NoCapitalSigma ==
  \A c \in Catalogs : \A k \in DOMAIN c : c[k] # NoText /\ lower_format[c[k]].ok =>
     \A i \in LiteralIndexes(lower_format[c[k]].toks) :
        \A j \in DOMAIN Chars(lower_format[c[k]].toks[i].text) :
           Chars(lower_format[c[k]].toks[i].text)[j] # Sigma

(* A window of three chars.                                                *)
IsTrigram(t) == t \in Seq(Char) /\ Len(t) = 3

(* Of numbered things one has the least number.                            *)
LEMMA LeastValue ==
  ASSUME NEW T, T # {}, NEW v, \A t \in T : v[t] \in Nat
  PROVE  \E t \in T : \A u \in T : v[t] <= v[u]
<1> DEFINE V == { v[t] : t \in T }
<1>1. V \in SUBSET Nat /\ V # {}
  OBVIOUS
<1>2. Least(V) \in V /\ \A x \in V : Least(V) <= x
  <2> HIDE DEF V
  <2>1. QED
    BY <1>1, LeastIsSmallest
<1>3. QED
  BY <1>2

(* Among trigrams there is a rarest one.                                   *)
LEMMA RarestIsOne ==
  ASSUME NEW T, T # {}, NEW count, \A t \in T : IsTrigram(t) /\ count[t] \in Nat
  PROVE  /\ Rarest(count, T) \in T
         /\ \A u \in T \ {Rarest(count, T)} : Rarer(count, Rarest(count, T), u)
<1> DEFINE F == [ t \in T |-> count[t] ]
           A == [ t \in T |-> CodePoint[t[1]] ]
           B == [ t \in T |-> CodePoint[t[2]] ]
           C == [ t \in T |-> CodePoint[t[3]] ]
<1>1. \A t \in T : count[t] \in Nat
  OBVIOUS
<1>2. \A t \in T : t[1] \in Char /\ t[2] \in Char /\ t[3] \in Char
  BY DEF IsTrigram
<1>3. /\ \A c \in Char : CodePoint[c] \in Nat
      /\ \A c, d \in Char : CodePoint[c] = CodePoint[d] => c = d
  BY CharAssumption DEF Char
<1>4. \A t \in T : F[t] = count[t] /\ A[t] = CodePoint[t[1]] /\ B[t] = CodePoint[t[2]] /\ C[t] = CodePoint[t[3]]
  OBVIOUS
<1> HIDE DEF F, A, B, C
<1>5. \A t \in T : F[t] \in Nat /\ A[t] \in Nat /\ B[t] \in Nat /\ C[t] \in Nat
  BY <1>1, <1>2, <1>3, <1>4
<1>6. PICK t1 \in T : \A u \in T : F[t1] <= F[u]
  BY <1>5, LeastValue
<1> DEFINE T1 == { t \in T : F[t] = F[t1] }
<1>7. PICK t2 \in T1 : \A u \in T1 : A[t2] <= A[u]
  <2>1. T1 # {} /\ \A t \in T1 : A[t] \in Nat
    BY <1>5
  <2> HIDE DEF T1
  <2>2. QED
    BY <2>1, LeastValue
<1> DEFINE T2 == { t \in T1 : A[t] = A[t2] }
<1>8. PICK t3 \in T2 : \A u \in T2 : B[t3] <= B[u]
  <2>1. T2 # {} /\ \A t \in T2 : B[t] \in Nat
    BY <1>5
  <2> HIDE DEF T2
  <2>2. QED
    BY <2>1, LeastValue
<1> DEFINE T3 == { t \in T2 : B[t] = B[t3] }
<1>9. PICK t \in T3 : \A u \in T3 : C[t] <= C[u]
  <2>1. T3 # {} /\ \A x \in T3 : C[x] \in Nat
    BY <1>5
  <2> HIDE DEF T3
  <2>2. QED
    BY <2>1, LeastValue
<1>10. /\ t \in T /\ \A u \in T : F[t] <= F[u]
       /\ \A u \in T : F[u] = F[t] => A[t] <= A[u]
       /\ \A u \in T : F[u] = F[t] /\ A[u] = A[t] => B[t] <= B[u]
       /\ \A u \in T : F[u] = F[t] /\ A[u] = A[t] /\ B[u] = B[t] => C[t] <= C[u]
  BY <1>6, <1>7, <1>8, <1>9
<1> HIDE DEF T1, T2, T3
<1>11. ASSUME NEW u \in T \ {t} PROVE Rarer(count, t, u)
  <2>1. CASE F[t] < F[u]
    BY <1>4, <1>10, <2>1, Zenon DEF Rarer
  <2>2. CASE F[t] = F[u]
    <3>1. count[t] = count[u]
      BY <1>4, <1>10, <2>2
    <3>2. TrigramBelow(t, u)
      <4>1. CASE A[t] < A[u]
        <5>1. 1 \in 1 .. 3 /\ (\A j \in 1 .. 1 - 1 : t[j] = u[j]) /\ CodePoint[t[1]] < CodePoint[u[1]]
          BY <1>4, <1>10, <4>1
        <5>2. QED
          BY <5>1, Zenon DEF TrigramBelow
      <4>2. CASE A[t] = A[u] /\ B[t] < B[u]
        <5>1. t[1] = u[1]
          BY <1>2, <1>3, <1>4, <1>10, <4>2
        <5>2. 2 \in 1 .. 3 /\ (\A j \in 1 .. 2 - 1 : t[j] = u[j]) /\ CodePoint[t[2]] < CodePoint[u[2]]
          BY <1>4, <1>10, <4>2, <5>1
        <5>3. QED
          BY <5>2, Zenon DEF TrigramBelow
      <4>3. CASE A[t] = A[u] /\ B[t] = B[u]
        <5>1. t[1] = u[1] /\ t[2] = u[2]
          BY <1>2, <1>3, <1>4, <1>10, <4>3
        <5>2. t[3] # u[3]
          <6>1. t \in Seq(Char) /\ u \in Seq(Char) /\ Len(t) = 3 /\ Len(u) = 3
            BY <1>10 DEF IsTrigram
          <6> HIDE DEF Char
          <6>2. t = [ i \in 1 .. 3 |-> t[i] ] /\ u = [ i \in 1 .. 3 |-> u[i] ]
            BY <6>1
          <6>3. t[3] = u[3] => \A i \in 1 .. 3 : t[i] = u[i]
            BY <5>1
          <6>4. t # u
            OBVIOUS
          <6>5. QED
            BY <6>2, <6>3, <6>4
        <5>3. C[t] # C[u] /\ C[t] <= C[u]
          BY <1>2, <1>3, <1>4, <1>10, <2>2, <4>3, <5>2
        <5>4. 3 \in 1 .. 3 /\ (\A j \in 1 .. 3 - 1 : t[j] = u[j]) /\ CodePoint[t[3]] < CodePoint[u[3]]
          <6>1. CodePoint[t[3]] = C[t] /\ CodePoint[u[3]] = C[u] /\ C[t] \in Nat /\ C[u] \in Nat
            BY <1>4, <1>5, <1>10
          <6>2. \A j \in 1 .. 3 - 1 : t[j] = u[j]
            BY <5>1
          <6>3. QED
            BY <5>3, <6>1, <6>2
        <5>5. QED
          BY <5>4, Zenon DEF TrigramBelow
      <4>4. QED
        BY <1>5, <1>10, <2>2, <4>1, <4>2, <4>3
    <3>3. QED
      BY <3>1, <3>2, Zenon DEF Rarer
  <2>3. QED
    BY <1>5, <1>10, <2>1, <2>2
<1>12. QED
  BY <1>10, <1>11, Zenon DEF Rarest

-----------------------------------------------------------------------------
(* The trigrams of a pattern, and where it is filed.                       *)

(* What a pattern of a catalog is: the lowering of its site's text.        *)
LEMMA PatternsAreLowered ==
  ASSUME CatalogInv, NEW i \in Patterns
  PROVE  LET k == site_idx[i]
         IN /\ k \in DOMAIN sites /\ sites \in Catalogs /\ sites[k] \in Text /\ sites[k] # NoText
            /\ lower_format[sites[k]].ok
            /\ pats[i] = lower_format[sites[k]].toks /\ IsPattern(pats[i]) /\ pats[i] \in Seq(Token)
            /\ literal_len[i] = lower_format[sites[k]].literal_len
<1> DEFINE k == site_idx[i]
<1>1. /\ sites \in Seq(Text \cup {NoText}) /\ DOMAIN sites = 1 .. Len(sites) /\ Len(sites) \in Nat
      /\ Accounted \in Nat
  BY CatalogNumbers
<1>2. /\ k \in Compiled(Accounted)
      /\ pats[i] = lower_format[sites[k]].toks
      /\ literal_len[i] = lower_format[sites[k]].literal_len
      /\ Accounted <= Len(sites) /\ sites \in Catalogs
  BY DEF CatalogInv, Described, Reported, CatalogTyped
<1>3. k \in 1 .. Accounted /\ sites[k] # NoText /\ lower_format[sites[k]].ok
  BY <1>2 DEF Compiled
<1>4. k \in DOMAIN sites /\ sites[k] \in Text
  BY <1>1, <1>2, <1>3
<1>5. IsPattern(pats[i])
  BY <1>2, <1>3, <1>4, CatalogAssumption
<1>6. QED
  BY <1>2, <1>3, <1>4, <1>5 DEF IsPattern

(* The trigrams of a pattern are windows of three chars.                   *)
LEMMA PatternTrigrams ==
  ASSUME CatalogInv, NEW i \in Patterns
  PROVE  \A g \in TrigramsOf(pats[i]) : IsTrigram(g)
<1> DEFINE p == pats[i]
           k == site_idx[i]
<1>1. sites[k] \in Text /\ lower_format[sites[k]].ok /\ p = lower_format[sites[k]].toks
  BY PatternsAreLowered
<1> HIDE DEF p, k
<1>2. ASSUME NEW j \in LiteralIndexes(p) PROVE \A g \in Trigrams(p[j].text) : IsTrigram(g)
  <2>1. Chars(p[j].text) \in Seq(Char)
    BY <1>1, <1>2, CharAssumption DEF Char
  <2>2. QED
    BY <2>1, TrigramsOfText DEF IsTrigram
<1>3. QED
  BY <1>2 DEF TrigramsOf, p

(* The rarest trigram of a pattern, by the finished counts.                *)
LEMMA HomeOfPattern ==
  ASSUME CatalogInv, Tallied, tallied = Len(pats), NEW i \in Patterns, TrigramsOf(pats[i]) # {}
  PROVE  LET T == TrigramsOf(pats[i])
         IN /\ Rarest(freq, T) \in T
            /\ \A u \in T \ {Rarest(freq, T)} : Rarer(freq, Rarest(freq, T), u)
<1> DEFINE T == TrigramsOf(pats[i])
<1>1. Len(pats) \in Nat /\ Patterns = 1 .. Len(pats)
  BY CatalogNumbers
<1>2. ASSUME NEW t \in T PROVE IsTrigram(t) /\ freq[t] \in Nat
  <2>1. IsTrigram(t)
    BY PatternTrigrams
  <2>2. t \in Seen(tallied)
    BY <1>1 DEF Seen
  <2>3. freq[t] = Cardinality(Holding(t, tallied))
    BY <2>2 DEF Tallied
  <2>4. Holding(t, tallied) \in SUBSET (1 .. Len(pats))
    BY DEF Holding
  <2>5. Cardinality(Holding(t, tallied)) \in Nat
    BY <1>1, <2>4, SmallSets
  <2>6. QED
    BY <2>1, <2>3, <2>5
<1>3. T # {}
  OBVIOUS
<1> HIDE DEF T
<1>4. Rarest(freq, T) \in T /\ \A u \in T \ {Rarest(freq, T)} : Rarer(freq, Rarest(freq, T), u)
  BY <1>2, <1>3, RarestIsOne
<1>5. QED
  BY <1>4 DEF T

(* Once made, the oracle side has each pattern in the one place it is      *)
(* looked for.                                                             *)
LEMMA OracleFilesOnce == CatalogInv /\ OracleInv => FiledOnce
<1> DEFINE Freq == [ t \in UNION { TrigramsOf(pats[i]) : i \in Patterns } |->
                       Cardinality({ i \in Patterns : t \in TrigramsOf(pats[i]) }) ]
<1> SUFFICES ASSUME CatalogInv, OracleInv, built, NEW i \in Patterns
             PROVE  LET T == TrigramsOf(pats[i])
                        under == { t \in DOMAIN buckets : i \in buckets[t] }
                    IN IF T = {} THEN i \in always_check /\ under = {}
                       ELSE /\ i \notin always_check
                            /\ \E t \in T : under = {t} /\ \A u \in T \ {t} : Rarer(Freq, t, u)
  BY Zenon DEF FiledOnce
<1> DEFINE T == TrigramsOf(pats[i])
           under == { t \in DOMAIN buckets : i \in buckets[t] }
           r == Rarest(freq, T)
           n == Len(pats)
<1>1. n \in Nat /\ Patterns = 1 .. n
  BY CatalogNumbers
<1>2. /\ Tallied /\ tallied = n /\ filed = n /\ always_check = Bare(n)
      /\ \A t : t \in DOMAIN buckets <=> Under(t, n) # {}
      /\ \A t \in DOMAIN buckets : buckets[t] = Under(t, n)
  BY DEF OracleInv, Filed
<1>3. ASSUME NEW t \in T PROVE freq[t] = Freq[t]
  <2>1. t \in Seen(n) /\ t \in UNION { TrigramsOf(pats[k]) : k \in Patterns }
    BY <1>1 DEF Seen
  <2>2. freq[t] = Cardinality(Holding(t, n))
    BY <1>2, <2>1 DEF Tallied
  <2>3. Holding(t, n) = { k \in Patterns : t \in TrigramsOf(pats[k]) }
    BY <1>1 DEF Holding
  <2>4. Freq[t] = Cardinality({ k \in Patterns : t \in TrigramsOf(pats[k]) })
    BY <2>1
  <2>5. QED
    BY <2>2, <2>3, <2>4
<1>4. \A t : i \in Under(t, n) <=> T # {} /\ t = r
  BY <1>1 DEF Under
<1>5. i \in Bare(n) <=> T = {}
  BY <1>1 DEF Bare
<1>6. \A t : t \in under <=> i \in Under(t, n)
  BY <1>2
<1>7. CASE T = {}
  <2>1. under = {}
    BY <1>4, <1>6, <1>7
  <2>2. QED
    BY <1>2, <1>5, <1>7, <2>1
<1>8. CASE T # {}
  <2>1. r \in T /\ \A u \in T \ {r} : Rarer(freq, r, u)
    BY <1>2, <1>8, HomeOfPattern
  <2> HIDE DEF T, under, r, Freq
  <2>2. under = {r}
    BY <1>4, <1>6, <1>8
  <2>3. \A u \in T \ {r} : Rarer(Freq, r, u)
    BY <1>3, <2>1 DEF Rarer
  <2>4. i \notin always_check
    BY <1>2, <1>5, <1>8
  <2>5. QED
    BY <1>8, <2>1, <2>2, <2>3, <2>4 DEF T, under
<1>9. QED
  BY <1>7, <1>8

(* A pattern that matches a line has its trigrams there.                   *)
LEMMA MatchHoldsTrigrams ==
  ASSUME NoCapitalSigma, CatalogInv, NEW i \in Patterns, NEW l \in Lines,
         Parses(pats[i], l) # {}
  PROVE  \A g \in TrigramsOf(pats[i]) : IsTrigram(g) /\ g \in Trigrams(l)
<1> DEFINE p == pats[i]
           k == site_idx[i]
<1>1. /\ k \in DOMAIN sites /\ sites \in Catalogs /\ sites[k] \in Text /\ sites[k] # NoText
      /\ lower_format[sites[k]].ok
      /\ p = lower_format[sites[k]].toks /\ IsPattern(p) /\ p \in Seq(Token)
  BY PatternsAreLowered
<1> HIDE DEF p, k
<1>2. l \in Seq(Byte) /\ WellFormed(l) /\ Chars(l) \in Seq(Char)
  BY CatalogAssumption, CharAssumption DEF Char
<1>3. PICK c \in Parses(p, l) : TRUE
  BY DEF p
<1>4. /\ c \in Seq(0 .. Len(l)) /\ Len(c) = Len(p) + 1
      /\ \A j \in 1 .. Len(p) : Segment(p[j], l, c[j], c[j + 1])
  <2>1. c \in Seq(0 .. Len(l)) /\ IsParse(p, l, c)
    BY <1>1, <1>2, <1>3, ParsesAreParses
  <2>2. QED
    BY <2>1, Zenon DEF IsParse
<1>5. ASSUME NEW j \in LiteralIndexes(p)
      PROVE  \A g \in Trigrams(p[j].text) : IsTrigram(g) /\ g \in Trigrams(l)
  <2> DEFINE t == p[j].text
             a == c[j]
  <2>1. j \in 1 .. Len(p) /\ p[j].kind = "Lit" /\ p[j] \in Token /\ Len(p) \in Nat
    BY <1>1, <1>5 DEF LiteralIndexes
  <2>2. t \in Seq(Byte) /\ WellFormed(t)
    <3>1. WellFormed(t)
      BY <1>1, <2>1 DEF IsPattern
    <3>2. \A tok \in Token : tok.text \in Seq(Byte)
      <4> TAKE tok \in Token
      <4>1. CASE tok \in [kind : {"Lit"}, text : Seq(Byte) \ {<<>>}]
        BY <4>1
      <4>2. CASE tok \in [kind : Kind, text : {<<>>}]
        <5>1. tok.text = <<>>
          BY <4>2
        <5>2. QED
          BY <5>1
      <4>3. QED
        BY <4>1, <4>2 DEF Token
    <3>3. QED
      BY <2>1, <3>1, <3>2
  <2>3. StartsWith(l, a, t)
    BY <1>4, <2>1, Zenon DEF Segment
  <2>4. a \in Nat
    <3>1. j \in 1 .. Len(p) + 1 /\ Len(l) \in Nat
      BY <1>2, <2>1
    <3>2. a \in 0 .. Len(l)
      BY <1>4, <3>1
    <3>3. QED
      BY <3>1, <3>2
  <2>5. Chars(t) \in Seq(Char)
    BY <1>1, <1>5, CharAssumption DEF Char
  <2>6. \A n \in DOMAIN Chars(t) : Chars(t)[n] # Sigma
    BY <1>1, <1>5, Zenon DEF NoCapitalSigma
  <2> HIDE DEF t, a
  <2>7. \A n \in 1 .. Len(Chars(t)) : Chars(t)[n] # Sigma
    BY <2>5, <2>6
  <2>8. \A g \in Trigrams(t) : g \in Trigrams(l)
    BY <1>2, <2>2, <2>3, <2>4, <2>5, <2>7, TrigramsInside
  <2>9. \A g \in Trigrams(t) : IsTrigram(g)
    BY <2>5, TrigramsOfText DEF IsTrigram
  <2>10. QED
    BY <2>8, <2>9 DEF t
<1>6. QED
  BY <1>5 DEF TrigramsOf, p

-----------------------------------------------------------------------------
(* \d read as the ASCII digits.                                            *)

(* No line holds a decimal digit that is not ASCII.                        *)
NoWideDigits ==
  \A l \in Lines : \A p \in 0 .. Len(l) - 1 : l[p + 1] \notin Cont =>
     SubSeq(l, p + 1, p + Width[l[p + 1]]) \notin WideDigit

(* A fragment read so holds of no more slices, and of as many if there is  *)
(* no such digit in the line.                                              *)
LEMMA AsciiSegments ==
  ASSUME NEW tok \in Token, NEW s, NEW a, NEW b
  PROVE  /\ Ascii!Segment(tok, s, a, b) => Segment(tok, s, a, b)
         /\ NoWideDigits /\ s \in Lines => (Ascii!Segment(tok, s, a, b) <=> Segment(tok, s, a, b))
<1>1. \A x, p : Ascii!Boundary(x, p) = Boundary(x, p)
  BY Zenon DEF Ascii!Boundary, Boundary
<1>2. \A x, p, t : Ascii!StartsWith(x, p, t) <=> StartsWith(x, p, t)
  BY Zenon DEF Ascii!StartsWith, StartsWith
<1>3. \A x, c, d : Ascii!Dots(x, c, d) <=> Dots(x, c, d)
  BY <1>1, Zenon DEF Ascii!Dots, Dots
<1>4. \A C, x, c, d : Ascii!RunOf(C, x, c, d) <=> RunOf(C, x, c, d)
  BY Zenon DEF Ascii!RunOf, RunOf
<1>5. \A c, d : Ascii!Digits(s, c, d) => Digits(s, c, d)
  BY <1>1 DEF Ascii!Digits, Digits
<1>6. ASSUME NoWideDigits, s \in Lines, NEW c, NEW d, Digits(s, c, d) PROVE Ascii!Digits(s, c, d)
  <2>1. /\ c < d /\ Boundary(s, c) /\ Boundary(s, d)
        /\ \A p \in c .. d - 1 : s[p + 1] \notin Cont =>
             s[p + 1] \in Digit \/ SubSeq(s, p + 1, p + Width[s[p + 1]]) \in WideDigit
    BY <1>6 DEF Digits
  <2>2. Len(s) \in Nat
    BY <1>6, CatalogAssumption
  <2>3. c \in 0 .. Len(s) /\ d \in 0 .. Len(s)
    BY <2>1 DEF Boundary
  <2>4. \A p \in c .. d - 1 : p \in 0 .. Len(s) - 1
    BY <2>2, <2>3
  <2>5. \A p \in c .. d - 1 : s[p + 1] \notin Cont => s[p + 1] \in Digit
    BY <1>6, <2>1, <2>4 DEF NoWideDigits
  <2>6. QED
    BY <1>1, <2>1, <2>5 DEF Ascii!Digits
<1>7. CASE tok.kind = "Lit"
  BY <1>2, <1>7 DEF Ascii!Segment, Segment
<1>8. CASE tok.kind \in {"Str", "Errno", "Char"}
  BY <1>3, <1>8 DEF Ascii!Segment, Segment
<1>9. CASE tok.kind = "Int"
  <2>1. /\ Ascii!Segment(tok, s, a, b) <=>
             Ascii!Digits(s, a, b) \/ (a < b /\ s[a + 1] = Minus /\ Ascii!Digits(s, a + 1, b))
        /\ Segment(tok, s, a, b) <=>
             Digits(s, a, b) \/ (a < b /\ s[a + 1] = Minus /\ Digits(s, a + 1, b))
    BY <1>9 DEF Ascii!Segment, Segment
  <2>2. QED
    BY <1>5, <1>6, <2>1, Zenon
<1>10. CASE tok.kind = "Uint"
  <2>1. /\ Ascii!Segment(tok, s, a, b) <=> Ascii!Digits(s, a, b)
        /\ Segment(tok, s, a, b) <=> Digits(s, a, b)
    BY <1>10 DEF Ascii!Segment, Segment
  <2>2. QED
    BY <1>5, <1>6, <2>1, Zenon
<1>11. CASE tok.kind \in {"Oct", "Hex", "Float"}
  BY <1>4, <1>11 DEF Ascii!Segment, Segment
<1>12. CASE tok.kind = "Ptr"
  BY <1>2, <1>4, <1>12 DEF Ascii!Segment, Segment
<1>13. QED
  BY <1>7, <1>8, <1>9, <1>10, <1>11, <1>12 DEF Token, Kind

(* The parses of the first i tokens, each grown by one slice.              *)
AsciiGrown(p, s, i, C) ==
  UNION { { Append(c, e) : e \in { x \in c[i] .. Len(s) : Ascii!Segment(p[i], s, c[i], x) } } : c \in C }

(* The partial parses, one token longer at each index.                     *)
LEMMA AsciiPartialParses ==
  ASSUME NEW p \in Seq(Token), NEW s
  PROVE  \E partial :
           /\ partial[0] = {<<0>>}
           /\ \A i \in 1 .. Len(p) : partial[i] = AsciiGrown(p, s, i, partial[i - 1])
           /\ Ascii!Parses(p, s) = { c \in partial[Len(p)] : c[Len(c)] = Len(s) }
<1> DEFINE V == SUBSET Seq(Int)
           step == [ i \in 1 .. Len(p) |-> [ C \in V |-> AsciiGrown(p, s, i, C) ] ]
           partial == CHOOSE f : f = [ i \in 0 .. Len(p) |->
             IF i = 0 THEN {<<0>>}
             ELSE UNION { { Append(c, e) : e \in { x \in c[i] .. Len(s) :
                                                   Ascii!Segment(p[i], s, c[i], x) } }
                          : c \in f[i - 1] } ]
<1>1. Ascii!Parses(p, s) = { c \in partial[Len(p)] : c[Len(c)] = Len(s) }
  BY DEF Ascii!Parses
<1>2. Len(p) \in Nat
  OBVIOUS
<1>3. \A i \in 1 .. Len(p) : \A C \in V : AsciiGrown(p, s, i, C) \in V
  <2> SUFFICES ASSUME NEW i \in 1 .. Len(p), NEW C \in V, NEW d \in AsciiGrown(p, s, i, C)
               PROVE  d \in Seq(Int)
    OBVIOUS
  <2>1. PICK c \in C : \E e \in c[i] .. Len(s) : d = Append(c, e)
    BY DEF AsciiGrown
  <2>2. QED
    BY <2>1
<1>4. {<<0>>} \in V
  OBVIOUS
<1>5. Steps(Len(p), V, {<<0>>}, step)
  BY <1>2, <1>3, <1>4 DEF Steps
<1>6. \A i \in 1 .. Len(p) : \A C \in V : step[i][C] = AsciiGrown(p, s, i, C)
  OBVIOUS
<1>7. PICK f : Follows(f, Len(p), V, {<<0>>}, step)
  <2> HIDE DEF step
  <2>1. QED
    BY <1>5, Recurrence
<1> HIDE DEF step
<1>8. /\ f \in [0 .. Len(p) -> V] /\ f[0] = {<<0>>}
      /\ \A i \in 1 .. Len(p) : f[i] = step[i][f[i - 1]]
  BY <1>7, Zenon DEF Follows
<1>9. f = [ i \in 0 .. Len(p) |-> IF i = 0 THEN {<<0>>} ELSE AsciiGrown(p, s, i, f[i - 1]) ]
  <2>1. \A i \in 1 .. Len(p) : f[i - 1] \in V
    BY <1>2, <1>8
  <2>2. \A i \in 1 .. Len(p) : f[i] = AsciiGrown(p, s, i, f[i - 1])
    BY <1>6, <1>8, <2>1
  <2>3. QED
    BY <1>2, <1>8, <2>2
<1>10. partial = [ i \in 0 .. Len(p) |-> IF i = 0 THEN {<<0>>} ELSE AsciiGrown(p, s, i, partial[i - 1]) ]
  BY <1>9 DEF AsciiGrown
<1> HIDE DEF partial
<1>11. \A i \in 0 .. Len(p) :
          partial[i] = IF i = 0 THEN {<<0>>} ELSE AsciiGrown(p, s, i, partial[i - 1])
  BY <1>10
<1>12. partial[0] = {<<0>>} /\ \A i \in 1 .. Len(p) : partial[i] = AsciiGrown(p, s, i, partial[i - 1])
  BY <1>2, <1>11
<1>13. QED
  BY <1>1, <1>12

(* A parse read so is a parse, and the other way round without such digits.*)
LEMMA AsciiParses ==
  ASSUME NEW p \in Seq(Token), NEW s
  PROVE  /\ Ascii!Parses(p, s) \subseteq Parses(p, s)
         /\ NoWideDigits /\ s \in Lines => Ascii!Parses(p, s) = Parses(p, s)
<1>1. PICK f :
        /\ f[0] = {<<0>>}
        /\ \A i \in 1 .. Len(p) : f[i] = AsciiGrown(p, s, i, f[i - 1])
        /\ Ascii!Parses(p, s) = { c \in f[Len(p)] : c[Len(c)] = Len(s) }
  BY AsciiPartialParses
<1>2. PICK g :
        /\ g[0] = {<<0>>}
        /\ \A i \in 1 .. Len(p) : g[i] = Grown(p, s, i, g[i - 1])
        /\ Parses(p, s) = { c \in g[Len(p)] : c[Len(c)] = Len(s) }
  BY PartialParses
<1>3. Len(p) \in Nat /\ \A i \in 1 .. Len(p) : p[i] \in Token
  OBVIOUS
<1>4. ASSUME NEW i \in 1 .. Len(p), NEW C, NEW D, C \subseteq D
      PROVE  AsciiGrown(p, s, i, C) \subseteq Grown(p, s, i, D)
  BY <1>3, <1>4, AsciiSegments DEF AsciiGrown, Grown
<1>5. Ascii!Parses(p, s) \subseteq Parses(p, s)
  <2> DEFINE P == { i \in 0 .. Len(p) : f[i] \subseteq g[i] }
  <2>1. 0 \in P
    BY <1>1, <1>2, <1>3
  <2>2. ASSUME NEW i \in 1 .. Len(p), i - 1 \in P PROVE i \in P
    <3>1. f[i - 1] \subseteq g[i - 1] /\ i \in 0 .. Len(p)
      BY <1>3, <2>2
    <3>2. AsciiGrown(p, s, i, f[i - 1]) \subseteq Grown(p, s, i, g[i - 1])
      BY <1>4, <3>1
    <3>3. QED
      BY <1>1, <1>2, <3>1, <3>2
  <2> HIDE DEF P
  <2>3. Len(p) \in P
    <3>1. \A i \in 0 .. Len(p) : i \in P
      BY <1>3, <2>1, <2>2, Climbs, Zenon
    <3>2. QED
      BY <1>3, <3>1
  <2>4. f[Len(p)] \subseteq g[Len(p)]
    BY <2>3 DEF P
  <2>5. QED
    BY <1>1, <1>2, <2>4
<1>6. ASSUME NoWideDigits, s \in Lines PROVE Ascii!Parses(p, s) = Parses(p, s)
  <2>1. ASSUME NEW i \in 1 .. Len(p), NEW C PROVE AsciiGrown(p, s, i, C) = Grown(p, s, i, C)
    <3>1. \A c : { x \in c[i] .. Len(s) : Ascii!Segment(p[i], s, c[i], x) }
                = { x \in c[i] .. Len(s) : Segment(p[i], s, c[i], x) }
      BY <1>3, <1>6, AsciiSegments
    <3>2. QED
      BY <3>1 DEF AsciiGrown, Grown
  <2> DEFINE P == { i \in 0 .. Len(p) : f[i] = g[i] }
  <2>2. 0 \in P
    <3>1. f[0] = g[0] /\ 0 \in 0 .. Len(p)
      BY <1>1, <1>2, <1>3
    <3>2. QED
      BY <3>1
  <2>3. ASSUME NEW i \in 1 .. Len(p), i - 1 \in P PROVE i \in P
    BY <1>1, <1>2, <1>3, <2>1, <2>3
  <2> HIDE DEF P
  <2>4. Len(p) \in P
    <3>1. \A i \in 0 .. Len(p) : i \in P
      BY <1>3, <2>2, <2>3, Climbs, Zenon
    <3>2. QED
      BY <1>3, <3>1
  <2>5. f[Len(p)] = g[Len(p)]
    BY <2>4 DEF P
  <2>6. QED
    BY <1>1, <1>2, <2>5
<1>7. QED
  BY <1>5, <1>6

(* Then the captures are the same, too.                                    *)
LEMMA AsciiCaptures ==
  ASSUME NEW p \in Seq(Token), NEW s
  PROVE  /\ Ascii!Captures(p, s) # NoMatch => Parses(p, s) # {}
         /\ NoWideDigits /\ s \in Lines => Ascii!Captures(p, s) = Captures(p, s)
<1>1. Ascii!NoMatch = NoMatch
  BY Zenon DEF Ascii!NoMatch, NoMatch
<1>2. ASSUME Ascii!Captures(p, s) # NoMatch PROVE Parses(p, s) # {}
  <2>1. Ascii!Parses(p, s) # {}
    BY <1>1, <1>2, Zenon DEF Ascii!Captures
  <2>2. QED
    BY <2>1, AsciiParses
<1>3. ASSUME NoWideDigits, s \in Lines PROVE Ascii!Captures(p, s) = Captures(p, s)
  <2> DEFINE first == [ all \in {Parses(p, s)} |->
                          IF all = {} THEN NoMatch
                          ELSE CHOOSE c \in all : \A d \in all \ {c} :
                            \E i \in 1 .. Len(p) :
                              /\ \A j \in 1 .. i : c[j] = d[j]
                              /\ IF p[i].kind \in {"Str", "Errno"} THEN c[i + 1] < d[i + 1] ELSE c[i + 1] > d[i + 1] ]
  <2>1. Ascii!Parses(p, s) = Parses(p, s)
    BY <1>3, AsciiParses
  <2>2. Captures(p, s) = first[Parses(p, s)]
    BY DEF Captures, Prefers, LazyKind
  <2>3. Ascii!Captures(p, s) = first[Ascii!Parses(p, s)]
    BY <1>1, <2>1 DEF Ascii!Captures, Ascii!Prefers, Ascii!LazyKind
  <2> HIDE DEF first
  <2>4. QED
    BY <2>1, <2>2, <2>3
<1>4. QED
  BY <1>2, <1>3

(* What a path finds is a match of the regular expression, and without     *)
(* such digits it is the match.                                            *)
LEMMA MatchIsParsed ==
  ASSUME CatalogInv, NEW i \in Patterns, NEW w, NEW l
  PROVE  /\ MatchedBy(w, i, l) => Parses(pats[i], l) # {}
         /\ NoWideDigits /\ l \in Lines => CapturesOn(w, i, l) = Captures(pats[i], l)
<1>1. pats[i] \in Seq(Token)
  BY PatternsAreLowered
<1>2. CASE w = "spec"
  <2>1. CapturesOn(w, i, l) = Ascii!Captures(pats[i], l)
    BY <1>2 DEF CapturesOn
  <2>2. QED
    BY <1>1, <2>1, AsciiCaptures DEF MatchedBy
<1>3. CASE w # "spec"
  <2>1. CapturesOn(w, i, l) = Captures(pats[i], l)
    BY <1>3 DEF CapturesOn
  <2>2. Captures(pats[i], l) # NoMatch => Parses(pats[i], l) # {}
    BY Zenon DEF Captures
  <2>3. QED
    BY <2>1, <2>2 DEF MatchedBy
<1>4. QED
  BY <1>2, <1>3

-----------------------------------------------------------------------------
(* No prefilter loses a match.                                             *)

(* No path's prefilter loses a pattern that matches: the anchor literals   *)
(* never do, the trigrams do not for want of a capital sigma.              *)
LEMMA PrefiltersKeepMatches ==
  ASSUME CatalogInv, OracleInv, NEW i \in Patterns, NEW l \in Lines, Parses(pats[i], l) # {}
  PROVE  /\ i \in AnchorCandidates(l)
         /\ built /\ NoCapitalSigma => i \in TrigramCandidates(l)
<1>1. pats[i] \in Seq(Token)
  BY PatternsAreLowered
<1>2. l \in Seq(Byte)
  BY CatalogAssumption
<1>3. i \in AnchorCandidates(l)
  BY <1>1, <1>2, ParsesAreCandidates DEF AnchorCandidates
<1>4. ASSUME built, NoCapitalSigma PROVE i \in TrigramCandidates(l)
  <2> DEFINE T == TrigramsOf(pats[i])
             r == Rarest(freq, T)
             n == Len(pats)
  <2>1. n \in Nat /\ i \in 1 .. n
    BY CatalogNumbers
  <2>2. /\ Tallied /\ tallied = n /\ always_check = Bare(n)
        /\ \A t : t \in DOMAIN buckets <=> Under(t, n) # {}
        /\ \A t \in DOMAIN buckets : buckets[t] = Under(t, n)
    BY <1>4 DEF OracleInv, Filed
  <2>3. \A g \in T : g \in Trigrams(l)
    BY <1>4, MatchHoldsTrigrams
  <2>4. CASE T = {}
    <3>1. i \in always_check
      BY <2>1, <2>2, <2>4 DEF Bare
    <3>2. QED
      BY <3>1 DEF TrigramCandidates
  <2>5. CASE T # {}
    <3>1. r \in T
      BY <2>2, <2>5, HomeOfPattern
    <3>2. i \in Under(r, n)
      BY <2>1, <2>5 DEF Under
    <3>3. r \in Trigrams(l) \cap DOMAIN buckets /\ i \in buckets[r]
      BY <2>2, <2>3, <3>1, <3>2
    <3> HIDE DEF r
    <3>4. QED
      BY <3>3 DEF TrigramCandidates
  <2>6. QED
    BY <2>4, <2>5
<1>5. QED
  BY <1>3, <1>4

(* During a call every pattern that matches is still to come or is a hit.  *)
LEMMA NothingPrunedStep ==
  ASSUME ScannerInv, NothingPruned, [Next]_vars, NoCapitalSigma \/ path # "trigram"
  PROVE  NothingPruned'
<1>0. CatalogInv /\ CallInv /\ OracleInv
  BY DEF ScannerInv
<1>1. ASSUME FindCandidates PROVE NothingPruned'
  <2>1. /\ phase = "find" /\ path' = path /\ line' = line /\ UNCHANGED catalogVars
        /\ \/ path = "spec" /\ todo' = Ascending(AnchorCandidates(line))
           \/ path = "trigram" /\ todo' = Ascending(TrigramCandidates(line))
           \/ path = "regexset" /\ todo' = Ascending(SetCandidates(line))
    BY <1>1 DEF FindCandidates
  <2>2. Len(pats) \in Nat /\ Patterns = 1 .. Len(pats) /\ line \in Lines
        /\ (path # "spec" => built)
    BY <1>0, <2>1, CatalogNumbers DEF CallInv, OracleInv
  <2>3. PICK C \in SUBSET Patterns : /\ todo' = Ascending(C)
                                     /\ \A i \in Patterns : MatchedBy(path, i, line) => i \in C
    <3>1. \A i \in Patterns : MatchedBy(path, i, line) => Parses(pats[i], line) # {}
      BY <1>0, MatchIsParsed
    <3>2. CASE path = "spec"
      BY <1>0, <2>1, <2>2, <3>1, <3>2, CandidatesArePatterns, PrefiltersKeepMatches
    <3>3. CASE path = "trigram"
      BY <1>0, <2>1, <2>2, <3>1, <3>3, CandidatesArePatterns, PrefiltersKeepMatches
    <3>4. CASE path = "regexset"
      <4>1. \A i \in Patterns : MatchedBy(path, i, line) => i \in SetCandidates(line)
        BY <3>4 DEF SetCandidates
      <4>2. todo' = Ascending(SetCandidates(line))
        BY <2>1, <3>4
      <4>3. QED
        BY <1>0, <2>2, <4>1, <4>2, CandidatesArePatterns
    <3>5. QED
      BY <2>1, <3>2, <3>3, <3>4
  <2>4. \A i \in C : \E k \in DOMAIN todo' : todo'[k] = i
    BY <2>2, <2>3, AscendingSorts
  <2>5. Patterns' = Patterns /\ \A i : MatchedBy(path, i, line)' = MatchedBy(path, i, line)
    BY <2>1, CatalogStands
  <2>6. QED
    BY <2>3, <2>4, <2>5 DEF NothingPruned
<1>2. ASSUME UNCHANGED vars PROVE NothingPruned'
  <2>1. /\ phase' = phase /\ path' = path /\ line' = line /\ todo' = todo /\ hits' = hits
        /\ UNCHANGED catalogVars
    BY <1>2 DEF vars, callVars
  <2>2. Patterns' = Patterns /\ site_idx' = site_idx
        /\ \A i : MatchedBy(path, i, line)' = MatchedBy(path, i, line)
    BY <2>1, CatalogStands
  <2>3. QED
    BY <2>1, <2>2 DEF NothingPruned
<1>3. ASSUME phase' # "scan" PROVE NothingPruned'
  BY <1>3 DEF NothingPruned
<1>4. ASSUME Verify PROVE NothingPruned'
  <2> DEFINE h == Head(todo)
             hit == Hit(path, h, line)
  <2>1. /\ phase = "scan" /\ todo # <<>> /\ todo' = Tail(todo) /\ phase' = phase
        /\ path' = path /\ line' = line
        /\ hits' = IF MatchedBy(path, h, line) THEN Append(hits, hit) ELSE hits
        /\ UNCHANGED catalogVars
    BY <1>4 DEF Verify
  <2>2. Patterns' = Patterns /\ site_idx' = site_idx
        /\ \A i : MatchedBy(path, i, line)' = MatchedBy(path, i, line)
    BY <2>1, CatalogStands
  <2>3. todo \in Seq(Patterns) /\ hits \in Seq(HitsFor(path, line))
    BY <1>0, <2>1 DEF CallInv
  <2>4. \A k \in DOMAIN todo : todo[k] = h \/ (k - 1 \in DOMAIN todo' /\ todo'[k - 1] = todo[k])
    BY <2>1, <2>3
  <2>5. hit.site = site_idx[h]
    BY DEF Hit
  <2> HIDE DEF h, hit
  <2>6. \A k \in DOMAIN hits : k \in DOMAIN hits' /\ hits'[k] = hits[k]
    BY <2>1, <2>3
  <2>7. MatchedBy(path, h, line) => \E k \in DOMAIN hits' : hits'[k].site = site_idx[h]
    <3> SUFFICES ASSUME MatchedBy(path, h, line) PROVE \E k \in DOMAIN hits' : hits'[k].site = site_idx[h]
      OBVIOUS
    <3>1. hits' = Append(hits, hit)
      BY <2>1
    <3>2. Len(hits) + 1 \in DOMAIN hits' /\ hits'[Len(hits) + 1] = hit
      BY <2>3, <3>1
    <3>3. QED
      BY <2>5, <3>2
  <2>8. ASSUME NEW i \in Patterns, MatchedBy(path, i, line)
        PROVE  \/ \E k \in DOMAIN todo' : todo'[k] = i
               \/ \E k \in DOMAIN hits' : hits'[k].site = site_idx[i]
    <3>1. CASE \E k \in DOMAIN hits : hits[k].site = site_idx[i]
      BY <2>6, <3>1
    <3>2. CASE \E k \in DOMAIN todo : todo[k] = i
      BY <2>4, <2>7, <2>8, <3>2
    <3>3. QED
      BY <2>1, <2>8, <3>1, <3>2 DEF NothingPruned
  <2>9. QED
    BY <2>1, <2>2, <2>8 DEF NothingPruned
<1>5. CASE Build
  <2>1. phase' # "scan"
    BY <1>5 DEF Build, SkipNoText, RejectText, CompileSite, FinishBuild, Building, callVars
  <2>2. QED
    BY <1>3, <2>1
<1>6. CASE Call
  BY <1>3, <1>6 DEF Call, scan_line, scan_line_trigram, scan_line_regexset, Diagnose
<1>7. CASE MakeOracle
  <2>1. phase' # "scan"
    BY <1>7 DEF MakeOracle, TallyPattern, FilePattern, HaveOracle, Filing, Missing, callVars
  <2>2. QED
    BY <1>3, <2>1
<1>8. CASE Return
  BY <1>3, <1>8 DEF Return
<1>9. QED
  BY <1>1, <1>2, <1>4, <1>5, <1>6, <1>7, <1>8 DEF Next

-----------------------------------------------------------------------------
(* The promise.                                                            *)

(* The regular expressions of the promise are those of the scanner: a      *)
(* fragment, the parses, the preferred parse.                              *)
LEMMA OneSegment ==
  ASSUME NEW tok, NEW s, NEW a, NEW b
  PROVE  Promise!Segment(tok, s, a, b) <=> Segment(tok, s, a, b)
<1>1. \A x, p : Promise!Boundary(x, p) = Boundary(x, p)
  BY Zenon DEF Promise!Boundary, Boundary
<1>2. \A x, p, t : Promise!StartsWith(x, p, t) = StartsWith(x, p, t)
  BY Zenon DEF Promise!StartsWith, StartsWith
<1>3. \A x, c, d : Promise!Dots(x, c, d) = Dots(x, c, d)
  BY <1>1, Zenon DEF Promise!Dots, Dots
<1>4. \A C, x, c, d : Promise!RunOf(C, x, c, d) = RunOf(C, x, c, d)
  BY Zenon DEF Promise!RunOf, RunOf
<1>5. \A x, c, d : Promise!Digits(x, c, d) = Digits(x, c, d)
  BY <1>1, Zenon DEF Promise!Digits, Digits
<1>6. QED
  BY <1>2, <1>3, <1>4, <1>5 DEF Promise!Segment, Segment

(* The parses.                                                             *)
LEMMA OneParses ==
  ASSUME NEW toks \in Seq(Token), NEW s
  PROVE  Promise!Parses(toks, s) = Parses(toks, s)
<1> DEFINE other == CHOOSE f : f = [ i \in 0 .. Len(toks) |->
             IF i = 0 THEN {<<0>>}
             ELSE UNION { { Append(c, e) : e \in { x \in c[i] .. Len(s) :
                                                   Promise!Segment(toks[i], s, c[i], x) } }
                          : c \in f[i - 1] } ]
           Other(i, C) == UNION { { Append(c, e) : e \in { x \in c[i] .. Len(s) :
                                                   Promise!Segment(toks[i], s, c[i], x) } }
                          : c \in C }
<1>1. Promise!Parses(toks, s) = { c \in other[Len(toks)] : c[Len(c)] = Len(s) }
  BY DEF Promise!Parses
<1>2. \A i, C : Other(i, C) = Grown(toks, s, i, C)
  <2> SUFFICES ASSUME NEW i, NEW C PROVE Other(i, C) = Grown(toks, s, i, C)
    OBVIOUS
  <2>1. \A c, x : Promise!Segment(toks[i], s, c[i], x) <=> Segment(toks[i], s, c[i], x)
    BY OneSegment, Zenon
  <2>2. \A d : d \in Other(i, C) <=>
          \E c \in C : \E e \in c[i] .. Len(s) : Promise!Segment(toks[i], s, c[i], e) /\ d = Append(c, e)
    OBVIOUS
  <2>3. \A d : d \in Grown(toks, s, i, C) <=>
          \E c \in C : \E e \in c[i] .. Len(s) : Segment(toks[i], s, c[i], e) /\ d = Append(c, e)
    BY DEF Grown
  <2> HIDE DEF Other
  <2>4. \A d : d \in Other(i, C) <=> d \in Grown(toks, s, i, C)
    BY <2>1, <2>2, <2>3, Zenon
  <2>5. QED
    BY <2>4
<1>3. PICK partial :
           /\ partial[0] = {<<0>>}
           /\ \A i \in 1 .. Len(toks) : partial[i] = Grown(toks, s, i, partial[i - 1])
           /\ Parses(toks, s) = { c \in partial[Len(toks)] : c[Len(c)] = Len(s) }
  BY PartialParses
<1>4. Len(toks) \in Nat
  OBVIOUS
<1> DEFINE g == [ i \in 0 .. Len(toks) |-> partial[i] ]
<1>5. g = [ i \in 0 .. Len(toks) |-> IF i = 0 THEN {<<0>>} ELSE Other(i, g[i - 1]) ]
  <2> HIDE DEF Other
  <2>0. \A i \in 0 .. Len(toks) : g[i] = partial[i]
    OBVIOUS
  <2> HIDE DEF g
  <2>a. partial[0] = {<<0>>}
    BY <1>3
  <2>b. ASSUME NEW i \in 1 .. Len(toks) PROVE partial[i] = Other(i, g[i - 1])
    <3>1. i - 1 \in 0 .. Len(toks) /\ g[i - 1] = partial[i - 1]
      BY <1>4, <2>0
    <3>2. partial[i] = Grown(toks, s, i, partial[i - 1])
      BY <1>3
    <3>3. QED
      BY <1>2, <3>1, <3>2
  <2>1. \A i \in 0 .. Len(toks) : partial[i] = IF i = 0 THEN {<<0>>} ELSE Other(i, g[i - 1])
    <3> SUFFICES ASSUME NEW i \in 0 .. Len(toks), i # 0 PROVE partial[i] = Other(i, g[i - 1])
      BY <2>a
    <3>1. i \in 1 .. Len(toks)
      BY <1>4
    <3>2. QED
      BY <2>b, <3>1
  <2>2. QED
    BY <2>1 DEF g
<1> HIDE DEF g
<1>6. other = [ i \in 0 .. Len(toks) |-> IF i = 0 THEN {<<0>>} ELSE Other(i, other[i - 1]) ]
  BY <1>5
<1> HIDE DEF other, Other
<1>7. \A i \in 0 .. Len(toks) : other[i] = IF i = 0 THEN {<<0>>} ELSE Grown(toks, s, i, other[i - 1])
  BY <1>2, <1>6
<1> DEFINE P == { i \in 0 .. Len(toks) : other[i] = partial[i] }
<1>8. 0 \in P
  <2>1. 0 \in 0 .. Len(toks) /\ partial[0] = {<<0>>}
    BY <1>3, <1>4
  <2>2. other[0] = {<<0>>}
    BY <1>7, <2>1
  <2>3. QED
    BY <2>1, <2>2
<1>9. ASSUME NEW i \in 1 .. Len(toks), i - 1 \in P PROVE i \in P
  BY <1>3, <1>4, <1>7, <1>9
<1>10. other[Len(toks)] = partial[Len(toks)]
  <2> HIDE DEF P
  <2>1. \A i \in 0 .. Len(toks) : i \in P
    BY <1>4, <1>8, <1>9, Climbs, Zenon
  <2>2. Len(toks) \in P
    BY <1>4, <2>1
  <2>3. QED
    BY <2>2 DEF P
<1>11. QED
  BY <1>1, <1>3, <1>10

(* The preferred parse and its captures.                                   *)
LEMMA OneMeaning ==
  /\ \A s : \A p \in Seq(Token) : Promise!Captures(p, s) = Captures(p, s)
  /\ \A p, c : Promise!Spans(p, c) = Spans(p, c)
  /\ Promise!NoMatch = NoMatch
<1>1. Promise!NoMatch = NoMatch
  BY Zenon DEF Promise!NoMatch, NoMatch
<1>2. ASSUME NEW p \in Seq(Token), NEW s PROVE Promise!Captures(p, s) = Captures(p, s)
  <2> DEFINE first == [ all \in {Parses(p, s)} |->
                          IF all = {} THEN NoMatch
                          ELSE CHOOSE c \in all : \A d \in all \ {c} :
                            \E i \in 1 .. Len(p) :
                              /\ \A j \in 1 .. i : c[j] = d[j]
                              /\ IF p[i].kind \in {"Str", "Errno"} THEN c[i + 1] < d[i + 1] ELSE c[i + 1] > d[i + 1] ]
  <2>1. Promise!Parses(p, s) = Parses(p, s)
    BY OneParses
  <2>2. Captures(p, s) = first[Parses(p, s)]
    BY DEF Captures, Prefers, LazyKind
  <2>3. Promise!Captures(p, s) = first[Promise!Parses(p, s)]
    BY <1>1, <2>1 DEF Promise!Captures, Promise!Prefers, Promise!LazyKind
  <2> HIDE DEF first
  <2>4. QED
    BY <2>1, <2>2, <2>3
<1>3. \A p, c : Promise!Spans(p, c) = Spans(p, c)
  BY Zenon DEF Promise!Spans, Spans
<1>4. QED
  BY <1>1, <1>2, <1>3

(* What the oracle demands of pattern i's site is what the call has found. *)
LEMMA HitsAsPromised ==
  ASSUME CatalogInv, NoWideDigits, line \in Lines, NEW i \in Patterns
  PROVE  /\ Hit(path, i, line) = Promise!HitOf(site_idx[i])
         /\ MatchedBy(path, i, line) <=> Promise!Resolves(sites[site_idx[i]], line)
<1> DEFINE k == site_idx[i]
           low == lower_format[sites[k]]
<1>1. /\ sites[k] # NoText /\ low.ok /\ pats[i] = low.toks /\ literal_len[i] = low.literal_len
  BY PatternsAreLowered
<1>0. low.toks \in Seq(Token)
  BY <1>1 DEF CatalogInv, CatalogTyped, Patterns
<1>a. CapturesOn(path, i, line) = Captures(low.toks, line)
  BY <1>1, MatchIsParsed
<1>2. Hit(path, i, line) = [ site |-> k, literal_len |-> low.literal_len,
                             captures |-> Spans(low.toks, Captures(low.toks, line)) ]
  BY <1>1, <1>a DEF Hit
<1>3. Promise!HitOf(k) = [ site |-> k, literal_len |-> low.literal_len,
                           captures |-> Promise!Spans(low.toks, Promise!Captures(low.toks, line)) ]
  BY Zenon DEF Promise!HitOf
<1>4. MatchedBy(path, i, line) <=> Captures(low.toks, line) # NoMatch
  BY <1>a, Zenon DEF MatchedBy
<1>5. Promise!Resolves(sites[k], line) <=> Promise!Captures(low.toks, line) # Promise!NoMatch
  BY <1>1, Zenon DEF Promise!Resolves, Promise!Lowerable
<1> HIDE DEF low, k
<1>6. QED
  BY <1>0, <1>2, <1>3, <1>4, <1>5, OneMeaning, Zenon DEF k

(* The sites of patterns are the sites whose texts were lowered.           *)
LEMMA SitesOfPatterns ==
  ASSUME CatalogInv, phase # "build"
  PROVE  /\ \A i \in Patterns : site_idx[i] \in DOMAIN sites
         /\ \A j, i \in Patterns : site_idx[j] = site_idx[i] => j = i
         /\ \A k \in DOMAIN sites : Promise!Lowerable(sites[k]) => \E i \in Patterns : site_idx[i] = k
<1>1. DOMAIN sites = 1 .. Len(sites) /\ Accounted = Len(sites) /\ Patterns = 1 .. Len(pats)
      /\ Len(pats) \in Nat /\ Len(sites) \in Nat
  BY CatalogNumbers DEF CatalogInv, Reported
<1>2. /\ \A i \in Patterns : site_idx[i] \in Compiled(Accounted)
      /\ \A j, i \in Patterns : j < i => site_idx[j] < site_idx[i]
      /\ \A k \in Compiled(Accounted) : \E i \in Patterns : site_idx[i] = k
  BY DEF CatalogInv, Described
<1>3. \A k : k \in Compiled(Accounted) <=> k \in DOMAIN sites /\ Promise!Lowerable(sites[k])
  BY <1>1 DEF Compiled, Promise!Lowerable
<1>4. \A i \in Patterns : site_idx[i] \in DOMAIN sites /\ site_idx[i] \in Int
  BY <1>1, <1>2, <1>3
<1>5. \A j, i \in Patterns : site_idx[j] = site_idx[i] => j = i
  <2> SUFFICES ASSUME NEW j \in Patterns, NEW i \in Patterns, site_idx[j] = site_idx[i], j # i PROVE FALSE
    OBVIOUS
  <2>1. j < i \/ i < j
    BY <1>1
  <2>2. QED
    BY <1>2, <1>4, <2>1
<1>6. QED
  BY <1>2, <1>3, <1>4, <1>5

(* When every candidate has been verified, the sorted hits are the answer. *)
LEMMA AnswerIsRanking ==
  ASSUME CatalogInv, CallInv, NothingPruned, NoWideDigits, phase = "scan", todo = <<>>
  PROVE  Promise!IsRanking(StableSort(hits))
<1> DEFINE n == Len(hits)
           a == StableSort(hits)
           Found == { Promise!HitOf(i) : i \in { k \in DOMAIN sites : Promise!Resolves(sites[k], line) } }
<1>0. line \in Lines
  BY DEF CallInv
<1>1. hits \in Seq(HitsFor(path, line)) /\ InOrder /\ n \in Nat
  BY DEF CallInv
<1>2. \A h \in HitsFor(path, line) : \E i \in Patterns : MatchedBy(path, i, line) /\ h = Hit(path, i, line)
  BY DEF HitsFor
<1>3. \A x \in 1 .. n : \E i \in Patterns : MatchedBy(path, i, line) /\ hits[x] = Hit(path, i, line)
  BY <1>1, <1>2
<1>4. \A i \in Patterns : Hit(path, i, line).site = site_idx[i] /\ Hit(path, i, line).literal_len = literal_len[i]
  BY DEF Hit
<1>5. \A i \in Patterns : literal_len[i] \in Nat
  <2>1. literal_len \in Seq(Nat) /\ Len(literal_len) = Len(pats)
    BY DEF CatalogInv, CatalogTyped, Described
  <2>2. Patterns = 1 .. Len(pats)
    BY CatalogNumbers
  <2>3. QED
    BY <2>1, <2>2
<1>6. \A x \in 1 .. n : hits[x].literal_len \in Nat
  BY <1>3, <1>4, <1>5
<1>7. /\ a \in Seq(HitsFor(path, line)) /\ Len(a) = n
      /\ \E from \in [1 .. n -> 1 .. n] :
           /\ \A x \in 1 .. n : a[x] = hits[from[x]]
           /\ \A x \in 1 .. n : \E y \in 1 .. n : from[y] = x
           /\ \A y, z \in 1 .. n : y < z =>
                \/ hits[from[y]].literal_len > hits[from[z]].literal_len
                \/ hits[from[y]].literal_len = hits[from[z]].literal_len /\ from[y] < from[z]
  <2>1. \A x \in DOMAIN hits : hits[x].literal_len \in Nat
    BY <1>1, <1>6
  <2>2. QED
    BY <1>1, <2>1, StableSortSorts
<1>8. DOMAIN a = 1 .. n
  BY <1>7
<1> HIDE DEF a
<1>9. PICK from \in [1 .. n -> 1 .. n] :
           /\ \A x \in 1 .. n : a[x] = hits[from[x]]
           /\ \A x \in 1 .. n : \E y \in 1 .. n : from[y] = x
           /\ \A y, z \in 1 .. n : y < z =>
                \/ hits[from[y]].literal_len > hits[from[z]].literal_len
                \/ hits[from[y]].literal_len = hits[from[z]].literal_len /\ from[y] < from[z]
  BY <1>7
<1>10. \A j, k \in 1 .. n : j < k => hits[j].site < hits[k].site
  BY <1>1 DEF InOrder
<1> HIDE DEF n
<1>11. \A y \in 1 .. n : from[y] \in 1 .. n
  BY <1>9
<1>12. ASSUME NEW y \in 1 .. n PROVE a[y] \in Found
  <2>1. from[y] \in 1 .. n /\ a[y] = hits[from[y]]
    BY <1>9, <1>11
  <2> HIDE DEF Found
  <2>a. \E i \in Patterns : MatchedBy(path, i, line) /\ a[y] = Hit(path, i, line)
    BY <1>3, <2>1, Zenon
  <2>b. PICK i \in Patterns : MatchedBy(path, i, line) /\ a[y] = Hit(path, i, line)
    BY <2>a, Zenon
  <2>2. site_idx[i] \in DOMAIN sites /\ Promise!Resolves(sites[site_idx[i]], line)
        /\ a[y] = Promise!HitOf(site_idx[i])
    BY <1>0, <2>b, HitsAsPromised, SitesOfPatterns, Zenon
  <2>3. QED
    BY <2>2, Zenon DEF Found
<1>13. ASSUME NEW k \in DOMAIN sites, Promise!Resolves(sites[k], line)
       PROVE  \E y \in 1 .. n : a[y] = Promise!HitOf(k)
  <2>1. Promise!Lowerable(sites[k])
    BY <1>13, Zenon DEF Promise!Resolves
  <2>2. PICK i \in Patterns : site_idx[i] = k
    BY <2>1, SitesOfPatterns, Zenon
  <2>3. MatchedBy(path, i, line) /\ Hit(path, i, line) = Promise!HitOf(k)
    BY <1>0, <1>13, <2>2, HitsAsPromised, Zenon
  <2>4. PICK x \in 1 .. n : hits[x].site = site_idx[i]
    <3>1. DOMAIN todo = {} /\ DOMAIN hits = 1 .. n
      BY <1>1 DEF n
    <3>2. QED
      BY <2>3, <3>1 DEF NothingPruned
  <2>5. PICK j \in Patterns : hits[x] = Hit(path, j, line)
    BY <1>3
  <2>6. j = i
    BY <1>4, <2>4, <2>5, SitesOfPatterns
  <2>7. PICK y \in 1 .. n : from[y] = x
    BY <1>9
  <2>8. a[y] = Promise!HitOf(k)
    BY <1>9, <2>3, <2>5, <2>6, <2>7
  <2>9. QED
    BY <2>8
<1>14. { a[i] : i \in DOMAIN a } = Found
  <2>1. \A h \in Found : \E y \in 1 .. n : a[y] = h
    BY <1>13
  <2> HIDE DEF Found
  <2>2. QED
    BY <1>8, <1>12, <2>1
<1>15. ASSUME NEW i \in DOMAIN a, NEW j \in 1 .. i - 1 PROVE Promise!MoreSpecific(a[j], a[i])
  <2>1. i \in 1 .. n /\ j \in 1 .. n /\ j < i
    BY <1>1, <1>8
  <2> HIDE DEF Found
  <2>a. a[i] = hits[from[i]] /\ a[j] = hits[from[j]] /\ from[i] \in 1 .. n /\ from[j] \in 1 .. n
    BY <1>9, <1>11, <2>1, Zenon
  <2>b. \/ hits[from[j]].literal_len > hits[from[i]].literal_len
        \/ hits[from[j]].literal_len = hits[from[i]].literal_len /\ from[j] < from[i]
    BY <1>9, <2>1, Zenon
  <2>2. \/ a[j].literal_len > a[i].literal_len
        \/ a[j].literal_len = a[i].literal_len /\ from[j] < from[i]
    BY <2>a, <2>b, Zenon
  <2>3. from[j] < from[i] => a[j].site < a[i].site
    BY <1>10, <2>a, Zenon
  <2>4. QED
    BY <2>2, <2>3 DEF Promise!MoreSpecific
<1>16. QED
  BY <1>14, <1>15, Zenon DEF Promise!IsRanking, a

(* Every step of the scanner is a step of the promise or none: a call      *)
(* asks, Return replies.                                                   *)
LEMMA StepAsPromised ==
  ASSUME ScannerInv, NothingPruned, NoWideDigits, [Next]_vars
  PROVE  [Promise!Ask \/ Promise!Reply]_(Promise!oracleVars)
<1> DEFINE answer == [ ready |-> phase = "answered", hits |-> IF phase = "answered" THEN hits ELSE <<>> ]
<1>1. /\ Promise!Ask <=> line' \in Lines /\ answer' = Promise!Pending /\ UNCHANGED sites
      /\ Promise!Reply <=> /\ answer = Promise!Pending
                           /\ answer'.ready /\ Promise!IsRanking(answer'.hits)
                           /\ UNCHANGED <<sites, line>>
      /\ Promise!oracleVars = <<sites, line, answer>>
  BY DEF Promise!Ask, Promise!Reply, Promise!oracleVars
<1>0. sites' = sites /\ line' = line /\ answer' = answer => UNCHANGED Promise!oracleVars
  BY Zenon DEF Promise!oracleVars
<1>2. phase # "answered" => answer = Promise!Pending
  BY DEF Promise!Pending
<1>3. phase' # "answered" => answer' = Promise!Pending
  BY DEF Promise!Pending
<1>c. phase' = phase /\ hits' = hits => answer' = answer
  BY Zenon
<1> DEFINE Goal == Promise!Ask \/ Promise!Reply \/ UNCHANGED Promise!oracleVars
<1> SUFFICES Goal
  OBVIOUS
<1> HIDE DEF answer
<1>4. ASSUME sites' = sites, line' = line, phase' = phase, hits' = hits PROVE Goal
  BY <1>0, <1>c, <1>4, Zenon
<1>a. ASSUME phase # "answered", phase' # "answered", sites' = sites, line' = line PROVE Goal
  BY <1>0, <1>2, <1>3, <1>a, Zenon
<1>5. CASE Build
  <2>1. phase # "answered" /\ phase' # "answered" /\ sites' = sites /\ line' = line
    BY <1>5 DEF Build, SkipNoText, RejectText, CompileSite, FinishBuild, Building, callVars
  <2>2. QED
    BY <1>a, <2>1
<1>6. ASSUME NEW l \in Lines, scan_line(l) \/ scan_line_trigram(l) \/ scan_line_regexset(l) PROVE Goal
  <2>1. phase' # "answered" /\ line' = l /\ sites' = sites
    BY <1>6 DEF scan_line, scan_line_trigram, scan_line_regexset, Start, catalogVars
  <2>2. QED
    BY <1>1, <1>3, <2>1
<1>7. CASE Diagnose
  <2>1. phase' # "answered" /\ line' = line /\ sites' = sites
    BY <1>7 DEF Diagnose, Start, catalogVars
  <2>2. CASE phase = "answered"
    <3>1. line \in Lines
      BY <2>2 DEF ScannerInv, CallInv
    <3>2. QED
      BY <1>1, <1>3, <2>1, <3>1
  <2>3. CASE phase # "answered"
    BY <1>a, <2>1, <2>3
  <2>4. QED
    BY <2>2, <2>3
<1>8. CASE MakeOracle \/ FindCandidates \/ Verify
  <2>1. phase # "answered" /\ phase' # "answered" /\ line' = line /\ sites' = sites
    BY <1>8 DEF MakeOracle, TallyPattern, FilePattern, HaveOracle, FindCandidates, Verify,
                Filing, Missing, catalogVars, callVars
  <2>2. QED
    BY <1>a, <2>1
<1>9. CASE Return
  <2>1. /\ phase = "scan" /\ todo = <<>> /\ phase' = "answered" /\ hits' = StableSort(hits)
        /\ line' = line /\ sites' = sites
    BY <1>9 DEF Return, catalogVars
  <2>2. Promise!IsRanking(StableSort(hits))
    BY <2>1, AnswerIsRanking DEF ScannerInv
  <2>3. answer'.ready /\ answer'.hits = StableSort(hits)
    BY <2>1 DEF answer
  <2>4. QED
    BY <1>1, <1>2, <2>1, <2>2, <2>3
<1>10. CASE UNCHANGED vars
  BY <1>4, <1>10 DEF vars, callVars, catalogVars
<1>11. QED
  BY <1>5, <1>6, <1>7, <1>8, <1>9, <1>10 DEF Next, Call

-----------------------------------------------------------------------------
(* Theorems.                                                               *)

(* The invariant types every variable.                                     *)
LEMMA InvIsTyped == ScannerInv => TypeOK
<1> SUFFICES ASSUME ScannerInv PROVE TypeOK
  OBVIOUS
<1>1. CatalogTyped /\ CatalogInv /\ CallInv
  BY DEF ScannerInv, CatalogInv
<1>2. sites \in Seq(Text \cup {NoText})
  BY <1>1, CatalogNumbers
<1>3. /\ built \in BOOLEAN /\ tallied \in 0 .. Len(pats) /\ filed \in 0 .. tallied
      /\ always_check \subseteq Patterns /\ \A t \in DOMAIN buckets : buckets[t] \subseteq Patterns
  <2>1. Len(pats) \in Nat
    BY <1>1, CatalogNumbers
  <2>2. QED
    BY <2>1, FiledPatterns DEF ScannerInv, OracleInv
<1>4. ASSUME NEW k \in DOMAIN hits PROVE hits[k].site \in DOMAIN sites /\ hits[k].literal_len \in Nat
  <2>1. hits # <<>>
    BY <1>4
  <2>2. hits \in Seq(HitsFor(path, line))
    BY <1>1, <2>1 DEF CallInv, CatalogTyped, Phases
  <2>3. hits[k] \in HitsFor(path, line)
    BY <1>4, <2>2
  <2>4. PICK i \in Patterns : hits[k] = Hit(path, i, line)
    BY <2>3 DEF HitsFor
  <2>5. hits[k].site = site_idx[i] /\ hits[k].literal_len = literal_len[i]
    BY <2>4 DEF Hit
  <2>6. i \in 1 .. Len(site_idx) /\ i \in 1 .. Len(literal_len)
    BY <1>1 DEF CatalogInv, Described, Patterns
  <2>7. site_idx \in Seq(DOMAIN sites) /\ literal_len \in Seq(Nat)
    BY <1>1 DEF CatalogTyped
  <2>8. QED
    BY <2>5, <2>6, <2>7
<1>5. QED
  BY <1>1, <1>2, <1>3, <1>4 DEF TypeOK, CatalogTyped, Phases, CallInv, Paths

(* Every variable keeps its type: a pattern names a site of the catalog,   *)
(* a candidate a pattern, a hit a site.                                    *)
THEOREM TypeCorrect == Spec => []TypeOK
  BY ScannerInvariant, InvIsTyped, PTL

(* After any number of sites the build report splits them exactly, and     *)
(* the parallel vectors of the matcher describe the compiled ones, each    *)
(* once and in catalog order (Scanner::from_index).                        *)
THEOREM SitesAreAccounted == Spec => []SitesAccountedFor
<1>1. ScannerInv => SitesAccountedFor
  BY CatalogAccounts DEF ScannerInv
<1>2. QED
  BY <1>1, ScannerInvariant, PTL

(* Once the oracle side is there, the two loops have left each pattern in  *)
(* one place: always checked for want of a trigram, or in the one bucket   *)
(* of the trigram of its own that the fewest patterns hold                 *)
(* (build_oracle).                                                         *)
THEOREM EachFiledOnce == Spec => []FiledOnce
<1>1. ScannerInv => FiledOnce
  BY OracleFilesOnce DEF ScannerInv
<1>2. QED
  BY <1>1, ScannerInvariant, PTL

(* Before the build no call is in progress.                                *)
LEMMA BuildingPrunesNothing == Init => NothingPruned
  BY DEF Init, NothingPruned

(* If no literal of the catalog holds a capital sigma, no prefilter loses  *)
(* a match, on any of the three paths: during a call every pattern that    *)
(* the path's own verification accepts is still to be verified or is a     *)
(* hit.                                                                    *)
THEOREM NothingIsPruned ==
  ASSUME NoCapitalSigma
  PROVE  Spec => []NothingPruned
<1>1. ScannerInv /\ NothingPruned /\ [Next]_vars => NothingPruned'
  BY NothingPrunedStep
<1>2. QED
  BY <1>1, BuildingPrunesNothing, ScannerInvariant, PTL DEF Spec

(* At the start no answer is pending.                                      *)
LEMMA OracleStarts == Init => Promise!Init
  BY Zenon DEF Init, Promise!Init, Promise!Pending

(* If no literal of the catalog holds a capital sigma and no line a        *)
(* decimal digit that is not ASCII, all three paths return the ranked list *)
(* of hits that the regular expressions give, scan_line with its own       *)
(* verification: the scanner implements ScanOracle.                        *)
THEOREM PathsAgreeWithoutSigma ==
  ASSUME NoCapitalSigma, NoWideDigits
  PROVE  Spec => PathsAgree
<1>1. ScannerInv /\ NothingPruned /\ [Next]_vars => [Promise!Ask \/ Promise!Reply]_(Promise!oracleVars)
  BY StepAsPromised
<1>2. QED
  BY <1>1, OracleStarts, NothingIsPruned, ScannerInvariant, PTL DEF Spec, PathsAgree, Promise!ScanOracleSpec

(* The scanner of a caller that never takes the trigram path.              *)
NextWithoutTrigrams ==
  \/ Build
  \/ \E l \in Lines : scan_line(l) \/ scan_line_regexset(l)
  \/ Diagnose \/ MakeOracle \/ FindCandidates \/ Verify \/ Return

SpecWithoutTrigrams == Init /\ [][NextWithoutTrigrams]_vars

(* No call of such a caller is on that path.                               *)
NoTrigramCall == path # "trigram"

LEMMA NoTrigramCallStep == NoTrigramCall /\ [NextWithoutTrigrams]_vars => NoTrigramCall'
<1> SUFFICES ASSUME NoTrigramCall, [NextWithoutTrigrams]_vars PROVE NoTrigramCall'
  OBVIOUS
<1>1. CASE Build
  BY <1>1 DEF Build, SkipNoText, RejectText, CompileSite, FinishBuild, callVars, NoTrigramCall
<1>2. CASE \E l \in Lines : scan_line(l) \/ scan_line_regexset(l)
  BY <1>2 DEF scan_line, scan_line_regexset, Start, NoTrigramCall
<1>3. CASE Diagnose
  BY <1>3 DEF Diagnose, Start, NoTrigramCall
<1>4. CASE MakeOracle
  BY <1>4 DEF MakeOracle, TallyPattern, FilePattern, HaveOracle, callVars, NoTrigramCall
<1>5. CASE FindCandidates \/ Verify \/ Return \/ UNCHANGED vars
  BY <1>5 DEF FindCandidates, Verify, Return, vars, callVars, NoTrigramCall
<1>6. QED
  BY <1>1, <1>2, <1>3, <1>4, <1>5 DEF NextWithoutTrigrams

(* On lines without a decimal digit that is not ASCII, the path of         *)
(* scan_line and that of the RegexSet give the same answer whatever the    *)
(* texts of the catalog are: capital sigmas concern the trigrams alone.    *)
THEOREM TwoPathsAgree ==
  ASSUME NoWideDigits
  PROVE  SpecWithoutTrigrams => PathsAgree
<1>1. [NextWithoutTrigrams]_vars => [Next]_vars
  BY DEF NextWithoutTrigrams, Next, Call
<1>2. SpecWithoutTrigrams => []ScannerInv
  BY <1>1, ScannerInvariant, PTL DEF Spec, SpecWithoutTrigrams
<1>3. Init => NoTrigramCall
  BY DEF Init, NoTrigramCall
<1>4. ScannerInv /\ NothingPruned /\ NoTrigramCall /\ [NextWithoutTrigrams]_vars => NothingPruned'
  BY <1>1, NothingPrunedStep DEF NoTrigramCall
<1>5. ScannerInv /\ NothingPruned /\ [NextWithoutTrigrams]_vars
        => [Promise!Ask \/ Promise!Reply]_(Promise!oracleVars)
  BY <1>1, StepAsPromised
<1>6. QED
  BY <1>2, <1>3, <1>4, <1>5, NoTrigramCallStep, BuildingPrunesNothing, OracleStarts, PTL
     DEF SpecWithoutTrigrams, PathsAgree, Promise!ScanOracleSpec
=============================================================================
