-------------------------------- MODULE Scanner --------------------------------
(***************************************************************************)
(* Scanner of logref-core: built once from the sites of an index, then     *)
(* asked to resolve lines along any of its three paths:                    *)
(*   "spec"      candidates by anchor literal, verified by SpecMatcher     *)
(*   "trigram"   candidates by lowercased trigram, verified by regex       *)
(*   "regexset"  the patterns that match, from the RegexSet                *)
(* The last two need the oracle side, which the first call that needs it   *)
(* builds, pattern by pattern.  One thread does all of it.  A SpecMatcher  *)
(* verifies with ASCII digits (Ascii, the answer it is shown to implement),*)
(* a regex with the Unicode digits of \d.                                  *)
(***************************************************************************)
EXTENDS AnchorFilter, Sorting

CONSTANTS
  Text,           \* message texts that are not empty
  NoText,         \* the text of a site without a literal message
  lower_format,   \* [Text -> [ok, toks, literal_len]]
  Catalogs,       \* the indexes a scanner is built from: sequences of texts
  Lines,          \* the lines it is asked to resolve
  CodePoint,      \* [char -> Nat]: a number for every char
  LowerChar,      \* char::to_lowercase
  Cased,          \* the Unicode properties to_lowercase looks at
  CaseIgnorable,
  Sigma, SmallSigma, FinalSigma

ASSUME CatalogAssumption ==
  /\ NoText \notin Text
  /\ \A t \in Text : lower_format[t].ok =>
        IsPattern(lower_format[t].toks) /\ lower_format[t].literal_len \in Nat
  /\ \A c \in Catalogs : c \in Seq(Text \cup {NoText})
  /\ \A l \in Lines : l \in Seq(Byte) /\ WellFormed(l)

VARIABLES
  sites,         \* index.sites: the message text of each
  report,        \* BuildReport
  site_idx,      \* for each pattern, its site
  literal_len,   \*                   its specificity
  pats,          \*                   its tokens (also its regex and literals)
  built,         \* the oracle side is there (OnceLock)
  tallied, freq, \* its making: patterns counted, and in how many each trigram is
  filed,         \*             patterns filed
  buckets,       \* the patterns filed under a trigram
  always_check,  \* those that have none
  phase,         \* "build", "idle"; of a call: "oracle", "find", "scan", "answered"
  path, line,    \* the call in progress; the path "count" is that of a diagnostic
  todo,          \* candidates still to verify, ascending
  hits           \* the result

catalogVars == <<sites, report, site_idx, literal_len, pats>>
oracleVars == <<built, tallied, freq, filed, buckets, always_check>>
callVars == <<phase, path, line, todo, hits>>
vars == <<catalogVars, oracleVars, callVars>>

(* The patterns as SpecMatcher reads them: \d is '0' ..= '9'.              *)
Ascii == INSTANCE PrintfPattern WITH WideDigit <- {}

Patterns == 1 .. Len(pats)
Accounted == report.no_text + report.lower_failed + Len(pats)

-----------------------------------------------------------------------------
(* str::to_lowercase and the trigrams of its result.                       *)
Concat(parts) ==
  LET upto[i \in 0 .. Len(parts)] == IF i = 0 THEN <<>> ELSE upto[i - 1] \o parts[i]
  IN upto[Len(parts)]

Chars(s) ==
  Concat([ p \in 1 .. Len(s) |-> IF s[p] \in Cont THEN <<>>
                                ELSE <<SubSeq(s, p, p + Width[s[p]] - 1)>> ])

(* The nearest char before or after i that is not case-ignorable is cased. *)
CasedBefore(c, i) ==
  \E j \in 1 .. i - 1 : /\ c[j] \in Cased \ CaseIgnorable
                        /\ \A k \in j + 1 .. i - 1 : c[k] \in CaseIgnorable

CasedAfter(c, i) ==
  \E j \in i + 1 .. Len(c) : /\ c[j] \in Cased \ CaseIgnorable
                             /\ \A k \in i + 1 .. j - 1 : c[k] \in CaseIgnorable

(* A sigma that ends a word has a lowercase form of its own.               *)
WordFinal(c, i) == CasedBefore(c, i) /\ ~CasedAfter(c, i)

Lowercase(c) ==
  Concat([ i \in 1 .. Len(c) |->
             IF c[i] = Sigma THEN <<IF WordFinal(c, i) THEN FinalSigma ELSE SmallSigma>>
             ELSE LowerChar[c[i]] ])

(* A text consists of chars, and so does its lowercase.                    *)
ASSUME CharAssumption ==
  LET Char == DOMAIN CodePoint
  IN /\ CodePoint \in [Char -> Nat]
     /\ \A c, d \in Char : CodePoint[c] = CodePoint[d] => c = d
     /\ {SmallSigma, FinalSigma} \subseteq Char
     /\ LowerChar \in [Char -> Seq(Char)]
     /\ \A l \in Lines : Chars(l) \in Seq(Char)
     /\ \A t \in Text : lower_format[t].ok =>
          \A i \in LiteralIndexes(lower_format[t].toks) :
             Chars(lower_format[t].toks[i].text) \in Seq(Char)

(* push_trigrams and the windows of candidate_indices.                     *)
Trigrams(s) ==
  LET lower == Lowercase(Chars(s))
  IN { SubSeq(lower, k, k + 2) : k \in 1 .. Len(lower) - 2 }

TrigramBelow(t, u) ==
  \E i \in 1 .. 3 : /\ \A j \in 1 .. i - 1 : t[j] = u[j]
                    /\ CodePoint[t[i]] < CodePoint[u[i]]

TrigramsOf(p) == UNION { Trigrams(p[i].text) : i \in LiteralIndexes(p) }

(* t comes before u in the order of rarity that the counts give.           *)
Rarer(count, t, u) == count[t] < count[u] \/ (count[t] = count[u] /\ TrigramBelow(t, u))

Rarest(count, T) == CHOOSE t \in T : \A u \in T \ {t} : Rarer(count, t, u)

-----------------------------------------------------------------------------
Init ==
  /\ sites \in Catalogs
  /\ report = [total |-> Len(sites), no_text |-> 0, lower_failed |-> 0, compiled |-> 0]
  /\ site_idx = <<>> /\ literal_len = <<>> /\ pats = <<>>
  /\ built = FALSE /\ tallied = 0 /\ freq = <<>> /\ filed = 0
  /\ buckets = <<>> /\ always_check = {}
  /\ phase = "build" /\ path = "count" /\ line = <<>> /\ todo = <<>> /\ hits = <<>>

(* The site the build loop is at.                                          *)
idx == Accounted + 1
Building == phase = "build" /\ idx <= Len(sites)

SkipNoText ==
  /\ Building /\ sites[idx] = NoText
  /\ report' = [report EXCEPT !.no_text = @ + 1]
  /\ UNCHANGED <<sites, site_idx, literal_len, pats, oracleVars, callVars>>

RejectText ==
  /\ Building /\ sites[idx] # NoText /\ ~lower_format[sites[idx]].ok
  /\ report' = [report EXCEPT !.lower_failed = @ + 1]
  /\ UNCHANGED <<sites, site_idx, literal_len, pats, oracleVars, callVars>>

(* Faulty: sites counted from one as the next to come.                     *)
CompileSiteOffByOne ==
  /\ Building /\ sites[idx] # NoText /\ lower_format[sites[idx]].ok
  /\ site_idx' = Append(site_idx, idx + 1)
  /\ literal_len' = Append(literal_len, lower_format[sites[idx]].literal_len)
  /\ pats' = Append(pats, lower_format[sites[idx]].toks)
  /\ UNCHANGED <<sites, report, oracleVars, callVars>>

(* Faulty: the pattern's own number is recorded as its site.               *)
CompileSiteMisaligned ==
  /\ Building /\ sites[idx] # NoText /\ lower_format[sites[idx]].ok
  /\ site_idx' = Append(site_idx, Len(pats) + 1)
  /\ literal_len' = Append(literal_len, lower_format[sites[idx]].literal_len)
  /\ pats' = Append(pats, lower_format[sites[idx]].toks)
  /\ UNCHANGED <<sites, report, oracleVars, callVars>>

CompileSite ==
  /\ Building /\ sites[idx] # NoText /\ lower_format[sites[idx]].ok
  /\ site_idx' = Append(site_idx, idx)
  /\ literal_len' = Append(literal_len, lower_format[sites[idx]].literal_len)
  /\ pats' = Append(pats, lower_format[sites[idx]].toks)
  /\ UNCHANGED <<sites, report, oracleVars, callVars>>

FinishBuild ==
  /\ phase = "build" /\ idx > Len(sites)
  /\ report' = [report EXCEPT !.compiled = Len(pats)]
  /\ phase' = "idle"
  /\ UNCHANGED <<sites, site_idx, literal_len, pats, oracleVars, path, line, todo, hits>>

-----------------------------------------------------------------------------
(* The oracle side.                                                        *)
Missing == phase = "oracle" /\ ~built

(* Adds n(t) to the count of every trigram t of T.                         *)
Counted(T, n(_)) ==
  [ t \in DOMAIN freq \cup T |-> (IF t \in DOMAIN freq THEN freq[t] ELSE 0)
                                + (IF t \in T THEN n(t) ELSE 0) ]

(* Faulty: a trigram counts as often as the literals of the pattern hold   *)
(* it (no dedup).                                                          *)
TallyUndeduped ==
  LET p == pats[tallied + 1]
      holding(t) == Cardinality({ i \in LiteralIndexes(p) : t \in Trigrams(p[i].text) })
  IN /\ Missing /\ tallied < Len(pats)
     /\ freq' = Counted(TrigramsOf(p), holding) /\ tallied' = tallied + 1
     /\ UNCHANGED <<catalogVars, built, filed, buckets, always_check, callVars>>

(* The next pattern's trigrams, each once, go into the counts.             *)
TallyPattern ==
  LET once(t) == 1
  IN /\ Missing /\ tallied < Len(pats)
     /\ freq' = Counted(TrigramsOf(pats[tallied + 1]), once) /\ tallied' = tallied + 1
     /\ UNCHANGED <<catalogVars, built, filed, buckets, always_check, callVars>>

(* buckets.entry(t).or_default().push(i)                                   *)
FileUnder(t, i) ==
  buckets' = [ u \in DOMAIN buckets \cup {t} |->
                 (IF u \in DOMAIN buckets THEN buckets[u] ELSE {}) \cup (IF u = t THEN {i} ELSE {}) ]

Filing == Missing /\ tallied = Len(pats) /\ filed < Len(pats)

(* Faulty: a pattern without a trigram is left out.                        *)
FilePatternForgetful ==
  LET i == filed + 1
      T == TrigramsOf(pats[i])
  IN /\ Filing /\ filed' = i /\ UNCHANGED always_check
     /\ IF T = {} THEN UNCHANGED buckets ELSE FileUnder(Rarest(freq, T), i)
     /\ UNCHANGED <<catalogVars, built, tallied, freq, callVars>>

(* Once all are counted, the next pattern goes where it is looked for.     *)
FilePattern ==
  LET i == filed + 1
      T == TrigramsOf(pats[i])
  IN /\ Filing /\ filed' = i
     /\ \/ T = {} /\ always_check' = always_check \cup {i} /\ UNCHANGED buckets
        \/ T # {} /\ FileUnder(Rarest(freq, T), i) /\ UNCHANGED always_check
     /\ UNCHANGED <<catalogVars, built, tallied, freq, callVars>>

(* get_or_init returns to the call, for the first time or a later one.     *)
HaveOracle ==
  /\ phase = "oracle" /\ (built \/ (tallied = Len(pats) /\ filed = Len(pats)))
  /\ built' = TRUE /\ phase' = IF path = "count" THEN "idle" ELSE "find"
  /\ UNCHANGED <<catalogVars, tallied, freq, filed, buckets, always_check, path, line, todo, hits>>

MakeOracle == TallyPattern \/ FilePattern \/ HaveOracle

-----------------------------------------------------------------------------
(* The captures of pattern i on line l along path w.                       *)
CapturesOn(w, i, l) == IF w = "spec" THEN Ascii!Captures(pats[i], l) ELSE Captures(pats[i], l)

MatchedBy(w, i, l) == CapturesOn(w, i, l) # NoMatch

(* SpecMatcher::candidates.                                                *)
AnchorCandidates(l) == { i \in Patterns : IsCandidate(pats[i], l) }

(* Scanner::candidate_indices.                                             *)
TrigramCandidates(l) ==
  always_check \cup UNION { buckets[t] : t \in Trigrams(l) \cap DOMAIN buckets }

(* RegexSet::matches.                                                      *)
SetCandidates(l) == { i \in Patterns : MatchedBy("regexset", i, l) }

Ready == phase \in {"idle", "answered"}

Start(w, l) ==
  /\ Ready /\ path' = w /\ line' = l /\ todo' = <<>> /\ hits' = <<>>
  /\ UNCHANGED <<catalogVars, oracleVars>>

scan_line(l) == Start("spec", l) /\ phase' = "find"

scan_line_trigram(l) == Start("trigram", l) /\ phase' = "oracle"

scan_line_regexset(l) == Start("regexset", l) /\ phase' = "oracle"

(* always_check_count and candidate_count need the oracle side too.        *)
Diagnose == Start("count", line) /\ phase' = "oracle"

(* The candidates of a call, in ascending order.                           *)
FindCandidates ==
  /\ phase = "find" /\ phase' = "scan"
  /\ \/ path = "spec" /\ todo' = Ascending(AnchorCandidates(line))
     \/ path = "trigram" /\ todo' = Ascending(TrigramCandidates(line))
     \/ path = "regexset" /\ todo' = Ascending(SetCandidates(line))
  /\ UNCHANGED <<catalogVars, oracleVars, path, line, hits>>

Spans(p, cut) ==
  [ i \in { k \in 1 .. Len(p) : p[k].kind # "Lit" } |-> <<cut[i], cut[i + 1]>> ]

(* The MatchHit of pattern i on line l.                                    *)
Hit(w, i, l) == [ site |-> site_idx[i], literal_len |-> literal_len[i],
                  captures |-> Spans(pats[i], CapturesOn(w, i, l)) ]

(* verify: one candidate becomes a hit or is dropped.                      *)
Verify ==
  LET i == Head(todo)
  IN /\ phase = "scan" /\ todo # <<>> /\ todo' = Tail(todo)
     /\ hits' = IF MatchedBy(path, i, line) THEN Append(hits, Hit(path, i, line)) ELSE hits
     /\ UNCHANGED <<catalogVars, oracleVars, phase, path, line>>

(* Faulty: hits of equal specificity come out in reverse order.            *)
StableSortReversed(h) ==
  LET order == { e \in (DOMAIN h) \X (DOMAIN h) :
                   \/ h[e[1]].literal_len > h[e[2]].literal_len
                   \/ h[e[1]].literal_len = h[e[2]].literal_len /\ e[1] > e[2] }
      from == Ranked(DOMAIN h, order)
  IN [ k \in DOMAIN h |-> h[from[k]] ]

(* sort_by_key(Reverse(literal_len)): a stable sort.                       *)
StableSort(h) ==
  LET order == { e \in (DOMAIN h) \X (DOMAIN h) :
                   \/ h[e[1]].literal_len > h[e[2]].literal_len
                   \/ h[e[1]].literal_len = h[e[2]].literal_len /\ e[1] < e[2] }
      from == Ranked(DOMAIN h, order)
  IN [ k \in DOMAIN h |-> h[from[k]] ]

Return ==
  /\ phase = "scan" /\ todo = <<>>
  /\ phase' = "answered" /\ hits' = StableSort(hits)
  /\ UNCHANGED <<catalogVars, oracleVars, path, line, todo>>

Build == SkipNoText \/ RejectText \/ CompileSite \/ FinishBuild

Call == \/ \E l \in Lines : scan_line(l) \/ scan_line_trigram(l) \/ scan_line_regexset(l)
        \/ Diagnose

Next == Build \/ Call \/ MakeOracle \/ FindCandidates \/ Verify \/ Return

Spec == Init /\ [][Next]_vars

-----------------------------------------------------------------------------
TypeOK ==
  /\ sites \in Seq(Text \cup {NoText})
  /\ report \in [total : Nat, no_text : Nat, lower_failed : Nat, compiled : Nat]
  /\ site_idx \in Seq(DOMAIN sites) /\ literal_len \in Seq(Nat)
  /\ pats \in Seq(Seq(Token))
  /\ phase \in {"build", "idle", "oracle", "find", "scan", "answered"}
  /\ path \in {"spec", "trigram", "regexset", "count"}
  /\ built \in BOOLEAN /\ tallied \in 0 .. Len(pats) /\ filed \in 0 .. tallied
  /\ always_check \subseteq Patterns /\ \A t \in DOMAIN buckets : buckets[t] \subseteq Patterns
  /\ todo \in Seq(Patterns)
  /\ \A k \in DOMAIN hits : hits[k].site \in DOMAIN sites /\ hits[k].literal_len \in Nat

(* "Every site is accounted for exactly once across these buckets"         *)
(* (scan.rs:431): after any number of sites the report splits them by the  *)
(* reason each was skipped or compiled, and the parallel vectors describe  *)
(* the compiled sites, each once, in catalog order.                        *)
SitesAccountedFor ==
  LET done == 1 .. Accounted
      textless == { i \in done : sites[i] = NoText }
      rejected == { i \in done : sites[i] # NoText /\ ~lower_format[sites[i]].ok }
  IN /\ Accounted <= report.total /\ report.total = Len(sites)
     /\ Len(site_idx) = Len(pats) /\ Len(literal_len) = Len(pats)
     /\ report.no_text = Cardinality(textless)
     /\ report.lower_failed = Cardinality(rejected)
     /\ { site_idx[i] : i \in Patterns } = done \ (textless \cup rejected)
     /\ \A i \in Patterns : /\ \A j \in 1 .. i - 1 : site_idx[j] < site_idx[i]
                            /\ pats[i] = lower_format[sites[site_idx[i]]].toks
                            /\ literal_len[i] = lower_format[sites[site_idx[i]]].literal_len
     /\ phase # "build" =>
          /\ Accounted = report.total
          /\ report.total = report.no_text + report.lower_failed + report.compiled

(* Neither prefilter loses a match: during a scan, every pattern that the  *)
(* path's own verification accepts is still to be verified or already a    *)
(* hit.                                                                    *)
NothingPruned ==
  phase = "scan" =>
    \A i \in Patterns : MatchedBy(path, i, line) =>
       \/ \E k \in DOMAIN todo : todo[k] = i
       \/ \E k \in DOMAIN hits : hits[k].site = site_idx[i]

(* The two loops leave every pattern in one place (scan.rs:880-884): in    *)
(* always_check and no bucket if no literal has three chars, else in one   *)
(* bucket and not in always_check, under the trigram of its own that the   *)
(* fewest patterns hold, the smallest of those (scan.rs:1031-1032).        *)
FiledOnce ==
  built =>
    LET Freq == [ t \in UNION { TrigramsOf(pats[i]) : i \in Patterns } |->
                    Cardinality({ i \in Patterns : t \in TrigramsOf(pats[i]) }) ]
    IN \A i \in Patterns :
         LET T == TrigramsOf(pats[i])
             under == { t \in DOMAIN buckets : i \in buckets[t] }
         IN IF T = {} THEN i \in always_check /\ under = {}
            ELSE /\ i \notin always_check
                 /\ \E t \in T : under = {t} /\ \A u \in T \ {t} : Rarer(Freq, t, u)

(* The three paths give the answer the regular expressions give, in the    *)
(* same order (scan.rs:1136-1138): along the path of scan_line only on     *)
(* lines without a decimal digit that is not ASCII.                        *)
Promise == INSTANCE ScanOracle
  WITH answer <- [ ready |-> phase = "answered",
                   hits  |-> IF phase = "answered" THEN hits ELSE <<>> ]
PathsAgree == Promise!ScanOracleSpec
===============================================================================
