----------------------------- MODULE LinePipeline -----------------------------
(***************************************************************************)
(* The way of a log line through the site: the index of the reference      *)
(* pages is built, shipped and numbered by the wasm scanner; a batch of    *)
(* lines loses its log prefixes, is scanned into one flat buffer of        *)
(* numbers, read back on the other side of the boundary, and labelled.     *)
(*                                                                         *)
(* The scanner's answer for a line is that of ScanOracle, which Scanner    *)
(* implements.  A raw line carries as a history the message that was       *)
(* logged.  Sites are numbered from 0 and the buffer from 1.               *)
(***************************************************************************)
EXTENDS PrintfPattern, SequencesExt, Sorting

CONSTANTS
  Message,       \* message texts of pages
  lower_format,  \* [Message -> [ok, toks, literal_len, groups]]
  SlugRank,      \* localeCompare, as a rank of every slug
  Catalogs,      \* sequences of pages [slug, message]
  Batches,       \* sequences of raw lines [text, message]
  Level,         \* the atoms that are severity words, one byte each here
  WordChar,      \* \w
  Stamp,         \* a date and the blank or T behind it, one byte here
  StampChar,     \* [\d:.,+-]
  Ascii,         \* the bytes below 0x80
  Bom,           \* the text U+FEFF
  I32            \* 2^32, scaled down

(* The spec tokens; each is a capture group of the pattern.                *)
Specs(toks) == { k \in DOMAIN toks : toks[k].kind # "Lit" }

(* What lower_format returns: a label for each group, and a literal token  *)
(* when it counts a literal char.                                          *)
ASSUME LoweredAssumption ==
  \A m \in Message : lower_format[m].ok =>
    LET low == lower_format[m]
    IN /\ IsPattern(low.toks)
       /\ DOMAIN low.groups = 1 .. Cardinality(Specs(low.toks))
       /\ low.literal_len \in Nat
       /\ low.literal_len > 0 => \E k \in DOMAIN low.toks : low.toks[k].kind = "Lit"

(* A slug is the name of a page's file, and localeCompare tells any two    *)
(* apart.                                                                  *)
ASSUME PagesAssumption ==
  /\ \A s \in DOMAIN SlugRank : SlugRank[s] \in Nat
  /\ \A pages \in Catalogs :
       /\ pages \in Seq([slug : DOMAIN SlugRank, message : Message])
       /\ \A i, j \in DOMAIN pages : SlugRank[pages[i].slug] = SlugRank[pages[j].slug] => i = j

ASSUME TextAssumption ==
  /\ Batches \subseteq Seq([text : Seq(Byte), message : Seq(Byte)])
  /\ Ascii \subseteq Byte \ Cont /\ \A b \in Ascii : Width[b] = 1
  /\ Bom \in Seq(Byte) \ {<<>>} /\ Bom[1] \notin Ascii

(* Nothing in the memory of a wasm module has more than isize::MAX bytes,  *)
(* which is the largest i32.                                               *)
ASSUME SizeAssumption ==
  /\ I32 \in Nat /\ I32 % 2 = 0
  /\ \A pages \in Catalogs : Len(pages) < I32 \div 2
  /\ \A batch \in Batches : \A k \in DOMAIN batch : Len(batch[k].text) < I32 \div 2
  /\ \A m \in Message : lower_format[m].ok =>
       lower_format[m].literal_len < I32 \div 2 /\ Len(lower_format[m].toks) < I32 \div 2

VARIABLES
  docs, raws,   \* the input
  phase,        \* "index", "pack", "decode", "done"
  scored,       \* withScore: the pages that can be scanned for
  report,       \* PatternReport
  sites,        \* the shipped index
  scanner,      \* the messages of the scanner's sites, by number
  buf, marks,   \* the packed buffer; its length after each line (a history)
  p, left,      \* the reader's cursor and the hits it expects
  decoded,      \* per line, the hits read so far
  results       \* per line, what the page shows

vars == <<docs, raws, phase, scored, report, sites, scanner, buf, marks, p, left, decoded, results>>

Space == {" ", Newline}
Marker(t, k) ==
  /\ t[k] \in Level /\ k + 2 <= Len(t) /\ t[k + 1] = ":" /\ t[k + 2] \in Space
  /\ k > 1 => t[k - 1] \notin WordChar

Trim(t) ==
  LET ink == { k \in DOMAIN t : t[k] \notin Space }
  IN IF ink = {} THEN <<>> ELSE SubSeq(t, Min(ink), Max(ink))

(* Faulty: the first marker wins.                                          *)
stripLogPrefixFirst(t) ==
  LET markers == { k \in DOMAIN Trim(t) : Marker(Trim(t), k) }
  IN IF markers = {} THEN [core |-> Trim(t), level |-> {}]
     ELSE [core |-> Trim(SubSeq(t, Min(markers) + 2, Len(t))), level |-> {t[Min(markers)]}]

(* Where a run of chars of C that begins at a ends: at a if there is none. *)
PastRun(C, t, a) == Min({ e \in a .. Len(t) : e = Len(t) \/ t[e + 1] \notin C })

(* (?:\s+\w+)? meant for the time zone, and (?:\[\d+\])?                   *)
PastZone(t, a) ==
  LET blank == PastRun(Space, t, a)
      word == PastRun(WordChar, t, blank)
  IN IF blank > a /\ word > blank THEN word ELSE a

Pid(t, a, b) == t[a + 1] = "[" /\ RunOf(Digit, t, a + 1, b - 1) /\ t[b] = "]"
HasPid(t, a) == \E b \in a + 1 .. Len(t) : Pid(t, a, b)
PastPid(t, a) == IF HasPid(t, a) THEN CHOOSE b \in a + 1 .. Len(t) : Pid(t, a, b) ELSE a

(* The end of a leading timestamp, its zone and pid.                       *)
PastStamp(t) ==
  LET run == PastRun(StampChar, t, 1)
      pid == PastPid(t, PastRun(Space, t, PastZone(t, run)))
  IN IF t # <<>> /\ t[1] = Stamp /\ run > 1 THEN PastRun(Space, t, pid) ELSE 0

(* What follows the last LEVEL: marker, or else a leading timestamp.  The  *)
(* line is trimmed on the right first, so a marker has text behind it.     *)
stripLogPrefix(t) ==
  LET ink == { k \in DOMAIN t : t[k] \notin Space }
      trimmed == IF ink = {} THEN <<>> ELSE SubSeq(t, 1, Max(ink))
      markers == { k \in DOMAIN trimmed : Marker(trimmed, k) }
  IN IF markers # {}
     THEN [core |-> Trim(SubSeq(trimmed, Max(markers) + 2, Len(trimmed))), level |-> {t[Max(markers)]}]
     ELSE [core |-> Trim(SubSeq(trimmed, PastStamp(trimmed) + 1, Len(trimmed))), level |-> {}]

(* A timestamp, a zone that is a word or an offset set off by a blank or   *)
(* no zone of its own, a pid in brackets or none, and blanks.              *)
Zones == {"none", "word", "offset"}
Timestamped(t, n, zone, pid) ==
  \E a, z, d \in 2 .. n :
    /\ t[1] = Stamp /\ RunOf(StampChar, t, 1, a)
    /\ IF zone = "none" THEN z = a
       ELSE \E b \in a + 1 .. z :
              /\ RunOf(Space, t, a, b)
              /\ zone = "word" => RunOf(WordChar, t, b, z)
              /\ zone = "offset" => t[b + 1] \in {"+", "-"} /\ RunOf(Digit, t, b + 1, z)
    /\ IF pid THEN \E b \in z .. d : (z = b \/ RunOf(Space, t, z, b)) /\ Pid(t, b, d) ELSE d = z
    /\ RunOf(Space, t, d, n)

(* How a line is logged: the message has no blanks around it, and stands   *)
(* behind nothing, a timestamp, or whatever ends with a LEVEL: marker.     *)
Prefixed(t, n) ==
  \/ n = 0 /\ t[1] # Stamp
  \/ \E zone \in Zones, pid \in BOOLEAN : Timestamped(t, n, zone, pid)
  \/ \E q \in 1 .. n - 2 : Marker(t, q) /\ \A k \in q + 2 .. n : t[k] \in Space

ASSUME LoggedAssumption ==
  /\ Level \cap (Space \cup StampChar \cup {":", Stamp}) = {}
  /\ (Space \cup {"["}) \cap (StampChar \cup WordChar) = {} /\ "[" \notin Space
  /\ ":" \notin Space \cup WordChar \cup Digit /\ "]" \notin Digit
  /\ \A batch \in Batches : \A k \in DOMAIN batch :
       LET t == batch[k].text
           m == batch[k].message
       IN /\ m # <<>> /\ m[1] \notin Space /\ m[Len(m)] \notin Space
          /\ \E n \in 0 .. Len(t) - 1 : m = SubSeq(t, n + 1, Len(t)) /\ Prefixed(t, n)

cores == [ k \in DOMAIN raws |-> stripLogPrefix(raws[k].text).core ]

-----------------------------------------------------------------------------
(* The index.                                                              *)
Init ==
  /\ docs \in Catalogs /\ raws \in Batches
  /\ phase = "index" /\ scored = <<>> /\ sites = <<>> /\ scanner = <<>>
  /\ report = [total |-> 0, lowerFailed |-> 0, compiled |-> 0, catchAlls |-> 0]
  /\ buf = <<>> /\ marks = <<0>> /\ p = 1 /\ left = 0 /\ decoded = <<>> /\ results = <<>>

doc == docs[report.total + 1]
lowered == lower_format[doc.message]
Indexing ==
  /\ phase = "index" /\ report.total < Len(docs)
  /\ UNCHANGED <<docs, raws, phase, sites, scanner, buf, marks, p, left, decoded, results>>

(* Faulty: a page without literal text is indexed like any other.          *)
KeepCatchAll ==
  /\ Indexing /\ lowered.ok /\ lowered.literal_len = 0
  /\ report' = [report EXCEPT !.total = @ + 1, !.compiled = @ + 1]
  /\ scored' = Append(scored, [doc |-> doc, groups |-> lowered.groups, literalLen |-> 0])

HoldCatchAll ==
  /\ Indexing /\ lowered.ok /\ lowered.literal_len = 0
  /\ report' = [report EXCEPT !.total = @ + 1, !.catchAlls = @ + 1]
  /\ UNCHANGED scored

SkipUnlowered ==
  /\ Indexing /\ ~lowered.ok
  /\ report' = [report EXCEPT !.total = @ + 1, !.lowerFailed = @ + 1]
  /\ UNCHANGED scored

IndexDoc ==
  /\ Indexing /\ lowered.ok /\ lowered.literal_len > 0
  /\ report' = [report EXCEPT !.total = @ + 1, !.compiled = @ + 1]
  /\ scored' = Append(scored, [doc |-> doc, groups |-> lowered.groups, literalLen |-> lowered.literal_len])

MoreSpecific(a, b) ==
  \/ a.literalLen > b.literalLen
  \/ a.literalLen = b.literalLen /\ SlugRank[a.doc.slug] < SlugRank[b.doc.slug]

(* Array.sort is stable.                                                   *)
Sorted(pages) ==
  LET order == { e \in (DOMAIN pages) \X (DOMAIN pages) :
                   \/ MoreSpecific(pages[e[1]], pages[e[2]])
                   \/ ~MoreSpecific(pages[e[2]], pages[e[1]]) /\ e[1] < e[2] }
      from == Ranked(DOMAIN pages, order)
  IN [ k \in DOMAIN pages |-> pages[from[k]] ]

(* Faulty: the scanner is built from the index before it was sorted.       *)
ShipIndexUnsorted ==
  /\ phase = "index" /\ report.total = Len(docs)
  /\ sites' = Sorted(scored)
  /\ scanner' = [ k \in DOMAIN scored |-> scored[k].doc.message ]
  /\ phase' = "pack"
  /\ UNCHANGED <<docs, raws, scored, report, buf, marks, p, left, decoded, results>>

(* buildScanIndex ends; the page numbers the sites as they were shipped.   *)
ShipIndex ==
  /\ phase = "index" /\ report.total = Len(docs)
  /\ sites' = Sorted(scored)
  /\ scanner' = [ k \in DOMAIN sites' |-> sites'[k].doc.message ]
  /\ phase' = "pack"
  /\ UNCHANGED <<docs, raws, scored, report, buf, marks, p, left, decoded, results>>

-----------------------------------------------------------------------------
(* The wasm side.                                                          *)
Spans(toks, cut) ==
  LET at == Ascending(Specs(toks))
  IN [ g \in DOMAIN at |-> <<cut[at[g]], cut[at[g] + 1]>> ]

(* scan_line_spans: the matching sites, longest literal first.             *)
Hits(line) ==
  LET found == { n \in DOMAIN scanner : Captures(lower_format[scanner[n]].toks, line) # NoMatch }
      literal_len(n) == lower_format[scanner[n]].literal_len
      order == Ranked(found, { e \in found \X found :
                 \/ literal_len(e[1]) > literal_len(e[2])
                 \/ literal_len(e[1]) = literal_len(e[2]) /\ e[1] < e[2] })
  IN [ h \in DOMAIN order |->
        LET low == lower_format[scanner[order[h]]]
        IN [ site |-> order[h] - 1, literalLen |-> low.literal_len,
             captures |-> Spans(low.toks, Captures(low.toks, line)) ] ]

(* usize as i32.                                                           *)
AsI32(x) == ((x + I32 \div 2) % I32) - I32 \div 2

(* Faulty: a hit without captures has no capture count.                    *)
PackedUncounted(hit) ==
  <<AsI32(hit.site), AsI32(hit.literalLen)>>
  \o (IF hit.captures = <<>> THEN <<>> ELSE <<AsI32(Len(hit.captures))>>)
  \o FlattenSeq([ g \in DOMAIN hit.captures |-> <<AsI32(hit.captures[g][1]), AsI32(hit.captures[g][2])>> ])

Packed(hit) ==
  <<AsI32(hit.site), AsI32(hit.literalLen), AsI32(Len(hit.captures))>>
  \o FlattenSeq([ g \in DOMAIN hit.captures |-> <<AsI32(hit.captures[g][1]), AsI32(hit.captures[g][2])>> ])

PackLine ==
  /\ phase = "pack" /\ Len(marks) <= Len(raws)
  /\ LET hits == Hits(cores[Len(marks)])
     IN buf' = buf \o <<AsI32(Len(hits))>> \o FlattenSeq([ h \in DOMAIN hits |-> Packed(hits[h]) ])
  /\ marks' = Append(marks, Len(buf'))
  /\ UNCHANGED <<docs, raws, phase, scored, report, sites, scanner, p, left, decoded, results>>

CrossBoundary ==
  /\ phase = "pack" /\ Len(marks) > Len(raws)
  /\ phase' = "decode"
  /\ UNCHANGED <<docs, raws, scored, report, sites, scanner, buf, marks, p, left, decoded, results>>

-----------------------------------------------------------------------------
(* The page's side.  A string is its UTF-16 units, each written as the     *)
(* bytes of its char; a char of four bytes takes two units.                *)
Utf16(t) ==
  LET upto[k \in 0 .. Len(t)] ==
        CASE k = 0 -> <<>>
          [] k > 0 /\ t[k] \in Cont -> upto[k - 1]
          [] OTHER -> upto[k - 1] \o
               (IF Width[t[k]] = 4 THEN <<SubSeq(t, k, k + 1), SubSeq(t, k + 2, k + 3)>>
                ELSE <<SubSeq(t, k, k + Width[t[k]] - 1)>>)
  IN upto[Len(t)]

slice(t, s, e) ==
  LET units == Utf16(t)
  IN FlattenSeq(SubSeq(units, s + 1, IF e > Len(units) THEN Len(units) ELSE e))

(* TextDecoder.decode: a byte order mark at the start is not part of the text. *)
TextDecode(bytes) ==
  IF StartsWith(bytes, 0, Bom) THEN SubSeq(bytes, Len(Bom) + 1, Len(bytes)) ELSE bytes

(* Faulty: every line is taken for ASCII.                                  *)
isAsciiAlways(t) == TRUE
isAscii(t) == \A k \in DOMAIN t : t[k] \in Ascii

CaptureText(line, s, e) ==
  IF s < 0 THEN <<>>
  ELSE IF isAscii(line) THEN slice(line, s, e)
  ELSE TextDecode(SubSeq(line, s + 1, e))

(* arr[k]; reading past the end gives undefined, which counts as zero.     *)
arr(k) == IF k \in DOMAIN buf THEN buf[k] ELSE 0

Decoding ==
  phase = "decode" /\ UNCHANGED <<docs, raws, phase, scored, report, sites, scanner, buf, marks, results>>

ReadCount ==
  /\ Decoding /\ left = 0 /\ Len(decoded) < Len(raws)
  /\ left' = arr(p) /\ p' = p + 1 /\ decoded' = Append(decoded, <<>>)

ReadHit ==
  /\ Decoding /\ left > 0
  /\ LET numCaps == arr(p + 2)
         line == cores[Len(decoded)]
         hit == [ site |-> arr(p), literalLen |-> arr(p + 1),
                  captures |-> [ c \in 1 .. numCaps |->
                                 CaptureText(line, arr(p + 1 + 2 * c), arr(p + 2 + 2 * c)) ] ]
     IN decoded' = [decoded EXCEPT ![Len(decoded)] = Append(@, hit)] /\ p' = p + 3 + 2 * numCaps
  /\ left' = left - 1

Labelled(hit) ==
  LET site == sites[hit.site + 1]
  IN [ slug |-> site.doc.slug, literalLen |-> hit.literalLen,
       captures |-> [ g \in DOMAIN hit.captures |->
          [spec |-> IF g \in DOMAIN site.groups THEN site.groups[g] ELSE "?", value |-> hit.captures[g]] ] ]

(* scanLines returns: bare catch-alls are left out, captures labelled.     *)
Label ==
  /\ phase = "decode" /\ left = 0 /\ Len(decoded) = Len(raws)
  /\ results' = [ k \in DOMAIN raws |->
       LET kept == Ascending({ h \in DOMAIN decoded[k] : decoded[k][h].literalLen > 0 })
       IN [ core |-> cores[k], level |-> stripLogPrefix(raws[k].text).level,
            hits |-> [ h \in DOMAIN kept |-> Labelled(decoded[k][kept[h]]) ] ] ]
  /\ phase' = "done"
  /\ UNCHANGED <<docs, raws, scored, report, sites, scanner, buf, marks, p, left, decoded>>

Next ==
  \/ HoldCatchAll \/ SkipUnlowered \/ IndexDoc \/ ShipIndex
  \/ PackLine \/ CrossBoundary \/ ReadCount \/ ReadHit \/ Label

Spec == Init /\ [][Next]_vars

-----------------------------------------------------------------------------
TypeOK ==
  /\ phase \in {"index", "pack", "decode", "done"}
  /\ buf \in Seq(-(I32 \div 2) .. I32 \div 2 - 1)
  /\ p \in 1 .. Len(buf) + 1 /\ left \in Nat /\ Len(decoded) <= Len(raws)
  /\ Len(scanner) = Len(sites)

(* Where the reader expects a line, the writer began one; all of the       *)
(* buffer is read (packed.ts:48, core_impl.rs:106).                        *)
CursorInStep ==
  /\ phase = "decode" /\ left = 0 => p = marks[Len(decoded) + 1] + 1
  /\ phase = "done" => p = Len(buf) + 1

Cut(page, line) == Captures(lower_format[page.message].toks, line)
Page(slug) == CHOOSE d \in Range(docs) : d.slug = slug

(* The pages shown for a line are those of the catalog whose format it     *)
(* renders and that have literal text, each once, the more specific first, *)
(* equals by slug: through sorting, holding back, numbering, packing and   *)
(* decoding a site number means the same page (patterns.ts:71).            *)
ShownPagesMatch ==
  phase = "done" => \A k \in DOMAIN raws :
    LET hits == results[k].hits
        Len0(slug) == lower_format[Page(slug).message].literal_len
    IN /\ { hits[h].slug : h \in DOMAIN hits } =
            { d.slug : d \in { x \in Range(docs) :
                /\ lower_format[x.message].ok /\ lower_format[x.message].literal_len > 0
                /\ Cut(x, results[k].core) # NoMatch } }
       /\ \A h \in 2 .. Len(hits) :
            \/ Len0(hits[h - 1].slug) > Len0(hits[h].slug)
            \/ /\ Len0(hits[h - 1].slug) = Len0(hits[h].slug)
               /\ SlugRank[hits[h - 1].slug] < SlugRank[hits[h].slug]

(* Every value shown is the text its conversion captured, under that       *)
(* conversion's label, whatever the line's encoding.                       *)
EveryCapture(Read(_)) ==
  phase = "done" => \A k \in DOMAIN raws : \A h \in DOMAIN results[k].hits :
    LET hit == results[k].hits[h]
        page == Page(hit.slug)
        spans == Spans(lower_format[page.message].toks, Cut(page, results[k].core))
    IN hit.captures =
         [ g \in DOMAIN spans |->
             [ spec |-> lower_format[page.message].groups[g],
               value |-> Read(SubSeq(results[k].core, spans[g][1] + 1, spans[g][2])) ] ]

(* A byte order mark at the start of a capture of a line is left out.      *)
CapturesLabelled == EveryCapture(TextDecode)

(* "so the reconstruction is exact for every input" (packed.rs:26).        *)
ReconstructionExact == EveryCapture(LAMBDA text : text)

(* The cases in which the prefix cannot be told from the message that      *)
(* begins at n: the regex takes a first word for the zone that is not      *)
(* there, a number in brackets for the pid that is not there, and leaves a *)
(* zone that is an offset.                                                 *)
Ambiguous(t, n) ==
  \/ Timestamped(t, n, "none", FALSE) /\ t[n + 1] \in WordChar
  \/ \E zone \in {"none", "word"} : Timestamped(t, n, zone, FALSE) /\ HasPid(t, n)
  \/ \E pid \in BOOLEAN : Timestamped(t, n, "offset", pid)

(* The core is the message that was logged, unless that message holds a    *)
(* LEVEL: marker itself (prefix.ts:44) or its prefix is ambiguous          *)
(* (prefix.ts:59).                                                         *)
CoreIsMessage ==
  phase = "done" => \A k \in DOMAIN raws :
    LET t == raws[k].text
        m == raws[k].message
    IN \/ results[k].core = m
       \/ \E x \in DOMAIN m : Marker(m, x)
       \/ Ambiguous(t, Len(t) - Len(m))

(* Every page is in exactly one bucket of the report, and a page that is   *)
(* a bare catch-all is in no index (patterns.ts:33).                       *)
PagesAccountedFor ==
  /\ report.total = report.lowerFailed + report.compiled + report.catchAlls
  /\ report.compiled = Len(scored)
  /\ \A n \in DOMAIN sites : \E k \in DOMAIN lower_format[sites[n].doc.message].toks :
       lower_format[sites[n].doc.message].toks[k].kind = "Lit"
===============================================================================
