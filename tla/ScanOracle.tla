------------------------------ MODULE ScanOracle ------------------------------
(***************************************************************************)
(* What the Scanner of logref-core promises to its callers, whichever of   *)
(* its three paths they call: the answer for a line lists every site of    *)
(* the catalog whose format the line renders, once, the most specific      *)
(* first and sites of equal specificity in catalog order, each with the    *)
(* captures the anchored regular expression gives.                         *)
(***************************************************************************)
EXTENDS PrintfPattern

CONSTANTS
  Text,           \* message texts that are not empty
  NoText,         \* the text of a site without a literal message
  lower_format,   \* [Text -> [ok, toks, literal_len]]
  Lines           \* lines that are scanned

VARIABLES sites, line, answer

oracleVars == <<sites, line, answer>>

Pending == [ready |-> FALSE, hits |-> <<>>]

Lowerable(s) == s # NoText /\ lower_format[s].ok

(* The spans of the capture groups in a parse.                             *)
Spans(toks, cut) ==
  [ i \in { k \in 1 .. Len(toks) : toks[k].kind # "Lit" } |-> <<cut[i], cut[i + 1]>> ]

Resolves(s, l) == Lowerable(s) /\ Captures(lower_format[s].toks, l) # NoMatch

HitOf(i) ==
  LET lowered == lower_format[sites[i]]
  IN [ site |-> i, literal_len |-> lowered.literal_len,
       captures |-> Spans(lowered.toks, Captures(lowered.toks, line)) ]

MoreSpecific(g, h) ==
  \/ g.literal_len > h.literal_len
  \/ g.literal_len = h.literal_len /\ g.site < h.site

IsRanking(hits) ==
  /\ { hits[i] : i \in DOMAIN hits } =
       { HitOf(i) : i \in { k \in DOMAIN sites : Resolves(sites[k], line) } }
  /\ \A i \in DOMAIN hits : \A j \in 1 .. i - 1 : MoreSpecific(hits[j], hits[i])

Init == answer = Pending

Ask == line' \in Lines /\ answer' = Pending /\ UNCHANGED sites

Reply == /\ answer = Pending
         /\ answer'.ready /\ IsRanking(answer'.hits)
         /\ UNCHANGED <<sites, line>>

ScanOracleSpec == Init /\ [][Ask \/ Reply]_oracleVars
===============================================================================
