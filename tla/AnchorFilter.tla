----------------------------- MODULE AnchorFilter -----------------------------
(***************************************************************************)
(* The candidate step of SpecMatcher: a pattern p is tried on a line s     *)
(* only if its anchor literal occurs in s where the widths of the other    *)
(* tokens leave room for it.                                               *)
(***************************************************************************)
EXTENDS PrintfPattern

(* The smallest element of a set of naturals.                              *)
Least(S) == CHOOSE e \in S : \A f \in S : e <= f

(* SpecKind::min_bytes and the width of a token.                           *)
MinBytes(kind) == CASE kind = "Str" -> 0 [] kind = "Ptr" -> 3 [] OTHER -> 1

MinWidth(tok) == IF tok.kind = "Lit" THEN Len(tok.text) ELSE MinBytes(tok.kind)

(* Sum of the widths of tokens a .. b: min_len, min_start and min_tail.    *)
WidthSum(p, a, b) ==
  LET sum[i \in 0 .. Len(p)] ==
        IF i = 0 THEN 0 ELSE sum[i - 1] + MinWidth(p[i])
  IN IF a > b THEN 0 ELSE sum[b] - sum[a - 1]

LiteralIndexes(p) == { i \in 1 .. Len(p) : p[i].kind = "Lit" }

(* The anchor: the first token if it is a literal, else the longest        *)
(* literal, the earliest of the longest ones.                              *)
AnchorTok(p) ==
  IF 1 \in LiteralIndexes(p) THEN 1
  ELSE Least({ i \in LiteralIndexes(p) :
                 \A j \in LiteralIndexes(p) : Len(p[j].text) <= Len(p[i].text) })

(* Faulty: the anchor of a leading gap may not sit at the earliest offset.  *)
AnchorFitsLate(p, s, m, k) ==
  /\ IF k = 1 THEN m = 0 ELSE m > WidthSum(p, 1, k - 1)
  /\ m + Len(p[k].text) + WidthSum(p, k + 1, Len(p)) <= Len(s)

(* An occurrence at m of the anchor, token k, sits where p allows it.      *)
AnchorFits(p, s, m, k) ==
  /\ IF k = 1 THEN m = 0 ELSE m >= WidthSum(p, 1, k - 1)
  /\ m + Len(p[k].text) + WidthSum(p, k + 1, Len(p)) <= Len(s)

(* Patterns without a literal are candidates for every line.               *)
IsCandidate(p, s) ==
  \/ LiteralIndexes(p) = {}
  \/ /\ LiteralIndexes(p) # {}
     /\ \E m \in 0 .. Len(s) : /\ StartsWith(s, m, p[AnchorTok(p)].text)
                               /\ AnchorFits(p, s, m, AnchorTok(p))
===============================================================================
