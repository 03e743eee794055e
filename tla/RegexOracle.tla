----------------------------- MODULE RegexOracle -----------------------------
(***************************************************************************)
(* What verifying one pattern against one line promises: a single answer,  *)
(* the one the anchored regular expression gives (scan_line_regexset is    *)
(* the path of the program that asks the regex crate for it).              *)
(***************************************************************************)
EXTENDS PrintfPattern

VARIABLES toks, line, result

oracleVars == <<toks, line, result>>

(* No answer yet; no parse holds a negative position.                     *)
Pending == <<-1>>

OracleInit == result = Pending

(* Answer once, with the preferred parse or with "no match".               *)
Decide ==
  /\ result = Pending
  /\ result' # Pending
  /\ result' = Captures(toks, line)
  /\ UNCHANGED <<toks, line>>

OracleSpec == OracleInit /\ [][Decide]_oracleVars
==============================================================================
