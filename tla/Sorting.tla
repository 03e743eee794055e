-------------------------------- MODULE Sorting --------------------------------
(***************************************************************************)
(* Sorting, which the code leaves to the libraries of Rust and JavaScript: *)
(* what a sort returns, not how.                                           *)
(***************************************************************************)
EXTENDS Integers, Sequences, FiniteSets

(* The elements of S one after another, as the relation R orders them.     *)
Ranked(S, R) ==
  [ k \in 1 .. Cardinality(S) |->
      CHOOSE x \in S : Cardinality({ y \in S : <<y, x>> \in R }) = k - 1 ]

(* A set of numbers as an ascending sequence (sort, dedup).                *)
Ascending(S) == Ranked(S, { e \in S \X S : e[1] < e[2] })
===============================================================================
