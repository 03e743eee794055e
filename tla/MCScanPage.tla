------------------------------ MODULE MCScanPage ------------------------------
(***************************************************************************)
(* Two files and a blank text; the user acts a few times.                  *)
(***************************************************************************)
EXTENDS ScanPage

MCText == {"", " ", "pasted", "first", "second"}
MCBlank == {"", " "}
MCFile == {"a.log", "b.log", "blank.log"}
MCContents == [ f \in MCFile |-> CASE f = "a.log" -> "first" [] f = "b.log" -> "second" [] OTHER -> " " ]
===============================================================================
