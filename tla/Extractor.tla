------------------------------- MODULE Extractor -------------------------------
(***************************************************************************)
(* The main program of logref-extract: Semgrep reports where the calls     *)
(* are, the source files are read again to cut the calls out, and only     *)
(* then is the inventory created and written, one site per line.           *)
(*                                                                         *)
(* Semgrep and the editing of the sources are the environment's.  A result *)
(* carries, as a history no action reads, the site its author meant.       *)
(***************************************************************************)
EXTENDS CallText, FiniteSetsExt, SequencesExt

CONSTANTS
  Checkouts,  \* records [disk, results]: a source tree and what Semgrep reports of it
  Edits       \* records [path, text] that may be written over it afterwards

VARIABLES
  disk,       \* path -> text of the source files, Missing if there is none
  past,       \* path -> the texts the file has had: a history
  results,    \* Semgrep's output: records [path, rule, from, to, meant]
  phase,      \* "semgrep", "read", "emit"; "done", "failed", "panicked"
  cache,      \* the last file read: [path, text]
  matches,    \* the calls cut out so far: records [rule, path, call]
  sites,      \* the sites built so far
  tally,      \* by_api, by_level, by_kind, literal, computed
  inventory   \* the output file: Old, or the sites whose lines it holds

vars == <<disk, past, results, phase, cache, matches, sites, tally, inventory>>

Missing == <<"missing">>
NoFile == [path |-> "none", text |-> Missing]

(* Texts are made of atoms, offsets count from one, a result is of a path  *)
(* the checkout knows, and no path is called none.                         *)
ASSUME CheckoutAssumption ==
  /\ "fffd" \in Atom
  /\ \A c \in Checkouts :
       /\ NoFile.path \notin DOMAIN c.disk
       /\ \A p \in DOMAIN c.disk : c.disk[p] = Missing \/ c.disk[p] \in Seq(Atom)
       /\ c.results \in Seq({ c.results[k] : k \in DOMAIN c.results })
       /\ \A k \in DOMAIN c.results :
            c.results[k].path \in DOMAIN c.disk /\ c.results[k].from \in Nat \ {0} /\ c.results[k].to \in Nat
  /\ \A e \in Edits : e.text \in Seq(Atom)

Old == [created |-> FALSE, lines |-> <<>>]

Init ==
  /\ \E c \in Checkouts : /\ disk = c.disk /\ results = c.results
                          /\ past = [ p \in DOMAIN c.disk |-> {c.disk[p]} ]
  /\ phase = "semgrep" /\ cache = NoFile /\ matches = <<>> /\ sites = <<>>
  /\ tally = [by_api |-> <<>>, by_level |-> <<>>, by_kind |-> <<>>, literal |-> 0, computed |-> 0]
  /\ inventory = Old

(* A file is edited after Semgrep has seen it: while the program runs, or  *)
(* before it is run with --semgrep-json.                                   *)
Edit ==
  /\ phase \in {"semgrep", "read"} /\ \A p \in DOMAIN past : Cardinality(past[p]) = 1
  /\ \E e \in Edits :
       /\ e.path \in DOMAIN disk /\ e.text # disk[e.path]
       /\ disk' = [disk EXCEPT ![e.path] = e.text]
       /\ past' = [past EXCEPT ![e.path] = @ \cup {e.text}]
  /\ UNCHANGED <<results, phase, cache, matches, sites, tally, inventory>>

Program == UNCHANGED <<disk, past, results>>

(* The report is there: run_semgrep succeeds, or the old output is read.   *)
SemgrepEnds ==
  /\ Program /\ phase = "semgrep" /\ phase' \in {"read", "failed"}
  /\ UNCHANGED <<cache, matches, sites, tally, inventory>>

result == results[Len(matches) + 1]
reading == phase = "read" /\ Len(matches) < Len(results)

(* Faulty: any cached file will do.                                        *)
CachedAny == cache # NoFile
Cached == cache.path = result.path

(* String::from_utf8_lossy of a slice, whose ends may cut a char in two.   *)
Lossy(s) ==
  [ k \in DOMAIN s |->
      IF \/ s[k] \in Cont /\ At(s, k - 1) \notin DOMAIN CharLen
         \/ s[k] \in DOMAIN CharLen /\ At(s, k + 1) \notin Cont
      THEN "fffd" ELSE s[k] ]

(* slice::get: nothing if the offsets are not in the file.                 *)
Slice(text, r) == IF r.to <= Len(text) THEN Lossy(SubSeq(text, r.from, r.to)) ELSE <<>>

ReadMatch ==
  /\ Program /\ reading
  /\ Cached \/ disk[result.path] # Missing
  /\ cache' = IF Cached THEN cache ELSE [path |-> result.path, text |-> disk[result.path]]
  /\ matches' = Append(matches, [ rule |-> result.rule, path |-> result.path,
                                  call |-> Slice(cache'.text, result) ])
  /\ UNCHANGED <<phase, sites, tally, inventory>>

(* One file that cannot be read ends the run.                              *)
ReadFails ==
  /\ Program /\ reading /\ ~Cached /\ disk[result.path] = Missing
  /\ phase' = "failed"
  /\ UNCHANGED <<cache, matches, sites, tally, inventory>>

(* Faulty: the output is created before the sources are read.              *)
CreateOutputFirst ==
  /\ Program /\ phase = "read"
  /\ IF ~inventory.created THEN inventory' = [created |-> TRUE, lines |-> <<>>] /\ UNCHANGED phase
     ELSE phase' = "emit" /\ Len(matches) = Len(results) /\ UNCHANGED inventory
  /\ UNCHANGED <<cache, matches, sites, tally>>

(* File::create empties the inventory, or fails.                           *)
CreateOutput ==
  /\ Program /\ phase = "read" /\ Len(matches) = Len(results)
  /\ \/ phase' = "emit" /\ inventory' = [created |-> TRUE, lines |-> <<>>]
     \/ phase' = "failed" /\ UNCHANGED inventory
  /\ UNCHANGED <<cache, matches, sites, tally>>

match == matches[Len(sites) + 1]
emitting == phase = "emit" /\ Len(sites) < Len(matches)

MessagesIn(s) == {s.message} \cup UNION { { m[k] : k \in DOMAIN m } : m \in {s.details, s.hints, s.contexts} }
Panics(s) == \E m \in MessagesIn(s) : \E k \in DOMAIN m.text : m.text[k] = Panic

Count(bag, key) == [ x \in (DOMAIN bag) \cup {key} |->
                     (IF x \in DOMAIN bag THEN bag[x] ELSE 0) + (IF x = key THEN 1 ELSE 0) ]

(* Faulty: a site without a level is not counted.                          *)
LevelsOfSeverities(bag, s) == IF s.level = None THEN bag ELSE Count(bag, s.level)
Levels(bag, s) == Count(bag, IF s.level = None THEN <<"-">> ELSE s.level)

EmitSite ==
  /\ Program /\ emitting
  /\ \E site \in {build_site(match.rule, match.call)} :
       /\ ~Panics(site)
       /\ sites' = Append(sites, site)
       /\ tally' = [ by_api |-> Count(tally.by_api, site.api), by_level |-> Levels(tally.by_level, site),
                     by_kind |-> Count(tally.by_kind, site.kind),
                     literal |-> tally.literal + (IF site.message.text # None THEN 1 ELSE 0),
                     computed |-> tally.computed + (IF site.message.text # None THEN 0 ELSE 1) ]
  /\ UNCHANGED <<phase, cache, matches, inventory>>

(* Faulty: the buffer is not emptied when it is written out.               *)
FlushBufferAgain ==
  /\ Program /\ phase = "emit" /\ inventory.lines # sites
  /\ inventory' = [inventory EXCEPT !.lines = @ \o sites]
  /\ UNCHANGED <<phase, cache, matches, sites, tally>>

(* Buffered lines reach the file when the buffer is full.                  *)
FlushBuffer ==
  /\ Program /\ phase = "emit" /\ inventory.lines # sites
  /\ inventory' = [inventory EXCEPT !.lines = sites]
  /\ UNCHANGED <<phase, cache, matches, sites, tally>>

(* The writer flushes what it holds when it is dropped.                    *)
EmitPanics ==
  /\ Program /\ emitting /\ Panics(build_site(match.rule, match.call))
  /\ phase' = "panicked" /\ inventory' = [inventory EXCEPT !.lines = sites]
  /\ UNCHANGED <<cache, matches, sites, tally>>

(* A write or the flush fails: the lines that did not get through are lost.*)
WriteFails ==
  /\ Program /\ phase = "emit" /\ inventory.lines # sites
  /\ phase' = "failed" /\ UNCHANGED <<cache, matches, sites, tally, inventory>>

(* Faulty: the writer is never flushed.                                    *)
FinishUnflushed ==
  /\ Program /\ phase = "emit" /\ Len(sites) = Len(matches)
  /\ phase' = "done" /\ UNCHANGED <<cache, matches, sites, tally, inventory>>

Finish ==
  /\ Program /\ phase = "emit" /\ Len(sites) = Len(matches)
  /\ phase' = "done" /\ inventory' = [inventory EXCEPT !.lines = sites]
  /\ UNCHANGED <<cache, matches, sites, tally>>

Step ==
  \/ SemgrepEnds \/ ReadMatch \/ ReadFails \/ CreateOutput
  \/ EmitSite \/ FlushBuffer \/ EmitPanics \/ WriteFails \/ Finish

Next == Edit \/ Step

Spec == Init /\ [][Next]_vars

-----------------------------------------------------------------------------
TypeOK ==
  /\ phase \in {"semgrep", "read", "emit", "done", "failed", "panicked"}
  /\ Len(matches) <= Len(results) /\ Len(sites) <= Len(matches)
  /\ \A k \in DOMAIN matches : matches[k].call \in Seq(Atom)
  /\ inventory.created \in BOOLEAN /\ IsPrefix(inventory.lines, sites)

Edited(path) == Cardinality(past[path]) > 1

(* The walker reads what the C compiler would: for calls made of literals  *)
(* with escapes, parens, commas and quotes in them, of wrapped messages,   *)
(* char constants and nested calls, each site is the one that was meant,   *)
(* in the order of the report.  An edit can only spoil sites of its file.  *)
SitesAsMeant ==
  \A k \in DOMAIN sites : sites[k] = results[k].meant \/ Edited(results[k].path)

(* No text of a call that is C makes the walker panic (lib.rs:401).        *)
OnlyEditsPanic == phase = "panicked" => Edited(match.path)

(* Every call is cut out of its own file, and the calls of consecutive     *)
(* results out of one version of it, although it may be edited in between  *)
(* (the one-entry cache, lib.rs:73).                                       *)
CallsFromOneVersion ==
  \A k \in DOMAIN matches :
    LET next == IF k + 1 \in DOMAIN matches /\ results[k + 1].path = results[k].path THEN k + 1 ELSE k
    IN \E text \in past[results[k].path] :
         \A x \in {k, next} : matches[x].call = Slice(text, results[x])

(* The printed tallies are those of the lines written: every api, level   *)
(* and kind of a site has a line of its own with the number of its sites,  *)
(* and a site is literal or computed (main.rs:114-157).                    *)
Tallies(bag, keys) ==
  /\ DOMAIN bag = Range(keys)
  /\ \A x \in DOMAIN bag : bag[x] = Cardinality({ k \in DOMAIN keys : keys[k] = x })

TalliesOfSites ==
  LET literal == { k \in DOMAIN sites : sites[k].message.text # None }
  IN /\ Tallies(tally.by_api, [ k \in DOMAIN sites |-> sites[k].api ])
     /\ Tallies(tally.by_kind, [ k \in DOMAIN sites |-> sites[k].kind ])
     /\ Tallies(tally.by_level,
                [ k \in DOMAIN sites |-> IF sites[k].level = None THEN <<"-">> ELSE sites[k].level ])
     /\ tally.literal = Cardinality(literal) /\ tally.literal + tally.computed = Len(sites)

(* A run that ends well leaves one line per result.                        *)
DoneIsComplete ==
  phase = "done" => Len(inventory.lines) = Len(results)

(* An inventory is only replaced once every source has been read: a run    *)
(* that fails on the way leaves the old one (main.rs:108-131).             *)
OldInventoryKept ==
  [][inventory' # inventory => Len(matches) = Len(results)]_vars

(* "Find every top-level-or-nested call to one of names inside body, in    *)
(* source order" (lib.rs:232): no message, detail, hint or code is missed. *)
EveryCallFound ==
  \A k \in DOMAIN sites :
    LET s == sites[k]
        m == results[k].meant
    IN /\ s.message.text = m.message.text /\ Len(s.details) = Len(m.details)
       /\ Len(s.hints) = Len(m.hints) /\ Len(s.sqlstates) = Len(m.sqlstates)
===============================================================================
