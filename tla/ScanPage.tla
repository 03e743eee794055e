------------------------------- MODULE ScanPage -------------------------------
(***************************************************************************)
(* The Scan page (site/src/scan.ts): one browser thread handles the user's *)
(* events, the load of the scanner and the reads of picked files.  An      *)
(* async handler gives the thread away at each await; its continuation is  *)
(* a job (microtask), and no event is handled while a job is left.         *)
(*                                                                         *)
(* The lines of a text and their matches are left out: a scan of a text is *)
(* shown as that text.                                                     *)
(***************************************************************************)
EXTENDS Naturals, FiniteSets

CONSTANTS
  Text,       \* contents of the textarea
  Empty,      \* the empty text
  Blank,      \* texts in which splitLines finds no line
  File,       \* files the user may pick
  Contents,   \* [File -> Text]
  MaxEvents   \* bound on what the user does

ASSUME PageAssumption ==
  /\ Empty \in Blank /\ Blank \subseteq Text
  /\ Contents \in [File -> Text]
  /\ MaxEvents \in Nat

VARIABLES
  load,      \* the promise ready: "pending", "loaded" or "failed"
  input,     \* the textarea
  out,       \* the text whose results are shown, or Nothing
  status,    \* the status line
  waiting,   \* calls of run() that wait for ready
  jobs,      \* calls of run() that may go on
  reads,     \* file reads in flight, each with the event that began it
  edited,    \* typed since the last scan or clear (history)
  failedReads,   \* a read was rejected (history)
  events     \* how much the user has done

vars == <<load, input, out, status, waiting, jobs, reads, edited, failedReads, events>>

Nothing == <<"nothing">>
Shown(t) == <<"results", t>>

Loading == <<"loading">>
ReadyText == <<"ready">>
LoadFailed == <<"failed">>
PasteSome == <<"paste">>
Reading(f) == <<"reading", f>>
Summary(t) == <<"scanned", t>>

Results(t) == IF t \in Blank THEN Nothing ELSE Shown(t)

Init ==
  /\ load = "pending" /\ input = Empty /\ out = Nothing /\ status = Loading
  /\ waiting = 0 /\ jobs = 0 /\ reads = {}
  /\ edited = FALSE /\ failedReads = FALSE /\ events = 0

Idle == jobs = 0

(* run() up to its await: ready may have settled already.                  *)
CallRun == IF load = "pending" THEN waiting' = waiting + 1 /\ UNCHANGED jobs
                               ELSE jobs' = jobs + 1 /\ UNCHANGED waiting

-----------------------------------------------------------------------------
(* Faulty: the runs that waited are left waiting.                          *)
SettleStrands(answer, text) ==
  /\ Idle /\ load = "pending"
  /\ load' = answer /\ status' = text
  /\ UNCHANGED <<input, out, waiting, jobs, reads, edited, failedReads, events>>

(* The load of the wasm module and the index settles; the runs that waited *)
(* for it go on.                                                           *)
Settle(answer, text) ==
  /\ Idle /\ load = "pending"
  /\ load' = answer /\ status' = text
  /\ jobs' = waiting /\ waiting' = 0
  /\ UNCHANGED <<input, out, reads, edited, failedReads, events>>

LoadScanner == Settle("loaded", ReadyText)
FailToLoad == Settle("failed", LoadFailed)

(* Faulty: with nothing to scan the old results stay.                      *)
RunKeepsResults ==
  /\ jobs > 0
  /\ jobs' = jobs - 1
  /\ IF load = "failed" THEN UNCHANGED <<out, status, edited>>
     ELSE /\ out' = IF input \in Blank THEN out ELSE Shown(input)
          /\ status' = IF input \in Blank THEN PasteSome ELSE Summary(input)
          /\ edited' = FALSE
  /\ UNCHANGED <<load, input, waiting, reads, failedReads, events>>

(* run() after its await: it scans what the textarea holds now.            *)
Run ==
  /\ jobs > 0
  /\ jobs' = jobs - 1
  /\ IF load = "failed" THEN UNCHANGED <<out, status, edited>>
     ELSE /\ out' = Results(input)
          /\ status' = IF input \in Blank THEN PasteSome ELSE Summary(input)
          /\ edited' = FALSE
  /\ UNCHANGED <<load, input, waiting, reads, failedReads, events>>

-----------------------------------------------------------------------------
UserActs == Idle /\ events < MaxEvents /\ events' = events + 1

Type ==
  /\ UserActs
  /\ \E t \in Text \ {input} : input' = t
  /\ edited' = TRUE
  /\ UNCHANGED <<load, out, status, waiting, jobs, reads, failedReads>>

ClickRun ==
  /\ UserActs /\ CallRun
  /\ UNCHANGED <<load, input, out, status, reads, edited, failedReads>>

(* Faulty: the status line is left as it is.                               *)
ClickClearKeepsStatus ==
  /\ UserActs
  /\ input' = Empty /\ out' = Nothing /\ edited' = FALSE
  /\ UNCHANGED <<load, status, waiting, jobs, reads, failedReads>>

ClickClear ==
  /\ UserActs
  /\ input' = Empty /\ out' = Nothing /\ edited' = FALSE
  /\ status' = IF load = "loaded" THEN ReadyText ELSE status
  /\ UNCHANGED <<load, waiting, jobs, reads, failedReads>>

PickFile ==
  /\ UserActs
  /\ \E f \in File : /\ status' = Reading(f)
                     /\ reads' = reads \cup {<<events', f>>}
  /\ UNCHANGED <<load, input, out, waiting, jobs, edited, failedReads>>

(* Faulty: the file's text is shown but not scanned.                       *)
FileArrivesUnscanned ==
  /\ Idle
  /\ \E r \in reads : reads' = reads \ {r} /\ input' = Contents[r[2]]
  /\ UNCHANGED <<load, out, status, waiting, jobs, edited, failedReads, events>>

(* Reads may end in any order: nothing ties a read to the latest pick.     *)
FileArrives ==
  /\ Idle
  /\ \E r \in reads : reads' = reads \ {r} /\ input' = Contents[r[2]]
  /\ CallRun
  /\ UNCHANGED <<load, out, status, edited, failedReads, events>>

(* f.text() is rejected: nothing handles it.                               *)
FileUnreadable ==
  /\ Idle
  /\ \E r \in reads : reads' = reads \ {r}
  /\ failedReads' = TRUE
  /\ UNCHANGED <<load, input, out, status, waiting, jobs, edited, events>>

Browser == LoadScanner \/ FailToLoad \/ Run \/ FileArrives \/ FileUnreadable
User == Type \/ ClickRun \/ ClickClear \/ PickFile

Next == Browser \/ User

(* Jobs run, the load settles and reads end; the user need not do anything. *)
Spec == Init /\ [][Next]_vars
        /\ WF_vars(Run) /\ WF_vars(LoadScanner \/ FailToLoad)
        /\ WF_vars(FileArrives \/ FileUnreadable)

-----------------------------------------------------------------------------
TypeOK ==
  /\ load \in {"pending", "loaded", "failed"} /\ input \in Text
  /\ out \in {Nothing} \cup { Shown(t) : t \in Text \ Blank }
  /\ status \in {Loading, ReadyText, LoadFailed, PasteSome}
                \cup { Reading(f) : f \in File } \cup { Summary(t) : t \in Text }
  /\ waiting \in 0 .. MaxEvents /\ jobs \in 0 .. MaxEvents
  /\ reads \subseteq (1 .. MaxEvents) \X File
  /\ load # "pending" => waiting = 0
  /\ edited \in BOOLEAN /\ failedReads \in BOOLEAN /\ events \in 0 .. MaxEvents

(* Once the scanner is loaded the page shows the results of the text in    *)
(* the textarea, unless the user has typed since the last scan: neither a  *)
(* late file, a scan asked for before the load, nor a Clear between them   *)
(* leaves the results of another text on the page (scan.ts:136-192).       *)
ShownIsInput ==
  load = "loaded" /\ Idle /\ ~edited => out = Results(input)

(* The summary in the status line is that of the results on the page, and  *)
(* results stay under another line only while a picked file is read.       *)
SummaryOfResults ==
  /\ \A t \in Text : status = Summary(t) => out = Shown(t)
  /\ out # Nothing => \/ \E t \in Text : out = Shown(t) /\ status = Summary(t)
                      \/ \E f \in File : status = Reading(f)

(* "Reading f" is followed by an answer, unless the scanner could not be   *)
(* loaded (run returns early and leaves the line) or a read failed.        *)
ReadingEnds ==
  (\E f \in File : status = Reading(f)) ~>
     (~(\E f \in File : status = Reading(f)) \/ load = "failed" \/ failedReads)
===============================================================================
