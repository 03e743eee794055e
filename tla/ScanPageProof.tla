----------------------------- MODULE ScanPageProof -----------------------------
(***************************************************************************)
(* Proofs about ScanPage, for any texts, files and number of user events.  *)
(*                                                                         *)
(* What is shown agrees with the textarea only because of what is still to *)
(* happen: PageInv says that while a run waits or is due nothing need      *)
(* agree, and that before the load, or after it failed, nothing is shown.  *)
(***************************************************************************)
EXTENDS ScanPage, Sequences, FiniteSetTheorems, TLAPS

(* Runs and reads come from different events of the user.                  *)
EventsCover == IsFiniteSet(reads) /\ waiting + jobs + Cardinality(reads) <= events

(* No run goes on before the scanner is there or has failed.               *)
JobsAfterLoad == load = "pending" => jobs = 0

(* With no scanner there are no results and no summary.                    *)
NothingBeforeLoad ==
  load # "loaded" => out = Nothing /\ \A t \in Text : status # Summary(t)

(* Unless a run is due, or waits, what is shown is up to date.             *)
UpToDate ==
  load # "failed" /\ jobs = 0 /\ waiting = 0 /\ ~edited => out = Results(input)

PageInv ==
  TypeOK /\ EventsCover /\ JobsAfterLoad /\ NothingBeforeLoad /\ UpToDate /\ SummaryOfResults

-----------------------------------------------------------------------------
(* No two texts of the status line, and no two things shown, are alike.    *)
LEMMA TextsDiffer ==
  /\ \A t, u : Summary(t) = Summary(u) => t = u
  /\ \A t, f : Summary(t) # Reading(f)
  /\ \A t : Summary(t) \notin {Loading, ReadyText, LoadFailed, PasteSome} /\ Shown(t) # Nothing
<1>1. \A t, f : Summary(t)[1] = "scanned" /\ Summary(t)[2] = t /\ Reading(f)[1] = "reading"
  BY DEF Summary, Reading
<1>2. \A t : Len(Summary(t)) = 2 /\ Len(Shown(t)) = 2
  BY DEF Summary, Shown
<1>3. Len(Loading) = 1 /\ Len(ReadyText) = 1 /\ Len(LoadFailed) = 1 /\ Len(PasteSome) = 1 /\ Len(Nothing) = 1
  BY DEF Loading, ReadyText, LoadFailed, PasteSome, Nothing
<1>4. QED
  BY <1>1, <1>2, <1>3

LEMMA InitPage == Init => PageInv
<1> SUFFICES ASSUME Init PROVE PageInv
  OBVIOUS
<1>1. IsFiniteSet(reads) /\ Cardinality(reads) = 0
  BY FS_EmptySet DEF Init
<1>2. Results(input) = Nothing
  BY PageAssumption DEF Init, Results
<1>3. TypeOK
  <2>1. 0 \in 0 .. MaxEvents /\ input \in Text /\ reads \subseteq (1 .. MaxEvents) \X File
    BY PageAssumption DEF Init
  <2>2. QED
    BY <2>1 DEF Init, TypeOK
<1>4. QED
  BY <1>1, <1>2, <1>3, TextsDiffer, PageAssumption
  DEF Init, PageInv, EventsCover, JobsAfterLoad, NothingBeforeLoad, UpToDate, SummaryOfResults

-----------------------------------------------------------------------------
(* What the parts of the invariant say in one place.                       *)
LEMMA PageFacts ==
  ASSUME PageInv
  PROVE  /\ load \in {"pending", "loaded", "failed"} /\ input \in Text
         /\ waiting \in Nat /\ jobs \in Nat /\ events \in 0 .. MaxEvents
         /\ reads \subseteq (1 .. MaxEvents) \X File
         /\ IsFiniteSet(reads) /\ Cardinality(reads) \in Nat
         /\ waiting + jobs + Cardinality(reads) <= events
         /\ MaxEvents \in Nat
  BY FS_CardinalityType, PageAssumption DEF PageInv, TypeOK, EventsCover

(* Counts that the events cover are within their bounds.                   *)
LEMMA CountsInRange ==
  ASSUME NEW w \in Nat, NEW j \in Nat, NEW r, IsFiniteSet(r), NEW e \in 0 .. MaxEvents,
         w + j + Cardinality(r) <= e
  PROVE  w \in 0 .. MaxEvents /\ j \in 0 .. MaxEvents
<1>1. Cardinality(r) \in Nat /\ MaxEvents \in Nat
  BY FS_CardinalityType, PageAssumption
<1>2. QED
  BY <1>1

LEMMA SettleKeeps ==
  ASSUME PageInv, NEW answer \in {"loaded", "failed"}, NEW text \in {ReadyText, LoadFailed},
         Settle(answer, text)
  PROVE  PageInv'
<1> USE DEF Settle, Idle
<1>1. EventsCover' /\ waiting' \in Nat /\ jobs' \in Nat /\ events' \in 0 .. MaxEvents
  BY PageFacts DEF EventsCover
<1>2. TypeOK'
  <2>1. waiting' \in 0 .. MaxEvents /\ jobs' \in 0 .. MaxEvents
    BY <1>1, CountsInRange DEF EventsCover
  <2>2. QED
    BY <2>1 DEF PageInv, TypeOK
<1>3. out = Nothing /\ out' = Nothing /\ \A t \in Text : status' # Summary(t)
  BY TextsDiffer DEF PageInv, NothingBeforeLoad
<1>4. UpToDate'
  BY PageFacts DEF PageInv, UpToDate, Results
<1>5. QED
  BY <1>1, <1>2, <1>3, <1>4
  DEF PageInv, JobsAfterLoad, NothingBeforeLoad, SummaryOfResults

LEMMA RunKeeps == ASSUME PageInv, Run PROVE PageInv'
<1>1. EventsCover' /\ waiting' \in Nat /\ jobs' \in Nat /\ events' \in 0 .. MaxEvents
  BY PageFacts DEF EventsCover, Run
<1>2. waiting' \in 0 .. MaxEvents /\ jobs' \in 0 .. MaxEvents
  BY <1>1, CountsInRange DEF EventsCover
<1>3. load # "pending" /\ load' = load /\ input' = input
  BY DEF Run, PageInv, JobsAfterLoad
<1>4. CASE load = "failed"
  BY <1>1, <1>2, <1>3, <1>4
  DEF Run, PageInv, TypeOK, JobsAfterLoad, NothingBeforeLoad, UpToDate, SummaryOfResults
<1>5. CASE load = "loaded"
  <2>1. /\ out' = Results(input) /\ edited' = FALSE
        /\ status' = IF input \in Blank THEN PasteSome ELSE Summary(input)
    BY <1>5 DEF Run
  <2>2. TypeOK'
    BY <1>1, <1>2, <1>3, <2>1 DEF Run, PageInv, TypeOK, Results
  <2>3. SummaryOfResults'
    BY <1>3, <2>1, TextsDiffer, PageFacts DEF SummaryOfResults, Results
  <2>4. QED
    BY <1>1, <1>3, <1>5, <2>1, <2>2, <2>3 DEF PageInv, JobsAfterLoad, NothingBeforeLoad, UpToDate
<1>6. QED
  BY <1>3, <1>4, <1>5, PageFacts

(* A read that ends leaves one of the events to its run.                   *)
LEMMA ReadEnds ==
  ASSUME PageInv, NEW r \in reads, reads' = reads \ {r}
  PROVE  /\ IsFiniteSet(reads') /\ Cardinality(reads') = Cardinality(reads) - 1
         /\ reads' \subseteq (1 .. MaxEvents) \X File /\ Contents[r[2]] \in Text
  BY PageFacts, FS_RemoveElement, PageAssumption

LEMMA FileArrivesKeeps == ASSUME PageInv, FileArrives PROVE PageInv'
<1>1. PICK r \in reads : reads' = reads \ {r} /\ input' = Contents[r[2]]
  BY DEF FileArrives
<1>2. /\ IsFiniteSet(reads') /\ Cardinality(reads') = Cardinality(reads) - 1
      /\ reads' \subseteq (1 .. MaxEvents) \X File /\ input' \in Text
  BY <1>1, ReadEnds
<1>3. /\ waiting' \in Nat /\ jobs' \in Nat /\ waiting' + jobs' = waiting + jobs + 1
      /\ load # "pending" => waiting' = waiting
      /\ load = "pending" => jobs' = jobs
  BY PageFacts DEF FileArrives, CallRun
<1>4. EventsCover' /\ events' \in 0 .. MaxEvents
  BY <1>2, <1>3, PageFacts DEF EventsCover, FileArrives
<1>5. waiting' \in 0 .. MaxEvents /\ jobs' \in 0 .. MaxEvents
  BY <1>3, <1>4, CountsInRange DEF EventsCover
<1>6. TypeOK'
  BY <1>2, <1>3, <1>4, <1>5 DEF FileArrives, PageInv, TypeOK
<1>7. UpToDate'
  BY <1>3, PageFacts DEF UpToDate
<1>8. QED
  BY <1>3, <1>4, <1>6, <1>7
  DEF FileArrives, PageInv, JobsAfterLoad, NothingBeforeLoad, SummaryOfResults

LEMMA FileUnreadableKeeps == ASSUME PageInv, FileUnreadable PROVE PageInv'
<1>1. PICK r \in reads : reads' = reads \ {r}
  BY DEF FileUnreadable
<1>2. /\ IsFiniteSet(reads') /\ Cardinality(reads') = Cardinality(reads) - 1
      /\ reads' \subseteq (1 .. MaxEvents) \X File
  BY <1>1, ReadEnds
<1>3. EventsCover'
  BY <1>2, PageFacts DEF EventsCover, FileUnreadable
<1>4. TypeOK'
  BY <1>2 DEF FileUnreadable, PageInv, TypeOK
<1>5. QED
  BY <1>3, <1>4
  DEF FileUnreadable, PageInv, JobsAfterLoad, NothingBeforeLoad, UpToDate, SummaryOfResults

-----------------------------------------------------------------------------
(* What the user does.                                                     *)
LEMMA TypeKeeps == ASSUME PageInv, Type PROVE PageInv'
<1>1. input' \in Text /\ edited' = TRUE /\ events' = events + 1 /\ events' \in 0 .. MaxEvents
  BY PageFacts DEF Type, UserActs
<1>2. EventsCover'
  BY <1>1, PageFacts DEF EventsCover, Type
<1>3. QED
  BY <1>1, <1>2
  DEF Type, PageInv, TypeOK, JobsAfterLoad, NothingBeforeLoad, UpToDate, SummaryOfResults

LEMMA ClickRunKeeps == ASSUME PageInv, ClickRun PROVE PageInv'
<1>1. events' = events + 1 /\ events' \in 0 .. MaxEvents
  BY PageFacts DEF ClickRun, UserActs
<1>2. /\ waiting' \in Nat /\ jobs' \in Nat /\ waiting' + jobs' = waiting + jobs + 1
      /\ load # "pending" => waiting' = waiting
      /\ load = "pending" => jobs' = jobs
  BY PageFacts DEF ClickRun, CallRun
<1>3. EventsCover'
  BY <1>1, <1>2, PageFacts DEF EventsCover, ClickRun
<1>4. waiting' \in 0 .. MaxEvents /\ jobs' \in 0 .. MaxEvents
  BY <1>1, <1>2, <1>3, CountsInRange DEF EventsCover
<1>5. TypeOK'
  BY <1>1, <1>2, <1>4 DEF ClickRun, PageInv, TypeOK
<1>6. UpToDate'
  BY <1>2, PageFacts DEF UpToDate
<1>7. QED
  BY <1>2, <1>3, <1>5, <1>6
  DEF ClickRun, PageInv, JobsAfterLoad, NothingBeforeLoad, SummaryOfResults

LEMMA ClickClearKeeps == ASSUME PageInv, ClickClear PROVE PageInv'
<1>1. events' = events + 1 /\ events' \in 0 .. MaxEvents /\ input' = Empty /\ out' = Nothing
  BY PageFacts DEF ClickClear, UserActs
<1>2. EventsCover'
  BY <1>1, PageFacts DEF EventsCover, ClickClear
<1>3. TypeOK'
  BY <1>1, PageAssumption DEF ClickClear, PageInv, TypeOK
<1>4. \A t \in Text : status' # Summary(t)
  BY TextsDiffer DEF ClickClear, PageInv, NothingBeforeLoad
<1>5. UpToDate'
  BY <1>1, PageAssumption DEF UpToDate, Results
<1>6. QED
  BY <1>1, <1>2, <1>3, <1>4, <1>5
  DEF ClickClear, PageInv, JobsAfterLoad, NothingBeforeLoad, SummaryOfResults

LEMMA PickFileKeeps == ASSUME PageInv, PickFile PROVE PageInv'
<1>1. events' = events + 1 /\ events' \in 1 .. MaxEvents
  BY PageFacts DEF PickFile, UserActs
<1>2. PICK f \in File : status' = Reading(f) /\ reads' = reads \cup {<<events', f>>}
  BY DEF PickFile
<1>3. /\ IsFiniteSet(reads') /\ Cardinality(reads') \in Nat
      /\ Cardinality(reads') <= Cardinality(reads) + 1
      /\ reads' \subseteq (1 .. MaxEvents) \X File
  <2>1. IsFiniteSet(reads') /\ Cardinality(reads') <= Cardinality(reads) + 1
    <3>1. IsFiniteSet(reads) /\ Cardinality(reads) \in Nat
      BY PageFacts
    <3>2. /\ IsFiniteSet(reads \cup {<<events', f>>})
          /\ Cardinality(reads \cup {<<events', f>>}) =
               IF <<events', f>> \in reads THEN Cardinality(reads) ELSE Cardinality(reads) + 1
      BY <3>1, FS_AddElement, Zenon
    <3>3. QED
      BY <1>2, <3>1, <3>2
  <2>2. <<events', f>> \in (1 .. MaxEvents) \X File
    BY <1>1
  <2>3. QED
    BY <1>2, <2>1, <2>2, PageFacts, FS_CardinalityType
<1>4. EventsCover'
  BY <1>1, <1>3, PageFacts DEF EventsCover, PickFile
<1>5. TypeOK'
  BY <1>1, <1>2, <1>3 DEF PickFile, PageInv, TypeOK
<1>6. QED
  BY <1>2, <1>4, <1>5, TextsDiffer
  DEF PickFile, PageInv, JobsAfterLoad, NothingBeforeLoad, UpToDate, SummaryOfResults

LEMMA NextPage == ASSUME PageInv, [Next]_vars PROVE PageInv'
<1>1. CASE LoadScanner
  BY <1>1, SettleKeeps DEF LoadScanner
<1>2. CASE FailToLoad
  BY <1>2, SettleKeeps DEF FailToLoad
<1>3. CASE UNCHANGED vars
  BY <1>3 DEF vars, PageInv, TypeOK, EventsCover, JobsAfterLoad, NothingBeforeLoad, UpToDate, SummaryOfResults
<1>4. QED
  BY <1>1, <1>2, <1>3, RunKeeps, FileArrivesKeeps, FileUnreadableKeeps,
     TypeKeeps, ClickRunKeeps, ClickClearKeeps, PickFileKeeps
  DEF Next, Browser, User

LEMMA AlwaysPage == Spec => []PageInv
  BY InitPage, NextPage, PTL DEF Spec

(* Every count of runs and reads stays within the events of the user, and  *)
(* each variable within its type (scan.ts:120-200).                        *)
THEOREM TypeCorrect == Spec => []TypeOK
<1>1. PageInv => TypeOK
  BY DEF PageInv
<1>2. QED
  BY <1>1, AlwaysPage, PTL

(* However the load, the clicks and the reads of any number of files       *)
(* interleave, a loaded page at rest shows the results of its own text     *)
(* unless the user has typed since.                                        *)
THEOREM PageShowsInput == Spec => []ShownIsInput
<1>1. PageInv => ShownIsInput
  BY DEF PageInv, ShownIsInput, UpToDate, TypeOK, Idle
<1>2. QED
  BY <1>1, AlwaysPage, PTL

(* The summary in the status line is that of the results on the page, and  *)
(* only a read in progress puts another line above results.                *)
THEOREM SummaryFollowsResults == Spec => []SummaryOfResults
<1>1. PageInv => SummaryOfResults
  BY DEF PageInv
<1>2. QED
  BY <1>1, AlwaysPage, PTL
===============================================================================
