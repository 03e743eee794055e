----------------------------- MODULE BranchUpdater -----------------------------
(***************************************************************************)
(* The workflow that keeps the branches of open pull requests current.     *)
(* Every push to the default branch starts a pass and cancels the one in   *)
(* progress; a pass lists the open pull requests, polls GitHub for the     *)
(* merge state of each, merges the default branch into those that are      *)
(* behind, and reports.                                                    *)
(*                                                                         *)
(* The default branch is the number of pushes it has had.  GitHub is the   *)
(* environment: it forgets the merge states at a push and computes them    *)
(* again in the background, in any order and at any pace, cancels a job    *)
(* some time after it was told to, may lose a call or its answer, and      *)
(* answers an update before it has done it: the merge comes later or never.*)
(* Authors merge the default branch themselves, and rewrite their branches.*)
(***************************************************************************)
EXTENDS Integers, Sequences

CONSTANTS
  prs,       \* the open pull requests in list order: records [fork, draft, auto_merge]
  strict,    \* the repository requires branches to be up to date (yml:5)
  MaxPolls,  \* the rounds of mergeState
  MaxPushes,      \* bound: pushes to the default branch
  MaxDispatches   \* bound: passes started by hand

ASSUME UpdaterAssumption ==
  /\ prs \in Seq([fork : BOOLEAN, draft : BOOLEAN, auto_merge : BOOLEAN])
  /\ strict \in BOOLEAN
  /\ MaxPolls \in Nat \ {0} /\ MaxPushes \in Nat /\ MaxDispatches \in Nat

VARIABLES
  main,      \* the default branch
  has,       \* per pull request, the default branch it contains
  clash,     \* the pull requests whose branch conflicts with main
  known,     \* those whose merge state GitHub has computed
  queued,    \* those whose update GitHub has accepted and not carried out
  undone,    \* history: those that lost the default branch, or the update
             \* that was to bring it, since a pass last asked about them
  dispatches,  \* the passes started by hand so far
  pending,   \* the push whose pass waits to start; 0 if none does
  pc,        \* of the pass: "idle", "list", "select", "poll", "act"
  base,      \* the push that started the pass
  stop,      \* the pass has been told to cancel
  at,        \* the pull request it is at
  polls, state,                             \* mergeState: rounds done, result
  updated, conflicted, skipped, failed,     \* the report; skipped has the reason
  ended, outcome  \* the last pass not cancelled: its push, and "green", "red" or "aborted"

github == <<main, has, clash, known, queued, undone>>
report == <<updated, conflicted, skipped, failed>>
run == <<pending, base, stop, ended, outcome, dispatches>>
vars == <<github, run, pc, at, polls, state, report>>

PR == DOMAIN prs
selected(n) == ~prs[n].draft \/ prs[n].auto_merge

(* The branches a pass can touch; of the others nothing is read.           *)
Branch == { n \in PR : ~prs[n].fork /\ selected(n) }

Init ==
  /\ main = 0 /\ has = [ n \in Branch |-> 0 ] /\ clash = {} /\ known = Branch
  /\ queued = {} /\ undone = {} /\ dispatches = 0
  /\ pending = 0 /\ pc = "idle" /\ base = 0 /\ stop = FALSE
  /\ at = 1 /\ polls = 0 /\ state = "unknown"
  /\ updated = <<>> /\ conflicted = <<>> /\ skipped = <<>> /\ failed = <<>>
  /\ ended = 0 /\ outcome = "none"

-----------------------------------------------------------------------------
(* GitHub and the authors.                                                 *)
Pushed ==
  /\ main < MaxPushes /\ main' = main + 1
  /\ clash' \in { c \in SUBSET Branch : clash \subseteq c } /\ known' = {}
  /\ UNCHANGED <<has, queued, undone, dispatches, pc, at, polls, state, report, base, ended, outcome>>

(* Faulty: a push during a pass waits for no pass of its own.              *)
PushIgnoredWhileRunning ==
  Pushed /\ pending' = (IF pc = "idle" THEN main' ELSE pending) /\ UNCHANGED stop

(* cancel-in-progress: the pass of the push replaces the one that waits    *)
(* and cancels the one that runs.                                          *)
Push == Pushed /\ pending' = main' /\ stop' = (pc # "idle")

(* workflow_dispatch: a pass without a push, in the same concurrency group.*)
(* Before the first push there is nothing to bring to a branch.            *)
Dispatch ==
  /\ main > 0 /\ dispatches < MaxDispatches /\ dispatches' = dispatches + 1
  /\ pending' = main /\ stop' = (pc # "idle")
  /\ UNCHANGED <<github, pc, at, polls, state, report, base, ended, outcome>>

ComputeState ==
  /\ \E n \in Branch \ known : known' = known \cup {n}
  /\ UNCHANGED <<main, has, clash, queued, undone, run, pc, at, polls, state, report>>

(* An author merges the default branch and resolves the conflicts.         *)
AuthorMerges ==
  /\ \E n \in Branch :
       /\ has[n] < main /\ has' = [has EXCEPT ![n] = main]
       /\ clash' = clash \ {n} /\ known' = known \ {n}
  /\ UNCHANGED <<main, queued, undone, run, pc, at, polls, state, report>>

(* An author rewrites the branch and pushes it by force: it stands on an   *)
(* older default branch, and may conflict or not.                          *)
AuthorRewrites ==
  /\ \E n \in Branch : \E v \in 0 .. has[n] - 1 :
       /\ has' = [has EXCEPT ![n] = v] /\ clash' \in {clash \ {n}, clash \cup {n}}
       /\ known' = known \ {n} /\ undone' = undone \cup {n}
  /\ UNCHANGED <<main, queued, run, pc, at, polls, state, report>>

(* GitHub carries out an update it has accepted: it merges the default     *)
(* branch as it is now.                                                    *)
CarryOut ==
  /\ \E n \in queued \ clash :
       /\ queued' = queued \ {n} /\ known' = known \ {n}
       /\ has' = [has EXCEPT ![n] = main]
  /\ UNCHANGED <<main, clash, undone, run, pc, at, polls, state, report>>

(* It gives one up: a conflict by then, a head that moved, a rule.         *)
GiveUp ==
  /\ \E n \in queued : queued' = queued \ {n} /\ undone' = undone \cup {n}
  /\ UNCHANGED <<main, has, clash, known, run, pc, at, polls, state, report>>

(* What GitHub may answer.  "blocked" stands for the states that say       *)
(* nothing of the default branch: a review or a check that is missing,     *)
(* blocked (yml:17), unstable or draft.  They hide that a branch is behind,*)
(* and without the strict rule nothing is behind.                          *)
mergeable_state(n) ==
  CASE n \notin known -> {"unknown"}
    [] n \in known /\ has[n] = main -> {"clean", "blocked"}
    [] n \in known /\ has[n] < main /\ n \in clash -> {"dirty"}
    [] OTHER -> IF strict THEN {"behind", "blocked"} ELSE {"clean", "blocked"}

-----------------------------------------------------------------------------
(* The life of a pass.                                                     *)
StartPass ==
  /\ pc = "idle" /\ pending # 0
  /\ base' = pending /\ pending' = 0 /\ stop' = FALSE /\ pc' = "list"
  /\ UNCHANGED <<github, at, polls, state, report, ended, outcome, dispatches>>

(* The job's memory goes with it.                                          *)
NoReport == updated' = <<>> /\ conflicted' = <<>> /\ skipped' = <<>> /\ failed' = <<>>
Unpolled == polls' = 0 /\ state' = "unknown"
Forgotten == at' = 1 /\ Unpolled /\ NoReport

CancelPass ==
  /\ pc # "idle" /\ stop
  /\ pc' = "idle" /\ outcome' = "cancelled" /\ Forgotten
  /\ UNCHANGED <<github, pending, base, stop, ended, dispatches>>

(* An error outside of the try, or the job's timeout: no report is written.*)
AbortPass ==
  /\ pc # "idle"
  /\ pc' = "idle" /\ ended' = base /\ outcome' = "aborted" /\ Forgotten
  /\ UNCHANGED <<github, pending, base, stop, dispatches>>

ListPrs ==
  /\ pc = "list" /\ pc' = "select" /\ at' = 1 /\ NoReport
  /\ UNCHANGED <<github, run, polls, state>>

Following == pc' = "select" /\ at' = at + 1 /\ Unpolled /\ UNCHANGED run

SkipPr ==
  /\ pc = "select" /\ at \in PR
  /\ \/ prs[at].fork /\ skipped' = Append(skipped, [pr |-> at, why |-> "fork"])
     \/ /\ ~prs[at].fork /\ ~selected(at)
        /\ skipped' = Append(skipped, [pr |-> at, why |-> "not selected"])
  /\ Following /\ UNCHANGED <<github, updated, conflicted, failed>>

SelectPr ==
  /\ pc = "select" /\ at \in PR /\ ~prs[at].fork /\ selected(at)
  /\ pc' = "poll" /\ Unpolled
  /\ UNCHANGED <<github, run, at, report>>

(* Faulty: one round too many.                                             *)
LastPollOff == polls = MaxPolls
LastPoll == polls + 1 = MaxPolls

(* One round of mergeState; the pull request may change right after it.    *)
Poll ==
  /\ pc = "poll" /\ state' \in mergeable_state(at) /\ polls' = polls + 1
  /\ pc' = IF state' # "unknown" \/ LastPoll THEN "act" ELSE "poll"
  /\ undone' = undone \ {at}
  /\ UNCHANGED <<main, has, clash, known, queued, run, at, report>>

(* Faulty: the update is tried after all.                                  *)
FileConflictOnly ==
  /\ pc = "act" /\ state = "dirty"
  /\ conflicted' = Append(conflicted, at) /\ state' = "behind"
  /\ UNCHANGED <<github, run, pc, at, polls, updated, skipped, failed>>

FileConflict ==
  /\ pc = "act" /\ state = "dirty" /\ conflicted' = Append(conflicted, at)
  /\ Following /\ UNCHANGED <<github, updated, skipped, failed>>

FileUpToDate ==
  /\ pc = "act" /\ state \notin {"dirty", "behind"}
  /\ skipped' = Append(skipped, [pr |-> at, why |-> state])
  /\ Following /\ UNCHANGED <<github, updated, conflicted, failed>>

(* 202: the update is queued.                                              *)
Accepted ==
  /\ has[at] < main /\ at \notin clash
  /\ queued' = queued \cup {at} /\ undone' = undone \ {at}
  /\ UNCHANGED <<main, has, clash, known>>

UpdateBranch ==
  /\ pc = "act" /\ state = "behind" /\ Following /\ UNCHANGED skipped
  /\ \/ Accepted /\ updated' = Append(updated, at) /\ UNCHANGED <<conflicted, failed>>
     \/ /\ has[at] < main /\ at \in clash     \* 422, "conflict"
        /\ conflicted' = Append(conflicted, at) /\ UNCHANGED <<github, updated, failed>>
     \/ /\ failed' = Append(failed, at) /\ UNCHANGED <<updated, conflicted>>
        /\ \/ UNCHANGED github                \* any other error, nothing to merge included
           \/ Accepted                        \* the answer is lost

(* Faulty: a pass with failures does not fail.                             *)
ReportGreen ==
  /\ pc = "select" /\ at \notin PR
  /\ pc' = "idle" /\ ended' = base /\ outcome' = "green"
  /\ UNCHANGED <<github, pending, base, stop, dispatches, at, polls, state, report>>

Report ==
  /\ pc = "select" /\ at \notin PR
  /\ pc' = "idle" /\ ended' = base /\ outcome' = IF failed = <<>> THEN "green" ELSE "red"
  /\ UNCHANGED <<github, pending, base, stop, dispatches, at, polls, state, report>>

Pass ==
  \/ ListPrs \/ SkipPr \/ SelectPr \/ Poll \/ FileConflict \/ FileUpToDate
  \/ UpdateBranch \/ Report \/ CancelPass \/ AbortPass

Next ==
  \/ Push \/ Dispatch \/ ComputeState \/ AuthorMerges \/ AuthorRewrites
  \/ CarryOut \/ GiveUp \/ StartPass \/ Pass

(* A waiting job is started and a job goes on to its end or its timeout;   *)
(* nothing is asked of GitHub's computing, of the updates it has accepted  *)
(* or of the authors.                                                      *)
Spec == Init /\ [][Next]_vars /\ WF_vars(StartPass) /\ WF_vars(Pass)

-----------------------------------------------------------------------------
TypeOK ==
  /\ main \in 0 .. MaxPushes /\ has \in [Branch -> 0 .. main]
  /\ clash \subseteq Branch /\ known \subseteq Branch
  /\ queued \subseteq Branch /\ undone \subseteq Branch /\ dispatches \in 0 .. MaxDispatches
  /\ pending \in 0 .. main /\ base \in 0 .. main /\ ended \in 0 .. main /\ stop \in BOOLEAN
  /\ pc \in {"idle", "list", "select", "poll", "act"} /\ at \in 1 .. Len(prs) + 1
  /\ polls \in 0 .. MaxPolls /\ state \in {"unknown", "clean", "blocked", "dirty", "behind"}
  /\ outcome \in {"none", "green", "red", "aborted", "cancelled"}

Reported == pc = "idle" /\ outcome \in {"green", "red"}
Times(n) ==
  LET all == [ k \in DOMAIN skipped |-> skipped[k].pr ] \o updated \o conflicted \o failed
  IN { k \in DOMAIN all : all[k] = n }

(* A report has every open pull request in exactly one of its sections,    *)
(* whatever happened to it between the poll and the update (yml:112).      *)
EveryPrReported ==
  Reported => \A n \in PR : \E k \in Times(n) : Times(n) = {k}

(* A green pass accounts for the push that started it (yml:8, 104, 131-138)*)
(* on every selected branch, whatever authors, GitHub and later pushes did *)
(* meanwhile.  The branch has the push, or an update that will bring it is *)
(* queued, or it had one of the two and GitHub or an author undid it after *)
(* the pass last asked; or the report owns up to it: a conflict, or a      *)
(* branch skipped in a state that says nothing of the push.  "clean" is    *)
(* such a state only where up to date branches are not required; "behind"  *)
(* never is.                                                               *)
Opaque == {"unknown", "blocked"} \cup (IF strict THEN {} ELSE {"clean"})
GreenMeansCurrent ==
  Reported /\ outcome = "green" => \A n \in Branch :
    \/ has[n] >= base \/ n \in queued \/ n \in undone
    \/ \E k \in DOMAIN conflicted : conflicted[k] = n
    \/ \E k \in DOMAIN skipped, why \in Opaque : skipped[k] = [pr |-> n, why |-> why]

(* Cancelling never loses a push: unless a newer one follows, a pass of it *)
(* comes to its own end, "a single pass against the newest default branch" *)
(* (yml:40), however slow GitHub is in computing the merge states.         *)
PushesAreHandled == \A v \in 1 .. MaxPushes : main = v ~> ended = v \/ main > v
===============================================================================
