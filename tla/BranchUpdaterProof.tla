-------------------------- MODULE BranchUpdaterProof --------------------------
(***************************************************************************)
(* Proofs about BranchUpdater, for any list of pull requests and any       *)
(* numbers of polls and pushes.                                            *)
(*                                                                         *)
(* The invariant follows a pass through the list: the pull requests before *)
(* at are filed once and account for the push that started the pass, those *)
(* from at on are not filed.                                               *)
(***************************************************************************)
EXTENDS BranchUpdater, SequenceTheorems, TLAPS

Section == Seq(PR)
Skip == [pr : PR, why : {"fork", "not selected", "unknown", "clean", "blocked"}]
skippedPrs == [ k \in DOMAIN skipped |-> skipped[k].pr ]

(* How often n is in a section.                                            *)
Absent(s, n) == \A k \in DOMAIN s : s[k] # n
Once(s, n) == \E k \in DOMAIN s : { j \in DOMAIN s : s[j] = n } = {k}

Unfiled(n) ==
  Absent(skippedPrs, n) /\ Absent(updated, n) /\ Absent(conflicted, n) /\ Absent(failed, n)
Filed(n) ==
  \/ Once(skippedPrs, n) /\ Absent(updated, n) /\ Absent(conflicted, n) /\ Absent(failed, n)
  \/ Absent(skippedPrs, n) /\ Once(updated, n) /\ Absent(conflicted, n) /\ Absent(failed, n)
  \/ Absent(skippedPrs, n) /\ Absent(updated, n) /\ Once(conflicted, n) /\ Absent(failed, n)
  \/ Absent(skippedPrs, n) /\ Absent(updated, n) /\ Absent(conflicted, n) /\ Once(failed, n)

Mentions(s, x) == \E k \in DOMAIN s : s[k] = x

(* A branch that has the push of the pass, or an update that will bring it,*)
(* or that had one of them when the pass last asked.                       *)
Brought(n) == has[n] >= base \/ n \in queued \/ n \in undone

(* Or one that the report owns up to.                                      *)
Settled(n) ==
  \/ Brought(n) \/ Mentions(conflicted, n)
  \/ \E why \in Opaque : Mentions(skipped, [pr |-> n, why |-> why])

GithubOK ==
  /\ has \in [Branch -> 0 .. main] /\ clash \subseteq Branch /\ known \subseteq Branch
  /\ queued \subseteq Branch /\ undone \subseteq Branch

Walking == pc \in {"select", "poll", "act"}

Sections ==
  updated \in Section /\ conflicted \in Section /\ failed \in Section /\ skipped \in Seq(Skip)

(* A pull request that is polled or acted on is one a pass may touch, and  *)
(* there is a round of polling left.                                       *)
AtBranch ==
  /\ pc \in {"poll", "act"} => at \in Branch
  /\ pc = "poll" => polls < MaxPolls

FiledBefore == Walking => \A n \in PR : IF n < at THEN Filed(n) ELSE Unfiled(n)

(* What was brought to a branch stays accounted for; where up to date      *)
(* branches are required, "clean" says that it has the push.               *)
SettledBefore ==
  /\ Walking => \A n \in Branch : n < at => Settled(n) \/ Mentions(failed, n)
  /\ pc = "act" /\ state = "clean" /\ strict => Brought(at)

FiledAtEnd == Reported => \A n \in PR : Filed(n)

UpdaterInv ==
  /\ TypeOK /\ Sections /\ AtBranch
  /\ FiledBefore /\ FiledAtEnd
  /\ SettledBefore /\ GreenMeansCurrent

-----------------------------------------------------------------------------
(* Sections that grow.                                                     *)
LEMMA AppendFiles ==
  ASSUME NEW S, NEW s \in Seq(S), NEW x \in S
  PROVE  /\ Absent(s, x) => Once(Append(s, x), x)
         /\ \A n \in S \ {x} : /\ Absent(s, n) => Absent(Append(s, x), n)
                               /\ Once(s, n) => Once(Append(s, x), n)
<1> DEFINE t == Append(s, x)
<1>1. DOMAIN t = 1 .. Len(s) + 1 /\ t[Len(s) + 1] = x /\ \A k \in 1 .. Len(s) : t[k] = s[k]
  OBVIOUS
<1>2. DOMAIN s = 1 .. Len(s) /\ Len(s) \in Nat
  OBVIOUS
<1> HIDE DEF t
<1>3. ASSUME Absent(s, x) PROVE Once(t, x)
  <2>1. { j \in DOMAIN t : t[j] = x } = {Len(s) + 1}
    BY <1>1, <1>2, <1>3 DEF Absent
  <2>2. QED
    BY <1>1, <1>2, <2>1 DEF Once
<1>4. ASSUME NEW n \in S \ {x}
      PROVE  { j \in DOMAIN t : t[j] = n } = { j \in DOMAIN s : s[j] = n }
  BY <1>1, <1>2
<1>5. ASSUME NEW n \in S \ {x}, Absent(s, n) PROVE Absent(t, n)
  BY <1>1, <1>2, <1>5 DEF Absent
<1>6. ASSUME NEW n \in S \ {x}, Once(s, n) PROVE Once(t, n)
  <2>1. PICK k \in DOMAIN s : { j \in DOMAIN s : s[j] = n } = {k}
    BY <1>6 DEF Once
  <2>2. { j \in DOMAIN t : t[j] = n } = {k} /\ k \in DOMAIN t
    BY <1>1, <1>2, <1>4, <2>1
  <2>3. QED
    BY <2>2 DEF Once
<1>7. QED
  BY <1>3, <1>5, <1>6 DEF t

LEMMA AppendMentions ==
  ASSUME NEW S, NEW s \in Seq(S), NEW x \in S
  PROVE  /\ Mentions(Append(s, x), x)
         /\ \A y : Mentions(s, y) => Mentions(Append(s, x), y)
<1>1. /\ DOMAIN Append(s, x) = 1 .. Len(s) + 1 /\ Append(s, x)[Len(s) + 1] = x
      /\ \A k \in 1 .. Len(s) : Append(s, x)[k] = s[k]
      /\ DOMAIN s = 1 .. Len(s) /\ Len(s) \in Nat
  OBVIOUS
<1>2. QED
  BY <1>1 DEF Mentions

LEMMA Projected ==
  ASSUME NEW s \in Seq(Skip)
  PROVE  LET t == [ k \in DOMAIN s |-> s[k].pr ] IN t \in Section /\ Len(t) = Len(s)
<1> DEFINE t == [ k \in DOMAIN s |-> s[k].pr ]
<1>1. DOMAIN s = 1 .. Len(s) /\ Len(s) \in Nat /\ \A k \in 1 .. Len(s) : s[k] \in Skip
  OBVIOUS
<1>2. \A k \in 1 .. Len(s) : s[k].pr \in PR
  BY <1>1 DEF Skip
<1>3. t \in [1 .. Len(s) -> PR]
  BY <1>1, <1>2
<1> HIDE DEF t
<1>4. t \in Seq(PR) /\ Len(t) = Len(s)
  BY <1>1, <1>3
<1>5. QED
  BY <1>4 DEF t, Section

LEMMA SkippedGrows ==
  ASSUME Sections, NEW r \in Skip, skipped' = Append(skipped, r)
  PROVE  skippedPrs \in Section /\ skippedPrs' = Append(skippedPrs, r.pr)
<1>1. skipped \in Seq(Skip) /\ r.pr \in PR
  BY DEF Sections, Skip
<1>2. skippedPrs \in Section /\ Len(skippedPrs) = Len(skipped)
  BY <1>1, Projected DEF skippedPrs
<1>3. skippedPrs' \in Section /\ Len(skippedPrs') = Len(skipped) + 1
  <2>1. skipped' \in Seq(Skip) /\ Len(skipped') = Len(skipped) + 1
    BY <1>1
  <2>2. QED
    BY <2>1, Projected DEF skippedPrs
<1>4. Append(skippedPrs, r.pr) \in Section /\ Len(Append(skippedPrs, r.pr)) = Len(skipped) + 1
  BY <1>1, <1>2 DEF Section
<1>5. \A k \in 1 .. Len(skipped) + 1 : skippedPrs'[k] = Append(skippedPrs, r.pr)[k]
  <2> SUFFICES ASSUME NEW k \in 1 .. Len(skipped) + 1
               PROVE  skippedPrs'[k] = Append(skippedPrs, r.pr)[k]
    OBVIOUS
  <2>1. skippedPrs'[k] = Append(skipped, r)[k].pr
    BY <1>1 DEF skippedPrs
  <2>2. Append(skippedPrs, r.pr)[k] = IF k = Len(skipped) + 1 THEN r.pr ELSE skippedPrs[k]
    BY <1>1, <1>2 DEF Section
  <2>3. Append(skipped, r)[k] = IF k = Len(skipped) + 1 THEN r ELSE skipped[k]
    BY <1>1
  <2>4. k # Len(skipped) + 1 => skippedPrs[k] = skipped[k].pr
    BY <1>1 DEF skippedPrs
  <2>5. QED
    BY <2>1, <2>2, <2>3, <2>4
<1>6. QED
  BY <1>2, <1>3, <1>4, <1>5, SeqEqual DEF Section

-----------------------------------------------------------------------------
LEMMA InitUpdater == Init => UpdaterInv
<1> SUFFICES ASSUME Init PROVE UpdaterInv
  OBVIOUS
<1>1. TypeOK
  <2>1. has \in [Branch -> 0 .. main] /\ main \in 0 .. MaxPushes
    <3>1. main = 0 /\ has = [ n \in Branch |-> 0 ]
      BY DEF Init
    <3>2. QED
      BY <3>1, UpdaterAssumption
  <2>2. at \in 1 .. Len(prs) + 1 /\ polls \in 0 .. MaxPolls
    BY UpdaterAssumption DEF Init
  <2>3. stop \in BOOLEAN /\ pending \in 0 .. main /\ base \in 0 .. main /\ ended \in 0 .. main
    <3>1. stop \in BOOLEAN
      BY Zenon DEF Init
    <3>2. main = 0 /\ pending = 0 /\ base = 0 /\ ended = 0
      BY DEF Init
    <3>3. QED
      BY <3>1, <3>2
  <2>4. dispatches \in 0 .. MaxDispatches /\ queued \subseteq Branch /\ undone \subseteq Branch
    BY UpdaterAssumption DEF Init
  <2>5. QED
    BY <2>1, <2>2, <2>3, <2>4 DEF Init, TypeOK
<1>2. Sections
  <2>1. updated = <<>> /\ conflicted = <<>> /\ failed = <<>> /\ skipped = <<>>
    BY DEF Init
  <2>2. QED
    BY <2>1 DEF Sections, Section
<1>3. QED
  BY <1>1, <1>2 DEF Init, UpdaterInv, AtBranch, FiledBefore, FiledAtEnd, SettledBefore,
                    GreenMeansCurrent, Walking, Reported

(* What the assumption and the invariant say of the list.                  *)
LEMMA UpdaterFacts ==
  ASSUME UpdaterInv
  PROVE  /\ PR = 1 .. Len(prs) /\ Len(prs) \in Nat /\ Branch \subseteq PR
         /\ main \in Nat /\ base \in 0 .. main /\ at \in 1 .. Len(prs) + 1
         /\ MaxPolls \in Nat \ {0} /\ MaxPushes \in Nat
         /\ \A n \in Branch : has[n] \in 0 .. main
  BY UpdaterAssumption DEF UpdaterInv, TypeOK, PR, Branch

(* What the environment does leaves the pass alone, and takes back nothing *)
(* that is not noted.                                                      *)
Environment ==
  Push \/ Dispatch \/ ComputeState \/ AuthorMerges \/ AuthorRewrites \/ CarryOut \/ GiveUp

LEMMA EnvironmentNotes ==
  ASSUME UpdaterInv, Environment
  PROVE  /\ UNCHANGED <<pc, at, polls, state, base, ended, outcome>>
         /\ UNCHANGED <<updated, conflicted, skipped, failed>>
         /\ main' \in main .. MaxPushes /\ GithubOK'
         /\ \A n \in Branch : Brought(n) => Brought(n)'
<1>1. main \in Nat /\ MaxPushes \in Nat /\ main <= MaxPushes /\ base \in 0 .. main /\ GithubOK
  BY UpdaterFacts DEF UpdaterInv, TypeOK, GithubOK
<1>2. CASE Push
  <2>1. /\ main' = main + 1 /\ main < MaxPushes /\ clash' \subseteq Branch /\ known' = {}
        /\ UNCHANGED <<has, queued, undone, base>>
    BY <1>2 DEF Push, Pushed
  <2>2. UNCHANGED <<pc, at, polls, state, ended, outcome, updated, conflicted, skipped, failed>>
    BY <1>2 DEF Push, Pushed, report
  <2>3. main' \in main .. MaxPushes
    BY <1>1, <2>1
  <2>4. has' \in [Branch -> 0 .. main']
    BY <1>1, <2>1 DEF GithubOK
  <2>5. QED
    BY <1>1, <2>1, <2>2, <2>3, <2>4 DEF GithubOK, Brought
<1>3. CASE Dispatch \/ ComputeState
  <2>1. UNCHANGED <<main, has, clash, queued, undone, base>> /\ known' \subseteq Branch
    BY <1>1, <1>3 DEF Dispatch, ComputeState, github, run, GithubOK
  <2>2. UNCHANGED <<pc, at, polls, state, ended, outcome, updated, conflicted, skipped, failed>>
    BY <1>3 DEF Dispatch, ComputeState, run, report
  <2>3. QED
    BY <1>1, <2>1, <2>2 DEF GithubOK, Brought
<1>4. CASE AuthorMerges \/ AuthorRewrites \/ CarryOut \/ GiveUp
  <2>1. UNCHANGED <<main, base, pc, at, polls, state, ended, outcome>>
        /\ UNCHANGED <<updated, conflicted, skipped, failed>>
    BY <1>4 DEF AuthorMerges, AuthorRewrites, CarryOut, GiveUp, run, report
  <2>2. clash' \subseteq Branch /\ known' \subseteq Branch
        /\ queued' \subseteq Branch /\ undone' \subseteq Branch
    BY <1>1, <1>4 DEF AuthorMerges, AuthorRewrites, CarryOut, GiveUp, GithubOK
  <2>3. CASE AuthorMerges \/ CarryOut
    <3>1. PICK n \in Branch : /\ has' = [has EXCEPT ![n] = main] /\ undone' = undone
                              /\ queued' \in {queued, queued \ {n}}
      BY <1>1, <2>3 DEF AuthorMerges, CarryOut, GithubOK
    <3>2. has' \in [Branch -> 0 .. main] /\ has'[n] >= base
          /\ \A m \in Branch \ {n} : has'[m] = has[m]
      BY <1>1, <3>1 DEF GithubOK
    <3>3. \A m \in Branch : Brought(m) => Brought(m)'
      BY <2>1, <3>1, <3>2 DEF Brought
    <3>4. QED
      BY <1>1, <2>1, <2>2, <3>2, <3>3 DEF GithubOK
  <2>4. CASE AuthorRewrites
    <3>1. PICK n \in Branch : \E v \in 0 .. has[n] - 1 :
            has' = [has EXCEPT ![n] = v] /\ undone' = undone \cup {n} /\ queued' = queued
      BY <2>4 DEF AuthorRewrites
    <3>2. PICK v \in 0 .. has[n] - 1 : has' = [has EXCEPT ![n] = v]
      BY <3>1
    <3>3. v \in 0 .. main
      BY <1>1, <3>2 DEF GithubOK
    <3>4. has' \in [Branch -> 0 .. main] /\ \A m \in Branch \ {n} : has'[m] = has[m]
      BY <1>1, <3>2, <3>3 DEF GithubOK
    <3>5. \A m \in Branch : Brought(m) => Brought(m)'
      BY <2>1, <3>1, <3>4 DEF Brought
    <3>6. QED
      BY <1>1, <2>1, <2>2, <3>4, <3>5 DEF GithubOK
  <2>5. CASE GiveUp
    <3>1. PICK n \in queued : queued' = queued \ {n} /\ undone' = undone \cup {n} /\ has' = has
      BY <2>5 DEF GiveUp
    <3>2. QED
      BY <1>1, <2>1, <2>2, <3>1 DEF GithubOK, Brought
  <2>6. QED
    BY <1>4, <2>3, <2>4, <2>5
<1>5. QED
  BY <1>2, <1>3, <1>4 DEF Environment

LEMMA OthersKeep ==
  ASSUME UpdaterInv, Environment
  PROVE  UpdaterInv'
<1>1. /\ UNCHANGED <<pc, at, polls, state, base, ended, outcome>>
      /\ UNCHANGED <<updated, conflicted, skipped, failed>>
      /\ main' \in main .. MaxPushes /\ GithubOK'
      /\ \A n \in Branch : Brought(n) => Brought(n)'
  BY EnvironmentNotes
<1>2. pending' \in 0 .. main' /\ stop' \in BOOLEAN
  <2>1. pending \in 0 .. main /\ stop \in BOOLEAN
    BY DEF UpdaterInv, TypeOK
  <2>2. CASE Push \/ Dispatch
    <3>1. pending' = main' /\ main' \in Nat
      BY <1>1, <2>2, UpdaterFacts DEF Push, Dispatch, github
    <3>2. stop' \in BOOLEAN
      BY <2>2, Zenon DEF Push, Dispatch
    <3>3. QED
      BY <3>1, <3>2
  <2>3. CASE ~(Push \/ Dispatch)
    <3>1. UNCHANGED <<pending, stop, main>>
      BY <2>3 DEF Environment, ComputeState, AuthorMerges, AuthorRewrites, CarryOut, GiveUp, run
    <3>2. QED
      BY <2>1, <3>1
  <2>4. QED
    BY <2>2, <2>3
<1>3. dispatches' \in 0 .. MaxDispatches
  <2>1. dispatches \in 0 .. MaxDispatches /\ MaxDispatches \in Nat
    BY UpdaterAssumption DEF UpdaterInv, TypeOK
  <2>2. dispatches' = dispatches \/ (dispatches < MaxDispatches /\ dispatches' = dispatches + 1)
    BY DEF Environment, Push, Pushed, Dispatch, ComputeState, AuthorMerges, AuthorRewrites,
           CarryOut, GiveUp, run
  <2>3. QED
    BY <2>1, <2>2
<1>4. TypeOK'
  BY <1>1, <1>2, <1>3, UpdaterFacts DEF UpdaterInv, TypeOK, GithubOK
<1>5. (Sections /\ AtBranch /\ FiledBefore /\ FiledAtEnd)'
  BY <1>1 DEF UpdaterInv, Sections, AtBranch, FiledBefore, FiledAtEnd, Filed, Unfiled,
              Walking, Reported, skippedPrs
<1>6. (SettledBefore /\ GreenMeansCurrent)'
  <2>1. \A n \in Branch : Settled(n) => Settled(n)'
    BY <1>1 DEF Settled, Mentions
  <2>2. SettledBefore'
    BY <1>1, <2>1 DEF UpdaterInv, SettledBefore, AtBranch, Mentions, Walking
  <2>3. GreenMeansCurrent => \A n \in Branch : Reported /\ outcome = "green" => Settled(n)
    BY DEF GreenMeansCurrent, Settled, Brought, Mentions
  <2>4. (\A n \in Branch : Reported /\ outcome = "green" => Settled(n)') => GreenMeansCurrent'
    BY <1>1 DEF GreenMeansCurrent, Settled, Brought, Mentions, Reported
  <2>5. QED
    BY <2>1, <2>2, <2>3, <2>4 DEF UpdaterInv
<1>7. QED
  BY <1>4, <1>5, <1>6 DEF UpdaterInv

-----------------------------------------------------------------------------
(* Filing the pull request the pass is at, in any section.                 *)
FilesAt ==
  \/ /\ \E r \in Skip : r.pr = at /\ skipped' = Append(skipped, r)
     /\ UNCHANGED <<updated, conflicted, failed>>
  \/ updated' = Append(updated, at) /\ UNCHANGED <<skipped, conflicted, failed>>
  \/ conflicted' = Append(conflicted, at) /\ UNCHANGED <<skipped, updated, failed>>
  \/ failed' = Append(failed, at) /\ UNCHANGED <<skipped, updated, conflicted>>

LEMMA FilesOne ==
  ASSUME UpdaterInv, Walking, at \in PR, FilesAt, at' = at + 1
  PROVE  /\ Sections' /\ FiledBefore'
         /\ \A x : /\ Mentions(conflicted, x) => Mentions(conflicted, x)'
                   /\ Mentions(skipped, x) => Mentions(skipped, x)'
                   /\ Mentions(failed, x) => Mentions(failed, x)'
<1>1. Sections /\ updated \in Seq(PR) /\ conflicted \in Seq(PR) /\ failed \in Seq(PR)
      /\ skipped \in Seq(Skip) /\ skippedPrs \in Seq(PR)
  BY Projected DEF UpdaterInv, Sections, Section, skippedPrs
<1>2. Unfiled(at) /\ \A n \in PR : IF n < at THEN Filed(n) ELSE Unfiled(n)
  BY UpdaterFacts DEF UpdaterInv, FiledBefore
<1>3. \A n \in PR : IF n < at' THEN n = at \/ n < at ELSE n # at /\ ~(n < at)
  BY UpdaterFacts
<1> DEFINE
  Carried == \A n \in PR :
    /\ n = at => Filed(n)'
    /\ n # at => (Filed(n) => Filed(n)') /\ (Unfiled(n) => Unfiled(n)')
  Kept == \A x :
    /\ Mentions(conflicted, x) => Mentions(conflicted, x)'
    /\ Mentions(skipped, x) => Mentions(skipped, x)'
    /\ Mentions(failed, x) => Mentions(failed, x)'
<1>4. ASSUME NEW r \in Skip, r.pr = at, skipped' = Append(skipped, r),
             UNCHANGED <<updated, conflicted, failed>>
      PROVE  Sections' /\ Carried /\ Kept
  <2>1. skippedPrs' = Append(skippedPrs, at)
    BY <1>1, <1>4, SkippedGrows
  <2>2. /\ Absent(skippedPrs, at) => Once(skippedPrs', at)
        /\ \A n \in PR \ {at} : /\ Absent(skippedPrs, n) => Absent(skippedPrs', n)
                                /\ Once(skippedPrs, n) => Once(skippedPrs', n)
    BY <1>1, <2>1, AppendFiles
  <2>3. Carried
    BY <1>2, <1>4, <2>2 DEF Filed, Unfiled
  <2>4. skipped' \in Seq(Skip) /\ Kept
    BY <1>1, <1>4, AppendMentions
  <2>5. QED
    BY <1>1, <1>4, <2>3, <2>4 DEF Sections, Section
<1>5. ASSUME updated' = Append(updated, at), UNCHANGED <<skipped, conflicted, failed>>
      PROVE  Sections' /\ Carried /\ Kept
  <2>1. skippedPrs' = skippedPrs
    BY <1>5 DEF skippedPrs
  <2>2. /\ Absent(updated, at) => Once(updated', at)
        /\ \A n \in PR \ {at} : /\ Absent(updated, n) => Absent(updated', n)
                                /\ Once(updated, n) => Once(updated', n)
    BY <1>1, <1>5, AppendFiles
  <2>3. Carried
    BY <1>2, <1>5, <2>1, <2>2 DEF Filed, Unfiled
  <2>4. updated' \in Seq(PR) /\ Kept
    BY <1>1, <1>5
  <2>5. QED
    BY <1>1, <1>5, <2>3, <2>4 DEF Sections, Section
<1>6. ASSUME conflicted' = Append(conflicted, at), UNCHANGED <<skipped, updated, failed>>
      PROVE  Sections' /\ Carried /\ Kept
  <2>1. skippedPrs' = skippedPrs
    BY <1>6 DEF skippedPrs
  <2>2. /\ Absent(conflicted, at) => Once(conflicted', at)
        /\ \A n \in PR \ {at} : /\ Absent(conflicted, n) => Absent(conflicted', n)
                                /\ Once(conflicted, n) => Once(conflicted', n)
    BY <1>1, <1>6, AppendFiles
  <2>3. Carried
    BY <1>2, <1>6, <2>1, <2>2 DEF Filed, Unfiled
  <2>4. conflicted' \in Seq(PR) /\ Kept
    BY <1>1, <1>6, AppendMentions
  <2>5. QED
    BY <1>1, <1>6, <2>3, <2>4 DEF Sections, Section
<1>7. ASSUME failed' = Append(failed, at), UNCHANGED <<skipped, updated, conflicted>>
      PROVE  Sections' /\ Carried /\ Kept
  <2>1. skippedPrs' = skippedPrs
    BY <1>7 DEF skippedPrs
  <2>2. /\ Absent(failed, at) => Once(failed', at)
        /\ \A n \in PR \ {at} : /\ Absent(failed, n) => Absent(failed', n)
                                /\ Once(failed, n) => Once(failed', n)
    BY <1>1, <1>7, AppendFiles
  <2>3. Carried
    BY <1>2, <1>7, <2>1, <2>2 DEF Filed, Unfiled
  <2>4. failed' \in Seq(PR) /\ Kept
    BY <1>1, <1>7, AppendMentions
  <2>5. QED
    BY <1>1, <1>7, <2>3, <2>4 DEF Sections, Section
<1>8. Sections' /\ Carried /\ Kept
  <2> HIDE DEF Carried, Kept
  <2>1. QED
    BY <1>4, <1>5, <1>6, <1>7 DEF FilesAt
<1>9. FiledBefore'
  BY <1>2, <1>3, <1>8 DEF FiledBefore
<1>10. QED
  BY <1>8, <1>9

(* A step that asks nothing of GitHub.                                     *)
LEMMA GithubStays ==
  ASSUME UpdaterInv, UNCHANGED github, UNCHANGED run
  PROVE  /\ main' = main /\ base' = base /\ GithubOK'
         /\ \A n \in Branch : Brought(n)' = Brought(n)
<1>1. UNCHANGED <<main, has, clash, known, queued, undone>> /\ base' = base
  BY Zenon DEF github, run
<1>2. GithubOK'
  BY <1>1 DEF UpdaterInv, TypeOK, GithubOK
<1>3. QED
  BY <1>1, <1>2 DEF Brought

(* An action that files the pull request and goes on to the next.          *)
LEMMA FollowingKeeps ==
  ASSUME UpdaterInv, Walking, at \in PR, FilesAt, Following,
         main' = main, GithubOK', \A n \in Branch \ {at} : Brought(n) => Brought(n)',
         \A n \in Branch : n = at => (Settled(n) \/ Mentions(failed, n))'
  PROVE  UpdaterInv'
<1>1. pc' = "select" /\ at' = at + 1 /\ polls' = 0 /\ state' = "unknown"
      /\ UNCHANGED <<pending, base, stop, ended, outcome, dispatches>>
  BY DEF Following, Unpolled, run
<1>2. TypeOK'
  BY <1>1, UpdaterFacts DEF UpdaterInv, TypeOK, GithubOK
<1>3. /\ Sections' /\ FiledBefore'
      /\ \A x : /\ Mentions(conflicted, x) => Mentions(conflicted, x)'
                /\ Mentions(skipped, x) => Mentions(skipped, x)'
                /\ Mentions(failed, x) => Mentions(failed, x)'
  BY <1>1, FilesOne
<1>4. AtBranch' /\ FiledAtEnd' /\ GreenMeansCurrent'
  BY <1>1 DEF AtBranch, FiledAtEnd, GreenMeansCurrent, Reported
<1>5. SettledBefore'
  <2> SUFFICES ASSUME NEW n \in Branch, n < at' PROVE (Settled(n) \/ Mentions(failed, n))'
    BY <1>1 DEF SettledBefore
  <2>1. n = at \/ n < at
    BY <1>1, UpdaterFacts
  <2>2. CASE n < at
    <3>1. Settled(n) \/ Mentions(failed, n)
      BY <2>2 DEF UpdaterInv, SettledBefore
    <3>2. Brought(n) => Brought(n)'
      BY <2>2, UpdaterFacts
    <3>3. QED
      BY <1>3, <3>1, <3>2, Zenon DEF Settled
  <2>3. QED
    BY <2>1, <2>2
<1>6. QED
  BY <1>2, <1>3, <1>4, <1>5 DEF UpdaterInv

LEMMA SkipPrKeeps == UpdaterInv /\ SkipPr => UpdaterInv'
<1> SUFFICES ASSUME UpdaterInv, SkipPr PROVE UpdaterInv'
  OBVIOUS
<1>1. Walking /\ at \in PR /\ at \notin Branch
  BY DEF SkipPr, Walking, Branch
<1>2. FilesAt
  <2>1. PICK y \in {"fork", "not selected"} : skipped' = Append(skipped, [pr |-> at, why |-> y])
    BY Zenon DEF SkipPr
  <2>2. [pr |-> at, why |-> y] \in Skip /\ [pr |-> at, why |-> y].pr = at
    BY <1>1 DEF Skip
  <2>3. UNCHANGED <<updated, conflicted, failed>>
    BY DEF SkipPr
  <2>4. QED
    BY <2>1, <2>2, <2>3, Zenon DEF FilesAt
<1>3. main' = main /\ GithubOK' /\ \A n \in Branch \ {at} : Brought(n) => Brought(n)'
  BY GithubStays DEF SkipPr, Following
<1>4. QED
  BY <1>1, <1>2, <1>3, FollowingKeeps DEF SkipPr

LEMMA FileConflictKeeps == UpdaterInv /\ FileConflict => UpdaterInv'
<1> SUFFICES ASSUME UpdaterInv, FileConflict PROVE UpdaterInv'
  OBVIOUS
<1>1. Walking /\ at \in PR
  BY UpdaterFacts DEF FileConflict, Walking, UpdaterInv, AtBranch
<1>2. FilesAt
  BY DEF FileConflict, FilesAt
<1>3. main' = main /\ GithubOK' /\ \A n \in Branch \ {at} : Brought(n) => Brought(n)'
  BY GithubStays DEF FileConflict, Following
<1>4. \A n \in Branch : n = at => (Settled(n) \/ Mentions(failed, n))'
  <2>1. conflicted \in Seq(PR) /\ conflicted' = Append(conflicted, at)
    BY DEF UpdaterInv, Sections, Section, FileConflict
  <2>2. Mentions(conflicted', at)
    BY <1>1, <2>1, AppendMentions
  <2>3. QED
    BY <2>2 DEF Settled
<1>5. QED
  BY <1>1, <1>2, <1>3, <1>4, FollowingKeeps DEF FileConflict

LEMMA FileUpToDateKeeps == UpdaterInv /\ FileUpToDate => UpdaterInv'
<1> SUFFICES ASSUME UpdaterInv, FileUpToDate PROVE UpdaterInv'
  OBVIOUS
<1> DEFINE r == [pr |-> at, why |-> state]
<1>1. Walking /\ at \in PR /\ at \in Branch /\ state \in {"unknown", "clean", "blocked"}
  BY UpdaterFacts DEF FileUpToDate, Walking, UpdaterInv, AtBranch, TypeOK
<1>2. r \in Skip /\ r.pr = at /\ skipped' = Append(skipped, r)
  <2>1. r \in Skip /\ r.pr = at
    BY <1>1 DEF Skip
  <2>2. QED
    BY <2>1 DEF FileUpToDate
<1>3. FilesAt
  BY <1>2, Zenon DEF FileUpToDate, FilesAt
<1>4. main' = main /\ GithubOK' /\ \A n \in Branch : Brought(n)' = Brought(n)
  BY GithubStays DEF FileUpToDate, Following
<1>5. ASSUME NEW n \in Branch, n = at PROVE Settled(n)'
  <2>1. CASE state = "clean" /\ strict
    <3>1. Brought(n)
      BY <1>5, <2>1 DEF FileUpToDate, UpdaterInv, SettledBefore
    <3>2. QED
      BY <1>4, <3>1 DEF Settled
  <2>2. CASE ~(state = "clean" /\ strict)
    <3>1. state \in Opaque
      BY <1>1, <2>2 DEF Opaque
    <3>2. skipped \in Seq(Skip)
      BY DEF UpdaterInv, Sections
    <3>3. Mentions(skipped', [pr |-> n, why |-> state])
      BY <1>2, <1>5, <3>2, AppendMentions
    <3>4. QED
      BY <3>1, <3>3 DEF Settled
  <2>3. QED
    BY <2>1, <2>2
<1>6. QED
  BY <1>1, <1>3, <1>4, <1>5, FollowingKeeps DEF FileUpToDate

LEMMA UpdateBranchKeeps == UpdaterInv /\ UpdateBranch => UpdaterInv'
<1> SUFFICES ASSUME UpdaterInv, UpdateBranch PROVE UpdaterInv'
  OBVIOUS
<1>1. Walking /\ at \in Branch /\ at \in PR
  BY UpdaterFacts DEF UpdateBranch, Walking, UpdaterInv, AtBranch
<1>2. FilesAt
  BY DEF UpdateBranch, FilesAt
<1>3. main' = main /\ base' = base /\ has' = has
      /\ (Accepted \/ UNCHANGED github) /\ UNCHANGED run
  BY DEF UpdateBranch, Accepted, Following, run, github
<1>4. GithubOK' /\ \A n \in Branch \ {at} : Brought(n) => Brought(n)'
  <2>1. CASE Accepted
    BY <1>1, <1>3, <2>1 DEF Accepted, GithubOK, Brought, UpdaterInv, TypeOK
  <2>2. CASE UNCHANGED github
    BY <1>3, <2>2, GithubStays
  <2>3. QED
    BY <1>3, <2>1, <2>2
<1>5. \A n \in Branch : n = at => (Settled(n) \/ Mentions(failed, n))'
  <2>1. CASE Accepted
    BY <2>1 DEF Accepted, Settled, Brought
  <2>2. CASE conflicted' = Append(conflicted, at)
    <3>1. conflicted \in Seq(PR)
      BY DEF UpdaterInv, Sections, Section
    <3>2. Mentions(conflicted', at)
      BY <1>1, <2>2, <3>1, AppendMentions
    <3>3. QED
      BY <3>2 DEF Settled
  <2>3. CASE failed' = Append(failed, at)
    <3>1. failed \in Seq(PR)
      BY DEF UpdaterInv, Sections, Section
    <3>2. Mentions(failed', at)
      BY <1>1, <2>3, <3>1, AppendMentions
    <3>3. QED
      BY <3>2
  <2>4. QED
    BY <2>1, <2>2, <2>3 DEF UpdateBranch
<1>6. QED
  BY <1>1, <1>2, <1>3, <1>4, <1>5, FollowingKeeps DEF UpdateBranch

-----------------------------------------------------------------------------
(* The other actions of a pass file nothing.                               *)
LEMMA StartKeeps == UpdaterInv /\ StartPass => UpdaterInv'
<1> SUFFICES ASSUME UpdaterInv, StartPass PROVE UpdaterInv'
  OBVIOUS
<1>1. /\ UNCHANGED <<main, has, clash, known, queued, undone, dispatches>>
      /\ UNCHANGED <<at, polls, state, ended, outcome>>
      /\ UNCHANGED <<updated, conflicted, skipped, failed>>
      /\ base' = pending /\ pending' = 0 /\ stop' = FALSE /\ pc' = "list"
  BY Zenon DEF StartPass, github, report
<1>2. stop' \in BOOLEAN
  BY <1>1, Zenon
<1>3. TypeOK'
  BY <1>1, <1>2, UpdaterFacts DEF UpdaterInv, TypeOK
<1>4. Sections'
  BY <1>1 DEF UpdaterInv, Sections
<1>5. (AtBranch /\ FiledBefore /\ FiledAtEnd /\ SettledBefore /\ GreenMeansCurrent)'
  BY <1>1 DEF AtBranch, FiledBefore, FiledAtEnd, SettledBefore, GreenMeansCurrent, Walking, Reported
<1>6. QED
  BY <1>3, <1>4, <1>5 DEF UpdaterInv

LEMMA ListKeeps == UpdaterInv /\ ListPrs => UpdaterInv'
<1> SUFFICES ASSUME UpdaterInv, ListPrs PROVE UpdaterInv'
  OBVIOUS
<1>1. /\ UNCHANGED <<main, has, clash, known, queued, undone, dispatches>>
      /\ UNCHANGED <<pending, base, stop, ended, outcome, polls, state>>
      /\ updated' = <<>> /\ conflicted' = <<>> /\ skipped' = <<>> /\ failed' = <<>>
      /\ pc' = "select" /\ at' = 1
  BY Zenon DEF ListPrs, github, run, NoReport
<1>2. TypeOK'
  BY <1>1, UpdaterFacts DEF UpdaterInv, TypeOK
<1>3. Sections'
  BY <1>1 DEF Sections, Section
<1>4. \A n \in PR : Unfiled(n)'
  BY <1>1 DEF Unfiled, Absent, skippedPrs
<1>5. FiledBefore'
  BY <1>1, <1>4, UpdaterFacts DEF FiledBefore
<1>6. SettledBefore'
  BY <1>1, UpdaterFacts DEF SettledBefore
<1>7. (AtBranch /\ FiledAtEnd /\ GreenMeansCurrent)'
  BY <1>1 DEF AtBranch, FiledAtEnd, GreenMeansCurrent, Reported
<1>8. QED
  BY <1>2, <1>3, <1>5, <1>6, <1>7 DEF UpdaterInv

LEMMA SelectKeeps == UpdaterInv /\ SelectPr => UpdaterInv'
<1> SUFFICES ASSUME UpdaterInv, SelectPr PROVE UpdaterInv'
  OBVIOUS
<1>1. /\ UNCHANGED <<main, has, clash, known, queued, undone, dispatches>>
      /\ UNCHANGED <<pending, base, stop, ended, outcome, at>>
      /\ UNCHANGED <<updated, conflicted, skipped, failed>>
      /\ pc = "select" /\ pc' = "poll" /\ polls' = 0 /\ state' = "unknown" /\ at \in PR
  BY Zenon DEF SelectPr, github, run, report, Unpolled
<1>2. at \in Branch
  BY Zenon DEF SelectPr, Branch
<1>3. TypeOK'
  BY <1>1, UpdaterFacts DEF UpdaterInv, TypeOK
<1>4. AtBranch'
  BY <1>1, <1>2, UpdaterFacts DEF AtBranch
<1>5. (Sections /\ FiledBefore /\ FiledAtEnd /\ SettledBefore /\ GreenMeansCurrent)'
  BY <1>1 DEF UpdaterInv, Sections, FiledBefore, FiledAtEnd, SettledBefore, GreenMeansCurrent,
              Walking, Reported, Filed, Unfiled, Settled, Brought, skippedPrs
<1>6. QED
  BY <1>3, <1>4, <1>5 DEF UpdaterInv

LEMMA PollKeeps == UpdaterInv /\ Poll => UpdaterInv'
<1> SUFFICES ASSUME UpdaterInv, Poll PROVE UpdaterInv'
  OBVIOUS
<1>1. /\ UNCHANGED <<main, has, clash, known, queued, dispatches>>
      /\ UNCHANGED <<pending, base, stop, ended, outcome, at>>
      /\ UNCHANGED <<updated, conflicted, skipped, failed>>
      /\ pc = "poll" /\ polls' = polls + 1 /\ undone' = undone \ {at}
  BY Zenon DEF Poll, run, report
<1>2. at \in Branch /\ polls < MaxPolls /\ polls \in Nat
  BY <1>1, UpdaterFacts DEF UpdaterInv, AtBranch, TypeOK
<1>3. pc' \in {"poll", "act"} /\ (pc' = "poll" => polls + 1 # MaxPolls)
  BY DEF Poll, LastPoll
<1>4. state' \in {"unknown", "clean", "blocked", "dirty", "behind"}
      /\ (state' = "clean" /\ strict => has[at] = main)
  <2>1. \A s \in mergeable_state(at) : s \in {"unknown", "clean", "blocked", "dirty", "behind"}
                                       /\ (s = "clean" /\ strict => has[at] = main)
    BY DEF mergeable_state
  <2>2. QED
    BY <2>1 DEF Poll
<1>5. TypeOK'
  <2>1. TypeOK /\ undone' \subseteq Branch
    BY <1>1 DEF UpdaterInv, TypeOK
  <2>2. polls' \in 0 .. MaxPolls /\ MaxPolls \in Nat
    BY <1>1, <1>2, UpdaterFacts
  <2>3. QED
    BY <1>1, <1>3, <1>4, <2>1, <2>2, Zenon DEF TypeOK
<1>6. AtBranch'
  BY <1>1, <1>2, <1>3, UpdaterFacts DEF AtBranch
<1>7. SettledBefore'
  <2>1. \A n \in Branch : n < at => n # at
    BY UpdaterFacts
  <2>2. \A n \in Branch \ {at} : Settled(n) => Settled(n)'
    BY <1>1 DEF Settled, Brought, Mentions
  <2>3. state' = "clean" /\ strict => has'[at'] >= base'
    BY <1>1, <1>2, <1>4, UpdaterFacts
  <2>4. QED
    BY <1>1, <2>1, <2>2, <2>3 DEF UpdaterInv, SettledBefore, Walking, Brought, Mentions
<1>8. (Sections /\ FiledBefore /\ FiledAtEnd /\ GreenMeansCurrent)'
  BY <1>1, <1>3 DEF UpdaterInv, Sections, FiledBefore, FiledAtEnd, GreenMeansCurrent,
              Walking, Reported, Filed, Unfiled, skippedPrs
<1>9. QED
  BY <1>5, <1>6, <1>7, <1>8 DEF UpdaterInv

(* The report: the pass is behind the last pull request, and green says    *)
(* that none failed.                                                       *)
LEMMA ReportKeeps == UpdaterInv /\ Report => UpdaterInv'
<1> SUFFICES ASSUME UpdaterInv, Report PROVE UpdaterInv'
  OBVIOUS
<1>1. /\ UNCHANGED <<main, has, clash, known, queued, undone, dispatches>>
      /\ UNCHANGED <<pending, base, stop, at, polls, state>>
      /\ UNCHANGED <<updated, conflicted, skipped, failed>>
      /\ pc = "select" /\ pc' = "idle" /\ at \notin PR /\ ended' = base
      /\ outcome' = IF failed = <<>> THEN "green" ELSE "red"
  BY Zenon DEF Report, github, report
<1>2. at = Len(prs) + 1
  BY <1>1, UpdaterFacts
<1>3. TypeOK'
  BY <1>1, UpdaterFacts DEF UpdaterInv, TypeOK
<1>4. (Sections /\ AtBranch /\ FiledBefore /\ SettledBefore)'
  BY <1>1 DEF UpdaterInv, Sections, AtBranch, FiledBefore, SettledBefore, Walking
<1>5. FiledAtEnd'
  <2>1. \A n \in PR : Filed(n)
    BY <1>1, <1>2, UpdaterFacts DEF UpdaterInv, FiledBefore, Walking
  <2>2. QED
    BY <1>1, <2>1 DEF FiledAtEnd, Filed, skippedPrs
<1>6. GreenMeansCurrent'
  <2> SUFFICES ASSUME failed = <<>>, NEW n \in Branch
               PROVE  Settled(n)
    BY <1>1 DEF GreenMeansCurrent, Settled, Brought, Mentions
  <2>1. ~Mentions(failed, n)
    BY DEF Mentions
  <2>2. QED
    BY <1>1, <1>2, <2>1, UpdaterFacts DEF UpdaterInv, SettledBefore, Walking
<1>7. QED
  BY <1>3, <1>4, <1>5, <1>6 DEF UpdaterInv

(* A pass that was cancelled, or broke off, leaves no report.              *)
LEMMA LeavesKeeps == UpdaterInv /\ (CancelPass \/ AbortPass) => UpdaterInv'
<1> SUFFICES ASSUME UpdaterInv, CancelPass \/ AbortPass PROVE UpdaterInv'
  OBVIOUS
<1>1. /\ UNCHANGED <<main, has, clash, known, queued, undone, dispatches, pending, base, stop>>
      /\ updated' = <<>> /\ conflicted' = <<>> /\ skipped' = <<>> /\ failed' = <<>>
      /\ pc' = "idle" /\ at' = 1 /\ polls' = 0 /\ state' = "unknown"
      /\ outcome' \in {"cancelled", "aborted"} /\ ended' \in {base, ended}
  BY DEF CancelPass, AbortPass, github, Forgotten, Unpolled, NoReport
<1>2. TypeOK'
  BY <1>1, UpdaterFacts DEF UpdaterInv, TypeOK
<1>3. Sections'
  BY <1>1 DEF Sections, Section
<1>4. (AtBranch /\ FiledBefore /\ FiledAtEnd /\ SettledBefore /\ GreenMeansCurrent)'
  <2>1. pc' = "idle" /\ outcome' \in {"cancelled", "aborted"}
    BY <1>1
  <2>2. AtBranch' /\ FiledBefore' /\ SettledBefore'
    BY <2>1 DEF AtBranch, FiledBefore, SettledBefore, Walking
  <2>3. FiledAtEnd'
    BY <2>1 DEF FiledAtEnd, Reported
  <2>4. GreenMeansCurrent'
    BY <2>1 DEF GreenMeansCurrent
  <2>5. QED
    BY <2>2, <2>3, <2>4
<1>5. QED
  BY <1>2, <1>3, <1>4 DEF UpdaterInv

LEMMA NextUpdater == UpdaterInv /\ [Next]_vars => UpdaterInv'
<1> SUFFICES ASSUME UpdaterInv, [Next]_vars PROVE UpdaterInv'
  OBVIOUS
<1>1. CASE UNCHANGED vars
  <2>1. UNCHANGED <<main, has, clash, known, queued, undone, dispatches, pending, pc, at, polls,
                    state, base, ended, stop,
                    outcome, updated, conflicted, skipped, failed>>
    BY <1>1 DEF vars, github, report, run
  <2>2. TypeOK' /\ Sections' /\ AtBranch'
    BY <2>1 DEF UpdaterInv, TypeOK, Sections, AtBranch
  <2>3. FiledBefore' /\ FiledAtEnd'
    BY <2>1 DEF UpdaterInv, FiledBefore, FiledAtEnd, Walking, Reported, Filed, Unfiled, skippedPrs
  <2>4. SettledBefore' /\ GreenMeansCurrent'
    BY <2>1 DEF UpdaterInv, SettledBefore, GreenMeansCurrent, Walking, Reported, Settled, Brought
  <2>5. QED
    BY <2>2, <2>3, <2>4 DEF UpdaterInv
<1>2. CASE Environment
  BY <1>2, OthersKeep
<1>3. CASE StartPass
  BY <1>3, StartKeeps
<1>4. CASE Pass
  BY <1>4, ListKeeps, SkipPrKeeps, SelectKeeps, PollKeeps, FileConflictKeeps, FileUpToDateKeeps,
     UpdateBranchKeeps, ReportKeeps, LeavesKeeps
  DEF Pass
<1>5. QED
  BY <1>1, <1>2, <1>3, <1>4 DEF Next, Environment

LEMMA AlwaysUpdater == Spec => []UpdaterInv
  BY InitUpdater, NextUpdater, PTL DEF Spec

-----------------------------------------------------------------------------
(* Every variable keeps its type: a pass never leaves the list, polls at   *)
(* most MaxPolls rounds, and no branch gets ahead of the default branch.   *)
THEOREM TypeCorrect == Spec => []TypeOK
<1>1. UpdaterInv => TypeOK
  BY DEF UpdaterInv
<1>2. QED
  BY <1>1, AlwaysUpdater, PTL

(* After a green pass every branch it may touch has the push that started  *)
(* it, or an update that will bring it, or lost it since, or the report    *)
(* says why not (yml:104, 131-138): for any list of pull requests, any     *)
(* pushes, merges, rewritten branches, updates that come late or never and *)
(* lost answers during the pass, with and without the strict rule.         *)
THEOREM GreenIsCurrent == Spec => []GreenMeansCurrent
<1>1. UpdaterInv => GreenMeansCurrent
  BY DEF UpdaterInv
<1>2. QED
  BY <1>1, AlwaysUpdater, PTL

(* Sections one behind the other.                                          *)
LEMMA OnceInBoth ==
  ASSUME NEW S, NEW s \in Seq(S), NEW t \in Seq(S), NEW n
  PROVE  /\ s \o t \in Seq(S)
         /\ Absent(s, n) /\ Absent(t, n) => Absent(s \o t, n)
         /\ Once(s, n) /\ Absent(t, n) => Once(s \o t, n)
         /\ Absent(s, n) /\ Once(t, n) => Once(s \o t, n)
<1> DEFINE u == s \o t
<1>1. /\ Len(s) \in Nat /\ Len(t) \in Nat /\ DOMAIN s = 1 .. Len(s) /\ DOMAIN t = 1 .. Len(t)
      /\ u \in Seq(S) /\ DOMAIN u = 1 .. Len(s) + Len(t)
      /\ \A k \in 1 .. Len(s) : u[k] = s[k]
      /\ \A k \in 1 .. Len(t) : u[Len(s) + k] = t[k]
  OBVIOUS
<1> HIDE DEF u
<1>2. \A k \in DOMAIN u : k \in DOMAIN s \/ (k - Len(s) \in DOMAIN t /\ u[k] = t[k - Len(s)])
  BY <1>1
<1>3. Absent(s, n) /\ Absent(t, n) => Absent(u, n)
  BY <1>1, <1>2 DEF Absent
<1>4. ASSUME Once(s, n), Absent(t, n) PROVE Once(u, n)
  <2>1. PICK k \in DOMAIN s : { j \in DOMAIN s : s[j] = n } = {k}
    BY <1>4 DEF Once
  <2>2. k \in DOMAIN u /\ u[k] = n
    BY <1>1, <2>1
  <2>3. ASSUME NEW j \in DOMAIN u, u[j] = n PROVE j = k
    <3>1. j \in DOMAIN s /\ u[j] = s[j]
      BY <1>1, <1>2, <1>4, <2>3 DEF Absent
    <3>2. QED
      BY <2>1, <2>3, <3>1
  <2>4. { j \in DOMAIN u : u[j] = n } = {k}
    BY <2>2, <2>3
  <2>5. QED
    BY <2>2, <2>4 DEF Once
<1>5. ASSUME Absent(s, n), Once(t, n) PROVE Once(u, n)
  <2>1. PICK k \in DOMAIN t : { j \in DOMAIN t : t[j] = n } = {k}
    BY <1>5 DEF Once
  <2>2. Len(s) + k \in DOMAIN u /\ u[Len(s) + k] = n
    BY <1>1, <2>1
  <2>3. ASSUME NEW j \in DOMAIN u, u[j] = n PROVE j = Len(s) + k
    <3>1. j - Len(s) \in DOMAIN t /\ t[j - Len(s)] = n
      BY <1>1, <1>2, <1>5, <2>3 DEF Absent
    <3>2. j - Len(s) = k
      BY <2>1, <3>1
    <3>3. QED
      BY <1>1, <3>2
  <2>4. { j \in DOMAIN u : u[j] = n } = {Len(s) + k}
    BY <2>2, <2>3
  <2>5. QED
    BY <2>2, <2>4 DEF Once
<1>6. QED
  BY <1>1, <1>3, <1>4, <1>5 DEF u

(* A report lists every open pull request exactly once, in exactly one of  *)
(* its sections, whatever happened to it while the pass ran (yml:112).     *)
THEOREM PrsFiledOnce == Spec => []EveryPrReported
<1>1. UpdaterInv => EveryPrReported
  <2> SUFFICES ASSUME UpdaterInv, Reported, NEW n \in PR
               PROVE  \E k \in Times(n) : Times(n) = {k}
    BY DEF EveryPrReported
  <2> DEFINE all == skippedPrs \o updated \o conflicted \o failed
  <2>1. Filed(n)
    BY DEF UpdaterInv, FiledAtEnd
  <2>2. /\ skippedPrs \in Seq(PR) /\ updated \in Seq(PR)
        /\ conflicted \in Seq(PR) /\ failed \in Seq(PR)
    BY Projected DEF UpdaterInv, Sections, Section, skippedPrs
  <2>3. skippedPrs \o updated \in Seq(PR) /\ skippedPrs \o updated \o conflicted \in Seq(PR)
    BY <2>2
  <2>4. Once(all, n)
    BY <2>1, <2>2, <2>3, OnceInBoth DEF Filed
  <2>5. Times(n) = { k \in DOMAIN all : all[k] = n }
    BY DEF Times, skippedPrs
  <2> HIDE DEF all
  <2>6. QED
    BY <2>4, <2>5 DEF Once
<1>2. QED
  BY <1>1, AlwaysUpdater, PTL
===============================================================================
