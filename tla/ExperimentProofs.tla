-------------------------- MODULE ExperimentProofs --------------------------
(***************************************************************************)
(* Proofs about the runner of the measurement scripts, for any campaigns,  *)
(* any number of faults and whatever the rules of the scripts decide.      *)
(***************************************************************************)
EXTENDS Experiment, SequenceTheorems, TLAPS

Ending == {"closing", "persisted", "sealed"}

(* What is to be started are stages, and so is what was.                   *)
QueueInv ==
  /\ queue \in Seq(Stages)
  /\ phase # "idle" => stage \in Stages

(* The report in memory: running while the script works, unless a rule has *)
(* provisionally decided; never a recommendation once an exception came.   *)
ReportInv ==
  /\ phase \in Active /\ stage = "submission_screen" => status = "running"
  /\ phase \in Ending /\ ~complete => status \notin Script.positive

(* The report on disk is the one in memory once it has been written.       *)
SavedInv == phase \in {"persisted", "sealed"} => disk = Report(rows, status, complete)

RunnerInv == QueueInv /\ ReportInv /\ SavedInv
-----------------------------------------------------------------------------
(* The stages of a recovery trial are in the catalog.                      *)
LEMMA TrialStages == Trial \in Seq(Stages) /\ Len(Trial) = 5
  BY DEF Trial, Stages, Catalog

(* A script that stops with an exception recommends nothing.               *)
LEMMA FailKeeps ==
    ASSUME RunnerInv, phase \in Active, UNCHANGED <<queue, stage>>,
           NEW r, NEW s \in Errors, Close(r, ErrorStatus(s), FALSE)
    PROVE  RunnerInv'
  <1>1. stage \in Stages /\ queue \in Seq(Stages) /\ (stage = "submission_screen" => status = "running")
    BY DEF RunnerInv, QueueInv, ReportInv, Active
  <1>2. phase' = "closing" /\ status' = ErrorStatus(s) /\ Script' = Script
    BY DEF Close, Script
  <1>3. ErrorStatus(s) \in Errors \cup {"running", "incomplete"}
    BY <1>1 DEF ErrorStatus
  <1>4. ErrorStatus(s) \notin Script.positive
    BY <1>1, <1>3, CatalogAssumption DEF Script
  <1>5. QED
    BY <1>1, <1>2, <1>4 DEF RunnerInv, QueueInv, ReportInv, SavedInv, Active, Ending

(* A row is taken: the script goes on, stops with an error, or completes.  *)
LEMMA TakeKeeps ==
    ASSUME RunnerInv, phase \in Active, UNCHANGED <<queue, stage>>, NEW row, Take(row)
    PROVE  RunnerInv'
  <1> DEFINE r == Append(rows, row)
             outcome == After(Script, stage, r)
  <1>1. \/ Fail("failed")
        \/ /\ phase' = (IF phase = "prepare" THEN "prepare" ELSE "ready")
           /\ status' = Provisional(r)
        \/ outcome \in Errors /\ \E kept : Close(kept, ErrorStatus(outcome), FALSE)
        \/ Close(r, outcome, TRUE)
    BY DEF Take
  <1> HIDE DEF outcome, r
  <1>2. CASE Fail("failed")
    BY <1>2, FailKeeps DEF Fail, Errors
  <1>3. CASE outcome \in Errors /\ \E kept : Close(kept, ErrorStatus(outcome), FALSE)
    BY <1>3, FailKeeps
  <1>4. CASE Close(r, outcome, TRUE)
    BY <1>4 DEF Close, RunnerInv, QueueInv, ReportInv, SavedInv, Active, Ending
  <1>5. CASE /\ phase' = (IF phase = "prepare" THEN "prepare" ELSE "ready")
             /\ status' = Provisional(r)
    <2>1. phase' \in {"prepare", "ready"}
      BY <1>5
    <2>2. stage = "submission_screen" => status' = "running"
      BY <1>5 DEF Provisional
    <2>3. QED
      BY <2>1, <2>2 DEF RunnerInv, QueueInv, ReportInv, SavedInv, Active, Ending
  <1>6. QED
    BY <1>1, <1>2, <1>3, <1>4, <1>5

(* The script moves between its steps without touching its report.         *)
LEMMA MoveKeeps ==
    ASSUME RunnerInv, phase \in Active, phase' \in Active, UNCHANGED <<queue, stage, status>>
    PROVE  RunnerInv'
  BY DEF RunnerInv, QueueInv, ReportInv, SavedInv, Active, Ending

(* What happens around the script changes nothing of it.                   *)
LEMMA RestKeeps ==
    ASSUME RunnerInv, UNCHANGED <<queue, stage, phase, rows, status, complete, disk>>
    PROVE  RunnerInv'
  BY DEF RunnerInv, QueueInv, ReportInv, SavedInv, Script

(* A step of a working script.                                             *)
LEMMA WorkKeeps ==
    ASSUME RunnerInv,
           \/ PrepareFails \/ Enter \/ Require \/ Reuse \/ Skip \/ Launch \/ Refused
           \/ ChildEnds \/ ChildFails \/ DeadlinePasses \/ Interrupt
    PROVE  RunnerInv'
  <1>1. phase \in Active /\ UNCHANGED <<queue, stage>>
    BY DEF PrepareFails, Enter, Require, Reuse, Skip, Launch, Refused, ChildEnds, ChildFails, DeadlinePasses, Interrupt, Active
  <1>2. \/ \E s \in Errors : Fail(s)
        \/ \E row : Take(row)
        \/ phase' \in Active /\ status' = status
    <2>1. CASE PrepareFails \/ Refused \/ ChildFails \/ DeadlinePasses \/ Interrupt
      BY <2>1 DEF PrepareFails, Refused, ChildFails, DeadlinePasses, Interrupt, Errors
    <2>2. CASE Enter \/ Launch
      BY <2>2 DEF Enter, Launch, Errors, Active
    <2>3. CASE Require
      BY <2>3 DEF Require, Errors
    <2>4. CASE Reuse
      BY <2>4 DEF Reuse
    <2>5. CASE Skip
      BY <2>5 DEF Skip
    <2>6. CASE ChildEnds
      BY <2>6 DEF ChildEnds, Errors
    <2>7. QED
      BY <2>1, <2>2, <2>3, <2>4, <2>5, <2>6
  <1>3. CASE \E s \in Errors : Fail(s)
    BY <1>1, <1>3, FailKeeps DEF Fail
  <1>4. CASE \E row : Take(row)
    BY <1>1, <1>4, TakeKeeps
  <1>5. CASE phase' \in Active /\ status' = status
    BY <1>1, <1>5, MoveKeeps
  <1>6. QED
    BY <1>2, <1>3, <1>4, <1>5

(* A directory begins, is written and sealed, or its script is killed.     *)
LEMMA DirectoryKeeps ==
    ASSUME RunnerInv, Begin \/ Persist \/ Seal \/ Kill
    PROVE  RunnerInv'
  <1>1. CASE Begin
    <2>1. queue \in Seq(Stages) /\ queue # <<>>
      BY <1>1 DEF RunnerInv, QueueInv, Begin
    <2>2. Head(queue) \in Stages /\ Tail(queue) \in Seq(Stages)
      BY <2>1
    <2>3. stage' \in Stages /\ queue' \in Seq(Stages) /\ phase' = "prepare" /\ status' = "running"
      BY <1>1, <2>2 DEF Begin
    <2>4. QED
      BY <2>3 DEF RunnerInv, QueueInv, ReportInv, SavedInv, Active, Ending
  <1>2. CASE Persist \/ Seal
    <2>1. /\ phase \in Ending /\ phase' \in {"persisted", "sealed"} /\ UNCHANGED <<queue, stage, rows, status, complete>>
          /\ disk' = Report(rows, status, complete)
      BY <1>2 DEF Persist, Seal, Ending, RunnerInv, SavedInv
    <2>2. ReportInv'
      BY <2>1 DEF RunnerInv, ReportInv, Script, Active, Ending
    <2>3. QED
      BY <2>1, <2>2 DEF RunnerInv, QueueInv, SavedInv, Ending
  <1>3. CASE Kill
    <2>1. phase # "idle" /\ phase' = "dead" /\ UNCHANGED <<queue, stage>>
      BY <1>3 DEF Kill, Active
    <2>2. QED
      BY <2>1 DEF RunnerInv, QueueInv, ReportInv, SavedInv, Active, Ending
  <1>4. QED
    BY <1>1, <1>2, <1>3

(* A trial is resumed with the stages still to be done.                    *)
LEMMA ResumeKeeps ==
    ASSUME RunnerInv, Resume
    PROVE  RunnerInv'
  <1>1. phase' = "idle" /\ \E n \in 1 .. 3 : queue' = SubSeq(Trial, n, 5)
    BY DEF Resume
  <1>2. \A n \in 1 .. 3 : SubSeq(Trial, n, 5) \in Seq(Stages)
    <2>1. \A i \in 1 .. 5 : Trial[i] \in Stages
      BY TrialStages, ElementOfSeq
    <2>2. \A n \in 1 .. 3 : n \in Int /\ 5 \in Int /\ \A i \in n .. 5 : i \in 1 .. 5
      OBVIOUS
    <2>3. QED
      BY <2>1, <2>2, SubSeqProperties
  <1>3. QED
    BY <1>1, <1>2 DEF RunnerInv, QueueInv, ReportInv, SavedInv, Active, Ending

(* What is queued, the provisional report and the saved one stay in order  *)
(* through every step of the runner and of its host.                       *)
THEOREM RunnerInvariant == ExpSpec => []RunnerInv
  <1>1. ExpInit => RunnerInv
    BY CampaignAssumption DEF ExpInit, RunnerInv, QueueInv, ReportInv, SavedInv, Active, Ending
  <1>2. RunnerInv /\ [ExpNext]_expVars => RunnerInv'
    <2> SUFFICES ASSUME RunnerInv, [ExpNext]_expVars PROVE RunnerInv'
      OBVIOUS
    <2>1. CASE OrphanEnds \/ OtherTakes \/ OtherReleases \/ EditSources \/ UNCHANGED expVars
      BY <2>1, RestKeeps DEF OrphanEnds, OtherTakes, OtherReleases, EditSources, expVars
    <2>2. CASE RunnerStep
      BY <2>2, WorkKeeps, DirectoryKeeps DEF RunnerStep
    <2>3. CASE HostStep
      BY <2>3, WorkKeeps, ResumeKeeps DEF HostStep
    <2>4. QED
      BY <2>1, <2>2, <2>3, DirectoryKeeps DEF ExpNext, EnvStep, Idle
  <1>3. QED
    BY <1>1, <1>2, PTL DEF ExpSpec

(* A sealed report that did not complete recommends nothing, whatever the  *)
(* script had provisionally written before the exception, the deadline or  *)
(* the interrupt came (Experiment.__exit__, qualification_evidence).       *)
THEOREM FailurePromisesNothing == ExpSpec => []NoPromiseFromFailure
  <1>1. RunnerInv => NoPromiseFromFailure
    <2> SUFFICES ASSUME RunnerInv, phase = "sealed", ~disk.complete PROVE disk.status \notin Script.positive
      BY DEF NoPromiseFromFailure
    <2>1. disk = Report(rows, status, complete)
      BY DEF RunnerInv, SavedInv
    <2>2. disk.complete = complete /\ disk.status = status
      BY <2>1 DEF Report
    <2>3. QED
      BY <2>2 DEF RunnerInv, ReportInv, Ending
  <1>2. QED
    BY <1>1, RunnerInvariant, PTL
-----------------------------------------------------------------------------
(* The rules of the scripts, one lemma each.  The rows p of a stage s so   *)
(* far; a row is what Row makes of a native report.                        *)
RowType == [out : Outputs, cond : Conditions \cup {"skipped"}, wall : Nat, worst : Nat]
Begun(s, p) == p \in Seq(RowType) /\ Len(p) \in 1 .. Len(Plan(s))
Outcome(s, p) == After(Catalog[s], s, p)

(* What a rule promises that lets the script go on or that recommends its  *)
(* candidate.  It goes on while there are steps left and recommends after  *)
(* the last one; outputs of the kinds in A are those of the reference, the *)
(* others agree once their group is complete.                              *)
Passes(s, p) == Outcome(s, p) \in {"go"} \cup Catalog[s].positive
EndsRight(s, p) ==
  /\ Outcome(s, p) = "go" => Len(p) # Len(Plan(s))
  /\ Outcome(s, p) \in Catalog[s].positive => Len(p) = Len(Plan(s))
StepSound(s, A, p) ==
  /\ EndsRight(s, p)
  /\ Passes(s, p) =>
       /\ Plan(s)[Len(p)].do \in A => Newest(p).out = "same"
       /\ Plan(s)[Len(p)].do \notin A \cup Unmeasured /\ PairDone(Catalog[s], p) => Equal(p, Pair(Catalog[s], p))

(* The newest process was timed undisturbed.                               *)
StepClean(s, p) ==
  Passes(s, p) /\ Plan(s)[Len(p)].do \in {"time", "long"} => ~Disturbed(Catalog[s], p)

(* The newest row has its step in the plan.                                *)
LEMMA NewestStep ==
    ASSUME NEW s \in Stages, NEW p, Begun(s, p)
    PROVE  /\ Len(p) \in DOMAIN Plan(s) /\ Len(p) \in 1 .. Len(p) /\ DOMAIN p = 1 .. Len(p) /\ Len(p) \in Nat
           /\ Len(Plan(s)) \in Nat /\ DOMAIN Plan(s) = 1 .. Len(Plan(s))
           /\ Plan(s)[Len(p)].do \in STRING /\ Plan(s)[Len(p)].do \in Kinds(s)
           /\ Here(Catalog[s], p) = Plan(s)[Len(p)]
           /\ Newest(p) \in RowType
  <1>1. Plan(s) \in Seq([do : STRING, group : Nat, arm : STRING])
    BY PlanAssumption
  <1>2. Len(p) \in Nat /\ Len(Plan(s)) \in Nat /\ DOMAIN Plan(s) = 1 .. Len(Plan(s)) /\ DOMAIN p = 1 .. Len(p)
    BY <1>1 DEF Begun
  <1>3. Len(p) \in DOMAIN Plan(s) /\ Len(p) \in 1 .. Len(p)
    BY <1>2 DEF Begun
  <1>4. Plan(s)[Len(p)] \in [do : STRING, group : Nat, arm : STRING]
    BY <1>1, <1>3, ElementOfSeq DEF Begun
  <1>5. Newest(p) \in RowType
    BY <1>3, ElementOfSeq DEF Begun, Newest
  <1>6. QED
    BY <1>2, <1>3, <1>4, <1>5 DEF Kinds, Here, Plan

(* The group of the newest row, in the terms of the plan.                  *)
LEMMA PairRows ==
    ASSUME NEW s \in Stages, NEW p, Begun(s, p)
    PROVE  /\ Pair(Catalog[s], p) = {i \in 1 .. Len(p) : SameGroup(s, i, Len(p))}
           /\ PairDone(Catalog[s], p) <=> \A i \in DOMAIN Plan(s) : SameGroup(s, i, Len(p)) => i <= Len(p)
  <1>1. Here(Catalog[s], p) = Plan(s)[Len(p)] /\ DOMAIN Plan(s) = 1 .. Len(Plan(s))
    BY NewestStep, PlanAssumption
  <1>2. QED
    BY <1>1 DEF Pair, PairDone, SameGroup, Plan

(* A pair consists of recorded rows of one kind.                           *)
LEMMA PairKind ==
    ASSUME NEW s \in Stages, NEW p, Begun(s, p)
    PROVE  Pair(Catalog[s], p) \subseteq Among(Catalog[s], p, Plan(s)[Len(p)].do)
  BY NewestStep DEF Pair, Among, Plan

(* A plan in which the group of the newest row is all that is measured is  *)
(* finished with that group.                                               *)
LEMMA LastGroup ==
    ASSUME NEW s \in {"recovery_accepted", "expert_residency_state", "combined_state"}, NEW p, Begun(s, p),
           Plan(s)[Len(p)].do \notin Unmeasured, PairDone(Catalog[s], p)
    PROVE  Len(p) = Len(Plan(s))
  <1>1. s \in Stages
    BY DEF Stages, Catalog
  <1>2. Len(p) \in Measured(s) /\ Len(Plan(s)) \in Nat /\ Len(p) \in Nat /\ Len(p) <= Len(Plan(s)) /\ Len(p) >= 1
    BY <1>1, NewestStep DEF Measured, Begun
  <1>3. SameGroup(s, Len(p), Len(Plan(s)))
    BY <1>2, GroupAssumption
  <1>4. SameGroup(s, Len(Plan(s)), Len(p)) /\ Len(Plan(s)) \in DOMAIN Plan(s)
    BY <1>1, <1>2, <1>3, PlanAssumption DEF SameGroup
  <1>5. Len(Plan(s)) <= Len(p)
    BY <1>1, <1>4, PairRows
  <1>6. QED
    BY <1>2, <1>5

(* A measured step of a group of its own agrees with itself.               *)
LEMMA SingleRow ==
    ASSUME NEW s \in {"recovery_fixture", "stage_q3", "submission_screen", "hyper_fusion", "q8_lookahead", "q4_packed",
                      "read_arrivals", "shared_arrivals", "scratch_lifetime", "validation_memory"},
           NEW p, Begun(s, p), Plan(s)[Len(p)].do \notin Unmeasured
    PROVE  Equal(p, Pair(Catalog[s], p))
  <1>1. s \in Stages
    BY DEF Stages, Catalog
  <1>2. Len(p) \in Measured(s) /\ 1 .. Len(p) \subseteq DOMAIN Plan(s)
    BY <1>1, NewestStep, PlanAssumption DEF Measured, Begun
  <1>3. \A i \in Pair(Catalog[s], p) : i \in Measured(s) /\ SameGroup(s, i, Len(p))
    BY <1>1, <1>2, PairRows DEF Measured, SameGroup
  <1>4. \A i \in Pair(Catalog[s], p) : i = Len(p)
    BY <1>2, <1>3, GroupAssumption
  <1>5. QED
    BY <1>4 DEF Equal

(* With the last row every group is complete.                              *)
LEMMA FullRows ==
    ASSUME NEW s \in Stages, NEW p, Begun(s, p), Len(p) = Len(Plan(s))
    PROVE  PairDone(Catalog[s], p) /\ Here(Catalog[s], p) = LastStep(s)
  <1>1. \A i \in DOMAIN Plan(s) : i <= Len(p)
    BY PlanAssumption
  <1>2. QED
    BY <1>1, PairRows, NewestStep DEF LastStep

(* The scripts that decide at a timing, a validation or a probe end with   *)
(* one.                                                                    *)
LEMMA TimedLast ==
    ASSUME NEW s \in {"draft_capacity", "forward_joint", "mtp_recovery", "mtp_recovery_resumed", "q8_screen", "stage_q3",
                      "horizon_screen", "streamed_horizon", "horizon_early"},
           NEW p, Begun(s, p), Len(p) = Len(Plan(s))
    PROVE  Here(Catalog[s], p).do = "time" /\ Here(Catalog[s], p).arm # "validate"
  <1>1. s \in Stages
    BY DEF Stages, Catalog
  <1>2. QED
    BY <1>1, FullRows, LastAssumption

(* The same for scripts that end with a measured step of any kind.         *)
LEMMA MeasuredLast ==
    ASSUME NEW s \in {"recovery_correctness", "recovery_short", "recovery_accepted", "recovery_long", "combined_state",
                      "submission_screen", "hyper_fusion", "q8_lookahead", "q4_packed"},
           NEW p, Begun(s, p), Len(p) = Len(Plan(s))
    PROVE  Here(Catalog[s], p).do \notin Unmeasured
  <1>1. s \in Stages
    BY DEF Stages, Catalog
  <1>2. QED
    BY <1>1, FullRows, LastAssumption DEF Measured, LastStep

(* The fixtures of the forward and continuation screens compare no outputs *)
(* and time nothing.                                                       *)
LEMMA FixtureSteps ==
    ASSUME NEW s \in {"forward_fixture", "continuation_fixture"}, NEW p, Begun(s, p)
    PROVE  StepSound(s, {}, p) /\ StepClean(s, p)
  <1>1. s \in Stages /\ Catalog[s].positive = {"forward_fixture_validated"}
    <2>1. ForwardFixture.positive = {"forward_fixture_validated"}
      BY DEF ForwardFixture, MtpStage, Loose
    <2>2. ContinuationFixture.positive = {"forward_fixture_validated"}
      BY DEF ContinuationFixture, MtpStage, Loose
    <2>3. QED
      BY <2>1, <2>2 DEF Stages, Catalog
  <1>2. Plan(s)[Len(p)].do \in Unmeasured
    BY <1>1, NewestStep, KindAssumption DEF Unmeasured
  <1>3. Outcome(s, p) = IF s = "forward_fixture" THEN ForwardFixtureAfter(p) ELSE ContinuationFixtureAfter(p)
    BY DEF Outcome, After
  <1>4. EndsRight(s, p)
    BY <1>1, <1>2, <1>3 DEF EndsRight, Passes, Finished, Plan, ForwardFixtureAfter, ContinuationFixtureAfter,
       Catalog
  <1>5. QED
    BY <1>1, <1>2, <1>4, NewestStep DEF StepSound, StepClean, Unmeasured

(* The native fixtures look at the results only.                           *)
LEMMA NativeFixtureSteps ==
    ASSUME NEW s \in {"scratch_fixture", "ngram_fixture", "direct_fixture"}, NEW p, Begun(s, p)
    PROVE  StepSound(s, {}, p) /\ StepClean(s, p)
  <1>1. s \in Stages /\ Catalog[s].positive = {"fixture_validated"}
    BY DEF Stages, Catalog, ScratchFixture, NgramFixture, DirectFixture, MtpStage
  <1>2. Plan(s)[Len(p)].do \in Unmeasured
    BY <1>1, NewestStep, KindAssumption DEF Unmeasured
  <1>3. Outcome(s, p) = NativeFixtureAfter(Catalog[s], p)
    BY DEF Outcome, After
  <1>4. EndsRight(s, p)
    BY <1>1, <1>2, <1>3 DEF EndsRight, Passes, Finished, Plan, NativeFixtureAfter, Recorded, Onward
  <1>5. QED
    BY <1>1, <1>2, <1>4, NewestStep DEF StepSound, StepClean, Unmeasured

(* The embedding fixture is one native process.                            *)
LEMMA StreamedFixtureSteps ==
    ASSUME NEW p, Begun("streamed_fixture", p)
    PROVE  StepSound("streamed_fixture", {}, p) /\ StepClean("streamed_fixture", p)
  <1> DEFINE s == "streamed_fixture"
  <1>1. s \in Stages /\ Catalog[s].positive = {"embedding_fixture_exact"}
    BY DEF Stages, Catalog, StreamedFixture, MtpStage
  <1>2. Plan(s)[Len(p)].do \in Unmeasured
    BY <1>1, NewestStep, KindAssumption
  <1>3. Outcome(s, p) # "go"
    BY DEF Outcome, After, StreamedFixtureAfter, ProofFirst
  <1>4. Len(Plan(s)) = 1
    BY LastAssumption
  <1>5. Len(p) \in 1 .. 1
    BY <1>4 DEF Begun
  <1>6. QED
    BY <1>1, <1>2, <1>3, <1>4, <1>5 DEF StepSound, StepClean, EndsRight, Unmeasured

(* screen_mtp_continuation: both arms of a case are compared once they are *)
(* in.                                                                     *)
LEMMA ContinuationSteps ==
    ASSUME NEW s \in {"continuation_validate", "continuation_screen"}, NEW p, Begun(s, p)
    PROVE  StepSound(s, {}, p) /\ StepClean(s, p)
  <1>1. s \in Stages
    BY DEF Stages, Catalog
  <1>2. PICK e \in {"continuation_screen_complete", "numerically_validated"} : Catalog[s].positive = {e} /\ Outcome(s, p) = ContinuationAfter(Catalog[s], p, e)
    <2>1. CASE s = "continuation_validate"
      <3>1. Catalog[s].positive = {"numerically_validated"}
        BY <2>1 DEF Catalog, ContinuationValidate, ContinuationScreen, MtpStage
      <3>2. Outcome(s, p) = ContinuationAfter(Catalog[s], p, "numerically_validated")
        BY <2>1 DEF Outcome, After
      <3>3. QED
        BY <3>1, <3>2
    <2>2. CASE s = "continuation_screen"
      <3>1. Catalog[s].positive = {"continuation_screen_complete"}
        BY <2>2 DEF Catalog, ContinuationValidate, ContinuationScreen, MtpStage
      <3>2. Outcome(s, p) = ContinuationAfter(Catalog[s], p, "continuation_screen_complete")
        BY <2>2 DEF Outcome, After
      <3>3. QED
        BY <3>1, <3>2
    <2>3. QED
      BY <2>1, <2>2
  <1>3. /\ EndsRight(s, p)
        /\ Passes(s, p) => ~Disturbed(Catalog[s], p)
        /\ Passes(s, p) /\ Plan(s)[Len(p)].do \notin Unmeasured /\ PairDone(Catalog[s], p) => Equal(p, Pair(Catalog[s], p))
    BY <1>1, <1>2 DEF EndsRight, Passes, Finished, Plan, ContinuationAfter, CleanFirst, Onward
  <1>4. QED
    BY <1>1, <1>3, NewestStep DEF StepSound, StepClean, Unmeasured

(* screen_mtp_recovery: a pair is compared before it is decided about.     *)
LEMMA MtpRecoverySteps ==
    ASSUME NEW s \in {"mtp_recovery", "mtp_recovery_resumed"}, NEW p, Begun(s, p)
    PROVE  StepSound(s, {}, p) /\ StepClean(s, p)
  <1>1. s \in Stages /\ Catalog[s].positive = {"promising_short_screen"}
    <2>1. MtpRecovery.positive = {"promising_short_screen"}
      BY DEF MtpRecovery, MtpStage, OverBudget
    <2>2. MtpRecoveryResumed.positive = {"promising_short_screen"}
      BY DEF MtpRecoveryResumed, MtpStage, OverBudget
    <2>3. QED
      BY <2>1, <2>2 DEF Stages, Catalog
  <1>2. Outcome(s, p) = MtpRecoveryAfter(Catalog[s], p)
    BY DEF Outcome, After
  <1>3. /\ EndsRight(s, p)
        /\ Passes(s, p) => ~Disturbed(Catalog[s], p)
        /\ Passes(s, p) /\ Plan(s)[Len(p)].do \notin Unmeasured /\ PairDone(Catalog[s], p) => Equal(p, Pair(Catalog[s], p))
    BY <1>1, <1>2, NewestStep, FullRows, TimedLast DEF EndsRight, Passes, Finished, Plan, MtpRecoveryAfter,
       MtpRecoveryDecide, CleanFirst, Equivalent, MtpRecoveryPartial
  <1>4. QED
    BY <1>1, <1>3, NewestStep DEF StepSound, StepClean, Unmeasured

(* screen_mtp_expert_scratch: outputs and counters of a pair are compared  *)
(* once both arms are in.                                                  *)
LEMMA ScratchSteps ==
    ASSUME NEW s \in {"scratch_validate", "scratch_short", "scratch_long"}, NEW p, Begun(s, p)
    PROVE  StepSound(s, {}, p) /\ StepClean(s, p)
  <1>1. s \in Stages
    BY DEF Stages, Catalog
  <1>2. PICK e \in {"continuation_screen_complete", "numerically_validated", "promising_short_screen"} : Catalog[s].positive = {e} /\ Outcome(s, p) = ScratchAfter(Catalog[s], p, e)
    <2>1. CASE s = "scratch_validate"
      <3>1. Catalog[s].positive = {"numerically_validated"}
        BY <2>1 DEF Catalog, ScratchValidate, ScratchShort, ScratchLong, MtpStage
      <3>2. Outcome(s, p) = ScratchAfter(Catalog[s], p, "numerically_validated")
        BY <2>1 DEF Outcome, After
      <3>3. QED
        BY <3>1, <3>2
    <2>2. CASE s = "scratch_short"
      <3>1. Catalog[s].positive = {"promising_short_screen"}
        BY <2>2 DEF Catalog, ScratchValidate, ScratchShort, ScratchLong, MtpStage
      <3>2. Outcome(s, p) = ScratchAfter(Catalog[s], p, "promising_short_screen")
        BY <2>2 DEF Outcome, After
      <3>3. QED
        BY <3>1, <3>2
    <2>3. CASE s = "scratch_long"
      <3>1. Catalog[s].positive = {"continuation_screen_complete"}
        BY <2>3 DEF Catalog, ScratchValidate, ScratchShort, ScratchLong, MtpStage
      <3>2. Outcome(s, p) = ScratchAfter(Catalog[s], p, "continuation_screen_complete")
        BY <2>3 DEF Outcome, After
      <3>3. QED
        BY <3>1, <3>2
    <2>4. QED
      BY <2>1, <2>2, <2>3
  <1>3. /\ EndsRight(s, p)
        /\ Passes(s, p) => ~Disturbed(Catalog[s], p)
        /\ Passes(s, p) /\ Plan(s)[Len(p)].do \notin Unmeasured /\ PairDone(Catalog[s], p) => Equal(p, Pair(Catalog[s], p))
    BY <1>1, <1>2, NewestStep DEF EndsRight, Passes, Finished, Plan, ScratchAfter, PairedAfter,
       ScratchCompare, CleanFirst, Onward, Unmeasured
  <1>4. QED
    BY <1>1, <1>3, NewestStep DEF StepSound, StepClean, Unmeasured

(* screen_mtp_ngram_init compares in the same way.                         *)
LEMMA NgramSteps ==
    ASSUME NEW s \in {"ngram_validate", "ngram_short"}, NEW p, Begun(s, p)
    PROVE  StepSound(s, {}, p) /\ StepClean(s, p)
  <1>1. s \in Stages
    BY DEF Stages, Catalog
  <1>2. PICK e \in {"numerically_validated", "promising_short_screen"} : Catalog[s].positive = {e} /\ Outcome(s, p) = NgramAfter(Catalog[s], p, e)
    <2>1. CASE s = "ngram_validate"
      <3>1. Catalog[s].positive = {"numerically_validated"}
        BY <2>1 DEF Catalog, NgramValidate, ScratchValidate, ScratchShort, MtpStage
      <3>2. Outcome(s, p) = NgramAfter(Catalog[s], p, "numerically_validated")
        BY <2>1 DEF Outcome, After
      <3>3. QED
        BY <3>1, <3>2
    <2>2. CASE s = "ngram_short"
      <3>1. Catalog[s].positive = {"promising_short_screen"}
        BY <2>2 DEF Catalog, NgramValidate, ScratchValidate, ScratchShort, MtpStage
      <3>2. Outcome(s, p) = NgramAfter(Catalog[s], p, "promising_short_screen")
        BY <2>2 DEF Outcome, After
      <3>3. QED
        BY <3>1, <3>2
    <2>3. QED
      BY <2>1, <2>2
  <1>3. /\ EndsRight(s, p)
        /\ Passes(s, p) => ~Disturbed(Catalog[s], p)
        /\ Passes(s, p) /\ Plan(s)[Len(p)].do \notin Unmeasured /\ PairDone(Catalog[s], p) => Equal(p, Pair(Catalog[s], p))
    BY <1>1, <1>2, NewestStep DEF EndsRight, Passes, Finished, Plan, NgramAfter, PairedAfter, NgramCompare,
       ScratchCompare, CleanFirst, Onward, Unmeasured
  <1>4. QED
    BY <1>1, <1>3, NewestStep DEF StepSound, StepClean, Unmeasured

(* screen_mtp_direct_output holds each validation to its reference first.  *)
LEMMA DirectSteps ==
    ASSUME NEW s \in {"direct_validate", "direct_short"}, NEW p, Begun(s, p)
    PROVE  StepSound(s, {}, p) /\ StepClean(s, p)
  <1>1. s \in Stages
    BY DEF Stages, Catalog
  <1>2. PICK e \in {"numerically_validated", "promising_short_screen"} : Catalog[s].positive = {e} /\ Outcome(s, p) = DirectAfter(Catalog[s], p, e)
    <2>1. CASE s = "direct_validate"
      <3>1. Catalog[s].positive = {"numerically_validated"}
        BY <2>1 DEF Catalog, DirectValidate, ScratchValidate, ScratchShort, MtpStage
      <3>2. Outcome(s, p) = DirectAfter(Catalog[s], p, "numerically_validated")
        BY <2>1 DEF Outcome, After
      <3>3. QED
        BY <3>1, <3>2
    <2>2. CASE s = "direct_short"
      <3>1. Catalog[s].positive = {"promising_short_screen"}
        BY <2>2 DEF Catalog, DirectValidate, ScratchValidate, ScratchShort, MtpStage
      <3>2. Outcome(s, p) = DirectAfter(Catalog[s], p, "promising_short_screen")
        BY <2>2 DEF Outcome, After
      <3>3. QED
        BY <3>1, <3>2
    <2>3. QED
      BY <2>1, <2>2
  <1>3. /\ EndsRight(s, p)
        /\ Passes(s, p) => ~Disturbed(Catalog[s], p)
        /\ Passes(s, p) /\ Plan(s)[Len(p)].do \notin Unmeasured /\ PairDone(Catalog[s], p) => Equal(p, Pair(Catalog[s], p))
    BY <1>1, <1>2, NewestStep DEF EndsRight, Passes, Finished, Plan, DirectAfter, PairedAfter, ScratchCompare,
       CleanFirst, Onward, Unmeasured
  <1>4. QED
    BY <1>1, <1>3, NewestStep DEF StepSound, StepClean, Unmeasured

(* The capture of a recovery trial is compared with nothing of its own     *)
(* stage.                                                                  *)
LEMMA RecoveryFixtureSteps ==
    ASSUME NEW s \in {"recovery_fixture"}, NEW p, Begun(s, p)
    PROVE  StepSound(s, {}, p) /\ StepClean(s, p)
  <1>1. s \in Stages /\ Catalog[s].positive = {"fixture_validated"}
    BY DEF Stages, Catalog, RecoveryFixture, MtpStage
  <1>2. Outcome(s, p) = RecoveryFixtureAfter(p)
    BY DEF Outcome, After
  <1>3. /\ EndsRight(s, p)
        /\ Passes(s, p) => ~Disturbed(Catalog[s], p)
    BY <1>1, <1>2 DEF EndsRight, Passes, Finished, Plan, Catalog, RecoveryFixtureAfter, CleanFirst, Onward
  <1>4. QED
    BY <1>1, <1>3, SingleRow, NewestStep DEF StepSound, StepClean, Unmeasured

(* screen_mtp_widths and screen_recovery_early: both arms of a pair are    *)
(* compared, then gated.                                                   *)
LEMMA WidthSteps ==
    ASSUME NEW s \in {"recovery_early", "width_screen"}, NEW p, Begun(s, p)
    PROVE  StepSound(s, {}, p) /\ StepClean(s, p)
  <1>1. s \in Stages /\ Catalog[s].positive = {"promising_early_screen"}
    BY DEF Stages, Catalog, RecoveryEarly, WidthScreen, MtpStage
  <1>2. Plan(s)[Len(p)].do \in {"require", "time"}
    BY <1>1, NewestStep, KindAssumption DEF Unmeasured
  <1>3. Outcome(s, p) = IF s = "recovery_early" THEN RecoveryEarlyAfter(p) ELSE WidthScreenAfter(p)
    BY DEF Outcome, After
  <1>4. /\ EndsRight(s, p)
        /\ Passes(s, p) => ~Disturbed(Catalog[s], p)
        /\ Passes(s, p) /\ Plan(s)[Len(p)].do \notin Unmeasured /\ PairDone(Catalog[s], p) => Equal(p, Pair(Catalog[s], p))
    BY <1>1, <1>2, <1>3, NewestStep DEF EndsRight, Passes, Finished, Plan, Unmeasured, Catalog,
       RecoveryEarlyAfter, WidthScreenAfter, ScratchCompare, CleanFirst, Onward
  <1>5. QED
    BY <1>1, <1>2, <1>4, NewestStep DEF StepSound, StepClean, Unmeasured

(* The width validations compare every sample with those of its prefix.    *)
LEMMA WidthValidateSteps ==
    ASSUME NEW s \in {"width_validate", "width_diagnostic"}, NEW p, Begun(s, p)
    PROVE  StepSound(s, {}, p) /\ StepClean(s, p)
  <1>1. s \in Stages /\ Catalog[s].positive = {"numerically_exact"}
    BY DEF Stages, Catalog, WidthValidate, WidthDiagnostic, MtpStage
  <1>2. Plan(s)[Len(p)].do \in Unmeasured \cup {"validate"}
    BY <1>1, NewestStep, KindAssumption DEF Unmeasured
  <1>3. Outcome(s, p) = WidthValidateAfter(Catalog[s], p, s = "width_diagnostic")
    BY DEF Outcome, After
  <1>4. /\ EndsRight(s, p)
        /\ Passes(s, p) /\ Plan(s)[Len(p)].do \notin Unmeasured /\ PairDone(Catalog[s], p) => Equal(p, Pair(Catalog[s], p))
    BY <1>1, <1>2, <1>3, NewestStep DEF EndsRight, Passes, Finished, Plan, Unmeasured, WidthValidateAfter,
       ScratchCompare, Onward
  <1>5. QED
    BY <1>1, <1>2, <1>4, NewestStep DEF StepSound, StepClean, Unmeasured

(* The streamed validations compare the two arms of every case.            *)
LEMMA StreamedValidateSteps ==
    ASSUME NEW s \in {"streamed_validate", "streamed_diagnostic"}, NEW p, Begun(s, p)
    PROVE  StepSound(s, {}, p) /\ StepClean(s, p)
  <1>1. s \in Stages /\ Catalog[s].positive = {"numerically_exact"}
    BY DEF Stages, Catalog, StreamedValidate, StreamedDiagnostic, MtpStage
  <1>2. Plan(s)[Len(p)].do \in Unmeasured \cup {"validate"}
    BY <1>1, NewestStep, KindAssumption DEF Unmeasured
  <1>3. Outcome(s, p) = StreamedValidateAfter(Catalog[s], p, s = "streamed_diagnostic")
    BY DEF Outcome, After
  <1>4. /\ EndsRight(s, p)
        /\ Passes(s, p) /\ Plan(s)[Len(p)].do \notin Unmeasured /\ PairDone(Catalog[s], p) => Equal(p, Pair(Catalog[s], p))
    BY <1>1, <1>2, <1>3, NewestStep DEF EndsRight, Passes, Finished, Plan, Unmeasured, StreamedValidateAfter,
       ScratchCompare, Onward
  <1>5. QED
    BY <1>1, <1>2, <1>4, NewestStep DEF StepSound, StepClean, Unmeasured

(* screen_streamed_mtp compares every pair it runs.                        *)
LEMMA StreamedScreenSteps ==
    ASSUME NEW s \in {"streamed_screen", "streamed_preliminary"}, NEW p, Begun(s, p)
    PROVE  StepSound(s, {}, p) /\ StepClean(s, p)
  <1>1. s \in Stages /\ Catalog[s].positive = {"storage_cost_measured"}
    <2>1. StreamedScreen.positive = {"storage_cost_measured"} /\ "positive" \in DOMAIN StreamedScreen
      BY DEF StreamedScreen, MtpStage
    <2>2. StreamedPreliminary.positive = StreamedScreen.positive
      BY <2>1 DEF StreamedPreliminary
    <2>3. QED
      BY <2>1, <2>2 DEF Stages, Catalog
  <1>2. Plan(s)[Len(p)].do \in {"require", "time"}
    BY <1>1, NewestStep, KindAssumption DEF Unmeasured
  <1>3. Outcome(s, p) = StreamedScreenAfter(Catalog[s], p)
    BY DEF Outcome, After
  <1>4. /\ EndsRight(s, p)
        /\ Passes(s, p) => ~Disturbed(Catalog[s], p)
        /\ Passes(s, p) /\ Plan(s)[Len(p)].do \notin Unmeasured /\ PairDone(Catalog[s], p) => Equal(p, Pair(Catalog[s], p))
    BY <1>1, <1>2, <1>3, NewestStep DEF EndsRight, Passes, Finished, Plan, Unmeasured, StreamedScreenAfter,
       ScratchCompare, CleanFirst, Onward
  <1>5. QED
    BY <1>1, <1>2, <1>4, NewestStep DEF StepSound, StepClean, Unmeasured

(* screen_verifier_horizon holds every process to the reference; the       *)
(* second timed pair decides.                                              *)
LEMMA HorizonSteps ==
    ASSUME NEW s \in {"horizon_screen", "streamed_horizon"}, NEW p, Begun(s, p)
    PROVE  StepSound(s, STRING, p) /\ StepClean(s, p)
  <1>1. s \in Stages /\ Catalog[s].positive = {"promising_verifier_ceiling"}
    BY DEF Stages, Catalog, HorizonScreen, StreamedHorizon, MtpStage
  <1>2. Outcome(s, p) = HorizonAfter(Catalog[s], p)
    BY DEF Outcome, After
  <1>3. /\ Passes(s, p) => Newest(p).out = "same" /\ ~Disturbed(Catalog[s], p)
        /\ Outcome(s, p) = "go" => Here(Catalog[s], p).do # "time" \/ ~PairDone(Catalog[s], p) \/ Here(Catalog[s], p).group = 0
        /\ Outcome(s, p) = "promising_verifier_ceiling" =>
             Here(Catalog[s], p).do = "time" /\ PairDone(Catalog[s], p) /\ Here(Catalog[s], p).group # 0
    BY <1>1, <1>2 DEF Passes, HorizonAfter, HorizonDecide, Anchored, Newest, CleanFirst
  <1>4. LastStep(s).do = "time" /\ LastStep(s).group = 1 /\ \A i \in DOMAIN Plan(s) : Plan(s)[i].group \in {0, 1}
    BY LastAssumption
  <1>5. Outcome(s, p) = "go" => Len(p) # Len(Plan(s))
    BY <1>1, <1>3, <1>4, FullRows
  <1>6. Outcome(s, p) = "promising_verifier_ceiling" => Len(p) = Len(Plan(s))
    <2> SUFFICES ASSUME Outcome(s, p) = "promising_verifier_ceiling" PROVE Len(p) = Len(Plan(s))
      OBVIOUS
    <2>1. Here(Catalog[s], p).do = "time" /\ PairDone(Catalog[s], p) /\ Here(Catalog[s], p).group = 1
      BY <1>1, <1>3, <1>4, NewestStep
    <2>2. SameGroup(s, Len(Plan(s)), Len(p)) /\ Len(Plan(s)) \in DOMAIN Plan(s)
      BY <1>1, <1>4, <2>1, NewestStep, PlanAssumption DEF SameGroup, LastStep
    <2>3. Len(Plan(s)) <= Len(p)
      BY <1>1, <2>1, <2>2, PairRows
    <2>4. QED
      BY <1>1, <2>3, NewestStep, PlanAssumption
  <1>7. QED
    BY <1>1, <1>3, <1>5, <1>6, NewestStep DEF StepSound, StepClean, EndsRight

(* screen_horizon_early: the same behind a blocked attempt.                *)
LEMMA HorizonEarlySteps ==
    ASSUME NEW s \in {"horizon_early"}, NEW p, Begun(s, p)
    PROVE  StepSound(s, STRING, p) /\ StepClean(s, p)
  <1>1. s \in Stages /\ Catalog[s].positive = {"promising_preliminary_ceiling"}
    BY DEF Stages, Catalog, HorizonEarly, MtpStage
  <1>2. Outcome(s, p) = HorizonEarlyAfter(p)
    BY DEF Outcome, After
  <1>3. /\ EndsRight(s, p)
        /\ Passes(s, p) => Newest(p).out = "same"
        /\ Passes(s, p) /\ Plan(s)[Len(p)].do # "validate" => ~Disturbed(Catalog[s], p)
    BY <1>1, <1>2, TimedLast, NewestStep DEF EndsRight, Passes, Finished, Plan, Catalog, HorizonEarlyAfter
  <1>4. QED
    BY <1>1, <1>3, NewestStep DEF StepSound, StepClean

(* perfect_draft: a round is held to its width 1, which every round has.   *)
LEMMA PerfectDraftSteps ==
    ASSUME NEW s \in {"perfect_draft"}, NEW p, Begun(s, p)
    PROVE  StepSound(s, {}, p) /\ StepClean(s, p)
  <1>1. s \in Stages /\ Catalog[s].positive = {"perfect_verifier_promising"}
    BY DEF Stages, Catalog, PerfectDraft, MtpStage
  <1>2. Outcome(s, p) = PerfectDraftAfter(p)
    BY DEF Outcome, After
  <1>3. /\ EndsRight(s, p)
        /\ Passes(s, p) => ~Disturbed(Catalog[s], p)
        /\ Passes(s, p) => PerfectDraftCompare(p)
    BY <1>1, <1>2 DEF EndsRight, Passes, Finished, Plan, Catalog, PerfectDraftAfter, PerfectDraftDecide, ProofFirst
  <1>4. ASSUME Plan(s)[Len(p)].do \notin Unmeasured, PairDone(Catalog[s], p), PerfectDraftCompare(p)
        PROVE  Equal(p, Pair(Catalog[s], p))
    <2>1. Len(p) \in Measured(s)
      BY <1>1, <1>4, NewestStep DEF Measured
    <2>2. PICK k \in DOMAIN Plan(s) : Plan(s)[k] = Step(Plan(s)[Len(p)].do, Plan(s)[Len(p)].group, "w1")
      BY <2>1, RoundAssumption
    <2>3. SameGroup(s, k, Len(p))
      BY <2>2 DEF SameGroup, Step
    <2>4. k \in 1 .. Len(p)
      <3>1. k <= Len(p)
        BY <1>1, <1>4, <2>2, <2>3, PairRows
      <3>2. k \in 1 .. Len(Plan(s)) /\ Len(p) \in Nat
        BY <1>1, <2>2, NewestStep
      <3>3. QED
        BY <3>1, <3>2
    <2>5. Catalog[s] = PerfectDraft
      BY DEF Catalog
    <2>6. Has(PerfectDraft, p, Step(Here(PerfectDraft, p).do, Here(PerfectDraft, p).group, "w1"))
      BY <1>1, <2>2, <2>4, <2>5, NewestStep DEF Has, Plan
    <2>7. QED
      BY <1>4, <2>5, <2>6 DEF PerfectDraftCompare
  <1>5. QED
    BY <1>1, <1>3, <1>4, NewestStep DEF StepSound, StepClean

(* perfect_draft_capacity: all validations and timings agree.              *)
LEMMA DraftCapacitySteps ==
    ASSUME NEW s \in {"draft_capacity"}, NEW p, Begun(s, p)
    PROVE  StepSound(s, {}, p) /\ StepClean(s, p)
  <1>1. s \in Stages /\ Catalog[s].positive = {"verifier_capacity_promising"} /\ Catalog[s] = DraftCapacity
    <2>1. DraftCapacity.positive = {"verifier_capacity_promising"}
      BY DEF DraftCapacity, MtpStage
    <2>2. QED
      BY <2>1 DEF Stages, Catalog
  <1>2. Plan(s)[Len(p)].do \in Unmeasured \cup {"validate", "time"}
    BY <1>1, NewestStep, KindAssumption DEF Unmeasured
  <1>3. Outcome(s, p) = DraftCapacityAfter(p)
    BY DEF Outcome, After
  <1>4. /\ Outcome(s, p) = "go" => Here(Catalog[s], p).do # "time" \/ Len(p) # Len(Plan(s))
        /\ Outcome(s, p) = "verifier_capacity_promising" => Len(p) = Len(Plan(s))
        /\ Passes(s, p) => ~Disturbed(Catalog[s], p)
        /\ Passes(s, p) => Equal(p, Among(Catalog[s], p, "validate") \cup Among(Catalog[s], p, "time"))
    BY <1>1, <1>3 DEF Passes, Finished, Plan, DraftCapacityAfter, DraftCapacityDecide, CapacityProgress, ProofFirst
  <1>5. EndsRight(s, p)
    BY <1>1, <1>4, TimedLast DEF EndsRight
  <1>6. QED
    BY <1>1, <1>2, <1>4, <1>5, PairKind, NewestStep DEF StepSound, StepClean, Unmeasured, Equal

(* screen_mtp_forward: one validation, then one pair, compared at the end. *)
LEMMA ForwardJointSteps ==
    ASSUME NEW s \in {"forward_joint"}, NEW p, Begun(s, p)
    PROVE  StepSound(s, {}, p) /\ StepClean(s, p)
  <1>1. s \in Stages /\ Catalog[s].positive = {"promising_short_screen"}
    BY DEF Stages, Catalog, ForwardJoint, MtpStage, Loose
  <1>2. Outcome(s, p) = ForwardJointAfter(p)
    BY DEF Outcome, After
  <1>3. /\ EndsRight(s, p)
        /\ Passes(s, p) /\ Here(Catalog[s], p).arm # "validate" => Clean(Catalog[s], p)
        /\ Outcome(s, p) \in Catalog[s].positive => Equal(p, Among(Catalog[s], p, "time"))
    BY <1>1, <1>2, TimedLast DEF EndsRight, Passes, Finished, Plan, Catalog, ForwardJointAfter
  <1>4. \A i \in DOMAIN Plan(s) :
          /\ Plan(s)[i].do = "validate" <=> i = 2
          /\ Plan(s)[i].arm = "validate" <=> i = 2
          /\ Plan(s)[i].do \in Unmeasured \cup {"validate"} \/ SameGroup(s, i, Len(Plan(s)))
    BY RoundAssumption
  <1>5. Plan(s)[Len(p)].do # "validate" => Here(Catalog[s], p).arm # "validate"
    BY <1>1, <1>4, NewestStep
  <1>6. ASSUME Passes(s, p), Plan(s)[Len(p)].do \notin Unmeasured, PairDone(Catalog[s], p)
        PROVE  Equal(p, Pair(Catalog[s], p))
    <2>1. CASE Plan(s)[Len(p)].do = "validate"
      <3>1. \A i \in Pair(Catalog[s], p) : i \in DOMAIN Plan(s) /\ Plan(s)[i].do = "validate"
        BY <1>1, <2>1, PairRows, NewestStep, PlanAssumption DEF SameGroup, Begun
      <3>2. QED
        BY <1>4, <3>1 DEF Equal
    <2>2. CASE Plan(s)[Len(p)].do # "validate"
      <3>1. SameGroup(s, Len(p), Len(Plan(s)))
        BY <1>1, <1>4, <1>6, <2>2, NewestStep
      <3>2. SameGroup(s, Len(Plan(s)), Len(p)) /\ Len(Plan(s)) \in DOMAIN Plan(s)
        BY <1>1, <3>1, NewestStep, PlanAssumption DEF SameGroup, Begun
      <3>3. Len(Plan(s)) <= Len(p)
        BY <1>1, <1>6, <3>2, PairRows
      <3>4. Len(p) = Len(Plan(s))
        BY <1>1, <3>3, NewestStep, PlanAssumption
      <3>5. Equal(p, Among(Catalog[s], p, "time")) /\ Plan(s)[Len(p)].do = "time"
        BY <1>1, <1>3, <1>6, <3>4, TimedLast, NewestStep DEF Passes, EndsRight
      <3>6. QED
        BY <1>1, <3>5, PairKind DEF Equal
    <2>3. QED
      BY <2>1, <2>2
  <1>7. QED
    BY <1>1, <1>3, <1>5, <1>6, NewestStep DEF StepSound, StepClean, Clean, Newest, Disturbed, Here

(* trial_recovery: a finished pair is compared, then gated.                *)
LEMMA RecoverySteps ==
    ASSUME NEW s \in {"recovery_correctness", "recovery_short", "recovery_accepted", "recovery_long"}, NEW p,
           Begun(s, p)
    PROVE  StepSound(s, {}, p) /\ StepClean(s, p)
  <1>1. /\ s \in Stages
        /\ s = "recovery_correctness" => Catalog[s].positive = {"numerically_validated"}
        /\ s = "recovery_short" => Catalog[s].positive = {"promising_short_screen"} /\ Catalog[s] = RecoveryShort
        /\ s = "recovery_accepted" => Catalog[s].positive = {"all_accepted_safe"}
        /\ s = "recovery_long" => Catalog[s].positive = {"promising_long_screen"}
    <2>1. RecoveryCorrectness.positive = {"numerically_validated"} /\ RecoveryShort.positive = {"promising_short_screen"}
      BY DEF RecoveryCorrectness, RecoveryShort, MtpStage
    <2>2. RecoveryAccepted.positive = {"all_accepted_safe"} /\ RecoveryLong.positive = {"promising_long_screen"}
      BY DEF RecoveryAccepted, RecoveryLong, MtpStage
    <2>3. QED
      BY <2>1, <2>2 DEF Stages, Catalog
  <1>2. Outcome(s, p) = RecoveryAfter(Catalog[s], p)
    BY DEF Outcome, After
  <1> DEFINE paired == Here(Catalog[s], p).do \notin {"require", "native"} /\ PairDone(Catalog[s], p)
  <1>3. /\ Outcome(s, p) \in {"failed", "resource_blocked", "go"} \/ (paired /\ Outcome(s, p) = RecoveryScreenGate(Catalog[s], p))
        /\ Outcome(s, p) \in {"failed", "resource_blocked"} \/ ~Disturbed(Catalog[s], p)
        /\ paired => Outcome(s, p) \in {"failed", "resource_blocked"}
                       \/ (Outcome(s, p) = RecoveryScreenGate(Catalog[s], p) /\ Equal(p, Pair(Catalog[s], p)))
    BY <1>2 DEF RecoveryAfter, CleanFirst, ScratchCompare
  <1>4. ASSUME paired, Outcome(s, p) = RecoveryScreenGate(Catalog[s], p)
        PROVE  /\ Outcome(s, p) = "go" => Len(p) # Len(Plan(s))
               /\ Outcome(s, p) \in Catalog[s].positive => Len(p) = Len(Plan(s)) \/ s = "recovery_accepted"
    BY <1>1, <1>4 DEF RecoveryScreenGate, Onward, Finished, Plan
  <1>5. Len(p) = Len(Plan(s)) => paired
    BY <1>1, FullRows, MeasuredLast DEF Unmeasured
  <1>6. paired /\ s = "recovery_accepted" /\ Plan(s)[Len(p)].do \notin Unmeasured => Len(p) = Len(Plan(s))
    BY LastGroup
  <1>7. s = "recovery_accepted" => Plan(s)[Len(p)].do \notin Unmeasured \ {"native", "require"}
    BY <1>1, NewestStep, KindAssumption DEF Unmeasured
  <1>8. EndsRight(s, p)
    BY <1>1, <1>3, <1>4, <1>5, <1>6, <1>7, NewestStep DEF EndsRight, Unmeasured
  <1>9. Passes(s, p) => Outcome(s, p) \notin {"failed", "resource_blocked"}
    BY <1>1 DEF Passes
  <1>10. QED
    BY <1>1, <1>3, <1>8, <1>9, NewestStep DEF StepSound, StepClean, Unmeasured

(* screen_cache: the proof pair agrees, and all timings do.                *)
LEMMA CacheScreenSteps ==
    ASSUME NEW s \in {"cache_screen"}, NEW p, Begun(s, p)
    PROVE  StepSound(s, {}, p) /\ StepClean(s, p)
  <1>1. s \in Stages /\ Catalog[s].positive = {"promising"} /\ Catalog[s].disturb = {}
    BY DEF Stages, Catalog, CacheScreen, Conversation
  <1>2. Plan(s)[Len(p)].do \in Unmeasured \cup {"validate", "time"}
    BY <1>1, NewestStep, KindAssumption DEF Unmeasured
  <1>3. Outcome(s, p) = CacheScreenAfter(p)
    BY DEF Outcome, After
  <1>4. /\ EndsRight(s, p)
        /\ Passes(s, p) => IF Plan(s)[Len(p)].do = "validate"
                            THEN PairDone(Catalog[s], p) => Equal(p, Pair(Catalog[s], p)) ELSE Equal(p, Among(Catalog[s], p, "time"))
    BY <1>1, <1>2, <1>3, NewestStep DEF EndsRight, Passes, Finished, Plan, Catalog, CacheScreenAfter,
       Recorded, Gain, NoGain
  <1>5. QED
    BY <1>1, <1>2, <1>4, PairKind, NewestStep DEF StepSound, StepClean, Unmeasured, Equal, Disturbed

(* screen_residency: the tokens are those of the sealed control.           *)
LEMMA ResidencySteps ==
    ASSUME NEW s \in {"residency_screen", "residency_confirm"}, NEW p, Begun(s, p)
    PROVE  StepSound(s, {"time"}, p) /\ StepClean(s, p)
  <1>1. s \in Stages /\ Catalog[s].positive = {"promising"} /\ Catalog[s].disturb = {}
    BY DEF Stages, Catalog, ResidencyScreen, ResidencyConfirm, Conversation
  <1>2. Plan(s)[Len(p)].do \in {"require", "time"}
    BY <1>1, NewestStep, KindAssumption DEF Unmeasured
  <1>3. Outcome(s, p) = ResidencyAfter(Catalog[s], p)
    BY DEF Outcome, After
  <1>4. /\ EndsRight(s, p)
        /\ Passes(s, p) => Anchored(p, Among(Catalog[s], p, "time"))
    BY <1>1, <1>2, <1>3 DEF EndsRight, Passes, Finished, Plan, ResidencyAfter, Recorded, Gain, NoGain
  <1>5. QED
    BY <1>1, <1>2, <1>4, NewestStep DEF StepSound, StepClean, Unmeasured, Anchored, Among, Newest, Plan, Disturbed

(* screen_capacity: the proof pair agrees, every other process repeats the *)
(* reference.                                                              *)
LEMMA CapacityTrialSteps ==
    ASSUME NEW s \in {"capacity_trial"}, NEW p, Begun(s, p)
    PROVE  StepSound(s, STRING \ {"validate"}, p) /\ StepClean(s, p)
  <1>1. s \in Stages /\ Catalog[s].positive = {"completed_candidate"} /\ Catalog[s].disturb = {}
    BY DEF Stages, Catalog, CapacityTrial, Conversation
  <1>2. Outcome(s, p) = CapacityTrialAfter(p)
    BY DEF Outcome, After
  <1>3. /\ EndsRight(s, p)
        /\ Passes(s, p) => CapacityExact(Catalog[s], p)
    BY <1>1, <1>2 DEF EndsRight, Passes, Finished, Plan, Catalog, CapacityTrialAfter, Recorded
  <1>4. QED
    BY <1>1, <1>3, NewestStep DEF StepSound, StepClean, Unmeasured, CapacityExact, Anchored, Newest, Disturbed

(* screen_expert_tail and screen_route_selection: all timings agree, and   *)
(* so does the proof pair.                                                 *)
LEMMA ProvedSteps ==
    ASSUME NEW s \in {"tail_screen", "route_screen"}, NEW p, Begun(s, p)
    PROVE  StepSound(s, {}, p) /\ StepClean(s, p)
  <1>1. s \in Stages /\ Catalog[s].positive = {"promising"} /\ Catalog[s].disturb = {}
    BY DEF Stages, Catalog, TailScreen, RouteScreen, Conversation
  <1>2. Plan(s)[Len(p)].do \in Unmeasured \cup {"validate", "time"}
    BY <1>1, NewestStep, KindAssumption DEF Unmeasured
  <1>3. Outcome(s, p) = IF s = "tail_screen" THEN TailAfter(p) ELSE RouteAfter(p)
    BY DEF Outcome, After
  <1>4. /\ EndsRight(s, p)
        /\ Passes(s, p) => IF Plan(s)[Len(p)].do = "validate"
                            THEN PairDone(Catalog[s], p) => Equal(p, Pair(Catalog[s], p)) ELSE Equal(p, Among(Catalog[s], p, "time"))
    BY <1>1, <1>2, <1>3, NewestStep DEF EndsRight, Passes, Finished, Plan, Catalog, TailAfter, RouteAfter,
       ProvedAfter, LastOf, TailDecide, Recorded, Gain, NoGain
  <1>5. QED
    BY <1>1, <1>2, <1>4, PairKind, NewestStep DEF StepSound, StepClean, Unmeasured, Equal, Disturbed

(* screen_q8_steady: the proof pair agrees, the timings repeat the         *)
(* reference.                                                              *)
LEMMA Q8ScreenSteps ==
    ASSUME NEW s \in {"q8_screen"}, NEW p, Begun(s, p)
    PROVE  StepSound(s, {"time"}, p) /\ StepClean(s, p)
  <1>1. s \in Stages /\ Catalog[s].positive = {"promising"} /\ Catalog[s].disturb = {}
    BY DEF Stages, Catalog, Q8Screen, Conversation
  <1>2. Plan(s)[Len(p)].do \in Unmeasured \cup {"validate", "time"}
    BY <1>1, NewestStep, KindAssumption DEF Unmeasured
  <1>3. Outcome(s, p) = Q8ScreenAfter(p)
    BY DEF Outcome, After
  <1>4. /\ EndsRight(s, p)
        /\ Passes(s, p) => IF Plan(s)[Len(p)].do = "validate"
                            THEN PairDone(Catalog[s], p) => Equal(p, Pair(Catalog[s], p)) ELSE Plan(s)[Len(p)].do = "time" => Anchored(p, Among(Catalog[s], p, "time"))
    BY <1>1, <1>2, <1>3, TimedLast, NewestStep DEF EndsRight, Passes, Finished, Plan, Catalog, Q8ScreenAfter,
       Recorded, Gain, NoGain
  <1>5. QED
    BY <1>1, <1>2, <1>4, PairKind, NewestStep DEF StepSound, StepClean, Unmeasured, Anchored, Among, Newest,
       Plan, Disturbed

(* screen_decode_scratch: the timings repeat the reference, the proof pair *)
(* agrees.                                                                 *)
LEMMA ScratchScreenSteps ==
    ASSUME NEW s \in {"scratch_screen"}, NEW p, Begun(s, p)
    PROVE  StepSound(s, {"time"}, p)
  <1>1. s \in Stages /\ Catalog[s].positive = {"promising"}
    BY DEF Stages, Catalog, ScratchScreen, Conversation
  <1>2. Plan(s)[Len(p)].do \in Unmeasured \cup {"validate", "time"}
    BY <1>1, NewestStep, KindAssumption DEF Unmeasured
  <1>3. Outcome(s, p) = ScratchScreenAfter(p)
    BY DEF Outcome, After
  <1>4. /\ EndsRight(s, p)
        /\ Passes(s, p) => IF Plan(s)[Len(p)].do = "validate"
                            THEN PairDone(Catalog[s], p) => Equal(p, Pair(Catalog[s], p)) ELSE Anchored(p, {Len(p)})
    BY <1>1, <1>2, <1>3, NewestStep DEF EndsRight, Passes, Finished, Plan, Catalog, ScratchScreenAfter,
       ProvedAfter, LastOf, ScratchDecide, TailDecide, Recorded, Gain, NoGain
  <1>5. QED
    BY <1>1, <1>2, <1>4, NewestStep DEF StepSound, Unmeasured, Anchored, Newest

(* confirm_q8_steady.run: the tokens of every timing are those of the      *)
(* screen.                                                                 *)
LEMMA ConfirmSteps ==
    ASSUME NEW s \in {"q8_confirm", "route_confirm", "scratch_confirm", "budget_screen"}, NEW p, Begun(s, p)
    PROVE  StepSound(s, {"time"}, p)
  <1>1. s \in Stages /\ Catalog[s].positive = {"promising"}
    BY DEF Stages, Catalog, Q8Confirm, RouteConfirm, ScratchConfirm, BudgetScreen, Confirmation, Conversation
  <1>2. Plan(s)[Len(p)].do \in {"require", "time"}
    BY <1>1, NewestStep, KindAssumption DEF Unmeasured
  <1>3. Outcome(s, p) = ConfirmAfter(Catalog[s], p)
    BY DEF Outcome, After
  <1>4. /\ EndsRight(s, p)
        /\ Passes(s, p) => Anchored(p, Among(Catalog[s], p, "time"))
    BY <1>1, <1>2, <1>3 DEF EndsRight, Passes, Finished, Plan, ConfirmAfter, ScratchConfirmDecide, Recorded,
       Gain, NoGain
  <1>5. QED
    BY <1>1, <1>2, <1>4, NewestStep DEF StepSound, Unmeasured, Anchored, Among, Newest, Plan

(* The state proof of screen_expert_residency compares its two arms at the *)
(* end.                                                                    *)
LEMMA ExpertStateSteps ==
    ASSUME NEW s \in {"expert_residency_state"}, NEW p, Begun(s, p)
    PROVE  StepSound(s, {}, p) /\ StepClean(s, p)
  <1>1. s \in Stages /\ Catalog[s].positive = {"state_qualified"} /\ Catalog[s].disturb = {}
    <2>1. /\ ExpertResidencyState.positive = {"state_qualified"} /\ ExpertResidencyState.disturb = {}
      BY DEF ExpertResidencyState, Conversation, Staged
    <2>2. QED
      BY <2>1 DEF Stages, Catalog
  <1>2. Plan(s)[Len(p)].do \in Unmeasured \cup {"validate"}
    BY <1>1, NewestStep, KindAssumption DEF Unmeasured
  <1>3. Outcome(s, p) = ExpertStateAfter(p)
    BY DEF Outcome, After
  <1>4. /\ EndsRight(s, p)
        /\ Passes(s, p) /\ Len(p) = Len(Plan(s)) => Equal(p, Among(Catalog[s], p, "validate"))
    BY <1>1, <1>2, <1>3 DEF EndsRight, Passes, Finished, Plan, Catalog, ExpertStateAfter, ExpertStateProved, Recorded,
       Onward
  <1>5. QED
    BY <1>1, <1>2, <1>4, LastGroup, PairKind, NewestStep DEF StepSound, StepClean, Unmeasured, Equal, Disturbed

(* screen_coalesced and the expert residency screens: the timings repeat   *)
(* the reference.                                                          *)
LEMMA ResidentSteps ==
    ASSUME NEW s \in {"coalesced_screen", "expert_residency_screen"}, NEW p, Begun(s, p)
    PROVE  StepSound(s, {"time"}, p) /\ StepClean(s, p)
  <1>1. s \in Stages /\ Catalog[s].positive = {"promising"}
    BY DEF Stages, Catalog, CoalescedScreen, ExpertResidencyScreen, Conversation, Staged
  <1>2. Plan(s)[Len(p)].do \in {"require", "time"}
    BY <1>1, NewestStep, KindAssumption DEF Unmeasured
  <1>3. Outcome(s, p) = ResidentAfter(Catalog[s], p)
    BY DEF Outcome, After
  <1>4. /\ EndsRight(s, p)
        /\ Passes(s, p) => ~Disturbed(Catalog[s], p) /\ Anchored(p, Among(Catalog[s], p, "time"))
    BY <1>1, <1>2, <1>3 DEF EndsRight, Passes, Finished, Plan, ResidentAfter, ExpertConfirmDecide,
       CoalescedDecide, ProofFirst, Gain, NoGain
  <1>5. QED
    BY <1>1, <1>2, <1>4, NewestStep DEF StepSound, StepClean, Unmeasured, Anchored, Among, Newest, Plan

(* The same for their confirmation.                                        *)
LEMMA ResidentConfirmSteps ==
    ASSUME NEW s \in {"expert_residency_confirm"}, NEW p, Begun(s, p)
    PROVE  StepSound(s, {"time"}, p) /\ StepClean(s, p)
  <1>1. s \in Stages /\ Catalog[s].positive = {"qualified_short_gain", "gain_below_stage_target"}
    BY DEF Stages, Catalog, ExpertResidencyConfirm, Conversation, Staged
  <1>2. Plan(s)[Len(p)].do \in {"require", "time"}
    BY <1>1, NewestStep, KindAssumption DEF Unmeasured
  <1>3. Outcome(s, p) = ResidentAfter(Catalog[s], p)
    BY DEF Outcome, After
  <1>4. /\ EndsRight(s, p)
        /\ Passes(s, p) => ~Disturbed(Catalog[s], p) /\ Anchored(p, Among(Catalog[s], p, "time"))
    BY <1>1, <1>2, <1>3 DEF EndsRight, Passes, Finished, Plan, ResidentAfter, ExpertConfirmDecide,
       CoalescedDecide, ProofFirst, Gain, NoGain
  <1>5. QED
    BY <1>1, <1>2, <1>4, NewestStep DEF StepSound, StepClean, Unmeasured, Anchored, Among, Newest, Plan

(* stage200 q3: each case has one validation and one timing, decided by    *)
(* the timing.                                                             *)
LEMMA StageQ3Steps ==
    ASSUME NEW s \in {"stage_q3"}, NEW p, Begun(s, p)
    PROVE  StepSound(s, {}, p) /\ StepClean(s, p)
  <1>1. s \in Stages /\ Catalog[s].positive = {"worth_quality_investigation"} /\ Catalog[s].disturb =
     StageQ3.disturb
    BY DEF Stages, Catalog, StageQ3, Conversation, Staged
  <1>2. Outcome(s, p) = StageQ3After(p)
    BY DEF Outcome, After
  <1>3. /\ EndsRight(s, p)
        /\ Passes(s, p) /\ Plan(s)[Len(p)].do = "time" => ~Disturbed(Catalog[s], p)
    BY <1>1, <1>2, TimedLast, NewestStep DEF EndsRight, Passes, Finished, Plan, Catalog, StageQ3After,
       StageQ3Decide, Recorded, Disturbed
  <1>4. Plan(s)[Len(p)].do # "long"
    BY <1>1, NewestStep, KindAssumption DEF Unmeasured
  <1>5. QED
    BY <1>1, <1>3, <1>4, SingleRow, NewestStep DEF StepSound, StepClean, Unmeasured

(* stage200: all processes of a stage compute the same.                    *)
LEMMA StageSteps ==
    ASSUME NEW s \in {"stage_capacity", "stage_pressure", "stage_profile"}, NEW p, Begun(s, p)
    PROVE  StepSound(s, {}, p)
  <1>1. /\ s \in Stages
        /\ Catalog[s].positive \subseteq {"provisional_control", "provisional_candidate", "observed", "captured"}
    <2>1. StageCapacity.positive = {"provisional_control", "provisional_candidate"}
      BY DEF StageCapacity, Conversation, Staged
    <2>2. StagePressure.positive = {"observed"}
      BY DEF StagePressure, Conversation, Staged
    <2>3. StageProfile.positive = {"captured"}
      BY DEF StageProfile, Conversation, Staged
    <2>4. QED
      BY <2>1, <2>2, <2>3 DEF Stages, Catalog
  <1>2. Outcome(s, p) = StageAfter(Catalog[s], p)
    BY DEF Outcome, After
  <1>3. /\ EndsRight(s, p)
        /\ Passes(s, p) => Equal(p, DOMAIN p)
    BY <1>1, <1>2 DEF EndsRight, Passes, Finished, Plan, StageAfter, StageCapacityDecide, StagePressureDecide,
       Recorded, Anchored, Equal
  <1>4. Pair(Catalog[s], p) \subseteq DOMAIN p
    BY <1>1, NewestStep DEF Pair
  <1>5. QED
    BY <1>3, <1>4 DEF StepSound, Equal

(* The operator probes look at both processes after the timing, which is   *)
(* the last step.                                                          *)
LEMMA ProbeSteps ==
    ASSUME NEW s \in {"submission_screen", "hyper_fusion", "q8_lookahead", "q4_packed"}, NEW p, Begun(s, p)
    PROVE  StepSound(s, {}, p) /\ StepClean(s, p)
  <1>1. s \in Stages /\ Catalog[s].positive = {"worth_request_screen"}
    <2>1. HyperFusion.positive = {"worth_request_screen"} /\ Q8Lookahead.positive = {"worth_request_screen"}
      BY DEF HyperFusion, Q8Lookahead, Operator
    <2>2. Q4Packed.positive = {"worth_request_screen"} /\ SubmissionScreen.positive = {"worth_request_screen"}
      BY DEF Q4Packed, SubmissionScreen, Operator
    <2>3. QED
      BY <2>1, <2>2 DEF Stages, Catalog
  <1>2. Outcome(s, p) = ProbeAfter(Catalog[s], p)
    BY DEF Outcome, After
  <1>3. /\ Outcome(s, p) = "go" => Here(Catalog[s], p).do \in Unmeasured \/ Len(p) # Len(Plan(s))
        /\ Outcome(s, p) = "worth_request_screen" => Len(p) = Len(Plan(s)) /\ ~Disturbed(Catalog[s], p)
    BY <1>1, <1>2 DEF Finished, Plan, Unmeasured, ProbeAfter, ProbeDecide, Disturbed
  <1>4. EndsRight(s, p)
    BY <1>1, <1>3, MeasuredLast DEF EndsRight
  <1>5. Plan(s)[Len(p)].do \in {"time", "long"} => Len(p) = Len(Plan(s))
    BY <1>1, NewestStep, LastAssumption
  <1>6. StepClean(s, p)
    BY <1>1, <1>3, <1>4, <1>5 DEF StepClean, Passes, EndsRight
  <1>7. QED
    BY <1>4, <1>6, SingleRow DEF StepSound

(* The verifier operators hold every process to the reference kernel.      *)
LEMMA VerifierOperatorSteps ==
    ASSUME NEW s \in {"block_gdn", "q8_block_packed", "q8_expanded_capture", "q8_expanded"}, NEW p, Begun(s, p)
    PROVE  StepSound(s, STRING, p) /\ StepClean(s, p)
  <1>1. s \in Stages /\ Catalog[s].positive \subseteq {"worth_verifier_screen", "captured"}
    <2>1. BlockGdn.positive = {"worth_verifier_screen"} /\ Q8BlockPacked.positive = {"worth_verifier_screen"}
      BY DEF BlockGdn, Q8BlockPacked, VerifierOperator, Operator
    <2>2. Q8ExpandedCapture.positive = {"captured"} /\ Q8Expanded.positive = {"worth_verifier_screen"}
      BY DEF Q8ExpandedCapture, Q8Expanded, VerifierOperator, Operator
    <2>3. QED
      BY <2>1, <2>2 DEF Stages, Catalog
  <1>2. Outcome(s, p) = VerifierOperatorAfter(Catalog[s], p)
    BY DEF Outcome, After
  <1>3. /\ EndsRight(s, p)
        /\ Passes(s, p) => Newest(p).out = "same" /\ ~Disturbed(Catalog[s], p)
    BY <1>1, <1>2 DEF EndsRight, Passes, Finished, Plan, VerifierOperatorAfter, ProofFirst, Anchored, Newest
  <1>4. QED
    BY <1>1, <1>3, NewestStep DEF StepSound, StepClean

(* The state proof of combined_q4 compares its two arms at the end.        *)
LEMMA CombinedStateSteps ==
    ASSUME NEW s \in {"combined_state"}, NEW p, Begun(s, p)
    PROVE  StepSound(s, {}, p) /\ StepClean(s, p)
  <1>1. s \in Stages /\ Catalog[s].positive = {"state_qualified"}
    BY DEF Stages, Catalog, CombinedState, Operator
  <1>2. Plan(s)[Len(p)].do \in Unmeasured \cup {"validate"}
    BY <1>1, NewestStep, KindAssumption DEF Unmeasured
  <1>3. Outcome(s, p) = CombinedStateAfter(p)
    BY DEF Outcome, After
  <1>4. /\ Outcome(s, p) = "go" => Here(Catalog[s], p).do \in Unmeasured \/ Len(p) # Len(Plan(s))
        /\ Outcome(s, p) = "state_qualified" => Len(p) = Len(Plan(s)) /\ Equal(p, Among(Catalog[s], p, "validate"))
    BY <1>1, <1>2, <1>3, NewestStep DEF Unmeasured, Finished, Plan, Catalog, CombinedStateAfter
  <1>5. QED
    BY <1>1, <1>2, <1>4, LastGroup, PairKind, MeasuredLast, NewestStep DEF StepSound, StepClean, Unmeasured,
       EndsRight, Equal, Passes

(* combined_q4: all requests agree.                                        *)
LEMMA CombinedScreenSteps ==
    ASSUME NEW s \in {"combined_screen"}, NEW p, Begun(s, p)
    PROVE  StepSound(s, {}, p) /\ StepClean(s, p)
  <1>1. s \in Stages /\ Catalog[s].positive = {"promising"}
    BY DEF Stages, Catalog, CombinedScreen, Operator
  <1>2. Plan(s)[Len(p)].do \in {"require", "time"}
    BY <1>1, NewestStep, KindAssumption DEF Unmeasured
  <1>3. Outcome(s, p) = CombinedScreenAfter(p)
    BY DEF Outcome, After
  <1>4. /\ EndsRight(s, p)
        /\ Passes(s, p) => ~Disturbed(Catalog[s], p) /\ Equal(p, Among(Catalog[s], p, "time"))
    BY <1>1, <1>2, <1>3 DEF EndsRight, Passes, Finished, Plan, Catalog, CombinedScreenAfter, CombinedDecide,
       ProofFirst
  <1>5. QED
    BY <1>1, <1>2, <1>4, PairKind, NewestStep DEF StepSound, StepClean, Unmeasured, Equal

(* native_q4_replay holds both processes to the reference; the timing is   *)
(* the last step.                                                          *)
LEMMA NativeReplaySteps ==
    ASSUME NEW s \in {"native_replay"}, NEW p, Begun(s, p)
    PROVE  StepSound(s, STRING, p) /\ StepClean(s, p)
  <1>1. s \in Stages /\ Catalog[s].positive = {"diagnostic_gain"} /\ Catalog[s].disturb = ReplayDisturbs
    BY DEF Stages, Catalog, NativeReplay, Operator
  <1>2. Outcome(s, p) = NativeReplayAfter(p)
    BY DEF Outcome, After
  <1>3. /\ EndsRight(s, p)
        /\ Passes(s, p) => Newest(p).out = "same"
        /\ Outcome(s, p) = "diagnostic_gain" => ~Disturbed(Catalog[s], p)
    BY <1>1, <1>2 DEF EndsRight, Passes, Finished, Plan, Catalog, NativeReplayAfter, ReplayDecide, Recorded,
       Anchored, Newest, Disturbed
  <1>4. QED
    BY <1>1, <1>3, LastAssumption, NewestStep DEF StepSound, StepClean, Unmeasured, Passes, EndsRight

(* The arrival scripts: processes of their own, compared with the          *)
(* reference or with each other.                                           *)
LEMMA ArrivalSteps ==
    ASSUME NEW s \in {"read_arrivals", "shared_arrivals", "scratch_lifetime"}, NEW p, Begun(s, p)
    PROVE  StepSound(s, {}, p) /\ StepClean(s, p)
  <1>1. s \in Stages /\ Catalog[s].positive = {"diagnostic_gain"}
    <2>1. ReadArrivals.positive = {"diagnostic_gain"} /\ "positive" \in DOMAIN ReadArrivals
      BY DEF ReadArrivals, Operator
    <2>2. SharedArrivals.positive = {"diagnostic_gain"} /\ ScratchLifetime.positive = {"diagnostic_gain"}
      BY <2>1 DEF SharedArrivals, ScratchLifetime
    <2>3. QED
      BY <2>1, <2>2 DEF Stages, Catalog
  <1>2. Outcome(s, p) = ArrivalsAfter(Catalog[s], p)
    BY DEF Outcome, After
  <1>3. /\ EndsRight(s, p)
        /\ Passes(s, p) => ~Disturbed(Catalog[s], p)
    BY <1>1, <1>2 DEF EndsRight, Passes, Finished, Plan, ArrivalsAfter, ArrivalStatus, ProofFirst
  <1>4. QED
    BY <1>1, <1>3, SingleRow, NewestStep DEF StepSound, StepClean, Unmeasured

(* q4_validation_memory times nothing.                                     *)
LEMMA ValidationMemorySteps ==
    ASSUME NEW s \in {"validation_memory"}, NEW p, Begun(s, p)
    PROVE  StepSound(s, {}, p) /\ StepClean(s, p)
  <1>1. s \in Stages /\ Catalog[s].positive = {"validation_memory_association"}
    <2>1. ValidationMemory.positive = {"validation_memory_association"}
      BY DEF ValidationMemory, Operator
    <2>2. QED
      BY <2>1 DEF Stages, Catalog
  <1>2. Plan(s)[Len(p)].do \in {"require", "memory"}
    BY <1>1, NewestStep, KindAssumption DEF Unmeasured
  <1>3. Outcome(s, p) = ValidationMemoryAfter(p)
    BY DEF Outcome, After
  <1>4. EndsRight(s, p)
    BY <1>1, <1>2, <1>3 DEF EndsRight, Passes, Finished, Plan, Catalog, ValidationMemoryAfter, MemoryDecision,
       Recorded
  <1>5. QED
    BY <1>1, <1>2, <1>4, SingleRow, NewestStep DEF StepSound, StepClean, Unmeasured

(* q4_request_context: all requests agree.                                 *)
LEMMA RequestContextSteps ==
    ASSUME NEW s \in {"request_context"}, NEW p, Begun(s, p)
    PROVE  StepSound(s, {}, p) /\ StepClean(s, p)
  <1>1. s \in Stages /\ Catalog[s].positive = {"context_captured"}
    BY DEF Stages, Catalog, RequestContext, Operator
  <1>2. Outcome(s, p) = RequestContextAfter(p) /\ Catalog[s] = RequestContext
    BY DEF Outcome, After, Catalog
  <1>3. /\ Outcome(s, p) = "go" => Len(p) # 5
        /\ Outcome(s, p) = "context_captured" => Len(p) = 5
        /\ Passes(s, p) => ~Disturbed(Catalog[s], p) /\ Equal(p, DOMAIN p \ {1})
    <2>1. /\ ContextFinish(p) = "go" => Len(p) # 5
          /\ ContextFinish(p) = "context_captured" => Len(p) = 5
      <3>0. Len(p) \in Nat
        BY DEF Begun
      <3>1. CASE Len(p) < 3
        BY <3>0, <3>1 DEF ContextFinish
      <3>2. CASE ~(Len(p) < 3) /\ TraceTriggered(p)
        BY <3>2 DEF ContextFinish
      <3>3. CASE ~(Len(p) < 3) /\ ~TraceTriggered(p)
        BY <3>3 DEF ContextFinish
      <3>4. QED
        BY <3>1, <3>2, <3>3
    <2>2. \/ Outcome(s, p) \in {"failed", "resource_blocked"}
          \/ /\ Outcome(s, p) = ContextFinish(p)
             /\ ~Disturbed(RequestContext, p)
             /\ Equal(p, DOMAIN p \ {1})
      BY <1>2 DEF RequestContextAfter, ProofFirst
    <2>3. QED
      BY <1>1, <1>2, <2>1, <2>2 DEF Passes
  <1>4. Plan(s)[1].do = "require" /\ Len(Plan(s)) = 5
    BY RoundAssumption, LastAssumption
  <1>5. Plan(s)[Len(p)].do \notin Unmeasured => Pair(Catalog[s], p) \subseteq DOMAIN p \ {1}
    <2>1. DOMAIN p = 1 .. Len(p) /\ Pair(Catalog[s], p) = {i \in 1 .. Len(p) : SameGroup(s, i, Len(p))}
      BY <1>1, PairRows, NewestStep
    <2>2. Plan(s)[Len(p)].do \notin Unmeasured => ~SameGroup(s, 1, Len(p))
      BY <1>4 DEF SameGroup, Unmeasured
    <2>3. QED
      BY <2>1, <2>2
  <1>6. EndsRight(s, p)
    BY <1>1, <1>3, <1>4 DEF EndsRight
  <1>7. QED
    BY <1>3, <1>5, <1>6 DEF StepSound, StepClean, Equal

(* Every stage has its rule.                                               *)
LEMMA AllSteps ==
    ASSUME NEW s \in Stages
    PROVE  \E A : \A p : Begun(s, p) => StepSound(s, A, p)
  <1>1. CASE s \in {"forward_fixture", "continuation_fixture", "scratch_fixture", "ngram_fixture",
        "direct_fixture", "streamed_fixture", "continuation_validate", "continuation_screen", "mtp_recovery",
        "mtp_recovery_resumed", "scratch_validate", "scratch_short", "scratch_long", "ngram_validate",
        "ngram_short", "direct_validate", "direct_short", "recovery_fixture"}
    <2>1. \A p : Begun(s, p) => StepSound(s, {}, p)
      BY <1>1, FixtureSteps, NativeFixtureSteps, StreamedFixtureSteps, ContinuationSteps, MtpRecoverySteps,
         ScratchSteps, NgramSteps, DirectSteps, RecoveryFixtureSteps
    <2>2. QED
      BY <2>1
  <1>2. CASE s \in {"recovery_early", "width_screen", "width_validate", "width_diagnostic", "streamed_validate",
        "streamed_diagnostic", "streamed_screen", "streamed_preliminary", "perfect_draft", "draft_capacity",
        "forward_joint", "recovery_correctness", "recovery_short", "recovery_accepted", "recovery_long",
        "cache_screen"}
    <2>1. \A p : Begun(s, p) => StepSound(s, {}, p)
      BY <1>2, WidthSteps, WidthValidateSteps, StreamedValidateSteps, StreamedScreenSteps, PerfectDraftSteps,
         DraftCapacitySteps, ForwardJointSteps, RecoverySteps, CacheScreenSteps
    <2>2. QED
      BY <2>1
  <1>3. CASE s \in {"tail_screen", "route_screen", "expert_residency_state", "stage_q3", "stage_capacity",
        "stage_pressure", "stage_profile", "submission_screen", "hyper_fusion", "q8_lookahead", "q4_packed",
        "combined_state", "combined_screen", "read_arrivals", "shared_arrivals", "scratch_lifetime",
        "validation_memory"}
    <2>1. \A p : Begun(s, p) => StepSound(s, {}, p)
      BY <1>3, ProvedSteps, ExpertStateSteps, StageQ3Steps, StageSteps, ProbeSteps, CombinedStateSteps,
         CombinedScreenSteps, ArrivalSteps, ValidationMemorySteps
    <2>2. QED
      BY <2>1
  <1>4. CASE s \in {"request_context"}
    <2>1. \A p : Begun(s, p) => StepSound(s, {}, p)
      BY <1>4, RequestContextSteps
    <2>2. QED
      BY <2>1
  <1>5. CASE s \in {"horizon_screen", "streamed_horizon", "horizon_early", "block_gdn", "q8_block_packed",
        "q8_expanded_capture", "q8_expanded", "native_replay"}
    <2>1. \A p : Begun(s, p) => StepSound(s, STRING, p)
      BY <1>5, HorizonSteps, HorizonEarlySteps, VerifierOperatorSteps, NativeReplaySteps
    <2>2. QED
      BY <2>1
  <1>6. CASE s \in {"residency_screen", "residency_confirm", "q8_screen", "scratch_screen", "q8_confirm",
        "route_confirm", "scratch_confirm", "budget_screen", "coalesced_screen", "expert_residency_screen",
        "expert_residency_confirm"}
    <2>1. \A p : Begun(s, p) => StepSound(s, {"time"}, p)
      BY <1>6, ResidencySteps, Q8ScreenSteps, ScratchScreenSteps, ConfirmSteps, ResidentSteps,
         ResidentConfirmSteps
    <2>2. QED
      BY <2>1
  <1>7. CASE s \in {"capacity_trial"}
    <2>1. \A p : Begun(s, p) => StepSound(s, STRING \ {"validate"}, p)
      BY <1>7, CapacityTrialSteps
    <2>2. QED
      BY <2>1
  <1>8. QED
    BY <1>1, <1>2, <1>3, <1>4, <1>5, <1>6, <1>7 DEF Stages, Catalog

(* Every stage that does not leave disturbed processes to its decision     *)
(* stops at one.                                                           *)
LEMMA AllClean ==
    ASSUME NEW s \in Stages \ {"stage_capacity", "scratch_screen", "scratch_confirm"}, NEW p, Begun(s, p)
    PROVE  StepClean(s, p)
  <1>1. CASE s \in {"forward_fixture", "continuation_fixture", "scratch_fixture", "ngram_fixture",
        "direct_fixture", "streamed_fixture", "continuation_validate", "continuation_screen", "mtp_recovery",
        "mtp_recovery_resumed", "scratch_validate", "scratch_short", "scratch_long", "ngram_validate",
        "ngram_short", "direct_validate", "direct_short", "recovery_fixture"}
    BY <1>1, FixtureSteps, NativeFixtureSteps, StreamedFixtureSteps, ContinuationSteps, MtpRecoverySteps,
       ScratchSteps, NgramSteps, DirectSteps, RecoveryFixtureSteps
  <1>2. CASE s \in {"recovery_early", "width_screen", "width_validate", "width_diagnostic", "streamed_validate",
        "streamed_diagnostic", "streamed_screen", "streamed_preliminary", "horizon_screen", "streamed_horizon",
        "horizon_early", "perfect_draft", "draft_capacity", "forward_joint"}
    BY <1>2, WidthSteps, WidthValidateSteps, StreamedValidateSteps, StreamedScreenSteps, HorizonSteps,
       HorizonEarlySteps, PerfectDraftSteps, DraftCapacitySteps, ForwardJointSteps
  <1>3. CASE s \in {"recovery_correctness", "recovery_short", "recovery_accepted", "recovery_long",
        "cache_screen", "residency_screen", "residency_confirm", "capacity_trial", "tail_screen",
        "route_screen", "q8_screen", "expert_residency_state", "coalesced_screen", "expert_residency_screen",
        "expert_residency_confirm"}
    BY <1>3, RecoverySteps, CacheScreenSteps, ResidencySteps, CapacityTrialSteps, ProvedSteps, Q8ScreenSteps,
       ExpertStateSteps, ResidentSteps, ResidentConfirmSteps
  <1>4. CASE s \in {"stage_q3", "submission_screen", "hyper_fusion", "q8_lookahead", "q4_packed", "block_gdn",
        "q8_block_packed", "q8_expanded_capture", "q8_expanded", "combined_state", "combined_screen",
        "native_replay", "read_arrivals", "shared_arrivals", "scratch_lifetime", "validation_memory",
        "request_context"}
    BY <1>4, StageQ3Steps, ProbeSteps, VerifierOperatorSteps, CombinedStateSteps, CombinedScreenSteps,
       NativeReplaySteps, ArrivalSteps, ValidationMemorySteps, RequestContextSteps
  <1>5. CASE s \in {"q8_confirm", "route_confirm", "budget_screen"}
    <2>1. Catalog[s].disturb = {}
      BY <1>5 DEF Catalog, Q8Confirm, RouteConfirm, BudgetScreen, Confirmation, Conversation
    <2>2. QED
      BY <2>1 DEF StepClean, Disturbed
  <1>6. CASE s \in {"stage_pressure", "stage_profile"}
    <2>1. StagePressure.disturb = {} /\ StageProfile.disturb = {}
      BY DEF StagePressure, StageProfile, Conversation, Staged
    <2>2. QED
      BY <1>6, <2>1 DEF StepClean, Disturbed, Catalog
  <1>7. QED
    BY <1>1, <1>2, <1>3, <1>4, <1>5, <1>6 DEF Stages, Catalog

-----------------------------------------------------------------------------
(* The history of a stage: every row but the last n was taken by a rule    *)
(* that let the script go on, and none was refused by the validator.       *)
GoneOn(s, r, n) ==
  \A m \in 1 .. n : Outcome(s, SubSeq(r, 1, m)) = "go" /\ ~Invalid(Catalog[s], SubSeq(r, 1, m))

(* The first m rows of a report are a report.                              *)
LEMMA Prefix ==
    ASSUME NEW s \in Stages, NEW r, Begun(s, r), NEW m \in 1 .. Len(r)
    PROVE  /\ Begun(s, SubSeq(r, 1, m)) /\ Len(SubSeq(r, 1, m)) = m
           /\ \A i \in 1 .. m : SubSeq(r, 1, m)[i] = r[i]
           /\ Newest(SubSeq(r, 1, m)) = r[m]
  <1>1. r \in Seq(RowType) /\ Len(r) \in 1 .. Len(Plan(s)) /\ Len(r) \in Nat /\ Len(Plan(s)) \in Nat
    BY NewestStep DEF Begun
  <1>2. \A i \in 1 .. Len(r) : r[i] \in RowType
    BY <1>1, ElementOfSeq
  <1>3. m \in Int /\ 1 \in Int /\ \A i \in 1 .. m : i \in 1 .. Len(r)
    BY <1>1
  <1>4. SubSeq(r, 1, m) \in Seq(RowType) /\ Len(SubSeq(r, 1, m)) = m /\ \A i \in 1 .. m : SubSeq(r, 1, m)[i] = r[i]
    BY <1>1, <1>2, <1>3, SubSeqProperties
  <1>5. QED
    BY <1>1, <1>4 DEF Begun, Newest

(* The whole report is its own longest prefix.                             *)
LEMMA WholePrefix ==
    ASSUME NEW s \in Stages, NEW r, Begun(s, r)
    PROVE  SubSeq(r, 1, Len(r)) = r
  <1>1. r \in Seq(RowType) /\ Len(r) \in Nat /\ Len(r) \in 1 .. Len(r)
    BY NewestStep DEF Begun
  <1>2. /\ SubSeq(r, 1, Len(r)) \in Seq(RowType) /\ Len(SubSeq(r, 1, Len(r))) = Len(r)
        /\ \A i \in 1 .. Len(r) : SubSeq(r, 1, Len(r))[i] = r[i]
    BY <1>1, Prefix DEF Begun
  <1>3. QED
    BY <1>1, <1>2, SeqEqual

(* A report with this history whose last row completes it with r.          *)
Completes(s, r) == Begun(s, r) /\ GoneOn(s, r, Len(r) - 1) /\ ~Invalid(Catalog[s], r)
Recommended(s, r) == Completes(s, r) /\ Outcome(s, r) \in Catalog[s].positive

(* Each of its rows was taken by a rule that let the script go on, the     *)
(* last by one that recommends.                                            *)
LEMMA EveryStepPasses ==
    ASSUME NEW s \in Stages, NEW r, Recommended(s, r), NEW m \in 1 .. Len(r)
    PROVE  Passes(s, SubSeq(r, 1, m)) /\ ~Invalid(Catalog[s], SubSeq(r, 1, m))
  <1>1. Begun(s, r) /\ GoneOn(s, r, Len(r) - 1) /\ ~Invalid(Catalog[s], r)
        /\ Outcome(s, r) \in Catalog[s].positive
    BY DEF Recommended, Completes
  <1>2. CASE m = Len(r)
    BY <1>1, <1>2, WholePrefix DEF Passes, Newest
  <1>3. CASE m # Len(r)
    <2>1. m \in 1 .. Len(r) - 1
      BY <1>1, <1>3, NewestStep
    <2>2. QED
      BY <1>1, <2>1 DEF GoneOn, Passes
  <1>4. QED
    BY <1>2, <1>3

(* Nothing is left of the plan.                                            *)
LEMMA RecommendedWhole ==
    ASSUME NEW s \in Stages, NEW r, Recommended(s, r)
    PROVE  Begun(s, r) /\ Len(r) = Len(Plan(s)) /\ DOMAIN r = 1 .. Len(r) /\ DOMAIN Plan(s) = 1 .. Len(r) /\ Len(r) \in Nat
  <1>1. Begun(s, r) /\ Outcome(s, r) \in Catalog[s].positive
    BY DEF Recommended, Completes
  <1>2. PICK A : \A p : Begun(s, p) => StepSound(s, A, p)
    BY AllSteps
  <1>3. Len(r) = Len(Plan(s))
    BY <1>1, <1>2 DEF StepSound, EndsRight
  <1>4. QED
    BY <1>1, <1>3, NewestStep

(* Row i of a recommended report, as its rule saw it.                      *)
LEMMA StepSeen ==
    ASSUME NEW s \in Stages, NEW r, Recommended(s, r), NEW i \in DOMAIN r
    PROVE  \E p : /\ Begun(s, p) /\ Len(p) = i /\ Passes(s, p) /\ ~Invalid(Catalog[s], p)
                  /\ Newest(p) = r[i] /\ Here(Catalog[s], p) = Plan(s)[i]
                  /\ \A k \in 1 .. i : p[k] = r[k]
  <1>1. Begun(s, r) /\ i \in 1 .. Len(r)
    BY RecommendedWhole
  <1> DEFINE p == SubSeq(r, 1, i)
  <1>2. Begun(s, p) /\ Len(p) = i /\ Newest(p) = r[i] /\ \A k \in 1 .. i : p[k] = r[k]
    BY <1>1, Prefix
  <1>3. Passes(s, p) /\ ~Invalid(Catalog[s], p)
    BY <1>1, EveryStepPasses
  <1> HIDE DEF p
  <1>4. QED
    BY <1>2, <1>3, NewestStep

(* The rows of one group, as the rule for the last of them saw them.       *)
LEMMA GroupSeen ==
    ASSUME NEW s \in Stages, NEW r, Recommended(s, r), NEW i \in DOMAIN r
    PROVE  \E p : /\ Begun(s, p) /\ Passes(s, p) /\ PairDone(Catalog[s], p) /\ SameGroup(s, i, Len(p))
                  /\ \A j \in DOMAIN r : SameGroup(s, i, j) => j \in Pair(Catalog[s], p) /\ p[j] = r[j]
  <1>1. Begun(s, r) /\ i \in 1 .. Len(r) /\ DOMAIN r = 1 .. Len(r) /\ DOMAIN Plan(s) = 1 .. Len(r) /\ Len(r) \in Nat
    BY RecommendedWhole
  <1>2. PICK m \in 1 .. Len(r) : SameGroup(s, m, i) /\ \A k \in 1 .. Len(r) : SameGroup(s, k, i) => k <= m
    BY <1>1, PlanAssumption
  <1>3. PICK p : Begun(s, p) /\ Len(p) = m /\ Passes(s, p) /\ \A k \in 1 .. m : p[k] = r[k]
    BY <1>1, StepSeen
  <1>4. \A k \in 1 .. Len(r) : SameGroup(s, k, m) <=> SameGroup(s, k, i)
    BY <1>2 DEF SameGroup
  <1>5. PairDone(Catalog[s], p) /\ SameGroup(s, i, Len(p))
    BY <1>1, <1>2, <1>3, <1>4, PairRows DEF SameGroup
  <1>6. ASSUME NEW j \in DOMAIN r, SameGroup(s, i, j)
        PROVE  j \in Pair(Catalog[s], p) /\ p[j] = r[j]
    <2>1. SameGroup(s, j, i) /\ SameGroup(s, j, m)
      BY <1>2, <1>6 DEF SameGroup
    <2>2. j \in 1 .. m
      BY <1>1, <1>2, <2>1
    <2>3. QED
      BY <1>3, <2>1, <2>2, PairRows
  <1>7. QED
    BY <1>3, <1>5, <1>6

(* The arms of every comparison agree.                                     *)
LEMMA RecommendedAgrees ==
    ASSUME NEW s \in Stages, NEW r, Recommended(s, r), NEW i \in DOMAIN r, NEW j \in DOMAIN r,
           Plan(s)[i].do \notin Unmeasured, SameGroup(s, i, j)
    PROVE  r[i].out = r[j].out
  <1>1. PICK A : \A p : Begun(s, p) => StepSound(s, A, p)
    BY AllSteps
  <1>2. CASE Plan(s)[i].do \in A
    <2>1. ASSUME NEW m \in {i, j} PROVE r[m].out = "same"
      <3>1. Plan(s)[m].do \in A /\ m \in DOMAIN r
        BY <1>2 DEF SameGroup
      <3>2. PICK p : Begun(s, p) /\ Len(p) = m /\ Passes(s, p) /\ Newest(p) = r[m]
        BY <3>1, StepSeen
      <3>3. QED
        BY <1>1, <3>1, <3>2 DEF StepSound
    <2>2. QED
      BY <2>1
  <1>3. CASE Plan(s)[i].do \notin A
    <2>1. PICK p : /\ Begun(s, p) /\ Passes(s, p) /\ PairDone(Catalog[s], p) /\ SameGroup(s, i, Len(p))
                   /\ \A k \in DOMAIN r : SameGroup(s, i, k) => k \in Pair(Catalog[s], p) /\ p[k] = r[k]
      BY GroupSeen
    <2>2. Equal(p, Pair(Catalog[s], p))
      BY <1>1, <1>3, <2>1 DEF StepSound, SameGroup
    <2>3. SameGroup(s, i, i)
      BY DEF SameGroup
    <2>4. QED
      BY <2>1, <2>2, <2>3 DEF Equal
  <1>4. QED
    BY <1>2, <1>3

(* screen_decode_scratch and its confirmation look at every process again  *)
(* before they recommend.                                                  *)
LEMMA ScratchClean ==
    ASSUME NEW s \in {"scratch_screen", "scratch_confirm"}, NEW p, Outcome(s, p) \in Catalog[s].positive
    PROVE  Clean(Catalog[s], p)
  <1>1. CASE s = "scratch_screen"
    <2>1. Catalog[s] = ScratchScreen
      BY <1>1 DEF Catalog
    <2>2. ScratchScreen.positive = {"promising"}
      BY DEF ScratchScreen, Conversation
    <2>3. ScratchScreenAfter(p) = "promising"
      BY <1>1, <2>1, <2>2 DEF Outcome, After
    <2>4. ScratchDecide(ScratchScreen, p) = "promising"
      BY <2>3 DEF ScratchScreenAfter, ProvedAfter, Recorded
    <2>5. QED
      BY <2>1, <2>4 DEF ScratchDecide
  <1>2. CASE s = "scratch_confirm"
    <2>1. Catalog[s] = ScratchConfirm
      BY <1>2 DEF Catalog
    <2>2. ScratchConfirm.positive = {"promising"}
      BY DEF ScratchConfirm, Confirmation, Conversation
    <2>3. ConfirmAfter(ScratchConfirm, p) = "promising"
      BY <1>2, <2>1, <2>2 DEF Outcome, After
    <2>4. ScratchConfirmDecide(p) = "promising"
      BY <2>3 DEF ConfirmAfter, Recorded
    <2>5. QED
      BY <2>1, <2>4 DEF ScratchConfirmDecide, Gain, NoGain
  <1>3. QED
    BY <1>1, <1>2

(* What a script has looked at in the report of a step that is not one of  *)
(* the lesser kinds.                                                       *)
LEMMA LooksAtAll ==
    ASSUME NEW step
    PROVE  /\ step.do \notin {"operators", "test", "check", "process"} => Looks(step) = Conditions
           /\ step.do \notin {"test", "process"} => "partial" \in Looks(step)
  <1>1. CASE step.do = "operators"
    BY <1>1 DEF Looks
  <1>2. CASE step.do = "check"
    BY <1>2 DEF Looks
  <1>3. CASE step.do \in {"test", "process"}
    BY <1>3
  <1>4. CASE step.do \notin {"operators", "test", "check", "process"}
    <2>1. Looks(step) = Conditions
      BY <1>4 DEF Looks
    <2>2. QED
      BY <2>1 DEF Conditions
  <1>5. QED
    BY <1>1, <1>2, <1>3, <1>4

(* Of such a report it sees every condition.                               *)
LEMMA SeesAll ==
    ASSUME NEW s \in Stages, NEW p, Begun(s, p), Plan(s)[Len(p)].do \notin {"operators", "test", "check", "process"}
    PROVE  /\ Disturbed(Catalog[s], p) <=> Newest(p).cond \in Catalog[s].disturb
           /\ Invalid(Catalog[s], p) <=> Newest(p).cond \in Catalog[s].refuse
  <1>1. Looks(Here(Catalog[s], p)) = Conditions
    BY NewestStep, LooksAtAll
  <1>2. QED
    BY <1>1, RefuseAssumption DEF Disturbed, Invalid

(* A recommended candidate was timed undisturbed.                          *)
LEMMA RecommendedClean ==
    ASSUME NEW s \in Stages \ Observers, NEW r, Recommended(s, r), NEW i \in DOMAIN r, Plan(s)[i].do \in {"time", "long"}
    PROVE  r[i].cond \notin Catalog[s].disturb
  <1>1. Begun(s, r) /\ Outcome(s, r) \in Catalog[s].positive
    BY DEF Recommended, Completes
  <1>2. i \in 1 .. Len(r) /\ s # "stage_capacity"
    BY <1>1, NewestStep DEF Observers
  <1>3. Looks(Plan(s)[i]) = Conditions /\ Catalog[s].disturb \subseteq Conditions
    BY LooksAtAll, RefuseAssumption
  <1>4. CASE s \in {"scratch_screen", "scratch_confirm"}
    BY <1>1, <1>2, <1>3, <1>4, ScratchClean DEF Clean, Plan
  <1>5. CASE s \notin {"scratch_screen", "scratch_confirm"}
    <2>1. PICK p : Begun(s, p) /\ Len(p) = i /\ Newest(p) = r[i] /\ Passes(s, p) /\ Here(Catalog[s], p) = Plan(s)[i]
      BY StepSeen
    <2>2. StepClean(s, p)
      BY <1>2, <1>5, <2>1, AllClean
    <2>3. QED
      BY <1>3, <2>1, <2>2 DEF StepClean, Disturbed
  <1>6. QED
    BY <1>4, <1>5

(* The probes look at their two reports before they recommend.             *)
LEMMA ProbesRefuse ==
    ASSUME NEW s \in {"submission_screen", "hyper_fusion", "q8_lookahead", "q4_packed"}, NEW r, Recommended(s, r),
           NEW i \in DOMAIN r, Plan(s)[i].do \in {"validate", "time"}
    PROVE  r[i].cond \notin ProbeRefuses(Catalog[s], Plan(s)[i])
  <1>1. s \in Stages /\ Begun(s, r) /\ Outcome(s, r) \in Catalog[s].positive
    BY DEF Stages, Catalog, Recommended, Completes
  <1>2. Outcome(s, r) = ProbeAfter(Catalog[s], r) /\ Outcome(s, r) # "failed"
    BY <1>1, CatalogAssumption DEF Outcome, After, Errors
  <1>3. Finished(Catalog[s], r) /\ i \in 1 .. Len(r)
    BY <1>1, RecommendedWhole DEF Finished, Plan
  <1>4. ProbeValid(Catalog[s], r)
    BY <1>2, <1>3 DEF ProbeAfter
  <1>5. i \in Among(Catalog[s], r, "validate") \cup Among(Catalog[s], r, "time")
    BY <1>3 DEF Among, Plan
  <1>6. QED
    BY <1>4, <1>5 DEF ProbeValid, Plan

(* The state proof of combined_q4 looks at each process that comes before  *)
(* its two arms, and at both in the end.                                   *)
LEMMA CombinedRefuses ==
    ASSUME NEW r, Recommended("combined_state", r), NEW i \in DOMAIN r
    PROVE  r[i].cond \notin OperatorRefuses \cap Looks(Plan("combined_state")[i])
  <1> DEFINE s == "combined_state"
  <1>1. s \in Stages /\ Catalog[s] = CombinedState /\ Catalog[s].positive = {"state_qualified"}
    <2>1. CombinedState.positive = {"state_qualified"}
      BY DEF CombinedState, Operator
    <2>2. QED
      BY <2>1 DEF Stages, Catalog
  <1>2. Begun(s, r) /\ Outcome(s, r) = "state_qualified" /\ i \in 1 .. Len(r)
    BY <1>1, NewestStep DEF Recommended, Completes
  <1>3. \A p : Outcome(s, p) = CombinedStateAfter(p)
    BY DEF Outcome, After
  <1>4. CASE Plan(s)[i].do # "validate"
    <2>1. PICK p : Begun(s, p) /\ Len(p) = i /\ Newest(p) = r[i] /\ Passes(s, p) /\ Here(Catalog[s], p) = Plan(s)[i]
      BY <1>1, StepSeen
    <2>2. CombinedStateAfter(p) # "failed" /\ Here(CombinedState, p).do # "validate"
      BY <1>1, <1>3, <1>4, <2>1 DEF Passes
    <2>3. Newest(p).cond \notin OperatorRefuses \cap Looks(Here(CombinedState, p))
      BY <2>2 DEF CombinedStateAfter, Newest, Here
    <2>4. QED
      BY <1>1, <2>1, <2>3
  <1>5. CASE Plan(s)[i].do = "validate"
    <2>1. CombinedStateAfter(r) = "state_qualified"
      BY <1>2, <1>3
    <2>2. \A k \in Among(CombinedState, r, "validate") : r[k].cond \notin OperatorRefuses \cap Looks(CombinedState.plan[k])
      BY <2>1 DEF CombinedStateAfter
    <2>3. QED
      BY <1>1, <1>2, <1>5, <2>2 DEF Among, Plan
  <1>6. QED
    BY <1>4, <1>5

(* So does the one of screen_expert_residency.                             *)
LEMMA ExpertStateRefuses ==
    ASSUME NEW r, Recommended("expert_residency_state", r), NEW i \in DOMAIN r,
           Plan("expert_residency_state")[i].do = "validate"
    PROVE  r[i].cond \notin {"partial", "foreign"}
  <1> DEFINE s == "expert_residency_state"
  <1>1. s \in Stages /\ Catalog[s] = ExpertResidencyState
    BY DEF Stages, Catalog
  <1>2. Begun(s, r) /\ Len(r) = Len(Plan(s)) /\ i \in 1 .. Len(r) /\ ExpertStateAfter(r) \in Catalog[s].positive
    BY <1>1, RecommendedWhole DEF Recommended, Completes, Outcome, After
  <1>3. ExpertStateAfter(r) # "failed"
    BY <1>1, <1>2, CatalogAssumption DEF Errors
  <1>4. ExpertStateProved(r, Among(ExpertResidencyState, r, "validate"))
    BY <1>1, <1>2, <1>3 DEF ExpertStateAfter, Recorded, Finished, Plan
  <1>5. i \in Among(ExpertResidencyState, r, "validate")
    BY <1>1, <1>2 DEF Among, Plan
  <1>6. QED
    BY <1>4, <1>5 DEF ExpertStateProved

(* screen_mtp_recovery compares sources and completeness with the outputs  *)
(* of a pair.                                                              *)
LEMMA RecoveryEquivalent ==
    ASSUME NEW s \in {"mtp_recovery", "mtp_recovery_resumed"}, NEW r, Recommended(s, r), NEW i \in DOMAIN r,
           NEW j \in DOMAIN r, SameGroup(s, i, j), Plan(s)[i].do \notin Unmeasured
    PROVE  r[i].cond # "partial" /\ (r[i].cond = "foreign") = (r[j].cond = "foreign")
  <1>1. s \in Stages
    BY DEF Stages, Catalog
  <1>2. PICK p : /\ Begun(s, p) /\ Passes(s, p) /\ PairDone(Catalog[s], p)
                 /\ \A k \in DOMAIN r : SameGroup(s, i, k) => k \in Pair(Catalog[s], p) /\ p[k] = r[k]
    BY <1>1, GroupSeen
  <1>3. MtpRecoveryAfter(Catalog[s], p) \notin {"failed", "resource_blocked"}
    BY <1>1, <1>2, CatalogAssumption DEF Passes, Outcome, After, Errors
  <1>4. Equivalent(p, Pair(Catalog[s], p))
    BY <1>2, <1>3 DEF MtpRecoveryAfter, CleanFirst
  <1>5. SameGroup(s, i, i)
    BY DEF SameGroup
  <1>6. QED
    BY <1>2, <1>4, <1>5 DEF Equivalent, SameSource

(* A recommended candidate rests on complete reports of its own source     *)
(* within the budget, as far as its script looks.                          *)
Fits(s, step, cond) ==
  /\ step.do \notin {"require", "test", "process"} => cond # "partial"
  /\ step.do \notin Unmeasured /\ cond = "foreign" => s \in SourceBlind
  /\ step.do \in {"time", "long"} /\ cond = "overBudget" => s \in BudgetBlind
LEMMA RecommendedFits ==
    ASSUME NEW s \in Stages, NEW r, Recommended(s, r), NEW i \in DOMAIN r
    PROVE  Fits(s, Plan(s)[i], r[i].cond)
  <1>1. i \in DOMAIN Plan(s) /\ Plan(s)[i].do \in Kinds(s)
    BY RecommendedWhole DEF Kinds
  <1>2. CASE s \in {"submission_screen", "hyper_fusion", "q8_lookahead", "q4_packed"}
    <2>1. Plan(s)[i].do \in {"require", "test", "validate", "time"}
      BY <1>1, <1>2, KindAssumption
    <2>2. Plan(s)[i].do \in {"validate", "time"} => r[i].cond \notin ProbeRefuses(Catalog[s], Plan(s)[i])
      BY <1>2, ProbesRefuse
    <2>3. /\ s = "submission_screen" => Catalog[s] = SubmissionScreen
          /\ s = "hyper_fusion" => Catalog[s] = HyperFusion
      BY DEF Catalog
    <2>4. QED
      BY <1>2, <2>1, <2>2, <2>3 DEF Fits, ProbeRefuses, SourceBlind, BudgetBlind, Unmeasured
  <1>3. CASE s \in {"combined_state", "expert_residency_state"}
    <2>1. Plan(s)[i].do \in Unmeasured \cup {"validate"}
      BY <1>1, <1>3, KindAssumption
    <2>2. CASE s = "combined_state"
      <3>1. r[i].cond \notin OperatorRefuses \cap Looks(Plan(s)[i])
        BY <2>2, CombinedRefuses
      <3>2. QED
        BY <2>1, <3>1, LooksAtAll DEF Fits, OperatorRefuses, Unmeasured, Conditions
    <2>3. CASE s = "expert_residency_state"
      <3>1. Plan(s)[i].do = "validate" => r[i].cond \notin {"partial", "foreign"}
        BY <2>3, ExpertStateRefuses
      <3>2. Plan(s)[i].do \in {"require", "test", "validate"}
        BY <1>1, <2>1, <2>3, KindAssumption DEF Unmeasured
      <3>3. QED
        BY <3>1, <3>2 DEF Fits, Unmeasured
    <2>4. QED
      BY <1>3, <2>2, <2>3
  <1>4. CASE s \notin {"submission_screen", "hyper_fusion", "q8_lookahead", "q4_packed", "combined_state",
                       "expert_residency_state"}
    <2>1. r[i].cond \notin Catalog[s].refuse \cap Looks(Plan(s)[i])
      BY StepSeen DEF Invalid
    <2>2. Plan(s)[i].do \notin {"require", "test", "process"} => r[i].cond # "partial"
      <3>1. CASE s \notin {"mtp_recovery", "mtp_recovery_resumed"}
        BY <1>4, <2>1, <3>1, LooksAtAll, RefuseAssumption
      <3>2. CASE s \in {"mtp_recovery", "mtp_recovery_resumed"}
        <4>1. Plan(s)[i].do \in {"require", "test"} \/ Plan(s)[i].do \notin Unmeasured
          BY <1>1, <3>2, KindAssumption DEF Unmeasured
        <4>2. QED
          BY <3>2, <4>1, RecoveryEquivalent DEF SameGroup
      <3>3. QED
        BY <3>1, <3>2
    <2>3. Plan(s)[i].do \notin Unmeasured /\ s \notin SourceBlind => r[i].cond # "foreign"
      <3>1. Plan(s)[i].do \notin Unmeasured => i \in Measured(s) /\ Looks(Plan(s)[i]) = Conditions
        BY <1>1, LooksAtAll DEF Measured, Unmeasured
      <3>2. QED
        BY <1>4, <2>1, <3>1, RefuseAssumption DEF Conditions
    <2>4. Plan(s)[i].do \in {"time", "long"} /\ s \notin BudgetBlind => r[i].cond # "overBudget"
      <3>1. Plan(s)[i].do \in {"time", "long"} => i \in Timings(s) /\ Looks(Plan(s)[i]) = Conditions
        BY <1>1, LooksAtAll DEF Timings
      <3>2. CASE "overBudget" \in Catalog[s].refuse
        BY <2>1, <3>1, <3>2 DEF Conditions
      <3>3. CASE s \in {"native_replay", "read_arrivals", "shared_arrivals", "scratch_lifetime"} /\ "overBudget" \in Catalog[s].disturb
        BY <3>3, RecommendedClean DEF Observers
      <3>4. QED
        BY <1>4, <3>1, <3>2, <3>3, RefuseAssumption
    <2>5. QED
      BY <2>2, <2>3, <2>4 DEF Fits
  <1>5. QED
    BY <1>2, <1>3, <1>4

(* The joint screen compares the sources of its timings at the end.        *)
LEMMA JointSource ==
    ASSUME NEW r, Recommended("forward_joint", r), NEW i \in DOMAIN r, NEW j \in DOMAIN r,
           SameGroup("forward_joint", i, j), Plan("forward_joint")[i].do \notin Unmeasured
    PROVE  (r[i].cond = "foreign") = (r[j].cond = "foreign")
  <1> DEFINE s == "forward_joint"
  <1>1. s \in Stages /\ Catalog[s] = ForwardJoint
    BY DEF Stages, Catalog
  <1>2. Begun(s, r) /\ Len(r) = Len(Plan(s)) /\ i \in 1 .. Len(r) /\ j \in 1 .. Len(r) /\ DOMAIN Plan(s) = 1 .. Len(r)
    BY <1>1, RecommendedWhole
  <1>3. ForwardJointAfter(r) \notin {"go", "failed", "resource_blocked"}
    <2>1. ForwardJointAfter(r) \in Catalog[s].positive
      BY DEF Recommended, Completes, Outcome, After
    <2>2. ForwardJointAfter(r) # "go"
      BY <1>2, <2>1, ForwardJointSteps DEF StepSound, EndsRight, Outcome, After
    <2>3. QED
      BY <1>1, <2>1, <2>2, CatalogAssumption DEF Errors
  <1>4. SameSource(r, Among(ForwardJoint, r, "time"))
    BY <1>3 DEF ForwardJointAfter
  <1>5. CASE Plan(s)[i].do = "validate"
    <2>1. i = 2 /\ j = 2
      BY <1>2, <1>5, RoundAssumption DEF SameGroup
    <2>2. QED
      BY <2>1
  <1>6. CASE Plan(s)[i].do # "validate"
    <2>1. SameGroup(s, i, Len(Plan(s))) /\ LastStep(s).do = "time"
      BY <1>2, <1>6, RoundAssumption, LastAssumption
    <2>2. i \in Among(ForwardJoint, r, "time") /\ j \in Among(ForwardJoint, r, "time")
      BY <1>1, <1>2, <2>1 DEF SameGroup, LastStep, Among, Plan
    <2>3. QED
      BY <1>4, <2>2 DEF SameSource
  <1>7. QED
    BY <1>5, <1>6

(* Whatever it rests on, both sides of a comparison rest on the same.      *)
LEMMA RecommendedSource ==
    ASSUME NEW s \in Stages, NEW r, Recommended(s, r), NEW i \in DOMAIN r, NEW j \in DOMAIN r,
           Plan(s)[i].do \notin Unmeasured, SameGroup(s, i, j)
    PROVE  (r[i].cond = "foreign") = (r[j].cond = "foreign")
  <1>1. CASE s \notin SourceBlind
    BY <1>1, RecommendedFits DEF Fits, SameGroup
  <1>2. CASE s \in {"stage_q3", "q8_lookahead", "q4_packed"}
    <2>1. i \in Measured(s) /\ j \in Measured(s)
      BY RecommendedWhole DEF Measured, SameGroup
    <2>2. i = j
      BY <1>2, <2>1, GroupAssumption
    <2>3. QED
      BY <2>2
  <1>3. CASE s = "forward_joint"
    BY <1>3, JointSource
  <1>4. CASE s \in {"mtp_recovery", "mtp_recovery_resumed"}
    BY <1>4, RecoveryEquivalent
  <1>5. QED
    BY <1>1, <1>2, <1>3, <1>4 DEF SourceBlind
-----------------------------------------------------------------------------
(* How a stage that did not complete came to its end: between two steps,   *)
(* or at a row the script recorded before it raised.                       *)
Stopped(s, r, st) ==
  \/ GoneOn(s, r, Len(r))
  \/ /\ Completes(s, r) /\ Outcome(s, r) \in Errors /\ ~Unrecorded(Catalog[s], s, r)
     /\ s # "submission_screen" => st = Outcome(s, r)

(* The directories of earlier stages.                                      *)
KeptType == [out : Outputs, cond : Conditions \cup {"skipped"}]
ShelfInv == DOMAIN shelf \subseteq Stages /\ \A n \in DOMAIN shelf : shelf[n].rows \in Seq(KeptType)

(* The host: sources change with faults only, and a script at work between *)
(* its steps or in one holds the lease.                                    *)
HostInv ==
  /\ build \in Nat /\ frozen \in Nat /\ faults \in Nat
  /\ frozen <= build /\ build <= faults /\ faults <= MaxFaults
  /\ orphan \in BOOLEAN /\ lease \in {"free", "self", "other"}
  /\ phase \in {"ready", "child"} => lease = "self"

(* The stage: its report in memory and the one on disk.                    *)
StageInv ==
  /\ stage \in Stages /\ phase \in Active \cup Quiet \cup {"closing", "persisted"}
  /\ complete \in BOOLEAN /\ rows \in Seq(RowType) /\ Len(rows) <= Len(Plan(stage))
  /\ disk.rows \in Seq(RowType) /\ Len(disk.rows) <= Len(rows)

(* Where the rows come from: while the script works all its rules let it   *)
(* go on; a complete report has the status of the rule for its last row;   *)
(* any other the status of an exception.                                   *)
HistoryInv ==
  /\ phase \in Active => GoneOn(stage, rows, Len(rows))
  /\ phase \in Ending =>
       IF complete THEN Completes(stage, rows) /\ status = Outcome(stage, rows) /\ status \notin Errors \cup {"go"}
       ELSE Stopped(stage, rows, status) /\ (stage # "submission_screen" => status \in Errors)

WorkInv == ShelfInv /\ HostInv /\ StageInv /\ HistoryInv

(* A script whose rules all let it go on has a step left.                  *)
LEMMA Room ==
    ASSUME NEW s \in Stages, NEW r \in Seq(RowType), Len(r) <= Len(Plan(s)), GoneOn(s, r, Len(r))
    PROVE  Len(r) < Len(Plan(s)) /\ Len(r) \in Nat /\ Len(Plan(s)) \in Nat /\ Len(Plan(s)) > 0
  <1>1. Len(r) \in Nat /\ Len(Plan(s)) \in Nat /\ Len(Plan(s)) > 0
    BY PlanAssumption
  <1>2. CASE Len(r) > 0
    <2>1. Begun(s, r)
      BY <1>1, <1>2 DEF Begun
    <2>2. Outcome(s, r) = "go"
      <3>1. Len(r) \in 1 .. Len(r)
        BY <1>1, <1>2
      <3>2. Outcome(s, SubSeq(r, 1, Len(r))) = "go"
        BY <3>1 DEF GoneOn
      <3>3. SubSeq(r, 1, Len(r)) = r
        BY <2>1, WholePrefix
      <3>4. QED
        BY <3>2, <3>3
    <2>3. PICK A : \A p : Begun(s, p) => StepSound(s, A, p)
      BY AllSteps
    <2>4. QED
      BY <1>1, <2>1, <2>2, <2>3 DEF StepSound, EndsRight
  <1>3. QED
    BY <1>1, <1>2

(* One row more: the report grows by a step of the plan and keeps its      *)
(* history.                                                                *)
LEMMA OneMore ==
    ASSUME NEW s \in Stages, NEW r \in Seq(RowType), Len(r) <= Len(Plan(s)), GoneOn(s, r, Len(r)), NEW row \in RowType
    PROVE  /\ Begun(s, Append(r, row)) /\ Len(Append(r, row)) = Len(r) + 1 /\ Newest(Append(r, row)) = row
           /\ ~Invalid(Catalog[s], Append(r, row)) => Completes(s, Append(r, row))
           /\ ~Invalid(Catalog[s], Append(r, row)) /\ Outcome(s, Append(r, row)) = "go" =>
                GoneOn(s, Append(r, row), Len(Append(r, row)))
  <1> DEFINE t == Append(r, row)
  <1>1. Len(r) \in Nat /\ Len(Plan(s)) \in Nat /\ Len(r) < Len(Plan(s))
    BY Room
  <1>2. t \in Seq(RowType) /\ Len(t) = Len(r) + 1 /\ t[Len(t)] = row /\ \A i \in 1 .. Len(r) : t[i] = r[i]
    BY AppendProperties
  <1> HIDE DEF t
  <1>3. Begun(s, t)
    BY <1>1, <1>2 DEF Begun
  <1>4. \A m \in 1 .. Len(r) : SubSeq(t, 1, m) = SubSeq(r, 1, m)
    <2> SUFFICES ASSUME NEW m \in 1 .. Len(r) PROVE SubSeq(t, 1, m) = SubSeq(r, 1, m)
      OBVIOUS
    <2>1. Begun(s, r) /\ m \in 1 .. Len(t)
      BY <1>1, <1>2 DEF Begun
    <2>2. /\ SubSeq(t, 1, m) \in Seq(RowType) /\ Len(SubSeq(t, 1, m)) = m /\ \A i \in 1 .. m : SubSeq(t, 1, m)[i] = t[i]
          /\ SubSeq(r, 1, m) \in Seq(RowType) /\ Len(SubSeq(r, 1, m)) = m /\ \A i \in 1 .. m : SubSeq(r, 1, m)[i] = r[i]
      BY <1>3, <2>1, Prefix DEF Begun
    <2>3. \A i \in 1 .. m : SubSeq(t, 1, m)[i] = SubSeq(r, 1, m)[i]
      BY <1>1, <1>2, <2>2
    <2>4. QED
      BY <2>2, <2>3, SeqEqual
  <1>5. GoneOn(s, t, Len(r))
    BY <1>2, <1>4 DEF GoneOn
  <1>6. Len(t) - 1 = Len(r) /\ Newest(t) = row
    BY <1>1, <1>2 DEF Newest
  <1>7. ~Invalid(Catalog[s], t) => Completes(s, t)
    BY <1>3, <1>5, <1>6 DEF Completes
  <1>8. ~Invalid(Catalog[s], t) /\ Outcome(s, t) = "go" => GoneOn(s, t, Len(t))
    <2>1. SubSeq(t, 1, Len(t)) = t
      BY <1>3, WholePrefix
    <2>2. SUFFICES ASSUME ~Invalid(Catalog[s], t), Outcome(s, t) = "go", NEW m \in 1 .. Len(t)
                   PROVE  Outcome(s, SubSeq(t, 1, m)) = "go" /\ ~Invalid(Catalog[s], SubSeq(t, 1, m))
      BY DEF GoneOn
    <2>3. m = Len(t) \/ m \in 1 .. Len(r)
      BY <1>1, <1>2
    <2>4. CASE m = Len(t)
      BY <1>2, <2>1, <2>2, <2>4
    <2>5. CASE m \in 1 .. Len(r)
      BY <1>5, <2>5 DEF GoneOn
    <2>6. QED
      BY <2>3, <2>4, <2>5
  <1>9. QED
    BY <1>2, <1>3, <1>6, <1>7, <1>8 DEF t

(* A script that stops with an exception.                                  *)
LEMMA FailWorks ==
    ASSUME WorkInv, phase \in Active, UNCHANGED <<stage, shelf>>, NEW e \in Errors, Fail(e)
    PROVE  ShelfInv' /\ StageInv' /\ HistoryInv' /\ phase' = "closing" /\ lease' \in {"free", "self", "other"}
  <1>1. /\ rows' = rows /\ status' = ErrorStatus(e) /\ complete' = FALSE /\ phase' = "closing" /\ disk' = disk
        /\ lease' \in {lease, Released}
    BY DEF Fail, Close
  <1>2. GoneOn(stage, rows, Len(rows)) /\ (stage # "submission_screen" => status' \in Errors)
    BY <1>1 DEF WorkInv, HistoryInv, ErrorStatus
  <1>3. HistoryInv'
    BY <1>1, <1>2 DEF HistoryInv, Stopped, Active, Ending
  <1>4. StageInv' /\ ShelfInv'
    BY <1>1 DEF WorkInv, StageInv, ShelfInv
  <1>5. lease' \in {"free", "self", "other"}
    BY <1>1 DEF WorkInv, HostInv, Released
  <1>6. QED
    BY <1>1, <1>3, <1>4, <1>5

(* A script that takes a row.                                              *)
LEMMA TakeWorks ==
    ASSUME WorkInv, phase \in Active, UNCHANGED <<stage, shelf>>, NEW row \in RowType, Take(row)
    PROVE  /\ ShelfInv' /\ StageInv' /\ HistoryInv' /\ lease' \in {"free", "self", "other"}
           /\ phase' \in {"ready", "child"} => lease' = "self"
  <1> DEFINE r == Append(rows, row)
             kept == IF Unrecorded(Script, stage, r) THEN rows ELSE r
  <1>1. /\ stage \in Stages /\ rows \in Seq(RowType) /\ Len(rows) <= Len(Plan(stage)) /\ GoneOn(stage, rows, Len(rows))
        /\ Len(rows) \in Nat /\ Script = Catalog[stage] /\ lease \in {"free", "self", "other"}
        /\ disk.rows \in Seq(RowType) /\ Len(disk.rows) <= Len(rows)
    BY DEF WorkInv, StageInv, HistoryInv, HostInv, Script
  <1>2. /\ Begun(stage, r) /\ Len(r) = Len(rows) + 1
        /\ ~Invalid(Script, r) => Completes(stage, r)
        /\ ~Invalid(Script, r) /\ Outcome(stage, r) = "go" => GoneOn(stage, r, Len(r))
    BY <1>1, OneMore
  <1>3. r \in Seq(RowType) /\ Len(r) <= Len(Plan(stage))
    BY <1>2 DEF Begun
  <1>4. \/ Fail("failed")
        \/ /\ ~Invalid(Script, r) /\ Outcome(stage, r) = "go"
           /\ phase' = (IF phase = "prepare" THEN "prepare" ELSE "ready") /\ rows' = r /\ complete' = complete
           /\ lease' = lease /\ disk' = Report(r, Provisional(r), FALSE)
        \/ /\ ~Invalid(Script, r) /\ Outcome(stage, r) \in Errors
           /\ Close(kept, ErrorStatus(Outcome(stage, r)), FALSE)
        \/ /\ ~Invalid(Script, r) /\ Outcome(stage, r) \notin Errors \cup {"go"}
           /\ Close(r, Outcome(stage, r), TRUE)
    BY <1>1 DEF Take, Outcome
  <1> HIDE DEF r
  <1>5. CASE Fail("failed")
    BY <1>5, FailWorks DEF Errors
  <1>6. CASE /\ ~Invalid(Script, r) /\ Outcome(stage, r) = "go"
             /\ phase' = (IF phase = "prepare" THEN "prepare" ELSE "ready") /\ rows' = r /\ complete' = complete
             /\ lease' = lease /\ disk' = Report(r, Provisional(r), FALSE)
    <2>1. HistoryInv'
      BY <1>2, <1>6 DEF HistoryInv, Ending
    <2>2. StageInv'
      BY <1>1, <1>2, <1>3, <1>6 DEF WorkInv, StageInv, Report, Active
    <2>3. phase' = "ready" => lease' = "self"
      BY <1>6 DEF WorkInv, HostInv, Active
    <2>4. QED
      BY <1>1, <1>6, <2>1, <2>2, <2>3 DEF WorkInv, ShelfInv
  <1>7. CASE /\ ~Invalid(Script, r) /\ Outcome(stage, r) \in Errors
             /\ Close(kept, ErrorStatus(Outcome(stage, r)), FALSE)
    <2>1. /\ phase' = "closing" /\ rows' = kept /\ complete' = FALSE /\ disk' = disk /\ lease' \in {lease, Released}
          /\ status' = ErrorStatus(Outcome(stage, r))
      BY <1>7 DEF Close
    <2>2. kept = rows \/ (kept = r /\ ~Unrecorded(Catalog[stage], stage, r))
      BY <1>1
    <2> HIDE DEF kept
    <2>3. stage # "submission_screen" => status' = Outcome(stage, r)
      BY <2>1 DEF ErrorStatus
    <2>4. Stopped(stage, kept, status')
      BY <1>1, <1>2, <1>7, <2>2, <2>3 DEF Stopped
    <2>5. HistoryInv'
      BY <1>7, <2>1, <2>3, <2>4 DEF HistoryInv, Active, Ending
    <2>6. kept \in Seq(RowType) /\ Len(kept) <= Len(Plan(stage)) /\ Len(disk.rows) <= Len(kept)
      BY <1>1, <1>2, <1>3, <2>2
    <2>7. StageInv' /\ ShelfInv'
      BY <1>1, <2>1, <2>6 DEF WorkInv, StageInv, ShelfInv
    <2>8. QED
      BY <1>1, <2>1, <2>5, <2>7 DEF Released
  <1>8. CASE /\ ~Invalid(Script, r) /\ Outcome(stage, r) \notin Errors \cup {"go"}
             /\ Close(r, Outcome(stage, r), TRUE)
    <2>1. /\ phase' = "closing" /\ rows' = r /\ complete' = TRUE /\ disk' = disk /\ lease' \in {lease, Released}
          /\ status' = Outcome(stage, r)
      BY <1>8 DEF Close
    <2>2. HistoryInv'
      BY <1>2, <1>8, <2>1 DEF HistoryInv, Active, Ending
    <2>3. StageInv' /\ ShelfInv'
      BY <1>1, <1>2, <1>3, <2>1 DEF WorkInv, StageInv, ShelfInv
    <2>4. QED
      BY <1>1, <2>1, <2>2, <2>3 DEF Released
  <1>9. QED
    BY <1>4, <1>5, <1>6, <1>7, <1>8

(* Whatever a native process reports is a row.                             *)
LEMMA RowsTyped ==
    ASSUME WorkInv, NEW step
    PROVE  GoodRows(step) \subseteq RowType /\ BadRows(step) \subseteq RowType
  <1>1. Script.times \subseteq [wall : Nat, worst : Nat]
    BY PlanAssumption DEF WorkInv, StageInv, Script
  <1>2. Par \in [wall : Nat, worst : Nat] /\ Plain({80, 95, 101}) \subseteq [wall : Nat, worst : Nat]
    BY DEF Par, Plain, Cost
  <1>3. Costs(step) \subseteq [wall : Nat, worst : Nat]
    BY <1>1, <1>2 DEF Costs
  <1>4. Expected(step) \subseteq Conditions
    BY DEF Expected, Conditions
  <1>5. \A out \in Outputs, cond \in Conditions, k \in Costs(step) : Row(out, cond, k) \in RowType
    BY <1>3 DEF Row, RowType
  <1>6. QED
    BY <1>4, <1>5 DEF GoodRows, BadRows, Outputs, Conditions

(* A step of a working script fails, takes a row or moves on.              *)
LEMMA WorkMoves ==
    ASSUME WorkInv,
           \/ PrepareFails \/ Enter \/ Require \/ Reuse \/ Skip \/ Launch \/ Refused
           \/ ChildEnds \/ ChildFails \/ DeadlinePasses \/ Interrupt
    PROVE  /\ phase \in Active /\ UNCHANGED <<queue, stage, shelf, build, frozen, orphan>>
           /\ faults' = faults \/ Faulty
           /\ \/ \E e \in Errors : Fail(e)
              \/ \E row \in RowType : Take(row)
              \/ phase' \in {"ready", "child"} /\ lease' = "self" /\ UNCHANGED <<rows, status, complete, disk>>
  <1> USE DEF Errors
  <1>1. CASE PrepareFails \/ Refused \/ ChildFails \/ DeadlinePasses \/ Interrupt
    BY <1>1 DEF PrepareFails, Refused, ChildFails, DeadlinePasses, Interrupt, Active
  <1>2. CASE Enter
    BY <1>2 DEF Enter, Active
  <1>3. CASE Launch
    BY <1>3 DEF Launch, Active, WorkInv, HostInv
  <1>4. Row("same", "good", Par) \in RowType /\ Row("same", "skipped", Par) \in RowType
    BY DEF Row, RowType, Par, Cost, Outputs, Conditions
  <1>5. CASE Require
    BY <1>4, <1>5 DEF Require, Active
  <1>6. CASE Skip
    BY <1>4, <1>6 DEF Skip, Active
  <1>7. CASE Reuse
    <2> DEFINE k == shelf[ReusesFrom(stage)].rows[Len(rows) + 1]
    <2>1. /\ ReusesFrom(stage) \in DOMAIN shelf /\ Len(rows) + 1 \in DOMAIN shelf[ReusesFrom(stage)].rows
          /\ Take(Row(k.out, k.cond, Par))
      BY <1>7 DEF Reuse, Reusable, ReusableRow
    <2>2. k \in KeptType
      <3>1. shelf[ReusesFrom(stage)].rows \in Seq(KeptType)
        BY <2>1 DEF WorkInv, ShelfInv
      <3>2. QED
        BY <2>1, <3>1, ElementOfSeq
    <2> HIDE DEF k
    <2>3. Row(k.out, k.cond, Par) \in RowType
      BY <2>2 DEF Row, RowType, KeptType, Par, Cost
    <2>4. QED
      BY <1>7, <2>1, <2>3 DEF Reuse, Active
  <1>8. CASE ChildEnds
    BY <1>8, RowsTyped DEF ChildEnds, Active
  <1>9. QED
    BY <1>1, <1>2, <1>3, <1>5, <1>6, <1>7, <1>8

(* Hence the invariant is kept by the script's own steps.                  *)
LEMMA WorkWorks ==
    ASSUME WorkInv,
           \/ PrepareFails \/ Enter \/ Require \/ Reuse \/ Skip \/ Launch \/ Refused
           \/ ChildEnds \/ ChildFails \/ DeadlinePasses \/ Interrupt
    PROVE  WorkInv'
  <1>1. /\ phase \in Active /\ UNCHANGED <<queue, stage, shelf, build, frozen, orphan>>
        /\ faults' = faults \/ Faulty
    BY WorkMoves
  <1>2. /\ ShelfInv' /\ StageInv' /\ HistoryInv' /\ lease' \in {"free", "self", "other"}
        /\ phase' \in {"ready", "child"} => lease' = "self"
    <2>1. CASE \E e \in Errors : Fail(e)
      BY <1>1, <2>1, FailWorks
    <2>2. CASE \E row \in RowType : Take(row)
      BY <1>1, <2>2, TakeWorks
    <2>3. CASE phase' \in {"ready", "child"} /\ lease' = "self" /\ UNCHANGED <<rows, status, complete, disk>>
      BY <1>1, <2>3 DEF WorkInv, ShelfInv, StageInv, HistoryInv, Active, Ending
    <2>4. QED
      BY <2>1, <2>2, <2>3, WorkMoves
  <1>3. HostInv'
    BY <1>1, <1>2, CampaignAssumption DEF WorkInv, HostInv, Faulty
  <1>4. QED
    BY <1>2, <1>3 DEF WorkInv

(* The shelf with the directory of the current stage.                      *)
LEMMA ShelvedEntries ==
    /\ phase = "idle" => Shelved = shelf
    /\ phase # "idle" =>
         /\ DOMAIN Shelved = {Slot(stage)} \cup DOMAIN shelf
         /\ Shelved[Slot(stage)] = Directory
         /\ \A n \in DOMAIN shelf : n # Slot(stage) => Shelved[n] = shelf[n]
  BY DEF Shelved

(* It holds directories of stages, with rows that can be looked at again.  *)
LEMMA ShelvedTyped ==
    ASSUME WorkInv
    PROVE  DOMAIN Shelved \subseteq Stages /\ \A n \in DOMAIN Shelved : Shelved[n].rows \in Seq(KeptType)
  <1>1. CASE phase = "idle"
    BY <1>1, ShelvedEntries DEF WorkInv, ShelfInv
  <1>2. CASE phase # "idle"
    <2>1. stage \in Stages /\ disk.rows \in Seq(RowType)
      BY DEF WorkInv, StageInv
    <2>2. Slot(stage) \in Stages
      BY <2>1 DEF Slot, Stages, Catalog
    <2>3. Kept(stage, disk.rows) \in Seq(KeptType)
      <3>1. Len(disk.rows) \in Nat /\ DOMAIN disk.rows = 1 .. Len(disk.rows)
        BY <2>1
      <3>2. \A i \in 1 .. Len(disk.rows) : disk.rows[i] \in RowType
        BY <2>1, ElementOfSeq
      <3>3. \A i \in 1 .. Len(disk.rows) : [out |-> disk.rows[i].out, cond |-> disk.rows[i].cond] \in KeptType
        BY <3>2 DEF RowType, KeptType
      <3>4. [i \in 1 .. Len(disk.rows) |-> [out |-> disk.rows[i].out, cond |-> disk.rows[i].cond]] \in Seq(KeptType)
        BY <3>1, <3>3
      <3>5. <<>> \in Seq(KeptType)
        OBVIOUS
      <3>6. QED
        BY <3>1, <3>4, <3>5 DEF Kept
    <2>4. Directory.rows \in Seq(KeptType)
      BY <2>3 DEF Directory
    <2>5. QED
      BY <1>2, <2>2, <2>4, ShelvedEntries DEF WorkInv, ShelfInv
  <1>3. QED
    BY <1>1, <1>2

(* A directory begins, is written and sealed, or its script is killed; a   *)
(* trial is resumed.                                                       *)
LEMMA DirectoryWorks ==
    ASSUME WorkInv, RunnerInv, Begin \/ Persist \/ Seal \/ Kill \/ Resume
    PROVE  WorkInv'
  <1>1. stage \in Stages /\ rows \in Seq(RowType) /\ disk.rows \in Seq(RowType) /\ complete \in BOOLEAN
        /\ Len(rows) <= Len(Plan(stage)) /\ Len(disk.rows) <= Len(rows)
    BY DEF WorkInv, StageInv
  <1>2. <<>> \in Seq(RowType) /\ Len(<<>>) = 0 /\ \A s \in Stages : Len(Plan(s)) \in Nat
    BY PlanAssumption
  <1>3. CASE Begin
    <2>1. Head(queue) \in Stages
      BY <1>3 DEF Begin, RunnerInv, QueueInv
    <2>2. /\ stage' \in Stages /\ phase' = "prepare" /\ rows' = <<>> /\ disk' = Report(<<>>, "running", FALSE)
          /\ complete' = FALSE /\ shelf' = Shelved /\ frozen' = build /\ UNCHANGED <<lease, orphan, build, faults>>
      BY <1>3, <2>1 DEF Begin
    <2>3. ShelfInv'
      BY <2>2, ShelvedTyped DEF ShelfInv
    <2>4. StageInv'
      <3>1. disk'.rows = <<>> /\ Len(Plan(stage)') \in Nat
        BY <1>2, <2>2 DEF Report
      <3>2. rows' \in Seq(RowType) /\ disk'.rows \in Seq(RowType)
        BY <1>2, <2>2, <3>1
      <3>3. Len(rows') = 0 /\ Len(disk'.rows) = 0
        BY <1>2, <2>2, <3>1
      <3>4. Len(rows') <= Len(Plan(stage)') /\ Len(disk'.rows) <= Len(rows')
        BY <3>1, <3>3
      <3>5. complete' \in BOOLEAN /\ (phase' \in Active => ~complete')
        BY <2>2
      <3>6. QED
        BY <2>2, <3>2, <3>3, <3>4, <3>5 DEF StageInv, Active
    <2>5. HostInv'
      BY <2>2 DEF WorkInv, HostInv
    <2>6. HistoryInv'
      BY <1>2, <2>2 DEF HistoryInv, GoneOn, Active, Ending
    <2>7. QED
      BY <2>3, <2>4, <2>5, <2>6 DEF WorkInv
  <1>4. CASE Resume
    <2>1. /\ stage' = stage /\ phase' = "idle" /\ rows' = <<>> /\ disk' = Report(<<>>, "running", FALSE)
          /\ complete' = complete /\ shelf' = Shelved /\ UNCHANGED <<lease, orphan, build, frozen, faults>>
      BY <1>4 DEF Resume
    <2>2. ShelfInv'
      BY <2>1, ShelvedTyped DEF ShelfInv
    <2>3. StageInv'
      BY <1>1, <1>2, <2>1 DEF StageInv, Report, Quiet
    <2>4. HostInv' /\ HistoryInv'
      BY <2>1 DEF WorkInv, HostInv, HistoryInv, Active, Ending
    <2>5. QED
      BY <2>2, <2>3, <2>4 DEF WorkInv
  <1>5. CASE Persist \/ Seal
    <2>1. /\ phase \in Ending /\ phase' \in {"persisted", "sealed"} /\ UNCHANGED <<stage, rows, status, complete, shelf>>
          /\ disk' \in {disk, Report(rows, status, complete)} /\ lease' \in {lease, Released}
          /\ UNCHANGED <<orphan, build, frozen, faults>>
      BY <1>5 DEF Persist, Seal, Ending
    <2>2. StageInv'
      <3>1. disk'.rows \in {rows, disk.rows}
        BY <2>1 DEF Report
      <3>2. QED
        BY <1>1, <2>1, <3>1 DEF StageInv, Quiet
    <2>3. HistoryInv' /\ ShelfInv'
      BY <2>1 DEF WorkInv, HistoryInv, ShelfInv, Active, Ending
    <2>4. HostInv'
      BY <2>1 DEF WorkInv, HostInv, Released
    <2>5. QED
      BY <2>2, <2>3, <2>4 DEF WorkInv
  <1>6. CASE Kill
    <2>1. /\ phase' = "dead" /\ lease' = Released /\ orphan' \in BOOLEAN /\ faults < MaxFaults /\ faults' = faults + 1
          /\ UNCHANGED <<stage, rows, status, complete, disk, build, frozen, shelf>>
      BY <1>6 DEF Kill, Faulty
    <2>2. StageInv' /\ ShelfInv' /\ HistoryInv'
      BY <2>1 DEF WorkInv, StageInv, ShelfInv, HistoryInv, Active, Quiet, Ending
    <2>3. HostInv'
      BY <2>1, CampaignAssumption DEF WorkInv, HostInv, Released
    <2>4. QED
      BY <2>2, <2>3 DEF WorkInv
  <1>7. QED
    BY <1>3, <1>4, <1>5, <1>6

(* What happens around the script.                                         *)
LEMMA HostWorks ==
    ASSUME WorkInv, OrphanEnds \/ OtherTakes \/ OtherReleases \/ EditSources \/ UNCHANGED expVars
    PROVE  WorkInv'
  <1>1. /\ UNCHANGED <<stage, phase, rows, status, complete, disk, shelf, frozen>> /\ orphan' \in {orphan, FALSE}
        /\ \/ UNCHANGED <<lease, faults, build>>
           \/ lease \in {"free", "other"} /\ lease' \in {"free", "other"} /\ build' = build /\ (faults' = faults \/ Faulty)
           \/ build' = build + 1 /\ Faulty /\ lease' = lease
    BY DEF OrphanEnds, OtherTakes, OtherReleases, EditSources, expVars
  <1>2. ShelfInv' /\ StageInv' /\ HistoryInv'
    BY <1>1 DEF WorkInv, ShelfInv, StageInv, HistoryInv
  <1>3. HostInv'
    <2>1. HostInv /\ MaxFaults \in Nat
      BY CampaignAssumption DEF WorkInv
    <2>2. faults' \in Nat /\ build' \in Nat /\ build <= build' /\ build' <= faults' /\ faults' <= MaxFaults
      BY <1>1, <2>1 DEF HostInv, Faulty
    <2>3. frozen' \in Nat /\ frozen' <= build'
      BY <1>1, <2>1, <2>2 DEF HostInv
    <2>4. /\ lease' \in {"free", "self", "other"} /\ orphan' \in BOOLEAN
          /\ phase' \in {"ready", "child"} => lease' = "self"
      BY <1>1, <2>1 DEF HostInv
    <2>5. QED
      BY <2>2, <2>3, <2>4 DEF HostInv
  <1>4. QED
    BY <1>2, <1>3 DEF WorkInv

(* The rows of every stage keep their type and their history, whatever     *)
(* the host does.                                                          *)
THEOREM WorkInvariant == ExpSpec => []WorkInv
  <1>1. ExpInit => WorkInv
    <2> SUFFICES ASSUME ExpInit PROVE WorkInv
      OBVIOUS
    <2>1. queue \in Seq(Stages) /\ queue # <<>> /\ MaxFaults \in Nat
      BY CampaignAssumption DEF ExpInit
    <2>2. stage \in Stages
      BY <2>1 DEF ExpInit
    <2>3. <<>> \in Seq(RowType) /\ Len(<<>>) = 0 /\ Len(Plan(stage)) \in Nat
      BY <2>2, PlanAssumption
    <2>4. StageInv /\ HistoryInv
      <3>1. phase = "idle" /\ rows = <<>> /\ disk.rows = <<>> /\ complete = FALSE
        BY DEF ExpInit, Report
      <3>2. Len(rows) = 0 /\ Len(disk.rows) = 0 /\ rows \in Seq(RowType) /\ disk.rows \in Seq(RowType)
        BY <2>3, <3>1
      <3>3. StageInv
        <4>1. Len(rows) <= Len(Plan(stage)) /\ Len(disk.rows) <= Len(rows)
          BY <2>3, <3>2
        <4>2. complete \in BOOLEAN
          BY <3>1
        <4>3. QED
          BY <2>2, <3>1, <3>2, <4>1, <4>2 DEF StageInv, Quiet
      <3>4. QED
        BY <3>1, <3>3 DEF HistoryInv, Active, Ending
    <2>5. HostInv /\ ShelfInv
      <3>1. phase = "idle" /\ build = 0 /\ frozen = 0 /\ faults = 0 /\ orphan = FALSE /\ lease = "free" /\ DOMAIN shelf = {}
        BY DEF ExpInit
      <3>2. HostInv
        <4>1. orphan \in BOOLEAN
          BY <3>1
        <4>2. QED
          BY <2>1, <3>1, <4>1 DEF HostInv
      <3>3. QED
        BY <3>1, <3>2 DEF ShelfInv
    <2>6. QED
      BY <2>4, <2>5 DEF WorkInv
  <1>2. WorkInv /\ RunnerInv /\ [ExpNext]_expVars => WorkInv'
    BY WorkWorks, DirectoryWorks, HostWorks DEF ExpNext, RunnerStep, HostStep, EnvStep, Idle
  <1>3. QED
    BY <1>1, <1>2, RunnerInvariant, PTL DEF ExpSpec

(* Every variable of a stage keeps its type; a row belongs to a step of    *)
(* the plan, the report on disk is never ahead of the one in memory, and a *)
(* native process runs under the script's lease.                           *)
THEOREM RunnerTypes == ExpSpec => []ExpTypeOK
  <1>1. WorkInv => ExpTypeOK
    <2> SUFFICES ASSUME WorkInv PROVE ExpTypeOK
      OBVIOUS
    <2>1. \A i \in DOMAIN rows : rows[i].out \in Outputs /\ rows[i].cond \in Conditions \cup {"skipped"}
      <3>1. \A i \in DOMAIN rows : rows[i] \in RowType
        BY ElementOfSeq DEF WorkInv, StageInv
      <3>2. QED
        BY <3>1 DEF RowType
    <2>2. build <= MaxFaults
      BY CampaignAssumption DEF WorkInv, HostInv
    <2>3. QED
      BY <2>1, <2>2 DEF WorkInv, StageInv, HostInv, ShelfInv, ExpTypeOK, Script, Plan
  <1>2. QED
    BY <1>1, WorkInvariant, PTL

(* A complete report that recommends its candidate has earned it, for any  *)
(* of the scripts, any order of processes and any faults: its whole plan   *)
(* was run, it rests on complete reports, its timings were undisturbed and *)
(* (but for the scripts that never look) within the budget and from its    *)
(* own source, and both sides of every comparison computed the same        *)
(* outputs from the same source.                                           *)
THEOREM RecommendationsEarned == ExpSpec => []PositiveEarned
  <1>1. WorkInv /\ RunnerInv => PositiveEarned
    <2> SUFFICES ASSUME WorkInv, RunnerInv, phase \in {"persisted", "sealed"}, Recommends PROVE PositiveEarned
      BY DEF PositiveEarned
    <2>1. disk = Report(rows, status, complete) /\ stage \in Stages
      BY DEF RunnerInv, SavedInv, WorkInv, StageInv
    <2>2. disk.rows = rows /\ complete /\ status \in Catalog[stage].positive
      BY <2>1 DEF Report, Recommends, Script
    <2>3. Recommended(stage, rows)
      BY <2>2 DEF WorkInv, HistoryInv, Recommended, Ending
    <2>4. Len(rows) = Len(Plan(stage))
      BY <2>1, <2>3, RecommendedWhole
    <2>5. \A i \in DOMAIN rows :
            /\ Fits(stage, Plan(stage)[i], rows[i].cond)
            /\ Plan(stage)[i].do \in {"time", "long"} /\ stage \notin Observers => rows[i].cond \notin Catalog[stage].disturb
      BY <2>1, <2>3, RecommendedFits, RecommendedClean
    <2>6. \A i, j \in DOMAIN rows : Plan(stage)[i].do \notin Unmeasured /\ SameGroup(stage, i, j) =>
            rows[i].out = rows[j].out /\ (rows[i].cond = "foreign") = (rows[j].cond = "foreign")
      BY <2>1, <2>3, RecommendedAgrees, RecommendedSource
    <2>7. QED
      BY <2>2, <2>4, <2>5, <2>6 DEF PositiveEarned, Fits, Script, Plan, SameGroup
  <1>2. QED
    BY <1>1, WorkInvariant, RunnerInvariant, PTL
-----------------------------------------------------------------------------
(* A sealed report d of a stage s as its auditor finds it.                 *)
Ended(s, d) ==
  /\ d.rows \in Seq(RowType) /\ Len(d.rows) <= Len(Plan(s)) /\ d.complete \in BOOLEAN
  /\ IF d.complete THEN Completes(s, d.rows) /\ d.status = Outcome(s, d.rows) /\ d.status \notin Errors \cup {"go"}
     ELSE Stopped(s, d.rows, d.status) /\ d.status \in Errors

(* How the m-th row was taken: the script went on or completed, or it      *)
(* recorded its last row and stopped.                                      *)
TakenLast(s, d, m) ==
  m = Len(d.rows) /\ ~d.complete /\ d.status = Outcome(s, d.rows) /\ ~Unrecorded(Catalog[s], s, d.rows)
Taken(s, d, m) ==
  /\ ~Invalid(Catalog[s], SubSeq(d.rows, 1, m))
  /\ Outcome(s, SubSeq(d.rows, 1, m)) \notin Errors \/ TakenLast(s, d, m)
  /\ m # Len(d.rows) => Outcome(s, SubSeq(d.rows, 1, m)) = "go"

(* A report with rows has begun.                                           *)
LEMMA EndedBegun ==
    ASSUME NEW s \in Stages, NEW d, Ended(s, d), NEW m \in 1 .. Len(d.rows)
    PROVE  Begun(s, d.rows) /\ Len(d.rows) \in Nat /\ Len(d.rows) \in 1 .. Len(d.rows)
           /\ SubSeq(d.rows, 1, Len(d.rows)) = d.rows
  <1>1. d.rows \in Seq(RowType) /\ Len(d.rows) \in Nat /\ Len(Plan(s)) \in Nat /\ Len(d.rows) <= Len(Plan(s))
    BY PlanAssumption DEF Ended
  <1>2. Begun(s, d.rows) /\ Len(d.rows) \in 1 .. Len(d.rows)
    BY <1>1 DEF Begun
  <1>3. QED
    BY <1>1, <1>2, WholePrefix

(* Each row of a sealed report was taken in one of these ways.             *)
LEMMA EveryRow ==
    ASSUME NEW s \in Stages \ {"submission_screen"}, NEW d, Ended(s, d), NEW m \in 1 .. Len(d.rows)
    PROVE  Taken(s, d, m)
  <1>1. /\ Begun(s, d.rows) /\ Len(d.rows) \in Nat /\ Len(d.rows) \in 1 .. Len(d.rows)
        /\ SubSeq(d.rows, 1, Len(d.rows)) = d.rows
    BY EndedBegun
  <1>2. CASE GoneOn(s, d.rows, Len(d.rows))
    BY <1>2 DEF GoneOn, Taken, Errors
  <1>3. CASE Completes(s, d.rows) /\ m # Len(d.rows)
    <2>1. m \in 1 .. Len(d.rows) - 1
      BY <1>1, <1>3
    <2>2. QED
      BY <1>3, <2>1 DEF Completes, GoneOn, Taken, Errors
  <1>4. CASE Completes(s, d.rows) /\ m = Len(d.rows)
    <2>1. ~Invalid(Catalog[s], SubSeq(d.rows, 1, m))
      BY <1>1, <1>4 DEF Completes
    <2>2. Outcome(s, d.rows) \notin Errors \/ TakenLast(s, d, m) \/ GoneOn(s, d.rows, Len(d.rows))
      BY <1>4 DEF Ended, Stopped, TakenLast
    <2>3. QED
      BY <1>1, <1>2, <1>4, <2>1, <2>2 DEF Taken
  <1>5. QED
    BY <1>2, <1>3, <1>4 DEF Ended, Stopped

(* A complete report: it has rows, none of which stopped the script, and   *)
(* the status of its last rule.                                            *)
LEMMA CompleteReport ==
    ASSUME NEW s \in Stages \ {"submission_screen"}, NEW d, Ended(s, d), d.complete
    PROVE  /\ Begun(s, d.rows) /\ Outcome(s, d.rows) = d.status /\ d.status \notin Errors \cup {"go"}
           /\ \A m \in 1 .. Len(d.rows) : Outcome(s, SubSeq(d.rows, 1, m)) \notin Errors
  BY EveryRow DEF Ended, Completes, Taken, TakenLast

(* perfect_draft: recorded validations agree, a complete report repeats    *)
(* the decision.                                                           *)
LEMMA PerfectDraftAgrees ==
    ASSUME NEW d, Ended("perfect_draft", d)
    PROVE  PerfectDraftAudit(d)
  <1> DEFINE s == "perfect_draft"
             V == Among(PerfectDraft, d.rows, "validate")
  <1>1. s \in Stages \ {"submission_screen"} /\ Catalog[s] = PerfectDraft
    BY DEF Stages, Catalog
  <1>2. \A p : Outcome(s, p) = PerfectDraftAfter(p)
    BY DEF Outcome, After
  <1>3. PerfectDraft.disturb = MtpDisturbs
    BY DEF PerfectDraft, MtpStage
  <1>4. ASSUME NEW j \in V PROVE \A i \in V : i <= j => d.rows[i].out = d.rows[j].out
    <2> DEFINE p == SubSeq(d.rows, 1, j)
    <2>1. j \in 1 .. Len(d.rows) /\ Plan(s)[j].do = "validate"
      BY <1>1, <1>4 DEF Among, Plan
    <2>2. Begun(s, d.rows) /\ Len(d.rows) \in Nat
      BY <1>1, <2>1, EndedBegun
    <2>3. Begun(s, p) /\ Len(p) = j /\ \A i \in 1 .. j : p[i] = d.rows[i]
      BY <1>1, <2>1, <2>2, Prefix
    <2>4. Taken(s, d, j)
      BY <1>1, <2>1, EveryRow
    <2>5. TakenLast(s, d, j) => p = d.rows
      BY <1>1, <2>1, EndedBegun DEF TakenLast
    <2>6. Here(PerfectDraft, p) = Plan(s)[j] /\ j \in Measured(s)
      BY <1>1, <2>1, <2>3, NewestStep DEF Measured, Unmeasured
    <2> HIDE DEF p
    <2>7. PerfectDraftCompare(p)
      <3>1. CASE Outcome(s, p) \notin Errors
        BY <1>2, <3>1 DEF PerfectDraftAfter, ProofFirst, Errors
      <3>2. CASE TakenLast(s, d, j)
        BY <1>1, <2>1, <2>5, <2>6, <3>2 DEF TakenLast, Unrecorded
      <3>3. QED
        BY <2>4, <3>1, <3>2 DEF Taken, p
    <2>8. PICK k \in DOMAIN Plan(s) : Plan(s)[k] = Step(Plan(s)[j].do, Plan(s)[j].group, "w1") /\ k <= j
      BY <2>1, <2>6, RoundAssumption
    <2>9. Equal(p, Pair(PerfectDraft, p))
      <3>1. k \in 1 .. Len(p)
        <4>1. k \in Nat /\ k >= 1
          BY <1>1, <2>3, <2>8, NewestStep
        <4>2. QED
          BY <2>1, <2>3, <2>8, <4>1
      <3>2. Has(PerfectDraft, p, Step(Here(PerfectDraft, p).do, Here(PerfectDraft, p).group, "w1"))
        BY <1>1, <2>6, <2>8, <3>1 DEF Has, Plan
      <3>3. QED
        BY <2>7, <3>2 DEF PerfectDraftCompare
    <2>10. ASSUME NEW i \in V, i <= j PROVE d.rows[i].out = d.rows[j].out
      <3>1. i \in 1 .. j /\ i \in Measured(s) /\ Plan(s)[i].do = "validate"
        BY <1>1, <2>1, <2>2, <2>10, NewestStep DEF Among, Plan, Measured, Unmeasured, Begun
      <3>2. SameGroup(s, i, j) /\ SameGroup(s, j, j)
        BY <2>1, <2>6, <3>1, RoundAssumption DEF SameGroup
      <3>3. i \in Pair(PerfectDraft, p) /\ j \in Pair(PerfectDraft, p)
        BY <1>1, <2>1, <2>3, <3>1, <3>2, PairRows
      <3>4. QED
        BY <2>1, <2>3, <2>9, <3>1, <3>3 DEF Equal
    <2>11. QED
      BY <2>10
  <1>5. Equal(d.rows, V)
    <2>1. V \subseteq Int
      BY DEF Among
    <2>2. QED
      BY <1>4, <2>1 DEF Equal
  <1>6. ASSUME d.complete
        PROVE  /\ Finished(PerfectDraft, d.rows) /\ d.status = PerfectDraftDecide(d.rows)
               /\ \A i \in V : d.rows[i].cond \notin MtpDisturbs
    <2>1. /\ Begun(s, d.rows) /\ PerfectDraftAfter(d.rows) = d.status /\ d.status \notin Errors \cup {"go"}
          /\ \A m \in 1 .. Len(d.rows) : PerfectDraftAfter(SubSeq(d.rows, 1, m)) \notin Errors
      BY <1>1, <1>2, <1>6, CompleteReport
    <2>2. Finished(PerfectDraft, d.rows) /\ d.status = PerfectDraftDecide(d.rows)
      BY <2>1 DEF PerfectDraftAfter, ProofFirst, Errors
    <2>3. ASSUME NEW m \in 1 .. Len(d.rows) PROVE d.rows[m].cond \notin MtpDisturbs
      <3> DEFINE p == SubSeq(d.rows, 1, m)
      <3>1. Begun(s, p) /\ Newest(p) = d.rows[m] /\ Len(p) = m /\ m \in DOMAIN Plan(s)
        BY <1>1, <2>1, Prefix, NewestStep
      <3>2. ~Disturbed(PerfectDraft, p)
        BY <2>1 DEF PerfectDraftAfter, ProofFirst, Errors
      <3> HIDE DEF p
      <3>3. Plan(s)[m].do \in {"require", "validate", "time"}
        BY <1>1, <3>1, KindAssumption DEF Kinds
      <3>4. QED
        BY <1>1, <1>3, <3>1, <3>2, <3>3, SeesAll
    <2>4. QED
      BY <2>2, <2>3 DEF Among
  <1>7. QED
    BY <1>5, <1>6 DEF PerfectDraftAudit, Audited, Ended

(* perfect_draft_capacity: check_progress holds of all that is recorded,   *)
(* and a disturbed process is the last.                                    *)
LEMMA DraftCapacityAgrees ==
    ASSUME NEW d, Ended("draft_capacity", d)
    PROVE  DraftCapacityAudit(d)
  <1> DEFINE s == "draft_capacity"
  <1>1. s \in Stages \ {"submission_screen"} /\ Catalog[s] = DraftCapacity
    BY DEF Stages, Catalog
  <1>2. \A p : Outcome(s, p) = DraftCapacityAfter(p)
    BY DEF Outcome, After
  <1>3. DraftCapacity.disturb = MtpDisturbs
    BY DEF DraftCapacity, MtpStage
  <1>4. Len(d.rows) \in Nat /\ DOMAIN d.rows = 1 .. Len(d.rows)
    BY DEF Ended
  <1>5. CapacityProgress(d.rows)
    <2>1. CASE Len(d.rows) = 0
      BY <2>1 DEF CapacityProgress, Equal, Among
    <2>2. CASE Len(d.rows) # 0
      <3>1. Len(d.rows) \in 1 .. Len(d.rows)
        BY <1>4, <2>2
      <3>2. Taken(s, d, Len(d.rows)) /\ SubSeq(d.rows, 1, Len(d.rows)) = d.rows
        BY <1>1, <3>1, EveryRow, EndedBegun
      <3>3. Outcome(s, d.rows) \notin Errors \/ ~Unrecorded(Catalog[s], s, d.rows)
        BY <3>2 DEF Taken, TakenLast
      <3>4. Unrecorded(Catalog[s], s, d.rows) <=> ~CapacityProgress(d.rows)
        BY DEF Unrecorded
      <3>5. QED
        BY <1>2, <3>3, <3>4 DEF DraftCapacityAfter, ProofFirst, Errors
    <2>3. QED
      BY <2>1, <2>2
  <1>6. ASSUME d.complete PROVE d.status = DraftCapacityDecide(d.rows) /\ d.status # "go"
    <2>1. DraftCapacityAfter(d.rows) = d.status /\ d.status \notin Errors \cup {"go"}
      BY <1>1, <1>2, <1>6, CompleteReport
    <2>2. QED
      BY <2>1 DEF DraftCapacityAfter, ProofFirst, Errors
  <1>7. ASSUME NEW i \in DOMAIN d.rows, d.rows[i].cond \in MtpDisturbs
        PROVE  i = Len(d.rows) /\ d.status = "resource_blocked"
    <2> DEFINE p == SubSeq(d.rows, 1, i)
    <2>1. Taken(s, d, i) /\ Begun(s, d.rows) /\ SubSeq(d.rows, 1, Len(d.rows)) = d.rows
      BY <1>1, <1>4, <1>7, EveryRow, EndedBegun
    <2>2. Begun(s, p) /\ Newest(p) = d.rows[i] /\ Len(p) = i /\ i \in DOMAIN Plan(s)
      BY <1>1, <1>4, <1>7, <2>1, Prefix, NewestStep
    <2> HIDE DEF p
    <2>3. Plan(s)[i].do \in {"require", "validate", "time"}
      BY <1>1, <2>2, KindAssumption DEF Kinds
    <2>4. Disturbed(DraftCapacity, p)
      BY <1>1, <1>3, <1>7, <2>2, <2>3, SeesAll
    <2>5. Outcome(s, p) \in {"failed", "resource_blocked"}
      BY <1>2, <2>4 DEF DraftCapacityAfter, ProofFirst
    <2>6. TakenLast(s, d, i)
      BY <2>1, <2>5 DEF Taken, p, Errors
    <2>7. i = Len(d.rows) /\ p = d.rows /\ d.status = DraftCapacityAfter(d.rows) /\ ~Invalid(Catalog[s], d.rows)
      BY <1>2, <2>1, <2>6 DEF TakenLast, Taken, p
    <2>8. Disturbed(DraftCapacity, d.rows) /\ ~Invalid(DraftCapacity, d.rows)
      BY <1>1, <2>7, <2>4
    <2>9. QED
      BY <1>5, <2>7, <2>8 DEF DraftCapacityAfter, ProofFirst
  <1>8. QED
    BY <1>5, <1>6, <1>7 DEF DraftCapacityAudit, Audited, Ended

(* A script that stops at a disturbed process completes with clean rows.   *)
LEMMA CompleteClean ==
    ASSUME NEW s \in Stages \ {"submission_screen"}, NEW d, Ended(s, d), d.complete,
           \A p : Outcome(s, p) \notin Errors => ~Disturbed(Catalog[s], p)
    PROVE  Clean(Catalog[s], d.rows)
  <1>1. Begun(s, d.rows) /\ \A m \in 1 .. Len(d.rows) : Outcome(s, SubSeq(d.rows, 1, m)) \notin Errors
    BY CompleteReport
  <1>2. \A m \in 1 .. Len(d.rows) : /\ Newest(SubSeq(d.rows, 1, m)) = d.rows[m]
                                   /\ Here(Catalog[s], SubSeq(d.rows, 1, m)) = Catalog[s].plan[m]
    BY <1>1, Prefix DEF Here
  <1>3. QED
    BY <1>1, <1>2 DEF Clean, Disturbed

(* screen_hyper_fusion.                                                    *)
LEMMA HyperFusionAgrees ==
    ASSUME NEW d, Ended("hyper_fusion", d)
    PROVE  HyperFusionAudit(d)
  <1>1. "hyper_fusion" \in Stages \ {"submission_screen"} /\ Catalog["hyper_fusion"] = HyperFusion
    BY DEF Stages, Catalog
  <1>2. \A p : Outcome("hyper_fusion", p) = ProbeAfter(HyperFusion, p)
    BY <1>1 DEF Outcome, After
  <1>3. ASSUME d.complete
        PROVE  /\ d.status = ProbeDecide(HyperFusion, d.rows)
               /\ Anchored(d.rows, Among(HyperFusion, d.rows, "validate") \cup Among(HyperFusion, d.rows, "time"))
    <2>1. ProbeAfter(HyperFusion, d.rows) = d.status /\ d.status \notin Errors \cup {"go"}
      BY <1>1, <1>2, <1>3, CompleteReport
    <2>2. QED
      BY <2>1 DEF ProbeAfter, ProbeValid, Errors
  <1>4. QED
    BY <1>3 DEF HyperFusionAudit

(* The verifier operators: every recorded process is exact.                *)
LEMMA VerifierOperatorAgrees ==
    ASSUME NEW s \in {"block_gdn", "q8_block_packed", "q8_expanded_capture", "q8_expanded"}, NEW d, Ended(s, d)
    PROVE  VerifierOperatorAudit(Catalog[s], d)
  <1>1. s \in Stages \ {"submission_screen"}
    BY DEF Stages, Catalog
  <1>2. \A p : Outcome(s, p) = VerifierOperatorAfter(Catalog[s], p)
    BY DEF Outcome, After
  <1>3. \A p : Outcome(s, p) \notin Errors => p[Len(p)].out = "same" /\ ~Disturbed(Catalog[s], p)
    BY <1>2 DEF VerifierOperatorAfter, ProofFirst, Errors, Anchored
  <1>4. ASSUME NEW i \in DOMAIN d.rows PROVE d.rows[i].out = "same"
    <2>1. i \in 1 .. Len(d.rows)
      BY <1>4 DEF Ended
    <2>2. Taken(s, d, i) /\ Begun(s, d.rows)
      BY <1>1, <2>1, EveryRow, EndedBegun
    <2>3. Newest(SubSeq(d.rows, 1, i)) = d.rows[i]
      BY <1>1, <2>1, <2>2, Prefix
    <2>4. CASE TakenLast(s, d, i)
      BY <2>4 DEF TakenLast, Unrecorded, Newest
    <2>5. QED
      BY <1>3, <2>2, <2>3, <2>4 DEF Taken, Newest
  <1>5. ASSUME d.complete
        PROVE  Finished(Catalog[s], d.rows) /\ Clean(Catalog[s], d.rows) /\ d.status = VerifierOperatorAfter(Catalog[s], d.rows)
    <2>1. VerifierOperatorAfter(Catalog[s], d.rows) = d.status /\ d.status \notin Errors \cup {"go"}
      BY <1>1, <1>2, <1>5, CompleteReport
    <2>2. Finished(Catalog[s], d.rows)
      BY <2>1 DEF VerifierOperatorAfter, ProofFirst, Errors
    <2>3. Clean(Catalog[s], d.rows)
      BY <1>1, <1>3, <1>5, CompleteClean
    <2>4. QED
      BY <2>1, <2>2, <2>3
  <1>6. QED
    BY <1>4, <1>5 DEF VerifierOperatorAudit, Audited, Ended, Anchored

(* The state proof of combined_q4 has no requests.                         *)
LEMMA CombinedStateAgrees ==
    ASSUME NEW d, Ended("combined_state", d)
    PROVE  CombinedAudit(CombinedState, d)
  <1> DEFINE s == "combined_state"
  <1>1. s \in Stages \ {"submission_screen"} /\ Catalog[s] = CombinedState
    BY DEF Stages, Catalog
  <1>2. \A p : Outcome(s, p) = CombinedStateAfter(p)
    BY DEF Outcome, After
  <1>3. Equal(d.rows, Among(CombinedState, d.rows, "time"))
    <2>1. ASSUME NEW i \in 1 .. Len(d.rows) PROVE CombinedState.plan[i].do # "time"
      <3>1. i \in DOMAIN Plan(s)
        BY <1>1, EndedBegun, NewestStep DEF Begun
      <3>2. Plan(s)[i].do \in Unmeasured \cup {"validate"}
        BY <3>1, KindAssumption DEF Kinds
      <3>3. QED
        BY <1>1, <3>2 DEF Plan, Unmeasured
    <2>2. QED
      BY <2>1 DEF Equal, Among
  <1>4. ASSUME d.complete PROVE Len(d.rows) = Len(CombinedState.plan) /\ d.status = CombinedStateAfter(d.rows)
    <2>1. CombinedStateAfter(d.rows) = d.status /\ d.status \notin Errors \cup {"go"}
      BY <1>1, <1>2, <1>4, CompleteReport
    <2>2. QED
      BY <2>1 DEF CombinedStateAfter, Errors, Finished
  <1>5. QED
    BY <1>3, <1>4 DEF CombinedAudit, Audited, Ended

(* A script with one source and then requests: a request that differs is   *)
(* not recorded.                                                           *)
LEMMA RequestsRecorded ==
    ASSUME NEW s \in {"combined_screen", "request_context"}, NEW d, Ended(s, d), Len(d.rows) > 1
    PROVE  /\ ~Invalid(Catalog[s], d.rows) /\ Outcome(s, d.rows) # "failed"
           /\ Begun(s, d.rows)
  <1>1. s \in Stages \ {"submission_screen"}
    BY DEF Stages, Catalog
  <1>2. Len(d.rows) \in 1 .. Len(d.rows)
    BY DEF Ended
  <1>3. Taken(s, d, Len(d.rows)) /\ Begun(s, d.rows) /\ SubSeq(d.rows, 1, Len(d.rows)) = d.rows
    BY <1>1, <1>2, EveryRow, EndedBegun
  <1>4. Here(Catalog[s], d.rows).do \in {"time", "diagnostic"}
    <2>1. Len(d.rows) \in DOMAIN Plan(s) /\ Here(Catalog[s], d.rows) = Plan(s)[Len(d.rows)]
      BY <1>1, <1>3, NewestStep
    <2>2. Len(d.rows) # 1
      <3>1. \A n \in Nat : n > 1 => n # 1
        OBVIOUS
      <3>2. Len(d.rows) \in Nat
        BY DEF Ended
      <3>3. QED
        BY <3>1, <3>2
    <2>3. QED
      BY <2>1, <2>2, AuditAssumption
  <1>5. Unrecorded(Catalog[s], s, d.rows) <=> Outcome(s, d.rows) = "failed"
    BY <1>4 DEF Unrecorded, Outcome
  <1>6. QED
    BY <1>3, <1>5 DEF Taken, TakenLast, Errors

(* combined_q4: the recorded requests agree.                               *)
LEMMA CombinedScreenAgrees ==
    ASSUME NEW d, Ended("combined_screen", d)
    PROVE  CombinedAudit(CombinedScreen, d)
  <1> DEFINE s == "combined_screen"
  <1>1. s \in Stages \ {"submission_screen"} /\ Catalog[s] = CombinedScreen
    BY DEF Stages, Catalog
  <1>2. \A p : Outcome(s, p) = CombinedScreenAfter(p)
    BY DEF Outcome, After
  <1>3. CombinedScreen # CombinedState
    <2>1. CombinedScreen.positive = {"promising"} /\ CombinedState.positive = {"state_qualified"}
      BY DEF CombinedScreen, CombinedState, Operator
    <2>2. QED
      BY <2>1
  <1>4. Equal(d.rows, Among(CombinedScreen, d.rows, "time"))
    <2>1. CASE Len(d.rows) > 1
      <3>1. ~Invalid(CombinedScreen, d.rows) /\ CombinedScreenAfter(d.rows) # "failed"
        BY <1>1, <1>2, <2>1, RequestsRecorded DEF Newest
      <3>2. QED
        BY <3>1 DEF CombinedScreenAfter, ProofFirst
    <2>2. CASE ~(Len(d.rows) > 1)
      <3>1. \A i, j \in 1 .. Len(d.rows) : i = j
        BY <2>2 DEF Ended
      <3>2. QED
        BY <3>1 DEF Equal, Among
    <2>3. QED
      BY <2>1, <2>2
  <1>5. ASSUME d.complete PROVE Len(d.rows) = Len(CombinedScreen.plan) /\ d.status = CombinedDecide(d.rows)
    <2>1. CombinedScreenAfter(d.rows) = d.status /\ d.status \notin Errors \cup {"go"}
      BY <1>1, <1>2, <1>5, CompleteReport
    <2>2. QED
      BY <2>1 DEF CombinedScreenAfter, ProofFirst, Errors, Finished
  <1>6. QED
    BY <1>3, <1>4, <1>5 DEF CombinedAudit, Audited, Ended

(* native_q4_replay and q4_validation_memory repeat their decisions.       *)
LEMMA ReplayAgrees ==
    ASSUME NEW d
    PROVE  /\ Ended("native_replay", d) => NativeReplayAudit(d)
           /\ Ended("validation_memory", d) => ValidationMemoryAudit(d)
  <1>1. {"native_replay", "validation_memory"} \subseteq Stages \ {"submission_screen"}
        /\ Catalog["native_replay"] = NativeReplay /\ Catalog["validation_memory"] = ValidationMemory
    BY DEF Stages, Catalog
  <1>2. \A p : Outcome("native_replay", p) = NativeReplayAfter(p) /\ Outcome("validation_memory", p) = ValidationMemoryAfter(p)
    BY DEF Outcome, After
  <1>3. ASSUME Ended("native_replay", d), d.complete
        PROVE  Len(d.rows) = Len(NativeReplay.plan) /\ d.status = ReplayDecide(Newest(d.rows))
    <2>1. NativeReplayAfter(d.rows) = d.status /\ d.status \notin Errors \cup {"go"}
      BY <1>1, <1>2, <1>3, CompleteReport
    <2>2. QED
      BY <2>1 DEF NativeReplayAfter, Recorded, Errors, Finished
  <1>4. ASSUME Ended("validation_memory", d), d.complete
        PROVE  Len(d.rows) = Len(ValidationMemory.plan) /\ d.status = MemoryDecision(d.rows)
    <2>1. ValidationMemoryAfter(d.rows) = d.status /\ d.status \notin Errors \cup {"go"}
      BY <1>1, <1>2, <1>4, CompleteReport
    <2>2. QED
      BY <2>1 DEF ValidationMemoryAfter, Recorded, Errors, Finished
  <1>5. QED
    BY <1>3, <1>4 DEF NativeReplayAudit, ValidationMemoryAudit, Audited, Ended

(* The arrival scripts complete with clean processes; those with shared    *)
(* outputs have compared the last three.                                   *)
LEMMA ArrivalsAgree ==
    ASSUME NEW d
    PROVE  /\ Ended("read_arrivals", d) => ArrivalsAudit(d)
           /\ Ended("shared_arrivals", d) => SharedAudit(d)
           /\ Ended("scratch_lifetime", d) => LifetimeAudit(d)
  <1>1. /\ {"read_arrivals", "shared_arrivals", "scratch_lifetime"} \subseteq Stages \ {"submission_screen"}
        /\ Catalog["read_arrivals"] = ReadArrivals /\ Catalog["shared_arrivals"] = SharedArrivals
        /\ Catalog["scratch_lifetime"] = SharedArrivals
    BY DEF Stages, Catalog, ScratchLifetime
  <1>2. ASSUME NEW s \in {"read_arrivals", "shared_arrivals", "scratch_lifetime"}, Ended(s, d), d.complete
        PROVE  /\ Len(d.rows) = Len(Plan(s)) /\ Clean(Catalog[s], d.rows) /\ d.status = ArrivalStatus(Catalog[s], d.rows)
               /\ Begun(s, d.rows) /\ ArrivalsAfter(Catalog[s], d.rows) \notin Errors
    <2>1. \A p : Outcome(s, p) = ArrivalsAfter(Catalog[s], p)
      BY DEF Outcome, After
    <2>2. Begun(s, d.rows) /\ ArrivalsAfter(Catalog[s], d.rows) = d.status /\ d.status \notin Errors \cup {"go"}
      BY <1>1, <1>2, <2>1, CompleteReport
    <2>3. Clean(Catalog[s], d.rows)
      <3>1. \A p : Outcome(s, p) \notin Errors => ~Disturbed(Catalog[s], p)
        BY <2>1 DEF ArrivalsAfter, ProofFirst, Errors
      <3>2. QED
        BY <1>1, <1>2, <3>1, CompleteClean
    <2>4. QED
      BY <2>2, <2>3 DEF ArrivalsAfter, ProofFirst, Errors, Finished, Plan
  <1>3. ASSUME NEW s \in {"shared_arrivals", "scratch_lifetime"}, Ended(s, d), d.complete
        PROVE  Equal(d.rows, 5 .. Len(d.rows))
    <2>1. /\ Len(d.rows) = Len(Plan(s)) /\ Begun(s, d.rows) /\ ArrivalsAfter(Catalog[s], d.rows) \notin Errors
          /\ Catalog[s] = SharedArrivals
      BY <1>1, <1>2, <1>3
    <2>2. Len(Plan(s)) = 7 /\ Len(Plan("read_arrivals")) = 6 /\ \A i \in 5 .. 7 : Plan(s)[i].do # "require"
      BY <1>3, AuditAssumption
    <2>3. SharedArrivals # ReadArrivals
      BY <1>1, <2>1, <2>2 DEF Plan
    <2>4. Equal(d.rows, {i \in DOMAIN d.rows : SharedArrivals.plan[i].do # "require"})
      BY <2>1, <2>3 DEF ArrivalsAfter, ProofFirst, Errors, Finished, Plan
    <2>5. 5 .. Len(d.rows) \subseteq {i \in DOMAIN d.rows : SharedArrivals.plan[i].do # "require"}
      BY <2>1, <2>2 DEF Begun, Plan
    <2>6. QED
      BY <2>4, <2>5 DEF Equal
  <1>4. Ended("read_arrivals", d) => ArrivalsAudit(d)
    BY <1>1, <1>2 DEF ArrivalsAudit, ArrivalsDecision, Audited, Ended, Plan
  <1>5. Ended("shared_arrivals", d) => SharedAudit(d)
    BY <1>1, <1>2, <1>3 DEF SharedAudit, ArrivalsDecision, Audited, Ended, Plan
  <1>6. Ended("scratch_lifetime", d) => LifetimeAudit(d)
    BY <1>1, <1>2, <1>3 DEF SharedAudit, LifetimeAudit, ArrivalsDecision, Audited, Ended, Plan
  <1>7. QED
    BY <1>4, <1>5, <1>6

(* q4_request_context: a traced request stands behind a slower pair.       *)
LEMMA RequestContextAgrees ==
    ASSUME NEW d, Ended("request_context", d)
    PROVE  RequestContextAudit(d)
  <1> DEFINE s == "request_context"
  <1>1. s \in Stages \ {"submission_screen"} /\ Catalog[s] = RequestContext
    BY DEF Stages, Catalog
  <1>2. \A p : Outcome(s, p) = RequestContextAfter(p)
    BY DEF Outcome, After
  <1>3. Len(d.rows) \in Nat /\ DOMAIN d.rows = 1 .. Len(d.rows)
    BY DEF Ended
  <1>4. Equal(d.rows, DOMAIN d.rows \ {1})
    <2>1. CASE Len(d.rows) > 1
      <3>1. ~Invalid(RequestContext, d.rows) /\ RequestContextAfter(d.rows) # "failed"
        BY <1>1, <1>2, <2>1, RequestsRecorded DEF Newest
      <3>2. QED
        BY <3>1 DEF RequestContextAfter, ProofFirst
    <2>2. CASE ~(Len(d.rows) > 1)
      <3>1. \A i, j \in 1 .. Len(d.rows) : i = j
        BY <1>3, <2>2
      <3>2. QED
        BY <1>3, <3>1 DEF Equal
    <2>3. QED
      BY <2>1, <2>2
  <1>5. ASSUME Len(d.rows) > 3 PROVE TraceTriggered(d.rows)
    <2> DEFINE p == SubSeq(d.rows, 1, 3)
    <2>1. 3 \in 1 .. Len(d.rows) /\ 3 # Len(d.rows)
      <3>1. \A n \in Nat : n > 3 => 3 \in 1 .. n /\ 3 # n
        OBVIOUS
      <3>2. QED
        BY <1>3, <1>5, <3>1
    <2>2. Begun(s, d.rows) /\ Begun(s, p) /\ Len(p) = 3 /\ p[3] = d.rows[3] /\ Outcome(s, p) = "go"
      <3>1. Taken(s, d, 3) /\ Begun(s, d.rows)
        BY <1>1, <2>1, EndedBegun, EveryRow
      <3>2. 3 \in 1 .. 3
        OBVIOUS
      <3>3. Begun(s, p) /\ Len(p) = 3 /\ p[3] = d.rows[3]
        BY <1>1, <2>1, <3>1, <3>2, Prefix
      <3>4. QED
        BY <2>1, <3>1, <3>3 DEF Taken
    <2> HIDE DEF p
    <2>3. TraceTriggered(p)
      <3>1. RequestContextAfter(p) = "go"
        BY <1>2, <2>2
      <3>2. ContextFinish(p) = "go"
        BY <3>1 DEF RequestContextAfter, ProofFirst
      <3>3. QED
        BY <2>2, <3>2 DEF ContextFinish
    <2>4. \A i \in DOMAIN Plan(s) : RequestContext.plan[i] = Step("time", 0, "B") <=> i = 3
      BY <1>1, AuditAssumption DEF Plan
    <2>5. 1 .. Len(p) \subseteq DOMAIN Plan(s) /\ 1 .. Len(d.rows) \subseteq DOMAIN Plan(s)
      BY <1>1, <2>2, NewestStep DEF Begun
    <2>6. /\ (CHOOSE i \in 1 .. Len(p) : RequestContext.plan[i] = Step("time", 0, "B")) = 3
          /\ (CHOOSE i \in 1 .. Len(d.rows) : RequestContext.plan[i] = Step("time", 0, "B")) = 3
      BY <2>1, <2>2, <2>4, <2>5
    <2>7. QED
      BY <2>2, <2>3, <2>6 DEF TraceTriggered, Wall, The
  <1>6. ASSUME d.complete PROVE d.status = ContextFinish(d.rows) /\ Clean(RequestContext, d.rows)
    <2>1. RequestContextAfter(d.rows) = d.status /\ d.status \notin Errors \cup {"go"}
      BY <1>1, <1>2, <1>6, CompleteReport
    <2>2. \A p : Outcome(s, p) \notin Errors => ~Disturbed(RequestContext, p)
      BY <1>2 DEF RequestContextAfter, ProofFirst, Errors
    <2>3. Clean(RequestContext, d.rows)
      BY <1>1, <1>6, <2>2, CompleteClean
    <2>4. QED
      BY <2>1, <2>3 DEF RequestContextAfter, ProofFirst, Errors
  <1>7. QED
    BY <1>4, <1>5, <1>6 DEF RequestContextAudit, Audited, Ended

(* Every auditor accepts what its script seals.                            *)
LEMMA AllAudits ==
    ASSUME NEW s \in Stages, NEW d, s # "submission_screen" => Ended(s, d)
    PROVE  Audit(Catalog[s], s, d)
  <1>1. CASE s \in {"perfect_draft", "draft_capacity", "hyper_fusion"}
    BY <1>1, PerfectDraftAgrees, DraftCapacityAgrees, HyperFusionAgrees DEF Audit
  <1>2. CASE s \in {"block_gdn", "q8_block_packed", "q8_expanded_capture", "q8_expanded"}
    BY <1>2, VerifierOperatorAgrees DEF Audit
  <1>3. CASE s \in {"combined_state", "combined_screen"}
    <2>1. Catalog["combined_state"] = CombinedState /\ Catalog["combined_screen"] = CombinedScreen
      BY DEF Catalog
    <2>2. QED
      BY <1>3, <2>1, CombinedStateAgrees, CombinedScreenAgrees DEF Audit
  <1>4. CASE s \in {"native_replay", "validation_memory", "read_arrivals", "shared_arrivals", "scratch_lifetime"}
    BY <1>4, ReplayAgrees, ArrivalsAgree DEF Audit
  <1>5. CASE s = "request_context"
    BY <1>5, RequestContextAgrees DEF Audit
  <1>6. QED
    BY <1>1, <1>2, <1>3, <1>4, <1>5 DEF Audit

(* Whatever a stage seals, its auditor accepts: for every script with one, *)
(* any reports of its processes, and wherever it stopped.                  *)
THEOREM AuditorsAgree == ExpSpec => []AuditAgrees
  <1>1. WorkInv /\ RunnerInv => AuditAgrees
    <2> SUFFICES ASSUME WorkInv, RunnerInv, phase = "sealed" PROVE Audit(Script, stage, disk)
      BY DEF AuditAgrees
    <2>1. disk = Report(rows, status, complete) /\ stage \in Stages /\ rows \in Seq(RowType)
          /\ Len(rows) <= Len(Plan(stage)) /\ complete \in BOOLEAN
      BY DEF RunnerInv, SavedInv, WorkInv, StageInv
    <2>2. disk.rows = rows /\ disk.complete = complete /\ disk.status = status
      BY <2>1 DEF Report
    <2>3. stage # "submission_screen" => Ended(stage, disk)
      BY <2>1, <2>2 DEF WorkInv, HistoryInv, Ending, Ended
    <2>4. QED
      BY <2>1, <2>3, AllAudits DEF Script
  <1>2. QED
    BY <1>1, WorkInvariant, RunnerInvariant, PTL
-----------------------------------------------------------------------------
(* The directory n is what a script with the frozen sources b asks for     *)
(* with the statuses W.                                                    *)
Stands(S, n, b, W) ==
  /\ n \in DOMAIN S /\ S[n].sealed /\ S[n].build = b /\ S[n].status \in W
  /\ S[n].complete \/ S[n].status = "resource_blocked"

(* A complete recommendation, and what stands behind it.                   *)
Promises(d) == d.sealed /\ d.complete /\ d.status \in Catalog[d.stage].positive
Behind(S, d) == \A n \in DOMAIN Catalog[d.stage].needs : Stands(S, n, d.build, Catalog[d.stage].needs[n])
Built(S) ==
  \A t \in DOMAIN S : S[t].stage \in Stages /\ Slot(S[t].stage) = t /\ (Promises(S[t]) => Behind(S, S[t]))

(* Stage u takes the place of nothing a recommendation builds on.          *)
Spares(S, u) == \A t \in DOMAIN S : Promises(S[t]) => Slot(u) \notin DOMAIN Catalog[S[t].stage].needs

(* The sources a script has recorded are what it asked for; a process it   *)
(* waits for is none of them.                                              *)
SourceInv ==
  /\ phase \in Active \cup Ending =>
       \A i \in 1 .. Len(rows) :
         Plan(stage)[i].do = "require" /\ Plan(stage)[i].arm \in DOMAIN Catalog[stage].needs =>
           Stands(shelf, Plan(stage)[i].arm, frozen, Catalog[stage].needs[Plan(stage)[i].arm])
  /\ phase = "child" => Upcoming.do # "require"

(* What is still to be started follows the stage at work and itself, and   *)
(* replaces nothing that is built on.                                      *)
OrderInv ==
  /\ \A i, j \in DOMAIN queue : i < j => Follows(queue[i], queue[j])
  /\ phase # "idle" => \A i \in DOMAIN queue : Follows(stage, queue[i])
  /\ \A i \in DOMAIN queue : Spares(Shelved, queue[i])

ChainInv == Built(Shelved) /\ SourceInv /\ OrderInv

(* A shelf on which one directory is new or replaced.                      *)
LEMMA Replaced ==
    ASSUME NEW S, NEW T, NEW p, Built(S), DOMAIN T = {p} \cup DOMAIN S, \A t \in DOMAIN S : t # p => T[t] = S[t],
           T[p].stage \in Stages, Slot(T[p].stage) = p,
           \A t \in DOMAIN S : t # p /\ Promises(S[t]) => p \notin DOMAIN Catalog[S[t].stage].needs,
           Promises(T[p]) => Behind(T, T[p])
    PROVE  Built(T)
  <1>1. ASSUME NEW t \in DOMAIN S, t # p, Promises(T[t]) PROVE Behind(T, T[t])
    <2>1. T[t] = S[t] /\ Behind(S, S[t]) /\ p \notin DOMAIN Catalog[S[t].stage].needs
      BY <1>1 DEF Built
    <2>2. ASSUME NEW n \in DOMAIN Catalog[S[t].stage].needs
          PROVE  Stands(T, n, S[t].build, Catalog[S[t].stage].needs[n])
      <3>1. Stands(S, n, S[t].build, Catalog[S[t].stage].needs[n]) /\ n # p
        BY <2>1, <2>2 DEF Behind
      <3>2. QED
        BY <3>1 DEF Stands
    <2>3. QED
      BY <2>1, <2>2 DEF Behind
  <1>2. QED
    BY <1>1 DEF Built

(* While a stage is at work its directory is not sealed, so nothing builds *)
(* on it; when it is sealed, its sources stand.                            *)
LEMMA StageChains ==
    ASSUME ChainInv, stage \in Stages, phase \notin {"idle", "sealed"}, phase' # "idle",
           UNCHANGED <<queue, stage, frozen, shelf>>,
           Promises(Directory') => Behind(shelf, Directory')
    PROVE  Built(Shelved') /\ OrderInv'
  <1> DEFINE p == Slot(stage)
             S == Shelved
             T == Shelved'
  <1>1. /\ DOMAIN S = {p} \cup DOMAIN shelf /\ S[p] = Directory /\ \A n \in DOMAIN shelf : n # p => S[n] = shelf[n]
    BY ShelvedEntries
  <1>2. /\ DOMAIN T = {p} \cup DOMAIN shelf /\ T[p] = Directory' /\ \A n \in DOMAIN shelf : n # p => T[n] = shelf[n]
    BY DEF Shelved
  <1>3. Directory'.stage = stage /\ ~Directory.sealed
    BY DEF Directory
  <1>4. Built(S) /\ \A i \in DOMAIN queue : Spares(S, queue[i])
    BY DEF ChainInv, OrderInv
  <1> HIDE DEF S, T
  <1>5. DOMAIN T = {p} \cup DOMAIN S /\ \A t \in DOMAIN S : t # p => T[t] = S[t]
    BY <1>1, <1>2
  <1>6. ASSUME NEW t \in DOMAIN S, Promises(S[t]) PROVE p \notin DOMAIN Catalog[S[t].stage].needs
    BY <1>1, <1>3, <1>4, <1>6 DEF Built, Behind, Stands
  <1>7. Promises(T[p]) => Behind(T, T[p])
    <2> SUFFICES ASSUME Promises(T[p]), NEW n \in DOMAIN Catalog[stage].needs
                 PROVE  Stands(T, n, T[p].build, Catalog[stage].needs[n])
      BY <1>2, <1>3 DEF Behind
    <2>1. Stands(shelf, n, T[p].build, Catalog[stage].needs[n])
      BY <1>2, <1>3 DEF Behind
    <2>2. n # p
      BY NeedAssumption
    <2>3. QED
      BY <1>2, <2>1, <2>2 DEF Stands
  <1>8. Built(T)
    BY <1>2, <1>3, <1>4, <1>5, <1>6, <1>7, Replaced
  <1>9. ASSUME NEW i \in DOMAIN queue PROVE Spares(T, queue[i])
    <2>1. Slot(queue[i]) \notin DOMAIN Catalog[stage].needs
      BY DEF ChainInv, OrderInv, Follows
    <2>2. Spares(S, queue[i]) /\ (Promises(T[p]) => Slot(queue[i]) \notin DOMAIN Catalog[T[p].stage].needs)
      BY <1>2, <1>3, <1>4, <2>1
    <2> HIDE DEF p
    <2>3. QED
      BY <1>5, <2>2 DEF Spares
  <1>10. QED
    BY <1>8, <1>9 DEF ChainInv, OrderInv, S, T

(* A script takes a source only if it is what it asks for.                 *)
LEMMA SourceMoves ==
    ASSUME WorkInv, SourceInv,
           \/ PrepareFails \/ Enter \/ Require \/ Reuse \/ Skip \/ Launch \/ Refused
           \/ ChildEnds \/ ChildFails \/ DeadlinePasses \/ Interrupt
    PROVE  \/ \E e \in Errors : Fail(e)
           \/ /\ Upcoming.do = "require" /\ Upcoming.arm \in DOMAIN Script.needs => Acceptable(Upcoming.arm)
              /\ \E row : Take(row)
           \/ rows' = rows /\ (phase' = "ready" \/ (phase' = "child" /\ Upcoming.do # "require"))
  <1> USE DEF Errors
  <1>1. CASE PrepareFails \/ Refused \/ ChildFails \/ DeadlinePasses \/ Interrupt
    BY <1>1 DEF PrepareFails, Refused, ChildFails, DeadlinePasses, Interrupt
  <1>2. CASE Enter \/ Launch
    <2>1. CASE Enter
      BY <2>1 DEF Enter
    <2>2. CASE Launch
      BY <2>2 DEF Launch
    <2>3. QED
      BY <1>2, <2>1, <2>2
  <1>3. CASE Require
    <2>1. CASE Upcoming.arm \in DOMAIN Script.needs /\ ~Acceptable(Upcoming.arm)
      BY <1>3, <2>1 DEF Require
    <2>2. CASE Acceptable(Upcoming.arm) /\ Upcoming.arm \in DOMAIN Script.needs
      BY <1>3, <2>2 DEF Require
    <2>3. CASE Upcoming.arm \notin DOMAIN Script.needs
      BY <1>3, <2>3 DEF Require
    <2>4. QED
      BY <2>1, <2>2, <2>3
  <1>4. CASE Skip
    BY <1>4 DEF Skip, Skipped, StreamedSkips, Upcoming
  <1>5. CASE Reuse
    BY <1>5 DEF Reuse, Reusable
  <1>6. CASE ChildEnds
    BY <1>6 DEF ChildEnds, SourceInv
  <1>7. QED
    BY <1>1, <1>2, <1>3, <1>4, <1>5, <1>6

(* Hence its recorded sources are.                                         *)
LEMMA SourcesStand ==
    ASSUME WorkInv, SourceInv,
           \/ PrepareFails \/ Enter \/ Require \/ Reuse \/ Skip \/ Launch \/ Refused
           \/ ChildEnds \/ ChildFails \/ DeadlinePasses \/ Interrupt
    PROVE  SourceInv'
  <1> DEFINE Asked(i) == Plan(stage)[i].do = "require" /\ Plan(stage)[i].arm \in DOMAIN Catalog[stage].needs
             Met(i) == Stands(shelf, Plan(stage)[i].arm, frozen, Catalog[stage].needs[Plan(stage)[i].arm])
  <1>1. phase \in Active /\ UNCHANGED <<stage, shelf, frozen>> /\ rows \in Seq(RowType) /\ Len(rows) \in Nat
    BY WorkMoves DEF WorkInv, StageInv
  <1>2. \A i \in 1 .. Len(rows) : Asked(i) => Met(i)
    BY <1>1 DEF SourceInv
  <1>3. Upcoming = Plan(stage)[Len(rows) + 1]
    BY DEF Upcoming, Script, Plan
  <1>4. \/ rows' = rows /\ (phase' = "child" => Upcoming.do # "require")
        \/ /\ Asked(Len(rows) + 1) => Met(Len(rows) + 1)
           /\ phase' # "child" /\ \E row : rows' = Append(rows, row)
    <2>1. CASE \E e \in Errors : Fail(e)
      BY <2>1 DEF Fail, Close
    <2>2. CASE /\ Upcoming.do = "require" /\ Upcoming.arm \in DOMAIN Script.needs => Acceptable(Upcoming.arm)
               /\ \E row : Take(row)
      <3>1. Asked(Len(rows) + 1) => Met(Len(rows) + 1)
        BY <1>3, <2>2 DEF Acceptable, Stands, Script
      <3>2. PICK row : Take(row)
        BY <2>2
      <3>3. phase' # "child" /\ rows' \in {rows, Append(rows, row)}
        BY <3>2 DEF Take, Fail, Close
      <3>4. QED
        BY <3>1, <3>3
    <2>3. CASE rows' = rows /\ (phase' = "ready" \/ (phase' = "child" /\ Upcoming.do # "require"))
      BY <2>3
    <2>4. QED
      BY <2>1, <2>2, <2>3, SourceMoves
  <1>5. \A i \in 1 .. Len(rows') : Asked(i) => Met(i)
    <2>1. CASE rows' = rows
      BY <1>2, <2>1
    <2>2. CASE (Asked(Len(rows) + 1) => Met(Len(rows) + 1)) /\ \E row : rows' = Append(rows, row)
      <3>1. Len(rows') = Len(rows) + 1
        BY <1>1, <2>2
      <3>2. \A i \in 1 .. Len(rows') : i \in 1 .. Len(rows) \/ i = Len(rows) + 1
        BY <1>1, <3>1
      <3>3. QED
        BY <1>2, <2>2, <3>2
    <2>3. QED
      BY <1>4, <2>1, <2>2
  <1>6. phase' = "child" => rows' = rows /\ Upcoming.do # "require"
    BY <1>4
  <1>7. QED
    BY <1>1, <1>5, <1>6 DEF SourceInv, Upcoming, Script

(* A recommendation that is sealed has all its sources.                    *)
LEMMA SealChains ==
    ASSUME WorkInv, RunnerInv, SourceInv, Seal, Promises(Directory')
    PROVE  Behind(shelf, Directory')
  <1>1. phase = "persisted" /\ phase' = "sealed" /\ UNCHANGED <<stage, rows, status, complete, disk, frozen, shelf>>
    BY DEF Seal
  <1>2. disk = Report(rows, status, complete) /\ stage \in Stages
    BY <1>1 DEF RunnerInv, SavedInv, WorkInv, StageInv
  <1>3. /\ Directory'.stage = stage /\ Directory'.status = status /\ Directory'.complete = complete
        /\ Directory'.build = frozen
    BY <1>1, <1>2 DEF Directory, Report
  <1>4. Recommended(stage, rows)
    BY <1>1, <1>3 DEF Promises, WorkInv, HistoryInv, Recommended, Ending
  <1>5. Len(rows) = Len(Plan(stage)) /\ DOMAIN Plan(stage) = 1 .. Len(rows)
    BY <1>2, <1>4, RecommendedWhole
  <1>6. ASSUME NEW n \in DOMAIN Catalog[stage].needs
        PROVE  Stands(shelf, n, frozen, Catalog[stage].needs[n])
    <2>1. PICK i \in DOMAIN Plan(stage) : Plan(stage)[i].do = "require" /\ Plan(stage)[i].arm = n
      BY <1>2, NeedAssumption
    <2>2. QED
      BY <1>1, <1>5, <2>1 DEF SourceInv, Ending
  <1>7. QED
    BY <1>3, <1>6 DEF Behind

(* A new directory replaces nothing a recommendation builds on.            *)
LEMMA BeginChains ==
    ASSUME ChainInv, RunnerInv, Begin
    PROVE  ChainInv'
  <1> DEFINE p == Slot(stage')
             S == Shelved
             T == Shelved'
  <1>1. /\ queue \in Seq(Stages) /\ queue # <<>> /\ stage' = Head(queue) /\ queue' = Tail(queue) /\ phase' = "prepare"
        /\ rows' = <<>> /\ shelf' = Shelved
    BY DEF Begin, RunnerInv, QueueInv
  <1>2. /\ stage' = queue[1] /\ stage' \in Stages /\ 1 \in DOMAIN queue
        /\ \A i \in DOMAIN queue' : i + 1 \in DOMAIN queue /\ queue'[i] = queue[i + 1] /\ i \in Nat /\ 1 < i + 1
    BY <1>1
  <1>3. DOMAIN T = {p} \cup DOMAIN S /\ T[p] = Directory' /\ \A t \in DOMAIN S : t # p => T[t] = S[t]
    BY <1>1 DEF Shelved
  <1>4. T[p].stage = stage' /\ ~T[p].sealed
    <2>1. Directory'.stage = stage' /\ ~Directory'.sealed
      BY <1>1 DEF Directory
    <2>2. QED
      BY <1>3, <2>1
  <1>5. Built(S) /\ (\A i \in DOMAIN queue : Spares(S, queue[i])) /\ (\A i, j \in DOMAIN queue : i < j => Follows(queue[i], queue[j]))
    BY DEF ChainInv, OrderInv
  <1> HIDE DEF S, T
  <1>6. Built(T)
    <2>1. \A t \in DOMAIN S : Promises(S[t]) => p \notin DOMAIN Catalog[S[t].stage].needs
      BY <1>2, <1>5 DEF Spares
    <2>2. ~Promises(T[p])
      BY <1>4 DEF Promises
    <2>3. QED
      BY <1>2, <1>3, <1>4, <1>5, <2>1, <2>2, Replaced
  <1>7. ASSUME NEW i \in DOMAIN queue' PROVE Spares(T, queue'[i]) /\ Follows(stage', queue'[i])
    <2>1. Spares(S, queue'[i]) /\ Follows(stage', queue'[i])
      BY <1>2, <1>5
    <2>2. QED
      BY <1>3, <1>4, <2>1 DEF Spares, Promises
  <1>8. \A i, j \in DOMAIN queue' : i < j => Follows(queue'[i], queue'[j])
    BY <1>2, <1>5
  <1>9. SourceInv'
    BY <1>1 DEF SourceInv
  <1>10. QED
    BY <1>6, <1>7, <1>8, <1>9 DEF ChainInv, OrderInv, T

(* Who builds on a stage of a trial builds on a complete recommendation.   *)
LEMMA TrialBehind ==
    ASSUME NEW S, Built(S), NEW t \in DOMAIN S, Promises(S[t]), NEW i \in 1 .. 5, Trial[i] \in DOMAIN Catalog[S[t].stage].needs
    PROVE  Trial[i] \in DOMAIN S /\ S[Trial[i]].complete /\ Promises(S[Trial[i]]) /\ S[Trial[i]].stage = Trial[i]
  <1>1. i \in DOMAIN Trial /\ S[t].stage \in Stages
    BY TrialStages DEF Built
  <1>2. Stands(S, Trial[i], S[t].build, Catalog[S[t].stage].needs[Trial[i]])
    BY DEF Built, Behind
  <1>3. S[Trial[i]].stage \in Stages /\ Slot(S[Trial[i]].stage) = Trial[i]
    BY <1>2 DEF Built, Stands
  <1>4. S[Trial[i]].stage = Trial[i] /\ S[Trial[i]].status \in Catalog[Trial[i]].positive
    BY <1>1, <1>2, <1>3, TrialAssumption DEF Stands
  <1>5. S[Trial[i]].status # "resource_blocked"
    <2>1. Trial[i] \in Stages
      BY <1>3, <1>4
    <2>2. QED
      BY <1>4, <2>1, CatalogAssumption DEF Errors
  <1>6. QED
    BY <1>2, <1>4, <1>5 DEF Stands, Promises

(* So a stage of a trial that recommends stands on all those before it.    *)
LEMMA TrialPrefix ==
    ASSUME NEW S, Built(S), NEW i \in 2 .. 5, Trial[i] \in DOMAIN S, Promises(S[Trial[i]]), S[Trial[i]].stage = Trial[i]
    PROVE  /\ Trial[i - 1] \in DOMAIN S /\ S[Trial[i - 1]].complete /\ Promises(S[Trial[i - 1]])
           /\ S[Trial[i - 1]].stage = Trial[i - 1]
  <1>1. i - 1 \in 1 .. 5 /\ Trial[i - 1] \in DOMAIN Catalog[Trial[i]].needs
    BY TrialAssumption
  <1>2. QED
    BY <1>1, TrialBehind

(* A resumed trial runs again only what no recommendation builds on.       *)
LEMMA ResumeChains ==
    ASSUME ChainInv, RunnerInv, Resume
    PROVE  ChainInv'
  <1> DEFINE S == Shelved
             done(s) == s \in DOMAIN S /\ S[s].complete
             D(i) == Trial[i] \in DOMAIN S /\ Promises(S[Trial[i]]) /\ S[Trial[i]].stage = Trial[i]
  <1>1. /\ phase = "sealed" /\ ~disk.complete /\ phase' = "idle" /\ shelf' = Shelved
        /\ (\E i \in DOMAIN Trial : stage = Trial[i]) /\ queue # <<>> /\ \E i \in DOMAIN Trial : queue[1] = Trial[i]
    BY DEF Resume
  <1>2. PICK m \in 1 .. 3 : /\ queue' = SubSeq(Trial, m, 5)
                            /\ m = 1 => ~done(Trial[1])
                            /\ m = 2 => ~done(Trial[2])
    BY DEF Resume
  <1>3. /\ queue' \in Seq(Stages) /\ DOMAIN queue' = 1 .. 6 - m
        /\ \A i \in DOMAIN queue' : m + i - 1 \in m .. 5 /\ queue'[i] = Trial[m + i - 1]
    <2>1. \A i \in 1 .. 5 : Trial[i] \in Stages
      BY TrialStages, ElementOfSeq
    <2>2. m \in Int /\ 5 \in Int /\ \A i \in m .. 5 : i \in 1 .. 5
      OBVIOUS
    <2>3. /\ SubSeq(Trial, m, 5) \in Seq(Stages) /\ Len(SubSeq(Trial, m, 5)) = 6 - m
          /\ \A i \in 1 .. 6 - m : SubSeq(Trial, m, 5)[i] = Trial[m + i - 1]
      BY <2>1, <2>2, SubSeqProperties
    <2>4. QED
      BY <1>2, <2>3
  <1>4. Built(S) /\ Shelved' = S
    BY <1>1 DEF ChainInv, Shelved
  <1>5. Shelved[Slot(stage)] = Directory /\ ~Directory.complete
    BY <1>1, ShelvedEntries DEF Directory
  <1> HIDE DEF S
  <1>6. /\ D(5) => D(4)
        /\ D(4) => D(3)
        /\ D(3) => D(2)
        /\ D(2) => D(1)
    <2>1. \A i \in 2 .. 5 : D(i) => D(i - 1)
      BY <1>4, TrialPrefix
    <2> HIDE DEF D
    <2>2. 5 - 1 = 4 /\ 4 - 1 = 3 /\ 3 - 1 = 2 /\ 2 - 1 = 1 /\ \A i \in {2, 3, 4, 5} : i \in 2 .. 5
      OBVIOUS
    <2>3. QED
      BY <2>1, <2>2
  <1>7. \A i \in 1 .. 5 : D(i) => done(Trial[i])
    BY DEF Promises
  <1>8. ~(D(4) /\ m = 3)
    <2> SUFFICES ASSUME D(4) PROVE FALSE
      OBVIOUS
    <2>1. PICK w \in 1 .. 5 : stage = Trial[w]
      BY <1>1, TrialStages
    <2>2. stage \in Stages /\ w \in DOMAIN Trial
      <3>1. Trial \in Seq(Stages) /\ w \in 1 .. Len(Trial)
        BY TrialStages
      <3>2. Trial[w] \in Stages
        BY <3>1, ElementOfSeq
      <3>3. QED
        BY <2>1, <3>1, <3>2
    <2>3. Slot(stage) = Trial[w]
      BY <2>1, <2>2, TrialAssumption
    <2>4. ~D(w)
      BY <1>5, <1>7, <2>3 DEF S
    <2>5. w = 5
      BY <1>6, <2>4
    <2>6. stage = "recovery_long"
      BY <2>1, <2>5 DEF Trial
    <2>7. 1 \in DOMAIN queue
      BY <1>1 DEF RunnerInv, QueueInv
    <2>8. Follows(stage, queue[1])
      BY <1>1, <2>7 DEF ChainInv, OrderInv
    <2>9. QED
      BY <1>1, <2>6, <2>8 DEF Follows
  <1>9. ASSUME NEW k \in m .. 5 PROVE Spares(S, Trial[k])
    <2> SUFFICES ASSUME NEW t \in DOMAIN S, Promises(S[t]), Slot(Trial[k]) \in DOMAIN Catalog[S[t].stage].needs
                 PROVE  FALSE
      BY DEF Spares
    <2>1. k \in 1 .. 5 /\ k \in DOMAIN Trial /\ S[t].stage \in Stages /\ Slot(S[t].stage) = t
      BY <1>4, TrialStages DEF Built
    <2>2. Trial[k] \in DOMAIN Catalog[S[t].stage].needs
      BY <2>1, TrialAssumption
    <2>3. D(k)
      BY <1>4, <2>1, <2>2, TrialBehind
    <2>4. CASE m = 1
      BY <1>2, <1>6, <1>7, <2>1, <2>3, <2>4
    <2>5. CASE m = 2
      BY <1>2, <1>6, <1>7, <1>9, <2>3, <2>5
    <2>6. CASE m = 3
      <3>1. k >= 3
        BY <2>6
      <3>2. PICK q \in k + 1 .. 5 : S[t].stage = Trial[q]
        BY <2>1, <2>2, <3>1, TrialAssumption
      <3>3. q \in {4, 5}
        BY <2>1, <3>1, <3>2
      <3>4. q \in DOMAIN Trial /\ t = Trial[q]
        BY <2>1, <3>2, <3>3, TrialAssumption, TrialStages
      <3>5. D(q)
        BY <3>2, <3>4
      <3>6. QED
        BY <1>6, <1>8, <2>6, <3>3, <3>5
    <2>7. QED
      BY <2>4, <2>5, <2>6
  <1>10. \A i, j \in DOMAIN queue' : i < j => Follows(queue'[i], queue'[j])
    <2>1. DOMAIN Trial = 1 .. 5
      BY TrialStages
    <2>2. \A i, j \in DOMAIN Trial : i < j => Follows(Trial[i], Trial[j])
      BY TrialAssumption
    <2>3. ASSUME NEW i \in DOMAIN queue', NEW j \in DOMAIN queue', i < j PROVE Follows(queue'[i], queue'[j])
      <3>1. /\ m + i - 1 \in DOMAIN Trial /\ m + j - 1 \in DOMAIN Trial
            /\ queue'[i] = Trial[m + i - 1] /\ queue'[j] = Trial[m + j - 1]
        BY <1>3, <2>1
      <3>2. m + i - 1 < m + j - 1
        BY <1>3, <2>3
      <3>3. QED
        BY <2>2, <3>1, <3>2
    <2>4. QED
      BY <2>3
  <1>11. \A i \in DOMAIN queue' : Spares(S, queue'[i])
    BY <1>3, <1>9
  <1>12. SourceInv'
    BY <1>1 DEF SourceInv, Active, Ending
  <1>13. QED
    BY <1>1, <1>4, <1>10, <1>11, <1>12 DEF ChainInv, OrderInv

(* Whatever happens, the chain holds.                                      *)
THEOREM ChainInvariant == ExpSpec => []ChainInv
  <1>1. ExpInit => ChainInv
    <2> SUFFICES ASSUME ExpInit PROVE ChainInv
      OBVIOUS
    <2>1. queue \in Campaigns /\ phase = "idle" /\ DOMAIN shelf = {} /\ Shelved = shelf
      BY DEF ExpInit, Shelved
    <2>2. QED
      BY <2>1, OrderAssumption DEF ChainInv, Built, SourceInv, OrderInv, Spares, Active, Ending
  <1>2. ChainInv /\ WorkInv /\ RunnerInv /\ [ExpNext]_expVars => ChainInv'
    <2> SUFFICES ASSUME ChainInv, WorkInv, RunnerInv, [ExpNext]_expVars PROVE ChainInv'
      OBVIOUS
    <2>1. SourceInv /\ stage \in Stages
      BY DEF ChainInv, WorkInv, StageInv
    <2>2. CASE Begin
      BY <2>2, BeginChains
    <2>3. CASE Resume
      BY <2>3, ResumeChains
    <2>4. CASE \/ PrepareFails \/ Enter \/ Require \/ Reuse \/ Skip \/ Launch \/ Refused
               \/ ChildEnds \/ ChildFails \/ DeadlinePasses \/ Interrupt
      <3>1. phase \in Active /\ UNCHANGED <<queue, stage, shelf, frozen>>
        BY <2>4, WorkMoves
      <3>2. phase' \notin {"idle", "sealed"}
        <4>1. CASE \E e \in Errors : Fail(e)
          BY <4>1 DEF Fail, Close
        <4>2. CASE \E row \in RowType : Take(row)
          BY <4>2 DEF Take, Fail, Close
        <4>3. CASE phase' \in {"ready", "child"}
          BY <4>3
        <4>4. QED
          BY <2>4, <4>1, <4>2, <4>3, WorkMoves
      <3>3. ~Promises(Directory')
        BY <3>2 DEF Promises, Directory
      <3>4. Built(Shelved') /\ OrderInv'
        BY <2>1, <3>1, <3>2, <3>3, StageChains DEF Active
      <3>5. SourceInv'
        BY <2>1, <2>4, SourcesStand
      <3>6. QED
        BY <3>4, <3>5 DEF ChainInv
    <2>5. CASE Persist \/ Kill
      <3>1. /\ phase \notin {"idle", "sealed"} /\ phase' \in {"persisted", "dead"} /\ UNCHANGED <<queue, stage, shelf, frozen, rows>>
            /\ phase \in Active \cup Ending
        BY <2>5 DEF Persist, Kill, Active, Ending
      <3>2. ~Promises(Directory')
        BY <3>1 DEF Promises, Directory
      <3>3. Built(Shelved') /\ OrderInv'
        BY <2>1, <3>1, <3>2, StageChains
      <3>4. SourceInv'
        BY <2>1, <3>1 DEF SourceInv, Active, Ending
      <3>5. QED
        BY <3>3, <3>4 DEF ChainInv
    <2>6. CASE Seal
      <3>1. /\ phase = "persisted" /\ phase' = "sealed" /\ UNCHANGED <<queue, stage, shelf, frozen, rows>>
        BY <2>6 DEF Seal
      <3>2. Promises(Directory') => Behind(shelf, Directory')
        BY <2>1, <2>6, SealChains
      <3>3. Built(Shelved') /\ OrderInv'
        BY <2>1, <3>1, <3>2, StageChains
      <3>4. SourceInv'
        BY <2>1, <3>1 DEF SourceInv, Active, Ending
      <3>5. QED
        BY <3>3, <3>4 DEF ChainInv
    <2>7. CASE OrphanEnds \/ OtherTakes \/ OtherReleases \/ EditSources \/ UNCHANGED expVars
      <3>1. UNCHANGED <<queue, stage, phase, rows, disk, frozen, shelf>>
        BY <2>7 DEF OrphanEnds, OtherTakes, OtherReleases, EditSources, expVars
      <3>2. Shelved' = Shelved /\ Upcoming' = Upcoming
        BY <3>1 DEF Shelved, Directory, Upcoming, Script
      <3>3. QED
        BY <3>1, <3>2 DEF ChainInv, SourceInv, OrderInv
    <2>8. QED
      BY <2>2, <2>3, <2>4, <2>5, <2>6, <2>7 DEF ExpNext, RunnerStep, HostStep, EnvStep, Idle
  <1>3. QED
    BY <1>1, <1>2, WorkInvariant, RunnerInvariant, PTL DEF ExpSpec

(* Behind every complete recommendation stand its prerequisites, sealed,   *)
(* with the status asked for and of the same sources: for any campaigns in *)
(* which nothing is started again after what builds on it, any faults, and *)
(* trials resumed any number of times.                                     *)
THEOREM ChainsUnbroken == ExpSpec => []ChainUnbroken
  <1>1. ChainInv => ChainUnbroken
    BY DEF ChainInv, ChainUnbroken, Built, Behind, Stands, Promises
  <1>2. QED
    BY <1>1, ChainInvariant, PTL
=============================================================================
