--------------------------- MODULE ScriptCatalog ---------------------------
(***************************************************************************)
(* Every measurement script of scripts/qwen under the name of its stage.   *)
(***************************************************************************)
EXTENDS DecodeScreens, VerifierScreens, Q4Screens

Catalog ==
  [perfect_draft |-> PerfectDraft, draft_capacity |-> DraftCapacity,
   forward_fixture |-> ForwardFixture, forward_joint |-> ForwardJoint,
   continuation_fixture |-> ContinuationFixture, continuation_validate |-> ContinuationValidate,
   continuation_screen |-> ContinuationScreen, mtp_recovery |-> MtpRecovery,
   mtp_recovery_resumed |-> MtpRecoveryResumed,
   scratch_fixture |-> ScratchFixture, scratch_validate |-> ScratchValidate,
   scratch_short |-> ScratchShort, scratch_long |-> ScratchLong,
   ngram_fixture |-> NgramFixture, ngram_validate |-> NgramValidate, ngram_short |-> ScratchShort,
   direct_fixture |-> DirectFixture, direct_validate |-> DirectValidate, direct_short |-> ScratchShort,
   recovery_fixture |-> RecoveryFixture, recovery_correctness |-> RecoveryCorrectness,
   recovery_short |-> RecoveryShort, recovery_accepted |-> RecoveryAccepted, recovery_long |-> RecoveryLong,
   cache_screen |-> CacheScreen, residency_screen |-> ResidencyScreen, residency_confirm |-> ResidencyConfirm,
   capacity_trial |-> CapacityTrial, tail_screen |-> TailScreen, scratch_screen |-> ScratchScreen,
   scratch_confirm |-> ScratchConfirm, route_screen |-> RouteScreen, route_confirm |-> RouteConfirm,
   q8_screen |-> Q8Screen, q8_confirm |-> Q8Confirm, budget_screen |-> BudgetScreen,
   coalesced_screen |-> CoalescedScreen, expert_residency_screen |-> ExpertResidencyScreen,
   expert_residency_state |-> ExpertResidencyState, expert_residency_confirm |-> ExpertResidencyConfirm,
   stage_capacity |-> StageCapacity, stage_pressure |-> StagePressure, stage_profile |-> StageProfile,
   stage_q3 |-> StageQ3, submission_screen |-> SubmissionScreen, hyper_fusion |-> HyperFusion,
   q8_lookahead |-> Q8Lookahead, q4_packed |-> Q4Packed, block_gdn |-> BlockGdn,
   q8_block_packed |-> Q8BlockPacked, q8_expanded_capture |-> Q8ExpandedCapture, q8_expanded |-> Q8Expanded,
   horizon_screen |-> HorizonScreen, streamed_horizon |-> StreamedHorizon, horizon_early |-> HorizonEarly,
   recovery_early |-> RecoveryEarly, width_validate |-> WidthValidate, width_diagnostic |-> WidthDiagnostic,
   width_screen |-> WidthScreen, streamed_fixture |-> StreamedFixture, streamed_validate |-> StreamedValidate,
   streamed_diagnostic |-> StreamedDiagnostic, streamed_screen |-> StreamedScreen,
   streamed_preliminary |-> StreamedPreliminary, combined_state |-> CombinedState,
   combined_screen |-> CombinedScreen, native_replay |-> NativeReplay, read_arrivals |-> ReadArrivals,
   shared_arrivals |-> SharedArrivals, scratch_lifetime |-> ScratchLifetime,
   validation_memory |-> ValidationMemory, request_context |-> RequestContext]

Stages == DOMAIN Catalog

\* No status an exception leaves, and no unfinished one, recommends a candidate.
ASSUME CatalogAssumption ==
    \A s \in Stages : Catalog[s].positive \cap (Errors \cup {"running", "incomplete"}) = {}

---------------------------------------------------------------------------
(* What the rules of the scripts rely on in their plans.  These are facts  *)
(* about the constant catalog; TLC evaluates each of them.                 *)

Plan(s) == Catalog[s].plan
LastStep(s) == Plan(s)[Len(Plan(s))]
Kinds(s) == {Plan(s)[i].do : i \in DOMAIN Plan(s)}
SameGroup(s, i, j) == Plan(s)[i].do = Plan(s)[j].do /\ Plan(s)[i].group = Plan(s)[j].group
Unmeasured == {"native", "require", "operators", "test", "check", "process"}
Measured(s) == {i \in DOMAIN Plan(s) : Plan(s)[i].do \notin Unmeasured}

\* A plan is a nonempty sequence of steps; every group of its steps has a last one; what
\* a candidate may cost is a pair of numbers.
ASSUME PlanAssumption ==
    \A s \in Stages :
      /\ Plan(s) \in Seq([do : STRING, group : Nat, arm : STRING]) /\ Plan(s) # <<>>
      /\ \A i \in DOMAIN Plan(s) : \E m \in DOMAIN Plan(s) :
           SameGroup(s, m, i) /\ \A k \in DOMAIN Plan(s) : SameGroup(s, k, i) => k <= m
      /\ Catalog[s].times \subseteq [wall : Nat, worst : Nat]

\* The kinds of step a script has.
ASSUME KindAssumption ==
    /\ \A s \in {"forward_fixture", "continuation_fixture", "scratch_fixture", "ngram_fixture", "direct_fixture",
                 "streamed_fixture"} : Kinds(s) \subseteq Unmeasured
    /\ \A s \in {"perfect_draft", "draft_capacity"} : Kinds(s) \subseteq {"require", "validate", "time"}
    /\ \A s \in {"cache_screen", "tail_screen", "scratch_screen", "route_screen", "q8_screen", "stage_q3"} :
         Kinds(s) \subseteq Unmeasured \cup {"validate", "time"}
    /\ \A s \in {"residency_screen", "residency_confirm", "q8_confirm", "route_confirm", "scratch_confirm",
                 "budget_screen", "coalesced_screen", "expert_residency_screen", "expert_residency_confirm",
                 "recovery_accepted", "recovery_early", "width_screen", "streamed_screen", "streamed_preliminary", "combined_screen"} :
         Kinds(s) \subseteq {"require", "time"}
    /\ \A s \in {"width_validate", "width_diagnostic", "streamed_validate", "streamed_diagnostic", "recovery_fixture",
                 "combined_state", "expert_residency_state"} :
         Kinds(s) \subseteq Unmeasured \cup {"validate"}
    /\ \A s \in {"submission_screen", "hyper_fusion", "q8_lookahead", "q4_packed", "mtp_recovery", "mtp_recovery_resumed",
                 "expert_residency_state"} :
         Kinds(s) \subseteq {"require", "test", "validate", "time"}
    /\ Kinds("validation_memory") \subseteq {"require", "memory"}

\* Scripts that compare nothing within a group, each measured step being one of its own,
\* and scripts whose measured steps are all of the last one's group.
ASSUME GroupAssumption ==
    /\ \A s \in {"recovery_fixture", "stage_q3", "submission_screen", "hyper_fusion", "q8_lookahead", "q4_packed",
                 "read_arrivals", "shared_arrivals", "scratch_lifetime", "validation_memory"} :
         \A i, j \in Measured(s) : SameGroup(s, i, j) => i = j
    /\ \A s \in {"recovery_accepted", "expert_residency_state", "combined_state"} :
         \A i \in Measured(s) : SameGroup(s, i, Len(Plan(s)))

\* The last step of a script that decides at its timings or validations is one of them.
ASSUME LastAssumption ==
    /\ \A s \in {"draft_capacity", "forward_joint", "mtp_recovery", "mtp_recovery_resumed", "q8_screen", "stage_q3",
                 "horizon_screen", "streamed_horizon", "horizon_early"} : LastStep(s).do = "time" /\ LastStep(s).arm # "validate"
    /\ \A s \in {"recovery_correctness", "recovery_short", "recovery_accepted", "recovery_long", "combined_state",
                 "submission_screen", "hyper_fusion", "q8_lookahead", "q4_packed"} : Len(Plan(s)) \in Measured(s)
    /\ \A s \in {"submission_screen", "hyper_fusion", "q8_lookahead", "q4_packed", "native_replay"} :
         \A i \in DOMAIN Plan(s) : Plan(s)[i].do \in {"time", "long"} => i = Len(Plan(s))
    /\ \A s \in {"horizon_screen", "streamed_horizon"} :
         LastStep(s).group = 1 /\ \A i \in DOMAIN Plan(s) : Plan(s)[i].group \in {0, 1}
    /\ Len(Plan("streamed_fixture")) = 1 /\ Len(Plan("request_context")) = 5

\* Every round of the perfect-draft screen has its serial run, the validations theirs
\* first; the joint screen validates once and times one pair; requests follow their source.
ASSUME RoundAssumption ==
    /\ \A i \in Measured("perfect_draft") : \E k \in DOMAIN Plan("perfect_draft") :
         /\ Plan("perfect_draft")[k] = Step(Plan("perfect_draft")[i].do, Plan("perfect_draft")[i].group, "w1")
         /\ Plan("perfect_draft")[i].do = "validate" => k <= i /\ Plan("perfect_draft")[i].group = 0
    /\ \A i \in DOMAIN Plan("forward_joint") :
         /\ Plan("forward_joint")[i].do = "validate" <=> i = 2
         /\ Plan("forward_joint")[i].arm = "validate" <=> i = 2
         /\ Plan("forward_joint")[i].do \in Unmeasured \cup {"validate"} \/ SameGroup("forward_joint", i, Len(Plan("forward_joint")))
    /\ Plan("request_context")[1].do = "require"

\* Scripts that time a candidate and never look at the footprint of its process, and
\* scripts that compare what a report names as its source with another one's at most.
BudgetBlind == {"stage_q3", "submission_screen", "q8_lookahead", "q4_packed"}
SourceBlind == {"stage_q3", "q8_lookahead", "q4_packed", "forward_joint", "mtp_recovery", "mtp_recovery_resumed"}

\* The others raise on a report as it comes, but for those that look at all in the end:
\* every one on an incomplete report, those that measure on another source, those that
\* time on an exceeded budget (which the replays take as a disturbed process).
Timings(s) == {i \in DOMAIN Plan(s) : Plan(s)[i].do \in {"time", "long"}}
ASSUME RefuseAssumption ==
    /\ \A s \in Stages : Catalog[s].refuse \cup Catalog[s].disturb \subseteq Conditions \ {"good"}
    /\ \A s \in Stages \ {"submission_screen", "hyper_fusion", "q8_lookahead", "q4_packed", "combined_state",
                          "expert_residency_state"} :
         /\ s \notin {"mtp_recovery", "mtp_recovery_resumed"} => "partial" \in Catalog[s].refuse
         /\ Measured(s) # {} /\ s \notin SourceBlind => "foreign" \in Catalog[s].refuse
         /\ Timings(s) # {} /\ s \notin BudgetBlind =>
              \/ "overBudget" \in Catalog[s].refuse
              \/ /\ s \in {"native_replay", "read_arrivals", "shared_arrivals", "scratch_lifetime"}
                 /\ "overBudget" \in Catalog[s].disturb

\* Where the audited scripts read their sources and run their requests.
ASSUME AuditAssumption ==
    /\ \A s \in {"combined_screen", "request_context"} : \A i \in DOMAIN Plan(s) :
         IF i = 1 THEN Plan(s)[i].do = "require" ELSE Plan(s)[i].do \in {"time", "diagnostic"}
    /\ \A i \in DOMAIN Plan("request_context") : Plan("request_context")[i] = Step("time", 0, "B") <=> i = 3
    /\ \A s \in {"shared_arrivals", "scratch_lifetime"} :
         Len(Plan(s)) = 7 /\ \A i \in 5 .. 7 : Plan(s)[i].do # "require"
    /\ Len(Plan("read_arrivals")) = 6

---------------------------------------------------------------------------
\* What the script x of stage s does once the last of rows is in.
After(x, s, rows) ==
  CASE s = "perfect_draft" -> PerfectDraftAfter(rows)
    [] s = "draft_capacity" -> DraftCapacityAfter(rows)
    [] s = "forward_fixture" -> ForwardFixtureAfter(rows)
    [] s = "forward_joint" -> ForwardJointAfter(rows)
    [] s = "continuation_fixture" -> ContinuationFixtureAfter(rows)
    [] s = "continuation_validate" -> ContinuationAfter(x, rows, "numerically_validated")
    [] s = "continuation_screen" -> ContinuationAfter(x, rows, "continuation_screen_complete")
    [] s \in {"mtp_recovery", "mtp_recovery_resumed"} -> MtpRecoveryAfter(x, rows)
    [] s \in {"scratch_fixture", "ngram_fixture", "direct_fixture"} -> NativeFixtureAfter(x, rows)
    [] s = "scratch_validate" -> ScratchAfter(x, rows, "numerically_validated")
    [] s = "scratch_short" -> ScratchAfter(x, rows, "promising_short_screen")
    [] s = "scratch_long" -> ScratchAfter(x, rows, "continuation_screen_complete")
    [] s = "ngram_validate" -> NgramAfter(x, rows, "numerically_validated")
    [] s = "ngram_short" -> NgramAfter(x, rows, "promising_short_screen")
    [] s = "direct_validate" -> DirectAfter(x, rows, "numerically_validated")
    [] s = "direct_short" -> DirectAfter(x, rows, "promising_short_screen")
    [] s = "recovery_fixture" -> RecoveryFixtureAfter(rows)
    [] s \in {"recovery_correctness", "recovery_short", "recovery_accepted", "recovery_long"} -> RecoveryAfter(x, rows)
    [] s = "cache_screen" -> CacheScreenAfter(rows)
    [] s \in {"residency_screen", "residency_confirm"} -> ResidencyAfter(x, rows)
    [] s = "capacity_trial" -> CapacityTrialAfter(rows)
    [] s = "tail_screen" -> TailAfter(rows)
    [] s = "scratch_screen" -> ScratchScreenAfter(rows)
    [] s = "route_screen" -> RouteAfter(rows)
    [] s = "q8_screen" -> Q8ScreenAfter(rows)
    [] s \in {"q8_confirm", "route_confirm", "scratch_confirm", "budget_screen"} -> ConfirmAfter(x, rows)
    [] s = "expert_residency_state" -> ExpertStateAfter(rows)
    [] s \in {"coalesced_screen", "expert_residency_screen", "expert_residency_confirm"} -> ResidentAfter(x, rows)
    [] s = "stage_q3" -> StageQ3After(rows)
    [] s \in {"stage_capacity", "stage_pressure", "stage_profile"} -> StageAfter(x, rows)
    [] s \in {"submission_screen", "hyper_fusion", "q8_lookahead", "q4_packed"} -> ProbeAfter(x, rows)
    [] s \in {"block_gdn", "q8_block_packed", "q8_expanded_capture", "q8_expanded"} -> VerifierOperatorAfter(x, rows)
    [] s \in {"horizon_screen", "streamed_horizon"} -> HorizonAfter(x, rows)
    [] s = "horizon_early" -> HorizonEarlyAfter(rows)
    [] s = "recovery_early" -> RecoveryEarlyAfter(rows)
    [] s \in {"width_validate", "width_diagnostic"} -> WidthValidateAfter(x, rows, s = "width_diagnostic")
    [] s = "width_screen" -> WidthScreenAfter(rows)
    [] s = "streamed_fixture" -> StreamedFixtureAfter(rows)
    [] s \in {"streamed_validate", "streamed_diagnostic"} -> StreamedValidateAfter(x, rows, s = "streamed_diagnostic")
    [] s \in {"streamed_screen", "streamed_preliminary"} -> StreamedScreenAfter(x, rows)
    [] s = "combined_state" -> CombinedStateAfter(rows)
    [] s = "combined_screen" -> CombinedScreenAfter(rows)
    [] s = "native_replay" -> NativeReplayAfter(rows)
    [] s \in {"read_arrivals", "shared_arrivals", "scratch_lifetime"} -> ArrivalsAfter(x, rows)
    [] s = "validation_memory" -> ValidationMemoryAfter(rows)
    [] s = "request_context" -> RequestContextAfter(rows)

\* Scripts that compare outputs while they validate a report (check_progress,
\* validate_request, analyze): one that differs is raised on before it is recorded.
Unrecorded(x, s, rows) ==
  CASE s = "perfect_draft" -> Here(x, rows).do = "validate" /\ ~PerfectDraftCompare(rows)
    [] s = "draft_capacity" -> ~CapacityProgress(rows)
    [] s \in {"mtp_recovery", "mtp_recovery_resumed"} -> MtpRecoveryPartial(x, rows)
    [] s = "stage_q3" -> Here(x, rows).do = "time" /\ Newest(rows).out # "same"
    [] s \in {"horizon_screen", "streamed_horizon", "horizon_early", "block_gdn", "q8_block_packed",
              "q8_expanded_capture", "q8_expanded", "native_replay", "read_arrivals"} -> Newest(rows).out # "same"
    [] s \in {"cache_screen", "residency_screen", "residency_confirm", "capacity_trial", "tail_screen", "scratch_screen",
              "scratch_confirm", "route_screen", "route_confirm", "q8_screen", "q8_confirm", "budget_screen",
              "coalesced_screen", "expert_residency_screen", "expert_residency_confirm", "stage_capacity",
              "stage_pressure", "stage_profile", "combined_screen", "request_context"} ->
         Here(x, rows).do \in {"time", "long", "diagnostic"} /\ After(x, s, rows) = "failed"
    [] OTHER -> FALSE

\* What the auditor of script x, if its stage s has one, says of the sealed report d.
Audit(x, s, d) ==
  CASE s = "perfect_draft" -> PerfectDraftAudit(d)
    [] s = "draft_capacity" -> DraftCapacityAudit(d)
    [] s = "hyper_fusion" -> HyperFusionAudit(d)
    [] s \in {"block_gdn", "q8_block_packed", "q8_expanded_capture", "q8_expanded"} -> VerifierOperatorAudit(x, d)
    [] s \in {"combined_state", "combined_screen"} -> CombinedAudit(x, d)
    [] s = "native_replay" -> NativeReplayAudit(d)
    [] s = "read_arrivals" -> ArrivalsAudit(d)
    [] s = "shared_arrivals" -> SharedAudit(d)
    [] s = "scratch_lifetime" -> LifetimeAudit(d)
    [] s = "validation_memory" -> ValidationMemoryAudit(d)
    [] s = "request_context" -> RequestContextAudit(d)
    [] OTHER -> TRUE

\* What a prerequisite must show beyond its seal, status and producer: the screens that
\* build on a blocked attempt look at the rows they are going to use.
Source(s, needed, rows) ==
  CASE s = "q8_expanded" -> ExpandedSource(rows)
    [] s = "horizon_early" -> HorizonSource(rows)
    [] s = "mtp_recovery_resumed" /\ needed = "mtp_recovery" -> NumericalSource(rows)
    [] s = "streamed_diagnostic" -> DiagnosticSource(rows)
    [] s = "streamed_screen" -> StreamedProof(rows, FALSE)
    [] s = "streamed_preliminary" -> StreamedProof(rows, TRUE)
    [] OTHER -> TRUE

\* The scripts about the n-gram store and direct output take the place of those about
\* expert scratch, and either width validation serves the width screen.
Slot(s) ==
  CASE s \in {"ngram_fixture", "direct_fixture"} -> "scratch_fixture"
    [] s \in {"ngram_validate", "direct_validate"} -> "scratch_validate"
    [] s \in {"ngram_short", "direct_short"} -> "scratch_short"
    [] s = "width_validate" -> "width_diagnostic"
    [] OTHER -> s

\* The stage whose recorded rows a validation may take over (--resume, --diagnostic).
ReusesFrom(s) ==
  CASE s \in {"width_validate", "width_diagnostic"} -> "width_diagnostic"
    [] s \in {"streamed_validate", "streamed_diagnostic"} -> "streamed_validate"
    [] OTHER -> "nothing"

---------------------------------------------------------------------------
(* The order of stages.                                                    *)

\* Stage u may be started after stage s: it does not take the place of a directory s
\* builds on, and nothing of a trial comes after its last stage.
Follows(s, u) ==
  /\ Slot(u) \notin DOMAIN Catalog[s].needs
  /\ s = "recovery_long" => \A i \in DOMAIN Trial : u # Trial[i]

\* Every directory a script builds on is one it requires in its plan, and none its own.
ASSUME NeedAssumption ==
    \A s \in Stages :
      /\ Slot(s) \notin DOMAIN Catalog[s].needs
      /\ \A n \in DOMAIN Catalog[s].needs : \E i \in DOMAIN Plan(s) : Plan(s)[i].do = "require" /\ Plan(s)[i].arm = n

\* A trial: its stages come in an order; who builds on one of them asks for a complete
\* recommendation; each but the first builds on the one before.
ASSUME TrialAssumption ==
    /\ \A i, j \in DOMAIN Trial : i < j => Follows(Trial[i], Trial[j])
    /\ \A s \in Stages : \A i \in DOMAIN Trial :
         /\ Slot(s) = Trial[i] => s = Trial[i]
         /\ Slot(Trial[i]) = Trial[i]
         /\ Trial[i] \in DOMAIN Catalog[s].needs =>
              /\ Catalog[s].needs[Trial[i]] \subseteq Catalog[Trial[i]].positive
              /\ i >= 3 => \E k \in i + 1 .. 5 : s = Trial[k]
    /\ \A i \in 2 .. 5 : Trial[i - 1] \in DOMAIN Catalog[Trial[i]].needs

=============================================================================
