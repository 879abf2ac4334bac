---------------------------- MODULE MtpScreens ----------------------------
(***************************************************************************)
(* The screens of multi-token prediction and of block verification: one    *)
(* record per stage of a script and one After operator per script.         *)
(***************************************************************************)
EXTENDS Samples

\* screen_mtp_forward.clean: a process over its budget is refused, a compressed,
\* swapping, hot or battery-powered one is recorded as unclean.
MtpRefuses == {"partial", "foreign", "overBudget"}
MtpDisturbs == {"compressed", "swapped", "hot"}

MtpStage(plan, needs, times, positive) ==
  [plan |-> plan, needs |-> needs, refuse |-> MtpRefuses, disturb |-> MtpDisturbs,
   times |-> times, positive |-> positive, own |-> FALSE]

Accounted(rows, S) == \A i \in S : rows[i].cond # "miscounted"

---------------------------------------------------------------------------
(* perfect_draft: continuation tokens known in advance, widths 1, 2 and 4. *)
(* The control verifies 4 tokens a second, so that 80 percent of its time  *)
(* is the declared 5.                                                      *)

PerfectDraft == MtpStage(
  Requires(<<"producer", "prime_reference">>) \o Arms("validate", 0, <<"w1", "w2", "w4">>)
    \o Arms("time", 0, <<"w1", "w2", "w4">>) \o Arms("time", 1, <<"w4", "w2", "w1">>),
  None, Plain({80, 90, 101}), {"perfect_verifier_promising"})

\* compare: width 1 is the reference of its validation or timing round.
PerfectDraftCompare(rows) ==
  Has(PerfectDraft, rows, Step(Here(PerfectDraft, rows).do, Here(PerfectDraft, rows).group, "w1"))
    => Equal(rows, Pair(PerfectDraft, rows))

PerfectDraftDecide(rows) ==
  LET passed(w) == \A p \in {0, 1} : /\ Wall(PerfectDraft, rows, "time", p, w) < 100
                                     /\ Wall(PerfectDraft, rows, "time", p, w) <= 80
  IN  IF ~Equal(rows, Among(PerfectDraft, rows, "time")) THEN "failed"
      ELSE IF ~Clean(PerfectDraft, rows) THEN "memory_disturbed"
      ELSE IF passed("w2") \/ passed("w4") THEN "perfect_verifier_promising"
      ELSE "perfect_verifier_below_gate"

PerfectDraftAfter(rows) ==
  ProofFirst(PerfectDraft, rows, PerfectDraftCompare(rows),
             IF Finished(PerfectDraft, rows) THEN PerfectDraftDecide(rows) ELSE "go")

\* audit: the recorded validations agree; a complete report rests on three clean ones
\* and repeats the decision.
PerfectDraftAudit(d) ==
  LET validated == Among(PerfectDraft, d.rows, "validate")
      clean == \A i \in validated : d.rows[i].cond \notin MtpDisturbs
  IN  /\ Equal(d.rows, validated)
      /\ Audited(d, IF Finished(PerfectDraft, d.rows) /\ clean THEN PerfectDraftDecide(d.rows) ELSE "unfinished")

---------------------------------------------------------------------------
(* perfect_draft_capacity: 1072 against 1460 expert slots.  The control,   *)
(* width 4 with 1072 slots, runs at 5.25 tokens a second: the floor of 5   *)
(* is 105 percent of its time.                                             *)

DraftCapacity == MtpStage(
  Requires(<<"producer", "prime_reference">>) \o Arms("validate", 0, <<"s1072w1", "s1072w4", "s1460w4">>)
    \o Arms("time", 0, <<"s1072w4", "s1460w1", "s1460w4">>)
    \o Arms("time", 1, <<"s1460w4", "s1460w1", "s1072w4">>),
  None, Plain({90, 102, 110}), {"verifier_capacity_promising"})

\* check_progress: every run repeats the serial validation, every timed run the first timed one.
CapacityProgress(rows) == Equal(rows, Among(DraftCapacity, rows, "validate") \cup Among(DraftCapacity, rows, "time"))

DraftCapacityDecide(rows) ==
  LET w(p, arm) == Wall(DraftCapacity, rows, "time", p, arm)
      weak == \E p \in {0, 1} : Has(DraftCapacity, rows, Step("time", p, "s1460w4")) /\ w(p, "s1460w4") > 105
  IN  IF weak THEN "verifier_capacity_below_floor"
      ELSE IF ~Finished(DraftCapacity, rows) THEN "go"
      ELSE IF \A p \in {0, 1} : w(p, "s1460w4") < 100 /\ w(p, "s1460w4") < w(p, "s1460w1") THEN "verifier_capacity_promising"
      ELSE "verifier_capacity_no_advantage"

DraftCapacityAfter(rows) ==
  ProofFirst(DraftCapacity, rows, CapacityProgress(rows),
             IF Here(DraftCapacity, rows).do = "time" THEN DraftCapacityDecide(rows) ELSE "go")

\* audit: check_progress holds of what was recorded, and nothing ran after a disturbed
\* process or after the early stop.
DraftCapacityAudit(d) ==
  /\ CapacityProgress(d.rows)
  /\ Audited(d, DraftCapacityDecide(d.rows)) /\ (d.complete => d.status # "go")
  /\ \A i \in DOMAIN d.rows : d.rows[i].cond \in MtpDisturbs => i = Len(d.rows) /\ d.status = "resource_blocked"

---------------------------------------------------------------------------
(* screen_mtp_forward: an independent fixture, then one joint pair.        *)

\* Of a report on its own only that it is complete and within the budget.
Loose(x) == [x EXCEPT !.refuse = {"partial", "overBudget"}]
ForwardFixture == Loose(MtpStage(<<Step("native", 0, "fixture"), Step("check", 0, "reference")>>, None, {},
                                 {"forward_fixture_validated"}))
ForwardJoint == Loose(MtpStage(
  Requires(<<"forward_fixture">>) \o <<Step("validate", 0, "validate"), Step("process", 0, "real_fixture"),
    Step("time", 0, "serial"), Step("time", 0, "mtp")>>,
  [forward_fixture |-> {"forward_fixture_validated"}], Plain({99, 100}), {"promising_short_screen"}))

\* The fixture process may be disturbed; the stage is refused only after the
\* reference has read its bytes.
ForwardFixtureAfter(rows) ==
  IF Invalid(ForwardFixture, rows) THEN "failed"
  ELSE IF ~Finished(ForwardFixture, rows) THEN "go"
  ELSE IF ~Clean(ForwardFixture, rows) THEN "resource_blocked"
  ELSE "forward_fixture_validated"

ForwardJointAfter(rows) ==
  LET timed == Among(ForwardJoint, rows, "time")
      late == Here(ForwardJoint, rows).arm = "validate"
  IN  IF Invalid(ForwardJoint, rows) THEN "failed"
      ELSE IF late THEN "go"
      ELSE IF ~Clean(ForwardJoint, rows) THEN "resource_blocked"
      ELSE IF ~Finished(ForwardJoint, rows) THEN "go"
      ELSE IF ~Equal(rows, timed) \/ ~SameSource(rows, timed) THEN "failed"
      ELSE IF Wall(ForwardJoint, rows, "time", 0, "mtp") < 100 THEN "promising_short_screen"
      ELSE "slower_than_serial"

---------------------------------------------------------------------------
(* screen_mtp_continuation: fixture, forced-rejection validation, then one *)
(* alternating pair for each coding case.                                  *)

ContinuationFixture == Loose(MtpStage(
  Requires(<<"forward_capture">>) \o Arms("test", 0, <<"bounds", "checkpoint">>)
    \o <<Step("native", 0, "native"), Step("check", 0, "reference")>>,
  None, {}, {"forward_fixture_validated"}))
ContinuationValidate == MtpStage(
  Requires(<<"continuation_fixture">>) \o Arms("validate", 0, <<"validate", "fast">>),
  [continuation_fixture |-> {"forward_fixture_validated"}], {}, {"numerically_validated"})
ContinuationScreen == MtpStage(
  Requires(<<"continuation_fixture", "continuation_validate">>) \o Alternating("time", 3, "serial", "fast"),
  [continuation_fixture |-> {"forward_fixture_validated"}, continuation_validate |-> {"numerically_validated"}],
  Plain({99, 101}), {"continuation_screen_complete"})

ContinuationFixtureAfter(rows) ==
  IF Invalid(ContinuationFixture, rows) THEN "failed"
  ELSE IF ~Finished(ContinuationFixture, rows) THEN "go"
  ELSE IF ~Clean(ContinuationFixture, rows) THEN "resource_blocked"
  ELSE "forward_fixture_validated"

\* observe, then compare or equivalent once both arms of a case are in.
ContinuationAfter(x, rows, status) ==
  CleanFirst(x, rows, PairDone(x, rows) => Equal(rows, Pair(x, rows)), Onward(x, rows, status))

---------------------------------------------------------------------------
(* screen_mtp_recovery: validation, then five pairs unless the first       *)
(* candidate misses the floor (80 percent of the control's time).          *)

OverBudget(x) == [x EXCEPT !.refuse = {"overBudget"}]
MtpRecovery == OverBudget(MtpStage(
  Requires(<<"forward_fixture">>) \o Arms("validate", 0, <<"validate", "fast">>)
    \o Alternating("time", 5, "control", "candidate"),
  [forward_fixture |-> {"forward_fixture_validated"}], Plain({80, 101}), {"promising_short_screen"}))

\* equivalent: both reports complete, of one source and with equal results.
Equivalent(rows, S) == Equal(rows, S) /\ SameSource(rows, S) /\ \A i \in S : rows[i].cond # "partial"

\* paired_log_interval over five ratios of 80 or 101 percent (and of 90 or 101):
\* the upper bound of the 95 percent interval is below 1 when at most one is 101.
UpperBelowOne(x, rows) == Cardinality({i \in Among(x, rows, "time") : rows[i].wall > 100}) <= 1

MtpRecoveryDecide(x, rows) ==
  LET w(p) == Wall(x, rows, "time", p, "candidate")
  IN  IF Here(x, rows).group = 0 /\ w(0) > 80 THEN "below_absolute_target"
      ELSE IF ~Finished(x, rows) THEN "go"
      ELSE IF UpperBelowOne(x, rows) /\ \A p \in 0 .. 4 : w(p) <= 80 THEN "promising_short_screen"
      ELSE "inconclusive_short_screen"

\* A timed report that is not complete is raised on by itself, before it is recorded.
MtpRecoveryPartial(x, rows) == Here(x, rows).do = "time" /\ Newest(rows).cond = "partial"
MtpRecoveryAfter(x, rows) ==
  CleanFirst(x, rows, ~MtpRecoveryPartial(x, rows) /\ (PairDone(x, rows) => Equivalent(rows, Pair(x, rows))),
             IF Here(x, rows).do = "time" /\ PairDone(x, rows)
             THEN MtpRecoveryDecide(x, rows) ELSE "go")

\* With a validation source, the two numerical checks are those of a blocked attempt,
\* compared again; whether its processes were disturbed does not matter for them.
MtpRecoveryResumed == OverBudget(MtpStage(
  Requires(<<"forward_fixture", "mtp_recovery">>) \o Alternating("time", 5, "control", "candidate"),
  [forward_fixture |-> {"forward_fixture_validated"}, mtp_recovery |-> {"resource_blocked"}],
  Plain({80, 101}), {"promising_short_screen"}))
NumericalSource(rows) == Len(rows) >= 3 /\ Equivalent(rows, {2, 3})

---------------------------------------------------------------------------
(* screen_mtp_expert_scratch, screen_mtp_ngram_init and                    *)
(* screen_mtp_direct_output: native fixture, validation, a short screen of *)
(* two pairs that stops at the first weak pair, a long screen of one pair  *)
(* for each case.                                                          *)

ShortTimes == Plain({96, 98, 99, 100})
ScratchFixture == MtpStage(<<Step("check", 0, "fixture")>>, None, {}, {"fixture_validated"})
ScratchValidate == MtpStage(Requires(<<"scratch_fixture">>) \o Arms("validate", 0, <<"off", "on">>),
  [scratch_fixture |-> {"fixture_validated"}], {}, {"numerically_validated"})
ScratchShort == MtpStage(
  Requires(<<"scratch_fixture", "scratch_validate">>) \o Alternating("time", 2, "off", "on"),
  [scratch_fixture |-> {"fixture_validated"}, scratch_validate |-> {"numerically_validated"}],
  ShortTimes, {"promising_short_screen"})
ScratchLong == MtpStage(
  Requires(<<"scratch_fixture", "scratch_validate", "scratch_short">>) \o Alternating("long", 3, "off", "on"),
  [scratch_fixture |-> {"fixture_validated"}, scratch_validate |-> {"numerically_validated"},
   scratch_short |-> {"promising_short_screen"}],
  Plain({99, 101}), {"continuation_screen_complete"})

\* prerequisite and run of the three scripts are the same; their kinds differ
\* (those of the n-gram screen do not) and so do their producers.
NgramFixture == MtpStage(Requires(<<"eager_reference">>) \o Arms("check", 0, <<"ngram", "scratch">>), None, {}, {"fixture_validated"})
NgramValidate == ScratchValidate
DirectFixture == MtpStage(Requires(<<"numerical_reference">>) \o Arms("check", 0, <<"ngram", "native">>), None, {}, {"fixture_validated"})
DirectValidate == [ScratchValidate EXCEPT !.plan = Requires(<<"numerical_reference">>) \o @]

\* Mutant: only the counters of the two arms are compared.
ScratchCompareCounts(x, rows) == Accounted(rows, Pair(x, rows))

\* comparison: equal outputs and states, counters that fit the arm.
ScratchCompare(x, rows) == Equal(rows, Pair(x, rows)) /\ Accounted(rows, Pair(x, rows))

\* The validation of the lazy n-gram store repeats the eager reference.
NgramCompare(x, rows) ==
  /\ ScratchCompare(x, rows)
  /\ Here(x, rows).do = "validate" => Anchored(rows, Pair(x, rows))

\* The inline gate of the scratch screen: pair 0 above 98 percent, or pair 1 not
\* faster or the mean of both above 98.
ScratchRejected(x, rows) ==
  LET r(p) == Wall(x, rows, "time", p, "on")
  IN  IF Here(x, rows).group = 0 THEN r(0) > 98
      ELSE r(1) >= 100 \/ r(0) * r(1) > 98 * 98

\* short_rejected of the direct-output screen looks at all ratios so far.
DirectRejected(x, rows) ==
  LET r(p) == Wall(x, rows, "time", p, "on")
  IN  r(0) > 98 \/ (Here(x, rows).group = 1 /\ (r(1) >= 100 \/ r(0) * r(1) > 98 * 98))

PairedAfter(x, rows, exact, rejected, status) ==
  LET paired == Here(x, rows).do \notin {"require", "native"} /\ PairDone(x, rows)
  IN  CleanFirst(x, rows, paired => exact,
        IF paired /\ Here(x, rows).do = "time" /\ rejected THEN "insufficient_short_gain"
        ELSE Onward(x, rows, status))

\* The native fixtures are complete and have their flags set; how much memory their
\* process took is not looked at.
NativeFixtureAfter(x, rows) == Recorded(x, rows, TRUE, Onward(x, rows, "fixture_validated"))
ScratchAfter(x, rows, status) == PairedAfter(x, rows, ScratchCompare(x, rows), ScratchRejected(x, rows), status)
NgramAfter(x, rows, status) == PairedAfter(x, rows, NgramCompare(x, rows), ScratchRejected(x, rows), status)

\* reference_exact: each validation sample repeats the numerical reference.
DirectAfter(x, rows, status) ==
  IF /\ Here(x, rows).do = "validate" /\ ~Invalid(x, rows) /\ ~Disturbed(x, rows)
     /\ Newest(rows).out # "same"
  THEN "failed"
  ELSE PairedAfter(x, rows, ScratchCompare(x, rows), DirectRejected(x, rows), status)

---------------------------------------------------------------------------
(* trial_recovery: fixtures, correctness of every accepted prefix, a short *)
(* screen, an all-accepted check and a long screen, one after the other.   *)

RecoveryFixture == MtpStage(<<Step("validate", 0, "capture"), Step("native", 0, "replay")>>, None, {}, {"fixture_validated"})
RecoveryCorrectness == MtpStage(
  Requires(<<"recovery_fixture">>) \o Alternating("validate", 5, "off", "on"),
  [recovery_fixture |-> {"fixture_validated"}], {}, {"numerically_validated"})
RecoveryShort == MtpStage(
  Requires(<<"recovery_correctness">>) \o Alternating("time", 2, "off", "on"),
  [recovery_correctness |-> {"numerically_validated"}], Plain({90, 95, 99, 101}), {"promising_short_screen"})
RecoveryAccepted == MtpStage(
  Requires(<<"recovery_correctness", "recovery_short">>) \o Arms("time", 0, <<"off", "on">>),
  [recovery_correctness |-> {"numerically_validated"}, recovery_short |-> {"promising_short_screen"}],
  Plain({102, 103}), {"all_accepted_safe"})
RecoveryLong == MtpStage(
  Requires(<<"recovery_correctness", "recovery_short", "recovery_accepted">>) \o Paired("time", <<FALSE, TRUE, TRUE, FALSE, FALSE, TRUE>>, "off", "on"),
  [recovery_correctness |-> {"numerically_validated"}, recovery_short |-> {"promising_short_screen"},
   recovery_accepted |-> {"all_accepted_safe"}], Plain({90, 101, 105}), {"promising_long_screen"})

Candidates(x, rows, groups) == {i \in Among(x, rows, "time") : x.plan[i].arm = "on" /\ x.plan[i].group \in groups}
Groups(x, rows) == {x.plan[i].group : i \in Among(x, rows, "time")}

\* target_recovery_checks.short_gate: the first pair and the mean gain 5 percent, no pair is slower.
ShortGate(x, rows) ==
  /\ Wall(x, rows, "time", 0, "on") <= 95
  /\ \A i \in Candidates(x, rows, Groups(x, rows)) : rows[i].wall < 100
  /\ GeoMeanAtMost(x, rows, Candidates(x, rows, Groups(x, rows)), 95)

\* long_gate: no case loses 2 percent over its two pairs, the whole gains 5.
LongGate(x, rows) ==
  /\ \A c \in 0 .. 2 : GeoMeanAtMost(x, rows, Candidates(x, rows, {2 * c, 2 * c + 1}), 102)
  /\ GeoMeanAtMost(x, rows, Candidates(x, rows, 0 .. 5), 95)

RecoveryScreenGate(x, rows) ==
  IF x = RecoveryShort
  THEN IF ShortGate(x, rows) THEN Onward(x, rows, "promising_short_screen") ELSE "insufficient_short_gain"
  ELSE IF x = RecoveryAccepted
  THEN IF Wall(x, rows, "time", 0, "on") > 102 THEN "all_accepted_regression" ELSE "all_accepted_safe"
  ELSE IF x = RecoveryLong
  THEN Onward(x, rows, IF LongGate(x, rows) THEN "promising_long_screen" ELSE "insufficient_long_gain")
  ELSE Onward(x, rows, "numerically_validated")

\* samples: a disturbed process stops the stage, a finished pair is compared, then gated.
RecoveryAfter(x, rows) ==
  LET paired == Here(x, rows).do \notin {"require", "native"} /\ PairDone(x, rows)
  IN  CleanFirst(x, rows, paired => ScratchCompare(x, rows), IF paired THEN RecoveryScreenGate(x, rows) ELSE "go")

RecoveryFixtureAfter(rows) ==
  CleanFirst(RecoveryFixture, rows, TRUE, Onward(RecoveryFixture, rows, "fixture_validated"))

\* run: a stage that did not complete, or that found the gain insufficient, is the last.
RecoveryContinues(result) == result.complete /\ result.status \notin
  {"insufficient_short_gain", "all_accepted_regression", "insufficient_long_gain"}

\* The stages a trial of the recovery goes through, in this order.
Trial == <<"recovery_fixture", "recovery_correctness", "recovery_short", "recovery_accepted", "recovery_long">>

=============================================================================
