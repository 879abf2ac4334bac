--------------------------- MODULE DecodeScreens ---------------------------
(***************************************************************************)
(* The screens and confirmations of decode scheduling, memory and routing. *)
(* They time whole conversations: wall is the conversation's time in       *)
(* percent of the control's, worst the ratio of the one request metric     *)
(* (decode time in the screens about generation) that decides the          *)
(* secondary rule.  A control decodes a token in 200 ms, so a saving of    *)
(* 20 ms a token is a ratio of 90.                                         *)
(***************************************************************************)
EXTENDS Samples

\* validate_request: machine, build, configuration, token counts, session reuse and
\* the footprint limit; the scripts that read native counters refuse miscounted ones too.
RequestRefuses == {"partial", "foreign", "overBudget"}
CounterRefuses == RequestRefuses \cup {"miscounted"}

\* stage200.clean_memory looks at compression only.
CompressionDisturbs == {"compressed"}

Conversation(plan, needs, refuse, disturb, times, positive) ==
  [plan |-> plan, needs |-> needs, refuse |-> refuse, disturb |-> disturb, times |-> times,
   positive |-> positive, own |-> TRUE]
Staged(x) == [x EXCEPT !.own = FALSE]

Both(do) == Arms(do, 0, <<"control", "candidate">>)
Pairs(do, n) == Alternating(do, n, "control", "candidate")

TwoPairTimes == {Cost(97, 90), Cost(99, 99), Cost(99, 103), Cost(99, 110), Cost(101, 90)}
FivePairTimes == {Cost(90, 95), Cost(101, 95), Cost(90, 110)}
NoGain == "improvement_not_demonstrated"

\* screen_residency.decide with two pairs: every conversation is faster, their median
\* gains a percent, and no other metric's median loses three.
TwoPairsGain(x, rows) ==
  LET w(p) == Wall(x, rows, "time", p, "candidate")
      s(p) == Worst(x, rows, "time", p, "candidate")
  IN  (\A p \in {0, 1} : w(p) < 100) /\ w(0) + w(1) <= 2 * 99 /\ s(0) + s(1) <= 2 * 103

\* paired_log_interval over FivePairTimes: the upper bound stays below 1 while at most one
\* conversation takes 101, and a single metric at 110 lifts its upper bound above 1.03.
FivePairsGain(x, rows, do) ==
  /\ Cardinality({i \in Among(x, rows, do) : rows[i].wall > 100}) <= 1
  /\ \A i \in Among(x, rows, do) : rows[i].worst <= 103

LastOf(x, rows, do) == \A i \in (Len(rows) + 1) .. Len(x.plan) : x.plan[i].do # do
Gain(passed) == IF passed THEN "promising" ELSE NoGain

---------------------------------------------------------------------------
(* screen_cache: state proof with both replacement policies, then two      *)
(* pairs; the first report of a request fixes the tokens of all.           *)

CacheScreen == Conversation(Requires(<<"locality_capture">>) \o Both("validate") \o Pairs("time", 2),
  None, RequestRefuses, {}, TwoPairTimes, {"promising"})

CacheScreenAfter(rows) ==
  LET x == CacheScreen
      do == Here(x, rows).do
      exact == IF do = "validate" THEN PairDone(x, rows) => Equal(rows, Pair(x, rows)) ELSE Equal(rows, Among(x, rows, "time"))
  IN  Recorded(x, rows, exact, IF Finished(x, rows) THEN Gain(TwoPairsGain(x, rows)) ELSE "go")

---------------------------------------------------------------------------
(* screen_residency: core matrices enrolled in a residency set.            *)

ResidencyScreen == Conversation(Requires(<<"slru_screen", "startup_diagnostic">>) \o Pairs("time", 2),
  None, RequestRefuses, {}, TwoPairTimes, {"promising"})
ResidencyConfirm == Conversation(
  Requires(<<"slru_screen", "startup_diagnostic", "residency_screen">>) \o Pairs("time", 5),
  [residency_screen |-> {"promising"}], RequestRefuses, {}, FivePairTimes, {"promising"})

\* The tokens are those of the sealed control of an earlier screen.
ResidencyAfter(x, rows) ==
  Recorded(x, rows, Anchored(rows, Among(x, rows, "time")),
    IF ~Finished(x, rows) THEN "go"
    ELSE Gain(IF x = ResidencyScreen THEN TwoPairsGain(x, rows) ELSE FivePairsGain(x, rows, "time")))

---------------------------------------------------------------------------
(* screen_capacity: correctness, three diagnostic controls, a screen and,  *)
(* when it passes, five confirmation pairs.  The flag                      *)
(* candidate_for_later_qualification is written into the status.           *)

CapacityTrial == Conversation(
  Requires(<<"slru_screen">>) \o Both("validate") \o [g \in 1 .. 3 |-> Step("diagnostic", g, "control")]
    \o Pairs("time", 2) \o Pairs("long", 5),
  None, RequestRefuses, {}, {Cost(90, 95), Cost(101, 95)}, {"completed_candidate"})

CapacityExact(x, rows) ==
  IF Here(x, rows).do = "validate" THEN PairDone(x, rows) => Equal(rows, Pair(x, rows))
  ELSE Anchored(rows, {Len(rows)})

CapacityTrialAfter(rows) ==
  LET x == CapacityTrial
  IN  Recorded(x, rows, CapacityExact(x, rows),
        IF Here(x, rows).do = "time" /\ LastOf(x, rows, "time") /\ ~TwoPairsGain(x, rows) THEN "completed"
        ELSE IF ~Finished(x, rows) THEN "go"
        ELSE IF FivePairsGain(x, rows, "long") THEN "completed_candidate"
        ELSE "completed")

---------------------------------------------------------------------------
(* screen_expert_tail, screen_decode_scratch and screen_route_selection    *)
(* time first and prove the state afterwards, for a promising candidate    *)
(* only.  screen_q8_steady proves it before.                               *)

TailScreen == Conversation(Pairs("time", 2) \o Both("validate"), None, CounterRefuses, {}, TwoPairTimes, {"promising"})
ScratchScreen == Conversation(Pairs("time", 2) \o Both("validate"), None, CounterRefuses, CompressionDisturbs,
                              TwoPairTimes, {"promising"})
RouteScreen == Conversation(<<Step("check", 0, "capture"), Step("operators", 0, "candidate")>>
                              \o Pairs("time", 2) \o Both("validate"),
  None, CounterRefuses, {}, TwoPairTimes, {"promising"})
Q8Screen == Conversation(
  Requires(<<"slru_screen">>) \o <<Step("check", 0, "capture"), Step("operators", 0, "candidate"),
    Step("check", 1, "capture"), Step("operators", 1, "candidate")>> \o Both("validate") \o Pairs("time", 2),
  None, CounterRefuses, {}, TwoPairTimes, {"promising"})

\* decide of the tail and scratch screens: each decode saves time as well.
DecodeSaves(x, rows) == \A p \in {0, 1} : Worst(x, rows, "time", p, "candidate") < 100
TailDecide(x, rows) == Gain(TwoPairsGain(x, rows) /\ DecodeSaves(x, rows))
ScratchDecide(x, rows) ==
  IF TailDecide(x, rows) = "promising" /\ ~Clean(x, rows) THEN "memory_disturbed" ELSE TailDecide(x, rows)

ProvedAfter(x, rows, timedExact, decision) ==
  LET do == Here(x, rows).do
      exact == IF do = "validate" THEN PairDone(x, rows) => Equal(rows, Pair(x, rows)) ELSE timedExact
  IN  Recorded(x, rows, exact,
        IF do = "time" /\ LastOf(x, rows, "time") /\ decision # "promising" THEN decision
        ELSE IF Finished(x, rows) THEN decision
        ELSE "go")

TailAfter(rows) == ProvedAfter(TailScreen, rows, Equal(rows, Among(TailScreen, rows, "time")),
  IF LastOf(TailScreen, rows, "time") THEN TailDecide(TailScreen, rows) ELSE "go")
ScratchScreenAfter(rows) == ProvedAfter(ScratchScreen, rows, Anchored(rows, {Len(rows)}),
  IF LastOf(ScratchScreen, rows, "time") THEN ScratchDecide(ScratchScreen, rows) ELSE "go")

\* The operator screen of the router: every case's median below 90 percent.
RouteAfter(rows) ==
  LET x == RouteScreen
  IN  IF Here(x, rows).do = "operators" /\ ~Invalid(x, rows) /\ Newest(rows).wall >= 90
      THEN "operator_improvement_not_demonstrated"
      ELSE ProvedAfter(x, rows, Equal(rows, Among(x, rows, "time")),
             IF LastOf(x, rows, "time") THEN Gain(TwoPairsGain(x, rows)) ELSE "go")

\* Both operator captures are replayed before the bounds of all are looked at.
Q8ScreenAfter(rows) ==
  LET x == Q8Screen
      slow == \E i \in Among(x, rows, "operators") : rows[i].wall >= 100
  IN  IF Here(x, rows).do = "operators" /\ Here(x, rows).group = 1 /\ ~Invalid(x, rows) /\ slow
      THEN "operator_improvement_not_demonstrated"
      ELSE IF Here(x, rows).do = "validate" THEN Recorded(x, rows, PairDone(x, rows) => Equal(rows, Pair(x, rows)), "go")
      ELSE Recorded(x, rows, Anchored(rows, Among(x, rows, "time")),
             IF Finished(x, rows) THEN Gain(TwoPairsGain(x, rows)) ELSE "go")

---------------------------------------------------------------------------
(* confirm_q8_steady.run: five fresh pairs behind a passing screen, used   *)
(* for the router and the decode workspace too; screen_memory_budget       *)
(* screens 12 against 18 GiB behind the Q8 confirmation.                   *)

Confirmation(screen, refuse, disturb) == Conversation(Requires(<<screen>>) \o Pairs("time", 5),
  [s \in {screen} |-> {"promising"}], refuse, disturb, FivePairTimes, {"promising"})
Q8Confirm == Confirmation("q8_screen", CounterRefuses, {})
RouteConfirm == Confirmation("route_screen", CounterRefuses, {})
ScratchConfirm == Confirmation("scratch_screen", CounterRefuses, CompressionDisturbs)
BudgetScreen == Conversation(Requires(<<"q8_confirm">>) \o Pairs("time", 2),
  [q8_confirm |-> {"promising"}], CounterRefuses, {}, TwoPairTimes, {"promising"})

ScratchConfirmDecide(rows) ==
  LET timed == FivePairsGain(ScratchConfirm, rows, "time")
               /\ \A i \in Among(ScratchConfirm, rows, "time") : rows[i].worst <= 100
  IN  IF timed /\ ~Clean(ScratchConfirm, rows) THEN "memory_disturbed" ELSE Gain(timed)

\* The tokens of a confirmation are those of the screen's first report.
ConfirmAfter(x, rows) ==
  Recorded(x, rows, Anchored(rows, Among(x, rows, "time")),
    IF ~Finished(x, rows) THEN "go"
    ELSE IF x = ScratchConfirm THEN ScratchConfirmDecide(rows)
    ELSE IF x = BudgetScreen THEN Gain(TwoPairsGain(x, rows))
    ELSE Gain(FivePairsGain(x, rows, "time")))

---------------------------------------------------------------------------
(* screen_coalesced, screen_expert_residency and confirm_expert_residency: *)
(* a compressed process is recorded and then stops the comparison.         *)

CoalescedScreen == Staged(Conversation(Pairs("time", 2), None, CounterRefuses, CompressionDisturbs, TwoPairTimes, {"promising"}))
ExpertResidencyScreen == CoalescedScreen
ExpertResidencyState == Staged(Conversation(Requires(<<"expert_residency_screen">>) \o Both("validate"),
  [expert_residency_screen |-> {"promising"}], {}, {}, {}, {"state_qualified"}))
ExpertResidencyConfirm == Staged(Conversation(
  Requires(<<"expert_residency_screen", "expert_residency_state">>) \o Pairs("time", 5),
  [expert_residency_screen |-> {"promising"}, expert_residency_state |-> {"state_qualified"}],
  CounterRefuses, CompressionDisturbs, {Cost(90, 90), Cost(90, 95), Cost(101, 95)},
  {"qualified_short_gain", "gain_below_stage_target"}))

\* screen_coalesced.decide: each decode saves time and the median saves 20 ms a token.
CoalescedDecide(x, rows) ==
  Gain(/\ TwoPairsGain(x, rows) /\ DecodeSaves(x, rows)
       /\ Worst(x, rows, "time", 0, "candidate") + Worst(x, rows, "time", 1, "candidate") <= 2 * 90)

ExpertConfirmDecide(x, rows) ==
  LET gain == FivePairsGain(x, rows, "time")
      atTarget == Cardinality({g \in 0 .. 4 : Worst(x, rows, "time", g, "candidate") <= 90}) >= 3
  IN  IF gain /\ atTarget THEN "qualified_short_gain"
      ELSE IF gain THEN "gain_below_stage_target"
      ELSE NoGain

\* validate_state looks at both reports once they are in: checks, configuration, build
\* and workspace, but not at the footprint.
ExpertStateProved(rows, S) == Equal(rows, S) /\ \A i \in S : rows[i].cond \notin {"partial", "foreign", "miscounted"}
ExpertStateAfter(rows) ==
  LET x == ExpertResidencyState
  IN  Recorded(x, rows, Finished(x, rows) => ExpertStateProved(rows, Among(x, rows, "validate")),
               Onward(x, rows, "state_qualified"))

ResidentAfter(x, rows) ==
  ProofFirst(x, rows, Anchored(rows, Among(x, rows, "time")),
    IF ~Finished(x, rows) THEN "go"
    ELSE IF x = ExpertResidencyConfirm THEN ExpertConfirmDecide(x, rows)
    ELSE CoalescedDecide(x, rows))

---------------------------------------------------------------------------
(* stage200: capacity under pressure, the pressure policy itself, a traced *)
(* profile and the three-bit probe.                                        *)

StageCapacity == Staged(Conversation(Pairs("time", 2), None, RequestRefuses, CompressionDisturbs,
  Plain({102, 105, 110}), {"provisional_control", "provisional_candidate"}))
StagePressure == Staged(Conversation(Pairs("time", 2), None, RequestRefuses, {}, Plain({90, 110}), {"observed"}))
StageProfile == Staged(Conversation(Both("diagnostic"), None, RequestRefuses, {}, {}, {"captured"}))
StageQ3 == Staged(Conversation(
  <<Step("check", 0, "capture"), Step("validate", 0, "tuning"), Step("time", 0, "tuning"),
    Step("check", 1, "capture"), Step("validate", 1, "heldout"), Step("time", 1, "heldout")>>,
  None, {"partial"}, CompressionDisturbs, {Cost(102, 103), Cost(102, 105), Cost(105, 110)}, {"worth_quality_investigation"}))

\* capacity_decision: the larger cache stays while it is clean; the smaller one replaces
\* it only when clean itself and at most five percent slower.
StageCapacityDecide(rows) ==
  LET x == StageCapacity
      cleanArm(arm) == \A i \in Among(x, rows, "time") : x.plan[i].arm = arm => rows[i].cond \notin x.disturb
      median == Wall(x, rows, "time", 0, "candidate") + Wall(x, rows, "time", 1, "candidate")
  IN  IF cleanArm("control") THEN "provisional_control"
      ELSE IF cleanArm("candidate") /\ median <= 2 * 105 THEN "provisional_candidate"
      ELSE "unresolved_pressure"

\* The candidate shrinks its cache under pressure: a ratio of 90 stands for a run in
\* which some event lowered the slot count.
StagePressureDecide(rows) ==
  IF \E p \in {0, 1} : Wall(StagePressure, rows, "time", p, "candidate") < 100 THEN "observed" ELSE "not_exercised"

\* q3_decision: the interval of the pair ratios against 1.03 (wall its lower, worst its upper end).
StageQ3Decide(row) ==
  IF row.cond \in StageQ3.disturb THEN "memory_disturbed"
  ELSE IF row.worst <= 103 THEN "worth_quality_investigation"
  ELSE IF row.wall > 103 THEN "operator_regression"
  ELSE "operator_latency_inconclusive"

\* Every report of the probe is complete, a timed one exact on every case; its build and
\* its footprint are not looked at.
StageQ3After(rows) ==
  LET x == StageQ3
      decision == StageQ3Decide(Newest(rows))
  IN  Recorded(x, rows, Here(x, rows).do = "time" => Newest(rows).out = "same",
        IF Here(x, rows).do # "time" THEN "go"
        ELSE IF decision # "worth_quality_investigation" \/ Finished(x, rows) THEN decision
        ELSE "go")

StageAfter(x, rows) ==
  LET expected == IF x = StageProfile THEN Equal(rows, DOMAIN rows) ELSE Anchored(rows, DOMAIN rows)
  IN  Recorded(x, rows, expected,
        IF ~Finished(x, rows) THEN "go"
        ELSE IF x = StageCapacity THEN StageCapacityDecide(rows)
        ELSE IF x = StagePressure THEN StagePressureDecide(rows)
        ELSE "captured")

=============================================================================
