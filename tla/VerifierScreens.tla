-------------------------- MODULE VerifierScreens --------------------------
(***************************************************************************)
(* The screens of the verifier's horizon, of draft widths and of streamed  *)
(* embedding rows.  Two things set them apart from the other screens: a    *)
(* numerical diagnostic tolerates a bounded compression that a timing      *)
(* never does, and a validation may take rows of an earlier attempt that   *)
(* it checks again.                                                        *)
(***************************************************************************)
EXTENDS MtpScreens

\* screen_horizon_early.diagnostic_resources: host undisturbed, swap unchanged.
Tolerated(cond) == cond \notin {"swapped", "hot"}

---------------------------------------------------------------------------
(* screen_verifier_horizon: known tokens, 4 rows against 8.  wall is the   *)
(* ratio of the pair; worst the candidate's time against 6.5 verified      *)
(* tokens a second, scaled so that the limit is 85 too.                    *)

HorizonTimes == {Cost(80, 80), Cost(80, 90), Cost(90, 90)}
HorizonPlan == <<Step("native", 0, "kernel")>> \o Arms("validate", 0, <<"serial", "wide4", "wide8">>)
                 \o Arms("time", 0, <<"wide4", "wide8">>) \o Arms("time", 1, <<"wide8", "wide4">>)
HorizonScreen == MtpStage(Requires(<<"clean_reference">>) \o HorizonPlan, None, HorizonTimes, {"promising_verifier_ceiling"})
StreamedHorizon == MtpStage(Requires(<<"clean_reference">>) \o <<Step("native", 0, "embedding")>> \o HorizonPlan,
  None, HorizonTimes, {"promising_verifier_ceiling"})

Headroom(x, rows, group) ==
  Wall(x, rows, "time", group, "wide8") <= 85 /\ Worst(x, rows, "time", group, "wide8") <= 85

HorizonDecide(x, rows) ==
  IF ~PairDone(x, rows) THEN "go"
  ELSE IF Here(x, rows).group = 0 THEN (IF Headroom(x, rows, 0) THEN "go" ELSE "insufficient_verifier_headroom")
  ELSE IF Headroom(x, rows, 1) THEN "promising_verifier_ceiling"
  ELSE "unconfirmed_verifier_headroom"

\* validate checks tokens and logits against the reference before the row is kept;
\* compare looks at boundaries, caches and counters once there are two to compare.
HorizonAfter(x, rows) ==
  LET do == Here(x, rows).do
      compared == (do = "validate" /\ Here(x, rows).arm # "serial") \/ (do = "time" /\ PairDone(x, rows))
  IN  IF ~Anchored(rows, {Len(rows)}) THEN "failed"
      ELSE CleanFirst(x, rows, compared => Accounted(rows, Pair(x, rows)),
             IF do = "time" THEN HorizonDecide(x, rows) ELSE "go")

---------------------------------------------------------------------------
(* screen_horizon_early: behind a blocked streamed attempt, its serial     *)
(* validation taken as numerical reference.                                *)

HorizonEarly == MtpStage(
  Requires(<<"streamed_horizon">>) \o <<Step("native", 0, "kernel"), Step("validate", 0, "wide8")>>
    \o Arms("time", 0, <<"wide4", "wide8">>),
  [streamed_horizon |-> {"resource_blocked"}], HorizonTimes, {"promising_preliminary_ceiling"})

HorizonSource(rows) ==
  /\ Len(rows) >= 4
  /\ \A i \in {2, 3} : rows[i].cond \notin MtpDisturbs
  /\ Tolerated(rows[4].cond) /\ Anchored(rows, {4})

HorizonEarlyAfter(rows) ==
  LET x == HorizonEarly
      do == Here(x, rows).do
      row == Newest(rows)
  IN  IF Invalid(x, rows) \/ row.out # "same" THEN "failed"
      ELSE IF do = "validate" THEN (IF Tolerated(row.cond) /\ row.cond # "miscounted" THEN "go" ELSE "failed")
      ELSE IF Disturbed(x, rows) THEN "resource_blocked"
      ELSE IF ~Finished(x, rows) THEN "go"
      ELSE IF ~Accounted(rows, Pair(x, rows)) THEN "failed"
      ELSE IF Headroom(x, rows, 0) THEN "promising_preliminary_ceiling"
      ELSE "insufficient_verifier_headroom"

---------------------------------------------------------------------------
(* screen_recovery_early: two pairs behind a numerical diagnostic pair.    *)

RecoveryEarly == MtpStage(
  Requires(<<"recovery_fixture", "diagnostic_pair">>) \o Alternating("time", 2, "off", "on"),
  [recovery_fixture |-> {"fixture_validated"}], Plain({90, 95, 99, 101}), {"promising_early_screen"})

RecoveryEarlyAfter(rows) ==
  LET x == RecoveryEarly
      paired == Here(x, rows).do = "time" /\ PairDone(x, rows)
  IN  CleanFirst(x, rows, paired => ScratchCompare(x, rows),
        IF paired /\ ~ShortGate(x, rows) THEN "insufficient_early_gain" ELSE Onward(x, rows, "promising_early_screen"))

---------------------------------------------------------------------------
(* screen_mtp_widths: every forced prefix of widths 1, 2 and 4 and an      *)
(* immediate end of text, each against width 1, which is itself held to an *)
(* independent oracle; then two pairs of width 4 and a narrower one.       *)

WidthValidate == MtpStage(
  Requires(<<"oracle">>) \o Arms("validate", 0, <<"w1", "w2k1", "w2k2", "w4k1", "w4k2", "w4k3", "w4k4">>)
    \o Arms("validate", 1, <<"w1", "w2", "w4">>),
  None, {}, {"numerically_exact"})
WidthDiagnostic == WidthValidate
WidthScreen == MtpStage(Requires(<<"width_diagnostic">>) \o Alternating("time", 2, "four", "narrow"),
  [width_diagnostic |-> {"numerically_exact"}], Plain({95, 97, 99, 100}), {"promising_early_screen"})

WidthValidateAfter(x, rows, diagnostic) ==
  LET row == Newest(rows)
      compared == Here(x, rows).do = "validate"
  IN  IF Invalid(x, rows) THEN "failed"
      ELSE IF compared /\ Here(x, rows).arm = "w1" /\ row.out # "same" THEN "failed"
      ELSE IF compared /\ ~ScratchCompare(x, rows) THEN "failed"
      ELSE IF row.cond \in {"hot", "swapped"} \/ (row.cond = "compressed" /\ ~diagnostic) THEN "resource_blocked"
      ELSE Onward(x, rows, "numerically_exact")

\* reusable_validation and reusable_samples: a recorded row of an earlier attempt,
\* whatever the attempt came to, as long as its process was undisturbed.
ReusableRow(rows, i, diagnostic) ==
  i \in DOMAIN rows /\ (rows[i].cond \notin MtpDisturbs \/ (diagnostic /\ Tolerated(rows[i].cond)))

WidthRejected(x, rows) ==
  LET r(p) == Wall(x, rows, "time", p, "narrow")
  IN  \/ r(0) > 97
      \/ Here(x, rows).group = 1 /\ (r(1) >= 100 \/ r(0) * r(1) > 97 * 97)

WidthScreenAfter(rows) ==
  LET x == WidthScreen
      paired == Here(x, rows).do = "time" /\ PairDone(x, rows)
  IN  CleanFirst(x, rows, paired => ScratchCompare(x, rows),
        IF paired /\ WidthRejected(x, rows) THEN "insufficient_early_gain" ELSE Onward(x, rows, "promising_early_screen"))

---------------------------------------------------------------------------
(* screen_streamed_mtp: resident against streamed embedding rows, at width *)
(* 4 (pairs 0 and 1) and width 1 (pairs 2 and 3).  A first pair that costs *)
(* more than ten percent ends its width; the other width is still run.     *)

StreamedCases == [k \in 1 .. 12 |-> Step("validate", (k - 1) \div 2, IF k % 2 = 1 THEN "resident" ELSE "rows")]
StreamedFixture == MtpStage(<<Step("native", 0, "embedding")>>, None, {}, {"embedding_fixture_exact"})
StreamedValidate == MtpStage(<<Step("native", 0, "embedding")>> \o StreamedCases, None, {}, {"numerically_exact"})
StreamedDiagnostic == MtpStage(Requires(<<"streamed_validate">>) \o StreamedCases,
  [streamed_validate |-> {"resource_blocked"}], {}, {"numerically_exact"})
StreamedScreen == MtpStage(Requires(<<"streamed_validate">>) \o Alternating("time", 4, "resident", "rows"),
  [streamed_validate |-> {"numerically_exact"}], Plain({105, 110, 115}), {"storage_cost_measured"})
StreamedPreliminary == [StreamedScreen EXCEPT !.plan[1] = Step("require", 0, "streamed_diagnostic"),
                                              !.needs = [streamed_diagnostic |-> {"numerically_exact"}]]

\* The parent of a diagnostic: its operator check was clean, its first sample is usable.
DiagnosticSource(rows) ==
  Len(rows) >= 2 /\ rows[1].cond \notin MtpDisturbs /\ rows[2].cond # "miscounted" /\ Tolerated(rows[2].cond)

\* prerequisite: all twelve samples are observed and compared again.
StreamedProof(rows, preliminary) ==
  /\ Len(rows) = 13
  /\ \A i \in 2 .. 13 : rows[i].cond \notin MtpDisturbs \/ (preliminary /\ Tolerated(rows[i].cond))

StreamedFixtureAfter(rows) == ProofFirst(StreamedFixture, rows, Anchored(rows, {1}), "embedding_fixture_exact")

StreamedValidateAfter(x, rows, diagnostic) ==
  LET row == Newest(rows)
      paired == Here(x, rows).do = "validate" /\ PairDone(x, rows)
  IN  IF Invalid(x, rows) THEN "failed"
      ELSE IF Here(x, rows).do = "native" /\ row.out # "same" THEN "failed"
      ELSE IF Disturbed(x, rows) /\ ~(diagnostic /\ Tolerated(row.cond)) THEN "resource_blocked"
      ELSE IF paired /\ ~(ScratchCompare(x, rows) /\ Anchored(rows, Pair(x, rows))) THEN "failed"
      ELSE Onward(x, rows, "numerically_exact")

StreamedScreenAfter(x, rows) ==
  LET paired == Here(x, rows).do = "time" /\ PairDone(x, rows)
      costly == \E i \in Among(x, rows, "time") : rows[i].cond # "skipped" /\ rows[i].wall > 110
  IN  CleanFirst(x, rows, paired => ScratchCompare(x, rows),
        Onward(x, rows, IF costly THEN "early_cost_regression" ELSE "storage_cost_measured"))

\* The break: the second pair of a width is left out after a costly first one.
StreamedSkips(x, rows) ==
  LET next == x.plan[Len(rows) + 1]
  IN  /\ next.do = "time" /\ next.group \in {1, 3}
      /\ Wall(x, rows, "time", next.group - 1, "rows") > 110

=============================================================================
