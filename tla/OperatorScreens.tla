-------------------------- MODULE OperatorScreens --------------------------
(***************************************************************************)
(* The screens of single operators on captured inputs.  A probe runs once  *)
(* under API validation and once for timing; the five alternating pairs    *)
(* are taken inside the timing process, so one row holds the interval of   *)
(* their ratios: wall is its upper bound (for the packed Q4 kernel the     *)
(* larger of the GPU and wall bounds) and worst the projected saving, 90   *)
(* standing for the declared minimum (20 ms a token, 10 for a verifier).   *)
(* out compares the candidate with the reference kernel on every case.     *)
(***************************************************************************)
EXTENDS Samples

OperatorRefuses == {"partial", "foreign", "miscounted", "overBudget"}
MemoryDisturbs == {"compressed", "swapped"}
OperatorTimes == {Cost(95, 90), Cost(95, 95), Cost(101, 90)}

Operator(plan, needs, refuse, disturb, positive) ==
  [plan |-> plan, needs |-> needs, refuse |-> refuse, disturb |-> disturb, times |-> OperatorTimes,
   positive |-> positive, own |-> FALSE]
Probe == <<Step("validate", 0, "probe"), Step("time", 0, "probe")>>

\* analyze: the declared saving and an interval below one.
Material(row) == row.wall < 100 /\ row.worst <= 90

---------------------------------------------------------------------------
(* screen_submission, screen_hyper_fusion, screen_q8_lookahead and         *)
(* screen_q4_packed look at the two reports together, after both processes *)
(* have ended, and decide about disturbed memory in analyze.               *)

SubmissionScreen == [Operator(<<Step("test", 0, "tests")>> \o Probe, None, {}, {"compressed"}, {"worth_request_screen"})
                     EXCEPT !.own = TRUE]
HyperFusion == Operator(Requires(<<"hyper_fixtures">>) \o Probe, None, {}, MemoryDisturbs, {"worth_request_screen"})
Q8Lookahead == Operator(Requires(<<"mixed_weights">>) \o Probe, None, {}, MemoryDisturbs, {"worth_request_screen"})
Q4Packed == Operator(Requires(<<"dependency_profile", "q4_records">>) \o Probe, None, {}, MemoryDisturbs, {"worth_request_screen"})

\* The memory of the validating process is not looked at.
ProbeDecide(x, rows) ==
  IF Newest(rows).cond \in x.disturb THEN "memory_disturbed"
  ELSE IF Material(Newest(rows)) THEN "worth_request_screen"
  ELSE "insufficient_benefit"

\* What makes the reports invalid.  The submission screen compares their build with its
\* own, the hyper-connection screen their shaders, and it alone has counts and the
\* footprint of the timing process; the others compare shaders between the two only.
ProbeRefuses(x, step) ==
  {"partial"} \cup (IF x \in {SubmissionScreen, HyperFusion} THEN {"foreign"} ELSE {})
    \cup (IF x = HyperFusion THEN {"miscounted"} \cup (IF step.do = "time" THEN {"overBudget"} ELSE {}) ELSE {})

\* A probe that finds a difference between the kernels does not report as complete.
ProbeValid(x, rows) ==
  LET probed == Among(x, rows, "validate") \cup Among(x, rows, "time")
  IN  /\ \A i \in probed : rows[i].cond \notin ProbeRefuses(x, x.plan[i])
      /\ SameSource(rows, probed) /\ Anchored(rows, probed)

ProbeAfter(x, rows) ==
  IF ~Finished(x, rows) THEN "go" ELSE IF ~ProbeValid(x, rows) THEN "failed" ELSE ProbeDecide(x, rows)

\* audit of the hyper-connection screen: only a complete report passes.
HyperFusionAudit(d) ==
  d.complete => /\ d.status = ProbeDecide(HyperFusion, d.rows)
                /\ Anchored(d.rows, Among(HyperFusion, d.rows, "validate") \cup Among(HyperFusion, d.rows, "time"))

---------------------------------------------------------------------------
(* screen_block_gdn, screen_q8_block_packed and screen_q8_expanded analyze *)
(* each report as it arrives and stop at the first disturbed process.      *)

VerifierOperator(plan, needs, positive) ==
  Operator(plan, needs, OperatorRefuses, MemoryDisturbs \cup {"hot"}, positive)
BlockGdn == VerifierOperator(Requires(<<"gdn_profile">>) \o <<Step("native", 0, "capture")>> \o Requires(<<"gdn_weights">>) \o Probe,
  None, {"worth_verifier_screen"})
Q8BlockPacked == VerifierOperator(Requires(<<"gdn_tensors">>) \o Probe, None, {"worth_verifier_screen"})
Q8ExpandedCapture == VerifierOperator(<<Step("native", 0, "capture")>>, None, {"captured"})
Q8Expanded == VerifierOperator(Requires(<<"q8_expanded_capture">>) \o Probe,
  [q8_expanded_capture |-> {"captured", "resource_blocked"}], {"worth_verifier_screen"})

\* source_proof of the expanded screen: the bytes and the exactness of a capture whose
\* own process was disturbed are good enough; its timing and memory are not used.
ExpandedSource(rows) == Len(rows) = 1 /\ Anchored(rows, {1})

VerifierOperatorAfter(x, rows) ==
  ProofFirst(x, rows, Anchored(rows, {Len(rows)}),
    IF ~Finished(x, rows) THEN "go"
    ELSE IF x = Q8ExpandedCapture THEN "captured"
    ELSE IF Material(Newest(rows)) THEN "worth_verifier_screen"
    ELSE "insufficient_isolated_benefit")

\* The three auditors: every recorded process exact, those of a complete report clean,
\* the status that of the timing.
VerifierOperatorAudit(x, d) ==
  /\ Anchored(d.rows, DOMAIN d.rows)
  /\ Audited(d, IF Finished(x, d.rows) /\ Clean(x, d.rows) THEN VerifierOperatorAfter(x, d.rows) ELSE "unfinished")

=============================================================================
