----------------------------- MODULE Q4Screens -----------------------------
(***************************************************************************)
(* The packed Q4 decode kernel: its state proof, the factorial request     *)
(* screen, the native replays and the diagnostics behind them, and the     *)
(* auditors that rebuild a sealed report from its raw rows.                *)
(***************************************************************************)
EXTENDS OperatorScreens

---------------------------------------------------------------------------
(* combined_q4: mode state proves A (reference) against B (packed) on all  *)
(* layers; mode screen runs reference and packed kernels at two cache      *)
(* capacities, A B C D and back.  Times are against A of the same round:   *)
(* wall the conversation, worst the decode.                                *)

CombinedState == Operator(Requires(<<"q4_records">>) \o <<Step("test", 0, "tests"), Step("operators", 0, "packed")>> \o Arms("validate", 0, <<"A", "B">>),
  None, {}, {}, {"state_qualified"})
CombinedScreen == [Operator(Requires(<<"combined_state">>) \o Arms("time", 0, <<"A", "B", "C", "D">>) \o Arms("time", 1, <<"D", "C", "B", "A">>),
  [combined_state |-> {"state_qualified"}], OperatorRefuses, MemoryDisturbs, {"promising"})
  EXCEPT !.times = {Cost(97, 90), Cost(99, 105), Cost(101, 90)}]

\* validate_operators follows its process, whose footprint it does not look at;
\* validate_state follows both arms.
CombinedStateAfter(rows) ==
  LET x == CombinedState
      refused(S) == \E i \in S : rows[i].cond \in OperatorRefuses \cap Looks(x.plan[i])
      proof == Among(x, rows, "validate")
      exact == Here(x, rows).do = "operators" => Anchored(rows, {Len(rows)})
  IN  IF Here(x, rows).do # "validate"
      THEN IF refused({Len(rows)}) \/ ~exact THEN "failed" ELSE "go"
      ELSE IF ~Finished(x, rows) THEN "go"
      ELSE IF refused(proof) \/ ~Equal(rows, proof) THEN "failed"
      ELSE "state_qualified"

\* decide: a material gain of D over A in decode and conversation, and a kernel gain
\* at each capacity (medians over the two rounds).
CombinedDecide(rows) ==
  LET x == CombinedScreen
      w(p, arm) == Wall(x, rows, "time", p, arm)
      s(p, arm) == Worst(x, rows, "time", p, arm)
      kernel == /\ s(0, "B") + s(1, "B") < 2 * 100
                /\ s(0, "D") * s(1, "C") + s(1, "D") * s(0, "C") < 2 * s(0, "C") * s(1, "C")
      gain == (\A p \in {0, 1} : w(p, "D") < 100) /\ w(0, "D") + w(1, "D") <= 2 * 99
  IN  IF ~Clean(x, rows) THEN "memory_disturbed"
      ELSE IF s(0, "D") + s(1, "D") <= 2 * 90 /\ gain /\ kernel THEN "promising"
      ELSE "screen_gate_not_met"

\* observe: the first report fixes tokens and normalised dispatches of all.
CombinedScreenAfter(rows) ==
  ProofFirst(CombinedScreen, rows, Equal(rows, Among(CombinedScreen, rows, "time")),
    IF Finished(CombinedScreen, rows) THEN CombinedDecide(rows) ELSE "go")

\* verify: the recorded requests of a screen agree, a complete report repeats the decision.
CombinedAudit(x, d) ==
  /\ Equal(d.rows, Among(x, d.rows, "time"))
  /\ Audited(d, IF Len(d.rows) # Len(x.plan) THEN "unfinished"
                ELSE IF x = CombinedState THEN CombinedStateAfter(d.rows)
                ELSE CombinedDecide(d.rows))

---------------------------------------------------------------------------
(* native_q4_replay: operators under validation, then one timing process;  *)
(* a disturbed one still completes, with a status that says so.            *)

\* observations_clean: an exceeded budget is unclean memory, not an invalid report.
ReplayRefuses == OperatorRefuses \ {"overBudget"}
ReplayDisturbs == MemoryDisturbs \cup {"hot", "overBudget"}
NativeReplay == [Operator(Requires(<<"combined_state", "q4_records">>) \o <<Step("operators", 0, "packed"), Step("time", 0, "probe")>>,
  [combined_state |-> {"state_qualified"}], ReplayRefuses, ReplayDisturbs, {"diagnostic_gain"}) EXCEPT !.times = Plain({95, 101})]

ReplayDecide(row) ==
  IF row.cond \in ReplayDisturbs THEN "disturbed"
  ELSE IF row.wall < 100 THEN "diagnostic_gain"
  ELSE "no_clear_native_gain"

NativeReplayAfter(rows) ==
  Recorded(NativeReplay, rows, Anchored(rows, {Len(rows)}),
    IF Finished(NativeReplay, rows) THEN ReplayDecide(Newest(rows)) ELSE "go")

NativeReplayAudit(d) == Audited(d, IF Len(d.rows) = Len(NativeReplay.plan) THEN ReplayDecide(Newest(d.rows)) ELSE "unfinished")

---------------------------------------------------------------------------
(* q4_read_arrivals, q4_shared_arrivals and q4_scratch_lifetime: check,    *)
(* timing and trace in processes of their own, behind the state proof and  *)
(* the all-hit control, which may have been disturbed.  worst is the share *)
(* of the application's bytes the device was seen to read.                 *)

ArrivalNeeds == [combined_state |-> {"state_qualified"},
                 native_replay |-> {"diagnostic_gain", "no_clear_native_gain", "disturbed"}]
ReadArrivals == [Operator(
  Requires(<<"combined_state", "native_replay", "q4_records">>)
    \o <<Step("validate", 0, "check"), Step("time", 0, "probe"), Step("native", 0, "trace")>>,
  ArrivalNeeds, ReplayRefuses, ReplayDisturbs, {"diagnostic_gain"})
  EXCEPT !.times = {Cost(95, 95), Cost(101, 95), Cost(95, 115)}]
SharedArrivals == [ReadArrivals EXCEPT !.plan = Requires(<<"shared_reference">>) \o @]
ScratchLifetime == SharedArrivals

\* The status of the timing process: coverage of the device reads (invalidated
\* ranges) comes before the gain.
ArrivalStatus(x, rows) ==
  LET row == The(x, rows, Step("time", 0, "probe"))
  IN  IF row.worst > 110 THEN "unqualified_storage"
      ELSE IF row.wall < 100 THEN "diagnostic_gain"
      ELSE "no_clear_arrival_gain"

\* The output hash of the replay is a constant of the script; the shared outputs
\* are compared between the processes once all three are in.
ArrivalsAfter(x, rows) ==
  LET modes == {i \in DOMAIN rows : x.plan[i].do # "require"}
  IN  ProofFirst(x, rows, IF x = ReadArrivals THEN Anchored(rows, {Len(rows)}) ELSE Finished(x, rows) => Equal(rows, modes),
        IF Finished(x, rows) THEN ArrivalStatus(x, rows) ELSE "go")

ArrivalsDecision(x, d) ==
  IF Len(d.rows) = Len(x.plan) /\ Clean(x, d.rows) THEN ArrivalStatus(x, d.rows) ELSE "unfinished"
ArrivalsAudit(d) == Audited(d, ArrivalsDecision(ReadArrivals, d))
SharedAudit(d) ==
  Audited(d, ArrivalsDecision(SharedArrivals, d)) /\ (d.complete => Equal(d.rows, 5 .. Len(d.rows)))
LifetimeAudit(d) == SharedAudit(d)

---------------------------------------------------------------------------
(* q4_validation_memory: does API validation dirty the process?  off, on,  *)
(* on, off; a dirty process is what it looks for.  wall numbers the phase  *)
(* in which an observed process first became dirty.                        *)

ValidationMemory == [Operator(
  Requires(<<"combined_state", "native_replay", "q4_records">>)
    \o [i \in 1 .. 4 |-> Step("memory", i, IF i \in {2, 3} THEN "on" ELSE "off")],
  ArrivalNeeds, OperatorRefuses \cup {"swapped", "hot"}, {"compressed"}, {"validation_memory_association"})
  EXCEPT !.times = Plain({1, 2})]

MemoryDecision(rows) ==
  LET x == ValidationMemory
      row(i) == The(x, rows, Step("memory", i, IF i \in {2, 3} THEN "on" ELSE "off"))
      dirty(i) == row(i).cond \in x.disturb
  IN  IF ~Equal(rows, Among(x, rows, "memory")) THEN "failed"
      ELSE IF ~dirty(1) /\ ~dirty(4) /\ dirty(2) /\ dirty(3) /\ row(2).wall = row(3).wall THEN "validation_memory_association"
      ELSE "memory_captured"

ValidationMemoryAfter(rows) ==
  Recorded(ValidationMemory, rows, TRUE, IF Finished(ValidationMemory, rows) THEN MemoryDecision(rows) ELSE "go")
ValidationMemoryAudit(d) ==
  Audited(d, IF Len(d.rows) = Len(ValidationMemory.plan) THEN MemoryDecision(d.rows) ELSE "unfinished")

---------------------------------------------------------------------------
(* q4_request_context: one normal pair; only a slower packed arm is traced.*)

RequestContext == [Operator(
  Requires(<<"combined_state">>) \o Arms("time", 0, <<"A", "B">>) \o Arms("diagnostic", 0, <<"B", "A">>),
  [combined_state |-> {"state_qualified"}], OperatorRefuses, MemoryDisturbs, {"context_captured"}) EXCEPT !.times = Plain({95, 101})]

\* normal_decision and finish: nothing is traced unless the pair is slower.
TraceTriggered(rows) == Wall(RequestContext, rows, "time", 0, "B") > 100
ContextFinish(rows) ==
  IF Len(rows) < 3 THEN "go"
  ELSE IF ~TraceTriggered(rows) THEN (IF Len(rows) = 3 THEN "slowdown_not_reproduced" ELSE "failed")
  ELSE IF Len(rows) = 5 THEN "context_captured"
  ELSE "go"

\* Mutant: the pair is traced whatever the normal pair showed.
RequestContextTraces(rows) ==
  ProofFirst(RequestContext, rows, Equal(rows, DOMAIN rows \ {1}), IF Len(rows) = 5 THEN "context_captured" ELSE "go")

RequestContextAfter(rows) ==
  ProofFirst(RequestContext, rows, Equal(rows, DOMAIN rows \ {1}), ContextFinish(rows))

\* verify: the recorded requests agree, and a traced one stands behind a slower pair.
RequestContextAudit(d) ==
  /\ Equal(d.rows, DOMAIN d.rows \ {1}) /\ (Len(d.rows) > 3 => TraceTriggered(d.rows))
  /\ Audited(d, ContextFinish(d.rows)) /\ (d.complete => Clean(RequestContext, d.rows))

=============================================================================
