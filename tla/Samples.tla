------------------------------ MODULE Samples ------------------------------
(***************************************************************************)
(* What every measurement script of scripts/qwen shares: a plan of steps   *)
(* made before the first process starts, one row of evidence per finished  *)
(* step, and rules that look at the rows so far.  A script is a record     *)
(*                                                                         *)
(*   plan     the sequence of steps, in the order the script runs them     *)
(*   needs    earlier stages it requires, as a function from the stage's   *)
(*            name to the statuses its report may have                     *)
(*   refuse   conditions of a native report that its validator raises on   *)
(*   disturb  conditions it records as unclean memory or host              *)
(*            (both as far as the kind of the step has it look at them)    *)
(*   times    what a measured candidate may cost                           *)
(*   positive the statuses that recommend the candidate                    *)
(*   own      the script drives its own evidence directory; the others use *)
(*            the Experiment class of stage200                             *)
(*                                                                         *)
(* with an operator After(rows) that says what the script does once the    *)
(* last row is in: "go" to the next step, stop with an error status, or    *)
(* complete with the status it returns.  A row is a native report reduced  *)
(* to what the rules tell apart: the outputs it computed, the condition it *)
(* was taken under and, for a timed candidate, its time in percent of the  *)
(* control of its pair (wall) and the worst ratio among its secondary      *)
(* metrics (worst).  A control takes 100 by definition.                    *)
(***************************************************************************)
EXTENDS Integers, Sequences, FiniteSets, FiniteSetsExt

\* Conditions of a native report.  "partial" stands for incomplete coverage or a flag
\* that is not set; "foreign" for another configuration, workload or build;
\* "miscounted" for native counters that do not fit the arm; the last four for what
\* the process and the host went through while it ran.
Conditions == {"good", "partial", "foreign", "miscounted", "overBudget", "compressed", "swapped", "hot"}
Outputs == {"same", "other"}
Errors == {"failed", "resource_blocked", "time_budget_exhausted", "interrupted"}

Cost(wall, worst) == [wall |-> wall, worst |-> worst]
Par == Cost(100, 100)
Plain(walls) == {Cost(w, w) : w \in walls}
None == [n \in {} |-> ""]

Step(do, group, arm) == [do |-> do, group |-> group, arm |-> arm]
Requires(names) == [i \in 1 .. Len(names) |-> Step("require", 0, names[i])]
Arms(do, group, arms) == [i \in 1 .. Len(arms) |-> Step(do, group, arms[i])]

\* Fresh pairs of processes; the order of the arms flips from pair to pair, so that
\* a drift of the host does not favour one of them.
Paired(do, flips, control, candidate) ==
  [k \in 1 .. 2 * Len(flips) |->
     LET g == (k - 1) \div 2
     IN  Step(do, g, IF (k % 2 = 1) = flips[g + 1] THEN candidate ELSE control)]
Alternating(do, pairs, control, candidate) ==
  Paired(do, [g \in 1 .. pairs |-> g % 2 = 0], control, candidate)

\* What a script looks at in the report of a step, by the kind of the step: of a self
\* test its exit status; of a check (a capture, or a fixture or reference that says
\* whether it passed) its results; of an operator screen its build and counters too; of
\* a process whose results another one judges the process alone; else all.  Only the
\* last two kinds have the memory of the process and the host looked at.
Looks(step) ==
  CASE step.do = "test" -> {}
    [] step.do = "check" -> {"partial"}
    [] step.do = "operators" -> {"partial", "foreign", "miscounted"}
    [] step.do = "process" -> {"overBudget", "compressed", "swapped", "hot"}
    [] OTHER -> Conditions

\* What a script does next once a row is in and nothing stopped it.
Onward(x, rows, status) == IF Len(rows) = Len(x.plan) THEN status ELSE "go"
Finished(x, rows) == Len(rows) = Len(x.plan)
Here(x, rows) == x.plan[Len(rows)]
Newest(rows) == rows[Len(rows)]
Has(x, rows, step) == \E i \in 1 .. Len(rows) : x.plan[i] = step
The(x, rows, step) == rows[CHOOSE i \in 1 .. Len(rows) : x.plan[i] = step]
Among(x, rows, do) == {i \in 1 .. Len(rows) : x.plan[i].do = do}
Wall(x, rows, do, group, arm) == The(x, rows, Step(do, group, arm)).wall
Worst(x, rows, do, group, arm) == The(x, rows, Step(do, group, arm)).worst

\* The newest report is one its validator raises on, one of a disturbed process.
Invalid(x, rows) == Newest(rows).cond \in x.refuse \cap Looks(Here(x, rows))
Disturbed(x, rows) == Newest(rows).cond \in x.disturb \cap Looks(Here(x, rows))

Equal(rows, S) == \A i, j \in S : rows[i].out = rows[j].out
Anchored(rows, S) == \A i \in S : rows[i].out = "same"
Clean(x, rows) == \A i \in 1 .. Len(rows) : rows[i].cond \notin x.disturb \cap Looks(x.plan[i])

\* Reports that agree in what they name as their input, build and configuration, which
\* nobody compares with the script's own.
SameSource(rows, S) == \A i, j \in S : (rows[i].cond = "foreign") = (rows[j].cond = "foreign")

\* The rows of the pair the newest row belongs to.
Pair(x, rows) == {i \in 1 .. Len(rows) : /\ x.plan[i].do = Here(x, rows).do
                                         /\ x.plan[i].group = Here(x, rows).group}
PairDone(x, rows) == \A i \in 1 .. Len(x.plan) :
  (x.plan[i].do = Here(x, rows).do /\ x.plan[i].group = Here(x, rows).group) => i <= Len(rows)

\* Natural logarithm of a ratio given in percent, in thousandths; a geometric mean
\* is at most c when the logarithms sum to at most as many times Log(c).
Log(percent) ==
  CASE percent = 80 -> -223 [] percent = 90 -> -105 [] percent = 95 -> -51 [] percent = 96 -> -41
    [] percent = 97 -> -30  [] percent = 98 -> -20  [] percent = 99 -> -10 [] percent = 100 -> 0
    [] percent = 101 -> 10  [] percent = 102 -> 20  [] percent = 103 -> 30 [] percent = 105 -> 49
    [] percent = 110 -> 95
GeoMeanAtMost(x, rows, S, limit) ==
  MapThenSumSet(LAMBDA i : Log(rows[i].wall), S) <= Cardinality(S) * Log(limit)

\* Scripts differ in what they do first with a fresh report: reject a difference
\* of outputs, or reject a disturbed process.  Both follow the validator.
ProofFirst(x, rows, exact, next) ==
  IF Invalid(x, rows) THEN "failed"
  ELSE IF ~exact THEN "failed"
  ELSE IF Disturbed(x, rows) THEN "resource_blocked"
  ELSE next

CleanFirst(x, rows, exact, next) ==
  IF Invalid(x, rows) THEN "failed"
  ELSE IF Disturbed(x, rows) THEN "resource_blocked"
  ELSE IF ~exact THEN "failed"
  ELSE next

\* Scripts that record disturbed processes and leave them to the decision.
Recorded(x, rows, exact, next) ==
  IF Invalid(x, rows) \/ ~exact THEN "failed" ELSE next

\* An auditor recomputes the decision of a complete report; an incomplete one
\* must end in one of the four error statuses.
Audited(d, decision) == IF d.complete THEN d.status = decision ELSE d.status \in Errors

=============================================================================
