----------------------------- MODULE Experiment -----------------------------
(***************************************************************************)
(* A measurement script at work: the Experiment class of stage200, the     *)
(* EvidenceGuard of qualification_evidence and the try/finally of the      *)
(* scripts that drive their own directory.  Stages of a campaign run one   *)
(* after the other, each in a new directory, and require sealed            *)
(* directories of earlier ones.  Around them the host misbehaves: native   *)
(* processes fail, hang or are disturbed, the lease is taken by another    *)
(* workload, sources are edited, the script is interrupted or killed.      *)
(***************************************************************************)
EXTENDS ScriptCatalog

CONSTANTS Campaigns,   \* sequences of stages an operator starts one after the other
          MaxFaults    \* how often a campaign's environment misbehaves

ASSUME CampaignAssumption == Campaigns \subseteq Seq(Stages) \ {<<>>} /\ MaxFaults \in Nat

\* Scripts never write into an old directory.  The model keeps the latest of each stage,
\* so a campaign does not repeat a stage after one that builds on it.
ASSUME OrderAssumption == \A c \in Campaigns : \A i, j \in DOMAIN c : i < j => Follows(c[i], c[j])

VARIABLES
  queue,     \* stages still to be started
  stage,     \* the stage of the current directory
  phase,     \* where its script is
  rows,      \* the report's rows, in memory
  status, complete,   \* the report's verdict, in memory
  disk,      \* summary.json of the current directory
  lease,     \* who holds .cache/qwen-qualification.lock
  orphan,    \* a native process outlives its killed script
  build,     \* the sources and binaries as they are now
  frozen,    \* identity.json of the current directory
  shelf,     \* the directories of earlier stages
  faults

expVars == <<queue, stage, phase, rows, status, complete, disk, lease, orphan, build, frozen, shelf, faults>>

Script == Catalog[stage]
Upcoming == Script.plan[Len(rows) + 1]
Active == {"prepare", "ready", "child"}
Quiet == {"idle", "sealed", "dead"}
Report(r, s, c) == [rows |-> r, status |-> s, complete |-> c]
Row(out, cond, cost) == [out |-> out, cond |-> cond, wall |-> cost.wall, worst |-> cost.worst]

Faulty == faults < MaxFaults /\ faults' = faults + 1

---------------------------------------------------------------------------
(* What a native process may report.                                       *)

ControlArms == {"control", "off", "serial", "w1", "s1072w4", "wide4", "resident", "four", "A"}
Costs(step) ==
  CASE step.do = "operators" /\ step.arm = "candidate" -> Plain({80, 95, 101})
    [] step.do \in {"time", "long", "memory"} /\ step.arm \notin ControlArms -> Script.times
    [] OTHER -> {Par}

\* q4_validation_memory looks for dirty validating processes: they are no fault.
Expected(step) == {"good"} \cup (IF step.do = "memory" /\ step.arm = "on" THEN {"compressed"} ELSE {})
GoodRows(step) == {Row("same", c, k) : c \in Expected(step), k \in Costs(step)}
BadRows(step) == {Row("other", "good", k) : k \in Costs(step)}
                   \cup {Row("same", c, k) : c \in Conditions \ {"good"}, k \in Costs(step)}

---------------------------------------------------------------------------
(* Directories.                                                            *)

\* Rows a later stage looks at again are kept with the directory.
Kept(s, r) == IF Slot(s) \in {"streamed_horizon", "streamed_validate", "streamed_diagnostic",
                              "q8_expanded_capture", "width_diagnostic", "mtp_recovery"}
              THEN [i \in DOMAIN r |-> [out |-> r[i].out, cond |-> r[i].cond]] ELSE <<>>
Directory == [stage |-> stage, status |-> disk.status, complete |-> disk.complete, sealed |-> phase = "sealed",
              build |-> frozen, rows |-> Kept(stage, disk.rows)]
Shelved ==
  IF phase = "idle" THEN shelf
  ELSE [s \in {Slot(stage)} \cup DOMAIN shelf |-> IF s = Slot(stage) THEN Directory ELSE shelf[s]]

\* Mutant: the prerequisite's producer is not compared with the frozen one.
AcceptableAnyBuild(needed) ==
  /\ needed \in DOMAIN shelf /\ shelf[needed].sealed
  /\ shelf[needed].status \in Script.needs[needed]
  /\ shelf[needed].complete \/ shelf[needed].status = "resource_blocked"
  /\ Source(stage, needed, shelf[needed].rows)

\* verified_stage, prerequisite and their like: a sealed directory of the same producer
\* with an expected status; complete, unless a blocked attempt is what is asked for.
Acceptable(needed) ==
  /\ needed \in DOMAIN shelf
  /\ shelf[needed].sealed
  /\ shelf[needed].status \in Script.needs[needed]
  /\ shelf[needed].complete \/ shelf[needed].status = "resource_blocked"
  /\ shelf[needed].build = frozen
  /\ Source(stage, needed, shelf[needed].rows)

---------------------------------------------------------------------------
(* The end of a stage.                                                     *)

\* Mutant: a status already written is left standing.
ErrorKeepsStatus(s) == IF status = "running" THEN s ELSE status

\* The status an exception leaves.  screen_submission catches Exception only.
ErrorStatus(s) ==
  IF stage # "submission_screen" THEN s
  ELSE IF s = "interrupted" THEN status ELSE "incomplete"

Released == IF lease = "self" THEN "free" ELSE lease

\* The with block of the scripts with a directory of their own ends before the report
\* is written; Experiment.__exit__ closes the lock after the seal.
Close(r, s, c) ==
  /\ rows' = r /\ status' = s /\ complete' = c
  /\ phase' = "closing"
  /\ lease' = IF Script.own THEN Released ELSE lease
  /\ UNCHANGED disk

Fail(s) == Close(rows, ErrorStatus(s), FALSE)

\* The status a script writes while it still works: the screens that prove the state
\* after timing have decided by then, the streamed one has met a costly pair.
Provisional(r) ==
  CASE stage \in {"tail_screen", "scratch_screen", "route_screen"} /\ Len(r) >= Len(Script.plan) - 2 -> "promising"
    [] stage \in {"streamed_screen", "streamed_preliminary"}
         /\ \E i \in DOMAIN r : r[i].cond # "skipped" /\ r[i].wall > 110 -> "early_cost_regression"
    [] OTHER -> "running"

\* A report the validator raises on is not recorded; the others are, before the checks
\* that may still end the stage.
Take(row) == \E script \in {Script} :
  LET r == Append(rows, row)
      outcome == After(script, stage, r)
  IN  IF Invalid(script, r) THEN Fail("failed")
      ELSE IF outcome = "go"
      THEN /\ phase' = (IF phase = "prepare" THEN "prepare" ELSE "ready")
           /\ rows' = r /\ status' = Provisional(r) /\ disk' = Report(r, Provisional(r), FALSE)
           /\ UNCHANGED <<complete, lease>>
      ELSE IF outcome \in Errors THEN Close(IF Unrecorded(script, stage, r) THEN rows ELSE r, ErrorStatus(outcome), FALSE)
      ELSE Close(r, outcome, TRUE)

---------------------------------------------------------------------------
(* The script.                                                             *)

\* Mutant: the directory of an earlier attempt is used again.
BeginInPlace ==
  /\ phase \in Quiet /\ queue # <<>>
  /\ shelf' = Shelved
  /\ stage' = Head(queue) /\ queue' = Tail(queue)
  /\ phase' = "prepare" /\ frozen' = build
  /\ rows' = <<>> /\ status' = "running" /\ complete' = FALSE
  /\ UNCHANGED <<disk, lease, orphan, build, faults>>

\* A new directory, its running report and the frozen identity.
Begin ==
  /\ phase \in Quiet /\ queue # <<>>
  /\ (phase # "idle" /\ (\E i \in 1 .. 4 : stage = Trial[i]) /\ Head(queue) # "recovery_early") =>
       phase = "sealed" /\ RecoveryContinues(disk)
  /\ shelf' = Shelved
  /\ stage' = Head(queue) /\ queue' = Tail(queue)
  /\ phase' = "prepare" /\ frozen' = build
  /\ rows' = <<>> /\ status' = "running" /\ complete' = FALSE
  /\ disk' = Report(<<>>, "running", FALSE)
  /\ UNCHANGED <<lease, orphan, build, faults>>

\* identity: a receipt of the artifact or of the prepared files is stale.
PrepareFails ==
  /\ phase = "prepare" /\ Faulty /\ Fail("failed")
  /\ UNCHANGED <<queue, stage, orphan, build, frozen, shelf>>

\* The lease is tried once; scripts of their own look at their sources before.
Enter ==
  /\ phase = "prepare"
  /\ Script.own => Upcoming.do # "require"
  /\ IF lease = "other" THEN Fail("resource_blocked")
     ELSE lease' = "self" /\ phase' = "ready" /\ UNCHANGED <<rows, status, complete, disk>>
  /\ UNCHANGED <<queue, stage, orphan, build, frozen, shelf, faults>>

\* An earlier stage, or evidence from outside the campaign.
Require ==
  /\ phase = (IF Script.own THEN "prepare" ELSE "ready")
  /\ Upcoming.do = "require"
  /\ IF Upcoming.arm \in DOMAIN Script.needs
     THEN /\ IF Acceptable(Upcoming.arm) THEN Take(Row("same", "good", Par)) ELSE Fail("failed")
          /\ UNCHANGED faults
     ELSE \/ Take(Row("same", "good", Par)) /\ UNCHANGED faults
          \/ Faulty /\ Fail("failed")
  /\ UNCHANGED <<queue, stage, orphan, build, frozen, shelf>>

\* reusable_validation, reusable_samples: a row of an earlier attempt of the same producer.
Reusable ==
  LET source == ReusesFrom(stage)
  IN  /\ Upcoming.do = "validate" /\ source \in DOMAIN shelf
      /\ shelf[source].sealed /\ shelf[source].build = frozen
      /\ ReusableRow(shelf[source].rows, Len(rows) + 1, stage = "streamed_diagnostic")

Skipped == stage \in {"streamed_screen", "streamed_preliminary"} /\ StreamedSkips(Script, rows)

Reuse ==
  /\ phase = "ready" /\ Reusable
  /\ LET r == shelf[ReusesFrom(stage)].rows[Len(rows) + 1] IN Take(Row(r.out, r.cond, Par))
  /\ UNCHANGED <<queue, stage, orphan, build, frozen, shelf, faults>>

Skip ==
  /\ phase = "ready" /\ Skipped
  /\ Take(Row("same", "skipped", Par))
  /\ UNCHANGED <<queue, stage, orphan, build, frozen, shelf, faults>>

\* Guard.run up to Popen: the frozen identity is checked, then resources.
Launch ==
  /\ phase = "ready" /\ Upcoming.do # "require" /\ ~Reusable /\ ~Skipped
  /\ IF build # frozen THEN Fail("failed")
     ELSE phase' = "child" /\ UNCHANGED <<rows, status, complete, disk, lease>>
  /\ UNCHANGED <<queue, stage, orphan, build, frozen, shelf, faults>>

\* Host preflight, disk space, evidence size and memory admission.
Refused ==
  /\ phase = "ready" /\ Upcoming.do # "require" /\ ~Reusable /\ ~Skipped
  /\ Faulty /\ Fail("resource_blocked")
  /\ UNCHANGED <<queue, stage, orphan, build, frozen, shelf>>

\* The process ended well: the identity is checked again before its report is read.
ChildEnds ==
  /\ phase = "child"
  /\ IF build # frozen THEN Fail("failed") /\ UNCHANGED faults
     ELSE \/ (\E row \in GoodRows(Upcoming) : Take(row)) /\ UNCHANGED faults
          \/ (\E row \in BadRows(Upcoming) : Take(row)) /\ Faulty
  /\ UNCHANGED <<queue, stage, orphan, build, frozen, shelf>>

\* A nonzero exit; the log tells a refused admission from other failures.
ChildFails ==
  /\ phase = "child" /\ Faulty
  /\ \E s \in {"failed", "resource_blocked"} : Fail(s)
  /\ UNCHANGED <<queue, stage, orphan, build, frozen, shelf>>

\* Mutant: the deadline is looked at between processes only.
DeadlineBetween ==
  /\ phase = "ready" /\ Fail("time_budget_exhausted")
  /\ UNCHANGED <<queue, stage, orphan, build, frozen, shelf, faults>>

\* The deadline of the process or of the stage; a running process group is killed.
DeadlinePasses ==
  /\ phase \in {"ready", "child"} /\ Fail("time_budget_exhausted")
  /\ UNCHANGED <<queue, stage, orphan, build, frozen, shelf, faults>>

Interrupt ==
  /\ phase \in Active /\ Faulty /\ Fail("interrupted")
  /\ UNCHANGED <<queue, stage, orphan, build, frozen, shelf>>

Persist ==
  /\ phase = "closing" /\ phase' = "persisted" /\ disk' = Report(rows, status, complete)
  /\ UNCHANGED <<queue, stage, rows, status, complete, lease, orphan, build, frozen, shelf, faults>>

Seal ==
  /\ phase = "persisted" /\ phase' = "sealed" /\ lease' = Released
  /\ UNCHANGED <<queue, stage, rows, status, complete, disk, orphan, build, frozen, shelf, faults>>

\* trial_recovery with a resumed trial: complete fixture and correctness stages are
\* taken over, everything timed is run again.
Resume ==
  LET done(s) == s \in DOMAIN Shelved /\ Shelved[s].complete
      first == IF ~done(Trial[1]) THEN 1 ELSE IF ~done(Trial[2]) THEN 2 ELSE 3
  IN  /\ phase = "sealed" /\ ~disk.complete /\ \E i \in DOMAIN Trial : stage = Trial[i]
      /\ queue # <<>> /\ \E i \in DOMAIN Trial : queue[1] = Trial[i]
      /\ queue' = SubSeq(Trial, first, 5)
      /\ shelf' = Shelved /\ phase' = "idle"
      /\ rows' = <<>> /\ disk' = Report(<<>>, "running", FALSE) /\ status' = "running"
      /\ UNCHANGED <<stage, complete, lease, orphan, build, frozen, faults>>

---------------------------------------------------------------------------
(* The environment.                                                        *)

\* SIGKILL: no handler runs, the kernel drops the lock.  The native process has a
\* session of its own and goes on.
Kill ==
  /\ phase \in Active \cup {"closing", "persisted"} /\ Faulty
  /\ phase' = "dead" /\ lease' = Released /\ orphan' = (phase = "child")
  /\ UNCHANGED <<queue, stage, rows, status, complete, disk, build, frozen, shelf>>

OrphanEnds ==
  /\ orphan /\ orphan' = FALSE
  /\ UNCHANGED <<queue, stage, phase, rows, status, complete, disk, lease, build, frozen, shelf, faults>>

OtherTakes ==
  /\ lease = "free" /\ Faulty /\ lease' = "other"
  /\ UNCHANGED <<queue, stage, phase, rows, status, complete, disk, orphan, build, frozen, shelf>>
OtherReleases ==
  /\ lease = "other" /\ lease' = "free"
  /\ UNCHANGED <<queue, stage, phase, rows, status, complete, disk, orphan, build, frozen, shelf, faults>>

EditSources ==
  /\ phase # "idle" /\ Faulty /\ build' = build + 1
  /\ UNCHANGED <<queue, stage, phase, rows, status, complete, disk, lease, orphan, frozen, shelf>>

Idle == phase \in Quiet /\ UNCHANGED expVars

---------------------------------------------------------------------------
ExpInit ==
  /\ queue \in Campaigns /\ stage = Head(queue) /\ phase = "idle"
  /\ rows = <<>> /\ status = "running" /\ complete = FALSE /\ disk = Report(<<>>, "running", FALSE)
  /\ lease = "free" /\ orphan = FALSE /\ build = 0 /\ frozen = 0
  /\ shelf = [s \in {} |-> {}] /\ faults = 0

RunnerStep == Begin \/ Enter \/ Require \/ Reuse \/ Skip \/ Launch \/ DeadlinePasses \/ Persist \/ Seal
HostStep == PrepareFails \/ Refused \/ ChildEnds \/ ChildFails \/ Interrupt \/ Resume
EnvStep == Kill \/ OrphanEnds \/ OtherTakes \/ OtherReleases \/ EditSources
ExpNext == RunnerStep \/ HostStep \/ EnvStep \/ Idle

\* The script goes on by itself, and a process that never ends meets its deadline.  That
\* a native process ends, or that anybody starts a further stage, is not assumed.
ExpFairness ==
  /\ WF_expVars(Enter \/ Require \/ Reuse \/ Skip \/ Launch \/ Persist \/ Seal)
  /\ WF_expVars(DeadlinePasses)
ExpSpec == ExpInit /\ [][ExpNext]_expVars /\ ExpFairness

---------------------------------------------------------------------------
(* Properties.                                                             *)

\* Every variable of a stage keeps its type; a row belongs to a step of the plan and the
\* report on disk is never ahead of the one in memory; a native process the script waits
\* for runs under the script's lease.
ExpTypeOK ==
  /\ stage \in Stages /\ phase \in Active \cup Quiet \cup {"closing", "persisted"}
  /\ complete \in BOOLEAN /\ orphan \in BOOLEAN /\ lease \in {"free", "self", "other"}
  /\ Len(rows) <= Len(Script.plan) /\ Len(disk.rows) <= Len(rows)
  /\ \A i \in DOMAIN rows : rows[i].out \in Outputs /\ rows[i].cond \in Conditions \cup {"skipped"}
  /\ frozen <= build /\ build <= MaxFaults /\ faults <= MaxFaults
  /\ DOMAIN shelf \subseteq Stages
  /\ phase = "child" => lease = "self"

\* Stages whose subject is a disturbed process.
Observers == {"stage_capacity", "validation_memory"}
Recommends == disk.complete /\ disk.status \in Script.positive

\* A complete report that recommends its candidate (any script, any order of processes
\* and faults) has run its whole plan and rests on complete reports.  Its timings were
\* taken undisturbed, within the budget and from the script's own source, but for the
\* scripts named blind to one of them; and every arm of a comparison computed the same
\* outputs, from the same source, as its control.
PositiveEarned ==
  (phase \in {"persisted", "sealed"} /\ Recommends) =>
    /\ Len(disk.rows) = Len(Script.plan)
    /\ \A i \in DOMAIN disk.rows :
         /\ Script.plan[i].do \notin {"require", "test", "process"} => disk.rows[i].cond # "partial"
         /\ Script.plan[i].do \notin Unmeasured /\ disk.rows[i].cond = "foreign" => stage \in SourceBlind
         /\ Script.plan[i].do \in {"time", "long"} =>
              /\ disk.rows[i].cond = "overBudget" => stage \in BudgetBlind
              /\ stage \notin Observers => disk.rows[i].cond \notin Script.disturb
    /\ \A i, j \in DOMAIN disk.rows :
         (Script.plan[i].do \notin Unmeasured /\ Script.plan[i].do = Script.plan[j].do
            /\ Script.plan[i].group = Script.plan[j].group) =>
           /\ disk.rows[i].out = disk.rows[j].out
           /\ (disk.rows[i].cond = "foreign") = (disk.rows[j].cond = "foreign")

\* A sealed report that did not complete carries no recommendation, whatever the script
\* had already written when the exception came.
NoPromiseFromFailure ==
  (phase = "sealed" /\ ~disk.complete) => disk.status \notin Script.positive

\* Behind every complete recommendation on the shelf stand its prerequisites: sealed, with
\* the status asked for, of the same sources (so, step by step, the whole chain).
ChainUnbroken ==
  \A s \in DOMAIN Shelved :
    LET d == Shelved[s]
    IN  (d.sealed /\ d.complete /\ d.status \in Catalog[d.stage].positive) =>
          \A n \in DOMAIN Catalog[d.stage].needs :
            /\ n \in DOMAIN Shelved /\ Shelved[n].sealed /\ Shelved[n].build = d.build
            /\ Shelved[n].status \in Catalog[d.stage].needs[n]

\* Every prerequisite of the plan has its row on disk.
SourcesRecorded == \A i \in DOMAIN Script.plan : Script.plan[i].do = "require" => i <= Len(disk.rows)

\* Whatever a stage seals once its sources are recorded, its auditor (the scripts' verify
\* functions) accepts.
AuditAgrees == (phase = "sealed" /\ SourcesRecorded) => \A script \in {Script} : Audit(script, stage, disk)

\* A started stage ends with a sealed directory unless it is killed, even if its native
\* process never ends.
StageEnds == (phase = "prepare") ~> (phase \in Quiet)

=============================================================================
