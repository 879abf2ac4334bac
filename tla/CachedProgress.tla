--------------------------- MODULE CachedProgress ---------------------------
(***************************************************************************)
(* The progress file of a cached replay: the engine's CachedProgress       *)
(* writes one flushed line per event and can be killed between or inside   *)
(* lines; cached_progress.summarize reads whatever is there at that        *)
(* moment.  Reader and writer keep their own phase state and clocks.       *)
(***************************************************************************)
EXTENDS Integers, Sequences, FiniteSets, SequencesExt, FiniteSetsExt
CONSTANTS ProgressPhases, MaxTime, MaxEvents
ASSUME ProgressAssumption == MaxTime \in Nat /\ MaxEvents \in Nat /\ "" \notin ProgressPhases

VARIABLES now,       \* monotonic_ns() - started_
          phase, phaseStarted, writing, finished,  \* the writer's members
          log,       \* complete lines of the file
          fragment   \* the file ends in a partial line
progressVars == <<now, phase, phaseStarted, writing, finished, log, fragment>>

ProgressInit ==
    /\ now = 0 /\ phase = "" /\ phaseStarted = 0 /\ writing = FALSE /\ finished = FALSE
    /\ log = <<>> /\ fragment = FALSE

Alive == ~finished /\ ~fragment

Emit(event, p, started, incomplete) ==
    /\ Len(log) < MaxEvents
    /\ log' = Append(log, [event |-> event, phase |-> p, elapsed |-> now, inPhase |-> now - started,
                           incomplete |-> incomplete])

Begin(p) ==
    /\ Alive /\ ~writing
    /\ phase' = p /\ phaseStarted' = now /\ writing' = TRUE
    /\ Emit("begin", p, now, FALSE)
    /\ UNCHANGED <<now, finished, fragment>>

Update ==
    /\ Alive /\ writing
    /\ Emit("progress", phase, phaseStarted, FALSE)
    /\ UNCHANGED <<now, phase, phaseStarted, writing, finished, fragment>>

End ==
    /\ Alive /\ writing
    /\ Emit("end", phase, phaseStarted, FALSE)
    /\ writing' = FALSE
    /\ UNCHANGED <<now, phase, phaseStarted, finished, fragment>>

(* The engine begins a phase before anything can fail.                     *)
Finish(status) ==
    /\ Alive /\ phase # "" /\ (status = "complete" => ~writing)
    /\ Emit(status, phase, phaseStarted, writing)
    /\ finished' = TRUE
    /\ UNCHANGED <<now, phase, phaseStarted, writing, fragment>>

(* Killed inside a write.                                                  *)
KilledWriting ==
    /\ Alive /\ fragment' = TRUE
    /\ UNCHANGED <<now, phase, phaseStarted, writing, finished, log>>

Tick ==
    /\ Alive /\ now < MaxTime /\ now' = now + 1
    /\ UNCHANGED <<phase, phaseStarted, writing, finished, log, fragment>>

ProgressNext ==
    \/ \E p \in ProgressPhases : Begin(p)
    \/ Update \/ End \/ KilledWriting \/ Tick
    \/ \E status \in {"complete", "interrupted", "failed"} : Finish(status)

ProgressSpec == ProgressInit /\ [][ProgressNext]_progressVars
-----------------------------------------------------------------------------
(* summarize *)

ReaderStart == [active |-> "", started |-> 0, previous |-> -1, last |-> "", terminal |-> "unfinished",
                durations |-> [p \in ProgressPhases |-> 0], ok |-> TRUE]

(* Mutant of PhaseAgrees: the reader measures phases from the last line.   *)
AgreesWithLast(r, row) == row.phase = r.active /\ row.elapsed - r.previous = row.inPhase

PhaseAgrees(r, row) == row.phase = r.active /\ row.elapsed - r.started = row.inPhase

RowAccepted(r, row) ==
    /\ row.elapsed >= r.previous /\ row.inPhase <= row.elapsed
    /\ row.phase # "" /\ r.terminal = "unfinished"
    /\ CASE row.event = "begin" -> r.active = ""
         [] row.event \in {"progress", "end"} -> PhaseAgrees(r, row)
         [] OTHER -> /\ IF r.active # "" THEN PhaseAgrees(r, row) ELSE r.last \in {"", row.phase}
                     /\ row.incomplete = (r.active # "")
                     /\ row.event = "complete" => r.active = ""

ReadRow(r, row) ==
    IF ~RowAccepted(r, row) THEN [r EXCEPT !.ok = FALSE]
    ELSE [r EXCEPT !.previous = row.elapsed, !.last = row.phase,
             !.active = CASE row.event = "begin" -> row.phase [] row.event = "end" -> "" [] OTHER -> @,
             !.started = IF row.event = "begin" THEN row.elapsed - row.inPhase ELSE @,
             !.durations[row.phase] = @ + (IF row.event = "end" THEN row.inPhase ELSE 0),
             !.terminal = IF row.event \in {"begin", "progress", "end"} THEN @ ELSE row.event]

Summarize ==
    LET r == FoldLeft(ReadRow, ReaderStart, log)
    IN  [r EXCEPT !.ok = @ /\ ~(r.terminal # "unfinished" /\ fragment)]
-----------------------------------------------------------------------------
(* Properties *)

(* Whatever a live, finished or killed replay has written is readable, and *)
(* the reader reports its true status and its unfinished phase.            *)
ProgressReadable ==
    /\ Summarize.ok
    /\ (Summarize.terminal # "unfinished") = finished
    /\ log # <<>> => Summarize.active = IF writing THEN phase ELSE ""

(* The phase durations reported never add up to more than the time that    *)
(* had elapsed at the last line.                                           *)
DurationsFit ==
    log # <<>> => MapThenSumSet(LAMBDA p : Summarize.durations[p], ProgressPhases) <= Last(log).elapsed

(* A reader of a progress file is told what the writer did, whenever the   *)
(* writer stopped.                                                         *)
ProgressExact == ProgressReadable /\ DurationsFit
=============================================================================
