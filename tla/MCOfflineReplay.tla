-------------------------- MODULE MCOfflineReplay --------------------------
(***************************************************************************)
(* Bounded instances of the offline readers and simulators.  They share    *)
(* no state: a behaviour is one of one of them, and the others stay in     *)
(* their first state.                                                      *)
(***************************************************************************)
EXTENDS CacheSimulation, BlockCacheReplay, RouteTrace, CachedProgress, Timeline, TLC
VARIABLE part

(* A panel and a block; a single row, a block and a single row left over.  *)
MCWorkloads == {<<3, 2>>, <<1, 3>>}

(* The route trace only compares tokens, and sessions, for equality.       *)
MCSymmetry == Permutations(Sessions) \cup Permutations(Tokens)

Parts == {"simulation", "block", "trace", "progress", "timeline"}

AbsentSimulation ==
    /\ sequence = <<>> /\ capacity = 0 /\ position = 0
    /\ clock = ClockStart(0) /\ slru = SlruStart /\ belady = BeladyStart
    /\ replay = [p \in {"clock", "slru"} |-> EmptyCache(0, p)]
    /\ misses = [p \in Policies |-> 0]

AbsentBlock == BlockInit /\ work = <<3, 2>>

AbsentTimeline ==
    token = [begin |-> 0, end |-> 1] /\ groups = <<>> /\ records = <<>> /\ report = <<>>

Init ==
    /\ part \in Parts
    /\ IF part = "simulation" THEN SimInit ELSE AbsentSimulation
    /\ IF part = "timeline" THEN TimelineInit ELSE AbsentTimeline
    /\ IF part = "block" THEN BlockInit ELSE AbsentBlock
    /\ TraceInit /\ ProgressInit

Next ==
    /\ UNCHANGED part
    /\ \/ /\ part = "simulation" /\ Counts
          /\ UNCHANGED <<blockVars, traceVars, progressVars, timelineVars>>
       \/ /\ part = "block" /\ BlockNext
          /\ UNCHANGED <<simVars, traceVars, progressVars, timelineVars>>
       \/ /\ part = "trace" /\ TraceNext
          /\ UNCHANGED <<simVars, blockVars, progressVars, timelineVars>>
       \/ /\ part = "progress" /\ ProgressNext
          /\ UNCHANGED <<simVars, blockVars, traceVars, timelineVars>>
       \/ /\ part = "timeline" /\ Analyze
          /\ UNCHANGED <<simVars, blockVars, traceVars, progressVars>>

Spec == Init /\ [][Next]_<<part, simVars, blockVars, traceVars, progressVars, timelineVars>>
=============================================================================
