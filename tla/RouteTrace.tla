----------------------------- MODULE RouteTrace -----------------------------
(***************************************************************************)
(* route_trace.decode and cache_simulation.route_segments.  The decoder    *)
(* reads the engine's route events one by one: every event it accepts is   *)
(* an action guarded by its checks, any other event makes it raise, and    *)
(* the file may end after any event (a live writer or a killed one).  The  *)
(* rows it returns are cut into the segments the cache simulation replays  *)
(* from a cold start.                                                      *)
(***************************************************************************)
EXTENDS Integers, Sequences, FiniteSets, SequencesExt, FiniteSetsExt
CONSTANTS TraceLayers,  \* 48
          Sessions, Phases, Tokens,
          MaxPosition,  \* 8192
          MaxTokens,    \* bound on the tokens of one forward and of one output
          MaxRequests, MaxForwards, MaxResets  \* bounds on the events of a trace

ASSUME TraceAssumption ==
    /\ {TraceLayers, MaxPosition, MaxTokens} \subseteq Nat \ {0}
    /\ {MaxRequests, MaxForwards, MaxResets} \subseteq Nat

VARIABLES
    rows,       \* rows of committed forwards and cache boundaries, in file order
    committed,  \* committed forwards
    done,       \* completed requests
    request, current,  \* the active request and forward, or None
    requestId, forwardId, epoch, states, session, aborted, terminal
traceVars == <<rows, committed, done, request, current, requestId, forwardId,
               epoch, states, session, aborted, terminal>>

None == [none |-> TRUE]
Inputs == UNION {[1 .. n -> Tokens] : n \in 1 .. MaxTokens}
NoSession == "none"

TraceInit ==
    /\ rows = <<>> /\ committed = <<>> /\ done = <<>>
    /\ request = None /\ current = None
    /\ requestId = 0 /\ forwardId = 0 /\ epoch = 0
    /\ states = [s \in Sessions |-> <<>>]
    /\ session = NoSession /\ aborted = 0 /\ terminal = "open"

RequestBegin(input, limit, prime) ==
    /\ terminal = "open" /\ request = None /\ current = None
    /\ requestId < MaxRequests
    /\ requestId' = requestId + 1
    /\ request' = [input |-> input, limit |-> limit, prime |-> prime, aborted |-> FALSE,
                   sizes |-> [s \in Sessions |-> Len(states[s])]]
    /\ UNCHANGED <<rows, committed, done, current, forwardId, epoch, states, session, aborted, terminal>>

TraceForward(s, phase, input) ==
    /\ terminal = "open" /\ request # None /\ current = None
    /\ Len(states[s]) + Len(input) <= MaxPosition
    /\ forwardId < MaxForwards
    /\ forwardId' = forwardId + 1
    /\ current' = [session |-> s, phase |-> phase, input |-> input, offset |-> Len(states[s]), layers |-> 0]
    /\ UNCHANGED <<rows, committed, done, request, requestId, epoch, states, session, aborted, terminal>>

(* One layer's top-k selection; which experts it names is left out.        *)
Routes ==
    /\ terminal = "open" /\ current # None /\ current.layers < TraceLayers
    /\ current' = [current EXCEPT !.layers = @ + 1]
    /\ UNCHANGED <<rows, committed, done, request, requestId, forwardId, epoch, states, session, aborted, terminal>>

Row(layer) == [layer |-> layer, offset |-> current.offset, tokens |-> Len(current.input),
               phase |-> current.phase, request |-> requestId, session |-> <<current.session, epoch>>]

ForwardCommit ==
    /\ terminal = "open" /\ current # None /\ current.layers = TraceLayers
    /\ rows' = rows \o [l \in 1 .. TraceLayers |-> Row(l - 1)]
    /\ session' = current.session
    /\ states' = [states EXCEPT ![current.session] = @ \o current.input]
    /\ committed' = Append(committed, [session |-> current.session, request |-> requestId, input |-> current.input,
                                       offset |-> current.offset, epoch |-> epoch, aborted |-> aborted])
    /\ current' = None
    /\ UNCHANGED <<done, request, requestId, forwardId, epoch, aborted, terminal>>

Boundary(reason) == [boundary |-> reason]

ForwardAbort ==
    /\ terminal = "open" /\ current # None
    /\ aborted' = aborted + 1
    /\ rows' = Append(rows, Boundary("forward_abort"))
    /\ request' = [request EXCEPT !.aborted = TRUE]
    /\ current' = None
    /\ UNCHANGED <<committed, done, requestId, forwardId, epoch, states, session, terminal>>

(* The output agrees with the stopping rule: primed requests produce       *)
(* nothing, others something, at most the limit.  Which tokens may end a   *)
(* shorter output is left out.                                             *)
Stopping(output) ==
    /\ Len(output) <= request.limit
    /\ request.prime <=> output = <<>>

(* Mutant of Reused: the record of reused tokens is not compared.          *)
AnyReuse == 0 .. Len(request.input)

Reused == IF session = NoSession THEN {0} ELSE {request.sizes[session]}

RequestEnd(output, reused) ==
    /\ terminal = "open" /\ request # None /\ current = None /\ ~request.aborted
    /\ Stopping(output)
    /\ reused \in Reused /\ reused <= Len(request.input)
    /\ session # NoSession
    /\ states[session] = request.input \o (IF output = <<>> THEN <<>> ELSE Front(output))
    /\ done' = Append(done, [id |-> requestId, session |-> session, input |-> request.input,
                             output |-> output, reused |-> reused])
    /\ request' = None
    /\ UNCHANGED <<rows, committed, current, requestId, forwardId, epoch, states, session, aborted, terminal>>

CacheReset ==
    /\ terminal = "open" /\ current = None
    /\ epoch < MaxResets
    /\ epoch' = epoch + 1
    /\ rows' = Append(rows, Boundary("cache_reset"))
    /\ UNCHANGED <<committed, done, request, current, requestId, forwardId, states, session, aborted, terminal>>

TraceEnd(status) ==
    /\ terminal = "open"
    /\ status = "complete" => request = None /\ current = None
    /\ terminal' = status
    /\ UNCHANGED <<rows, committed, done, request, current, requestId, forwardId, epoch, states, session, aborted>>

TraceNext ==
    \/ \E input \in Inputs, limit \in 1 .. MaxTokens, prime \in BOOLEAN : RequestBegin(input, limit, prime)
    \/ \E s \in Sessions, phase \in Phases, input \in Inputs : TraceForward(s, phase, input)
    \/ Routes
    \/ ForwardCommit
    \/ ForwardAbort
    \/ \E output \in Inputs \cup {<<>>}, reused \in 0 .. MaxTokens : RequestEnd(output, reused)
    \/ CacheReset
    \/ \E status \in {"complete", "incomplete"} : TraceEnd(status)

TraceSpec == TraceInit /\ [][TraceNext]_traceVars
-----------------------------------------------------------------------------
(* route_segments: complete windows of all layers, in file order; a        *)
(* boundary row, an incomplete window or a discontinuity starts cold.      *)

SegmentStart == [segments |-> <<>>, pending |-> <<>>, continues |-> FALSE, excluded |-> 0, boundaries |-> 0]

Discard(s) == [s EXCEPT !.excluded = @ + Len(s.pending), !.pending = <<>>,
                        !.continues = FALSE, !.boundaries = @ + 1]

Breaks(s, row) ==
    /\ s.pending # <<>>
    /\ \/ row.layer # Len(s.pending)
       \/ [row EXCEPT !.layer = 0] # [Head(s.pending) EXCEPT !.layer = 0]

Continues(s, first) ==
    /\ s.continues
    /\ Last(s.segments).end = first.offset
    /\ Last(s.segments).session = first.session

AddWindow(s, window) ==
    LET first == Head(window)
        start == [start |-> first.offset, end |-> first.offset, session |-> first.session, windows |-> 0]
        base == IF Continues(s, first) THEN s.segments ELSE Append(s.segments, start)
        grown == [Last(base) EXCEPT !.end = first.offset + first.tokens, !.windows = @ + 1]
    IN  [s EXCEPT !.segments = [base EXCEPT ![Len(base)] = grown], !.pending = <<>>, !.continues = TRUE]

SegmentRow(s, row) ==
    LET clean == IF Breaks(s, row) THEN Discard(s) ELSE s
        pending == Append(clean.pending, row)
    IN  IF clean.pending = <<>> /\ row.layer # 0
        THEN [clean EXCEPT !.excluded = @ + 1, !.continues = FALSE]
        ELSE IF Len(pending) = TraceLayers THEN AddWindow(clean, pending)
        ELSE [clean EXCEPT !.pending = pending]

RouteSegments ==
    LET Step(s, row) == IF "boundary" \in DOMAIN row THEN Discard(s) ELSE SegmentRow(s, row)
        s == FoldLeft(Step, SegmentStart, rows)
    IN  IF s.pending = <<>> THEN s ELSE Discard(s)
-----------------------------------------------------------------------------
(* Properties *)

TokensOf(forwards) == FlattenSeq([i \in DOMAIN forwards |-> forwards[i].input])

(* A completed request is accounted for by committed forwards: those of    *)
(* the request in its session computed exactly what was neither reused     *)
(* nor the last output token.                                              *)
RequestsAccounted ==
    \A i \in DOMAIN done :
        LET r == done[i]
            own == SelectSeq(committed, LAMBDA f : f.request = r.id /\ f.session = r.session)
            whole == r.input \o (IF r.output = <<>> THEN <<>> ELSE Front(r.output))
        IN  TokensOf(own) = SubSeq(whole, r.reused + 1, Len(whole))

(* The forwards of a session tile its history without gap or overlap, also *)
(* across requests and abandoned forwards.                                 *)
SessionsTiled ==
    \A s \in Sessions :
        LET own == SelectSeq(committed, LAMBDA f : f.session = s)
        IN  /\ TokensOf(own) = states[s]
            /\ \A i \in DOMAIN own : own[i].offset = Len(TokensOf(SubSeq(own, 1, i - 1)))

(* Every committed forward is replayed once, and the segments, which the   *)
(* simulation runs without a cold start, are cut where the engine's cache  *)
(* or its user changed and nowhere else: no segment spans a cache reset,   *)
(* an abandoned forward or a change of session, and two segments that      *)
(* follow one another are separated by one of the three, never by a new    *)
(* request or a new phase alone.                                           *)
SegmentsKeepBoundaries ==
    LET s == RouteSegments
        Windows(i) == MapThenSumSet(LAMBDA j : s.segments[j].windows, 1 .. i)
        Together(f, g) == f.epoch = g.epoch /\ f.session = g.session /\ f.aborted = g.aborted
    IN  /\ s.excluded = 0
        /\ Windows(Len(s.segments)) = Len(committed)
        /\ \A i \in DOMAIN s.segments :
               LET own == SubSeq(committed, Windows(i - 1) + 1, Windows(i))
               IN  /\ s.segments[i].start = own[1].offset
                   /\ s.segments[i].end = Last(own).offset + Len(Last(own).input)
                   /\ \A f \in ToSet(own) : Together(f, own[1])
                   /\ i > 1 => ~Together(own[1], committed[Windows(i - 1)])

(* A route trace the reader accepts accounts for every token of every      *)
(* session, and the simulation starts cold exactly where the cache was     *)
(* reset, a forward abandoned or the session changed.                      *)
TraceExact == RequestsAccounted /\ SessionsTiled /\ SegmentsKeepBoundaries
=============================================================================
