------------------------------- MODULE Server -------------------------------
(***************************************************************************)
(* The local HTTP server of src/src/engine/server.cpp: the accept loop of  *)
(* serve() with its bounded socket queue and its handler threads, the      *)
(* Coordinator that admits one job at a time, and the inference thread     *)
(* that owns the executor.                                                 *)
(*                                                                         *)
(* Every connection makes one request.  A wait on a condition variable is  *)
(* the predicate it waits for: all of them are re-evaluated after every    *)
(* change made under the same mutex, or every 50 ms.                       *)
(***************************************************************************)
EXTENDS Naturals, FiniteSets, Sequences, SequencesExt

CONSTANTS
    Conn, None,
    Handlers,     \* handler threads (4)
    QueueLimit,   \* accepted sockets waiting for a handler (8)
    StreamLimit,  \* StreamLimit, in events
    MaxDeltas,    \* events of one answer: a bound of the model
    Kinds         \* the requests clients make: a bound of the model

ASSUME ServerAssumption ==
    /\ None \notin Conn
    /\ Kinds \subseteq {"chat", "stream", "reset"}
    /\ {Handlers, QueueLimit, StreamLimit} \subseteq Nat \ {0} /\ MaxDeltas \in Nat

VARIABLES
    mpc,                            \* the thread in serve()
    sockets,                        \* accepted, not yet handled
    hpc, kind, gone, out,           \* per connection: the handler at work on it, its request,
                                    \* whether the socket is dead, what was written to it
    cancel, events, jdone, jcode, pushed,  \* per connection: its Job
    pending, active, stopping, ready, failed, phase,  \* Coordinator
    ipc, job, code,                 \* the inference thread
    executor, dirty                 \* the executor, and whether reads or GPU work may be outstanding

mainVars  == <<mpc, sockets>>
connVars  == <<hpc, kind, gone, out>>
jobVars   == <<cancel, events, jdone, jcode, pushed>>
coordVars == <<pending, active, stopping, ready, failed, phase>>
inferVars == <<ipc, job, code, executor, dirty>>
vars == <<mainVars, connVars, jobVars, coordVars, inferVars>>

Item == {"delta", "finish"}
Busy == {c \in Conn : hpc[c] \in {"read", "wait", "cancel"}}

TypeOK ==
    /\ mpc \in {"serve", "sockets", "join", "exited"}
    /\ sockets \in Seq(Conn) /\ Len(sockets) <= QueueLimit
    /\ hpc \in [Conn -> {"new", "queued", "read", "wait", "cancel", "closed"}]
    /\ Cardinality(Busy) <= Handlers
    /\ kind \in [Conn -> Kinds] /\ gone \in [Conn -> BOOLEAN]
    /\ out \in [Conn -> Seq(Item \cup {"error", "done", "ok", "refused"})]
    /\ cancel \in [Conn -> BOOLEAN] /\ jdone \in [Conn -> BOOLEAN]
    /\ events \in [Conn -> Seq(Item)] /\ \A c \in Conn : Len(events[c]) <= StreamLimit
    /\ jcode \in [Conn -> {"ok", "error"}] /\ pushed \in [Conn -> 0 .. MaxDeltas]
    /\ {pending, active, job} \subseteq Conn \cup {None}
    /\ {stopping, ready, failed, dirty} \subseteq BOOLEAN
    /\ phase \in {"loading", "ready", "failed", "preparing", "generating", "cancelling", "draining"}
    /\ ipc \in {"init", "idle", "start", "run", "settle", "drain", "announce", "recover",
                "release", "publish", "exited"}
    /\ code \in {"ok", "error"} /\ executor \in {"loading", "up", "none"}

Init ==
    /\ mpc = "serve" /\ sockets = <<>>
    /\ hpc = [c \in Conn |-> "new"] /\ kind \in [Conn -> Kinds]
    /\ gone = [c \in Conn |-> FALSE] /\ out = [c \in Conn |-> <<>>]
    /\ cancel = [c \in Conn |-> FALSE] /\ events = [c \in Conn |-> <<>>]
    /\ jdone = [c \in Conn |-> FALSE] /\ jcode = [c \in Conn |-> "ok"]
    /\ pushed = [c \in Conn |-> 0]
    /\ pending = None /\ active = None
    /\ stopping = FALSE /\ ready = FALSE /\ failed = FALSE /\ phase = "loading"
    /\ ipc = "init" /\ job = None /\ code = "ok"
    /\ executor = "loading" /\ dirty = FALSE
-----------------------------------------------------------------------------
(* serve(): accept, and cleanup once a stop is requested.                  *)
Accept(c) ==
    /\ mpc = "serve" /\ hpc[c] = "new"
    /\ IF Len(sockets) < QueueLimit
       THEN /\ sockets' = Append(sockets, c)
            /\ hpc' = [hpc EXCEPT ![c] = "queued"]
            /\ UNCHANGED out
       ELSE /\ out' = [out EXCEPT ![c] = <<"refused">>]
            /\ hpc' = [hpc EXCEPT ![c] = "closed"]
            /\ UNCHANGED sockets
    /\ UNCHANGED <<mpc, kind, gone, jobVars, coordVars, inferVars>>

Shutdown ==
    /\ mpc = "serve"
    /\ mpc' = "sockets"
    /\ stopping' = TRUE
    /\ cancel' = [c \in Conn |-> cancel[c] \/ c = active]
    /\ UNCHANGED <<sockets, connVars, events, jdone, jcode, pushed,
                   pending, active, ready, failed, phase, inferVars>>

CloseSockets ==
    /\ mpc = "sockets"
    /\ mpc' = "join"
    /\ sockets' = <<>>
    /\ hpc' = [c \in Conn |-> IF hpc[c] = "queued" THEN "closed" ELSE hpc[c]]
    /\ gone' = [c \in Conn |-> gone[c] \/ c \in Busy]
    /\ UNCHANGED <<kind, out, jobVars, coordVars, inferVars>>

Joined ==
    /\ mpc = "join"
    /\ Busy = {} /\ ipc = "exited"
    /\ mpc' = "exited"
    /\ UNCHANGED <<sockets, connVars, jobVars, coordVars, inferVars>>

(* The client closes its connection, or stops reading for two seconds.     *)
(* Nothing looks at the socket before the handler waits for the job.       *)
Disconnect(c) ==
    /\ hpc[c] = "wait" /\ ~gone[c]
    /\ gone' = [gone EXCEPT ![c] = TRUE]
    /\ UNCHANGED <<mainVars, hpc, kind, out, jobVars, coordVars, inferVars>>
-----------------------------------------------------------------------------
(* handle(): one of the handler threads serves one connection.             *)
Dequeue ==
    /\ sockets # <<>> /\ Cardinality(Busy) < Handlers
    /\ hpc' = [hpc EXCEPT ![Head(sockets)] = "read"]
    /\ sockets' = Tail(sockets)
    /\ UNCHANGED <<mpc, kind, gone, out, jobVars, coordVars, inferVars>>

Close(c, written) ==
    /\ hpc' = [hpc EXCEPT ![c] = "closed"]
    /\ out' = [out EXCEPT ![c] = @ \o written]

(* Everything that is answered without a job: a request that cannot be     *)
(* read or parsed, a refused origin, the status and model endpoints.       *)
Answer(c) ==
    /\ hpc[c] = "read"
    /\ Close(c, <<"refused">>)
    /\ UNCHANGED <<mainVars, kind, gone, jobVars, coordVars, inferVars>>

Unavailable == stopping \/ failed \/ ~ready

Admit(c) ==
    /\ hpc[c] = "read"
    /\ IF Unavailable \/ active # None
       THEN /\ Close(c, <<"refused">>)
            /\ UNCHANGED <<pending, active, phase>>
       ELSE /\ hpc' = [hpc EXCEPT ![c] = "wait"]
            /\ active' = c /\ pending' = c /\ phase' = "preparing"
            /\ UNCHANGED out
    /\ UNCHANGED <<mainVars, kind, gone, jobVars, stopping, ready, failed, inferVars>>

(* The end of a response: a stream that has begun ends with [DONE], after  *)
(* an error object when the job failed; otherwise one JSON answer.         *)
Ending(headers, result) ==
    IF headers THEN (IF result = "ok" THEN <<"done">> ELSE <<"error", "done">>) ELSE <<result>>

(* Mutant of Relay: a finished job ends the stream, queued events or not. *)
RelayStopsAtDone(c) ==
    /\ hpc[c] = "wait"
    /\ LET item == IF events[c] = <<>> THEN <<>> ELSE <<Head(events[c])>>
       IN  /\ jdone[c] \/ item # <<>>
           /\ events' = [events EXCEPT ![c] = IF @ = <<>> THEN @ ELSE Tail(@)]
           /\ IF jdone[c]
              THEN Close(c, Ending(out[c] \o item # <<>>, jcode[c]))
              ELSE out' = [out EXCEPT ![c] = @ \o item] /\ UNCHANGED hpc
    /\ UNCHANGED <<mainVars, kind, gone, cancel, jdone, jcode, pushed, coordVars, inferVars>>

(* An iteration that takes an event from the job's queue, or finds the job *)
(* done and the queue empty.                                               *)
Relay(c) ==
    /\ hpc[c] = "wait"
    /\ LET item == IF events[c] = <<>> THEN <<>> ELSE <<Head(events[c])>>
           rest == IF events[c] = <<>> THEN <<>> ELSE Tail(events[c])
       IN  /\ jdone[c] \/ item # <<>>
           /\ events' = [events EXCEPT ![c] = rest]
           /\ IF jdone[c] /\ rest = <<>>
              THEN Close(c, item \o Ending(out[c] \o item # <<>>, jcode[c]))
              ELSE out' = [out EXCEPT ![c] = @ \o item] /\ UNCHANGED hpc
    /\ UNCHANGED <<mainVars, kind, gone, cancel, jdone, jcode, pushed, coordVars, inferVars>>

(* Coordinator::cancel marks the job first and takes the mutex afterwards. *)
StartCancel(c) ==
    /\ cancel' = [cancel EXCEPT ![c] = TRUE]
    /\ hpc' = [hpc EXCEPT ![c] = "cancel"]
    /\ UNCHANGED <<mainVars, kind, gone, out, jdone, jcode, pushed, coordVars, inferVars>>

SeesDisconnect(c) ==
    /\ hpc[c] = "wait" /\ gone[c]
    /\ StartCancel(c) /\ UNCHANGED events

(* A write of an event, already off the queue, or of a heartbeat fails.    *)
WriteFails(c) ==
    /\ hpc[c] = "wait" /\ gone[c]
    /\ events[c] # <<>>
    /\ events' = [events EXCEPT ![c] = Tail(@)]
    /\ StartCancel(c)

EndCancel(c) ==
    /\ hpc[c] = "cancel"
    /\ phase' = IF active = c THEN "cancelling" ELSE phase
    /\ hpc' = [hpc EXCEPT ![c] = "closed"]
    /\ UNCHANGED <<mainVars, kind, gone, out, jobVars, pending, active, stopping, ready, failed, inferVars>>

(* The catch block of handle(): an answer that cannot be built.            *)
HandleThrows(c) ==
    /\ hpc[c] = "wait"
    /\ cancel' = [cancel EXCEPT ![c] = @ \/ active = c]
    /\ Close(c, IF out[c] = <<>> THEN <<"error">> ELSE <<>>)
    /\ UNCHANGED <<mainVars, kind, gone, events, jdone, jcode, pushed, coordVars, inferVars>>

Handle(c) == Answer(c) \/ Admit(c) \/ Relay(c) \/ SeesDisconnect(c) \/ EndCancel(c)
-----------------------------------------------------------------------------
(* inference(): start up, then one job after another.                      *)
Initialized ==
    /\ ipc = "init"
    /\ ipc' = "idle" /\ executor' = "up"
    /\ ready' = TRUE /\ phase' = "ready"
    /\ UNCHANGED <<mainVars, connVars, jobVars, pending, active, stopping, failed, job, code, dirty>>

InitializeThrows ==
    /\ ipc = "init"
    /\ ipc' = "idle" /\ executor' = "none"
    /\ failed' = TRUE /\ phase' = "failed"
    /\ UNCHANGED <<mainVars, connVars, jobVars, pending, active, stopping, ready, job, code, dirty>>

TakeJob ==
    /\ ipc = "idle" /\ pending # None
    /\ ipc' = "start" /\ job' = pending /\ pending' = None
    /\ UNCHANGED <<mainVars, connVars, jobVars, active, stopping, ready, failed, phase, code, executor, dirty>>

(* Mutant of Exit: only a server that came up is stopped. *)
ExitWhenReady ==
    /\ ipc = "idle" /\ stopping /\ pending = None /\ ready
    /\ ipc' = "exited" /\ executor' = "none" /\ dirty' = FALSE
    /\ UNCHANGED <<mainVars, connVars, jobVars, coordVars, job, code>>

(* executor->drain and clear, whose failures are swallowed, and its end.   *)
Exit ==
    /\ ipc = "idle" /\ stopping /\ pending = None
    /\ ipc' = "exited" /\ executor' = "none" /\ dirty' = FALSE
    /\ UNCHANGED <<mainVars, connVars, jobVars, coordVars, job, code>>

Settle(result) ==
    /\ ipc' = "settle" /\ code' = result

(* A cancelled job is not started; a reset only clears the session.        *)
StartJob ==
    /\ ipc = "start"
    /\ CASE cancel[job]                          -> Settle("error") /\ UNCHANGED dirty
         [] ~cancel[job] /\ kind[job] = "reset"  -> Settle("ok") /\ UNCHANGED dirty
         [] OTHER -> ipc' = "run" /\ dirty' = TRUE /\ UNCHANGED code
    /\ UNCHANGED <<mainVars, connVars, jobVars, coordVars, job, executor>>

(* Job::push *)
Refuses(c) == cancel[c] \/ Len(events[c]) >= StreamLimit

Delta ==
    /\ ipc = "run" /\ kind[job] = "stream"
    /\ pushed[job] < MaxDeltas
    /\ IF Refuses(job)
       THEN /\ cancel' = [cancel EXCEPT ![job] = TRUE]
            /\ Settle("error")
            /\ UNCHANGED <<events, pushed>>
       ELSE /\ events' = [events EXCEPT ![job] = Append(@, "delta")]
            /\ pushed' = [pushed EXCEPT ![job] = @ + 1]
            /\ UNCHANGED <<cancel, ipc, code>>
    /\ UNCHANGED <<mainVars, connVars, jdone, jcode, coordVars, job, executor, dirty>>

(* Coordinator::progress *)
Progress ==
    /\ ipc = "run" /\ phase # "generating"
    /\ ~(active # None /\ cancel[active])
    /\ phase' = "generating"
    /\ UNCHANGED <<mainVars, connVars, jobVars, pending, active, stopping, ready, failed, inferVars>>

GenerateReturns ==
    /\ ipc = "run"
    /\ Settle(IF cancel[job] THEN "error" ELSE "ok")
    /\ UNCHANGED <<mainVars, connVars, jobVars, coordVars, job, executor, dirty>>

GenerateThrows ==
    /\ ipc = "run"
    /\ Settle("error")
    /\ UNCHANGED <<mainVars, connVars, jobVars, coordVars, job, executor, dirty>>

BeginDrain ==
    /\ ipc = "settle"
    /\ ipc' = "drain" /\ phase' = "draining"
    /\ UNCHANGED <<mainVars, connVars, jobVars, pending, active, stopping, ready, failed, job, code, executor, dirty>>

Drained ==
    /\ ipc = "drain"
    /\ ipc' = "announce" /\ dirty' = FALSE
    /\ UNCHANGED <<mainVars, connVars, jobVars, coordVars, job, code, executor>>

(* Mutant of Fails: the server goes on as if it had drained. *)
FailsUnnoticed ==
    /\ ipc' = "release" /\ code' = "error"
    /\ UNCHANGED <<mainVars, connVars, jobVars, coordVars, job, executor, dirty>>

(* drain() or recover() throws: the server stays up, and failed.           *)
Fails ==
    /\ ipc' = "release" /\ code' = "error"
    /\ failed' = TRUE /\ ready' = FALSE
    /\ UNCHANGED <<mainVars, connVars, jobVars, pending, active, stopping, phase, job, executor, dirty>>

DrainThrows == ipc = "drain" /\ Fails

(* The finish event of a stream, together with the usage event.            *)
Announce ==
    /\ ipc = "announce"
    /\ ipc' = "recover"
    /\ CASE code # "ok" -> UNCHANGED <<code, cancel, events>>
         [] code = "ok" /\ cancel[job] -> code' = "error" /\ UNCHANGED <<cancel, events>>
         [] code = "ok" /\ ~cancel[job] /\ kind[job] # "stream" -> UNCHANGED <<code, cancel, events>>
         [] code = "ok" /\ ~cancel[job] /\ kind[job] = "stream" ->
              IF Refuses(job)
              THEN code' = "error" /\ cancel' = [cancel EXCEPT ![job] = TRUE] /\ UNCHANGED events
              ELSE events' = [events EXCEPT ![job] = Append(@, "finish")] /\ UNCHANGED <<code, cancel>>
    /\ UNCHANGED <<mainVars, connVars, jdone, jcode, pushed, coordVars, job, executor, dirty>>

NeedsRecovery == code # "ok" \/ cancel[job]

Recovered ==
    /\ ipc = "recover"
    /\ ipc' = "release"
    /\ UNCHANGED <<mainVars, connVars, jobVars, coordVars, job, code, executor, dirty>>

RecoverThrows == ipc = "recover" /\ NeedsRecovery /\ Fails

Release ==
    /\ ipc = "release"
    /\ ipc' = "publish"
    /\ phase' = IF failed THEN "failed" ELSE "ready"
    /\ active' = None
    /\ UNCHANGED <<mainVars, connVars, jobVars, pending, stopping, ready, failed, job, code, executor, dirty>>

(* Mutant of Publish: a cancelled job is not marked done. *)
PublishUnlessCancelled ==
    /\ ipc = "publish"
    /\ ipc' = "idle" /\ code' = "ok"
    /\ jdone' = [jdone EXCEPT ![job] = ~cancel[job]] /\ jcode' = [jcode EXCEPT ![job] = code]
    /\ UNCHANGED <<mainVars, connVars, cancel, events, pushed, coordVars, job, executor, dirty>>

Publish ==
    /\ ipc = "publish"
    /\ ipc' = "idle" /\ code' = "ok"
    /\ jdone' = [jdone EXCEPT ![job] = TRUE] /\ jcode' = [jcode EXCEPT ![job] = code]
    /\ UNCHANGED <<mainVars, connVars, cancel, events, pushed, coordVars, job, executor, dirty>>

Inference ==
    \/ Initialized \/ InitializeThrows \/ TakeJob \/ Exit \/ StartJob
    \/ Delta \/ Progress \/ GenerateReturns \/ GenerateThrows
    \/ BeginDrain \/ Drained \/ DrainThrows \/ Announce \/ Recovered \/ RecoverThrows
    \/ Release \/ Publish
-----------------------------------------------------------------------------
Terminated == mpc = "exited" /\ UNCHANGED vars

Next ==
    \/ Shutdown \/ CloseSockets \/ Joined \/ Terminated
    \/ Dequeue
    \/ \E c \in Conn : Accept(c) \/ Disconnect(c) \/ Handle(c) \/ WriteFails(c) \/ HandleThrows(c)
    \/ Inference

Spec == Init /\ [][Next]_vars

(* Threads keep running and the executor's calls return; clients need not  *)
(* do anything.                                                            *)
FairSpec ==
    /\ Spec
    /\ WF_vars(Inference) /\ WF_vars(Dequeue) /\ WF_vars(CloseSockets \/ Joined)
    /\ \A c \in Conn : WF_vars(Handle(c))
-----------------------------------------------------------------------------
Written(c, item) == \E i \in 1 .. Len(out[c]) : out[c][i] = item
Count(s, item)   == Cardinality({i \in 1 .. Len(s) : s[i] = item})

(* "Do not admit another generation until every outstanding user has       *)
(* drained": a job is only pending or started when nothing of an earlier   *)
(* generation can still be using buffers, not even after a failed drain.   *)
AdmittedDrained == pending # None \/ ipc = "start" => ~dirty

(* No job reaches the inference thread without an executor, whatever the   *)
(* order of startup, failed startup, requests and shutdown.                *)
ServedByExecutor == pending # None \/ ipc \notin {"init", "idle", "exited"} => executor = "up"

(* "Success is only observable after draining succeeds": neither the       *)
(* finish event nor a 200 answer exists while the job's own generation may *)
(* have users outstanding.                                                 *)
SuccessAfterDrain ==
    \A c \in Conn :
        Written(c, "finish") \/ Written(c, "ok") \/ Count(events[c], "finish") > 0 =>
            ~(dirty /\ job = c)

(* A client that reads a stream to its end without an error object has     *)
(* seen every event that was generated, then the finish event.             *)
StreamComplete ==
    \A c \in Conn :
        Written(c, "done") /\ ~Written(c, "error") =>
            /\ Count(out[c], "delta") = pushed[c]
            /\ Len(out[c]) = pushed[c] + 2 /\ out[c][pushed[c] + 1] = "finish"

(* A finish event is never followed by an error object, unless the request *)
(* was cancelled after it.                                                 *)
FinishStands == \A c \in Conn : Written(c, "finish") /\ Written(c, "error") => cancel[c]

(* The status endpoint's phase settles: with no job active it says ready   *)
(* exactly when requests are admitted, and a failed engine says so.  A     *)
(* late cancellation of a finished job cannot leave it "cancelling".       *)
PhaseSettles ==
    active = None =>
        /\ phase \in {"loading", "ready", "failed"}
        /\ (phase = "ready") = ready
        /\ (phase = "failed") = failed

(* A generation is admitted only on a loaded, drained engine, and the      *)
(* status endpoint says which: through startup, failed drains, late        *)
(* cancellations and shutdown.                                             *)
AdmissionExact == TypeOK /\ AdmittedDrained /\ ServedByExecutor /\ PhaseSettles

(* What a client reads to its end is what was generated: no success before *)
(* the drain, no event missing before the finish, no error after it.       *)
AnswersExact == SuccessAfterDrain /\ StreamComplete /\ FinishStands

(* Every accepted connection is answered or closed, however its client and *)
(* the executor behave.                                                    *)
Answered == \A c \in Conn : hpc[c] \in {"queued", "read", "wait", "cancel"} ~> hpc[c] = "closed"

(* serve() returns after a stop request: no thread waits for another.      *)
ServeReturns == mpc # "serve" ~> mpc = "exited"
=============================================================================
