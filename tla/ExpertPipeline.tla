--------------------------- MODULE ExpertPipeline ---------------------------
(***************************************************************************)
(* execute_experts and ExpertTail of src/src/engine/pipeline.cpp, with the *)
(* command-group queue of src/src/engine/metal.mm they drive: the selected *)
(* experts of a layer are leased through a bounded window, encoded as      *)
(* their reads complete, submitted in groups, and released when the GPU    *)
(* has finished with them.                                                 *)
(*                                                                         *)
(* The coordinator, the read pool and the GPU run concurrently.  A read or *)
(* a command group completes in one step and publishes its completion      *)
(* event in a later one, as the worker and the completed handler do.  The  *)
(* 20 ms timeout of CompletionEvents::wait is left out, so that liveness   *)
(* shows it is never needed.  Command groups are numbered in submission    *)
(* order and complete in that order.                                       *)
(***************************************************************************)
EXTENDS Naturals, FiniteSets, Sequences, SequencesExt

CONSTANTS
    N,          \* experts selected, numbered in admission order
    Window,     \* min(32, cache capacity)
    GroupSize,  \* ready_group
    UseTail,    \* the caller passed an ExpertTail
    Coalesce,   \* coalesce_reads
    CanFail     \* reads, encodings and command groups may fail, requests be cancelled

ASSUME PipelineAssumption ==
    /\ N \in Nat /\ Window \in Nat \ {0} /\ GroupSize \in Nat \ {0}
    /\ UseTail \in BOOLEAN /\ Coalesce \in BOOLEAN /\ CanFail \in BOOLEAN
    /\ Coalesce => ~UseTail /\ N <= Window

VARIABLES
    pc,         \* where the coordinator is
    next,       \* experts admitted so far
    waiting,    \* leased experts not yet encoded
    at,         \* position of the encoding loop in waiting
    encoding,   \* experts of the group being encoded
    groups,     \* submitted groups whose leases are not yet released
    leases,     \* experts whose lease is held
    announced,  \* admitted() has been called
    progress,   \* this turn of the loop did something
    read,       \* state of each expert's read
    current,    \* is there an open command buffer, and which experts it uses
    cbs,        \* experts used by each submitted command buffer
    completed,  \* command buffers the GPU has finished
    reaped,     \* command buffers removed from Metal's pending queue
    bad,        \* finished command buffers that ended in an error
    unpublished, \* completions whose event is not yet published
    moved,      \* CompletionEvents: sequence_ differs from the ticket
    cancel,
    owner,      \* who called the Metal::finish in progress
    error       \* an exception has been raised

loopVars == <<next, waiting, at, encoding, groups, leases, announced, progress>>
gpuVars  == <<current, cbs, completed, reaped, bad>>
eventVars == <<unpublished, moved>>
vars == <<pc, next, waiting, at, encoding, groups, leases, announced, progress, read,
          current, cbs, completed, reaped, bad, unpublished, moved, cancel, owner, error>>
unwindVars == <<owner, error>>

Expert     == 1 .. N
GpuUsers   == current.users \cup UNION {cbs[i] : i \in completed + 1 .. Len(cbs)}
Closed     == [open |-> FALSE, users |-> {}]
Ready(e)   == read[e] \in {"ok", "failed"}

TypeOK ==
    /\ pc \in {"top", "metalReap", "reap", "admit", "encode", "submit", "handoff", "sleep",
               "tail", "finish", "finishWait", "finishThrew", "drain", "done", "failed"}
    /\ next \in 0 .. N
    /\ waiting \in Seq(Expert)
    /\ at \in 1 .. N + 1
    /\ encoding \subseteq Expert
    /\ groups \in Seq(1 .. Len(cbs))
    /\ leases \subseteq Expert
    /\ announced \in BOOLEAN /\ progress \in BOOLEAN /\ moved \in BOOLEAN /\ cancel \in BOOLEAN
    /\ read \in [Expert -> {"absent", "loading", "ok", "failed"}]
    /\ current \in [open : BOOLEAN, users : SUBSET Expert]
    /\ cbs \in Seq(SUBSET Expert)
    /\ completed \in 0 .. Len(cbs) /\ reaped \in 0 .. completed
    /\ bad \subseteq 1 .. completed
    /\ unpublished \in Nat
    /\ owner \in {"none", "catch", "destroy", "caller", "forward", "tail"}
    /\ error \in BOOLEAN

(* The caller has encoded the shared expert: the command buffer is open.   *)
Init ==
    /\ pc = "top"
    /\ next = 0 /\ waiting = <<>> /\ at = 1 /\ encoding = {} /\ groups = <<>> /\ leases = {}
    /\ announced = FALSE /\ progress = FALSE
    /\ read = [e \in Expert |-> "absent"]
    /\ current = [open |-> TRUE, users |-> {}]
    /\ cbs = <<>> /\ completed = 0 /\ reaped = 0 /\ bad = {}
    /\ unpublished = 0 /\ moved = FALSE
    /\ cancel = FALSE /\ owner = "none" /\ error = FALSE
-----------------------------------------------------------------------------
(* The loop.  Any throw leads to the catch block, which drains.            *)
Throw   == pc' = "finish" /\ owner' = "catch" /\ error' = TRUE
Goto(l) == pc' = l /\ UNCHANGED unwindVars

Top ==
    /\ pc = "top"
    /\ IF next < N \/ waiting # <<>> \/ groups # <<>>
       THEN Goto("metalReap") /\ moved' = FALSE        \* events->ticket()
       ELSE Goto("done") /\ UNCHANGED moved
    /\ UNCHANGED <<read, unpublished, cancel, loopVars, gpuVars>>

(* Metal::reap pops every finished command buffer and throws if one of     *)
(* them failed.                                                            *)
ReapThrows == \E i \in bad : i > reaped
MetalReap  == reaped' = completed

GpuReap ==
    /\ pc = "metalReap"
    /\ IF cancel
       THEN Throw /\ UNCHANGED reaped
       ELSE /\ MetalReap
            /\ IF ReapThrows THEN Throw ELSE Goto("reap")
    /\ UNCHANGED <<loopVars, read, current, cbs, completed, bad, eventVars, cancel>>

(* ExpertTail::Impl::reap releases the leases of finished groups, oldest   *)
(* first.  A group may finish between gpu.reap() and this.                 *)
FinishedGroups == {i \in DOMAIN groups : \A j \in 1 .. i : groups[j] <= completed}

ReleaseFinished ==
    LET n == Cardinality(FinishedGroups)
    IN  /\ groups' = SubSeq(groups, n + 1, Len(groups))
        /\ leases' = leases \ UNION {cbs[groups[i]] : i \in 1 .. n}

Reap ==
    /\ pc = "reap"
    /\ ReleaseFinished
    /\ progress' = (FinishedGroups # {})
    /\ Goto("admit")
    /\ UNCHANGED <<next, waiting, at, encoding, announced, read, gpuVars, eventVars, cancel>>

(* cache.acquire: a complete or failed record is hit, a loading one joined *)
(* or a miss submitted.  It may throw, as a cancelled loop does.           *)
Admit ==
    /\ pc = "admit"
    /\ next < N /\ Cardinality(leases) < Window
    /\ ~cancel
    /\ \E s \in {"loading", "ok"} \cup (IF CanFail THEN {"failed"} ELSE {}) :
          read' = [read EXCEPT ![next + 1] = s]
    /\ next' = next + 1
    /\ waiting' = Append(waiting, next + 1)
    /\ leases' = leases \cup {next + 1}
    /\ progress' = TRUE
    /\ UNCHANGED <<pc, at, encoding, groups, announced, gpuVars, eventVars, cancel, unwindVars>>

AdmitThrows ==
    /\ pc = "admit"
    /\ next < N /\ Cardinality(leases) < Window
    /\ cancel \/ CanFail
    /\ Throw
    /\ UNCHANGED <<loopVars, read, gpuVars, eventVars, cancel>>

MayEncode ==
    /\ Len(groups) < 2
    /\ Coalesce /\ cbs # <<>> => \A i \in DOMAIN waiting : Ready(waiting[i])

(* The window is full or everything is admitted: admitted() may run.       *)
Announce ==
    /\ pc = "admit"
    /\ next = N \/ Cardinality(leases) >= Window
    /\ announced' = (announced \/ next = N)
    /\ Goto(IF MayEncode THEN "encode" ELSE "handoff")
    /\ at' = 1
    /\ UNCHANGED <<next, waiting, encoding, groups, leases, progress, read, gpuVars, eventVars, cancel>>

GroupFull == Cardinality(encoding) >= IF Coalesce THEN Window ELSE GroupSize

EncodeSkip ==
    /\ pc = "encode"
    /\ at <= Len(waiting) /\ ~GroupFull
    /\ ~cancel
    /\ ~Ready(waiting[at])
    /\ at' = at + 1
    /\ UNCHANGED <<pc, next, waiting, encoding, groups, leases, announced, progress,
                   read, gpuVars, eventVars, cancel, unwindVars>>

(* A complete record leaves waiting for the group and is encoded.  The     *)
(* encoding may throw (cancelled, no memory) having used the record.       *)
EncodeExpert ==
    /\ pc = "encode"
    /\ at <= Len(waiting) /\ ~GroupFull
    /\ ~cancel
    /\ read[waiting[at]] = "ok"
    /\ waiting' = RemoveAt(waiting, at)
    /\ encoding' = encoding \cup {waiting[at]}
    /\ current' = [open |-> TRUE, users |-> current.users \cup {waiting[at]}]
    /\ Goto("encode") \/ (CanFail /\ Throw)
    /\ UNCHANGED <<next, at, groups, leases, announced, progress, read,
                   cbs, completed, reaped, bad, eventVars, cancel>>

(* A failed read throws out of wait(); the local Work drops its lease.     *)
EncodeFailedRead ==
    /\ pc = "encode"
    /\ at <= Len(waiting) /\ ~GroupFull
    /\ ~cancel
    /\ read[waiting[at]] = "failed"
    /\ waiting' = RemoveAt(waiting, at)
    /\ leases' = leases \ {waiting[at]}
    /\ Throw
    /\ UNCHANGED <<next, at, encoding, groups, announced, progress, read, gpuVars, eventVars, cancel>>

EncodeCancelled ==
    /\ pc = "encode"
    /\ at <= Len(waiting) /\ ~GroupFull
    /\ cancel
    /\ Throw
    /\ UNCHANGED <<loopVars, read, gpuVars, eventVars, cancel>>

EncodeEnds ==
    /\ pc = "encode"
    /\ at > Len(waiting) \/ GroupFull
    /\ Goto("submit")
    /\ UNCHANGED <<loopVars, read, gpuVars, eventVars, cancel>>

(* Metal::submit: reap, wait for the oldest of two pending command buffers *)
(* and reap it, commit the open one.  Nothing is committed when a reap     *)
(* throws.                                                                 *)
Commit ==
    /\ cbs' = Append(cbs, current.users)
    /\ current' = Closed

SubmitReady == (current.open => completed + 2 > Len(cbs)) \/ ReapThrows

Submit ==
    /\ pc = "submit"
    /\ SubmitReady
    /\ MetalReap
    /\ IF ReapThrows THEN Throw ELSE Goto("handoff")
    /\ IF current.open /\ ~ReapThrows
       THEN /\ Commit
            /\ groups' = Append(groups, Len(cbs) + 1)
            /\ encoding' = {}
            /\ progress' = TRUE
       ELSE UNCHANGED <<cbs, current, groups, encoding, progress>>
    /\ UNCHANGED <<next, waiting, at, leases, announced, read, completed, bad, eventVars, cancel>>

(* Mutant of Handoff: the ticket is taken just before the wait. *)
HandoffThenTicket ==
    /\ pc = "handoff"
    /\ IF UseTail /\ next = N /\ waiting = <<>> /\ groups # <<>>
       THEN IF cancel THEN Throw ELSE Goto("tail")
       ELSE Goto(IF ~progress /\ (waiting # <<>> \/ groups # <<>>) THEN "sleep" ELSE "top")
    /\ moved' = FALSE
    /\ UNCHANGED <<loopVars, read, gpuVars, unpublished, cancel>>

(* End of a turn: hand the rest over to the tail, go round, or sleep.      *)
Handoff ==
    /\ pc = "handoff"
    /\ IF UseTail /\ next = N /\ waiting = <<>> /\ groups # <<>>
       THEN IF cancel THEN Throw ELSE Goto("tail")
       ELSE Goto(IF ~progress /\ (waiting # <<>> \/ groups # <<>>) THEN "sleep" ELSE "top")
    /\ UNCHANGED <<loopVars, read, gpuVars, eventVars, cancel>>

(* events->wait(ticket) *)
Wake ==
    /\ pc = "sleep"
    /\ moved
    /\ Goto("top")
    /\ UNCHANGED <<loopVars, read, gpuVars, eventVars, cancel>>
-----------------------------------------------------------------------------
(* The caller encodes dependent work while the tail is pending, then calls *)
(* gpu.finish() and ExpertTail::finish(), or unwinds into forward_impl's   *)
(* catch block, which finishes, drains the reads and finishes the tail.    *)
TailEncode ==
    /\ pc = "tail"
    /\ ~current.open
    /\ current' = [open |-> TRUE, users |-> {}]
    /\ UNCHANGED <<pc, loopVars, read, cbs, completed, reaped, bad, eventVars, cancel, unwindVars>>

CallFinish(who) == pc' = "finish" /\ owner' = who

TailFinish ==
    /\ pc = "tail"
    /\ \/ CallFinish("caller") /\ UNCHANGED error
       \/ (CanFail \/ cancel) /\ CallFinish("forward") /\ error' = TRUE
    /\ UNCHANGED <<loopVars, read, gpuVars, eventVars, cancel>>

(* Mutant of FinishSubmit: the exception of submit() is swallowed. *)
FinishSwallows ==
    /\ pc = "finish"
    /\ SubmitReady
    /\ MetalReap
    /\ IF current.open /\ ~ReapThrows THEN Commit ELSE UNCHANGED <<cbs, current>>
    /\ pc' = "finishWait"
    /\ UNCHANGED <<loopVars, read, completed, bad, eventVars, cancel, owner, error>>

(* Metal::finish: submit, whose failure is kept, wait for every pending    *)
(* command buffer, reap.  A submit that threw left the open one alone.     *)
FinishSubmit ==
    /\ pc = "finish"
    /\ SubmitReady
    /\ MetalReap
    /\ IF current.open /\ ~ReapThrows THEN Commit ELSE UNCHANGED <<cbs, current>>
    /\ pc' = IF ReapThrows THEN "finishThrew" ELSE "finishWait"
    /\ error' = (error \/ ReapThrows)
    /\ UNCHANGED <<loopVars, read, completed, bad, eventVars, cancel, owner>>

FinishThrows == pc = "finishThrew" \/ ReapThrows

(* Finish returns to its caller.  ExpertTail::finish reaps the groups when *)
(* it succeeded and destroys the Impl when it threw.                       *)
FinishWaited ==
    /\ pc \in {"finishWait", "finishThrew"}
    /\ completed = Len(cbs)
    /\ MetalReap
    /\ error' = (error \/ ReapThrows)
    /\ \/ /\ owner \in {"catch", "forward", "destroy"}
          /\ pc' = "drain"
          /\ UNCHANGED <<loopVars, owner>>
       \/ /\ owner = "caller"
          /\ CallFinish(IF FinishThrows THEN "forward" ELSE "tail")
          /\ UNCHANGED loopVars
       \/ /\ owner = "tail" /\ FinishThrows
          /\ CallFinish("destroy")
          /\ UNCHANGED loopVars
       \/ /\ owner = "tail" /\ ~FinishThrows
          /\ ReleaseFinished
          /\ pc' = "done"
          /\ UNCHANGED <<next, waiting, at, encoding, announced, progress, owner>>
    /\ UNCHANGED <<read, current, cbs, completed, bad, eventVars, cancel>>

(* Mutant of InUse: ~Impl forgets the group being encoded. *)
InUseWithoutEncoding == waiting # <<>> \/ groups # <<>>

InUse == waiting # <<>> \/ groups # <<>> \/ encoding # {}

(* reads.drain() has returned.  After the catch block ~Impl finishes and   *)
(* drains once more if it still owns anything; then the leases go.         *)
Drained ==
    /\ pc = "drain"
    /\ \A e \in Expert : read[e] # "loading"
    /\ \/ /\ owner = "forward"
          /\ CallFinish("tail")
          /\ UNCHANGED <<waiting, groups, encoding, leases>>
       \/ /\ owner = "catch" /\ InUse
          /\ CallFinish("destroy")
          /\ UNCHANGED <<waiting, groups, encoding, leases>>
       \/ /\ owner = "catch" => ~InUse
          /\ owner # "forward"
          /\ pc' = "failed"
          /\ waiting' = <<>> /\ groups' = <<>> /\ encoding' = {} /\ leases' = {}
          /\ UNCHANGED owner
    /\ UNCHANGED <<next, at, announced, progress, read, gpuVars, eventVars, cancel, error>>
-----------------------------------------------------------------------------
(* The other threads.  A worker completes a read, the GPU a command group; *)
(* each publishes its event afterwards.                                    *)
ReadCompletes(e) ==
    /\ read[e] = "loading"
    /\ \E s \in {"ok"} \cup (IF CanFail THEN {"failed"} ELSE {}) : read' = [read EXCEPT ![e] = s]
    /\ unpublished' = unpublished + 1
    /\ UNCHANGED <<pc, loopVars, gpuVars, moved, cancel, unwindVars>>

GpuCompletes ==
    /\ completed < Len(cbs)
    /\ completed' = completed + 1
    /\ \/ bad' = bad
       \/ CanFail /\ bad' = bad \cup {completed + 1}
    /\ unpublished' = unpublished + 1
    /\ UNCHANGED <<pc, loopVars, read, current, cbs, reaped, moved, cancel, unwindVars>>

Publish ==
    /\ unpublished > 0
    /\ unpublished' = unpublished - 1
    /\ moved' = TRUE
    /\ UNCHANGED <<pc, loopVars, read, gpuVars, cancel, unwindVars>>

(* The client disconnects, the user interrupts. *)
Cancel ==
    /\ CanFail /\ ~cancel
    /\ cancel' = TRUE
    /\ UNCHANGED <<pc, loopVars, read, gpuVars, eventVars, unwindVars>>

(* The loop has returned or rethrown.                                      *)
Returned ==
    /\ pc \in {"done", "failed"}
    /\ UNCHANGED vars

Coordinator ==
    \/ Top \/ GpuReap \/ Reap \/ Admit \/ AdmitThrows \/ Announce
    \/ EncodeSkip \/ EncodeExpert \/ EncodeFailedRead \/ EncodeCancelled \/ EncodeEnds
    \/ Submit \/ Handoff \/ Wake \/ TailFinish \/ FinishSubmit \/ FinishWaited \/ Drained

Next ==
    \/ Coordinator
    \/ TailEncode \/ Cancel
    \/ (\E e \in Expert : ReadCompletes(e)) \/ GpuCompletes \/ Publish
    \/ Returned

Spec == Init /\ [][Next]_vars

(* The coordinator keeps running, preads and command buffers complete and  *)
(* their completion handlers run on.                                       *)
FairSpec ==
    /\ Spec
    /\ WF_vars(Coordinator)
    /\ \A e \in Expert : WF_vars(ReadCompletes(e))
    /\ WF_vars(GpuCompletes)
    /\ WF_vars(Publish)
-----------------------------------------------------------------------------
(* No cache slot is unpinned while a GPU user of it is encoded, submitted  *)
(* or running, on the success path, on every unwinding path and while the  *)
(* tail is pending: pipeline.cpp, ~Impl, "cannot release a cache slot      *)
(* while its GPU user is outstanding".                                     *)
LeaseCoversGpu == GpuUsers \subseteq leases

(* The loop never pins more slots than the window, which the cache can     *)
(* hold, and keeps at most two groups and two uncompleted command buffers. *)
WindowBound ==
    /\ Cardinality(leases) <= Window
    /\ Len(groups) <= 2
    /\ Len(cbs) - completed <= 2

(* Whatever the order of completions, no expert is encoded twice, and when *)
(* execute_experts (or its tail) reports, every selected expert has been   *)
(* computed by exactly one finished command buffer.                        *)
ComputedOnce ==
    \A e \in Expert :
        LET uses == {i \in DOMAIN cbs : e \in cbs[i]}
        IN  /\ Cardinality(uses) + (IF e \in current.users THEN 1 ELSE 0) <= 1
            /\ pc = "done" => uses # {} /\ uses \subseteq 1 .. completed

(* A command group that ended in an error is never forgotten: once Metal   *)
(* has dropped it from its pending queue an exception has been raised.     *)
ErrorsSurface == (\E i \in bad : i <= reaped) => error

(* The slots a call pins are those its GPU users need, and no more than    *)
(* its window, at every point of the loop, of the unwinding and the tail.  *)
LeasesExact == TypeOK /\ LeaseCoversGpu /\ WindowBound

(* A call that reports success has computed every expert once, and one     *)
(* whose command buffer failed does not report success.                    *)
OutcomeExact == ComputedOnce /\ ErrorsSurface

(* Every completion is eventually acted on without the 20 ms timeout: the  *)
(* ticket taken at the top of the loop misses no event, and the call, its  *)
(* catch block and the tail all return.                                    *)
Returns == <>(pc \in {"done", "failed"})

(* pipeline.hpp: "`admitted` runs once, after every selected expert holds  *)
(* a lease and before any is encoded".                                     *)
AdmittedBeforeEncoding ==
    [][announced' # announced =>
        leases = Expert /\ encoding = {} /\ \A i \in DOMAIN cbs : cbs[i] = {}]_vars
=============================================================================
