------------------------------ MODULE ReadPool ------------------------------
(***************************************************************************)
(* class ReadPool of src/src/engine/storage.cpp: persistent worker threads *)
(* serving two FIFO queues (demand reads before speculative ones) behind   *)
(* one mutex and three condition variables.                                *)
(*                                                                         *)
(* A step is one critical section of mutex_, or what a thread does between *)
(* two of them.  A thread asleep on a condition variable is in a wait      *)
(* state and only a notification moves it; spurious wakeups, which would   *)
(* only help, are left out.  A task stands for one packaged read; it may   *)
(* be submitted again once it is finished.                                 *)
(***************************************************************************)
EXTENDS Naturals, FiniteSets, Sequences, SequencesExt

CONSTANTS
    Task,      \* reads
    Worker,    \* workers_
    Caller,    \* threads that call submit, promote and drain
    Limit,     \* limit_
    NoTask

ASSUME PoolAssumption ==
    /\ IsFiniteSet(Worker) /\ Worker # {}
    /\ IsFiniteSet(Task)
    /\ Limit \in Nat /\ Limit >= 2      \* checked by the constructor
    /\ NoTask \notin Task

VARIABLES
    demand,    \* demand_
    future,    \* future_
    active,    \* active_
    stopping,  \* stopping_
    wpc,       \* where each worker is
    task,      \* the task each worker holds
    cpc,       \* where each caller is
    want       \* the blocked submit's arguments

vars == <<demand, future, active, stopping, wpc, task, cpc, want>>

Priority == {"Demand", "Future"}
NoWant   == [task |-> NoTask, priority |-> "Demand"]
Want     == [task : Task, priority : Priority]

WorkerState == {"check", "wait", "run", "finish", "exit"}
CallerState == {"idle", "waitSpace", "wokenSpace", "waitDrained", "wokenDrained", "refused"}

Queued    == Range(demand) \cup Range(future)
Held      == {task[w] : w \in {v \in Worker : wpc[v] = "run"}}
Requested == {want[c].task : c \in Caller}

TypeOK ==
    /\ demand \in Seq(Task)
    /\ future \in Seq(Task)
    /\ active \in Nat
    /\ stopping \in BOOLEAN
    /\ wpc \in [Worker -> WorkerState]
    /\ task \in [Worker -> Task \cup {NoTask}]
    /\ cpc \in [Caller -> CallerState]
    /\ want \in [Caller -> Want \cup {NoWant}]

Init ==
    /\ demand = <<>>
    /\ future = <<>>
    /\ active = 0
    /\ stopping = FALSE
    /\ wpc = [w \in Worker |-> "check"]
    /\ task = [w \in Worker |-> NoTask]
    /\ cpc = [c \in Caller |-> "idle"]
    /\ want = [c \in Caller |-> NoWant]
-----------------------------------------------------------------------------
(* Condition variables. *)
Asleep == {w \in Worker : wpc[w] = "wait"}
Awake  == {w \in Worker : wpc[w] = "check"}

(* ready_.notify_one() *)
NotifyOneReady ==
    IF Asleep = {} THEN UNCHANGED wpc
    ELSE \E w \in Asleep : wpc' = [wpc EXCEPT ![w] = "check"]

(* notify_all on a condition variable callers sleep on. *)
Woken(from, to) == [c \in Caller |-> IF cpc[c] = from THEN to ELSE cpc[c]]
-----------------------------------------------------------------------------
(* Mutant of Room: the limit is off by one. *)
RoomOffByOne(priority) ==
    /\ Len(demand) + Len(future) <= Limit
    /\ priority = "Future" => Len(future) < Limit \div 2

(* submit *)
Room(priority) ==
    /\ Len(demand) + Len(future) < Limit
    /\ priority = "Future" => Len(future) < Limit \div 2

(* Mutant of Accept: the task is queued but ready_ is not notified. *)
AcceptSilently(c, t, priority) ==
    /\ ~stopping
    /\ Room(priority)
    /\ demand' = IF priority = "Demand" THEN Append(demand, t) ELSE demand
    /\ future' = IF priority = "Future" THEN Append(future, t) ELSE future
    /\ cpc' = [cpc EXCEPT ![c] = "idle"]
    /\ want' = [want EXCEPT ![c] = NoWant]
    /\ UNCHANGED <<active, stopping, wpc, task>>

Accept(c, t, priority) ==
    /\ ~stopping
    /\ Room(priority)
    /\ demand' = IF priority = "Demand" THEN Append(demand, t) ELSE demand
    /\ future' = IF priority = "Future" THEN Append(future, t) ELSE future
    /\ NotifyOneReady
    /\ cpc' = [cpc EXCEPT ![c] = "idle"]
    /\ want' = [want EXCEPT ![c] = NoWant]
    /\ UNCHANGED <<active, stopping, task>>

Block(c, t, priority) ==
    /\ ~stopping
    /\ ~Room(priority)
    /\ cpc' = [cpc EXCEPT ![c] = "waitSpace"]
    /\ want' = [want EXCEPT ![c] = [task |-> t, priority |-> priority]]
    /\ UNCHANGED <<demand, future, active, stopping, wpc, task>>

Refuse(c) ==
    /\ stopping
    /\ cpc' = [cpc EXCEPT ![c] = "refused"]
    /\ want' = [want EXCEPT ![c] = NoWant]
    /\ UNCHANGED <<demand, future, active, stopping, wpc, task>>

Submit(c, t, priority) ==
    /\ cpc[c] = "idle"
    /\ t \notin Queued \cup Held \cup Requested
    /\ Accept(c, t, priority) \/ Block(c, t, priority) \/ Refuse(c)

SubmitWoken(c) ==
    /\ cpc[c] = "wokenSpace"
    /\ \/ Accept(c, want[c].task, want[c].priority)
       \/ Block(c, want[c].task, want[c].priority)
       \/ Refuse(c)

(* promote: to the back of the demand queue; space_ is not notified.       *)
Promote(c, t) ==
    /\ cpc[c] = "idle"
    /\ \E i \in DOMAIN future :
          /\ future[i] = t
          /\ future' = RemoveAt(future, i)
    /\ demand' = Append(demand, t)
    /\ NotifyOneReady
    /\ UNCHANGED <<active, stopping, task, cpc, want>>
-----------------------------------------------------------------------------
(* drain *)
Quiet == demand = <<>> /\ future = <<>> /\ active = 0

DrainReturn(c) ==
    /\ cpc[c] \in {"idle", "wokenDrained"}
    /\ Quiet
    /\ cpc' = [cpc EXCEPT ![c] = "idle"]
    /\ UNCHANGED <<demand, future, active, stopping, wpc, task, want>>

DrainWait(c) ==
    /\ cpc[c] \in {"idle", "wokenDrained"}
    /\ ~Quiet
    /\ cpc' = [cpc EXCEPT ![c] = "waitDrained"]
    /\ UNCHANGED <<demand, future, active, stopping, wpc, task, want>>

(* Mutant of Stop: ready_ is not notified. *)
StopForgetsWorkers ==
    /\ ~stopping
    /\ stopping' = TRUE
    /\ cpc' = Woken("waitSpace", "wokenSpace")
    /\ UNCHANGED <<demand, future, active, wpc, task, want>>

(* ~ReadPool: every sleeping worker and submitter is notified.             *)
Stop ==
    /\ ~stopping
    /\ stopping' = TRUE
    /\ wpc' = [w \in Worker |-> IF wpc[w] = "wait" THEN "check" ELSE wpc[w]]
    /\ cpc' = Woken("waitSpace", "wokenSpace")
    /\ UNCHANGED <<demand, future, active, task, want>>
-----------------------------------------------------------------------------
(* Mutant of WorkerTake: speculative reads are looked at first. *)
TakeFutureFirst(w) ==
    /\ wpc[w] = "check"
    /\ \/ /\ future # <<>>
          /\ task' = [task EXCEPT ![w] = Head(future)]
          /\ future' = Tail(future)
          /\ UNCHANGED demand
       \/ /\ future = <<>> /\ demand # <<>>
          /\ task' = [task EXCEPT ![w] = Head(demand)]
          /\ demand' = Tail(demand)
          /\ UNCHANGED future
    /\ active' = active + 1
    /\ wpc' = [wpc EXCEPT ![w] = "run"]
    /\ cpc' = Woken("waitSpace", "wokenSpace")
    /\ UNCHANGED <<stopping, want>>

(* worker *)
WorkerTake(w) ==
    /\ wpc[w] = "check"
    /\ \/ /\ demand # <<>>
          /\ task' = [task EXCEPT ![w] = Head(demand)]
          /\ demand' = Tail(demand)
          /\ UNCHANGED future
       \/ /\ demand = <<>>
          /\ future # <<>>
          /\ task' = [task EXCEPT ![w] = Head(future)]
          /\ future' = Tail(future)
          /\ UNCHANGED demand
    /\ active' = active + 1
    /\ wpc' = [wpc EXCEPT ![w] = "run"]
    /\ cpc' = Woken("waitSpace", "wokenSpace")
    /\ UNCHANGED <<stopping, want>>

(* Mutant of WorkerSleep: a stopping pool abandons its queue. *)
ExitAtOnce(w) ==
    /\ wpc[w] = "check"
    /\ stopping \/ (demand = <<>> /\ future = <<>>)
    /\ wpc' = [wpc EXCEPT ![w] = IF stopping THEN "exit" ELSE "wait"]
    /\ UNCHANGED <<demand, future, active, stopping, task, cpc, want>>

WorkerSleep(w) ==
    /\ wpc[w] = "check"
    /\ demand = <<>> /\ future = <<>>
    /\ wpc' = [wpc EXCEPT ![w] = IF stopping THEN "exit" ELSE "wait"]
    /\ UNCHANGED <<demand, future, active, stopping, task, cpc, want>>

(* The packaged task runs, its future becomes ready (with a value or with  *)
(* the exception of a failed read) and a completion event is published.    *)
WorkerRun(w) ==
    /\ wpc[w] = "run"
    /\ wpc' = [wpc EXCEPT ![w] = "finish"]
    /\ task' = [task EXCEPT ![w] = NoTask]
    /\ UNCHANGED <<demand, future, active, stopping, cpc, want>>

(* Mutant of WorkerFinish: drained_ is not notified. *)
FinishSilently(w) ==
    /\ wpc[w] = "finish"
    /\ active' = active - 1
    /\ wpc' = [wpc EXCEPT ![w] = "check"]
    /\ UNCHANGED <<demand, future, stopping, task, cpc, want>>

(* Mutant of WorkerFinish: active_ is counted down twice. *)
FinishTwice(w) ==
    /\ wpc[w] = "finish"
    /\ active' = active - 2
    /\ wpc' = [wpc EXCEPT ![w] = "check"]
    /\ UNCHANGED <<demand, future, stopping, task, cpc, want>>

WorkerFinish(w) ==
    /\ wpc[w] = "finish"
    /\ active' = active - 1
    /\ wpc' = [wpc EXCEPT ![w] = "check"]
    /\ cpc' = IF active' = 0 /\ demand = <<>> /\ future = <<>>
              THEN Woken("waitDrained", "wokenDrained") ELSE cpc
    /\ UNCHANGED <<demand, future, stopping, task, want>>

(* Every worker has been joined: the pool no longer exists.                *)
Joined ==
    /\ \A w \in Worker : wpc[w] = "exit"
    /\ UNCHANGED vars
-----------------------------------------------------------------------------
Next ==
    \/ \E c \in Caller, t \in Task, priority \in Priority : Submit(c, t, priority)
    \/ \E c \in Caller, t \in Task : Promote(c, t)
    \/ \E c \in Caller : SubmitWoken(c) \/ DrainReturn(c) \/ DrainWait(c)
    \/ \E w \in Worker : WorkerTake(w) \/ WorkerSleep(w) \/ WorkerRun(w) \/ WorkerFinish(w)
    \/ Stop
    \/ Joined

Spec == Init /\ [][Next]_vars

(* Threads keep running: a worker that can step does, a notified caller    *)
(* gets the mutex.  Callers are not obliged to call.                       *)
Fairness ==
    /\ \A w \in Worker : WF_vars(WorkerTake(w) \/ WorkerSleep(w) \/ WorkerRun(w) \/ WorkerFinish(w))
    /\ \A c \in Caller : /\ WF_vars(SubmitWoken(c))
                         /\ WF_vars(cpc[c] = "wokenDrained" /\ (DrainReturn(c) \/ DrainWait(c)))

FairSpec == Spec /\ Fairness
-----------------------------------------------------------------------------
(* Safety *)

(* active_ counts exactly the workers between taking a task and finishing  *)
(* it, so that drain() cannot return while a read still writes its buffer. *)
ActiveCounts ==
    active = Cardinality({w \in Worker : wpc[w] \in {"run", "finish"}})

(* The queues never exceed limit_, and guesses leave half of it to demand, *)
(* whatever promote() moves between them.                                  *)
QueueBounds ==
    /\ Len(demand) + Len(future) <= Limit
    /\ Len(future) <= Limit \div 2

(* notify_one is enough: whenever a worker sleeps on ready_, every queued  *)
(* task already has an awake worker on its way to take it.                 *)
WorkConserving ==
    Asleep # {} => Len(demand) + Len(future) <= Cardinality(Awake)

(* No caller sleeps on a condition variable nobody will notify: a blocked  *)
(* submit always has a queued task whose start notifies space_ (promote    *)
(* frees future room without notifying), and a blocked drain always has    *)
(* work whose end notifies drained_.                                       *)
NoLostWakeup ==
    \A c \in Caller :
        /\ cpc[c] = "waitSpace" => Len(demand) + Len(future) > 0 /\ ~stopping
        /\ cpc[c] = "waitDrained" => ~Quiet

(* A worker only exits after every accepted task has been taken, so the    *)
(* destructor never breaks the promise of a queued read.                   *)
ExitLeavesNothing ==
    (\E w \in Worker : wpc[w] = "exit") => stopping /\ demand = <<>> /\ future = <<>>

(* The pool implements ReadService: queue order, threads and condition     *)
(* variables are invisible to its users.                                   *)
Service == INSTANCE ReadService
    WITH demandQ <- Range(demand), futureQ <- Range(future), running <- Held

ImplementsService == Service!Spec
-----------------------------------------------------------------------------
(* Liveness *)

(* A demand read, submitted or promoted, is always finished.               *)
DemandServed == \A t \in Task : t \in Range(demand) ~> t \notin Queued \cup Held

(* The destructor terminates: every worker exits, every accepted read has  *)
(* run and no submit or drain is left asleep.                              *)
StopTerminates ==
    stopping ~> /\ \A w \in Worker : wpc[w] = "exit"
                /\ Quiet
                /\ \A c \in Caller : cpc[c] \in {"idle", "refused"}

(* With threads that are scheduled, no demand read is forgotten and the    *)
(* destructor ends.                                                        *)
PoolLive == DemandServed /\ StopTerminates
=============================================================================
