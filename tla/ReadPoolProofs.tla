--------------------------- MODULE ReadPoolProofs ---------------------------
(***************************************************************************)
(* Proofs about ReadPool for any number of workers, callers and tasks and  *)
(* any queue limit: the type invariant, the queue bounds, the counting of  *)
(* active reads, the absence of lost wakeups, and that every step of the   *)
(* pool is a step of the read service its clients are modelled against.    *)
(***************************************************************************)
EXTENDS ReadPool, QueueLemmas, FiniteSetTheorems, SequenceTheorems, TLAPS

Busy == {w \in Worker : wpc[w] \in {"run", "finish"}}

(* The inductive invariant.  NoLostWakeup needs the types (Limit and the   *)
(* queue lengths are numbers); the other parts are independent.            *)
PoolInv ==
    /\ TypeOK
    /\ ActiveCounts
    /\ QueueBounds
    /\ WorkConserving
    /\ NoLostWakeup
    /\ ExitLeavesNothing

(* A blocked submit remembers a real request.                              *)
WantInv == \A c \in Caller : cpc[c] \in {"waitSpace", "wokenSpace"} => want[c] \in Want

(* The sets of sleeping, awake and busy workers are finite.                *)
LEMMA FiniteWorkers ==
    ASSUME TypeOK
    PROVE  IsFiniteSet(Awake) /\ IsFiniteSet(Busy) /\ Cardinality(Awake) \in Nat
  BY PoolAssumption, FS_Subset, FS_CardinalityType DEF Awake, Busy

(* What notify_one does to the awake workers: one more, if any slept.      *)
LEMMA NotifyAwake ==
    ASSUME TypeOK, NotifyOneReady
    PROVE  /\ wpc' \in [Worker -> WorkerState]
           /\ Busy' = Busy
           /\ Asleep # {} => Cardinality(Awake') = Cardinality(Awake) + 1
           /\ Asleep = {} => Asleep' = {}
           /\ \A w \in Worker : wpc'[w] = "exit" <=> wpc[w] = "exit"
  <1>1. CASE Asleep = {}
    BY <1>1 DEF NotifyOneReady, Asleep, Busy, TypeOK
  <1>2. CASE Asleep # {}
    <2>1. PICK w \in Asleep : wpc' = [wpc EXCEPT ![w] = "check"]
      BY <1>2 DEF NotifyOneReady
    <2>2. Awake' = Awake \cup {w} /\ w \notin Awake
      BY <2>1 DEF Awake, Asleep, TypeOK
    <2>3. Cardinality(Awake') = Cardinality(Awake) + 1
      BY <2>2, FiniteWorkers, FS_AddElement
    <2>4. QED
      BY <1>2, <2>1, <2>3 DEF Asleep, Busy, TypeOK, WorkerState
  <1>3. QED
    BY <1>1, <1>2

(* The constructor establishes the invariant.                              *)
LEMMA PoolInit == Init => PoolInv
  <1> SUFFICES ASSUME Init PROVE PoolInv
    OBVIOUS
  <1>1. TypeOK
    <2>1. demand \in Seq(Task) /\ future \in Seq(Task) /\ active \in Nat
      BY DEF Init
    <2>2. stopping \in BOOLEAN
      BY Zenon DEF Init
    <2>3. wpc \in [Worker -> WorkerState] /\ cpc \in [Caller -> CallerState]
      BY DEF Init, WorkerState, CallerState
    <2>4. task \in [Worker -> Task \cup {NoTask}] /\ want \in [Caller -> Want \cup {NoWant}]
      BY DEF Init
    <2>5. QED
      BY <2>1, <2>2, <2>3, <2>4 DEF TypeOK
  <1>2. ActiveCounts
    <2>1. {w \in Worker : wpc[w] \in {"run", "finish"}} = {}
      BY DEF Init
    <2>2. QED
      BY <2>1, FS_EmptySet DEF ActiveCounts, Init
  <1>3. QED
    BY <1>1, <1>2, PoolAssumption
    DEF PoolInv, Init, QueueBounds, WorkConserving, NoLostWakeup, ExitLeavesNothing, Asleep

(* A submit that finds room keeps the invariant.                           *)
LEMMA AcceptKeeps ==
    ASSUME PoolInv, NEW c \in Caller, NEW t \in Task, NEW priority \in Priority,
           Accept(c, t, priority)
    PROVE  PoolInv'
  <1>0. TypeOK /\ NotifyOneReady
    BY DEF PoolInv, Accept
  <1>1. /\ demand' \in Seq(Task) /\ future' \in Seq(Task)
        /\ Len(demand') + Len(future') = Len(demand) + Len(future) + 1
        /\ Len(future') = IF priority = "Future" THEN Len(future) + 1 ELSE Len(future)
    <2>1. CASE priority = "Demand"
      BY <1>0, <2>1 DEF Accept, TypeOK
    <2>2. CASE priority = "Future"
      BY <1>0, <2>2 DEF Accept, TypeOK
    <2>3. QED
      BY <2>1, <2>2 DEF Priority
  <1>2. TypeOK'
    BY <1>0, <1>1, NotifyAwake DEF Accept, TypeOK, CallerState
  <1>3. ActiveCounts'
    BY <1>0, NotifyAwake DEF PoolInv, ActiveCounts, Accept, Busy
  <1>4. QueueBounds'
    <2>1. Limit \div 2 \in Nat
      BY PoolAssumption
    <2>2. Room(priority) /\ QueueBounds
      BY DEF Accept, PoolInv
    <2>3. Len(demand') + Len(future') <= Limit
      BY <1>0, <1>1, <2>2, PoolAssumption DEF Room, TypeOK
    <2>4. Len(future') <= Limit \div 2
      BY <1>0, <1>1, <2>1, <2>2 DEF Room, QueueBounds, TypeOK
    <2>5. QED
      BY <2>3, <2>4 DEF QueueBounds
  <1>5. WorkConserving'
    <2>1. CASE Asleep = {}
      BY <2>1, <1>0, NotifyAwake DEF WorkConserving
    <2>2. CASE Asleep # {}
      BY <2>2, <1>0, <1>1, NotifyAwake, FiniteWorkers DEF PoolInv, WorkConserving, TypeOK
    <2>3. QED
      BY <2>1, <2>2
  <1>6. NoLostWakeup'
    <2>1. Len(demand') + Len(future') > 0
      BY <1>0, <1>1 DEF TypeOK
    <2>2. ~Quiet'
      BY <2>1 DEF Quiet
    <2>3. ~stopping'
      BY Zenon DEF Accept
    <2>4. QED
      BY <2>1, <2>2, <2>3 DEF NoLostWakeup
  <1>7. ExitLeavesNothing'
    BY <1>0, NotifyAwake DEF PoolInv, ExitLeavesNothing, Accept
  <1>8. QED
    BY <1>2, <1>3, <1>4, <1>5, <1>6, <1>7 DEF PoolInv

(* A submit that goes to sleep on space_ keeps the invariant.              *)
LEMMA BlockKeeps ==
    ASSUME PoolInv, NEW c \in Caller, NEW t \in Task, NEW priority \in Priority,
           Block(c, t, priority)
    PROVE  PoolInv'
  <1>1. TypeOK'
    BY DEF PoolInv, Block, TypeOK, CallerState, Want
  <1>2. Len(demand) + Len(future) > 0
    BY PoolAssumption DEF Block, Room, PoolInv, TypeOK
  <1>3. NoLostWakeup'
    BY <1>2 DEF PoolInv, NoLostWakeup, Block, TypeOK, Quiet
  <1>4. QED
    BY <1>1, <1>3
    DEF PoolInv, Block, ActiveCounts, QueueBounds, WorkConserving, ExitLeavesNothing, Asleep, Awake

(* A submit refused by a stopping pool keeps the invariant.                *)
LEMMA RefuseKeeps ==
    ASSUME PoolInv, NEW c \in Caller, Refuse(c)
    PROVE  PoolInv'
  <1>1. TypeOK'
    BY DEF PoolInv, Refuse, TypeOK, CallerState
  <1>2. NoLostWakeup'
    BY DEF PoolInv, NoLostWakeup, Refuse, TypeOK, Quiet
  <1>3. QED
    BY <1>1, <1>2
    DEF PoolInv, Refuse, ActiveCounts, QueueBounds, WorkConserving, ExitLeavesNothing, Asleep, Awake

(* promote keeps the invariant although it notifies no submitter.          *)
LEMMA PromoteKeeps ==
    ASSUME PoolInv, NEW c \in Caller, NEW t \in Task, Promote(c, t)
    PROVE  PoolInv'
  <1>0. TypeOK /\ NotifyOneReady
    BY DEF PoolInv, Promote
  <1>1. /\ demand' \in Seq(Task) /\ future' \in Seq(Task)
        /\ Len(demand') = Len(demand) + 1
        /\ Len(future') = Len(future) - 1
    BY <1>0, RemoveAtLen DEF Promote, TypeOK
  <1>2. TypeOK'
    BY <1>0, <1>1, NotifyAwake DEF Promote, TypeOK
  <1>3. ActiveCounts'
    BY <1>0, NotifyAwake DEF PoolInv, ActiveCounts, Promote, Busy
  <1>4. QueueBounds'
    <2>1. Limit \div 2 \in Nat /\ Limit \in Nat
      BY PoolAssumption
    <2>2. QED
      BY <1>0, <1>1, <2>1 DEF PoolInv, QueueBounds, TypeOK
  <1>5. WorkConserving'
    <2>1. CASE Asleep = {}
      BY <2>1, <1>0, NotifyAwake DEF WorkConserving
    <2>2. CASE Asleep # {}
      BY <2>2, <1>0, <1>1, NotifyAwake, FiniteWorkers DEF PoolInv, WorkConserving, TypeOK
    <2>3. QED
      BY <2>1, <2>2
  <1>6. NoLostWakeup'
    <2>1. Len(demand') + Len(future') > 0 /\ ~Quiet'
      BY <1>0, <1>1 DEF TypeOK, Quiet
    <2>2. QED
      BY <2>1 DEF PoolInv, NoLostWakeup, Promote
  <1>7. ExitLeavesNothing'
    <2>1. future # <<>>
      BY <1>0 DEF Promote, TypeOK
    <2>2. QED
      BY <1>0, <2>1, NotifyAwake DEF PoolInv, ExitLeavesNothing
  <1>8. QED
    BY <1>2, <1>3, <1>4, <1>5, <1>6, <1>7 DEF PoolInv

(* drain, returning or going to sleep, keeps the invariant.                *)
LEMMA DrainKeeps ==
    ASSUME PoolInv, NEW c \in Caller, DrainReturn(c) \/ DrainWait(c)
    PROVE  PoolInv'
  <1>1. TypeOK'
    BY DEF PoolInv, DrainReturn, DrainWait, TypeOK, CallerState
  <1>2. NoLostWakeup'
    BY DEF PoolInv, NoLostWakeup, DrainReturn, DrainWait, TypeOK, Quiet
  <1>3. QED
    BY <1>1, <1>2
    DEF PoolInv, DrainReturn, DrainWait, ActiveCounts, QueueBounds, WorkConserving,
        ExitLeavesNothing, Asleep, Awake

(* The destructor keeps the invariant.                                     *)
LEMMA StopKeeps ==
    ASSUME PoolInv, Stop
    PROVE  PoolInv'
  <1>0. TypeOK
    BY DEF PoolInv
  <1>1. TypeOK'
    <2>1. stopping' \in BOOLEAN
      BY Zenon DEF Stop
    <2>2. wpc' \in [Worker -> WorkerState] /\ cpc' \in [Caller -> CallerState]
      BY <1>0 DEF Stop, TypeOK, Woken, WorkerState, CallerState
    <2>3. QED
      BY <1>0, <2>1, <2>2 DEF Stop, TypeOK
  <1>2. ActiveCounts'
    <2>1. Busy' = Busy
      BY <1>0 DEF Stop, Busy, TypeOK
    <2>2. QED
      BY <2>1 DEF PoolInv, ActiveCounts, Busy, Stop
  <1>3. WorkConserving'
    <2>1. Asleep' = {}
      BY <1>0 DEF Asleep, Stop, TypeOK
    <2>2. QED
      BY <2>1 DEF WorkConserving
  <1>4. NoLostWakeup'
    <2>1. \A d \in Caller : cpc'[d] # "waitSpace" /\ (cpc'[d] = "waitDrained" => cpc[d] = "waitDrained")
      BY <1>0 DEF Stop, Woken, TypeOK
    <2>2. Quiet' <=> Quiet
      BY DEF Stop, Quiet
    <2>3. QED
      BY <2>1, <2>2 DEF PoolInv, NoLostWakeup
  <1>5. ExitLeavesNothing'
    <2>1. \A w \in Worker : wpc'[w] = "exit" => wpc[w] = "exit"
      BY <1>0 DEF Stop, TypeOK
    <2>2. QED
      BY <2>1, Zenon DEF PoolInv, ExitLeavesNothing, Stop
  <1>6. QED
    BY <1>1, <1>2, <1>3, <1>4, <1>5 DEF PoolInv, QueueBounds, Stop

(* A worker taking a task keeps the invariant.                             *)
LEMMA TakeKeeps ==
    ASSUME PoolInv, NEW w \in Worker, WorkerTake(w)
    PROVE  PoolInv'
  <1>0. TypeOK
    BY DEF PoolInv
  <1>1. /\ demand' \in Seq(Task) /\ future' \in Seq(Task)
        /\ Len(demand') + Len(future') = Len(demand) + Len(future) - 1
        /\ Len(future') <= Len(future)
        /\ task' \in [Worker -> Task \cup {NoTask}]
    <2>1. CASE demand # <<>>
      <3>1. task' = [task EXCEPT ![w] = Head(demand)] /\ demand' = Tail(demand) /\ future' = future
        BY <2>1 DEF WorkerTake
      <3>2. Head(demand) \in Task /\ Tail(demand) \in Seq(Task) /\ Len(Tail(demand)) = Len(demand) - 1
        BY <1>0, <2>1 DEF TypeOK
      <3>3. task' \in [Worker -> Task \cup {NoTask}]
        BY <1>0, <3>1, <3>2 DEF TypeOK
      <3>4. QED
        BY <1>0, <3>1, <3>2, <3>3 DEF TypeOK
    <2>2. CASE demand = <<>>
      <3>1. /\ future # <<>>
            /\ task' = [task EXCEPT ![w] = Head(future)] /\ future' = Tail(future) /\ demand' = demand
        BY <2>2 DEF WorkerTake
      <3>2. Head(future) \in Task /\ Tail(future) \in Seq(Task) /\ Len(Tail(future)) = Len(future) - 1
        BY <1>0, <3>1 DEF TypeOK
      <3>3. task' \in [Worker -> Task \cup {NoTask}]
        BY <1>0, <3>1, <3>2 DEF TypeOK
      <3>4. QED
        BY <1>0, <2>2, <3>1, <3>2, <3>3 DEF TypeOK
    <2>3. QED
      BY <2>1, <2>2
  <1>2. wpc' \in [Worker -> WorkerState] /\ cpc' \in [Caller -> CallerState]
    BY <1>0 DEF WorkerTake, TypeOK, Woken, WorkerState, CallerState
  <1>3. TypeOK'
    BY <1>0, <1>1, <1>2 DEF WorkerTake, TypeOK
  <1>4. ActiveCounts'
    <2>1. Busy' = Busy \cup {w} /\ w \notin Busy
      BY <1>0 DEF Busy, WorkerTake, TypeOK
    <2>2. Cardinality(Busy') = Cardinality(Busy) + 1
      BY <1>0, <2>1, FiniteWorkers, FS_AddElement
    <2>3. QED
      BY <2>2 DEF PoolInv, ActiveCounts, Busy, WorkerTake
  <1>5. QueueBounds'
    <2>1. Limit \div 2 \in Nat /\ Limit \in Nat
      BY PoolAssumption
    <2>2. QED
      BY <1>0, <1>1, <2>1 DEF PoolInv, QueueBounds, TypeOK
  <1>6. WorkConserving'
    <2>1. Awake' = Awake \ {w} /\ w \in Awake /\ Asleep' = Asleep
      BY <1>0 DEF Awake, Asleep, WorkerTake, TypeOK
    <2>2. Cardinality(Awake') = Cardinality(Awake) - 1
      BY <1>0, <2>1, FiniteWorkers, FS_RemoveElement
    <2>3. QED
      BY <1>0, <1>1, <2>1, <2>2, FiniteWorkers DEF PoolInv, WorkConserving, TypeOK
  <1>7. NoLostWakeup'
    <2>1. \A d \in Caller : cpc'[d] # "waitSpace"
      BY <1>0 DEF WorkerTake, Woken, TypeOK
    <2>2. ~Quiet'
      BY <1>0 DEF Quiet, WorkerTake, TypeOK
    <2>3. QED
      BY <2>1, <2>2 DEF NoLostWakeup
  <1>8. ExitLeavesNothing'
    <2>1. demand # <<>> \/ future # <<>>
      BY DEF WorkerTake
    <2>2. \A v \in Worker : wpc'[v] = "exit" => wpc[v] = "exit"
      BY <1>0 DEF WorkerTake, TypeOK
    <2>3. QED
      BY <2>1, <2>2 DEF PoolInv, ExitLeavesNothing
  <1>9. QED
    BY <1>3, <1>4, <1>5, <1>6, <1>7, <1>8 DEF PoolInv

(* A worker going to sleep or exiting keeps the invariant.                 *)
LEMMA SleepKeeps ==
    ASSUME PoolInv, NEW w \in Worker, WorkerSleep(w)
    PROVE  PoolInv'
  <1>0. TypeOK
    BY DEF PoolInv
  <1>1. TypeOK'
    BY <1>0 DEF WorkerSleep, TypeOK, WorkerState
  <1>2. ActiveCounts'
    <2>1. Busy' = Busy
      BY <1>0 DEF WorkerSleep, Busy, TypeOK
    <2>2. QED
      BY <2>1 DEF PoolInv, ActiveCounts, Busy, WorkerSleep
  <1>3. WorkConserving'
    <2>1. Len(demand') + Len(future') = 0
      BY DEF WorkerSleep
    <2>2. Cardinality(Awake') \in Nat
      BY <1>1, PoolAssumption, FS_Subset, FS_CardinalityType DEF Awake
    <2>3. QED
      BY <2>1, <2>2 DEF WorkConserving
  <1>4. NoLostWakeup'
    BY DEF PoolInv, NoLostWakeup, WorkerSleep, Quiet
  <1>5. ExitLeavesNothing'
    <2>1. CASE stopping
      BY <2>1 DEF ExitLeavesNothing, WorkerSleep
    <2>2. CASE ~stopping
      BY <1>0, <2>2 DEF PoolInv, ExitLeavesNothing, WorkerSleep, TypeOK
    <2>3. QED
      BY <2>1, <2>2
  <1>6. QED
    BY <1>1, <1>2, <1>3, <1>4, <1>5 DEF PoolInv, QueueBounds, WorkerSleep

(* Running a task keeps the invariant.                                     *)
LEMMA RunKeeps ==
    ASSUME PoolInv, NEW w \in Worker, WorkerRun(w)
    PROVE  PoolInv'
  <1>0. TypeOK
    BY DEF PoolInv
  <1>1. TypeOK'
    BY <1>0 DEF WorkerRun, TypeOK, WorkerState
  <1>2. Busy' = Busy /\ Awake' = Awake /\ Asleep' = Asleep
    BY <1>0 DEF WorkerRun, Busy, Awake, Asleep, TypeOK
  <1>3. ActiveCounts'
    BY <1>2 DEF PoolInv, ActiveCounts, Busy, WorkerRun
  <1>4. WorkConserving' /\ QueueBounds'
    BY <1>2 DEF PoolInv, WorkConserving, QueueBounds, WorkerRun
  <1>5. NoLostWakeup'
    BY DEF PoolInv, NoLostWakeup, WorkerRun, Quiet
  <1>6. ExitLeavesNothing'
    BY <1>0 DEF PoolInv, ExitLeavesNothing, WorkerRun, TypeOK
  <1>7. QED
    BY <1>1, <1>3, <1>4, <1>5, <1>6 DEF PoolInv

(* A worker finishing a task keeps the invariant.                          *)
LEMMA FinishKeeps ==
    ASSUME PoolInv, NEW w \in Worker, WorkerFinish(w)
    PROVE  PoolInv'
  <1>0. TypeOK
    BY DEF PoolInv
  <1>1. Busy' = Busy \ {w} /\ w \in Busy
    BY <1>0 DEF Busy, WorkerFinish, TypeOK
  <1>2. Cardinality(Busy') = Cardinality(Busy) - 1 /\ Cardinality(Busy') \in Nat
    BY <1>0, <1>1, FiniteWorkers, FS_RemoveElement, FS_CardinalityType
  <1>3. active' \in Nat /\ ActiveCounts'
    BY <1>2 DEF PoolInv, ActiveCounts, Busy, WorkerFinish
  <1>4. cpc' \in [Caller -> CallerState]
    BY <1>0 DEF WorkerFinish, TypeOK, Woken, CallerState
  <1>5. TypeOK'
    BY <1>0, <1>3, <1>4 DEF WorkerFinish, TypeOK, WorkerState
  <1>6. WorkConserving'
    <2>1. Awake' = Awake \cup {w} /\ w \notin Awake /\ Asleep' = Asleep
      BY <1>0 DEF Awake, Asleep, WorkerFinish, TypeOK
    <2>2. Cardinality(Awake') = Cardinality(Awake) + 1
      BY <1>0, <2>1, FiniteWorkers, FS_AddElement
    <2>3. QED
      BY <1>0, <2>1, <2>2, FiniteWorkers DEF PoolInv, WorkConserving, TypeOK, WorkerFinish
  <1>7. NoLostWakeup'
    <2>1. CASE Quiet'
      BY <1>0, <2>1 DEF PoolInv, NoLostWakeup, WorkerFinish, Quiet, Woken, TypeOK
    <2>2. CASE ~Quiet'
      BY <1>0, <2>2 DEF PoolInv, NoLostWakeup, WorkerFinish, Quiet, Woken, TypeOK
    <2>3. QED
      BY <2>1, <2>2
  <1>8. ExitLeavesNothing'
    BY <1>0 DEF PoolInv, ExitLeavesNothing, WorkerFinish, TypeOK
  <1>9. QED
    BY <1>3, <1>5, <1>6, <1>7, <1>8 DEF PoolInv, QueueBounds, WorkerFinish

(* A submitter in its wait loop remembers a task and a priority.           *)
LEMMA WantKept ==
    ASSUME TypeOK, WantInv, [Next]_vars
    PROVE  WantInv'
  <1>0. cpc \in [Caller -> CallerState] /\ want \in [Caller -> Want \cup {NoWant}]
    BY DEF TypeOK
  <1>a. ASSUME NEW c \in Caller, NEW t, NEW priority, Accept(c, t, priority)
        PROVE  WantInv'
    BY <1>0, <1>a DEF Accept, WantInv
  <1>b. ASSUME NEW c \in Caller, NEW t \in Task, NEW priority \in Priority, Block(c, t, priority)
        PROVE  WantInv'
    <2>1. [task |-> t, priority |-> priority] \in Want
      BY DEF Want
    <2>2. QED
      BY <1>0, <1>b, <2>1 DEF Block, WantInv
  <1>c. ASSUME NEW c \in Caller, Refuse(c)
        PROVE  WantInv'
    BY <1>0, <1>c DEF Refuse, WantInv
  <1>1. ASSUME NEW c \in Caller, NEW t \in Task, NEW priority \in Priority, Submit(c, t, priority)
        PROVE  WantInv'
    BY <1>1, <1>a, <1>b, <1>c DEF Submit
  <1>2. ASSUME NEW c \in Caller, SubmitWoken(c)
        PROVE  WantInv'
    <2>1. want[c].task \in Task /\ want[c].priority \in Priority
      BY <1>2 DEF SubmitWoken, WantInv, Want
    <2>2. QED
      BY <1>2, <2>1, <1>a, <1>b, <1>c DEF SubmitWoken
  <1> USE <1>0 DEF WantInv
  <1>3. ASSUME NEW c \in Caller, DrainReturn(c) \/ DrainWait(c)
        PROVE  WantInv'
    BY <1>3 DEF DrainReturn, DrainWait
  <1>4. ASSUME Stop PROVE WantInv'
    BY <1>4 DEF Stop, Woken
  <1>5. ASSUME NEW w \in Worker, WorkerTake(w) PROVE WantInv'
    BY <1>5 DEF WorkerTake, Woken
  <1>6. ASSUME NEW w \in Worker, WorkerFinish(w) PROVE WantInv'
    BY <1>6 DEF WorkerFinish, Woken
  <1>7. ASSUME NEW c \in Caller, NEW t \in Task, Promote(c, t) PROVE WantInv'
    BY <1>7 DEF Promote
  <1>8. ASSUME NEW w \in Worker, WorkerSleep(w) \/ WorkerRun(w) PROVE WantInv'
    BY <1>8 DEF WorkerSleep, WorkerRun
  <1>9. ASSUME UNCHANGED vars PROVE WantInv'
    BY <1>9 DEF vars
  <1>10. QED
    BY <1>1, <1>2, <1>3, <1>4, <1>5, <1>6, <1>7, <1>8, <1>9 DEF Next, Joined

(* Every step keeps the invariant.                                         *)
LEMMA PoolStep ==
    ASSUME PoolInv, WantInv, [Next]_vars
    PROVE  PoolInv'
  <1>1. ASSUME NEW c \in Caller, NEW t \in Task, NEW priority \in Priority, Submit(c, t, priority)
        PROVE  PoolInv'
    BY <1>1, AcceptKeeps, BlockKeeps, RefuseKeeps DEF Submit
  <1>2. ASSUME NEW c \in Caller, SubmitWoken(c)
        PROVE  PoolInv'
    <2>1. want[c].task \in Task /\ want[c].priority \in Priority
      BY <1>2 DEF SubmitWoken, WantInv, Want
    <2>2. QED
      BY <1>2, <2>1, AcceptKeeps, BlockKeeps, RefuseKeeps DEF SubmitWoken
  <1>3. ASSUME UNCHANGED vars PROVE PoolInv'
    BY <1>3 DEF vars, PoolInv, TypeOK, ActiveCounts, QueueBounds, WorkConserving, NoLostWakeup,
                ExitLeavesNothing, Asleep, Awake, Quiet
  <1>4. QED
    BY <1>1, <1>2, <1>3, PromoteKeeps, DrainKeeps, StopKeeps, TakeKeeps, SleepKeeps, RunKeeps, FinishKeeps
    DEF Next, Joined

(* The inductive invariant of the pool holds in every reachable state.     *)
THEOREM PoolCorrect == Spec => [](PoolInv /\ WantInv)
  <1>1. Init => PoolInv /\ WantInv
    BY PoolInit DEF Init, WantInv
  <1>2. PoolInv /\ WantInv /\ [Next]_vars => PoolInv' /\ WantInv'
    BY PoolStep, WantKept DEF PoolInv
  <1>3. QED
    BY <1>1, <1>2, PTL DEF Spec

(* Every reachable state of the pool has the declared types.               *)
THEOREM TypeCorrect == Spec => []TypeOK
  BY PoolCorrect, PTL DEF PoolInv

(* submit() never overfills the queues and promote() keeps guesses within  *)
(* their half, for every limit the constructor accepts.                    *)
THEOREM BoundedQueues == Spec => []QueueBounds
  BY PoolCorrect, PTL DEF PoolInv

(* One notify_one per submitted or promoted task is enough for any number  *)
(* of workers: none sleeps while there is a task without an awake worker.  *)
THEOREM PoolWorkConserving == Spec => []WorkConserving
  BY PoolCorrect, PTL DEF PoolInv

(* No submit and no drain ever sleeps where nobody will wake it.           *)
THEOREM PoolNoLostWakeup == Spec => []NoLostWakeup
  BY PoolCorrect, PTL DEF PoolInv

(* drain() returns, and a worker exits, only when no read is in progress   *)
(* or queued, respectively.                                                *)
THEOREM PoolQuiesces == Spec => [](ActiveCounts /\ ExitLeavesNothing)
  BY PoolCorrect, PTL DEF PoolInv
-----------------------------------------------------------------------------
(* The pool implements ReadService.  The service keeps sets, the pool      *)
(* queues and threads; the two agree because a read is in one place only.  *)

(* A read is queued once, or held by one worker, and is not at the same    *)
(* time the argument of a blocked submit; no two blocked submits share it. *)
OnePlace ==
    /\ IsInjective(demand)
    /\ IsInjective(future)
    /\ Range(demand) \cap Range(future) = {}
    /\ \A w \in Worker : wpc[w] = "run" => task[w] \in Task /\ task[w] \notin Queued
    /\ \A v, w \in Worker :
          wpc[v] = "run" /\ wpc[w] = "run" /\ task[v] = task[w] => v = w
    /\ \A c \in Caller : want[c].task \in Task => want[c].task \notin Queued \cup Held
    /\ \A c, d \in Caller :
          want[c].task \in Task /\ want[c].task = want[d].task => c = d

(* A notification starts and ends no read.                                 *)
LEMMA NotifyRuns ==
    ASSUME TypeOK, NotifyOneReady, task' = task
    PROVE  (\A w \in Worker : wpc'[w] = "run" <=> wpc[w] = "run") /\ Held' = Held
  <1>1. \A w \in Worker : wpc'[w] = "run" <=> wpc[w] = "run"
    BY DEF NotifyOneReady, Asleep, TypeOK
  <1>2. QED
    BY <1>1 DEF Held

(* The constructor puts no read anywhere.                                  *)
LEMMA PlaceInit == Init => OnePlace
  <1> SUFFICES ASSUME Init PROVE OnePlace
    OBVIOUS
  <1>1. Range(demand) = {} /\ Range(future) = {} /\ IsInjective(demand) /\ IsInjective(future)
    BY DEF Init, Range, IsInjective
  <1>2. \A w \in Worker : wpc[w] # "run"
    BY DEF Init
  <1>3. \A c \in Caller : want[c].task \notin Task
    BY PoolAssumption DEF Init, NoWant
  <1>4. QED
    BY <1>1, <1>2, <1>3 DEF OnePlace

(* The two copies of the library's Cardinality are the same operator.      *)
LEMMA SameCardinality == \A S : Service!Cardinality(S) = Cardinality(S)
  BY DEF Cardinality, Service!Cardinality, IsFiniteSet, Service!IsFiniteSet

(* An accepted read was nowhere, is queued once, and the service submits   *)
(* it: the queues' sets have room whenever the queues have.                *)
LEMMA AcceptPlaces ==
    ASSUME TypeOK, OnePlace, NEW c \in Caller, NEW t \in Task, NEW priority \in Priority,
           t \notin Queued \cup Held, \A d \in Caller \ {c} : want[d].task # t,
           Accept(c, t, priority)
    PROVE  OnePlace' /\ Service!Submit(t, priority)
  <1>1. demand \in Seq(Task) /\ future \in Seq(Task)
    BY DEF TypeOK
  <1>2. /\ Range(demand') = IF priority = "Demand" THEN Range(demand) \cup {t} ELSE Range(demand)
        /\ Range(future') = IF priority = "Future" THEN Range(future) \cup {t} ELSE Range(future)
        /\ IsInjective(demand') /\ IsInjective(future')
    <2>1. CASE priority = "Demand"
      BY <1>1, <2>1, AppendRange DEF Accept, OnePlace, Queued
    <2>2. CASE priority = "Future"
      BY <1>1, <2>2, AppendRange DEF Accept, OnePlace, Queued
    <2>3. QED
      BY <2>1, <2>2 DEF Priority
  <1>3. Queued' = Queued \cup {t} /\ Range(demand') \cap Range(future') = {}
    BY <1>2 DEF Queued, OnePlace, Priority
  <1>4. task' = task /\ Held' = Held /\ \A w \in Worker : wpc'[w] = "run" <=> wpc[w] = "run"
    BY NotifyRuns DEF Accept
  <1>5. \A d \in Caller : want'[d].task \in Task => d # c /\ want'[d] = want[d]
    BY PoolAssumption DEF Accept, TypeOK, NoWant
  <1>6. OnePlace'
    <2>1. \A w \in Worker : wpc'[w] = "run" => task'[w] \in Task /\ task'[w] \notin Queued'
      BY <1>3, <1>4 DEF OnePlace, Held
    <2>2. \A v, w \in Worker :
            wpc'[v] = "run" /\ wpc'[w] = "run" /\ task'[v] = task'[w] => v = w
      BY <1>4 DEF OnePlace
    <2>3. \A d \in Caller : want'[d].task \in Task => want'[d].task \notin Queued' \cup Held'
      BY <1>3, <1>4, <1>5 DEF OnePlace
    <2>4. \A d, e \in Caller :
            want'[d].task \in Task /\ want'[d].task = want'[e].task => d = e
      BY <1>5 DEF OnePlace
    <2>5. QED
      BY <1>2, <1>3, <2>1, <2>2, <2>3, <2>4 DEF OnePlace
  <1>7. Service!Room(priority)
    <2>1. /\ Cardinality(Range(demand)) \in Nat /\ Cardinality(Range(demand)) <= Len(demand)
          /\ Cardinality(Range(future)) \in Nat /\ Cardinality(Range(future)) <= Len(future)
          /\ Len(demand) \in Nat /\ Len(future) \in Nat
      BY <1>1, RangeSize
    <2>2. Limit \in Nat /\ Limit \div 2 \in Nat
      BY PoolAssumption
    <2>3. Room(priority)
      BY DEF Accept
    <2>4. Cardinality(Range(demand)) + Cardinality(Range(future)) < Limit
      BY <2>1, <2>2, <2>3 DEF Room
    <2>5. priority = "Future" => Cardinality(Range(future)) < Limit \div 2
      BY <2>1, <2>2, <2>3 DEF Room
    <2>6. QED
      BY <2>4, <2>5, SameCardinality DEF Service!Room
  <1>8. QED
    BY <1>2, <1>4, <1>6, <1>7 DEF Service!Submit, Service!Outstanding, Queued

(* A submit that sleeps or is refused is invisible to the service.         *)
LEMMA BlockPlaces ==
    ASSUME TypeOK, OnePlace, NEW c \in Caller, NEW t \in Task, NEW priority \in Priority,
           t \notin Queued \cup Held, \A d \in Caller \ {c} : want[d].task # t,
           Block(c, t, priority) \/ Refuse(c)
    PROVE  OnePlace' /\ UNCHANGED <<Range(demand), Range(future), Held>>
  <1>1. UNCHANGED <<demand, future, wpc, task>>
    BY DEF Block, Refuse
  <1>2. \A d \in Caller : want'[d].task \in Task =>
            (d = c /\ want'[d].task = t) \/ (d # c /\ want'[d] = want[d])
    BY PoolAssumption DEF Block, Refuse, TypeOK, NoWant
  <1>3. Held' = Held /\ Queued' = Queued
    BY <1>1 DEF Held, Queued
  <1>4. QED
    BY <1>1, <1>2, <1>3 DEF OnePlace

(* promote moves one read between the sets.                                *)
LEMMA PromotePlaces ==
    ASSUME TypeOK, OnePlace, NEW c \in Caller, NEW t \in Task, Promote(c, t)
    PROVE  OnePlace' /\ Service!Promote(t)
  <1>1. demand \in Seq(Task) /\ future \in Seq(Task)
    BY DEF TypeOK
  <1>2. PICK i \in DOMAIN future : future[i] = t /\ future' = RemoveAt(future, i)
    BY DEF Promote
  <1>3. t \in Range(future) /\ t \notin Range(demand)
    BY <1>2 DEF Range, OnePlace
  <1>4. /\ Range(demand') = Range(demand) \cup {t} /\ IsInjective(demand')
        /\ Range(future') = Range(future) \ {t} /\ IsInjective(future')
    BY <1>1, <1>2, <1>3, AppendRange, RemoveAtRange DEF Promote, OnePlace
  <1>5. Queued' = Queued
    BY <1>3, <1>4 DEF Queued
  <1>6. /\ task' = task /\ want' = want /\ Held' = Held
        /\ \A w \in Worker : wpc'[w] = "run" <=> wpc[w] = "run"
    BY NotifyRuns DEF Promote
  <1>7. OnePlace'
    BY <1>4, <1>5, <1>6 DEF OnePlace
  <1>8. QED
    BY <1>3, <1>4, <1>6, <1>7 DEF Service!Promote

(* A worker starts the read at the head of the queue it looks at.          *)
LEMMA TakePlaces ==
    ASSUME TypeOK, OnePlace, NEW w \in Worker, WorkerTake(w)
    PROVE  OnePlace' /\ \E t \in Task : Service!Start(t)
  <1>1. demand \in Seq(Task) /\ future \in Seq(Task) /\ want' = want
    BY DEF TypeOK, WorkerTake
  <1>2. PICK t \in Task :
          /\ t \in Range(demand) \/ (Range(demand) = {} /\ t \in Range(future))
          /\ Range(demand') = Range(demand) \ {t} /\ IsInjective(demand')
          /\ Range(future') = Range(future) \ {t} /\ IsInjective(future')
          /\ task' = [task EXCEPT ![w] = t]
    <2>1. CASE demand # <<>>
      <3>1. Head(demand) \in Task /\ Head(demand) \in Range(demand)
        BY <1>1, <2>1, TailRange DEF OnePlace
      <3>2. /\ Range(demand') = Range(demand) \ {Head(demand)} /\ IsInjective(demand')
            /\ future' = future /\ task' = [task EXCEPT ![w] = Head(demand)]
        BY <1>1, <2>1, TailRange DEF OnePlace, WorkerTake
      <3>3. Range(future') = Range(future) \ {Head(demand)} /\ IsInjective(future')
        BY <3>1, <3>2 DEF OnePlace
      <3>4. QED
        BY <3>1, <3>2, <3>3
    <2>2. CASE demand = <<>>
      <3>1. future # <<>> /\ future' = Tail(future) /\ demand' = demand
        BY <2>2 DEF WorkerTake
      <3>2. Range(demand) = {}
        BY <2>2 DEF Range
      <3>3. Head(future) \in Task /\ Head(future) \in Range(future)
        BY <1>1, <3>1, TailRange DEF OnePlace
      <3>4. /\ Range(future') = Range(future) \ {Head(future)} /\ IsInjective(future')
            /\ task' = [task EXCEPT ![w] = Head(future)]
        BY <1>1, <2>2, <3>1, TailRange DEF OnePlace, WorkerTake
      <3>5. Range(demand') = Range(demand) \ {Head(future)} /\ IsInjective(demand')
        BY <3>1, <3>2 DEF OnePlace
      <3>6. QED
        BY <3>2, <3>3, <3>4, <3>5
    <2>3. QED
      BY <2>1, <2>2
  <1>3. t \in Queued /\ Queued' = Queued \ {t}
    BY <1>2 DEF Queued
  <1>4. /\ wpc'[w] = "run" /\ wpc[w] # "run" /\ task'[w] = t
        /\ \A v \in Worker \ {w} : wpc'[v] = wpc[v] /\ task'[v] = task[v]
    BY <1>2 DEF WorkerTake, TypeOK
  <1>5. Held' = Held \cup {t}
    BY <1>4 DEF Held
  <1>6. OnePlace'
    <2>1. \A v \in Worker : wpc'[v] = "run" => task'[v] \in Task /\ task'[v] \notin Queued'
      BY <1>3, <1>4 DEF OnePlace
    <2>2. \A u, v \in Worker :
            wpc'[u] = "run" /\ wpc'[v] = "run" /\ task'[u] = task'[v] => u = v
      BY <1>3, <1>4 DEF OnePlace
    <2>3. \A d \in Caller : want'[d].task \in Task => want'[d].task \notin Queued' \cup Held'
      BY <1>1, <1>3, <1>5 DEF OnePlace
    <2>4. Range(demand') \cap Range(future') = {}
      BY <1>2 DEF OnePlace
    <2>5. QED
      BY <1>1, <1>2, <2>1, <2>2, <2>3, <2>4 DEF OnePlace
  <1>7. Service!Start(t)
    BY <1>2, <1>5 DEF Service!Start
  <1>8. QED
    BY <1>6, <1>7

(* Running a read finishes it for the service, once.                       *)
LEMMA RunPlaces ==
    ASSUME TypeOK, OnePlace, NEW w \in Worker, WorkerRun(w)
    PROVE  OnePlace' /\ \E t \in Task : Service!Finish(t)
  <1>1. wpc[w] = "run" /\ UNCHANGED <<demand, future, want>> /\ task[w] \in Task
    BY DEF WorkerRun, OnePlace
  <1>2. wpc'[w] # "run" /\ \A v \in Worker \ {w} : wpc'[v] = wpc[v] /\ task'[v] = task[v]
    BY DEF WorkerRun, TypeOK
  <1>3. Queued' = Queued
    BY <1>1 DEF Queued
  <1>4. task[w] \in Held /\ Held' = Held \ {task[w]}
    BY <1>1, <1>2 DEF Held, OnePlace
  <1>5. OnePlace'
    BY <1>1, <1>2, <1>3, <1>4 DEF OnePlace
  <1>6. Service!Finish(task[w])
    BY <1>1, <1>4 DEF Service!Finish
  <1>7. QED
    BY <1>1, <1>5, <1>6

(* What the other steps leave alone is all the service sees.               *)
LEMMA OtherPlaces ==
    ASSUME TypeOK, OnePlace, UNCHANGED <<demand, future, task, want>>,
           \A w \in Worker : wpc'[w] = "run" <=> wpc[w] = "run"
    PROVE  OnePlace' /\ UNCHANGED <<Range(demand), Range(future), Held>>
  <1>1. Held' = Held /\ Queued' = Queued
    BY DEF Held, Queued
  <1>2. QED
    BY <1>1 DEF OnePlace

(* Every step of the pool keeps each read in one place and is a step of    *)
(* the service, or invisible to it.                                        *)
LEMMA ServiceStep ==
    ASSUME TypeOK, WantInv, OnePlace, [Next]_vars
    PROVE  OnePlace' /\ [Service!Next]_(Service!serviceVars)
  <1> DEFINE Goal == OnePlace' /\ [Service!Next]_(Service!serviceVars)
  <1>a. ASSUME UNCHANGED <<Range(demand), Range(future), Held>>
        PROVE  [Service!Next]_(Service!serviceVars)
    BY <1>a DEF Service!serviceVars
  <1>1. ASSUME NEW c \in Caller, NEW t \in Task, NEW priority \in Priority, Submit(c, t, priority)
        PROVE  Goal
    <2>1. t \notin Queued \cup Held /\ \A d \in Caller \ {c} : want[d].task # t
      BY <1>1 DEF Submit, Requested
    <2>2. CASE Accept(c, t, priority)
      BY <2>1, <2>2, AcceptPlaces DEF Service!Next, Priority
    <2>3. CASE Block(c, t, priority) \/ Refuse(c)
      BY <1>a, <2>1, <2>3, BlockPlaces
    <2>4. QED
      BY <1>1, <2>2, <2>3 DEF Submit
  <1>2. ASSUME NEW c \in Caller, SubmitWoken(c)
        PROVE  Goal
    <2> DEFINE t == want[c].task
               priority == want[c].priority
    <2>1. t \in Task /\ priority \in Priority
      BY <1>2 DEF SubmitWoken, WantInv, Want
    <2>2. t \notin Queued \cup Held /\ \A d \in Caller \ {c} : want[d].task # t
      BY <2>1 DEF OnePlace
    <2>3. Accept(c, t, priority) \/ Block(c, t, priority) \/ Refuse(c)
      BY <1>2 DEF SubmitWoken
    <2> HIDE DEF t, priority
    <2>4. CASE Accept(c, t, priority)
      BY <2>1, <2>2, <2>4, AcceptPlaces DEF Service!Next, Priority
    <2>5. CASE Block(c, t, priority) \/ Refuse(c)
      BY <1>a, <2>1, <2>2, <2>5, BlockPlaces
    <2>6. QED
      BY <2>3, <2>4, <2>5
  <1>3. ASSUME NEW c \in Caller, NEW t \in Task, Promote(c, t)
        PROVE  Goal
    BY <1>3, PromotePlaces DEF Service!Next
  <1>4. ASSUME NEW w \in Worker, WorkerTake(w)
        PROVE  Goal
    BY <1>4, TakePlaces DEF Service!Next
  <1>5. ASSUME NEW w \in Worker, WorkerRun(w)
        PROVE  Goal
    BY <1>5, RunPlaces DEF Service!Next
  <1>6. ASSUME NEW c \in Caller, DrainReturn(c) \/ DrainWait(c)
        PROVE  Goal
    BY <1>6, <1>a, OtherPlaces DEF DrainReturn, DrainWait
  <1>7. ASSUME Stop
        PROVE  Goal
    <2>1. \A w \in Worker : wpc'[w] = "run" <=> wpc[w] = "run"
      BY <1>7 DEF Stop, TypeOK
    <2>2. QED
      BY <1>7, <1>a, <2>1, OtherPlaces DEF Stop
  <1>8. ASSUME NEW w \in Worker, WorkerSleep(w) \/ WorkerFinish(w)
        PROVE  Goal
    <2>1. \A v \in Worker : wpc'[v] = "run" <=> wpc[v] = "run"
      BY <1>8 DEF WorkerSleep, WorkerFinish, TypeOK
    <2>2. QED
      BY <1>8, <1>a, <2>1, OtherPlaces DEF WorkerSleep, WorkerFinish
  <1>9. ASSUME UNCHANGED vars
        PROVE  Goal
    BY <1>9, <1>a, OtherPlaces DEF vars
  <1>10. QED
    BY <1>1, <1>2, <1>3, <1>4, <1>5, <1>6, <1>7, <1>8, <1>9 DEF Next, Joined

(* The pool implements ReadService: its users, ExpertCache among them, may *)
(* reason about sets of reads started demand first and finished once, and  *)
(* forget workers, queue order and condition variables.                    *)
THEOREM PoolImplementsService == Spec => ImplementsService
  <1>1. Init => OnePlace /\ Service!Init
    <2>1. Init => Range(demand) = {} /\ Range(future) = {} /\ Held = {}
      BY DEF Init, Range, Held
    <2>2. QED
      BY <2>1, PlaceInit DEF Service!Init
  <1>2. TypeOK /\ WantInv /\ OnePlace /\ [Next]_vars
          => OnePlace' /\ [Service!Next]_(Service!serviceVars)
    BY ServiceStep
  <1>3. Spec => [](TypeOK /\ WantInv)
    BY PoolCorrect, PTL DEF PoolInv
  <1>4. QED
    BY <1>1, <1>2, <1>3, PTL DEF Spec, ImplementsService, Service!Spec
=============================================================================
