---------------------------- MODULE ReadService ----------------------------
(***************************************************************************)
(* What the read pool promises to its users, without threads, queues order *)
(* or condition variables: a bounded set of outstanding reads, of which    *)
(* speculative ones take at most half of the room, started demand first    *)
(* and each finished exactly once.  ReadPool implements this module and    *)
(* ExpertCache is built on it.                                             *)
(***************************************************************************)
EXTENDS Naturals, FiniteSets

CONSTANTS
    Task,     \* the reads that may be outstanding
    Limit     \* ReadPool::limit_: room for queued (not yet started) reads

VARIABLES
    demandQ,  \* reads queued at ReadPriority::Demand
    futureQ,  \* reads queued at ReadPriority::Future
    running   \* reads a worker has taken and not finished

serviceVars == <<demandQ, futureQ, running>>

Outstanding == demandQ \cup futureQ \cup running

ServiceTypeOK ==
    /\ demandQ \subseteq Task
    /\ futureQ \subseteq Task
    /\ running \subseteq Task

Init ==
    /\ demandQ = {}
    /\ futureQ = {}
    /\ running = {}

(* The predicate submit() waits for on space_. *)
Room(priority) ==
    /\ Cardinality(demandQ) + Cardinality(futureQ) < Limit
    /\ priority = "Future" => Cardinality(futureQ) < Limit \div 2

Submit(t, priority) ==
    /\ t \notin Outstanding
    /\ Room(priority)
    /\ demandQ' = IF priority = "Demand" THEN demandQ \cup {t} ELSE demandQ
    /\ futureQ' = IF priority = "Future" THEN futureQ \cup {t} ELSE futureQ
    /\ UNCHANGED running

(* A queued guess becomes a demand read; anything else is unaffected.      *)
Promote(t) ==
    /\ demandQ' = IF t \in futureQ THEN demandQ \cup {t} ELSE demandQ
    /\ futureQ' = futureQ \ {t}
    /\ UNCHANGED running

(* A worker takes a read: a guess only when no demand read is queued.      *)
Start(t) ==
    /\ t \in demandQ \/ (demandQ = {} /\ t \in futureQ)
    /\ demandQ' = demandQ \ {t}
    /\ futureQ' = futureQ \ {t}
    /\ running' = running \cup {t}

Finish(t) ==
    /\ t \in running
    /\ running' = running \ {t}
    /\ UNCHANGED <<demandQ, futureQ>>

Next ==
    \E t \in Task :
        \/ \E priority \in {"Demand", "Future"} : Submit(t, priority)
        \/ Promote(t)
        \/ Start(t)
        \/ Finish(t)

Spec == Init /\ [][Next]_serviceVars
=============================================================================
