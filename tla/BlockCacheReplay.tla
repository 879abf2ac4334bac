-------------------------- MODULE BlockCacheReplay --------------------------
(***************************************************************************)
(* block_cache_replay.decode and simulate, with the forward coverage and   *)
(* the summary of horizon_cache_replay.py.  The native engine's events are *)
(* the input: every event the reader accepts is an action whose guard is   *)
(* the reader's check, and any other event makes it raise.  What an        *)
(* accepted capture contains is then replayed at other capacities.         *)
(***************************************************************************)
EXTENDS ReplayCache, FiniteSetsExt
CONSTANTS Layers, Experts,  \* LAYERS and EXPERTS
          NativeSlots,      \* configuration.expert_slots
          LeaseWindow,      \* 32 leases at once
          PanelRows,        \* beyond 32 rows a panel is admitted in ascending order
          TopK,             \* TOP_K: the experts of one row
          Workloads,        \* the lengths of prompt and continuation, as <<prompt, count>>
          Width,            \* the requested block width
          ReplayCapacities  \* CAPACITIES

ASSUME ReplayAssumption ==
    /\ {Layers, Experts, NativeSlots, LeaseWindow, Width, TopK} \subseteq Nat \ {0}
    /\ Workloads \subseteq (Nat \ {0}) \X (Nat \ {0})
    /\ PanelRows \in Nat /\ ReplayCapacities \subseteq Nat \ {0}

VARIABLES work,      \* the workload of the capture
          cache,     \* the reader's replay of the native cache
          active,    \* the forward being read, or NoForward
          pending,   \* pending_pin, or -1
          forwards,  \* accepted forwards
          requests,  \* acquire, pin and release events, in order
          maxPins, verdict
blockVars == <<work, cache, active, pending, forwards, requests, maxPins, verdict>>

NoForward == [offset |-> -1]

(* patterns: the prompt in one forward, then blocks of Width while they    *)
(* fit and single rows for the rest.                                       *)
Prompt == work[1]
Count == work[2]
Patterns ==
    LET Block[left \in 0 .. Count] ==
          IF left = 0 THEN <<>>
          ELSE LET rows == IF left >= Width THEN Width ELSE 1
               IN  <<[offset |-> Prompt + Count - left, tokens |-> rows]>> \o Block[left - rows]
    IN  <<[offset |-> 0, tokens |-> Prompt]>> \o Block[Count]

BlockInit ==
    /\ work \in Workloads
    /\ cache = EmptyCache(NativeSlots, "clock")
    /\ active = NoForward /\ pending = -1
    /\ forwards = <<>> /\ requests = <<>>
    /\ maxPins = 0 /\ verdict = "reading"

Reading == verdict = "reading" /\ pending = -1

ForwardBegin ==
    /\ Reading /\ active = NoForward /\ Pins(cache) = {}
    /\ Len(forwards) < Len(Patterns)
    /\ active' = [offset |-> Patterns[Len(forwards) + 1].offset,
                  tokens |-> Patterns[Len(forwards) + 1].tokens,
                  layers |-> 0, selected |-> <<>>, index |-> 0, demands |-> <<>>,
                  snapshots |-> 0, hits |-> cache.hits, misses |-> cache.misses]
    /\ UNCHANGED <<work, cache, pending, forwards, requests, maxPins, verdict>>

LayerDone == active # NoForward /\ active.index = Len(active.selected)

(* Ascending within a panel; otherwise resident records first.             *)
DemandOrder(keys) ==
    LET Ascending(K) == SetToSortSeq(K, <)
    IN  IF active.tokens > PanelRows THEN Ascending(keys)
        ELSE Ascending(keys \cap Resident(cache)) \o Ascending(keys \ Resident(cache))

(* Every row has TopK experts; the rows may share them.                    *)
LayerRoutes(routed) ==
    /\ Reading /\ LayerDone /\ Pins(cache) = {}
    /\ active.layers < Layers
    /\ Cardinality(routed) \in TopK .. TopK * active.tokens
    /\ active' = [active EXCEPT
          !.layers = @ + 1, !.index = 0,
          !.selected = DemandOrder({active.layers * Experts + e : e \in routed})]
    /\ UNCHANGED <<work, cache, pending, forwards, requests, maxPins, verdict>>

(* The recorded slot and victim are those of the replayed CLOCK decision.  *)
AcquireEvent ==
    /\ Reading /\ active # NoForward /\ ~LayerDone
    /\ LET key == active.selected[active.index + 1]
       IN  /\ ~Exhausted(cache, key)
           /\ cache' = Acquire(cache, key)
           /\ active' = [active EXCEPT !.index = @ + 1, !.demands = Append(@, key)]
           /\ pending' = key
           /\ requests' = Append(requests, [event |-> "acquire", key |-> key, forward |-> Len(forwards) + 1])
    /\ UNCHANGED <<work, forwards, maxPins, verdict>>

PinEvent(key) ==
    /\ verdict = "reading" /\ pending = key /\ key # -1
    /\ cache' = Lease(cache, key, 1)
    /\ Cardinality(Pins(cache')) <= LeaseWindow
    /\ maxPins' = Max({maxPins, Cardinality(Pins(cache'))})
    /\ pending' = -1
    /\ requests' = Append(requests, [event |-> "pin", key |-> key, forward |-> Len(forwards) + 1])
    /\ UNCHANGED <<work, active, forwards, verdict>>

ReleaseEvent(key) ==
    /\ Reading
    /\ \E s \in Pins(cache) : cache.slots[s].key = key
    /\ cache' = Lease(cache, key, -1)
    /\ requests' = Append(requests, [event |-> "release", key |-> key, forward |-> Len(forwards) + 1])
    /\ UNCHANGED <<work, active, pending, forwards, maxPins, verdict>>

(* The recorded state is the replayed one, which has no leases.  A further *)
(* snapshot, or one between forwards, is checked alike and changes nothing.*)
SnapshotEvent ==
    /\ Reading /\ LayerDone /\ active.layers = Layers
    /\ Pins(cache) = {} /\ active.snapshots = 0
    /\ active' = [active EXCEPT !.snapshots = @ + 1]
    /\ UNCHANGED <<work, cache, pending, forwards, requests, maxPins, verdict>>

ForwardEnd ==
    /\ Reading /\ LayerDone /\ active.layers = Layers
    /\ active.snapshots >= 1 /\ Pins(cache) = {}
    /\ forwards' = Append(forwards, [hits |-> cache.hits - active.hits,
                                     misses |-> cache.misses - active.misses,
                                     demands |-> active.demands])
    /\ active' = NoForward
    /\ UNCHANGED <<work, cache, pending, requests, maxPins, verdict>>

Complete ==
    /\ Reading /\ active = NoForward
    /\ Len(forwards) = Len(Patterns) /\ Pins(cache) = {}
    /\ verdict' = "accepted"
    /\ UNCHANGED <<work, cache, active, pending, forwards, requests, maxPins>>

(* Any event the reader does not accept raises, and nothing is returned.   *)
RejectCapture ==
    /\ verdict = "reading"
    /\ cache' = EmptyCache(NativeSlots, "clock") /\ active' = NoForward
    /\ pending' = -1 /\ forwards' = <<>> /\ requests' = <<>> /\ maxPins' = 0
    /\ verdict' = "rejected" /\ UNCHANGED work

BlockNext ==
    \/ ForwardBegin
    \/ \E routed \in SUBSET (0 .. Experts - 1) \ {{}} : LayerRoutes(routed)
    \/ AcquireEvent
    \/ \E key \in 0 .. Layers * Experts - 1 : PinEvent(key) \/ ReleaseEvent(key)
    \/ SnapshotEvent
    \/ ForwardEnd
    \/ Complete
    \/ RejectCapture

BlockSpec == BlockInit /\ [][BlockNext]_blockVars
-----------------------------------------------------------------------------
(* simulate: the captured requests against another cache.  A step that     *)
(* would raise sets failed.                                                *)
SimulateStep(sim, r) ==
    LET c == sim.cache
        hit == r.key \in Resident(c)
    IN  IF sim.failed \/ (IF r.event = "acquire" THEN Exhausted(c, r.key) ELSE ~hit)
        THEN [sim EXCEPT !.failed = TRUE]
        ELSE IF r.event = "acquire"
        THEN [sim EXCEPT !.cache = Acquire(c, r.key),
                         !.hits[r.forward] = @ + IF hit THEN 1 ELSE 0,
                         !.misses[r.forward] = @ + IF hit THEN 0 ELSE 1]
        ELSE [sim EXCEPT !.cache = Lease(c, r.key, IF r.event = "pin" THEN 1 ELSE -1)]

Simulate(capacity, policy) ==
    LET zero == [i \in DOMAIN Patterns |-> 0]
        After[i \in 0 .. Len(requests)] ==
          IF i = 0 THEN [cache |-> EmptyCache(capacity, policy), hits |-> zero, misses |-> zero, failed |-> FALSE]
                   ELSE SimulateStep(After[i - 1], requests[i])
        sim == After[Len(requests)]
    IN  [sim EXCEPT !.failed = @ \/ Pins(sim.cache) # {}]
-----------------------------------------------------------------------------
(* Properties *)

(* horizon_cache_replay.summarize demands that the simulation at the       *)
(* native capacity gives the native counts: it does for every capture the  *)
(* reader accepts, block by block.                                         *)
ControlReproduces ==
    verdict = "accepted" =>
        LET sim == Simulate(NativeSlots, "clock")
        IN  /\ ~sim.failed
            /\ \A i \in DOMAIN forwards : sim.hits[i] = forwards[i].hits /\ sim.misses[i] = forwards[i].misses

(* A capture whose leases fit a capacity can be replayed there under both  *)
(* policies: no lease refers to an evicted record, no acquisition finds    *)
(* every slot leased, and no lease is left over.                           *)
SimulationsComplete ==
    verdict = "accepted" =>
        \A capacity \in {c \in ReplayCapacities : c >= maxPins}, policy \in {"clock", "slru"} :
            ~Simulate(capacity, policy).failed

(* In an accepted capture every acquisition was leased once and released   *)
(* once: per record, as many acquisitions as pins and as releases.         *)
EveryAcquireReleased ==
    verdict = "accepted" =>
        LET Of(event, key) == {i \in DOMAIN requests : requests[i].event = event /\ requests[i].key = key}
        IN  \A key \in 0 .. Layers * Experts - 1 :
                /\ Cardinality(Of("acquire", key)) = Cardinality(Of("pin", key))
                /\ Cardinality(Of("pin", key)) = Cardinality(Of("release", key))

(* The accepted forwards read every position of the workload exactly once, *)
(* each layer's records once per forward.                                  *)
CoverageExact ==
    verdict = "accepted" =>
        /\ \A i \in DOMAIN forwards : IsInjective(forwards[i].demands)
        /\ MapThenSumSet(LAMBDA i : Patterns[i].tokens, DOMAIN Patterns) = Prompt + Count
        /\ \A i \in DOMAIN Patterns : i > 1 =>
               Patterns[i].offset = Patterns[i - 1].offset + Patterns[i - 1].tokens
        /\ \A i \in DOMAIN forwards : {d \div Experts : d \in ToSet(forwards[i].demands)} = 0 .. Layers - 1

(* A capture the reader accepts covers its workload once, closes every     *)
(* lease, and is replayed at the native capacity with the native counts    *)
(* and at every capacity that holds its leases.                            *)
ReplayExact == ControlReproduces /\ SimulationsComplete /\ EveryAcquireReleased /\ CoverageExact
=============================================================================
