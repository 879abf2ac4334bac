-------------------------- MODULE CacheSimulation --------------------------
(***************************************************************************)
(* cache_simulation.py: the offline what-if simulator of the expert cache. *)
(* counts() runs one policy over the accesses of a segment; here CLOCK,    *)
(* segmented LRU and Belady's MIN run side by side over every access       *)
(* sequence of up to MaxAccesses, together with the lease-aware replay     *)
(* cache of block_cache_replay.py, which is meant to make the same         *)
(* decisions when nothing is leased.                                       *)
(***************************************************************************)
EXTENDS ReplayCache, FiniteSetsExt
CONSTANTS SimKeys,      \* expert keys (layer * EXPERTS + expert)
          MaxAccesses,  \* length of the longest segment
          Capacities    \* slots: budget_bytes // SLOT_BYTES

ASSUME SimAssumption == /\ SimKeys \subseteq Nat /\ MaxAccesses \in Nat
                        /\ Capacities \subseteq Nat

VARIABLES sequence,  \* segment['accesses']
          capacity,
          position,  \* accesses replayed so far
          clock, slru, belady,
          replay,    \* a ReplayCache for each of its policies
          misses     \* misses counted for each policy
simVars == <<sequence, capacity, position, clock, slru, belady, replay, misses>>

-----------------------------------------------------------------------------
(* Clock: native second chance *)

ClockStart(cap) == [slots |-> [s \in 0 .. cap - 1 |-> -1],
                    referenced |-> [s \in 0 .. cap - 1 |-> FALSE], hand |-> 0]

ClockHit(c, key) == \E s \in DOMAIN c.slots : c.slots[s] = key

(* How many slots the hand passes, clearing their reference bits; a full   *)
(* round when all are referenced.                                          *)
Passed(c, cap) ==
    Min({n \in 0 .. cap - 1 : ~c.referenced[(c.hand + n) % cap]} \cup {cap})

Advance(slot, cap) == (slot + 1) % cap

ClockAccess(c, key, cap) ==
    LET slot == (c.hand + Passed(c, cap)) % cap
        cleared == {(c.hand + n) % cap : n \in 0 .. Passed(c, cap) - 1}
    IN  IF ClockHit(c, key)
        THEN [c EXCEPT !.referenced = [s \in DOMAIN @ |-> @[s] \/ c.slots[s] = key]]
        ELSE IF cap = 0 THEN c
        ELSE [slots |-> [c.slots EXCEPT ![slot] = key],
              referenced |-> [s \in DOMAIN c.slots |-> s = slot \/ (c.referenced[s] /\ s \notin cleared)],
              hand |-> Advance(slot, cap)]
-----------------------------------------------------------------------------
(* SegmentedLRU: oldest first in both queues *)

SlruStart == [probation |-> <<>>, protected |-> <<>>]

SlruHit(c, key) == Contains(c.probation, key) \/ Contains(c.protected, key)

(* Mutant of ProbationHit: the demoted record is dropped.                  *)
ProbationHitForgets(c, key, cap) ==
    LET protected == Append(c.protected, key)
    IN  [probation |-> Remove(c.probation, key),
         protected |-> IF Len(protected) > ProtectedLimit(cap) THEN Tail(protected) ELSE protected]

ProbationHit(c, key, cap) ==
    LET protected == Append(c.protected, key)
        full == Len(protected) > ProtectedLimit(cap)
    IN  [probation |-> IF full THEN Append(Remove(c.probation, key), Head(protected))
                               ELSE Remove(c.probation, key),
         protected |-> IF full THEN Tail(protected) ELSE protected]

SlruMiss(c, key, cap) ==
    IF cap = 0 THEN c
    ELSE [c EXCEPT !.probation =
             Append(IF Len(@) + Len(c.protected) = cap THEN Tail(@) ELSE @, key)]

SlruAccess(c, key, cap) ==
    CASE Contains(c.protected, key) -> [c EXCEPT !.protected = Append(Remove(@, key), key)]
      [] ~Contains(c.protected, key) /\ Contains(c.probation, key) -> ProbationHit(c, key, cap)
      [] OTHER -> SlruMiss(c, key, cap)
-----------------------------------------------------------------------------
(* Belady: evict the record used again last *)

(* The next use of the key accessed at position i, Len(s) + 1 when none.   *)
NextUse(s, i) == Min({j \in i + 1 .. Len(s) : s[j] = s[i]} \cup {Len(s) + 1})

BeladyStart == [resident |-> {}, heap |-> {}]

BeladyHit(b, key) == \E e \in b.resident : e.key = key

(* Mutant of Sooner: the next use is pushed without its sign.              *)
SoonerUnnegated(e, f) == e.next < f.next \/ (e.next = f.next /\ e.key < f.key)

(* heapq order of (-next, key).                                            *)
Sooner(e, f) == e.next > f.next \/ (e.next = f.next /\ e.key < f.key)

Live(b) == b.heap \cap b.resident

(* heappop until an entry agrees with resident.                            *)
Evict(b) ==
    LET victim == CHOOSE e \in Live(b) : \A f \in Live(b) \ {e} : Sooner(e, f)
    IN  [resident |-> b.resident \ {victim}, heap |-> {f \in b.heap : Sooner(victim, f)}]

(* The heap is rebuilt when stale entries outnumber the residents.        *)
Compact(b, cap) ==
    IF Cardinality(b.heap) > 2 * Max({1, cap}) THEN [b EXCEPT !.heap = b.resident] ELSE b

BeladyAccess(b, s, i, cap) ==
    LET full == ~BeladyHit(b, s[i]) /\ Cardinality(b.resident) = cap
        room == IF full THEN Evict(b) ELSE b
        entry == [key |-> s[i], next |-> NextUse(s, i)]
        kept == {e \in room.resident : e.key # s[i]}
    IN  IF cap = 0 THEN b
        ELSE Compact([resident |-> kept \cup {entry}, heap |-> room.heap \cup {entry}], cap)
-----------------------------------------------------------------------------
(* counts: one access at a time, every policy *)

Policies == {"clock", "segmented_lru", "belady"}

SimInit ==
    /\ sequence \in UNION {[1 .. n -> SimKeys] : n \in 0 .. MaxAccesses}
    /\ capacity \in Capacities
    /\ position = 0
    /\ clock = ClockStart(capacity)
    /\ slru = SlruStart
    /\ belady = BeladyStart
    /\ replay = [p \in {"clock", "slru"} |-> EmptyCache(capacity, p)]
    /\ misses = [p \in Policies |-> 0]

Counts ==
    /\ position < Len(sequence)
    /\ LET key == sequence[position + 1]
           hit == [p \in Policies |-> CASE p = "clock" -> ClockHit(clock, key)
                                        [] p = "segmented_lru" -> SlruHit(slru, key)
                                        [] p = "belady" -> capacity > 0 /\ BeladyHit(belady, key)]
       IN  /\ misses' = [p \in Policies |-> misses[p] + IF hit[p] THEN 0 ELSE 1]
           /\ clock' = ClockAccess(clock, key, capacity)
           /\ slru' = SlruAccess(slru, key, capacity)
           /\ belady' = BeladyAccess(belady, sequence, position + 1, capacity)
           /\ replay' = IF capacity = 0 THEN replay
                        ELSE [p \in DOMAIN replay |-> Acquire(replay[p], key)]
    /\ position' = position + 1
    /\ UNCHANGED <<sequence, capacity>>

SimSpec == SimInit /\ [][Counts]_simVars
-----------------------------------------------------------------------------
(* Properties *)

(* The fewest misses any policy with mandatory admission can reach for the *)
(* sequence, computed over all choices of victims.                         *)
FewestMisses(s, cap) ==
    LET from[i \in 1 .. Len(s) + 1, held \in {H \in SUBSET SimKeys : Cardinality(H) <= cap}] ==
          CASE i > Len(s) -> 0
            [] i <= Len(s) /\ s[i] \in held -> from[i + 1, held]
            [] OTHER -> 1 + Min({from[i + 1, H \cup {s[i]}] :
                                 H \in {G \in SUBSET held : IF Cardinality(held) = cap
                                                            THEN Cardinality(G) = cap - 1
                                                            ELSE G = held}})
    IN  IF cap = 0 THEN Len(s) ELSE from[1, {}]

(* Belady's lazy heap with stale entries gives the minimum the oracle      *)
(* column claims, whatever the sequence.                                   *)
OracleIsMinimal ==
    position = Len(sequence) => misses["belady"] = FewestMisses(sequence, capacity)

(* The heap never runs dry: every resident record has a live entry, and    *)
(* the heap stays within the bound the compaction promises.                *)
HeapServesResidents ==
    /\ belady.resident \subseteq belady.heap
    /\ Cardinality(belady.heap) <= 2 * Max({1, capacity})
    /\ Cardinality(belady.resident) <= capacity

(* The two CLOCK simulators, written with different scan loops, decide     *)
(* alike when nothing is leased.                                           *)
ClockReplayAgrees ==
    capacity > 0 =>
        /\ \A s \in DOMAIN clock.slots : clock.slots[s] = replay["clock"].slots[s].key
        /\ clock.hand = replay["clock"].hand
        /\ misses["clock"] = replay["clock"].misses

(* The two segmented-LRU simulators hold the same records in the same      *)
(* order, and never take a victim from an empty queue.                     *)
SlruReplayAgrees ==
    capacity > 0 =>
        /\ slru.probation = replay["slru"].probation
        /\ slru.protected = replay["slru"].protected
        /\ misses["segmented_lru"] = replay["slru"].misses

(* The oracle column is the minimum, reached with a heap that serves every *)
(* resident record.                                                        *)
OracleExact == OracleIsMinimal /\ HeapServesResidents

(* The simulators of cache_simulation.py and the replay of                 *)
(* block_cache_replay.py decide alike when nothing is leased.              *)
SimulatorsAgree == ClockReplayAgrees /\ SlruReplayAgrees
=============================================================================
