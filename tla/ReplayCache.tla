---------------------------- MODULE ReplayCache ----------------------------
(***************************************************************************)
(* block_cache_replay.Cache: the offline, lease-aware replay of the        *)
(* engine's expert cache.  A cache is a record; acquire and lease return   *)
(* the record after the call.  Reads complete at once here.                *)
(***************************************************************************)
EXTENDS Integers, Sequences, FiniteSets, SequencesExt

Free == [key |-> -1, referenced |-> FALSE, pins |-> 0]

EmptyCache(capacity, policy) ==
    [capacity |-> capacity, policy |-> policy,
     slots |-> [s \in 0 .. capacity - 1 |-> Free], hand |-> 0,
     probation |-> <<>>, protected |-> <<>>, hits |-> 0, misses |-> 0]

SlotsHolding(c, key) == {s \in DOMAIN c.slots : c.slots[s].key = key}
Resident(c) == {c.slots[s].key : s \in DOMAIN c.slots} \ {-1}
Pins(c) == {s \in DOMAIN c.slots : c.slots[s].pins > 0}
ProtectedLimit(capacity) == (3 * capacity) \div 4

(* A hit makes the record the newest protected one; the oldest protected   *)
(* records beyond the limit return to probation.                           *)
Touch(c, key) ==
    LET protected == Append(SelectSeq(c.protected, LAMBDA k : k # key), key)
        probation == SelectSeq(c.probation, LAMBDA k : k # key)
        excess == Len(protected) - ProtectedLimit(c.capacity)
        demoted == IF excess > 0 THEN excess ELSE 0
    IN  [c EXCEPT !.protected = SubSeq(protected, demoted + 1, Len(protected)),
                  !.probation = probation \o SubSeq(protected, 1, demoted)]

AcquireHit(c, key) ==
    LET slot == CHOOSE s \in SlotsHolding(c, key) : TRUE
        used == [c EXCEPT !.slots[slot].referenced = TRUE, !.hits = @ + 1]
    IN  IF c.policy = "slru" THEN Touch(used, key) ELSE used

(* One step of the hand: -1 is "no slot selected yet".                     *)
Trial(c, scan) ==
    LET slot == scan.hand
        e == scan.slots[slot]
        next == (slot + 1) % c.capacity
    IN  CASE scan.selected # -1 -> scan
          [] scan.selected = -1 /\ e.key # -1 /\ (c.policy = "slru" \/ e.pins > 0) ->
               [scan EXCEPT !.hand = next]
          [] scan.selected = -1 /\ e.key # -1 /\ c.policy = "clock" /\ e.pins = 0 /\ e.referenced ->
               [scan EXCEPT !.hand = next, !.slots[slot].referenced = FALSE]
          [] OTHER -> [scan EXCEPT !.hand = next, !.selected = slot]

Trials(c) == 2 * c.capacity + 1

Scan(c) ==
    LET After[i \in 0 .. Trials(c)] ==
          IF i = 0 THEN [hand |-> c.hand, slots |-> c.slots, selected |-> -1]
                   ELSE Trial(c, After[i - 1])
    IN  After[Trials(c)]

(* Mutant of Oldest: leases do not protect a record.                       *)
OldestThoughLeased(c) ==
    LET queue == c.probation \o c.protected
    IN  IF queue = <<>> THEN -1 ELSE CHOOSE s \in SlotsHolding(c, Head(queue)) : TRUE

(* The oldest unleased record of probation, then of protected.             *)
Oldest(c) ==
    LET queue == SelectSeq(c.probation \o c.protected,
                           LAMBDA k : \A s \in SlotsHolding(c, k) : c.slots[s].pins = 0)
    IN  IF queue = <<>> THEN -1 ELSE CHOOSE s \in SlotsHolding(c, Head(queue)) : TRUE

Selection(c) ==
    IF c.policy = "slru" /\ Cardinality(Resident(c)) = c.capacity
    THEN [hand |-> c.hand, slots |-> c.slots, selected |-> Oldest(c)]
    ELSE Scan(c)

Exhausted(c, key) == key \notin Resident(c) /\ Selection(c).selected = -1

Replace(c, scan, key) ==
    LET victim == scan.slots[scan.selected].key
        Without(queue) == SelectSeq(queue, LAMBDA k : k # victim)
    IN  [c EXCEPT !.hand = scan.hand,
                  !.slots = [scan.slots EXCEPT ![scan.selected] =
                                 [key |-> key, referenced |-> TRUE, pins |-> 0]],
                  !.protected = Without(@),
                  !.probation = IF c.policy = "slru" THEN Append(Without(@), key) ELSE Without(@),
                  !.misses = @ + 1]

Acquire(c, key) ==
    IF key \in Resident(c) THEN AcquireHit(c, key) ELSE Replace(c, Selection(c), key)

Lease(c, key, change) ==
    LET slot == CHOOSE s \in SlotsHolding(c, key) : TRUE
    IN  [c EXCEPT !.slots[slot].pins = @ + change]
=============================================================================
