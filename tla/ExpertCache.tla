---------------------------- MODULE ExpertCache ----------------------------
(***************************************************************************)
(* class ExpertCache of src/src/engine/storage.cpp under its default       *)
(* policy, CLOCK: a fixed number of slots, each holding one expert record  *)
(* in a buffer, filled by reads of the pool and pinned by leases.          *)
(*                                                                         *)
(* One coordinator thread calls acquire, prefetch, clear, resize and drops *)
(* leases; the reads it submitted progress concurrently and only change    *)
(* futures and buffer contents.  clock_victim() examines one slot per step *)
(* because a read may complete between two examinations.  The pool is      *)
(* used through what ReadService promises.  Slots are numbered from 1.     *)
(***************************************************************************)
EXTENDS Naturals, FiniteSets, Sequences

CONSTANTS
    Key,        \* experts (ExpertKey)
    Buf,        \* buffers the allocator can hand out
    NoEntry,    \* an empty slot
    NoKey,      \* buffer contents that are no expert's record
    InitSlots,  \* capacity given to the constructor
    MaxSlots,   \* bound on the capacity a resize asks for
    MaxLeases,  \* bound on the leases held on one expert
    Limit       \* queue limit of the read pool

ASSUME CacheAssumption ==
    /\ IsFiniteSet(Key) /\ IsFiniteSet(Buf)
    /\ InitSlots \in Nat \ {0} /\ MaxSlots \in Nat /\ InitSlots <= MaxSlots
    /\ MaxLeases \in Nat
    /\ Limit \in Nat /\ Limit >= 2
    /\ NoKey \notin Key

VARIABLES
    slots,      \* slots_: what each slot holds
    lookup,     \* lookup_: the slot of each expert, 0 when absent
    hand,       \* hand_
    held,       \* leases alive on each expert
    content,    \* whose record each buffer holds
    demandQ, futureQ, running,   \* the read pool
    pc,         \* where the coordinator is
    op,         \* the call in progress
    trial,      \* clock_victim's loop counter
    pick,       \* the slot selected, or whose read is awaited
    idle0       \* history: slots that were free to take when the scan began

poolVars  == <<demandQ, futureQ, running>>
callVars  == <<pc, op, trial, pick, idle0>>
cacheVars == <<slots, lookup, hand>>
vars == <<slots, lookup, hand, held, content, demandQ, futureQ, running,
          pc, op, trial, pick, idle0>>

Read == [key : Key, buf : Buf]
Pool == INSTANCE ReadService WITH Task <- Read

Load  == {"loading", "ok", "failed"}
Entry == [key : Key, buf : Buf, load : Load, pins : Nat,
          referenced : BOOLEAN, prefetched : BOOLEAN]

ASSUME NoEntryAssumption == NoEntry \notin Entry

Slot        == DOMAIN slots
Occupied    == {i \in Slot : slots[i] # NoEntry}
TheRead(e)  == [key |-> e.key, buf |-> e.buf]
Loading(e)  == e.load = "loading"

(* Mutant of Idle: reads in flight are not looked at. *)
IdleThoughLoading(i) == slots[i] # NoEntry => slots[i].pins = 0

(* A slot the cache may take: empty, or holding a complete unleased record *)
Idle(i) == slots[i] # NoEntry => slots[i].pins = 0 /\ ~Loading(slots[i])

Calls == [kind : {"acquire", "prefetch", "resize"}, key : Key \cup {NoKey}, size : 0 .. MaxSlots]
Call(kind, k, n) == [kind |-> kind, key |-> k, size |-> n]
NoCall == Call("acquire", NoKey, 0)

TypeOK ==
    /\ slots \in Seq(Entry \cup {NoEntry}) /\ Len(slots) \in 1 .. MaxSlots
    /\ lookup \in [Key -> 0 .. MaxSlots]
    /\ hand \in 1 .. Len(slots)
    /\ held \in [Key -> 0 .. MaxLeases]
    /\ content \in [Buf -> Key \cup {NoKey}]
    /\ Pool!ServiceTypeOK
    /\ pc \in {"idle", "scan", "guess", "await", "submit", "shrink"}
    /\ op \in Calls
    /\ trial \in 0 .. 2 * MaxSlots + 1
    /\ pick \in 0 .. MaxSlots
    /\ idle0 \subseteq 1 .. MaxSlots

Init ==
    /\ slots = [i \in 1 .. InitSlots |-> NoEntry]
    /\ lookup = [k \in Key |-> 0]
    /\ hand = 1
    /\ held = [k \in Key |-> 0]
    /\ content = [b \in Buf |-> NoKey]
    /\ Pool!Init
    /\ pc = "idle"
    /\ op = NoCall
    /\ trial = 0
    /\ pick = 0
    /\ idle0 = {}
-----------------------------------------------------------------------------
(* A call returns or throws: its locals are gone.                          *)
Return ==
    /\ pc' = "idle"
    /\ op' = NoCall
    /\ trial' = 0
    /\ pick' = 0
    /\ idle0' = {}

(* acquire, the expert is in the cache: a lease on it, complete or not.    *)
(* Joining a guess whose read is still queued promotes the read.           *)
AcquireHit(k) ==
    LET i == lookup[k]
        e == slots[i]
    IN  /\ pc = "idle"
        /\ i # 0
        /\ held[k] < MaxLeases
        /\ slots' = [slots EXCEPT ![i] = [e EXCEPT !.referenced = TRUE, !.prefetched = FALSE,
                                                   !.pins = e.pins + 1]]
        /\ held' = [held EXCEPT ![k] = held[k] + 1]
        /\ IF e.prefetched /\ Loading(e) THEN Pool!Promote(TheRead(e)) ELSE UNCHANGED poolVars
        /\ UNCHANGED <<lookup, hand, content>> /\ UNCHANGED callVars

(* acquire or prefetch of an absent expert starts looking for a slot.      *)
BeginScan(kind, k) ==
    /\ pc = "idle"
    /\ lookup[k] = 0
    /\ kind = "acquire" => MaxLeases > 0
    /\ pc' = "scan"
    /\ op' = Call(kind, k, 0)
    /\ trial' = 0
    /\ idle0' = {i \in Slot : Idle(i)}
    /\ UNCHANGED <<pick, held, content>> /\ UNCHANGED cacheVars /\ UNCHANGED poolVars

(* One trial of clock_victim. *)
Trials   == 2 * Len(slots) + 1
NextHand == (hand % Len(slots)) + 1

Scan ==
    /\ pc = "scan"
    /\ trial < Trials
    /\ hand' = NextHand
    /\ \/ /\ ~Idle(hand)
          /\ trial' = trial + 1
          /\ UNCHANGED <<pc, pick, slots>>
       \/ /\ Idle(hand) /\ slots[hand] # NoEntry /\ slots[hand].referenced
          /\ slots' = [slots EXCEPT ![hand] = [slots[hand] EXCEPT !.referenced = FALSE]]
          /\ trial' = trial + 1
          /\ UNCHANGED <<pc, pick>>
       \/ /\ Idle(hand) /\ (slots[hand] # NoEntry => ~slots[hand].referenced)
          /\ pc' = "submit"
          /\ pick' = hand
          /\ UNCHANGED <<trial, slots>>
    /\ UNCHANGED <<op, idle0, lookup, held, content>> /\ UNCHANGED poolVars

(* clock_victim found nothing: prefetch gives up, acquire looks further.   *)
ScanFails ==
    /\ pc = "scan"
    /\ trial = Trials
    /\ \/ op.kind = "prefetch" /\ Return
       \/ op.kind = "acquire" /\ pc' = "guess" /\ UNCHANGED <<op, trial, pick, idle0>>
    /\ UNCHANGED <<held, content>> /\ UNCHANGED cacheVars /\ UNCHANGED poolVars

(* acquire: an unleased guess that is still loading, if there is one, is   *)
(* promoted and awaited.                                                   *)
LoadingGuess(i) ==
    slots[i] # NoEntry /\ slots[i].pins = 0 /\ slots[i].prefetched /\ Loading(slots[i])

AwaitGuess ==
    /\ pc = "guess"
    /\ \E i \in Slot :
          /\ LoadingGuess(i) /\ \A j \in 1 .. i - 1 : ~LoadingGuess(j)
          /\ Pool!Promote(TheRead(slots[i]))
          /\ pick' = i
    /\ pc' = "await"
    /\ UNCHANGED <<op, trial, idle0, held, content>> /\ UNCHANGED cacheVars

GuessArrived ==
    /\ pc = "await"
    /\ ~Loading(slots[pick])
    /\ pc' = "scan"
    /\ trial' = 0
    /\ pick' = 0
    /\ idle0' = {i \in Slot : Idle(i)}
    /\ UNCHANGED <<op, held, content>> /\ UNCHANGED cacheVars /\ UNCHANGED poolVars

(* Mutant of Exhausted: the loop is not left when no guess is loading. *)
ScanForEver ==
    /\ pc = "guess"
    /\ \A i \in Slot : ~LoadingGuess(i)
    /\ pc' = "scan"
    /\ trial' = 0
    /\ UNCHANGED <<op, pick, idle0, held, content>> /\ UNCHANGED cacheVars /\ UNCHANGED poolVars

(* throw "expert cache exhausted by outstanding leases" *)
Exhausted ==
    /\ pc = "guess"
    /\ \A i \in Slot : ~LoadingGuess(i)
    /\ Return
    /\ UNCHANGED <<held, content>> /\ UNCHANGED cacheVars /\ UNCHANGED poolVars

(* The selected slot's record is dropped (place) and the new one is read   *)
(* into its buffer, or into a new one.  submit() blocks until there is     *)
(* room.  An acquired entry is born leased and referenced, a guess is      *)
(* born unleased and unreferenced.                                         *)
FreeBufs == Buf \ ({slots[i].buf : i \in Occupied} \cup {r.buf : r \in Pool!Outstanding})

Place(i, k, b, demanded) ==
    /\ slots' = [slots EXCEPT ![i] =
          [key |-> k, buf |-> b, load |-> "loading", pins |-> IF demanded THEN 1 ELSE 0,
           referenced |-> demanded, prefetched |-> ~demanded]]
    /\ lookup' = [j \in Key |-> IF j = k THEN i
                                ELSE IF slots[i] # NoEntry /\ j = slots[i].key THEN 0
                                ELSE lookup[j]]

Admit ==
    LET demanded == op.kind = "acquire"
    IN  /\ pc = "submit"
        /\ \E b \in IF slots[pick] = NoEntry THEN FreeBufs ELSE {slots[pick].buf} :
              /\ Pool!Submit([key |-> op.key, buf |-> b], IF demanded THEN "Demand" ELSE "Future")
              /\ Place(pick, op.key, b, demanded)
        /\ held' = IF demanded THEN [held EXCEPT ![op.key] = held[op.key] + 1] ELSE held
        /\ Return
        /\ UNCHANGED <<hand, content>>

(* The allocator refuses a buffer for an empty slot: nothing is placed.    *)
AllocatorThrows ==
    /\ pc = "submit"
    /\ slots[pick] = NoEntry
    /\ Return
    /\ UNCHANGED <<held, content>> /\ UNCHANGED cacheVars /\ UNCHANGED poolVars
-----------------------------------------------------------------------------
(* ~Lease *)
Release(k) ==
    /\ pc = "idle"
    /\ held[k] > 0
    /\ held' = [held EXCEPT ![k] = held[k] - 1]
    /\ slots' = [slots EXCEPT ![lookup[k]] =
                    [slots[lookup[k]] EXCEPT !.pins = slots[lookup[k]].pins - 1]]
    /\ UNCHANGED <<lookup, hand, content>> /\ UNCHANGED callVars /\ UNCHANGED poolVars

(* Mutant of Boundary: the reads are not drained. *)
BoundaryUndrained ==
    /\ pc = "idle"
    /\ \A i \in Occupied : slots[i].pins = 0

(* clear and resize refuse while a lease is alive and wait for the reads.  *)
Boundary ==
    /\ pc = "idle"
    /\ \A i \in Occupied : slots[i].pins = 0
    /\ Pool!Outstanding = {}

Clear ==
    /\ Boundary
    /\ slots' = [i \in Slot |-> NoEntry]
    /\ lookup' = [k \in Key |-> 0]
    /\ hand' = 1
    /\ UNCHANGED <<held, content>> /\ UNCHANGED callVars /\ UNCHANGED poolVars

Grow(n) ==
    /\ Boundary
    /\ n >= Len(slots) /\ n <= MaxSlots
    /\ slots' = [i \in 1 .. n |-> IF i \in Slot THEN slots[i] ELSE NoEntry]
    /\ UNCHANGED <<lookup, hand, held, content>> /\ UNCHANGED callVars /\ UNCHANGED poolVars

BeginShrink(n) ==
    /\ Boundary
    /\ n > 0 /\ n < Len(slots)
    /\ pc' = "shrink"
    /\ op' = Call("resize", NoKey, n)
    /\ UNCHANGED <<trial, pick, idle0, held, content>> /\ UNCHANGED cacheVars /\ UNCHANGED poolVars

(* One turn of the eviction loop of resize. *)
ShrinkStep ==
    /\ pc = "shrink"
    /\ Cardinality(Occupied) > op.size
    /\ hand' = NextHand
    /\ \/ /\ slots[hand] = NoEntry
          /\ UNCHANGED <<slots, lookup>>
       \/ /\ slots[hand] # NoEntry /\ slots[hand].referenced
          /\ slots' = [slots EXCEPT ![hand] = [slots[hand] EXCEPT !.referenced = FALSE]]
          /\ UNCHANGED lookup
       \/ /\ slots[hand] # NoEntry /\ ~slots[hand].referenced
          /\ slots' = [slots EXCEPT ![hand] = NoEntry]
          /\ lookup' = [lookup EXCEPT ![slots[hand].key] = 0]
    /\ UNCHANGED <<held, content>> /\ UNCHANGED callVars /\ UNCHANGED poolVars

(* The survivors move to the front in order and lookup_ is rebuilt.        *)
Compact ==
    /\ pc = "shrink"
    /\ Cardinality(Occupied) <= op.size
    /\ \E from \in [1 .. Cardinality(Occupied) -> Occupied] :
          /\ \A i, j \in DOMAIN from : i < j => from[i] < from[j]
          /\ slots' = [i \in 1 .. op.size |-> IF i \in DOMAIN from THEN slots[from[i]] ELSE NoEntry]
          /\ lookup' = [k \in Key |-> IF \E i \in DOMAIN from : slots[from[i]].key = k
                                      THEN CHOOSE i \in DOMAIN from : slots[from[i]].key = k ELSE 0]
    /\ hand' = 1
    /\ Return
    /\ UNCHANGED <<held, content>> /\ UNCHANGED poolVars
-----------------------------------------------------------------------------
(* The reads.  While one runs, its buffer holds no complete record.        *)
ReadStarts(r) ==
    /\ Pool!Start(r)
    /\ content' = [content EXCEPT ![r.buf] = NoKey]
    /\ UNCHANGED held /\ UNCHANGED cacheVars /\ UNCHANGED callVars

Completed(r, load) ==
    [i \in Slot |-> IF slots[i] # NoEntry /\ TheRead(slots[i]) = r
                    THEN [slots[i] EXCEPT !.load = load] ELSE slots[i]]

ReadEnds(r, load) ==
    /\ Pool!Finish(r)
    /\ content' = IF load = "ok" THEN [content EXCEPT ![r.buf] = r.key] ELSE content
    /\ slots' = Completed(r, load)
    /\ UNCHANGED <<lookup, hand, held>> /\ UNCHANGED callVars
-----------------------------------------------------------------------------
Coordinator ==
    \/ \E k \in Key : AcquireHit(k) \/ Release(k)
    \/ \E k \in Key, kind \in {"acquire", "prefetch"} : BeginScan(kind, k)
    \/ Clear
    \/ \E n \in 1 .. MaxSlots : Grow(n) \/ BeginShrink(n)

(* Steps of a call that has begun.  A submit the pool cannot accept waits. *)
Continue ==
    Scan \/ ScanFails \/ AwaitGuess \/ GuessArrived \/ Exhausted \/ Admit \/ AllocatorThrows
    \/ ShrinkStep \/ Compact

Reads == \E r \in Read : ReadStarts(r) \/ ReadEnds(r, "ok") \/ ReadEnds(r, "failed")

Next == Coordinator \/ Continue \/ Reads

Spec == Init /\ [][Next]_vars

(* The coordinator finishes the call it began and the pool finishes reads. *)
FairSpec == Spec /\ WF_vars(Continue) /\ WF_vars(Reads)
-----------------------------------------------------------------------------
(* Safety *)

(* lookup_ and slots_ describe the same cache, through placement, eviction *)
(* and the compaction of resize: every resident expert is found in its     *)
(* slot and only there.                                                    *)
LookupExact ==
    \A k \in Key, i \in 1 .. MaxSlots :
        lookup[k] = i <=> i \in Occupied /\ slots[i].key = k

(* A leased expert stays resident until its last lease is dropped, and its *)
(* pins are exactly the leases alive.                                      *)
LeasesResident ==
    \A k \in Key : held[k] = IF lookup[k] = 0 THEN 0 ELSE slots[lookup[k]].pins

(* No two slots share a buffer, and every outstanding read writes the      *)
(* buffer of the one slot that is waiting for it: eviction never hands a   *)
(* buffer to a new record while a read is still writing it.                *)
ReadsOwnBuffers ==
    /\ \A i, j \in Occupied : slots[i].buf = slots[j].buf => i = j
    /\ \A r \in Pool!Outstanding : \E i \in Occupied : TheRead(slots[i]) = r /\ Loading(slots[i])
    /\ \A i \in Occupied : Loading(slots[i]) => TheRead(slots[i]) \in Pool!Outstanding

(* What a lease's wait() returns without throwing is the leased expert's   *)
(* record and nothing else.                                                *)
CompleteMeansContent ==
    \A i \in Occupied : slots[i].load = "ok" => content[slots[i].buf] = slots[i].key

(* An expert some computation has asked for is never left to a read at     *)
(* speculative priority: acquire joining a queued guess promotes it.       *)
ClaimedIsDemand ==
    \A i \in Occupied : ~slots[i].prefetched => TheRead(slots[i]) \notin futureQ

(* Two rounds and one step of the hand are enough: clock_victim reports no *)
(* victim only if no slot was free to take when it began, whatever the     *)
(* reference bits and the position of the hand.                            *)
ScanFindsIdle == pc = "scan" /\ trial = Trials => idle0 = {}

(* Between two calls and inside them the cache tells the truth: lookup and *)
(* slots agree, pins are the leases alive, reads fill the buffers of their *)
(* own slots, what is complete is the expert asked for, and a victim is    *)
(* found when there is one.                                                *)
CacheExact ==
    /\ TypeOK /\ LookupExact /\ LeasesResident /\ ReadsOwnBuffers
    /\ CompleteMeansContent /\ ClaimedIsDemand /\ ScanFindsIdle

(* A slot that is leased or whose read is outstanding keeps its record: no *)
(* acquire, guess, clear or resize evicts it or reuses its buffer.         *)
NeverEvictsBusy ==
    [][\A i \in Slot : ~Idle(i) /\ i \in Slot' /\ slots'[i] # slots[i] =>
            slots'[i] # NoEntry /\ TheRead(slots'[i]) = TheRead(slots[i])]_slots

(* acquire throws "exhausted by outstanding leases" only when each slot is *)
(* leased, or still being filled for a lease that was dropped: an unleased *)
(* guess is waited for, as the comment in acquire says.                    *)
ExhaustedOnlyByLeases ==
    [][Exhausted => \A i \in Slot :
          \/ slots[i] # NoEntry /\ slots[i].pins > 0
          \/ slots[i] # NoEntry /\ Loading(slots[i]) /\ ~slots[i].prefetched]_vars
-----------------------------------------------------------------------------
(* Liveness *)

(* Every acquire, prefetch and resize returns or throws: the loop that     *)
(* waits for guesses does not repeat for ever and the shrinking loop ends. *)
CallsReturn == pc # "idle" ~> pc = "idle"
=============================================================================
