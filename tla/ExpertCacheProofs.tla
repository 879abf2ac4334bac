------------------------- MODULE ExpertCacheProofs -------------------------
(***************************************************************************)
(* Proofs about ExpertCache for any set of experts and buffers and any     *)
(* capacity: the cache tells the truth about its slots (CacheExact) and no *)
(* slot that is leased or being filled is ever taken (NeverEvictsBusy).    *)
(***************************************************************************)
EXTENDS ExpertCache, FiniteSetTheorems, SequenceTheorems, TLAPS

(* What the coordinator knows between two steps of a call.                 *)
Quiescent == Pool!Outstanding = {} /\ \A i \in Occupied : slots[i].pins = 0

CallInv ==
    /\ pc \in {"scan", "guess", "await", "submit"} =>
          /\ op.kind \in {"acquire", "prefetch"}
          /\ op.key \in Key /\ lookup[op.key] = 0
          /\ op.kind = "acquire" => MaxLeases > 0
    /\ pc = "submit" => pick \in Slot /\ Idle(pick)
    /\ pc = "shrink" => op.size \in 1 .. Len(slots) - 1 /\ Quiescent

(* A started read is not queued any more.                                  *)
QueueInv == running \cap (demandQ \cup futureQ) = {}

(* How many slots the hand passes before it looks at slot i.               *)
Ahead(i) == IF i >= hand THEN i - hand ELSE i + Len(slots) - hand

(* A slot that was free when the scan began still is, and the trials left  *)
(* suffice to reach it, and to reach it again if its bit must be cleared.  *)
ScanInv ==
    pc = "scan" => \A i \in idle0 :
        /\ i \in Slot /\ Idle(i)
        /\ trial + Ahead(i) < Trials
        /\ slots[i] # NoEntry /\ slots[i].referenced => trial + Ahead(i) + Len(slots) < Trials

(* The inductive invariant.                                                *)
CacheInv ==
    /\ TypeOK /\ LookupExact /\ LeasesResident /\ ReadsOwnBuffers
    /\ CompleteMeansContent /\ ClaimedIsDemand
    /\ CallInv /\ QueueInv /\ ScanInv

-----------------------------------------------------------------------------
(* The slots and their entries. *)

(* The slots are numbered, and an occupied one holds an entry.             *)
LEMMA SlotFacts ==
    ASSUME TypeOK
    PROVE  /\ Len(slots) \in Nat /\ 1 <= Len(slots) /\ Len(slots) <= MaxSlots
           /\ MaxSlots \in Nat
           /\ Slot = 1 .. Len(slots)
           /\ \A i \in Slot : slots[i] \in Entry \cup {NoEntry}
           /\ \A i \in Occupied : i \in Slot /\ slots[i] \in Entry /\ slots[i] # NoEntry
           /\ \A i \in Slot : i \in 1 .. MaxSlots
  BY CacheAssumption DEF TypeOK, Slot, Occupied

(* Writing one slot. *)
LEMMA PutSlot ==
    ASSUME TypeOK, NEW i \in Slot, NEW e \in Entry \cup {NoEntry},
           slots' = [slots EXCEPT ![i] = e]
    PROVE  /\ slots' \in Seq(Entry \cup {NoEntry}) /\ Len(slots') = Len(slots) /\ Slot' = Slot
           /\ slots'[i] = e /\ \A j \in Slot \ {i} : slots'[j] = slots[j]
  <1>1. slots \in Seq(Entry \cup {NoEntry}) /\ Slot = 1 .. Len(slots)
    BY SlotFacts DEF TypeOK
  <1>2. slots' \in Seq(Entry \cup {NoEntry}) /\ Len(slots') = Len(slots)
    BY <1>1, ExceptSeq
  <1>3. QED
    BY <1>1, <1>2 DEF Slot

(* A new array of slots. *)
LEMMA NewSlots ==
    ASSUME NEW n \in Nat, NEW f \in [1 .. n -> Entry \cup {NoEntry}], slots' = f
    PROVE  slots' \in Seq(Entry \cup {NoEntry}) /\ Len(slots') = n /\ Slot' = 1 .. n
  BY DEF Slot

(* Changing one field of an entry leaves the others alone.                  *)
LEMMA WithReferenced ==
    ASSUME NEW e \in Entry, NEW v \in BOOLEAN
    PROVE  LET n == [e EXCEPT !.referenced = v]
           IN  /\ n \in Entry /\ n # NoEntry /\ n.referenced = v
               /\ n.key = e.key /\ n.buf = e.buf /\ n.load = e.load
               /\ n.pins = e.pins /\ n.prefetched = e.prefetched
  BY NoEntryAssumption DEF Entry

(* The same for the flag of a guess.                                        *)
LEMMA WithPrefetched ==
    ASSUME NEW e \in Entry, NEW v \in BOOLEAN
    PROVE  LET n == [e EXCEPT !.prefetched = v]
           IN  /\ n \in Entry /\ n # NoEntry /\ n.prefetched = v
               /\ n.key = e.key /\ n.buf = e.buf /\ n.load = e.load
               /\ n.pins = e.pins /\ n.referenced = e.referenced
  BY NoEntryAssumption DEF Entry

(* The same for the leases of an entry.                                     *)
LEMMA WithPins ==
    ASSUME NEW e \in Entry, NEW p \in Nat
    PROVE  LET n == [e EXCEPT !.pins = p]
           IN  /\ n \in Entry /\ n # NoEntry /\ n.pins = p
               /\ n.key = e.key /\ n.buf = e.buf /\ n.load = e.load
               /\ n.referenced = e.referenced /\ n.prefetched = e.prefetched
  BY NoEntryAssumption DEF Entry

(* The same for the progress of its read.                                   *)
LEMMA WithLoad ==
    ASSUME NEW e \in Entry, NEW x \in Load
    PROVE  LET n == [e EXCEPT !.load = x]
           IN  /\ n \in Entry /\ n # NoEntry /\ n.load = x
               /\ n.key = e.key /\ n.buf = e.buf /\ n.pins = e.pins
               /\ n.referenced = e.referenced /\ n.prefetched = e.prefetched
  BY NoEntryAssumption DEF Entry

(* The entry of a record about to be read.                                 *)
LEMMA BornEntry ==
    ASSUME NEW k \in Key, NEW b \in Buf, NEW d \in BOOLEAN
    PROVE  LET e == [key |-> k, buf |-> b, load |-> "loading", pins |-> IF d THEN 1 ELSE 0,
                     referenced |-> d, prefetched |-> ~d]
           IN  /\ e \in Entry /\ e # NoEntry /\ e.key = k /\ e.buf = b /\ e.load = "loading"
               /\ e.pins = (IF d THEN 1 ELSE 0) /\ (e.prefetched <=> ~d)
  <1> DEFINE e == [key |-> k, buf |-> b, load |-> "loading", pins |-> IF d THEN 1 ELSE 0,
                   referenced |-> d, prefetched |-> ~d]
  <1>1. (~d) \in BOOLEAN /\ "loading" \in Load
    BY Zenon DEF Load
  <1>2. (IF d THEN 1 ELSE 0) \in Nat
    OBVIOUS
  <1>3. e \in Entry
    BY <1>1, <1>2, Zenon DEF Entry
  <1>4. QED
    BY <1>3, NoEntryAssumption

(* Reading a resident expert's slot through lookup_. *)
LEMMA LookupFinds ==
    ASSUME TypeOK, LookupExact, NEW k \in Key, lookup[k] # 0
    PROVE  lookup[k] \in Occupied /\ slots[lookup[k]].key = k
  <1>1. lookup[k] \in 1 .. MaxSlots
    BY CacheAssumption DEF TypeOK
  <1>2. QED
    BY <1>1 DEF LookupExact

(* The slot an outstanding read fills. *)
LEMMA ReadersSlot ==
    ASSUME ReadsOwnBuffers, NEW r \in Pool!Outstanding, NEW i \in Occupied, slots[i].buf = r.buf
    PROVE  Loading(slots[i]) /\ TheRead(slots[i]) = r
  <1>1. PICK j \in Occupied : TheRead(slots[j]) = r /\ Loading(slots[j])
    BY DEF ReadsOwnBuffers
  <1>2. slots[j].buf = r.buf
    BY <1>1 DEF TheRead
  <1>3. i = j
    BY <1>2 DEF ReadsOwnBuffers
  <1>4. QED
    BY <1>1, <1>3

(* A step that moves no record: what is said of keys, buffers and reads    *)
(* stays true.                                                             *)
SameRecords ==
    /\ Slot' = Slot
    /\ \A i \in Slot : slots'[i] = NoEntry <=> slots[i] = NoEntry
    /\ \A i \in Occupied : /\ slots'[i].key = slots[i].key /\ slots'[i].buf = slots[i].buf
                           /\ slots'[i].load = slots[i].load

(* A step that changes no record keeps what is said of the records.        *)
LEMMA RecordsKept ==
    ASSUME TypeOK, LookupExact, ReadsOwnBuffers, CompleteMeansContent, SameRecords,
           lookup' = lookup, content' = content, Pool!Outstanding' = Pool!Outstanding
    PROVE  Occupied' = Occupied /\ LookupExact' /\ ReadsOwnBuffers' /\ CompleteMeansContent'
  <1>1. Occupied' = Occupied
    BY DEF SameRecords, Occupied
  <1>2. LookupExact'
    BY <1>1 DEF SameRecords, LookupExact
  <1>3. \A i \in Occupied : TheRead(slots[i])' = TheRead(slots[i]) /\ Loading(slots[i])' = Loading(slots[i])
    BY DEF SameRecords, TheRead, Loading
  <1>4. ReadsOwnBuffers'
    BY <1>1, <1>3 DEF SameRecords, ReadsOwnBuffers
  <1>5. CompleteMeansContent'
    BY <1>1 DEF SameRecords, CompleteMeansContent
  <1>6. QED
    BY <1>1, <1>2, <1>4, <1>5

(* What the pool's operations do to the reads outstanding.                 *)
LEMMA PromoteFacts ==
    ASSUME TypeOK, QueueInv, NEW r, Pool!Promote(r)
    PROVE  /\ Pool!Outstanding' = Pool!Outstanding
           /\ futureQ' = futureQ \ {r}
           /\ Pool!ServiceTypeOK' /\ QueueInv'
  BY DEF TypeOK, QueueInv, Pool!Promote, Pool!Outstanding, Pool!ServiceTypeOK

(* A worker takes a read: it stays outstanding.                            *)
LEMMA StartFacts ==
    ASSUME TypeOK, QueueInv, NEW r \in Read, Pool!Start(r)
    PROVE  /\ r \in Pool!Outstanding /\ Pool!Outstanding' = Pool!Outstanding
           /\ futureQ' \subseteq futureQ
           /\ Pool!ServiceTypeOK' /\ QueueInv'
  BY DEF TypeOK, QueueInv, Pool!Start, Pool!Outstanding, Pool!ServiceTypeOK

(* A worker ends a read: it alone is no longer outstanding.                *)
LEMMA FinishFacts ==
    ASSUME TypeOK, QueueInv, NEW r \in Read, Pool!Finish(r)
    PROVE  /\ r \in Pool!Outstanding /\ Pool!Outstanding' = Pool!Outstanding \ {r}
           /\ futureQ' = futureQ
           /\ Pool!ServiceTypeOK' /\ QueueInv'
  BY DEF TypeOK, QueueInv, Pool!Finish, Pool!Outstanding, Pool!ServiceTypeOK

(* A read is submitted: it was not outstanding and now is.                 *)
LEMMA SubmitFacts ==
    ASSUME TypeOK, QueueInv, NEW r \in Read, NEW priority \in {"Demand", "Future"},
           Pool!Submit(r, priority)
    PROVE  /\ r \notin Pool!Outstanding /\ Pool!Outstanding' = Pool!Outstanding \cup {r}
           /\ futureQ' = IF priority = "Future" THEN futureQ \cup {r} ELSE futureQ
           /\ Pool!ServiceTypeOK' /\ QueueInv'
  BY DEF TypeOK, QueueInv, Pool!Submit, Pool!Outstanding, Pool!ServiceTypeOK

(* A step that is none of the pool's.                                      *)
LEMMA PoolUnchanged ==
    ASSUME TypeOK, QueueInv, UNCHANGED poolVars
    PROVE  /\ Pool!Outstanding' = Pool!Outstanding /\ futureQ' = futureQ
           /\ Pool!ServiceTypeOK' /\ QueueInv'
  BY DEF TypeOK, QueueInv, poolVars, Pool!Outstanding, Pool!ServiceTypeOK
-----------------------------------------------------------------------------
(* The constructor establishes the invariant.                              *)
LEMMA CacheInit == Init => CacheInv
  <1> SUFFICES ASSUME Init PROVE CacheInv
    OBVIOUS
  <1>1. slots \in Seq(Entry \cup {NoEntry}) /\ Len(slots) = InitSlots /\ Slot = 1 .. InitSlots
    <2>1. slots \in [1 .. InitSlots -> Entry \cup {NoEntry}] /\ InitSlots \in Nat
      BY CacheAssumption DEF Init
    <2>2. QED
      BY <2>1 DEF Slot
  <1>2. Occupied = {} /\ Pool!Outstanding = {}
    BY <1>1 DEF Init, Occupied, Slot, Pool!Init, Pool!Outstanding
  <1>3. TypeOK
    <2>1. op \in Calls
      BY CacheAssumption DEF Init, Calls, Call, NoCall
    <2>2. Pool!ServiceTypeOK
      BY DEF Init, Pool!Init, Pool!ServiceTypeOK
    <2>3. /\ lookup \in [Key -> 0 .. MaxSlots] /\ held \in [Key -> 0 .. MaxLeases]
          /\ content \in [Buf -> Key \cup {NoKey}] /\ hand \in 1 .. Len(slots)
          /\ trial \in 0 .. 2 * MaxSlots + 1 /\ pick \in 0 .. MaxSlots /\ Len(slots) \in 1 .. MaxSlots
      BY <1>1, CacheAssumption DEF Init
    <2>4. QED
      BY <1>1, <2>1, <2>2, <2>3 DEF TypeOK, Init
  <1>4. LookupExact /\ LeasesResident
    BY <1>2, CacheAssumption DEF LookupExact, LeasesResident, Init
  <1>5. ReadsOwnBuffers /\ CompleteMeansContent /\ ClaimedIsDemand
    BY <1>2 DEF ReadsOwnBuffers, CompleteMeansContent, ClaimedIsDemand
  <1>6. CallInv /\ QueueInv /\ ScanInv
    BY DEF Init, CallInv, ScanInv, QueueInv, Pool!Init
  <1>7. QED
    BY <1>3, <1>4, <1>5, <1>6 DEF CacheInv

(* acquire of a resident expert leases it and leaves no speculative read   *)
(* behind it.                                                              *)
LEMMA HitKeeps ==
    ASSUME CacheInv, NEW k \in Key, AcquireHit(k)
    PROVE  CacheInv'
  <1> DEFINE i == lookup[k]
             e == slots[i]
             n == [e EXCEPT !.referenced = TRUE, !.prefetched = FALSE, !.pins = e.pins + 1]
  <1>0. /\ TypeOK /\ LookupExact /\ LeasesResident /\ ReadsOwnBuffers /\ CompleteMeansContent
        /\ ClaimedIsDemand /\ QueueInv
    BY DEF CacheInv
  <1>1. /\ i # 0 /\ held[k] < MaxLeases /\ slots' = [slots EXCEPT ![i] = n]
        /\ held' = [held EXCEPT ![k] = held[k] + 1]
        /\ UNCHANGED <<lookup, hand, content>> /\ UNCHANGED callVars /\ pc = "idle"
        /\ IF e.prefetched /\ Loading(e) THEN Pool!Promote(TheRead(e)) ELSE UNCHANGED poolVars
    BY DEF AcquireHit
  <1>2. i \in Occupied /\ e.key = k /\ e \in Entry /\ i \in Slot
    BY <1>0, <1>1, LookupFinds, SlotFacts
  <1>3. /\ n \in Entry /\ n.key = e.key /\ n.buf = e.buf /\ n.load = e.load
        /\ n.pins = e.pins + 1 /\ n # NoEntry
    <2> DEFINE a == [e EXCEPT !.referenced = TRUE]
               b == [a EXCEPT !.prefetched = FALSE]
    <2>1. /\ a \in Entry /\ a.key = e.key /\ a.buf = e.buf /\ a.load = e.load /\ a.pins = e.pins
      BY <1>2, WithReferenced
    <2> HIDE DEF a
    <2>2. /\ b \in Entry /\ b.key = a.key /\ b.buf = a.buf /\ b.load = a.load /\ b.pins = a.pins
      BY <2>1, WithPrefetched
    <2>3. n = [b EXCEPT !.pins = e.pins + 1] /\ e.pins + 1 \in Nat
      BY <1>2 DEF a, Entry
    <2> HIDE DEF b, n
    <2>4. QED
      BY <2>1, <2>2, <2>3, WithPins
  <1> HIDE DEF n
  <1>4. /\ slots' \in Seq(Entry \cup {NoEntry}) /\ Len(slots') = Len(slots) /\ Slot' = Slot
        /\ slots'[i] = n /\ \A j \in Slot \ {i} : slots'[j] = slots[j]
    BY <1>0, <1>1, <1>2, <1>3, PutSlot
  <1>5. /\ Pool!Outstanding' = Pool!Outstanding /\ futureQ' \subseteq futureQ
        /\ e.prefetched /\ Loading(e) => TheRead(e) \notin futureQ'
        /\ Pool!ServiceTypeOK' /\ QueueInv'
    BY <1>0, <1>1, PromoteFacts, PoolUnchanged
  <1>6. SameRecords
    BY <1>2, <1>3, <1>4 DEF SameRecords, Occupied
  <1>7. Occupied' = Occupied /\ LookupExact' /\ ReadsOwnBuffers' /\ CompleteMeansContent'
    BY <1>0, <1>1, <1>5, <1>6, RecordsKept
  <1>8. TypeOK'
    <2>1. held' \in [Key -> 0 .. MaxLeases]
      BY <1>0, <1>1, CacheAssumption DEF TypeOK
    <2>2. QED
      BY <1>0, <1>1, <1>4, <1>5, <2>1 DEF TypeOK, callVars
  <1>9. LeasesResident'
    <2>1. e.pins \in Nat /\ held[k] = e.pins
      BY <1>0, <1>1, <1>2 DEF LeasesResident, Entry
    <2>2. held'[k] = slots'[lookup'[k]].pins /\ lookup'[k] # 0
      BY <1>0, <1>1, <1>3, <1>4, <2>1 DEF TypeOK
    <2>3. ASSUME NEW j \in Key, j # k PROVE held'[j] = IF lookup'[j] = 0 THEN 0 ELSE slots'[lookup'[j]].pins
      <3>1. held'[j] = held[j] /\ lookup'[j] = lookup[j]
        BY <1>0, <1>1, <2>3 DEF TypeOK
      <3>2. lookup[j] # 0 => lookup[j] \in Slot \ {i}
        BY <1>0, <1>2, <2>3, LookupFinds, SlotFacts
      <3>3. QED
        BY <1>0, <1>4, <3>1, <3>2 DEF LeasesResident
    <2>4. QED
      BY <2>2, <2>3 DEF LeasesResident
  <1>10. ClaimedIsDemand'
    <2>1. TheRead(n) = TheRead(e) /\ TheRead(e) \notin futureQ'
      <3>1. ~Loading(e) => TheRead(e) \notin Pool!Outstanding
        BY <1>0, <1>2, ReadersSlot DEF TheRead
      <3>2. futureQ \subseteq Pool!Outstanding
        BY DEF Pool!Outstanding
      <3>3. ~e.prefetched => TheRead(e) \notin futureQ
        BY <1>0, <1>2 DEF ClaimedIsDemand
      <3>4. QED
        BY <1>3, <1>5, <3>1, <3>2, <3>3 DEF TheRead
    <2>2. QED
      BY <1>0, <1>4, <1>5, <1>7, <2>1 DEF ClaimedIsDemand, Occupied
  <1>11. CallInv' /\ ScanInv'
    BY <1>1 DEF CallInv, ScanInv, callVars
  <1>12. QED
    BY <1>5, <1>7, <1>8, <1>9, <1>10, <1>11 DEF CacheInv

(* The hand goes round the slots.                                          *)
LEMMA RoundTheClock ==
    ASSUME NEW L \in Nat, NEW h \in 1 .. L
    PROVE  (h % L) + 1 = IF h = L THEN 1 ELSE h + 1
  <1>1. CASE h = L
    <2>1. h % L = 0
      BY <1>1, Z3
    <2>2. QED
      BY <1>1, <2>1
  <1>2. CASE h # L
    <2>1. h % L = h
      BY <1>2, Z3
    <2>2. QED
      BY <1>2, <2>1
  <1>3. QED
    BY <1>1, <1>2

(* Steps that only move the coordinator, and perhaps promote a read, keep  *)
(* what is said of the cache itself.                                       *)
LEMMA DataKept ==
    ASSUME CacheInv, UNCHANGED <<slots, lookup, held, content>>,
           Pool!Outstanding' = Pool!Outstanding, futureQ' \subseteq futureQ
    PROVE  /\ LookupExact' /\ LeasesResident' /\ ReadsOwnBuffers'
           /\ CompleteMeansContent' /\ ClaimedIsDemand'
           /\ Slot' = Slot /\ Occupied' = Occupied
  <1>1. /\ TypeOK /\ LookupExact /\ LeasesResident /\ ReadsOwnBuffers /\ CompleteMeansContent
        /\ ClaimedIsDemand
    BY DEF CacheInv
  <1>2. SameRecords
    BY DEF SameRecords, Slot
  <1>3. Occupied' = Occupied /\ LookupExact' /\ ReadsOwnBuffers' /\ CompleteMeansContent'
    BY <1>1, <1>2, RecordsKept
  <1>4. LeasesResident' /\ ClaimedIsDemand'
    BY <1>1, <1>3 DEF LeasesResident, ClaimedIsDemand
  <1>5. QED
    BY <1>2, <1>3, <1>4 DEF SameRecords

(* A call that returns has no locals left.                                 *)
LEMMA ReturnFacts ==
    ASSUME Return
    PROVE  /\ pc' = "idle" /\ op' \in Calls /\ trial' \in 0 .. 2 * MaxSlots + 1
           /\ pick' \in 0 .. MaxSlots /\ idle0' \subseteq 1 .. MaxSlots
           /\ CallInv' /\ ScanInv'
  <1>1. NoCall \in Calls
    BY CacheAssumption DEF NoCall, Call, Calls
  <1>2. QED
    BY <1>1, CacheAssumption DEF Return, CallInv, ScanInv

(* A scan begins with two rounds and one trial of the hand ahead of it.    *)
LEMMA ScanBegins ==
    ASSUME TypeOK, trial' = 0, idle0' = {i \in Slot : Idle(i)}, UNCHANGED <<slots, hand>>
    PROVE  ScanInv'
  <1>1. SUFFICES ASSUME NEW i \in idle0'
                 PROVE  /\ i \in Slot' /\ Idle(i)' /\ trial' + Ahead(i)' < Trials'
                        /\ trial' + Ahead(i)' + Len(slots') < Trials'
    BY DEF ScanInv
  <1>2. i \in Slot /\ Idle(i)
    BY <1>1
  <1>3. hand \in 1 .. Len(slots) /\ Len(slots) \in Nat /\ i \in 1 .. Len(slots)
    BY <1>2, SlotFacts DEF TypeOK
  <1>4. Ahead(i) + Len(slots) < 2 * Len(slots) + 1 /\ Ahead(i) < 2 * Len(slots) + 1 /\ Ahead(i) \in Nat
    BY <1>3 DEF Ahead
  <1>5. Ahead(i)' = Ahead(i) /\ Trials' = 2 * Len(slots) + 1 /\ Idle(i)' = Idle(i) /\ Slot' = Slot
    BY DEF Ahead, Trials, Idle, Slot
  <1>6. QED
    BY <1>2, <1>3, <1>4, <1>5

(* acquire or prefetch of an absent expert.                                *)
LEMMA BeginScanKeeps ==
    ASSUME CacheInv, NEW k \in Key, NEW kind \in {"acquire", "prefetch"}, BeginScan(kind, k)
    PROVE  CacheInv'
  <1>0. TypeOK /\ QueueInv
    BY DEF CacheInv
  <1>1. /\ pc' = "scan" /\ op' = Call(kind, k, 0) /\ trial' = 0 /\ idle0' = {i \in Slot : Idle(i)}
        /\ UNCHANGED <<slots, lookup, hand, held, content, pick>> /\ UNCHANGED poolVars
        /\ lookup[k] = 0 /\ (kind = "acquire" => MaxLeases > 0)
    BY DEF BeginScan, cacheVars
  <1>2. /\ Pool!Outstanding' = Pool!Outstanding /\ futureQ' = futureQ
        /\ Pool!ServiceTypeOK' /\ QueueInv'
    BY <1>0, <1>1, PoolUnchanged
  <1>3. /\ LookupExact' /\ LeasesResident' /\ ReadsOwnBuffers'
        /\ CompleteMeansContent' /\ ClaimedIsDemand' /\ Slot' = Slot
    BY <1>1, <1>2, DataKept
  <1>4. op' \in Calls /\ op'.kind = kind /\ op'.key = k
    BY <1>1, CacheAssumption DEF Call, Calls
  <1>5. TypeOK'
    <2>1. idle0' \subseteq 1 .. MaxSlots /\ trial' \in 0 .. 2 * MaxSlots + 1
      BY <1>0, <1>1, SlotFacts
    <2>2. QED
      BY <1>0, <1>1, <1>2, <1>4, <2>1 DEF TypeOK
  <1>6. CallInv'
    BY <1>1, <1>4 DEF CallInv
  <1>7. ScanInv'
    BY <1>0, <1>1, ScanBegins
  <1>8. QED
    BY <1>2, <1>3, <1>5, <1>6, <1>7 DEF CacheInv

(* Steps that end a call, or move it on, without touching the cache.       *)
LEMMA CallKeeps ==
    ASSUME CacheInv, ScanFails \/ Exhausted \/ AllocatorThrows
    PROVE  CacheInv'
  <1>0. TypeOK /\ QueueInv /\ CallInv
    BY DEF CacheInv
  <1>1. UNCHANGED <<slots, lookup, hand, held, content>> /\ UNCHANGED poolVars
    BY DEF ScanFails, Exhausted, AllocatorThrows, cacheVars
  <1>2. /\ Pool!Outstanding' = Pool!Outstanding /\ futureQ' = futureQ
        /\ Pool!ServiceTypeOK' /\ QueueInv'
    BY <1>0, <1>1, PoolUnchanged
  <1>3. /\ LookupExact' /\ LeasesResident' /\ ReadsOwnBuffers'
        /\ CompleteMeansContent' /\ ClaimedIsDemand' /\ Slot' = Slot
    BY <1>1, <1>2, DataKept
  <1>4. CASE Return
    <2>1. TypeOK'
      BY <1>0, <1>1, <1>2, <1>4, ReturnFacts DEF TypeOK
    <2>2. QED
      BY <1>2, <1>3, <1>4, <2>1, ReturnFacts DEF CacheInv
  <1>5. CASE pc = "scan" /\ pc' = "guess" /\ UNCHANGED <<op, trial, pick, idle0>>
    <2>1. TypeOK'
      BY <1>0, <1>1, <1>2, <1>5 DEF TypeOK
    <2>2. CallInv' /\ ScanInv'
      BY <1>0, <1>1, <1>5 DEF CallInv, ScanInv
    <2>3. QED
      BY <1>2, <1>3, <2>1, <2>2 DEF CacheInv
  <1>6. QED
    BY <1>4, <1>5 DEF ScanFails, Exhausted, AllocatorThrows

(* Waiting for a guess promotes its read.                                  *)
LEMMA AwaitKeeps ==
    ASSUME CacheInv, AwaitGuess
    PROVE  CacheInv'
  <1>0. TypeOK /\ QueueInv /\ CallInv
    BY DEF CacheInv
  <1>1. PICK i \in Slot : Pool!Promote(TheRead(slots[i])) /\ pick' = i
    BY DEF AwaitGuess
  <1>2. /\ pc = "guess" /\ pc' = "await"
        /\ UNCHANGED <<slots, lookup, hand, held, content, op, trial, idle0>>
    BY DEF AwaitGuess, cacheVars
  <1>3. /\ Pool!Outstanding' = Pool!Outstanding /\ futureQ' \subseteq futureQ
        /\ Pool!ServiceTypeOK' /\ QueueInv'
    BY <1>0, <1>1, PromoteFacts
  <1>4. /\ LookupExact' /\ LeasesResident' /\ ReadsOwnBuffers'
        /\ CompleteMeansContent' /\ ClaimedIsDemand' /\ Slot' = Slot
    BY <1>2, <1>3, DataKept
  <1>5. TypeOK'
    <2>1. pick' \in 0 .. MaxSlots
      BY <1>0, <1>1, SlotFacts
    <2>2. QED
      BY <1>0, <1>2, <1>3, <2>1 DEF TypeOK
  <1>6. CallInv' /\ ScanInv'
    BY <1>0, <1>2 DEF CallInv, ScanInv
  <1>7. QED
    BY <1>3, <1>4, <1>5, <1>6 DEF CacheInv

(* The arrival of the awaited guess restarts the scan.                     *)
LEMMA ArrivedKeeps ==
    ASSUME CacheInv, GuessArrived
    PROVE  CacheInv'
  <1>0. TypeOK /\ QueueInv /\ CallInv
    BY DEF CacheInv
  <1>1. /\ pc = "await" /\ pc' = "scan" /\ trial' = 0 /\ pick' = 0
        /\ idle0' = {i \in Slot : Idle(i)}
        /\ UNCHANGED <<slots, lookup, hand, held, content, op>> /\ UNCHANGED poolVars
    BY DEF GuessArrived, cacheVars
  <1>2. /\ Pool!Outstanding' = Pool!Outstanding /\ futureQ' = futureQ
        /\ Pool!ServiceTypeOK' /\ QueueInv'
    BY <1>0, <1>1, PoolUnchanged
  <1>3. /\ LookupExact' /\ LeasesResident' /\ ReadsOwnBuffers'
        /\ CompleteMeansContent' /\ ClaimedIsDemand'
    BY <1>1, <1>2, DataKept
  <1>4. TypeOK'
    <2>1. idle0' \subseteq 1 .. MaxSlots /\ trial' \in 0 .. 2 * MaxSlots + 1 /\ pick' \in 0 .. MaxSlots
      BY <1>0, <1>1, SlotFacts
    <2>2. QED
      BY <1>0, <1>1, <1>2, <2>1 DEF TypeOK
  <1>5. CallInv' /\ ScanInv'
    BY <1>0, <1>1, ScanBegins DEF CallInv
  <1>6. QED
    BY <1>2, <1>3, <1>4, <1>5 DEF CacheInv

(* One trial of the hand: the slots it has still to look at come nearer,   *)
(* and a slot whose reference bit it clears is a full round away.          *)
LEMMA ScanKeeps ==
    ASSUME CacheInv, Scan
    PROVE  CacheInv'
  <1>0. /\ TypeOK /\ LookupExact /\ LeasesResident /\ ReadsOwnBuffers /\ CompleteMeansContent
        /\ ClaimedIsDemand /\ QueueInv /\ CallInv /\ ScanInv
    BY DEF CacheInv
  <1>1. /\ pc = "scan" /\ trial < Trials /\ hand' = NextHand
        /\ UNCHANGED <<op, idle0, lookup, held, content>> /\ UNCHANGED poolVars
    BY DEF Scan
  <1>2. /\ hand \in 1 .. Len(slots) /\ hand \in Slot /\ Len(slots) \in Nat
        /\ Len(slots) <= MaxSlots /\ MaxSlots \in Nat /\ trial \in Nat /\ Trials = 2 * Len(slots) + 1
    BY <1>0, SlotFacts DEF TypeOK, Trials
  <1>3. hand' = IF hand = Len(slots) THEN 1 ELSE hand + 1
    BY <1>1, <1>2, RoundTheClock DEF NextHand
  <1>4. /\ Pool!Outstanding' = Pool!Outstanding /\ futureQ' = futureQ
        /\ Pool!ServiceTypeOK' /\ QueueInv'
    BY <1>0, <1>1, PoolUnchanged
  <1>5. ASSUME Len(slots') = Len(slots), NEW i \in 1 .. Len(slots), i # hand
        PROVE  Ahead(i)' + 1 = Ahead(i) /\ Ahead(i) \in Nat /\ Ahead(i)' \in Nat
    BY <1>2, <1>3, <1>5 DEF Ahead
  <1>6. CASE ~Idle(hand) /\ trial' = trial + 1 /\ UNCHANGED <<pc, pick, slots>>
    <2>1. /\ LookupExact' /\ LeasesResident' /\ ReadsOwnBuffers'
          /\ CompleteMeansContent' /\ ClaimedIsDemand' /\ Slot' = Slot
      BY <1>1, <1>4, <1>6, DataKept
    <2>2. trial' \in 0 .. 2 * MaxSlots + 1 /\ hand' \in 1 .. Len(slots')
      BY <1>1, <1>2, <1>3, <1>6
    <2>3. TypeOK'
      BY <1>0, <1>1, <1>4, <1>6, <2>2 DEF TypeOK
    <2>4. CallInv'
      BY <1>0, <1>1, <1>6 DEF CallInv
    <2>5. ScanInv'
      <3>1. SUFFICES ASSUME NEW i \in idle0'
                     PROVE  /\ i \in Slot' /\ Idle(i)' /\ trial' + Ahead(i)' < Trials'
                            /\ slots'[i] # NoEntry /\ slots'[i].referenced
                                  => trial' + Ahead(i)' + Len(slots') < Trials'
        BY DEF ScanInv
      <3>2. /\ i \in Slot /\ Idle(i) /\ trial + Ahead(i) < Trials
            /\ slots[i] # NoEntry /\ slots[i].referenced => trial + Ahead(i) + Len(slots) < Trials
        BY <1>0, <1>1, <3>1 DEF ScanInv
      <3>3. i # hand /\ i \in 1 .. Len(slots) /\ Trials' = Trials
        BY <1>0, <1>6, <3>2, SlotFacts DEF Trials
      <3>4. Ahead(i)' + 1 = Ahead(i) /\ Ahead(i) \in Nat /\ Ahead(i)' \in Nat
        BY <1>5, <1>6, <3>3
      <3>5. trial' + Ahead(i)' = trial + Ahead(i)
        BY <1>2, <1>6, <3>4
      <3>6. QED
        BY <1>6, <2>1, <3>2, <3>3, <3>5 DEF Idle
    <2>6. QED
      BY <1>4, <2>1, <2>3, <2>4, <2>5 DEF CacheInv
  <1>7. CASE /\ Idle(hand) /\ slots[hand] # NoEntry /\ slots[hand].referenced
             /\ slots' = [slots EXCEPT ![hand] = [slots[hand] EXCEPT !.referenced = FALSE]]
             /\ trial' = trial + 1 /\ UNCHANGED <<pc, pick>>
    <2> DEFINE e == slots[hand]
               n == [e EXCEPT !.referenced = FALSE]
    <2>1. hand \in Occupied /\ e \in Entry
      BY <1>0, <1>2, <1>7, SlotFacts DEF Occupied
    <2>2. /\ n \in Entry /\ n # NoEntry /\ n.referenced = FALSE /\ n.key = e.key /\ n.buf = e.buf
          /\ n.load = e.load /\ n.pins = e.pins /\ n.prefetched = e.prefetched
      BY <2>1, WithReferenced
    <2> HIDE DEF n
    <2>3. /\ slots' \in Seq(Entry \cup {NoEntry}) /\ Len(slots') = Len(slots) /\ Slot' = Slot
          /\ slots'[hand] = n /\ \A j \in Slot \ {hand} : slots'[j] = slots[j]
      BY <1>0, <1>2, <1>7, <2>2, PutSlot DEF n
    <2>4. SameRecords
      BY <1>2, <1>7, <2>2, <2>3 DEF SameRecords, Occupied
    <2>5. Occupied' = Occupied /\ LookupExact' /\ ReadsOwnBuffers' /\ CompleteMeansContent'
      BY <1>0, <1>1, <1>4, <2>4, RecordsKept
    <2>6. \A i \in Occupied : /\ slots'[i].pins = slots[i].pins
                               /\ slots'[i].prefetched = slots[i].prefetched
                               /\ TheRead(slots'[i]) = TheRead(slots[i])
      BY <1>0, <2>2, <2>3, SlotFacts DEF TheRead
    <2>7. LeasesResident'
      BY <1>0, <1>1, <2>6, LookupFinds DEF LeasesResident
    <2>8. ClaimedIsDemand'
      BY <1>0, <1>4, <2>5, <2>6 DEF ClaimedIsDemand
    <2>9. trial' \in 0 .. 2 * MaxSlots + 1 /\ hand' \in 1 .. Len(slots')
      BY <1>1, <1>2, <1>3, <1>7, <2>3
    <2>10. TypeOK'
      BY <1>0, <1>1, <1>4, <1>7, <2>3, <2>9 DEF TypeOK
    <2>11. CallInv'
      BY <1>0, <1>1, <1>7 DEF CallInv
    <2>12. ScanInv'
      <3>1. SUFFICES ASSUME NEW i \in idle0'
                     PROVE  /\ i \in Slot' /\ Idle(i)' /\ trial' + Ahead(i)' < Trials'
                            /\ slots'[i] # NoEntry /\ slots'[i].referenced
                                  => trial' + Ahead(i)' + Len(slots') < Trials'
        BY DEF ScanInv
      <3>2. /\ i \in Slot /\ Idle(i) /\ trial + Ahead(i) < Trials /\ i \in 1 .. Len(slots)
            /\ slots[i] # NoEntry /\ slots[i].referenced => trial + Ahead(i) + Len(slots) < Trials
        BY <1>0, <1>1, <3>1, SlotFacts DEF ScanInv
      <3>3. Trials' = Trials
        BY <2>3 DEF Trials
      <3>4. CASE i # hand
        <4>1. slots'[i] = slots[i]
          BY <2>3, <3>2, <3>4
        <4>2. Ahead(i)' + 1 = Ahead(i) /\ Ahead(i) \in Nat /\ Ahead(i)' \in Nat
          BY <1>5, <2>3, <3>2, <3>4
        <4>3. trial' + Ahead(i)' = trial + Ahead(i)
          BY <1>2, <1>7, <4>2
        <4>4. QED
          BY <2>3, <3>2, <3>3, <4>1, <4>3 DEF Idle
      <3>5. CASE i = hand
        <4>1. Ahead(i) = 0 /\ Ahead(i)' = Len(slots) - 1
          BY <1>2, <1>3, <2>3, <3>5 DEF Ahead
        <4>2. trial + Len(slots) < Trials
          BY <1>2, <1>7, <3>2, <3>5, <4>1
        <4>3. trial' + Ahead(i)' < Trials'
          BY <1>2, <1>7, <3>3, <4>1, <4>2
        <4>4. slots'[i] = n /\ Idle(i)'
          BY <1>7, <2>2, <2>3, <3>5 DEF Idle, Loading
        <4>5. QED
          BY <2>2, <2>3, <3>2, <4>3, <4>4
      <3>6. QED
        BY <3>4, <3>5
    <2>13. QED
      BY <1>4, <2>5, <2>7, <2>8, <2>10, <2>11, <2>12 DEF CacheInv
  <1>8. CASE Idle(hand) /\ pc' = "submit" /\ pick' = hand /\ UNCHANGED <<trial, slots>>
    <2>1. /\ LookupExact' /\ LeasesResident' /\ ReadsOwnBuffers'
          /\ CompleteMeansContent' /\ ClaimedIsDemand' /\ Slot' = Slot
      BY <1>1, <1>4, <1>8, DataKept
    <2>2. pick' \in 0 .. MaxSlots /\ hand' \in 1 .. Len(slots')
      BY <1>1, <1>2, <1>3, <1>8
    <2>3. TypeOK'
      BY <1>0, <1>1, <1>4, <1>8, <2>2 DEF TypeOK
    <2>4. Idle(pick)'
      BY <1>8 DEF Idle
    <2>5. CallInv' /\ ScanInv'
      BY <1>0, <1>1, <1>2, <1>8, <2>1, <2>4 DEF CallInv, ScanInv
    <2>6. QED
      BY <1>4, <2>1, <2>3, <2>5 DEF CacheInv
  <1>9. QED
    BY <1>6, <1>7, <1>8 DEF Scan

(* The victim's record gives way to the new one: its slot is idle, so its  *)
(* key has no lease and its buffer no read, and a new buffer is free.      *)
LEMMA AdmitKeeps ==
    ASSUME CacheInv, Admit
    PROVE  CacheInv'
  <1> DEFINE demanded == op.kind = "acquire"
             k == op.key
  <1>0. /\ TypeOK /\ LookupExact /\ LeasesResident /\ ReadsOwnBuffers /\ CompleteMeansContent
        /\ ClaimedIsDemand /\ QueueInv /\ CallInv
    BY DEF CacheInv
  <1>1. /\ pc = "submit" /\ Return /\ UNCHANGED <<hand, content>>
        /\ held' = IF demanded THEN [held EXCEPT ![k] = held[k] + 1] ELSE held
    BY DEF Admit
  <1>2. /\ pick \in Slot /\ Idle(pick) /\ k \in Key /\ lookup[k] = 0
        /\ op.kind \in {"acquire", "prefetch"} /\ (demanded => MaxLeases > 0)
        /\ pick \in 1 .. MaxSlots /\ pick # 0
    BY <1>0, <1>1, SlotFacts, CacheAssumption DEF CallInv
  <1>3. PICK b \in IF slots[pick] = NoEntry THEN FreeBufs ELSE {slots[pick].buf} :
          /\ Pool!Submit([key |-> k, buf |-> b], IF demanded THEN "Demand" ELSE "Future")
          /\ Place(pick, k, b, demanded)
    BY DEF Admit
  <1> DEFINE r == [key |-> k, buf |-> b]
             e == [key |-> k, buf |-> b, load |-> "loading", pins |-> IF demanded THEN 1 ELSE 0,
                   referenced |-> demanded, prefetched |-> ~demanded]
  <1>4. b \in Buf /\ \A j \in Occupied \ {pick} : slots[j].buf # b
    <2>1. CASE slots[pick] = NoEntry
      BY <1>3, <2>1 DEF FreeBufs
    <2>2. CASE slots[pick] # NoEntry
      <3>1. pick \in Occupied /\ b = slots[pick].buf
        BY <1>2, <1>3, <2>2 DEF Occupied
      <3>2. QED
        BY <1>0, <3>1, SlotFacts DEF ReadsOwnBuffers, Entry
    <2>3. QED
      BY <2>1, <2>2
  <1>5. r \in Read /\ r.key = k /\ r.buf = b
    BY <1>2, <1>4 DEF Read
  <1>6. /\ e \in Entry /\ e # NoEntry /\ e.key = k /\ e.buf = b /\ e.load = "loading"
        /\ e.pins = (IF demanded THEN 1 ELSE 0) /\ (e.prefetched <=> ~demanded)
    <2>1. demanded \in BOOLEAN
      OBVIOUS
    <2> HIDE DEF demanded
    <2>2. QED
      BY <1>2, <1>4, <2>1, BornEntry
  <1>7. TheRead(e) = r /\ Loading(e)
    BY <1>6 DEF TheRead, Loading
  <1>8. /\ slots' = [slots EXCEPT ![pick] = e]
        /\ lookup' = [j \in Key |-> IF j = k THEN pick
                                    ELSE IF slots[pick] # NoEntry /\ j = slots[pick].key THEN 0
                                    ELSE lookup[j]]
    BY <1>3 DEF Place
  <1>9. /\ r \notin Pool!Outstanding /\ Pool!Outstanding' = Pool!Outstanding \cup {r}
        /\ futureQ' = (IF demanded THEN futureQ ELSE futureQ \cup {r})
        /\ Pool!ServiceTypeOK' /\ QueueInv'
    BY <1>0, <1>3, <1>5, SubmitFacts
  <1> HIDE DEF r, e
  <1>10. /\ slots' \in Seq(Entry \cup {NoEntry}) /\ Len(slots') = Len(slots) /\ Slot' = Slot
         /\ slots'[pick] = e /\ \A j \in Slot \ {pick} : slots'[j] = slots[j]
    BY <1>0, <1>2, <1>6, <1>8, PutSlot
  <1>11. Occupied' = Occupied \cup {pick} /\ pick \in Occupied'
    BY <1>2, <1>6, <1>10 DEF Occupied
  <1>12. \A j \in Occupied' : j = pick \/ (j \in Occupied \ {pick} /\ slots'[j] = slots[j])
    BY <1>0, <1>10, <1>11, SlotFacts
  <1>13. \A j \in Occupied \ {pick} : slots[j].key # k
    BY <1>0, <1>2, SlotFacts, CacheAssumption DEF LookupExact
  <1>14. held[k] = 0
    BY <1>0, <1>2 DEF LeasesResident
  <1>15. TypeOK'
    <2>1. lookup' \in [Key -> 0 .. MaxSlots]
      BY <1>0, <1>2, <1>8 DEF TypeOK
    <2>2. held' \in [Key -> 0 .. MaxLeases]
      <3>1. CASE demanded
        BY <1>0, <1>1, <1>2, <1>14, <3>1, CacheAssumption DEF TypeOK
      <3>2. CASE ~demanded
        BY <1>0, <1>1, <3>2 DEF TypeOK
      <3>3. QED
        BY <3>1, <3>2
    <2>3. QED
      BY <1>0, <1>1, <1>9, <1>10, <2>1, <2>2, ReturnFacts DEF TypeOK
  <1>16. LookupExact'
    <2>1. SUFFICES ASSUME NEW j \in Key, NEW i \in 1 .. MaxSlots
                   PROVE  lookup'[j] = i <=> i \in Occupied' /\ slots'[i].key = j
      BY DEF LookupExact
    <2>2. lookup[j] = i <=> i \in Occupied /\ slots[i].key = j
      BY <1>0 DEF LookupExact
    <2>3. CASE j = k
      BY <1>2, <1>6, <1>8, <1>10, <1>11, <1>12, <1>13, <2>3
    <2>4. CASE j # k /\ slots[pick] # NoEntry /\ j = slots[pick].key
      <3>1. lookup'[j] = 0 /\ i # 0
        BY <1>8, <2>4
      <3>2. pick \in Occupied /\ lookup[j] = pick
        BY <1>0, <1>2, <2>4 DEF Occupied, LookupExact
      <3>3. i \in Occupied \ {pick} => slots[i].key # j
        BY <2>2, <3>2
      <3>4. QED
        BY <1>6, <1>10, <1>12, <2>4, <3>1, <3>3
    <2>5. CASE j # k /\ ~(slots[pick] # NoEntry /\ j = slots[pick].key)
      <3>1. lookup'[j] = lookup[j]
        BY <1>8, <2>5
      <3>2. i = pick => lookup[j] # i /\ slots'[i].key # j
        BY <1>6, <1>10, <2>2, <2>5 DEF Occupied
      <3>3. i # pick => (i \in Occupied' <=> i \in Occupied) /\ (i \in Occupied => slots'[i] = slots[i])
        BY <1>0, <1>10, <1>11, SlotFacts
      <3>4. QED
        BY <2>2, <3>1, <3>2, <3>3
    <2>6. QED
      BY <2>3, <2>4, <2>5
  <1>17. LeasesResident'
    <2>1. SUFFICES ASSUME NEW j \in Key
                   PROVE  held'[j] = IF lookup'[j] = 0 THEN 0 ELSE slots'[lookup'[j]].pins
      BY DEF LeasesResident
    <2>2. CASE j = k
      <3>1. lookup'[j] = pick
        BY <1>8, <2>2
      <3>2. held'[j] = e.pins
        <4>1. CASE demanded
          BY <1>0, <1>1, <1>6, <1>14, <2>2, <4>1 DEF TypeOK
        <4>2. CASE ~demanded
          BY <1>1, <1>6, <1>14, <2>2, <4>2
        <4>3. QED
          BY <4>1, <4>2
      <3>3. QED
        BY <1>2, <1>10, <3>1, <3>2
    <2>3. CASE j # k /\ slots[pick] # NoEntry /\ j = slots[pick].key
      <3>1. lookup'[j] = 0 /\ held'[j] = held[j]
        BY <1>0, <1>1, <1>8, <2>3 DEF TypeOK
      <3>2. lookup[j] = pick
        BY <1>0, <1>2, <2>3 DEF Occupied, LookupExact
      <3>3. held[j] = 0
        BY <1>0, <1>2, <2>3, <3>2 DEF LeasesResident, Idle
      <3>4. QED
        BY <3>1, <3>3
    <2>4. CASE j # k /\ ~(slots[pick] # NoEntry /\ j = slots[pick].key)
      <3>1. lookup'[j] = lookup[j] /\ held'[j] = held[j]
        BY <1>0, <1>1, <1>8, <2>4 DEF TypeOK
      <3>2. lookup[j] # 0 => lookup[j] \in Slot \ {pick}
        BY <1>0, <2>4, LookupFinds, SlotFacts
      <3>3. QED
        BY <1>0, <1>10, <3>1, <3>2 DEF LeasesResident
    <2>5. QED
      BY <2>2, <2>3, <2>4
  <1>18. ReadsOwnBuffers'
    <2>1. \A i, j \in Occupied' : slots'[i].buf = slots'[j].buf => i = j
      BY <1>0, <1>4, <1>6, <1>10, <1>12 DEF ReadsOwnBuffers
    <2>2. ASSUME NEW s \in Pool!Outstanding'
          PROVE  \E i \in Occupied' : TheRead(slots'[i]) = s /\ Loading(slots'[i])
      <3>1. CASE s = r
        BY <1>7, <1>10, <1>11, <3>1
      <3>2. CASE s \in Pool!Outstanding
        <4>1. PICK i \in Occupied : TheRead(slots[i]) = s /\ Loading(slots[i])
          BY <1>0, <3>2 DEF ReadsOwnBuffers
        <4>2. i # pick
          BY <1>2, <4>1 DEF Idle, Occupied
        <4>3. i \in Occupied' /\ slots'[i] = slots[i]
          BY <1>11, <1>12, <4>2
        <4>4. QED
          BY <4>1, <4>3
      <3>3. QED
        BY <1>9, <2>2, <3>1, <3>2
    <2>3. \A i \in Occupied' : Loading(slots'[i]) => TheRead(slots'[i]) \in Pool!Outstanding'
      BY <1>0, <1>7, <1>9, <1>10, <1>12 DEF ReadsOwnBuffers
    <2>4. QED
      BY <2>1, <2>2, <2>3 DEF ReadsOwnBuffers
  <1>19. CompleteMeansContent'
    BY <1>0, <1>1, <1>6, <1>10, <1>12 DEF CompleteMeansContent
  <1>20. ClaimedIsDemand'
    <2>1. SUFFICES ASSUME NEW i \in Occupied', ~slots'[i].prefetched
                   PROVE  TheRead(slots'[i]) \notin futureQ'
      BY DEF ClaimedIsDemand
    <2>2. CASE i = pick
      <3>1. demanded
        BY <1>6, <1>10, <2>1, <2>2
      <3>2. futureQ \subseteq Pool!Outstanding
        BY DEF Pool!Outstanding
      <3>3. QED
        BY <1>7, <1>9, <1>10, <2>2, <3>1, <3>2
    <2>3. CASE i # pick
      <3>1. i \in Occupied \ {pick} /\ slots'[i] = slots[i]
        BY <1>12, <2>3
      <3>2. TheRead(slots[i]) \notin futureQ
        BY <1>0, <2>1, <3>1 DEF ClaimedIsDemand
      <3>3. TheRead(slots[i]) # r
        BY <1>4, <1>5, <3>1 DEF TheRead
      <3>4. QED
        BY <1>9, <3>1, <3>2, <3>3
    <2>4. QED
      BY <2>2, <2>3
  <1>21. QED
    BY <1>1, <1>9, <1>15, <1>16, <1>17, <1>18, <1>19, <1>20, ReturnFacts DEF CacheInv

(* Dropping a lease.                                                       *)
LEMMA ReleaseKeeps ==
    ASSUME CacheInv, NEW k \in Key, Release(k)
    PROVE  CacheInv'
  <1> DEFINE i == lookup[k]
             e == slots[i]
             n == [e EXCEPT !.pins = e.pins - 1]
  <1>0. /\ TypeOK /\ LookupExact /\ LeasesResident /\ ReadsOwnBuffers /\ CompleteMeansContent
        /\ ClaimedIsDemand /\ QueueInv
    BY DEF CacheInv
  <1>1. /\ pc = "idle" /\ held[k] > 0 /\ held' = [held EXCEPT ![k] = held[k] - 1]
        /\ slots' = [slots EXCEPT ![i] = n]
        /\ UNCHANGED <<lookup, hand, content>> /\ UNCHANGED callVars /\ UNCHANGED poolVars
    BY DEF Release
  <1>2. held[k] \in 0 .. MaxLeases /\ MaxLeases \in Nat
    BY <1>0, CacheAssumption DEF TypeOK
  <1>3. i # 0 /\ held[k] = e.pins
    BY <1>0, <1>1, <1>2 DEF LeasesResident
  <1>4. i \in Occupied /\ e.key = k /\ e \in Entry /\ i \in Slot /\ e.pins - 1 \in Nat
    BY <1>0, <1>1, <1>2, <1>3, LookupFinds, SlotFacts
  <1>5. /\ n \in Entry /\ n # NoEntry /\ n.key = e.key /\ n.buf = e.buf /\ n.load = e.load
        /\ n.pins = e.pins - 1 /\ n.prefetched = e.prefetched
    BY <1>4, WithPins
  <1> HIDE DEF n
  <1>6. /\ slots' \in Seq(Entry \cup {NoEntry}) /\ Len(slots') = Len(slots) /\ Slot' = Slot
        /\ slots'[i] = n /\ \A j \in Slot \ {i} : slots'[j] = slots[j]
    BY <1>0, <1>1, <1>4, <1>5, PutSlot
  <1>7. /\ Pool!Outstanding' = Pool!Outstanding /\ futureQ' = futureQ
        /\ Pool!ServiceTypeOK' /\ QueueInv'
    BY <1>0, <1>1, PoolUnchanged
  <1>8. SameRecords
    BY <1>4, <1>5, <1>6 DEF SameRecords, Occupied
  <1>9. Occupied' = Occupied /\ LookupExact' /\ ReadsOwnBuffers' /\ CompleteMeansContent'
    BY <1>0, <1>1, <1>7, <1>8, RecordsKept
  <1>10. TypeOK'
    <2>1. held' \in [Key -> 0 .. MaxLeases]
      BY <1>0, <1>1, <1>2 DEF TypeOK
    <2>2. QED
      BY <1>0, <1>1, <1>6, <1>7, <2>1 DEF TypeOK, callVars
  <1>11. LeasesResident'
    <2>1. held'[k] = slots'[lookup'[k]].pins /\ lookup'[k] # 0
      BY <1>0, <1>1, <1>3, <1>5, <1>6 DEF TypeOK
    <2>2. ASSUME NEW j \in Key, j # k PROVE held'[j] = IF lookup'[j] = 0 THEN 0 ELSE slots'[lookup'[j]].pins
      <3>1. held'[j] = held[j] /\ lookup'[j] = lookup[j]
        BY <1>0, <1>1, <2>2 DEF TypeOK
      <3>2. lookup[j] # 0 => lookup[j] \in Slot \ {i}
        BY <1>0, <1>4, <2>2, LookupFinds, SlotFacts
      <3>3. QED
        BY <1>0, <1>6, <3>1, <3>2 DEF LeasesResident
    <2>3. QED
      BY <2>1, <2>2 DEF LeasesResident
  <1>12. ClaimedIsDemand'
    <2>1. \A j \in Occupied : slots'[j].prefetched = slots[j].prefetched /\ TheRead(slots'[j]) = TheRead(slots[j])
      BY <1>0, <1>5, <1>6, SlotFacts DEF TheRead
    <2>2. QED
      BY <1>0, <1>7, <1>9, <2>1 DEF ClaimedIsDemand
  <1>13. CallInv' /\ ScanInv'
    BY <1>1 DEF CallInv, ScanInv, callVars
  <1>14. QED
    BY <1>7, <1>9, <1>10, <1>11, <1>12, <1>13 DEF CacheInv

(* Without outstanding reads nothing is loading, and without pins no       *)
(* expert is leased: every slot may be taken.                              *)
LEMMA QuiescentIdle ==
    ASSUME TypeOK, LookupExact, LeasesResident, ReadsOwnBuffers, Quiescent
    PROVE  /\ \A i \in Occupied : ~Loading(slots[i])
           /\ \A i \in Slot : Idle(i)
           /\ \A k \in Key : held[k] = 0
  <1>1. \A i \in Occupied : ~Loading(slots[i])
    BY DEF Quiescent, ReadsOwnBuffers
  <1>2. \A i \in Slot : Idle(i)
    BY <1>1 DEF Quiescent, Idle, Occupied
  <1>3. \A k \in Key : held[k] = 0
    BY LookupFinds DEF LeasesResident, Quiescent
  <1>4. QED
    BY <1>1, <1>2, <1>3

(* clear empties every slot.                                               *)
LEMMA ClearKeeps ==
    ASSUME CacheInv, Clear
    PROVE  CacheInv'
  <1>0. /\ TypeOK /\ LookupExact /\ LeasesResident /\ ReadsOwnBuffers /\ QueueInv
    BY DEF CacheInv
  <1>1. /\ pc = "idle" /\ Quiescent
        /\ slots' = [i \in Slot |-> NoEntry] /\ lookup' = [k \in Key |-> 0] /\ hand' = 1
        /\ UNCHANGED <<held, content>> /\ UNCHANGED callVars /\ UNCHANGED poolVars
    BY DEF Clear, Boundary, Quiescent
  <1>2. /\ Pool!Outstanding' = Pool!Outstanding /\ futureQ' = futureQ
        /\ Pool!ServiceTypeOK' /\ QueueInv'
    BY <1>0, <1>1, PoolUnchanged
  <1>3. /\ slots' \in Seq(Entry \cup {NoEntry}) /\ Len(slots') = Len(slots) /\ Slot' = Slot
    <2>1. Slot = 1 .. Len(slots) /\ Len(slots) \in Nat
      BY <1>0, SlotFacts
    <2>2. slots' \in [1 .. Len(slots) -> Entry \cup {NoEntry}]
      BY <1>1, <2>1
    <2>3. QED
      BY <2>1, <2>2, NewSlots
  <1>4. Occupied' = {}
    BY <1>1, <1>3 DEF Occupied
  <1>5. TypeOK'
    <2>1. lookup' \in [Key -> 0 .. MaxSlots] /\ hand' \in 1 .. Len(slots')
      BY <1>0, <1>1, <1>3, SlotFacts
    <2>2. QED
      BY <1>0, <1>1, <1>2, <1>3, <2>1 DEF TypeOK, callVars
  <1>6. LookupExact'
    BY <1>1, <1>4, CacheAssumption DEF LookupExact
  <1>7. LeasesResident'
    BY <1>0, <1>1, QuiescentIdle DEF LeasesResident
  <1>8. ReadsOwnBuffers' /\ CompleteMeansContent' /\ ClaimedIsDemand'
    BY <1>1, <1>2, <1>4 DEF ReadsOwnBuffers, CompleteMeansContent, ClaimedIsDemand, Quiescent
  <1>9. CallInv' /\ ScanInv'
    BY <1>1 DEF CallInv, ScanInv, callVars
  <1>10. QED
    BY <1>2, <1>5, <1>6, <1>7, <1>8, <1>9 DEF CacheInv

(* A growing resize appends empty slots.                                   *)
LEMMA GrowKeeps ==
    ASSUME CacheInv, NEW n \in 1 .. MaxSlots, Grow(n)
    PROVE  CacheInv'
  <1>0. /\ TypeOK /\ LookupExact /\ LeasesResident /\ ReadsOwnBuffers /\ CompleteMeansContent
        /\ ClaimedIsDemand /\ QueueInv
    BY DEF CacheInv
  <1>1. /\ pc = "idle" /\ n >= Len(slots) /\ n <= MaxSlots
        /\ slots' = [i \in 1 .. n |-> IF i \in Slot THEN slots[i] ELSE NoEntry]
        /\ UNCHANGED <<lookup, hand, held, content>> /\ UNCHANGED callVars /\ UNCHANGED poolVars
    BY DEF Grow, Boundary
  <1>2. /\ Pool!Outstanding' = Pool!Outstanding /\ futureQ' = futureQ
        /\ Pool!ServiceTypeOK' /\ QueueInv'
    BY <1>0, <1>1, PoolUnchanged
  <1>3. Slot = 1 .. Len(slots) /\ Len(slots) \in Nat /\ n \in Nat /\ MaxSlots \in Nat /\ Len(slots) >= 1
    BY <1>0, SlotFacts
  <1>4. slots' \in Seq(Entry \cup {NoEntry}) /\ Len(slots') = n /\ Slot' = 1 .. n
    <2>1. slots' \in [1 .. n -> Entry \cup {NoEntry}]
      BY <1>0, <1>1, SlotFacts
    <2>2. QED
      BY <1>3, <2>1, NewSlots
  <1>5. Occupied' = Occupied /\ \A i \in Occupied : slots'[i] = slots[i]
    BY <1>1, <1>3, <1>4 DEF Occupied
  <1>6. TypeOK'
    <2>1. hand' \in 1 .. Len(slots') /\ Len(slots') \in 1 .. MaxSlots
      BY <1>0, <1>1, <1>3, <1>4 DEF TypeOK
    <2>2. QED
      BY <1>0, <1>1, <1>2, <1>4, <2>1 DEF TypeOK, callVars
  <1>7. LookupExact' /\ LeasesResident'
    <2>1. lookup' = lookup /\ held' = held /\ \A k \in Key : lookup[k] # 0 => lookup[k] \in Occupied
      BY <1>0, <1>1, LookupFinds
    <2>2. LookupExact'
      BY <1>0, <1>5, <2>1 DEF LookupExact
    <2>3. LeasesResident'
      BY <1>0, <1>5, <2>1 DEF LeasesResident
    <2>4. QED
      BY <2>2, <2>3
  <1>8. ReadsOwnBuffers'
    BY <1>0, <1>2, <1>5 DEF ReadsOwnBuffers
  <1>9. CompleteMeansContent' /\ ClaimedIsDemand'
    <2>1. content' = content
      BY <1>1
    <2>2. QED
      BY <1>0, <1>2, <1>5, <2>1 DEF CompleteMeansContent, ClaimedIsDemand
  <1>10. CallInv' /\ ScanInv'
    BY <1>1 DEF CallInv, ScanInv, callVars
  <1>11. QED
    BY <1>2, <1>6, <1>7, <1>8, <1>9, <1>10 DEF CacheInv

(* A shrinking resize begins at a boundary.                                *)
LEMMA BeginShrinkKeeps ==
    ASSUME CacheInv, NEW n \in 1 .. MaxSlots, BeginShrink(n)
    PROVE  CacheInv'
  <1>0. TypeOK /\ QueueInv
    BY DEF CacheInv
  <1>1. /\ pc' = "shrink" /\ op' = Call("resize", NoKey, n) /\ Quiescent /\ n > 0 /\ n < Len(slots)
        /\ UNCHANGED <<slots, lookup, hand, held, content, trial, pick, idle0>> /\ UNCHANGED poolVars
    BY DEF BeginShrink, Boundary, Quiescent, cacheVars
  <1>2. /\ Pool!Outstanding' = Pool!Outstanding /\ futureQ' = futureQ
        /\ Pool!ServiceTypeOK' /\ QueueInv'
    BY <1>0, <1>1, PoolUnchanged
  <1>3. /\ LookupExact' /\ LeasesResident' /\ ReadsOwnBuffers'
        /\ CompleteMeansContent' /\ ClaimedIsDemand' /\ Slot' = Slot /\ Occupied' = Occupied
    BY <1>1, <1>2, DataKept
  <1>4. op' \in Calls /\ op'.size = n
    BY <1>1, CacheAssumption DEF Call, Calls
  <1>5. TypeOK'
    BY <1>0, <1>1, <1>2, <1>4 DEF TypeOK
  <1>6. Quiescent'
    BY <1>1, <1>2, <1>3 DEF Quiescent
  <1>7. op'.size \in 1 .. Len(slots') - 1
    BY <1>0, <1>1, <1>4, SlotFacts
  <1>8. CallInv' /\ ScanInv'
    BY <1>1, <1>6, <1>7 DEF CallInv, ScanInv
  <1>9. QED
    BY <1>2, <1>3, <1>5, <1>8 DEF CacheInv

(* A turn of the eviction loop: every slot is idle, so any may be emptied. *)
LEMMA ShrinkKeeps ==
    ASSUME CacheInv, ShrinkStep
    PROVE  CacheInv'
  <1>0. /\ TypeOK /\ LookupExact /\ LeasesResident /\ ReadsOwnBuffers /\ CompleteMeansContent
        /\ ClaimedIsDemand /\ QueueInv /\ CallInv
    BY DEF CacheInv
  <1>1. /\ pc = "shrink" /\ hand' = NextHand
        /\ UNCHANGED <<held, content>> /\ UNCHANGED callVars /\ UNCHANGED poolVars
    BY DEF ShrinkStep
  <1>2. /\ hand \in 1 .. Len(slots) /\ hand \in Slot /\ Len(slots) \in Nat
        /\ op.size \in 1 .. Len(slots) - 1 /\ Quiescent
    BY <1>0, <1>1, SlotFacts DEF TypeOK, CallInv
  <1>3. hand' \in 1 .. Len(slots)
    <2>1. hand' = IF hand = Len(slots) THEN 1 ELSE hand + 1
      BY <1>1, <1>2, RoundTheClock DEF NextHand
    <2>2. QED
      BY <1>2, <2>1
  <1>4. /\ Pool!Outstanding' = Pool!Outstanding /\ futureQ' = futureQ
        /\ Pool!ServiceTypeOK' /\ QueueInv'
    BY <1>0, <1>1, PoolUnchanged
  <1>5. ASSUME slots' \in Seq(Entry \cup {NoEntry}), Len(slots') = Len(slots),
               lookup' \in [Key -> 0 .. MaxSlots]
        PROVE  TypeOK'
    BY <1>0, <1>1, <1>3, <1>4, <1>5 DEF TypeOK, callVars
  <1>6. ASSUME Len(slots') = Len(slots), Quiescent'
        PROVE  CallInv' /\ ScanInv'
    BY <1>1, <1>2, <1>6 DEF CallInv, ScanInv, callVars
  <1>7. CASE UNCHANGED <<slots, lookup>>
    <2>1. /\ LookupExact' /\ LeasesResident' /\ ReadsOwnBuffers'
          /\ CompleteMeansContent' /\ ClaimedIsDemand' /\ Occupied' = Occupied
      BY <1>1, <1>4, <1>7, DataKept
    <2>2. TypeOK'
      BY <1>0, <1>5, <1>7 DEF TypeOK
    <2>3. Quiescent'
      BY <1>2, <1>4, <1>7, <2>1 DEF Quiescent
    <2>4. QED
      BY <1>4, <1>6, <1>7, <2>1, <2>2, <2>3 DEF CacheInv
  <1>8. CASE /\ slots[hand] # NoEntry
             /\ slots' = [slots EXCEPT ![hand] = [slots[hand] EXCEPT !.referenced = FALSE]]
             /\ UNCHANGED lookup
    <2> DEFINE e == slots[hand]
               n == [e EXCEPT !.referenced = FALSE]
    <2>1. hand \in Occupied /\ e \in Entry
      BY <1>0, <1>2, <1>8, SlotFacts DEF Occupied
    <2>2. /\ n \in Entry /\ n # NoEntry /\ n.key = e.key /\ n.buf = e.buf
          /\ n.load = e.load /\ n.pins = e.pins /\ n.prefetched = e.prefetched
      BY <2>1, WithReferenced
    <2> HIDE DEF n
    <2>3. /\ slots' \in Seq(Entry \cup {NoEntry}) /\ Len(slots') = Len(slots) /\ Slot' = Slot
          /\ slots'[hand] = n /\ \A j \in Slot \ {hand} : slots'[j] = slots[j]
      BY <1>0, <1>2, <1>8, <2>2, PutSlot DEF n
    <2>4. SameRecords
      BY <1>2, <1>8, <2>2, <2>3 DEF SameRecords, Occupied
    <2>5. Occupied' = Occupied /\ LookupExact' /\ ReadsOwnBuffers' /\ CompleteMeansContent'
      BY <1>0, <1>1, <1>4, <1>8, <2>4, RecordsKept
    <2>6. \A i \in Occupied : /\ slots'[i].pins = slots[i].pins
                               /\ slots'[i].prefetched = slots[i].prefetched
                               /\ TheRead(slots'[i]) = TheRead(slots[i])
      BY <1>0, <2>2, <2>3, SlotFacts DEF TheRead
    <2>7. LeasesResident' /\ ClaimedIsDemand'
      <3>1. \A k \in Key : lookup[k] # 0 => lookup[k] \in Occupied
        BY <1>0, LookupFinds
      <3>2. LeasesResident'
        BY <1>0, <1>1, <1>8, <2>6, <3>1 DEF LeasesResident
      <3>3. ClaimedIsDemand'
        BY <1>0, <1>4, <2>5, <2>6 DEF ClaimedIsDemand
      <3>4. QED
        BY <3>2, <3>3
    <2>8. Quiescent'
      BY <1>2, <1>4, <2>5, <2>6 DEF Quiescent
    <2>9. QED
      BY <1>0, <1>4, <1>5, <1>6, <1>8, <2>3, <2>5, <2>7, <2>8 DEF CacheInv, TypeOK
  <1>9. CASE /\ slots[hand] # NoEntry
             /\ slots' = [slots EXCEPT ![hand] = NoEntry]
             /\ lookup' = [lookup EXCEPT ![slots[hand].key] = 0]
    <2> DEFINE k == slots[hand].key
    <2>1. hand \in Occupied /\ slots[hand] \in Entry /\ k \in Key /\ lookup[k] = hand
      <3>1. hand \in Occupied /\ slots[hand] \in Entry /\ hand \in 1 .. MaxSlots
        BY <1>0, <1>2, <1>9, SlotFacts DEF Occupied
      <3>2. k \in Key
        BY <3>1 DEF Entry
      <3>3. QED
        BY <1>0, <3>1, <3>2 DEF LookupExact
    <2>2. /\ slots' \in Seq(Entry \cup {NoEntry}) /\ Len(slots') = Len(slots) /\ Slot' = Slot
          /\ slots'[hand] = NoEntry /\ \A j \in Slot \ {hand} : slots'[j] = slots[j]
      BY <1>0, <1>2, <1>9, PutSlot
    <2>3. Occupied' = Occupied \ {hand} /\ \A i \in Occupied' : slots'[i] = slots[i]
      BY <1>2, <2>2 DEF Occupied
    <2>4. /\ lookup' \in [Key -> 0 .. MaxSlots] /\ lookup'[k] = 0
          /\ \A j \in Key \ {k} : lookup'[j] = lookup[j]
      BY <1>0, <1>9, <2>1, CacheAssumption DEF TypeOK
    <2>5. LookupExact'
      <3>1. SUFFICES ASSUME NEW j \in Key, NEW i \in 1 .. MaxSlots
                     PROVE  lookup'[j] = i <=> i \in Occupied' /\ slots'[i].key = j
        BY DEF LookupExact
      <3>2. lookup[j] = i <=> i \in Occupied /\ slots[i].key = j
        BY <1>0 DEF LookupExact
      <3>3. CASE j = k
        BY <2>1, <2>3, <2>4, <3>2, <3>3
      <3>4. CASE j # k
        BY <2>1, <2>3, <2>4, <3>2, <3>4
      <3>5. QED
        BY <3>3, <3>4
    <2>6. LeasesResident'
      <3>1. \A j \in Key : held'[j] = 0
        BY <1>0, <1>1, <1>2, QuiescentIdle
      <3>2. ASSUME NEW j \in Key, lookup'[j] # 0 PROVE slots'[lookup'[j]].pins = 0
        <4>1. lookup'[j] = lookup[j] /\ j # k
          BY <2>4, <3>2
        <4>2. lookup[j] \in Occupied'
          BY <1>0, <2>1, <2>3, <3>2, <4>1, LookupFinds
        <4>3. QED
          BY <1>2, <2>3, <4>1, <4>2 DEF Quiescent
      <3>3. QED
        BY <3>1, <3>2 DEF LeasesResident
    <2>7. Quiescent'
      BY <1>2, <1>4, <2>3 DEF Quiescent
    <2>8. ReadsOwnBuffers'
      BY <1>0, <1>2, <1>4, <2>3, QuiescentIdle DEF ReadsOwnBuffers, Quiescent
    <2>9. CompleteMeansContent' /\ ClaimedIsDemand'
      BY <1>0, <1>1, <1>4, <2>3 DEF CompleteMeansContent, ClaimedIsDemand
    <2>10. QED
      BY <1>4, <1>5, <1>6, <2>2, <2>4, <2>5, <2>6, <2>7, <2>8, <2>9 DEF CacheInv
  <1>10. QED
    BY <1>7, <1>8, <1>9 DEF ShrinkStep

(* The survivors keep their records, each in one slot, and lookup_ is      *)
(* rebuilt for exactly them.                                               *)
LEMMA CompactKeeps ==
    ASSUME CacheInv, Compact
    PROVE  CacheInv'
  <1> DEFINE N == Cardinality(Occupied)
  <1>0. /\ TypeOK /\ LookupExact /\ LeasesResident /\ ReadsOwnBuffers /\ CompleteMeansContent
        /\ ClaimedIsDemand /\ QueueInv /\ CallInv
    BY DEF CacheInv
  <1>1. /\ pc = "shrink" /\ N <= op.size /\ hand' = 1 /\ Return
        /\ UNCHANGED <<held, content>> /\ UNCHANGED poolVars
    BY DEF Compact
  <1>2. PICK from \in [1 .. N -> Occupied] :
          /\ \A i, j \in DOMAIN from : i < j => from[i] < from[j]
          /\ slots' = [i \in 1 .. op.size |-> IF i \in DOMAIN from THEN slots[from[i]] ELSE NoEntry]
          /\ lookup' = [k \in Key |-> IF \E i \in DOMAIN from : slots[from[i]].key = k
                                      THEN CHOOSE i \in DOMAIN from : slots[from[i]].key = k ELSE 0]
    BY DEF Compact
  <1>3. N \in Nat
    <2>1. Occupied \subseteq 1 .. Len(slots) /\ IsFiniteSet(1 .. Len(slots))
      BY <1>0, SlotFacts, FS_Interval
    <2>2. QED
      BY <2>1, FS_Subset, FS_CardinalityType
  <1>4. /\ op.size \in Nat /\ op.size >= 1 /\ op.size <= MaxSlots /\ MaxSlots \in Nat /\ Quiescent
    BY <1>0, <1>1, SlotFacts DEF CallInv
  <1> HIDE DEF N
  <1>5. DOMAIN from = 1 .. N /\ \A i \in 1 .. N : from[i] \in Occupied /\ i \in 1 .. op.size
    BY <1>1, <1>2, <1>3, <1>4
  <1>6. \A i, j \in 1 .. N : from[i] = from[j] => i = j
    <2>1. SUFFICES ASSUME NEW i \in 1 .. N, NEW j \in 1 .. N, from[i] = from[j], i # j
                   PROVE  FALSE
      OBVIOUS
    <2>2. i < j \/ j < i
      BY <1>3, <2>1
    <2>3. from[i] < from[j] \/ from[j] < from[i]
      BY <1>2, <1>5, <2>2
    <2>4. from[i] \in Nat /\ from[j] \in Nat
      BY <1>0, <1>5, SlotFacts
    <2>5. QED
      BY <2>1, <2>3, <2>4
  <1>7. /\ slots' \in Seq(Entry \cup {NoEntry}) /\ Len(slots') = op.size /\ Slot' = 1 .. op.size
    <2>1. slots' \in [1 .. op.size -> Entry \cup {NoEntry}]
      BY <1>0, <1>2, <1>5, SlotFacts
    <2>2. QED
      BY <1>4, <2>1, NewSlots
  <1>8. Occupied' = 1 .. N /\ \A i \in 1 .. N : slots'[i] = slots[from[i]]
    BY <1>0, <1>2, <1>3, <1>5, <1>7, SlotFacts DEF Occupied
  <1>9. ASSUME NEW k \in Key
        PROVE  \/ /\ lookup'[k] \in 1 .. N /\ slots[from[lookup'[k]]].key = k
               \/ /\ lookup'[k] = 0 /\ \A i \in 1 .. N : slots[from[i]].key # k
    <2>1. CASE \E i \in 1 .. N : slots[from[i]].key = k
      <3>1. lookup'[k] = CHOOSE i \in 1 .. N : slots[from[i]].key = k
        BY <1>2, <1>5, <2>1
      <3>2. QED
        BY <2>1, <3>1
    <2>2. CASE ~\E i \in 1 .. N : slots[from[i]].key = k
      BY <1>2, <1>5, <2>2
    <2>3. QED
      BY <2>1, <2>2
  <1>10. /\ Pool!Outstanding' = Pool!Outstanding /\ futureQ' = futureQ
         /\ Pool!ServiceTypeOK' /\ QueueInv'
    BY <1>0, <1>1, PoolUnchanged
  <1>11. TypeOK'
    <2>1. ASSUME NEW k \in Key PROVE lookup'[k] \in 0 .. MaxSlots
      BY <1>1, <1>3, <1>4, <1>9
    <2>2. lookup' \in [Key -> 0 .. MaxSlots]
      BY <1>2, <2>1
    <2>3. hand' \in 1 .. Len(slots') /\ Len(slots') \in 1 .. MaxSlots
      BY <1>1, <1>4, <1>7
    <2>4. QED
      BY <1>0, <1>1, <1>7, <1>10, <2>2, <2>3, ReturnFacts DEF TypeOK
  <1>12. LookupExact'
    <2>1. SUFFICES ASSUME NEW k \in Key, NEW i \in 1 .. MaxSlots
                   PROVE  lookup'[k] = i <=> i \in Occupied' /\ slots'[i].key = k
      BY DEF LookupExact
    <2>2. CASE lookup'[k] = 0
      BY <1>4, <1>8, <1>9, <2>2
    <2>3. CASE lookup'[k] # 0
      <3>1. lookup'[k] \in 1 .. N /\ slots[from[lookup'[k]]].key = k
        BY <1>9, <2>3
      <3>2. ASSUME NEW j \in 1 .. N, slots[from[j]].key = k PROVE j = lookup'[k]
        <4>1. from[j] \in Occupied /\ from[lookup'[k]] \in Occupied
          BY <1>5, <3>1
        <4>2. from[j] = lookup[k] /\ from[lookup'[k]] = lookup[k]
          BY <1>0, <3>1, <3>2, <4>1, SlotFacts DEF LookupExact
        <4>3. QED
          BY <1>6, <3>1, <4>2
      <3>3. QED
        BY <1>8, <3>1, <3>2
    <2>4. QED
      BY <2>2, <2>3
  <1>13. LeasesResident'
    <2>1. \A k \in Key : held'[k] = 0
      BY <1>0, <1>1, <1>4, QuiescentIdle
    <2>2. \A k \in Key : lookup'[k] # 0 => slots'[lookup'[k]].pins = 0
      BY <1>4, <1>5, <1>8, <1>9 DEF Quiescent
    <2>3. QED
      BY <2>1, <2>2 DEF LeasesResident
  <1>14. ReadsOwnBuffers'
    <2>1. \A i, j \in 1 .. N : slots[from[i]].buf = slots[from[j]].buf => i = j
      BY <1>0, <1>5, <1>6 DEF ReadsOwnBuffers
    <2>2. \A i \in 1 .. N : ~Loading(slots'[i])
      BY <1>0, <1>4, <1>5, <1>8, QuiescentIdle
    <2>3. QED
      BY <1>4, <1>8, <1>10, <2>1, <2>2 DEF ReadsOwnBuffers, Quiescent
  <1>15. CompleteMeansContent' /\ ClaimedIsDemand'
    BY <1>0, <1>1, <1>5, <1>8, <1>10 DEF CompleteMeansContent, ClaimedIsDemand
  <1>16. QED
    BY <1>1, <1>10, <1>11, <1>12, <1>13, <1>14, <1>15, ReturnFacts DEF CacheInv

(* A read that starts spoils only the buffer of the slot waiting for it.   *)
LEMMA StartKeeps ==
    ASSUME CacheInv, NEW r \in Read, ReadStarts(r)
    PROVE  CacheInv'
  <1>0. /\ TypeOK /\ LookupExact /\ LeasesResident /\ ReadsOwnBuffers /\ CompleteMeansContent
        /\ ClaimedIsDemand /\ QueueInv /\ CallInv /\ ScanInv
    BY DEF CacheInv
  <1>1. /\ Pool!Start(r) /\ content' = [content EXCEPT ![r.buf] = NoKey]
        /\ UNCHANGED <<slots, lookup, hand, held, pc, op, trial, pick, idle0>>
    BY DEF ReadStarts, cacheVars, callVars
  <1>2. /\ r \in Pool!Outstanding /\ Pool!Outstanding' = Pool!Outstanding
        /\ futureQ' \subseteq futureQ /\ Pool!ServiceTypeOK' /\ QueueInv'
    BY <1>0, <1>1, StartFacts
  <1>3. Slot' = Slot /\ Occupied' = Occupied
    BY <1>1 DEF Slot, Occupied
  <1>4. TypeOK'
    <2>1. content' \in [Buf -> Key \cup {NoKey}]
      BY <1>0, <1>1 DEF TypeOK
    <2>2. QED
      BY <1>0, <1>1, <1>2, <2>1 DEF TypeOK
  <1>5. LookupExact' /\ LeasesResident'
    BY <1>0, <1>1, <1>3 DEF LookupExact, LeasesResident
  <1>6. ReadsOwnBuffers' /\ ClaimedIsDemand'
    BY <1>0, <1>1, <1>2, <1>3 DEF ReadsOwnBuffers, ClaimedIsDemand
  <1>7. CompleteMeansContent'
    <2>1. SUFFICES ASSUME NEW i \in Occupied, slots[i].load = "ok"
                   PROVE  content'[slots[i].buf] = slots[i].key
      BY <1>1, <1>3 DEF CompleteMeansContent
    <2>2. slots[i].buf # r.buf
      BY <1>0, <1>2, <2>1, ReadersSlot DEF Loading
    <2>3. slots[i].buf \in Buf
      BY <1>0, <2>1, SlotFacts DEF Entry
    <2>4. QED
      BY <1>0, <1>1, <2>1, <2>2, <2>3 DEF CompleteMeansContent, TypeOK
  <1>8. CallInv'
    BY <1>0, <1>1, <1>2, <1>3 DEF CallInv, Quiescent, Idle
  <1>9. ScanInv'
    BY <1>0, <1>1, <1>3 DEF ScanInv, Idle, Ahead, Trials
  <1>10. QED
    BY <1>2, <1>4, <1>5, <1>6, <1>7, <1>8, <1>9 DEF CacheInv

(* What the end of a read does to the slots: the one that waits for it     *)
(* completes, the others, every idle one among them, stay as they are.     *)
LEMMA CompletedSlots ==
    ASSUME CacheInv, NEW r \in Read, NEW load \in {"ok", "failed"}, ReadEnds(r, load)
    PROVE  /\ slots' \in Seq(Entry \cup {NoEntry}) /\ Len(slots') = Len(slots)
           /\ Slot' = Slot /\ Occupied' = Occupied
           /\ \A i \in Occupied :
                 /\ slots'[i].key = slots[i].key /\ slots'[i].buf = slots[i].buf
                 /\ slots'[i].pins = slots[i].pins /\ slots'[i].prefetched = slots[i].prefetched
                 /\ TheRead(slots'[i]) = TheRead(slots[i])
                 /\ TheRead(slots[i]) = r => Loading(slots[i]) /\ slots'[i].load = load
                 /\ TheRead(slots[i]) # r => slots'[i] = slots[i]
           /\ \A i \in Slot : Idle(i) => slots'[i] = slots[i]
  <1>0. TypeOK /\ ReadsOwnBuffers /\ QueueInv
    BY DEF CacheInv
  <1>1. slots' = Completed(r, load) /\ r \in Pool!Outstanding /\ load \in Load
    BY <1>0, FinishFacts DEF ReadEnds, Load
  <1>2. /\ Slot = 1 .. Len(slots) /\ Len(slots) \in Nat
        /\ \A i \in Slot : slots[i] \in Entry \cup {NoEntry}
        /\ \A i \in Occupied : i \in Slot /\ slots[i] \in Entry /\ slots[i] # NoEntry
    BY <1>0, SlotFacts
  <1>3. DOMAIN slots' = Slot
    BY <1>1 DEF Completed
  <1>4. ASSUME NEW i \in Slot, slots[i] = NoEntry \/ TheRead(slots[i]) # r
        PROVE  slots'[i] = slots[i]
    BY <1>1, <1>4 DEF Completed
  <1>5. ASSUME NEW i \in Occupied, TheRead(slots[i]) = r
        PROVE  /\ slots'[i] = [slots[i] EXCEPT !.load = load] /\ Loading(slots[i])
               /\ slots'[i] \in Entry /\ slots'[i] # NoEntry /\ slots'[i].load = load
               /\ slots'[i].key = slots[i].key /\ slots'[i].buf = slots[i].buf
               /\ slots'[i].pins = slots[i].pins /\ slots'[i].prefetched = slots[i].prefetched
    <2>1. slots'[i] = [slots[i] EXCEPT !.load = load] /\ slots[i] \in Entry
      BY <1>1, <1>2, <1>5 DEF Completed
    <2>2. slots[i].buf = r.buf
      BY <1>5 DEF TheRead
    <2>3. Loading(slots[i])
      BY <1>0, <1>1, <2>2, ReadersSlot
    <2>4. QED
      BY <1>1, <2>1, <2>3, WithLoad
  <1>6. \A i \in Slot : i \in Occupied \/ slots[i] = NoEntry
    BY DEF Occupied
  <1>7. \A i \in Slot : slots'[i] \in Entry \cup {NoEntry} /\ (slots'[i] = NoEntry <=> slots[i] = NoEntry)
    BY <1>2, <1>4, <1>5, <1>6
  <1>8. slots' \in Seq(Entry \cup {NoEntry}) /\ Len(slots') = Len(slots) /\ Slot' = Slot
    <2>1. slots' \in [1 .. Len(slots) -> Entry \cup {NoEntry}]
      BY <1>1, <1>2, <1>7 DEF Completed
    <2>2. QED
      BY <1>2, <2>1, NewSlots
  <1>9. Occupied' = Occupied
    BY <1>7, <1>8 DEF Occupied
  <1>10. \A i \in Slot : Idle(i) => slots'[i] = slots[i]
    BY <1>4, <1>5, <1>6 DEF Idle
  <1>11. ASSUME NEW i \in Occupied
         PROVE  /\ slots'[i].key = slots[i].key /\ slots'[i].buf = slots[i].buf
                /\ slots'[i].pins = slots[i].pins /\ slots'[i].prefetched = slots[i].prefetched
                /\ TheRead(slots'[i]) = TheRead(slots[i])
                /\ TheRead(slots[i]) = r => Loading(slots[i]) /\ slots'[i].load = load
                /\ TheRead(slots[i]) # r => slots'[i] = slots[i]
    <2>1. CASE TheRead(slots[i]) = r
      BY <1>5, <2>1 DEF TheRead
    <2>2. CASE TheRead(slots[i]) # r
      BY <1>2, <1>4, <2>2
    <2>3. QED
      BY <2>1, <2>2
  <1>12. QED
    BY <1>8, <1>9, <1>10, <1>11

(* The end of a read, successful or not.                                   *)
LEMMA EndKeeps ==
    ASSUME CacheInv, NEW r \in Read, NEW load \in {"ok", "failed"}, ReadEnds(r, load)
    PROVE  CacheInv'
  <1>0. /\ TypeOK /\ LookupExact /\ LeasesResident /\ ReadsOwnBuffers /\ CompleteMeansContent
        /\ ClaimedIsDemand /\ QueueInv /\ CallInv /\ ScanInv
    BY DEF CacheInv
  <1>1. /\ Pool!Finish(r)
        /\ content' = IF load = "ok" THEN [content EXCEPT ![r.buf] = r.key] ELSE content
        /\ UNCHANGED <<lookup, hand, held, pc, op, trial, pick, idle0>>
    BY DEF ReadEnds, callVars
  <1>2. /\ r \in Pool!Outstanding /\ Pool!Outstanding' = Pool!Outstanding \ {r}
        /\ futureQ' = futureQ /\ Pool!ServiceTypeOK' /\ QueueInv'
    BY <1>0, <1>1, FinishFacts
  <1>3. /\ slots' \in Seq(Entry \cup {NoEntry}) /\ Len(slots') = Len(slots)
        /\ Slot' = Slot /\ Occupied' = Occupied
        /\ \A i \in Occupied :
              /\ slots'[i].key = slots[i].key /\ slots'[i].buf = slots[i].buf
              /\ slots'[i].pins = slots[i].pins /\ slots'[i].prefetched = slots[i].prefetched
              /\ TheRead(slots'[i]) = TheRead(slots[i])
              /\ TheRead(slots[i]) = r => Loading(slots[i]) /\ slots'[i].load = load
              /\ TheRead(slots[i]) # r => slots'[i] = slots[i]
        /\ \A i \in Slot : Idle(i) => slots'[i] = slots[i]
    BY CompletedSlots
  <1>4. TypeOK'
    <2>1. content' \in [Buf -> Key \cup {NoKey}]
      BY <1>0, <1>1 DEF TypeOK, Read
    <2>2. QED
      BY <1>0, <1>1, <1>2, <1>3, <2>1 DEF TypeOK
  <1>5. LookupExact'
    BY <1>0, <1>1, <1>3 DEF LookupExact
  <1>6. LeasesResident'
    <2>1. \A k \in Key : lookup[k] # 0 => lookup[k] \in Occupied
      BY <1>0, LookupFinds
    <2>2. QED
      BY <1>0, <1>1, <1>3, <2>1 DEF LeasesResident
  <1>7. ReadsOwnBuffers'
    <2>1. \A i, j \in Occupied' : slots'[i].buf = slots'[j].buf => i = j
      BY <1>0, <1>3 DEF ReadsOwnBuffers
    <2>2. ASSUME NEW q \in Pool!Outstanding'
          PROVE  \E i \in Occupied' : TheRead(slots'[i]) = q /\ Loading(slots'[i])
      <3>1. PICK i \in Occupied : TheRead(slots[i]) = q /\ Loading(slots[i])
        BY <1>0, <1>2, <2>2 DEF ReadsOwnBuffers
      <3>2. slots'[i] = slots[i]
        BY <1>2, <1>3, <2>2, <3>1
      <3>3. QED
        BY <1>3, <3>1, <3>2
    <2>3. ASSUME NEW i \in Occupied', Loading(slots'[i])
          PROVE  TheRead(slots'[i]) \in Pool!Outstanding'
      <3>1. TheRead(slots[i]) # r /\ slots'[i] = slots[i]
        BY <1>3, <2>3 DEF Loading
      <3>2. QED
        BY <1>0, <1>2, <1>3, <2>3, <3>1 DEF ReadsOwnBuffers
    <2>4. QED
      BY <2>1, <2>2, <2>3 DEF ReadsOwnBuffers
  <1>8. CompleteMeansContent'
    <2>1. SUFFICES ASSUME NEW i \in Occupied, slots'[i].load = "ok"
                   PROVE  content'[slots[i].buf] = slots[i].key
      BY <1>3 DEF CompleteMeansContent
    <2>2. slots[i].buf \in Buf
      BY <1>0, <2>1, SlotFacts DEF Entry
    <2>3. CASE TheRead(slots[i]) = r
      <3>1. load = "ok" /\ r.buf = slots[i].buf /\ r.key = slots[i].key
        BY <1>3, <2>1, <2>3 DEF TheRead
      <3>2. QED
        BY <1>0, <1>1, <2>2, <3>1 DEF TypeOK
    <2>4. CASE TheRead(slots[i]) # r
      <3>1. slots'[i] = slots[i]
        BY <1>3, <2>4
      <3>2. slots[i].buf # r.buf
        BY <1>0, <1>2, <2>1, <2>4, ReadersSlot
      <3>3. content[slots[i].buf] = slots[i].key
        BY <1>0, <2>1, <3>1 DEF CompleteMeansContent
      <3>4. QED
        BY <1>0, <1>1, <2>2, <3>2, <3>3 DEF TypeOK
    <2>5. QED
      BY <2>3, <2>4
  <1>9. ClaimedIsDemand'
    BY <1>0, <1>2, <1>3 DEF ClaimedIsDemand
  <1>10. \A i \in Slot : Idle(i) => Idle(i)'
    BY <1>3 DEF Idle
  <1>11. CallInv'
    <2>1. pc # "shrink"
      BY <1>0, <1>2 DEF CallInv, Quiescent
    <2>2. QED
      BY <1>0, <1>1, <1>3, <1>10, <2>1 DEF CallInv
  <1>12. ScanInv'
    <2>1. SUFFICES ASSUME pc = "scan", NEW i \in idle0
                   PROVE  (/\ i \in Slot /\ Idle(i) /\ trial + Ahead(i) < Trials
                           /\ slots[i] # NoEntry /\ slots[i].referenced
                                  => trial + Ahead(i) + Len(slots) < Trials)'
      BY <1>1 DEF ScanInv
    <2>2. /\ i \in Slot /\ Idle(i) /\ trial + Ahead(i) < Trials
          /\ slots[i] # NoEntry /\ slots[i].referenced => trial + Ahead(i) + Len(slots) < Trials
      BY <1>0, <2>1 DEF ScanInv
    <2>3. Ahead(i)' = Ahead(i) /\ Trials' = Trials /\ slots'[i] = slots[i] /\ Idle(i)'
      BY <1>1, <1>3, <1>10, <2>2 DEF Ahead, Trials
    <2>4. QED
      BY <1>1, <1>3, <2>2, <2>3
  <1>13. QED
    BY <1>2, <1>4, <1>5, <1>6, <1>7, <1>8, <1>9, <1>11, <1>12 DEF CacheInv

(* A stuttering step.                                                      *)
LEMMA StutterKeeps ==
    ASSUME CacheInv, UNCHANGED vars
    PROVE  CacheInv'
  <1>0. TypeOK /\ QueueInv /\ CallInv /\ ScanInv
    BY DEF CacheInv
  <1>1. /\ UNCHANGED <<slots, lookup, hand, held, content, pc, op, trial, pick, idle0>>
        /\ UNCHANGED poolVars
    BY DEF vars, poolVars
  <1>2. /\ Pool!Outstanding' = Pool!Outstanding /\ futureQ' = futureQ
        /\ Pool!ServiceTypeOK' /\ QueueInv'
    BY <1>0, <1>1, PoolUnchanged
  <1>3. /\ LookupExact' /\ LeasesResident' /\ ReadsOwnBuffers'
        /\ CompleteMeansContent' /\ ClaimedIsDemand' /\ Slot' = Slot /\ Occupied' = Occupied
    BY <1>1, <1>2, DataKept
  <1>4. TypeOK'
    BY <1>0, <1>1, <1>2 DEF TypeOK
  <1>5. CallInv' /\ ScanInv'
    BY <1>0, <1>1, <1>2, <1>3 DEF CallInv, ScanInv, Quiescent, Idle, Ahead, Trials
  <1>6. QED
    BY <1>2, <1>3, <1>4, <1>5 DEF CacheInv

(* Every step of the coordinator and of the reads keeps the invariant.     *)
LEMMA CacheStep ==
    ASSUME CacheInv, [Next]_vars
    PROVE  CacheInv'
  <1>1. CASE Coordinator
    BY <1>1, HitKeeps, ReleaseKeeps, BeginScanKeeps, ClearKeeps, GrowKeeps, BeginShrinkKeeps
    DEF Coordinator
  <1>2. CASE Continue
    BY <1>2, ScanKeeps, CallKeeps, AwaitKeeps, ArrivedKeeps, AdmitKeeps, ShrinkKeeps, CompactKeeps
    DEF Continue
  <1>3. CASE Reads
    BY <1>3, StartKeeps, EndKeeps DEF Reads
  <1>4. QED
    BY <1>1, <1>2, <1>3, StutterKeeps DEF Next

(* No step of any kind takes a busy slot away from its record.             *)
BusyKept ==
    \A i \in Slot : ~Idle(i) /\ i \in Slot' /\ slots'[i] # slots[i] =>
        slots'[i] # NoEntry /\ TheRead(slots'[i]) = TheRead(slots[i])

(* Every action keeps the records of busy slots.                           *)
LEMMA BusyStep ==
    ASSUME CacheInv, Next
    PROVE  BusyKept
  <1>0. /\ TypeOK /\ LookupExact /\ LeasesResident /\ ReadsOwnBuffers /\ QueueInv /\ CallInv
    BY DEF CacheInv
  <1>1. ASSUME NEW i \in Slot, NEW e \in Entry, slots' = [slots EXCEPT ![i] = e],
               e.key = slots[i].key, e.buf = slots[i].buf
        PROVE  BusyKept
    <2>1. e # NoEntry /\ TheRead(e) = TheRead(slots[i])
      BY <1>1, NoEntryAssumption DEF TheRead
    <2>2. QED
      BY <1>0, <1>1, <2>1, PutSlot DEF BusyKept
  <1>2. ASSUME UNCHANGED slots PROVE BusyKept
    BY <1>2 DEF BusyKept
  <1>3. ASSUME Quiescent PROVE BusyKept
    BY <1>0, <1>3, QuiescentIdle DEF BusyKept
  <1>4. ASSUME NEW k \in Key, AcquireHit(k) PROVE BusyKept
    <2> DEFINE e == slots[lookup[k]]
               a == [e EXCEPT !.referenced = TRUE]
               b == [a EXCEPT !.prefetched = FALSE]
               n == [b EXCEPT !.pins = e.pins + 1]
    <2>1. lookup[k] # 0 /\ slots' = [slots EXCEPT ![lookup[k]] = n]
      BY <1>4 DEF AcquireHit
    <2>2. lookup[k] \in Slot /\ e \in Entry
      BY <1>0, <2>1, LookupFinds, SlotFacts
    <2>3. a \in Entry /\ a.key = e.key /\ a.buf = e.buf
      BY <2>2, WithReferenced
    <2>4. e.pins + 1 \in Nat
      BY <2>2 DEF Entry
    <2> HIDE DEF a
    <2>5. b \in Entry /\ b.key = a.key /\ b.buf = a.buf
      BY <2>3, WithPrefetched
    <2> HIDE DEF b
    <2>6. n \in Entry /\ n.key = b.key /\ n.buf = b.buf
      BY <2>4, <2>5, WithPins
    <2> HIDE DEF n
    <2>7. QED
      BY <1>1, <2>1, <2>2, <2>3, <2>5, <2>6
  <1>5. ASSUME NEW k \in Key, Release(k) PROVE BusyKept
    <2> DEFINE e == slots[lookup[k]]
               n == [e EXCEPT !.pins = e.pins - 1]
    <2>1. held[k] > 0 /\ slots' = [slots EXCEPT ![lookup[k]] = n] /\ held[k] \in Nat
      BY <1>0, <1>5, CacheAssumption DEF Release, TypeOK
    <2>2. lookup[k] # 0 /\ held[k] = e.pins
      BY <1>0, <2>1 DEF LeasesResident
    <2>3. lookup[k] \in Slot /\ e \in Entry /\ e.pins - 1 \in Nat
      BY <1>0, <2>1, <2>2, LookupFinds, SlotFacts
    <2>4. n \in Entry /\ n.key = e.key /\ n.buf = e.buf
      BY <2>3, WithPins
    <2> HIDE DEF n
    <2>5. QED
      BY <1>1, <2>1, <2>3, <2>4
  <1>6. ASSUME Scan PROVE BusyKept
    <2>1. CASE UNCHANGED slots
      BY <1>2, <2>1
    <2>2. CASE /\ slots[hand] # NoEntry
               /\ slots' = [slots EXCEPT ![hand] = [slots[hand] EXCEPT !.referenced = FALSE]]
      <3> DEFINE n == [slots[hand] EXCEPT !.referenced = FALSE]
      <3>1. hand \in Slot /\ slots[hand] \in Entry
        BY <1>0, <2>2, SlotFacts DEF TypeOK
      <3>2. n \in Entry /\ n.key = slots[hand].key /\ n.buf = slots[hand].buf
        BY <3>1, WithReferenced
      <3> HIDE DEF n
      <3>3. QED
        BY <1>1, <2>2, <3>1, <3>2 DEF n
    <2>3. QED
      BY <1>6, <2>1, <2>2 DEF Scan
  <1>7. ASSUME Admit PROVE BusyKept
    <2>1. pick \in Slot /\ Idle(pick)
      BY <1>0, <1>7 DEF Admit, CallInv
    <2>2. \A j \in Slot \ {pick} : slots'[j] = slots[j]
      BY <1>7 DEF Admit, Place, Slot
    <2>3. QED
      BY <2>1, <2>2 DEF BusyKept
  <1>8. ASSUME NEW n \in 1 .. MaxSlots, Grow(n) PROVE BusyKept
    BY <1>8 DEF Grow, BusyKept, Slot
  <1>9. ASSUME NEW r \in Read, NEW load \in {"ok", "failed"}, ReadEnds(r, load) PROVE BusyKept
    <2>1. /\ Occupied' = Occupied
          /\ \A i \in Occupied : TheRead(slots'[i]) = TheRead(slots[i])
          /\ \A i \in Slot : Idle(i) => slots'[i] = slots[i]
      BY <1>9, CompletedSlots
    <2>2. QED
      BY <2>1 DEF BusyKept, Idle, Occupied
  <1>10. ASSUME Clear \/ ShrinkStep \/ Compact PROVE BusyKept
    <2>1. Quiescent
      BY <1>0, <1>10 DEF Clear, Boundary, ShrinkStep, Compact, CallInv, Quiescent
    <2>2. QED
      BY <1>3, <2>1
  <1>11. CASE Coordinator
    <2>1. ASSUME NEW k \in Key, NEW kind, BeginScan(kind, k) PROVE UNCHANGED slots
      BY <2>1 DEF BeginScan, cacheVars
    <2>2. ASSUME NEW n, BeginShrink(n) PROVE UNCHANGED slots
      BY <2>2 DEF BeginShrink, cacheVars
    <2>3. QED
      BY <1>2, <1>4, <1>5, <1>8, <1>10, <1>11, <2>1, <2>2 DEF Coordinator
  <1>12. CASE Continue
    <2>1. ASSUME ScanFails \/ AwaitGuess \/ GuessArrived \/ Exhausted \/ AllocatorThrows
          PROVE  UNCHANGED slots
      BY <2>1 DEF ScanFails, AwaitGuess, GuessArrived, Exhausted, AllocatorThrows, cacheVars
    <2>2. QED
      BY <1>2, <1>6, <1>7, <1>10, <1>12, <2>1 DEF Continue
  <1>13. CASE Reads
    <2>1. ASSUME NEW r \in Read, ReadStarts(r) PROVE UNCHANGED slots
      BY <2>1 DEF ReadStarts, cacheVars
    <2>2. QED
      BY <1>2, <1>9, <1>13, <2>1 DEF Reads
  <1>14. QED
    BY <1>11, <1>12, <1>13 DEF Next

(* clock_victim gives up only when it had nothing to find: the measure of  *)
(* ScanInv has run out for every slot that was free.                       *)
LEMMA ScanComplete ==
    ASSUME TypeOK, ScanInv
    PROVE  ScanFindsIdle
  <1> SUFFICES ASSUME pc = "scan", trial = Trials, NEW i \in idle0 PROVE FALSE
    BY DEF ScanFindsIdle
  <1>1. i \in Slot /\ trial + Ahead(i) < Trials
    BY DEF ScanInv
  <1>2. /\ hand \in 1 .. Len(slots) /\ Len(slots) \in Nat /\ i \in 1 .. Len(slots) /\ trial \in Nat
    BY <1>1, SlotFacts DEF TypeOK
  <1>3. Ahead(i) \in Nat
    BY <1>2 DEF Ahead
  <1>4. QED
    BY <1>1, <1>2, <1>3

(* The inductive invariant holds in every reachable state.                 *)
THEOREM CacheCorrect == Spec => []CacheInv
  <1>1. Init => CacheInv
    BY CacheInit
  <1>2. CacheInv /\ [Next]_vars => CacheInv'
    BY CacheStep
  <1>3. QED
    BY <1>1, <1>2, PTL DEF Spec

(* For any experts, buffers and capacities the cache tells the truth about *)
(* its slots, leases, reads and buffers, and finds a victim if there is    *)
(* one.                                                                    *)
THEOREM CacheIsExact == Spec => []CacheExact
  <1>1. CacheInv => CacheExact
    BY ScanComplete DEF CacheInv, CacheExact
  <1>2. QED
    BY <1>1, CacheCorrect, PTL

(* No acquire, guess, clear, resize or completed read ever takes a slot    *)
(* that is leased, or whose read is outstanding, away from its record.     *)
THEOREM BusySlotsKept == Spec => NeverEvictsBusy
  <1>1. CacheInv /\ [Next]_vars => [BusyKept]_slots
    BY BusyStep DEF vars
  <1>2. QED
    BY <1>1, CacheCorrect, PTL DEF Spec, NeverEvictsBusy, BusyKept
=============================================================================
