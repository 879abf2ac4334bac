------------------------ MODULE ExpertPipelineProofs ------------------------
(***************************************************************************)
(* The expert pipeline keeps its leases and computes every expert once for *)
(* any number of experts, any window and any group size, with and without  *)
(* a tail, whatever fails.                                                 *)
(*                                                                         *)
(* LeasesExact and OutcomeExact say nothing of the experts that are still  *)
(* to be encoded, nor of which exception path is being taken.  The         *)
(* invariant below adds where each expert is (waiting, in the open command *)
(* buffer or in exactly one submitted one), what the unwinding code has    *)
(* already waited for, and that a loop that goes on has lost no expert.    *)
(***************************************************************************)
EXTENDS ExpertPipeline, QueueLemmas, FiniteSetTheorems, SequenceTheorems, TLAPS

Loop == {"top", "metalReap", "reap", "admit", "encode", "submit", "handoff", "sleep", "tail"}

(* The type invariant in three parts.                                      *)
TypeLoop ==
    /\ pc \in Loop \cup {"finish", "finishWait", "finishThrew", "drain", "done", "failed"}
    /\ next \in 0 .. N /\ waiting \in Seq(Expert) /\ at \in 1 .. N + 1
    /\ encoding \subseteq Expert /\ leases \subseteq Expert
TypeFlags ==
    /\ announced \in BOOLEAN /\ progress \in BOOLEAN /\ moved \in BOOLEAN /\ cancel \in BOOLEAN
    /\ error \in BOOLEAN /\ unpublished \in Nat
    /\ owner \in {"none", "catch", "destroy", "caller", "forward", "tail"}
TypeGpu ==
    /\ read \in [Expert -> {"absent", "loading", "ok", "failed"}]
    /\ current \in [open : BOOLEAN, users : SUBSET Expert]
    /\ cbs \in Seq(SUBSET Expert) /\ groups \in Seq(1 .. Len(cbs))
    /\ completed \in 0 .. Len(cbs) /\ reaped \in 0 .. completed /\ bad \subseteq 1 .. completed

(* Where the coordinator may be, and for whom it finishes.                 *)
ControlInv ==
    /\ pc \in Loop => owner = "none"
    /\ pc \in {"finish", "finishWait", "finishThrew", "drain"} => owner # "none"
    /\ pc = "drain" => owner \in {"catch", "forward", "destroy"}
    /\ pc = "done" => owner \in {"none", "tail"}
    /\ pc = "failed" => owner \in {"catch", "destroy"}
    /\ Len(groups) <= 2 /\ (pc \in {"encode", "submit"} => Len(groups) < 2)
    /\ pc \in (Loop \ {"encode", "submit"}) \cup {"done"} => encoding = {}
    /\ owner \in {"caller", "forward", "tail"} => encoding = {}
    /\ pc \in {"tail", "done"} \/ owner \in {"caller", "forward", "tail"} => next = N /\ waiting = <<>>

(* An admitted expert is in one place, and leased while the GPU needs it.  *)
PlaceInv ==
    /\ Len(waiting) <= next /\ IsInjective(waiting)
    /\ Range(waiting) \subseteq leases /\ encoding \subseteq leases /\ leases \subseteq 1 .. next
    /\ current.users \subseteq encoding /\ encoding \cap Range(waiting) = {}
    /\ \A i \in 1 .. Len(cbs) :
          /\ cbs[i] \subseteq 1 .. next
          /\ cbs[i] \cap Range(waiting) = {} /\ cbs[i] \cap current.users = {}
          /\ i > completed => cbs[i] \subseteq leases
    /\ \A i, j \in 1 .. Len(cbs) : i # j => cbs[i] \cap cbs[j] = {}

(* What has been waited for at each point of the unwinding.                *)
GpuInv ==
    /\ ~current.open => current.users = {}
    /\ pc \in {"encode", "submit"} /\ encoding # {} => current.open
    /\ Len(cbs) - completed <= 2
    /\ owner = "none" => \A i \in completed + 1 .. Len(cbs) : i \in Range(groups)
    /\ pc \in {"finishWait", "done", "failed"} => current.users = {}
    /\ pc = "finishThrew" => owner # "destroy"
    /\ pc \in {"done", "failed"} => completed = Len(cbs)
    /\ pc = "drain" \/ (pc = "finish" /\ owner = "destroy") => completed = Len(cbs) /\ reaped = completed
    /\ pc = "drain" /\ owner = "destroy" => current.users = {}

(* A call that may still succeed has lost no expert.                       *)
CoverInv ==
    owner \in {"none", "caller", "forward", "tail"} =>
        \A e \in 1 .. next :
            e \in Range(waiting) \/ e \in current.users \/ \E i \in 1 .. Len(cbs) : e \in cbs[i]

PipelineInv ==
    /\ TypeLoop /\ TypeFlags /\ TypeGpu
    /\ ControlInv /\ PlaceInv /\ GpuInv /\ CoverInv
    /\ Cardinality(leases) <= Window /\ ErrorsSurface
-----------------------------------------------------------------------------
(* The parts are the type invariant.                                       *)
LEMMA TypeParts ==
    ASSUME TypeLoop, TypeFlags, TypeGpu
    PROVE  TypeOK
  BY DEF TypeOK, TypeLoop, TypeFlags, TypeGpu, Loop

(* The caller's shared expert is encoded, nothing is leased.               *)
LEMMA PipelineInit == Init => PipelineInv
  <1> SUFFICES ASSUME Init PROVE PipelineInv
    OBVIOUS
  <1>1. TypeLoop
    BY PipelineAssumption DEF Init, TypeLoop, Loop
  <1>2. TypeFlags
    BY DEF Init, TypeFlags
  <1>3. TypeGpu
    BY DEF Init, TypeGpu
  <1>4. Range(waiting) = {} /\ IsInjective(waiting)
    BY DEF Init, Range, IsInjective
  <1>5. ControlInv
    BY DEF Init, ControlInv, Loop
  <1>6. PlaceInv
    BY <1>4 DEF Init, PlaceInv
  <1>7. GpuInv /\ CoverInv
    BY DEF Init, GpuInv, CoverInv
  <1>8. Cardinality(leases) <= Window
    BY FS_EmptySet, PipelineAssumption DEF Init
  <1>9. ErrorsSurface
    BY DEF Init, ErrorsSurface
  <1>10. QED
    BY <1>1, <1>2, <1>3, <1>5, <1>6, <1>7, <1>8, <1>9 DEF PipelineInv

(* Where the experts are does not change when none is moved.               *)
LEMMA PlacesStay ==
    ASSUME PlaceInv, TypeGpu, UNCHANGED <<next, waiting, encoding, leases, cbs>>,
           current'.users = current.users, completed' \in Nat, completed <= completed'
    PROVE  PlaceInv'
  <1>1. Range(waiting)' = Range(waiting) /\ IsInjective(waiting)'
    BY DEF PlaceInv
  <1>2. \A i \in 1 .. Len(cbs) : i > completed' => i > completed
    BY DEF TypeGpu
  <1>3. QED
    BY <1>1, <1>2 DEF PlaceInv

(* So is every expert accounted for.                                       *)
LEMMA CoverStays ==
    ASSUME CoverInv, UNCHANGED <<next, waiting, cbs>>, current'.users = current.users,
           owner' \in {"none", "caller", "forward", "tail"} => owner \in {"none", "caller", "forward", "tail"}
    PROVE  CoverInv'
  <1>1. Range(waiting)' = Range(waiting)
    OBVIOUS
  <1>2. QED
    BY <1>1 DEF CoverInv

(* The read pool, the GPU and the client.                                  *)
LEMMA PipelineEnvironment ==
    ASSUME PipelineInv,
           \/ (\E e \in Expert : ReadCompletes(e)) \/ GpuCompletes \/ Publish \/ Cancel
           \/ Returned \/ UNCHANGED vars
    PROVE  PipelineInv'
  <1>0. /\ TypeLoop /\ TypeFlags /\ TypeGpu /\ ControlInv /\ PlaceInv /\ GpuInv /\ CoverInv
        /\ Cardinality(leases) <= Window /\ ErrorsSurface
    BY DEF PipelineInv
  <1>1. UNCHANGED <<pc, next, waiting, at, encoding, groups, leases, announced, progress, current, cbs,
                    reaped, owner, error>>
    BY DEF ReadCompletes, GpuCompletes, Publish, Cancel, Returned, vars, loopVars, gpuVars, unwindVars
  <1>2. \/ completed' = completed /\ bad' = bad
        \/ /\ completed < Len(cbs) /\ completed' = completed + 1
           /\ bad' \in {bad, bad \cup {completed + 1}}
    BY DEF ReadCompletes, GpuCompletes, Publish, Cancel, Returned, vars, gpuVars
  <1>3. completed \in Nat /\ Len(cbs) \in Nat /\ reaped \in 0 .. completed /\ bad \subseteq 1 .. completed
        /\ completed <= Len(cbs)
    BY <1>0 DEF TypeGpu
  <1>4. /\ completed' \in Nat /\ completed <= completed' /\ completed' <= Len(cbs)
        /\ bad' \subseteq 1 .. completed' /\ reaped \in 0 .. completed'
        /\ \A i \in bad' : i \in bad \/ i = completed + 1
    <2>1. CASE completed' = completed /\ bad' = bad
      BY <1>3, <2>1
    <2>2. CASE /\ completed < Len(cbs) /\ completed' = completed + 1
               /\ bad' \in {bad, bad \cup {completed + 1}}
      <3>1. \A i \in bad' : i \in bad \/ i = completed + 1
        BY <2>2
      <3>2. completed \in Nat /\ completed' = completed + 1
        BY <1>3, <2>2
      <3>3. 1 .. completed \subseteq 1 .. completed' /\ completed + 1 \in 1 .. completed'
            /\ 0 .. completed \subseteq 0 .. completed'
        BY <3>2
      <3>4. bad' \subseteq 1 .. completed' /\ reaped \in 0 .. completed'
        BY <1>3, <3>1, <3>3
      <3>5. completed' \in Nat /\ completed <= completed' /\ completed' <= Len(cbs)
        BY <1>3, <2>2
      <3>6. QED
        BY <3>1, <3>4, <3>5
    <2>3. QED
      BY <1>2, <2>1, <2>2
  <1>5. TypeLoop'
    BY <1>0, <1>1 DEF TypeLoop
  <1>6. TypeFlags'
    <2>1. moved' \in BOOLEAN /\ cancel' \in BOOLEAN
      BY <1>0 DEF ReadCompletes, GpuCompletes, Publish, Cancel, Returned, vars, eventVars, TypeFlags
    <2>2. unpublished' \in Nat
      BY <1>0 DEF ReadCompletes, GpuCompletes, Publish, Cancel, Returned, vars, eventVars, TypeFlags
    <2>3. QED
      BY <1>0, <1>1, <2>1, <2>2 DEF TypeFlags
  <1>7. TypeGpu'
    <2>1. read' \in [Expert -> {"absent", "loading", "ok", "failed"}]
      <3>1. CASE \E e \in Expert : ReadCompletes(e)
        BY <1>0, <3>1 DEF ReadCompletes, TypeGpu
      <3>2. CASE ~\E e \in Expert : ReadCompletes(e)
        <4>1. read' = read
          BY <3>2 DEF GpuCompletes, Publish, Cancel, Returned, vars
        <4>2. QED
          BY <1>0, <4>1 DEF TypeGpu
      <3>3. QED
        BY <3>1, <3>2
    <2>2. completed' \in 0 .. Len(cbs)
      BY <1>3, <1>4
    <2>3. QED
      BY <1>0, <1>1, <1>4, <2>1, <2>2 DEF TypeGpu
  <1>8. ControlInv'
    BY <1>0, <1>1 DEF ControlInv
  <1>9. PlaceInv' /\ CoverInv'
    BY <1>0, <1>1, <1>3, <1>4, PlacesStay, CoverStays
  <1>10. GpuInv'
    <2>1. completed = Len(cbs) => completed' = completed
      BY <1>2, <1>3
    <2>2. Len(cbs) - completed' <= 2
      BY <1>0, <1>3, <1>4 DEF GpuInv
    <2>3. owner = "none" => \A i \in completed' + 1 .. Len(cbs) : i \in Range(groups)
      <3>1. \A i \in completed' + 1 .. Len(cbs) : i \in completed + 1 .. Len(cbs)
        <4>1. completed \in Nat /\ completed' \in Nat /\ completed <= completed' /\ Len(cbs) \in Nat
          BY <1>3, <1>4
        <4>2. \A m, n, k \in Nat : m <= n => \A i \in n + 1 .. k : i \in m + 1 .. k
          OBVIOUS
        <4>3. QED
          BY <4>1, <4>2
      <3>2. QED
        BY <1>0, <3>1 DEF GpuInv
    <2>4. Range(groups)' = Range(groups)
      BY <1>1
    <2>5. QED
      BY <1>0, <1>1, <2>1, <2>2, <2>3, <2>4 DEF GpuInv
  <1>11. ErrorsSurface'
    <2>1. \A i \in bad' : i <= reaped => i \in bad
      BY <1>3, <1>4
    <2>2. QED
      BY <1>0, <1>1, <2>1 DEF ErrorsSurface
  <1>12. QED
    BY <1>0, <1>1, <1>5, <1>6, <1>7, <1>8, <1>9, <1>10, <1>11 DEF PipelineInv

(* A step of the coordinator that moves no expert.                         *)
LEMMA PipelineFrame ==
    ASSUME PipelineInv, UNCHANGED <<next, waiting, encoding, groups, leases, read, cbs, completed, bad>>,
           pc' \in Loop \cup {"finish", "finishWait", "finishThrew", "drain", "done", "failed"},
           at' \in 1 .. N + 1, TypeFlags', current' \in [open : BOOLEAN, users : SUBSET Expert],
           current'.users = current.users, ControlInv', GpuInv',
           reaped' = reaped \/ (reaped' = completed /\ (ReapThrows => error')), error => error',
           owner' \in {"none", "caller", "forward", "tail"} => owner \in {"none", "caller", "forward", "tail"}
    PROVE  PipelineInv'
  <1>0. /\ TypeLoop /\ TypeGpu /\ PlaceInv /\ CoverInv /\ Cardinality(leases) <= Window /\ ErrorsSurface
    BY DEF PipelineInv
  <1>1. TypeLoop'
    BY <1>0 DEF TypeLoop
  <1>2. completed \in Nat /\ reaped' \in 0 .. completed /\ bad \subseteq 1 .. completed
    BY <1>0 DEF TypeGpu
  <1>3. TypeGpu'
    BY <1>0, <1>2 DEF TypeGpu
  <1>4. PlaceInv'
    <2>1. completed' \in Nat /\ completed <= completed'
      BY <1>2
    <2>2. QED
      BY <1>0, <2>1, PlacesStay
  <1>5. CoverInv'
    BY <1>0, CoverStays
  <1>6. ErrorsSurface'
    <2>1. CASE reaped' = reaped
      BY <1>0, <2>1 DEF ErrorsSurface
    <2>2. CASE reaped' = completed /\ (ReapThrows => error')
      <3>1. ASSUME NEW i \in bad PROVE error'
        <4>1. CASE i <= reaped
          BY <1>0, <4>1 DEF ErrorsSurface
        <4>2. CASE i > reaped
          BY <2>2, <4>2 DEF ReapThrows
        <4>3. i \in Int /\ reaped \in Int
          BY <1>0 DEF TypeGpu
        <4>4. QED
          BY <4>1, <4>2, <4>3
      <3>2. QED
        BY <3>1 DEF ErrorsSurface
    <2>3. QED
      BY <2>1, <2>2
  <1>7. QED
    BY <1>0, <1>1, <1>3, <1>4, <1>5, <1>6 DEF PipelineInv

(* Any throw in the loop ends in its catch block.                          *)
LEMMA PipelineThrows ==
    ASSUME PipelineInv, Throw, pc \in Loop,
           UNCHANGED <<next, waiting, at, encoding, groups, leases, announced, progress>>,
           UNCHANGED <<read, current, cbs, completed, bad, unpublished, moved, cancel>>,
           reaped' \in {reaped, completed}
    PROVE  PipelineInv'
  <1>0. TypeLoop /\ TypeFlags /\ TypeGpu /\ ControlInv /\ GpuInv
    BY DEF PipelineInv
  <1>1. pc' = "finish" /\ owner' = "catch" /\ error' = TRUE /\ owner = "none"
    BY <1>0 DEF Throw, ControlInv
  <1>2. TypeFlags'
    BY <1>0, <1>1 DEF TypeFlags
  <1>3. ControlInv'
    BY <1>0, <1>1 DEF ControlInv, Loop
  <1>4. GpuInv'
    BY <1>0, <1>1 DEF GpuInv, TypeGpu
  <1>5. current' \in [open : BOOLEAN, users : SUBSET Expert] /\ at' \in 1 .. N + 1
    BY <1>0 DEF TypeGpu, TypeLoop
  <1>6. QED
    BY <1>1, <1>2, <1>3, <1>4, <1>5, PipelineFrame

(* The loop goes on, gives way to the tail or returns.                     *)
GoesOn ==
    \/ pc = "encode" /\ pc' = "submit"
    \/ pc \in {"admit", "encode"} /\ pc' = "encode" /\ Len(groups) < 2
    \/ pc \notin {"encode", "submit"} /\ pc' \in {"metalReap", "reap", "handoff", "sleep", "top"}
    \/ pc = "handoff" /\ pc' = "tail" /\ next = N /\ waiting = <<>>
    \/ pc = "top" /\ pc' = "done" /\ next = N /\ waiting = <<>> /\ groups = <<>>

(* Moving between the places of the loop keeps the invariant.              *)
LEMMA PipelineGoesOn ==
    ASSUME PipelineInv, pc \in Loop, GoesOn, UNCHANGED <<owner, error>>,
           UNCHANGED <<next, waiting, encoding, groups, leases>>,
           UNCHANGED <<read, current, cbs, completed, bad, cancel, unpublished>>,
           announced' \in BOOLEAN, progress' \in BOOLEAN, moved' \in BOOLEAN, at' \in 1 .. N + 1,
           reaped' = reaped \/ (reaped' = completed /\ ~ReapThrows)
    PROVE  PipelineInv'
  <1>0. TypeLoop /\ TypeFlags /\ TypeGpu /\ ControlInv /\ PlaceInv /\ GpuInv
    BY DEF PipelineInv
  <1>1. owner = "none" /\ pc' \in Loop \cup {"done"}
    BY <1>0 DEF ControlInv, GoesOn, Loop
  <1>2. TypeFlags'
    BY <1>0 DEF TypeFlags
  <1>3. ControlInv'
    BY <1>0, <1>1 DEF ControlInv, Loop, GoesOn
  <1>4. GpuInv'
    <2>1. pc' = "done" => completed = Len(cbs) /\ current.users = {}
      <3>1. SUFFICES ASSUME pc' = "done" PROVE completed = Len(cbs) /\ current.users = {}
        OBVIOUS
      <3>2. pc = "top" /\ groups = <<>>
        BY <3>1 DEF GoesOn
      <3>3. current.users = {}
        BY <1>0, <3>2 DEF ControlInv, PlaceInv, Loop
      <3>4. Range(groups) = {}
        BY <3>2 DEF Range
      <3>5. \A i \in completed + 1 .. Len(cbs) : FALSE
        BY <1>0, <1>1, <3>4 DEF GpuInv
      <3>6. completed \in Nat /\ Len(cbs) \in Nat /\ completed <= Len(cbs)
        BY <1>0 DEF TypeGpu
      <3>7. QED
        BY <3>3, <3>5, <3>6
    <2>2. pc' \in {"encode", "submit"} /\ encoding # {} => current.open
      BY <1>0 DEF GoesOn, GpuInv, ControlInv, Loop
    <2>3. Range(groups)' = Range(groups)
      OBVIOUS
    <2>4. pc' \notin {"finishWait", "failed", "finishThrew", "drain", "finish"}
      BY <1>1 DEF Loop
    <2>5. QED
      BY <1>0, <1>1, <2>1, <2>2, <2>3, <2>4 DEF GpuInv
  <1>5. current' \in [open : BOOLEAN, users : SUBSET Expert]
    BY <1>0 DEF TypeGpu
  <1>6. QED
    BY <1>1, <1>2, <1>3, <1>4, <1>5, PipelineFrame

(* The actions of the loop that are steps of these two kinds.              *)
LEMMA PipelineLoop ==
    ASSUME PipelineInv,
           \/ Top \/ GpuReap \/ AdmitThrows \/ Announce \/ EncodeSkip \/ EncodeCancelled \/ EncodeEnds
           \/ Handoff \/ Wake
    PROVE  PipelineInv'
  <1>0. TypeLoop /\ TypeFlags /\ TypeGpu /\ ControlInv /\ PlaceInv /\ GpuInv
    BY DEF PipelineInv
  <1>1. UNCHANGED <<next, waiting, encoding, groups, leases>>
    BY DEF Top, GpuReap, AdmitThrows, Announce, EncodeSkip, EncodeCancelled, EncodeEnds, Handoff, Wake, loopVars
  <1>2. UNCHANGED <<read, current, cbs, completed, bad, cancel, unpublished>>
    BY DEF Top, GpuReap, AdmitThrows, Announce, EncodeSkip, EncodeCancelled, EncodeEnds, Handoff, Wake,
           gpuVars, eventVars
  <1>3. pc \in Loop
    BY DEF Top, GpuReap, AdmitThrows, Announce, EncodeSkip, EncodeCancelled, EncodeEnds, Handoff, Wake, Loop
  <1>4. announced \in BOOLEAN /\ progress \in BOOLEAN /\ moved \in BOOLEAN /\ at \in 1 .. N + 1
    BY <1>0 DEF TypeFlags, TypeLoop
  <1>5. CASE Throw
    <2>1. /\ UNCHANGED <<next, waiting, at, encoding, groups, leases, announced, progress>>
          /\ UNCHANGED <<read, current, cbs, completed, bad, unpublished, moved, cancel>>
          /\ reaped' \in {reaped, completed}
      BY <1>5 DEF Throw, Goto, Top, GpuReap, AdmitThrows, Announce, EncodeSkip, EncodeCancelled, EncodeEnds,
                  Handoff, Wake, loopVars, gpuVars, eventVars, MetalReap
    <2>2. QED
      BY <1>3, <1>5, <2>1, PipelineThrows
  <1>6. CASE Top
    <2>0. ~(next < N) => next = N
      BY <1>0, PipelineAssumption DEF TypeLoop
    <2>1. GoesOn /\ UNCHANGED <<owner, error, announced, progress, at, reaped>> /\ moved' \in {FALSE, moved}
      BY <1>6, <2>0 DEF Top, Goto, GoesOn, unwindVars, loopVars, gpuVars
    <2>2. moved' \in BOOLEAN
      BY <1>4, <2>1
    <2>3. QED
      BY <1>1, <1>2, <1>3, <1>4, <2>1, <2>2, PipelineGoesOn
  <1>7. CASE GpuReap /\ ~Throw
    <2>1. /\ GoesOn /\ UNCHANGED <<owner, error, announced, progress, at, moved>>
          /\ reaped' = completed /\ ~ReapThrows
      BY <1>7 DEF GpuReap, Goto, GoesOn, unwindVars, loopVars, eventVars, MetalReap
    <2>2. QED
      BY <1>1, <1>2, <1>3, <1>4, <2>1, PipelineGoesOn
  <1>8. CASE Announce
    <2>1. GoesOn /\ UNCHANGED <<owner, error, progress, moved, reaped>> /\ at' = 1
      BY <1>8 DEF Announce, Goto, GoesOn, MayEncode, unwindVars, gpuVars, eventVars
    <2>2. announced' \in BOOLEAN
      BY <1>4, <1>8, Zenon DEF Announce
    <2>3. 1 \in 1 .. N + 1
      BY PipelineAssumption
    <2>4. QED
      BY <1>1, <1>2, <1>3, <1>4, <2>1, <2>2, <2>3, PipelineGoesOn
  <1>9. CASE EncodeSkip
    <2>1. /\ pc = "encode" /\ pc' = pc /\ UNCHANGED <<owner, error, announced, progress, moved, reaped>>
          /\ at' = at + 1 /\ at <= Len(waiting)
      BY <1>9 DEF EncodeSkip, unwindVars, gpuVars, eventVars
    <2>2. GoesOn
      BY <1>0, <2>1 DEF GoesOn, ControlInv
    <2>3. at' \in 1 .. N + 1
      <3>1. Len(waiting) \in Nat /\ Len(waiting) <= next /\ next \in Nat /\ next <= N /\ N \in Nat
        BY <1>0, PipelineAssumption DEF PlaceInv, TypeLoop
      <3>2. QED
        BY <1>4, <2>1, <3>1
    <2>4. QED
      BY <1>1, <1>2, <1>3, <1>4, <2>1, <2>2, <2>3, PipelineGoesOn
  <1>10. CASE EncodeEnds \/ Wake \/ (Handoff /\ ~Throw)
    <2>1. GoesOn /\ UNCHANGED <<owner, error, announced, progress, at, moved, reaped>>
      BY <1>10 DEF EncodeEnds, Wake, Handoff, Goto, GoesOn, unwindVars, loopVars, gpuVars, eventVars
    <2>2. QED
      BY <1>1, <1>2, <1>3, <1>4, <2>1, PipelineGoesOn
  <1>11. QED
    BY <1>5, <1>6, <1>7, <1>8, <1>9, <1>10 DEF AdmitThrows, EncodeCancelled

(* The groups that have finished are the first n of the list.              *)
LEMMA FinishedPrefix ==
    ASSUME TypeGpu, Len(groups) <= 2
    PROVE  LET n == Cardinality(FinishedGroups)
           IN  /\ n \in 0 .. Len(groups) /\ FinishedGroups = 1 .. n
               /\ \A k \in 1 .. n : groups[k] <= completed
               /\ \A k \in DOMAIN groups : groups[k] > completed => k > n
  <1>0. groups \in Seq(1 .. Len(cbs)) /\ completed \in Nat /\ Len(cbs) \in Nat
    BY DEF TypeGpu
  <1>1. DOMAIN groups = 1 .. Len(groups) /\ Len(groups) \in Nat /\ \A k \in 1 .. Len(groups) : groups[k] \in Nat
    BY <1>0
  <1>2. \E m \in 0 .. Len(groups) : FinishedGroups = 1 .. m
    <2>1. Len(groups) = 0 \/ Len(groups) = 1 \/ Len(groups) = 2
      BY <1>1
    <2>2. CASE Len(groups) = 0
      <3>1. FinishedGroups = 1 .. 0
        BY <1>1, <2>2 DEF FinishedGroups
      <3>2. QED
        BY <2>2, <3>1
    <2>3. CASE Len(groups) >= 1 /\ groups[1] > completed
      <3>1. FinishedGroups = 1 .. 0
        BY <1>0, <1>1, <2>3 DEF FinishedGroups
      <3>2. QED
        BY <1>1, <3>1
    <2>4. CASE Len(groups) = 1 /\ groups[1] <= completed
      <3>1. FinishedGroups = 1 .. 1
        BY <1>0, <1>1, <2>4 DEF FinishedGroups
      <3>2. QED
        BY <2>4, <3>1
    <2>5. CASE Len(groups) = 2 /\ groups[1] <= completed /\ groups[2] > completed
      <3>1. FinishedGroups = 1 .. 1
        BY <1>0, <1>1, <2>5 DEF FinishedGroups
      <3>2. QED
        BY <2>5, <3>1
    <2>6. CASE Len(groups) = 2 /\ groups[1] <= completed /\ groups[2] <= completed
      <3>1. FinishedGroups = 1 .. 2
        BY <1>0, <1>1, <2>6 DEF FinishedGroups
      <3>2. QED
        BY <2>6, <3>1
    <2>7. QED
      BY <1>0, <1>1, <2>1, <2>2, <2>3, <2>4, <2>5, <2>6
  <1>3. PICK m \in 0 .. Len(groups) : FinishedGroups = 1 .. m
    BY <1>2
  <1>4. Cardinality(FinishedGroups) = m
    BY <1>1, <1>3, FS_Interval
  <1>5. \A k \in 1 .. m : groups[k] <= completed
    BY <1>1, <1>3 DEF FinishedGroups
  <1>6. \A k \in 1 .. Len(groups) : groups[k] > completed => k > m
    BY <1>0, <1>1, <1>3, <1>5
  <1>7. QED
    BY <1>1, <1>3, <1>4, <1>5, <1>6

(* ExpertTail::Impl::reap unpins no expert that the GPU or the loop needs. *)
LEMMA ReleaseKeeps ==
    ASSUME TypeGpu, TypeLoop, PlaceInv, Len(groups) <= 2, encoding = {}, ReleaseFinished,
           UNCHANGED <<next, waiting, encoding, current, cbs, completed>>
    PROVE  /\ groups' \in Seq(1 .. Len(cbs)) /\ Len(groups') <= Len(groups) /\ leases' \subseteq leases
           /\ PlaceInv'
           /\ \A i \in Range(groups) : i > completed => i \in Range(groups')
  <1> DEFINE n == Cardinality(FinishedGroups)
             m == Len(groups)
  <1>1. /\ n \in 0 .. m /\ (\A k \in 1 .. n : groups[k] <= completed)
        /\ \A k \in DOMAIN groups : groups[k] > completed => k > n
    BY FinishedPrefix
  <1>2. /\ groups' = SubSeq(groups, n + 1, m)
        /\ leases' = leases \ UNION {cbs[groups[i]] : i \in 1 .. n}
    BY DEF ReleaseFinished
  <1>3. groups \in Seq(1 .. Len(cbs)) /\ m \in Nat /\ DOMAIN groups = 1 .. m /\ Len(cbs) \in Nat
        /\ completed \in Nat /\ \A k \in 1 .. m : groups[k] \in 1 .. Len(cbs)
    BY DEF TypeGpu
  <1> HIDE DEF n, m
  <1>4. /\ groups' \in Seq(1 .. Len(cbs)) /\ Len(groups') = m - n
        /\ \A i \in 1 .. m - n : groups'[i] = groups[n + i]
    <2>1. CASE n < m
      <3>1. n + 1 \in 1 .. m /\ m - (n + 1) + 1 = m - n /\ n \in Nat
            /\ \A i \in 1 .. m - n : n + 1 + i - 1 = n + i
        BY <1>1, <1>3, <2>1
      <3>2. ASSUME NEW a \in 1 .. m
            PROVE  /\ SubSeq(groups, a, m) \in Seq(1 .. Len(cbs)) /\ Len(SubSeq(groups, a, m)) = m - a + 1
                   /\ \A i \in 1 .. m - a + 1 : SubSeq(groups, a, m)[i] = groups[a + i - 1]
        BY <1>3 DEF m
      <3>3. QED
        BY <1>2, <3>1, <3>2
    <2>2. CASE n = m
      <3>1. SubSeq(groups, n + 1, m) = <<>>
        BY <1>3, <2>2, SubSeqEmpty
      <3>2. QED
        BY <1>2, <1>3, <2>2, <3>1
    <2>3. QED
      BY <1>1, <1>3, <2>1, <2>2
  <1>5. \A i \in Range(groups) : i > completed => i \in Range(groups')
    <2>1. SUFFICES ASSUME NEW i \in Range(groups), i > completed PROVE i \in Range(groups')
      OBVIOUS
    <2>2. PICK k \in 1 .. m : groups[k] = i
      BY <1>3 DEF Range
    <2>3. k > n
      BY <1>1, <1>3, <2>1, <2>2
    <2>4. k - n \in 1 .. m - n /\ n + (k - n) = k
      BY <1>1, <1>3, <2>3
    <2>5. groups'[k - n] = i /\ DOMAIN groups' = 1 .. m - n
      BY <1>3, <1>4, <2>2, <2>4
    <2>6. QED
      BY <2>4, <2>5 DEF Range
  <1>6. ASSUME NEW e, e \in leases, e \notin leases'
        PROVE  \E j \in 1 .. Len(cbs) : e \in cbs[j] /\ j <= completed
    <2>1. PICK k \in 1 .. n : e \in cbs[groups[k]]
      BY <1>2, <1>6
    <2>2. k \in 1 .. m
      BY <1>1, <1>3
    <2>3. QED
      BY <1>1, <1>3, <2>1, <2>2
  <1>7. leases' \subseteq leases
    BY <1>2
  <1>8. PlaceInv'
    <2>1. Range(waiting)' = Range(waiting) /\ IsInjective(waiting)' /\ encoding' = {}
      BY DEF PlaceInv
    <2>2. Range(waiting) \subseteq leases'
      BY <1>6 DEF PlaceInv
    <2>3. ASSUME NEW i \in 1 .. Len(cbs), i > completed PROVE cbs[i] \subseteq leases'
      <3>1. SUFFICES ASSUME NEW e \in cbs[i], e \notin leases' PROVE FALSE
        OBVIOUS
      <3>2. e \in leases
        BY <2>3 DEF PlaceInv
      <3>3. PICK j \in 1 .. Len(cbs) : e \in cbs[j] /\ j <= completed
        BY <1>6, <3>1, <3>2
      <3>4. i # j
        BY <1>3, <2>3, <3>3
      <3>5. QED
        BY <3>1, <3>3, <3>4 DEF PlaceInv
    <2>4. leases' \subseteq 1 .. next
      BY <1>7 DEF PlaceInv
    <2>5. QED
      BY <2>1, <2>2, <2>3, <2>4 DEF PlaceInv
  <1>9. Len(groups') <= Len(groups)
    BY <1>1, <1>3, <1>4 DEF m
  <1>10. QED
    BY <1>4, <1>5, <1>7, <1>8, <1>9

(* The leases are finitely many, and a smaller set has fewer.              *)
LEMMA FewerLeases ==
    ASSUME TypeLoop, Cardinality(leases) <= Window, NEW S, S \subseteq leases
    PROVE  IsFiniteSet(leases) /\ Cardinality(leases) \in Nat /\ Cardinality(S) <= Window
  <1>1. IsFiniteSet(1 .. N)
    BY FS_Interval, PipelineAssumption
  <1>2. IsFiniteSet(leases)
    BY <1>1, FS_Subset DEF TypeLoop, Expert
  <1>3. IsFiniteSet(S) /\ Cardinality(S) <= Cardinality(leases)
    BY <1>2, FS_Subset
  <1>4. Cardinality(S) \in Nat /\ Cardinality(leases) \in Nat
    BY <1>2, <1>3, FS_CardinalityType
  <1>5. QED
    BY <1>2, <1>3, <1>4, PipelineAssumption

(* The leases of the groups that have finished are released.               *)
LEMMA PipelineReap ==
    ASSUME PipelineInv, Reap
    PROVE  PipelineInv'
  <1>0. /\ TypeLoop /\ TypeFlags /\ TypeGpu /\ ControlInv /\ PlaceInv /\ GpuInv /\ CoverInv
        /\ Cardinality(leases) <= Window /\ ErrorsSurface
    BY DEF PipelineInv
  <1>1. /\ pc = "reap" /\ pc' = "admit" /\ ReleaseFinished /\ progress' = (FinishedGroups # {})
        /\ UNCHANGED <<owner, error, next, waiting, at, encoding, announced, read>>
        /\ UNCHANGED <<current, cbs, completed, reaped, bad, unpublished, moved, cancel>>
    BY DEF Reap, Goto, unwindVars, gpuVars, eventVars
  <1>2. encoding = {} /\ Len(groups) <= 2 /\ owner = "none"
    BY <1>0, <1>1 DEF ControlInv, Loop
  <1>3. /\ groups' \in Seq(1 .. Len(cbs)) /\ Len(groups') <= Len(groups) /\ leases' \subseteq leases
        /\ PlaceInv' /\ \A i \in Range(groups) : i > completed => i \in Range(groups')
    BY <1>0, <1>1, <1>2, ReleaseKeeps
  <1>4. TypeLoop'
    BY <1>0, <1>1, <1>3 DEF TypeLoop, Loop
  <1>5. TypeFlags'
    <2>1. progress' \in BOOLEAN
      BY <1>1, Zenon
    <2>2. QED
      BY <1>0, <1>1, <2>1 DEF TypeFlags
  <1>6. TypeGpu'
    BY <1>0, <1>1, <1>3 DEF TypeGpu
  <1>7. ControlInv'
    <2>1. Len(groups') <= 2
      BY <1>0, <1>2, <1>3 DEF TypeGpu
    <2>2. QED
      BY <1>0, <1>1, <1>2, <2>1 DEF ControlInv, Loop
  <1>8. GpuInv'
    <2>1. \A i \in completed + 1 .. Len(cbs) : i \in Range(groups')
      BY <1>0, <1>2, <1>3 DEF GpuInv, TypeGpu
    <2>2. QED
      BY <1>0, <1>1, <1>2, <2>1 DEF GpuInv
  <1>9. CoverInv'
    BY <1>0, <1>1, CoverStays
  <1>10. Cardinality(leases') <= Window
    BY <1>0, <1>3, FewerLeases
  <1>11. ErrorsSurface'
    BY <1>0, <1>1 DEF ErrorsSurface
  <1>12. QED
    BY <1>3, <1>4, <1>5, <1>6, <1>7, <1>8, <1>9, <1>10, <1>11 DEF PipelineInv

(* The caller encodes behind the tail, and finishes or unwinds.            *)
LEMMA PipelineTail ==
    ASSUME PipelineInv, TailEncode \/ TailFinish
    PROVE  PipelineInv'
  <1>0. TypeLoop /\ TypeFlags /\ TypeGpu /\ ControlInv /\ GpuInv
    BY DEF PipelineInv
  <1>1. /\ pc = "tail" /\ owner = "none" /\ encoding = {} /\ next = N /\ waiting = <<>>
        /\ UNCHANGED <<next, waiting, at, encoding, groups, leases, announced, progress>>
        /\ UNCHANGED <<read, cbs, completed, reaped, bad, unpublished, moved, cancel>>
    BY <1>0 DEF TailEncode, TailFinish, loopVars, gpuVars, eventVars, ControlInv, Loop
  <1>2. CASE TailEncode
    <2>1. /\ current' = [open |-> TRUE, users |-> {}] /\ current.users = {}
          /\ UNCHANGED <<pc, owner, error>>
      BY <1>0, <1>2 DEF TailEncode, unwindVars, GpuInv
    <2>2. current' \in [open : BOOLEAN, users : SUBSET Expert] /\ current'.users = current.users
      BY <2>1
    <2>3. TypeFlags' /\ ControlInv'
      BY <1>0, <1>1, <2>1 DEF TypeFlags, ControlInv
    <2>4. GpuInv'
      BY <1>0, <1>1, <2>1 DEF GpuInv
    <2>5. pc' \in Loop /\ at' \in 1 .. N + 1
      BY <1>0, <1>1, <2>1 DEF TypeLoop, Loop
    <2>6. QED
      BY <1>1, <2>1, <2>2, <2>3, <2>4, <2>5, PipelineFrame
  <1>3. CASE TailFinish
    <2>1. pc' = "finish" /\ owner' \in {"caller", "forward"} /\ error' \in {error, TRUE} /\ current' = current
      BY <1>3 DEF TailFinish, CallFinish, gpuVars
    <2>2. TypeFlags'
      BY <1>0, <1>1, <2>1 DEF TypeFlags
    <2>3. ControlInv'
      BY <1>0, <1>1, <2>1 DEF ControlInv, Loop
    <2>4. GpuInv'
      BY <1>0, <1>1, <2>1 DEF GpuInv
    <2>5. current' \in [open : BOOLEAN, users : SUBSET Expert] /\ at' \in 1 .. N + 1
      BY <1>0, <1>1, <2>1 DEF TypeGpu, TypeLoop
    <2>6. error => error'
      BY <2>1, Zenon
    <2>7. /\ pc' \in Loop \cup {"finish", "finishWait", "finishThrew", "drain", "done", "failed"}
          /\ reaped' = reaped /\ current'.users = current.users
          /\ owner \in {"none", "caller", "forward", "tail"}
      BY <1>1, <2>1
    <2>8. QED
      BY <1>1, <2>2, <2>3, <2>4, <2>5, <2>6, <2>7, PipelineFrame
  <1>4. QED
    BY <1>2, <1>3

(* acquire() pins a new expert, which joins the waiting list.              *)
LEMMA PipelineAdmit ==
    ASSUME PipelineInv, Admit
    PROVE  PipelineInv'
  <1>0. /\ TypeLoop /\ TypeFlags /\ TypeGpu /\ ControlInv /\ PlaceInv /\ GpuInv /\ CoverInv
        /\ Cardinality(leases) <= Window /\ ErrorsSurface
    BY DEF PipelineInv
  <1> DEFINE e == next + 1
  <1>1. /\ pc = "admit" /\ next < N /\ Cardinality(leases) < Window
        /\ next' = next + 1 /\ waiting' = Append(waiting, e) /\ leases' = leases \cup {e} /\ progress' = TRUE
        /\ UNCHANGED <<pc, at, encoding, groups, announced, owner, error>>
        /\ UNCHANGED <<current, cbs, completed, reaped, bad, unpublished, moved, cancel>>
    BY DEF Admit, gpuVars, eventVars, unwindVars
  <1>2. e \in Expert /\ e \notin 1 .. next /\ 1 .. next' = 1 .. next \cup {e} /\ next' \in 0 .. N
        /\ 1 .. next \subseteq Expert
    BY <1>0, <1>1, PipelineAssumption DEF TypeLoop, Expert
  <1>3. waiting \in Seq(Expert) /\ next \in Nat /\ N \in Nat
    BY <1>0, PipelineAssumption DEF TypeLoop
  <1> HIDE DEF e
  <1>4. waiting' \in Seq(Expert) /\ Len(waiting') = Len(waiting) + 1 /\ Len(waiting) \in Nat
    BY <1>1, <1>2, <1>3, AppendProperties
  <1>5. e \notin leases /\ e \notin Range(waiting)
    BY <1>0, <1>2 DEF PlaceInv
  <1>6. Range(waiting') = Range(waiting) \cup {e} /\ IsInjective(waiting')
    BY <1>0, <1>1, <1>2, <1>3, <1>5, AppendRange DEF PlaceInv
  <1>7. TypeLoop'
    BY <1>0, <1>1, <1>2, <1>4 DEF TypeLoop
  <1>8. TypeFlags'
    BY <1>0, <1>1 DEF TypeFlags
  <1>9. TypeGpu'
    <2>1. read' \in [Expert -> {"absent", "loading", "ok", "failed"}]
      BY <1>0 DEF Admit, TypeGpu
    <2>2. QED
      BY <1>0, <1>1, <2>1 DEF TypeGpu
  <1>10. ControlInv'
    BY <1>0, <1>1 DEF ControlInv, Loop
  <1>11. encoding = {} /\ owner = "none"
    BY <1>0, <1>1 DEF ControlInv, Loop
  <1>12. PlaceInv'
    <2>1. Len(waiting') <= next'
      BY <1>0, <1>1, <1>3, <1>4 DEF PlaceInv
    <2>2. current.users = {}
      BY <1>0, <1>11 DEF PlaceInv
    <2>3. \A i \in 1 .. Len(cbs) :
            /\ cbs[i] \subseteq 1 .. next' /\ cbs[i] \cap Range(waiting') = {}
            /\ i > completed => cbs[i] \subseteq leases'
      BY <1>0, <1>1, <1>2, <1>6 DEF PlaceInv
    <2>4. Range(waiting') \subseteq leases' /\ leases' \subseteq 1 .. next'
      BY <1>0, <1>1, <1>2, <1>6 DEF PlaceInv
    <2>5. QED
      BY <1>0, <1>1, <1>6, <1>11, <2>1, <2>2, <2>3, <2>4 DEF PlaceInv
  <1>13. GpuInv'
    BY <1>0, <1>1 DEF GpuInv
  <1>14. CoverInv'
    BY <1>0, <1>1, <1>2, <1>6 DEF CoverInv
  <1>15. Cardinality(leases') <= Window
    <2>1. IsFiniteSet(leases) /\ Cardinality(leases) \in Nat
      BY <1>0, FewerLeases
    <2>2. Cardinality(leases') = Cardinality(leases) + 1
      BY <1>1, <1>5, <2>1, FS_AddElement
    <2>3. QED
      BY <1>1, <2>1, <2>2, PipelineAssumption
  <1>16. ErrorsSurface'
    BY <1>0, <1>1 DEF ErrorsSurface
  <1>17. QED
    BY <1>7, <1>8, <1>9, <1>10, <1>12, <1>13, <1>14, <1>15, <1>16 DEF PipelineInv

(* An expert is taken from the waiting list, to be encoded or dropped.     *)
LEMMA TakeWaiting ==
    ASSUME TypeLoop, PlaceInv, at <= Len(waiting), waiting' = RemoveAt(waiting, at)
    PROVE  /\ waiting[at] \in Range(waiting) /\ waiting[at] \in Expert
           /\ waiting' \in Seq(Expert) /\ Len(waiting') <= next
           /\ Range(waiting') = Range(waiting) \ {waiting[at]} /\ IsInjective(waiting')
  <1>1. /\ waiting \in Seq(Expert) /\ Len(waiting) \in Nat /\ at \in 1 .. Len(waiting) /\ next \in Nat
        /\ DOMAIN waiting = 1 .. Len(waiting)
    BY PipelineAssumption DEF TypeLoop
  <1>2. waiting[at] \in Range(waiting) /\ waiting[at] \in Expert
    BY <1>1 DEF Range
  <1>3. waiting' \in Seq(Expert) /\ Len(waiting') = Len(waiting) - 1
    BY <1>1, RemoveAtLen
  <1>4. Len(waiting') <= next
    BY <1>1, <1>3 DEF PlaceInv
  <1>5. IsInjective(waiting)
    BY DEF PlaceInv
  <1>6. Range(waiting') = Range(waiting) \ {waiting[at]} /\ IsInjective(waiting')
    BY <1>1, <1>5, RemoveAtRange
  <1>7. QED
    BY <1>2, <1>3, <1>4, <1>6

(* A ready expert is encoded into the open command buffer.                 *)
LEMMA PipelineEncode ==
    ASSUME PipelineInv, EncodeExpert
    PROVE  PipelineInv'
  <1>0. /\ TypeLoop /\ TypeFlags /\ TypeGpu /\ ControlInv /\ PlaceInv /\ GpuInv /\ CoverInv
        /\ Cardinality(leases) <= Window /\ ErrorsSurface
    BY DEF PipelineInv
  <1> DEFINE x == waiting[at]
  <1>1. /\ pc = "encode" /\ at <= Len(waiting) /\ waiting' = RemoveAt(waiting, at)
        /\ encoding' = encoding \cup {x} /\ current' = [open |-> TRUE, users |-> current.users \cup {x}]
        /\ UNCHANGED <<next, at, groups, leases, announced, progress, read>>
        /\ UNCHANGED <<cbs, completed, reaped, bad, unpublished, moved, cancel>>
    BY DEF EncodeExpert, eventVars
  <1>2. \/ pc' = "encode" /\ owner' = owner /\ error' = error
        \/ pc' = "finish" /\ owner' = "catch" /\ error' = TRUE
    BY DEF EncodeExpert, Goto, Throw, unwindVars
  <1>3. /\ x \in Range(waiting) /\ x \in Expert /\ waiting' \in Seq(Expert) /\ Len(waiting') <= next
        /\ Range(waiting') = Range(waiting) \ {x} /\ IsInjective(waiting')
    BY <1>0, <1>1, TakeWaiting
  <1> HIDE DEF x
  <1>4. owner = "none" /\ Len(groups) < 2
    BY <1>0, <1>1 DEF ControlInv, Loop
  <1>5. TypeLoop'
    BY <1>0, <1>1, <1>2, <1>3 DEF TypeLoop, Loop
  <1>6. TypeFlags'
    <2>1. error' \in BOOLEAN
      BY <1>0, <1>2, Zenon DEF TypeFlags
    <2>2. QED
      BY <1>0, <1>1, <1>2, <2>1 DEF TypeFlags
  <1>7. TypeGpu'
    <2>1. current' \in [open : BOOLEAN, users : SUBSET Expert]
      BY <1>0, <1>1, <1>3 DEF TypeGpu
    <2>2. QED
      BY <1>0, <1>1, <2>1 DEF TypeGpu
  <1>8. ControlInv'
    BY <1>0, <1>1, <1>2, <1>4 DEF ControlInv, Loop
  <1>9. PlaceInv'
    <2>1. current'.users = current.users \cup {x} /\ x \in leases /\ x \notin encoding
      BY <1>0, <1>1, <1>3 DEF PlaceInv
    <2>2. \A i \in 1 .. Len(cbs) : cbs[i] \cap Range(waiting') = {} /\ cbs[i] \cap current'.users = {}
      BY <1>0, <1>3, <2>1 DEF PlaceInv
    <2>3. encoding' \cap Range(waiting') = {} /\ encoding' \subseteq leases /\ current'.users \subseteq encoding'
      BY <1>0, <1>1, <1>3, <2>1 DEF PlaceInv
    <2>4. QED
      BY <1>0, <1>1, <1>3, <2>2, <2>3 DEF PlaceInv
  <1>10. GpuInv'
    BY <1>0, <1>1, <1>2, <1>4 DEF GpuInv
  <1>11. CoverInv'
    <2>1. current'.users = current.users \cup {x}
      BY <1>1
    <2>2. QED
      BY <1>0, <1>1, <1>3, <1>4, <2>1 DEF CoverInv
  <1>12. ErrorsSurface'
    BY <1>0, <1>1, <1>2 DEF ErrorsSurface
  <1>13. QED
    BY <1>0, <1>1, <1>5, <1>6, <1>7, <1>8, <1>9, <1>10, <1>11, <1>12 DEF PipelineInv

(* A failed read ends the loop and unpins its slot, which no GPU user has. *)
LEMMA PipelineFailedRead ==
    ASSUME PipelineInv, EncodeFailedRead
    PROVE  PipelineInv'
  <1>0. /\ TypeLoop /\ TypeFlags /\ TypeGpu /\ ControlInv /\ PlaceInv /\ GpuInv
        /\ Cardinality(leases) <= Window /\ ErrorsSurface
    BY DEF PipelineInv
  <1> DEFINE x == waiting[at]
  <1>1. /\ pc = "encode" /\ at <= Len(waiting) /\ waiting' = RemoveAt(waiting, at) /\ leases' = leases \ {x}
        /\ pc' = "finish" /\ owner' = "catch" /\ error' = TRUE
        /\ UNCHANGED <<next, at, encoding, groups, announced, progress, read>>
        /\ UNCHANGED <<current, cbs, completed, reaped, bad, unpublished, moved, cancel>>
    BY DEF EncodeFailedRead, eventVars, gpuVars, Throw
  <1>2. /\ x \in Range(waiting) /\ waiting' \in Seq(Expert) /\ Len(waiting') <= next
        /\ Range(waiting') = Range(waiting) \ {x} /\ IsInjective(waiting')
    BY <1>0, <1>1, TakeWaiting
  <1> HIDE DEF x
  <1>3. TypeLoop'
    BY <1>0, <1>1, <1>2 DEF TypeLoop, Loop
  <1>4. TypeFlags'
    BY <1>0, <1>1 DEF TypeFlags
  <1>5. TypeGpu'
    BY <1>0, <1>1 DEF TypeGpu
  <1>6. ControlInv'
    BY <1>0, <1>1 DEF ControlInv, Loop
  <1>7. PlaceInv'
    <2>1. x \notin encoding /\ \A i \in 1 .. Len(cbs) : x \notin cbs[i]
      BY <1>0, <1>2 DEF PlaceInv
    <2>2. \A i \in 1 .. Len(cbs) :
            /\ cbs[i] \cap Range(waiting') = {}
            /\ i > completed => cbs[i] \subseteq leases'
      BY <1>0, <1>1, <1>2, <2>1 DEF PlaceInv
    <2>3. Range(waiting') \subseteq leases' /\ encoding \subseteq leases' /\ encoding \cap Range(waiting') = {}
      BY <1>0, <1>1, <1>2, <2>1 DEF PlaceInv
    <2>4. QED
      BY <1>0, <1>1, <1>2, <2>2, <2>3 DEF PlaceInv
  <1>8. GpuInv'
    BY <1>0, <1>1 DEF GpuInv
  <1>9. CoverInv'
    BY <1>1 DEF CoverInv
  <1>10. Cardinality(leases') <= Window
    BY <1>0, <1>1, FewerLeases
  <1>11. ErrorsSurface'
    BY <1>1 DEF ErrorsSurface
  <1>12. QED
    BY <1>3, <1>4, <1>5, <1>6, <1>7, <1>8, <1>9, <1>10, <1>11 DEF PipelineInv

(* Committing the open command buffer moves its experts, all of them.      *)
LEMMA CommitKeeps ==
    ASSUME TypeLoop, TypeGpu, PlaceInv, Commit, encoding' \in {encoding, {}},
           UNCHANGED <<next, waiting, leases, completed>>
    PROVE  /\ cbs' \in Seq(SUBSET Expert) /\ Len(cbs') = Len(cbs) + 1 /\ Len(cbs) \in Nat
           /\ current' = Closed /\ PlaceInv'
           /\ \A e : e \in current.users \/ (\E i \in 1 .. Len(cbs) : e \in cbs[i]) =>
                        \E i \in 1 .. Len(cbs') : e \in cbs'[i]
  <1> DEFINE k == Len(cbs)
             u == current.users
  <1>1. cbs \in Seq(SUBSET Expert) /\ u \in SUBSET Expert /\ completed \in 0 .. k /\ k \in Nat
    BY DEF TypeGpu
  <1>2. cbs' = Append(cbs, u) /\ current' = Closed
    BY DEF Commit
  <1>3. /\ cbs' \in Seq(SUBSET Expert) /\ Len(cbs') = k + 1
        /\ \A i \in 1 .. k : cbs'[i] = cbs[i]
        /\ cbs'[k + 1] = u
    BY <1>1, <1>2
  <1>4. 1 .. Len(cbs') = 1 .. k \cup {k + 1} /\ k + 1 \notin 1 .. k
    BY <1>1, <1>3
  <1>5. \A e : e \in u \/ (\E i \in 1 .. k : e \in cbs[i]) => \E i \in 1 .. Len(cbs') : e \in cbs'[i]
    BY <1>3, <1>4
  <1> HIDE DEF k, u
  <1>6. PlaceInv'
    <2>1. Range(waiting)' = Range(waiting) /\ IsInjective(waiting)' /\ current'.users = {}
      BY <1>2 DEF PlaceInv, Closed
    <2>2. /\ u \subseteq encoding /\ encoding \subseteq leases /\ leases \subseteq 1 .. next
          /\ encoding \cap Range(waiting) = {}
          /\ \A i \in 1 .. k :
                /\ cbs[i] \subseteq 1 .. next
                /\ cbs[i] \cap Range(waiting) = {} /\ cbs[i] \cap u = {}
                /\ i > completed => cbs[i] \subseteq leases
          /\ \A i, j \in 1 .. k : i # j => cbs[i] \cap cbs[j] = {}
      BY DEF PlaceInv, k, u
    <2>3. \A i \in 1 .. Len(cbs') :
            /\ cbs'[i] \subseteq 1 .. next /\ cbs'[i] \cap Range(waiting) = {}
            /\ i > completed => cbs'[i] \subseteq leases
      <3>1. u \subseteq 1 .. next /\ u \cap Range(waiting) = {} /\ u \subseteq leases
        BY <2>2
      <3>2. QED
        BY <1>3, <1>4, <2>2, <3>1
    <2>4. \A i, j \in 1 .. Len(cbs') : i # j => cbs'[i] \cap cbs'[j] = {}
      BY <1>3, <1>4, <2>2
    <2>5. encoding' \subseteq leases /\ encoding' \cap Range(waiting) = {}
      BY <2>2
    <2>6. QED
      BY <2>1, <2>2, <2>3, <2>4, <2>5 DEF PlaceInv
  <1>7. QED
    BY <1>1, <1>2, <1>3, <1>5, <1>6 DEF k, u

(* The group is submitted, if anything is encoded.                         *)
LEMMA PipelineSubmit ==
    ASSUME PipelineInv, Submit
    PROVE  PipelineInv'
  <1>0. /\ TypeLoop /\ TypeFlags /\ TypeGpu /\ ControlInv /\ PlaceInv /\ GpuInv /\ CoverInv
        /\ Cardinality(leases) <= Window /\ ErrorsSurface
    BY DEF PipelineInv
  <1>1. /\ pc = "submit" /\ SubmitReady /\ reaped' = completed
        /\ UNCHANGED <<next, waiting, at, leases, announced, read>>
        /\ UNCHANGED <<completed, bad, unpublished, moved, cancel>>
    BY DEF Submit, MetalReap, eventVars
  <1>2. owner = "none" /\ Len(groups) < 2 /\ (encoding # {} => current.open) /\ pc \in Loop
    BY <1>0, <1>1 DEF ControlInv, GpuInv, Loop
  <1>3. CASE ReapThrows
    <2>1. Throw /\ UNCHANGED <<cbs, current, groups, encoding, progress>>
      BY <1>3 DEF Submit
    <2>2. QED
      BY <1>1, <1>2, <2>1, PipelineThrows
  <1>4. CASE ~ReapThrows /\ ~current.open
    <2>1. pc' = "handoff" /\ UNCHANGED <<owner, error, cbs, current, groups, encoding, progress>>
      BY <1>4 DEF Submit, Goto, unwindVars
    <2>2. encoding = {}
      BY <1>2, <1>4
    <2>3. TypeFlags'
      BY <1>0, <1>1, <2>1 DEF TypeFlags
    <2>4. ControlInv'
      BY <1>0, <1>1, <1>2, <2>1, <2>2 DEF ControlInv, Loop
    <2>5. GpuInv'
      BY <1>0, <1>1, <1>2, <2>1 DEF GpuInv
    <2>6. pc' \in Loop /\ at' \in 1 .. N + 1 /\ current' \in [open : BOOLEAN, users : SUBSET Expert]
      BY <1>0, <1>1, <2>1 DEF TypeLoop, TypeGpu, Loop
    <2>7. QED
      BY <1>1, <1>4, <2>1, <2>3, <2>4, <2>5, <2>6, PipelineFrame
  <1>5. CASE ~ReapThrows /\ current.open
    <2>1. /\ pc' = "handoff" /\ UNCHANGED <<owner, error>> /\ Commit
          /\ groups' = Append(groups, Len(cbs) + 1) /\ encoding' = {} /\ progress' = TRUE
      BY <1>5 DEF Submit, Goto, unwindVars
    <2>2. /\ cbs' \in Seq(SUBSET Expert) /\ Len(cbs') = Len(cbs) + 1 /\ Len(cbs) \in Nat
          /\ current' = Closed /\ PlaceInv'
          /\ \A e : e \in current.users \/ (\E i \in 1 .. Len(cbs) : e \in cbs[i]) =>
                       \E i \in 1 .. Len(cbs') : e \in cbs'[i]
      BY <1>0, <1>1, <2>1, CommitKeeps
    <2>3. completed \in 0 .. Len(cbs) /\ bad \subseteq 1 .. completed /\ groups \in Seq(1 .. Len(cbs))
      BY <1>0 DEF TypeGpu
    <2>4. groups \in Seq(1 .. Len(cbs')) /\ Len(cbs) + 1 \in 1 .. Len(cbs')
      <3>1. 1 .. Len(cbs) \subseteq 1 .. Len(cbs') /\ Len(cbs) + 1 \in 1 .. Len(cbs')
        BY <2>2
      <3>2. \A S, T : S \subseteq T => Seq(S) \subseteq Seq(T)
        OBVIOUS
      <3>3. QED
        BY <2>3, <3>1, <3>2
    <2>5. groups' \in Seq(1 .. Len(cbs')) /\ Len(groups') = Len(groups) + 1
      BY <2>1, <2>4, AppendProperties
    <2>6. Range(groups') = Range(groups) \cup {Len(cbs) + 1}
      BY <2>1, <2>4, AppendRange
    <2>7. TypeLoop'
      BY <1>0, <1>1, <2>1 DEF TypeLoop, Loop
    <2>8. TypeFlags'
      BY <1>0, <1>1, <2>1 DEF TypeFlags
    <2>9. TypeGpu'
      <3>1. completed' \in 0 .. Len(cbs') /\ reaped' \in 0 .. completed' /\ bad' \subseteq 1 .. completed'
        BY <1>1, <2>2, <2>3
      <3>2. current' \in [open : BOOLEAN, users : SUBSET Expert]
        BY <2>2 DEF Closed
      <3>3. QED
        BY <1>0, <1>1, <2>2, <2>5, <3>1, <3>2 DEF TypeGpu
    <2>10. ControlInv'
      <3>1. Len(groups') <= 2
        BY <1>0, <1>2, <2>5 DEF TypeGpu
      <3>2. QED
        BY <1>0, <1>1, <1>2, <2>1, <3>1 DEF ControlInv, Loop
    <2>11. GpuInv'
      <3>1. Len(cbs') - completed' <= 2
        BY <1>1, <1>5, <2>2, <2>3 DEF SubmitReady
      <3>2. \A i \in completed' + 1 .. Len(cbs') : i \in Range(groups')
        <4>1. \A i \in completed + 1 .. Len(cbs) + 1 : i \in completed + 1 .. Len(cbs) \/ i = Len(cbs) + 1
          BY <2>2, <2>3
        <4>2. QED
          BY <1>0, <1>1, <1>2, <2>2, <2>6, <4>1 DEF GpuInv
      <3>3. current'.users = {} /\ pc' = "handoff"
        BY <2>1, <2>2 DEF Closed
      <3>4. QED
        BY <3>1, <3>2, <3>3 DEF GpuInv
    <2>12. CoverInv'
      <3>1. Range(waiting)' = Range(waiting)
        BY <1>1
      <3>2. QED
        BY <1>0, <1>1, <2>1, <2>2, <3>1 DEF CoverInv
    <2>13. ErrorsSurface'
      <3>1. \A i \in bad : i <= reaped
        BY <1>0, <1>5 DEF ReapThrows, TypeGpu
      <3>2. QED
        BY <1>0, <1>1, <2>1, <3>1 DEF ErrorsSurface
    <2>14. QED
      BY <1>0, <1>1, <2>2, <2>7, <2>8, <2>9, <2>10, <2>11, <2>12, <2>13 DEF PipelineInv
  <1>6. QED
    BY <1>3, <1>4, <1>5

(* Metal::finish commits what is open, or keeps the exception.             *)
LEMMA PipelineFinishSubmit ==
    ASSUME PipelineInv, FinishSubmit
    PROVE  PipelineInv'
  <1>0. /\ TypeLoop /\ TypeFlags /\ TypeGpu /\ ControlInv /\ PlaceInv /\ GpuInv /\ CoverInv
        /\ Cardinality(leases) <= Window /\ ErrorsSurface
    BY DEF PipelineInv
  <1>1. /\ pc = "finish" /\ SubmitReady /\ reaped' = completed
        /\ UNCHANGED <<next, waiting, at, encoding, groups, leases, announced, progress>>
        /\ UNCHANGED <<read, completed, bad, unpublished, moved, cancel, owner>>
    BY DEF FinishSubmit, MetalReap, loopVars, eventVars
  <1>2. owner # "none"
    BY <1>0, <1>1 DEF ControlInv
  <1>3. error' \in BOOLEAN /\ (error => error') /\ (ReapThrows => error')
    BY Zenon DEF FinishSubmit
  <1>4. TypeFlags'
    BY <1>0, <1>1, <1>3 DEF TypeFlags
  <1>5. /\ pc' = IF ReapThrows THEN "finishThrew" ELSE "finishWait"
        /\ IF current.open /\ ~ReapThrows THEN Commit ELSE UNCHANGED <<cbs, current>>
    BY DEF FinishSubmit
  <1>6. ControlInv'
    BY <1>0, <1>1, <1>2, <1>5 DEF ControlInv, Loop
  <1>7. CASE ReapThrows \/ ~current.open
    <2>1. UNCHANGED <<cbs, current>> /\ pc' \in {"finishWait", "finishThrew"}
      BY <1>5, <1>7
    <2>2. pc' = "finishWait" => current.users = {}
      BY <1>0, <1>5, <1>7 DEF GpuInv
    <2>3. pc' = "finishThrew" => owner # "destroy"
      <3>1. SUFFICES ASSUME ReapThrows, owner = "destroy" PROVE FALSE
        BY <1>5
      <3>2. reaped = completed /\ completed \in Nat /\ bad \subseteq 1 .. completed
        BY <1>0, <1>1, <3>1 DEF GpuInv, TypeGpu
      <3>3. QED
        BY <3>1, <3>2 DEF ReapThrows
    <2>4. GpuInv'
      BY <1>0, <1>1, <1>2, <2>1, <2>2, <2>3 DEF GpuInv
    <2>5. /\ pc' \in Loop \cup {"finish", "finishWait", "finishThrew", "drain", "done", "failed"}
          /\ at' \in 1 .. N + 1 /\ current' \in [open : BOOLEAN, users : SUBSET Expert]
          /\ current'.users = current.users
      BY <1>0, <1>1, <2>1 DEF TypeLoop, TypeGpu
    <2>6. QED
      BY <1>1, <1>3, <1>4, <1>6, <2>1, <2>4, <2>5, PipelineFrame
  <1>8. CASE ~ReapThrows /\ current.open
    <2>1. pc' = "finishWait" /\ Commit
      BY <1>5, <1>8
    <2>2. /\ cbs' \in Seq(SUBSET Expert) /\ Len(cbs') = Len(cbs) + 1 /\ Len(cbs) \in Nat
          /\ current' = Closed /\ PlaceInv'
          /\ \A e : e \in current.users \/ (\E i \in 1 .. Len(cbs) : e \in cbs[i]) =>
                       \E i \in 1 .. Len(cbs') : e \in cbs'[i]
      BY <1>0, <1>1, <2>1, CommitKeeps
    <2>3. completed \in 0 .. Len(cbs) /\ bad \subseteq 1 .. completed /\ groups \in Seq(1 .. Len(cbs))
      BY <1>0 DEF TypeGpu
    <2>4. groups' \in Seq(1 .. Len(cbs'))
      <3>1. 1 .. Len(cbs) \subseteq 1 .. Len(cbs')
        BY <2>2
      <3>2. \A S, T : S \subseteq T => Seq(S) \subseteq Seq(T)
        OBVIOUS
      <3>3. QED
        BY <1>1, <2>3, <3>1, <3>2
    <2>5. TypeLoop'
      BY <1>0, <1>1, <2>1 DEF TypeLoop
    <2>6. TypeGpu'
      <3>1. completed' \in 0 .. Len(cbs') /\ reaped' \in 0 .. completed' /\ bad' \subseteq 1 .. completed'
        BY <1>1, <2>2, <2>3
      <3>2. current' \in [open : BOOLEAN, users : SUBSET Expert]
        BY <2>2 DEF Closed
      <3>3. QED
        BY <1>0, <1>1, <2>2, <2>4, <3>1, <3>2 DEF TypeGpu
    <2>7. GpuInv'
      <3>1. Len(cbs') - completed' <= 2
        BY <1>1, <1>8, <2>2, <2>3 DEF SubmitReady
      <3>2. current'.users = {} /\ pc' = "finishWait" /\ owner' # "none"
        BY <1>1, <1>2, <2>1, <2>2 DEF Closed
      <3>3. QED
        BY <3>1, <3>2 DEF GpuInv
    <2>8. CoverInv'
      <3>1. Range(waiting)' = Range(waiting)
        BY <1>1
      <3>2. QED
        BY <1>0, <1>1, <2>2, <3>1 DEF CoverInv
    <2>9. ErrorsSurface'
      <3>1. \A i \in bad : i <= reaped
        BY <1>0, <1>8 DEF ReapThrows, TypeGpu
      <3>2. QED
        BY <1>0, <1>1, <1>3, <3>1 DEF ErrorsSurface
    <2>10. QED
      BY <1>0, <1>1, <1>4, <1>6, <2>2, <2>5, <2>6, <2>7, <2>8, <2>9 DEF PipelineInv
  <1>9. QED
    BY <1>7, <1>8

(* Metal::finish returns or throws with every command buffer finished.     *)
LEMMA PipelineFinishWaited ==
    ASSUME PipelineInv, FinishWaited
    PROVE  PipelineInv'
  <1>0. /\ TypeLoop /\ TypeFlags /\ TypeGpu /\ ControlInv /\ PlaceInv /\ GpuInv /\ CoverInv
        /\ Cardinality(leases) <= Window /\ ErrorsSurface
    BY DEF PipelineInv
  <1>1. /\ pc \in {"finishWait", "finishThrew"} /\ completed = Len(cbs) /\ reaped' = completed
        /\ UNCHANGED <<next, waiting, at, encoding, announced, progress>>
        /\ UNCHANGED <<read, current, cbs, completed, bad, unpublished, moved, cancel>>
    BY DEF FinishWaited, MetalReap, loopVars, eventVars
  <1>2. error' \in BOOLEAN /\ (error => error') /\ (ReapThrows => error')
    BY Zenon DEF FinishWaited
  <1>3. CASE /\ UNCHANGED <<groups, leases>>
             /\ \/ pc' = "drain" /\ owner' = owner /\ owner \in {"catch", "forward", "destroy"}
                \/ pc' = "finish" /\ owner = "caller" /\ owner' \in {"forward", "tail"}
                \/ pc' = "finish" /\ owner = "tail" /\ owner' = "destroy"
    <2>1. owner' \in {"catch", "forward", "destroy", "tail"}
      BY <1>3
    <2>2. TypeFlags'
      BY <1>0, <1>1, <1>2, <2>1 DEF TypeFlags
    <2>3. ControlInv'
      BY <1>0, <1>1, <1>3 DEF ControlInv, Loop
    <2>4. owner = "destroy" => current.users = {}
      BY <1>0, <1>1 DEF GpuInv
    <2>5. GpuInv'
      BY <1>0, <1>1, <1>3, <2>1, <2>4 DEF GpuInv
    <2>6. /\ pc' \in Loop \cup {"finish", "finishWait", "finishThrew", "drain", "done", "failed"}
          /\ at' \in 1 .. N + 1 /\ current' \in [open : BOOLEAN, users : SUBSET Expert]
          /\ current'.users = current.users
      BY <1>0, <1>1, <1>3 DEF TypeLoop, TypeGpu
    <2>7. owner' \in {"none", "caller", "forward", "tail"} => owner \in {"none", "caller", "forward", "tail"}
      BY <1>3
    <2>8. QED
      BY <1>1, <1>2, <1>3, <2>2, <2>3, <2>5, <2>6, <2>7, PipelineFrame
  <1>4. CASE owner = "tail" /\ ~FinishThrows /\ ReleaseFinished /\ pc' = "done" /\ owner' = owner
    <2>1. encoding = {} /\ Len(groups) <= 2 /\ pc = "finishWait" /\ current.users = {}
      BY <1>0, <1>1, <1>4 DEF ControlInv, GpuInv, FinishThrows
    <2>2. /\ groups' \in Seq(1 .. Len(cbs)) /\ Len(groups') <= Len(groups) /\ leases' \subseteq leases
          /\ PlaceInv'
      BY <1>0, <1>1, <1>4, <2>1, ReleaseKeeps
    <2>3. TypeLoop'
      BY <1>0, <1>1, <1>4, <2>2 DEF TypeLoop
    <2>4. TypeFlags'
      BY <1>0, <1>1, <1>2, <1>4 DEF TypeFlags
    <2>5. TypeGpu'
      <3>1. reaped' \in 0 .. completed'
        BY <1>0, <1>1 DEF TypeGpu
      <3>2. QED
        BY <1>0, <1>1, <2>2, <3>1 DEF TypeGpu
    <2>6. ControlInv'
      <3>1. Len(groups') <= 2
        BY <1>0, <2>1, <2>2 DEF TypeGpu
      <3>2. QED
        BY <1>0, <1>1, <1>4, <2>1, <3>1 DEF ControlInv, Loop
    <2>7. GpuInv'
      BY <1>0, <1>1, <1>4, <2>1 DEF GpuInv
    <2>8. CoverInv'
      BY <1>0, <1>1, <1>4, CoverStays
    <2>9. Cardinality(leases') <= Window
      BY <1>0, <2>2, FewerLeases
    <2>10. ErrorsSurface'
      <3>1. \A i \in bad : i <= reaped
        BY <1>0, <1>4 DEF ReapThrows, TypeGpu, FinishThrows
      <3>2. QED
        BY <1>0, <1>1, <1>2, <3>1 DEF ErrorsSurface
    <2>11. QED
      BY <2>2, <2>3, <2>4, <2>5, <2>6, <2>7, <2>8, <2>9, <2>10 DEF PipelineInv
  <1>5. QED
    BY <1>3, <1>4 DEF FinishWaited, CallFinish, loopVars

(* The reads have drained: the leases go when nobody can use them.         *)
LEMMA PipelineDrained ==
    ASSUME PipelineInv, Drained
    PROVE  PipelineInv'
  <1>0. /\ TypeLoop /\ TypeFlags /\ TypeGpu /\ ControlInv /\ PlaceInv /\ GpuInv
        /\ Cardinality(leases) <= Window /\ ErrorsSurface
    BY DEF PipelineInv
  <1>1. /\ pc = "drain" /\ completed = Len(cbs) /\ reaped = completed
        /\ owner \in {"catch", "forward", "destroy"} /\ (owner = "destroy" => current.users = {})
    BY <1>0 DEF Drained, ControlInv, GpuInv
  <1>2. /\ UNCHANGED <<next, at, announced, progress, read>>
        /\ UNCHANGED <<current, cbs, completed, reaped, bad, unpublished, moved, cancel, error>>
    BY DEF Drained, gpuVars, eventVars
  <1>3. CASE /\ UNCHANGED <<waiting, groups, encoding, leases>> /\ pc' = "finish"
             /\ \/ owner = "forward" /\ owner' = "tail"
                \/ owner = "catch" /\ owner' = "destroy"
    <2>1. TypeFlags'
      BY <1>0, <1>2, <1>3 DEF TypeFlags
    <2>2. ControlInv'
      BY <1>0, <1>1, <1>2, <1>3 DEF ControlInv, Loop
    <2>3. GpuInv'
      BY <1>0, <1>1, <1>2, <1>3 DEF GpuInv
    <2>4. /\ at' \in 1 .. N + 1 /\ current' \in [open : BOOLEAN, users : SUBSET Expert]
          /\ current'.users = current.users /\ pc' \in {"finish"}
      BY <1>0, <1>2, <1>3 DEF TypeLoop, TypeGpu
    <2>5. QED
      BY <1>2, <1>3, <2>1, <2>2, <2>3, <2>4, PipelineFrame
  <1>4. CASE /\ owner' = owner /\ owner # "forward" /\ (owner = "catch" => ~InUse) /\ pc' = "failed"
             /\ waiting' = <<>> /\ groups' = <<>> /\ encoding' = {} /\ leases' = {}
    <2>1. current.users = {}
      BY <1>0, <1>1, <1>4 DEF InUse, PlaceInv
    <2>2. Range(waiting') = {} /\ IsInjective(waiting') /\ Len(waiting') = 0
      BY <1>4 DEF Range, IsInjective
    <2>3. TypeLoop'
      BY <1>0, <1>2, <1>4 DEF TypeLoop
    <2>4. TypeFlags'
      BY <1>0, <1>2, <1>4 DEF TypeFlags
    <2>5. TypeGpu'
      BY <1>0, <1>2, <1>4 DEF TypeGpu
    <2>6. ControlInv'
      BY <1>0, <1>1, <1>2, <1>4 DEF ControlInv, Loop
    <2>7. PlaceInv'
      <3>1. next \in Nat /\ Len(cbs) \in Nat
        BY <1>0, PipelineAssumption DEF TypeLoop, TypeGpu
      <3>2. \A i \in 1 .. Len(cbs) : ~(i > completed)
        BY <1>1, <3>1
      <3>3. QED
        BY <1>0, <1>2, <1>4, <2>1, <2>2, <3>1, <3>2 DEF PlaceInv
    <2>8. GpuInv'
      BY <1>0, <1>1, <1>2, <1>4, <2>1 DEF GpuInv
    <2>9. CoverInv'
      BY <1>1, <1>4 DEF CoverInv
    <2>10. Cardinality(leases') <= Window
      BY <1>4, FS_EmptySet, PipelineAssumption
    <2>11. ErrorsSurface'
      BY <1>0, <1>2 DEF ErrorsSurface
    <2>12. QED
      BY <2>3, <2>4, <2>5, <2>6, <2>7, <2>8, <2>9, <2>10, <2>11 DEF PipelineInv
  <1>5. QED
    BY <1>1, <1>3, <1>4 DEF Drained, CallFinish

(* Every step keeps the invariant.                                         *)
LEMMA PipelineStep == PipelineInv /\ [Next]_vars => PipelineInv'
  <1> SUFFICES ASSUME PipelineInv, [Next]_vars PROVE PipelineInv'
    OBVIOUS
  <1>1. CASE \/ Top \/ GpuReap \/ AdmitThrows \/ Announce \/ EncodeSkip \/ EncodeCancelled \/ EncodeEnds
             \/ Handoff \/ Wake
    BY <1>1, PipelineLoop
  <1>2. CASE Reap
    BY <1>2, PipelineReap
  <1>3. CASE Admit
    BY <1>3, PipelineAdmit
  <1>4. CASE EncodeExpert
    BY <1>4, PipelineEncode
  <1>5. CASE EncodeFailedRead
    BY <1>5, PipelineFailedRead
  <1>6. CASE Submit
    BY <1>6, PipelineSubmit
  <1>7. CASE TailEncode \/ TailFinish
    BY <1>7, PipelineTail
  <1>8. CASE FinishSubmit
    BY <1>8, PipelineFinishSubmit
  <1>9. CASE FinishWaited
    BY <1>9, PipelineFinishWaited
  <1>10. CASE Drained
    BY <1>10, PipelineDrained
  <1>11. CASE \/ (\E e \in Expert : ReadCompletes(e)) \/ GpuCompletes \/ Publish \/ Cancel
              \/ Returned \/ UNCHANGED vars
    BY <1>11, PipelineEnvironment
  <1>12. QED
    BY <1>1, <1>2, <1>3, <1>4, <1>5, <1>6, <1>7, <1>8, <1>9, <1>10, <1>11 DEF Next, Coordinator

(* The slots of the GPU's users are pinned, within the window.             *)
LEMMA LeasesFollow == PipelineInv => LeasesExact
  <1> SUFFICES ASSUME PipelineInv PROVE LeasesExact
    OBVIOUS
  <1>0. /\ TypeLoop /\ TypeFlags /\ TypeGpu /\ ControlInv /\ PlaceInv /\ GpuInv
        /\ Cardinality(leases) <= Window
    BY DEF PipelineInv
  <1>1. TypeOK
    BY <1>0, TypeParts
  <1>2. current.users \subseteq leases
    BY <1>0 DEF PlaceInv
  <1>3. \A i \in completed + 1 .. Len(cbs) : cbs[i] \subseteq leases
    <2>1. \A i \in completed + 1 .. Len(cbs) : i \in 1 .. Len(cbs) /\ i > completed
      BY <1>0 DEF TypeGpu
    <2>2. QED
      BY <1>0, <2>1 DEF PlaceInv
  <1>4. LeaseCoversGpu
    BY <1>2, <1>3 DEF LeaseCoversGpu, GpuUsers
  <1>5. WindowBound
    BY <1>0 DEF WindowBound, ControlInv, GpuInv
  <1>6. QED
    BY <1>1, <1>4, <1>5 DEF LeasesExact

(* No expert is encoded twice, and success means that all are computed.    *)
LEMMA OutcomeFollows == PipelineInv => OutcomeExact
  <1> SUFFICES ASSUME PipelineInv PROVE OutcomeExact
    OBVIOUS
  <1>0. /\ TypeLoop /\ TypeGpu /\ ControlInv /\ PlaceInv /\ GpuInv /\ CoverInv /\ ErrorsSurface
    BY DEF PipelineInv
  <1>1. DOMAIN cbs = 1 .. Len(cbs)
    BY <1>0 DEF TypeGpu
  <1>2. ASSUME NEW e \in Expert
        PROVE  LET uses == {i \in DOMAIN cbs : e \in cbs[i]}
               IN  /\ Cardinality(uses) + (IF e \in current.users THEN 1 ELSE 0) <= 1
                   /\ pc = "done" => uses # {} /\ uses \subseteq 1 .. completed
    <2> DEFINE uses == {i \in DOMAIN cbs : e \in cbs[i]}
    <2>1. \A i \in uses : i \in 1 .. Len(cbs) /\ e \in cbs[i]
      BY <1>1
    <2>2. \A i, j \in uses : i = j
      BY <1>0, <2>1 DEF PlaceInv
    <2>3. e \in current.users => uses = {}
      BY <1>0, <2>1 DEF PlaceInv
    <2>4. pc = "done" => uses # {} /\ uses \subseteq 1 .. completed
      <3>1. SUFFICES ASSUME pc = "done" PROVE uses # {} /\ uses \subseteq 1 .. completed
        OBVIOUS
      <3>2. /\ owner \in {"none", "tail"} /\ next = N /\ waiting = <<>> /\ current.users = {}
            /\ completed = Len(cbs)
        BY <1>0, <3>1 DEF ControlInv, GpuInv
      <3>3. Range(waiting) = {}
        BY <3>2 DEF Range
      <3>4. \E i \in 1 .. Len(cbs) : e \in cbs[i]
        BY <1>0, <3>2, <3>3 DEF CoverInv, Expert
      <3>5. QED
        BY <1>1, <2>1, <3>2, <3>4
    <2>5. Cardinality({}) = 0 /\ \A i : Cardinality({i}) = 1
      BY FS_EmptySet, FS_Singleton
    <2>6. CASE uses = {}
      BY <2>4, <2>5, <2>6
    <2>7. CASE uses # {}
      <3>1. PICK i \in uses : TRUE
        BY <2>7
      <3>2. uses = {i}
        BY <2>2, <3>1
      <3>3. e \notin current.users
        BY <2>3, <2>7
      <3>4. Cardinality(uses) = 1
        BY <2>5, <3>2
      <3>5. QED
        BY <2>4, <3>3, <3>4
    <2>8. QED
      BY <2>6, <2>7
  <1>3. ComputedOnce
    BY <1>2 DEF ComputedOnce
  <1>4. QED
    BY <1>0, <1>3 DEF OutcomeExact

(* The invariant holds of every behaviour.                                 *)
THEOREM PipelineCorrect == Spec => []PipelineInv
  BY PipelineInit, PipelineStep, PTL DEF Spec

(* No cache slot is unpinned while the GPU may use it, and the loop pins   *)
(* no more than its window, on every path: for any number of experts.      *)
THEOREM LeasesCorrect == Spec => []LeasesExact
  BY PipelineCorrect, LeasesFollow, PTL

(* A call that returns has computed each expert exactly once, and a failed *)
(* command group is never forgotten: for any number of experts.            *)
THEOREM OutcomeCorrect == Spec => []OutcomeExact
  BY PipelineCorrect, OutcomeFollows, PTL
=============================================================================
