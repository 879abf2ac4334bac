---------------------------- MODULE ServerProofs ----------------------------
(***************************************************************************)
(* What Server says of admission and of the answers holds for any number   *)
(* of connections, handler threads and queued events.                      *)
(*                                                                         *)
(* Neither AdmissionExact nor AnswersExact is inductive.  Admission needs  *)
(* to know where the one job is (pending, or in the hands of the inference *)
(* thread, or nowhere) and that a failed drain ends admission for good.    *)
(* The answers need to know what each connection was told and still has    *)
(* queued: the two together are the events generated so far, in order.     *)
(***************************************************************************)
EXTENDS Server, TLAPS, FiniteSetTheorems, SequenceTheorems

(* The type invariant in five parts, one for each tuple of variables.      *)
TypeMain ==
    /\ mpc \in {"serve", "sockets", "join", "exited"}
    /\ sockets \in Seq(Conn) /\ Len(sockets) <= QueueLimit
TypeConn ==
    /\ hpc \in [Conn -> {"new", "queued", "read", "wait", "cancel", "closed"}]
    /\ kind \in [Conn -> Kinds] /\ gone \in [Conn -> BOOLEAN]
    /\ out \in [Conn -> Seq(Item \cup {"error", "done", "ok", "refused"})]
TypeJobs ==
    /\ cancel \in [Conn -> BOOLEAN] /\ jdone \in [Conn -> BOOLEAN]
    /\ events \in [Conn -> Seq(Item)] /\ \A c \in Conn : Len(events[c]) <= StreamLimit
    /\ jcode \in [Conn -> {"ok", "error"}] /\ pushed \in [Conn -> 0 .. MaxDeltas]
TypeCoord ==
    /\ pending \in Conn \cup {None} /\ active \in Conn \cup {None}
    /\ stopping \in BOOLEAN /\ ready \in BOOLEAN /\ failed \in BOOLEAN
    /\ phase \in {"loading", "ready", "failed", "preparing", "generating", "cancelling", "draining"}
TypeInfer ==
    /\ job \in Conn \cup {None} /\ dirty \in BOOLEAN
    /\ ipc \in {"init", "idle", "start", "run", "settle", "drain", "announce", "recover",
                "release", "publish", "exited"}
    /\ code \in {"ok", "error"} /\ executor \in {"loading", "up", "none"}

(* No more connections are being handled than there are handler threads.   *)
HandlerInv == IsFiniteSet(Busy) /\ Cardinality(Busy) <= Handlers

(* The inference thread has the active job in its hands.                   *)
Serving == ipc \in {"start", "run", "settle", "drain", "announce", "recover", "release"}

(* The active job is either pending or served; a job can be admitted while *)
(* the last one is still being published.                                  *)
JobInv ==
    /\ Serving => active = job /\ pending = None
    /\ ~Serving => active = pending
    /\ Serving \/ ipc = "publish" => job \in Conn
    /\ pending # None => ipc \in {"idle", "publish"}

(* The engine is ready or has failed once it is initialized; it fails for  *)
(* good, and only a failed engine keeps users of an earlier generation.    *)
EngineInv ==
    /\ ipc = "init" => ~ready /\ ~failed /\ phase = "loading"
    /\ ipc # "init" => ready = ~failed
    /\ failed => pending = None /\ ipc \in {"idle", "release", "publish", "exited"}
    /\ dirty => failed \/ ipc \in {"run", "settle", "drain"}
    /\ ready /\ ipc # "exited" => executor = "up"
    /\ ipc \notin {"init", "idle", "exited"} => executor = "up"
    /\ ipc = "exited" => stopping /\ pending = None

AdmissionInv ==
    /\ TypeMain /\ TypeConn /\ TypeJobs /\ TypeCoord /\ TypeInfer
    /\ HandlerInv /\ JobInv /\ EngineInv /\ PhaseSettles
-----------------------------------------------------------------------------
Has(s, item) == \E i \in 1 .. Len(s) : s[i] = item

(* What the handler of c has taken off the queue, and what is still in it. *)
Said(c)     == out[c] \o events[c]
Finished(c) == Has(out[c], "finish") \/ Has(events[c], "finish")

(* s is n deltas, and possibly the finish event.                           *)
Answering(s, n) ==
    /\ s \in Seq(Item) /\ Len(s) \in {n, n + 1}
    /\ \A i \in 1 .. Len(s) : s[i] = IF i <= n THEN "delta" ELSE "finish"

(* A connection waits in the queue once.                                   *)
QueueInv ==
    /\ \A i \in 1 .. Len(sockets) : hpc[sockets[i]] = "queued"
    /\ \A i, j \in 1 .. Len(sockets) : sockets[i] = sockets[j] => i = j

(* A connection makes its one request after its handler has read it.       *)
FreshInv ==
    \A c \in Conn : hpc[c] \in {"new", "queued", "read"} =>
        /\ out[c] = <<>> /\ events[c] = <<>> /\ pushed[c] = 0 /\ ~jdone[c]
        /\ c # pending /\ c # active /\ c # job

(* A job that is done is never served again.                               *)
DoneInv ==
    /\ \A c \in Conn : jdone[c] => c # pending /\ (job = c => ipc \in {"idle", "exited"})
    /\ ipc = "publish" => job # pending

(* Success of c follows its drain, and what fails after the finish event   *)
(* fails because c was cancelled.                                          *)
Announced(c) == job = c /\ ipc \in {"recover", "release", "publish"}

FinishInv ==
    \A c \in Conn :
        /\ Finished(c) => (Announced(c) \/ jdone[c]) /\ ~(dirty /\ job = c)
        /\ Finished(c) /\ Announced(c) /\ code = "error" => cancel[c]
        /\ Finished(c) /\ jdone[c] /\ jcode[c] = "error" => cancel[c]
        /\ jdone[c] /\ jcode[c] = "ok" => ~(dirty /\ job = c)
        /\ Announced(c) /\ code = "ok" => ~dirty

(* While its handler relays, what c was told and what is queued for it are *)
(* the events generated so far.                                            *)
StreamInv ==
    \A c \in Conn : hpc[c] = "wait" =>
        /\ Answering(Said(c), pushed[c])
        /\ kind[c] # "stream" => Said(c) = <<>>
        /\ kind[c] = "stream" /\ Announced(c) /\ code = "ok" => Len(Said(c)) = pushed[c] + 1
        /\ kind[c] = "stream" /\ jdone[c] /\ jcode[c] = "ok" => Len(Said(c)) = pushed[c] + 1

(* The complete answer to a stream of n deltas.                            *)
Complete(s, n) ==
    /\ Len(s) = n + 2
    /\ \A i \in 1 .. n : s[i] = "delta"
    /\ s[n + 1] = "finish" /\ s[n + 2] = "done"

(* What was written when the connection is no longer relayed.              *)
WrittenInv ==
    \A c \in Conn :
        /\ Has(out[c], "ok") => jdone[c] /\ jcode[c] = "ok"
        /\ Has(out[c], "done") => jdone[c] /\ (Has(out[c], "error") \/ Complete(out[c], pushed[c]))
        /\ Has(out[c], "finish") /\ Has(out[c], "error") => cancel[c]

AnswerInv == QueueInv /\ FreshInv /\ DoneInv /\ FinishInv /\ StreamInv /\ WrittenInv
-----------------------------------------------------------------------------
(* The parts are the type invariant.                                       *)
LEMMA TypeParts ==
    ASSUME TypeMain, TypeConn, TypeJobs, TypeCoord, TypeInfer, HandlerInv
    PROVE  TypeOK
  <1>1. {pending, active, job} \subseteq Conn \cup {None}
    BY DEF TypeCoord, TypeInfer
  <1>2. {stopping, ready, failed, dirty} \subseteq BOOLEAN
    BY Zenon DEF TypeCoord, TypeInfer
  <1>3. QED
    BY <1>1, <1>2 DEF TypeOK, TypeMain, TypeConn, TypeJobs, TypeCoord, TypeInfer, HandlerInv

(* What the admission invariant is for.                                    *)
LEMMA AdmissionFollows == AdmissionInv => AdmissionExact
  <1> SUFFICES ASSUME AdmissionInv PROVE AdmissionExact
    OBVIOUS
  <1>1. TypeOK
    BY TypeParts DEF AdmissionInv
  <1>2. AdmittedDrained
    BY DEF AdmissionInv, EngineInv, JobInv, AdmittedDrained
  <1>3. ServedByExecutor
    <2>1. CASE ipc \notin {"init", "idle", "exited"}
      BY <2>1 DEF AdmissionInv, EngineInv, ServedByExecutor
    <2>2. CASE pending # None
      <3>1. ipc # "init" /\ ipc # "exited" /\ ~failed
        BY <2>2 DEF AdmissionInv, EngineInv, JobInv
      <3>2. ready
        BY <3>1 DEF AdmissionInv, EngineInv
      <3>3. QED
        BY <3>1, <3>2 DEF AdmissionInv, EngineInv, ServedByExecutor
    <2>3. QED
      BY <2>1, <2>2 DEF ServedByExecutor
  <1>4. QED
    BY <1>1, <1>2, <1>3 DEF AdmissionInv, AdmissionExact

(* Startup, and no connection yet.                                         *)
LEMMA AdmissionInit == Init => AdmissionInv
  <1> SUFFICES ASSUME Init PROVE AdmissionInv
    OBVIOUS
  <1>1. TypeMain
    BY ServerAssumption DEF Init, TypeMain
  <1>2. TypeConn
    BY DEF Init, TypeConn
  <1>3. TypeJobs
    BY ServerAssumption DEF Init, TypeJobs
  <1>4. TypeCoord
    BY DEF Init, TypeCoord
  <1>5. TypeInfer
    BY DEF Init, TypeInfer
  <1>6. HandlerInv
    <2>1. Busy = {}
      BY DEF Init, Busy
    <2>2. QED
      BY <2>1, FS_EmptySet, ServerAssumption DEF HandlerInv
  <1>7. JobInv /\ EngineInv /\ PhaseSettles
    BY DEF Init, JobInv, EngineInv, PhaseSettles, Serving
  <1>8. QED
    BY <1>1, <1>2, <1>3, <1>4, <1>5, <1>6, <1>7 DEF AdmissionInv

(* A handler that moves on, or stops, leaves no more handlers at work.     *)
LEMMA HandlerStep ==
    ASSUME HandlerInv, TypeConn, NEW c \in Conn, NEW v,
           hpc' = [hpc EXCEPT ![c] = v],
           v \in {"read", "wait", "cancel"} => hpc[c] \in {"read", "wait", "cancel"}
    PROVE  HandlerInv'
  <1>1. Busy' \subseteq Busy
    BY DEF Busy, TypeConn
  <1>2. QED
    BY <1>1, FS_Subset, FS_CardinalityType, ServerAssumption DEF HandlerInv

(* A step of the handlers that leaves Coordinator and executor alone.      *)
LEMMA CoordinatorUnchanged ==
    ASSUME TypeCoord, TypeInfer, JobInv, EngineInv, PhaseSettles, UNCHANGED <<coordVars, inferVars>>
    PROVE  TypeCoord' /\ TypeInfer' /\ JobInv' /\ EngineInv' /\ PhaseSettles'
  <1>1. UNCHANGED <<pending, active, stopping, ready, failed, phase, ipc, job, code, executor, dirty>>
    BY DEF coordVars, inferVars
  <1>2. QED
    BY <1>1 DEF TypeCoord, TypeInfer, JobInv, EngineInv, PhaseSettles, Serving

(* serve(): accepting, closing and joining.                                *)
LEMMA AdmissionMain ==
    ASSUME AdmissionInv, Shutdown \/ CloseSockets \/ Joined \/ Terminated
    PROVE  AdmissionInv'
  <1>0. /\ TypeMain /\ TypeConn /\ TypeJobs /\ TypeCoord /\ TypeInfer
        /\ HandlerInv /\ JobInv /\ EngineInv /\ PhaseSettles
    BY DEF AdmissionInv
  <1>1. CASE Shutdown
    <2>1. /\ mpc' = "sockets" /\ stopping' = TRUE
          /\ cancel' = [c \in Conn |-> cancel[c] \/ c = active]
          /\ UNCHANGED <<sockets, hpc, kind, gone, out, events, jdone, jcode, pushed,
                         pending, active, ready, failed, phase, ipc, job, code, executor, dirty>>
      BY <1>1 DEF Shutdown, connVars, inferVars
    <2>2. cancel' \in [Conn -> BOOLEAN]
      BY <2>1, Zenon
    <2>3. TypeMain' /\ TypeConn' /\ TypeInfer' /\ HandlerInv'
      BY <1>0, <2>1 DEF TypeMain, TypeConn, TypeInfer, HandlerInv, Busy
    <2>4. TypeJobs'
      BY <1>0, <2>1, <2>2 DEF TypeJobs
    <2>5. TypeCoord'
      BY <1>0, <2>1 DEF TypeCoord
    <2>6. JobInv' /\ EngineInv' /\ PhaseSettles'
      BY <1>0, <2>1 DEF JobInv, EngineInv, PhaseSettles, Serving
    <2>7. QED
      BY <2>3, <2>4, <2>5, <2>6 DEF AdmissionInv
  <1>2. CASE CloseSockets
    <2>1. /\ mpc' = "join" /\ sockets' = <<>>
          /\ hpc' = [c \in Conn |-> IF hpc[c] = "queued" THEN "closed" ELSE hpc[c]]
          /\ gone' = [c \in Conn |-> gone[c] \/ c \in Busy]
          /\ UNCHANGED <<kind, out>>
          /\ UNCHANGED <<cancel, events, jdone, jcode, pushed>> /\ UNCHANGED <<coordVars, inferVars>>
      BY <1>2 DEF CloseSockets, jobVars
    <2>2. gone' \in [Conn -> BOOLEAN]
      BY <2>1, Zenon
    <2>3. TypeMain'
      BY <2>1, ServerAssumption DEF TypeMain
    <2>4. TypeConn'
      BY <1>0, <2>1, <2>2 DEF TypeConn
    <2>5. TypeJobs'
      BY <1>0, <2>1 DEF TypeJobs
    <2>6. HandlerInv'
      <3>1. Busy' = Busy
        BY <1>0, <2>1 DEF Busy, TypeConn
      <3>2. QED
        BY <1>0, <3>1 DEF HandlerInv
    <2>7. QED
      BY <1>0, <2>1, <2>3, <2>4, <2>5, <2>6, CoordinatorUnchanged DEF AdmissionInv
  <1>3. CASE Joined \/ Terminated
    <2>1. /\ mpc' \in {"exited"} /\ UNCHANGED <<sockets, hpc, kind, gone, out>>
          /\ UNCHANGED <<cancel, events, jdone, jcode, pushed>> /\ UNCHANGED <<coordVars, inferVars>>
      BY <1>3 DEF Joined, Terminated, vars, mainVars, connVars, jobVars
    <2>2. TypeMain' /\ TypeConn' /\ HandlerInv'
      BY <1>0, <2>1 DEF TypeMain, TypeConn, HandlerInv, Busy
    <2>3. TypeJobs'
      BY <1>0, <2>1 DEF TypeJobs
    <2>4. QED
      BY <1>0, <2>1, <2>2, <2>3, CoordinatorUnchanged DEF AdmissionInv
  <1>4. QED
    BY <1>1, <1>2, <1>3

(* A connection reaches its handler.                                       *)
LEMMA AdmissionConnect ==
    ASSUME AdmissionInv, Dequeue \/ (\E c \in Conn : Accept(c) \/ Disconnect(c))
    PROVE  AdmissionInv'
  <1>0. /\ TypeMain /\ TypeConn /\ TypeJobs /\ TypeCoord /\ TypeInfer
        /\ HandlerInv /\ JobInv /\ EngineInv /\ PhaseSettles
    BY DEF AdmissionInv
  <1>1. UNCHANGED <<cancel, events, jdone, jcode, pushed>> /\ UNCHANGED <<coordVars, inferVars>>
    BY DEF Dequeue, Accept, Disconnect, jobVars
  <1>2. TypeJobs'
    BY <1>0, <1>1 DEF TypeJobs
  <1>3. TypeMain' /\ TypeConn' /\ HandlerInv'
    <2>1. CASE Dequeue
      <3>1. /\ sockets # <<>> /\ Cardinality(Busy) < Handlers
            /\ hpc' = [hpc EXCEPT ![Head(sockets)] = "read"] /\ sockets' = Tail(sockets)
            /\ UNCHANGED <<mpc, kind, gone, out>>
        BY <2>1 DEF Dequeue
      <3>2. Head(sockets) \in Conn
        BY <1>0, <3>1 DEF TypeMain
      <3>3. TypeMain'
        <4>1. sockets' \in Seq(Conn) /\ Len(sockets') = Len(sockets) - 1 /\ Len(sockets) \in Nat
          BY <1>0, <3>1, HeadTailProperties DEF TypeMain
        <4>2. QED
          BY <1>0, <3>1, <4>1, ServerAssumption DEF TypeMain
      <3>4. TypeConn'
        BY <1>0, <3>1, <3>2 DEF TypeConn
      <3>5. HandlerInv'
        <4>1. Busy' = Busy \cup {Head(sockets)}
          BY <1>0, <3>1, <3>2 DEF Busy, TypeConn
        <4>2. /\ IsFiniteSet(Busy')
              /\ Cardinality(Busy') = Cardinality(Busy) \/ Cardinality(Busy') = Cardinality(Busy) + 1
          BY <1>0, <4>1, FS_AddElement DEF HandlerInv
        <4>3. Cardinality(Busy) \in Nat
          BY <1>0, FS_CardinalityType DEF HandlerInv
        <4>4. QED
          BY <3>1, <4>2, <4>3, ServerAssumption DEF HandlerInv
      <3>6. QED
        BY <3>3, <3>4, <3>5
    <2>2. ASSUME NEW c \in Conn, Accept(c) PROVE TypeMain' /\ TypeConn' /\ HandlerInv'
      <3>0. mpc' = mpc /\ kind' = kind /\ gone' = gone
        BY <2>2 DEF Accept
      <3>1. CASE Len(sockets) < QueueLimit
        <4>1. sockets' = Append(sockets, c) /\ hpc' = [hpc EXCEPT ![c] = "queued"] /\ out' = out
          BY <2>2, <3>1 DEF Accept
        <4>2. Len(sockets') = Len(sockets) + 1 /\ sockets' \in Seq(Conn) /\ Len(sockets) \in Nat
          BY <1>0, <4>1, AppendProperties DEF TypeMain
        <4>3. TypeMain'
          BY <1>0, <3>0, <3>1, <4>2, ServerAssumption DEF TypeMain
        <4>4. TypeConn'
          BY <1>0, <3>0, <4>1 DEF TypeConn
        <4>5. QED
          BY <1>0, <4>1, <4>3, <4>4, HandlerStep
      <3>2. CASE ~(Len(sockets) < QueueLimit)
        <4>1. /\ sockets' = sockets /\ hpc' = [hpc EXCEPT ![c] = "closed"]
              /\ out' = [out EXCEPT ![c] = <<"refused">>]
          BY <2>2, <3>2 DEF Accept
        <4>2. TypeMain'
          BY <1>0, <3>0, <4>1 DEF TypeMain
        <4>3. TypeConn'
          BY <1>0, <3>0, <4>1 DEF TypeConn
        <4>4. QED
          BY <1>0, <4>1, <4>2, <4>3, HandlerStep
      <3>3. QED
        BY <3>1, <3>2
    <2>3. ASSUME NEW c \in Conn, Disconnect(c) PROVE TypeMain' /\ TypeConn' /\ HandlerInv'
      <3>1. gone' = [gone EXCEPT ![c] = TRUE] /\ UNCHANGED <<mpc, sockets, hpc, kind, out>>
        BY <2>3 DEF Disconnect, mainVars
      <3>2. gone' \in [Conn -> BOOLEAN]
        BY <1>0, <3>1 DEF TypeConn
      <3>3. QED
        BY <1>0, <3>1, <3>2 DEF TypeMain, TypeConn, HandlerInv, Busy
    <2>4. QED
      BY <2>1, <2>2, <2>3
  <1>4. QED
    BY <1>0, <1>1, <1>2, <1>3, CoordinatorUnchanged DEF AdmissionInv

(* Closing a connection after a last write.                                *)
LEMMA CloseTypes ==
    ASSUME TypeConn, HandlerInv, NEW c \in Conn,
           NEW w \in Seq(Item \cup {"error", "done", "ok", "refused"}), Close(c, w), UNCHANGED <<kind, gone>>
    PROVE  TypeConn' /\ HandlerInv'
  <1>1. hpc' = [hpc EXCEPT ![c] = "closed"] /\ out' = [out EXCEPT ![c] = out[c] \o w]
    BY DEF Close
  <1>2. out[c] \o w \in Seq(Item \cup {"error", "done", "ok", "refused"})
    BY ConcatProperties DEF TypeConn
  <1>3. TypeConn'
    BY <1>1, <1>2 DEF TypeConn
  <1>4. QED
    BY <1>1, <1>3, HandlerStep

(* What the handler writes last is one or two of the known words.          *)
LEMMA EndingType ==
    ASSUME NEW b \in BOOLEAN, NEW r \in {"ok", "error"}
    PROVE  Ending(b, r) \in Seq(Item \cup {"error", "done", "ok", "refused"})
  <1>1. CASE b
    <2>1. Ending(b, r) \in {<<"done">>, <<"error", "done">>}
      BY <1>1 DEF Ending
    <2>2. <<"done">> \in Seq(Item \cup {"error", "done", "ok", "refused"})
      OBVIOUS
    <2>3. <<"error", "done">> \in Seq(Item \cup {"error", "done", "ok", "refused"})
      OBVIOUS
    <2>4. QED
      BY <2>1, <2>2, <2>3
  <1>2. CASE ~b
    <2>1. Ending(b, r) = <<r>>
      BY <1>2 DEF Ending
    <2>2. QED
      BY <2>1
  <1>3. QED
    BY <1>1, <1>2

(* What is taken off the queue of events, and what stays in it.            *)
LEMMA HeadOrNothing ==
    ASSUME NEW s \in Seq(Item)
    PROVE  LET item == IF s = <<>> THEN <<>> ELSE <<Head(s)>>
               rest == IF s = <<>> THEN <<>> ELSE Tail(s)
           IN  item \in Seq(Item) /\ rest \in Seq(Item) /\ Len(rest) <= Len(s)
  <1>1. CASE s = <<>>
    BY <1>1
  <1>2. CASE s # <<>>
    <2>1. Head(s) \in Item /\ Tail(s) \in Seq(Item) /\ Len(Tail(s)) = Len(s) - 1 /\ Len(s) \in Nat
      BY <1>2, HeadTailProperties
    <2>2. QED
      BY <1>2, <2>1
  <1>3. QED
    BY <1>1, <1>2

(* A handler that relays events, gives up or throws touches no more than   *)
(* its own connection and job.                                             *)
LEMMA AdmissionRelay ==
    ASSUME AdmissionInv, NEW c \in Conn,
           Relay(c) \/ SeesDisconnect(c) \/ WriteFails(c) \/ HandleThrows(c)
    PROVE  AdmissionInv'
  <1>0. /\ TypeMain /\ TypeConn /\ TypeJobs /\ TypeCoord /\ TypeInfer
        /\ HandlerInv /\ JobInv /\ EngineInv /\ PhaseSettles
    BY DEF AdmissionInv
  <1>1. /\ UNCHANGED <<mpc, sockets>> /\ UNCHANGED <<kind, gone>> /\ UNCHANGED <<jdone, jcode, pushed>>
        /\ UNCHANGED <<coordVars, inferVars>> /\ hpc[c] = "wait"
    BY DEF Relay, SeesDisconnect, WriteFails, HandleThrows, StartCancel, mainVars
  <1>2. TypeMain'
    BY <1>0, <1>1 DEF TypeMain
  <1>3. TypeConn' /\ HandlerInv' /\ TypeJobs'
    <2>0. events[c] \in Seq(Item) /\ Len(events[c]) <= StreamLimit /\ jcode[c] \in {"ok", "error"}
      BY <1>0 DEF TypeJobs
    <2>1. CASE Relay(c)
      <3> DEFINE item == IF events[c] = <<>> THEN <<>> ELSE <<Head(events[c])>>
                 rest == IF events[c] = <<>> THEN <<>> ELSE Tail(events[c])
      <3>1. /\ events' = [events EXCEPT ![c] = rest] /\ cancel' = cancel
            /\ IF jdone[c] /\ rest = <<>>
               THEN Close(c, item \o Ending(out[c] \o item # <<>>, jcode[c]))
               ELSE out' = [out EXCEPT ![c] = out[c] \o item] /\ UNCHANGED hpc
        BY <2>1 DEF Relay
      <3>2. item \in Seq(Item) /\ rest \in Seq(Item) /\ Len(rest) <= Len(events[c])
        BY <2>0, HeadOrNothing
      <3> HIDE DEF item, rest
      <3>3. item \in Seq(Item \cup {"error", "done", "ok", "refused"})
        BY <3>2
      <3>4. TypeJobs'
        <4>1. Len(rest) <= StreamLimit
          BY <2>0, <3>2, ServerAssumption
        <4>2. QED
          BY <1>0, <1>1, <3>1, <3>2, <4>1 DEF TypeJobs
      <3>5. TypeConn' /\ HandlerInv'
        <4>1. CASE jdone[c] /\ rest = <<>>
          <5> DEFINE w == item \o Ending(out[c] \o item # <<>>, jcode[c])
          <5>1. w \in Seq(Item \cup {"error", "done", "ok", "refused"})
            BY <2>0, <3>3, EndingType, ConcatProperties
          <5>2. Close(c, w)
            BY <3>1, <4>1
          <5>3. UNCHANGED <<kind, gone>>
            BY <1>1
          <5> HIDE DEF w
          <5>4. QED
            BY <1>0, <5>1, <5>2, <5>3, CloseTypes
        <4>2. CASE ~(jdone[c] /\ rest = <<>>)
          <5>1. out' = [out EXCEPT ![c] = out[c] \o item] /\ hpc' = hpc
            BY <3>1, <4>2
          <5>2. out[c] \o item \in Seq(Item \cup {"error", "done", "ok", "refused"})
            BY <1>0, <3>3, ConcatProperties DEF TypeConn
          <5>3. QED
            BY <1>0, <1>1, <5>1, <5>2 DEF TypeConn, HandlerInv, Busy
        <4>3. QED
          BY <4>1, <4>2
      <3>6. QED
        BY <3>4, <3>5
    <2>2. CASE SeesDisconnect(c) \/ WriteFails(c)
      <3>1. /\ cancel' = [cancel EXCEPT ![c] = TRUE] /\ hpc' = [hpc EXCEPT ![c] = "cancel"]
            /\ out' = out
            /\ events' = events \/ (events[c] # <<>> /\ events' = [events EXCEPT ![c] = Tail(events[c])])
        BY <2>2 DEF SeesDisconnect, WriteFails, StartCancel
      <3>2. TypeConn'
        BY <1>0, <1>1, <3>1 DEF TypeConn
      <3>3. HandlerInv'
        BY <1>0, <1>1, <3>1, HandlerStep
      <3>4. TypeJobs'
        <4>1. cancel' \in [Conn -> BOOLEAN]
          BY <1>0, <3>1 DEF TypeJobs
        <4>2. events[c] # <<>> => Tail(events[c]) \in Seq(Item) /\ Len(Tail(events[c])) <= StreamLimit
          BY <2>0, HeadTailProperties, ServerAssumption
        <4>3. events' \in [Conn -> Seq(Item)] /\ \A d \in Conn : Len(events'[d]) <= StreamLimit
          BY <1>0, <3>1, <4>2 DEF TypeJobs
        <4>4. QED
          BY <1>0, <1>1, <4>1, <4>3 DEF TypeJobs
      <3>5. QED
        BY <3>2, <3>3, <3>4
    <2>3. CASE HandleThrows(c)
      <3>1. /\ cancel' = [cancel EXCEPT ![c] = cancel[c] \/ active = c] /\ events' = events
            /\ Close(c, IF out[c] = <<>> THEN <<"error">> ELSE <<>>)
        BY <2>3 DEF HandleThrows
      <3>2. (IF out[c] = <<>> THEN <<"error">> ELSE <<>>) \in Seq(Item \cup {"error", "done", "ok", "refused"})
        <4>1. <<"error">> \in Seq(Item \cup {"error", "done", "ok", "refused"})
          OBVIOUS
        <4>2. <<>> \in Seq(Item \cup {"error", "done", "ok", "refused"})
          OBVIOUS
        <4>3. QED
          BY <4>1, <4>2
      <3>3. TypeConn' /\ HandlerInv'
        BY <1>0, <1>1, <3>1, <3>2, CloseTypes
      <3>4. cancel' \in [Conn -> BOOLEAN]
        <4>1. (cancel[c] \/ active = c) \in BOOLEAN
          BY Zenon
        <4>2. QED
          BY <1>0, <3>1, <4>1 DEF TypeJobs
      <3>5. TypeJobs'
        BY <1>0, <1>1, <3>1, <3>4 DEF TypeJobs
      <3>6. QED
        BY <3>3, <3>5
    <2>4. QED
      BY <2>1, <2>2, <2>3
  <1>4. QED
    BY <1>0, <1>1, <1>2, <1>3, CoordinatorUnchanged DEF AdmissionInv

(* A request is refused, admitted or, once cancelled, given up.            *)
LEMMA AdmissionRequest ==
    ASSUME AdmissionInv, NEW c \in Conn, Answer(c) \/ Admit(c) \/ EndCancel(c)
    PROVE  AdmissionInv'
  <1>0. /\ TypeMain /\ TypeConn /\ TypeJobs /\ TypeCoord /\ TypeInfer
        /\ HandlerInv /\ JobInv /\ EngineInv /\ PhaseSettles
    BY DEF AdmissionInv
  <1>1. /\ UNCHANGED <<mpc, sockets>> /\ UNCHANGED <<kind, gone>>
        /\ UNCHANGED <<cancel, events, jdone, jcode, pushed>> /\ UNCHANGED <<stopping, ready, failed>>
        /\ UNCHANGED <<ipc, job, code, executor, dirty>>
    BY DEF Answer, Admit, EndCancel, mainVars, jobVars, coordVars, inferVars
  <1>2. TypeMain'
    BY <1>0, <1>1 DEF TypeMain
  <1>3. TypeJobs' /\ TypeInfer'
    BY <1>0, <1>1 DEF TypeJobs, TypeInfer
  <1>4. CASE Close(c, <<"refused">>) /\ UNCHANGED <<pending, active, phase>>
    <2>0. <<"refused">> \in Seq(Item \cup {"error", "done", "ok", "refused"})
      OBVIOUS
    <2>1. TypeConn' /\ HandlerInv'
      BY <1>0, <1>1, <1>4, <2>0, CloseTypes
    <2>2. UNCHANGED <<coordVars, inferVars>>
      BY <1>1, <1>4 DEF coordVars, inferVars
    <2>3. QED
      BY <1>0, <1>2, <1>3, <2>1, <2>2, CoordinatorUnchanged DEF AdmissionInv
  <1>5. CASE /\ hpc[c] = "read" /\ ~(Unavailable \/ active # None)
             /\ hpc' = [hpc EXCEPT ![c] = "wait"] /\ out' = out
             /\ active' = c /\ pending' = c /\ phase' = "preparing"
    <2>1. TypeConn'
      BY <1>0, <1>1, <1>5 DEF TypeConn
    <2>2. HandlerInv'
      BY <1>0, <1>5, HandlerStep
    <2>3. TypeCoord'
      BY <1>0, <1>1, <1>5 DEF TypeCoord
    <2>4. ~stopping /\ ~failed /\ ready /\ active = None /\ c # None
      BY <1>5, ServerAssumption DEF Unavailable
    <2>5. ~Serving /\ ipc \in {"idle", "publish"} /\ pending = None
      BY <1>0, <2>4, ServerAssumption DEF JobInv, EngineInv, TypeInfer, Serving
    <2>6. JobInv' /\ PhaseSettles'
      BY <1>0, <1>1, <1>5, <2>4, <2>5 DEF JobInv, PhaseSettles, Serving
    <2>7. EngineInv'
      BY <1>0, <1>1, <1>5, <2>4, <2>5 DEF EngineInv
    <2>8. QED
      BY <1>2, <1>3, <2>1, <2>2, <2>3, <2>6, <2>7 DEF AdmissionInv
  <1>6. CASE EndCancel(c)
    <2>1. /\ phase' = IF active = c THEN "cancelling" ELSE phase
          /\ hpc' = [hpc EXCEPT ![c] = "closed"] /\ UNCHANGED <<out, pending, active>>
      BY <1>6 DEF EndCancel
    <2>2. TypeConn'
      BY <1>0, <1>1, <2>1 DEF TypeConn
    <2>3. HandlerInv'
      BY <1>0, <2>1, HandlerStep
    <2>4. TypeCoord'
      BY <1>0, <1>1, <2>1 DEF TypeCoord
    <2>5. JobInv' /\ PhaseSettles'
      BY <1>0, <1>1, <2>1, ServerAssumption DEF JobInv, PhaseSettles, Serving
    <2>6. EngineInv'
      BY <1>0, <1>1, <2>1, ServerAssumption DEF JobInv, EngineInv, Serving
    <2>7. QED
      BY <1>2, <1>3, <2>2, <2>3, <2>4, <2>5, <2>6 DEF AdmissionInv
  <1>7. QED
    BY <1>4, <1>5, <1>6 DEF Answer, Admit, coordVars

(* inference(): startup, one job after another, and the end.               *)
LEMMA AdmissionIdle ==
    ASSUME AdmissionInv, Initialized \/ InitializeThrows \/ TakeJob \/ Exit \/ Release \/ Publish
    PROVE  AdmissionInv'
  <1>0. /\ TypeMain /\ TypeConn /\ TypeJobs /\ TypeCoord /\ TypeInfer
        /\ HandlerInv /\ JobInv /\ EngineInv /\ PhaseSettles
    BY DEF AdmissionInv
  <1>1. /\ UNCHANGED <<mpc, sockets>> /\ UNCHANGED <<hpc, kind, gone, out>>
        /\ UNCHANGED <<cancel, events, pushed>> /\ stopping' = stopping
    BY DEF Initialized, InitializeThrows, TakeJob, Exit, Release, Publish, mainVars, connVars,
           jobVars, coordVars
  <1>2. TypeMain' /\ TypeConn' /\ HandlerInv'
    BY <1>0, <1>1 DEF TypeMain, TypeConn, HandlerInv, Busy
  <1>3. TypeJobs'
    <2>1. CASE Publish
      <3>1. jdone' = [jdone EXCEPT ![job] = TRUE] /\ jcode' = [jcode EXCEPT ![job] = code] /\ job \in Conn
        BY <1>0, <2>1 DEF Publish, JobInv
      <3>2. jdone' \in [Conn -> BOOLEAN] /\ jcode' \in [Conn -> {"ok", "error"}]
        BY <1>0, <3>1 DEF TypeJobs, TypeInfer
      <3>3. QED
        BY <1>0, <1>1, <3>2 DEF TypeJobs
    <2>2. CASE ~Publish
      <3>1. UNCHANGED <<jdone, jcode>>
        BY <2>2 DEF Initialized, InitializeThrows, TakeJob, Exit, Release, jobVars
      <3>2. QED
        BY <1>0, <1>1, <3>1 DEF TypeJobs
    <2>3. QED
      BY <2>1, <2>2
  <1>4. TypeCoord' /\ TypeInfer' /\ JobInv' /\ EngineInv' /\ PhaseSettles'
    <2>1. CASE Initialized
      <3>1. /\ ipc = "init" /\ ipc' = "idle" /\ executor' = "up" /\ ready' = TRUE /\ phase' = "ready"
            /\ UNCHANGED <<pending, active, failed, job, code, dirty>>
        BY <2>1 DEF Initialized
      <3>2. ~failed /\ ~dirty
        BY <1>0, <3>1 DEF EngineInv
      <3>3. TypeCoord' /\ TypeInfer'
        BY <1>0, <1>1, <3>1 DEF TypeCoord, TypeInfer
      <3>4. JobInv' /\ PhaseSettles'
        BY <1>0, <3>1, <3>2 DEF JobInv, PhaseSettles, Serving
      <3>5. EngineInv'
        BY <1>0, <3>1, <3>2 DEF EngineInv
      <3>6. QED
        BY <3>3, <3>4, <3>5
    <2>2. CASE InitializeThrows
      <3>1. /\ ipc = "init" /\ ipc' = "idle" /\ executor' = "none" /\ failed' = TRUE /\ phase' = "failed"
            /\ UNCHANGED <<pending, active, ready, job, code, dirty>>
        BY <2>2 DEF InitializeThrows
      <3>2. ~ready /\ ~dirty /\ pending = None
        BY <1>0, <3>1 DEF EngineInv, JobInv
      <3>3. TypeCoord' /\ TypeInfer'
        BY <1>0, <1>1, <3>1 DEF TypeCoord, TypeInfer
      <3>4. JobInv' /\ PhaseSettles'
        BY <1>0, <3>1, <3>2 DEF JobInv, PhaseSettles, Serving
      <3>5. EngineInv'
        <4>1. ready' = FALSE /\ failed' = TRUE
          BY <1>0, <3>1, <3>2 DEF TypeCoord
        <4>2. QED
          BY <1>0, <3>1, <3>2, <4>1 DEF EngineInv
      <3>6. QED
        BY <3>3, <3>4, <3>5
    <2>3. CASE TakeJob
      <3>1. /\ ipc = "idle" /\ pending # None /\ ipc' = "start" /\ job' = pending /\ pending' = None
            /\ UNCHANGED <<active, ready, failed, phase, code, executor, dirty>>
        BY <2>3 DEF TakeJob
      <3>2. ~failed /\ ~dirty /\ active = pending /\ pending \in Conn
        BY <1>0, <3>1 DEF EngineInv, JobInv, Serving, TypeCoord
      <3>3. ready /\ executor = "up"
        BY <1>0, <3>1, <3>2 DEF EngineInv
      <3>4. TypeCoord' /\ TypeInfer'
        BY <1>0, <1>1, <3>1 DEF TypeCoord, TypeInfer
      <3>5. JobInv' /\ PhaseSettles'
        BY <1>0, <3>1, <3>2, ServerAssumption DEF JobInv, PhaseSettles, Serving
      <3>6. EngineInv'
        BY <1>0, <3>1, <3>2, <3>3 DEF EngineInv
      <3>7. QED
        BY <3>4, <3>5, <3>6
    <2>4. CASE Exit
      <3>1. /\ ipc = "idle" /\ stopping /\ pending = None /\ ipc' = "exited" /\ executor' = "none"
            /\ dirty' = FALSE /\ UNCHANGED <<pending, active, ready, failed, phase, job, code>>
        BY <2>4 DEF Exit, coordVars
      <3>2. TypeCoord' /\ TypeInfer'
        BY <1>0, <1>1, <3>1 DEF TypeCoord, TypeInfer
      <3>3. JobInv' /\ PhaseSettles'
        BY <1>0, <3>1 DEF JobInv, PhaseSettles, Serving
      <3>4. EngineInv'
        BY <1>0, <1>1, <3>1 DEF EngineInv
      <3>5. QED
        BY <3>2, <3>3, <3>4
    <2>5. CASE Release
      <3>1. /\ ipc = "release" /\ ipc' = "publish" /\ phase' = (IF failed THEN "failed" ELSE "ready")
            /\ active' = None /\ UNCHANGED <<pending, ready, failed, job, code, executor, dirty>>
        BY <2>5 DEF Release
      <3>2. pending = None /\ job \in Conn /\ ready = ~failed
        BY <1>0, <3>1 DEF JobInv, EngineInv, Serving
      <3>3. TypeCoord' /\ TypeInfer'
        BY <1>0, <1>1, <3>1 DEF TypeCoord, TypeInfer
      <3>4. JobInv' /\ PhaseSettles'
        BY <1>0, <3>1, <3>2 DEF JobInv, PhaseSettles, Serving, TypeCoord
      <3>5. EngineInv'
        BY <1>0, <1>1, <3>1, <3>2 DEF EngineInv
      <3>6. QED
        BY <3>3, <3>4, <3>5
    <2>6. CASE Publish
      <3>1. /\ ipc = "publish" /\ ipc' = "idle" /\ code' = "ok"
            /\ UNCHANGED <<pending, active, ready, failed, phase, job, executor, dirty>>
        BY <2>6 DEF Publish, coordVars
      <3>2. TypeCoord' /\ TypeInfer'
        BY <1>0, <1>1, <3>1 DEF TypeCoord, TypeInfer
      <3>3. JobInv' /\ PhaseSettles'
        BY <1>0, <3>1 DEF JobInv, PhaseSettles, Serving
      <3>4. EngineInv'
        BY <1>0, <1>1, <3>1 DEF EngineInv
      <3>5. QED
        BY <3>2, <3>3, <3>4
    <2>7. QED
      BY <2>1, <2>2, <2>3, <2>4, <2>5, <2>6
  <1>5. QED
    BY <1>2, <1>3, <1>4 DEF AdmissionInv

(* inference(): the job in hand, from its start to its recovery.           *)
LEMMA AdmissionServing ==
    ASSUME AdmissionInv,
           \/ StartJob \/ Delta \/ Progress \/ GenerateReturns \/ GenerateThrows \/ BeginDrain
           \/ Drained \/ DrainThrows \/ Announce \/ Recovered \/ RecoverThrows
    PROVE  AdmissionInv'
  <1>0. /\ TypeMain /\ TypeConn /\ TypeJobs /\ TypeCoord /\ TypeInfer
        /\ HandlerInv /\ JobInv /\ EngineInv /\ PhaseSettles
    BY DEF AdmissionInv
  <1>1. /\ UNCHANGED <<mpc, sockets>> /\ UNCHANGED <<hpc, kind, gone, out>> /\ UNCHANGED <<jdone, jcode>>
        /\ UNCHANGED <<pending, active, stopping>> /\ UNCHANGED <<job, executor>>
        /\ ipc \in {"start", "run", "settle", "drain", "announce", "recover"}
    BY DEF StartJob, Delta, Progress, GenerateReturns, GenerateThrows, BeginDrain, Drained, DrainThrows,
           Announce, Recovered, RecoverThrows, Fails, Settle, mainVars, connVars, jobVars, coordVars, inferVars
  <1>2. TypeMain' /\ TypeConn' /\ HandlerInv'
    BY <1>0, <1>1 DEF TypeMain, TypeConn, HandlerInv, Busy
  <1>3. job \in Conn /\ Serving /\ active = job /\ pending = None /\ ~failed /\ ready /\ executor = "up"
    BY <1>0, <1>1 DEF JobInv, EngineInv, Serving
  <1>4. ipc' \in {"run", "settle", "drain", "announce", "recover", "release"} /\ code' \in {"ok", "error"}
    BY <1>0 DEF StartJob, Delta, Progress, GenerateReturns, GenerateThrows, BeginDrain, Drained, DrainThrows,
           Announce, Recovered, RecoverThrows, Fails, Settle, inferVars, TypeInfer
  <1>5. \/ failed' = TRUE /\ ready' = FALSE /\ ipc' = "release"
        \/ failed' = failed /\ ready' = ready
    BY DEF StartJob, Delta, Progress, GenerateReturns, GenerateThrows, BeginDrain, Drained, DrainThrows,
           Announce, Recovered, RecoverThrows, Fails, coordVars
  <1>6. phase' \in {phase, "generating", "draining"}
    BY DEF StartJob, Delta, Progress, GenerateReturns, GenerateThrows, BeginDrain, Drained, DrainThrows,
           Announce, Recovered, RecoverThrows, Fails, coordVars
  <1>7. dirty' \in BOOLEAN /\ (dirty' => failed' \/ ipc' \in {"run", "settle", "drain"})
    <2>1. CASE StartJob
      BY <1>0, <2>1 DEF StartJob, Settle, EngineInv, TypeInfer
    <2>2. CASE Delta \/ Progress \/ GenerateReturns \/ GenerateThrows \/ BeginDrain
      BY <1>0, <2>2 DEF Delta, Progress, GenerateReturns, GenerateThrows, BeginDrain, Settle, TypeInfer, inferVars
    <2>3. CASE Drained
      BY <2>3 DEF Drained
    <2>4. CASE DrainThrows \/ RecoverThrows
      BY <1>0, <2>4 DEF DrainThrows, RecoverThrows, Fails, TypeInfer
    <2>5. CASE Announce \/ Recovered
      <3>1. dirty' = dirty /\ ipc \in {"announce", "recover"}
        BY <2>5 DEF Announce, Recovered
      <3>2. QED
        BY <1>0, <1>3, <3>1 DEF EngineInv, TypeInfer
    <2>6. QED
      BY <2>1, <2>2, <2>3, <2>4, <2>5
  <1>8. TypeJobs'
    <2>1. cancel' = cancel \/ cancel' = [cancel EXCEPT ![job] = TRUE]
      BY DEF StartJob, Delta, Progress, GenerateReturns, GenerateThrows, BeginDrain, Drained, DrainThrows,
             Announce, Recovered, RecoverThrows, Fails, jobVars
    <2>2. cancel' \in [Conn -> BOOLEAN]
      BY <1>0, <1>3, <2>1 DEF TypeJobs
    <2>3. \/ events' = events
          \/ /\ ~Refuses(job)
             /\ \E x \in Item : events' = [events EXCEPT ![job] = Append(events[job], x)]
      BY DEF StartJob, Delta, Progress, GenerateReturns, GenerateThrows, BeginDrain, Drained, DrainThrows,
             Announce, Recovered, RecoverThrows, Fails, jobVars, Item
    <2>4. events' \in [Conn -> Seq(Item)] /\ \A c \in Conn : Len(events'[c]) <= StreamLimit
      <3>1. CASE events' = events
        BY <1>0, <3>1 DEF TypeJobs
      <3>2. CASE /\ ~Refuses(job)
                 /\ \E x \in Item : events' = [events EXCEPT ![job] = Append(events[job], x)]
        <4>1. PICK x \in Item : events' = [events EXCEPT ![job] = Append(events[job], x)]
          BY <3>2
        <4>2. events[job] \in Seq(Item) /\ Len(events[job]) < StreamLimit /\ Len(events[job]) \in Nat
          BY <1>0, <1>3, <3>2, ServerAssumption DEF TypeJobs, Refuses
        <4>3. /\ Append(events[job], x) \in Seq(Item)
              /\ Len(Append(events[job], x)) = Len(events[job]) + 1
          BY <4>2, AppendProperties
        <4>4. Len(Append(events[job], x)) <= StreamLimit
          BY <4>2, <4>3, ServerAssumption
        <4>5. QED
          BY <1>0, <1>3, <4>1, <4>3, <4>4 DEF TypeJobs
      <3>3. QED
        BY <2>3, <3>1, <3>2
    <2>5. pushed' \in [Conn -> 0 .. MaxDeltas]
      <3>1. \/ pushed' = pushed
            \/ pushed[job] < MaxDeltas /\ pushed' = [pushed EXCEPT ![job] = pushed[job] + 1]
        BY DEF StartJob, Delta, Progress, GenerateReturns, GenerateThrows, BeginDrain, Drained, DrainThrows,
               Announce, Recovered, RecoverThrows, Fails, jobVars
      <3>2. pushed[job] \in Nat /\ MaxDeltas \in Nat
        BY <1>0, <1>3, ServerAssumption DEF TypeJobs
      <3>3. pushed[job] < MaxDeltas => pushed[job] + 1 \in 0 .. MaxDeltas
        BY <3>2
      <3>4. QED
        BY <1>0, <1>3, <3>1, <3>3 DEF TypeJobs
    <2>6. QED
      BY <1>0, <1>1, <2>2, <2>4, <2>5 DEF TypeJobs
  <1>9. TypeCoord' /\ TypeInfer'
    <2>1. ready' \in BOOLEAN /\ failed' \in BOOLEAN
      BY <1>0, <1>5 DEF TypeCoord
    <2>2. QED
      BY <1>0, <1>1, <1>4, <1>6, <1>7, <2>1 DEF TypeCoord, TypeInfer
  <1>10. JobInv' /\ PhaseSettles'
    BY <1>0, <1>1, <1>3, <1>4, ServerAssumption DEF JobInv, PhaseSettles, Serving
  <1>11. EngineInv'
    <2>0. failed = FALSE /\ ready = TRUE
      BY <1>0, <1>3, Zenon DEF TypeCoord
    <2>1. \/ failed' = TRUE /\ ready' = FALSE /\ ipc' = "release"
          \/ failed' = FALSE /\ ready' = TRUE
      BY <1>5, <2>0
    <2>2. QED
      BY <1>1, <1>3, <1>4, <1>7, <2>1 DEF EngineInv
  <1>12. QED
    BY <1>2, <1>8, <1>9, <1>10, <1>11 DEF AdmissionInv

(* Every step of the server keeps the admission invariant.                 *)
LEMMA AdmissionStep == AdmissionInv /\ [Next]_vars => AdmissionInv'
  <1> SUFFICES ASSUME AdmissionInv, [Next]_vars PROVE AdmissionInv'
    OBVIOUS
  <1>1. CASE Next
    BY <1>1, AdmissionMain, AdmissionConnect, AdmissionRelay, AdmissionRequest, AdmissionIdle,
       AdmissionServing DEF Next, Handle, Inference
  <1>2. CASE UNCHANGED vars
    <2>1. /\ UNCHANGED <<mpc, sockets>> /\ UNCHANGED <<hpc, kind, gone, out>>
          /\ UNCHANGED <<cancel, events, jdone, jcode, pushed>> /\ UNCHANGED <<coordVars, inferVars>>
      BY <1>2 DEF vars, mainVars, connVars, jobVars
    <2>2. TypeMain' /\ TypeConn' /\ HandlerInv'
      BY <2>1 DEF AdmissionInv, TypeMain, TypeConn, HandlerInv, Busy
    <2>3. TypeJobs'
      BY <2>1 DEF AdmissionInv, TypeJobs
    <2>4. QED
      BY <2>1, <2>2, <2>3, CoordinatorUnchanged DEF AdmissionInv
  <1>3. QED
    BY <1>1, <1>2

(* A generation is admitted only on a loaded, drained engine, and the      *)
(* phase of the status endpoint says which: Coordinator::admit against     *)
(* every order of startup, failing drains, cancellations and shutdown.     *)
THEOREM AdmissionCorrect == Spec => []AdmissionExact
  <1>1. Spec => []AdmissionInv
    BY AdmissionInit, AdmissionStep, PTL DEF Spec
  <1>2. QED
    BY <1>1, AdmissionFollows, PTL
-----------------------------------------------------------------------------
(* What is in a sequence after one is joined to it, or its head is taken.  *)
LEMMA HasConcat ==
    ASSUME NEW S, NEW s \in Seq(S), NEW t \in Seq(S), NEW x
    PROVE  Has(s \o t, x) <=> Has(s, x) \/ Has(t, x)
  <1>1. /\ Len(s \o t) = Len(s) + Len(t) /\ Len(s) \in Nat /\ Len(t) \in Nat
        /\ \A i \in 1 .. Len(s) + Len(t) : (s \o t)[i] = IF i <= Len(s) THEN s[i] ELSE t[i - Len(s)]
    BY ConcatProperties
  <1>2. ASSUME Has(s \o t, x) PROVE Has(s, x) \/ Has(t, x)
    <2>1. PICK i \in 1 .. Len(s) + Len(t) : (s \o t)[i] = x
      BY <1>1, <1>2 DEF Has
    <2>2. CASE i <= Len(s)
      BY <1>1, <2>1, <2>2 DEF Has
    <2>3. CASE ~(i <= Len(s))
      <3>1. i - Len(s) \in 1 .. Len(t) /\ t[i - Len(s)] = x
        BY <1>1, <2>1, <2>3
      <3>2. QED
        BY <3>1 DEF Has
    <2>4. QED
      BY <2>2, <2>3
  <1>3. ASSUME Has(s, x) PROVE Has(s \o t, x)
    <2>1. PICK i \in 1 .. Len(s) : s[i] = x
      BY <1>3 DEF Has
    <2>2. i \in 1 .. Len(s) + Len(t) /\ (s \o t)[i] = x
      BY <1>1, <2>1
    <2>3. QED
      BY <1>1, <2>2 DEF Has
  <1>4. ASSUME Has(t, x) PROVE Has(s \o t, x)
    <2>1. PICK i \in 1 .. Len(t) : t[i] = x
      BY <1>4 DEF Has
    <2>2. /\ i + Len(s) \in 1 .. Len(s) + Len(t) /\ ~(i + Len(s) <= Len(s))
          /\ (i + Len(s)) - Len(s) = i
      BY <1>1, <2>1
    <2>3. (s \o t)[i + Len(s)] = x
      BY <1>1, <2>1, <2>2
    <2>4. QED
      BY <1>1, <2>2, <2>3 DEF Has
  <1>5. QED
    BY <1>2, <1>3, <1>4

(* A word of a queue is its head or in its tail.                           *)
LEMMA HasTail ==
    ASSUME NEW S, NEW s \in Seq(S), s # <<>>, NEW x
    PROVE  Has(s, x) <=> Head(s) = x \/ Has(Tail(s), x)
  <1>1. /\ Len(Tail(s)) = Len(s) - 1 /\ Len(s) \in Nat /\ Len(s) > 0 /\ Head(s) = s[1]
        /\ \A i \in 1 .. Len(Tail(s)) : Tail(s)[i] = s[i + 1]
    BY HeadTailProperties, EmptySeq
  <1>2. ASSUME Has(s, x) PROVE Head(s) = x \/ Has(Tail(s), x)
    <2>1. PICK i \in 1 .. Len(s) : s[i] = x
      BY <1>2 DEF Has
    <2>2. CASE i = 1
      BY <1>1, <2>1, <2>2
    <2>3. CASE i # 1
      <3>1. i - 1 \in 1 .. Len(Tail(s)) /\ (i - 1) + 1 = i
        BY <1>1, <2>1, <2>3
      <3>2. Tail(s)[i - 1] = x
        BY <1>1, <2>1, <3>1
      <3>3. QED
        BY <3>1, <3>2 DEF Has
    <2>4. QED
      BY <2>2, <2>3
  <1>3. ASSUME Has(Tail(s), x) PROVE Has(s, x)
    <2>1. PICK i \in 1 .. Len(Tail(s)) : Tail(s)[i] = x
      BY <1>3 DEF Has
    <2>2. i + 1 \in 1 .. Len(s) /\ s[i + 1] = x
      BY <1>1, <2>1
    <2>3. QED
      BY <2>2 DEF Has
  <1>4. ASSUME Head(s) = x PROVE Has(s, x)
    BY <1>1, <1>4 DEF Has
  <1>5. QED
    BY <1>2, <1>3, <1>4

(* A word pushed is the new one, the others stay.                          *)
LEMMA HasAppend ==
    ASSUME NEW S, NEW s \in Seq(S), NEW y \in S, NEW x
    PROVE  Has(Append(s, y), x) <=> Has(s, x) \/ x = y
  <1>1. /\ Len(Append(s, y)) = Len(s) + 1 /\ Len(s) \in Nat /\ Append(s, y)[Len(s) + 1] = y
        /\ \A i \in 1 .. Len(s) : Append(s, y)[i] = s[i]
    BY AppendProperties
  <1>2. QED
    BY <1>1 DEF Has

(* A queue of one word.                                                    *)
LEMMA HasOne ==
    ASSUME NEW y, NEW x
    PROVE  (Has(<<y>>, x) <=> x = y) /\ ~Has(<<>>, x)
  <1>1. Len(<<y>>) = 1 /\ <<y>>[1] = y /\ Len(<<>>) = 0
    OBVIOUS
  <1>2. QED
    BY <1>1 DEF Has

(* A queue of two words.                                                   *)
LEMMA HasTwo ==
    ASSUME NEW y, NEW z, NEW x
    PROVE  Has(<<y, z>>, x) <=> x = y \/ x = z
  <1>1. Len(<<y, z>>) = 2 /\ <<y, z>>[1] = y /\ <<y, z>>[2] = z
    OBVIOUS
  <1>2. QED
    BY <1>1 DEF Has

(* Taking an event off the queue and writing it says nothing new.          *)
LEMMA SaidMoves ==
    ASSUME NEW S, NEW a \in Seq(S), NEW s \in Seq(S), s # <<>>
    PROVE  (a \o <<Head(s)>>) \o Tail(s) = a \o s
  <1>1. /\ Head(s) \in S /\ Tail(s) \in Seq(S) /\ Len(Tail(s)) = Len(s) - 1 /\ Len(s) \in Nat
        /\ Head(s) = s[1] /\ Len(s) > 0 /\ Len(a) \in Nat
        /\ \A i \in 1 .. Len(Tail(s)) : Tail(s)[i] = s[i + 1]
    BY HeadTailProperties, EmptySeq
  <1> DEFINE h == <<Head(s)>>
             t == Tail(s)
             b == a \o h
  <1>2. h \in Seq(S) /\ Len(h) = 1 /\ h[1] = s[1]
    BY <1>1
  <1>3. /\ b \in Seq(S) /\ Len(b) = Len(a) + 1
        /\ \A i \in 1 .. Len(a) + 1 : b[i] = IF i <= Len(a) THEN a[i] ELSE h[i - Len(a)]
    BY <1>2, ConcatProperties
  <1> HIDE DEF h, b
  <1>4. /\ b \o t \in Seq(S) /\ Len(b \o t) = Len(b) + Len(t)
        /\ \A i \in 1 .. Len(b) + Len(t) : (b \o t)[i] = IF i <= Len(b) THEN b[i] ELSE t[i - Len(b)]
    BY <1>1, <1>3, ConcatProperties
  <1>5. /\ a \o s \in Seq(S) /\ Len(a \o s) = Len(a) + Len(s)
        /\ \A i \in 1 .. Len(a) + Len(s) : (a \o s)[i] = IF i <= Len(a) THEN a[i] ELSE s[i - Len(a)]
    BY ConcatProperties
  <1>6. Len(b \o t) = Len(a \o s)
    BY <1>1, <1>3, <1>4, <1>5
  <1>7. ASSUME NEW i \in 1 .. Len(a \o s) PROVE (b \o t)[i] = (a \o s)[i]
    <2>1. CASE i <= Len(a)
      BY <1>1, <1>3, <1>4, <1>5, <2>1
    <2>2. CASE i = Len(a) + 1
      <3>1. (b \o t)[i] = b[i] /\ b[i] = h[1] /\ (a \o s)[i] = s[1]
        BY <1>1, <1>3, <1>4, <1>5, <2>2
      <3>2. QED
        BY <1>2, <3>1
    <2>3. CASE i > Len(a) + 1
      <3>1. (b \o t)[i] = t[i - (Len(a) + 1)] /\ (a \o s)[i] = s[i - Len(a)]
        BY <1>1, <1>3, <1>4, <1>5, <2>3
      <3>2. i - (Len(a) + 1) \in 1 .. Len(t) /\ (i - (Len(a) + 1)) + 1 = i - Len(a)
        BY <1>1, <1>5, <2>3
      <3>3. QED
        BY <1>1, <3>1, <3>2
    <2>4. i \in Nat /\ (i <= Len(a) \/ i = Len(a) + 1 \/ i > Len(a) + 1)
      BY <1>1, <1>5
    <2>5. QED
      BY <2>1, <2>2, <2>3, <2>4
  <1>8. b \o t = a \o s
    BY <1>4, <1>5, <1>6, <1>7, SeqEqual
  <1>9. QED
    BY <1>8 DEF b, h

(* An event that is queued is said last.                                   *)
LEMMA SaidMore ==
    ASSUME NEW S, NEW a \in Seq(S), NEW s \in Seq(S), NEW x \in S
    PROVE  a \o Append(s, x) = Append(a \o s, x)
  <1>1. /\ Append(s, x) \in Seq(S) /\ Len(Append(s, x)) = Len(s) + 1 /\ Len(s) \in Nat /\ Len(a) \in Nat
        /\ Append(s, x)[Len(s) + 1] = x /\ \A i \in 1 .. Len(s) : Append(s, x)[i] = s[i]
    BY AppendProperties
  <1> DEFINE u == Append(s, x)
             v == a \o s
  <1>2. /\ v \in Seq(S) /\ Len(v) = Len(a) + Len(s)
        /\ \A i \in 1 .. Len(a) + Len(s) : v[i] = IF i <= Len(a) THEN a[i] ELSE s[i - Len(a)]
    BY ConcatProperties
  <1>3. u \in Seq(S) /\ Len(u) = Len(s) + 1 /\ u[Len(s) + 1] = x /\ \A i \in 1 .. Len(s) : u[i] = s[i]
    BY <1>1
  <1> HIDE DEF u, v
  <1>4. /\ a \o u \in Seq(S) /\ Len(a \o u) = Len(a) + Len(u)
        /\ \A i \in 1 .. Len(a) + Len(u) : (a \o u)[i] = IF i <= Len(a) THEN a[i] ELSE u[i - Len(a)]
    BY <1>3, ConcatProperties
  <1>5. /\ Append(v, x) \in Seq(S) /\ Len(Append(v, x)) = Len(v) + 1 /\ Append(v, x)[Len(v) + 1] = x
        /\ \A i \in 1 .. Len(v) : Append(v, x)[i] = v[i]
    BY <1>2, AppendProperties
  <1>6. Len(a \o u) = Len(Append(v, x))
    BY <1>1, <1>2, <1>3, <1>4, <1>5
  <1>7. ASSUME NEW i \in 1 .. Len(Append(v, x)) PROVE (a \o u)[i] = Append(v, x)[i]
    <2>1. CASE i <= Len(a)
      BY <1>1, <1>2, <1>3, <1>4, <1>5, <2>1
    <2>2. CASE i > Len(a) /\ i <= Len(v)
      <3>1. i - Len(a) \in 1 .. Len(s) /\ (a \o u)[i] = u[i - Len(a)] /\ v[i] = s[i - Len(a)]
        BY <1>1, <1>2, <1>3, <1>4, <1>5, <2>2
      <3>2. QED
        BY <1>1, <1>2, <1>3, <1>5, <2>2, <3>1
    <2>3. CASE i = Len(v) + 1
      <3>1. i - Len(a) = Len(s) + 1 /\ (a \o u)[i] = u[i - Len(a)]
        BY <1>1, <1>2, <1>3, <1>4, <1>5, <2>3
      <3>2. QED
        BY <1>3, <1>5, <2>3, <3>1
    <2>4. i <= Len(a) \/ (i > Len(a) /\ i <= Len(v)) \/ i = Len(v) + 1
      BY <1>1, <1>2, <1>5
    <2>5. QED
      BY <2>1, <2>2, <2>3, <2>4
  <1>8. a \o u = Append(v, x)
    BY <1>4, <1>5, <1>6, <1>7, SeqEqual
  <1>9. QED
    BY <1>8 DEF u, v

(* An answer that is not finished takes one more delta, or its finish.     *)
LEMMA AnsweringMore ==
    ASSUME NEW s, NEW n \in Nat, Answering(s, n), ~Has(s, "finish")
    PROVE  /\ Len(s) = n
           /\ Answering(Append(s, "delta"), n + 1) /\ Answering(Append(s, "finish"), n)
           /\ Len(Append(s, "finish")) = n + 1
  <1>1. /\ s \in Seq(Item) /\ Len(s) \in {n, n + 1} /\ Len(s) \in Nat
        /\ \A i \in 1 .. Len(s) : s[i] = IF i <= n THEN "delta" ELSE "finish"
    BY DEF Answering
  <1>2. Len(s) = n
    <2>1. SUFFICES ASSUME Len(s) = n + 1 PROVE FALSE
      BY <1>1
    <2>2. n + 1 \in 1 .. Len(s) /\ s[n + 1] = "finish"
      BY <1>1, <2>1
    <2>3. QED
      BY <2>2 DEF Has
  <1>3. ASSUME NEW x \in Item
        PROVE  /\ Append(s, x) \in Seq(Item) /\ Len(Append(s, x)) = n + 1 /\ Append(s, x)[n + 1] = x
               /\ \A i \in 1 .. n : Append(s, x)[i] = "delta"
    <2>1. /\ Append(s, x) \in Seq(Item) /\ Len(Append(s, x)) = Len(s) + 1 /\ Append(s, x)[Len(s) + 1] = x
          /\ \A i \in 1 .. Len(s) : Append(s, x)[i] = s[i]
      BY <1>1, <1>3, AppendProperties
    <2>2. QED
      BY <1>1, <1>2, <2>1
  <1>4. "delta" \in Item /\ "finish" \in Item
    BY DEF Item
  <1>5. Answering(Append(s, "delta"), n + 1)
    <2> DEFINE d == Append(s, "delta")
    <2>1. /\ d \in Seq(Item) /\ Len(d) = n + 1 /\ d[n + 1] = "delta" /\ \A i \in 1 .. n : d[i] = "delta"
      BY <1>3, <1>4
    <2> HIDE DEF d
    <2>2. \A i \in 1 .. n + 1 : d[i] = "delta" /\ i <= n + 1
      BY <2>1
    <2>3. QED
      BY <2>1, <2>2 DEF Answering, d
  <1>6. Answering(Append(s, "finish"), n)
    <2> DEFINE d == Append(s, "finish")
    <2>1. /\ d \in Seq(Item) /\ Len(d) = n + 1 /\ d[n + 1] = "finish" /\ \A i \in 1 .. n : d[i] = "delta"
      BY <1>3, <1>4
    <2> HIDE DEF d
    <2>2. \A i \in 1 .. n + 1 : d[i] = IF i <= n THEN "delta" ELSE "finish"
      BY <2>1
    <2>3. QED
      BY <2>1, <2>2 DEF Answering, d
  <1>7. QED
    BY <1>2, <1>3, <1>4, <1>5, <1>6

(* An answer under way holds events and nothing else.                      *)
LEMMA AnsweringWords ==
    ASSUME NEW s, NEW n \in Nat, Answering(s, n), NEW x, Has(s, x)
    PROVE  x \in Item
  <1>1. PICK i \in 1 .. Len(s) : s[i] = x
    BY DEF Has
  <1>2. QED
    BY <1>1 DEF Answering
-----------------------------------------------------------------------------
(* A new server has said nothing.                                          *)
LEMMA AnswerInit == Init => AnswerInv
  <1> SUFFICES ASSUME Init PROVE AnswerInv
    OBVIOUS
  <1>1. \A c \in Conn : ~Finished(c)
    BY HasOne DEF Init, Finished
  <1>2. QueueInv /\ DoneInv
    BY DEF Init, QueueInv, DoneInv
  <1>3. FreshInv
    BY ServerAssumption DEF Init, FreshInv
  <1>4. FinishInv
    BY <1>1 DEF Init, FinishInv, Announced
  <1>5. StreamInv
    BY DEF Init, StreamInv
  <1>6. WrittenInv
    BY HasOne DEF Init, WrittenInv
  <1>7. QED
    BY <1>2, <1>3, <1>4, <1>5, <1>6 DEF AnswerInv

(* What is written, queued and recorded of every job stays as it is.       *)
WordsKept == UNCHANGED <<kind, out, events, jdone, jcode, pushed>>
CancelGrows == \A c \in Conn : cancel[c] => cancel'[c]

(* A step that says nothing leaves every job's words.                      *)
LEMMA WordsStay ==
    ASSUME WordsKept, NEW c \in Conn
    PROVE  /\ Said(c)' = Said(c) /\ Finished(c)' = Finished(c) /\ pushed'[c] = pushed[c]
           /\ jdone'[c] = jdone[c] /\ jcode'[c] = jcode[c] /\ kind'[c] = kind[c]
           /\ out'[c] = out[c] /\ events'[c] = events[c]
  BY DEF WordsKept, Said, Finished

(* What was written stays true when only a cancellation is added.          *)
LEMMA WrittenStays ==
    ASSUME WrittenInv, UNCHANGED <<out, jdone, jcode, pushed>>, CancelGrows
    PROVE  WrittenInv'
  <1> SUFFICES ASSUME NEW c \in Conn
               PROVE /\ Has(out'[c], "ok") => jdone'[c] /\ jcode'[c] = "ok"
                     /\ Has(out'[c], "done") =>
                           jdone'[c] /\ (Has(out'[c], "error") \/ Complete(out'[c], pushed'[c]))
                     /\ Has(out'[c], "finish") /\ Has(out'[c], "error") => cancel'[c]
    BY DEF WrittenInv
  <1>1. out'[c] = out[c] /\ jdone'[c] = jdone[c] /\ jcode'[c] = jcode[c] /\ pushed'[c] = pushed[c]
    OBVIOUS
  <1>2. QED
    BY <1>1 DEF WrittenInv, CancelGrows

(* Steps that change nothing but a cancellation, a phase or a socket.      *)
LEMMA AnswerQuiet ==
    ASSUME AdmissionInv, AnswerInv, WordsKept, CancelGrows,
           UNCHANGED <<sockets, hpc, pending, active, job, code>>, dirty' => dirty,
           ipc' = ipc \/ (ipc \in {"init", "idle"} /\ ipc' \in {"idle", "exited"})
    PROVE  AnswerInv'
  <1>0. QueueInv /\ FreshInv /\ DoneInv /\ FinishInv /\ StreamInv /\ WrittenInv
    BY DEF AnswerInv
  <1>1. \A c \in Conn : /\ Said(c)' = Said(c) /\ Finished(c)' = Finished(c) /\ pushed'[c] = pushed[c]
                        /\ jdone'[c] = jdone[c] /\ jcode'[c] = jcode[c] /\ kind'[c] = kind[c]
                        /\ out'[c] = out[c] /\ events'[c] = events[c] /\ Announced(c)' = Announced(c)
    BY WordsStay DEF Announced
  <1>2. QueueInv' /\ FreshInv'
    BY <1>0, <1>1 DEF QueueInv, FreshInv
  <1>3. DoneInv'
    BY <1>0, <1>1 DEF DoneInv
  <1>4. FinishInv'
    <2> SUFFICES ASSUME NEW c \in Conn
                 PROVE /\ Finished(c)' => (Announced(c)' \/ jdone'[c]) /\ ~(dirty' /\ job' = c)
                       /\ Finished(c)' /\ Announced(c)' /\ code' = "error" => cancel'[c]
                       /\ Finished(c)' /\ jdone'[c] /\ jcode'[c] = "error" => cancel'[c]
                       /\ jdone'[c] /\ jcode'[c] = "ok" => ~(dirty' /\ job' = c)
                       /\ Announced(c)' /\ code' = "ok" => ~dirty'
      BY DEF FinishInv
    <2>1. QED
      BY <1>0, <1>1 DEF FinishInv, CancelGrows
  <1>5. StreamInv'
    <2> SUFFICES ASSUME NEW c \in Conn, hpc'[c] = "wait"
                 PROVE /\ Answering(Said(c)', pushed'[c])
                       /\ kind'[c] # "stream" => Said(c)' = <<>>
                       /\ kind'[c] = "stream" /\ Announced(c)' /\ code' = "ok" => Len(Said(c)') = pushed'[c] + 1
                       /\ kind'[c] = "stream" /\ jdone'[c] /\ jcode'[c] = "ok" => Len(Said(c)') = pushed'[c] + 1
      BY DEF StreamInv
    <2>1. QED
      BY <1>0, <1>1 DEF StreamInv
  <1>6. WrittenInv'
    BY <1>0, WrittenStays DEF WordsKept
  <1>7. QED
    BY <1>2, <1>3, <1>4, <1>5, <1>6 DEF AnswerInv

(* The actions that are quiet in this sense.                               *)
LEMMA AnswerQuietActions ==
    ASSUME AdmissionInv, AnswerInv,
           \/ Shutdown \/ Joined \/ Terminated \/ (\E c \in Conn : Disconnect(c))
           \/ Initialized \/ InitializeThrows \/ Exit \/ Progress \/ UNCHANGED vars
    PROVE  AnswerInv'
  <1>0. TypeJobs
    BY DEF AdmissionInv
  <1>1. WordsKept
    BY DEF Shutdown, Joined, Terminated, Disconnect, Initialized, InitializeThrows, Exit, Progress,
           vars, connVars, jobVars, WordsKept
  <1>2. CancelGrows
    <2>1. CASE Shutdown
      BY <2>1 DEF Shutdown, CancelGrows
    <2>2. CASE ~Shutdown
      <3>1. cancel' = cancel
        BY <2>2 DEF Joined, Terminated, Disconnect, Initialized, InitializeThrows, Exit, Progress, vars, jobVars
      <3>2. QED
        BY <3>1 DEF CancelGrows
    <2>3. QED
      BY <2>1, <2>2
  <1>3. UNCHANGED <<sockets, hpc, pending, active, job, code>>
    BY DEF Shutdown, Joined, Terminated, Disconnect, Initialized, InitializeThrows, Exit, Progress,
           vars, mainVars, connVars, coordVars, inferVars
  <1>4. dirty' => dirty
    BY DEF Shutdown, Joined, Terminated, Disconnect, Initialized, InitializeThrows, Exit, Progress,
           vars, inferVars
  <1>5. ipc' = ipc \/ (ipc \in {"init", "idle"} /\ ipc' \in {"idle", "exited"})
    BY DEF Shutdown, Joined, Terminated, Disconnect, Initialized, InitializeThrows, Exit, Progress,
           vars, inferVars
  <1>6. QED
    BY <1>1, <1>2, <1>3, <1>4, <1>5, AnswerQuiet

(* A job in hand that has not been announced has no finish event, and is   *)
(* not done.                                                               *)
LEMMA NotAnnounced ==
    ASSUME AdmissionInv, AnswerInv, ipc \in {"start", "run", "settle", "drain", "announce"}
    PROVE  job \in Conn /\ ~Finished(job) /\ ~jdone[job] /\ pending = None /\ active = job
  <1>1. job \in Conn /\ pending = None /\ active = job
    BY DEF AdmissionInv, JobInv, Serving
  <1>2. ~jdone[job]
    BY <1>1 DEF AnswerInv, DoneInv
  <1>3. QED
    BY <1>1, <1>2 DEF AnswerInv, FinishInv, Announced

(* Steps of inference() up to the announcement that queue no event.        *)
LEMMA AnswerServing ==
    ASSUME AdmissionInv, AnswerInv, WordsKept, CancelGrows,
           UNCHANGED <<sockets, hpc, pending, active, job>>,
           ipc \in {"start", "run", "settle", "drain", "announce"},
           ipc' \in {"run", "settle", "drain", "announce", "recover", "release"},
           ipc' \in {"recover", "release"} /\ code' = "ok" => ~dirty' /\ kind[job] # "stream"
    PROVE  AnswerInv'
  <1>0. QueueInv /\ FreshInv /\ DoneInv /\ FinishInv /\ StreamInv /\ WrittenInv
    BY DEF AnswerInv
  <1>1. \A c \in Conn : /\ Said(c)' = Said(c) /\ Finished(c)' = Finished(c) /\ pushed'[c] = pushed[c]
                        /\ jdone'[c] = jdone[c] /\ jcode'[c] = jcode[c] /\ kind'[c] = kind[c]
                        /\ out'[c] = out[c] /\ events'[c] = events[c]
    BY WordsStay
  <1>2. job \in Conn /\ ~Finished(job) /\ ~jdone[job]
    BY NotAnnounced
  <1>3. QueueInv' /\ FreshInv'
    BY <1>0, <1>1 DEF QueueInv, FreshInv
  <1>4. DoneInv'
    BY <1>0, <1>1, <1>2 DEF DoneInv
  <1>5. FinishInv'
    <2> SUFFICES ASSUME NEW c \in Conn
                 PROVE /\ Finished(c)' => (Announced(c)' \/ jdone'[c]) /\ ~(dirty' /\ job' = c)
                       /\ Finished(c)' /\ Announced(c)' /\ code' = "error" => cancel'[c]
                       /\ Finished(c)' /\ jdone'[c] /\ jcode'[c] = "error" => cancel'[c]
                       /\ jdone'[c] /\ jcode'[c] = "ok" => ~(dirty' /\ job' = c)
                       /\ Announced(c)' /\ code' = "ok" => ~dirty'
      BY DEF FinishInv
    <2>1. CASE c = job
      BY <1>1, <1>2, <2>1 DEF Announced
    <2>2. CASE c # job
      BY <1>0, <1>1, <2>2 DEF FinishInv, CancelGrows, Announced
    <2>3. QED
      BY <2>1, <2>2
  <1>6. StreamInv'
    <2> SUFFICES ASSUME NEW c \in Conn, hpc'[c] = "wait"
                 PROVE /\ Answering(Said(c)', pushed'[c])
                       /\ kind'[c] # "stream" => Said(c)' = <<>>
                       /\ kind'[c] = "stream" /\ Announced(c)' /\ code' = "ok" => Len(Said(c)') = pushed'[c] + 1
                       /\ kind'[c] = "stream" /\ jdone'[c] /\ jcode'[c] = "ok" => Len(Said(c)') = pushed'[c] + 1
      BY DEF StreamInv
    <2>1. ~(kind'[c] = "stream" /\ Announced(c)' /\ code' = "ok")
      BY <1>1, <1>2 DEF Announced
    <2>2. QED
      BY <1>0, <1>1, <2>1 DEF StreamInv
  <1>7. WrittenInv'
    BY <1>0, WrittenStays DEF WordsKept
  <1>8. QED
    BY <1>3, <1>4, <1>5, <1>6, <1>7 DEF AnswerInv

(* The actions that are such steps.                                        *)
LEMMA AnswerServingActions ==
    ASSUME AdmissionInv, AnswerInv,
           \/ StartJob \/ GenerateReturns \/ GenerateThrows \/ BeginDrain \/ Drained \/ DrainThrows
           \/ (Delta /\ Refuses(job))
           \/ (Announce /\ (code # "ok" \/ cancel[job] \/ kind[job] # "stream" \/ Refuses(job)))
    PROVE  AnswerInv'
  <1>0. TypeJobs /\ TypeInfer /\ EngineInv
    BY DEF AdmissionInv
  <1>1. /\ ipc \in {"start", "run", "settle", "drain", "announce"}
        /\ ipc' \in {"run", "settle", "drain", "announce", "recover", "release"}
    BY DEF StartJob, GenerateReturns, GenerateThrows, BeginDrain, Drained, DrainThrows, Delta, Announce,
           Fails, Settle
  <1>2. WordsKept
    BY DEF StartJob, GenerateReturns, GenerateThrows, BeginDrain, Drained, DrainThrows, Delta, Announce,
           Fails, Settle, connVars, jobVars, WordsKept
  <1>3. UNCHANGED <<sockets, hpc, pending, active, job>>
    BY DEF StartJob, GenerateReturns, GenerateThrows, BeginDrain, Drained, DrainThrows, Delta, Announce,
           Fails, mainVars, connVars, coordVars
  <1>4. CancelGrows
    <2>1. cancel' = cancel \/ cancel' = [cancel EXCEPT ![job] = TRUE]
      BY DEF StartJob, GenerateReturns, GenerateThrows, BeginDrain, Drained, DrainThrows, Delta, Announce,
             Fails, jobVars
    <2>2. QED
      BY <1>0, <2>1 DEF CancelGrows, TypeJobs
  <1>5. ipc' \in {"recover", "release"} /\ code' = "ok" => ~dirty' /\ kind[job] # "stream"
    <2>1. CASE StartJob \/ GenerateReturns \/ GenerateThrows \/ BeginDrain \/ Drained \/ Delta
      BY <2>1 DEF StartJob, GenerateReturns, GenerateThrows, BeginDrain, Drained, Delta, Settle
    <2>2. CASE DrainThrows
      BY <2>2 DEF DrainThrows, Fails
    <2>3. CASE Announce /\ (code # "ok" \/ cancel[job] \/ kind[job] # "stream" \/ Refuses(job))
      <3>1. ipc = "announce" /\ dirty' = dirty
        BY <2>3 DEF Announce
      <3>2. ~dirty
        BY <1>0, <3>1 DEF EngineInv
      <3>3. code' = "ok" => kind[job] # "stream"
        BY <2>3 DEF Announce
      <3>4. QED
        BY <3>1, <3>2, <3>3
    <2>4. QED
      BY <2>1, <2>2, <2>3
  <1>6. QED
    BY <1>1, <1>2, <1>3, <1>4, <1>5, AnswerServing

(* The rest of the job: recovery and release.                              *)
LEMMA AnswerReleasing ==
    ASSUME AdmissionInv, AnswerInv, Recovered \/ RecoverThrows \/ Release
    PROVE  AnswerInv'
  <1>0. QueueInv /\ FreshInv /\ DoneInv /\ FinishInv /\ StreamInv /\ WrittenInv
    BY DEF AnswerInv
  <1>1. /\ ipc \in {"recover", "release"} /\ ipc' \in {"release", "publish"}
        /\ UNCHANGED <<sockets, hpc, pending, job, dirty, cancel>> /\ active' \in {active, None}
        /\ code' = code \/ (code' = "error" /\ (code # "ok" \/ cancel[job]))
    BY DEF Recovered, RecoverThrows, Release, Fails, NeedsRecovery, mainVars, connVars, jobVars, coordVars
  <1>2. WordsKept
    BY DEF Recovered, RecoverThrows, Release, Fails, connVars, jobVars, WordsKept
  <1>3. \A c \in Conn : /\ Said(c)' = Said(c) /\ Finished(c)' = Finished(c) /\ pushed'[c] = pushed[c]
                        /\ jdone'[c] = jdone[c] /\ jcode'[c] = jcode[c] /\ kind'[c] = kind[c]
                        /\ out'[c] = out[c] /\ events'[c] = events[c] /\ Announced(c)' = Announced(c)
    BY <1>1, <1>2, WordsStay DEF Announced
  <1>4. job \in Conn /\ pending = None /\ code \in {"ok", "error"} /\ cancel \in [Conn -> BOOLEAN]
    BY <1>1 DEF AdmissionInv, JobInv, Serving, TypeInfer, TypeJobs
  <1>5. QueueInv'
    BY <1>0, <1>1 DEF QueueInv
  <1>6. FreshInv'
    BY <1>0, <1>1, <1>3, ServerAssumption DEF FreshInv
  <1>7. DoneInv'
    BY <1>0, <1>1, <1>3, <1>4, ServerAssumption DEF DoneInv
  <1>8. FinishInv'
    <2> SUFFICES ASSUME NEW c \in Conn
                 PROVE /\ Finished(c)' => (Announced(c)' \/ jdone'[c]) /\ ~(dirty' /\ job' = c)
                       /\ Finished(c)' /\ Announced(c)' /\ code' = "error" => cancel'[c]
                       /\ Finished(c)' /\ jdone'[c] /\ jcode'[c] = "error" => cancel'[c]
                       /\ jdone'[c] /\ jcode'[c] = "ok" => ~(dirty' /\ job' = c)
                       /\ Announced(c)' /\ code' = "ok" => ~dirty'
      BY DEF FinishInv
    <2>1. Finished(c) /\ Announced(c) /\ code' = "error" => cancel[c]
      BY <1>0, <1>1, <1>4 DEF FinishInv, Announced
    <2>2. QED
      BY <1>0, <1>1, <1>3, <2>1 DEF FinishInv
  <1>9. StreamInv'
    <2> SUFFICES ASSUME NEW c \in Conn, hpc'[c] = "wait"
                 PROVE /\ Answering(Said(c)', pushed'[c])
                       /\ kind'[c] # "stream" => Said(c)' = <<>>
                       /\ kind'[c] = "stream" /\ Announced(c)' /\ code' = "ok" => Len(Said(c)') = pushed'[c] + 1
                       /\ kind'[c] = "stream" /\ jdone'[c] /\ jcode'[c] = "ok" => Len(Said(c)') = pushed'[c] + 1
      BY DEF StreamInv
    <2>1. QED
      BY <1>0, <1>1, <1>3 DEF StreamInv
  <1>10. WrittenInv'
    BY <1>0, <1>1, <1>2, WrittenStays DEF WordsKept, CancelGrows
  <1>11. QED
    BY <1>5, <1>6, <1>7, <1>8, <1>9, <1>10 DEF AnswerInv

(* The pending job is taken: it has neither been announced nor published.  *)
LEMMA AnswerTakeJob ==
    ASSUME AdmissionInv, AnswerInv, TakeJob
    PROVE  AnswerInv'
  <1>0. QueueInv /\ FreshInv /\ DoneInv /\ FinishInv /\ StreamInv /\ WrittenInv
    BY DEF AnswerInv
  <1>1. /\ ipc = "idle" /\ pending # None /\ ipc' = "start" /\ job' = pending /\ pending' = None
        /\ UNCHANGED <<sockets, hpc, active, dirty, cancel, code>>
    BY DEF TakeJob, mainVars, connVars, jobVars
  <1>2. WordsKept
    BY DEF TakeJob, connVars, jobVars, WordsKept
  <1>3. \A c \in Conn : /\ Said(c)' = Said(c) /\ Finished(c)' = Finished(c) /\ pushed'[c] = pushed[c]
                        /\ jdone'[c] = jdone[c] /\ jcode'[c] = jcode[c] /\ kind'[c] = kind[c]
                        /\ out'[c] = out[c] /\ events'[c] = events[c]
                        /\ ~Announced(c) /\ ~Announced(c)'
    BY <1>1, <1>2, WordsStay DEF Announced
  <1>4. ~dirty
    BY <1>1 DEF AdmissionInv, EngineInv
  <1>5. QueueInv'
    BY <1>0, <1>1 DEF QueueInv
  <1>6. FreshInv'
    BY <1>0, <1>1, <1>3, ServerAssumption DEF FreshInv
  <1>7. DoneInv'
    BY <1>0, <1>1, <1>3, ServerAssumption DEF DoneInv
  <1>8. FinishInv'
    <2> SUFFICES ASSUME NEW c \in Conn
                 PROVE /\ Finished(c)' => (Announced(c)' \/ jdone'[c]) /\ ~(dirty' /\ job' = c)
                       /\ Finished(c)' /\ Announced(c)' /\ code' = "error" => cancel'[c]
                       /\ Finished(c)' /\ jdone'[c] /\ jcode'[c] = "error" => cancel'[c]
                       /\ jdone'[c] /\ jcode'[c] = "ok" => ~(dirty' /\ job' = c)
                       /\ Announced(c)' /\ code' = "ok" => ~dirty'
      BY DEF FinishInv
    <2>1. QED
      BY <1>0, <1>1, <1>3, <1>4 DEF FinishInv
  <1>9. StreamInv'
    <2> SUFFICES ASSUME NEW c \in Conn, hpc'[c] = "wait"
                 PROVE /\ Answering(Said(c)', pushed'[c])
                       /\ kind'[c] # "stream" => Said(c)' = <<>>
                       /\ kind'[c] = "stream" /\ Announced(c)' /\ code' = "ok" => Len(Said(c)') = pushed'[c] + 1
                       /\ kind'[c] = "stream" /\ jdone'[c] /\ jcode'[c] = "ok" => Len(Said(c)') = pushed'[c] + 1
      BY DEF StreamInv
    <2>1. QED
      BY <1>0, <1>1, <1>3 DEF StreamInv
  <1>10. WrittenInv'
    BY <1>0, <1>1, <1>2, WrittenStays DEF WordsKept, CancelGrows
  <1>11. QED
    BY <1>5, <1>6, <1>7, <1>8, <1>9, <1>10 DEF AnswerInv

(* The job is done: its result is the one its stream ended with.           *)
LEMMA AnswerPublish ==
    ASSUME AdmissionInv, AnswerInv, Publish
    PROVE  AnswerInv'
  <1>0. QueueInv /\ FreshInv /\ DoneInv /\ FinishInv /\ StreamInv /\ WrittenInv
    BY DEF AnswerInv
  <1>1. /\ ipc = "publish" /\ ipc' = "idle"
        /\ jdone' = [jdone EXCEPT ![job] = TRUE] /\ jcode' = [jcode EXCEPT ![job] = code]
        /\ UNCHANGED <<sockets, hpc, pending, active, job, dirty, cancel, kind, out, events, pushed>>
    BY DEF Publish, mainVars, connVars, coordVars
  <1>2. /\ job \in Conn /\ jdone \in [Conn -> BOOLEAN] /\ jcode \in [Conn -> {"ok", "error"}]
        /\ code \in {"ok", "error"}
    BY <1>1 DEF AdmissionInv, JobInv, TypeJobs, TypeInfer
  <1>3. \A c \in Conn : /\ Said(c)' = Said(c) /\ Finished(c)' = Finished(c) /\ ~Announced(c)'
                        /\ Announced(c) <=> c = job
    BY <1>1 DEF Announced, Said, Finished
  <1>4. /\ ~jdone[job] /\ jdone'[job] = TRUE /\ jcode'[job] = code /\ job # pending
        /\ \A c \in Conn : c # job => jdone'[c] = jdone[c] /\ jcode'[c] = jcode[c]
    BY <1>0, <1>1, <1>2 DEF DoneInv
  <1>5. QueueInv'
    BY <1>0, <1>1 DEF QueueInv
  <1>6. FreshInv'
    BY <1>0, <1>1, <1>4 DEF FreshInv
  <1>7. DoneInv'
    BY <1>0, <1>1, <1>4 DEF DoneInv
  <1>8. FinishInv'
    <2> SUFFICES ASSUME NEW c \in Conn
                 PROVE /\ Finished(c)' => (Announced(c)' \/ jdone'[c]) /\ ~(dirty' /\ job' = c)
                       /\ Finished(c)' /\ Announced(c)' /\ code' = "error" => cancel'[c]
                       /\ Finished(c)' /\ jdone'[c] /\ jcode'[c] = "error" => cancel'[c]
                       /\ jdone'[c] /\ jcode'[c] = "ok" => ~(dirty' /\ job' = c)
                       /\ Announced(c)' /\ code' = "ok" => ~dirty'
      BY DEF FinishInv
    <2>1. CASE c = job
      BY <1>0, <1>1, <1>2, <1>3, <1>4, <2>1 DEF FinishInv
    <2>2. CASE c # job
      BY <1>0, <1>1, <1>3, <1>4, <2>2 DEF FinishInv
    <2>3. QED
      BY <2>1, <2>2
  <1>9. StreamInv'
    <2> SUFFICES ASSUME NEW c \in Conn, hpc'[c] = "wait"
                 PROVE /\ Answering(Said(c)', pushed'[c])
                       /\ kind'[c] # "stream" => Said(c)' = <<>>
                       /\ kind'[c] = "stream" /\ Announced(c)' /\ code' = "ok" => Len(Said(c)') = pushed'[c] + 1
                       /\ kind'[c] = "stream" /\ jdone'[c] /\ jcode'[c] = "ok" => Len(Said(c)') = pushed'[c] + 1
      BY DEF StreamInv
    <2>1. QED
      BY <1>0, <1>1, <1>3, <1>4 DEF StreamInv
  <1>10. WrittenInv'
    <2> SUFFICES ASSUME NEW c \in Conn
                 PROVE /\ Has(out'[c], "ok") => jdone'[c] /\ jcode'[c] = "ok"
                       /\ Has(out'[c], "done") =>
                             jdone'[c] /\ (Has(out'[c], "error") \/ Complete(out'[c], pushed'[c]))
                       /\ Has(out'[c], "finish") /\ Has(out'[c], "error") => cancel'[c]
      BY DEF WrittenInv
    <2>1. QED
      BY <1>0, <1>1, <1>4 DEF WrittenInv
  <1>11. QED
    BY <1>5, <1>6, <1>7, <1>8, <1>9, <1>10 DEF AnswerInv

(* Job::push queues a delta, or the finish event, for the job in hand.     *)
LEMMA AnswerPush ==
    ASSUME AdmissionInv, AnswerInv,
           \/ Delta /\ ~Refuses(job)
           \/ Announce /\ code = "ok" /\ ~cancel[job] /\ kind[job] = "stream" /\ ~Refuses(job)
    PROVE  AnswerInv'
  <1>0. QueueInv /\ FreshInv /\ DoneInv /\ FinishInv /\ StreamInv /\ WrittenInv
    BY DEF AnswerInv
  <1>1. /\ kind[job] = "stream" /\ ipc \in {"run", "announce"}
        /\ UNCHANGED <<sockets, hpc, kind, out, pending, active, job, dirty, code, cancel, jdone, jcode>>
        /\ \/ /\ ipc' = "run" /\ events' = [events EXCEPT ![job] = Append(events[job], "delta")]
              /\ pushed' = [pushed EXCEPT ![job] = pushed[job] + 1]
           \/ /\ ipc' = "recover" /\ events' = [events EXCEPT ![job] = Append(events[job], "finish")]
              /\ pushed' = pushed /\ ipc = "announce" /\ code = "ok"
    <2>1. CASE Delta /\ ~Refuses(job)
      BY <2>1 DEF Delta, mainVars, connVars, coordVars
    <2>2. CASE Announce /\ code = "ok" /\ ~cancel[job] /\ kind[job] = "stream" /\ ~Refuses(job)
      BY <2>2 DEF Announce, mainVars, connVars, coordVars
    <2>3. QED
      BY <2>1, <2>2
  <1>2. job \in Conn /\ ~Finished(job) /\ ~jdone[job] /\ pending = None
    BY <1>1, NotAnnounced
  <1>3. /\ events \in [Conn -> Seq(Item)] /\ pushed \in [Conn -> Nat] /\ "delta" \in Item /\ "finish" \in Item
        /\ out[job] \in Seq(Item \cup {"error", "done", "ok", "refused"})
    BY <1>2 DEF AdmissionInv, TypeJobs, TypeConn, Item
  <1>4. \A c \in Conn : c # job =>
            /\ events'[c] = events[c] /\ pushed'[c] = pushed[c]
            /\ Said(c)' = Said(c) /\ Finished(c)' = Finished(c) /\ ~Announced(c) /\ ~Announced(c)'
    <2>1. \A c \in Conn : c # job => events'[c] = events[c] /\ pushed'[c] = pushed[c] /\ out'[c] = out[c]
      BY <1>1, <1>3
    <2>2. QED
      BY <1>1, <2>1 DEF Said, Finished, Announced
  <1>5. ipc = "announce" => ~dirty
    BY DEF AdmissionInv, EngineInv
  <1>6. ipc' = "run" => ~Finished(job)'
    <2>1. SUFFICES ASSUME ipc' = "run" PROVE ~Finished(job)'
      OBVIOUS
    <2>2. events'[job] = Append(events[job], "delta") /\ out'[job] = out[job] /\ job' = job
      BY <1>1, <1>2, <1>3, <2>1
    <2>3. ~Has(events'[job], "finish")
      BY <1>2, <1>3, <2>2, HasAppend DEF Finished
    <2>4. QED
      BY <1>2, <2>2, <2>3 DEF Finished
  <1>7. QueueInv'
    BY <1>0, <1>1 DEF QueueInv
  <1>8. FreshInv'
    BY <1>0, <1>1, <1>4 DEF FreshInv
  <1>9. DoneInv'
    BY <1>0, <1>1, <1>2 DEF DoneInv
  <1>10. FinishInv'
    <2> SUFFICES ASSUME NEW c \in Conn
                 PROVE /\ Finished(c)' => (Announced(c)' \/ jdone'[c]) /\ ~(dirty' /\ job' = c)
                       /\ Finished(c)' /\ Announced(c)' /\ code' = "error" => cancel'[c]
                       /\ Finished(c)' /\ jdone'[c] /\ jcode'[c] = "error" => cancel'[c]
                       /\ jdone'[c] /\ jcode'[c] = "ok" => ~(dirty' /\ job' = c)
                       /\ Announced(c)' /\ code' = "ok" => ~dirty'
      BY DEF FinishInv
    <2>1. CASE c = job
      BY <1>1, <1>2, <1>5, <1>6, <2>1 DEF Announced
    <2>2. CASE c # job
      BY <1>0, <1>1, <1>4, <2>2 DEF FinishInv
    <2>3. QED
      BY <2>1, <2>2
  <1>11. StreamInv'
    <2> SUFFICES ASSUME NEW c \in Conn, hpc'[c] = "wait"
                 PROVE /\ Answering(Said(c)', pushed'[c])
                       /\ kind'[c] # "stream" => Said(c)' = <<>>
                       /\ kind'[c] = "stream" /\ Announced(c)' /\ code' = "ok" => Len(Said(c)') = pushed'[c] + 1
                       /\ kind'[c] = "stream" /\ jdone'[c] /\ jcode'[c] = "ok" => Len(Said(c)') = pushed'[c] + 1
      BY DEF StreamInv
    <2>1. CASE c = job
      <3>1. Answering(Said(job), pushed[job]) /\ pushed[job] \in Nat
        BY <1>0, <1>1, <1>3, <2>1 DEF StreamInv
      <3>2. ~Has(Said(job), "finish")
        <4>1. events[job] \in Seq(Item \cup {"error", "done", "ok", "refused"})
          BY <1>2, <1>3
        <4>2. QED
          BY <1>2, <1>3, <4>1, HasConcat DEF Said, Finished
      <3>3. /\ Answering(Append(Said(job), "delta"), pushed[job] + 1)
            /\ Answering(Append(Said(job), "finish"), pushed[job])
            /\ Len(Append(Said(job), "finish")) = pushed[job] + 1
        BY <3>1, <3>2, AnsweringMore
      <3>4. ASSUME NEW x \in Item, events' = [events EXCEPT ![job] = Append(events[job], x)]
            PROVE  Said(job)' = Append(Said(job), x)
        <4>1. Said(job)' = out[job] \o Append(events[job], x)
          BY <1>1, <1>2, <1>3, <3>4 DEF Said
        <4> DEFINE W == Item \cup {"error", "done", "ok", "refused"}
        <4>2. events[job] \in Seq(W) /\ x \in W /\ out[job] \in Seq(W)
          BY <1>2, <1>3
        <4> HIDE DEF W
        <4>3. \A a, s \in Seq(W) : \A y \in W : a \o Append(s, y) = Append(a \o s, y)
          BY SaidMore
        <4>4. out[job] \o Append(events[job], x) = Append(out[job] \o events[job], x)
          BY <4>2, <4>3, Zenon
        <4>5. QED
          BY <4>1, <4>4 DEF Said
      <3>5. CASE ipc' = "run"
        <4>1. Said(job)' = Append(Said(job), "delta") /\ pushed'[job] = pushed[job] + 1
          BY <1>1, <1>2, <1>3, <3>4, <3>5
        <4>2. QED
          BY <1>1, <1>2, <2>1, <3>3, <3>5, <4>1 DEF Announced
      <3>6. CASE ipc' = "recover"
        <4>1. Said(job)' = Append(Said(job), "finish") /\ pushed'[job] = pushed[job]
          BY <1>1, <1>2, <1>3, <3>4, <3>6
        <4>2. QED
          BY <1>1, <1>2, <2>1, <3>3, <3>6, <4>1
      <3>7. QED
        BY <1>1, <3>5, <3>6
    <2>2. CASE c # job
      BY <1>0, <1>1, <1>4, <2>2 DEF StreamInv
    <2>3. QED
      BY <2>1, <2>2
  <1>12. WrittenInv'
    <2> SUFFICES ASSUME NEW c \in Conn
                 PROVE /\ Has(out'[c], "ok") => jdone'[c] /\ jcode'[c] = "ok"
                       /\ Has(out'[c], "done") =>
                             jdone'[c] /\ (Has(out'[c], "error") \/ Complete(out'[c], pushed'[c]))
                       /\ Has(out'[c], "finish") /\ Has(out'[c], "error") => cancel'[c]
      BY DEF WrittenInv
    <2>1. QED
      BY <1>0, <1>1, <1>2, <1>4 DEF WrittenInv
  <1>13. QED
    BY <1>7, <1>8, <1>9, <1>10, <1>11, <1>12 DEF AnswerInv
-----------------------------------------------------------------------------
(* A connection that is not being relayed, and whose words stay, moves on. *)
LEMMA AnswerMove ==
    ASSUME AdmissionInv, AnswerInv, WordsKept, CancelGrows, UNCHANGED <<coordVars, inferVars>>,
           QueueInv',
           \A c \in Conn : hpc'[c] \in {"new", "queued", "read"} => hpc[c] \in {"new", "queued", "read"},
           \A c \in Conn : hpc'[c] = "wait" => hpc[c] = "wait"
    PROVE  AnswerInv'
  <1>0. QueueInv /\ FreshInv /\ DoneInv /\ FinishInv /\ StreamInv /\ WrittenInv
    BY DEF AnswerInv
  <1>1. UNCHANGED <<pending, active, ipc, job, code, dirty>>
    BY DEF coordVars, inferVars
  <1>2. \A c \in Conn : /\ Said(c)' = Said(c) /\ Finished(c)' = Finished(c) /\ pushed'[c] = pushed[c]
                        /\ jdone'[c] = jdone[c] /\ jcode'[c] = jcode[c] /\ kind'[c] = kind[c]
                        /\ out'[c] = out[c] /\ events'[c] = events[c] /\ Announced(c)' = Announced(c)
    BY <1>1, WordsStay DEF Announced
  <1>3. FreshInv'
    BY <1>0, <1>1, <1>2 DEF FreshInv
  <1>4. DoneInv'
    BY <1>0, <1>1, <1>2 DEF DoneInv
  <1>5. FinishInv'
    <2> SUFFICES ASSUME NEW c \in Conn
                 PROVE /\ Finished(c)' => (Announced(c)' \/ jdone'[c]) /\ ~(dirty' /\ job' = c)
                       /\ Finished(c)' /\ Announced(c)' /\ code' = "error" => cancel'[c]
                       /\ Finished(c)' /\ jdone'[c] /\ jcode'[c] = "error" => cancel'[c]
                       /\ jdone'[c] /\ jcode'[c] = "ok" => ~(dirty' /\ job' = c)
                       /\ Announced(c)' /\ code' = "ok" => ~dirty'
      BY DEF FinishInv
    <2>1. QED
      BY <1>0, <1>1, <1>2 DEF FinishInv, CancelGrows
  <1>6. StreamInv'
    <2> SUFFICES ASSUME NEW c \in Conn, hpc'[c] = "wait"
                 PROVE /\ Answering(Said(c)', pushed'[c])
                       /\ kind'[c] # "stream" => Said(c)' = <<>>
                       /\ kind'[c] = "stream" /\ Announced(c)' /\ code' = "ok" => Len(Said(c)') = pushed'[c] + 1
                       /\ kind'[c] = "stream" /\ jdone'[c] /\ jcode'[c] = "ok" => Len(Said(c)') = pushed'[c] + 1
      BY DEF StreamInv
    <2>1. QED
      BY <1>0, <1>1, <1>2 DEF StreamInv
  <1>7. WrittenInv'
    BY <1>0, WrittenStays DEF WordsKept
  <1>8. QED
    BY <1>3, <1>4, <1>5, <1>6, <1>7 DEF AnswerInv

(* The actions that are such moves.                                        *)
LEMMA AnswerMoveActions ==
    ASSUME AdmissionInv, AnswerInv,
           \/ Dequeue \/ CloseSockets
           \/ \E c \in Conn : (Accept(c) /\ Len(sockets) < QueueLimit) \/ SeesDisconnect(c)
    PROVE  AnswerInv'
  <1>0. TypeMain /\ TypeConn /\ TypeJobs /\ QueueInv
    BY DEF AdmissionInv, AnswerInv
  <1>1. WordsKept /\ UNCHANGED <<coordVars, inferVars>>
    BY DEF Dequeue, CloseSockets, Accept, SeesDisconnect, StartCancel, jobVars, WordsKept
  <1>2. CASE Dequeue
    <2>1. /\ sockets # <<>> /\ sockets' = Tail(sockets) /\ hpc' = [hpc EXCEPT ![Head(sockets)] = "read"]
          /\ cancel' = cancel
      BY <1>2 DEF Dequeue, jobVars
    <2>2. /\ Len(sockets') = Len(sockets) - 1 /\ Len(sockets) \in Nat /\ Head(sockets) = sockets[1]
          /\ Len(sockets) > 0 /\ \A i \in 1 .. Len(sockets') : sockets'[i] = sockets[i + 1]
          /\ \A i \in 1 .. Len(sockets) : sockets[i] \in Conn
      BY <1>0, <2>1, HeadTailProperties, EmptySeq DEF TypeMain
    <2>3. \A i \in 1 .. Len(sockets') : i + 1 \in 1 .. Len(sockets) /\ i + 1 # 1
      BY <2>2
    <2>4. QueueInv'
      <3>1. ASSUME NEW i \in 1 .. Len(sockets') PROVE hpc'[sockets'[i]] = "queued"
        <4>1. sockets'[i] = sockets[i + 1] /\ sockets[i + 1] # sockets[1] /\ sockets[i + 1] \in Conn
              /\ hpc[sockets[i + 1]] = "queued"
          BY <1>0, <2>2, <2>3 DEF QueueInv
        <4>2. QED
          BY <1>0, <2>1, <2>2, <4>1 DEF TypeConn
      <3>2. ASSUME NEW i \in 1 .. Len(sockets'), NEW j \in 1 .. Len(sockets'), sockets'[i] = sockets'[j]
            PROVE i = j
        <4>1. i + 1 = j + 1
          BY <1>0, <2>2, <2>3, <3>2 DEF QueueInv
        <4>2. QED
          BY <2>2, <4>1
      <3>3. QED
        BY <3>1, <3>2 DEF QueueInv
    <2>5. hpc[sockets[1]] = "queued" /\ sockets[1] \in Conn
      BY <1>0, <2>2 DEF QueueInv
    <2>6. CancelGrows
      BY <2>1 DEF CancelGrows
    <2>7. /\ \A c \in Conn : hpc'[c] \in {"new", "queued", "read"} => hpc[c] \in {"new", "queued", "read"}
          /\ \A c \in Conn : hpc'[c] = "wait" => hpc[c] = "wait"
      BY <1>0, <2>1, <2>2, <2>5 DEF TypeConn
    <2>8. QED
      BY <1>1, <2>4, <2>6, <2>7, AnswerMove
  <1>3. CASE CloseSockets
    <2>1. /\ sockets' = <<>> /\ cancel' = cancel
          /\ hpc' = [c \in Conn |-> IF hpc[c] = "queued" THEN "closed" ELSE hpc[c]]
      BY <1>3 DEF CloseSockets, jobVars
    <2>2. QueueInv' /\ CancelGrows
      BY <2>1 DEF QueueInv, CancelGrows
    <2>3. /\ \A c \in Conn : hpc'[c] \in {"new", "queued", "read"} => hpc[c] \in {"new", "queued", "read"}
          /\ \A c \in Conn : hpc'[c] = "wait" => hpc[c] = "wait"
      BY <2>1
    <2>4. QED
      BY <1>1, <2>2, <2>3, AnswerMove
  <1>4. ASSUME NEW c \in Conn, Accept(c), Len(sockets) < QueueLimit PROVE AnswerInv'
    <2>1. /\ hpc[c] = "new" /\ sockets' = Append(sockets, c) /\ hpc' = [hpc EXCEPT ![c] = "queued"]
          /\ cancel' = cancel
      BY <1>4 DEF Accept, jobVars
    <2>2. /\ Len(sockets') = Len(sockets) + 1 /\ Len(sockets) \in Nat /\ sockets'[Len(sockets) + 1] = c
          /\ \A i \in 1 .. Len(sockets) : sockets'[i] = sockets[i] /\ sockets[i] \in Conn
      BY <1>0, <2>1, AppendProperties, ElementOfSeq DEF TypeMain
    <2>3. \A i \in 1 .. Len(sockets) : sockets[i] # c
      BY <1>0, <2>1 DEF QueueInv
    <2>4. QueueInv'
      <3>1. \A i \in 1 .. Len(sockets') : i \in 1 .. Len(sockets) \/ i = Len(sockets) + 1
        BY <2>2
      <3>2. ASSUME NEW i \in 1 .. Len(sockets') PROVE hpc'[sockets'[i]] = "queued"
        BY <1>0, <2>1, <2>2, <2>3, <3>1 DEF QueueInv, TypeConn
      <3>3. ASSUME NEW i \in 1 .. Len(sockets'), NEW j \in 1 .. Len(sockets'), sockets'[i] = sockets'[j]
            PROVE i = j
        BY <1>0, <2>2, <2>3, <3>1, <3>3 DEF QueueInv
      <3>4. QED
        BY <3>2, <3>3 DEF QueueInv
    <2>5. CancelGrows
      BY <2>1 DEF CancelGrows
    <2>6. /\ \A d \in Conn : hpc'[d] \in {"new", "queued", "read"} => hpc[d] \in {"new", "queued", "read"}
          /\ \A d \in Conn : hpc'[d] = "wait" => hpc[d] = "wait"
      BY <1>0, <2>1 DEF TypeConn
    <2>7. QED
      BY <1>1, <2>4, <2>5, <2>6, AnswerMove
  <1>5. ASSUME NEW c \in Conn, SeesDisconnect(c) PROVE AnswerInv'
    <2>1. /\ hpc[c] = "wait" /\ hpc' = [hpc EXCEPT ![c] = "cancel"]
          /\ cancel' = [cancel EXCEPT ![c] = TRUE] /\ sockets' = sockets
      BY <1>5 DEF SeesDisconnect, StartCancel, mainVars
    <2>2. CancelGrows
      BY <1>0, <2>1 DEF CancelGrows, TypeJobs
    <2>3. QueueInv'
      BY <1>0, <2>1 DEF QueueInv, TypeConn
    <2>4. /\ \A d \in Conn : hpc'[d] \in {"new", "queued", "read"} => hpc[d] \in {"new", "queued", "read"}
          /\ \A d \in Conn : hpc'[d] = "wait" => hpc[d] = "wait"
      BY <1>0, <2>1 DEF TypeConn
    <2>5. QED
      BY <1>1, <2>2, <2>3, <2>4, AnswerMove
  <1>6. QED
    BY <1>2, <1>3, <1>4, <1>5

(* A step of one handler: what it owes is about its own connection.        *)
LEMMA AnswerOne ==
    ASSUME AdmissionInv, AnswerInv, NEW c \in Conn, CancelGrows,
           UNCHANGED <<sockets, kind, jdone, jcode, pushed, ipc, job, code, dirty>>,
           \A d \in Conn : d # c => hpc'[d] = hpc[d] /\ out'[d] = out[d] /\ events'[d] = events[d],
           hpc[c] # "queued", hpc'[c] \notin {"new", "queued", "read"},
           \/ pending' = pending /\ active' = active
           \/ pending' = c /\ active' = c /\ ~jdone[c] /\ c # job,
           Finished(c)' => Finished(c),
           hpc'[c] = "wait" =>
              /\ Answering(Said(c)', pushed[c])
              /\ kind[c] # "stream" => Said(c)' = <<>>
              /\ kind[c] = "stream" /\ Announced(c) /\ code = "ok" => Len(Said(c)') = pushed[c] + 1
              /\ kind[c] = "stream" /\ jdone[c] /\ jcode[c] = "ok" => Len(Said(c)') = pushed[c] + 1,
           /\ Has(out'[c], "ok") => jdone[c] /\ jcode[c] = "ok"
           /\ Has(out'[c], "done") => jdone[c] /\ (Has(out'[c], "error") \/ Complete(out'[c], pushed[c]))
           /\ Has(out'[c], "finish") /\ Has(out'[c], "error") => cancel'[c]
    PROVE  AnswerInv'
  <1>0. QueueInv /\ FreshInv /\ DoneInv /\ FinishInv /\ StreamInv /\ WrittenInv
    BY DEF AnswerInv
  <1>1. \A d \in Conn : /\ d # c => Said(d)' = Said(d) /\ Finished(d)' = Finished(d)
                        /\ Announced(d)' = Announced(d)
    BY DEF Said, Finished, Announced
  <1>2. QueueInv'
    <2>1. \A i \in 1 .. Len(sockets) : sockets[i] \in Conn
      BY ElementOfSeq DEF AdmissionInv, TypeMain
    <2>2. QED
      BY <1>0, <2>1 DEF QueueInv
  <1>3. FreshInv'
    BY <1>0 DEF FreshInv
  <1>4. DoneInv'
    BY <1>0 DEF DoneInv
  <1>5. FinishInv'
    <2> SUFFICES ASSUME NEW d \in Conn
                 PROVE /\ Finished(d)' => (Announced(d)' \/ jdone'[d]) /\ ~(dirty' /\ job' = d)
                       /\ Finished(d)' /\ Announced(d)' /\ code' = "error" => cancel'[d]
                       /\ Finished(d)' /\ jdone'[d] /\ jcode'[d] = "error" => cancel'[d]
                       /\ jdone'[d] /\ jcode'[d] = "ok" => ~(dirty' /\ job' = d)
                       /\ Announced(d)' /\ code' = "ok" => ~dirty'
      BY DEF FinishInv
    <2>1. Finished(d)' => Finished(d)
      BY <1>1
    <2>2. QED
      BY <1>0, <1>1, <2>1 DEF FinishInv, CancelGrows
  <1>6. StreamInv'
    <2> SUFFICES ASSUME NEW d \in Conn, hpc'[d] = "wait"
                 PROVE /\ Answering(Said(d)', pushed'[d])
                       /\ kind'[d] # "stream" => Said(d)' = <<>>
                       /\ kind'[d] = "stream" /\ Announced(d)' /\ code' = "ok" => Len(Said(d)') = pushed'[d] + 1
                       /\ kind'[d] = "stream" /\ jdone'[d] /\ jcode'[d] = "ok" => Len(Said(d)') = pushed'[d] + 1
      BY DEF StreamInv
    <2>1. CASE d = c
      BY <1>1, <2>1
    <2>2. CASE d # c
      BY <1>0, <1>1, <2>2 DEF StreamInv
    <2>3. QED
      BY <2>1, <2>2
  <1>7. WrittenInv'
    <2> SUFFICES ASSUME NEW d \in Conn
                 PROVE /\ Has(out'[d], "ok") => jdone'[d] /\ jcode'[d] = "ok"
                       /\ Has(out'[d], "done") =>
                             jdone'[d] /\ (Has(out'[d], "error") \/ Complete(out'[d], pushed'[d]))
                       /\ Has(out'[d], "finish") /\ Has(out'[d], "error") => cancel'[d]
      BY DEF WrittenInv
    <2>1. CASE d = c
      BY <2>1
    <2>2. CASE d # c
      BY <1>0, <2>2 DEF WrittenInv, CancelGrows
    <2>3. QED
      BY <2>1, <2>2
  <1>8. QED
    BY <1>2, <1>3, <1>4, <1>5, <1>6, <1>7 DEF AnswerInv

(* A connection that is refused, or given up, before or after its job.     *)
LEMMA AnswerRefused ==
    ASSUME AdmissionInv, AnswerInv, NEW c \in Conn, hpc[c] # "queued",
           hpc' = [hpc EXCEPT ![c] = "closed"], CancelGrows,
           UNCHANGED <<sockets, kind, events, jdone, jcode, pushed, pending, active, ipc, job, code, dirty>>,
           \/ out' = out
           \/ /\ out[c] = <<>>
              /\ \E w \in {"refused", "error"} : out' = [out EXCEPT ![c] = <<w>>]
    PROVE  AnswerInv'
  <1>0. TypeConn /\ WrittenInv
    BY DEF AdmissionInv, AnswerInv
  <1>1. /\ hpc'[c] = "closed" /\ events'[c] = events[c]
        /\ \A d \in Conn : d # c => hpc'[d] = hpc[d] /\ out'[d] = out[d] /\ events'[d] = events[d]
    BY <1>0 DEF TypeConn
  <1>2. CASE out' = out
    <2>1. out'[c] = out[c]
      BY <1>2
    <2>2. Finished(c)' => Finished(c)
      BY <1>1, <2>1 DEF Finished
    <2>3. /\ Has(out'[c], "ok") => jdone[c] /\ jcode[c] = "ok"
          /\ Has(out'[c], "done") => jdone[c] /\ (Has(out'[c], "error") \/ Complete(out'[c], pushed[c]))
          /\ Has(out'[c], "finish") /\ Has(out'[c], "error") => cancel'[c]
      BY <1>0, <2>1 DEF WrittenInv, CancelGrows
    <2>4. QED
      BY <1>1, <2>2, <2>3, AnswerOne
  <1>3. CASE out[c] = <<>> /\ \E w \in {"refused", "error"} : out' = [out EXCEPT ![c] = <<w>>]
    <2>1. PICK w \in {"refused", "error"} : out'[c] = <<w>>
      BY <1>0, <1>3 DEF TypeConn
    <2>2. ~Has(out'[c], "ok") /\ ~Has(out'[c], "done") /\ ~Has(out'[c], "finish")
      BY <2>1, HasOne
    <2>3. Finished(c)' => Finished(c)
      BY <1>1, <2>2 DEF Finished
    <2>4. QED
      BY <1>1, <2>2, <2>3, AnswerOne
  <1>4. QED
    BY <1>2, <1>3

(* The actions that are such steps.                                        *)
LEMMA AnswerRefusedActions ==
    ASSUME AdmissionInv, AnswerInv, NEW c \in Conn,
           \/ Accept(c) /\ ~(Len(sockets) < QueueLimit)
           \/ Answer(c) \/ (Admit(c) /\ (Unavailable \/ active # None))
           \/ EndCancel(c) \/ HandleThrows(c)
    PROVE  AnswerInv'
  <1>0. TypeConn /\ TypeJobs /\ FreshInv
    BY DEF AdmissionInv, AnswerInv
  <1>1. out[c] \in Seq(Item \cup {"error", "done", "ok", "refused"})
    BY <1>0 DEF TypeConn
  <1>2. CASE Accept(c) /\ ~(Len(sockets) < QueueLimit)
    <2>1. /\ hpc[c] = "new" /\ hpc' = [hpc EXCEPT ![c] = "closed"]
          /\ out' = [out EXCEPT ![c] = <<"refused">>] /\ cancel' = cancel
          /\ UNCHANGED <<sockets, kind, events, jdone, jcode, pushed, pending, active, ipc, job, code, dirty>>
      BY <1>2 DEF Accept, jobVars, coordVars, inferVars
    <2>2. out[c] = <<>> /\ CancelGrows
      BY <1>0, <2>1 DEF FreshInv, CancelGrows
    <2>3. \E w \in {"refused", "error"} : out' = [out EXCEPT ![c] = <<w>>]
      BY <2>1
    <2>4. QED
      BY <2>1, <2>2, <2>3, AnswerRefused
  <1>3. CASE Answer(c) \/ (Admit(c) /\ (Unavailable \/ active # None))
    <2>1. /\ hpc[c] = "read" /\ hpc' = [hpc EXCEPT ![c] = "closed"]
          /\ out' = [out EXCEPT ![c] = out[c] \o <<"refused">>] /\ cancel' = cancel
          /\ UNCHANGED <<sockets, kind, events, jdone, jcode, pushed, pending, active, ipc, job, code, dirty>>
      BY <1>3 DEF Answer, Admit, Close, mainVars, jobVars, coordVars, inferVars
    <2>2. out[c] = <<>> /\ CancelGrows
      BY <1>0, <2>1 DEF FreshInv, CancelGrows
    <2>3. <<>> \o <<"refused">> = <<"refused">>
      BY ConcatEmptySeq
    <2>4. \E w \in {"refused", "error"} : out' = [out EXCEPT ![c] = <<w>>]
      BY <2>1, <2>2, <2>3
    <2>5. QED
      BY <2>1, <2>2, <2>4, AnswerRefused
  <1>4. CASE EndCancel(c)
    <2>1. /\ hpc[c] = "cancel" /\ hpc' = [hpc EXCEPT ![c] = "closed"] /\ out' = out /\ cancel' = cancel
          /\ UNCHANGED <<sockets, kind, events, jdone, jcode, pushed, pending, active, ipc, job, code, dirty>>
      BY <1>4 DEF EndCancel, mainVars, jobVars, inferVars
    <2>2. CancelGrows
      BY <2>1 DEF CancelGrows
    <2>3. QED
      BY <2>1, <2>2, AnswerRefused
  <1>5. CASE HandleThrows(c)
    <2>1. /\ hpc[c] = "wait" /\ hpc' = [hpc EXCEPT ![c] = "closed"]
          /\ out' = [out EXCEPT ![c] = out[c] \o (IF out[c] = <<>> THEN <<"error">> ELSE <<>>)]
          /\ cancel' = [cancel EXCEPT ![c] = cancel[c] \/ active = c]
          /\ UNCHANGED <<sockets, kind, events, jdone, jcode, pushed, pending, active, ipc, job, code, dirty>>
      BY <1>5 DEF HandleThrows, Close, mainVars, coordVars, inferVars
    <2>2. CancelGrows
      BY <1>0, <2>1 DEF CancelGrows, TypeJobs
    <2>3. <<>> \o <<"error">> = <<"error">> /\ out[c] \o <<>> = out[c]
      BY <1>1, ConcatEmptySeq
    <2>4. \/ out' = out
          \/ out[c] = <<>> /\ \E w \in {"refused", "error"} : out' = [out EXCEPT ![c] = <<w>>]
      <3>1. CASE out[c] = <<>>
        BY <2>1, <2>3, <3>1
      <3>2. CASE out[c] # <<>>
        <4>1. out' = [out EXCEPT ![c] = out[c]]
          BY <2>1, <2>3, <3>2
        <4>2. QED
          BY <1>0, <4>1 DEF TypeConn
      <3>3. QED
        BY <3>1, <3>2
    <2>5. QED
      BY <2>1, <2>2, <2>4, AnswerRefused
  <1>6. QED
    BY <1>2, <1>3, <1>4, <1>5

(* A request is admitted: nothing has been said to it yet.                 *)
LEMMA AnswerAdmit ==
    ASSUME AdmissionInv, AnswerInv, NEW c \in Conn, Admit(c), ~(Unavailable \/ active # None)
    PROVE  AnswerInv'
  <1>0. TypeConn /\ FreshInv /\ WrittenInv
    BY DEF AdmissionInv, AnswerInv
  <1>1. /\ hpc[c] = "read" /\ hpc' = [hpc EXCEPT ![c] = "wait"] /\ active' = c /\ pending' = c
        /\ UNCHANGED <<sockets, kind, out, events, cancel, jdone, jcode, pushed, ipc, job, code, dirty>>
    BY DEF Admit, mainVars, jobVars, inferVars
  <1>2. /\ hpc'[c] = "wait"
        /\ \A d \in Conn : d # c => hpc'[d] = hpc[d] /\ out'[d] = out[d] /\ events'[d] = events[d]
    BY <1>0, <1>1 DEF TypeConn
  <1>3. out[c] = <<>> /\ events[c] = <<>> /\ pushed[c] = 0 /\ ~jdone[c] /\ c # job
    BY <1>0, <1>1 DEF FreshInv
  <1>4. Said(c)' = <<>> /\ Finished(c)' = Finished(c) /\ out'[c] = out[c]
    BY <1>1, <1>3, ConcatEmptySeq, EmptySeq DEF Said, Finished
  <1>5. Answering(<<>>, 0)
    BY DEF Answering
  <1>6. CancelGrows /\ ~Announced(c)
    BY <1>1, <1>3 DEF CancelGrows, Announced
  <1>7. /\ Has(out'[c], "ok") => jdone[c] /\ jcode[c] = "ok"
        /\ Has(out'[c], "done") => jdone[c] /\ (Has(out'[c], "error") \/ Complete(out'[c], pushed[c]))
        /\ Has(out'[c], "finish") /\ Has(out'[c], "error") => cancel'[c]
    BY <1>3, <1>4, HasOne
  <1>8. hpc[c] # "queued" /\ hpc'[c] \notin {"new", "queued", "read"}
    BY <1>1, <1>2
  <1>9. Answering(Said(c)', pushed[c]) /\ Said(c)' = <<>>
    BY <1>3, <1>4, <1>5
  <1>10. QED
    BY <1>1, <1>2, <1>3, <1>4, <1>6, <1>7, <1>8, <1>9, AnswerOne

(* A failed write loses the event it was about; the handler gives up.      *)
LEMMA AnswerWriteFails ==
    ASSUME AdmissionInv, AnswerInv, NEW c \in Conn, WriteFails(c)
    PROVE  AnswerInv'
  <1>0. TypeConn /\ TypeJobs /\ WrittenInv
    BY DEF AdmissionInv, AnswerInv
  <1>1. /\ hpc[c] = "wait" /\ hpc' = [hpc EXCEPT ![c] = "cancel"] /\ events[c] # <<>>
        /\ events' = [events EXCEPT ![c] = Tail(events[c])] /\ cancel' = [cancel EXCEPT ![c] = TRUE]
        /\ UNCHANGED <<sockets, kind, out, jdone, jcode, pushed, pending, active, ipc, job, code, dirty>>
    BY DEF WriteFails, StartCancel, mainVars, coordVars, inferVars
  <1>2. /\ hpc'[c] = "cancel" /\ events'[c] = Tail(events[c]) /\ out'[c] = out[c] /\ events[c] \in Seq(Item)
        /\ \A d \in Conn : d # c => hpc'[d] = hpc[d] /\ out'[d] = out[d] /\ events'[d] = events[d]
    BY <1>0, <1>1 DEF TypeConn, TypeJobs
  <1>3. Finished(c)' => Finished(c)
    BY <1>1, <1>2, HasTail DEF Finished
  <1>4. CancelGrows
    BY <1>0, <1>1 DEF CancelGrows, TypeJobs
  <1>5. /\ Has(out'[c], "ok") => jdone[c] /\ jcode[c] = "ok"
        /\ Has(out'[c], "done") => jdone[c] /\ (Has(out'[c], "error") \/ Complete(out'[c], pushed[c]))
        /\ Has(out'[c], "finish") /\ Has(out'[c], "error") => cancel'[c]
    BY <1>0, <1>2, <1>4 DEF WrittenInv, CancelGrows
  <1>6. QED
    BY <1>1, <1>2, <1>3, <1>4, <1>5, AnswerOne

(* Words written after an answer, before [DONE] or instead of it.          *)
LEMMA EndingWords ==
    ASSUME NEW b \in BOOLEAN, NEW r \in {"ok", "error"}
    PROVE  /\ ~Has(Ending(b, r), "finish")
           /\ Has(Ending(b, r), "ok") <=> ~b /\ r = "ok"
           /\ Has(Ending(b, r), "error") <=> r = "error"
           /\ Has(Ending(b, r), "done") <=> b
  <1>1. CASE b /\ r = "ok"
    <2>1. Ending(b, r) = <<"done">>
      BY <1>1 DEF Ending
    <2>2. \A x : Has(Ending(b, r), x) <=> x = "done"
      BY <2>1, HasOne
    <2>3. QED
      BY <1>1, <2>2
  <1>2. CASE b /\ r = "error"
    <2>1. Ending(b, r) = <<"error", "done">>
      BY <1>2 DEF Ending
    <2>2. \A x : Has(Ending(b, r), x) <=> x = "error" \/ x = "done"
      BY <2>1, HasTwo
    <2>3. QED
      BY <1>2, <2>2
  <1>3. CASE ~b
    <2>1. Ending(b, r) = <<r>>
      BY <1>3 DEF Ending
    <2>2. QED
      BY <1>3, <2>1, HasOne
  <1>4. QED
    BY <1>1, <1>2, <1>3

(* A finished answer and [DONE] are the complete stream.                   *)
LEMMA CompleteAnswer ==
    ASSUME NEW s, NEW n \in Nat, Answering(s, n), Len(s) = n + 1
    PROVE  Complete(s \o <<"done">>, n)
  <1>1. s \in Seq(Item) /\ \A i \in 1 .. Len(s) : s[i] = IF i <= n THEN "delta" ELSE "finish"
    BY DEF Answering
  <1> DEFINE W == Item \cup {"done"}
             e == <<"done">>
  <1>2. s \in Seq(W) /\ e \in Seq(W) /\ Len(e) = 1 /\ e[1] = "done"
    BY <1>1
  <1> HIDE DEF W, e
  <1>3. /\ Len(s \o e) = Len(s) + Len(e)
        /\ \A i \in 1 .. Len(s) + Len(e) : (s \o e)[i] = IF i <= Len(s) THEN s[i] ELSE e[i - Len(s)]
    BY <1>2, ConcatProperties
  <1>4. Len(s \o e) = n + 2
    BY <1>2, <1>3
  <1>5. \A i \in 1 .. n : (s \o e)[i] = "delta"
    BY <1>1, <1>2, <1>3
  <1>6. (s \o e)[n + 1] = "finish"
    BY <1>1, <1>2, <1>3
  <1>7. (s \o e)[n + 2] = "done"
    <2>1. n + 2 \in 1 .. Len(s) + Len(e) /\ ~(n + 2 <= Len(s)) /\ (n + 2) - Len(s) = 1
      BY <1>2
    <2>2. QED
      BY <1>2, <1>3, <2>1
  <1>8. QED
    BY <1>4, <1>5, <1>6, <1>7 DEF Complete, e

(* The handler writes an event, or ends the answer of a job that is done.  *)
LEMMA AnswerRelay ==
    ASSUME AdmissionInv, AnswerInv, NEW c \in Conn, Relay(c)
    PROVE  AnswerInv'
  <1>0. TypeConn /\ TypeJobs /\ FinishInv /\ StreamInv /\ WrittenInv
    BY DEF AdmissionInv, AnswerInv
  <1> DEFINE item == IF events[c] = <<>> THEN <<>> ELSE <<Head(events[c])>>
             rest == IF events[c] = <<>> THEN <<>> ELSE Tail(events[c])
             w == out[c] \o item
             E == Ending(w # <<>>, jcode[c])
             W == Item \cup {"error", "done", "ok", "refused"}
  <1>1. /\ hpc[c] = "wait" /\ (jdone[c] \/ item # <<>>) /\ events' = [events EXCEPT ![c] = rest]
        /\ IF jdone[c] /\ rest = <<>>
           THEN Close(c, item \o E)
           ELSE out' = [out EXCEPT ![c] = w] /\ UNCHANGED hpc
        /\ UNCHANGED <<sockets, kind, cancel, jdone, jcode, pushed, pending, active, ipc, job, code, dirty>>
    BY DEF Relay, mainVars, coordVars, inferVars
  <1>2. /\ events[c] \in Seq(Item) /\ pushed[c] \in Nat /\ out[c] \in Seq(W) /\ jcode[c] \in {"ok", "error"}
        /\ Item \subseteq W
    BY <1>0 DEF TypeJobs, TypeConn
  <1>3. item \in Seq(Item) /\ rest \in Seq(Item)
    BY <1>2, HeadOrNothing
  <1>4. item \in Seq(W) /\ rest \in Seq(W) /\ events[c] \in Seq(W)
    <2>1. \A s \in Seq(Item) : s \in Seq(W)
      BY <1>2
    <2> HIDE DEF item, rest, W
    <2>2. QED
      BY <1>2, <1>3, <2>1
  <1>5. w \in Seq(W)
    BY <1>2, <1>4, ConcatProperties
  <1>6. w \o rest = Said(c)
    <2>1. CASE events[c] = <<>>
      <3>1. item = <<>> /\ rest = <<>> /\ Said(c) = out[c] \o <<>>
        BY <2>1 DEF Said
      <3>2. w = out[c] /\ out[c] \o <<>> = out[c]
        BY <1>2, <3>1, ConcatEmptySeq
      <3>3. QED
        BY <3>1, <3>2
    <2>2. CASE events[c] # <<>>
      <3>1. item = <<Head(events[c])>> /\ rest = Tail(events[c])
        BY <2>2
      <3>2. (out[c] \o <<Head(events[c])>>) \o Tail(events[c]) = out[c] \o events[c]
        <4> HIDE DEF W
        <4>1. \A a, s \in Seq(W) : s # <<>> => (a \o <<Head(s)>>) \o Tail(s) = a \o s
          BY SaidMoves
        <4>2. QED
          BY <1>2, <1>4, <2>2, <4>1
      <3>3. QED
        BY <3>1, <3>2 DEF Said
    <2>3. QED
      BY <2>1, <2>2
  <1>7. (Has(item, "finish") \/ Has(rest, "finish")) <=> Has(events[c], "finish")
    <2>1. CASE events[c] = <<>>
      BY <2>1, HasOne
    <2>2. CASE events[c] # <<>>
      <3>1. item = <<Head(events[c])>> /\ rest = Tail(events[c])
        BY <2>2
      <3>2. QED
        BY <1>2, <2>2, <3>1, HasTail, HasOne
    <2>3. QED
      BY <2>1, <2>2
  <1>8. /\ Answering(Said(c), pushed[c]) /\ (kind[c] # "stream" => Said(c) = <<>>)
        /\ kind[c] = "stream" /\ Announced(c) /\ code = "ok" => Len(Said(c)) = pushed[c] + 1
        /\ kind[c] = "stream" /\ jdone[c] /\ jcode[c] = "ok" => Len(Said(c)) = pushed[c] + 1
    BY <1>0, <1>1 DEF StreamInv
  <1>9. CancelGrows
    BY <1>1 DEF CancelGrows
  <1>10. events'[c] = rest /\ \A d \in Conn : d # c => events'[d] = events[d]
    BY <1>0, <1>1 DEF TypeJobs
  <1>11. /\ E \in Seq(W) /\ ~Has(E, "finish") /\ (Has(E, "ok") <=> w = <<>> /\ jcode[c] = "ok")
         /\ (Has(E, "error") <=> jcode[c] = "error") /\ (Has(E, "done") <=> w # <<>>)
    BY <1>2, EndingType, EndingWords
  <1>12. E = <<"done">> \/ ~(w # <<>> /\ jcode[c] = "ok")
    BY DEF Ending
  <1>13. ~Has(Said(c), "ok") /\ ~Has(Said(c), "done") /\ ~Has(Said(c), "error")
    BY <1>2, <1>8, AnsweringWords DEF Item
  <1>14. Has(w, "finish") => Finished(c)
    <2>1. Has(w, "finish") <=> Has(out[c], "finish") \/ Has(item, "finish")
      BY <1>2, <1>4, HasConcat
    <2>2. QED
      BY <1>7, <2>1 DEF Finished
  <1>15. Has(rest, "finish") => Finished(c)
    BY <1>7 DEF Finished
  <1>16. \A x : Has(w, x) => Has(Said(c), x)
    <2> HIDE DEF w, rest, W
    <2>1. \A x : Has(w \o rest, x) <=> Has(w, x) \/ Has(rest, x)
      BY <1>4, <1>5, HasConcat
    <2>2. QED
      BY <1>6, <2>1
  <1> HIDE DEF item, rest, w, E, W
  <1>17. CASE ~(jdone[c] /\ rest = <<>>)
    <2>1. out' = [out EXCEPT ![c] = w] /\ hpc' = hpc
      BY <1>1, <1>17
    <2>2. out'[c] = w /\ \A d \in Conn : d # c => hpc'[d] = hpc[d] /\ out'[d] = out[d]
      BY <1>0, <2>1 DEF TypeConn
    <2>3. Said(c)' = Said(c)
      BY <1>6, <1>10, <2>2 DEF Said
    <2>4. Finished(c)' => Finished(c)
      BY <1>10, <1>14, <1>15, <2>2 DEF Finished
    <2>5. ~Has(out'[c], "ok") /\ ~Has(out'[c], "done") /\ ~Has(out'[c], "error")
      BY <1>13, <1>16, <2>2
    <2>6. hpc[c] # "queued" /\ hpc'[c] \notin {"new", "queued", "read"}
      BY <1>1, <2>1
    <2>7. \A d \in Conn : d # c => hpc'[d] = hpc[d] /\ out'[d] = out[d] /\ events'[d] = events[d]
      BY <1>10, <2>2
    <2>8. QED
      BY <1>1, <1>8, <1>9, <2>3, <2>4, <2>5, <2>6, <2>7, AnswerOne
  <1>18. CASE jdone[c] /\ rest = <<>>
    <2>1. hpc' = [hpc EXCEPT ![c] = "closed"] /\ out' = [out EXCEPT ![c] = out[c] \o (item \o E)]
      BY <1>1, <1>18 DEF Close
    <2>2. out[c] \o (item \o E) = w \o E
      <3>1. \A a, s, t \in Seq(W) : (a \o s) \o t = a \o (s \o t)
        BY ConcatAssociative
      <3>2. (out[c] \o item) \o E = out[c] \o (item \o E)
        BY <1>2, <1>4, <1>11, <3>1
      <3>3. QED
        BY <3>2 DEF w
    <2>3. /\ out'[c] = w \o E /\ hpc'[c] = "closed"
          /\ \A d \in Conn : d # c => hpc'[d] = hpc[d] /\ out'[d] = out[d]
      BY <1>0, <2>1, <2>2 DEF TypeConn
    <2>4. w = Said(c)
      BY <1>5, <1>6, <1>18, ConcatEmptySeq
    <2>5. \A x : Has(out'[c], x) <=> Has(w, x) \/ Has(E, x)
      BY <1>5, <1>11, <2>3, HasConcat
    <2>6. Finished(c)' => Finished(c)
      BY <1>10, <1>11, <1>14, <1>15, <2>5 DEF Finished
    <2>7. Has(out'[c], "ok") => jdone[c] /\ jcode[c] = "ok"
      BY <1>11, <1>13, <1>18, <2>4, <2>5
    <2>8. Has(out'[c], "done") => jdone[c] /\ (Has(out'[c], "error") \/ Complete(out'[c], pushed[c]))
      <3>1. SUFFICES ASSUME Has(out'[c], "done"), jcode[c] = "ok" PROVE Complete(out'[c], pushed[c])
        BY <1>2, <1>11, <1>18, <2>5
      <3>2. w # <<>>
        BY <1>11, <1>13, <2>4, <2>5, <3>1
      <3>3. E = <<"done">>
        BY <1>12, <3>1, <3>2
      <3>4. Len(w) = pushed[c] + 1 /\ Answering(w, pushed[c])
        BY <1>8, <1>18, <2>4, <3>1, <3>2
      <3>5. QED
        BY <1>2, <2>3, <3>3, <3>4, CompleteAnswer
    <2>9. Has(out'[c], "finish") /\ Has(out'[c], "error") => cancel'[c]
      <3>1. SUFFICES ASSUME Has(out'[c], "finish"), Has(out'[c], "error") PROVE cancel[c]
        BY <1>1
      <3>2. Finished(c) /\ jcode[c] = "error"
        BY <1>11, <1>13, <1>14, <2>4, <2>5, <3>1
      <3>3. QED
        BY <1>0, <1>18, <3>2 DEF FinishInv
    <2>10. hpc[c] # "queued" /\ hpc'[c] \notin {"new", "queued", "read", "wait"}
      BY <1>1, <2>3
    <2>11. \A d \in Conn : d # c => hpc'[d] = hpc[d] /\ out'[d] = out[d] /\ events'[d] = events[d]
      BY <1>10, <2>3
    <2>12. QED
      BY <1>1, <1>9, <2>6, <2>7, <2>8, <2>9, <2>10, <2>11, AnswerOne
  <1>19. QED
    BY <1>17, <1>18

(* Every step of the server keeps the invariant of the answers.            *)
LEMMA AnswerStep == AdmissionInv /\ AnswerInv /\ [Next]_vars => AnswerInv'
  <1> SUFFICES ASSUME AdmissionInv, AnswerInv, [Next]_vars PROVE AnswerInv'
    OBVIOUS
  <1>1. CASE Delta \/ Announce
    <2>1. CASE Delta
      BY <2>1, AnswerPush, AnswerServingActions
    <2>2. CASE Announce
      BY <2>2, AnswerPush, AnswerServingActions
    <2>3. QED
      BY <1>1, <2>1, <2>2
  <1>2. ASSUME NEW c \in Conn, Accept(c) \/ Disconnect(c) \/ Handle(c) \/ WriteFails(c) \/ HandleThrows(c)
        PROVE  AnswerInv'
    <2>1. CASE Admit(c)
      BY <2>1, AnswerAdmit, AnswerRefusedActions
    <2>2. CASE Accept(c)
      BY <2>2, AnswerMoveActions, AnswerRefusedActions
    <2>3. QED
      BY <1>2, <2>1, <2>2, AnswerQuietActions, AnswerMoveActions, AnswerRefusedActions,
         AnswerWriteFails, AnswerRelay DEF Handle
  <1>3. QED
    BY <1>1, <1>2, AnswerQuietActions, AnswerMoveActions, AnswerTakeJob, AnswerPublish,
       AnswerReleasing, AnswerServingActions DEF Next, Inference

(* What the invariant of the answers is for.                               *)
LEMMA AnswerFollows == AdmissionInv /\ AnswerInv => AnswersExact
  <1> SUFFICES ASSUME AdmissionInv, AnswerInv PROVE AnswersExact
    OBVIOUS
  <1>0. FinishInv /\ WrittenInv /\ TypeConn /\ TypeJobs
    BY DEF AdmissionInv, AnswerInv
  <1>1. \A c \in Conn : \A x : Written(c, x) <=> Has(out[c], x)
    BY DEF Written, Has
  <1>2. SuccessAfterDrain
    <2> SUFFICES ASSUME NEW c \in Conn,
                        Written(c, "finish") \/ Written(c, "ok") \/ Count(events[c], "finish") > 0
                 PROVE  ~(dirty /\ job = c)
      BY DEF SuccessAfterDrain
    <2>1. CASE Has(out[c], "finish") \/ Has(events[c], "finish")
      BY <1>0, <2>1 DEF FinishInv, Finished
    <2>2. CASE Has(out[c], "ok")
      BY <1>0, <2>2 DEF FinishInv, WrittenInv
    <2>3. Count(events[c], "finish") > 0 => Has(events[c], "finish")
      <3>1. ~Has(events[c], "finish") => {i \in 1 .. Len(events[c]) : events[c][i] = "finish"} = {}
        BY DEF Has
      <3>2. ~Has(events[c], "finish") => Count(events[c], "finish") = 0
        BY <3>1, FS_EmptySet DEF Count
      <3>3. QED
        BY <3>2
    <2>4. QED
      BY <1>1, <2>1, <2>2, <2>3
  <1>3. StreamComplete
    <2> SUFFICES ASSUME NEW c \in Conn, Has(out[c], "done"), ~Has(out[c], "error")
                 PROVE  /\ Count(out[c], "delta") = pushed[c]
                        /\ Len(out[c]) = pushed[c] + 2 /\ out[c][pushed[c] + 1] = "finish"
      BY <1>1 DEF StreamComplete
    <2>1. Complete(out[c], pushed[c]) /\ pushed[c] \in Nat
      BY <1>0 DEF WrittenInv, TypeJobs
    <2>2. {i \in 1 .. Len(out[c]) : out[c][i] = "delta"} = 1 .. pushed[c]
      BY <2>1 DEF Complete
    <2>3. Cardinality(1 .. pushed[c]) = pushed[c]
      BY <2>1, FS_Interval
    <2>4. QED
      BY <2>1, <2>2, <2>3 DEF Complete, Count
  <1>4. FinishStands
    BY <1>0, <1>1 DEF WrittenInv, FinishStands
  <1>5. QED
    BY <1>2, <1>3, <1>4 DEF AnswersExact

(* What a client reads to its end is what was generated: no success before *)
(* the drain, no event missing before the finish, no error object after    *)
(* it, whatever the client, the other clients and the executor do.         *)
THEOREM AnswersCorrect == Spec => []AnswersExact
  <1>1. Init => AdmissionInv /\ AnswerInv
    BY AdmissionInit, AnswerInit
  <1>2. (AdmissionInv /\ AnswerInv) /\ [Next]_vars => (AdmissionInv /\ AnswerInv)'
    BY AdmissionStep, AnswerStep
  <1>3. QED
    BY <1>1, <1>2, AnswerFollows, PTL DEF Spec
=============================================================================
