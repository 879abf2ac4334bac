--------------------------- MODULE SessionProofs ---------------------------
(***************************************************************************)
(* Proofs about Session for any vocabulary, context, batch and chunk size  *)
(* and number of layers: the recurrent state, the session's record and the *)
(* logits never drift apart (ContinuationExact), and a history that could  *)
(* be continued is not dropped (HistorySurvives).                          *)
(***************************************************************************)
EXTENDS Session, SequenceTheorems, TLAPS

(* Whether the state is usable, at each point of a request.                *)
StateInv ==
    /\ pc = "idle" => state \in {"none", "valid"}
    /\ pc \in {"ingest", "sample", "return"} => state = "valid"
    /\ pc = "forward" => state \in {"valid", "invalid"}
    /\ state = "none" => retained = <<>>

(* The model has consumed what the session recorded, and in a forward pass *)
(* its batch too, layer by layer.                                          *)
HistoryInv ==
    /\ pc # "return" => committed = retained
    /\ pc = "return" => committed = retained \o batch
    /\ state # "invalid" => \A l \in Layer : position[l] = Len(committed)
    /\ IsPrefix(logits, retained)
    /\ pc = "sample" /\ emitted > 0 => logits = retained

(* How far the request has come: while the prompt is ingested nothing is   *)
(* emitted, and afterwards every token but the last has been recorded.     *)
ProgressInv ==
    /\ pc = "idle" => prompt = <<>> /\ Len(retained) <= Context
    /\ pc = "ingest" => emitted = 0 /\ Len(retained) <= Len(prompt)
    /\ pc \in {"forward", "return"} =>
          /\ batch # <<>>
          /\ \/ emitted = 0 /\ Len(retained) + Len(batch) <= Len(prompt)
             \/ 0 < emitted /\ emitted < max /\ Len(batch) = 1
                /\ Len(retained) + 1 = Len(prompt) + emitted
    /\ pc = "sample" => emitted < max /\ Len(retained) = Len(prompt) + emitted

(* The inductive invariant.                                                *)
SessionInv == TypeOK /\ StateInv /\ HistoryInv /\ ProgressInv
-----------------------------------------------------------------------------
(* A prefix agrees with the longer sequence element by element.            *)
LEMMA PrefixElements ==
    ASSUME NEW S, NEW s \in Seq(S), NEW t \in Seq(S)
    PROVE  IsPrefix(s, t) <=> Len(s) <= Len(t) /\ \A i \in 1 .. Len(s) : s[i] = t[i]
  <1>1. Len(s) \in Nat /\ Len(t) \in Nat
    OBVIOUS
  <1>2. ASSUME Len(s) <= Len(t)
        PROVE  SubSeq(s, 1, Len(s)) = SubSeq(t, 1, Len(s)) <=> \A i \in 1 .. Len(s) : s[i] = t[i]
    <2> DEFINE a == SubSeq(s, 1, Len(s))
               b == SubSeq(t, 1, Len(s))
    <2>1. a \in Seq(S) /\ Len(a) = Len(s) /\ \A i \in 1 .. Len(s) : a[i] = s[i]
      BY <1>1
    <2>2. b \in Seq(S) /\ Len(b) = Len(s) /\ \A i \in 1 .. Len(s) : b[i] = t[i]
      BY <1>1, <1>2
    <2> HIDE DEF a, b
    <2>3. a = b <=> \A i \in 1 .. Len(s) : a[i] = b[i]
      BY <1>1, <2>1, <2>2, SeqEqual
    <2>4. a = b <=> \A i \in 1 .. Len(s) : s[i] = t[i]
      BY <2>1, <2>2, <2>3
    <2>5. QED
      BY <2>4 DEF a, b
  <1>3. QED
    BY <1>2 DEF IsPrefix

(* The empty sequence is a prefix of every sequence.                       *)
LEMMA EmptyPrefix ==
    ASSUME NEW S, NEW s \in Seq(S)
    PROVE  IsPrefix(<<>>, s)
  <1>1. Len(<<>>) = 0 /\ Len(s) \in Nat
    OBVIOUS
  <1>2. SubSeq(<<>>, 1, 0) = <<>> /\ SubSeq(s, 1, 0) = <<>>
    BY SubSeqEmpty
  <1>3. QED
    BY <1>1, <1>2 DEF IsPrefix

(* What the session needs to know of prefixes.                             *)
LEMMA PrefixFacts ==
    ASSUME NEW S, NEW s \in Seq(S), NEW t \in Seq(S), NEW u \in Seq(S)
    PROVE  /\ IsPrefix(s, s)
           /\ IsPrefix(<<>>, s)
           /\ IsPrefix(s, <<>>) => s = <<>>
           /\ IsPrefix(s, t) => Len(s) <= Len(t)
           /\ IsPrefix(s, t) => IsPrefix(s, t \o u)
           /\ IsPrefix(s, s \o u)
  <1>1. <<>> \in Seq(S) /\ Len(<<>>) = 0 /\ Len(s) \in Nat /\ Len(t) \in Nat /\ Len(u) \in Nat
    OBVIOUS
  <1>2. IsPrefix(s, s) /\ IsPrefix(<<>>, s) /\ (IsPrefix(s, t) => Len(s) <= Len(t))
    <2>1. IsPrefix(s, s)
      BY <1>1, PrefixElements
    <2>2. IsPrefix(s, t) => Len(s) <= Len(t)
      BY PrefixElements
    <2>3. QED
      BY <2>1, <2>2, EmptyPrefix
  <1>3. IsPrefix(s, <<>>) => s = <<>>
    <2>1. IsPrefix(s, <<>>) => Len(s) <= 0
      BY <1>1, PrefixElements
    <2>2. QED
      BY <1>1, <2>1
  <1>4. ASSUME NEW r \in Seq(S), IsPrefix(s, r) PROVE IsPrefix(s, r \o u)
    <2>1. Len(s) <= Len(r) /\ Len(r) \in Nat /\ \A i \in 1 .. Len(s) : s[i] = r[i]
      BY <1>4, PrefixElements
    <2>2. /\ r \o u \in Seq(S) /\ Len(r \o u) = Len(r) + Len(u)
          /\ \A i \in 1 .. Len(r) + Len(u) : (r \o u)[i] = IF i <= Len(r) THEN r[i] ELSE u[i - Len(r)]
      BY ConcatProperties
    <2>3. \A i \in 1 .. Len(s) : s[i] = (r \o u)[i]
      BY <1>1, <2>1, <2>2
    <2> DEFINE c == r \o u
    <2>4. c \in Seq(S) /\ Len(s) <= Len(c) /\ \A i \in 1 .. Len(s) : s[i] = c[i]
      BY <1>1, <2>1, <2>2, <2>3
    <2> HIDE DEF c
    <2>5. IsPrefix(s, c)
      BY <2>4, PrefixElements
    <2>6. QED
      BY <2>5 DEF c
  <1>5. QED
    BY <1>2, <1>3, <1>4

(* Prompts are sequences of tokens.                                        *)
LEMMA UptoSeq ==
    ASSUME NEW n \in Nat, NEW p \in Upto(n)
    PROVE  p \in Seq(Token) /\ Len(p) \in Nat /\ Len(p) <= n
  <1>1. PICK m \in 0 .. n : p \in [1 .. m -> Token]
    BY DEF Upto
  <1>2. QED
    BY <1>1

(* The types of the numbers and sequences, for the arithmetic below.       *)
LEMMA Sizes ==
    ASSUME TypeOK
    PROVE  /\ Context \in Nat /\ max \in Nat /\ emitted \in Nat /\ emitted <= max
           /\ Len(prompt) \in Nat /\ Len(retained) \in Nat /\ Len(batch) \in Nat
           /\ Len(committed) \in Nat /\ Len(prompt) + max <= Context
  BY SessionAssumption DEF TypeOK

(* A new session keeps no history.                                         *)
LEMMA SessionInit == Init => SessionInv
  <1> SUFFICES ASSUME Init PROVE SessionInv
    OBVIOUS
  <1>1. TypeOK
    <2>1. cancel \in BOOLEAN
      BY Zenon DEF Init
    <2>2. position \in [Layer -> 0 .. Context] /\ Len(prompt) + max <= Context /\ emitted \in 0 .. max
      BY SessionAssumption DEF Init
    <2>3. QED
      BY <2>1, <2>2 DEF Init, TypeOK
  <1>2. StateInv /\ ProgressInv
    BY SessionAssumption DEF Init, StateInv, ProgressInv
  <1>3. HistoryInv
    <2>1. IsPrefix(<<>>, <<>>)
      BY DEF IsPrefix
    <2>2. QED
      BY <2>1 DEF Init, HistoryInv
  <1>4. QED
    BY <1>1, <1>2, <1>3 DEF SessionInv

(* An empty session with no state, or with a fresh one, is exact.          *)
LEMMA ClearedFacts ==
    ASSUME Cleared, NoState \/ FreshState
    PROVE  /\ retained' = <<>> /\ logits' = <<>> /\ committed' = <<>>
           /\ state' \in {"none", "valid"}
           /\ position' \in [Layer -> 0 .. Context] /\ \A l \in Layer : position'[l] = 0
           /\ IsPrefix(logits', retained')
  <1>1. IsPrefix(<<>>, <<>>)
    BY DEF IsPrefix
  <1>2. QED
    BY <1>1, SessionAssumption DEF Cleared, NoState, FreshState

(* A request that ends, well or not, leaves an exact session: either what  *)
(* it was given, extended by whole batches, or nothing.                    *)
LEMMA FinishedKeeps ==
    ASSUME SessionInv, NEW failed \in BOOLEAN, Finished(failed), pc # "idle", pc # "return",
           ~failed => state = "valid"
    PROVE  SessionInv'
  <1>0. TypeOK /\ StateInv /\ HistoryInv /\ ProgressInv
    BY DEF SessionInv
  <1>1. /\ pc' = "idle" /\ prompt' = <<>> /\ max' = 0 /\ emitted' = 0 /\ cancel' = FALSE /\ batch' = <<>>
    BY DEF Finished
  <1>2. Len(retained) <= Context
    BY <1>0, Sizes DEF ProgressInv, TypeOK
  <1>3. CASE state = "valid"
    <2>1. UNCHANGED <<retained, logits, state, committed, position>>
      BY <1>3 DEF Finished, stateVars
    <2>2. TypeOK'
      <3>1. cancel' \in BOOLEAN
        BY <1>1, Zenon
      <3>2. QED
        BY <1>0, <1>1, <2>1, <3>1, SessionAssumption DEF TypeOK
    <2>3. StateInv' /\ ProgressInv'
      BY <1>1, <1>2, <1>3, <2>1 DEF StateInv, ProgressInv
    <2>4. HistoryInv'
      BY <1>0, <1>1, <1>3, <2>1 DEF HistoryInv
    <2>5. QED
      BY <2>2, <2>3, <2>4 DEF SessionInv
  <1>4. CASE state # "valid"
    <2>1. Cleared /\ NoState
      BY <1>4 DEF Finished
    <2>2. /\ retained' = <<>> /\ logits' = <<>> /\ committed' = <<>> /\ state' = "none"
          /\ position' \in [Layer -> 0 .. Context] /\ \A l \in Layer : position'[l] = 0
          /\ IsPrefix(logits', retained')
      BY <2>1, ClearedFacts DEF NoState
    <2>3. TypeOK'
      <3>1. cancel' \in BOOLEAN
        BY <1>1, Zenon
      <3>2. QED
        BY <1>1, <2>2, <3>1, SessionAssumption DEF TypeOK
    <2>4. StateInv' /\ HistoryInv' /\ ProgressInv'
      BY <1>1, <2>2, SessionAssumption DEF StateInv, HistoryInv, ProgressInv
    <2>5. QED
      BY <2>3, <2>4 DEF SessionInv
  <1>5. QED
    BY <1>3, <1>4

(* A request begins on the history it continues, or on a fresh state.      *)
LEMMA BeginKeeps ==
    ASSUME SessionInv, NEW p \in Upto(Context), NEW m \in 0 .. Context, Begin(p, m)
    PROVE  SessionInv'
  <1>0. TypeOK /\ StateInv /\ HistoryInv /\ ProgressInv
    BY DEF SessionInv
  <1>1. /\ pc = "idle" /\ pc' = "ingest" /\ prompt' = p /\ max' = m /\ emitted' = 0
        /\ UNCHANGED <<cancel, batch>> /\ Len(p) + m <= Context
    BY DEF Begin, Admissible
  <1>2. p \in Seq(Token) /\ Len(p) \in Nat /\ m \in Nat
    BY UptoSeq, SessionAssumption
  <1>3. CASE Reusable(p)
    <2>1. state = "valid" /\ IsPrefix(retained, p) /\ UNCHANGED <<retained, logits, state, committed, position>>
      BY <1>3 DEF Begin, Reusable, stateVars
    <2>2. Len(retained) <= Len(p)
      BY <1>0, <1>2, <2>1, PrefixFacts DEF TypeOK
    <2>3. TypeOK'
      BY <1>0, <1>1, <1>2, <2>1 DEF TypeOK
    <2>4. StateInv' /\ HistoryInv' /\ ProgressInv'
      BY <1>0, <1>1, <2>1, <2>2 DEF StateInv, HistoryInv, ProgressInv
    <2>5. QED
      BY <2>3, <2>4 DEF SessionInv
  <1>4. CASE ~Reusable(p)
    <2>1. Cleared /\ FreshState
      BY <1>4 DEF Begin
    <2>2. /\ retained' = <<>> /\ logits' = <<>> /\ committed' = <<>> /\ state' = "valid"
          /\ position' \in [Layer -> 0 .. Context] /\ \A l \in Layer : position'[l] = 0
          /\ IsPrefix(logits', retained')
      BY <2>1, ClearedFacts DEF FreshState
    <2>3. TypeOK'
      BY <1>0, <1>1, <1>2, <2>2 DEF TypeOK
    <2>4. StateInv' /\ HistoryInv' /\ ProgressInv'
      BY <1>1, <1>2, <2>2 DEF StateInv, HistoryInv, ProgressInv
    <2>5. QED
      BY <2>3, <2>4 DEF SessionInv
  <1>5. QED
    BY <1>3, <1>4

(* A reset, or a fresh state that cannot be allocated, leaves nothing.     *)
LEMMA DropKeeps ==
    ASSUME SessionInv, Reset \/ (\E p \in Upto(Context), m \in 0 .. Context : MakeStateThrows(p, m))
    PROVE  SessionInv'
  <1>0. TypeOK /\ StateInv /\ HistoryInv /\ ProgressInv
    BY DEF SessionInv
  <1>1. /\ pc = "idle" /\ Cleared /\ NoState /\ UNCHANGED <<pc, prompt, max, emitted, cancel, batch>>
    BY DEF Reset, MakeStateThrows, requestVars
  <1>2. /\ retained' = <<>> /\ logits' = <<>> /\ committed' = <<>> /\ state' = "none"
        /\ position' \in [Layer -> 0 .. Context] /\ \A l \in Layer : position'[l] = 0
        /\ IsPrefix(logits', retained')
    BY <1>1, ClearedFacts DEF NoState
  <1>3. TypeOK'
    BY <1>0, <1>1, <1>2 DEF TypeOK
  <1>4. StateInv' /\ HistoryInv' /\ ProgressInv'
    BY <1>0, <1>1, <1>2, SessionAssumption DEF StateInv, HistoryInv, ProgressInv
  <1>5. QED
    BY <1>3, <1>4 DEF SessionInv

(* A client cancels.                                                       *)
LEMMA CancelKeeps ==
    ASSUME SessionInv, Cancel
    PROVE  SessionInv'
  <1>0. TypeOK /\ StateInv /\ HistoryInv /\ ProgressInv
    BY DEF SessionInv
  <1>1. cancel' \in BOOLEAN
    BY Zenon DEF Cancel
  <1>2. UNCHANGED <<pc, prompt, max, emitted, retained, logits, state, committed, position, batch>>
    BY DEF Cancel, requestVars, stateVars
  <1>3. TypeOK'
    BY <1>0, <1>1, <1>2 DEF TypeOK
  <1>4. StateInv' /\ HistoryInv' /\ ProgressInv'
    BY <1>0, <1>2 DEF StateInv, HistoryInv, ProgressInv
  <1>5. QED
    BY <1>3, <1>4 DEF SessionInv

(* Choosing the next batch of the prompt, or turning to decoding.          *)
LEMMA IngestKeeps ==
    ASSUME SessionInv, IngestBatch \/ IngestThrows \/ IngestDone
    PROVE  SessionInv'
  <1>0. TypeOK /\ StateInv /\ HistoryInv /\ ProgressInv
    BY DEF SessionInv
  <1>1. CASE IngestBatch
    <2> DEFINE n == IF Rest < InputLimit THEN Rest ELSE InputLimit
    <2>1. /\ pc = "ingest" /\ Rest > 0 /\ pc' = "forward"
          /\ batch' = SubSeq(prompt, Len(retained) + 1, Len(retained) + n)
          /\ UNCHANGED <<prompt, max, emitted, cancel, retained, logits, state, committed, position>>
      BY <1>1 DEF IngestBatch, requestVars, stateVars
    <2>2. n \in Nat /\ n >= 1 /\ Len(retained) + n <= Len(prompt)
      BY <1>0, <2>1, Sizes, SessionAssumption DEF Rest, ProgressInv
    <2> HIDE DEF n
    <2>3. batch' \in Seq(Token) /\ Len(batch') = n
      <3>1. \A i \in Len(retained) + 1 .. Len(retained) + n : prompt[i] \in Token
        BY <1>0, <2>2, Sizes DEF TypeOK
      <3>2. Len(retained) + 1 \in Int /\ Len(retained) + n \in Int
            /\ Len(retained) + 1 <= Len(retained) + n
            /\ (Len(retained) + n) - (Len(retained) + 1) + 1 = n
        BY <1>0, <2>2, Sizes
      <3>3. QED
        BY <2>1, <3>1, <3>2, SubSeqProperties
    <2>4. TypeOK'
      BY <1>0, <2>1, <2>3 DEF TypeOK
    <2>5. batch' # <<>>
      BY <2>2, <2>3
    <2>6. StateInv' /\ HistoryInv'
      BY <1>0, <2>1 DEF StateInv, HistoryInv
    <2>7. ProgressInv'
      BY <1>0, <2>1, <2>2, <2>3, <2>5 DEF ProgressInv
    <2>8. QED
      BY <2>4, <2>6, <2>7 DEF SessionInv
  <1>2. CASE IngestThrows
    BY <1>2, FinishedKeeps DEF IngestThrows
  <1>3. CASE IngestDone /\ max = 0
    BY <1>0, <1>3, FinishedKeeps DEF IngestDone, StateInv
  <1>4. CASE IngestDone /\ max # 0
    <2>1. /\ pc = "ingest" /\ Rest = 0 /\ pc' = "sample"
          /\ UNCHANGED <<prompt, max, emitted, cancel, retained, logits, state, committed, position, batch>>
      BY <1>4 DEF IngestDone, requestVars, stateVars
    <2>2. emitted = 0 /\ emitted < max /\ Len(retained) = Len(prompt)
      BY <1>0, <1>4, <2>1, Sizes DEF ProgressInv, Rest
    <2>3. TypeOK'
      BY <1>0, <2>1 DEF TypeOK
    <2>4. StateInv' /\ HistoryInv'
      BY <1>0, <2>1, <2>2 DEF StateInv, HistoryInv
    <2>5. ProgressInv'
      BY <1>0, <2>1, <2>2, Sizes DEF ProgressInv
    <2>6. QED
      BY <2>3, <2>4, <2>5 DEF SessionInv
  <1>5. QED
    BY <1>1, <1>2, <1>3, <1>4

(* The forward pass: nothing it does to the layers is taken for history    *)
(* before every layer has consumed the batch.                              *)
LEMMA ForwardKeeps ==
    ASSUME SessionInv, StateUpdate \/ (\E l \in Layer : LayerAdvances(l)) \/ Commit
    PROVE  SessionInv'
  <1>0. TypeOK /\ StateInv /\ HistoryInv /\ ProgressInv
    BY DEF SessionInv
  <1>1. CASE StateUpdate
    <2>1. /\ pc = "forward" /\ state' = "invalid"
          /\ UNCHANGED <<pc, prompt, max, emitted, cancel, retained, logits, committed, position, batch>>
      BY <1>1 DEF StateUpdate, requestVars
    <2>2. TypeOK'
      BY <1>0, <2>1 DEF TypeOK
    <2>3. StateInv' /\ HistoryInv' /\ ProgressInv'
      BY <1>0, <2>1 DEF StateInv, HistoryInv, ProgressInv
    <2>4. QED
      BY <2>2, <2>3 DEF SessionInv
  <1>2. ASSUME NEW l \in Layer, LayerAdvances(l) PROVE SessionInv'
    <2>1. /\ pc = "forward" /\ state = "invalid" /\ position[l] < Target
          /\ position' = [position EXCEPT ![l] = IF position[l] + Chunk < Target
                                                THEN position[l] + Chunk ELSE Target]
          /\ UNCHANGED <<pc, prompt, max, emitted, cancel, retained, logits, state, committed, batch>>
      BY <1>2 DEF LayerAdvances, requestVars
    <2>2. Target \in Nat /\ Target <= Context
      <3>1. /\ Context \in Nat /\ max \in Nat /\ emitted \in Nat /\ emitted <= max
            /\ Len(prompt) \in Nat /\ Len(retained) \in Nat /\ Len(batch) \in Nat
            /\ Len(prompt) + max <= Context
        BY <1>0, Sizes
      <3>2. Target = Len(retained) + Len(batch)
        BY <1>0, <2>1 DEF HistoryInv, Target
      <3>3. \/ emitted = 0 /\ Len(retained) + Len(batch) <= Len(prompt)
            \/ 0 < emitted /\ emitted < max /\ Len(batch) = 1
               /\ Len(retained) + 1 = Len(prompt) + emitted
        <4>1. pc \in {"forward", "return"}
          BY <2>1
        <4>2. QED
          BY <1>0, <4>1 DEF ProgressInv
      <3>4. Len(retained) + Len(batch) <= Context
        <4>1. CASE emitted = 0 /\ Len(retained) + Len(batch) <= Len(prompt)
          BY <3>1, <4>1
        <4>2. CASE 0 < emitted /\ emitted < max /\ Len(batch) = 1
                   /\ Len(retained) + 1 = Len(prompt) + emitted
          BY <3>1, <4>2
        <4>3. QED
          BY <3>3, <4>1, <4>2
      <3>5. QED
        BY <3>1, <3>2, <3>4
    <2>3. position' \in [Layer -> 0 .. Context]
      <3>1. position[l] \in Nat /\ position \in [Layer -> 0 .. Context] /\ Chunk \in Nat
        BY <1>0, SessionAssumption DEF TypeOK
      <3>2. (IF position[l] + Chunk < Target THEN position[l] + Chunk ELSE Target) \in 0 .. Context
        BY <2>2, <3>1, SessionAssumption
      <3>3. QED
        BY <2>1, <3>1, <3>2
    <2>4. TypeOK'
      BY <1>0, <2>1, <2>3 DEF TypeOK
    <2>5. StateInv' /\ HistoryInv' /\ ProgressInv'
      BY <1>0, <2>1 DEF StateInv, HistoryInv, ProgressInv
    <2>6. QED
      BY <2>4, <2>5 DEF SessionInv
  <1>3. CASE Commit
    <2>1. /\ pc = "forward" /\ state' = "valid" /\ committed' = committed \o batch /\ pc' = "return"
          /\ \A l \in Layer : position[l] = Target
          /\ UNCHANGED <<prompt, max, emitted, cancel, retained, logits, position, batch>>
      BY <1>3 DEF Commit, requestVars
    <2>2. committed' \in Seq(Token) /\ Len(committed') = Target /\ committed' = retained' \o batch'
      BY <1>0, <2>1, ConcatProperties DEF TypeOK, Target, HistoryInv
    <2>3. TypeOK'
      BY <1>0, <2>1, <2>2 DEF TypeOK
    <2>4. StateInv' /\ HistoryInv' /\ ProgressInv'
      BY <1>0, <2>1, <2>2 DEF StateInv, HistoryInv, ProgressInv
    <2>5. QED
      BY <2>3, <2>4 DEF SessionInv
  <1>4. QED
    BY <1>1, <1>2, <1>3

(* A failed forward pass ends the request.                                 *)
LEMMA ThrowKeeps ==
    ASSUME SessionInv, ForwardThrows \/ ForwardCleanupThrows \/ SampleThrows
    PROVE  SessionInv'
  <1>1. CASE ForwardThrows \/ SampleThrows
    BY <1>1, FinishedKeeps DEF ForwardThrows, SampleThrows
  <1>2. CASE ForwardCleanupThrows
    <2>1. /\ pc' = "idle" /\ prompt' = <<>> /\ max' = 0 /\ emitted' = 0 /\ batch' = <<>>
          /\ Cleared /\ NoState
      BY <1>2 DEF ForwardCleanupThrows
    <2>2. cancel' \in BOOLEAN
      BY <1>2, Zenon DEF ForwardCleanupThrows
    <2>3. /\ retained' = <<>> /\ logits' = <<>> /\ committed' = <<>> /\ state' = "none"
          /\ position' \in [Layer -> 0 .. Context] /\ \A l \in Layer : position'[l] = 0
          /\ IsPrefix(logits', retained')
      BY <2>1, ClearedFacts DEF NoState
    <2>4. TypeOK'
      BY <2>1, <2>2, <2>3, SessionAssumption DEF TypeOK
    <2>5. StateInv' /\ HistoryInv' /\ ProgressInv'
      BY <2>1, <2>3, SessionAssumption DEF StateInv, HistoryInv, ProgressInv
    <2>6. QED
      BY <2>4, <2>5 DEF SessionInv
  <1>3. QED
    BY <1>1, <1>2

(* The session records what the model has consumed.                        *)
LEMMA ReturnKeeps ==
    ASSUME SessionInv, ForwardReturns
    PROVE  SessionInv'
  <1>0. TypeOK /\ StateInv /\ HistoryInv /\ ProgressInv
    BY DEF SessionInv
  <1>1. /\ pc = "return" /\ retained' = Recorded
        /\ logits' = (IF Len(Recorded) >= Len(prompt) THEN Recorded ELSE logits)
        /\ batch' = <<>> /\ pc' = (IF Len(Recorded) <= Len(prompt) THEN "ingest" ELSE "sample")
        /\ UNCHANGED <<prompt, max, emitted, cancel, state, committed, position>>
    BY DEF ForwardReturns, requestVars, stateVars
  <1>2. /\ Recorded \in Seq(Token) /\ Len(Recorded) = Len(retained) + Len(batch)
        /\ Recorded = retained \o batch /\ committed = Recorded
    BY <1>0, <1>1, ConcatProperties DEF TypeOK, Recorded, HistoryInv
  <1>3. IsPrefix(logits', retained')
    <2>1. IsPrefix(Recorded, Recorded)
      BY <1>2, PrefixFacts
    <2>2. IsPrefix(logits, Recorded)
      BY <1>0, <1>2, PrefixFacts DEF TypeOK, HistoryInv
    <2>3. QED
      BY <1>1, <2>1, <2>2
  <1>4. \/ emitted = 0 /\ Len(Recorded) <= Len(prompt)
        \/ 0 < emitted /\ emitted < max /\ Len(Recorded) = Len(prompt) + emitted
    BY <1>0, <1>1, <1>2, Sizes DEF ProgressInv
  <1>5. TypeOK'
    BY <1>0, <1>1, <1>2 DEF TypeOK
  <1>6. StateInv'
    BY <1>0, <1>1 DEF StateInv
  <1>7. HistoryInv'
    <2>1. pc' = "sample" => Len(Recorded) >= Len(prompt)
      BY <1>0, <1>1, <1>2, <1>4, Sizes
    <2>2. QED
      BY <1>0, <1>1, <1>2, <1>3, <2>1 DEF HistoryInv
  <1>8. ProgressInv'
    BY <1>0, <1>1, <1>2, <1>4, Sizes DEF ProgressInv
  <1>9. QED
    BY <1>5, <1>6, <1>7, <1>8 DEF SessionInv

(* A sampled token ends the request or goes through the model.             *)
LEMMA SampleKeeps ==
    ASSUME SessionInv, NEW id \in Token, SampleToken(id)
    PROVE  SessionInv'
  <1>0. TypeOK /\ StateInv /\ HistoryInv /\ ProgressInv
    BY DEF SessionInv
  <1>1. pc = "sample"
    BY DEF SampleToken
  <1>2. CASE id \in StopToken \/ emitted + 1 = max
    BY <1>0, <1>1, <1>2, FinishedKeeps DEF SampleToken, StateInv
  <1>3. CASE ~(id \in StopToken \/ emitted + 1 = max)
    <2>1. /\ emitted' = emitted + 1 /\ batch' = <<id>> /\ pc' = "forward"
          /\ UNCHANGED <<prompt, max, cancel, retained, logits, state, committed, position>>
      BY <1>3 DEF SampleToken, stateVars
    <2>2. /\ emitted + 1 < max /\ Len(retained) = Len(prompt) + emitted
      BY <1>0, <1>1, <1>3, Sizes DEF ProgressInv
    <2>3. batch' \in Seq(Token) /\ Len(batch') = 1 /\ batch' # <<>>
      BY <2>1
    <2>4. TypeOK'
      BY <1>0, <2>1, <2>2, <2>3, Sizes DEF TypeOK
    <2>5. StateInv' /\ HistoryInv'
      BY <1>0, <1>1, <2>1 DEF StateInv, HistoryInv
    <2>6. ProgressInv'
      BY <1>0, <2>1, <2>2, <2>3, Sizes DEF ProgressInv
    <2>7. QED
      BY <2>4, <2>5, <2>6 DEF SessionInv
  <1>4. QED
    BY <1>2, <1>3

(* Every step keeps the invariant.                                         *)
LEMMA SessionStep ==
    ASSUME SessionInv, [Next]_vars
    PROVE  SessionInv'
  <1>1. ASSUME UNCHANGED vars PROVE SessionInv'
    BY <1>1 DEF vars, SessionInv, TypeOK, StateInv, HistoryInv, ProgressInv
  <1>2. ASSUME Serve PROVE SessionInv'
    BY <1>2, IngestKeeps, ForwardKeeps, ThrowKeeps, ReturnKeeps, SampleKeeps DEF Serve
  <1>3. QED
    BY <1>1, <1>2, BeginKeeps, DropKeeps, CancelKeeps DEF Next

(* The inductive invariant holds in every reachable state.                 *)
THEOREM SessionCorrect == Spec => []SessionInv
  <1>1. Init => SessionInv
    BY SessionInit
  <1>2. SessionInv /\ [Next]_vars => SessionInv'
    BY SessionStep
  <1>3. QED
    BY <1>1, <1>2, PTL DEF Spec

(* However requests fail, are cancelled or are reset, a session that can   *)
(* be continued is continued exactly.                                      *)
THEOREM SessionIsExact == Spec => []ContinuationExact
  <1>1. SessionInv => ContinuationExact
    <2>1. SessionInv => HistoryExact
      BY DEF SessionInv, HistoryExact, HistoryInv
    <2>2. SessionInv => DecodedFromHistory
      BY DEF SessionInv, DecodedFromHistory, HistoryInv
    <2>3. QED
      BY <2>1, <2>2 DEF SessionInv, ContinuationExact
  <1>2. QED
    BY <1>1, SessionCorrect, PTL

(* The steps that drop retained tokens.                                    *)
DropExcused ==
    ~IsPrefix(retained, retained') =>
        \/ Reset
        \/ pc = "idle" /\ ~IsPrefix(retained, prompt')
        \/ pc \in {"forward", "return"} /\ batch # <<>>

(* Tokens are only dropped with an excuse.                                 *)
LEMMA DropStep ==
    ASSUME SessionInv, Next
    PROVE  DropExcused
  <1>0. TypeOK /\ StateInv /\ HistoryInv /\ ProgressInv /\ retained \in Seq(Token)
    BY DEF SessionInv, TypeOK
  <1>1. ASSUME UNCHANGED retained PROVE DropExcused
    BY <1>0, <1>1, PrefixFacts DEF DropExcused
  <1>2. ASSUME pc \in {"forward", "return"} PROVE DropExcused
    BY <1>0, <1>2 DEF DropExcused, ProgressInv
  <1>3. ASSUME NEW failed \in BOOLEAN, Finished(failed), state = "valid" PROVE DropExcused
    BY <1>1, <1>3 DEF Finished
  <1>4. ASSUME NEW p \in Upto(Context), NEW m \in 0 .. Context, Begin(p, m) PROVE DropExcused
    <2>1. CASE Reusable(p)
      BY <1>1, <1>4, <2>1 DEF Begin
    <2>2. CASE state = "valid" /\ ~Reusable(p)
      BY <1>4, <2>2 DEF Begin, Reusable, DropExcused
    <2>3. CASE state # "valid"
      <3>1. retained = <<>> /\ retained' = <<>>
        BY <1>0, <1>4, <2>3 DEF Begin, Reusable, StateInv, Cleared
      <3>2. QED
        BY <1>1, <3>1
    <2>4. QED
      BY <2>1, <2>2, <2>3
  <1>5. ASSUME NEW p, NEW m, MakeStateThrows(p, m) PROVE DropExcused
    <2>1. pc = "idle" /\ prompt' = <<>> /\ retained' = <<>>
      BY <1>0, <1>5 DEF MakeStateThrows, ProgressInv, requestVars, Cleared
    <2>2. CASE retained = <<>>
      BY <1>1, <2>1, <2>2
    <2>3. CASE retained # <<>>
      BY <1>0, <2>1, <2>3, PrefixFacts DEF DropExcused
    <2>4. QED
      BY <2>2, <2>3
  <1>6. ASSUME Reset PROVE DropExcused
    BY <1>6 DEF DropExcused
  <1>7. ASSUME Cancel PROVE DropExcused
    BY <1>1, <1>7 DEF Cancel
  <1>8. ASSUME IngestBatch \/ IngestThrows \/ IngestDone PROVE DropExcused
    <2>1. state = "valid"
      BY <1>0, <1>8 DEF IngestBatch, IngestThrows, IngestDone, StateInv
    <2>2. QED
      BY <1>1, <1>3, <1>8, <2>1 DEF IngestBatch, IngestThrows, IngestDone
  <1>9. ASSUME \/ StateUpdate \/ (\E l \in Layer : LayerAdvances(l)) \/ Commit
               \/ ForwardThrows \/ ForwardCleanupThrows \/ ForwardReturns
        PROVE  DropExcused
    BY <1>2, <1>9 DEF StateUpdate, LayerAdvances, Commit, ForwardThrows, ForwardCleanupThrows, ForwardReturns
  <1>10. ASSUME SampleThrows \/ (\E id \in Token : SampleToken(id)) PROVE DropExcused
    <2>1. state = "valid"
      BY <1>0, <1>10 DEF SampleThrows, SampleToken, StateInv
    <2>2. QED
      BY <1>1, <1>3, <1>10, <2>1 DEF SampleThrows, SampleToken
  <1>11. QED
    BY <1>4, <1>5, <1>6, <1>7, <1>8, <1>9, <1>10 DEF Next, Serve

(* Retained tokens survive every request that is refused, cancelled or     *)
(* fails, unless a forward pass was left unfinished.                       *)
THEOREM HistoryKept == Spec => HistorySurvives
  <1>1. SessionInv /\ [Next]_vars => [DropExcused]_vars
    BY DropStep
  <1>2. QED
    BY <1>1, SessionCorrect, PTL DEF Spec, HistorySurvives, DropExcused
=============================================================================
