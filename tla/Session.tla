------------------------------ MODULE Session ------------------------------
(***************************************************************************)
(* class Session of src/src/engine/session.cpp and the part of Model's     *)
(* forward pass (model.cpp, prefill.cpp) that decides what becomes of the  *)
(* recurrent state: one retained conversation, extended by prompts that    *)
(* continue it and by generated tokens, in forward passes that cannot be   *)
(* rolled back and may fail or be cancelled at any point.                  *)
(*                                                                         *)
(* Logits and recurrent state are represented by the token history they    *)
(* were computed from.  Sampling picks any token.                          *)
(***************************************************************************)
EXTENDS Naturals, FiniteSets, Sequences, SequencesExt

CONSTANTS
    Token,
    StopToken,   \* is_stop_token
    Context,     \* options.context
    InputLimit,  \* Model::input_limit(): tokens of one forward pass
    Chunk,       \* options.chunk: tokens a layer advances by at a time
    Layers

ASSUME SessionAssumption ==
    /\ Context \in Nat /\ InputLimit \in Nat \ {0} /\ Chunk \in Nat \ {0} /\ Layers \in Nat \ {0}
    /\ StopToken \subseteq Token

VARIABLES
    pc,
    prompt,     \* the request being served
    max,        \* its max_tokens; 0 for Session::prime
    emitted,    \* tokens sampled for it
    cancel,
    retained,   \* retained_
    logits,     \* last_logits_: the history it was computed from, <<>> when empty
    state,      \* "none", or State::valid
    committed,  \* State::tokens and State::history
    position,   \* LayerState::position
    batch       \* the tokens of the forward pass in progress

requestVars == <<prompt, max, emitted>>
stateVars   == <<state, committed, position>>
vars == <<pc, prompt, max, emitted, cancel, retained, logits, state, committed, position, batch>>

Layer   == 1 .. Layers
Upto(n) == UNION {[1 .. m -> Token] : m \in 0 .. n}

TypeOK ==
    /\ pc \in {"idle", "ingest", "forward", "return", "sample"}
    /\ prompt \in Seq(Token) /\ max \in Nat /\ Len(prompt) + max <= Context
    /\ emitted \in 0 .. max
    /\ cancel \in BOOLEAN
    /\ retained \in Seq(Token) /\ logits \in Seq(Token) /\ committed \in Seq(Token)
    /\ state \in {"none", "valid", "invalid"}
    /\ position \in [Layer -> 0 .. Context]
    /\ batch \in Seq(Token)

Init ==
    /\ pc = "idle"
    /\ prompt = <<>> /\ max = 0 /\ emitted = 0 /\ cancel = FALSE
    /\ retained = <<>> /\ logits = <<>>
    /\ state = "none" /\ committed = <<>> /\ position = [l \in Layer |-> 0]
    /\ batch = <<>>
-----------------------------------------------------------------------------
(* Session::clear *)
Cleared == retained' = <<>> /\ logits' = <<>>

(* Model::make_state *)
FreshState == state' = "valid" /\ committed' = <<>> /\ position' = [l \in Layer |-> 0]
NoState    == state' = "none" /\ committed' = <<>> /\ position' = [l \in Layer |-> 0]

(* Mutant of Finished: a failed request always drops the session. *)
FinishedCleared(failed) ==
    /\ pc' = "idle"
    /\ prompt' = <<>> /\ max' = 0 /\ emitted' = 0 /\ cancel' = FALSE /\ batch' = <<>>
    /\ IF failed THEN Cleared /\ NoState ELSE UNCHANGED <<retained, logits, stateVars>>

(* A request returns or throws; a failure that left the state unusable     *)
(* clears the session (the catch blocks of generate and prime).            *)
Finished(failed) ==
    /\ pc' = "idle"
    /\ prompt' = <<>> /\ max' = 0 /\ emitted' = 0 /\ cancel' = FALSE /\ batch' = <<>>
    /\ IF failed /\ state # "valid"
       THEN Cleared /\ NoState
       ELSE UNCHANGED <<retained, logits, stateVars>>

(* generate and prime refuse what does not fit the context.                *)
Admissible(p, m) == p # <<>> /\ Len(p) + m <= Context

(* Only a continuation of the retained tokens reuses the state.            *)
Reusable(p) == state = "valid" /\ IsPrefix(retained, p)

(* generate(p, m), or prime(p) when m is 0.                                *)
Begin(p, m) ==
    /\ pc = "idle"
    /\ Admissible(p, m)
    /\ pc' = "ingest"
    /\ prompt' = p /\ max' = m /\ emitted' = 0
    /\ IF Reusable(p)
       THEN UNCHANGED <<retained, logits, stateVars>>
       ELSE Cleared /\ FreshState
    /\ UNCHANGED <<cancel, batch>>

(* The fresh state does not fit the GPU's allocation budget.               *)
MakeStateThrows(p, m) ==
    /\ pc = "idle"
    /\ Admissible(p, m) /\ ~Reusable(p)
    /\ Cleared /\ NoState
    /\ UNCHANGED <<pc, requestVars, cancel, batch>>

(* POST /zerocool/session/reset *)
Reset ==
    /\ pc = "idle"
    /\ Cleared /\ NoState
    /\ UNCHANGED <<pc, requestVars, cancel, batch>>

Cancel ==
    /\ pc # "idle" /\ ~cancel
    /\ cancel' = TRUE
    /\ UNCHANGED <<pc, requestVars, retained, logits, stateVars, batch>>
-----------------------------------------------------------------------------
(* ingest: one batch after another; prepare_ingest, finish_ingest and a    *)
(* cancellation between two batches throw with the state valid.            *)
Rest == Len(prompt) - Len(retained)

IngestBatch ==
    LET n == IF Rest < InputLimit THEN Rest ELSE InputLimit
    IN  /\ pc = "ingest"
        /\ Rest > 0 /\ ~cancel
        /\ batch' = SubSeq(prompt, Len(retained) + 1, Len(retained) + n)
        /\ pc' = "forward"
        /\ UNCHANGED <<requestVars, cancel, retained, logits, stateVars>>

IngestThrows ==
    /\ pc = "ingest"
    /\ Finished(TRUE)

IngestDone ==
    /\ pc = "ingest"
    /\ Rest = 0
    /\ IF max = 0
       THEN Finished(FALSE)
       ELSE /\ pc' = "sample"
            /\ UNCHANGED <<requestVars, cancel, retained, logits, stateVars, batch>>

(* forward_impl and forward_panel.  StateUpdate invalidates the state; the *)
(* layers advance one after another, in chunks; commit validates it.       *)
StateUpdate ==
    /\ pc = "forward" /\ state = "valid"
    /\ state' = "invalid"
    /\ UNCHANGED <<pc, requestVars, cancel, retained, logits, committed, position, batch>>

Target == Len(committed) + Len(batch)

LayerAdvances(l) ==
    /\ pc = "forward" /\ state = "invalid"
    /\ position[l] < Target /\ \A k \in 1 .. l - 1 : position[k] = Target
    /\ position' = [position EXCEPT ![l] = IF @ + Chunk < Target THEN @ + Chunk ELSE Target]
    /\ UNCHANGED <<pc, requestVars, cancel, retained, logits, state, committed, batch>>

(* Cancelled, or an expert read, the GPU or an allocation failed, before   *)
(* or after the update began.                                              *)
ForwardThrows ==
    /\ pc = "forward"
    /\ Finished(TRUE)

Commit ==
    /\ pc = "forward" /\ state = "invalid"
    /\ \A l \in Layer : position[l] = Target
    /\ state' = "valid"
    /\ committed' = committed \o batch
    /\ pc' = "return"
    /\ UNCHANGED <<requestVars, cancel, retained, logits, position, batch>>

(* Mutant of ForwardCleanupThrows: the state is left valid. *)
CleanupLeavesValid ==
    /\ pc = "return"
    /\ Finished(TRUE)

(* Model::forward: a failure after the commit (ending the scratch arena,   *)
(* finish_ingest, the route trace) marks the state invalid again, because  *)
(* the session has not recorded the tokens.                                *)
ForwardCleanupThrows ==
    /\ pc = "return"
    /\ pc' = "idle"
    /\ prompt' = <<>> /\ max' = 0 /\ emitted' = 0 /\ cancel' = FALSE /\ batch' = <<>>
    /\ Cleared /\ NoState

Recorded == retained \o batch

(* The session records the tokens, and the logits of the prompt's last     *)
(* batch and of every generated token.                                     *)
ForwardReturns ==
    /\ pc = "return"
    /\ retained' = Recorded
    /\ logits' = IF Len(Recorded) >= Len(prompt) THEN Recorded ELSE logits
    /\ batch' = <<>>
    /\ pc' = IF Len(Recorded) <= Len(prompt) THEN "ingest" ELSE "sample"
    /\ UNCHANGED <<requestVars, cancel, stateVars>>

(* The decoding loop of generate: sample, hand the token to the client,    *)
(* stop or run the token through the model.  It throws when cancelled, on  *)
(* empty logits and when the client's queue refuses the token.             *)
SampleToken(id) ==
    /\ pc = "sample"
    /\ ~cancel
    /\ logits # <<>>
    /\ IF id \in StopToken \/ emitted + 1 = max
       THEN Finished(FALSE)
       ELSE /\ emitted' = emitted + 1
            /\ batch' = <<id>>
            /\ pc' = "forward"
            /\ UNCHANGED <<prompt, max, cancel, retained, logits, stateVars>>

SampleThrows ==
    /\ pc = "sample"
    /\ Finished(TRUE)
-----------------------------------------------------------------------------
Serve ==
    \/ IngestBatch \/ IngestThrows \/ IngestDone
    \/ StateUpdate \/ (\E l \in Layer : LayerAdvances(l)) \/ Commit
    \/ ForwardThrows \/ ForwardCleanupThrows \/ ForwardReturns
    \/ (\E id \in Token : SampleToken(id)) \/ SampleThrows

Next ==
    \/ \E p \in Upto(Context), m \in 0 .. Context : Begin(p, m) \/ MakeStateThrows(p, m)
    \/ Reset \/ Cancel
    \/ Serve

Spec == Init /\ [][Next]_vars
-----------------------------------------------------------------------------
(* Whenever the session could be continued, the model's recurrent state,   *)
(* every layer's position and the session's record describe the same       *)
(* token history: no failed or cancelled request leaves them apart.        *)
HistoryExact ==
    pc \in {"idle", "ingest", "sample"} /\ state = "valid" =>
        committed = retained /\ \A l \in Layer : position[l] = Len(retained)

(* Every token is sampled from the logits of exactly the history that was  *)
(* ingested and generated so far ("Exact continuation can reuse state",    *)
(* docs/qwen_usability.md).                                                *)
SampledFromHistory == pc = "sample" => logits = retained

(* The part of it that always holds: tokens are never sampled from logits  *)
(* of a history that was edited away, and after the first token only from  *)
(* those of the whole history.                                             *)
DecodedFromHistory ==
    pc = "sample" => IsPrefix(logits, retained) /\ (emitted > 0 => logits = retained)

(* A session that can be continued is continued exactly.                   *)
ContinuationExact == TypeOK /\ HistoryExact /\ DecodedFromHistory

(* "Retained history survives a rejected or cancelled request whenever it  *)
(* can still be continued": retained tokens are only dropped on a reset,   *)
(* for a prompt that does not continue them, or when a forward pass was    *)
(* left unfinished.                                                        *)
HistorySurvives ==
    [][~IsPrefix(retained, retained') =>
          \/ Reset
          \/ pc = "idle" /\ ~IsPrefix(retained, prompt')
          \/ pc \in {"forward", "return"} /\ batch # <<>>]_vars
=============================================================================
