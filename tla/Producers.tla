----------------------------- MODULE Producers -----------------------------
(***************************************************************************)
(* The build_*.py scripts.  Each compiles an instrumented copy of the      *)
(* engine for an experiment and leaves a producer.json beside the binary;  *)
(* an experiment starts only from a producer its verify accepts.           *)
(*                                                                         *)
(* A producer is described by the files it depends on: those its generated *)
(* texts are made of, those the compiler reads as they are, and those      *)
(* producer.json hashes.  A file is its contents, which is all that the    *)
(* hashes tell apart: an edit changes them, and a later edit may put back  *)
(* what was there.  The build of a file set, step by step, is then the     *)
(* same for all.                                                           *)
(*                                                                         *)
(*   "engine"   src/engine, the kernels, the locks and the cmake files     *)
(*   "headers"  include/engine                                             *)
(*   "native"   build/qwen: library, compile commands, generated header    *)
(* A build script is named without build_ and .py.                         *)
(***************************************************************************)
EXTENDS Naturals, FiniteSets

CONSTANTS
  SourceContents,   \* what a file may hold; 0 is what it holds at first
  MaxSourceEdits,   \* edits while a producer is made or verified
  MaxEditedFiles    \* files that are edited at all

ASSUME ProducersAssumption == 0 \in SourceContents /\ MaxSourceEdits \in Nat /\ MaxEditedFiles \in Nat

VARIABLES
  tree,      \* the contents of every source
  made,      \* the producer's directory and its producer.json
  buildPc,   \* where the build, and then its verification, stands
  seen,      \* the tree when the verification hashed it
  touched,   \* every edited file, with where the build stood (history)
  sourceEdits

producerVars == <<tree, made, buildPc, seen, touched, sourceEdits>>

---------------------------------------------------------------------------
(* The producers.                                                          *)

\* base_native_fingerprint: build_fingerprint of the sources and the configuration.
Fingerprinted == {"engine", "headers"}

\* base: the producers whose texts and inputs this one starts from.
\* refingerprinted: the end of the build compares the fingerprint again.
Producer(base, texts, compiled, inputs) ==
  [base |-> base, texts |-> texts, compiled |-> compiled, inputs |-> inputs,
   refingerprinted |-> TRUE]

perfect_draft ==
  Producer({}, {"engine", "perfect_draft"}, {"headers", "probe_perfect_draft.cpp"},
           {"engine", "native", "perfect_draft", "probe_perfect_draft.cpp"})

block_cache_trace ==
  Producer({"perfect_draft"}, {"block_cache_trace", "probe_perfect_draft.cpp"}, {"block_cache_trace.hpp"},
           {"block_cache_trace", "block_cache_trace.hpp", "headers"})

block_profile ==
  Producer({"perfect_draft"}, {"block_profile", "block_cache_trace", "probe_perfect_draft.cpp"}, {},
           {"block_profile", "block_cache_trace", "headers"})

block_gdn ==
  Producer({"block_profile"}, {"block_gdn"}, {"probe_block_gdn.cpp"}, {"block_gdn", "probe_block_gdn.cpp"})

q8_block_packed ==
  Producer({}, {"engine", "q8_block_packed", "block_cache_trace", "probe_q8_block_packed.metal", "probe_block_gdn.cpp"},
           {"headers", "native"},
           {"engine", "headers", "native", "q8_block_packed", "block_cache_trace",
            "probe_q8_block_packed.metal", "probe_block_gdn.cpp"})

\* The operator probe of block_gdn is hashed with its inputs though it is not built again.
q8_expanded ==
  Producer({"q8_block_packed", "block_gdn"},
           {"q8_expanded", "q8_expanded_contract", "capture_q8_expanded.inc", "probe_q8_expanded.cpp"}, {},
           {"q8_expanded", "q8_expanded_contract", "capture_q8_expanded.inc", "probe_q8_expanded.cpp"})

mtp_check ==
  [Producer({}, {}, {"check_mtp.cpp", "headers"}, {"check_mtp.cpp", "mtp_check", "headers", "native"})
     EXCEPT !.refingerprinted = FALSE]

mtp_forward ==
  LET copied == {"mtp_forward", "perfect_draft", "q8_expanded", "q8_block_packed", "block_cache_trace",
                 "q8_expanded_contract", "mtp_draft.metal", "probe_perfect_draft.cpp", "probe_mtp_forward.cpp",
                 "capture_q8_expanded.inc", "probe_q8_block_packed.metal", "engine", "headers"}
      included == {"mtp_draft.hpp", "mtp_draft.cpp"}
  IN Producer({}, copied, included \cup {"headers", "native"}, copied \cup included \cup {"block_gdn", "native"})

mtp_continuation ==
  Producer({"mtp_forward"}, {"mtp_continuation", "probe_mtp_continuation.cpp"}, {},
           {"mtp_continuation", "probe_mtp_continuation.cpp"})

mtp_target_profile == Producer({"mtp_continuation"}, {"mtp_target_profile"}, {}, {"mtp_target_profile"})

\* A header included from the generated texts, and a test pasted into the probe.
Instrumented(base, script, header, test) ==
  Producer({base}, {script, test}, {header}, {script, header, test})

mtp_expert_scratch ==
  Instrumented("mtp_continuation", "mtp_expert_scratch", "mtp_expert_scratch.hpp", "probe_mtp_expert_scratch.cpp")
mtp_ngram_init ==
  Instrumented("mtp_expert_scratch", "mtp_ngram_init", "mtp_ngram_init.hpp", "probe_mtp_ngram_init.cpp")
mtp_direct_output ==
  Instrumented("mtp_ngram_init", "mtp_direct_output", "mtp_direct_output.hpp", "probe_mtp_direct_output.cpp")
target_recovery ==
  Instrumented("mtp_direct_output", "target_recovery", "mtp_target_recovery.hpp", "probe_target_recovery.cpp")

mtp_widths == Producer({"target_recovery"}, {"mtp_widths", "mtp_target_recovery.hpp"}, {}, {"mtp_widths"})
mtp_width_profile == Producer({"mtp_widths"}, {"mtp_width_profile"}, {}, {"mtp_width_profile"})
mtp_width_counters == Producer({"mtp_width_profile"}, {"mtp_width_counters"}, {}, {"mtp_width_counters"})

streamed_mtp ==
  Instrumented("mtp_widths", "streamed_mtp", "streamed_embeddings.hpp", "probe_streamed_embeddings.cpp")
streamed_mtp_fixed_priming ==
  Producer({"streamed_mtp"}, {"streamed_mtp_fixed_priming", "mtp_draft.cpp"}, {"mtp_fixed_priming.hpp"},
           {"streamed_mtp_fixed_priming", "mtp_fixed_priming.hpp"})

verifier_horizon ==
  Producer({"mtp_widths"}, {"verifier_horizon", "probe_verifier_horizon.cpp", "mtp_direct_output.hpp"}, {},
           {"verifier_horizon", "probe_verifier_horizon.cpp"})
streamed_verifier_horizon ==
  Instrumented("verifier_horizon", "streamed_verifier_horizon", "streamed_embeddings.hpp", "probe_streamed_embeddings.cpp")
tiled_verifier_horizon ==
  Producer({"streamed_verifier_horizon"}, {"tiled_verifier_horizon"}, {}, {"tiled_verifier_horizon"})
horizon_cache_trace ==
  LET headers == {"horizon_cache_trace.hpp", "block_cache_trace.hpp", "mtp_fixed_priming.hpp"}
  IN Producer({"tiled_verifier_horizon"}, {"horizon_cache_trace", "mtp_draft.cpp"}, headers,
              {"horizon_cache_trace"} \cup headers)

Catalog ==
  [perfect_draft |-> perfect_draft, block_cache_trace |-> block_cache_trace, block_profile |-> block_profile,
   block_gdn |-> block_gdn, q8_block_packed |-> q8_block_packed, q8_expanded |-> q8_expanded,
   mtp_check |-> mtp_check, mtp_forward |-> mtp_forward, mtp_continuation |-> mtp_continuation,
   mtp_target_profile |-> mtp_target_profile, mtp_expert_scratch |-> mtp_expert_scratch,
   mtp_ngram_init |-> mtp_ngram_init, mtp_direct_output |-> mtp_direct_output,
   target_recovery |-> target_recovery, mtp_widths |-> mtp_widths, mtp_width_profile |-> mtp_width_profile,
   mtp_width_counters |-> mtp_width_counters, streamed_mtp |-> streamed_mtp,
   streamed_mtp_fixed_priming |-> streamed_mtp_fixed_priming, verifier_horizon |-> verifier_horizon,
   streamed_verifier_horizon |-> streamed_verifier_horizon, tiled_verifier_horizon |-> tiled_verifier_horizon,
   horizon_cache_trace |-> horizon_cache_trace]

ProducerNames == DOMAIN Catalog

\* A producer, and those it starts from, directly or through others.
Lineage[p \in ProducerNames] == {p} \cup UNION {Lineage[b] : b \in Catalog[p].base}

Texts(p) == UNION {Catalog[q].texts : q \in Lineage[p]}
Compiled(p) == UNION {Catalog[q].compiled : q \in Lineage[p]}
Inputs(p) == UNION {Catalog[q].inputs : q \in Lineage[p]}
Sources(p) == Texts(p) \cup Compiled(p) \cup Inputs(p) \cup {"native"}
AllSources == Fingerprinted \cup UNION {Sources(p) : p \in ProducerNames}
ContentsOf(files) == [f \in files |-> tree[f]]
\* What proof() states of the tree.
Proof(p) == ContentsOf(Inputs(p) \cup Fingerprinted)

---------------------------------------------------------------------------
(* build                                                                   *)

NoProducer == [name |-> "none", text |-> <<>>, object |-> <<>>, library |-> 0, frozen |-> <<>>, complete |-> FALSE]

\* settings, mkdir and the generated texts: a seam that is not found exactly once
\* raises, and leaves nothing that could be verified.
Generate ==
  /\ buildPc = "idle" /\ made = NoProducer
  /\ \E p \in ProducerNames : made' = [NoProducer EXCEPT !.name = p, !.text = ContentsOf(Texts(p))]
  /\ buildPc' = "generated"
  /\ UNCHANGED <<tree, seen, touched, sourceEdits>>

Freeze ==
  /\ buildPc = "generated"
  /\ made' = [made EXCEPT !.frozen = Proof(made.name)]
  /\ buildPc' = "frozen"
  /\ UNCHANGED <<tree, seen, touched, sourceEdits>>

Compile ==
  /\ buildPc = "frozen"
  /\ made' = [made EXCEPT !.object = ContentsOf(Compiled(made.name))]
  /\ buildPc' = "compiled"
  /\ UNCHANGED <<tree, seen, touched, sourceEdits>>

Link ==
  /\ buildPc = "compiled"
  /\ made' = [made EXCEPT !.library = tree["native"]]
  /\ buildPc' = "linked"
  /\ UNCHANGED <<tree, seen, touched, sourceEdits>>

\* require(frozen == proof)
Rechecked(p) == Inputs(p) \cup IF Catalog[p].refingerprinted THEN Fingerprinted ELSE {}

\* What the compiler reads as it is, and the library, are among the files checked,
\* and what the texts are made of is among the files hashed.
ASSUME CatalogCovers ==
    \A p \in ProducerNames : /\ Compiled(p) \cup {"native"} \subseteq Rechecked(p)
                             /\ Texts(p) \subseteq Inputs(p) \cup Fingerprinted

Recheck ==
  /\ buildPc = "linked"
  /\ IF \A f \in Rechecked(made.name) : made.frozen[f] = tree[f]
     THEN made' = [made EXCEPT !.complete = TRUE] /\ buildPc' = "built"
     ELSE UNCHANGED made /\ buildPc' = "stopped"
  /\ UNCHANGED <<tree, seen, touched, sourceEdits>>

\* A seam, the compiler, its time limit or a signal ends the build.
BuildStops ==
  /\ buildPc \in {"generated", "frozen", "compiled", "linked"}
  /\ buildPc' = "stopped"
  /\ UNCHANGED <<tree, made, seen, touched, sourceEdits>>

---------------------------------------------------------------------------
(* verify                                                                  *)

VerifyProof ==
  /\ buildPc \in {"built", "stopped"} /\ made.frozen # <<>>
  /\ seen' = tree
  /\ buildPc' = IF made.complete /\ made.frozen = Proof(made.name) THEN "hashed" ELSE "refused"
  /\ UNCHANGED <<tree, made, touched, sourceEdits>>

VerifyTrustsHashes ==
  /\ buildPc = "hashed"
  /\ buildPc' = "accepted"
  /\ UNCHANGED <<tree, made, seen, touched, sourceEdits>>
\* The texts are generated again and compared with the copies.
VerifyCopies ==
  /\ buildPc = "hashed"
  /\ buildPc' = IF made.text = ContentsOf(Texts(made.name)) THEN "accepted" ELSE "refused"
  /\ UNCHANGED <<tree, made, seen, touched, sourceEdits>>

---------------------------------------------------------------------------

SourceEdit ==
  /\ buildPc \notin {"idle", "accepted", "refused"} /\ sourceEdits < MaxSourceEdits
  /\ \E f \in Sources(made.name) \cup Fingerprinted : \E c \in SourceContents \ {tree[f]} :
       /\ tree' = [tree EXCEPT ![f] = c]
       /\ touched' = touched \cup {<<f, buildPc>>}
       /\ Cardinality({t[1] : t \in touched'}) <= MaxEditedFiles
  /\ sourceEdits' = sourceEdits + 1
  /\ UNCHANGED <<made, buildPc, seen>>

ProducersNext ==
  \/ Generate \/ Freeze \/ Compile \/ Link \/ Recheck \/ BuildStops
  \/ VerifyProof \/ VerifyCopies \/ SourceEdit

ProducersInit ==
  /\ tree = [f \in AllSources |-> 0]
  /\ made = NoProducer /\ buildPc = "idle" /\ seen = <<>> /\ touched = {} /\ sourceEdits = 0

ProducersSpec == ProducersInit /\ [][ProducersNext]_producerVars

---------------------------------------------------------------------------

\* f was edited while the build stood at one of a set of steps.
EditedAt(f, steps) == \E step \in steps : <<f, step>> \in touched

\* The hashes are looked at twice, and contents are all they show.  f was changed
\* after the one look and before it was used, and again before the other.
Unseen(f, before, after) == EditedAt(f, before) /\ EditedAt(f, after)

\* A producer that verify accepts was made of the sources that were there when
\* verify hashed them: its generated copies, the files the compiler read and the
\* library it linked are theirs, except for a file that was changed between two of
\* the build's looks at it and changed again before the next.  For a copy that takes
\* an edit between generating and hashing and one while verify compares the copies;
\* for a compiled file or the library, one between the hashing and its use and one
\* before the hashes are compared again.  A single edit is always refused where it
\* matters, and a finished build of sources nobody touched never is.
ProducerFaithful ==
  /\ buildPc = "accepted" =>
       /\ \A f \in DOMAIN made.text : made.text[f] # seen[f] => Unseen(f, {"generated"}, {"hashed"})
       /\ \A f \in DOMAIN made.object :
            made.object[f] # seen[f] => Unseen(f, {"frozen"}, {"compiled", "linked"})
       /\ made.library # seen["native"] => Unseen("native", {"frozen", "compiled"}, {"linked"})
  /\ buildPc = "refused" => ~made.complete \/ sourceEdits > 0
=============================================================================
