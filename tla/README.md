# TLA+ verification of zerocool

zerocool runs a mixture-of-experts language model whose weights do not fit in
memory. Experts are read from disk on demand into a small cache of GPU-visible
buffers while the GPU computes, one conversation is retained between requests,
and a local HTTP server lets one client at a time generate. Around the engine
stand some 160 Python scripts (`scripts/qwen`): they download, verify and
repack the checkpoints, build instrumented variants of the engine, measure them
in chains of sealed experiments, and read the traces the engine leaves.

In the engine what is hard is that reads, GPU work, cancellation, failures and
client behaviour overlap, and that a buffer reused one step too early is a wrong
answer and not a crash. In the scripts what is hard is that a run takes hours,
is killed, finds a file somebody else replaced, and must still never vouch for
bytes, binaries or measurements it has not seen.

`PROJECT.json` lists components, runs, mutants, the map from definitions to
source lines, findings, hazards and theorems. Paths below are relative to the
repository root.

## 1. Inventory

| Component | State | Operations | Interacts with | Hard behaviour | Correct when |
|---|---|---|---|---|---|
| **ReadPool** (`src/engine/storage.cpp`) | demand and future queues, `active_`, `stopping_`, worker threads, three condition variables | `submit`, `promote`, `drain`, worker loop, destructor | the cache and `NgramStore` submit; workers fulfil futures and publish completion events | `notify_one` wakeups, a promote that frees room without a notification, destruction while callers sleep | no lost wakeup, queues bounded, drain waits for running reads, accepted reads always run |
| **ExpertCache** (`storage.cpp`) | `slots_`, `lookup_`, `hand_`, pins, buffers | `acquire`, `prefetch`, leases, `clear`, `resize` | submits to ReadPool; leased by the pipeline; resized by the memory plan | victims chosen while reads complete, buffers reused, failed reads, compaction | a lease always sees its own expert's bytes, busy slots are never reused, calls return |
| **Expert pipeline** (`pipeline.cpp`, command groups of `metal.mm`) | window of leases, waiting list, groups in flight, completion ticket | the loop of `execute_experts`, its catch block, `ExpertTail`, `Metal::submit/reap/finish` | cache, pool, GPU, the layer code that overlaps work with the tail | three actors, lost events, unwinding with GPU work outstanding | leases cover GPU use, each expert computed once, errors surface, the call returns |
| **Session and recurrent state** (`session.cpp`, `model.cpp`, `prefill.cpp`) | `retained_`, `last_logits_`, `State`, layer positions | `ingest`, `prime`, `generate`, `clear`, forward pass | executor of the server; forward pass uses everything above | updates that cannot be rolled back, failure and cancellation in any place, continuation of retained history | state, record and logits always describe the same history |
| **HTTP server and coordinator** (`server.cpp`) | socket queue, handler threads, `Job`, `Coordinator`, inference thread | `serve`, `handle`, `admit`, `cancel`, `push`, `inference` | clients; executor (session, drain, recover) | startup and drain failures, disconnects, full streams, shutdown | next job only after draining, complete streams, honest phase, every connection and `serve()` end |
| Memory plan and pressure (`model.cpp`, `storage.cpp`, `pressure.*`) | plan, phase, capacity | `MemoryPlan::make`, `transition_memory`, `pressure_boundary` | resizes the cache between passes | transitions against a standing reduction, rounding at the budget | plan within budget, reductions not undone |
| Metal resources (`metal.mm`) | scratch arenas, allocation budget | `begin_scratch`, `end_scratch`, allocate | model, pipeline | arenas recycled while in use | no arena reused before its group completed |
| NgramStore (`storage.cpp`) | row cache, outstanding row reads | `embedding` | ReadPool | one of several submissions failing | no read outlives the caller's buffer |
| Download (`fetch.cpp`) and preparation (`prepare.cpp`) | part files, targets, receipts | transfer, verify, publish, resume | network, file system | crashes between rename and receipt, ranged answers | only verified bytes are vouched for, restarts make progress |
| Chat client (`chat.cpp`, `chat_client.cpp`) | sender and poller threads, child server | send, poll, finish | server | shutdown wakeup without the mutex | finish returns |
| Tokenizer and `StreamParser` (`tokenizer.mm`, `session.cpp`) | partial tags | `push` | session, server | tags split between tokens | parsing is independent of the split |
| **Checkpoint verification and download** (`verify_checkpoint.py`, `download.py`) | two pinned directories, `verification.json` | `verify`, `preflight`, download | every script that opens a checkpoint | files replaced during an hour of hashing, cached receipts | a receipt names only bytes that were hashed; a download overwrites nothing it found |
| **Storage preparation** (`prepare_storage.py`) | prepared files, interim receipt, manifest | prepare, resume, `--verify` | verified checkpoint; the engine | kills and edits between runs | what is sealed is made of the pinned sources |
| **Mixed artifact comparison** (`verify_mixed_payloads.py`, `inspect_mixed.py`) | fingerprints, compared pairs, header ranges | verify, compare, publish, `read_header` | both checkpoints | edits between verification and comparison | one state of the files was compared; headers tile the payload |
| **MTP source and sidecar** (`mtp_source.py`, `prepare_mtp.py`) | tensor files, `download.json`, dense file, manifest | inspect, extract by ranges, quantize, verify | remote shards, checkpoint | kills between rename and receipt, three computations of one layout | a complete sidecar holds every tensor; a restarted extraction ends |
| **Producers** (23 `build_*.py`) | generated texts, binary, `producer.json` | build, verify | sources, native library; the experiments | sources edited while a producer is made | an accepted producer's binary comes of the sources it names |
| **Experiments** (`stage200.py`, `qualification_evidence.py`, 47 screens) | report, seal, lease, frozen identity, earlier directories | prepare, require, launch, compare, seal, audit | the engine's binaries, each other | hangs, kills, interrupts, edits, a busy lease, in chains of stages | a recommendation was measured, on undisturbed runs, of one build, and its auditor agrees |
| **Offline simulators** (`cache_simulation.py`, `block_cache_replay.py`, `horizon_cache_replay.py`) | simulated caches, lease counts, heap | access, acquire, pin, release, simulate | captures of the engine | lazy heap, leases, two implementations of each policy | oracle is the minimum, simulators agree, the control replay reproduces the capture |
| **Trace readers** (`route_trace.py`, `cached_progress.py`, `decode_timeline.py`, `submission_timeline.py`) | reader automata | decode, summarize, partition, split | files the engine writes, also when killed | aborted forwards, cut-off lines, overlapping intervals | accepted means consistent; nothing is counted twice |
| Kernels, sampling, command line, native benchmarks; remaining scripts | – | – | – | numerical, measurement or reporting code | not modelled |

The request path: client → `handle` → `Coordinator::admit` → inference thread →
`Session::generate` → `Model::forward` → per layer `execute_experts` →
`ExpertCache::acquire` → `ReadPool::submit` → `pread`. Completions travel back
through futures and `CompletionEvents`, text back through `Job::push` and the
stream queue, cancellation down as one atomic flag that every level polls.

The script path: download → verify → prepare → build a producer → run a stage
(prerequisites → validation → timed pairs → decision → seal) → the next stage of
the chain, each reading receipts, hashes and seals of the ones before it.

## 2. Modules

| Module | Role |
|---|---|
| `ReadService` | abstract specification: what the pool promises its users |
| `ReadPool` | threads, queues and condition variables; implements `ReadService` |
| `ExpertCache` | the cache, composed with `ReadService` (`Pool == INSTANCE ReadService`) |
| `ExpertPipeline` | the coordinator of one layer's experts, with read completions and the GPU |
| `Session` | a conversation and the recurrent state under it |
| `Server` | accept loop, handlers, coordinator, inference thread |
| `Checkpoint` | pinned directories, `verify` and the download |
| `StoragePreparation`, `MixedPayloads` | extend `Checkpoint` by the preparation and by the comparison |
| `CheckpointFiles` | the scripts that share the checkpoint directories, side by side (`FilesSpec`) |
| `MtpSource` | extraction and sidecar of the draft model |
| `TensorLayout` | header check and dense layout as pure algorithms |
| `Producers` | catalog of the producers and the machine that builds and verifies one |
| `Samples` | what the measurement scripts share: steps, rows, rules |
| `MtpScreens`, `DecodeScreens`, `OperatorScreens`, `VerifierScreens`, `Q4Screens` | the stages of the scripts: plan, prerequisites, decision, auditor |
| `ScriptCatalog` | all stages under their names |
| `Experiment` | a campaign of stages on a misbehaving host |
| `ReplayCache` | the lease-aware replay cache as a record |
| `CacheSimulation`, `BlockCacheReplay` | the simulators and the capture reader, on `ReplayCache` |
| `RouteTrace`, `CachedProgress`, `Timeline` | the other readers |
| `ReadPoolProofs`, `ExpertCacheProofs`, `ExpertPipelineProofs`, `SessionProofs`, `ServerProofs` | theorems about the engine's components (section 4) |
| `ArtifactProofs` | theorems about `CheckpointFiles`, `MtpSource` and `Producers` |
| `ExperimentProofs` | theorems about `Experiment` and the rules of the 72 stages |
| `QueueLemmas` | lemmas on queues as sequences, shared by the pool's and the pipeline's proofs |
| `MC*` | instances for TLC; `MCArtifacts` and `MCOfflineReplay` put parts side by side that share no state |

Every module begins with what a step is and what is left out. Definitions named
"Mutant of X" are plausible mistakes in X. They are not part of the
specification: they show that each property can fail.

### ReadPool and ReadService

One step is one critical section of `mutex_`. Workers go `check` → `run` →
`finish` → `check`, or sleep (`wait`) on `ready_`, or `exit`; callers sleep on
`space_` (`waitSpace`) or `drained_` (`waitDrained`) and are moved by a
notification only. `WorkerTake` is the critical section that pops a task, counts
`active_` up and notifies `space_`; `WorkerRun` is the read outside the mutex;
`WorkerFinish` counts down and notifies `drained_`. Spurious wakeups are left
out, since they could only hide a lost one. A task is an identity; the timing
record the code uses to find a queued task for `promote` is that identity.

`ReadService` keeps three sets: reads queued as demand, queued as guesses, and
running. `ReadPool` maps its queues to their ranges and running reads to the
tasks workers hold.

### ExpertCache

One coordinator thread makes the calls, as in the engine. `clock_victim`
examines one slot per step, because reads complete between two examinations.
`content[b]` is the expert whose complete record buffer `b` holds, or none while
a read is writing it; `held` counts the live leases separately from the pins in
the slot, so that the two can disagree. `resize` is a loop of eviction steps
followed by compaction. Reads may fail, and then keep their entry, as the code
does. A submission waits until `ReadService` accepts it. The policy is CLOCK,
the default; the segmented-LRU policy of the engine is not modelled (that of the
simulators is, in `ReplayCache`).

### ExpertPipeline

The program counter of the coordinator follows the loop: take a ticket, reap the
GPU, release finished groups, admit into the window, announce, encode, submit,
hand off to the tail or sleep. Every throwing place goes to the catch block and
from there through `Metal::finish`, `drain` and `~Impl`. The `owner` of a
`Metal::finish` in progress says whether it was called by the catch block, the
destructor, the caller of the tail, `forward_impl`'s catch block, or
`ExpertTail::finish`. Command buffers are numbered in submission order, and the
experts each one uses are remembered to compare with the leases. A completion
and its event are two steps. The 20 ms timeout of `CompletionEvents::wait` is
left out, so liveness shows that the loop never depends on it.

### Session

A history is a sequence of tokens; logits and recurrent state are represented by
the history they were computed from, so a stale one is visible. A forward pass
invalidates the state (`StateUpdate`), advances the layers one after another in
chunks, and commits; it may throw anywhere, also after the commit
(`ForwardCleanupThrows`). `max = 0` stands for `Session::prime`. Recording the
route trace is one of the ways a pass can fail after its commit; what it records
is left out.

### Server

Connections make one request each: a completion, a stream or a session reset.
Waits on condition variables are the predicates waited for, which is what they
amount to here: each change is made under the mutex of its predicate, or the
wait is repeated every 50 ms. Handlers notice a disconnect only while waiting
for a job. `Coordinator::cancel` is two steps because it marks the job before it
takes the mutex. `dirty` says that reads or GPU work of a generation may be
outstanding: a generation sets it, a successful drain clears it.

### Checkpoint, StoragePreparation, MixedPayloads

A file is its content and a stamp. The stamp stands for the fingerprint (size,
device, inode, times): every write gives a new one, so two equal stamps mean the
same bytes, which is what the scripts assume. A digest is the content it was
taken of. A script does one file operation per step and may die between any two;
somebody else may edit a file at any step (`MaxEdits`). `Init` has a directory
with all its files, or with the first one only. The output directory of a
preparation belongs to the preparer while it runs, and may be disturbed between
runs. `snapshot_download` is external: it fetches what is missing and may stop
anywhere.

### MtpSource and TensorLayout

A tensor's bytes are `whole` or `edited`; the three kinds of tensors are told
apart because only those kept in BF16 are hashed again while they are copied.
The obstacle that a kill between `temp.replace` and the receipt leaves, a file
no receipt names, is a state of the model: `ExtractionEnds` says that a restarted
extraction ends or stands before such a file or an edited one, and that is all
the code promises. `TensorLayout` computes the dense file's offsets the three
ways the script does.

### Producers

All producers run the same three steps (generate, freeze, compile) in one of two
orders, and differ in what their texts are made of, what the compiler reads and
what `producer.json` hashes. That is the catalog; the machine takes one entry
and edits one file anywhere, twice. A file is its contents, as for the hashes the
code compares: an edit that is undone before the next look is not seen, in the
model as in the code. `touched` is a history of where the build stood when each
file was edited, and `ProducerFaithful` says with it which two edits it takes to
have a producer accepted that is not of the sources hashed; one edit never does.
What the code's text substitutions look for is left out.

### Samples, the screens, Experiment

A native report is reduced to what the decisions tell apart: which outputs it
computed, the condition it was taken under (partial, foreign, miscounted, over
budget, compressed, swapped, hot or good), and for a timed candidate its time in
percent of its control. Confidence intervals are tabulated over the few times a
candidate may take; floors and limits keep their place between those values. The
module of a script states its plan, its prerequisites and its decision after
each row. `Experiment` runs a chain of stages, each in its own directory: lease,
prerequisites, child process, deadline, report after each row, `__exit__`, seal.
A script refuses only what it looks at. What that is goes by the kind of the step
(`Looks`): of a self test the exit status, of a capture or a fixture its results,
of an operator screen build and counters too, of a process whose results another
one judges its memory and the host. And it goes by the script (`refuse`,
`disturb`, `ProbeRefuses`, `Loose`, `OverBudget`, `ReplayRefuses`): `stage200 q3`
and the submission, Q8 lookahead and packed Q4 probes never look at the footprint
(`BudgetBlind`); `stage200 q3`, the last two probes, `screen_mtp_forward` and
`screen_mtp_recovery` compare the source of a report with that of another report
at most (`SourceBlind`). `RefuseAssumption` has TLC check that every other script
that measures looks at both.
A rule is a chain of checks in the script's order; a script that compares outputs
while it validates a report raises before it records the row (`Unrecorded`).
`MaxFaults` bounds how often the host misbehaves in a campaign. A prerequisite
that is refused before the directory exists leaves a failed directory in the
model; an interrupt while a report is being closed behaves as a kill.

### Readers and simulators

Each event a reader accepts is an action guarded by its checks; any other makes
it raise. Traces of the model are therefore the accepted files, and properties
speak of what an accepted file can mean. The simulators take every access
sequence within the bounds.

The two timelines read one capture differently, and the model keeps it so:
`decode_timeline` has all groups of the run, with the GPU's clock truncated to
nanoseconds; `submission_timeline.split` has the groups with an operation at the
token's offset, in any run, with the clocks as they are, and refuses a capture
when the two differ by more than a tolerance. `IdleSplitReconciles` says what
that refusal can mean: another token's group was open in the token's time, or
there were more groups than the tolerance has room for at under a nanosecond
each. The second is not remote in the code, where the tolerance is 100 ns and a
token has a few command groups in each of 48 layers. Commit times are left out.
`CachedProgress` leaves out a write that fails inside `emit`.

## 3. Runs

Sizes are distinct states.

| Run | Instance | Properties | What it shows |
|---|---|---|---|
| `read_pool` (58 k) | 4 tasks, 2 workers, 2 callers, limit 3 | `TypeOK`, `QueueBounds`, `WorkConserving`, `NoLostWakeup`, `ExitLeavesNothing`, `PoolLive`, `ImplementsService` | bounds, wakeups, destruction; demand reads finish and the destructor ends; refinement of `ReadService` |
| `expert_cache` (278 k) | 3 experts, 2 slots, 2 buffers, queue 2 | `CacheExact`, `CallsReturn`, `NeverEvictsBusy` | lookup, leases, reads and buffers agree in every interleaving; no step takes a busy slot; calls return |
| `expert_cache_exhausted` | 2 experts, 1 slot | `ExhaustedOnlyByLeases` | violation: finding 1 |
| `pipeline` (403 k) | 3 experts, window 2, groups of 2, tail, failures, cancellation | `LeasesExact`, `OutcomeExact`, `Returns` | leases cover GPU use and fit the window, each expert is computed once, errors surface, every path returns |
| `pipeline_admitted` | 3 experts, window 2 | `AdmittedBeforeEncoding` | violation: finding 2 |
| `session` (12 k) | 3 tokens, context 4, passes of 2, chunks of 1, 2 layers | `ContinuationExact`, `HistorySurvives` | state, record and logits describe one history; usable history is kept |
| `session_stale` | 2 tokens, context 3, passes of 1 | `SampledFromHistory` | violation: finding 3 |
| `server` (771 k) | 2 connections, 2 handlers, queue 1, stream of 1, all kinds of request | `AdmissionExact`, `AnswersExact`, `Answered`, `ServeReturns` | drained admission, complete and honest answers; every connection and `serve()` end |
| `artifacts` (1.7 M) | 2 locks of 2 files, 2 edits, 2 script runs; 3 tensors of 2 chunks, 2 deaths, 1 edit; headers of 3 ranges; 23 producers, 2 edits of 1 file | `ReceiptTruthful`, `SealedPreparationFaithful`, `SidecarDerived`, `HeaderTilesPayload`, `LayoutsAgree`, `ProducerFaithful`, `DownloadKeepsFound`, `ComparisonOfOneState`, `ExtractionEnds` | nothing is vouched for that was not seen, whatever is killed or edited |
| `mixed_payloads_pinned` | 2 locks of 2 files, 1 edit | `ComparedIsPinned` | violation: finding 4 |
| `experiments` (848 k) | 72 stages in 43 chains, one fault anywhere | `ExpTypeOK`, `PositiveEarned`, `NoPromiseFromFailure`, `ChainUnbroken`, `AuditAgrees`, `StageEnds` | recommendations are earned, failures promise nothing, chains are of one build, auditors agree, stages end |
| `offline_replay` (1.6 M) | 6 accesses over 4 experts at 4 capacities; captures of 2 layers, 3 experts, window 2 and forwards of 3, 2 and 1 rows; traces of 3 forwards over 2 tokens and 2 sessions; progress files of 6 lines; 2 command groups on 5 clock readings | `OracleExact`, `SimulatorsAgree`, `ReplayExact`, `TraceExact`, `ProgressExact`, `TimelinesReconcile` | readers and simulators against reference definitions |

The properties named `…Exact` are conjunctions of parts that support one another;
each part is a definition of its own with its comment (`CacheExact`:
`LookupExact`, `LeasesResident`, `ReadsOwnBuffers`, `CompleteMeansContent`,
`ClaimedIsDemand`, `ScanFindsIdle`; `ContinuationExact`: `HistoryExact`,
`DecodedFromHistory`; and so on).

Bounds and why they suffice:

- `read_pool`: limit 3 with half of it for guesses gives a full total queue and
  a full half separately; four tasks fill it while others run; two callers let
  one block while the other promotes, drains or is refused.
- `expert_cache`: two slots let the hand wrap past a leased, loading or
  referenced slot; a third expert forces eviction; one lease per expert
  (`MaxLeases`) suffices since only zero or non-zero pins matter to a decision.
  Resizing moves between one and two slots with a hole to compact.
- `pipeline`: with three experts, window two and groups of two, the window blocks
  admission, groups fill and spill, and one command buffer is in flight while
  another is open.
- `session`: prompts of four in passes of two have a first and a last batch, and
  a context of four leaves room for a continuation and generated tokens.
  Chunk 1 and two layers give a pass that is partly done.
- `server`: two connections are an active job and a competitor; a queue of one
  socket and one event reaches both limits, with and without the finish event.
- `artifacts`: two files give an edit before, during and after a file's own
  verification; two runs give an interrupted one and its successor; two edits
  can fool a hash and a receipt in turn. Two deaths strike an extraction and its
  restart. Three ranges overlap, touch, nest and leave a gap. The checks of a
  producer are made file by file, so one file with two edits, the second of which
  may undo the first, has every case.
- `experiments`: every stage of every chain with one fault; faults of two
  different stages meet only through what the first leaves on the shelf, which
  one fault already varies.
- `offline_replay`: six accesses over four keys fill three slots, evict and
  return, and exceed the heap's compaction bound. Of the two captured workloads
  one is a panel of three rows, admitted in ascending order, and a block of two,
  admitted hits first; the other a single row, a block and the single row left
  over. Three experts against a window of two make the window bind before the
  cache is full, and six records in three slots evict. Two tokens give a request
  whose prompt was edited since its session was recorded, which the reader must
  refuse; sessions and tokens are symmetric. Two readings of the GPU's clock in a
  nanosecond with a tolerance of one let the timelines differ by truncation
  alone, and groups of other tokens and other runs let them differ by what they
  read.

The theorems of section 4 carry their properties to every instance: there the
bounds matter only for the mutants and for the properties that are not proved.

Deadlock is checked in every run but `artifacts`, `mixed_payloads_pinned` and
`offline_replay`, where a script or a reader simply comes to its end.

### Fairness

Weak fairness throughout, on steps a running thread or process takes by itself:

- workers and notified callers of the pool get the mutex eventually; nobody is
  obliged to submit, promote, drain or stop;
- the cache's coordinator finishes a call it began; `pread` returns, with
  success or failure;
- the pipeline's coordinator runs, reads and command buffers complete (Metal
  guarantees a completed or failed status) and their handlers run;
- the inference thread and the handlers keep running. `Server` does not assume
  success: any call may throw instead. Clients need do nothing, not even read: a
  send that blocks is bounded by a two-second timeout, and the poll by 50 ms;
- a stage's script takes its own steps, and its deadline passes. Its native
  process need not end: `EvidenceGuard.run` interrupts, terminates and kills it;
- an extraction that was started runs on, and somebody starts an unfinished one
  again (`MtpFairness`).

Cancellation, disconnection, failure, edits, kills and shutdown have no fairness.

## 4. Proofs

The theorems hold for every value of the constants that the assumptions allow,
so for any number of threads, experts, connections, files or faults. Each safety
theorem comes from an inductive invariant: one lemma per action or group of
actions, one theorem that the invariant always holds, and the properties follow
from it.

| Theorem | States | Inductive invariant |
|---|---|---|
| `TypeCorrect`, `BoundedQueues`, `PoolWorkConserving`, `PoolNoLostWakeup`, `PoolQuiesces` | the pool's safety properties | `PoolInv /\ WantInv` |
| `PoolImplementsService` | `ImplementsService` | that and `OnePlace` |
| `CacheIsExact`, `BusySlotsKept` | `CacheExact`, `NeverEvictsBusy` | `CacheInv` (`CacheCorrect`) |
| `LeasesCorrect`, `OutcomeCorrect` | `LeasesExact`, `OutcomeExact` | `PipelineInv` (`PipelineCorrect`) |
| `SessionIsExact`, `HistoryKept` | `ContinuationExact`, `HistorySurvives` | `SessionInv` (`SessionCorrect`) |
| `AdmissionCorrect`, `AnswersCorrect` | `AdmissionExact`, `AnswersExact` | `AdmissionInv`, `AnswerInv` |
| `ReceiptCorrect`, `PreparationCorrect`, `DownloadKeeps`, `ComparisonKeeps` | `ReceiptTruthful`, `SealedPreparationFaithful`, `DownloadKeepsFound`, `ComparisonOfOneState` | `FilesInv` (`FilesCorrect`) |
| `SidecarCorrect` | `SidecarDerived` | `MtpInv` |
| `ProducerCorrect` | `ProducerFaithful` | `ProducerInv` |
| `FailurePromisesNothing` | `NoPromiseFromFailure` | `RunnerInv` (`RunnerInvariant`) |
| `RunnerTypes`, `RecommendationsEarned`, `AuditorsAgree` | `ExpTypeOK`, `PositiveEarned`, `AuditAgrees` | `WorkInv` (`WorkInvariant`) |
| `ChainsUnbroken` | `ChainUnbroken` | `ChainInv` (`ChainInvariant`) |

**Pool** (`PoolAssumption`: finitely many workers and tasks, a limit of at least
two, which the constructor checks). The parts of `PoolInv` support one another: a
drain's sleep (`NoLostWakeup`) ends in `WorkerFinish` because `active = 0` there
means no worker is busy (`ActiveCounts`); a blocked submit's queue is not emptied
behind its back because each `WorkerTake` notifies all; `ExitLeavesNothing`
survives because `submit` refuses once stopping. `WantInv`, that a blocked submit
remembers a real request, gives the types when it is woken and queues its task.
`WorkConserving` needs the cardinality lemma `NotifyAwake`: a notification adds
exactly one awake worker if any slept. The refinement maps queues to sets, so it
needs that a read is in one place only: queued once, or held by one worker, or
wanted by one blocked submit (`OnePlace`). Each action then is one step of
`ReadService` or a stutter (`AcceptPlaces` and its companions).

**Cache** (`CacheAssumption`, `NoEntryAssumption`). The parts of `CacheExact` are
not inductive alone: that an evicted slot is not being written follows from
`ReadsOwnBuffers`, that it is not leased from `LeasesResident`, and both need
`LookupExact` to go from an expert to its slot. `CallInv` adds what a call in
progress knows of the slot it picked and that `resize` shrinks a quiet cache
only. `ScanFindsIdle` needs `ScanInv`: a slot that was free when the scan began is
still free, and the trials left bring the hand to it, twice if its reference bit
is set. `QueueInv` keeps started reads apart from queued ones.

**Pipeline** (`PipelineAssumption`). Leases and outcome speak of GPU users only,
so `PipelineInv` adds where each admitted expert is: waiting, in the open command
buffer, or in exactly one submitted one (`PlaceInv`, and `CoverInv` as long as the
loop is not unwinding); which call of `Metal::finish` is in progress
(`ControlInv`); and what has been waited for at each point of the unwinding
(`GpuInv`), which is what lets the leases go.

**Session** (`SessionAssumption`). `HistoryExact` speaks of the points where a
session can be continued; the invariant follows a pass between them: whether the
state is usable (`StateInv`), what the model has consumed of record and batch
(`HistoryInv`), and how record, prompt and emitted tokens relate (`ProgressInv`),
which bounds the history by the context.

**Server** (`ServerAssumption`). `AdmissionInv` knows where the one job is
(pending, or with the inference thread, or nowhere: `JobInv`) and that a failed
drain ends admission for good (`EngineInv`). `AnswerInv` adds for each connection
that what it was told and what is still queued for it are the events generated so
far, in order (`StreamInv`), and that whoever has a finish event was drained
(`FinishInv`).

**Checkpoint directories** (`CheckpointAssumption`; `PrepareAssumption` and
`CompareAssumption`: the revisions those scripts name are pinned). One idea
carries all four theorems: a note of a file (a receipt entry, a fingerprint, a
mark) was taken in the past (`Dated`), and either it names the file's content or
its stamp fits no longer (`Vouches`). A step leaves a file alone or gives it a
stamp no note has (`Touched`, `StillVouches`), so notes need be looked at only in
the steps that take them. `JobInv` says which notes the script at work holds.

**Sidecar** (`MtpAssumption`). `MtpInv` says that an extraction under way has
receipts for all that lies behind it, that a complete one has them all, that a
sidecar exists only beside a complete extraction whose files are there, and that
what it holds of a BF16 tensor is whole, since that copy is hashed on the way.

**Producers** (`ProducersAssumption`, `CatalogCovers`). Hashes compare contents,
so what was read between two looks that agree need not be what both saw. The
invariant carries, for each thing read, "as at the last look, or edited since":
of a file compiled or linked against the hashing before it and against the tree
now (`ObjectInv`), which at the second look become one statement with both edits
(`BuiltInv`); of the generated texts against the hashing after them (`FrozenInv`)
and then against verify's own (`SeenInv`). `CatalogCovers`, that every producer
hashes what its texts are made of and looks again at all its compiler reads, is a
fact about the catalog without parameters. It is an assumption, evaluated by TLC in the run `artifacts`,
because a producer's lineage is a recursive function the provers cannot unfold.

**Runner** (`CampaignAssumption`, `OrderAssumption`, the closed facts of
`ScriptCatalog`). Three invariants stand on one another.

- `RunnerInv` needs no rule: a report on disk is the one in memory once it is
  written (`SavedInv`); in memory an exception replaces whatever a rule had
  provisionally decided (`ReportInv`). `NoPromiseFromFailure` follows whatever
  the rules decide (`After` is not unfolded).
- `WorkInv` adds where rows come from. `PositiveEarned` speaks of one state, the
  complete report, but a rule looks only at what it decides about: what an early
  row must satisfy was decided when that row was the newest. `HistoryInv`
  therefore says that every prefix of the rows passed its rule (`GoneOn`) and
  that a complete report has the status of the rule for its last row. What one
  rule's passing means (`StepSound`: the outputs of a finished group agree, the
  plan has been run when a recommendation comes; `StepClean`: the newest timing
  was not disturbed) is a lemma for each rule (`...Steps`); `AllSteps` and
  `AllClean` collect them, `EveryStepPasses` carries them along the prefixes
  (`StepSeen`, `GroupSeen`). That the reports are complete, of the script's own
  source and within the budget (`RecommendedFits`) follows from what the script
  refuses of each row and, where it looks only in the end, from its last rule
  (`ProbesRefuse`, `CombinedRefuses`, `ExpertStateRefuses`, `RecoveryEquivalent`);
  a script blind to the budget or the source is named in the property and
  promises no more than the code does. Both sides of a comparison still have one
  source (`RecommendedSource`).
- `AuditAgrees` takes the same history: a complete report ended by its last rule
  (`CompleteReport`), any other by an exception after rules that all let it go on
  (`EveryRow`). For each auditor a lemma `...Agrees` shows that the verdict it
  derives again is that one; `AllAudits` collects them.
- `ChainInv` says that the shelf stands (`Built`: behind each recommendation are
  the directories it needs), that the sources a running script has recorded still
  stand there (`SourceInv`), and that what is still to be started replaces
  nothing that is built on (`OrderInv`). The last is what makes it inductive:
  without it a queue could start a prerequisite again behind a recommendation. A
  resumed trial takes over its fixtures and its correctness stage if they are
  complete and runs the rest again. That this replaces nothing a recommendation
  builds on needs that a stage of a trial stands on all the earlier ones
  (`TrialPrefix`): if a late stage recommended, only the last was still open, and
  nothing of a trial follows its last stage.

`OrderAssumption` is the model's price for keeping one directory per stage.
Scripts never write into an old directory, a later attempt gets a new one; the
shelf keeps the latest, so a campaign must not repeat a stage after one that
builds on it. The documented chains do not. Of a campaign it is also asked that
it starts something (`CampaignAssumption`).

The assumptions of `ScriptCatalog` have no parameters: they are facts of the
catalog (no stage counts an error among its recommendations; kinds, groups and
last steps of the plans; which conditions a rule refuses; which directories a
script names) that TLC evaluates for the 72 stages in the run `experiments`, and
that the provers would have to unfold 72 plans to find.

Only model-checked, and why:

- liveness (`PoolLive`, `CallsReturn`, `Returns`, `Answered`, `ServeReturns`,
  `StageEnds`, `ExtractionEnds`): fairness and `ENABLED` are beyond this prover;
- `OracleExact`, `SimulatorsAgree`, `ReplayExact`, `TraceExact`, `ProgressExact`,
  `TimelinesReconcile`, `HeaderTilesPayload`, `LayoutsAgree`: they say what folds
  and recursive functions compute, which needs induction over data.

Every other safety property of the runs has its theorem.

## 5. Findings

1. `expert_cache_exhausted` – `storage.cpp:656`. A guess that completes between
   `clock_victim`'s scan and the search for loading guesses leaves a free slot
   unseen, and `acquire` throws "expert cache exhausted by outstanding leases"
   although nothing is leased. The comment above says it waits instead.
2. `pipeline_admitted` – `pipeline.cpp:167`. With more experts than the window,
   `admitted` runs after some were encoded and released, against the comment in
   `pipeline.hpp:30`. Its only caller passes few enough experts.
3. `session_stale` – `session.cpp:165`. A request abandoned between two batches
   leaves a longer history with older logits; an identical prompt then samples
   its first token from them. `DecodedFromHistory` is the part that always
   holds: never logits of an edited history, and exact ones after the first
   token.
4. `mixed_payloads_pinned` – `verify_mixed_payloads.py:44`. The comparison takes
   its first fingerprints anew after the verification, so a file replaced after
   its own verification is compared in place of the pinned one and published
   with the pinned one's receipt. `ComparisonOfOneState` is what does hold.

Seen while modelling, without a run of their own: an expert whose read failed
stays in `lookup_` and its next request gets the stored exception; an extraction
killed between the rename of a tensor and its receipt refuses to continue until
the file is removed (a disjunct of `ExtractionEnds`); the stale-entry test of the
Belady heap can never fire on the entry it pops first, since an entry that was
superseded names an earlier use than any live one.

## 6. Not modelled, and why

Numerical code (kernels, layer arithmetic, sampling, quantisation, the numerical
references) and parsing of fixed file layouts have no states to explore. HTTP
parsing, JSON, template text and the text substitutions of the producers are
reduced to the decisions they lead to. The speculative predictor is represented
by `prefetch` of any expert at any time, a superset of what it can ask for.

Engine parts without a module: the memory plan and pressure policy, scratch
arenas, `NgramStore`, the engine's own download and preparation, the chat
client's threads, `StreamParser`, the segmented-LRU policy and the batched expert
loops. Scripts without a module: the benchmark and tuning drivers, the selector
and request triage (statistics on real numbers), the evidence index and its
queries, single-command captures and profiles, and the checks that drive a
server from outside. `PROJECT.json` gives the reason for each.

The limits of the present models: a session's tokens are two letters and a stop;
each connection makes one request, though the server serves connections one after
another; a disconnect before a handler waits for its job is not a step of its
own, because nothing looks at the socket until then. Experiments see times of a
few percent values, never a distribution; `HorizonEarly` always has the kernel
step, as under `--tiled`; and `budget_screen` looks at the
interval of the Q8 confirmation only. Two scripts that run at once in one
directory are not modelled; the lease excludes it for stages, nothing does for
`verify_checkpoint.py`, whose temporary receipt two runs would share. A native
library older than the header it was configured with passes the producers'
checks; the model takes library and header as one file set. A kill of the script
leaves its native process running without the lease; the model has that state
and claims nothing about it.

## 7. Plan

1. done – `ReadPool`, `ReadService`, `ExpertCache`, `ExpertPipeline`, `Session`,
   `Server`, proofs of the pool.
2. done – the artifact scripts, the producers, the experiments, the simulators
   and readers.
3. done – proofs of the cache, the pipeline, the session, the server, the
   checkpoint scripts, the sidecar, the producers and the runner, and the
   refinement of `ReadService`.
4. done – proofs of the runner: the rules of all stages, the auditors, the chains.
5. If the model grows again – `MemoryPlan` driving the cache's `resize`, scratch
   arenas, the chat client's threads; for the readers, the parts of
   `ProgressExact` and `TraceExact` that speak of the reader's position and not of
   what was added up.
