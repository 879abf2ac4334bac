----------------------------- MODULE MtpSource -----------------------------
(***************************************************************************)
(* The draft model's sidecar: mtp_source.py extracts the original MTP      *)
(* tensors by byte ranges, prepare_mtp.py quantizes them.  Both publish    *)
(* by rename and receipt, may die between any two file operations and may  *)
(* be started again; tensors may be edited by somebody else meanwhile.     *)
(*                                                                         *)
(* A tensor's bytes are "whole" when they are the answers to its ranges,   *)
(* "edited" when somebody changed them later.  Dense tensors kept in BF16  *)
(* are told apart from quantized ones: only they are hashed while copied.  *)
(***************************************************************************)
EXTENDS Naturals, Sequences

CONSTANTS Tensors,      \* the tensors in sorted order: a sequence of "bf16", "q8" and "expert"
          Chunks,       \* ranges a tensor is fetched in
          MaxTensorEdits,
          MaxDeaths     \* how often a script is killed, or a request fails

ASSUME MtpAssumption ==
    /\ Tensors \in Seq({"bf16", "q8", "expert"})
    /\ Chunks \in Nat \ {0} /\ {MaxTensorEdits, MaxDeaths} \subseteq Nat

VARIABLES
  inventory,    \* "none", "partial" (its directory exists), "pinned" or "edited"
  payload,      \* the tensor files
  got,          \* download.json: the receipted tensors
  gotComplete,  \* ... and its complete flag
  sidecar,      \* the prepared directory: stage reached, bytes copied, manifest
  task,         \* the script at work
  tensorEdits, deaths

mtpVars == <<inventory, payload, got, gotComplete, sidecar, task, tensorEdits, deaths>>

TensorIds == 1..Len(Tensors)
NoTask == [script |-> "none", pc |-> "none", at |-> 1, chunk |-> 0]
NoSidecar == [exists |-> FALSE, copied |-> [t \in TensorIds |-> "none"], dense |-> FALSE, complete |-> FALSE]
On(script, pc) == task.script = script /\ task.pc = pc
Step(pc) == task' = [task EXCEPT !.pc = pc]
StepTo(pc, n) == task' = [task EXCEPT !.pc = pc, !.at = n, !.chunk = 0]
GiveUp == task' = NoTask
StartTask(script, pc) == task = NoTask /\ task' = [NoTask EXCEPT !.script = script, !.pc = pc]

---------------------------------------------------------------------------
(* inspect: a new directory, bounded metadata, inventory.json last.        *)

InspectBegin ==
  /\ StartTask("inspect", "metadata")
  /\ inventory = "none" /\ inventory' = "partial"
  /\ UNCHANGED <<payload, got, gotComplete, sidecar, tensorEdits, deaths>>

\* Every answer and every geometry is checked before the inventory exists.
InspectEnd ==
  /\ On("inspect", "metadata")
  /\ inventory' = "pinned" /\ GiveUp
  /\ UNCHANGED <<payload, got, gotComplete, sidecar, tensorEdits, deaths>>

---------------------------------------------------------------------------
(* download                                                                *)

LoadInventory == inventory = "pinned"

DownloadBegin ==
  /\ LoadInventory
  /\ StartTask("download", "tensor")
  /\ gotComplete' = FALSE
  /\ UNCHANGED <<inventory, payload, got, sidecar, tensorEdits, deaths>>

\* A receipted tensor is hashed again: a changed one is never replaced.
TensorSaved ==
  /\ On("download", "tensor") /\ task.at \in TensorIds /\ task.at \in got
  /\ IF payload[task.at] = "whole" THEN StepTo("tensor", task.at + 1) ELSE GiveUp
  /\ UNCHANGED <<inventory, payload, got, gotComplete, sidecar, tensorEdits, deaths>>

\* A file no receipt speaks of is refused.
TensorUnreceipted ==
  /\ On("download", "tensor") /\ task.at \in TensorIds \ got
  /\ IF payload[task.at] # "none" THEN GiveUp ELSE Step("range")
  /\ UNCHANGED <<inventory, payload, got, gotComplete, sidecar, tensorEdits, deaths>>

\* get: exactly the range asked for, or an error that ends the script.
GetRange ==
  /\ On("download", "range") /\ task.chunk < Chunks
  /\ \/ task' = [task EXCEPT !.chunk = task.chunk + 1] /\ UNCHANGED deaths
     \/ GiveUp /\ deaths < MaxDeaths /\ deaths' = deaths + 1
  /\ UNCHANGED <<inventory, payload, got, gotComplete, sidecar, tensorEdits>>

TensorRename ==
  /\ On("download", "range") /\ task.chunk = Chunks
  /\ payload' = [payload EXCEPT ![task.at] = "whole"]
  /\ Step("receipt")
  /\ UNCHANGED <<inventory, got, gotComplete, sidecar, tensorEdits, deaths>>

TensorReceipt ==
  /\ On("download", "receipt")
  /\ got' = got \cup {task.at}
  /\ StepTo("tensor", task.at + 1)
  /\ UNCHANGED <<inventory, payload, gotComplete, sidecar, tensorEdits, deaths>>

DownloadEndUnmarked ==
  /\ On("download", "tensor") /\ task.at = Len(Tensors) + 1
  /\ GiveUp
  /\ UNCHANGED <<inventory, payload, got, gotComplete, sidecar, tensorEdits, deaths>>
DownloadEnd ==
  /\ On("download", "tensor") /\ task.at = Len(Tensors) + 1
  /\ gotComplete' = TRUE /\ GiveUp
  /\ UNCHANGED <<inventory, payload, got, sidecar, tensorEdits, deaths>>

---------------------------------------------------------------------------
(* prepare: dense tensors first, then the experts, the flag last.          *)

\* open_sources hashes every tensor against the complete receipt.
OpenSources == gotComplete /\ \A t \in TensorIds : payload[t] = "whole"

PrepareMtpBegin ==
  /\ LoadInventory /\ OpenSources
  /\ StartTask("prepare", "copy")
  /\ ~sidecar.exists
  /\ sidecar' = [NoSidecar EXCEPT !.exists = TRUE]
  /\ UNCHANGED <<inventory, payload, got, gotComplete, tensorEdits, deaths>>

Phase(kind) == {t \in TensorIds : (Tensors[t] = "expert") = (kind = "expert")}
Uncopied(kind) == {t \in Phase(kind) : sidecar.copied[t] = "none"}
First(S) == CHOOSE t \in S : \A u \in S : t <= u

\* The hash of a BF16 payload as it was written; nothing of the kind for others.
NeverHashed(t) == t \in TensorIds
HashedAsCopied(t) == Tensors[t] = "bf16" => payload[t] = "whole"

CopyTensor(kind) ==
  /\ Uncopied(kind) # {}
  /\ LET t == First(Uncopied(kind))
     IN IF HashedAsCopied(t)
        THEN sidecar' = [sidecar EXCEPT !.copied[t] = payload[t]] /\ UNCHANGED task
        ELSE GiveUp /\ UNCHANGED sidecar

CopyDense ==
  /\ On("prepare", "copy") /\ ~sidecar.dense
  /\ CopyTensor("dense")
  /\ UNCHANGED <<inventory, payload, got, gotComplete, tensorEdits, deaths>>

DenseRename ==
  /\ On("prepare", "copy") /\ ~sidecar.dense /\ Uncopied("dense") = {}
  /\ sidecar' = [sidecar EXCEPT !.dense = TRUE]
  /\ UNCHANGED <<inventory, payload, got, gotComplete, task, tensorEdits, deaths>>

CopyExperts ==
  /\ On("prepare", "copy") /\ sidecar.dense
  /\ CopyTensor("expert")
  /\ UNCHANGED <<inventory, payload, got, gotComplete, tensorEdits, deaths>>

\* The receipt, not the tensors, is compared once more.
PrepareMtpEnd ==
  /\ On("prepare", "copy") /\ sidecar.dense /\ Uncopied("expert") = {}
  /\ sidecar' = [sidecar EXCEPT !.complete = TRUE]
  /\ GiveUp
  /\ UNCHANGED <<inventory, payload, got, gotComplete, tensorEdits, deaths>>

---------------------------------------------------------------------------

MtpDie ==
  /\ task # NoTask /\ deaths < MaxDeaths /\ deaths' = deaths + 1
  /\ GiveUp
  /\ UNCHANGED <<inventory, payload, got, gotComplete, sidecar, tensorEdits>>

EditSource ==
  /\ tensorEdits < MaxTensorEdits /\ tensorEdits' = tensorEdits + 1
  /\ \/ /\ \E t \in TensorIds : payload[t] = "whole" /\ payload' = [payload EXCEPT ![t] = "edited"]
        /\ UNCHANGED inventory
     \/ /\ inventory = "pinned" /\ inventory' = "edited"
        /\ UNCHANGED payload
  /\ UNCHANGED <<got, gotComplete, sidecar, task, deaths>>

MtpScripts ==
  \/ InspectEnd \/ TensorSaved \/ TensorUnreceipted \/ GetRange \/ TensorRename \/ TensorReceipt \/ DownloadEnd
  \/ CopyDense \/ DenseRename \/ CopyExperts \/ PrepareMtpEnd
MtpNext == MtpScripts \/ InspectBegin \/ DownloadBegin \/ PrepareMtpBegin \/ MtpDie \/ EditSource

MtpInit ==
  /\ inventory = "none" /\ payload = [t \in TensorIds |-> "none"]
  /\ got = {} /\ gotComplete = FALSE /\ sidecar = NoSidecar
  /\ task = NoTask /\ tensorEdits = 0 /\ deaths = 0

\* A started script runs on, and an unfinished extraction is started again.
MtpFairness == WF_mtpVars(MtpScripts) /\ WF_mtpVars(InspectBegin) /\ WF_mtpVars(~gotComplete /\ DownloadBegin)

MtpSpec == MtpInit /\ [][MtpNext]_mtpVars /\ MtpFairness

---------------------------------------------------------------------------

\* Whatever was killed or edited on the way, a sidecar marked complete holds
\* every tensor, was made from a complete extraction, and its BF16 tensors, which
\* are used as they are, are the bytes the ranges answered.
SidecarDerived ==
  sidecar.complete => /\ got = TensorIds
                      /\ \A t \in TensorIds : sidecar.copied[t] # "none"
                      /\ \A t \in TensorIds : Tensors[t] = "bf16" => sidecar.copied[t] = "whole"

\* Nothing ends an extraction that is started again and again but three
\* obstacles it reports each time: an inventory left unfinished or changed, a
\* tensor changed after its receipt, and a tensor file whose receipt was never
\* written because the script died between the two.
Obstacle ==
  \/ inventory \in {"partial", "edited"}
  \/ \E t \in got : payload[t] = "edited"
  \/ \E t \in TensorIds \ got : payload[t] # "none"
ExtractionEnds == <>(gotComplete \/ [](Obstacle))
=============================================================================
