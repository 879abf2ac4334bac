---------------------------- MODULE MCArtifacts ----------------------------
(***************************************************************************)
(* Bounded instances of the artifact scripts.  The checkpoint directories, *)
(* the draft sidecar, the layouts and the producers share no state: a      *)
(* behaviour is one of one of them, and the others stay where nothing can  *)
(* be done.                                                                *)
(***************************************************************************)
EXTENDS CheckpointFiles, MtpSource, TensorLayout, Producers
VARIABLE part

MCTensors == <<"bf16", "expert", "q8">>

Init ==
  /\ part \in {"files", "sidecar", "layout", "producer"}
  /\ IF part = "files" THEN FilesInit
     ELSE /\ disk = [d \in Locks |-> [f \in Files |-> Absent]] /\ receipt = [d \in Locks |-> NoReceipt]
          /\ clock = 0 /\ job = NoJob /\ edits = 0 /\ started = 0
          /\ output = [f \in Files |-> Absent] /\ recipe = "none" /\ outReceipt = NoOutReceipt
          /\ manifest = NoManifest /\ CompareInit
  /\ IF part = "sidecar" THEN MtpInit
     ELSE /\ inventory = "partial" /\ payload = <<>> /\ got = {} /\ gotComplete = FALSE
          /\ sidecar = NoSidecar /\ task = NoTask /\ tensorEdits = 0 /\ deaths = 0
  /\ IF part = "layout" THEN LayoutInit
     ELSE ranges = <<>> /\ extent = 0 /\ accepted = "idle" /\ dense = <<>> /\ layout = "idle"
  /\ IF part = "producer" THEN ProducersInit
     ELSE /\ tree = <<>> /\ made = NoProducer /\ buildPc = "none" /\ seen = <<>>
          /\ touched = {} /\ sourceEdits = 0

Next ==
  /\ UNCHANGED part
  /\ \/ /\ part = "files" /\ FilesNext /\ UNCHANGED <<mtpVars, layoutVars, producerVars>>
     \/ /\ part = "sidecar" /\ MtpNext /\ UNCHANGED <<fileVars, layoutVars, producerVars>>
     \/ /\ part = "layout" /\ LayoutNext /\ UNCHANGED <<fileVars, mtpVars, producerVars>>
     \/ /\ part = "producer" /\ ProducersNext /\ UNCHANGED <<fileVars, mtpVars, layoutVars>>

Spec == Init /\ [][Next]_<<part, fileVars, mtpVars, layoutVars, producerVars>> /\ MtpFairness
=============================================================================
