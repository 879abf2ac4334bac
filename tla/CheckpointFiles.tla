-------------------------- MODULE CheckpointFiles --------------------------
(***************************************************************************)
(* The scripts that share the checkpoint directories: verification and     *)
(* download, storage preparation and the comparison of mixed payloads.     *)
(* One of them runs at a time, each leaves the others' files alone.        *)
(***************************************************************************)
EXTENDS StoragePreparation, MixedPayloads

fileVars == <<checkpointVars, prepareVars, compareVars>>

FilesInit == CheckpointInit /\ PrepareInit /\ CompareInit

FilesNext ==
  \/ CheckpointNext /\ UNCHANGED <<prepareVars, compareVars>>
  \/ PrepareNext /\ UNCHANGED compareVars
  \/ CompareNext /\ UNCHANGED prepareVars

FilesSpec == FilesInit /\ [][FilesNext]_fileVars
=============================================================================
