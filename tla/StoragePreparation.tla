------------------------- MODULE StoragePreparation -------------------------
(***************************************************************************)
(* prepare_storage.py: the verified Q4 checkpoint is copied file by file   *)
(* into prepared records.  Each file is published by a rename and entered  *)
(* in an interim receipt, so that an interrupted run resumes; the manifest *)
(* and the final receipt come last.  One prepared file stands for each     *)
(* source file.  The output directory belongs to the preparer while it     *)
(* runs and may be disturbed between runs; the source may be at any time.  *)
(***************************************************************************)
EXTENDS Checkpoint

ASSUME PrepareAssumption == "q4" \in Locks

VARIABLES
  output,        \* the prepared files
  recipe,        \* the recipe preparation.json names
  outReceipt,    \* verification.json: its entries, and whether it seals a manifest
  manifest       \* the digests manifest.json lists

prepareVars == <<output, recipe, outReceipt, manifest>>

NoOutReceipt == [files |-> [f \in Files |-> Absent], sealed |-> FALSE]
NoManifest == [f \in Files |-> "none"]

\* A preparation, or with --verify an "audit" that converts nothing.
Prepare ==
  /\ \E script \in {"prepare", "audit"} : Begin(script, "stat", "q4", "q4", TRUE)
  /\ UNCHANGED prepareVars

\* The recipe is settled first; then the sources are opened and the space is
\* asked for.
PrepareOpen ==
  /\ At("open")
  /\ IF recipe = "other" THEN Abandon /\ UNCHANGED recipe
     ELSE /\ recipe' = "q4"
          /\ \/ /\ \A f \in Files : RightSize(disk["q4"][f].content)
                /\ job' = [job EXCEPT !.pc = "publish", !.new = [f \in Files |-> Absent],
                                      !.opened = [f \in Files |-> disk["q4"][f].content]]
             \/ /\ job.script = "prepare" \/ \E f \in Files : ~RightSize(disk["q4"][f].content)
                /\ Abandon
  /\ UNCHANGED <<disk, receipt, clock, edits, started, output, outReceipt, manifest>>

Saved == outReceipt.files[job.at]
Reusable == output[job.at] # Absent /\ Saved.stamp = output[job.at].stamp

PublishReuse ==
  /\ At("publish") /\ job.at \in Files /\ Reusable
  /\ IF job.script = "audit" /\ output[job.at].content # Saved.content
     THEN Abandon
     ELSE job' = [job EXCEPT !.pc = "enter", !.new[job.at] = Saved]
  /\ UNCHANGED <<disk, receipt, clock, edits, started, prepareVars>>

\* The descriptor still reads a file that was replaced or unlinked, and the
\* present bytes of one that was edited in place.
PublishWrite ==
  /\ At("publish") /\ job.at \in Files /\ ~Reusable
  /\ \/ /\ job.script = "audit" /\ Abandon
     \/ /\ job.script = "prepare"
        /\ \E c \in {job.opened[job.at], Current.content} \ {"absent"} :
             IF RightSize(c) THEN job' = [job EXCEPT !.pc = "rename", !.sha = c] ELSE Abandon
  /\ UNCHANGED <<disk, receipt, clock, edits, started, prepareVars>>

PublishRename ==
  /\ At("rename")
  /\ output' = [output EXCEPT ![job.at] = File(job.sha, clock)]
  /\ clock' = clock + 1
  /\ job' = [job EXCEPT !.pc = "enter", !.new[job.at] = File(job.sha, clock)]
  /\ UNCHANGED <<disk, receipt, edits, started, recipe, outReceipt, manifest>>

\* The interim receipt keeps the entries of earlier runs and seals nothing.
PublishEnter ==
  /\ At("enter")
  /\ outReceipt' = [files |-> [outReceipt.files EXCEPT ![job.at] = job.new[job.at]], sealed |-> FALSE]
  /\ job' = NextFile("publish")
  /\ UNCHANGED <<disk, receipt, clock, edits, started, output, recipe, manifest>>

SourceUnchanged == \A f \in Files : disk["q4"][f].stamp = job.proven[f]
Listed == [f \in Files |-> job.new[f].content]
\* The lock pins the manifest, and with it every prepared digest.
AnyManifest(m) == m # NoManifest
PinnedManifest(m) == m = [f \in Files |-> "q4"]

PrepareManifest ==
  /\ At("publish") /\ job.at = NFiles + 1
  /\ IF SourceUnchanged /\ PinnedManifest(Listed)
     THEN manifest' = Listed /\ Goto("seal")
     ELSE Abandon /\ UNCHANGED manifest
  /\ UNCHANGED <<disk, receipt, clock, edits, started, output, recipe, outReceipt>>

PrepareSeal ==
  /\ At("seal")
  /\ outReceipt' = [files |-> job.new, sealed |-> TRUE]
  /\ Abandon
  /\ UNCHANGED <<disk, receipt, clock, edits, started, output, recipe, manifest>>

EditOutput ==
  /\ job.script \notin {"prepare", "audit"}
  /\ edits < MaxEdits /\ edits' = edits + 1
  /\ \E f \in Files, c \in {"altered", "absent"} :
       /\ output[f].content \notin {c, "absent"}
       /\ output' = [output EXCEPT ![f] = IF c = "absent" THEN Absent ELSE File(c, clock)]
  /\ clock' = clock + 1
  /\ UNCHANGED <<disk, receipt, job, started, recipe, outReceipt, manifest>>

PrepareNext ==
  \/ Prepare \/ PrepareOpen \/ PublishReuse \/ PublishWrite \/ PublishRename \/ PublishEnter
  \/ PrepareManifest \/ PrepareSeal \/ EditOutput

PrepareInit ==
  /\ output = [f \in Files |-> Absent] /\ recipe \in {"none", "other"}
  /\ outReceipt = NoOutReceipt /\ manifest = NoManifest

---------------------------------------------------------------------------

\* A sealed verification.json vouches for the pinned records only, although files
\* copied from a source edited meanwhile stay in the interim receipt and are
\* reused by every later run: the manifest it seals is the one on disk, and each
\* entry that still fits its file speaks of pinned bytes.
SealedPreparationFaithful ==
  outReceipt.sealed =>
    /\ manifest = [f \in Files |-> outReceipt.files[f].content]
    /\ \A f \in Files : /\ outReceipt.files[f].content = "q4"
                        /\ output[f].stamp = outReceipt.files[f].stamp => output[f].content = "q4"
=============================================================================
