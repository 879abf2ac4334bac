--------------------------- MODULE ArtifactProofs ---------------------------
(***************************************************************************)
(* Proofs about the artifact scripts: the checkpoint directories (any      *)
(* number of files, pinned revisions, edits and runs), the draft model's   *)
(* sidecar (any tensors) and the producers (any number of edits).          *)
(*                                                                         *)
(* What makes the scripts right is the same everywhere: a note taken of a  *)
(* file (a receipt entry, a fingerprint, a frozen version) is either still *)
(* true of the file or tells that the file has changed since.              *)
(***************************************************************************)
EXTENDS CheckpointFiles, MtpSource, Producers, TLAPS

Kinds    == Contents \cup {"absent"}
FileType == [content : Kinds, stamp : Nat]

(* A file, or a note of one: stamped in the past, and 0 when there is none. *)
Dated(e, now) == e \in FileType /\ e.stamp < now /\ (e.stamp = 0 <=> e.content = "absent")

(* A note that fits a file names its content.                              *)
Vouches(e, file) == e.stamp = file.stamp => e.content = file.content

VerifyPc   == {"stat", "digest", "restat"}
DownloadPc == {"preflight", "rehash", "fetch"}
PublishPc  == {"publish", "rename", "enter", "seal"}
JobPc      == VerifyPc \cup DownloadPc \cup PublishPc \cup {"open", "fingerprint", "tensor"}

JobType ==
  [script : {"none", "verify", "download", "prepare", "audit", "compare"}, pc : JobPc \cup {"none"},
   dir : Locks \cup {"none"}, lock : Locks \cup {"none"}, cached : BOOLEAN, at : 1 .. NFiles + 1,
   before : Nat, sha : Kinds \cup {"none"}, new : [Files -> FileType],
   seen : [Files -> Nat], proven : [Files -> Nat], opened : [Files -> Kinds \cup {"none"}]]

DiskInv ==
  /\ clock \in Nat \ {0}
  /\ disk \in [Locks -> [Files -> FileType]] /\ output \in [Files -> FileType]
  /\ \A d \in Locks, f \in Files : Dated(disk[d][f], clock)
  /\ \A f \in Files : Dated(output[f], clock)

(* A receipt entry is of the pinned content, and vouches for its file.     *)
ReceiptInv ==
  /\ receipt \in [Locks -> [revision : Locks \cup {"none"}, files : [Files -> FileType]]]
  /\ \A d \in Locks, f \in Files :
       /\ Dated(receipt[d].files[f], clock) /\ receipt[d].files[f].content \in {"absent", receipt[d].revision}
       /\ Vouches(receipt[d].files[f], disk[d][f])

(* So does an entry of the preparation's receipt, sealed or interim.       *)
OutputInv ==
  /\ manifest \in [Files -> Kinds \cup {"none"}]
  /\ outReceipt \in [files : [Files -> FileType], sealed : BOOLEAN]
  /\ \A f \in Files : Dated(outReceipt.files[f], clock) /\ Vouches(outReceipt.files[f], output[f])
  /\ outReceipt.sealed => \A f \in Files : outReceipt.files[f].content = "q4" /\ manifest[f] = "q4"

(* A script at work has a directory, and is at a file where it reads one.  *)
ScriptInv ==
  /\ job \in JobType
  /\ job.pc # "none" => job.dir \in Locks /\ job.lock \in Locks
  /\ job.pc \in {"digest", "restat", "rehash", "rename", "enter"} => job.at \in Files

(* The entries a verification has noted, and the file it is at.            *)
VerifyInv ==
  /\ job.pc \in VerifyPc \cup DownloadPc =>
       \A f \in Files : /\ Dated(job.new[f], clock) /\ job.new[f].content \in {"absent", job.lock}
                        /\ Vouches(job.new[f], disk[job.dir][f])
  /\ job.pc \in {"digest", "restat"} => job.before \in 1 .. clock - 1
  /\ job.pc = "restat" => Vouches(File(job.sha, job.before), disk[job.dir][job.at])

(* What the preflight found is the pinned content, or has changed since.   *)
PreflightInv ==
  job.pc \in DownloadPc =>
    \A f \in Files :
      /\ job.seen[f] < clock
      /\ \/ job.pc = "rehash" /\ f = job.at
         \/ job.seen[f] = 0 \/ job.seen[f] # disk[job.dir][f].stamp
         \/ disk[job.dir][f].content = job.lock

(* The entries a preparation has made or taken over.                       *)
PublishInv ==
  /\ job.pc \in PublishPc => \A f \in Files : Dated(job.new[f], clock) /\ Vouches(job.new[f], output[f])
  /\ job.pc \in PublishPc => \A f \in Files : job.opened[f] \in Contents
  /\ job.pc = "rename" => job.sha \in Contents
  /\ job.pc = "seal" => \A f \in Files : job.new[f].content = "q4" /\ manifest[f] = "q4"

(* A pair that was read is the pair on disk, unless a mark tells otherwise. *)
CompareInv ==
  /\ reads \in [Files -> (Kinds \cup {"none"}) \X (Kinds \cup {"none"})]
  /\ marks \in [Locks -> [Files -> Nat]]
  /\ job.pc = "fingerprint" => job.at = 1
  /\ job.pc = "tensor" =>
       \A f \in Files :
         /\ \A d \in Locks : marks[d][f] \in 1 .. clock - 1
         /\ f < job.at /\ (\A d \in Locks : marks[d][f] = disk[d][f].stamp)
              => reads[f] = <<disk["q4"][f].content, disk["mixed"][f].content>>

JobInv == ScriptInv /\ VerifyInv /\ PreflightInv /\ PublishInv /\ CompareInv

FilesInv == DiskInv /\ ReceiptInv /\ OutputInv /\ JobInv
-----------------------------------------------------------------------------
(* A note stays a note, and a file written later does not fit it.          *)
LEMMA NotesStay ==
    ASSUME NEW e, NEW n \in Nat, NEW m \in Nat, n <= m, Dated(e, n)
    PROVE  Dated(e, m)
  BY DEF Dated, FileType

(* A file that is written gets a new stamp, one that is deleted has none.  *)
Fresh(file, now) == file = Absent \/ file.stamp = now

(* No note taken before fits a file that is fresh.                         *)
LEMMA FreshUnnoted ==
    ASSUME NEW e, NEW n \in Nat, Dated(e, n), NEW file, Fresh(file, n)
    PROVE  Vouches(e, file)
  BY DEF Dated, FileType, Fresh, Vouches, Absent, File

(* A file that is not there.                                               *)
LEMMA AbsentDated ==
    ASSUME NEW n \in Nat \ {0}
    PROVE  /\ Dated(Absent, n) /\ \A e : Dated(e, n) => Vouches(Absent, e)
  BY DEF Dated, FileType, Vouches, Absent, File, Kinds

(* What a step may do to the files: leave each alone or write it anew.     *)
Touched ==
  /\ clock' \in Nat /\ clock <= clock' /\ DiskInv'
  /\ \A d \in Locks, f \in Files : disk'[d][f] = disk[d][f] \/ Fresh(disk'[d][f], clock)
  /\ \A f \in Files : output'[f] = output[f] \/ Fresh(output'[f], clock)

(* A note that vouched for a file still does.                              *)
LEMMA StillVouches ==
    ASSUME DiskInv, Touched, NEW e, Dated(e, clock)
    PROVE  /\ Dated(e, clock')
           /\ \A d \in Locks, f \in Files : Vouches(e, disk[d][f]) => Vouches(e, disk'[d][f])
           /\ \A f \in Files : Vouches(e, output[f]) => Vouches(e, output'[f])
  <1>1. clock \in Nat /\ clock' \in Nat /\ clock <= clock'
    BY DEF DiskInv, Touched
  <1>2. Dated(e, clock')
    BY <1>1, NotesStay
  <1>3. \A file : Fresh(file, clock) => Vouches(e, file)
    BY <1>1, FreshUnnoted
  <1>4. QED
    BY <1>2, <1>3 DEF Touched

(* A receipt that is not written stays true.                               *)
LEMMA ReceiptStays ==
    ASSUME DiskInv, Touched, ReceiptInv, receipt' = receipt
    PROVE  ReceiptInv'
  BY StillVouches DEF ReceiptInv

(* So does that of the preparation.                                        *)
LEMMA OutputStays ==
    ASSUME DiskInv, Touched, OutputInv, outReceipt' = outReceipt, manifest' = manifest
    PROVE  OutputInv'
  BY StillVouches DEF OutputInv

(* The idle job is well typed.                                             *)
LEMMA NoJobType ==
    NoJob \in JobType /\ NoJob.pc = "none" /\ NoReads \in [Files -> (Kinds \cup {"none"}) \X (Kinds \cup {"none"})]
  BY CheckpointAssumption DEF NoJob, JobType, NoReads, NoPair, Absent, File, FileType, Kinds

(* A script that ends leaves nothing to keep.                              *)
LEMMA JobEnds ==
    ASSUME CompareInv, job' = NoJob, marks' = marks, reads' \in {reads, NoReads}
    PROVE  JobInv'
  <1>1. job' \in JobType /\ job'.pc = "none"
    BY NoJobType
  <1>2. ScriptInv' /\ VerifyInv' /\ PreflightInv' /\ PublishInv'
    BY <1>1 DEF ScriptInv, VerifyInv, PreflightInv, PublishInv, VerifyPc, DownloadPc, PublishPc
  <1>3. CompareInv'
    BY <1>1, NoJobType DEF CompareInv
  <1>4. QED
    BY <1>2, <1>3 DEF JobInv

(* A script that is not at work keeps what it has noted.                   *)
LEMMA JobStays ==
    ASSUME DiskInv, Touched, JobInv, UNCHANGED <<job, manifest, marks, reads>>
    PROVE  JobInv'
  <1>0. ScriptInv /\ VerifyInv /\ PreflightInv /\ PublishInv /\ CompareInv
    BY DEF JobInv
  <1>1. clock \in Nat /\ clock' \in Nat /\ clock <= clock' /\ clock' # 0
    BY DEF DiskInv, Touched
  <1>2. ScriptInv'
    BY <1>0 DEF ScriptInv
  <1>3. VerifyInv'
    <2>1. ASSUME job.pc \in VerifyPc \cup DownloadPc, NEW f \in Files
          PROVE  /\ Dated(job.new[f], clock') /\ job.new[f].content \in {"absent", job.lock}
                 /\ Vouches(job.new[f], disk'[job.dir][f])
      <3>1. job.dir \in Locks
        BY <1>0, <2>1 DEF ScriptInv, VerifyPc, DownloadPc
      <3>2. Dated(job.new[f], clock) /\ job.new[f].content \in {"absent", job.lock}
            /\ Vouches(job.new[f], disk[job.dir][f])
        BY <1>0, <2>1 DEF VerifyInv
      <3>3. QED
        BY <3>1, <3>2, StillVouches
    <2>2. job.pc \in {"digest", "restat"} => job.before \in 1 .. clock' - 1
      BY <1>0, <1>1 DEF VerifyInv
    <2>3. job.pc = "restat" => Vouches(File(job.sha, job.before), disk'[job.dir][job.at])
      <3>1. SUFFICES ASSUME job.pc = "restat" PROVE Vouches(File(job.sha, job.before), disk'[job.dir][job.at])
        OBVIOUS
      <3>2. job.dir \in Locks /\ job.at \in Files /\ job.before \in 1 .. clock - 1
            /\ Vouches(File(job.sha, job.before), disk[job.dir][job.at])
        BY <1>0, <3>1 DEF ScriptInv, VerifyInv
      <3>3. \A file : Fresh(file, clock) => Vouches(File(job.sha, job.before), file)
        BY <1>1, <3>2 DEF Fresh, Vouches, Absent, File
      <3>4. QED
        BY <3>2, <3>3 DEF Touched
    <2>4. QED
      BY <2>1, <2>2, <2>3 DEF VerifyInv
  <1>4. PreflightInv'
    <2>1. ASSUME job.pc \in DownloadPc, NEW f \in Files
          PROVE  /\ job.seen[f] < clock'
                 /\ \/ job.pc = "rehash" /\ f = job.at
                    \/ job.seen[f] = 0 \/ job.seen[f] # disk'[job.dir][f].stamp
                    \/ disk'[job.dir][f].content = job.lock
      <3>1. job.dir \in Locks /\ job.seen[f] \in Nat
        BY <1>0, <2>1 DEF ScriptInv, JobType, DownloadPc
      <3>2. /\ job.seen[f] < clock
            /\ \/ job.pc = "rehash" /\ f = job.at
               \/ job.seen[f] = 0 \/ job.seen[f] # disk[job.dir][f].stamp
               \/ disk[job.dir][f].content = job.lock
        BY <1>0, <2>1 DEF PreflightInv
      <3>3. disk'[job.dir][f] = disk[job.dir][f] \/ Fresh(disk'[job.dir][f], clock)
        BY <3>1 DEF Touched
      <3>4. job.seen[f] < clock'
        BY <1>1, <3>1, <3>2
      <3>5. CASE disk'[job.dir][f] = disk[job.dir][f]
        BY <3>2, <3>4, <3>5
      <3>6. CASE Fresh(disk'[job.dir][f], clock)
        BY <1>1, <3>1, <3>2, <3>4, <3>6 DEF Fresh, Absent, File
      <3>7. QED
        BY <3>3, <3>5, <3>6
    <2>2. QED
      BY <2>1 DEF PreflightInv
  <1>5. PublishInv'
    <2>1. ASSUME job.pc \in PublishPc, NEW f \in Files
          PROVE  Dated(job.new[f], clock') /\ Vouches(job.new[f], output'[f])
      BY <1>0, <2>1, StillVouches DEF PublishInv
    <2>2. QED
      BY <1>0, <2>1 DEF PublishInv
  <1>6. CompareInv'
    <2>1. ASSUME job.pc = "tensor", NEW f \in Files
          PROVE  /\ \A d \in Locks : marks[d][f] \in 1 .. clock' - 1
                 /\ f < job.at /\ (\A d \in Locks : marks[d][f] = disk'[d][f].stamp)
                      => reads[f] = <<disk'["q4"][f].content, disk'["mixed"][f].content>>
      <3>1. \A d \in Locks : marks[d][f] \in 1 .. clock - 1
        BY <1>0, <2>1 DEF CompareInv
      <3>2. \A d \in Locks : marks[d][f] \in 1 .. clock' - 1
        BY <1>1, <3>1
      <3>3. \A d \in Locks : Fresh(disk'[d][f], clock) => marks[d][f] # disk'[d][f].stamp
        BY <1>1, <3>1 DEF Fresh, Absent, File
      <3>4. \A d \in Locks : marks[d][f] = disk'[d][f].stamp => disk'[d][f] = disk[d][f]
        BY <3>3 DEF Touched
      <3>5. ASSUME f < job.at, \A d \in Locks : marks[d][f] = disk'[d][f].stamp
            PROVE  reads[f] = <<disk'["q4"][f].content, disk'["mixed"][f].content>>
        <4>1. \A d \in Locks : disk'[d][f] = disk[d][f]
          BY <3>4, <3>5
        <4>2. reads[f] = <<disk["q4"][f].content, disk["mixed"][f].content>>
          BY <1>0, <2>1, <3>5, <4>1 DEF CompareInv
        <4>3. QED
          BY <4>1, <4>2, CompareAssumption
      <3>6. QED
        BY <3>2, <3>5
    <2>2. QED
      BY <1>0, <2>1 DEF CompareInv
  <1>7. QED
    BY <1>2, <1>3, <1>4, <1>5, <1>6 DEF JobInv

(* A step that writes no file.                                             *)
LEMMA TouchedNone ==
    ASSUME DiskInv, UNCHANGED <<disk, output, clock>>
    PROVE  Touched
  BY DEF DiskInv, Touched

(* A step that writes or deletes one file of a checkpoint.                 *)
LEMMA TouchedDisk ==
    ASSUME DiskInv, NEW d \in Locks, NEW f \in Files, NEW file, Dated(file, clock + 1), Fresh(file, clock),
           disk' = [disk EXCEPT ![d][f] = file], clock' = clock + 1, output' = output
    PROVE  Touched
  <1>1. clock \in Nat \ {0} /\ clock' \in Nat \ {0} /\ clock <= clock'
    BY DEF DiskInv
  <1>2. file \in FileType
    BY DEF Dated
  <1>3. disk' \in [Locks -> [Files -> FileType]]
    BY <1>2 DEF DiskInv
  <1>4. \A c \in Locks, g \in Files : disk'[c][g] = disk[c][g] \/ (disk'[c][g] = file)
    BY DEF DiskInv
  <1>5. \A c \in Locks, g \in Files : Dated(disk[c][g], clock') /\ Dated(output[g], clock')
    BY <1>1, NotesStay DEF DiskInv
  <1>6. DiskInv'
    BY <1>1, <1>3, <1>4, <1>5 DEF DiskInv
  <1>7. QED
    BY <1>1, <1>4, <1>6 DEF Touched

(* A step that writes or deletes one prepared file.                        *)
LEMMA TouchedOutput ==
    ASSUME DiskInv, NEW f \in Files, NEW file, Dated(file, clock + 1), Fresh(file, clock),
           output' = [output EXCEPT ![f] = file], clock' = clock + 1, disk' = disk
    PROVE  Touched
  <1>1. clock \in Nat \ {0} /\ clock' \in Nat \ {0} /\ clock <= clock'
    BY DEF DiskInv
  <1>2. file \in FileType
    BY DEF Dated
  <1>3. output' \in [Files -> FileType]
    BY <1>2 DEF DiskInv
  <1>4. \A g \in Files : output'[g] = output[g] \/ output'[g] = file
    BY DEF DiskInv
  <1>5. (\A c \in Locks, g \in Files : Dated(disk[c][g], clock')) /\ \A g \in Files : Dated(output[g], clock')
    BY <1>1, NotesStay DEF DiskInv
  <1>6. DiskInv'
    BY <1>1, <1>3, <1>4, <1>5 DEF DiskInv
  <1>7. QED
    BY <1>1, <1>4, <1>6 DEF Touched

(* An error, a death, or the end of a script that publishes nothing.       *)
LEMMA ScriptEnds ==
    ASSUME FilesInv, Abandon, UNCHANGED <<disk, output, clock, receipt, outReceipt, manifest, marks>>,
           reads' \in {reads, NoReads}
    PROVE  FilesInv'
  <1>1. DiskInv /\ ReceiptInv /\ OutputInv /\ CompareInv
    BY DEF FilesInv, JobInv
  <1>2. Touched
    BY <1>1, TouchedNone
  <1>3. JobInv'
    BY <1>1, JobEnds DEF Abandon
  <1>4. QED
    BY <1>1, <1>2, <1>3, ReceiptStays, OutputStays DEF FilesInv, Touched

(* A step of a script that only moves on.                                  *)
LEMMA ScriptMoves ==
    ASSUME FilesInv, JobInv', UNCHANGED <<disk, output, clock, receipt, outReceipt, manifest>>
    PROVE  FilesInv'
  <1>1. DiskInv /\ ReceiptInv /\ OutputInv
    BY DEF FilesInv
  <1>2. Touched
    BY <1>1, TouchedNone
  <1>3. QED
    BY <1>1, <1>2, ReceiptStays, OutputStays DEF FilesInv, Touched

(* A new script has noted nothing yet.                                     *)
LEMMA NewJob ==
    ASSUME DiskInv, CompareInv, UNCHANGED <<disk, clock, marks, reads>>,
           NEW script \in {"verify", "download", "prepare", "audit", "compare"},
           NEW p \in {"stat", "preflight"}, NEW d \in Locks, NEW l \in Locks, NEW c \in BOOLEAN,
           job' = Job(script, p, d, l, c)
    PROVE  JobInv'
  <1>1. /\ job' \in JobType /\ job'.pc = p /\ job'.dir = d /\ job'.lock = l
        /\ job'.new = [f \in Files |-> Absent] /\ job'.seen = [f \in Files |-> 0]
    BY NoJobType DEF Job, NoJob, JobType, JobPc, VerifyPc, DownloadPc
  <1>2. clock \in Nat \ {0} /\ \A f \in Files : Dated(disk[d][f], clock)
    BY DEF DiskInv
  <1>3. \A f \in Files : Dated(Absent, clock) /\ Absent.content = "absent" /\ Vouches(Absent, disk[d][f])
    BY <1>2, AbsentDated DEF Absent, File
  <1>4. ScriptInv'
    BY <1>1 DEF ScriptInv
  <1>5. VerifyInv'
    BY <1>1, <1>3 DEF VerifyInv
  <1>6. PreflightInv'
    BY <1>1, <1>2 DEF PreflightInv
  <1>7. PublishInv' /\ CompareInv'
    BY <1>1 DEF PublishInv, PublishPc, CompareInv
  <1>8. QED
    BY <1>4, <1>5, <1>6, <1>7 DEF JobInv

(* A script that is started.                                               *)
LEMMA FilesBegin ==
    ASSUME FilesInv, UNCHANGED <<output, outReceipt, manifest, marks, reads>>,
           Verify \/ Download \/ Prepare \/ Compare
    PROVE  FilesInv'
  <1>1. DiskInv /\ CompareInv
    BY DEF FilesInv, JobInv
  <1>2. UNCHANGED <<disk, receipt, clock>>
    BY DEF Verify, Download, Prepare, Compare, Begin
  <1>3. PICK script \in {"verify", "download", "prepare", "audit", "compare"}, p \in {"stat", "preflight"},
             d \in Locks, l \in Locks, c \in BOOLEAN : job' = Job(script, p, d, l, c)
    <2>1. "q4" \in Locks /\ TRUE \in BOOLEAN /\ FALSE \in BOOLEAN
      BY PrepareAssumption
    <2>2. CASE Verify
      BY <2>2, Zenon DEF Verify, Begin
    <2>3. CASE Download
      BY <2>1, <2>3, Zenon DEF Download, Begin
    <2>4. CASE Prepare
      BY <2>1, <2>4, Zenon DEF Prepare, Begin
    <2>5. CASE Compare
      <3>1. PICK rehash \in BOOLEAN : Begin("compare", "stat", "q4", "q4", ~rehash)
        BY <2>5 DEF Compare
      <3>2. (~rehash) \in BOOLEAN
        OBVIOUS
      <3>3. QED
        BY <2>1, <3>1, <3>2, Zenon DEF Begin
    <2>6. QED
      BY <2>2, <2>3, <2>4, <2>5
  <1>4. JobInv'
    BY <1>1, <1>2, <1>3, NewJob
  <1>5. QED
    BY <1>2, <1>4, ScriptMoves

(* verify: the file is noted, read and noted again.                        *)
LEMMA FilesVerify ==
    ASSUME FilesInv, UNCHANGED <<prepareVars, compareVars>>,
           VerifyStat \/ VerifyDigest \/ VerifyRestat
    PROVE  FilesInv'
  <1>0. DiskInv /\ ReceiptInv /\ ScriptInv /\ VerifyInv /\ CompareInv
    BY DEF FilesInv, JobInv
  <1>1. UNCHANGED <<disk, receipt, clock, output, outReceipt, manifest, marks, reads>>
    BY DEF VerifyStat, VerifyDigest, VerifyRestat, prepareVars, compareVars
  <1>2. CASE Abandon
    BY <1>1, <1>2, ScriptEnds
  <1>3. /\ job \in JobType /\ job.pc \in VerifyPc /\ job.dir \in Locks /\ job.lock \in Locks /\ job.at \in Files
        /\ \A f \in Files : /\ Dated(job.new[f], clock) /\ job.new[f].content \in {"absent", job.lock}
                            /\ Vouches(job.new[f], disk[job.dir][f])
    BY <1>0 DEF ScriptInv, VerifyInv, VerifyStat, VerifyDigest, VerifyRestat, At, VerifyPc
  <1>4. Current \in FileType /\ Current = disk[job.dir][job.at] /\ Dated(Current, clock) /\ clock \in Nat \ {0}
    BY <1>0, <1>3 DEF DiskInv, Current
  <1>5. CASE VerifyStat /\ ~Abandon
    <2>1. job' = [job EXCEPT !.pc = "digest", !.before = Current.stamp] /\ RightSize(Current.content)
      BY <1>5 DEF VerifyStat
    <2>2. Current.stamp \in 1 .. clock - 1 /\ Current.stamp \in Nat
      BY <1>4, <2>1 DEF Dated, FileType, RightSize
    <2>3. /\ job' \in JobType /\ job'.pc = "digest" /\ job'.before = Current.stamp
          /\ job'.dir = job.dir /\ job'.lock = job.lock /\ job'.at = job.at /\ job'.new = job.new
      BY <1>3, <2>1, <2>2 DEF JobType, JobPc, VerifyPc
    <2>4. ScriptInv'
      BY <1>3, <2>3 DEF ScriptInv
    <2>5. VerifyInv'
      BY <1>1, <1>3, <2>2, <2>3 DEF VerifyInv, VerifyPc
    <2>6. PreflightInv' /\ PublishInv' /\ CompareInv'
      BY <1>0, <1>1, <2>3 DEF PreflightInv, PublishInv, CompareInv, DownloadPc, PublishPc
    <2>7. QED
      BY <1>1, <2>4, <2>5, <2>6, ScriptMoves DEF JobInv
  <1>6. CASE VerifyDigest /\ ~Abandon
    <2>1. PICK s \in Kinds : /\ job' = [job EXCEPT !.pc = "restat", !.sha = s] /\ job.pc = "digest"
                             /\ Vouches(File(s, job.before), Current)
      <3>1. job.before \in 1 .. clock - 1 /\ job.pc = "digest"
        BY <1>0, <1>6 DEF VerifyInv, VerifyDigest, At
      <3>2. CASE Remembered
        <4>1. receipt[job.dir].files[job.at] = File(job.lock, job.before)
          BY <3>2 DEF Remembered
        <4>2. Vouches(receipt[job.dir].files[job.at], disk[job.dir][job.at])
          BY <1>0, <1>3 DEF ReceiptInv
        <4>3. job' = [job EXCEPT !.pc = "restat", !.sha = job.lock] /\ job.lock \in Kinds
          BY <1>3, <1>6, <3>2 DEF VerifyDigest, Kinds, Contents
        <4>4. QED
          BY <1>4, <3>1, <4>1, <4>2, <4>3
      <3>3. CASE ~Remembered
        <4>1. job' = [job EXCEPT !.pc = "restat", !.sha = Current.content] /\ Current.content \in Kinds
          BY <1>4, <1>6, <3>3 DEF VerifyDigest, FileType
        <4>2. Vouches(File(Current.content, job.before), Current)
          BY DEF Vouches, File
        <4>3. QED
          BY <3>1, <4>1, <4>2
      <3>4. QED
        BY <3>2, <3>3
    <2>2. /\ job' \in JobType /\ job'.pc = "restat" /\ job'.before = job.before /\ job'.sha = s
          /\ job'.dir = job.dir /\ job'.lock = job.lock /\ job'.at = job.at /\ job'.new = job.new
      BY <1>3, <2>1 DEF JobType, JobPc, VerifyPc
    <2>3. ScriptInv'
      BY <1>3, <2>2 DEF ScriptInv
    <2>4. VerifyInv'
      BY <1>0, <1>1, <1>3, <1>4, <2>1, <2>2 DEF VerifyInv, VerifyPc
    <2>5. PreflightInv' /\ PublishInv' /\ CompareInv'
      BY <1>0, <1>1, <2>2 DEF PreflightInv, PublishInv, CompareInv, DownloadPc, PublishPc
    <2>6. QED
      BY <1>1, <2>3, <2>4, <2>5, ScriptMoves DEF JobInv
  <1>7. CASE VerifyRestat /\ ~Abandon
    <2> DEFINE e == File(job.sha, job.before)
    <2>1. job' = [NextFile("stat") EXCEPT !.new[job.at] = e] /\ Undisturbed /\ job.pc = "restat"
      BY <1>7 DEF VerifyRestat, At
    <2>2. job.before \in 1 .. clock - 1 /\ job.sha = job.lock /\ Vouches(e, disk[job.dir][job.at])
      BY <1>0, <2>1 DEF VerifyInv, Undisturbed
    <2>3. Dated(e, clock) /\ e \in FileType /\ e.content = job.lock
      BY <1>3, <1>4, <2>2, CheckpointAssumption DEF Dated, FileType, File, Kinds, Contents
    <2> HIDE DEF e
    <2>4. job.at + 1 \in 1 .. NFiles + 1
      BY <1>3, CheckpointAssumption DEF Files
    <2>5. /\ job' \in JobType /\ job'.pc = "stat" /\ job'.dir = job.dir /\ job'.lock = job.lock
          /\ job'.new = [job.new EXCEPT ![job.at] = e]
      BY <1>3, <2>1, <2>3, <2>4 DEF JobType, JobPc, VerifyPc, NextFile
    <2>6. ScriptInv'
      BY <1>3, <2>5 DEF ScriptInv
    <2>7. \A f \in Files : job'.new[f] = IF f = job.at THEN e ELSE job.new[f]
      BY <1>3, <2>5 DEF JobType
    <2>8. VerifyInv'
      BY <1>1, <1>3, <2>2, <2>3, <2>5, <2>7 DEF VerifyInv, VerifyPc
    <2>9. PreflightInv' /\ PublishInv' /\ CompareInv'
      BY <1>0, <1>1, <2>5 DEF PreflightInv, PublishInv, CompareInv, DownloadPc, PublishPc
    <2>10. QED
      BY <1>1, <2>6, <2>8, <2>9, ScriptMoves DEF JobInv
  <1>8. QED
    BY <1>2, <1>5, <1>6, <1>7

(* A file written now is dated, and fresh.                                 *)
LEMMA WrittenDated ==
    ASSUME DiskInv, NEW c \in Contents
    PROVE  Dated(File(c, clock), clock + 1) /\ Fresh(File(c, clock), clock)
  BY CheckpointAssumption DEF DiskInv, Dated, Fresh, File, FileType, Kinds, Contents

(* verify: the receipt is published, and the script goes on.               *)
LEMMA FilesVerified ==
    ASSUME FilesInv, UNCHANGED <<prepareVars, compareVars>>, VerifyPublish
    PROVE  FilesInv'
  <1>0. DiskInv /\ ReceiptInv /\ OutputInv /\ ScriptInv /\ VerifyInv /\ CompareInv
    BY DEF FilesInv, JobInv
  <1>1. /\ UNCHANGED <<disk, clock, output, outReceipt, manifest, marks, reads>>
        /\ receipt' = [receipt EXCEPT ![job.dir] = [revision |-> job.lock, files |-> job.new]]
        /\ job.pc = "stat" /\ job' = Verified
    BY DEF VerifyPublish, At, prepareVars, compareVars
  <1>2. Touched
    BY <1>0, <1>1, TouchedNone
  <1>3. /\ job \in JobType /\ job.dir \in Locks /\ job.lock \in Locks /\ job.new \in [Files -> FileType]
        /\ \A f \in Files : /\ Dated(job.new[f], clock) /\ job.new[f].content \in {"absent", job.lock}
                            /\ Vouches(job.new[f], disk[job.dir][f])
    BY <1>0, <1>1 DEF ScriptInv, VerifyInv, VerifyPc, JobType
  <1>4. ReceiptInv'
    <2>1. receipt' \in [Locks -> [revision : Locks \cup {"none"}, files : [Files -> FileType]]]
      BY <1>0, <1>1, <1>3 DEF ReceiptInv
    <2>2. \A d \in Locks : receipt'[d] = IF d = job.dir THEN [revision |-> job.lock, files |-> job.new] ELSE receipt[d]
      BY <1>0, <1>1, <1>3 DEF ReceiptInv
    <2>3. QED
      BY <1>0, <1>1, <1>3, <2>1, <2>2 DEF ReceiptInv
  <1>5. JobInv'
    <2>1. CASE job.script \in {"verify", "download"}
      <3>1. job' = NoJob
        BY <1>1, <2>1 DEF Verified
      <3>2. QED
        BY <1>0, <1>1, <3>1, JobEnds
    <2>2. CASE job.script = "compare" /\ job.dir = "q4"
      <3>1. job' = Job("compare", "stat", "mixed", "mixed", job.cached) /\ job.cached \in BOOLEAN
        BY <1>1, <1>3, <2>2 DEF Verified, JobType
      <3>2. QED
        BY <1>0, <1>1, <3>1, CompareAssumption, NewJob
    <2>3. CASE job.script \notin {"verify", "download"} /\ ~(job.script = "compare" /\ job.dir = "q4")
      <3>1. /\ job' \in JobType /\ job'.pc \in {"open", "fingerprint"}
            /\ job'.dir \in Locks /\ job'.lock \in Locks /\ job'.at = 1
        <4>1. CASE job.script \in {"prepare", "audit"}
          <5>1. job' = [job EXCEPT !.pc = "open", !.at = 1, !.proven = [f \in Files |-> job.new[f].stamp]]
            BY <1>1, <4>1 DEF Verified
          <5>2. [f \in Files |-> job.new[f].stamp] \in [Files -> Nat] /\ 1 \in 1 .. NFiles + 1
            BY <1>3, CheckpointAssumption DEF FileType
          <5>3. QED
            BY <1>3, <5>1, <5>2 DEF JobType, JobPc
        <4>2. CASE job.script \notin {"prepare", "audit"}
          <5>1. job' = [job EXCEPT !.pc = "fingerprint", !.at = 1]
            BY <1>1, <2>3, <4>2 DEF Verified
          <5>2. 1 \in 1 .. NFiles + 1
            BY CheckpointAssumption
          <5>3. QED
            BY <1>3, <5>1, <5>2 DEF JobType, JobPc
        <4>3. QED
          BY <4>1, <4>2
      <3>2. ScriptInv'
        BY <3>1 DEF ScriptInv
      <3>3. VerifyInv' /\ PreflightInv' /\ PublishInv' /\ CompareInv'
        BY <1>0, <1>1, <3>1
           DEF VerifyInv, PreflightInv, PublishInv, CompareInv, VerifyPc, DownloadPc, PublishPc
      <3>4. QED
        BY <3>2, <3>3 DEF JobInv
    <2>4. QED
      BY <2>1, <2>2, <2>3
  <1>6. QED
    BY <1>0, <1>1, <1>2, <1>4, <1>5, OutputStays DEF FilesInv, Touched

(* The script dies, somebody edits a file of a checkpoint or of the output. *)
LEMMA FilesWorld ==
    ASSUME FilesInv,
           \/ UNCHANGED fileVars
           \/ Die /\ UNCHANGED <<prepareVars, compareVars>>
           \/ Edit /\ UNCHANGED <<prepareVars, compareVars>>
           \/ EditOutput /\ UNCHANGED compareVars
    PROVE  FilesInv'
  <1>0. DiskInv /\ ReceiptInv /\ OutputInv /\ JobInv /\ CompareInv
    BY DEF FilesInv, JobInv
  <1>1. CASE Die /\ UNCHANGED <<prepareVars, compareVars>>
    BY <1>1, ScriptEnds DEF Die, prepareVars, compareVars
  <1>2. CASE /\ UNCHANGED fileVars \/ (Edit /\ output' = output) \/ EditOutput
             /\ UNCHANGED <<receipt, job, outReceipt, manifest, marks, reads>>
    <2>1. Touched
      <3>1. CASE UNCHANGED fileVars
        BY <1>0, <3>1, TouchedNone DEF fileVars, checkpointVars, prepareVars
      <3>2. CASE Edit /\ output' = output
        <4>1. PICK d \in Locks, f \in Files, c \in Locks \cup {"altered", "short", "absent"} :
                disk' = [disk EXCEPT ![d][f] = IF c = "absent" THEN Absent ELSE File(c, clock)]
          BY <3>2 DEF Edit
        <4>2. clock' = clock + 1 /\ clock + 1 \in Nat \ {0}
          BY <1>0, <3>2 DEF Edit, DiskInv
        <4>3. CASE c = "absent"
          <5>1. Dated(Absent, clock + 1) /\ Fresh(Absent, clock)
            BY <4>2, AbsentDated DEF Fresh
          <5>2. QED
            BY <1>0, <3>2, <4>1, <4>2, <4>3, <5>1, TouchedDisk
        <4>4. CASE c # "absent"
          <5>1. c \in Contents
            BY <4>1, <4>4 DEF Contents
          <5>2. QED
            BY <1>0, <3>2, <4>1, <4>2, <4>4, <5>1, TouchedDisk, WrittenDated
        <4>5. QED
          BY <4>3, <4>4
      <3>3. CASE EditOutput
        <4>1. PICK f \in Files, c \in {"altered", "absent"} :
                output' = [output EXCEPT ![f] = IF c = "absent" THEN Absent ELSE File(c, clock)]
          BY <3>3 DEF EditOutput
        <4>2. clock' = clock + 1 /\ clock + 1 \in Nat \ {0} /\ disk' = disk
          BY <1>0, <3>3 DEF EditOutput, DiskInv
        <4>3. CASE c = "absent"
          <5>1. Dated(Absent, clock + 1) /\ Fresh(Absent, clock)
            BY <4>2, AbsentDated DEF Fresh
          <5>2. QED
            BY <1>0, <4>1, <4>2, <4>3, <5>1, TouchedOutput
        <4>4. CASE c # "absent"
          <5>1. c \in Contents
            BY <4>1, <4>4 DEF Contents
          <5>2. QED
            BY <1>0, <4>1, <4>2, <4>4, <5>1, TouchedOutput, WrittenDated
        <4>5. QED
          BY <4>3, <4>4
      <3>4. QED
        BY <1>2, <3>1, <3>2, <3>3
    <2>2. QED
      BY <1>0, <1>2, <2>1, ReceiptStays, OutputStays, JobStays DEF FilesInv, Touched
  <1>3. QED
    BY <1>1, <1>2 DEF Edit, EditOutput, fileVars, checkpointVars, prepareVars, compareVars

(* A download that moves on keeps the entries it started with.             *)
LEMMA DownloadMoves ==
    ASSUME DiskInv, Touched, JobInv, job.pc \in DownloadPc, UNCHANGED <<marks, reads>>,
           job' \in JobType, job'.pc \in DownloadPc \cup {"stat"}, job'.dir = job.dir, job'.lock = job.lock,
           job'.new = job.new, job'.pc = "rehash" => job'.at \in Files, PreflightInv'
    PROVE  JobInv'
  <1>0. ScriptInv /\ VerifyInv /\ CompareInv
    BY DEF JobInv
  <1>1. job.dir \in Locks /\ job.lock \in Locks
    BY <1>0 DEF ScriptInv, DownloadPc
  <1>2. ScriptInv'
    BY <1>1 DEF ScriptInv, DownloadPc
  <1>3. ASSUME NEW f \in Files
        PROVE  /\ Dated(job.new[f], clock') /\ job.new[f].content \in {"absent", job.lock}
               /\ Vouches(job.new[f], disk'[job.dir][f])
    <2>1. /\ Dated(job.new[f], clock) /\ job.new[f].content \in {"absent", job.lock}
          /\ Vouches(job.new[f], disk[job.dir][f])
      BY <1>0 DEF VerifyInv
    <2>2. QED
      BY <1>1, <2>1, StillVouches
  <1>4. VerifyInv'
    BY <1>3 DEF VerifyInv, DownloadPc
  <1>5. PublishInv' /\ CompareInv'
    BY <1>0 DEF PublishInv, CompareInv, PublishPc, DownloadPc
  <1>6. QED
    BY <1>2, <1>4, <1>5 DEF JobInv

(* The preflight, and the start of the verification after a download.      *)
LEMMA FilesPreflight ==
    ASSUME FilesInv, UNCHANGED <<prepareVars, compareVars>>,
           PreflightStat \/ PreflightHash \/ PreflightSpace \/ DownloadVerify
    PROVE  FilesInv'
  <1>0. DiskInv /\ ReceiptInv /\ JobInv /\ ScriptInv /\ PreflightInv /\ CompareInv
    BY DEF FilesInv, JobInv
  <1>1. UNCHANGED <<disk, receipt, clock, output, outReceipt, manifest, marks, reads>>
    BY DEF PreflightStat, PreflightHash, PreflightSpace, DownloadVerify, prepareVars, compareVars
  <1>2. CASE Abandon
    BY <1>1, <1>2, ScriptEnds
  <1>3. /\ job \in JobType /\ job.pc \in DownloadPc /\ job.dir \in Locks /\ job.lock \in Locks
        /\ job.seen \in [Files -> Nat] /\ job.at \in 1 .. NFiles + 1 /\ 1 \in 1 .. NFiles + 1
        /\ (job.at \in Files => job.at + 1 \in 1 .. NFiles + 1)
    <2>1. job.pc \in DownloadPc
      BY DEF PreflightStat, PreflightHash, PreflightSpace, DownloadVerify, At, DownloadPc
    <2>2. job \in JobType /\ job.dir \in Locks /\ job.lock \in Locks
      BY <1>0, <2>1 DEF ScriptInv, DownloadPc
    <2>3. job.seen \in [Files -> Nat] /\ job.at \in 1 .. NFiles + 1
      BY <2>2 DEF JobType
    <2>4. 1 \in 1 .. NFiles + 1 /\ (job.at \in Files => job.at + 1 \in 1 .. NFiles + 1)
      BY CheckpointAssumption DEF Files
    <2>5. QED
      BY <2>1, <2>2, <2>3, <2>4
  <1>4. Touched /\ clock \in Nat
    BY <1>0, <1>1, TouchedNone DEF DiskInv
  <1>5. SUFFICES ASSUME ~Abandon PROVE FilesInv'
    BY <1>2
  <1> SUFFICES JobInv'
    BY <1>1, ScriptMoves
  <1>6. CASE PreflightStat
    <2> DEFINE noted == [job EXCEPT !.seen[job.at] = Current.stamp, !.before = Current.stamp]
    <2>1. /\ job.pc = "preflight" /\ job.at \in Files
          /\ \/ job' = NextFile("preflight")
             \/ /\ job' = [noted EXCEPT !.at = job.at + 1]
                /\ receipt[job.dir].files[job.at] = File(job.lock, Current.stamp)
             \/ job' = [noted EXCEPT !.pc = "rehash"]
      BY <1>5, <1>6 DEF PreflightStat, At
    <2>2. Current = disk[job.dir][job.at] /\ Current.stamp \in Nat /\ Current.stamp < clock
      BY <1>0, <1>3, <2>1 DEF DiskInv, Dated, FileType, Current
    <2>3. CASE job' = NextFile("preflight")
      <3>1. /\ job' \in JobType /\ job'.pc = "preflight" /\ job'.dir = job.dir /\ job'.lock = job.lock
            /\ job'.new = job.new /\ job'.seen = job.seen
        BY <1>3, <2>1, <2>3 DEF NextFile, JobType, JobPc, DownloadPc
      <3>2. PreflightInv'
        BY <1>0, <1>1, <2>1, <3>1 DEF PreflightInv, DownloadPc
      <3>3. QED
        BY <1>0, <1>1, <1>3, <1>4, <3>1, <3>2, DownloadMoves DEF DownloadPc
    <2>4. CASE /\ job' = [noted EXCEPT !.at = job.at + 1]
               /\ receipt[job.dir].files[job.at] = File(job.lock, Current.stamp)
      <3>1. /\ job' \in JobType /\ job'.pc = "preflight" /\ job'.dir = job.dir /\ job'.lock = job.lock
            /\ job'.new = job.new /\ job'.seen = [job.seen EXCEPT ![job.at] = Current.stamp]
        BY <1>3, <2>1, <2>2, <2>4 DEF JobType, JobPc, DownloadPc
      <3>2. Current.content = job.lock
        <4>1. Vouches(receipt[job.dir].files[job.at], Current)
          BY <1>0, <1>3, <2>1, <2>2 DEF ReceiptInv
        <4>2. QED
          BY <2>4, <4>1 DEF Vouches, File
      <3>3. \A f \in Files : job'.seen[f] = IF f = job.at THEN Current.stamp ELSE job.seen[f]
        BY <1>3, <3>1
      <3>4. PreflightInv'
        BY <1>0, <1>1, <2>1, <2>2, <3>1, <3>2, <3>3 DEF PreflightInv, DownloadPc
      <3>5. QED
        BY <1>0, <1>1, <1>3, <1>4, <3>1, <3>4, DownloadMoves DEF DownloadPc
    <2>5. CASE job' = [noted EXCEPT !.pc = "rehash"]
      <3>1. /\ job' \in JobType /\ job'.pc = "rehash" /\ job'.dir = job.dir /\ job'.lock = job.lock
            /\ job'.new = job.new /\ job'.seen = [job.seen EXCEPT ![job.at] = Current.stamp] /\ job'.at = job.at
        BY <1>3, <2>1, <2>2, <2>5 DEF JobType, JobPc, DownloadPc
      <3>2. \A f \in Files : job'.seen[f] = IF f = job.at THEN Current.stamp ELSE job.seen[f]
        BY <1>3, <3>1
      <3>3. PreflightInv'
        BY <1>0, <1>1, <2>1, <2>2, <3>1, <3>2 DEF PreflightInv, DownloadPc
      <3>4. QED
        BY <1>0, <1>1, <1>3, <1>4, <2>1, <3>1, <3>3, DownloadMoves DEF DownloadPc
    <2>6. QED
      BY <2>1, <2>3, <2>4, <2>5
  <1>7. CASE PreflightHash
    <2>1. /\ job.pc = "rehash" /\ job' = NextFile("preflight")
          /\ disk[job.dir][job.at].content = job.lock /\ job.at \in Files
      BY <1>0, <1>5, <1>7 DEF PreflightHash, At, Current, ScriptInv
    <2>2. /\ job' \in JobType /\ job'.pc = "preflight" /\ job'.dir = job.dir /\ job'.lock = job.lock
          /\ job'.new = job.new /\ job'.seen = job.seen
      BY <1>3, <2>1 DEF NextFile, JobType, JobPc, DownloadPc
    <2>3. PreflightInv'
      BY <1>0, <1>1, <2>1, <2>2 DEF PreflightInv, DownloadPc
    <2>4. QED
      BY <1>0, <1>1, <1>3, <1>4, <2>2, <2>3, DownloadMoves DEF DownloadPc
  <1>8. CASE PreflightSpace \/ DownloadVerify
    <2>1. /\ job.pc \in {"preflight", "fetch"}
          /\ \E p \in {"fetch", "stat"} : job' = [job EXCEPT !.pc = p, !.at = 1]
      BY <1>5, <1>8 DEF PreflightSpace, DownloadVerify, At
    <2>2. /\ job' \in JobType /\ job'.pc \in {"fetch", "stat"} /\ job'.dir = job.dir /\ job'.lock = job.lock
          /\ job'.new = job.new /\ job'.seen = job.seen
      BY <1>3, <2>1 DEF JobType, JobPc, DownloadPc, VerifyPc
    <2>3. PreflightInv'
      BY <1>0, <1>1, <2>1, <2>2 DEF PreflightInv, DownloadPc
    <2>4. QED
      BY <1>0, <1>1, <1>3, <1>4, <2>2, <2>3, DownloadMoves DEF DownloadPc
  <1>9. QED
    BY <1>6, <1>7, <1>8

(* The download: a file that is the pinned one stays, another is written.  *)
LEMMA FilesFetch ==
    ASSUME FilesInv, UNCHANGED <<prepareVars, compareVars>>, SnapshotDownload
    PROVE  FilesInv'
  <1>0. DiskInv /\ ReceiptInv /\ OutputInv /\ JobInv /\ ScriptInv /\ PreflightInv
    BY DEF FilesInv, JobInv
  <1>1. /\ UNCHANGED <<receipt, output, outReceipt, manifest, marks, reads>>
        /\ job.pc = "fetch" /\ job.at \in Files /\ job' = NextFile("fetch")
        /\ \/ UNCHANGED <<disk, clock>>
           \/ disk' = [disk EXCEPT ![job.dir][job.at] = File(job.lock, clock)] /\ clock' = clock + 1
    BY DEF SnapshotDownload, At, prepareVars, compareVars
  <1>2. job \in JobType /\ job.dir \in Locks /\ job.lock \in Locks
    BY <1>0, <1>1 DEF ScriptInv
  <1>3. job.at + 1 \in 1 .. NFiles + 1
    BY <1>1, CheckpointAssumption DEF Files
  <1>4. Touched
    <2>1. CASE UNCHANGED <<disk, clock>>
      BY <1>0, <1>1, <2>1, TouchedNone
    <2>2. CASE disk' = [disk EXCEPT ![job.dir][job.at] = File(job.lock, clock)] /\ clock' = clock + 1
      <3>1. job.lock \in Contents
        BY <1>2 DEF Contents
      <3>2. Dated(File(job.lock, clock), clock + 1) /\ Fresh(File(job.lock, clock), clock)
        BY <1>0, <3>1, WrittenDated
      <3>3. QED
        BY <1>0, <1>1, <1>2, <2>2, <3>2, TouchedDisk
    <2>3. QED
      BY <1>1, <2>1, <2>2
  <1>5. /\ job' \in JobType /\ job'.pc = "fetch" /\ job'.dir = job.dir /\ job'.lock = job.lock
        /\ job'.new = job.new /\ job'.seen = job.seen
    BY <1>1, <1>2, <1>3 DEF NextFile, JobType, JobPc, DownloadPc
  <1>6. PreflightInv'
    <2>1. ASSUME NEW f \in Files
          PROVE  /\ job.seen[f] < clock'
                 /\ \/ job.seen[f] = 0 \/ job.seen[f] # disk'[job.dir][f].stamp
                    \/ disk'[job.dir][f].content = job.lock
      <3>1. job.seen[f] \in Nat /\ clock \in Nat /\ clock' \in Nat /\ clock <= clock'
        BY <1>0, <1>2, <1>4 DEF JobType, DiskInv, Touched
      <3>2. /\ job.seen[f] < clock
            /\ \/ job.seen[f] = 0 \/ job.seen[f] # disk[job.dir][f].stamp
               \/ disk[job.dir][f].content = job.lock
        BY <1>0, <1>1 DEF PreflightInv, DownloadPc
      <3>3. disk'[job.dir][f] = disk[job.dir][f] \/ Fresh(disk'[job.dir][f], clock)
        BY <1>2, <1>4 DEF Touched
      <3>4. job.seen[f] < clock'
        BY <3>1, <3>2
      <3>5. CASE disk'[job.dir][f] = disk[job.dir][f]
        BY <3>2, <3>4, <3>5
      <3>6. CASE Fresh(disk'[job.dir][f], clock)
        BY <3>1, <3>2, <3>4, <3>6 DEF Fresh, Absent, File
      <3>7. QED
        BY <3>3, <3>5, <3>6
    <2>2. QED
      BY <1>5, <2>1 DEF PreflightInv, DownloadPc
  <1>7. JobInv'
    BY <1>0, <1>1, <1>4, <1>5, <1>6, DownloadMoves DEF DownloadPc
  <1>8. QED
    BY <1>0, <1>1, <1>4, <1>7, ReceiptStays, OutputStays DEF FilesInv, Touched

(* A preparation that moves on keeps its directory and what it has opened. *)
LEMMA PublishMoves ==
    ASSUME ScriptInv, CompareInv, job.pc \in PublishPc \cup {"open"}, UNCHANGED <<marks, reads>>,
           job' \in JobType, job'.pc \in PublishPc, job'.dir = job.dir, job'.lock = job.lock,
           job'.pc \in {"rename", "enter"} => job'.at \in Files, PublishInv'
    PROVE  JobInv'
  <1>1. ScriptInv'
    BY DEF ScriptInv, PublishPc
  <1>2. VerifyInv' /\ PreflightInv' /\ CompareInv'
    BY DEF VerifyInv, PreflightInv, CompareInv, VerifyPc, DownloadPc, PublishPc
  <1>3. QED
    BY <1>1, <1>2 DEF JobInv

(* prepare: the sources are opened, the records reused or copied.          *)
LEMMA FilesPublish ==
    ASSUME FilesInv, UNCHANGED compareVars, PrepareOpen \/ PublishReuse \/ PublishWrite
    PROVE  FilesInv'
  <1>0. DiskInv /\ OutputInv /\ ScriptInv /\ PublishInv /\ CompareInv
    BY DEF FilesInv, JobInv
  <1>1. UNCHANGED <<disk, receipt, clock, output, outReceipt, manifest, marks, reads>>
    BY DEF PrepareOpen, PublishReuse, PublishWrite, prepareVars, compareVars
  <1>2. CASE Abandon
    BY <1>1, <1>2, ScriptEnds
  <1>3. SUFFICES ASSUME ~Abandon PROVE FilesInv'
    BY <1>2
  <1> SUFFICES JobInv'
    BY <1>1, ScriptMoves
  <1>4. job.pc \in {"open", "publish"} /\ job \in JobType /\ job.dir \in Locks /\ job.lock \in Locks
    BY <1>0 DEF ScriptInv, PrepareOpen, PublishReuse, PublishWrite, At
  <1>5. CASE PrepareOpen
    <2>1. /\ \A f \in Files : RightSize(disk["q4"][f].content)
          /\ job' = [job EXCEPT !.pc = "publish", !.new = [f \in Files |-> Absent],
                                !.opened = [f \in Files |-> disk["q4"][f].content]]
      BY <1>3, <1>5 DEF PrepareOpen
    <2>2. \A f \in Files : disk["q4"][f].content \in Contents
      BY <1>0, <2>1, PrepareAssumption DEF DiskInv, FileType, Kinds, RightSize
    <2>3. Absent \in FileType
      BY DEF Absent, File, FileType, Kinds
    <2>4. /\ job' \in JobType /\ job'.pc = "publish" /\ job'.dir = job.dir /\ job'.lock = job.lock
          /\ job'.new = [f \in Files |-> Absent] /\ job'.opened = [f \in Files |-> disk["q4"][f].content]
      BY <1>4, <2>1, <2>2, <2>3 DEF JobType, JobPc, PublishPc, Kinds
    <2>5. \A f \in Files : Dated(Absent, clock) /\ Vouches(Absent, output[f])
      BY <1>0, AbsentDated DEF DiskInv
    <2>6. PublishInv'
      BY <1>1, <2>2, <2>4, <2>5 DEF PublishInv
    <2>7. QED
      BY <1>0, <1>1, <1>4, <2>4, <2>6, PublishMoves DEF PublishPc
  <1>6. CASE PublishReuse
    <2>1. job.pc = "publish" /\ job.at \in Files /\ job' = [job EXCEPT !.pc = "enter", !.new[job.at] = Saved]
      BY <1>3, <1>6 DEF PublishReuse, At
    <2>2. Saved \in FileType /\ Dated(Saved, clock) /\ Vouches(Saved, output[job.at])
      BY <1>0, <2>1 DEF OutputInv, Saved
    <2>3. /\ job' \in JobType /\ job'.pc = "enter" /\ job'.dir = job.dir /\ job'.lock = job.lock /\ job'.at = job.at
          /\ job'.new = [job.new EXCEPT ![job.at] = Saved] /\ job'.opened = job.opened
      BY <1>4, <2>1, <2>2 DEF JobType, JobPc, PublishPc
    <2>4. \A f \in Files : job'.new[f] = IF f = job.at THEN Saved ELSE job.new[f]
      BY <1>4, <2>3 DEF JobType
    <2>5. PublishInv'
      BY <1>0, <1>1, <2>1, <2>2, <2>3, <2>4 DEF PublishInv, PublishPc
    <2>6. QED
      BY <1>0, <1>1, <1>4, <2>1, <2>3, <2>5, PublishMoves DEF PublishPc
  <1>7. CASE PublishWrite
    <2>1. PICK c \in {job.opened[job.at], Current.content} \ {"absent"} :
            RightSize(c) /\ job' = [job EXCEPT !.pc = "rename", !.sha = c]
      BY <1>3, <1>7 DEF PublishWrite
    <2>2. job.pc = "publish" /\ job.at \in Files
      BY <1>7 DEF PublishWrite, At
    <2>3. job.opened[job.at] \in Contents /\ Current.content \in Kinds
      BY <1>0, <1>4, <2>2 DEF PublishInv, PublishPc, DiskInv, FileType, Current
    <2>4. c \in Contents
      BY <2>1, <2>3 DEF Kinds
    <2>5. /\ job' \in JobType /\ job'.pc = "rename" /\ job'.dir = job.dir /\ job'.lock = job.lock /\ job'.at = job.at
          /\ job'.new = job.new /\ job'.opened = job.opened /\ job'.sha = c
      BY <1>4, <2>1, <2>4 DEF JobType, JobPc, PublishPc, Kinds
    <2>6. PublishInv'
      BY <1>0, <1>1, <2>2, <2>4, <2>5 DEF PublishInv, PublishPc
    <2>7. QED
      BY <1>0, <1>1, <1>4, <2>2, <2>5, <2>6, PublishMoves DEF PublishPc
  <1>8. QED
    BY <1>5, <1>6, <1>7

(* prepare: a record is renamed into place.                                *)
LEMMA FilesRename ==
    ASSUME FilesInv, UNCHANGED compareVars, PublishRename
    PROVE  FilesInv'
  <1>0. DiskInv /\ ReceiptInv /\ OutputInv /\ ScriptInv /\ PublishInv /\ CompareInv
    BY DEF FilesInv, JobInv
  <1> DEFINE e == File(job.sha, clock)
  <1>1. /\ UNCHANGED <<disk, receipt, outReceipt, manifest, marks, reads>> /\ job.pc = "rename"
        /\ output' = [output EXCEPT ![job.at] = e] /\ clock' = clock + 1
        /\ job' = [job EXCEPT !.pc = "enter", !.new[job.at] = e]
    BY DEF PublishRename, At, compareVars
  <1>2. job \in JobType /\ job.dir \in Locks /\ job.lock \in Locks /\ job.at \in Files /\ job.sha \in Contents
    BY <1>0, <1>1 DEF ScriptInv, PublishInv
  <1>3. Dated(e, clock + 1) /\ Fresh(e, clock) /\ e \in FileType
    BY <1>0, <1>2, WrittenDated DEF Dated
  <1> HIDE DEF e
  <1>4. Touched
    BY <1>0, <1>1, <1>2, <1>3, TouchedOutput
  <1>5. /\ job' \in JobType /\ job'.pc = "enter" /\ job'.dir = job.dir /\ job'.lock = job.lock /\ job'.at = job.at
        /\ job'.new = [job.new EXCEPT ![job.at] = e] /\ job'.opened = job.opened
    BY <1>1, <1>2, <1>3 DEF JobType, JobPc, PublishPc
  <1>6. PublishInv'
    <2>1. ASSUME NEW f \in Files
          PROVE  Dated(job'.new[f], clock') /\ Vouches(job'.new[f], output'[f])
      <3>1. CASE f = job.at
        <4>1. job'.new[f] = e /\ output'[f] = e
          BY <1>0, <1>1, <1>2, <1>5, <3>1 DEF JobType, DiskInv
        <4>2. QED
          BY <1>1, <1>3, <4>1 DEF Vouches
      <3>2. CASE f # job.at
        <4>1. job'.new[f] = job.new[f]
          BY <1>2, <1>5, <3>2 DEF JobType
        <4>2. Dated(job.new[f], clock) /\ Vouches(job.new[f], output[f])
          BY <1>0, <1>1 DEF PublishInv, PublishPc
        <4>3. QED
          BY <1>0, <1>4, <4>1, <4>2, StillVouches
      <3>3. QED
        BY <3>1, <3>2
    <2>2. QED
      BY <1>0, <1>1, <1>5, <2>1 DEF PublishInv, PublishPc
  <1>7. JobInv'
    BY <1>0, <1>1, <1>2, <1>5, <1>6, PublishMoves DEF PublishPc
  <1>8. QED
    BY <1>0, <1>1, <1>4, <1>7, ReceiptStays, OutputStays DEF FilesInv, Touched

(* prepare: the record is entered in the interim receipt.                  *)
LEMMA FilesEnter ==
    ASSUME FilesInv, UNCHANGED compareVars, PublishEnter
    PROVE  FilesInv'
  <1>0. DiskInv /\ ReceiptInv /\ OutputInv /\ ScriptInv /\ PublishInv /\ CompareInv
    BY DEF FilesInv, JobInv
  <1>1. /\ UNCHANGED <<disk, receipt, clock, output, manifest, marks, reads>> /\ job.pc = "enter"
        /\ outReceipt' = [files |-> [outReceipt.files EXCEPT ![job.at] = job.new[job.at]], sealed |-> FALSE]
        /\ job' = NextFile("publish")
    BY DEF PublishEnter, At, compareVars
  <1>2. job \in JobType /\ job.dir \in Locks /\ job.lock \in Locks /\ job.at \in Files
    BY <1>0, <1>1 DEF ScriptInv
  <1>3. job.at + 1 \in 1 .. NFiles + 1
    BY <1>2, CheckpointAssumption DEF Files
  <1>4. Touched
    BY <1>0, <1>1, TouchedNone
  <1>5. /\ job' \in JobType /\ job'.pc = "publish" /\ job'.dir = job.dir /\ job'.lock = job.lock
        /\ job'.new = job.new /\ job'.opened = job.opened
    BY <1>1, <1>2, <1>3 DEF NextFile, JobType, JobPc, PublishPc
  <1>6. PublishInv'
    BY <1>0, <1>1, <1>5 DEF PublishInv, PublishPc
  <1>7. JobInv'
    BY <1>0, <1>1, <1>2, <1>5, <1>6, PublishMoves DEF PublishPc
  <1>8. OutputInv'
    <2>1. /\ job.new[job.at] \in FileType /\ Dated(job.new[job.at], clock)
          /\ Vouches(job.new[job.at], output[job.at])
      BY <1>0, <1>1, <1>2 DEF PublishInv, PublishPc, JobType
    <2>2. outReceipt.files \in [Files -> FileType]
      BY <1>0 DEF OutputInv
    <2>3. outReceipt' \in [files : [Files -> FileType], sealed : BOOLEAN] /\ ~outReceipt'.sealed
      BY <1>1, <1>2, <2>1, <2>2
    <2>4. \A f \in Files : outReceipt'.files[f] = IF f = job.at THEN job.new[f] ELSE outReceipt.files[f]
      BY <1>1, <1>2, <2>2
    <2>5. QED
      BY <1>0, <1>1, <2>1, <2>3, <2>4 DEF OutputInv
  <1>9. QED
    BY <1>0, <1>1, <1>4, <1>7, <1>8, ReceiptStays DEF FilesInv, Touched

(* prepare: the manifest, and the receipt that seals it.                   *)
LEMMA FilesSeal ==
    ASSUME FilesInv, UNCHANGED compareVars, PrepareManifest \/ PrepareSeal
    PROVE  FilesInv'
  <1>0. DiskInv /\ ReceiptInv /\ OutputInv /\ ScriptInv /\ PublishInv /\ CompareInv
    BY DEF FilesInv, JobInv
  <1>1. UNCHANGED <<disk, receipt, clock, output, marks, reads>>
    BY DEF PrepareManifest, PrepareSeal, compareVars
  <1>2. Touched
    BY <1>0, <1>1, TouchedNone
  <1>3. CASE PrepareManifest
    <2>1. CASE Abandon /\ UNCHANGED manifest
      BY <1>1, <1>3, <2>1, ScriptEnds DEF PrepareManifest
    <2>2. CASE manifest' = Listed /\ PinnedManifest(Listed) /\ Goto("seal")
      <3>1. job.pc = "publish" /\ outReceipt' = outReceipt
        BY <1>3 DEF PrepareManifest, At
      <3>2. job \in JobType /\ job.dir \in Locks /\ job.lock \in Locks
        BY <1>0, <3>1 DEF ScriptInv
      <3>3. manifest' \in [Files -> Kinds \cup {"none"}] /\ \A f \in Files : manifest'[f] = "q4" /\ job.new[f].content = "q4"
        BY <2>2, PrepareAssumption DEF Listed, PinnedManifest, Kinds, Contents
      <3>4. /\ job' \in JobType /\ job'.pc = "seal" /\ job'.dir = job.dir /\ job'.lock = job.lock
            /\ job'.new = job.new /\ job'.opened = job.opened
        BY <2>2, <3>2 DEF Goto, JobType, JobPc, PublishPc
      <3>5. PublishInv'
        BY <1>0, <1>1, <3>1, <3>3, <3>4 DEF PublishInv, PublishPc
      <3>6. JobInv'
        BY <1>0, <1>1, <3>1, <3>2, <3>4, <3>5, PublishMoves DEF PublishPc
      <3>7. OutputInv'
        BY <1>0, <1>1, <3>1, <3>3 DEF OutputInv
      <3>8. QED
        BY <1>0, <1>1, <1>2, <3>6, <3>7, ReceiptStays DEF FilesInv, Touched
    <2>3. QED
      BY <1>3, <2>1, <2>2 DEF PrepareManifest
  <1>4. CASE PrepareSeal
    <2>1. /\ job.pc = "seal" /\ outReceipt' = [files |-> job.new, sealed |-> TRUE] /\ manifest' = manifest
          /\ job' = NoJob
      BY <1>4 DEF PrepareSeal, At, Abandon
    <2>2. JobInv'
      BY <1>0, <1>1, <2>1, JobEnds
    <2>3. job.new \in [Files -> FileType]
      BY <1>0 DEF ScriptInv, JobType
    <2>4. \A f \in Files : /\ Dated(job.new[f], clock) /\ Vouches(job.new[f], output[f])
                           /\ job.new[f].content = "q4" /\ manifest[f] = "q4"
      BY <1>0, <2>1 DEF PublishInv, PublishPc
    <2>5. outReceipt' \in [files : [Files -> FileType], sealed : BOOLEAN] /\ outReceipt'.files = job.new
      BY <2>1, <2>3
    <2>6. OutputInv'
      BY <1>0, <1>1, <2>1, <2>4, <2>5 DEF OutputInv
    <2>7. QED
      BY <1>0, <1>1, <1>2, <2>2, <2>6, ReceiptStays DEF FilesInv, Touched
  <1>5. QED
    BY <1>3, <1>4

(* compare: the marks are taken, the pairs read, the result written.       *)
LEMMA FilesCompare ==
    ASSUME FilesInv, UNCHANGED prepareVars, CompareBegin \/ CompareTensor \/ CompareEnd
    PROVE  FilesInv'
  <1>0. DiskInv /\ ScriptInv /\ CompareInv
    BY DEF FilesInv, JobInv
  <1>1. UNCHANGED <<disk, receipt, clock, output, outReceipt, manifest>>
    BY DEF CompareBegin, CompareTensor, CompareEnd, prepareVars
  <1>2. CASE Abandon /\ UNCHANGED <<marks, reads>>
    BY <1>1, <1>2, ScriptEnds
  <1>3. SUFFICES ASSUME ~(Abandon /\ UNCHANGED <<marks, reads>>) PROVE FilesInv'
    BY <1>2
  <1> SUFFICES JobInv'
    BY <1>1, ScriptMoves
  <1>4. job.pc \in {"fingerprint", "tensor"} /\ job \in JobType /\ job.dir \in Locks /\ job.lock \in Locks
    BY <1>0 DEF ScriptInv, CompareBegin, CompareTensor, CompareEnd, At
  <1>5. ASSUME job' \in JobType, job'.pc = "tensor", job'.dir = job.dir, job'.lock = job.lock
        PROVE  ScriptInv' /\ VerifyInv' /\ PreflightInv' /\ PublishInv'
    BY <1>4, <1>5 DEF ScriptInv, VerifyInv, PreflightInv, PublishInv, VerifyPc, DownloadPc, PublishPc
  <1>6. CASE CompareBegin
    <2>1. /\ job.pc = "fingerprint" /\ \A d \in Locks, f \in Files : RightSize(disk[d][f].content)
          /\ marks' = Fingerprints /\ reads' = NoReads /\ job' = [job EXCEPT !.pc = "tensor"]
      BY <1>3, <1>6 DEF CompareBegin, At, Goto
    <2>2. job' \in JobType /\ job'.pc = "tensor" /\ job'.dir = job.dir /\ job'.lock = job.lock /\ job'.at = 1
      BY <1>0, <1>4, <2>1 DEF JobType, JobPc, CompareInv
    <2>3. \A d \in Locks, f \in Files : marks'[d][f] = disk[d][f].stamp
      BY <2>1 DEF Fingerprints
    <2>4. \A d \in Locks, f \in Files : disk[d][f].stamp \in 1 .. clock - 1
      BY <1>0, <2>1 DEF DiskInv, Dated, FileType, RightSize
    <2>5. marks' \in [Locks -> [Files -> Nat]]
      BY <2>1, <2>4 DEF Fingerprints
    <2>6. \A f \in Files : ~(f < 1)
      BY DEF Files
    <2>7. CompareInv'
      BY <1>1, <2>1, <2>2, <2>3, <2>4, <2>5, <2>6, NoJobType DEF CompareInv
    <2>8. QED
      BY <1>5, <2>2, <2>7 DEF JobInv
  <1>7. CASE CompareTensor
    <2> DEFINE pair == <<disk["q4"][job.at].content, disk["mixed"][job.at].content>>
    <2>1. /\ job.pc = "tensor" /\ job.at \in Files /\ marks' = marks
          /\ reads' = [reads EXCEPT ![job.at] = pair] /\ job' = NextFile("tensor")
      BY <1>3, <1>7 DEF CompareTensor, At
    <2>2. job.at + 1 \in 1 .. NFiles + 1
      BY <2>1, CheckpointAssumption DEF Files
    <2>3. job' \in JobType /\ job'.pc = "tensor" /\ job'.dir = job.dir /\ job'.lock = job.lock /\ job'.at = job.at + 1
      BY <1>4, <2>1, <2>2 DEF NextFile, JobType, JobPc
    <2>4. pair \in (Kinds \cup {"none"}) \X (Kinds \cup {"none"})
      BY <1>0, <2>1, CompareAssumption DEF DiskInv, FileType
    <2>5. \A f \in Files : reads'[f] = IF f = job.at THEN pair ELSE reads[f]
      BY <1>0, <2>1 DEF CompareInv
    <2>6. reads' \in [Files -> (Kinds \cup {"none"}) \X (Kinds \cup {"none"})]
      BY <1>0, <2>1, <2>4 DEF CompareInv
    <2>7. \A f \in Files : f < job.at + 1 => f = job.at \/ f < job.at
      BY <2>1 DEF Files
    <2>8. CompareInv'
      BY <1>0, <1>1, <2>1, <2>3, <2>5, <2>6, <2>7 DEF CompareInv
    <2>9. QED
      BY <1>5, <2>3, <2>8 DEF JobInv
  <1>8. CASE CompareEnd
    BY <1>3, <1>8 DEF CompareEnd
  <1>9. QED
    BY <1>6, <1>7, <1>8
-----------------------------------------------------------------------------
(* The directories as they are found hold pinned files, or nothing.        *)
LEMMA FilesFound ==
    FilesInit => FilesInv
  <1> SUFFICES ASSUME FilesInit PROVE FilesInv
    OBVIOUS
  <1>1. clock = 2 /\ Absent \in FileType
    BY DEF FilesInit, CheckpointInit, FileType, Kinds, Absent, File
  <1>2. Dated(Absent, clock) /\ \A e : Dated(e, clock) => Vouches(Absent, e)
    BY <1>1, AbsentDated
  <1>3. \A d \in Locks : Dated(File(d, 1), clock)
    BY <1>1, CheckpointAssumption DEF Dated, File, FileType, Kinds, Contents
  <1>4. DiskInv
    <2>1. PICK held \in {{1}, Files} :
            disk = [d \in Locks |-> [f \in Files |-> IF f \in held THEN File(d, 1) ELSE Absent]]
      BY DEF FilesInit, CheckpointInit
    <2>2. \A d \in Locks, f \in Files : disk[d][f] \in {File(d, 1), Absent}
      BY <2>1
    <2>3. \A d \in Locks, f \in Files : Dated(disk[d][f], clock)
      BY <1>2, <1>3, <2>2
    <2>4. disk \in [Locks -> [Files -> FileType]]
      BY <1>1, <1>3, <2>1 DEF Dated
    <2>5. output = [f \in Files |-> Absent]
      BY DEF FilesInit, PrepareInit
    <2>6. output \in [Files -> FileType] /\ \A f \in Files : Dated(output[f], clock)
      BY <1>1, <1>2, <2>5
    <2>7. QED
      BY <1>1, <2>3, <2>4, <2>6 DEF DiskInv
  <1>5. ReceiptInv
    <2>1. \A d \in Locks : receipt[d].revision = "none" /\ \A f \in Files : receipt[d].files[f] = Absent
      BY DEF FilesInit, CheckpointInit, NoReceipt
    <2>2. receipt \in [Locks -> [revision : Locks \cup {"none"}, files : [Files -> FileType]]]
      BY <1>1 DEF FilesInit, CheckpointInit, NoReceipt
    <2>3. Absent.content = "absent"
      BY DEF Absent, File
    <2>4. QED
      BY <1>2, <1>4, <2>1, <2>2, <2>3 DEF ReceiptInv, DiskInv
  <1>6. OutputInv
    <2>1. outReceipt = [files |-> [f \in Files |-> Absent], sealed |-> FALSE] /\ manifest = [f \in Files |-> "none"]
      BY DEF FilesInit, PrepareInit, NoOutReceipt, NoManifest
    <2>2. manifest \in [Files -> Kinds \cup {"none"}] /\ outReceipt \in [files : [Files -> FileType], sealed : BOOLEAN]
      BY <1>1, <2>1
    <2>3. ~outReceipt.sealed /\ \A f \in Files : outReceipt.files[f] = Absent
      BY <2>1
    <2>4. QED
      BY <1>2, <1>4, <2>2, <2>3 DEF OutputInv, DiskInv
  <1>7. JobInv
    <2>1. job = NoJob /\ marks = NoMarks /\ reads = NoReads
      BY DEF FilesInit, CheckpointInit, CompareInit
    <2>2. job \in JobType /\ job.pc = "none" /\ reads \in [Files -> (Kinds \cup {"none"}) \X (Kinds \cup {"none"})]
      BY <2>1, NoJobType
    <2>3. marks \in [Locks -> [Files -> Nat]]
      BY <2>1 DEF NoMarks
    <2>4. QED
      BY <2>2, <2>3 DEF JobInv, ScriptInv, VerifyInv, PreflightInv, PublishInv, CompareInv, VerifyPc, DownloadPc, PublishPc
  <1>8. QED
    BY <1>4, <1>5, <1>6, <1>7 DEF FilesInv

(* Every step of every script, and of the world around them, keeps them.   *)
LEMMA FilesStep ==
    FilesInv /\ [FilesNext]_fileVars => FilesInv'
  <1> SUFFICES ASSUME FilesInv, [FilesNext]_fileVars PROVE FilesInv'
    OBVIOUS
  <1>1. CASE CheckpointNext /\ UNCHANGED <<prepareVars, compareVars>>
    <2>1. CASE Verify \/ Download
      <3>1. UNCHANGED <<output, outReceipt, manifest, marks, reads>>
        BY <1>1 DEF prepareVars, compareVars
      <3>2. QED
        BY <2>1, <3>1, FilesBegin
    <2>2. CASE VerifyStat \/ VerifyDigest \/ VerifyRestat
      BY <1>1, <2>2, FilesVerify
    <2>3. CASE VerifyPublish
      BY <1>1, <2>3, FilesVerified
    <2>4. CASE PreflightStat \/ PreflightHash \/ PreflightSpace \/ DownloadVerify
      BY <1>1, <2>4, FilesPreflight
    <2>5. CASE SnapshotDownload
      BY <1>1, <2>5, FilesFetch
    <2>6. CASE Die \/ Edit
      BY <1>1, <2>6, FilesWorld
    <2>7. QED
      BY <1>1, <2>1, <2>2, <2>3, <2>4, <2>5, <2>6 DEF CheckpointNext
  <1>2. CASE PrepareNext /\ UNCHANGED compareVars
    <2>1. CASE Prepare
      <3>1. UNCHANGED <<output, outReceipt, manifest, marks, reads>>
        BY <1>2, <2>1 DEF Prepare, prepareVars, compareVars
      <3>2. QED
        BY <2>1, <3>1, FilesBegin
    <2>2. CASE PrepareOpen \/ PublishReuse \/ PublishWrite
      BY <1>2, <2>2, FilesPublish
    <2>3. CASE PublishRename
      BY <1>2, <2>3, FilesRename
    <2>4. CASE PublishEnter
      BY <1>2, <2>4, FilesEnter
    <2>5. CASE PrepareManifest \/ PrepareSeal
      BY <1>2, <2>5, FilesSeal
    <2>6. CASE EditOutput
      BY <1>2, <2>6, FilesWorld
    <2>7. QED
      BY <1>2, <2>1, <2>2, <2>3, <2>4, <2>5, <2>6 DEF PrepareNext
  <1>3. CASE CompareNext /\ UNCHANGED prepareVars
    <2>1. CASE Compare
      <3>1. UNCHANGED <<output, outReceipt, manifest, marks, reads>>
        BY <1>3, <2>1 DEF Compare, prepareVars, compareVars
      <3>2. QED
        BY <2>1, <3>1, FilesBegin
    <2>2. CASE CompareBegin \/ CompareTensor \/ CompareEnd
      BY <1>3, <2>2, FilesCompare
    <2>3. QED
      BY <1>3, <2>1, <2>2 DEF CompareNext
  <1>4. QED
    BY <1>1, <1>2, <1>3, FilesWorld DEF FilesNext

(* Every reachable state of the checkpoint directories satisfies FilesInv. *)
THEOREM FilesCorrect == FilesSpec => []FilesInv
  <1>1. FilesInit => FilesInv
    BY FilesFound
  <1>2. FilesInv /\ [FilesNext]_fileVars => FilesInv'
    BY FilesStep
  <1>3. QED
    BY <1>1, <1>2, PTL DEF FilesSpec

(* A receipt entry that fits its file speaks of the pinned bytes, whatever *)
(* was edited, killed or verified from the cache before (verify).          *)
THEOREM ReceiptCorrect == FilesSpec => []ReceiptTruthful
  <1>1. FilesInv => ReceiptTruthful
    <2> SUFFICES ASSUME FilesInv, NEW d \in Locks, NEW f \in Files, receipt[d].files[f] # Absent,
                        receipt[d].files[f].stamp = disk[d][f].stamp
                 PROVE  /\ receipt[d].files[f].content = receipt[d].revision
                        /\ disk[d][f].content = receipt[d].files[f].content
      BY DEF ReceiptTruthful
    <2> DEFINE e == receipt[d].files[f]
    <2>1. Dated(e, clock) /\ e.content \in {"absent", receipt[d].revision} /\ Vouches(e, disk[d][f])
      BY DEF FilesInv, ReceiptInv
    <2>2. e.content = "absent" => e = Absent
      BY <2>1 DEF Dated, FileType, Absent, File
    <2>3. QED
      BY <2>1, <2>2 DEF Vouches
  <1>2. QED
    BY <1>1, FilesCorrect, PTL

(* A sealed preparation lists and holds pinned records only, although an   *)
(* interrupted run's records are reused by every later one (prepare).      *)
THEOREM PreparationCorrect == FilesSpec => []SealedPreparationFaithful
  <1>1. FilesInv => SealedPreparationFaithful
    <2> SUFFICES ASSUME FilesInv, outReceipt.sealed
                 PROVE  /\ manifest = [f \in Files |-> outReceipt.files[f].content]
                        /\ \A f \in Files : /\ outReceipt.files[f].content = "q4"
                                            /\ output[f].stamp = outReceipt.files[f].stamp => output[f].content = "q4"
      BY DEF SealedPreparationFaithful
    <2>1. /\ manifest \in [Files -> Kinds \cup {"none"}]
          /\ \A f \in Files : Vouches(outReceipt.files[f], output[f])
          /\ \A f \in Files : outReceipt.files[f].content = "q4" /\ manifest[f] = "q4"
      BY DEF FilesInv, OutputInv
    <2>2. manifest = [f \in Files |-> outReceipt.files[f].content]
      BY <2>1
    <2>3. QED
      BY <2>1, <2>2 DEF Vouches
  <1>2. QED
    BY <1>1, FilesCorrect, PTL

(* What a script may do to the files it found.                             *)
KeepsFound ==
  \A d \in Locks, f \in Files :
    disk'[d][f] # disk[d][f] /\ job' # job /\ disk[d][f] # Absent
      => job.seen[f] # disk[d][f].stamp

(* The download overwrites a file its preflight found only when somebody   *)
(* has changed it since (download).                                        *)
THEOREM DownloadKeeps == FilesSpec => DownloadKeepsFound
  <1>1. FilesInv /\ [FilesNext]_fileVars => [KeepsFound]_checkpointVars
    <2> SUFFICES ASSUME FilesInv, FilesNext, NEW d \in Locks, NEW f \in Files,
                        disk'[d][f] # disk[d][f], job' # job, disk[d][f] # Absent
                 PROVE  job.seen[f] # disk[d][f].stamp
      BY DEF KeepsFound, checkpointVars, fileVars
    <2>1. SnapshotDownload
      BY DEF FilesNext, CheckpointNext, PrepareNext, CompareNext, Verify, Download, Prepare, Compare, Begin, VerifyStat,
             VerifyDigest, VerifyRestat, VerifyPublish, PreflightStat, PreflightHash, PreflightSpace, DownloadVerify,
             Die, Edit, PrepareOpen, PublishReuse, PublishWrite, PublishRename, PublishEnter, PrepareManifest,
             PrepareSeal, EditOutput, CompareBegin, CompareTensor, CompareEnd
    <2>2. DiskInv /\ ScriptInv /\ PreflightInv
      BY DEF FilesInv, JobInv
    <2>3. /\ job.pc = "fetch" /\ job.at \in Files /\ Current.content # job.lock
          /\ disk' = [disk EXCEPT ![job.dir][job.at] = File(job.lock, clock)]
      BY <2>1 DEF SnapshotDownload, At
    <2>4. job.dir \in Locks
      BY <2>2, <2>3 DEF ScriptInv
    <2>5. d = job.dir /\ f = job.at
      BY <2>2, <2>3, <2>4 DEF DiskInv
    <2>6. job.seen[f] = 0 \/ job.seen[f] # disk[d][f].stamp
      BY <2>2, <2>3, <2>5 DEF PreflightInv, DownloadPc, Current
    <2>7. disk[d][f].stamp # 0
      BY <2>2 DEF DiskInv, Dated, FileType, Absent, File
    <2>8. QED
      BY <2>6, <2>7
  <1>2. QED
    BY <1>1, FilesCorrect, PTL DEF FilesSpec, DownloadKeepsFound, KeepsFound

(* What a step that publishes a comparison says of the files.              *)
OfOneState ==
  compared' # compared
    => \A f \in Files : compared'.read[f] = <<disk["q4"][f].content, disk["mixed"][f].content>>

(* A published comparison is of the files as they are at its end, although *)
(* its payloads were read one after the other (verify_mixed_payloads).     *)
THEOREM ComparisonKeeps == FilesSpec => ComparisonOfOneState
  <1>1. FilesInv /\ [FilesNext]_fileVars => [OfOneState]_<<checkpointVars, compareVars>>
    <2> SUFFICES ASSUME FilesInv, FilesNext, compared' # compared, NEW f \in Files
                 PROVE  compared'.read[f] = <<disk["q4"][f].content, disk["mixed"][f].content>>
      BY DEF OfOneState, compareVars, fileVars
    <2>1. CompareEnd
      BY DEF FilesNext, PrepareNext, CompareNext, Compare, CompareBegin, CompareTensor, compareVars
    <2>2. job.pc = "tensor" /\ job.at = NFiles + 1 /\ compared' = [complete |-> TRUE, read |-> reads] /\ SameMarks
      BY <2>1 DEF CompareEnd, At
    <2>3. \A d \in Locks : marks[d][f] = disk[d][f].stamp
      BY <2>2 DEF SameMarks, Fingerprints
    <2>4. f < job.at
      BY <2>2, CheckpointAssumption DEF Files
    <2>5. reads[f] = <<disk["q4"][f].content, disk["mixed"][f].content>>
      BY <2>2, <2>3, <2>4 DEF FilesInv, JobInv, CompareInv
    <2>6. QED
      BY <2>2, <2>5
  <1>2. QED
    BY <1>1, FilesCorrect, PTL DEF FilesSpec, ComparisonOfOneState, OfOneState
-----------------------------------------------------------------------------
(* The draft model's sidecar.                                              *)

Bytes == {"none", "whole", "edited"}
TaskType ==
  [script : {"none", "inspect", "download", "prepare"},
   pc : {"none", "metadata", "tensor", "range", "receipt", "copy"}, at : 1 .. Len(Tensors) + 1, chunk : Nat]

(* The extraction has receipted every tensor it is past.                   *)
ExtractionInv ==
  /\ payload \in [TensorIds -> Bytes] /\ got \subseteq TensorIds /\ gotComplete \in BOOLEAN
  /\ task \in TaskType
  /\ gotComplete => got = TensorIds
  /\ task.script = "download" =>
       /\ \A t \in TensorIds : t < task.at => t \in got
       /\ task.pc \in {"range", "receipt"} => task.at \in TensorIds

(* A sidecar is made of a complete extraction: no later one takes from it. *)
SidecarInv ==
  /\ sidecar \in [exists : BOOLEAN, copied : [TensorIds -> Bytes], dense : BOOLEAN, complete : BOOLEAN]
  /\ task.script = "prepare" => sidecar.exists
  /\ sidecar.exists => got = TensorIds /\ \A t \in TensorIds : payload[t] # "none"
  /\ \A t \in TensorIds : Tensors[t] = "bf16" => sidecar.copied[t] \in {"none", "whole"}
  /\ sidecar.dense => \A t \in Phase("dense") : sidecar.copied[t] # "none"
  /\ sidecar.complete => sidecar.exists /\ \A t \in TensorIds : sidecar.copied[t] # "none"

MtpInv == ExtractionInv /\ SidecarInv

(* The idle task, and a task that begins.                                  *)
LEMMA TaskTypes ==
    /\ NoTask \in TaskType /\ NoTask.script = "none"
    /\ \A s \in {"inspect", "download", "prepare"}, p \in {"metadata", "tensor", "copy"} :
         StartTask(s, p) => task' \in TaskType /\ task'.script = s /\ task'.pc = p /\ task'.at = 1
  <1>1. 1 \in 1 .. Len(Tensors) + 1
    BY MtpAssumption
  <1>2. NoTask \in TaskType /\ NoTask.script = "none" /\ NoTask.at = 1
    BY <1>1 DEF NoTask, TaskType
  <1>3. ASSUME NEW s \in {"inspect", "download", "prepare"}, NEW p \in {"metadata", "tensor", "copy"}, StartTask(s, p)
        PROVE  task' \in TaskType /\ task'.script = s /\ task'.pc = p /\ task'.at = 1
    <2>1. task' = [NoTask EXCEPT !.script = s, !.pc = p]
      BY <1>3 DEF StartTask
    <2>2. QED
      BY <1>2, <2>1 DEF TaskType
  <1>4. QED
    BY <1>2, <1>3

(* A script that ends, or one that is not an extraction, leaves it alone.  *)
LEMMA ExtractionRests ==
    ASSUME ExtractionInv, UNCHANGED <<payload, got, gotComplete>>, task' \in TaskType,
           task' = task \/ task'.script # "download"
    PROVE  ExtractionInv'
  BY DEF ExtractionInv

(* So does a script that does not touch the sidecar.                       *)
LEMMA SidecarRests ==
    ASSUME SidecarInv, UNCHANGED <<payload, got, sidecar>>, task'.script \in {task.script, "none", "inspect", "download"}
    PROVE  SidecarInv'
  BY DEF SidecarInv

(* A script that gives up.                                                 *)
LEMMA TaskEnds ==
    ASSUME MtpInv, GiveUp, UNCHANGED <<payload, got, gotComplete, sidecar>>
    PROVE  MtpInv'
  <1>1. task' \in TaskType /\ task'.script = "none"
    BY TaskTypes DEF GiveUp
  <1>2. QED
    BY <1>1, ExtractionRests, SidecarRests DEF MtpInv

(* download: a tensor is skipped, or its ranges are asked for.             *)
LEMMA MtpTensor ==
    ASSUME MtpInv, TensorSaved \/ TensorUnreceipted \/ GetRange
    PROVE  MtpInv'
  <1>0. ExtractionInv /\ SidecarInv /\ Len(Tensors) \in Nat
    BY MtpAssumption DEF MtpInv
  <1>1. UNCHANGED <<payload, got, gotComplete, sidecar>> /\ task.script = "download"
    BY DEF TensorSaved, TensorUnreceipted, GetRange, On
  <1>2. CASE GiveUp
    BY <1>1, <1>2, TaskEnds
  <1>3. SUFFICES ASSUME ~GiveUp PROVE MtpInv'
    BY <1>2
  <1>4. task \in TaskType /\ \A t \in TensorIds : t < task.at => t \in got
    BY <1>0, <1>1 DEF ExtractionInv
  <1>5. CASE TensorSaved
    <2>1. task.at \in TensorIds /\ task.at \in got /\ task' = [task EXCEPT !.pc = "tensor", !.at = task.at + 1, !.chunk = 0]
      BY <1>3, <1>5 DEF TensorSaved, StepTo
    <2>2. task.at + 1 \in 1 .. Len(Tensors) + 1 /\ \A t \in TensorIds : t < task.at + 1 => t = task.at \/ t < task.at
      BY <1>0, <2>1 DEF TensorIds
    <2>3. task' \in TaskType /\ task'.script = "download" /\ task'.pc = "tensor" /\ task'.at = task.at + 1
      BY <1>1, <1>4, <2>1, <2>2 DEF TaskType
    <2>4. \A t \in TensorIds : t < task'.at => t \in got
      BY <1>4, <2>1, <2>2, <2>3
    <2>5. ExtractionInv'
      BY <1>0, <1>1, <2>3, <2>4 DEF ExtractionInv
    <2>6. QED
      BY <1>0, <1>1, <2>3, <2>5, SidecarRests DEF MtpInv
  <1>6. CASE TensorUnreceipted
    <2>1. task.at \in TensorIds /\ task' = [task EXCEPT !.pc = "range"]
      BY <1>3, <1>6 DEF TensorUnreceipted, Step
    <2>2. task' \in TaskType /\ task'.script = "download" /\ task'.pc = "range" /\ task'.at = task.at
      BY <1>1, <1>4, <2>1 DEF TaskType
    <2>3. ExtractionInv'
      BY <1>0, <1>1, <1>4, <2>1, <2>2 DEF ExtractionInv
    <2>4. QED
      BY <1>0, <1>1, <2>2, <2>3, SidecarRests DEF MtpInv
  <1>7. CASE GetRange
    <2>1. task' = [task EXCEPT !.chunk = task.chunk + 1]
      BY <1>3, <1>7 DEF GetRange
    <2>2. task' \in TaskType /\ task'.script = task.script /\ task'.pc = task.pc /\ task'.at = task.at
      BY <1>4, <2>1 DEF TaskType
    <2>3. ExtractionInv'
      BY <1>0, <1>1, <2>2 DEF ExtractionInv
    <2>4. QED
      BY <1>0, <1>1, <2>2, <2>3, SidecarRests DEF MtpInv
  <1>8. QED
    BY <1>5, <1>6, <1>7

(* download: a tensor is renamed into place, receipted, and the last one.  *)
LEMMA MtpReceipt ==
    ASSUME MtpInv, TensorRename \/ TensorReceipt \/ DownloadEnd
    PROVE  MtpInv'
  <1>0. ExtractionInv /\ SidecarInv /\ Len(Tensors) \in Nat
    BY MtpAssumption DEF MtpInv
  <1>1. task.script = "download" /\ sidecar' = sidecar
    BY DEF TensorRename, TensorReceipt, DownloadEnd, On
  <1>2. task \in TaskType /\ \A t \in TensorIds : t < task.at => t \in got
    BY <1>0, <1>1 DEF ExtractionInv
  <1>3. CASE TensorRename
    <2>1. /\ task.pc = "range" /\ payload' = [payload EXCEPT ![task.at] = "whole"]
          /\ task' = [task EXCEPT !.pc = "receipt"] /\ UNCHANGED <<got, gotComplete>>
      BY <1>3 DEF TensorRename, On, Step
    <2>2. task.at \in TensorIds
      BY <1>0, <1>1, <2>1 DEF ExtractionInv
    <2>3. task' \in TaskType /\ task'.script = "download" /\ task'.at = task.at
      BY <1>1, <1>2, <2>1 DEF TaskType
    <2>4. /\ payload' \in [TensorIds -> Bytes]
          /\ \A t \in TensorIds : payload'[t] = "whole" \/ payload'[t] = payload[t]
      BY <1>0, <2>1, <2>2 DEF ExtractionInv, Bytes
    <2>5. ExtractionInv'
      BY <1>0, <1>2, <2>1, <2>2, <2>3, <2>4 DEF ExtractionInv
    <2>6. SidecarInv'
      BY <1>0, <1>1, <2>1, <2>3, <2>4 DEF SidecarInv
    <2>7. QED
      BY <2>5, <2>6 DEF MtpInv
  <1>4. CASE TensorReceipt
    <2>1. /\ task.pc = "receipt" /\ got' = got \cup {task.at} /\ UNCHANGED <<payload, gotComplete>>
          /\ task' = [task EXCEPT !.pc = "tensor", !.at = task.at + 1, !.chunk = 0]
      BY <1>4 DEF TensorReceipt, On, StepTo
    <2>2. task.at \in TensorIds
      BY <1>0, <1>1, <2>1 DEF ExtractionInv
    <2>3. task.at + 1 \in 1 .. Len(Tensors) + 1 /\ \A t \in TensorIds : t < task.at + 1 => t = task.at \/ t < task.at
      BY <1>0, <2>2 DEF TensorIds
    <2>4. task' \in TaskType /\ task'.script = "download" /\ task'.pc = "tensor" /\ task'.at = task.at + 1
      BY <1>1, <1>2, <2>1, <2>3 DEF TaskType
    <2>5. \A t \in TensorIds : t < task'.at => t \in got'
      BY <1>2, <2>1, <2>3, <2>4
    <2>6. got' \subseteq TensorIds /\ (got = TensorIds => got' = TensorIds)
      BY <1>0, <2>1, <2>2 DEF ExtractionInv
    <2>7. ExtractionInv'
      BY <1>0, <2>1, <2>4, <2>5, <2>6 DEF ExtractionInv
    <2>8. SidecarInv'
      BY <1>0, <1>1, <2>1, <2>4, <2>6 DEF SidecarInv
    <2>9. QED
      BY <2>7, <2>8 DEF MtpInv
  <1>5. CASE DownloadEnd
    <2>1. task.at = Len(Tensors) + 1 /\ gotComplete' = TRUE /\ task' = NoTask /\ UNCHANGED <<payload, got>>
      BY <1>5 DEF DownloadEnd, GiveUp
    <2>2. \A t \in TensorIds : t < task.at
      BY <1>0, <2>1 DEF TensorIds
    <2>3. got = TensorIds
      BY <1>0, <1>2, <2>2 DEF ExtractionInv
    <2>4. ExtractionInv'
      BY <1>0, <2>1, <2>3, TaskTypes DEF ExtractionInv
    <2>5. QED
      BY <1>0, <1>1, <2>1, <2>4, TaskTypes, SidecarRests DEF MtpInv
  <1>6. QED
    BY <1>3, <1>4, <1>5

(* inspect, and the scripts that begin.                                    *)
LEMMA MtpBegin ==
    ASSUME MtpInv, InspectBegin \/ InspectEnd \/ DownloadBegin \/ PrepareMtpBegin
    PROVE  MtpInv'
  <1>0. ExtractionInv /\ SidecarInv
    BY DEF MtpInv
  <1>1. CASE InspectBegin
    <2>1. StartTask("inspect", "metadata") /\ UNCHANGED <<payload, got, gotComplete, sidecar>>
      BY <1>1 DEF InspectBegin
    <2>2. task' \in TaskType /\ task'.script = "inspect"
      BY <2>1, TaskTypes
    <2>3. QED
      BY <1>0, <2>1, <2>2, ExtractionRests, SidecarRests DEF MtpInv
  <1>2. CASE InspectEnd
    BY <1>2, TaskEnds DEF InspectEnd
  <1>3. CASE DownloadBegin
    <2>1. StartTask("download", "tensor") /\ UNCHANGED <<payload, got, sidecar>> /\ gotComplete' = FALSE
      BY <1>3 DEF DownloadBegin
    <2>2. task' \in TaskType /\ task'.script = "download" /\ task'.pc = "tensor" /\ task'.at = 1
      BY <2>1, TaskTypes
    <2>3. \A t \in TensorIds : ~(t < 1)
      BY DEF TensorIds
    <2>4. ExtractionInv'
      BY <1>0, <2>1, <2>2, <2>3 DEF ExtractionInv
    <2>5. QED
      BY <1>0, <2>1, <2>2, <2>4, SidecarRests DEF MtpInv
  <1>4. CASE PrepareMtpBegin
    <2>1. /\ OpenSources /\ StartTask("prepare", "copy") /\ UNCHANGED <<payload, got, gotComplete>>
          /\ sidecar' = [NoSidecar EXCEPT !.exists = TRUE]
      BY <1>4 DEF PrepareMtpBegin
    <2>2. task' \in TaskType /\ task'.script = "prepare"
      BY <2>1, TaskTypes
    <2>3. got = TensorIds /\ \A t \in TensorIds : payload[t] # "none"
      BY <1>0, <2>1 DEF OpenSources, ExtractionInv
    <2>4. /\ sidecar' \in [exists : BOOLEAN, copied : [TensorIds -> Bytes], dense : BOOLEAN, complete : BOOLEAN]
          /\ sidecar'.exists = TRUE /\ sidecar'.dense = FALSE /\ sidecar'.complete = FALSE
          /\ \A t \in TensorIds : sidecar'.copied[t] = "none"
      BY <2>1 DEF NoSidecar, Bytes
    <2>5. SidecarInv'
      BY <2>1, <2>3, <2>4 DEF SidecarInv
    <2>6. QED
      BY <1>0, <2>1, <2>2, <2>5, ExtractionRests DEF MtpInv
  <1>5. QED
    BY <1>1, <1>2, <1>3, <1>4

(* A dense tensor is not an expert one, and every tensor is one of them.   *)
LEMMA Phases ==
    TensorIds = Phase("dense") \cup Phase("expert")
  <1>1. \A t \in TensorIds : Tensors[t] = "expert" => t \in Phase("expert")
    BY DEF Phase
  <1>2. \A t \in TensorIds : Tensors[t] # "expert" => t \in Phase("dense")
    BY DEF Phase
  <1>3. QED
    BY <1>1, <1>2 DEF Phase

(* prepare: a tensor is copied.                                            *)
LEMMA MtpCopy ==
    ASSUME MtpInv, CopyDense \/ CopyExperts
    PROVE  MtpInv'
  <1>0. ExtractionInv /\ SidecarInv
    BY DEF MtpInv
  <1>1. UNCHANGED <<payload, got, gotComplete>> /\ task.script = "prepare"
    BY DEF CopyDense, CopyExperts, On
  <1>2. CASE GiveUp /\ UNCHANGED sidecar
    BY <1>1, <1>2, TaskEnds
  <1>3. CASE ~(GiveUp /\ UNCHANGED sidecar)
    <2>1. PICK k \in {"dense", "expert"} : CopyTensor(k)
      BY DEF CopyDense, CopyExperts
    <2> DEFINE c == First(Uncopied(k))
    <2>2. HashedAsCopied(c) /\ sidecar' = [sidecar EXCEPT !.copied[c] = payload[c]] /\ task' = task
      BY <1>3, <2>1 DEF CopyTensor
    <2> HIDE DEF c
    <2>3. /\ sidecar.copied \in [TensorIds -> Bytes] /\ payload \in [TensorIds -> Bytes]
          /\ \A t \in TensorIds : payload[t] # "none"
      BY <1>0, <1>1 DEF SidecarInv, ExtractionInv
    <2>4. /\ sidecar' \in [exists : BOOLEAN, copied : [TensorIds -> Bytes], dense : BOOLEAN, complete : BOOLEAN]
          /\ sidecar'.exists = sidecar.exists /\ sidecar'.dense = sidecar.dense /\ sidecar'.complete = sidecar.complete
          /\ \A t \in TensorIds : sidecar'.copied[t] = IF t = c THEN payload[t] ELSE sidecar.copied[t]
      <3>1. sidecar \in [exists : BOOLEAN, copied : [TensorIds -> Bytes], dense : BOOLEAN, complete : BOOLEAN]
        BY <1>0 DEF SidecarInv
      <3>2. [sidecar.copied EXCEPT ![c] = payload[c]] \in [TensorIds -> Bytes]
        BY <2>3
      <3>3. /\ sidecar'.copied = [sidecar.copied EXCEPT ![c] = payload[c]]
            /\ sidecar' \in [exists : BOOLEAN, copied : [TensorIds -> Bytes], dense : BOOLEAN, complete : BOOLEAN]
            /\ sidecar'.exists = sidecar.exists /\ sidecar'.dense = sidecar.dense
            /\ sidecar'.complete = sidecar.complete
        BY <2>2, <3>1, <3>2
      <3>4. QED
        BY <2>3, <3>3
    <2>5. \A t \in TensorIds : Tensors[t] = "bf16" /\ t = c => payload[t] = "whole"
      BY <2>2 DEF HashedAsCopied
    <2>6. \A t \in TensorIds : sidecar.copied[t] # "none" => sidecar'.copied[t] # "none"
      BY <2>3, <2>4
    <2>7. \A t \in Phase("dense") : t \in TensorIds
      BY DEF Phase
    <2>8. SidecarInv'
      BY <1>0, <1>1, <2>2, <2>4, <2>5, <2>6, <2>7 DEF SidecarInv
    <2>9. ExtractionInv'
      BY <1>0, <1>1, <2>2 DEF ExtractionInv
    <2>10. QED
      BY <2>8, <2>9 DEF MtpInv
  <1>4. QED
    BY <1>2, <1>3

(* prepare: the dense file is renamed into place, and the flag is set.     *)
LEMMA MtpPublish ==
    ASSUME MtpInv, DenseRename \/ PrepareMtpEnd
    PROVE  MtpInv'
  <1>0. ExtractionInv /\ SidecarInv
    BY DEF MtpInv
  <1>1. UNCHANGED <<payload, got, gotComplete>> /\ task.script = "prepare" /\ sidecar.exists
    BY <1>0 DEF DenseRename, PrepareMtpEnd, On, SidecarInv
  <1>2. sidecar \in [exists : BOOLEAN, copied : [TensorIds -> Bytes], dense : BOOLEAN, complete : BOOLEAN]
    BY <1>0 DEF SidecarInv
  <1>3. CASE DenseRename
    <2>1. task' = task /\ Uncopied("dense") = {} /\ sidecar' = [sidecar EXCEPT !.dense = TRUE]
      BY <1>3 DEF DenseRename
    <2>2. \A t \in Phase("dense") : sidecar.copied[t] # "none"
      BY <2>1 DEF Uncopied
    <2>3. /\ sidecar' \in [exists : BOOLEAN, copied : [TensorIds -> Bytes], dense : BOOLEAN, complete : BOOLEAN]
          /\ sidecar'.exists = sidecar.exists /\ sidecar'.copied = sidecar.copied /\ sidecar'.complete = sidecar.complete
      BY <1>2, <2>1
    <2>4. SidecarInv'
      BY <1>0, <1>1, <2>1, <2>2, <2>3 DEF SidecarInv
    <2>5. ExtractionInv'
      BY <1>0, <1>1, <2>1 DEF ExtractionInv
    <2>6. QED
      BY <2>4, <2>5 DEF MtpInv
  <1>4. CASE PrepareMtpEnd
    <2>1. task' = NoTask /\ sidecar.dense /\ Uncopied("expert") = {} /\ sidecar' = [sidecar EXCEPT !.complete = TRUE]
      BY <1>4 DEF PrepareMtpEnd, GiveUp
    <2>2. \A t \in TensorIds : sidecar.copied[t] # "none"
      BY <1>0, <2>1, Phases DEF Uncopied, SidecarInv
    <2>3. /\ sidecar' \in [exists : BOOLEAN, copied : [TensorIds -> Bytes], dense : BOOLEAN, complete : BOOLEAN]
          /\ sidecar'.exists = sidecar.exists /\ sidecar'.copied = sidecar.copied /\ sidecar'.dense = sidecar.dense
      BY <1>2, <2>1
    <2>4. SidecarInv'
      BY <1>0, <1>1, <2>1, <2>2, <2>3, TaskTypes DEF SidecarInv
    <2>5. ExtractionInv'
      BY <1>0, <1>1, <2>1, TaskTypes, ExtractionRests
    <2>6. QED
      BY <2>4, <2>5 DEF MtpInv
  <1>5. QED
    BY <1>3, <1>4

(* Somebody edits a tensor or the inventory, or nothing happens.           *)
LEMMA MtpWorld ==
    ASSUME MtpInv, EditSource \/ UNCHANGED mtpVars
    PROVE  MtpInv'
  <1>0. ExtractionInv /\ SidecarInv
    BY DEF MtpInv
  <1>1. /\ UNCHANGED <<got, gotComplete, sidecar, task>>
        /\ payload' \in [TensorIds -> Bytes] /\ \A t \in TensorIds : payload[t] # "none" => payload'[t] # "none"
    <2>1. CASE UNCHANGED payload /\ UNCHANGED <<got, gotComplete, sidecar, task>>
      BY <1>0, <2>1 DEF ExtractionInv
    <2>2. CASE EditSource /\ payload' # payload
      <3>1. PICK t \in TensorIds : payload' = [payload EXCEPT ![t] = "edited"]
        BY <2>2 DEF EditSource
      <3>2. QED
        BY <1>0, <2>2, <3>1 DEF EditSource, ExtractionInv, Bytes
    <2>3. QED
      BY <2>1, <2>2 DEF EditSource, mtpVars
  <1>2. ExtractionInv' /\ SidecarInv'
    BY <1>0, <1>1 DEF ExtractionInv, SidecarInv
  <1>3. QED
    BY <1>2 DEF MtpInv

(* Whatever was killed or edited on the way, a complete sidecar holds      *)
(* every tensor of a complete extraction, its BF16 ones unchanged          *)
(* (mtp_source.py, prepare_mtp.py).                                        *)
THEOREM SidecarCorrect == MtpSpec => []SidecarDerived
  <1>1. MtpInit => MtpInv
    <2> SUFFICES ASSUME MtpInit PROVE MtpInv
      OBVIOUS
    <2>1. task \in TaskType /\ task.script = "none"
      BY TaskTypes DEF MtpInit
    <2>2. ExtractionInv
      BY <2>1 DEF ExtractionInv, MtpInit, Bytes
    <2>3. /\ sidecar \in [exists : BOOLEAN, copied : [TensorIds -> Bytes], dense : BOOLEAN, complete : BOOLEAN]
          /\ sidecar.exists = FALSE /\ sidecar.dense = FALSE /\ sidecar.complete = FALSE
          /\ \A t \in TensorIds : sidecar.copied[t] = "none"
      BY DEF MtpInit, NoSidecar, Bytes
    <2>4. SidecarInv
      BY <2>1, <2>3 DEF SidecarInv
    <2>5. QED
      BY <2>2, <2>4 DEF MtpInv
  <1>2. MtpInv /\ [MtpNext]_mtpVars => MtpInv'
    <2> SUFFICES ASSUME MtpInv, [MtpNext]_mtpVars PROVE MtpInv'
      OBVIOUS
    <2>1. CASE MtpDie
      BY <2>1, TaskEnds DEF MtpDie
    <2>2. CASE MtpScripts
      BY <2>2, MtpBegin, MtpTensor, MtpReceipt, MtpCopy, MtpPublish DEF MtpScripts
    <2>3. QED
      BY <2>1, <2>2, MtpBegin, MtpWorld DEF MtpNext
  <1>3. MtpInv => SidecarDerived
    BY DEF MtpInv, SidecarInv, SidecarDerived
  <1>4. QED
    BY <1>1, <1>2, <1>3, PTL DEF MtpSpec
-----------------------------------------------------------------------------
(* The producers.                                                          *)

Began  == buildPc # "idle"
Froze  == buildPc \in {"frozen", "compiled", "linked"} \/ made.complete
Judged == buildPc \in {"hashed", "accepted"}
Named  == Inputs(made.name) \cup Fingerprinted

(* What verify looks at last holds the contents the producer was made of,  *)
(* or the file was edited at a step that the property names.               *)
TreeInv ==
  /\ tree \in [AllSources -> SourceContents] /\ sourceEdits \in Nat
  /\ made = [name |-> made.name, text |-> made.text, object |-> made.object, library |-> made.library,
             frozen |-> made.frozen, complete |-> made.complete]
  /\ made.complete \in BOOLEAN
  /\ Began => made.name \in ProducerNames
  /\ buildPc \in {"idle", "generated", "frozen", "compiled", "linked"} => ~made.complete

TextInv ==
  /\ Began => /\ made.text \in [Texts(made.name) -> SourceContents]
              /\ sourceEdits = 0 => made.text = ContentsOf(Texts(made.name))
  /\ buildPc = "generated" => \A f \in Texts(made.name) : made.text[f] = tree[f] \/ EditedAt(f, {"generated"})

FrozenInv ==
  /\ Froze => /\ made.frozen \in [Named -> SourceContents]
              /\ \A f \in Texts(made.name) : made.text[f] = made.frozen[f] \/ EditedAt(f, {"generated"})
              /\ sourceEdits = 0 => made.frozen = Proof(made.name)
  /\ buildPc = "frozen" => \A f \in Named : made.frozen[f] = tree[f] \/ EditedAt(f, {"frozen"})

(* The files compiled were read between the hashing and now, and so was    *)
(* the library.                                                            *)
ObjectInv ==
  /\ buildPc \in {"compiled", "linked"} =>
       /\ made.object \in [Compiled(made.name) -> SourceContents]
       /\ \A f \in Compiled(made.name) :
            /\ made.object[f] = made.frozen[f] \/ EditedAt(f, {"frozen"})
            /\ made.object[f] = tree[f] \/ EditedAt(f, {"compiled", "linked"})
  /\ buildPc = "compiled" => made.frozen["native"] = tree["native"] \/ EditedAt("native", {"frozen", "compiled"})
  /\ buildPc = "linked" =>
       /\ made.library = made.frozen["native"] \/ EditedAt("native", {"frozen", "compiled"})
       /\ made.library = tree["native"] \/ EditedAt("native", {"linked"})

BuiltInv ==
  made.complete =>
    /\ made.object \in [Compiled(made.name) -> SourceContents]
    /\ \A f \in Compiled(made.name) :
         made.object[f] = made.frozen[f] \/ Unseen(f, {"frozen"}, {"compiled", "linked"})
    /\ made.library = made.frozen["native"] \/ Unseen("native", {"frozen", "compiled"}, {"linked"})

(* The sources that verify hashed are those of producer.json.              *)
SeenInv ==
  /\ Judged => made.complete /\ \A f \in Named : made.frozen[f] = seen[f]
  /\ buildPc = "hashed" => \A f \in AllSources : seen[f] = tree[f] \/ EditedAt(f, {"hashed"})
  /\ buildPc = "accepted" =>
       \A f \in Texts(made.name) : made.text[f] = seen[f] \/ Unseen(f, {"generated"}, {"hashed"})
  /\ buildPc = "refused" => ~made.complete \/ sourceEdits > 0

ProducerInv == TreeInv /\ TextInv /\ FrozenInv /\ ObjectInv /\ BuiltInv /\ SeenInv

(* Every file a producer depends on has contents, and is hashed.           *)
LEMMA SourcesKnown ==
    ASSUME NEW p \in ProducerNames
    PROVE  /\ Sources(p) \subseteq AllSources /\ Texts(p) \subseteq AllSources /\ Compiled(p) \subseteq AllSources
           /\ Inputs(p) \cup Fingerprinted \subseteq AllSources /\ "native" \in AllSources
           /\ Compiled(p) \subseteq Inputs(p) \cup Fingerprinted /\ Rechecked(p) \subseteq Inputs(p) \cup Fingerprinted
           /\ "native" \in Inputs(p) \cup Fingerprinted /\ Texts(p) \subseteq Inputs(p) \cup Fingerprinted
           /\ Compiled(p) \subseteq Rechecked(p) /\ "native" \in Rechecked(p)
  <1>1. Sources(p) \subseteq AllSources /\ Fingerprinted \subseteq AllSources
    BY DEF AllSources
  <1>2. Rechecked(p) \subseteq Inputs(p) \cup Fingerprinted
    BY DEF Rechecked
  <1>3. Compiled(p) \subseteq Rechecked(p) /\ "native" \in Rechecked(p) /\ Texts(p) \subseteq Inputs(p) \cup Fingerprinted
    BY CatalogCovers
  <1>4. Texts(p) \subseteq AllSources /\ Compiled(p) \subseteq AllSources /\ Inputs(p) \subseteq AllSources
        /\ "native" \in AllSources
    BY <1>1 DEF Sources
  <1>5. QED
    BY <1>1, <1>2, <1>3, <1>4

(* The contents of a set of sources.                                       *)
LEMMA ContentsTyped ==
    ASSUME TreeInv, NEW S, S \subseteq AllSources
    PROVE  ContentsOf(S) \in [S -> SourceContents] /\ \A f \in S : ContentsOf(S)[f] = tree[f]
  BY DEF TreeInv, ContentsOf

(* build: the texts are generated.                                         *)
LEMMA GenerateStep ==
    ASSUME ProducerInv, Generate
    PROVE  ProducerInv'
  <1>0. TreeInv
    BY DEF ProducerInv
  <1>1. PICK p \in ProducerNames : made' = [NoProducer EXCEPT !.name = p, !.text = ContentsOf(Texts(p))]
    BY DEF Generate
  <1>2. buildPc' = "generated" /\ UNCHANGED <<tree, seen, touched, sourceEdits>>
    BY DEF Generate
  <1>3. /\ made' = [name |-> made'.name, text |-> made'.text, object |-> made'.object, library |-> made'.library,
                    frozen |-> made'.frozen, complete |-> made'.complete]
        /\ made'.name = p /\ made'.text = ContentsOf(Texts(p)) /\ made'.complete = FALSE
    BY <1>1 DEF NoProducer
  <1>4. ContentsOf(Texts(p)) \in [Texts(p) -> SourceContents] /\ \A f \in Texts(p) : ContentsOf(Texts(p))[f] = tree[f]
    BY <1>0, SourcesKnown, ContentsTyped
  <1>5. TreeInv'
    BY <1>0, <1>2, <1>3 DEF TreeInv, Began
  <1>6. TextInv'
    BY <1>2, <1>3, <1>4 DEF TextInv, Began, ContentsOf
  <1>7. FrozenInv' /\ ObjectInv' /\ BuiltInv' /\ SeenInv'
    BY <1>2, <1>3 DEF FrozenInv, ObjectInv, BuiltInv, SeenInv, Froze, Judged
  <1>8. QED
    BY <1>5, <1>6, <1>7 DEF ProducerInv

(* build: the sources are hashed.                                          *)
LEMMA FreezeStep ==
    ASSUME ProducerInv, Freeze
    PROVE  ProducerInv'
  <1>0. TreeInv /\ TextInv
    BY DEF ProducerInv
  <1>1. /\ buildPc = "generated" /\ buildPc' = "frozen" /\ UNCHANGED <<tree, seen, touched, sourceEdits>>
        /\ made' = [made EXCEPT !.frozen = Proof(made.name)]
    BY DEF Freeze
  <1>2. made.name \in ProducerNames /\ ~made.complete
    BY <1>0, <1>1 DEF TreeInv, Began
  <1>3. /\ made' = [name |-> made'.name, text |-> made'.text, object |-> made'.object, library |-> made'.library,
                    frozen |-> made'.frozen, complete |-> made'.complete]
        /\ made'.name = made.name /\ made'.text = made.text /\ made'.complete = made.complete
        /\ made'.frozen = Proof(made.name)
    BY <1>0, <1>1 DEF TreeInv
  <1>4. Proof(made.name) \in [Named -> SourceContents] /\ \A f \in Named : Proof(made.name)[f] = tree[f]
    BY <1>0, <1>2, SourcesKnown, ContentsTyped DEF Proof, Named
  <1>5. TreeInv'
    BY <1>0, <1>1, <1>2, <1>3 DEF TreeInv, Began
  <1>6. TextInv'
    BY <1>0, <1>1, <1>3 DEF TextInv, Began, ContentsOf
  <1>7. FrozenInv'
    <2>1. Named' = Named /\ Proof(made.name)' = Proof(made.name)
      BY <1>1, <1>3 DEF Named, Proof, ContentsOf
    <2>2. Texts(made.name) \subseteq Named
      BY <1>2, SourcesKnown DEF Named
    <2>3. \A f \in Texts(made.name) : made.text[f] = tree[f] \/ EditedAt(f, {"generated"})
      BY <1>0, <1>1 DEF TextInv
    <2>4. QED
      BY <1>1, <1>3, <1>4, <2>1, <2>2, <2>3 DEF FrozenInv, Froze, EditedAt
  <1>8. ObjectInv' /\ BuiltInv' /\ SeenInv'
    BY <1>1, <1>2, <1>3 DEF ObjectInv, BuiltInv, SeenInv, Judged
  <1>9. QED
    BY <1>5, <1>6, <1>7, <1>8 DEF ProducerInv

(* build: the compiler reads its files, the linker the library.            *)
LEMMA CompileStep ==
    ASSUME ProducerInv, Compile \/ Link
    PROVE  ProducerInv'
  <1>0. TreeInv /\ TextInv /\ FrozenInv /\ ObjectInv
    BY DEF ProducerInv
  <1>1. /\ buildPc \in {"frozen", "compiled"} /\ buildPc' \in {"compiled", "linked"}
        /\ UNCHANGED <<tree, seen, touched, sourceEdits>>
    BY DEF Compile, Link
  <1>2. made.name \in ProducerNames /\ ~made.complete
    BY <1>0, <1>1 DEF TreeInv, Began
  <1>3. /\ made' = [name |-> made'.name, text |-> made'.text, object |-> made'.object, library |-> made'.library,
                    frozen |-> made'.frozen, complete |-> made'.complete]
        /\ made'.name = made.name /\ made'.text = made.text /\ made'.complete = made.complete
        /\ made'.frozen = made.frozen
    BY <1>0 DEF TreeInv, Compile, Link
  <1>4. TreeInv'
    BY <1>0, <1>1, <1>2, <1>3 DEF TreeInv, Began
  <1>5. TextInv'
    BY <1>0, <1>1, <1>3 DEF TextInv, Began, ContentsOf
  <1>6. Named' = Named /\ Proof(made.name)' = Proof(made.name)
    BY <1>1, <1>3 DEF Named, Proof, ContentsOf
  <1>7. FrozenInv'
    BY <1>0, <1>1, <1>3, <1>6 DEF FrozenInv, Froze, EditedAt
  <1>8. Compiled(made.name) \subseteq Named /\ "native" \in Named
    BY <1>2, SourcesKnown DEF Named
  <1>9. ObjectInv'
    <2>1. CASE Compile
      <3>1. buildPc = "frozen" /\ buildPc' = "compiled" /\ made'.object = ContentsOf(Compiled(made.name))
        BY <1>0, <2>1 DEF Compile, TreeInv
      <3>2. /\ ContentsOf(Compiled(made.name)) \in [Compiled(made.name) -> SourceContents]
            /\ \A f \in Compiled(made.name) : ContentsOf(Compiled(made.name))[f] = tree[f]
        BY <1>0, <1>2, SourcesKnown, ContentsTyped
      <3>3. \A f \in Named : made.frozen[f] = tree[f] \/ EditedAt(f, {"frozen"})
        BY <1>0, <3>1 DEF FrozenInv
      <3>4. QED
        BY <1>1, <1>3, <1>8, <3>1, <3>2, <3>3 DEF ObjectInv, EditedAt
    <2>2. CASE Link
      <3>1. buildPc = "compiled" /\ buildPc' = "linked" /\ made'.object = made.object /\ made'.library = tree["native"]
        BY <1>0, <2>2 DEF Link, TreeInv
      <3>2. QED
        BY <1>0, <1>1, <1>3, <3>1 DEF ObjectInv, EditedAt
    <2>3. QED
      BY <2>1, <2>2
  <1>10. BuiltInv' /\ SeenInv'
    BY <1>1, <1>2, <1>3 DEF BuiltInv, SeenInv, Judged
  <1>11. QED
    BY <1>4, <1>5, <1>7, <1>9, <1>10 DEF ProducerInv

(* build: the hashes are compared once more, or the build ends early.      *)
LEMMA RecheckStep ==
    ASSUME ProducerInv, Recheck \/ BuildStops
    PROVE  ProducerInv'
  <1>0. TreeInv /\ TextInv /\ FrozenInv /\ ObjectInv
    BY DEF ProducerInv
  <1>1. /\ buildPc \in {"generated", "frozen", "compiled", "linked"} /\ buildPc' \in {"built", "stopped"}
        /\ UNCHANGED <<tree, seen, touched, sourceEdits>>
    BY DEF Recheck, BuildStops
  <1>2. made.name \in ProducerNames /\ ~made.complete
    BY <1>0, <1>1 DEF TreeInv, Began
  <1>3. CASE made' = made
    <2>1. TreeInv' /\ TextInv'
      BY <1>0, <1>1, <1>2, <1>3 DEF TreeInv, TextInv, Began, ContentsOf
    <2>2. FrozenInv' /\ ObjectInv' /\ BuiltInv' /\ SeenInv'
      BY <1>1, <1>2, <1>3 DEF FrozenInv, ObjectInv, BuiltInv, SeenInv, Froze, Judged
    <2>3. QED
      BY <2>1, <2>2 DEF ProducerInv
  <1>4. CASE made' # made
    <2>1. /\ buildPc = "linked" /\ buildPc' = "built" /\ made' = [made EXCEPT !.complete = TRUE]
          /\ \A f \in Rechecked(made.name) : made.frozen[f] = tree[f]
      BY <1>4 DEF Recheck, BuildStops
    <2>2. /\ made' = [name |-> made'.name, text |-> made'.text, object |-> made'.object, library |-> made'.library,
                      frozen |-> made'.frozen, complete |-> made'.complete]
          /\ made'.name = made.name /\ made'.text = made.text /\ made'.complete = TRUE
          /\ made'.frozen = made.frozen /\ made'.object = made.object /\ made'.library = made.library
      BY <1>0, <2>1 DEF TreeInv
    <2>3. TreeInv'
      BY <1>0, <1>1, <1>2, <2>1, <2>2 DEF TreeInv, Began
    <2>4. TextInv'
      BY <1>0, <1>1, <2>1, <2>2 DEF TextInv, Began, ContentsOf
    <2>5. Named' = Named /\ Proof(made.name)' = Proof(made.name)
      BY <1>1, <2>2 DEF Named, Proof, ContentsOf
    <2>6. FrozenInv'
      BY <1>0, <1>1, <2>1, <2>2, <2>5 DEF FrozenInv, Froze, EditedAt
    <2>7. Compiled(made.name) \subseteq Rechecked(made.name) /\ "native" \in Rechecked(made.name)
      BY <1>2, SourcesKnown
    <2>8. /\ made.object \in [Compiled(made.name) -> SourceContents]
          /\ \A f \in Compiled(made.name) : /\ made.object[f] = made.frozen[f] \/ EditedAt(f, {"frozen"})
                                            /\ made.object[f] = tree[f] \/ EditedAt(f, {"compiled", "linked"})
          /\ made.library = made.frozen["native"] \/ EditedAt("native", {"frozen", "compiled"})
          /\ made.library = tree["native"] \/ EditedAt("native", {"linked"})
      BY <1>0, <2>1 DEF ObjectInv
    <2>9. /\ \A f \in Compiled(made.name) :
               made.object[f] = made.frozen[f] \/ Unseen(f, {"frozen"}, {"compiled", "linked"})
          /\ made.library = made.frozen["native"] \/ Unseen("native", {"frozen", "compiled"}, {"linked"})
      BY <2>1, <2>7, <2>8 DEF Unseen
    <2>10. BuiltInv'
      BY <1>1, <2>2, <2>8, <2>9 DEF BuiltInv, Unseen, EditedAt
    <2>11. ObjectInv' /\ SeenInv'
      BY <2>1 DEF ObjectInv, SeenInv, Judged
    <2>12. QED
      BY <2>3, <2>4, <2>6, <2>10, <2>11 DEF ProducerInv
  <1>5. QED
    BY <1>3, <1>4

(* verify: the sources are hashed again.                                   *)
LEMMA ProofStep ==
    ASSUME ProducerInv, VerifyProof
    PROVE  ProducerInv'
  <1>0. TreeInv /\ TextInv /\ FrozenInv /\ BuiltInv
    BY DEF ProducerInv
  <1>1. /\ buildPc \in {"built", "stopped"} /\ buildPc' \in {"hashed", "refused"}
        /\ UNCHANGED <<tree, made, touched, sourceEdits>> /\ seen' = tree
        /\ buildPc' = IF made.complete /\ made.frozen = Proof(made.name) THEN "hashed" ELSE "refused"
    BY DEF VerifyProof
  <1>2. made.name \in ProducerNames
    BY <1>0, <1>1 DEF TreeInv, Began
  <1>3. TreeInv' /\ TextInv'
    BY <1>0, <1>1, <1>2 DEF TreeInv, TextInv, Began, ContentsOf
  <1>4. FrozenInv' /\ ObjectInv' /\ BuiltInv'
    <2>1. Named' = Named /\ Proof(made.name)' = Proof(made.name)
      BY <1>1 DEF Named, Proof, ContentsOf
    <2>2. QED
      BY <1>0, <1>1, <2>1 DEF FrozenInv, ObjectInv, BuiltInv, Froze, EditedAt, Unseen
  <1>5. Named \subseteq AllSources /\ Named' = Named
    BY <1>1, <1>2, SourcesKnown DEF Named
  <1>6. CASE buildPc' = "hashed"
    <2>1. made.complete /\ made.frozen = Proof(made.name)
      BY <1>1, <1>6
    <2>2. \A f \in Named : Proof(made.name)[f] = tree[f]
      BY <1>0, <1>5, ContentsTyped DEF Proof, Named
    <2>3. SeenInv'
      BY <1>1, <1>5, <1>6, <2>1, <2>2 DEF SeenInv
    <2>4. QED
      BY <1>3, <1>4, <2>3 DEF ProducerInv
  <1>7. CASE buildPc' = "refused"
    <2>1. ~made.complete \/ made.frozen # Proof(made.name)
      BY <1>1, <1>7
    <2>2. made.complete /\ sourceEdits = 0 => made.frozen = Proof(made.name)
      BY <1>0 DEF FrozenInv, Froze
    <2>3. sourceEdits \in Nat
      BY <1>0 DEF TreeInv
    <2>4. SeenInv'
      BY <1>1, <1>7, <2>1, <2>2, <2>3 DEF SeenInv, Judged
    <2>5. QED
      BY <1>3, <1>4, <2>4 DEF ProducerInv
  <1>8. QED
    BY <1>1, <1>6, <1>7

(* verify: the texts are generated again, and compared.                    *)
LEMMA CopiesStep ==
    ASSUME ProducerInv, VerifyCopies
    PROVE  ProducerInv'
  <1>0. TreeInv /\ TextInv /\ FrozenInv /\ BuiltInv /\ SeenInv
    BY DEF ProducerInv
  <1>1. /\ buildPc = "hashed" /\ buildPc' \in {"accepted", "refused"} /\ UNCHANGED <<tree, made, touched, sourceEdits, seen>>
        /\ buildPc' = IF made.text = ContentsOf(Texts(made.name)) THEN "accepted" ELSE "refused"
    BY DEF VerifyCopies
  <1>2. made.name \in ProducerNames /\ made.complete
    BY <1>0, <1>1 DEF TreeInv, Began, SeenInv, Judged
  <1>3. TreeInv' /\ TextInv'
    BY <1>0, <1>1, <1>2 DEF TreeInv, TextInv, Began, ContentsOf
  <1>4. Named' = Named /\ Proof(made.name)' = Proof(made.name)
    BY <1>1 DEF Named, Proof, ContentsOf
  <1>5. FrozenInv' /\ ObjectInv' /\ BuiltInv'
    BY <1>0, <1>1, <1>4 DEF FrozenInv, ObjectInv, BuiltInv, Froze, EditedAt, Unseen
  <1>6. CASE buildPc' = "accepted"
    <2>1. made.text = ContentsOf(Texts(made.name)) /\ Texts(made.name) \subseteq AllSources /\ Texts(made.name) \subseteq Named
      BY <1>1, <1>2, <1>6, SourcesKnown DEF Named
    <2>2. ASSUME NEW f \in Texts(made.name)
          PROVE  made.text[f] = seen[f] \/ Unseen(f, {"generated"}, {"hashed"})
      <3>1. made.text[f] = tree[f]
        BY <1>0, <2>1, ContentsTyped
      <3>2. seen[f] = tree[f] \/ EditedAt(f, {"hashed"})
        BY <1>0, <1>1, <2>1 DEF SeenInv
      <3>3. made.text[f] = made.frozen[f] \/ EditedAt(f, {"generated"})
        BY <1>0, <1>2 DEF FrozenInv, Froze
      <3>4. made.frozen[f] = seen[f]
        BY <1>0, <1>1, <2>1 DEF SeenInv, Judged
      <3>5. QED
        BY <3>1, <3>2, <3>3, <3>4 DEF Unseen
    <2>3. SeenInv'
      BY <1>0, <1>1, <1>4, <1>6, <2>2 DEF SeenInv, Judged, Unseen, EditedAt
    <2>4. QED
      BY <1>3, <1>5, <2>3 DEF ProducerInv
  <1>7. CASE buildPc' = "refused"
    <2>1. made.text # ContentsOf(Texts(made.name))
      BY <1>1, <1>7
    <2>2. sourceEdits = 0 => made.text = ContentsOf(Texts(made.name))
      BY <1>0, <1>1 DEF TextInv, Began
    <2>3. sourceEdits \in Nat
      BY <1>0 DEF TreeInv
    <2>4. SeenInv'
      BY <1>1, <1>7, <2>1, <2>2, <2>3 DEF SeenInv, Judged
    <2>5. QED
      BY <1>3, <1>5, <2>4 DEF ProducerInv
  <1>8. QED
    BY <1>1, <1>6, <1>7

(* A source is edited while the producer is made or verified.              *)
LEMMA SourceEditStep ==
    ASSUME ProducerInv, SourceEdit
    PROVE  ProducerInv'
  <1>0. TreeInv /\ TextInv /\ FrozenInv /\ ObjectInv /\ BuiltInv /\ SeenInv
    BY DEF ProducerInv
  <1>1. UNCHANGED <<made, buildPc, seen>> /\ sourceEdits' = sourceEdits + 1 /\ Began
        /\ buildPc \notin {"accepted", "refused"}
    BY DEF SourceEdit, Began
  <1>2. sourceEdits' \in Nat /\ sourceEdits' # 0 /\ sourceEdits' > 0
    BY <1>0, <1>1 DEF TreeInv
  <1>3. PICK g \in Sources(made.name) \cup Fingerprinted : \E c \in SourceContents \ {tree[g]} :
          tree' = [tree EXCEPT ![g] = c] /\ touched' = touched \cup {<<g, buildPc>>}
    BY DEF SourceEdit
  <1>4. tree \in [AllSources -> SourceContents] /\ tree' \in [AllSources -> SourceContents]
        /\ touched' = touched \cup {<<g, buildPc>>} /\ \A f \in AllSources : tree'[f] = tree[f] \/ f = g
    <2>1. tree \in [AllSources -> SourceContents] /\ made.name \in ProducerNames
      BY <1>0, <1>1 DEF TreeInv
    <2>2. g \in AllSources
      BY <2>1, SourcesKnown
    <2>3. QED
      BY <1>3, <2>1, <2>2
  <1>5. \A f, S : /\ EditedAt(f, S) => EditedAt(f, S)'
                  /\ f \in AllSources /\ buildPc \in S => tree'[f] = tree[f] \/ EditedAt(f, S)'
    BY <1>4 DEF EditedAt
  <1>6. /\ Texts(made.name) \subseteq AllSources /\ Compiled(made.name) \subseteq AllSources
        /\ Named \subseteq AllSources /\ "native" \in AllSources
    BY <1>0, <1>1, SourcesKnown DEF TreeInv, Named
  <1>7. TreeInv'
    BY <1>0, <1>1, <1>2, <1>4 DEF TreeInv, Began
  <1>8. TextInv'
    BY <1>0, <1>1, <1>2, <1>5, <1>6 DEF TextInv, Began
  <1>9. Froze' = Froze /\ Judged' = Judged /\ Named' = Named
    BY <1>1 DEF Froze, Judged, Named
  <1>10. FrozenInv'
    BY <1>0, <1>1, <1>2, <1>5, <1>6, <1>9 DEF FrozenInv
  <1>11. ObjectInv'
    BY <1>0, <1>1, <1>5, <1>6 DEF ObjectInv
  <1>12. BuiltInv'
    BY <1>0, <1>1, <1>5 DEF BuiltInv, Unseen
  <1>13. SeenInv'
    BY <1>0, <1>1, <1>5, <1>9 DEF SeenInv
  <1>14. QED
    BY <1>7, <1>8, <1>10, <1>11, <1>12, <1>13 DEF ProducerInv

(* A producer that verify accepts was made, in its texts, its objects and  *)
(* its library, of the sources verify hashed, except for a file edited     *)
(* twice between two looks at it; and one of sources nobody touched is not *)
(* refused (the build scripts).                                            *)
THEOREM ProducerCorrect == ProducersSpec => []ProducerFaithful
  <1>1. ProducersInit => ProducerInv
    <2> SUFFICES ASSUME ProducersInit PROVE ProducerInv
      OBVIOUS
    <2>1. tree \in [AllSources -> SourceContents] /\ made = NoProducer /\ buildPc = "idle" /\ sourceEdits = 0
      BY ProducersAssumption DEF ProducersInit
    <2>2. TreeInv
      BY <2>1 DEF TreeInv, NoProducer, Began
    <2>3. made.complete = FALSE
      BY <2>1 DEF NoProducer
    <2>4. TextInv /\ FrozenInv /\ ObjectInv /\ BuiltInv /\ SeenInv
      BY <2>1, <2>3 DEF TextInv, FrozenInv, ObjectInv, BuiltInv, SeenInv, Began, Froze, Judged
    <2>5. QED
      BY <2>2, <2>4 DEF ProducerInv
  <1>2. ProducerInv /\ [ProducersNext]_producerVars => ProducerInv'
    <2> SUFFICES ASSUME ProducerInv, [ProducersNext]_producerVars PROVE ProducerInv'
      OBVIOUS
    <2>1. CASE UNCHANGED producerVars
      BY <2>1 DEF producerVars, ProducerInv, TreeInv, TextInv, FrozenInv, ObjectInv, BuiltInv, SeenInv, Began, Froze,
                  Judged, Named, Proof, ContentsOf, EditedAt, Unseen
    <2>2. QED
      BY <2>1, GenerateStep, FreezeStep, CompileStep, RecheckStep, ProofStep, CopiesStep, SourceEditStep DEF ProducersNext
  <1>3. ProducerInv => ProducerFaithful
    <2> SUFFICES ASSUME ProducerInv PROVE ProducerFaithful
      OBVIOUS
    <2>1. CASE buildPc = "accepted"
      <3>1. /\ made.complete /\ made.name \in ProducerNames /\ \A f \in Named : made.frozen[f] = seen[f]
            /\ made.text \in [Texts(made.name) -> SourceContents]
        BY <2>1 DEF ProducerInv, SeenInv, Judged, TreeInv, TextInv, Began
      <3>2. Compiled(made.name) \subseteq Named /\ "native" \in Named
        BY <3>1, SourcesKnown DEF Named
      <3>3. \A f \in DOMAIN made.text : made.text[f] = seen[f] \/ Unseen(f, {"generated"}, {"hashed"})
        BY <2>1, <3>1 DEF ProducerInv, SeenInv
      <3>4. /\ \A f \in DOMAIN made.object :
                 made.object[f] = made.frozen[f] \/ Unseen(f, {"frozen"}, {"compiled", "linked"})
            /\ made.library = made.frozen["native"] \/ Unseen("native", {"frozen", "compiled"}, {"linked"})
            /\ DOMAIN made.object = Compiled(made.name)
        BY <3>1 DEF ProducerInv, BuiltInv
      <3>5. QED
        BY <2>1, <3>1, <3>2, <3>3, <3>4 DEF ProducerFaithful
    <2>2. CASE buildPc # "accepted"
      BY <2>2 DEF ProducerFaithful, ProducerInv, SeenInv
    <2>3. QED
      BY <2>1, <2>2
  <1>4. QED
    BY <1>1, <1>2, <1>3, PTL DEF ProducersSpec
=============================================================================
