----------------------------- MODULE Checkpoint -----------------------------
(***************************************************************************)
(* Pinned checkpoint directories on disk: the verification receipt of      *)
(* verify_checkpoint.py and the guarded download of download.py.  A script *)
(* runs one file operation at a time, may die between any two of them, and *)
(* the files may be edited by somebody else at any moment.                 *)
(*                                                                         *)
(* A file is its content and a stamp.  The stamp stands for the fingerprint*)
(* (size, device, inode, times): every write gives a new one.  A content   *)
(* is named by the lock it is pinned by; "altered" has the pinned size and *)
(* "short" has not.  A digest is the content it was taken of.              *)
(***************************************************************************)
EXTENDS Naturals, FiniteSets

CONSTANTS NFiles,     \* required files of a lock, in its order
          Locks,      \* the pinned revisions, each with a directory of its own
          MaxEdits,   \* edits by somebody else
          MaxRuns     \* scripts started

ASSUME CheckpointAssumption ==
    /\ {NFiles, MaxEdits, MaxRuns} \subseteq Nat
    /\ Locks \cap {"altered", "short", "absent", "none"} = {}

VARIABLES
  disk,      \* the files of each directory
  receipt,   \* its zerocool-verification.json
  clock,     \* the next stamp
  job,       \* the script at work
  edits, started

checkpointVars == <<disk, receipt, clock, job, edits, started>>

Files == 1..NFiles
Contents == Locks \cup {"altered", "short"}
File(c, s) == [content |-> c, stamp |-> s]
Absent == File("absent", 0)
NoReceipt == [revision |-> "none", files |-> [f \in Files |-> Absent]]
RightSize(c) == c \notin {"absent", "short"}

\* The state of a running script: which file it is at, what it noted of that
\* file, the receipt it is building and the fingerprints it took on its way.
NoJob == [script |-> "none", pc |-> "none", dir |-> "none", lock |-> "none", cached |-> FALSE,
          at |-> 1, before |-> 0, sha |-> "none", new |-> [f \in Files |-> Absent],
          seen |-> [f \in Files |-> 0], proven |-> [f \in Files |-> 0], opened |-> [f \in Files |-> "none"]]
Job(script, pc, d, l, cached) ==
  [NoJob EXCEPT !.script = script, !.pc = pc, !.dir = d, !.lock = l, !.cached = cached]

At(pc) == job.pc = pc
Current == disk[job.dir][job.at]
Goto(pc) == job' = [job EXCEPT !.pc = pc]
NextFile(pc) == [job EXCEPT !.pc = pc, !.at = job.at + 1]
\* An error, and the death of the script, leave the files as they are.
Abandon == job' = NoJob

---------------------------------------------------------------------------
(* verify                                                                  *)

Begin(script, pc, d, l, cached) ==
  /\ job = NoJob /\ started < MaxRuns
  /\ started' = started + 1
  /\ job' = Job(script, pc, d, l, cached)
  /\ UNCHANGED <<disk, receipt, clock, edits>>

VerifyStat ==
  /\ At("stat") /\ job.at \in Files
  /\ IF RightSize(Current.content)
     THEN job' = [job EXCEPT !.pc = "digest", !.before = Current.stamp]
     ELSE Abandon
  /\ UNCHANGED <<disk, receipt, clock, edits, started>>

\* An unchanged file of a receipt of the same revision is not read again.
Remembered ==
  /\ job.cached /\ receipt[job.dir].revision = job.lock
  /\ receipt[job.dir].files[job.at] = File(job.lock, job.before)

VerifyDigest ==
  /\ At("digest")
  /\ IF Remembered THEN job' = [job EXCEPT !.pc = "restat", !.sha = job.lock]
     ELSE IF Current = Absent THEN Abandon
     ELSE job' = [job EXCEPT !.pc = "restat", !.sha = Current.content]
  /\ UNCHANGED <<disk, receipt, clock, edits, started>>

\* The digest was of a file that is still the one noted before it.
Undisturbed == job.sha = job.lock /\ Current.stamp = job.before

VerifyFingerprintLate ==
  /\ At("restat")
  /\ IF job.sha = job.lock
     THEN job' = [NextFile("stat") EXCEPT !.new[job.at] = File(job.sha, Current.stamp)]
     ELSE Abandon
  /\ UNCHANGED <<disk, receipt, clock, edits, started>>
VerifyRestat ==
  /\ At("restat")
  /\ IF Undisturbed
     THEN job' = [NextFile("stat") EXCEPT !.new[job.at] = File(job.sha, job.before)]
     ELSE Abandon
  /\ UNCHANGED <<disk, receipt, clock, edits, started>>

\* The script goes on with what it wanted the verification for.
Verified ==
  CASE job.script \in {"verify", "download"} -> NoJob
    [] job.script \in {"prepare", "audit"} ->
         [job EXCEPT !.pc = "open", !.at = 1, !.proven = [f \in Files |-> job.new[f].stamp]]
    [] job.script = "compare" /\ job.dir = "q4" -> Job("compare", "stat", "mixed", "mixed", job.cached)
    [] OTHER -> [job EXCEPT !.pc = "fingerprint", !.at = 1]

VerifyPublish ==
  /\ At("stat") /\ job.at = NFiles + 1
  /\ receipt' = [receipt EXCEPT ![job.dir] = [revision |-> job.lock, files |-> job.new]]
  /\ job' = Verified
  /\ UNCHANGED <<disk, clock, edits, started>>

---------------------------------------------------------------------------
(* download                                                                *)

\* Nothing of another artifact may be replaced: its receipt is refused, an
\* existing file must have the pinned size, and be vouched for or be hashed.
PreflightStat ==
  /\ At("preflight") /\ job.at \in Files
  /\ LET held == receipt[job.dir]
         noted == [job EXCEPT !.seen[job.at] = Current.stamp, !.before = Current.stamp]
     IN CASE held.revision \notin {"none", job.lock} -> Abandon
          [] held.revision \in {"none", job.lock} /\ Current = Absent -> job' = NextFile("preflight")
          [] held.revision \in {"none", job.lock} /\ Current # Absent ->
               IF ~RightSize(Current.content) THEN Abandon
               ELSE IF held.files[job.at] = File(job.lock, Current.stamp)
               THEN job' = [noted EXCEPT !.at = job.at + 1]
               ELSE job' = [noted EXCEPT !.pc = "rehash"]
  /\ UNCHANGED <<disk, receipt, clock, edits, started>>

PreflightTrustsSize ==
  /\ At("rehash")
  /\ job' = NextFile("preflight")
  /\ UNCHANGED <<disk, receipt, clock, edits, started>>
PreflightHash ==
  /\ At("rehash")
  /\ IF Current.content = job.lock /\ Current.stamp = job.before
     THEN job' = NextFile("preflight")
     ELSE Abandon
  /\ UNCHANGED <<disk, receipt, clock, edits, started>>

PreflightSpace ==
  /\ At("preflight") /\ job.at = NFiles + 1
  /\ \/ Abandon
     \/ job' = [job EXCEPT !.pc = "fetch", !.at = 1]
  /\ UNCHANGED <<disk, receipt, clock, edits, started>>

\* huggingface_hub.snapshot_download: a file that is not the pinned one is fetched.
SnapshotDownload ==
  /\ At("fetch") /\ job.at \in Files
  /\ \/ /\ Current.content = job.lock
        /\ job' = NextFile("fetch")
        /\ UNCHANGED <<disk, clock>>
     \/ /\ Current.content # job.lock
        /\ disk' = [disk EXCEPT ![job.dir][job.at] = File(job.lock, clock)]
        /\ clock' = clock + 1
        /\ job' = NextFile("fetch")
  /\ UNCHANGED <<receipt, edits, started>>

DownloadVerify ==
  /\ At("fetch") /\ job.at = NFiles + 1
  /\ job' = [job EXCEPT !.pc = "stat", !.at = 1]
  /\ UNCHANGED <<disk, receipt, clock, edits, started>>

---------------------------------------------------------------------------
(* The world around the scripts.                                           *)

Die ==
  /\ job # NoJob
  /\ Abandon
  /\ UNCHANGED <<disk, receipt, clock, edits, started>>

Edit ==
  /\ edits < MaxEdits /\ edits' = edits + 1
  /\ \E d \in Locks, f \in Files : \E c \in {d, "altered", "short", "absent"} \ {disk[d][f].content} :
       disk' = [disk EXCEPT ![d][f] = IF c = "absent" THEN Absent ELSE File(c, clock)]
  /\ clock' = clock + 1
  /\ UNCHANGED <<receipt, job, started>>

Verify == \E d, l \in Locks, c \in BOOLEAN : Begin("verify", "stat", d, l, c)
Download == \E d, l \in Locks : Begin("download", "preflight", d, l, FALSE)

CheckpointNext ==
  \/ Verify \/ VerifyStat \/ VerifyDigest \/ VerifyRestat \/ VerifyPublish
  \/ Download \/ PreflightStat \/ PreflightHash \/ PreflightSpace \/ SnapshotDownload \/ DownloadVerify
  \/ Die \/ Edit

\* A directory holds its pinned files, or the first of them only; no receipt yet.
CheckpointInit ==
  /\ \E part \in {{1}, Files} :
       disk = [d \in Locks |-> [f \in Files |-> IF f \in part THEN File(d, 1) ELSE Absent]]
  /\ receipt = [d \in Locks |-> NoReceipt]
  /\ clock = 2 /\ job = NoJob /\ edits = 0 /\ started = 0

---------------------------------------------------------------------------

\* verify_checkpoint promises a local integrity cache: whatever edits, deaths and
\* cached runs came before, a receipt entry whose fingerprint still fits the file
\* on disk speaks of exactly the bytes the lock pins.
ReceiptTruthful ==
  \A d \in Locks, f \in Files :
    LET entry == receipt[d].files[f]
    IN entry # Absent /\ entry.stamp = disk[d][f].stamp
         => entry.content = receipt[d].revision /\ disk[d][f].content = entry.content

\* download.py fetches without replacing another recipe: a file the preflight
\* found in the directory is overwritten only when somebody changed it since.
DownloadKeepsFound ==
  [][\A d \in Locks, f \in Files :
       disk'[d][f] # disk[d][f] /\ job' # job /\ disk[d][f] # Absent
         => job.seen[f] # disk[d][f].stamp]_checkpointVars
=============================================================================
