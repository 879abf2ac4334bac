--------------------------- MODULE MixedPayloads ---------------------------
(***************************************************************************)
(* verify_mixed_payloads.py: both checkpoints are verified, fingerprinted, *)
(* compared tensor by tensor and fingerprinted again; the result carries   *)
(* the verification receipts.  One file stands for the tensors it holds.   *)
(***************************************************************************)
EXTENDS Checkpoint

ASSUME CompareAssumption == {"q4", "mixed"} \subseteq Locks

VARIABLES
  marks,      \* the fingerprints taken before the comparison
  reads,      \* the pairs of payloads read so far
  compared    \* the published result

compareVars == <<marks, reads, compared>>

NoPair == <<"none", "none">>
NoReads == [f \in Files |-> NoPair]
NoResult == [complete |-> FALSE, read |-> NoReads]
Fingerprints == [d \in Locks |-> [f \in Files |-> disk[d][f].stamp]]
NoMarks == [d \in Locks |-> [f \in Files |-> 0]]

Compare ==
  /\ \E rehash \in BOOLEAN : Begin("compare", "stat", "q4", "q4", ~rehash)
  /\ UNCHANGED compareVars

\* Fingerprints, headers and layouts; a file gone by now, or other layouts, end the run.
CompareBegin ==
  /\ At("fingerprint")
  /\ \/ /\ \A d \in Locks, f \in Files : RightSize(disk[d][f].content)
        /\ marks' = Fingerprints /\ reads' = NoReads
        /\ Goto("tensor")
     \/ /\ \E d \in Locks, f \in Files : disk[d][f].content \notin Locks
        /\ Abandon /\ UNCHANGED <<marks, reads>>
  /\ UNCHANGED <<disk, receipt, clock, edits, started, compared>>

CompareTensor ==
  /\ At("tensor") /\ job.at \in Files
  /\ LET pair == <<disk["q4"][job.at].content, disk["mixed"][job.at].content>>
     IN IF \A i \in 1..2 : RightSize(pair[i])
        THEN reads' = [reads EXCEPT ![job.at] = pair] /\ job' = NextFile("tensor")
        ELSE Abandon /\ UNCHANGED reads
  /\ UNCHANGED <<disk, receipt, clock, edits, started, marks, compared>>

NoMarksTaken == marks # NoMarks
SameMarks == Fingerprints = marks

\* The result is written whether or not the payloads agree.
CompareEnd ==
  /\ At("tensor") /\ job.at = NFiles + 1
  /\ compared' = IF SameMarks THEN [complete |-> TRUE, read |-> reads] ELSE compared
  /\ Abandon
  /\ UNCHANGED <<disk, receipt, clock, edits, started, marks, reads>>

CompareNext == Compare \/ CompareBegin \/ CompareTensor \/ CompareEnd
CompareInit == marks = NoMarks /\ reads = NoReads /\ compared = NoResult

---------------------------------------------------------------------------

\* A published comparison speaks of one state of the files: nothing it read was
\* replaced between its first and its last fingerprint.
ComparisonOfOneState ==
  [][compared' # compared
       => \A f \in Files : compared'.read[f] = <<disk["q4"][f].content, disk["mixed"][f].content>>]_<<checkpointVars, compareVars>>

\* The script's header promises that the verification receipts bind each source
\* to its pin: what was compared is what the two locks pin.
ComparedIsPinned ==
  compared.complete => \A f \in Files : compared.read[f] = <<"q4", "mixed">>
=============================================================================
