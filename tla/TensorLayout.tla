---------------------------- MODULE TensorLayout ----------------------------
(***************************************************************************)
(* Byte layouts the artifact scripts compute: the safetensors header check *)
(* of inspect_mixed.py, and the dense file of prepare_mtp.py, whose size   *)
(* and offsets are computed three times (the plan, the writer, the audit). *)
(***************************************************************************)
EXTENDS Integers, SequencesExt

CONSTANTS Align,        \* allocation granularity
          Group,        \* elements per quantization group
          MaxPayload,   \* bytes of a shard's payload
          MaxTensors,   \* tensors of a header, or of a dense file
          Elements      \* element counts of a dense tensor

ASSUME LayoutAssumption ==
    /\ {Align, Group} \subseteq Nat \ {0} /\ {MaxPayload, MaxTensors} \subseteq Nat
    /\ Elements \subseteq Nat \ {0} /\ \A n \in Elements : n % Group = 0

VARIABLES
  ranges,    \* data_offsets of a header's tensors, in its order
  extent,    \* bytes of the shard after the header
  accepted,  \* what read_header says
  dense,     \* the tensors of a dense file: precision and elements
  layout     \* what plan, writer and audit compute

layoutVars == <<ranges, extent, accepted, dense, layout>>

---------------------------------------------------------------------------
(* read_header                                                             *)

ValidRange(r, total) == 0 <= r[1] /\ r[1] < r[2] /\ r[2] <= total
Before(a, b) == a[1] < b[1] \/ (a[1] = b[1] /\ a[2] < b[2])

\* Each range must begin where the one before it ended; -1 is the error.
ExtendOverlapping(at, r) == IF at >= r[1] THEN r[2] ELSE -1
Extend(at, r) == IF at = r[1] THEN r[2] ELSE -1
ReadHeader(s, total) ==
  /\ \A i \in DOMAIN s : ValidRange(s[i], total)
  /\ FoldLeft(Extend, 0, SortSeq(s, Before)) = total

Inspect ==
  /\ accepted = "unread"
  /\ accepted' = IF ReadHeader(ranges, extent) THEN "yes" ELSE "no"
  /\ UNCHANGED <<ranges, extent, dense, layout>>

---------------------------------------------------------------------------
(* The dense file                                                          *)

Aligned(n) == ((n + Align - 1) \div Align) * Align

\* The parts of a tensor: BF16 as it is, or 8-bit codes with scales and biases.
PartSizes(t) ==
  IF t.precision = "BF16" THEN <<2 * t.elements>>
  ELSE <<t.elements, (t.elements \div Group) * 2, (t.elements \div Group) * 2>>
Sizes(ts) == FoldLeft(LAMBDA s, t : s \o PartSizes(t), <<>>, ts)

\* allocation_plan: the cursor is aligned before every part and at the end.
PlanUnaligned(sizes) == FoldLeft(LAMBDA at, size : Aligned(at) + size, 0, sizes)
Plan(sizes) == Aligned(FoldLeft(LAMBDA at, size : Aligned(at) + size, 0, sizes))

\* reserve: each part goes to the aligned end of the file, which grows by it;
\* at the end the file is truncated to the plan.
Reserve(file, size) ==
  LET offset == Aligned(file.end)
  IN [end |-> offset + size, offsets |-> Append(file.offsets, offset)]
Written(sizes) == FoldLeft(Reserve, [end |-> 0, offsets |-> <<>>], sizes)

\* validate_dense_layout: the canonical offsets and the file's size.
Canonical(sizes) ==
  LET Place(s, size) == [cursor |-> Aligned(s.cursor) + size, at |-> Append(s.at, Aligned(s.cursor))]
      end == FoldLeft(Place, [cursor |-> 0, at |-> <<>>], sizes)
  IN [bytes |-> Aligned(end.cursor), at |-> end.at]

\* The intervals verify accepts: aligned, inside the file and disjoint.
IntervalsValid(offsets, sizes, bytes) ==
  LET sorted == SortSeq([i \in DOMAIN sizes |-> <<offsets[i], offsets[i] + sizes[i]>>], Before)
  IN /\ \A i \in DOMAIN sorted : sorted[i][1] % Align = 0 /\ sorted[i][2] <= bytes
     /\ \A i \in 1 .. Len(sorted) - 1 : sorted[i][2] <= sorted[i + 1][1]

PrepareDense ==
  /\ layout = "none"
  /\ LET sizes == Sizes(dense)
         offsets == Written(sizes).offsets
         bytes == Plan(sizes)
     IN layout' = IF /\ Canonical(sizes) = [bytes |-> bytes, at |-> offsets]
                     /\ Written(sizes).end <= bytes
                     /\ IntervalsValid(offsets, sizes, bytes)
                  THEN "audited" ELSE "refused"
  /\ UNCHANGED <<ranges, extent, accepted, dense>>

LayoutNext == Inspect \/ PrepareDense
LayoutInit ==
  \/ /\ extent \in 0 .. MaxPayload
     /\ ranges \in BoundedSeq((0 .. extent + 1) \X (0 .. extent + 1), MaxTensors)
     /\ accepted = "unread" /\ dense = <<>> /\ layout = "idle"
  \/ /\ dense \in BoundedSeq([precision : {"BF16", "affine-Q8"}, elements : Elements], MaxTensors)
     /\ layout = "none" /\ ranges = <<>> /\ extent = 0 /\ accepted = "idle"

---------------------------------------------------------------------------

\* A header is accepted exactly when every byte of the payload belongs to one
\* tensor and to one only, in whatever order the header lists them.
HeaderTilesPayload ==
  accepted \in {"yes", "no"} =>
    (accepted = "yes" <=>
       /\ \A i \in DOMAIN ranges : ranges[i][1] < ranges[i][2] /\ ranges[i][2] <= extent
       /\ \A b \in 0 .. extent - 1 :
            \E i \in DOMAIN ranges : /\ ranges[i][1] <= b /\ b < ranges[i][2]
                                     /\ \A j \in DOMAIN ranges \ {i} : b < ranges[j][1] \/ ranges[j][2] <= b)

\* The planner, the writer and the audit of the dense file agree on its size and
\* on every offset, so a sidecar that was written can be audited.
LayoutsAgree == layout # "refused"
=============================================================================
