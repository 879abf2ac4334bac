------------------------------ MODULE Timeline ------------------------------
(***************************************************************************)
(* decode_timeline.py and submission_timeline.py: every nanosecond of a    *)
(* decoded token is put into one bucket by a sweep over the endpoints of   *)
(* command and expert intervals, and the time in which a command waited    *)
(* for an idle GPU is split again by the driver's timestamps.              *)
(*                                                                         *)
(* The two do not read the same.  The buckets are of all command groups of *)
(* the run, with the GPU's clock cut to whole nanoseconds; the split is of *)
(* the groups with an operation at the token's offset, in whichever run,   *)
(* with the clocks as they are.  A capture in which the two differ by more *)
(* than a tolerance is refused.                                            *)
(***************************************************************************)
EXTENDS Integers, Sequences, FiniteSets, SequencesExt, FiniteSetsExt
CONSTANTS Horizon,    \* clock readings are 0 .. Horizon nanoseconds
          PerNs,      \* readings of the GPU's clock in a nanosecond
          Tolerance,  \* abs_tol of the comparison, 100 ns, in those readings
          MaxGroups   \* command groups of one capture
ASSUME TimelineAssumption == {Horizon, PerNs} \subseteq Nat \ {0} /\ {Tolerance, MaxGroups} \subseteq Nat

VARIABLES token,    \* [begin, end] of the forward
          groups,   \* command groups
          records,  \* expert uses
          report    \* what the analysis returned, or <<>>
timelineVars == <<token, groups, records, report>>

Clock == 0 .. Horizon
Fine == 0 .. PerNs * Horizon
ns(value) == value \div PerNs
Idle == <<"gpu_idle_submitted", "gpu_idle_ready_expert", "gpu_idle_pending_read", "gpu_idle_callback">>
Buckets == <<"gpu_active">> \o Idle   \* in order of precedence; the rest is gpu_idle_other
Other == "gpu_idle_other"

(* A group works on this token, on other tokens of the run only ("run"),   *)
(* or on the same offset in another run ("elsewhere").  A group that works *)
(* on two runs is refused.                                                 *)
Scopes == {"token", "run", "elsewhere"}
OfRun(gs) == SelectSeq(gs, LAMBDA g : g.scope \in {"token", "run"})
OfOffset(gs) == SelectSeq(gs, LAMBDA g : g.scope \in {"token", "elsewhere"})

(* Command groups with consistent clocks.  The driver's is never cut to    *)
(* nanoseconds, only compared, and is in nanoseconds here.                 *)
Groups == {g \in [scope : Scopes, submitted : Clock, driverStart : Clock, driverEnd : Clock,
                  start : Fine, end : Fine, completed : Clock] :
              /\ PerNs * g.submitted <= g.start /\ g.start <= g.end /\ g.end <= PerNs * g.completed
              /\ g.submitted <= g.driverStart /\ g.driverStart <= g.driverEnd
              /\ g.driverEnd <= g.completed}

(* Expert uses admitted, ready and then submitted with a group of the run, *)
(* inside the token; a hit is ready when it is admitted.                   *)
Uses(gs, t) ==
    {r \in [admitted : Clock, ready : Clock, submitted : {g.submitted : g \in ToSet(OfRun(gs))},
            acquisition : {"ready_hit", "new_miss"}] :
        /\ t.begin <= r.admitted /\ r.admitted <= r.ready /\ r.ready <= r.submitted /\ r.submitted <= t.end
        /\ r.acquisition = "ready_hit" => r.ready = r.admitted}

(* Groups in the order of their submissions, no two at one time.           *)
Captures == {gs \in UNION {[1 .. n -> Groups] : n \in 0 .. MaxGroups} :
                \A i, j \in DOMAIN gs : i < j => gs[i].submitted < gs[j].submitted}

TimelineInit ==
    /\ token \in {t \in [begin : Clock, end : Clock] : t.begin < t.end}
    /\ groups = <<>> /\ records = <<>> /\ report = <<>>
-----------------------------------------------------------------------------
(* sorted: the readings of a set, in ascending order.                      *)
Sorted(cuts) == SelectSeq([i \in 1 .. PerNs * Horizon + 1 |-> i - 1], LAMBDA t : t \in cuts)

Interval(kind, from, to) == [kind |-> kind, from |-> from, to |-> to]

GroupIntervals(g) ==
    <<Interval("gpu_active", ns(g.start), ns(g.end)), Interval("gpu_idle_submitted", g.submitted, ns(g.start)),
      Interval("gpu_idle_callback", ns(g.end), g.completed)>>

ExpertIntervals(r) ==
    (IF r.acquisition = "ready_hit" THEN <<>>
     ELSE <<Interval("gpu_idle_pending_read", r.admitted, r.ready)>>)
    \o <<Interval("gpu_idle_ready_expert", r.ready, r.submitted)>>

AllIntervals(gs, rs) == FlattenSeq([i \in DOMAIN gs |-> GroupIntervals(gs[i])])
                        \o FlattenSeq([i \in DOMAIN rs |-> ExpertIntervals(rs[i])])

Clipped(intervals) ==
    SelectSeq([i \in DOMAIN intervals |->
                  [intervals[i] EXCEPT !.from = Max({token.begin, @}), !.to = Min({token.end, @})]],
              LAMBDA v : v.from < v.to)

(* The bucket open between two cuts: the first kind with an active         *)
(* interval.                                                               *)
Open(active) ==
    LET held == {i \in DOMAIN Buckets : active[Buckets[i]] > 0}
    IN  IF held = {} THEN Other ELSE Buckets[Min(held)]

(* partition: a sweep over the sorted cuts.                                *)
Partition(intervals) ==
    LET clipped == Clipped(intervals)
        cuts == Sorted({token.begin, token.end} \cup {v.from : v \in ToSet(clipped)}
                       \cup {v.to : v \in ToSet(clipped)})
        Change(kind, at) ==
            Cardinality({i \in DOMAIN clipped : clipped[i].kind = kind /\ clipped[i].from = at})
            - Cardinality({i \in DOMAIN clipped : clipped[i].kind = kind /\ clipped[i].to = at})
        Sweep(s, at) ==
            [active |-> [k \in DOMAIN s.active |-> s.active[k] + Change(k, at)],
             totals |-> [s.totals EXCEPT ![Open(s.active)] = @ + (at - s.previous)],
             previous |-> at]
        After[i \in 0 .. Len(cuts)] ==
            IF i = 0 THEN [active |-> [k \in ToSet(Buckets) |-> 0],
                           totals |-> [k \in ToSet(Buckets) \cup {Other} |-> 0], previous |-> token.begin]
                     ELSE Sweep(After[i - 1], cuts[i])
    IN  After[Len(cuts)].totals

(* Mutant of Waiting: the group submitted last is taken.                   *)
WaitingLast(pending) == CHOOSE g \in pending : \A h \in pending : g.submitted >= h.submitted

(* Of the groups waiting for the GPU, the one that executes next.          *)
Waiting(pending) == CHOOSE g \in pending : \A h \in pending : g.submitted <= h.submitted

(* split: by the midpoint of every pair of cuts (twice the midpoint here). *)
Split(gs) ==
    LET all == ToSet(gs)
        begin == PerNs * token.begin
        end == PerNs * token.end
        Inside(x) == Min({end, Max({begin, x})})
        Clocks(g) == {PerNs * x : x \in {g.submitted, g.driverStart, g.driverEnd, g.completed}} \cup {g.start, g.end}
        cuts == Sorted({begin, end} \cup {Inside(x) : x \in UNION {Clocks(g) : g \in all}})
        Add(totals, i) ==
            LET mid == cuts[i] + cuts[i + 1]
                busy == \E g \in all : 2 * g.start <= mid /\ mid < 2 * g.end
                pending == {g \in all : 2 * PerNs * g.submitted <= mid /\ mid < 2 * g.start}
                key == IF mid < 2 * PerNs * Waiting(pending).driverStart THEN "before_driver"
                       ELSE IF mid < 2 * PerNs * Waiting(pending).driverEnd THEN "in_driver" ELSE "after_driver"
            IN  IF busy \/ pending = {} THEN totals
                ELSE [totals EXCEPT ![key] = @ + (cuts[i + 1] - cuts[i])]
        After[i \in 0 .. Len(cuts) - 1] ==
            IF i = 0 THEN [k \in {"before_driver", "in_driver", "after_driver"} |-> 0] ELSE Add(After[i - 1], i)
    IN  After[Len(cuts) - 1]

(* How far the split is from the bucket.                                   *)
Difference(buckets, split) ==
    split["before_driver"] + split["in_driver"] + split["after_driver"] - PerNs * buckets["gpu_idle_submitted"]

(* A capture of the token is read and analysed.                            *)
Analyze ==
    /\ report = <<>>
    /\ \E gs \in Captures : \E rs \in {<<>>} \cup {<<r>> : r \in Uses(gs, token)} :
          LET buckets == Partition(AllIntervals(OfRun(gs), rs))
              split == Split(OfOffset(gs))
          IN  /\ groups' = gs /\ records' = rs
              /\ report' = <<[buckets |-> buckets, split |-> split,
                              refused |-> Difference(buckets, split) \notin -Tolerance .. Tolerance]>>
    /\ UNCHANGED token

TimelineSpec == TimelineInit /\ [][Analyze]_timelineVars
-----------------------------------------------------------------------------
(* Properties *)

(* The bucket of the instant after t: the first kind, in order of          *)
(* precedence, of the intervals that cover it.                             *)
BucketAt(intervals, t) ==
    LET kinds == {v.kind : v \in {w \in intervals : w.from <= t /\ t < w.to}}
        held == {i \in DOMAIN Buckets : Buckets[i] \in kinds}
    IN  IF held = {} THEN Other ELSE Buckets[Min(held)]

(* The sweep gives every instant to the first kind in order of precedence  *)
(* that covers it, overlapping intervals counted once and clipped to the   *)
(* token: the buckets partition the token's time.                          *)
BucketsPartition ==
    report # <<>> =>
        LET all == ToSet(AllIntervals(OfRun(groups), records))
        IN  \A k \in ToSet(Buckets) \cup {Other} :
                report[1].buckets[k]
                = Cardinality({t \in token.begin .. token.end - 1 : BucketAt(all, t) = k})

(* The driver split gives every reading of the clock in which no group of  *)
(* the offset runs and one waits to the first submitted of those waiting:  *)
(* the part after the driver is that group's, whatever the later ones do.  *)
SplitFollowsQueue ==
    report # <<>> =>
        LET own == OfOffset(groups)
            Waits(g, t) == PerNs * g.submitted <= t /\ t < g.start
            Idled == {t \in PerNs * token.begin .. PerNs * token.end - 1 :
                          /\ \E g \in ToSet(own) : Waits(g, t)
                          /\ ~\E g \in ToSet(own) : g.start <= t /\ t < g.end}
            First(t) == own[Min({i \in DOMAIN own : Waits(own[i], t)})]
            After == {t \in Idled : PerNs * First(t).driverEnd <= t}
        IN  /\ report[1].split["after_driver"] = Cardinality(After)
            /\ report[1].split["before_driver"] + report[1].split["in_driver"] = Cardinality(Idled \ After)

(* submission_timeline.analyze refuses a capture whose driver split does   *)
(* not add up to the idle bucket of decode_timeline.  It does add up where *)
(* only the token's own groups are open in its time, but for less than a   *)
(* nanosecond per group, which cutting the clocks costs: such a capture is *)
(* refused only if its groups are too many for the tolerance.              *)
IdleSplitReconciles ==
    report # <<>> =>
        LET near == {g \in ToSet(groups) : g.submitted < token.end /\ g.completed > token.begin}
            cut == (PerNs - 1) * Cardinality(near)
        IN  (\A g \in near : g.scope = "token") =>
                /\ Difference(report[1].buckets, report[1].split) \in -cut .. cut
                /\ cut <= Tolerance => ~report[1].refused

(* decode_timeline gives every nanosecond of a token to one bucket,        *)
(* submission_timeline splits the idle ones by the queue, and the two      *)
(* agree wherever they look at the same groups.                            *)
TimelinesReconcile == BucketsPartition /\ SplitFollowsQueue /\ IdleSplitReconciles
=============================================================================
