---------------------------- MODULE QueueLemmas ----------------------------
(***************************************************************************)
(* What the queues of the read pool and the waiting list of the expert     *)
(* pipeline keep: the set of elements of a sequence without repetitions    *)
(* when one is appended, taken from the front or erased from the middle.   *)
(***************************************************************************)
EXTENDS Naturals, Sequences, SequencesExt, FiniteSetTheorems, SequenceTheorems, TLAPS

(* Taking an element out of a queue, as promote() does.                    *)
LEMMA RemoveAtLen ==
    ASSUME NEW S, NEW s \in Seq(S), NEW i \in DOMAIN s
    PROVE  RemoveAt(s, i) \in Seq(S) /\ Len(RemoveAt(s, i)) = Len(s) - 1
  BY DEF RemoveAt

(* Appending a read to a queue adds it to the queue's set.                 *)
LEMMA AppendRange ==
    ASSUME NEW S, NEW s \in Seq(S), NEW t \in S
    PROVE  /\ Range(Append(s, t)) = Range(s) \cup {t}
           /\ IsInjective(s) /\ t \notin Range(s) => IsInjective(Append(s, t))
  <1>1. /\ DOMAIN Append(s, t) = DOMAIN s \cup {Len(s) + 1}
        /\ \A i \in DOMAIN s : Append(s, t)[i] = s[i]
        /\ Append(s, t)[Len(s) + 1] = t
    OBVIOUS
  <1>2. QED
    BY <1>1 DEF Range, IsInjective

(* Taking the head of a queue takes that read, and only it, out of its set.*)
LEMMA TailRange ==
    ASSUME NEW S, NEW s \in Seq(S), s # <<>>, IsInjective(s)
    PROVE  /\ Head(s) \in Range(s)
           /\ Range(Tail(s)) = Range(s) \ {Head(s)}
           /\ IsInjective(Tail(s))
  <1>1. /\ Len(s) \in Nat /\ Len(s) >= 1 /\ DOMAIN s = 1 .. Len(s) /\ Head(s) = s[1]
        /\ DOMAIN Tail(s) = 1 .. Len(s) - 1
        /\ \A i \in 1 .. Len(s) - 1 : Tail(s)[i] = s[i + 1]
    OBVIOUS
  <1>2. \A i \in 1 .. Len(s) : i = 1 \/ (i - 1 \in 1 .. Len(s) - 1 /\ Tail(s)[i - 1] = s[i])
    BY <1>1
  <1>3. \A i, j \in 1 .. Len(s) : s[i] = s[j] => i = j
    BY <1>1 DEF IsInjective
  <1>4. IsInjective(Tail(s))
    <2>1. SUFFICES ASSUME NEW i \in 1 .. Len(s) - 1, NEW j \in 1 .. Len(s) - 1,
                          Tail(s)[i] = Tail(s)[j]
                   PROVE  i = j
      BY <1>1 DEF IsInjective
    <2>2. i + 1 \in 1 .. Len(s) /\ j + 1 \in 1 .. Len(s) /\ s[i + 1] = s[j + 1]
      BY <1>1, <2>1
    <2>3. QED
      BY <1>3, <2>2
  <1>5. Range(Tail(s)) = Range(s) \ {Head(s)}
    <2>1. ASSUME NEW x \in Range(Tail(s)) PROVE x \in Range(s) /\ x # Head(s)
      <3>1. PICK i \in 1 .. Len(s) - 1 : x = Tail(s)[i]
        BY <1>1 DEF Range
      <3>2. i + 1 \in 1 .. Len(s) /\ x = s[i + 1] /\ 1 \in 1 .. Len(s) /\ i + 1 # 1
        BY <1>1, <3>1
      <3>3. QED
        BY <1>1, <1>3, <3>2 DEF Range
    <2>2. ASSUME NEW x \in Range(s), x # Head(s) PROVE x \in Range(Tail(s))
      <3>1. PICK i \in 1 .. Len(s) : x = s[i]
        BY <1>1 DEF Range
      <3>2. QED
        BY <1>1, <1>2, <2>2, <3>1 DEF Range
    <2>3. QED
      BY <2>1, <2>2
  <1>6. Head(s) \in Range(s)
    <2>1. 1 \in 1 .. Len(s)
      BY <1>1
    <2>2. QED
      BY <1>1, <2>1 DEF Range
  <1>7. QED
    BY <1>4, <1>5, <1>6

(* So does promote() with a read in the middle of the queue.               *)
LEMMA RemoveAtRange ==
    ASSUME NEW S, NEW s \in Seq(S), NEW i \in DOMAIN s, IsInjective(s)
    PROVE  /\ Range(RemoveAt(s, i)) = Range(s) \ {s[i]}
           /\ IsInjective(RemoveAt(s, i))
  <1> DEFINE r == RemoveAt(s, i)
  <1>1. /\ Len(s) \in Nat /\ i \in 1 .. Len(s) /\ DOMAIN s = 1 .. Len(s)
        /\ DOMAIN r = 1 .. Len(s) - 1
        /\ \A j \in 1 .. Len(s) - 1 : r[j] = IF j < i THEN s[j] ELSE s[j + 1]
    <2>1. /\ Len(s) \in Nat /\ i \in 1 .. Len(s) /\ DOMAIN s = 1 .. Len(s)
          /\ s \in [1 .. Len(s) -> S]
      OBVIOUS
    <2> DEFINE a == SubSeq(s, 1, i - 1)
               b == SubSeq(s, i + 1, Len(s))
    <2>2. /\ a \in Seq(S) /\ Len(a) = i - 1
          /\ \A j \in 1 .. i - 1 : a[j] = s[j]
      BY <2>1
    <2>3. /\ b \in Seq(S) /\ Len(b) = Len(s) - i
          /\ \A j \in 1 .. Len(s) - i : b[j] = s[(i + 1) + j - 1]
      BY <2>1
    <2>4. r = a \o b
      BY DEF RemoveAt
    <2> HIDE DEF a, b, r
    <2>5. /\ Len(r) = Len(s) - 1 /\ r \in Seq(S)
          /\ \A j \in 1 .. Len(s) - 1 : r[j] = IF j <= i - 1 THEN a[j] ELSE b[j - (i - 1)]
      <3>1. Len(r) = Len(a) + Len(b) /\ r \in Seq(S)
        BY <2>2, <2>3, <2>4
      <3>2. \A j \in 1 .. Len(a) + Len(b) : r[j] = IF j <= Len(a) THEN a[j] ELSE b[j - Len(a)]
        BY <2>2, <2>3, <2>4, ConcatProperties
      <3>3. Len(a) + Len(b) = Len(s) - 1
        BY <2>1, <2>2, <2>3
      <3>4. QED
        BY <2>2, <3>1, <3>2, <3>3
    <2>6. DOMAIN r = 1 .. Len(s) - 1
      BY <2>1, <2>5
    <2>7. ASSUME NEW j \in 1 .. Len(s) - 1
          PROVE  r[j] = IF j < i THEN s[j] ELSE s[j + 1]
      <3>1. CASE j < i
        BY <2>1, <2>2, <2>5, <3>1
      <3>2. CASE j >= i
        <4>1. j - (i - 1) \in 1 .. Len(s) - i /\ (i + 1) + (j - (i - 1)) - 1 = j + 1
          BY <2>1, <3>2
        <4>2. r[j] = b[j - (i - 1)]
          BY <2>1, <2>5, <3>2
        <4>3. b[j - (i - 1)] = s[(i + 1) + (j - (i - 1)) - 1]
          BY <2>3, <4>1
        <4>4. ~(j < i)
          BY <2>1, <3>2
        <4>5. QED
          BY <4>1, <4>2, <4>3, <4>4
      <3>3. QED
        BY <2>1, <3>1, <3>2
    <2>8. QED
      BY <2>1, <2>6, <2>7
  <1>2. \A j \in 1 .. Len(s) :
          \/ j = i
          \/ j < i /\ j \in 1 .. Len(s) - 1 /\ r[j] = s[j]
          \/ j > i /\ j - 1 \in 1 .. Len(s) - 1 /\ r[j - 1] = s[j]
    BY <1>1
  <1>3. \A j, k \in 1 .. Len(s) : s[j] = s[k] => j = k
    BY <1>1 DEF IsInjective
  <1>4. \A j \in 1 .. Len(s) - 1 : \E k \in 1 .. Len(s) :
          /\ k # i /\ r[j] = s[k]
          /\ k = IF j < i THEN j ELSE j + 1
    BY <1>1
  <1> HIDE DEF r
  <1>5. IsInjective(r)
    BY <1>1, <1>3 DEF IsInjective
  <1>6. Range(r) = Range(s) \ {s[i]}
    <2>1. ASSUME NEW x \in Range(r) PROVE x \in Range(s) /\ x # s[i]
      <3>1. PICK j \in 1 .. Len(s) - 1 : x = r[j]
        BY <1>1 DEF Range
      <3>2. QED
        BY <1>1, <1>3, <1>4, <3>1 DEF Range
    <2>2. ASSUME NEW x \in Range(s), x # s[i] PROVE x \in Range(r)
      <3>1. PICK j \in 1 .. Len(s) : x = s[j]
        BY <1>1 DEF Range
      <3>2. QED
        BY <1>1, <1>2, <2>2, <3>1 DEF Range
    <2>3. QED
      BY <2>1, <2>2
  <1>7. QED
    BY <1>5, <1>6 DEF r

(* A queue's set is no larger than the queue.                              *)
LEMMA RangeSize ==
    ASSUME NEW S, NEW s \in Seq(S)
    PROVE  /\ IsFiniteSet(Range(s)) /\ Cardinality(Range(s)) \in Nat
           /\ Cardinality(Range(s)) <= Len(s)
  <1>1. Len(s) \in Nat /\ DOMAIN s = 1 .. Len(s)
    OBVIOUS
  <1>2. IsFiniteSet(1 .. Len(s)) /\ Cardinality(1 .. Len(s)) = Len(s)
    BY <1>1, FS_Interval
  <1>3. s \in Surjection(1 .. Len(s), Range(s))
    BY <1>1 DEF Surjection, Range
  <1>4. QED
    BY <1>2, <1>3, FS_Surjection, FS_CardinalityType
=============================================================================
