---------------------------- MODULE MetricsProofs ----------------------------
(***************************************************************************)
(* The counters and what a scrape shows of them, proved for any number of  *)
(* work-horses, bounds and latencies and any faults.  What is said of sums *)
(* rests on the lemmas of FiniteLemmas.                                    *)
(***************************************************************************)
EXTENDS Metrics, FiniteLemmas, SequenceTheorems, TLAPS

-----------------------------------------------------------------------------
(* The types of what a scrape reads.                                       *)

ReadableOK ==
    /\ total \in Nat /\ count \in Nat /\ sum \in Nat /\ gpu \in 0..100
    /\ bucket \in [Buckets -> Nat]
    /\ latency \in [Workers -> Latencies \cup {0}]

LEMMA LatencyType ==
  ASSUME NEW l \in Latencies \cup {0}
  PROVE  l \in Nat
  BY ValuesAssumption

LEMMA StepReadable == ReadableOK /\ [Next]_vars => ReadableOK'
<1> SUFFICES ASSUME ReadableOK, [Next]_vars PROVE ReadableOK'
  OBVIOUS
<1> USE ValuesAssumption DEF ReadableOK, counters, writers
<1>0. /\ total \in Nat /\ count \in Nat /\ sum \in Nat /\ gpu \in 0..100
      /\ bucket \in [Buckets -> Nat]
      /\ latency \in [Workers -> Latencies \cup {0}]
  OBVIOUS
<1>1. CASE UNCHANGED vars
  BY <1>1 DEF vars
<1>2. ASSUME NEW w \in Workers, WriterStep(w) PROVE ReadableOK'
  <2>1. ASSUME NEW l \in Latencies, Begin(w, l) PROVE ReadableOK'
    BY <2>1 DEF Begin
  <2>2. CASE AddTotal(w) \/ AddCount(w) \/ RecordRaises(w) \/ Kill(w)
    BY <2>2 DEF AddTotal, AddCount, RecordRaises, Kill
  <2>3. CASE AddSum(w)
    <3>1. latency[w] \in Latencies \cup {0}
      BY <1>0
    <3>2. latency[w] \in Nat
      BY <3>1, LatencyType
    <3>3. sum + latency[w] \in Nat
      BY <1>0, <3>2
    <3> QED
      BY <1>0, <2>3, <3>3 DEF AddSum
  <2>4. CASE AddBucket(w)
    <3> DEFINE b == Label(latency[w])
    <3>1. /\ bucket' = [bucket EXCEPT ![b] = @ + 1]
          /\ UNCHANGED <<total, count, sum, gpu, latency>>
      BY <2>4 DEF AddBucket
    <3> HIDE DEF b
    <3>2. bucket' \in [Buckets -> Nat]
      <4>1. CASE b \in Buckets
        <5>1. bucket[b] + 1 \in Nat
          BY <1>0, <4>1
        <5> QED
          BY <1>0, <3>1, <5>1
      <4>2. CASE b \notin Buckets
        BY <1>0, <3>1, <4>2
      <4> QED
        BY <4>1, <4>2
    <3> QED
      BY <1>0, <3>1, <3>2
  <2>5. CASE SetGpu(w)
    <3>1. \A v \in Readings : Clamp(v) \in 0..100
      BY DEF Clamp
    <3> QED
      BY <2>5, <3>1 DEF SetGpu
  <2> QED
    BY <1>2, <2>1, <2>2, <2>3, <2>4, <2>5 DEF WriterStep
<1>3. CASE Start \/ Get \/ GetRaises \/ Yield
  BY <1>3 DEF Start, Get, GetRaises, Yield
<1> QED
  BY <1>1, <1>2, <1>3 DEF Next

-----------------------------------------------------------------------------
(* The scrape.  While it runs the list holds the buckets read so far.      *)

\* Bounds 1, 2, ... in order, with counts that never fall.
Rising(list) ==
    /\ \A i \in DOMAIN list : list[i][1] = i
    /\ \A i, k \in DOMAIN list : i < k => list[i][2] <= list[k][2]

BucketsRead == IF at <= FirstBucket THEN 0 ELSE at - FirstBucket

Zeros == [i \in Buckets |-> <<i, 0>>]

ScrapeInv ==
    /\ at \in Reads \cup {Idle, Complete} /\ failedAt \in Reads \cup {0}
    /\ shown \in Samples
    /\ at = Idle => shown.buckets = <<>>
    /\ at # Complete => failedAt = 0
    /\ failedAt = 0 => Len(shown.buckets) = BucketsRead /\ Rising(shown.buckets)
    /\ failedAt \in 1..FirstBucket => shown.buckets = Zeros

LEMMA InfType == Inf \in Nat /\ Inf > 0 /\ Reads = 1..(4 + Inf) /\ Complete = 5 + Inf
<1>1. Len(Bounds) \in Nat
  BY BoundsAssumption
<1> QED
  BY <1>1 DEF Inf, Reads, Complete, FirstBucket

LEMMA EntryType ==
  ASSUME NEW list \in Seq(Buckets \X Nat), NEW i \in 1..Len(list)
  PROVE  list[i][1] \in Buckets /\ list[i][2] \in Nat
<1>1. list[i] \in Buckets \X Nat
  OBVIOUS
<1> QED
  BY <1>1

LEMMA WithBuckets ==
  ASSUME NEW s \in Samples, NEW list \in Seq(Buckets \X Nat)
  PROVE  [s EXCEPT !.buckets = list] \in Samples
         /\ [s EXCEPT !.buckets = list].buckets = list
  BY DEF Samples

LEMMA LessOrMore ==
  ASSUME NEW a \in Nat, NEW b \in Nat, NEW n \in Nat, a <= b
  PROVE  a <= b + n
  OBVIOUS

\* The list stays in order when the next bucket's count is added to the last.
LEMMA NextBucket ==
  ASSUME NEW list \in Seq(Buckets \X Nat), Rising(list), Len(list) + 1 \in Buckets,
         NEW n \in Nat, NEW c \in Nat,
         c = (IF Len(list) = 0 THEN 0 ELSE list[Len(list)][2]) + n
  PROVE  /\ Append(list, <<Len(list) + 1, c>>) \in Seq(Buckets \X Nat)
         /\ Rising(Append(list, <<Len(list) + 1, c>>))
<1> DEFINE k == Len(list) + 1
           more == Append(list, <<k, c>>)
<1>1. /\ more \in Seq(Buckets \X Nat) /\ DOMAIN more = 1..k /\ more[k] = <<k, c>>
      /\ \A i \in 1..Len(list) : more[i] = list[i]
  OBVIOUS
<1>2. \A i \in 1..Len(list) : list[i][2] \in Nat
  BY EntryType
<1>3. \A i \in 1..Len(list) : list[i][2] <= c
  <2> SUFFICES ASSUME NEW i \in 1..Len(list) PROVE list[i][2] <= c
    OBVIOUS
  <2>1. Len(list) \in 1..Len(list) /\ DOMAIN list = 1..Len(list)
    OBVIOUS
  <2>2. list[i][2] <= list[Len(list)][2]
    <3>1. CASE i = Len(list)
      BY <1>2, <3>1
    <3>2. CASE i < Len(list)
      BY <2>1, <3>2 DEF Rising
    <3> QED
      <4>1. i = Len(list) \/ i < Len(list)
        OBVIOUS
      <4> QED
        BY <3>1, <3>2, <4>1
  <2>3. c = list[Len(list)][2] + n
    BY <2>1
  <2> QED
    <3>1. list[i][2] \in Nat /\ list[Len(list)][2] \in Nat
      BY <1>2, <2>1
    <3> QED
      BY <2>2, <2>3, <3>1, LessOrMore
<1>4. \A i \in DOMAIN more : more[i][1] = i
  BY <1>1 DEF Rising
<1>5. ASSUME NEW i \in DOMAIN more, NEW j \in DOMAIN more, i < j
      PROVE  more[i][2] <= more[j][2]
  <2>1. CASE j = k
    BY <1>1, <1>3, <1>5, <2>1
  <2>2. CASE j # k
    BY <1>1, <1>5, <2>2 DEF Rising
  <2> QED
    BY <2>1, <2>2
<1> QED
  BY <1>1, <1>4, <1>5 DEF Rising

\* The read of a bucket appends its count, added to the last.
LEMMA GetBucket ==
  ASSUME ReadableOK, ScrapeInv, Get, at >= FirstBucket
  PROVE  LET i == at - FirstBucket + 1
         IN  /\ Len(shown.buckets) + 1 = i /\ i \in Buckets
             /\ shown' = [shown EXCEPT !.buckets = Append(@, <<i, Below(i) + bucket[i]>>)]
             /\ Below(i) = IF Len(shown.buckets) = 0 THEN 0
                           ELSE shown.buckets[Len(shown.buckets)][2]
             /\ Below(i) \in Nat
<1> USE InfType DEF FirstBucket, Idle
<1> DEFINE i == at - FirstBucket + 1
           c == Below(i) + bucket[i]
<1>1. /\ at \in Reads /\ failedAt = 0 /\ Len(shown.buckets) = BucketsRead
      /\ shown.buckets \in Seq(Buckets \X Nat)
  BY DEF Get, ScrapeInv, Samples
<1>2. Len(shown.buckets) + 1 = i /\ i \in Buckets
  BY <1>1 DEF BucketsRead, Buckets
<1>3. shown' = [shown EXCEPT !.buckets = Append(@, <<i, c>>)]
  <2>1. at \notin 1..4 /\ at = i + 4
    BY <1>1
  <2>2. Read(at) = [shown EXCEPT !.buckets = Append(@, Cumulated(i))]
    BY <2>1 DEF Read
  <2> QED
    BY <2>2 DEF Get, Cumulated
<1>4. /\ Len(shown.buckets) \in Nat /\ i - 1 = Len(shown.buckets)
      /\ i = 1 <=> Len(shown.buckets) = 0
  BY <1>1, <1>2
<1>5. Below(i) = IF Len(shown.buckets) = 0 THEN 0 ELSE shown.buckets[Len(shown.buckets)][2]
  <2> HIDE DEF i
  <2> QED
    BY <1>4 DEF Below
<1>6. Len(shown.buckets) # 0 => shown.buckets[Len(shown.buckets)][2] \in Nat
  <2> HIDE DEF i
  <2> QED
    BY <1>1, <1>4, EntryType
<1>7. Below(i) \in Nat
  BY <1>5, <1>6
<1> QED
  BY <1>2, <1>3, <1>5, <1>7

LEMMA StepScrape == ReadableOK /\ ScrapeInv /\ [Next]_vars => ScrapeInv'
<1> SUFFICES ASSUME ReadableOK, ScrapeInv, [Next]_vars PROVE ScrapeInv'
  OBVIOUS
<1> USE InfType DEF FirstBucket, Idle
<1>0. shown \in Samples /\ shown.buckets \in Seq(Buckets \X Nat)
  BY DEF ScrapeInv, Samples
<1>1. CASE UNCHANGED scrape
  BY <1>1 DEF scrape, ScrapeInv, BucketsRead, Rising
<1>2. ASSUME NEW w \in Workers, WriterStep(w) PROVE UNCHANGED scrape
  BY <1>2 DEF WriterStep, Begin, AddTotal, AddCount, AddSum, AddBucket, SetGpu,
     RecordRaises, Kill, At
<1>3. CASE Start
  BY <1>3 DEF Start, ScrapeInv, BucketsRead, Rising
<1>4. CASE Get
  <2>1. /\ at \in Reads /\ at' = at + 1 /\ failedAt' = 0 /\ failedAt = 0
        /\ Len(shown.buckets) = BucketsRead /\ Rising(shown.buckets)
    BY <1>4 DEF Get, ScrapeInv
  <2>2. CASE at < FirstBucket
    <3>1. shown' \in Samples /\ shown'.buckets = shown.buckets
      <4>1. at \in 1..4
        BY <2>1, <2>2
      <4>2. shown' \in {shown, [shown EXCEPT !.total = total],
                        [shown EXCEPT !.gpu = gpu], [shown EXCEPT !.sum = sum]}
        BY <1>4, <4>1 DEF Get, Read
      <4>3. total \in Nat /\ gpu \in Nat /\ sum \in Nat
        BY DEF ReadableOK
      <4> QED
        BY <1>0, <4>2, <4>3 DEF Samples
    <3> QED
      BY <2>1, <2>2, <3>1 DEF ScrapeInv, BucketsRead
  <2>3. CASE at >= FirstBucket
    <3> DEFINE i == at - FirstBucket + 1
               c == Below(i) + bucket[i]
    <3>1. Len(shown.buckets) + 1 = i /\ i \in Buckets
      BY <1>4, <2>3, GetBucket
    <3>2. shown' = [shown EXCEPT !.buckets = Append(@, <<i, c>>)]
      BY <1>4, <2>3, GetBucket
    <3>3. /\ Below(i) = IF Len(shown.buckets) = 0 THEN 0
                        ELSE shown.buckets[Len(shown.buckets)][2]
          /\ Below(i) \in Nat
      BY <1>4, <2>3, GetBucket
    <3>4. bucket[i] \in Nat /\ c \in Nat
      BY <3>1, <3>3 DEF ReadableOK
    <3> HIDE DEF i, c
    <3>5. /\ Append(shown.buckets, <<i, c>>) \in Seq(Buckets \X Nat)
          /\ Rising(Append(shown.buckets, <<i, c>>))
      BY <1>0, <2>1, <3>1, <3>3, <3>4, NextBucket DEF c
    <3>6. /\ shown' \in Samples /\ Rising(shown'.buckets)
          /\ Len(shown'.buckets) = Len(shown.buckets) + 1
      <4>1. Len(Append(shown.buckets, <<i, c>>)) = Len(shown.buckets) + 1
        BY <1>0
      <4> QED
        BY <1>0, <3>2, <3>5, <4>1, WithBuckets
    <3> QED
      BY <2>1, <2>3, <3>6 DEF ScrapeInv, BucketsRead
  <2> QED
    BY <2>1, <2>2, <2>3
<1>5. CASE GetRaises
  <2>1. /\ at \in Reads /\ at' = Complete /\ failedAt' = at
        /\ shown' = [shown EXCEPT !.buckets = @ \o Zeros]
        /\ failedAt = 0 /\ Len(shown.buckets) = BucketsRead
    BY <1>5 DEF GetRaises, ScrapeInv, Zeros
  <2>2. Zeros \in Seq(Buckets \X Nat)
    BY DEF Zeros, Buckets
  <2>3. shown' \in Samples /\ shown'.buckets = shown.buckets \o Zeros
    <3>1. shown.buckets \o Zeros \in Seq(Buckets \X Nat)
      BY <1>0, <2>2
    <3> QED
      BY <1>0, <2>1, <3>1, WithBuckets
  <2>4. at \in 1..FirstBucket => shown'.buckets = Zeros
    <3>1. at \in 1..FirstBucket => Len(shown.buckets) = 0
      BY <2>1 DEF BucketsRead
    <3>2. Len(shown.buckets) = 0 => shown.buckets \o Zeros = Zeros
      BY <1>0, <2>2, EmptySeq, ConcatEmptySeq
    <3> QED
      BY <2>3, <3>1, <3>2
  <2> QED
    BY <2>1, <2>3, <2>4 DEF ScrapeInv
<1>6. CASE Yield
  BY <1>6 DEF Yield, None, ScrapeInv, Samples, BucketsRead, Rising
<1>7. CASE UNCHANGED vars
  BY <1>1, <1>7 DEF vars, scrape
<1> QED
  BY <1>1, <1>2, <1>3, <1>4, <1>5, <1>6, <1>7 DEF Next

-----------------------------------------------------------------------------
(* The work-horses, and the types of their part of the state.              *)

WritersOK ==
    /\ pc \in [Workers -> Steps] /\ begun \in 0..MaxEvents
    /\ recorded \in [Latencies -> Nat]
    /\ \A w \in Workers : pc[w] # "idle" => latency[w] \in Latencies

LEMMA StepWriters == ReadableOK /\ WritersOK /\ [Next]_vars => WritersOK'
<1> SUFFICES ASSUME ReadableOK, WritersOK, [Next]_vars PROVE WritersOK'
  OBVIOUS
<1> USE DEF counters, writers
<1>0. /\ pc \in [Workers -> Steps] /\ begun \in 0..MaxEvents /\ recorded \in [Latencies -> Nat]
      /\ latency \in [Workers -> Latencies \cup {0}] /\ MaxEvents \in Nat
      /\ \A w \in Workers : pc[w] # "idle" => latency[w] \in Latencies
  BY ValuesAssumption DEF WritersOK, ReadableOK
<1>1. CASE UNCHANGED <<pc, latency, begun, recorded>>
  BY <1>0, <1>1 DEF WritersOK
<1>2. ASSUME NEW w \in Workers, WriterStep(w) PROVE WritersOK'
  <2>1. ASSUME NEW l \in Latencies, Begin(w, l) PROVE WritersOK'
    BY <1>0, <2>1 DEF Begin, Goto, At, WritersOK, Steps
  <2>2. CASE AddTotal(w) \/ AddCount(w) \/ AddSum(w) \/ SetGpu(w) \/ RecordRaises(w) \/ Kill(w)
    <3>1. UNCHANGED <<latency, begun, recorded>> /\ pc[w] \in Steps
      BY <1>0, <2>2 DEF AddTotal, AddCount, AddSum, SetGpu, RecordRaises, Kill
    <3>2. PICK s \in Steps : pc' = [pc EXCEPT ![w] = s] /\ (pc[w] = "idle" => s = "idle")
      BY <2>2 DEF AddTotal, AddCount, AddSum, SetGpu, RecordRaises, Kill, Goto, At,
         AfterError, Steps
    <3> QED
      BY <1>0, <3>1, <3>2 DEF WritersOK
  <2>3. CASE AddBucket(w)
    <3>1. /\ pc[w] = "bucket" /\ pc' = [pc EXCEPT ![w] = "gpu"]
          /\ recorded' = [recorded EXCEPT ![latency[w]] = @ + 1]
          /\ UNCHANGED <<latency, begun>>
      BY <2>3 DEF AddBucket, At, Goto
    <3>2. latency[w] \in Latencies /\ recorded[latency[w]] \in Nat
      BY <1>0, <3>1
    <3>3. recorded' \in [Latencies -> Nat]
      BY <1>0, <3>1, <3>2
    <3> QED
      BY <1>0, <3>1, <3>3 DEF WritersOK, Steps
  <2> QED
    BY <1>2, <2>1, <2>2, <2>3 DEF WriterStep
<1>3. CASE Start \/ Get \/ GetRaises \/ Yield
  BY <1>1, <1>3 DEF Start, Get, GetRaises, Yield
<1> QED
  BY <1>1, <1>2, <1>3 DEF Next, vars

-----------------------------------------------------------------------------
(* The counters are nested: a latency that was counted and has no bucket   *)
(* entry yet is owed one, by a work-horse on its way to it, and an event   *)
(* in the total is owed a latency.  An error or a kill forgives the debt.  *)

Among(f, Q) == {w \in Workers : f[w] \in Q}

NestedInv ==
    /\ SumFunction(bucket) + Cardinality(Among(pc, {"sum", "bucket"})) <= count
    /\ count + Cardinality(Among(pc, {"count"})) <= total

SameBut(f, g, w) == \A v \in Workers : v # w => g[v] = f[v]

\* Moving one work-horse moves the number of those at some steps.
LEMMA AmongMoved ==
  ASSUME NEW f, NEW g, NEW w \in Workers, NEW Q, SameBut(f, g, w)
  PROVE  /\ Cardinality(Among(f, Q)) \in Nat
         /\ Cardinality(Among(g, Q)) =
              Cardinality(Among(f, Q)) - (IF f[w] \in Q THEN 1 ELSE 0)
                                       + (IF g[w] \in Q THEN 1 ELSE 0)
<1> DEFINE A == Among(f, Q)
           B == Among(g, Q)
<1>1. IsFiniteSet(A) /\ IsFiniteSet(A \ {w})
  <2>1. A \subseteq Workers /\ A \ {w} \subseteq Workers
    BY DEF Among
  <2> QED
    BY <2>1, FiniteAssumption, FS_Subset
<1>2. B = IF g[w] \in Q THEN (A \ {w}) \cup {w} ELSE A \ {w}
  BY DEF Among, SameBut
<1>3. w \in A <=> f[w] \in Q
  BY DEF Among
<1>4. Cardinality(A \ {w}) = Cardinality(A) - (IF f[w] \in Q THEN 1 ELSE 0)
      /\ Cardinality(A) \in Nat
  <2> HIDE DEF A
  <2>1. Cardinality(A) \in Nat
    BY <1>1, FS_CardinalityType
  <2> QED
    BY <1>1, <1>3, <2>1, FS_RemoveElement
<1>5. Cardinality(B) = Cardinality(A \ {w}) + (IF g[w] \in Q THEN 1 ELSE 0)
  <2> HIDE DEF A, B
  <2>1. Cardinality((A \ {w}) \cup {w}) = Cardinality(A \ {w}) + 1
    <3>1. w \notin A \ {w}
      OBVIOUS
    <3> QED
      BY <1>1, <3>1, FS_AddElement
  <2>2. Cardinality(A \ {w}) \in Nat
    BY <1>1, FS_CardinalityType
  <2> QED
    BY <1>2, <2>1, <2>2
<1> QED
  BY <1>4, <1>5

LEMMA BucketsFinite == IsFiniteSet(Buckets)
BY InfType, FS_Interval DEF Buckets

\* A latency's bucket is the first that takes it: it is within the bounds from
\* there on.
LEMMA LabelProperties ==
  ASSUME NEW l \in Latencies
  PROVE  /\ Label(l) \in Buckets
         /\ \A i \in Buckets : l \in Within(i) <=> Label(l) <= i
<1> DEFINE S == {i \in DOMAIN Bounds : l <= Bounds[i]} \cup {Inf}
<1>0. /\ DOMAIN Bounds = 1..Len(Bounds) /\ Len(Bounds) \in Nat /\ Inf = Len(Bounds) + 1
      /\ \A i \in 1..Len(Bounds) : Bounds[i] \in Nat
      /\ \A i, k \in DOMAIN Bounds : i < k => Bounds[i] < Bounds[k]
      /\ l \in Nat
  BY BoundsAssumption, ValuesAssumption DEF Inf
<1>1. S \subseteq Buckets /\ S # {}
  BY <1>0 DEF Buckets
<1>2. IsFiniteSet(S) /\ S \subseteq Int
  BY <1>0, <1>1, BucketsFinite, FS_Subset DEF Buckets
<1>3. Label(l) \in S /\ \A i \in S : Label(l) <= i
  <2> HIDE DEF S
  <2>1. Min(S) \in S /\ \A i \in S : Min(S) <= i
    BY <1>1, <1>2, MinProperties
  <2>2. Label(l) = Min(S)
    BY DEF Label, S
  <2> QED
    BY <2>1, <2>2
<1>4. ASSUME NEW i \in Buckets PROVE l \in Within(i) <=> i \in S
  BY <1>0 DEF Within, Buckets
<1>5. ASSUME NEW i \in Buckets, Label(l) <= i PROVE i \in S
  <2>1. CASE i = Inf
    BY <2>1
  <2>2. CASE i # Inf
    <3>1. i \in DOMAIN Bounds /\ Label(l) \in DOMAIN Bounds /\ Label(l) # Inf
      BY <1>0, <1>1, <1>3, <1>5, <2>2 DEF Buckets
    <3>2. l <= Bounds[Label(l)]
      BY <1>3, <3>1
    <3>3. Bounds[Label(l)] <= Bounds[i]
      <4> HIDE DEF S
      <4> DEFINE k == Label(l)
      <4>1. k \in 1..Len(Bounds) /\ i \in 1..Len(Bounds) /\ k <= i
        BY <1>0, <1>5, <3>1
      <4> HIDE DEF k
      <4>2. k = i \/ k < i
        BY <1>0, <4>1
      <4>3. Bounds[k] \in Nat /\ Bounds[i] \in Nat
        BY <1>0, <4>1
      <4>4. CASE k < i
        <5>1. Bounds[k] < Bounds[i]
          BY <1>0, <4>1, <4>4
        <5> QED
          BY <4>3, <5>1 DEF k
      <4>5. CASE k = i
        BY <4>3, <4>5 DEF k
      <4> QED
        BY <4>2, <4>4, <4>5
    <3>4. Bounds[Label(l)] \in Nat /\ Bounds[i] \in Nat
      BY <1>0, <3>1
    <3> QED
      BY <1>0, <3>1, <3>2, <3>3, <3>4
  <2> QED
    BY <2>1, <2>2
<1> HIDE DEF S
<1> QED
  BY <1>1, <1>3, <1>4, <1>5

LEMMA StepNested ==
  ReadableOK /\ WritersOK /\ NestedInv /\ [Next]_vars => NestedInv'
<1> SUFFICES ASSUME ReadableOK, WritersOK, NestedInv, [Next]_vars PROVE NestedInv'
  OBVIOUS
<1> DEFINE owing == Cardinality(Among(pc, {"sum", "bucket"}))
           owingThen == Cardinality(Among(pc', {"sum", "bucket"}))
           counted == Cardinality(Among(pc, {"count"}))
           countedThen == Cardinality(Among(pc', {"count"}))
           entries == SumFunction(bucket)
<1>0. /\ pc \in [Workers -> Steps] /\ total \in Nat /\ count \in Nat
      /\ bucket \in [Buckets -> Nat]
      /\ entries + owing <= count /\ count + counted <= total
      /\ \A w \in Workers : pc[w] # "idle" => latency[w] \in Latencies
  BY DEF WritersOK, ReadableOK, NestedInv
<1>1. entries = SumFunctionOnSet(bucket, Buckets) /\ entries \in Int
  <2>1. \A i \in Buckets : bucket[i] \in Int
    BY <1>0
  <2> QED
    BY <1>0, <2>1, BucketsFinite, SumType DEF SumFunction
<1>2. CASE UNCHANGED <<total, count, bucket, pc>>
  BY <1>0, <1>2 DEF NestedInv
<1>3. ASSUME NEW w \in Workers, NEW s, Goto(w, s)
      PROVE  /\ owing \in Nat /\ counted \in Nat
             /\ owingThen = owing - (IF pc[w] \in {"sum", "bucket"} THEN 1 ELSE 0)
                               + (IF s \in {"sum", "bucket"} THEN 1 ELSE 0)
             /\ countedThen = counted - (IF pc[w] = "count" THEN 1 ELSE 0)
                                   + (IF s = "count" THEN 1 ELSE 0)
  <2>1. pc'[w] = s /\ SameBut(pc, pc', w)
    BY <1>0, <1>3 DEF Goto, SameBut
  <2>2. owingThen = owing - (IF pc[w] \in {"sum", "bucket"} THEN 1 ELSE 0)
                         + (IF pc'[w] \in {"sum", "bucket"} THEN 1 ELSE 0)
        /\ owing \in Nat
    BY ONLY <2>1, AmongMoved, w \in Workers
  <2>3. countedThen = counted - (IF pc[w] \in {"count"} THEN 1 ELSE 0)
                             + (IF pc'[w] \in {"count"} THEN 1 ELSE 0)
        /\ counted \in Nat
    BY ONLY <2>1, AmongMoved, w \in Workers
  <2> HIDE DEF owing, owingThen, counted, countedThen
  <2> QED
    BY <2>1, <2>2, <2>3
<1>4. ASSUME NEW w \in Workers, WriterStep(w) PROVE NestedInv'
  <2> HIDE DEF owing, counted, owingThen, countedThen
  <2>0. NestedInv' <=> /\ SumFunction(bucket') + owingThen <= count'
                       /\ count' + countedThen <= total'
    BY DEF NestedInv, owingThen, countedThen, Among
  <2>1. CASE (\E l \in Latencies : Begin(w, l)) \/ SetGpu(w) \/ RecordRaises(w) \/ Kill(w)
    <3>1. /\ UNCHANGED <<total, count, bucket>>
          /\ \E s \in {"total", "gpu", "idle"} : Goto(w, s)
      BY <2>1 DEF Begin, SetGpu, RecordRaises, Kill, AfterError, counters
    <3>2. owing \in Nat /\ counted \in Nat /\ owingThen <= owing /\ countedThen <= counted
      <4> PICK s \in {"total", "gpu", "idle"} : Goto(w, s)
        BY <3>1
      <4> QED
        BY <1>3
    <3>3. SumFunction(bucket') = entries /\ count' = count /\ total' = total
      BY <3>1
    <3>4. countedThen \in Int /\ owingThen \in Int
      <4> PICK s \in {"total", "gpu", "idle"} : Goto(w, s)
        BY <3>1
      <4> QED
        BY <1>3
    <3> HIDE DEF entries
    <3> QED
      BY <1>0, <1>1, <2>0, <3>2, <3>3, <3>4
  <2>2. CASE AddTotal(w)
    <3>1. /\ pc[w] = "total" /\ Goto(w, "count")
          /\ total' = total + 1 /\ UNCHANGED <<count, bucket>>
      BY <2>2 DEF AddTotal, At
    <3>2. owingThen = owing /\ countedThen = counted + 1 /\ owing \in Nat /\ counted \in Nat
      BY <1>3, <3>1
    <3> QED
      BY <1>0, <1>1, <2>0, <3>1, <3>2
  <2>3. CASE AddCount(w)
    <3>1. /\ pc[w] = "count" /\ Goto(w, "sum")
          /\ count' = count + 1 /\ UNCHANGED <<total, bucket>>
      BY <2>3 DEF AddCount, At
    <3>2. owingThen = owing + 1 /\ countedThen = counted - 1 /\ owing \in Nat /\ counted \in Nat
      BY <1>3, <3>1
    <3> QED
      BY <1>0, <1>1, <2>0, <3>1, <3>2
  <2>4. CASE AddSum(w)
    <3>1. /\ pc[w] = "sum" /\ Goto(w, "bucket")
          /\ UNCHANGED <<total, count, bucket>>
      BY <2>4 DEF AddSum, At
    <3>2. owingThen = owing /\ countedThen = counted /\ owing \in Nat /\ counted \in Nat
      BY <1>3, <3>1
    <3> QED
      BY <1>0, <1>1, <2>0, <3>1, <3>2
  <2>5. CASE AddBucket(w)
    <3> DEFINE b == Label(latency[w])
    <3>1. /\ pc[w] = "bucket" /\ Goto(w, "gpu")
          /\ bucket' = [bucket EXCEPT ![b] = @ + 1] /\ UNCHANGED <<total, count>>
      BY <2>5 DEF AddBucket, At
    <3>2. owingThen = owing - 1 /\ countedThen = counted /\ owing \in Nat /\ counted \in Nat
      BY <1>3, <3>1
    <3>3. b \in Buckets
      BY <1>0, <3>1, LabelProperties
    <3> HIDE DEF b
    <3>4. SumFunction(bucket') = entries + 1
      <4>1. DOMAIN bucket' = Buckets
        BY <1>0, <3>1
      <4>2. \A i \in Buckets : /\ bucket[i] \in Int
                               /\ bucket'[i] = IF i = b THEN bucket[i] + 1 ELSE bucket[i]
        BY <1>0, <3>1
      <4>3. SumFunctionOnSet(bucket', Buckets) = SumFunctionOnSet(bucket, Buckets) + 1
        BY <3>3, <4>2, BucketsFinite, SumOneChanged
      <4> QED
        BY <1>1, <4>1, <4>3 DEF SumFunction
    <3> QED
      BY <1>0, <1>1, <2>0, <3>1, <3>2, <3>4
  <2> QED
    BY <1>4, <2>1, <2>2, <2>3, <2>4, <2>5 DEF WriterStep
<1>5. CASE Start \/ Get \/ GetRaises \/ Yield
  BY <1>2, <1>5 DEF Start, Get, GetRaises, Yield, counters, writers
<1> QED
  BY <1>2, <1>4, <1>5 DEF Next, vars

-----------------------------------------------------------------------------
(* What a scrape shows lies between the counters at its start and now.     *)

LEMMA UpToType ==
  ASSUME WritersOK, NEW i
  PROVE  UpTo(i) \in Nat
<1>1. IsFiniteSet(Within(i)) /\ Within(i) \subseteq Latencies
  BY FiniteAssumption, FS_Subset DEF Within
<1>2. \A l \in Within(i) : recorded[l] \in Nat
  BY <1>1 DEF WritersOK
<1> QED
  BY <1>1, <1>2, SumBoundsTerms DEF UpTo

BeforeOK == before \in [total : Nat, sum : Nat, upTo : [Buckets -> Nat]]

LEMMA StepBefore == ReadableOK /\ WritersOK /\ BeforeOK /\ [Next]_vars => BeforeOK'
<1> SUFFICES ASSUME ReadableOK, WritersOK, BeforeOK, [Next]_vars PROVE BeforeOK'
  OBVIOUS
<1>1. CASE Start
  <2>1. [i \in Buckets |-> UpTo(i)] \in [Buckets -> Nat]
    BY UpToType
  <2> QED
    BY <1>1, <2>1 DEF Start, Now, BeforeOK, ReadableOK
<1>2. CASE Yield
  BY <1>2 DEF Yield, NoCounters, BeforeOK
<1>3. CASE (\E w \in Workers : WriterStep(w)) \/ Get \/ GetRaises \/ UNCHANGED vars
  BY <1>3 DEF BeforeOK, WriterStep, Begin, AddTotal, AddCount, AddSum, AddBucket, SetGpu,
     RecordRaises, Kill, At, Get, GetRaises, scrape, vars
<1> QED
  BY <1>1, <1>2, <1>3 DEF Next

\* A bucket holds the latencies within its bound and not within the one below.
LabelledInv ==
    \A i \in Buckets : UpTo(i) = (IF i = 1 THEN 0 ELSE UpTo(i - 1)) + bucket[i]

\* A step records nothing, or one latency in the bucket from which on the
\* bounds take it.
LEMMA StepRecords ==
  ReadableOK /\ WritersOK /\ [Next]_vars =>
    \/ UNCHANGED <<recorded, bucket>>
    \/ \E b \in Buckets :
         /\ bucket' = [bucket EXCEPT ![b] = @ + 1]
         /\ \A i \in Buckets : UpTo(i)' = UpTo(i) + (IF b <= i THEN 1 ELSE 0)
<1> SUFFICES ASSUME ReadableOK, WritersOK, [Next]_vars, ~ UNCHANGED <<recorded, bucket>>
             PROVE  \E b \in Buckets :
                      /\ bucket' = [bucket EXCEPT ![b] = @ + 1]
                      /\ \A i \in Buckets : UpTo(i)' = UpTo(i) + (IF b <= i THEN 1 ELSE 0)
  OBVIOUS
<1>1. PICK w \in Workers : AddBucket(w)
  BY DEF Next, vars, WriterStep, Begin, AddTotal, AddCount, AddSum, SetGpu, RecordRaises, Kill,
     Start, Get, GetRaises, Yield, counters, writers
<1> DEFINE l == latency[w]
<1>2. l \in Latencies /\ recorded \in [Latencies -> Nat]
  BY <1>1 DEF AddBucket, At, WritersOK
<1>3. /\ bucket' = [bucket EXCEPT ![Label(l)] = @ + 1]
      /\ recorded' = [recorded EXCEPT ![l] = @ + 1]
  BY <1>1 DEF AddBucket
<1> HIDE DEF l
<1>4. Label(l) \in Buckets /\ \A i \in Buckets : l \in Within(i) <=> Label(l) <= i
  BY <1>2, LabelProperties
<1>5. ASSUME NEW i \in Buckets
      PROVE  UpTo(i)' = UpTo(i) + (IF Label(l) <= i THEN 1 ELSE 0)
  <2>1. IsFiniteSet(Within(i)) /\ Within(i) \subseteq Latencies
    BY FiniteAssumption, FS_Subset DEF Within
  <2>2. \A y \in Within(i) :
           /\ recorded[y] \in Int
           /\ recorded'[y] = IF y = l THEN recorded[y] + 1 ELSE recorded[y]
    BY <1>2, <1>3, <2>1
  <2>3. SumFunctionOnSet(recorded', Within(i)) =
          SumFunctionOnSet(recorded, Within(i)) + (IF l \in Within(i) THEN 1 ELSE 0)
    <3> HIDE DEF Within
    <3> QED
      BY <2>1, <2>2, SumOneChanged
  <2>4. UpTo(i)' = SumFunctionOnSet(recorded', Within(i))
    BY DEF UpTo, Within
  <2> QED
    BY <1>4, <2>3, <2>4 DEF UpTo
<1> QED
  BY <1>3, <1>4, <1>5

LEMMA StepLabelled ==
  ReadableOK /\ WritersOK /\ LabelledInv /\ [Next]_vars => LabelledInv'
<1> SUFFICES ASSUME ReadableOK, WritersOK, LabelledInv, [Next]_vars,
                    NEW i \in Buckets
             PROVE  UpTo(i)' = (IF i = 1 THEN 0 ELSE UpTo(i - 1)') + bucket'[i]
  BY DEF LabelledInv
<1>1. UpTo(i) = (IF i = 1 THEN 0 ELSE UpTo(i - 1)) + bucket[i]
  BY DEF LabelledInv
<1>2. /\ i \in Nat /\ (i # 1 => i - 1 \in Buckets)
      /\ bucket \in [Buckets -> Nat] /\ UpTo(i) \in Nat /\ UpTo(i - 1) \in Nat
  BY InfType, UpToType DEF Buckets, ReadableOK
<1>3. CASE UNCHANGED <<recorded, bucket>>
  BY <1>1, <1>3 DEF UpTo
<1>4. CASE \E b \in Buckets :
             /\ bucket' = [bucket EXCEPT ![b] = @ + 1]
             /\ \A k \in Buckets : UpTo(k)' = UpTo(k) + (IF b <= k THEN 1 ELSE 0)
  <2> PICK b \in Buckets :
             /\ bucket' = [bucket EXCEPT ![b] = @ + 1]
             /\ \A k \in Buckets : UpTo(k)' = UpTo(k) + (IF b <= k THEN 1 ELSE 0)
    BY <1>4
  <2>1. bucket'[i] = bucket[i] + (IF b = i THEN 1 ELSE 0) /\ b \in Nat /\ bucket[i] \in Nat
    <3>1. b \in Nat
      BY InfType DEF Buckets
    <3>2. bucket[i] \in Nat
      BY <1>2
    <3> QED
      BY <1>2, <3>1, <3>2
  <2>2. UpTo(i)' = UpTo(i) + (IF b <= i THEN 1 ELSE 0)
    OBVIOUS
  <2>3. i # 1 => UpTo(i - 1)' = UpTo(i - 1) + (IF b <= i - 1 THEN 1 ELSE 0)
    BY <1>2
  <2>4. CASE i = 1
    <3>1. b <= i <=> b = i
      BY <2>4 DEF Buckets
    <3> QED
      BY <1>1, <1>2, <2>1, <2>2, <2>4, <3>1
  <2>5. CASE i # 1
    <3>1. b <= i <=> (b <= i - 1 \/ b = i)
      BY <1>2, <2>1
    <3>2. ~(b <= i - 1 /\ b = i)
      BY <1>2, <2>1
    <3> QED
      BY <1>1, <1>2, <2>1, <2>2, <2>3, <2>5, <3>1, <3>2
  <2> QED
    BY <2>4, <2>5
<1> QED
  BY <1>3, <1>4, StepRecords

LEMMA StepGrows ==
  ReadableOK /\ WritersOK /\ [Next]_vars =>
    /\ total <= total' /\ sum <= sum'
    /\ \A i \in Buckets : /\ UpTo(i) <= UpTo(i)' /\ UpTo(i)' \in Nat
                          /\ bucket[i] <= bucket'[i]
<1> SUFFICES ASSUME ReadableOK, WritersOK, [Next]_vars
             PROVE  /\ total <= total' /\ sum <= sum'
                    /\ \A i \in Buckets : /\ UpTo(i) <= UpTo(i)' /\ UpTo(i)' \in Nat
                          /\ bucket[i] <= bucket'[i]
  OBVIOUS
<1>1. total \in Nat /\ sum \in Nat /\ bucket \in [Buckets -> Nat]
  BY DEF ReadableOK
<1>2. \A i \in Buckets : UpTo(i) \in Nat
  BY UpToType
<1>3. total' = total \/ total' = total + 1
  BY DEF Next, vars, WriterStep, Begin, AddTotal, AddCount, AddSum, AddBucket, SetGpu,
     RecordRaises, Kill, Start, Get, GetRaises, Yield, counters, writers
<1>4. sum' = sum \/ \E w \in Workers : sum' = sum + latency[w]
  BY DEF Next, vars, WriterStep, Begin, AddTotal, AddCount, AddSum, AddBucket, SetGpu,
     RecordRaises, Kill, Start, Get, GetRaises, Yield, counters, writers
<1>5. \A w \in Workers : latency[w] \in Nat
  <2>1. \A w \in Workers : latency[w] \in Latencies \cup {0}
    BY DEF ReadableOK
  <2> QED
    BY <2>1, LatencyType
<1>6. sum <= sum'
  BY <1>1, <1>4, <1>5
<1>7. ASSUME NEW i \in Buckets
      PROVE  UpTo(i) <= UpTo(i)' /\ UpTo(i)' \in Nat /\ bucket[i] <= bucket'[i]
  <2>1. UpTo(i) \in Nat /\ bucket[i] \in Nat
    BY <1>1, <1>2
  <2>2. CASE UNCHANGED <<recorded, bucket>>
    BY <2>1, <2>2 DEF UpTo
  <2>3. CASE \E b \in Buckets :
               /\ bucket' = [bucket EXCEPT ![b] = @ + 1]
               /\ \A k \in Buckets : UpTo(k)' = UpTo(k) + (IF b <= k THEN 1 ELSE 0)
    BY <1>1, <2>1, <2>3
  <2> QED
    BY <2>2, <2>3, StepRecords
<1> QED
  BY <1>1, <1>3, <1>6, <1>7

\* What the bound below i held when the scrape began: with the bucket's count
\* at any later moment it covers what the scrape must show for i.
Rest(i) == IF i = 1 THEN 0 ELSE before.upTo[i - 1]

StartedInv ==
    at # Idle =>
        /\ before.total <= total /\ before.sum <= sum
        /\ \A i \in Buckets : /\ before.upTo[i] <= UpTo(i)
                              /\ before.upTo[i] <= Rest(i) + bucket[i]

ReadInv ==
    at # Idle /\ failedAt = 0 =>
        /\ at > 2 => before.total <= shown.total /\ shown.total <= total
        /\ at > 4 => before.sum <= shown.sum /\ shown.sum <= sum
        /\ \A i \in 1..BucketsRead : /\ before.upTo[i] <= shown.buckets[i][2]
                                     /\ shown.buckets[i][2] <= UpTo(i)

CountersOK == ReadableOK /\ WritersOK /\ BeforeOK

LEMMA BeforeType ==
  ASSUME BeforeOK, NEW i \in Buckets
  PROVE  /\ before.total \in Nat /\ before.sum \in Nat
         /\ before.upTo[i] \in Nat /\ Rest(i) \in Nat
<1>1. i # 1 => i - 1 \in Buckets
  BY InfType DEF Buckets
<1> QED
  BY <1>1 DEF BeforeOK, Rest

LEMMA StepStarted ==
  CountersOK /\ LabelledInv /\ ScrapeInv /\ StartedInv /\ [Next]_vars => StartedInv'
<1> SUFFICES ASSUME CountersOK, LabelledInv, ScrapeInv, StartedInv, [Next]_vars, at' # Idle
             PROVE  /\ before'.total <= total' /\ before'.sum <= sum'
                    /\ \A i \in Buckets : /\ before'.upTo[i] <= UpTo(i)'
                                          /\ before'.upTo[i] <= Rest(i)' + bucket'[i]
  BY DEF StartedInv
<1> USE DEF CountersOK
<1>1. CASE Start
  <2>1. /\ before' = Now /\ UNCHANGED <<total, sum, bucket, recorded>>
    BY <1>1 DEF Start, counters, writers
  <2>2. /\ before'.total = total /\ before'.sum = sum
        /\ \A i \in Buckets : before'.upTo[i] = UpTo(i)
    BY <2>1 DEF Now
  <2>3. total \in Nat /\ sum \in Nat
    BY DEF ReadableOK
  <2>4. ASSUME NEW i \in Buckets
        PROVE  before'.upTo[i] <= UpTo(i)' /\ before'.upTo[i] <= Rest(i)' + bucket'[i]
    <3>1. UpTo(i)' = UpTo(i) /\ UpTo(i) \in Nat
      BY <2>1, UpToType DEF UpTo
    <3>2. i # 1 => i - 1 \in Buckets
      BY InfType DEF Buckets
    <3>3. Rest(i)' = IF i = 1 THEN 0 ELSE UpTo(i - 1)
      BY <2>2, <3>2 DEF Rest
    <3>4. UpTo(i) = Rest(i)' + bucket'[i]
      BY <2>1, <3>3 DEF LabelledInv
    <3> QED
      BY <2>2, <3>1, <3>4
  <2> QED
    BY <2>1, <2>2, <2>3, <2>4
<1>2. CASE at # Idle /\ before' = before
  <2>1. /\ before.total <= total /\ before.sum <= sum
        /\ \A i \in Buckets : /\ before.upTo[i] <= UpTo(i)
                              /\ before.upTo[i] <= Rest(i) + bucket[i]
    BY <1>2 DEF StartedInv
  <2>2. /\ total <= total' /\ sum <= sum'
        /\ \A i \in Buckets : /\ UpTo(i) <= UpTo(i)' /\ UpTo(i)' \in Nat
                              /\ bucket[i] <= bucket'[i]
    BY StepGrows
  <2>3. ReadableOK' /\ WritersOK'
    BY StepReadable, StepWriters
  <2>4. ASSUME NEW i \in Buckets
        PROVE  before'.upTo[i] <= UpTo(i)' /\ before'.upTo[i] <= Rest(i)' + bucket'[i]
    <3>1. /\ before.upTo[i] \in Nat /\ Rest(i) \in Nat
      BY BeforeType
    <3>2. UpTo(i) \in Nat /\ UpTo(i)' \in Nat
      BY <2>2, UpToType
    <3>3. bucket[i] \in Nat /\ bucket'[i] \in Nat
      BY <2>3 DEF ReadableOK
    <3>4. Rest(i)' = Rest(i)
      BY <1>2 DEF Rest
    <3> QED
      BY <1>2, <2>1, <2>2, <3>1, <3>2, <3>3, <3>4
  <2>5. before.total \in Nat /\ before.sum \in Nat
    BY DEF BeforeOK
  <2>6. total \in Nat /\ sum \in Nat /\ total' \in Nat /\ sum' \in Nat
    BY <2>3 DEF ReadableOK
  <2> QED
    BY <1>2, <2>1, <2>2, <2>4, <2>5, <2>6
<1>3. Start \/ (at # Idle /\ before' = before)
  BY InfType DEF Next, vars, WriterStep, Begin, AddTotal, AddCount, AddSum, AddBucket, SetGpu,
     RecordRaises, Kill, At, Get, GetRaises, Yield, scrape, Idle, FirstBucket
<1> QED
  BY <1>1, <1>2, <1>3

LEMMA StepRead ==
  CountersOK /\ LabelledInv /\ ScrapeInv /\ StartedInv /\ ReadInv /\ [Next]_vars => ReadInv'
<1> SUFFICES ASSUME CountersOK, LabelledInv, ScrapeInv, StartedInv, ReadInv, [Next]_vars,
                    at' # Idle, failedAt' = 0
             PROVE  /\ at' > 2 => before'.total <= shown'.total /\ shown'.total <= total'
                    /\ at' > 4 => before'.sum <= shown'.sum /\ shown'.sum <= sum'
                    /\ \A i \in 1..BucketsRead' : /\ before'.upTo[i] <= shown'.buckets[i][2]
                                                  /\ shown'.buckets[i][2] <= UpTo(i)'
  BY DEF ReadInv
<1> USE InfType DEF CountersOK, FirstBucket
<1>0. /\ total \in Nat /\ sum \in Nat /\ bucket \in [Buckets -> Nat]
      /\ before.total \in Nat /\ before.sum \in Nat
      /\ total <= total' /\ sum <= sum' /\ total' \in Nat /\ sum' \in Nat
      /\ \A i \in Buckets : /\ UpTo(i) <= UpTo(i)' /\ UpTo(i) \in Nat /\ UpTo(i)' \in Nat
                            /\ before.upTo[i] \in Nat /\ Rest(i) \in Nat
  <2>1. ReadableOK'
    BY StepReadable
  <2>2. before.total \in Nat /\ before.sum \in Nat
    BY DEF BeforeOK
  <2> QED
    BY <2>1, <2>2, StepGrows, UpToType, BeforeType DEF ReadableOK
<1>1. /\ shown.total \in Nat /\ shown.sum \in Nat
      /\ shown.buckets \in Seq(Buckets \X Nat)
      /\ at \in Reads \cup {Idle, Complete}
  BY DEF ScrapeInv, Samples
<1>2. CASE at # Idle /\ UNCHANGED scrape
  <2>1. /\ at > 2 => before.total <= shown.total /\ shown.total <= total
        /\ at > 4 => before.sum <= shown.sum /\ shown.sum <= sum
        /\ \A i \in 1..BucketsRead : /\ before.upTo[i] <= shown.buckets[i][2]
                                     /\ shown.buckets[i][2] <= UpTo(i)
        /\ Len(shown.buckets) = BucketsRead
    BY <1>2 DEF scrape, ReadInv, ScrapeInv
  <2>2. BucketsRead' = BucketsRead /\ UNCHANGED <<at, shown, before>>
    BY <1>2 DEF scrape, BucketsRead
  <2>3. ASSUME NEW i \in 1..BucketsRead
        PROVE  before'.upTo[i] <= shown'.buckets[i][2] /\ shown'.buckets[i][2] <= UpTo(i)'
    <3>1. i \in Buckets /\ i \in 1..Len(shown.buckets)
      BY <1>1, <2>1, <2>3 DEF BucketsRead, Buckets, Reads, Idle
    <3>2. shown.buckets[i][2] \in Nat
      BY <1>1, <3>1, EntryType
    <3>3. UpTo(i) <= UpTo(i)' /\ UpTo(i) \in Nat /\ UpTo(i)' \in Nat
      BY <1>0, <3>1
    <3> QED
      BY <2>1, <2>2, <3>2, <3>3
  <2>4. at' > 2 => before'.total <= shown'.total /\ shown'.total <= total'
    <3>1. at > 2 => before.total <= shown.total /\ shown.total <= total
      BY <2>1
    <3>2. total <= total' /\ total \in Nat /\ total' \in Nat /\ shown.total \in Nat
      BY <1>0, <1>1
    <3>3. at' = at /\ before'.total = before.total /\ shown'.total = shown.total
      BY <2>2
    <3> QED
      BY ONLY <3>1, <3>2, <3>3
  <2>5. at' > 4 => before'.sum <= shown'.sum /\ shown'.sum <= sum'
    BY <1>0, <1>1, <2>1, <2>2
  <2> QED
    BY <2>2, <2>3, <2>4, <2>5
<1>3. CASE Start
  BY <1>3 DEF Start, BucketsRead
<1>4. CASE Get
  <2>1. /\ at \in Reads /\ at' = at + 1 /\ failedAt = 0 /\ at # Idle
        /\ UNCHANGED <<before, total, sum, bucket, recorded>>
    BY <1>4 DEF Get, counters, writers, Idle
  <2>2. /\ at > 2 => before.total <= shown.total /\ shown.total <= total
        /\ at > 4 => before.sum <= shown.sum /\ shown.sum <= sum
        /\ \A i \in 1..BucketsRead : /\ before.upTo[i] <= shown.buckets[i][2]
                                     /\ shown.buckets[i][2] <= UpTo(i)
        /\ Len(shown.buckets) = BucketsRead
        /\ before.total <= total /\ before.sum <= sum
    BY <2>1 DEF ReadInv, ScrapeInv, StartedInv
  <2>3. \A i : UpTo(i)' = UpTo(i)
    BY <2>1 DEF UpTo
  <2>4. CASE at < FirstBucket
    <3>1. at \in 1..4 /\ BucketsRead' = 0
      BY <2>1, <2>4 DEF BucketsRead
    <3>2. shown' = Read(at) /\ shown \in Samples
      BY <1>4 DEF Get, ScrapeInv
    <3>3. at' > 2 => before.total <= shown'.total /\ shown'.total <= total
      <4>1. CASE at = 2
        <5>1. shown'.total = total
          BY <3>2, <4>1 DEF Read, Samples
        <5> QED
          BY <1>0, <2>2, <5>1
      <4>2. CASE at > 2
        <5>1. shown'.total = shown.total
          BY <3>1, <3>2, <4>2 DEF Read, Samples
        <5> QED
          BY <2>2, <4>2, <5>1
      <4> QED
        BY <2>1, <3>1, <4>1, <4>2
    <3>4. at' > 4 => before.sum <= shown'.sum /\ shown'.sum <= sum
      <4>1. CASE at = 4
        <5>1. shown'.sum = sum
          BY <3>2, <4>1 DEF Read, Samples
        <5> QED
          BY <1>0, <2>2, <5>1
      <4> QED
        BY <2>1, <3>1, <4>1
    <3> QED
      BY <2>1, <3>1, <3>3, <3>4
  <2>5. CASE at >= FirstBucket
    <3> DEFINE i == at - FirstBucket + 1
               c == Below(i) + bucket[i]
    <3>1. /\ Len(shown.buckets) + 1 = i /\ i \in Buckets
          /\ shown' = [shown EXCEPT !.buckets = Append(@, <<i, c>>)]
          /\ Below(i) = IF Len(shown.buckets) = 0 THEN 0
                        ELSE shown.buckets[Len(shown.buckets)][2]
          /\ Below(i) \in Nat
      BY <1>4, <2>5, GetBucket
    <3>2. BucketsRead' = i /\ BucketsRead = i - 1 /\ at > 4
      BY <2>1, <2>5 DEF BucketsRead
    <3> HIDE DEF i
    <3>3. /\ shown'.total = shown.total /\ shown'.sum = shown.sum
          /\ shown'.buckets = Append(shown.buckets, <<i, c>>)
      BY <3>1 DEF ScrapeInv, Samples
    <3>4. /\ before.upTo[i] <= c /\ c <= UpTo(i)
      <4>1. /\ before.upTo[i] <= Rest(i) + bucket[i]
            /\ UpTo(i) = (IF i = 1 THEN 0 ELSE UpTo(i - 1)) + bucket[i]
        BY <2>1, <3>1 DEF StartedInv, LabelledInv
      <4>2. bucket[i] \in Nat /\ before.upTo[i] \in Nat /\ Rest(i) \in Nat /\ UpTo(i) \in Nat
            /\ i \in Nat /\ i >= 1
        BY <1>0, <3>1 DEF Buckets
      <4>3. CASE i = 1
        <5>1. Below(i) = 0 /\ Rest(i) = 0
          BY <4>3 DEF Below, Rest
        <5> QED
          BY <4>1, <4>2, <4>3, <5>1
      <4>4. CASE i # 1
        <5>1. /\ i - 1 \in 1..BucketsRead /\ i - 1 \in Buckets
          <6>1. i \in Buckets
            BY <3>1
          <6> QED
            BY ONLY <6>1, <3>2, <4>2, <4>4, InfType DEF Buckets
        <5>2. /\ Below(i) = shown.buckets[i - 1][2] /\ Rest(i) = before.upTo[i - 1]
          BY <4>4 DEF Below, Rest
        <5>3. /\ Rest(i) <= Below(i) /\ Below(i) <= UpTo(i - 1)
          BY <2>2, <5>1, <5>2
        <5>4. UpTo(i - 1) \in Nat
          BY <1>0, <5>1
        <5>5. Below(i) \in Nat /\ c = Below(i) + bucket[i]
          BY <3>1
        <5>6. UpTo(i) = UpTo(i - 1) + bucket[i]
          BY <4>1, <4>4
        <5>7. before.upTo[i] <= Rest(i) + bucket[i]
          BY <4>1
        <5> HIDE DEF c
        <5> QED
          BY ONLY <4>2, <5>3, <5>4, <5>5, <5>6, <5>7
      <4> QED
        BY <4>3, <4>4
    <3>5. ASSUME NEW k \in 1..i
          PROVE  before.upTo[k] <= shown'.buckets[k][2] /\ shown'.buckets[k][2] <= UpTo(k)
      <4>1. CASE k = i
        <5>1. shown'.buckets[k] = <<i, c>>
          <6>1. i = Len(shown.buckets) + 1
            BY <3>1
          <6> HIDE DEF c
          <6> QED
            BY <1>1, <3>3, <4>1, <6>1
        <5> QED
          BY <3>4, <4>1, <5>1
      <4>2. CASE k # i
        <5>1. k \in 1..BucketsRead /\ k \in 1..Len(shown.buckets)
          <6>1. i \in Buckets /\ i = Len(shown.buckets) + 1
            BY <3>1
          <6>2. Len(shown.buckets) \in Nat
            BY <1>1
          <6> QED
            BY ONLY <6>1, <6>2, <3>2, <4>2, k \in 1..i, InfType DEF Buckets
        <5>2. shown'.buckets[k] = shown.buckets[k]
          BY <1>1, <3>3, <5>1
        <5> QED
          BY <2>2, <5>1, <5>2
      <4> QED
        BY <4>1, <4>2
    <3>6. at > 2 /\ UNCHANGED <<before, total, sum>>
      BY <2>1, <3>2
    <3> HIDE DEF c
    <3> QED
      BY <2>2, <2>3, <3>2, <3>3, <3>5, <3>6
  <2> QED
    BY <2>1, <2>4, <2>5
<1>5. Start \/ Get \/ (at # Idle /\ UNCHANGED scrape)
  <2>1. Yield => at' = Idle
    BY DEF Yield
  <2>2. GetRaises => failedAt' # 0
    BY DEF GetRaises, Reads
  <2>3. (\E w \in Workers : WriterStep(w)) => UNCHANGED scrape
    BY DEF WriterStep, Begin, AddTotal, AddCount, AddSum, AddBucket, SetGpu,
       RecordRaises, Kill, At
  <2>4. UNCHANGED vars => UNCHANGED scrape
    BY DEF vars, scrape
  <2>5. UNCHANGED scrape => at # Idle
    BY DEF scrape
  <2> QED
    BY <2>1, <2>2, <2>3, <2>4, <2>5 DEF Next
<1> QED
  BY <1>2, <1>3, <1>4, <1>5

-----------------------------------------------------------------------------
(* The theorems.                                                           *)

IInv == CountersOK /\ ScrapeInv /\ NestedInv /\ LabelledInv /\ StartedInv /\ ReadInv

LEMMA InitIInv == Init => IInv
<1> SUFFICES ASSUME Init PROVE IInv
  OBVIOUS
<1>1. CountersOK
  BY ValuesAssumption DEF Init, CountersOK, ReadableOK, WritersOK, BeforeOK, NoCounters, Steps
<1>2. ScrapeInv
  BY InfType DEF Init, ScrapeInv, None, Samples, BucketsRead, Rising, Idle, FirstBucket
<1>3. NestedInv
  <2>1. SumFunction(bucket) = 0
    <3>1. DOMAIN bucket = Buckets /\ \A i \in Buckets : bucket[i] = 0
      BY DEF Init
    <3> QED
      BY <3>1, BucketsFinite, SumOfZeros DEF SumFunction
  <2>2. Among(pc, {"sum", "bucket"}) = {} /\ Among(pc, {"count"}) = {}
    BY DEF Among, Init
  <2>3. total = 0 /\ count = 0
    BY DEF Init
  <2> QED
    BY <2>1, <2>2, <2>3, FS_EmptySet DEF NestedInv
<1>4. LabelledInv
  <2>1. \A i : UpTo(i) = 0
    <3> SUFFICES ASSUME NEW i PROVE UpTo(i) = 0
      OBVIOUS
    <3>1. IsFiniteSet(Within(i)) /\ Within(i) \subseteq Latencies
      BY FiniteAssumption, FS_Subset DEF Within
    <3>2. \A l \in Within(i) : recorded[l] = 0
      BY <3>1 DEF Init
    <3> QED
      BY <3>1, <3>2, SumOfZeros DEF UpTo
  <2> QED
    BY <2>1 DEF LabelledInv, Init
<1>5. StartedInv /\ ReadInv
  BY DEF Init, StartedInv, ReadInv
<1> QED
  BY <1>1, <1>2, <1>3, <1>4, <1>5 DEF IInv

LEMMA StepIInv == IInv /\ [Next]_vars => IInv'
BY StepReadable, StepWriters, StepBefore, StepScrape, StepNested, StepLabelled, StepStarted,
   StepRead DEF IInv, CountersOK

LEMMA AlwaysIInv == Spec => []IInv
BY InitIInv, StepIInv, PTL DEF Spec

\* Counters, gauge and samples always have their types: no failure or kill
\* leaves a counter negative or a gauge beyond 100.
THEOREM TypeCorrect == Spec => []TypeOK
<1>1. IInv => TypeOK
  BY DEF IInv, CountersOK, ReadableOK, WritersOK, BeforeOK, ScrapeInv, TypeOK
<1> QED
  BY <1>1, AlwaysIInv, PTL

\* No bucket entry without its latency and no latency without its event,
\* whichever commands fail and wherever work-horses are killed.
THEOREM CountersStayNested == Spec => []CountersNested
<1>1. IInv => CountersNested
  <2> SUFFICES ASSUME IInv PROVE CountersNested
    OBVIOUS
  <2> DEFINE owing == Cardinality(Among(pc, {"sum", "bucket"}))
             counted == Cardinality(Among(pc, {"count"}))
  <2>1. \A Q : Cardinality(Among(pc, Q)) \in Nat
    <3> SUFFICES ASSUME NEW Q PROVE Cardinality(Among(pc, Q)) \in Nat
      OBVIOUS
    <3>1. Among(pc, Q) \subseteq Workers
      BY DEF Among
    <3> QED
      BY <3>1, FiniteAssumption, FS_Subset, FS_CardinalityType
  <2>2. SumFunction(bucket) \in Int
    <3>1. DOMAIN bucket = Buckets /\ \A i \in Buckets : bucket[i] \in Int
      BY DEF IInv, CountersOK, ReadableOK
    <3> QED
      BY <3>1, BucketsFinite, SumType DEF SumFunction
  <2>3. SumFunction(bucket) + owing <= count /\ count + counted <= total
        /\ count \in Nat /\ total \in Nat /\ owing \in Nat /\ counted \in Nat
    BY <2>1 DEF IInv, NestedInv, CountersOK, ReadableOK
  <2> HIDE DEF owing, counted
  <2> QED
    BY <2>2, <2>3 DEF CountersNested
<1> QED
  BY <1>1, AlwaysIInv, PTL

\* However the work-horses' commands fall between its reads, what a scrape
\* that does not fail shows for every counter and every bound lies between the
\* value when it began and the value now.
THEOREM ScrapesWithinWindow == Spec => []ScrapeWithinWindow
<1>1. IInv => ScrapeWithinWindow
  <2> SUFFICES ASSUME IInv, at = Complete, failedAt = 0
               PROVE  /\ before.total <= shown.total /\ shown.total <= total
                      /\ before.sum <= shown.sum /\ shown.sum <= sum
                      /\ \A i \in Buckets : before.upTo[i] <= shown.buckets[i][2]
                                            /\ shown.buckets[i][2] <= UpTo(i)
    BY DEF ScrapeWithinWindow
  <2>1. at # Idle /\ at > 4 /\ at > 2 /\ 1..BucketsRead = Buckets
    BY InfType DEF Idle, BucketsRead, FirstBucket, Buckets
  <2> QED
    BY <2>1 DEF IInv, ReadInv
<1> QED
  BY <1>1, AlwaysIInv, PTL

\* However the workers' commands fall between its reads, a scrape shows every
\* bound once, in order, with counts that never fall, unless Redis fails
\* between two buckets.
THEOREM HistogramsWellFormed == Spec => []HistogramWellFormed
<1>1. ScrapeInv => HistogramWellFormed
  <2> SUFFICES ASSUME ScrapeInv, at = Complete, failedAt <= FirstBucket
               PROVE  /\ [i \in DOMAIN shown.buckets |-> shown.buckets[i][1]]
                           = [i \in Buckets |-> i]
                      /\ \A i, k \in Buckets :
                           i < k => shown.buckets[i][2] <= shown.buckets[k][2]
    BY DEF HistogramWellFormed
  <2>1. DOMAIN shown.buckets = Buckets /\ Rising(shown.buckets)
    <3>1. CASE failedAt = 0
      <4>1. shown.buckets \in Seq(Buckets \X Nat) /\ Len(shown.buckets) = Inf
        BY <3>1, InfType DEF ScrapeInv, Samples, BucketsRead, FirstBucket
      <4> QED
        BY <3>1, <4>1 DEF ScrapeInv, Buckets
    <3>2. CASE failedAt # 0
      <4>1. shown.buckets = Zeros
        BY <3>2, InfType DEF ScrapeInv, FirstBucket
      <4> QED
        BY <4>1 DEF Zeros, Rising
    <3> QED
      BY <3>1, <3>2
  <2> QED
    BY <2>1 DEF Rising
<1>2. IInv => ScrapeInv
  BY DEF IInv
<1> QED
  BY <1>1, <1>2, AlwaysIInv, PTL

=============================================================================
