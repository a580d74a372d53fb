------------------------------- MODULE Metrics -------------------------------
(***************************************************************************)
(* The Prometheus metrics: work-horses add to counters in Redis, one       *)
(* command at a time (record_processed_event and update_gpu_utilization of *)
(* app/queue/manager.py), while a scrape reads them, one GET at a time     *)
(* (RedisBackedCollector of app/metrics/prometheus.py).  The processed set *)
(* and the latency list, which no scrape reads, are left out.              *)
(***************************************************************************)
EXTENDS Naturals, Sequences, FiniteSets, FiniteSetsExt, Functions

CONSTANTS
    Workers,      \* work-horses
    Bounds,       \* LATENCY_BUCKET_BOUNDS_SECONDS, increasing
    Latencies,    \* what an inference may take
    Readings,     \* what _read_gpu_utilization_percent may return
    MaxEvents,    \* bound on the events processed
    Faults        \* "redis": a command raises, "kill": a work-horse is killed

ASSUME BoundsAssumption ==
    /\ Bounds \in Seq(Nat) /\ Bounds # <<>>
    /\ \A i, k \in DOMAIN Bounds : i < k => Bounds[i] < Bounds[k]
ASSUME ValuesAssumption == Latencies \subseteq Nat /\ Readings \subseteq Nat /\ MaxEvents \in Nat
ASSUME FiniteAssumption == IsFiniteSet(Workers) /\ IsFiniteSet(Latencies)
ASSUME FaultsAssumption == Faults \subseteq {"redis", "kill"}

Inf == Len(Bounds) + 1             \* the bucket "+Inf"
Buckets == 1..Inf

VARIABLES
    total, count, sum, bucket, gpu,    \* the counters and the gauge in Redis
    pc, latency,                       \* per work-horse
    begun, recorded,                   \* history: events begun; latencies in buckets
    at, shown, failedAt,               \* of the scrape
    before                             \* history: the counters when it began

counters == <<total, count, sum, bucket, gpu>>
writers == <<pc, latency, begun, recorded>>
scrape == <<at, shown, failedAt, before>>
vars == <<total, count, sum, bucket, gpu, pc, latency, begun, recorded,
          at, shown, failedAt, before>>

\* The reads of a scrape, in order; those from FirstBucket on are the buckets.
FirstBucket == 5
Reads == 1..(FirstBucket + Len(Bounds))
Idle == 0
Complete == FirstBucket + Len(Bounds) + 1

Steps == {"idle", "total", "count", "sum", "bucket", "gpu"}
Samples == [total : Nat, sum : Nat, gpu : Nat, buckets : Seq(Buckets \X Nat)]

TypeOK ==
    /\ {total, count, sum} \subseteq Nat /\ bucket \in [Buckets -> Nat]
    /\ gpu \in 0..100
    /\ pc \in [Workers -> Steps] /\ latency \in [Workers -> Latencies \cup {0}]
    /\ begun \in 0..MaxEvents /\ recorded \in [Latencies -> Nat]
    /\ at \in Reads \cup {Idle, Complete} /\ failedAt \in Reads \cup {0}
    /\ shown \in Samples
    /\ before \in [total : Nat, sum : Nat, upTo : [Buckets -> Nat]]

None == [total |-> 0, sum |-> 0, gpu |-> 0, buckets |-> <<>>]
NoCounters == [total |-> 0, sum |-> 0, upTo |-> [i \in Buckets |-> 0]]

Init ==
    /\ total = 0 /\ count = 0 /\ sum = 0 /\ gpu = 0
    /\ bucket = [i \in Buckets |-> 0]
    /\ pc = [w \in Workers |-> "idle"] /\ latency = [w \in Workers |-> 0]
    /\ begun = 0 /\ recorded = [l \in Latencies |-> 0]
    /\ at = Idle /\ shown = None /\ failedAt = 0 /\ before = NoCounters

-----------------------------------------------------------------------------
(* A work-horse.                                                           *)

Goto(w, step) == pc' = [pc EXCEPT ![w] = step]
At(w, step) == pc[w] = step /\ UNCHANGED scrape

\* An event was written: its latency is to be recorded.
Begin(w, l) ==
    /\ At(w, "idle") /\ begun < MaxEvents
    /\ begun' = begun + 1
    /\ latency' = [latency EXCEPT ![w] = l]
    /\ Goto(w, "total")
    /\ UNCHANGED <<counters, recorded>>

AddTotal(w) ==
    /\ At(w, "total")
    /\ total' = total + 1
    /\ Goto(w, "count")
    /\ UNCHANGED <<count, sum, bucket, gpu, latency, begun, recorded>>

AddCount(w) ==
    /\ At(w, "count")
    /\ count' = count + 1
    /\ Goto(w, "sum")
    /\ UNCHANGED <<total, sum, bucket, gpu, latency, begun, recorded>>

AddSum(w) ==
    /\ At(w, "sum")
    /\ sum' = sum + latency[w]
    /\ Goto(w, "bucket")
    /\ UNCHANGED <<total, count, bucket, gpu, latency, begun, recorded>>

\* The first bound that is not below the latency.
Label_Strict(l) == Min({i \in DOMAIN Bounds : l < Bounds[i]} \cup {Inf})
Label(l) == Min({i \in DOMAIN Bounds : l <= Bounds[i]} \cup {Inf})

AddBucket(w) ==
    /\ At(w, "bucket")
    /\ bucket' = [bucket EXCEPT ![Label(latency[w])] = @ + 1]
    /\ recorded' = [recorded EXCEPT ![latency[w]] = @ + 1]
    /\ Goto(w, "gpu")
    /\ UNCHANGED <<total, count, sum, gpu, latency, begun>>

Clamp_None(v) == v
Clamp(v) == IF v > 100 THEN 100 ELSE v

SetGpu(w) ==
    /\ At(w, "gpu")
    /\ \/ \E v \in Readings : gpu' = Clamp(v)
       \/ "redis" \in Faults /\ gpu' = gpu
    /\ Goto(w, "idle")
    /\ UNCHANGED <<total, count, sum, bucket, latency, begun, recorded>>

\* An exception ends record_processed_event and is swallowed there, with the
\* rest of the counters left as they are.  A lost reply is as good as a failure
\* of the next command.
AfterError_GoesOn(w) == IF pc[w] = "total" THEN "count" ELSE "gpu"
AfterError(w) == "gpu"

RecordRaises(w) ==
    /\ "redis" \in Faults
    /\ pc[w] \in {"total", "count", "sum", "bucket"}
    /\ Goto(w, AfterError(w))
    /\ UNCHANGED <<counters, latency, begun, recorded, scrape>>

Kill(w) ==
    /\ "kill" \in Faults
    /\ pc[w] # "idle"
    /\ Goto(w, "idle")
    /\ UNCHANGED <<counters, latency, begun, recorded, scrape>>

-----------------------------------------------------------------------------
(* A scrape.                                                               *)

\* How many of the recorded latencies are at or below a bound, by definition.
Within(i) == {l \in Latencies : i = Inf \/ l <= Bounds[i]}
UpTo(i) == SumFunctionOnSet(recorded, Within(i))
Now == [total |-> total, sum |-> sum, upTo |-> [i \in Buckets |-> UpTo(i)]]

Start ==
    /\ at = Idle
    /\ at' = 1
    /\ before' = Now
    /\ UNCHANGED <<counters, writers, shown, failedAt>>

\* The count of the bucket just read is added to those below it.
Below(i) == IF i = 1 THEN 0 ELSE shown.buckets[i - 1][2]
Cumulated_Forgets(i) == <<i, bucket[i]>>
Cumulated(i) == <<i, Below(i) + bucket[i]>>

\* The queue depth is read first.
Read(n) ==
    CASE n = 1 -> shown
      [] n = 2 -> [shown EXCEPT !.total = total]
      [] n = 3 -> [shown EXCEPT !.gpu = gpu]
      [] n = 4 -> [shown EXCEPT !.sum = sum]
      [] OTHER -> [shown EXCEPT !.buckets = Append(@, Cumulated(n - FirstBucket + 1))]

Get ==
    /\ at \in Reads
    /\ at' = at + 1
    /\ shown' = Read(at)
    /\ UNCHANGED <<counters, writers, failedAt, before>>

\* An exception keeps what was read and puts an empty histogram behind it.
GetRaises ==
    /\ "redis" \in Faults
    /\ at \in Reads
    /\ at' = Complete
    /\ failedAt' = at
    /\ shown' = [shown EXCEPT !.buckets = @ \o [i \in Buckets |-> <<i, 0>>]]
    /\ UNCHANGED <<counters, writers, before>>

\* The samples are yielded; the next scrape starts afresh.
Yield ==
    /\ at = Complete
    /\ at' = Idle /\ shown' = None /\ failedAt' = 0 /\ before' = NoCounters
    /\ UNCHANGED <<counters, writers>>

-----------------------------------------------------------------------------
WriterStep(w) ==
    \/ \E l \in Latencies : Begin(w, l)
    \/ AddTotal(w) \/ AddCount(w) \/ AddSum(w) \/ AddBucket(w) \/ SetGpu(w)
    \/ RecordRaises(w) \/ Kill(w)

Next == (\E w \in Workers : WriterStep(w)) \/ Start \/ Get \/ GetRaises \/ Yield

Spec == Init /\ [][Next]_vars

-----------------------------------------------------------------------------
(* Properties.                                                             *)

\* Whatever fails or is killed between two commands, the counters stay nested:
\* no latency without its event, no bucket entry without its latency.
CountersNested == SumFunction(bucket) <= count /\ count <= total

\* A scrape that does not fail shows, for every bound, as many latencies as
\* there were at some moment while it ran, and so for the other counters: the
\* reads are not atomic, but no sample goes back from one scrape to the next.
ScrapeWithinWindow ==
    at = Complete /\ failedAt = 0 =>
        /\ before.total <= shown.total /\ shown.total <= total
        /\ before.sum <= shown.sum /\ shown.sum <= sum
        /\ \A i \in Buckets : before.upTo[i] <= shown.buckets[i][2]
                              /\ shown.buckets[i][2] <= UpTo(i)

\* The histogram has each bound once, in order, with counts that never fall,
\* unless Redis failed between two buckets.
HistogramWellFormed ==
    at = Complete /\ failedAt <= FirstBucket =>
        /\ [i \in DOMAIN shown.buckets |-> shown.buckets[i][1]] = [i \in Buckets |-> i]
        /\ \A i, k \in Buckets : i < k => shown.buckets[i][2] <= shown.buckets[k][2]

=============================================================================
