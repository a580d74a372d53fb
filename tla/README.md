# Verification of the NASA EONET real-time inference system

TLA+ models of the service under `src/`, the TLC configurations that check them
on small instances, and TLAPS proofs of what holds for every size. Paths below
are relative to `src/app/` unless they say otherwise.

## 1. The system

API processes poll NASA EONET, put unseen events in batches on one RQ queue and
push results to dashboards; RQ workers infer a risk assessment for each event
and write it to Redis. All shared state is in Redis.

| Component | State it keeps | Operations | What makes it correct |
|---|---|---|---|
| EONET poller (`eonet/poller.py`) | per process: current feed, `pending_batch`, `poller_status` | `run_poller`: fetch, mark, flush, final flush, sleep | no event enqueued twice, none marked and forgotten |
| EONET client (`eonet/client.py`) | per call: the attempt | `fetch_open_events` with retries | bounded retries, a list unless it raises, one bad event skipped alone |
| Seen set and enqueueing (`queue/manager.py`) | `eonet:seen_events`, the RQ queue | `mark_event_seen`, `unmark_event_seen`, `enqueue_event_batch` | SADD decides who enqueues; depth cap; unmark only what no job carries |
| Load simulation (`routers/queue_router.py`) | none | `simulate_load`, `simulate_spike`, `clear_simulated_data` | stays within the cap; clearing leaves nothing behind |
| Worker tasks (`queue/worker_tasks.py`) | per work-horse: loaded records | `process_event_batch_task`, `process_event_task`, `process_event_dead_letter` | each event gets a final status; no result is counted twice; retries skip what is done |
| Records, markers, dead letters (`queue/manager.py`) | `eonet:event:*`, `eonet:inference-write:*`, `eonet:dlq:*`, metrics | `update_enriched_event`, `try_idempotent_inference_write`, `record_processed_event`, `save_dead_letter` | completed implies marked; dead letters complete, final and bounded |
| RQ (library) and `worker/run.py` | queue, registries, `retries_left` | fork, retry, requeue, abandoned-job cleanup | external |
| Inference (`inference/`) | Gemini client | heuristic scoring, Gemini call, normalisation, fallback | scores in range, always three recommendations, fallback on any error |
| Completion broadcast (`main.py`, `routers/websocket_router.py`) | `_broadcasted_completed_at`, connections | `event_watcher`, `ConnectionManager.broadcast` | each completion once to each connected client |
| Metrics (`metrics/prometheus.py`, `get_queue_stats`) | counters in Redis | `record_processed_event`, `update_gpu_utilization`, `collect` | nested counters, samples that never go back, a well-formed histogram |
| Read API (`routers/events.py`, `analytics.py`, `health.py`) | none | filters and aggregates | stateless |
| Dashboard (`static/`) | browser | WebSocket and REST client | rendering |

Interactions: poller and simulation call `enqueue_event_batch`, which pushes a
job and then writes the initial records; RQ hands the job to a work-horse, which
reads, changes and writes the same records; the callback of a failing job writes
the dead letter; the watcher scans the records; `/retry` and `/clear-simulated`
reach into RQ and Redis from outside.

What is hard here: two API replicas (`src/k8s/api-deployment.yaml`) and many
workers interleave at every Redis command; nothing is transactional; any process
can die between two commands; RQ retries an attempt that has already had
effects, and may run it again while it is still running; `JobTimeoutException`
is raised at an arbitrary point and caught by whichever `except Exception` is
nearest. `PROJECT.json` lists each such hazard at its line.

## 2. Modules

| Module | What it is |
|---|---|
| `EnqueueOnce` | abstract promise of the intake: jobs appear one at a time, non-empty and pairwise disjoint |
| `EonetClient` | the request to NASA EONET with its retries |
| `EventIntake` | poller, seen set, enqueueing and simulation in several API processes |
| `EventIntakeProofs` | theorems about `EventIntake` |
| `JobExecution` | a job's life: delivery, attempts, records, markers, retries, dead letters |
| `JobExecutionProofs` | theorems about `JobExecution` |
| `EventLifecycle` | abstract promise of the whole service for one event: open, accepted with its batch, completed or failed, reopened by a request only, never waiting for ever |
| `Pipeline` | `EonetClient`, `EventIntake` and `JobExecution` composed; implements `EventLifecycle` |
| `PipelineProofs` | theorems about `Pipeline`, from those of its parts |
| `ClearSimulated` | extends `JobExecution` by `POST /clear-simulated` |
| `ClearSimulatedProofs` | theorems about `ClearSimulated` |
| `Metrics` | the Prometheus counters, their writers and the scrape |
| `CompletionBroadcast` | the watcher of completed records and the WebSocket connections of one API process |
| `CompletionBroadcastProofs` | theorems about `CompletionBroadcast` |
| `FiniteLemmas` | induction over naturals and finite sets in terms of sets, and what it gives about maxima, minima and sums |
| `MetricsProofs` | theorems about `Metrics` |
| `Scoring` | the heuristic tier of the inference as operators: severity, risk, trend, impact, confidence |
| `BatchInference` | one inference call: scoring, Gemini in parallel threads, normalisation, fallback, timeout |
| `BatchInferenceProofs` | lemmas about the operators of `Scoring`, theorems about `BatchInference` |
| `MCEventIntake`, `MCJobExecution`, `MCPipeline`, `MCClearSimulated`, `MCMetrics`, `MCCompletionBroadcast`, `MCBatchInference` | constants for TLC |

The modules keep the control of the code and abstract its data: an event is its
identifier, a record its status and `job_id`, an inference is whether it returned
or raised, a reply whether it can fail to validate (`Malformed`).

**EventIntake.** One API process is one asyncio thread, and none of the
coroutines suspends between taking an event and enqueueing its batch (the
`async` helpers of the manager call Redis synchronously). So a process has one
program counter (`pc`): `idle` between polls, `mark` in the loop of lines 46-62,
`check`/`push`/`store` inside `enqueue_event_batch`, `unmark` in the deferring
loops. `handler` says whether the poller or a simulation request runs.
`MarkSeen` is SADD plus the flush test, `HasCapacity` the depth check,
`Push` the enqueue, `Store` one initial record. `MarkFails` and
`EnqueueRaises` are the two ways a Redis error is handled (swallowed, or ending
the poll), `Crash` is a restart. Workers only take jobs out (`Dequeue`), retries
put them back without a depth check (`Redeliver`).

**JobExecution.** A worker is one work-horse at a time: `load`/`begin` are
`_mark_event_processing`, `infer` the call of the engine, `claim`/`write`/`count`
are `_persist_event_success`, `blame` the `except` branches, `cleanup`/`finally`
the clearing of the current task, `raise`/`trim`/`demote` the failure callback
and `settle` RQ's decision. `Single` jobs run `process_event_task`, whose error
paths differ; nothing in the code enqueues such a job at present, but
`enqueue_event` offers it. Every Redis command that two processes can interleave
is a step of its own. Two reductions: the current-task write and the processing
write are one step, since no property relates them; and the callback's read and
write of the record in `Demote` are one step, since only `status` is replaced.

**EonetClient and Pipeline.** A call of `fetch_open_events` shares nothing with
other processes, so a failed request, its backoff and the next request are one
step (`Retry`). The call ends with the events that parse (`Answer`), with an empty
list (`GiveUp`), or with an exception that ends the poll (`Raise`: `response.json()`
or `data.get` fails, and neither `except` of the client catches it). `Pipeline`
instantiates the three components and lets them share Redis: the push of the
intake is the `Enqueue` of the execution, an initial record is a `Store` of both,
what the intake takes for its environment (`Dequeue`, `Redeliver`) is a delivery,
a reschedule or a requeue of RQ. The intake's `queued`, `returned` and
`records` are not variables of their own but read off `rq`, `left` and `record`, so
that each composed step has to satisfy both components. The list of events that parse
(`Parsed`) is built by the recursive function `ParsedTo`, the code's own loop, and not by
`SelectSeq`, which the proof system cannot expand. Jobs are named in advance,
one name for each batch that can be pushed; the order in which an API process
writes the initial records of a batch is the one in the payload. The promise of
`EventLifecycle` is stated about an event's `Stage`, computed from the jobs that
carry it, where RQ has them and the record's status.

**ClearSimulated.** The request reads the synthetic records key by key
(`ReadRecord`), deletes each with the markers that SCAN finds for it
(`DeleteRecord`, `DeleteMarker`), and removes each job once (`RemoveJob`), all of it
beside every action of `JobExecution`. A Redis error ends the request in the first
two phases (`RequestRaises`) and is ignored in the third (`RemovalFails`). RQ is
assumed to forget a job that waits or rests, in whatever registry; `Job.delete`
takes it out of the scheduled one, which the code's own key list does not name. A
running attempt goes on and puts its job back when it ends.

**Metrics.** A work-horse is past its record write when it begins;
`AddTotal`, `AddCount`, `AddSum`, `AddBucket` and `SetGpu` are the commands that a scrape
can see, an error ends the recording (`AfterError`). The scrape makes one GET per
step, in the code's order. Latencies and bounds are whole numbers: only their order
matters. `recorded` and `before` are history, the latencies that got into a bucket and
what the counters were when the scrape began. FastAPI runs the synchronous `/metrics`
endpoint in a thread, so it interleaves with everything else.

**CompletionBroadcast.** Coroutines of one API process interleave at their
awaits, so the steps are: one key of the watcher's scan with the note in
`_broadcasted_completed_at` and the copy of the connections (`Visit`), one send
(`Send`, of the watcher's or the poller's broadcast, the last one with the
discarding of the dead), and `Connect`, `Close`, `Disconnect` of clients. A record
is its `completed_at`, a count of completions; 0 stands for every other status.
`SCAN` may return a key twice. `got` and `since` are history: what each client
received, and what had been announced when it connected. `/ws/queue` uses the
same class for statistics that are replaced every three seconds and is left out.

**Scoring and BatchInference.** `Scoring` follows `rules.py`, `geo_utils.py` and
`_build_heuristic_state` number by number, with coordinates in whole degrees.
`BatchInference` starts when the scores are computed and the calls submitted;
threads take calls in order (`StartCall`), end them in any order (`Answer`), and
the main thread applies each answer field by field (`Collect`, `Assign`), because
the job timeout can strike between two fields. In a batch it is then taken for
a failed call, while waiting it leaves the `with` block, which first waits for all
calls (`Drain`); in `run_inference`, where the call runs in the main thread,
`analyze` turns it into a fallback. `JobExecution` uses the result of this: an
inference returns, or raises for the whole batch.

The environment's faults are enabled one by one by the constant `Faults`, so
each run says exactly under which faults its properties hold.

RQ is external. Assumed of it: the failure callback runs in the work-horse at
each raised failure, before `retries_left` is counted down; a killed work-horse
fails the job without the callback; the started-job cleanup retries an attempt it
takes for abandoned; `requeue` keeps `retries_left` as it is. An abandoned attempt
with no retries left is not modelled.

## 3. Runs

| Run | Instance | What it checks |
|---|---|---|
| `IntakeFaults` | 2 API processes, 3 events and a synthetic one, a feed that is listed or empty, batch 2, depth 1; crash, Redis errors, redelivery | types, `EnqueuedOnce`, `RecordHasJob`, `BatchWithinSize`, `DepthBound`, `UnmarkOnlyDeferred`, refinement of `EnqueueOnce` |
| `IntakeLost` | crash only | `SeenIsEnqueued` **violated** |
| `Pipeline` | 2 API processes, 1 worker, 2 events and one that does not parse, batch 2, depth 1, 2 requests per poll, 1 retry, 1 requeue, one malformed reply, fair | types, `CountedOnce`, `IdleShowsNoTask`, `FinishedMeansSettled`, refinement of `EventLifecycle` with its progress (`ImplementsLife`) |
| `JobFaults` | 1 worker, a batch of 2 and a single job, a malformed reply for the latter, 1 retry, index of 1; kill, timeout, Redis errors | types, `CompletedIsMarked`, `DeadLetterIsFinal`, `CompletedStays` |
| `JobStall` | 2 workers on one job with a malformed reply, 1 retry, 1 requeue, index of 1; stalled attempts, overtaking, API crash, fair | `ExhaustedIsDeadLettered`, `DlqBounded`, `CountedOncePerMarker`, `EveryJobSettles` |
| `JobOvertaken` | worker faster than the initial writes | `QueuedComesFirst` **violated** |
| `JobKilled` | work-horse killed | `ExhaustedIsDeadLettered` **violated** |
| `JobBadItem` | malformed reply in a batch | `BadItemIsolated` **violated** |
| `Clear` | 2 workers, a synthetic batch of 2 and a real single job, both with a malformed reply, 1 retry, 1 requeue; Redis errors of the request | `ClearIsComplete`, `ClearedStaysClear`, `RealCountedOnce` |
| `Metrics` | 2 workers, 2 events at a time, latencies at, between and above 2 bounds, GPU readings in and out of range, kills and Redis errors at every command | types, `CountersNested`, `ScrapeWithinWindow`, `HistogramWellFormed` |
| `Broadcast` | 2 connections, 2 events, 2 completions, any number of failed passes, a restart or `poll_complete`, fair | types, `ReceivedInOrder`, `NoGaps`, `EveryCompletionAnnounced` |
| `Inference` | batches of 3, 1 and a single event asked in 2 threads with good, padded, blank, overlong, malformed and failed replies and a timeout; 2700 scored batches at both sides of every threshold | types, `OwnAnswer`, `TierTwoIsWhole`, `FallbackIsWhole`, `ThreeRecommendations`, `RiskGrowsWithTracking`, `ImpactFollowsLatitude`, `NothingOutlivesTheCall`, `InferenceEnds` |

Bounds. Two API processes and two workers are the smallest numbers with races;
three events with a batch size of two give a full and a partial batch; depth 1
makes the queue full at most flushes; one retry and one requeue give a first
attempt, a retried one and one after exhaustion; `DlqCap` 1 makes the index
overflow. In `Pipeline` two events that parse give every batch that two pollers
can form of them, apart or together, and `MaxAttempts` 2 a first and a last
request; `Clear` has a job of each kind, so that the request can meet an attempt
of either at each of its steps; `MaxEvents` 2
lets both workers be between any two commands at once. `MaxRequeues` bounds requests, `Events`, `Simulated` and `Jobs` bound
everything else in them; the state spaces are finite without a constraint.
Symmetry is used only in runs without liveness.
`MaxCompletions` 2 gives an event that completes twice and two that complete
once; `MaxExtras` 1 lets one restart or `poll_complete` happen at any point, two
are covered by the proofs only; failed passes are not bounded. `MaxThreads` is 2 instead of 4 so
that a batch of three has a call waiting for a thread.
The `Job*` runs, `Clear` and `Inference` switch deadlock checking off: when each job is
finished or failed and no request is left, or the call has ended, nothing has to
happen. In `EventIntake` and `Pipeline` a poll is always possible, in
`CompletionBroadcast` a pass, in `Metrics` a scrape.

What the runs that violate a property show:

* `IntakeLost`: the set that is documented as "already enqueued/processed"
  holds events that were only marked. A crash, or a Redis error in the enqueue
  (the `except` of the poller does not unmark `pending_batch`), loses them, and
  since every SADD renews the 7-day expiry the loss lasts as long as polling does.
* `JobOvertaken`: the initial records are written after the push, over whatever
  a worker has already written. A completed event can fall back to `queued` with
  no inference, and since its job has finished nothing runs it again. (A worker that
  found no record at all works under `job_id` "unknown", and so does its marker.)
* `JobKilled`: the dead letter is written in the process whose death it should
  record.
* `JobBadItem`: `run_inference_batch` validates all results in one expression,
  so one invalid reply drops its batch.

Related limits that the passing runs state by leaving a fault out:
`FinishedMeansSettled` needs that no kill, timeout, Redis error or overtaking
happens. A kill between the SET NX of the marker and the write of the record
makes the retry skip the record while the job finishes, so it stays
`processing` (add `INVARIANTS FinishedMeansSettled` to `JobKilled.cfg` to see the trace).
`CompletedStays` does not say that a completed record is final, because it is not. It says what
takes it back, in runs without stalled attempts and overtaking:
(a) The job timeout strikes after the record was written, while the event is being counted
(`worker_tasks.py:80-82`): the task's `except` writes `failed` over `completed`. If the attempt fails,
its retry finds the event open, sets it to `processing`, infers it again, and skips the write because
the marker is consumed: the event stays unfinished although its job finishes.
(b) The failure callback of an exhausted job writes `dead_letter` over the first event of its batch,
completed or not (`worker_tasks.py:227`). A requeue then reopens that event in the same way.
Nothing else reopens a completed event: a retry skips it (`worker_tasks.py:52`), and neither an
inference that fails nor the API's initial writes touch it. A stalled attempt does
write `processing` over the `completed` of its retry; no property excludes that.
`ImplementsLife` needs that no process crashes and no Redis command fails; the
`Pipeline` run has the faults of the outside world only, EONET's and the model's.
`ClearIsComplete` and `ClearedStaysClear` except the jobs that run, or are being
stored, while the request does: the endpoint answers "Simulated data cleared"
(`routers/queue_router.py:143`) and the attempt then writes its records, its
marker and its registry entry again. They also need that no worker overtakes the initial
writes and no API process dies between them: a record written under `job_id`
"unknown" does not lead the request to its job. The dead-letter list keeps
the entries of simulated jobs.
`HistogramWellFormed` excludes an error between two buckets: the handler appends a
whole empty histogram to the buckets already read, so that bounds appear
twice. `ScrapeWithinWindow` says nothing of how the samples relate to each other:
`_sum` and the buckets of one scrape may be from different moments.
`ThreeRecommendations` follows the lists as the code builds them: the lengths in the table of
`rules.py` (`Recommendations`), and of a reply the lines that are not blank, cut to three and padded
with the last one.
`FallbackIsWhole` excludes a timeout between two assignments: the event then
keeps Gemini's narrative under the label `heuristic`, and `TierTwoIsWhole` says
that the converse cannot happen.
`EveryCompletionAnnounced` assumes `PassesSucceed`: if passes fail for ever, others come to their end
for ever. Without it the property is false: a record that does not parse makes `json.loads`
(`main.py:45`) end every pass at its key, and the keys that SCAN returns behind it are not reached
until that record expires or is deleted.
It speaks of completions that stay: one that another
status or completion overwrites between two passes is never broadcast, and a
client that is not connected during the send does not get it later.

Fairness. `run_poller` is an endless loop and catches every exception, so
`Pipeline` assumes weak fairness of the steps of each API process's poll loop.
`worker.work(with_scheduler=True)` keeps taking and rescheduling jobs, so
`Pipeline` and `JobExecution` assume it of delivery, rescheduling and of the steps
of each work-horse, and `JobExecution` of the API's pending writes. Requests,
expiry and faults are never assumed to happen. One condition is strong: of
infinitely many requests of an API process to EONET infinitely many are answered.
Without it NASA may be down for ever and no event is accepted. Nothing else needs
strong fairness: the queue is full only finitely often because there are finitely
many events to push, and retries run out. The watcher is an endless loop
that catches every exception, so `CompletionBroadcast` assumes weak fairness of its
passes (`PassesSucceed` above is a condition of the property, not of the specification), and of
each send: the code sets no bound, the server's ping timeout does.
`BatchInference` assumes it of the main thread and of the threads' calls, which the
client library has to end.

## 4. Proofs

All theorems are for every number of processes, workers, jobs and events, every
batch size and depth, and every set of faults unless said otherwise. They rest
on the named assumptions about the constants, which TLC evaluates in the runs:

* `EventIntake`, `CompletionBroadcast`: finite sets of processes, events and clients,
  positive sizes, feeds that are lists of events.
* `JobExecution`: payloads that are non-empty and free of repetitions, a positive index
  limit. A retry bound of zero is included.
* `ClearSimulated`: a job's events are all synthetic or all real, which is how the code
  builds them.
* `Metrics`: bounds that increase, finitely many workers and possible latencies.
* `BatchInference`: non-empty workloads (one event if it is `run_inference`), replies as the
  code can receive them, at least one thread.
* `Pipeline`: one job name for each batch that can be formed, at least one request and one
  retry (`eonet_max_retries` is 3 and `job_max_retries` 2 in `config.py`).

Three hypotheses occur besides. They are not assumptions of a module but stated in the
theorem that needs them:

* `Unshared`, no two jobs have an event in common. It is what `EventIntakeProofs` proves of the
  intake (`NeverEnqueuedTwice`), simulated batches included, whose ids are fresh.
  `PipelineProofs` discharges it instead of assuming it.
* `OneAtATime`, no attempt is abandoned while it runs and no worker overtakes the initial
  writes. Runs `JobStall` and `JobOvertaken` have those faults.
* `Undisturbed`, no fault but an API process that dies between initial writes.

`EventIntakeProofs`

* `TypeCorrect`: inductive as it stands.
* `NeverEnqueuedTwice`, `UnmarkingIsSafe`, `IntakeKeepsPromise`: `EnqueuedOnce` is
  not inductive, since nothing in it says that the batch about to be pushed is
  new. `Ownership` adds it: what a process holds before its push is marked (or
  a fresh synthetic id), is in no job, and is held by no other process.
  For the refinement `Flushed` says that a batch in flight is not empty.
* `RecordsHaveJobs`: `Stored`, a batch being stored is in a job already.
* `QueueDepthBounded`: `DepthInv` counts the processes that have passed the check
  and not pushed yet together with the queue.
* `BatchSizeBounded`: `Collecting`, a batch still being filled is short of the limit.
* `MarkedEventsAreEnqueued`: without `"crash"` and `"redis"` in `Faults`,
  `Accounted` says that a marked event is in a job or held by a process.

`JobExecutionProofs`

* `TypeCorrect`: with `Shape`, a work-horse that persists has something to persist.
* `CompletedHoldsMarker`: `MarkedInv`, a work-horse past its SET NX works under a
  consumed marker, and no step removes one.
* `CountedAtMostOncePerMarker`: `CountInv`, the counts plus the work-horses that
  still owe one never exceed the markers; a work-horse owes one only after
  winning the SET NX.
* `DeadLettersAreFinal`: `FinalInv`, an attempt RQ has not given up on is the only
  one of its job, so nobody else moves the job between callback and decision.
* `DeadLettersBounded`, without `"kill"` and `"redis"` in `Faults`: inductive with the
  types. Saving an entry makes its work-horse one that is about to trim, and only
  trimming makes it anything else. With either fault an untrimmed entry can stay
  until the next callback.
* `ExhaustedJobsAreFound`, under the same two conditions: `BuriedInv` adds that an attempt
  past the callback, with no retry left, has its job in the index or the index is
  full. It needs `FinalInv`: no other attempt takes a retry from that job meanwhile.
  Run `JobKilled` shows the property fail with `"kill"`.
* `CompletedUnlessTimedOut`, under `OneAtATime` and `Unshared`: `CompletedStays`, with kills, timeouts,
  Redis errors and requeues. A record is set to `processing` by an
  attempt that loaded it one step earlier, and to `queued` by the API. `WriterInv` says that
  neither finds it completed by then: work-horses handle only their own job's events, and of a job
  whose initial records are not all written no attempt has begun. `OpenInv` covers the other two
  statuses: an attempt of `process_event_task` finds its event open until it claims it, so that
  `blame` without a timeout never meets a completed record, and an attempt in `trim` or `demote` has
  no retries left. `OneAtATime` excludes the stalled attempt, which does reopen its event.
* `FinishedJobsAreSettled`, under `Undisturbed` and `Unshared`: `OutcomeInv` follows an attempt
  through its batch. Until it persists, every event of it is untouched (no marker, not counted,
  not completed); while it persists, those it no longer holds are completed and counted once and
  those it still holds are untouched; when it returns, all are completed. So a failed attempt
  leaves nothing that makes the next one skip an event, which is what goes wrong after a kill.

`ClearSimulatedProofs`

* `RealEventsUnharmed`, for every fault: the request deletes markers, and a counted event
  whose marker is gone would break the count of `JobExecution`; `RealBalanced` is that invariant for the
  events the request cannot name.
* `ClearedForGood`, under `Unshared`, for every fault: the property says nothing of a request under way.
  `WorkInv` says that a work-horse handles only its job's events under a `job_id` that fits them.
  `BeforeInv`: what has a marker has a record, so whoever deletes all records finds all markers.
  `DuringInv`, for each job that did not run since the request began: a record of it is still to
  be read or has been found, a marker of it has a record or was returned by the scan.
* `ClearLeavesNothing`, under `Unshared`, without `"crash"` and `"overtake"`: `StoredInv`, each event of
  a job RQ has is stored under that job's id or still to be stored; `FindInv`, so each
  job at rest is on the list of removals or a record that leads to it is still to be read. With
  either of the two faults a record can keep the id "unknown", which leads nowhere.

`PipelineProofs`

* The module instantiates the proofs of the two parts with the composition's values, proves
  that the assumptions of the parts hold there (`ExecutionApplies`, `IntakeApplies`), and that each step of
  `Pipeline` is a step or a stutter of each part. `PipelineInv` is their invariants together
  with `Linked`: a job RQ knows is one the intake has enqueued. From it and `EnqueuedOnce` follows
  `JobsApart`, the `Unshared` that execution needs.
* `TypeCorrect`, `EventsCountedOnce`, `FinishedJobsSettled`, `NoTaskWhenIdle` are consequences.
* `KeepsLifecycle`: `Spec => Life!Spec`, the safety half of `ImplementsLife`. Each step of client, intake
  and execution changes the `Stage` of events as `EventLifecycle` allows, or not at all. The steps that
  show are the push (accepted, the batch as a whole), the write of a record (completed), RQ's decision
  after an exhausted attempt (failed) and a requeue.

`BatchInferenceProofs`

* `TypeCorrect`, `RiskIsMonotone`, `ImpactIsByLatitude`: lemmas about `Scoring` give the range of each score for
  every event, a severity that grows with each threshold, and the comparison of a mean latitude
  with 55 degrees as one of the sum of latitudes with 55 times their number.
* `ResultsAreTheirOwn`, `TierTwoResultsAreWhole`, `FallbacksAreWhole`: `StateInv`
  says that an event's state is the fallback with the first k fields of its own answer applied,
  k in 0..6, all six once it was collected without the timeout. The label `mode` is applied after the texts,
  so an event that has it has those.
* `AlwaysThreeRecommendations`: with `StateInv`, lemmas about lists. Dropping blank lines leaves lines of the
  reply, the cut leaves one to three of a usable one, the padding fills up to three; the table's lists
  have three lines each.
* `NoCallOutlives`: `FlowInv` and `EndInv`, the call leaves its `with` block only when no call is waiting or
  running.

`MetricsProofs`

* `CountersStayNested`: `NestedInv`, a latency that was counted and has no bucket entry yet is owed one by a
  work-horse on its way to it, and an event in the total is owed a latency; an error or a kill
  forgives the debt. Entries are a sum over buckets, debts a cardinality.
* `ScrapesWithinWindow`: counters only grow, so each value read lies between the one `before` the scrape
  (`StartedInv`) and the one now (`ReadInv`); a cumulative bucket is a sum of buckets that were
  read at different moments.
* `HistogramsWellFormed`: `ScrapeInv`, the list holds as many buckets as have been read,
  in order, and each count is the one before it plus a counter that is never
  negative.

`CompletionBroadcastProofs`

* `TypeCorrect`: inductive as it stands.
* `DeliveredInOrder`: `ReceivedInOrder` says nothing of the message on its way.
  `OrderInv` adds that what is announced is never newer than the record, nothing a
  client has is newer than what is announced, and the message in flight is newer
  than what its receivers have of its event. `ConnsInv` says what the set of
  connections, the copies and the dead are: an open client is always in the set.
* `NobodyIsSkipped`: `GapsInv`, what a client lacks during a broadcast is what it is
  still to be sent.

`FiniteLemmas`: the library's induction theorems take an operator as a parameter, which the
installed provers cannot instantiate. `NatSetInduction` and `FiniteSetInduction` are the same
facts about a set of naturals, or of subsets, and are instantiated like any other. From them
come the maximum and minimum of a finite set and the sum of a function over one: it does not depend
on the order of adding up (`SumsExist`, `SumIsSums`), changes by what one term changes
(`SumOneChanged`), and bounds its terms.

Only model-checked: the liveness properties `EveryJobSettles`, `EveryCompletionAnnounced`, `InferenceEnds` and
the progress half of `ImplementsLife`, all out of the prover's reach, and `SeenIsEnqueued`,
`QueuedComesFirst` and `BadItemIsolated`, which their runs show violated. Every other property of the
runs is stated by a theorem; `DlqBounded`, `ExhaustedIsDeadLettered`, `CompletedStays`,
`ClearedStaysClear` and `ClearIsComplete` under the hypotheses named above.

## 5. Not modelled, and the plan

Not modelled: the dashboard and the read API (no state of their own),
`get_queue_stats` and the latency list it reads, `fetch_categories`, wording and
logging, `poller_status`, backoff lengths, Redis TTLs other than that of the
current task. They need a clock: records, markers, the seen set and the task key
expire, so an expired marker would let a late attempt write again and an expired
seen set would let the poller enqueue known events again. The properties hold within those
lifetimes (24 hours, 7 days renewed by every SADD).
Hazards without a property are explained in `PROJECT.json`.

Left, most important first:

1. `CompletedUnlessTimedOut` with an abandoned attempt that is past its initial reads: which
   part of `OneAtATime` the theorem can do without.
2. `FinishedMeansSettled` with timeouts: a timeout between two events is harmless, one between
   marker and record is not.
3. Lemmas that tie `JobExecution`'s two outcomes of an inference to the final states of
   `BatchInference`.
