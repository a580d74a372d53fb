---------------------------- MODULE EventIntake ----------------------------
(***************************************************************************)
(* How events get from NASA EONET into the inference queue.                *)
(*                                                                         *)
(* Every API process runs the EONET poller (app/eonet/poller.py) and       *)
(* serves the load-simulation endpoints (app/routers/queue_router.py);     *)
(* both enqueue batches through app/queue/manager.py.  Within one process  *)
(* nothing suspends between taking an event and enqueueing its batch, so a *)
(* process is one thread of control; two processes (k8s runs two API       *)
(* replicas) and the workers interleave at every Redis command, and each   *)
(* action below is one such command with the Python that follows it.       *)
(***************************************************************************)
EXTENDS Naturals, Sequences, FiniteSets

CONSTANTS
    Api,          \* API processes
    Events,       \* EONET event identifiers
    Simulated,    \* identifiers of synthetic events (SIM_..., SPIKE_...)
    Feeds,        \* event lists one EONET fetch may return
    BatchSize,    \* settings.inference_batch_size
    MaxDepth,     \* settings.max_queue_depth
    Faults        \* the faults the environment may inject

Ids == Events \cup Simulated

ASSUME ApiAssumption == IsFiniteSet(Api) /\ Api # {}
ASSUME IdsAssumption == /\ IsFiniteSet(Events) /\ IsFiniteSet(Simulated)
                        /\ Events \cap Simulated = {}
ASSUME FeedsAssumption == Feeds \subseteq Seq(Events)
ASSUME SizeAssumption == BatchSize \in Nat \ {0} /\ MaxDepth \in Nat \ {0}
ASSUME FaultsAssumption == Faults \subseteq {"crash", "redis", "redeliver"}

VARIABLES
    seen,       \* Redis set eonet:seen_events
    records,    \* events that have an enriched record in Redis
    jobs,       \* batch of every job ever enqueued; a job id is its index
    queued,     \* jobs waiting in the RQ queue
    returned,   \* the queued jobs that a retry put back
    issued,     \* synthetic identifiers generated so far
    handler,    \* per process: the coroutine between two suspensions
    pc,         \* per process: what that coroutine does next
    todo,       \* per process: fetched events not looked at yet
    pending     \* per process: pending_batch

store == <<seen, records, jobs, queued, returned, issued>>
local == <<handler, pc, todo, pending>>
vars  == <<seen, records, jobs, queued, returned, issued, handler, pc, todo, pending>>

Steps == {"idle", "mark", "check", "push", "store", "unmark"}

TypeOK ==
    /\ seen \subseteq Events
    /\ records \subseteq Ids
    /\ jobs \in Seq(SUBSET Ids)
    /\ queued \subseteq DOMAIN jobs
    /\ returned \subseteq queued
    /\ issued \subseteq Simulated
    /\ handler \in [Api -> {"poller", "simulate"}]
    /\ pc \in [Api -> Steps]
    /\ todo \in [Api -> Seq(Events)]
    /\ pending \in [Api -> SUBSET Ids]

Carried == UNION {jobs[i] : i \in DOMAIN jobs}

Init ==
    /\ seen = {} /\ records = {} /\ issued = {}
    /\ jobs = <<>> /\ queued = {} /\ returned = {}
    /\ handler = [p \in Api |-> "poller"]
    /\ pc = [p \in Api |-> "idle"]
    /\ todo = [p \in Api |-> <<>>]
    /\ pending = [p \in Api |-> {}]

-----------------------------------------------------------------------------
(* Collecting a batch.                                                     *)

\* A poll starts with what the EONET client returned; a failed fetch returns
\* the empty list.
Fetch(p) ==
    /\ pc[p] = "idle"
    /\ \E feed \in Feeds : todo' = [todo EXCEPT ![p] = feed]
    /\ pc' = [pc EXCEPT ![p] = "mark"]
    /\ handler' = [handler EXCEPT ![p] = "poller"]
    /\ UNCHANGED <<store, pending>>

\* SADD answers 1 only to the caller that added the member.
IsNew_Unchecked(e) == TRUE
IsNew(e) == e \notin seen

BatchFull_Late(batch) == Cardinality(batch) > BatchSize
BatchFull(batch) == Cardinality(batch) >= BatchSize

\* SADD of the next event of the feed, and the flush test.
MarkSeen(p) ==
    LET e == Head(todo[p])
        batch == IF IsNew(e) THEN pending[p] \cup {e} ELSE pending[p]
    IN  /\ pc[p] = "mark" /\ todo[p] # <<>>
        /\ seen' = seen \cup {e}
        /\ todo' = [todo EXCEPT ![p] = Tail(@)]
        /\ pending' = [pending EXCEPT ![p] = batch]
        /\ pc' = [pc EXCEPT ![p] = IF BatchFull(batch) THEN "check" ELSE "mark"]
        /\ UNCHANGED <<records, jobs, queued, returned, issued, handler>>

\* mark_event_seen swallows a Redis error and answers False, whether or not
\* its SADD took effect (the EXPIRE after it may be what failed).
MarkFails(p) ==
    /\ "redis" \in Faults
    /\ pc[p] = "mark" /\ todo[p] # <<>>
    /\ seen' \in {seen, seen \cup {Head(todo[p])}}
    /\ todo' = [todo EXCEPT ![p] = Tail(@)]
    /\ UNCHANGED <<records, jobs, queued, returned, issued, handler, pc, pending>>

\* The feed is exhausted: flush the last partial batch, or end the poll.
EndOfFeed(p) ==
    /\ pc[p] = "mark" /\ todo[p] = <<>>
    /\ pc' = [pc EXCEPT ![p] = IF pending[p] = {} THEN "idle" ELSE "check"]
    /\ UNCHANGED <<store, handler, todo, pending>>

\* One batch of a simulate_load / simulate_spike request: fresh uuid4 ids,
\* never entered in the seen set.  A request for n batches is n such steps.
Simulate(p) ==
    /\ pc[p] = "idle"
    /\ \E batch \in SUBSET (Simulated \ issued) :
          /\ batch # {} /\ Cardinality(batch) <= BatchSize
          /\ issued' = issued \cup batch
          /\ pending' = [pending EXCEPT ![p] = batch]
    /\ pc' = [pc EXCEPT ![p] = "check"]
    /\ handler' = [handler EXCEPT ![p] = "simulate"]
    /\ UNCHANGED <<seen, records, jobs, queued, returned, todo>>

-----------------------------------------------------------------------------
(* enqueue_event_batch.                                                    *)

HasCapacity_OffByOne == Cardinality(queued) <= MaxDepth
HasCapacity == Cardinality(queued) + 1 <= MaxDepth

FindRoom_SkipsPush(p) ==
    /\ pc[p] = "check" /\ HasCapacity
    /\ pc' = [pc EXCEPT ![p] = "store"]
    /\ UNCHANGED <<store, handler, todo, pending>>
FindRoom(p) ==
    /\ pc[p] = "check" /\ HasCapacity
    /\ pc' = [pc EXCEPT ![p] = "push"]
    /\ UNCHANGED <<store, handler, todo, pending>>

\* Queue full, poller: the batch is unmarked so that a later poll retries it.
DeferBatch(p) ==
    /\ pc[p] = "check" /\ ~HasCapacity /\ handler[p] = "poller"
    /\ pc' = [pc EXCEPT ![p] = "unmark"]
    /\ UNCHANGED <<store, handler, todo, pending>>

\* Queue full, simulation: the batch is dropped.
DropSimulated(p) ==
    /\ pc[p] = "check" /\ ~HasCapacity /\ handler[p] = "simulate"
    /\ pc' = [pc EXCEPT ![p] = "idle"]
    /\ pending' = [pending EXCEPT ![p] = {}]
    /\ UNCHANGED <<store, handler, todo>>

NextJob == Len(jobs) + 1

\* inference_queue.enqueue: the job exists and is in the queue.
AddJob_IdOnly(batch) ==
    /\ queued' = queued \cup {NextJob}
    /\ UNCHANGED jobs
AddJob(batch) ==
    /\ jobs' = Append(jobs, batch)
    /\ queued' = queued \cup {NextJob}

Push(p) ==
    /\ pc[p] = "push"
    /\ AddJob(pending[p])
    /\ pc' = [pc EXCEPT ![p] = "store"]
    /\ UNCHANGED <<seen, records, returned, issued, handler, todo, pending>>

\* _store_initial_enriched_event for one event of the batch; after the last
\* one the poller goes on with the feed and a simulation is over.
Store(p) ==
    /\ pc[p] = "store"
    /\ \E e \in pending[p] :
          /\ records' = records \cup {e}
          /\ pending' = [pending EXCEPT ![p] = @ \ {e}]
          /\ pc' = [pc EXCEPT ![p] = IF pending[p] # {e} THEN "store"
                                     ELSE IF handler[p] = "poller" THEN "mark"
                                     ELSE "idle"]
    /\ UNCHANGED <<seen, jobs, queued, returned, issued, handler, todo>>

\* unmark_event_seen for one event of a deferred batch.
Unmark_WholeSet(p) ==
    /\ pc[p] = "unmark"
    /\ seen' = {}
    /\ pending' = [pending EXCEPT ![p] = {}]
    /\ pc' = [pc EXCEPT ![p] = "mark"]
    /\ UNCHANGED <<records, jobs, queued, returned, issued, handler, todo>>
Unmark(p) ==
    /\ pc[p] = "unmark"
    /\ \E e \in pending[p] :
          /\ \/ seen' = seen \ {e}
             \/ "redis" \in Faults /\ seen' = seen    \* error logged, mark stays
          /\ pending' = [pending EXCEPT ![p] = @ \ {e}]
          /\ pc' = [pc EXCEPT ![p] = IF pending[p] # {e} THEN "unmark" ELSE "mark"]
    /\ UNCHANGED <<records, jobs, queued, returned, issued, handler, todo>>

-----------------------------------------------------------------------------
(* Faults.                                                                 *)

\* The process forgets its coroutine: the poll or request is over.
Forget(p) ==
    /\ pc' = [pc EXCEPT ![p] = "idle"]
    /\ todo' = [todo EXCEPT ![p] = <<>>]
    /\ pending' = [pending EXCEPT ![p] = {}]
    /\ UNCHANGED handler

\* A Redis error in enqueue_event_batch reaches the poller's "except", which
\* ends the poll; the failing command is the one pc names.  An enqueue whose
\* reply was lost has pushed the job.
EnqueueRaises(p) ==
    /\ "redis" \in Faults
    /\ pc[p] \in {"check", "push", "store"}
    /\ Forget(p)
    /\ \/ UNCHANGED store
       \/ /\ pc[p] = "push"
          /\ AddJob(pending[p])
          /\ UNCHANGED <<seen, records, returned, issued>>

\* The process dies at any point and is restarted by its supervisor.
Crash(p) ==
    /\ "crash" \in Faults
    /\ pc[p] # "idle"
    /\ Forget(p)
    /\ UNCHANGED store

-----------------------------------------------------------------------------
(* The queue's other users: RQ workers and the retry paths.                *)

Dequeue(j) ==
    /\ j \in queued
    /\ queued' = queued \ {j}
    /\ returned' = returned \ {j}
    /\ UNCHANGED <<seen, records, jobs, issued, local>>

\* A scheduled retry, or POST /retry: back in the queue with no depth check.
Redeliver(j) ==
    /\ "redeliver" \in Faults
    /\ j \in DOMAIN jobs \ queued
    /\ queued' = queued \cup {j}
    /\ returned' = returned \cup {j}
    /\ UNCHANGED <<seen, records, jobs, issued, local>>

-----------------------------------------------------------------------------
PollStep(p) ==
    \/ Fetch(p) \/ MarkSeen(p) \/ EndOfFeed(p)
    \/ FindRoom(p) \/ DeferBatch(p) \/ DropSimulated(p)
    \/ Push(p) \/ Store(p) \/ Unmark(p)

ApiStep(p) == PollStep(p) \/ Simulate(p) \/ MarkFails(p) \/ EnqueueRaises(p) \/ Crash(p)

Worker == \E j \in queued : Dequeue(j)

Next ==
    \/ \E p \in Api : ApiStep(p)
    \/ Worker
    \/ \E j \in DOMAIN jobs : Redeliver(j)

Spec == Init /\ [][Next]_vars

-----------------------------------------------------------------------------
(* Properties.                                                             *)

\* No event is carried by two jobs: with several pollers marking, deferring
\* and unmarking the same feed, and with crashes, Redis errors and retries in
\* between, the SADD answer keeps an event from being enqueued twice.
EnqueuedOnce ==
    \A i, j \in DOMAIN jobs : i # j => jobs[i] \cap jobs[j] = {}

\* Intake implements its promise to the workers, batch by batch.
Promise == INSTANCE EnqueueOnce
ImplementsPromise == Promise!Spec

\* No job carries more than inference_batch_size events (job_timeout is
\* computed from the batch, the flush test runs once per feed event).
BatchWithinSize ==
    \A i \in DOMAIN jobs : Cardinality(jobs[i]) <= BatchSize

\* The depth check and the push are two commands, so processes can overshoot
\* the cap, but by at most one job per other API process; only jobs that a
\* retry put back come on top.
DepthBound ==
    Cardinality(queued \ returned) + 1 <= MaxDepth + Cardinality(Api)

\* An event with an enriched record is carried by a job: the feed never shows
\* a queued card that nothing will process.
RecordHasJob == records \subseteq Carried

\* Unmarking only ever forgets events that no job carries.
UnmarkOnlyDeferred ==
    [][\A e \in seen \ seen' : e \notin Carried]_vars

\* With every process between two polls, each seen event has been enqueued:
\* what get_seen_event_ids says of the set.  Needs a fault-free environment.
SeenIsEnqueued ==
    (\A p \in Api : pc[p] = "idle") => seen \subseteq Carried

=============================================================================
