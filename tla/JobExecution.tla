---------------------------- MODULE JobExecution ----------------------------
(***************************************************************************)
(* What becomes of a job once it is in the queue: the worker tasks of      *)
(* app/queue/worker_tasks.py, the record, marker and dead-letter helpers   *)
(* of app/queue/manager.py they call, and as much of RQ as drives them.    *)
(* RQ runs each attempt in a forked work-horse; a worker here is one       *)
(* work-horse at a time.  Each action is one Redis command that other      *)
(* processes can see or miss, with the Python around it.                   *)
(***************************************************************************)
EXTENDS Naturals, Sequences, FiniteSets

CONSTANTS
    Jobs,         \* job identifiers
    Payload,      \* the events a job was enqueued with, in order
    Single,       \* jobs running process_event_task; the others run the batch task
    Malformed,    \* events whose model reply may fail to validate
    Workers,      \* work-horses
    MaxRetries,   \* settings.job_max_retries
    MaxRequeues,  \* bound on POST /retry requests
    DlqCap,       \* dead-letter index entries kept (500 in the code)
    Faults        \* what the environment may do, see FaultsAssumption

Members(s) == {s[i] : i \in DOMAIN s}
Events == UNION {Members(Payload[j]) : j \in Jobs}
Keys == Jobs \cup {"unknown"}     \* job_id of a record, default included

ASSUME PayloadAssumption ==
    /\ Payload \in [Jobs -> Seq(Events) \ {<<>>}]
    /\ \A j \in Jobs : Cardinality(Members(Payload[j])) = Len(Payload[j])
    /\ \A j \in Single \cap Jobs : Len(Payload[j]) = 1
ASSUME JobsAssumption == IsFiniteSet(Jobs) /\ "unknown" \notin Jobs
ASSUME WorkersAssumption == IsFiniteSet(Workers)
ASSUME BoundsAssumption ==
    MaxRetries \in Nat /\ MaxRequeues \in Nat /\ DlqCap \in Nat \ {0}
ASSUME FaultsAssumption ==
    Faults \subseteq {"overtake",   \* a worker is faster than the API's initial writes
                      "crash",      \* the API dies between those writes
                      "kill",       \* a work-horse is killed
                      "timeout",    \* RQ raises JobTimeoutException in the work-horse
                      "redis",      \* a Redis command raises in the work-horse
                      "stall"}      \* RQ gives up on a work-horse that still runs

VARIABLES
    record,     \* status and job_id of each eonet:event:<id>
    marker,     \* eonet:inference-write:<id>:<key> keys that exist
    counted,    \* per event: times record_processed_event counted it
    unstored,   \* per job: initial records the API has still to write
    rq,         \* per job: where RQ has it
    left,       \* per job: retries_left
    requeues,   \* POST /retry requeues so far
    dlq,        \* eonet:dlq:index, newest first
    current,    \* eonet:worker:current_task
    pc,         \* per worker: next command
    job,        \* per worker: the job it runs
    todo,       \* per worker: payload not loaded yet
    held,       \* per worker: loaded events with the job_id read, not persisted yet
    late,       \* per worker: the job timeout has already struck
    zombie      \* per worker: RQ has given up on this attempt

redis == <<record, marker, counted, unstored, current>>
queue == <<rq, left, requeues, dlq>>
horse == <<pc, job, todo, held, late, zombie>>
vars  == <<record, marker, counted, unstored, rq, left, requeues, dlq, current,
           pc, job, todo, held, late, zombie>>

Statuses == {"none", "queued", "processing", "completed", "failed", "dead_letter"}
Record == [status : Statuses, key : Keys]
Items == [event : Events, key : Keys]
Places == {"absent", "queued", "started", "scheduled", "finished", "failed"}
Steps == {"idle", "load", "begin", "infer", "claim", "write", "count", "blame",
          "finally", "cleanup", "return", "raise", "trim", "demote", "settle"}

RedisTypeOK ==
    /\ record \in [Events -> Record]
    /\ marker \subseteq Events \X Keys
    /\ counted \in [Events -> Nat]
    /\ unstored \in [Jobs -> Seq(Events)]
    /\ current \in Events \cup {"none"}

QueueTypeOK ==
    /\ rq \in [Jobs -> Places]
    /\ left \in [Jobs -> 0..MaxRetries]
    /\ requeues \in 0..MaxRequeues
    /\ dlq \in Seq(Jobs)

HorseTypeOK ==
    /\ pc \in [Workers -> Steps]
    /\ job \in [Workers -> Jobs \cup {"none"}]
    /\ \A w \in Workers : pc[w] # "idle" => job[w] \in Jobs
    /\ todo \in [Workers -> Seq(Events)]
    /\ held \in [Workers -> Seq(Items)]
    /\ late \in [Workers -> BOOLEAN]
    /\ zombie \in [Workers -> BOOLEAN]

TypeOK == RedisTypeOK /\ QueueTypeOK /\ HorseTypeOK

Init ==
    /\ record = [e \in Events |-> [status |-> "none", key |-> "unknown"]]
    /\ marker = {} /\ counted = [e \in Events |-> 0]
    /\ unstored = [j \in Jobs |-> <<>>]
    /\ rq = [j \in Jobs |-> "absent"]
    /\ left = [j \in Jobs |-> MaxRetries]
    /\ requeues = 0 /\ dlq = <<>> /\ current = "none"
    /\ pc = [w \in Workers |-> "idle"]
    /\ job = [w \in Workers |-> "none"]
    /\ todo = [w \in Workers |-> <<>>]
    /\ held = [w \in Workers |-> <<>>]
    /\ late = [w \in Workers |-> FALSE]
    /\ zombie = [w \in Workers |-> FALSE]

Goto(w, step) == pc' = [pc EXCEPT ![w] = step]

Least(m, n) == IF m < n THEN m ELSE n

SetRecord(e, status, key) ==
    record' = [record EXCEPT ![e] = [status |-> status, key |-> key]]

-----------------------------------------------------------------------------
(* The API side: enqueue_event_batch after its depth check, and /retry.    *)

Enqueue(j) ==
    /\ rq[j] = "absent"
    /\ rq' = [rq EXCEPT ![j] = "queued"]
    /\ unstored' = [unstored EXCEPT ![j] = Payload[j]]
    /\ UNCHANGED <<record, marker, counted, current, left, requeues, dlq, horse>>

\* _store_initial_enriched_event of the next event.
Store(j) ==
    /\ unstored[j] # <<>>
    /\ SetRecord(Head(unstored[j]), "queued", j)
    /\ unstored' = [unstored EXCEPT ![j] = Tail(@)]
    /\ UNCHANGED <<marker, counted, current, queue, horse>>

StoreLost(j) ==
    /\ "crash" \in Faults
    /\ unstored[j] # <<>>
    /\ unstored' = [unstored EXCEPT ![j] = <<>>]
    /\ UNCHANGED <<record, marker, counted, current, queue, horse>>

\* failed_job_registry.requeue: retries_left stays what it was.
Requeue(j) ==
    /\ rq[j] = "failed" /\ requeues < MaxRequeues
    /\ rq' = [rq EXCEPT ![j] = "queued"]
    /\ requeues' = requeues + 1
    /\ UNCHANGED <<redis, left, dlq, horse>>

-----------------------------------------------------------------------------
(* RQ.                                                                     *)

Take(w, j) ==
    /\ pc[w] = "idle" /\ rq[j] = "queued"
    /\ unstored[j] = <<>> \/ "overtake" \in Faults
    /\ rq' = [rq EXCEPT ![j] = "started"]
    /\ Goto(w, "load")
    /\ job' = [job EXCEPT ![w] = j]
    /\ todo' = [todo EXCEPT ![w] = Payload[j]]
    /\ UNCHANGED <<redis, left, requeues, dlq, held, late, zombie>>

\* The work-horse is gone; so is everything it held in memory.
Leave(w) ==
    /\ Goto(w, "idle")
    /\ job' = [job EXCEPT ![w] = "none"]
    /\ todo' = [todo EXCEPT ![w] = <<>>]
    /\ held' = [held EXCEPT ![w] = <<>>]
    /\ late' = [late EXCEPT ![w] = FALSE]
    /\ zombie' = [zombie EXCEPT ![w] = FALSE]

\* handle_job_failure: retry later while retries are left, else the
\* FailedJobRegistry.
FailJob(j) ==
    IF left[j] > 0
    THEN /\ rq' = [rq EXCEPT ![j] = "scheduled"]
         /\ left' = [left EXCEPT ![j] = @ - 1]
    ELSE /\ rq' = [rq EXCEPT ![j] = "failed"]
         /\ UNCHANGED left

\* handle_job_success.  An attempt RQ gave up on no longer moves the job.
Return(w) ==
    /\ pc[w] = "return"
    /\ rq' = IF zombie[w] THEN rq ELSE [rq EXCEPT ![job[w]] = "finished"]
    /\ Leave(w)
    /\ UNCHANGED <<redis, left, requeues, dlq>>

Settle(w) ==
    /\ pc[w] = "settle"
    /\ IF zombie[w] THEN UNCHANGED <<rq, left>> ELSE FailJob(job[w])
    /\ Leave(w)
    /\ UNCHANGED <<redis, requeues, dlq>>

\* OOM or SIGKILL: the worker fails the job without running its callback.
Kill(w) ==
    /\ "kill" \in Faults
    /\ pc[w] # "idle"
    /\ IF zombie[w] THEN UNCHANGED <<rq, left>> ELSE FailJob(job[w])
    /\ Leave(w)
    /\ UNCHANGED <<redis, requeues, dlq>>

\* The started-job registry's cleanup takes a slow attempt for abandoned.
Abandon(w) ==
    /\ "stall" \in Faults
    /\ pc[w] # "idle" /\ ~zombie[w] /\ left[job[w]] > 0
    /\ FailJob(job[w])
    /\ zombie' = [zombie EXCEPT ![w] = TRUE]
    /\ UNCHANGED <<redis, requeues, dlq, pc, job, todo, held, late>>

\* The scheduler puts a job back in the queue after its interval.
Reschedule(j) ==
    /\ rq[j] = "scheduled"
    /\ rq' = [rq EXCEPT ![j] = "queued"]
    /\ UNCHANGED <<redis, left, requeues, dlq, horse>>

\* The 300 s TTL of the current task.
ExpireCurrent ==
    /\ current # "none"
    /\ current' = "none"
    /\ UNCHANGED <<record, marker, counted, unstored, queue, horse>>

-----------------------------------------------------------------------------
(* First loop of a task: _mark_event_processing.                           *)

IsSingle(w) == job[w] \in Single

AlreadyDone_Ignored(e) == FALSE
AlreadyDone(e) == record[e].status = "completed"

\* get_enriched_event.  A completed event is skipped; process_event_task then
\* returns at once.
Load(w) ==
    LET e == Head(todo[w]) IN
    /\ pc[w] = "load" /\ todo[w] # <<>>
    /\ \/ /\ AlreadyDone(e)
          /\ todo' = [todo EXCEPT ![w] = Tail(@)]
          /\ Goto(w, IF IsSingle(w) THEN "return" ELSE "load")
          /\ UNCHANGED held
       \/ /\ ~AlreadyDone(e)
          /\ held' = [held EXCEPT ![w] = Append(@, [event |-> e, key |-> record[e].key])]
          /\ Goto(w, "begin")
          /\ UNCHANGED todo
    /\ UNCHANGED <<redis, queue, job, late, zombie>>

Struck(w) ==
    \/ "redis" \in Faults /\ UNCHANGED late
    \/ "timeout" \in Faults /\ ~late[w] /\ late' = [late EXCEPT ![w] = TRUE]

Loaded(w) == held[w][Len(held[w])]

\* The current-task telemetry, whose errors are swallowed, and the
\* "processing" record.
Begin(w) ==
    /\ pc[w] = "begin"
    /\ \/ current' = Loaded(w).event /\ UNCHANGED late
       \/ current' = current /\ Struck(w)
    /\ SetRecord(Loaded(w).event, "processing", Loaded(w).key)
    /\ todo' = [todo EXCEPT ![w] = Tail(@)]
    /\ Goto(w, "load")
    /\ UNCHANGED <<marker, counted, unstored, queue, job, held, zombie>>

\* An exception in the first loop: the batch task notes the failure and goes
\* on with the next event, process_event_task fails.
MarkRaises(w) ==
    /\ Struck(w)
    /\ \/ /\ pc[w] = "load" /\ todo[w] # <<>>
          /\ UNCHANGED <<record, current, held>>
       \/ /\ pc[w] = "begin"
          /\ current' \in {current, Loaded(w).event}
          /\ \/ UNCHANGED record
             \/ SetRecord(Loaded(w).event, "processing", Loaded(w).key)
          /\ held' = [held EXCEPT ![w] = SubSeq(@, 1, Len(@) - 1)]
    /\ todo' = [todo EXCEPT ![w] = Tail(@)]
    /\ Goto(w, IF IsSingle(w) THEN "raise" ELSE "load")
    /\ UNCHANGED <<marker, counted, unstored, queue, job, zombie>>

EndLoad(w) ==
    /\ pc[w] = "load" /\ todo[w] = <<>>
    /\ Goto(w, IF held[w] = <<>> THEN "cleanup" ELSE "infer")
    /\ UNCHANGED <<redis, queue, job, todo, held, late, zombie>>

-----------------------------------------------------------------------------
(* Inference.                                                              *)

Infer(w) ==
    /\ pc[w] = "infer"
    /\ Goto(w, "claim")
    /\ UNCHANGED <<redis, queue, job, todo, held, late, zombie>>

\* An exception leaves run_inference or run_inference_batch.  It ends a batch
\* task; process_event_task first marks its event failed.
AfterInferError_Swallowed(w) == "cleanup"
AfterInferError(w) == IF IsSingle(w) THEN "blame" ELSE "raise"

InferRaises(w) ==
    /\ pc[w] = "infer"
    /\ \/ \E i \in DOMAIN held[w] : held[w][i].event \in Malformed
          /\ UNCHANGED late
       \/ "timeout" \in Faults /\ ~late[w] /\ late' = [late EXCEPT ![w] = TRUE]
    /\ Goto(w, AfterInferError(w))
    /\ UNCHANGED <<redis, queue, job, todo, held, zombie>>

-----------------------------------------------------------------------------
(* Second loop: _persist_event_success, one event at a time.               *)

Item(w) == Head(held[w])

\* On to the next event of the batch, or out of the loop.
NextItem_KeepsItem(w) ==
    /\ UNCHANGED held
    /\ Goto(w, IF Len(held[w]) > 1 THEN "claim" ELSE "cleanup")
NextItem(w) ==
    /\ held' = [held EXCEPT ![w] = Tail(@)]
    /\ Goto(w, IF Len(held[w]) > 1 THEN "claim" ELSE "cleanup")

Consumed_Ignored(m) == FALSE
Consumed(m) == <<m.event, m.key>> \in marker

\* try_idempotent_inference_write: SET NX of the marker.
Claim(w) ==
    /\ pc[w] = "claim"
    /\ \/ /\ Consumed(Item(w))
          /\ NextItem(w)
          /\ UNCHANGED marker
       \/ /\ ~Consumed(Item(w))
          /\ marker' = marker \cup {<<Item(w).event, Item(w).key>>}
          /\ Goto(w, "write")
          /\ UNCHANGED held
    /\ UNCHANGED <<record, counted, unstored, current, queue, job, todo, late, zombie>>

Write(w) ==
    /\ pc[w] = "write"
    /\ SetRecord(Item(w).event, "completed", Item(w).key)
    /\ Goto(w, "count")
    /\ UNCHANGED <<marker, counted, unstored, current, queue, job, todo, held, late, zombie>>

\* record_processed_event.
CountItem(w) == counted' = [counted EXCEPT ![Item(w).event] = @ + 1]

Count(w) ==
    /\ pc[w] = "count"
    /\ CountItem(w)
    /\ NextItem(w)
    /\ UNCHANGED <<record, marker, unstored, current, queue, job, todo, late, zombie>>

\* An exception inside the idempotent write or the metrics is swallowed there:
\* the event counts as written by someone else.  A command whose reply was
\* lost has had its effect.
PersistSwallowed_FailsOpen(w) ==
    /\ pc[w] \in {"claim", "write", "count"}
    /\ Struck(w)
    /\ Goto(w, IF pc[w] = "claim" THEN "write" ELSE "cleanup")
    /\ UNCHANGED <<record, marker, counted, unstored, current, queue, job, todo, held, zombie>>
PersistSwallowed(w) ==
    /\ pc[w] \in {"claim", "write", "count"}
    /\ Struck(w)
    /\ \/ UNCHANGED <<record, marker, counted>>
       \/ /\ pc[w] = "claim"
          /\ marker' = marker \cup {<<Item(w).event, Item(w).key>>}
          /\ UNCHANGED <<record, counted>>
       \/ /\ pc[w] = "write"
          /\ SetRecord(Item(w).event, "completed", Item(w).key)
          /\ UNCHANGED <<marker, counted>>
       \/ /\ pc[w] = "count"
          /\ CountItem(w)
          /\ UNCHANGED <<record, marker>>
    /\ NextItem(w)
    /\ UNCHANGED <<unstored, current, queue, job, todo, zombie>>

\* The timeout strikes before, between or after those calls and reaches the
\* task's own handler.
PersistRaises(w) ==
    /\ "timeout" \in Faults /\ ~late[w]
    /\ late' = [late EXCEPT ![w] = TRUE]
    /\ \/ pc[w] \in {"claim", "count"} /\ UNCHANGED counted
       \/ pc[w] = "count" /\ CountItem(w)
    /\ Goto(w, "blame")
    /\ UNCHANGED <<record, marker, unstored, current, queue, job, todo, held, zombie>>

\* The except branch: the event is marked failed.  The batch goes on;
\* process_event_task runs its finally clause and re-raises.
Blame(w) ==
    /\ pc[w] = "blame"
    /\ SetRecord(Item(w).event, "failed", Item(w).key)
    /\ \/ /\ IsSingle(w)
          /\ Goto(w, "finally")
          /\ UNCHANGED held
       \/ /\ ~IsSingle(w)
          /\ NextItem(w)
    /\ UNCHANGED <<marker, counted, unstored, current, queue, job, todo, late, zombie>>

\* An exception in the except branch, before or after the write: now even the
\* batch task raises.
BlameRaises(w) ==
    /\ pc[w] = "blame"
    /\ Struck(w)
    /\ UNCHANGED record \/ SetRecord(Item(w).event, "failed", Item(w).key)
    /\ Goto(w, IF IsSingle(w) THEN "finally" ELSE "raise")
    /\ UNCHANGED <<marker, counted, unstored, current, queue, job, todo, held, zombie>>

ClearTask_Forgotten(w) == UNCHANGED <<current, late>>
ClearTask(w) ==
    \/ current' = "none" /\ UNCHANGED late
    \/ current' = current /\ Struck(w)       \* error ignored

Cleanup(w) ==
    /\ pc[w] = "cleanup"
    /\ ClearTask(w)
    /\ Goto(w, "return")
    /\ UNCHANGED <<record, marker, counted, unstored, queue, job, todo, held, zombie>>

Unwind(w) ==
    /\ pc[w] = "finally"
    /\ ClearTask(w)
    /\ Goto(w, "raise")
    /\ UNCHANGED <<record, marker, counted, unstored, queue, job, todo, held, zombie>>

\* The timeout strikes outside every try block of the task.
TimeoutEscapes(w) ==
    /\ "timeout" \in Faults /\ ~late[w]
    /\ \/ pc[w] \in {"load", "cleanup", "return"}
       \/ pc[w] = "claim" /\ ~IsSingle(w)
    /\ late' = [late EXCEPT ![w] = TRUE]
    /\ Goto(w, "raise")
    /\ UNCHANGED <<redis, queue, job, todo, held, zombie>>

-----------------------------------------------------------------------------
(* process_event_dead_letter, RQ's on_failure callback: RQ runs it after   *)
(* every failed attempt and before it decides on a retry.                  *)

RetriesLeft_Ignored(w) == FALSE
RetriesLeft(w) == zombie[w] \/ left[job[w]] > 0

KeepAttempt(w) ==
    /\ pc[w] = "raise" /\ RetriesLeft(w)
    /\ Goto(w, "settle")
    /\ UNCHANGED <<redis, queue, job, todo, held, late, zombie>>

\* save_dead_letter: LPUSH, then LTRIM.  An error at either is swallowed.
Bury_Forgets(w) == dlq
Bury_ByEvent(w) == <<Payload[job[w]][1]>> \o dlq
Bury(w) == <<job[w]>> \o dlq

SaveDeadLetter(w) ==
    /\ pc[w] = "raise" /\ ~RetriesLeft(w)
    /\ \/ dlq' = Bury(w) /\ Goto(w, "trim")
       \/ "redis" \in Faults /\ dlq' = dlq /\ Goto(w, "demote")
    /\ UNCHANGED <<redis, rq, left, requeues, job, todo, held, late, zombie>>

Trimmed_OffByOne(s) == SubSeq(s, 1, Least(Len(s), DlqCap + 1))
Trimmed(s) == SubSeq(s, 1, Least(Len(s), DlqCap))

TrimDeadLetters(w) ==
    /\ pc[w] = "trim"
    /\ \/ dlq' = Trimmed(dlq)
       \/ "redis" \in Faults /\ dlq' = dlq
    /\ Goto(w, "demote")
    /\ UNCHANGED <<redis, rq, left, requeues, job, todo, held, late, zombie>>

\* Only the record of the job's first event becomes dead_letter, whatever its
\* status was.
Demote(w) ==
    LET e == Payload[job[w]][1] IN
    /\ pc[w] = "demote"
    /\ IF record[e].status = "none" THEN UNCHANGED record
       ELSE SetRecord(e, "dead_letter", record[e].key)
    /\ Goto(w, "settle")
    /\ UNCHANGED <<marker, counted, unstored, current, queue, job, todo, held, late, zombie>>

\* The callback itself raises: RQ logs it and settles the job all the same.
DemoteRaises(w) ==
    /\ "redis" \in Faults
    /\ pc[w] = "demote"
    /\ Goto(w, "settle")
    /\ UNCHANGED <<redis, queue, job, todo, held, late, zombie>>

-----------------------------------------------------------------------------
TaskStep(w) ==
    \/ Load(w) \/ Begin(w) \/ EndLoad(w) \/ Infer(w) \/ InferRaises(w)
    \/ Claim(w) \/ Write(w) \/ Count(w) \/ Blame(w) \/ Cleanup(w) \/ Unwind(w)
    \/ KeepAttempt(w) \/ SaveDeadLetter(w) \/ TrimDeadLetters(w) \/ Demote(w)
    \/ Return(w) \/ Settle(w)

HorseFault(w) ==
    \/ MarkRaises(w) \/ PersistSwallowed(w) \/ PersistRaises(w)
    \/ BlameRaises(w) \/ TimeoutEscapes(w) \/ DemoteRaises(w) \/ Kill(w) \/ Abandon(w)

Deliver(j) == \E w \in Workers : Take(w, j)

Next ==
    \/ \E j \in Jobs : Enqueue(j) \/ Store(j) \/ StoreLost(j) \/ Requeue(j)
    \/ \E j \in Jobs : Deliver(j) \/ Reschedule(j)
    \/ \E w \in Workers : TaskStep(w) \/ HorseFault(w)
    \/ ExpireCurrent

Spec == Init /\ [][Next]_vars

\* The API finishes its writes, RQ keeps delivering and rescheduling, and a
\* work-horse that is not killed runs on.  Nothing is assumed of requests.
Fairness ==
    /\ \A j \in Jobs : WF_vars(Store(j)) /\ WF_vars(Deliver(j)) /\ WF_vars(Reschedule(j))
    /\ \A w \in Workers : WF_vars(TaskStep(w))

FairSpec == Spec /\ Fairness

-----------------------------------------------------------------------------
(* Properties.                                                             *)

EventsOf(j) == Members(Payload[j])

\* The throughput metrics count an event at most once per marker, however many
\* attempts, stalled ones included, persist it.
CountedOncePerMarker ==
    \A e \in Events : counted[e] <= Cardinality({k \in Keys : <<e, k>> \in marker})

\* A record says "completed" only under the marker that claimed it.
CompletedIsMarked ==
    \A e \in Events : record[e].status = "completed" => <<e, record[e].key>> \in marker

\* No retry, kill, Redis error or malformed reply takes "completed" back.  Two
\* things do: the job timeout, when it strikes the attempt that persists the
\* event, and the dead-lettering of a job without retries, which looks at no
\* status.  (The marker then keeps any later attempt from completing the event.)
CompletedStays ==
    [][\A e \in Events : record[e].status = "completed" =>
          \/ record'[e].status = "completed"
          \/ /\ record'[e].status = "failed"
             /\ \E w \in Workers : pc[w] = "blame" /\ late[w] /\ Item(w).event = e
          \/ /\ record'[e].status = "dead_letter"
             /\ \E w \in Workers : /\ pc[w] = "demote" /\ left[job[w]] = 0
                                   /\ Payload[job[w]][1] = e]_vars

\* "queued" is an event's initial status: it is not written over a later one.
QueuedComesFirst ==
    [][\A e \in Events : record'[e].status = "queued" /\ record'[e] # record[e]
                           => record[e].status = "none"]_vars

\* A dead-lettered job has used its retries and never comes back by itself.
DeadLetterIsFinal ==
    \A i \in DOMAIN dlq : left[dlq[i]] = 0 /\ rq[dlq[i]] # "scheduled"

\* A job in the failed registry can be found in the dead-letter list, unless
\* later entries have filled it.
ExhaustedIsDeadLettered ==
    \A j \in Jobs : rq[j] = "failed" => j \in Members(dlq) \/ Len(dlq) >= DlqCap

\* The dead-letter index outgrows its limit by the entries just being saved at
\* most, requeued jobs that fail again included.
DlqBounded == Len(dlq) <= DlqCap + Cardinality({w \in Workers : pc[w] = "trim"})

\* When RQ calls a job finished each of its events has a final status: no card
\* stays at "queued" or "processing" with nothing left to move it.
FinishedMeansSettled ==
    \A j \in Jobs : rq[j] = "finished" =>
        \A e \in EventsOf(j) : record[e].status \in {"completed", "failed"}

\* One malformed reply does not keep the rest of its batch from completing.
BadItemIsolated ==
    \A j \in Jobs : rq[j] = "failed" =>
        \A e \in EventsOf(j) \ Malformed : record[e].status = "completed"

\* Every enqueued job is finished or failed in the end: retries run out.
EveryJobSettles ==
    \A j \in Jobs : rq[j] = "queued" ~> rq[j] \in {"finished", "failed"}

=============================================================================
