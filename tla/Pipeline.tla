------------------------------ MODULE Pipeline ------------------------------
(***************************************************************************)
(* An event's way through the whole service: EonetClient fetches it,       *)
(* EventIntake batches and enqueues it, JobExecution works on the job.     *)
(* The three share Redis, so a step of one that touches the queue or the   *)
(* records is a step of another as well: the push is the job's Enqueue,    *)
(* an initial record is stored for both, and what EventIntake takes for    *)
(* its environment (Dequeue, Redeliver) is what RQ does.                   *)
(***************************************************************************)
EXTENDS Naturals, Sequences, FiniteSets, SequencesExt

CONSTANTS Api, Workers, BatchSize, MaxDepth, MaxAttempts, MaxRetries, MaxRequeues,
    DlqCap, Listed, Unparsable, Malformed,
    Jobs,      \* one identifier for each batch that can be enqueued
    Payload    \* the events of that batch, in feed order

VARIABLES
    attempt,                                          \* of EonetClient
    seen, jobs, issued, handler, apiPc, feed, pending,\* of EventIntake
    record, marker, counted, unstored, rq, left, requeues, dlq, current,
    pc, job, todo, held, late, zombie                 \* of JobExecution

Client == INSTANCE EonetClient WITH Pollers <- Api
Exec == INSTANCE JobExecution WITH Single <- {}, Faults <- {}

Batch == [j \in Jobs |-> ToSet(Payload[j])]
Events == UNION {Batch[j] : j \in Jobs}

ASSUME BatchesAssumption ==
    /\ {Batch[j] : j \in Jobs} = {b \in SUBSET Events : b # {} /\ Cardinality(b) <= BatchSize}
    /\ \A i, j \in Jobs : Batch[i] = Batch[j] => i = j
    /\ Events = ToSet(Listed) \ Unparsable
ASSUME PayloadAssumption ==
    /\ Payload \in [Jobs -> Seq(Events)]
    /\ \A j \in Jobs : Cardinality(Batch[j]) = Len(Payload[j])
ASSUME ListedAssumption == Listed \in Seq(ToSet(Listed))
ASSUME ProcessesAssumption == IsFiniteSet(Api) /\ Api # {} /\ IsFiniteSet(Workers)
ASSUME JobsAssumption == IsFiniteSet(Jobs) /\ "unknown" \notin Jobs
\* With no attempt at all fetch_open_events returns None and every poll fails;
\* with no retry a job that comes back looks like a new one.
ASSUME BoundsAssumption ==
    /\ BatchSize \in Nat \ {0} /\ MaxDepth \in Nat \ {0} /\ DlqCap \in Nat \ {0}
    /\ MaxAttempts \in Nat \ {0} /\ MaxRetries \in Nat \ {0} /\ MaxRequeues \in Nat

JobOf == [b \in {Batch[j] : j \in Jobs} |-> CHOOSE j \in Jobs : Batch[j] = b]
Fetched == Client!Parsed

\* A job that comes back to the queue has fewer retries left than at first.
Queued == {i \in DOMAIN jobs : rq[JobOf[jobs[i]]] = "queued"}
Returned == {i \in Queued : left[JobOf[jobs[i]]] < MaxRetries}

Intake == INSTANCE EventIntake WITH
    Simulated <- {}, Feeds <- {Fetched, <<>>}, Faults <- {"redeliver"},
    pc <- apiPc, todo <- feed, queued <- Queued, returned <- Returned,
    records <- {e \in Events : record[e].status # "none"}

api == <<seen, jobs, issued, handler, apiPc, feed, pending>>
exec == <<record, marker, counted, unstored, rq, left, requeues, dlq, current,
          pc, job, todo, held, late, zombie>>
vars == <<attempt, api, exec>>

Init == Client!ClientInit /\ Exec!Init /\ Intake!Init

-----------------------------------------------------------------------------
(* Fetching.                                                               *)

Request(p) ==
    /\ apiPc[p] = "idle"
    /\ Client!Request(p)
    /\ UNCHANGED <<api, exec>>

Retry(p) == Client!Retry(p) /\ UNCHANGED <<api, exec>>

\* An exception ends the poll before it has begun.
Raise(p) == Client!Raise(p) /\ UNCHANGED <<api, exec>>

Return(p, events) ==
    /\ UNCHANGED <<exec, seen, jobs, issued, pending>>
    /\ Intake!Fetch(p)
    /\ feed'[p] = events

Answer(p) == Client!Answer(p, Fetched) /\ Return(p, Fetched)
GiveUp(p) == Client!GiveUp(p, <<>>) /\ Return(p, <<>>)

-----------------------------------------------------------------------------
(* Enqueueing.                                                             *)

Collect(p) ==
    /\ UNCHANGED <<attempt, exec, jobs, issued>>
    /\ \/ Intake!MarkSeen(p) \/ Intake!Unmark(p)
       \/ /\ UNCHANGED <<seen, pending>>
          /\ Intake!EndOfFeed(p) \/ Intake!FindRoom(p) \/ Intake!DeferBatch(p)

Push(p) ==
    /\ apiPc[p] = "push"
    /\ Exec!Enqueue(JobOf[pending[p]])
    /\ UNCHANGED <<attempt, seen, issued, handler, feed, pending>>
    /\ Intake!Push(p)

Store(p) ==
    /\ apiPc[p] = "store"
    /\ UNCHANGED <<attempt, seen, jobs, issued, handler, feed>>
    /\ \E j \in Jobs :
          /\ ToSet(unstored[j]) = pending[p]
          /\ Exec!Store(j)
          /\ Intake!Store(p)
          /\ pending'[p] = ToSet(unstored'[j])

-----------------------------------------------------------------------------
(* RQ and the workers.                                                     *)

Place(j) == CHOOSE i \in DOMAIN jobs : jobs[i] = Batch[j]

Deliver(j) ==
    /\ UNCHANGED <<attempt, api>>
    /\ Exec!Deliver(j)
    /\ Intake!Dequeue(Place(j))

Reschedule(j) ==
    /\ UNCHANGED <<attempt, api>>
    /\ Exec!Reschedule(j)
    /\ Intake!Redeliver(Place(j))

\* POST /retry.
Requeue(j) ==
    /\ UNCHANGED <<attempt, api>>
    /\ Exec!Requeue(j)
    /\ Intake!Redeliver(Place(j))

Work(w) == Exec!TaskStep(w) /\ UNCHANGED <<attempt, api>>

Expire == Exec!ExpireCurrent /\ UNCHANGED <<attempt, api>>

-----------------------------------------------------------------------------
PollStep(p) == Request(p) \/ Retry(p) \/ Raise(p) \/ Answer(p) \/ GiveUp(p)
               \/ Collect(p) \/ Push(p) \/ Store(p)

Next ==
    \/ \E p \in Api : PollStep(p)
    \/ \E j \in Jobs : Deliver(j) \/ Reschedule(j) \/ Requeue(j)
    \/ \E w \in Workers : Work(w)
    \/ Expire

Spec == Init /\ [][Next]_vars

\* The poller loops, RQ delivers and reschedules, work-horses run on, and
\* EONET is not down for ever: of infinitely many requests one is answered.
Fairness ==
    /\ \A p \in Api : WF_vars(PollStep(p)) /\ SF_vars(Answer(p))
    /\ \A j \in Jobs : WF_vars(Deliver(j)) /\ WF_vars(Reschedule(j))
    /\ \A w \in Workers : WF_vars(Work(w))

FairSpec == Spec /\ Fairness

-----------------------------------------------------------------------------
(* Properties.                                                             *)

CarriedBy(e) == {j \in Jobs : rq[j] # "absent" /\ e \in Batch[j]}

Stage(e) ==
    IF CarriedBy(e) = {} THEN "open"
    ELSE IF record[e].status = "completed" THEN "completed"
    ELSE IF \A j \in CarriedBy(e) : rq[j] = "failed" THEN "failed"
    ELSE "accepted"

\* Types of all three; a poll never makes more than MaxAttempts requests.
TypeOK == Client!ClientTypeOK /\ Intake!TypeOK /\ Exec!TypeOK

\* When RQ calls a job finished each of its events has a final status: no card
\* stays at "queued" or "processing" with nothing left to move it.
FinishedMeansSettled == Exec!FinishedMeansSettled

\* The service keeps the promise of EventLifecycle end to end, from what NASA
\* lists to the settled record, progress included.
Life == INSTANCE EventLifecycle WITH Ids <- Events, stage <- [e \in Events |-> Stage(e)]
ImplementsLife == Life!LiveSpec

\* Throughput counts an event once at most, although replicas, polls, retries
\* and requeues all meet it again and again.
CountedOnce == \A e \in Events : counted[e] <= 1

\* With no work-horse at work the dashboard shows no current task, unless a
\* failed batch left it there.
IdleShowsNoTask ==
    (\A w \in Workers : pc[w] = "idle") /\ (\A j \in Jobs : left[j] = MaxRetries)
        => current = "none"

=============================================================================
