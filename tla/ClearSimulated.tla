---------------------------- MODULE ClearSimulated ----------------------------
(***************************************************************************)
(* POST /clear-simulated (app/routers/queue_router.py) beside the workers: *)
(* the request reads the synthetic records one by one, deletes each with   *)
(* its markers, then takes their jobs out of RQ, while work-horses may be  *)
(* running those jobs and another API process still storing their records. *)
(* Real events have no part in it but share the keys' prefixes.            *)
(***************************************************************************)
EXTENDS JobExecution

CONSTANTS
    Synthetic,        \* events with an id SIM_... or SPIKE_...
    RequestFails      \* whether a Redis command of the request may raise

\* A simulation request enqueues batches of its own.
ASSUME SyntheticAssumption ==
    /\ Synthetic \subseteq Events
    /\ \A j \in Jobs : Members(Payload[j]) \subseteq Synthetic
                       \/ Members(Payload[j]) \cap Synthetic = {}
ASSUME RequestAssumption == RequestFails \in BOOLEAN

VARIABLES
    step,      \* of the request
    unread,    \* synthetic events whose key the scan has not read yet
    found,     \* simulated_records that are not deleted yet
    sweep,     \* markers of the record at hand that SCAN has returned
    doomed,    \* job_ids still to be removed
    gone,      \* history: jobs removed
    excused    \* history: jobs that ran or were being stored meanwhile, or that
               \* RQ could not be told to remove

request == <<step, unread, found, sweep, doomed, gone>>
clearVars == <<vars, request, excused>>

ClearInit ==
    /\ Init
    /\ step = "idle" /\ unread = {} /\ found = {} /\ sweep = {} /\ doomed = {}
    /\ gone = {} /\ excused = {}

Begun ==
    /\ step = "idle"
    /\ step' = "scan"
    /\ unread' = Synthetic
    /\ UNCHANGED <<vars, found, sweep, doomed, gone>>

\* get_all_enriched_events: GET of one key that SCAN returned.
ReadRecord(e) ==
    /\ step = "scan" /\ e \in unread
    /\ unread' = unread \ {e}
    /\ found' = IF record[e].status = "none" THEN found
                ELSE found \cup {[event |-> e, key |-> record[e].key]}
    /\ step' = IF unread = {e} THEN "delete" ELSE "scan"
    /\ doomed' = {item.key : item \in found'}
    /\ UNCHANGED <<vars, sweep, gone>>

\* The scan's pattern holds the event's id.
MarkersOf_AnyEvent(e) == marker
MarkersOf(e) == {m \in marker : m[1] = e}

\* DELETE of a record, and the scan for its markers: a claim in between
\* could as well come first.  Synthetic ids are not in the seen set.
DeleteRecord_KeepsMarkers(item) ==
    /\ step = "delete" /\ sweep = {} /\ item \in found
    /\ SetRecord(item.event, "none", "unknown")
    /\ found' = found \ {item}
    /\ UNCHANGED <<marker, counted, unstored, current, queue, horse, step, unread, sweep, doomed, gone>>
DeleteRecord(item) ==
    /\ step = "delete" /\ sweep = {} /\ item \in found
    /\ SetRecord(item.event, "none", "unknown")
    /\ sweep' = MarkersOf(item.event)
    /\ found' = found \ {item}
    /\ UNCHANGED <<marker, counted, unstored, current, queue, horse, step, unread, doomed, gone>>

DeleteMarker(m) ==
    /\ step = "delete" /\ m \in sweep
    /\ marker' = marker \ {m}
    /\ sweep' = sweep \ {m}
    /\ UNCHANGED <<record, counted, unstored, current, queue, horse,
                   step, unread, found, doomed, gone>>

RecordsDeleted ==
    /\ step = "delete" /\ sweep = {} /\ found = {}
    /\ step' = "jobs"
    /\ UNCHANGED <<vars, unread, found, sweep, doomed, gone>>

\* RQ forgets a job that waits or rests; a running attempt goes on and puts
\* its job back when it ends.
Forgotten_QueueOnly(place) == IF place = "queued" THEN "absent" ELSE place
Forgotten(place) == IF place = "started" THEN place ELSE "absent"

RemoveJob(j) ==
    /\ step = "jobs" /\ j \in doomed
    /\ doomed' = doomed \ {j}
    /\ IF j \in Jobs
       THEN /\ rq' = [rq EXCEPT ![j] = Forgotten(@)]
            /\ gone' = gone \cup {j}
       ELSE UNCHANGED <<rq, gone>>
    /\ UNCHANGED <<redis, left, requeues, dlq, horse, step, unread, found, sweep>>

\* Every step of a removal has its own "except", which ignores the error.
RemovalFails(j) ==
    /\ RequestFails
    /\ step = "jobs" /\ j \in doomed
    /\ doomed' = doomed \ {j}
    /\ UNCHANGED <<vars, step, unread, found, sweep, gone>>

\* Nothing catches an error before that: the request ends with status 500.
RequestRaises ==
    /\ RequestFails
    /\ step \in {"scan", "delete"}
    /\ step' = "failed"
    /\ UNCHANGED <<vars, unread, found, sweep, doomed, gone>>

\* "Simulated data cleared."
Answer ==
    /\ step = "jobs" /\ doomed = {}
    /\ step' = "done"
    /\ UNCHANGED <<vars, unread, found, sweep, doomed, gone>>

Clear ==
    \/ Begun \/ RecordsDeleted \/ RequestRaises \/ Answer
    \/ \E e \in Synthetic : ReadRecord(e)
    \/ \E item \in found : DeleteRecord(item)
    \/ \E m \in sweep : DeleteMarker(m)
    \/ \E j \in doomed : RemoveJob(j) \/ RemovalFails(j)

-----------------------------------------------------------------------------
\* A removed job id is not used again, and RQ's registries, in which it would
\* look for abandoned attempts, no longer have it.
Beside ==
    /\ \/ \E j \in Jobs \ gone : Enqueue(j)
       \/ \E j \in Jobs : Store(j) \/ StoreLost(j) \/ Requeue(j) \/ Deliver(j) \/ Reschedule(j)
       \/ \E w \in Workers : TaskStep(w) \/ (HorseFault(w) /\ (job[w] \in gone => UNCHANGED rq))
       \/ ExpireCurrent
    /\ UNCHANGED request

Running == {j \in Jobs : unstored[j] # <<>> \/ \E w \in Workers : job[w] = j}

\* The jobs whose removal this step gave up.
Spared == (doomed \ doomed') \ (gone' \cup {"unknown"})

ClearNext ==
    /\ Clear \/ Beside
    /\ excused' = IF step' = "idle" THEN {}
                  ELSE excused \cup Running \cup Running' \cup Spared

ClearSpec == ClearInit /\ [][ClearNext]_clearVars

-----------------------------------------------------------------------------
(* Properties.                                                             *)

Trace(j) ==
    \/ rq[j] # "absent"
    \/ \E e \in EventsOf(j) : record[e].status # "none" \/ MarkersOf(e) # {}

\* When the request answers, nothing is left of a simulation that was at rest,
\* no job in any registry, no record, no marker, unless RQ refused a removal.
ClearIsComplete ==
    [][step' = "done" => \A j \in Jobs : EventsOf(j) \subseteq Synthetic /\ Trace(j)
                                           => j \in excused]_clearVars

\* And it stays that way: only a job that was running can come back.
ClearedStaysClear == \A j \in gone \ excused : ~Trace(j)

\* Real events do not notice: each is still counted once per marker, also when
\* RQ runs its job twice at a time.
RealCountedOnce ==
    \A e \in Events \ Synthetic : counted[e] <= Cardinality(MarkersOf(e))

=============================================================================
