---------------------------- MODULE EnqueueOnce ----------------------------
(***************************************************************************)
(* What event intake promises the inference workers: jobs appear one at a  *)
(* time, each carries a non-empty batch of events, and no event is ever    *)
(* carried by two jobs.  How the API processes agree on that (the Redis    *)
(* seen set) is EventIntake's business.                                    *)
(***************************************************************************)
EXTENDS Naturals, Sequences

CONSTANT Ids        \* event identifiers

VARIABLE jobs       \* the batches enqueued so far, oldest first

TypeOK == jobs \in Seq(SUBSET Ids)

\* The events some job carries.
Carried == UNION {jobs[i] : i \in DOMAIN jobs}

Init == jobs = <<>>

Enqueue(batch) ==
    /\ batch # {}
    /\ batch \cap Carried = {}
    /\ jobs' = Append(jobs, batch)

Next == \E batch \in SUBSET Ids : Enqueue(batch)

Spec == Init /\ [][Next]_jobs

=============================================================================
