--------------------------- MODULE EventLifecycle ---------------------------
(***************************************************************************)
(* What the service promises for an event NASA lists, seen from outside:   *)
(* it is accepted once, with a batch; it completes, for good, or its batch *)
(* is given up; and only a request puts what was given up back to work.    *)
(***************************************************************************)
CONSTANT Ids        \* event identifiers

VARIABLE stage      \* per event: where it is in its life

Stages == {"open", "accepted", "completed", "failed"}

TypeOK == stage \in [Ids -> Stages]

Init == stage = [e \in Ids |-> "open"]

\* All events of a batch that are in one stage go to the next together.
Move(batch, from, to) ==
    /\ batch # {} /\ \A e \in batch : stage[e] = from
    /\ stage' = [e \in Ids |-> IF e \in batch THEN to ELSE stage[e]]

Accept(batch) == Move(batch, "open", "accepted")
Complete(e) == Move({e}, "accepted", "completed")
GiveUp(batch) == Move(batch, "accepted", "failed")
Reopen(batch) == Move(batch, "failed", "accepted")

Next ==
    \/ \E batch \in SUBSET Ids : Accept(batch) \/ GiveUp(batch) \/ Reopen(batch)
    \/ \E e \in Ids : Complete(e)

Spec == Init /\ [][Next]_stage

\* Nothing waits for ever.
Progress ==
    \A e \in Ids :
        /\ stage[e] = "open" ~> stage[e] = "accepted"
        /\ stage[e] = "accepted" ~> stage[e] \in {"completed", "failed"}

LiveSpec == Spec /\ Progress

=============================================================================
