------------------------- MODULE EventIntakeProofs -------------------------
(***************************************************************************)
(* Proofs about EventIntake, for every number of API processes, every feed *)
(* and every set of faults.                                                *)
(***************************************************************************)
EXTENDS EventIntake, FiniteSetTheorems, TLAPS

-----------------------------------------------------------------------------
(* Type correctness.                                                       *)

LEMMA InitTypeOK == Init => TypeOK
  BY DEF Init, TypeOK, Steps

LEMMA StepTypeOK == TypeOK /\ [Next]_vars => TypeOK'
<1> SUFFICES ASSUME TypeOK, [Next]_vars PROVE TypeOK'
  OBVIOUS
<1> USE DEF TypeOK, Steps, Ids
<1>1. CASE UNCHANGED vars
  BY <1>1 DEF vars
<1>2. ASSUME NEW p \in Api, ApiStep(p) PROVE TypeOK'
  <2> USE DEF store, local
  <2>1. CASE Fetch(p)
    BY <2>1, FeedsAssumption DEF Fetch
  <2>2. CASE MarkSeen(p)
    <3>1. /\ Head(todo[p]) \in Events
          /\ Tail(todo[p]) \in Seq(Events)
      BY <2>2 DEF MarkSeen
    <3> QED
      BY <2>2, <3>1 DEF MarkSeen
  <2>3. CASE EndOfFeed(p)
    BY <2>3 DEF EndOfFeed
  <2>4. CASE FindRoom(p)
    BY <2>4 DEF FindRoom
  <2>5. CASE DeferBatch(p)
    BY <2>5 DEF DeferBatch
  <2>6. CASE DropSimulated(p)
    BY <2>6 DEF DropSimulated
  <2>7. ASSUME AddJob(pending[p]) PROVE /\ jobs' \in Seq(SUBSET Ids)
                                        /\ DOMAIN jobs \subseteq DOMAIN jobs'
                                        /\ queued' \subseteq DOMAIN jobs'
                                        /\ returned \subseteq queued'
    BY <2>7 DEF AddJob, NextJob
  <2>8. CASE Push(p)
    BY <2>7, <2>8 DEF Push
  <2>9. CASE Store(p)
    BY <2>9 DEF Store
  <2>10. CASE Unmark(p)
    BY <2>10 DEF Unmark
  <2>11. CASE Simulate(p)
    BY <2>11 DEF Simulate
  <2>12. CASE MarkFails(p)
    <3>1. /\ Head(todo[p]) \in Events
          /\ Tail(todo[p]) \in Seq(Events)
      BY <2>12 DEF MarkFails
    <3> QED
      BY <2>12, <3>1 DEF MarkFails
  <2>13. CASE EnqueueRaises(p)
    BY <2>7, <2>13 DEF EnqueueRaises, Forget
  <2>14. CASE Crash(p)
    BY <2>14 DEF Crash, Forget
  <2> QED
    BY <1>2, <2>1, <2>2, <2>3, <2>4, <2>5, <2>6, <2>8, <2>9, <2>10, <2>11,
       <2>12, <2>13, <2>14 DEF ApiStep, PollStep
<1>3. ASSUME NEW j \in queued, Dequeue(j) PROVE TypeOK'
  BY <1>3 DEF Dequeue, local
<1>4. ASSUME NEW j \in DOMAIN jobs, Redeliver(j) PROVE TypeOK'
  BY <1>4 DEF Redeliver, local
<1> QED
  BY <1>1, <1>2, <1>3, <1>4 DEF Next, Worker

\* TypeOK holds in every reachable state.
THEOREM TypeCorrect == Spec => []TypeOK
  BY InitTypeOK, StepTypeOK, PTL DEF Spec

-----------------------------------------------------------------------------
(* Ownership: between its SADD and its push, an event belongs to exactly   *)
(* one process.  EnqueuedOnce alone is not inductive, because it says      *)
(* nothing of the batches about to be pushed.                              *)

\* The events that process p may still enqueue.
Own(p) == IF pc[p] = "store" THEN {} ELSE pending[p]

Ownership ==
    /\ \A p \in Api : Own(p) \subseteq seen \cup issued
    /\ \A p \in Api : Own(p) \cap Carried = {}
    /\ \A p, q \in Api : p # q => Own(p) \cap Own(q) = {}
    /\ Carried \subseteq seen \cup issued
    /\ EnqueuedOnce

\* A batch on its way through enqueue_event_batch is not empty.
Flushed == \A p \in Api : pc[p] \in {"check", "push"} => pending[p] # {}

\* What the records being stored describe is in the queue already.
Stored ==
    /\ RecordHasJob
    /\ \A p \in Api : pc[p] = "store" => pending[p] \subseteq Carried

\* Pushing a disjoint batch keeps the jobs disjoint.
LEMMA AppendCarried ==
  ASSUME TypeOK, NEW batch \in SUBSET Ids, jobs' = Append(jobs, batch)
  PROVE  /\ Carried' = Carried \cup batch
         /\ EnqueuedOnce /\ batch \cap Carried = {} => EnqueuedOnce'
<1>1. /\ DOMAIN jobs' = DOMAIN jobs \cup {Len(jobs) + 1}
      /\ Len(jobs) + 1 \notin DOMAIN jobs
      /\ \A i \in DOMAIN jobs : jobs'[i] = jobs[i]
      /\ jobs'[Len(jobs) + 1] = batch
  BY DEF TypeOK
<1>2. Carried' = Carried \cup batch
  BY <1>1 DEF Carried
<1>3. ASSUME EnqueuedOnce, batch \cap Carried = {} PROVE EnqueuedOnce'
  <2>1. \A i \in DOMAIN jobs : jobs[i] \cap batch = {}
    BY <1>3 DEF Carried
  <2> QED
    BY <1>1, <1>3, <2>1 DEF EnqueuedOnce
<1> QED
  BY <1>2, <1>3

\* A step that takes no new event and pushes nothing keeps ownership.
LEMMA QuietOwnership ==
  ASSUME Ownership, jobs' = jobs, seen \subseteq seen', issued' = issued,
         \A p \in Api : Own(p)' \subseteq Own(p)
  PROVE  Ownership'
  BY DEF Ownership, EnqueuedOnce, Carried

LEMMA StepOwnership == TypeOK /\ Ownership /\ [Next]_vars => Ownership'
<1> SUFFICES ASSUME TypeOK, Ownership, [Next]_vars PROVE Ownership'
  OBVIOUS
<1> USE DEF store, local
<1>1. CASE UNCHANGED vars
  BY <1>1, QuietOwnership DEF vars, Own
<1>2. ASSUME NEW p \in Api, ApiStep(p) PROVE Ownership'
  <2>0. /\ pc \in [Api -> Steps] /\ pending \in [Api -> SUBSET Ids]
        /\ seen \subseteq Events /\ issued \subseteq Simulated
        /\ Events \cap Simulated = {}
    BY IdsAssumption DEF TypeOK
  <2>1. CASE Fetch(p)
    BY <2>0, <2>1, QuietOwnership DEF Fetch, Own
  <2>2. CASE MarkSeen(p)
    <3> DEFINE e == Head(todo[p])
    <3>1. e \in Events
      BY <2>2 DEF MarkSeen, TypeOK
    <3>2. /\ seen' = seen \cup {e} /\ jobs' = jobs /\ issued' = issued
          /\ pc[p] = "mark" /\ pc'[p] \in {"check", "mark"}
          /\ \A q \in Api \ {p} : pc'[q] = pc[q] /\ pending'[q] = pending[q]
          /\ pending'[p] = IF IsNew(e) THEN pending[p] \cup {e} ELSE pending[p]
      BY <2>0, <2>2 DEF MarkSeen
    <3>3. \A q \in Api \ {p} : Own(q)' = Own(q)
      BY <3>2 DEF Own
    <3>4. Own(p) = pending[p] /\ Own(p)' = pending'[p]
      BY <3>2 DEF Own
    <3>5. CASE ~IsNew(e)
      BY <3>2, <3>3, <3>4, <3>5, QuietOwnership
    <3>6. CASE IsNew(e)
      <4>1. e \notin seen \cup issued
        BY <2>0, <3>1, <3>6 DEF IsNew
      <4>2. Own(p)' = Own(p) \cup {e}
        BY <3>2, <3>4, <3>6
      <4> QED
        BY <3>2, <3>3, <4>1, <4>2 DEF Ownership, EnqueuedOnce, Carried
    <3> QED
      BY <3>5, <3>6
  <2>3. CASE EndOfFeed(p)
    BY <2>0, <2>3, QuietOwnership DEF EndOfFeed, Own
  <2>4. CASE FindRoom(p)
    BY <2>0, <2>4, QuietOwnership DEF FindRoom, Own
  <2>5. CASE DeferBatch(p)
    BY <2>0, <2>5, QuietOwnership DEF DeferBatch, Own
  <2>6. CASE DropSimulated(p)
    BY <2>0, <2>6, QuietOwnership DEF DropSimulated, Own
  <2>7. ASSUME pc[p] = "push", AddJob(pending[p]), pc' = [pc EXCEPT ![p] = pc'[p]],
               seen' = seen, issued' = issued,
               \A q \in Api \ {p} : pending'[q] = pending[q], Own(p)' = {}
        PROVE  Ownership'
    <3>1. pending[p] = Own(p) /\ pending[p] \subseteq Ids
      BY <2>0, <2>7 DEF Own
    <3>2. \A q \in Api \ {p} : Own(q)' = Own(q)
      BY <2>0, <2>7 DEF Own
    <3>3. pending[p] \cap Carried = {}
      BY <3>1 DEF Ownership
    <3>4. Carried' = Carried \cup Own(p) /\ EnqueuedOnce'
      BY <2>7, <3>1, <3>3, AppendCarried DEF AddJob, Ownership
    <3> QED
      BY <2>7, <3>2, <3>4 DEF Ownership
  <2>8. CASE Push(p)
    BY <2>0, <2>7, <2>8 DEF Push, Own
  <2>9. CASE Store(p)
    BY <2>0, <2>9, QuietOwnership DEF Store, Own
  <2>10. CASE Unmark(p)
    <3>1. PICK e \in pending[p] :
            /\ seen' \in {seen, seen \ {e}}
            /\ pending' = [pending EXCEPT ![p] = @ \ {e}]
            /\ pc' = [pc EXCEPT ![p] = IF pending[p] # {e} THEN "unmark" ELSE "mark"]
      BY <2>10 DEF Unmark
    <3>2. /\ pc[p] = "unmark" /\ jobs' = jobs /\ issued' = issued
      BY <2>10 DEF Unmark
    <3>3. Own(p) = pending[p] /\ Own(p)' = Own(p) \ {e}
      BY <2>0, <3>1, <3>2 DEF Own
    <3>4. \A q \in Api \ {p} : Own(q)' = Own(q) /\ e \notin Own(q)
      BY <2>0, <3>1, <3>3 DEF Own, Ownership
    <3>5. e \notin Carried /\ Carried' = Carried
      BY <3>1, <3>2, <3>3 DEF Ownership, Carried
    <3> QED
      BY <3>1, <3>2, <3>3, <3>4, <3>5 DEF Ownership, EnqueuedOnce
  <2>11. CASE Simulate(p)
    <3>1. PICK batch \in SUBSET (Simulated \ issued) :
            /\ issued' = issued \cup batch
            /\ pending' = [pending EXCEPT ![p] = batch]
      BY <2>11 DEF Simulate
    <3>2. /\ pc' = [pc EXCEPT ![p] = "check"]
          /\ jobs' = jobs /\ seen' = seen
      BY <2>11 DEF Simulate
    <3>3. Own(p)' = batch /\ batch \cap (seen \cup issued) = {}
      BY <2>0, <3>1, <3>2 DEF Own
    <3>4. \A q \in Api \ {p} : Own(q)' = Own(q)
      BY <2>0, <3>1, <3>2 DEF Own
    <3> QED
      BY <3>1, <3>2, <3>3, <3>4 DEF Ownership, EnqueuedOnce, Carried
  <2>12. CASE MarkFails(p)
    BY <2>0, <2>12, QuietOwnership DEF MarkFails, Own
  <2>13. CASE EnqueueRaises(p)
    <3>1. CASE UNCHANGED store
      BY <2>0, <2>13, <3>1, QuietOwnership DEF EnqueueRaises, Forget, Own
    <3>2. CASE pc[p] = "push" /\ AddJob(pending[p])
               /\ UNCHANGED <<seen, records, returned, issued>>
      BY <2>0, <2>7, <2>13, <3>2 DEF EnqueueRaises, Forget, Own
    <3> QED
      BY <2>13, <3>1, <3>2 DEF EnqueueRaises
  <2>14. CASE Crash(p)
    BY <2>0, <2>14, QuietOwnership DEF Crash, Forget, Own
  <2> QED
    BY <1>2, <2>1, <2>2, <2>3, <2>4, <2>5, <2>6, <2>8, <2>9, <2>10, <2>11,
       <2>12, <2>13, <2>14 DEF ApiStep, PollStep
<1>3. ASSUME NEW j \in queued, Dequeue(j) PROVE Ownership'
  BY <1>3, QuietOwnership DEF Dequeue, Own
<1>4. ASSUME NEW j \in DOMAIN jobs, Redeliver(j) PROVE Ownership'
  BY <1>4, QuietOwnership DEF Redeliver, Own
<1> QED
  BY <1>1, <1>2, <1>3, <1>4 DEF Next, Worker

LEMMA InitOwnership == Init => Ownership
  BY DEF Init, Ownership, Own, Carried, EnqueuedOnce

\* No event is ever carried by two jobs: whatever the number of pollers and
\* the faults they meet, enqueue_event_batch is given each id at most once.
THEOREM NeverEnqueuedTwice == Spec => []EnqueuedOnce
<1>1. Ownership => EnqueuedOnce
  BY DEF Ownership
<1> QED
  BY <1>1, InitOwnership, StepOwnership, TypeCorrect, PTL DEF Spec

-----------------------------------------------------------------------------
(* What follows from ownership.                                            *)

\* A step that removes an id from the seen set removes one no job carries.
THEOREM UnmarkingIsSafe == Spec => UnmarkOnlyDeferred
<1>1. TypeOK /\ Ownership /\ [Next]_vars
        => [\A e \in seen \ seen' : e \notin Carried]_vars
  <2> SUFFICES ASSUME TypeOK, Ownership, Next, NEW e \in seen, e \notin seen'
               PROVE  e \notin Carried
    OBVIOUS
  <2>1. PICK p \in Api : Unmark(p)
    BY DEF Next, Worker, ApiStep, PollStep, Fetch, MarkSeen, EndOfFeed, FindRoom,
           DeferBatch, DropSimulated, Push, Store, Simulate, MarkFails,
           EnqueueRaises, Crash, Forget, Dequeue, Redeliver, store
  <2>2. e \in pending[p] /\ pc[p] = "unmark"
    BY <2>1 DEF Unmark
  <2>3. e \in Own(p)
    BY <2>2 DEF Own
  <2> QED
    BY <2>3 DEF Ownership
<1> QED
  BY <1>1, InitOwnership, StepOwnership, TypeCorrect, PTL DEF Spec, UnmarkOnlyDeferred

LEMMA StepFlushed == TypeOK /\ Flushed /\ [Next]_vars => Flushed'
<1> SUFFICES ASSUME TypeOK, Flushed, [Next]_vars PROVE Flushed'
  OBVIOUS
<1> USE DEF Flushed, store, local
<1>0. pc \in [Api -> Steps] /\ pending \in [Api -> SUBSET Ids]
  BY DEF TypeOK
<1>1. CASE UNCHANGED vars
  BY <1>1 DEF vars
<1>2. ASSUME NEW p \in Api, ApiStep(p) PROVE Flushed'
  <2>1. CASE Fetch(p)
    BY <1>0, <2>1 DEF Fetch
  <2>2. CASE MarkSeen(p)
    <3> DEFINE batch == IF IsNew(Head(todo[p])) THEN pending[p] \cup {Head(todo[p])}
                                                ELSE pending[p]
    <3>1. BatchFull(batch) => batch # {}
      <4>1. Cardinality({}) = 0
        BY FS_EmptySet
      <4> QED
        BY <4>1, SizeAssumption DEF BatchFull
    <3> QED
      BY <1>0, <2>2, <3>1 DEF MarkSeen
  <2>3. CASE EndOfFeed(p)
    BY <1>0, <2>3 DEF EndOfFeed
  <2>4. CASE FindRoom(p)
    BY <1>0, <2>4 DEF FindRoom
  <2>5. CASE DeferBatch(p) \/ DropSimulated(p)
    BY <1>0, <2>5 DEF DeferBatch, DropSimulated
  <2>6. CASE Push(p) \/ Store(p) \/ Unmark(p)
    BY <1>0, <2>6 DEF Push, Store, Unmark
  <2>7. CASE Simulate(p)
    BY <1>0, <2>7 DEF Simulate
  <2>8. CASE MarkFails(p)
    BY <1>0, <2>8 DEF MarkFails
  <2>9. CASE EnqueueRaises(p) \/ Crash(p)
    BY <1>0, <2>9 DEF EnqueueRaises, Crash, Forget
  <2> QED
    BY <1>2, <2>1, <2>2, <2>3, <2>4, <2>5, <2>6, <2>7, <2>8, <2>9
    DEF ApiStep, PollStep
<1>3. ASSUME NEW j \in DOMAIN jobs, Dequeue(j) \/ Redeliver(j) PROVE Flushed'
  BY <1>3 DEF Dequeue, Redeliver
<1> QED
  BY <1>1, <1>2, <1>3 DEF Next, Worker, TypeOK

\* Only a push changes jobs, and what it appends is the batch of a process.
LEMMA JobsStep ==
  ASSUME TypeOK, Next, jobs' # jobs
  PROVE  \E p \in Api : pc[p] = "push" /\ jobs' = Append(jobs, pending[p])
BY DEF Next, Worker, ApiStep, PollStep, Fetch, MarkSeen, EndOfFeed, FindRoom,
       DeferBatch, DropSimulated, Push, Store, Unmark, Simulate, MarkFails,
       EnqueueRaises, AddJob, Crash, Forget, Dequeue, Redeliver, store

\* Intake implements its promise: each step enqueues one fresh non-empty batch
\* or changes nothing the workers can see.
THEOREM IntakeKeepsPromise == Spec => ImplementsPromise
<1>1. Init => Promise!Init
  BY DEF Init, Promise!Init
<1>2. TypeOK /\ Ownership /\ Flushed /\ [Next]_vars => [Promise!Next]_jobs
  <2> SUFFICES ASSUME TypeOK, Ownership, Flushed, Next, jobs' # jobs
               PROVE  Promise!Next
    BY DEF vars
  <2>1. PICK p \in Api : pc[p] = "push" /\ jobs' = Append(jobs, pending[p])
    BY JobsStep
  <2>2. pending[p] # {} /\ pending[p] \in SUBSET Ids
    BY <2>1 DEF Flushed, TypeOK
  <2>3. pending[p] \cap Promise!Carried = {}
    BY <2>1 DEF Ownership, Own, Carried, Promise!Carried
  <2> QED
    BY <2>1, <2>2, <2>3 DEF Promise!Next, Promise!Enqueue
<1>3. Init => Flushed
  BY DEF Init, Flushed
<1> QED
  BY <1>1, <1>2, <1>3, StepFlushed, InitOwnership, StepOwnership, TypeCorrect, PTL
  DEF Spec, ImplementsPromise, Promise!Spec

LEMMA StepStored == TypeOK /\ Stored /\ [Next]_vars => Stored'
<1> SUFFICES ASSUME TypeOK, Stored, [Next]_vars PROVE Stored'
  OBVIOUS
<1> USE DEF Stored, RecordHasJob, store, local
<1>0. /\ pc \in [Api -> Steps] /\ pending \in [Api -> SUBSET Ids]
  BY DEF TypeOK
<1>1. CASE UNCHANGED vars
  BY <1>1 DEF vars, Carried
<1>2. ASSUME NEW p \in Api, ApiStep(p) PROVE Stored'
  <2>1. CASE Fetch(p)
    BY <1>0, <2>1 DEF Fetch, Carried
  <2>2. CASE MarkSeen(p) \/ MarkFails(p)
    BY <1>0, <2>2 DEF MarkSeen, MarkFails, Carried
  <2>3. CASE EndOfFeed(p)
    BY <1>0, <2>3 DEF EndOfFeed, Carried
  <2>4. CASE FindRoom(p) \/ DeferBatch(p) \/ DropSimulated(p)
    BY <1>0, <2>4 DEF FindRoom, DeferBatch, DropSimulated, Carried
  <2>5. CASE Push(p)
    <3>1. Carried' = Carried \cup pending[p]
      BY <1>0, <2>5, AppendCarried DEF Push, AddJob
    <3> QED
      BY <1>0, <2>5, <3>1 DEF Push
  <2>6. CASE Store(p)
    BY <1>0, <2>6 DEF Store, Carried
  <2>7. CASE Unmark(p) \/ Simulate(p)
    BY <1>0, <2>7 DEF Unmark, Simulate, Carried
  <2>8. CASE EnqueueRaises(p)
    <3>1. Carried \subseteq Carried'
      <4>1. CASE UNCHANGED store
        BY <4>1 DEF Carried
      <4>2. CASE AddJob(pending[p])
        BY <1>0, <4>2, AppendCarried DEF AddJob
      <4> QED
        BY <2>8, <4>1, <4>2 DEF EnqueueRaises
    <3> QED
      BY <1>0, <2>8, <3>1 DEF EnqueueRaises, Forget
  <2>9. CASE Crash(p)
    BY <1>0, <2>9 DEF Crash, Forget, Carried
  <2> QED
    BY <1>2, <2>1, <2>2, <2>3, <2>4, <2>5, <2>6, <2>7, <2>8, <2>9
    DEF ApiStep, PollStep
<1>3. ASSUME NEW j \in DOMAIN jobs, Dequeue(j) \/ Redeliver(j) PROVE Stored'
  BY <1>3 DEF Dequeue, Redeliver, Carried
<1> QED
  BY <1>1, <1>2, <1>3 DEF Next, Worker, TypeOK

\* Every stored record describes an event that some job carries.
THEOREM RecordsHaveJobs == Spec => []RecordHasJob
<1>1. Init => Stored
  BY DEF Init, Stored, RecordHasJob
<1>2. Stored => RecordHasJob
  BY DEF Stored
<1> QED
  BY <1>1, <1>2, StepStored, TypeCorrect, PTL DEF Spec

-----------------------------------------------------------------------------
(* The depth cap.  Between the depth check and the push a process holds a  *)
(* slot that Redis knows nothing of; the invariant counts those slots.     *)

Pushing == {p \in Api : pc[p] = "push"}

DepthInv ==
    /\ IsFiniteSet(queued)
    /\ Cardinality(queued \ returned) + Cardinality(Pushing) + 1
         <= MaxDepth + Cardinality(Api)

\* A step that only removes jobs and stops pushes keeps the bound.
LEMMA QuietDepth ==
  ASSUME DepthInv, queued' \ returned' \subseteq queued \ returned,
         IsFiniteSet(queued'), Pushing' \subseteq Pushing
  PROVE  DepthInv'
<1>1. IsFiniteSet(Pushing) /\ Cardinality(Pushing') <= Cardinality(Pushing)
  BY ApiAssumption, FS_Subset DEF Pushing
<1>2. Cardinality(queued' \ returned') <= Cardinality(queued \ returned)
  BY FS_Subset DEF DepthInv
<1>3. /\ Cardinality(Pushing) \in Nat /\ Cardinality(Pushing') \in Nat
      /\ Cardinality(queued' \ returned') \in Nat
      /\ Cardinality(queued \ returned) \in Nat
      /\ Cardinality(Api) \in Nat
  BY <1>1, ApiAssumption, FS_Subset, FS_CardinalityType DEF DepthInv
<1> QED
  BY <1>1, <1>2, <1>3, SizeAssumption DEF DepthInv

LEMMA StepDepth == TypeOK /\ DepthInv /\ [Next]_vars => DepthInv'
<1> SUFFICES ASSUME TypeOK, DepthInv, [Next]_vars PROVE DepthInv'
  OBVIOUS
<1> USE DEF store, local
<1>0. /\ pc \in [Api -> Steps] /\ returned \subseteq queued
      /\ IsFiniteSet(queued) /\ IsFiniteSet(queued \ returned)
      /\ IsFiniteSet(Pushing)
      /\ Cardinality(queued) \in Nat /\ Cardinality(queued \ returned) \in Nat
      /\ Cardinality(Pushing) \in Nat /\ Cardinality(Api) \in Nat
  BY ApiAssumption, FS_Subset, FS_CardinalityType DEF TypeOK, DepthInv, Pushing
<1>1. CASE UNCHANGED vars
  BY <1>0, <1>1, QuietDepth DEF vars, Pushing
<1>2. ASSUME NEW p \in Api, ApiStep(p) PROVE DepthInv'
  <2>1. CASE \/ Fetch(p) \/ MarkSeen(p) \/ EndOfFeed(p) \/ MarkFails(p)
             \/ DeferBatch(p) \/ DropSimulated(p) \/ Store(p) \/ Unmark(p)
             \/ Simulate(p) \/ Crash(p)
    <3>1. queued' = queued /\ returned' = returned
      BY <2>1 DEF Fetch, MarkSeen, EndOfFeed, MarkFails, DeferBatch, DropSimulated,
                  Store, Unmark, Simulate, Crash
    <3>2. /\ pc'[p] # "push" \/ pc[p] = "push"
          /\ pc' = [pc EXCEPT ![p] = pc'[p]]
      BY <1>0, <2>1 DEF Fetch, MarkSeen, EndOfFeed, MarkFails, DeferBatch,
                  DropSimulated, Store, Unmark, Simulate, Crash, Forget
    <3>3. Pushing' \subseteq Pushing
      BY <1>0, <3>2 DEF Pushing
    <3> QED
      BY <1>0, <3>1, <3>3, QuietDepth
  <2>2. CASE FindRoom(p)
    <3>1. /\ p \notin Pushing /\ Pushing' = Pushing \cup {p}
          /\ queued' = queued /\ returned' = returned
      BY <1>0, <2>2 DEF FindRoom, Pushing
    <3>2. Cardinality(Pushing') <= Cardinality(Api) /\ Cardinality(Pushing') \in Nat
      BY <1>0, <3>1, ApiAssumption, FS_Subset, FS_CardinalityType DEF Pushing
    <3>3. Cardinality(queued \ returned) <= Cardinality(queued)
      BY <1>0, FS_Subset
    <3>4. Cardinality(queued) + 1 <= MaxDepth
      BY <2>2 DEF FindRoom, HasCapacity
    <3> QED
      BY <1>0, <3>1, <3>2, <3>3, <3>4, SizeAssumption DEF DepthInv
  <2>3. ASSUME pc[p] = "push", AddJob(pending[p]), returned' = returned,
               pc' = [pc EXCEPT ![p] = pc'[p]], pc'[p] # "push"
        PROVE  DepthInv'
    <3>1. p \in Pushing /\ Pushing' = Pushing \ {p}
      BY <1>0, <2>3 DEF Pushing
    <3>2. Cardinality(Pushing') = Cardinality(Pushing) - 1
      BY <1>0, <3>1, FS_RemoveElement
    <3>3. NextJob \notin queued
      BY DEF NextJob, TypeOK
    <3>4. /\ queued' \ returned' = (queued \ returned) \cup {NextJob}
          /\ queued' = queued \cup {NextJob}
      BY <1>0, <2>3, <3>3 DEF AddJob
    <3>5. /\ Cardinality(queued' \ returned') = Cardinality(queued \ returned) + 1
          /\ IsFiniteSet(queued')
      BY <1>0, <3>3, <3>4, FS_AddElement
    <3> QED
      BY <1>0, <3>2, <3>5, SizeAssumption DEF DepthInv
  <2>4. CASE Push(p)
    BY <1>0, <2>3, <2>4 DEF Push
  <2>5. CASE EnqueueRaises(p)
    <3>1. pc' = [pc EXCEPT ![p] = pc'[p]] /\ pc'[p] = "idle"
      BY <1>0, <2>5 DEF EnqueueRaises, Forget
    <3>2. CASE UNCHANGED store
      BY <1>0, <3>1, <3>2, QuietDepth DEF Pushing
    <3> QED
      BY <2>3, <2>5, <3>1, <3>2 DEF EnqueueRaises
  <2> QED
    BY <1>2, <2>1, <2>2, <2>4, <2>5 DEF ApiStep, PollStep
<1>3. ASSUME NEW j \in queued, Dequeue(j) PROVE DepthInv'
  BY <1>0, <1>3, QuietDepth, FS_Subset DEF Dequeue, Pushing
<1>4. ASSUME NEW j \in DOMAIN jobs, Redeliver(j) PROVE DepthInv'
  BY <1>0, <1>4, QuietDepth, FS_AddElement DEF Redeliver, Pushing
<1> QED
  BY <1>1, <1>2, <1>3, <1>4 DEF Next, Worker

\* The queue never exceeds MAX_QUEUE_DEPTH by more than one first-time job per
\* other API process, for any number of processes and retries.
THEOREM QueueDepthBounded == Spec => []DepthBound
<1>1. Init => DepthInv
  <2>1. ASSUME Init PROVE queued = {} /\ queued \ returned = {} /\ Pushing = {}
    BY <2>1 DEF Init, Pushing
  <2>2. Cardinality(Api) \in Nat /\ Cardinality(Api) # 0
    BY ApiAssumption, FS_CardinalityType, FS_EmptySet
  <2> QED
    BY <2>1, <2>2, FS_EmptySet, SizeAssumption DEF DepthInv
<1>2. DepthInv => DepthBound
  <2> SUFFICES ASSUME DepthInv PROVE DepthBound
    OBVIOUS
  <2>1. /\ Cardinality(Pushing) \in Nat /\ Cardinality(queued \ returned) \in Nat
        /\ Cardinality(Api) \in Nat
    BY ApiAssumption, FS_Subset, FS_CardinalityType DEF DepthInv, Pushing
  <2> QED
    BY <2>1, SizeAssumption DEF DepthInv, DepthBound
<1> QED
  BY <1>1, <1>2, StepDepth, TypeCorrect, PTL DEF Spec

-----------------------------------------------------------------------------
(* Batch size.  A process that still collects has room for one more event, *)
(* and one that does nothing holds none.                                   *)

Collecting ==
    /\ \A p \in Api : Cardinality(pending[p]) <= BatchSize
    /\ \A p \in Api : pc[p] = "mark" => Cardinality(pending[p]) < BatchSize
    /\ \A p \in Api : pc[p] = "idle" => pending[p] = {}

SizeInv == Collecting /\ BatchWithinSize

LEMMA BatchesFinite ==
  ASSUME TypeOK
  PROVE  \A b \in SUBSET Ids : IsFiniteSet(b) /\ Cardinality(b) \in Nat
  BY IdsAssumption, FS_Union, FS_Subset, FS_CardinalityType DEF Ids

LEMMA AddOne ==
  ASSUME NEW S, NEW x, IsFiniteSet(S)
  PROVE  Cardinality(S \cup {x}) <= Cardinality(S) + 1
<1>1. Cardinality(S) \in Nat
  BY FS_CardinalityType
<1>2. Cardinality(S \cup {x}) = IF x \in S THEN Cardinality(S) ELSE Cardinality(S) + 1
  BY FS_AddElement
<1> QED
  BY <1>1, <1>2

LEMMA StepCollecting == TypeOK /\ Collecting /\ [Next]_vars => Collecting'
<1> SUFFICES ASSUME TypeOK, Collecting, [Next]_vars PROVE Collecting'
  OBVIOUS
<1> USE DEF store, local
<1>0. /\ pc \in [Api -> Steps] /\ pending \in [Api -> SUBSET Ids]
      /\ Cardinality({}) = 0
      /\ \A b \in SUBSET Ids : IsFiniteSet(b) /\ Cardinality(b) \in Nat
  BY BatchesFinite, FS_EmptySet DEF TypeOK
<1>1. CASE UNCHANGED vars
  BY <1>1 DEF vars, Collecting
<1>2. ASSUME NEW p \in Api, ApiStep(p) PROVE Collecting'
  <2> USE SizeAssumption
  <2>0. /\ Cardinality(pending[p]) <= BatchSize
        /\ pc[p] = "mark" => Cardinality(pending[p]) < BatchSize
        /\ pc[p] = "idle" => pending[p] = {}
        /\ 0 < BatchSize
    BY DEF Collecting
  <2>L. ASSUME pc' = [pc EXCEPT ![p] = pc'[p]],
               pending' = [pending EXCEPT ![p] = pending'[p]],
               Cardinality(pending'[p]) <= BatchSize,
               pc'[p] = "mark" => Cardinality(pending'[p]) < BatchSize,
               pc'[p] = "idle" => pending'[p] = {}
        PROVE  Collecting'
    BY <1>0, <2>L DEF Collecting
  <2>1. CASE Fetch(p)
    <3>1. /\ pc' = [pc EXCEPT ![p] = pc'[p]]
          /\ pending' = [pending EXCEPT ![p] = pending'[p]]
      BY <1>0, <2>1 DEF Fetch
    <3>2. /\ Cardinality(pending'[p]) <= BatchSize
          /\ pc'[p] = "mark" => Cardinality(pending'[p]) < BatchSize
          /\ pc'[p] = "idle" => pending'[p] = {}
      BY <1>0, <2>0, <2>1 DEF Fetch
    <3> QED
      BY <2>L, <3>1, <3>2
  <2>2. CASE MarkSeen(p)
    <3> DEFINE e == Head(todo[p])
               batch == IF IsNew(e) THEN pending[p] \cup {e} ELSE pending[p]
    <3>1. e \in Ids
      BY <2>2 DEF MarkSeen, TypeOK, Ids
    <3>2. Cardinality(pending[p]) < BatchSize
      BY <2>2 DEF MarkSeen, Collecting
    <3>3. /\ batch \in SUBSET Ids
          /\ Cardinality(batch) <= Cardinality(pending[p]) + 1
      <4>1. IsFiniteSet(pending[p]) /\ Cardinality(pending[p]) \in Nat
        BY <1>0
      <4>2. Cardinality(pending[p] \cup {e}) <= Cardinality(pending[p]) + 1
        BY <4>1, AddOne
      <4> QED
        BY <1>0, <3>1, <4>1, <4>2
    <3>4. /\ pc' = [pc EXCEPT ![p] = IF BatchFull(batch) THEN "check" ELSE "mark"]
          /\ pending' = [pending EXCEPT ![p] = batch]
      BY <2>2 DEF MarkSeen
    <3>5. Cardinality(batch) <= BatchSize
      BY <1>0, <3>2, <3>3
    <3>6. ~BatchFull(batch) => Cardinality(batch) < BatchSize
      BY <1>0, <3>3 DEF BatchFull
    <3> HIDE DEF batch
    <3>7. /\ pending'[p] = batch
          /\ pc'[p] = IF BatchFull(batch) THEN "check" ELSE "mark"
      BY <1>0, <3>4
    <3> QED
      BY <1>0, <2>L, <3>4, <3>5, <3>6, <3>7
  <2>3. CASE EndOfFeed(p)
    <3>1. /\ pc' = [pc EXCEPT ![p] = pc'[p]]
          /\ pending' = [pending EXCEPT ![p] = pending'[p]]
      BY <1>0, <2>3 DEF EndOfFeed
    <3>2. /\ Cardinality(pending'[p]) <= BatchSize
          /\ pc'[p] = "mark" => Cardinality(pending'[p]) < BatchSize
          /\ pc'[p] = "idle" => pending'[p] = {}
      BY <1>0, <2>0, <2>3 DEF EndOfFeed
    <3> QED
      BY <2>L, <3>1, <3>2
  <2>4. CASE FindRoom(p) \/ DeferBatch(p)
    <3>1. /\ pc' = [pc EXCEPT ![p] = pc'[p]]
          /\ pending' = [pending EXCEPT ![p] = pending'[p]]
      BY <1>0, <2>4 DEF FindRoom, DeferBatch
    <3>2. /\ Cardinality(pending'[p]) <= BatchSize
          /\ pc'[p] = "mark" => Cardinality(pending'[p]) < BatchSize
          /\ pc'[p] = "idle" => pending'[p] = {}
      BY <1>0, <2>0, <2>4 DEF FindRoom, DeferBatch
    <3> QED
      BY <2>L, <3>1, <3>2
  <2>5. CASE DropSimulated(p)
    <3>1. /\ pc' = [pc EXCEPT ![p] = pc'[p]]
          /\ pending' = [pending EXCEPT ![p] = pending'[p]]
      BY <1>0, <2>5 DEF DropSimulated
    <3>2. /\ Cardinality(pending'[p]) <= BatchSize
          /\ pc'[p] = "mark" => Cardinality(pending'[p]) < BatchSize
          /\ pc'[p] = "idle" => pending'[p] = {}
      BY <1>0, <2>0, <2>5 DEF DropSimulated
    <3> QED
      BY <2>L, <3>1, <3>2
  <2>6. CASE Push(p)
    <3>1. /\ pc' = [pc EXCEPT ![p] = pc'[p]]
          /\ pending' = [pending EXCEPT ![p] = pending'[p]]
      BY <1>0, <2>6 DEF Push
    <3>2. /\ Cardinality(pending'[p]) <= BatchSize
          /\ pc'[p] = "mark" => Cardinality(pending'[p]) < BatchSize
          /\ pc'[p] = "idle" => pending'[p] = {}
      BY <1>0, <2>0, <2>6 DEF Push
    <3> QED
      BY <2>L, <3>1, <3>2
  <2>7. CASE Store(p) \/ Unmark(p)
    <3>1. PICK e \in pending[p] :
            /\ pending' = [pending EXCEPT ![p] = @ \ {e}]
            /\ pc' = [pc EXCEPT ![p] = pc'[p]]
            /\ pc'[p] \in {"mark", "idle"} => pending[p] = {e}
      BY <1>0, <2>7 DEF Store, Unmark
    <3>2. Cardinality(pending[p] \ {e}) <= BatchSize
      BY <1>0, <3>1, FS_Subset DEF Collecting
    <3> QED
      BY <1>0, <2>0, <2>L, <3>1, <3>2
  <2>8. CASE Simulate(p)
    <3>1. /\ pc' = [pc EXCEPT ![p] = pc'[p]]
          /\ pending' = [pending EXCEPT ![p] = pending'[p]]
      BY <1>0, <2>8 DEF Simulate
    <3>2. /\ Cardinality(pending'[p]) <= BatchSize
          /\ pc'[p] = "mark" => Cardinality(pending'[p]) < BatchSize
          /\ pc'[p] = "idle" => pending'[p] = {}
      BY <1>0, <2>0, <2>8 DEF Simulate
    <3> QED
      BY <2>L, <3>1, <3>2
  <2>9. CASE MarkFails(p)
    <3>1. /\ pc' = [pc EXCEPT ![p] = pc'[p]]
          /\ pending' = [pending EXCEPT ![p] = pending'[p]]
      BY <1>0, <2>9 DEF MarkFails
    <3>2. /\ Cardinality(pending'[p]) <= BatchSize
          /\ pc'[p] = "mark" => Cardinality(pending'[p]) < BatchSize
          /\ pc'[p] = "idle" => pending'[p] = {}
      BY <1>0, <2>0, <2>9 DEF MarkFails
    <3> QED
      BY <2>L, <3>1, <3>2
  <2>10. CASE EnqueueRaises(p) \/ Crash(p)
    <3>1. /\ pc' = [pc EXCEPT ![p] = pc'[p]]
          /\ pending' = [pending EXCEPT ![p] = pending'[p]]
      BY <1>0, <2>10 DEF EnqueueRaises, Crash, Forget
    <3>2. pc'[p] = "idle" /\ pending'[p] = {}
      BY <1>0, <2>10 DEF EnqueueRaises, Crash, Forget
    <3> QED
      BY <1>0, <2>L, <3>1, <3>2
  <2> QED
    BY <1>2, <2>1, <2>2, <2>3, <2>4, <2>5, <2>6, <2>7, <2>8, <2>9, <2>10
    DEF ApiStep, PollStep
<1>3. ASSUME NEW j \in DOMAIN jobs, Dequeue(j) \/ Redeliver(j) PROVE Collecting'
  BY <1>3 DEF Dequeue, Redeliver, Collecting
<1> QED
  BY <1>1, <1>2, <1>3 DEF Next, Worker, TypeOK

\* Every job carries at most INFERENCE_BATCH_SIZE events.
THEOREM BatchSizeBounded == Spec => []BatchWithinSize
<1>1. Init => SizeInv
  BY FS_EmptySet, SizeAssumption DEF Init, SizeInv, Collecting, BatchWithinSize
<1>2. TypeOK /\ SizeInv /\ [Next]_vars => SizeInv'
  <2> SUFFICES ASSUME TypeOK, SizeInv, [Next]_vars PROVE BatchWithinSize'
    BY StepCollecting DEF SizeInv
  <2>1. CASE jobs' = jobs
    BY <2>1 DEF SizeInv, BatchWithinSize
  <2>2. CASE jobs' # jobs
    <3>1. PICK p \in Api : jobs' = Append(jobs, pending[p])
      BY <2>2, JobsStep DEF vars
    <3>2. jobs \in Seq(SUBSET Ids) /\ pending[p] \in SUBSET Ids
      BY DEF TypeOK
    <3>3. /\ DOMAIN jobs' = DOMAIN jobs \cup {Len(jobs) + 1}
          /\ \A i \in DOMAIN jobs : jobs'[i] = jobs[i]
          /\ jobs'[Len(jobs) + 1] = pending[p]
      BY <3>1, <3>2
    <3> QED
      BY <3>3 DEF SizeInv, Collecting, BatchWithinSize
  <2> QED
    BY <2>1, <2>2
<1> QED
  BY <1>1, <1>2, TypeCorrect, PTL DEF Spec, SizeInv

-----------------------------------------------------------------------------
(* Without crashes and Redis errors nothing marked is lost on the way.     *)

Held == UNION {Own(p) : p \in Api}

Accounted ==
    /\ seen \subseteq Carried \cup Held
    /\ \A p \in Api : pc[p] = "idle" => pending[p] = {}
    /\ \A p \in Api : handler[p] = "simulate" =>
          /\ pc[p] \notin {"mark", "unmark"}
          /\ pc[p] = "check" => pending[p] \subseteq Simulated

\* Enough of the new state to see that every marked event is still held.
LEMMA KeepsAccounts ==
  ASSUME Accounted, NEW p \in Api,
         seen' \subseteq seen \cup Own(p)', Carried \subseteq Carried',
         \A q \in Api \ {p} : Own(q)' = Own(q),
         Own(p) \cap seen' \subseteq Own(p)' \cup Carried'
  PROVE  seen' \subseteq Carried' \cup Held'
<1>1. \A q \in Api : Own(q) \cap seen' \subseteq Carried' \cup Held'
  BY DEF Held
<1>2. Own(p)' \subseteq Held'
  BY DEF Held
<1> QED
  BY <1>1, <1>2 DEF Accounted, Held

LEMMA StepAccounted ==
  ASSUME TypeOK, Accounted, [Next]_vars, "crash" \notin Faults, "redis" \notin Faults
  PROVE  Accounted'
<1> USE DEF store, local
<1>0. /\ pc \in [Api -> Steps] /\ pending \in [Api -> SUBSET Ids]
      /\ handler \in [Api -> {"poller", "simulate"}]
      /\ seen \subseteq Events /\ Events \cap Simulated = {}
  BY IdsAssumption DEF TypeOK
<1>1. CASE UNCHANGED vars
  BY <1>1 DEF vars, Accounted, Carried, Held, Own
<1>2. ASSUME NEW p \in Api, ApiStep(p) PROVE Accounted'
  <2>0. /\ pc[p] = "idle" => pending[p] = {}
        /\ handler[p] = "simulate" =>
              /\ pc[p] \notin {"mark", "unmark"}
              /\ pc[p] = "check" => pending[p] \subseteq Simulated
    BY DEF Accounted
  <2>1. /\ \A q \in Api : pc'[q] = "idle" => pending'[q] = {}
        /\ \A q \in Api : handler'[q] = "simulate" =>
              /\ pc'[q] \notin {"mark", "unmark"}
              /\ pc'[q] = "check" => pending'[q] \subseteq Simulated
    <3>1. \A q \in Api \ {p} : /\ pc'[q] = pc[q] /\ handler'[q] = handler[q]
                               /\ pending'[q] = pending[q]
      BY <1>0, <1>2 DEF ApiStep, PollStep, Fetch, MarkSeen, EndOfFeed, FindRoom,
           DeferBatch, DropSimulated, Push, Store, Unmark, Simulate, MarkFails,
           EnqueueRaises, Crash, Forget
    <3>2. pc'[p] = "idle" => pending'[p] = {}
      BY <1>0, <1>2, <2>0 DEF ApiStep, PollStep, Fetch, MarkSeen, EndOfFeed, FindRoom,
           DeferBatch, DropSimulated, Push, Store, Unmark, Simulate, MarkFails,
           EnqueueRaises, Crash, Forget
    <3>3. handler'[p] = "simulate" => pc'[p] \notin {"mark", "unmark"}
      BY <1>0, <1>2, <2>0 DEF ApiStep, PollStep, Fetch, MarkSeen, EndOfFeed, FindRoom,
           DeferBatch, DropSimulated, Push, Store, Unmark, Simulate, MarkFails,
           EnqueueRaises, Crash, Forget
    <3>4. handler'[p] = "simulate" /\ pc'[p] = "check" => pending'[p] \subseteq Simulated
      <4>1. CASE Simulate(p)
        BY <1>0, <4>1 DEF Simulate
      <4>2. CASE ~Simulate(p)
        BY <1>0, <1>2, <2>0, <4>2 DEF ApiStep, PollStep, Fetch, MarkSeen, EndOfFeed,
             FindRoom, DeferBatch, DropSimulated, Push, Store, Unmark, MarkFails,
             EnqueueRaises, Crash, Forget
      <4> QED
        BY <4>1, <4>2
    <3> QED
      BY <3>1, <3>2, <3>3, <3>4 DEF Accounted
  <2>2. /\ seen' \subseteq seen \cup Own(p)'
        /\ \A q \in Api \ {p} : Own(q)' = Own(q)
    BY <1>0, <1>2 DEF Own, ApiStep, PollStep, Fetch, MarkSeen, EndOfFeed, FindRoom,
         DeferBatch, DropSimulated, Push, Store, Unmark, Simulate, MarkFails,
         EnqueueRaises, Crash, Forget, IsNew
  <2>3. /\ Carried \subseteq Carried'
        /\ Own(p) \cap seen' \subseteq Own(p)' \cup Carried'
    <3>1. CASE Push(p)
      BY <1>0, <3>1, AppendCarried DEF Push, AddJob, Own
    <3>2. CASE ~Push(p)
      <4>1. jobs' = jobs
        BY <1>2, <3>2 DEF ApiStep, PollStep, Fetch, MarkSeen, EndOfFeed, FindRoom,
             DeferBatch, DropSimulated, Store, Unmark, Simulate, MarkFails,
             EnqueueRaises, Crash
      <4>2. Own(p) \cap seen' \subseteq Own(p)'
        BY <1>0, <1>2, <2>0, <3>2 DEF Own, ApiStep, PollStep, Fetch, MarkSeen,
             EndOfFeed, FindRoom, DeferBatch, DropSimulated, Store, Unmark, Simulate,
             MarkFails, EnqueueRaises, Crash
      <4> QED
        BY <4>1, <4>2 DEF Carried
    <3> QED
      BY <3>1, <3>2
  <2> QED
    BY <2>1, <2>2, <2>3, KeepsAccounts DEF Accounted
<1>3. ASSUME NEW j \in DOMAIN jobs, Dequeue(j) \/ Redeliver(j) PROVE Accounted'
  BY <1>3 DEF Dequeue, Redeliver, Accounted, Carried, Held, Own
<1> QED
  BY <1>1, <1>2, <1>3 DEF Next, Worker, TypeOK

\* If no process crashes and no Redis command fails, every event in the seen set
\* has been enqueued once all processes are between two polls.
THEOREM MarkedEventsAreEnqueued ==
  ASSUME "crash" \notin Faults, "redis" \notin Faults
  PROVE  Spec => []SeenIsEnqueued
<1>1. Init => Accounted
  BY DEF Init, Accounted
<1>2. Accounted => SeenIsEnqueued
  BY DEF Accounted, SeenIsEnqueued, Held, Own
<1>3. TypeOK /\ Accounted /\ [Next]_vars => Accounted'
  BY StepAccounted
<1> QED
  BY <1>1, <1>2, <1>3, TypeCorrect, PTL DEF Spec

=============================================================================
