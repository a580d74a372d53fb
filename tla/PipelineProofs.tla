---------------------------- MODULE PipelineProofs ----------------------------
(***************************************************************************)
(* Proofs about Pipeline.  Its parts have been proved correct on their own *)
(* (EventIntakeProofs, JobExecutionProofs); what intake promises is what   *)
(* execution needs, that no event is in two jobs, and together they keep   *)
(* the promise of EventLifecycle.                                          *)
(***************************************************************************)
EXTENDS Pipeline, FiniteLemmas

E == INSTANCE JobExecutionProofs WITH Single <- {}, Faults <- {}

Q == INSTANCE EventIntakeProofs WITH
    Simulated <- {}, Feeds <- {Fetched, <<>>}, Faults <- {"redeliver"},
    pc <- apiPc, todo <- feed, queued <- Queued, returned <- Returned,
    records <- {e \in Events : record[e].status # "none"}

-----------------------------------------------------------------------------
(* The assumptions of the parts.                                           *)

LEMMA SameFiniteness ==
  /\ \A S : E!IsFiniteSet(S) <=> IsFiniteSet(S)
  /\ \A S : Q!IsFiniteSet(S) <=> IsFiniteSet(S)
  /\ \A S : E!Cardinality(S) = Cardinality(S)
  /\ \A S : Q!Cardinality(S) = Cardinality(S)
  BY DEF IsFiniteSet, E!IsFiniteSet, Q!IsFiniteSet, Cardinality, E!Cardinality, Q!Cardinality

LEMMA BatchEvents ==
  /\ E!Events = Events
  /\ \A j \in Jobs : E!Members(Payload[j]) = Batch[j] /\ E!EventsOf(j) = Batch[j]
  BY DEF E!Events, Events, Batch, ToSet, E!Members, E!EventsOf

ExecutionGiven ==
    /\ E!PayloadAssumption /\ E!JobsAssumption /\ E!WorkersAssumption
    /\ E!BoundsAssumption /\ E!FaultsAssumption

LEMMA ExecutionApplies == ExecutionGiven
<1>1. \A j \in Jobs : /\ Payload[j] \in Seq(Events) /\ Cardinality(Batch[j]) = Len(Payload[j])
                      /\ Batch[j] # {}
  BY PayloadAssumption, BatchesAssumption
<1>2. ASSUME NEW j \in Jobs, Payload[j] = <<>> PROVE FALSE
  <2>1. Batch[j] = {}
    BY <1>2 DEF Batch, ToSet
  <2> QED
    BY <1>1, <2>1
<1>3. E!PayloadAssumption
  BY <1>1, <1>2, BatchEvents, SameFiniteness, PayloadAssumption DEF E!PayloadAssumption
<1>4. E!JobsAssumption /\ E!WorkersAssumption
  BY SameFiniteness, JobsAssumption, ProcessesAssumption
  DEF E!JobsAssumption, E!WorkersAssumption
<1>5. E!BoundsAssumption /\ E!FaultsAssumption
  BY BoundsAssumption DEF E!BoundsAssumption, E!FaultsAssumption
<1> QED
  BY <1>3, <1>4, <1>5 DEF ExecutionGiven

\* The list that fetch_open_events builds: each step of the loop depends on
\* the one before.
IsParsedTo(h, n) ==
    h = [k \in 0..n |-> IF k = 0 THEN <<>>
                        ELSE IF Listed[k] \in Unparsable THEN h[k - 1]
                        ELSE Append(h[k - 1], Listed[k])]

LEMMA ParsedExists == \A n \in Nat : n <= Len(Listed) => \E h : IsParsedTo(h, n)
<1> DEFINE A == {n \in Nat : n <= Len(Listed) => \E h : IsParsedTo(h, n)}
<1>1. 0 \in A
  <2>1. IsParsedTo([k \in 0..0 |-> <<>>], 0)
    BY DEF IsParsedTo
  <2> QED
    BY <2>1
<1>2. ASSUME NEW n \in Nat, n \in A PROVE n + 1 \in A
  <2>1. Len(Listed) \in Nat
    BY ListedAssumption
  <2>2. SUFFICES ASSUME n + 1 <= Len(Listed) PROVE \E h : IsParsedTo(h, n + 1)
    OBVIOUS
  <2>3. PICK h : IsParsedTo(h, n)
    BY <1>2, <2>1, <2>2
  <2> DEFINE g == [k \in 0..(n + 1) |->
                     IF k <= n THEN h[k]
                     ELSE IF Listed[k] \in Unparsable THEN h[k - 1]
                     ELSE Append(h[k - 1], Listed[k])]
  <2>4. ASSUME NEW k \in 0..(n + 1)
        PROVE  g[k] = IF k = 0 THEN <<>>
                      ELSE IF Listed[k] \in Unparsable THEN g[k - 1]
                      ELSE Append(g[k - 1], Listed[k])
    <3>1. CASE k <= n
      <4>1. k \in 0..n /\ g[k] = h[k] /\ (k # 0 => g[k - 1] = h[k - 1])
        BY <3>1
      <4>2. h[k] = IF k = 0 THEN <<>>
                   ELSE IF Listed[k] \in Unparsable THEN h[k - 1]
                   ELSE Append(h[k - 1], Listed[k])
        BY <2>3, <4>1 DEF IsParsedTo
      <4> QED
        BY <4>1, <4>2
    <3>2. CASE ~(k <= n)
      BY <3>2
    <3> QED
      BY <3>1, <3>2
  <2>5. IsParsedTo(g, n + 1)
    BY <2>4 DEF IsParsedTo
  <2> QED
    BY <2>5
<1> HIDE DEF A
<1>3. Nat \subseteq A
  BY <1>1, <1>2, NatSetInduction
<1> QED
  BY <1>3 DEF A

LEMMA FetchedType == Fetched \in Seq(Events)
<1> DEFINE h == Client!ParsedTo
           A == {n \in Nat : n <= Len(Listed) => h[n] \in Seq(Events)}
<1>0. Len(Listed) \in Nat /\ \A n \in 1..Len(Listed) : Listed[n] \in ToSet(Listed)
  BY ListedAssumption
<1>1. IsParsedTo(h, Len(Listed))
  <2>1. h = CHOOSE f : IsParsedTo(f, Len(Listed))
    BY DEF IsParsedTo, Client!ParsedTo
  <2> HIDE DEF h
  <2> QED
    BY <1>0, <2>1, ParsedExists
<1> HIDE DEF h
<1>2. 0 \in A
  BY <1>0, <1>1 DEF IsParsedTo
<1>3. ASSUME NEW n \in Nat, n \in A PROVE n + 1 \in A
  <2>1. SUFFICES ASSUME n + 1 <= Len(Listed) PROVE h[n + 1] \in Seq(Events)
    OBVIOUS
  <2>2. h[n + 1] = IF Listed[n + 1] \in Unparsable THEN h[n] ELSE Append(h[n], Listed[n + 1])
    <3>1. n + 1 \in 0..Len(Listed) /\ n + 1 # 0 /\ (n + 1) - 1 = n
      BY <1>0, <2>1
    <3>2. \A k \in 0..Len(Listed) : h[k] = IF k = 0 THEN <<>>
                                           ELSE IF Listed[k] \in Unparsable THEN h[k - 1]
                                           ELSE Append(h[k - 1], Listed[k])
      BY <1>1 DEF IsParsedTo
    <3> QED
      BY <3>1, <3>2
  <2>3. h[n] \in Seq(Events) /\ Listed[n + 1] \in ToSet(Listed)
    BY <1>0, <1>3, <2>1
  <2>4. Listed[n + 1] \notin Unparsable => Listed[n + 1] \in Events
    BY <2>3, BatchesAssumption
  <2> QED
    BY <2>2, <2>3, <2>4
<1> HIDE DEF A
<1>4. Nat \subseteq A
  BY <1>2, <1>3, NatSetInduction
<1> QED
  BY <1>0, <1>4 DEF A, h, Fetched, Client!Parsed

IntakeGiven ==
    /\ Q!ApiAssumption /\ Q!IdsAssumption /\ Q!FeedsAssumption
    /\ Q!SizeAssumption /\ Q!FaultsAssumption

LEMMA EventsFinite == IsFiniteSet(Events)
<1>1. \A b \in {Batch[j] : j \in Jobs} : IsFiniteSet(b)
  <2> SUFFICES ASSUME NEW j \in Jobs PROVE IsFiniteSet(Batch[j])
    OBVIOUS
  <2> DEFINE s == Payload[j]
  <2>1. s \in Seq(Events) /\ Len(s) \in Nat /\ DOMAIN s = 1..Len(s)
    BY PayloadAssumption
  <2>2. Batch[j] = {s[i] : i \in 1..Len(s)}
    BY <2>1 DEF Batch, ToSet
  <2>3. s \in Surjection(1..Len(s), Batch[j])
    BY <2>1, <2>2 DEF Surjection
  <2> HIDE DEF s
  <2>4. IsFiniteSet(1..Len(s))
    BY <2>1, FS_Interval
  <2> QED
    BY <2>3, <2>4, FS_Surjection
<1>2. IsFiniteSet({Batch[j] : j \in Jobs})
  <2>1. Batch \in Surjection(Jobs, {Batch[j] : j \in Jobs})
    BY DEF Surjection, Batch
  <2> QED
    BY <2>1, JobsAssumption, FS_Surjection
<1> QED
  BY <1>1, <1>2, FS_UNION DEF Events

LEMMA IntakeApplies == IntakeGiven
<1>1. Q!ApiAssumption /\ Q!IdsAssumption
  <2>1. IsFiniteSet({})
    BY FS_EmptySet
  <2> QED
    BY <2>1, SameFiniteness, ProcessesAssumption, EventsFinite
    DEF Q!ApiAssumption, Q!IdsAssumption
<1>2. Q!FeedsAssumption
  BY FetchedType DEF Q!FeedsAssumption
<1>3. Q!SizeAssumption /\ Q!FaultsAssumption
  BY BoundsAssumption DEF Q!SizeAssumption, Q!FaultsAssumption
<1> QED
  BY <1>1, <1>2, <1>3 DEF IntakeGiven

-----------------------------------------------------------------------------
(* The parts, as Pipeline names them, are the parts the proofs are about.  *)

LEMMA SameExecution ==
  /\ Exec!Next <=> E!Next
  /\ \A j \in Jobs : Exec!Store(j) <=> E!Store(j)
  /\ Exec!Init <=> E!Init
  BY DEF Cardinality, Exec!Cardinality, E!Cardinality, Exec!Events, E!Events,
     Exec!Members, Exec!Keys, Exec!redis, Exec!queue, Exec!horse, Exec!Init,
     Exec!Goto, Exec!Least, Exec!SetRecord, Exec!Enqueue, Exec!Store,
     Exec!StoreLost, Exec!Requeue, Exec!Take, Exec!Leave, Exec!FailJob, Exec!Return,
     Exec!Settle, Exec!Kill, Exec!Abandon, Exec!Reschedule, Exec!ExpireCurrent,
     Exec!IsSingle, Exec!AlreadyDone, Exec!Load, Exec!Struck, Exec!Loaded,
     Exec!Begin, Exec!MarkRaises, Exec!EndLoad, Exec!Infer, Exec!AfterInferError,
     Exec!InferRaises, Exec!Item, Exec!NextItem, Exec!Consumed, Exec!Claim,
     Exec!Write, Exec!CountItem, Exec!Count, Exec!PersistSwallowed,
     Exec!PersistRaises, Exec!Blame, Exec!BlameRaises, Exec!ClearTask, Exec!Cleanup, Exec!Unwind,
     Exec!TimeoutEscapes, Exec!RetriesLeft, Exec!KeepAttempt, Exec!Bury,
     Exec!SaveDeadLetter, Exec!Trimmed, Exec!TrimDeadLetters, Exec!Demote,
     Exec!DemoteRaises, Exec!TaskStep, Exec!HorseFault, Exec!Deliver, Exec!Next,
     E!Members, E!Keys, E!redis, E!queue, E!horse, E!Init, E!Goto, E!Least,
     E!SetRecord, E!Enqueue, E!Store, E!StoreLost, E!Requeue, E!Take, E!Leave,
     E!FailJob, E!Return, E!Settle, E!Kill, E!Abandon, E!Reschedule,
     E!ExpireCurrent, E!IsSingle, E!AlreadyDone, E!Load, E!Struck, E!Loaded,
     E!Begin, E!MarkRaises, E!EndLoad, E!Infer, E!AfterInferError, E!InferRaises,
     E!Item, E!NextItem, E!Consumed, E!Claim, E!Write, E!CountItem, E!Count,
     E!PersistSwallowed, E!PersistRaises, E!Blame, E!BlameRaises, E!ClearTask, E!Cleanup, E!Unwind,
     E!TimeoutEscapes, E!RetriesLeft, E!KeepAttempt, E!Bury, E!SaveDeadLetter,
     E!Trimmed, E!TrimDeadLetters, E!Demote, E!DemoteRaises, E!TaskStep,
     E!HorseFault, E!Deliver, E!Next

LEMMA SameIntake ==
  /\ Intake!Next <=> Q!Next
  /\ Intake!Init <=> Q!Init
  BY DEF Cardinality, Intake!Cardinality, Q!Cardinality,
     Intake!Ids, Intake!store, Intake!local, Intake!Init, Intake!Fetch,
     Intake!IsNew, Intake!BatchFull, Intake!MarkSeen, Intake!MarkFails,
     Intake!EndOfFeed, Intake!Simulate, Intake!HasCapacity, Intake!FindRoom,
     Intake!DeferBatch, Intake!DropSimulated, Intake!NextJob, Intake!AddJob,
     Intake!Push, Intake!Store, Intake!Unmark, Intake!Forget, Intake!EnqueueRaises,
     Intake!Crash, Intake!Dequeue, Intake!Redeliver, Intake!PollStep,
     Intake!ApiStep, Intake!Worker, Intake!Next,
     Q!Ids, Q!store, Q!local, Q!Init, Q!Fetch, Q!IsNew, Q!BatchFull, Q!MarkSeen,
     Q!MarkFails, Q!EndOfFeed, Q!Simulate, Q!HasCapacity, Q!FindRoom, Q!DeferBatch,
     Q!DropSimulated, Q!NextJob, Q!AddJob, Q!Push, Q!Store, Q!Unmark, Q!Forget,
     Q!EnqueueRaises, Q!Crash, Q!Dequeue, Q!Redeliver, Q!PollStep, Q!ApiStep,
     Q!Worker, Q!Next

-----------------------------------------------------------------------------
(* The inductive invariant: those of the parts, and between them that what *)
(* RQ knows has been enqueued.                                             *)

IntakeInv == Q!TypeOK /\ Q!Ownership /\ Q!Flushed /\ Q!Collecting

Linked == \A j \in Jobs : rq[j] # "absent" => \E i \in DOMAIN jobs : jobs[i] = Batch[j]

ExecutionInv == E!Typed /\ E!FinalInv /\ E!WriterInv /\ E!OutcomeInv /\ E!ShownInv

PipelineInv == Client!ClientTypeOK /\ IntakeInv /\ Linked /\ ExecutionInv

\* Intake's promise, in execution's terms.
LEMMA JobsApart == Q!Ownership /\ Linked => E!Apart
<1> SUFFICES ASSUME Q!Ownership, Linked,
                    NEW i \in Jobs, NEW j \in Jobs, i # j, rq[i] # "absent", rq[j] # "absent"
             PROVE  Batch[i] \cap Batch[j] = {}
  BY BatchEvents DEF E!Apart
<1>1. PICK a \in DOMAIN jobs : jobs[a] = Batch[i]
  BY DEF Linked
<1>2. PICK b \in DOMAIN jobs : jobs[b] = Batch[j]
  BY DEF Linked
<1>3. a # b
  BY <1>1, <1>2, BatchesAssumption
<1> QED
  BY <1>1, <1>2, <1>3 DEF Q!Ownership, Q!EnqueuedOnce

\* What a process pushes is the batch of a job.
LEMMA PushedBatch ==
  ASSUME IntakeInv, NEW p \in Api, apiPc[p] = "push"
  PROVE  JobOf[pending[p]] \in Jobs /\ Batch[JobOf[pending[p]]] = pending[p]
<1>1. pending[p] \subseteq Events /\ pending[p] # {}
  BY DEF IntakeInv, Q!TypeOK, Q!Ids, Q!Flushed
<1>2. Cardinality(pending[p]) <= BatchSize
  BY SameFiniteness DEF IntakeInv, Q!Collecting
<1>3. PICK j \in Jobs : Batch[j] = pending[p]
  BY <1>1, <1>2, BatchesAssumption
<1>4. JobOf[pending[p]] = CHOOSE i \in Jobs : Batch[i] = pending[p]
  BY <1>3 DEF JobOf
<1> QED
  BY <1>3, <1>4

\* Every step is one of the execution part, or leaves that part alone.
LEMMA ExecutionStep == IntakeInv /\ [Next]_vars => [E!Next]_(E!vars)
<1> SUFFICES ASSUME IntakeInv, [Next]_vars PROVE Exec!Next \/ UNCHANGED exec
  BY SameExecution DEF exec, E!vars
<1>1. CASE UNCHANGED vars
  BY <1>1 DEF vars
<1>2. ASSUME NEW p \in Api, PollStep(p) PROVE Exec!Next \/ UNCHANGED exec
  <2>1. CASE Push(p)
    BY <2>1, PushedBatch DEF Push, Exec!Next
  <2>2. CASE Store(p)
    BY <2>2 DEF Store, Exec!Next
  <2> QED
    BY <1>2, <2>1, <2>2 DEF PollStep, Request, Retry, Raise, Answer, GiveUp, Return, Collect
<1>3. ASSUME NEW j \in Jobs, Deliver(j) \/ Reschedule(j) \/ Requeue(j) PROVE Exec!Next
  BY <1>3 DEF Deliver, Reschedule, Requeue, Exec!Next
<1>4. ASSUME NEW w \in Workers, Work(w) PROVE Exec!Next
  BY <1>4 DEF Work, Exec!Next
<1>5. CASE Expire
  BY <1>5 DEF Expire, Exec!Next
<1> QED
  BY <1>1, <1>2, <1>3, <1>4, <1>5 DEF Next

\* Every step is one of the intake part, or leaves that part's own variables
\* alone; the work on a job moves jobs and records that intake only looks at.
LEMMA IntakeStep == Q!TypeOK /\ [Next]_vars => Q!Next \/ UNCHANGED api
<1> SUFFICES ASSUME Q!TypeOK, [Next]_vars PROVE Intake!Next \/ UNCHANGED api
  BY SameIntake
<1>1. CASE UNCHANGED vars
  BY <1>1 DEF vars
<1>2. ASSUME NEW p \in Api, PollStep(p) PROVE Intake!Next \/ UNCHANGED api
  <2>1. ASSUME Intake!ApiStep(p) PROVE Intake!Next
    BY <2>1 DEF Intake!Next
  <2>2. CASE Request(p) \/ Retry(p) \/ Raise(p)
    BY <2>2 DEF Request, Retry, Raise
  <2>3. CASE Answer(p) \/ GiveUp(p)
    BY <2>1, <2>3 DEF Answer, GiveUp, Return, Intake!ApiStep, Intake!PollStep
  <2>4. CASE Collect(p) \/ Push(p) \/ Store(p)
    BY <2>1, <2>4 DEF Collect, Push, Store, Intake!ApiStep, Intake!PollStep
  <2> QED
    BY <1>2, <2>2, <2>3, <2>4 DEF PollStep
<1>3. ASSUME NEW j \in Jobs, Deliver(j) \/ Reschedule(j) \/ Requeue(j) PROVE Intake!Next
  <2>1. CASE Deliver(j)
    BY <2>1 DEF Deliver, Intake!Next, Intake!Worker, Intake!Dequeue
  <2>2. CASE Reschedule(j) \/ Requeue(j)
    BY <2>2 DEF Reschedule, Requeue, Intake!Next, Intake!Redeliver
  <2> QED
    BY <1>3, <2>1, <2>2
<1>4. ASSUME NEW w \in Workers, Work(w) PROVE UNCHANGED api
  BY <1>4 DEF Work
<1>5. CASE Expire
  BY <1>5 DEF Expire
<1> QED
  BY <1>1, <1>2, <1>3, <1>4, <1>5 DEF Next

LEMMA StepIntakeInv == IntakeInv /\ [Next]_vars => IntakeInv'
<1> SUFFICES ASSUME IntakeInv, [Next]_vars PROVE IntakeInv'
  OBVIOUS
<1>1. CASE Q!Next
  <2>1. Q!ApiAssumption /\ Q!IdsAssumption /\ Q!FeedsAssumption
        /\ Q!SizeAssumption /\ Q!FaultsAssumption
    BY IntakeApplies DEF IntakeGiven
  <2>2. Q!TypeOK'
    BY <1>1, <2>1, Q!StepTypeOK DEF IntakeInv
  <2>3. Q!Ownership'
    BY <1>1, <2>1, Q!StepOwnership DEF IntakeInv
  <2>4. Q!Flushed'
    BY <1>1, <2>1, Q!StepFlushed DEF IntakeInv
  <2>5. Q!Collecting'
    BY <1>1, <2>1, Q!StepCollecting DEF IntakeInv
  <2> QED
    BY <2>2, <2>3, <2>4, <2>5 DEF IntakeInv
<1>2. CASE UNCHANGED api
  <2>1. Queued' \subseteq DOMAIN jobs /\ Returned' \subseteq Queued'
    BY <1>2 DEF Queued, Returned, api
  <2>2. Q!TypeOK'
    BY <1>2, <2>1 DEF IntakeInv, Q!TypeOK, api, Q!Ids, Q!Steps
  <2>3. Q!Ownership' /\ Q!Flushed' /\ Q!Collecting'
    BY <1>2 DEF IntakeInv, Q!Ownership, Q!Own, Q!Carried, Q!EnqueuedOnce, Q!Flushed,
       Q!Collecting, api
  <2> QED
    BY <2>2, <2>3 DEF IntakeInv
<1> QED
  BY <1>1, <1>2, IntakeStep DEF IntakeInv

\* Of the execution part's steps only Enqueue makes a job known to RQ.
LEMMA AbsentStays ==
  ASSUME E!Typed, E!FinalInv, E!WriterInv, NEW j \in Jobs, rq[j] = "absent",
         \/ \E i \in Jobs : Exec!Store(i) \/ Exec!Deliver(i) \/ Exec!Reschedule(i) \/ Exec!Requeue(i)
         \/ \E w \in Workers : Exec!TaskStep(w)
         \/ Exec!ExpireCurrent
         \/ UNCHANGED exec
  PROVE  rq'[j] = "absent"
<1>0. /\ rq \in [Jobs -> E!Places]
      /\ \A w \in Workers : pc[w] # "idle" => job[w] # j
  BY DEF E!Typed, E!TypeOK, E!QueueTypeOK, E!FinalInv, E!WriterInv, E!Active
<1>1. ASSUME NEW i \in Jobs,
             Exec!Store(i) \/ Exec!Deliver(i) \/ Exec!Reschedule(i) \/ Exec!Requeue(i)
      PROVE  rq'[j] = "absent"
  BY <1>0, <1>1 DEF Exec!Store, Exec!Deliver, Exec!Take, Exec!Reschedule, Exec!Requeue,
     Exec!queue
<1>2. ASSUME NEW w \in Workers, Exec!TaskStep(w) PROVE rq'[j] = "absent"
  <2>1. CASE Exec!Return(w) \/ Exec!Settle(w)
    BY <1>0, <2>1 DEF Exec!Return, Exec!Settle, Exec!FailJob
  <2>2. CASE \/ Exec!Load(w) \/ Exec!Begin(w) \/ Exec!EndLoad(w) \/ Exec!Infer(w)
             \/ Exec!InferRaises(w) \/ Exec!Claim(w) \/ Exec!Write(w) \/ Exec!Count(w)
             \/ Exec!Blame(w) \/ Exec!Cleanup(w) \/ Exec!Unwind(w) \/ Exec!KeepAttempt(w)
    <3>1. UNCHANGED Exec!queue
      BY <2>2 DEF Exec!Load, Exec!Begin, Exec!EndLoad, Exec!Infer, Exec!InferRaises,
         Exec!Claim, Exec!Write, Exec!Count, Exec!Blame, Exec!Cleanup, Exec!Unwind,
         Exec!KeepAttempt
    <3> QED
      BY <3>1 DEF Exec!queue
  <2>3. CASE Exec!SaveDeadLetter(w) \/ Exec!TrimDeadLetters(w) \/ Exec!Demote(w)
    BY <2>3 DEF Exec!SaveDeadLetter, Exec!TrimDeadLetters, Exec!Demote, Exec!queue
  <2> QED
    BY <1>2, <2>1, <2>2, <2>3 DEF Exec!TaskStep
<1> QED
  BY <1>1, <1>2 DEF Exec!ExpireCurrent, Exec!queue, exec

LEMMA StepLinked == PipelineInv /\ [Next]_vars => Linked'
<1> SUFFICES ASSUME PipelineInv, [Next]_vars, NEW j \in Jobs, rq'[j] # "absent"
             PROVE  \E i \in DOMAIN jobs' : jobs'[i] = Batch[j]
  BY DEF Linked, Batch
<1>0. /\ IntakeInv /\ Linked /\ E!Typed /\ E!FinalInv /\ E!WriterInv
      /\ jobs \in Seq(SUBSET Q!Ids)
      /\ rq \in [Jobs -> E!Places]
  BY DEF PipelineInv, ExecutionInv, IntakeInv, Q!TypeOK, E!Typed, E!TypeOK, E!QueueTypeOK
<1>1. ASSUME NEW p \in Api, Push(p) PROVE \E i \in DOMAIN jobs' : jobs'[i] = Batch[j]
  <2> DEFINE k == JobOf[pending[p]]
  <2>1. /\ apiPc[p] = "push" /\ rq' = [rq EXCEPT ![k] = "queued"]
        /\ jobs' = Append(jobs, pending[p])
    BY <1>1 DEF Push, Exec!Enqueue, Intake!Push, Intake!AddJob
  <2>2. k \in Jobs /\ Batch[k] = pending[p]
    BY <1>0, <2>1, PushedBatch
  <2>3. pending[p] \in SUBSET Q!Ids
    BY <1>0 DEF IntakeInv, Q!TypeOK
  <2>4. /\ \A i \in DOMAIN jobs : i \in DOMAIN jobs' /\ jobs'[i] = jobs[i]
        /\ Len(jobs) + 1 \in DOMAIN jobs' /\ jobs'[Len(jobs) + 1] = pending[p]
    BY <1>0, <2>1, <2>3
  <2> HIDE DEF k
  <2>5. CASE j = k
    BY <2>2, <2>4, <2>5
  <2>6. CASE j # k
    BY <1>0, <2>1, <2>4, <2>6 DEF Linked
  <2> QED
    BY <2>5, <2>6
<1>2. ASSUME jobs' = jobs,
             \/ \E i \in Jobs : Exec!Store(i) \/ Exec!Deliver(i) \/ Exec!Reschedule(i) \/ Exec!Requeue(i)
             \/ \E w \in Workers : Exec!TaskStep(w)
             \/ Exec!ExpireCurrent
             \/ UNCHANGED exec
      PROVE  \E i \in DOMAIN jobs' : jobs'[i] = Batch[j]
  <2>1. rq[j] # "absent"
    BY <1>0, <1>2, AbsentStays
  <2> QED
    BY <1>0, <1>2, <2>1 DEF Linked
<1>3. CASE UNCHANGED vars
  BY <1>2, <1>3 DEF vars, api
<1>4. ASSUME NEW p \in Api, PollStep(p), ~Push(p)
      PROVE  /\ jobs' = jobs
             /\ (\E i \in Jobs : Exec!Store(i)) \/ UNCHANGED exec
  <2>1. CASE Answer(p) \/ GiveUp(p)
    BY <2>1 DEF Answer, GiveUp, Return
  <2> QED
    BY <1>4, <2>1 DEF PollStep, Request, Retry, Raise, Collect, Store, api
<1>5. ASSUME NEW i \in Jobs, Deliver(i) \/ Reschedule(i) \/ Requeue(i)
      PROVE  jobs' = jobs /\ (Exec!Deliver(i) \/ Exec!Reschedule(i) \/ Exec!Requeue(i))
  BY <1>5 DEF Deliver, Reschedule, Requeue, api
<1>6. ASSUME NEW w \in Workers, Work(w) PROVE jobs' = jobs /\ Exec!TaskStep(w)
  BY <1>6 DEF Work, api
<1>7. CASE Expire
  BY <1>2, <1>7 DEF Expire, api
<1> QED
  BY <1>1, <1>2, <1>3, <1>4, <1>5, <1>6, <1>7 DEF Next

LEMMA StepClient == Client!ClientTypeOK /\ [Next]_vars => Client!ClientTypeOK'
<1> SUFFICES ASSUME attempt \in [Api -> 0..MaxAttempts], [Next]_vars
             PROVE  attempt' \in [Api -> 0..MaxAttempts]
  BY DEF Client!ClientTypeOK
<1>1. ASSUME NEW p \in Api, PollStep(p)
      PROVE  \/ attempt' = attempt
             \/ attempt' = [attempt EXCEPT ![p] = 0]
             \/ attempt' = [attempt EXCEPT ![p] = 1]
             \/ attempt[p] < MaxAttempts /\ attempt' = [attempt EXCEPT ![p] = @ + 1]
  BY <1>1 DEF PollStep, Request, Retry, Raise, Answer, GiveUp, Collect, Push, Store,
     Client!Request, Client!Retry, Client!Raise, Client!Answer, Client!GiveUp, Client!Done
<1>2. CASE attempt' = attempt
  BY <1>2
<1> QED
  BY <1>1, <1>2, BoundsAssumption DEF Next, Deliver, Reschedule, Requeue, Work, Expire, vars

LEMMA StepPipelineInv == PipelineInv /\ [Next]_vars => PipelineInv'
<1> SUFFICES ASSUME PipelineInv, [Next]_vars PROVE PipelineInv'
  OBVIOUS
<1>1. Client!ClientTypeOK' /\ IntakeInv' /\ Linked'
  BY StepClient, StepIntakeInv, StepLinked DEF PipelineInv
<1>2. E!Apart /\ E!Apart'
  <2>1. (Q!Ownership /\ Linked => E!Apart)'
    BY JobsApart, PTL
  <2> QED
    BY <1>1, <2>1, JobsApart DEF PipelineInv, IntakeInv
<1>3. /\ E!PayloadAssumption /\ E!JobsAssumption /\ E!WorkersAssumption
      /\ E!BoundsAssumption /\ E!FaultsAssumption
  BY ExecutionApplies DEF ExecutionGiven
<1>4. [E!Next]_(E!vars) /\ ExecutionInv
  BY ExecutionStep DEF PipelineInv
<1>5. E!Undisturbed /\ E!OneAtATime /\ MaxRetries > 0
  BY BoundsAssumption DEF E!Undisturbed, E!OneAtATime
<1>6. E!Typed'
  BY <1>3, <1>4, E!StepTyped DEF ExecutionInv
<1>7. E!FinalInv'
  BY <1>3, <1>4, E!StepFinal DEF ExecutionInv
<1>8. E!WriterInv'
  BY <1>2, <1>3, <1>4, <1>5, E!StepWriter DEF ExecutionInv
<1>9. E!OutcomeInv'
  BY <1>2, <1>3, <1>4, <1>5, E!StepOutcome DEF ExecutionInv
<1>10. E!ShownInv'
  BY <1>3, <1>4, <1>5, E!StepShown DEF ExecutionInv
<1> QED
  BY <1>1, <1>6, <1>7, <1>8, <1>9, <1>10 DEF PipelineInv, ExecutionInv

LEMMA InitPipelineInv == Init => PipelineInv
<1> SUFFICES ASSUME Init PROVE PipelineInv
  OBVIOUS
<1>0. E!Init /\ Q!Init /\ Client!ClientInit
  BY SameExecution, SameIntake DEF Init
<1>1. Client!ClientTypeOK
  BY <1>0, BoundsAssumption DEF Client!ClientInit, Client!ClientTypeOK
<1>2. /\ E!PayloadAssumption /\ E!JobsAssumption /\ E!WorkersAssumption
      /\ E!BoundsAssumption /\ E!FaultsAssumption
  BY ExecutionApplies DEF ExecutionGiven
<1>3. /\ Q!ApiAssumption /\ Q!IdsAssumption /\ Q!FeedsAssumption
      /\ Q!SizeAssumption /\ Q!FaultsAssumption
  BY IntakeApplies DEF IntakeGiven
<1>4. E!Typed /\ E!WriterInv /\ E!OutcomeInv /\ E!ShownInv
  BY <1>0, <1>2, E!InitTyped, E!InitWriter, E!InitOutcome
<1>5. E!FinalInv
  BY <1>0 DEF E!Init, E!FinalInv, E!DeadLetterIsFinal, E!Active
<1>6. Q!TypeOK /\ Q!Ownership
  BY <1>0, <1>3, Q!InitTypeOK, Q!InitOwnership
<1>7. Q!Flushed /\ Q!Collecting
  <2>1. Q!Cardinality({}) = 0
    BY SameFiniteness, FS_EmptySet
  <2> QED
    BY <1>0, <2>1, BoundsAssumption DEF Q!Init, Q!Flushed, Q!Collecting
<1>8. Linked
  BY <1>0 DEF E!Init, Linked
<1> QED
  BY <1>1, <1>4, <1>5, <1>6, <1>7, <1>8 DEF PipelineInv, IntakeInv, ExecutionInv

LEMMA AlwaysPipelineInv == Spec => []PipelineInv
  BY InitPipelineInv, StepPipelineInv, PTL DEF Spec

-----------------------------------------------------------------------------
(* What the service as a whole keeps.                                      *)

\* The types of the three parts, in every state of the service.
THEOREM TypeCorrect == Spec => []TypeOK
<1>1. PipelineInv => TypeOK
  <2> SUFFICES ASSUME PipelineInv PROVE Client!ClientTypeOK /\ Intake!TypeOK /\ Exec!TypeOK
    BY DEF TypeOK
  <2>1. Client!ClientTypeOK /\ Q!TypeOK /\ E!TypeOK
    BY DEF PipelineInv, IntakeInv, ExecutionInv, E!Typed
  <2>2. Intake!TypeOK
    BY <2>1 DEF Q!TypeOK, Intake!TypeOK, Q!Ids, Intake!Ids, Q!Steps, Intake!Steps
  <2>3. Exec!TypeOK
    BY <2>1 DEF E!TypeOK, Exec!TypeOK, E!RedisTypeOK, Exec!RedisTypeOK, E!QueueTypeOK,
       Exec!QueueTypeOK, E!HorseTypeOK, Exec!HorseTypeOK, E!Events, Exec!Events,
       E!Members, Exec!Members, E!Keys, Exec!Keys, E!Record, Exec!Record, E!Statuses,
       Exec!Statuses, E!Items, Exec!Items, E!Places, Exec!Places, E!Steps, Exec!Steps
  <2> QED
    BY <2>1, <2>2, <2>3
<1> QED
  BY <1>1, AlwaysPipelineInv, PTL

\* However many replicas poll, however often jobs fail, are retried and put
\* back: an event's completion is counted once at most.
THEOREM EventsCountedOnce == Spec => []CountedOnce
<1>1. PipelineInv => CountedOnce
  BY BatchEvents DEF PipelineInv, ExecutionInv, E!OutcomeInv, CountedOnce
<1> QED
  BY <1>1, AlwaysPipelineInv, PTL

\* A job RQ calls finished leaves no event's card at "queued" or "processing".
THEOREM FinishedJobsSettled == Spec => []FinishedMeansSettled
<1>1. PipelineInv => FinishedMeansSettled
  <2>1. /\ E!PayloadAssumption /\ E!JobsAssumption /\ E!WorkersAssumption
        /\ E!BoundsAssumption /\ E!FaultsAssumption
    BY ExecutionApplies DEF ExecutionGiven
  <2>2. PipelineInv => E!FinishedMeansSettled
    BY <2>1, E!OutcomeSettled DEF PipelineInv, ExecutionInv
  <2> QED
    BY <2>2 DEF FinishedMeansSettled, Exec!FinishedMeansSettled, E!FinishedMeansSettled,
       Exec!EventsOf, E!EventsOf, Exec!Members, E!Members
<1> QED
  BY <1>1, AlwaysPipelineInv, PTL

\* An idle service shows no current task, unless an attempt failed and left it
\* there.
THEOREM NoTaskWhenIdle == Spec => []IdleShowsNoTask
<1>1. PipelineInv => IdleShowsNoTask
  BY BoundsAssumption DEF PipelineInv, ExecutionInv, E!ShownInv, IdleShowsNoTask
<1> QED
  BY <1>1, AlwaysPipelineInv, PTL

-----------------------------------------------------------------------------
(* Refinement: the stages of an event, from what the queue and the records *)
(* say of it.                                                              *)

stages == [e \in Events |-> Stage(e)]

\* An event's stage follows from the one job that has it.
LEMMA StageByJob ==
  ASSUME E!Apart, NEW j \in Jobs, rq[j] # "absent", NEW e \in Batch[j]
  PROVE  Stage(e) = IF record[e].status = "completed" THEN "completed"
                    ELSE IF rq[j] = "failed" THEN "failed" ELSE "accepted"
<1>1. CarriedBy(e) = {j}
  BY BatchEvents DEF CarriedBy, E!Apart
<1> QED
  BY <1>1 DEF Stage

\* The stage stays when no job it depends on appears, fails or is put back and
\* the event does not complete.
LEMMA StageStays ==
  ASSUME NEW e \in Events, record'[e].status = "completed" <=> record[e].status = "completed",
         \A j \in Jobs : e \in Batch[j] => /\ rq'[j] = "absent" <=> rq[j] = "absent"
                                           /\ rq'[j] = "failed" <=> rq[j] = "failed"
  PROVE  Stage(e)' = Stage(e)
<1>1. CarriedBy(e)' = CarriedBy(e)
  BY DEF CarriedBy, Batch
<1>2. \A j \in CarriedBy(e) : rq'[j] = "failed" <=> rq[j] = "failed"
  BY DEF CarriedBy
<1> QED
  BY <1>1, <1>2 DEF Stage

LEMMA MovesTogether ==
  ASSUME NEW b \in SUBSET Events, b # {}, NEW from, NEW to,
         \A e \in b : Stage(e) = from /\ Stage(e)' = to,
         \A e \in Events \ b : Stage(e)' = Stage(e)
  PROVE  Life!Move(b, from, to)
<1>1. Events' = Events
  BY DEF Events, Batch
<1> QED
  BY <1>1 DEF Life!Move, stages

\* A step that starts, fails or puts back no job and completes nothing.
LEMMA Unseen ==
  ASSUME \A e \in Events : record'[e].status = "completed" <=> record[e].status = "completed",
         \A j \in Jobs : rq'[j] = "absent" <=> rq[j] = "absent",
         \A j \in Jobs : rq'[j] = "failed" <=> rq[j] = "failed"
  PROVE  UNCHANGED stages
<1>1. Events' = Events
  BY DEF Events, Batch
<1>2. \A e \in Events : Stage(e)' = Stage(e)
  BY StageStays
<1> QED
  BY <1>1, <1>2 DEF stages

\* All of a job's events change their stage together.
LEMMA JobMoves ==
  ASSUME E!Apart, E!Apart', NEW j \in Jobs, rq'[j] # "absent",
         \A i \in Jobs \ {j} : rq'[i] = rq[i],
         \A e \in Events : record'[e].status = "completed" <=> record[e].status = "completed",
         NEW from, NEW to, \A e \in Batch[j] : Stage(e) = from /\ Stage(e)' = to
  PROVE  Life!Move(Batch[j], from, to)
<1>1. Batch[j] \in SUBSET Events /\ Batch[j] # {}
  BY BatchesAssumption
<1>2. \A e \in Events \ Batch[j] : Stage(e)' = Stage(e)
  BY StageStays
<1> QED
  BY <1>1, <1>2, MovesTogether

\* What the events of a job that has completed nothing are seen as.
LEMMA UntouchedStage ==
  ASSUME E!Apart, NEW j \in Jobs, rq[j] # "absent", \A e \in Batch[j] : E!Untouched(e)
  PROVE  \A e \in Batch[j] : Stage(e) = IF rq[j] = "failed" THEN "failed" ELSE "accepted"
  BY StageByJob DEF E!Untouched

LEMMA UntouchedStageThen ==
  ASSUME E!Apart', NEW j \in Jobs, rq'[j] # "absent", \A e \in Batch[j] : E!Untouched(e)'
  PROVE  \A e \in Batch[j] : Stage(e)' = IF rq'[j] = "failed" THEN "failed" ELSE "accepted"
<1>1. \A e \in Batch[j] : CarriedBy(e)' = {j}
  BY BatchEvents DEF CarriedBy, E!Apart, E!EventsOf, E!Members, Batch, ToSet
<1> QED
  BY <1>1 DEF Stage, E!Untouched

\* The API and RQ accept a batch and reopen one.
LEMMA OutsideLife ==
  ASSUME ExecutionInv, ExecutionInv', E!Apart, E!Apart', NEW j \in Jobs,
         \/ E!Enqueue(j) \/ E!Store(j) \/ E!StoreLost(j) \/ E!Requeue(j) \/ E!Reschedule(j)
         \/ \E w \in Workers : E!Take(w, j)
  PROVE  [Life!Next]_stages
<1> USE DEF E!redis, E!queue, E!horse
<1>0. /\ rq \in [Jobs -> E!Places] /\ E!Typed /\ E!WriterInv /\ Batch[j] \subseteq Events
  BY DEF ExecutionInv, E!Typed, E!TypeOK, E!QueueTypeOK, Events
<1>1. /\ E!PayloadAssumption /\ E!JobsAssumption /\ E!WorkersAssumption
      /\ E!BoundsAssumption /\ E!FaultsAssumption
  BY ExecutionApplies DEF ExecutionGiven
<1>2. \A e \in Events : record'[e].status = "completed" <=> record[e].status = "completed"
  <2>1. CASE \E w \in Workers : E!Take(w, j)
    BY <2>1 DEF E!Take
  <2>2. CASE E!Enqueue(j) \/ E!Store(j) \/ E!StoreLost(j) \/ E!Requeue(j) \/ E!Reschedule(j)
    <3>1. \A e \in Events : E!Kept(e)
      BY <1>0, <1>1, <2>2, BatchEvents, E!OutsideKeeps
    <3> QED
      BY <3>1 DEF E!Kept
  <2> QED
    BY <2>1, <2>2
<1>3. CASE E!Enqueue(j)
  <2>1. rq[j] = "absent" /\ rq'[j] = "queued" /\ \A i \in Jobs \ {j} : rq'[i] = rq[i]
    BY <1>0, <1>3 DEF E!Enqueue
  <2>2. \A e \in Batch[j] : CarriedBy(e) = {}
    BY <1>0, <2>1 DEF CarriedBy, E!Apart, E!EventsOf, E!Members, Batch, ToSet
  <2>3. \A e \in Batch[j] : Stage(e) = "open"
    BY <2>2 DEF Stage
  <2>4. \A e \in Batch[j] : E!Untouched(e)'
    BY <2>1 DEF ExecutionInv, E!OutcomeInv, E!Outcome, E!EventsOf, E!Members, Batch, ToSet
  <2>5. \A e \in Batch[j] : Stage(e)' = "accepted"
    BY <2>1, <2>4, UntouchedStageThen
  <2>6. Life!Accept(Batch[j])
    BY <1>2, <2>1, <2>3, <2>5, JobMoves DEF Life!Accept
  <2> QED
    BY <1>0, <2>6 DEF Life!Next
<1>4. CASE E!Requeue(j)
  <2>1. rq[j] = "failed" /\ rq'[j] = "queued" /\ \A i \in Jobs \ {j} : rq'[i] = rq[i]
    BY <1>0, <1>4 DEF E!Requeue
  <2>2. \A e \in Batch[j] : E!Untouched(e)
    BY <2>1, BatchEvents DEF ExecutionInv, E!OutcomeInv, E!Outcome
  <2>3. \A e \in Batch[j] : Stage(e) = "failed"
    BY <2>1, <2>2, UntouchedStage
  <2>4. \A e \in Batch[j] : E!Untouched(e)'
    BY <2>1 DEF ExecutionInv, E!OutcomeInv, E!Outcome, E!EventsOf, E!Members, Batch, ToSet
  <2>5. \A e \in Batch[j] : Stage(e)' = "accepted"
    BY <2>1, <2>4, UntouchedStageThen
  <2>6. Life!Reopen(Batch[j])
    BY <1>2, <2>1, <2>3, <2>5, JobMoves DEF Life!Reopen
  <2> QED
    BY <1>0, <2>6 DEF Life!Next
<1>5. CASE E!Store(j) \/ E!StoreLost(j)
  <2>1. rq' = rq
    BY <1>5 DEF E!Store, E!StoreLost
  <2> QED
    BY <1>2, <2>1, Unseen
<1>6. CASE E!Reschedule(j) \/ \E w \in Workers : E!Take(w, j)
  <2>1. /\ rq[j] \in {"scheduled", "queued"} /\ rq'[j] \in {"queued", "started"}
        /\ \A i \in Jobs \ {j} : rq'[i] = rq[i]
    BY <1>0, <1>6 DEF E!Reschedule, E!Take
  <2>2. \A i \in Jobs : rq'[i] = "absent" <=> rq[i] = "absent"
    BY <2>1
  <2>3. \A i \in Jobs : rq'[i] = "failed" <=> rq[i] = "failed"
    BY <2>1
  <2> QED
    BY <1>2, <2>2, <2>3, Unseen
<1> QED
  BY <1>3, <1>4, <1>5, <1>6

\* A work-horse completes an event, or its job is given up.
LEMMA TaskLife ==
  ASSUME ExecutionInv, ExecutionInv', E!Apart, E!Apart', NEW w \in Workers, E!TaskStep(w),
         NEW j \in Jobs, j = job[w]
  PROVE  [Life!Next]_stages
<1> USE DEF E!queue
<1>0. /\ rq \in [Jobs -> E!Places] /\ left \in [Jobs -> 0..MaxRetries] /\ E!Typed
      /\ pc[w] # "idle" /\ E!OwnEvents(w) /\ E!Attempt(w) /\ ~zombie[w] /\ rq[j] = "started"
      /\ pc \in [Workers -> E!Steps] /\ Batch[j] \subseteq Events
  <2>1. pc[w] # "idle"
    BY DEF E!TaskStep, E!Load, E!Begin, E!EndLoad, E!Infer, E!InferRaises, E!Claim, E!Write,
       E!Count, E!Blame, E!Cleanup, E!Unwind, E!KeepAttempt, E!SaveDeadLetter,
       E!TrimDeadLetters, E!Demote, E!Return, E!Settle
  <2> QED
    BY <2>1 DEF ExecutionInv, E!Typed, E!TypeOK, E!QueueTypeOK, E!HorseTypeOK, E!FinalInv,
       E!WriterInv, E!Active, E!OutcomeInv, Events
<1>1. /\ E!PayloadAssumption /\ E!JobsAssumption /\ E!WorkersAssumption
      /\ E!BoundsAssumption /\ E!FaultsAssumption /\ E!Undisturbed
  BY ExecutionApplies DEF ExecutionGiven, E!Undisturbed
<1>2. ASSUME pc[w] \notin {"claim", "write", "count"}
      PROVE  \A e \in Events : record'[e].status = "completed" <=> record[e].status = "completed"
  <2>1. \A e \in Events : E!Kept(e)
    BY <1>0, <1>1, <1>2, BatchEvents, E!QuietTask
  <2> QED
    BY <2>1 DEF E!Kept
<1>3. CASE E!Settle(w)
  <2>1. /\ pc[w] = "settle" /\ \A i \in Jobs \ {j} : rq'[i] = rq[i]
        /\ IF left[j] > 0 THEN rq'[j] = "scheduled" ELSE rq'[j] = "failed"
    BY <1>0, <1>3 DEF E!Settle, E!FailJob
  <2>2. \A e \in Events : record'[e].status = "completed" <=> record[e].status = "completed"
    BY <1>2, <2>1
  <2>3. CASE left[j] > 0
    <3>1. \A i \in Jobs : rq'[i] = "absent" <=> rq[i] = "absent"
      BY <1>0, <2>1, <2>3
    <3>2. \A i \in Jobs : rq'[i] = "failed" <=> rq[i] = "failed"
      BY <1>0, <2>1, <2>3
    <3> QED
      BY <2>2, <3>1, <3>2, Unseen
  <2>4. CASE ~(left[j] > 0)
    <3>1. rq'[j] = "failed"
      BY <2>1, <2>4
    <3>2. \A e \in Batch[j] : E!Untouched(e)
      BY <1>0, <2>1, BatchEvents DEF E!Attempt
    <3>3. \A e \in Batch[j] : Stage(e) = "accepted"
      BY <1>0, <3>2, UntouchedStage
    <3>4. \A e \in Batch[j] : E!Untouched(e)'
      BY <3>1 DEF ExecutionInv, E!OutcomeInv, E!Outcome, E!EventsOf, E!Members, Batch, ToSet
    <3>5. \A e \in Batch[j] : Stage(e)' = "failed"
      BY <3>1, <3>4, UntouchedStageThen
    <3>6. Life!GiveUp(Batch[j])
      BY <2>1, <2>2, <3>1, <3>3, <3>5, JobMoves DEF Life!GiveUp
    <3> QED
      BY <1>0, <3>6 DEF Life!Next
  <2> QED
    BY <2>3, <2>4
<1>4. CASE E!Return(w)
  <2>1. pc[w] = "return" /\ rq' = [rq EXCEPT ![j] = "finished"]
    BY <1>0, <1>4 DEF E!Return
  <2>2. \A i \in Jobs : rq'[i] = "absent" <=> rq[i] = "absent"
    BY <1>0, <2>1
  <2>3. \A i \in Jobs : rq'[i] = "failed" <=> rq[i] = "failed"
    BY <1>0, <2>1
  <2> QED
    BY <1>2, <2>1, <2>2, <2>3, Unseen
<1>5. CASE E!Write(w)
  <2> DEFINE d == E!Item(w).event
  <2>1. /\ pc[w] = "write" /\ rq' = rq
        /\ E!SetRecord(d, "completed", E!Item(w).key)
    BY <1>5 DEF E!Write
  <2>2. d \in Batch[j] /\ d \in Events
    BY <1>0, <1>1, <2>1, BatchEvents, E!ItemHeld DEF E!Working
  <2>3. record'[d].status = "completed" /\ \A e \in Events \ {d} : record'[e] = record[e]
    BY <1>0, <2>1, <2>2, BatchEvents DEF E!SetRecord, E!Typed, E!TypeOK, E!RedisTypeOK
  <2> HIDE DEF d
  <2>4. PICK e \in Events : e = d
    BY <2>2
  <2>5. CASE record[e].status = "completed"
    BY <2>1, <2>3, <2>4, <2>5, Unseen
  <2>6. CASE record[e].status # "completed"
    <3>1. Stage(e) = "accepted"
      BY <1>0, <2>2, <2>4, <2>6, StageByJob
    <3>2. Stage(e)' = "completed"
      <4>1. CarriedBy(e)' # {}
        BY <1>0, <2>1, <2>2, <2>4 DEF CarriedBy, Batch
      <4> QED
        BY <2>3, <2>4, <4>1 DEF Stage
    <3>3. \A x \in Events \ {e} : Stage(x)' = Stage(x)
      BY <2>1, <2>3, <2>4, StageStays
    <3>4. Life!Complete(e)
      BY <3>1, <3>2, <3>3, MovesTogether DEF Life!Complete
    <3> QED
      BY <3>4 DEF Life!Next
  <2> QED
    BY <2>5, <2>6
<1>6. CASE E!Claim(w) \/ E!Count(w)
  <2>1. record' = record /\ rq' = rq
    BY <1>6 DEF E!Claim, E!Count
  <2> QED
    BY <2>1, Unseen
<1>7. CASE \/ E!Load(w) \/ E!Begin(w) \/ E!EndLoad(w) \/ E!Infer(w) \/ E!InferRaises(w)
           \/ E!Blame(w) \/ E!Cleanup(w) \/ E!Unwind(w) \/ E!KeepAttempt(w)
           \/ E!SaveDeadLetter(w) \/ E!TrimDeadLetters(w) \/ E!Demote(w)
  <2>1. rq' = rq /\ pc[w] \notin {"claim", "write", "count"}
    BY <1>7 DEF E!Load, E!Begin, E!EndLoad, E!Infer, E!InferRaises, E!Blame, E!Cleanup,
       E!Unwind, E!KeepAttempt, E!SaveDeadLetter, E!TrimDeadLetters, E!Demote
  <2> QED
    BY <1>2, <2>1, Unseen
<1> QED
  BY <1>3, <1>4, <1>5, <1>6, <1>7 DEF E!TaskStep

LEMMA StepLife == PipelineInv /\ PipelineInv' /\ [Next]_vars => [Life!Next]_stages
<1> SUFFICES ASSUME PipelineInv, PipelineInv', [Next]_vars PROVE [Life!Next]_stages
  OBVIOUS
<1>1. ExecutionInv /\ ExecutionInv' /\ [E!Next]_(E!vars) /\ E!Undisturbed
  BY ExecutionStep DEF PipelineInv, E!Undisturbed
<1>2. E!Apart /\ E!Apart'
  <2>1. (Q!Ownership /\ Linked => E!Apart)'
    BY JobsApart, PTL
  <2> QED
    BY <2>1, JobsApart DEF PipelineInv, IntakeInv
<1>3. CASE UNCHANGED E!vars \/ E!ExpireCurrent
  <2>1. record' = record /\ rq' = rq
    BY <1>3 DEF E!vars, E!ExpireCurrent, E!queue
  <2> QED
    BY <2>1, Unseen
<1>4. ASSUME NEW w \in Workers, E!TaskStep(w) PROVE [Life!Next]_stages
  <2>1. pc[w] # "idle"
    BY <1>4 DEF E!TaskStep, E!Load, E!Begin, E!EndLoad, E!Infer, E!InferRaises, E!Claim,
       E!Write, E!Count, E!Blame, E!Cleanup, E!Unwind, E!KeepAttempt, E!SaveDeadLetter,
       E!TrimDeadLetters, E!Demote, E!Return, E!Settle
  <2>2. job[w] \in Jobs
    BY <1>1, <2>1 DEF ExecutionInv, E!Typed, E!TypeOK, E!HorseTypeOK
  <2> QED
    BY <1>1, <1>2, <1>4, <2>2, TaskLife
<1>5. \A w \in Workers : ~E!HorseFault(w)
  <2>1. /\ E!PayloadAssumption /\ E!JobsAssumption /\ E!WorkersAssumption
        /\ E!BoundsAssumption /\ E!FaultsAssumption
    BY ExecutionApplies DEF ExecutionGiven
  <2> QED
    BY <1>1, <2>1, E!NoFaults
<1>6. ASSUME NEW j \in Jobs,
             \/ E!Enqueue(j) \/ E!Store(j) \/ E!StoreLost(j) \/ E!Requeue(j) \/ E!Reschedule(j)
             \/ E!Deliver(j)
      PROVE  [Life!Next]_stages
  BY <1>1, <1>2, <1>6, OutsideLife DEF E!Deliver
<1> QED
  BY <1>1, <1>3, <1>4, <1>5, <1>6 DEF E!Next

\* Seen from outside the service does only what EventLifecycle says: an event
\* is accepted once and with a batch, it completes for good or its batch is
\* given up, and only a request puts that batch back to work.
THEOREM KeepsLifecycle == Spec => Life!Spec
<1>1. Init => Life!Init
  <2> SUFFICES ASSUME Init PROVE \A e \in Events : Stage(e) = "open"
    BY DEF Life!Init
  <2>1. \A j \in Jobs : rq[j] = "absent"
    BY SameExecution DEF Init, E!Init
  <2> QED
    BY <2>1 DEF Stage, CarriedBy
<1>2. PipelineInv /\ PipelineInv' /\ [Next]_vars => [Life!Next]_([e \in Events |-> Stage(e)])
  BY StepLife DEF stages
<1> QED
  BY <1>1, <1>2, AlwaysPipelineInv, PTL DEF Spec, Life!Spec

=============================================================================
