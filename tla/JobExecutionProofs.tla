------------------------- MODULE JobExecutionProofs -------------------------
(***************************************************************************)
(* Proofs about JobExecution, for every set of jobs, payloads and workers, *)
(* every retry bound and every set of faults.                              *)
(***************************************************************************)
EXTENDS JobExecution, FiniteSetTheorems, TLAPS

-----------------------------------------------------------------------------
(* Type correctness.  It needs the shape of a work-horse's memory: the     *)
(* event a command is about is there when the command runs.                *)

Working == {"begin", "infer", "claim", "write", "count", "blame"}

Shape ==
    /\ \A w \in Workers : pc[w] \in Working => held[w] # <<>>
    /\ \A w \in Workers : pc[w] = "begin" => todo[w] # <<>>

Typed == TypeOK /\ Shape

\* What an LPUSH leaves in a list.
LEMMA PushedEntries ==
  ASSUME NEW S, NEW s \in Seq(S), NEW a \in S
  PROVE  \A i \in DOMAIN (<<a>> \o s) :
            (<<a>> \o s)[i] = a \/ \E k \in DOMAIN s : (<<a>> \o s)[i] = s[k]
<1> SUFFICES ASSUME NEW i \in DOMAIN (<<a>> \o s), (<<a>> \o s)[i] # a
             PROVE  \E k \in DOMAIN s : (<<a>> \o s)[i] = s[k]
  OBVIOUS
<1>1. i \in 1..(Len(s) + 1) /\ i # 1
  OBVIOUS
<1>2. i - 1 \in DOMAIN s /\ (<<a>> \o s)[i] = s[i - 1]
  BY <1>1
<1> QED
  BY <1>2

LEMMA HeadTail ==
  ASSUME NEW S, NEW s \in Seq(S), s # <<>>
  PROVE  Head(s) \in S /\ Tail(s) \in Seq(S) /\ (Len(s) > 1 => Tail(s) # <<>>)
<1>1. Head(s) \in S /\ Tail(s) \in Seq(S)
  OBVIOUS
<1>2. Len(s) > 1 => Len(Tail(s)) > 0
  OBVIOUS
<1>3. \A t \in Seq(S) : Len(t) > 0 => t # <<>>
  OBVIOUS
<1> QED
  BY <1>1, <1>2, <1>3

LEMMA AppendType ==
  ASSUME NEW S, NEW s \in Seq(S), NEW x \in S
  PROVE  Append(s, x) \in Seq(S) /\ Append(s, x) # <<>>
<1>1. Append(s, x) \in Seq(S) /\ Len(Append(s, x)) > 0
  OBVIOUS
<1>2. \A t \in Seq(S) : Len(t) > 0 => t # <<>>
  OBVIOUS
<1> QED
  BY <1>1, <1>2

LEMMA FrontLast ==
  ASSUME NEW S, NEW s \in Seq(S), s # <<>>
  PROVE  s[Len(s)] \in S /\ SubSeq(s, 1, Len(s) - 1) \in Seq(S)
<1>1. Len(s) \in Nat \ {0}
  OBVIOUS
<1>2. s[Len(s)] \in S
  BY <1>1
<1>3. SubSeq(s, 1, Len(s) - 1) \in Seq(S)
  BY <1>1
<1> QED
  BY <1>2, <1>3

LEMMA PayloadType ==
  ASSUME NEW j \in Jobs
  PROVE  /\ Payload[j] \in Seq(Events) /\ Payload[j] # <<>>
         /\ Payload[j][1] \in Events
<1>1. Payload[j] \in Seq(Events) /\ Payload[j] # <<>>
  BY PayloadAssumption
<1>2. Len(Payload[j]) \in Nat \ {0}
  BY <1>1
<1> QED
  BY <1>1, <1>2

\* The item a command is about, and what is left after it.
LEMMA ItemType ==
  ASSUME Typed, NEW w \in Workers, pc[w] \in Working
  PROVE  /\ Item(w) \in Items /\ Item(w).event \in Events /\ Item(w).key \in Keys
         /\ Loaded(w) \in Items /\ Loaded(w).event \in Events /\ Loaded(w).key \in Keys
<1>1. held[w] \in Seq(Items) /\ held[w] # <<>>
  BY DEF Typed, TypeOK, HorseTypeOK, Shape
<1>2. Item(w) \in Items /\ Loaded(w) \in Items
  BY <1>1, HeadTail, FrontLast DEF Item, Loaded
<1> QED
  BY <1>2 DEF Items

LEMMA SetRecordType ==
  ASSUME RedisTypeOK, NEW e \in Events, NEW status \in Statuses, NEW key \in Keys,
         SetRecord(e, status, key)
  PROVE  record' \in [Events -> Record]
  BY DEF RedisTypeOK, SetRecord, Record

LEMMA RedisTypeStep == Typed /\ [Next]_vars => RedisTypeOK'
<1> SUFFICES ASSUME Typed, [Next]_vars PROVE RedisTypeOK'
  OBVIOUS
<1> USE DEF Working
<1>0. RedisTypeOK
  BY DEF Typed, TypeOK
<1>1. CASE UNCHANGED redis
  BY <1>0, <1>1 DEF redis, RedisTypeOK
<1>2. ASSUME NEW j \in Jobs, Enqueue(j) PROVE RedisTypeOK'
  BY <1>0, <1>2, PayloadType DEF Enqueue, RedisTypeOK
<1>3. ASSUME NEW j \in Jobs, Store(j) PROVE RedisTypeOK'
  <2>1. Head(unstored[j]) \in Events /\ Tail(unstored[j]) \in Seq(Events)
    BY <1>0, <1>3, HeadTail DEF Store, RedisTypeOK
  <2>2. record' \in [Events -> Record]
    BY <1>0, <1>3, <2>1, SetRecordType DEF Store, Statuses, Keys
  <2> QED
    BY <1>0, <1>3, <2>1, <2>2 DEF Store, RedisTypeOK
<1>4. ASSUME NEW j \in Jobs, StoreLost(j) PROVE RedisTypeOK'
  BY <1>0, <1>4 DEF StoreLost, RedisTypeOK
<1>5. ASSUME NEW w \in Workers, Begin(w) PROVE RedisTypeOK'
  <2>1. Loaded(w).event \in Events /\ Loaded(w).key \in Keys
    BY <1>5, ItemType DEF Begin
  <2>2. record' \in [Events -> Record]
    BY <1>0, <1>5, <2>1, SetRecordType DEF Begin, Statuses
  <2>3. UNCHANGED <<marker, counted, unstored>> /\ current' \in {current, Loaded(w).event}
    BY <1>5 DEF Begin
  <2> QED
    BY <1>0, <2>1, <2>2, <2>3 DEF RedisTypeOK
<1>6. ASSUME NEW w \in Workers, MarkRaises(w) PROVE RedisTypeOK'
  <2>1. CASE UNCHANGED <<record, current>>
    BY <1>0, <1>6, <2>1 DEF MarkRaises, RedisTypeOK
  <2>2. CASE pc[w] = "begin"
    <3>1. Loaded(w).event \in Events /\ Loaded(w).key \in Keys
      BY <2>2, ItemType
    <3>2. record' = record \/ SetRecord(Loaded(w).event, "processing", Loaded(w).key)
      BY <1>6, <2>2 DEF MarkRaises
    <3>3. record' \in [Events -> Record]
      BY <1>0, <3>1, <3>2, SetRecordType DEF Statuses, RedisTypeOK
    <3>4. UNCHANGED <<marker, counted, unstored>> /\ current' \in {current, Loaded(w).event}
      BY <1>6, <2>2 DEF MarkRaises
    <3> QED
      BY <1>0, <3>1, <3>3, <3>4 DEF RedisTypeOK
  <2> QED
    BY <1>6, <2>1, <2>2 DEF MarkRaises
<1>7. ASSUME NEW w \in Workers, Claim(w) PROVE RedisTypeOK'
  <2>1. Item(w).event \in Events /\ Item(w).key \in Keys
    BY <1>7, ItemType DEF Claim
  <2> QED
    BY <1>0, <1>7, <2>1 DEF Claim, RedisTypeOK
<1>8. ASSUME NEW w \in Workers, Write(w) PROVE RedisTypeOK'
  <2>1. record' \in [Events -> Record]
    BY <1>0, <1>8, ItemType, SetRecordType DEF Write, Statuses
  <2> QED
    BY <1>0, <1>8, <2>1 DEF Write, RedisTypeOK
<1>9. ASSUME NEW w \in Workers, Count(w) PROVE RedisTypeOK'
  BY <1>0, <1>9, ItemType DEF Count, CountItem, RedisTypeOK
<1>10. ASSUME NEW w \in Workers, PersistSwallowed(w) PROVE RedisTypeOK'
  <2>1. Item(w).event \in Events /\ Item(w).key \in Keys
    BY <1>10, ItemType DEF PersistSwallowed
  <2>2. record' = record \/ SetRecord(Item(w).event, "completed", Item(w).key)
    BY <1>10 DEF PersistSwallowed
  <2>3. record' \in [Events -> Record]
    BY <1>0, <2>1, <2>2, SetRecordType DEF Statuses, RedisTypeOK
  <2>4. marker' \in {marker, marker \cup {<<Item(w).event, Item(w).key>>}}
    BY <1>10 DEF PersistSwallowed
  <2>5. UNCHANGED <<unstored, current>> /\ (counted' = counted \/ CountItem(w))
    BY <1>10 DEF PersistSwallowed
  <2>6. counted' \in [Events -> Nat]
    BY <1>0, <2>1, <2>5 DEF CountItem, RedisTypeOK
  <2> QED
    BY <1>0, <2>1, <2>3, <2>4, <2>5, <2>6 DEF RedisTypeOK
<1>11. ASSUME NEW w \in Workers, Blame(w) \/ BlameRaises(w) PROVE RedisTypeOK'
  <2>0. Item(w).event \in Events /\ Item(w).key \in Keys
    BY <1>11, ItemType DEF Blame, BlameRaises
  <2>1. record' \in [Events -> Record]
    <3>1. record' = record \/ SetRecord(Item(w).event, "failed", Item(w).key)
      BY <1>11 DEF Blame, BlameRaises
    <3> QED
      BY <1>0, <2>0, <3>1, SetRecordType DEF Statuses, RedisTypeOK
  <2>2. UNCHANGED <<marker, counted, unstored>> /\ current' \in {current, "none"}
    BY <1>11 DEF Blame, BlameRaises
  <2> QED
    BY <1>0, <2>1, <2>2 DEF RedisTypeOK
<1>12. ASSUME NEW w \in Workers,
              TimeoutEscapes(w) \/ Cleanup(w) \/ Unwind(w)
       PROVE  RedisTypeOK'
  <2>1. UNCHANGED <<record, marker, counted, unstored>> /\ current' \in {current, "none"}
    BY <1>12 DEF TimeoutEscapes, Cleanup, Unwind, ClearTask, redis
  <2> QED
    BY <1>0, <2>1 DEF RedisTypeOK
<1>13. ASSUME NEW w \in Workers, Demote(w) PROVE RedisTypeOK'
  <2> DEFINE e == Payload[job[w]][1]
  <2>1. e \in Events
    BY <1>13, PayloadType DEF Demote, Typed, TypeOK, HorseTypeOK
  <2>2. record[e].key \in Keys
    BY <1>0, <2>1 DEF RedisTypeOK, Record
  <2>3. record' = record \/ SetRecord(e, "dead_letter", record[e].key)
    BY <1>13 DEF Demote
  <2> HIDE DEF e
  <2>4. record' \in [Events -> Record]
    BY <1>0, <2>1, <2>2, <2>3, SetRecordType DEF Statuses, RedisTypeOK
  <2> QED
    BY <1>0, <1>13, <2>4 DEF Demote, RedisTypeOK
<1>14. CASE ExpireCurrent
  BY <1>0, <1>14 DEF ExpireCurrent, RedisTypeOK
<1>15. ASSUME NEW w \in Workers,
              \/ Load(w) \/ EndLoad(w) \/ Infer(w) \/ InferRaises(w) \/ KeepAttempt(w)
              \/ SaveDeadLetter(w) \/ TrimDeadLetters(w) \/ Return(w)
              \/ Settle(w)
              \/ DemoteRaises(w) \/ Kill(w) \/ Abandon(w)
       PROVE  UNCHANGED redis
  BY <1>15 DEF Load, EndLoad, Infer, InferRaises, KeepAttempt, SaveDeadLetter,
     TrimDeadLetters, Return, Settle, DemoteRaises, Kill, Abandon
<1>19. ASSUME NEW w \in Workers, PersistRaises(w) PROVE RedisTypeOK'
  <2>1. pc[w] \in {"claim", "count"} /\ (counted' = counted \/ CountItem(w))
        /\ UNCHANGED <<record, marker, unstored, current>>
    BY <1>19 DEF PersistRaises
  <2>2. Item(w).event \in Events
    BY <2>1, ItemType DEF Working
  <2>3. counted' \in [Events -> Nat]
    BY <1>0, <2>1, <2>2 DEF CountItem, RedisTypeOK
  <2> QED
    BY <1>0, <2>1, <2>3 DEF RedisTypeOK
<1>16. ASSUME NEW j \in Jobs, Deliver(j) \/ Requeue(j) \/ Reschedule(j)
       PROVE  UNCHANGED redis
  BY <1>16 DEF Deliver, Take, Requeue, Reschedule
<1>17. CASE UNCHANGED vars
  BY <1>1, <1>17 DEF vars, redis
<1>18. ASSUME NEW w \in Workers, TaskStep(w) \/ HorseFault(w) PROVE RedisTypeOK'
  BY <1>1, <1>5, <1>6, <1>7, <1>8, <1>9, <1>10, <1>11, <1>12, <1>13, <1>15, <1>18,
     <1>19
  DEF TaskStep, HorseFault
<1> QED
  BY <1>1, <1>2, <1>3, <1>4, <1>14, <1>16, <1>17, <1>18 DEF Next

\* Trimming keeps a prefix of the list.
LEMMA TrimmedPrefix ==
  ASSUME NEW s \in Seq(Jobs)
  PROVE  /\ Trimmed(s) \in Seq(Jobs) /\ DOMAIN Trimmed(s) \subseteq DOMAIN s
         /\ \A i \in DOMAIN Trimmed(s) : Trimmed(s)[i] = s[i]
<1> DEFINE n == Least(Len(s), DlqCap)
<1>1. n \in 0..Len(s) /\ Trimmed(s) = SubSeq(s, 1, n)
  BY BoundsAssumption DEF Trimmed, Least
<1> QED
  BY <1>1

LEMMA FailJobType ==
  ASSUME QueueTypeOK, NEW j \in Jobs, FailJob(j)
  PROVE  /\ rq' \in [Jobs -> Places] /\ left' \in [Jobs -> 0..MaxRetries]
         /\ \A i \in Jobs : left'[i] <= left[i]
<1>1. CASE left[j] > 0
  <2>1. left[j] - 1 \in 0..MaxRetries
    BY <1>1, BoundsAssumption DEF QueueTypeOK
  <2>2. rq' \in [Jobs -> Places]
    BY <1>1 DEF QueueTypeOK, FailJob, Places
  <2>3. left' = [left EXCEPT ![j] = left[j] - 1]
    BY <1>1 DEF FailJob
  <2>4. left' \in [Jobs -> 0..MaxRetries]
    BY <2>1, <2>3 DEF QueueTypeOK
  <2>5. \A i \in Jobs : left'[i] <= left[i]
    BY <2>3, BoundsAssumption DEF QueueTypeOK
  <2> QED
    BY <2>2, <2>4, <2>5
<1>2. CASE ~(left[j] > 0)
  BY <1>2, BoundsAssumption DEF QueueTypeOK, FailJob, Places
<1> QED
  BY <1>1, <1>2

LEMMA QueueTypeStep == Typed /\ [Next]_vars => QueueTypeOK'
<1> SUFFICES ASSUME Typed, [Next]_vars PROVE QueueTypeOK'
  OBVIOUS
<1>0. QueueTypeOK /\ HorseTypeOK
  BY DEF Typed, TypeOK
<1>1. CASE UNCHANGED queue
  BY <1>0, <1>1 DEF queue, QueueTypeOK
<1>2. ASSUME NEW j \in Jobs, Enqueue(j) \/ Reschedule(j) \/ Deliver(j) PROVE QueueTypeOK'
  BY <1>0, <1>2 DEF Enqueue, Reschedule, Deliver, Take, QueueTypeOK, Places
<1>3. ASSUME NEW j \in Jobs, Requeue(j) PROVE QueueTypeOK'
  BY <1>0, <1>3, BoundsAssumption DEF Requeue, QueueTypeOK, Places
<1>4. ASSUME NEW w \in Workers, Return(w) PROVE QueueTypeOK'
  BY <1>0, <1>4 DEF Return, QueueTypeOK, Places
<1>5. ASSUME NEW w \in Workers, Settle(w) \/ Kill(w) \/ Abandon(w) PROVE QueueTypeOK'
  <2>1. job[w] \in Jobs
    BY <1>0, <1>5 DEF HorseTypeOK, Settle, Kill, Abandon
  <2>2. UNCHANGED <<rq, left>> \/ FailJob(job[w])
    BY <1>5 DEF Settle, Kill, Abandon
  <2>3. UNCHANGED <<requeues, dlq>>
    BY <1>5 DEF Settle, Kill, Abandon
  <2> QED
    BY <1>0, <2>1, <2>2, <2>3, FailJobType DEF QueueTypeOK
<1>6. ASSUME NEW w \in Workers, SaveDeadLetter(w) \/ TrimDeadLetters(w)
      PROVE  QueueTypeOK'
  <2>1. job[w] \in Jobs /\ dlq \in Seq(Jobs)
    BY <1>0, <1>6 DEF HorseTypeOK, QueueTypeOK, SaveDeadLetter, TrimDeadLetters
  <2>2. dlq' \in {dlq, <<job[w]>> \o dlq, Trimmed(dlq)} /\ UNCHANGED <<rq, left, requeues>>
    BY <1>6 DEF SaveDeadLetter, TrimDeadLetters, Bury
  <2>3. <<job[w]>> \o dlq \in Seq(Jobs) /\ Trimmed(dlq) \in Seq(Jobs)
    BY <2>1, TrimmedPrefix
  <2>4. dlq' \in Seq(Jobs)
    BY <2>1, <2>2, <2>3
  <2> QED
    BY <1>0, <2>2, <2>4 DEF QueueTypeOK
<1>7. ASSUME NEW w \in Workers, TaskStep(w) \/ HorseFault(w) PROVE QueueTypeOK'
  BY <1>1, <1>4, <1>5, <1>6, <1>7 DEF TaskStep, HorseFault, Load, Begin, EndLoad,
     Infer, InferRaises, Claim, Write, Count, Blame, Cleanup, Unwind, KeepAttempt,
     Demote, MarkRaises, PersistSwallowed, PersistRaises, BlameRaises, TimeoutEscapes,
     DemoteRaises
<1>8. ASSUME NEW j \in Jobs, Store(j) \/ StoreLost(j) PROVE UNCHANGED queue
  BY <1>8 DEF Store, StoreLost
<1>9. CASE UNCHANGED vars \/ ExpireCurrent
  BY <1>1, <1>9 DEF vars, queue, ExpireCurrent
<1> QED
  BY <1>1, <1>2, <1>3, <1>7, <1>8, <1>9 DEF Next

-----------------------------------------------------------------------------
(* The memory of one work-horse.  Each step changes one worker's, so it is *)
(* enough to look at that worker's new values.                             *)

HorseAt(step, j, rest, batch) ==
    /\ step \in Steps
    /\ j \in Jobs \cup {"none"}
    /\ step # "idle" => j \in Jobs
    /\ rest \in Seq(Events) /\ batch \in Seq(Items)
    /\ step \in Working => batch # <<>>
    /\ step = "begin" => rest # <<>>

\* A step of worker w leaves the memory of every other worker alone.
Local(w) ==
    /\ pc' = [pc EXCEPT ![w] = pc'[w]] /\ job' = [job EXCEPT ![w] = job'[w]]
    /\ todo' = [todo EXCEPT ![w] = todo'[w]] /\ held' = [held EXCEPT ![w] = held'[w]]
    /\ late' = [late EXCEPT ![w] = late'[w]]
    /\ zombie' = [zombie EXCEPT ![w] = zombie'[w]]

WorkerStep(w) == TaskStep(w) \/ HorseFault(w) \/ \E j \in Jobs : Take(w, j)

LEMMA StepIsLocal ==
  ASSUME HorseTypeOK, NEW w \in Workers, WorkerStep(w)
  PROVE  Local(w) /\ late'[w] \in BOOLEAN /\ zombie'[w] \in BOOLEAN
<1> USE DEF HorseTypeOK, Local, horse, Goto
<1>1. CASE Load(w) \/ Begin(w) \/ EndLoad(w) \/ Infer(w) \/ MarkRaises(w)
  BY <1>1 DEF Load, Begin, EndLoad, Infer, MarkRaises, Struck
<1>2. CASE \/ InferRaises(w) \/ Write(w) \/ Cleanup(w) \/ Unwind(w)
           \/ PersistRaises(w) \/ BlameRaises(w) \/ TimeoutEscapes(w)
  BY <1>2 DEF InferRaises, Write, Cleanup, Unwind, ClearTask, Struck, PersistRaises,
     BlameRaises, TimeoutEscapes
<1>3. CASE Claim(w) \/ Count(w) \/ Blame(w) \/ PersistSwallowed(w)
  BY <1>3 DEF Claim, Count, Blame, PersistSwallowed, NextItem, Struck
<1>4. CASE \/ KeepAttempt(w) \/ SaveDeadLetter(w) \/ TrimDeadLetters(w)
           \/ Demote(w) \/ DemoteRaises(w)
  BY <1>4 DEF KeepAttempt, SaveDeadLetter, TrimDeadLetters, Demote, DemoteRaises
<1>5. CASE Return(w) \/ Settle(w) \/ Kill(w) \/ Abandon(w)
  BY <1>5 DEF Return, Settle, Kill, Abandon, Leave
<1>6. ASSUME NEW j \in Jobs, Take(w, j)
      PROVE  Local(w) /\ late'[w] \in BOOLEAN /\ zombie'[w] \in BOOLEAN
  BY <1>6 DEF Take
<1> QED
  BY <1>1, <1>2, <1>3, <1>4, <1>5, <1>6 DEF WorkerStep, TaskStep, HorseFault

LEMMA HorseLocal ==
  ASSUME HorseTypeOK, Shape, NEW w \in Workers, WorkerStep(w),
         HorseAt(pc'[w], job'[w], todo'[w], held'[w])
  PROVE  HorseTypeOK' /\ Shape'
<1>0. Local(w) /\ late'[w] \in BOOLEAN /\ zombie'[w] \in BOOLEAN
  BY StepIsLocal
<1>1. HorseTypeOK'
  BY <1>0 DEF HorseTypeOK, HorseAt, Local
<1>2. Shape'
  BY <1>0 DEF HorseTypeOK, Shape, HorseAt, Local
<1> QED
  BY <1>1, <1>2

LEMMA NextItemShape ==
  ASSUME HorseTypeOK, Shape, NEW w \in Workers, pc[w] \in Working, NextItem(w)
  PROVE  /\ pc'[w] \in {"claim", "cleanup"} /\ held'[w] \in Seq(Items)
         /\ pc'[w] = "claim" => held'[w] # <<>>
<1>1. held[w] \in Seq(Items) /\ held[w] # <<>>
  BY DEF HorseTypeOK, Shape
<1>2. Tail(held[w]) \in Seq(Items) /\ (Len(held[w]) > 1 => Tail(held[w]) # <<>>)
  BY <1>1, HeadTail
<1> QED
  BY <1>2 DEF NextItem, Goto, HorseTypeOK

LEMMA HorseTypeStep == Typed /\ [Next]_vars => HorseTypeOK' /\ Shape'
<1> SUFFICES ASSUME Typed, [Next]_vars PROVE HorseTypeOK' /\ Shape'
  OBVIOUS
<1>0. HorseTypeOK /\ Shape /\ RedisTypeOK
  BY DEF Typed, TypeOK
<1>1. CASE UNCHANGED horse
  BY <1>0, <1>1 DEF horse, HorseTypeOK, Shape
<1>2. ASSUME NEW w \in Workers, NEW j \in Jobs, Take(w, j) PROVE HorseTypeOK' /\ Shape'
  <2>1. HorseAt(pc'[w], job'[w], todo'[w], held'[w])
    BY <1>0, <1>2, PayloadType DEF Take, Goto, HorseTypeOK, HorseAt, Steps, Working
  <2> QED
    BY <1>0, <1>2, <2>1, HorseLocal DEF WorkerStep
<1>3. ASSUME NEW w \in Workers, TaskStep(w) \/ HorseFault(w) PROVE HorseTypeOK' /\ Shape'
  <2>0. /\ pc[w] \in Steps /\ pc[w] # "idle" => job[w] \in Jobs
        /\ todo[w] \in Seq(Events) /\ held[w] \in Seq(Items)
        /\ pc[w] \in Working => held[w] # <<>>
        /\ pc[w] = "begin" => todo[w] # <<>>
        /\ pc \in [Workers -> Steps] /\ job \in [Workers -> Jobs \cup {"none"}]
        /\ todo \in [Workers -> Seq(Events)] /\ held \in [Workers -> Seq(Items)]
    BY <1>0 DEF HorseTypeOK, Shape
  <2> SUFFICES HorseAt(pc'[w], job'[w], todo'[w], held'[w])
    BY <1>0, <1>3, HorseLocal DEF WorkerStep
  <2> USE DEF HorseAt, Steps, Working, Goto, queue, redis
  <2>1. todo[w] # <<>> => Head(todo[w]) \in Events /\ Tail(todo[w]) \in Seq(Events)
    BY <2>0, HeadTail
  <2>2. CASE Load(w)
    <3> DEFINE m == [event |-> Head(todo[w]), key |-> record[Head(todo[w])].key]
    <3>1. /\ pc[w] = "load" /\ todo[w] # <<>> /\ job' = job
          /\ \/ /\ todo' = [todo EXCEPT ![w] = Tail(@)] /\ held' = held
                /\ pc' = [pc EXCEPT ![w] = IF IsSingle(w) THEN "return" ELSE "load"]
             \/ /\ held' = [held EXCEPT ![w] = Append(@, m)] /\ todo' = todo
                /\ pc' = [pc EXCEPT ![w] = "begin"]
      BY <2>2 DEF Load
    <3>2. m \in Items
      BY <1>0, <2>1, <3>1 DEF RedisTypeOK, Record, Items
    <3> HIDE DEF m
    <3>3. Append(held[w], m) \in Seq(Items) /\ Append(held[w], m) # <<>>
      BY <2>0, <3>2, AppendType
    <3> QED
      BY <2>0, <2>1, <3>1, <3>3
  <2>3. CASE Begin(w)
    BY <2>0, <2>1, <2>3 DEF Begin
  <2>4. CASE EndLoad(w) \/ Infer(w) \/ InferRaises(w)
    BY <2>0, <2>4 DEF EndLoad, Infer, InferRaises, AfterInferError
  <2>5. CASE Claim(w) \/ Count(w) \/ Blame(w) \/ PersistSwallowed(w)
    <3>1. pc[w] \in Working /\ pc[w] # "idle" /\ todo' = todo /\ job' = job
      BY <2>5 DEF Claim, Count, Blame, PersistSwallowed
    <3>2. \/ NextItem(w)
          \/ held' = held /\ pc' = [pc EXCEPT ![w] = "write"]
          \/ held' = held /\ pc' = [pc EXCEPT ![w] = "finally"]
      BY <2>5 DEF Claim, Count, Blame, PersistSwallowed
    <3> QED
      BY <1>0, <2>0, <3>1, <3>2, NextItemShape
  <2>6. CASE \/ Write(w) \/ Cleanup(w) \/ Unwind(w)
             \/ PersistRaises(w) \/ BlameRaises(w) \/ TimeoutEscapes(w)
    BY <2>0, <2>6 DEF Write, Cleanup, Unwind, PersistRaises, BlameRaises, TimeoutEscapes
  <2>7. CASE \/ KeepAttempt(w) \/ SaveDeadLetter(w) \/ TrimDeadLetters(w)
             \/ Demote(w) \/ DemoteRaises(w)
    BY <2>0, <2>7 DEF KeepAttempt, SaveDeadLetter, TrimDeadLetters, Demote, DemoteRaises
  <2>8. CASE Return(w) \/ Settle(w) \/ Kill(w)
    <3>1. Leave(w)
      BY <2>8 DEF Return, Settle, Kill
    <3>2. pc'[w] = "idle" /\ job'[w] = "none" /\ todo'[w] = <<>> /\ held'[w] = <<>>
      BY <2>0, <3>1 DEF Leave
    <3> QED
      BY <3>2
  <2>9. CASE Abandon(w)
    BY <2>0, <2>9 DEF Abandon
  <2>10. CASE MarkRaises(w)
    <3>1. held[w] # <<>> => SubSeq(held[w], 1, Len(held[w]) - 1) \in Seq(Items)
      BY <2>0, FrontLast
    <3>2. /\ pc[w] \in {"load", "begin"} /\ todo[w] # <<>> /\ job' = job
          /\ todo' = [todo EXCEPT ![w] = Tail(@)]
          /\ pc' = [pc EXCEPT ![w] = IF IsSingle(w) THEN "raise" ELSE "load"]
          /\ \/ held' = held
             \/ /\ pc[w] = "begin"
                /\ held' = [held EXCEPT ![w] = SubSeq(@, 1, Len(@) - 1)]
      BY <2>0, <2>10 DEF MarkRaises
    <3> QED
      BY <2>0, <2>1, <3>1, <3>2
  <2> QED
    BY <1>3, <2>2, <2>3, <2>4, <2>5, <2>6, <2>7, <2>8, <2>9, <2>10
    DEF TaskStep, HorseFault
<1>4. ASSUME NEW j \in Jobs,
             Enqueue(j) \/ Store(j) \/ StoreLost(j) \/ Requeue(j) \/ Reschedule(j)
      PROVE  UNCHANGED horse
  BY <1>4 DEF Enqueue, Store, StoreLost, Requeue, Reschedule
<1>5. CASE UNCHANGED vars \/ ExpireCurrent
  BY <1>1, <1>5 DEF vars, horse, ExpireCurrent
<1> QED
  BY <1>1, <1>2, <1>3, <1>4, <1>5 DEF Next, Deliver

LEMMA InitTyped == Init => Typed
<1> SUFFICES ASSUME Init PROVE Typed
  OBVIOUS
<1> USE DEF Init
<1>1. RedisTypeOK
  BY DEF RedisTypeOK, Record, Statuses, Keys
<1>2. QueueTypeOK
  BY BoundsAssumption DEF QueueTypeOK, Places
<1>3. HorseTypeOK /\ Shape
  BY DEF HorseTypeOK, Shape, Steps, Working
<1> QED
  BY <1>1, <1>2, <1>3 DEF Typed, TypeOK

LEMMA StepTyped == Typed /\ [Next]_vars => Typed'
  BY RedisTypeStep, QueueTypeStep, HorseTypeStep DEF Typed, TypeOK

LEMMA AlwaysTyped == Spec => []Typed
  BY InitTyped, StepTyped, PTL DEF Spec

\* TypeOK holds in every reachable state.
THEOREM TypeCorrect == Spec => []TypeOK
<1>1. Typed => TypeOK
  BY DEF Typed
<1> QED
  BY <1>1, AlwaysTyped, PTL

-----------------------------------------------------------------------------
(* Markers.  A work-horse past its SET NX holds the marker of its event.   *)

MarkedInv ==
    /\ CompletedIsMarked
    /\ \A w \in Workers : pc[w] \in {"write", "count"} => Consumed(Item(w))

\* Nothing in this module deletes a marker.
LEMMA MarkersStay == [Next]_vars => marker \subseteq marker'
<1> SUFFICES ASSUME [Next]_vars PROVE marker \subseteq marker'
  OBVIOUS
<1> USE DEF redis
<1>1. ASSUME NEW j \in Jobs, \/ Enqueue(j) \/ Store(j) \/ StoreLost(j) \/ Requeue(j)
                             \/ Deliver(j) \/ Reschedule(j)
      PROVE  marker' = marker
  BY <1>1 DEF Enqueue, Store, StoreLost, Requeue, Deliver, Take, Reschedule
<1>2. ASSUME NEW w \in Workers, TaskStep(w) PROVE marker \subseteq marker'
  BY <1>2 DEF TaskStep, Load, Begin, EndLoad, Infer, InferRaises, Claim, Write, Count,
     Blame, Cleanup, Unwind, KeepAttempt, SaveDeadLetter, TrimDeadLetters, Demote,
     Return, Settle
<1>3. ASSUME NEW w \in Workers, HorseFault(w) PROVE marker \subseteq marker'
  BY <1>3 DEF HorseFault, MarkRaises, PersistSwallowed, PersistRaises, BlameRaises,
     TimeoutEscapes, DemoteRaises, Kill, Abandon
<1>4. CASE UNCHANGED vars \/ ExpireCurrent
  BY <1>4 DEF vars, ExpireCurrent
<1> QED
  BY <1>1, <1>2, <1>3, <1>4 DEF Next

\* A worker enters "write" only by claiming and "count" only from "write".
LEMMA PersistingStep ==
  ASSUME HorseTypeOK, NEW w \in Workers, WorkerStep(w), pc'[w] \in {"write", "count"}
  PROVE  /\ held'[w] = held[w]
         /\ \/ pc[w] \in {"write", "count"}
            \/ Claim(w) /\ pc[w] = "claim" /\ ~Consumed(Item(w))
<1> USE DEF HorseTypeOK, Goto, horse
<1>1. CASE Claim(w)
  BY <1>1 DEF Claim, NextItem
<1>2. CASE Write(w) \/ Abandon(w)
  BY <1>2 DEF Write, Abandon
<1>3. CASE \/ Load(w) \/ Begin(w) \/ EndLoad(w) \/ Infer(w) \/ MarkRaises(w)
  BY <1>3 DEF Load, Begin, EndLoad, Infer, MarkRaises
<1>4. CASE \/ InferRaises(w) \/ Cleanup(w) \/ Unwind(w)
           \/ PersistRaises(w) \/ BlameRaises(w) \/ TimeoutEscapes(w)
  BY <1>4 DEF InferRaises, AfterInferError, Cleanup, Unwind, PersistRaises,
     BlameRaises, TimeoutEscapes
<1>5. CASE Count(w) \/ Blame(w) \/ PersistSwallowed(w)
  BY <1>5 DEF Count, Blame, PersistSwallowed, NextItem
<1>6. CASE \/ KeepAttempt(w) \/ SaveDeadLetter(w) \/ TrimDeadLetters(w)
           \/ Demote(w) \/ DemoteRaises(w)
  BY <1>6 DEF KeepAttempt, SaveDeadLetter, TrimDeadLetters, Demote, DemoteRaises
<1>7. CASE Return(w) \/ Settle(w) \/ Kill(w)
  BY <1>7 DEF Return, Settle, Kill, Leave
<1>8. ASSUME NEW j \in Jobs, Take(w, j) PROVE pc'[w] = "load"
  BY <1>8 DEF Take
<1> QED
  BY <1>1, <1>2, <1>3, <1>4, <1>5, <1>6, <1>7, <1>8 DEF WorkerStep, TaskStep, HorseFault

\* Which steps complete a record, and for what.
LEMMA CompletingStep ==
  ASSUME Typed, Next, NEW e \in Events, record'[e].status = "completed",
         record'[e] # record[e]
  PROVE  \E w \in Workers : /\ pc[w] = "write" /\ Item(w).event = e
                            /\ record'[e].key = Item(w).key
<1> USE DEF redis, SetRecord
<1>0. record \in [Events -> Record]
  BY DEF Typed, TypeOK, RedisTypeOK
<1>1. ASSUME NEW j \in Jobs, \/ Enqueue(j) \/ Store(j) \/ StoreLost(j) \/ Requeue(j)
                             \/ Deliver(j) \/ Reschedule(j)
      PROVE  FALSE
  BY <1>0, <1>1 DEF Enqueue, Store, StoreLost, Requeue, Deliver, Take, Reschedule
<1>2. ASSUME NEW w \in Workers, TaskStep(w)
      PROVE  pc[w] = "write" /\ Item(w).event = e /\ record'[e].key = Item(w).key
  <2>1. CASE Write(w)
    BY <1>0, <2>1 DEF Write
  <2>2. CASE Begin(w) \/ Blame(w) \/ Demote(w)
    BY <1>0, <2>2 DEF Begin, Blame, Demote
  <2> QED
    BY <1>2, <2>1, <2>2 DEF TaskStep, Load, EndLoad, Infer, InferRaises, Claim, Count,
       Cleanup, Unwind, KeepAttempt, SaveDeadLetter, TrimDeadLetters, Return, Settle
<1>3. ASSUME NEW w \in Workers, HorseFault(w)
      PROVE  pc[w] = "write" /\ Item(w).event = e /\ record'[e].key = Item(w).key
  <2>1. CASE PersistSwallowed(w)
    BY <1>0, <2>1 DEF PersistSwallowed
  <2>2. CASE MarkRaises(w) \/ BlameRaises(w)
    BY <1>0, <2>2 DEF MarkRaises, BlameRaises
  <2> QED
    BY <1>3, <2>1, <2>2 DEF HorseFault, PersistRaises, TimeoutEscapes, DemoteRaises,
       Kill, Abandon
<1>4. CASE ExpireCurrent
  BY <1>4 DEF ExpireCurrent
<1> QED
  BY <1>1, <1>2, <1>3, <1>4 DEF Next

\* What the other workers hold is not touched by a step of the API or of RQ.
LEMMA WhoMoves ==
  ASSUME Next
  PROVE  (\E w \in Workers : WorkerStep(w)) \/ UNCHANGED horse
<1>1. ASSUME NEW j \in Jobs,
             Enqueue(j) \/ Store(j) \/ StoreLost(j) \/ Requeue(j) \/ Reschedule(j)
      PROVE  UNCHANGED horse
  BY <1>1 DEF Enqueue, Store, StoreLost, Requeue, Reschedule
<1>2. CASE ExpireCurrent
  BY <1>2 DEF ExpireCurrent, horse
<1> QED
  BY <1>1, <1>2 DEF Next, Deliver, WorkerStep

LEMMA StepMarked == Typed /\ MarkedInv /\ [Next]_vars => MarkedInv'
<1> SUFFICES ASSUME Typed, MarkedInv, [Next]_vars PROVE MarkedInv'
  OBVIOUS
<1>1. CASE UNCHANGED vars
  BY <1>1 DEF vars, MarkedInv, CompletedIsMarked, Consumed, Item
<1>2. CASE Next
  <2>0. marker \subseteq marker' /\ HorseTypeOK
    BY MarkersStay DEF Typed, TypeOK
  <2>1. CompletedIsMarked'
    <3> SUFFICES ASSUME NEW e \in Events, record'[e].status = "completed"
                 PROVE  <<e, record'[e].key>> \in marker'
      BY DEF CompletedIsMarked
    <3>1. CASE record'[e] = record[e]
      BY <2>0, <3>1 DEF MarkedInv, CompletedIsMarked
    <3>2. CASE record'[e] # record[e]
      BY <1>2, <2>0, <3>2, CompletingStep DEF MarkedInv, Consumed
    <3> QED
      BY <3>1, <3>2
  <2>2. ASSUME NEW v \in Workers, pc'[v] \in {"write", "count"} PROVE Consumed(Item(v))'
    <3>1. CASE pc'[v] = pc[v] /\ held'[v] = held[v]
      BY <2>0, <2>2, <3>1 DEF MarkedInv, Consumed, Item
    <3>2. CASE WorkerStep(v)
      <4>1. held'[v] = held[v] /\ (pc[v] \in {"write", "count"} \/ Claim(v))
        BY <2>0, <2>2, <3>2, PersistingStep
      <4>2. CASE Claim(v)
        <5>1. pc[v] = "claim" /\ pc \in [Workers -> Steps]
          BY <2>0, <4>2 DEF Claim, HorseTypeOK
        <5>2. marker' = marker \cup {<<Item(v).event, Item(v).key>>}
          BY <2>2, <4>2, <5>1 DEF Claim, NextItem, Goto
        <5> QED
          BY <4>1, <5>2 DEF Consumed, Item
      <4> QED
        BY <2>0, <4>1, <4>2 DEF MarkedInv, Consumed, Item
    <3>3. ASSUME NEW w \in Workers \ {v}, WorkerStep(w)
          PROVE  pc'[v] = pc[v] /\ held'[v] = held[v]
      BY <2>0, <3>3, StepIsLocal DEF Local, HorseTypeOK
    <3> QED
      BY <1>2, <3>1, <3>2, <3>3, WhoMoves DEF horse
  <2> QED
    BY <2>1, <2>2 DEF MarkedInv
<1> QED
  BY <1>1, <1>2

\* A completed record carries the key of a marker, in every reachable state.
THEOREM CompletedHoldsMarker == Spec => []CompletedIsMarked
<1>1. Init => MarkedInv
  BY DEF Init, MarkedInv, CompletedIsMarked
<1>2. MarkedInv => CompletedIsMarked
  BY DEF MarkedInv
<1> QED
  BY <1>1, <1>2, StepMarked, AlwaysTyped, PTL DEF Spec

-----------------------------------------------------------------------------
(* Counting.  A work-horse between its claim and its count owes one count: *)
(* the invariant adds what is owed to what was counted.                    *)

Owing(e) == {w \in Workers : pc[w] \in {"write", "count"} /\ Item(w).event = e}
KeysOf(e) == {k \in Keys : <<e, k>> \in marker}

Balanced(e) == counted[e] + Cardinality(Owing(e)) <= Cardinality(KeysOf(e))

CountInv == \A e \in Events : Balanced(e)

LEMMA CountsFinite ==
  ASSUME NEW e \in Events
  PROVE  /\ IsFiniteSet(Owing(e)) /\ Cardinality(Owing(e)) \in Nat
         /\ IsFiniteSet(KeysOf(e)) /\ Cardinality(KeysOf(e)) \in Nat
<1>1. IsFiniteSet(Keys)
  BY JobsAssumption, FS_AddElement DEF Keys
<1>2. IsFiniteSet(Owing(e)) /\ IsFiniteSet(KeysOf(e))
  BY <1>1, WorkersAssumption, FS_Subset DEF Owing, KeysOf
<1> QED
  BY <1>2, FS_CardinalityType

LEMMA CountsFiniteNext ==
  ASSUME NEW e \in Events
  PROVE  /\ IsFiniteSet(Owing(e)') /\ Cardinality(Owing(e)') \in Nat
         /\ IsFiniteSet(KeysOf(e)') /\ Cardinality(KeysOf(e)') \in Nat
<1>1. IsFiniteSet(Keys)
  BY JobsAssumption, FS_AddElement DEF Keys
<1>2. IsFiniteSet(Owing(e)') /\ IsFiniteSet(KeysOf(e)')
  BY <1>1, WorkersAssumption, FS_Subset DEF Owing, KeysOf
<1> QED
  BY <1>2, FS_CardinalityType

\* A step that counts nothing and starts no new persisting keeps the balance.
LEMMA QuietCount ==
  ASSUME RedisTypeOK, NEW e \in Events, Balanced(e), marker \subseteq marker',
         counted'[e] = counted[e], Owing(e)' \subseteq Owing(e)
  PROVE  counted'[e] + Cardinality(Owing(e)') <= Cardinality(KeysOf(e)')
<1>1. KeysOf(e) \subseteq KeysOf(e)'
  BY DEF KeysOf
<1>2. Cardinality(KeysOf(e)) <= Cardinality(KeysOf(e)')
  BY <1>1, CountsFiniteNext, FS_Subset
<1>3. Cardinality(Owing(e)') <= Cardinality(Owing(e))
  BY CountsFinite, FS_Subset
<1>4. counted[e] \in Nat /\ counted[e] + Cardinality(Owing(e)) <= Cardinality(KeysOf(e))
  BY DEF RedisTypeOK, Balanced
<1> QED
  BY <1>2, <1>3, <1>4, CountsFinite, CountsFiniteNext

\* Who counts has written the event and goes on to something else.
Counts(w) ==
    /\ WorkerStep(w) /\ pc[w] = "count" /\ pc'[w] \notin {"write", "count"}
    /\ CountItem(w) /\ marker' = marker

LEMMA CountingStep ==
  ASSUME RedisTypeOK, HorseTypeOK, Next, counted' # counted
  PROVE  \E w \in Workers : Counts(w)
<1> USE DEF redis
<1>1. ASSUME NEW j \in Jobs, \/ Enqueue(j) \/ Store(j) \/ StoreLost(j) \/ Requeue(j)
                             \/ Deliver(j) \/ Reschedule(j)
      PROVE  FALSE
  BY <1>1 DEF Enqueue, Store, StoreLost, Requeue, Deliver, Take, Reschedule
<1>2. ASSUME NEW w \in Workers, TaskStep(w) PROVE Count(w)
  BY <1>2 DEF TaskStep, Load, Begin, EndLoad, Infer, InferRaises, Claim, Write, Blame,
     Cleanup, Unwind, KeepAttempt, SaveDeadLetter, TrimDeadLetters, Demote, Return,
     Settle
<1>3. ASSUME NEW w \in Workers, HorseFault(w) PROVE PersistSwallowed(w) \/ PersistRaises(w)
  BY <1>3 DEF HorseFault, MarkRaises, BlameRaises, TimeoutEscapes, DemoteRaises, Kill,
     Abandon
<1>4. ASSUME NEW w \in Workers, Count(w) \/ PersistSwallowed(w) \/ PersistRaises(w)
      PROVE  Counts(w)
  <2>1. pc \in [Workers -> Steps]
    BY DEF HorseTypeOK
  <2>2. pc[w] = "count" /\ CountItem(w) /\ marker' = marker
    BY <1>4 DEF Count, PersistSwallowed, PersistRaises
  <2>3. pc'[w] \in {"claim", "cleanup", "blame"}
    BY <1>4, <2>1 DEF Count, PersistSwallowed, PersistRaises, NextItem, Goto
  <2> QED
    BY <1>4, <2>2, <2>3 DEF Counts, WorkerStep, TaskStep, HorseFault
<1> QED
  BY <1>1, <1>2, <1>3, <1>4 DEF Next, ExpireCurrent

\* A step of one worker moves no other worker in or out of Owing.
LEMMA OwingStep ==
  ASSUME HorseTypeOK, NEW e \in Events, NEW w \in Workers, WorkerStep(w)
  PROVE  /\ Owing(e)' \ {w} = Owing(e) \ {w}
         /\ w \in Owing(e)' => w \in Owing(e) \/ (Claim(w) /\ Item(w).event = e)
<1>1. \A v \in Workers \ {w} : pc'[v] = pc[v] /\ held'[v] = held[v]
  BY StepIsLocal DEF Local, HorseTypeOK
<1>2. Owing(e)' \ {w} = Owing(e) \ {w}
  BY <1>1 DEF Owing, Item
<1>3. w \in Owing(e)' => w \in Owing(e) \/ (Claim(w) /\ Item(w).event = e)
  BY PersistingStep DEF Owing, Item
<1> QED
  BY <1>2, <1>3

LEMMA StepBalanced ==
  ASSUME Typed, [Next]_vars, NEW e \in Events, Balanced(e)
  PROVE  counted'[e] + Cardinality(Owing(e)') <= Cardinality(KeysOf(e)')
<1>0. /\ RedisTypeOK /\ HorseTypeOK /\ marker \subseteq marker'
      /\ counted[e] \in Nat /\ counted \in [Events -> Nat]
      /\ counted[e] + Cardinality(Owing(e)) <= Cardinality(KeysOf(e))
  BY MarkersStay DEF Typed, TypeOK, RedisTypeOK, Balanced
<1>1. CASE counted'[e] = counted[e] /\ Owing(e)' \subseteq Owing(e)
  BY <1>0, <1>1, QuietCount
<1>2. CASE UNCHANGED vars \/ UNCHANGED <<counted, horse>>
  <2>1. counted' = counted /\ Owing(e)' = Owing(e)
    BY <1>2 DEF vars, horse, Owing, Item
  <2> QED
    BY <1>1, <2>1
<1>3. ASSUME NEW w \in Workers, Counts(w)
      PROVE  counted'[e] + Cardinality(Owing(e)') <= Cardinality(KeysOf(e)')
  <2>1. w \notin Owing(e)'
    BY <1>3 DEF Counts, Owing
  <2>2. Owing(e)' = Owing(e) \ {w}
    BY <1>0, <1>3, <2>1, OwingStep DEF Counts
  <2>3. KeysOf(e)' = KeysOf(e)
    BY <1>3 DEF Counts, KeysOf
  <2>4. CASE Item(w).event # e
    <3>1. counted'[e] = counted[e]
      BY <1>0, <1>3, <2>4 DEF Counts, CountItem
    <3> QED
      BY <1>1, <2>2, <3>1
  <2>5. CASE Item(w).event = e
    <3>1. counted'[e] = counted[e] + 1
      BY <1>0, <1>3, <2>5 DEF Counts, CountItem
    <3>2. w \in Owing(e)
      BY <1>3, <2>5 DEF Counts, Owing
    <3>3. Cardinality(Owing(e)') = Cardinality(Owing(e)) - 1
      BY <2>2, <3>2, CountsFinite, FS_RemoveElement
    <3> QED
      BY <1>0, <2>3, <3>1, <3>3, CountsFinite
  <2> QED
    BY <2>4, <2>5
<1>4. ASSUME NEW w \in Workers, Claim(w), w \in Owing(e)', w \notin Owing(e)
      PROVE  counted'[e] + Cardinality(Owing(e)') <= Cardinality(KeysOf(e)')
  <2>1. /\ held'[w] = held[w] /\ ~Consumed(Item(w)) /\ pc[w] = "claim"
        /\ Item(w).event = e
    <3>1. pc'[w] \in {"write", "count"} /\ pc[w] = "claim"
      BY <1>4 DEF Owing, Claim
    <3>2. held'[w] = held[w] /\ ~Consumed(Item(w))
      BY <1>0, <1>4, <3>1, PersistingStep DEF WorkerStep, TaskStep
    <3> QED
      BY <1>0, <1>4, <3>1, <3>2, OwingStep DEF WorkerStep, TaskStep
  <2>2. marker' = marker \cup {<<Item(w).event, Item(w).key>>} /\ counted' = counted
    BY <1>4, <2>1 DEF Claim
  <2>3. Item(w).key \in Keys /\ Item(w).key \notin KeysOf(e)
    BY <2>1, ItemType DEF KeysOf, Consumed, Working
  <2>4. KeysOf(e)' = KeysOf(e) \cup {Item(w).key}
    BY <2>1, <2>2, <2>3 DEF KeysOf
  <2>5. Cardinality(KeysOf(e)') = Cardinality(KeysOf(e)) + 1
    BY <2>3, <2>4, CountsFinite, FS_AddElement
  <2>6. Owing(e)' = Owing(e) \cup {w}
    BY <1>0, <1>4, OwingStep DEF WorkerStep, TaskStep
  <2>7. Cardinality(Owing(e)') = Cardinality(Owing(e)) + 1
    BY <1>4, <2>6, CountsFinite, FS_AddElement
  <2> QED
    BY <1>0, <2>2, <2>5, <2>7, CountsFinite
<1>5. ASSUME NEW w \in Workers, WorkerStep(w), counted' = counted
      PROVE  counted'[e] + Cardinality(Owing(e)') <= Cardinality(KeysOf(e)')
  <2>1. CASE w \in Owing(e)' /\ w \notin Owing(e)
    BY <1>0, <1>4, <1>5, <2>1, OwingStep
  <2>2. CASE ~(w \in Owing(e)' /\ w \notin Owing(e))
    <3>1. Owing(e)' \subseteq Owing(e)
      BY <1>0, <1>5, <2>2, OwingStep
    <3> QED
      BY <1>1, <1>5, <3>1
  <2> QED
    BY <2>1, <2>2
<1>6. CASE Next
  BY <1>0, <1>2, <1>3, <1>5, <1>6, CountingStep, WhoMoves
<1> QED
  BY <1>2, <1>6

LEMMA StepCount == Typed /\ CountInv /\ [Next]_vars => CountInv'
<1> SUFFICES ASSUME Typed, CountInv, [Next]_vars, NEW e \in Events PROVE Balanced(e)'
  BY DEF CountInv
<1>1. Balanced(e)
  BY DEF CountInv
<1> QED
  BY <1>1, StepBalanced DEF Balanced

\* Throughput counts an event at most once per marker, with any number of
\* workers, retries, requeues and abandoned attempts.
THEOREM CountedAtMostOncePerMarker == Spec => []CountedOncePerMarker
<1>1. Init => CountInv
  <2> SUFFICES ASSUME Init, NEW e \in Events
               PROVE  counted[e] + Cardinality(Owing(e)) <= Cardinality(KeysOf(e))
    BY DEF CountInv, Balanced
  <2>1. counted[e] = 0 /\ Owing(e) = {} /\ KeysOf(e) = {}
    BY DEF Init, Owing, KeysOf
  <2> QED
    BY <2>1, FS_EmptySet
<1>2. Typed /\ CountInv => CountedOncePerMarker
  <2> SUFFICES ASSUME Typed, CountInv, NEW e \in Events
               PROVE  counted[e] <= Cardinality(KeysOf(e))
    BY DEF CountedOncePerMarker, KeysOf
  <2>1. counted[e] \in Nat /\ counted[e] + Cardinality(Owing(e)) <= Cardinality(KeysOf(e))
    BY DEF Typed, TypeOK, RedisTypeOK, CountInv, Balanced
  <2> QED
    BY <2>1, CountsFinite
<1> QED
  BY <1>1, <1>2, StepCount, AlwaysTyped, PTL DEF Spec

-----------------------------------------------------------------------------
(* Dead letters.  An attempt RQ has not given up on is the only one of its *)
(* job, and RQ has that job as started.                                    *)

Active(w) == pc[w] # "idle" /\ ~zombie[w]

FinalInv ==
    /\ \A w \in Workers : Active(w) => rq[job[w]] = "started"
    /\ \A v, w \in Workers : v # w /\ Active(v) /\ Active(w) => job[v] # job[w]
    /\ DeadLetterIsFinal

\* RQ's decisions keep the invariant when worker w's attempt ends or is given
\* up on.
LEMMA FailedAttempt ==
  ASSUME Typed, FinalInv, NEW w \in Workers, Active(w), FailJob(job[w]), dlq' = dlq,
         \A v \in Workers \ {w} : Active(v)' = Active(v) /\ job'[v] = job[v],
         ~Active(w)'
  PROVE  FinalInv'
<1>0. /\ rq \in [Jobs -> Places] /\ left \in [Jobs -> 0..MaxRetries] /\ job[w] \in Jobs
      /\ dlq \in Seq(Jobs)
  BY DEF Typed, TypeOK, QueueTypeOK, HorseTypeOK, Active
<1>1. \A j \in Jobs \ {job[w]} : rq'[j] = rq[j] /\ left'[j] = left[j]
  BY <1>0 DEF FailJob
<1>2. \A v \in Workers \ {w} : Active(v) => job[v] \in Jobs \ {job[w]}
  BY DEF FinalInv, Typed, TypeOK, HorseTypeOK, Active
<1>3. DeadLetterIsFinal'
  <2> SUFFICES ASSUME NEW i \in DOMAIN dlq
               PROVE  left'[dlq[i]] = 0 /\ rq'[dlq[i]] # "scheduled"
    BY DEF DeadLetterIsFinal
  <2>1. dlq[i] \in Jobs /\ left[dlq[i]] = 0 /\ rq[dlq[i]] # "scheduled"
    BY <1>0 DEF FinalInv, DeadLetterIsFinal
  <2>2. CASE dlq[i] = job[w]
    BY <1>0, <2>1, <2>2 DEF FailJob
  <2> QED
    BY <1>1, <2>1, <2>2
<1> QED
  BY <1>1, <1>2, <1>3 DEF FinalInv

LEMMA StepFinal == Typed /\ FinalInv /\ [Next]_vars => FinalInv'
<1> SUFFICES ASSUME Typed, FinalInv, [Next]_vars PROVE FinalInv'
  OBVIOUS
<1> USE DEF redis, queue, horse
<1>0. /\ rq \in [Jobs -> Places] /\ left \in [Jobs -> 0..MaxRetries] /\ dlq \in Seq(Jobs)
      /\ pc \in [Workers -> Steps] /\ zombie \in [Workers -> BOOLEAN]
      /\ \A w \in Workers : Active(w) => job[w] \in Jobs
      /\ HorseTypeOK /\ QueueTypeOK
  BY DEF Typed, TypeOK, QueueTypeOK, HorseTypeOK, Active
<1>1. CASE UNCHANGED <<queue, pc, job, zombie>>
  BY <1>1 DEF FinalInv, DeadLetterIsFinal, Active
<1>2. ASSUME NEW j \in Jobs, Enqueue(j) \/ Requeue(j) \/ Reschedule(j) PROVE FinalInv'
  <2>1. /\ rq[j] # "started" /\ rq' = [rq EXCEPT ![j] = "queued"]
        /\ UNCHANGED <<left, dlq, pc, job, zombie>>
    BY <1>2 DEF Enqueue, Requeue, Reschedule
  <2> QED
    BY <1>0, <2>1 DEF FinalInv, DeadLetterIsFinal, Active
<1>3. ASSUME NEW w \in Workers, NEW j \in Jobs, Take(w, j) PROVE FinalInv'
  <2>1. /\ rq[j] = "queued" /\ rq' = [rq EXCEPT ![j] = "started"] /\ job'[w] = j
        /\ \A v \in Workers \ {w} : pc'[v] = pc[v] /\ job'[v] = job[v]
        /\ UNCHANGED <<left, dlq, zombie>>
    BY <1>0, <1>3 DEF Take, Goto, HorseTypeOK
  <2>2. \A v \in Workers \ {w} : Active(v)' = Active(v) /\ job'[v] = job[v]
    BY <2>1 DEF Active
  <2>3. \A v \in Workers \ {w} : Active(v) => job[v] \in Jobs \ {j} /\ rq'[job[v]] = "started"
    BY <1>0, <2>1 DEF FinalInv
  <2>4. rq'[j] = "started" /\ \A i \in Jobs \ {j} : rq'[i] = rq[i]
    BY <1>0, <2>1
  <2>5. DeadLetterIsFinal'
    BY <1>0, <2>1, <2>4 DEF FinalInv, DeadLetterIsFinal
  <2> QED
    BY <2>1, <2>2, <2>3, <2>4, <2>5 DEF FinalInv
<1>4. ASSUME NEW w \in Workers, WorkerStep(w)
      PROVE  \A v \in Workers \ {w} : Active(v)' = Active(v) /\ job'[v] = job[v]
  BY <1>0, <1>4, StepIsLocal DEF Local, HorseTypeOK, Active
<1>5. ASSUME NEW w \in Workers, Settle(w) \/ Kill(w) PROVE FinalInv'
  <2>1. Leave(w) /\ dlq' = dlq /\ pc[w] # "idle"
        /\ (IF zombie[w] THEN UNCHANGED <<rq, left>> ELSE FailJob(job[w]))
    BY <1>5 DEF Settle, Kill
  <2>2. ~Active(w)'
    BY <1>0, <2>1 DEF Leave, Goto, Active
  <2>3. \A v \in Workers \ {w} : Active(v)' = Active(v) /\ job'[v] = job[v]
    BY <1>4, <1>5 DEF WorkerStep, TaskStep, HorseFault
  <2>4. CASE zombie[w]
    BY <2>1, <2>2, <2>3, <2>4 DEF FinalInv, DeadLetterIsFinal
  <2>5. CASE ~zombie[w]
    BY <2>1, <2>2, <2>3, <2>5, FailedAttempt DEF Active
  <2> QED
    BY <2>4, <2>5
<1>6. ASSUME NEW w \in Workers, Abandon(w) PROVE FinalInv'
  <2>1. Active(w) /\ ~Active(w)' /\ FailJob(job[w]) /\ dlq' = dlq
    BY <1>0, <1>6 DEF Abandon, Active
  <2>2. \A v \in Workers \ {w} : Active(v)' = Active(v) /\ job'[v] = job[v]
    BY <1>4, <1>6 DEF WorkerStep, HorseFault
  <2> QED
    BY <2>1, <2>2, FailedAttempt
<1>7. ASSUME NEW w \in Workers, Return(w) PROVE FinalInv'
  <2>1. /\ Leave(w) /\ dlq' = dlq /\ left' = left /\ pc[w] # "idle"
        /\ rq' = IF zombie[w] THEN rq ELSE [rq EXCEPT ![job[w]] = "finished"]
    BY <1>7 DEF Return
  <2>2. ~Active(w)'
    BY <1>0, <2>1 DEF Leave, Goto, Active
  <2>3. \A v \in Workers \ {w} : Active(v)' = Active(v) /\ job'[v] = job[v]
    BY <1>4, <1>7 DEF WorkerStep, TaskStep
  <2>4. CASE zombie[w]
    BY <2>1, <2>2, <2>3, <2>4 DEF FinalInv, DeadLetterIsFinal
  <2>5. CASE ~zombie[w]
    <3>1. Active(w) /\ job[w] \in Jobs
      BY <1>0, <2>1, <2>5 DEF Active
    <3>2. /\ rq'[job[w]] = "finished" /\ left' = left
          /\ \A i \in Jobs \ {job[w]} : rq'[i] = rq[i]
      BY <1>0, <2>1, <2>5, <3>1
    <3>3. \A v \in Workers \ {w} : Active(v) => job[v] \in Jobs \ {job[w]}
      BY <1>0, <3>1 DEF FinalInv
    <3>4. DeadLetterIsFinal'
      BY <1>0, <2>1, <3>2 DEF FinalInv, DeadLetterIsFinal
    <3> QED
      BY <2>2, <2>3, <3>2, <3>3, <3>4 DEF FinalInv
  <2> QED
    BY <2>4, <2>5
<1>8. ASSUME NEW w \in Workers, SaveDeadLetter(w) PROVE FinalInv'
  <2>1. /\ dlq' \in {dlq, <<job[w]>> \o dlq} /\ UNCHANGED <<rq, left, job, zombie>>
        /\ pc[w] = "raise" /\ pc' = [pc EXCEPT ![w] = pc'[w]] /\ pc'[w] # "idle"
        /\ ~zombie[w] /\ ~(left[job[w]] > 0)
    BY <1>0, <1>8 DEF SaveDeadLetter, RetriesLeft, Bury, Goto
  <2>2. Active(w) /\ \A v \in Workers : Active(v)' = Active(v)
    BY <1>0, <2>1 DEF Active
  <2>3. job[w] \in Jobs /\ left[job[w]] = 0 /\ rq[job[w]] = "started"
    BY <1>0, <2>1, <2>2, BoundsAssumption DEF FinalInv
  <2>4. \A i \in DOMAIN dlq' : dlq'[i] = job[w] \/ \E k \in DOMAIN dlq : dlq'[i] = dlq[k]
    <3>1. CASE dlq' = dlq
      BY <3>1
    <3>2. CASE dlq' = <<job[w]>> \o dlq
      <4>1. dlq \in Seq(Jobs) /\ job[w] \in Jobs
        BY <1>0, <2>3
      <4> QED
        BY <3>2, <4>1, PushedEntries
    <3> QED
      BY <2>1, <3>1, <3>2
  <2>5. DeadLetterIsFinal'
    BY <2>1, <2>3, <2>4 DEF FinalInv, DeadLetterIsFinal
  <2> QED
    BY <2>1, <2>2, <2>5 DEF FinalInv
<1>15. ASSUME NEW w \in Workers, TrimDeadLetters(w) PROVE FinalInv'
  <2>1. /\ dlq' \in {dlq, Trimmed(dlq)} /\ UNCHANGED <<rq, left, job, zombie>>
        /\ pc[w] # "idle" /\ pc' = [pc EXCEPT ![w] = "demote"]
    BY <1>15 DEF TrimDeadLetters, Goto
  <2>2. \A i \in DOMAIN dlq' : i \in DOMAIN dlq /\ dlq'[i] = dlq[i]
    BY <1>0, <2>1, TrimmedPrefix
  <2>3. DeadLetterIsFinal'
    BY <2>1, <2>2 DEF FinalInv, DeadLetterIsFinal
  <2> QED
    BY <1>0, <2>1, <2>3 DEF FinalInv, Active
<1>9. ASSUME NEW w \in Workers, pc[w] # "idle", pc'[w] # "idle",
             pc' = [pc EXCEPT ![w] = pc'[w]], UNCHANGED <<queue, job, zombie>>
      PROVE  FinalInv'
  BY <1>0, <1>9 DEF FinalInv, DeadLetterIsFinal, Active
<1>10. ASSUME NEW w \in Workers,
              \/ Load(w) \/ Begin(w) \/ EndLoad(w) \/ Infer(w) \/ MarkRaises(w)
              \/ InferRaises(w) \/ Write(w) \/ Cleanup(w) \/ Unwind(w) \/ PersistRaises(w)
              \/ BlameRaises(w) \/ TimeoutEscapes(w) \/ KeepAttempt(w) \/ Demote(w)
              \/ DemoteRaises(w)
       PROVE  FinalInv'
  BY <1>0, <1>9, <1>10 DEF Load, Begin, EndLoad, Infer, MarkRaises, InferRaises,
     AfterInferError, Write, Cleanup, Unwind, PersistRaises, BlameRaises, TimeoutEscapes,
     KeepAttempt, Demote, DemoteRaises, Goto
<1>11. ASSUME NEW w \in Workers, Claim(w) \/ Count(w) \/ Blame(w) \/ PersistSwallowed(w)
       PROVE  FinalInv'
  BY <1>0, <1>9, <1>11 DEF Claim, Count, Blame, PersistSwallowed, NextItem, Goto
<1>12. ASSUME NEW j \in Jobs, Store(j) \/ StoreLost(j) PROVE FinalInv'
  BY <1>1, <1>12 DEF Store, StoreLost
<1>13. CASE UNCHANGED vars \/ ExpireCurrent
  BY <1>1, <1>13 DEF vars, ExpireCurrent
<1>14. ASSUME NEW w \in Workers, TaskStep(w) \/ HorseFault(w) PROVE FinalInv'
  BY <1>5, <1>6, <1>7, <1>8, <1>10, <1>11, <1>14, <1>15 DEF TaskStep, HorseFault
<1> QED
  BY <1>2, <1>3, <1>12, <1>13, <1>14 DEF Next, Deliver

\* A job on the dead-letter list has no retry left and RQ will not run it again
\* unless somebody asks for it.
THEOREM DeadLettersAreFinal == Spec => []DeadLetterIsFinal
<1>1. Init => FinalInv
  BY DEF Init, FinalInv, DeadLetterIsFinal, Active
<1>2. FinalInv => DeadLetterIsFinal
  BY DEF FinalInv
<1> QED
  BY <1>1, <1>2, StepFinal, AlwaysTyped, PTL DEF Spec

-----------------------------------------------------------------------------
(* The length of the dead-letter index.  An entry pushed and not trimmed   *)
(* yet belongs to a work-horse about to trim; without kills and Redis      *)
(* errors each of them does.                                               *)

Trimming == {w \in Workers : pc[w] = "trim"}
CallbacksRun == "kill" \notin Faults /\ "redis" \notin Faults

LEMMA TrimmingFinite ==
  /\ IsFiniteSet(Trimming) /\ Cardinality(Trimming) \in Nat
  /\ IsFiniteSet(Trimming') /\ Cardinality(Trimming') \in Nat
<1>1. IsFiniteSet(Trimming) /\ IsFiniteSet(Trimming')
  BY WorkersAssumption, FS_Subset DEF Trimming
<1> QED
  BY <1>1, FS_CardinalityType

\* Only saving and trimming touch the index, and without faults only trimming
\* takes a work-horse away from its trim.
LEMMA IndexStep ==
  ASSUME HorseTypeOK, CallbacksRun, NEW w \in Workers, WorkerStep(w)
  PROVE  \/ SaveDeadLetter(w) \/ TrimDeadLetters(w)
         \/ dlq' = dlq /\ (pc[w] = "trim" => pc'[w] = "trim")
<1> USE DEF queue, CallbacksRun
<1>1. CASE Load(w) \/ Begin(w) \/ EndLoad(w) \/ Infer(w) \/ MarkRaises(w)
  BY <1>1 DEF Load, Begin, EndLoad, Infer, MarkRaises
<1>2. CASE \/ InferRaises(w) \/ Write(w) \/ Cleanup(w) \/ Unwind(w)
           \/ PersistRaises(w) \/ BlameRaises(w) \/ TimeoutEscapes(w)
  BY <1>2 DEF InferRaises, Write, Cleanup, Unwind, PersistRaises, BlameRaises,
     TimeoutEscapes
<1>3. CASE Claim(w) \/ Count(w) \/ Blame(w) \/ PersistSwallowed(w)
  BY <1>3 DEF Claim, Count, Blame, PersistSwallowed
<1>4. CASE KeepAttempt(w) \/ Demote(w) \/ DemoteRaises(w)
  BY <1>4 DEF KeepAttempt, Demote, DemoteRaises
<1>5. CASE Return(w) \/ Settle(w) \/ Kill(w) \/ Abandon(w)
  BY <1>5 DEF Return, Settle, Kill, Abandon
<1>6. ASSUME NEW j \in Jobs, Take(w, j) PROVE dlq' = dlq /\ pc[w] # "trim"
  BY <1>6 DEF Take
<1> QED
  BY <1>1, <1>2, <1>3, <1>4, <1>5, <1>6 DEF WorkerStep, TaskStep, HorseFault

\* A step of the API or of RQ leaves the index alone.
LEMMA WhoMovesIndex ==
  ASSUME Next
  PROVE  (\E w \in Workers : WorkerStep(w)) \/ (UNCHANGED horse /\ dlq' = dlq)
<1>1. ASSUME NEW j \in Jobs,
             Enqueue(j) \/ Store(j) \/ StoreLost(j) \/ Requeue(j) \/ Reschedule(j)
      PROVE  UNCHANGED horse /\ dlq' = dlq
  BY <1>1 DEF Enqueue, Store, StoreLost, Requeue, Reschedule, queue
<1>2. CASE ExpireCurrent
  BY <1>2 DEF ExpireCurrent, horse, queue
<1> QED
  BY <1>1, <1>2 DEF Next, Deliver, WorkerStep

LEMMA TrimmedLen ==
  ASSUME NEW s \in Seq(Jobs)
  PROVE  /\ Len(Trimmed(s)) <= DlqCap
         /\ Len(Trimmed(s)) = Len(s) \/ Len(Trimmed(s)) = DlqCap
<1> DEFINE n == Least(Len(s), DlqCap)
<1>1. /\ n \in 0..Len(s) /\ n <= DlqCap /\ (n = Len(s) \/ n = DlqCap)
      /\ Trimmed(s) = SubSeq(s, 1, n)
  BY BoundsAssumption DEF Trimmed, Least
<1> QED
  BY <1>1

LEMMA StepBounded ==
  ASSUME CallbacksRun
  PROVE  Typed /\ DlqBounded /\ [Next]_vars => DlqBounded'
<1> SUFFICES ASSUME Typed, DlqBounded, [Next]_vars
             PROVE  Len(dlq') <= DlqCap + Cardinality(Trimming')
  BY DEF DlqBounded, Trimming
<1>0. /\ dlq \in Seq(Jobs) /\ Len(dlq) \in Nat /\ HorseTypeOK /\ DlqCap \in Nat
      /\ Len(dlq) <= DlqCap + Cardinality(Trimming)
      /\ pc \in [Workers -> Steps]
  BY BoundsAssumption DEF Typed, TypeOK, QueueTypeOK, HorseTypeOK, DlqBounded, Trimming
<1>1. CASE dlq' = dlq /\ Trimming \subseteq Trimming'
  <2>1. Cardinality(Trimming) <= Cardinality(Trimming')
    BY <1>1, TrimmingFinite, FS_Subset
  <2> QED
    BY <1>0, <1>1, <2>1, TrimmingFinite
<1>2. ASSUME NEW w \in Workers, SaveDeadLetter(w)
      PROVE  Len(dlq') <= DlqCap + Cardinality(Trimming')
  <2>1. /\ dlq' = <<job[w]>> \o dlq /\ pc' = [pc EXCEPT ![w] = "trim"] /\ pc[w] = "raise"
        /\ job[w] \in Jobs
    BY <1>0, <1>2 DEF SaveDeadLetter, Bury, Goto, CallbacksRun, HorseTypeOK
  <2>2. Len(dlq') = Len(dlq) + 1
    BY <1>0, <2>1
  <2>3. Trimming' = Trimming \cup {w} /\ w \notin Trimming
    BY <1>0, <2>1 DEF Trimming
  <2>4. Cardinality(Trimming') = Cardinality(Trimming) + 1
    BY <2>3, TrimmingFinite, FS_AddElement
  <2> QED
    BY <1>0, <2>2, <2>4, TrimmingFinite
<1>3. ASSUME NEW w \in Workers, TrimDeadLetters(w)
      PROVE  Len(dlq') <= DlqCap + Cardinality(Trimming')
  <2>1. dlq' = Trimmed(dlq)
    BY <1>3 DEF TrimDeadLetters, CallbacksRun
  <2>2. dlq' \in Seq(Jobs) /\ Len(dlq') <= DlqCap
    BY <1>0, <2>1, TrimmedPrefix, TrimmedLen
  <2> QED
    BY <1>0, <2>2, TrimmingFinite
<1>4. ASSUME NEW w \in Workers, WorkerStep(w), dlq' = dlq,
             pc[w] = "trim" => pc'[w] = "trim"
      PROVE  Trimming \subseteq Trimming'
  <2>1. \A v \in Workers \ {w} : pc'[v] = pc[v]
    BY <1>0, <1>4, StepIsLocal DEF Local, HorseTypeOK
  <2> QED
    BY <1>4, <2>1 DEF Trimming
<1>5. CASE UNCHANGED <<dlq, pc>>
  BY <1>1, <1>5 DEF Trimming
<1> QED
  BY <1>0, <1>1, <1>2, <1>3, <1>4, <1>5, IndexStep, WhoMovesIndex DEF vars, horse

\* While work-horses live and Redis answers, the dead-letter index outgrows its
\* limit by at most one entry for each callback between its LPUSH and LTRIM.
THEOREM DeadLettersBounded ==
  ASSUME "kill" \notin Faults, "redis" \notin Faults
  PROVE  Spec => []DlqBounded
<1>1. Init => DlqBounded
  <2> SUFFICES ASSUME Init PROVE Len(dlq) <= DlqCap + Cardinality(Trimming)
    BY DEF DlqBounded, Trimming
  <2>1. Len(dlq) = 0
    BY DEF Init
  <2> QED
    BY <2>1, TrimmingFinite, BoundsAssumption
<1>2. Typed /\ DlqBounded /\ [Next]_vars => DlqBounded'
  BY StepBounded DEF CallbacksRun
<1> QED
  BY <1>1, <1>2, AlwaysTyped, PTL DEF Spec

-----------------------------------------------------------------------------
(* Exhausted jobs.  An attempt past its save, with no retry left, has its  *)
(* job in the index already, and only such an attempt ends in the failed   *)
(* registry.                                                               *)

Found(j) == j \in Members(dlq) \/ Len(dlq) >= DlqCap

BuriedInv ==
    /\ ExhaustedIsDeadLettered
    /\ \A w \in Workers :
         Active(w) /\ pc[w] \in {"trim", "demote", "settle"} /\ left[job[w]] = 0
           => Found(job[w])

\* Saving adds entries, and a trim that drops one leaves the index full.
LEMMA FoundStays ==
  ASSUME Typed, [Next]_vars, CallbacksRun, NEW j \in Jobs, Found(j)
  PROVE  Found(j)'
<1>0. /\ dlq \in Seq(Jobs) /\ Len(dlq) \in Nat /\ HorseTypeOK /\ DlqCap \in Nat
  BY BoundsAssumption DEF Typed, TypeOK, QueueTypeOK
<1>1. CASE dlq' = dlq
  BY <1>1 DEF Found, Members
<1>2. ASSUME NEW w \in Workers, SaveDeadLetter(w) PROVE Found(j)'
  <2>1. dlq' = <<job[w]>> \o dlq /\ job[w] \in Jobs
    BY <1>0, <1>2 DEF SaveDeadLetter, Bury, CallbacksRun, HorseTypeOK
  <2>2. Len(dlq') = Len(dlq) + 1
    BY <1>0, <2>1
  <2>3. \A i \in DOMAIN dlq : i + 1 \in DOMAIN dlq' /\ dlq'[i + 1] = dlq[i]
    BY <1>0, <2>1
  <2>4. j \in Members(dlq) => j \in Members(dlq')
    BY <2>3 DEF Members
  <2> QED
    BY <1>0, <2>2, <2>4 DEF Found
<1>3. ASSUME NEW w \in Workers, TrimDeadLetters(w) PROVE Found(j)'
  <2>1. dlq' = Trimmed(dlq)
    BY <1>3 DEF TrimDeadLetters, CallbacksRun
  <2>2. CASE Len(dlq') = DlqCap
    BY <1>0, <2>2 DEF Found
  <2>3. CASE Len(dlq') = Len(dlq)
    <3>1. DOMAIN dlq' = DOMAIN dlq /\ \A i \in DOMAIN dlq : dlq'[i] = dlq[i]
      BY <1>0, <2>1, <2>3, TrimmedPrefix
    <3> QED
      BY <2>3, <3>1 DEF Found, Members
  <2> QED
    BY <1>0, <2>1, <2>2, <2>3, TrimmedLen
<1> QED
  BY <1>0, <1>1, <1>2, <1>3, IndexStep, WhoMovesIndex DEF vars

\* An attempt gets past the callback with no retry left only by saving.
LEMMA BuryingStep ==
  ASSUME HorseTypeOK, CallbacksRun, NEW w \in Workers, WorkerStep(w), Active(w)',
         pc'[w] \in {"trim", "demote", "settle"}
  PROVE  /\ Active(w) /\ job'[w] = job[w]
         /\ \/ pc[w] \in {"trim", "demote", "settle"}
            \/ pc[w] = "raise" /\ (left[job[w]] > 0 \/ SaveDeadLetter(w))
         /\ rq' = rq /\ left' = left
<1> USE DEF HorseTypeOK, Goto, horse, queue, Active, CallbacksRun
<1>1. CASE Load(w) \/ Begin(w) \/ EndLoad(w) \/ Infer(w) \/ MarkRaises(w)
  BY <1>1 DEF Load, Begin, EndLoad, Infer, MarkRaises
<1>2. CASE \/ InferRaises(w) \/ Write(w) \/ Cleanup(w) \/ Unwind(w)
           \/ PersistRaises(w) \/ BlameRaises(w) \/ TimeoutEscapes(w)
  BY <1>2 DEF InferRaises, AfterInferError, Write, Cleanup, Unwind, PersistRaises,
     BlameRaises, TimeoutEscapes
<1>3. CASE Claim(w) \/ Count(w) \/ Blame(w) \/ PersistSwallowed(w)
  BY <1>3 DEF Claim, Count, Blame, PersistSwallowed, NextItem
<1>4. CASE KeepAttempt(w) \/ SaveDeadLetter(w)
  BY <1>4 DEF KeepAttempt, SaveDeadLetter, RetriesLeft
<1>5. CASE TrimDeadLetters(w) \/ Demote(w) \/ DemoteRaises(w)
  BY <1>5 DEF TrimDeadLetters, Demote, DemoteRaises
<1>6. CASE Return(w) \/ Settle(w) \/ Kill(w)
  BY <1>6 DEF Return, Settle, Kill, Leave
<1>7. CASE Abandon(w)
  BY <1>7 DEF Abandon
<1>8. ASSUME NEW j \in Jobs, Take(w, j) PROVE pc'[w] = "load"
  BY <1>8 DEF Take
<1> QED
  BY <1>1, <1>2, <1>3, <1>4, <1>5, <1>6, <1>7, <1>8 DEF WorkerStep, TaskStep, HorseFault

\* A job enters the failed registry, or loses a retry, only through an attempt.
LEMMA FailingStep ==
  ASSUME Typed, CallbacksRun, Next, NEW j \in Jobs,
         (rq'[j] = "failed" /\ rq[j] # "failed") \/ left'[j] # left[j]
  PROVE  \E w \in Workers :
           /\ WorkerStep(w) /\ Active(w) /\ job[w] = j /\ FailJob(j)
           /\ pc[w] = "settle" \/ left[j] > 0
<1> USE DEF queue
<1>0. /\ rq \in [Jobs -> Places] /\ left \in [Jobs -> 0..MaxRetries] /\ HorseTypeOK
  BY DEF Typed, TypeOK, QueueTypeOK
<1>1. ASSUME NEW i \in Jobs, \/ Enqueue(i) \/ Store(i) \/ StoreLost(i) \/ Requeue(i)
                             \/ Deliver(i) \/ Reschedule(i)
      PROVE  FALSE
  BY <1>0, <1>1 DEF Enqueue, Store, StoreLost, Requeue, Deliver, Take, Reschedule
<1>2. ASSUME NEW w \in Workers, TaskStep(w)
      PROVE  Active(w) /\ job[w] = j /\ FailJob(j) /\ pc[w] = "settle"
  <2>1. CASE Settle(w)
    <3>1. pc[w] = "settle" /\ job[w] \in Jobs
      BY <1>0, <2>1 DEF Settle, HorseTypeOK
    <3>2. ~zombie[w] /\ FailJob(job[w])
      BY <2>1 DEF Settle
    <3>3. job[w] = j
      BY <1>0, <3>1, <3>2 DEF FailJob
    <3> QED
      BY <3>1, <3>2, <3>3 DEF Active
  <2>2. CASE Return(w)
    BY <1>0, <2>2 DEF Return
  <2> QED
    BY <1>2, <2>1, <2>2 DEF TaskStep, Load, Begin, EndLoad, Infer, InferRaises, Claim,
       Write, Count, Blame, Cleanup, Unwind, KeepAttempt, SaveDeadLetter,
       TrimDeadLetters, Demote
<1>3. ASSUME NEW w \in Workers, HorseFault(w)
      PROVE  Active(w) /\ job[w] = j /\ FailJob(j) /\ left[j] > 0
  <2>1. Abandon(w)
    BY <1>3 DEF HorseFault, MarkRaises, PersistSwallowed, PersistRaises, BlameRaises,
       TimeoutEscapes, DemoteRaises, Kill, CallbacksRun
  <2>2. Active(w) /\ FailJob(job[w]) /\ left[job[w]] > 0 /\ job[w] \in Jobs
    BY <1>0, <2>1 DEF Abandon, Active, HorseTypeOK
  <2>3. job[w] = j
    BY <1>0, <2>2 DEF FailJob
  <2> QED
    BY <2>2, <2>3
<1>4. CASE ExpireCurrent
  BY <1>4 DEF ExpireCurrent
<1> QED
  BY <1>1, <1>2, <1>3, <1>4 DEF Next, WorkerStep

LEMMA StepBuried ==
  ASSUME CallbacksRun
  PROVE  Typed /\ FinalInv /\ BuriedInv /\ [Next]_vars => BuriedInv'
<1> SUFFICES ASSUME Typed, FinalInv, BuriedInv, [Next]_vars PROVE BuriedInv'
  OBVIOUS
<1>0. /\ rq \in [Jobs -> Places] /\ left \in [Jobs -> 0..MaxRetries] /\ HorseTypeOK
      /\ \A w \in Workers : Active(w) => job[w] \in Jobs
      /\ \A j \in Jobs : Found(j) => Found(j)'
  BY FoundStays DEF Typed, TypeOK, QueueTypeOK, HorseTypeOK, Active
<1>1. CASE UNCHANGED vars
  BY <1>1 DEF vars, BuriedInv, ExhaustedIsDeadLettered, Active, Found, Members
<1>2. CASE Next
  <2>1. ExhaustedIsDeadLettered'
    <3> SUFFICES ASSUME NEW j \in Jobs, rq'[j] = "failed" PROVE Found(j)'
      BY DEF ExhaustedIsDeadLettered, Found
    <3>1. CASE rq[j] = "failed"
      BY <1>0, <3>1 DEF BuriedInv, ExhaustedIsDeadLettered, Found
    <3>2. CASE rq[j] # "failed"
      <4>1. PICK w \in Workers : /\ Active(w) /\ job[w] = j /\ FailJob(j)
                                 /\ pc[w] = "settle" \/ left[j] > 0
        BY <1>2, <3>2, FailingStep
      <4>2. ~(left[j] > 0)
        BY <1>0, <4>1 DEF FailJob
      <4>3. left[j] = 0 /\ pc[w] = "settle"
        BY <1>0, <4>1, <4>2, BoundsAssumption
      <4> QED
        BY <1>0, <4>1, <4>3 DEF BuriedInv
    <3> QED
      BY <3>1, <3>2
  <2>2. ASSUME NEW v \in Workers, Active(v)', pc'[v] \in {"trim", "demote", "settle"},
               left'[job'[v]] = 0
        PROVE  Found(job[v])' /\ job'[v] = job[v]
    <3>1. CASE WorkerStep(v)
      <4>1. /\ Active(v) /\ job'[v] = job[v] /\ left' = left
            /\ \/ pc[v] \in {"trim", "demote", "settle"}
               \/ pc[v] = "raise" /\ (left[job[v]] > 0 \/ SaveDeadLetter(v))
        BY <1>0, <2>2, <3>1, BuryingStep
      <4>2. CASE pc[v] \in {"trim", "demote", "settle"}
        <5>1. Found(job[v])
          BY <2>2, <4>1, <4>2 DEF BuriedInv
        <5>2. \A j \in Jobs : Found(j) => j \in Members(dlq') \/ Len(dlq') >= DlqCap
          BY <1>0 DEF Found
        <5> QED
          BY <1>0, <4>1, <5>1, <5>2 DEF Found
      <4>3. CASE SaveDeadLetter(v)
        <5>1. dlq' = <<job[v]>> \o dlq /\ dlq \in Seq(Jobs) /\ job[v] \in Jobs
          BY <1>0, <4>1, <4>3
          DEF SaveDeadLetter, Bury, CallbacksRun, Typed, TypeOK, QueueTypeOK
        <5>2. 1 \in DOMAIN dlq' /\ dlq'[1] = job[v]
          BY <5>1
        <5> QED
          BY <4>1, <5>2 DEF Found, Members
      <4> QED
        BY <1>0, <2>2, <4>1, <4>2, <4>3
    <3>2. CASE ~WorkerStep(v)
      <4>1. pc'[v] = pc[v] /\ job'[v] = job[v] /\ zombie'[v] = zombie[v]
        <5>1. ASSUME NEW w \in Workers \ {v}, WorkerStep(w)
              PROVE  pc'[v] = pc[v] /\ job'[v] = job[v] /\ zombie'[v] = zombie[v]
          BY <1>0, <5>1, StepIsLocal DEF Local, HorseTypeOK
        <5> QED
          BY <1>2, <3>2, <5>1, WhoMoves DEF horse
      <4>2. Active(v) /\ job[v] \in Jobs
        BY <1>0, <2>2, <4>1 DEF Active
      <4>3. left'[job[v]] = left[job[v]]
        <5> SUFFICES ASSUME left'[job[v]] # left[job[v]] PROVE FALSE
          OBVIOUS
        <5>1. PICK w \in Workers : WorkerStep(w) /\ Active(w) /\ job[w] = job[v]
          BY <1>2, <4>2, FailingStep
        <5>2. w = v
          BY <4>2, <5>1 DEF FinalInv
        <5> QED
          BY <3>2, <5>1, <5>2
      <4>4. Found(job[v])
        BY <2>2, <4>1, <4>2, <4>3 DEF BuriedInv
      <4> QED
        BY <1>0, <4>1, <4>2, <4>4 DEF Found
    <3> QED
      BY <3>1, <3>2
  <2> QED
    BY <2>1, <2>2 DEF BuriedInv, Found
<1> QED
  BY <1>1, <1>2

\* While work-horses live and Redis answers, a job in the failed registry is on
\* the dead-letter list, or the list is full.
THEOREM ExhaustedJobsAreFound ==
  ASSUME "kill" \notin Faults, "redis" \notin Faults
  PROVE  Spec => []ExhaustedIsDeadLettered
<1>1. Init => FinalInv /\ BuriedInv
  BY DEF Init, FinalInv, DeadLetterIsFinal, Active, BuriedInv, ExhaustedIsDeadLettered
<1>2. BuriedInv => ExhaustedIsDeadLettered
  BY DEF BuriedInv
<1>3. Typed /\ FinalInv /\ BuriedInv /\ [Next]_vars => BuriedInv'
  BY StepBuried DEF CallbacksRun
<1> QED
  BY <1>1, <1>2, <1>3, StepFinal, AlwaysTyped, PTL DEF Spec

-----------------------------------------------------------------------------
(* Completed events.  Without abandoned attempts and with a worker never *)
(* ahead of the API's initial writes, an event has one writer at a time:   *)
(* the API until its record is stored, then its job's only attempt.  That  *)
(* writer has seen that the event is not completed.                        *)

\* Attempts are not given up while they run and do not start early.
OneAtATime == "stall" \notin Faults /\ "overtake" \notin Faults

\* No event is in two jobs' payloads.
Unshared == \A i, j \in Jobs : i # j => EventsOf(i) \cap EventsOf(j) = {}

\* Jobs RQ knows share no event.
Apart ==
    \A i, j \in Jobs : i # j /\ rq[i] # "absent" /\ rq[j] # "absent"
                         => EventsOf(i) \cap EventsOf(j) = {}

OwnEvents(w) ==
    /\ \A i \in DOMAIN held[w] : held[w][i].event \in EventsOf(job[w])
    /\ \A i \in DOMAIN todo[w] : todo[w][i] \in EventsOf(job[w])

Waiting(j) ==
    /\ \A i \in DOMAIN unstored[j] : /\ unstored[j][i] \in EventsOf(j)
                                     /\ record[unstored[j][i]].status \in {"none", "queued"}
    /\ unstored[j] # <<>> => rq[j] = "queued"

WriterInv ==
    /\ \A w \in Workers : ~zombie[w]
    /\ \A w \in Workers : IF pc[w] = "idle" THEN held[w] = <<>> ELSE OwnEvents(w)
    /\ \A j \in Jobs : Waiting(j)
    /\ \A e \in Events : record[e].status # "none" =>
                            \E j \in Jobs : e \in EventsOf(j) /\ rq[j] # "absent"
    /\ \A w \in Workers : pc[w] = "begin" => record[Loaded(w).event].status # "completed"

LEMMA OwnStep ==
  ASSUME Typed, NEW w \in Workers, WorkerStep(w),
         IF pc[w] = "idle" THEN held[w] = <<>> ELSE OwnEvents(w)
  PROVE  IF pc'[w] = "idle" THEN held'[w] = <<>> ELSE OwnEvents(w)'
<1> USE DEF queue, redis, Goto
<1>0. /\ HorseTypeOK /\ pc \in [Workers -> Steps] /\ job \in [Workers -> Jobs \cup {"none"}]
      /\ todo \in [Workers -> Seq(Events)] /\ held \in [Workers -> Seq(Items)]
      /\ held[w] \in Seq(Items) /\ todo[w] \in Seq(Events)
      /\ Shape
  BY DEF Typed, TypeOK, HorseTypeOK
<1>1. CASE UNCHANGED <<job, todo, held>> /\ pc[w] # "idle" /\ pc'[w] # "idle"
  BY <1>1 DEF OwnEvents
<1>2. ASSUME NEW j \in Jobs, Take(w, j) PROVE pc'[w] = "load" /\ OwnEvents(w)'
  <2>1. pc[w] = "idle" /\ job'[w] = j /\ todo'[w] = Payload[j] /\ held'[w] = <<>>
        /\ pc'[w] = "load"
    BY <1>0, <1>2 DEF Take
  <2>2. \A i \in DOMAIN Payload[j] : Payload[j][i] \in EventsOf(j)
    BY DEF EventsOf, Members
  <2> QED
    BY <2>1, <2>2 DEF OwnEvents
<1>3. ASSUME Load(w) PROVE pc'[w] # "idle" /\ OwnEvents(w)'
  <2> DEFINE m == [event |-> Head(todo[w]), key |-> record[Head(todo[w])].key]
  <2>1. /\ todo[w] # <<>> /\ job' = job /\ OwnEvents(w) /\ pc'[w] # "idle"
        /\ \/ todo' = [todo EXCEPT ![w] = Tail(@)] /\ held' = held
           \/ held' = [held EXCEPT ![w] = Append(@, m)] /\ todo' = todo
    BY <1>0, <1>3 DEF Load
  <2>2. m.event = todo[w][1] /\ 1 \in DOMAIN todo[w]
    BY <1>0, <2>1
  <2> HIDE DEF m
  <2>3. m.event \in EventsOf(job[w])
    BY <2>1, <2>2 DEF OwnEvents
  <2>4. CASE todo' = [todo EXCEPT ![w] = Tail(@)] /\ held' = held
    BY <1>0, <2>1, <2>4 DEF OwnEvents
  <2>5. CASE held' = [held EXCEPT ![w] = Append(@, m)] /\ todo' = todo
    <3>1. held'[w] = Append(held[w], m)
      BY <1>0, <2>5
    <3>2. m \in Items
      BY <1>0, <2>1, HeadTail DEF m, Items, Typed, TypeOK, RedisTypeOK, Record
    <3>3. \A i \in DOMAIN held'[w] :
              held'[w][i] = m \/ (i \in DOMAIN held[w] /\ held'[w][i] = held[w][i])
      BY <1>0, <3>1, <3>2
    <3> QED
      BY <2>1, <2>3, <2>5, <3>3 DEF OwnEvents
  <2> QED
    BY <2>1, <2>4, <2>5
<1>4. ASSUME Begin(w) PROVE pc'[w] # "idle" /\ OwnEvents(w)'
  BY <1>0, <1>4 DEF Begin, OwnEvents, Shape, Working
<1>5. ASSUME MarkRaises(w) PROVE pc'[w] # "idle" /\ OwnEvents(w)'
  <2>1. /\ pc[w] \in {"load", "begin"} /\ pc'[w] # "idle" /\ todo[w] # <<>> /\ job' = job
        /\ todo'[w] = Tail(todo[w])
        /\ \/ held' = held
           \/ pc[w] = "begin" /\ held'[w] = SubSeq(held[w], 1, Len(held[w]) - 1)
    BY <1>0, <1>5 DEF MarkRaises, Shape, Working
  <2>2. \A i \in DOMAIN todo'[w] : i + 1 \in DOMAIN todo[w] /\ todo'[w][i] = todo[w][i + 1]
    BY <1>0, <2>1
  <2>3. \A i \in DOMAIN held'[w] : i \in DOMAIN held[w] /\ held'[w][i] = held[w][i]
    <3>1. CASE held'[w] = SubSeq(held[w], 1, Len(held[w]) - 1)
      <4>1. Len(held[w]) \in Nat
        BY <1>0
      <4> QED
        BY <1>0, <3>1, <4>1
    <3> QED
      BY <2>1, <3>1
  <2> QED
    BY <2>1, <2>2, <2>3 DEF OwnEvents
<1>6. ASSUME Claim(w) \/ Count(w) \/ Blame(w) \/ PersistSwallowed(w)
      PROVE  pc'[w] # "idle" /\ OwnEvents(w)'
  <2>1. pc[w] \in Working /\ pc'[w] # "idle" /\ todo' = todo /\ job' = job /\ (held' = held \/ NextItem(w))
    BY <1>0, <1>6 DEF Claim, Count, Blame, PersistSwallowed, NextItem, Working
  <2>2. held[w] # <<>> /\ (held' = held \/ held'[w] = Tail(held[w]))
    BY <1>0, <2>1 DEF NextItem, Shape
  <2>3. CASE held' = held
    BY <2>1, <2>3 DEF OwnEvents, Working
  <2>4. CASE held'[w] = Tail(held[w])
    <3>1. \A i \in DOMAIN held'[w] : i + 1 \in DOMAIN held[w] /\ held'[w][i] = held[w][i + 1]
      BY <1>0, <2>2, <2>4
    <3> QED
      BY <2>1, <3>1 DEF OwnEvents, Working
  <2> QED
    BY <2>2, <2>3, <2>4
<1>7. CASE Return(w) \/ Settle(w) \/ Kill(w)
  BY <1>0, <1>7 DEF Return, Settle, Kill, Leave
<1>8. CASE EndLoad(w) \/ Infer(w) \/ InferRaises(w) \/ Write(w) \/ Cleanup(w) \/ Unwind(w)
  BY <1>0, <1>1, <1>8 DEF EndLoad, Infer, InferRaises, AfterInferError, Write, Cleanup,
     Unwind
<1>9. CASE PersistRaises(w) \/ BlameRaises(w) \/ TimeoutEscapes(w)
  BY <1>0, <1>1, <1>9 DEF PersistRaises, BlameRaises, TimeoutEscapes
<1>10. CASE \/ KeepAttempt(w) \/ SaveDeadLetter(w) \/ TrimDeadLetters(w)
            \/ Demote(w) \/ DemoteRaises(w) \/ Abandon(w)
  BY <1>0, <1>1, <1>10 DEF KeepAttempt, SaveDeadLetter, TrimDeadLetters, Demote, DemoteRaises,
     Abandon
<1> QED
  BY <1>2, <1>3, <1>4, <1>5, <1>6, <1>7, <1>8, <1>9, <1>10
  DEF WorkerStep, TaskStep, HorseFault

\* The job_id a work-horse writes is one it read.
OwnKey(w, e, key) ==
    key = record[e].key \/ \E i \in DOMAIN held[w] : held[w][i] = [event |-> e, key |-> key]

\* Who writes a record, and what.
LEMMA Writers ==
  ASSUME Typed, Next, NEW e \in Events, record'[e] # record[e],
         \A w \in Workers : pc[w] # "idle" => OwnEvents(w)
  PROVE  \/ \E j \in Jobs : /\ Store(j) /\ e = Head(unstored[j])
                            /\ record'[e].status = "queued" /\ record'[e].key = j
         \/ \E w \in Workers :
              /\ WorkerStep(w) /\ pc[w] # "idle" /\ e \in EventsOf(job[w])
              /\ record'[e].status \notin {"none", "queued"}
              /\ record'[e].status = "processing" => pc[w] = "begin" /\ e = Loaded(w).event
              /\ record'[e].status = "failed" => pc[w] = "blame" /\ e = Item(w).event
              /\ record'[e].status = "dead_letter"
                   => pc[w] = "demote" /\ e = Payload[job[w]][1]
              /\ OwnKey(w, e, record'[e].key)
<1> USE DEF redis, SetRecord
<1>0. record \in [Events -> Record] /\ HorseTypeOK /\ Shape
  BY DEF Typed, TypeOK, RedisTypeOK
<1>1. ASSUME NEW j \in Jobs, Store(j)
      PROVE  e = Head(unstored[j]) /\ record'[e].status = "queued" /\ record'[e].key = j
  BY <1>0, <1>1 DEF Store
<1>2. ASSUME NEW j \in Jobs, \/ Enqueue(j) \/ StoreLost(j) \/ Requeue(j)
                             \/ Deliver(j) \/ Reschedule(j)
      PROVE  FALSE
  BY <1>2 DEF Enqueue, StoreLost, Requeue, Deliver, Take, Reschedule
<1>3. ASSUME NEW w \in Workers, pc[w] \in Working
      PROVE  /\ Item(w).event \in EventsOf(job[w]) /\ Loaded(w).event \in EventsOf(job[w])
             /\ OwnKey(w, Item(w).event, Item(w).key)
             /\ OwnKey(w, Loaded(w).event, Loaded(w).key)
  <2>1. held[w] \in Seq(Items) /\ held[w] # <<>> /\ OwnEvents(w)
    BY <1>0, <1>3 DEF HorseTypeOK, Shape, Working
  <2>2. 1 \in DOMAIN held[w] /\ Len(held[w]) \in DOMAIN held[w] /\ Item(w) = held[w][1]
    BY <2>1 DEF Item
  <2>3. \A m \in Items : m = [event |-> m.event, key |-> m.key]
    BY DEF Items
  <2>4. \A i \in DOMAIN held[w] : OwnKey(w, held[w][i].event, held[w][i].key)
    BY <2>1, <2>3 DEF OwnKey
  <2> QED
    BY <2>1, <2>2, <2>4 DEF OwnEvents, Loaded
<1> DEFINE Writes(w) == /\ pc[w] # "idle" /\ e \in EventsOf(job[w])
                        /\ record'[e].status \notin {"none", "queued"}
                        /\ record'[e].status = "processing"
                             => pc[w] = "begin" /\ e = Loaded(w).event
                        /\ record'[e].status = "failed" => pc[w] = "blame" /\ e = Item(w).event
                        /\ record'[e].status = "dead_letter"
                             => pc[w] = "demote" /\ e = Payload[job[w]][1]
                        /\ OwnKey(w, e, record'[e].key)
<1>4. ASSUME NEW w \in Workers, TaskStep(w) PROVE Writes(w)
  <2>1. CASE Begin(w)
    <3>1. pc[w] = "begin" /\ SetRecord(Loaded(w).event, "processing", Loaded(w).key)
      BY <2>1 DEF Begin
    <3>2. /\ e = Loaded(w).event /\ record'[e].status = "processing"
          /\ record'[e].key = Loaded(w).key
      BY <1>0, <3>1
    <3> QED
      BY <1>3, <3>1, <3>2 DEF Working
  <2>2. CASE Write(w) \/ Blame(w)
    <3>1. \/ pc[w] = "write" /\ SetRecord(Item(w).event, "completed", Item(w).key)
          \/ pc[w] = "blame" /\ SetRecord(Item(w).event, "failed", Item(w).key)
      BY <2>2 DEF Write, Blame
    <3>2. /\ e = Item(w).event /\ record'[e].key = Item(w).key
          /\ record'[e].status = IF pc[w] = "write" THEN "completed" ELSE "failed"
          /\ pc[w] \in {"write", "blame"}
      BY <1>0, <3>1
    <3> QED
      BY <1>3, <3>1, <3>2 DEF Working
  <2>3. CASE Demote(w)
    <3>1. /\ pc[w] = "demote"
          /\ SetRecord(Payload[job[w]][1], "dead_letter", record[Payload[job[w]][1]].key)
      BY <2>3 DEF Demote
    <3>2. /\ e = Payload[job[w]][1] /\ record'[e].status = "dead_letter"
          /\ record'[e].key = record[e].key
      BY <1>0, <3>1
    <3>3. job[w] \in Jobs
      BY <1>0, <3>1 DEF HorseTypeOK
    <3>4. 1 \in DOMAIN Payload[job[w]]
      BY <3>3, PayloadType
    <3> QED
      BY <3>1, <3>2, <3>4 DEF EventsOf, Members, OwnKey
  <2> QED
    BY <1>4, <2>1, <2>2, <2>3 DEF TaskStep, Load, EndLoad, Infer, InferRaises, Claim,
       Count, Cleanup, Unwind, KeepAttempt, SaveDeadLetter, TrimDeadLetters, Return, Settle
<1>5. ASSUME NEW w \in Workers, HorseFault(w) PROVE Writes(w)
  <2>1. CASE PersistSwallowed(w)
    <3>1. pc[w] = "write" /\ SetRecord(Item(w).event, "completed", Item(w).key)
      BY <2>1 DEF PersistSwallowed
    <3>2. /\ e = Item(w).event /\ record'[e].status = "completed"
          /\ record'[e].key = Item(w).key
      BY <1>0, <3>1
    <3> QED
      BY <1>3, <3>1, <3>2 DEF Working
  <2>2. CASE MarkRaises(w)
    <3>1. pc[w] = "begin" /\ SetRecord(Loaded(w).event, "processing", Loaded(w).key)
      BY <2>2 DEF MarkRaises
    <3>2. /\ e = Loaded(w).event /\ record'[e].status = "processing"
          /\ record'[e].key = Loaded(w).key
      BY <1>0, <3>1
    <3> QED
      BY <1>3, <3>1, <3>2 DEF Working
  <2>3. CASE BlameRaises(w)
    <3>1. pc[w] = "blame" /\ SetRecord(Item(w).event, "failed", Item(w).key)
      BY <2>3 DEF BlameRaises
    <3>2. /\ e = Item(w).event /\ record'[e].status = "failed"
          /\ record'[e].key = Item(w).key
      BY <1>0, <3>1
    <3> QED
      BY <1>3, <3>1, <3>2 DEF Working
  <2> QED
    BY <1>5, <2>1, <2>2, <2>3 DEF HorseFault, PersistRaises, TimeoutEscapes,
       DemoteRaises, Kill, Abandon
<1>6. CASE ExpireCurrent
  BY <1>6 DEF ExpireCurrent
<1> QED
  BY <1>1, <1>2, <1>4, <1>5, <1>6 DEF Next, WorkerStep

\* RQ forgets no job here, and only a worker that takes a job off the queue
\* keeps it from being queued.
LEMMA PlacesStep ==
  ASSUME Typed, [Next]_vars, NEW j \in Jobs, rq[j] # "absent",
         \A w \in Workers : Active(w) => rq[job[w]] = "started"
  PROVE  /\ rq'[j] # "absent"
         /\ rq[j] = "queued" => rq'[j] = "queued" \/ \E w \in Workers : Take(w, j)
<1> USE DEF queue, Active
<1>0. /\ rq \in [Jobs -> Places]
      /\ \A w \in Workers : pc[w] # "idle" => job[w] \in Jobs
  BY DEF Typed, TypeOK, QueueTypeOK, HorseTypeOK
<1>1. ASSUME NEW i \in Jobs, NEW w \in Workers, Take(w, i)
      PROVE  rq'[j] # "absent" /\ (i = j \/ rq'[j] = rq[j])
  BY <1>0, <1>1 DEF Take
<1>2. ASSUME NEW i \in Jobs, Enqueue(i) \/ Store(i) \/ StoreLost(i) \/ Requeue(i) \/ Reschedule(i)
      PROVE  rq'[j] \in {rq[j], "queued"}
  BY <1>0, <1>2 DEF Enqueue, Store, StoreLost, Requeue, Reschedule
<1>3. ASSUME NEW w \in Workers, pc[w] # "idle",
             \/ ~zombie[w] /\ FailJob(job[w])
             \/ rq' = IF zombie[w] THEN rq ELSE [rq EXCEPT ![job[w]] = "finished"]
      PROVE  rq'[j] # "absent" /\ (rq[j] = "queued" => rq'[j] = "queued")
  BY <1>0, <1>3 DEF FailJob
<1>4. ASSUME NEW w \in Workers, TaskStep(w) \/ HorseFault(w)
      PROVE  rq'[j] # "absent" /\ (rq[j] = "queued" => rq'[j] = "queued")
  <2>1. CASE Return(w)
    BY <1>3, <2>1 DEF Return
  <2>2. CASE Settle(w) \/ Kill(w) \/ Abandon(w)
    BY <1>0, <1>3, <2>2 DEF Settle, Kill, Abandon
  <2> QED
    BY <1>4, <2>1, <2>2 DEF TaskStep, HorseFault, Load, Begin, EndLoad, Infer,
       InferRaises, Claim, Write, Count, Blame, Cleanup, Unwind, KeepAttempt,
       SaveDeadLetter, TrimDeadLetters, Demote, MarkRaises, PersistSwallowed,
       PersistRaises, BlameRaises, TimeoutEscapes, DemoteRaises
<1>5. CASE UNCHANGED vars \/ ExpireCurrent
  BY <1>5 DEF vars, ExpireCurrent
<1> QED
  BY <1>1, <1>2, <1>4, <1>5 DEF Next, Deliver

\* The writer of an event that an attempt has is that attempt.
LEMMA OwnWriter ==
  ASSUME Typed, FinalInv, WriterInv, Apart, Next,
         NEW e \in Events, record'[e] # record[e],
         NEW j \in Jobs, e \in EventsOf(j), rq[j] = "started"
  PROVE  \E w \in Workers : /\ WorkerStep(w) /\ pc[w] # "idle" /\ job[w] = j
<1>0. /\ unstored \in [Jobs -> Seq(Events)]
      /\ \A w \in Workers : pc[w] # "idle" => job[w] \in Jobs /\ rq[job[w]] = "started"
      /\ \A w \in Workers : pc[w] # "idle" => OwnEvents(w)
  BY DEF Typed, TypeOK, RedisTypeOK, HorseTypeOK, WriterInv, FinalInv, Active
<1>1. CASE \E i \in Jobs : Store(i) /\ e = Head(unstored[i])
  <2>1. PICK i \in Jobs : Store(i) /\ e = Head(unstored[i])
    BY <1>1
  <2>2. unstored[i] # <<>>
    BY <2>1 DEF Store
  <2>3. 1 \in DOMAIN unstored[i] /\ e = unstored[i][1]
    BY <1>0, <2>1, <2>2
  <2>4. rq[i] = "queued" /\ e \in EventsOf(i)
    BY <2>2, <2>3 DEF WriterInv, Waiting
  <2> QED
    BY <2>4 DEF Apart
<1>2. CASE \E w \in Workers : WorkerStep(w) /\ pc[w] # "idle" /\ e \in EventsOf(job[w])
  BY <1>0, <1>2 DEF Apart
<1> QED
  BY <1>0, <1>1, <1>2, Writers

LEMMA StepWriter ==
  ASSUME OneAtATime
  PROVE  Typed /\ FinalInv /\ WriterInv /\ Apart /\ Apart' /\ [Next]_vars => WriterInv'
<1> SUFFICES ASSUME Typed, FinalInv, WriterInv, Apart, Apart', [Next]_vars PROVE WriterInv'
  OBVIOUS
<1>0. /\ HorseTypeOK /\ Shape /\ record \in [Events -> Record] /\ rq \in [Jobs -> Places]
      /\ unstored \in [Jobs -> Seq(Events)]
      /\ zombie \in [Workers -> BOOLEAN]
      /\ \A w \in Workers : pc[w] # "idle" => job[w] \in Jobs /\ Active(w)
      /\ \A w \in Workers : Active(w) => rq[job[w]] = "started"
      /\ \A w \in Workers : pc[w] # "idle" => OwnEvents(w)
  BY DEF Typed, TypeOK, RedisTypeOK, QueueTypeOK, HorseTypeOK, WriterInv, FinalInv, Active
<1>1. CASE UNCHANGED vars
  BY <1>1 DEF vars, WriterInv, OwnEvents, Waiting, Loaded
<1>2. CASE Next
  <2>1. ASSUME NEW e \in Events, record'[e] # record[e], NEW j \in Jobs,
               e \in EventsOf(j), rq[j] = "started"
        PROVE  \E w \in Workers : /\ WorkerStep(w) /\ pc[w] # "idle" /\ job[w] = j
    BY <1>2, <2>1, OwnWriter
  <2>2. \A w \in Workers : ~zombie'[w]
    <3>1. ASSUME NEW w \in Workers, WorkerStep(w) PROVE ~zombie'[w]
      BY <1>0, <3>1 DEF WriterInv, OneAtATime, HorseTypeOK, horse, queue, WorkerStep,
         TaskStep, HorseFault, Take, Load, Begin, EndLoad, Infer, InferRaises, Claim, Write,
         Count, Blame, Cleanup, Unwind, KeepAttempt, SaveDeadLetter, TrimDeadLetters,
         Demote, Return, Settle, MarkRaises, PersistSwallowed, PersistRaises, BlameRaises,
         TimeoutEscapes, DemoteRaises, Kill, Abandon, Leave
    <3>2. ASSUME NEW w \in Workers, WorkerStep(w), NEW v \in Workers \ {w} PROVE ~zombie'[v]
      BY <1>0, <3>2, StepIsLocal DEF Local, WriterInv
    <3> QED
      BY <1>2, <3>1, <3>2, WhoMoves DEF horse, WriterInv
  <2>3. ASSUME NEW w \in Workers
        PROVE  IF pc'[w] = "idle" THEN held'[w] = <<>> ELSE OwnEvents(w)'
    <3>1. IF pc[w] = "idle" THEN held[w] = <<>> ELSE OwnEvents(w)
      BY DEF WriterInv
    <3>2. CASE WorkerStep(w)
      BY <3>1, <3>2, OwnStep
    <3>3. CASE UNCHANGED horse
      BY <3>1, <3>3 DEF horse, OwnEvents
    <3>4. ASSUME NEW v \in Workers \ {w}, WorkerStep(v)
          PROVE  pc'[w] = pc[w] /\ job'[w] = job[w] /\ todo'[w] = todo[w] /\ held'[w] = held[w]
      BY <1>0, <3>4, StepIsLocal DEF Local, HorseTypeOK
    <3>5. CASE \E v \in Workers \ {w} : WorkerStep(v)
      BY <3>1, <3>4, <3>5 DEF OwnEvents
    <3> QED
      BY <1>2, <3>2, <3>3, <3>5, WhoMoves
  <2>4. ASSUME NEW j \in Jobs PROVE Waiting(j)'
    <3>0. Waiting(j)
      BY DEF WriterInv
    <3>1. CASE Enqueue(j)
      <4>1. rq[j] = "absent" /\ rq' = [rq EXCEPT ![j] = "queued"]
            /\ unstored'[j] = Payload[j] /\ record' = record
        BY <1>0, <3>1 DEF Enqueue
      <4>2. rq'[j] = "queued" /\ \A i \in Jobs \ {j} : rq'[i] = rq[i]
        BY <1>0, <4>1
      <4>3. ASSUME NEW e \in EventsOf(j) PROVE record[e].status = "none"
        <5> SUFFICES ASSUME record[e].status # "none" PROVE FALSE
          OBVIOUS
        <5>1. e \in Events
          BY DEF EventsOf, Events
        <5>2. PICK i \in Jobs : e \in EventsOf(i) /\ rq[i] # "absent"
          BY <5>1 DEF WriterInv
        <5>3. i # j /\ rq'[i] # "absent" /\ rq'[j] # "absent"
          BY <4>1, <4>2, <5>2
        <5>4. EventsOf(i) \cap EventsOf(j) = {}
          BY <5>3 DEF Apart, EventsOf
        <5> QED
          BY <5>2, <5>4
      <4>4. \A i \in DOMAIN Payload[j] : Payload[j][i] \in EventsOf(j)
        BY DEF EventsOf, Members
      <4> QED
        BY <4>1, <4>2, <4>3, <4>4 DEF Waiting, EventsOf
    <3>2. CASE ~Enqueue(j)
      \* Either nothing changes, or one record has been stored, or the rest is lost.
      <4>1. /\ \A i \in DOMAIN unstored'[j] :
                  \E k \in DOMAIN unstored[j] : unstored'[j][i] = unstored[j][k]
            /\ unstored'[j] # <<>> => unstored[j] # <<>>
        <5>1. CASE unstored'[j] = unstored[j]
          BY <5>1
        <5>2. CASE unstored[j] # <<>> /\ unstored'[j] = Tail(unstored[j])
          BY <1>0, <5>2
        <5>3. CASE unstored'[j] = <<>>
          BY <5>3
        <5>4. ASSUME NEW i \in Jobs, \/ Store(i) \/ StoreLost(i) \/ (i # j /\ Enqueue(i))
                                     \/ Requeue(i) \/ Deliver(i) \/ Reschedule(i)
              PROVE  \/ unstored'[j] = unstored[j] \/ unstored'[j] = <<>>
                     \/ unstored[j] # <<>> /\ unstored'[j] = Tail(unstored[j])
          BY <1>0, <5>4 DEF Store, StoreLost, Enqueue, Requeue, Deliver, Take, Reschedule,
             redis
        <5>5. ASSUME NEW w \in Workers, TaskStep(w) \/ HorseFault(w)
              PROVE  unstored' = unstored
          BY <5>5 DEF redis, TaskStep, HorseFault, Load, Begin, EndLoad, Infer, InferRaises,
             Claim, Write, Count, Blame, Cleanup, Unwind, KeepAttempt, SaveDeadLetter,
             TrimDeadLetters, Demote, Return, Settle, MarkRaises, PersistSwallowed,
             PersistRaises, BlameRaises, TimeoutEscapes, DemoteRaises, Kill, Abandon
        <5> QED
          BY <1>2, <3>2, <5>1, <5>2, <5>3, <5>4, <5>5 DEF Next, ExpireCurrent
      <4>2. ASSUME NEW k \in DOMAIN unstored[j]
            PROVE  record'[unstored[j][k]].status \in {"none", "queued"}
        <5> DEFINE e == unstored[j][k]
        <5>1. /\ e \in Events /\ e \in EventsOf(j) /\ record[e].status \in {"none", "queued"}
              /\ rq[j] = "queued"
          BY <1>0, <3>0 DEF Waiting
        <5> HIDE DEF e
        <5>2. ASSUME NEW w \in Workers, pc[w] # "idle", e \in EventsOf(job[w])
              PROVE  FALSE
          <6>1. job[w] \in Jobs /\ rq[job[w]] = "started"
            BY <1>0, <5>2
          <6> QED
            BY <5>1, <5>2, <6>1 DEF Apart
        <5>3. record'[e].status \in {"none", "queued"}
          <6>1. CASE record'[e] = record[e]
            BY <5>1, <6>1
          <6>2. CASE record'[e] # record[e]
            BY <1>0, <1>2, <5>1, <5>2, <6>2, Writers
          <6> QED
            BY <6>1, <6>2
        <5> QED
          BY <5>3 DEF e
      <4>3. unstored'[j] # <<>> => rq'[j] = "queued"
        <5> SUFFICES ASSUME unstored'[j] # <<>>, rq'[j] # "queued" PROVE FALSE
          OBVIOUS
        <5>1. unstored[j] # <<>> /\ rq[j] = "queued"
          BY <3>0, <4>1 DEF Waiting
        <5>2. PICK w \in Workers : Take(w, j)
          BY <1>0, <5>1, PlacesStep
        <5> QED
          BY <5>1, <5>2 DEF Take, OneAtATime
      <4> QED
        BY <3>0, <4>1, <4>2, <4>3 DEF Waiting, EventsOf
    <3> QED
      BY <3>1, <3>2
  <2>5. ASSUME NEW e \in Events, record'[e].status # "none"
        PROVE  \E j \in Jobs : e \in EventsOf(j) /\ rq'[j] # "absent"
    <3>1. \E j \in Jobs : e \in EventsOf(j) /\ rq[j] # "absent"
      <4>1. CASE record'[e] = record[e]
        BY <2>5, <4>1 DEF WriterInv
      <4>2. CASE \E j \in Jobs : Store(j) /\ e = Head(unstored[j])
        <5>1. PICK j \in Jobs : Store(j) /\ e = Head(unstored[j])
          BY <4>2
        <5>2. unstored[j] # <<>>
          BY <5>1 DEF Store
        <5>3. 1 \in DOMAIN unstored[j] /\ e = unstored[j][1]
          BY <1>0, <5>1, <5>2
        <5> QED
          BY <5>2, <5>3 DEF WriterInv, Waiting
      <4>3. CASE \E w \in Workers : pc[w] # "idle" /\ e \in EventsOf(job[w])
        BY <1>0, <4>3
      <4> QED
        BY <1>0, <1>2, <4>1, <4>2, <4>3, Writers
    <3> QED
      BY <1>0, <3>1, PlacesStep
  <2>6. ASSUME NEW w \in Workers, pc'[w] = "begin"
        PROVE  record'[Loaded(w)'.event].status # "completed"
    <3>1. CASE WorkerStep(w)
      <4>1. Load(w) \/ UNCHANGED <<pc, held, record>>
        BY <1>0, <2>6, <3>1 DEF WriterInv, OneAtATime, HorseTypeOK, horse, queue, redis,
           Goto, WorkerStep, TaskStep, HorseFault, Take, Begin, EndLoad, Infer,
           InferRaises, AfterInferError, Claim, Write, Count, Blame, Cleanup, Unwind,
           KeepAttempt, SaveDeadLetter, TrimDeadLetters, Demote, Return, Settle,
           MarkRaises, PersistSwallowed, PersistRaises, BlameRaises, TimeoutEscapes,
           DemoteRaises, Kill, Abandon, Leave, NextItem
      <4>2. CASE UNCHANGED <<pc, held, record>>
        BY <2>6, <4>2 DEF WriterInv, Loaded
      <4>3. CASE Load(w)
        <5> DEFINE m == [event |-> Head(todo[w]), key |-> record[Head(todo[w])].key]
        <5>1. /\ ~AlreadyDone(Head(todo[w])) /\ todo[w] # <<>> /\ record' = record
              /\ held' = [held EXCEPT ![w] = Append(@, m)]
          BY <1>0, <2>6, <4>3 DEF Load, Goto, HorseTypeOK, redis
        <5>2. m \in Items
          BY <1>0, <5>1, HeadTail DEF HorseTypeOK, Record, Items
        <5>3. m.event = Head(todo[w])
          OBVIOUS
        <5> HIDE DEF m
        <5>4. held'[w] = Append(held[w], m) /\ held[w] \in Seq(Items)
          BY <1>0, <5>1 DEF HorseTypeOK
        <5>5. Loaded(w)' = m
          BY <5>2, <5>4 DEF Loaded
        <5> QED
          BY <5>1, <5>3, <5>5 DEF AlreadyDone
      <4> QED
        BY <4>1, <4>2, <4>3
    <3>2. CASE ~WorkerStep(w)
      <4>1. pc'[w] = pc[w] /\ held'[w] = held[w]
        <5>1. ASSUME NEW v \in Workers \ {w}, WorkerStep(v)
              PROVE  pc'[w] = pc[w] /\ held'[w] = held[w]
          BY <1>0, <5>1, StepIsLocal DEF Local, HorseTypeOK
        <5> QED
          BY <1>2, <3>2, <5>1, WhoMoves DEF horse
      <4>2. /\ pc[w] = "begin" /\ Loaded(w)' = Loaded(w)
            /\ record[Loaded(w).event].status # "completed"
        BY <2>6, <4>1 DEF WriterInv, Loaded
      <4> DEFINE e == Loaded(w).event
      <4>3. e \in Events /\ e \in EventsOf(job[w]) /\ job[w] \in Jobs /\ rq[job[w]] = "started"
        <5>1. held[w] \in Seq(Items) /\ held[w] # <<>> /\ OwnEvents(w)
          BY <1>0, <4>2 DEF HorseTypeOK, Shape, Working
        <5>2. Len(held[w]) \in DOMAIN held[w]
          BY <5>1
        <5> QED
          BY <1>0, <4>2, <5>1, <5>2, ItemType DEF OwnEvents, Loaded, Working
      <4> HIDE DEF e
      <4>4. record'[e] = record[e]
        <5> SUFFICES ASSUME record'[e] # record[e] PROVE FALSE
          OBVIOUS
        <5>1. PICK v \in Workers : WorkerStep(v) /\ pc[v] # "idle" /\ job[v] = job[w]
          BY <2>1, <4>3
        <5>2. v = w
          BY <1>0, <4>2, <5>1 DEF FinalInv
        <5> QED
          BY <3>2, <5>1, <5>2
      <4> QED
        BY <4>2, <4>4 DEF e
    <3> QED
      BY <3>1, <3>2
  <2> QED
    BY <2>2, <2>3, <2>4, <2>5, <2>6 DEF WriterInv
<1> QED
  BY <1>1, <1>2

LEMMA InitWriter == Init => WriterInv
  BY DEF Init, WriterInv, OwnEvents, Waiting

\* An attempt of the single-event task finds its event open until it claims it:
\* what a malformed reply makes it blame was not completed.
OpenUntilClaimed(w) ==
    /\ IsSingle(w) /\ pc[w] \in {"load", "begin", "infer"} =>
          /\ Len(held[w]) + Len(todo[w]) <= (IF pc[w] = "begin" THEN 2 ELSE 1)
          /\ held[w] # <<>> => record[Item(w).event].status # "completed"
    /\ pc[w] = "blame" /\ ~late[w] => record[Item(w).event].status # "completed"

\* Only a job without retries is dead-lettered.
OutOfRetries(w) == pc[w] \in {"trim", "demote"} => left[job[w]] = 0

OpenInv == \A w \in Workers : OpenUntilClaimed(w) /\ OutOfRetries(w)

LEMMA InitOpen == Init => OpenInv
  BY DEF Init, OpenInv, OpenUntilClaimed, OutOfRetries

\* The lengths of an attempt that has just been taken.
LEMMA NoneAndOne ==
  ASSUME NEW a, NEW b, a = 0, b = 1
  PROVE  a + b <= 1
  OBVIOUS

\* Its own steps.
LEMMA OpenStep ==
  ASSUME OneAtATime, Typed, WriterInv, NEW w \in Workers, WorkerStep(w), OpenUntilClaimed(w)
  PROVE  OpenUntilClaimed(w)'
<1> USE DEF queue, redis, horse, Goto
<1>0. /\ record \in [Events -> Record]
      /\ pc \in [Workers -> Steps] /\ job \in [Workers -> Jobs \cup {"none"}]
      /\ todo \in [Workers -> Seq(Events)] /\ held \in [Workers -> Seq(Items)]
      /\ late \in [Workers -> BOOLEAN]
      /\ held[w] \in Seq(Items) /\ todo[w] \in Seq(Events)
      /\ Shape
  BY DEF Typed, TypeOK, RedisTypeOK, HorseTypeOK
<1>1. CASE \E j \in Jobs : Take(w, j)
  <2>1. PICK j \in Jobs : Take(w, j)
    BY <1>1
  <2>2. /\ pc'[w] = "load" /\ job'[w] = j /\ todo'[w] = Payload[j] /\ held'[w] = <<>>
    BY <1>0, <2>1 DEF Take, WriterInv
  <2>3. j \in Single => Len(Payload[j]) = 1
    BY PayloadAssumption
  <2>4. held'[w] = <<>> /\ todo'[w] = Payload[j]
    BY <2>2
  <2>5. Len(<<>>) = 0
    OBVIOUS
  <2>6. j \in Single => Len(held'[w]) + Len(todo'[w]) <= 1
    <3> SUFFICES ASSUME j \in Single PROVE Len(held'[w]) + Len(todo'[w]) <= 1
      OBVIOUS
    <3>1. Len(held'[w]) = 0 /\ Len(todo'[w]) = 1
      BY <2>3, <2>4, <2>5, Zenon
    <3> QED
      BY <3>1, NoneAndOne
  <2> QED
    BY <2>2, <2>6 DEF OpenUntilClaimed, IsSingle
<1>2. CASE Load(w)
  <2> DEFINE m == [event |-> Head(todo[w]), key |-> record[Head(todo[w])].key]
  <2>1. /\ pc[w] = "load" /\ todo[w] # <<>> /\ UNCHANGED <<job, record>>
        /\ Len(todo[w]) \in Nat \ {0} /\ Len(held[w]) \in Nat
    BY <1>0, <1>2 DEF Load
  <2>2. CASE ~IsSingle(w)
    BY <1>0, <1>2, <2>1, <2>2 DEF Load, OpenUntilClaimed, IsSingle
  <2>3. CASE IsSingle(w) /\ AlreadyDone(Head(todo[w]))
    <3>1. pc'[w] = "return"
      BY <1>0, <1>2, <2>3 DEF Load
    <3> QED
      BY <3>1 DEF OpenUntilClaimed
  <2>4. CASE IsSingle(w) /\ ~AlreadyDone(Head(todo[w]))
    <3>1. /\ pc'[w] = "begin" /\ held' = [held EXCEPT ![w] = Append(@, m)] /\ todo' = todo
      BY <1>0, <1>2, <2>4 DEF Load
    <3>2. Len(held[w]) = 0 /\ held[w] = <<>>
      <4>1. Len(held[w]) + Len(todo[w]) <= 1
        BY <2>1, <2>4 DEF OpenUntilClaimed
      <4> QED
        BY <1>0, <2>1, <4>1
    <3>3. m.event = Head(todo[w]) /\ record[m.event].status # "completed"
      BY <2>4 DEF AlreadyDone
    <3> HIDE DEF m
    <3>4. held'[w] = <<m>> /\ todo'[w] = todo[w]
      BY <1>0, <3>1, <3>2
    <3>5. Item(w)' = m /\ Len(held'[w]) = 1
      BY <3>4 DEF Item
    <3>6. Len(todo[w]) <= 1
      BY <2>1, <2>4, <3>2 DEF OpenUntilClaimed
    <3>7. Len(held'[w]) + Len(todo'[w]) <= 2
      BY <2>1, <3>4, <3>5, <3>6
    <3>8. record'[Item(w)'.event].status # "completed"
      BY <2>1, <3>3, <3>5
    <3>9. pc'[w] = "begin"
      BY <1>0, <3>1
    <3> QED
      BY <3>7, <3>8, <3>9 DEF OpenUntilClaimed
  <2> QED
    BY <2>2, <2>3, <2>4
<1>3. CASE Begin(w)
  <2>1. /\ pc[w] = "begin" /\ pc'[w] = "load" /\ UNCHANGED <<job, held>>
        /\ todo'[w] = Tail(todo[w]) /\ todo[w] # <<>> /\ held[w] # <<>>
        /\ record' = [record EXCEPT ![Loaded(w).event] =
                         [status |-> "processing", key |-> Loaded(w).key]]
    BY <1>0, <1>3 DEF Begin, SetRecord, Shape, Working
  <2>2. Len(todo'[w]) = Len(todo[w]) - 1 /\ Len(todo[w]) \in Nat
    BY <1>0, <2>1
  <2>3. \A e \in Events : record'[e].status = "completed" => record[e].status = "completed"
    BY <1>0, <2>1
  <2>4. Item(w).event \in Events
    BY <1>0, <2>1, ItemType DEF Working
  <2>5. Item(w)' = Item(w) /\ (IsSingle(w)' <=> IsSingle(w))
    BY <2>1 DEF Item, IsSingle
  <2>6. IsSingle(w) => /\ Len(held[w]) + Len(todo[w]) <= 2
                       /\ record[Item(w).event].status # "completed"
    BY <2>1 DEF OpenUntilClaimed
  <2>7. IsSingle(w) => /\ Len(held'[w]) + Len(todo'[w]) <= 1
                       /\ record'[Item(w)'.event].status # "completed"
    <3>1. Len(held[w]) \in Nat /\ held'[w] = held[w]
      BY <1>0, <2>1
    <3>2. IsSingle(w) => Len(held'[w]) + Len(todo'[w]) <= 1
      <4> DEFINE h == Len(held[w])  n == Len(todo[w])
      <4>1. IsSingle(w) => h + n <= 2
        BY <2>6
      <4>2. h \in Nat /\ n \in Nat /\ Len(held'[w]) = h /\ Len(todo'[w]) = n - 1
        BY <2>2, <3>1
      <4> HIDE DEF h, n
      <4>3. IsSingle(w) => h + (n - 1) <= 1
        BY <4>1, <4>2
      <4> QED
        BY <4>2, <4>3, Zenon
    <3>3. IsSingle(w) => record'[Item(w).event].status # "completed"
      BY <2>3, <2>4, <2>6
    <3> QED
      BY <2>5, <3>2, <3>3
  <2> QED
    BY <2>1, <2>5, <2>7 DEF OpenUntilClaimed
<1>4. CASE MarkRaises(w)
  <2>1. pc'[w] = (IF IsSingle(w) THEN "raise" ELSE "load") /\ job' = job
    BY <1>0, <1>4 DEF MarkRaises
  <2> QED
    BY <2>1 DEF OpenUntilClaimed, IsSingle
<1>5. CASE EndLoad(w) \/ Infer(w)
  <2>1. /\ UNCHANGED <<job, todo, held, record, late>>
        /\ \/ pc[w] = "load" /\ todo[w] = <<>> /\ pc'[w] \in {"cleanup", "infer"}
           \/ pc[w] = "infer" /\ pc'[w] = "claim"
    BY <1>0, <1>5 DEF EndLoad, Infer
  <2> QED
    BY <2>1 DEF OpenUntilClaimed, IsSingle, Item
<1>6. CASE InferRaises(w)
  <2>1. /\ UNCHANGED <<job, todo, held, record>> /\ pc[w] = "infer"
        /\ pc'[w] = (IF IsSingle(w) THEN "blame" ELSE "raise")
        /\ held[w] # <<>>
    BY <1>0, <1>6 DEF InferRaises, AfterInferError, Shape, Working
  <2> QED
    BY <2>1 DEF OpenUntilClaimed, IsSingle, Item
<1>7. CASE PersistRaises(w)
  <2>1. pc'[w] = "blame" /\ late'[w] = TRUE
    BY <1>0, <1>7 DEF PersistRaises
  <2> QED
    BY <2>1 DEF OpenUntilClaimed
<1>8. CASE Abandon(w)
  BY <1>8 DEF Abandon, OneAtATime
<1>9. CASE Claim(w) \/ Write(w) \/ Count(w) \/ Blame(w) \/ PersistSwallowed(w)
  <2>1. pc'[w] \in {"write", "claim", "cleanup", "count", "finally"}
    BY <1>0, <1>9 DEF Claim, Write, Count, Blame, PersistSwallowed, NextItem
  <2> QED
    BY <2>1 DEF OpenUntilClaimed
<1>10. CASE \/ BlameRaises(w) \/ Cleanup(w) \/ Unwind(w) \/ TimeoutEscapes(w)
            \/ KeepAttempt(w) \/ SaveDeadLetter(w) \/ TrimDeadLetters(w) \/ Demote(w)
            \/ DemoteRaises(w) \/ Return(w) \/ Settle(w) \/ Kill(w)
  <2>1. pc'[w] \in {"finally", "raise", "return", "settle", "trim", "demote", "idle"}
    BY <1>0, <1>10 DEF BlameRaises, Cleanup, Unwind, TimeoutEscapes, KeepAttempt,
       SaveDeadLetter, TrimDeadLetters, Demote, DemoteRaises, Return, Settle, Kill, Leave
  <2> QED
    BY <2>1 DEF OpenUntilClaimed
<1> QED
  BY <1>1, <1>2, <1>3, <1>4, <1>5, <1>6, <1>7, <1>8, <1>9, <1>10
  DEF WorkerStep, TaskStep, HorseFault

\* A job that has used its retries gets none back.
LEMMA RetriesStayUsed ==
  ASSUME Typed, [Next]_vars, NEW j \in Jobs, left[j] = 0
  PROVE  left'[j] = 0
<1> USE DEF queue
<1>0. left \in [Jobs -> 0..MaxRetries] /\ \A w \in Workers : pc[w] # "idle" => job[w] \in Jobs
  BY DEF Typed, TypeOK, QueueTypeOK, HorseTypeOK
<1>1. ASSUME NEW i \in Jobs, FailJob(i) PROVE left'[j] = 0
  BY <1>0, <1>1 DEF FailJob
<1>2. ASSUME NEW w \in Workers, Settle(w) \/ Kill(w) \/ Abandon(w) PROVE left'[j] = 0
  <2>1. pc[w] # "idle" /\ (UNCHANGED left \/ FailJob(job[w]))
    BY <1>2 DEF Settle, Kill, Abandon
  <2> QED
    BY <1>0, <1>1, <2>1
<1>3. ASSUME NEW w \in Workers, TaskStep(w) \/ HorseFault(w) PROVE left'[j] = 0
  BY <1>2, <1>3 DEF TaskStep, HorseFault, Load, Begin, EndLoad, Infer, InferRaises, Claim,
     Write, Count, Blame, Cleanup, Unwind, KeepAttempt, SaveDeadLetter, TrimDeadLetters,
     Demote, Return, MarkRaises, PersistSwallowed, PersistRaises, BlameRaises,
     TimeoutEscapes, DemoteRaises
<1>4. ASSUME NEW i \in Jobs, \/ Enqueue(i) \/ Store(i) \/ StoreLost(i) \/ Requeue(i)
                             \/ Deliver(i) \/ Reschedule(i)
      PROVE  left'[j] = 0
  BY <1>4 DEF Enqueue, Store, StoreLost, Requeue, Deliver, Take, Reschedule
<1> QED
  BY <1>3, <1>4 DEF Next, ExpireCurrent, vars

LEMMA OutOfRetriesStep ==
  ASSUME Typed, [Next]_vars, NEW w \in Workers, OutOfRetries(w), WorkerStep(w)
  PROVE  OutOfRetries(w)'
<1> USE DEF queue, horse, Goto
<1>0. /\ pc \in [Workers -> Steps] /\ left \in [Jobs -> 0..MaxRetries]
      /\ pc[w] # "idle" => job[w] \in Jobs
      /\ MaxRetries \in Nat
  BY BoundsAssumption DEF Typed, TypeOK, QueueTypeOK, HorseTypeOK
<1>1. CASE SaveDeadLetter(w)
  <2>1. ~(left[job[w]] > 0) /\ pc[w] = "raise" /\ UNCHANGED <<job, left>>
    BY <1>1 DEF SaveDeadLetter, RetriesLeft
  <2> QED
    BY <1>0, <2>1 DEF OutOfRetries
<1>2. CASE TrimDeadLetters(w)
  BY <1>0, <1>2 DEF TrimDeadLetters, OutOfRetries
<1>3. CASE Abandon(w)
  <2>1. UNCHANGED <<pc, job>> /\ pc[w] # "idle"
    BY <1>3 DEF Abandon
  <2> QED
    BY <1>0, <2>1, RetriesStayUsed DEF OutOfRetries
<1>4. CASE \E j \in Jobs : Take(w, j)
  BY <1>0, <1>4 DEF Take, OutOfRetries
<1>5. CASE \/ Load(w) \/ Begin(w) \/ EndLoad(w) \/ Infer(w) \/ InferRaises(w)
           \/ Claim(w) \/ Write(w) \/ Count(w) \/ Blame(w) \/ MarkRaises(w)
           \/ PersistSwallowed(w) \/ PersistRaises(w)
  <2>1. pc'[w] \notin {"trim", "demote"}
    BY <1>0, <1>5 DEF Load, Begin, EndLoad, Infer, InferRaises, AfterInferError, Claim,
       Write, Count, Blame, MarkRaises, PersistSwallowed, PersistRaises, NextItem
  <2> QED
    BY <2>1 DEF OutOfRetries
<1>6. CASE \/ BlameRaises(w) \/ Cleanup(w) \/ Unwind(w) \/ TimeoutEscapes(w)
           \/ KeepAttempt(w) \/ Demote(w) \/ DemoteRaises(w) \/ Return(w) \/ Settle(w)
           \/ Kill(w)
  <2>1. pc'[w] \notin {"trim", "demote"}
    BY <1>0, <1>6 DEF BlameRaises, Cleanup, Unwind, TimeoutEscapes, KeepAttempt, Demote,
       DemoteRaises, Return, Settle, Kill, Leave
  <2> QED
    BY <2>1 DEF OutOfRetries
<1> QED
  BY <1>1, <1>2, <1>3, <1>4, <1>5, <1>6 DEF WorkerStep, TaskStep, HorseFault

LEMMA StepOpen ==
  ASSUME OneAtATime
  PROVE  Typed /\ FinalInv /\ WriterInv /\ Apart /\ OpenInv /\ [Next]_vars => OpenInv'
<1> SUFFICES ASSUME Typed, FinalInv, WriterInv, Apart, OpenInv, [Next]_vars, NEW w \in Workers
             PROVE  OpenUntilClaimed(w)' /\ OutOfRetries(w)'
  BY DEF OpenInv
<1>0. /\ HorseTypeOK /\ Shape /\ held \in [Workers -> Seq(Items)]
      /\ OpenUntilClaimed(w) /\ OutOfRetries(w)
      /\ \A v \in Workers : pc[v] # "idle" => job[v] \in Jobs /\ Active(v) /\ OwnEvents(v)
  BY DEF Typed, TypeOK, HorseTypeOK, WriterInv, OpenInv, Active
<1>1. CASE WorkerStep(w)
  BY <1>0, <1>1, OpenStep, OutOfRetriesStep
<1>2. CASE ~WorkerStep(w)
  <2>1. /\ pc'[w] = pc[w] /\ job'[w] = job[w] /\ todo'[w] = todo[w] /\ held'[w] = held[w]
        /\ late'[w] = late[w]
    <3>1. ASSUME NEW v \in Workers \ {w}, WorkerStep(v)
          PROVE  /\ pc'[w] = pc[w] /\ job'[w] = job[w] /\ todo'[w] = todo[w]
                 /\ held'[w] = held[w] /\ late'[w] = late[w]
      BY <1>0, <3>1, StepIsLocal DEF Local, HorseTypeOK
    <3> QED
      BY <1>2, <3>1, WhoMoves DEF horse, vars
  <2>2. OutOfRetries(w)'
    <3> SUFFICES ASSUME pc[w] \in {"trim", "demote"} PROVE left'[job[w]] = 0
      BY <2>1 DEF OutOfRetries
    <3> QED
      BY <1>0, RetriesStayUsed DEF OutOfRetries
  <2>3. ASSUME pc[w] # "idle", held[w] # <<>>
        PROVE  record'[Item(w).event] = record[Item(w).event]
    <3> DEFINE e == Item(w).event
    <3>1. e \in Events /\ e \in EventsOf(job[w]) /\ rq[job[w]] = "started" /\ job[w] \in Jobs
      <4>1. held[w] \in Seq(Items)
        BY <1>0
      <4>2. 1 \in DOMAIN held[w] /\ Item(w) = held[w][1]
        BY <2>3, <4>1 DEF Item
      <4>3. Item(w).event \in Events
        <5>1. Item(w) \in Items
          BY <2>3, <4>1, HeadTail DEF Item
        <5> QED
          BY <5>1 DEF Items
      <4> QED
        BY <1>0, <2>3, <4>1, <4>2, <4>3 DEF OwnEvents, FinalInv
    <3> HIDE DEF e
    <3> SUFFICES ASSUME record'[e] # record[e] PROVE FALSE
      BY DEF e
    <3>2. Next
      BY DEF vars
    <3>3. PICK v \in Workers : WorkerStep(v) /\ pc[v] # "idle" /\ job[v] = job[w]
      BY <3>1, <3>2, OwnWriter
    <3>4. v = w
      BY <1>0, <2>3, <3>3 DEF FinalInv
    <3> QED
      BY <1>2, <3>3, <3>4
  <2>4. OpenUntilClaimed(w)'
    <3>1. pc[w] = "blame" => held[w] # <<>>
      BY <1>0 DEF Shape, Working
    <3>2. Item(w)' = Item(w) /\ (IsSingle(w)' <=> IsSingle(w))
      BY <2>1 DEF Item, IsSingle
    <3> QED
      BY <1>0, <2>1, <2>3, <3>1, <3>2 DEF OpenUntilClaimed
  <2> QED
    BY <2>2, <2>4
<1> QED
  BY <1>1, <1>2

LEMMA CompletedKept ==
  ASSUME Typed, WriterInv, OpenInv, [Next]_vars, NEW e \in Events,
         record[e].status = "completed"
  PROVE  \/ record'[e].status = "completed"
         \/ /\ record'[e].status = "failed"
            /\ \E w \in Workers : pc[w] = "blame" /\ late[w] /\ Item(w).event = e
         \/ /\ record'[e].status = "dead_letter"
            /\ \E w \in Workers : /\ pc[w] = "demote" /\ left[job[w]] = 0
                                  /\ Payload[job[w]][1] = e
<1>0. /\ unstored \in [Jobs -> Seq(Events)] /\ late \in [Workers -> BOOLEAN]
      /\ record' \in [Events -> Record]
      /\ \A w \in Workers : pc[w] # "idle" => OwnEvents(w)
  BY StepTyped DEF Typed, TypeOK, RedisTypeOK, HorseTypeOK, WriterInv
<1>1. CASE record'[e] = record[e]
  BY <1>1
<1>2. CASE \E j \in Jobs : Store(j) /\ e = Head(unstored[j])
  <2>1. PICK j \in Jobs : Store(j) /\ e = Head(unstored[j])
    BY <1>2
  <2>2. unstored[j] # <<>>
    BY <2>1 DEF Store
  <2>3. 1 \in DOMAIN unstored[j] /\ e = unstored[j][1]
    BY <1>0, <2>1, <2>2
  <2> QED
    BY <2>3 DEF WriterInv, Waiting
<1>3. ASSUME NEW w \in Workers,
             record'[e].status \notin {"none", "queued"},
             record'[e].status = "processing" => pc[w] = "begin" /\ e = Loaded(w).event,
             record'[e].status = "failed" => pc[w] = "blame" /\ e = Item(w).event,
             record'[e].status = "dead_letter" => pc[w] = "demote" /\ e = Payload[job[w]][1]
      PROVE  \/ record'[e].status = "completed"
             \/ /\ record'[e].status = "failed"
                /\ pc[w] = "blame" /\ late[w] /\ Item(w).event = e
             \/ /\ record'[e].status = "dead_letter"
                /\ pc[w] = "demote" /\ left[job[w]] = 0 /\ Payload[job[w]][1] = e
  <2>1. record'[e].status \in Statuses
    BY <1>0 DEF Record
  <2>2. record'[e].status # "processing"
    BY <1>3 DEF WriterInv
  <2>3. OpenUntilClaimed(w) /\ OutOfRetries(w)
    BY DEF OpenInv
  <2>4. record'[e].status = "failed" => late[w]
    BY <1>0, <1>3, <2>3 DEF OpenUntilClaimed
  <2>5. record'[e].status = "dead_letter" => left[job[w]] = 0
    BY <1>3, <2>3 DEF OutOfRetries
  <2> QED
    BY <1>3, <2>1, <2>2, <2>4, <2>5 DEF Statuses
<1>4. CASE Next /\ record'[e] # record[e]
  BY <1>0, <1>2, <1>3, <1>4, Writers
<1> QED
  BY <1>1, <1>4 DEF vars

\* With jobs that share no event, no abandoned attempts and initial records
\* written before the job starts: whatever retries, requeues, kills, Redis errors
\* and malformed replies come, only the job timeout of the attempt that persists
\* an event and the dead-lettering of its job take "completed" back.
THEOREM CompletedUnlessTimedOut ==
  ASSUME OneAtATime, Unshared
  PROVE  Spec => CompletedStays
<1>1. Apart /\ Apart'
  BY DEF Apart, Unshared, EventsOf
<1>2. Init => FinalInv
  BY DEF Init, FinalInv, DeadLetterIsFinal, Active
<1>3. Typed /\ FinalInv /\ WriterInv /\ [Next]_vars => WriterInv'
  BY <1>1, StepWriter
<1>4. Typed /\ FinalInv /\ WriterInv /\ OpenInv /\ [Next]_vars => OpenInv'
  BY <1>1, StepOpen
<1>5. Typed /\ WriterInv /\ OpenInv /\ [Next]_vars
        => [\A e \in Events : record[e].status = "completed" =>
              \/ record'[e].status = "completed"
              \/ /\ record'[e].status = "failed"
                 /\ \E w \in Workers : pc[w] = "blame" /\ late[w] /\ Item(w).event = e
              \/ /\ record'[e].status = "dead_letter"
                 /\ \E w \in Workers : /\ pc[w] = "demote" /\ left[job[w]] = 0
                                       /\ Payload[job[w]][1] = e]_vars
  BY CompletedKept
<1> QED
  BY <1>2, <1>3, <1>4, <1>5, InitWriter, InitOpen, StepFinal, AlwaysTyped, PTL
  DEF Spec, CompletedStays

-----------------------------------------------------------------------------
(* Undisturbed attempts.  When nothing fails but an API process, an attempt *)
(* handles its whole batch: it fails before it has persisted anything, or  *)
(* it completes every event, one after the other.                          *)

Undisturbed == Faults \subseteq {"crash"}

Untouched(e) == record[e].status # "completed" /\ counted[e] = 0 /\ KeysOf(e) = {}
Completed(e) == record[e].status = "completed" /\ counted[e] = 1

HeldEvents(w) == {held[w][i].event : i \in DOMAIN held[w]}
HeldOnce(w) == \A i, k \in DOMAIN held[w] : held[w][i].event = held[w][k].event => i = k
Once(s) == \A i, k \in DOMAIN s : s[i] = s[k] => i = k

\* The events that attempt w has still to load.
Rest(w) == IF pc[w] = "begin" THEN Tail(todo[w]) ELSE todo[w]

Loading(w) ==
    /\ HeldEvents(w) \cup Members(Rest(w)) = EventsOf(job[w])
    /\ HeldEvents(w) \cap Members(Rest(w)) = {}
    /\ Once(todo[w])

Persisting(w) ==
    /\ \A e \in EventsOf(job[w]) \ HeldEvents(w) : Completed(e)
    /\ \A e \in HeldEvents(w) \ {Item(w).event} : Untouched(e)
    /\ counted[Item(w).event] = 0
    /\ pc[w] = "claim" => Untouched(Item(w).event)
    /\ pc[w] = "count" => record[Item(w).event].status = "completed"

Attempt(w) ==
    /\ HeldOnce(w)
    /\ pc[w] \in {"load", "begin"} => Loading(w)
    /\ pc[w] = "infer" => HeldEvents(w) = EventsOf(job[w])
    /\ pc[w] = "blame" => IsSingle(w)
    /\ pc[w] \in {"load", "begin", "infer", "blame", "finally", "raise", "trim", "demote", "settle"}
         => \A e \in EventsOf(job[w]) : Untouched(e)
    /\ pc[w] \in {"claim", "write", "count"} => Persisting(w)
    /\ pc[w] \in {"cleanup", "return"} => \A e \in EventsOf(job[w]) : Completed(e)

Outcome(j) ==
    /\ rq[j] \in {"queued", "scheduled", "failed"} => \A e \in EventsOf(j) : Untouched(e)
    /\ rq[j] = "finished" => \A e \in EventsOf(j) : Completed(e)

\* No job RQ knows has the event.
Free(e) == \A j \in Jobs : rq[j] # "absent" => e \notin EventsOf(j)

OutcomeInv ==
    /\ \A w \in Workers : pc[w] # "idle" => Attempt(w)
    /\ \A j \in Jobs : Outcome(j)
    /\ \A e \in Events : Free(e) => Untouched(e)
    /\ \A e \in Events : counted[e] <= 1

\* A current task is shown while some attempt has not cleared it.
ShownInv ==
    current # "none" => \/ \E w \in Workers : pc[w] \notin {"idle", "return"}
                        \/ \E j \in Jobs : left[j] < MaxRetries

LEMMA NoFaults ==
  ASSUME Undisturbed, NEW w \in Workers
  PROVE  ~HorseFault(w)
<1>1. "redis" \notin Faults /\ "timeout" \notin Faults /\ "kill" \notin Faults
      /\ "stall" \notin Faults
  BY DEF Undisturbed
<1>2. ~Struck(w)
  BY <1>1 DEF Struck
<1> QED
  BY <1>1, <1>2 DEF HorseFault, MarkRaises, PersistSwallowed, PersistRaises, BlameRaises,
     TimeoutEscapes, DemoteRaises, Kill, Abandon

\* What a step may do to an event that nobody completes, claims or counts in it.
Kept(e) ==
    /\ record'[e].status = "completed" <=> record[e].status = "completed"
    /\ counted'[e] = counted[e] /\ KeysOf(e)' = KeysOf(e)

LEMMA KeptUntouched ==
  ASSUME NEW e, Kept(e)
  PROVE  (Untouched(e) => Untouched(e)') /\ (Completed(e) => Completed(e)')
  BY DEF Kept, Untouched, Completed

\* An attempt does not notice the steps of others.
LEMMA AttemptKept ==
  ASSUME NEW w, pc'[w] = pc[w], job'[w] = job[w], todo'[w] = todo[w], held'[w] = held[w],
         HeldEvents(w) \subseteq EventsOf(job[w]),
         held[w] = <<>> \/ Item(w).event \in HeldEvents(w),
         pc[w] \in Working => held[w] # <<>>,
         \A e \in EventsOf(job[w]) : Kept(e), Attempt(w)
  PROVE  Attempt(w)'
<1>1. HeldEvents(w)' = HeldEvents(w) /\ Item(w)' = Item(w) /\ Rest(w)' = Rest(w)
      /\ EventsOf(job[w])' = EventsOf(job[w])
  BY DEF HeldEvents, Item, Rest, EventsOf
<1>2. HeldOnce(w)' /\ (pc'[w] \in {"load", "begin"} => Loading(w)')
  BY <1>1 DEF Attempt, HeldOnce, Loading
<1>3. \A e \in EventsOf(job[w]) :
        (Untouched(e) => Untouched(e)') /\ (Completed(e) => Completed(e)')
  BY KeptUntouched
<1>4. pc[w] \in {"claim", "write", "count"} => Persisting(w)'
  <2> SUFFICES ASSUME pc[w] \in {"claim", "write", "count"} PROVE Persisting(w)'
    OBVIOUS
  <2>1. Persisting(w)
    BY DEF Attempt
  <2>2. Item(w).event \in EventsOf(job[w])
    BY DEF Working
  <2>3. Kept(Item(w).event)
    BY <2>2
  <2> QED
    BY <1>1, <1>3, <2>1, <2>2, <2>3 DEF Persisting, Kept
<1> QED
  BY <1>1, <1>2, <1>3, <1>4 DEF Attempt, IsSingle

LEMMA OutcomeKept ==
  ASSUME NEW j, rq'[j] = rq[j], \A e \in EventsOf(j) : Kept(e), Outcome(j)
  PROVE  Outcome(j)'
  BY KeptUntouched DEF Outcome, EventsOf

\* The payload names each event once.
LEMMA PayloadOnce ==
  ASSUME NEW j \in Jobs
  PROVE  Once(Payload[j])
<1> DEFINE s == Payload[j]
<1>1. s \in Seq(Events) /\ Cardinality(Members(s)) = Len(s)
  BY PayloadAssumption
<1>2. Len(s) \in Nat /\ DOMAIN s = 1..Len(s) /\ s = [i \in 1..Len(s) |-> s[i]]
  BY <1>1
<1>3. IsFiniteSet(1..Len(s)) /\ Cardinality(1..Len(s)) = Len(s)
  BY <1>2, FS_Interval
<1>4. s \in Surjection(1..Len(s), Members(s))
  BY <1>1, <1>2 DEF Surjection, Members
<1>5. s \in Injection(1..Len(s), Members(s))
  BY <1>1, <1>2, <1>3, <1>4, FS_Surjection
<1> QED
  BY <1>2, <1>5 DEF Injection, IsInjective, Once

\* The event of a command is one of the job's, held.
LEMMA ItemHeld ==
  ASSUME Typed, NEW w \in Workers, OwnEvents(w)
  PROVE  /\ HeldEvents(w) \subseteq EventsOf(job[w])
         /\ held[w] = <<>> \/ Item(w).event \in HeldEvents(w)
         /\ pc[w] \in Working => /\ held[w] # <<>> /\ Item(w).event \in EventsOf(job[w])
                                 /\ Loaded(w).event \in EventsOf(job[w])
<1>1. held[w] \in Seq(Items) /\ (pc[w] \in Working => held[w] # <<>>)
  BY DEF Typed, TypeOK, HorseTypeOK, Shape
<1>2. held[w] # <<>> => /\ 1 \in DOMAIN held[w] /\ Len(held[w]) \in DOMAIN held[w]
                        /\ Item(w) = held[w][1]
  BY <1>1 DEF Item
<1> QED
  BY <1>1, <1>2 DEF OwnEvents, HeldEvents, Loaded

\* While an attempt loads or fails no event is completed, claimed or counted.
LEMMA QuietTask ==
  ASSUME Undisturbed, Typed, NEW w \in Workers, TaskStep(w), OwnEvents(w), Attempt(w),
         pc[w] \notin {"claim", "write", "count"}, NEW e \in Events
  PROVE  Kept(e)
<1> USE DEF redis
<1>0. record \in [Events -> Record] /\ job[w] \in Jobs
  <2>1. pc[w] # "idle"
    BY DEF TaskStep, Load, Begin, EndLoad, Infer, InferRaises, Claim, Write, Count, Blame,
       Cleanup, Unwind, KeepAttempt, SaveDeadLetter, TrimDeadLetters, Demote, Return, Settle
  <2> QED
    BY <2>1 DEF Typed, TypeOK, RedisTypeOK, HorseTypeOK
<1>1. ASSUME UNCHANGED <<marker, counted>>,
             \/ record' = record
             \/ \E d \in EventsOf(job[w]), status \in Statuses \ {"completed"}, key \in Keys :
                    Untouched(d) /\ SetRecord(d, status, key)
      PROVE  Kept(e)
  BY <1>0, <1>1 DEF Kept, KeysOf, SetRecord, Untouched
<1>2. CASE Begin(w)
  <2>1. pc[w] = "begin" /\ SetRecord(Loaded(w).event, "processing", Loaded(w).key)
        /\ UNCHANGED <<marker, counted>>
    BY <1>2 DEF Begin
  <2>2. Loaded(w).event \in EventsOf(job[w]) /\ Loaded(w).key \in Keys
    BY <2>1, ItemHeld, ItemType DEF Working
  <2>3. Untouched(Loaded(w).event)
    BY <2>1, <2>2 DEF Attempt
  <2> QED
    BY <1>1, <2>1, <2>2, <2>3 DEF Statuses
<1>3. CASE Blame(w)
  <2>1. pc[w] = "blame" /\ SetRecord(Item(w).event, "failed", Item(w).key)
        /\ UNCHANGED <<marker, counted>>
    BY <1>3 DEF Blame
  <2>2. Item(w).event \in EventsOf(job[w]) /\ Item(w).key \in Keys
    BY <2>1, ItemHeld, ItemType DEF Working
  <2>3. Untouched(Item(w).event)
    BY <2>1, <2>2 DEF Attempt
  <2> QED
    BY <1>1, <2>1, <2>2, <2>3 DEF Statuses
<1>4. CASE Demote(w)
  <2> DEFINE d == Payload[job[w]][1]
  <2>1. /\ pc[w] = "demote" /\ UNCHANGED <<marker, counted>>
        /\ record' = record \/ SetRecord(d, "dead_letter", record[d].key)
    BY <1>4 DEF Demote
  <2>2. d \in EventsOf(job[w]) /\ d \in Events
    <3>1. 1 \in DOMAIN Payload[job[w]]
      BY <1>0, PayloadType
    <3> QED
      BY <1>0, <3>1, PayloadType DEF EventsOf, Members
  <2>3. Untouched(d) /\ record[d].key \in Keys
    BY <1>0, <2>1, <2>2 DEF Attempt, Record
  <2> HIDE DEF d
  <2> QED
    BY <1>1, <2>1, <2>2, <2>3 DEF Statuses
<1>5. CASE \/ Load(w) \/ EndLoad(w) \/ Infer(w) \/ InferRaises(w) \/ Cleanup(w) \/ Unwind(w)
           \/ KeepAttempt(w) \/ SaveDeadLetter(w) \/ TrimDeadLetters(w) \/ Return(w) \/ Settle(w)
  BY <1>1, <1>5 DEF Load, EndLoad, Infer, InferRaises, Cleanup, Unwind, KeepAttempt,
     SaveDeadLetter, TrimDeadLetters, Return, Settle
<1> QED
  BY <1>2, <1>3, <1>4, <1>5 DEF TaskStep, Claim, Write, Count

\* Loading takes the events of the payload one by one.
LEMMA LoadingStep ==
  ASSUME Undisturbed, Typed, NEW w \in Workers, OwnEvents(w), Attempt(w), pc[w] # "idle",
         Load(w) \/ Begin(w) \/ EndLoad(w), \A e \in Events : Kept(e)
  PROVE  Attempt(w)'
<1> USE DEF Goto
<1>0. /\ pc \in [Workers -> Steps] /\ job[w] \in Jobs /\ held[w] \in Seq(Items)
      /\ todo[w] \in Seq(Events) /\ Len(held[w]) \in Nat
      /\ todo \in [Workers -> Seq(Events)] /\ held \in [Workers -> Seq(Items)]
      /\ pc[w] = "begin" => todo[w] # <<>>
      /\ EventsOf(job[w]) \subseteq Events
  BY DEF Typed, TypeOK, HorseTypeOK, Shape, EventsOf, Events
<1>1. /\ pc[w] \in {"load", "begin"} /\ Loading(w) /\ HeldOnce(w) /\ job' = job
      /\ \A e \in EventsOf(job[w]) : Untouched(e)
  BY DEF Load, Begin, EndLoad, Attempt
<1>2. EventsOf(job[w])' = EventsOf(job[w]) /\ \A e \in EventsOf(job[w]) : Untouched(e)'
  BY <1>0, <1>1, KeptUntouched DEF EventsOf
<1>3. CASE Load(w)
  <2> DEFINE d == Head(todo[w])
             m == [event |-> d, key |-> record[d].key]
  <2>1. todo[w] # <<>> /\ pc[w] = "load"
    BY <1>3 DEF Load
  <2>2. /\ d \in Members(todo[w])
        /\ \A x \in Members(Tail(todo[w])) : x \in Members(todo[w]) /\ x # d
        /\ \A x \in Members(todo[w]) : x = d \/ x \in Members(Tail(todo[w]))
    <3>1. /\ d = todo[w][1] /\ DOMAIN todo[w] = 1..Len(todo[w]) /\ Len(todo[w]) \in Nat \ {0}
          /\ DOMAIN Tail(todo[w]) = 1..(Len(todo[w]) - 1)
          /\ \A i \in DOMAIN Tail(todo[w]) : Tail(todo[w])[i] = todo[w][i + 1]
      BY <1>0, <2>1
    <3>2. \A i \in DOMAIN todo[w] : i = 1 \/ (i - 1 \in DOMAIN Tail(todo[w])
                                              /\ todo[w][i] = Tail(todo[w])[i - 1])
      BY <3>1
    <3>3. Once(todo[w])
      BY <1>1 DEF Loading
    <3> HIDE DEF d
    <3>4. d \in Members(todo[w])
      BY <3>1 DEF Members
    <3>5. ASSUME NEW x \in Members(Tail(todo[w])) PROVE x \in Members(todo[w]) /\ x # d
      <4>1. PICK i \in DOMAIN Tail(todo[w]) : x = Tail(todo[w])[i]
        BY DEF Members
      <4>2. i + 1 \in DOMAIN todo[w] /\ i + 1 # 1 /\ 1 \in DOMAIN todo[w] /\ x = todo[w][i + 1]
        BY <3>1, <4>1
      <4> QED
        BY <3>1, <3>3, <4>2 DEF Members, Once
    <3>6. ASSUME NEW x \in Members(todo[w]) PROVE x = d \/ x \in Members(Tail(todo[w]))
      <4>1. PICK i \in DOMAIN todo[w] : x = todo[w][i]
        BY DEF Members
      <4> QED
        BY <3>1, <3>2, <4>1 DEF Members
    <3> QED
      BY <3>4, <3>5, <3>6
  <2>3. d \in EventsOf(job[w])
    BY <1>1, <2>1, <2>2 DEF Loading, Rest
  <2>4. ~AlreadyDone(d)
    BY <1>1, <2>3 DEF AlreadyDone, Untouched
  <2>5. held' = [held EXCEPT ![w] = Append(@, m)] /\ pc'[w] = "begin" /\ todo' = todo
    BY <1>0, <1>3, <2>4 DEF Load
  <2>6. m \in Items
    BY <1>0, <2>3 DEF Items, Typed, TypeOK, RedisTypeOK, Record
  <2>7. m.event = d
    OBVIOUS
  <2> HIDE DEF m, d
  <2>8. /\ DOMAIN held'[w] = DOMAIN held[w] \cup {Len(held[w]) + 1}
        /\ \A i \in DOMAIN held[w] : held'[w][i] = held[w][i]
        /\ held'[w][Len(held[w]) + 1] = m
    BY <1>0, <2>5, <2>6
  <2>9. HeldEvents(w)' = HeldEvents(w) \cup {d}
    BY <2>7, <2>8 DEF HeldEvents
  <2>10. d \notin HeldEvents(w)
    BY <1>1, <2>1, <2>2 DEF Loading, Rest
  <2>11. HeldOnce(w)'
    BY <1>1, <2>7, <2>8, <2>10 DEF HeldOnce, HeldEvents
  <2>12. Rest(w) = todo[w] /\ Rest(w)' = Tail(todo[w])
    BY <2>1, <2>5 DEF Rest
  <2>13. Loading(w)'
    BY <1>1, <1>2, <2>2, <2>5, <2>9, <2>10, <2>12 DEF Loading
  <2> QED
    BY <1>2, <2>5, <2>11, <2>13 DEF Attempt
<1>4. CASE Begin(w)
  <2>1. /\ pc[w] = "begin" /\ pc'[w] = "load" /\ held' = held /\ todo'[w] = Tail(todo[w])
        /\ todo[w] # <<>>
    BY <1>0, <1>4 DEF Begin
  <2>2. Once(Tail(todo[w]))
    <3>1. \A i \in DOMAIN Tail(todo[w]) : /\ i \in Nat /\ i + 1 \in DOMAIN todo[w]
                                          /\ Tail(todo[w])[i] = todo[w][i + 1]
      BY <1>0, <2>1
    <3> QED
      BY <1>1, <3>1 DEF Loading, Once
  <2>3. Loading(w)'
    BY <1>1, <1>2, <2>1, <2>2 DEF Loading, HeldEvents, Rest
  <2> QED
    BY <1>1, <1>2, <2>1, <2>3 DEF Attempt, HeldOnce
<1>5. CASE EndLoad(w)
  <2>1. /\ pc[w] = "load" /\ todo[w] = <<>> /\ held' = held
        /\ pc'[w] = IF held[w] = <<>> THEN "cleanup" ELSE "infer"
    BY <1>0, <1>5 DEF EndLoad
  <2>2. Members(Rest(w)) = {}
    BY <2>1 DEF Rest, Members
  <2>3. HeldEvents(w) = EventsOf(job[w])
    BY <1>1, <2>2 DEF Loading
  <2>4. held[w] # <<>>
    <3>1. 1 \in DOMAIN Payload[job[w]]
      BY <1>0, PayloadType
    <3>2. EventsOf(job[w]) # {}
      BY <3>1 DEF EventsOf, Members
    <3>3. held[w] = <<>> => HeldEvents(w) = {}
      BY DEF HeldEvents
    <3> QED
      BY <2>3, <3>2, <3>3
  <2> QED
    BY <1>1, <1>2, <2>1, <2>3, <2>4 DEF Attempt, HeldOnce, HeldEvents
<1> QED
  BY <1>3, <1>4, <1>5

\* The other steps of an attempt that neither persist nor end it.
LEMMA PassingStep ==
  ASSUME Undisturbed, Typed, NEW w \in Workers, OwnEvents(w), Attempt(w), pc[w] # "idle",
         \A e \in Events : Kept(e),
         \/ Infer(w) \/ InferRaises(w) \/ Blame(w) \/ Cleanup(w) \/ Unwind(w) \/ KeepAttempt(w)
         \/ SaveDeadLetter(w) \/ TrimDeadLetters(w) \/ Demote(w)
  PROVE  Attempt(w)'
<1> USE DEF Goto, horse
<1>0. /\ pc \in [Workers -> Steps] /\ job[w] \in Jobs /\ EventsOf(job[w]) \subseteq Events
      /\ HeldEvents(w) \subseteq EventsOf(job[w])
  BY ItemHeld DEF Typed, TypeOK, HorseTypeOK, EventsOf, Events
<1>1. /\ \A e \in EventsOf(job[w]) : Untouched(e) => Untouched(e)'
      /\ \A e \in EventsOf(job[w]) : Completed(e) => Completed(e)'
  BY <1>0, KeptUntouched
<1>2. ASSUME job' = job, held' = held,
             \/ /\ pc[w] \in {"infer", "blame", "finally", "raise", "trim", "demote"}
                /\ pc'[w] \in {"blame", "finally", "raise", "trim", "demote", "settle"}
                /\ pc'[w] = "blame" => IsSingle(w)
             \/ pc[w] = "cleanup" /\ pc'[w] = "return"
      PROVE  Attempt(w)'
  BY <1>1, <1>2 DEF Attempt, HeldOnce, IsSingle, EventsOf
<1>3. CASE Infer(w)
  <2>1. pc[w] = "infer" /\ pc'[w] = "claim" /\ job' = job /\ held' = held
    BY <1>0, <1>3 DEF Infer
  <2>2. HeldEvents(w) = EventsOf(job[w]) /\ \A e \in EventsOf(job[w]) : Untouched(e)
    BY <2>1 DEF Attempt
  <2>3. Item(w).event \in EventsOf(job[w])
    BY <2>1, ItemHeld DEF Working
  <2>4. HeldEvents(w)' = HeldEvents(w) /\ Item(w)' = Item(w) /\ EventsOf(job[w])' = EventsOf(job[w])
    BY <2>1 DEF HeldEvents, Item, EventsOf
  <2>5. counted'[Item(w).event] = 0
    BY <1>1, <2>2, <2>3 DEF Untouched
  <2>6. Persisting(w)'
    BY <1>1, <2>1, <2>2, <2>3, <2>4, <2>5 DEF Persisting
  <2> QED
    BY <2>1, <2>6 DEF Attempt, HeldOnce
<1>4. CASE InferRaises(w)
  BY <1>0, <1>2, <1>4 DEF InferRaises, AfterInferError
<1>5. CASE Blame(w)
  <2>1. IsSingle(w)
    BY <1>5 DEF Attempt, Blame
  <2> QED
    BY <1>0, <1>2, <1>5, <2>1 DEF Blame
<1>6. CASE Cleanup(w) \/ Unwind(w)
  BY <1>0, <1>2, <1>6 DEF Cleanup, Unwind
<1>7. CASE KeepAttempt(w) \/ SaveDeadLetter(w) \/ TrimDeadLetters(w) \/ Demote(w)
  BY <1>0, <1>2, <1>7 DEF KeepAttempt, SaveDeadLetter, TrimDeadLetters, Demote
<1> QED
  BY <1>3, <1>4, <1>5, <1>6, <1>7

\* Persisting completes the events of the batch one by one.
LEMMA PersistStep ==
  ASSUME Undisturbed, Typed, NEW w \in Workers, OwnEvents(w), Attempt(w),
         Claim(w) \/ Write(w) \/ Count(w)
  PROVE  /\ Attempt(w)'
         /\ \A e \in Events \ {Item(w).event} : Kept(e)
         /\ counted'[Item(w).event] <= 1
<1> USE DEF Goto
<1> DEFINE d == Item(w).event
<1>0. /\ pc \in [Workers -> Steps] /\ held[w] \in Seq(Items) /\ Len(held[w]) \in Nat
      /\ held \in [Workers -> Seq(Items)] /\ held[w] # <<>>
      /\ record \in [Events -> Record] /\ counted \in [Events -> Nat]
      /\ pc[w] \in {"claim", "write", "count"}
  BY DEF Typed, TypeOK, HorseTypeOK, RedisTypeOK, Shape, Working, Claim, Write, Count
<1>1. /\ d \in Events /\ d \in HeldEvents(w) /\ HeldEvents(w) \subseteq EventsOf(job[w])
      /\ Item(w).key \in Keys /\ counted[d] = 0 /\ Persisting(w) /\ HeldOnce(w)
  BY <1>0, ItemType, ItemHeld DEF Working, Attempt, Persisting
<1>2. ASSUME \A e \in Events \ {d} : Kept(e)
      PROVE  /\ \A e \in EventsOf(job[w]) \ HeldEvents(w) : Completed(e)'
             /\ \A e \in HeldEvents(w) \ {d} : Untouched(e)'
  <2>1. /\ \A e \in EventsOf(job[w]) \ HeldEvents(w) : Completed(e) /\ e \in Events \ {d}
        /\ \A e \in HeldEvents(w) \ {d} : Untouched(e) /\ e \in Events \ {d}
    <3>1. EventsOf(job[w]) \subseteq Events
      BY <1>0 DEF Typed, TypeOK, HorseTypeOK, EventsOf, Events
    <3> QED
      BY <1>1, <3>1 DEF Persisting
  <2> QED
    BY <1>2, <2>1, KeptUntouched
<1>3. CASE Claim(w)
  <2>1. pc[w] = "claim"
    BY <1>3 DEF Claim
  <2>2. ~Consumed(Item(w))
    BY <1>1, <2>1 DEF Persisting, Untouched, KeysOf, Consumed
  <2>3. /\ pc'[w] = "write" /\ held' = held /\ job' = job /\ UNCHANGED <<record, counted>>
        /\ marker' = marker \cup {<<d, Item(w).key>>}
    BY <1>0, <1>3, <2>2 DEF Claim
  <2>4. \A e \in Events \ {d} : Kept(e)
    BY <2>3 DEF Kept, KeysOf
  <2>5. HeldEvents(w)' = HeldEvents(w) /\ Item(w)' = Item(w) /\ EventsOf(job[w])' = EventsOf(job[w])
    BY <2>3 DEF HeldEvents, Item, EventsOf
  <2>6. Persisting(w)'
    BY <1>1, <1>2, <2>3, <2>4, <2>5 DEF Persisting
  <2>7. HeldOnce(w)'
    BY <1>1, <2>3 DEF HeldOnce
  <2> QED
    BY <1>1, <2>3, <2>4, <2>6, <2>7 DEF Attempt
<1>4. CASE Write(w)
  <2>1. /\ pc'[w] = "count" /\ held' = held /\ job' = job /\ UNCHANGED <<marker, counted>>
        /\ SetRecord(d, "completed", Item(w).key)
    BY <1>0, <1>4 DEF Write
  <2>2. (\A e \in Events \ {d} : Kept(e)) /\ record'[d].status = "completed"
    BY <1>0, <1>1, <2>1 DEF Kept, KeysOf, SetRecord
  <2>3. HeldEvents(w)' = HeldEvents(w) /\ Item(w)' = Item(w) /\ EventsOf(job[w])' = EventsOf(job[w])
    BY <2>1 DEF HeldEvents, Item, EventsOf
  <2>4. Persisting(w)'
    BY <1>1, <1>2, <2>1, <2>2, <2>3 DEF Persisting
  <2>5. HeldOnce(w)'
    BY <1>1, <2>1 DEF HeldOnce
  <2> QED
    BY <1>1, <2>1, <2>2, <2>4, <2>5 DEF Attempt
<1>5. CASE Count(w)
  <2>1. /\ held'[w] = Tail(held[w]) /\ job' = job /\ UNCHANGED <<marker, record>>
        /\ pc'[w] = IF Len(held[w]) > 1 THEN "claim" ELSE "cleanup"
        /\ counted' = [counted EXCEPT ![d] = @ + 1] /\ pc[w] = "count"
    BY <1>0, <1>5 DEF Count, CountItem, NextItem
  <2>2. (\A e \in Events \ {d} : Kept(e)) /\ counted'[d] = 1
    BY <1>0, <1>1, <2>1 DEF Kept, KeysOf
  <2>3. record'[d].status = "completed" /\ counted'[d] = 1
    <3>1. record[d].status = "completed"
      BY <1>1, <2>1 DEF Persisting
    <3> QED
      BY <2>1, <2>2, <3>1
  <2>4. /\ DOMAIN held[w] = 1..Len(held[w]) /\ DOMAIN held'[w] = 1..(Len(held[w]) - 1)
        /\ \A i \in DOMAIN held'[w] : held'[w][i] = held[w][i + 1]
        /\ d = held[w][1].event
    BY <1>0, <2>1 DEF Item
  <2>5. HeldEvents(w)' = HeldEvents(w) \ {d}
    <3> HIDE DEF d
    <3>1. ASSUME NEW i \in DOMAIN held'[w]
          PROVE  held'[w][i].event \in HeldEvents(w) /\ held'[w][i].event # d
      <4>1. i + 1 \in DOMAIN held[w] /\ 1 \in DOMAIN held[w] /\ i + 1 # 1
        BY <1>0, <2>4
      <4> QED
        BY <1>1, <2>4, <4>1 DEF HeldEvents, HeldOnce
    <3>2. ASSUME NEW i \in DOMAIN held[w], held[w][i].event # d
          PROVE  held[w][i].event \in HeldEvents(w)'
      <4>1. i \in Nat /\ i >= 1 /\ i <= Len(held[w]) /\ i # 1
        BY <1>0, <2>4, <3>2
      <4>2. i - 1 \in DOMAIN held'[w] /\ (i - 1) + 1 = i
        BY <1>0, <2>4, <4>1
      <4>3. held'[w][i - 1] = held[w][i]
        BY <2>4, <4>2
      <4> QED
        BY <4>2, <4>3 DEF HeldEvents
    <3> QED
      BY <3>1, <3>2 DEF HeldEvents
  <2>6. HeldOnce(w)'
    <3>1. \A i \in DOMAIN held'[w] : i \in Nat /\ i + 1 \in DOMAIN held[w]
      BY <1>0, <2>4
    <3>2. ASSUME NEW i \in DOMAIN held'[w], NEW k \in DOMAIN held'[w],
                 held'[w][i].event = held'[w][k].event
          PROVE  i = k
      <4>1. held[w][i + 1].event = held[w][k + 1].event
        BY <2>4, <3>2
      <4>2. i + 1 = k + 1
        BY <1>1, <3>1, <4>1 DEF HeldOnce
      <4> QED
        BY <3>1, <4>2
    <3> QED
      BY <3>2 DEF HeldOnce
  <2>7. EventsOf(job[w])' = EventsOf(job[w])
    BY <2>1 DEF EventsOf
  <2>8. \A e \in EventsOf(job[w]) \ HeldEvents(w)' : Completed(e)'
    <3> HIDE DEF d
    <3>1. ASSUME NEW e \in EventsOf(job[w]), e \notin HeldEvents(w)' PROVE Completed(e)'
      <4>1. CASE e = d
        BY <2>3, <4>1 DEF Completed
      <4>2. CASE e # d
        BY <1>2, <2>2, <2>5, <3>1, <4>2
      <4> QED
        BY <4>1, <4>2
    <3> QED
      BY <2>7, <3>1
  <2>9. \A e \in HeldEvents(w)' : Untouched(e)'
    BY <1>2, <2>2, <2>5
  <2>10. CASE Len(held[w]) > 1
    <3>1. 1 \in DOMAIN held'[w] /\ Item(w)' = held'[w][1]
      BY <1>0, <2>1, <2>4, <2>10 DEF Item
    <3>2. Item(w).event' \in HeldEvents(w)'
      BY <3>1 DEF HeldEvents
    <3>3. counted'[Item(w).event'] = 0
      BY <2>9, <3>2 DEF Untouched
    <3>4. Persisting(w)'
      BY <2>1, <2>7, <2>8, <2>9, <2>10, <3>2, <3>3 DEF Persisting
    <3> QED
      BY <2>1, <2>2, <2>6, <2>10, <3>4 DEF Attempt
  <2>11. CASE ~(Len(held[w]) > 1)
    <3>1. HeldEvents(w)' = {}
      BY <1>0, <2>4, <2>11 DEF HeldEvents
    <3> QED
      BY <2>1, <2>2, <2>6, <2>7, <2>8, <2>11, <3>1 DEF Attempt
  <2> QED
    BY <2>10, <2>11
<1> QED
  BY <1>3, <1>4, <1>5

\* A step that concerns one job, j: the others do not notice it.
LEMMA OutcomeFrame ==
  ASSUME Typed, FinalInv, WriterInv, Apart', OutcomeInv, NEW j \in Jobs,
         rq'[j] # "absent", \A i \in Jobs \ {j} : rq'[i] = rq[i],
         \A e \in Events : e \notin EventsOf(j) => Kept(e),
         \A w \in Workers : pc'[w] # "idle" => \/ Attempt(w)'
                                               \/ /\ pc[w] # "idle" /\ job[w] # j
                                                  /\ pc'[w] = pc[w] /\ job'[w] = job[w]
                                                  /\ todo'[w] = todo[w] /\ held'[w] = held[w],
         Outcome(j)', \A e \in EventsOf(j) : counted'[e] <= 1
  PROVE  OutcomeInv'
<1>0. /\ \A i \in Jobs : EventsOf(i) \subseteq Events /\ EventsOf(i)' = EventsOf(i)
      /\ \A w \in Workers : pc[w] # "idle" => /\ job[w] \in Jobs /\ rq[job[w]] = "started"
                                              /\ OwnEvents(w)
  BY DEF Events, EventsOf, Typed, TypeOK, HorseTypeOK, FinalInv, WriterInv, Active
<1>1. \A i \in Jobs \ {j} : rq'[i] # "absent" => \A e \in EventsOf(i) : Kept(e)
  BY <1>0 DEF Apart
<1>2. ASSUME NEW w \in Workers, pc'[w] # "idle" PROVE Attempt(w)'
  <2>1. CASE /\ pc[w] # "idle" /\ job[w] # j /\ pc'[w] = pc[w] /\ job'[w] = job[w]
             /\ todo'[w] = todo[w] /\ held'[w] = held[w]
    <3>1. job[w] \in Jobs \ {j} /\ rq'[job[w]] # "absent" /\ OwnEvents(w) /\ Attempt(w)
      BY <1>0, <2>1 DEF OutcomeInv
    <3>2. \A e \in EventsOf(job[w]) : Kept(e)
      BY <1>1, <3>1
    <3> QED
      BY <2>1, <3>1, <3>2, ItemHeld, AttemptKept
  <2> QED
    BY <1>2, <2>1
<1>3. ASSUME NEW i \in Jobs \ {j} PROVE Outcome(i)'
  <2>1. CASE rq'[i] = "absent"
    BY <2>1 DEF Outcome
  <2>2. CASE rq'[i] # "absent"
    BY <1>1, <2>2, OutcomeKept DEF OutcomeInv
  <2> QED
    BY <2>1, <2>2
<1>4. ASSUME NEW e \in Events, Free(e)' PROVE Untouched(e)'
  <2>1. e \notin EventsOf(j) /\ Free(e)
    BY <1>0, <1>4 DEF Free
  <2> QED
    BY <2>1, KeptUntouched DEF OutcomeInv
<1>5. \A e \in Events : counted'[e] <= 1
  BY DEF OutcomeInv, Kept
<1> QED
  BY <1>2, <1>3, <1>4, <1>5 DEF OutcomeInv

\* A step that moves no job and no work-horse and completes nothing.
LEMMA OutcomeQuiet ==
  ASSUME Typed, WriterInv, OutcomeInv, UNCHANGED <<rq, pc, job, todo, held>>,
         \A e \in Events : Kept(e)
  PROVE  OutcomeInv'
<1>0. /\ \A i \in Jobs : EventsOf(i) \subseteq Events /\ EventsOf(i)' = EventsOf(i)
      /\ \A w \in Workers : pc[w] # "idle" => job[w] \in Jobs /\ OwnEvents(w)
  BY DEF Events, EventsOf, Typed, TypeOK, HorseTypeOK, WriterInv
<1>1. ASSUME NEW w \in Workers, pc[w] # "idle" PROVE Attempt(w)'
  <2>1. OwnEvents(w) /\ Attempt(w) /\ \A e \in EventsOf(job[w]) : Kept(e)
    BY <1>0, <1>1 DEF OutcomeInv
  <2> QED
    BY <2>1, ItemHeld, AttemptKept
<1>2. ASSUME NEW i \in Jobs PROVE Outcome(i)'
  BY <1>0, OutcomeKept DEF OutcomeInv
<1>3. ASSUME NEW e \in Events PROVE counted'[e] <= 1 /\ (Free(e)' => Untouched(e)')
  <2>1. Free(e)' => Free(e)
    BY <1>0 DEF Free
  <2> QED
    BY <2>1, KeptUntouched DEF OutcomeInv, Kept
<1> QED
  BY <1>1, <1>2, <1>3 DEF OutcomeInv

\* The API and RQ complete, claim and count nothing.
LEMMA OutsideKeeps ==
  ASSUME Typed, WriterInv, NEW e \in Events, NEW j \in Jobs,
         Enqueue(j) \/ Store(j) \/ StoreLost(j) \/ Requeue(j) \/ Reschedule(j)
  PROVE  Kept(e)
<1> USE DEF redis, queue, horse
<1>0. record \in [Events -> Record] /\ unstored \in [Jobs -> Seq(Events)]
  BY DEF Typed, TypeOK, RedisTypeOK
<1>1. UNCHANGED <<marker, counted>>
  BY DEF Enqueue, Store, StoreLost, Requeue, Reschedule
<1>2. CASE record' = record
  BY <1>1, <1>2 DEF Kept, KeysOf
<1>3. CASE Store(j)
  <2> DEFINE d == Head(unstored[j])
  <2>1. unstored[j] # <<>> /\ SetRecord(d, "queued", j)
    BY <1>3 DEF Store
  <2>2. 1 \in DOMAIN unstored[j] /\ d = unstored[j][1] /\ d \in Events
    BY <1>0, <2>1
  <2>3. record[d].status # "completed"
    BY <2>2 DEF WriterInv, Waiting
  <2> HIDE DEF d
  <2> QED
    BY <1>0, <1>1, <2>1, <2>2, <2>3 DEF Kept, KeysOf, SetRecord
<1> QED
  BY <1>2, <1>3 DEF Enqueue, StoreLost, Requeue, Reschedule

\* The API and RQ.
LEMMA OutcomeOutside ==
  ASSUME Typed, FinalInv, WriterInv, Apart', OutcomeInv, NEW j \in Jobs,
         Enqueue(j) \/ Store(j) \/ StoreLost(j) \/ Requeue(j) \/ Reschedule(j)
  PROVE  OutcomeInv'
<1> USE DEF redis, queue, horse
<1>0. /\ rq \in [Jobs -> Places]
      /\ \A w \in Workers : pc[w] # "idle" => rq[job[w]] = "started"
      /\ \A i \in Jobs : EventsOf(i) \subseteq Events /\ EventsOf(i)' = EventsOf(i)
  BY DEF Typed, TypeOK, RedisTypeOK, QueueTypeOK, FinalInv, WriterInv, Active, Events, EventsOf
<1>1. UNCHANGED <<marker, counted, pc, job, todo, held>>
  BY DEF Enqueue, Store, StoreLost, Requeue, Reschedule
<1>2. \A e \in Events : Kept(e)
  BY OutsideKeeps
<1>3. CASE rq' = rq
  BY <1>1, <1>2, <1>3, OutcomeQuiet
<1>4. CASE Enqueue(j) \/ Requeue(j) \/ Reschedule(j)
  <2>1. /\ rq' = [rq EXCEPT ![j] = "queued"]
        /\ rq[j] \in {"scheduled", "failed"} \/ (rq[j] = "absent" /\ Enqueue(j))
    BY <1>4 DEF Enqueue, Requeue, Reschedule
  <2>2. rq'[j] = "queued" /\ \A i \in Jobs \ {j} : rq'[i] = rq[i]
    BY <1>0, <2>1
  <2>3. ASSUME NEW e \in EventsOf(j) PROVE Untouched(e)
    <3>1. CASE rq[j] = "absent"
      <4>1. Free(e)
        BY <1>0, <2>2, <3>1 DEF Free, Apart
      <4> QED
        BY <1>0, <4>1 DEF OutcomeInv
    <3> QED
      BY <2>1, <3>1 DEF OutcomeInv, Outcome
  <2>4. Outcome(j)' /\ \A e \in EventsOf(j) : counted'[e] <= 1
    BY <1>0, <1>2, <2>2, <2>3, KeptUntouched DEF Outcome, OutcomeInv, Kept
  <2>5. \A w \in Workers : pc[w] # "idle" => job[w] # j
    BY <1>0, <2>1
  <2> QED
    BY <1>1, <1>2, <2>2, <2>4, <2>5, OutcomeFrame
<1> QED
  BY <1>3, <1>4 DEF Store, StoreLost

\* A worker takes a job: nothing of it has been done.
LEMMA OutcomeTaken ==
  ASSUME Typed, FinalInv, WriterInv, Apart', OutcomeInv,
         NEW w \in Workers, NEW j \in Jobs, Take(w, j)
  PROVE  OutcomeInv'
<1> USE DEF redis
<1>0. /\ rq[j] = "queued" /\ rq' = [rq EXCEPT ![j] = "started"] /\ rq \in [Jobs -> Places]
      /\ pc'[w] = "load" /\ job'[w] = j /\ todo'[w] = Payload[j] /\ held'[w] = <<>>
      /\ UNCHANGED <<record, marker, counted>>
      /\ \A v \in Workers \ {w} : /\ pc'[v] = pc[v] /\ job'[v] = job[v]
                                  /\ todo'[v] = todo[v] /\ held'[v] = held[v]
      /\ \A v \in Workers : pc[v] # "idle" => job[v] # j
  BY DEF Take, Goto, Typed, TypeOK, QueueTypeOK, HorseTypeOK, FinalInv, WriterInv, Active
<1>1. rq'[j] = "started" /\ \A i \in Jobs \ {j} : rq'[i] = rq[i]
  BY <1>0
<1>2. \A e \in Events : Kept(e)
  BY <1>0 DEF Kept, KeysOf
<1>3. EventsOf(j) \subseteq Events /\ EventsOf(j)' = EventsOf(j)
  BY DEF Events, EventsOf
<1>4. \A e \in EventsOf(j) : Untouched(e)' /\ counted'[e] <= 1
  BY <1>0, <1>2, <1>3, KeptUntouched DEF OutcomeInv, Outcome, Kept
<1>5. Attempt(w)'
  <2>1. HeldEvents(w)' = {} /\ HeldOnce(w)' /\ Rest(w)' = Payload[j]
    BY <1>0 DEF HeldEvents, HeldOnce, Rest
  <2>2. Once(Payload[j]) /\ EventsOf(job[w])' = Members(Payload[j])
    BY <1>0, PayloadOnce DEF EventsOf
  <2>3. Loading(w)'
    BY <1>0, <2>1, <2>2 DEF Loading
  <2>4. \A e \in EventsOf(job[w])' : Untouched(e)'
    BY <1>4, <2>2 DEF EventsOf
  <2> QED
    BY <1>0, <2>1, <2>3, <2>4 DEF Attempt
<1>6. Outcome(j)'
  BY <1>1 DEF Outcome
<1> QED
  BY <1>0, <1>1, <1>2, <1>4, <1>5, <1>6, OutcomeFrame

\* A step of the task of job j.
LEMMA OutcomeOfTask ==
  ASSUME Undisturbed, Typed, FinalInv, WriterInv, Apart', OutcomeInv,
         NEW w \in Workers, TaskStep(w), NEW j \in Jobs, j = job[w]
  PROVE  OutcomeInv'
<1>0. /\ pc[w] # "idle" /\ OwnEvents(w) /\ Attempt(w) /\ ~zombie[w]
      /\ rq[j] = "started" /\ rq \in [Jobs -> Places] /\ pc \in [Workers -> Steps]
      /\ left \in [Jobs -> 0..MaxRetries]
      /\ EventsOf(j) \subseteq Events /\ EventsOf(j)' = EventsOf(j)
  <2>1. pc[w] # "idle"
    BY DEF TaskStep, Load, Begin, EndLoad, Infer, InferRaises, Claim, Write, Count, Blame,
       Cleanup, Unwind, KeepAttempt, SaveDeadLetter, TrimDeadLetters, Demote, Return, Settle
  <2> QED
    BY <2>1 DEF Typed, TypeOK, QueueTypeOK, HorseTypeOK, FinalInv, WriterInv, Active,
       OutcomeInv, Events, EventsOf
<1>1. \A v \in Workers \ {w} : /\ pc'[v] = pc[v] /\ job'[v] = job[v]
                               /\ todo'[v] = todo[v] /\ held'[v] = held[v]
  BY StepIsLocal DEF WorkerStep, Local, Typed, TypeOK, HorseTypeOK
<1>2. \A v \in Workers \ {w} : pc[v] # "idle" => job[v] # j
  BY <1>0 DEF FinalInv, WriterInv, Active
<1>3. ASSUME Attempt(w)' \/ pc'[w] = "idle", rq'[j] # "absent", Outcome(j)',
             \A i \in Jobs \ {j} : rq'[i] = rq[i],
             \A e \in Events : e \notin EventsOf(j) => Kept(e),
             \A e \in EventsOf(j) : counted'[e] <= 1
      PROVE  OutcomeInv'
  <2>1. ASSUME NEW v \in Workers, pc'[v] # "idle"
        PROVE  \/ Attempt(v)'
               \/ /\ pc[v] # "idle" /\ job[v] # j /\ pc'[v] = pc[v] /\ job'[v] = job[v]
                  /\ todo'[v] = todo[v] /\ held'[v] = held[v]
    <3>1. CASE v = w
      BY <1>3, <2>1, <3>1
    <3>2. CASE v # w
      BY <1>1, <1>2, <2>1, <3>2
    <3> QED
      BY <3>1, <3>2
  <2> QED
    BY <1>3, <2>1, OutcomeFrame
<1>4. ASSUME rq' = rq PROVE rq'[j] # "absent" /\ Outcome(j)' /\ \A i \in Jobs \ {j} : rq'[i] = rq[i]
  BY <1>0, <1>4 DEF Outcome
<1>5. ASSUME pc[w] \notin {"claim", "write", "count"}
      PROVE  /\ \A e \in Events : Kept(e)
             /\ \A e \in EventsOf(j) : counted'[e] <= 1
             /\ \A e \in EventsOf(j) : /\ Untouched(e) => Untouched(e)'
                                       /\ Completed(e) => Completed(e)'
  <2>1. \A e \in Events : Kept(e)
    BY <1>0, <1>5, QuietTask
  <2>2. \A e \in EventsOf(j) : Kept(e) /\ counted[e] <= 1
    BY <1>0, <2>1 DEF OutcomeInv
  <2> QED
    BY <2>1, <2>2, KeptUntouched DEF Kept
<1>6. CASE Load(w) \/ Begin(w) \/ EndLoad(w)
  <2>1. rq' = rq /\ pc[w] \notin {"claim", "write", "count"}
    BY <1>6 DEF Load, Begin, EndLoad, queue
  <2>2. Attempt(w)'
    BY <1>0, <1>5, <1>6, <2>1, LoadingStep
  <2> QED
    BY <1>3, <1>4, <1>5, <2>1, <2>2
<1>7. CASE \/ Infer(w) \/ InferRaises(w) \/ Blame(w) \/ Cleanup(w) \/ Unwind(w)
           \/ KeepAttempt(w) \/ SaveDeadLetter(w) \/ TrimDeadLetters(w) \/ Demote(w)
  <2>1. rq' = rq /\ pc[w] \notin {"claim", "write", "count"}
    BY <1>7 DEF Infer, InferRaises, Blame, Cleanup, Unwind, KeepAttempt, SaveDeadLetter,
       TrimDeadLetters, Demote, queue
  <2>2. Attempt(w)'
    BY <1>0, <1>5, <1>7, <2>1, PassingStep
  <2> QED
    BY <1>3, <1>4, <1>5, <2>1, <2>2
<1>8. CASE Claim(w) \/ Write(w) \/ Count(w)
  <2>1. rq' = rq /\ pc[w] \in Working
    BY <1>8 DEF Claim, Write, Count, queue, Working
  <2>2. Item(w).event \in EventsOf(j)
    BY <1>0, <2>1, ItemHeld
  <2>3. /\ Attempt(w)' /\ counted'[Item(w).event] <= 1
        /\ \A e \in Events : e # Item(w).event => Kept(e)
    BY <1>0, <1>8, PersistStep
  <2>4. \A e \in EventsOf(j) : counted'[e] <= 1
    BY <1>0, <2>3 DEF OutcomeInv, Kept
  <2> QED
    BY <1>3, <1>4, <2>1, <2>2, <2>3, <2>4
<1>9. CASE Return(w)
  <2>1. /\ rq' = [rq EXCEPT ![j] = "finished"] /\ pc'[w] = "idle" /\ pc[w] = "return"
    BY <1>0, <1>9 DEF Return, Leave, Goto
  <2>2. rq'[j] = "finished" /\ \A i \in Jobs \ {j} : rq'[i] = rq[i]
    BY <1>0, <2>1
  <2>3. \A e \in EventsOf(j) : Completed(e)
    BY <1>0, <2>1 DEF Attempt
  <2>4. \A e \in EventsOf(j) : Completed(e)'
    BY <1>5, <2>1, <2>3
  <2>5. Outcome(j)'
    BY <1>0, <2>2, <2>4 DEF Outcome
  <2> QED
    BY <1>3, <1>5, <2>1, <2>2, <2>5
<1>10. CASE Settle(w)
  <2>1. FailJob(j) /\ pc'[w] = "idle" /\ pc[w] = "settle"
    BY <1>0, <1>10 DEF Settle, Leave, Goto
  <2>2. rq'[j] \in {"scheduled", "failed"} /\ \A i \in Jobs \ {j} : rq'[i] = rq[i]
    BY <1>0, <2>1 DEF FailJob
  <2>3. \A e \in EventsOf(j) : Untouched(e)
    BY <1>0, <2>1 DEF Attempt
  <2>4. \A e \in EventsOf(j) : Untouched(e)'
    BY <1>5, <2>1, <2>3
  <2>5. Outcome(j)'
    BY <1>0, <2>2, <2>4 DEF Outcome
  <2> QED
    BY <1>3, <1>5, <2>1, <2>2, <2>5
<1> QED
  BY <1>6, <1>7, <1>8, <1>9, <1>10 DEF TaskStep

LEMMA StepOutcome ==
  ASSUME Undisturbed
  PROVE  Typed /\ FinalInv /\ WriterInv /\ Apart' /\ OutcomeInv /\ [Next]_vars => OutcomeInv'
<1> SUFFICES ASSUME Typed, FinalInv, WriterInv, Apart', OutcomeInv, [Next]_vars
             PROVE  OutcomeInv'
  OBVIOUS
<1>1. CASE ExpireCurrent \/ UNCHANGED vars
  <2>1. UNCHANGED <<record, marker, counted, rq, pc, job, todo, held>>
    BY <1>1 DEF ExpireCurrent, vars, queue, horse
  <2>2. \A e \in Events : Kept(e)
    BY <2>1 DEF Kept, KeysOf
  <2> QED
    BY <2>1, <2>2, OutcomeQuiet
<1>2. ASSUME NEW w \in Workers, TaskStep(w) PROVE OutcomeInv'
  <2>1. pc[w] # "idle"
    BY <1>2 DEF TaskStep, Load, Begin, EndLoad, Infer, InferRaises, Claim, Write, Count, Blame,
       Cleanup, Unwind, KeepAttempt, SaveDeadLetter, TrimDeadLetters, Demote, Return, Settle
  <2>2. job[w] \in Jobs
    BY <2>1 DEF Typed, TypeOK, HorseTypeOK
  <2> QED
    BY <1>2, <2>2, OutcomeOfTask
<1> QED
  BY <1>1, <1>2, OutcomeOutside, OutcomeTaken, NoFaults DEF Next, Deliver

LEMMA StepShown ==
  ASSUME Undisturbed, MaxRetries > 0
  PROVE  Typed /\ WriterInv /\ OutcomeInv /\ ShownInv /\ [Next]_vars => ShownInv'
<1> SUFFICES ASSUME Typed, WriterInv, OutcomeInv, ShownInv, [Next]_vars, current' # "none"
             PROVE  \/ \E w \in Workers : pc'[w] \notin {"idle", "return"}
                    \/ \E j \in Jobs : left'[j] < MaxRetries
  BY DEF ShownInv
<1> USE DEF redis, queue, horse
<1>0. /\ pc \in [Workers -> Steps] /\ left \in [Jobs -> 0..MaxRetries] /\ HorseTypeOK
      /\ \A w \in Workers : pc[w] # "idle" => job[w] \in Jobs /\ Attempt(w) /\ OwnEvents(w)
      /\ \A w \in Workers : ~zombie[w]
      /\ MaxRetries \in Nat
  BY BoundsAssumption DEF Typed, TypeOK, QueueTypeOK, HorseTypeOK, WriterInv, OutcomeInv
\* A witness that the step leaves alone.
<1>1. ASSUME current' = current, left' = left,
             \A w \in Workers : pc[w] \notin {"idle", "return"} => pc'[w] \notin {"idle", "return"}
      PROVE  \/ \E w \in Workers : pc'[w] \notin {"idle", "return"}
             \/ \E j \in Jobs : left'[j] < MaxRetries
  BY <1>1 DEF ShownInv
<1>2. ASSUME NEW j \in Jobs,
             Enqueue(j) \/ Store(j) \/ StoreLost(j) \/ Requeue(j) \/ Reschedule(j)
      PROVE  current' = current /\ left' = left /\ pc' = pc
  BY <1>2 DEF Enqueue, Store, StoreLost, Requeue, Reschedule
<1>3. CASE UNCHANGED vars \/ ExpireCurrent
  BY <1>1, <1>3 DEF vars, ExpireCurrent
<1>4. ASSUME NEW w \in Workers, pc'[w] \notin {"idle", "return"}
      PROVE  \E v \in Workers : pc'[v] \notin {"idle", "return"}
  BY <1>4
<1>5. ASSUME NEW w \in Workers, NEW j \in Jobs, Take(w, j) PROVE pc'[w] = "load"
  BY <1>0, <1>5 DEF Take, Goto
<1>6. ASSUME NEW w \in Workers, Load(w) PROVE pc'[w] \notin {"idle", "return"}
  <2>1. pc[w] = "load" /\ todo[w] # <<>>
    BY <1>6 DEF Load
  <2>2. Head(todo[w]) \in EventsOf(job[w])
    <3>1. todo[w] \in Seq(Events) /\ OwnEvents(w)
      BY <1>0, <2>1 DEF HorseTypeOK
    <3>2. 1 \in DOMAIN todo[w] /\ Head(todo[w]) = todo[w][1]
      BY <2>1, <3>1
    <3> QED
      BY <3>1, <3>2 DEF OwnEvents
  <2>3. ~AlreadyDone(Head(todo[w]))
    BY <1>0, <2>1, <2>2 DEF Attempt, AlreadyDone, Untouched
  <2> QED
    BY <1>0, <1>6, <2>3 DEF Load, Goto
<1>7. ASSUME NEW w \in Workers, Cleanup(w) PROVE current' = "none"
  BY <1>7 DEF Cleanup, ClearTask, Struck, Undisturbed
<1>8. ASSUME NEW w \in Workers, Settle(w) PROVE \E j \in Jobs : left'[j] < MaxRetries
  <2>1. FailJob(job[w]) /\ job[w] \in Jobs
    BY <1>0, <1>8 DEF Settle
  <2>2. left'[job[w]] < MaxRetries
    BY <1>0, <2>1 DEF FailJob
  <2> QED
    BY <2>1, <2>2
<1>9. ASSUME NEW w \in Workers, Return(w)
      PROVE  /\ current' = current /\ left' = left /\ pc[w] = "return"
             /\ \A v \in Workers \ {w} : pc'[v] = pc[v]
  BY <1>0, <1>9 DEF Return, Leave, Goto
<1>10. ASSUME NEW w \in Workers,
              \/ Begin(w) \/ EndLoad(w) \/ Infer(w) \/ InferRaises(w) \/ Claim(w) \/ Write(w)
              \/ Count(w) \/ Blame(w) \/ Unwind(w) \/ KeepAttempt(w) \/ SaveDeadLetter(w)
              \/ TrimDeadLetters(w) \/ Demote(w)
       PROVE  pc'[w] \notin {"idle", "return"}
  BY <1>0, <1>10 DEF Begin, EndLoad, Infer, InferRaises, AfterInferError, Claim, Write, Count,
     Blame, NextItem, Unwind, KeepAttempt, SaveDeadLetter, TrimDeadLetters, Demote, Goto
<1>11. ASSUME NEW w \in Workers, TaskStep(w)
       PROVE  \/ \E v \in Workers : pc'[v] \notin {"idle", "return"}
              \/ \E j \in Jobs : left'[j] < MaxRetries
  <2>1. CASE Return(w)
    BY <1>1, <1>9, <2>1
  <2> QED
    BY <1>4, <1>6, <1>7, <1>8, <1>10, <1>11, <2>1 DEF TaskStep
<1> QED
  BY <1>1, <1>2, <1>3, <1>4, <1>5, <1>11, NoFaults DEF Next, Deliver

LEMMA InitOutcome == Init => OutcomeInv /\ ShownInv
<1> SUFFICES ASSUME Init PROVE OutcomeInv
  BY DEF Init, ShownInv
<1>1. \A j \in Jobs : EventsOf(j) \subseteq Events
  BY DEF Events, EventsOf
<1>2. \A e \in Events : Untouched(e) /\ counted[e] <= 1
  BY DEF Init, Untouched, KeysOf
<1> QED
  BY <1>1, <1>2 DEF Init, OutcomeInv, Outcome

LEMMA OutcomeSettled ==
  ASSUME OutcomeInv
  PROVE  FinishedMeansSettled /\ \A e \in Events : counted[e] <= 1
  BY DEF OutcomeInv, Outcome, Completed, FinishedMeansSettled

\* When nothing fails but an API process between its initial writes, and jobs
\* share no event, a job RQ calls finished has completed every event of its
\* batch: malformed replies, retries, exhausted retries and requeues included.
THEOREM FinishedJobsAreSettled ==
  ASSUME Undisturbed, Unshared
  PROVE  Spec => []FinishedMeansSettled
<1>1. Apart /\ Apart'
  BY DEF Apart, Unshared, EventsOf
<1>2. Init => FinalInv
  BY DEF Init, FinalInv, DeadLetterIsFinal, Active
<1>3. OneAtATime
  BY DEF OneAtATime, Undisturbed
<1>4. Typed /\ FinalInv /\ WriterInv /\ [Next]_vars => WriterInv'
  BY <1>1, <1>3, StepWriter
<1>5. Typed /\ FinalInv /\ WriterInv /\ OutcomeInv /\ [Next]_vars => OutcomeInv'
  BY <1>1, StepOutcome
<1>6. OutcomeInv => FinishedMeansSettled
  BY OutcomeSettled
<1> QED
  BY <1>2, <1>4, <1>5, <1>6, InitWriter, InitOutcome, StepFinal, AlwaysTyped, PTL DEF Spec

=============================================================================
