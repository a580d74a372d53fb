------------------------- MODULE ClearSimulatedProofs -------------------------
(***************************************************************************)
(* Proofs about ClearSimulated, for every set of jobs, payloads, synthetic *)
(* events and workers, every retry bound and every set of faults.          *)
(***************************************************************************)
EXTENDS ClearSimulated, JobExecutionProofs

-----------------------------------------------------------------------------
(* Types.  Beside the request's own variables, the request only ever       *)
(* writes "no record" and takes jobs out of RQ.                            *)

\* What the request is about to delete is synthetic.
RequestOK ==
    /\ \A item \in found : item.event \in Synthetic
    /\ \A m \in sweep : m[1] \in Synthetic

ClearTyped == Typed /\ RequestOK

\* A step is one of the request, or one of JobExecution.
LEMMA WhoSteps ==
  ASSUME [ClearNext]_clearVars
  PROVE  \/ Clear
         \/ Next /\ UNCHANGED request
         \/ UNCHANGED <<vars, request>>
  BY DEF ClearNext, Beside, Next, Deliver, clearVars

\* The steps of the request that change anything the workers can see.
LEMMA RequestSteps ==
  ASSUME Clear
  PROVE  \/ UNCHANGED vars
         \/ \E item \in found : DeleteRecord(item)
         \/ \E m \in sweep : DeleteMarker(m)
         \/ \E j \in doomed : RemoveJob(j)
  BY DEF Clear, Begun, RecordsDeleted, RequestRaises, Answer, ReadRecord, RemovalFails

LEMMA ClearTypedStep == ClearTyped /\ [ClearNext]_clearVars => ClearTyped'
<1> SUFFICES ASSUME ClearTyped, [ClearNext]_clearVars PROVE ClearTyped'
  OBVIOUS
<1>0. Typed /\ RequestOK /\ RedisTypeOK /\ QueueTypeOK
  BY DEF ClearTyped, Typed, TypeOK
<1>1. ASSUME RedisTypeOK', QueueTypeOK', UNCHANGED horse PROVE Typed'
  BY <1>0, <1>1 DEF Typed, TypeOK, HorseTypeOK, Shape, horse
<1>2. ASSUME Next \/ UNCHANGED vars PROVE Typed'
  BY <1>0, <1>2, StepTyped
<1>3. ASSUME NEW item \in found, DeleteRecord(item) PROVE Typed'
  <2>1. record' \in [Events -> Record]
    BY <1>0, <1>3 DEF DeleteRecord, SetRecord, RedisTypeOK, Record, Statuses, Keys
  <2> QED
    BY <1>0, <1>1, <1>3, <2>1 DEF DeleteRecord, RedisTypeOK, QueueTypeOK, queue
<1>4. ASSUME NEW m \in sweep, DeleteMarker(m) PROVE Typed'
  BY <1>0, <1>1, <1>4 DEF DeleteMarker, RedisTypeOK, QueueTypeOK, queue
<1>5. ASSUME NEW j \in doomed, RemoveJob(j) PROVE Typed'
  <2>1. rq' \in [Jobs -> Places]
    BY <1>0, <1>5 DEF RemoveJob, Forgotten, QueueTypeOK, Places
  <2> QED
    BY <1>0, <1>1, <1>5, <2>1 DEF RemoveJob, RedisTypeOK, QueueTypeOK, redis
<1>6. RequestOK'
  <2>1. CASE Clear
    BY <1>0, <2>1 DEF Clear, Begun, RecordsDeleted, RequestRaises, Answer, ReadRecord,
       DeleteRecord, DeleteMarker, RemoveJob, RemovalFails, RequestOK, MarkersOf
  <2>2. CASE UNCHANGED request
    BY <1>0, <2>2 DEF request, RequestOK
  <2> QED
    BY <2>1, <2>2, WhoSteps
<1> QED
  BY <1>2, <1>3, <1>4, <1>5, <1>6, WhoSteps, RequestSteps DEF ClearTyped

LEMMA ClearInitTyped == ClearInit => ClearTyped
  BY InitTyped DEF ClearInit, ClearTyped, RequestOK

-----------------------------------------------------------------------------
(* Real events.  JobExecution's balance of counts and markers holds event  *)
(* by event, and the request does not touch a real event's side of it.     *)

RealBalanced == \A e \in Events \ Synthetic : Balanced(e)

LEMMA RequestSparesReal ==
  ASSUME ClearTyped, Clear, NEW e \in Events \ Synthetic
  PROVE  counted' = counted /\ Owing(e)' = Owing(e) /\ KeysOf(e)' = KeysOf(e)
<1>0. RequestOK
  BY DEF ClearTyped
<1>1. CASE UNCHANGED vars
  BY <1>1 DEF vars, Owing, KeysOf, Item
<1>2. ASSUME NEW item \in found, DeleteRecord(item)
      PROVE  UNCHANGED <<counted, marker, horse>>
  BY <1>2 DEF DeleteRecord
<1>3. ASSUME NEW m \in sweep, DeleteMarker(m)
      PROVE  UNCHANGED <<counted, horse>> /\ KeysOf(e)' = KeysOf(e)
  <2>1. m[1] \in Synthetic /\ marker' = marker \ {m} /\ UNCHANGED <<counted, horse>>
    BY <1>0, <1>3 DEF RequestOK, DeleteMarker
  <2>2. \A k \in Keys : <<e, k>> # m
    BY <2>1
  <2> QED
    BY <2>1, <2>2 DEF KeysOf
<1>4. ASSUME NEW j \in doomed, RemoveJob(j) PROVE UNCHANGED <<counted, marker, horse>>
  BY <1>4 DEF RemoveJob, redis
<1>5. ASSUME UNCHANGED horse PROVE Owing(e)' = Owing(e)
  BY <1>5 DEF horse, Owing, Item
<1>6. ASSUME marker' = marker PROVE KeysOf(e)' = KeysOf(e)
  BY <1>6 DEF KeysOf
<1> QED
  BY <1>1, <1>2, <1>3, <1>4, <1>5, <1>6, RequestSteps

LEMMA RealStep == ClearTyped /\ RealBalanced /\ [ClearNext]_clearVars => RealBalanced'
<1> SUFFICES ASSUME ClearTyped, RealBalanced, [ClearNext]_clearVars,
                    NEW e \in Events \ Synthetic
             PROVE  counted'[e] + Cardinality(Owing(e)') <= Cardinality(KeysOf(e)')
  BY DEF RealBalanced, Balanced, Events
<1>1. e \in Events /\ Typed /\ Balanced(e)
  BY DEF RealBalanced, ClearTyped
<1>2. CASE [Next]_vars
  BY <1>1, <1>2, StepBalanced
<1>3. CASE Clear
  BY <1>1, <1>3, RequestSparesReal DEF Balanced
<1> QED
  BY <1>2, <1>3, WhoSteps

\* A real event's markers, counted as the property counts them.
LEMMA AsManyMarkers ==
  ASSUME RedisTypeOK, NEW e \in Events
  PROVE  /\ Cardinality(KeysOf(e)) <= Cardinality(MarkersOf(e))
         /\ Cardinality(MarkersOf(e)) \in Nat
<1> DEFINE f == [k \in KeysOf(e) |-> <<e, k>>]
           g == [m \in MarkersOf(e) |-> m[2]]
<1>1. f \in Injection(KeysOf(e), MarkersOf(e))
  BY DEF Injection, IsInjective, KeysOf, MarkersOf
<1>2. g \in Injection(MarkersOf(e), Keys)
  BY DEF Injection, IsInjective, MarkersOf, RedisTypeOK
<1>3. IsFiniteSet(Keys)
  BY JobsAssumption, FS_AddElement DEF Keys
<1>4. IsFiniteSet(MarkersOf(e))
  BY <1>2, <1>3, FS_Injection
<1> QED
  BY <1>1, <1>4, FS_Injection, FS_CardinalityType

\* While simulated data is cleared beside it, each real event is still counted
\* at most once per marker, whatever fails.
THEOREM RealEventsUnharmed == ClearSpec => []RealCountedOnce
<1>1. ClearInit => RealBalanced
  <2> SUFFICES ASSUME ClearInit, NEW e \in Events PROVE Balanced(e)
    BY DEF RealBalanced
  <2>1. counted[e] = 0 /\ Owing(e) = {} /\ KeysOf(e) = {}
    BY DEF ClearInit, Init, Owing, KeysOf
  <2> QED
    BY <2>1, FS_EmptySet DEF Balanced
<1>2. ClearTyped /\ RealBalanced => RealCountedOnce
  <2> SUFFICES ASSUME ClearTyped, RealBalanced, NEW e \in Events \ Synthetic
               PROVE  counted[e] <= Cardinality(MarkersOf(e))
    BY DEF RealCountedOnce
  <2>1. RedisTypeOK /\ e \in Events /\ Balanced(e)
    BY DEF RealBalanced, ClearTyped, Typed, TypeOK
  <2>2. /\ counted[e] \in Nat /\ counted[e] + Cardinality(Owing(e)) <= Cardinality(KeysOf(e))
        /\ Cardinality(KeysOf(e)) <= Cardinality(MarkersOf(e))
        /\ Cardinality(MarkersOf(e)) \in Nat
    BY <2>1, AsManyMarkers DEF RedisTypeOK, Balanced
  <2> QED
    BY <2>1, <2>2, CountsFinite
<1> QED
  BY <1>1, <1>2, RealStep, ClearTypedStep, ClearInitTyped, PTL DEF ClearSpec


-----------------------------------------------------------------------------
(* What the request can count on.  A work-horse handles its job's events   *)
(* only, under a job_id that is either the default or a job with that      *)
(* event, and a job RQ has as started has a work-horse.                    *)

KeyFits(e, key) == key \in Jobs => e \in EventsOf(key)

WorkInv ==
    /\ \A w \in Workers : IF pc[w] = "idle" THEN held[w] = <<>> ELSE OwnEvents(w)
    /\ \A w \in Workers : pc[w] = "idle" => ~zombie[w]
    /\ \A w \in Workers : \A i \in DOMAIN held[w] : KeyFits(held[w][i].event, held[w][i].key)
    /\ \A j \in Jobs : \A i \in DOMAIN unstored[j] : unstored[j][i] \in EventsOf(j)
    /\ \A e \in Events : KeyFits(e, record[e].key)
    /\ \A j \in Jobs : rq[j] = "started" => \E w \in Workers : Active(w) /\ job[w] = j

-----------------------------------------------------------------------------
(* Cleared for good.  Before the request, what has a marker has a record,  *)
(* so that whoever deletes all records finds all markers.                  *)

\* What worker w holds and has begun.
InHand(w) == {held[w][i].event : i \in {k \in DOMAIN held[w] : pc[w] = "begin" => k < Len(held[w])}}

Recorded(e) == record[e].status # "none"

BeforeInv ==
    /\ excused = {} /\ unread = {} /\ found = {} /\ sweep = {} /\ doomed = {} /\ gone = {}
    /\ \A m \in marker : Recorded(m[1])
    /\ \A w \in Workers : \A e \in InHand(w) : Recorded(e)

\* During the request, of every job that does not run.
QuietInv(j) ==
    /\ j \notin Running
    /\ \A e \in EventsOf(j) : \A m \in MarkersOf(e) : Recorded(e) \/ m \in sweep
    /\ step # "failed" =>
         \A e \in EventsOf(j) \cap Synthetic :
            Recorded(e) => e \in unread \/ [event |-> e, key |-> record[e].key] \in found
    /\ j \in gone => rq[j] = "absent"

DuringInv ==
    /\ step \in {"scan", "delete", "jobs", "done", "failed"}
    /\ step \in {"delete", "jobs", "done"} => unread = {}
    /\ step \in {"jobs", "done"} => found = {} /\ sweep = {}
    /\ \A item \in found : KeyFits(item.event, item.key)
    /\ \A j \in (gone \cup doomed) \cap Jobs : EventsOf(j) \subseteq Synthetic
    /\ gone \subseteq Jobs
    /\ gone # {} => step \in {"jobs", "done"}
    /\ \A j \in Jobs \ excused : QuietInv(j)

ClearedInv == WorkInv /\ IF step = "idle" THEN BeforeInv ELSE DuringInv

-----------------------------------------------------------------------------
(* Nothing left.  When the API's initial writes are made before a worker   *)
(* starts, each job that rests has records with its id, which lead the     *)
(* request to it.                                                          *)

StoredInv ==
    /\ \A w \in Workers : pc[w] # "idle" => unstored[job[w]] = <<>> /\ rq[job[w]] # "absent"
    /\ \A w \in Workers : \A i \in DOMAIN held[w] : held[w][i].key = job[w]
    /\ \A j \in Jobs : unstored[j] # <<>> => rq[j] # "absent"
    /\ \A j \in Jobs : rq[j] # "absent" =>
         \A e \in EventsOf(j) \ Members(unstored[j]) : Recorded(e) /\ record[e].key = j

Leads(j) == \E e \in EventsOf(j) : e \in unread /\ Recorded(e) /\ record[e].key = j

FindInv ==
    /\ step = "done" => doomed = {}
    /\ step = "scan" => doomed = {item.key : item \in found}
    /\ \A j \in Jobs \ excused :
         EventsOf(j) \subseteq Synthetic /\ rq[j] # "absent" /\ step # "failed"
           => j \in doomed \/ (step = "scan" /\ Leads(j))

FoundInv == IF step = "idle" THEN StoredInv ELSE FindInv

-----------------------------------------------------------------------------
(* What a step of one work-horse does to its memory and to Redis.          *)

\* A work-horse holds what it held, and what it has just loaded.
LEMMA HeldStep ==
  ASSUME Typed, NEW w \in Workers, WorkerStep(w), NEW i \in DOMAIN held'[w]
  PROVE  \/ \E k \in DOMAIN held[w] : held'[w][i] = held[w][k]
         \/ /\ todo[w] # <<>> /\ pc[w] = "load"
            /\ held'[w][i] = [event |-> Head(todo[w]), key |-> record[Head(todo[w])].key]
<1> USE DEF queue, redis, horse
<1>0. /\ held \in [Workers -> Seq(Items)] /\ held[w] \in Seq(Items) /\ Len(held[w]) \in Nat
      /\ pc[w] \in Working => held[w] # <<>>
      /\ todo \in [Workers -> Seq(Events)] /\ record \in [Events -> Record]
  BY DEF Typed, TypeOK, HorseTypeOK, RedisTypeOK, Shape
<1>1. CASE held'[w] = held[w]
  BY <1>1
<1>2. CASE Load(w)
  <2> DEFINE m == [event |-> Head(todo[w]), key |-> record[Head(todo[w])].key]
  <2>1. /\ todo[w] # <<>> /\ pc[w] = "load"
        /\ held' = held \/ held' = [held EXCEPT ![w] = Append(@, m)]
    BY <1>2 DEF Load
  <2>2. m \in Items
    BY <1>0, <2>1, HeadTail DEF Items, Record
  <2>3. m = [event |-> Head(todo[w]), key |-> record[Head(todo[w])].key]
    OBVIOUS
  <2> HIDE DEF m
  <2>4. CASE held'[w] = Append(held[w], m)
    BY <1>0, <2>1, <2>2, <2>3, <2>4
  <2> QED
    BY <1>0, <1>1, <2>1, <2>4
<1>3. CASE held[w] # <<>> /\ held'[w] = SubSeq(held[w], 1, Len(held[w]) - 1)
  BY <1>0, <1>3
<1>4. CASE held[w] # <<>> /\ held'[w] = Tail(held[w])
  BY <1>0, <1>4
<1>5. CASE held'[w] = <<>>
  BY <1>5
<1>6. CASE MarkRaises(w)
  BY <1>0, <1>1, <1>3, <1>6 DEF MarkRaises, Working
<1>7. CASE Claim(w) \/ Count(w) \/ Blame(w) \/ PersistSwallowed(w)
  BY <1>0, <1>1, <1>4, <1>7 DEF Claim, Count, Blame, PersistSwallowed, NextItem, Working
<1>8. CASE Return(w) \/ Settle(w) \/ Kill(w)
  BY <1>0, <1>5, <1>8 DEF Return, Settle, Kill, Leave
<1>9. CASE Begin(w) \/ EndLoad(w) \/ Infer(w) \/ InferRaises(w) \/ Write(w)
  BY <1>1, <1>9 DEF Begin, EndLoad, Infer, InferRaises, Write
<1>10. CASE Cleanup(w) \/ Unwind(w) \/ PersistRaises(w) \/ BlameRaises(w) \/ TimeoutEscapes(w)
  BY <1>1, <1>10 DEF Cleanup, Unwind, PersistRaises, BlameRaises, TimeoutEscapes
<1>11. CASE \/ KeepAttempt(w) \/ SaveDeadLetter(w) \/ TrimDeadLetters(w)
            \/ Demote(w) \/ DemoteRaises(w) \/ Abandon(w)
  BY <1>1, <1>11 DEF KeepAttempt, SaveDeadLetter, TrimDeadLetters, Demote, DemoteRaises,
     Abandon
<1>12. ASSUME NEW j \in Jobs, Take(w, j) PROVE held'[w] = held[w]
  BY <1>12 DEF Take
<1> QED
  BY <1>1, <1>2, <1>6, <1>7, <1>8, <1>9, <1>10, <1>11, <1>12
  DEF WorkerStep, TaskStep, HorseFault

\* Only Begin adds to what a work-horse has begun.
LEMMA InHandStep ==
  ASSUME Typed, NEW w \in Workers, WorkerStep(w), NEW e \in InHand(w)'
  PROVE  e \in InHand(w) \/ (Begin(w) /\ e = Loaded(w).event)
<1> USE DEF queue, redis, horse, Goto
<1>0. /\ held \in [Workers -> Seq(Items)] /\ held[w] \in Seq(Items) /\ Len(held[w]) \in Nat
      /\ pc[w] \in Working => held[w] # <<>>
      /\ pc \in [Workers -> Steps]
      /\ todo \in [Workers -> Seq(Events)] /\ record \in [Events -> Record]
  BY DEF Typed, TypeOK, HorseTypeOK, RedisTypeOK, Shape
<1>1. PICK i \in DOMAIN held'[w] : /\ pc'[w] = "begin" => i < Len(held'[w])
                                   /\ e = held'[w][i].event
  BY DEF InHand
<1>2. CASE held'[w] = held[w] /\ pc[w] # "begin"
  BY <1>1, <1>2 DEF InHand
<1>3. CASE held'[w] = held[w] /\ pc'[w] = "begin"
  BY <1>1, <1>3 DEF InHand
<1>4. CASE Load(w)
  <2> DEFINE m == [event |-> Head(todo[w]), key |-> record[Head(todo[w])].key]
  <2>1. /\ todo[w] # <<>> /\ pc[w] = "load"
        /\ \/ held' = held
           \/ held' = [held EXCEPT ![w] = Append(@, m)] /\ pc' = [pc EXCEPT ![w] = "begin"]
    BY <1>4 DEF Load
  <2>2. m \in Items
    BY <1>0, <2>1, HeadTail DEF Items, Record
  <2> HIDE DEF m
  <2>3. CASE held'[w] = Append(held[w], m) /\ pc'[w] = "begin"
    <3>1. i \in DOMAIN held[w] /\ e = held[w][i].event
      BY <1>0, <1>1, <2>2, <2>3
    <3> QED
      BY <2>1, <3>1 DEF InHand
  <2> QED
    BY <1>0, <1>2, <2>1, <2>3
<1>5. CASE Begin(w)
  BY <1>0, <1>1, <1>5 DEF Begin, InHand, Loaded
<1>6. CASE MarkRaises(w)
  <2>1. CASE pc[w] = "begin"
    <3>1. held'[w] = SubSeq(held[w], 1, Len(held[w]) - 1)
      BY <1>0, <1>6, <2>1 DEF MarkRaises
    <3>2. i \in DOMAIN held[w] /\ i < Len(held[w]) /\ held'[w][i] = held[w][i]
      BY <1>0, <1>1, <2>1, <3>1 DEF Working
    <3> QED
      BY <1>1, <3>2 DEF InHand
  <2>2. CASE pc[w] # "begin"
    BY <1>2, <1>6, <2>2 DEF MarkRaises
  <2> QED
    BY <2>1, <2>2
<1>7. CASE Claim(w) \/ Count(w) \/ Blame(w) \/ PersistSwallowed(w)
  <2>1. pc[w] \in Working \ {"begin"} /\ (held' = held \/ held' = [held EXCEPT ![w] = Tail(@)])
    BY <1>7 DEF Claim, Count, Blame, PersistSwallowed, NextItem, Working
  <2>2. CASE held'[w] = Tail(held[w])
    <3>1. i + 1 \in DOMAIN held[w] /\ held'[w][i] = held[w][i + 1]
      BY <1>0, <1>1, <2>1, <2>2
    <3> QED
      BY <1>1, <2>1, <3>1 DEF InHand
  <2> QED
    BY <1>0, <1>2, <2>1, <2>2
<1>8. CASE Return(w) \/ Settle(w) \/ Kill(w)
  BY <1>0, <1>1, <1>8 DEF Return, Settle, Kill, Leave
<1>9. CASE EndLoad(w) \/ Infer(w) \/ InferRaises(w) \/ Write(w)
  BY <1>2, <1>9 DEF EndLoad, Infer, InferRaises, Write
<1>10. CASE Cleanup(w) \/ Unwind(w) \/ PersistRaises(w) \/ BlameRaises(w) \/ TimeoutEscapes(w)
  BY <1>2, <1>10 DEF Cleanup, Unwind, PersistRaises, BlameRaises, TimeoutEscapes
<1>11. CASE \/ KeepAttempt(w) \/ SaveDeadLetter(w) \/ TrimDeadLetters(w)
            \/ Demote(w) \/ DemoteRaises(w)
  BY <1>2, <1>11 DEF KeepAttempt, SaveDeadLetter, TrimDeadLetters, Demote, DemoteRaises
<1>12. CASE Abandon(w)
  BY <1>2, <1>3, <1>12 DEF Abandon
<1>13. ASSUME NEW j \in Jobs, Take(w, j) PROVE held'[w] = held[w] /\ pc[w] # "begin"
  BY <1>13 DEF Take
<1> QED
  BY <1>2, <1>4, <1>5, <1>6, <1>7, <1>8, <1>9, <1>10, <1>11, <1>12, <1>13
  DEF WorkerStep, TaskStep, HorseFault

\* A marker is a work-horse's claim on an event it has begun.
LEMMA MarkerStep ==
  ASSUME Typed, Next, NEW m \in marker' \ marker
  PROVE  \E w \in Workers : /\ pc[w] = "claim"
                            /\ m = <<Item(w).event, Item(w).key>>
<1> USE DEF redis
<1>1. ASSUME NEW j \in Jobs, \/ Enqueue(j) \/ Store(j) \/ StoreLost(j) \/ Requeue(j)
                             \/ Deliver(j) \/ Reschedule(j)
      PROVE  FALSE
  BY <1>1 DEF Enqueue, Store, StoreLost, Requeue, Deliver, Take, Reschedule
<1>2. ASSUME NEW w \in Workers, TaskStep(w)
      PROVE  pc[w] = "claim" /\ m = <<Item(w).event, Item(w).key>>
  BY <1>2 DEF TaskStep, Load, Begin, EndLoad, Infer, InferRaises, Claim, Write, Count,
     Blame, Cleanup, Unwind, KeepAttempt, SaveDeadLetter, TrimDeadLetters, Demote,
     Return, Settle
<1>3. ASSUME NEW w \in Workers, HorseFault(w)
      PROVE  pc[w] = "claim" /\ m = <<Item(w).event, Item(w).key>>
  BY <1>3 DEF HorseFault, MarkRaises, PersistSwallowed, PersistRaises, BlameRaises,
     TimeoutEscapes, DemoteRaises, Kill, Abandon
<1> QED
  BY <1>1, <1>2, <1>3 DEF Next, ExpireCurrent

\* A job that is started keeps its work-horse until RQ moves it.
LEMMA StartedStep ==
  ASSUME Typed, Next, NEW j \in Jobs, rq'[j] = "started",
         \A w \in Workers : pc[w] = "idle" => ~zombie[w],
         rq[j] = "started" => \E w \in Workers : Active(w) /\ job[w] = j
  PROVE  \E w \in Workers : Active(w)' /\ job'[w] = j
<1> USE DEF queue, horse
<1>0. /\ rq \in [Jobs -> Places] /\ HorseTypeOK /\ zombie \in [Workers -> BOOLEAN]
      /\ pc \in [Workers -> Steps] /\ job \in [Workers -> Jobs \cup {"none"}]
      /\ \A w \in Workers : pc[w] # "idle" => job[w] \in Jobs
  BY DEF Typed, TypeOK, QueueTypeOK, HorseTypeOK
<1>1. ASSUME NEW v \in Workers, NEW w \in Workers, v # w, WorkerStep(w), Active(v), job[v] = j
      PROVE  Active(v)' /\ job'[v] = j
  BY <1>0, <1>1, StepIsLocal DEF Local, HorseTypeOK, Active
<1>2. ASSUME NEW w \in Workers, NEW i \in Jobs, Take(w, i)
      PROVE  \E v \in Workers : Active(v)' /\ job'[v] = j
  <2>1. /\ pc[w] = "idle" /\ pc'[w] = "load" /\ job'[w] = i /\ zombie' = zombie
        /\ rq' = [rq EXCEPT ![i] = "started"]
    BY <1>0, <1>2 DEF Take, Goto
  <2>2. CASE i = j
    BY <2>1, <2>2 DEF Active
  <2>3. CASE i # j
    <3>1. PICK v \in Workers : Active(v) /\ job[v] = j
      BY <1>0, <2>1, <2>3
    <3>2. v # w
      BY <2>1, <3>1 DEF Active
    <3> QED
      BY <1>1, <1>2, <3>1, <3>2 DEF WorkerStep
  <2> QED
    BY <2>2, <2>3
<1>3. ASSUME NEW w \in Workers, TaskStep(w) \/ HorseFault(w)
      PROVE  \E v \in Workers : Active(v)' /\ job'[v] = j
  <2>1. CASE Return(w) \/ Settle(w) \/ Kill(w) \/ Abandon(w)
    <3>1. /\ pc[w] # "idle"
          /\ \/ zombie[w] /\ rq' = rq
             \/ ~zombie[w] /\ FailJob(job[w])
             \/ ~zombie[w] /\ rq' = [rq EXCEPT ![job[w]] = "finished"]
      BY <2>1 DEF Return, Settle, Kill, Abandon
    <3>2. rq[j] = "started" /\ (Active(w) => job[w] # j)
      BY <1>0, <3>1 DEF FailJob, Active
    <3>3. PICK v \in Workers : Active(v) /\ job[v] = j
      BY <3>2
    <3> QED
      BY <1>1, <1>3, <3>2, <3>3 DEF WorkerStep
  <2>2. CASE UNCHANGED <<rq, job, zombie>> /\ pc[w] # "idle" /\ pc'[w] # "idle"
    <3>1. PICK v \in Workers : Active(v) /\ job[v] = j
      BY <2>2
    <3>2. v = w => Active(v)' /\ job'[v] = j
      BY <2>2, <3>1 DEF Active
    <3> QED
      BY <1>1, <1>3, <3>1, <3>2 DEF WorkerStep
  <2>3. CASE \/ Load(w) \/ Begin(w) \/ EndLoad(w) \/ Infer(w) \/ InferRaises(w) \/ MarkRaises(w)
             \/ Claim(w) \/ Write(w) \/ Count(w) \/ Blame(w) \/ PersistSwallowed(w)
    BY <1>0, <2>2, <2>3 DEF Load, Begin, EndLoad, Infer, InferRaises, AfterInferError,
       MarkRaises, Claim, Write, Count, Blame, PersistSwallowed, NextItem, Goto
  <2>4. CASE \/ Cleanup(w) \/ Unwind(w) \/ PersistRaises(w) \/ BlameRaises(w)
             \/ TimeoutEscapes(w) \/ KeepAttempt(w) \/ SaveDeadLetter(w)
             \/ TrimDeadLetters(w) \/ Demote(w) \/ DemoteRaises(w)
    BY <1>0, <2>2, <2>4 DEF Cleanup, Unwind, PersistRaises, BlameRaises, TimeoutEscapes,
       KeepAttempt, SaveDeadLetter, TrimDeadLetters, Demote, DemoteRaises, Goto
  <2> QED
    BY <1>3, <2>1, <2>3, <2>4 DEF TaskStep, HorseFault
<1>4. ASSUME rq[j] = "started", UNCHANGED <<pc, job, zombie>>
      PROVE  \E w \in Workers : Active(w)' /\ job'[w] = j
  BY <1>4 DEF Active
<1>5. ASSUME NEW i \in Jobs, Enqueue(i) \/ Store(i) \/ StoreLost(i) \/ Requeue(i) \/ Reschedule(i)
      PROVE  UNCHANGED <<pc, job, zombie>> /\ rq[j] = "started"
  BY <1>0, <1>5 DEF Enqueue, Store, StoreLost, Requeue, Reschedule
<1>6. ASSUME ExpireCurrent PROVE UNCHANGED <<pc, job, zombie>> /\ rq[j] = "started"
  BY <1>6 DEF ExpireCurrent
<1> QED
  BY <1>2, <1>3, <1>4, <1>5, <1>6 DEF Next, Deliver

\* The initial records a job still waits for.
LEMMA UnstoredStep ==
  ASSUME Typed, Next, NEW j \in Jobs
  PROVE  \/ unstored'[j] = unstored[j]
         \/ "crash" \in Faults /\ unstored'[j] = <<>>
         \/ Store(j) /\ unstored[j] # <<>> /\ unstored'[j] = Tail(unstored[j])
         \/ Enqueue(j) /\ unstored'[j] = Payload[j]
<1>0. unstored \in [Jobs -> Seq(Events)]
  BY DEF Typed, TypeOK, RedisTypeOK
<1>1. ASSUME NEW i \in Jobs, \/ Store(i) \/ StoreLost(i) \/ (i # j /\ Enqueue(i))
                             \/ Requeue(i) \/ Deliver(i) \/ Reschedule(i)
      PROVE  \/ unstored'[j] = unstored[j] \/ ("crash" \in Faults /\ unstored'[j] = <<>>)
             \/ Store(j) /\ unstored[j] # <<>> /\ unstored'[j] = Tail(unstored[j])
  <2>1. CASE Store(i)
    <3>1. unstored[i] # <<>> /\ unstored' = [unstored EXCEPT ![i] = Tail(@)]
      BY <2>1 DEF Store
    <3>2. CASE i = j
      BY <1>0, <2>1, <3>1, <3>2
    <3>3. CASE i # j
      BY <1>0, <3>1, <3>3
    <3> QED
      BY <3>2, <3>3
  <2>2. CASE ~Store(i)
    BY <1>0, <1>1, <2>2 DEF StoreLost, Enqueue, Requeue, Deliver, Take, Reschedule, redis
  <2> QED
    BY <2>1, <2>2
<1>2. ASSUME NEW w \in Workers, TaskStep(w) \/ HorseFault(w)
      PROVE  unstored' = unstored
  BY <1>2 DEF redis, TaskStep, HorseFault, Load, Begin, EndLoad, Infer, InferRaises,
     Claim, Write, Count, Blame, Cleanup, Unwind, KeepAttempt, SaveDeadLetter,
     TrimDeadLetters, Demote, Return, Settle, MarkRaises, PersistSwallowed,
     PersistRaises, BlameRaises, TimeoutEscapes, DemoteRaises, Kill, Abandon
<1>3. Enqueue(j) => unstored'[j] = Payload[j]
  BY <1>0 DEF Enqueue
<1> QED
  BY <1>1, <1>2, <1>3 DEF Next, ExpireCurrent

\* A work-horse becomes idle only by leaving, which clears its memory.
LEMMA IdleStep ==
  ASSUME Typed, NEW w \in Workers, WorkerStep(w), pc'[w] = "idle"
  PROVE  ~zombie'[w]
<1> USE DEF HorseTypeOK, Goto, horse
<1>0. HorseTypeOK /\ Shape
  BY DEF Typed, TypeOK
<1>1. CASE \/ Load(w) \/ Begin(w) \/ EndLoad(w) \/ Infer(w) \/ InferRaises(w) \/ MarkRaises(w)
           \/ Claim(w) \/ Write(w) \/ Count(w) \/ Blame(w) \/ PersistSwallowed(w)
  BY <1>0, <1>1 DEF Load, Begin, EndLoad, Infer, InferRaises, AfterInferError,
     MarkRaises, Claim, Write, Count, Blame, PersistSwallowed, NextItem
<1>2. CASE \/ Cleanup(w) \/ Unwind(w) \/ PersistRaises(w) \/ BlameRaises(w)
           \/ TimeoutEscapes(w) \/ KeepAttempt(w) \/ SaveDeadLetter(w)
           \/ TrimDeadLetters(w) \/ Demote(w) \/ DemoteRaises(w)
  BY <1>0, <1>2 DEF Cleanup, Unwind, PersistRaises, BlameRaises, TimeoutEscapes,
     KeepAttempt, SaveDeadLetter, TrimDeadLetters, Demote, DemoteRaises
<1>3. CASE Return(w) \/ Settle(w) \/ Kill(w)
  BY <1>0, <1>3 DEF Return, Settle, Kill, Leave
<1>4. CASE Abandon(w)
  BY <1>0, <1>4 DEF Abandon
<1>5. ASSUME NEW j \in Jobs, Take(w, j) PROVE pc'[w] = "load"
  BY <1>0, <1>5 DEF Take
<1> QED
  BY <1>1, <1>2, <1>3, <1>4, <1>5 DEF WorkerStep, TaskStep, HorseFault

\* The steps of the request keep what the workers know, and take keys away.
LEMMA RequestKeepsWork == ClearTyped /\ WorkInv /\ Clear => WorkInv'
<1> SUFFICES ASSUME ClearTyped, WorkInv, Clear PROVE WorkInv'
  OBVIOUS
<1>0. record \in [Events -> Record] /\ rq \in [Jobs -> Places]
  BY DEF ClearTyped, Typed, TypeOK, RedisTypeOK, QueueTypeOK
<1> DEFINE Same == UNCHANGED <<horse, unstored>>
           Keys1 == \A e \in Events : record'[e].key \in {record[e].key, "unknown"}
           Started1 == \A j \in Jobs : rq'[j] = "started" => rq[j] = "started"
<1>1. ASSUME Same, Keys1, Started1 PROVE WorkInv'
  <2>1. \A e \in Events : KeyFits(e, record[e].key)'
    BY <1>1, JobsAssumption DEF WorkInv, KeyFits, EventsOf
  <2>2. \A w \in Workers : (IF pc[w] = "idle" THEN held[w] = <<>> ELSE OwnEvents(w))'
    BY <1>1 DEF WorkInv, horse, OwnEvents, EventsOf
  <2>3. \A j \in Jobs : rq'[j] = "started" => \E w \in Workers : Active(w)' /\ job'[w] = j
    BY <1>1 DEF WorkInv, horse, Active
  <2> QED
    BY <1>1, <2>1, <2>2, <2>3 DEF WorkInv, horse, KeyFits, EventsOf
<1>2. CASE UNCHANGED vars
  BY <1>1, <1>2 DEF vars, horse
<1>3. ASSUME NEW item \in found, DeleteRecord(item) PROVE Same /\ Keys1 /\ Started1
  BY <1>0, <1>3 DEF DeleteRecord, SetRecord, queue
<1>4. ASSUME NEW m \in sweep, DeleteMarker(m) PROVE Same /\ Keys1 /\ Started1
  BY <1>4 DEF DeleteMarker, queue
<1>5. ASSUME NEW j \in doomed, RemoveJob(j) PROVE Same /\ Keys1 /\ Started1
  BY <1>0, <1>5 DEF RemoveJob, Forgotten, redis
<1> HIDE DEF Same, Keys1, Started1
<1> QED
  BY <1>1, <1>2, <1>3, <1>4, <1>5, RequestSteps

LEMMA WorkKept == Typed /\ WorkInv /\ [Next]_vars => WorkInv'
<1> SUFFICES ASSUME Typed, WorkInv, [Next]_vars PROVE WorkInv'
  OBVIOUS
<1>0. /\ HorseTypeOK /\ record \in [Events -> Record] /\ unstored \in [Jobs -> Seq(Events)]
      /\ todo \in [Workers -> Seq(Events)]
      /\ \A w \in Workers : pc[w] # "idle" => OwnEvents(w)
  BY DEF Typed, TypeOK, RedisTypeOK, HorseTypeOK, WorkInv
<1>1. CASE UNCHANGED vars
  BY <1>1 DEF vars, WorkInv, OwnEvents, KeyFits, EventsOf, Active
<1>2. CASE Next
  <2>1. ASSUME NEW w \in Workers
        PROVE  /\ IF pc'[w] = "idle" THEN held'[w] = <<>> ELSE OwnEvents(w)'
               /\ pc'[w] = "idle" => ~zombie'[w]
               /\ \A i \in DOMAIN held'[w] : KeyFits(held'[w][i].event, held'[w][i].key)
    <3>0. /\ IF pc[w] = "idle" THEN held[w] = <<>> ELSE OwnEvents(w)
          /\ pc[w] = "idle" => ~zombie[w]
          /\ \A i \in DOMAIN held[w] : KeyFits(held[w][i].event, held[w][i].key)
      BY DEF WorkInv
    <3>1. CASE WorkerStep(w)
      <4>1. ASSUME NEW i \in DOMAIN held'[w]
            PROVE  KeyFits(held'[w][i].event, held'[w][i].key)
        <5>1. CASE \E k \in DOMAIN held[w] : held'[w][i] = held[w][k]
          BY <3>0, <5>1
        <5>2. CASE /\ todo[w] # <<>>
                   /\ held'[w][i] = [event |-> Head(todo[w]), key |-> record[Head(todo[w])].key]
          <6>1. Head(todo[w]) \in Events
            BY <1>0, <5>2, HeadTail
          <6> QED
            BY <5>2, <6>1 DEF WorkInv
        <5> QED
          BY <3>1, <5>1, <5>2, HeldStep
      <4> QED
        BY <3>0, <3>1, <4>1, OwnStep, IdleStep
    <3>2. CASE UNCHANGED horse
      BY <3>0, <3>2 DEF horse, OwnEvents, EventsOf
    <3>3. ASSUME NEW v \in Workers \ {w}, WorkerStep(v)
          PROVE  /\ pc'[w] = pc[w] /\ job'[w] = job[w] /\ todo'[w] = todo[w]
                 /\ held'[w] = held[w] /\ zombie'[w] = zombie[w]
      BY <1>0, <3>3, StepIsLocal DEF Local, HorseTypeOK
    <3>4. CASE \E v \in Workers \ {w} : WorkerStep(v)
      BY <3>0, <3>3, <3>4 DEF OwnEvents, EventsOf
    <3> QED
      BY <1>2, <3>1, <3>2, <3>4, WhoMoves
  <2>2. ASSUME NEW j \in Jobs, NEW i \in DOMAIN unstored'[j]
        PROVE  unstored'[j][i] \in EventsOf(j)
    <3>0. \A k \in DOMAIN unstored[j] : unstored[j][k] \in EventsOf(j)
      BY DEF WorkInv
    <3>1. CASE unstored'[j] = unstored[j]
      BY <2>2, <3>0, <3>1
    <3>2. CASE unstored[j] # <<>> /\ unstored'[j] = Tail(unstored[j])
      BY <1>0, <2>2, <3>0, <3>2
    <3>3. CASE unstored'[j] = Payload[j]
      BY <2>2, <3>3 DEF EventsOf, Members
    <3>4. CASE unstored'[j] = <<>>
      BY <2>2, <3>4
    <3> QED
      BY <1>0, <1>2, <3>1, <3>2, <3>3, <3>4, UnstoredStep
  <2>3. ASSUME NEW e \in Events PROVE KeyFits(e, record'[e].key)
    <3>1. CASE record'[e] = record[e]
      BY <3>1 DEF WorkInv
    <3>2. ASSUME NEW j \in Jobs, Store(j), e = Head(unstored[j]), record'[e].key = j
          PROVE  KeyFits(e, record'[e].key)
      <4>1. unstored[j] # <<>>
        BY <3>2 DEF Store
      <4>2. 1 \in DOMAIN unstored[j] /\ e = unstored[j][1]
        BY <1>0, <3>2, <4>1
      <4> QED
        BY <3>2, <4>2 DEF WorkInv, KeyFits
    <3>3. ASSUME NEW w \in Workers, OwnKey(w, e, record'[e].key)
          PROVE  KeyFits(e, record'[e].key)
      BY <3>3 DEF OwnKey, WorkInv
    <3> QED
      BY <1>0, <1>2, <3>1, <3>2, <3>3, Writers
  <2>4. \A j \in Jobs : rq'[j] = "started" => \E w \in Workers : Active(w)' /\ job'[w] = j
    BY <1>2, StartedStep DEF WorkInv
  <2> QED
    BY <2>1, <2>2, <2>3, <2>4 DEF WorkInv, KeyFits, EventsOf
<1> QED
  BY <1>1, <1>2

LEMMA WorkStep == ClearTyped /\ WorkInv /\ [ClearNext]_clearVars => WorkInv'
  BY WhoSteps, RequestKeepsWork, WorkKept DEF ClearTyped

-----------------------------------------------------------------------------
(* Before the request.                                                     *)

LEMMA RecordedStays ==
  ASSUME Typed, WorkInv, Next, NEW e \in Events, Recorded(e)
  PROVE  Recorded(e)'
<1>1. \A w \in Workers : pc[w] # "idle" => OwnEvents(w)
  BY DEF WorkInv
<1>2. record'[e] = record[e] \/ record'[e].status = "queued"
      \/ record'[e].status \notin {"none", "queued"}
  BY <1>1, Writers
<1> QED
  BY <1>2 DEF Recorded

\* What is about to be claimed has been begun.
LEMMA ClaimInHand ==
  ASSUME Typed, NEW w \in Workers, pc[w] = "claim"
  PROVE  Item(w).event \in InHand(w)
<1>1. held[w] \in Seq(Items) /\ held[w] # <<>>
  BY DEF Typed, TypeOK, HorseTypeOK, Shape, Working
<1>2. 1 \in DOMAIN held[w] /\ Item(w) = held[w][1]
  BY <1>1 DEF Item
<1> QED
  BY <1>2 DEF InHand

LEMMA InHandType ==
  ASSUME Typed, NEW w \in Workers, NEW e \in InHand(w)
  PROVE  e \in Events
<1>1. \A i \in DOMAIN held[w] : held[w][i] \in Items
  BY DEF Typed, TypeOK, HorseTypeOK
<1>2. PICK i \in DOMAIN held[w] : e = held[w][i].event
  BY DEF InHand
<1> QED
  BY <1>1, <1>2 DEF Items

LEMMA RecordsPrecede ==
  ASSUME Typed, WorkInv, [Next]_vars,
         \A m \in marker : Recorded(m[1]),
         \A w \in Workers : \A e \in InHand(w) : Recorded(e)
  PROVE  /\ \A m \in marker' : Recorded(m[1])'
         /\ \A w \in Workers : \A e \in InHand(w)' : Recorded(e)'
<1>0. HorseTypeOK /\ record \in [Events -> Record] /\ marker \subseteq Events \X Keys
  BY DEF Typed, TypeOK, RedisTypeOK
<1>1. CASE UNCHANGED vars
  BY <1>1 DEF vars, InHand, Recorded
<1>2. CASE Next
  <2>1. ASSUME NEW m \in marker' PROVE Recorded(m[1])'
    <3>1. CASE m \in marker
      <4>1. m[1] \in Events
        BY <1>0, <3>1
      <4> QED
        BY <1>2, <3>1, <4>1, RecordedStays
    <3>2. CASE m \notin marker
      <4>1. PICK w \in Workers : pc[w] = "claim" /\ m = <<Item(w).event, Item(w).key>>
        BY <1>2, <3>2, MarkerStep
      <4>2. Item(w).event \in InHand(w) /\ m[1] = Item(w).event
        BY <4>1, ClaimInHand
      <4> QED
        BY <1>2, <4>2, InHandType, RecordedStays
    <3> QED
      BY <3>1, <3>2
  <2>2. ASSUME NEW w \in Workers, NEW e \in InHand(w)' PROVE Recorded(e)'
    <3>1. CASE e \in InHand(w)
      BY <1>2, <3>1, InHandType, RecordedStays
    <3>2. CASE Begin(w) /\ e = Loaded(w).event
      <4>1. e \in Events /\ SetRecord(e, "processing", Loaded(w).key)
        BY <3>2, ItemType DEF Begin, Working
      <4> QED
        BY <1>0, <4>1 DEF SetRecord, Recorded
    <3>3. CASE UNCHANGED horse
      BY <2>2, <3>1, <3>3 DEF horse, InHand
    <3>4. ASSUME NEW v \in Workers \ {w}, WorkerStep(v) PROVE InHand(w)' = InHand(w)
      <4>1. pc'[w] = pc[w] /\ held'[w] = held[w]
        BY <1>0, <3>4, StepIsLocal DEF Local, HorseTypeOK
      <4> QED
        BY <4>1 DEF InHand
    <3> QED
      BY <1>2, <2>2, <3>1, <3>2, <3>3, <3>4, InHandStep, WhoMoves
  <2> QED
    BY <2>1, <2>2
<1> QED
  BY <1>1, <1>2

LEMMA BeforeStep ==
  ASSUME ClearTyped, WorkInv, BeforeInv, step = "idle", step' = "idle",
         [ClearNext]_clearVars
  PROVE  BeforeInv'
<1>1. [Next]_vars /\ UNCHANGED request
  <2>1. ~Clear
    BY DEF Clear, Begun, RecordsDeleted, RequestRaises, Answer, ReadRecord, DeleteRecord,
       DeleteMarker, RemoveJob, RemovalFails
  <2> QED
    BY <2>1, WhoSteps
<1>2. excused' = {}
  BY DEF ClearNext, clearVars, BeforeInv
<1> QED
  BY <1>1, <1>2, RecordsPrecede DEF ClearTyped, BeforeInv, request

-----------------------------------------------------------------------------
(* During the request.                                                     *)

LEMMA RequestNeverIdle ==
  ASSUME Clear
  PROVE  step' \in {"scan", "delete", "jobs", "done", "failed"}
  BY DEF Clear, Begun, RecordsDeleted, RequestRaises, Answer, ReadRecord, DeleteRecord,
     DeleteMarker, RemoveJob, RemovalFails

\* The memory of the workers and the API decides which jobs run.
LEMMA SameRunning ==
  ASSUME UNCHANGED <<unstored, job>>
  PROVE  Running' = Running
  BY DEF Running

LEMMA RequestKeepsRunning ==
  ASSUME Clear
  PROVE  UNCHANGED <<unstored, horse>> /\ Running' = Running
<1>1. UNCHANGED <<unstored, horse>>
  BY DEF Clear, Begun, RecordsDeleted, RequestRaises, Answer, ReadRecord, DeleteRecord,
     DeleteMarker, RemoveJob, RemovalFails, vars, horse, redis
<1> QED
  BY <1>1, SameRunning DEF horse

\* Nobody but the request touches the events of a job that does not run.
LEMMA QuietEvents ==
  ASSUME Unshared, Typed, WorkInv, [Next]_vars, NEW j \in Jobs, j \notin Running,
         NEW e \in EventsOf(j)
  PROVE  record'[e] = record[e] /\ MarkersOf(e)' = MarkersOf(e)
<1>0. /\ e \in Events /\ unstored \in [Jobs -> Seq(Events)] /\ unstored[j] = <<>>
      /\ \A w \in Workers : pc[w] # "idle" => OwnEvents(w) /\ job[w] \in Jobs
      /\ \A w \in Workers : job[w] # j
      /\ marker \subseteq Events \X Keys
  BY DEF Typed, TypeOK, RedisTypeOK, HorseTypeOK, WorkInv, Running, EventsOf, Events
<1>1. CASE UNCHANGED vars
  BY <1>1 DEF vars, MarkersOf
<1>2. CASE Next
  <2>0. ASSUME NEW w \in Workers, pc[w] # "idle" PROVE e \notin EventsOf(job[w])
    BY <1>0, <2>0 DEF Unshared
  <2>1. record'[e] = record[e]
    <3> SUFFICES ASSUME record'[e] # record[e] PROVE FALSE
      OBVIOUS
    <3>1. ASSUME NEW i \in Jobs, Store(i), e = Head(unstored[i]) PROVE FALSE
      <4>1. unstored[i] # <<>>
        BY <3>1 DEF Store
      <4>2. 1 \in DOMAIN unstored[i] /\ e = unstored[i][1]
        BY <1>0, <3>1, <4>1
      <4>3. e \in EventsOf(i)
        BY <4>2 DEF WorkInv
      <4> QED
        BY <1>0, <4>1, <4>3 DEF Unshared
    <3> QED
      BY <1>0, <1>2, <2>0, <3>1, Writers
  <2>2. ASSUME NEW m \in marker', m[1] = e PROVE m \in marker
    <3> SUFFICES ASSUME m \notin marker PROVE FALSE
      OBVIOUS
    <3>1. PICK w \in Workers : pc[w] = "claim" /\ m = <<Item(w).event, Item(w).key>>
      BY <1>2, MarkerStep
    <3>2. held[w] \in Seq(Items) /\ held[w] # <<>> /\ OwnEvents(w)
      BY <1>0, <3>1 DEF Typed, TypeOK, HorseTypeOK, Shape, Working
    <3>3. 1 \in DOMAIN held[w] /\ Item(w) = held[w][1]
      BY <3>2 DEF Item
    <3>4. e \in EventsOf(job[w])
      BY <2>2, <3>1, <3>2, <3>3 DEF OwnEvents
    <3> QED
      BY <2>0, <3>1, <3>4
  <2>3. MarkersOf(e)' = MarkersOf(e)
    BY <2>2, MarkersStay DEF MarkersOf
  <2> QED
    BY <2>1, <2>3
<1> QED
  BY <1>1, <1>2

\* A job that RQ does not know stays unknown while it neither runs nor is stored.
LEMMA QuietAbsent ==
  ASSUME Typed, [Next]_vars, NEW j \in Jobs, j \notin Running, j \notin Running',
         rq[j] = "absent"
  PROVE  rq'[j] = "absent"
<1>0. /\ rq \in [Jobs -> Places] /\ unstored \in [Jobs -> Seq(Events)]
      /\ unstored'[j] = <<>>
      /\ \A w \in Workers : job[w] # j
      /\ \A w \in Workers : pc[w] # "idle" => job[w] \in Jobs
  BY DEF Typed, TypeOK, RedisTypeOK, QueueTypeOK, HorseTypeOK, Running
<1>1. ASSUME NEW i \in Jobs, \/ Store(i) \/ StoreLost(i) \/ Requeue(i)
                             \/ Deliver(i) \/ Reschedule(i)
      PROVE  rq'[j] = "absent"
  BY <1>0, <1>1 DEF Store, StoreLost, Requeue, Deliver, Take, Reschedule, queue
<1>2. ASSUME NEW i \in Jobs, Enqueue(i) PROVE rq'[j] = "absent"
  <2>1. i # j
    BY <1>0, <1>2, PayloadType DEF Enqueue
  <2> QED
    BY <1>0, <1>2, <2>1 DEF Enqueue
<1>3. ASSUME NEW w \in Workers, Return(w) \/ Settle(w) \/ Kill(w) \/ Abandon(w)
      PROVE  rq'[j] = "absent"
  <2>1. pc[w] # "idle" /\ job[w] \in Jobs \ {j}
    BY <1>0, <1>3 DEF Return, Settle, Kill, Abandon
  <2>2. rq' = rq \/ FailJob(job[w]) \/ rq' = [rq EXCEPT ![job[w]] = "finished"]
    BY <1>3 DEF Return, Settle, Kill, Abandon
  <2> QED
    BY <1>0, <2>1, <2>2 DEF FailJob
<1>4. ASSUME NEW w \in Workers, TaskStep(w) \/ HorseFault(w) PROVE rq'[j] = "absent"
  BY <1>0, <1>3, <1>4 DEF TaskStep, HorseFault, Load, Begin, EndLoad, Infer,
     InferRaises, Claim, Write, Count, Blame, Cleanup, Unwind, KeepAttempt,
     SaveDeadLetter, TrimDeadLetters, Demote, MarkRaises, PersistSwallowed,
     PersistRaises, BlameRaises, TimeoutEscapes, DemoteRaises, queue
<1>5. CASE UNCHANGED vars \/ ExpireCurrent
  BY <1>0, <1>5 DEF vars, ExpireCurrent, queue
<1> QED
  BY <1>1, <1>2, <1>4, <1>5 DEF Next

LEMMA BegunStep ==
  ASSUME ClearTyped, WorkInv, BeforeInv, step = "idle", step' # "idle",
         [ClearNext]_clearVars
  PROVE  DuringInv'
<1>1. ClearNext /\ Begun
  <2>1. ~(UNCHANGED clearVars) /\ ~(UNCHANGED request)
    BY DEF clearVars, request
  <2> QED
    BY <2>1 DEF ClearNext, Beside, Clear, Begun, RecordsDeleted, RequestRaises, Answer,
       ReadRecord, DeleteRecord, DeleteMarker, RemoveJob, RemovalFails
<1>2. /\ step' = "scan" /\ unread' = Synthetic /\ found' = {} /\ sweep' = {}
      /\ doomed' = {} /\ gone' = {} /\ UNCHANGED vars
  BY <1>1 DEF Begun, BeforeInv
<1>3. ASSUME NEW j \in Jobs \ excused' PROVE QuietInv(j)'
  <2>1. j \notin Running'
    BY <1>1, <1>2, <1>3 DEF ClearNext
  <2>2. ASSUME NEW e \in EventsOf(j), NEW m \in MarkersOf(e) PROVE Recorded(e)
    BY <2>2 DEF MarkersOf, BeforeInv
  <2> QED
    BY <1>2, <2>1, <2>2 DEF QuietInv, EventsOf, MarkersOf, Recorded, vars
<1> QED
  BY <1>2, <1>3 DEF DuringInv, KeyFits

\* The parts of DuringInv that speak of the request alone.
RequestInv ==
    /\ step \in {"scan", "delete", "jobs", "done", "failed"}
    /\ step \in {"delete", "jobs", "done"} => unread = {}
    /\ step \in {"jobs", "done"} => found = {} /\ sweep = {}
    /\ \A item \in found : KeyFits(item.event, item.key)
    /\ \A j \in (gone \cup doomed) \cap Jobs : EventsOf(j) \subseteq Synthetic
    /\ gone \subseteq Jobs
    /\ gone # {} => step \in {"jobs", "done"}

LEMMA SyntheticJob ==
  ASSUME NEW j \in Jobs, NEW e \in EventsOf(j), e \in Synthetic
  PROVE  EventsOf(j) \subseteq Synthetic
  BY SyntheticAssumption DEF EventsOf

LEMMA RequestStep ==
  ASSUME ClearTyped, WorkInv, RequestInv, Clear, step # "idle"
  PROVE  RequestInv'
<1> USE DEF RequestInv, KeyFits
<1>0. RequestOK /\ RequestOK'
  BY ClearTypedStep DEF ClearTyped, RequestOK, Clear, Begun, RecordsDeleted, RequestRaises,
     Answer, ReadRecord, DeleteRecord, DeleteMarker, RemoveJob, RemovalFails, MarkersOf
<1>1. CASE RecordsDeleted \/ RequestRaises \/ Answer
  BY <1>1 DEF RecordsDeleted, RequestRaises, Answer, EventsOf
<1>2. ASSUME NEW e \in Synthetic, ReadRecord(e) PROVE RequestInv'
  <2>1. /\ step = "scan" /\ UNCHANGED <<sweep, gone>> /\ gone = {}
        /\ doomed' = {item.key : item \in found'}
        /\ step' = IF unread = {e} THEN "delete" ELSE "scan"
        /\ unread' = unread \ {e}
        /\ found' \subseteq found \cup {[event |-> e, key |-> record[e].key]}
    BY <1>2 DEF ReadRecord
  <2>2. KeyFits(e, record[e].key)
    BY SyntheticAssumption DEF WorkInv
  <2>3. \A item \in found' : KeyFits(item.event, item.key)
    BY <2>1, <2>2
  <2>4. ASSUME NEW j \in doomed' \cap Jobs PROVE EventsOf(j) \subseteq Synthetic
    <3>1. PICK item \in found' : item.key = j
      BY <2>1
    <3>2. item.event \in EventsOf(j) /\ item.event \in Synthetic
      BY <1>0, <2>3, <3>1 DEF RequestOK
    <3> QED
      BY <3>2, SyntheticJob
  <2> QED
    BY <2>1, <2>3, <2>4 DEF EventsOf
<1>3. ASSUME NEW item \in found, DeleteRecord(item) PROVE RequestInv'
  BY <1>3 DEF DeleteRecord, EventsOf
<1>4. ASSUME NEW m \in sweep, DeleteMarker(m) PROVE RequestInv'
  BY <1>4 DEF DeleteMarker, EventsOf
<1>5. ASSUME NEW j \in doomed, RemoveJob(j) \/ RemovalFails(j) PROVE RequestInv'
  <2>1. /\ step = "jobs" /\ doomed' \subseteq doomed
        /\ gone' = gone \/ (j \in Jobs /\ gone' = gone \cup {j})
        /\ UNCHANGED <<step, unread, found, sweep>>
    BY <1>5 DEF RemoveJob, RemovalFails
  <2> QED
    BY <2>1 DEF EventsOf
<1> QED
  BY <1>1, <1>2, <1>3, <1>4, <1>5 DEF Clear, Begun

\* A step of the request, seen from a job that does not run.
LEMMA QuietRequest ==
  ASSUME ClearTyped, WorkInv, RequestInv, Clear, step # "idle", NEW j \in Jobs, QuietInv(j)
  PROVE  QuietInv(j)'
<1>0. /\ record \in [Events -> Record] /\ rq \in [Jobs -> Places]
      /\ EventsOf(j) \subseteq Events /\ RequestOK
      /\ j \notin Running'
  BY RequestKeepsRunning
  DEF ClearTyped, Typed, TypeOK, RedisTypeOK, QueueTypeOK, EventsOf, Events, QuietInv
<1> USE DEF QuietInv, EventsOf, Recorded, MarkersOf
<1>1. CASE RecordsDeleted \/ RequestRaises \/ Answer
  BY <1>0, <1>1 DEF RecordsDeleted, RequestRaises, Answer, vars, RequestInv
<1>2. ASSUME NEW e \in Synthetic, ReadRecord(e) PROVE QuietInv(j)'
  BY <1>0, <1>2 DEF ReadRecord, vars
<1>3. ASSUME NEW item \in found, DeleteRecord(item) PROVE QuietInv(j)'
  <2>1. /\ UNCHANGED <<marker, rq, step, unread, gone>>
        /\ record' = [record EXCEPT ![item.event] = [status |-> "none", key |-> "unknown"]]
        /\ sweep' = MarkersOf(item.event) /\ sweep = {} /\ found' = found \ {item}
    BY <1>3 DEF DeleteRecord, SetRecord, queue
  <2>2. ASSUME NEW e \in EventsOf(j), NEW m \in MarkersOf(e)
        PROVE  Recorded(e)' \/ m \in sweep'
    BY <1>0, <2>1, <2>2
  <2>3. ASSUME step' # "failed", NEW e \in EventsOf(j) \cap Synthetic, Recorded(e)'
        PROVE  e \in unread' \/ [event |-> e, key |-> record'[e].key] \in found'
    <3>1. e # item.event
      BY <1>0, <2>1, <2>3
    <3>2. record'[e] = record[e]
      BY <1>0, <2>1, <3>1
    <3>3. [event |-> e, key |-> record[e].key] # item
      BY <3>1
    <3> QED
      BY <2>1, <2>3, <3>2, <3>3
  <2> QED
    BY <1>0, <2>1, <2>2, <2>3
<1>4. ASSUME NEW m \in sweep, DeleteMarker(m) PROVE QuietInv(j)'
  BY <1>0, <1>4 DEF DeleteMarker, queue
<1>5. ASSUME NEW i \in doomed, RemoveJob(i) PROVE QuietInv(j)'
  <2>1. UNCHANGED <<record, marker, step, unread, found, sweep>>
    BY <1>5 DEF RemoveJob, redis
  <2>2. rq[j] # "started"
    BY DEF WorkInv, Running
  <2>3. j \in gone' => rq'[j] = "absent"
    <3>1. CASE i = j
      BY <1>0, <1>5, <2>2, <3>1 DEF RemoveJob, Forgotten
    <3>2. CASE i # j
      BY <1>0, <1>5, <3>2 DEF RemoveJob
    <3> QED
      BY <3>1, <3>2
  <2> QED
    BY <1>0, <2>1, <2>3
<1>6. ASSUME NEW i \in doomed, RemovalFails(i) PROVE QuietInv(j)'
  BY <1>0, <1>6 DEF RemovalFails, vars
<1> QED
  BY <1>1, <1>2, <1>3, <1>4, <1>5, <1>6 DEF Clear, Begun

LEMMA DuringStep ==
  ASSUME Unshared, ClearTyped, WorkInv, DuringInv, step # "idle", [ClearNext]_clearVars
  PROVE  step' # "idle" /\ DuringInv'
<1>0. RequestInv /\ Typed
  BY DEF DuringInv, RequestInv, ClearTyped
<1>1. CASE UNCHANGED clearVars
  <2>1. UNCHANGED <<vars, request, excused>>
    BY <1>1 DEF clearVars
  <2>2. UNCHANGED <<record, marker, unstored, rq, job>>
    BY <2>1 DEF vars
  <2>3. ASSUME NEW j \in Jobs \ excused PROVE QuietInv(j)'
    <3>1. QuietInv(j)
      BY DEF DuringInv
    <3> QED
      BY <2>1, <2>2, <3>1, SameRunning DEF QuietInv, request, EventsOf, MarkersOf, Recorded
  <2> QED
    BY <2>1, <2>3 DEF DuringInv, request, KeyFits, EventsOf
<1>2. CASE ClearNext
  <2>1. RequestInv' /\ step' # "idle"
    <3>1. CASE Clear
      BY <1>0, <3>1, RequestStep, RequestNeverIdle
    <3>2. CASE UNCHANGED request
      BY <1>0, <3>2 DEF request, RequestInv, KeyFits, EventsOf
    <3> QED
      BY <1>2, <3>1, <3>2 DEF ClearNext, Beside
  <2>2. ASSUME NEW j \in Jobs \ excused' PROVE QuietInv(j)'
    <3>1. j \notin excused /\ j \notin Running /\ j \notin Running'
      BY <1>2, <2>1, <2>2 DEF ClearNext
    <3>2. QuietInv(j)
      BY <3>1 DEF DuringInv
    <3>3. CASE Clear
      BY <1>0, <3>2, <3>3, QuietRequest
    <3>4. CASE Next /\ UNCHANGED request
      <4>1. \A e \in EventsOf(j) : record'[e] = record[e] /\ MarkersOf(e)' = MarkersOf(e)
        BY <1>0, <3>1, <3>4, QuietEvents
      <4>2. rq[j] = "absent" => rq'[j] = "absent"
        BY <1>0, <3>1, <3>4, QuietAbsent
      <4>3. UNCHANGED <<step, unread, found, sweep, gone>>
        BY <3>4 DEF request
      <4>4. \A e \in EventsOf(j) : Recorded(e)' = Recorded(e)
        BY <4>1 DEF Recorded
      <4>5. EventsOf(j)' = EventsOf(j)
        BY DEF EventsOf
      <4> QED
        BY <3>1, <3>2, <4>1, <4>2, <4>3, <4>4, <4>5 DEF QuietInv
    <3>5. CASE UNCHANGED <<vars, request>>
      <4>1. UNCHANGED <<record, marker, rq>>
        BY <3>5 DEF vars
      <4> QED
        BY <3>1, <3>2, <3>5, <4>1 DEF QuietInv, request, EventsOf, MarkersOf, Recorded
    <3> QED
      BY <3>3, <3>4, <3>5, WhoSteps
  <2> QED
    BY <2>1, <2>2 DEF DuringInv, RequestInv
<1> QED
  BY <1>1, <1>2

LEMMA ClearedStep ==
  ASSUME Unshared
  PROVE  ClearTyped /\ ClearedInv /\ [ClearNext]_clearVars => ClearedInv'
<1> SUFFICES ASSUME ClearTyped, ClearedInv, [ClearNext]_clearVars PROVE ClearedInv'
  OBVIOUS
<1>1. WorkInv /\ WorkInv'
  BY WorkStep DEF ClearedInv
<1>2. CASE step = "idle" /\ step' = "idle"
  BY <1>1, <1>2, BeforeStep DEF ClearedInv
<1>3. CASE step = "idle" /\ step' # "idle"
  BY <1>1, <1>3, BegunStep DEF ClearedInv
<1>4. CASE step # "idle"
  BY <1>1, <1>4, DuringStep DEF ClearedInv
<1> QED
  BY <1>2, <1>3, <1>4

LEMMA ClearedInit == ClearInit => ClearedInv
<1> SUFFICES ASSUME ClearInit PROVE ClearedInv
  OBVIOUS
<1>1. WorkInv
  BY JobsAssumption DEF ClearInit, Init, WorkInv, OwnEvents, KeyFits
<1>2. BeforeInv /\ step = "idle"
  BY DEF ClearInit, Init, BeforeInv, InHand
<1> QED
  BY <1>1, <1>2 DEF ClearedInv

\* With jobs that share no event, a removed job that did not run meanwhile never
\* comes back, no record and no marker of it, whatever fails.
THEOREM ClearedForGood ==
  ASSUME Unshared
  PROVE  ClearSpec => []ClearedStaysClear
<1>1. ClearTyped /\ ClearedInv => ClearedStaysClear
  <2> SUFFICES ASSUME ClearTyped, ClearedInv, NEW j \in gone \ excused PROVE ~Trace(j)
    BY DEF ClearedStaysClear
  <2>1. DuringInv
    BY DEF ClearedInv, BeforeInv
  <2>2. /\ j \in Jobs /\ EventsOf(j) \subseteq Synthetic /\ step \in {"jobs", "done"}
        /\ unread = {} /\ found = {} /\ sweep = {}
    BY <2>1 DEF DuringInv
  <2>3. QuietInv(j)
    BY <2>1, <2>2 DEF DuringInv
  <2>4. \A e \in EventsOf(j) : ~Recorded(e) /\ MarkersOf(e) = {}
    BY <2>2, <2>3 DEF QuietInv
  <2> QED
    BY <2>3, <2>4 DEF Trace, QuietInv, Recorded
<1> QED
  BY <1>1, ClearedStep, ClearedInit, ClearTypedStep, ClearInitTyped, PTL DEF ClearSpec

-----------------------------------------------------------------------------
(* Nothing left when the request answers.                                  *)

\* RQ alone forgets no job, and learns of one from Enqueue or its attempts.
LEMMA NeverForgotten ==
  ASSUME Typed, [Next]_vars, NEW j \in Jobs,
         \A w \in Workers : pc[w] # "idle" => rq[job[w]] # "absent"
  PROVE  /\ rq[j] # "absent" => rq'[j] # "absent"
         /\ rq[j] = "absent" => rq'[j] = "absent" \/ Enqueue(j)
<1>0. /\ rq \in [Jobs -> Places]
      /\ \A w \in Workers : pc[w] # "idle" => job[w] \in Jobs
  BY DEF Typed, TypeOK, QueueTypeOK, HorseTypeOK
<1>1. ASSUME NEW i \in Jobs, \/ Store(i) \/ StoreLost(i) \/ Requeue(i)
                             \/ Deliver(i) \/ Reschedule(i)
      PROVE  (rq[j] = "absent") <=> (rq'[j] = "absent")
  BY <1>0, <1>1 DEF Store, StoreLost, Requeue, Deliver, Take, Reschedule, queue
<1>2. ASSUME NEW i \in Jobs, Enqueue(i)
      PROVE  (i = j /\ rq'[j] # "absent") \/ rq'[j] = rq[j]
  BY <1>0, <1>2 DEF Enqueue
<1>3. ASSUME NEW w \in Workers, Return(w) \/ Settle(w) \/ Kill(w) \/ Abandon(w)
      PROVE  (rq[j] = "absent") <=> (rq'[j] = "absent")
  <2>1. pc[w] # "idle" /\ job[w] \in Jobs /\ rq[job[w]] # "absent"
    BY <1>0, <1>3 DEF Return, Settle, Kill, Abandon
  <2>2. rq' = rq \/ FailJob(job[w]) \/ rq' = [rq EXCEPT ![job[w]] = "finished"]
    BY <1>3 DEF Return, Settle, Kill, Abandon
  <2> QED
    BY <1>0, <2>1, <2>2 DEF FailJob
<1>4. ASSUME NEW w \in Workers, TaskStep(w) \/ HorseFault(w)
      PROVE  (rq[j] = "absent") <=> (rq'[j] = "absent")
  BY <1>0, <1>3, <1>4 DEF TaskStep, HorseFault, Load, Begin, EndLoad, Infer,
     InferRaises, Claim, Write, Count, Blame, Cleanup, Unwind, KeepAttempt,
     SaveDeadLetter, TrimDeadLetters, Demote, MarkRaises, PersistSwallowed,
     PersistRaises, BlameRaises, TimeoutEscapes, DemoteRaises, queue
<1>5. CASE UNCHANGED vars \/ ExpireCurrent
  BY <1>0, <1>5 DEF vars, ExpireCurrent, queue
<1> QED
  BY <1>1, <1>2, <1>4, <1>5 DEF Next

\* A work-horse keeps its job while it has one.
LEMMA JobStep ==
  ASSUME Typed, NEW w \in Workers, WorkerStep(w)
  PROVE  \/ pc[w] = "idle" /\ \E j \in Jobs : Take(w, j)
         \/ pc[w] # "idle" /\ pc'[w] = "idle" /\ held'[w] = <<>>
         \/ pc[w] # "idle" /\ job'[w] = job[w]
<1> USE DEF HorseTypeOK
<1>0. HorseTypeOK
  BY DEF Typed, TypeOK
<1>1. CASE Return(w) \/ Settle(w) \/ Kill(w)
  BY <1>0, <1>1 DEF Return, Settle, Kill, Leave, Goto
<1>2. ASSUME NEW j \in Jobs, Take(w, j) PROVE pc[w] = "idle"
  BY <1>2 DEF Take
<1>3. CASE \/ Load(w) \/ Begin(w) \/ EndLoad(w) \/ Infer(w) \/ InferRaises(w) \/ MarkRaises(w)
           \/ Claim(w) \/ Write(w) \/ Count(w) \/ Blame(w) \/ PersistSwallowed(w)
  BY <1>0, <1>3 DEF Load, Begin, EndLoad, Infer, InferRaises, MarkRaises, Claim, Write,
     Count, Blame, PersistSwallowed
<1>4. CASE \/ Cleanup(w) \/ Unwind(w) \/ PersistRaises(w) \/ BlameRaises(w)
           \/ TimeoutEscapes(w) \/ KeepAttempt(w) \/ SaveDeadLetter(w)
           \/ TrimDeadLetters(w) \/ Demote(w) \/ DemoteRaises(w) \/ Abandon(w)
  BY <1>0, <1>4 DEF Cleanup, Unwind, PersistRaises, BlameRaises, TimeoutEscapes,
     KeepAttempt, SaveDeadLetter, TrimDeadLetters, Demote, DemoteRaises, Abandon
<1> QED
  BY <1>1, <1>2, <1>3, <1>4 DEF WorkerStep, TaskStep, HorseFault

LEMMA StoredStep ==
  ASSUME Unshared, "crash" \notin Faults, "overtake" \notin Faults,
         Typed, WorkInv, StoredInv, [Next]_vars
  PROVE  StoredInv'
<1>0. /\ HorseTypeOK /\ record \in [Events -> Record] /\ rq \in [Jobs -> Places]
      /\ unstored \in [Jobs -> Seq(Events)] /\ todo \in [Workers -> Seq(Events)]
      /\ \A w \in Workers : pc[w] # "idle" =>
            OwnEvents(w) /\ job[w] \in Jobs /\ unstored[job[w]] = <<>> /\ rq[job[w]] # "absent"
      /\ \A w \in Workers : pc[w] = "idle" => held[w] = <<>>
      /\ \A j \in Jobs : unstored[j] # <<>> => rq[j] # "absent"
  BY DEF Typed, TypeOK, RedisTypeOK, QueueTypeOK, HorseTypeOK, WorkInv, StoredInv
<1>1. CASE UNCHANGED vars
  <2>1. UNCHANGED <<pc, unstored, job, rq, held, record>>
    BY <1>1 DEF vars
  <2> QED
    BY <2>1 DEF StoredInv, Recorded, EventsOf
<1>2. CASE Next
  <2>1. ASSUME NEW j \in Jobs
        PROVE  /\ rq[j] # "absent" => rq'[j] # "absent"
               /\ rq[j] = "absent" => rq'[j] = "absent" \/ Enqueue(j)
    BY <1>0, <1>2, NeverForgotten
  <2>2. ASSUME NEW j \in Jobs, unstored[j] = <<>>, rq[j] # "absent"
        PROVE  unstored'[j] = <<>> /\ rq'[j] # "absent"
    BY <1>2, <2>1, <2>2, UnstoredStep DEF Enqueue
  <2>3. ASSUME NEW w \in Workers
        PROVE  /\ pc'[w] # "idle" => unstored'[job'[w]] = <<>> /\ rq'[job'[w]] # "absent"
               /\ \A i \in DOMAIN held'[w] : held'[w][i].key = job'[w]
    <3>0. \A i \in DOMAIN held[w] : held[w][i].key = job[w]
      BY DEF StoredInv
    <3>1. CASE WorkerStep(w)
      <4>1. ASSUME NEW j \in Jobs, Take(w, j)
            PROVE  /\ unstored'[job'[w]] = <<>> /\ rq'[job'[w]] # "absent"
                   /\ held'[w] = <<>>
        <5>1. /\ rq[j] = "queued" /\ unstored[j] = <<>> /\ job' = [job EXCEPT ![w] = j]
              /\ pc[w] = "idle" /\ held' = held
          BY <4>1 DEF Take
        <5> QED
          BY <1>0, <2>2, <5>1 DEF HorseTypeOK
      <4>2. CASE pc[w] # "idle" /\ job'[w] = job[w]
        <5>1. unstored'[job'[w]] = <<>> /\ rq'[job'[w]] # "absent"
          BY <1>0, <2>2, <4>2
        <5>2. ASSUME NEW i \in DOMAIN held'[w] PROVE held'[w][i].key = job[w]
          <6>1. CASE /\ todo[w] # <<>> /\ pc[w] = "load"
                     /\ held'[w][i] = [event |-> Head(todo[w]),
                                       key   |-> record[Head(todo[w])].key]
            <7>1. Head(todo[w]) = todo[w][1] /\ 1 \in DOMAIN todo[w]
              BY <1>0, <6>1
            <7>2. Head(todo[w]) \in EventsOf(job[w])
              BY <1>0, <4>2, <7>1 DEF OwnEvents
            <7>3. Members(unstored[job[w]]) = {}
              BY <1>0, <4>2 DEF Members
            <7>4. record[Head(todo[w])].key = job[w]
              BY <1>0, <4>2, <7>2, <7>3 DEF StoredInv
            <7> QED
              BY <6>1, <7>4
          <6> QED
            BY <3>0, <3>1, <6>1, HeldStep
        <5> QED
          BY <4>2, <5>1, <5>2
      <4> QED
        BY <3>1, <4>1, <4>2, JobStep
    <3>2. ASSUME pc'[w] = pc[w], job'[w] = job[w], held'[w] = held[w]
          PROVE  /\ pc'[w] # "idle" => unstored'[job'[w]] = <<>> /\ rq'[job'[w]] # "absent"
                 /\ \A i \in DOMAIN held'[w] : held'[w][i].key = job'[w]
      BY <1>0, <2>2, <3>0, <3>2
    <3>3. CASE UNCHANGED horse
      BY <3>2, <3>3 DEF horse
    <3>4. ASSUME NEW v \in Workers \ {w}, WorkerStep(v)
          PROVE  pc'[w] = pc[w] /\ job'[w] = job[w] /\ held'[w] = held[w]
      BY <1>0, <3>4, StepIsLocal DEF Local, HorseTypeOK
    <3> QED
      BY <1>2, <3>1, <3>2, <3>3, <3>4, WhoMoves
  <2>4. ASSUME NEW j \in Jobs, unstored'[j] # <<>> PROVE rq'[j] # "absent"
    BY <1>0, <1>2, <2>1, <2>4, UnstoredStep DEF Enqueue
  <2>5. ASSUME NEW j \in Jobs, rq'[j] # "absent", NEW e \in EventsOf(j) \ Members(unstored'[j])
        PROVE  Recorded(e)' /\ record'[e].key = j
    <3>0. e \in Events
      BY DEF EventsOf, Events
    <3>1. ~Enqueue(j)
      <4>1. Enqueue(j) => unstored'[j] = Payload[j]
        BY <1>0 DEF Enqueue
      <4> QED
        BY <2>5, <4>1 DEF EventsOf
    <3>2. rq[j] # "absent"
      BY <2>1, <2>5, <3>1
    <3>3. CASE e \notin Members(unstored[j])
      <4>1. Recorded(e) /\ record[e].key = j
        BY <3>2, <3>3 DEF StoredInv
      <4>2. ASSUME NEW i \in Jobs, Store(i), e = Head(unstored[i]) PROVE FALSE
        <5>1. unstored[i] # <<>>
          BY <4>2 DEF Store
        <5>2. 1 \in DOMAIN unstored[i] /\ e = unstored[i][1]
          BY <1>0, <4>2, <5>1
        <5>3. e \in Members(unstored[i]) /\ e \in EventsOf(i)
          BY <5>2 DEF Members, WorkInv
        <5> QED
          BY <3>3, <5>3 DEF Unshared
      <4>3. ASSUME NEW w \in Workers, pc[w] # "idle", e \in EventsOf(job[w]),
                   OwnKey(w, e, record'[e].key), record'[e].status \notin {"none", "queued"}
            PROVE  Recorded(e)' /\ record'[e].key = j
        <5>1. job[w] = j
          BY <1>0, <4>3 DEF Unshared
        <5>2. \A i \in DOMAIN held[w] : held[w][i].key = j
          BY <5>1 DEF StoredInv
        <5> QED
          BY <4>1, <4>3, <5>2 DEF OwnKey, Recorded
      <4>4. record'[e] = record[e] => Recorded(e)' /\ record'[e].key = j
        BY <4>1 DEF Recorded
      <4> QED
        BY <1>0, <1>2, <3>0, <4>2, <4>3, <4>4, Writers
    <3>4. CASE e \in Members(unstored[j])
      <4>1. Store(j) /\ unstored[j] # <<>> /\ unstored'[j] = Tail(unstored[j])
        BY <1>2, <2>5, <3>1, <3>4, UnstoredStep
      <4>2. PICK i \in DOMAIN unstored[j] : e = unstored[j][i]
        BY <3>4 DEF Members
      <4>3. i = 1
        <5> SUFFICES ASSUME i # 1 PROVE FALSE
          OBVIOUS
        <5>1. i - 1 \in DOMAIN Tail(unstored[j]) /\ Tail(unstored[j])[i - 1] = e
          BY <1>0, <4>1, <4>2
        <5> QED
          BY <2>5, <4>1, <5>1 DEF Members
      <4>4. SetRecord(e, "queued", j)
        BY <1>0, <4>1, <4>2, <4>3 DEF Store
      <4> QED
        BY <1>0, <3>0, <4>4 DEF SetRecord, Recorded
    <3> QED
      BY <3>3, <3>4
  <2> QED
    BY <2>3, <2>4, <2>5 DEF StoredInv, EventsOf
<1> QED
  BY <1>1, <1>2

LEMMA StoredInit == ClearInit => StoredInv
  BY DEF ClearInit, Init, StoredInv

\* When the request begins, what is stored leads it to every job at rest.
LEMMA FindBegins ==
  ASSUME ClearTyped, BeforeInv, StoredInv, step = "idle", step' # "idle",
         [ClearNext]_clearVars
  PROVE  FindInv'
<1>1. ClearNext /\ Begun
  <2>1. ~(UNCHANGED clearVars) /\ ~(UNCHANGED request)
    BY DEF clearVars, request
  <2> QED
    BY <2>1 DEF ClearNext, Beside, Clear, Begun, RecordsDeleted, RequestRaises, Answer,
       ReadRecord, DeleteRecord, DeleteMarker, RemoveJob, RemovalFails
<1>2. /\ step' = "scan" /\ unread' = Synthetic /\ found' = {} /\ doomed' = {}
      /\ UNCHANGED <<record, rq, unstored>>
  BY <1>1 DEF Begun, BeforeInv, vars
<1>3. ASSUME NEW j \in Jobs \ excused', EventsOf(j) \subseteq Synthetic, rq'[j] # "absent"
      PROVE  Leads(j)'
  <2>1. unstored[j] = <<>>
    BY <1>1, <1>2, <1>3 DEF ClearNext, Running
  <2>2. Payload[j][1] \in EventsOf(j) /\ Members(unstored[j]) = {}
    <3>1. 1 \in DOMAIN Payload[j]
      BY PayloadType
    <3> QED
      BY <2>1, <3>1 DEF EventsOf, Members
  <2>3. Recorded(Payload[j][1]) /\ record[Payload[j][1]].key = j
    BY <1>2, <1>3, <2>2 DEF StoredInv
  <2>4. \E e \in EventsOf(j) : e \in unread' /\ record'[e].status # "none" /\ record'[e].key = j
    BY <1>2, <1>3, <2>2, <2>3 DEF Recorded
  <2> QED
    BY <2>4 DEF Leads, Recorded, EventsOf
<1> QED
  BY <1>2, <1>3 DEF FindInv, EventsOf

Sought(j) == j \in doomed \/ (step = "scan" /\ Leads(j))

\* A request that has found a job at rest removes it, or fails, or is excused.
LEMMA SoughtStep ==
  ASSUME ClearTyped, WorkInv, RequestInv, FindInv, Clear, step # "idle",
         NEW j \in Jobs, QuietInv(j), Sought(j), EventsOf(j) \subseteq Synthetic,
         j \notin Spared, step' # "failed", rq'[j] # "absent"
  PROVE  Sought(j)'
<1>0. rq \in [Jobs -> Places] /\ rq[j] # "started" /\ j # "unknown"
  BY JobsAssumption
  DEF ClearTyped, Typed, TypeOK, QueueTypeOK, QuietInv, WorkInv, Running
<1>1. CASE RecordsDeleted \/ Answer \/ RequestRaises
  BY <1>1 DEF RecordsDeleted, Answer, RequestRaises, Sought
<1>2. ASSUME NEW e \in Synthetic, ReadRecord(e) PROVE Sought(j)'
  <2>1. /\ step = "scan" /\ unread' = unread \ {e}
        /\ step' = IF unread = {e} THEN "delete" ELSE "scan"
        /\ doomed' = {item.key : item \in found'}
        /\ found' = IF Recorded(e) THEN found \cup {[event |-> e, key |-> record[e].key]}
                    ELSE found
        /\ record' = record
    BY <1>2 DEF ReadRecord, Recorded, vars
  <2>2. CASE j \in doomed
    BY <2>1, <2>2 DEF FindInv, Sought
  <2>3. ASSUME NEW d \in EventsOf(j), d \in unread, Recorded(d), record[d].key = j
        PROVE  Sought(j)'
    <3>1. CASE d = e
      <4>1. [event |-> e, key |-> j] \in found'
        BY <2>1, <2>3, <3>1
      <4>2. j \in doomed'
        BY <2>1, <4>1
      <4> QED
        BY <4>2 DEF Sought
    <3>2. CASE d # e
      <4>1. d \in unread' /\ step' = "scan"
        BY <2>1, <2>3, <3>2
      <4>2. \E x \in EventsOf(j) : x \in unread' /\ record'[x].status # "none" /\ record'[x].key = j
        BY <2>1, <2>3, <4>1 DEF Recorded
      <4> QED
        BY <4>1, <4>2 DEF Sought, Leads, Recorded, EventsOf
    <3> QED
      BY <3>1, <3>2
  <2> QED
    BY <2>2, <2>3 DEF Sought, Leads
<1>3. ASSUME NEW item \in found, DeleteRecord(item) PROVE Sought(j)'
  BY <1>3 DEF DeleteRecord, Sought
<1>4. ASSUME NEW m \in sweep, DeleteMarker(m) PROVE Sought(j)'
  BY <1>4 DEF DeleteMarker, Sought
<1>5. ASSUME NEW i \in doomed, RemoveJob(i) PROVE Sought(j)'
  <2>1. CASE i = j
    BY <1>0, <1>5, <2>1 DEF RemoveJob, Forgotten
  <2>2. CASE i # j
    BY <1>5, <2>2 DEF RemoveJob, Sought
  <2> QED
    BY <2>1, <2>2
<1>6. ASSUME NEW i \in doomed, RemovalFails(i) PROVE Sought(j)'
  <2>1. step = "jobs" /\ doomed' = doomed \ {i} /\ rq' = rq /\ gone' = gone
    BY <1>6 DEF RemovalFails, vars
  <2>2. j \notin gone'
    BY <2>1 DEF QuietInv
  <2> QED
    BY <1>0, <2>1, <2>2 DEF Sought, Spared
<1> QED
  BY <1>1, <1>2, <1>3, <1>4, <1>5, <1>6 DEF Clear, Begun

LEMMA FindStep ==
  ASSUME Unshared, ClearTyped, WorkInv, DuringInv, FindInv, step # "idle",
         [ClearNext]_clearVars
  PROVE  FindInv'
<1>0. RequestInv /\ Typed /\ step' # "idle"
  BY DuringStep DEF DuringInv, RequestInv, ClearTyped
<1>1. /\ step' = "done" => doomed' = {}
      /\ step' = "scan" => doomed' = {item.key : item \in found'}
  <2>1. CASE Clear
    BY <1>0, <2>1 DEF FindInv, Clear, Begun, RecordsDeleted, RequestRaises, Answer,
       ReadRecord, DeleteRecord, DeleteMarker, RemoveJob, RemovalFails
  <2>2. CASE UNCHANGED request
    BY <2>2 DEF FindInv, request
  <2> QED
    BY <2>1, <2>2, WhoSteps
<1>2. ASSUME NEW j \in Jobs \ excused', EventsOf(j) \subseteq Synthetic, rq'[j] # "absent",
             step' # "failed"
      PROVE  Sought(j)'
  <2>1. CASE UNCHANGED clearVars
    <3>1. UNCHANGED <<step, unread, doomed, excused, rq, record>>
      BY <2>1 DEF clearVars, request, vars
    <3>2. Sought(j)
      BY <1>2, <3>1 DEF FindInv, Sought
    <3> QED
      BY <3>1, <3>2 DEF Sought, Leads, Recorded, EventsOf
  <2>2. CASE ClearNext
    <3>1. j \notin excused /\ j \notin Running /\ j \notin Running' /\ j \notin Spared
      BY <1>0, <1>2, <2>2 DEF ClearNext
    <3>2. QuietInv(j)
      BY <3>1 DEF DuringInv
    <3>3. rq[j] # "absent" /\ step # "failed" => Sought(j)
      BY <1>2, <3>1 DEF FindInv, Sought
    <3>4. CASE Clear
      <4>1. rq[j] # "absent" /\ step # "failed"
        BY <1>0, <1>2, <3>4 DEF RequestInv, Typed, TypeOK, QueueTypeOK, Clear, Begun,
           RecordsDeleted, RequestRaises, Answer, ReadRecord, DeleteRecord, DeleteMarker,
           RemoveJob, RemovalFails, Forgotten, vars, queue
      <4> QED
        BY <1>0, <1>2, <3>1, <3>2, <3>3, <3>4, <4>1, SoughtStep
    <3>5. CASE Next /\ UNCHANGED request
      <4>1. rq[j] # "absent"
        BY <1>0, <1>2, <3>1, <3>5, QuietAbsent
      <4>2. \A e \in EventsOf(j) : record'[e] = record[e]
        BY <1>0, <3>1, <3>5, QuietEvents
      <4>3. UNCHANGED <<step, unread, doomed>>
        BY <3>5 DEF request
      <4> QED
        BY <1>2, <3>3, <4>1, <4>2, <4>3 DEF Sought, Leads, Recorded, EventsOf
    <3>6. CASE UNCHANGED <<vars, request>>
      <4>1. UNCHANGED <<step, unread, doomed, rq, record>>
        BY <3>6 DEF request, vars
      <4> QED
        BY <1>2, <3>3, <4>1 DEF Sought, Leads, Recorded, EventsOf
    <3> QED
      BY <3>4, <3>5, <3>6, WhoSteps
  <2> QED
    BY <2>1, <2>2
<1> QED
  BY <1>1, <1>2 DEF FindInv, Sought, EventsOf

LEMMA FoundStep ==
  ASSUME Unshared, "crash" \notin Faults, "overtake" \notin Faults
  PROVE  ClearTyped /\ ClearedInv /\ FoundInv /\ [ClearNext]_clearVars => FoundInv'
<1> SUFFICES ASSUME ClearTyped, ClearedInv, FoundInv, [ClearNext]_clearVars PROVE FoundInv'
  OBVIOUS
<1>1. CASE step = "idle" /\ step' = "idle"
  <2>1. ~Clear
    BY <1>1 DEF Clear, Begun, RecordsDeleted, RequestRaises, Answer, ReadRecord,
       DeleteRecord, DeleteMarker, RemoveJob, RemovalFails
  <2>2. [Next]_vars
    BY <2>1, WhoSteps
  <2> QED
    BY <1>1, <2>2, StoredStep DEF FoundInv, ClearedInv, ClearTyped
<1>2. CASE step = "idle" /\ step' # "idle"
  BY <1>2, FindBegins DEF FoundInv, ClearedInv
<1>3. CASE step # "idle"
  <2>1. step' # "idle"
    BY <1>3, DuringStep DEF ClearedInv
  <2> QED
    BY <1>3, <2>1, FindStep DEF FoundInv, ClearedInv
<1> QED
  BY <1>1, <1>2, <1>3

\* When jobs share no event and the API writes a job's initial records before a
\* worker starts it, the request that answers has left nothing of a simulation
\* that was at rest, whatever else fails.
THEOREM ClearLeavesNothing ==
  ASSUME Unshared, "crash" \notin Faults, "overtake" \notin Faults
  PROVE  ClearSpec => ClearIsComplete
<1> DEFINE Complete == step' = "done" =>
                         \A j \in Jobs : EventsOf(j) \subseteq Synthetic /\ Trace(j)
                                           => j \in excused
<1>1. ASSUME ClearTyped, ClearedInv, FoundInv, [ClearNext]_clearVars, step' = "done",
             NEW j \in Jobs, EventsOf(j) \subseteq Synthetic, j \notin excused
      PROVE  ~Trace(j)
  <2>1. step = "done" \/ Answer
    <3>1. CASE Clear
      BY <1>1, <3>1 DEF Clear, Begun, RecordsDeleted, RequestRaises, ReadRecord,
         DeleteRecord, DeleteMarker, RemoveJob, RemovalFails
    <3>2. CASE UNCHANGED request
      BY <1>1, <3>2 DEF request
    <3> QED
      BY <1>1, <3>1, <3>2, WhoSteps
  <2>2. DuringInv /\ FindInv /\ step \in {"jobs", "done"} /\ doomed = {}
    BY <1>1, <2>1 DEF Answer, ClearedInv, FoundInv, FindInv
  <2>3. unread = {} /\ found = {} /\ sweep = {} /\ QuietInv(j)
    BY <1>1, <2>2 DEF DuringInv
  <2>4. \A e \in EventsOf(j) : ~Recorded(e) /\ MarkersOf(e) = {}
    BY <1>1, <2>2, <2>3 DEF QuietInv
  <2>5. rq[j] = "absent"
    BY <1>1, <2>2 DEF FindInv
  <2> QED
    BY <2>4, <2>5 DEF Trace, Recorded
<1>2. ClearTyped /\ ClearedInv /\ FoundInv /\ [ClearNext]_clearVars => [Complete]_clearVars
  BY <1>1
<1>3. ClearInit => FoundInv
  BY StoredInit DEF ClearInit, FoundInv
<1> QED
  BY <1>2, <1>3, FoundStep, ClearedStep, ClearedInit, ClearTypedStep, ClearInitTyped, PTL
  DEF ClearSpec, ClearIsComplete

=============================================================================
