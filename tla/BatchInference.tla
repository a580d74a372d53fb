--------------------------- MODULE BatchInference ---------------------------
(***************************************************************************)
(* One call of app/inference/engine.py: run_inference_batch, which asks    *)
(* Gemini about all events of a batch in parallel threads and applies the  *)
(* answers in the order they come, or run_inference, which asks in the     *)
(* main thread.  RQ's job timeout is an exception that strikes the main    *)
(* thread at any point, once.                                              *)
(***************************************************************************)
EXTENDS Scoring

CONSTANTS
    Workloads,   \* calls: [batch, gemini, single], see WorkloadsAssumption
    Replies,     \* what a Gemini call may come back with
    MaxThreads,  \* the 4 of min(4, len(events))
    Timeouts     \* BOOLEAN: the job may time out

Texts == {"text1", "text2", "number"}   \* "number": a narrative that is no string

\* A line of Gemini's advice; rules.py has lines of the same shape.
Line(text) == <<"gemini", text, 0>>
Blank == Line("")

\* A call that failed, was no JSON or lacked a key counts as a reply without
\* recommendations.
NoReply == [narrative |-> "number", recs |-> <<>>, trend |-> "other"]

ASSUME WorkloadsAssumption ==
    \A w \in Workloads :
        /\ w \in [batch : Seq(Events), gemini : BOOLEAN, single : BOOLEAN]
        /\ w.batch # <<>>
        /\ w.single => Len(w.batch) = 1
ASSUME RepliesAssumption ==
    Replies \subseteq [narrative : Texts, recs : Seq({Line(t) : t \in {"", "a", "b", "c", "d"}}),
                       trend : Trends \cup {"other"}]
ASSUME ThreadsAssumption == MaxThreads \in Nat \ {0} /\ Timeouts \in BOOLEAN

VARIABLES
    work,       \* the call's workload
    state,      \* per event: its mutable inference state
    calls,      \* per event: its Gemini call
    answers,    \* per event: what its call came back with
    collected,  \* the futures as_completed has yielded
    current,    \* the event whose answer is being applied
    left,       \* the fields of it still to be assigned
    results,    \* the list of InferenceResults, empty until the call returns
    struck,     \* the job timeout has struck
    pc          \* the main thread

vars == <<work, state, calls, answers, collected, current, left, results, struck, pc>>

N == Len(work.batch)
Idx == 1..N

-----------------------------------------------------------------------------
(* GeminiAnalyzer.analyze: what becomes of a reply.                        *)

\* Its lines that are not blank; upTo[n] are those among the first n.
Cleaned(recs) ==
    LET upTo[n \in 0..Len(recs)] ==
          IF n = 0 THEN <<>>
          ELSE IF recs[n] = Blank THEN upTo[n - 1] ELSE Append(upTo[n - 1], recs[n])
    IN  upTo[Len(recs)]

\* _sanitize_recommendations
Sanitized(reply) ==
    LET lines == Cleaned(reply.recs) IN SubSeq(lines, 1, Min({3, Len(lines)}))

Usable(reply) == Sanitized(reply) # <<>>

\* The last line is repeated until there are three.
Recs_Unpadded(reply) == Sanitized(reply)
Recs(reply) ==
    LET recs == Sanitized(reply) IN recs \o [i \in 1..(3 - Len(recs)) |-> recs[Len(recs)]]

Trend(reply) == IF reply.trend \in Trends THEN reply.trend ELSE "STABLE"

Raised(confidence) == IF confidence + 20 > 97 THEN 97 ELSE confidence + 20

\* The state after an answer has been applied in full.
Enriched(s, reply) ==
    [s EXCEPT !.narrative = reply.narrative, !.recs = Recs(reply),
              !.trend = Trend(reply), !.mode = "gemini",
              !.path = "TIER_2_GEMINI", !.confidence = Raised(@)]

\* The order in which the engine assigns them.
Fields_PathFirst == <<"path", "narrative", "recs", "trend", "mode", "confidence">>
Fields == <<"narrative", "recs", "trend", "mode", "path", "confidence">>

-----------------------------------------------------------------------------
CallStates == {"queued", "running", "done"}

TypeOK ==
    /\ work \in Workloads
    /\ \A i \in Idx :
          /\ state[i].severity \in 0..100 /\ state[i].confidence \in 0..100
          /\ state[i].risk \in Risks /\ state[i].trend \in Trends
          /\ calls[i] \in CallStates
          /\ answers[i] \in Replies \cup {NoReply}
    /\ collected \subseteq Idx
    /\ current \in 0..N
    /\ left \in {<<>>} \cup {SubSeq(Fields, k, 6) : k \in 1..6}
    /\ pc = "assign" => current \in Idx /\ left # <<>>
    /\ Len(results) \in {0, N}
    /\ struck \in BOOLEAN
    /\ pc \in {"collect", "assign", "drain", "convert", "returned", "raised"}

\* Scoring the whole batch and submitting its calls come first and block on
\* nothing: the model starts after them.  Without a Gemini client the scores
\* are all there is.
Init ==
    /\ work \in Workloads
    /\ state = [i \in Idx |-> HeuristicState(work.batch[i])]
    /\ calls = [i \in Idx |-> IF work.gemini THEN "queued" ELSE "done"]
    /\ answers = [i \in Idx |-> NoReply]
    /\ collected = {} /\ current = 0 /\ left = <<>>
    /\ results = <<>>
    /\ struck = FALSE
    /\ pc = IF work.gemini THEN "collect" ELSE "convert"

-----------------------------------------------------------------------------
(* The threads of the executor; in run_inference, the main thread itself.  *)

Running == {i \in Idx : calls[i] = "running"}
Finished == \A i \in Idx : calls[i] = "done"

StartCall(i) ==
    /\ calls[i] = "queued" /\ \A j \in 1..(i - 1) : calls[j] # "queued"
    /\ Cardinality(Running) < MaxThreads
    /\ pc \in {"collect", "assign", "drain"}
    /\ calls' = [calls EXCEPT ![i] = "running"]
    /\ UNCHANGED <<work, state, answers, collected, current, left, results, struck, pc>>

Answer(i) ==
    /\ calls[i] = "running"
    /\ calls' = [calls EXCEPT ![i] = "done"]
    /\ \E reply \in Replies \cup {NoReply} : answers' = [answers EXCEPT ![i] = reply]
    /\ UNCHANGED <<work, state, collected, current, left, results, struck, pc>>

-----------------------------------------------------------------------------
(* The main thread.                                                        *)

\* as_completed yields a finished future: its answer is going to be applied
\* to the event it was asked for, or the event keeps its heuristic state.
Collect_RaisesConfidence(i) ==
    /\ pc = "collect" /\ calls[i] = "done" /\ i \notin collected
    /\ collected' = collected \cup {i}
    /\ state' = [state EXCEPT ![i].confidence = Raised(@)]
    /\ IF Usable(answers[i])
       THEN pc' = "assign" /\ current' = i /\ left' = Fields
       ELSE UNCHANGED <<pc, current, left>>
    /\ UNCHANGED <<work, calls, answers, results, struck>>
Collect_FailureStaysOpen(i) ==
    /\ pc = "collect" /\ calls[i] = "done" /\ i \notin collected
    /\ Usable(answers[i])
    /\ collected' = collected \cup {i}
    /\ pc' = "assign" /\ current' = i /\ left' = Fields
    /\ UNCHANGED <<work, state, calls, answers, results, struck>>
Collect(i) ==
    /\ pc = "collect" /\ calls[i] = "done" /\ i \notin collected
    /\ collected' = collected \cup {i}
    /\ IF Usable(answers[i])
       THEN pc' = "assign" /\ current' = i /\ left' = Fields
       ELSE UNCHANGED <<pc, current, left>>
    /\ UNCHANGED <<work, state, calls, answers, results, struck>>

Assign_InOrderOfCompletion ==
    /\ pc = "assign"
    /\ state' = [state EXCEPT ![Cardinality(collected)][Head(left)] =
                    Enriched(state[current], answers[current])[Head(left)]]
    /\ left' = Tail(left)
    /\ pc' = IF Len(left) = 1 THEN "collect" ELSE "assign"
    /\ UNCHANGED <<work, calls, answers, collected, current, results, struck>>
Assign ==
    /\ pc = "assign"
    /\ state' = [state EXCEPT ![current][Head(left)] =
                    Enriched(state[current], answers[current])[Head(left)]]
    /\ left' = Tail(left)
    /\ pc' = IF Len(left) = 1 THEN "collect" ELSE "assign"
    /\ UNCHANGED <<work, calls, answers, collected, current, results, struck>>

EndCollect ==
    /\ pc = "collect" /\ collected = Idx
    /\ pc' = "convert"
    /\ UNCHANGED <<work, state, calls, answers, collected, current, left, results, struck>>

\* One comprehension over the batch: a narrative that is no string fails the
\* validation of its InferenceResult, and with it the call.
Convert ==
    /\ pc = "convert"
    /\ IF \E i \in Idx : state[i].narrative = "number"
       THEN pc' = "raised" /\ UNCHANGED results
       ELSE pc' = "returned" /\ results' = state
    /\ UNCHANGED <<work, state, calls, answers, collected, current, left, struck>>

\* Leaving the executor's with-block waits for every submitted call, those
\* not started yet included.
Drain_AtOnce ==
    /\ pc = "drain"
    /\ pc' = "raised"
    /\ UNCHANGED <<work, state, calls, answers, collected, current, left, results, struck>>
Drain ==
    /\ pc = "drain" /\ Finished
    /\ pc' = "raised"
    /\ UNCHANGED <<work, state, calls, answers, collected, current, left, results, struck>>

Strike ==
    /\ Timeouts /\ ~struck
    /\ struck' = TRUE
    /\ UNCHANGED <<work, state, collected, current, results>>

\* run_inference_batch: while waiting, the exception leaves the with-block;
\* between two assignments its "except Exception" takes it for a failed call
\* and goes on with the state as it is.
TimeoutInBatch ==
    /\ Strike /\ ~work.single
    /\ pc \in {"collect", "assign", "convert"}
    /\ pc' = CASE pc = "collect" -> "drain" [] pc = "assign" -> "collect"
               [] pc = "convert" -> "raised"
    /\ left' = <<>>
    /\ UNCHANGED <<calls, answers>>

\* run_inference: analyze turns an exception of the request into
\* GeminiUnavailable; elsewhere nothing catches it.
TimeoutInSingle ==
    /\ Strike /\ work.single
    /\ \/ /\ 1 \in Running
          /\ calls' = [calls EXCEPT ![1] = "done"]
          /\ UNCHANGED <<answers, left, pc>>
       \/ /\ 1 \notin Running /\ pc \in {"collect", "assign", "convert"}
          /\ pc' = "raised" /\ left' = <<>>
          /\ calls' = [calls EXCEPT ![1] = "done"]
          /\ UNCHANGED answers

-----------------------------------------------------------------------------
Next ==
    \/ \E i \in Idx : StartCall(i) \/ Answer(i) \/ Collect(i)
    \/ Assign \/ EndCollect \/ Convert \/ Drain
    \/ TimeoutInBatch \/ TimeoutInSingle

Spec == Init /\ [][Next]_vars

Main == (\E i \in Idx : Collect(i)) \/ Assign \/ EndCollect \/ Convert \/ Drain

\* The client library ends each request; nothing in the repository bounds it.
Fairness == WF_vars(Main) /\ WF_vars(\E i \in Idx : StartCall(i) \/ Answer(i))

FairSpec == Spec /\ Fairness

-----------------------------------------------------------------------------
(* Properties.                                                             *)

Content == {"narrative", "recs", "trend", "mode", "path", "confidence"}
Heuristic(i) == HeuristicState(work.batch[i])
FromGemini(i) == Enriched(Heuristic(i), answers[i])

\* The result at an event's place is about that event: its severity, risk and
\* impact are its own, and each field of the text comes from its own rules or
\* its own answer, in whatever order the threads finish.
OwnAnswer ==
    \A i \in DOMAIN results :
        /\ \A f \in {"severity", "risk", "impact"} : results[i][f] = Heuristic(i)[f]
        /\ \A f \in Content :
              \/ results[i][f] = Heuristic(i)[f]
              \/ Usable(answers[i]) /\ results[i][f] = FromGemini(i)[f]

\* A result that says TIER_2_GEMINI has all of its text from Gemini, even if
\* the timeout struck while the answer was being applied.
TierTwoIsWhole ==
    \A i \in DOMAIN results :
        results[i].path = "TIER_2_GEMINI" =>
            /\ Usable(answers[i])
            /\ \A f \in Content \ {"confidence"} : results[i][f] = FromGemini(i)[f]

\* Unless the timeout struck, a result is the fallback in every field or
\* Gemini's in every field, and the fallback only for an unusable answer.
FallbackIsWhole ==
    ~struck =>
        \A i \in DOMAIN results :
            results[i] = IF Usable(answers[i]) THEN FromGemini(i) ELSE Heuristic(i)

\* Every result has exactly three recommendations, those of the event's own
\* rules or lines of its own answer, none of them blank: not a line less for an
\* answer with one line, nor one more for an answer with four.
ThreeRecommendations ==
    \A i \in DOMAIN results :
        LET recs == results[i].recs IN
        /\ Len(recs) = 3
        /\ \/ recs = Heuristic(i).recs
           \/ Range(recs) \subseteq Range(answers[i].recs) \ {Blank}

Rank == [LOW |-> 1, MEDIUM |-> 2, HIGH |-> 3, CRITICAL |-> 4]

\* Of two events of one category the one that is tracked at least as long and
\* spread at least as wide has at least the other's risk.
RiskGrowsWithTracking ==
    \A i, j \in DOMAIN results :
        LET a == work.batch[i]
            b == work.batch[j]
        IN  /\ a.category = b.category
            /\ Len(a.geometry) <= Len(b.geometry)
            /\ Area(a.geometry) <= Area(b.geometry)
            => Rank[results[i].risk] <= Rank[results[j].risk]

\* A located event's impact is judged by whether its mean latitude lies
\* within 55 degrees of the equator, north or south, the equator included.
ImpactFollowsLatitude ==
    \A i \in DOMAIN results :
        LET c == Centroid(work.batch[i].geometry)
            populated == -55 * c.count < c.total /\ c.total < 55 * c.count
        IN  Located(c) =>
              results[i].impact =
                 CASE results[i].risk = "CRITICAL" -> IF populated THEN "national" ELSE "regional"
                   [] results[i].risk = "HIGH" -> IF populated THEN "regional" ELSE "local"
                   [] results[i].risk = "MEDIUM" -> "local"
                   [] results[i].risk = "LOW" -> "localized"

\* No Gemini call outlives the inference that made it, however it ends.
NothingOutlivesTheCall ==
    pc \in {"returned", "raised"} => Finished

\* Every inference returns or raises.
InferenceEnds == <>(pc \in {"returned", "raised"})

=============================================================================
