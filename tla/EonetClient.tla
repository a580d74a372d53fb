----------------------------- MODULE EonetClient -----------------------------
(***************************************************************************)
(* fetch_open_events of app/eonet/client.py: the request to NASA EONET     *)
(* with its retries.  An API process makes one call at a time and touches  *)
(* no shared state in it, so a failed request, the backoff that follows it *)
(* and the next request are one step.                                      *)
(***************************************************************************)
EXTENDS Naturals, Sequences, SequencesExt

CONSTANTS
    Pollers,      \* API processes
    Listed,       \* the events EONET lists, in order
    Unparsable,   \* listed events that EONETEvent does not accept
    MaxAttempts   \* settings.eonet_max_retries; with 0 every poll fails

VARIABLE attempt   \* per process: number of the request under way, 0 for none

ClientTypeOK == attempt \in [Pollers -> 0..MaxAttempts]

ClientInit == attempt = [p \in Pollers |-> 0]

Parsed_AllOrNothing == IF ToSet(Listed) \cap Unparsable = {} THEN Listed ELSE <<>>

\* The loop over the answer: an event that does not parse is logged and skipped.
ParsedTo[n \in 0..Len(Listed)] ==
    IF n = 0 THEN <<>>
    ELSE IF Listed[n] \in Unparsable THEN ParsedTo[n - 1]
    ELSE Append(ParsedTo[n - 1], Listed[n])
Parsed == ParsedTo[Len(Listed)]

Requesting(p) == attempt[p] > 0

Request(p) ==
    /\ ~Requesting(p)
    /\ attempt' = [attempt EXCEPT ![p] = 1]

Done(p) == attempt' = [attempt EXCEPT ![p] = 0]

Answer(p, events) == Requesting(p) /\ events = Parsed /\ Done(p)

\* 429, 5xx or a network error, with attempts left.
Retry_OneMore(p) ==
    /\ Requesting(p) /\ attempt[p] <= MaxAttempts
    /\ attempt' = [attempt EXCEPT ![p] = @ + 1]
Retry(p) ==
    /\ Requesting(p) /\ attempt[p] < MaxAttempts
    /\ attempt' = [attempt EXCEPT ![p] = @ + 1]

\* Another status at any attempt, or the last attempt failed.
GiveUp(p, events) == Requesting(p) /\ events = <<>> /\ Done(p)

\* A body that is no JSON object: the exception leaves the client and ends
\* the poll.
Raise(p) == Requesting(p) /\ Done(p)

=============================================================================
