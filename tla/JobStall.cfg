\* Two work-horses on one job: stalled attempts are retried in parallel, malformed
\* replies exhaust the retries, a request puts the job back, the API dies or is slow.
SPECIFICATION FairSpec
CONSTANTS
    j1 = j1  j2 = j2
    e1 = e1  e2 = e2  e3 = e3
    w1 = w1  w2 = w2
    Jobs = {j1}
    Payload <- OneBatch
    Single = {}
    Malformed = {e2}
    Workers = {w1, w2}
    MaxRetries = 1
    MaxRequeues = 1
    DlqCap = 1
    Faults = {"crash", "overtake", "stall"}
INVARIANTS ExhaustedIsDeadLettered DlqBounded CountedOncePerMarker
PROPERTIES EveryJobSettles
\* Every job finished or failed and no request left: the system rests.
CHECK_DEADLOCK FALSE
