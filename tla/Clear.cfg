\* A simulated batch and a real single job in two work-horses, malformed replies
\* that exhaust the retries, a request to put failed jobs back, and one clearing
\* request that meets Redis errors.
SPECIFICATION ClearSpec
CONSTANTS
    j1 = j1  j2 = j2
    s1 = s1  s2 = s2  e1 = e1
    w1 = w1  w2 = w2
    Jobs = {j1, j2}
    Payload <- MixedJobs
    Single = {j2}
    Malformed = {s2, e1}
    Workers = {w1, w2}
    MaxRetries = 1
    MaxRequeues = 1
    DlqCap = 2
    Faults = {}
    Synthetic = {s1, s2}
    RequestFails = TRUE
SYMMETRY WorkHorses
INVARIANTS ClearedStaysClear RealCountedOnce
PROPERTIES ClearIsComplete
\* The request answered, every job finished or failed: the system rests.
CHECK_DEADLOCK FALSE
