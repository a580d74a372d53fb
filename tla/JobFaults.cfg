\* A batch and a job of the single-event task: one work-horse at a time meets
\* kills, timeouts and Redis errors at every step.
SPECIFICATION Spec
CONSTANTS
    j1 = j1  j2 = j2
    e1 = e1  e2 = e2  e3 = e3
    w1 = w1  w2 = w2
    Jobs = {j1, j2}
    Payload <- BatchAndSingle
    Single = {j2}
    Malformed = {e3}
    Workers = {w1}
    MaxRetries = 1
    MaxRequeues = 0
    DlqCap = 1
    Faults = {"kill", "timeout", "redis"}
INVARIANTS TypeOK CompletedIsMarked DeadLetterIsFinal
 
\* Every job finished or failed and no request left: the system rests.
CHECK_DEADLOCK FALSE
