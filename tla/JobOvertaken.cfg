\* A worker is faster than the initial writes.
SPECIFICATION Spec
CONSTANTS
    j1 = j1  j2 = j2
    e1 = e1  e2 = e2  e3 = e3
    w1 = w1  w2 = w2
    Jobs = {j1}
    Payload <- OneBatch
    Single = {}
    Malformed = {}
    Workers = {w1}
    MaxRetries = 1
    MaxRequeues = 0
    DlqCap = 2
    Faults = {"overtake"}
PROPERTIES QueuedComesFirst
\* Every job finished or failed and no request left: the system rests.
CHECK_DEADLOCK FALSE
