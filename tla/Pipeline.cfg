\* Two replicas poll an unreliable EONET; malformed replies fail one event's job.
SPECIFICATION FairSpec
CONSTANTS
    a1 = a1  a2 = a2
    e1 = e1  e2 = e2  x = x
    j1 = j1  j2 = j2  j3 = j3
    w1 = w1
    Api = {a1, a2}
    Workers = {w1}
    BatchSize = 2
    MaxDepth = 1
    MaxAttempts = 2
    MaxRetries = 1
    MaxRequeues = 1
    DlqCap = 2
    Listed <- Feed
    Unparsable = {x}
    Malformed = {e2}
    Jobs = {j1, j2, j3}
    Payload <- Batches
INVARIANTS TypeOK CountedOnce IdleShowsNoTask FinishedMeansSettled
PROPERTIES ImplementsLife
