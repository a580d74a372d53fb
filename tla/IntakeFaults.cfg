\* Two API replicas that crash and meet Redis errors at any command, with a
\* poller and a simulation request each, and retries refilling the queue.
SPECIFICATION Spec
CONSTANTS
    a1 = a1  a2 = a2
    e1 = e1  e2 = e2  e3 = e3
    s1 = s1
    Api = {a1, a2}
    Events = {e1, e2, e3}
    Simulated = {s1}
    Feeds <- VaryingFeeds
    BatchSize = 2
    MaxDepth = 1
    Faults = {"crash", "redis", "redeliver"}
SYMMETRY Replicas
INVARIANTS TypeOK EnqueuedOnce RecordHasJob BatchWithinSize DepthBound
PROPERTIES UnmarkOnlyDeferred ImplementsPromise
