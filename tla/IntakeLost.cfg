\* A crash between marking and enqueueing.
SPECIFICATION Spec
CONSTANTS
    a1 = a1  a2 = a2
    e1 = e1  e2 = e2  e3 = e3
    s1 = s1
    Api = {a1, a2}
    Events = {e1, e2, e3}
    Simulated = {}
    Feeds <- SteadyFeed
    BatchSize = 2
    MaxDepth = 1
    Faults = {"crash"}
SYMMETRY Replicas
INVARIANTS SeenIsEnqueued
