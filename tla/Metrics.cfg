\* Latencies at each bound and above, two events at a time, Redis errors and
\* kills at every command, scrapes at any time.
SPECIFICATION Spec
CONSTANTS
    w1 = w1  w2 = w2
    Workers = {w1, w2}
    Bounds <- TwoBounds
    Latencies = {1, 2, 3}
    Readings = {0, 120}
    MaxEvents = 2
    Faults = {"redis", "kill"}
SYMMETRY WorkHorses
INVARIANTS TypeOK CountersNested ScrapeWithinWindow HistogramWellFormed
