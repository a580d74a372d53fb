\* Two connections that come and go, two events, the second completion of one,
\* and either a restart or a poll_complete message; any number of failed passes.
SPECIFICATION FairSpec
CONSTANTS
    e1 = e1  e2 = e2
    c1 = c1  c2 = c2
    Events = {e1, e2}
    Conns = {c1, c2}
    MaxCompletions = 2
    MaxExtras = 1
INVARIANTS TypeOK ReceivedInOrder NoGaps
PROPERTIES EveryCompletionAnnounced
