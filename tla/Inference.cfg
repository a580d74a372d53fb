\* Gemini is asked about three events in two threads, about one in a batch and
\* about one on its own; without Gemini, pairs of events at both sides of every
\* threshold.  The call ends: nothing happens after it.
SPECIFICATION FairSpec
CHECK_DEADLOCK FALSE
CONSTANTS
    Workloads <- AllWorkloads
    Replies <- SomeReplies
    MaxThreads = 2
    Timeouts = TRUE
INVARIANTS TypeOK OwnAnswer TierTwoIsWhole FallbackIsWhole ThreeRecommendations
    RiskGrowsWithTracking ImpactFollowsLatitude NothingOutlivesTheCall
PROPERTIES InferenceEnds
