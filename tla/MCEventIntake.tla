--------------------------- MODULE MCEventIntake ---------------------------
(* Instances of EventIntake for TLC. *)
EXTENDS EventIntake, TLC

CONSTANTS a1, a2, e1, e2, e3, s1

\* NASA keeps listing the same open events; a failed
\* fetch returns none.
VaryingFeeds == {<<e1, e2, e3>>, <<>>}

\* Every fetch succeeds.
SteadyFeed == {<<e1, e2, e3>>}

Replicas == Permutations({a1, a2})

=============================================================================
