-------------------------- MODULE MCClearSimulated --------------------------
(* Instances of ClearSimulated for TLC. *)
EXTENDS ClearSimulated, TLC

CONSTANTS j1, j2, s1, s2, e1, w1, w2

\* A simulated batch and a batch of one real event.
MixedJobs == j1 :> <<s1, s2>> @@ j2 :> <<e1>>

WorkHorses == Permutations({w1, w2})

=============================================================================
