------------------------------ MODULE MCMetrics ------------------------------
(* Instances of Metrics for TLC. *)
EXTENDS Metrics, TLC

CONSTANTS w1, w2

TwoBounds == <<1, 2>>

WorkHorses == Permutations({w1, w2})

=============================================================================
