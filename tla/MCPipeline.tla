----------------------------- MODULE MCPipeline -----------------------------
(* Instances of Pipeline for TLC. *)
EXTENDS Pipeline, TLC

CONSTANTS a1, a2, e1, e2, x, j1, j2, j3, w1

\* Two good events and one that does not parse.
Feed == <<e1, x, e2>>

\* Every batch of at most two of them.
Batches == j1 :> <<e1>> @@ j2 :> <<e2>> @@ j3 :> <<e1, e2>>

=============================================================================
