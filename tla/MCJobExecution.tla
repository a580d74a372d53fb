--------------------------- MODULE MCJobExecution ---------------------------
(* Instances of JobExecution for TLC. *)
EXTENDS JobExecution, TLC

CONSTANTS j1, j2, e1, e2, e3, w1, w2

\* One batch of two events.
OneBatch == j1 :> <<e1, e2>>

\* A batch, and a job of the single-event task.
BatchAndSingle == j1 :> <<e1, e2>> @@ j2 :> <<e3>>

=============================================================================
