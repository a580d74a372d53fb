----------------------- MODULE MCCompletionBroadcast -----------------------
(* Instances of CompletionBroadcast for TLC. *)
EXTENDS CompletionBroadcast

CONSTANTS e1, e2, c1, c2

=============================================================================
