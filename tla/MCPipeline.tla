----------------------------- MODULE MCPipeline -----------------------------
(* Instances of Pipeline for TLC: a and b are two tasks holding the sink. *)
EXTENDS Pipeline

CONSTANTS a, b

=============================================================================
