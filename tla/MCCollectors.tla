---------------------------- MODULE MCCollectors ----------------------------
(* Instances of Collectors for TLC: two workspaces of a user hold a skill of *)
(* the same name, a backup holds another, and two endpoints are probed one   *)
(* after the other.                                                          *)
EXTENDS Collectors

CONSTANTS d, e, k, n, m, g, a, b, p, x, y, z

AllSeries == ContainerSeries \cup LearningSeries \cup SamplerSeries
OneName   == [s \in Skills |-> n]
Placed    == [s \in Skills \cup MemoryFiles \cup Graphs |->
                 CASE s = d -> "workspace" [] s = k -> "other"
                   [] s \in Graphs -> "memory-graph-project" [] OTHER -> "workspace-project"]
InTurn    == <<a, b>>

=============================================================================
