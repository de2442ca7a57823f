---------------------------- MODULE MCDiscovery -----------------------------
(* Instances of Discovery for TLC: two workspaces that come and go. *)
EXTENDS Discovery

CONSTANTS u, v

=============================================================================
