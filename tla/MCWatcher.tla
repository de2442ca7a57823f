----------------------------- MODULE MCWatcher ------------------------------
(* An instance of Watcher for TLC: one discovered tenant.                    *)
EXTENDS Watcher

CONSTANT t

OneName   == {"t"}
NameTable == [s \in Sources |-> "t"]

=============================================================================
