------------------------------ MODULE Registry ------------------------------
(***************************************************************************)
(* What the supervisor promises to whoever holds a sender of its command   *)
(* channel (crates/runtime/src/lib.rs): a set of registered names, changed *)
(* by the commands one at a time, in the order they were sent.  Adding a   *)
(* name that is there and removing one that is not change nothing.  When   *)
(* the loop ends the names are gone; the channel stays open, unserved,     *)
(* until run() has returned.                                               *)
(*                                                                         *)
(* Supervisor implements this, whatever its tasks do; Discovery relies on  *)
(* nothing else.                                                           *)
(***************************************************************************)
EXTENDS Integers, Sequences

CONSTANTS
    Names,          \* descriptor names
    CmdCapacity     \* the command channel; 64 in the code

VARIABLES
    cmds,           \* the command channel
    registered,     \* the keys of the registry
    service         \* what the supervisor is doing

vars == <<cmds, registered, service>>

Add(n)    == [kind |-> "add", name |-> n]
Remove(n) == [kind |-> "remove", name |-> n]
Commands  == [kind : {"add", "remove"}, name : Names]

Init == cmds = <<>> /\ registered = {} /\ service = "booting"

\* A boot source.
Register(n) ==
    /\ service = "booting"
    /\ registered' = registered \cup {n}
    /\ UNCHANGED <<cmds, service>>

\* The loop begins.
Open ==
    /\ service = "booting"
    /\ service' = "serving"
    /\ UNCHANGED <<cmds, registered>>

\* A sender waits for room; after run() there is no channel.
Send(c) ==
    /\ service # "closed" /\ Len(cmds) < CmdCapacity
    /\ cmds' = Append(cmds, c)
    /\ UNCHANGED <<registered, service>>

Serve ==
    /\ service = "serving" /\ cmds # <<>>
    /\ cmds' = Tail(cmds)
    /\ registered' = IF Head(cmds).kind = "add"
                     THEN registered \cup {Head(cmds).name}
                     ELSE registered \ {Head(cmds).name}
    /\ UNCHANGED service

\* The loop ends: every source goes.
End ==
    /\ service = "serving"
    /\ service' = "flushing"
    /\ registered' = {}
    /\ UNCHANGED cmds

\* run() returns: the receiver goes, with the commands in it.
Close ==
    /\ service = "flushing"
    /\ service' = "closed"
    /\ cmds' = <<>>
    /\ UNCHANGED registered

Next == \/ \E n \in Names : Register(n)
        \/ \E c \in Commands : Send(c)
        \/ Open \/ Serve \/ End \/ Close

Spec == Init /\ [][Next]_vars

=============================================================================
