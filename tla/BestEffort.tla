----------------------------- MODULE BestEffort -----------------------------
(***************************************************************************)
(* What the telemetry path between the sources and the exporter promises:  *)
(* one queue, first in first out, that may refuse a signal only when it is *)
(* backed up, and hands what it accepted to the exporter in runs that      *)
(* succeed or fail as a whole.  Nothing is duplicated, reordered or lost   *)
(* in between.                                                             *)
(***************************************************************************)
EXTENDS Integers, Sequences

CONSTANTS
    Holders,        \* who holds a clone of the sink
    MaxSignals,     \* bound: signals each holder emits
    ChannelCapacity \* how far the queue backs up before it may refuse

VARIABLES
    emitted,        \* signals each holder has emitted, accepted or not
    refused,        \* how many were refused
    pending,        \* accepted, and not handed over yet
    delivered,      \* handed over and exported
    failed          \* handed over in a batch whose export failed

vars == <<emitted, refused, pending, delivered, failed>>

Signal == [from : Holders, no : 1..MaxSignals]

Init ==
    /\ emitted = [h \in Holders |-> 0]
    /\ refused = 0
    /\ pending = <<>> /\ delivered = <<>> /\ failed = <<>>

\* The next signal of h.
Emitting(h) ==
    /\ emitted[h] < MaxSignals
    /\ emitted' = [emitted EXCEPT ![h] = @ + 1]

Accept(h) ==
    /\ Emitting(h)
    /\ pending' = Append(pending, [from |-> h, no |-> emitted'[h]])
    /\ UNCHANGED <<refused, delivered, failed>>

Refuse(h) ==
    /\ Emitting(h)
    /\ Len(pending) >= ChannelCapacity
    /\ refused' = refused + 1
    /\ UNCHANGED <<pending, delivered, failed>>

\* The oldest k signals leave, together.
HandOver(k) ==
    /\ k \in 0..Len(pending)
    /\ pending' = SubSeq(pending, k + 1, Len(pending))
    /\ \/ delivered' = delivered \o SubSeq(pending, 1, k) /\ UNCHANGED failed
       \/ failed' = failed \o SubSeq(pending, 1, k) /\ UNCHANGED delivered
    /\ UNCHANGED <<emitted, refused>>

Next == (\E h \in Holders : Accept(h) \/ Refuse(h))
        \/ (\E k \in 0..Len(pending) : HandOver(k))

Spec == Init /\ [][Next]_vars

=============================================================================
