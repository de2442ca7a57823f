------------------------------ MODULE Pipeline ------------------------------
(***************************************************************************)
(* The telemetry path of crates/runtime/src/lib.rs: ChannelSink clones     *)
(* that push into one bounded channel, and drain_loop, which batches what  *)
(* it receives and awaits the exporter.  A signal is its emitter and its   *)
(* number; the exporter is external and answers Ok or Err.                 *)
(***************************************************************************)
EXTENDS Integers, Sequences, FiniteSets

CONSTANTS
    Holders,            \* owners of a sink clone: the tasks and the supervisor
    MaxSignals,         \* bound: signals each holder emits
    ChannelCapacity,    \* 4096 in the code
    BatchSize           \* 512 in the code

ASSUME PipelineAssumption ==
    /\ MaxSignals \in Nat
    /\ ChannelCapacity \in Nat \ {0}
    /\ BatchSize \in Nat

VARIABLES
    handles,    \* the holders that have not dropped their clone
    emitted,    \* signals each holder has emitted so far
    dropped,    \* the counter shared by the clones
    chan,       \* the bounded channel
    buf,        \* drain_loop's buffer
    drain,      \* where drain_loop is
    batch,      \* what the exporter was given and has not answered yet
    delivered,  \* what it exported
    failed      \* what it failed to export

vars == <<handles, emitted, dropped, chan, buf, drain, batch, delivered, failed>>

Signal == [from : Holders, no : 1..MaxSignals]

Init ==
    /\ handles = Holders
    /\ emitted = [h \in Holders |-> 0]
    /\ dropped = 0
    /\ chan = <<>> /\ buf = <<>> /\ batch = <<>>
    /\ drain = "receiving"
    /\ delivered = <<>> /\ failed = <<>>

-----------------------------------------------------------------------------
(* ChannelSink *)

\* The next signal of holder h.
Emitting(h) ==
    /\ h \in handles /\ emitted[h] < MaxSignals
    /\ emitted' = [emitted EXCEPT ![h] = @ + 1]

\* Mutants of Emit: an unbounded channel, send().await instead of try_send,
\* and drop-oldest.
Emit_Unbounded(h) ==
    /\ Emitting(h)
    /\ chan' = Append(chan, [from |-> h, no |-> emitted'[h]])
    /\ UNCHANGED <<handles, dropped, buf, drain, batch, delivered, failed>>
Emit_Waits(h) ==
    /\ Emitting(h)
    /\ Len(chan) < ChannelCapacity
    /\ chan' = Append(chan, [from |-> h, no |-> emitted'[h]])
    /\ UNCHANGED <<handles, dropped, buf, drain, batch, delivered, failed>>
Emit_DropsOldest(h) ==
    /\ Emitting(h)
    /\ \/ /\ Len(chan) < ChannelCapacity
          /\ chan' = Append(chan, [from |-> h, no |-> emitted'[h]])
          /\ UNCHANGED dropped
       \/ /\ Len(chan) = ChannelCapacity
          /\ chan' = Append(Tail(chan), [from |-> h, no |-> emitted'[h]])
          /\ dropped' = dropped + 1
    /\ UNCHANGED <<handles, buf, drain, batch, delivered, failed>>

\* emit: try_send, and the newest is dropped and counted when there is no room.
Emit(h) ==
    /\ Emitting(h)
    /\ \/ /\ Len(chan) < ChannelCapacity
          /\ chan' = Append(chan, [from |-> h, no |-> emitted'[h]])
          /\ UNCHANGED dropped
       \/ /\ Len(chan) = ChannelCapacity
          /\ dropped' = dropped + 1
          /\ UNCHANGED chan
    /\ UNCHANGED <<handles, buf, drain, batch, delivered, failed>>

\* A holder's task ends, or the supervisor drops its own clone, and with it
\* those of the tasks it will not spawn any more.
DropSinks(H) ==
    /\ H \subseteq handles
    /\ handles' = handles \ H
    /\ UNCHANGED <<emitted, dropped, chan, buf, drain, batch, delivered, failed>>

-----------------------------------------------------------------------------
(* drain_loop *)

\* export_batch up to its await: the buffer is taken whole.
StartExport(signals, next) ==
    /\ batch' = signals
    /\ buf' = <<>>
    /\ drain' = next

\* Mutant of Receive: the length is compared before the push.
Receive_Late ==
    /\ drain = "receiving" /\ chan # <<>>
    /\ chan' = Tail(chan)
    /\ LET filled == Append(buf, Head(chan))
       IN  IF Len(filled) > BatchSize
           THEN StartExport(filled, "exporting")
           ELSE buf' = filled /\ UNCHANGED <<batch, drain>>
    /\ UNCHANGED <<handles, emitted, dropped, delivered, failed>>

\* rx.recv() yields a signal; a full buffer is exported at once.
Receive ==
    /\ drain = "receiving" /\ chan # <<>>
    /\ chan' = Tail(chan)
    /\ LET filled == Append(buf, Head(chan))
       IN  IF Len(filled) >= BatchSize
           THEN StartExport(filled, "exporting")
           ELSE buf' = filled /\ UNCHANGED <<batch, drain>>
    /\ UNCHANGED <<handles, emitted, dropped, delivered, failed>>

\* Mutant of FlushTick: the interval only flushes a full buffer.
FlushTick_Full ==
    /\ drain = "receiving" /\ Len(buf) >= BatchSize
    /\ StartExport(buf, "exporting")
    /\ UNCHANGED <<handles, emitted, dropped, chan, delivered, failed>>

\* flush.tick(): a buffer that is not full is exported all the same.
FlushTick ==
    /\ drain = "receiving" /\ buf # <<>>
    /\ StartExport(buf, "exporting")
    /\ UNCHANGED <<handles, emitted, dropped, chan, delivered, failed>>

\* Mutants of ChannelClosed: the loop exports and does not break, or breaks
\* without the last export.
ChannelClosed_NoBreak ==
    /\ drain = "receiving" /\ chan = <<>> /\ handles = {}
    /\ StartExport(buf, "exporting")
    /\ UNCHANGED <<handles, emitted, dropped, chan, delivered, failed>>
ChannelClosed_NoFlush ==
    /\ drain = "receiving" /\ chan = <<>> /\ handles = {}
    /\ drain' = "done"
    /\ UNCHANGED <<handles, emitted, dropped, chan, buf, batch, delivered, failed>>

\* rx.recv() yields None: no clone is left and the channel is empty.
ChannelClosed ==
    /\ drain = "receiving" /\ chan = <<>> /\ handles = {}
    /\ StartExport(buf, "closing")
    /\ UNCHANGED <<handles, emitted, dropped, chan, delivered, failed>>

\* The exporter answered; the loop goes on, or ends after the last batch.
ExportEnds ==
    /\ drain \in {"exporting", "closing"}
    /\ batch' = <<>>
    /\ drain' = IF drain = "closing" THEN "done" ELSE "receiving"
    /\ UNCHANGED <<handles, emitted, dropped, chan, buf>>

ExportOk ==
    /\ ExportEnds
    /\ delivered' = delivered \o batch
    /\ UNCHANGED failed

\* Mutant of ExportFails: the batch is sent again through the channel.
ExportFails_Requeues ==
    /\ drain = "exporting"
    /\ batch' = <<>>
    /\ chan' = chan \o batch
    /\ drain' = "receiving"
    /\ UNCHANGED <<handles, emitted, dropped, buf, delivered, failed>>

\* A failed export is logged and its batch dropped.
ExportFails ==
    /\ ExportEnds
    /\ failed' = failed \o batch
    /\ UNCHANGED delivered

Done == drain = "done" /\ UNCHANGED vars

Drain == Receive \/ FlushTick \/ ChannelClosed \/ ExportOk \/ ExportFails

Next == \/ \E h \in Holders : Emit(h)
        \/ \E H \in SUBSET Holders : DropSinks(H)
        \/ Drain \/ Done

Spec == Init /\ [][Next]_vars

(***************************************************************************)
(* Fairness.  The exporter answers, the channel wakes its receiver, and    *)
(* select! takes each ready branch in the end: the flush interval is as    *)
(* sure to be served as the channel (SF: a full channel keeps disabling    *)
(* it).  Sources owe nothing.                                              *)
(***************************************************************************)
Fairness ==
    /\ WF_vars(Receive) /\ SF_vars(FlushTick) /\ WF_vars(ChannelClosed)
    /\ WF_vars(ExportOk \/ ExportFails)

FairSpec == Spec /\ Fairness

-----------------------------------------------------------------------------
(* Properties *)

\* Accepted and not answered for by the exporter, oldest first.
Pending == batch \o buf \o chan

TypeOK ==
    /\ handles \subseteq Holders
    /\ emitted \in [Holders -> 0..MaxSignals]
    /\ dropped \in Nat
    /\ chan \in Seq(Signal) /\ Len(chan) <= ChannelCapacity
    /\ buf \in Seq(Signal) /\ batch \in Seq(Signal)
    /\ delivered \in Seq(Signal) /\ failed \in Seq(Signal)
    /\ drain \in {"receiving", "exporting", "closing", "done"}

\* Only an export under way holds a batch; in particular the loop never
\* overwrites one.
BatchOnlyInExport == drain \in {"receiving", "done"} => batch = <<>>

BatchLimit == IF BatchSize = 0 THEN 1 ELSE BatchSize

\* The exporter never gets a batch larger than the configured size, and the
\* buffer never holds a full one between two receives.
BatchesAreBounded == Len(batch) <= BatchLimit /\ Len(buf) < BatchLimit

\* The implementation of the abstract queue: order kept, nothing duplicated,
\* a refusal only when ChannelCapacity signals wait, batches answered whole.
Promise == INSTANCE BestEffort WITH refused <- dropped, pending <- Pending

ImplementsBestEffort == Promise!Spec

\* When the drain is over no clone of the sink is left and everything that was
\* accepted has been handed to the exporter: the final flush of a shutdown
\* (lib.rs:190-193).
EndsEmpty ==
    /\ drain \in {"closing", "done"} => handles = {} /\ chan = <<>> /\ buf = <<>>
    /\ drain = "done" => Pending = <<>>

\* The signals of one source reach the exporter in the order they were emitted
\* and each at most once, failed batches and drops in between or not.
InOrderOnce ==
    LET Ordered(q) == \A i, j \in 1..Len(q) :
            i < j /\ q[i].from = q[j].from => q[i].no < q[j].no
        Precedes(p, q) == \A i \in 1..Len(p), j \in 1..Len(q) :
            p[i].from = q[j].from => p[i].no < q[j].no
    IN  /\ Ordered(delivered) /\ Ordered(failed) /\ Ordered(Pending)
        /\ Precedes(delivered, Pending) /\ Precedes(failed, Pending)
        /\ \A i \in 1..Len(delivered), j \in 1..Len(failed) :
             delivered[i] # failed[j]

\* An accepted signal is exported, or failed with its batch, in the end: also
\* when the sources fall silent with a batch half full.
SignalsLeave ==
    \A x \in Signal :
        (\E i \in 1..Len(Pending) : Pending[i] = x)
            ~> (\A i \in 1..Len(Pending) : Pending[i] # x)

\* When the last clone is dropped the drain ends.
DrainEnds == handles = {} ~> drain = "done"

=============================================================================
