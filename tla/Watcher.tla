------------------------------- MODULE Watcher -------------------------------
(***************************************************************************)
(* Supervisor::run as a whole: the supervisor and its tasks (Supervisor)   *)
(* and the telemetry path (Pipeline) in one process.  A collect or a       *)
(* retirement puts its signal into the channel in the same step; a task    *)
(* holds a clone of the sink until its future is dropped; run() holds one  *)
(* of its own and waits for the drain once it has dropped it.              *)
(*                                                                         *)
(* Supervisor alone returns when every task is over.  Here run() returns   *)
(* when the drain is done, and that this is the same is what the           *)
(* refinement shows.                                                       *)
(***************************************************************************)
EXTENDS Supervisor

CONSTANTS
    Own,                \* run() as the holder of a sink
    MaxSignals,         \* bound: signals of each source, the terminal one included
    ChannelCapacity,    \* 4096 in the code
    BatchSize           \* 512 in the code

ASSUME OwnAssumption == Own \notin Sources

ASSUME TelemetryAssumption ==
    /\ MaxSignals \in Nat
    /\ ChannelCapacity \in Nat \ {0}
    /\ BatchSize \in Nat

VARIABLES
    handles, emitted, dropped, chan, buf, drain, batch, delivered, failed,  \* see Pipeline
    terminals   \* history: the signals that retire() emitted

Telemetry == INSTANCE Pipeline WITH Holders <- Sources \cup {Own}

telemetry   == <<handles, emitted, dropped, chan, buf, drain, batch, delivered, failed>>
watcherVars == <<vars, telemetry, terminals>>

WatcherInit == Init /\ Telemetry!Init /\ terminals = {}

-----------------------------------------------------------------------------
(* Steps of both. *)

\* A collect that emits, whatever its end; the model keeps one signal for retire.
CollectEmits(s) ==
    /\ emitted[s] < MaxSignals - 1
    /\ CollectOk(s) \/ (CollectFails(s) /\ series'[NameOf[s]] = "live")
    /\ Telemetry!Emit(s)
    /\ UNCHANGED terminals

\* Mutant of Retires: the terminal signal is left to a collector that has none.
Retires_Silent(s) ==
    /\ TakeStop(s)
    /\ UNCHANGED <<telemetry, terminals>>

\* retire(&sink) and the end of the task: the terminal signal competes for the
\* channel like any other.
Retires(s) ==
    /\ TakeStop(s)
    /\ Telemetry!Emit(s)
    /\ terminals' = terminals \cup {[from |-> s, no |-> emitted'[s]]}

\* Mutant of TaskDropsSink: an aborted task's sink goes before the task.
TaskDropsSink_Early(s) ==
    /\ s \in handles /\ (pc[s] \in Finished \/ abort[s])
    /\ Telemetry!DropSinks({s})
    /\ UNCHANGED <<vars, terminals>>

\* The future of a task that is over is dropped, and its clone with it.
TaskDropsSink(s) ==
    /\ s \in handles /\ pc[s] \in Finished
    /\ Telemetry!DropSinks({s})
    /\ UNCHANGED <<vars, terminals>>

\* Mutant of RunDropsSink: the clone lives as long as run().
RunDropsSink_Never == phase = "flushing" /\ UNCHANGED watcherVars

\* drop(sink): nobody can be given a clone any more.
RunDropsSink ==
    /\ phase = "flushing" /\ Own \in handles
    /\ Telemetry!DropSinks({Own} \cup {s \in Sources : pc[s] \in Unspawned})
    /\ UNCHANGED <<vars, terminals>>

Return == phase' = "exited" /\ UNCHANGED <<result, registry, joining, boot, cmds,
                                           fatals, sigint, taskVars, telemetry, terminals>>

\* The join of the drain within its five seconds, and the return.
DrainJoined == phase = "flushing" /\ Own \notin handles /\ drain = "done" /\ Return

\* The five seconds are over: a task has not let go of its sink, or the exporter
\* has not answered.  What the drain holds is lost with the process.
DrainLate ==
    /\ phase = "flushing" /\ Own \notin handles
    /\ handles # {} \/ drain \in {"exporting", "closing"}
    /\ Return

-----------------------------------------------------------------------------
(* Steps of one. *)

\* The join of a retired task: its future has been dropped.
Joined == JoinDone /\ joining \notin handles /\ UNCHANGED <<telemetry, terminals>>

\* What reaches no sink.
SupervisorOnly ==
    /\ \/ Environment \/ (\E s \in Sources : SpawnBoot(s)) \/ EnterLoop
       \/ TakeCommand \/ RetireTimedOut \/ TakeFatal \/ TakeInterrupt
    /\ UNCHANGED <<telemetry, terminals>>

TaskOnly(s) ==
    /\ \/ ProbeReady(s) \/ ProbeUnavailable(s) \/ ProbeNotApplicable(s)
       \/ ProbeFatal(s) \/ ProbePanics(s) \/ Tick(s) \/ WakeUp(s)
       \/ RetirePanics(s) \/ SendFatal(s) \/ Cancel(s)
       \/ CollectFails(s) /\ series' = series
    /\ UNCHANGED <<telemetry, terminals>>

DrainOnly(A) == phase # "exited" /\ A /\ UNCHANGED <<vars, terminals>>

WatcherExited == phase = "exited" /\ UNCHANGED watcherVars

WatcherNext ==
    \/ \E s \in Sources : CollectEmits(s) \/ Retires(s) \/ TaskDropsSink(s) \/ TaskOnly(s)
    \/ RunDropsSink \/ DrainJoined \/ DrainLate
    \/ Joined \/ SupervisorOnly \/ DrainOnly(Telemetry!Drain)
    \/ WatcherExited

WatcherSpec == WatcherInit /\ [][WatcherNext]_watcherVars

(***************************************************************************)
(* Fairness, as in Supervisor and Pipeline, with two exceptions: the       *)
(* exporter need not answer, and the five seconds of the last flush need   *)
(* not elapse.                                                             *)
(***************************************************************************)
Fairly(A) == A /\ UNCHANGED <<telemetry, terminals>>

WatcherFairness ==
    /\ WF_watcherVars(Fairly(EnterLoop \/ (\E s \in Sources : SpawnBoot(s)) \/ RetireTimedOut))
    /\ WF_watcherVars(Joined)
    /\ SF_watcherVars(Fairly(TakeFatal)) /\ SF_watcherVars(Fairly(TakeInterrupt))
    /\ SF_watcherVars(Fairly(TakeCommand))
    /\ \A s \in Sources :
         /\ WF_watcherVars(Fairly(WakeUp(s) \/ Cancel(s)))
         /\ SF_watcherVars(Fairly(SendFatal(s))) /\ SF_watcherVars(Retires(s))
         /\ WF_watcherVars(TaskDropsSink(s))
    /\ WF_watcherVars(RunDropsSink) /\ WF_watcherVars(DrainJoined)
    /\ WF_watcherVars(DrainOnly(Telemetry!Receive))
    /\ SF_watcherVars(DrainOnly(Telemetry!FlushTick))
    /\ WF_watcherVars(DrainOnly(Telemetry!ChannelClosed))

FairWatcher == WatcherSpec /\ WatcherFairness

-----------------------------------------------------------------------------
(* Properties *)

\* The whole process is a supervisor, whose run() returns on the drain's account
\* only by DrainClosed: no task is still being polled when the drain has seen
\* its channel close and ended (lib.rs:190-193, 226-240).
ImplementsSupervisor ==
    /\ Spec
    /\ [][drain = "done" /\ phase' = "exited" => DrainClosed]_vars

\* What the backend was last told under a name.
Shown(n) ==
    LET mine == {i \in 1..Len(delivered) : NameOf[delivered[i].from] = n}
        last == CHOOSE i \in mine : \A j \in mine : j <= i
    IN  IF mine = {} THEN "absent"
        ELSE IF delivered[last] \in terminals THEN "terminal" ELSE "live"

InFlight(n) == \E i \in 1..Len(Telemetry!Pending) : NameOf[Telemetry!Pending[i].from] = n

\* The channel had no room for the terminal signal of s, or its batch failed.
TerminalLost(s) ==
    \E x \in terminals : x.from = s /\ \A i \in 1..Len(delivered) : delivered[i] # x

\* A retired instance goes absent, not silent, at the backend too (lib.rs:297-304):
\* a name nobody watches, with nothing of it in flight, is shown live only if a
\* task of that name was cut short, or its terminal signal was itself the one
\* that the full channel refused or that a failed batch took along.
RetiredIsShownGone ==
    \A n \in Names :
        phase \in {"select", "joining"} /\ registry[n] = NoSource
            /\ ~InFlight(n) /\ Shown(n) = "live"
        => \E s \in Sources :
              /\ NameOf[s] = n
              /\ s = joining \/ abort[s] \/ pc[s] \in {"dying", "dead"} \/ TerminalLost(s)

\* NFR-04: an exporter that never answers, and the channel that fills up behind
\* it, do not keep a source from ending when it is told to.
RetirementNeedsNoBackend ==
    \A s \in Sources : stop[s] ~> (pc[s] \in Finished \/ phase = "exited")

\* With an exporter that answers, the last flush ends of itself: no task, no
\* clone of the sink and no signal waits for another, and the five seconds are
\* not what ends it (lib.rs:190-193).
FlushNeedsNoTimeout ==
    []<>(drain \in {"receiving", "done"}) => (phase = "flushing" ~> phase = "exited")

-----------------------------------------------------------------------------
(* The inductive invariant behind the safety properties, in named parts; the *)
(* order of what is delivered is Pipeline's.                                 *)

\* A clone of the sink goes with the task it was given to, and the others with
\* run()'s own once no task can be spawned; the channel closes behind them all.
SinksAreHeld ==
    /\ \A s \in Sources \ handles :
         pc[s] \in Finished \/ (pc[s] \in Unspawned /\ phase \in {"flushing", "exited"})
    /\ Own \notin handles => phase \in {"flushing", "exited"}
    /\ drain \in {"closing", "done"} => handles = {}

\* Exactly the retired have emitted a terminal signal, and nothing after it.
TerminalsAreLast ==
    /\ \A x \in terminals :
         x.from \in Sources /\ pc[x.from] = "retired" /\ x.no = emitted[x.from]
    /\ \A s \in Sources : pc[s] = "retired" => \E x \in terminals : x.from = s

\* Who has not collected has not emitted, run() itself never does, and only an
\* abort cancels.
EndsAreTold ==
    /\ emitted[Own] = 0
    /\ \A s \in Sources :
         /\ pc[s] \in Unspawned \cup {"probing", "disabled"} => emitted[s] = 0
         /\ pc[s] = "cancelled" => abort[s]

WatcherInv == SupervisorInv /\ SinksAreHeld /\ TerminalsAreLast /\ EndsAreTold

=============================================================================
