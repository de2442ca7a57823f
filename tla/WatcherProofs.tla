---------------------------- MODULE WatcherProofs ----------------------------
(***************************************************************************)
(* Proofs about Watcher, for every set of sources and names, every         *)
(* capacity and every batch size: the whole process is a Supervisor and a  *)
(* Pipeline, what is proved of either holds of it, and a retired instance  *)
(* is shown gone.                                                          *)
(***************************************************************************)
EXTENDS Watcher, SupervisorProofs, Induction

USE OwnAssumption, TelemetryAssumption

\* The theorems about Pipeline, for the holders of this process.
Line == INSTANCE PipelineProofs WITH Holders <- Sources \cup {Own}

-----------------------------------------------------------------------------
(* Each step is one of the supervisor's or none, and one of the pipeline's   *)
(* or none.                                                                  *)

LEMMA LineAssumption == Line!PipelineAssumption
  BY DEF Line!PipelineAssumption

\* What of a step the telemetry sees.
LEMMA EmitIsEmit ==
    ASSUME NEW s \in Sources, Telemetry!Emit(s)
    PROVE  Line!Next
  BY DEF Telemetry!Emit, Telemetry!Emitting, Line!Next, Line!Emit, Line!Emitting

LEMMA DropIsDrop ==
    ASSUME NEW H \in SUBSET (Sources \cup {Own}), Telemetry!DropSinks(H)
    PROVE  Line!Next
  BY DEF Telemetry!DropSinks, Line!Next, Line!DropSinks

LEMMA DrainIsDrain == Telemetry!Drain => Line!Next
<1>1. Telemetry!Receive => Line!Receive
  BY DEF Telemetry!Receive, Telemetry!StartExport, Line!Receive, Line!StartExport
<1>2. Telemetry!FlushTick => Line!FlushTick
  BY DEF Telemetry!FlushTick, Telemetry!StartExport, Line!FlushTick, Line!StartExport
<1>3. Telemetry!ChannelClosed => Line!ChannelClosed
  BY DEF Telemetry!ChannelClosed, Telemetry!StartExport, Line!ChannelClosed, Line!StartExport
<1>4. Telemetry!ExportOk => Line!ExportOk
  BY DEF Telemetry!ExportOk, Telemetry!ExportEnds, Line!ExportOk, Line!ExportEnds
<1>5. Telemetry!ExportFails => Line!ExportFails
  BY DEF Telemetry!ExportFails, Telemetry!ExportEnds, Line!ExportFails, Line!ExportEnds
<1> QED
  BY <1>1, <1>2, <1>3, <1>4, <1>5 DEF Telemetry!Drain, Line!Drain, Line!Next

LEMMA StepsOfTheLine == [WatcherNext]_watcherVars => [Line!Next]_(Line!vars)
<1> SUFFICES ASSUME [WatcherNext]_watcherVars PROVE Line!Next \/ UNCHANGED Line!vars
  OBVIOUS
<1>1. ASSUME NEW s \in Sources, CollectEmits(s) \/ Retires(s) PROVE Line!Next
  BY <1>1, EmitIsEmit DEF CollectEmits, Retires
<1>2. ASSUME NEW s \in Sources, TaskDropsSink(s) PROVE Line!Next
  BY <1>2, DropIsDrop DEF TaskDropsSink
<1>3. ASSUME RunDropsSink PROVE Line!Next
  <2>1. {Own} \cup {s \in Sources : pc[s] \in Unspawned} \in SUBSET (Sources \cup {Own})
    OBVIOUS
  <2> QED
    BY <1>3, <2>1, DropIsDrop DEF RunDropsSink
<1>4. ASSUME DrainOnly(Telemetry!Drain) PROVE Line!Next
  BY <1>4, DrainIsDrain DEF DrainOnly
<1>5. ASSUME UNCHANGED telemetry PROVE UNCHANGED Line!vars
  BY <1>5 DEF telemetry, Line!vars
<1>6. ASSUME NEW s \in Sources, TaskOnly(s) PROVE UNCHANGED telemetry
  BY <1>6 DEF TaskOnly
<1>7. CASE DrainJoined \/ DrainLate \/ Joined \/ SupervisorOnly \/ WatcherExited
  BY <1>5, <1>7 DEF DrainJoined, DrainLate, Return, Joined, SupervisorOnly, WatcherExited,
     watcherVars
<1>8. CASE UNCHANGED watcherVars
  BY <1>5, <1>8 DEF watcherVars
<1> QED
  BY <1>1, <1>2, <1>3, <1>4, <1>5, <1>6, <1>7, <1>8 DEF WatcherNext

\* What of a step the supervisor sees.
LEMMA StepsOfTheSupervisor == [WatcherNext]_watcherVars => [Next]_vars
<1> SUFFICES ASSUME [WatcherNext]_watcherVars PROVE Next \/ UNCHANGED vars
  OBVIOUS
<1>1. ASSUME NEW s \in Sources, CollectEmits(s) \/ Retires(s) \/ TaskOnly(s) PROVE Task(s)
  BY <1>1 DEF CollectEmits, Retires, TaskOnly, Task
<1>2. ASSUME NEW s \in Sources, TaskDropsSink(s) PROVE UNCHANGED vars
  BY <1>2 DEF TaskDropsSink
<1>3. ASSUME Return, phase = "flushing" PROVE FlushTimedOut
  BY <1>3 DEF Return, FlushTimedOut
<1>4. CASE DrainJoined \/ DrainLate
  BY <1>3, <1>4 DEF DrainJoined, DrainLate, Next, Supervise
<1>5. CASE Joined \/ SupervisorOnly
  BY <1>5 DEF Joined, SupervisorOnly, Next, Supervise, TakeCommand
<1>6. CASE RunDropsSink \/ DrainOnly(Telemetry!Drain) \/ WatcherExited \/ UNCHANGED watcherVars
  BY <1>6 DEF RunDropsSink, DrainOnly, WatcherExited, watcherVars
<1> QED
  BY <1>1, <1>2, <1>4, <1>5, <1>6 DEF WatcherNext, Next

LEMMA StartOfBoth == WatcherInit => Init /\ Line!Init
  BY DEF WatcherInit, Telemetry!Init, Line!Init

\* The telemetry path behind a real supervisor is the Pipeline, whose holders
\* come and go as they please there: all that is proved of it holds here.
THEOREM ContainsPipeline == WatcherSpec => Line!Spec
  BY StartOfBoth, StepsOfTheLine, PTL DEF WatcherSpec, Line!Spec

\* And the supervisor before it is Supervisor.
THEOREM ContainsSupervisor == WatcherSpec => Spec
  BY StartOfBoth, StepsOfTheSupervisor, PTL DEF WatcherSpec, Spec

-----------------------------------------------------------------------------
(* The inductive invariant. *)

\* With the order of what was emitted, accepted and delivered.
OrderedInv == WatcherInv /\ Line!OrderInv

LEMMA Counted ==
    ASSUME Line!OrderInv
    PROVE  emitted \in [Sources \cup {Own} -> Nat]
  BY DEF Line!OrderInv, Line!PipelineInv, Line!TypeOK

\* A step of the loop or of the outside starts tasks only before the end of the
\* loop and otherwise moves none, and takes no abort back.
LEMMA LoopEffect ==
    ASSUME SupervisorInv, Environment \/ Supervise
    PROVE  /\ phase \in {"flushing", "exited"} => phase' \in {"flushing", "exited"}
           /\ \A s \in Sources :
                \/ pc'[s] = pc[s]
                \/ /\ pc[s] \in Unspawned
                   /\ \/ pc'[s] \in Unspawned
                      \/ pc'[s] = "probing" /\ phase \in {"booting", "select"}
           /\ \A s \in Sources : abort[s] => abort'[s]
<1>1. TypeOK /\ BoxesAreUnique /\ JoinedIsUnregistered
  BY DEF SupervisorInv
<1>2. ASSUME NEW s \in Sources, pc[s] \in Unspawned, Spawn(s) \/ RejectDuplicate(s)
      PROVE  \A t \in Sources :
                pc'[t] = pc[t] \/ (t = s /\ pc'[t] \in {"probing", "rejected"})
  BY <1>1, <1>2 DEF Spawn, RejectDuplicate, TypeOK
<1>3. ASSUME NEW s \in Sources, SpawnBoot(s)
      PROVE  /\ phase = "booting" /\ phase' = phase /\ abort' = abort
             /\ pc[s] \in Unspawned /\ (Spawn(s) \/ RejectDuplicate(s))
  BY <1>1, <1>3 DEF SpawnBoot, BoxesAreUnique, Unspawned
<1>4. ASSUME TakeAdd
      PROVE  /\ phase = "select" /\ phase' = phase /\ abort' = abort
             /\ \E s \in Sources : pc[s] \in Unspawned /\ (Spawn(s) \/ RejectDuplicate(s))
  <2> DEFINE s == Head(cmds).source
  <2>1. cmds # <<>> /\ Head(cmds).kind = "add" /\ s \in Sources
    BY <1>1, <1>4, HeadCommand DEF TakeAdd
  <2>2. Head(cmds) = cmds[1] /\ 1 \in 1..Len(cmds)
    BY <1>1, <2>1 DEF TypeOK
  <2>3. pc[s] = "offered"
    BY <1>1, <2>1, <2>2 DEF BoxesAreUnique
  <2> QED
    BY <1>4, <2>1, <2>3 DEF TakeAdd, Unspawned
<1>5. CASE Environment
  BY <1>1, <1>5 DEF Environment, SendAdd, SendRemove, Interrupt, taskVars, Unspawned, TypeOK
<1>6. CASE \E s \in Sources : SpawnBoot(s)
  BY <1>2, <1>3, <1>6 DEF Unspawned
<1>7. CASE TakeAdd
  BY <1>2, <1>4, <1>7 DEF Unspawned
<1>8. CASE TakeFatal \/ TakeInterrupt
  BY <1>1, <1>8 DEF TakeFatal, TakeInterrupt, BeginShutdown, TypeOK
<1>9. CASE EnterLoop \/ TakeIdleRemove \/ TakeRemove \/ DrainClosed \/ FlushTimedOut \/ Exited
  BY <1>9 DEF EnterLoop, TakeIdleRemove, TakeRemove, DrainClosed, FlushTimedOut, Exited,
     vars, superVars, taskVars
<1>10. CASE JoinDone \/ RetireTimedOut
  BY <1>1, <1>10 DEF JoinDone, RetireTimedOut, taskVars, TypeOK
<1> QED
  BY <1>5, <1>6, <1>7, <1>8, <1>9, <1>10 DEF Supervise

\* Only Retires retires.
LEMMA OthersDoNotRetire ==
    ASSUME TypeOK, NEW s \in Sources, CollectEmits(s) \/ TaskOnly(s)
    PROVE  Task(s) /\ pc'[s] # "retired"
<1> USE DEF TypeOK, Moves
<1>1. CASE CollectEmits(s)
  BY <1>1 DEF CollectEmits, CollectOk, CollectFails, Task
<1>2. CASE TaskOnly(s)
  <2>1. Task(s)
    BY <1>2 DEF TaskOnly, Task
  <2>2. CASE ProbeReady(s) \/ ProbeUnavailable(s) \/ ProbeNotApplicable(s) \/ ProbeFatal(s)
    BY <2>1, <2>2 DEF ProbeReady, ProbeUnavailable, ProbeNotApplicable, ProbeFatal
  <2>3. CASE ProbePanics(s) \/ RetirePanics(s) \/ Tick(s) \/ WakeUp(s) \/ Cancel(s) \/ SendFatal(s)
    BY <2>1, <2>3 DEF ProbePanics, RetirePanics, PanicState, Tick, WakeUp, Cancel, SendFatal
  <2>4. CASE CollectFails(s)
    BY <2>1, <2>4 DEF CollectFails
  <2> QED
    BY <1>2, <2>1, <2>2, <2>3, <2>4 DEF TaskOnly
<1> QED
  BY <1>1, <1>2

\* What the three groups of steps do to the clones of the sink.
LEMMA TaskKeepsSinks ==
    ASSUME TypeOK, SinksAreHeld, NEW s \in Sources, Task(s), UNCHANGED <<handles, drain>>
    PROVE  SinksAreHeld'
<1>1. phase' = phase /\ pc[s] \in Running /\ \A t \in Sources \ {s} : pc'[t] = pc[t]
  BY TaskEffect
<1>2. s \in handles
  BY <1>1 DEF SinksAreHeld, Running, Finished, Unspawned
<1> QED
  BY <1>1, <1>2 DEF SinksAreHeld

LEMMA LoopKeepsSinks ==
    ASSUME SupervisorInv, SinksAreHeld, Environment \/ Supervise, UNCHANGED <<handles, drain>>
    PROVE  SinksAreHeld'
<1>1. ASSUME NEW s \in Sources \ handles, pc[s] \in Unspawned
      PROVE  pc'[s] \in Unspawned
  <2>1. phase \in {"flushing", "exited"}
    BY <1>1 DEF SinksAreHeld, Unspawned, Finished
  <2> QED
    BY <1>1, <2>1, LoopEffect
<1>2. ASSUME NEW s \in Sources \ handles, pc[s] \in Finished
      PROVE  pc'[s] \in Finished
  BY <1>2, LoopEffect DEF Finished, Unspawned
<1> QED
  BY <1>1, <1>2, LoopEffect DEF SinksAreHeld

\* The clone of a task goes when the task is over, run()'s when the loop is.
LEMMA DropsKeepSinks ==
    ASSUME SinksAreHeld,
           RunDropsSink \/ \E s \in Sources : TaskDropsSink(s)
    PROVE  SinksAreHeld'
<1>1. CASE RunDropsSink
  <2>1. /\ phase = "flushing"
        /\ handles' = handles \ ({Own} \cup {s \in Sources : pc[s] \in Unspawned})
        /\ UNCHANGED <<phase, pc, drain>>
    BY <1>1 DEF RunDropsSink, Telemetry!DropSinks, vars, superVars, taskVars
  <2> QED
    BY <2>1 DEF SinksAreHeld
<1>2. ASSUME NEW s \in Sources, TaskDropsSink(s) PROVE SinksAreHeld'
  <2>1. /\ pc[s] \in Finished /\ s # Own
        /\ handles' = handles \ {s}
        /\ UNCHANGED <<phase, pc, drain>>
    BY <1>2 DEF TaskDropsSink, Telemetry!DropSinks, vars, superVars, taskVars
  <2> QED
    BY <2>1 DEF SinksAreHeld
<1> QED
  BY <1>1, <1>2

\* The drain closes only when no clone is left.
LEMMA DrainKeepsSinks ==
    ASSUME SinksAreHeld, DrainOnly(Telemetry!Drain)
    PROVE  SinksAreHeld'
<1>1. UNCHANGED <<phase, pc>>
  BY DEF DrainOnly, vars, superVars, taskVars
<1>2. UNCHANGED handles /\ (drain' \in {"closing", "done"} => handles = {})
  BY DEF DrainOnly, SinksAreHeld, Telemetry!Drain, Telemetry!Receive, Telemetry!FlushTick,
     Telemetry!ChannelClosed, Telemetry!StartExport, Telemetry!ExportOk,
     Telemetry!ExportFails, Telemetry!ExportEnds
<1> QED
  BY <1>1, <1>2 DEF SinksAreHeld

\* What an emission changes.
LEMMA EmitEffect ==
    ASSUME Line!OrderInv, NEW s \in Sources, Telemetry!Emit(s)
    PROVE  /\ emitted'[s] = emitted[s] + 1
           /\ \A h \in (Sources \cup {Own}) \ {s} : emitted'[h] = emitted[h]
           /\ UNCHANGED <<handles, drain>>
  BY Counted DEF Telemetry!Emit, Telemetry!Emitting

\* The parts of the invariant about terminal signals and ends.
Told == TerminalsAreLast /\ EndsAreTold

LEMMA CollectKeepsTold ==
    ASSUME OrderedInv, NEW s \in Sources, CollectEmits(s)
    PROVE  Told'
<1>1. TypeOK /\ Line!OrderInv /\ Told
  BY DEF OrderedInv, WatcherInv, SupervisorInv, Told
<1>2. /\ pc[s] = "collecting" /\ pc'[s] \in {"waiting", "escalating"}
      /\ \A t \in Sources \ {s} : pc'[t] = pc[t]
      /\ UNCHANGED <<terminals, abort>>
  BY <1>1 DEF CollectEmits, CollectOk, CollectFails, Moves, TypeOK
<1>3. /\ \A h \in (Sources \cup {Own}) \ {s} : emitted'[h] = emitted[h]
  BY <1>1, EmitEffect DEF CollectEmits
<1>4. TerminalsAreLast'
  BY <1>1, <1>2, <1>3 DEF Told, TerminalsAreLast
<1>5. EndsAreTold'
  BY <1>1, <1>2, <1>3 DEF Told, EndsAreTold, Unspawned
<1> QED
  BY <1>4, <1>5 DEF Told

LEMMA RetireKeepsTold ==
    ASSUME OrderedInv, NEW s \in Sources, Retires(s)
    PROVE  Told'
<1> DEFINE x == [from |-> s, no |-> emitted'[s]]
<1>1. TypeOK /\ Line!OrderInv /\ Told
  BY DEF OrderedInv, WatcherInv, SupervisorInv, Told
<1>2. /\ pc[s] = "waiting" /\ pc'[s] = "retired"
      /\ \A t \in Sources \ {s} : pc'[t] = pc[t]
      /\ terminals' = terminals \cup {x} /\ UNCHANGED abort
  BY <1>1 DEF Retires, TakeStop, Moves, TypeOK
<1>3. \A h \in (Sources \cup {Own}) \ {s} : emitted'[h] = emitted[h]
  BY <1>1, EmitEffect DEF Retires
<1>4. x.from = s /\ x.no = emitted'[s]
  OBVIOUS
<1> HIDE DEF x
<1>5. TerminalsAreLast'
  BY <1>1, <1>2, <1>3, <1>4 DEF Told, TerminalsAreLast
<1>6. EndsAreTold'
  BY <1>1, <1>2, <1>3 DEF Told, EndsAreTold, Unspawned
<1> QED
  BY <1>5, <1>6 DEF Told

\* A step that retires nobody and emits nothing.
LEMMA QuietKeepsTold ==
    ASSUME Told, UNCHANGED <<emitted, terminals>>,
           \A s \in Sources :
              /\ abort[s] => abort'[s]
              /\ pc'[s] = pc[s]
                 \/ /\ pc[s] # "retired" /\ pc'[s] # "retired"
                    /\ pc'[s] \in Unspawned \cup {"probing", "disabled"}
                          => pc[s] \in Unspawned \cup {"probing"}
                    /\ pc'[s] = "cancelled" => abort[s]
    PROVE  Told'
<1>1. TerminalsAreLast'
  BY DEF Told, TerminalsAreLast
<1>2. EndsAreTold'
  BY DEF Told, EndsAreTold
<1> QED
  BY <1>1, <1>2 DEF Told

LEMMA InvariantOfBoth == OrderedInv /\ [WatcherNext]_watcherVars => OrderedInv'
<1> SUFFICES ASSUME OrderedInv, [WatcherNext]_watcherVars PROVE OrderedInv'
  OBVIOUS
<1>1. TypeOK /\ SupervisorInv /\ SinksAreHeld /\ Told /\ Line!OrderInv
  BY DEF OrderedInv, WatcherInv, SupervisorInv, Told
<1>2. SupervisorInv'
  BY <1>1, StepsOfTheSupervisor, InvariantStep
<1>3. Line!OrderInv'
  BY <1>1, StepsOfTheLine, LineAssumption, Line!OrderStep
<1>4. ASSUME NEW s \in Sources, CollectEmits(s) PROVE SinksAreHeld' /\ Told'
  <2>1. Task(s) /\ UNCHANGED <<handles, drain>>
    BY <1>1, <1>4, OthersDoNotRetire, EmitEffect DEF CollectEmits
  <2> QED
    BY <1>1, <1>4, <2>1, TaskKeepsSinks, CollectKeepsTold
<1>5. ASSUME NEW s \in Sources, Retires(s) PROVE SinksAreHeld' /\ Told'
  <2>1. Task(s) /\ UNCHANGED <<handles, drain>>
    BY <1>1, <1>5, EmitEffect DEF Retires, Task
  <2> QED
    BY <1>1, <1>5, <2>1, TaskKeepsSinks, RetireKeepsTold
<1>6. ASSUME NEW s \in Sources, TaskOnly(s) PROVE SinksAreHeld' /\ Told'
  <2>1. Task(s) /\ pc'[s] # "retired"
    BY <1>1, <1>6, OthersDoNotRetire
  <2>2. UNCHANGED <<handles, drain, emitted, terminals>>
    BY <1>6 DEF TaskOnly, telemetry
  <2>3. /\ pc[s] \in Running /\ UNCHANGED abort
        /\ \A t \in Sources \ {s} : pc'[t] = pc[t]
        /\ pc'[s] \in (Running \ {"probing"}) \cup Finished
        /\ pc'[s] = "cancelled" => abort[s]
        /\ pc'[s] = "disabled" => pc[s] = "probing"
    BY <1>1, <2>1, TaskEffect
  <2>4. /\ pc[s] # "retired"
        /\ pc'[s] \in Unspawned \cup {"probing", "disabled"} => pc[s] = "probing"
    BY <2>3 DEF Running, Finished, Unspawned
  <2>5. Told'
    BY <1>1, <2>1, <2>2, <2>3, <2>4, QuietKeepsTold
  <2> QED
    BY <1>1, <2>1, <2>2, <2>5, TaskKeepsSinks
<1>7. ASSUME Environment \/ Supervise, UNCHANGED <<telemetry, terminals>>
      PROVE  SinksAreHeld' /\ Told'
  <2>1. UNCHANGED <<handles, drain, emitted, terminals>>
    BY <1>7 DEF telemetry
  <2>2. \A s \in Sources :
           /\ abort[s] => abort'[s]
           /\ \/ pc'[s] = pc[s]
              \/ pc[s] \in Unspawned /\ pc'[s] \in Unspawned \cup {"probing"}
    BY <1>1, <1>7, LoopEffect
  <2>3. Told'
    <3>1. \A q \in Unspawned \cup {"probing"} : q # "retired" /\ q # "cancelled"
      BY DEF Unspawned
    <3> QED
      BY <1>1, <2>1, <2>2, <3>1, QuietKeepsTold
  <2> QED
    BY <1>1, <1>7, <2>1, <2>3, LoopKeepsSinks
<1>8. ASSUME DrainJoined \/ DrainLate
      PROVE  SinksAreHeld' /\ Told'
  <2>1. Supervise /\ UNCHANGED <<telemetry, terminals>>
    BY <1>8 DEF DrainJoined, DrainLate, Return, Supervise, FlushTimedOut
  <2> QED
    BY <1>7, <2>1
<1>9. ASSUME Joined \/ SupervisorOnly
      PROVE  SinksAreHeld' /\ Told'
  BY <1>7, <1>9 DEF Joined, SupervisorOnly, Supervise, TakeCommand
<1>10. ASSUME RunDropsSink \/ \E s \in Sources : TaskDropsSink(s)
      PROVE  SinksAreHeld' /\ Told'
  <2>1. UNCHANGED <<emitted, terminals, pc, abort>>
    BY <1>10 DEF RunDropsSink, TaskDropsSink, Telemetry!DropSinks, vars, taskVars
  <2> QED
    BY <1>1, <1>10, <2>1, DropsKeepSinks, QuietKeepsTold
<1>11. ASSUME DrainOnly(Telemetry!Drain)
      PROVE  SinksAreHeld' /\ Told'
  <2>1. UNCHANGED <<terminals, pc, abort>>
    BY <1>11 DEF DrainOnly, vars, taskVars
  <2>2. UNCHANGED emitted
    BY <1>11 DEF DrainOnly, Telemetry!Drain, Telemetry!Receive, Telemetry!FlushTick,
       Telemetry!ChannelClosed, Telemetry!ExportOk, Telemetry!ExportFails,
       Telemetry!ExportEnds
  <2> QED
    BY <1>1, <1>11, <2>1, <2>2, DrainKeepsSinks, QuietKeepsTold
<1>12. ASSUME WatcherExited \/ UNCHANGED watcherVars
      PROVE  SinksAreHeld' /\ Told'
  <2>1. UNCHANGED <<phase, pc, abort, handles, drain, emitted, terminals>>
    BY <1>12 DEF WatcherExited, watcherVars, telemetry, vars, superVars, taskVars
  <2>2. SinksAreHeld'
    BY <1>1, <2>1 DEF SinksAreHeld
  <2> QED
    BY <1>1, <2>1, <2>2, QuietKeepsTold
<1>13. SinksAreHeld' /\ Told'
  BY <1>4, <1>5, <1>6, <1>8, <1>9, <1>10, <1>11, <1>12 DEF WatcherNext
<1> QED
  BY <1>2, <1>3, <1>13 DEF OrderedInv, WatcherInv, Told

LEMMA StartOfInvariant == WatcherInit => OrderedInv
<1> SUFFICES ASSUME WatcherInit PROVE OrderedInv
  OBVIOUS
<1>1. SupervisorInv /\ Line!OrderInv
  BY StartOfBoth, InvariantInit, LineAssumption, Line!OrderInit
<1>2. /\ handles = Sources \cup {Own} /\ emitted = [h \in Sources \cup {Own} |-> 0]
      /\ drain = "receiving" /\ terminals = {}
      /\ pc = [s \in Sources |-> "idle"]
  BY DEF WatcherInit, Telemetry!Init, Init
<1>3. SinksAreHeld
  BY <1>2 DEF SinksAreHeld
<1>4. TerminalsAreLast /\ EndsAreTold
  BY <1>2 DEF TerminalsAreLast, EndsAreTold
<1> QED
  BY <1>1, <1>3, <1>4 DEF OrderedInv, WatcherInv

\* The clones of the sink, the terminal signals and the tasks agree in every
\* reachable state, along with what holds of the supervisor and of the queue.
THEOREM WatcherCorrect == WatcherSpec => []OrderedInv
  BY StartOfInvariant, InvariantOfBoth, PTL DEF WatcherSpec

-----------------------------------------------------------------------------
(* The refinement. *)

\* Where no clone is left no task is being polled.
LEMMA NoCloneNoTask ==
    ASSUME SinksAreHeld, handles = {}
    PROVE  \A s \in Sources : ~Alive(s)
  BY DEF SinksAreHeld, Alive, Running, Finished, Unspawned

LEMMA ReturnsWhenDrained ==
    ASSUME OrderedInv, [WatcherNext]_watcherVars
    PROVE  [drain = "done" /\ phase' = "exited" => DrainClosed]_vars
<1> SUFFICES ASSUME drain = "done", phase' = "exited", vars' # vars
             PROVE  DrainClosed
  OBVIOUS
<1>1. TypeOK /\ SinksAreHeld
  BY DEF OrderedInv, WatcherInv, SupervisorInv
<1>2. handles = {}
  BY <1>1 DEF SinksAreHeld
<1>3. CASE DrainJoined \/ DrainLate
  <2>1. phase = "flushing" /\ Return
    BY <1>3 DEF DrainJoined, DrainLate
  <2> QED
    BY <1>1, <1>2, <2>1, NoCloneNoTask DEF Return, DrainClosed
<1>4. CASE Joined \/ SupervisorOnly
  BY <1>4 DEF Joined, SupervisorOnly, Environment, SendAdd, SendRemove, Interrupt,
     SpawnBoot, EnterLoop, TakeCommand, TakeAdd, TakeIdleRemove, TakeRemove,
     RetireTimedOut, TakeFatal, TakeInterrupt, BeginShutdown, JoinDone
<1>5. ASSUME NEW s \in Sources, CollectEmits(s) \/ Retires(s) \/ TaskOnly(s) PROVE FALSE
  <2>1. Task(s) /\ phase # "exited"
    BY <1>5 DEF CollectEmits, Retires, TaskOnly, Task, Moves, CollectOk, CollectFails,
       TakeStop, ProbeReady, ProbeUnavailable, ProbeNotApplicable, ProbeFatal,
       ProbePanics, Tick, WakeUp, RetirePanics, SendFatal, Cancel
  <2> QED
    BY <1>1, <2>1, TaskEffect
<1>6. CASE \/ RunDropsSink \/ (\E s \in Sources : TaskDropsSink(s))
           \/ DrainOnly(Telemetry!Drain) \/ WatcherExited \/ UNCHANGED watcherVars
  BY <1>6 DEF RunDropsSink, TaskDropsSink, DrainOnly, WatcherExited, watcherVars
<1> QED
  BY <1>3, <1>4, <1>5, <1>6 DEF WatcherNext

\* The whole process is a supervisor: run() ends when the drain has ended, and
\* then no task was being polled any more.
THEOREM RunIsASupervisor == WatcherSpec => ImplementsSupervisor
<1>1. WatcherSpec => [][drain = "done" /\ phase' = "exited" => DrainClosed]_vars
  BY ReturnsWhenDrained, WatcherCorrect, PTL DEF WatcherSpec
<1> QED
  BY <1>1, ContainsSupervisor DEF ImplementsSupervisor

-----------------------------------------------------------------------------
(* The terminal signal at the backend. *)

\* A set of positions that is not empty has a last one.
LEMMA LastPosition ==
    ASSUME NEW n \in Nat, NEW I \in SUBSET (1..n), I # {}
    PROVE  \E i \in I : \A j \in I : j <= i
<1> DEFINE after == {k \in Nat : n - k \in I}
<1>1. \A i \in I : i \in 1..n /\ n - i \in Nat /\ n - (n - i) = i
  OBVIOUS
<1>2. \A i \in I : n - i \in after
  BY <1>1
<1>3. PICK k \in after : \A m \in after : k <= m
  BY <1>2, LeastNat
<1>4. k \in Nat /\ n - k \in I
  OBVIOUS
<1> HIDE DEF after
<1>5. \A j \in I : j <= n - k
  BY <1>1, <1>2, <1>3, <1>4
<1> QED
  BY <1>4, <1>5

\* A retired instance is shown gone, unless its task was cut short or its
\* terminal signal was itself lost.
THEOREM RetiredGone == WatcherSpec => []RetiredIsShownGone
<1>1. OrderedInv => RetiredIsShownGone
  <2> SUFFICES ASSUME OrderedInv, NEW n \in Names, registry[n] = NoSource,
                      Shown(n) = "live",
                      \A s \in Sources : NameOf[s] = n =>
                         /\ s # joining /\ ~abort[s]
                         /\ pc[s] \notin {"dying", "dead"} /\ ~TerminalLost(s)
               PROVE  FALSE
    BY DEF RetiredIsShownGone
  <2> DEFINE mine == {i \in 1..Len(delivered) : NameOf[delivered[i].from] = n}
             last == CHOOSE i \in mine : \A j \in mine : j <= i
             x    == delivered[last]
             s    == x.from
  <2>1. mine # {} /\ x \notin terminals
    BY DEF Shown
  <2>2. /\ delivered \in Seq(Line!Signal) /\ emitted \in [Sources \cup {Own} -> Nat]
        /\ Line!Numbered(delivered, emitted) /\ Line!InOrder(delivered)
    BY Counted DEF OrderedInv, Line!OrderInv, Line!PipelineInv, Line!TypeOK, Line!OneByOne
  <2>3. last \in mine /\ \A j \in mine : j <= last
    <3>1. Len(delivered) \in Nat /\ mine \in SUBSET (1..Len(delivered))
      BY <2>2
    <3>2. \E i \in mine : \A j \in mine : j <= i
      BY <2>1, <3>1, LastPosition
    <3> HIDE DEF mine
    <3> QED
      BY <3>2
  <2>4. last \in 1..Len(delivered) /\ NameOf[s] = n
    BY <2>3
  <2> HIDE DEF last
  <2>5. x \in Line!Signal /\ x.no <= emitted[s]
    <3> DEFINE T == Line!Signal
    <3>1. delivered \in Seq(T) /\ last \in 1..Len(delivered)
      BY <2>2, <2>4
    <3>2. x \in T
      <4> HIDE DEF T
      <4> QED BY <3>1
    <3>3. x.no <= emitted[s]
      BY <2>2, <2>4 DEF Line!Numbered
    <3> QED
      BY <3>2, <3>3
  <2>6. s \in Sources /\ x.no \in Nat /\ emitted[s] \in Nat /\ emitted[s] # 0
    <3>1. x.from \in Sources \cup {Own} /\ x.no \in 1..MaxSignals
      BY <2>5 DEF Line!Signal
    <3>2. x.no \in Nat /\ x.no >= 1 /\ emitted[s] \in Nat
      BY <2>2, <3>1
    <3>3. emitted[Own] = 0
      BY DEF OrderedInv, WatcherInv, EndsAreTold
    <3> QED
      BY <2>5, <3>1, <3>2, <3>3
  <2>7. pc[s] = "retired"
    <3>1. TypeOK /\ TasksAreHeld /\ EndsAreTold
      BY DEF OrderedInv, WatcherInv, SupervisorInv
    <3>2. ~Alive(s)
      BY <2>4, <2>6, <3>1, SourceAssumption DEF TasksAreHeld
    <3>3. pc[s] \notin Unspawned \cup {"probing", "disabled"} /\ pc[s] # "cancelled"
      BY <2>4, <2>6, <3>1 DEF EndsAreTold
    <3>4. pc[s] # "dead"
      BY <2>4, <2>6
    <3> HIDE DEF s
    <3> QED
      BY <2>6, <3>1, <3>2, <3>3, <3>4 DEF TypeOK, Alive, Finished
  <2>8. PICK y \in terminals : y.from = s /\ y.no = emitted[s]
    BY <2>6, <2>7 DEF OrderedInv, WatcherInv, TerminalsAreLast
  <2>9. PICK i \in 1..Len(delivered) : delivered[i] = y
    BY <2>4, <2>6, <2>8 DEF TerminalLost
  <2>10. i \in mine
    BY <2>4, <2>8, <2>9
  <2>11. i <= last /\ i # last
    BY <2>1, <2>3, <2>9, <2>10
  <2>12. y.no < x.no
    <3>1. i < last
      BY <2>4, <2>11
    <3> QED
      BY <2>2, <2>4, <2>8, <2>9, <3>1 DEF Line!InOrder
  <2> QED
    BY <2>5, <2>6, <2>8, <2>12
<1> QED
  BY <1>1, WatcherCorrect, PTL

=============================================================================
