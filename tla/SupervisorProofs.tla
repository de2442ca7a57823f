-------------------------- MODULE SupervisorProofs --------------------------
(***************************************************************************)
(* Proofs about Supervisor, for every set of sources and names, every      *)
(* capacity and every threshold: the inductive invariant SupervisorInv and *)
(* the safety properties that follow from it, and that Supervisor          *)
(* implements Registry.                                                    *)
(***************************************************************************)
EXTENDS Supervisor, TLAPS

USE SourceAssumption, ChannelAssumption, PolicyAssumption

-----------------------------------------------------------------------------
(* The operators of Policy stay within a breaker's type. *)

\* Every operation on a circuit breaker (policy.rs:47-60) yields a breaker
\* whose counter is within its width.
LEMMA BreakerType ==
    /\ NewBreaker \in Breaker
    /\ \A b \in Breaker : /\ RecordSuccess(b) \in Breaker
                          /\ RecordFailure(b) \in Breaker
                          /\ TripOpen(b) \in Breaker
  BY DEF Breaker, NewBreaker, RecordSuccess, RecordFailure, TripOpen

-----------------------------------------------------------------------------
(* Type correctness. *)

LEMMA TypeInit == Init => TypeOK
  BY BreakerType DEF Init, TypeOK, Phases, Unspawned

\* What the outside does keeps the type.
LEMMA TypeEnvironment == TypeOK /\ Environment => TypeOK'
<1> SUFFICES ASSUME TypeOK, Environment PROVE TypeOK'
    OBVIOUS
<1> USE DEF TypeOK, taskVars
<1>1. ASSUME NEW s \in Sources, SendAdd(s) PROVE TypeOK'
  <2>1. Add(s) \in Commands
    BY DEF Commands
  <2>2. cmds' \in Seq(Commands) /\ Len(cmds') = Len(cmds) + 1
    BY <1>1, <2>1 DEF SendAdd
  <2>3. pc' \in [Sources -> Running \cup Finished \cup Unspawned]
    BY <1>1 DEF SendAdd, Unspawned
  <2> QED
    BY <1>1, <2>2, <2>3 DEF SendAdd
<1>2. ASSUME NEW n \in Names, SendRemove(n) PROVE TypeOK'
  <2>1. Remove(n) \in Commands
    BY DEF Commands
  <2>2. cmds' \in Seq(Commands) /\ Len(cmds') = Len(cmds) + 1
    BY <1>2, <2>1 DEF SendRemove
  <2> QED
    BY <1>2, <2>2 DEF SendRemove
<1>3. CASE Interrupt
  BY <1>3 DEF Interrupt
<1> QED
  BY <1>1, <1>2, <1>3 DEF Environment

\* The head of the command channel is a command of the kind it says.
LEMMA HeadCommand ==
    ASSUME TypeOK, cmds # <<>>
    PROVE  /\ Head(cmds) \in Commands
           /\ Head(cmds).kind = "add" => Head(cmds).source \in Sources
           /\ Head(cmds).kind = "remove" => Head(cmds).name \in Names
           /\ Tail(cmds) \in Seq(Commands) /\ Len(Tail(cmds)) = Len(cmds) - 1
<1>1. Head(cmds) \in Commands /\ Tail(cmds) \in Seq(Commands)
  BY DEF TypeOK
<1>2. Len(Tail(cmds)) = Len(cmds) - 1
  BY DEF TypeOK
<1> QED
  BY <1>1, <1>2 DEF Commands, Add, Remove

\* spawn_source puts the task and the registry in states of their types.
LEMMA SpawnType ==
    ASSUME TypeOK, NEW s \in Sources, Spawn(s) \/ RejectDuplicate(s)
    PROVE  /\ pc' \in [Sources -> Running \cup Finished \cup Unspawned]
           /\ registry' \in [Names -> Sources \cup {NoSource}]
<1>1. /\ pc \in [Sources -> Running \cup Finished \cup Unspawned]
      /\ registry \in [Names -> Sources \cup {NoSource}]
      /\ NameOf[s] \in Names
  BY DEF TypeOK
<1>2. "probing" \in Running /\ "rejected" \in Unspawned
  BY DEF Running, Unspawned
<1>3. CASE Spawn(s)
  BY <1>1, <1>2, <1>3 DEF Spawn
<1>4. CASE RejectDuplicate(s)
  BY <1>1, <1>2, <1>4 DEF RejectDuplicate
<1> QED
  BY <1>3, <1>4

\* What the supervisor does keeps the type.
LEMMA TypeSupervise == TypeOK /\ Supervise => TypeOK'
<1> SUFFICES ASSUME TypeOK, Supervise PROVE TypeOK'
    OBVIOUS
<1> USE DEF TypeOK, taskVars, Phases
<1>1. ASSUME NEW s \in Sources, SpawnBoot(s) PROVE TypeOK'
  <2>1. /\ pc' \in [Sources -> Running \cup Finished \cup Unspawned]
        /\ registry' \in [Names -> Sources \cup {NoSource}]
    <3> HIDE DEF TypeOK
    <3> QED BY <1>1, SpawnType DEF SpawnBoot
  <2> QED
    BY <1>1, <2>1 DEF SpawnBoot
<1>2. CASE EnterLoop
  BY <1>2 DEF EnterLoop
<1>3. CASE TakeAdd
  <2> DEFINE s == Head(cmds).source
  <2>1. s \in Sources /\ cmds' \in Seq(Commands) /\ Len(cmds') = Len(cmds) - 1
    <3> HIDE DEF TypeOK
    <3> QED BY <1>3, HeadCommand DEF TakeAdd
  <2>2. sigint' \in {"none", "raised", "unheard", "taken"}
    BY <1>3 DEF TakeAdd, ForgetInterrupt
  <2>3. Spawn(s) \/ RejectDuplicate(s)
    BY <1>3 DEF TakeAdd
  <2>4. UNCHANGED <<phase, result, joining, boot, fatals, stop, abort, breaker, series>>
    BY <1>3 DEF TakeAdd
  <2> HIDE DEF s
  <2>5. /\ pc' \in [Sources -> Running \cup Finished \cup Unspawned]
        /\ registry' \in [Names -> Sources \cup {NoSource}]
    <3> HIDE DEF TypeOK
    <3> QED BY <2>1, <2>3, SpawnType
  <2> QED
    BY <2>1, <2>2, <2>4, <2>5
<1>4. CASE TakeIdleRemove
  <2>1. cmds' \in Seq(Commands) /\ Len(cmds') = Len(cmds) - 1
    <3> HIDE DEF TypeOK
    <3> QED BY <1>4, HeadCommand DEF TakeIdleRemove
  <2> QED
    BY <1>4, <2>1 DEF TakeIdleRemove, ForgetInterrupt
<1>5. CASE TakeRemove
  <2>1. /\ Head(cmds).name \in Names /\ cmds' \in Seq(Commands)
        /\ Len(cmds') = Len(cmds) - 1
    BY <1>5, HeadCommand DEF TakeRemove
  <2> QED
    BY <1>5, <2>1 DEF TakeRemove, ForgetInterrupt
<1>6. CASE JoinDone
  BY <1>6 DEF JoinDone
<1>7. CASE RetireTimedOut
  BY <1>7 DEF RetireTimedOut
<1>8. CASE TakeFatal
  <2>1. fatals' \in Seq(FatalSignals) /\ Len(fatals') = Len(fatals) - 1
    BY <1>8 DEF TakeFatal
  <2> QED
    BY <1>8, <2>1 DEF TakeFatal, BeginShutdown, ForgetInterrupt
<1>9. CASE TakeInterrupt
  BY <1>9 DEF TakeInterrupt, BeginShutdown
<1>10. CASE DrainClosed \/ FlushTimedOut \/ Exited
  BY <1>10 DEF DrainClosed, FlushTimedOut, Exited, vars, superVars
<1> HIDE DEF TypeOK, taskVars, Phases
<1> QED
  BY <1>1, <1>2, <1>3, <1>4, <1>5, <1>6, <1>7, <1>8, <1>9, <1>10 DEF Supervise

\* What a task does keeps the type.
LEMMA TypeTask == ASSUME TypeOK, NEW s \in Sources, Task(s) PROVE TypeOK'
<1> USE DEF TypeOK, superVars, Moves, Running, Finished
<1>1. CASE ProbeReady(s) \/ ProbeFatal(s)
  BY <1>1 DEF ProbeReady, ProbeFatal
<1>2. CASE Tick(s)
  BY <1>2 DEF Tick
<1>3. CASE WakeUp(s) \/ Cancel(s)
  BY <1>3 DEF WakeUp, Cancel
<1>4. CASE ProbeUnavailable(s) \/ ProbeNotApplicable(s)
  BY <1>4, BreakerType DEF ProbeUnavailable, ProbeNotApplicable
<1>5. CASE ProbePanics(s) \/ RetirePanics(s)
  BY <1>5 DEF ProbePanics, RetirePanics, PanicState
<1>6. CASE TakeStop(s)
  BY <1>6 DEF TakeStop
<1>7. CASE CollectOk(s)
  BY <1>7, BreakerType DEF CollectOk
<1>8. CASE CollectFails(s)
  <2> DEFINE b == RecordFailure(breaker[s])
  <2>1. b \in Breaker
    BY BreakerType
  <2>2. /\ pc' \in [Sources -> Running \cup Finished \cup Unspawned]
        /\ breaker' = [breaker EXCEPT ![s] = b]
        /\ series' \in {series, [series EXCEPT ![NameOf[s]] = "live"]}
        /\ UNCHANGED <<superVars, stop, abort>>
    BY <1>8 DEF CollectFails
  <2> HIDE DEF b
  <2> QED
    BY <2>1, <2>2
<1>9. CASE SendFatal(s)
  <2>1. [source |-> s, reason |-> pc[s]] \in FatalSignals
    BY <1>9 DEF SendFatal, FatalSignals
  <2>2. fatals' \in Seq(FatalSignals) /\ Len(fatals') = Len(fatals) + 1
    BY <1>9, <2>1 DEF SendFatal
  <2> QED
    BY <1>9, <2>2 DEF SendFatal, Sending
<1> HIDE DEF TypeOK, superVars, Moves, Running, Finished
<1> QED
  BY <1>1, <1>2, <1>3, <1>4, <1>5, <1>6, <1>7, <1>8, <1>9 DEF Task

LEMMA TypeStep == TypeOK /\ [Next]_vars => TypeOK'
<1> SUFFICES ASSUME TypeOK, [Next]_vars PROVE TypeOK'
    OBVIOUS
<1>1. CASE Next
  BY <1>1, TypeEnvironment, TypeSupervise, TypeTask DEF Next
<1>2. CASE UNCHANGED vars
  BY <1>2 DEF vars, superVars, taskVars, TypeOK
<1> QED
  BY <1>1, <1>2

\* The variables keep the types of the Rust values they stand for, and neither
\* channel ever holds more than its capacity.
THEOREM TypeCorrect == Spec => []TypeOK
  BY TypeInit, TypeStep, PTL DEF Spec

-----------------------------------------------------------------------------
(* What each group of steps does to what the invariant speaks of. *)

\* The invariant without the type and without the boxes.
Watching == HandlesAreWhole /\ JoinedIsUnregistered /\ TasksAreHeld
            /\ NoHandleAfterLoop /\ LiveHasWriter

\* A task step moves one running task, ends it only for a reason that shows in
\* the state, and writes nothing but its own series.
LEMMA TaskEffect ==
    ASSUME TypeOK, NEW s \in Sources, Task(s)
    PROVE  /\ UNCHANGED <<phase, registry, joining, boot, cmds, stop, abort>>
           /\ pc[s] \in Running
           /\ \A t \in Sources \ {s} : pc'[t] = pc[t]
           /\ pc'[s] \in (Running \ {"probing"}) \cup Finished
           /\ pc'[s] = "retired" => stop[s] /\ series'[NameOf[s]] = "terminal"
           /\ pc'[s] = "cancelled" => abort[s]
           /\ pc'[s] = "disabled" => ~Discovered(s) /\ pc[s] = "probing"
           /\ pc[s] = "dying" => pc'[s] \in {"dead", "cancelled"}
           /\ \A n \in Names : series'[n] = "live" =>
                \/ series[n] = "live"
                \/ n = NameOf[s] /\ pc'[s] \in {"waiting", "escalating"}
<1> USE DEF TypeOK, superVars, Moves, Running, Finished
<1>1. CASE ProbeReady(s) \/ ProbeUnavailable(s) \/ ProbeFatal(s)
  BY <1>1 DEF ProbeReady, ProbeUnavailable, ProbeFatal
<1>2. CASE ProbeNotApplicable(s)
  BY <1>2 DEF ProbeNotApplicable
<1>3. CASE ProbePanics(s) \/ RetirePanics(s)
  BY <1>3 DEF ProbePanics, RetirePanics, PanicState
<1>4. CASE Tick(s)
  BY <1>4 DEF Tick
<1>5. CASE WakeUp(s) \/ Cancel(s)
  BY <1>5 DEF WakeUp, Cancel
<1>6. CASE TakeStop(s)
  BY <1>6 DEF TakeStop
<1>7. CASE CollectOk(s)
  BY <1>7 DEF CollectOk
<1>8. CASE CollectFails(s)
  <2>1. /\ pc[s] = "collecting"
        /\ pc' = [pc EXCEPT ![s] = "escalating"] \/ pc' = [pc EXCEPT ![s] = "waiting"]
        /\ series' \in {series, [series EXCEPT ![NameOf[s]] = "live"]}
        /\ UNCHANGED <<superVars, stop, abort>>
    BY <1>8 DEF CollectFails
  <2> QED
    BY <2>1
<1>9. CASE SendFatal(s)
  BY <1>9 DEF SendFatal, Sending
<1> HIDE DEF TypeOK, superVars, Moves, Running, Finished
<1> QED
  BY <1>1, <1>2, <1>3, <1>4, <1>5, <1>6, <1>7, <1>8, <1>9 DEF Task

\* Task steps keep the whole invariant.
LEMMA TaskKeeps ==
    ASSUME SupervisorInv, NEW s \in Sources, Task(s)
    PROVE  Watching' /\ BoxesAreUnique'
<1>1. TypeOK /\ Watching /\ BoxesAreUnique
  BY DEF SupervisorInv, Watching
<1> USE <1>1, TaskEffect
<1>2. HandlesAreWhole'
  BY DEF HandlesAreWhole, Watching, Running, Finished, Discovered, TypeOK
<1>3. JoinedIsUnregistered'
  <2>1. pc'[s] \notin Unspawned
    BY DEF Running, Finished, Unspawned
  <2>2. joining \in Sources => pc'[joining] \notin Unspawned \/ joining = NoSource
                                \/ pc[joining] \in Unspawned
    BY <2>1
  <2> QED
    BY <2>2 DEF JoinedIsUnregistered, Watching, TypeOK
<1>4. TasksAreHeld'
  BY DEF TasksAreHeld, Watching, Alive
<1>5. NoHandleAfterLoop'
  BY DEF NoHandleAfterLoop, Watching
<1>6. LiveHasWriter'
  <2> SUFFICES ASSUME NEW n \in Names, series'[n] = "live"
               PROVE  \E t \in Sources :
                        /\ NameOf[t] = n
                        /\ \/ pc'[t] \in Running \ {"probing"}
                           \/ abort'[t]
                           \/ pc'[t] \in {"dying", "dead"}
    BY DEF LiveHasWriter
  <2>1. CASE n = NameOf[s] /\ pc'[s] \in {"waiting", "escalating"}
    BY <2>1 DEF Running
  <2>2. CASE series[n] = "live"
    <3>1. PICK t \in Sources : /\ NameOf[t] = n
                              /\ \/ pc[t] \in Running \ {"probing"}
                                 \/ abort[t]
                                 \/ pc[t] \in {"dying", "dead"}
      BY <2>2 DEF Watching, LiveHasWriter
    <3>2. CASE t # s
      BY <3>1, <3>2
    <3>3. CASE t = s
      BY <3>1, <3>3 DEF Running, Finished
    <3> QED
      BY <3>2, <3>3
  <2> QED
    BY <2>1, <2>2
<1>7. BoxesAreUnique'
  <2>1. pc[s] \notin Unspawned /\ pc'[s] \notin Unspawned
    BY DEF Running, Finished, Unspawned
  <2>2. \A t \in Sources : pc[t] \in Unspawned => t # s /\ pc'[t] = pc[t]
    BY <2>1
  <2>3. \A t \in boot : pc'[t] = "idle"
    BY <2>2 DEF BoxesAreUnique, Unspawned, TypeOK
  <2>4. \A i \in 1..Len(cmds) : cmds[i].kind = "add" => cmds[i].source \in Sources
    BY DEF TypeOK, Commands, Add, Remove
  <2>5. \A i \in 1..Len(cmds) :
          cmds[i].kind = "add" => pc'[cmds[i].source] = "offered"
    BY <2>2, <2>4 DEF BoxesAreUnique, Unspawned
  <2>6. \A t \in Sources : pc'[t] \in Unspawned => ~stop'[t] /\ ~abort'[t]
    BY <2>1 DEF BoxesAreUnique
  <2> QED
    BY <2>3, <2>5, <2>6 DEF BoxesAreUnique
<1> QED
  BY <1>2, <1>3, <1>4, <1>5, <1>6, <1>7 DEF Watching

\* What the outside sends changes only the command channel and a box's place.
LEMMA EnvironmentKeeps ==
    SupervisorInv /\ Environment => Watching' /\ BoxesAreUnique'
<1> SUFFICES ASSUME SupervisorInv, Environment PROVE Watching' /\ BoxesAreUnique'
    OBVIOUS
<1>1. TypeOK /\ Watching /\ BoxesAreUnique
  BY DEF SupervisorInv, Watching
<1>2. ASSUME NEW s \in Sources, SendAdd(s) PROVE Watching' /\ BoxesAreUnique'
  <2>1. /\ UNCHANGED <<phase, registry, joining, boot, stop, abort, series>>
        /\ pc[s] = "idle" /\ s \notin boot
        /\ pc' = [pc EXCEPT ![s] = "offered"]
        /\ cmds' = Append(cmds, Add(s))
    BY <1>1, <1>2 DEF SendAdd, TypeOK, Discovered
  <2>2. /\ pc'[s] = "offered"
        /\ \A t \in Sources \ {s} : pc'[t] = pc[t]
    BY <1>1, <2>1 DEF TypeOK
  <2>3. HandlesAreWhole'
    BY <1>1, <2>1, <2>2 DEF HandlesAreWhole, Watching, TypeOK, Running
  <2>4. JoinedIsUnregistered'
    BY <1>1, <2>1, <2>2 DEF JoinedIsUnregistered, Watching, TypeOK, Unspawned
  <2>5. TasksAreHeld'
    BY <1>1, <2>1, <2>2 DEF TasksAreHeld, Watching, Alive, Running
  <2>6. NoHandleAfterLoop'
    BY <1>1, <2>1 DEF NoHandleAfterLoop, Watching
  <2>7. LiveHasWriter'
    BY <1>1, <2>1, <2>2 DEF LiveHasWriter, Watching, Running
  <2>8. BoxesAreUnique'
    <3>1. /\ Len(cmds') = Len(cmds) + 1
          /\ cmds'[Len(cmds) + 1] = [kind |-> "add", source |-> s]
          /\ \A i \in 1..Len(cmds) : cmds'[i] = cmds[i]
      BY <1>1, <2>1 DEF TypeOK, Add
    <3>2. Len(cmds) \in Nat
      BY <1>1 DEF TypeOK
    <3>3. \A i \in 1..Len(cmds) : cmds[i].kind = "add" =>
            cmds[i].source \in Sources /\ cmds[i].source # s
               /\ pc'[cmds[i].source] = "offered"
      BY <1>1, <2>1, <2>2 DEF BoxesAreUnique, TypeOK, Commands, Add, Remove
    <3>4. \A i \in 1..Len(cmds') : cmds'[i].kind = "add" =>
            pc'[cmds'[i].source] = "offered"
      BY <2>2, <3>1, <3>2, <3>3
    <3>5. \A i, j \in 1..Len(cmds') :
            i # j /\ cmds'[i].kind = "add" /\ cmds'[j].kind = "add"
               => cmds'[i].source # cmds'[j].source
      BY <1>1, <3>1, <3>2, <3>3 DEF BoxesAreUnique
    <3>6. \A t \in boot : pc'[t] = "idle"
      BY <1>1, <2>1, <2>2 DEF BoxesAreUnique, TypeOK
    <3>7. \A t \in Sources : pc'[t] \in Unspawned => ~stop[t] /\ ~abort[t]
      BY <1>1, <2>1, <2>2 DEF BoxesAreUnique, Unspawned
    <3> QED
      BY <1>1, <2>1, <3>4, <3>5, <3>6, <3>7 DEF BoxesAreUnique
  <2> QED
    BY <2>3, <2>4, <2>5, <2>6, <2>7, <2>8 DEF Watching
<1>3. ASSUME NEW n \in Names, SendRemove(n) PROVE Watching' /\ BoxesAreUnique'
  <2>1. /\ UNCHANGED <<phase, registry, joining, boot, taskVars>>
        /\ cmds' = Append(cmds, Remove(n))
    BY <1>3 DEF SendRemove
  <2>2. /\ Len(cmds') = Len(cmds) + 1 /\ Len(cmds) \in Nat
        /\ cmds'[Len(cmds) + 1].kind # "add"
        /\ \A i \in 1..Len(cmds) : cmds'[i] = cmds[i]
    BY <1>1, <2>1 DEF TypeOK, Remove
  <2>3. \A i \in 1..Len(cmds') : cmds'[i].kind = "add" =>
          i \in 1..Len(cmds) /\ cmds'[i] = cmds[i]
    BY <2>2
  <2>4. BoxesAreUnique'
    BY <1>1, <2>1, <2>3 DEF BoxesAreUnique, taskVars
  <2> QED
    BY <1>1, <2>1, <2>4 DEF Watching, HandlesAreWhole, JoinedIsUnregistered,
       TasksAreHeld, NoHandleAfterLoop, LiveHasWriter, Alive, taskVars
<1>4. CASE Interrupt
  <2>1. UNCHANGED <<phase, registry, joining, boot, cmds, taskVars>>
    BY <1>4 DEF Interrupt
  <2> QED
    BY <1>1, <2>1 DEF Watching, HandlesAreWhole, JoinedIsUnregistered, TasksAreHeld,
       NoHandleAfterLoop, LiveHasWriter, BoxesAreUnique, Alive, taskVars
<1> QED
  BY <1>2, <1>3, <1>4 DEF Environment

\* spawn_source, for a box that has not been spawned: the new task is held by
\* the registry, a duplicate leaves everything as it was.
LEMMA SpawnKeeps ==
    ASSUME SupervisorInv, NEW s \in Sources, pc[s] \in Unspawned,
           phase \in {"booting", "select"},
           Spawn(s) \/ RejectDuplicate(s),
           UNCHANGED <<phase, joining, stop, abort, series>>
    PROVE  Watching'
<1>1. TypeOK /\ Watching /\ BoxesAreUnique /\ joining = NoSource
  BY DEF SupervisorInv, Watching, JoinedIsUnregistered
<1>2. ~stop[s] /\ ~abort[s]
  BY <1>1 DEF BoxesAreUnique
<1>3. /\ pc'[s] \in {"probing", "rejected"}
      /\ \A t \in Sources \ {s} : pc'[t] = pc[t]
  BY <1>1 DEF Spawn, RejectDuplicate, TypeOK
<1>4. \A n \in Names : registry[n] # s
  BY <1>1 DEF Watching, HandlesAreWhole, Running, Unspawned
<1>5. HandlesAreWhole'
  <2> SUFFICES ASSUME NEW n \in Names, registry'[n] # NoSource
               PROVE  /\ NameOf[registry'[n]] = n
                      /\ ~stop[registry'[n]] /\ ~abort[registry'[n]]
                      /\ pc'[registry'[n]] \in Running \cup {"disabled", "dead"}
                      /\ pc'[registry'[n]] = "disabled" => ~Discovered(registry'[n])
    BY DEF HandlesAreWhole, Discovered
  <2>1. CASE registry'[n] = registry[n]
    BY <1>1, <1>3, <1>4, <2>1 DEF Watching, HandlesAreWhole, TypeOK
  <2>2. CASE registry'[n] # registry[n]
    <3>1. Spawn(s)
      BY <2>2 DEF RejectDuplicate
    <3>2. n = NameOf[s] /\ registry'[n] = s /\ pc'[s] = "probing"
      BY <1>1, <2>2, <3>1 DEF Spawn, TypeOK
    <3> QED
      BY <1>2, <3>2 DEF Running
  <2> QED
    BY <2>1, <2>2
<1>6. JoinedIsUnregistered'
  BY <1>1 DEF Watching, JoinedIsUnregistered
<1>7. TasksAreHeld'
  <2> SUFFICES ASSUME NEW t \in Sources, pc'[t] \in Running, ~abort[t]
               PROVE  registry'[NameOf[t]] = t \/ joining = t
    BY DEF TasksAreHeld, Alive
  <2>1. CASE t = s
    BY <1>1, <1>3, <2>1 DEF Spawn, RejectDuplicate, TypeOK, Running
  <2>2. CASE t # s
    <3>1. registry[NameOf[t]] = t
      BY <1>1, <1>3, <2>2 DEF Watching, TasksAreHeld, Alive
    <3> QED
      BY <1>1, <3>1 DEF Spawn, RejectDuplicate, TypeOK
  <2> QED
    BY <2>1, <2>2
<1>8. NoHandleAfterLoop'
  BY DEF NoHandleAfterLoop
<1>9. LiveHasWriter'
  BY <1>1, <1>2, <1>3 DEF Watching, LiveHasWriter, Running, Unspawned
<1> QED
  BY <1>5, <1>6, <1>7, <1>8, <1>9 DEF Watching

\* Taking a command leaves the other queued boxes where they are; the box that
\* is taken is in no other place.
LEMMA TakingKeepsBoxes ==
    ASSUME SupervisorInv, cmds # <<>>, cmds' = Tail(cmds), phase = "select",
           UNCHANGED <<boot, abort>>,
           \A t \in Sources : pc'[t] \in Unspawned => ~stop'[t],
           \A t \in Sources :
              ~(Head(cmds).kind = "add" /\ t = Head(cmds).source) => pc'[t] = pc[t],
           \A t \in Sources : pc'[t] \in Unspawned => pc[t] \in Unspawned
    PROVE  BoxesAreUnique'
<1>1. TypeOK /\ BoxesAreUnique /\ boot = {}
  BY DEF SupervisorInv, BoxesAreUnique
<1>2. /\ Len(cmds') = Len(cmds) - 1 /\ Len(cmds) \in Nat \ {0}
      /\ Head(cmds) = cmds[1]
      /\ \A i \in 1..Len(cmds') : cmds'[i] = cmds[i + 1] /\ i + 1 \in 1..Len(cmds)
  BY <1>1 DEF TypeOK
<1>3. \A i \in 1..Len(cmds) : cmds[i].kind = "add" => cmds[i].source \in Sources
  BY <1>1 DEF TypeOK, Commands, Add, Remove
<1>4. \A i \in 1..Len(cmds') : cmds'[i].kind = "add" =>
        pc'[cmds'[i].source] = "offered"
  <2> SUFFICES ASSUME NEW i \in 1..Len(cmds'), cmds'[i].kind = "add"
               PROVE  pc'[cmds'[i].source] = "offered"
    OBVIOUS
  <2>1. /\ i + 1 \in 1..Len(cmds) /\ i + 1 # 1 /\ cmds'[i] = cmds[i + 1]
        /\ 1 \in 1..Len(cmds)
    BY <1>2
  <2>2. cmds[i + 1].source \in Sources /\ pc[cmds[i + 1].source] = "offered"
    BY <1>1, <1>3, <2>1 DEF BoxesAreUnique
  <2>3. ~(Head(cmds).kind = "add" /\ cmds[i + 1].source = Head(cmds).source)
    BY <1>1, <1>2, <2>1 DEF BoxesAreUnique
  <2> QED
    BY <2>1, <2>2, <2>3
<1>5. \A i, j \in 1..Len(cmds') :
        i # j /\ cmds'[i].kind = "add" /\ cmds'[j].kind = "add"
           => cmds'[i].source # cmds'[j].source
  <2> SUFFICES ASSUME NEW i \in 1..Len(cmds'), NEW j \in 1..Len(cmds'), i # j,
                      cmds'[i].kind = "add", cmds'[j].kind = "add"
               PROVE  cmds'[i].source # cmds'[j].source
    OBVIOUS
  <2>1. /\ i + 1 \in 1..Len(cmds) /\ j + 1 \in 1..Len(cmds) /\ i + 1 # j + 1
        /\ cmds'[i] = cmds[i + 1] /\ cmds'[j] = cmds[j + 1]
    BY <1>2
  <2> QED
    BY <1>1, <2>1 DEF BoxesAreUnique
<1>6. \A t \in Sources : pc'[t] \in Unspawned => ~stop'[t] /\ ~abort'[t]
  BY <1>1 DEF BoxesAreUnique
<1> QED
  BY <1>1, <1>4, <1>5, <1>6 DEF BoxesAreUnique

\* The end of the loop: what the registry held is aborted, so every running
\* task is.
LEMMA ShutdownKeeps ==
    ASSUME SupervisorInv, phase = "select", BeginShutdown,
           UNCHANGED <<joining, boot, cmds, pc, breaker, series>>
    PROVE  Watching' /\ BoxesAreUnique'
<1>1. TypeOK /\ Watching /\ BoxesAreUnique /\ joining = NoSource
  BY DEF SupervisorInv, Watching, JoinedIsUnregistered
<1>2. /\ phase' = "flushing"
      /\ \A t \in Sources : abort'[t] = (abort[t] \/ registry[NameOf[t]] = t)
      /\ \A t \in Sources : stop'[t] = (stop[t] \/ registry[NameOf[t]] = t)
      /\ \A n \in Names : registry'[n] = NoSource
  BY DEF BeginShutdown
<1>3. HandlesAreWhole' /\ NoHandleAfterLoop'
  BY <1>2 DEF HandlesAreWhole, NoHandleAfterLoop
<1>4. JoinedIsUnregistered'
  BY <1>1, <1>2 DEF JoinedIsUnregistered
<1>5. TasksAreHeld'
  BY <1>1, <1>2 DEF TasksAreHeld, Watching, Alive
<1>6. LiveHasWriter'
  BY <1>1, <1>2 DEF LiveHasWriter, Watching
<1>7. BoxesAreUnique'
  <2>1. \A t \in Sources : pc[t] \in Unspawned => registry[NameOf[t]] # t
    BY <1>1 DEF Watching, HandlesAreWhole, Running, Unspawned, TypeOK
  <2>2. \A t \in Sources : pc[t] \in Unspawned => ~stop'[t] /\ ~abort'[t]
    BY <1>1, <1>2, <2>1 DEF BoxesAreUnique
  <2>3. UNCHANGED <<boot, cmds, pc>> /\ boot = {}
    BY <1>1 DEF BoxesAreUnique
  <2> QED
    BY <1>1, <2>2, <2>3 DEF BoxesAreUnique
<1> QED
  BY <1>3, <1>4, <1>5, <1>6, <1>7 DEF Watching

\* The supervisor's own steps keep the invariant.
LEMMA SuperviseKeeps ==
    SupervisorInv /\ Supervise => Watching' /\ BoxesAreUnique'
<1> SUFFICES ASSUME SupervisorInv, Supervise PROVE Watching' /\ BoxesAreUnique'
    OBVIOUS
<1>0. TypeOK /\ Watching /\ BoxesAreUnique
  BY DEF SupervisorInv, Watching
<1>1. ASSUME NEW s \in Sources, SpawnBoot(s) PROVE Watching' /\ BoxesAreUnique'
  <2>1. /\ phase = "booting" /\ s \in boot /\ boot' = boot \ {s}
        /\ Spawn(s) \/ RejectDuplicate(s)
        /\ UNCHANGED <<phase, joining, cmds, stop, abort, series>>
    BY <1>1 DEF SpawnBoot
  <2>2. pc[s] = "idle"
    BY <1>0, <2>1 DEF BoxesAreUnique
  <2>3. Watching'
    BY <2>1, <2>2, SpawnKeeps DEF Unspawned
  <2>4. /\ \A t \in Sources \ {s} : pc'[t] = pc[t]
        /\ boot \subseteq Sources
    BY <1>0, <2>1 DEF Spawn, RejectDuplicate, TypeOK
  <2>5. \A i \in 1..Len(cmds) : cmds[i].kind = "add" =>
          cmds[i].source \in Sources \ {s}
    BY <1>0, <2>2 DEF BoxesAreUnique, TypeOK, Commands, Add, Remove
  <2>6. BoxesAreUnique'
    BY <1>0, <2>1, <2>2, <2>4, <2>5 DEF BoxesAreUnique, Unspawned
  <2> QED
    BY <2>3, <2>6
<1>2. CASE EnterLoop
  BY <1>0, <1>2 DEF EnterLoop, taskVars, Watching, HandlesAreWhole, NoHandleAfterLoop,
     JoinedIsUnregistered, TasksAreHeld, LiveHasWriter, BoxesAreUnique, Alive
<1>3. CASE TakeAdd
  <2> DEFINE s == Head(cmds).source
  <2>1. /\ phase = "select" /\ cmds # <<>> /\ Head(cmds).kind = "add"
        /\ cmds' = Tail(cmds)
        /\ Spawn(s) \/ RejectDuplicate(s)
        /\ UNCHANGED <<phase, joining, boot, stop, abort, series>>
    BY <1>3 DEF TakeAdd
  <2>2. s \in Sources
    BY <1>0, <2>1, HeadCommand
  <2>3. pc[s] = "offered"
    <3>1. Head(cmds) = cmds[1] /\ 1 \in 1..Len(cmds)
      BY <1>0, <2>1 DEF TypeOK
    <3> QED
      BY <1>0, <2>1, <3>1 DEF BoxesAreUnique
  <2>4. \A t \in Sources : t # s => pc'[t] = pc[t]
    <3> HIDE DEF s
    <3> QED BY <1>0, <2>1, <2>2 DEF Spawn, RejectDuplicate, TypeOK
  <2>5. \A t \in Sources : pc'[t] \in Unspawned => pc[t] \in Unspawned
    BY <2>3, <2>4 DEF Unspawned
  <2>6. \A t \in Sources : pc'[t] \in Unspawned => ~stop'[t]
    BY <1>0, <2>1, <2>5 DEF BoxesAreUnique
  <2>7. BoxesAreUnique'
    BY <2>1, <2>4, <2>5, <2>6, TakingKeepsBoxes
  <2>8. Watching'
    <3>1. pc[s] \in Unspawned
      BY <2>3 DEF Unspawned
    <3> HIDE DEF s
    <3> QED BY <2>1, <2>2, <3>1, SpawnKeeps
  <2> QED
    BY <2>7, <2>8
<1>4. CASE TakeIdleRemove
  <2>1. /\ phase = "select" /\ cmds # <<>> /\ cmds' = Tail(cmds)
        /\ UNCHANGED <<phase, registry, joining, boot, taskVars>>
    BY <1>4 DEF TakeIdleRemove
  <2>2. BoxesAreUnique'
    BY <1>0, <2>1, TakingKeepsBoxes DEF taskVars, BoxesAreUnique
  <2> QED
    BY <1>0, <2>1, <2>2 DEF taskVars, Watching, HandlesAreWhole, NoHandleAfterLoop,
       JoinedIsUnregistered, TasksAreHeld, LiveHasWriter, Alive
<1>5. CASE TakeRemove
  <2> DEFINE n == Head(cmds).name
             s == registry[n]
  <2>1. /\ phase = "select" /\ cmds # <<>> /\ Head(cmds).kind = "remove"
        /\ s # NoSource
        /\ registry' = [registry EXCEPT ![n] = NoSource]
        /\ stop' = [stop EXCEPT ![s] = TRUE]
        /\ joining' = s /\ phase' = "joining" /\ cmds' = Tail(cmds)
        /\ UNCHANGED <<boot, pc, abort, series>>
    BY <1>5 DEF TakeRemove
  <2>2. n \in Names
    BY <1>0, <2>1, HeadCommand
  <2>3. s \in Sources /\ NameOf[s] = n /\ pc[s] \notin Unspawned
    <3>1. s \in Sources
      BY <1>0, <2>1, <2>2 DEF TypeOK
    <3>2. NameOf[s] = n /\ pc[s] \in Running \cup {"disabled", "dead"}
      <4> HIDE DEF n
      <4> QED BY <1>0, <2>1, <2>2 DEF Watching, HandlesAreWhole
    <3> QED
      BY <3>1, <3>2 DEF Running, Unspawned
  <2> HIDE DEF n, s
  <2>4. /\ stop'[s] /\ \A t \in Sources \ {s} : stop'[t] = stop[t]
        /\ registry'[n] = NoSource
        /\ \A m \in Names \ {n} : registry'[m] = registry[m]
    BY <1>0, <2>1, <2>2, <2>3 DEF TypeOK
  <2>5. HandlesAreWhole'
    BY <1>0, <2>1, <2>3, <2>4 DEF Watching, HandlesAreWhole, TypeOK, Discovered
  <2>6. JoinedIsUnregistered' /\ NoHandleAfterLoop'
    BY <2>1, <2>3, <2>4 DEF JoinedIsUnregistered, NoHandleAfterLoop
  <2>7. TasksAreHeld'
    <3>1. joining = NoSource
      BY <1>0, <2>1 DEF Watching, JoinedIsUnregistered
    <3>2. registry[n] = s
      BY DEF s
    <3> QED
      BY <1>0, <2>1, <2>3, <2>4, <3>1, <3>2 DEF Watching, TasksAreHeld, Alive, TypeOK
  <2>8. LiveHasWriter'
    BY <1>0, <2>1 DEF Watching, LiveHasWriter
  <2>9. BoxesAreUnique'
    <3>1. \A t \in Sources : pc'[t] \in Unspawned => ~stop'[t]
      BY <1>0, <2>1, <2>3, <2>4 DEF BoxesAreUnique
    <3> QED
      BY <2>1, <3>1, TakingKeepsBoxes
  <2> QED
    BY <2>5, <2>6, <2>7, <2>8, <2>9 DEF Watching
<1>6. CASE JoinDone
  <2>1. /\ phase = "joining" /\ pc[joining] \in Finished
        /\ phase' = "select" /\ joining' = NoSource
        /\ UNCHANGED <<registry, boot, cmds, taskVars>>
    BY <1>6 DEF JoinDone
  <2>2. TasksAreHeld'
    BY <1>0, <2>1 DEF Watching, TasksAreHeld, Alive, taskVars, Running, Finished
  <2> QED
    BY <1>0, <2>1, <2>2 DEF taskVars, Watching, HandlesAreWhole, NoHandleAfterLoop,
       JoinedIsUnregistered, LiveHasWriter, BoxesAreUnique
<1>7. CASE RetireTimedOut
  <2>1. /\ phase = "joining" /\ phase' = "select" /\ joining' = NoSource
        /\ abort' = [abort EXCEPT ![joining] = TRUE]
        /\ UNCHANGED <<registry, boot, cmds, pc, stop, series>>
    BY <1>7 DEF RetireTimedOut
  <2>2. /\ joining \in Sources /\ registry[NameOf[joining]] = NoSource
        /\ pc[joining] \notin Unspawned
    BY <1>0, <2>1 DEF Watching, JoinedIsUnregistered, TypeOK
  <2>3. abort'[joining] /\ \A t \in Sources \ {joining} : abort'[t] = abort[t]
    BY <1>0, <2>1, <2>2 DEF TypeOK
  <2>4. HandlesAreWhole'
    BY <1>0, <2>1, <2>2, <2>3 DEF Watching, HandlesAreWhole, TypeOK, Discovered
  <2>5. JoinedIsUnregistered' /\ NoHandleAfterLoop'
    BY <2>1 DEF JoinedIsUnregistered, NoHandleAfterLoop
  <2>6. TasksAreHeld'
    BY <1>0, <2>1, <2>3 DEF Watching, TasksAreHeld, Alive
  <2>7. LiveHasWriter'
    BY <1>0, <2>1, <2>3 DEF Watching, LiveHasWriter
  <2>8. BoxesAreUnique'
    BY <1>0, <2>1, <2>2, <2>3 DEF BoxesAreUnique
  <2> QED
    BY <2>4, <2>5, <2>6, <2>7, <2>8 DEF Watching
<1>8. CASE TakeFatal
  BY <1>8, ShutdownKeeps DEF TakeFatal
<1>9. CASE TakeInterrupt
  BY <1>9, ShutdownKeeps DEF TakeInterrupt
<1>10. CASE DrainClosed \/ FlushTimedOut
  <2>1. /\ phase = "flushing" /\ phase' = "exited"
        /\ UNCHANGED <<registry, joining, boot, cmds, taskVars>>
    BY <1>10 DEF DrainClosed, FlushTimedOut
  <2> QED
    BY <1>0, <2>1 DEF taskVars, Watching, HandlesAreWhole, NoHandleAfterLoop,
       JoinedIsUnregistered, TasksAreHeld, LiveHasWriter, BoxesAreUnique, Alive
<1>11. CASE Exited
  BY <1>0, <1>11 DEF Exited, vars, superVars, taskVars, Watching, HandlesAreWhole,
     NoHandleAfterLoop, JoinedIsUnregistered, TasksAreHeld, LiveHasWriter,
     BoxesAreUnique, Alive
<1> QED
  BY <1>1, <1>2, <1>3, <1>4, <1>5, <1>6, <1>7, <1>8, <1>9, <1>10, <1>11 DEF Supervise

-----------------------------------------------------------------------------
(* The theorems. *)

LEMMA InvariantInit == Init => SupervisorInv
<1> SUFFICES ASSUME Init PROVE SupervisorInv
    OBVIOUS
<1>1. TypeOK
  BY TypeInit
<1>2. HandlesAreWhole /\ JoinedIsUnregistered /\ NoHandleAfterLoop
  BY DEF Init, HandlesAreWhole, JoinedIsUnregistered, NoHandleAfterLoop
<1>3. TasksAreHeld /\ LiveHasWriter
  BY DEF Init, TasksAreHeld, LiveHasWriter, Alive, Running
<1>4. BoxesAreUnique
  BY DEF Init, BoxesAreUnique
<1> QED
  BY <1>1, <1>2, <1>3, <1>4 DEF SupervisorInv

LEMMA InvariantStep == SupervisorInv /\ [Next]_vars => SupervisorInv'
<1> SUFFICES ASSUME SupervisorInv, [Next]_vars PROVE SupervisorInv'
    OBVIOUS
<1>1. TypeOK'
  BY TypeStep DEF SupervisorInv
<1>2. Watching' /\ BoxesAreUnique'
  <2>1. CASE Next
    BY <2>1, EnvironmentKeeps, SuperviseKeeps, TaskKeeps DEF Next
  <2>2. CASE UNCHANGED vars
    BY <2>2 DEF vars, superVars, taskVars, SupervisorInv, Watching, HandlesAreWhole,
       JoinedIsUnregistered, TasksAreHeld, NoHandleAfterLoop, LiveHasWriter,
       BoxesAreUnique, Alive
  <2> QED
    BY <2>1, <2>2
<1> QED
  BY <1>1, <1>2 DEF SupervisorInv, Watching

\* The registry, the join under way, the queued boxes and the tasks agree on
\* who is watched, in every reachable state of every instance.
THEOREM InvariantHolds == Spec => []SupervisorInv
  BY InvariantInit, InvariantStep, PTL DEF Spec

\* At most one task of a name runs that was not aborted: spawn_source and
\* retire_source never give an instance a second watcher.
THEOREM OneWatcher == Spec => []OneWatcherPerName
<1>1. SupervisorInv => OneWatcherPerName
  <2> SUFFICES ASSUME SupervisorInv, NEW s \in Sources, NEW t \in Sources,
                      s # t, NameOf[s] = NameOf[t], Alive(s), Alive(t),
                      ~abort[s], ~abort[t]
               PROVE  FALSE
    BY DEF OneWatcherPerName
  <2>1. registry[NameOf[s]] = s \/ joining = s
    BY DEF SupervisorInv, TasksAreHeld
  <2>2. registry[NameOf[t]] = t \/ joining = t
    BY DEF SupervisorInv, TasksAreHeld
  <2>3. joining # NoSource => registry[NameOf[joining]] = NoSource
    BY DEF SupervisorInv, JoinedIsUnregistered
  <2> QED
    BY <2>1, <2>2, <2>3
<1> QED
  BY InvariantHolds, <1>1, PTL

\* What the registry lists has a task that runs, unless it panicked, probed
\* fatal or is a boot source that does not apply to the host (DEC-22).
THEOREM Watched == Spec => []RegisteredIsWatched
<1>1. SupervisorInv => RegisteredIsWatched
  <2> SUFFICES ASSUME SupervisorInv PROVE RegisteredIsWatched
      OBVIOUS
  <2> QED
    BY DEF SupervisorInv, HandlesAreWhole, RegisteredIsWatched
<1> QED
  BY InvariantHolds, <1>1, PTL

\* A name that nobody watches shows a live value only if one of its tasks is
\* being joined, was aborted or panicked.
THEOREM QuietName == Spec => []QuietNameWasCut
<1>1. SupervisorInv => QuietNameWasCut
  <2> SUFFICES ASSUME SupervisorInv, NEW n \in Names,
                      registry[n] = NoSource, series[n] = "live"
               PROVE  \E s \in Sources :
                        /\ NameOf[s] = n
                        /\ s = joining \/ abort[s] \/ pc[s] \in {"dying", "dead"}
    BY DEF QuietNameWasCut
  <2>1. PICK s \in Sources :
          /\ NameOf[s] = n
          /\ \/ pc[s] \in Running \ {"probing"}
             \/ abort[s]
             \/ pc[s] \in {"dying", "dead"}
    BY DEF SupervisorInv, LiveHasWriter
  <2>2. CASE pc[s] \in Running /\ ~abort[s]
    BY <2>1, <2>2 DEF SupervisorInv, TasksAreHeld, Alive
  <2> QED
    BY <2>1, <2>2
<1> QED
  BY InvariantHolds, <1>1, PTL

\* Once the loop is over, every task that still runs has its abort pending.
THEOREM ShutdownReachesAll == Spec => []ShutdownAbortsAll
<1>1. SupervisorInv => ShutdownAbortsAll
  <2> SUFFICES ASSUME SupervisorInv, phase = "flushing", NEW s \in Sources,
                      Alive(s), ~abort[s]
               PROVE  FALSE
    BY DEF ShutdownAbortsAll
  <2>1. registry[NameOf[s]] = NoSource
    BY DEF SupervisorInv, NoHandleAfterLoop
  <2>2. joining = NoSource
    BY DEF SupervisorInv, JoinedIsUnregistered
  <2> QED
    BY <2>1, <2>2 DEF SupervisorInv, TasksAreHeld
<1> QED
  BY InvariantHolds, <1>1, PTL

-----------------------------------------------------------------------------
(* Criticality. *)

\* The conjunct of OnlyCriticalIsFatal about a queue of fatals.
QueueIsCritical(q) ==
    \A i \in 1..Len(q) : q[i].reason # "unfit" => q[i].source \in Critical

LEMMA CriticalStep ==
    TypeOK /\ OnlyCriticalIsFatal /\ [Next]_vars => OnlyCriticalIsFatal'
<1> SUFFICES ASSUME TypeOK, OnlyCriticalIsFatal, [Next]_vars
             PROVE  OnlyCriticalIsFatal'
    OBVIOUS
<1>1. ASSUME NEW s \in Sources, Task(s) PROVE OnlyCriticalIsFatal'
  <2>1. /\ pc'[s] \in {"escalating", "dying"} => s \in Critical
        /\ pc'[s] = "escalating" => breaker'[s].failures >= CritThreshold
    <3> USE DEF TypeOK, Moves
    <3>1. CASE ProbeFatal(s) \/ ProbePanics(s) \/ RetirePanics(s)
      BY <3>1 DEF ProbeFatal, ProbePanics, RetirePanics, PanicState
    <3>2. CASE CollectFails(s)
      <4>1. /\ breaker' = [breaker EXCEPT ![s] = RecordFailure(breaker[s])]
            /\ pc'[s] = "escalating" =>
                 ClassifyFailure(s \in Critical, RecordFailure(breaker[s])) = "Fatal"
            /\ pc'[s] \in {"escalating", "waiting"}
        BY <3>2 DEF CollectFails
      <4>2. breaker'[s] = RecordFailure(breaker[s])
        BY <4>1
      <4> QED
        BY <4>1, <4>2 DEF ClassifyFailure
    <3>3. CASE SendFatal(s)
      BY <3>3 DEF SendFatal
    <3>4. CASE ProbeReady(s) \/ ProbeUnavailable(s) \/ ProbeNotApplicable(s)
      BY <3>4 DEF ProbeReady, ProbeUnavailable, ProbeNotApplicable
    <3>5. CASE Tick(s) \/ WakeUp(s) \/ TakeStop(s) \/ CollectOk(s) \/ Cancel(s)
      BY <3>5 DEF Tick, WakeUp, TakeStop, CollectOk, Cancel
    <3> HIDE DEF TypeOK, Moves
    <3> QED
      BY <1>1, <3>1, <3>2, <3>3, <3>4, <3>5 DEF Task
  <2>2. \A t \in Sources \ {s} : pc'[t] = pc[t] /\ breaker'[t] = breaker[t]
    <3>1. UNCHANGED breaker \/ \E b : breaker' = [breaker EXCEPT ![s] = b]
      BY <1>1 DEF Task, ProbeReady, ProbeUnavailable,
         ProbeNotApplicable, ProbeFatal, ProbePanics, Tick, WakeUp, TakeStop,
         RetirePanics, CollectOk, CollectFails, SendFatal, Cancel
    <3> QED
      BY <1>1, <3>1, TaskEffect DEF TypeOK
  <2>3. \/ fatals' = fatals
        \/ /\ pc[s] \in Sending
           /\ fatals' = Append(fatals, [source |-> s, reason |-> pc[s]])
    <3>1. CASE SendFatal(s)
      BY <3>1 DEF SendFatal, Moves
    <3>2. CASE ~SendFatal(s)
      BY <1>1, <3>2 DEF Task, superVars, ProbeReady, ProbeUnavailable,
         ProbeNotApplicable, ProbeFatal, ProbePanics, Tick, WakeUp, TakeStop,
         RetirePanics, CollectOk, CollectFails, Cancel
    <3> QED
      BY <3>1, <3>2
  <2>4. QueueIsCritical(fatals')
    <3> DEFINE f == [source |-> s, reason |-> pc[s]]
    <3>1. CASE fatals' = fatals
      BY <3>1 DEF OnlyCriticalIsFatal, QueueIsCritical
    <3>2. CASE pc[s] \in Sending /\ fatals' = Append(fatals, f)
      <4>1. f \in FatalSignals /\ (f.reason # "unfit" => f.source \in Critical)
        BY <3>2 DEF FatalSignals, OnlyCriticalIsFatal, Sending
      <4>2. fatals \in Seq(FatalSignals) /\ QueueIsCritical(fatals)
        BY DEF TypeOK, OnlyCriticalIsFatal, QueueIsCritical
      <4> HIDE DEF f
      <4> QED
        BY <3>2, <4>1, <4>2 DEF QueueIsCritical
    <3> QED
      BY <2>3, <3>1, <3>2
  <2> QED
    BY <2>1, <2>2, <2>4 DEF OnlyCriticalIsFatal, QueueIsCritical
<1>2. CASE Environment
  <2>1. /\ UNCHANGED <<fatals, breaker>>
        /\ \A t \in Sources : pc'[t] = pc[t] \/ pc'[t] = "offered"
    BY <1>2 DEF Environment, SendAdd, SendRemove, Interrupt, taskVars, TypeOK
  <2> QED
    BY <2>1 DEF OnlyCriticalIsFatal
<1>3. CASE Supervise
  <2>1. \A t \in Sources : pc'[t] = pc[t] \/ pc'[t] \in {"probing", "rejected"}
    <3>1. ASSUME NEW s \in Sources, Spawn(s) \/ RejectDuplicate(s)
          PROVE  \A t \in Sources : pc'[t] = pc[t] \/ pc'[t] \in {"probing", "rejected"}
      BY <3>1 DEF Spawn, RejectDuplicate, TypeOK
    <3>2. CASE TakeAdd
      <4>1. cmds # <<>> /\ Head(cmds).kind = "add"
        BY <3>2 DEF TakeAdd
      <4>2. Head(cmds).source \in Sources
        BY <4>1, HeadCommand
      <4> QED
        BY <3>1, <3>2, <4>2 DEF TakeAdd
    <3>3. CASE ~TakeAdd /\ ~(\E s \in Sources : SpawnBoot(s))
      BY <1>3, <3>3 DEF Supervise, EnterLoop, TakeIdleRemove, TakeRemove, JoinDone,
         RetireTimedOut, TakeFatal, TakeInterrupt, DrainClosed, FlushTimedOut,
         Exited, vars, taskVars
    <3> QED
      BY <3>1, <3>2, <3>3 DEF SpawnBoot
  <2>2. fatals' = fatals \/ (fatals # <<>> /\ fatals' = Tail(fatals))
    BY <1>3 DEF Supervise, SpawnBoot, EnterLoop, TakeAdd, TakeIdleRemove, TakeRemove,
       JoinDone, RetireTimedOut, TakeFatal, TakeInterrupt, DrainClosed,
       FlushTimedOut, Exited, vars, superVars
  <2>3. QueueIsCritical(fatals')
    <3>1. fatals \in Seq(FatalSignals) /\ QueueIsCritical(fatals)
      BY DEF TypeOK, OnlyCriticalIsFatal, QueueIsCritical
    <3>2. CASE fatals' = fatals
      BY <3>1, <3>2
    <3>3. CASE fatals # <<>> /\ fatals' = Tail(fatals)
      BY <3>1, <3>3 DEF QueueIsCritical
    <3> QED
      BY <2>2, <3>2, <3>3
  <2>4. UNCHANGED breaker
    BY <1>3 DEF Supervise, SpawnBoot, EnterLoop, TakeAdd, TakeIdleRemove, TakeRemove,
       JoinDone, RetireTimedOut, TakeFatal, TakeInterrupt, DrainClosed,
       FlushTimedOut, Exited, vars, taskVars
  <2> QED
    BY <2>1, <2>3, <2>4 DEF OnlyCriticalIsFatal, QueueIsCritical
<1>4. CASE UNCHANGED vars
  BY <1>4 DEF vars, superVars, taskVars, OnlyCriticalIsFatal
<1> QED
  BY <1>1, <1>2, <1>3, <1>4 DEF Next

\* No failure and no panic of an Optional source reaches the channel that ends
\* the process, and no source escalates below its threshold: what else is in
\* that channel, from any source, is a fatal probe (lib.rs:368-376).
THEOREM CriticalOnly == Spec => []OnlyCriticalIsFatal
<1>1. Init => OnlyCriticalIsFatal
  BY DEF Init, OnlyCriticalIsFatal
<1> QED
  BY <1>1, CriticalStep, TypeCorrect, PTL DEF Spec

-----------------------------------------------------------------------------
(* Supervisor implements Registry: whatever the tasks, the retirements and *)
(* the fatals do, the commands change the registered names one at a time   *)
(* and in order.  First the command channel under the mapping.             *)

LEMMA NamedCommand ==
    ASSUME NEW c \in Commands
    PROVE  /\ Named(c) \in Promise!Commands
           /\ Named(c).kind = c.kind
           /\ c.kind = "add" => c.source \in Sources /\ Named(c).name = NameOf[c.source]
           /\ c.kind = "remove" => Named(c).name = c.name
<1>1. ASSUME NEW s \in Sources, c = Add(s)
      PROVE  /\ c.kind = "add" /\ c.source = s
             /\ Named(c) = [kind |-> "add", name |-> NameOf[s]] /\ NameOf[s] \in Names
  BY <1>1 DEF Add, Named
<1>2. ASSUME NEW n \in Names, c = Remove(n)
      PROVE  /\ c.kind = "remove" /\ c.name = n
             /\ Named(c) = [kind |-> "remove", name |-> n]
  BY <1>2 DEF Remove, Named
<1>3. (\E s \in Sources : c = Add(s)) \/ (\E n \in Names : c = Remove(n))
  BY DEF Commands
<1> QED
  BY <1>1, <1>2, <1>3 DEF Promise!Commands

\* Sending a command is sending it under its name.
LEMMA QueueAppends ==
    ASSUME TypeOK, NEW c \in Commands, phase # "exited",
           cmds' = Append(cmds, c), phase' = phase
    PROVE  Queue' = Append(Queue, Named(c)) /\ Len(Queue) = Len(cmds)
<1>1. cmds \in Seq(Commands)
  BY DEF TypeOK
<1>2. Len(cmds') = Len(cmds) + 1 /\ \A i \in 1..Len(cmds') :
         cmds'[i] = IF i = Len(cmds) + 1 THEN c ELSE cmds[i]
  BY <1>1
<1>3. Queue = [i \in 1..Len(cmds) |-> Named(cmds[i])] /\ Len(Queue) = Len(cmds)
  BY <1>1 DEF Queue
<1>4. Queue' = [i \in 1..(Len(cmds) + 1) |-> Named(cmds'[i])]
  BY <1>2 DEF Queue, Named
<1>5. \A i \in 1..(Len(cmds) + 1) :
         Named(cmds'[i]) = IF i = Len(cmds) + 1 THEN Named(c) ELSE Queue[i]
  BY <1>1, <1>2, <1>3
<1> QED
  BY <1>1, <1>3, <1>4, <1>5

\* Taking a command is taking its name.
LEMMA QueueTakes ==
    ASSUME TypeOK, cmds # <<>>, phase # "exited", phase' # "exited", cmds' = Tail(cmds)
    PROVE  /\ Queue # <<>> /\ Head(Queue) = Named(Head(cmds))
           /\ Queue' = Tail(Queue)
<1>1. cmds \in Seq(Commands) /\ Len(cmds) > 0
  BY DEF TypeOK
<1>2. /\ Len(cmds') = Len(cmds) - 1
      /\ \A i \in 1..(Len(cmds) - 1) : cmds'[i] = cmds[i + 1]
  BY <1>1
<1>3. Queue = [i \in 1..Len(cmds) |-> Named(cmds[i])] /\ Len(Queue) = Len(cmds)
  BY <1>1 DEF Queue
<1>4. Queue' = [i \in 1..(Len(cmds) - 1) |-> Named(cmds'[i])]
  BY <1>2 DEF Queue, Named
<1>5. Tail(Queue) = [i \in 1..(Len(cmds) - 1) |-> Named(cmds[i + 1])]
  BY <1>1, <1>3
<1> QED
  BY <1>1, <1>2, <1>3, <1>4, <1>5

\* Nothing of this moves while phase, registry and channel stand still.
LEMMA Stutters ==
    ASSUME UNCHANGED <<registry, cmds>>, phase' # "exited", phase # "exited", Service' = Service
    PROVE  UNCHANGED Promise!vars
  BY DEF Promise!vars, Queue, Registered, Named

-----------------------------------------------------------------------------
(* The steps of Supervisor as steps of Registry. *)

LEMMA RegistryInit == Init => Promise!Init
  BY DEF Init, Promise!Init, Queue, Registered, Service

\* A command sent from outside; an interrupt is nothing to the registry.
LEMMA EnvironmentMaps ==
    ASSUME TypeOK, Environment
    PROVE  [Promise!Next]_(Promise!vars)
<1>1. ASSUME NEW c \in Commands, phase # "exited", Len(cmds) < CmdCapacity,
             cmds' = Append(cmds, c), UNCHANGED <<phase, registry>>
      PROVE  Promise!Send(Named(c))
  <2>1. Queue' = Append(Queue, Named(c)) /\ Len(Queue) = Len(cmds)
    BY <1>1, QueueAppends
  <2>2. Service # "closed" /\ UNCHANGED <<Registered, Service>>
    BY <1>1 DEF TypeOK, Phases, Service, Registered
  <2> QED
    BY <1>1, <2>1, <2>2 DEF Promise!Send
<1>2. ASSUME NEW s \in Sources, SendAdd(s) PROVE Promise!Next
  <2>1. Add(s) \in Commands
    BY DEF Commands
  <2>2. Promise!Send(Named(Add(s)))
    BY <1>1, <1>2, <2>1 DEF SendAdd
  <2> QED
    BY <2>1, <2>2, NamedCommand DEF Promise!Next
<1>3. ASSUME NEW n \in Names, SendRemove(n) PROVE Promise!Next
  <2>1. Remove(n) \in Commands
    BY DEF Commands
  <2>2. Promise!Send(Named(Remove(n)))
    BY <1>1, <1>3, <2>1 DEF SendRemove
  <2> QED
    BY <2>1, <2>2, NamedCommand DEF Promise!Next
<1>4. ASSUME Interrupt PROVE UNCHANGED Promise!vars
  BY <1>4, Stutters DEF Interrupt, Service
<1> QED
  BY <1>2, <1>3, <1>4 DEF Environment

\* A source that is spawned gets its name registered, unless it was.
LEMMA SpawnRegisters ==
    ASSUME TypeOK, NEW s \in Sources, Spawn(s) \/ RejectDuplicate(s)
    PROVE  Registered' = Registered \cup {NameOf[s]}
<1>1. NameOf[s] \in Names /\ s # NoSource /\ registry \in [Names -> Sources \cup {NoSource}]
  BY DEF TypeOK
<1>2. CASE Spawn(s)
  <2>1. /\ registry'[NameOf[s]] = s
        /\ \A n \in Names \ {NameOf[s]} : registry'[n] = registry[n]
    BY <1>1, <1>2 DEF Spawn
  <2> QED
    BY <1>1, <2>1 DEF Registered
<1>3. CASE RejectDuplicate(s)
  BY <1>1, <1>3 DEF RejectDuplicate, Registered
<1> QED
  BY <1>2, <1>3

\* The boot.
LEMMA BootMaps ==
    ASSUME TypeOK, (\E s \in Sources : SpawnBoot(s)) \/ EnterLoop
    PROVE  Promise!Next
<1>1. ASSUME NEW s \in Sources, SpawnBoot(s) PROVE Promise!Register(NameOf[s])
  <2>1. Registered' = Registered \cup {NameOf[s]}
    BY <1>1, SpawnRegisters DEF SpawnBoot
  <2>2. Service = "booting" /\ UNCHANGED <<Queue, Service>>
    BY <1>1 DEF SpawnBoot, Service, Queue, Named
  <2> QED
    BY <2>1, <2>2 DEF Promise!Register
<1>2. \A s \in Sources : NameOf[s] \in Names
  OBVIOUS
<1>3. ASSUME EnterLoop PROVE Promise!Open
  BY <1>3 DEF EnterLoop, Promise!Open, Service, Queue, Named, Registered
<1> QED
  BY <1>1, <1>2, <1>3 DEF Promise!Next

\* A command that is taken does to the registered names what it says.
LEMMA CommandMaps ==
    ASSUME TypeOK, TakeCommand
    PROVE  Promise!Serve
<1>1. /\ phase = "select" /\ phase' \in {"select", "joining"}
      /\ cmds # <<>> /\ cmds' = Tail(cmds)
  BY DEF TakeCommand, TakeAdd, TakeIdleRemove, TakeRemove
<1>2. /\ Queue # <<>> /\ Head(Queue) = Named(Head(cmds)) /\ Queue' = Tail(Queue)
  BY <1>1, QueueTakes
<1>3. Service = "serving" /\ Service' = "serving"
  BY <1>1 DEF Service
<1>4. Head(cmds) \in Commands
  BY <1>1, HeadCommand
<1> DEFINE c == Head(cmds)
<1>5. /\ Head(Queue).kind = c.kind
      /\ c.kind = "add" => Head(Queue).name = NameOf[c.source]
      /\ c.kind = "remove" => Head(Queue).name = c.name
  BY <1>2, <1>4, NamedCommand
<1>6. CASE TakeAdd
  <2>1. c.kind = "add" /\ c.source \in Sources /\ (Spawn(c.source) \/ RejectDuplicate(c.source))
    BY <1>1, <1>6, HeadCommand DEF TakeAdd
  <2>2. Registered' = Registered \cup {NameOf[c.source]}
    <3> DEFINE s == c.source
    <3>1. s \in Sources /\ (Spawn(s) \/ RejectDuplicate(s))
      BY <2>1
    <3> HIDE DEF s
    <3>2. Registered' = Registered \cup {NameOf[s]}
      BY <3>1, SpawnRegisters
    <3> QED
      BY <3>2 DEF s
  <2> QED
    BY <1>2, <1>3, <1>5, <2>1, <2>2 DEF Promise!Serve
<1>7. CASE TakeIdleRemove \/ TakeRemove
  <2>1. c.kind = "remove" /\ c.name \in Names
    BY <1>1, <1>7, HeadCommand DEF TakeIdleRemove, TakeRemove
  <2>2. \/ registry[c.name] = NoSource /\ UNCHANGED registry
        \/ registry' = [registry EXCEPT ![c.name] = NoSource]
    BY <1>7 DEF TakeIdleRemove, TakeRemove
  <2>3. Registered' = Registered \ {c.name}
    <3> HIDE DEF c
    <3> QED BY <2>1, <2>2 DEF TypeOK, Registered
  <2> QED
    BY <1>2, <1>3, <1>5, <2>1, <2>3 DEF Promise!Serve
<1> QED
  BY <1>6, <1>7 DEF TakeCommand

\* The end of the loop and of run().
LEMMA EndMaps ==
    ASSUME SupervisorInv, TakeFatal \/ TakeInterrupt \/ DrainClosed \/ FlushTimedOut
    PROVE  Promise!Next
<1>1. ASSUME TakeFatal \/ TakeInterrupt PROVE Promise!End
  <2>1. phase = "select" /\ phase' = "flushing" /\ UNCHANGED cmds
        /\ registry' = [n \in Names |-> NoSource]
    BY <1>1 DEF TakeFatal, TakeInterrupt, BeginShutdown
  <2> QED
    BY <2>1 DEF Promise!End, Service, Queue, Named, Registered
<1>2. ASSUME DrainClosed \/ FlushTimedOut PROVE Promise!Close
  BY <1>2 DEF DrainClosed, FlushTimedOut, Promise!Close, Service, Queue, Registered
<1> QED
  BY <1>1, <1>2 DEF Promise!Next

LEMMA RegistryStep ==
    SupervisorInv /\ [Next]_vars => [Promise!Next]_(Promise!vars)
<1> SUFFICES ASSUME SupervisorInv, [Next]_vars PROVE [Promise!Next]_(Promise!vars)
    OBVIOUS
<1>1. TypeOK
  BY DEF SupervisorInv
<1>2. CASE Environment
  BY <1>1, <1>2, EnvironmentMaps
<1>3. CASE Supervise
  <2>1. CASE (\E s \in Sources : SpawnBoot(s)) \/ EnterLoop
    BY <1>1, <2>1, BootMaps
  <2>2. CASE TakeAdd \/ TakeIdleRemove \/ TakeRemove
    BY <1>1, <2>2, CommandMaps DEF TakeCommand, Promise!Next
  <2>3. CASE JoinDone \/ RetireTimedOut
    BY <2>3, Stutters DEF JoinDone, RetireTimedOut, Service
  <2>4. CASE TakeFatal \/ TakeInterrupt \/ DrainClosed \/ FlushTimedOut
    BY <2>4, EndMaps
  <2>5. CASE Exited
    BY <2>5 DEF Exited, vars, superVars, Promise!vars, Queue, Named, Registered, Service
  <2> QED
    BY <1>3, <2>1, <2>2, <2>3, <2>4, <2>5 DEF Supervise
<1>4. ASSUME NEW s \in Sources, Task(s) PROVE UNCHANGED Promise!vars
  <2>1. UNCHANGED <<phase, registry, cmds>>
    BY <1>1, <1>4, TaskEffect
  <2> QED
    BY <2>1 DEF Promise!vars, Queue, Named, Registered, Service
<1>5. CASE UNCHANGED vars
  BY <1>5 DEF vars, superVars, Promise!vars, Queue, Named, Registered, Service
<1> QED
  BY <1>2, <1>3, <1>4, <1>5 DEF Next

\* For every set of sources and names and every capacity, the supervisor's
\* commands act on the registered names one at a time and in the order sent:
\* what discovery relies on (lib.rs:104-118, 249-323).
THEOREM RegistryImplemented == Spec => ImplementsRegistry
<1>1. Spec => Promise!Init /\ [][Promise!Next]_(Promise!vars)
  BY RegistryInit, RegistryStep, InvariantHolds, PTL DEF Spec
<1> QED
  BY <1>1 DEF ImplementsRegistry, Promise!Spec

=============================================================================
