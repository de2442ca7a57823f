----------------------------- MODULE Supervisor -----------------------------
(***************************************************************************)
(* The supervisor of crates/runtime/src/lib.rs: its select loop, the       *)
(* registry of watched sources, the two channels it listens on, and one    *)
(* task per source (probe, ticks, collect behind catch_unwind, circuit     *)
(* breaker, retirement).                                                   *)
(*                                                                         *)
(* A member of Sources is one boxed SignalSource; two members with one     *)
(* name are two incarnations of one instance (a tenant that went away and  *)
(* came back).  Every step of a task is what it does between two await     *)
(* points; the supervisor and the tasks interleave at that grain.          *)
(*                                                                         *)
(* External, and modelled from how this code uses it: the sources          *)
(* themselves (any probe and any collect outcome), whoever holds a command *)
(* sender, the user's Ctrl-C, tokio's channels, timers and abort().        *)
(* Signals leave through the sink, which Pipeline models; here `series`    *)
(* keeps the last status handed to it under each name.                     *)
(***************************************************************************)
EXTENDS Policy, Sequences, FiniteSets

CONSTANTS
    Sources,            \* source instances
    Names,              \* descriptor names, the registry's keys
    NameOf,             \* descriptor().name of each source
    Critical,           \* the sources of Critical criticality
    BootSources,        \* the sources given to Supervisor::new
    Removable,          \* the names some command sender ever removes
    NoSource,           \* the absent registry entry
    FatalCapacity,      \* the fatal channel; 4 in the code
    CmdCapacity,        \* the command channel; 64 in the code
    RetireTimeout       \* seconds; 5 in the code

ASSUME SourceAssumption ==
    /\ NameOf \in [Sources -> Names]
    /\ Critical \subseteq Sources
    /\ BootSources \subseteq Sources
    /\ Removable \subseteq Names
    /\ NoSource \notin Sources

ASSUME ChannelAssumption ==
    /\ FatalCapacity \in Nat \ {0}
    /\ CmdCapacity \in Nat \ {0}
    /\ RetireTimeout \in Nat

VARIABLES
    phase,      \* where Supervisor::run is
    result,     \* what it will return
    registry,   \* the HashMap of handles, by name
    joining,    \* the source retire_source waits for
    boot,       \* boot sources not spawned yet
    cmds,       \* the command channel
    fatals,     \* the fatal channel
    sigint,     \* what became of the last Ctrl-C
    pc,         \* where each source's task is
    stop,       \* its oneshot stop sender was used, or dropped with the handle
    abort,      \* its JoinHandle was aborted
    breaker,    \* its circuit breaker
    series      \* the last status handed to the sink, by name

superVars == <<phase, result, registry, joining, boot, cmds, fatals, sigint>>
taskVars  == <<pc, stop, abort, breaker, series>>
vars      == <<superVars, taskVars>>

-----------------------------------------------------------------------------
(* States of the supervisor and of a task. *)

Phases == {"booting", "select", "joining", "flushing", "exited"}

\* A task that has a next await point to reach...
Running == {"probing", "waiting", "backoff", "collecting",
            "escalating", "dying", "unfit"}
\* ...three of which are a pending fatal_tx.send: from handle_failure, which
\* returns to the loop, after a panic outside collect and after a fatal
\* probe, which do not.
Sending == {"escalating", "dying", "unfit"}
\* ...and one whose future is gone: dropped as not applicable, retired,
\* dead after a fatal probe or a panic, cancelled by an abort.
Finished == {"disabled", "retired", "dead", "cancelled"}
\* A source that has no task: not offered yet, boxed in a command, refused.
Unspawned == {"idle", "offered", "rejected"}

\* Origin::Discovered as opposed to Origin::Boot.
Discovered(s) == s \notin BootSources

Add(s)    == [kind |-> "add", source |-> s]
Remove(n) == [kind |-> "remove", name |-> n]
Commands  == {Add(s) : s \in Sources} \cup {Remove(n) : n \in Names}

\* FatalSignal.  The reason is a text that only its send site writes, so it is
\* named after the state of that send.
FatalSignals == [source : Sources, reason : Sending]

Alive(s) == pc[s] \in Running

Init ==
    /\ phase = "booting"
    /\ result = "none"
    /\ registry = [n \in Names |-> NoSource]
    /\ joining = NoSource
    /\ boot = BootSources
    /\ cmds = <<>>
    /\ fatals = <<>>
    /\ sigint = "none"
    /\ pc = [s \in Sources |-> "idle"]
    /\ stop = [s \in Sources |-> FALSE]
    /\ abort = [s \in Sources |-> FALSE]
    /\ breaker = [s \in Sources |-> NewBreaker]
    /\ series = [n \in Names |-> "absent"]

-----------------------------------------------------------------------------
(* The outside: command senders and the user. *)

\* commands().send(Add(box)): a box is sent once.  A full channel makes the
\* sender wait; one that outlives run() finds the channel closed.
SendAdd(s) ==
    /\ phase # "exited"
    /\ Discovered(s) /\ pc[s] = "idle"
    /\ Len(cmds) < CmdCapacity
    /\ cmds' = Append(cmds, Add(s))
    /\ pc' = [pc EXCEPT ![s] = "offered"]
    /\ UNCHANGED <<phase, result, registry, joining, boot, fatals, sigint,
                   stop, abort, breaker, series>>

\* commands().send(Remove(name)), whether the name is registered or not.
SendRemove(n) ==
    /\ phase # "exited"
    /\ n \in Removable
    /\ Len(cmds) < CmdCapacity
    /\ cmds' = Append(cmds, Remove(n))
    /\ UNCHANGED <<phase, result, registry, joining, boot, fatals, sigint, taskVars>>

\* SIGINT.  Only a ctrl_c() future that exists hears it, and the loop has one
\* only while it is parked in select!.
Interrupt ==
    /\ phase \in {"select", "joining"}
    /\ sigint # "raised"
    /\ sigint' = IF phase = "select" THEN "raised" ELSE "unheard"
    /\ UNCHANGED <<phase, result, registry, joining, boot, cmds, fatals, taskVars>>

-----------------------------------------------------------------------------
(* Supervisor::run *)

\* select! took another branch: the ctrl_c() future is dropped with what it
\* had heard, and the next iteration makes a new one.
ForgetInterrupt == sigint' = IF sigint = "raised" THEN "unheard" ELSE sigint

\* Mutant of Spawn: a duplicate shadows the registered source.
Spawn_Shadows(s) ==
    /\ registry' = [registry EXCEPT ![NameOf[s]] = s]
    /\ pc' = [pc EXCEPT ![s] = "probing"]

\* spawn_source for a name that is free: the task starts at its probe.
Spawn(s) ==
    /\ registry[NameOf[s]] = NoSource
    /\ registry' = [registry EXCEPT ![NameOf[s]] = s]
    /\ pc' = [pc EXCEPT ![s] = "probing"]

\* spawn_source for a name that is registered: warned about and dropped.
RejectDuplicate(s) ==
    /\ registry[NameOf[s]] # NoSource
    /\ pc' = [pc EXCEPT ![s] = "rejected"]
    /\ UNCHANGED registry

\* Boot sources are spawned before the loop starts; the order is any order.
SpawnBoot(s) ==
    /\ phase = "booting" /\ s \in boot
    /\ boot' = boot \ {s}
    /\ Spawn(s) \/ RejectDuplicate(s)
    /\ UNCHANGED <<phase, result, joining, cmds, fatals, sigint,
                   stop, abort, breaker, series>>

EnterLoop ==
    /\ phase = "booting" /\ boot = {}
    /\ phase' = "select"
    /\ UNCHANGED <<result, registry, joining, boot, cmds, fatals, sigint, taskVars>>

TakeAdd ==
    /\ phase = "select" /\ cmds # <<>> /\ Head(cmds).kind = "add"
    /\ cmds' = Tail(cmds)
    /\ ForgetInterrupt
    /\ LET s == Head(cmds).source IN Spawn(s) \/ RejectDuplicate(s)
    /\ UNCHANGED <<phase, result, joining, boot, fatals,
                   stop, abort, breaker, series>>

\* retire_source for a name nobody registered.
TakeIdleRemove ==
    /\ phase = "select" /\ cmds # <<>> /\ Head(cmds).kind = "remove"
    /\ registry[Head(cmds).name] = NoSource
    /\ cmds' = Tail(cmds)
    /\ ForgetInterrupt
    /\ UNCHANGED <<phase, result, registry, joining, boot, fatals, taskVars>>

\* Mutant of TakeRemove: the name is freed when the task has been joined.
TakeRemove_Late ==
    /\ phase = "select" /\ cmds # <<>> /\ Head(cmds).kind = "remove"
    /\ LET s == registry[Head(cmds).name]
       IN  /\ s # NoSource
           /\ stop' = [stop EXCEPT ![s] = TRUE]
           /\ joining' = s
    /\ phase' = "joining"
    /\ cmds' = Tail(cmds)
    /\ ForgetInterrupt
    /\ UNCHANGED <<result, registry, boot, fatals, pc, abort, breaker, series>>

\* retire_source up to its await: the name is freed, the stop is sent, and
\* from here the whole loop waits for this one task.
TakeRemove ==
    /\ phase = "select" /\ cmds # <<>> /\ Head(cmds).kind = "remove"
    /\ LET n == Head(cmds).name
           s == registry[n]
       IN  /\ s # NoSource
           /\ registry' = [registry EXCEPT ![n] = NoSource]
           /\ stop' = [stop EXCEPT ![s] = TRUE]
           /\ joining' = s
    /\ phase' = "joining"
    /\ cmds' = Tail(cmds)
    /\ ForgetInterrupt
    /\ UNCHANGED <<result, boot, fatals, pc, abort, breaker, series>>

\* The join succeeded within the timeout, or the task was over before.
JoinDone ==
    /\ phase = "joining" /\ pc[joining] \in Finished
    /\ phase' = "select"
    /\ joining' = NoSource
    /\ UNCHANGED <<result, registry, boot, cmds, fatals, sigint, taskVars>>

\* Mutant of Stuck: retire_source joins without a timeout.
Stuck_Never(s) == FALSE

\* What keeps a task from seeing its stop for RetireTimeout seconds: a probe
\* or a collect that takes long, a backoff sleep longer than that, a fatal
\* send into a full channel.  A task parked in its select! sees it at once.
Stuck(s) ==
    \/ pc[s] \in {"probing", "collecting"}
    \/ pc[s] = "backoff" /\ Backoff(breaker[s]) > RetireTimeout
    \/ pc[s] \in Sending /\ Len(fatals) = FatalCapacity

\* Mutant of RetireTimedOut: the handle is dropped and the task left running.
RetireTimedOut_Leaves ==
    /\ phase = "joining" /\ Stuck(joining)
    /\ phase' = "select"
    /\ joining' = NoSource
    /\ UNCHANGED <<result, registry, boot, cmds, fatals, sigint, taskVars>>

\* The timeout elapsed: abort() is requested and nobody waits for its effect.
RetireTimedOut ==
    /\ phase = "joining" /\ Stuck(joining)
    /\ phase' = "select"
    /\ joining' = NoSource
    /\ abort' = [abort EXCEPT ![joining] = TRUE]
    /\ UNCHANGED <<result, registry, boot, cmds, fatals, sigint,
                   pc, stop, breaker, series>>

\* Out of the loop: every registered task is aborted, the supervisor's own
\* sink and fatal sender are dropped.  The handles go too, and with them the
\* stop senders: a task still being polled takes that for a stop.
BeginShutdown ==
    /\ phase' = "flushing"
    /\ abort' = [s \in Sources |-> abort[s] \/ registry[NameOf[s]] = s]
    /\ stop' = [s \in Sources |-> stop[s] \/ registry[NameOf[s]] = s]
    /\ registry' = [n \in Names |-> NoSource]

\* fatal_rx.recv().  It never yields None: the loop itself holds a sender.
TakeFatal ==
    /\ phase = "select" /\ fatals # <<>>
    /\ result' = "fatal"
    /\ fatals' = Tail(fatals)
    /\ ForgetInterrupt
    /\ BeginShutdown
    /\ UNCHANGED <<joining, boot, cmds, pc, breaker, series>>

TakeInterrupt ==
    /\ phase = "select" /\ sigint = "raised"
    /\ result' = "ok"
    /\ sigint' = "taken"
    /\ BeginShutdown
    /\ UNCHANGED <<joining, boot, cmds, fatals, pc, breaker, series>>

\* The drain saw its channel close, that is every task dropped its sink, and
\* ended; the exporter is shut down and run() returns.
DrainClosed ==
    /\ phase = "flushing" /\ \A s \in Sources : ~Alive(s)
    /\ phase' = "exited"
    /\ UNCHANGED <<result, registry, joining, boot, cmds, fatals, sigint, taskVars>>

\* Five seconds were not enough: some task still holds a sink, or the last
\* export is still under way.
FlushTimedOut ==
    /\ phase = "flushing"
    /\ phase' = "exited"
    /\ UNCHANGED <<result, registry, joining, boot, cmds, fatals, sigint, taskVars>>

\* run() has returned; the process ends with it.
Exited == phase = "exited" /\ UNCHANGED vars

-----------------------------------------------------------------------------
(* supervise_source.  The tasks run while the process does. *)

\* A step of task s from one of the states `from` to `to`.
Moves(s, from, to) ==
    /\ phase # "exited"
    /\ pc[s] \in from
    /\ pc' = [pc EXCEPT ![s] = to]

\* Mutant of PanicState: the criticality is not looked at.
PanicState_Always(s) == "dying"

\* A panic outside collect: the catch_unwind around the whole task sends a
\* fatal for a Critical source and ends the task of any other.
PanicState(s) == IF s \in Critical THEN "dying" ELSE "dead"

ProbeReady(s) ==
    /\ Moves(s, {"probing"}, "waiting")
    /\ UNCHANGED <<superVars, stop, abort, breaker, series>>

ProbeUnavailable(s) ==
    /\ Moves(s, {"probing"}, "waiting")
    /\ breaker' = [breaker EXCEPT ![s] = TripOpen(@)]
    /\ UNCHANGED <<superVars, stop, abort, series>>

\* Mutant of ProbeNotApplicable: the boot rule for every source (no DEC-22).
ProbeNotApplicable_Drops(s) ==
    /\ Moves(s, {"probing"}, "disabled")
    /\ UNCHANGED <<superVars, stop, abort, breaker, series>>

\* NotApplicable is Unavailable for a discovered source, the end for another.
ProbeNotApplicable(s) ==
    /\ \/ /\ Discovered(s)
          /\ Moves(s, {"probing"}, "waiting")
          /\ breaker' = [breaker EXCEPT ![s] = TripOpen(@)]
       \/ /\ ~Discovered(s)
          /\ Moves(s, {"probing"}, "disabled")
          /\ UNCHANGED breaker
    /\ UNCHANGED <<superVars, stop, abort, series>>

\* The fatal is sent whatever the criticality; that an Optional source never
\* probes Fatal is the trait's comment (ports.rs:37) and nobody's check.
ProbeFatal(s) ==
    /\ Moves(s, {"probing"}, "unfit")
    /\ UNCHANGED <<superVars, stop, abort, breaker, series>>

ProbePanics(s) ==
    /\ Moves(s, {"probing"}, PanicState(s))
    /\ UNCHANGED <<superVars, stop, abort, breaker, series>>

\* The tick branch of the task's select!; an open breaker sleeps first.
Tick(s) ==
    /\ Moves(s, {"waiting"}, IF IsOpen(breaker[s]) THEN "backoff" ELSE "collecting")
    /\ UNCHANGED <<superVars, stop, abort, breaker, series>>

\* The backoff sleep is over; no stop wakes it earlier, and an aborted task
\* is dropped where it sleeps.
WakeUp(s) ==
    /\ ~abort[s]
    /\ Moves(s, {"backoff"}, "collecting")
    /\ UNCHANGED <<superVars, stop, abort, breaker, series>>

\* Mutant of TakeStop: the task returns without calling retire.
TakeStop_Silent(s) ==
    /\ stop[s]
    /\ Moves(s, {"waiting"}, "retired")
    /\ UNCHANGED <<superVars, stop, abort, breaker, series>>

\* The stop branch: the source emits its terminal signal and the task ends.
TakeStop(s) ==
    /\ stop[s]
    /\ Moves(s, {"waiting"}, "retired")
    /\ series' = [series EXCEPT ![NameOf[s]] = "terminal"]
    /\ UNCHANGED <<superVars, stop, abort, breaker>>

RetirePanics(s) ==
    /\ stop[s]
    /\ Moves(s, {"waiting"}, PanicState(s))
    /\ UNCHANGED <<superVars, stop, abort, breaker, series>>

CollectOk(s) ==
    /\ Moves(s, {"collecting"}, "waiting")
    /\ breaker' = [breaker EXCEPT ![s] = RecordSuccess(@)]
    /\ series' = [series EXCEPT ![NameOf[s]] = "live"]
    /\ UNCHANGED <<superVars, stop, abort>>

\* Err or a contained panic, before or after something was emitted.
CollectFails(s) ==
    LET b == RecordFailure(breaker[s])
    IN  /\ Moves(s, {"collecting"},
                 IF ClassifyFailure(s \in Critical, b) = "Fatal"
                 THEN "escalating" ELSE "waiting")
        /\ breaker' = [breaker EXCEPT ![s] = b]
        /\ series' \in {series, [series EXCEPT ![NameOf[s]] = "live"]}
        /\ UNCHANGED <<superVars, stop, abort>>

\* fatal_tx.send has room.  After handle_failure the loop goes on; after a
\* fatal probe or a panic the task is over.
SendFatal(s) ==
    /\ Len(fatals) < FatalCapacity
    /\ Moves(s, Sending, IF pc[s] = "escalating" THEN "waiting" ELSE "dead")
    /\ fatals' = Append(fatals, [source |-> s, reason |-> pc[s]])
    /\ UNCHANGED <<phase, result, registry, joining, boot, cmds, sigint,
                   stop, abort, breaker, series>>

\* An abort takes effect when the task next yields, and a poll under way may
\* take several of the steps above before it does.
Cancel(s) ==
    /\ abort[s]
    /\ Moves(s, Running, "cancelled")
    /\ UNCHANGED <<superVars, stop, abort, breaker, series>>

-----------------------------------------------------------------------------
Environment == (\E s \in Sources : SendAdd(s)) \/ (\E n \in Names : SendRemove(n))
               \/ Interrupt

Supervise == \/ \E s \in Sources : SpawnBoot(s)
             \/ EnterLoop \/ TakeAdd \/ TakeIdleRemove \/ TakeRemove
             \/ JoinDone \/ RetireTimedOut \/ TakeFatal \/ TakeInterrupt
             \/ DrainClosed \/ FlushTimedOut \/ Exited

Task(s) == \/ ProbeReady(s) \/ ProbeUnavailable(s) \/ ProbeNotApplicable(s)
           \/ ProbeFatal(s) \/ ProbePanics(s) \/ Tick(s) \/ WakeUp(s)
           \/ TakeStop(s) \/ RetirePanics(s) \/ CollectOk(s) \/ CollectFails(s)
           \/ SendFatal(s) \/ Cancel(s)

Next == Environment \/ Supervise \/ \E s \in Sources : Task(s)

Spec == Init /\ [][Next]_vars

(***************************************************************************)
(* Fairness.  The supervisor does not rest at an await that is over (WF on *)
(* Progress, its steps outside select!).  Its select! starts at a random   *)
(* branch, so a branch that stays ready is taken in the end (SF) however   *)
(* many commands compete with it; the same holds for the stop branch of a  *)
(* task's select!.  Bounded channels serve their senders in order (SF on   *)
(* SendFatal).  Timers elapse, and an aborted task yields (WF).  Nothing   *)
(* is assumed of probes and collects, which may hang, of the command       *)
(* senders or of the user.                                                 *)
(***************************************************************************)
Progress == \/ EnterLoop \/ \E s \in Sources : SpawnBoot(s)
            \/ JoinDone \/ RetireTimedOut \/ FlushTimedOut

TakeCommand == TakeAdd \/ TakeIdleRemove \/ TakeRemove

Fairness ==
    /\ WF_vars(Progress)
    /\ SF_vars(TakeFatal) /\ SF_vars(TakeInterrupt) /\ SF_vars(TakeCommand)
    /\ \A s \in Sources : /\ WF_vars(WakeUp(s) \/ Cancel(s))
                           /\ SF_vars(SendFatal(s)) /\ SF_vars(TakeStop(s))

FairSpec == Spec /\ Fairness

-----------------------------------------------------------------------------
(* Properties *)

\* The shape of the state, with the bounds of the two channels.
TypeOK ==
    /\ phase \in Phases
    /\ result \in {"none", "ok", "fatal"}
    /\ registry \in [Names -> Sources \cup {NoSource}]
    /\ joining \in Sources \cup {NoSource}
    /\ boot \subseteq BootSources
    /\ cmds \in Seq(Commands) /\ Len(cmds) <= CmdCapacity
    /\ fatals \in Seq(FatalSignals) /\ Len(fatals) <= FatalCapacity
    /\ sigint \in {"none", "raised", "unheard", "taken"}
    /\ pc \in [Sources -> Running \cup Finished \cup Unspawned]
    /\ stop \in [Sources -> BOOLEAN]
    /\ abort \in [Sources -> BOOLEAN]
    /\ breaker \in [Sources -> Breaker]
    /\ series \in [Names -> {"absent", "live", "terminal"}]

\* Two tasks of one name run at once only if one of them was aborted: the
\* duplicate check of spawn_source, the removal from the registry before the
\* await and the await itself together keep a second writer off the series
\* (lib.rs:258-264).
OneWatcherPerName ==
    \A s, t \in Sources :
        s # t /\ NameOf[s] = NameOf[t] /\ Alive(s) /\ Alive(t) => abort[s] \/ abort[t]

\* What the registry lists is watched: its task was not told to stop, and it
\* runs unless it panicked, probed fatal, or is a boot source that does not
\* apply to this host.  A discovered source is never lost to NotApplicable
\* (lib.rs:343-352).
RegisteredIsWatched ==
    \A n \in Names : registry[n] # NoSource =>
        LET s == registry[n]
        IN  /\ NameOf[s] = n /\ ~stop[s] /\ ~abort[s]
            /\ \/ pc[s] \in Running \cup {"dead"}
               \/ pc[s] = "disabled" /\ ~Discovered(s)

\* A name nobody watches any more shows a live value only if a task of that
\* name is being joined, was aborted, or panicked: a retirement that ran to
\* its end leaves the terminal value and nothing after it (lib.rs:295-304).
QuietNameWasCut ==
    \A n \in Names :
        phase \in {"select", "joining"} /\ registry[n] = NoSource /\ series[n] = "live"
        => \E s \in Sources :
              /\ NameOf[s] = n
              /\ s = joining \/ abort[s] \/ pc[s] \in {"dying", "dead"}

\* An Optional source can fail and panic as it likes without ending the
\* process, and a Critical one escalates only with its threshold reached, the
\* tasks' fatals being sent long after they were decided (FR-RES-05, NFR-03).
\* A fatal probe is the exception the code makes: lib.rs:368-376 sends it for
\* any source.
OnlyCriticalIsFatal ==
    /\ \A i \in 1..Len(fatals) :
         fatals[i].reason # "unfit" => fatals[i].source \in Critical
    /\ \A s \in Sources :
         /\ pc[s] \in {"escalating", "dying"} => s \in Critical
         /\ pc[s] = "escalating" => breaker[s].failures >= CritThreshold

\* When the loop is over every task that still runs has its abort pending, so
\* that all sink handles go and the drain can see its channel close
\* (lib.rs:226-233): no handle was dropped without an abort before.
ShutdownAbortsAll ==
    phase = "flushing" => \A s \in Sources : Alive(s) => abort[s]

\* A task told to stop is over in the end, hung collect or not.
RetirementCompletes ==
    \A s \in Sources : stop[s] ~> (pc[s] \in Finished \/ phase = "exited")

\* A supervisor that waits for a retirement returns to its loop.
LoopResumes == phase = "joining" ~> phase # "joining"

\* A Critical source that crossed the threshold or panicked, and any source
\* that probed fatal, ends the process if it is not being removed, whatever
\* the commands and the retirements under way and however full the fatal
\* channel (FR-RES-05, lib.rs:368-376).
FatalEndsTheProcess ==
    \A s \in Sources : (pc[s] \in Sending /\ ~stop[s]) ~> phase = "exited"

\* What its commands do, seen from the other end of the channel: they change
\* the registered names one at a time and in order, whatever the tasks, the
\* retirements under way and the fatals do (lib.rs:104-118).
Service == IF phase \in {"select", "joining"} THEN "serving"
           ELSE IF phase = "exited" THEN "closed" ELSE phase
Named(c) == [kind |-> c.kind, name |-> IF c.kind = "add" THEN NameOf[c.source] ELSE c.name]

Queue      == IF phase = "exited" THEN <<>> ELSE [i \in 1..Len(cmds) |-> Named(cmds[i])]
Registered == {n \in Names : registry[n] # NoSource}

Promise == INSTANCE Registry WITH
    cmds <- Queue, registered <- Registered, service <- Service

ImplementsRegistry == Promise!Spec

-----------------------------------------------------------------------------
(* The inductive invariant behind the safety properties, in named parts. *)

\* A registered source was spawned under its own name and nobody has told its
\* task to stop.
HandlesAreWhole ==
    \A n \in Names : registry[n] # NoSource =>
        /\ NameOf[registry[n]] = n
        /\ ~stop[registry[n]] /\ ~abort[registry[n]]
        /\ pc[registry[n]] \in Running \cup {"disabled", "dead"}
        /\ pc[registry[n]] = "disabled" => ~Discovered(registry[n])

\* retire_source waits for a task that left the registry, was told to stop and
\* is not aborted yet; nothing takes its name meanwhile.
JoinedIsUnregistered ==
    /\ phase = "joining" <=> joining # NoSource
    /\ joining # NoSource =>
         /\ registry[NameOf[joining]] = NoSource
         /\ pc[joining] \notin Unspawned

\* Every task that runs and was not aborted is held by a handle: the
\* registry's or retire_source's.
TasksAreHeld ==
    \A s \in Sources : Alive(s) /\ ~abort[s] =>
        registry[NameOf[s]] = s \/ joining = s

\* Past the loop no handle is left.
NoHandleAfterLoop ==
    phase \in {"flushing", "exited"} => \A n \in Names : registry[n] = NoSource

\* A box is in one place, and a source without a task was neither stopped nor
\* aborted.
BoxesAreUnique ==
    /\ \A s \in boot : pc[s] = "idle"
    /\ phase # "booting" => boot = {}
    /\ \A i \in 1..Len(cmds) :
         cmds[i].kind = "add" => pc[cmds[i].source] = "offered"
    /\ \A i, j \in 1..Len(cmds) :
         i # j /\ cmds[i].kind = "add" /\ cmds[j].kind = "add"
            => cmds[i].source # cmds[j].source
    /\ \A s \in Sources : pc[s] \in Unspawned => ~stop[s] /\ ~abort[s]

\* A live series has a task past its probe behind it, or one that was cut.
LiveHasWriter ==
    \A n \in Names : series[n] = "live" =>
        \E s \in Sources :
            /\ NameOf[s] = n
            /\ \/ pc[s] \in Running \ {"probing"}
               \/ abort[s]
               \/ pc[s] \in {"dying", "dead"}

\* The inductive invariant: the registry, the join, the queued commands and
\* the tasks agree on who is watched (lib.rs:181-323).
SupervisorInv ==
    /\ TypeOK /\ HandlesAreWhole /\ JoinedIsUnregistered /\ TasksAreHeld
    /\ NoHandleAfterLoop /\ BoxesAreUnique /\ LiveHasWriter

-----------------------------------------------------------------------------
(* What the comments say, and the code does not do. *)

\* "Runs until Ctrl-C is received" (lib.rs:163).
InterruptStops == sigint \in {"raised", "unheard"} ~> phase = "exited"

\* "The source emits its own terminal signal before its task ends"
\* (lib.rs:115-116): when the supervisor is done with a removal of a task that
\* is in no call to its source and did not panic, its name is not left live.
RemovedEndsTerminal ==
    [][\A s \in Sources :
          (/\ joining = s /\ joining' # s
           /\ pc[s] \notin {"probing", "collecting", "dying", "dead"}
           /\ \A t \in Sources \ {s} : NameOf[t] = NameOf[s] => pc[t] \in Unspawned)
          => series[NameOf[s]] # "live"]_vars

=============================================================================
