# harness-sphere: a TLA+ verification project

This directory specifies the `harness-sphere` watcher (Rust, `src/crates/*` and
`src/harnesssphere`) in TLA+, model-checks the specifications with TLC and proves the
central ones with TLAPS. `PROJECT.json` lists the runs, the mutants each property
catches, the source lines behind every definition, the hazards and the theorems.

Line numbers are abbreviated: `lib.rs` is `crates/runtime/src/lib.rs`, `policy.rs` and
`ports.rs` are in `crates/domain/src`, `discovery.rs` and `main.rs` in
`harnesssphere/src`, the collectors in `crates/collectors/src`, `otlp.rs` in
`crates/export/src`.

## 1. Inventory

The process watches things (the host, containers, the workspaces of a tenant tree) and
ships what it sees to one exporter. It is async on tokio; all concurrency is tasks that
interleave between awaits, bounded channels, timers and `abort()`.

| Part | State it keeps | Operations | Talks to |
|---|---|---|---|
| **Supervisor** `lib.rs:133-323` | the registry name -> (stop sender, join handle); the ends of the command, fatal and signal channels | spawn the boot list; `select!` over fatal / Ctrl-C / command; Add (refuse a duplicate), Remove (free the name, send stop, join for 5 s, else abort); shutdown (abort all, drop its senders, wait 5 s for the drain) | discovery (commands), source tasks (stop, join, abort, fatal), drain (join) |
| **Source task** `lib.rs:325-453` | probe result, circuit breaker, the boxed source | probe; tick or stop; backoff sleep; collect behind `catch_unwind`; retire; escalate to fatal | the source behind `ports.rs`, the sink, the fatal channel |
| **Failure policies** `policy.rs` | failures, open/closed | record success/failure, trip, backoff, classify | source task |
| **Telemetry path** `lib.rs:25-48, 455-494` | bounded channel, drop counter, buffer | `emit` (try_send, drop-newest), drain: receive, flush tick, close, export | tasks (producers), exporter |
| **Discovery** `discovery.rs` | the set of known workspaces, two shared counters | scan, compare, send Add/Remove pairs, publish; `DiscoveryStats` reads the counters; aborted by `main` | tenant tree (external writer), supervisor's command channel |
| **Tenant walk** `workspace.rs` | none | `discover()`, path shapes | filesystem |
| **Session collector** `session.rs` | per-file offset, counts, cron flag | list, forget vanished, stat, resolve cron, read whole new lines, emit totals, retire | transcripts that another process appends to, rewrites, rotates |
| **Learning collector** `learning.rs` | none between collects | count skills, memory files, graph records; emit six totals and one series per skill; retire | workspace files that the agent writes |
| **Container collector** `container.rs` | none between collects | read five cgroup v2 files, one await each; emit | the kernel |
| **OTLP exporter** `otlp.rs` | one instrument per metric name, in it the last or summed value per attribute set | record, add, convert, send | collector endpoint |
| **Host / process / self / probe collectors** `host.rs`, `process.rs`, `self_watcher.rs`, `probe.rs` | none between collects | look at the machine; connect to one target after the other, two seconds each; emit | OS, TCP |
| **Configuration and `main`** `config.rs`, `main.rs` | the configuration | load, override, assemble the boot list, start, abort discovery, exit | everything |
| **Signals, layers** `signal.rs`, `LayerSink` | none | stamp the layer | between task and channel |
| **Enricher, stdout exporter** | none that evolves | plain data, output | - |

What is hard here, and what makes each part correct:

* **Names and tasks.** A tenant can vanish and come back under its old name while its old
  task is in a backoff sleep, in a hung collect, or blocked on a full fatal channel.
  Correct means: one watcher per name, no registered name without a watcher, no value left
  alive when nobody watches, no process ended by an Optional source's failure or panic (its
  fatal probe does end it, section 5), and shutdown reaches every task so that the final flush
  can happen.
* **One loop waits for one task.** The `select!` loop awaits a retirement for up to five
  seconds; meanwhile commands, fatals and Ctrl-C pile up. Correct means it always comes
  back and nothing it should have heard is lost.
* **Backpressure.** Emitting must never wait; the drain must keep order, lose whole batches
  only, and end when the last sink is dropped.
* **A tree and files that change while they are read.** Correct means discovery's `known`
  is what the registry will hold once the queue is empty and converges to the tree; and
  counts derived incrementally from a growing file equal those of a full read.
* **A file in which position decides.** TOML gives a key to the last header above it.
  Correct means that what runs is what was written, or nothing does.
* **Last-value semantics.** A gauge that is not emitted keeps its last value in the backend.
  Correct means everything that goes away is told to.

## 2. Modules

```
Policy     <- BreakerTrace <- BreakerProofs  one breaker beside its full history; theorems
Policy     <- Supervisor <- SupervisorProofs  loop, registry, tasks; theorems, among them
                                           that Supervisor implements Registry
Registry   <- Supervisor                   what senders of commands rely on
BestEffort <- Pipeline <- PipelineProofs   abstract queue; channel, drain; refinement proof
Supervisor, Pipeline <- Watcher <- WatcherProofs  both in one process; its theorems, from those
                                           of both
Registry   <- Discovery <- DiscoveryProofs scans, passes, statistics, against the abstract registry;
                                           their theorems
SessionCollector <- SessionProofs          one workspace's transcripts against a writer;
                                           its theorem
Instruments <- Container, Learning, Samplers;  Exporter;  Startup   <- Collectors
                                           the parts without lasting state
Collectors <- CollectorsProofs             theorems about Exporter and Startup
Induction  <- Watcher-, Breaker-, Session-, CollectorsProofs
                                           induction and recursion on numbers, as lemmas
MC*                                        instances for TLC
```

### Policy, BreakerTrace
`Policy` has the breaker as pure operators: saturating counter (`FailureCeiling` for
`u32::MAX`), capped shift (`Factor` is `1 << shift`), capped product. `BreakerTrace` drives one breaker by every
history of success / failure / trip up to `MaxHistory` and compares the two words it keeps
with definitions read off the whole history.

### Supervisor
A member of `Sources` is one boxed source; several may share a name (`NameOf`), which is
how a tenant that returns is expressed. State: `phase` (where `run()` is: `booting`,
`select`, `joining`, `flushing`, `exited`), `registry`, `joining` (whom `retire_source`
awaits), `cmds`, `fatals`, `sigint`; and per task `pc`, `stop` (the oneshot was used, or
dropped with the handle), `abort`, `breaker`; and `series`, the last status handed to the
sink under a name. One action is what the code does between two awaits.

* `spawn_source` = `Spawn` or `RejectDuplicate`; `retire_source` = `TakeRemove` up to its
  await, then `JoinDone` or `RetireTimedOut`. The timeout can fire only when the task really
  is `Stuck`: hung in a probe or a collect, asleep longer than the timeout, or sending into a
  full fatal channel.
* `abort()` is a request: `Cancel` ends the task at a later moment, and it may take steps
  before it does, as tokio allows for a task being polled. Only a task asleep is dropped
  where it sleeps.
* `supervise_source` = the `Probe*`, `Tick`, `WakeUp`, `CollectOk`, `CollectFails`,
  `SendFatal`, `TakeStop`, `RetirePanics` actions. A source is any outcome of its probe and
  collect, including a hang (no step) and a panic. A probe may be fatal whatever the
  criticality, as in the code; the states of a pending `fatal_tx.send` are
  `escalating` (from `handle_failure`, back to the loop), `dying` (a panic outside collect) and
  `unfit` (a fatal probe), and a queued fatal keeps its source and, as its reason, which of the
  three sent it.
* Ctrl-C: the loop has a `ctrl_c()` future only while it is parked in `select!`, and drops it
  whenever another branch wins; `sigint` records whether the last one was heard.
* Two branches cannot be reached and are not modelled: `None` from the command channel and
  from the fatal channel, since the supervisor holds a sender of each itself (`lib.rs:137`,
  `lib.rs:190-193`).

### BestEffort, Pipeline
`BestEffort` is the promise: one FIFO that may refuse only when it is backed up and hands
over prefixes that succeed or fail as a whole. `Pipeline` is the code: `Emit` is
`ChannelSink::emit`, `DropSinks` clones that go away, `Receive` / `FlushTick` /
`ChannelClosed` are the branches of `drain_loop`, `StartExport` .. `ExportOk | ExportFails`
is `export_batch` around its await. The refinement mapping is
`pending <- batch \o buf \o chan`, `refused <- dropped`.

### Discovery
`Tick`, `Visit`, `Misses`, `Compare` are a scan (each directory is read at its own moment; a
failed `read_dir` is an empty directory); `AddFirst`, `RemoveFirst`, `SendSecond` the sends of
a pass, each of which waits while the channel is full; `StoreWorkspaces` and `PassDone`
publish, in two steps, because `LoadWorkspaces` and `LoadScans` (`DiscoveryStats`, a source on
another thread) may come in between. The supervisor is `Registry`, from its boot to the closing of its channel (`Open`, `Serve`,
`End`, `Close`); `main`'s abort is `Abort`.

### Registry
The promise between the two: names, changed by commands one at a time in the order they were
sent. `Supervisor!ImplementsRegistry` says that the supervisor keeps it (`Register`: a boot
source is spawned; `Serve`: a command is taken, whatever the retirement does afterwards; `End`:
the loop is left; `Close`: `run()` returns), and Discovery is checked against it. So the loop,
the tasks and discovery need not be run in one model.

### Watcher
`Supervisor::run` whole. A collect that emits, and `retire()`, put their signal into Pipeline's
channel in the same step (`CollectEmits`, `Retires`); a task's clone of the sink goes when its
future does (`TaskDropsSink`), later than `abort()`; `run()` drops its own clone and waits for
the drain (`RunDropsSink`, `DrainJoined`, `DrainLate`). Supervisor by itself returns when every
task is over; here `run()` returns when the drain is done, and `ImplementsSupervisor` shows that
it comes to the same.

### SessionCollector
A transcript is a sequence of records with a width in bytes, the positions inside them that
split a character, and possibly the first bytes of the next record. The external writer
(`MakeDir`, `WriteMeta`, `Create`, `AppendPart`, `AppendLine`, `Rewrite`, `Rotate`) moves
between any two reads of a collect (`List`, `Stat`, `ReadMeta`, `Read`, `Emit`). `read_new`
uses the length of the stat and the bytes of the read, restarts from zero when the file is
shorter than its offset, gives up when the bytes are not text, and consumes whole lines
only. `Ends` is where the lines of a transcript end, `Counts` what its first lines add to a
state, for every number of them. `series` is what the backend shows: an unemitted gauge keeps its value. `Restart` is a
restart of the watcher, at any point of a collect.

### Instruments, Container, Learning, Samplers
`Instruments` is what the OTLP exporter shows for each series: a gauge (and an
`UpDownCounter`, which it turns into one) is set, a counter is added to, and a series that
gets no point keeps its value. A point is recorded or, like any signal, dropped. `Container`
reads its five files one action each (`ReadFile`) while the kernel's numbers change and the
container stops and starts (`Allocate`, `SetLimit`, `Consume`, `StartOrStop`). `Learning`
counts (`CountSkills`, `CountMemory`, `CountGraph` for one graph each) while the agent writes
(`ChangeSkill`, `ChangeMemory`, `AppendGraph`, `DeleteGraph`), then emits; a graph may end
inside a record or inside a character. Where an entry lies decides whether it counts
(`InWorkspace`, `InGraphDir`: the location rules of `workspace.rs`). `Samplers` has the four
collectors that look at the machine: `SampleHost`, `SampleProcesses`, `SampleSelf`, and the
endpoint probe as `Connect` and `Report`, one target at a time.

### Exporter
`OtlpExporter::export` with one batch: `Record` the metrics, then one request for each kind of
record (`Skip`, `SendOk`, `SendFails`). `Picks` puts the records of a kind aside in order,
`Requests` builds the request of them one record at a time (`Grouped`): by service, with the host that was
named first. An answer that is lost is an error although the request arrived.

### Startup
The configuration is lines (`TargetHeader`, `OptionLine`, `LayerLine`, ..) in an order its author
chooses, and a target is the keys its table has and its layer; `Load` is `Config::load` with the environment's override, `Mandatory`, `Optional` and
`Output` are `main` with its early exits, `EmitOne` is a signal of a boot source through
`LayerSink`. `meant` remembers what the author wrote.

### Collectors
Container, Learning, the two kinds of Samplers, Exporter and Startup share no state, so a
behaviour of Collectors is about one of them (`subject`) and the run checks all. They keep
nothing, so a restart of the process is only another start and has no action.

## 3. Runs

| Run | Shows | Bounds, and why they are enough |
|---|---|---|
| `breaker` | counter = failures since the last success; backoff = repeated doubling; fatal from the threshold on | counter ceiling, shift cap and backoff cap are all reached inside the histories |
| `supervisor` | the inductive invariant, one watcher per name, quiet names were cut, registered is watched, only a fatal probe is fatal for an Optional source, shutdown aborts all; refinement of `Registry` | a Critical boot source and a discovered Optional one of the same name: retire, time out, abort and re-add under one name; queue of 2, fatal channel of 1, so both fill up; threshold 2, backoffs on both sides of the timeout. The theorems lift these to every instance |
| `supervisor_fair` | retirements end, the loop resumes, a fatal ends the process | an Optional boot source, whose only fatal is its probe's, a Critical one that is added and removed under another name, and a fatal channel of one, so that a retired task can itself be blocked by the channel that only the waiting loop empties |
| `interrupt`, `removed` | violations, section 5 | smallest instance that has them; for `removed` backoffs of 1, 2 and 4 beside a timeout of 1, so that a second failure makes the sleep the longer of the two |
| `pipeline` | refinement of `BestEffort`; bounded batches, order, at-most-once, empty at the end, every signal leaves, the drain ends | two holders, three signals each, capacity 2, batch 2: overflow, full and partial batches, closing with a rest |
| `watcher` | a retired source is shown gone unless it was cut or its terminal signal lost; run() is a Supervisor; retirement needs no backend; the last flush needs no timeout | one tenant, added and removed, with four signals, its terminal one included; channel and batch of 2 behind an exporter that may fail or never answer, so that the terminal signal is refused, lost in a batch, or delivered; queue of 1 |
| `discovery` | `known` mirrors the registry through the queue; every command is apt; registry and published gauge become the tree; the scan count goes on; end with the supervisor | two workspaces, any initial tree, two changes of it, one failed read, queue of 2 against up to four commands per pass, a supervisor at any point of its life |
| `session` | the resumed state is a prefix count; memory and re-read agree; a rewritten file is caught up with; totals catch up | a chat of up to two records and a cron run of one, with a two-byte character, one transcript replaced, one restart, `.meta.json` first |
| `collectors` | once kernel, agent, machine and network rest the gauges show their numbers for good; a request says what the batch does; the answer of an export tells what arrived; what runs is what the configuration says | three changes at any moments of the collects (a total that grew and a container that starts anew; two skills of one name in a workspace and one in a backup; a graph with half a character; a silent target before another), one dropped point; batches of up to three records of one service or none and two hosts, so that groups interleave; two targets, two options, either side of them |
| `container`, `session_retired` | violations, section 5 | smallest instance that has them |

Every property of a passing run has a mutant in `PROJECT.json` (an operator such as
`RetireTimedOut_Leaves` beside the action it replaces) under which TLC finds it violated.

Assumptions of single properties:

* `ResumedIsAPrefix` and `RestartAgrees` speak of the transcripts that were not replaced: one
  rewritten and no shorter than the offset is taken for an append. `RestartAgrees` and
  `TotalsCatchUp` assume that `.meta.json` is written first (`MetaFirst`).
* `TotalsCatchUp` and `TailIsReached` speak of a writer at rest that did not leave half a
  character at the end: `read_to_string` then fails and nothing new is counted.
  `TailIsReached` also excepts an offset that, after a rewrite, stands inside a character of
  the new content: from there the file is never read again until it shrinks.
* `ContainerCatchesUp` leaves out a limit that was lifted and a container that is gone,
  `AgentCatchesUp` a graph that ends inside a character, which counts as empty, and the series of
  skills that are gone, `SamplesCatchUp` a process that ended and a swap that was switched off:
  nothing is emitted for any of them any more.
* `RunsAsWritten` leaves out an option below a header that is not the program's own, and one
  whose name is misspelt: `Config` itself accepts unknown keys and both are lost silently.
* `FlushNeedsNoTimeout` assumes an exporter that answers; `RetirementNeedsNoBackend` does not.
  Neither assumes that the five seconds elapse.
* `RetiredIsShownGone` excepts a task that was aborted or died, and a terminal signal that was
  itself refused or in a failed batch. It speaks of the running loop: a shutdown retires nobody.
* Sizes are scaled: 4096/512/64/4 slots and 60 s become one to three. `ScanWrap` stands
  for the wrap of a 64-bit counter.

### Fairness
Nothing is assumed of probes, collects, command senders, the tree, the transcript writer or
the user.

* Supervisor: weak fairness of its steps outside `select!` and of timers; strong fairness of
  each `select!` branch, because tokio polls the branches from a random start; strong
  fairness of a pending send, because tokio's bounded channels are FIFO among senders.
* Pipeline: the exporter answers (both exporters bound their I/O with a timeout), the
  flush interval is served in the end (SF: the channel competes with it).
* Discovery: interval, walk and sends go on; the supervisor returns to its queue, which is
  `LoopResumes` of Supervisor; the abort takes effect at an await the task keeps passing (SF).
* Watcher: as in Supervisor and Pipeline, except that the exporter need not answer and that
  the five seconds of the last flush need not elapse; a future that is over is dropped.
* SessionCollector: ticks keep coming and reads return (WF of the collect's steps). The same
  for the tasks of Collectors and for `DiscoveryStats`: the connects are bounded by two seconds,
  and the own process is found now and then.

## 4. Proofs

`SupervisorProofs` proves, for any sets of sources and names, any capacities, thresholds and
timeouts within `SourceAssumption`, `ChannelAssumption` and `PolicyAssumption`:

* `TypeCorrect`: `Spec => []TypeOK`, including the bounds of both channels.
* `InvariantHolds`: `Spec => []SupervisorInv`. None of the safety properties is inductive by
  itself: that two tasks of a name do not run needs that every unaborted running task is *held*
  (by the registry or by the join, `TasksAreHeld`), which needs that the joined name is out of
  the registry (`JoinedIsUnregistered`), that a queued box is in one place and has no task
  (`BoxesAreUnique`), and that past the loop there are no handles (`NoHandleAfterLoop`).
  `LiveHasWriter` ties the last value of a name to a task that runs or was cut.
  The proof goes action by action; task steps share `TaskEffect`, which says what any step
  of a task may change.
* `OneWatcher`, `Watched`, `QuietName`, `ShutdownReachesAll` follow from the invariant;
  `CriticalOnly` is inductive with the type invariant. It says that what an Optional source's
  failures and panics do never reaches the fatal channel and that nobody escalates below the
  threshold, and it excepts the fatal probe, as the code does.

* `RegistryImplemented`: `Spec => ImplementsRegistry`, from the same invariant. The queue is
  mapped to the names its commands carry, the registry to its keys. `TakeRemove` and the
  shutdown are the steps where the mapping changes; a retirement, a death and a rejected
  duplicate leave it alone, because a name stays registered until it is removed.

`PipelineProofs` proves, for any holders, capacity and batch size, `PipelineCorrect`
(`PipelineInv`), `PipelineTypes`, `BoundedBatches`, `FinalFlush` and `Implementation`:
`Spec => ImplementsBestEffort`. Receiving and starting an export leave
`batch \o buf \o chan` as it is (`BatchingIsInvisible`), an emit is `Accept` or `Refuse`, the
end of an export is `HandOver(Len(batch))`. `OrderKept` is `Spec => []InOrderOnce`. It is proved
on the level of the abstract queue: what is delivered, failed and pending is in order and apart
(`OneByOne`), and, which makes it inductive, nothing carries a number its source has not reached
(`Numbered`), so that the next signal is later than all others of its source.

`DiscoveryProofs` proves, for any finite set of workspaces and any capacity within
`DiscoveryAssumption`, `DiscoveryTypes`, `KnownIsRegistered` (`Spec => []KnownMirrorsRegistry`)
and `AptCommands` (`Spec => []CommandsAreApt`). Alone neither of the last two is inductive: that
every command is apt when it is served needs that all queued commands of a name alternate,
beginning with the opposite of what the registry says (`QueueIsApt`), and a pass sends the right
ones because `known` mirrors the registry as the queue will leave it and because what the pass
still has to send is what two scans differ in (`PassFits`). Sending changes the last queued
command of one name (`SendSettles`), serving of none (`ServeSettles`).

`WatcherProofs` proves about the whole process, for any sources, capacities and batch size:

* `ContainsPipeline` and `ContainsSupervisor`: every step of Watcher is a step or a stutter of
  Pipeline, with the sources and `run()` as its holders, and of Supervisor. So what is proved of
  the two holds of them together.
* `WatcherCorrect`: `WatcherSpec => []OrderedInv`, which has the invariants of both and what ties
  them: who still holds a clone of the sink (`SinksAreHeld`), that a terminal signal is the last
  of its source and exactly the retired have one (`TerminalsAreLast`), that who has not
  collected has not emitted and only an abort cancels (`EndsAreTold`).
* `RunIsASupervisor`: `WatcherSpec => ImplementsSupervisor`. The step to show is the return of
  `run()` when the drain is done: the drain ends when the last clone is gone (`SinksAreHeld`), so
  no task runs any more, which is what Supervisor asks of `DrainClosed`.
* `RetiredGone`: `WatcherSpec => []RetiredIsShownGone`. What the backend shows of a name comes
  from the last signal of its last source that arrived; order (`InOrderOnce`) and
  `TerminalsAreLast` make that one the terminal signal, if it was not lost.

`BreakerProofs` proves `Counts`, `FatalAtThreshold` and `Doubles`: the three properties of
BreakerTrace for every threshold, width of the counter, pair of durations and length of the
history, `MaxHistory` being any number. The failures since the last success are a set of
positions whose cardinality the counter has (`StreakInv`); `CapsAssumption` says that the
largest shift and the largest counter reach the maximum, as one second, 2^15 and 60 s do, and
without it the capped backoff would stay below the doubled one.

`CollectorsProofs` proves `AsWritten` (`Spec => []RunsAsWritten`) for any number of lines,
targets and options: before `Load` only a stray line separates the root from what was meant
(`FileAsRead`), which `Accepted` refuses, and from there the lists grow from the file
(`ListsAsBuilt`, `LayerAsFiled`). `BatchKept` and `AnswersTell` are the two properties of
Exporter for batches of any length. What the loop over the records has built after `i` of them
says of each service the first `i` records of it and the first host among them
(`SaysTheFirst`), and what has arrived is the request as built, up to the stage and not beyond
(`ExporterInv`).

`SessionProofs` proves `Resumed` (`Spec => []ResumedIsAPrefix`) for any transcripts, widths,
rewrites and restarts. The lemmas say what a resumed read comes to: the offset after `n` lines is
where the `n`-th ends (`CountsOffset`), the lines behind that offset are those after the `n`-th
(`NewLinesAre`), and counting them on top gives the count of all (`CountsResume`). A writer that
appends leaves the counts of the first lines as they were (`CountsAgree`). The property is
inductive once it is known that what has an entry was there before (`OnceThere`): a path that
comes back is then one whose transcript was replaced.

`Induction` has what these proofs need of the natural numbers: a set that has 0 and with each
number the next has them all, and a recursion over `0..N` defines a function. They are derived
from the least element of a set of naturals; the induction theorems of the library take an
operator as a parameter and cannot be used here.

Before it was proved, each inductive invariant was checked by TLC on the instance of its run.

Only model-checked: everything under fairness (`RetirementCompletes`, `LoopResumes`,
`FatalEndsTheProcess`, `SignalsLeave`, `DrainEnds`, `RetirementNeedsNoBackend`,
`FlushNeedsNoTimeout`, `Converges`, `StopsWithSupervisor`, `ScansGoOn`, `TailIsReached`,
`RestartAgrees`, `TotalsCatchUp` and the three `..CatchUp` of Collectors), which is beyond the
prover. Every invariant and every refinement that a passing run checks is a theorem.

## 5. Where code and comments disagree

* **A Ctrl-C can be lost** (`interrupt`). `lib.rs:163` says `run()` runs until Ctrl-C. The
  future that hears it is made anew in each iteration and there is none while a retirement is
  awaited. tokio keeps the handler installed, so the signal does not kill the process either.
* **A removed source may stay live** (`removed`). `lib.rs:115-116` says a source emits its own
  terminal signal before its task ends. The backoff sleep (`lib.rs:397`) does not look at the
  stop and is up to 60 s against a timeout of 5 s; a workspace whose files are gone is one that
  fails. The property speaks of removals that end while the task is in no call to its source
  (a hung collect is what the timeout is for) and without a panic. In TLC's trace two collects
  fail, the second after it emitted a value, the next tick begins a sleep of 2 against a timeout
  of 1, and the timeout elapses in that sleep: the task is aborted there, without `retire()`.
* **Absolute totals are added up** (`container`). `README.md:155-157` explains that an absolute
  value pushed through `add()` double-counts every tick. `container.rs:155,164,173,185,192` send
  the kernel's totals as `Counter`, and `otlp.rs:405` adds them. The counter grows although
  nothing happens.
* **A retired workspace keeps its messages series** (`session_retired`): `retire()` zeroes
  three of four (`session.rs:274` says it goes absent). A role whose last transcript is rotated
  away keeps its number as well, although `session.rs:196-198` says that dropping the state makes
  the number fall: a role without messages has no entry and is not emitted.

Seen and not stated as a run: `ports.rs:37` says that only a Critical source may probe Fatal, and
`lib.rs:368-376` ends the process for any that does; today only `host.rs:41` and
`self_watcher.rs:46` do, and both are Critical, so `ProbeFatal` has no guard on the criticality
and `OnlyCriticalIsFatal` names the exception. After a retirement that timed out the name is free while the
abort is pending, so a second writer may exist for a moment, which is why `OneWatcherPerName`
excepts aborted tasks; a transcript seen before its
`.meta.json` stays a chat until a restart (`session.rs:206`; `RestartAgrees` fails with
`MetaFirst = FALSE`); a skill that is gone, also at `retire()`, keeps its series at 1
(`learning.rs:198,213`); and the drop counter of `lib.rs:36` has no reader.

## 6. Not modelled

* The enricher, which has no caller, and the constructors of signals: plain data.
* The conversion of attributes to OTLP field by field, the SDK's histogram aggregation, and its
  periodic export with shutdown: library code behind `Record`. No source emits spans, logs or
  histograms at this commit, so that the drain only ever sees batches of metrics, which are
  always Ok; Exporter has the other kinds as `export()` takes them.
* Options of the configuration that only set a number, a label or an address.
* The way from the environment to a path: prefixes of tenant and subscription directories, which
  are names of workspaces here; a session directory is one directory in SessionCollector.
* The deployment files.

## 7. Plan

Done: the modules of section 2 with their runs, and a theorem for every invariant and refinement
that a run checks. Next, what the liveness properties rest on and can be proved without fairness:

1. **SessionCollector**: the totals that `Emit` sends are those of the files listed, and after a
   `Read` the offset is at the last line that the collector could see.
2. **Container, Learning, Samplers**: once what is watched rests, a collect that begins after that
   emits its numbers.
