----------------------------- MODULE Container ------------------------------
(***************************************************************************)
(* The container collector (crates/collectors/src/container.rs): it reads  *)
(* the cgroup v2 files of one container, one await after another, while    *)
(* the kernel goes on counting and the container may stop and start, and   *)
(* emits what it read.                                                     *)
(***************************************************************************)
EXTENDS Instruments, Sequences

CONSTANTS
    TotalFiles,     \* of memory.events, cpu.stat and io.stat, those that exist
    MaxUsage        \* bound: bytes in use

\* What a collect reads, in this order.
Order == <<"memory.current", "memory.max", "memory.events", "cpu.stat", "io.stat">>

\* The series a total is emitted under.
TotalSeries(file) ==
    CASE file = "memory.events" -> {"memory.oom"}
      [] file = "cpu.stat"      -> {"cpu.time", "cpu.throttled"}
      [] file = "io.stat"       -> {"disk.io.read", "disk.io.write"}
AllTotals       == UNION {TotalSeries(file) : file \in TotalFiles}
ContainerSeries == {"memory.usage", "memory.limit"} \cup AllTotals

ASSUME ContainerAssumption ==
    /\ TotalFiles \subseteq {"memory.events", "cpu.stat", "io.stat"}
    /\ ContainerSeries \subseteq Series
    /\ MaxUsage \in Nat

VARIABLES
    up,         \* the cgroup exists
    usage,      \* memory.current
    limit,      \* memory.max
    total,      \* the totals of each file, since the cgroup was created
    at          \* which file the collect reads next

cgroup        == <<up, usage, limit, total>>
containerVars == <<cgroup, at>>

Unlimited == 0
Zeros     == [file \in TotalFiles |-> 0]

InitContainer ==
    /\ up \in BOOLEAN /\ usage = 0 /\ limit = Unlimited /\ total = Zeros
    /\ at = 1

-----------------------------------------------------------------------------
(* The kernel and the container runtime. *)

Allocate ==
    /\ Changes
    /\ up /\ usage' \in 0..MaxUsage
    /\ UNCHANGED <<up, limit, total, at>>

SetLimit ==
    /\ Changes
    /\ up /\ limit' \in 0..MaxUsage
    /\ UNCHANGED <<up, usage, total, at>>

Consume(file) ==
    /\ Changes
    /\ up /\ total' = [total EXCEPT ![file] = @ + 1]
    /\ UNCHANGED <<up, usage, limit, at>>

\* The container starts, stops, or starts anew: the new cgroup counts from zero.
StartOrStop ==
    /\ Changes
    /\ up' \in BOOLEAN /\ (up \/ up')
    /\ usage' = 0 /\ limit' = Unlimited /\ total' = Zeros
    /\ UNCHANGED at

-----------------------------------------------------------------------------
(* collect *)

\* What the file at hand gives; an unlimited memory.max gives nothing.
PointsOf(file) ==
    IF file = "memory.current"
    THEN [s \in {"memory.usage"} |-> Point("UpDownCounter", usage)]
    ELSE IF file = "memory.max"
    THEN [s \in IF limit = Unlimited THEN {} ELSE {"memory.limit"} |-> Point("Gauge", limit)]
    ELSE [s \in TotalSeries(file) |-> Point("Counter", total[file])]

Exists(file) == up /\ (file \in {"memory.current", "memory.max"} \/ file \in TotalFiles)

\* Without memory.current the collect is Unavailable; any other file that is
\* missing is passed over.
ReadFile ==
    /\ at' = IF Exists(Order[at]) \/ at # 1 THEN (at % Len(Order)) + 1 ELSE 1
    /\ \/ Exists(Order[at]) /\ Emit(PointsOf(Order[at]))
       \/ ~Exists(Order[at]) /\ UNCHANGED <<changes, shown, drops>>
    /\ UNCHANGED cgroup

Kernel == Allocate \/ SetLimit \/ (\E file \in TotalFiles : Consume(file)) \/ StartOrStop

-----------------------------------------------------------------------------
(* Properties *)

\* When the kernel comes to rest the memory series show its numbers for good,
\* although the collect reads file after file, the container comes and goes and
\* points are dropped: absolute values are set, not added (otlp.rs:8-13).
\* A limit that was lifted is not emitted and not covered.
MemoryCatchesUp ==
    <>[](up => /\ shown["memory.usage"] = usage
               /\ limit # Unlimited => shown["memory.limit"] = limit)

\* "Pushing an absolute value through the OTLP Counter path (add()) would
\* double-count every tick" (README.md:155-157): what is shown of a total is
\* never more than the kernel has counted.
CountersAreNotInflated ==
    \A file \in TotalFiles : \A s \in TotalSeries(file) : shown[s] <= changes

=============================================================================
