---------------------------- MODULE Instruments -----------------------------
(***************************************************************************)
(* The metric half of the OTLP exporter (crates/export/src/otlp.rs): one   *)
(* instrument per metric name, created at its first point, and one value   *)
(* per attribute set, which the SDK goes on reporting for as long as the   *)
(* process lives.  A series is a name with its attributes.                 *)
(*                                                                         *)
(* Pipeline models the way of a point to the exporter: it is dropped, or   *)
(* arrives once and in order.  Here it arrives at once or is dropped.      *)
(***************************************************************************)
EXTENDS Integers, FiniteSets

CONSTANTS
    Series,         \* what the collectors below emit
    MaxChanges,     \* bound: how often what the collectors look at changes
    MaxDrops,       \* bound: points the full channel drops
    MaxShown        \* bound: where the model stops adding to a counter

ASSUME InstrumentsAssumption == {MaxChanges, MaxDrops, MaxShown} \subseteq Nat

VARIABLES
    changes,        \* how often the kernel or the agent changed something
    shown,          \* the value the backend is told for each series
    drops           \* how many points were dropped

Absent == -1

MetricKind == {"Gauge", "UpDownCounter", "Counter"}
Point(kind, value) == [kind |-> kind, value |-> value]

InitInstruments == changes = 0 /\ shown = [s \in Series |-> Absent] /\ drops = 0

\* Mutant of Recorded: an UpDownCounter that is added like a Counter.
Recorded_AddsUpDown(old, point) ==
    IF point.kind = "Gauge" THEN point.value
    ELSE LET sum == point.value + (IF old = Absent THEN 0 ELSE old)
         IN  IF sum > MaxShown THEN MaxShown ELSE sum

\* record_gauge sets, add_counter adds to what was there.
Recorded(old, point) ==
    IF point.kind # "Counter" THEN point.value
    ELSE LET sum == point.value + (IF old = Absent THEN 0 ELSE old)
         IN  IF sum > MaxShown THEN MaxShown ELSE sum

Changes == changes < MaxChanges /\ changes' = changes + 1 /\ UNCHANGED <<shown, drops>>

\* What one stretch between two awaits emits: points, at most one per series,
\* each recorded or dropped.
Emit(points) ==
    \E kept \in SUBSET DOMAIN points :
        /\ UNCHANGED changes
        /\ drops' = drops + Cardinality(DOMAIN points \ kept)
        /\ drops' <= MaxDrops
        /\ shown' = [s \in Series |-> IF s \in kept THEN Recorded(shown[s], points[s])
                                      ELSE shown[s]]

=============================================================================
