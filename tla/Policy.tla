------------------------------- MODULE Policy -------------------------------
(***************************************************************************)
(* The pure policies of the domain crate (crates/domain/src/policy.rs):    *)
(* the per-source circuit breaker with its exponential backoff, and the    *)
(* critical-versus-optional rule.  No state is declared here: the          *)
(* supervisor keeps one breaker per task and applies these operators.      *)
(***************************************************************************)
EXTENDS Integers

CONSTANTS
    CritThreshold,      \* consecutive failures at which Critical turns fatal
    FailureCeiling,     \* largest value of the u32 failure counter
    BaseBackoff,        \* seconds; 1 in the code
    MaxBackoff,         \* seconds; 60 in the code
    ShiftCap            \* failures past which the doubling stops; 16 in the code

ASSUME PolicyAssumption ==
    /\ FailureCeiling \in Nat \ {0}
    /\ CritThreshold \in 0..FailureCeiling      \* both are u32
    /\ BaseBackoff \in Nat
    /\ MaxBackoff \in Nat
    /\ BaseBackoff <= MaxBackoff
    /\ ShiftCap \in Nat \ {0}

\* CircuitBreaker; the thresholds and durations it carries are the constants.
Breaker == [state : {"Closed", "Open"}, failures : 0..FailureCeiling]

NewBreaker == [state |-> "Closed", failures |-> 0]

IsOpen(b) == b.state = "Open"

RecordSuccess(b) == NewBreaker

\* Mutant of TripOpen: a trip that is counted like a failure.
TripOpen_Counts(b) ==
    [state |-> "Open",
     failures |-> IF b.failures < FailureCeiling THEN b.failures + 1 ELSE FailureCeiling]

\* record_failure: saturating_add(1), and the breaker opens.
RecordFailure(b) ==
    [state    |-> "Open",
     failures |-> IF b.failures < FailureCeiling THEN b.failures + 1 ELSE FailureCeiling]

\* trip_open: opens without counting.
TripOpen(b) == [b EXCEPT !.state = "Open"]

\* 1 << shift.
Factor[shift \in Nat] == IF shift = 0 THEN 1 ELSE 2 * Factor[shift - 1]

\* Mutant of Backoff: the shift is not lowered by one.
Backoff_Shifted(b) ==
    IF b.failures = 0 THEN BaseBackoff
    ELSE LET shift == IF b.failures < ShiftCap THEN b.failures ELSE ShiftCap
             wait  == BaseBackoff * Factor[shift]
         IN  IF wait < MaxBackoff THEN wait ELSE MaxBackoff

\* backoff: base * 2^(failures - 1), the shift capped, the product capped.
Backoff(b) ==
    IF b.failures = 0 THEN BaseBackoff
    ELSE LET shift == (IF b.failures < ShiftCap THEN b.failures ELSE ShiftCap) - 1
             wait  == BaseBackoff * Factor[shift]
         IN  IF wait < MaxBackoff THEN wait ELSE MaxBackoff

\* Mutant of ClassifyFailure: fatal one failure late.
ClassifyFailure_Late(isCritical, b) ==
    IF isCritical /\ b.failures > CritThreshold THEN "Fatal" ELSE "Degrade"

\* classify_failure: Optional always degrades.
ClassifyFailure(isCritical, b) ==
    IF isCritical /\ b.failures >= CritThreshold THEN "Fatal" ELSE "Degrade"

=============================================================================
