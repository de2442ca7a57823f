---------------------------- MODULE BreakerTrace ----------------------------
(***************************************************************************)
(* One circuit breaker driven by every possible sequence of what can       *)
(* happen to it, beside the sequence itself.  The properties compare the   *)
(* breaker, which remembers two words, with what the whole history says:   *)
(* the doc comments of policy.rs speak of consecutive failures, of base *  *)
(* 2^(failures-1) and of a threshold, and those are read off the history.  *)
(***************************************************************************)
EXTENDS Policy, Sequences, FiniteSets

CONSTANT MaxHistory     \* length of the histories explored

\* Neither the cap of the shift nor that of the counter is reached before the
\* maximum is: 1 s doubled 15 times is more than 60 s.
ASSUME CapsAssumption ==
    /\ BaseBackoff * Factor[ShiftCap - 1] >= MaxBackoff
    /\ BaseBackoff * Factor[FailureCeiling - 1] >= MaxBackoff

VARIABLES breaker, history

vars == <<breaker, history>>

Init == breaker = NewBreaker /\ history = <<>>

Happens(event) ==
    /\ Len(history) < MaxHistory
    /\ history' = Append(history, event)

\* A successful collect.
Success == Happens("success") /\ breaker' = RecordSuccess(breaker)

\* A collect that returned Err or panicked.
Failure == Happens("failure") /\ breaker' = RecordFailure(breaker)

\* A probe that found the target unavailable.
Trip    == Happens("trip") /\ breaker' = TripOpen(breaker)

Next == Success \/ Failure \/ Trip

Spec == Init /\ [][Next]_vars

-----------------------------------------------------------------------------
\* Failures since the last success, trips not counted.
TrailingFailures ==
    Cardinality({i \in 1..Len(history) :
        /\ history[i] = "failure"
        /\ \A j \in i..Len(history) : history[j] # "success"})

LimitedBy(n, limit) == IF n < limit THEN n ELSE limit

\* The doubling of policy.rs:62, defined without the closed form: k failures
\* double the base k - 1 times, never above the maximum.
Doubled[k \in Nat] ==
    IF k <= 1 THEN BaseBackoff ELSE LimitedBy(2 * Doubled[k - 1], MaxBackoff)

\* The counter is the number of failures since the last success, up to the
\* width of its type: a trip (policy.rs:57) is never mistaken for a failure
\* and saturation never loses the streak.
CountsTheStreak == breaker.failures = LimitedBy(TrailingFailures, FailureCeiling)

\* The wait before the next collect doubles with each failure of the streak
\* and stops at the maximum, whatever the caps on the shift and the counter.
BackoffDoubles == Backoff(breaker) = Doubled[TrailingFailures]

\* An Optional source never brings the process down, a Critical one does so
\* exactly from the threshold-th failure in a row on (policy.rs:84-85).
FatalFromTheThreshold ==
    /\ ClassifyFailure(FALSE, breaker) = "Degrade"
    /\ ClassifyFailure(TRUE, breaker) = "Fatal" <=> TrailingFailures >= CritThreshold

=============================================================================
