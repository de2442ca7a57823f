---------------------------- MODULE BreakerProofs ----------------------------
(***************************************************************************)
(* Proofs about BreakerTrace, for every threshold, every width of the      *)
(* counter, every pair of durations and histories of any length: the       *)
(* breaker counts the failures since the last success, and what the code   *)
(* computes from the counter is what the whole history calls for.          *)
(*                                                                         *)
(* Two functions here are recursive, the shift and the doubling: Induction *)
(* has what shows that there are such functions and what they compute.     *)
(***************************************************************************)
EXTENDS BreakerTrace, FiniteSetTheorems, Induction

USE PolicyAssumption

-----------------------------------------------------------------------------
(* The streak. *)

Events == {"success", "failure", "trip"}

\* The failures since the last success, by their positions.
Streak(h) == {i \in 1..Len(h) : h[i] = "failure" /\ \A j \in i..Len(h) : h[j] # "success"}

LEMMA StreakIsFinite ==
    ASSUME NEW h \in Seq(Events)
    PROVE  IsFiniteSet(Streak(h)) /\ Cardinality(Streak(h)) \in Nat
<1>1. IsFiniteSet(1..Len(h))
  BY FS_Interval
<1>2. Streak(h) \subseteq 1..Len(h)
  BY DEF Streak
<1> QED
  BY <1>1, <1>2, FS_Subset, FS_CardinalityType

\* A failure prolongs the streak by one, a success ends it, a trip is not in it.
LEMMA StreakGrows ==
    ASSUME NEW h \in Seq(Events), NEW event \in Events
    PROVE  /\ event = "failure" =>
                Cardinality(Streak(Append(h, event))) = Cardinality(Streak(h)) + 1
           /\ event = "success" => Cardinality(Streak(Append(h, event))) = 0
           /\ event = "trip" => Streak(Append(h, event)) = Streak(h)
<1> DEFINE g == Append(h, event)
           n == Len(h)
<1>1. /\ n \in Nat /\ Len(g) = n + 1 /\ g[n + 1] = event
      /\ \A i \in 1..n : g[i] = h[i]
      /\ n + 1 \notin Streak(h)
  BY DEF Streak
<1> HIDE DEF g, n
<1>2. 1..(n + 1) = (1..n) \cup {n + 1} /\ \A i \in 1..n : i..(n + 1) = (i..n) \cup {n + 1}
  BY <1>1
<1>3. Streak(h) = {i \in 1..n : h[i] = "failure" /\ \A j \in i..n : h[j] # "success"}
  BY DEF Streak, n
<1>4. Streak(g) = {i \in 1..(n + 1) : /\ g[i] = "failure"
                                      /\ \A j \in i..(n + 1) : g[j] # "success"}
  BY <1>1 DEF Streak
<1>5. ASSUME event # "success", NEW i \in 1..n
      PROVE  i \in Streak(g) <=> i \in Streak(h)
  <2>1. \A j \in i..n : j \in 1..n
    BY <1>1
  <2> QED
    BY <1>1, <1>2, <1>3, <1>4, <1>5, <2>1
<1>6. CASE event = "failure"
  <2>1. n + 1 \in Streak(g)
    BY <1>1, <1>4, <1>6
  <2>2. Streak(g) = Streak(h) \cup {n + 1}
    BY <1>2, <1>3, <1>4, <1>5, <1>6, <2>1
  <2> QED
    BY <1>1, <1>6, <2>2, StreakIsFinite, FS_AddElement DEF g
<1>7. CASE event = "success"
  <2>1. \A i \in 1..(n + 1) : n + 1 \in i..(n + 1)
    BY <1>1
  <2>2. Streak(g) = {}
    BY <1>1, <1>4, <1>7, <2>1
  <2> QED
    BY <1>7, <2>2, FS_EmptySet DEF g
<1>8. CASE event = "trip"
  <2>1. n + 1 \notin Streak(g)
    BY <1>1, <1>4, <1>8
  <2>2. Streak(g) = Streak(h)
    BY <1>2, <1>3, <1>4, <1>5, <1>8, <2>1
  <2> QED
    BY <1>8, <2>2 DEF g
<1> QED
  BY <1>6, <1>7, <1>8

\* The inductive invariant: the counter against the streak, with the types.
StreakInv ==
    /\ breaker \in Breaker
    /\ history \in Seq(Events)
    /\ CountsTheStreak

LEMMA StreakInit == Init => StreakInv
<1> SUFFICES ASSUME Init PROVE StreakInv
  OBVIOUS
<1>1. Streak(<<>>) = {}
  BY DEF Streak
<1> QED
  BY <1>1, FS_EmptySet DEF Init, StreakInv, NewBreaker, Breaker, CountsTheStreak,
     TrailingFailures, Streak, LimitedBy

LEMMA StreakStep == StreakInv /\ [Next]_vars => StreakInv'
<1> SUFFICES ASSUME StreakInv, [Next]_vars PROVE StreakInv'
  OBVIOUS
<1> DEFINE t == Cardinality(Streak(history))
<1>1. /\ history \in Seq(Events) /\ breaker \in Breaker /\ t \in Nat
      /\ breaker.failures = LimitedBy(t, FailureCeiling)
  BY StreakIsFinite DEF StreakInv, CountsTheStreak, TrailingFailures, Streak
<1>2. CountsTheStreak' <=> breaker'.failures
                              = LimitedBy(Cardinality(Streak(history')), FailureCeiling)
  BY DEF CountsTheStreak, TrailingFailures, Streak
<1> HIDE DEF t
<1>3. CASE Success
  <2>1. history' = Append(history, "success") /\ breaker' = NewBreaker
    BY <1>3 DEF Success, Happens, RecordSuccess
  <2>2. history' \in Seq(Events) /\ Cardinality(Streak(history')) = 0
    BY <1>1, <2>1, StreakGrows DEF Events
  <2> QED
    BY <1>2, <2>1, <2>2 DEF StreakInv, NewBreaker, Breaker, LimitedBy
<1>4. CASE Failure
  <2>1. history' = Append(history, "failure") /\ breaker' = RecordFailure(breaker)
    BY <1>4 DEF Failure, Happens
  <2>2. history' \in Seq(Events) /\ Cardinality(Streak(history')) = t + 1
    BY <1>1, <2>1, StreakGrows DEF Events, t
  <2> QED
    BY <1>1, <1>2, <2>1, <2>2 DEF StreakInv, RecordFailure, Breaker, LimitedBy
<1>5. CASE Trip
  <2>1. history' = Append(history, "trip") /\ breaker' = [breaker EXCEPT !.state = "Open"]
    BY <1>5 DEF Trip, Happens, TripOpen
  <2>2. history' \in Seq(Events) /\ Cardinality(Streak(history')) = t
    BY <1>1, <2>1, StreakGrows DEF Events, t
  <2>3. breaker' \in Breaker /\ breaker'.failures = breaker.failures
    BY <1>1, <2>1 DEF Breaker
  <2> QED
    BY <1>1, <1>2, <2>2, <2>3 DEF StreakInv
<1>6. CASE UNCHANGED vars
  BY <1>1, <1>2, <1>6 DEF vars, StreakInv, t
<1> QED
  BY <1>3, <1>4, <1>5, <1>6 DEF Next

\* The counter is the number of failures since the last success, as far as the
\* counter goes: no trip is taken for a failure.
THEOREM Counts == Spec => []CountsTheStreak
<1>1. StreakInv => CountsTheStreak
  BY DEF StreakInv
<1> QED
  BY StreakInit, StreakStep, <1>1, PTL DEF Spec

\* A Critical source is fatal exactly from the threshold-th failure in a row
\* on, however far the streak outgrows the counter.
THEOREM FatalAtThreshold == Spec => []FatalFromTheThreshold
<1>1. StreakInv => FatalFromTheThreshold
  <2> SUFFICES ASSUME StreakInv PROVE FatalFromTheThreshold
    OBVIOUS
  <2>1. /\ TrailingFailures \in Nat
        /\ breaker.failures = LimitedBy(TrailingFailures, FailureCeiling)
    BY StreakIsFinite DEF StreakInv, CountsTheStreak, TrailingFailures, Streak
  <2> QED
    BY <2>1 DEF FatalFromTheThreshold, ClassifyFailure, LimitedBy
<1> QED
  BY StreakInit, StreakStep, <1>1, PTL DEF Spec

-----------------------------------------------------------------------------
(* The doubling. *)

\* The shift, by its recursion.
LEMMA FactorIs ==
    /\ Factor \in [Nat -> Nat]
    /\ Factor[0] = 1
    /\ \A n \in Nat : Factor[n + 1] = 2 * Factor[n]
<1> DEFINE step == [n \in Nat \ {0} |-> [v \in Nat |-> 2 * v]]
<1>1. PICK f \in [Nat -> Nat] : Follows(f, Nat \ {0}, 1, step)
  <2>1. step \in Steps(Nat \ {0}, Nat) /\ 1 \in Nat
    BY DEF Steps
  <2> HIDE DEF step
  <2> QED
    BY <2>1, Recursion
<1>3. f = [n \in Nat |-> IF n = 0 THEN 1 ELSE 2 * f[n - 1]]
  <2>1. ASSUME NEW n \in Nat PROVE f[n] = IF n = 0 THEN 1 ELSE 2 * f[n - 1]
    <3>1. n # 0 => n - 1 \in Nat /\ f[n - 1] \in Nat /\ n \in Nat \ {0}
      OBVIOUS
    <3> QED
      BY <1>1, <3>1 DEF Follows
  <2> QED
    BY <2>1
<1>4. Factor = [n \in Nat |-> IF n = 0 THEN 1 ELSE 2 * Factor[n - 1]]
  BY <1>3 DEF Factor
<1>5. Factor[0] = 1 /\ \A n \in Nat : Factor[n + 1] = 2 * Factor[n]
  <2>1. ASSUME NEW n \in Nat PROVE Factor[n] = IF n = 0 THEN 1 ELSE 2 * Factor[n - 1]
    BY <1>4
  <2>2. ASSUME NEW n \in Nat PROVE n + 1 \in Nat /\ n + 1 # 0 /\ (n + 1) - 1 = n
    OBVIOUS
  <2> QED
    BY <2>1, <2>2
<1>6. \A n \in Nat : Factor[n] \in Nat
  <2> DEFINE T == {n \in Nat : Factor[n] \in Nat}
  <2>1. 0 \in T /\ \A n \in Nat : n \in T => n + 1 \in T
    BY <1>5
  <2> HIDE DEF T
  <2>2. \A n \in Nat : n \in T
    BY <2>1, AllNat
  <2> QED
    BY <2>2 DEF T
<1> QED
  BY <1>4, <1>5, <1>6

\* A larger shift gives no smaller factor.
LEMMA FactorGrows ==
    ASSUME NEW m \in Nat, NEW n \in Nat, m <= n
    PROVE  Factor[m] <= Factor[n]
<1> DEFINE T == {k \in Nat : Factor[m] <= Factor[m + k]}
<1>1. 0 \in T
  BY FactorIs
<1>2. ASSUME NEW k \in Nat, k \in T PROVE k + 1 \in T
  <2>1. Factor[(m + k) + 1] = 2 * Factor[m + k] /\ Factor[m + k] \in Nat /\ Factor[m] \in Nat
    BY FactorIs
  <2> QED
    BY <1>2, <2>1
<1>3. n - m \in T
  <2> HIDE DEF T
  <2> QED BY <1>1, <1>2, AllNat
<1> QED
  BY <1>3

\* The doubling with a limit at each step, by its recursion...
LEMMA DoubledIs ==
    /\ Doubled[0] = BaseBackoff /\ Doubled[1] = BaseBackoff
    /\ \A k \in Nat : Doubled[k + 2] = LimitedBy(2 * Doubled[k + 1], MaxBackoff)
<1> DEFINE step == [n \in Nat \ {0} |-> [v \in Nat |-> LimitedBy(2 * v, MaxBackoff)]]
<1>1. PICK f \in [Nat -> Nat] : Follows(f, Nat \ {0}, BaseBackoff, step)
  <2>1. step \in Steps(Nat \ {0}, Nat) /\ BaseBackoff \in Nat
    BY DEF Steps, LimitedBy
  <2> HIDE DEF step
  <2> QED
    BY <2>1, Recursion
<1>2. \A n \in Nat : f[n + 1] = LimitedBy(2 * f[n], MaxBackoff)
  <2>1. ASSUME NEW n \in Nat PROVE n + 1 \in Nat \ {0} /\ (n + 1) - 1 = n
    OBVIOUS
  <2> QED
    BY <1>1, <2>1 DEF Follows
<1> DEFINE g == [k \in Nat |-> IF k <= 1 THEN BaseBackoff ELSE f[k - 1]]
<1>3. g = [k \in Nat |-> IF k <= 1 THEN BaseBackoff ELSE LimitedBy(2 * g[k - 1], MaxBackoff)]
  <2>1. ASSUME NEW k \in Nat, k > 1 PROVE f[k - 1] = LimitedBy(2 * g[k - 1], MaxBackoff)
    <3>1. k - 2 \in Nat /\ (k - 2) + 1 = k - 1 /\ k - 1 \in Nat
      BY <2>1
    <3>2. f[k - 1] = LimitedBy(2 * f[k - 2], MaxBackoff)
      BY <1>2, <3>1
    <3>3. g[k - 1] = f[k - 2]
      BY <1>1, <2>1, <3>1 DEF Follows
    <3> QED
      BY <3>2, <3>3
  <2>2. ASSUME NEW k \in Nat
        PROVE  g[k] = IF k <= 1 THEN BaseBackoff ELSE LimitedBy(2 * g[k - 1], MaxBackoff)
    <3>1. CASE k <= 1
      BY <3>1
    <3>2. CASE k > 1
      <4>1. g[k] = f[k - 1]
        BY <3>2
      <4>2. f[k - 1] = LimitedBy(2 * g[k - 1], MaxBackoff)
        BY <2>1, <3>2
      <4> HIDE DEF g
      <4> QED
        BY <3>2, <4>1, <4>2
    <3> QED
      BY <3>1, <3>2
  <2>3. g \in [Nat -> Nat]
    BY <1>1
  <2> HIDE DEF g
  <2> QED
    BY <2>2, <2>3
<1> HIDE DEF g
<1>4. Doubled = [k \in Nat |-> IF k <= 1 THEN BaseBackoff
                               ELSE LimitedBy(2 * Doubled[k - 1], MaxBackoff)]
  BY <1>3 DEF Doubled
<1>5. ASSUME NEW k \in Nat
      PROVE  Doubled[k] = IF k <= 1 THEN BaseBackoff
                          ELSE LimitedBy(2 * Doubled[k - 1], MaxBackoff)
  BY <1>4
<1>6. ASSUME NEW k \in Nat PROVE Doubled[k + 2] = LimitedBy(2 * Doubled[k + 1], MaxBackoff)
  <2>1. k + 2 \in Nat /\ ~(k + 2 <= 1) /\ (k + 2) - 1 = k + 1
    OBVIOUS
  <2> QED
    BY <1>5, <2>1
<1> QED
  BY <1>5, <1>6

\* ...is one shift with the limit at its end.
LEMMA DoubledByShift ==
    ASSUME NEW k \in Nat
    PROVE  Doubled[k + 1] = LimitedBy(BaseBackoff * Factor[k], MaxBackoff)
<1> DEFINE T == {n \in Nat : Doubled[n + 1] = LimitedBy(BaseBackoff * Factor[n], MaxBackoff)}
<1>1. 0 \in T
  BY DoubledIs, FactorIs DEF LimitedBy
<1>2. ASSUME NEW n \in Nat, n \in T PROVE n + 1 \in T
  <2> DEFINE a == BaseBackoff * Factor[n]
  <2>1. Factor[n] \in Nat /\ Factor[n + 1] = 2 * Factor[n]
    BY FactorIs
  <2>2. a \in Nat /\ BaseBackoff * Factor[n + 1] = 2 * a
    BY <2>1
  <2> HIDE DEF a
  <2>3. Doubled[n + 2] = LimitedBy(2 * Doubled[n + 1], MaxBackoff)
    BY DoubledIs
  <2>4. Doubled[n + 1] = LimitedBy(a, MaxBackoff)
    BY <1>2 DEF a
  <2>5. Doubled[n + 2] = LimitedBy(2 * a, MaxBackoff)
    BY <2>2, <2>3, <2>4 DEF LimitedBy
  <2> QED
    BY <2>2, <2>5
<1> HIDE DEF T
<1>3. k \in T
  BY <1>1, <1>2, AllNat
<1> QED
  BY <1>3 DEF T

\* With one limit on the shift and one on the wait, no cap shows.
LEMMA CapsDoNotShow ==
    ASSUME NEW b \in Breaker, NEW t \in Nat, b.failures = LimitedBy(t, FailureCeiling)
    PROVE  Backoff(b) = Doubled[t]
<1>1. CASE t = 0
  BY <1>1, DoubledIs DEF Backoff, LimitedBy
<1>2. CASE t # 0
  <2> DEFINE k == IF b.failures < ShiftCap THEN b.failures ELSE ShiftCap
  <2>1. /\ b.failures # 0 /\ k \in Nat /\ k - 1 \in Nat /\ t - 1 \in Nat /\ (t - 1) + 1 = t
        /\ k <= t
        /\ k = t \/ k = ShiftCap \/ k = FailureCeiling
    BY <1>2 DEF LimitedBy
  <2>2. Backoff(b) = LimitedBy(BaseBackoff * Factor[k - 1], MaxBackoff)
    BY <2>1 DEF Backoff, LimitedBy
  <2> HIDE DEF k
  <2>3. Doubled[t] = LimitedBy(BaseBackoff * Factor[t - 1], MaxBackoff)
    BY <2>1, DoubledByShift
  <2>4. CASE k # t
    <3>1. /\ Factor[k - 1] \in Nat /\ Factor[t - 1] \in Nat /\ Factor[k - 1] <= Factor[t - 1]
      <4>1. k - 1 \in Nat /\ t - 1 \in Nat /\ k - 1 <= t - 1
        BY <2>1
      <4>2. Factor[k - 1] <= Factor[t - 1]
        BY <4>1, FactorGrows
      <4> QED
        BY <4>1, <4>2, FactorIs
    <3>2. BaseBackoff * Factor[k - 1] >= MaxBackoff
      BY <2>1, <2>4, CapsAssumption
    <3>3. /\ BaseBackoff * Factor[k - 1] \in Nat /\ BaseBackoff * Factor[t - 1] \in Nat
          /\ BaseBackoff * Factor[t - 1] >= BaseBackoff * Factor[k - 1]
      BY <3>1
    <3> QED
      BY <2>2, <2>3, <3>2, <3>3 DEF LimitedBy
  <2> QED
    BY <2>2, <2>3, <2>4
<1> QED
  BY <1>1, <1>2

\* The wait doubles with each failure of the streak and stops at the maximum,
\* in spite of the caps on the shift and on the counter.
THEOREM Doubles == Spec => []BackoffDoubles
<1>1. StreakInv => BackoffDoubles
  <2> SUFFICES ASSUME StreakInv PROVE BackoffDoubles
    OBVIOUS
  <2>1. /\ breaker \in Breaker /\ TrailingFailures \in Nat
        /\ breaker.failures = LimitedBy(TrailingFailures, FailureCeiling)
    BY StreakIsFinite DEF StreakInv, CountsTheStreak, TrailingFailures, Streak
  <2> QED
    BY <2>1, CapsDoNotShow DEF BackoffDoubles
<1> QED
  BY StreakInit, StreakStep, <1>1, PTL DEF Spec

=============================================================================
