------------------------------ MODULE Induction ------------------------------
(***************************************************************************)
(* Induction and recursion on the natural numbers, stated with sets and    *)
(* functions: that every set of numbers has a least member, what follows   *)
(* from it step by step, and that a recursion defines a function.          *)
(***************************************************************************)
EXTENDS Integers, WellFoundedInduction, TLAPS

\* A set of naturals that is not empty has a least member.
LEMMA LeastNat ==
    ASSUME NEW T \in SUBSET Nat, T # {}
    PROVE  \E k \in T : \A m \in T : k <= m
<1>1. PICK k \in T : \A m \in T : ~(<<m, k>> \in OpToRel(<, Nat))
  BY NatLessThanWellFounded, WFMin
<1>2. \A m \in T : ~(m < k)
  BY <1>1 DEF OpToRel
<1> QED
  BY <1>2

\* A set that has 0, and with each number the next one, has all of them.
LEMMA AllNat ==
    ASSUME NEW T, 0 \in T, \A n \in Nat : n \in T => n + 1 \in T
    PROVE  \A n \in Nat : n \in T
<1> SUFFICES ASSUME Nat \ T # {} PROVE FALSE
  OBVIOUS
<1>1. PICK k \in Nat \ T : \A m \in Nat \ T : k <= m
  BY LeastNat
<1>2. k - 1 \in Nat /\ k - 1 \in T
  BY <1>1
<1> QED
  BY <1>1, <1>2

\* The same up to a bound.
LEMMA AllUpTo ==
    ASSUME NEW N \in Nat, NEW T, 0 \in T, \A n \in 1..N : n - 1 \in T => n \in T
    PROVE  \A n \in 0..N : n \in T
<1> DEFINE U == {n \in Nat : n <= N => n \in T}
<1>1. 0 \in U
  OBVIOUS
<1>2. ASSUME NEW n \in Nat, n \in U PROVE n + 1 \in U
  <2>1. CASE n + 1 <= N
    <3>1. n + 1 \in 1..N /\ (n + 1) - 1 = n /\ n \in T
      BY <1>2, <2>1
    <3> QED
      BY <3>1
  <2> QED
    BY <2>1
<1>3. \A n \in Nat : n \in U
  <2> HIDE DEF U
  <2> QED BY <1>1, <1>2, AllNat
<1> QED
  BY <1>3

-----------------------------------------------------------------------------
(* Recursion. *)

\* For each number a step in S; f begins with x and makes each of them.
Steps(I, S)            == [I -> [S -> S]]
Follows(f, I, x, step) == f[0] = x /\ \A n \in I : f[n] = step[n][f[n - 1]]

\* There is a function that does.
LEMMA Recursion ==
    ASSUME NEW S, NEW x \in S, NEW step \in Steps(Nat \ {0}, S)
    PROVE  \E f \in [Nat -> S] : Follows(f, Nat \ {0}, x, step)
<1> DEFINE T == {n \in Nat : \E g \in [Nat -> S] : Follows(g, 1..n, x, step)}
<1>1. 0 \in T
  <2>1. [i \in Nat |-> x] \in [Nat -> S] /\ Follows([i \in Nat |-> x], 1..0, x, step)
    BY DEF Follows
  <2> QED
    BY <2>1
<1>2. ASSUME NEW n \in Nat, n \in T PROVE n + 1 \in T
  <2>1. PICK g \in [Nat -> S] : Follows(g, 1..n, x, step)
    BY <1>2
  <2> DEFINE h == [g EXCEPT ![n + 1] = step[n + 1][g[n]]]
  <2>2. h \in [Nat -> S]
    <3>1. n + 1 \in Nat \ {0} /\ g[n] \in S
      BY <2>1
    <3>2. step[n + 1] \in [S -> S]
      BY <3>1 DEF Steps
    <3>3. step[n + 1][g[n]] \in S
      BY <3>1, <3>2
    <3> QED
      BY <2>1, <3>3
  <2>3. \A i \in 1..(n + 1) : h[i] = step[i][h[i - 1]]
    BY <2>1 DEF Follows
  <2>4. h[0] = x
    BY <2>1 DEF Follows
  <2>5. Follows(h, 1..(n + 1), x, step)
    BY <2>3, <2>4 DEF Follows
  <2> HIDE DEF h
  <2>6. \E k \in [Nat -> S] : Follows(k, 1..(n + 1), x, step)
    BY <2>2, <2>5
  <2> QED
    BY <2>6
<1>3. \A n \in Nat : \E g \in [Nat -> S] : Follows(g, 1..n, x, step)
  <2>1. \A n \in Nat : n \in T
    <3> HIDE DEF T
    <3> QED BY <1>1, <1>2, AllNat
  <2> QED
    BY <2>1
<1>4. ASSUME NEW n \in Nat, NEW g, NEW h, Follows(g, 1..n, x, step),
             NEW m \in Nat, n <= m, Follows(h, 1..m, x, step)
      PROVE  g[n] = h[n]
  <2> DEFINE U == {i \in Nat : g[i] = h[i]}
  <2>1. 0 \in U
    BY <1>4 DEF Follows
  <2>2. ASSUME NEW i \in 1..n, i - 1 \in U PROVE i \in U
    <3>1. g[i] = step[i][g[i - 1]] /\ h[i] = step[i][h[i - 1]]
      BY <1>4 DEF Follows
    <3> QED
      BY <2>2, <3>1
  <2>3. n \in U
    <3> HIDE DEF U
    <3>1. \A i \in 0..n : i \in U
      BY <2>1, <2>2, AllUpTo
    <3> QED
      BY <3>1
  <2> QED
    BY <2>3
<1> DEFINE G(n) == CHOOSE g \in [Nat -> S] : Follows(g, 1..n, x, step)
           f    == [n \in Nat |-> G(n)[n]]
<1>5. \A n \in Nat : G(n) \in [Nat -> S] /\ Follows(G(n), 1..n, x, step)
  BY <1>3
<1> HIDE DEF G
<1>6. f \in [Nat -> S]
  BY <1>5
<1>7. f[0] = x
  BY <1>5 DEF Follows
<1>8. ASSUME NEW n \in Nat \ {0} PROVE f[n] = step[n][f[n - 1]]
  <2>1. n - 1 \in Nat /\ n \in 1..n
    OBVIOUS
  <2>2. G(n - 1)[n - 1] = G(n)[n - 1]
    <3>1. Follows(G(n - 1), 1..(n - 1), x, step) /\ Follows(G(n), 1..n, x, step)
      BY <1>5, <2>1
    <3>2. Follows(G(n), 1..(n - 1), x, step)
      BY <3>1, <2>1 DEF Follows
    <3> QED
      BY <1>4, <2>1, <3>1, <3>2
  <2>3. G(n)[n] = step[n][G(n)[n - 1]]
    BY <1>5, <2>1 DEF Follows
  <2> QED
    BY <2>1, <2>2, <2>3
<1> QED
  <2> HIDE DEF f
  <2>1. Follows(f, Nat \ {0}, x, step)
    BY <1>7, <1>8 DEF Follows
  <2> QED
    BY <1>6, <2>1

\* The same up to a bound.
LEMMA RecursionUpTo ==
    ASSUME NEW N \in Nat, NEW S, NEW x \in S, NEW step \in Steps(1..N, S)
    PROVE  \E f \in [0..N -> S] : Follows(f, 1..N, x, step)
<1> DEFINE stays == [v \in S |-> v]
           on    == [n \in Nat \ {0} |-> IF n \in 1..N THEN step[n] ELSE stays]
<1>1. on \in Steps(Nat \ {0}, S)
  BY DEF Steps
<1>2. ASSUME NEW n \in 1..N PROVE on[n] = step[n]
  <2>1. n \in Nat \ {0}
    OBVIOUS
  <2> QED
    BY <2>1
<1> HIDE DEF on, stays
<1>3. PICK f \in [Nat -> S] : Follows(f, Nat \ {0}, x, on)
  BY <1>1, Recursion
<1> DEFINE g == [n \in 0..N |-> f[n]]
<1>4. g \in [0..N -> S] /\ g[0] = x
  BY <1>3 DEF Follows
<1>5. ASSUME NEW n \in 1..N PROVE g[n] = step[n][g[n - 1]]
  <2>1. n \in 0..N /\ n - 1 \in 0..N /\ n \in Nat \ {0}
    OBVIOUS
  <2> QED
    BY <1>2, <1>3, <2>1 DEF Follows
<1> HIDE DEF g
<1>6. Follows(g, 1..N, x, step)
  BY <1>4, <1>5 DEF Follows
<1> QED
  BY <1>4, <1>6

=============================================================================
