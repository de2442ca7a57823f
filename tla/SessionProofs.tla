---------------------------- MODULE SessionProofs ----------------------------
(***************************************************************************)
(* Proof about SessionCollector, for any number of transcripts of any      *)
(* length, lines of any width and any number of rewrites and restarts:     *)
(* what the collector remembers of a file that was never written anew is   *)
(* the count of its first lines.                                           *)
(***************************************************************************)
EXTENDS SessionCollector, FiniteSetTheorems, Induction

USE SessionAssumption

-----------------------------------------------------------------------------
(* Where the lines end. *)

EndsAre(lines) ==
    /\ Ends(lines) \in [0..Len(lines) -> Nat]
    /\ Ends(lines)[0] = 0
    /\ \A i \in 1..Len(lines) : Ends(lines)[i] = Ends(lines)[i - 1] + Width[lines[i]]

LEMMA EndsIs ==
    ASSUME NEW lines \in Seq(Lines)
    PROVE  EndsAre(lines)
<1> DEFINE N == Len(lines)
           step == [i \in 1..N |-> [n \in Nat |-> n + Width[lines[i]]]]
<1>1. N \in Nat /\ \A i \in 1..N : Width[lines[i]] \in Nat
  OBVIOUS
<1>2. PICK f \in [0..N -> Nat] : Follows(f, 1..N, 0, step)
  <2>1. step \in Steps(1..N, Nat)
    BY <1>1 DEF Steps
  <2> HIDE DEF step, N
  <2> QED
    BY <1>1, <2>1, RecursionUpTo
<1> DEFINE Body(g) == [i \in 0..N |-> IF i = 0 THEN 0 ELSE g[i - 1] + Width[lines[i]]]
<1>3. f = Body(f)
  <2>1. ASSUME NEW i \in 0..N
        PROVE  f[i] = IF i = 0 THEN 0 ELSE f[i - 1] + Width[lines[i]]
    <3>1. i # 0 => i \in 1..N /\ i - 1 \in 0..N
      BY <1>1
    <3>2. i # 0 => f[i - 1] \in Nat
      BY <3>1
    <3>3. i # 0 => step[i][f[i - 1]] = f[i - 1] + Width[lines[i]]
      BY <3>1, <3>2
    <3> HIDE DEF step
    <3> QED
      BY <1>2, <3>1, <3>3 DEF Follows
  <2> HIDE DEF N
  <2> QED
    BY <2>1
<1>4. Ends(lines) = Body(Ends(lines))
  BY <1>3 DEF Ends
<1> HIDE DEF Body
<1>5. PICK p : p = Ends(lines)
  OBVIOUS
<1>6. p = Body(p)
  BY <1>4, <1>5
<1> USE DEF Body
<1>7. p[0] = 0 /\ \A i \in 1..N : p[i] = p[i - 1] + Width[lines[i]]
  <2>1. ASSUME NEW i \in 0..N PROVE p[i] = IF i = 0 THEN 0 ELSE p[i - 1] + Width[lines[i]]
    <3> HIDE DEF N
    <3> QED BY <1>6, Zenon
  <2>2. 0 \in 0..N /\ \A i \in 1..N : i \in 0..N /\ i # 0
    BY <1>1
  <2> QED
    BY <2>1, <2>2
<1>8. \A i \in 0..N : p[i] \in Nat
  <2> DEFINE T == {i \in 0..N : p[i] \in Nat}
  <2>1. 0 \in T
    BY <1>1, <1>7
  <2>2. ASSUME NEW i \in 1..N, i - 1 \in T PROVE i \in T
    <3>1. p[i - 1] \in Nat /\ i \in 0..N /\ Width[lines[i]] \in Nat
      BY <1>1, <2>2
    <3>2. p[i] = p[i - 1] + Width[lines[i]]
      BY <1>7
    <3> QED
      BY <3>1, <3>2
  <2> HIDE DEF T
  <2>3. \A i \in 0..N : i \in T
    BY <1>1, <2>1, <2>2, AllUpTo
  <2> QED
    BY <2>3 DEF T
<1>9. p \in [0..N -> Nat]
  <2> HIDE DEF N
  <2> QED BY <1>6, <1>8
<1> QED
  BY <1>5, <1>7, <1>9 DEF EndsAre

\* Every line is at least its newline.
LEMMA EndsGrow ==
    ASSUME NEW lines \in Seq(Lines), NEW i \in 0..Len(lines), NEW j \in 0..Len(lines), i < j
    PROVE  Ends(lines)[i] < Ends(lines)[j]
<1> DEFINE N == Len(lines)
           e == Ends(lines)
           T == {k \in 0..N : i < k => e[i] < e[k]}
<1>1. /\ N \in Nat /\ e \in [0..N -> Nat]
      /\ \A k \in 1..N : e[k] = e[k - 1] + Width[lines[k]] /\ Width[lines[k]] \in Nat \ {0}
  BY EndsIs DEF EndsAre
<1> HIDE DEF e
<1>2. 0 \in T
  BY <1>1
<1>3. ASSUME NEW k \in 1..N, k - 1 \in T PROVE k \in T
  <2>1. i \in 0..N /\ k - 1 \in 0..N /\ k \in 0..N
    BY <1>1
  <2>4. e[i] \in Nat /\ e[k - 1] \in Nat
    BY <1>1, <2>1
  <2>5. e[k] = e[k - 1] + Width[lines[k]] /\ Width[lines[k]] \in Nat \ {0}
    BY <1>1
  <2>2. CASE i < k - 1
    <3>1. e[i] < e[k - 1]
      BY <1>3, <2>2
    <3> QED
      BY <2>1, <2>4, <2>5, <3>1
  <2>3. CASE i = k - 1
    BY <2>1, <2>3, <2>4, <2>5
  <2> QED
    BY <2>1, <2>2, <2>3
<1>4. \A k \in 0..N : k \in T
  <2> HIDE DEF T, N
  <2> QED BY <1>1, <1>2, <1>3, AllUpTo
<1> QED
  BY <1>4 DEF e

-----------------------------------------------------------------------------
(* What the lines add. *)

\* A state of a file whose cron flag is c.
Counter(c) == [offset : Nat, roles : [Roles -> Nat], calls : Nat, cron : {c}]

LEMMA FreshIs == ASSUME NEW c PROVE Fresh(c) \in Counter(c)
  BY DEF Fresh, Counter

LEMMA AddLineIs ==
    ASSUME NEW c, NEW state \in Counter(c), NEW l \in Lines
    PROVE  /\ AddLine(state, l) \in Counter(c)
           /\ AddLine(state, l).offset = state.offset + Width[l]
<1>1. Width[l] \in Nat /\ CallsOf[l] \in Nat
  OBVIOUS
<1>2. /\ state.offset \in Nat /\ state.roles \in [Roles -> Nat] /\ state.calls \in Nat
      /\ state.cron = c
  BY DEF Counter
<1> DEFINE roles == [r \in Roles |-> state.roles[r] + (IF RoleOf[l] = r THEN 1 ELSE 0)]
<1>3. roles \in [Roles -> Nat]
  BY <1>2
<1> HIDE DEF roles
<1> QED
  BY <1>1, <1>2, <1>3 DEF AddLine, Counter, roles

CountsAre(c, state, lines) ==
    /\ Counts(state, lines) \in [0..Len(lines) -> Counter(c)]
    /\ Counts(state, lines)[0] = state
    /\ \A i \in 1..Len(lines) :
          Counts(state, lines)[i] = AddLine(Counts(state, lines)[i - 1], lines[i])

LEMMA CountsIs ==
    ASSUME NEW c, NEW state \in Counter(c), NEW lines \in Seq(Lines)
    PROVE  CountsAre(c, state, lines)
<1> DEFINE N == Len(lines)
           step == [i \in 1..N |-> [s \in Counter(c) |-> AddLine(s, lines[i])]]
<1>1. N \in Nat
  OBVIOUS
<1>2. ASSUME NEW i \in 1..N, NEW s \in Counter(c) PROVE AddLine(s, lines[i]) \in Counter(c)
  <2>1. lines[i] \in Lines
    OBVIOUS
  <2> QED
    BY <2>1, AddLineIs
<1>3. PICK f \in [0..N -> Counter(c)] : Follows(f, 1..N, state, step)
  <2>1. step \in Steps(1..N, Counter(c))
    BY <1>2 DEF Steps
  <2> HIDE DEF step, N
  <2> QED
    BY <1>1, <2>1, RecursionUpTo
<1> DEFINE Body(g) == [i \in 0..N |-> IF i = 0 THEN state ELSE AddLine(g[i - 1], lines[i])]
<1>4. f = Body(f)
  <2>1. ASSUME NEW i \in 0..N
        PROVE  f[i] = IF i = 0 THEN state ELSE AddLine(f[i - 1], lines[i])
    <3>1. i # 0 => i \in 1..N /\ i - 1 \in 0..N
      BY <1>1
    <3>2. i # 0 => f[i - 1] \in Counter(c)
      BY <3>1
    <3>3. i # 0 => step[i][f[i - 1]] = AddLine(f[i - 1], lines[i])
      BY <3>1, <3>2
    <3> HIDE DEF step
    <3> QED
      BY <1>3, <3>1, <3>3 DEF Follows
  <2> HIDE DEF N
  <2> QED
    BY <2>1
<1>5. Counts(state, lines) = Body(Counts(state, lines))
  BY <1>4 DEF Counts
<1> HIDE DEF Body
<1>6. PICK p : p = Counts(state, lines)
  OBVIOUS
<1>7. p = Body(p)
  BY <1>5, <1>6
<1> USE DEF Body
<1>8. p[0] = state /\ \A i \in 1..N : p[i] = AddLine(p[i - 1], lines[i])
  <2>1. ASSUME NEW i \in 0..N PROVE p[i] = IF i = 0 THEN state ELSE AddLine(p[i - 1], lines[i])
    <3> HIDE DEF N
    <3> QED BY <1>7, Zenon
  <2>2. 0 \in 0..N /\ \A i \in 1..N : i \in 0..N /\ i # 0
    BY <1>1
  <2> QED
    BY <2>1, <2>2
<1>9. \A i \in 0..N : p[i] \in Counter(c)
  <2> DEFINE T == {i \in 0..N : p[i] \in Counter(c)}
  <2>1. 0 \in T
    BY <1>1, <1>8
  <2>2. ASSUME NEW i \in 1..N, i - 1 \in T PROVE i \in T
    <3>1. p[i - 1] \in Counter(c) /\ i \in 0..N
      BY <1>1, <2>2
    <3> QED
      BY <1>2, <1>8, <3>1
  <2> HIDE DEF T
  <2>3. \A i \in 0..N : i \in T
    BY <1>1, <2>1, <2>2, AllUpTo
  <2> QED
    BY <2>3 DEF T
<1>10. p \in [0..N -> Counter(c)]
  <2> HIDE DEF N
  <2> QED BY <1>7, <1>9
<1> QED
  BY <1>6, <1>8, <1>10 DEF CountsAre

\* The offset is where the last counted line ends.
LEMMA CountsOffset ==
    ASSUME NEW c, NEW state \in Counter(c), NEW lines \in Seq(Lines), NEW i \in 0..Len(lines)
    PROVE  Counts(state, lines)[i].offset = state.offset + Ends(lines)[i]
<1> DEFINE N == Len(lines)
           count == Counts(state, lines)
           e == Ends(lines)
           T == {k \in 0..N : count[k].offset = state.offset + e[k]}
<1>1. N \in Nat /\ state.offset \in Nat
  BY DEF Counter
<1>2. /\ count \in [0..N -> Counter(c)] /\ count[0] = state
      /\ \A k \in 1..N : count[k] = AddLine(count[k - 1], lines[k])
  BY CountsIs DEF CountsAre
<1>3. /\ e \in [0..N -> Nat] /\ e[0] = 0
      /\ \A k \in 1..N : e[k] = e[k - 1] + Width[lines[k]]
  BY EndsIs DEF EndsAre
<1> HIDE DEF count, e
<1>4. 0 \in T
  BY <1>1, <1>2, <1>3
<1>5. ASSUME NEW k \in 1..N, k - 1 \in T PROVE k \in T
  <2>1. k \in 0..N /\ k - 1 \in 0..N /\ lines[k] \in Lines /\ Width[lines[k]] \in Nat
    BY <1>1
  <2>2. count[k - 1] \in Counter(c) /\ e[k - 1] \in Nat
    BY <1>2, <1>3, <2>1
  <2>3. count[k].offset = count[k - 1].offset + Width[lines[k]]
    <3> DEFINE s == count[k - 1]
               l == lines[k]
    <3>1. s \in Counter(c) /\ l \in Lines /\ count[k] = AddLine(s, l)
      BY <1>2, <2>1, <2>2
    <3> HIDE DEF s, l
    <3>2. count[k].offset = s.offset + Width[l]
      BY <3>1, AddLineIs
    <3> QED
      BY <3>2 DEF s, l
  <2>4. count[k - 1].offset = state.offset + e[k - 1]
    BY <1>5
  <2>5. count[k].offset = state.offset + e[k]
    BY <1>1, <1>3, <2>1, <2>2, <2>3, <2>4
  <2> QED
    BY <2>1, <2>5
<1>6. \A k \in 0..N : k \in T
  <2> HIDE DEF T, N
  <2> QED BY <1>1, <1>4, <1>5, AllUpTo
<1> QED
  BY <1>6 DEF count, e

\* More lines, the first ones the same.
Extends(more, lines) ==
    Len(lines) <= Len(more) /\ \A j \in 1..Len(lines) : more[j] = lines[j]

\* Lines that follow do not change what the first ones add.
LEMMA CountsAgree ==
    ASSUME NEW c, NEW state \in Counter(c), NEW lines \in Seq(Lines), NEW more \in Seq(Lines),
           Extends(more, lines), NEW i \in 0..Len(lines)
    PROVE  Counts(state, more)[i] = Counts(state, lines)[i]
<1> DEFINE N == Len(lines)
           T == {k \in 0..N : Counts(state, more)[k] = Counts(state, lines)[k]}
<1>1. /\ N \in Nat /\ Len(more) \in Nat /\ N <= Len(more)
      /\ \A j \in 1..N : more[j] = lines[j]
  <2>1. N \in Nat /\ Len(more) \in Nat
    OBVIOUS
  <2>2. N <= Len(more) /\ \A j \in 1..N : more[j] = lines[j]
    BY Zenon DEF Extends
  <2> QED
    BY <2>1, <2>2
<1>2. CountsAre(c, state, lines) /\ CountsAre(c, state, more)
  BY CountsIs
<1>3. 0 \in T
  BY <1>1, <1>2 DEF CountsAre
<1>4. ASSUME NEW k \in 1..N, k - 1 \in T PROVE k \in T
  <2>1. k \in 0..N /\ k \in 1..Len(more) /\ more[k] = lines[k]
    <3> DEFINE L == Len(more)
    <3> HIDE DEF N, L
    <3>1. L \in Nat /\ N <= L /\ N \in Nat
      BY <1>1 DEF L
    <3>2. k \in 0..N /\ k \in 1..L
      BY <3>1
    <3> QED
      BY <1>1, <3>2 DEF L
  <2>2. /\ Counts(state, more)[k] = AddLine(Counts(state, more)[k - 1], more[k])
        /\ Counts(state, lines)[k] = AddLine(Counts(state, lines)[k - 1], lines[k])
    BY <1>2, <2>1 DEF CountsAre
  <2>3. Counts(state, more)[k - 1] = Counts(state, lines)[k - 1]
    BY <1>4
  <2> QED
    BY <2>1, <2>2, <2>3
<1>5. \A k \in 0..N : k \in T
  <2> HIDE DEF T, N
  <2> QED BY <1>1, <1>3, <1>4, AllUpTo
<1> QED
  BY <1>5

\* To count the rest from where the first lines end is to count them all.
LEMMA CountsResume ==
    ASSUME NEW c, NEW state \in Counter(c), NEW lines \in Seq(Lines), NEW n \in 0..Len(lines)
    PROVE  Count(Counts(state, lines)[n], SubSeq(lines, n + 1, Len(lines))) = Count(state, lines)
<1> DEFINE N == Len(lines)
           rest == SubSeq(lines, n + 1, N)
           M == N - n
           first == Counts(state, lines)[n]
           T == {k \in 0..M : Counts(first, rest)[k] = Counts(state, lines)[n + k]}
<1>1. N \in Nat /\ n \in Nat /\ M \in Nat /\ n + M = N
  OBVIOUS
<1>2. /\ rest \in Seq(Lines) /\ Len(rest) = M
      /\ \A k \in 1..M : rest[k] = lines[n + k]
  OBVIOUS
<1>3. CountsAre(c, state, lines)
  BY CountsIs
<1>4. first \in Counter(c)
  BY <1>3 DEF CountsAre
<1> HIDE DEF rest, first
<1>5. CountsAre(c, first, rest)
  BY <1>2, <1>4, CountsIs
<1>6. 0 \in T
  BY <1>1, <1>2, <1>5 DEF CountsAre, first
<1>7. ASSUME NEW k \in 1..M, k - 1 \in T PROVE k \in T
  <2>1. /\ k \in 0..M /\ n + k \in 1..N /\ (n + k) - 1 = n + (k - 1) /\ rest[k] = lines[n + k]
        /\ k \in 1..Len(rest)
    <3> HIDE DEF N, M
    <3> QED BY <1>1, <1>2
  <2>2. /\ Counts(first, rest)[k] = AddLine(Counts(first, rest)[k - 1], rest[k])
        /\ Counts(state, lines)[n + k] = AddLine(Counts(state, lines)[(n + k) - 1], lines[n + k])
    BY <1>3, <1>5, <2>1 DEF CountsAre
  <2>3. Counts(first, rest)[k - 1] = Counts(state, lines)[n + (k - 1)]
    BY <1>7
  <2> QED
    BY <2>1, <2>2, <2>3
<1>8. \A k \in 0..M : k \in T
  <2> HIDE DEF T, M
  <2> QED BY <1>1, <1>6, <1>7, AllUpTo
<1>9. Counts(first, rest)[M] = Counts(state, lines)[N]
  BY <1>1, <1>8
<1> QED
  BY <1>2, <1>9 DEF Count, first, rest

-----------------------------------------------------------------------------
(* One read. *)

\* The lines behind an offset at which a line ends.
LEMMA NewLinesAre ==
    ASSUME NEW f \in Files, disk[f].lines \in Seq(Lines), NEW n \in 0..Len(disk[f].lines),
           NEW state, state.offset = Ends(disk[f].lines)[n]
    PROVE  NewLines(state, f) = SubSeq(disk[f].lines, n + 1, Len(disk[f].lines))
<1> DEFINE lines == disk[f].lines
           N == Len(lines)
           e == Ends(lines)
           before == {i \in DOMAIN lines : e[i - 1] < e[n]}
<1>1. N \in Nat /\ n \in Nat /\ n <= N /\ DOMAIN lines = 1..N /\ e \in [0..N -> Nat]
  BY EndsIs DEF EndsAre
<1>2. ASSUME NEW i \in 1..N PROVE e[i - 1] < e[n] <=> i <= n
  <2>1. i - 1 \in 0..N /\ n \in 0..N /\ e[i - 1] \in Nat /\ e[n] \in Nat
    <3> HIDE DEF N, e
    <3> QED BY <1>1
  <2>2. CASE i - 1 < n
    <3>1. e[i - 1] < e[n]
      BY <2>1, <2>2, EndsGrow
    <3> QED
      BY <1>1, <2>2, <3>1
  <2>3. CASE i - 1 = n
    BY <1>1, <2>1, <2>3
  <2>4. CASE n < i - 1
    <3>1. e[n] < e[i - 1]
      BY <2>1, <2>4, EndsGrow
    <3> QED
      BY <1>1, <2>1, <2>4, <3>1
  <2> QED
    BY <1>1, <2>1, <2>2, <2>3, <2>4
<1> HIDE DEF e
<1>3. before = 1..n
  BY <1>1, <1>2
<1>4. Cardinality(1..n) = n
  BY <1>1, FS_Interval
<1> QED
  BY <1>3, <1>4 DEF NewLines, End, e

\* From the count of first lines a read comes to the count of first lines.
LEMMA ReadCounts ==
    ASSUME NEW f \in Files, disk[f].lines \in Seq(Lines),
           NEW state, IsAPrefix(state, disk[f].lines)
    PROVE  IsAPrefix(ReadNew(state, f), disk[f].lines)
<1> SUFFICES ASSUME NEW n \in 0..Len(disk[f].lines),
                    state = Counts(Fresh(state.cron), disk[f].lines)[n]
             PROVE  IsAPrefix(ReadNew(state, f), disk[f].lines)
  BY DEF IsAPrefix
<1> DEFINE c == state.cron
           lines == disk[f].lines
           N == Len(lines)
           fresh == Fresh(c)
           start == Restarted(state)
<1>1. N \in Nat /\ 0 \in 0..N /\ N \in 0..N
  OBVIOUS
<1>2. fresh \in Counter(c) /\ fresh.offset = 0
  BY FreshIs DEF Fresh
<1>3. CountsAre(c, fresh, lines)
  <2> HIDE DEF fresh, c
  <2> QED BY <1>2, CountsIs
<1>4. PICK k \in 0..N : start = Counts(fresh, lines)[k]
  <2>1. start = fresh \/ start = state
    BY DEF Restarted
  <2>2. fresh = Counts(fresh, lines)[0]
    BY <1>3 DEF CountsAre
  <2> QED
    BY <1>1, <2>1, <2>2
<1>5. start \in Counter(c) /\ start.cron = c
  <2>1. start \in Counter(c)
    <3>1. Counts(fresh, lines) \in [0..N -> Counter(c)]
      BY <1>3 DEF CountsAre
    <3> HIDE DEF fresh, c, start, lines, N
    <3> QED
      BY <1>4, <3>1
  <2> QED
    BY <2>1 DEF Counter
<1>6. CASE ~Readable(start, f)
  <2>1. ReadNew(state, f) = start
    BY <1>6 DEF ReadNew
  <2> HIDE DEF start
  <2> QED
    BY <1>4, <1>5, <2>1 DEF IsAPrefix
<1>7. CASE Readable(start, f)
  <2>1. start.offset = Ends(lines)[k]
    <3>1. start.offset = fresh.offset + Ends(lines)[k]
      <4> HIDE DEF fresh, c, lines
      <4> QED BY <1>2, <1>4, CountsOffset DEF lines
    <3>2. Ends(lines)[k] \in Nat
      BY EndsIs DEF EndsAre
    <3> QED
      BY <1>2, <3>1, <3>2
  <2>2. NewLines(start, f) = SubSeq(lines, k + 1, N)
    <3> HIDE DEF start
    <3> QED BY <2>1, NewLinesAre
  <2>3. Count(start, NewLines(start, f)) = Counts(fresh, lines)[N]
    <3> HIDE DEF fresh, c, start, lines
    <3>1. lines \in Seq(Lines) /\ k \in 0..Len(lines)
      BY DEF lines
    <3> QED
      BY <1>2, <1>4, <2>2, <3>1, CountsResume DEF Count
  <2>4. /\ Counts(fresh, lines)[N] \in Counter(c)
        /\ Counts(fresh, lines)[N].offset = LastEnd(f)
    <3>1. /\ lines \in Seq(Lines) /\ N \in 0..Len(lines)
          /\ Counts(fresh, lines) \in [0..N -> Counter(c)]
      BY <1>1, <1>3 DEF CountsAre
    <3>2. LastEnd(f) = Ends(lines)[N]
      BY DEF LastEnd, End
    <3> HIDE DEF fresh, c, lines, N
    <3>3. Counts(fresh, lines)[N].offset = fresh.offset + Ends(lines)[N]
      BY <1>2, <3>1, CountsOffset
    <3>4. Ends(lines)[N] \in Nat
      BY <3>1, EndsIs DEF EndsAre
    <3> QED
      BY <1>1, <1>2, <3>1, <3>2, <3>3, <3>4
  <2>5. ReadNew(state, f) = Counts(fresh, lines)[N]
    <3> DEFINE count == Counts(fresh, lines)[N]
    <3>1. ReadNew(state, f) = [offset |-> LastEnd(f), roles |-> count.roles,
                               calls |-> count.calls, cron |-> count.cron]
      BY <1>7, <2>3 DEF ReadNew, Counted
    <3> HIDE DEF count
    <3>2. count = [offset |-> count.offset, roles |-> count.roles,
                   calls |-> count.calls, cron |-> count.cron]
      BY <2>4 DEF Counter, count
    <3> QED
      BY <2>4, <3>1, <3>2 DEF count
  <2>6. Counts(fresh, lines)[N].cron = c
    BY <2>4 DEF Counter
  <2> HIDE DEF N
  <2> QED
    BY <1>1, <2>5, <2>6 DEF IsAPrefix, N
<1> QED
  BY <1>6, <1>7

-----------------------------------------------------------------------------
(* The inductive invariant. *)

\* What is remembered was once there: a path that comes back has been replaced.
OnceThere ==
    /\ DOMAIN disk = Files /\ DOMAIN files = Files
    /\ \A f \in Files :
          /\ disk[f].lines \in Seq(Lines) /\ disk[f].meta \in BOOLEAN
          /\ disk[f].is \in {"never", "there", "rotated"}
          /\ files[f] # NoState => disk[f].is # "never"
    /\ pc \in {"meta", "read"} => file \in Files /\ disk[file].is # "never"
    /\ pc = "read" => files[file] # NoState

SessionInv == OnceThere /\ ResumedIsAPrefix

LEMMA SessionStart == Init => SessionInv
<1> SUFFICES ASSUME Init PROVE SessionInv
  OBVIOUS
<1>1. /\ DOMAIN disk = Files /\ DOMAIN files = Files /\ pc = "idle"
      /\ \A f \in Files : disk[f] = Gone /\ files[f] = NoState
  BY DEF Init
<1>2. Gone.lines = <<>> /\ Gone.is = "never" /\ Gone.meta = FALSE /\ <<>> \in Seq(Lines)
  BY DEF Gone
<1>3. OnceThere
  BY <1>1, <1>2 DEF OnceThere
<1>4. ResumedIsAPrefix
  BY <1>1 DEF ResumedIsAPrefix
<1> QED
  BY <1>3, <1>4 DEF SessionInv

\* A count of first lines is one of the lines a file has grown to.
LEMMA PrefixGrows ==
    ASSUME NEW old \in Seq(Lines), NEW lines \in Seq(Lines), NEW state,
           Extends(lines, old), IsAPrefix(state, old)
    PROVE  IsAPrefix(state, lines)
<1> DEFINE fresh == Fresh(state.cron)
<1>1. PICK n \in 0..Len(old) : state = Counts(fresh, old)[n]
  BY DEF IsAPrefix
<1>2. fresh \in Counter(state.cron)
  BY FreshIs
<1>3. Counts(fresh, lines)[n] = Counts(fresh, old)[n]
  <2> DEFINE c == state.cron
  <2>1. fresh \in Counter(c)
    BY <1>2
  <2> HIDE DEF fresh, c
  <2> QED
    BY <1>1, <2>1, CountsAgree
<1>4. n \in 0..Len(lines)
  BY <1>1 DEF Extends
<1> QED
  BY <1>1, <1>3, <1>4 DEF IsAPrefix

LEMMA FreshIsAPrefix ==
    ASSUME NEW c, NEW lines \in Seq(Lines)
    PROVE  IsAPrefix(Fresh(c), lines)
<1> DEFINE fresh == Fresh(c)
<1>1. fresh.cron = c /\ fresh \in Counter(c)
  BY FreshIs DEF Fresh
<1>2. CountsAre(c, fresh, lines)
  <2> HIDE DEF fresh
  <2> QED BY <1>1, CountsIs
<1>3. Counts(fresh, lines)[0] = fresh /\ 0 \in 0..Len(lines)
  BY <1>2 DEF CountsAre
<1> QED
  BY <1>1, <1>3 DEF IsAPrefix

\* The lines grow, or the file is marked as written anew, or it is not there.
LEMMA WriterKeeps ==
    ASSUME SessionInv, NEW f \in Files, NEW is, NEW lines \in Seq(Lines), NEW tail, NEW meta \in BOOLEAN,
           Becomes(f, is, lines, tail, meta), UNCHANGED <<files, pc, file>>,
           is \in {disk[f].is, "there", "rotated"}, rewritten \subseteq rewritten',
           \/ f \in rewritten'
           \/ is # "there"
           \/ disk[f].is = "never"
           \/ disk[f].is = "there" /\ Extends(lines, disk[f].lines)
    PROVE  SessionInv'
<1> DEFINE new == [is |-> is, lines |-> lines, tail |-> tail, meta |-> meta]
<1>1. DOMAIN disk' = Files /\ disk'[f] = new /\ \A g \in Files \ {f} : disk'[g] = disk[g]
  BY DEF SessionInv, OnceThere, Becomes
<1>2. new.is = is /\ new.lines = lines /\ new.meta = meta
  OBVIOUS
<1> HIDE DEF new
<1>3. disk'[f].is = is /\ disk'[f].lines = lines /\ disk'[f].meta = meta
  BY <1>1, <1>2
<1>4. OnceThere'
  BY <1>1, <1>3 DEF SessionInv, OnceThere
<1>5. ASSUME NEW g \in Files, g \notin rewritten', files[g] # NoState, disk'[g].is = "there"
      PROVE  IsAPrefix(files[g], disk'[g].lines)
  <2>1. CASE g # f
    BY <1>1, <1>5, <2>1 DEF SessionInv, ResumedIsAPrefix, There
  <2>2. CASE g = f
    <3> DEFINE old == disk[f].lines
    <3>1. disk[f].is = "there" /\ Extends(lines, old)
      BY <1>3, <1>5, <2>2 DEF SessionInv, OnceThere
    <3>2. IsAPrefix(files[f], old)
      BY <1>5, <2>2, <3>1 DEF SessionInv, ResumedIsAPrefix, There
    <3>3. old \in Seq(Lines)
      BY DEF SessionInv, OnceThere
    <3> HIDE DEF old
    <3> QED
      BY <1>3, <2>2, <3>1, <3>2, <3>3, PrefixGrows
  <2> QED
    BY <2>1, <2>2
<1>6. ResumedIsAPrefix'
  BY <1>5 DEF ResumedIsAPrefix, There, SessionInv
<1> QED
  BY <1>4, <1>6 DEF SessionInv

LEMMA WriterStep == SessionInv /\ Writer => SessionInv'
<1> SUFFICES ASSUME SessionInv, Writer PROVE SessionInv'
  OBVIOUS
<1>1. UNCHANGED <<files, pc, file>> /\ rewritten \subseteq rewritten'
  BY DEF Writer, MakeDir, WriteMeta, Create, Replaced, AppendLine, AppendPart, Rewrite, Rotate,
     collectorVars
<1>2. CASE MakeDir
  BY <1>2 DEF MakeDir, collectorVars, SessionInv, OnceThere, ResumedIsAPrefix, There
<1>3. ASSUME NEW f \in Files,
             \/ WriteMeta(f) \/ Create(f) \/ Rewrite(f) \/ Rotate(f)
             \/ \E l \in Lines : AppendLine(f, l) \/ AppendPart(f, l)
      PROVE  SessionInv'
  <2> DEFINE old == disk[f].lines
  <2>1. /\ old \in Seq(Lines) /\ <<>> \in Seq(Lines) /\ disk[f].meta \in BOOLEAN
        /\ disk[f].is \in {"never", "there", "rotated"}
    BY DEF SessionInv, OnceThere
  <2>2. CASE WriteMeta(f)
    <3>1. Becomes(f, disk[f].is, old, disk[f].tail, TRUE)
      BY <2>2 DEF WriteMeta
    <3>2. Extends(old, old)
      BY <2>1 DEF Extends
    <3> QED
      BY <1>1, <2>1, <3>1, <3>2, WriterKeeps
  <2>3. CASE Create(f)
    BY <1>1, <2>1, <2>3, WriterKeeps DEF Create, Replaced
  <2>4. CASE Rewrite(f)
    <3> DEFINE none == <<>>
    <3>1. f \in rewritten' /\ Becomes(f, "there", none, NoTail, disk[f].meta)
      BY <2>4 DEF Rewrite, Replaced
    <3>2. none \in Seq(Lines)
      BY <2>1
    <3> HIDE DEF none
    <3> QED
      BY <1>1, <2>1, <3>1, <3>2, WriterKeeps
  <2>5. CASE Rotate(f)
    BY <1>1, <2>1, <2>5, WriterKeeps DEF Rotate
  <2>6. ASSUME NEW l \in Lines, AppendLine(f, l) PROVE SessionInv'
    <3> DEFINE more == Append(old, l)
    <3>1. more \in Seq(Lines) /\ Extends(more, old)
      BY <2>1 DEF Extends
    <3>2. disk[f].is = "there" /\ Becomes(f, "there", more, NoTail, disk[f].meta)
      BY <2>6 DEF AppendLine, There
    <3> HIDE DEF more
    <3> QED
      BY <1>1, <2>1, <3>1, <3>2, WriterKeeps
  <2>7. ASSUME NEW l \in Lines, AppendPart(f, l) PROVE SessionInv'
    <3>1. PICK k \in 1..(Width[l] - 1) : Becomes(f, "there", old, <<l, k>>, disk[f].meta)
      BY <2>7 DEF AppendPart
    <3>2. disk[f].is = "there"
      BY <2>7 DEF AppendPart, There
    <3>3. Extends(old, old)
      BY <2>1 DEF Extends
    <3> QED
      BY <1>1, <2>1, <3>1, <3>2, <3>3, WriterKeeps
  <2> QED
    BY <1>3, <2>2, <2>3, <2>4, <2>5, <2>6, <2>7
<1> QED
  BY <1>2, <1>3 DEF Writer

LEMMA CollectorStep ==
    SessionInv /\ (Collect \/ Retire \/ Restart \/ UNCHANGED vars) => SessionInv'
<1> SUFFICES ASSUME SessionInv, Collect \/ Retire \/ Restart \/ UNCHANGED vars PROVE SessionInv'
  OBVIOUS
<1>1. UNCHANGED <<disk, rewritten>>
  BY DEF Collect, CollectUnavailable, List, Stat, ReadMeta, Read, Emit, Retire, Restart,
     diskVars, vars
<1>2. CASE UNCHANGED files /\ (UNCHANGED <<pc, file>> \/ pc' \notin {"meta", "read"})
  BY <1>1, <1>2 DEF SessionInv, OnceThere, ResumedIsAPrefix, There
<1>3. ASSUME NEW f \in Files, Stat(f) PROVE SessionInv'
  BY <1>1, <1>3 DEF Stat, SessionInv, OnceThere, ResumedIsAPrefix, There
<1>4. CASE List \/ Restart
  <2>1. /\ DOMAIN files' = Files /\ pc' \notin {"meta", "read"}
        /\ \A f \in Files : files'[f] \in {files[f], NoState}
    BY <1>4 DEF List, Restart
  <2> QED
    BY <1>1, <2>1 DEF SessionInv, OnceThere, ResumedIsAPrefix, There
<1>5. CASE ReadMeta
  <2> DEFINE c == disk[file].meta /\ file \in CronFiles
  <2>1. /\ pc = "meta" /\ pc' = "read" /\ file' = file
        /\ files' = [files EXCEPT ![file] = IF @ # NoState THEN @ ELSE Fresh(c)]
    BY <1>5 DEF ReadMeta
  <2>2. file \in Files /\ Fresh(c) # NoState
    <3>1. file \in Files /\ c \in BOOLEAN
      BY <2>1 DEF SessionInv, OnceThere
    <3> HIDE DEF c
    <3>2. Fresh(c) \in FileState
      BY <3>1, FreshIs DEF Counter, FileState
    <3> QED
      BY <3>1, <3>2 DEF SessionAssumption
  <2> HIDE DEF c
  <2>3. OnceThere'
    BY <1>1, <2>1, <2>2 DEF SessionInv, OnceThere
  <2>4. ASSUME NEW f \in Files \ rewritten, files'[f] # NoState, There(f)
        PROVE  IsAPrefix(files'[f], disk[f].lines)
    <3>1. files'[f] = files[f] \/ files'[f] = Fresh(c)
      BY <2>1 DEF SessionInv, OnceThere
    <3>2. disk[f].lines \in Seq(Lines)
      BY DEF SessionInv, OnceThere
    <3> QED
      BY <2>4, <3>1, <3>2, FreshIsAPrefix DEF SessionInv, ResumedIsAPrefix
  <2>5. ResumedIsAPrefix'
    BY <1>1, <2>4 DEF ResumedIsAPrefix, There
  <2> QED
    BY <2>3, <2>5 DEF SessionInv
<1>6. CASE Read
  <2>1. /\ pc = "read" /\ pc' = "files" /\ file \in Files
        /\ files' = [files EXCEPT ![file] = ReadNew(@, file)]
    BY <1>6 DEF Read, SessionInv, OnceThere
  <2>2. OnceThere'
    BY <1>1, <2>1 DEF SessionInv, OnceThere
  <2>3. ASSUME NEW f \in Files \ rewritten, files'[f] # NoState, There(f)
        PROVE  IsAPrefix(files'[f], disk[f].lines)
    <3>1. CASE f # file
      BY <2>1, <2>3, <3>1 DEF SessionInv, OnceThere, ResumedIsAPrefix
    <3>2. CASE f = file
      <4>1. files'[f] = ReadNew(files[f], f)
        BY <2>1, <3>2 DEF SessionInv, OnceThere
      <4>2. IsAPrefix(files[f], disk[f].lines)
        BY <2>1, <2>3, <3>2 DEF SessionInv, OnceThere, ResumedIsAPrefix
      <4>3. disk[f].lines \in Seq(Lines)
        BY DEF SessionInv, OnceThere
      <4> QED
        BY <4>1, <4>2, <4>3, ReadCounts
    <3> QED
      BY <3>1, <3>2
  <2>4. ResumedIsAPrefix'
    BY <1>1, <2>3 DEF ResumedIsAPrefix, There
  <2> QED
    BY <2>2, <2>4 DEF SessionInv
<1>7. CASE CollectUnavailable \/ Emit \/ Retire \/ UNCHANGED vars
  BY <1>2, <1>7 DEF CollectUnavailable, Emit, Retire, vars
<1> QED
  BY <1>3, <1>4, <1>5, <1>6, <1>7 DEF Collect

\* A path has an entry in the files map only if its transcript was there, and a
\* collect is at a file it has met, in every reachable state.
THEOREM SessionCorrect == Spec => []SessionInv
<1>1. SessionInv /\ [Next]_vars => SessionInv'
  BY WriterStep, CollectorStep DEF Next, Retired
<1> QED
  BY <1>1, SessionStart, PTL DEF Spec

\* Wherever the writer is when the collector looks, and whatever restarts fall
\* in between: the resumed state is the count of first lines (FR-S4).
THEOREM Resumed == Spec => []ResumedIsAPrefix
<1>1. SessionInv => ResumedIsAPrefix
  BY DEF SessionInv
<1> QED
  BY <1>1, SessionCorrect, PTL

=============================================================================
