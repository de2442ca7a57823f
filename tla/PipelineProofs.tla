--------------------------- MODULE PipelineProofs ---------------------------
(***************************************************************************)
(* Proofs about Pipeline, for every set of holders, every capacity and     *)
(* every batch size: its types, its bounds, and that it implements the     *)
(* abstract queue of BestEffort.                                           *)
(***************************************************************************)
EXTENDS Pipeline, TLAPS

USE PipelineAssumption

-----------------------------------------------------------------------------
(* Sequences: what the moves between channel, buffer and batch come to. *)

\* Taking the head of one sequence to the end of another leaves their
\* concatenation as it was.
LEMMA ShiftHead ==
    ASSUME NEW S, NEW p \in Seq(S), NEW q \in Seq(S), q # <<>>
    PROVE  /\ Append(p, Head(q)) \in Seq(S)
           /\ Tail(q) \in Seq(S)
           /\ Append(p, Head(q)) \o Tail(q) = p \o q
  OBVIOUS

\* Appending to the last part of a concatenation appends to the whole.
LEMMA AppendLast ==
    ASSUME NEW S, NEW p \in Seq(S), NEW q \in Seq(S), NEW x \in S
    PROVE  p \o Append(q, x) = Append(p \o q, x)
  OBVIOUS

\* A concatenation is cut where it was joined.
LEMMA CutConcat ==
    ASSUME NEW S, NEW p \in Seq(S), NEW q \in Seq(S)
    PROVE  /\ SubSeq(p \o q, 1, Len(p)) = p
           /\ SubSeq(p \o q, Len(p) + 1, Len(p \o q)) = q
  OBVIOUS

LEMMA EmptyConcat ==
    ASSUME NEW S, NEW p \in Seq(S)
    PROVE  <<>> \o p = p /\ p \o <<>> = p
  OBVIOUS

LEMMA ConcatAssoc ==
    ASSUME NEW S, NEW p \in Seq(S), NEW q \in Seq(S), NEW r \in Seq(S)
    PROVE  (p \o q) \o r = p \o (q \o r)
  OBVIOUS

-----------------------------------------------------------------------------
(* Types and bounds. *)

\* The inductive invariant: types, where a batch can be, its size, and an end
\* that leaves nothing behind.
PipelineInv == TypeOK /\ BatchOnlyInExport /\ BatchesAreBounded /\ EndsEmpty

LEMMA PipelineInit == Init => PipelineInv
  BY DEF Init, PipelineInv, TypeOK, BatchOnlyInExport, BatchesAreBounded, BatchLimit,
     EndsEmpty

LEMMA EmitKeeps ==
    ASSUME PipelineInv, NEW h \in Holders, Emit(h)
    PROVE  PipelineInv'
<1>1. TypeOK'
  <2>1. emitted[h] + 1 \in 1..MaxSignals /\ emitted' = [emitted EXCEPT ![h] = @ + 1]
    BY DEF PipelineInv, TypeOK, Emit, Emitting
  <2>2. [from |-> h, no |-> emitted'[h]] \in Signal
    BY <2>1 DEF PipelineInv, TypeOK, Signal
  <2>3. emitted' \in [Holders -> 0..MaxSignals]
    BY <2>1 DEF PipelineInv, TypeOK
  <2>4. chan' \in Seq(Signal) /\ Len(chan') <= ChannelCapacity /\ dropped' \in Nat
    <3> DEFINE x == [from |-> h, no |-> emitted'[h]]
    <3>1. /\ x \in Signal
          /\ chan \in Seq(Signal) /\ Len(chan) <= ChannelCapacity /\ dropped \in Nat
          /\ \/ Len(chan) < ChannelCapacity /\ chan' = Append(chan, x) /\ dropped' = dropped
             \/ chan' = chan /\ dropped' = dropped + 1
      BY <2>2 DEF PipelineInv, TypeOK, Emit
    <3> HIDE DEF x
    <3> QED
      BY <3>1
  <2> QED
    BY <2>3, <2>4 DEF PipelineInv, TypeOK, Emit
<1>2. h \in handles /\ UNCHANGED <<handles, buf, drain, batch>>
  BY DEF Emit, Emitting
<1>3. BatchOnlyInExport' /\ BatchesAreBounded'
  BY <1>2 DEF PipelineInv, BatchOnlyInExport, BatchesAreBounded
<1>4. EndsEmpty'
  BY <1>2 DEF PipelineInv, EndsEmpty
<1> QED
  BY <1>1, <1>3, <1>4 DEF PipelineInv

LEMMA DropSinksKeeps ==
    ASSUME PipelineInv, NEW H \in SUBSET Holders, DropSinks(H)
    PROVE  PipelineInv'
  BY DEF PipelineInv, TypeOK, BatchOnlyInExport, BatchesAreBounded, EndsEmpty, Pending,
     DropSinks

LEMMA ReceiveKeeps == ASSUME PipelineInv, Receive PROVE PipelineInv'
<1> DEFINE filled == Append(buf, Head(chan))
<1>1. /\ drain = "receiving" /\ chan # <<>> /\ chan' = Tail(chan)
      /\ \/ /\ Len(filled) >= BatchSize
            /\ batch' = filled /\ buf' = <<>> /\ drain' = "exporting"
         \/ /\ ~(Len(filled) >= BatchSize)
            /\ buf' = filled /\ UNCHANGED <<batch, drain>>
      /\ UNCHANGED <<handles, emitted, dropped, delivered, failed>>
  BY DEF Receive, StartExport
<1>2. /\ filled \in Seq(Signal) /\ Len(filled) = Len(buf) + 1
      /\ Tail(chan) \in Seq(Signal) /\ Len(Tail(chan)) = Len(chan) - 1
      /\ Len(buf) \in Nat /\ Len(chan) \in Nat /\ batch = <<>>
  BY <1>1 DEF PipelineInv, TypeOK, BatchOnlyInExport
<1> HIDE DEF filled
<1>3. TypeOK'
  <2>1. Len(chan') <= ChannelCapacity /\ chan' \in Seq(Signal)
    BY <1>1, <1>2 DEF PipelineInv, TypeOK
  <2>2. buf' \in Seq(Signal) /\ batch' \in Seq(Signal)
    <3>1. <<>> \in Seq(Signal)
      OBVIOUS
    <3> QED
      BY <1>1, <1>2, <3>1, Zenon
  <2>3. drain' \in {"receiving", "exporting", "closing", "done"}
    BY <1>1
  <2> QED
    BY <1>1, <2>1, <2>2, <2>3 DEF PipelineInv, TypeOK
<1>4. BatchOnlyInExport' /\ EndsEmpty'
  BY <1>1, <1>2 DEF BatchOnlyInExport, EndsEmpty
<1>5. BatchesAreBounded'
  BY <1>1, <1>2 DEF PipelineInv, BatchesAreBounded, BatchLimit
<1> QED
  BY <1>3, <1>4, <1>5 DEF PipelineInv

LEMMA ExportStartKeeps ==
    ASSUME PipelineInv, FlushTick \/ ChannelClosed PROVE PipelineInv'
<1>1. /\ drain = "receiving" /\ batch' = buf /\ buf' = <<>>
      /\ \/ drain' = "exporting"
         \/ drain' = "closing" /\ handles = {} /\ chan = <<>>
      /\ UNCHANGED <<handles, emitted, dropped, chan, delivered, failed>>
  BY DEF FlushTick, ChannelClosed, StartExport
<1>2. TypeOK'
  BY <1>1 DEF PipelineInv, TypeOK
<1>3. BatchOnlyInExport' /\ EndsEmpty'
  BY <1>1 DEF BatchOnlyInExport, EndsEmpty
<1>4. BatchesAreBounded'
  BY <1>1 DEF PipelineInv, TypeOK, BatchesAreBounded, BatchLimit
<1> QED
  BY <1>2, <1>3, <1>4 DEF PipelineInv

LEMMA ExportEndKeeps ==
    ASSUME PipelineInv, ExportOk \/ ExportFails PROVE PipelineInv'
<1>1. /\ drain \in {"exporting", "closing"} /\ batch' = <<>>
      /\ drain' = IF drain = "closing" THEN "done" ELSE "receiving"
      /\ UNCHANGED <<handles, emitted, dropped, chan, buf>>
      /\ \/ delivered' = delivered \o batch /\ failed' = failed
         \/ failed' = failed \o batch /\ delivered' = delivered
  BY DEF ExportOk, ExportFails, ExportEnds
<1>2. TypeOK'
  <2>1. delivered' \in Seq(Signal) /\ failed' \in Seq(Signal) /\ batch' \in Seq(Signal)
    <3>1. /\ delivered \in Seq(Signal) /\ failed \in Seq(Signal) /\ batch \in Seq(Signal)
          /\ <<>> \in Seq(Signal)
      BY DEF PipelineInv, TypeOK
    <3>2. delivered \o batch \in Seq(Signal) /\ failed \o batch \in Seq(Signal)
      BY <3>1
    <3> QED
      BY <1>1, <3>1, <3>2, Zenon
  <2>2. drain' \in {"receiving", "exporting", "closing", "done"}
    BY <1>1
  <2> QED
    BY <1>1, <2>1, <2>2 DEF PipelineInv, TypeOK
<1>3. BatchOnlyInExport' /\ BatchesAreBounded'
  BY <1>1 DEF PipelineInv, TypeOK, BatchOnlyInExport, BatchesAreBounded, BatchLimit
<1>4. EndsEmpty'
  BY <1>1, EmptyConcat DEF PipelineInv, TypeOK, EndsEmpty, Pending
<1> QED
  BY <1>2, <1>3, <1>4 DEF PipelineInv

LEMMA PipelineStep == PipelineInv /\ [Next]_vars => PipelineInv'
<1> SUFFICES ASSUME PipelineInv, [Next]_vars PROVE PipelineInv'
    OBVIOUS
<1>1. CASE Done \/ UNCHANGED vars
  BY <1>1 DEF Done, vars, PipelineInv, TypeOK, BatchOnlyInExport, BatchesAreBounded,
     EndsEmpty, Pending
<1> QED
  BY <1>1, EmitKeeps, DropSinksKeeps, ReceiveKeeps, ExportStartKeeps, ExportEndKeeps
  DEF Next, Drain

\* Types, batch sizes and the empty end hold of every instance.
THEOREM PipelineCorrect == Spec => []PipelineInv
  BY PipelineInit, PipelineStep, PTL DEF Spec

\* Every variable has its type, and the channel is never over its capacity.
THEOREM PipelineTypes == Spec => []TypeOK
<1>1. PipelineInv => TypeOK
  BY DEF PipelineInv
<1> QED
  BY PipelineCorrect, <1>1, PTL

\* No batch is larger than the configured size.
THEOREM BoundedBatches == Spec => []BatchesAreBounded
<1>1. PipelineInv => BatchesAreBounded
  BY DEF PipelineInv
<1> QED
  BY PipelineCorrect, <1>1, PTL

\* A drain that is over has handed over everything that was accepted.
THEOREM FinalFlush == Spec => []EndsEmpty
<1>1. PipelineInv => EndsEmpty
  BY DEF PipelineInv
<1> QED
  BY PipelineCorrect, <1>1, PTL

-----------------------------------------------------------------------------
(* Pipeline implements BestEffort. *)

LEMMA PendingInit == Init => Promise!Init
<1> SUFFICES ASSUME Init PROVE Promise!Init
    OBVIOUS
<1>1. Pending = <<>>
  BY DEF Init, Pending
<1> QED
  BY <1>1 DEF Init, Promise!Init

\* What is pending begins with the batch under way.
LEMMA PendingParts ==
    ASSUME batch \in Seq(Signal), buf \in Seq(Signal), chan \in Seq(Signal)
    PROVE  Pending = batch \o (buf \o chan)
  BY ConcatAssoc DEF Pending

\* A step of the drain that hands nothing over leaves what is pending as it is.
LEMMA BatchingIsInvisible ==
    ASSUME PipelineInv, Receive \/ FlushTick \/ ChannelClosed
    PROVE  UNCHANGED <<emitted, dropped, Pending, delivered, failed>>
<1>1. batch = <<>> /\ buf \in Seq(Signal) /\ chan \in Seq(Signal)
  BY DEF PipelineInv, TypeOK, BatchOnlyInExport, Receive, FlushTick, ChannelClosed
<1>2. Pending = buf \o chan
  BY <1>1, EmptyConcat DEF Pending
<1>3. CASE Receive
  <2> DEFINE filled == Append(buf, Head(chan))
  <2>1. /\ chan # <<>> /\ chan' = Tail(chan)
        /\ \/ batch' = filled /\ buf' = <<>>
           \/ batch' = batch /\ buf' = filled
        /\ UNCHANGED <<emitted, dropped, delivered, failed>>
    BY <1>3 DEF Receive, StartExport
  <2>2. /\ filled \in Seq(Signal) /\ Tail(chan) \in Seq(Signal)
        /\ filled \o Tail(chan) = buf \o chan
    BY <1>1, <2>1, ShiftHead
  <2> HIDE DEF filled
  <2>3. Pending' = filled \o Tail(chan)
    BY <1>1, <2>1, <2>2, EmptyConcat DEF Pending
  <2> QED
    BY <1>2, <2>1, <2>2, <2>3
<1>4. CASE FlushTick \/ ChannelClosed
  <2>1. /\ batch' = buf /\ buf' = <<>> /\ chan' = chan
        /\ UNCHANGED <<emitted, dropped, delivered, failed>>
    BY <1>4 DEF FlushTick, ChannelClosed, StartExport
  <2>2. Pending' = buf \o chan
    BY <1>1, <2>1, EmptyConcat DEF Pending
  <2> QED
    BY <1>2, <2>1, <2>2
<1> QED
  BY <1>3, <1>4

LEMMA EmitIsAcceptOrRefuse ==
    ASSUME PipelineInv, NEW h \in Holders, Emit(h)
    PROVE  Promise!Accept(h) \/ Promise!Refuse(h)
<1> DEFINE x == [from |-> h, no |-> emitted'[h]]
<1>1. /\ batch \in Seq(Signal) /\ buf \in Seq(Signal) /\ chan \in Seq(Signal)
      /\ batch \o buf \in Seq(Signal)
  BY DEF PipelineInv, TypeOK
<1>2. Promise!Emitting(h)
  BY DEF Emit, Emitting, Promise!Emitting
<1>3. UNCHANGED <<batch, buf, delivered, failed>>
  BY DEF Emit
<1>4. CASE Len(chan) < ChannelCapacity /\ chan' = Append(chan, x) /\ UNCHANGED dropped
  <2>1. x \in Signal
    BY DEF PipelineInv, TypeOK, Emit, Emitting, Signal
  <2> HIDE DEF x
  <2>2. Pending' = Append(Pending, x)
    BY <1>1, <1>3, <1>4, <2>1, AppendLast DEF Pending
  <2> USE DEF x
  <2> QED
    BY <1>2, <1>3, <1>4, <2>2 DEF Promise!Accept
<1>5. CASE Len(chan) = ChannelCapacity /\ dropped' = dropped + 1 /\ UNCHANGED chan
  <2>1. Pending' = Pending
    BY <1>3, <1>5 DEF Pending
  <2>2. Len(Pending) >= ChannelCapacity
    BY <1>1, <1>5 DEF Pending
  <2> QED
    BY <1>2, <1>3, <1>5, <2>1, <2>2 DEF Promise!Refuse
<1> QED
  BY <1>4, <1>5 DEF Emit

LEMMA ExportIsHandOver ==
    ASSUME PipelineInv, ExportOk \/ ExportFails
    PROVE  Promise!HandOver(Len(batch)) /\ Len(batch) \in 0..Len(Pending)
<1> DEFINE rest == buf \o chan
<1>1. /\ batch \in Seq(Signal) /\ buf \in Seq(Signal) /\ chan \in Seq(Signal)
      /\ rest \in Seq(Signal)
  BY DEF PipelineInv, TypeOK
<1>2. /\ batch' = <<>>
      /\ UNCHANGED <<emitted, dropped, chan, buf>>
      /\ \/ delivered' = delivered \o batch /\ failed' = failed
         \/ failed' = failed \o batch /\ delivered' = delivered
  BY DEF ExportOk, ExportFails, ExportEnds
<1>3. Pending = batch \o rest
  BY <1>1, PendingParts
<1>4. Pending' = rest
  BY <1>1, <1>2, EmptyConcat DEF Pending
<1> HIDE DEF rest
<1>5. /\ SubSeq(Pending, 1, Len(batch)) = batch
      /\ SubSeq(Pending, Len(batch) + 1, Len(Pending)) = rest
  BY <1>1, <1>3, CutConcat
<1>6. Len(batch) \in 0..Len(Pending)
  BY <1>1, <1>3
<1> QED
  BY <1>2, <1>4, <1>5, <1>6 DEF Promise!HandOver

LEMMA PendingStep ==
    PipelineInv /\ [Next]_vars => [Promise!Next]_(Promise!vars)
<1> SUFFICES ASSUME PipelineInv, [Next]_vars PROVE [Promise!Next]_(Promise!vars)
    OBVIOUS
<1>1. ASSUME NEW h \in Holders, Emit(h) PROVE Promise!Next
  BY <1>1, EmitIsAcceptOrRefuse DEF Promise!Next
<1>2. CASE ExportOk \/ ExportFails
  BY <1>2, ExportIsHandOver DEF Promise!Next
<1>3. CASE Receive \/ FlushTick \/ ChannelClosed
  BY <1>3, BatchingIsInvisible DEF Promise!vars
<1>4. ASSUME NEW H \in SUBSET Holders, DropSinks(H) PROVE UNCHANGED Promise!vars
  BY <1>4 DEF DropSinks, Promise!vars, Pending
<1>5. CASE Done \/ UNCHANGED vars
  BY <1>5 DEF Done, vars, Promise!vars, Pending
<1> QED
  BY <1>1, <1>2, <1>3, <1>4, <1>5 DEF Next, Drain

\* The channel, the buffer and the batch together behave as one queue that
\* keeps the order, duplicates nothing, and refuses only under backpressure.
THEOREM Implementation == Spec => ImplementsBestEffort
<1>1. Spec => Promise!Init /\ [][Promise!Next]_(Promise!vars)
  BY PendingInit, PendingStep, PipelineCorrect, PTL DEF Spec
<1> QED
  BY <1>1 DEF ImplementsBestEffort, Promise!Spec

-----------------------------------------------------------------------------
(* Order and at-most-once, on the level of the abstract queue. *)

InOrder(q)   == \A i, j \in 1..Len(q) : i < j /\ q[i].from = q[j].from => q[i].no < q[j].no
Before(p, q) == \A i \in 1..Len(p), j \in 1..Len(q) : p[i].from = q[j].from => p[i].no < q[j].no
Apart(p, q)  == \A i \in 1..Len(p), j \in 1..Len(q) : p[i] # q[j]

OneByOne(d, f, p) ==
    /\ InOrder(d) /\ InOrder(f) /\ InOrder(p)
    /\ Before(d, p) /\ Before(f, p) /\ Apart(d, f)

\* The signals of q are among those emitted so far.
Numbered(q, e) == \A i \in 1..Len(q) : q[i].no <= e[q[i].from]

\* The oldest of what is pending go to the end of what was answered.
LEMMA HandingOverKeepsOrder ==
    ASSUME NEW d \in Seq(Signal), NEW f \in Seq(Signal), NEW b \in Seq(Signal),
           NEW r \in Seq(Signal), OneByOne(d, f, b \o r)
    PROVE  OneByOne(d \o b, f, r)
<1>1. /\ Len(b \o r) = Len(b) + Len(r) /\ Len(b) \in Nat /\ Len(r) \in Nat
      /\ \A i \in 1..Len(b) : (b \o r)[i] = b[i]
      /\ \A i \in 1..Len(r) : (b \o r)[Len(b) + i] = r[i]
  OBVIOUS
<1>2. /\ Len(d \o b) = Len(d) + Len(b) /\ Len(d) \in Nat
      /\ \A i \in 1..Len(d) : (d \o b)[i] = d[i]
      /\ \A i \in (Len(d) + 1)..(Len(d) + Len(b)) :
            i - Len(d) \in 1..Len(b) /\ (d \o b)[i] = b[i - Len(d)]
  OBVIOUS
<1>3. Before(d, b) /\ Before(d, r) /\ Before(f, b) /\ Before(f, r)
  <2>1. Before(d, b \o r) /\ Before(f, b \o r)
    BY DEF OneByOne
  <2>2. /\ \A j \in 1..Len(b) : j \in 1..Len(b \o r)
        /\ \A j \in 1..Len(r) : Len(b) + j \in 1..Len(b \o r)
    BY <1>1
  <2> QED
    BY <1>1, <2>1, <2>2 DEF Before
<1>4. InOrder(b) /\ InOrder(r) /\ Before(b, r)
  <2>1. InOrder(b \o r)
    BY DEF OneByOne
  <2>2. InOrder(b)
    <3> SUFFICES ASSUME NEW i \in 1..Len(b), NEW j \in 1..Len(b), i < j, b[i].from = b[j].from
                 PROVE  b[i].no < b[j].no
      BY DEF InOrder
    <3>1. /\ i \in 1..Len(b \o r) /\ j \in 1..Len(b \o r)
          /\ (b \o r)[i] = b[i] /\ (b \o r)[j] = b[j]
      BY <1>1
    <3> QED
      BY <2>1, <3>1 DEF InOrder
  <2>3. /\ \A j \in 1..Len(r) : Len(b) + j \in 1..Len(b \o r)
        /\ \A i, j \in 1..Len(r) : i < j => Len(b) + i < Len(b) + j
        /\ \A i \in 1..Len(b), j \in 1..Len(r) : i < Len(b) + j
    BY <1>1
  <2>4. InOrder(r)
    BY <1>1, <2>1, <2>3 DEF InOrder
  <2>5. Before(b, r)
    <3> SUFFICES ASSUME NEW i \in 1..Len(b), NEW j \in 1..Len(r), b[i].from = r[j].from
                 PROVE  b[i].no < r[j].no
      BY DEF Before
    <3>1. /\ i \in 1..Len(b \o r) /\ Len(b) + j \in 1..Len(b \o r) /\ i < Len(b) + j
          /\ (b \o r)[i] = b[i] /\ (b \o r)[Len(b) + j] = r[j]
      BY <1>1
    <3> QED
      BY <2>1, <3>1 DEF InOrder
  <2> QED
    BY <2>2, <2>4, <2>5
<1>5. InOrder(d \o b)
  <2> SUFFICES ASSUME NEW i \in 1..Len(d \o b), NEW j \in 1..Len(d \o b), i < j,
                      (d \o b)[i].from = (d \o b)[j].from
               PROVE  (d \o b)[i].no < (d \o b)[j].no
    BY DEF InOrder
  <2>1. CASE j \in 1..Len(d)
    BY <1>2, <2>1 DEF OneByOne, InOrder
  <2>2. CASE i \in 1..Len(d) /\ j \in (Len(d) + 1)..(Len(d) + Len(b))
    BY <1>2, <1>3, <2>2 DEF Before
  <2>3. CASE i \in (Len(d) + 1)..(Len(d) + Len(b)) /\ j \in (Len(d) + 1)..(Len(d) + Len(b))
    <3>1. i - Len(d) < j - Len(d)
      BY <1>2
    <3> QED
      BY <1>2, <1>4, <2>3, <3>1 DEF InOrder
  <2> QED
    BY <1>2, <2>1, <2>2, <2>3
<1>6. Before(d \o b, r)
  <2> SUFFICES ASSUME NEW i \in 1..Len(d \o b), NEW j \in 1..Len(r),
                      (d \o b)[i].from = r[j].from
               PROVE  (d \o b)[i].no < r[j].no
    BY DEF Before
  <2>1. CASE i \in 1..Len(d)
    BY <1>2, <1>3, <2>1 DEF Before
  <2>2. CASE i \in (Len(d) + 1)..(Len(d) + Len(b))
    BY <1>2, <1>4, <2>2 DEF Before
  <2> QED
    BY <1>2, <2>1, <2>2
<1>7. Apart(d \o b, f)
  <2> SUFFICES ASSUME NEW i \in 1..Len(d \o b), NEW j \in 1..Len(f)
               PROVE  (d \o b)[i] # f[j]
    BY DEF Apart
  <2>1. CASE i \in 1..Len(d)
    BY <1>2, <2>1 DEF OneByOne, Apart
  <2>2. CASE i \in (Len(d) + 1)..(Len(d) + Len(b))
    <3>1. /\ b[i - Len(d)] \in Signal /\ f[j] \in Signal
          /\ (d \o b)[i] = b[i - Len(d)]
      BY <1>2, <2>2
    <3>2. f[j].from = b[i - Len(d)].from => f[j].no < b[i - Len(d)].no
      BY <1>2, <1>3, <2>2 DEF Before
    <3> QED
      BY <3>1, <3>2 DEF Signal
  <2> QED
    BY <1>2, <2>1, <2>2
<1> QED
  BY <1>3, <1>4, <1>5, <1>6, <1>7 DEF OneByOne

LEMMA Symmetric ==
    ASSUME NEW d, NEW f, NEW p, OneByOne(d, f, p)
    PROVE  OneByOne(f, d, p)
  BY DEF OneByOne, Apart

\* The next signal of a holder is later than all of its others.
LEMMA AcceptingKeepsOrder ==
    ASSUME NEW d \in Seq(Signal), NEW f \in Seq(Signal), NEW p \in Seq(Signal),
           NEW x \in Signal, NEW e \in [Holders -> Nat], OneByOne(d, f, p),
           Numbered(d, e), Numbered(f, e), Numbered(p, e), x.no = e[x.from] + 1
    PROVE  OneByOne(d, f, Append(p, x))
<1>1. /\ Len(Append(p, x)) = Len(p) + 1 /\ Len(p) \in Nat
      /\ \A i \in 1..Len(p) : Append(p, x)[i] = p[i]
      /\ Append(p, x)[Len(p) + 1] = x
  OBVIOUS
<1>2. ASSUME NEW q \in Seq(Signal), Numbered(q, e), NEW i \in 1..Len(q), q[i].from = x.from
      PROVE  q[i].no < x.no
  <2>1. q[i] \in Signal
    OBVIOUS
  <2>2. q[i].no \in Nat /\ x.no \in Nat /\ e[x.from] \in Nat
    BY <2>1 DEF Signal
  <2> QED
    BY <1>2, <2>2 DEF Numbered
<1>3. InOrder(Append(p, x))
  BY <1>1, <1>2 DEF InOrder, OneByOne
<1>4. ASSUME NEW q \in Seq(Signal), Numbered(q, e), Before(q, p)
      PROVE  Before(q, Append(p, x))
  <2> SUFFICES ASSUME NEW i \in 1..Len(q), NEW j \in 1..(Len(p) + 1),
                      q[i].from = Append(p, x)[j].from
               PROVE  q[i].no < Append(p, x)[j].no
    BY <1>1 DEF Before
  <2>1. CASE j \in 1..Len(p)
    BY <1>1, <1>4, <2>1 DEF Before
  <2>2. CASE j = Len(p) + 1
    BY <1>1, <1>2, <1>4, <2>2
  <2> QED
    BY <1>1, <2>1, <2>2
<1> QED
  BY <1>3, <1>4 DEF OneByOne

OrderInv ==
    /\ PipelineInv
    /\ OneByOne(delivered, failed, Pending)
    /\ Numbered(delivered, emitted) /\ Numbered(failed, emitted) /\ Numbered(Pending, emitted)

LEMMA OrderInit == Init => OrderInv
<1> SUFFICES ASSUME Init PROVE OrderInv
  OBVIOUS
<1>1. Pending = <<>> /\ delivered = <<>> /\ failed = <<>>
  BY DEF Init, Pending
<1> QED
  BY <1>1, PipelineInit
     DEF OrderInv, OneByOne, InOrder, Before, Apart, Numbered

LEMMA EmitKeepsOrder ==
    ASSUME OrderInv, NEW h \in Holders, Promise!Accept(h) \/ Promise!Refuse(h)
    PROVE  /\ OneByOne(delivered', failed', Pending')
           /\ Numbered(delivered', emitted') /\ Numbered(failed', emitted')
           /\ Numbered(Pending', emitted')
<1> DEFINE x == [from |-> h, no |-> emitted'[h]]
<1>1. /\ emitted \in [Holders -> 0..MaxSignals] /\ emitted \in [Holders -> Nat]
      /\ delivered \in Seq(Signal) /\ failed \in Seq(Signal) /\ Pending \in Seq(Signal)
  BY DEF OrderInv, PipelineInv, TypeOK, Pending
<1>2. /\ emitted[h] < MaxSignals /\ emitted' = [emitted EXCEPT ![h] = @ + 1]
      /\ UNCHANGED <<delivered, failed>>
      /\ Pending' = Append(Pending, x) \/ Pending' = Pending
  BY DEF Promise!Accept, Promise!Refuse, Promise!Emitting
<1>3. x \in Signal /\ x.no = emitted[x.from] + 1 /\ x.no = emitted'[x.from]
  BY <1>1, <1>2 DEF Signal
<1> HIDE DEF x
<1>4. ASSUME NEW q \in Seq(Signal), Numbered(q, emitted) PROVE Numbered(q, emitted')
  <2>1. \A k \in Holders : emitted[k] \in Nat /\ emitted'[k] \in Nat /\ emitted[k] <= emitted'[k]
    BY <1>1, <1>2
  <2>2. ASSUME NEW i \in 1..Len(q) PROVE q[i].no \in Nat /\ q[i].from \in Holders
    <3>1. q[i] \in Signal
      OBVIOUS
    <3> QED
      BY <3>1 DEF Signal
  <2> QED
    BY <1>4, <2>1, <2>2 DEF Numbered
<1>5. OneByOne(delivered, failed, Append(Pending, x))
  BY <1>1, <1>3, AcceptingKeepsOrder DEF OrderInv
<1>6. Numbered(Append(Pending, x), emitted')
  <2>1. Numbered(Pending, emitted')
    BY <1>1, <1>4 DEF OrderInv
  <2>2. x.no <= emitted'[x.from]
    BY <1>3 DEF Signal
  <2> QED
    BY <1>1, <2>1, <2>2 DEF Numbered
<1> QED
  BY <1>1, <1>2, <1>4, <1>5, <1>6 DEF OrderInv

LEMMA HandOverKeepsOrder ==
    ASSUME OrderInv, ExportOk \/ ExportFails
    PROVE  /\ OneByOne(delivered', failed', Pending')
           /\ Numbered(delivered', emitted') /\ Numbered(failed', emitted')
           /\ Numbered(Pending', emitted')
<1> DEFINE rest == buf \o chan
<1>1. /\ batch \in Seq(Signal) /\ buf \in Seq(Signal) /\ chan \in Seq(Signal)
      /\ rest \in Seq(Signal) /\ delivered \in Seq(Signal) /\ failed \in Seq(Signal)
  BY DEF OrderInv, PipelineInv, TypeOK
<1>2. /\ batch' = <<>>
      /\ UNCHANGED <<emitted, chan, buf>>
      /\ \/ delivered' = delivered \o batch /\ failed' = failed
         \/ failed' = failed \o batch /\ delivered' = delivered
  BY DEF ExportOk, ExportFails, ExportEnds
<1>3. Pending = batch \o rest
  BY <1>1, PendingParts
<1>4. Pending' = rest
  BY <1>1, <1>2, EmptyConcat DEF Pending
<1> HIDE DEF rest
<1>5. OneByOne(delivered', failed', rest)
  <2>1. OneByOne(delivered, failed, batch \o rest)
    BY <1>3 DEF OrderInv
  <2>2. OneByOne(delivered \o batch, failed, rest)
    BY <1>1, <2>1, HandingOverKeepsOrder
  <2>3. OneByOne(failed \o batch, delivered, rest)
    BY <1>1, <2>1, Symmetric, HandingOverKeepsOrder
  <2>4. OneByOne(delivered, failed \o batch, rest)
    BY <2>3, Symmetric
  <2> QED
    BY <1>2, <2>2, <2>4
<1>6. Numbered(batch, emitted) /\ Numbered(rest, emitted)
  <2>1. /\ Len(batch \o rest) = Len(batch) + Len(rest) /\ Len(batch) \in Nat /\ Len(rest) \in Nat
        /\ \A i \in 1..Len(batch) : i \in 1..Len(batch \o rest) /\ (batch \o rest)[i] = batch[i]
        /\ \A i \in 1..Len(rest) : /\ Len(batch) + i \in 1..Len(batch \o rest)
                                   /\ (batch \o rest)[Len(batch) + i] = rest[i]
    BY <1>1
  <2>2. Numbered(batch \o rest, emitted)
    BY <1>3 DEF OrderInv
  <2> QED
    BY <2>1, <2>2 DEF Numbered
<1>7. ASSUME NEW q \in Seq(Signal), Numbered(q, emitted) PROVE Numbered(q \o batch, emitted)
  <2>1. /\ Len(q \o batch) = Len(q) + Len(batch) /\ Len(q) \in Nat
        /\ \A i \in 1..Len(q) : (q \o batch)[i] = q[i]
        /\ \A i \in (Len(q) + 1)..(Len(q) + Len(batch)) :
              i - Len(q) \in 1..Len(batch) /\ (q \o batch)[i] = batch[i - Len(q)]
    BY <1>1
  <2>2. ASSUME NEW i \in 1..Len(q \o batch)
        PROVE  i \in 1..Len(q) \/ i \in (Len(q) + 1)..(Len(q) + Len(batch))
    BY <1>1, <2>1
  <2> QED
    BY <1>6, <1>7, <2>1, <2>2 DEF Numbered
<1> QED
  BY <1>1, <1>2, <1>4, <1>5, <1>6, <1>7 DEF OrderInv

LEMMA OrderStep == OrderInv /\ [Next]_vars => OrderInv'
<1> SUFFICES ASSUME OrderInv, [Next]_vars PROVE OrderInv'
  OBVIOUS
<1> DEFINE Goal == /\ OneByOne(delivered', failed', Pending')
                   /\ Numbered(delivered', emitted') /\ Numbered(failed', emitted')
                   /\ Numbered(Pending', emitted')
<1>1. PipelineInv /\ PipelineInv'
  BY PipelineStep DEF OrderInv
<1>2. ASSUME NEW h \in Holders, Emit(h) PROVE Goal
  BY <1>1, <1>2, EmitIsAcceptOrRefuse, EmitKeepsOrder
<1>3. ASSUME ExportOk \/ ExportFails PROVE Goal
  BY <1>3, HandOverKeepsOrder
<1>4. ASSUME UNCHANGED <<emitted, Pending, delivered, failed>> PROVE Goal
  BY <1>4 DEF OrderInv
<1>5. ASSUME Receive \/ FlushTick \/ ChannelClosed PROVE Goal
  BY <1>1, <1>4, <1>5, BatchingIsInvisible
<1>6. ASSUME NEW H \in SUBSET Holders, DropSinks(H) PROVE Goal
  BY <1>4, <1>6 DEF DropSinks, Pending
<1>7. ASSUME Done \/ UNCHANGED vars PROVE Goal
  BY <1>4, <1>7 DEF Done, vars, Pending
<1>8. Goal
  BY <1>2, <1>3, <1>5, <1>6, <1>7 DEF Next, Drain
<1> QED
  BY <1>1, <1>8 DEF OrderInv

\* The signals of one source reach the exporter in the order they were emitted
\* and each at most once, whatever fails and is dropped in between.
THEOREM OrderKept == Spec => []InOrderOnce
<1>1. OrderInv => InOrderOnce
  BY DEF OrderInv, OneByOne, InOrder, Before, Apart, InOrderOnce
<1> QED
  BY OrderInit, OrderStep, <1>1, PTL DEF Spec

=============================================================================
