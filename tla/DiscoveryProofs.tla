-------------------------- MODULE DiscoveryProofs --------------------------
(***************************************************************************)
(* Proofs about Discovery, for any set of workspaces and any capacity of   *)
(* the command channel: known is what the registry will hold, and every    *)
(* command is apt when it is served.  Both are about the last queued       *)
(* command of a name; sending changes it for one name, serving for none.   *)
(***************************************************************************)
EXTENDS Discovery, FiniteSetTheorems, TLAPS

USE DiscoveryAssumption, NoCommandAssumption

-----------------------------------------------------------------------------
(* Names and commands. *)

\* A name is of one workspace and one of its two sources.
LEMMA NamesAreApart ==
    ASSUME NEW v, NEW w
    PROVE  /\ Session(v) # Learning(w)
           /\ Session(v) = Session(w) => v = w
           /\ Learning(v) = Learning(w) => v = w
  BY DEF Session, Learning

LEMMA NamesOfMember ==
    ASSUME NEW W, NEW w
    PROVE  /\ Session(w) \in NamesOf(W) <=> w \in W
           /\ Learning(w) \in NamesOf(W) <=> w \in W
<1>1. Session(w) \in NamesOf(W) => w \in W
  BY NamesAreApart DEF NamesOf
<1>2. Learning(w) \in NamesOf(W) => w \in W
  BY NamesAreApart DEF NamesOf
<1>3. w \in W => Session(w) \in NamesOf(W) /\ Learning(w) \in NamesOf(W)
  BY DEF NamesOf
<1> QED
  BY <1>1, <1>2, <1>3

LEMMA NameIsOfOne ==
    ASSUME NEW n \in Names
    PROVE  \E w \in Workspaces : n = Session(w) \/ n = Learning(w)
  BY DEF Names, NamesOf

LEMMA CommandForm ==
    /\ \A n \in Names : /\ Add(n) \in Commands /\ Add(n).kind = "add" /\ Add(n).name = n
                        /\ Remove(n) \in Commands /\ Remove(n).kind = "remove"
                        /\ Remove(n).name = n
    /\ \A c \in Commands : /\ c.name \in Names
                           /\ c.kind \in {"add", "remove"}
                           /\ c.kind = "add" <=> c = Add(c.name)
  BY DEF Add, Remove, Commands, Supervised!Add, Supervised!Remove, Supervised!Commands

LEMMA NameForm ==
    ASSUME NEW w \in Workspaces
    PROVE  Session(w) \in Names /\ Learning(w) \in Names
  BY DEF Names, NamesOf

-----------------------------------------------------------------------------
(* The channel. *)

QueueOK == cmds \in Seq(Commands) /\ registered \subseteq Names

\* Queued commands of one name alternate, and the first fits the registry.
FirstIsApt ==
    \A i \in 1..Len(cmds) :
        (\A j \in 1..(i - 1) : cmds[j].name # cmds[i].name)
            => (cmds[i].kind = "add" <=> cmds[i].name \notin registered)
KindsAlternate ==
    \A i, k \in 1..Len(cmds) :
        /\ i < k /\ cmds[i].name = cmds[k].name
        /\ \A j \in (i + 1)..(k - 1) : cmds[j].name # cmds[i].name
        => cmds[i].kind # cmds[k].kind

QueueIsApt == FirstIsApt /\ KindsAlternate

LastOf(i, n) == cmds[i].name = n /\ \A j \in (i + 1)..Len(cmds) : cmds[j].name # n

\* Membership in Settled, by the last queued command of the name.
LEMMA SettledByLast ==
    ASSUME QueueOK, NEW n \in Names
    PROVE  /\ \A i \in 1..Len(cmds) :
                 LastOf(i, n) => (n \in Settled <=> cmds[i].kind = "add")
           /\ (\A i \in 1..Len(cmds) : cmds[i].name # n) => (n \in Settled <=> n \in registered)
<1>1. ASSUME NEW i \in 1..Len(cmds), LastOf(i, n)
      PROVE  n \in Settled <=> cmds[i].kind = "add"
  <2>1. cmds[i] \in Commands /\ cmds[i].name = n
    BY <1>1 DEF QueueOK, LastOf
  <2>2. cmds[i].kind = "add" <=> cmds[i] = Add(n)
    BY <2>1, CommandForm
  <2>3. n \in Settled <=> \E k \in 1..Len(cmds) :
             cmds[k] = Add(n) /\ \A j \in (k + 1)..Len(cmds) : cmds[j].name # n
    BY <1>1, <2>1 DEF Settled
  <2>4. ASSUME NEW k \in 1..Len(cmds), cmds[k] = Add(n),
               \A j \in (k + 1)..Len(cmds) : cmds[j].name # n
        PROVE  k = i
    <3>1. cmds[k].name = n
      BY <2>4, CommandForm
    <3>2. Len(cmds) \in Nat
      BY DEF QueueOK
    <3> QED
      BY <3>1, <3>2, <2>1, <2>4, <1>1 DEF LastOf
  <2> QED
    BY <2>2, <2>3, <2>4, <1>1 DEF LastOf
<1>2. ASSUME \A i \in 1..Len(cmds) : cmds[i].name # n
      PROVE  n \in Settled <=> n \in registered
  BY <1>2 DEF Settled
<1> QED
  BY <1>1, <1>2

\* Sending decides for one name.
LEMMA SendSettles ==
    ASSUME QueueOK, NEW c \in Commands, cmds' = Append(cmds, c), registered' = registered,
           NEW n \in Names
    PROVE  n \in Settled' <=> IF n = c.name THEN c.kind = "add" ELSE n \in Settled
<1>1. /\ Len(cmds) \in Nat /\ Len(cmds') = Len(cmds) + 1
      /\ \A i \in 1..Len(cmds) : cmds'[i] = cmds[i]
      /\ cmds'[Len(cmds) + 1] = c
  BY DEF QueueOK
<1>2. QueueOK'
  BY DEF QueueOK
<1>3. CASE n = c.name
  <2>2. Len(cmds) + 1 \in 1..Len(cmds')
    BY <1>1
  <2>4. n \in Settled' <=> \E k \in 1..Len(cmds') :
            cmds'[k] = Add(n) /\ \A j \in (k + 1)..Len(cmds') : cmds'[j].name # n
    BY <1>1, <1>3, <2>2 DEF Settled, Add, Supervised!Add
  <2>5. ASSUME NEW k \in 1..Len(cmds'), \A j \in (k + 1)..Len(cmds') : cmds'[j].name # n
        PROVE  k = Len(cmds) + 1
    BY <1>1, <1>3, <2>5
  <2>6. n \in Settled' <=> c = Add(n)
    BY <1>1, <2>2, <2>4, <2>5
  <2> QED
    BY <1>3, <2>6, CommandForm
<1>4. CASE n # c.name
  <2>1. (\E i \in 1..Len(cmds') : cmds'[i].name = n) <=> \E i \in 1..Len(cmds) : cmds[i].name = n
    BY <1>1, <1>4
  <2>2. ASSUME NEW i \in 1..Len(cmds)
        PROVE  (\A j \in (i + 1)..Len(cmds') : cmds'[j].name # n)
                 <=> \A j \in (i + 1)..Len(cmds) : cmds[j].name # n
    BY <1>1, <1>4
  <2>3. cmds'[Len(cmds) + 1] # Add(n)
    BY <1>1, <1>4, CommandForm
  <2>4. (\E i \in 1..Len(cmds') : /\ cmds'[i] = Add(n)
                                  /\ \A j \in (i + 1)..Len(cmds') : cmds'[j].name # n)
          <=> \E i \in 1..Len(cmds) : /\ cmds[i] = Add(n)
                                      /\ \A j \in (i + 1)..Len(cmds) : cmds[j].name # n
    BY <1>1, <2>2, <2>3
  <2> QED
    BY <1>4, <2>1, <2>4 DEF Settled, Add, Supervised!Add
<1> QED
  BY <1>3, <1>4

\* Serving decides nothing that was not decided.
LEMMA ServeSettles ==
    ASSUME QueueOK, Supervised!Serve, NEW n \in Names
    PROVE  n \in Settled' <=> n \in Settled
<1>1. /\ cmds # <<>> /\ Len(cmds) \in Nat \ {0} /\ Len(cmds') = Len(cmds) - 1
      /\ \A i \in 1..Len(cmds') : cmds'[i] = cmds[i + 1]
      /\ Head(cmds) = cmds[1] /\ cmds[1] \in Commands
  BY DEF QueueOK, Supervised!Serve
<1>2. n \in registered' <=> IF n = cmds[1].name THEN cmds[1].kind = "add" ELSE n \in registered
  BY <1>1 DEF Supervised!Serve
<1>3. CASE \E i \in 1..Len(cmds') : cmds'[i].name = n
  <2>1. \E i \in 1..Len(cmds) : cmds[i].name = n
    BY <1>1, <1>3
  <2>2. ASSUME NEW i \in 1..Len(cmds')
        PROVE  (\A j \in (i + 1)..Len(cmds') : cmds'[j].name # n)
                 <=> \A j \in (i + 2)..Len(cmds) : cmds[j].name # n
    <3>1. ASSUME NEW j \in (i + 2)..Len(cmds)
          PROVE  j - 1 \in (i + 1)..Len(cmds') /\ cmds'[j - 1] = cmds[j]
      BY <1>1, <3>1
    <3>2. ASSUME NEW j \in (i + 1)..Len(cmds')
          PROVE  j + 1 \in (i + 2)..Len(cmds) /\ cmds'[j] = cmds[j + 1]
      BY <1>1, <3>2
    <3> QED
      BY <3>1, <3>2
  <2>3. ~ \A j \in 2..Len(cmds) : cmds[j].name # n
    <3>1. PICK i \in 1..Len(cmds') : cmds'[i].name = n
      BY <1>3
    <3>2. i + 1 \in 2..Len(cmds) /\ cmds[i + 1].name = n
      BY <1>1, <3>1
    <3> QED
      BY <3>2
  <2>4. (\E i \in 1..Len(cmds') : /\ cmds'[i] = Add(n)
                                  /\ \A j \in (i + 1)..Len(cmds') : cmds'[j].name # n)
          <=> \E i \in 1..Len(cmds) : /\ cmds[i] = Add(n)
                                      /\ \A j \in (i + 1)..Len(cmds) : cmds[j].name # n
    <3>1. ASSUME NEW i \in 1..Len(cmds'), cmds'[i] = Add(n),
                 \A j \in (i + 1)..Len(cmds') : cmds'[j].name # n
          PROVE  /\ i + 1 \in 1..Len(cmds) /\ cmds[i + 1] = Add(n)
                 /\ \A j \in (i + 1 + 1)..Len(cmds) : cmds[j].name # n
      BY <1>1, <2>2, <3>1
    <3>2. ASSUME NEW i \in 1..Len(cmds), cmds[i] = Add(n),
                 \A j \in (i + 1)..Len(cmds) : cmds[j].name # n
          PROVE  /\ i - 1 \in 1..Len(cmds') /\ cmds'[i - 1] = Add(n)
                 /\ \A j \in (i - 1 + 1)..Len(cmds') : cmds'[j].name # n
      <4>1. i # 1
        BY <2>3, <3>2
      <4>2. i - 1 \in 1..Len(cmds') /\ (i - 1) + 1 = i /\ (i - 1) + 2 = i + 1
        BY <1>1, <4>1
      <4>3. cmds'[i - 1] = Add(n)
        BY <1>1, <3>2, <4>2
      <4>4. \A j \in ((i - 1) + 2)..Len(cmds) : cmds[j].name # n
        BY <3>2, <4>2
      <4> DEFINE k == i - 1
      <4>5. k \in 1..Len(cmds') /\ \A j \in (k + 2)..Len(cmds) : cmds[j].name # n
        BY <4>2, <4>4
      <4> HIDE DEF k
      <4>6. \A j \in (k + 1)..Len(cmds') : cmds'[j].name # n
        BY <2>2, <4>5
      <4> QED
        BY <4>2, <4>3, <4>6 DEF k
    <3> QED
      BY <3>1, <3>2
  <2> QED
    BY <1>3, <2>1, <2>4 DEF Settled, Add, Supervised!Add
<1>4. CASE ~ \E i \in 1..Len(cmds') : cmds'[i].name = n
  <2>1. n \in Settled' <=> n \in registered'
    BY <1>4 DEF Settled
  <2>2. \A j \in 2..Len(cmds) : cmds[j].name # n
    <3>1. \A j \in 2..Len(cmds) : j - 1 \in 1..Len(cmds') /\ cmds'[j - 1] = cmds[j]
      BY <1>1
    <3> QED
      BY <3>1, <1>4
  <2>3. CASE n = cmds[1].name
    <3>1. LastOf(1, n) /\ 1 \in 1..Len(cmds)
      BY <1>1, <2>2, <2>3 DEF LastOf
    <3> QED
      BY <1>2, <2>1, <2>3, <3>1, SettledByLast
  <2>4. CASE n # cmds[1].name
    <3>1. \A i \in 1..Len(cmds) : cmds[i].name # n
      BY <1>1, <2>2, <2>4
    <3> QED
      BY <1>2, <2>1, <2>4, <3>1, SettledByLast
  <2> QED
    BY <2>3, <2>4
<1> QED
  BY <1>3, <1>4

\* A command that fits what is settled fits the queue.
LEMMA SendKeepsApt ==
    ASSUME QueueOK, QueueIsApt, NEW c \in Commands, c.kind = "add" <=> c.name \notin Settled,
           cmds' = Append(cmds, c), registered' = registered
    PROVE  QueueIsApt'
<1>1. /\ Len(cmds) \in Nat /\ Len(cmds') = Len(cmds) + 1
      /\ \A i \in 1..Len(cmds) : cmds'[i] = cmds[i] /\ cmds[i] \in Commands
      /\ cmds'[Len(cmds) + 1] = c /\ c.name \in Names
  BY CommandForm DEF QueueOK
<1>2. FirstIsApt'
  <2> SUFFICES ASSUME NEW i \in 1..Len(cmds'),
                      \A j \in 1..(i - 1) : cmds'[j].name # cmds'[i].name
               PROVE  cmds'[i].kind = "add" <=> cmds'[i].name \notin registered
    BY DEF FirstIsApt
  <2>1. CASE i \in 1..Len(cmds)
    <3>1. \A j \in 1..(i - 1) : cmds[j].name # cmds[i].name
      BY <1>1, <2>1
    <3> QED
      BY <1>1, <2>1, <3>1 DEF QueueIsApt, FirstIsApt
  <2>2. CASE i = Len(cmds) + 1
    <3>1. \A j \in 1..Len(cmds) : cmds[j].name # c.name
      BY <1>1, <2>2
    <3>2. c.name \in Settled <=> c.name \in registered
      BY <1>1, <3>1, SettledByLast
    <3> QED
      BY <1>1, <2>2, <3>2
  <2> QED
    BY <1>1, <2>1, <2>2
<1>3. KindsAlternate'
  <2> SUFFICES ASSUME NEW i \in 1..Len(cmds'), NEW k \in 1..Len(cmds'),
                      i < k, cmds'[i].name = cmds'[k].name,
                      \A j \in (i + 1)..(k - 1) : cmds'[j].name # cmds'[i].name
               PROVE  cmds'[i].kind # cmds'[k].kind
    BY DEF KindsAlternate
  <2>1. i \in 1..Len(cmds)
    BY <1>1
  <2>2. CASE k \in 1..Len(cmds)
    <3>1. \A j \in (i + 1)..(k - 1) : cmds[j].name # cmds[i].name
      BY <1>1, <2>1, <2>2
    <3> QED
      BY <1>1, <2>1, <2>2, <3>1 DEF QueueIsApt, KindsAlternate
  <2>3. CASE k = Len(cmds) + 1
    <3>1. LastOf(i, c.name)
      BY <1>1, <2>1, <2>3 DEF LastOf
    <3>2. c.name \in Settled <=> cmds[i].kind = "add"
      BY <1>1, <2>1, <3>1, SettledByLast
    <3>3. cmds[i].kind \in {"add", "remove"} /\ c.kind \in {"add", "remove"}
      BY <1>1, <2>1, CommandForm
    <3> QED
      BY <1>1, <2>1, <2>3, <3>2, <3>3
  <2> QED
    BY <1>1, <2>2, <2>3
<1> QED
  BY <1>2, <1>3 DEF QueueIsApt

\* What was behind the served command of a name is now its first.
LEMMA ServeKeepsApt ==
    ASSUME QueueOK, QueueIsApt, Supervised!Serve
    PROVE  QueueIsApt'
<1>1. /\ cmds # <<>> /\ Len(cmds) \in Nat \ {0} /\ Len(cmds') = Len(cmds) - 1
      /\ \A i \in 1..Len(cmds') : cmds'[i] = cmds[i + 1] /\ i + 1 \in 1..Len(cmds)
      /\ Head(cmds) = cmds[1] /\ 1 \in 1..Len(cmds)
      /\ \A i \in 1..Len(cmds) : cmds[i] \in Commands
  BY DEF QueueOK, Supervised!Serve
<1>2. registered' = IF cmds[1].kind = "add" THEN registered \cup {cmds[1].name}
                    ELSE registered \ {cmds[1].name}
  BY <1>1 DEF Supervised!Serve
<1>3. FirstIsApt'
  <2> SUFFICES ASSUME NEW i \in 1..Len(cmds'),
                      \A j \in 1..(i - 1) : cmds'[j].name # cmds'[i].name
               PROVE  cmds'[i].kind = "add" <=> cmds'[i].name \notin registered'
    BY DEF FirstIsApt
  <2>1. \A j \in 2..i : cmds[j].name # cmds[i + 1].name
    <3>1. ASSUME NEW j \in 2..i
          PROVE  j - 1 \in 1..(i - 1) /\ cmds'[j - 1] = cmds[j]
      BY <1>1, <3>1
    <3> QED
      BY <1>1, <3>1
  <2>2. CASE cmds[1].name = cmds[i + 1].name
    <3>1. cmds[1].kind # cmds[i + 1].kind
      BY <1>1, <2>1, <2>2 DEF QueueIsApt, KindsAlternate
    <3>2. cmds[1].kind \in {"add", "remove"} /\ cmds[i + 1].kind \in {"add", "remove"}
      BY <1>1, CommandForm
    <3> QED
      BY <1>1, <1>2, <2>2, <3>1, <3>2
  <2>3. CASE cmds[1].name # cmds[i + 1].name
    <3>1. \A j \in 1..(i + 1 - 1) : cmds[j].name # cmds[i + 1].name
      BY <1>1, <2>1, <2>3
    <3>2. cmds[i + 1].kind = "add" <=> cmds[i + 1].name \notin registered
      BY <1>1, <3>1 DEF QueueIsApt, FirstIsApt
    <3> QED
      BY <1>1, <1>2, <2>3, <3>2
  <2> QED
    BY <2>2, <2>3
<1>4. KindsAlternate'
  <2> SUFFICES ASSUME NEW i \in 1..Len(cmds'), NEW k \in 1..Len(cmds'),
                      i < k, cmds'[i].name = cmds'[k].name,
                      \A j \in (i + 1)..(k - 1) : cmds'[j].name # cmds'[i].name
               PROVE  cmds'[i].kind # cmds'[k].kind
    BY DEF KindsAlternate
  <2>1. \A j \in (i + 2)..k : cmds[j].name # cmds[i + 1].name
    <3>1. ASSUME NEW j \in (i + 2)..k
          PROVE  j - 1 \in (i + 1)..(k - 1) /\ cmds'[j - 1] = cmds[j]
      BY <1>1, <3>1
    <3> QED
      BY <1>1, <3>1
  <2>2. /\ i + 1 < k + 1 /\ cmds[i + 1].name = cmds[k + 1].name
        /\ \A j \in (i + 1 + 1)..(k + 1 - 1) : cmds[j].name # cmds[i + 1].name
    BY <1>1, <2>1
  <2> QED
    BY <1>1, <2>2 DEF QueueIsApt, KindsAlternate
<1> QED
  BY <1>3, <1>4 DEF QueueIsApt

-----------------------------------------------------------------------------
(* Type correctness. *)

\* A pass compares each workspace once: what it has still to send is new or
\* gone, and the command kept for the second send is of one already begun.
PassFits ==
    /\ at \in {"idle", "scanning", "counting"} =>
          toAdd = {} /\ toRemove = {} /\ second = NoCommand
    /\ at = "sending" =>
          /\ toAdd \subseteq current \ known /\ toRemove \subseteq known \ current
          /\ second # NoCommand =>
                \/ \E w \in (current \ known) \ toAdd : second = Add(Learning(w))
                \/ /\ toAdd = {}
                   /\ \E w \in (known \ current) \ toRemove : second = Remove(Learning(w))

LEMMA Counts ==
    ASSUME NEW W \in SUBSET Workspaces
    PROVE  Cardinality(W) \in 0..Cardinality(Workspaces)
<1>1. IsFiniteSet(Workspaces)
  OBVIOUS
<1>2. IsFiniteSet(W) /\ Cardinality(W) <= Cardinality(Workspaces)
  BY <1>1, FS_Subset
<1>3. Cardinality(W) \in Nat /\ Cardinality(Workspaces) \in Nat
  BY <1>1, <1>2, FS_CardinalityType
<1> QED
  BY <1>2, <1>3

LEMMA SendTypes ==
    ASSUME TypeOK, NEW c \in Commands, Send(c)
    PROVE  /\ cmds' \in Seq(Commands) /\ Len(cmds') <= CmdCapacity
           /\ registered' = registered /\ service' = service
           /\ cmds' = Append(cmds, c)
  BY DEF TypeOK, Send, Supervised!Send

\* The supervisor's steps as seen by its channel.
LEMMA ServiceTypes ==
    ASSUME TypeOK,
           Supervised!Open \/ Supervised!Serve \/ Supervised!End \/ Supervised!Close
    PROVE  /\ cmds' \in Seq(Commands) /\ Len(cmds') <= CmdCapacity
           /\ registered' \subseteq Names
           /\ service' \in {"booting", "serving", "flushing", "closed"}
<1>1. CASE Supervised!Serve
  <2>1. cmds \in Seq(Commands) /\ cmds # <<>> /\ Head(cmds) \in Commands
        /\ cmds' = Tail(cmds)
    BY <1>1 DEF TypeOK, Supervised!Serve
  <2>2. Len(cmds') = Len(cmds) - 1
    BY <2>1
  <2>3. Head(cmds).name \in Names
    BY <2>1, CommandForm
  <2> QED
    BY <1>1, <2>1, <2>2, <2>3 DEF TypeOK, Supervised!Serve
<1>2. /\ cmds \in Seq(Commands) /\ Len(cmds) <= CmdCapacity
      /\ <<>> \in Seq(Commands) /\ Len(<<>>) <= CmdCapacity
      /\ registered \subseteq Names
  BY DEF TypeOK
<1>3. CASE Supervised!Open
  BY <1>2, <1>3 DEF Supervised!Open
<1>4. CASE Supervised!End
  BY <1>2, <1>4 DEF Supervised!End
<1>5. CASE Supervised!Close
  BY <1>2, <1>5 DEF Supervised!Close
<1> QED
  BY <1>1, <1>3, <1>4, <1>5

LEMMA TypeInit == Init => TypeOK /\ PassFits
<1> SUFFICES ASSUME Init PROVE TypeOK /\ PassFits
  OBVIOUS
<1>1. Cardinality(Workspaces) \in Nat
  BY FS_CardinalityType
<1>2. workspaces \in 0..Cardinality(Workspaces) /\ scans \in 0..(ScanWrap - 1)
  BY <1>1 DEF Init
<1>3. report \in [workspaces : 0..Cardinality(Workspaces) \cup {Unseen},
                  scans : 0..(ScanWrap - 1) \cup {Unseen}]
  BY DEF Init
<1>4. cmds \in Seq(Commands) /\ Len(cmds) <= CmdCapacity /\ registered = {} /\ service = "booting"
  BY DEF Init, Supervised!Init
<1> QED
  BY <1>2, <1>3, <1>4 DEF Init, TypeOK, PassFits

LEMMA TypeStep ==
    ASSUME TypeOK, PassFits, [Next]_vars
    PROVE  TypeOK' /\ PassFits'
<1> USE DEF world, passVars, stats, control
<1>1. ASSUME NEW w \in Workspaces, TreeChanges(w) PROVE TypeOK' /\ PassFits'
  BY <1>1 DEF TreeChanges, TypeOK, PassFits
<1>2. CASE Tick
  BY <1>2 DEF Tick, TypeOK, PassFits
<1>3. ASSUME NEW w \in Workspaces, Visit(w) PROVE TypeOK' /\ PassFits'
  BY <1>3 DEF Visit, TypeOK, PassFits
<1>4. ASSUME NEW w \in Workspaces, Misses(w) PROVE TypeOK' /\ PassFits'
  BY <1>4 DEF Misses, TypeOK, PassFits
<1>5. CASE Compare
  BY <1>5 DEF Compare, TypeOK, PassFits
<1>6. ASSUME NEW w \in Workspaces, AddFirst(w) PROVE TypeOK' /\ PassFits'
  <2>1. Add(Session(w)) \in Commands /\ Add(Learning(w)) \in Commands
    BY NameForm, CommandForm
  <2>2. /\ cmds' \in Seq(Commands) /\ Len(cmds') <= CmdCapacity
        /\ registered' = registered /\ service' = service
    BY <1>6, <2>1, SendTypes DEF AddFirst
  <2> QED
    BY <1>6, <2>1, <2>2 DEF AddFirst, TypeOK, PassFits
<1>7. ASSUME NEW w \in Workspaces, RemoveFirst(w) PROVE TypeOK' /\ PassFits'
  <2>1. Remove(Session(w)) \in Commands /\ Remove(Learning(w)) \in Commands
    BY NameForm, CommandForm
  <2>2. /\ cmds' \in Seq(Commands) /\ Len(cmds') <= CmdCapacity
        /\ registered' = registered /\ service' = service
    BY <1>7, <2>1, SendTypes DEF RemoveFirst
  <2> QED
    BY <1>7, <2>1, <2>2 DEF RemoveFirst, TypeOK, PassFits
<1>8. CASE SendSecond
  <2>1. second \in Commands
    BY <1>8 DEF SendSecond, TypeOK
  <2>2. /\ cmds' \in Seq(Commands) /\ Len(cmds') <= CmdCapacity
        /\ registered' = registered /\ service' = service
    BY <1>8, <2>1, SendTypes DEF SendSecond
  <2> QED
    BY <1>8, <2>2 DEF SendSecond, TypeOK, PassFits
<1>9. CASE StoreWorkspaces
  <2>1. Cardinality(current) \in 0..Cardinality(Workspaces)
    BY Counts DEF TypeOK
  <2> QED
    BY <1>9, <2>1 DEF StoreWorkspaces, TypeOK, PassFits
<1>10. CASE PassDone
  BY <1>10 DEF PassDone, TypeOK, PassFits
<1>11. CASE SendFails \/ Abort
  BY <1>11 DEF SendFails, Abort, TypeOK, PassFits
<1>12. CASE LoadWorkspaces \/ LoadScans
  BY <1>12 DEF LoadWorkspaces, LoadScans, TypeOK, PassFits
<1>13. CASE Open \/ Serve \/ End \/ Close
  <2>1. /\ cmds' \in Seq(Commands) /\ Len(cmds') <= CmdCapacity
        /\ registered' \subseteq Names
        /\ service' \in {"booting", "serving", "flushing", "closed"}
    BY <1>13, ServiceTypes DEF Open, Serve, End, Close, SupervisorStep
  <2>2. UNCHANGED <<world, at, passVars, stats>>
    BY <1>13 DEF Open, Serve, End, Close, SupervisorStep
  <2> QED
    BY <2>1, <2>2 DEF TypeOK, PassFits
<1>14. CASE UNCHANGED vars
  BY <1>14 DEF vars, TypeOK, PassFits
<1> QED
  BY <1>1, <1>2, <1>3, <1>4, <1>5, <1>6, <1>7, <1>8, <1>9, <1>10, <1>11, <1>12, <1>13, <1>14
     DEF Next, Scan, Pass, CollectStats, Stopped

-----------------------------------------------------------------------------
(* What is known and what is registered. *)

\* The registry with the queue applied, name by name.
Mirrors(n) ==
    n \in Settled <=> CASE at \in {"idle", "scanning"} -> n \in NamesOf(known)
                        [] OTHER -> n \in IF n \in Owed THEN NamesOf(known)
                                          ELSE NamesOf(current)

\* Where what is owed matters.
Between == at \in {"idle", "scanning", "sending", "counting"}

LEMMA MirrorsMeansKnown ==
    TypeOK => (KnownMirrorsRegistry <=> (~Ended /\ Between => \A n \in Names : Mirrors(n)))
<1> SUFFICES ASSUME TypeOK
             PROVE  KnownMirrorsRegistry <=> (~Ended /\ Between => \A n \in Names : Mirrors(n))
  OBVIOUS
<1>1. Settled \subseteq Names
  BY DEF Settled
<1>2. NamesOf(known) \subseteq Names
  BY DEF TypeOK, Names, NamesOf
<1>3. Settled = NamesOf(known) <=> \A n \in Names : n \in Settled <=> n \in NamesOf(known)
  BY <1>1, <1>2
<1>4. CASE at \in {"idle", "scanning"}
  BY <1>3, <1>4 DEF KnownMirrorsRegistry, Between, Mirrors
<1>5. CASE at \in {"sending", "counting"}
  BY <1>5 DEF KnownMirrorsRegistry, Between, Mirrors
<1>6. CASE at = "stopped"
  BY <1>6 DEF KnownMirrorsRegistry, Between
<1> QED
  BY <1>4, <1>5, <1>6 DEF TypeOK

DiscoveryInv ==
    /\ TypeOK /\ PassFits
    /\ ~Ended => QueueIsApt
    /\ KnownMirrorsRegistry

LEMMA DiscoveryInit == Init => DiscoveryInv
<1> SUFFICES ASSUME Init PROVE DiscoveryInv
  OBVIOUS
<1>1. cmds = <<>> /\ registered = {} /\ known = {} /\ at = "idle"
  BY DEF Init, Supervised!Init
<1>2. Settled = {} /\ NamesOf(known) = {}
  BY <1>1 DEF Settled, NamesOf
<1>3. QueueIsApt
  BY <1>1 DEF QueueIsApt, FirstIsApt, KindsAlternate
<1> QED
  BY <1>1, <1>2, <1>3, TypeInit DEF DiscoveryInv, KnownMirrorsRegistry

\* Steps that leave channel and registry alone.
LEMMA QueueRests ==
    ASSUME UNCHANGED <<cmds, registered>>
    PROVE  Settled' = Settled /\ QueueIsApt' = QueueIsApt
  BY DEF Settled, QueueIsApt, FirstIsApt, KindsAlternate

\* A pass begins: what it owes is exactly what differs.
LEMMA CompareMirrors ==
    ASSUME TypeOK, PassFits, Compare, NEW n \in Names, Mirrors(n)
    PROVE  Mirrors(n)'
<1>1. PICK w \in Workspaces : n = Session(w) \/ n = Learning(w)
  BY NameIsOfOne
<1>2. /\ toAdd' = current \ known /\ toRemove' = known \ current /\ second' = NoCommand
      /\ UNCHANGED <<current, known>> /\ at' = "sending" /\ Settled' = Settled
  BY QueueRests DEF Compare, PassFits, control
<1>3. n \in Owed' <=> w \in (current \ known) \cup (known \ current)
  BY <1>1, <1>2, NamesOfMember DEF Owed
<1>4. /\ n \in NamesOf(known) <=> w \in known
      /\ n \in NamesOf(current) <=> w \in current
  BY <1>1, NamesOfMember
<1>5. n \in Settled <=> n \in NamesOf(known)
  BY DEF Compare, Mirrors
<1> QED
  BY <1>2, <1>3, <1>4, <1>5 DEF Mirrors

\* The first send of a pair settles one name and leaves the other owed.
LEMMA FirstMirrors ==
    ASSUME TypeOK, PassFits, QueueIsApt, \A n \in Names : Mirrors(n),
           NEW w \in Workspaces, AddFirst(w) \/ RemoveFirst(w)
    PROVE  QueueIsApt' /\ \A n \in Names : Mirrors(n)'
<1> DEFINE c == IF AddFirst(w) THEN Add(Session(w)) ELSE Remove(Session(w))
<1>1. /\ c \in Commands /\ c.name = Session(w) /\ second = NoCommand
      /\ at = "sending" /\ at' = "sending"
      /\ UNCHANGED <<current, known>>
      /\ Send(c)
      /\ second'.name = Learning(w) /\ second' # NoCommand
  <2>1. Session(w) \in Names /\ Learning(w) \in Names
    BY NameForm
  <2> QED
    BY <2>1, CommandForm DEF AddFirst, RemoveFirst
<1>2. cmds' = Append(cmds, c) /\ registered' = registered
  BY <1>1, SendTypes
<1>3. QueueOK
  BY DEF QueueOK, TypeOK
<1>4. /\ w \in toAdd \cup toRemove
      /\ toAdd' \cup toRemove' = (toAdd \cup toRemove) \ {w}
      /\ toAdd \subseteq current \ known /\ toRemove \subseteq known \ current
  BY <1>1 DEF AddFirst, RemoveFirst, PassFits
<1>5. c.kind = "add" <=> w \in current
  <2>1. Session(w) \in Names
    BY NameForm
  <2>2. CASE AddFirst(w)
    BY <1>4, <2>1, <2>2, CommandForm DEF AddFirst
  <2>3. CASE ~AddFirst(w)
    <3>1. w \in toRemove /\ c = Remove(Session(w))
      BY <2>3 DEF RemoveFirst
    <3> QED
      BY <1>4, <2>1, <3>1, CommandForm
  <2> QED
    BY <2>2, <2>3
<1>6. w \in current <=> w \notin known
  BY <1>4
<1> HIDE DEF c
<1>7. c.kind = "add" <=> c.name \notin Settled
  <2>1. Session(w) \in Names /\ Session(w) \in Owed
    BY <1>1, <1>4, NameForm, NamesOfMember DEF Owed
  <2>2. Session(w) \in Settled <=> w \in known
    BY <1>1, <2>1, NamesOfMember DEF Mirrors
  <2> QED
    BY <1>1, <1>5, <1>6, <2>2
<1>8. QueueIsApt'
  BY <1>1, <1>2, <1>3, <1>7, SendKeepsApt
<1>9. ASSUME NEW n \in Names PROVE Mirrors(n)'
  <2>1. PICK v \in Workspaces : n = Session(v) \/ n = Learning(v)
    BY NameIsOfOne
  <2>2. /\ n \in NamesOf(known) <=> v \in known
        /\ n \in NamesOf(current) <=> v \in current
    BY <2>1, NamesOfMember
  <2>3. n \in Owed <=> v \in toAdd \cup toRemove
    BY <1>1, <2>1, NamesOfMember DEF Owed
  <2>4. n \in Owed' <=> (v \in (toAdd \cup toRemove) \ {w} \/ n = Learning(w))
    BY <1>1, <1>4, <2>1, NamesOfMember DEF Owed
  <2>5. n \in Settled' <=> IF n = Session(w) THEN w \in current ELSE n \in Settled
    BY <1>1, <1>2, <1>3, <1>5, SendSettles
  <2>6. CASE n = Session(w)
    <3>1. v = w /\ n # Learning(w)
      BY <2>1, <2>6, NamesAreApart
    <3> QED
      BY <1>1, <2>2, <2>4, <2>5, <2>6, <3>1 DEF Mirrors
  <2>7. CASE n # Session(w)
    <3>1. n \in Owed' <=> n \in Owed
      BY <1>4, <2>1, <2>3, <2>4, <2>7, NamesAreApart
    <3> QED
      BY <1>1, <2>5, <2>7, <3>1 DEF Mirrors
  <2> QED
    BY <2>6, <2>7
<1> QED
  BY <1>8, <1>9

\* The second send of a pair settles the other name.
LEMMA SecondMirrors ==
    ASSUME TypeOK, PassFits, QueueIsApt, \A n \in Names : Mirrors(n), SendSecond
    PROVE  QueueIsApt' /\ \A n \in Names : Mirrors(n)'
<1>1. /\ second \in Commands /\ second # NoCommand /\ second' = NoCommand
      /\ at = "sending" /\ at' = "sending"
      /\ UNCHANGED <<current, known, toAdd, toRemove>>
      /\ Send(second)
  BY DEF SendSecond, TypeOK
<1>2. cmds' = Append(cmds, second) /\ registered' = registered
  BY <1>1, SendTypes
<1>3. QueueOK
  BY DEF QueueOK, TypeOK
<1>4. PICK w \in Workspaces :
         /\ second.name = Learning(w) /\ w \notin toAdd \cup toRemove
         /\ second.kind = "add" <=> w \in current
         /\ w \in current <=> w \notin known
  <2>1. CASE \E w \in (current \ known) \ toAdd : second = Add(Learning(w))
    <3>1. PICK w \in (current \ known) \ toAdd : second = Add(Learning(w))
      BY <2>1
    <3>2. w \in Workspaces /\ toRemove \subseteq known \ current
      BY <1>1 DEF TypeOK, PassFits
    <3>3. second.name = Learning(w) /\ second.kind = "add"
      BY <3>1, <3>2, NameForm, CommandForm
    <3> QED
      BY <3>1, <3>2, <3>3
  <2>2. CASE toAdd = {} /\ \E w \in (known \ current) \ toRemove : second = Remove(Learning(w))
    <3>1. PICK w \in (known \ current) \ toRemove : second = Remove(Learning(w))
      BY <2>2
    <3>2. w \in Workspaces
      BY DEF TypeOK
    <3>3. second.name = Learning(w) /\ second.kind = "remove"
      BY <3>1, <3>2, NameForm, CommandForm
    <3> QED
      BY <2>2, <3>1, <3>2, <3>3
  <2> QED
    BY <1>1, <2>1, <2>2 DEF PassFits
<1>5. Learning(w) \in Names /\ Learning(w) \in Owed
  BY <1>1, <1>4, NameForm DEF Owed
<1>6. second.kind = "add" <=> second.name \notin Settled
  <2>1. Learning(w) \in Settled <=> w \in known
    BY <1>1, <1>5, NamesOfMember DEF Mirrors
  <2> QED
    BY <1>4, <2>1
<1>7. QueueIsApt'
  BY <1>1, <1>2, <1>3, <1>6, SendKeepsApt
<1>8. ASSUME NEW n \in Names PROVE Mirrors(n)'
  <2>1. PICK v \in Workspaces : n = Session(v) \/ n = Learning(v)
    BY NameIsOfOne
  <2>2. n \in NamesOf(current) <=> v \in current
    BY <2>1, NamesOfMember
  <2>3. n \in Owed <=> (v \in toAdd \cup toRemove \/ n = Learning(w))
    BY <1>1, <1>4, <2>1, NamesOfMember DEF Owed
  <2>4. n \in Owed' <=> v \in toAdd \cup toRemove
    BY <1>1, <2>1, NamesOfMember DEF Owed
  <2>5. n \in Settled' <=> IF n = Learning(w) THEN w \in current ELSE n \in Settled
    BY <1>1, <1>2, <1>3, <1>4, SendSettles
  <2>6. CASE n = Learning(w)
    <3>1. v = w
      BY <2>1, <2>6, NamesAreApart
    <3> QED
      BY <1>1, <1>4, <2>2, <2>4, <2>5, <2>6, <3>1 DEF Mirrors
  <2>7. CASE n # Learning(w)
    BY <1>1, <2>3, <2>4, <2>5, <2>7 DEF Mirrors
  <2> QED
    BY <2>6, <2>7
<1> QED
  BY <1>7, <1>8

\* What is over stays over.
LEMMA NotBack == [Next]_vars /\ ~Ended' => ~Ended
  BY DEF Next, vars, world, control, passVars, stats, TreeChanges, Scan, Tick, Visit, Misses,
     Compare, Pass, AddFirst, RemoveFirst, SendSecond, Send, StoreWorkspaces, PassDone,
     SendFails, CollectStats, LoadWorkspaces, LoadScans, Open, Serve, End, Close,
     SupervisorStep, Supervised!Send, Supervised!Open, Supervised!Serve, Supervised!End,
     Supervised!Close, Abort, Stopped, Ended

LEMMA MirrorStep ==
    ASSUME TypeOK, PassFits, QueueIsApt, Between => \A n \in Names : Mirrors(n),
           ~Ended, ~Ended', [Next]_vars
    PROVE  QueueIsApt' /\ (Between' => \A n \in Names : Mirrors(n)')
<1>1. CASE /\ UNCHANGED <<cmds, registered, known>> /\ at' \in {"idle", "scanning"}
           /\ at \in {"idle", "scanning"}
  BY <1>1, QueueRests DEF Between, Mirrors
<1>2. CASE UNCHANGED <<cmds, registered, at, known, current, toAdd, toRemove, second>>
  BY <1>2, QueueRests DEF Between, Mirrors, Owed
<1>3. CASE Compare
  <2>1. QueueIsApt'
    BY <1>3, QueueRests DEF Compare, control
  <2>2. Between
    BY <1>3 DEF Compare, Between
  <2> QED
    BY <1>3, <2>1, <2>2, CompareMirrors
<1>4. ASSUME NEW w \in Workspaces, AddFirst(w) \/ RemoveFirst(w)
      PROVE  QueueIsApt' /\ \A n \in Names : Mirrors(n)'
  <2>1. Between
    BY <1>4 DEF AddFirst, RemoveFirst, Between
  <2> QED
    BY <1>4, <2>1, FirstMirrors
<1>5. CASE SendSecond
  <2>1. Between
    BY <1>5 DEF SendSecond, Between
  <2> QED
    BY <1>5, <2>1, SecondMirrors
<1>6. CASE StoreWorkspaces
  BY <1>6, QueueRests DEF StoreWorkspaces, control, Between, Mirrors, Owed
<1>7. CASE PassDone
  <2>1. Owed = {} /\ at = "counting" /\ at' = "idle" /\ known' = current
        /\ Settled' = Settled /\ QueueIsApt'
    BY <1>7, QueueRests DEF PassDone, control, PassFits, Owed, NamesOf
  <2> QED
    BY <2>1 DEF Between, Mirrors
<1>8. CASE SendFails \/ Abort
  BY <1>8 DEF SendFails, Abort, Ended
<1>9. CASE Serve
  <2>1. QueueOK /\ Supervised!Serve
        /\ UNCHANGED <<at, known, current, toAdd, toRemove, second>>
    BY <1>9 DEF QueueOK, TypeOK, Serve, SupervisorStep, passVars
  <2>2. QueueIsApt'
    BY <2>1, ServeKeepsApt
  <2>3. \A n \in Names : n \in Settled' <=> n \in Settled
    BY <2>1, ServeSettles
  <2>4. \A n \in Names : Between /\ Mirrors(n) => Mirrors(n)'
    BY <2>1, <2>3 DEF Mirrors, Owed
  <2> QED
    BY <2>1, <2>2, <2>4 DEF Between
<1>10. CASE End \/ Close
  BY <1>10 DEF End, Close, SupervisorStep, Supervised!End, Supervised!Close, Ended
<1>11. CASE Tick \/ (\E w \in Workspaces : Visit(w) \/ Misses(w))
  <2>1. UNCHANGED <<cmds, registered, known>> /\ at' \in {"idle", "scanning"}
        /\ at \in {"idle", "scanning"}
    BY <1>11 DEF Tick, Visit, Misses, control
  <2> QED
    BY <1>1, <2>1
<1>12. CASE \/ \E w \in Workspaces : TreeChanges(w)
            \/ LoadWorkspaces \/ LoadScans \/ Open \/ Stopped \/ UNCHANGED vars
  <2>1. UNCHANGED <<cmds, registered, at, known, current, toAdd, toRemove, second>>
    BY <1>12 DEF TreeChanges, LoadWorkspaces, LoadScans, Open, SupervisorStep,
       Supervised!Open, Stopped, vars, passVars, control
  <2> QED
    BY <1>2, <2>1
<1> QED
  BY <1>3, <1>4, <1>5, <1>6, <1>7, <1>8, <1>9, <1>10, <1>11, <1>12
     DEF Next, Scan, Pass, CollectStats

LEMMA DiscoveryStep == DiscoveryInv /\ [Next]_vars => DiscoveryInv'
<1> SUFFICES ASSUME DiscoveryInv, [Next]_vars PROVE DiscoveryInv'
  OBVIOUS
<1>1. TypeOK' /\ PassFits'
  BY TypeStep DEF DiscoveryInv
<1>2. ~Ended' => ~Ended
  BY NotBack
<1>3. TypeOK /\ PassFits /\ (~Ended => QueueIsApt /\ (Between => \A n \in Names : Mirrors(n)))
  BY MirrorsMeansKnown DEF DiscoveryInv
<1>4. ~Ended' => QueueIsApt' /\ (Between' => \A n \in Names : Mirrors(n)')
  BY <1>2, <1>3, MirrorStep
<1>5. KnownMirrorsRegistry' <=> (~Ended' /\ Between' => \A n \in Names : Mirrors(n)')
  <2>1. (TypeOK => (KnownMirrorsRegistry
                      <=> (~Ended /\ Between => \A n \in Names : Mirrors(n))))'
    BY MirrorsMeansKnown, PTL
  <2> QED
    BY <1>1, <2>1 DEF Names, NamesOf, Session, Learning
<1> QED
  BY <1>1, <1>4, <1>5 DEF DiscoveryInv

-----------------------------------------------------------------------------
(* Theorems *)

\* The inductive invariant of discovery.
THEOREM DiscoveryCorrect == Spec => []DiscoveryInv
  BY DiscoveryInit, DiscoveryStep, PTL DEF Spec

\* Every variable has its type, and the command channel is never over its capacity.
THEOREM DiscoveryTypes == Spec => []TypeOK
<1>1. DiscoveryInv => TypeOK
  BY DEF DiscoveryInv
<1> QED
  BY DiscoveryCorrect, <1>1, PTL

\* What discovery knows is what the registry will hold, also half way through a
\* pass that waits for room in the channel (discovery.rs:104).
THEOREM KnownIsRegistered == Spec => []KnownMirrorsRegistry
<1>1. DiscoveryInv => KnownMirrorsRegistry
  BY DEF DiscoveryInv
<1> QED
  BY DiscoveryCorrect, <1>1, PTL

\* No Add finds its name taken and no Remove finds it free (lib.rs:111-113).
THEOREM AptCommands == Spec => []CommandsAreApt
<1>1. DiscoveryInv => CommandsAreApt
  <2> SUFFICES ASSUME DiscoveryInv, ~Ended, cmds # <<>>
               PROVE  Head(cmds).kind = "add" <=> Head(cmds).name \notin registered
    BY DEF CommandsAreApt
  <2>1. 1 \in 1..Len(cmds) /\ Head(cmds) = cmds[1]
    BY DEF DiscoveryInv, TypeOK
  <2>2. \A j \in 1..(1 - 1) : cmds[j].name # cmds[1].name
    OBVIOUS
  <2> QED
    BY <2>1, <2>2 DEF DiscoveryInv, QueueIsApt, FirstIsApt
<1> QED
  BY DiscoveryCorrect, <1>1, PTL

=============================================================================
