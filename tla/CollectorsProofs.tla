-------------------------- MODULE CollectorsProofs ---------------------------
(***************************************************************************)
(* Proofs about two of the parts that Collectors composes: what main makes *)
(* of a configuration of any length (Startup), and what an export makes of *)
(* a batch of any length (Exporter).                                       *)
(***************************************************************************)
EXTENDS Collectors, Induction

-----------------------------------------------------------------------------
(* Startup. *)

\* Before the configuration is accepted only a stray line separates what its
\* author meant from what TOML finds at the root.
FileAsRead ==
    /\ tables \in Seq([keys : SUBSET (Options \cup {"address"}), layer : Layers \cup {Misspelt, Unset}])
    /\ section = "target" => Len(tables) # 0
    /\ root \subseteq Options
    /\ root = meant \/ \E i \in DOMAIN tables : tables[i].keys \cap Options # {}

\* What was accepted holds no stray line, and the lists grow from it.
ListsAsBuilt ==
    LET mandatory == {"host", "self"}
        Of(options) == {SourceOf[o] : o \in options}
    IN  /\ step \in {"mandatory", "optional", "output", "running"} => root = meant
        /\ step = "optional" => sources = mandatory
        /\ step = "output" =>
             sources = mandatory \cup Of(root \ {"data_root"}) \cup Probe(tables)
        /\ step = "running" => sources = mandatory \cup Of(meant) \cup Probe(tables)
        /\ step \in {"output", "running"} =>
             /\ DOMAIN targets = DOMAIN tables
             /\ \A i \in DOMAIN tables : targets[i] = tables[i].layer /\ targets[i] \in Layers

\* Only what runs has emitted for a target, under the layer beside its address.
LayerAsFiled ==
    \/ emitted.target = 0 /\ emitted.layer = LayerOf[emitted.source]
    \/ /\ step = "running"
       /\ emitted.target # 0 /\ emitted.layer = tables[emitted.target].layer

StartupInv == FileAsRead /\ ListsAsBuilt /\ LayerAsFiled

LEMMA StartupStart == InitStartup => StartupInv
<1> SUFFICES ASSUME InitStartup PROVE StartupInv
  OBVIOUS
<1>1. LayerOf["host"] = "host"
  BY DEF LayerOf
<1> QED
  BY <1>1 DEF InitStartup, StartupInv, FileAsRead, ListsAsBuilt, LayerAsFiled

LEMMA AuthorKeeps == StartupInv /\ Author => StartupInv'
<1> SUFFICES ASSUME StartupInv, Author PROVE StartupInv'
  OBVIOUS
<1>1. step = "reading" /\ UNCHANGED <<step, sources, targets, emitted>>
  BY DEF Author, TargetHeader, OtherHeader, OptionLine, ExporterLine, AddressLine,
     LayerLine, Reading
<1>2. ListsAsBuilt' /\ LayerAsFiled'
  BY <1>1 DEF StartupInv, ListsAsBuilt, LayerAsFiled
<1> DEFINE Table == [keys : SUBSET (Options \cup {"address"}), layer : Layers \cup {Misspelt, Unset}]
           n     == Len(tables)
<1>3. tables \in Seq(Table) /\ n \in Nat /\ (section = "target" => n \in DOMAIN tables)
  BY DEF StartupInv, FileAsRead
<1>0. \A i \in DOMAIN tables : tables[i] \in Table
  <2> HIDE DEF Table
  <2> QED BY <1>3
<1>4. CASE TargetHeader
  <2> DEFINE new == [keys |-> {}, layer |-> Unset]
  <2>1. new \in Table
    OBVIOUS
  <2>2. /\ section' = "target" /\ tables' = Append(tables, new)
        /\ UNCHANGED <<meant, root>>
    BY <1>4 DEF TargetHeader
  <2> HIDE DEF Table, new
  <2>3. /\ tables' \in Seq(Table) /\ Len(tables') = n + 1
        /\ \A i \in DOMAIN tables : i \in DOMAIN tables' /\ tables'[i] = tables[i]
    BY <1>3, <2>1, <2>2
  <2>4. FileAsRead'
    BY <1>3, <2>2, <2>3 DEF StartupInv, FileAsRead, Table
  <2> QED
    BY <1>2, <2>4 DEF StartupInv
<1>5. CASE OtherHeader \/ \E e \in Exporters \cup {Misspelt} : ExporterLine(e)
  BY <1>2, <1>5 DEF OtherHeader, ExporterLine, StartupInv, FileAsRead
<1>6. ASSUME NEW o \in Options, OptionLine(o) PROVE StartupInv'
  <2>1. CASE section = "root"
    BY <1>2, <1>6, <2>1 DEF OptionLine, StartupInv, FileAsRead
  <2>2. CASE section = "target"
    <3> DEFINE table == [keys |-> tables[n].keys \cup {o}, layer |-> tables[n].layer]
    <3>1. /\ tables' = [tables EXCEPT ![n] = table]
          /\ UNCHANGED <<root, section>> /\ n \in DOMAIN tables
      BY <1>3, <1>6, <2>2 DEF OptionLine, Rewrites, LastTable
    <3>2. table \in Table /\ o \in table.keys
      BY <1>0, <3>1
    <3> HIDE DEF Table, table
    <3>3. /\ tables' \in Seq(Table) /\ Len(tables') = n
          /\ n \in DOMAIN tables' /\ o \in tables'[n].keys
      BY <1>3, <3>1, <3>2
    <3> USE DEF Table
    <3>4. FileAsRead'
      BY <1>3, <2>2, <3>1, <3>3 DEF StartupInv, FileAsRead
    <3> QED
      BY <1>2, <3>4 DEF StartupInv
  <2> QED
    BY <1>6, <2>1, <2>2 DEF OptionLine
<1>7. ASSUME AddressLine \/ \E l \in Layers \cup {Misspelt} : LayerLine(l)
      PROVE  StartupInv'
  <2>1. n \in DOMAIN tables /\ UNCHANGED <<section, meant, root>>
    BY <1>3, <1>7 DEF AddressLine, LayerLine
  <2>2. PICK table \in Table : /\ tables[n].keys \subseteq table.keys
                               /\ tables' = [tables EXCEPT ![n] = table]
    <3>1. tables[n] \in Table
      BY <1>0, <2>1
    <3>2. CASE AddressLine
      <4> DEFINE x == [keys |-> tables[n].keys \cup {"address"}, layer |-> tables[n].layer]
      <4>1. x \in Table /\ tables[n].keys \subseteq x.keys
        BY <3>1
      <4>2. tables' = [tables EXCEPT ![n] = x]
        BY <3>2 DEF AddressLine, Rewrites, LastTable
      <4> QED
        BY <4>1, <4>2
    <3>3. ASSUME NEW l \in Layers \cup {Misspelt}, LayerLine(l)
          PROVE  \E x \in Table : /\ tables[n].keys \subseteq x.keys
                                  /\ tables' = [tables EXCEPT ![n] = x]
      <4> DEFINE x == [keys |-> tables[n].keys, layer |-> l]
      <4>1. x \in Table /\ tables[n].keys \subseteq x.keys
        BY <3>1
      <4>2. tables' = [tables EXCEPT ![n] = x]
        BY <3>3 DEF LayerLine, Rewrites, LastTable
      <4> QED
        BY <4>1, <4>2
    <3> QED
      BY <1>7, <3>2, <3>3
  <2> HIDE DEF Table
  <2>3. /\ tables' \in Seq(Table) /\ Len(tables') = n
        /\ \A i \in DOMAIN tables : i \in DOMAIN tables' /\ tables[i].keys \subseteq tables'[i].keys
    BY <1>3, <2>1, <2>2
  <2> USE DEF Table
  <2>4. FileAsRead'
    BY <1>3, <2>1, <2>3 DEF StartupInv, FileAsRead
  <2> QED
    BY <1>2, <2>4 DEF StartupInv
<1> QED
  BY <1>4, <1>5, <1>6, <1>7 DEF Author

LEMMA StartupKeeps == StartupInv /\ Startup => StartupInv'
<1> SUFFICES ASSUME StartupInv, Startup PROVE StartupInv'
  OBVIOUS
<1>1. FileAsRead'
  BY DEF Startup, Load, LoadWhen, LoadFails, Mandatory, Optional, Output, EmitOne, config,
     StartupInv, FileAsRead
<1>2. CASE Load
  <2>1. /\ step' = "mandatory" /\ step = "reading"
        /\ \A i \in DOMAIN tables : tables[i].keys = {"address"}
        /\ UNCHANGED <<meant, root, tables, emitted>>
    BY <1>2 DEF Load, LoadWhen, Accepted
  <2>2. "address" \notin Options
    BY StartupAssumption DEF SourceOf
  <2> QED
    BY <1>1, <2>1, <2>2 DEF StartupInv, FileAsRead, ListsAsBuilt, LayerAsFiled
<1>3. CASE LoadFails
  BY <1>1, <1>3 DEF LoadFails, config, StartupInv, ListsAsBuilt, LayerAsFiled
<1>4. CASE Mandatory
  BY <1>1, <1>4 DEF Mandatory, config, StartupInv, ListsAsBuilt, LayerAsFiled
<1>5. CASE Optional
  BY <1>1, <1>5 DEF Optional, config, StartupInv, ListsAsBuilt, LayerAsFiled
<1>6. CASE Output
  <2>1. {SourceOf[o] : o \in root \ {"data_root"}} \cup {SourceOf[o] : o \in root \cap {"data_root"}}
          = {SourceOf[o] : o \in root}
    OBVIOUS
  <2> QED
    BY <1>1, <1>6, <2>1 DEF Output, config, StartupInv, ListsAsBuilt, LayerAsFiled
<1>7. CASE EmitOne
  <2>1. step = "running" /\ UNCHANGED <<config, step, sources, targets>>
    BY <1>7 DEF EmitOne
  <2>2. ListsAsBuilt'
    BY <2>1 DEF StartupInv, ListsAsBuilt, config
  <2>3. LayerAsFiled'
    <3>1. CASE \E s \in sources \ {"endpoint-probe"} :
             emitted' = [source |-> s, target |-> 0, layer |-> Stamped(Unset, LayerOf[s])]
      BY <3>1 DEF LayerAsFiled, Stamped
    <3>2. ASSUME NEW i \in DOMAIN targets,
                 emitted' = [source |-> "endpoint-probe", target |-> i,
                             layer |-> Stamped(targets[i], LayerOf["endpoint-probe"])]
          PROVE  LayerAsFiled'
      <4>1. i \in DOMAIN tables /\ targets[i] = tables[i].layer /\ targets[i] # Unset
        BY <2>1, StartupAssumption DEF StartupInv, ListsAsBuilt
      <4>2. i # 0
        BY <4>1 DEF StartupInv, FileAsRead
      <4> QED
        BY <2>1, <3>2, <4>1, <4>2 DEF LayerAsFiled, Stamped, config
    <3> QED
      BY <1>7, <3>1, <3>2 DEF EmitOne
  <2> QED
    BY <1>1, <2>2, <2>3 DEF StartupInv
<1> QED
  BY <1>2, <1>3, <1>4, <1>5, <1>6, <1>7 DEF Startup

\* The other parts leave it alone.
LEMMA StartupStep == StartupInv /\ [Next]_vars => StartupInv'
<1> SUFFICES ASSUME StartupInv, [Next]_vars PROVE StartupInv'
  OBVIOUS
<1>1. CASE UNCHANGED startupVars
  BY <1>1 DEF startupVars, config, StartupInv, FileAsRead, ListsAsBuilt, LayerAsFiled
<1>2. CASE Author \/ Startup
  BY <1>2, AuthorKeeps, StartupKeeps
<1>3. Author \/ Startup \/ UNCHANGED startupVars
  BY DEF Next, OfContainer, OfLearning, OfMachine, OfEndpoints, OfExporter, OfStartup, Over, vars
<1> QED
  BY <1>1, <1>2, <1>3

\* What runs is what its author wrote: no option is lost to the header above
\* it, no target is dropped, and each is filed under its own layer.
THEOREM AsWritten == Spec => []RunsAsWritten
<1>1. StartupInv => RunsAsWritten
  <2> SUFFICES ASSUME StartupInv PROVE RunsAsWritten
    OBVIOUS
  <2> QED
    BY DEF StartupInv, ListsAsBuilt, LayerAsFiled, RunsAsWritten
<1>2. Init => StartupInv
  BY StartupStart DEF Init
<1> QED
  BY <1>1, <1>2, StartupStep, PTL DEF Spec

-----------------------------------------------------------------------------
(* Exporter: what is picked from a sequence, and what a request is made of. *)

\* Picks by its recursion: what is picked are members of the set.
Picking(D, seq, S) ==
    /\ Picks(seq, S) \in [0..Len(seq) -> Seq(D \cap S)]
    /\ Picks(seq, S)[0] = <<>>
    /\ \A i \in 1..Len(seq) :
          Picks(seq, S)[i] = IF seq[i] \in S THEN Append(Picks(seq, S)[i - 1], seq[i])
                             ELSE Picks(seq, S)[i - 1]

LEMMA PicksIs ==
    ASSUME NEW D, NEW seq \in Seq(D), NEW S
    PROVE  Picking(D, seq, S)
<1> DEFINE N == Len(seq)
           Q == Seq(D \cap S)
           Next1(i, q) == IF seq[i] \in S THEN Append(q, seq[i]) ELSE q
           stepOf == [i \in 1..N |-> [q \in Q |-> Next1(i, q)]]
<1>1. N \in Nat /\ <<>> \in Q
  OBVIOUS
<1>0. ASSUME NEW i \in 1..N, NEW q \in Q PROVE Next1(i, q) \in Q
  <2>1. seq[i] \in D
    OBVIOUS
  <2> QED
    BY <2>1
<1>2. stepOf \in Steps(1..N, Q)
  <2> HIDE DEF Next1
  <2> QED
    BY <1>0 DEF Steps
<1>3. PICK f \in [0..N -> Q] : Follows(f, 1..N, <<>>, stepOf)
  <2> HIDE DEF stepOf, N, Q
  <2> QED
    BY <1>1, <1>2, RecursionUpTo
<1>4. f[0] = <<>> /\ \A i \in 1..N : f[i] = Next1(i, f[i - 1])
  <2>1. ASSUME NEW i \in 1..N PROVE f[i] = Next1(i, f[i - 1])
    <3>1. i - 1 \in 0..N /\ f[i - 1] \in Q
      BY <1>1
    <3> HIDE DEF Next1, Q
    <3>2. stepOf[i][f[i - 1]] = Next1(i, f[i - 1])
      BY <3>1
    <3> HIDE DEF stepOf
    <3> QED
      BY <1>3, <3>2 DEF Follows
  <2> QED
    BY <1>3, <2>1 DEF Follows
<1> DEFINE Body(g) == [i \in 0..N |-> IF i = 0 THEN <<>>
                                      ELSE IF seq[i] \in S THEN Append(g[i - 1], seq[i])
                                      ELSE g[i - 1]]
<1>5. f = Body(f)
  <2>1. ASSUME NEW i \in 0..N
        PROVE  f[i] = IF i = 0 THEN <<>> ELSE IF seq[i] \in S THEN Append(f[i - 1], seq[i])
                                              ELSE f[i - 1]
    <3>1. i # 0 => i \in 1..N
      BY <1>1
    <3> QED
      BY <1>4, <3>1
  <2> HIDE DEF N
  <2> QED
    BY <2>1
<1>6. Picks(seq, S) = Body(Picks(seq, S))
  BY <1>5 DEF Picks
<1> HIDE DEF Body
<1>7. PICK p : p = Picks(seq, S)
  OBVIOUS
<1>8. p = Body(p)
  BY <1>6, <1>7
<1> USE DEF Body
<1>9. p[0] = <<>> /\ \A i \in 1..N : p[i] = Next1(i, p[i - 1])
  <2>1. ASSUME NEW i \in 0..N PROVE p[i] = IF i = 0 THEN <<>> ELSE Next1(i, p[i - 1])
    <3> HIDE DEF N
    <3> QED BY <1>8, Zenon
  <2> HIDE DEF Next1
  <2>2. 0 \in 0..N /\ \A i \in 1..N : i \in 0..N /\ i # 0
    BY <1>1
  <2> QED
    BY <2>1, <2>2
<1>10. \A i \in 0..N : p[i] \in Q
  <2> DEFINE T == {i \in 0..N : p[i] \in Q}
  <2> HIDE DEF Q, Next1
  <2>1. 0 \in T
    BY <1>1, <1>9
  <2>2. ASSUME NEW i \in 1..N, i - 1 \in T PROVE i \in T
    <3>1. p[i - 1] \in Q /\ i \in 0..N
      BY <1>1, <2>2
    <3> QED
      BY <1>0, <1>9, <3>1
  <2> HIDE DEF T
  <2>3. \A i \in 0..N : i \in T
    BY <1>1, <2>1, <2>2, AllUpTo
  <2> QED
    BY <2>3 DEF T
<1>11. p \in [0..N -> Q]
  <2> HIDE DEF Q, N
  <2> QED BY <1>8, <1>10
<1> QED
  BY <1>7, <1>9, <1>11 DEF Picking

QueryType == [services : SUBSET Named, of : [Named -> Seq(Signals)],
              host : [Named -> Hosts \cup {Unnamed}]]

LEMMA SignalFields ==
    ASSUME NEW r \in Signals
    PROVE  ServiceOf(r) \in Named /\ r.host \in Hosts \cup {Unnamed}
  BY DEF Signals, Kinds, ServiceOf, Named

\* One record more, group by group.
LEMMA GroupedIs ==
    ASSUME NEW q \in QueryType, NEW r \in Signals
    PROVE  /\ Grouped(q, r) \in QueryType
           /\ Grouped(q, r).services = q.services \cup {ServiceOf(r)}
           /\ \A s \in Named :
                 /\ Grouped(q, r).of[s] = IF ServiceOf(r) = s THEN Append(q.of[s], r) ELSE q.of[s]
                 /\ Grouped(q, r).host[s] = IF ServiceOf(r) = s /\ q.host[s] = Unnamed
                                            THEN r.host ELSE q.host[s]
<1> DEFINE t == ServiceOf(r)
<1>1. t \in Named /\ r.host \in Hosts \cup {Unnamed}
  BY SignalFields
<1> HIDE DEF t
<1>2. /\ q.services \in SUBSET Named /\ q.of \in [Named -> Seq(Signals)]
      /\ q.host \in [Named -> Hosts \cup {Unnamed}]
  BY DEF QueryType
<1> DEFINE of   == [q.of EXCEPT ![t] = Append(@, r)]
           host1 == [q.host EXCEPT ![t] = IF @ = Unnamed THEN r.host ELSE @]
<1>3. Grouped(q, r) = [services |-> q.services \cup {t}, of |-> of, host |-> host1]
  BY DEF Grouped, t
<1>4. of \in [Named -> Seq(Signals)]
      /\ \A s \in Named : of[s] = IF t = s THEN Append(q.of[s], r) ELSE q.of[s]
  <2> HIDE DEF Signals
  <2>1. Append(q.of[t], r) \in Seq(Signals)
    BY <1>1, <1>2
  <2> QED
    BY <1>1, <1>2, <2>1
<1>5. host1 \in [Named -> Hosts \cup {Unnamed}]
      /\ \A s \in Named : host1[s] = IF t = s /\ q.host[s] = Unnamed THEN r.host ELSE q.host[s]
  BY <1>1, <1>2
<1> HIDE DEF of, host1
<1> QED
  BY <1>1, <1>2, <1>3, <1>4, <1>5 DEF QueryType, t

\* Requests by its recursion.
LEMMA RequestsIs ==
    ASSUME NEW records \in Seq(Signals)
    PROVE  LET requests == Requests(records)
           IN  /\ requests \in [0..Len(records) -> QueryType]
               /\ requests[0] = Nothing
               /\ \A i \in 1..Len(records) :
                     requests[i] = Grouped(requests[i - 1], records[i])
<1> DEFINE N == Len(records)
           stepOf == [i \in 1..N |-> [q \in QueryType |-> Grouped(q, records[i])]]
<1>1. N \in Nat /\ Nothing \in QueryType
  BY DEF Nothing, QueryType
<1>2. ASSUME NEW i \in 1..N, NEW q \in QueryType PROVE Grouped(q, records[i]) \in QueryType
  <2>1. records[i] \in Signals
    OBVIOUS
  <2> QED
    BY <2>1, GroupedIs
<1>3. stepOf \in Steps(1..N, QueryType)
  BY <1>2 DEF Steps
<1>4. PICK f \in [0..N -> QueryType] : Follows(f, 1..N, Nothing, stepOf)
  <2> HIDE DEF stepOf, N
  <2> QED
    BY <1>1, <1>3, RecursionUpTo
<1>5. ASSUME NEW i \in 1..N PROVE f[i] = Grouped(f[i - 1], records[i])
  <2>1. i - 1 \in 0..N /\ f[i - 1] \in QueryType
    BY <1>1
  <2>2. stepOf[i][f[i - 1]] = Grouped(f[i - 1], records[i])
    BY <2>1
  <2> HIDE DEF stepOf
  <2> QED
    BY <1>4, <2>2 DEF Follows
<1> DEFINE Body(g) == [i \in 0..N |-> IF i = 0 THEN Nothing ELSE Grouped(g[i - 1], records[i])]
<1>6. f = Body(f)
  <2>1. ASSUME NEW i \in 0..N
        PROVE  f[i] = IF i = 0 THEN Nothing ELSE Grouped(f[i - 1], records[i])
    <3>1. i # 0 => i \in 1..N
      BY <1>1
    <3> QED
      BY <1>4, <1>5, <3>1 DEF Follows
  <2> HIDE DEF N
  <2> QED
    BY <2>1
<1>7. Requests(records) = Body(Requests(records))
  BY <1>6 DEF Requests
<1> HIDE DEF Body
<1>8. PICK p : p = Requests(records)
  OBVIOUS
<1>9. p = Body(p)
  BY <1>7, <1>8
<1> USE DEF Body
<1>10. p[0] = Nothing /\ \A i \in 1..N : p[i] = Grouped(p[i - 1], records[i])
  <2>1. ASSUME NEW i \in 0..N
        PROVE  p[i] = IF i = 0 THEN Nothing ELSE Grouped(p[i - 1], records[i])
    <3> HIDE DEF N
    <3> QED BY <1>9, Zenon
  <2>2. 0 \in 0..N /\ \A i \in 1..N : i \in 0..N /\ i # 0
    BY <1>1
  <2> QED
    BY <2>1, <2>2
<1>11. \A i \in 0..N : p[i] \in QueryType
  <2> DEFINE T == {i \in 0..N : p[i] \in QueryType}
  <2>1. 0 \in T
    BY <1>1, <1>10
  <2>2. ASSUME NEW i \in 1..N, i - 1 \in T PROVE i \in T
    <3>1. p[i - 1] \in QueryType /\ i \in 0..N
      BY <1>1, <2>2
    <3> QED
      BY <1>2, <1>10, <3>1
  <2> HIDE DEF T
  <2>3. \A i \in 0..N : i \in T
    BY <1>1, <2>1, <2>2, AllUpTo
  <2> QED
    BY <2>3 DEF T
<1>12. p \in [0..N -> QueryType]
  <2> HIDE DEF N
  <2> QED BY <1>9, <1>11
<1> QED
  BY <1>8, <1>10, <1>12

OfService(s) == {r \in Signals : ServiceOf(r) = s}
WithHost(s)  == {r \in Signals : ServiceOf(r) = s /\ r.host # Unnamed}
HostIn(named) == IF named = <<>> THEN Unnamed ELSE named[1].host

\* The request of the first i records says of each service what they do.
SaysTheFirst(records, i) ==
    LET q == Requests(records)[i]
    IN  /\ q.services = {ServiceOf(records[j]) : j \in 1..i}
        /\ \A s \in Named : /\ q.of[s] = Picks(records, OfService(s))[i]
                            /\ q.host[s] = HostIn(Picks(records, WithHost(s))[i])

\* The first named host stays, and until then there is none.
LEMMA FirstStays ==
    ASSUME NEW s \in Named, NEW named \in Seq(Signals \cap WithHost(s)), NEW r \in Signals
    PROVE  /\ HostIn(Append(named, r)) = IF HostIn(named) = Unnamed THEN r.host ELSE HostIn(named)
           /\ HostIn(named) = Unnamed => named = <<>>
<1>1. CASE named = <<>>
  <2>1. Append(named, r) # <<>> /\ Append(named, r)[1] = r
    BY <1>1
  <2> QED
    BY <1>1, <2>1 DEF HostIn
<1>2. CASE named # <<>>
  <2>1. /\ Append(named, r) # <<>> /\ Append(named, r)[1] = named[1]
        /\ named[1] \in WithHost(s)
    <3> DEFINE D == Signals \cap WithHost(s)
    <3>1. D \subseteq Signals /\ D \subseteq WithHost(s)
      OBVIOUS
    <3> HIDE DEF D
    <3>2. named \in Seq(D)
      BY DEF D
    <3>3. Len(named) > 0 /\ named[1] \in D
      BY <1>2, <3>2
    <3>4. Append(named, r)[1] = named[1] /\ Len(Append(named, r)) = Len(named) + 1
      BY <3>2, <3>3
    <3> QED
      BY <3>1, <3>3, <3>4
  <2>2. named[1].host # Unnamed
    BY <2>1 DEF WithHost
  <2> QED
    BY <1>2, <2>1, <2>2 DEF HostIn
<1> QED
  BY <1>1, <1>2

LEMMA RequestSays ==
    ASSUME NEW records \in Seq(Signals), NEW i \in 0..Len(records)
    PROVE  SaysTheFirst(records, i)
<1> DEFINE N == Len(records)
           T == {k \in 0..N : SaysTheFirst(records, k)}
<1>1. N \in Nat
  OBVIOUS
<1>2. 0 \in T
  <2>1. Requests(records)[0] = Nothing
    BY RequestsIs
  <2>2. \A s \in Named : /\ Picks(records, OfService(s))[0] = <<>>
                         /\ Picks(records, WithHost(s))[0] = <<>>
    <3>1. \A S : Picking(Signals, records, S)
      BY PicksIs
    <3> QED
      BY <3>1 DEF Picking
  <2>3. SaysTheFirst(records, 0)
    BY <2>1, <2>2 DEF SaysTheFirst, Nothing, HostIn
  <2> QED
    BY <1>1, <2>3
<1>3. ASSUME NEW k \in 1..N, k - 1 \in T PROVE k \in T
  <2> DEFINE q == Requests(records)[k - 1]
             r == records[k]
  <2>1. /\ k - 1 \in 0..N /\ k \in 0..N /\ r \in Signals
        /\ 1..k = (1..(k - 1)) \cup {k}
    BY <1>1
  <2>2. SaysTheFirst(records, k - 1)
    BY <1>3
  <2>3. q \in QueryType /\ Requests(records)[k] = Grouped(q, r)
    BY <2>1, RequestsIs
  <2>4. /\ Grouped(q, r).services = q.services \cup {ServiceOf(r)}
        /\ \A s \in Named :
              /\ Grouped(q, r).of[s] = IF ServiceOf(r) = s THEN Append(q.of[s], r) ELSE q.of[s]
              /\ Grouped(q, r).host[s] = IF ServiceOf(r) = s /\ q.host[s] = Unnamed
                                         THEN r.host ELSE q.host[s]
    BY <2>1, <2>3, GroupedIs
  <2>5. Requests(records)[k].services = {ServiceOf(records[j]) : j \in 1..k}
    BY <2>1, <2>2, <2>3, <2>4 DEF SaysTheFirst
  <2>6. ASSUME NEW s \in Named
        PROVE  /\ Requests(records)[k].of[s] = Picks(records, OfService(s))[k]
               /\ Requests(records)[k].host[s] = HostIn(Picks(records, WithHost(s))[k])
    <3> DEFINE of    == Picks(records, OfService(s))
               named == Picks(records, WithHost(s))
    <3>0. Picking(Signals, records, OfService(s)) /\ Picking(Signals, records, WithHost(s))
      BY PicksIs
    <3>1. of[k] = IF r \in OfService(s) THEN Append(of[k - 1], r) ELSE of[k - 1]
      BY <3>0 DEF Picking
    <3>2. /\ named[k - 1] \in Seq(Signals \cap WithHost(s))
          /\ named[k] = IF r \in WithHost(s) THEN Append(named[k - 1], r) ELSE named[k - 1]
      BY <2>1, <3>0 DEF Picking
    <3>3. q.of[s] = of[k - 1] /\ q.host[s] = HostIn(named[k - 1])
      BY <2>2 DEF SaysTheFirst
    <3>4. r \in OfService(s) <=> ServiceOf(r) = s
      BY <2>1 DEF OfService
    <3>5. r \in WithHost(s) <=> ServiceOf(r) = s /\ r.host # Unnamed
      BY <2>1 DEF WithHost
    <3>6. /\ HostIn(Append(named[k - 1], r))
               = IF HostIn(named[k - 1]) = Unnamed THEN r.host ELSE HostIn(named[k - 1])
          /\ HostIn(named[k - 1]) = Unnamed => named[k - 1] = <<>>
      <4> HIDE DEF named, r
      <4> QED BY <2>1, <3>2, FirstStays
    <3> HIDE DEF of, named, r, q
    <3>7. Requests(records)[k].of[s] = of[k]
      BY <2>3, <2>4, <3>1, <3>3, <3>4
    <3>8. Requests(records)[k].host[s] = HostIn(named[k])
      BY <2>3, <2>4, <3>2, <3>3, <3>5, <3>6
    <3> QED
      BY <3>7, <3>8 DEF of, named
  <2>7. SaysTheFirst(records, k)
    BY <2>5, <2>6 DEF SaysTheFirst
  <2> QED
    BY <2>1, <2>7
<1> HIDE DEF T, N
<1>4. \A k \in 0..N : k \in T
  BY <1>1, <1>2, <1>3, AllUpTo
<1> QED
  BY <1>4 DEF T, N

-----------------------------------------------------------------------------
(* Exporter: the export. *)

Has(i) == OfKind(Kinds[i]) # <<>>

\* What the collector has of each kind goes by the stage; an answer is where
\* the stages end.
ExporterInv ==
    /\ batch \in Seq(Signals)
    /\ stage \in 0..4 /\ DOMAIN received = DOMAIN Kinds
    /\ stage = 0 => recorded = <<>> /\ answer = "none"
    /\ stage # 0 => recorded = OfKind("metric")
    /\ \A i \in DOMAIN Kinds :
          /\ received[i] \in {Nothing, Request(Kinds[i])}
          /\ i < stage /\ Has(i) => received[i] = Request(Kinds[i])
          /\ i > stage => received[i] = Nothing
    /\ answer \in {"none", "ok", "failed"}
    /\ answer = "ok" => stage = 4
    /\ answer = "failed" => stage \in DOMAIN Kinds /\ Has(stage)

LEMMA KindsAre == DOMAIN Kinds = 1..3 /\ Len(Kinds) = 3
  BY DEF Kinds

LEMMA OfKindIs ==
    ASSUME batch \in Seq(Signals), NEW kind
    PROVE  OfKind(kind) \in Seq(Signals)
<1> DEFINE S == {r \in Signals : r.kind = kind}
<1>1. Picking(Signals, batch, S)
  BY PicksIs
<1>2. Len(batch) \in 0..Len(batch)
  OBVIOUS
<1>3. Signals \cap S = S /\ S \subseteq Signals
  OBVIOUS
<1>4. Picks(batch, S)[Len(batch)] \in Seq(S)
  BY <1>1, <1>2, <1>3 DEF Picking
<1>5. OfKind(kind) \in Seq(S)
  BY <1>4 DEF OfKind, Picked
<1> HIDE DEF S
<1>6. \A x \in Seq(S) : S \subseteq Signals => x \in Seq(Signals)
  <2> HIDE DEF S
  <2> QED OBVIOUS
<1> QED
  BY <1>3, <1>5, <1>6

LEMMA ExporterStart == InitExporter => ExporterInv
<1> SUFFICES ASSUME InitExporter PROVE ExporterInv
  OBVIOUS
<1>1. batch \in Seq(Signals)
  <2> HIDE DEF Signals
  <2>1. PICK n \in 0..MaxBatch : batch \in [1..n -> Signals]
    BY DEF InitExporter, BoundedSeq, SeqOf
  <2>2. n \in Nat
    BY ExporterAssumption
  <2> QED
    BY <2>1, <2>2
<1> QED
  BY <1>1, KindsAre DEF InitExporter, ExporterInv

LEMMA ExportKeeps == ExporterInv /\ Export => ExporterInv'
<1> SUFFICES ASSUME ExporterInv, Export PROVE ExporterInv'
  OBVIOUS
<1>1. batch' = batch
  BY DEF Export, Record, Skip, SendOk, SendFails, ReturnOk
<1>2. /\ \A kind : OfKind(kind)' = OfKind(kind) /\ Request(kind)' = Request(kind)
      /\ \A i \in DOMAIN Kinds : Has(i)' <=> Has(i)
  BY <1>1 DEF OfKind, Request, Has
<1>3. DOMAIN Kinds = 1..3
  BY KindsAre
<1>4. CASE Record
  <2>1. recorded' = OfKind("metric")
    BY <1>4, OfKindIs DEF Record, ExporterInv
  <2> QED
    BY <1>1, <1>2, <1>3, <1>4, <2>1 DEF Record, ExporterInv
<1>5. CASE Skip
  BY <1>1, <1>2, <1>3, <1>5 DEF Skip, Has, ExporterInv
<1>6. CASE SendOk
  BY <1>1, <1>2, <1>3, <1>6 DEF SendOk, Sends, Has, ExporterInv
<1>7. CASE SendFails
  BY <1>1, <1>2, <1>3, <1>7 DEF SendFails, Sends, Has, ExporterInv
<1>8. CASE ReturnOk
  BY <1>1, <1>2, <1>3, <1>8, KindsAre DEF ReturnOk, ExporterInv
<1> QED
  BY <1>4, <1>5, <1>6, <1>7, <1>8 DEF Export

LEMMA ExporterStep == ExporterInv /\ [Next]_vars => ExporterInv'
<1> SUFFICES ASSUME ExporterInv, [Next]_vars PROVE ExporterInv'
  OBVIOUS
<1>1. CASE UNCHANGED exporterVars
  BY <1>1 DEF exporterVars, ExporterInv, Has, OfKind, Request
<1>2. Export \/ UNCHANGED exporterVars
  BY DEF Next, OfContainer, OfLearning, OfMachine, OfEndpoints, OfExporter, OfStartup, Over, vars
<1> QED
  BY <1>1, <1>2, ExportKeeps

\* What arrived, and what the answer says of it, agree with how far the export
\* has come, in every reachable state.
THEOREM ExporterCorrect == Spec => []ExporterInv
<1>1. Init => ExporterInv
  BY ExporterStart DEF Init
<1> QED
  BY <1>1, ExporterStep, PTL DEF Spec

\* What a request says, once it is all there.
LEMMA RequestIs ==
    ASSUME batch \in Seq(Signals), NEW kind
    PROVE  LET records == OfKind(kind)
               q       == Request(kind)
           IN  /\ q.services = {ServiceOf(records[j]) : j \in DOMAIN records}
               /\ q.services \subseteq Named
               /\ \A s \in Named : /\ q.of[s] = Picked(records, OfService(s))
                                   /\ q.host[s] = HostIn(Picked(records, WithHost(s)))
<1> DEFINE records == OfKind(kind)
           n == Len(records)
<1>1. records \in Seq(Signals) /\ n \in 0..n /\ DOMAIN records = 1..n
  BY OfKindIs
<1>2. Request(kind) = Requests(records)[n]
  BY DEF Request
<1> HIDE DEF records
<1>3. SaysTheFirst(records, n)
  BY <1>1, RequestSays
<1>4. Requests(records)[n].services \subseteq Named
  BY <1>1, RequestsIs DEF QueryType
<1>5. /\ Request(kind).services = {ServiceOf(records[j]) : j \in DOMAIN records}
      /\ Request(kind).services \subseteq Named
      /\ \A s \in Named : /\ Request(kind).of[s] = Picked(records, OfService(s))
                          /\ Request(kind).host[s] = HostIn(Picked(records, WithHost(s)))
  BY <1>1, <1>2, <1>3, <1>4 DEF SaysTheFirst, Picked
<1> QED
  BY <1>5 DEF records

\* A request of any length says of its kind exactly what the batch does: every
\* record once, in order, under its service, with the host named first.
THEOREM BatchKept == Spec => []RequestsKeepTheBatch
<1>1. ExporterInv => RequestsKeepTheBatch
  <2> SUFFICES ASSUME ExporterInv, NEW i \in DOMAIN Kinds, Arrived(i)
               PROVE  LET records == OfKind(Kinds[i])
                      IN  /\ received[i].services = {ServiceOf(records[j]) : j \in DOMAIN records}
                          /\ \A s \in received[i].services :
                                /\ received[i].of[s]
                                      = Picked(records, {r \in Signals : ServiceOf(r) = s})
                                /\ received[i].host[s] = FirstHost(records, s)
    BY DEF RequestsKeepTheBatch
  <2>1. received[i] = Request(Kinds[i]) /\ batch \in Seq(Signals)
    BY DEF ExporterInv, Arrived, Nothing
  <2> DEFINE records == OfKind(Kinds[i])
             q       == Request(Kinds[i])
  <2>2. /\ q.services = {ServiceOf(records[j]) : j \in DOMAIN records}
        /\ q.services \subseteq Named
        /\ \A s \in Named : /\ q.of[s] = Picked(records, OfService(s))
                            /\ q.host[s] = HostIn(Picked(records, WithHost(s)))
    BY <2>1, RequestIs
  <2> HIDE DEF records, q
  <2>3. ASSUME NEW s \in q.services
        PROVE  /\ q.of[s] = Picked(records, {r \in Signals : ServiceOf(r) = s})
               /\ q.host[s] = FirstHost(records, s)
    BY <2>2 DEF OfService, WithHost, HostIn, FirstHost
  <2> QED
    BY <2>1, <2>2, <2>3 DEF records, q
<1> QED
  BY <1>1, ExporterCorrect, PTL

\* The answer tells what became of a batch of any length.
THEOREM AnswersTell == Spec => []AnswerTells
<1>1. ASSUME ExporterInv, NEW i \in DOMAIN Kinds, Has(i), received[i] = Request(Kinds[i])
      PROVE  Arrived(i)
  <2> DEFINE records == OfKind(Kinds[i])
  <2>1. batch \in Seq(Signals)
    BY <1>1 DEF ExporterInv
  <2>2. records \in Seq(Signals) /\ records # <<>>
    BY <1>1, <2>1, OfKindIs DEF Has
  <2>3. 1 \in DOMAIN records
    BY <2>2
  <2>4. Request(Kinds[i]).services = {ServiceOf(records[j]) : j \in DOMAIN records}
    BY <2>1, RequestIs
  <2> HIDE DEF records
  <2> QED
    BY <1>1, <2>3, <2>4 DEF Arrived
<1>2. ASSUME ExporterInv PROVE AnswerTells
  <2>1. \A i \in DOMAIN Kinds : i \in Int /\ i < 4
    BY KindsAre
  <2>2. answer # "none" => recorded = OfKind("metric")
    BY <1>2 DEF ExporterInv
  <2>3. answer = "ok" => \A i \in DOMAIN Kinds : Has(i) => Arrived(i)
    BY <1>1, <1>2, <2>1 DEF ExporterInv
  <2>4. ASSUME answer = "failed"
        PROVE  /\ stage \in DOMAIN Kinds /\ Has(stage)
               /\ \A i \in DOMAIN Kinds : /\ i < stage /\ Has(i) => Arrived(i)
                                          /\ i > stage => ~Arrived(i)
    BY <1>1, <1>2, <2>1, <2>4 DEF ExporterInv, Arrived, Nothing
  <2> QED
    BY <2>2, <2>3, <2>4 DEF AnswerTells, Has
<1> QED
  BY <1>2, ExporterCorrect, PTL

=============================================================================
