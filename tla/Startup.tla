------------------------------ MODULE Startup ------------------------------
(***************************************************************************)
(* From the text of the configuration to what runs: Config::load           *)
(* (harnesssphere/src/config.rs), main (harnesssphere/src/main.rs) up to   *)
(* run(), and the layer that LayerSink (crates/runtime/src/lib.rs) puts on *)
(* what the boot sources emit.                                             *)
(*                                                                         *)
(* The text is lines in an order its author chose.  In TOML a key belongs  *)
(* to the last header above it, whatever its author meant.  Of the options *)
(* of the root the model has those that switch a source on, and the        *)
(* exporter.                                                               *)
(***************************************************************************)
EXTENDS Integers, Sequences

CONSTANTS
    Options,    \* options that switch a source on when they are not empty
    Layers,     \* the layers a target of this instance may be filed under
    Misspelt,   \* no layer
    Unset,      \* no such key, no such attribute
    MaxTargets  \* bound: headers [[probe_targets]] in the file

SourceOf  == [watch_processes |-> "process", container_cgroup |-> "container",
              data_root |-> "discovery"]
Exporters == {"stdout", "otlp"}

ASSUME StartupAssumption ==
    /\ Options \subseteq DOMAIN SourceOf
    /\ Misspelt \notin Layers /\ Unset \notin Layers \cup {Misspelt}
    /\ MaxTargets \in Nat

\* The layer in the descriptor of each source.
LayerOf == [s \in {"host", "self", "process", "container", "endpoint-probe", "discovery"} |->
               CASE s \in {"host", "process"} -> "host" [] s = "container" -> "harness"
                 [] OTHER -> "watcher"]

VARIABLES
    section,    \* the header under which the next line stands
    meant,      \* options the author wrote at the root or below the targets
    root,       \* options TOML finds at the root
    exporter,   \* the exporter named at the root, later the one chosen
    tables,     \* the [[probe_targets]]: the layer, and what other keys they hold
    step,      \* how far main is: reading, mandatory, optional, output, running, or the end
    sources,    \* the names of the boot list
    targets,    \* the layer of each target the probe is given
    emitted     \* the last signal of a boot source: whose, of which target, its layer

config      == <<section, meant, root, exporter, tables>>
startupVars == <<config, step, sources, targets, emitted>>

InitStartup ==
    /\ section = "root" /\ meant = {} /\ root = {} /\ exporter = Unset /\ tables = <<>>
    /\ step = "reading" /\ sources = {} /\ targets = <<>>
    /\ emitted = [source |-> "host", target |-> 0, layer |-> "host"]

-----------------------------------------------------------------------------
(* The file, line by line.  A key twice in one table is no TOML: LoadFails. *)

Reading == step = "reading" /\ UNCHANGED <<step, sources, targets, emitted>>

LastTable == tables[Len(tables)]

\* The last table becomes this one.
Rewrites(table) == tables' = [tables EXCEPT ![Len(tables)] = table]

TargetHeader ==
    /\ Reading /\ Len(tables) < MaxTargets
    /\ section' = "target"
    /\ tables' = Append(tables, [keys |-> {}, layer |-> Unset])
    /\ UNCHANGED <<meant, root, exporter>>

\* A header the program knows nothing of.
OtherHeader == Reading /\ section' = "other" /\ UNCHANGED <<meant, root, exporter, tables>>

OptionLine(o) ==
    /\ Reading
    /\ \/ /\ section = "root" /\ o \notin root
          /\ root' = root \cup {o} /\ meant' = meant \cup {o}
          /\ UNCHANGED tables
       \/ /\ section = "target"
          /\ Rewrites([keys |-> LastTable.keys \cup {o}, layer |-> LastTable.layer])
          /\ meant' = meant \cup {o}
          /\ UNCHANGED root
    /\ UNCHANGED <<section, exporter>>

ExporterLine(e) ==
    /\ Reading /\ section = "root" /\ exporter = Unset
    /\ exporter' = e
    /\ UNCHANGED <<section, meant, root, tables>>

AddressLine ==
    /\ Reading /\ section = "target"
    /\ Rewrites([keys |-> LastTable.keys \cup {"address"}, layer |-> LastTable.layer])
    /\ UNCHANGED <<section, meant, root, exporter>>

LayerLine(l) ==
    /\ Reading /\ section = "target" /\ LastTable.layer = Unset
    /\ Rewrites([keys |-> LastTable.keys, layer |-> l])
    /\ UNCHANGED <<section, meant, root, exporter>>

Author ==
    \/ TargetHeader \/ OtherHeader \/ AddressLine
    \/ \E o \in Options : OptionLine(o)
    \/ \E e \in Exporters \cup {Misspelt} : ExporterLine(e)
    \/ \E l \in Layers \cup {Misspelt} : LayerLine(l)

-----------------------------------------------------------------------------
(* Config::load *)

\* Both keys are required, and no other is allowed.
Accepted(table) == table.keys = {"address"} /\ table.layer # Unset

LoadWhen(accepted) ==
    /\ step = "reading" /\ accepted
    /\ \E e \in Exporters \cup {Misspelt, Unset} :   \* HARNESSSPHERE_EXPORTER
          exporter' = IF e # Unset THEN e ELSE IF exporter # Unset THEN exporter ELSE "stdout"
    /\ step' = "mandatory"
    /\ UNCHANGED <<section, meant, root, tables, sources, targets, emitted>>

\* Mutant of Load: a target without deny_unknown_fields.
Load_Lenient ==
    LoadWhen(\A i \in DOMAIN tables : "address" \in tables[i].keys /\ tables[i].layer # Unset)

Load == LoadWhen(\A i \in DOMAIN tables : Accepted(tables[i]))

\* The file cannot be read, is no TOML or is not accepted.
LoadFails ==
    /\ step = "reading"
    /\ step' = "exit 2"
    /\ UNCHANGED <<config, sources, targets, emitted>>

-----------------------------------------------------------------------------
(* main *)

Mandatory ==
    /\ step = "mandatory"
    /\ \/ sources' = {"host", "self"} /\ step' = "optional"
       \/ sources' = {"host"} /\ step' = "exit 1"   \* there is no own pid
    /\ UNCHANGED <<config, targets, emitted>>

\* A probe without targets is not made.
Probe(list) == IF list = <<>> THEN {} ELSE {"endpoint-probe"}

\* Processes, endpoints and container; a layer that is none ends the process.
Optional ==
    /\ step = "optional"
    /\ IF \A i \in DOMAIN tables : tables[i].layer \in Layers
       THEN /\ sources' = sources \cup {SourceOf[o] : o \in root \ {"data_root"}} \cup Probe(tables)
            /\ targets' = [i \in DOMAIN tables |-> tables[i].layer]
            /\ step' = "output"
       ELSE step' = "exit 2" /\ UNCHANGED <<sources, targets>>
    /\ UNCHANGED <<config, emitted>>

\* The exporter, then discovery with its statistics.  OTLP may fail to start or
\* not be built in.
Output ==
    /\ step = "output"
    /\ \/ /\ exporter \in Exporters
          /\ sources' = sources \cup {SourceOf[o] : o \in root \cap {"data_root"}}
          /\ step' = "running"
       \/ exporter # "stdout" /\ step' = "exit 2" /\ UNCHANGED sources
    /\ UNCHANGED <<config, targets, emitted>>

\* LayerSink: the layer of the descriptor, unless the signal has one.
Stamped(attribute, layer) == IF attribute # Unset THEN attribute ELSE layer

EmitOne ==
    /\ step = "running"
    /\ \/ \E s \in sources \ {"endpoint-probe"} :
             emitted' = [source |-> s, target |-> 0, layer |-> Stamped(Unset, LayerOf[s])]
       \/ \E i \in DOMAIN targets :
             emitted' = [source |-> "endpoint-probe", target |-> i,
                         layer |-> Stamped(targets[i], LayerOf["endpoint-probe"])]
    /\ UNCHANGED <<config, step, sources, targets>>

Startup == Load \/ LoadFails \/ Mandatory \/ Optional \/ Output \/ EmitOne

-----------------------------------------------------------------------------
(* Properties *)

\* What runs is what its author wrote, wherever above or below the targets he
\* wrote it: no option he meant is lost without an error (the defect that
\* config.rs:9-14 and tests/shipped_configs.rs:3-12 tell of), no target is
\* dropped, and each is filed under the layer beside its address (main.rs:64-66,
\* probe.rs:17-22).  An option below a header that is not the program's own is
\* lost, and not covered.
RunsAsWritten ==
    /\ step = "running" =>
          /\ sources = {"host", "self"} \cup {SourceOf[o] : o \in meant} \cup Probe(tables)
          /\ DOMAIN targets = DOMAIN tables
    /\ emitted.layer = IF emitted.target = 0 THEN LayerOf[emitted.source]
                       ELSE tables[emitted.target].layer

=============================================================================
