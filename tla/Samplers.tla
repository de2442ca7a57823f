------------------------------ MODULE Samplers ------------------------------
(***************************************************************************)
(* The collectors that look at the machine and keep nothing of it between  *)
(* two collects: host.rs, process.rs, self_watcher.rs and probe.rs in      *)
(* crates/collectors/src, each a task of its own.  The first three take    *)
(* one look and emit; the endpoint probe awaits one connection after the   *)
(* other, at most two seconds each.                                        *)
(*                                                                         *)
(* Of the gauges of one look the model keeps memory, and of swap, which    *)
(* may be switched off, both; the duration of a connect is left out.       *)
(***************************************************************************)
EXTENDS Instruments, Sequences

CONSTANTS
    Targets,    \* the endpoints to probe, in their order
    Processes,  \* what runs, or may run, under a configured name
    Itself,     \* HarnessSphere's own process
    MaxMemory   \* bound: bytes of a process, of the host, of swap

HostSeries    == {"system.memory.usage", "system.paging.usage", "system.paging.utilization"}

\* endpoint.up of an endpoint is written as the endpoint, and
\* process.memory.usage of a process as the process.
SamplerSeries == HostSeries \cup {Targets[i] : i \in DOMAIN Targets} \cup Processes \cup {Itself}

ASSUME SamplersAssumption ==
    /\ SamplerSeries \subseteq Series
    /\ Itself \notin Processes
    /\ Targets # <<>>
    /\ MaxMemory \in Nat

VARIABLES
    endpoint,   \* what a connect meets at each target
    resident,   \* the memory of each process, Absent while it does not run
    host,       \* memory and swap in use, and swap in all
    probing,    \* which target is being connected to
    heard       \* how that went, between the connect and the emit

machine     == <<endpoint, resident, host>>
samplerVars == <<machine, probing, heard>>

Memory == 0..MaxMemory

InitSamplers ==
    /\ endpoint \in [DOMAIN Targets -> {"open", "refuses", "silent"}]
    /\ resident = [p \in Processes \cup {Itself} |-> IF p = Itself THEN 0 ELSE Absent]
    /\ host = [memory |-> 0, swap |-> 0, swapSize |-> 0]
    /\ probing = 1 /\ heard = "nothing"

-----------------------------------------------------------------------------
(* The machine and its network. *)

EndpointChanges(i) ==
    /\ Changes
    /\ \E s \in {"open", "refuses", "silent"} \ {endpoint[i]} :
          endpoint' = [endpoint EXCEPT ![i] = s]
    /\ UNCHANGED <<resident, host, probing, heard>>

\* A process starts, grows, shrinks or ends; ours does not end under itself.
ProcessChanges(p) ==
    /\ Changes
    /\ \E n \in (IF p = Itself THEN Memory ELSE Memory \cup {Absent}) \ {resident[p]} :
          resident' = [resident EXCEPT ![p] = n]
    /\ UNCHANGED <<endpoint, host, probing, heard>>

\* Memory is used or freed; swap is used, switched on or off.
HostChanges ==
    /\ Changes
    /\ host' \in {h \in [memory : Memory, swap : Memory, swapSize : Memory] :
                     h.swap <= h.swapSize}
    /\ host' # host
    /\ UNCHANGED <<endpoint, resident, probing, heard>>

Machine == HostChanges \/ \E p \in Processes \cup {Itself} : ProcessChanges(p)
Network == \E i \in DOMAIN Targets : EndpointChanges(i)

-----------------------------------------------------------------------------
(* collect *)

Percent(part, whole) == (100 * part) \div whole

\* A host without swap has no paging utilization.
SampleHost ==
    /\ Emit([s \in IF host.swapSize > 0 THEN HostSeries
                   ELSE HostSeries \ {"system.paging.utilization"} |->
                CASE s = "system.memory.usage" -> Point("UpDownCounter", host.memory)
                  [] s = "system.paging.usage" -> Point("UpDownCounter", host.swap)
                  [] OTHER -> Point("Gauge", Percent(host.swap, host.swapSize))])
    /\ UNCHANGED samplerVars

\* A point for each process that runs.
SampleProcesses ==
    /\ Emit([p \in {p \in Processes : resident[p] # Absent} |->
                Point("UpDownCounter", resident[p])])
    /\ UNCHANGED samplerVars

\* The own process, unless it was not to be found: then the collect fails.
SampleSelf ==
    /\ \/ Emit([p \in {Itself} |-> Point("UpDownCounter", resident[Itself])])
       \/ UNCHANGED <<changes, shown, drops>>
    /\ UNCHANGED samplerVars

\* Mutant of Connect: the connect has no timeout of its own.
Connect_Waits ==
    /\ heard = "nothing" /\ endpoint[probing] # "silent"
    /\ heard' = IF endpoint[probing] = "open" THEN "accepted" ELSE "nobody"
    /\ UNCHANGED <<machine, probing, changes, shown, drops>>

\* connect() under its timeout: a refusal and two seconds of silence are alike.
Connect ==
    /\ heard = "nothing"
    /\ heard' = IF endpoint[probing] = "open" THEN "accepted" ELSE "nobody"
    /\ UNCHANGED <<machine, probing, changes, shown, drops>>

\* A target that is down gets its zero; then the next one's turn.
Report ==
    /\ heard # "nothing"
    /\ Emit([s \in {Targets[probing]} |-> Point("Gauge", IF heard = "accepted" THEN 1 ELSE 0)])
    /\ heard' = "nothing"
    /\ probing' = (probing % Len(Targets)) + 1
    /\ UNCHANGED machine

ProbeEndpoints == Connect \/ Report

-----------------------------------------------------------------------------
(* Properties *)

\* When the machine comes to rest host and processes show their numbers.  A
\* process that is gone and a swap that was switched off are not emitted and not
\* covered.
MachineShown ==
    /\ \A p \in Processes \cup {Itself} : resident[p] # Absent => shown[p] = resident[p]
    /\ shown["system.memory.usage"] = host.memory
    /\ shown["system.paging.usage"] = host.swap
    /\ host.swapSize > 0 =>
          shown["system.paging.utilization"] = Percent(host.swap, host.swapSize)

\* When the network comes to rest every endpoint shows whether it accepts: a
\* zero when it is down, also behind one that never answers (probe.rs:81-82).
EndpointsShown ==
    \A i \in DOMAIN Targets : shown[Targets[i]] = IF endpoint[i] = "open" THEN 1 ELSE 0

=============================================================================
