----------------------------- MODULE Collectors -----------------------------
(***************************************************************************)
(* The collectors that keep no state of their own, before one exporter.    *)
(* What they promise depends on what the exporter's instruments do with a  *)
(* point and with the lack of one, and on what it does with the records of *)
(* a batch.  A restart of the process is a new start in the world as it    *)
(* is.                                                                     *)
(*                                                                         *)
(* Their series are disjoint and none looks at what another does, nor does *)
(* what main makes of the configuration: a behaviour is about one of them. *)
(***************************************************************************)
EXTENDS Container, Learning, Samplers, Exporter, Startup

VARIABLE subject    \* the part this behaviour is about

vars == <<changes, shown, drops, containerVars, learningVars, samplerVars, exporterVars,
          startupVars, subject>>

Init == /\ subject \in {"container", "learning", "machine", "endpoints", "exporter",
                        "startup"}
        /\ InitInstruments
        /\ InitContainer /\ (subject # "container" => ~up)
        /\ InitLearning
        /\ InitSamplers /\ (subject # "endpoints" => \A i \in DOMAIN Targets : endpoint[i] = "open")
        /\ InitExporter /\ (subject # "exporter" => batch = <<>>)
        /\ InitStartup

About(part) == subject = part /\ UNCHANGED subject

OfContainer(A) == About("container") /\ A
                    /\ UNCHANGED <<learningVars, samplerVars, exporterVars, startupVars>>
OfLearning(A)  == About("learning") /\ A
                    /\ UNCHANGED <<containerVars, samplerVars, exporterVars, startupVars>>
OfMachine(A)   == About("machine") /\ A
                    /\ UNCHANGED <<containerVars, learningVars, exporterVars, startupVars>>
OfEndpoints(A) == About("endpoints") /\ A
                    /\ UNCHANGED <<containerVars, learningVars, exporterVars, startupVars>>
Unmeasured     == UNCHANGED <<changes, shown, drops, containerVars, learningVars, samplerVars>>
OfExporter(A)  == About("exporter") /\ A /\ Unmeasured /\ UNCHANGED startupVars
OfStartup(A)   == About("startup") /\ A /\ Unmeasured /\ UNCHANGED exporterVars

\* The export has returned, the learning collector is retired, or main is over.
Over == (answer # "none" \/ doing = "retired" \/ step \in {"exit 1", "exit 2"}) /\ UNCHANGED vars

Next ==
    \/ OfContainer(Kernel) \/ OfContainer(ReadFile)
    \/ OfLearning(Agent) \/ OfLearning(CollectLearning) \/ OfLearning(RetireLearning)
    \/ OfMachine(Machine) \/ OfMachine(SampleHost) \/ OfMachine(SampleProcesses)
    \/ OfMachine(SampleSelf)
    \/ OfEndpoints(Network) \/ OfEndpoints(ProbeEndpoints)
    \/ OfExporter(Export)
    \/ OfStartup(Author) \/ OfStartup(Startup)
    \/ Over

Spec == Init /\ [][Next]_vars

\* Every task keeps ticking, its reads return and its connects return or time
\* out, and now and then the own process is found; the kernel, the agent and
\* the machine owe nothing.
FairSpec ==
    /\ Spec
    /\ WF_vars(OfContainer(ReadFile))
    /\ WF_vars(OfLearning(CollectLearning))
    /\ WF_vars(OfMachine(SampleHost)) /\ WF_vars(OfMachine(SampleProcesses))
    /\ WF_vars(OfMachine(SampleSelf /\ shown'[Itself] = resident[Itself]))
    /\ WF_vars(OfEndpoints(ProbeEndpoints))

-----------------------------------------------------------------------------
(* Properties *)

\* See Container, Learning and Samplers.
ContainerCatchesUp == subject = "container" => MemoryCatchesUp
AgentCatchesUp     == subject = "learning"  => LearningCatchesUp
SamplesCatchUp     == <>[](/\ subject = "machine"   => MachineShown
                           /\ subject = "endpoints" => EndpointsShown)

=============================================================================
