------------------------------ MODULE Learning ------------------------------
(***************************************************************************)
(* The learning collector (crates/collectors/src/learning.rs) for one      *)
(* workspace: each collect counts skills, memory files and knowledge graph *)
(* records anew, tree after tree, while the agent writes them, and emits   *)
(* six gauges and one more per skill.  The collector remembers nothing;    *)
(* the instruments do.                                                     *)
(***************************************************************************)
EXTENDS Instruments, Sequences, FiniteSetsExt

CONSTANTS
    Skills,         \* the directories below any skills directory of the user
    SkillNames,
    NameOfSkill,    \* their names; two project workspaces may share one
    MemoryFiles,    \* the files below any memory directory of the user
    Graphs,         \* the memory.jsonl files one level below the user's root
    HomeOf,         \* the directory, one level below the root, that each is in
    Observations,   \* how many an entity record holds
    MaxRecords      \* bound: records of a graph

Totals == {"skills", "memory.files", "memory.bytes",
           "graph.entities", "graph.relations", "graph.observations"}

\* harnesssphere.harness.skill with skill.name = n is written n.
LearningSeries == Totals \cup SkillNames

\* The main workspace, that of a project, the graph directory of either, and
\* any other directory, say a backup.
Homes == {"workspace", "workspace-project", "memory-graph", "memory-graph-project", "other"}

ASSUME LearningAssumption ==
    /\ SkillNames \cap Totals = {}
    /\ NameOfSkill \in [Skills -> SkillNames]
    /\ LearningSeries \subseteq Series
    /\ HomeOf \in [Skills \cup MemoryFiles \cup Graphs -> Homes]
    /\ Observations \in Nat /\ MaxRecords \in Nat

VARIABLES
    skill,      \* what is in each skill directory
    memory,     \* the length of each memory file
    graph,      \* the records of each graph and what follows the last one
    doing,      \* where the collect is
    counts      \* what it has counted

agentVars    == <<skill, memory, graph>>
learningVars == <<agentVars, doing, counts>>

Records == {"entity", "relation", "junk"}

\* At the end of a graph: nothing, a piece of a record that does not parse, or
\* one that ends inside a character, so that the file is not text.
Tails == {"none", "piece", "split"}

NoCounts == [total |-> [t \in Totals |-> 0], names |-> {}, todo |-> {}]

InitLearning ==
    /\ skill = [d \in Skills |-> "none"]
    /\ memory = [f \in MemoryFiles |-> Absent]
    /\ graph = [g \in Graphs |-> [records |-> <<>>, tail |-> "none"]]
    /\ doing = "idle" /\ counts = NoCounts

-----------------------------------------------------------------------------
(* The agent. *)

AgentWrites == Changes /\ UNCHANGED <<doing, counts>>

\* A directory comes, gets its SKILL.md, or goes.
ChangeSkill(d) ==
    /\ AgentWrites
    /\ \E s \in {"none", "directory", "skill"} \ {skill[d]} : skill' = [skill EXCEPT ![d] = s]
    /\ UNCHANGED <<memory, graph>>

\* A memory file is created, by provisioning an empty one, written, or deleted.
ChangeMemory(f) ==
    /\ AgentWrites
    /\ \E n \in {Absent, 0, 1} \ {memory[f]} : memory' = [memory EXCEPT ![f] = n]
    /\ UNCHANGED <<skill, graph>>

\* A record is appended, whole or up to some byte.
AppendGraph(g) ==
    /\ AgentWrites
    /\ \/ /\ Len(graph[g].records) < MaxRecords
          /\ \E r \in Records : graph' =
               [graph EXCEPT ![g] = [records |-> Append(@.records, r), tail |-> "none"]]
       \/ \E t \in Tails \ {"none"} : graph' = [graph EXCEPT ![g].tail = t]
    /\ UNCHANGED <<skill, memory>>

DeleteGraph(g) ==
    /\ AgentWrites
    /\ graph' = [graph EXCEPT ![g] = [records |-> <<>>, tail |-> "none"]]
    /\ UNCHANGED <<skill, memory>>

Agent == \/ \E d \in Skills : ChangeSkill(d)
         \/ \E f \in MemoryFiles : ChangeMemory(f)
         \/ \E g \in Graphs : AppendGraph(g) \/ DeleteGraph(g)

-----------------------------------------------------------------------------
(* What there is to count. *)

\* Mutant of InWorkspace: the workspaces of projects are passed over.
InWorkspace_MainOnly(x) == HomeOf[x] = "workspace"

\* skill_dirs and memory_dirs look into workspace and workspace-*, graph_files
\* into memory-graph*.
InWorkspace(x) == HomeOf[x] \in {"workspace", "workspace-project"}
InGraphDir(x)  == HomeOf[x] \in {"memory-graph", "memory-graph-project"}

\* A skill is a directory with a SKILL.md.
LiveSkills == {d \in Skills : InWorkspace(d) /\ skill[d] = "skill"}

\* Only a memory file with something in it counts.
LiveMemory == {f \in MemoryFiles : InWorkspace(f) /\ memory[f] > 0}

GraphFiles == {g \in Graphs : InGraphDir(g)}

\* The records of one kind; of a graph that is not text there are none.
RecordsOf(g, kind) ==
    IF graph[g].tail = "split" THEN 0
    ELSE Cardinality({i \in DOMAIN graph[g].records : graph[g].records[i] = kind})

Plus(counted, totals) ==
    [counted EXCEPT !.total = [t \in Totals |-> @[t] + IF t \in DOMAIN totals THEN totals[t] ELSE 0]]

-----------------------------------------------------------------------------
(* collect: gather, tree after tree, and the emits *)

CountSkills ==
    /\ doing = "idle"
    /\ doing' = "memory"
    /\ counts' = [Plus(NoCounts, [t \in {"skills"} |-> Cardinality(LiveSkills)])
                    EXCEPT !.names = {NameOfSkill[d] : d \in LiveSkills}]
    /\ UNCHANGED <<agentVars, changes, shown, drops>>

CountMemory ==
    /\ doing = "memory"
    /\ doing' = "graphs"
    /\ counts' = [Plus(counts, [t \in {"memory.files", "memory.bytes"} |->
                        IF t = "memory.files" THEN Cardinality(LiveMemory)
                        ELSE FoldSet(LAMBDA f, n : n + memory[f], 0, LiveMemory)])
                    EXCEPT !.todo = GraphFiles]
    /\ UNCHANGED <<agentVars, changes, shown, drops>>

CountGraph(g) ==
    /\ doing = "graphs" /\ g \in counts.todo
    /\ counts' = [Plus(counts, [t \in {"graph.entities", "graph.relations", "graph.observations"} |->
                        IF t = "graph.entities" THEN RecordsOf(g, "entity")
                        ELSE IF t = "graph.relations" THEN RecordsOf(g, "relation")
                        ELSE Observations * RecordsOf(g, "entity")])
                    EXCEPT !.todo = @ \ {g}]
    /\ UNCHANGED <<agentVars, doing, changes, shown, drops>>

EmitCounts ==
    /\ doing = "graphs" /\ counts.todo = {}
    /\ doing' = "idle" /\ counts' = NoCounts
    /\ Emit([s \in Totals \cup counts.names |->
                Point("Gauge", IF s \in Totals THEN counts.total[s] ELSE 1)])
    /\ UNCHANGED agentVars

\* retire: zeros for the totals.
RetireLearning ==
    /\ doing = "idle"
    /\ doing' = "retired"
    /\ Emit([s \in Totals |-> Point("Gauge", 0)])
    /\ UNCHANGED <<agentVars, counts>>

CollectLearning == CountSkills \/ CountMemory \/ (\E g \in Graphs : CountGraph(g)) \/ EmitCounts

-----------------------------------------------------------------------------
(* Properties *)

\* What the agent has retained, by definition: manifests, files that say
\* something, records by kind, wherever the user has them but for the backup.
Kept     == {x \in Skills \cup MemoryFiles \cup Graphs : HomeOf[x] # "other"}
Retained == [t \in Totals |->
    LET Written == {f \in MemoryFiles \cap Kept : memory[f] > 0}
        Of(kind) == UNION {{g} \X {i \in DOMAIN graph[g].records :
                                      graph[g].records[i] = kind} : g \in Graphs \cap Kept}
    IN  CASE t = "skills"             -> Cardinality({d \in Skills \cap Kept : skill[d] = "skill"})
          [] t = "memory.files"       -> Cardinality(Written)
          [] t = "memory.bytes"       -> FoldSet(LAMBDA f, n : n + memory[f], 0, Written)
          [] t = "graph.entities"     -> Cardinality(Of("entity"))
          [] t = "graph.relations"    -> Cardinality(Of("relation"))
          [] t = "graph.observations" -> Observations * Cardinality(Of("entity"))]

\* When the agent comes to rest, with no graph ending inside a character, the
\* six totals come to what it has retained for good and every skill has its
\* series, although the trees are read at different moments and points are
\* dropped (FR-L3, FR-L5), in the main workspace and in those of projects
\* (workspace.rs:67-87).
LearningCatchesUp ==
    <>[](\/ doing = "retired"
         \/ \E g \in Graphs : graph[g].tail = "split"
         \/ /\ \A t \in Totals : shown[t] = Retained[t]
            /\ \A d \in Skills \cap Kept : skill[d] = "skill" => shown[NameOfSkill[d]] = 1)

=============================================================================
