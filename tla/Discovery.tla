----------------------------- MODULE Discovery ------------------------------
(***************************************************************************)
(* The control plane of harnesssphere/src/discovery.rs: a task that scans  *)
(* the tenant tree on an interval, compares what it found with what it     *)
(* knew, and sends the difference to the supervisor as Add and Remove      *)
(* commands, two sources per workspace.                                    *)
(*                                                                         *)
(* The tree is written by another process while it is walked.  Of the      *)
(* supervisor only what Registry promises is used: its command channel and *)
(* the keys of its registry.  Supervisor implements that.                  *)
(***************************************************************************)
EXTENDS Integers, Sequences, FiniteSets

CONSTANTS
    Workspaces,     \* the (tenant, subscription, agent, user) directories
    CmdCapacity,    \* the command channel; 64 in the code
    MaxChanges,     \* bound: how often the tree changes
    MaxGlitches,    \* bound: how often a directory that is there is not read
    ScanWrap,       \* the scan counter is modulo this; 2^64 in the code
    NoCommand

ASSUME DiscoveryAssumption ==
    /\ IsFiniteSet(Workspaces)
    /\ CmdCapacity \in Nat \ {0}
    /\ MaxChanges \in Nat /\ MaxGlitches \in Nat
    /\ ScanWrap \in Nat \ {0}

\* The two descriptor names of a workspace: source_name(), which starts with
\* "session:", and "learning:" before that.
Session(w)  == <<"session", w>>
Learning(w) == <<"learning", w>>
NamesOf(W)  == {Session(w) : w \in W} \cup {Learning(w) : w \in W}
Names       == NamesOf(Workspaces)

VARIABLES
    tree,       \* the workspaces that exist
    changes,    \* how often that changed
    glitches,   \* how often a read failed
    at,         \* where the task is
    unread,     \* workspaces this scan has not reached yet
    current,    \* what this scan found
    known,      \* what the last completed pass found
    toAdd,      \* found and not announced yet
    toRemove,   \* known, not found, and not retired yet
    second,     \* the other command of the pair begun
    workspaces, \* the counters that the task and DiscoveryStats share
    scans,
    report,     \* what DiscoveryStats has emitted of them last
    reading,    \* which of the two its collect loads next
    cmds,       \* the supervisor, as Registry shows it
    registered,
    service

Supervised == INSTANCE Registry

Add(n)    == Supervised!Add(n)
Remove(n) == Supervised!Remove(n)
Commands  == Supervised!Commands

ASSUME NoCommandAssumption == NoCommand \notin Commands

world    == <<tree, changes, glitches>>
passVars == <<unread, current, known, toAdd, toRemove, second, workspaces, scans>>
stats    == <<report, reading>>
control  == <<cmds, registered, service>>
vars     == <<world, at, passVars, stats, control>>

Unseen == -1

Init ==
    /\ tree \in SUBSET Workspaces
    /\ changes = 0 /\ glitches = 0
    /\ at = "idle"
    /\ unread = {} /\ current = {} /\ known = {}
    /\ toAdd = {} /\ toRemove = {} /\ second = NoCommand
    /\ workspaces = 0 /\ scans = 0
    /\ report = [workspaces |-> Unseen, scans |-> Unseen] /\ reading = "workspaces"
    /\ Supervised!Init

-----------------------------------------------------------------------------
(* The tree. *)

\* A user directory is created or deleted.
TreeChanges(w) ==
    /\ changes < MaxChanges
    /\ changes' = changes + 1
    /\ tree' = IF w \in tree THEN tree \ {w} ELSE tree \cup {w}
    /\ UNCHANGED <<glitches, at, passVars, stats, control>>

-----------------------------------------------------------------------------
(* discover(): one directory after another, as they are at that moment. *)

Tick ==
    /\ at = "idle"
    /\ at' = "scanning"
    /\ unread' = Workspaces
    /\ current' = {}
    /\ UNCHANGED <<world, known, toAdd, toRemove, second, workspaces, scans,
                   stats, control>>

Visit(w) ==
    /\ at = "scanning" /\ w \in unread
    /\ unread' = unread \ {w}
    /\ current' = IF w \in tree THEN current \cup {w} ELSE current
    /\ UNCHANGED <<world, at, known, toAdd, toRemove, second, workspaces, scans,
                   stats, control>>

\* A read_dir on the way to w fails: as good as empty.
Misses(w) ==
    /\ at = "scanning" /\ w \in unread \cap tree
    /\ glitches < MaxGlitches
    /\ glitches' = glitches + 1
    /\ unread' = unread \ {w}
    /\ UNCHANGED <<tree, changes, at, current, known, toAdd, toRemove, second,
                   workspaces, scans, stats, control>>

\* The two loops compare the scan with the last one.
Compare ==
    /\ at = "scanning" /\ unread = {}
    /\ at' = "sending"
    /\ toAdd' = current \ known
    /\ toRemove' = known \ current
    /\ UNCHANGED <<world, unread, current, known, second, workspaces, scans,
                   stats, control>>

-----------------------------------------------------------------------------
(* The pass: each send waits while the channel is full. *)

\* Mutant of Send: try_send whose result is thrown away.
Send_Try(c) ==
    \/ Supervised!Send(c)
    \/ service # "closed" /\ Len(cmds) = CmdCapacity /\ UNCHANGED control

\* Mutant of Send: a channel without a bound.
Send_Unbounded(c) ==
    /\ service # "closed"
    /\ cmds' = Append(cmds, c)
    /\ UNCHANGED <<registered, service>>

Send(c) == Supervised!Send(c)

AddFirst(w) ==
    /\ at = "sending" /\ second = NoCommand
    /\ w \in toAdd
    /\ Send(Add(Session(w)))
    /\ toAdd' = toAdd \ {w}
    /\ second' = Add(Learning(w))
    /\ UNCHANGED <<world, at, unread, current, known, toRemove, workspaces, scans,
                   stats>>

\* Mutant of RemoveFirst: the learning source is forgotten.
RemoveFirst_Alone(w) ==
    /\ at = "sending" /\ second = NoCommand
    /\ toAdd = {} /\ w \in toRemove
    /\ Send(Remove(Session(w)))
    /\ toRemove' = toRemove \ {w}
    /\ UNCHANGED <<world, at, unread, current, known, toAdd, second, workspaces,
                   scans, stats>>

\* Retirements follow the additions.
RemoveFirst(w) ==
    /\ at = "sending" /\ second = NoCommand
    /\ toAdd = {} /\ w \in toRemove
    /\ Send(Remove(Session(w)))
    /\ toRemove' = toRemove \ {w}
    /\ second' = Remove(Learning(w))
    /\ UNCHANGED <<world, at, unread, current, known, toAdd, workspaces, scans,
                   stats>>

SendSecond ==
    /\ at = "sending" /\ second # NoCommand
    /\ Send(second)
    /\ second' = NoCommand
    /\ UNCHANGED <<world, at, unread, current, known, toAdd, toRemove, workspaces,
                   scans, stats>>

\* Only a pass that sent everything is published and remembered.  The two
\* stores are two steps to whoever reads them.
StoreWorkspaces ==
    /\ at = "sending" /\ toAdd = {} /\ toRemove = {} /\ second = NoCommand
    /\ at' = "counting"
    /\ workspaces' = Cardinality(current)
    /\ UNCHANGED <<world, unread, current, known, toAdd, toRemove, second, scans,
                   stats, control>>

\* Mutants of PassDone: what is gone stays known; a scan that found nothing new
\* is not counted.
PassDone_Accumulates ==
    /\ at = "counting"
    /\ at' = "idle"
    /\ scans' = (scans + 1) % ScanWrap
    /\ known' = known \cup current
    /\ UNCHANGED <<world, unread, current, toAdd, toRemove, second, workspaces,
                   stats, control>>
PassDone_OnChange ==
    /\ at = "counting"
    /\ at' = "idle"
    /\ scans' = IF known = current THEN scans ELSE (scans + 1) % ScanWrap
    /\ known' = current
    /\ UNCHANGED <<world, unread, current, toAdd, toRemove, second, workspaces,
                   stats, control>>

PassDone ==
    /\ at = "counting"
    /\ at' = "idle"
    /\ scans' = (scans + 1) % ScanWrap
    /\ known' = current
    /\ UNCHANGED <<world, unread, current, toAdd, toRemove, second, workspaces,
                   stats, control>>

\* A send into a channel whose receiver is gone ends the task.
SendFails ==
    /\ at = "sending" /\ service = "closed"
    /\ second # NoCommand \/ toAdd # {} \/ toRemove # {}
    /\ at' = "stopped"
    /\ UNCHANGED <<world, passVars, stats, control>>

-----------------------------------------------------------------------------
(* DiscoveryStats, a source like any other, on a thread of its own. *)

LoadWorkspaces ==
    /\ service = "serving" /\ reading = "workspaces"
    /\ reading' = "scans"
    /\ report' = [report EXCEPT !.workspaces = workspaces]
    /\ UNCHANGED <<world, at, passVars, control>>

LoadScans ==
    /\ service = "serving" /\ reading = "scans"
    /\ reading' = "workspaces"
    /\ report' = [report EXCEPT !.scans = scans]
    /\ UNCHANGED <<world, at, passVars, control>>

-----------------------------------------------------------------------------
(* The supervisor and main.  No boot source has the name of a workspace. *)

SupervisorStep(A) == A /\ UNCHANGED <<world, at, passVars, stats>>

Open  == SupervisorStep(Supervised!Open)
Serve == SupervisorStep(Supervised!Serve)
End   == SupervisorStep(Supervised!End)
Close == SupervisorStep(Supervised!Close)

\* Mutant of Abort: main does not abort the task.
Abort_Never == FALSE /\ UNCHANGED vars

\* main aborts the task once run() has returned; it ends at an await, which a
\* scan has none of.
Abort ==
    /\ service = "closed" /\ at \in {"idle", "sending"}
    /\ at' = "stopped"
    /\ UNCHANGED <<world, passVars, stats, control>>

Stopped == at = "stopped" /\ UNCHANGED vars

Scan == Tick \/ (\E w \in Workspaces : Visit(w) \/ Misses(w)) \/ Compare
Pass == \/ \E w \in Workspaces : AddFirst(w) \/ RemoveFirst(w)
        \/ SendSecond \/ StoreWorkspaces \/ PassDone \/ SendFails
CollectStats == LoadWorkspaces \/ LoadScans

Next == (\E w \in Workspaces : TreeChanges(w)) \/ Scan \/ Pass \/ CollectStats
        \/ Open \/ Serve \/ End \/ Close \/ Abort \/ Stopped

Spec == Init /\ [][Next]_vars

\* The interval ticks, the walk and the sends go on, the supervisor starts, comes
\* back to its command channel (Supervisor's LoopResumes) and does not flush for
\* ever, and an abort is obeyed at one of the awaits the task passes again and
\* again (SF: a scan has none).  The tree owes nothing, and nothing makes the
\* supervisor's loop end.
Fairness ==
    /\ WF_vars(Tick) /\ WF_vars(\E w \in Workspaces : Visit(w)) /\ WF_vars(Compare)
    /\ WF_vars(Pass) /\ WF_vars(CollectStats) /\ SF_vars(Abort)
    /\ WF_vars(Open) /\ WF_vars(Serve) /\ WF_vars(Close)

FairSpec == Spec /\ Fairness

-----------------------------------------------------------------------------
(* Properties *)

TypeOK ==
    /\ tree \subseteq Workspaces
    /\ changes \in 0..MaxChanges /\ glitches \in 0..MaxGlitches
    /\ at \in {"idle", "scanning", "sending", "counting", "stopped"}
    /\ unread \subseteq Workspaces /\ current \subseteq Workspaces
    /\ known \subseteq Workspaces
    /\ toAdd \subseteq Workspaces /\ toRemove \subseteq Workspaces
    /\ second \in Commands \cup {NoCommand}
    /\ workspaces \in 0..Cardinality(Workspaces) /\ scans \in 0..(ScanWrap - 1)
    /\ report \in [workspaces : 0..Cardinality(Workspaces) \cup {Unseen},
                   scans : 0..(ScanWrap - 1) \cup {Unseen}]
    /\ reading \in {"workspaces", "scans"}
    /\ cmds \in Seq(Commands) /\ Len(cmds) <= CmdCapacity
    /\ registered \subseteq Names
    /\ service \in {"booting", "serving", "flushing", "closed"}

\* The supervisor's loop is over.
Ended == service \in {"flushing", "closed"}

\* What the registry will hold once the channel is empty: the last queued
\* command for a name decides.
Settled ==
    {n \in Names :
        IF \E i \in 1..Len(cmds) : cmds[i].name = n
        THEN \E i \in 1..Len(cmds) : /\ cmds[i] = Add(n)
                                     /\ \A j \in (i+1)..Len(cmds) : cmds[j].name # n
        ELSE n \in registered}

\* What this pass has still to send.
Owed == NamesOf(toAdd \cup toRemove)
        \cup (IF second = NoCommand THEN {} ELSE {second.name})

\* `known` is "exactly the set currently registered" (discovery.rs:104): with
\* the queued commands applied the registry holds the known workspaces, both
\* sources of each, between two passes, and is on its way from them to the
\* new scan's, name by name, during one.
KnownMirrorsRegistry ==
    /\ ~Ended /\ at \in {"idle", "scanning"} => Settled = NamesOf(known)
    /\ ~Ended /\ at \in {"sending", "counting"} =>
         \A n \in Names : n \in Settled <=>
             n \in IF n \in Owed THEN NamesOf(known) ELSE NamesOf(current)

\* Discovery never adds a name that is registered and never removes one that is
\* not: the supervisor's "bug in discovery" branch (lib.rs:111-113) is dead.
CommandsAreApt ==
    ~Ended /\ cmds # <<>> =>
        (Head(cmds).kind = "add" <=> Head(cmds).name \notin registered)

\* When the tree comes to rest the supervisor ends up watching both sources of
\* every workspace in it, and nothing else, for good, and the gauge that
\* DiscoveryStats emits shows their number: no change is missed, however the
\* scans, the changes, the failed reads, the queue and the two stores and two
\* loads of a pass fell.
Converges ==
    <>Ended \/ <>[](registered = NamesOf(tree) /\ report.workspaces = Cardinality(tree))

\* "A scan count that stops advancing is how you tell no workspaces from
\* discovery died" (discovery.rs:72-73): while the supervisor serves, the count
\* goes on, with nothing to find, reads that fail and a channel that is full.
ScansGoOn == <>Ended \/ []<><<scans' # scans>>_vars

\* Discovery does not outlive the supervisor, not even blocked on a full
\* channel (main.rs:141-145).
StopsWithSupervisor == service = "closed" ~> at = "stopped"

=============================================================================
