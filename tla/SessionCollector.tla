-------------------------- MODULE SessionCollector --------------------------
(***************************************************************************)
(* The session collector of crates/collectors/src/session.rs for one       *)
(* workspace: it tails JSONL transcripts that another process appends to,  *)
(* rewrites or rotates away, remembers an offset and counts per file, and  *)
(* emits absolute gauges.  The writer is external and moves between any    *)
(* two reads of a collect.                                                 *)
(*                                                                         *)
(* A transcript is its complete lines and what is there of the next one;   *)
(* of its bytes the model keeps how many a line has and which of them are  *)
(* inside a character, where reading text fails.                           *)
(***************************************************************************)
EXTENDS Integers, Sequences, FiniteSets, FiniteSetsExt

CONSTANTS
    Files,          \* transcript paths
    CronFiles,      \* those a scheduled task started
    Lines,          \* record kinds
    Roles,          \* roles; a record has at most one
    RoleOf,         \* the role of a record, NoRole when it has none
    CallsOf,        \* the length of its tool_calls
    Width,          \* the bytes of a record, its newline included
    Inside,         \* the positions in a record that split a character
    NoRole,
    NoState,        \* a path with no entry in the files map
    NoFile,
    MetaFirst,      \* the writer writes .meta.json before the transcript
    MaxLines,       \* bound: lines of each transcript
    MaxRewritten,   \* bound: transcripts whose content is replaced, once each
    MaxRestarts     \* bound: how often the watcher restarts

\* What is remembered of a transcript.
FileState == [offset : Nat, roles : [Roles -> Nat], calls : Nat, cron : BOOLEAN]

ASSUME SessionAssumption ==
    /\ CronFiles \subseteq Files
    /\ RoleOf \in [Lines -> Roles \cup {NoRole}] /\ NoRole \notin Roles
    /\ CallsOf \in [Lines -> Nat]
    /\ Width \in [Lines -> Nat \ {0}]
    /\ Inside \in [Lines -> SUBSET Nat]
    /\ \A l \in Lines : Inside[l] \subseteq 1..(Width[l] - 2)
    /\ NoFile \notin Files /\ NoState \notin FileState
    /\ MetaFirst \in BOOLEAN
    /\ MaxLines \in [Files -> Nat] /\ MaxRewritten \in Nat /\ MaxRestarts \in Nat

VARIABLES
    dir,        \* a sessions directory exists
    disk,       \* the transcripts and their metadata
    rewritten,  \* the transcripts whose content was replaced
    pc,         \* where collect is
    file,       \* the file it is at
    len,        \* that file's length when it was stat'ed, in bytes
    todo,       \* the files of the listing still to read
    files,      \* the collector's per-file state
    series,     \* what the backend shows: the last value of each series
    restarts    \* how often the watcher restarted

diskVars == <<dir, disk, rewritten>>
vars     == <<diskVars, pc, file, len, todo, files, series, restarts>>

\* A tail <<l, k>> is the first k bytes of record l.
NoTail == <<>>
Gone == [is |-> "never", lines |-> <<>>, tail |-> NoTail, meta |-> FALSE]
There(f) == disk[f].is = "there"

\* Where each line ends; before the first is 0.
Ends(lines) ==
    LET upto[i \in 0..Len(lines)] == IF i = 0 THEN 0 ELSE upto[i - 1] + Width[lines[i]]
    IN  upto

End(f, i)  == Ends(disk[f].lines)[i]
LastEnd(f) == End(f, Len(disk[f].lines))
Length(f)  == LastEnd(f) + (IF disk[f].tail = NoTail THEN 0 ELSE disk[f].tail[2])

\* Where the bytes from a position to the end are no text: the file ends, or
\* the position is, inside a character.
SplitEnd(f) == disk[f].tail # NoTail /\ disk[f].tail[2] \in Inside[disk[f].tail[1]]
SplitAt(f, offset) ==
    \/ \E i \in DOMAIN disk[f].lines : offset - End(f, i - 1) \in Inside[disk[f].lines[i]]
    \/ disk[f].tail # NoTail /\ offset - LastEnd(f) \in Inside[disk[f].tail[1]]

Absent == -1

Init ==
    /\ dir = FALSE
    /\ disk = [f \in Files |-> Gone]
    /\ rewritten = {}
    /\ pc = "idle" /\ file = NoFile /\ len = 0 /\ todo = {}
    /\ files = [f \in Files |-> NoState]
    /\ series = [messages |-> [r \in Roles |-> Absent], calls |-> Absent,
                 sessions |-> Absent, cron |-> Absent]
    /\ restarts = 0

-----------------------------------------------------------------------------
(* The writer *)

collectorVars == <<pc, file, len, todo, files, series, restarts>>

Becomes(f, is, lines, tail, meta) ==
    disk' = [disk EXCEPT ![f] = [is |-> is, lines |-> lines, tail |-> tail, meta |-> meta]]

MakeDir == ~dir /\ dir' = TRUE /\ UNCHANGED <<disk, rewritten, collectorVars>>

\* .meta.json appears, before or after the transcript it belongs to.
WriteMeta(f) ==
    /\ dir /\ ~disk[f].meta
    /\ MetaFirst => ~There(f)
    /\ Becomes(f, disk[f].is, disk[f].lines, disk[f].tail, TRUE)
    /\ UNCHANGED <<dir, rewritten, collectorVars>>

Replaced(f) ==
    /\ f \notin rewritten /\ Cardinality(rewritten) < MaxRewritten
    /\ rewritten' = rewritten \cup {f}

\* A transcript is created; under a path used before, that replaces it.
Create(f) ==
    /\ dir /\ ~There(f)
    /\ MetaFirst => disk[f].meta
    /\ \/ disk[f].is = "never" /\ UNCHANGED rewritten
       \/ disk[f].is = "rotated" /\ Replaced(f)
    /\ Becomes(f, "there", disk[f].lines, disk[f].tail, disk[f].meta)
    /\ UNCHANGED <<dir, collectorVars>>

\* A line is appended whole, or its rest after a part of it.
AppendLine(f, l) ==
    /\ There(f) /\ Len(disk[f].lines) < MaxLines[f]
    /\ disk[f].tail # NoTail => disk[f].tail[1] = l
    /\ Becomes(f, "there", Append(disk[f].lines, l), NoTail, disk[f].meta)
    /\ UNCHANGED <<dir, rewritten, collectorVars>>

AppendPart(f, l) ==
    /\ There(f) /\ Len(disk[f].lines) < MaxLines[f] /\ disk[f].tail = NoTail
    /\ \E k \in 1..(Width[l] - 1) :
          Becomes(f, "there", disk[f].lines, <<l, k>>, disk[f].meta)
    /\ UNCHANGED <<dir, rewritten, collectorVars>>

\* The older store writes the live file anew; what a collect can then see
\* first is the truncated file.
Rewrite(f) ==
    /\ There(f) /\ Replaced(f)
    /\ Becomes(f, "there", <<>>, NoTail, disk[f].meta)
    /\ UNCHANGED <<dir, collectorVars>>

\* A transcript and its metadata are rotated away.
Rotate(f) ==
    /\ There(f)
    /\ Becomes(f, "rotated", <<>>, NoTail, FALSE)
    /\ UNCHANGED <<dir, rewritten, collectorVars>>

-----------------------------------------------------------------------------
(* FileState and read_new *)

Fresh(cron) == [offset |-> 0, roles |-> [r \in Roles |-> 0], calls |-> 0, cron |-> cron]

\* What one line adds to a state.
AddLine(state, l) ==
    [offset |-> state.offset + Width[l],
     roles  |-> [r \in Roles |-> state.roles[r] + (IF RoleOf[l] = r THEN 1 ELSE 0)],
     calls  |-> state.calls + CallsOf[l],
     cron   |-> state.cron]

\* The state after the first i lines of a stretch, for every i.
Counts(state, lines) ==
    LET upto[i \in 0..Len(lines)] ==
          IF i = 0 THEN state ELSE AddLine(upto[i - 1], lines[i])
    IN  upto

Count(state, lines) == Counts(state, lines)[Len(lines)]

\* Shrunk means from zero.
Restarted(state) == IF len < state.offset THEN Fresh(state.cron) ELSE state

\* There is a complete line behind the offset, by the length of the stat and by
\* the bytes of now, and what follows the offset is text.
Readable(state, f) ==
    /\ len > state.offset
    /\ There(f) /\ LastEnd(f) > state.offset
    /\ ~SplitEnd(f) /\ ~SplitAt(f, state.offset)

\* The lines that begin at the offset or behind it; what is left of one that
\* begins before it, in a file written anew, does not parse.
NewLines(state, f) ==
    LET before == {i \in DOMAIN disk[f].lines : End(f, i - 1) < state.offset}
    IN  SubSeq(disk[f].lines, Cardinality(before) + 1, Len(disk[f].lines))

\* The new lines are counted, and the bytes consumed up to a position.
Counted(state, f, upto) ==
    LET count == Count(state, NewLines(state, f))
    IN  [offset |-> upto, roles |-> count.roles, calls |-> count.calls, cron |-> count.cron]

\* Mutants of ReadNew: no reset when the file shrank, one that forgets the
\* offset, and the partial line consumed with the rest.
ReadNew_NoReset(state, f) ==
    IF ~Readable(state, f) THEN state
    ELSE Counted(state, f, LastEnd(f))
ReadNew_Partial(state, f) ==
    LET start == Restarted(state)
    IN  IF ~Readable(start, f) THEN start
        ELSE Counted(start, f, Length(f))

\* read_new: an unreadable file leaves the state alone.
ReadNew(state, f) ==
    LET start == Restarted(state)
    IN  IF ~Readable(start, f) THEN start
        ELSE Counted(start, f, LastEnd(f))

-----------------------------------------------------------------------------
(* collect, from await to await *)

\* No session directory: Err, and nothing is touched.
CollectUnavailable ==
    /\ pc = "idle" /\ ~dir
    /\ UNCHANGED vars

\* Mutant of List: the states of vanished files stay.
List_Keeps ==
    /\ pc = "idle" /\ dir
    /\ pc' = "files"
    /\ todo' = {f \in Files : There(f)}
    /\ UNCHANGED <<diskVars, file, len, files, series, restarts>>

\* The listing; what vanished is forgotten at once.
List ==
    /\ pc = "idle" /\ dir
    /\ pc' = "files"
    /\ todo' = {f \in Files : There(f)}
    /\ files' = [f \in Files |-> IF f \in todo' THEN files[f] ELSE NoState]
    /\ UNCHANGED <<diskVars, file, len, series, restarts>>

\* metadata(); a file that is gone by now is skipped with its state kept.
Stat(f) ==
    /\ pc = "files" /\ f \in todo
    /\ todo' = todo \ {f}
    /\ \/ ~There(f) /\ UNCHANGED <<pc, file, len>>
       \/ /\ There(f)
          /\ pc' = "meta" /\ file' = f /\ len' = Length(f)
    /\ UNCHANGED <<diskVars, files, series, restarts>>

\* is_cron for a file seen for the first time; a known one keeps its answer.
ReadMeta ==
    /\ pc = "meta"
    /\ pc' = "read"
    /\ files' = [files EXCEPT ![file] =
          IF @ # NoState THEN @ ELSE Fresh(disk[file].meta /\ file \in CronFiles)]
    /\ UNCHANGED <<diskVars, file, len, todo, series, restarts>>

Read ==
    /\ pc = "read"
    /\ pc' = "files"
    /\ files' = [files EXCEPT ![file] = ReadNew(@, file)]
    /\ file' = NoFile /\ len' = 0
    /\ UNCHANGED <<diskVars, todo, series, restarts>>

Chats == {f \in Files : files[f] # NoState /\ ~files[f].cron}
Crons == {f \in Files : files[f] # NoState /\ files[f].cron}
SumOver(S, Value(_)) == FoldSet(LAMBDA f, n : n + Value(f), 0, S)
Messages(r) == SumOver(Chats, LAMBDA f : files[f].roles[r])

\* The totals go out; a role without messages has no entry in the map and gets
\* no value at all.
Emit ==
    /\ pc = "files" /\ todo = {}
    /\ pc' = "idle"
    /\ series' = [messages |-> [r \in Roles |-> IF Messages(r) > 0 THEN Messages(r)
                                                ELSE series.messages[r]],
                  calls    |-> SumOver(Chats, LAMBDA f : files[f].calls),
                  sessions |-> Cardinality(Chats),
                  cron     |-> Cardinality(Crons)]
    /\ UNCHANGED <<diskVars, file, len, todo, files, restarts>>

\* retire: three zeros.
Retire ==
    /\ pc = "idle"
    /\ pc' = "retired"
    /\ series' = [series EXCEPT !.calls = 0, !.sessions = 0, !.cron = 0]
    /\ UNCHANGED <<diskVars, file, len, todo, files, restarts>>

\* The watcher restarts, in the middle of a collect or not: the state is in
\* memory only, the backend keeps what it was told.
Restart ==
    /\ pc # "retired" /\ restarts < MaxRestarts
    /\ restarts' = restarts + 1
    /\ pc' = "idle" /\ file' = NoFile /\ len' = 0 /\ todo' = {}
    /\ files' = [f \in Files |-> NoState]
    /\ UNCHANGED <<diskVars, series>>

Retired == pc = "retired" /\ UNCHANGED vars

Writer == \/ MakeDir
          \/ \E f \in Files : \/ WriteMeta(f) \/ Create(f) \/ Rewrite(f) \/ Rotate(f)
                              \/ \E l \in Lines : AppendLine(f, l) \/ AppendPart(f, l)

Collect == \/ CollectUnavailable \/ List \/ (\E f \in Files : Stat(f))
           \/ ReadMeta \/ Read \/ Emit

Next == Writer \/ Collect \/ Retire \/ Restart \/ Retired

Spec == Init /\ [][Next]_vars

\* The task's ticks keep coming and reads return; the writer and the supervisor
\* owe nothing.
FairSpec == Spec /\ WF_vars(Collect)

-----------------------------------------------------------------------------
(* Properties *)

\* A state that is the count of first lines.
IsAPrefix(state, lines) ==
    \E n \in 0..Len(lines) : state = Counts(Fresh(state.cron), lines)[n]

\* A transcript that is only appended to: the resumed state is at every moment
\* the count of a prefix of complete lines, wherever the writer was when the
\* collector looked, and whatever restarts fell in between (FR-S4).
ResumedIsAPrefix ==
    \A f \in Files \ rewritten :
        files[f] # NoState /\ There(f) => IsAPrefix(files[f], disk[f].lines)

\* However a transcript was rewritten, the collector does not stay behind its
\* end nor wait beyond it: once the writer rests no complete line ends behind
\* the offset and the offset is in the file, unless the writer left half a
\* character or the old offset is inside one of the new text.
TailIsReached ==
    <>[](pc = "idle" =>
            \A f \in Files :
                files[f] # NoState /\ There(f) /\ ~SplitEnd(f) /\ ~SplitAt(f, files[f].offset)
                => files[f].offset \in LastEnd(f)..Length(f))

\* What a collector without memory would come to.
FullRead(f) == Count(Fresh(disk[f].meta /\ f \in CronFiles), disk[f].lines)

\* "A full re-read and a resumed read agree" (session.rs:26-28): once the
\* writer rests, not in the middle of a character, a collector has the state a
\* restarted one would come to, of a transcript that was never rewritten.
RestartAgrees ==
    <>[](pc = "idle" =>
            \A f \in Files \ rewritten :
                files[f] # NoState /\ There(f) /\ ~SplitEnd(f) => files[f] = FullRead(f))

LiveChats == {f \in Files : There(f) /\ ~(disk[f].meta /\ f \in CronFiles)}
\* Rewritten, or left with half a character: the counts may be off.
Disturbed == rewritten # {} \/ \E f \in Files : SplitEnd(f)

LiveCrons == {f \in Files : There(f)} \ LiveChats

\* The three gauges that are always emitted follow the disk: with the writer
\* at rest they come to the true numbers for good, cron runs apart from
\* sessions, vanished transcripts not counted (FR-S3, FR-S4).
TotalsCatchUp ==
    <>[](\/ pc = "retired" \/ ~dir \/ Disturbed
         \/ /\ series.calls = SumOver(LiveChats, LAMBDA f : FullRead(f).calls)
            /\ series.sessions = Cardinality(LiveChats)
            /\ series.cron = Cardinality(LiveCrons))

\* "A retired workspace goes absent, not silent" (session.rs:274).
RetiredGoesAbsent ==
    pc = "retired" =>
        /\ {series.calls, series.sessions, series.cron} \subseteq {0, Absent}
        /\ \A r \in Roles : series.messages[r] \in {0, Absent}

=============================================================================
