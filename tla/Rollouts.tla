------------------------------ MODULE Rollouts ------------------------------
(***************************************************************************)
(* The scanner and the rollout files of one thread.  Codex appends records *)
(* to the thread's file, archives it and, under another Codex home, may    *)
(* leave a copy; a tick walks the directories file by file, reads what was *)
(* appended behind each cursor, and saves cursors and effects in one file, *)
(* state.json.                                                             *)
(*                                                                         *)
(* Records are numbered in the order Codex writes them, which is also      *)
(* their timestamp.  A record takes two units of space, so that an odd     *)
(* position lies within a line that is still being written.                *)
(***************************************************************************)
EXTENDS Integers, FiniteSets, SequencesExt

CONSTANTS
    Paths,        \* rollout files of the thread
    Home,         \* the Codex home each path belongs to
    Main,         \* where Codex creates the thread's file
    TurnFiles,    \* files that Codex creates beside it, <thread>_<turn>.jsonl
    Walk,         \* the order in which a scan visits the paths
    Habits,       \* of Codex: "archive", "copy", "shrink"
    MaxRecords,   \* bound of the records written
    MirrorSlack   \* records this close to the start are not old (3 s)

ASSUME RolloutsAssumption ==
    /\ Home \in [Paths -> STRING]
    /\ TurnFiles \subseteq {p \in Paths \ {Main} : Home[p] = Home[Main]}
    /\ Main \in Paths /\ Walk \in Seq(Paths) /\ ToSet(Walk) = Paths
    /\ Habits \subseteq {"archive", "copy", "shrink"}
    /\ MaxRecords \in Nat /\ MirrorSlack \in Nat

VARIABLES
    content,    \* the files that exist: their lines and the line begun but not ended
    written,    \* the number of the last record begun
    memory,     \* RuntimeState: initialized, cursors of Files, records applied
    disk,       \* state.json
    scanning,   \* paths of the walk that the running tick has visited
    batch,      \* what the running scan has read
    startedAt,  \* the last record begun before the worker started
    exempt,     \* records that the baseline declared history
    copied,     \* a copy of the file was made
    shrunk      \* a file lost lines

rolloutVars == <<content, written, memory, disk, scanning, batch, startedAt, exempt,
                 copied, shrunk>>
codexFiles == <<content, written, copied, shrunk>>
scan == <<memory, disk, scanning, batch, startedAt, exempt>>

Existing == DOMAIN content
Size(file) == 2 * Len(file.lines) + (IF file.partial = 0 THEN 0 ELSE 1)
NewState == [initialized |-> FALSE, offset |-> <<>>, applied |-> <<>>]

RolloutsInit ==
    /\ content = <<>> /\ written = 0
    /\ memory = NewState /\ disk = NewState
    /\ scanning = 0 /\ batch = {} /\ startedAt = written
    /\ exempt = {} /\ copied = FALSE /\ shrunk = FALSE

----------------------------------------------------------------------------
(* Codex.                                                                  *)

Put(p, file) == [q \in Existing \cup {p} |-> IF q = p THEN file ELSE content[q]]
Without(f, p) == [q \in DOMAIN f \ {p} |-> f[q]]
Original == {p \in Existing : Home[p] = Home[Main]}

\* A thread has one file in its home, and where files are named after the turn that
\* created them (scanner.go:15), a later turn may create another.  (Not in the
\* middle of the very first walk.)
CreateFile(p) ==
    /\ p \notin Existing
    /\ IF Original = {} THEN p = Main ELSE p \in TurnFiles /\ memory.initialized
    /\ content' = Put(p, [lines |-> <<>>, partial |-> 0])
    /\ UNCHANGED <<written, copied, shrunk, scan>>

BeginRecord(p) ==
    /\ p \in Original /\ \A q \in Original : content[q].partial = 0
    /\ written < MaxRecords
    /\ written' = written + 1
    /\ content' = [content EXCEPT ![p].partial = written + 1]
    /\ UNCHANGED <<copied, shrunk, scan>>

EndRecord(p) ==
    /\ p \in Existing /\ content[p].partial # 0
    /\ content' = [content EXCEPT ![p] =
                      [lines |-> Append(@.lines, @.partial), partial |-> 0]]
    /\ UNCHANGED <<written, copied, shrunk, scan>>

\* Archiving, or bringing back, a file moves it and keeps its name.  (Not in the
\* middle of the very first walk.)
Rename(p, q) ==
    /\ "archive" \in Habits
    /\ p \in Original /\ q \notin Existing /\ Home[q] = Home[p]
    /\ p \notin TurnFiles /\ q \notin TurnFiles
    /\ content[p].partial = 0
    /\ memory.initialized \/ scanning = 0
    /\ content' = Without(Put(q, content[p]), p)
    /\ UNCHANGED <<written, copied, shrunk, scan>>

\* Another instance starts with a copy of the sessions.
Copy(p, q) ==
    /\ "copy" \in Habits /\ ~copied /\ ~shrunk
    /\ p \in Original /\ q \notin Existing /\ Home[q] # Home[p]
    /\ content[p].lines # <<>>
    /\ content' = Put(q, [content[p] EXCEPT !.partial = 0])
    /\ copied' = TRUE
    /\ UNCHANGED <<written, shrunk, scan>>

\* A rewritten file loses its last line.
Shrink(p) ==
    /\ "shrink" \in Habits /\ ~copied /\ ~shrunk
    /\ p \in Original /\ content[p].lines # <<>> /\ content[p].partial = 0
    /\ content' = [content EXCEPT ![p].lines = Front(@)]
    /\ shrunk' = TRUE
    /\ UNCHANGED <<written, copied, scan>>

CodexWrites ==
    \/ \E p \in Paths : CreateFile(p) \/ BeginRecord(p) \/ Shrink(p)
    \/ \E p, q \in Paths : Rename(p, q) \/ Copy(p, q)

----------------------------------------------------------------------------
(* scanSessions.                                                           *)

Known == DOMAIN memory.offset

\* migrateFileCursor: the cursors of other paths of the thread in this home.
MigrationSources(p) == {q \in Known \ {p} : Home[q] = Home[p]}

\* The scanner's files after the cursor of p was set, and another one retired.
Cursors(p, offset, retired) ==
    [q \in (Known \ retired) \cup {p} |-> IF q = p THEN offset ELSE memory.offset[q]]

\* readAppendedEvents: the complete lines that begin behind the cursor.  What is
\* left of a line that the cursor cuts does not parse.
LinesBehind(file, offset) ==
    {file.lines[i] : i \in {k \in 1..Len(file.lines) : 2 * (k - 1) >= offset}}

\* Behind the last complete line.
EndOfLines(file) == 2 * Len(file.lines)

\* A file behind its cursor, at its cursor, or beyond.
ReadFrom(p, offset, retired, mirrored) ==
    LET file == content[p]
        set(to) == memory' = [memory EXCEPT !.offset = Cursors(p, to, retired)]
    IN  \/ Size(file) <= offset /\ set(Size(file)) /\ UNCHANGED batch
        \/ /\ Size(file) > offset
           /\ set(EndOfLines(file))
           /\ batch' = batch \cup {[id |-> id, path |-> p, mirrored |-> mirrored] :
                                    id \in LinesBehind(file, offset)}

\* Wrong on purpose: the cursor of a renamed file is not looked for.
ScanUnknownFromStart(p) == ReadFrom(p, 0, {}, Known # {})

\* A path without a cursor: the one of a renamed file, or the whole file, which
\* is a mirror if the thread is known elsewhere.
ScanUnknown(p) ==
    \/ \E q \in MigrationSources(p) : ReadFrom(p, memory.offset[q], {q}, FALSE)
    \/ MigrationSources(p) = {} /\ ReadFrom(p, 0, {}, Known # {})

Baseline(p) ==
    LET file == content[p]
    IN  /\ memory' = [memory EXCEPT !.offset = Cursors(p, Size(file), {})]
        /\ exempt' = exempt \cup ToSet(file.lines) \cup ({file.partial} \ {0})
        /\ UNCHANGED batch

ScanPath ==
    /\ scanning < Len(Walk)
    /\ LET p == Walk[scanning + 1]
       IN  \/ p \notin Existing /\ UNCHANGED <<memory, batch, exempt>>
           \/ p \in Existing /\ ~memory.initialized /\ Baseline(p)
           \/ /\ p \in Existing /\ memory.initialized
              /\ IF p \in Known THEN ReadFrom(p, memory.offset[p], {}, FALSE) ELSE ScanUnknown(p)
              /\ UNCHANGED exempt
    /\ scanning' = scanning + 1
    /\ UNCHANGED <<codexFiles, disk, startedAt>>

----------------------------------------------------------------------------
(* The rest of the tick.                                                   *)

\* Wrong on purpose: copies are applied like originals.
WorthAlways(ev) == TRUE

\* Old history of a thread that another watched store owns is ignored.
Worth(ev) == ~(ev.mirrored /\ ev.id + MirrorSlack <= startedAt)

\* The events by timestamp.
InOrder(events) ==
    CHOOSE s \in SetToSeqs(events) : \A i, j \in DOMAIN s : i < j => s[i].id <= s[j].id

\* Wrong on purpose: the cursors are saved without what they stand for.
PersistCursorsAlone(state, saved) ==
    disk' = [state EXCEPT !.applied = disk.applied]

\* persistStateLocked: cursors and effects in one write; after a failed write
\* the memory stays authoritative.
Persist(state, saved) == disk' = IF saved THEN state ELSE disk

\* handleEventLocked for what the walk has read; then the state is saved.
TickEnds(saved) ==
    /\ scanning = Len(Walk)
    /\ LET events == InOrder({ev \in batch : Worth(ev)})
       IN  memory' = [memory EXCEPT
                         !.initialized = TRUE,
                         !.applied = @ \o [i \in DOMAIN events |-> events[i].id]]
    /\ Persist(memory', saved)
    /\ batch' = {}
    /\ scanning' = 0
    /\ UNCHANGED <<codexFiles, startedAt, exempt>>

\* The process ends; its memory goes with it, and the next one loads state.json.
ForgetMemory ==
    /\ memory' = disk
    /\ scanning' = 0 /\ batch' = {}
    /\ exempt' = IF disk.initialized THEN exempt ELSE {}
    /\ UNCHANGED <<codexFiles, disk, startedAt>>

LoadState ==
    /\ startedAt' = written
    /\ UNCHANGED <<codexFiles, memory, disk, scanning, batch, exempt>>
=============================================================================
