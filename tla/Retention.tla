----------------------------- MODULE Retention -----------------------------
(***************************************************************************)
(* What state.json remembers over months: cursors into the rollout files,  *)
(* keys of the events that were handled, and the states of threads.  Each  *)
(* of the three is bounded in age and in number; a tick ends with the      *)
(* pruning.  The unit of time is of the order of days, so that a tick is   *)
(* one step.                                                               *)
(*                                                                         *)
(* Every file belongs to a thread of its own, which has the file's name.   *)
(* Files are numbered in the order of their names.                         *)
(***************************************************************************)
EXTENDS Integers, FiniteSets, Sequences

CONSTANTS
    Files,                     \* rollout files, and their threads
    Removable,                 \* files in a Codex home that may be out of reach
    MaxFileCursorEntries, MaxProcessedEventEntries, MaxThreadEntries,
    CursorAge, EventAge, ThreadAge,   \* 45, 14 and 30 days
    DisplayWindow,             \* stoppedRetryDisplayWindow (1 h)
    MaxNow, MaxRecords, MaxLines   \* bounds of the clock, of the lines of a file and
                                   \* of those of all files

ASSUME RetentionAssumption ==
    /\ Files \subseteq Nat /\ IsFiniteSet(Files) /\ Removable \subseteq Files
    /\ MaxFileCursorEntries \in Nat /\ MaxProcessedEventEntries \in Nat
    /\ MaxThreadEntries \in Nat
    /\ CursorAge \in Nat /\ EventAge \in Nat /\ ThreadAge \in Nat
    /\ DisplayWindow \in 0..ThreadAge /\ MaxNow \in Nat
    /\ MaxRecords \in Nat /\ MaxLines \in Nat

VARIABLES
    now,
    content,   \* the lines of each file; a file without lines does not exist yet
    hidden,    \* files that are out of reach
    state,     \* RuntimeState
    handled,   \* how often each line was handled
    history,   \* lines that were there when the plugin was installed
    scannedAt, \* when a scan last found each file, 0 if never
    estranged  \* files that were out of reach for longer than CursorAge

vars == <<now, content, hidden, state, handled, history, scannedAt, estranged>>

RecordKinds == {"failed", "succeeded", "goal"}
Line == Files \X (1..MaxRecords)

\* A thread is idle, has a live retry (Pending or Awaiting), or was stopped.
Phases == {"idle", "live", "stopped"}
ThreadState == [phase : Phases, failedAt : Nat, goalAt : Nat, stoppedAt : Nat,
                historical : BOOLEAN]
NewThread == [phase |-> "idle", failedAt |-> 0, goalAt |-> 0, stoppedAt |-> 0,
              historical |-> FALSE]

Init ==
    /\ now = 1
    /\ content = [f \in Files |-> <<>>] /\ hidden = {}
    /\ state = [initialized |-> FALSE, cursors |-> <<>>, processed |-> <<>>,
                threads |-> <<>>]
    /\ handled = [l \in Line |-> 0] /\ history = {}
    /\ scannedAt = [f \in Files |-> 0] /\ estranged = {}

----------------------------------------------------------------------------
(* The world around the worker.                                            *)

CodexWrites(f, kind) ==
    /\ f \notin hidden /\ Len(content[f]) < MaxRecords
    /\ Cardinality({l \in Line : l[2] <= Len(content[l[1]])}) < MaxLines
    /\ content' = [content EXCEPT ![f] = Append(@, [kind |-> kind, at |-> now])]
    /\ UNCHANGED <<now, hidden, state, handled, history, scannedAt, estranged>>

\* The home of an instance disappears and comes back (a removed drive).
Hide(f) ==
    /\ f \in Removable \ hidden /\ content[f] # <<>> /\ hidden' = hidden \cup {f}
    /\ UNCHANGED <<now, content, state, handled, history, scannedAt, estranged>>

Show(f) ==
    /\ f \in hidden /\ hidden' = hidden \ {f}
    /\ UNCHANGED <<now, content, state, handled, history, scannedAt, estranged>>

DayPasses ==
    /\ now < MaxNow /\ now' = now + 1
    /\ UNCHANGED <<content, hidden, state, handled, history, scannedAt, estranged>>

\* Between two ticks a retry uses up its budget or is stopped.
RetryStops(f) ==
    /\ f \in DOMAIN state.threads /\ state.threads[f].phase = "live"
    /\ \E historical \in BOOLEAN :
          /\ historical => state.threads[f].failedAt + DisplayWindow < now
          /\ state' = [state EXCEPT !.threads[f] =
                         [@ EXCEPT !.phase = "stopped", !.stoppedAt = now,
                                   !.historical = historical]]
    /\ UNCHANGED <<now, content, hidden, handled, history, scannedAt, estranged>>

----------------------------------------------------------------------------
(* The scan: what lies behind each cursor.                                 *)

Within(entries, keys) == [k \in keys |-> entries[k]]
Visible == {f \in Files \ hidden : content[f] # <<>>}

\* Wrong on purpose: the cursor of a file that did not grow is left as it is.
cursorsLeftBehind ==
    [f \in DOMAIN state.cursors \cup Visible |->
        IF f \notin Visible THEN state.cursors[f]
        ELSE IF f \in DOMAIN state.cursors /\ state.cursors[f].offset = Len(content[f])
        THEN state.cursors[f]
        ELSE [offset |-> Len(content[f]), seen |-> now]]

\* A scan puts every cursor at the end of its file and notes that it saw it.
scannedCursors ==
    [f \in DOMAIN state.cursors \cup Visible |->
        IF f \in Visible THEN [offset |-> Len(content[f]), seen |-> now]
        ELSE state.cursors[f]]

\* A file without a cursor is read from its start, except by the baseline.
readFrom(f) == IF f \in DOMAIN state.cursors THEN state.cursors[f].offset ELSE 0

\* The lines that the scan reads and handleEventLocked has not seen.
newLines ==
    IF ~state.initialized THEN {}
    ELSE {l \in Line : /\ l[1] \in Visible /\ l \notin DOMAIN state.processed
                       /\ l[2] > readFrom(l[1]) /\ l[2] <= Len(content[l[1]])}

----------------------------------------------------------------------------
(* What the lines do to their threads.                                     *)

Later(a, b) == IF a >= b THEN a ELSE b

\* A failure queues a retry unless one is live; a success ends the chain.
afterRecord(th, record) ==
    CASE record.kind = "failed" ->
             IF th.phase = "live" THEN th
             ELSE [th EXCEPT !.phase = "live", !.failedAt = record.at]
      [] record.kind = "succeeded" -> [th EXCEPT !.phase = "idle"]
      [] record.kind = "goal" -> [th EXCEPT !.goalAt = Later(@, record.at)]

\* A thread after the new lines of its file, in their order.
afterLines(f, th) ==
    LET after[i \in 0..MaxRecords] ==
            IF i = 0 THEN th
            ELSE IF <<f, i>> \in newLines THEN afterRecord(after[i - 1], content[f][i])
            ELSE after[i - 1]
    IN  after[MaxRecords]

handledThreads ==
    [f \in DOMAIN state.threads \cup {l[1] : l \in newLines} |->
        afterLines(f, IF f \in DOMAIN state.threads THEN state.threads[f] ELSE NewThread)]

----------------------------------------------------------------------------
(* prune.                                                                  *)

\* Sorted by time and then by name, a comes before b.
Before(a, b) == a[1] < b[1] \/ (a[1] = b[1] /\ a[2] < b[2])

\* The limit youngest keys, which fewer than limit others follow; place gives the
\* time and the rank of each.
youngest(place, limit) ==
    {k \in DOMAIN place :
        Cardinality({j \in DOMAIN place : Before(place[k], place[j])}) < limit}

prunedEvents(processed) ==
    LET fresh == {l \in DOMAIN processed : processed[l] + EventAge >= now}
    IN  Within(processed, youngest([l \in fresh |-> <<processed[l],
                                                           l[1] * (MaxRecords + 1) + l[2]>>],
                                   MaxProcessedEventEntries))

\* Wrong on purpose: cursors live no longer than the keys of events.
prunedCursorsEarly(cursors) ==
    Within(cursors, {f \in DOMAIN cursors : cursors[f].seen + EventAge >= now})

prunedCursors(cursors) ==
    LET fresh == {f \in DOMAIN cursors : cursors[f].seen + CursorAge >= now}
    IN  Within(cursors, youngest([f \in fresh |-> <<cursors[f].seen, f>>],
                                 MaxFileCursorEntries))

live(th) == th.phase = "live"

lastActivity(th) ==
    Later(th.failedAt, Later(th.goalAt, IF th.phase = "stopped" THEN th.stoppedAt ELSE 0))

\* The panel still shows the stop.
shown(th) == th.phase = "stopped" /\ ~th.historical /\ th.stoppedAt + DisplayWindow >= now

\* Wrong on purpose: every thread may be forgotten.
evictableAll(threads) == DOMAIN threads

evictable(threads) == {f \in DOMAIN threads : ~live(threads[f]) /\ ~shown(threads[f])}

\* Wrong on purpose: the youngest are forgotten.
trimYoungestThreads(threads) ==
    LET spare == evictable(threads)
        kept == youngest([f \in spare |-> <<0 - lastActivity(threads[f]), f>>],
                         MaxThreadEntries - Cardinality(DOMAIN threads \ spare))
    IN  IF Cardinality(DOMAIN threads \ spare) >= MaxThreadEntries THEN threads
        ELSE Within(threads, kept \cup (DOMAIN threads \ spare))

\* trimInactiveThreads: what is live or shown may fill the budget alone; then
\* nothing is removed.
trimInactiveThreads(threads) ==
    LET spare == evictable(threads)
        kept == youngest([f \in spare |-> <<lastActivity(threads[f]), f>>],
                         MaxThreadEntries - Cardinality(DOMAIN threads \ spare))
    IN  IF Cardinality(DOMAIN threads \ spare) >= MaxThreadEntries THEN threads
        ELSE Within(threads, kept \cup (DOMAIN threads \ spare))

expired(th) ==
    ~live(th) /\ lastActivity(th) # 0 /\ lastActivity(th) + ThreadAge < now

prunedThreads(threads) ==
    trimInactiveThreads(Within(threads, {f \in DOMAIN threads : ~expired(threads[f])}))

Tick ==
    /\ state' = [initialized |-> TRUE,
                 cursors |-> prunedCursors(scannedCursors),
                 processed |-> prunedEvents([l \in DOMAIN state.processed \cup newLines |->
                                  IF l \in newLines THEN now ELSE state.processed[l]]),
                 threads |-> prunedThreads(handledThreads)]
    /\ handled' = [l \in Line |-> IF l \in newLines /\ handled[l] < 2
                                  THEN handled[l] + 1 ELSE handled[l]]
    /\ history' = IF state.initialized THEN history
                  ELSE {l \in Line : l[1] \in Visible /\ l[2] <= Len(content[l[1]])}
    /\ scannedAt' = [f \in Files |-> IF f \in Visible THEN now ELSE scannedAt[f]]
    /\ estranged' = estranged \cup {f \in Files \ Visible : /\ scannedAt[f] # 0
                                                      /\ scannedAt[f] + CursorAge < now}
    /\ UNCHANGED <<now, content, hidden>>

Next ==
    \/ \E f \in Files : \/ \E kind \in RecordKinds : CodexWrites(f, kind)
                        \/ Hide(f) \/ Show(f) \/ RetryStops(f)
    \/ DayPasses
    \/ Tick

Spec == Init /\ [][Next]_vars

----------------------------------------------------------------------------
(* Properties.                                                             *)

\* A line is handled once: the cursor of a file that merely rests, or is out of
\* reach for a while, outlives all prunings, whatever becomes of the event's key
\* (state.go:113, scanner.go:83).
HandledOnce == \A l \in Line : l[1] \in estranged \/ handled[l] <= 1

\* What was there when the plugin was installed is never handled
\* (docs/architecture.md:427, scanner.go:73).
BaselineKept == \A l \in history : l[1] \in estranged \/ handled[l] = 0

\* The last line of a chain was a success that this step has handled.
Succeeded(f) ==
    \E i \in 1..Len(content[f]) :
        content[f][i].kind = "succeeded" /\ handled'[<<f, i>>] # handled[<<f, i>>]

\* However many threads there are and however old they are, a live retry and a
\* stop that the panel still shows are not forgotten (state.go:207).
RetryNotForgotten ==
    [][\A f \in DOMAIN state.threads \ estranged :
          (live(state.threads[f]) \/ shown(state.threads[f])) /\ ~Succeeded(f)
              => f \in DOMAIN state'.threads /\ state'.threads[f].phase # "idle"]_vars

\* A thread is forgotten for its age, or because the memory is full of threads
\* that are live, shown, or were active no earlier (state.go:238).
OldestForgottenFirst ==
    [][\A f \in DOMAIN state.threads \ DOMAIN state'.threads :
          LET at == lastActivity(handledThreads[f])
          IN  \/ at # 0 /\ at + ThreadAge < now
              \/ /\ Cardinality(DOMAIN state'.threads) >= MaxThreadEntries
                 /\ \A g \in evictable(state'.threads) :
                       at <= lastActivity(state'.threads[g])]_vars
=============================================================================
