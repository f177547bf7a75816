----------------------------- MODULE Migration -----------------------------
(***************************************************************************)
(* The repair of a state.json that an older scanner wrote: it took the     *)
(* turn in the name <thread>_<turn>.jsonl for the thread, so that one task *)
(* has an entry for every turn and events under several ids.  Entries and  *)
(* events are merged in the order of Go's maps, which is any order.        *)
(***************************************************************************)
EXTENDS Naturals, FiniteSets

CONSTANTS
    Threads, Turns,
    Owner,      \* the thread of each turn, as the file names say
    Events,     \* what is left of an event's key without its thread
    MaxAt       \* bound of the time stamps

ASSUME MigrationAssumption ==
    /\ Threads \cap Turns = {} /\ Owner \in [Turns -> Threads]
    /\ IsFiniteSet(Threads) /\ IsFiniteSet(Turns) /\ MaxAt \in Nat

Ids == Threads \cup Turns

\* migratedThreadStateRank: 3 for a dispatched retry, 2 for a queued one, 1 for a
\* stopped one; the time is that of its last step.  named: the record of the retry
\* has the path of its file.
Entry == [rank : 0..3, at : 0..MaxAt, named : BOOLEAN]

VARIABLES
    saved,      \* the entries that were loaded
    loaded,     \* the events that were loaded, with the time they were handled
    left,       \* ids that are not merged yet
    merged,     \* the normalized entries
    processed   \* ProcessedEvents

vars == <<saved, loaded, left, merged, processed>>

Init ==
    /\ \E ids \in SUBSET Ids : saved \in [ids -> Entry]
    /\ \A id \in DOMAIN saved : saved[id].rank = 0 => ~saved[id].named
    /\ \E keys \in SUBSET (Ids \X Events) : loaded \in [keys -> 0..MaxAt]
    /\ left = DOMAIN saved /\ merged = <<>> /\ processed = loaded

\* Entries under the id of a turn, whose path tells the thread.
Aliases == {id \in DOMAIN saved \cap Turns : saved[id].named}
target(id) == IF id \in Aliases THEN Owner[id] ELSE id

\* Wrong on purpose: the newest entry wins, whatever it holds.
mergeNewest(a, b) == IF b.at > a.at THEN b ELSE a

\* mergeMigratedThreadState: a live retry wins over a stopped one, then the newer.
mergeThreadState(a, b) ==
    IF b.rank > a.rank \/ (b.rank = a.rank /\ b.at > a.at) THEN b ELSE a

MergeEntry(id) ==
    /\ left' = left \ {id}
    /\ merged' = [t \in DOMAIN merged \cup {target(id)} |->
                    IF t # target(id) THEN merged[t]
                    ELSE IF t \in DOMAIN merged THEN mergeThreadState(merged[t], saved[id])
                    ELSE saved[id]]
    /\ UNCHANGED <<saved, loaded, processed>>

\* Wrong on purpose: the event of the turn replaces the one of the thread.
laterOfLast(events, old, new) == events[old]

laterOf(events, old, new) ==
    IF new \in DOMAIN events /\ events[new] >= events[old] THEN events[new] ELSE events[old]

MoveEvent(id, event) ==
    LET old == <<id, event>>
        new == <<target(id), event>>
    IN  /\ old \in DOMAIN processed
        /\ processed' = [k \in (DOMAIN processed \cup {new}) \ {old} |->
                           IF k = new THEN laterOf(processed, old, new) ELSE processed[k]]
        /\ UNCHANGED <<saved, loaded, left, merged>>

Next ==
    \/ \E id \in left : MergeEntry(id)
    \/ left = {} /\ \E id \in Aliases, event \in Events : MoveEvent(id, event)

Spec == Init /\ [][Next]_vars

----------------------------------------------------------------------------
(* Properties.                                                             *)

Done == left = {} /\ \A id \in Aliases, event \in Events : <<id, event>> \notin DOMAIN processed

Stronger(a, b) == a.rank > b.rank \/ (a.rank = b.rank /\ a.at > b.at)

\* In whatever order the map is walked: a task whose file is known ends with one
\* entry, one that it had, and no live retry gives way to a stopped or an older one
\* (state_migration.go:86).
StrongestEntryKept ==
    Done => /\ DOMAIN merged = {target(id) : id \in DOMAIN saved}
            /\ \A t \in DOMAIN merged :
                  \E id \in DOMAIN saved :
                      /\ target(id) = t /\ merged[t] = saved[id]
                      /\ \A other \in DOMAIN saved :
                            target(other) = t => ~Stronger(saved[other], saved[id])

\* What was handled under a turn's id is known to be handled under the thread's,
\* and for as long as the later of both would be remembered (state_migration.go:56).
EventsStayHandled ==
    Done => \A k \in DOMAIN loaded :
                LET key == <<target(k[1]), k[2]>>
                IN  key \in DOMAIN processed /\ processed[key] >= loaded[k]
=============================================================================
