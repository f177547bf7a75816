--------------------------- MODULE RetentionProofs ---------------------------
(***************************************************************************)
(* As long as there are no more rollout files than cursors that may be     *)
(* kept, no line is handled twice and the baseline is kept, whatever else  *)
(* is pruned.  (With more files both fail: see MCRetentionTrim.cfg.)       *)
(* Nor is a retry forgotten that is live or shown; and whichever thread is *)
(* forgotten for want of room was active no later than those that stay.    *)
(***************************************************************************)
EXTENDS Retention, Lemmas

Cursor == [offset : Nat, seen : Nat]

Types ==
    /\ now \in Nat /\ content \in [Files -> Seq([kind : RecordKinds, at : Nat])]
    /\ scannedAt \in [Files -> Nat] /\ handled \in [Line -> Nat]
    /\ state = [initialized |-> state.initialized, cursors |-> state.cursors,
                processed |-> state.processed, threads |-> state.threads]
    /\ state.initialized \in BOOLEAN
    /\ DOMAIN state.cursors \subseteq Files
    /\ \A f \in DOMAIN state.cursors : state.cursors[f] \in Cursor

\* Before the baseline nothing was handled, and there is no history yet.
Fresh == ~state.initialized => history = {} /\ \A l \in Line : handled[l] = 0

\* A file that was never out of reach for too long: its cursor is as old as the last
\* scan that found it, and stands behind all lines that are history or were handled.
FileOK(f) ==
    IF f \in DOMAIN state.cursors
    THEN /\ state.cursors[f].seen = scannedAt[f] /\ scannedAt[f] # 0
         /\ state.cursors[f].offset <= Len(content[f])
         /\ \A i \in 1..MaxRecords :
               /\ <<f, i>> \in history \/ handled[<<f, i>>] # 0 => i <= state.cursors[f].offset
               /\ <<f, i>> \in history => handled[<<f, i>>] = 0
               /\ handled[<<f, i>>] <= 1
    ELSE /\ scannedAt[f] = 0
         /\ \A i \in 1..MaxRecords : <<f, i>> \notin history /\ handled[<<f, i>>] = 0

\* The inductive invariant.
Inv == Types /\ now # 0 /\ history \subseteq Line /\ Fresh
       /\ \A f \in Files \ estranged : FileOK(f)

\* Nothing is trimmed from what fits.
LEMMA YoungestOfFew ==
    ASSUME NEW place, NEW S, IsFiniteSet(S), DOMAIN place \subseteq S,
           NEW limit \in Nat, Cardinality(S) <= limit,
           \A k \in DOMAIN place : place[k] \in Int \X Int
    PROVE  youngest(place, limit) = DOMAIN place
<1> SUFFICES ASSUME NEW k \in DOMAIN place
             PROVE  Cardinality({j \in DOMAIN place : Before(place[k], place[j])}) < limit
  BY DEF youngest
<1> DEFINE after == {j \in DOMAIN place : Before(place[k], place[j])}
<1>1. k \in S /\ after \subseteq S \ {k} BY DEF Before
<1>2. IsFiniteSet(S \ {k}) /\ Cardinality(S \ {k}) = Cardinality(S) - 1
  BY <1>1, FS_RemoveElement
<1>3. IsFiniteSet(after) /\ Cardinality(after) <= Cardinality(S \ {k}) BY <1>1, <1>2, FS_Subset
<1>4. Cardinality(S) \in Nat /\ Cardinality(after) \in Nat BY <1>3, FS_CardinalityType
<1> QED BY <1>2, <1>3, <1>4

LEMMA InitOK == Init => Inv
<1> SUFFICES ASSUME Init PROVE Inv OBVIOUS
<1>1. Types /\ Fresh BY DEF Init, Types, Fresh
<1>2. \A f \in Files, i \in 1..MaxRecords : <<f, i>> \in Line BY DEF Line
<1>3. \A f \in Files : FileOK(f) BY <1>2 DEF Init, FileOK
<1> QED BY <1>1, <1>3 DEF Init, Inv

\* Outside a tick only the lines of files grow.
LEMMA WorldKeeps ==
    ASSUME Inv,
           \/ \E f \in Files : \/ \E kind \in RecordKinds : CodexWrites(f, kind)
                               \/ Hide(f) \/ Show(f) \/ RetryStops(f)
           \/ DayPasses \/ UNCHANGED vars
    PROVE  Inv'
<1>1. /\ state'.cursors = state.cursors /\ state'.initialized = state.initialized
      /\ state' = [initialized |-> state'.initialized, cursors |-> state'.cursors,
                   processed |-> state'.processed, threads |-> state'.threads]
      /\ UNCHANGED <<handled, history, scannedAt, estranged>>
  <2>1. CASE \E f \in Files : RetryStops(f) BY <2>1 DEF RetryStops, Inv, Types
  <2>2. CASE UNCHANGED <<state, handled, history, scannedAt, estranged>>
    BY <2>2 DEF Inv, Types
  <2> QED BY <2>1, <2>2 DEF CodexWrites, Hide, Show, DayPasses, vars
<1>2. now' \in Nat /\ now' # 0
  <2>1. now' \in {now, now + 1} BY DEF CodexWrites, Hide, Show, RetryStops, DayPasses, vars
  <2> QED BY <2>1 DEF Inv, Types
<1> DEFINE R == [kind : RecordKinds, at : Nat]
<1>3. /\ content' \in [Files -> Seq(R)]
      /\ \A f \in Files : Len(content[f]) \in Nat /\ Len(content'[f]) >= Len(content[f])
                           /\ Len(content'[f]) \in Nat
  <2>0. content \in [Files -> Seq(R)] BY DEF Inv, Types
  <2>1. CASE UNCHANGED content
    <3> HIDE DEF R
    <3> QED BY <2>0, <2>1
  <2>2. CASE \E f \in Files, kind \in RecordKinds : CodexWrites(f, kind)
    <3> PICK f \in Files, kind \in RecordKinds : CodexWrites(f, kind) BY <2>2
    <3> DEFINE r == [kind |-> kind, at |-> now]
    <3>1. content' = [content EXCEPT ![f] = Append(content[f], r)] BY DEF CodexWrites
    <3>2. r \in R BY DEF Inv, Types
    <3> HIDE DEF r, R
    <3>3. content[f] \in Seq(R) BY <2>0
    <3>4. Append(content[f], r) \in Seq(R) /\ Len(Append(content[f], r)) = Len(content[f]) + 1
      BY <3>2, <3>3
    <3>5. content' \in [Files -> Seq(R)] BY <2>0, <3>1, <3>4
    <3>6. \A g \in Files : Len(content'[g]) \in {Len(content[g]), Len(content[g]) + 1}
      BY <2>0, <3>1, <3>4
    <3>7. \A g \in Files : Len(content[g]) \in Nat BY <2>0
    <3>8. \A g \in Files : Len(content'[g]) >= Len(content[g]) /\ Len(content'[g]) \in Nat
      BY <3>6, <3>7
    <3> QED BY <3>5, <3>7, <3>8
  <2> QED BY <2>1, <2>2 DEF Hide, Show, RetryStops, DayPasses, vars
<1>4. Types' BY <1>1, <1>2, <1>3 DEF Inv, Types
<1>5. Fresh' BY <1>1 DEF Inv, Fresh
<1>6. \A f \in (Files \ estranged)' : FileOK(f)'
  <2> SUFFICES ASSUME NEW f \in Files \ estranged PROVE FileOK(f)' BY <1>1
  <2>1. FileOK(f) BY DEF Inv
  <2>2. CASE f \in DOMAIN state.cursors
    <3>1. state.cursors[f].offset \in Nat BY <2>2 DEF Inv, Types, Cursor
    <3>2. state'.cursors[f].offset <= Len(content'[f]) BY <1>1, <1>3, <2>1, <2>2, <3>1 DEF FileOK
    <3> QED BY <1>1, <2>1, <2>2, <3>2 DEF FileOK
  <2>3. CASE f \notin DOMAIN state.cursors BY <1>1, <2>1, <2>3 DEF FileOK
  <2> QED BY <2>2, <2>3
<1> QED BY <1>1, <1>2, <1>4, <1>5, <1>6 DEF Inv

\* The cursors that a tick keeps: all those it saw not too long ago.
LEMMA CursorsKept ==
    ASSUME Inv, Cardinality(Files) <= MaxFileCursorEntries,
           NEW cursors, DOMAIN cursors \subseteq Files,
           \A f \in DOMAIN cursors : cursors[f] \in Cursor
    PROVE  prunedCursors(cursors) =
             [f \in {g \in DOMAIN cursors : cursors[g].seen + CursorAge >= now} |-> cursors[f]]
<1> DEFINE fresh == {f \in DOMAIN cursors : cursors[f].seen + CursorAge >= now}
           place == [f \in fresh |-> <<cursors[f].seen, f>>]
<1>1. DOMAIN place = fresh /\ fresh \subseteq Files OBVIOUS
<1>2. \A f \in fresh : f \in Nat /\ cursors[f].seen \in Nat BY RetentionAssumption DEF Cursor
<1>3. \A f \in DOMAIN place : place[f] \in Int \X Int BY <1>2
<1> HIDE DEF place
<1>4. youngest(place, MaxFileCursorEntries) = fresh
  BY <1>1, <1>3, YoungestOfFew, RetentionAssumption
<1> QED BY <1>4 DEF prunedCursors, Within, place

LEMMA TickKeeps ==
    ASSUME Inv, Tick, Cardinality(Files) <= MaxFileCursorEntries
    PROVE  Inv'
<1> DEFINE kept == {g \in DOMAIN scannedCursors : scannedCursors[g].seen + CursorAge >= now}
<1>1. /\ DOMAIN scannedCursors = DOMAIN state.cursors \cup Visible
      /\ \A f \in Visible : scannedCursors[f] = [offset |-> Len(content[f]), seen |-> now]
      /\ \A f \in DOMAIN state.cursors \ Visible : scannedCursors[f] = state.cursors[f]
  BY DEF scannedCursors
<1>2. Visible \subseteq Files /\ \A f \in Files : Len(content[f]) \in Nat
  <2> DEFINE R == [kind : RecordKinds, at : Nat]
  <2>1. content \in [Files -> Seq(R)] BY DEF Inv, Types
  <2> HIDE DEF R
  <2> QED BY <2>1 DEF Visible
<1>3. /\ DOMAIN scannedCursors \subseteq Files
      /\ \A f \in DOMAIN scannedCursors : scannedCursors[f] \in Cursor
  BY <1>1, <1>2 DEF Inv, Types, Cursor
<1>4. prunedCursors(scannedCursors) = [f \in kept |-> scannedCursors[f]]
  BY <1>3, CursorsKept
<1>5. /\ state'.cursors = [f \in kept |-> scannedCursors[f]]
      /\ state'.initialized = TRUE
      /\ state' = [initialized |-> state'.initialized, cursors |-> state'.cursors,
                   processed |-> state'.processed, threads |-> state'.threads]
  BY <1>4 DEF Tick
<1> HIDE DEF kept
<1>6. UNCHANGED <<now, content, hidden>> BY DEF Tick
<1>7. scannedAt' = [f \in Files |-> IF f \in Visible THEN now ELSE scannedAt[f]] BY DEF Tick
<1>8. handled' = [l \in Line |-> IF l \in newLines /\ handled[l] < 2
                                 THEN handled[l] + 1 ELSE handled[l]]
  BY DEF Tick
<1>9. Types'
  <2>1. kept \subseteq Files /\ \A f \in kept : scannedCursors[f] \in Cursor BY <1>3 DEF kept
  <2>2. scannedAt' \in [Files -> Nat] BY <1>7 DEF Inv, Types
  <2>3. handled' \in [Line -> Nat] BY <1>8 DEF Inv, Types
  <2>4. now' \in Nat /\ content' \in [Files -> Seq([kind : RecordKinds, at : Nat])]
    BY <1>6 DEF Inv, Types
  <2> QED BY <1>5, <2>1, <2>2, <2>3, <2>4 DEF Types
<1>10. /\ state.initialized => history' = history
       /\ ~state.initialized => newLines = {}
                 /\ history' = {l \in Line : l[1] \in Visible /\ l[2] <= Len(content[l[1]])}
  BY DEF Tick, newLines
<1>11. ASSUME NEW f \in Files, f \notin estranged' PROVE FileOK(f)'
  <2>1. FileOK(f) BY <1>11 DEF Inv, Tick
  <2>2. \A i \in 1..MaxRecords : <<f, i>> \in Line BY DEF Line
  <2>3. \A i \in 1..MaxRecords : handled[<<f, i>>] \in Nat BY <2>2 DEF Inv, Types
  <2>4. CASE f \in Visible
    <3>1. f \in kept /\ state'.cursors[f] = [offset |-> Len(content[f]), seen |-> now]
      BY <1>1, <1>5, <2>4, RetentionAssumption DEF kept, Inv, Types
    <3>2. f \in DOMAIN state'.cursors BY <1>5, <3>1
    <3>3. scannedAt'[f] = now BY <1>7, <2>4
    <3>4. CASE state.initialized
      <4>1. ASSUME NEW i \in 1..MaxRecords
            PROVE  /\ <<f, i>> \in history' \/ handled'[<<f, i>>] # 0 => i <= Len(content[f])
                   /\ <<f, i>> \in history' => handled'[<<f, i>>] = 0
                   /\ handled'[<<f, i>>] <= 1
        <5>1. <<f, i>> \in newLines => i > readFrom(f) /\ i <= Len(content[f])
          BY <3>4 DEF newLines
        <5>2. /\ <<f, i>> \in history \/ handled[<<f, i>>] # 0
                    => i <= readFrom(f) /\ i <= Len(content[f])
              /\ <<f, i>> \in history => handled[<<f, i>>] = 0
              /\ handled[<<f, i>>] <= 1
          <6>1. CASE f \in DOMAIN state.cursors
            <7>1. readFrom(f) = state.cursors[f].offset BY <6>1 DEF readFrom
            <7>2. state.cursors[f].offset \in Nat BY <6>1 DEF Inv, Types, Cursor
            <7> QED BY <1>2, <2>1, <6>1, <7>1, <7>2 DEF FileOK
          <6>2. CASE f \notin DOMAIN state.cursors BY <2>1, <6>2 DEF FileOK
          <6> QED BY <6>1, <6>2
        <5>3. readFrom(f) \in Nat BY DEF readFrom, Inv, Types, Cursor
        <5>4. <<f, i>> \in history' <=> <<f, i>> \in history BY <1>10, <3>4
        <5>5. CASE <<f, i>> \in newLines
          <6>1. handled[<<f, i>>] = 0 /\ <<f, i>> \notin history
            BY <2>3, <5>1, <5>2, <5>3, <5>5
          <6>2. handled'[<<f, i>>] = 1 BY <1>8, <2>2, <5>5, <6>1
          <6> QED BY <5>1, <5>4, <5>5, <6>1, <6>2
        <5>6. CASE <<f, i>> \notin newLines
          <6>1. handled'[<<f, i>>] = handled[<<f, i>>] BY <1>8, <2>2, <5>6
          <6> QED BY <5>2, <5>4, <6>1
        <5> QED BY <5>5, <5>6
      <4> QED BY <1>2, <1>6, <3>1, <3>2, <3>3, <4>1 DEF FileOK, Inv
    <3>5. CASE ~state.initialized
      <4>1. \A i \in 1..MaxRecords : handled'[<<f, i>>] = 0
        BY <1>8, <1>10, <2>2, <3>5 DEF Inv, Fresh
      <4>2. \A i \in 1..MaxRecords : <<f, i>> \in history' => i <= Len(content[f])
        BY <1>10, <3>5
      <4> QED BY <1>2, <1>6, <3>1, <3>2, <3>3, <4>1, <4>2 DEF FileOK, Inv
    <3> QED BY <3>4, <3>5
  <2>5. CASE f \notin Visible
    <3>1. \A i \in 1..MaxRecords : handled'[<<f, i>>] = handled[<<f, i>>]
      BY <1>8, <2>2, <2>5 DEF newLines
    <3>2. \A i \in 1..MaxRecords : <<f, i>> \in history' => <<f, i>> \in history
      BY <1>10, <2>5
    <3>3. scannedAt'[f] = scannedAt[f] /\ content'[f] = content[f] BY <1>6, <1>7, <2>5
    <3>4. scannedAt[f] = 0 \/ scannedAt[f] + CursorAge >= now
      <4>1. ~(scannedAt[f] # 0 /\ scannedAt[f] + CursorAge < now) BY <1>11, <2>5 DEF Tick
      <4>2. scannedAt[f] \in Nat /\ now \in Nat BY DEF Inv, Types
      <4> QED BY <4>1, <4>2, RetentionAssumption
    <3>5. CASE f \in DOMAIN state.cursors
      <4>1. f \in kept /\ state'.cursors[f] = state.cursors[f]
        BY <1>1, <1>5, <2>1, <2>5, <3>4, <3>5 DEF kept, FileOK
      <4>2. f \in DOMAIN state'.cursors BY <1>5, <4>1
      <4>3. \A i \in 1..MaxRecords : <<f, i>> \in history =>
                 /\ i <= state.cursors[f].offset /\ handled[<<f, i>>] = 0
        BY <2>1, <3>5 DEF FileOK
      <4> QED BY <2>1, <3>1, <3>2, <3>3, <3>5, <4>1, <4>2, <4>3 DEF FileOK
    <3>6. CASE f \notin DOMAIN state.cursors
      <4>1. f \notin DOMAIN state'.cursors BY <1>1, <1>5, <2>5, <3>6 DEF kept
      <4> QED BY <2>1, <3>1, <3>2, <3>3, <3>6, <4>1 DEF FileOK
    <3> QED BY <3>5, <3>6
  <2> QED BY <2>4, <2>5
<1>12. history' \subseteq Line BY <1>10 DEF Inv
<1> QED BY <1>5, <1>6, <1>9, <1>11, <1>12 DEF Inv, Fresh

\* The invariant of Spec, under the condition on the number of files.
LEMMA InvHolds ==
    ASSUME Cardinality(Files) <= MaxFileCursorEntries
    PROVE  Spec => []Inv
<1>1. Inv /\ [Next]_vars => Inv' BY WorldKeeps, TickKeeps DEF Next
<1> QED BY <1>1, InitOK, PTL DEF Spec

\* No line is handled twice, although keys of events are forgotten by age and by
\* number (handleEventLocked, prune).
THEOREM HandledOnceHolds ==
    ASSUME Cardinality(Files) <= MaxFileCursorEntries
    PROVE  Spec => []HandledOnce
<1>1. Inv => HandledOnce
  <2> SUFFICES ASSUME Inv, NEW f \in Files \ estranged, NEW i \in 1..MaxRecords
               PROVE  handled[<<f, i>>] <= 1
    BY DEF HandledOnce, Line
  <2> QED BY DEF Inv, FileOK
<1> QED BY <1>1, InvHolds, PTL

\* What the first tick found is never handled (scanSessionDirectory, prune).
THEOREM BaselineKeptHolds ==
    ASSUME Cardinality(Files) <= MaxFileCursorEntries
    PROVE  Spec => []BaselineKept
<1>1. Inv => BaselineKept
  <2> SUFFICES ASSUME Inv, NEW l \in history, l[1] \notin estranged PROVE handled[l] = 0
    BY DEF BaselineKept
  <2>1. PICK f \in Files, i \in 1..MaxRecords : l = <<f, i>> BY DEF Inv, Line
  <2>2. FileOK(f) BY <2>1 DEF Inv
  <2> QED BY <2>1, <2>2 DEF FileOK
<1> QED BY <1>1, InvHolds, PTL

----------------------------------------------------------------------------
(* Threads that are forgotten.                                             *)

\* The types that the handlers and the pruning of threads rely on.
ThreadsOK ==
    /\ now \in Nat /\ content \in [Files -> Seq([kind : RecordKinds, at : Nat])]
    /\ state = [initialized |-> state.initialized, cursors |-> state.cursors,
                processed |-> state.processed, threads |-> state.threads]
    /\ DOMAIN state.threads \subseteq Files
    /\ \A f \in DOMAIN state.threads : state.threads[f] \in ThreadState

\* g follows the thread from line to line.
Follows(g, f, th) ==
    /\ g[0] = th /\ \A i \in Nat : g[i] \in ThreadState
    /\ \A i \in Nat : g[i + 1] = IF <<f, i + 1>> \in newLines
                                 THEN afterRecord(g[i], content[f][i + 1]) ELSE g[i]

\* One record takes a thread to a thread.
LEMMA RecordType ==
    ASSUME NEW th \in ThreadState, NEW record \in [kind : RecordKinds, at : Nat]
    PROVE  afterRecord(th, record) \in ThreadState
BY DEF afterRecord, ThreadState, Phases, RecordKinds, Later

\* What the recursion of afterLines computes, one line at a time.
LEMMA LinesFollowed ==
    ASSUME ThreadsOK, NEW f \in Files, NEW th \in ThreadState
    PROVE  \E g : Follows(g, f, th) /\ afterLines(f, th) = g[MaxRecords]
<1> DEFINE M == MaxRecords
           step == [p \in Nat \X ThreadState |->
                      IF <<f, p[1] + 1>> \in newLines
                      THEN afterRecord(p[2], content[f][p[1] + 1]) ELSE p[2]]
           after == CHOOSE h : h = [i \in 0..M |->
                        IF i = 0 THEN th
                        ELSE IF <<f, i>> \in newLines THEN afterRecord(h[i - 1], content[f][i])
                        ELSE h[i - 1]]
<1>1. afterLines(f, th) = after[M] BY DEF afterLines
<1>2. M \in Nat BY RetentionAssumption
<1>3. ASSUME NEW i \in Nat, <<f, i>> \in newLines
      PROVE  content[f][i] \in [kind : RecordKinds, at : Nat] /\ i <= M
  <2>1. i \in 1..M /\ i <= Len(content[f]) BY <1>3 DEF newLines, Line
  <2> DEFINE R == [kind : RecordKinds, at : Nat]
  <2>2. content[f] \in Seq(R) BY DEF ThreadsOK
  <2> HIDE DEF R
  <2>3. content[f][i] \in R BY <2>1, <2>2
  <2> QED BY <1>2, <2>1, <2>3 DEF R
<1>4. ASSUME NEW i \in Nat, NEW x \in ThreadState
      PROVE  /\ step[<<i, x>>] \in ThreadState
             /\ step[<<i, x>>] = IF <<f, i + 1>> \in newLines
                                 THEN afterRecord(x, content[f][i + 1]) ELSE x
  <2>1. step[<<i, x>>] = IF <<f, i + 1>> \in newLines
                         THEN afterRecord(x, content[f][i + 1]) ELSE x
    OBVIOUS
  <2> HIDE DEF step
  <2>2. i + 1 \in Nat OBVIOUS
  <2> QED BY <1>3, <2>1, <2>2, RecordType
<1>5. step \in [Nat \X ThreadState -> ThreadState]
  <2>1. \A p \in Nat \X ThreadState : step[p] \in ThreadState
    <3> HIDE DEF step
    <3> SUFFICES ASSUME NEW p \in Nat \X ThreadState PROVE step[p] \in ThreadState OBVIOUS
    <3>1. p = <<p[1], p[2]>> /\ p[1] \in Nat /\ p[2] \in ThreadState OBVIOUS
    <3> QED BY <1>4, <3>1
  <2>2. step = [p \in Nat \X ThreadState |-> step[p]] OBVIOUS
  <2> HIDE DEF step
  <2> QED BY <2>1, <2>2
<1> HIDE DEF step
<1>6. PICK g : Iterates(g, ThreadState, th, step) BY <1>5, Recursion
<1>7. Follows(g, f, th)
  <2>1. g[0] = th /\ \A i \in Nat : g[i] \in ThreadState BY <1>6 DEF Iterates
  <2>2. \A i \in Nat : g[i + 1] = step[<<i, g[i]>>] BY <1>6 DEF Iterates
  <2>3. ASSUME NEW i \in Nat
        PROVE  g[i + 1] = IF <<f, i + 1>> \in newLines
                          THEN afterRecord(g[i], content[f][i + 1]) ELSE g[i]
    BY <1>4, <2>1, <2>2
  <2> QED BY <2>1, <2>3 DEF Follows
<1> DEFINE k == [i \in 0..M |-> g[i]]
<1>8. k = [i \in 0..M |-> IF i = 0 THEN th
                          ELSE IF <<f, i>> \in newLines THEN afterRecord(k[i - 1], content[f][i])
                          ELSE k[i - 1]]
  <2>1. ASSUME NEW i \in 0..M, i # 0
        PROVE  k[i] = IF <<f, i>> \in newLines THEN afterRecord(k[i - 1], content[f][i])
                      ELSE k[i - 1]
    <3>1. i - 1 \in Nat /\ i - 1 \in 0..M /\ (i - 1) + 1 = i BY <1>2, <2>1
    <3>2. g[(i - 1) + 1] = IF <<f, (i - 1) + 1>> \in newLines
                           THEN afterRecord(g[i - 1], content[f][(i - 1) + 1]) ELSE g[i - 1]
      BY <1>7, <3>1 DEF Follows
    <3>3. k[i] = g[i] /\ k[i - 1] = g[i - 1] BY <3>1
    <3> QED BY <3>1, <3>2, <3>3
  <2>2. k[0] = th BY <1>2, <1>7 DEF Follows
  <2>3. k = [i \in 0..M |-> k[i]] OBVIOUS
  <2> HIDE DEF k
  <2> QED BY <2>1, <2>2, <2>3
<1> HIDE DEF k
<1>9. after = [i \in 0..M |-> IF i = 0 THEN th
                  ELSE IF <<f, i>> \in newLines THEN afterRecord(after[i - 1], content[f][i])
                  ELSE after[i - 1]]
  BY <1>8
<1> HIDE DEF after
<1> DEFINE S == {i \in Nat : i <= M => after[i] = g[i]}
<1>10. 0 \in S BY <1>2, <1>7, <1>9 DEF Follows
<1>11. ASSUME NEW i \in Nat, i \in S PROVE i + 1 \in S
  <2> SUFFICES ASSUME i + 1 <= M PROVE after[i + 1] = g[i + 1] OBVIOUS
  <2>1. i + 1 \in 0..M /\ i + 1 # 0 /\ (i + 1) - 1 = i /\ i <= M BY <1>2
  <2>2. after[i + 1] = IF <<f, i + 1>> \in newLines
                       THEN afterRecord(after[i], content[f][i + 1]) ELSE after[i]
    BY <1>9, <2>1
  <2>3. after[i] = g[i] BY <1>11, <2>1
  <2> QED BY <1>7, <2>2, <2>3 DEF Follows
<1> HIDE DEF S
<1>12. Nat \subseteq S BY <1>10, <1>11, Induction
<1>13. after[M] = g[M] BY <1>2, <1>12 DEF S
<1> QED BY <1>1, <1>7, <1>13

\* The thread that a tick starts from.
threadOf(f) == IF f \in DOMAIN state.threads THEN state.threads[f] ELSE NewThread

\* The handlers take threads to threads.
LEMMA HandledType ==
    ASSUME ThreadsOK
    PROVE  /\ DOMAIN state.threads \subseteq DOMAIN handledThreads
           /\ DOMAIN handledThreads \subseteq Files
           /\ \A f \in DOMAIN handledThreads :
                 /\ handledThreads[f] \in ThreadState
                 /\ handledThreads[f] = afterLines(f, threadOf(f))
<1>1. newLines \subseteq Line /\ \A l \in Line : l[1] \in Files BY DEF newLines, Line
<1>2. /\ DOMAIN handledThreads = DOMAIN state.threads \cup {l[1] : l \in newLines}
      /\ \A f \in DOMAIN handledThreads : handledThreads[f] = afterLines(f, threadOf(f))
  BY DEF handledThreads, threadOf
<1>3. DOMAIN handledThreads \subseteq Files BY <1>1, <1>2 DEF ThreadsOK
<1>4. ASSUME NEW f \in DOMAIN handledThreads PROVE handledThreads[f] \in ThreadState
  <2>1. threadOf(f) \in ThreadState
    BY DEF threadOf, ThreadsOK, NewThread, ThreadState, Phases
  <2>2. PICK g : Follows(g, f, threadOf(f)) /\ afterLines(f, threadOf(f)) = g[MaxRecords]
    BY <1>3, <2>1, LinesFollowed
  <2> QED BY <1>2, <2>2, RetentionAssumption DEF Follows
<1> QED BY <1>2, <1>3, <1>4

\* Outside a tick no thread appears or disappears.
LEMMA WorldKeepsThreads ==
    ASSUME ThreadsOK,
           \/ \E f \in Files : \/ \E kind \in RecordKinds : CodexWrites(f, kind)
                               \/ Hide(f) \/ Show(f) \/ RetryStops(f)
           \/ DayPasses \/ UNCHANGED vars
    PROVE  /\ DOMAIN state'.threads = DOMAIN state.threads
           /\ \A f \in DOMAIN state.threads :
                 \/ state'.threads[f] = state.threads[f]
                 \/ state'.threads[f].phase = "stopped"
           /\ ThreadsOK'
<1>1. CASE \E f \in Files : RetryStops(f)
  <2>1. PICK f \in Files : RetryStops(f) BY <1>1
  <2>2. PICK historical \in BOOLEAN :
           state' = [state EXCEPT !.threads[f] =
                         [@ EXCEPT !.phase = "stopped", !.stoppedAt = now,
                                   !.historical = historical]]
    BY <2>1 DEF RetryStops
  <2> DEFINE th == [state.threads[f] EXCEPT !.phase = "stopped", !.stoppedAt = now,
                                            !.historical = historical]
  <2>3. f \in DOMAIN state.threads /\ UNCHANGED <<now, content>> BY <2>1 DEF RetryStops
  <2>4. th \in ThreadState /\ th.phase = "stopped" BY <2>3 DEF ThreadsOK, ThreadState, Phases
  <2>5. state' = [state EXCEPT !.threads = [state.threads EXCEPT ![f] = th]] BY <2>2
  <2> HIDE DEF th
  <2>6. /\ state'.threads = [state.threads EXCEPT ![f] = th]
        /\ state' = [initialized |-> state'.initialized, cursors |-> state'.cursors,
                     processed |-> state'.processed, threads |-> state'.threads]
    BY <2>5 DEF ThreadsOK
  <2> QED BY <2>3, <2>4, <2>6 DEF ThreadsOK
<1>2. CASE UNCHANGED state /\ ~\E f \in Files : RetryStops(f)
  <2>1. now' \in Nat
    <3>1. now' \in {now, now + 1} BY <1>2 DEF CodexWrites, Hide, Show, DayPasses, vars
    <3> QED BY <3>1 DEF ThreadsOK
  <2>2. content' \in [Files -> Seq([kind : RecordKinds, at : Nat])]
    <3>1. CASE UNCHANGED content BY <3>1 DEF ThreadsOK
    <3>2. CASE \E f \in Files, kind \in RecordKinds : CodexWrites(f, kind)
      <4>1. PICK f \in Files, kind \in RecordKinds : CodexWrites(f, kind) BY <3>2
      <4> DEFINE R == [kind : RecordKinds, at : Nat]
                 r == [kind |-> kind, at |-> now]
      <4>2. content' = [content EXCEPT ![f] = Append(content[f], r)] BY <4>1 DEF CodexWrites
      <4>3. r \in R BY DEF ThreadsOK
      <4>4. content \in [Files -> Seq(R)] BY DEF ThreadsOK
      <4> HIDE DEF r, R
      <4>5. Append(content[f], r) \in Seq(R) BY <4>3, <4>4
      <4>6. content' \in [Files -> Seq(R)] BY <4>2, <4>4, <4>5
      <4> QED BY <4>6 DEF R
    <3> QED BY <1>2, <3>1, <3>2 DEF Hide, Show, DayPasses, vars
  <2> QED BY <1>2, <2>1, <2>2 DEF ThreadsOK
<1> QED BY <1>1, <1>2 DEF CodexWrites, Hide, Show, DayPasses, vars

\* A thread that outlives the pruning is what the handlers made of it.
LEMMA PrunedSome ==
    ASSUME NEW ts
    PROVE  /\ DOMAIN prunedThreads(ts) \subseteq DOMAIN ts
           /\ \A f \in DOMAIN prunedThreads(ts) : prunedThreads(ts)[f] = ts[f]
<1> DEFINE young == {f \in DOMAIN ts : ~expired(ts[f])}
           left == Within(ts, young)
           spare == evictable(left)
           kept == youngest([f \in spare |-> <<lastActivity(left[f]), f>>],
                         MaxThreadEntries - Cardinality(DOMAIN left \ spare))
<1>1. DOMAIN left = young /\ \A f \in young : left[f] = ts[f] BY DEF Within
<1>2. prunedThreads(ts) = IF Cardinality(DOMAIN left \ spare) >= MaxThreadEntries THEN left
                          ELSE Within(left, kept \cup (DOMAIN left \ spare))
  BY DEF prunedThreads, trimInactiveThreads
<1>3. kept \subseteq spare /\ spare \subseteq DOMAIN left BY DEF youngest, evictable
<1> HIDE DEF left, spare, kept
<1> QED BY <1>1, <1>2, <1>3 DEF Within

\* A tick, too, leaves only threads.
LEMMA TickKeepsThreads ==
    ASSUME ThreadsOK, Tick
    PROVE  ThreadsOK'
<1>1. state'.threads = prunedThreads(handledThreads) BY DEF Tick
<1>2. /\ DOMAIN state'.threads \subseteq DOMAIN handledThreads
      /\ \A f \in DOMAIN state'.threads : state'.threads[f] = handledThreads[f]
  BY <1>1, PrunedSome
<1>3. UNCHANGED <<now, content>> BY DEF Tick
<1>4. state' = [initialized |-> state'.initialized, cursors |-> state'.cursors,
                processed |-> state'.processed, threads |-> state'.threads]
  BY DEF Tick
<1> QED BY <1>2, <1>3, <1>4, HandledType DEF ThreadsOK

\* The threads of state.json are well typed, however many files there are.
LEMMA ThreadsHold == Spec => []ThreadsOK
<1>1. Init => ThreadsOK BY DEF Init, ThreadsOK
<1>2. ThreadsOK /\ [Next]_vars => ThreadsOK' BY WorldKeepsThreads, TickKeepsThreads DEF Next
<1> QED BY <1>1, <1>2, PTL DEF Spec

\* As long as no success is among the lines, a live or stopped thread stays what it is
\* or becomes live.
LEMMA NoSuccessKeeps ==
    ASSUME ThreadsOK, NEW f \in DOMAIN state.threads, state.threads[f].phase # "idle",
           \A i \in Nat : <<f, i>> \in newLines => content[f][i].kind # "succeeded"
    PROVE  LET th == state.threads[f]
               after == handledThreads[f]
           IN  \/ after.phase = "live"
               \/ /\ after.phase = th.phase /\ after.stoppedAt = th.stoppedAt
                  /\ after.historical = th.historical
<1> DEFINE th == state.threads[f]
           holds(x) == \/ x.phase = "live"
                       \/ /\ x.phase = th.phase /\ x.stoppedAt = th.stoppedAt
                          /\ x.historical = th.historical
<1>1. f \in Files /\ th \in ThreadState BY DEF ThreadsOK
<1>2. handledThreads[f] = afterLines(f, th) BY HandledType DEF threadOf
<1>3. PICK g : Follows(g, f, th) /\ afterLines(f, th) = g[MaxRecords] BY <1>1, LinesFollowed
<1>4. ASSUME NEW x \in ThreadState, holds(x), NEW record \in [kind : RecordKinds, at : Nat],
             record.kind # "succeeded"
      PROVE  holds(afterRecord(x, record))
  BY <1>1, <1>4 DEF afterRecord, ThreadState, RecordKinds
<1> HIDE DEF th
<1> DEFINE S == {i \in Nat : holds(g[i])}
<1>5. 0 \in S BY <1>3 DEF Follows
<1>6. ASSUME NEW i \in Nat, i \in S PROVE i + 1 \in S
  <2>1. g[i] \in ThreadState /\ holds(g[i]) /\ i + 1 \in Nat BY <1>3, <1>6 DEF Follows
  <2>2. g[i + 1] = IF <<f, i + 1>> \in newLines
                   THEN afterRecord(g[i], content[f][i + 1]) ELSE g[i]
    BY <1>3 DEF Follows
  <2> HIDE DEF holds
  <2>3. CASE <<f, i + 1>> \in newLines
    <3>1. content[f][i + 1] \in [kind : RecordKinds, at : Nat]
      <4> DEFINE R == [kind : RecordKinds, at : Nat]
      <4>1. i + 1 \in 1..MaxRecords /\ i + 1 <= Len(content[f]) BY <2>3 DEF newLines, Line
      <4>2. content[f] \in Seq(R) BY <1>1 DEF ThreadsOK
      <4> HIDE DEF R
      <4>3. content[f][i + 1] \in R BY <4>1, <4>2
      <4> QED BY <4>3 DEF R
    <3>2. holds(afterRecord(g[i], content[f][i + 1])) BY <1>4, <2>1, <2>3, <3>1
    <3>3. holds(g[i + 1]) BY <2>2, <2>3, <3>2
    <3> QED BY <2>1, <3>3
  <2>4. CASE <<f, i + 1>> \notin newLines
    <3>1. holds(g[i + 1]) BY <2>1, <2>2, <2>4
    <3> QED BY <2>1, <3>1
  <2> QED BY <2>3, <2>4
<1> HIDE DEF S
<1>7. Nat \subseteq S BY <1>5, <1>6, Induction
<1>8. holds(g[MaxRecords]) BY <1>7, RetentionAssumption DEF S
<1> QED BY <1>2, <1>3, <1>8 DEF th

\* Neither age nor number removes a thread that is live or shown.
LEMMA NeededKept ==
    ASSUME NEW ts, NEW f \in DOMAIN ts, ts[f] \in ThreadState, live(ts[f]) \/ shown(ts[f]),
           now \in Nat
    PROVE  f \in DOMAIN prunedThreads(ts)
<1> DEFINE young == {g \in DOMAIN ts : ~expired(ts[g])}
           left == Within(ts, young)
           spare == evictable(left)
           kept == youngest([g \in spare |-> <<lastActivity(left[g]), g>>],
                         MaxThreadEntries - Cardinality(DOMAIN left \ spare))
<1>1. ~expired(ts[f])
  BY RetentionAssumption DEF expired, live, shown, lastActivity, Later, ThreadState
<1>2. f \in young /\ DOMAIN left = young /\ left[f] = ts[f] BY <1>1 DEF Within
<1>3. f \in DOMAIN left \ spare BY <1>2 DEF evictable
<1>4. prunedThreads(ts) = IF Cardinality(DOMAIN left \ spare) >= MaxThreadEntries THEN left
                          ELSE Within(left, kept \cup (DOMAIN left \ spare))
  BY DEF prunedThreads, trimInactiveThreads
<1> HIDE DEF left, spare, kept
<1> QED BY <1>3, <1>4 DEF Within

\* A live retry and a stop that is shown are not forgotten, by age or by number, as
\* long as no success ended the chain (prune, trimInactiveThreads).
THEOREM RetryNotForgottenHolds ==
    ASSUME Cardinality(Files) <= MaxFileCursorEntries
    PROVE  Spec => RetryNotForgotten
<1> DEFINE kept(f) ==
        (live(state.threads[f]) \/ shown(state.threads[f])) /\ ~Succeeded(f)
            => f \in DOMAIN state'.threads /\ state'.threads[f].phase # "idle"
<1>1. ASSUME Inv, ThreadsOK, [Next]_vars, NEW f \in DOMAIN state.threads \ estranged
      PROVE  kept(f)
  <2>1. CASE ~Tick
    <3>1. /\ DOMAIN state'.threads = DOMAIN state.threads
          /\ state'.threads[f] = state.threads[f] \/ state'.threads[f].phase = "stopped"
      BY <1>1, <2>1, WorldKeepsThreads DEF Next
    <3> QED BY <3>1 DEF live, shown
  <2>2. CASE Tick
    <3> SUFFICES ASSUME live(state.threads[f]) \/ shown(state.threads[f]), ~Succeeded(f)
                 PROVE  f \in DOMAIN state'.threads /\ state'.threads[f].phase # "idle"
      OBVIOUS
    <3>1. f \in Files /\ FileOK(f) BY <1>1 DEF Inv, ThreadsOK
    <3>2. ASSUME NEW i \in Nat, <<f, i>> \in newLines
          PROVE  content[f][i].kind # "succeeded"
      <4>1. <<f, i>> \in Line /\ i \in 1..MaxRecords /\ i <= Len(content[f])
        BY <3>2 DEF newLines, Line
      <4>2. handled[<<f, i>>] \in Nat /\ handled[<<f, i>>] <= 1
        BY <1>1, <3>1, <4>1 DEF FileOK, Inv, Types
      <4>3. handled'[<<f, i>>] = handled[<<f, i>>] + 1 BY <2>2, <3>2, <4>1, <4>2 DEF Tick
      <4>4. i \in 1..Len(content[f])
        <5> DEFINE R == [kind : RecordKinds, at : Nat]
        <5>1. content[f] \in Seq(R) BY <1>1, <3>1 DEF ThreadsOK
        <5> HIDE DEF R
        <5>2. Len(content[f]) \in Nat BY <5>1
        <5> QED BY <4>1, <5>2
      <4> QED BY <4>2, <4>3, <4>4 DEF Succeeded
    <3>3. state.threads[f].phase # "idle" BY DEF live, shown
    <3>4. live(handledThreads[f]) \/ shown(handledThreads[f])
      BY <1>1, <3>2, <3>3, NoSuccessKeeps DEF live, shown
    <3>5. f \in DOMAIN handledThreads /\ handledThreads[f] \in ThreadState
      BY <1>1, HandledType
    <3>6. state'.threads = prunedThreads(handledThreads) BY <2>2 DEF Tick
    <3>7. f \in DOMAIN state'.threads BY <1>1, <3>4, <3>5, <3>6, NeededKept DEF ThreadsOK
    <3>8. state'.threads[f] = handledThreads[f] BY <3>6, <3>7, PrunedSome
    <3> QED BY <3>4, <3>7, <3>8 DEF live, shown
  <2> QED BY <2>1, <2>2
<1>2. Inv /\ ThreadsOK /\ [Next]_vars
        => [\A f \in DOMAIN state.threads \ estranged : kept(f)]_vars
  BY <1>1
<1> QED BY <1>2, InvHolds, ThreadsHold, PTL DEF Spec, RetryNotForgotten

\* The keys that come after a key.
followers(place, k) == {j \in DOMAIN place : Before(place[k], place[j])}

\* The earlier a key, the more others follow it.
LEMMA FollowersNested ==
    ASSUME NEW place, IsFiniteSet(DOMAIN place), \A k \in DOMAIN place : place[k] \in Int \X Int,
           NEW a \in DOMAIN place, NEW b \in DOMAIN place, Before(place[a], place[b])
    PROVE  Cardinality(followers(place, b)) < Cardinality(followers(place, a))
<1>1. b \in followers(place, a) /\ b \notin followers(place, b) BY DEF followers, Before
<1>2. followers(place, b) \subseteq followers(place, a) BY DEF followers, Before
<1>3. IsFiniteSet(followers(place, a)) /\ IsFiniteSet(followers(place, b))
  BY FS_Subset DEF followers
<1>4. /\ Cardinality(followers(place, b)) <= Cardinality(followers(place, a))
      /\ Cardinality(followers(place, b)) # Cardinality(followers(place, a))
  BY <1>1, <1>2, <1>3, FS_Subset
<1> QED BY <1>3, <1>4, FS_CardinalityType

\* Whoever is left out comes no later than whoever is kept.
LEMMA YoungestOrdered ==
    ASSUME NEW place, IsFiniteSet(DOMAIN place), \A k \in DOMAIN place : place[k] \in Int \X Int,
           NEW limit \in Nat,
           NEW f \in DOMAIN place, f \notin youngest(place, limit), NEW g \in youngest(place, limit)
    PROVE  place[f][1] <= place[g][1]
<1>1. g \in DOMAIN place /\ Cardinality(followers(place, g)) < limit
      /\ ~(Cardinality(followers(place, f)) < limit)
  BY DEF youngest, followers
<1>2. IsFiniteSet(followers(place, f)) /\ IsFiniteSet(followers(place, g))
  BY FS_Subset DEF followers
<1>3. Cardinality(followers(place, f)) \in Nat /\ Cardinality(followers(place, g)) \in Nat
  BY <1>2, FS_CardinalityType
<1>4. ~Before(place[g], place[f]) BY <1>1, <1>3, FollowersNested
<1> QED BY <1>1, <1>4 DEF Before

\* Places that differ in their second part leave room for exactly limit keys.
LEMMA YoungestMany ==
    ASSUME NEW place, IsFiniteSet(DOMAIN place), \A k \in DOMAIN place : place[k] \in Int \X Int,
           \A j, k \in DOMAIN place : place[j][2] = place[k][2] => j = k,
           NEW limit \in 0..Cardinality(DOMAIN place)
    PROVE  Cardinality(youngest(place, limit)) = limit
<1> DEFINE S == DOMAIN place
           r == [k \in S |-> Cardinality(followers(place, k))]
<1>1. \A k \in S : r[k] \in 0..(Cardinality(S) - 1)
  <2> SUFFICES ASSUME NEW k \in S
               PROVE  Cardinality(followers(place, k)) \in 0..(Cardinality(S) - 1)
    OBVIOUS
  <2>1. followers(place, k) \subseteq S \ {k} BY DEF followers, Before
  <2>2. IsFiniteSet(S \ {k}) /\ Cardinality(S \ {k}) = Cardinality(S) - 1
    BY FS_RemoveElement
  <2>3. /\ IsFiniteSet(followers(place, k))
        /\ Cardinality(followers(place, k)) <= Cardinality(S \ {k})
    BY <2>1, <2>2, FS_Subset
  <2> QED BY <2>2, <2>3, FS_CardinalityType
<1>2. \A x, y \in S : r[x] = r[y] => x = y
  <2> SUFFICES ASSUME NEW x \in S, NEW y \in S, x # y PROVE r[x] # r[y] OBVIOUS
  <2>1. Before(place[x], place[y]) \/ Before(place[y], place[x]) BY DEF Before
  <2>2. IsFiniteSet(followers(place, x)) /\ IsFiniteSet(followers(place, y))
    BY FS_Subset DEF followers
  <2>3. Cardinality(followers(place, x)) \in Nat /\ Cardinality(followers(place, y)) \in Nat
    BY <2>2, FS_CardinalityType
  <2>4. Cardinality(followers(place, x)) # Cardinality(followers(place, y))
    BY <2>1, <2>3, FollowersNested
  <2> QED BY <2>4
<1>3. youngest(place, limit) = {k \in S : r[k] < limit} BY DEF youngest, followers
<1>4. r \in [S -> 0..(Cardinality(S) - 1)] BY <1>1
<1> HIDE DEF r
<1>5. Cardinality({k \in S : r[k] < limit}) = limit BY <1>2, <1>4, RankCount
<1> QED BY <1>3, <1>5

\* A thread that the pruning removes.
LEMMA OldestPruned ==
    ASSUME NEW ts, DOMAIN ts \subseteq Files, \A g \in DOMAIN ts : ts[g] \in ThreadState,
           now \in Nat, NEW f \in DOMAIN ts \ DOMAIN prunedThreads(ts), ~expired(ts[f])
    PROVE  /\ Cardinality(DOMAIN prunedThreads(ts)) >= MaxThreadEntries
           /\ \A g \in evictable(prunedThreads(ts)) :
                 lastActivity(ts[f]) <= lastActivity(prunedThreads(ts)[g])
<1> DEFINE young == {g \in DOMAIN ts : ~expired(ts[g])}
           left == Within(ts, young)
           spare == evictable(left)
           needed == DOMAIN left \ spare
           place == [g \in spare |-> <<lastActivity(left[g]), g>>]
           n == MaxThreadEntries - Cardinality(needed)
           kept == youngest(place, n)
<1>1. /\ f \in young /\ DOMAIN left = young /\ young \subseteq Files
      /\ \A g \in young : left[g] = ts[g] /\ ts[g] \in ThreadState
  BY DEF Within
<1>2. prunedThreads(ts) = IF Cardinality(needed) >= MaxThreadEntries THEN left
                          ELSE Within(left, kept \cup needed)
  BY DEF prunedThreads, trimInactiveThreads
<1>3. kept \subseteq spare /\ spare \subseteq young BY <1>1 DEF youngest, evictable
<1> HIDE DEF left, young
<1>4. IsFiniteSet(young) /\ IsFiniteSet(spare) /\ IsFiniteSet(needed)
  BY <1>1, <1>3, RetentionAssumption, FS_Subset
<1>5. MaxThreadEntries \in Nat /\ Cardinality(needed) \in Nat /\ Cardinality(spare) \in Nat
  BY <1>4, RetentionAssumption, FS_CardinalityType
<1>6. /\ ~(Cardinality(needed) >= MaxThreadEntries)
      /\ DOMAIN prunedThreads(ts) = kept \cup needed
      /\ \A g \in DOMAIN prunedThreads(ts) : prunedThreads(ts)[g] = left[g]
  BY <1>1, <1>2 DEF Within
<1>7. n \in Nat BY <1>5, <1>6
<1>8. f \in spare /\ f \notin kept BY <1>1, <1>6
<1>9. DOMAIN place = spare OBVIOUS
<1>10. \A g \in spare : place[g] = <<lastActivity(ts[g]), g>> /\ place[g] \in Int \X Int
  <2> SUFFICES ASSUME NEW g \in spare
               PROVE  /\ lastActivity(left[g]) = lastActivity(ts[g])
                      /\ lastActivity(ts[g]) \in Int /\ g \in Int
    OBVIOUS
  <2>1. g \in young /\ left[g] = ts[g] /\ ts[g] \in ThreadState BY <1>1, <1>3
  <2>2. lastActivity(ts[g]) \in Nat BY <2>1 DEF lastActivity, Later, ThreadState
  <2>3. g \in Nat BY <1>1, <2>1, RetentionAssumption
  <2> QED BY <2>1, <2>2, <2>3
<1> HIDE DEF place, spare, n
<1>11. n <= Cardinality(spare)
  <2>1. followers(place, f) \subseteq spare BY <1>9 DEF followers
  <2>2. ~(Cardinality(followers(place, f)) < n) BY <1>8, <1>9 DEF youngest, followers
  <2>3. /\ IsFiniteSet(followers(place, f))
        /\ Cardinality(followers(place, f)) <= Cardinality(spare)
    BY <1>4, <2>1, FS_Subset
  <2>4. Cardinality(followers(place, f)) \in Nat BY <2>3, FS_CardinalityType
  <2> QED BY <1>5, <1>7, <2>2, <2>3, <2>4
<1>12. Cardinality(kept) = n
  <2>1. n \in 0..Cardinality(DOMAIN place) BY <1>5, <1>7, <1>9, <1>11
  <2>2. \A j, k \in DOMAIN place : place[j][2] = place[k][2] => j = k BY <1>9, <1>10
  <2> QED BY <1>4, <1>9, <1>10, <2>1, <2>2, YoungestMany
<1> HIDE DEF kept
<1>13. Cardinality(kept \cup needed) = n + Cardinality(needed)
  <2>1. kept \cap needed = {} BY <1>3
  <2>2. IsFiniteSet(kept) BY <1>3, <1>4, FS_Subset
  <2>3. Cardinality(kept \cap needed) = 0 BY <2>1, FS_EmptySet
  <2>4. Cardinality(kept \cup needed)
          = Cardinality(kept) + Cardinality(needed) - Cardinality(kept \cap needed)
    BY <1>4, <2>2, FS_Union
  <2> HIDE DEF needed
  <2> QED BY <1>5, <1>7, <1>12, <2>3, <2>4
<1>14. Cardinality(DOMAIN prunedThreads(ts)) >= MaxThreadEntries
  BY <1>5, <1>6, <1>7, <1>13 DEF n
<1>15. ASSUME NEW g \in evictable(prunedThreads(ts))
       PROVE  lastActivity(ts[f]) <= lastActivity(prunedThreads(ts)[g])
  <2>1. g \in DOMAIN prunedThreads(ts) /\ ~live(left[g]) /\ ~shown(left[g])
    BY <1>6 DEF evictable
  <2>2. g \in DOMAIN left BY <1>1, <1>3, <1>6, <2>1
  <2>3. g \in spare BY <2>1, <2>2 DEF spare, evictable
  <2>4. g \in kept BY <1>6, <2>1, <2>3
  <2>5. place[f][1] <= place[g][1] BY <1>4, <1>7, <1>8, <1>9, <1>10, <2>4, YoungestOrdered DEF kept
  <2>6. prunedThreads(ts)[g] = ts[g] BY <2>1, PrunedSome
  <2> QED BY <1>8, <1>10, <2>3, <2>5, <2>6
<1> QED BY <1>14, <1>15

\* A thread is forgotten for its age, or because the memory is full of threads that are
\* live, shown or were active no earlier, whatever the number of files (prune,
\* trimInactiveThreads).
THEOREM OldestForgottenFirstHolds == Spec => OldestForgottenFirst
<1> DEFINE forgotten(f) ==
          LET at == lastActivity(handledThreads[f])
          IN  \/ at # 0 /\ at + ThreadAge < now
              \/ /\ Cardinality(DOMAIN state'.threads) >= MaxThreadEntries
                 /\ \A g \in evictable(state'.threads) :
                       at <= lastActivity(state'.threads[g])
<1>1. ASSUME ThreadsOK, [Next]_vars, NEW f \in DOMAIN state.threads \ DOMAIN state'.threads
      PROVE  forgotten(f)
  <2>1. Tick BY <1>1, WorldKeepsThreads DEF Next
  <2>2. state'.threads = prunedThreads(handledThreads) BY <2>1 DEF Tick
  <2>3. /\ f \in DOMAIN handledThreads /\ DOMAIN handledThreads \subseteq Files
        /\ \A g \in DOMAIN handledThreads : handledThreads[g] \in ThreadState
        /\ now \in Nat
    BY <1>1, HandledType DEF ThreadsOK
  <2>4. CASE expired(handledThreads[f]) BY <2>4 DEF expired
  <2>5. CASE ~expired(handledThreads[f]) BY <1>1, <2>2, <2>3, <2>5, OldestPruned
  <2> QED BY <2>4, <2>5
<1>2. ThreadsOK /\ [Next]_vars
        => [\A f \in DOMAIN state.threads \ DOMAIN state'.threads : forgotten(f)]_vars
  BY <1>1
<1> QED BY <1>2, ThreadsHold, PTL DEF Spec, OldestForgottenFirst
=============================================================================
