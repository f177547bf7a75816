------------------------------ MODULE LifeProofs ------------------------------
(***************************************************************************)
(* For any accidents and any bounds: the supervisor never takes a crash of *)
(* the worker for an intended end; and, for any number of records, any     *)
(* paths and any walk over them, the scan skips no record and applies none *)
(* twice, across crashes, failed saves and renamed files; and a copy under *)
(* another home applies no old history.                                    *)
(***************************************************************************)
EXTENDS WorkerLife, FiniteSetTheorems, SequenceTheorems, TLAPS

\* A marker that the supervisor may still consume, and a worker that leaves or
\* will leave, come from a stop or an exit that was intended.  The markers of an
\* earlier session are gone by then.
MarkerIntended == supervisor \notin {"none", "begin"} /\ stopMarker => intended
LeavingIntended ==
    /\ worker \in {"leaving", "stopped"} => intended
    /\ worker = "running" /\ stopSignal => intended
    /\ stopping => intended

\* The inductive invariant.
Inv == accidents \in Nat /\ MarkerIntended /\ LeavingIntended

EndStep == supervisor # "none" /\ supervisor' = "none" => intended \/ accidents' # accidents
Kept == Inv' /\ EndStep

LEMMA SupervisorKeeps ==
    ASSUME Inv, SupervisorStep
    PROVE  Kept
<1> USE DEF Inv, MarkerIntended, LeavingIntended, EndStep, Kept, user, files
<1>1. CASE SupervisorBegins BY <1>1 DEF SupervisorBegins
<1>2. CASE WorkerLaunched
  <2>1. supervisor = "start" /\ supervisor' # "none" /\ worker' \in {worker, "starting"}
    BY <1>2 DEF WorkerLaunched
  <2>2. UNCHANGED <<stopMarker, stopSignal, stopping, intended>> BY <1>2 DEF WorkerLaunched
  <2>3. accidents' \in Nat BY <1>2 DEF WorkerLaunched, Accident
  <2> QED BY <2>1, <2>2, <2>3
<1>3. CASE WorkerExitSeen BY <1>3 DEF WorkerExitSeen, Consume
<1>4. CASE StatusLooked BY <1>4 DEF StatusLooked
<1>5. CASE MarkerRechecked BY <1>5 DEF MarkerRechecked, Consume
<1>6. CASE BackoffPolls BY <1>6 DEF BackoffPolls, Consume
<1>7. CASE BackoffEnds BY <1>7 DEF BackoffEnds
<1> QED BY <1>1, <1>2, <1>3, <1>4, <1>5, <1>6, <1>7 DEF SupervisorStep

LEMMA WorkerKeeps ==
    ASSUME Inv, WorkerRuns \/ WorkerObeys \/ WorkerWritesStatus \/ WorkerExits \/ WorkerLeaves
    PROVE  Kept
<1> USE DEF Inv, MarkerIntended, LeavingIntended, EndStep, Kept, user, files
<1>1. CASE WorkerRuns BY <1>1 DEF WorkerRuns
<1>2. CASE WorkerObeys BY <1>2 DEF WorkerObeys
<1>3. CASE WorkerWritesStatus BY <1>3 DEF WorkerWritesStatus
<1>4. CASE WorkerExits BY <1>4 DEF WorkerExits
<1>5. CASE WorkerLeaves BY <1>5 DEF WorkerLeaves
<1> QED BY <1>1, <1>2, <1>3, <1>4, <1>5

LEMMA AccidentKeeps ==
    ASSUME Inv, WorkerCrashes \/ Reboot \/ SaveFails
    PROVE  Kept
<1> USE DEF Inv, MarkerIntended, LeavingIntended, EndStep, Kept, user, files, Accident
<1>1. CASE WorkerCrashes BY <1>1 DEF WorkerCrashes
<1>2. CASE Reboot BY <1>2 DEF Reboot
<1>3. CASE SaveFails BY <1>3 DEF SaveFails
<1> QED BY <1>1, <1>2, <1>3

LEMMA OrderKeeps ==
    ASSUME Inv, UserStarts \/ SignIn \/ UserStops \/ UserSignals
    PROVE  Kept
<1> USE DEF Inv, MarkerIntended, LeavingIntended, EndStep, Kept, user, files
<1>1. CASE UserStarts BY <1>1 DEF UserStarts
<1>2. CASE SignIn BY <1>2 DEF SignIn
<1>3. CASE UserStops BY <1>3 DEF UserStops
<1>4. CASE UserSignals BY <1>4 DEF UserSignals
<1> QED BY <1>1, <1>2, <1>3, <1>4

LEMMA NextKeeps == Inv /\ [Next]_vars => Kept
<1> SUFFICES ASSUME Inv, [Next]_vars PROVE Kept
  OBVIOUS
<1>1. CASE UNCHANGED supervisionVars
  BY <1>1 DEF supervisionVars, Inv, MarkerIntended, LeavingIntended, EndStep, Kept
<1>2. CASE Next
  <2>1. \/ UNCHANGED supervisionVars \/ SupervisorStep
        \/ WorkerRuns \/ WorkerObeys \/ WorkerWritesStatus \/ WorkerExits \/ WorkerLeaves
        \/ WorkerCrashes \/ Reboot \/ SaveFails
        \/ UserStarts \/ SignIn \/ UserStops \/ UserSignals
    BY <1>2 DEF Next, WorkerMoves, WorkerIsLeft, WorkerEnds
  <2> QED BY <1>1, <2>1, SupervisorKeeps, WorkerKeeps, AccidentKeeps, OrderKeeps
<1> QED BY <1>1, <1>2 DEF vars

\* Every stop marker and every leaving worker is intended, in every reachable state.
THEOREM IntentInvHolds == Spec => []Inv
<1>1. Init => Inv
  BY DEF Init, SupervisionInit, Inv, MarkerIntended, LeavingIntended
<1>2. Inv /\ [Next]_vars => Inv' BY NextKeeps DEF Kept
<1> QED BY <1>1, <1>2, PTL DEF Spec

\* The supervisor (runSupervisor) ends only after a stop or a clean exit that was
\* intended, whatever marker an earlier session left and however often the
\* worker crashes.
THEOREM SupervisionEndsByIntentHolds == Spec => SupervisionEndsByIntent
<1>1. Inv /\ [Next]_vars => [EndStep]_vars BY NextKeeps DEF Kept
<1> QED BY IntentInvHolds, <1>1, PTL DEF Spec, SupervisionEndsByIntent, EndStep

----------------------------------------------------------------------------
(* The order in which a tick applies what its walk has read.               *)

\* The events of a scan in the order of their times, whatever it has read twice.
LEMMA SortedFacts ==
    ASSUME NEW E, IsFiniteSet(E), \A e \in E : e.id \in Nat
    PROVE  LET s == InOrder(E)
           IN  /\ s \in [1..Cardinality(E) -> E] /\ Cardinality(E) \in Nat
               /\ \A i, j \in DOMAIN s : i # j => s[i] # s[j]
               /\ \A i, j \in DOMAIN s : i < j => s[i].id <= s[j].id
<1> DEFINE n == Cardinality(E)
<1>1. n \in Nat /\ IsFiniteSet(1..n) /\ Cardinality(1..n) = n
  <2>1. n \in Nat BY FS_CardinalityType
  <2> QED BY <2>1, FS_Interval
<1>2. PICK index \in [E -> 1..n] : \A e, f \in E : index[e] = index[f] => e = f
  <2>1. ExistsBijection(E, 1..n) BY <1>1, FS_SameCardinalityBij
  <2> QED BY <2>1 DEF ExistsBijection, Bijection, Injection, IsInjective
<1> DEFINE upTo(e) == {x \in E : x.id < e.id \/ (x.id = e.id /\ index[x] <= index[e])}
           rank == [e \in E |-> Cardinality(upTo(e))]
           sorted(s) == \A i, j \in DOMAIN s : i < j => s[i].id <= s[j].id
<1>3. \A e \in E : e \in upTo(e) /\ upTo(e) \in SUBSET E BY <1>1, <1>2
<1>4. \A e \in E : IsFiniteSet(upTo(e)) /\ rank[e] \in 1..n
  <2> SUFFICES ASSUME NEW e \in E PROVE IsFiniteSet(upTo(e)) /\ rank[e] \in 1..n OBVIOUS
  <2> DEFINE S == upTo(e)
  <2>1. S \in SUBSET E /\ S # {} BY <1>3
  <2> HIDE DEF S
  <2>2. IsFiniteSet(S) /\ Cardinality(S) <= n BY <2>1, FS_Subset
  <2>3. Cardinality(S) \in Nat /\ Cardinality(S) # 0 BY <2>1, <2>2, FS_CardinalityType, FS_EmptySet
  <2>4. Cardinality(S) \in 1..n BY <1>1, <2>2, <2>3
  <2> QED BY <2>2, <2>4 DEF S
<1>5. ASSUME NEW e \in E, NEW f \in E, e.id < f.id \/ (e.id = f.id /\ index[e] < index[f])
      PROVE  rank[e] < rank[f]
  <2> DEFINE S == upTo(e)
             T == upTo(f)
  <2>1. S \in SUBSET T /\ f \in T /\ f \notin S /\ IsFiniteSet(S) /\ IsFiniteSet(T)
    <3>1. \A x \in E : x.id \in Nat /\ index[x] \in Nat BY <1>1, <1>2
    <3> QED BY <1>4, <1>5, <3>1
  <2> HIDE DEF S, T
  <2>2. Cardinality(S) <= Cardinality(T) /\ Cardinality(S) # Cardinality(T) BY <2>1, FS_Subset
  <2>3. Cardinality(S) \in Nat /\ Cardinality(T) \in Nat BY <2>1, FS_CardinalityType
  <2>4. Cardinality(S) < Cardinality(T) BY <2>2, <2>3
  <2> QED BY <2>4 DEF S, T
<1> HIDE DEF upTo
<1>6. rank \in [E -> 1..n] BY <1>4
<1>7. \A e, f \in E : rank[e] = rank[f] => e = f
  <2> SUFFICES ASSUME NEW e \in E, NEW f \in E, rank[e] = rank[f], e # f PROVE FALSE OBVIOUS
  <2>1. index[e] \in Nat /\ index[f] \in Nat /\ index[e] # index[f] BY <1>1, <1>2
  <2>2. \/ e.id < f.id \/ (e.id = f.id /\ index[e] < index[f])
        \/ f.id < e.id \/ (f.id = e.id /\ index[f] < index[e])
    BY <2>1
  <2>3. rank[e] \in Nat /\ rank[f] \in Nat BY <1>6
  <2> QED BY <1>5, <2>2, <2>3
<1> HIDE DEF rank
<1>8. rank \in Injection(E, 1..n) BY <1>6, <1>7 DEF Injection, IsInjective
<1>9. rank \in Surjection(E, 1..n) BY <1>1, <1>8, FS_Injection
<1> DEFINE inv == [i \in 1..n |-> CHOOSE e \in E : rank[e] = i]
<1>10. \A i \in 1..n : inv[i] \in E /\ rank[inv[i]] = i
  BY <1>9 DEF Surjection
<1>11. inv \in [1..n -> E] /\ DOMAIN inv = 1..n BY <1>10
<1> HIDE DEF inv
<1>12. inv \in SetToSeqs(E)
  <2>1. \A i, j \in 1..n : i # j => inv[i] # inv[j] BY <1>10
  <2> QED BY <1>11, <2>1 DEF SetToSeqs
<1>13. sorted(inv)
  <2> SUFFICES ASSUME NEW i \in 1..n, NEW j \in 1..n, i < j PROVE inv[i].id <= inv[j].id BY <1>11
  <2>1. inv[i].id \in Nat /\ inv[j].id \in Nat BY <1>10
  <2>2. ~(inv[j].id < inv[i].id) BY <1>5, <1>10, <1>1
  <2> QED BY <2>1, <2>2
<1> DEFINE s == InOrder(E)
<1>14. s \in SetToSeqs(E) /\ sorted(s)
  <2>1. s = CHOOSE x \in SetToSeqs(E) : sorted(x) BY DEF InOrder
  <2> QED BY <1>12, <1>13, <2>1
<1> HIDE DEF s
<1>15. s \in [1..n -> E] /\ \A i, j \in 1..n : i # j => s[i] # s[j] BY <1>14 DEF SetToSeqs
<1> QED BY <1>1, <1>14, <1>15 DEF s

\* What sorting by number gives, where no number comes twice.
LEMMA InOrderFacts ==
    ASSUME NEW E, IsFiniteSet(E), \A e \in E : e.id \in Nat,
           \A e, f \in E : e.id = f.id => e = f
    PROVE  LET s == InOrder(E)
           IN  /\ s \in [1..Cardinality(E) -> E] /\ Cardinality(E) \in Nat
               /\ \A e \in E : \E i \in DOMAIN s : s[i] = e
               /\ \A i, j \in DOMAIN s : i < j => s[i].id < s[j].id
<1> DEFINE n == Cardinality(E)
           s == InOrder(E)
<1>1. /\ s \in [1..n -> E] /\ n \in Nat
      /\ \A i, j \in DOMAIN s : i # j => s[i] # s[j]
      /\ \A i, j \in DOMAIN s : i < j => s[i].id <= s[j].id
  BY SortedFacts
<1>2. IsFiniteSet(1..n) /\ Cardinality(1..n) = n BY <1>1, FS_Interval
<1> HIDE DEF s
<1>3. s \in Injection(1..n, E) BY <1>1 DEF Injection, IsInjective
<1>4. s \in Surjection(1..n, E) BY <1>2, <1>3, FS_Injection
<1>5. \A e \in E : \E i \in DOMAIN s : s[i] = e BY <1>1, <1>4 DEF Surjection
<1>6. ASSUME NEW i \in 1..n, NEW j \in 1..n, i < j PROVE s[i].id < s[j].id
  <2>1. s[i].id <= s[j].id /\ s[i] # s[j] /\ s[i] \in E /\ s[j] \in E BY <1>1, <1>6
  <2> QED BY <2>1
<1> QED BY <1>1, <1>5, <1>6 DEF s

----------------------------------------------------------------------------
(* The inductive invariant of the scan.  The thread has one file, which may *)
(* be renamed within its home, and one cursor at most; the cursor divides   *)
(* the records of the file into those that were taken, or declared history, *)
(* and those that are newer than all that was taken.  It does so in memory  *)
(* together with the running scan, and in state.json alone: that is why a   *)
(* crash may put the one in the place of the other.                         *)

Ours == {p \in Paths : Home[p] = Home[Main]}
File == [lines : Seq(Nat), partial : Nat]
Cursor == UNION {[D -> Nat] : D \in SUBSET Paths}

\* The records of a file, the one that is still being written included.
count(file) == Len(file.lines) + (IF file.partial = 0 THEN 0 ELSE 1)
recordAt(file, i) == IF i <= Len(file.lines) THEN file.lines[i] ELSE file.partial

\* The records that begin behind a position.
Behind(file, from) == {i \in 1..count(file) : 2 * (i - 1) >= from}

\* The cursor of a state, which has one at most.
position(s) == IF DOMAIN s.offset = {} THEN 0 ELSE s.offset[CHOOSE p \in DOMAIN s.offset : TRUE]

Taken == ToSet(memory.applied) \cup {ev.id : ev \in batch}

\* What is still to be read is newer than what was taken.
Ahead(s, taken) ==
    \A p \in Existing : \A i \in Behind(content[p], position(s)) :
        \A id \in taken : id < recordAt(content[p], i)

\* What is not to be read any more was taken.
Covered(s, taken) ==
    \A p \in Existing :
        /\ position(s) <= Size(content[p])
        /\ \A i \in 1..count(content[p]) :
              i \in Behind(content[p], position(s)) \/ recordAt(content[p], i) \in exempt \cup taken

\* One file, whose records are numbered upwards.
FilesInv ==
    /\ written \in Nat
    /\ content \in [Existing -> File]
    /\ \A p, q \in Existing : p = q /\ p \in Ours
    /\ \A p \in Existing : \A i, j \in 1..count(content[p]) :
          /\ recordAt(content[p], i) \in 1..written
          /\ i < j => recordAt(content[p], i) < recordAt(content[p], j)

\* One cursor, and records applied upwards.
StateInv(s) ==
    /\ s \in [initialized : BOOLEAN, offset : Cursor, applied : Seq(Nat)]
    /\ \A p, q \in DOMAIN s.offset : p = q /\ p \in Ours
    /\ Existing = {} => DOMAIN s.offset = {}
    /\ \A i, j \in DOMAIN s.applied :
          /\ s.applied[i] <= written
          /\ i < j => s.applied[i] < s.applied[j]

\* The running scan has read records that are newer than those applied.
BatchInv ==
    /\ \A ev \in batch : ev.id \in 0..written /\ ev.mirrored = FALSE
    /\ \A ev, fv \in batch : ev.id = fv.id => ev = fv
    /\ \A id \in ToSet(memory.applied), ev \in batch : id < ev.id

\* The first walk, which takes the baseline.
StartInv ==
    /\ scanning \in Nat
    /\ ~memory.initialized => Known \subseteq Existing /\ (scanning = 0 => Known = {})
    /\ ~disk.initialized => DOMAIN disk.offset = {}
    /\ disk.initialized => memory.initialized

\* Nothing is read twice.
OrderInv ==
    /\ FilesInv /\ StateInv(memory) /\ StateInv(disk) /\ BatchInv /\ StartInv
    /\ Ahead(memory, Taken) /\ Ahead(disk, ToSet(disk.applied))

\* Nothing is skipped.
LossInv == Covered(memory, Taken) /\ Covered(disk, ToSet(disk.applied))

\* A rewritten file may hide records from the cursor, never repeat them; a copy under
\* another home is a second file.
ScanInv == copied \/ (OrderInv /\ (shrunk \/ LossInv))

----------------------------------------------------------------------------
(* Files and positions.                                                    *)

LEMMA FileFacts ==
    ASSUME NEW f \in File
    PROVE  /\ Len(f.lines) \in Nat /\ Size(f) \in Nat /\ count(f) \in Nat
           /\ Size(f) = IF f.partial = 0 THEN 2 * Len(f.lines) ELSE 2 * Len(f.lines) + 1
           /\ count(f) = IF f.partial = 0 THEN Len(f.lines) ELSE Len(f.lines) + 1
           /\ \A i \in 1..count(f) : recordAt(f, i) \in Nat
BY DEF File, Size, count, recordAt

LEMMA PositionFacts ==
    ASSUME NEW s, StateInv(s)
    PROVE  /\ position(s) \in Nat
           /\ \A p \in DOMAIN s.offset : DOMAIN s.offset = {p} /\ position(s) = s.offset[p]
<1>1. PICK D \in SUBSET Paths : s.offset \in [D -> Nat] BY DEF StateInv, Cursor
<1>2. DOMAIN s.offset = D BY <1>1
<1>3. \A p \in D : D = {p} BY <1>2 DEF StateInv
<1>4. ASSUME NEW p \in D PROVE (CHOOSE q \in D : TRUE) = p BY <1>3
<1> QED BY <1>1, <1>2, <1>3, <1>4 DEF position

----------------------------------------------------------------------------
(* Codex.                                                                  *)

\* The records of g are the ones of f, or fewer, and perhaps a new one.
Follows(f, g) ==
    \A i \in 1..count(g) :
        \/ i \in 1..count(f) /\ recordAt(g, i) = recordAt(f, i)
        \/ /\ i = count(g) /\ i \notin 1..count(f)
           /\ recordAt(g, i) = written' /\ written' = written + 1

\* No record is taken away.
NotShorter(f, g) ==
    /\ Size(f) <= Size(g)
    /\ \A i \in 1..count(g) : i \in 1..count(f) \/ 2 * (i - 1) >= Size(f)

\* The file of the thread becomes g, at q.
LEMMA FileBecomes ==
    ASSUME OrderInv, NEW p \in Existing, NEW q \in Ours, NEW g \in File,
           content' = [x \in {q} |-> g], written' \in {written, written + 1},
           Follows(content[p], g), UNCHANGED scan,
           memory.initialized \/ scanning = 0 \/ q = p
    PROVE  OrderInv' /\ (LossInv /\ NotShorter(content[p], g) => LossInv')
<1> DEFINE f == content[p]
<1>1. /\ Existing = {p} /\ Existing' = {q} /\ content'[q] = g /\ f \in File
      /\ UNCHANGED <<memory, disk, scanning, batch, exempt>>
      /\ written \in Nat /\ written' \in Nat /\ written <= written'
  <2>1. Existing = {p} /\ f \in File BY DEF OrderInv, FilesInv
  <2>2. Existing' = {q} /\ content'[q] = g BY DEF Existing
  <2>3. written \in Nat BY DEF OrderInv, FilesInv
  <2> QED BY <2>1, <2>2, <2>3 DEF scan
<1>2. /\ \A i \in 1..count(f) : recordAt(f, i) \in 1..written
      /\ \A i, j \in 1..count(f) : i < j => recordAt(f, i) < recordAt(f, j)
      /\ count(f) \in Nat /\ count(g) \in Nat
  BY <1>1, FileFacts DEF OrderInv, FilesInv
<1> HIDE DEF f
<1>3. FilesInv'
  <2>1. \A i \in 1..count(g) : recordAt(g, i) \in 1..written'
    BY <1>1, <1>2 DEF Follows, f
  <2>2. ASSUME NEW i \in 1..count(g), NEW j \in 1..count(g), i < j
        PROVE  recordAt(g, i) < recordAt(g, j)
    <3>1. i \in 1..count(f) /\ recordAt(g, i) = recordAt(f, i) BY <1>2, <2>2 DEF Follows, f
    <3>2. CASE j \in 1..count(f) /\ recordAt(g, j) = recordAt(f, j) BY <1>2, <2>2, <3>1, <3>2
    <3>3. CASE recordAt(g, j) = written + 1 BY <1>1, <1>2, <3>1, <3>3
    <3> QED BY <3>2, <3>3 DEF Follows, f
  <2>3. content' \in [Existing' -> File] BY <1>1
  <2> QED BY <1>1, <2>1, <2>2, <2>3 DEF FilesInv
<1>4. StateInv(memory)' /\ StateInv(disk)'
  <2>1. ASSUME NEW s, StateInv(s), s' = s PROVE StateInv(s)'
    <3>1. \A i \in DOMAIN s.applied : s.applied[i] \in Nat BY <2>1 DEF StateInv
    <3> QED BY <1>1, <2>1, <3>1 DEF StateInv
  <2> QED BY <1>1, <2>1 DEF OrderInv
<1>5. BatchInv' BY <1>1 DEF OrderInv, BatchInv
<1>6. StartInv'
  <2>1. ~memory.initialized => Known' \subseteq Existing' /\ (scanning' = 0 => Known' = {})
    BY <1>1 DEF OrderInv, StartInv, Known
  <2> QED BY <1>1, <2>1 DEF OrderInv, StartInv
<1>7. \A from \in Nat : \A i \in Behind(g, from) :
         \/ i \in Behind(f, from) /\ recordAt(g, i) = recordAt(f, i)
         \/ recordAt(g, i) = written + 1
  BY <1>1, <1>2 DEF Follows, Behind, f
<1>8. position(memory) \in Nat /\ position(disk) \in Nat BY PositionFacts DEF OrderInv
<1>9. /\ \A id \in Taken : id \in Nat /\ id <= written
      /\ \A id \in ToSet(disk.applied) : id \in Nat /\ id <= written
  <2>1. ASSUME NEW s, StateInv(s) PROVE \A id \in ToSet(s.applied) : id \in Nat /\ id <= written
    BY <2>1 DEF StateInv, ToSet
  <2>2. \A ev \in batch : ev.id \in Nat /\ ev.id <= written BY <1>1 DEF OrderInv, BatchInv
  <2> QED BY <2>1, <2>2 DEF OrderInv, Taken
<1>10. /\ position(memory)' = position(memory) /\ position(disk)' = position(disk)
       /\ Taken' = Taken /\ ToSet(disk.applied)' = ToSet(disk.applied)
       /\ exempt' = exempt
  BY <1>1 DEF position, Taken
<1>11. Ahead(memory, Taken)' /\ Ahead(disk, ToSet(disk.applied))'
  <2>1. ASSUME NEW s, NEW taken, position(s) \in Nat, Ahead(s, taken),
               \A id \in taken : id \in Nat /\ id <= written
        PROVE  \A i \in Behind(g, position(s)) : \A id \in taken : id < recordAt(g, i)
    <3>1. \A i \in Behind(f, position(s)) : \A id \in taken : id < recordAt(f, i)
      BY <1>1, <2>1 DEF Ahead, f
    <3>2. \A id \in taken : id < written + 1 BY <1>1, <2>1
    <3> QED BY <1>7, <2>1, <3>1, <3>2
  <2>2. /\ \A i \in Behind(g, position(memory)) : \A id \in Taken : id < recordAt(g, i)
        /\ \A i \in Behind(g, position(disk)) : \A id \in ToSet(disk.applied) : id < recordAt(g, i)
    BY <1>8, <1>9, <2>1 DEF OrderInv
  <2> QED BY <1>1, <1>10, <2>2 DEF Ahead
<1>12. LossInv /\ NotShorter(f, g) => LossInv'
  <2> SUFFICES ASSUME LossInv, NotShorter(f, g) PROVE LossInv' OBVIOUS
  <2>1. Size(f) \in Nat /\ Size(g) \in Nat BY <1>1, FileFacts DEF f
  <2>2. ASSUME NEW s, NEW taken, position(s) \in Nat, Covered(s, taken)
        PROVE  /\ position(s) <= Size(g)
               /\ \A i \in 1..count(g) :
                     i \in Behind(g, position(s)) \/ recordAt(g, i) \in exempt \cup taken
    <3>1. position(s) <= Size(f) BY <1>1, <2>2 DEF Covered, f
    <3>2. ASSUME NEW i \in 1..count(g), i \notin 1..count(f) PROVE i \in Behind(g, position(s))
      BY <2>1, <2>2, <3>1, <3>2 DEF NotShorter, Behind
    <3>3. ASSUME NEW i \in 1..count(f), i \in 1..count(g)
          PROVE  i \in Behind(g, position(s)) \/ recordAt(g, i) \in exempt \cup taken
      <4>1. recordAt(g, i) = recordAt(f, i) BY <3>3 DEF Follows, f
      <4>2. i \in Behind(f, position(s)) \/ recordAt(f, i) \in exempt \cup taken
        BY <1>1, <2>2 DEF Covered, f
      <4> QED BY <3>3, <4>1, <4>2 DEF Behind
    <3> QED BY <2>1, <2>2, <3>1, <3>2, <3>3 DEF NotShorter
  <2>3. /\ position(memory) <= Size(g) /\ position(disk) <= Size(g)
        /\ \A i \in 1..count(g) :
              /\ i \in Behind(g, position(memory)) \/ recordAt(g, i) \in exempt \cup Taken
              /\ i \in Behind(g, position(disk))
                 \/ recordAt(g, i) \in exempt \cup ToSet(disk.applied)
    BY <1>8, <2>2 DEF LossInv
  <2> QED BY <1>1, <1>10, <2>3 DEF LossInv, Covered
<1> QED BY <1>3, <1>4, <1>5, <1>6, <1>11, <1>12 DEF OrderInv, f

\* Codex creates the file of the thread.
LEMMA FileCreated ==
    ASSUME OrderInv, Existing = {}, NEW q \in Ours, NEW g \in File, g.lines = <<>>, g.partial = 0,
           content' = [x \in {q} |-> g], UNCHANGED <<written, scan>>
    PROVE  OrderInv' /\ LossInv'
<1>1. /\ Existing' = {q} /\ content'[q] = g /\ count(g) = 0 /\ Size(g) = 0
      /\ UNCHANGED <<written, memory, disk, scanning, batch, exempt>>
  BY DEF Existing, count, Size, scan
<1>2. DOMAIN memory.offset = {} /\ DOMAIN disk.offset = {} BY DEF OrderInv, StateInv
<1>3. FilesInv' BY <1>1 DEF OrderInv, FilesInv
<1>4. StateInv(memory)' /\ StateInv(disk)' BY <1>1, <1>2 DEF OrderInv, StateInv
<1>5. BatchInv' /\ StartInv' BY <1>1, <1>2 DEF OrderInv, BatchInv, StartInv, Known
<1>6. \A from : Behind(g, from) = {} BY <1>1 DEF Behind
<1>7. Ahead(memory, Taken)' /\ Ahead(disk, ToSet(disk.applied))' BY <1>1, <1>6 DEF Ahead
<1>8. LossInv' BY <1>1, <1>2 DEF LossInv, Covered, position
<1> QED BY <1>3, <1>4, <1>5, <1>7, <1>8 DEF OrderInv

\* Every write of Codex but a copy.
LEMMA CodexKeeps ==
    ASSUME TurnFiles = {}, OrderInv, ~copied', CodexWrites \/ \E p \in Paths : EndRecord(p)
    PROVE  OrderInv' /\ (LossInv /\ ~shrunk' => LossInv')
<1>1. /\ written \in Nat /\ content \in [Existing -> File]
      /\ \A p \in Existing : Existing = {p} /\ p \in Ours /\ content[p] \in File
      /\ Original = Existing
  BY DEF OrderInv, FilesInv, Original, Ours
<1>2. CASE \E p \in Paths : CreateFile(p)
  <2>1. Existing = {} /\ UNCHANGED <<written, scan>>
        /\ content' = Put(Main, [lines |-> <<>>, partial |-> 0])
    BY <1>1, <1>2 DEF CreateFile
  <2> DEFINE g == [lines |-> <<>>, partial |-> 0]
  <2>2. g \in File /\ g.lines = <<>> /\ g.partial = 0 BY DEF File
  <2> HIDE DEF g
  <2>3. content' = [x \in {Main} |-> g] BY <2>1 DEF Put, g
  <2>4. Main \in Ours BY RolloutsAssumption DEF Ours
  <2> QED BY <2>1, <2>2, <2>3, <2>4, FileCreated
<1>3. ASSUME NEW p \in Existing, NEW g \in File, content' = [content EXCEPT ![p] = g],
             written' \in {written, written + 1}, Follows(content[p], g), UNCHANGED scan
      PROVE  OrderInv' /\ (LossInv /\ NotShorter(content[p], g) => LossInv')
  <2>1. content' = [x \in {p} |-> g] /\ p \in Ours BY <1>1, <1>3
  <2> QED BY <1>3, <2>1, FileBecomes
<1>4. CASE \E p \in Paths : BeginRecord(p)
  <2>1. PICK p \in Paths : BeginRecord(p) BY <1>4
  <2> DEFINE f == content[p]
             g == [f EXCEPT !.partial = written + 1]
  <2>2. /\ p \in Existing /\ f \in File /\ f.partial = 0 /\ UNCHANGED scan
        /\ written' = written + 1 /\ content' = [content EXCEPT ![p] = g]
    BY <1>1, <2>1 DEF BeginRecord
  <2>3. g \in File /\ g.lines = f.lines /\ g.partial = written + 1 BY <1>1, <2>2 DEF File
  <2> HIDE DEF f, g
  <2>4. /\ count(f) = Len(f.lines) /\ count(g) = Len(f.lines) + 1 /\ Len(f.lines) \in Nat
        /\ Size(f) = 2 * Len(f.lines) /\ Size(g) = 2 * Len(f.lines) + 1
    <3>1. g.partial # 0 BY <1>1, <2>3
    <3>2. Len(f.lines) \in Nat /\ count(f) = Len(f.lines) /\ Size(f) = 2 * Len(f.lines)
      BY <2>2, FileFacts
    <3>3. count(g) = Len(g.lines) + 1 /\ Size(g) = 2 * Len(g.lines) + 1
      BY <2>3, <3>1, FileFacts
    <3> QED BY <2>3, <3>2, <3>3
  <2>5. /\ \A i \in 1..Len(f.lines) : recordAt(g, i) = recordAt(f, i)
        /\ recordAt(g, count(g)) = written'
    BY <1>1, <2>2, <2>3, <2>4 DEF recordAt
  <2>6. Follows(f, g) BY <2>2, <2>4, <2>5 DEF Follows
  <2>7. NotShorter(f, g) BY <2>4 DEF NotShorter
  <2> QED BY <1>3, <2>2, <2>3, <2>6, <2>7 DEF f
<1>5. CASE \E p \in Paths : EndRecord(p)
  <2>1. PICK p \in Paths : EndRecord(p) BY <1>5
  <2> DEFINE f == content[p]
             g == [lines |-> Append(f.lines, f.partial), partial |-> 0]
  <2>2. /\ p \in Existing /\ f \in File /\ f.partial # 0 /\ UNCHANGED <<scan, written>>
        /\ content' = [content EXCEPT ![p] = g]
    BY <1>1, <2>1 DEF EndRecord
  <2>3. g \in File /\ g.lines = Append(f.lines, f.partial) /\ g.partial = 0
    BY <2>2 DEF File
  <2> HIDE DEF f, g
  <2>4. Len(g.lines) = Len(f.lines) + 1 /\ g.lines[Len(f.lines) + 1] = f.partial
        /\ \A i \in 1..Len(f.lines) : g.lines[i] = f.lines[i]
    BY <2>2, <2>3 DEF File
  <2>5. Follows(f, g) /\ NotShorter(f, g)
    BY <2>2, <2>3, <2>4, FileFacts DEF Follows, NotShorter, recordAt
  <2> QED BY <1>3, <2>2, <2>3, <2>5 DEF f
<1>6. CASE \E p \in Paths : Shrink(p)
  <2>1. PICK p \in Paths : Shrink(p) BY <1>6
  <2> DEFINE f == content[p]
             g == [f EXCEPT !.lines = Front(f.lines)]
  <2>2. /\ p \in Existing /\ f \in File /\ f.partial = 0 /\ f.lines # <<>> /\ shrunk'
        /\ UNCHANGED <<scan, written>> /\ content' = [content EXCEPT ![p] = g]
    BY <1>1, <2>1 DEF Shrink
  <2>3. /\ Front(f.lines) \in Seq(Nat) /\ Len(Front(f.lines)) = Len(f.lines) - 1
        /\ \A i \in 1..(Len(f.lines) - 1) : Front(f.lines)[i] = f.lines[i]
    <3>1. f.lines \in Seq(Nat) /\ Len(f.lines) \in Nat \ {0} BY <2>2 DEF File
    <3> HIDE DEF f
    <3> QED BY <3>1 DEF Front
  <2>4. g \in File /\ g.lines = Front(f.lines) /\ g.partial = 0 BY <2>2, <2>3 DEF File
  <2> HIDE DEF f, g
  <2>5. Follows(f, g) BY <2>2, <2>3, <2>4, FileFacts DEF Follows, recordAt
  <2> QED BY <1>3, <2>2, <2>4, <2>5 DEF f
<1>7. CASE \E p, q \in Paths : Rename(p, q)
  <2>1. PICK p \in Paths, q \in Paths : Rename(p, q) BY <1>7
  <2> DEFINE f == content[p]
  <2>2. /\ p \in Existing /\ f \in File /\ q \notin Existing /\ Home[q] = Home[p]
        /\ memory.initialized \/ scanning = 0
        /\ UNCHANGED <<scan, written>>
        /\ content' = Without(Put(q, f), p)
    BY <1>1, <2>1 DEF Rename
  <2>3. q \in Ours BY <1>1, <2>2 DEF Ours
  <2>4. content' = [x \in {q} |-> f]
    <3>1. Existing = {p} /\ q # p BY <1>1, <2>2
    <3> HIDE DEF f
    <3> QED BY <2>2, <3>1 DEF Put, Without
  <2>5. Follows(f, f) /\ NotShorter(f, f) BY <2>2, FileFacts DEF Follows, NotShorter
  <2> QED BY <2>2, <2>3, <2>4, <2>5, FileBecomes
<1>8. CASE \E p, q \in Paths : Copy(p, q) BY <1>8 DEF Copy
<1> QED BY <1>2, <1>4, <1>5, <1>6, <1>7, <1>8 DEF CodexWrites

----------------------------------------------------------------------------
(* The scan.                                                               *)

LEMMA EndFacts ==
    ASSUME NEW f \in File
    PROVE  /\ Behind(f, Size(f)) = {}
           /\ \A i \in Behind(f, EndOfLines(f)) : i = Len(f.lines) + 1 /\ i = count(f)
           /\ EndOfLines(f) \in Nat /\ EndOfLines(f) <= Size(f)
BY FileFacts DEF Behind, EndOfLines

\* The cursor of the thread's file is set, and another one, if there is one, goes.
LEMMA CursorSet ==
    ASSUME OrderInv, NEW p \in Existing, NEW to \in Nat, NEW retired, Known \ retired \subseteq {p},
           memory' = [memory EXCEPT !.offset = Cursors(p, to, retired)],
           UNCHANGED <<content, written>>
    PROVE  /\ StateInv(memory)' /\ position(memory)' = to /\ Known' = {p}
           /\ memory'.initialized = memory.initialized /\ memory'.applied = memory.applied
<1>1. /\ memory \in [initialized : BOOLEAN, offset : Cursor, applied : Seq(Nat)]
      /\ p \in Ours /\ p \in Paths
  BY DEF OrderInv, FilesInv, StateInv, Ours
<1>2. Cursors(p, to, retired) = [q \in {p} |-> to]
  <2>1. (Known \ retired) \cup {p} = {p} OBVIOUS
  <2> QED BY <2>1 DEF Cursors
<1> DEFINE cursor == [q \in {p} |-> to]
<1>3. cursor \in Cursor /\ DOMAIN cursor = {p} /\ cursor[p] = to
  <2>1. cursor \in [{p} -> Nat] /\ {p} \in SUBSET Paths BY <1>1
  <2> HIDE DEF cursor
  <2>2. cursor \in Cursor BY <2>1 DEF Cursor
  <2> QED BY <2>2 DEF cursor
<1>4. memory' = [memory EXCEPT !.offset = cursor] BY <1>2
<1> HIDE DEF cursor
<1>5. /\ memory' \in [initialized : BOOLEAN, offset : Cursor, applied : Seq(Nat)]
      /\ memory'.offset = cursor
      /\ memory'.initialized = memory.initialized /\ memory'.applied = memory.applied
  BY <1>1, <1>3, <1>4
<1>6. StateInv(memory)'
  <2>1. \A i, j \in DOMAIN memory.applied :
          /\ memory.applied[i] <= written
          /\ i < j => memory.applied[i] < memory.applied[j]
    BY DEF OrderInv, StateInv
  <2>2. Existing' # {} BY DEF Existing
  <2> QED BY <1>1, <1>3, <1>5, <2>1, <2>2 DEF StateInv
<1>7. position(memory)' = to
  <2>1. (CHOOSE q \in {p} : TRUE) = p OBVIOUS
  <2> QED BY <1>3, <1>5, <2>1 DEF position
<1> QED BY <1>3, <1>5, <1>6, <1>7 DEF Known

\* A scan reads new, the records between two positions.
LEMMA ScanBecomes ==
    ASSUME OrderInv, memory.initialized, NEW p \in Existing, NEW to \in Nat, NEW retired, NEW new,
           Known \ retired \subseteq {p},
           memory' = [memory EXCEPT !.offset = Cursors(p, to, retired)],
           \A id \in new : \E i \in Behind(content[p], position(memory)) :
                              recordAt(content[p], i) = id,
           to <= Size(content[p]),
           \A i \in Behind(content[p], to) :
               /\ i \in Behind(content[p], position(memory))
               /\ \A id \in new : id < recordAt(content[p], i),
           \A i \in Behind(content[p], position(memory)) :
               i \in Behind(content[p], to) \/ recordAt(content[p], i) \in new,
           batch' = batch \cup {[id |-> id, path |-> p, mirrored |-> FALSE] : id \in new},
           scanning' \in Nat, UNCHANGED <<codexFiles, disk, exempt>>
    PROVE  OrderInv' /\ (LossInv => LossInv')
<1> DEFINE f == content[p]
           from == position(memory)
<1>1. /\ UNCHANGED <<content, written, disk, exempt>>
      /\ Existing = {p} /\ Existing' = {p} /\ written \in Nat
      /\ \A i \in 1..count(f) : recordAt(f, i) \in 1..written
  BY DEF OrderInv, FilesInv, codexFiles, Existing
<1>2. /\ StateInv(memory)' /\ position(memory)' = to /\ Known' = {p}
      /\ memory'.initialized = memory.initialized /\ memory'.applied = memory.applied
  BY <1>1, CursorSet
<1>3. Behind(f, from) \subseteq 1..count(f) BY DEF Behind
<1>4. \A id \in new : id \in 1..written /\ \E i \in Behind(f, from) : recordAt(f, i) = id
  BY <1>1, <1>3
<1>5. /\ Taken' = Taken \cup new
      /\ ToSet(memory'.applied) = ToSet(memory.applied)
  <2> DEFINE added == {[id |-> id, path |-> p, mirrored |-> FALSE] : id \in new}
  <2>1. {ev.id : ev \in added} = new
    <3>1. \A ev \in added : ev.id \in new OBVIOUS
    <3>2. ASSUME NEW id \in new PROVE \E ev \in added : ev.id = id
      <4>1. [id |-> id, path |-> p, mirrored |-> FALSE] \in added
            /\ [id |-> id, path |-> p, mirrored |-> FALSE].id = id OBVIOUS
      <4> QED BY <4>1
    <3> HIDE DEF added
    <3> QED BY <3>1, <3>2
  <2>2. batch' = batch \cup added OBVIOUS
  <2> HIDE DEF added
  <2> QED BY <1>2, <2>1, <2>2 DEF Taken
<1>6. \A i \in Behind(f, from) : \A id \in Taken : id < recordAt(f, i)
  BY <1>1 DEF OrderInv, Ahead
<1>7. FilesInv' BY <1>1 DEF OrderInv, FilesInv
<1>8. StateInv(disk)' BY <1>1 DEF OrderInv, StateInv
<1>9. BatchInv'
  <2>1. \A ev \in batch' : ev \in batch \/ (ev.id \in new /\ ev.path = p /\ ev.mirrored = FALSE
                                           /\ ev = [id |-> ev.id, path |-> p, mirrored |-> FALSE])
    OBVIOUS
  <2>2. \A ev \in batch' : ev.id \in 0..written' /\ ev.mirrored = FALSE
    BY <1>1, <1>4, <2>1 DEF OrderInv, BatchInv
  <2>3. \A ev \in batch, id \in new : ev.id < id
    BY <1>4, <1>6 DEF Taken
  <2>4. \A ev \in batch : ev.id \in Nat BY <1>1 DEF OrderInv, BatchInv
  <2>5. ASSUME NEW ev \in batch', NEW fv \in batch', ev.id = fv.id PROVE ev = fv
    <3>1. CASE ev \in batch /\ fv \in batch BY <2>5, <3>1 DEF OrderInv, BatchInv
    <3>2. CASE ev \in batch /\ fv \notin batch
      <4>1. fv.id \in new BY <2>1, <3>2
      <4> QED BY <2>3, <2>4, <2>5, <3>2, <4>1
    <3>3. CASE ev \notin batch /\ fv \in batch
      <4>1. ev.id \in new BY <2>1, <3>3
      <4> QED BY <2>3, <2>4, <2>5, <3>3, <4>1
    <3>4. CASE ev \notin batch /\ fv \notin batch BY <2>1, <2>5, <3>4
    <3> QED BY <3>1, <3>2, <3>3, <3>4
  <2>6. \A id \in ToSet(memory'.applied), ev \in batch' : id < ev.id
    BY <1>4, <1>5, <1>6, <2>1 DEF OrderInv, BatchInv, Taken
  <2> QED BY <2>2, <2>5, <2>6 DEF BatchInv
<1>10. StartInv' BY <1>1, <1>2 DEF OrderInv, StartInv
<1>11. Ahead(memory, Taken)'
  <2>1. \A i \in Behind(f, to) : \A id \in Taken \cup new : id < recordAt(f, i) BY <1>6
  <2> QED BY <1>1, <1>2, <1>5, <2>1 DEF Ahead
<1>12. Ahead(disk, ToSet(disk.applied))' BY <1>1 DEF OrderInv, Ahead
<1>13. LossInv => LossInv'
  <2> SUFFICES ASSUME LossInv PROVE LossInv' OBVIOUS
  <2>1. \A i \in 1..count(f) : i \in Behind(f, from) \/ recordAt(f, i) \in exempt \cup Taken
    BY DEF LossInv, Covered
  <2>2. \A i \in 1..count(f) :
          i \in Behind(f, to) \/ recordAt(f, i) \in exempt' \cup (Taken \cup new)
    BY <1>1, <2>1
  <2>3. Covered(memory, Taken)' BY <1>1, <1>2, <1>5, <2>2 DEF Covered
  <2>4. Covered(disk, ToSet(disk.applied))' BY <1>1 DEF LossInv, Covered
  <2> QED BY <2>3, <2>4 DEF LossInv
<1> QED BY <1>2, <1>7, <1>8, <1>9, <1>10, <1>11, <1>12, <1>13 DEF OrderInv

\* A file behind its cursor, at its cursor, or beyond.
LEMMA ReadKeeps ==
    ASSUME OrderInv, memory.initialized, NEW p \in Existing, NEW retired,
           Known \ retired \subseteq {p},
           ReadFrom(p, position(memory), retired, FALSE),
           scanning' \in Nat, UNCHANGED <<codexFiles, disk, exempt>>
    PROVE  OrderInv' /\ (LossInv => LossInv')
<1> DEFINE f == content[p]
           from == position(memory)
<1>1. f \in File /\ from \in Nat BY PositionFacts DEF OrderInv, FilesInv
<1>2. /\ Len(f.lines) \in Nat /\ Size(f) \in Nat /\ count(f) \in Nat
      /\ \A i, j \in 1..count(f) : i < j => recordAt(f, i) < recordAt(f, j)
      /\ Behind(f, from) \subseteq 1..count(f)
  BY <1>1, FileFacts DEF OrderInv, FilesInv, Behind
<1>3. CASE Size(f) <= from /\ UNCHANGED batch
           /\ memory' = [memory EXCEPT !.offset = Cursors(p, Size(f), retired)]
  <2>1. Behind(f, Size(f)) = {} BY <1>1, EndFacts
  <2>2. Behind(f, from) = {}
    <3> SUFFICES ASSUME NEW i \in Behind(f, from) PROVE FALSE OBVIOUS
    <3>1. i \in 1..count(f) /\ 2 * (i - 1) >= from BY DEF Behind
    <3>2. i \in Behind(f, Size(f)) BY <1>1, <1>2, <1>3, <3>1 DEF Behind
    <3> QED BY <2>1, <3>2
  <2>3. batch' = batch \cup {[id |-> id, path |-> p, mirrored |-> FALSE] : id \in {}}
    BY <1>3
  <2>4. Size(f) \in Nat /\ Size(f) <= Size(f) BY <1>2
  <2> HIDE DEF f, from
  <2> QED BY <1>3, <2>1, <2>2, <2>3, <2>4, ScanBecomes DEF f, from
<1>4. CASE Size(f) > from
           /\ memory' = [memory EXCEPT !.offset = Cursors(p, EndOfLines(f), retired)]
           /\ batch' = batch \cup {[id |-> id, path |-> p, mirrored |-> FALSE] :
                                     id \in LinesBehind(f, from)}
  <2> DEFINE new == LinesBehind(f, from)
             to == EndOfLines(f)
  <2>1. to \in Nat /\ to <= Size(f) /\ to = 2 * Len(f.lines)
    BY <1>1, EndFacts DEF EndOfLines
  <2>2. \A i \in 1..Len(f.lines) : i \in 1..count(f) /\ recordAt(f, i) = f.lines[i]
    BY <1>1, FileFacts DEF recordAt
  <2>3. \A id \in new : \E i \in Behind(f, from) : recordAt(f, i) = id /\ i <= Len(f.lines)
    BY <1>2, <2>2 DEF LinesBehind, Behind
  <2>4. ASSUME NEW i \in Behind(f, to)
        PROVE  i \in Behind(f, from) /\ \A id \in new : id < recordAt(f, i)
    <3>1. i = Len(f.lines) + 1 /\ i = count(f) BY <1>1, <2>4, EndFacts
    <3>2. i \in Behind(f, from)
      <4>1. Size(f) <= 2 * Len(f.lines) + 1 BY <1>1, <1>2, FileFacts
      <4>2. i \in 1..count(f) BY <2>4 DEF Behind
      <4> QED BY <1>1, <1>2, <1>4, <3>1, <4>1, <4>2 DEF Behind
    <3>3. \A id \in new : id < recordAt(f, i) BY <1>2, <2>3, <3>1, <3>2
    <3> QED BY <3>2, <3>3
  <2>5. ASSUME NEW i \in Behind(f, from)
        PROVE  i \in Behind(f, to) \/ recordAt(f, i) \in new
    <3>1. i \in 1..count(f) /\ 2 * (i - 1) >= from BY DEF Behind
    <3>2. CASE i <= Len(f.lines)
      <4>1. i \in {k \in 1..Len(f.lines) : 2 * (k - 1) >= from} BY <1>2, <3>1, <3>2
      <4> QED BY <2>2, <4>1 DEF LinesBehind
    <3>3. CASE ~(i <= Len(f.lines))
      BY <1>2, <2>1, <3>1, <3>3 DEF Behind
    <3> QED BY <3>2, <3>3
  <2>6. \A id \in new : \E i \in Behind(f, from) : recordAt(f, i) = id BY <2>3
  <2>7. memory' = [memory EXCEPT !.offset = Cursors(p, to, retired)]
        /\ batch' = batch \cup {[id |-> id, path |-> p, mirrored |-> FALSE] : id \in new}
    BY <1>4
  <2> HIDE DEF f, from, to, new
  <2> QED BY <2>1, <2>4, <2>5, <2>6, <2>7, ScanBecomes DEF f, from
<1> QED BY <1>3, <1>4 DEF ReadFrom

\* What the first walk finds is history.
LEMMA BaselineKeeps ==
    ASSUME OrderInv, ~memory.initialized, NEW p \in Existing, Baseline(p),
           scanning' \in Nat \ {0}, UNCHANGED <<codexFiles, disk>>
    PROVE  OrderInv' /\ (LossInv => LossInv')
<1> DEFINE f == content[p]
<1>1. /\ UNCHANGED <<content, written, disk, batch>>
      /\ Existing = {p} /\ Existing' = {p} /\ f \in File
      /\ memory' = [memory EXCEPT !.offset = Cursors(p, Size(f), {})]
      /\ exempt' = exempt \cup ToSet(f.lines) \cup ({f.partial} \ {0})
  BY DEF OrderInv, FilesInv, codexFiles, Existing, Baseline
<1>2. /\ StateInv(memory)' /\ position(memory)' = Size(f) /\ Known' = {p}
      /\ memory'.initialized = memory.initialized /\ memory'.applied = memory.applied
  <2>1. Known \ {} \subseteq {p} BY <1>1 DEF OrderInv, StartInv
  <2>2. Size(f) \in Nat BY <1>1, FileFacts
  <2> QED BY <1>1, <2>1, <2>2, CursorSet
<1>3. Behind(f, Size(f)) = {} /\ Size(f) <= Size(f) BY <1>1, EndFacts, FileFacts
<1>4. Taken' = Taken BY <1>1, <1>2 DEF Taken
<1>5. FilesInv' /\ StateInv(disk)' BY <1>1 DEF OrderInv, FilesInv, StateInv
<1>6. BatchInv' BY <1>1, <1>2 DEF OrderInv, BatchInv
<1>7. StartInv' BY <1>1, <1>2 DEF OrderInv, StartInv
<1>8. Ahead(memory, Taken)' BY <1>1, <1>2, <1>3, <1>4 DEF Ahead
<1>9. Ahead(disk, ToSet(disk.applied))' BY <1>1 DEF OrderInv, Ahead
<1>10. LossInv => LossInv'
  <2> SUFFICES ASSUME LossInv PROVE LossInv' OBVIOUS
  <2>1. \A i \in 1..count(f) : recordAt(f, i) \in exempt'
    <3> SUFFICES ASSUME NEW i \in 1..count(f) PROVE recordAt(f, i) \in exempt' OBVIOUS
    <3>1. Len(f.lines) \in Nat /\ DOMAIN f.lines = 1..Len(f.lines) BY <1>1 DEF File
    <3>2. CASE i <= Len(f.lines)
      BY <1>1, <3>1, <3>2 DEF recordAt, ToSet
    <3>3. CASE ~(i <= Len(f.lines))
      BY <1>1, <3>1, <3>3, FileFacts DEF recordAt
    <3> QED BY <3>2, <3>3
  <2>2. Covered(memory, Taken)' BY <1>1, <1>2, <1>3, <2>1 DEF Covered
  <2>3. Covered(disk, ToSet(disk.applied))' BY <1>1 DEF LossInv, Covered
  <2> QED BY <2>2, <2>3 DEF LossInv
<1> QED BY <1>2, <1>5, <1>6, <1>7, <1>8, <1>9, <1>10 DEF OrderInv

\* Each file of the walk: none, the baseline, or what lies behind its cursor.
LEMMA ScanPathKeeps ==
    ASSUME OrderInv, ScanPath
    PROVE  OrderInv' /\ (LossInv => LossInv')
<1> DEFINE p == Walk[scanning + 1]
<1>1. /\ scanning' = scanning + 1 /\ scanning' \in Nat \ {0} /\ p \in Paths
      /\ UNCHANGED <<codexFiles, disk>>
  <2>1. scanning \in Nat /\ scanning < Len(Walk) BY DEF OrderInv, StartInv, ScanPath
  <2>2. Walk \in Seq(Paths) BY RolloutsAssumption
  <2> QED BY <2>1, <2>2 DEF ScanPath
<1>2. \A q \in Known : Known = {q} /\ q \in Ours /\ position(memory) = memory.offset[q]
  BY PositionFacts DEF OrderInv, StateInv, Known
<1>3. CASE p \notin Existing /\ UNCHANGED <<memory, batch, exempt>>
  <2>1. UNCHANGED <<content, written>> BY <1>1 DEF codexFiles
  <2>2. FilesInv' /\ StateInv(memory)' /\ StateInv(disk)' /\ BatchInv'
    BY <1>1, <1>3, <2>1 DEF OrderInv, FilesInv, StateInv, BatchInv, Existing
  <2>3. StartInv' BY <1>1, <1>3, <2>1 DEF OrderInv, StartInv, Known, Existing
  <2>4. Taken' = Taken BY <1>3 DEF Taken
  <2>5. Ahead(memory, Taken)' /\ Ahead(disk, ToSet(disk.applied))'
    BY <1>1, <1>3, <2>1, <2>4 DEF OrderInv, Ahead, Existing
  <2>6. LossInv => LossInv' BY <1>1, <1>3, <2>1, <2>4 DEF LossInv, Covered, Existing
  <2> QED BY <2>2, <2>3, <2>5, <2>6 DEF OrderInv
<1>4. CASE p \in Existing /\ ~memory.initialized /\ Baseline(p)
  BY <1>1, <1>4, BaselineKeeps
<1>5. CASE /\ p \in Existing /\ memory.initialized
           /\ IF p \in Known THEN ReadFrom(p, memory.offset[p], {}, FALSE) ELSE ScanUnknown(p)
           /\ UNCHANGED exempt
  <2>1. p \in Ours BY <1>5 DEF OrderInv, FilesInv
  <2>2. PICK retired : Known \ retired \subseteq {p}
                       /\ ReadFrom(p, position(memory), retired, FALSE)
    <3>1. CASE p \in Known
      <4>1. Known \ {} \subseteq {p} BY <1>2, <3>1
      <4> QED BY <1>2, <1>5, <3>1, <4>1
    <3>2. CASE p \notin Known
      <4>1. MigrationSources(p) = Known BY <1>2, <2>1, <3>2 DEF MigrationSources, Ours
      <4>2. CASE Known = {}
        <5>1. position(memory) = 0 BY <4>2 DEF position, Known
        <5>2. ReadFrom(p, 0, {}, FALSE) /\ Known \ {} \subseteq {p}
          BY <1>5, <3>2, <4>1, <4>2 DEF ScanUnknown
        <5> QED BY <5>1, <5>2
      <4>3. CASE Known # {}
        <5>1. PICK q \in Known : ReadFrom(p, memory.offset[q], {q}, FALSE)
          BY <1>5, <3>2, <4>1, <4>3 DEF ScanUnknown
        <5>2. Known \ {q} \subseteq {p} BY <1>2, <5>1
        <5> QED BY <1>2, <5>1, <5>2
      <4> QED BY <4>2, <4>3
    <3> QED BY <3>1, <3>2
  <2> QED BY <1>1, <1>5, <2>2, ReadKeeps
<1> QED BY <1>3, <1>4, <1>5 DEF ScanPath

----------------------------------------------------------------------------
(* The end of a tick, and of a process.                                    *)

\* A sequence that rises, continued by larger numbers.
LEMMA SortedConcat ==
    ASSUME NEW s \in Seq(Nat), NEW t \in Seq(Nat), NEW bound \in Nat,
           \A i, j \in 1..Len(s) : s[i] <= bound /\ (i < j => s[i] < s[j]),
           \A i, j \in 1..Len(t) : t[i] <= bound /\ (i < j => t[i] < t[j]),
           \A i \in 1..Len(s), j \in 1..Len(t) : s[i] < t[j]
    PROVE  /\ s \o t \in Seq(Nat)
           /\ ToSet(s \o t) = {s[i] : i \in 1..Len(s)} \cup {t[i] : i \in 1..Len(t)}
           /\ \A i, j \in DOMAIN (s \o t) :
                 (s \o t)[i] <= bound /\ (i < j => (s \o t)[i] < (s \o t)[j])
<1> DEFINE r == s \o t
           k == Len(s)
           n == Len(t)
<1>1. k \in Nat /\ n \in Nat OBVIOUS
<1>2. /\ r \in Seq(Nat) /\ Len(r) = k + n
      /\ \A i \in 1..(k + n) : r[i] = IF i <= k THEN s[i] ELSE t[i - k]
  BY ConcatProperties
<1>3. DOMAIN r = 1..(k + n) BY <1>2
<1> HIDE DEF r
<1>4. \A i \in 1..k : i \in 1..(k + n) /\ r[i] = s[i] BY <1>1, <1>2
<1>5. ASSUME NEW i \in 1..n PROVE k + i \in 1..(k + n) /\ r[k + i] = t[i]
  <2> HIDE DEF k, n
  <2>1. k + i \in 1..(k + n) /\ ~(k + i <= k) /\ (k + i) - k = i BY <1>1
  <2> QED BY <1>2, <2>1
<1>6. \A i \in 1..(k + n) : i \in 1..k \/ (i - k \in 1..n /\ i = k + (i - k)) BY <1>1
<1>7. /\ \A i \in 1..k : s[i] \in Nat
      /\ \A i \in 1..n : t[i] \in Nat
  OBVIOUS
<1>8. ToSet(r) = {s[i] : i \in 1..k} \cup {t[i] : i \in 1..n}
  <2>1. ToSet(r) = {r[i] : i \in 1..(k + n)} BY <1>3 DEF ToSet
  <2> HIDE DEF k, n
  <2>2. ToSet(r) \subseteq {s[i] : i \in 1..k} \cup {t[i] : i \in 1..n}
    <3> SUFFICES ASSUME NEW i \in 1..(k + n)
                 PROVE  r[i] \in {s[j] : j \in 1..k} \cup {t[j] : j \in 1..n}
      BY <2>1
    <3>1. CASE i \in 1..k BY <1>4, <3>1
    <3>2. CASE i - k \in 1..n /\ i = k + (i - k) BY <1>5, <3>2
    <3> QED BY <1>6, <3>1, <3>2
  <2>3. {s[i] : i \in 1..k} \subseteq ToSet(r) BY <1>4, <2>1
  <2>4. {t[i] : i \in 1..n} \subseteq ToSet(r) BY <1>5, <2>1
  <2> QED BY <2>2, <2>3, <2>4
<1>9. ASSUME NEW i \in 1..(k + n), NEW j \in 1..(k + n)
      PROVE  r[i] <= bound /\ (i < j => r[i] < r[j])
  <2>1. CASE i \in 1..k /\ j \in 1..k BY <1>4, <2>1
  <2>2. CASE i \in 1..k /\ j - k \in 1..n /\ j = k + (j - k)
    <3>1. r[i] = s[i] /\ r[j] = t[j - k] BY <1>4, <1>5, <2>2
    <3>2. s[i] <= bound /\ s[i] < t[j - k] BY <2>2
    <3> QED BY <3>1, <3>2
  <2>3. CASE i - k \in 1..n /\ i = k + (i - k) /\ j \in 1..k
    <3>1. r[i] = t[i - k] /\ ~(i < j) BY <1>1, <1>5, <2>3
    <3>2. t[i - k] <= bound BY <2>3
    <3> QED BY <3>1, <3>2
  <2>4. CASE i - k \in 1..n /\ i = k + (i - k) /\ j - k \in 1..n /\ j = k + (j - k)
    <3>1. r[i] = t[i - k] /\ r[j] = t[j - k] BY <1>5, <2>4
    <3>2. i < j => i - k < j - k BY <1>1
    <3>3. t[i - k] <= bound /\ (i - k < j - k => t[i - k] < t[j - k]) BY <2>4
    <3> QED BY <3>1, <3>2, <3>3
  <2> QED BY <1>6, <2>1, <2>2, <2>3, <2>4
<1> QED BY <1>2, <1>3, <1>8, <1>9 DEF r

\* What a tick applies is what the walk has read, in the order of its numbers.
LEMMA AppliedFacts ==
    ASSUME OrderInv, NEW applied,
           applied = LET events == InOrder({ev \in batch : Worth(ev)})
                     IN  memory.applied \o [i \in DOMAIN events |-> events[i].id]
    PROVE  /\ applied \in Seq(Nat) /\ ToSet(applied) = Taken
           /\ \A i, j \in DOMAIN applied :
                 applied[i] <= written /\ (i < j => applied[i] < applied[j])
<1> DEFINE events == InOrder(batch)
           ids == [i \in DOMAIN events |-> events[i].id]
           old == memory.applied
           n == Cardinality(batch)
<1>1. /\ written \in Nat /\ \A ev \in batch : ev.id \in 0..written /\ ev.id \in Nat
      /\ \A ev, fv \in batch : ev.id = fv.id => ev = fv
      /\ \A id \in ToSet(old), ev \in batch : id < ev.id
  BY DEF OrderInv, FilesInv, BatchInv
<1>2. {ev \in batch : Worth(ev)} = batch BY DEF OrderInv, BatchInv, Worth
<1>3. IsFiniteSet(batch)
  <2> DEFINE number == [ev \in batch |-> ev.id]
  <2>1. number \in Injection(batch, 0..written) BY <1>1 DEF Injection, IsInjective
  <2>2. IsFiniteSet(0..written) BY <1>1, FS_Interval
  <2> HIDE DEF number
  <2> QED BY <2>1, <2>2, FS_Injection
<1>4. /\ events \in [1..n -> batch] /\ n \in Nat
      /\ \A ev \in batch : \E i \in DOMAIN events : events[i] = ev
      /\ \A i, j \in DOMAIN events : i < j => events[i].id < events[j].id
  BY <1>1, <1>3, InOrderFacts
<1>5. applied = old \o ids BY <1>2
<1> HIDE DEF events, n
<1>6. DOMAIN events = 1..n BY <1>4
<1>7. /\ ids \in [1..n -> Nat] /\ Len(ids) = n /\ ids \in Seq(Nat) /\ DOMAIN ids = 1..n
      /\ \A i \in 1..n : events[i] \in batch /\ ids[i] = events[i].id
  BY <1>1, <1>4, <1>6
<1>8. \A i, j \in 1..n : i < j => ids[i] < ids[j] BY <1>4, <1>6, <1>7
<1>9. /\ \A i \in 1..n : ids[i] <= written /\ ids[i] \in Nat /\ ids[i] \in {ev.id : ev \in batch}
      /\ \A id \in ToSet(old), i \in 1..n : id < ids[i]
  BY <1>1, <1>7
<1>10. {ev.id : ev \in batch} = {ids[i] : i \in 1..n}
  BY <1>4, <1>6, <1>7
<1>11. /\ old \in Seq(Nat) /\ Len(old) \in Nat /\ DOMAIN old = 1..Len(old)
       /\ \A i \in 1..Len(old) : old[i] \in ToSet(old) /\ old[i] \in Nat
       /\ \A i, j \in 1..Len(old) : old[i] <= written /\ (i < j => old[i] < old[j])
       /\ ToSet(old) = {old[i] : i \in 1..Len(old)}
  BY DEF OrderInv, StateInv, ToSet
<1> HIDE DEF ids, old
<1>12. /\ applied \in Seq(Nat)
       /\ ToSet(applied) = {old[i] : i \in 1..Len(old)} \cup {ids[i] : i \in 1..n}
       /\ \A i, j \in DOMAIN applied :
             applied[i] <= written /\ (i < j => applied[i] < applied[j])
  <2>1. ids \in Seq(Nat) /\ Len(ids) = n /\ old \in Seq(Nat) /\ written \in Nat
    BY <1>1, <1>7, <1>11
  <2>2. \A i, j \in 1..Len(old) : old[i] <= written /\ (i < j => old[i] < old[j])
    BY <1>11
  <2>3. \A i, j \in 1..Len(ids) : ids[i] <= written /\ (i < j => ids[i] < ids[j])
    BY <1>8, <1>9, <2>1
  <2>4. \A i \in 1..Len(old), j \in 1..Len(ids) : old[i] < ids[j]
    BY <1>9, <1>11, <2>1
  <2>5. /\ old \o ids \in Seq(Nat)
        /\ ToSet(old \o ids) = {old[i] : i \in 1..Len(old)} \cup {ids[i] : i \in 1..Len(ids)}
        /\ \A i, j \in DOMAIN (old \o ids) :
              (old \o ids)[i] <= written /\ (i < j => (old \o ids)[i] < (old \o ids)[j])
    BY <2>1, <2>2, <2>3, <2>4, SortedConcat
  <2> QED BY <1>5, <2>1, <2>5
<1>13. ToSet(applied) = Taken BY <1>10, <1>11, <1>12 DEF Taken, old
<1> QED BY <1>12, <1>13

LEMMA TickEndsKeeps ==
    ASSUME OrderInv, NEW saved, TickEnds(saved)
    PROVE  OrderInv' /\ (LossInv => LossInv')
<1> DEFINE applied == LET events == InOrder({ev \in batch : Worth(ev)})
                      IN  memory.applied \o [i \in DOMAIN events |-> events[i].id]
<1>1. /\ applied \in Seq(Nat) /\ ToSet(applied) = Taken
      /\ \A i, j \in DOMAIN applied :
            applied[i] <= written /\ (i < j => applied[i] < applied[j])
  BY AppliedFacts
<1>2. /\ memory' = [memory EXCEPT !.initialized = TRUE, !.applied = applied]
      /\ disk' \in {memory', disk} /\ batch' = {} /\ scanning' = 0
      /\ UNCHANGED <<content, written, exempt>>
  BY DEF TickEnds, Persist, codexFiles
<1> HIDE DEF applied
<1>3. memory \in [initialized : BOOLEAN, offset : Cursor, applied : Seq(Nat)]
  BY DEF OrderInv, StateInv
<1>4. /\ memory' \in [initialized : BOOLEAN, offset : Cursor, applied : Seq(Nat)]
      /\ memory'.initialized /\ memory'.applied = applied /\ memory'.offset = memory.offset
  BY <1>1, <1>2, <1>3
<1>5. Existing' = Existing /\ Known' = Known BY <1>2, <1>4 DEF Existing, Known
<1>6. FilesInv' BY <1>2, <1>5 DEF OrderInv, FilesInv
<1>7. StateInv(memory)'
  <2>1. /\ \A p, q \in DOMAIN memory.offset : p = q /\ p \in Ours
        /\ Existing = {} => DOMAIN memory.offset = {}
    BY DEF OrderInv, StateInv
  <2> QED BY <1>1, <1>2, <1>4, <1>5, <2>1 DEF StateInv
<1>8. Taken' = Taken /\ ToSet(memory'.applied) = Taken BY <1>1, <1>2, <1>4 DEF Taken
<1>9. position(memory)' = position(memory) BY <1>4 DEF position
<1>10. Ahead(memory, Taken)' /\ (LossInv => Covered(memory, Taken)')
  BY <1>2, <1>5, <1>8, <1>9 DEF OrderInv, Ahead, LossInv, Covered
<1>11. BatchInv' BY <1>2 DEF BatchInv
<1>12. StartInv' BY <1>2, <1>4 DEF OrderInv, StartInv
<1>13. StateInv(disk)' /\ Ahead(disk, ToSet(disk.applied))'
       /\ (LossInv => Covered(disk, ToSet(disk.applied))')
  <2>1. CASE disk' = memory'
    <3>1. StateInv(disk)' BY <1>7, <2>1 DEF StateInv
    <3>2. position(disk)' = position(memory)' /\ ToSet(disk'.applied) = Taken'
      BY <1>8, <2>1 DEF position
    <3>3. Ahead(disk, ToSet(disk.applied))' BY <1>10, <3>2 DEF Ahead
    <3>4. LossInv => Covered(disk, ToSet(disk.applied))' BY <1>10, <3>2 DEF Covered
    <3> QED BY <3>1, <3>3, <3>4
  <2>2. CASE disk' = disk
    BY <1>2, <1>5, <2>2 DEF OrderInv, StateInv, Ahead, position, LossInv, Covered
  <2> QED BY <1>2, <2>1, <2>2
<1> QED BY <1>6, <1>7, <1>10, <1>11, <1>12, <1>13 DEF OrderInv, LossInv

\* The process ends, and the next one has what state.json has.
LEMMA ForgetKeeps ==
    ASSUME OrderInv, ForgetMemory
    PROVE  OrderInv' /\ (LossInv => LossInv')
<1>1. /\ memory' = disk /\ disk' = disk /\ scanning' = 0 /\ batch' = {}
      /\ UNCHANGED <<content, written>>
      /\ exempt' = IF disk.initialized THEN exempt ELSE {}
  BY DEF ForgetMemory, codexFiles
<1>2. Existing' = Existing BY <1>1 DEF Existing
<1>3. Taken' = ToSet(disk.applied) /\ position(memory)' = position(disk)
      /\ position(disk)' = position(disk)
  BY <1>1 DEF Taken, position
<1>4. FilesInv' BY <1>1, <1>2 DEF OrderInv, FilesInv
<1>5. StateInv(memory)' /\ StateInv(disk)' BY <1>1, <1>2 DEF OrderInv, StateInv
<1>6. BatchInv' BY <1>1 DEF BatchInv
<1>7. StartInv' BY <1>1 DEF OrderInv, StartInv, Known
<1>8. Ahead(memory, Taken)' /\ Ahead(disk, ToSet(disk.applied))'
  BY <1>1, <1>2, <1>3 DEF OrderInv, Ahead
<1>9. LossInv => LossInv'
  <2> SUFFICES ASSUME LossInv PROVE LossInv' OBVIOUS
  <2>1. CASE disk.initialized
    BY <1>1, <1>2, <1>3, <2>1 DEF LossInv, Covered
  <2>2. CASE ~disk.initialized
    <3>1. position(disk) = 0 BY <2>2 DEF OrderInv, StartInv, position
    <3>2. ASSUME NEW p \in Existing
          PROVE  0 <= Size(content[p]) /\ \A i \in 1..count(content[p]) : i \in Behind(content[p], 0)
      <4>1. content[p] \in File BY DEF OrderInv, FilesInv
      <4> QED BY <4>1, FileFacts DEF Behind
    <3> QED BY <1>1, <1>2, <1>3, <3>1, <3>2 DEF LossInv, Covered
  <2> QED BY <2>1, <2>2
<1> QED BY <1>4, <1>5, <1>6, <1>7, <1>8, <1>9 DEF OrderInv

LEMMA IdleKeeps ==
    ASSUME OrderInv, UNCHANGED <<content, written, memory, disk, scanning, batch, exempt>>
    PROVE  OrderInv' /\ (LossInv => LossInv')
<1>1. Existing' = Existing /\ Known' = Known /\ Taken' = Taken
      /\ position(memory)' = position(memory) /\ position(disk)' = position(disk)
  BY DEF Existing, Known, Taken, position
<1>2. FilesInv' BY <1>1 DEF OrderInv, FilesInv
<1>3. StateInv(memory)' /\ StateInv(disk)' BY <1>1 DEF OrderInv, StateInv
<1>4. BatchInv' /\ StartInv' BY <1>1 DEF OrderInv, BatchInv, StartInv
<1>5. Ahead(memory, Taken)' /\ Ahead(disk, ToSet(disk.applied))' BY <1>1 DEF OrderInv, Ahead
<1>6. LossInv => LossInv' BY <1>1 DEF LossInv, Covered
<1> QED BY <1>2, <1>3, <1>4, <1>5, <1>6 DEF OrderInv

----------------------------------------------------------------------------
(* All steps.                                                              *)

LEMMA ScanInitially == Init => ScanInv
<1> SUFFICES ASSUME Init PROVE OrderInv /\ LossInv BY DEF ScanInv
<1>1. /\ content = <<>> /\ written = 0 /\ memory = NewState /\ disk = NewState
      /\ scanning = 0 /\ batch = {}
  BY DEF Init, RolloutsInit
<1>2. Existing = {} /\ DOMAIN memory.offset = {} /\ DOMAIN disk.offset = {} /\ Known = {}
  BY <1>1 DEF Existing, Known, NewState
<1>3. content \in [Existing -> File]
  <2>1. content = [x \in Existing |-> 0] BY <1>1, <1>2
  <2> QED BY <1>2, <2>1
<1>4. NewState \in [initialized : BOOLEAN, offset : Cursor, applied : Seq(Nat)]
  <2>1. <<>> \in [{} -> Nat] /\ {} \in SUBSET Paths OBVIOUS
  <2>2. <<>> \in Cursor BY <2>1 DEF Cursor
  <2> QED BY <2>2 DEF NewState
<1>5. StateInv(memory) /\ StateInv(disk) BY <1>1, <1>2, <1>4 DEF StateInv, NewState
<1>6. FilesInv BY <1>1, <1>2, <1>3 DEF FilesInv
<1>7. BatchInv /\ StartInv BY <1>1, <1>2 DEF BatchInv, StartInv, NewState
<1>8. OrderInv BY <1>2, <1>5, <1>6, <1>7 DEF OrderInv, Ahead
<1>9. LossInv BY <1>2 DEF LossInv, Covered
<1> QED BY <1>8, <1>9

LEMMA ScanKeeps == TurnFiles = {} /\ ScanInv /\ [Next]_vars => ScanInv'
<1> SUFFICES ASSUME TurnFiles = {}, ScanInv, [Next]_vars, ~copied' PROVE ScanInv'
  BY DEF ScanInv
<1>1. CASE CodexWrites \/ \E p \in Paths : EndRecord(p)
  <2>1. ~copied /\ (shrunk => shrunk')
    <3>1. CASE \E p \in Paths : CreateFile(p) \/ BeginRecord(p) \/ Shrink(p) \/ EndRecord(p)
      BY <3>1 DEF CreateFile, BeginRecord, Shrink, EndRecord
    <3>2. CASE \E p, q \in Paths : Rename(p, q) \/ Copy(p, q) BY <3>2 DEF Rename, Copy
    <3> QED BY <1>1, <3>1, <3>2 DEF CodexWrites
  <2>2. OrderInv /\ (shrunk \/ LossInv) BY <2>1 DEF ScanInv
  <2>3. OrderInv' /\ (LossInv /\ ~shrunk' => LossInv') BY <1>1, <2>2, CodexKeeps
  <2> QED BY <2>1, <2>2, <2>3 DEF ScanInv
<1>2. ASSUME OrderInv => OrderInv' /\ (LossInv => LossInv'), UNCHANGED <<copied, shrunk>>
      PROVE  ScanInv'
  BY <1>2 DEF ScanInv
<1>3. CASE UNCHANGED rolloutVars BY <1>2, <1>3, IdleKeeps DEF rolloutVars
<1>4. CASE LoadState BY <1>2, <1>4, IdleKeeps DEF LoadState, codexFiles
<1>5. CASE ForgetMemory
  <2>1. UNCHANGED <<copied, shrunk>> BY <1>5 DEF ForgetMemory, codexFiles
  <2> QED BY <1>2, <1>5, <2>1, ForgetKeeps
<1>6. CASE ScanPath
  <2>1. UNCHANGED <<copied, shrunk>> BY <1>6 DEF ScanPath, codexFiles
  <2> QED BY <1>2, <1>6, <2>1, ScanPathKeeps
<1>7. CASE \E saved \in BOOLEAN : TickEnds(saved)
  <2>1. UNCHANGED <<copied, shrunk>> BY <1>7 DEF TickEnds, codexFiles
  <2> QED BY <1>2, <1>7, <2>1, TickEndsKeeps
<1>8. CASE UNCHANGED vars BY <1>3, <1>8 DEF vars
<1>9. CASE Next
  BY <1>1, <1>3, <1>4, <1>5, <1>6, <1>7, <1>9
     DEF Next, WorkerMoves, WorkerIsLeft, SaveFails, WorkerEnds
<1> QED BY <1>8, <1>9

LEMMA ScanInvHolds == TurnFiles = {} => (Spec => []ScanInv)
<1> SUFFICES ASSUME TurnFiles = {} PROVE Spec => []ScanInv OBVIOUS
<1>1. ScanInv /\ [Next]_vars => ScanInv' BY ScanKeeps
<1> QED BY <1>1, ScanInitially, PTL DEF Spec

\* Whether the file has the cursor or its earlier name has it.
LEMMA ReadsBehind ==
    ASSUME OrderInv, NEW p \in Existing
    PROVE  ReadPosition(p) = position(memory)
<1>1. p \in Ours BY DEF OrderInv, FilesInv
<1>2. \A q \in Known : Known = {q} /\ q \in Ours /\ position(memory) = memory.offset[q]
  BY PositionFacts DEF OrderInv, StateInv, Known
<1>3. CASE p \in Known BY <1>2, <1>3 DEF ReadPosition
<1>4. CASE p \notin Known
  <2>1. MigrationSources(p) = Known BY <1>1, <1>2, <1>4 DEF MigrationSources, Ours
  <2>2. CASE Known = {} BY <1>4, <2>1, <2>2 DEF ReadPosition, position, Known
  <2>3. ASSUME NEW q \in Known PROVE ReadPosition(p) = position(memory)
    <3>1. MigrationSources(p) = {q} BY <1>2, <2>1
    <3>2. (CHOOSE x \in {q} : TRUE) = q OBVIOUS
    <3> QED BY <1>2, <1>4, <3>1, <3>2 DEF ReadPosition
  <2> QED BY <2>2, <2>3
<1> QED BY <1>3, <1>4

\* No completed record of the thread's file is lost by readAppendedEvents, however
\* often the worker crashes, a save fails or Codex renames the file: it is history of
\* the baseline, was applied, is in the running scan, or lies behind the cursor.
\* (Where every turn has a file of its own, migrateFileCursor breaks this.)
THEOREM NoRecordSkippedHolds == TurnFiles = {} => (Spec => []NoRecordSkipped)
<1> SUFFICES ASSUME TurnFiles = {} PROVE Spec => []NoRecordSkipped OBVIOUS
<1>1. ScanInv => NoRecordSkipped
  <2> SUFFICES ASSUME OrderInv, LossInv PROVE EveryRecordAccounted
    BY DEF ScanInv, NoRecordSkipped
  <2> SUFFICES ASSUME NEW p \in Existing, NEW i \in 1..Len(content[p].lines)
               PROVE  \/ content[p].lines[i]
                            \in exempt \cup ToSet(memory.applied) \cup {ev.id : ev \in batch}
                      \/ 2 * (i - 1) >= ReadPosition(p)
    BY DEF EveryRecordAccounted
  <2>1. content[p] \in File BY DEF OrderInv, FilesInv
  <2>2. i \in 1..count(content[p]) /\ recordAt(content[p], i) = content[p].lines[i]
    BY <2>1, FileFacts DEF recordAt
  <2>3. i \in Behind(content[p], position(memory)) \/ content[p].lines[i] \in exempt \cup Taken
    BY <2>2 DEF LossInv, Covered
  <2> QED BY <2>3, ReadsBehind DEF Behind, Taken
<1> QED BY <1>1, ScanInvHolds, PTL

\* No record is applied twice, and none after a newer one, across crashes, failed
\* saves, renamed and rewritten files: cursors and effects are saved in one write
\* (persistStateLocked).
THEOREM AppliedOnceInOrderHolds == TurnFiles = {} => (Spec => []AppliedOnceInOrder)
<1> SUFFICES ASSUME TurnFiles = {} PROVE Spec => []AppliedOnceInOrder OBVIOUS
<1>1. ScanInv => AppliedOnceInOrder BY DEF ScanInv, OrderInv, StateInv, AppliedOnceInOrder
<1> QED BY <1>1, ScanInvHolds, PTL

----------------------------------------------------------------------------
(* Copies under another home.  There is one at most, Codex leaves it as it  *)
(* is, and the first scan that meets it reads it to its end.                *)

Abroad == Paths \ Ours

\* The cursor of a copy stands at its end; without a cursor nothing was applied.
Copied(s) ==
    /\ s \in [initialized : BOOLEAN, offset : Cursor, applied : Seq(Nat)]
    /\ \A p \in DOMAIN s.offset \cap Abroad : p \in Existing /\ s.offset[p] = Size(content[p])
    /\ DOMAIN s.offset = {} => s.applied = <<>>

CopyInv ==
    /\ written \in Nat /\ scanning \in Nat
    /\ Existing \subseteq Paths /\ \A p \in Existing : content[p] \in File
    /\ \A p, q \in Existing \cap Abroad : p = q /\ copied /\ content[p].partial = 0
    /\ Copied(memory) /\ Copied(disk)
    /\ Len(disk.applied) <= Len(memory.applied)

\* What the running scan has read of a copy is marked, unless it is the first to apply
\* anything.
MirrorsMarked ==
    /\ IsFiniteSet(batch) /\ \A ev \in batch : ev.id \in Nat
    /\ Known = {} => batch = {}
    /\ \A ev \in batch : ev.path \in Abroad => ev.mirrored \/ memory.applied = <<>>
    /\ \A ev \in batch : ev.path \in Paths

\* What a step applies.
Added == SubSeq(memory'.applied, Len(memory.applied) + 1, Len(memory'.applied))
OldNotAdded ==
    LET before == ToSet(memory.applied)
    IN  \A i \in DOMAIN Added :
           Added[i] \in before /\ Added[i] + MirrorSlack <= startedAt
               => \E ev \in batch : ev.id = Added[i] /\ Home[ev.path] = Home[Main]

LEMMA NothingAdded ==
    ASSUME memory.applied \in Seq(Nat), memory'.applied \in Seq(Nat),
           Len(memory'.applied) <= Len(memory.applied)
    PROVE  OldNotAdded
<1>1. DOMAIN Added = {}
  <2> DEFINE m == Len(memory.applied) + 1
             n == Len(memory'.applied)
  <2>1. m \in Int /\ n \in Int /\ n < m OBVIOUS
  <2> HIDE DEF m, n
  <2>2. SubSeq(memory'.applied, m, n) = <<>> BY <2>1, SubSeqEmpty
  <2>3. Added = <<>> BY <2>2 DEF Added, m, n
  <2> QED BY <2>3
<1> QED BY <1>1 DEF OldNotAdded

LEMMA WritesKeepCopies ==
    ASSUME CopyInv, MirrorsMarked, CodexWrites \/ \E p \in Paths : EndRecord(p)
    PROVE  CopyInv' /\ MirrorsMarked'
<1>1. UNCHANGED scan
  BY DEF CodexWrites, CreateFile, BeginRecord, Shrink, EndRecord, Rename, Copy
<1>2. UNCHANGED <<memory, disk, scanning, batch>> BY <1>1 DEF scan
<1>3. MirrorsMarked' BY <1>2 DEF MirrorsMarked, Known
<1>4. \A p \in Existing : Len(content[p].lines) \in Nat /\ content[p].lines \in Seq(Nat)
                          /\ content[p].partial \in Nat
  BY DEF CopyInv, File
\* A step that writes the files of the home only.
<1>5. ASSUME written' \in Nat, Existing' \subseteq Paths, \A p \in Existing' : content'[p] \in File,
             copied' = copied,
             \A p \in Abroad : (p \in Existing' <=> p \in Existing)
                               /\ (p \in Existing => content'[p] = content[p])
      PROVE  CopyInv'
  <2>1. Copied(memory)' /\ Copied(disk)' BY <1>2, <1>5 DEF CopyInv, Copied
  <2> QED BY <1>2, <1>5, <2>1 DEF CopyInv
<1>6. CASE \E p \in Paths : CreateFile(p)
  <2>1. PICK p \in Paths : CreateFile(p) BY <1>6
  <2>2. p \in Ours BY <2>1, RolloutsAssumption DEF CreateFile, Ours
  <2>3. [lines |-> <<>>, partial |-> 0] \in File BY DEF File
  <2>4. /\ Existing' = Existing \cup {p} /\ content'[p] \in File
        /\ \A q \in Existing : q # p => content'[q] = content[q]
    BY <2>1, <2>3 DEF CreateFile, Put, Existing
  <2> QED BY <1>3, <1>5, <2>1, <2>2, <2>4 DEF CreateFile, CopyInv, Abroad
<1>7. CASE \E p \in Paths : BeginRecord(p)
  <2>1. PICK p \in Paths : BeginRecord(p) BY <1>7
  <2>2. p \in Ours /\ p \in Existing BY <2>1 DEF BeginRecord, Original, Ours
  <2>3. /\ Existing' = Existing /\ written' \in Nat
        /\ content'[p] = [content[p] EXCEPT !.partial = written']
        /\ \A q \in Existing : q # p => content'[q] = content[q]
    BY <2>1, <2>2 DEF BeginRecord, Existing, CopyInv
  <2>4. content'[p] \in File BY <2>2, <2>3 DEF CopyInv, File
  <2> QED BY <1>3, <1>5, <2>1, <2>2, <2>3, <2>4 DEF BeginRecord, CopyInv, Abroad
<1>8. CASE \E p \in Paths : Shrink(p)
  <2>1. PICK p \in Paths : Shrink(p) BY <1>8
  <2>2. p \in Ours /\ p \in Existing BY <2>1 DEF Shrink, Original, Ours
  <2>3. /\ Existing' = Existing /\ written' = written
        /\ content'[p] = [content[p] EXCEPT !.lines = Front(@)]
        /\ \A q \in Existing : q # p => content'[q] = content[q]
    BY <2>1, <2>2 DEF Shrink, Existing
  <2>4. content'[p] \in File
    <3>1. content[p] \in File /\ content[p].lines \in Seq(Nat) /\ content[p].lines # <<>>
      BY <2>1, <2>2 DEF Shrink, CopyInv, File
    <3>2. Front(content[p].lines) \in Seq(Nat) BY <3>1 DEF Front
    <3> QED BY <2>3, <3>1, <3>2 DEF File
  <2> QED BY <1>3, <1>5, <2>1, <2>2, <2>3, <2>4 DEF Shrink, CopyInv, Abroad
<1>9. CASE \E p \in Paths : EndRecord(p)
  <2>1. PICK p \in Paths : EndRecord(p) BY <1>9
  <2>2. p \in Ours /\ p \in Existing BY <2>1 DEF EndRecord, CopyInv, Abroad
  <2>3. /\ Existing' = Existing /\ written' = written
        /\ content'[p] = [lines |-> Append(content[p].lines, content[p].partial), partial |-> 0]
        /\ \A q \in Existing : q # p => content'[q] = content[q]
    BY <2>1, <2>2 DEF EndRecord, Existing
  <2>4. content'[p] \in File BY <1>4, <2>2, <2>3 DEF File
  <2> QED BY <1>3, <1>5, <2>1, <2>2, <2>3, <2>4 DEF EndRecord, CopyInv, Abroad
<1>10. CASE \E p, q \in Paths : Rename(p, q)
  <2>1. PICK p \in Paths, q \in Paths : Rename(p, q) BY <1>10
  <2>2. p \in Ours /\ q \in Ours /\ p \in Existing BY <2>1 DEF Rename, Original, Ours
  <2>3. /\ Existing' = (Existing \cup {q}) \ {p} /\ written' = written
        /\ \A x \in Existing' : content'[x] = IF x = q THEN content[p] ELSE content[x]
    BY <2>1, <2>2 DEF Rename, Existing, Put, Without
  <2>4. \A x \in Existing' : content'[x] \in File BY <2>2, <2>3 DEF CopyInv
  <2> QED BY <1>3, <1>5, <2>1, <2>2, <2>3, <2>4 DEF Rename, CopyInv, Abroad
<1>11. CASE \E p, q \in Paths : Copy(p, q)
  <2>1. PICK p \in Paths, q \in Paths : Copy(p, q) BY <1>11
  <2>2. p \in Ours /\ q \in Abroad /\ p \in Existing /\ q \notin Existing
    BY <2>1 DEF Copy, Original, Ours, Abroad
  <2>3. /\ Existing' = Existing \cup {q} /\ written' = written /\ ~copied /\ copied'
        /\ content'[q] = [content[p] EXCEPT !.partial = 0]
        /\ \A x \in Existing : content'[x] = content[x]
    BY <2>1, <2>2 DEF Copy, Existing, Put
  <2>4. content'[q] \in File /\ content'[q].partial = 0
    BY <2>2, <2>3 DEF CopyInv, File
  <2>5. Existing \cap Abroad = {} BY <2>3 DEF CopyInv
  <2>6. Copied(memory)' /\ Copied(disk)' BY <1>2, <2>3, <2>5 DEF CopyInv, Copied
  <2> QED BY <1>2, <1>3, <2>2, <2>3, <2>4, <2>5, <2>6 DEF CopyInv
<1> QED BY <1>3, <1>6, <1>7, <1>8, <1>9, <1>10, <1>11 DEF CodexWrites

\* The cursor of a file is set; that of a copy to its end.
LEMMA CursorsKeepCopies ==
    ASSUME CopyInv, NEW p \in Existing, NEW to \in Nat, NEW retired,
           p \in Abroad => to = Size(content[p]),
           memory' = [memory EXCEPT !.offset = Cursors(p, to, retired)],
           scanning' \in Nat, UNCHANGED <<content, written, copied, disk>>
    PROVE  CopyInv' /\ memory'.applied = memory.applied /\ p \in Known'
<1>1. /\ memory \in [initialized : BOOLEAN, offset : Cursor, applied : Seq(Nat)]
      /\ p \in Paths
  BY DEF CopyInv, Copied
<1>2. PICK D \in SUBSET Paths : memory.offset \in [D -> Nat] BY <1>1 DEF Cursor
<1> DEFINE cursors == Cursors(p, to, retired)
           E == (D \ retired) \cup {p}
<1>3. /\ cursors \in [E -> Nat] /\ E \in SUBSET Paths /\ DOMAIN cursors = E
      /\ \A q \in E : cursors[q] = IF q = p THEN to ELSE memory.offset[q]
  BY <1>1, <1>2 DEF Cursors, Known
<1>4. cursors \in Cursor BY <1>3 DEF Cursor
<1>5. /\ memory' \in [initialized : BOOLEAN, offset : Cursor, applied : Seq(Nat)]
      /\ memory'.offset = cursors /\ memory'.applied = memory.applied
  BY <1>1, <1>4
<1> HIDE DEF cursors
<1>6. Existing' = Existing BY DEF Existing
<1>7. Copied(memory)' BY <1>2, <1>3, <1>5, <1>6 DEF CopyInv, Copied
<1>8. Copied(disk)' BY <1>6 DEF CopyInv, Copied
<1> QED BY <1>3, <1>5, <1>6, <1>7, <1>8 DEF CopyInv, Known

\* Reading a file: one of the home, or a copy that is not known yet.
LEMMA ReadKeepsCopies ==
    ASSUME CopyInv, MirrorsMarked, NEW p \in Existing, NEW offset \in Nat, NEW retired,
           NEW mirrored, ReadFrom(p, offset, retired, mirrored),
           p \in Abroad => \/ offset = Size(content[p])
                           \/ mirrored \/ Known = {},
           scanning' \in Nat, UNCHANGED <<content, written, copied, disk>>
    PROVE  CopyInv' /\ MirrorsMarked' /\ memory'.applied = memory.applied
<1> DEFINE file == content[p]
<1>1. file \in File /\ p \in Paths /\ Size(file) \in Nat /\ Len(file.lines) \in Nat
  BY FileFacts DEF CopyInv
<1>2. p \in Abroad => Size(file) = EndOfLines(file)
  BY <1>1, FileFacts DEF CopyInv, EndOfLines
<1>3. CASE Size(file) <= offset
  <2>1. memory' = [memory EXCEPT !.offset = Cursors(p, Size(file), retired)] /\ batch' = batch
    BY <1>1, <1>3 DEF ReadFrom
  <2>2. CopyInv' /\ memory'.applied = memory.applied /\ p \in Known'
    BY <1>1, <2>1, CursorsKeepCopies
  <2> QED BY <2>1, <2>2 DEF MirrorsMarked
<1>4. CASE Size(file) > offset
  <2> DEFINE new == {[id |-> id, path |-> p, mirrored |-> mirrored] :
                        id \in LinesBehind(file, offset)}
  <2>1. /\ memory' = [memory EXCEPT !.offset = Cursors(p, EndOfLines(file), retired)]
        /\ batch' = batch \cup new
    BY <1>1, <1>4 DEF ReadFrom
  <2>2. EndOfLines(file) \in Nat BY <1>1 DEF EndOfLines
  <2>3. CopyInv' /\ memory'.applied = memory.applied /\ p \in Known'
    BY <1>2, <2>1, <2>2, CursorsKeepCopies
  <2>4. p \in Abroad => mirrored \/ memory.applied = <<>>
    BY <1>1, <1>4 DEF CopyInv, Copied, Known
  <2>5. \A ev \in new : /\ ev.id \in Nat /\ ev.path = p /\ ev.mirrored = mirrored
    BY <1>1 DEF LinesBehind, File
  <2>6. IsFiniteSet(new)
    <3> DEFINE I == {k \in 1..Len(file.lines) : 2 * (k - 1) >= offset}
               pick == [k \in I |-> [id |-> file.lines[k], path |-> p, mirrored |-> mirrored]]
    <3>1. IsFiniteSet(I)
      <4> DEFINE m == Len(file.lines)
      <4>1. m \in Nat BY <1>1
      <4>2. I \in SUBSET (1..m) OBVIOUS
      <4> HIDE DEF m, I
      <4>3. IsFiniteSet(1..m) BY <4>1, FS_Interval
      <4> QED BY <4>2, <4>3, FS_Subset
    <3>2. pick \in Surjection(I, new) BY DEF LinesBehind, Surjection
    <3> HIDE DEF I, pick, new
    <3> QED BY <3>1, <3>2, FS_Surjection
  <2> HIDE DEF new
  <2>7. IsFiniteSet(batch') BY <2>1, <2>6, FS_Union DEF MirrorsMarked
  <2> QED BY <1>1, <2>1, <2>3, <2>4, <2>5, <2>7 DEF MirrorsMarked
<1> QED BY <1>1, <1>3, <1>4

LEMMA ScanKeepsCopies ==
    ASSUME CopyInv, MirrorsMarked, ScanPath
    PROVE  CopyInv' /\ MirrorsMarked' /\ memory'.applied = memory.applied
<1> DEFINE p == Walk[scanning + 1]
<1>1. scanning' \in Nat /\ UNCHANGED <<content, written, copied, disk>>
  BY DEF ScanPath, codexFiles, CopyInv
<1>2. CASE p \notin Existing
  <2>1. UNCHANGED <<memory, batch>> BY <1>2 DEF ScanPath
  <2>2. Existing' = Existing BY <1>1 DEF Existing
  <2>3. Copied(memory)' /\ Copied(disk)' BY <1>1, <2>1, <2>2 DEF CopyInv, Copied
  <2> QED BY <1>1, <2>1, <2>2, <2>3 DEF CopyInv, MirrorsMarked, Known
<1>3. CASE p \in Existing /\ ~memory.initialized
  <2>1. Baseline(p) BY <1>3 DEF ScanPath
  <2>2. Size(content[p]) \in Nat BY <1>3, FileFacts DEF CopyInv
  <2>3. CopyInv' /\ memory'.applied = memory.applied /\ p \in Known'
    BY <1>1, <1>3, <2>1, <2>2, CursorsKeepCopies DEF Baseline
  <2>4. batch' = batch BY <2>1 DEF Baseline
  <2> QED BY <2>3, <2>4 DEF MirrorsMarked
<1>4. CASE p \in Existing /\ memory.initialized
  <2>1. \A q \in Known : memory.offset[q] \in Nat BY DEF CopyInv, Copied, Cursor, Known
  <2>2. CASE p \in Known
    <3>1. ReadFrom(p, memory.offset[p], {}, FALSE) BY <1>4, <2>2 DEF ScanPath
    <3>2. p \in Abroad => memory.offset[p] = Size(content[p])
      BY <2>2 DEF CopyInv, Copied, Known
    <3> HIDE DEF p
    <3> QED BY <1>1, <1>4, <2>1, <2>2, <3>1, <3>2, ReadKeepsCopies
  <2>3. CASE p \notin Known
    <3>1. ScanUnknown(p) BY <1>4, <2>3 DEF ScanPath
    <3>2. CASE \E q \in MigrationSources(p) : ReadFrom(p, memory.offset[q], {q}, FALSE)
      <4>1. PICK q \in MigrationSources(p) : ReadFrom(p, memory.offset[q], {q}, FALSE) BY <3>2
      <4>2. q \in Known /\ q # p /\ Home[q] = Home[p] BY <4>1 DEF MigrationSources
      <4>3. q \in Paths /\ p \in Paths BY <1>4, <4>2 DEF CopyInv, Copied, Cursor, Known
      <4>4. p \notin Abroad
        BY <1>4, <4>2, <4>3 DEF CopyInv, Copied, Known, Abroad, Ours
      <4> HIDE DEF p
      <4> QED BY <1>1, <1>4, <2>1, <4>1, <4>2, <4>4, ReadKeepsCopies
    <3>3. CASE ReadFrom(p, 0, {}, Known # {})
      <4> HIDE DEF p
      <4> QED BY <1>1, <1>4, <3>3, ReadKeepsCopies
    <3> QED BY <3>1, <3>2, <3>3 DEF ScanUnknown
  <2> QED BY <2>2, <2>3
<1> QED BY <1>2, <1>3, <1>4

\* An old record that is applied a second time was read in the home of the thread:
\* ignoreEvent drops those of a mirror.
LEMMA TickKeepsCopies ==
    ASSUME CopyInv, MirrorsMarked, NEW saved, TickEnds(saved)
    PROVE  CopyInv' /\ MirrorsMarked' /\ OldNotAdded
<1> DEFINE worthy == {ev \in batch : Worth(ev)}
           events == InOrder(worthy)
           ids == [i \in DOMAIN events |-> events[i].id]
           old == memory.applied
           n == Cardinality(worthy)
<1>1. IsFiniteSet(worthy) /\ \A ev \in worthy : ev.id \in Nat
  BY FS_Subset DEF MirrorsMarked
<1>2. /\ memory' = [memory EXCEPT !.initialized = TRUE, !.applied = old \o ids]
      /\ disk' \in {memory', disk} /\ batch' = {} /\ scanning' = 0
      /\ UNCHANGED <<content, written, copied>>
  BY DEF TickEnds, Persist, codexFiles
<1>3. events \in [1..n -> worthy] /\ n \in Nat BY <1>1, SortedFacts
<1>4. \A ev \in worthy : ev \in batch /\ Worth(ev) OBVIOUS
<1>5. old \in Seq(Nat) /\ Len(old) \in Nat BY DEF CopyInv, Copied
<1>6. Known = {} => worthy = {} BY DEF MirrorsMarked
<1> HIDE DEF events, n, worthy
<1>7. /\ ids \in Seq(Nat) /\ Len(ids) = n /\ DOMAIN ids = 1..n
      /\ \A i \in 1..n : events[i] \in worthy /\ ids[i] = events[i].id /\ ids[i] \in Nat
  BY <1>1, <1>3
<1> HIDE DEF ids
<1>8. Known = {} => ids = <<>>
  <2> SUFFICES ASSUME Known = {} PROVE ids = <<>> OBVIOUS
  <2>1. n = 0 BY <1>3, <1>6, <1>7
  <2> QED BY <1>7, <2>1
<1>9. /\ memory \in [initialized : BOOLEAN, offset : Cursor, applied : Seq(Nat)]
      /\ Known = {} => old = <<>>
  BY DEF CopyInv, Copied, Known
<1>10. /\ old \o ids \in Seq(Nat) /\ Len(old \o ids) = Len(old) + n
       /\ \A i \in 1..n : (old \o ids)[Len(old) + i] = ids[i]
       /\ old = <<>> /\ ids = <<>> => old \o ids = <<>>
  <2> HIDE DEF old
  <2> QED BY <1>3, <1>5, <1>7
<1> HIDE DEF old
<1>11. /\ memory' \in [initialized : BOOLEAN, offset : Cursor, applied : Seq(Nat)]
       /\ memory'.offset = memory.offset /\ memory'.applied = old \o ids
  BY <1>2, <1>9, <1>10
<1>12. Existing' = Existing /\ Known' = Known BY <1>2, <1>11 DEF Existing, Known
<1>13. CopyInv'
  <2>1. Copied(memory)' BY <1>2, <1>8, <1>9, <1>10, <1>11, <1>12 DEF CopyInv, Copied, Known
  <2>2. Copied(disk)' BY <1>2, <1>12, <2>1 DEF CopyInv, Copied
  <2>3. Len(disk'.applied) <= Len(memory'.applied)
    <3>1. Len(disk.applied) \in Nat /\ Len(disk.applied) <= Len(old)
      BY DEF CopyInv, Copied, old
    <3>2. Len(memory'.applied) = Len(old) + n BY <1>10, <1>11
    <3>3. CASE disk' = memory' BY <1>3, <1>5, <3>2, <3>3
    <3>4. CASE disk' = disk BY <1>3, <1>5, <3>1, <3>2, <3>4
    <3> QED BY <1>2, <3>3, <3>4
  <2> QED BY <1>2, <1>12, <2>1, <2>2, <2>3 DEF CopyInv
<1>14. MirrorsMarked' BY <1>2, FS_EmptySet DEF MirrorsMarked
<1>15. OldNotAdded
  <2>1. DOMAIN Added = 1..n /\ \A i \in 1..n : Added[i] = ids[i]
    <3>1. Added = SubSeq(old \o ids, Len(old) + 1, Len(old) + n)
      BY <1>10, <1>11 DEF Added, old
    <3> QED BY <1>3, <1>5, <1>10, <3>1
  <2> SUFFICES ASSUME NEW i \in 1..n, ids[i] \in ToSet(old), ids[i] + MirrorSlack <= startedAt
               PROVE  \E ev \in batch : ev.id = ids[i] /\ Home[ev.path] = Home[Main]
    BY <2>1 DEF OldNotAdded, old
  <2>2. events[i] \in batch /\ Worth(events[i]) /\ ids[i] = events[i].id BY <1>4, <1>7
  <2>3. old # <<>> BY DEF ToSet
  <2>4. ~events[i].mirrored BY <2>2 DEF Worth
  <2>5. events[i].path \in Ours BY <2>2, <2>3, <2>4 DEF MirrorsMarked, Abroad, old
  <2> QED BY <2>2, <2>5 DEF Ours
<1> QED BY <1>13, <1>14, <1>15

LEMMA ForgetKeepsCopies ==
    ASSUME CopyInv, ForgetMemory
    PROVE  CopyInv' /\ MirrorsMarked' /\ OldNotAdded
<1>1. /\ memory' = disk /\ disk' = disk /\ scanning' = 0 /\ batch' = {}
      /\ UNCHANGED <<content, written, copied>>
  BY DEF ForgetMemory, codexFiles
<1>2. Existing' = Existing BY <1>1 DEF Existing
<1>3. Copied(memory)' /\ Copied(disk)' BY <1>1, <1>2 DEF CopyInv, Copied
<1>4. Len(disk.applied) \in Nat BY DEF CopyInv, Copied
<1>5. CopyInv' BY <1>1, <1>2, <1>3, <1>4 DEF CopyInv
<1>6. MirrorsMarked' BY <1>1, FS_EmptySet DEF MirrorsMarked
<1>7. OldNotAdded BY <1>1, NothingAdded DEF CopyInv, Copied
<1> QED BY <1>5, <1>6, <1>7

LEMMA IdleKeepsCopies ==
    ASSUME CopyInv, MirrorsMarked, UNCHANGED <<content, written, copied, memory, disk, scanning, batch>>
    PROVE  CopyInv' /\ MirrorsMarked'
<1>1. Existing' = Existing /\ Known' = Known BY DEF Existing, Known
<1>2. Copied(memory)' /\ Copied(disk)' BY <1>1 DEF CopyInv, Copied
<1> QED BY <1>1, <1>2 DEF CopyInv, MirrorsMarked

LEMMA CopiesKeep ==
    ASSUME CopyInv, MirrorsMarked, [Next]_vars
    PROVE  CopyInv' /\ MirrorsMarked' /\ OldNotAdded
<1>1. ASSUME CopyInv', memory'.applied = memory.applied PROVE OldNotAdded
  <2>1. memory.applied \in Seq(Nat) /\ memory'.applied \in Seq(Nat)
        /\ Len(memory.applied) \in Nat
    BY <1>1 DEF CopyInv, Copied
  <2> QED BY <1>1, <2>1, NothingAdded
<1>2. CASE CodexWrites \/ \E p \in Paths : EndRecord(p)
  <2>1. CopyInv' /\ MirrorsMarked' BY <1>2, WritesKeepCopies
  <2>2. memory' = memory
    BY <1>2 DEF CodexWrites, CreateFile, BeginRecord, Shrink, EndRecord, Rename, Copy, scan
  <2> QED BY <1>1, <2>1, <2>2
<1>3. CASE UNCHANGED rolloutVars BY <1>1, <1>3, IdleKeepsCopies DEF rolloutVars
<1>4. CASE LoadState BY <1>1, <1>4, IdleKeepsCopies DEF LoadState, codexFiles
<1>5. CASE ForgetMemory BY <1>5, ForgetKeepsCopies
<1>6. CASE ScanPath BY <1>1, <1>6, ScanKeepsCopies
<1>7. CASE \E saved \in BOOLEAN : TickEnds(saved) BY <1>7, TickKeepsCopies
<1>8. CASE UNCHANGED vars BY <1>3, <1>8 DEF vars
<1>9. CASE Next
  BY <1>2, <1>3, <1>4, <1>5, <1>6, <1>7, <1>9
     DEF Next, WorkerMoves, WorkerIsLeft, SaveFails, WorkerEnds
<1> QED BY <1>8, <1>9

LEMMA InitCopies == Init => CopyInv /\ MirrorsMarked
<1> SUFFICES ASSUME Init PROVE CopyInv /\ MirrorsMarked OBVIOUS
<1>1. /\ content = <<>> /\ written = 0 /\ memory = NewState /\ disk = NewState
      /\ scanning = 0 /\ batch = {}
  BY DEF Init, RolloutsInit
<1>2. Existing = {} /\ DOMAIN memory.offset = {} /\ DOMAIN disk.offset = {}
  BY <1>1 DEF Existing, NewState
<1>3. NewState \in [initialized : BOOLEAN, offset : Cursor, applied : Seq(Nat)]
  <2>1. <<>> \in [{} -> Nat] /\ {} \in SUBSET Paths OBVIOUS
  <2>2. <<>> \in Cursor BY <2>1 DEF Cursor
  <2> QED BY <2>2 DEF NewState
<1>4. Copied(memory) /\ Copied(disk) BY <1>1, <1>2, <1>3 DEF Copied, NewState
<1>5. CopyInv BY <1>1, <1>2, <1>4 DEF CopyInv, NewState
<1>6. MirrorsMarked BY <1>1, FS_EmptySet DEF MirrorsMarked
<1> QED BY <1>5, <1>6

\* A copy of a rollout file under another Codex home never applies history from before
\* the start of the worker a second time, across crashes, failed saves, renamed and
\* rewritten files: ignoreEvent drops what a mirror repeats (daemon.go:144).
THEOREM CopiesApplyNoOldHistoryHolds == Spec => CopiesApplyNoOldHistory
<1>1. CopyInv /\ MirrorsMarked /\ [Next]_vars => CopyInv' /\ MirrorsMarked' /\ OldNotAdded
  BY CopiesKeep
<1>2. OldNotAdded =>
        LET before == ToSet(memory.applied)
            added == SubSeq(memory'.applied, Len(memory.applied) + 1, Len(memory'.applied))
        IN  \A i \in DOMAIN added :
               added[i] \in before /\ added[i] + MirrorSlack <= startedAt
                   => \E ev \in batch : ev.id = added[i] /\ Home[ev.path] = Home[Main]
  BY DEF OldNotAdded, Added
<1> QED BY <1>1, <1>2, InitCopies, PTL DEF Spec, CopiesApplyNoOldHistory
=============================================================================
