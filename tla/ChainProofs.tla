----------------------------- MODULE ChainProofs -----------------------------
(***************************************************************************)
(* Retry chains against the history of their threads, in any interleaving  *)
(* of turns, records, ticks, jobs, commands, crashes and failed writes.    *)
(* First the jobs: what the result of a late job applies to, and what an   *)
(* abort ends.  Then the turns: none that runs is retried, and no failure  *)
(* is forgotten.  Last the goal holds: none leaves a job that could still  *)
(* send.                                                                   *)
(***************************************************************************)
EXTENDS DaemonProofs, DaemonHistory

----------------------------------------------------------------------------
(* Jobs and the history of their threads.                                  *)

\* The failure that a retry or a stop is about.
HasKey(th, k) ==
    \/ th.Pending # Nil /\ th.Pending.fault.EventKey = k
    \/ th.Awaiting # Nil /\ th.Awaiting.fault.EventKey = k
    \/ th.Stopped # Nil /\ th.Stopped.fault.EventKey = k

\* Of a thread: the records to come, its running turn and the next turn's id.
\* The completion of turn k is behind.
Past(k, seq, run, next) ==
    /\ k < next
    /\ run # Nil => run.id # k
    /\ \A i \in DOMAIN seq : seq[i].kind = "task_complete" => seq[i].turn # k

\* Records come in the order of their times, and a turn completes once.
Ordered(seq, run, next, clock) ==
    /\ run # Nil => run.id < next
    /\ \A i \in DOMAIN seq :
          /\ seq[i].at <= clock
          /\ seq[i].kind = "task_complete" => seq[i].turn < next /\ (run # Nil => seq[i].turn # run.id)
    /\ \A i, j \in DOMAIN seq : i < j =>
          /\ seq[i].at <= seq[j].at
          /\ seq[i].kind = "task_complete" /\ seq[j].kind = "task_complete" => seq[i].turn # seq[j].turn

NotBefore(at, seq, clock) ==
    /\ at <= clock
    /\ \A i \in DOMAIN seq : at <= seq[i].at

Tells(th, seq, run, next, clock) ==
    /\ Ordered(seq, run, next, clock)
    /\ NotBefore(th.LastAbortedAt, seq, clock)
    /\ \A k \in Nat : HasKey(th, k) => Past(k, seq, run, next)

\* Of every thread: the records that are to come are queued, then unread.
History(ths, queued, unread, runs, next, clock) ==
    \A t \in Threads : Tells(ths[t], queued[t] \o unread[t], runs[t], next, clock)

\* The thread in memory has seen less than the tick has scanned; the one in
\* state.json less than was saved with it.
HistoryInv ==
    /\ History(threads, batch, rollout, turn, nextTurn, now)
    /\ "crash" \in Features => History(disk, unsaved, rollout, turn, nextTurn, now)

\* The records of a tick are handled before anything else is done.
Queued == phase # "events" => batch = emptyQueues

\* The turn whose failure a job is about has completed, and does so only once.
JobPast(j, queued, unread, runs, next) ==
    j.kind = "recovery" => Past(j.key, queued[j.thread] \o unread[j.thread], runs[j.thread], next)

KeysPast == \A j \in jobs : JobPast(j, batch, rollout, turn, nextTurn)

\* What happened at a time came after a launch. If handlers are slow the clock moves
\* within a tick, and a later step may have the time of the launch.
Since(at, time) == time > at \/ (time = at /\ "slow" \in Features)

\* Jobs were launched by an earlier tick than the one that handles records.
Timely ==
    /\ tickNow <= now
    /\ "slow" \notin Features /\ phase # "idle" => tickNow = now
    /\ \A j \in jobs :
          /\ j.at <= now
          /\ phase # "idle" => Since(j.at, tickNow)
          /\ "slow" \notin Features => j.at <= tickNow

\* A retry with the key of a job is further on than the job or waits for the very
\* turn that the job asked for, unless its chain is younger than the job.
Behind(j, th) ==
    LET r == liveRetry(th)
    IN  r # Nil /\ r.fault.EventKey = j.key /\ ~Since(j.at, th.RecoveryStartedAt) =>
          \/ r.budget.Attempt > j.attempt
          \/ /\ th.Awaiting # Nil
             /\ r.budget.Attempt = j.attempt
             /\ th.Awaiting.DispatchStartedAt <= j.at

\* Nothing is left of a chain.
Clean(th) ==
    /\ th.Pending = Nil /\ th.Awaiting = Nil /\ th.Stopped = Nil
    /\ th.RecoveryAttempts = 0 /\ th.ConsecutiveRetries = 0

\* A job that was launched before the last abort is cancelled, or one of the cases of
\* AbortStopsJobs holds, or it has yet to start and will find no chain.
Minds(j, th) ==
    ~j.cancelled /\ th.LastAbortedAt > j.at =>
        \/ automaticGoalLimitStopped(th)
        \/ th.GoalObservedAt >= th.LastAbortedAt
        \/ Since(j.at, th.RecoveryStartedAt)
        \/ Clean(th) /\ j.pc = "launched"

\* Every recovery job against its thread.
JobsInv == \A j \in jobs : j.kind = "recovery" => Behind(j, threads[j.thread]) /\ Minds(j, threads[j.thread])
----------------------------------------------------------------------------
(* What is to come of a thread, step by step.                              *)

\* From the records, the running turn, the next id and the clock before to those
\* after, no completion appears that was behind and no record that is too early.
Grows(seq, run, next, clock, seq2, run2, next2, clock2) ==
    /\ Ordered(seq, run, next, clock) => Ordered(seq2, run2, next2, clock2)
    /\ \A k \in Nat : Ordered(seq, run, next, clock) /\ Past(k, seq, run, next)
                      => Past(k, seq2, run2, next2)
    /\ \A at \in Nat : NotBefore(at, seq, clock) => NotBefore(at, seq2, clock2)

LEMMA GrowsTells ==
    ASSUME NEW th \in ThreadState, NEW seq, NEW run, NEW next, NEW clock,
           NEW seq2, NEW run2, NEW next2, NEW clock2,
           Grows(seq, run, next, clock, seq2, run2, next2, clock2),
           Tells(th, seq, run, next, clock)
    PROVE  Tells(th, seq2, run2, next2, clock2)
<1>1. th.LastAbortedAt \in Nat BY DEF ThreadState
<1> QED BY <1>1 DEF Grows, Tells

LEMMA RecordFacts ==
    ASSUME NEW seq \in Seq(Event)
    PROVE  /\ Len(seq) \in Nat /\ DOMAIN seq = 1..Len(seq)
           /\ \A i \in DOMAIN seq : seq[i].at \in Nat /\ seq[i].turn \in Nat
<1>1. Len(seq) \in Nat /\ DOMAIN seq = 1..Len(seq) BY LenProperties
<1>2. \A i \in DOMAIN seq : seq[i] \in Event BY <1>1, ElementOfSeq
<1> QED BY <1>1, <1>2 DEF Event

\* Time goes on, the turn ends unseen, or another thread's turn begins.
LEMMA QuietGrows ==
    ASSUME NEW seq \in Seq(Event), NEW run, NEW run2 \in {run, Nil}, run # Nil => run.id \in Nat,
           NEW next \in Nat, NEW next2 \in Nat, next <= next2,
           NEW clock \in Nat, NEW clock2 \in Nat, clock <= clock2
    PROVE  Grows(seq, run, next, clock, seq, run2, next2, clock2)
<1>1. \A i \in DOMAIN seq : seq[i].at \in Nat /\ seq[i].turn \in Nat
  BY RecordFacts
<1>2. Ordered(seq, run, next, clock) => Ordered(seq, run2, next2, clock2)
  BY <1>1 DEF Ordered
<1>3. \A k \in Nat : Past(k, seq, run, next) => Past(k, seq, run2, next2) BY DEF Past
<1>4. \A at \in Nat : NotBefore(at, seq, clock) => NotBefore(at, seq, clock2) BY DEF NotBefore
<1> QED BY <1>2, <1>3, <1>4 DEF Grows

\* A turn begins on the thread.
LEMMA StartGrows ==
    ASSUME NEW seq \in Seq(Event), NEW next \in Nat, NEW clock \in Nat, NEW run, run.id = next
    PROVE  Grows(seq, Nil, next, clock, seq, run, next + 1, clock)
<1>1. \A i \in DOMAIN seq : seq[i].at \in Nat /\ seq[i].turn \in Nat
  BY RecordFacts
<1>2. Ordered(seq, Nil, next, clock) => Ordered(seq, run, next + 1, clock)
  BY <1>1 DEF Ordered
<1>3. \A k \in Nat : Past(k, seq, Nil, next) => Past(k, seq, run, next + 1) BY DEF Past
<1> QED BY <1>2, <1>3 DEF Grows

\* Codex writes a record; a completion is that of the running turn, which ends.
LEMMA RecordGrows ==
    ASSUME NEW seq \in Seq(Event), NEW run, NEW run2 \in {run, Nil}, run # Nil => run.id \in Nat,
           NEW next \in Nat, NEW clock \in Nat, NEW ev \in Event, ev.at = clock,
           ev.kind = "task_complete" => run # Nil /\ run2 = Nil /\ ev.turn = run.id
    PROVE  Grows(seq, run, next, clock, Append(seq, ev), run2, next, clock)
<1> DEFINE n == Len(seq)
           s == Append(seq, ev)
<1>1. /\ n \in Nat /\ DOMAIN seq = 1..n /\ DOMAIN s = 1..(n + 1)
      /\ s[n + 1] = ev /\ \A i \in 1..n : s[i] = seq[i]
  BY AppendProperties, LenProperties
<1>2. \A i \in 1..n : seq[i].at \in Nat /\ seq[i].turn \in Nat
  BY <1>1, RecordFacts
<1>3. ev.turn \in Nat BY DEF Event
<1> HIDE DEF n, s
<1>4. \A i \in 1..(n + 1) : i = n + 1 \/ i \in 1..n BY <1>1
<1>5. Ordered(seq, run, next, clock) => Ordered(s, run2, next, clock)
  <2> SUFFICES ASSUME Ordered(seq, run, next, clock) PROVE Ordered(s, run2, next, clock) OBVIOUS
  <2>1. run2 # Nil => run2.id < next BY DEF Ordered
  <2>2. ASSUME NEW i \in DOMAIN s
        PROVE  /\ s[i].at <= clock
               /\ s[i].kind = "task_complete" =>
                     s[i].turn < next /\ (run2 # Nil => s[i].turn # run2.id)
    <3>1. CASE i = n + 1 BY <1>1, <3>1 DEF Ordered
    <3>2. CASE i \in 1..n BY <1>1, <3>2 DEF Ordered
    <3> QED BY <1>1, <1>4, <3>1, <3>2
  <2>3. ASSUME NEW i \in DOMAIN s, NEW j \in DOMAIN s, i < j
        PROVE  /\ s[i].at <= s[j].at
               /\ s[i].kind = "task_complete" /\ s[j].kind = "task_complete" => s[i].turn # s[j].turn
    <3>1. i \in 1..n BY <1>1, <2>3
    <3>2. CASE j = n + 1 BY <1>1, <3>1, <3>2 DEF Ordered
    <3>3. CASE j \in 1..n BY <1>1, <2>3, <3>1, <3>3 DEF Ordered
    <3> QED BY <1>1, <1>4, <3>2, <3>3
  <2> QED BY <2>1, <2>2, <2>3 DEF Ordered
<1>6. \A k \in Nat : Past(k, seq, run, next) => Past(k, s, run2, next)
  BY <1>1, <1>4 DEF Past
<1>7. \A at \in Nat : NotBefore(at, seq, clock) => NotBefore(at, s, clock)
  BY <1>1, <1>4 DEF NotBefore
<1> QED BY <1>5, <1>6, <1>7 DEF Grows, s

\* The watchdog takes the first record.
LEMMA TailFacts ==
    ASSUME NEW seq \in Seq(Event), seq # <<>>, NEW run, NEW next \in Nat, NEW clock \in Nat,
           Ordered(seq, run, next, clock)
    PROVE  /\ Head(seq) \in Event
           /\ Grows(seq, run, next, clock, Tail(seq), run, next, clock)
           /\ NotBefore(Head(seq).at, Tail(seq), clock)
           /\ Head(seq).kind = "task_complete" => Past(Head(seq).turn, Tail(seq), run, next)
<1> DEFINE n == Len(seq)
           s == Tail(seq)
<1>1. /\ n \in Nat \ {0} /\ DOMAIN seq = 1..n /\ DOMAIN s = 1..(n - 1)
      /\ Head(seq) = seq[1] /\ \A i \in 1..(n - 1) : s[i] = seq[i + 1]
      /\ Head(seq) \in Event
  BY HeadTailProperties, LenProperties, EmptySeq
<1> HIDE DEF n, s
<1>2. /\ \A i \in 1..(n - 1) : i \in Int /\ i + 1 \in 1..n /\ 1 < i + 1
      /\ \A i, j \in 1..(n - 1) : i < j => i + 1 < j + 1
  BY <1>1
<1>3. Ordered(s, run, next, clock)
  <2>1. ASSUME NEW i \in 1..(n - 1), NEW j \in 1..(n - 1), i < j
        PROVE  /\ s[i].at <= s[j].at
               /\ s[i].kind = "task_complete" /\ s[j].kind = "task_complete" => s[i].turn # s[j].turn
    <3>1. i + 1 < j + 1 /\ i + 1 \in 1..n /\ j + 1 \in 1..n BY <1>2, <2>1
    <3> QED BY <1>1, <3>1 DEF Ordered
  <2>2. ASSUME NEW i \in 1..(n - 1)
        PROVE  /\ s[i].at <= clock
               /\ s[i].kind = "task_complete" =>
                     s[i].turn < next /\ (run # Nil => s[i].turn # run.id)
    BY <1>1, <1>2 DEF Ordered
  <2>3. run # Nil => run.id < next BY DEF Ordered
  <2> QED BY <1>1, <2>1, <2>2, <2>3 DEF Ordered
<1>4. \A k \in Nat : Past(k, seq, run, next) => Past(k, s, run, next) BY <1>1, <1>2 DEF Past
<1>5. \A at \in Nat : NotBefore(at, seq, clock) => NotBefore(at, s, clock)
  BY <1>1, <1>2 DEF NotBefore
<1>6. NotBefore(Head(seq).at, s, clock)
  <2>1. 1 \in DOMAIN seq BY <1>1
  <2>2. \A i \in 1..(n - 1) : seq[1].at <= seq[i + 1].at BY <1>1, <1>2, <2>1 DEF Ordered
  <2> QED BY <1>1, <2>1, <2>2 DEF NotBefore, Ordered
<1>7. Head(seq).kind = "task_complete" => Past(Head(seq).turn, s, run, next)
  <2>1. \A i \in 1..(n - 1) : s[i].kind = "task_complete" /\ seq[1].kind = "task_complete"
                              => s[i].turn # seq[1].turn
    BY <1>1, <1>2 DEF Ordered
  <2> QED BY <1>1, <2>1 DEF Past, Ordered
<1> QED BY <1>1, <1>3, <1>4, <1>5, <1>6, <1>7 DEF Grows, s

\* Of two queues of which one follows the other.
LEMMA QueueFacts ==
    ASSUME NEW q \in Seq(Event), NEW r \in Seq(Event)
    PROVE  /\ q \o r \in Seq(Event)
           /\ <<>> \o r = r /\ r \o <<>> = r
           /\ q # <<>> => /\ q \o r # <<>> /\ Head(q \o r) = Head(q)
                          /\ Tail(q \o r) = Tail(q) \o r
           /\ \A ev \in Event : q \o Append(r, ev) = Append(q \o r, ev)
<1>1. q \o r \in Seq(Event) BY ConcatProperties
<1>2. <<>> \o r = r /\ r \o <<>> = r BY ConcatEmptySeq
<1>3. ASSUME q # <<>>
      PROVE  q \o r # <<>> /\ Head(q \o r) = Head(q) /\ Tail(q \o r) = Tail(q) \o r
  <2>1. q \o r # <<>> BY <1>3, ConcatEqualIffEmpty
  <2>2. Head(q) \in Event /\ Tail(q) \in Seq(Event) BY <1>3, HeadTailProperties
  <2>3. q = <<Head(q)>> \o Tail(q) BY <1>3, HeadTailAppend
  <2> QED BY <1>1, <1>3, <2>1, <2>2, <2>3
<1>4. ASSUME NEW ev \in Event PROVE q \o Append(r, ev) = Append(q \o r, ev)
  <2>1. <<ev>> \in Seq(Event) BY IsASeq
  <2>2. Append(r, ev) = r \o <<ev>> /\ Append(q \o r, ev) = (q \o r) \o <<ev>>
    BY <1>1, AppendIsConcat
  <2> QED BY <2>1, <2>2, ConcatAssociative
<1> QED BY <1>1, <1>2, <1>3, <1>4

----------------------------------------------------------------------------
(* A handler, while a job of the thread is under way.                      *)

\* The retry that is there goes on: its count rises, or its dispatch stays.
Goes(before, after) ==
    LET x == liveRetry(before)
        y == liveRetry(after)
    IN  y # Nil =>
            /\ x # Nil
            /\ y.fault.EventKey = x.fault.EventKey
            /\ \/ y.budget.Attempt > x.budget.Attempt
               \/ /\ y.budget.Attempt = x.budget.Attempt
                  /\ before.Awaiting # Nil =>
                        /\ after.Awaiting # Nil
                        /\ after.Awaiting.DispatchStartedAt = before.Awaiting.DispatchStartedAt

KeysKept(before, after) == \A k \in Nat : HasKey(after, k) => HasKey(before, k)

\* The handler runs at the given time; it may begin a chain then.
Handles(before, after, time) ==
    /\ KeysKept(before, after)
    /\ after.LastAbortedAt = before.LastAbortedAt
    /\ after.GoalObservedAt >= before.GoalObservedAt
    /\ \/ after.RecoveryStartedAt = time
       \/ /\ after.RecoveryStartedAt = before.RecoveryStartedAt
          /\ automaticGoalLimitStopped(before) => automaticGoalLimitStopped(after)
          /\ Clean(before) => Clean(after)
          /\ Goes(before, after)

SameTimes(before, after) ==
    /\ after.LastAbortedAt = before.LastAbortedAt
    /\ after.GoalObservedAt = before.GoalObservedAt
    /\ after.RecoveryStartedAt = before.RecoveryStartedAt

SameCounters(before, after) ==
    /\ after.RecoveryAttempts = before.RecoveryAttempts
    /\ after.ConsecutiveRetries = before.ConsecutiveRetries

AlikeRetry(x, y) ==
    /\ x = Nil <=> y = Nil
    /\ x # Nil => y.fault = x.fault /\ y.budget.Attempt = x.budget.Attempt

\* The retry is marked, where it is.
Alike(before, after) ==
    /\ SameTimes(before, after) /\ SameCounters(before, after)
    /\ after.Stopped = before.Stopped
    /\ AlikeRetry(before.Pending, after.Pending)
    /\ AlikeRetry(before.Awaiting, after.Awaiting)
    /\ before.Awaiting # Nil =>
          after.Awaiting.DispatchStartedAt = before.Awaiting.DispatchStartedAt

LEMMA ThreadTimes ==
    ASSUME NEW th \in ThreadState
    PROVE  th.LastAbortedAt \in Nat /\ th.GoalObservedAt \in Nat /\ th.RecoveryStartedAt \in Nat
BY DEF ThreadState

LEMMA AlikeHandled ==
    ASSUME NEW before \in ThreadState, NEW after, Alike(before, after), NEW time
    PROVE  Handles(before, after, time)
<1>1. KeysKept(before, after) BY DEF Alike, AlikeRetry, KeysKept, HasKey
<1>2. Goes(before, after) BY DEF Alike, AlikeRetry, Goes, liveRetry
<1>3. Clean(before) => Clean(after) BY DEF Alike, AlikeRetry, SameCounters, Clean
<1>4. automaticGoalLimitStopped(before) => automaticGoalLimitStopped(after)
  BY DEF Alike, automaticGoalLimitStopped
<1>5. SameTimes(before, after) BY DEF Alike
<1> QED BY <1>1, <1>2, <1>3, <1>4, <1>5, ThreadTimes DEF Handles, SameTimes

LEMMA SameHandled ==
    ASSUME NEW th \in ThreadState, NEW time
    PROVE  Handles(th, th, time)
<1>1. Alike(th, th) BY DEF Alike, SameTimes, SameCounters, AlikeRetry
<1> QED BY <1>1, AlikeHandled

\* The chain ends.
LEMMA EndHandled ==
    ASSUME NEW before, Sound(before), NEW after, SameTimes(before, after), KeysKept(before, after),
           before.Pending # Nil \/ before.Awaiting # Nil,
           after.Pending = Nil, after.Awaiting = Nil, NEW time
    PROVE  Handles(before, after, time)
<1>1. before \in ThreadState BY DEF Sound
<1>2. Goes(before, after) BY DEF Goes, liveRetry
<1>3. ~Clean(before) BY DEF Clean
<1>4. ~automaticGoalLimitStopped(before) BY LiveNotStopped
<1> QED BY <1>1, <1>2, <1>3, <1>4, ThreadTimes DEF Handles, SameTimes

\* It is reset.
LEMMA ResetFacts ==
    ASSUME NEW th \in ThreadState
    PROVE  Clean(resetRetryState(th)) /\ SameTimes(th, resetRetryState(th))
BY DEF resetRetryState, ThreadState, Clean, SameTimes

LEMMA CleanKeys ==
    ASSUME NEW before, NEW after, Clean(after)
    PROVE  KeysKept(before, after) /\ Goes(before, after)
BY DEF Clean, KeysKept, HasKey, Goes, liveRetry

LEMMA ResetHandled ==
    ASSUME NEW before \in ThreadState, ~automaticGoalLimitStopped(before),
           NEW th \in ThreadState, SameTimes(before, th), NEW time
    PROVE  Handles(before, resetRetryState(th), time)
<1> DEFINE after == resetRetryState(th)
<1>1. Clean(after) /\ SameTimes(th, after) BY ResetFacts
<1> HIDE DEF after
<1>2. KeysKept(before, after) /\ Goes(before, after) BY <1>1, CleanKeys
<1>3. Handles(before, after, time) BY <1>1, <1>2, ThreadTimes DEF Handles, SameTimes
<1> QED BY <1>3 DEF after

\* It is given up.
LEMMA StopFacts ==
    ASSUME NEW th \in ThreadState
    PROVE  /\ SameTimes(th, dropHeldRetry(th))
           /\ dropHeldRetry(th).Stopped = th.Stopped
           /\ \A fault, budget, reason, historical, blocked, time :
                 /\ SameTimes(th, stopRetry(th, fault, budget, reason, historical, blocked))
                 /\ stopRetry(th, fault, budget, reason, historical, blocked).Stopped.fault = fault
                 /\ SameTimes(th, exhaustRetry(th, fault, budget, reason, historical, time))
                 /\ exhaustRetry(th, fault, budget, reason, historical, time).Stopped.fault = fault
<1>1. SameTimes(th, dropHeldRetry(th)) /\ dropHeldRetry(th).Stopped = th.Stopped
  BY DEF dropHeldRetry, ThreadState, SameTimes
<1>2. ASSUME NEW fault, NEW budget, NEW reason, NEW historical, NEW blocked
      PROVE  LET s == stopRetry(th, fault, budget, reason, historical, blocked)
             IN  /\ SameTimes(th, s) /\ s.Stopped.fault = fault
                 /\ DOMAIN s = DOMAIN th
  BY DEF stopRetry, ThreadState, SameTimes
<1>3. ASSUME NEW fault, NEW budget, NEW reason, NEW historical, NEW time
      PROVE  LET s == exhaustRetry(th, fault, budget, reason, historical, time)
             IN  SameTimes(th, s) /\ s.Stopped.fault = fault
  BY DEF exhaustRetry, stopRetry, ThreadState, SameTimes
<1> QED BY <1>1, <1>2, <1>3

LEMMA StopKeys ==
    ASSUME NEW before, NEW after, after.Pending = Nil, after.Awaiting = Nil,
           NEW fault, after.Stopped = Nil \/ after.Stopped.fault = fault,
           HasKey(before, fault.EventKey)
    PROVE  KeysKept(before, after)
BY DEF KeysKept, HasKey

----------------------------------------------------------------------------
(* Rollout events, while a job of the thread is under way.                 *)

LEMMA StartedHandled ==
    ASSUME NEW th, Sound(th), NEW ev \in Event, NEW time
    PROVE  Handles(th, handleTaskStarted(th, ev), time)
<1> DEFINE s == [th EXCEPT !.LastStartedTurnID = ev.turn, !.LastStartedAt = ev.at,
                           !.CurrentTurnProgress = FALSE]
           external == [s EXCEPT !.LastExternalTurnID = ev.turn, !.LastExternalTurnAt = ev.at]
           a == [th.Awaiting EXCEPT !.RetryTurnID = ev.turn, !.StartedAt = ev.at]
           acked == [s EXCEPT !.Awaiting = a]
           after == handleTaskStarted(th, ev)
<1> SUFFICES Handles(th, after, time) OBVIOUS
<1>1. th \in ThreadState BY DEF Sound
<1>2. /\ s \in ThreadState /\ external \in ThreadState
      /\ s.Pending = th.Pending /\ s.Awaiting = th.Awaiting /\ s.Stopped = th.Stopped
      /\ SameTimes(th, s) /\ SameCounters(th, s) /\ SameTimes(th, external)
  BY <1>1 DEF ThreadState, Event, SameTimes, SameCounters
<1>3. \/ after = s
      \/ after = th
      \/ ~automaticGoalLimitStopped(th) /\ after = resetRetryState(external)
      \/ th.Awaiting # Nil /\ after = acked
      \/ th.Pending # Nil /\ \E action : after = adoptTurn(s, ev, action)
  <2>1. s.Awaiting = th.Awaiting BY <1>2
  <2> QED BY <2>1 DEF handleTaskStarted, acknowledges, canAdoptNativeGoalTurn, canAdoptSubagentTurn
<1> HIDE DEF s, external
<1>4. CASE after = s
  <2>1. Alike(th, s) BY <1>2 DEF Alike, AlikeRetry
  <2> QED BY <1>1, <1>4, <2>1, AlikeHandled
<1>5. CASE after = th BY <1>1, <1>5, SameHandled
<1>6. CASE ~automaticGoalLimitStopped(th) /\ after = resetRetryState(external)
  BY <1>1, <1>2, <1>6, ResetHandled
<1>7. CASE th.Awaiting # Nil /\ after = acked
  <2>1. th.Awaiting \in AwaitingRetry /\ th.Pending = Nil BY <1>7, AwaitingFacts
  <2>2. /\ a.fault = th.Awaiting.fault /\ a.budget = th.Awaiting.budget
        /\ a.DispatchStartedAt = th.Awaiting.DispatchStartedAt
    BY <2>1 DEF AwaitingRetry
  <2>3. a # Nil
    <3>1. a \in AwaitingRetry BY <2>1 DEF AwaitingRetry, Event
    <3> QED BY <3>1, NilAssumption
  <2> HIDE DEF a
  <2>4. /\ acked.Pending = Nil /\ acked.Awaiting = a /\ acked.Stopped = th.Stopped
        /\ SameTimes(th, acked) /\ SameCounters(th, acked)
    BY <1>2, <2>1 DEF ThreadState, SameTimes, SameCounters
  <2> HIDE DEF acked
  <2>5. Alike(th, acked) BY <1>7, <2>1, <2>2, <2>3, <2>4 DEF Alike, AlikeRetry
  <2> QED BY <1>1, <1>7, <2>5, AlikeHandled
<1>8. CASE th.Pending # Nil /\ \E action : after = adoptTurn(s, ev, action)
  <2>1. PICK action : after = adoptTurn(s, ev, action) BY <1>8
  <2>2. /\ after.Pending = Nil /\ after.Stopped = th.Stopped
        /\ SameTimes(s, after)
    BY <1>2, <2>1 DEF adoptTurn, ThreadState, SameTimes
  <2>3. /\ after.Awaiting.fault = th.Pending.fault
        /\ after.Awaiting.budget = th.Pending.budget
    BY <1>2, <2>1 DEF adoptTurn, ThreadState
  <2> HIDE DEF after
  <2>4. SameTimes(th, after) BY <1>2, <2>2 DEF SameTimes
  <2>5. th.Awaiting = Nil /\ liveRetry(th) = th.Pending BY <1>8, PendingFacts DEF liveRetry
  <2>6. liveRetry(after) = after.Awaiting BY <2>2 DEF liveRetry
  <2>7. Goes(th, after) BY <1>8, <2>3, <2>5, <2>6 DEF Goes
  <2>8. KeysKept(th, after) BY <1>8, <2>2, <2>3 DEF KeysKept, HasKey
  <2>9. ~Clean(th) /\ ~automaticGoalLimitStopped(th) BY <1>8, LiveNotStopped DEF Clean
  <2> QED BY <1>1, <2>4, <2>7, <2>8, <2>9, ThreadTimes DEF Handles, SameTimes
<1> QED BY <1>3, <1>4, <1>5, <1>6, <1>7, <1>8

LEMMA UserInputHandled ==
    ASSUME NEW th, Sound(th), NEW ev \in Event, NEW time
    PROVE  Handles(th, handleTaskUserInput(th, ev), time)
<1>1. \/ handleTaskUserInput(th, ev) = th
      \/ ~automaticGoalLimitStopped(th) /\ handleTaskUserInput(th, ev) = resetRetryState(th)
  BY DEF handleTaskUserInput
<1>2. th \in ThreadState /\ SameTimes(th, th) BY DEF Sound, SameTimes
<1> QED BY <1>1, <1>2, SameHandled, ResetHandled

LEMMA ProgressHandled ==
    ASSUME NEW th, Sound(th), NEW ev \in Event, NEW time
    PROVE  Handles(th, handleTaskProgress(th, ev), time)
<1>1. LET s == handleTaskProgress(th, ev)
      IN  /\ s.Pending = th.Pending /\ s.Awaiting = th.Awaiting /\ s.Stopped = th.Stopped
          /\ SameTimes(th, s) /\ SameCounters(th, s)
  BY DEF handleTaskProgress, Sound, ThreadState, SameTimes, SameCounters
<1>2. Alike(th, handleTaskProgress(th, ev)) BY <1>1 DEF Alike, AlikeRetry
<1> QED BY <1>2, AlikeHandled DEF Sound

LEMMA NoticeHandled ==
    ASSUME NEW th, Sound(th), NEW ev \in Event, NEW time
    PROVE  Handles(th, handleSubagentRecoveryNotice(th, ev), time)
<1> DEFINE mark(retry) == IF retry # Nil /\ retry.fault.EventKey = ev.key
                          THEN [retry EXCEPT !.ParentNotified = TRUE] ELSE retry
           p == mark(th.Pending)
           a == mark(th.Awaiting)
           after == handleSubagentRecoveryNotice(th, ev)
<1> SUFFICES Handles(th, after, time) OBVIOUS
<1>1. th \in ThreadState BY DEF Sound
<1>2. AlikeRetry(th.Pending, p)
  <2>1. CASE th.Pending = Nil BY <2>1 DEF AlikeRetry
  <2>2. CASE th.Pending # Nil
    <3>1. th.Pending \in PendingRetry BY <2>2, PendingFacts
    <3>2. p \in PendingRetry /\ p.fault = th.Pending.fault /\ p.budget = th.Pending.budget
      BY <3>1 DEF PendingRetry
    <3> HIDE DEF p
    <3> QED BY <2>2, <3>2, NilAssumption DEF AlikeRetry
  <2> QED BY <2>1, <2>2
<1>3. /\ AlikeRetry(th.Awaiting, a)
      /\ th.Awaiting # Nil => a.DispatchStartedAt = th.Awaiting.DispatchStartedAt
  <2>1. CASE th.Awaiting = Nil BY <2>1 DEF AlikeRetry
  <2>2. CASE th.Awaiting # Nil
    <3>1. th.Awaiting \in AwaitingRetry BY <2>2, AwaitingFacts
    <3>2. /\ a \in AwaitingRetry /\ a.fault = th.Awaiting.fault /\ a.budget = th.Awaiting.budget
          /\ a.DispatchStartedAt = th.Awaiting.DispatchStartedAt
      BY <3>1 DEF AwaitingRetry
    <3> HIDE DEF a
    <3> QED BY <2>2, <3>2, NilAssumption DEF AlikeRetry
  <2> QED BY <2>1, <2>2
<1>4. after = [th EXCEPT !.Pending = p, !.Awaiting = a] BY DEF handleSubagentRecoveryNotice
<1> HIDE DEF p, a, after
<1>5. /\ after.Pending = p /\ after.Awaiting = a /\ after.Stopped = th.Stopped
      /\ SameTimes(th, after) /\ SameCounters(th, after)
  BY <1>1, <1>4 DEF ThreadState, SameTimes, SameCounters
<1>6. Alike(th, after) BY <1>2, <1>3, <1>5 DEF Alike
<1> QED BY <1>1, <1>6, AlikeHandled

\* handleTurnAbortedLocked remembers the time of the abort.
Aborts(before, after, at) ==
    /\ KeysKept(before, after)
    /\ after.LastAbortedAt = at
    /\ after.GoalObservedAt = before.GoalObservedAt
    /\ after.RecoveryStartedAt = before.RecoveryStartedAt
    /\ IF automaticGoalLimitStopped(before) THEN automaticGoalLimitStopped(after) ELSE Clean(after)
    /\ Goes(before, after)

LEMMA AbortedHandled ==
    ASSUME NEW th, Sound(th), NEW ev \in Event
    PROVE  Aborts(th, handleTurnAborted(th, ev), ev.at)
<1> DEFINE turned == IF ev.turn = 0 THEN th.LastStartedTurnID ELSE ev.turn
           s == [th EXCEPT !.LastAbortedTurnID = turned, !.LastAbortedAt = ev.at]
           reset == resetRetryState(s)
<1>1. /\ s \in ThreadState
      /\ s.Pending = th.Pending /\ s.Awaiting = th.Awaiting /\ s.Stopped = th.Stopped
      /\ s.LastAbortedAt = ev.at /\ s.GoalObservedAt = th.GoalObservedAt
      /\ s.RecoveryStartedAt = th.RecoveryStartedAt
  BY DEF Sound, ThreadState, Event
<1>2. IF automaticGoalLimitStopped(th) THEN handleTurnAborted(th, ev) = s
      ELSE handleTurnAborted(th, ev) = reset
  BY DEF handleTurnAborted
<1>5. Clean(reset) /\ SameTimes(s, reset) BY <1>1, ResetFacts
<1> HIDE DEF s, reset
<1>3. CASE automaticGoalLimitStopped(th)
  <2>1. KeysKept(th, s) /\ Goes(th, s) /\ automaticGoalLimitStopped(s)
    BY <1>1, <1>3 DEF KeysKept, HasKey, Goes, liveRetry, automaticGoalLimitStopped
  <2> QED BY <1>1, <1>2, <1>3, <2>1 DEF Aborts
<1>4. CASE ~automaticGoalLimitStopped(th)
  <2>1. KeysKept(th, reset) /\ Goes(th, reset) BY <1>5, CleanKeys
  <2> QED BY <1>1, <1>2, <1>4, <1>5, <2>1 DEF Aborts, SameTimes
<1> QED BY <1>3, <1>4

\* handleTaskCompleteLocked may queue the retry of the turn that has completed.
Completes(before, after, id, time) ==
    /\ \A k \in Nat : HasKey(after, k) => HasKey(before, k) \/ k = id
    /\ after.LastAbortedAt = before.LastAbortedAt
    /\ after.GoalObservedAt = before.GoalObservedAt
    /\ \/ after.RecoveryStartedAt = time
       \/ /\ after.RecoveryStartedAt = before.RecoveryStartedAt
          /\ automaticGoalLimitStopped(before) => automaticGoalLimitStopped(after)
          /\ Clean(before) => Clean(after)
          /\ Goes(before, after) \/ liveRetry(after).fault.EventKey = id

LEMMA ScheduleCompletes ==
    ASSUME NEW th \in ThreadState, th.Pending = Nil, th.Awaiting = Nil,
           NEW ev \in Event, ev.class # "success", NEW time \in Nat, NEW cfg \in Config,
           NEW attempt, NEW consecutive, NEW origin, NEW notified
    PROVE  LET s == scheduleFailure(th, ev, time, cfg, attempt, consecutive, origin, notified)
           IN  /\ \A k \in Nat : HasKey(s, k) => HasKey(th, k) \/ k = ev.turn
               /\ s.LastAbortedAt = th.LastAbortedAt
               /\ s.GoalObservedAt = th.GoalObservedAt
               /\ \/ s.RecoveryStartedAt = time
                  \/ /\ s.RecoveryStartedAt = th.RecoveryStartedAt
                     /\ ~Clean(th)
                     /\ liveRetry(s) = Nil \/ liveRetry(s).fault.EventKey = ev.turn
<1> DEFINE clocked == startClock(th, time)
           blockedNow == /\ th.GoalStatus = "blocked"
                         /\ goalBlockedByFailure(th.GoalUpdatedAt, ev.at)
           t == [clocked EXCEPT !.GoalHeld = @ /\ ~blockedNow]
           fault == [EventKey |-> ev.turn, FailedAt |-> ev.at,
                     OriginTurnStartedAt |-> origin, Class |-> ev.class]
           budget == [Attempt |-> attempt, MaxAttempts |-> recoveryLimit(ev.class, cfg),
                      ConsecutiveRetry |-> consecutive,
                      MaxConsecutive |-> consecutiveLimit(ev.class, cfg)]
           failed == [t EXCEPT !.CurrentTurnProgress = FALSE, !.LastFailureAt = ev.at]
           tooLong == time > t.RecoveryStartedAt + MaxAutomaticRecoveryDuration
           reason == IF tooLong THEN "recovery_time_limit"
                     ELSE budgetStopReason(fault, budget, cfg)
           p == [fault |-> fault, budget |-> budget,
                 DueAt |-> time + retryDelay(consecutive, cfg),
                 DispatchFailures |-> 0, ParentNotified |-> notified,
                 GoalLimitRestart |-> FALSE]
           queued == [failed EXCEPT
                !.RecoveryAttempts = attempt, !.ConsecutiveRetries = consecutive,
                !.Awaiting = Nil, !.Stopped = Nil, !.GoalStop = Nil, !.Pending = p]
           dropped == dropHeldRetry(failed)
           reset == resetRetryState(t)
           stopped == exhaustRetry(failed, fault, budget, reason, FALSE, time)
           s == scheduleFailure(th, ev, time, cfg, attempt, consecutive, origin, notified)
<1>1. s \in {dropped, reset, stopped, queued} BY DEF scheduleFailure
<1>2. /\ clocked \in ThreadState /\ clocked.Stopped = th.Stopped
      /\ clocked.LastAbortedAt = th.LastAbortedAt /\ clocked.GoalObservedAt = th.GoalObservedAt
      /\ \/ clocked.RecoveryStartedAt = time
         \/ clocked.RecoveryStartedAt = th.RecoveryStartedAt /\ ~Clean(th)
  BY DEF startClock, ThreadState, Clean
<1> HIDE DEF clocked, blockedNow
<1>3. t \in ThreadState /\ SameTimes(clocked, t) /\ t.Stopped = clocked.Stopped
  <2> DEFINE held == clocked.GoalHeld /\ ~blockedNow
  <2>1. t = [clocked EXCEPT !.GoalHeld = held] BY <1>2 DEF ThreadState
  <2>2. held \in BOOLEAN OBVIOUS
  <2> HIDE DEF held, t
  <2> QED BY <1>2, <2>1, <2>2 DEF ThreadState, SameTimes
<1> HIDE DEF t
<1>4. SameTimes(t, failed) /\ failed \in ThreadState /\ failed.Stopped = t.Stopped
  <2>1. failed \in ThreadState BY <1>3 DEF ThreadState, Event
  <2>2. SameTimes(t, failed) /\ failed.Stopped = t.Stopped BY <1>3 DEF ThreadState, SameTimes
  <2> QED BY <2>1, <2>2
<1>5. fault.EventKey = ev.turn /\ p.fault = fault OBVIOUS
<1> HIDE DEF failed, p, fault, budget, tooLong, reason
<1>6. /\ queued.Pending = p /\ queued.Awaiting = Nil /\ queued.Stopped = Nil
      /\ SameTimes(failed, queued)
  BY <1>4 DEF ThreadState, SameTimes
<1>7. dropped.Pending = Nil /\ dropped.Awaiting = Nil /\ SameTimes(failed, dropped)
      /\ dropped.Stopped = failed.Stopped
  BY <1>4, EndedLimited, StopFacts
<1>8. SameTimes(t, reset) /\ Clean(reset) BY <1>3, ResetFacts
<1>9. /\ stopped.Pending = Nil /\ stopped.Awaiting = Nil /\ SameTimes(failed, stopped)
      /\ stopped.Stopped.fault = fault
  <2> DEFINE no == FALSE
             gone == exhaustRetry(failed, fault, budget, reason, no, time)
  <2> HIDE DEF no
  <2>1. /\ gone.Pending = Nil /\ gone.Awaiting = Nil /\ SameTimes(failed, gone)
        /\ gone.Stopped.fault = fault
    BY <1>4, EndedLimited, StopFacts
  <2> QED BY <2>1 DEF no
<1> HIDE DEF queued, dropped, reset, stopped, s
<1>10. SameTimes(clocked, s)
  BY <1>1, <1>3, <1>4, <1>6, <1>7, <1>8, <1>9 DEF SameTimes
<1>11. liveRetry(s) = Nil \/ liveRetry(s).fault.EventKey = ev.turn
  BY <1>1, <1>5, <1>6, <1>7, <1>8, <1>9 DEF liveRetry, Clean
<1>12. \A k \in Nat : HasKey(s, k) => HasKey(th, k) \/ k = ev.turn
  BY <1>1, <1>2, <1>3, <1>4, <1>5, <1>6, <1>7, <1>8, <1>9 DEF HasKey, Clean
<1> QED BY <1>2, <1>10, <1>11, <1>12 DEF SameTimes, s

LEMMA CompleteHandled ==
    ASSUME NEW th, Sound(th), NEW ev \in Event, NEW time \in Nat, NEW cfg \in Config
    PROVE  Completes(th, handleTaskComplete(th, ev, time, cfg), ev.turn, time)
<1> DEFINE a == th.Awaiting
           after == handleTaskComplete(th, ev, time, cfg)
           free == [th EXCEPT !.CurrentTurnProgress = FALSE, !.Awaiting = Nil]
           idle == [th EXCEPT !.CurrentTurnProgress = FALSE]
           once == IF th.CurrentTurnProgress THEN 1 ELSE a.budget.ConsecutiveRetry + 1
           next == scheduleFailure(free, ev, time, cfg, a.budget.Attempt + 1, once,
                                   a.fault.OriginTurnStartedAt, a.ParentNotified)
           first == scheduleFailure(idle, ev, time, cfg, 1, 1, externalTurnOrigin(th, ev), FALSE)
<1> SUFFICES Completes(th, after, ev.turn, time) OBVIOUS
<1>1. th \in ThreadState BY DEF Sound
<1>2. \/ after = th
      \/ ~automaticGoalLimitStopped(th) /\ after = resetRetryState(th)
      \/ a # Nil /\ ev.class # "success" /\ after = next
      \/ /\ ~automaticGoalLimitStopped(th) /\ a = Nil /\ th.Pending = Nil
         /\ ev.class # "success" /\ after = first
  BY DEF handleTaskComplete
<1>3. CASE after = th
  <2>1. KeysKept(th, th) /\ Goes(th, th) BY DEF KeysKept, Goes
  <2> QED BY <1>3, <2>1 DEF Completes, KeysKept
<1>4. CASE ~automaticGoalLimitStopped(th) /\ after = resetRetryState(th)
  <2>1. Clean(after) /\ SameTimes(th, after) BY <1>1, <1>4, ResetFacts
  <2> HIDE DEF after
  <2>2. KeysKept(th, after) /\ Goes(th, after) BY <2>1, CleanKeys
  <2> QED BY <1>4, <2>1, <2>2 DEF Completes, KeysKept, SameTimes
<1>5. ASSUME NEW s \in ThreadState, ~automaticGoalLimitStopped(th), SameTimes(th, s),
             Clean(th) => Clean(s), KeysKept(th, s), s.Pending = Nil, s.Awaiting = Nil,
             NEW attempt, NEW consecutive, NEW origin, NEW notified, ev.class # "success",
             after = scheduleFailure(s, ev, time, cfg, attempt, consecutive, origin, notified)
      PROVE  Completes(th, after, ev.turn, time)
  <2> HIDE DEF after
  <2>1. /\ \A k \in Nat : HasKey(after, k) => HasKey(s, k) \/ k = ev.turn
        /\ after.LastAbortedAt = s.LastAbortedAt
        /\ after.GoalObservedAt = s.GoalObservedAt
        /\ \/ after.RecoveryStartedAt = time
           \/ /\ after.RecoveryStartedAt = s.RecoveryStartedAt
              /\ ~Clean(s)
              /\ liveRetry(after) = Nil \/ liveRetry(after).fault.EventKey = ev.turn
    BY <1>5, ScheduleCompletes
  <2>2. liveRetry(after) = Nil => Goes(th, after) BY DEF Goes
  <2> QED BY <1>5, <2>1, <2>2 DEF Completes, KeysKept, SameTimes
<1>6. CASE a # Nil /\ ev.class # "success" /\ after = next
  <2>1. th.Pending = Nil /\ ~automaticGoalLimitStopped(th) BY <1>6, AwaitingFacts, LiveNotStopped
  <2>2. free \in ThreadState BY <1>1 DEF ThreadState
  <2>3. /\ free.Pending = Nil /\ free.Awaiting = Nil /\ free.Stopped = th.Stopped
        /\ SameTimes(th, free)
    BY <1>1, <2>1 DEF ThreadState, SameTimes
  <2> DEFINE attempt == a.budget.Attempt + 1
             origin == a.fault.OriginTurnStartedAt
             notified == a.ParentNotified
  <2>4. after = scheduleFailure(free, ev, time, cfg, attempt, once, origin, notified) BY <1>6
  <2>5. ~Clean(th) BY <1>6 DEF Clean
  <2> HIDE DEF free, next, attempt, once, origin, notified, after
  <2>6. KeysKept(th, free) BY <2>3 DEF KeysKept, HasKey
  <2> QED BY <1>5, <1>6, <2>1, <2>2, <2>3, <2>4, <2>5, <2>6
<1>7. CASE /\ ~automaticGoalLimitStopped(th) /\ a = Nil /\ th.Pending = Nil
           /\ ev.class # "success" /\ after = first
  <2>1. idle \in ThreadState BY <1>1 DEF ThreadState
  <2>2. /\ idle.Pending = Nil /\ idle.Awaiting = Nil /\ idle.Stopped = th.Stopped
        /\ SameTimes(th, idle) /\ SameCounters(th, idle)
    BY <1>1, <1>7 DEF ThreadState, SameTimes, SameCounters
  <2> DEFINE one == 1
             origin == externalTurnOrigin(th, ev)
             notified == FALSE
  <2>3. after = scheduleFailure(idle, ev, time, cfg, one, one, origin, notified) BY <1>7
  <2> HIDE DEF idle, first, one, origin, notified, after
  <2>4. KeysKept(th, idle) /\ (Clean(th) => Clean(idle))
    BY <2>2 DEF KeysKept, HasKey, Clean, SameCounters
  <2> QED BY <1>5, <1>7, <2>1, <2>2, <2>3, <2>4
<1> QED BY <1>2, <1>3, <1>4, <1>6, <1>7

\* handleGoalUpdatedLocked may lift the stop of a goal limit, at the time of its
\* record.
Updates(before, after, at) ==
    /\ KeysKept(before, after)
    /\ after.LastAbortedAt = before.LastAbortedAt
    /\ after.GoalObservedAt >= before.GoalObservedAt
    /\ after.RecoveryStartedAt = before.RecoveryStartedAt
    /\ automaticGoalLimitStopped(before) =>
          automaticGoalLimitStopped(after) \/ after.GoalObservedAt = at
    /\ Clean(before) => Clean(after)
    /\ Goes(before, after)

LEMMA GoalUpdatedHandled ==
    ASSUME NEW th, Sound(th), NEW ev \in Event
    PROVE  Updates(th, handleGoalUpdated(th, ev), ev.at)
<1> DEFINE t == [th EXCEPT !.GoalStatus = ev.status, !.GoalUpdatedAt = ev.updatedAt,
                           !.GoalObservedAt = ev.at]
           hold(held) == [t EXCEPT !.GoalHeld = held]
           yes == TRUE
           ended == resetRetryState(hold(yes))
           after == handleGoalUpdated(th, ev)
           limit == goalUpdatedAfterLimit(th, t)
<1> SUFFICES Updates(th, after, ev.at) OBVIOUS
<1>1. th \in ThreadState BY DEF Sound
<1>2. /\ t \in ThreadState /\ t.Pending = th.Pending /\ t.Awaiting = th.Awaiting
      /\ t.Stopped = th.Stopped /\ SameCounters(th, t)
      /\ t.LastAbortedAt = th.LastAbortedAt /\ t.RecoveryStartedAt = th.RecoveryStartedAt
      /\ t.GoalObservedAt = ev.at
  BY <1>1 DEF ThreadState, Event, SameCounters
<1>3. \/ after = th
      \/ /\ th.GoalObservedAt = 0 \/ ev.at > th.GoalObservedAt
         /\ \/ \E held \in BOOLEAN : after = hold(held)
            \/ after = limit /\ automaticGoalLimitStopped(th)
            \/ after = ended
  <2> DEFINE held == goalRequiresHold(ev.status, ev.updatedAt, th.LastFailureAt)
  <2>1. held \in BOOLEAN /\ yes \in BOOLEAN BY DEF goalRequiresHold
  <2>2. after \in {th, hold(yes), limit, hold(held), ended}
    BY DEF handleGoalUpdated
  <2>3. staleGoalUpdate(th, ev) => after = th BY DEF handleGoalUpdated
  <2>4. after = limit => after = th \/ after \in {hold(yes), hold(held), ended}
                         \/ automaticGoalLimitStopped(th)
    BY DEF handleGoalUpdated
  <2>5. th.GoalObservedAt \in Nat /\ ev.at \in Nat BY <1>1 DEF ThreadState, Event
  <2> HIDE DEF held, t, after, limit, hold, ended, yes
  <2> QED BY <2>1, <2>2, <2>3, <2>4, <2>5 DEF staleGoalUpdate
<1> HIDE DEF t
<1>4. \A held \in BOOLEAN :
         LET s == hold(held)
         IN  /\ s \in ThreadState /\ SameTimes(t, s) /\ SameCounters(t, s)
             /\ s.Pending = th.Pending /\ s.Awaiting = th.Awaiting /\ s.Stopped = th.Stopped
  <2> SUFFICES ASSUME NEW held \in BOOLEAN
               PROVE  LET s == hold(held)
                      IN  /\ s \in ThreadState /\ SameTimes(t, s) /\ SameCounters(t, s)
                          /\ s.Pending = th.Pending /\ s.Awaiting = th.Awaiting
                          /\ s.Stopped = th.Stopped
    OBVIOUS
  <2>1. hold(held) \in ThreadState BY <1>2 DEF ThreadState
  <2>2. LET s == hold(held)
        IN  /\ SameTimes(t, s) /\ SameCounters(t, s)
            /\ s.Pending = th.Pending /\ s.Awaiting = th.Awaiting /\ s.Stopped = th.Stopped
    BY <1>2 DEF ThreadState, SameTimes, SameCounters
  <2> QED BY <2>1, <2>2
<1>5. yes \in BOOLEAN OBVIOUS
<1> HIDE DEF hold, yes
<1>6. Clean(ended) /\ SameTimes(hold(yes), ended) BY <1>4, <1>5, ResetFacts
<1>7. automaticGoalLimitStopped(th) =>
         /\ SameTimes(t, limit) /\ limit.Pending = Nil /\ limit.Awaiting = Nil
         /\ limit.Stopped = Nil \/ limit.Stopped.fault = th.Stopped.fault
  <2> SUFFICES ASSUME automaticGoalLimitStopped(th)
               PROVE  /\ SameTimes(t, limit) /\ limit.Pending = Nil /\ limit.Awaiting = Nil
                      /\ limit.Stopped = Nil \/ limit.Stopped.fault = th.Stopped.fault
    OBVIOUS
  <2>1. th.Pending = Nil /\ th.Awaiting = Nil
    BY PendingFacts, AwaitingFacts DEF automaticGoalLimitStopped
  <2>2. th.Stopped \in StoppedRetry BY <1>1 DEF automaticGoalLimitStopped, ThreadState
  <2> DEFINE named == [th.Stopped EXCEPT !.Reason = "goal_empty_response_limit"]
  <2>3. named.fault = th.Stopped.fault BY <2>2 DEF StoppedRetry
  <2>4. limit.Stopped \in {th.Stopped, Nil, named}
    BY <1>2 DEF goalUpdatedAfterLimit, ThreadState
  <2>5. SameTimes(t, limit) /\ limit.Pending = Nil /\ limit.Awaiting = Nil
    BY <1>2, <2>1 DEF goalUpdatedAfterLimit, ThreadState, SameTimes
  <2> QED BY <2>3, <2>4, <2>5
<1> HIDE DEF after, limit, ended
<1>8. th.GoalObservedAt \in Nat /\ ev.at \in Nat BY <1>1 DEF ThreadState, Event
<1>9. CASE after = th
  <2>1. KeysKept(th, th) /\ Goes(th, th) BY DEF KeysKept, Goes
  <2> QED BY <1>8, <1>9, <2>1 DEF Updates
<1>10. ASSUME th.GoalObservedAt = 0 \/ ev.at > th.GoalObservedAt,
              SameTimes(t, after), KeysKept(th, after), Goes(th, after), Clean(th) => Clean(after)
       PROVE  Updates(th, after, ev.at)
  BY <1>2, <1>8, <1>10 DEF Updates, SameTimes
<1>11. CASE \E held \in BOOLEAN : after = hold(held)
  <2>1. /\ SameTimes(t, after) /\ SameCounters(t, after)
        /\ after.Pending = th.Pending /\ after.Awaiting = th.Awaiting /\ after.Stopped = th.Stopped
    BY <1>4, <1>11
  <2>2. KeysKept(th, after) /\ Goes(th, after) /\ (Clean(th) => Clean(after))
    BY <1>2, <2>1 DEF KeysKept, HasKey, Goes, liveRetry, Clean, SameCounters
  <2> QED BY <1>3, <1>9, <1>10, <2>1, <2>2
<1>12. CASE after = limit /\ automaticGoalLimitStopped(th)
  <2>1. KeysKept(th, after)
    BY <1>7, <1>12 DEF KeysKept, HasKey, automaticGoalLimitStopped
  <2>2. Goes(th, after) /\ ~Clean(th)
    BY <1>7, <1>12 DEF Goes, liveRetry, Clean, automaticGoalLimitStopped
  <2> QED BY <1>3, <1>7, <1>9, <1>10, <1>12, <2>1, <2>2
<1>13. CASE after = ended
  <2>1. KeysKept(th, after) /\ Goes(th, after) BY <1>6, <1>13, CleanKeys
  <2>2. SameTimes(t, after) BY <1>4, <1>5, <1>6, <1>13 DEF SameTimes
  <2> QED BY <1>3, <1>6, <1>9, <1>10, <1>13, <2>1, <2>2
<1> QED BY <1>3, <1>9, <1>11, <1>12, <1>13

\* Every record of a rollout file.
Observes(before, after, ev, time) ==
    CASE ev.kind = "task_complete" -> Completes(before, after, ev.turn, time)
      [] ev.kind = "turn_aborted" -> Aborts(before, after, ev.at)
      [] ev.kind = "thread_goal_updated" -> Updates(before, after, ev.at)
      [] OTHER -> Handles(before, after, time)

LEMMA EventHandled ==
    ASSUME NEW th, Sound(th), NEW ev \in Event, NEW time \in Nat, NEW cfg \in Config
    PROVE  Observes(th, handleEvent(th, ev, time, cfg), ev, time)
<1>1. /\ Handles(th, handleTaskStarted(th, ev), time)
      /\ Handles(th, handleTaskUserInput(th, ev), time)
      /\ Handles(th, handleTaskProgress(th, ev), time)
      /\ Handles(th, handleSubagentRecoveryNotice(th, ev), time)
  BY StartedHandled, UserInputHandled, ProgressHandled, NoticeHandled
<1>2. /\ Completes(th, handleTaskComplete(th, ev, time, cfg), ev.turn, time)
      /\ Aborts(th, handleTurnAborted(th, ev), ev.at)
      /\ Updates(th, handleGoalUpdated(th, ev), ev.at)
  BY CompleteHandled, AbortedHandled, GoalUpdatedHandled
<1> QED BY <1>1, <1>2 DEF handleEvent, Observes, Event, EventKinds

----------------------------------------------------------------------------
(* Settings, commands and probes, while a job of the thread is under way.  *)

\* A retry with another budget, deadline or mark is the same retry.
LEMMA AlikeMarked ==
    ASSUME NEW th, Sound(th), th.Awaiting # Nil, NEW a \in AwaitingRetry,
           a.fault = th.Awaiting.fault, a.budget.Attempt = th.Awaiting.budget.Attempt,
           a.DispatchStartedAt = th.Awaiting.DispatchStartedAt
    PROVE  Alike(th, [th EXCEPT !.Awaiting = a])
<1> DEFINE s == [th EXCEPT !.Awaiting = a]
<1>1. th \in ThreadState /\ a # Nil BY NilAssumption DEF Sound
<1>2. /\ s.Pending = th.Pending /\ s.Awaiting = a /\ s.Stopped = th.Stopped
      /\ SameTimes(th, s) /\ SameCounters(th, s)
  BY <1>1 DEF ThreadState, SameTimes, SameCounters
<1> HIDE DEF s
<1>3. Alike(th, s) BY <1>1, <1>2 DEF Alike, AlikeRetry
<1> QED BY <1>3 DEF s

LEMMA AlikeQueued ==
    ASSUME NEW th, Sound(th), th.Pending # Nil, NEW p \in PendingRetry,
           p.fault = th.Pending.fault, p.budget.Attempt = th.Pending.budget.Attempt
    PROVE  Alike(th, [th EXCEPT !.Pending = p])
<1> DEFINE s == [th EXCEPT !.Pending = p]
<1>1. th \in ThreadState /\ p # Nil BY NilAssumption DEF Sound
<1>2. /\ s.Pending = p /\ s.Awaiting = th.Awaiting /\ s.Stopped = th.Stopped
      /\ SameTimes(th, s) /\ SameCounters(th, s)
  BY <1>1 DEF ThreadState, SameTimes, SameCounters
<1> HIDE DEF s
<1>3. Alike(th, s) BY <1>1, <1>2 DEF Alike, AlikeRetry
<1> QED BY <1>3 DEF s

LEMMA ReloadHandled ==
    ASSUME NEW th, Sound(th), NEW cfg \in Config, NEW at, NEW time
    PROVE  Handles(th, reloadLimits(th, cfg, at), time)
<1> DEFINE relimit(retry) ==
             IF retry = Nil THEN Nil
             ELSE [retry EXCEPT !.budget = withLimits(retry.budget, retry.fault.Class, cfg)]
           a == relimit(th.Awaiting)
           p == relimit(th.Pending)
           t == [th EXCEPT !.Awaiting = a, !.Pending = p]
           reason == budgetStopReason(p.fault, p.budget, cfg)
           no == FALSE
           stopped == exhaustRetry(t, p.fault, p.budget, reason, no, at)
           after == reloadLimits(th, cfg, at)
           given(q) == IF q # Nil /\ overBudget(q.budget)
                       THEN exhaustRetry(t, q.fault, q.budget,
                                         budgetStopReason(q.fault, q.budget, cfg), no, at)
                       ELSE t
<1> SUFFICES Handles(th, after, time) OBVIOUS
<1>1. th \in ThreadState BY DEF Sound
<1>2. after = given(t.Pending) BY DEF reloadLimits
<1>3. p \in PendingRetry \cup {Nil} /\ AlikeRetry(th.Pending, p)
  <2>1. CASE th.Pending = Nil BY <2>1 DEF AlikeRetry
  <2>2. CASE th.Pending # Nil
    <3> DEFINE b == withLimits(th.Pending.budget, th.Pending.fault.Class, cfg)
    <3>1. th.Pending \in PendingRetry BY <2>2, PendingFacts
    <3>2. b \in Budget /\ b.Attempt = th.Pending.budget.Attempt
      BY <3>1, WithLimitsType DEF PendingRetry, Fault
    <3>3. p = [th.Pending EXCEPT !.budget = b] BY <2>2
    <3> HIDE DEF b, p
    <3>4. p \in PendingRetry /\ p.fault = th.Pending.fault /\ p.budget = b
      BY <3>1, <3>2, <3>3 DEF PendingRetry
    <3> QED BY <2>2, <3>2, <3>4, NilAssumption DEF AlikeRetry
  <2> QED BY <2>1, <2>2
<1>4. /\ a \in AwaitingRetry \cup {Nil} /\ AlikeRetry(th.Awaiting, a)
      /\ th.Awaiting # Nil => a.DispatchStartedAt = th.Awaiting.DispatchStartedAt
  <2>1. CASE th.Awaiting = Nil BY <2>1 DEF AlikeRetry
  <2>2. CASE th.Awaiting # Nil
    <3> DEFINE b == withLimits(th.Awaiting.budget, th.Awaiting.fault.Class, cfg)
    <3>1. th.Awaiting \in AwaitingRetry BY <2>2, AwaitingFacts
    <3>2. b \in Budget /\ b.Attempt = th.Awaiting.budget.Attempt
      BY <3>1, WithLimitsType DEF AwaitingRetry, Fault
    <3>3. a = [th.Awaiting EXCEPT !.budget = b] BY <2>2
    <3> HIDE DEF b, a
    <3>4. /\ a \in AwaitingRetry /\ a.fault = th.Awaiting.fault /\ a.budget = b
          /\ a.DispatchStartedAt = th.Awaiting.DispatchStartedAt
      BY <3>1, <3>2, <3>3 DEF AwaitingRetry
    <3> QED BY <2>2, <3>2, <3>4, NilAssumption DEF AlikeRetry
  <2> QED BY <2>1, <2>2
<1> HIDE DEF a, p
<1>5. /\ t.Pending = p /\ t.Awaiting = a /\ t.Stopped = th.Stopped
      /\ SameTimes(th, t) /\ SameCounters(th, t)
  BY <1>1 DEF ThreadState, SameTimes, SameCounters
<1>6. t \in ThreadState BY <1>1, <1>3, <1>4 DEF ThreadState
<1> HIDE DEF t, no
<1>10. after = t \/ (p # Nil /\ after = stopped)
  <2>1. (p # Nil => given(p) \in {stopped, t}) /\ (p = Nil => given(p) = t) OBVIOUS
  <2> HIDE DEF given, stopped, after
  <2>2. after = given(p) BY <1>2, <1>5
  <2> QED BY <2>1, <2>2
<1> HIDE DEF reason, given
<1>7. /\ stopped.Pending = Nil /\ stopped.Awaiting = Nil /\ SameTimes(t, stopped)
      /\ stopped.Stopped.fault = p.fault
  BY <1>6, EndedLimited, StopFacts
<1> HIDE DEF stopped, after
<1>8. CASE after = t
  <2>1. Alike(th, t) BY <1>3, <1>4, <1>5 DEF Alike
  <2> QED BY <1>1, <1>8, <2>1, AlikeHandled
<1>9. CASE p # Nil /\ after = stopped
  <2>1. th.Pending # Nil /\ p.fault = th.Pending.fault BY <1>3, <1>9 DEF AlikeRetry
  <2>2. SameTimes(th, stopped) BY <1>5, <1>7 DEF SameTimes
  <2>3. HasKey(th, p.fault.EventKey) BY <2>1 DEF HasKey
  <2>4. KeysKept(th, stopped) BY <1>7, <2>3, StopKeys
  <2> QED BY <1>7, <1>9, <2>1, <2>2, <2>4, EndHandled
<1> QED BY <1>8, <1>9, <1>10

LEMMA CommandHandled ==
    ASSUME NEW th, Sound(th), NEW action, NEW time \in Nat, NEW cfg \in Config
    PROVE  Handles(th, applyControlCommand(th, action, time, cfg), time)
<1>1. th \in ThreadState BY DEF Sound
<1>2. Handles(th, th, time) BY <1>1, SameHandled
<1>3. Handles(th, commandRetryNow(th, time), time)
  <2>1. CASE th.Pending = Nil BY <1>2, <2>1 DEF commandRetryNow
  <2>2. CASE th.Pending # Nil
    <3> DEFINE p == [th.Pending EXCEPT !.DueAt = time]
    <3>1. p \in PendingRetry /\ p.fault = th.Pending.fault /\ p.budget = th.Pending.budget
      BY <2>2, PendingFacts DEF PendingRetry
    <3>2. commandRetryNow(th, time) = [th EXCEPT !.Pending = p]
      BY <1>1, <2>2 DEF commandRetryNow, ThreadState
    <3> HIDE DEF p
    <3>3. Alike(th, commandRetryNow(th, time)) BY <2>2, <3>1, <3>2, AlikeQueued
    <3> QED BY <1>1, <3>3, AlikeHandled
  <2> QED BY <2>1, <2>2
<1>4. Handles(th, commandCancelRetry(th), time)
  <2>1. CASE th.Pending = Nil BY <1>2, <2>1 DEF commandCancelRetry
  <2>2. CASE th.Pending # Nil
    <3> DEFINE s == commandCancelRetry(th)
    <3>1. s.Pending = Nil /\ s.Awaiting = Nil /\ s.Stopped = Nil /\ SameTimes(th, s)
      BY <1>1, <2>2, PendingFacts DEF commandCancelRetry, ThreadState, SameTimes
    <3> HIDE DEF s
    <3>2. KeysKept(th, s) BY <3>1 DEF KeysKept, HasKey
    <3>3. Handles(th, s, time) BY <2>2, <3>1, <3>2, EndHandled
    <3> QED BY <3>3 DEF s
  <2> QED BY <2>1, <2>2
<1>5. Handles(th, commandRestartRetry(th, time, cfg), time)
  <2>1. CASE th.Stopped = Nil BY <1>2, <2>1 DEF commandRestartRetry
  <2>2. CASE th.Stopped # Nil
    <3> DEFINE after == commandRestartRetry(th, time, cfg)
    <3>1. th.Pending = Nil /\ th.Awaiting = Nil BY <2>2, PendingFacts, AwaitingFacts
    <3>2. /\ after.Awaiting = Nil /\ after.Stopped = Nil
          /\ after.LastAbortedAt = th.LastAbortedAt /\ after.GoalObservedAt = th.GoalObservedAt
          /\ after.RecoveryStartedAt = time
          /\ after.Pending.fault = th.Stopped.fault
      BY <1>1, <2>2, <3>1 DEF commandRestartRetry, ThreadState
    <3> HIDE DEF after
    <3>3. KeysKept(th, after) BY <2>2, <3>2 DEF KeysKept, HasKey
    <3>4. Handles(th, after, time) BY <1>1, <3>2, <3>3, ThreadTimes DEF Handles
    <3> QED BY <3>4 DEF after
  <2> QED BY <2>1, <2>2
<1> QED BY <1>2, <1>3, <1>4, <1>5 DEF applyControlCommand

\* The dispatched retry stops, or goes back to the queue.
LEMMA StopsFacts ==
    ASSUME NEW th \in ThreadState, NEW reason
    PROVE  /\ LET s == stopAwaitingForController(th, reason)
              IN  /\ s.Pending = Nil /\ s.Awaiting = Nil /\ SameTimes(th, s)
                  /\ s.Stopped.fault = th.Awaiting.fault
           /\ LET s == stopPendingForController(th, reason)
              IN  /\ s.Pending = Nil /\ s.Awaiting = Nil /\ SameTimes(th, s)
                  /\ s.Stopped.fault = th.Pending.fault
BY DEF stopAwaitingForController, stopPendingForController, stopRetry, ThreadState, SameTimes

LEMMA RequeuedFacts ==
    ASSUME NEW th \in ThreadState, NEW budget, NEW due, NEW tries
    PROVE  LET s == requeue(th, budget, due, tries)
           IN  /\ s.Pending # Nil => s.Pending.fault = th.Awaiting.fault /\ s.Pending.budget = budget
               /\ s.Awaiting = Nil /\ s.Stopped = th.Stopped /\ SameTimes(th, s)
               /\ DOMAIN s = DOMAIN th
<1> DEFINE p == queuedRetry(th.Awaiting, budget, due, tries, th.Awaiting.ParentNotified)
           s == requeue(th, budget, due, tries)
<1>1. p.budget = budget /\ p.fault = th.Awaiting.fault BY DEF queuedRetry
<1>2. s = [th EXCEPT !.Awaiting = Nil, !.Pending = p] BY DEF requeue
<1> HIDE DEF p, s
<1>3. /\ s.Pending = p /\ s.Awaiting = Nil /\ s.Stopped = th.Stopped /\ SameTimes(th, s)
      /\ DOMAIN s = DOMAIN th
  BY <1>2 DEF ThreadState, SameTimes
<1> QED BY <1>1, <1>3 DEF s

\* reconcileAwaitingLifecycle remembers when it asked.
LEMMA CheckHandled ==
    ASSUME NEW th, Sound(th), th.Awaiting # Nil, NEW asked \in Nat, NEW time
    PROVE  Handles(th, [th EXCEPT !.Awaiting = [@ EXCEPT !.LastLifecycleCheckAt = asked]], time)
<1> DEFINE a == [th.Awaiting EXCEPT !.LastLifecycleCheckAt = asked]
<1>1. th \in ThreadState BY DEF Sound
<1>2. /\ a \in AwaitingRetry /\ a.fault = th.Awaiting.fault /\ a.budget = th.Awaiting.budget
      /\ a.DispatchStartedAt = th.Awaiting.DispatchStartedAt
  BY AwaitingFacts DEF AwaitingRetry
<1>3. [th EXCEPT !.Awaiting = [@ EXCEPT !.LastLifecycleCheckAt = asked]] = [th EXCEPT !.Awaiting = a]
  BY <1>1 DEF ThreadState
<1> HIDE DEF a
<1>4. Alike(th, [th EXCEPT !.Awaiting = a]) BY <1>2, AlikeMarked
<1>5. Handles(th, [th EXCEPT !.Awaiting = a], time) BY <1>1, <1>4, AlikeHandled
<1> QED BY <1>3, <1>5

LEMMA ProbeHandled ==
    ASSUME NEW th, Sound(th), th.Awaiting # Nil,
           NEW time \in Nat, NEW cfg \in Config, NEW reason
    PROVE  /\ Handles(th, probeFailed(th, reason, cfg), time)
           /\ Handles(th, probeFoundActive(th), time)
           /\ Handles(th, probeFoundIdle(th, time, cfg), time)
<1>1. th \in ThreadState /\ th.Pending = Nil /\ th.Awaiting \in AwaitingRetry
  BY AwaitingFacts DEF Sound
<1>2. HasKey(th, th.Awaiting.fault.EventKey) BY DEF HasKey
<1>3. ASSUME NEW a \in AwaitingRetry,
             a.fault = th.Awaiting.fault, a.budget = th.Awaiting.budget,
             a.DispatchStartedAt = th.Awaiting.DispatchStartedAt
      PROVE  Alike(th, [th EXCEPT !.Awaiting = a]) /\ Handles(th, [th EXCEPT !.Awaiting = a], time)
  <2>1. Alike(th, [th EXCEPT !.Awaiting = a]) BY <1>3, AlikeMarked
  <2> QED BY <1>1, <2>1, AlikeHandled
<1>4. Handles(th, probeFailed(th, reason, cfg), time)
  <2> DEFINE stop == stopAwaitingForController(th, reason)
             n == th.Awaiting.DispatchFailures + 1
             a == [th.Awaiting EXCEPT !.DispatchFailures = n]
  <2>1. probeFailed(th, reason, cfg) \in {stop, [th EXCEPT !.Awaiting = a]}
    BY <1>1 DEF probeFailed, ThreadState
  <2>2. n \in Nat BY <1>1 DEF AwaitingRetry
  <2>3. /\ stop.Pending = Nil /\ stop.Awaiting = Nil /\ SameTimes(th, stop)
        /\ stop.Stopped.fault = th.Awaiting.fault
    BY <1>1, StopsFacts
  <2> HIDE DEF stop, n
  <2>4. /\ a \in AwaitingRetry /\ a.fault = th.Awaiting.fault /\ a.budget = th.Awaiting.budget
        /\ a.DispatchStartedAt = th.Awaiting.DispatchStartedAt
    BY <1>1, <2>2 DEF AwaitingRetry
  <2> HIDE DEF a
  <2>5. KeysKept(th, stop) BY <1>2, <2>3, StopKeys
  <2>6. Handles(th, stop, time) BY <2>3, <2>5, EndHandled
  <2>7. Handles(th, [th EXCEPT !.Awaiting = a], time) BY <1>3, <2>4
  <2> QED BY <2>1, <2>6, <2>7
<1>5. Handles(th, probeFoundActive(th), time)
  <2> DEFINE a == [th.Awaiting EXCEPT !.DispatchFailures = 0, !.LifecycleChecks = 0]
  <2>1. /\ a \in AwaitingRetry /\ a.fault = th.Awaiting.fault /\ a.budget = th.Awaiting.budget
        /\ a.DispatchStartedAt = th.Awaiting.DispatchStartedAt
    BY <1>1 DEF AwaitingRetry
  <2>2. probeFoundActive(th) = [th EXCEPT !.Awaiting = a]
    BY <1>1 DEF probeFoundActive, ThreadState
  <2> HIDE DEF a
  <2>3. Handles(th, [th EXCEPT !.Awaiting = a], time) BY <1>3, <2>1
  <2> QED BY <2>2, <2>3
<1>6. Handles(th, probeFoundIdle(th, time, cfg), time)
  <2> DEFINE a == foundIdleOnce(th.Awaiting)
             t == [th EXCEPT !.Awaiting = a]
  <2>1. probeFoundIdle(th, time, cfg) \in {t, advanceInactiveAwaiting(t, time, cfg)}
    BY <1>1 DEF probeFoundIdle, ThreadState
  <2>2. /\ a \in AwaitingRetry /\ a.fault = th.Awaiting.fault /\ a.budget = th.Awaiting.budget
        /\ a.DispatchStartedAt = th.Awaiting.DispatchStartedAt
    <3> DEFINE n == th.Awaiting.LifecycleChecks + 1
    <3>1. n \in Nat BY <1>1 DEF AwaitingRetry
    <3>2. a = [th.Awaiting EXCEPT !.DispatchFailures = 0, !.LifecycleChecks = n]
      BY <1>1 DEF foundIdleOnce, AwaitingRetry
    <3> HIDE DEF n, a
    <3> QED BY <1>1, <3>1, <3>2 DEF AwaitingRetry
  <2> HIDE DEF a
  <2>3. Handles(th, t, time) BY <1>3, <2>2
  <2>4. /\ t \in ThreadState /\ t.Pending = Nil /\ t.Awaiting = a /\ SameTimes(th, t)
        /\ t.Stopped = th.Stopped
    <3>1. t \in ThreadState BY <1>1, <2>2 DEF ThreadState
    <3>2. t.Awaiting = a /\ t.Pending = Nil /\ SameTimes(th, t) /\ t.Stopped = th.Stopped
      BY <1>1 DEF ThreadState, SameTimes
    <3> QED BY <3>1, <3>2
  <2> HIDE DEF t
  <2> DEFINE once == IF t.CurrentTurnProgress THEN 1 ELSE a.budget.ConsecutiveRetry + 1
             next == [a.budget EXCEPT !.Attempt = @ + 1, !.ConsecutiveRetry = once]
             u == [t EXCEPT !.CurrentTurnProgress = FALSE]
             reason2 == budgetStopReason(a.fault, next, cfg)
             stopped(historical) == exhaustRetry(u, a.fault, next, reason2, historical, time)
             due == time + retryDelay(next.ConsecutiveRetry, cfg)
             back == requeue(u, next, due, a.DispatchFailures)
             queued == [back EXCEPT !.RecoveryAttempts = next.Attempt,
                                    !.ConsecutiveRetries = next.ConsecutiveRetry,
                                    !.Stopped = Nil, !.GoalStop = Nil]
  <2>5. \/ \E historical : advanceInactiveAwaiting(t, time, cfg) = stopped(historical)
        \/ advanceInactiveAwaiting(t, time, cfg) = queued
    BY <2>2, <2>4 DEF advanceInactiveAwaiting, AwaitingRetry, Budget
  <2>6. u \in ThreadState /\ u.Awaiting = a /\ SameTimes(t, u) /\ u.Stopped = t.Stopped
    <3>1. u \in ThreadState BY <2>4 DEF ThreadState
    <3>2. u.Awaiting = a /\ SameTimes(t, u) /\ u.Stopped = t.Stopped
      BY <2>4 DEF ThreadState, SameTimes
    <3> QED BY <3>1, <3>2
  <2>7. next.Attempt = th.Awaiting.budget.Attempt + 1 /\ th.Awaiting.budget.Attempt \in Nat
    BY <1>1, <2>2 DEF AwaitingRetry, Budget
  <2> HIDE DEF u, next, reason2, due
  <2>8. \A historical : /\ stopped(historical).Pending = Nil /\ stopped(historical).Awaiting = Nil
                        /\ SameTimes(u, stopped(historical))
                        /\ stopped(historical).Stopped.fault = a.fault
    BY <2>6, EndedLimited, StopFacts
  <2>9. /\ back.Pending # Nil => back.Pending.fault = a.fault /\ back.Pending.budget = next
        /\ back.Awaiting = Nil /\ SameTimes(u, back) /\ DOMAIN back = DOMAIN u
    BY <2>6, RequeuedFacts
  <2> HIDE DEF back
  <2>10. /\ queued.Pending = back.Pending /\ queued.Awaiting = Nil /\ queued.Stopped = Nil
         /\ SameTimes(back, queued)
    BY <2>6, <2>9 DEF ThreadState, SameTimes
  <2> HIDE DEF stopped, queued
  <2>11. ASSUME NEW historical PROVE Handles(th, stopped(historical), time)
    <3> DEFINE s == stopped(historical)
    <3>1. /\ s.Pending = Nil /\ s.Awaiting = Nil /\ SameTimes(th, s)
          /\ s.Stopped.fault = th.Awaiting.fault
      BY <2>2, <2>4, <2>6, <2>8 DEF SameTimes
    <3> HIDE DEF s
    <3>2. KeysKept(th, s) BY <1>2, <3>1, StopKeys
    <3>3. Handles(th, s, time) BY <3>1, <3>2, EndHandled
    <3> QED BY <3>3 DEF s
  <2>12. Handles(th, queued, time)
    <3>1. SameTimes(th, queued) BY <2>4, <2>6, <2>9, <2>10 DEF SameTimes
    <3>2. KeysKept(th, queued) BY <2>2, <2>9, <2>10 DEF KeysKept, HasKey
    <3>3. liveRetry(queued) = queued.Pending /\ liveRetry(th) = th.Awaiting
      BY <1>1, <2>10 DEF liveRetry
    <3>4. Goes(th, queued) BY <2>2, <2>7, <2>9, <2>10, <3>3 DEF Goes
    <3>5. ~Clean(th) /\ ~automaticGoalLimitStopped(th) BY LiveNotStopped DEF Clean
    <3> QED BY <1>1, <3>1, <3>2, <3>4, <3>5, ThreadTimes DEF Handles, SameTimes
  <2> QED BY <2>1, <2>3, <2>5, <2>11, <2>12
<1> QED BY <1>4, <1>5, <1>6

\* dispatchDueLocked for a thread that is held, or that cannot be served.
LEMMA DispatchHandled ==
    ASSUME NEW th, Sound(th), NEW time, NEW reason
    PROVE  /\ Handles(th, clearHeldRetry(th), time)
           /\ th.Pending # Nil => Handles(th, stopPendingForController(th, reason), time)
<1>1. th \in ThreadState BY DEF Sound
<1>2. Handles(th, clearHeldRetry(th), time)
  <2>1. CASE th.Pending # Nil \/ th.Awaiting # Nil
    <3> DEFINE s == clearHeldRetry(th)
    <3>1. /\ s.Pending = Nil /\ s.Awaiting = Nil /\ s.Stopped = Nil /\ SameTimes(th, s)
      BY <1>1, <2>1 DEF clearHeldRetry, dropHeldRetry, ThreadState, SameTimes
    <3> HIDE DEF s
    <3>2. KeysKept(th, s) BY <3>1 DEF KeysKept, HasKey
    <3>3. Handles(th, s, time) BY <2>1, <3>1, <3>2, EndHandled
    <3> QED BY <3>3 DEF s
  <2>2. CASE ~(th.Pending # Nil \/ th.Awaiting # Nil)
    BY <1>1, <2>2, SameHandled DEF clearHeldRetry
  <2> QED BY <2>1, <2>2
<1>3. ASSUME th.Pending # Nil PROVE Handles(th, stopPendingForController(th, reason), time)
  <2> DEFINE s == stopPendingForController(th, reason)
  <2>1. /\ s.Pending = Nil /\ s.Awaiting = Nil /\ SameTimes(th, s)
        /\ s.Stopped.fault = th.Pending.fault
    BY <1>1, StopsFacts
  <2> HIDE DEF s
  <2>2. HasKey(th, th.Pending.fault.EventKey) BY <1>3 DEF HasKey
  <2>3. KeysKept(th, s) BY <2>1, <2>2, StopKeys
  <2>4. Handles(th, s, time) BY <1>3, <2>1, <2>3, EndHandled
  <2> QED BY <2>4 DEF s
<1> QED BY <1>2, <1>3

----------------------------------------------------------------------------
(* The other handlers: what the thread remembers.                          *)

Remembers(before, after) ==
    KeysKept(before, after) /\ after.LastAbortedAt = before.LastAbortedAt

LEMMA HandlesRemembers ==
    ASSUME NEW before, NEW after, NEW time, Handles(before, after, time)
    PROVE  Remembers(before, after)
BY DEF Handles, Remembers

LEMMA SameRemembers ==
    ASSUME NEW th
    PROVE  Remembers(th, th)
BY DEF Remembers, KeysKept

\* Only the failure that the dispatched retry was about is left of it.
LEMMA MovedRemembers ==
    ASSUME NEW before, NEW after, after.LastAbortedAt = before.LastAbortedAt,
           NEW fault, HasKey(before, fault.EventKey),
           after.Pending # Nil => after.Pending.fault = fault,
           after.Awaiting # Nil => after.Awaiting.fault = fault,
           after.Stopped \in {before.Stopped, Nil} \/ after.Stopped.fault = fault
    PROVE  Remembers(before, after)
BY DEF Remembers, KeysKept, HasKey

LEMMA ReopenRemembers ==
    ASSUME NEW th, Sound(th), NEW time, NEW cfg
    PROVE  Remembers(th, reopenRestartRequired(th, time, cfg))
<1> DEFINE after == reopenRestartRequired(th, time, cfg)
<1> SUFFICES Remembers(th, after) OBVIOUS
<1>1. CASE after = th BY <1>1, SameRemembers
<1>2. CASE after # th
  <2>1. canReopenTransportRetry(th, time) BY <1>2 DEF reopenRestartRequired
  <2>2. th.Stopped # Nil /\ th.Awaiting = Nil BY <2>1, Zenon DEF canReopenTransportRetry
  <2>3. /\ after.LastAbortedAt = th.LastAbortedAt /\ after.Awaiting = th.Awaiting
        /\ after.Stopped = Nil /\ after.Pending.fault = th.Stopped.fault
    BY <1>2 DEF reopenRestartRequired, Sound, ThreadState
  <2> HIDE DEF after
  <2>4. HasKey(th, th.Stopped.fault.EventKey) BY <2>2 DEF HasKey
  <2> QED BY <2>2, <2>3, <2>4, MovedRemembers
<1> QED BY <1>1, <1>2

LEMMA RescheduleRemembers ==
    ASSUME NEW th, th.Awaiting # Nil, NEW told \in ThreadState,
           told.Awaiting.fault = th.Awaiting.fault, told.LastAbortedAt = th.LastAbortedAt,
           told.Stopped = th.Stopped, NEW time, NEW reason, NEW counted, NEW cfg
    PROVE  Remembers(th, rescheduleAwaitingWithPolicy(told, time, reason, counted, cfg))
<1> DEFINE tries == told.Awaiting.DispatchFailures + (IF counted THEN 1 ELSE 0)
           due == time + retryDelay(IF tries = 0 THEN 1 ELSE tries, cfg)
           back == requeue(told, told.Awaiting.budget, due, tries)
           stop == stopAwaitingForController(told, reason)
<1>1. rescheduleAwaitingWithPolicy(told, time, reason, counted, cfg) \in {stop, back}
  BY DEF rescheduleAwaitingWithPolicy
<1>2. /\ stop.Pending = Nil /\ stop.Awaiting = Nil /\ SameTimes(told, stop)
      /\ stop.Stopped.fault = told.Awaiting.fault
  BY StopsFacts
<1> HIDE DEF tries, due, stop
<1>3. /\ back.Pending # Nil => back.Pending.fault = told.Awaiting.fault
      /\ back.Awaiting = Nil /\ back.Stopped = told.Stopped /\ SameTimes(told, back)
  BY RequeuedFacts
<1> HIDE DEF back
<1>4. HasKey(th, th.Awaiting.fault.EventKey) BY DEF HasKey
<1>5. Remembers(th, stop) BY <1>2, <1>4, MovedRemembers DEF SameTimes
<1>6. Remembers(th, back) BY <1>3, <1>4, MovedRemembers DEF SameTimes
<1> QED BY <1>1, <1>5, <1>6

LEMMA ExpireRemembers ==
    ASSUME NEW th, Sound(th), NEW time, NEW cfg
    PROVE  Remembers(th, expireUnacknowledged(th, time, cfg))
<1> DEFINE reason == "start_not_acknowledged"
           counted == TRUE
           after == expireUnacknowledged(th, time, cfg)
<1> SUFFICES Remembers(th, after) OBVIOUS
<1>1. after = th \/ (th.Awaiting # Nil
                     /\ after = rescheduleAwaitingWithPolicy(th, time, reason, counted, cfg))
  BY DEF expireUnacknowledged, startOverdue
<1> HIDE DEF reason, counted, after
<1>2. th \in ThreadState BY DEF Sound
<1> QED BY <1>1, <1>2, SameRemembers, RescheduleRemembers

LEMMA StartRemembers ==
    ASSUME NEW th, Sound(th), th.Pending # Nil, NEW time, NEW cfg
    PROVE  /\ Remembers(th, startDispatch(th, time, cfg))
           /\ startDispatch(th, time, cfg).Awaiting.fault = th.Pending.fault
           /\ startDispatch(th, time, cfg).Awaiting.budget = th.Pending.budget
           /\ startDispatch(th, time, cfg).Awaiting.DispatchStartedAt = time
           /\ startDispatch(th, time, cfg).Pending = Nil
<1> DEFINE after == startDispatch(th, time, cfg)
<1>1. /\ after.Pending = Nil /\ after.Stopped = th.Stopped
      /\ after.LastAbortedAt = th.LastAbortedAt
  BY DEF Sound, startDispatch, ThreadState
<1>2. /\ after.Awaiting.fault = th.Pending.fault
      /\ after.Awaiting.budget = th.Pending.budget
      /\ after.Awaiting.DispatchStartedAt = time
  BY DEF Sound, startDispatch, ThreadState
<1> HIDE DEF after
<1>3. HasKey(th, th.Pending.fault.EventKey) BY DEF HasKey
<1>4. Remembers(th, after) BY <1>1, <1>2, <1>3, MovedRemembers
<1> QED BY <1>1, <1>2, <1>4 DEF after

\* runJob.
LEMMA ResultRemembers ==
    ASSUME NEW th, Sound(th), th.Awaiting # Nil, NEW notified,
           NEW time, NEW reason, NEW cfg, NEW skip, NEW action
    PROVE  LET told == notifyParent(th, notified)
           IN  /\ Remembers(th, rescheduleAwaitingWithPolicy(told, time, reason, TRUE, cfg))
               /\ Remembers(th, dispatchUserActive(told, reason, time, cfg))
               /\ Remembers(th, dispatchAccepted(told, action, time, cfg))
               /\ Remembers(th, dispatchNotApplicable(th, skip))
<1> DEFINE told == notifyParent(th, notified)
           heard == [th.Awaiting EXCEPT !.ParentNotified = TRUE]
           b == told.Awaiting
<1>1. th \in ThreadState /\ th.Awaiting \in AwaitingRetry /\ th.Pending = Nil
  BY AwaitingFacts DEF Sound
<1>2. told = th \/ told = [th EXCEPT !.Awaiting = heard]
  BY <1>1 DEF notifyParent, ThreadState
<1>3. heard \in AwaitingRetry /\ heard.fault = th.Awaiting.fault
  BY <1>1 DEF AwaitingRetry
<1> HIDE DEF heard, told
<1>4. /\ told \in ThreadState /\ b \in AwaitingRetry /\ told.Pending = Nil
      /\ told.LastAbortedAt = th.LastAbortedAt /\ told.Stopped = th.Stopped
      /\ b.fault = th.Awaiting.fault
  <2>1. CASE told = th BY <1>1, <2>1
  <2>2. CASE told = [th EXCEPT !.Awaiting = heard]
    <3>1. told \in ThreadState BY <1>1, <1>3, <2>2 DEF ThreadState
    <3>2. /\ b = heard /\ told.Pending = Nil
          /\ told.LastAbortedAt = th.LastAbortedAt /\ told.Stopped = th.Stopped
      BY <1>1, <2>2 DEF ThreadState
    <3> QED BY <1>3, <3>1, <3>2
  <2> QED BY <1>2, <2>1, <2>2
<1>5. HasKey(th, th.Awaiting.fault.EventKey) BY DEF HasKey
<1>6. Remembers(th, rescheduleAwaitingWithPolicy(told, time, reason, TRUE, cfg))
  <2> DEFINE counted == TRUE
  <2> HIDE DEF counted
  <2>1. Remembers(th, rescheduleAwaitingWithPolicy(told, time, reason, counted, cfg))
    BY <1>4, RescheduleRemembers
  <2> QED BY <2>1 DEF counted
<1>7. Remembers(th, dispatchUserActive(told, reason, time, cfg))
  <2> DEFINE a == [b EXCEPT !.DispatchFailures = 0]
             s == [told EXCEPT !.Awaiting = a]
             counted == FALSE
  <2>1. a \in AwaitingRetry /\ a.fault = b.fault BY <1>4 DEF AwaitingRetry
  <2>2. dispatchUserActive(told, reason, time, cfg)
          = rescheduleAwaitingWithPolicy(s, time, reason, counted, cfg)
    BY <1>4 DEF dispatchUserActive, ThreadState
  <2> HIDE DEF a, counted
  <2>3. /\ s \in ThreadState /\ s.Awaiting = a /\ s.LastAbortedAt = told.LastAbortedAt
        /\ s.Stopped = told.Stopped
    <3>1. s \in ThreadState BY <1>4, <2>1 DEF ThreadState
    <3>2. /\ s.Awaiting = a /\ s.LastAbortedAt = told.LastAbortedAt
          /\ s.Stopped = told.Stopped
      BY <1>4 DEF ThreadState
    <3> QED BY <3>1, <3>2
  <2> HIDE DEF s, b
  <2> QED BY <1>4, <2>1, <2>2, <2>3, RescheduleRemembers
<1>8. Remembers(th, dispatchAccepted(told, action, time, cfg))
  <2> DEFINE late == time + cfg.StartAckTimeout
             a == [b EXCEPT !.Action = action, !.DispatchFailures = 0, !.StartDeadline = late]
             s == [told EXCEPT !.Awaiting = a]
  <2>1. a.fault = b.fault BY <1>4 DEF AwaitingRetry
  <2>2. dispatchAccepted(told, action, time, cfg) = s
    BY <1>4 DEF dispatchAccepted, ThreadState
  <2> HIDE DEF a, late
  <2>3. /\ s.Pending = Nil /\ s.Awaiting = a /\ s.LastAbortedAt = told.LastAbortedAt
        /\ s.Stopped = told.Stopped
    BY <1>4 DEF ThreadState
  <2> HIDE DEF s, b
  <2>4. Remembers(th, s) BY <1>4, <1>5, <2>1, <2>3, MovedRemembers
  <2> QED BY <2>2, <2>4
<1>9. Remembers(th, dispatchNotApplicable(th, skip))
  <2> DEFINE s == dispatchNotApplicable(th, skip)
  <2>1. /\ s.Pending = Nil /\ s.Awaiting = Nil /\ s.Stopped = Nil
        /\ s.LastAbortedAt = th.LastAbortedAt
    BY <1>1 DEF dispatchNotApplicable, resetRetryState, ThreadState
  <2> HIDE DEF s
  <2>2. Remembers(th, s) BY <1>5, <2>1, MovedRemembers
  <2> QED BY <2>2 DEF s
<1> QED BY <1>6, <1>7, <1>8, <1>9 DEF told

\* runGoalBlockJob.
LEMMA GoalBlockRemembers ==
    ASSUME NEW th, Sound(th), th.GoalStop # Nil, NEW time, NEW cfg, NEW reason, NEW status
    PROVE  /\ Remembers(th, rescheduleGoalBlock(th, time, reason, cfg))
           /\ Remembers(th, goalBlocked(th, status, time))
<1>1. /\ th \in ThreadState /\ th.Pending = Nil /\ th.Awaiting = Nil
      /\ th.Stopped # Nil /\ th.Stopped \in StoppedRetry
  BY DEF Sound, onePhase, goalStopBacked, automaticGoalLimitStopped, ThreadState
<1>2. HasKey(th, th.Stopped.fault.EventKey) BY <1>1 DEF HasKey
<1> DEFINE named(r) == [th.Stopped EXCEPT !.Reason = r]
<1>3. \A r : named(r).fault = th.Stopped.fault BY <1>1 DEF StoppedRetry
<1> HIDE DEF named
<1>4. Remembers(th, rescheduleGoalBlock(th, time, reason, cfg))
  <2> DEFINE s == rescheduleGoalBlock(th, time, reason, cfg)
  <2>1. /\ s.Pending = Nil /\ s.Awaiting = Nil /\ s.LastAbortedAt = th.LastAbortedAt
        /\ s.Stopped = th.Stopped \/ \E r : s.Stopped = named(r)
    BY <1>1 DEF rescheduleGoalBlock, ThreadState, named
  <2> HIDE DEF s
  <2>2. Remembers(th, s) BY <1>2, <1>3, <2>1, MovedRemembers
  <2> QED BY <2>2 DEF s
<1>5. Remembers(th, goalBlocked(th, status, time))
  <2> DEFINE s == goalBlocked(th, status, time)
  <2>1. /\ s.Pending = Nil /\ s.Awaiting = Nil /\ s.LastAbortedAt = th.LastAbortedAt
        /\ s.Stopped = named("goal_empty_response_limit")
    BY <1>1 DEF goalBlocked, ThreadState, named
  <2> HIDE DEF s
  <2>2. Remembers(th, s) BY <1>2, <1>3, <2>1, MovedRemembers
  <2> QED BY <2>2 DEF s
<1> QED BY <1>4, <1>5

\* newDaemon.
LEMMA RestartRemembers ==
    ASSUME NEW th, Sound(th), NEW time
    PROVE  Remembers(th, reconcileStartupState(loadThread(th), time))
<1> DEFINE t == loadThread(th)
           after == reconcileStartupState(t, time)
<1> SUFFICES Remembers(th, after) OBVIOUS
<1>1. th \in ThreadState BY DEF Sound
<1>2. /\ t.Pending = th.Pending /\ t.Awaiting = th.Awaiting
      /\ t.LastAbortedAt = th.LastAbortedAt
      /\ th.Stopped = Nil => t.Stopped = Nil
  BY <1>1 DEF loadThread, ThreadState
<1>3. th.Stopped # Nil => t.Stopped.fault = th.Stopped.fault
  BY <1>1 DEF loadThread, ThreadState, StoppedRetry
<1>4. DOMAIN t = DOMAIN th BY DEF loadThread
<1> HIDE DEF t
<1>5. CASE th.Awaiting = Nil \/ th.Awaiting.RetryTurnID # 0
  <2>1. after = t BY <1>2, <1>5 DEF reconcileStartupState
  <2> QED BY <1>2, <1>3, <2>1 DEF Remembers, KeysKept, HasKey
<1>6. CASE th.Awaiting # Nil /\ th.Awaiting.RetryTurnID = 0
  <2> DEFINE p == queuedRetry(t.Awaiting, t.Awaiting.budget, time, t.Awaiting.DispatchFailures,
                              t.Awaiting.ParentNotified)
  <2>1. after = [t EXCEPT !.Awaiting = Nil, !.Pending = p]
    BY <1>2, <1>6 DEF reconcileStartupState, requeue
  <2>2. p.fault = th.Awaiting.fault BY <1>2 DEF queuedRetry
  <2> HIDE DEF p, after
  <2>3. /\ after.Pending = p /\ after.Awaiting = Nil /\ after.Stopped = t.Stopped
        /\ after.LastAbortedAt = t.LastAbortedAt
    BY <1>1, <1>4, <2>1 DEF ThreadState
  <2>4. th.Stopped = Nil BY <1>6, AwaitingFacts
  <2>5. HasKey(th, th.Awaiting.fault.EventKey) BY <1>6 DEF HasKey
  <2> QED BY <1>2, <2>2, <2>3, <2>4, <2>5, MovedRemembers
<1> QED BY <1>5, <1>6

----------------------------------------------------------------------------
(* Codex, as the records to come show it.                                  *)

LEMMA GrowsOn ==
    ASSUME NEW s1, NEW r1, NEW n1, NEW c1, NEW s2, NEW r2, NEW n2, NEW c2,
           NEW s3, NEW r3, NEW n3, NEW c3,
           Grows(s1, r1, n1, c1, s2, r2, n2, c2), Grows(s2, r2, n2, c2, s3, r3, n3, c3)
    PROVE  Grows(s1, r1, n1, c1, s3, r3, n3, c3)
BY DEF Grows

\* The record that a step of Codex appends.
Written(t, ev) == ev \in Event /\ ev.at = now /\ append(t, ev)

TurnBegins(t, ev) ==
    /\ Written(t, ev) /\ ev.kind # "task_complete"
    /\ turn[t] = Nil /\ nextTurn' = nextTurn + 1
    /\ \E run : run.id = nextTurn /\ turn' = [turn EXCEPT ![t] = run]

TurnGoesOn(t, ev) ==
    /\ Written(t, ev) /\ nextTurn' = nextTurn
    /\ \/ turn' = turn /\ ev.kind # "task_complete"
       \/ turn' = [turn EXCEPT ![t] = Nil]
    /\ ev.kind = "task_complete" => turn[t] # Nil /\ ev.turn = turn[t].id

TurnLost(t) ==
    /\ UNCHANGED <<rollout, nextTurn>>
    /\ turn' = turn \/ turn' = [turn EXCEPT ![t] = Nil]

Moves(t) == TurnLost(t) \/ \E ev : TurnBegins(t, ev) \/ TurnGoesOn(t, ev)

\* The record that Codex writes now.
IsRecord(ev, kind, id) == ev \in Event /\ ev.at = now /\ ev.kind = kind /\ ev.turn = id

LEMMA PlainRecord ==
    ASSUME CodexInv, NEW kind \in EventKinds, NEW id \in Nat
    PROVE  IsRecord(record(kind, id), kind, id)
BY RecordType DEF CodexInv, CodexTypeOK, record, IsRecord

LEMMA ClassRecord ==
    ASSUME NEW ev, NEW kind, NEW id, IsRecord(ev, kind, id),
           NEW class \in FailureClasses \cup {"success", "none"}
    PROVE  IsRecord([ev EXCEPT !.class = class], kind, id)
BY DEF IsRecord, Event

LEMMA StatusRecord ==
    ASSUME NEW ev, NEW kind, NEW id, IsRecord(ev, kind, id), NEW status \in GoalStates,
           NEW at \in Nat
    PROVE  IsRecord([ev EXCEPT !.status = status, !.updatedAt = at], kind, id)
BY DEF IsRecord, Event

LEMMA KeyRecord ==
    ASSUME NEW ev, NEW kind, NEW id, IsRecord(ev, kind, id), NEW key \in Nat
    PROVE  IsRecord([ev EXCEPT !.key = key], kind, id)
BY DEF IsRecord, Event

LEMMA SetGoalMoves ==
    ASSUME CodexInv, NEW t, NEW status \in GoalStates, setGoal(t, status),
           UNCHANGED <<turn, nextTurn>>
    PROVE  Moves(t)
<1> DEFINE kind == "thread_goal_updated"
           none == 0
           plain == record(kind, none)
           ev == [plain EXCEPT !.status = status, !.updatedAt = now]
<1>1. kind \in EventKinds /\ kind # "task_complete" /\ none \in Nat /\ now \in Nat
  BY DEF EventKinds, CodexInv, CodexTypeOK
<1>2. append(t, ev) BY DEF setGoal
<1> HIDE DEF kind, none
<1>3. IsRecord(plain, kind, none) BY <1>1, PlainRecord
<1> HIDE DEF plain
<1>4. IsRecord(ev, kind, none) BY <1>1, <1>3, StatusRecord
<1> HIDE DEF ev
<1>5. TurnGoesOn(t, ev) BY <1>1, <1>2, <1>4 DEF TurnGoesOn, Written, IsRecord
<1> QED BY <1>5 DEF Moves

LEMMA CodexForms ==
    ASSUME CodexInv, NEW t \in Threads, CodexStep(t)
    PROVE  Moves(t)
<1>1. /\ turn[t] # Nil => turn[t].id \in Nat
      /\ nextTurn \in Nat /\ now \in Nat
  BY DEF CodexInv, CodexTypeOK, Turn
<1>2. ASSUME NEW origin, startTurn(t, origin) PROVE Moves(t)
  <2> DEFINE kind == "task_started"
             ev == record(kind, nextTurn)
             run == [id |-> nextTurn, origin |-> origin]
  <2>1. kind \in EventKinds /\ kind # "task_complete" BY DEF EventKinds
  <2>2. run.id = nextTurn OBVIOUS
  <2>3. append(t, ev) /\ turn' = [turn EXCEPT ![t] = run] /\ turn[t] = Nil
        /\ nextTurn' = nextTurn + 1
    BY <1>2 DEF startTurn
  <2> HIDE DEF kind, run
  <2>4. IsRecord(ev, kind, nextTurn) BY <1>1, <2>1, PlainRecord
  <2> HIDE DEF ev
  <2>5. TurnBegins(t, ev) BY <2>1, <2>2, <2>3, <2>4 DEF TurnBegins, Written, IsRecord
  <2> QED BY <2>5 DEF Moves
<1>3. ASSUME NEW ev, NEW kind, NEW id, kind # "task_complete", IsRecord(ev, kind, id),
             append(t, ev), nextTurn' = nextTurn,
             turn' = turn \/ turn' = [turn EXCEPT ![t] = Nil]
      PROVE  Moves(t)
  BY <1>3 DEF Moves, TurnGoesOn, Written, IsRecord
<1>4. CASE UserStart(t) \/ NativeStart(t) \/ RequestedStart(t)
  BY <1>2, <1>4 DEF UserStart, NativeStart, RequestedStart
<1>5. CASE Progress(t)
  <2> DEFINE kind == "task_progress"
  <2>1. kind \in EventKinds /\ kind # "task_complete" BY DEF EventKinds
  <2>2. append(t, record(kind, turn[t].id)) /\ turn[t] # Nil
        /\ UNCHANGED <<turn, nextTurn>> BY <1>5 DEF Progress
  <2> HIDE DEF kind
  <2>3. IsRecord(record(kind, turn[t].id), kind, turn[t].id) BY <1>1, <2>1, <2>2, PlainRecord
  <2> QED BY <1>3, <2>1, <2>2, <2>3
<1>6. CASE UserInput(t)
  <2> DEFINE kind == "task_user_input"
  <2>1. kind \in EventKinds /\ kind # "task_complete" BY DEF EventKinds
  <2>2. PICK id \in Nat : append(t, record(kind, id)) BY <1>1, <1>6 DEF UserInput
  <2>3. UNCHANGED <<turn, nextTurn>> BY <1>6 DEF UserInput
  <2> HIDE DEF kind
  <2>4. IsRecord(record(kind, id), kind, id) BY <2>1, PlainRecord
  <2> QED BY <1>3, <2>1, <2>2, <2>3, <2>4
<1>7. CASE Abort(t)
  <2> DEFINE kind == "turn_aborted"
  <2>1. kind \in EventKinds /\ kind # "task_complete" BY DEF EventKinds
  <2>2. PICK id \in Nat : append(t, record(kind, id)) BY <1>1, <1>7 DEF Abort
  <2>3. turn' = [turn EXCEPT ![t] = Nil] /\ nextTurn' = nextTurn BY <1>7 DEF Abort
  <2> HIDE DEF kind
  <2>4. IsRecord(record(kind, id), kind, id) BY <2>1, PlainRecord
  <2> QED BY <1>3, <2>1, <2>2, <2>3, <2>4
<1>8. CASE Complete(t)
  <2> DEFINE kind == "task_complete"
             plain == record(kind, turn[t].id)
             ev(class) == [plain EXCEPT !.class = class]
  <2>1. kind \in EventKinds BY DEF EventKinds
  <2>2. PICK class \in Outcomes : append(t, ev(class)) BY <1>8 DEF Complete
  <2>3. turn[t] # Nil /\ turn' = [turn EXCEPT ![t] = Nil] /\ nextTurn' = nextTurn
    BY <1>8 DEF Complete
  <2>4. class \in FailureClasses \cup {"success", "none"} BY CodexAssumption
  <2> HIDE DEF kind
  <2>5. IsRecord(plain, kind, turn[t].id) BY <1>1, <2>1, <2>3, PlainRecord
  <2> HIDE DEF plain
  <2>6. IsRecord(ev(class), kind, turn[t].id) BY <2>4, <2>5, ClassRecord
  <2> HIDE DEF ev
  <2>7. TurnGoesOn(t, ev(class)) BY <2>2, <2>3, <2>6 DEF TurnGoesOn, Written, IsRecord
  <2> QED BY <2>7 DEF Moves
<1>9. CASE Lose(t) BY <1>9 DEF Lose, Moves, TurnLost
<1>10. CASE UpdateGoal(t)
  <2>1. PICK status \in GoalStates : setGoal(t, status)
    BY <1>10, CodexAssumption DEF UpdateGoal
  <2>2. UNCHANGED <<turn, nextTurn>> BY <1>10 DEF UpdateGoal
  <2> QED BY <2>1, <2>2, SetGoalMoves
<1>11. CASE Notice(t)
  <2> DEFINE kind == "subagent_recovery_notice"
             none == 0
             plain == record(kind, none)
             ev(key) == [plain EXCEPT !.key = key]
  <2>1. kind \in EventKinds /\ kind # "task_complete" /\ none \in Nat BY DEF EventKinds
  <2>2. PICK key \in Nat : append(t, ev(key)) BY <1>1, <1>11 DEF Notice
  <2>3. UNCHANGED <<turn, nextTurn>> BY <1>11 DEF Notice
  <2> HIDE DEF kind, none
  <2>4. IsRecord(plain, kind, none) BY <2>1, PlainRecord
  <2> HIDE DEF plain
  <2>5. IsRecord(ev(key), kind, none) BY <2>4, KeyRecord
  <2> HIDE DEF ev
  <2> QED BY <1>3, <2>1, <2>2, <2>3, <2>5
<1> QED
  BY <1>4, <1>5, <1>6, <1>7, <1>8, <1>9, <1>10, <1>11 DEF CodexStep

\* The request of a job.
LEMMA RequestForms ==
    ASSUME Inv, NEW j \in jobs, SendRequest(j)
    PROVE  Moves(j.thread)
<1> DEFINE t == j.thread
<1>1. t \in Threads /\ CodexInv BY JobFacts DEF Inv
<1>2. UNCHANGED <<turn, nextTurn>> BY DEF SendRequest
<1>3. \/ UNCHANGED rollout
      \/ \E status \in {"blocked", "active"} : setGoal(t, status)
  BY DEF SendRequest, requestTurn
<1> HIDE DEF t
<1>4. CASE UNCHANGED rollout BY <1>2, <1>4 DEF Moves, TurnLost, t
<1>5. CASE \E status \in {"blocked", "active"} : setGoal(t, status)
  <2>1. PICK status \in GoalStates : setGoal(t, status)
    BY <1>5 DEF GoalStates, limitGoalStatuses
  <2>2. Moves(t) BY <1>1, <1>2, <2>1, SetGoalMoves
  <2> QED BY <2>2 DEF t
<1> QED BY <1>3, <1>4, <1>5

\* Whatever is queued before the records that Codex writes.
LEMMA MovesGrow ==
    ASSUME CodexInv, NEW t \in Threads, Moves(t), NEW q \in [Threads -> Seq(Event)],
           NEW u \in Threads
    PROVE  Grows(q[u] \o rollout[u], turn[u], nextTurn, now,
                 q[u] \o rollout'[u], turn'[u], nextTurn', now)
<1> DEFINE s == q[u] \o rollout[u]
<1>1. /\ q[u] \in Seq(Event) /\ rollout \in [Threads -> Seq(Event)] /\ rollout[u] \in Seq(Event)
      /\ turn \in [Threads -> Turn \cup {Nil}] /\ nextTurn \in Nat /\ now \in Nat
      /\ turn[u] # Nil => turn[u].id \in Nat
  BY DEF CodexInv, CodexTypeOK, Turn
<1>2. s \in Seq(Event) /\ \A ev \in Event : q[u] \o Append(rollout[u], ev) = Append(s, ev)
  BY <1>1, QueueFacts
<1> HIDE DEF s
<1>3. CASE TurnLost(t)
  <2>1. /\ rollout' = rollout /\ nextTurn' = nextTurn
        /\ turn'[u] \in {turn[u], Nil}
    BY <1>1, <1>3 DEF TurnLost
  <2>2. Grows(s, turn[u], nextTurn, now, s, turn'[u], nextTurn, now)
    BY <1>1, <1>2, <2>1, QuietGrows
  <2> QED BY <2>1, <2>2 DEF s
<1>4. ASSUME NEW ev, TurnBegins(t, ev)
      PROVE  Grows(s, turn[u], nextTurn, now, q[u] \o rollout'[u], turn'[u], nextTurn', now)
  <2>1. PICK run : run.id = nextTurn /\ turn' = [turn EXCEPT ![t] = run] BY <1>4 DEF TurnBegins
  <2>2. /\ ev \in Event /\ ev.at = now /\ ev.kind # "task_complete"
        /\ turn[t] = Nil /\ nextTurn' = nextTurn + 1
        /\ rollout' = [rollout EXCEPT ![t] = Append(@, ev)]
    BY <1>4 DEF TurnBegins, Written, append
  <2>3. CASE u = t
    <3>1. q[u] \o rollout'[u] = Append(s, ev) /\ turn'[u] = run /\ turn[u] = Nil
      BY <1>1, <1>2, <2>1, <2>2, <2>3
    <3> DEFINE none == Nil
    <3> HIDE DEF none
    <3>2. Grows(s, none, nextTurn, now, Append(s, ev), none, nextTurn, now)
      BY <1>1, <1>2, <2>2, RecordGrows DEF none
    <3>3. Append(s, ev) \in Seq(Event) BY <1>2, <2>2, AppendProperties
    <3>4. Grows(Append(s, ev), Nil, nextTurn, now, Append(s, ev), run, nextTurn + 1, now)
      BY <1>1, <2>1, <3>3, StartGrows
    <3>5. Grows(s, Nil, nextTurn, now, Append(s, ev), run, nextTurn + 1, now)
      BY <3>2, <3>4, GrowsOn DEF none
    <3> QED BY <2>2, <3>1, <3>5
  <2>4. CASE u # t
    <3>1. q[u] \o rollout'[u] = s /\ turn'[u] = turn[u]
      BY <1>1, <2>1, <2>2, <2>4 DEF s
    <3>2. nextTurn' \in Nat /\ nextTurn <= nextTurn' /\ now <= now BY <1>1, <2>2
    <3>3. Grows(s, turn[u], nextTurn, now, s, turn[u], nextTurn', now)
      BY <1>1, <1>2, <3>2, QuietGrows
    <3> QED BY <3>1, <3>3
  <2> QED BY <2>3, <2>4
<1>5. ASSUME NEW ev, TurnGoesOn(t, ev)
      PROVE  Grows(s, turn[u], nextTurn, now, q[u] \o rollout'[u], turn'[u], nextTurn', now)
  <2>1. /\ ev \in Event /\ ev.at = now /\ nextTurn' = nextTurn
        /\ \/ turn' = turn /\ ev.kind # "task_complete"
           \/ turn' = [turn EXCEPT ![t] = Nil]
        /\ ev.kind = "task_complete" => turn[t] # Nil /\ ev.turn = turn[t].id
        /\ rollout' = [rollout EXCEPT ![t] = Append(@, ev)]
    BY <1>5 DEF TurnGoesOn, Written, append
  <2>2. CASE u = t
    <3>1. /\ q[u] \o rollout'[u] = Append(s, ev)
          /\ turn'[u] \in {turn[u], Nil}
          /\ ev.kind = "task_complete" => turn[u] # Nil /\ turn'[u] = Nil /\ ev.turn = turn[u].id
      BY <1>1, <1>2, <2>1, <2>2
    <3>2. Grows(s, turn[u], nextTurn, now, Append(s, ev), turn'[u], nextTurn, now)
      BY <1>1, <1>2, <2>1, <3>1, RecordGrows
    <3> QED BY <2>1, <3>1, <3>2
  <2>3. CASE u # t
    <3>1. q[u] \o rollout'[u] = s /\ turn'[u] = turn[u]
      BY <1>1, <2>1, <2>3 DEF s
    <3> DEFINE run == turn[u]
    <3>2. run \in {run, Nil} /\ nextTurn <= nextTurn /\ now <= now
          /\ (run # Nil => run.id \in Nat)
      BY <1>1
    <3> HIDE DEF run
    <3>3. Grows(s, run, nextTurn, now, s, run, nextTurn, now)
      BY <1>1, <1>2, <3>2, QuietGrows
    <3> QED BY <2>1, <3>1, <3>3 DEF run
  <2> QED BY <2>2, <2>3
<1>6. Grows(s, turn[u], nextTurn, now, q[u] \o rollout'[u], turn'[u], nextTurn', now)
  BY <1>3, <1>4, <1>5 DEF Moves, s
<1> QED BY <1>6 DEF s

----------------------------------------------------------------------------
(* What the steps do to the threads and to the records to come.            *)

LEMMA RemembersTells ==
    ASSUME NEW before, NEW after, Remembers(before, after),
           NEW seq, NEW run, NEW next, NEW clock, Tells(before, seq, run, next, clock)
    PROVE  Tells(after, seq, run, next, clock)
BY DEF Remembers, KeysKept, Tells

\* A step of the tick that handles no record: the thread remembers what it did,
\* and only threads without a job are queued again or dispatched.
Treats(before, after, busy, time) ==
    /\ Remembers(before, after)
    /\ busy => Handles(before, after, time)

LEMMA SameTreats ==
    ASSUME NEW th \in ThreadState, NEW busy, NEW time
    PROVE  Treats(th, th, busy, time)
BY SameHandled, SameRemembers DEF Treats

LEMMA HandledTreats ==
    ASSUME NEW before, NEW after, NEW busy, NEW time, Handles(before, after, time)
    PROVE  Treats(before, after, busy, time)
BY HandlesRemembers DEF Treats

LEMMA PromotedTreats ==
    ASSUME Inv, NEW blocks \in firstDue(stopDue, slots),
           NEW chosen \in firstDue(pendingDueAt(active \cup blocks), slots - Cardinality(blocks)),
           Chosen(blocks, chosen), NEW t \in Threads, NEW time
    PROVE  Treats(threads[t], threads'[t], t \in active, time)
<1> DEFINE busy == active \cup blocks
           th == threads[t]
<1>0. chosen \subseteq candidates(busy) BY ChosenDue
<1>1. t \in chosen => t \notin busy /\ th.Pending # Nil
  BY <1>0 DEF candidates, dispatchable, pendingDue
<1>2. dispatchable(t, busy) => th.Pending # Nil BY DEF dispatchable, pendingDue
<1>3. threads'[t] = IF heldFromDispatch(th) THEN clearHeldRetry(th)
                    ELSE IF dispatchable(t, busy) /\ recoveryTimeExceeded(th, tickNow)
                    THEN stopPendingForController(th, "recovery_time_limit")
                    ELSE IF t \in chosen THEN startDispatch(th, tickNow, config)
                    ELSE th
  BY DEF Chosen, promoted
<1>4. Sound(th) /\ th \in ThreadState BY InvFacts
<1>5. t \in active => t \in busy OBVIOUS
<1> HIDE DEF busy, th
<1>6. CASE heldFromDispatch(th)
  <2>1. Handles(th, clearHeldRetry(th), time) BY <1>4, DispatchHandled
  <2>2. Treats(th, threads'[t], t \in active, time) BY <1>3, <1>6, <2>1, HandledTreats
  <2> QED BY <2>2 DEF th
<1>7. CASE ~heldFromDispatch(th) /\ dispatchable(t, busy) /\ recoveryTimeExceeded(th, tickNow)
  <2> DEFINE reason == "recovery_time_limit"
  <2>1. threads'[t] = stopPendingForController(th, reason) BY <1>3, <1>7
  <2> HIDE DEF reason
  <2>2. Handles(th, stopPendingForController(th, reason), time)
    BY <1>2, <1>4, <1>7, DispatchHandled
  <2>3. Treats(th, threads'[t], t \in active, time) BY <2>1, <2>2, HandledTreats
  <2> QED BY <2>3 DEF th
<1>8. CASE t \in chosen /\ threads'[t] = startDispatch(th, tickNow, config)
  <2>1. Remembers(th, startDispatch(th, tickNow, config)) BY <1>1, <1>4, <1>8, StartRemembers
  <2>2. Treats(th, threads'[t], t \in active, time) BY <1>1, <1>5, <1>8, <2>1 DEF Treats
  <2> QED BY <2>2 DEF th
<1>9. CASE threads'[t] = th
  <2>1. Treats(th, threads'[t], t \in active, time) BY <1>4, <1>9, SameTreats
  <2> QED BY <2>1 DEF th
<1> QED BY <1>3, <1>6, <1>7, <1>8, <1>9

LEMMA DispatchTreats ==
    ASSUME Inv, Dispatch, NEW t \in Threads, NEW time
    PROVE  Treats(threads[t], threads'[t], t \in active, time)
<1>1. Sound(threads[t]) /\ threads[t] \in ThreadState BY InvFacts
<1>2. CASE UNCHANGED threads BY <1>1, <1>2, SameTreats
<1>3. CASE threads' = stoppedForTransport
  <2> DEFINE th == threads[t]
             after == threads'[t]
             reason == noTransportReason
  <2>1. \/ after = th
        \/ th.Pending # Nil /\ after = stopPendingForController(th, reason)
    BY <1>3 DEF stoppedForTransport, pendingDue
  <2> HIDE DEF after, reason
  <2>2. CASE after = th BY <1>1, <2>2, SameTreats DEF after
  <2>3. CASE th.Pending # Nil /\ after = stopPendingForController(th, reason)
    <3>1. Handles(th, stopPendingForController(th, reason), time) BY <1>1, <2>3, DispatchHandled
    <3>2. Handles(th, after, time) BY <2>3, <3>1
    <3>3. Treats(th, after, t \in active, time) BY <3>2, HandledTreats
    <3> QED BY <3>3 DEF after
  <2> QED BY <2>1, <2>2, <2>3
<1>4. CASE \E blocks \in firstDue(stopDue, slots) :
              \E chosen \in firstDue(pendingDueAt(active \cup blocks), slots - Cardinality(blocks)) :
                 Chosen(blocks, chosen)
  BY <1>4, PromotedTreats
<1> QED BY <1>2, <1>3, <1>4, DispatchForms

LEMMA TickTreats ==
    ASSUME Inv, Tick, NEW t \in Threads, ~HandleEvent(t)
    PROVE  Treats(threads[t], threads'[t], t \in active, tickNow')
<1> DEFINE th == threads[t]
           time == tickNow'
           busy == t \in active
<1> HIDE DEF time
<1>1. /\ Sound(th) /\ th \in ThreadState /\ DOMAIN threads = Threads
      /\ config \in Config /\ configFile \in Config /\ now \in Nat /\ tickNow \in Nat
  BY InvFacts
<1>2. CASE UNCHANGED threads
  <2>1. Treats(th, th, busy, time) BY <1>1, SameTreats
  <2> QED BY <1>2, <2>1 DEF time
<1>3. ASSUME NEW after, Handles(th, after, time), threads'[t] = after
      PROVE  Treats(threads[t], threads'[t], t \in active, tickNow')
  <2>1. Treats(th, after, busy, time) BY <1>3, HandledTreats
  <2> QED BY <1>3, <2>1 DEF time
<1>4. CASE TickBegin \/ LatchedFailure \/ ControllerProbe \/ MemoryLimitExceeded
  BY <1>2, <1>4 DEF TickBegin, LatchedFailure, ControllerProbe, MemoryLimitExceeded, memoryVars
<1>5. CASE TickScan
  <2>1. threads'[t] = reloadLimits(th, configFile, now) BY <1>5 DEF TickScan
  <2> HIDE DEF th
  <2>2. Handles(th, reloadLimits(th, configFile, now), time) BY <1>1, ReloadHandled
  <2> QED BY <1>3, <2>1, <2>2
<1>6. CASE \E u \in Threads : HandleEvent(u)
  <2>1. threads'[t] = threads[t] BY <1>1, <1>6 DEF HandleEvent
  <2>2. Treats(th, th, busy, time) BY <1>1, SameTreats
  <2> QED BY <2>1, <2>2 DEF time
<1>7. CASE Reopen
  <2> DEFINE after == reopenRestartRequired(th, tickNow, config)
  <2>1. \/ threads'[t] = th
        \/ ~busy /\ threads'[t] = after
    BY <1>7 DEF Reopen
  <2>2. Treats(th, th, busy, time) BY <1>1, SameTreats
  <2>3. Remembers(th, after) BY <1>1, ReopenRemembers
  <2> QED BY <2>1, <2>2, <2>3 DEF Treats, time
<1>8. CASE ControlCommand
  <2> DEFINE c == Head(commands)
             after == applyControlCommand(th, c.action, tickNow, config)
  <2>1. threads'[t] = IF t = c.thread THEN after ELSE th BY <1>1, <1>8 DEF ControlCommand
  <2>2. time = tickNow BY <1>8 DEF ControlCommand, tickVars, time
  <2>3. Treats(th, th, busy, time) BY <1>1, SameTreats
  <2> HIDE DEF c
  <2>4. Handles(th, after, tickNow) BY <1>1, CommandHandled
  <2>5. CASE t = c.thread BY <1>3, <2>1, <2>2, <2>4, <2>5
  <2>6. CASE t # c.thread BY <2>1, <2>3, <2>6 DEF time
  <2> QED BY <2>5, <2>6
<1>9. CASE EndControls
  <2> DEFINE after == expireUnacknowledged(th, tickNow, config)
  <2>1. \/ threads'[t] = th
        \/ ~busy /\ threads'[t] = after
    BY <1>9 DEF EndControls
  <2>2. Treats(th, th, busy, time) BY <1>1, SameTreats
  <2>3. Remembers(th, after) BY <1>1, ExpireRemembers
  <2> QED BY <2>1, <2>2, <2>3 DEF Treats, time
<1>10. CASE CollectProbes
  <2> DEFINE after == [th EXCEPT !.Awaiting = [@ EXCEPT !.LastLifecycleCheckAt = tickNow]]
  <2>1. \/ threads'[t] = th
        \/ th.Awaiting # Nil /\ threads'[t] = after
    BY <1>10 DEF CollectProbes, lifecycleDue
  <2>2. Treats(th, th, busy, time) BY <1>1, SameTreats
  <2>3. th.Awaiting # Nil => Handles(th, after, time) BY <1>1, CheckHandled
  <2>4. CASE threads'[t] = th BY <2>2, <2>4 DEF time
  <2> QED BY <1>3, <2>1, <2>3, <2>4
<1>11. CASE \E p \in probes : ProbeLifecycle(p)
  <2>1. PICK p \in probes : ProbeLifecycle(p) BY <1>11
  <2>2. time = tickNow BY <2>1 DEF ProbeLifecycle, time
  <2>3. \/ threads'[t] = th
        \/ /\ th.Awaiting # Nil
           /\ \/ \E reason : threads'[t] = probeFailed(th, reason, config)
              \/ threads'[t] = probeFoundActive(th)
              \/ threads'[t] = probeFoundIdle(th, tickNow, config)
    BY <1>1, <2>1 DEF ProbeLifecycle, probeMatches
  <2>4. CASE threads'[t] = th
    <3>1. Treats(th, th, busy, time) BY <1>1, SameTreats
    <3> QED BY <2>4, <3>1 DEF time
  <2> HIDE DEF th
  <2>5. ASSUME th.Awaiting # Nil, NEW reason
        PROVE  /\ Handles(th, probeFailed(th, reason, config), tickNow)
               /\ Handles(th, probeFoundActive(th), tickNow)
               /\ Handles(th, probeFoundIdle(th, tickNow, config), tickNow)
    BY <1>1, <2>5, ProbeHandled
  <2> QED BY <1>3, <2>2, <2>3, <2>4, <2>5
<1>12. CASE Dispatch
  <2>1. Treats(th, threads'[t], busy, time) BY <1>12, DispatchTreats
  <2> QED BY <2>1 DEF time
<1> QED BY <1>4, <1>5, <1>6, <1>7, <1>8, <1>9, <1>10, <1>11, <1>12 DEF Tick

\* A job only changes its own thread, and is over then.
LEMMA JobTreats ==
    ASSUME Inv, NEW j \in jobs, JobStep(j), NEW u \in Threads
    PROVE  /\ Remembers(threads[u], threads'[u])
           /\ threads'[u] = threads[u] \/ (u = j.thread /\ removeJob(j))
<1> DEFINE t == j.thread
           th == threads[t]
           Goal == /\ Remembers(threads[u], threads'[u])
                   /\ threads'[u] = threads[u] \/ (u = j.thread /\ removeJob(j))
<1> SUFFICES Goal OBVIOUS
<1>1. t \in Threads /\ Sound(th) /\ DOMAIN threads = Threads BY JobFacts, InvFacts
<1>2. CASE StartJob(j) \/ SendRequest(j) \/ StaleResult(j)
  BY <1>2, SameRemembers DEF StartJob, SendRequest, StaleResult
<1>3. ASSUME NEW kind, finishing(j, kind), NEW after, setThread(t, after), Remembers(th, after)
      PROVE  Goal
  <2>1. threads'[u] = IF u = t THEN after ELSE threads[u] BY <1>1, <1>3 DEF setThread
  <2>2. removeJob(j) BY <1>3 DEF finishing
  <2> HIDE DEF t, th
  <2>3. CASE u = t BY <1>3, <2>1, <2>2, <2>3 DEF t, th
  <2>4. CASE u # t BY <2>1, <2>4, SameRemembers
  <2> QED BY <2>3, <2>4
<1> HIDE DEF Goal
<1>4. ASSUME finishing(j, "recovery"), NEW notified, NEW reason, NEW skip, NEW action
      PROVE  LET told == notifyParent(th, notified)
             IN  /\ Remembers(th, rescheduleAwaitingWithPolicy(told, now, reason, TRUE, config))
                 /\ Remembers(th, dispatchUserActive(told, reason, now, config))
                 /\ Remembers(th, dispatchAccepted(told, action, now, config))
                 /\ Remembers(th, dispatchNotApplicable(th, skip))
  <2>1. th.Awaiting # Nil BY <1>4, MatchFacts
  <2> HIDE DEF th
  <2> QED BY <1>1, <2>1, ResultRemembers
<1> HIDE DEF t, th
<1>5. CASE RecoveryFailed(j)
  <2>1. PICK reason \in failures(j), notified \in notices(j) :
          setThread(t, rescheduleAwaitingWithPolicy(notifyParent(th, notified),
                                                    now, reason, TRUE, config))
    BY <1>5 DEF RecoveryFailed, t, th
  <2>2. finishing(j, "recovery") BY <1>5 DEF RecoveryFailed
  <2>3. Remembers(th, rescheduleAwaitingWithPolicy(notifyParent(th, notified),
                                                   now, reason, TRUE, config))
    BY <1>4, <2>2
  <2> QED BY <1>3, <2>1, <2>2, <2>3
<1>6. CASE RecoveryUserActive(j)
  <2>1. PICK notified \in notices(j) :
          setThread(t, dispatchUserActive(notifyParent(th, notified), "thread_active", now, config))
    BY <1>6 DEF RecoveryUserActive, t, th
  <2>2. finishing(j, "recovery") BY <1>6 DEF RecoveryUserActive
  <2>3. Remembers(th, dispatchUserActive(notifyParent(th, notified), "thread_active", now, config))
    BY <1>4, <2>2
  <2> QED BY <1>3, <2>1, <2>2, <2>3
<1>7. CASE RecoveryNotApplicable(j)
  <2>1. PICK reason \in SkipReasons : setThread(t, dispatchNotApplicable(th, reason))
    BY <1>7 DEF RecoveryNotApplicable, t, th
  <2>2. finishing(j, "recovery") BY <1>7 DEF RecoveryNotApplicable
  <2>3. Remembers(th, dispatchNotApplicable(th, reason)) BY <1>4, <2>2
  <2> QED BY <1>3, <2>1, <2>2, <2>3
<1>8. CASE RecoveryAccepted(j)
  <2>1. PICK notified \in notices(j) :
          setThread(t, dispatchAccepted(notifyParent(th, notified), acceptedAction(j, notified),
                                        now, config))
    BY <1>8 DEF RecoveryAccepted, t, th
  <2>2. finishing(j, "recovery") BY <1>8 DEF RecoveryAccepted
  <2>3. Remembers(th, dispatchAccepted(notifyParent(th, notified), acceptedAction(j, notified),
                                       now, config))
    BY <1>4, <2>2
  <2> QED BY <1>3, <2>1, <2>2, <2>3
<1>9. CASE GoalBlockFailed(j)
  <2>1. PICK reason \in failures(j) : setThread(t, rescheduleGoalBlock(th, now, reason, config))
    BY <1>9 DEF GoalBlockFailed, t, th
  <2>2. finishing(j, "goal_block") BY <1>9 DEF GoalBlockFailed
  <2>3. th.GoalStop # Nil BY <2>2, MatchFacts DEF t, th
  <2>4. Remembers(th, rescheduleGoalBlock(th, now, reason, config))
    BY <1>1, <2>3, GoalBlockRemembers
  <2> QED BY <1>3, <2>1, <2>2, <2>4
<1>10. CASE GoalBlockDone(j)
  <2>1. setThread(t, goalBlocked(th, j.sent, now)) BY <1>10 DEF GoalBlockDone, t, th
  <2>2. finishing(j, "goal_block") BY <1>10 DEF GoalBlockDone
  <2>3. th.GoalStop # Nil BY <2>2, MatchFacts DEF t, th
  <2>4. Remembers(th, goalBlocked(th, j.sent, now)) BY <1>1, <2>3, GoalBlockRemembers
  <2> QED BY <1>3, <2>1, <2>2, <2>4
<1>11. Goal BY <1>2, <1>5, <1>6, <1>7, <1>8, <1>9, <1>10 DEF JobStep
<1> QED BY <1>11 DEF Goal, t, th

\* Every step that handles no record of the thread and is no restart.
LEMMA NextRemembers ==
    ASSUME Inv, [Next]_vars, ~Crash, NEW t \in Threads, ~HandleEvent(t)
    PROVE  Remembers(threads[t], threads'[t])
<1>1. CASE Tick BY <1>1, TickTreats DEF Treats
<1>2. CASE \E j \in jobs : JobStep(j) BY <1>2, JobTreats
<1>3. CASE \/ \E u \in Threads : QueueCommand(u)
           \/ TogglePause \/ EditConfig \/ Advance \/ CodexMoves \/ UNCHANGED vars
  BY <1>3, SameRemembers DEF QueueCommand, TogglePause, EditConfig, Advance, CodexMoves, vars,
     daemonVars, memoryVars
<1> QED BY <1>1, <1>2, <1>3 DEF Next

----------------------------------------------------------------------------
(* The records to come, of what is in memory and of what is saved.         *)

\* The threads were written to state.json; with the lock of the events held
\* nothing is.
Saved == disk' = threads' /\ unsaved' = emptyQueues /\ phase # "events"

\* Codex and the queues stand still.
Still ==
    /\ UNCHANGED <<rollout, turn, nextTurn, batch>>
    /\ now' = now \/ (now' = now + 1 /\ UNCHANGED <<threads, disk, unsaved>>)

Running == \E t \in Threads : Moves(t) /\ UNCHANGED <<batch, now, threads, disk, unsaved>>

LEMMA QueueForms ==
    ASSUME Inv, [Next]_vars, ~Crash, ~TickScan, \A t \in Threads : ~HandleEvent(t)
    PROVE  /\ Still \/ Running
           /\ UNCHANGED <<disk, unsaved>> \/ Saved
<1> DEFINE Goal == /\ Still \/ Running
                   /\ UNCHANGED <<disk, unsaved>> \/ Saved
<1> SUFFICES Goal OBVIOUS
<1>1. ASSUME NEW ths, persist(ths), ths = threads', phase # "events"
      PROVE  UNCHANGED <<disk, unsaved>> \/ Saved
  BY <1>1 DEF persist, Saved
<1>2. ASSUME UNCHANGED <<rollout, turn, nextTurn, batch, now>> PROVE Still BY <1>2 DEF Still
<1>3. CASE Dispatch
  <2>1. persist(threads') /\ phase # "events" BY <1>3 DEF Dispatch
  <2>2. Still BY <1>2, <1>3 DEF Dispatch, codexVars
  <2> QED BY <1>1, <2>1, <2>2
<1>4. CASE Tick /\ ~Dispatch
  BY <1>2, <1>4 DEF Tick, TickBegin, LatchedFailure, ControllerProbe, Reopen,
     ControlCommand, EndControls, MemoryLimitExceeded, CollectProbes, ProbeLifecycle, fileVars,
     tickVars, codexVars
<1>5. CASE \E j \in jobs : JobStep(j)
  <2>1. PICK j \in jobs : JobStep(j) BY <1>5
  <2>2. CASE SendRequest(j)
    <3>1. Moves(j.thread) /\ j.thread \in Threads BY <2>2, RequestForms, JobFacts
    <3>2. UNCHANGED <<batch, now, threads, disk, unsaved>> BY <2>2 DEF SendRequest, tickVars, fileVars
    <3>3. Running BY <3>1, <3>2 DEF Running
    <3> QED BY <3>2, <3>3
  <2>3. CASE StartJob(j) \/ StaleResult(j)
    BY <1>2, <2>3 DEF StartJob, StaleResult, tickVars, fileVars, codexVars
  <2>4. ASSUME NEW kind, finishing(j, kind), NEW after, setThread(j.thread, after) PROVE Goal
    <3>1. phase # "events" BY <2>4 DEF finishing, Unlocked, LockHeld
    <3>2. persist(threads') BY <2>4 DEF setThread
    <3>3. Still BY <1>2, <2>4 DEF finishing, tickVars, codexVars
    <3> QED BY <1>1, <3>1, <3>2, <3>3
  <2>5. CASE \/ RecoveryFailed(j) \/ RecoveryUserActive(j) \/ RecoveryNotApplicable(j)
             \/ RecoveryAccepted(j) \/ GoalBlockFailed(j) \/ GoalBlockDone(j)
    <3> HIDE DEF Goal
    <3> QED BY <2>4, <2>5 DEF RecoveryFailed, RecoveryUserActive, RecoveryNotApplicable,
              RecoveryAccepted, GoalBlockFailed, GoalBlockDone
  <2> QED BY <2>1, <2>2, <2>3, <2>5 DEF JobStep
<1>6. CASE \/ \E t \in Threads : QueueCommand(t)
           \/ TogglePause \/ EditConfig \/ UNCHANGED vars
  BY <1>2, <1>6 DEF QueueCommand, TogglePause, EditConfig, vars, daemonVars, fileVars, tickVars,
     codexVars
<1>7. CASE Advance BY <1>7 DEF Advance, Still, daemonVars, memoryVars, fileVars, tickVars, codexVars
<1>8. CASE CodexMoves
  <2>1. PICK t \in Threads : CodexStep(t) BY <1>8 DEF CodexMoves
  <2>2. UNCHANGED <<batch, now, threads, disk, unsaved>>
    BY <1>8 DEF CodexMoves, daemonVars, memoryVars, fileVars, tickVars
  <2>3. Moves(t) BY <2>1, CodexForms DEF Inv
  <2>4. Running BY <2>2, <2>3 DEF Running
  <2> QED BY <2>2, <2>4
<1> QED BY <1>3, <1>4, <1>5, <1>6, <1>7, <1>8 DEF Next

\* What is to come of every thread, behind the given queues.
AllGrow(queued, queued2) ==
    \A t \in Threads :
       Grows(queued[t] \o rollout[t], turn[t], nextTurn, now,
             queued2[t] \o rollout'[t], turn'[t], nextTurn', now')

LEMMA SeqFacts ==
    ASSUME Inv
    PROVE  /\ \A t \in Threads : /\ batch[t] \in Seq(Event) /\ unsaved[t] \in Seq(Event)
                                 /\ rollout[t] \in Seq(Event)
                                 /\ turn[t] # Nil => turn[t].id \in Nat
           /\ batch \in [Threads -> Seq(Event)] /\ unsaved \in [Threads -> Seq(Event)]
           /\ rollout \in [Threads -> Seq(Event)]
           /\ nextTurn \in Nat /\ now \in Nat
           /\ \A t \in Threads : emptyQueues[t] = <<>>
BY DEF Inv, CodexInv, CodexTypeOK, TickInv, FileInv, Turn, emptyQueues

\* The same records are to come.
LEMMA SameGrows ==
    ASSUME Inv, NEW t \in Threads, NEW seq \in Seq(Event), UNCHANGED <<turn, nextTurn>>,
           now' \in {now, now + 1}
    PROVE  Grows(seq, turn[t], nextTurn, now, seq, turn'[t], nextTurn', now')
<1> DEFINE run == turn[t]
<1>1. /\ run \in {run, Nil} /\ nextTurn <= nextTurn /\ nextTurn \in Nat
      /\ (run # Nil => run.id \in Nat)
      /\ now \in Nat /\ now' \in Nat /\ now <= now'
  BY SeqFacts
<1> HIDE DEF run
<1>2. Grows(seq, run, nextTurn, now, seq, run, nextTurn, now') BY <1>1, QuietGrows
<1> QED BY <1>2 DEF run

LEMMA QueueGrows ==
    ASSUME Inv, NEW q \in [Threads -> Seq(Event)], Still \/ Running
    PROVE  AllGrow(q, q)
<1> SUFFICES ASSUME NEW t \in Threads
             PROVE  Grows(q[t] \o rollout[t], turn[t], nextTurn, now,
                          q[t] \o rollout'[t], turn'[t], nextTurn', now')
  BY DEF AllGrow
<1>1. CASE Running
  <2>1. PICK u \in Threads : Moves(u) /\ now' = now BY <1>1 DEF Running
  <2> QED BY <2>1, MovesGrow DEF Inv
<1>2. CASE Still
  <2>1. q[t] \o rollout[t] \in Seq(Event) BY SeqFacts, QueueFacts
  <2>2. rollout' = rollout /\ UNCHANGED <<turn, nextTurn>> /\ now' \in {now, now + 1}
    BY <1>2 DEF Still
  <2> QED BY <2>1, <2>2, SameGrows
<1> QED BY <1>1, <1>2

\* Of the threads in memory.
LEMMA BatchGrows ==
    ASSUME Inv, Queued, HistoryInv, [Next]_vars, ~Crash
    PROVE  AllGrow(batch, batch')
<1>1. CASE TickScan
  <2>1. /\ batch = emptyQueues /\ batch' = rollout /\ rollout' = emptyQueues
        /\ UNCHANGED <<turn, nextTurn, now>>
    BY <1>1 DEF TickScan, Queued
  <2> SUFFICES ASSUME NEW t \in Threads
               PROVE  Grows(batch[t] \o rollout[t], turn[t], nextTurn, now,
                            batch'[t] \o rollout'[t], turn'[t], nextTurn', now')
    BY DEF AllGrow
  <2>2. /\ batch[t] \o rollout[t] = rollout[t] /\ batch'[t] \o rollout'[t] = rollout[t]
        /\ rollout[t] \in Seq(Event)
    BY <2>1, SeqFacts, QueueFacts
  <2>3. Grows(rollout[t], turn[t], nextTurn, now, rollout[t], turn'[t], nextTurn', now')
    BY <2>1, <2>2, SameGrows
  <2> QED BY <2>2, <2>3
<1>2. ASSUME NEW u \in Threads, HandleEvent(u)
      PROVE  AllGrow(batch, batch')
  <2>1. /\ batch[u] # <<>> /\ batch' = [batch EXCEPT ![u] = Tail(@)]
        /\ UNCHANGED <<rollout, turn, nextTurn, now>>
    BY <1>2 DEF HandleEvent, codexVars
  <2> SUFFICES ASSUME NEW t \in Threads
               PROVE  Grows(batch[t] \o rollout[t], turn[t], nextTurn, now,
                            batch'[t] \o rollout'[t], turn'[t], nextTurn', now')
    BY DEF AllGrow
  <2> DEFINE s == batch[t] \o rollout[t]
  <2>2. s \in Seq(Event) BY SeqFacts, QueueFacts
  <2>3. CASE t # u
    <3>1. batch'[t] \o rollout'[t] = s BY <2>1, <2>3, SeqFacts
    <3> HIDE DEF s
    <3>2. Grows(s, turn[t], nextTurn, now, s, turn'[t], nextTurn', now')
      BY <2>1, <2>2, SameGrows
    <3> QED BY <3>1, <3>2 DEF s
  <2>4. CASE t = u
    <3>1. s # <<>> /\ batch'[t] \o rollout'[t] = Tail(s) BY <2>1, <2>4, SeqFacts, QueueFacts
    <3>2. Ordered(s, turn[t], nextTurn, now) BY DEF HistoryInv, History, Tells
    <3> HIDE DEF s
    <3> DEFINE run == turn[t]
    <3> HIDE DEF run
    <3>3. Grows(s, run, nextTurn, now, Tail(s), run, nextTurn, now)
      BY <2>2, <3>1, <3>2, SeqFacts, TailFacts DEF run
    <3> QED BY <2>1, <3>1, <3>3 DEF run, s
  <2> QED BY <2>3, <2>4
<1>3. CASE ~TickScan /\ \A u \in Threads : ~HandleEvent(u)
  <2>1. Still \/ Running BY <1>3, QueueForms
  <2>2. batch' = batch BY <2>1 DEF Still, Running
  <2> QED BY <2>1, <2>2, SeqFacts, QueueGrows
<1> QED BY <1>1, <1>2, <1>3

\* Of the threads in state.json, unless it is written.
LEMMA UnsavedGrows ==
    ASSUME Inv, "crash" \in Features, [Next]_vars
    PROVE  \/ AllGrow(unsaved, unsaved') /\ UNCHANGED disk
           \/ Saved /\ UNCHANGED batch
<1>1. ASSUME NEW t \in Threads, UNCHANGED <<turn, nextTurn, now>>,
             unsaved'[t] \o rollout'[t] = unsaved[t] \o rollout[t]
      PROVE  Grows(unsaved[t] \o rollout[t], turn[t], nextTurn, now,
                   unsaved'[t] \o rollout'[t], turn'[t], nextTurn', now')
  <2> DEFINE s == unsaved[t] \o rollout[t]
  <2>1. s \in Seq(Event) BY SeqFacts, QueueFacts
  <2>2. unsaved'[t] \o rollout'[t] = s BY <1>1
  <2> HIDE DEF s
  <2>3. Grows(s, turn[t], nextTurn, now, s, turn'[t], nextTurn', now') BY <1>1, <2>1, SameGrows
  <2> QED BY <2>2, <2>3 DEF s
<1>2. CASE TickScan
  <2>1. /\ unsaved' = [t \in Threads |-> unsaved[t] \o rollout[t]] /\ rollout' = emptyQueues
        /\ UNCHANGED <<turn, nextTurn, now, disk>>
    BY <1>2 DEF TickScan, diskRead
  <2>2. \A t \in Threads : unsaved'[t] \o rollout'[t] = unsaved[t] \o rollout[t]
    BY <2>1, SeqFacts, QueueFacts
  <2> QED BY <1>1, <2>1, <2>2 DEF AllGrow
<1>3. CASE Crash
  <2>1. /\ unsaved' = emptyQueues /\ rollout' = [t \in Threads |-> unsaved[t] \o rollout[t]]
        /\ UNCHANGED <<turn, nextTurn, now, disk>>
    BY <1>3 DEF Crash
  <2>2. \A t \in Threads : unsaved'[t] \o rollout'[t] = unsaved[t] \o rollout[t]
    BY <2>1, SeqFacts, QueueFacts
  <2> QED BY <1>1, <2>1, <2>2 DEF AllGrow
<1>4. ASSUME NEW u \in Threads, HandleEvent(u) PROVE AllGrow(unsaved, unsaved') /\ UNCHANGED disk
  <2>1. UNCHANGED <<rollout, turn, nextTurn, now, disk, unsaved>>
    BY <1>4 DEF HandleEvent, codexVars, fileVars
  <2> QED BY <1>1, <2>1 DEF AllGrow
<1>5. CASE ~TickScan /\ ~Crash /\ \A u \in Threads : ~HandleEvent(u)
  <2>1. /\ Still \/ Running
        /\ UNCHANGED <<disk, unsaved>> \/ Saved
    BY <1>5, QueueForms
  <2>2. AllGrow(unsaved, unsaved) /\ UNCHANGED batch
    BY <2>1, SeqFacts, QueueGrows DEF Still, Running
  <2> QED BY <2>1, <2>2
<1> QED BY <1>2, <1>3, <1>4, <1>5

LEMMA NextQueued ==
    ASSUME Queued, [Next]_vars
    PROVE  Queued'
<1>1. CASE UNCHANGED <<phase, batch>> BY <1>1 DEF Queued, emptyQueues
<1>2. CASE TickScan BY <1>2 DEF TickScan, Queued
<1>3. CASE \E t \in Threads : HandleEvent(t) BY <1>3 DEF HandleEvent, Queued
<1>4. CASE Crash BY <1>4 DEF Crash, Queued, emptyQueues
<1>5. CASE Reopen BY <1>5 DEF Reopen, Queued, emptyQueues
<1>6. CASE Tick /\ ~TickScan /\ ~Reopen /\ ~\E t \in Threads : HandleEvent(t)
  BY <1>1, <1>6 DEF Tick, TickBegin, LatchedFailure, ControllerProbe, ControlCommand, EndControls,
     MemoryLimitExceeded, CollectProbes, ProbeLifecycle, Dispatch, tickVars, Queued, emptyQueues
<1>7. CASE \E j \in jobs : JobStep(j)
  BY <1>1, <1>7 DEF JobStep, StartJob, SendRequest, StaleResult, RecoveryFailed, RecoveryUserActive,
     RecoveryNotApplicable, RecoveryAccepted, GoalBlockFailed, GoalBlockDone, finishing, tickVars
<1>8. CASE \/ \E t \in Threads : QueueCommand(t)
           \/ TogglePause \/ EditConfig \/ Advance \/ CodexMoves \/ UNCHANGED vars
  BY <1>1, <1>8 DEF QueueCommand, TogglePause, EditConfig, Advance, CodexMoves, vars, daemonVars,
     tickVars
<1> QED BY <1>2, <1>3, <1>4, <1>5, <1>6, <1>7, <1>8 DEF Next

----------------------------------------------------------------------------
(* What a thread remembers is in the past of the records to come.          *)

LEMMA EventTells ==
    ASSUME NEW th, Sound(th), NEW ev \in Event, NEW time \in Nat, NEW cfg \in Config,
           NEW seq \in Seq(Event), seq # <<>>, Head(seq) = ev,
           NEW run, NEW next \in Nat, NEW clock \in Nat, Tells(th, seq, run, next, clock)
    PROVE  Tells(handleEvent(th, ev, time, cfg), Tail(seq), run, next, clock)
<1> DEFINE after == handleEvent(th, ev, time, cfg)
           rest == Tail(seq)
<1>1. Observes(th, after, ev, time) BY EventHandled
<1>2. Ordered(seq, run, next, clock) BY DEF Tells
<1>3. /\ Grows(seq, run, next, clock, rest, run, next, clock)
      /\ NotBefore(ev.at, rest, clock)
      /\ ev.kind = "task_complete" => Past(ev.turn, rest, run, next)
  BY <1>2, TailFacts
<1>4. th \in ThreadState BY DEF Sound
<1> HIDE DEF rest
<1>5. Tells(th, rest, run, next, clock) BY <1>3, <1>4, GrowsTells
<1> HIDE DEF after
<1>6. CASE ev.kind = "task_complete"
  <2>1. Completes(th, after, ev.turn, time) BY <1>1, <1>6 DEF Observes
  <2> QED BY <1>3, <1>5, <1>6, <2>1 DEF Completes, Tells, after, rest
<1>7. CASE ev.kind = "turn_aborted"
  <2>1. Aborts(th, after, ev.at) BY <1>1, <1>7 DEF Observes
  <2> QED BY <1>3, <1>5, <2>1 DEF Aborts, KeysKept, Tells, after, rest
<1>8. CASE ev.kind \notin {"task_complete", "turn_aborted"}
  <2>1. Updates(th, after, ev.at) \/ Handles(th, after, time) BY <1>1, <1>8 DEF Observes
  <2>2. Remembers(th, after) BY <2>1 DEF Updates, Handles, Remembers
  <2>3. Tells(after, rest, run, next, clock) BY <1>5, <2>2, RemembersTells
  <2> QED BY <2>3 DEF after, rest
<1> QED BY <1>6, <1>7, <1>8

LEMMA RestartTells ==
    ASSUME Inv, "crash" \in Features, HistoryInv, Crash, NEW t \in Threads
    PROVE  Tells(threads'[t], batch'[t] \o rollout'[t], turn'[t], nextTurn', now')
<1> DEFINE th == disk[t]
           after == reconcileStartupState(loadThread(th), now)
           s == unsaved[t] \o rollout[t]
<1>1. Sound(th) BY SoundMember DEF Inv, FileInv
<1>2. Tells(th, s, turn[t], nextTurn, now) BY DEF HistoryInv, History
<1>3. /\ threads'[t] = after /\ batch' = emptyQueues /\ rollout'[t] = s
      /\ UNCHANGED <<turn, nextTurn, now>>
  BY DEF Crash
<1>4. s \in Seq(Event) /\ batch'[t] = <<>> BY <1>3, SeqFacts, QueueFacts
<1>5. batch'[t] \o rollout'[t] = s BY <1>3, <1>4, QueueFacts
<1> HIDE DEF th, s
<1>6. Remembers(th, after) BY <1>1, RestartRemembers
<1> HIDE DEF after
<1>7. Tells(after, s, turn[t], nextTurn, now) BY <1>2, <1>6, RemembersTells
<1> QED BY <1>3, <1>5, <1>7

LEMMA MemoryTells ==
    ASSUME Inv, Queued, HistoryInv, [Next]_vars, NEW t \in Threads
    PROVE  Tells(threads'[t], batch'[t] \o rollout'[t], turn'[t], nextTurn', now')
<1> DEFINE s == batch[t] \o rollout[t]
           s2 == batch'[t] \o rollout'[t]
           th == threads[t]
<1>1. Tells(th, s, turn[t], nextTurn, now) BY DEF HistoryInv, History
<1>2. s \in Seq(Event) BY SeqFacts, QueueFacts
<1>3. Sound(th) /\ th \in ThreadState /\ config \in Config /\ tickNow \in Nat /\ DOMAIN threads = Threads
  BY InvFacts
<1>4. CASE Crash BY <1>4, RestartTells DEF Crash
<1>5. CASE HandleEvent(t)
  <2> DEFINE ev == Head(batch[t])
             after == handleEvent(th, ev, tickNow, config)
             run == turn[t]
  <2>1. /\ batch[t] # <<>> /\ batch' = [batch EXCEPT ![t] = Tail(@)]
        /\ threads' = [threads EXCEPT ![t] = after]
        /\ UNCHANGED <<rollout, turn, nextTurn, now>>
    BY <1>5 DEF HandleEvent, codexVars
  <2>2. s # <<>> /\ Head(s) = ev /\ s2 = Tail(s) BY <2>1, SeqFacts, QueueFacts
  <2>3. ev \in Event BY <2>1, SeqFacts, HeadTailProperties
  <2>4. threads'[t] = after BY <1>3, <2>1
  <2> HIDE DEF ev, th, s, s2, run
  <2>5. Tells(th, s, run, nextTurn, now) BY <1>1 DEF run
  <2>6. Tells(after, Tail(s), run, nextTurn, now)
    BY <1>2, <1>3, <2>2, <2>3, <2>5, SeqFacts, EventTells
  <2> HIDE DEF after
  <2>7. Tells(after, s2, turn'[t], nextTurn', now') BY <2>1, <2>2, <2>6 DEF run
  <2> QED BY <2>4, <2>7 DEF s2
<1>6. CASE ~Crash /\ ~HandleEvent(t)
  <2>1. Grows(s, turn[t], nextTurn, now, s2, turn'[t], nextTurn', now')
    BY <1>6, BatchGrows DEF AllGrow
  <2>2. Remembers(th, threads'[t]) BY <1>6, NextRemembers
  <2> HIDE DEF s, s2, th
  <2>3. Tells(th, s2, turn'[t], nextTurn', now') BY <1>1, <1>3, <2>1, GrowsTells
  <2>4. Tells(threads'[t], s2, turn'[t], nextTurn', now') BY <2>2, <2>3, RemembersTells
  <2> QED BY <2>4 DEF s2
<1> QED BY <1>4, <1>5, <1>6

LEMMA NextHistory ==
    ASSUME Inv, Queued, HistoryInv, [Next]_vars
    PROVE  HistoryInv'
<1>1. History(threads', batch', rollout', turn', nextTurn', now') BY MemoryTells DEF History
<1>2. ASSUME "crash" \in Features
      PROVE  History(disk', unsaved', rollout', turn', nextTurn', now')
  <2>1. CASE AllGrow(unsaved, unsaved') /\ UNCHANGED disk
    <3> SUFFICES ASSUME NEW t \in Threads
                 PROVE  Tells(disk'[t], unsaved'[t] \o rollout'[t], turn'[t], nextTurn', now')
      BY DEF History
    <3> DEFINE s == unsaved[t] \o rollout[t]
               s2 == unsaved'[t] \o rollout'[t]
               th == disk[t]
    <3>1. Tells(th, s, turn[t], nextTurn, now) BY <1>2 DEF HistoryInv, History
    <3>2. Grows(s, turn[t], nextTurn, now, s2, turn'[t], nextTurn', now') BY <2>1 DEF AllGrow
    <3>3. th \in ThreadState BY InvFacts
    <3> HIDE DEF s, s2, th
    <3>4. Tells(th, s2, turn'[t], nextTurn', now') BY <3>1, <3>2, <3>3, GrowsTells
    <3> QED BY <2>1, <3>4 DEF s2, th
  <2>2. CASE Saved /\ UNCHANGED batch
    <3>1. disk' = threads' /\ unsaved' = batch' BY <2>2 DEF Saved, Queued
    <3> QED BY <1>1, <3>1
  <2> QED BY <1>2, <2>1, <2>2, UnsavedGrows
<1> QED BY <1>1, <1>2 DEF HistoryInv

LEMMA InitHistory == Init => Queued /\ HistoryInv /\ KeysPast
<1> SUFFICES ASSUME Init PROVE Queued /\ HistoryInv /\ KeysPast OBVIOUS
<1>1. ASSUME NEW t \in Threads
      PROVE  Tells(NewThread, emptyQueues[t] \o emptyQueues[t], Nil, 1, 1)
  <2> DEFINE s == emptyQueues[t] \o emptyQueues[t]
  <2>1. emptyQueues[t] = <<>> /\ <<>> \in Seq(Event) BY DEF emptyQueues
  <2>2. s = <<>> BY <2>1, QueueFacts
  <2>3. DOMAIN s = {} BY <2>2
  <2> HIDE DEF s
  <2>4. Ordered(s, Nil, 1, 1) BY <2>3 DEF Ordered
  <2>5. NewThread.LastAbortedAt = 0 /\ \A k \in Nat : ~HasKey(NewThread, k)
    BY DEF NewThread, HasKey
  <2>6. NotBefore(0, s, 1) BY <2>3 DEF NotBefore
  <2> QED BY <2>4, <2>5, <2>6 DEF Tells, s
<1>2. /\ threads = [t \in Threads |-> NewThread] /\ disk = threads
      /\ batch = emptyQueues /\ unsaved = emptyQueues /\ rollout = emptyQueues
      /\ turn = [t \in Threads |-> Nil] /\ nextTurn = 1 /\ now = 1 /\ jobs = {}
  BY DEF Init, CodexInit, emptyQueues
<1> QED BY <1>1, <1>2 DEF Queued, HistoryInv, History, KeysPast

\* The jobs that the dispatcher starts.
LEMMA NewJobs ==
    ASSUME Dispatch, NEW j \in jobs'
    PROVE  \/ j \in jobs
           \/ \E t : j = goalBlockJob(t)
           \/ \E t \in Threads : threads[t].Pending # Nil /\ j = recoveryJob(t)
<1>1. CASE UNCHANGED <<threads, active, jobs>> BY <1>1
<1>2. ASSUME NEW blocks, launch(blocks, {})
      PROVE  j \in jobs \/ \E t : j = goalBlockJob(t)
  BY <1>2 DEF launch
<1>3. ASSUME NEW blocks \in firstDue(stopDue, slots),
             NEW chosen \in firstDue(pendingDueAt(active \cup blocks), slots - Cardinality(blocks)),
             Chosen(blocks, chosen)
      PROVE  \/ j \in jobs
             \/ \E t : j = goalBlockJob(t)
             \/ \E t \in Threads : threads[t].Pending # Nil /\ j = recoveryJob(t)
  <2>1. chosen \subseteq candidates(active \cup blocks) BY ChosenDue
  <2>2. \A t \in chosen : t \in Threads /\ threads[t].Pending # Nil
    BY <2>1 DEF candidates, dispatchable, pendingDue
  <2> QED BY <1>3, <2>2 DEF Chosen, launch
<1> QED BY <1>1, <1>2, <1>3, DispatchForms

\* The failure of a new job is one that the thread remembers.
LEMMA NextKeysPast ==
    ASSUME Inv, Queued, HistoryInv, KeysPast, [Next]_vars
    PROVE  KeysPast'
<1>1. ASSUME NEW j \in jobs, ~Crash, NEW i, SameJob(j, i)
      PROVE  JobPast(i, batch', rollout', turn', nextTurn')
  <2> DEFINE t == j.thread
             s == batch[t] \o rollout[t]
             s2 == batch'[t] \o rollout'[t]
  <2>1. t \in Threads /\ j.key \in Nat BY JobFacts
  <2>2. i.thread = t /\ i.kind = j.kind /\ i.key = j.key BY <1>1 DEF SameJob
  <2>3. j.kind = "recovery" => Past(j.key, s, turn[t], nextTurn) BY DEF KeysPast, JobPast
  <2>4. Grows(s, turn[t], nextTurn, now, s2, turn'[t], nextTurn', now')
    BY <1>1, <2>1, BatchGrows DEF AllGrow
  <2>5. Ordered(s, turn[t], nextTurn, now) BY <2>1 DEF HistoryInv, History, Tells
  <2> HIDE DEF t, s, s2
  <2>6. j.kind = "recovery" => Past(j.key, s2, turn'[t], nextTurn')
    BY <2>1, <2>3, <2>4, <2>5 DEF Grows
  <2> QED BY <2>2, <2>6 DEF JobPast, s2
<1>2. CASE Crash BY <1>2 DEF Crash, KeysPast
<1>3. CASE ~Crash /\ ~Dispatch BY <1>1, <1>3, OldJobs DEF KeysPast
<1>4. CASE Dispatch
  <2>1. \A j : SameJob(j, j) BY DEF SameJob
  <2>2. ~Crash
    BY <1>4 DEF Dispatch, Crash, Inv, TickInv
  <2>3. UNCHANGED <<batch, rollout, turn, nextTurn>> BY <1>4 DEF Dispatch, codexVars
  <2>4. ASSUME NEW t \in Threads, threads[t].Pending # Nil
        PROVE  JobPast(recoveryJob(t), batch', rollout', turn', nextTurn')
    <3> DEFINE key == threads[t].Pending.fault.EventKey
    <3>1. HasKey(threads[t], key) BY <2>4 DEF HasKey
    <3>2. key \in Nat BY <2>4, InvFacts, PendingFacts DEF PendingRetry, Fault
    <3>3. recoveryJob(t).key = key /\ recoveryJob(t).thread = t BY DEF recoveryJob
    <3> HIDE DEF key
    <3>4. Past(key, batch[t] \o rollout[t], turn[t], nextTurn)
      BY <3>1, <3>2 DEF HistoryInv, History, Tells
    <3> QED BY <2>3, <3>3, <3>4 DEF JobPast
  <2>5. \A t : JobPast(goalBlockJob(t), batch', rollout', turn', nextTurn')
    BY DEF JobPast, goalBlockJob
  <2>6. \A j \in jobs' : \/ j \in jobs
                         \/ \E t : j = goalBlockJob(t)
                         \/ \E t \in Threads : threads[t].Pending # Nil /\ j = recoveryJob(t)
    BY <1>4, NewJobs
  <2> QED BY <1>1, <2>1, <2>2, <2>4, <2>5, <2>6 DEF KeysPast
<1> QED BY <1>2, <1>3, <1>4

----------------------------------------------------------------------------
(* Times and jobs.                                                         *)

\* What stays of a job, whatever becomes of it.
StillJob(j, i) ==
    /\ SameJob(j, i) /\ i.at = j.at
    /\ j.cancelled => i.cancelled
    /\ j.pc = "launched" => i.pc = "launched" \/ jobMatches(j)

LEMMA CancelledStill ==
    ASSUME jobs \subseteq Job, NEW t, NEW i \in cancelJobs(jobs, t)
    PROVE  /\ \E j \in jobs : StillJob(j, i)
           /\ i.thread = t => i.cancelled \/ i.pc = "launched"
<1>1. PICK j \in jobs : i = IF j.thread = t /\ j.pc = "running"
                            THEN [j EXCEPT !.cancelled = TRUE] ELSE j
  BY DEF cancelJobs
<1>2. StillJob(j, i) BY <1>1 DEF Job, SameJob, StillJob
<1>3. i.thread = t => i.cancelled \/ i.pc = "launched" BY <1>1 DEF Job
<1> QED BY <1>2, <1>3

LEMMA JobsStill ==
    ASSUME Inv, [Next]_vars, ~Dispatch, NEW i \in jobs'
    PROVE  \E j \in jobs : StillJob(j, i)
<1> DEFINE Goal == \E j \in jobs : StillJob(j, i)
<1> SUFFICES Goal OBVIOUS
<1>1. jobs \subseteq Job BY DEF Inv, MemoryInv, SoundJob
<1>2. \A j : StillJob(j, j) BY DEF SameJob, StillJob
<1>3. CASE UNCHANGED jobs BY <1>2, <1>3
<1>4. ASSUME NEW t, jobs' = cancelJobs(jobs, t) PROVE Goal
  BY <1>1, <1>4, CancelledStill
<1>5. CASE Tick
  <2>1. UNCHANGED jobs \/ \E t : jobs' = cancelJobs(jobs, t)
    BY <1>5 DEF Tick, TickBegin, LatchedFailure, ControllerProbe, TickScan, HandleEvent, Reopen,
       ControlCommand, EndControls, MemoryLimitExceeded, CollectProbes, ProbeLifecycle, memoryVars
  <2> QED BY <1>3, <1>4, <2>1
<1>6. CASE \E j \in jobs : JobStep(j)
  <2>1. PICK j \in jobs : JobStep(j) BY <1>6
  <2>2. CASE removeJob(j) BY <1>2, <2>2 DEF removeJob
  <2>3. ASSUME NEW new, StillJob(j, new), jobs' = (jobs \ {j}) \cup {new} PROVE Goal
    BY <1>2, <2>3
  <2>4. CASE StartJob(j)
    <3>1. jobMatches(j) => StillJob(j, [j EXCEPT !.pc = "running"]) BY <1>1 DEF Job, SameJob, StillJob
    <3> QED BY <2>2, <2>3, <2>4, <3>1 DEF StartJob
  <2>5. CASE SendRequest(j)
    <3>1. \A what : StillJob(j, [j EXCEPT !.sent = what]) BY <1>1 DEF Job, SameJob, StillJob
    <3>2. \E what : jobs' = (jobs \ {j}) \cup {[j EXCEPT !.sent = what]}
      BY <2>5 DEF SendRequest
    <3> QED BY <2>3, <3>1, <3>2
  <2>6. CASE \/ StaleResult(j) \/ RecoveryFailed(j) \/ RecoveryUserActive(j)
             \/ RecoveryNotApplicable(j) \/ RecoveryAccepted(j) \/ GoalBlockFailed(j)
             \/ GoalBlockDone(j)
    BY <2>2, <2>6 DEF StaleResult, RecoveryFailed, RecoveryUserActive, RecoveryNotApplicable,
       RecoveryAccepted, GoalBlockFailed, GoalBlockDone, finishing
  <2> QED BY <2>1, <2>4, <2>5, <2>6 DEF JobStep
<1>7. CASE Crash BY <1>7 DEF Crash
<1>8. CASE \/ \E t \in Threads : QueueCommand(t)
           \/ TogglePause \/ EditConfig \/ Advance \/ CodexMoves \/ UNCHANGED vars
  BY <1>3, <1>8 DEF QueueCommand, TogglePause, EditConfig, Advance, CodexMoves, vars, daemonVars,
     memoryVars
<1> QED BY <1>5, <1>6, <1>7, <1>8 DEF Next

\* The clocks of a step: none moves, a tick begins, or time goes on.
ClockForms ==
    \/ UNCHANGED <<now, tickNow>> /\ (phase' = "idle" <=> phase = "idle")
    \/ phase = "idle" /\ tickNow < now /\ tickNow' = now /\ UNCHANGED now
    \/ /\ phase = "idle" \/ "slow" \in Features
       /\ now' = now + 1 /\ UNCHANGED <<tickNow, phase>>

LEMMA NextClocks ==
    ASSUME [Next]_vars, ~Crash, ~Dispatch
    PROVE  ClockForms
<1>1. CASE UNCHANGED <<now, tickNow, phase>> BY <1>1 DEF ClockForms
<1>2. CASE TickBegin \/ TickScan \/ LatchedFailure \/ ControllerProbe
  BY <1>2 DEF TickBegin, TickScan, LatchedFailure, ControllerProbe, ClockForms
<1>3. CASE \/ Reopen \/ EndControls \/ CollectProbes \/ ControlCommand \/ MemoryLimitExceeded
           \/ \E t \in Threads : HandleEvent(t)
           \/ \E p \in probes : ProbeLifecycle(p)
  BY <1>3 DEF Reopen, EndControls, CollectProbes, ControlCommand, MemoryLimitExceeded, HandleEvent,
     ProbeLifecycle, ClockForms, tickVars
<1>4. CASE \E j \in jobs : JobStep(j)
  BY <1>1, <1>4 DEF JobStep, StartJob, SendRequest, StaleResult, RecoveryFailed, RecoveryUserActive,
     RecoveryNotApplicable, RecoveryAccepted, GoalBlockFailed, GoalBlockDone, finishing, tickVars
<1>5. CASE \/ \E t \in Threads : QueueCommand(t)
           \/ TogglePause \/ EditConfig \/ CodexMoves \/ UNCHANGED vars
  BY <1>1, <1>5 DEF QueueCommand, TogglePause, EditConfig, CodexMoves, vars, daemonVars, tickVars
<1>6. CASE Advance BY <1>6 DEF Advance, daemonVars, tickVars, ClockForms
<1> QED BY <1>2, <1>3, <1>4, <1>5, <1>6 DEF Next, Tick

\* When the jobs were launched.
LaunchTimes(js, time, tick, where) ==
    \A j \in js :
       /\ j.at \in Nat /\ j.at <= time
       /\ where # "idle" => Since(j.at, tick)
       /\ "slow" \notin Features => j.at <= tick

LEMMA TimelyForm ==
    ASSUME Inv
    PROVE  Timely <=> /\ tickNow <= now
                      /\ "slow" \notin Features /\ phase # "idle" => tickNow = now
                      /\ LaunchTimes(jobs, now, tickNow, phase)
<1>1. \A j \in jobs : j.at \in Nat BY JobFacts DEF Job
<1> QED BY <1>1 DEF Timely, LaunchTimes

LEMMA NextTimely ==
    ASSUME Inv, Inv', Timely, [Next]_vars
    PROVE  Timely'
<1>1. /\ tickNow <= now
      /\ "slow" \notin Features /\ phase # "idle" => tickNow = now
      /\ LaunchTimes(jobs, now, tickNow, phase)
      /\ now \in Nat /\ tickNow \in Nat
  BY TimelyForm, InvFacts
<1>2. ASSUME tickNow' <= now', "slow" \notin Features /\ phase' # "idle" => tickNow' = now',
             LaunchTimes(jobs', now', tickNow', phase')
      PROVE  Timely'
  BY <1>2 DEF Timely, LaunchTimes
<1>3. CASE Crash BY <1>1, <1>2, <1>3 DEF Crash, LaunchTimes
<1>4. CASE Dispatch
  <2>1. phase = "lifecycle" /\ phase' = "idle" /\ UNCHANGED <<now, tickNow>> BY <1>4 DEF Dispatch
  <2>2. \A t : goalBlockJob(t).at = now /\ recoveryJob(t).at = now
    BY DEF goalBlockJob, recoveryJob
  <2>3. \A j \in jobs' : j \in jobs \/ j.at = now BY <1>4, <2>2, NewJobs
  <2>4. LaunchTimes(jobs', now', tickNow', phase') BY <1>1, <2>1, <2>3 DEF LaunchTimes
  <2> QED BY <1>1, <1>2, <2>1, <2>4
<1>5. CASE ~Crash /\ ~Dispatch
  <2>1. \A i \in jobs' : \E j \in jobs : i.at = j.at BY <1>5, JobsStill DEF StillJob
  <2>2. ClockForms BY <1>5, NextClocks
  <2>3. tickNow' <= now' /\ ("slow" \notin Features /\ phase' # "idle" => tickNow' = now')
    BY <1>1, <2>2 DEF ClockForms
  <2>4. LaunchTimes(jobs', now', tickNow', phase')
    BY <1>1, <2>1, <2>2 DEF ClockForms, LaunchTimes, Since
  <2> QED BY <1>2, <2>3, <2>4
<1> QED BY <1>3, <1>4, <1>5

\* A handler runs when every job was launched before.
LEMMA TickSince ==
    ASSUME Inv, Timely, Timely', Tick, NEW j \in jobs, NEW i \in jobs', i.at = j.at
    PROVE  Since(j.at, tickNow')
<1>1. CASE Dispatch BY <1>1 DEF Dispatch, Timely
<1>2. CASE ~Dispatch
  <2>1. phase' # "idle"
    BY <1>2 DEF Tick, TickBegin, LatchedFailure, ControllerProbe, TickScan, HandleEvent, Reopen,
       ControlCommand, EndControls, MemoryLimitExceeded, CollectProbes, ProbeLifecycle, tickVars
  <2> QED BY <2>1 DEF Timely, Since
<1> QED BY <1>1, <1>2

----------------------------------------------------------------------------
(* No step brings a job closer to a dispatch that it did not make.         *)

JobRight(j, th) == j.kind = "recovery" => Behind(j, th) /\ Minds(j, th)

LEMMA LiveType ==
    ASSUME NEW th \in ThreadState, liveRetry(th) # Nil
    PROVE  liveRetry(th).budget.Attempt \in Nat
BY DEF liveRetry, ThreadState, PendingRetry, AwaitingRetry, Budget

\* The chain goes on, or the retry is about another failure.
LEMMA GoesBehind ==
    ASSUME NEW j \in Job, NEW before \in ThreadState, NEW after \in ThreadState, Behind(j, before),
           \/ Goes(before, after)
           \/ liveRetry(after).fault.EventKey # j.key,
           after.RecoveryStartedAt = before.RecoveryStartedAt
    PROVE  Behind(j, after)
<1> DEFINE x == liveRetry(before)
           y == liveRetry(after)
<1> SUFFICES ASSUME y # Nil, y.fault.EventKey = j.key, ~Since(j.at, after.RecoveryStartedAt)
             PROVE  \/ y.budget.Attempt > j.attempt
                    \/ /\ after.Awaiting # Nil
                       /\ y.budget.Attempt = j.attempt
                       /\ after.Awaiting.DispatchStartedAt <= j.at
  BY DEF Behind
<1>1. /\ x # Nil /\ x.fault.EventKey = j.key
      /\ \/ y.budget.Attempt > x.budget.Attempt
         \/ /\ y.budget.Attempt = x.budget.Attempt
            /\ before.Awaiting # Nil =>
                  /\ after.Awaiting # Nil
                  /\ after.Awaiting.DispatchStartedAt = before.Awaiting.DispatchStartedAt
  BY DEF Goes
<1>2. \/ x.budget.Attempt > j.attempt
      \/ /\ before.Awaiting # Nil
         /\ x.budget.Attempt = j.attempt
         /\ before.Awaiting.DispatchStartedAt <= j.at
  BY <1>1 DEF Behind
<1>3. x.budget.Attempt \in Nat /\ y.budget.Attempt \in Nat /\ j.attempt \in Nat
  BY <1>1, LiveType DEF Job
<1> HIDE DEF x, y
<1> QED BY <1>1, <1>2, <1>3

LEMMA SinceBehind ==
    ASSUME NEW j, NEW after, Since(j.at, after.RecoveryStartedAt)
    PROVE  Behind(j, after) /\ Minds(j, after)
BY DEF Behind, Minds

\* A handler that hears nothing of an abort.
LEMMA KeepsMinds ==
    ASSUME NEW j, NEW before \in ThreadState, NEW after \in ThreadState, Minds(j, before),
           after.LastAbortedAt = before.LastAbortedAt,
           after.GoalObservedAt >= before.GoalObservedAt,
           after.RecoveryStartedAt = before.RecoveryStartedAt,
           automaticGoalLimitStopped(before) =>
              automaticGoalLimitStopped(after) \/ after.GoalObservedAt >= after.LastAbortedAt,
           Clean(before) => Clean(after)
    PROVE  Minds(j, after)
<1>1. /\ before.GoalObservedAt \in Nat /\ after.GoalObservedAt \in Nat
      /\ before.LastAbortedAt \in Nat
  BY ThreadTimes
<1> QED BY <1>1 DEF Minds

LEMMA HandlesRight ==
    ASSUME NEW j \in Job, NEW before \in ThreadState, NEW after \in ThreadState, NEW time,
           Since(j.at, time), Handles(before, after, time), JobRight(j, before)
    PROVE  JobRight(j, after)
<1>1. CASE after.RecoveryStartedAt = time
  <2>1. Since(j.at, after.RecoveryStartedAt) BY <1>1
  <2> QED BY <2>1, SinceBehind DEF JobRight
<1>2. CASE after.RecoveryStartedAt # time
  <2>1. /\ after.RecoveryStartedAt = before.RecoveryStartedAt
        /\ automaticGoalLimitStopped(before) => automaticGoalLimitStopped(after)
        /\ Clean(before) => Clean(after)
        /\ Goes(before, after)
        /\ after.LastAbortedAt = before.LastAbortedAt
        /\ after.GoalObservedAt >= before.GoalObservedAt
    BY <1>2 DEF Handles
  <2>2. Behind(j, before) => Behind(j, after) BY <2>1, GoesBehind
  <2>3. Minds(j, before) => Minds(j, after) BY <2>1, KeepsMinds
  <2> QED BY <2>2, <2>3 DEF JobRight
<1> QED BY <1>1, <1>2

\* A job that is still under way, of an unchanged thread.
LEMMA StillRight ==
    ASSUME NEW j, NEW i, StillJob(j, i), JobRight(j, threads[j.thread])
    PROVE  JobRight(i, threads[j.thread])
<1> DEFINE th == threads[j.thread]
<1>1. i.kind = j.kind /\ i.key = j.key /\ i.attempt = j.attempt /\ i.at = j.at
  BY DEF StillJob, SameJob
<1>2. Behind(j, th) => Behind(i, th) BY <1>1 DEF Behind
<1>3. j.kind = "recovery" /\ jobMatches(j) => ~Clean(th) BY DEF jobMatches, Clean
<1>4. ~i.cancelled => ~j.cancelled BY DEF StillJob
<1>5. j.kind = "recovery" /\ j.pc = "launched" /\ Clean(th) => i.pc = "launched"
  BY <1>3 DEF StillJob
<1> HIDE DEF th
<1>6. j.kind = "recovery" /\ Minds(j, th) => Minds(i, th) BY <1>1, <1>4, <1>5 DEF Minds
<1>7. JobRight(i, th) BY <1>1, <1>2, <1>6 DEF JobRight, th
<1> QED BY <1>7 DEF th

\* The watchdog handles a record of the thread.
LEMMA EventRight ==
    ASSUME NEW j \in Job, NEW i, StillJob(j, i), NEW before \in ThreadState,
           NEW after \in ThreadState, NEW ev \in Event, NEW time, Since(j.at, time),
           Observes(before, after, ev, time), JobRight(j, before), JobRight(i, before),
           before.LastAbortedAt <= ev.at,
           j.kind = "recovery" /\ ev.kind = "task_complete" => ev.turn # j.key,
           ev.kind = "turn_aborted" /\ ~automaticGoalLimitStopped(before)
              => i.cancelled \/ i.pc = "launched"
    PROVE  JobRight(i, after)
<1>1. i.kind = j.kind /\ i.key = j.key /\ i.attempt = j.attempt /\ i.at = j.at
  BY DEF StillJob, SameJob
<1>2. ASSUME Behind(j, after) PROVE Behind(i, after) BY <1>1, <1>2 DEF Behind
<1>3. CASE ev.kind = "task_complete"
  <2>1. Completes(before, after, ev.turn, time) BY <1>3 DEF Observes
  <2>2. CASE after.RecoveryStartedAt = time
    <3>1. Since(i.at, after.RecoveryStartedAt) BY <1>1, <2>2
    <3> QED BY <3>1, SinceBehind DEF JobRight
  <2>3. CASE after.RecoveryStartedAt # time
    <3>1. /\ after.RecoveryStartedAt = before.RecoveryStartedAt
          /\ automaticGoalLimitStopped(before) => automaticGoalLimitStopped(after)
          /\ Clean(before) => Clean(after)
          /\ Goes(before, after) \/ liveRetry(after).fault.EventKey = ev.turn
          /\ after.LastAbortedAt = before.LastAbortedAt
          /\ after.GoalObservedAt = before.GoalObservedAt
      BY <2>1, <2>3 DEF Completes
    <3>2. j.kind = "recovery" /\ Behind(j, before) => Behind(j, after)
      BY <1>3, <3>1, GoesBehind
    <3>3. before.GoalObservedAt \in Nat BY ThreadTimes
    <3>4. Minds(i, before) => Minds(i, after) BY <3>1, <3>3, KeepsMinds
    <3> QED BY <1>1, <1>2, <3>2, <3>4 DEF JobRight
  <2> QED BY <2>2, <2>3
<1>4. CASE ev.kind = "turn_aborted"
  <2>1. Aborts(before, after, ev.at) BY <1>4 DEF Observes
  <2>2. Behind(j, before) => Behind(j, after) BY <2>1, GoesBehind DEF Aborts
  <2>3. Minds(i, after) BY <1>4, <2>1 DEF Aborts, Minds
  <2> QED BY <1>1, <1>2, <2>2, <2>3 DEF JobRight
<1>5. CASE ev.kind = "thread_goal_updated"
  <2>1. Updates(before, after, ev.at) BY <1>5 DEF Observes
  <2>2. Behind(j, before) => Behind(j, after) BY <2>1, GoesBehind DEF Updates
  <2>3. automaticGoalLimitStopped(before) =>
           automaticGoalLimitStopped(after) \/ after.GoalObservedAt >= after.LastAbortedAt
    <3>1. ev.at \in Nat /\ before.LastAbortedAt \in Nat BY ThreadTimes DEF Event
    <3> QED BY <2>1, <3>1 DEF Updates
  <2>4. Minds(i, before) => Minds(i, after) BY <2>1, <2>3, KeepsMinds DEF Updates
  <2> QED BY <1>1, <1>2, <2>2, <2>4 DEF JobRight
<1>6. CASE ev.kind \notin {"task_complete", "turn_aborted", "thread_goal_updated"}
  <2>1. Handles(before, after, time) BY <1>6 DEF Observes
  <2>3. JobRight(j, after) BY <2>1, HandlesRight
  <2>4. CASE after.RecoveryStartedAt = time
    <3>1. Since(i.at, after.RecoveryStartedAt) BY <1>1, <2>4
    <3> QED BY <3>1, SinceBehind DEF JobRight
  <2>5. CASE after.RecoveryStartedAt # time
    <3>1. /\ after.RecoveryStartedAt = before.RecoveryStartedAt
          /\ automaticGoalLimitStopped(before) => automaticGoalLimitStopped(after)
          /\ Clean(before) => Clean(after)
          /\ after.LastAbortedAt = before.LastAbortedAt
          /\ after.GoalObservedAt >= before.GoalObservedAt
      BY <2>1, <2>5 DEF Handles
    <3>2. Minds(i, before) => Minds(i, after) BY <3>1, KeepsMinds
    <3> QED BY <1>1, <1>2, <2>3, <3>2 DEF JobRight
  <2> QED BY <2>4, <2>5
<1> QED BY <1>3, <1>4, <1>5, <1>6

LEMMA FirstRecord ==
    ASSUME NEW seq \in Seq(Event), seq # <<>>
    PROVE  1 \in DOMAIN seq /\ seq[1] = Head(seq)
<1>1. Len(seq) \in Nat \ {0} /\ DOMAIN seq = 1..Len(seq) BY LenProperties, EmptySeq
<1> QED BY <1>1, HeadTailProperties

LEMMA HandleEventRight ==
    ASSUME Inv, Slots, Timely, HistoryInv, KeysPast, JobsInv,
           NEW t \in Threads, HandleEvent(t), NEW i \in jobs'
    PROVE  JobRight(i, threads'[i.thread])
<1> DEFINE ev == Head(batch[t])
           before == threads[t]
           after == handleEvent(before, ev, tickNow, config)
           s == batch[t] \o rollout[t]
<1>1. jobs \subseteq Job BY DEF Inv, MemoryInv, SoundJob
<1>2. /\ phase = "events" /\ batch[t] # <<>>
      /\ threads' = [threads EXCEPT ![t] = after]
      /\ jobs' = IF cancelsJob(before, ev) THEN cancelJobs(jobs, t) ELSE jobs
  BY DEF HandleEvent
<1>3. PICK j \in jobs : /\ StillJob(j, i)
                        /\ cancelsJob(before, ev) /\ i.thread = t => i.cancelled \/ i.pc = "launched"
  <2>1. \A j : StillJob(j, j) BY DEF SameJob, StillJob
  <2>2. CASE cancelsJob(before, ev) BY <1>1, <1>2, <2>2, CancelledStill
  <2>3. CASE ~cancelsJob(before, ev) BY <1>2, <2>1, <2>3
  <2> QED BY <2>2, <2>3
<1>4. JobRight(j, threads[j.thread]) BY DEF JobsInv, JobRight
<1>5. i.thread = j.thread /\ j.thread \in Threads /\ j \in Job
  BY <1>3, JobFacts DEF StillJob, SameJob
<1>6. JobRight(i, threads[j.thread]) BY <1>3, <1>4, StillRight
<1>7. CASE j.thread # t
  <2>1. threads'[j.thread] = threads[j.thread] BY <1>2, <1>5, <1>7, InvFacts
  <2> QED BY <1>5, <1>6, <2>1
<1>8. CASE j.thread = t
  <2>1. Sound(before) /\ before \in ThreadState /\ threads'[t] = after
        /\ tickNow \in Nat /\ tickNow # 0 /\ config \in Config
    BY <1>2, InvFacts DEF Inv, TickInv
  <2>2. ev \in Event BY <1>2, SeqFacts, HeadTailProperties
  <2>3. s # <<>> /\ Head(s) = ev /\ s \in Seq(Event) BY <1>2, SeqFacts, QueueFacts
  <2>4. 1 \in DOMAIN s /\ s[1] = ev BY <2>3, FirstRecord
  <2>5. before.LastAbortedAt <= ev.at
    BY <2>4 DEF HistoryInv, History, Tells, NotBefore
  <2>6. j.kind = "recovery" /\ ev.kind = "task_complete" => ev.turn # j.key
    BY <1>8, <2>4 DEF KeysPast, JobPast, Past
  <2>7. ev.kind = "turn_aborted" /\ ~automaticGoalLimitStopped(before)
           => i.cancelled \/ i.pc = "launched"
    BY <1>3, <1>5, <1>8 DEF cancelsJob
  <2>8. Since(j.at, tickNow) BY <1>2 DEF Timely
  <2> HIDE DEF ev, before, s
  <2>9. Observes(before, after, ev, tickNow) BY <2>1, <2>2, EventHandled
  <2>10. after \in ThreadState BY <2>1, <2>2, EventSound DEF Sound
  <2> HIDE DEF after
  <2>11. JobRight(j, before) /\ JobRight(i, before) BY <1>4, <1>6, <1>8 DEF before
  <2>12. JobRight(i, after)
    BY <1>3, <1>5, <2>1, <2>2, <2>5, <2>6, <2>7, <2>8, <2>9, <2>10, <2>11, EventRight
  <2> QED BY <1>5, <1>8, <2>1, <2>12
<1> QED BY <1>7, <1>8

\* Any other step of the tick, for a job that it does not launch.
LEMMA TickRight ==
    ASSUME Inv, Inv', Slots, Timely, Timely', JobsInv, Tick, \A t \in Threads : ~HandleEvent(t),
           NEW j \in jobs, NEW i \in jobs', StillJob(j, i)
    PROVE  JobRight(i, threads'[i.thread])
<1> DEFINE t == j.thread
           before == threads[t]
           after == threads'[t]
<1>1. t \in Threads /\ t \in active /\ j \in Job BY JobFacts DEF Slots
<1>2. i.thread = t /\ i.at = j.at BY DEF StillJob, SameJob
<1>3. Treats(before, after, t \in active, tickNow') BY <1>1, TickTreats
<1>4. Handles(before, after, tickNow') BY <1>1, <1>3 DEF Treats
<1>5. Since(j.at, tickNow') BY <1>2, TickSince
<1>6. before \in ThreadState /\ after \in ThreadState BY <1>1, InvFacts, SoundMember DEF Inv, MemoryInv, Sound
<1>7. JobRight(j, before) BY DEF JobsInv, JobRight
<1>8. JobRight(i, before) BY <1>7, StillRight
<1>9. i \in Job BY DEF Inv, MemoryInv, SoundJob
<1>10. Since(i.at, tickNow') BY <1>2, <1>5
<1> DEFINE time == tickNow'
<1> HIDE DEF before, after, time
<1>11. JobRight(i, after) BY <1>4, <1>6, <1>8, <1>9, <1>10, HandlesRight DEF time
<1> QED BY <1>2, <1>11 DEF after

\* The job of a new dispatch.
LEMMA LaunchedRight ==
    ASSUME Inv, Timely, HistoryInv, NEW t \in Threads, threads[t].Pending # Nil,
           threads'[t] = startDispatch(threads[t], tickNow, config)
    PROVE  JobRight(recoveryJob(t), threads'[t])
<1> DEFINE th == threads[t]
           after == startDispatch(th, tickNow, config)
           j == recoveryJob(t)
<1>1. Sound(th) /\ now \in Nat /\ tickNow \in Nat BY InvFacts
<1>2. /\ j.attempt = th.Pending.budget.Attempt /\ j.at = now
  BY DEF recoveryJob
<1>3. th.LastAbortedAt <= now BY DEF HistoryInv, History, Tells, NotBefore
<1>4. tickNow <= now BY DEF Timely
<1>5. th.Pending # Nil OBVIOUS
<1> HIDE DEF th, j
<1>6. /\ Remembers(th, after)
      /\ after.Awaiting.budget = th.Pending.budget
      /\ after.Awaiting.DispatchStartedAt = tickNow
      /\ after.Pending = Nil
  BY <1>1, <1>5, StartRemembers
<1> HIDE DEF after
<1>7. liveRetry(after) = after.Awaiting BY <1>6 DEF liveRetry
<1>8. Behind(j, after) BY <1>2, <1>4, <1>6, <1>7 DEF Behind
<1>9. th.LastAbortedAt \in Nat BY <1>1, ThreadTimes DEF Sound
<1>10. Minds(j, after) BY <1>1, <1>2, <1>3, <1>6, <1>9 DEF Minds, Remembers
<1> QED BY <1>8, <1>10 DEF JobRight, after, th, j

LEMMA DispatchRight ==
    ASSUME Inv, Inv', Slots, Timely, Timely', HistoryInv, JobsInv, Dispatch, NEW i \in jobs'
    PROVE  JobRight(i, threads'[i.thread])
<1>1. \A j : StillJob(j, j) BY DEF SameJob, StillJob
<1>2. Tick /\ \A t \in Threads : ~HandleEvent(t) BY DEF Tick, Dispatch, HandleEvent
<1>3. CASE i \in jobs BY <1>1, <1>2, <1>3, TickRight
<1>4. \A t : JobRight(goalBlockJob(t), threads'[t]) /\ goalBlockJob(t).thread = t
             /\ recoveryJob(t).thread = t
  BY DEF JobRight, goalBlockJob, recoveryJob
<1>5. CASE i \notin jobs /\ UNCHANGED <<threads, active, jobs>> BY <1>5
<1>6. ASSUME NEW blocks, launch(blocks, {}), i \notin jobs PROVE JobRight(i, threads'[i.thread])
  BY <1>4, <1>6 DEF launch
<1>7. ASSUME NEW blocks \in firstDue(stopDue, slots),
             NEW chosen \in firstDue(pendingDueAt(active \cup blocks), slots - Cardinality(blocks)),
             Chosen(blocks, chosen), i \notin jobs
      PROVE  JobRight(i, threads'[i.thread])
  <2> DEFINE busy == active \cup blocks
  <2>1. chosen \subseteq candidates(busy) BY ChosenDue
  <2>2. ASSUME NEW t \in chosen PROVE JobRight(recoveryJob(t), threads'[t])
    <3>1. t \in Threads /\ threads[t].Pending # Nil /\ ~heldFromDispatch(threads[t])
          /\ ~recoveryTimeExceeded(threads[t], tickNow)
      BY <2>1 DEF candidates, dispatchable, pendingDue
    <3>2. threads'[t] = startDispatch(threads[t], tickNow, config)
      BY <1>7, <3>1 DEF Chosen, promoted
    <3> QED BY <3>1, <3>2, LaunchedRight
  <2>3. \/ \E t : i = goalBlockJob(t)
        \/ \E t \in chosen : i = recoveryJob(t)
    BY <1>7 DEF Chosen, launch
  <2> QED BY <1>4, <2>2, <2>3
<1> QED BY <1>3, <1>5, <1>6, <1>7, DispatchForms

LEMMA NextJobsInv ==
    ASSUME Inv, Inv', Slots, Timely, Timely', HistoryInv, KeysPast, JobsInv, [Next]_vars
    PROVE  JobsInv'
<1> SUFFICES ASSUME NEW i \in jobs' PROVE JobRight(i, threads'[i.thread])
  BY DEF JobsInv, JobRight, Behind, Minds
<1>1. CASE Crash BY <1>1 DEF Crash
<1>2. CASE Dispatch BY <1>2, DispatchRight
<1>3. CASE \E t \in Threads : HandleEvent(t) BY <1>3, HandleEventRight
<1>4. ASSUME NEW j \in jobs, StillJob(j, i), threads'[j.thread] = threads[j.thread]
      PROVE  JobRight(i, threads'[i.thread])
  <2>1. JobRight(j, threads[j.thread]) BY DEF JobsInv, JobRight
  <2>2. JobRight(i, threads[j.thread]) BY <1>4, <2>1, StillRight
  <2>3. i.thread = j.thread BY <1>4 DEF StillJob, SameJob
  <2> QED BY <1>4, <2>2, <2>3
<1>5. CASE ~Crash /\ ~Dispatch /\ ~\E t \in Threads : HandleEvent(t)
  <2>1. PICK j \in jobs : StillJob(j, i) BY <1>5, JobsStill
  <2>2. CASE Tick BY <1>5, <2>1, <2>2, TickRight
  <2>3. CASE \E k \in jobs : JobStep(k)
    <3>1. PICK k \in jobs : JobStep(k) BY <2>3
    <3>2. i.thread = j.thread /\ j.thread \in Threads BY <2>1, JobFacts DEF StillJob, SameJob
    <3>3. \/ threads'[j.thread] = threads[j.thread]
          \/ j.thread = k.thread /\ removeJob(k)
      BY <3>1, <3>2, JobTreats
    <3>4. ~(j.thread = k.thread /\ removeJob(k)) BY <3>2 DEF removeJob, Slots
    <3> QED BY <1>4, <2>1, <3>3, <3>4
  <2>4. CASE \/ \E t \in Threads : QueueCommand(t)
             \/ TogglePause \/ EditConfig \/ Advance \/ CodexMoves \/ UNCHANGED vars
    BY <1>4, <2>1, <2>4 DEF QueueCommand, TogglePause, EditConfig, Advance, CodexMoves, vars,
       daemonVars, memoryVars
  <2> QED BY <1>5, <2>2, <2>3, <2>4 DEF Next
<1> QED BY <1>1, <1>2, <1>3, <1>5

LEMMA InitJobs == Init => Slots /\ Timely /\ JobsInv
<1> SUFFICES ASSUME Init PROVE Slots /\ Timely /\ JobsInv OBVIOUS
<1>1. active = {} /\ jobs = {} /\ tickNow = 0 /\ now = 1 /\ phase = "idle"
  BY DEF Init, CodexInit
<1>2. Slots BY <1>1 DEF Slots
<1>3. Timely BY <1>1 DEF Timely
<1>4. JobsInv BY <1>1 DEF JobsInv
<1> QED BY <1>2, <1>3, <1>4

\* The whole of what is known of the jobs and of their threads' history.
JobHistory == Slots /\ Queued /\ HistoryInv /\ KeysPast /\ Timely /\ JobsInv

LEMMA JobHistoryHolds == Spec => []JobHistory
<1>1. Init => JobHistory BY InitHistory, InitJobs DEF JobHistory
<1>2. Inv /\ Inv' /\ JobHistory /\ [Next]_vars => JobHistory'
  <2> SUFFICES ASSUME Inv, Inv', JobHistory, [Next]_vars PROVE JobHistory' OBVIOUS
  <2>1. Slots /\ Queued /\ HistoryInv /\ KeysPast /\ Timely /\ JobsInv BY DEF JobHistory
  <2>2. Slots' /\ Queued' /\ HistoryInv' /\ KeysPast' /\ Timely'
    BY <2>1, NextKeepsSlots, NextQueued, NextHistory, NextKeysPast, NextTimely
  <2>3. JobsInv' BY <2>1, <2>2, NextJobsInv
  <2> QED BY <2>2, <2>3 DEF JobHistory
<1> QED BY InvHolds, <1>1, <1>2, PTL DEF Spec

\* As long as the chain goes on in which a job was launched, its result is applied
\* to the dispatch that produced it, whatever happened in between: the failure and
\* the attempt that runJob compares identify the dispatch.
THEOREM ResultMatchesDispatchHolds == Spec => []ResultMatchesDispatch
<1>1. Inv /\ JobHistory => ResultMatchesDispatch
  <2> SUFFICES ASSUME Inv, JobHistory, NEW j \in jobs,
                      j.kind = "recovery", jobMatches(j), ~newChainSince(j)
               PROVE  threads[j.thread].Awaiting.DispatchStartedAt <= j.at
    BY DEF ResultMatchesDispatch
  <2> DEFINE th == threads[j.thread]
  <2>1. Sound(th) /\ j \in Job BY JobFacts
  <2>2. Behind(j, th) BY DEF JobHistory, JobsInv
  <2>3. ~Since(j.at, th.RecoveryStartedAt) BY DEF newChainSince, Since
  <2>4. th.Awaiting # Nil /\ th.Awaiting.fault.EventKey = j.key
        /\ th.Awaiting.budget.Attempt = j.attempt
    BY DEF jobMatches
  <2> HIDE DEF th
  <2>5. th.Pending = Nil BY <2>1, <2>4, AwaitingFacts
  <2>6. liveRetry(th) = th.Awaiting BY <2>5 DEF liveRetry
  <2>7. th.Awaiting.DispatchStartedAt <= j.at
    BY <2>1, <2>2, <2>3, <2>4, <2>6 DEF Behind, Job
  <2> QED BY <2>7 DEF th
<1> QED BY InvHolds, JobHistoryHolds, <1>1, PTL

\* An abort by the user leaves no job of the chain it ends that could still send its
\* request, but for the jobs that handleTurnAborted leaves alone while a goal limit
\* has stopped the chain.
THEOREM AbortStopsJobsHolds == Spec => []AbortStopsJobs
<1>1. JobHistory => AbortStopsJobs
  <2> SUFFICES ASSUME JobHistory, NEW j \in jobs,
                      j.kind = "recovery", j.pc = "running", ~j.cancelled,
                      threads[j.thread].LastAbortedAt > j.at
               PROVE  \/ automaticGoalLimitStopped(threads[j.thread])
                      \/ threads[j.thread].GoalObservedAt >= threads[j.thread].LastAbortedAt
                      \/ newChainSince(j)
    BY DEF AbortStopsJobs
  <2>1. Minds(j, threads[j.thread]) BY DEF JobHistory, JobsInv
  <2> QED BY <2>1 DEF Minds, newChainSince, Since
<1> QED BY JobHistoryHolds, <1>1, PTL

----------------------------------------------------------------------------
(* An acknowledged retry turn that runs is left alone by the tick.         *)

\* Turn ids count from 1: 0 stands for a turn that was not acknowledged yet.
TurnIds == nextTurn >= 1 /\ \A t \in Threads : turn[t] # Nil => turn[t].id >= 1

LEMMA MovesTurnIds ==
    ASSUME Inv, TurnIds, NEW t \in Threads, Moves(t)
    PROVE  TurnIds'
<1>1. turn \in [Threads -> Turn \cup {Nil}] /\ nextTurn \in Nat
  BY DEF Inv, CodexInv, CodexTypeOK
<1>2. CASE \E ev : TurnBegins(t, ev) BY <1>1, <1>2 DEF TurnBegins, TurnIds
<1>3. CASE TurnLost(t) \/ \E ev : TurnGoesOn(t, ev)
  BY <1>1, <1>3 DEF TurnLost, TurnGoesOn, TurnIds
<1> QED BY <1>2, <1>3 DEF Moves

LEMMA NextTurnIds ==
    ASSUME Inv, TurnIds, [Next]_vars
    PROVE  TurnIds'
<1>1. CASE UNCHANGED <<turn, nextTurn>> BY <1>1 DEF TurnIds
<1>2. CASE TickScan \/ Crash \/ \E t \in Threads : HandleEvent(t)
  BY <1>1, <1>2 DEF TickScan, Crash, HandleEvent, codexVars
<1>3. CASE ~Crash /\ ~TickScan /\ \A t \in Threads : ~HandleEvent(t)
  <2>1. Still \/ Running BY <1>3, QueueForms
  <2>2. CASE Still BY <1>1, <2>2 DEF Still
  <2>3. CASE Running BY <2>3, MovesTurnIds DEF Running
  <2> QED BY <2>1, <2>2, <2>3
<1> QED BY <1>2, <1>3

\* No record but the completion of the turn queues a retry beside a dispatched one.
LEMMA EventQueuesNothing ==
    ASSUME NEW th, Sound(th), th.Awaiting # Nil, NEW ev \in Event,
           ev.kind = "task_complete" => th.Awaiting.RetryTurnID # ev.turn,
           NEW time \in Nat, NEW cfg \in Config
    PROVE  handleEvent(th, ev, time, cfg).Pending = Nil
<1>1. /\ th \in ThreadState /\ th.Pending = Nil /\ th.Stopped = Nil
      /\ ~automaticGoalLimitStopped(th)
  BY AwaitingFacts, LiveNotStopped DEF Sound
<1>2. CASE ev.kind = "task_started"
  BY <1>1, <1>2 DEF handleEvent, handleTaskStarted, adoptTurn, resetRetryState, ThreadState
<1>3. CASE ev.kind = "task_user_input"
  BY <1>1, <1>3 DEF handleEvent, handleTaskUserInput, resetRetryState, ThreadState
<1>4. CASE ev.kind = "task_progress"
  BY <1>1, <1>4 DEF handleEvent, handleTaskProgress, ThreadState
<1>5. CASE ev.kind = "task_complete"
  BY <1>1, <1>5 DEF handleEvent, handleTaskComplete, resetRetryState, ThreadState
<1>6. CASE ev.kind = "turn_aborted"
  BY <1>1, <1>6 DEF handleEvent, handleTurnAborted, resetRetryState, ThreadState
<1>7. CASE ev.kind = "thread_goal_updated"
  BY <1>1, <1>7 DEF handleEvent, handleGoalUpdated, resetRetryState, ThreadState
<1>8. CASE ev.kind = "subagent_recovery_notice"
  BY <1>1, <1>8 DEF handleEvent, handleSubagentRecoveryNotice, ThreadState
<1> QED BY <1>2, <1>3, <1>4, <1>5, <1>6, <1>7, <1>8 DEF Event, EventKinds

\* Neither does the dispatcher.
LEMMA DispatchQueuesNothing ==
    ASSUME Inv, Dispatch, NEW t \in Threads, threads[t].Awaiting # Nil
    PROVE  threads'[t].Pending = Nil
<1> DEFINE th == threads[t]
<1>1. /\ th \in ThreadState /\ th.Pending = Nil BY AwaitingFacts, InvFacts
<1>2. CASE UNCHANGED threads BY <1>1, <1>2
<1>3. CASE threads' = stoppedForTransport
  BY <1>1, <1>3 DEF stoppedForTransport, pendingDue
<1>4. CASE \E blocks \in firstDue(stopDue, slots) :
              \E chosen \in firstDue(pendingDueAt(active \cup blocks), slots - Cardinality(blocks)) :
                 Chosen(blocks, chosen)
  <2>1. PICK blocks \in firstDue(stopDue, slots) :
              \E chosen \in firstDue(pendingDueAt(active \cup blocks), slots - Cardinality(blocks)) :
                 Chosen(blocks, chosen)
    BY <1>4
  <2>2. PICK chosen \in firstDue(pendingDueAt(active \cup blocks), slots - Cardinality(blocks)) :
                 Chosen(blocks, chosen)
    BY <2>1
  <2> DEFINE busy == active \cup blocks
  <2>3. chosen \subseteq candidates(busy) BY ChosenDue
  <2>4. t \notin chosen /\ ~dispatchable(t, busy)
    BY <1>1, <2>3 DEF candidates, dispatchable, pendingDue
  <2>5. threads'[t] = IF heldFromDispatch(th) THEN clearHeldRetry(th) ELSE th
    BY <2>2, <2>4 DEF Chosen, promoted
  <2>6. clearHeldRetry(th).Pending = Nil
    BY <1>1 DEF clearHeldRetry, dropHeldRetry, ThreadState
  <2> QED BY <1>1, <2>5, <2>6
<1> QED BY <1>2, <1>3, <1>4, DispatchForms

LEMMA TickQueuesNothing ==
    ASSUME Inv, Queued, HistoryInv, TurnIds, Tick, "flaky" \notin Features,
           NEW t \in Threads, runsAcknowledged(t)
    PROVE  threads'[t].Pending = Nil
<1> DEFINE th == threads[t]
           a == th.Awaiting
<1>1. /\ Sound(th) /\ th \in ThreadState /\ DOMAIN threads = Threads
      /\ config \in Config /\ configFile \in Config /\ now \in Nat /\ tickNow \in Nat
  BY InvFacts
<1>2. /\ th.Awaiting # Nil /\ turn[t] # Nil /\ a.RetryTurnID = turn[t].id
      /\ a.RetryTurnID # 0
  BY SeqFacts DEF runsAcknowledged, TurnIds
<1>3. th.Awaiting \in AwaitingRetry /\ th.Pending = Nil /\ th.Stopped = Nil
  BY <1>1, <1>2, AwaitingFacts
<1>4. CASE TickBegin \/ LatchedFailure \/ ControllerProbe \/ MemoryLimitExceeded
  BY <1>3, <1>4 DEF TickBegin, LatchedFailure, ControllerProbe, MemoryLimitExceeded, memoryVars
<1>5. CASE TickScan
  <2>1. threads'[t] = reloadLimits(th, configFile, now) BY <1>5 DEF TickScan
  <2> QED BY <1>1, <1>3, <2>1 DEF reloadLimits, ThreadState
<1>6. CASE HandleEvent(t)
  <2> DEFINE ev == Head(batch[t])
             s == batch[t] \o rollout[t]
  <2>1. /\ batch[t] # <<>>
        /\ threads'[t] = handleEvent(th, ev, tickNow, config)
    BY <1>1, <1>6 DEF HandleEvent
  <2>2. s \in Seq(Event) /\ s # <<>> /\ Head(s) = ev BY <2>1, SeqFacts, QueueFacts
  <2>3. ev \in Event BY <2>1, SeqFacts, HeadTailProperties
  <2>4. Ordered(s, turn[t], nextTurn, now) BY DEF HistoryInv, History, Tells
  <2>5. 1 \in DOMAIN s /\ s[1] = ev BY <2>2, FirstRecord
  <2> HIDE DEF s, ev
  <2>6. ev.kind = "task_complete" => ev.turn # turn[t].id
    BY <1>2, <2>4, <2>5 DEF Ordered
  <2> QED BY <1>1, <1>2, <2>1, <2>3, <2>6, EventQueuesNothing
<1>7. CASE \E u \in Threads : u # t /\ HandleEvent(u)
  BY <1>1, <1>3, <1>7 DEF HandleEvent
<1>8. CASE Reopen
  BY <1>3, <1>8 DEF Reopen, reopenRestartRequired, canReopenTransportRetry
<1>9. CASE ControlCommand
  <2>1. threads'[t] = th \/ \E action : threads'[t] = applyControlCommand(th, action, tickNow, config)
    BY <1>1, <1>9 DEF ControlCommand
  <2> QED BY <1>3, <2>1 DEF applyControlCommand, commandRetryNow, commandCancelRetry,
                             commandRestartRetry
<1>10. CASE EndControls
  BY <1>2, <1>3, <1>10 DEF EndControls, expireUnacknowledged, startOverdue
<1>11. CASE CollectProbes
  BY <1>1, <1>3, <1>11 DEF CollectProbes, ThreadState
<1>12. CASE \E p \in probes : ProbeLifecycle(p)
  <2>1. lifecycleStatuses(t) = {"active"} BY <1>2 DEF lifecycleStatuses
  <2>2. \/ threads'[t] = th
        \/ \E reason : threads'[t] = probeFailed(th, reason, config)
        \/ threads'[t] = probeFoundActive(th)
    BY <1>1, <1>12, <2>1 DEF ProbeLifecycle
  <2>3. ASSUME NEW reason PROVE probeFailed(th, reason, config).Pending = Nil
    BY <1>1, <1>3, StopsFacts DEF probeFailed, ThreadState
  <2>4. probeFoundActive(th).Pending = Nil BY <1>1, <1>3 DEF probeFoundActive, ThreadState
  <2> QED BY <1>3, <2>2, <2>3, <2>4
<1>13. CASE Dispatch BY <1>2, <1>13, DispatchQueuesNothing
<1> QED BY <1>4, <1>5, <1>6, <1>7, <1>8, <1>9, <1>10, <1>11, <1>12, <1>13 DEF Tick

\* If the lifecycle probes tell the truth, no step of the tick queues a retry again
\* whose acknowledged turn still runs: not the scan, not the deadlines, not the probes
\* and not the dispatcher.
THEOREM TickKeepsRunningTurnHolds == Spec => TickKeepsRunningTurn
<1>1. Init => TurnIds
  <2>1. Init => nextTurn = 1 /\ \A t \in Threads : turn[t] = Nil BY DEF Init, CodexInit
  <2> QED BY <2>1 DEF TurnIds
<1>2. Inv /\ TurnIds /\ [Next]_vars => TurnIds' BY NextTurnIds
<1>3. Inv /\ Queued /\ HistoryInv /\ TurnIds /\ [Next]_vars
      => [Tick /\ "flaky" \notin Features
          => \A t \in Threads : runsAcknowledged(t) => threads'[t].Pending = Nil]_vars
  BY TickQueuesNothing
<1>4. JobHistory => Queued /\ HistoryInv BY DEF JobHistory
<1> QED BY InvHolds, JobHistoryHolds, <1>1, <1>2, <1>3, <1>4, PTL DEF Spec, TickKeepsRunningTurn

----------------------------------------------------------------------------
(* What Codex writes, turn by turn.                                        *)

\* Records that belong to no turn.
Aside(ev) == ev.kind \in {"thread_goal_updated", "subagent_recovery_notice"}

\* A record of a thread, with the running turn and the next id before and after: a
\* turn starts, it ends, or something is noted.
Starts(ev, run, next, run2, next2) ==
    /\ ev.kind = "task_started" /\ ev.turn = next
    /\ run = Nil /\ run2 # Nil /\ run2.id = next /\ next2 = next + 1

Ends(ev, run, next, run2, next2) ==
    /\ run # Nil /\ run2 = Nil /\ next2 = next
    /\ \/ ev.kind = "task_complete" /\ ev.turn = run.id
       \/ ev.kind = "turn_aborted" /\ ev.turn \in {0, run.id} /\ ev.class = "none"

Notes(ev, run, next, run2, next2) ==
    /\ run2 = run /\ next2 = next
    /\ ev.kind \notin {"task_started", "task_complete", "turn_aborted"}
    /\ run = Nil => Aside(ev)

Adds(ev, run, next, run2, next2) ==
    \/ Starts(ev, run, next, run2, next2)
    \/ Ends(ev, run, next, run2, next2)
    \/ Notes(ev, run, next, run2, next2)

\* Nothing is written of the thread, but its turn may be lost; or a record is.
Shape(seq, run, next, seq2, run2, next2) ==
    \/ seq2 = seq /\ run2 \in {run, Nil} /\ next2 >= next
    \/ \E ev \in Event : seq2 = Append(seq, ev) /\ Adds(ev, run, next, run2, next2)

Shaped ==
    /\ nextTurn' \in Nat
    /\ \A u \in Threads : Shape(rollout[u], turn[u], nextTurn, rollout'[u], turn'[u], nextTurn')

LEMMA AddsShaped ==
    ASSUME CodexInv, NEW t \in Threads, NEW ev \in Event, append(t, ev),
           NEW run2, turn' = [turn EXCEPT ![t] = run2],
           Adds(ev, turn[t], nextTurn, run2, nextTurn')
    PROVE  Shaped
<1>1. /\ turn \in [Threads -> Turn \cup {Nil}] /\ rollout \in [Threads -> Seq(Event)]
      /\ nextTurn \in Nat
  BY DEF CodexInv, CodexTypeOK
<1>2. nextTurn' \in {nextTurn, nextTurn + 1} BY DEF Adds, Starts, Ends, Notes
<1>3. ASSUME NEW u \in Threads, u # t
      PROVE  Shape(rollout[u], turn[u], nextTurn, rollout'[u], turn'[u], nextTurn')
  BY <1>1, <1>2, <1>3 DEF append, Shape
<1>4. rollout'[t] = Append(rollout[t], ev) /\ turn'[t] = run2 BY <1>1 DEF append
<1>5. Shape(rollout[t], turn[t], nextTurn, rollout'[t], turn'[t], nextTurn')
  BY <1>4 DEF Shape
<1> QED BY <1>1, <1>2, <1>3, <1>5 DEF Shaped

LEMMA NotesShaped ==
    ASSUME CodexInv, NEW t \in Threads, NEW ev, NEW kind, NEW id, IsRecord(ev, kind, id),
           kind \notin {"task_started", "task_complete", "turn_aborted"},
           turn[t] = Nil => kind \in {"thread_goal_updated", "subagent_recovery_notice"},
           append(t, ev), UNCHANGED <<turn, nextTurn>>
    PROVE  Shaped
<1>1. turn \in [Threads -> Turn \cup {Nil}] BY DEF CodexInv, CodexTypeOK
<1>2. turn' = [turn EXCEPT ![t] = turn[t]] BY <1>1
<1>3. ev \in Event /\ Adds(ev, turn[t], nextTurn, turn[t], nextTurn')
  BY DEF IsRecord, Adds, Notes, Aside
<1> QED BY <1>2, <1>3, AddsShaped

LEMMA StillShaped ==
    ASSUME CodexInv, NEW t, TurnLost(t)
    PROVE  Shaped
<1>1. turn \in [Threads -> Turn \cup {Nil}] /\ nextTurn \in Nat BY DEF CodexInv, CodexTypeOK
<1> QED BY <1>1 DEF TurnLost, Shaped, Shape

LEMMA SetGoalShaped ==
    ASSUME CodexInv, NEW t \in Threads, NEW status \in GoalStates, setGoal(t, status),
           UNCHANGED <<turn, nextTurn>>
    PROVE  Shaped
<1> DEFINE kind == "thread_goal_updated"
           none == 0
           plain == record(kind, none)
           ev == [plain EXCEPT !.status = status, !.updatedAt = now]
<1>1. /\ kind \in EventKinds /\ kind \notin {"task_started", "task_complete", "turn_aborted"}
      /\ kind \in {"thread_goal_updated", "subagent_recovery_notice"}
      /\ none \in Nat /\ now \in Nat
  BY DEF EventKinds, CodexInv, CodexTypeOK
<1>2. append(t, ev) BY DEF setGoal
<1> HIDE DEF kind, none
<1>3. IsRecord(plain, kind, none) BY <1>1, PlainRecord
<1> HIDE DEF plain
<1>4. IsRecord(ev, kind, none) BY <1>1, <1>3, StatusRecord
<1> HIDE DEF ev
<1> QED BY <1>1, <1>2, <1>4, NotesShaped

\* Every step of Codex.
LEMMA CodexShaped ==
    ASSUME CodexInv, NEW t \in Threads, CodexStep(t)
    PROVE  Shaped
<1>1. /\ turn \in [Threads -> Turn \cup {Nil}]
      /\ turn[t] # Nil => turn[t].id \in Nat
      /\ nextTurn \in Nat /\ now \in Nat
  BY DEF CodexInv, CodexTypeOK, Turn
<1>2. ASSUME NEW origin \in {"user", "native", "watchdog"}, startTurn(t, origin) PROVE Shaped
  <2> DEFINE kind == "task_started"
             ev == record(kind, nextTurn)
             run == [id |-> nextTurn, origin |-> origin]
  <2>1. kind \in EventKinds /\ kind = "task_started" BY DEF EventKinds
  <2>2. run.id = nextTurn /\ run # Nil BY <1>1, NilTurnAssumption DEF Turn
  <2>3. append(t, ev) /\ turn' = [turn EXCEPT ![t] = run] /\ turn[t] = Nil
        /\ nextTurn' = nextTurn + 1
    BY <1>2 DEF startTurn
  <2> HIDE DEF kind, run
  <2>4. IsRecord(ev, kind, nextTurn) BY <1>1, <2>1, PlainRecord
  <2> HIDE DEF ev
  <2>5. ev \in Event /\ Adds(ev, turn[t], nextTurn, run, nextTurn')
    BY <2>1, <2>2, <2>3, <2>4 DEF IsRecord, Adds, Starts
  <2> QED BY <2>3, <2>5, AddsShaped
<1>3. CASE UserStart(t) \/ NativeStart(t) \/ RequestedStart(t)
  BY <1>2, <1>3 DEF UserStart, NativeStart, RequestedStart
<1>4. CASE Progress(t)
  <2> DEFINE kind == "task_progress"
  <2>1. kind \in EventKinds /\ kind \notin {"task_started", "task_complete", "turn_aborted"}
    BY DEF EventKinds
  <2>2. append(t, record(kind, turn[t].id)) /\ turn[t] # Nil
        /\ UNCHANGED <<turn, nextTurn>> BY <1>4 DEF Progress
  <2> HIDE DEF kind
  <2>3. IsRecord(record(kind, turn[t].id), kind, turn[t].id) BY <1>1, <2>1, <2>2, PlainRecord
  <2> QED BY <2>1, <2>2, <2>3, NotesShaped
<1>5. CASE UserInput(t)
  <2> DEFINE kind == "task_user_input"
  <2>1. kind \in EventKinds /\ kind \notin {"task_started", "task_complete", "turn_aborted"}
    BY DEF EventKinds
  <2>2. PICK id \in Nat : append(t, record(kind, id)) BY <1>1, <1>5 DEF UserInput
  <2>3. UNCHANGED <<turn, nextTurn>> /\ turn[t] # Nil BY <1>5 DEF UserInput
  <2> HIDE DEF kind
  <2>4. IsRecord(record(kind, id), kind, id) BY <2>1, PlainRecord
  <2> QED BY <2>1, <2>2, <2>3, <2>4, NotesShaped
<1>6. CASE Abort(t)
  <2> DEFINE kind == "turn_aborted"
  <2>1. kind \in EventKinds /\ kind = "turn_aborted" BY DEF EventKinds
  <2>2. PICK id \in {0, turn[t].id} : append(t, record(kind, id)) BY <1>6 DEF Abort
  <2>3. turn' = [turn EXCEPT ![t] = Nil] /\ nextTurn' = nextTurn /\ turn[t] # Nil
    BY <1>6 DEF Abort
  <2>4. id \in Nat BY <1>1, <2>3
  <2>5. record(kind, id).class = "none" BY DEF record
  <2> HIDE DEF kind
  <2>6. IsRecord(record(kind, id), kind, id) BY <2>1, <2>4, PlainRecord
  <2> DEFINE ev == record(kind, id)
  <2>7. append(t, ev) /\ ev.class = "none" /\ IsRecord(ev, kind, id) BY <2>2, <2>5, <2>6
  <2> HIDE DEF ev
  <2>8. ev \in Event /\ Adds(ev, turn[t], nextTurn, Nil, nextTurn')
    BY <2>1, <2>2, <2>3, <2>7 DEF IsRecord, Adds, Ends
  <2> QED BY <2>3, <2>7, <2>8, AddsShaped
<1>7. CASE Complete(t)
  <2> DEFINE kind == "task_complete"
             plain == record(kind, turn[t].id)
             ev(class) == [plain EXCEPT !.class = class]
  <2>1. kind \in EventKinds /\ kind = "task_complete" BY DEF EventKinds
  <2>2. PICK class \in Outcomes : append(t, ev(class)) BY <1>7 DEF Complete
  <2>3. turn[t] # Nil /\ turn' = [turn EXCEPT ![t] = Nil] /\ nextTurn' = nextTurn
    BY <1>7 DEF Complete
  <2>4. class \in FailureClasses \cup {"success", "none"} BY CodexAssumption
  <2> HIDE DEF kind
  <2>5. IsRecord(plain, kind, turn[t].id) BY <1>1, <2>1, <2>3, PlainRecord
  <2> HIDE DEF plain
  <2>6. IsRecord(ev(class), kind, turn[t].id) BY <2>4, <2>5, ClassRecord
  <2> HIDE DEF ev
  <2>7. ev(class) \in Event /\ Adds(ev(class), turn[t], nextTurn, Nil, nextTurn')
    BY <2>1, <2>3, <2>6 DEF IsRecord, Adds, Ends
  <2> QED BY <2>2, <2>3, <2>7, AddsShaped
<1>8. CASE Lose(t) BY <1>8, StillShaped DEF Lose, TurnLost
<1>9. CASE UpdateGoal(t)
  <2>1. PICK status \in GoalStates : setGoal(t, status)
    BY <1>9, CodexAssumption DEF UpdateGoal
  <2>2. UNCHANGED <<turn, nextTurn>> BY <1>9 DEF UpdateGoal
  <2> QED BY <2>1, <2>2, SetGoalShaped
<1>10. CASE Notice(t)
  <2> DEFINE kind == "subagent_recovery_notice"
             none == 0
             plain == record(kind, none)
             ev(key) == [plain EXCEPT !.key = key]
  <2>1. /\ kind \in EventKinds /\ kind \notin {"task_started", "task_complete", "turn_aborted"}
        /\ kind \in {"thread_goal_updated", "subagent_recovery_notice"} /\ none \in Nat
    BY DEF EventKinds
  <2>2. PICK key \in Nat : append(t, ev(key)) BY <1>1, <1>10 DEF Notice
  <2>3. UNCHANGED <<turn, nextTurn>> BY <1>10 DEF Notice
  <2> HIDE DEF kind, none
  <2>4. IsRecord(plain, kind, none) BY <2>1, PlainRecord
  <2> HIDE DEF plain
  <2>5. IsRecord(ev(key), kind, none) BY <2>4, KeyRecord
  <2> HIDE DEF ev
  <2> QED BY <2>1, <2>2, <2>3, <2>5, NotesShaped
<1> QED BY <1>3, <1>4, <1>5, <1>6, <1>7, <1>8, <1>9, <1>10 DEF CodexStep

\* The request of a job.
LEMMA RequestShaped ==
    ASSUME Inv, NEW j \in jobs, SendRequest(j)
    PROVE  Shaped
<1> DEFINE t == j.thread
<1>1. t \in Threads /\ CodexInv BY JobFacts DEF Inv
<1>2. UNCHANGED <<turn, nextTurn>> BY DEF SendRequest
<1>3. \/ UNCHANGED rollout
      \/ \E status \in {"blocked", "active"} : setGoal(t, status)
  BY DEF SendRequest, requestTurn
<1> HIDE DEF t
<1>4. CASE UNCHANGED rollout BY <1>1, <1>2, <1>4, StillShaped DEF TurnLost
<1>5. CASE \E status \in {"blocked", "active"} : setGoal(t, status)
  <2>1. PICK status \in GoalStates : setGoal(t, status)
    BY <1>5 DEF GoalStates, limitGoalStatuses
  <2> QED BY <1>1, <1>2, <2>1, SetGoalShaped
<1> QED BY <1>3, <1>4, <1>5

\* Every step but the scan and a restart, which only move records.
LEMMA NextShaped ==
    ASSUME Inv, [Next]_vars, ~TickScan, ~Crash
    PROVE  Shaped
<1>1. ASSUME UNCHANGED <<rollout, turn, nextTurn>> PROVE Shaped
  BY <1>1, StillShaped DEF TurnLost, Inv
<1>2. CASE Tick
  BY <1>1, <1>2 DEF Tick, TickBegin, LatchedFailure, ControllerProbe, HandleEvent, Reopen,
     ControlCommand, EndControls, MemoryLimitExceeded, CollectProbes, ProbeLifecycle, Dispatch,
     codexVars
<1>3. CASE \E j \in jobs : JobStep(j)
  BY <1>1, <1>3, RequestShaped DEF JobStep, StartJob, StaleResult, RecoveryFailed,
     RecoveryUserActive, RecoveryNotApplicable, RecoveryAccepted, GoalBlockFailed, GoalBlockDone,
     finishing, codexVars
<1>4. CASE \/ \E t \in Threads : QueueCommand(t)
           \/ TogglePause \/ EditConfig \/ Advance \/ UNCHANGED vars
  BY <1>1, <1>4 DEF QueueCommand, TogglePause, EditConfig, Advance, vars, codexVars
<1>5. CASE CodexMoves
  <2>1. PICK t \in Threads : CodexStep(t) BY <1>5 DEF CodexMoves
  <2> QED BY <2>1, CodexShaped DEF Inv
<1> QED BY <1>2, <1>3, <1>4, <1>5 DEF Next

\* The same records, queued behind others.
LEMMA ShapeBehind ==
    ASSUME NEW q \in Seq(Event), NEW r \in Seq(Event), NEW run, NEW next, NEW r2, NEW run2, NEW next2,
           Shape(r, run, next, r2, run2, next2)
    PROVE  Shape(q \o r, run, next, q \o r2, run2, next2)
<1>1. \A ev \in Event : q \o Append(r, ev) = Append(q \o r, ev) BY QueueFacts
<1>2. CASE r2 = r BY <1>2 DEF Shape
<1>3. CASE r2 # r
  <2>1. PICK ev \in Event : r2 = Append(r, ev) /\ Adds(ev, run, next, run2, next2)
    BY <1>3 DEF Shape
  <2>2. q \o r2 = Append(q \o r, ev) BY <1>1, <2>1
  <2> DEFINE s == q \o r
             s2 == q \o r2
  <2>3. s2 = Append(s, ev) BY <2>2
  <2> HIDE DEF s, s2
  <2>4. Shape(s, run, next, s2, run2, next2) BY <2>1, <2>3 DEF Shape
  <2> QED BY <2>4 DEF s, s2
<1> QED BY <1>2, <1>3

----------------------------------------------------------------------------
(* The turns that a thread remembers, and whether it has a retry.          *)

\* A retry of the thread is queued, dispatched or visibly stopped.
Retried(th) == th.Pending # Nil \/ th.Awaiting # Nil \/ th.Stopped # Nil

SameTurns(before, after) ==
    /\ after.LastStartedTurnID = before.LastStartedTurnID
    /\ after.LastAbortedTurnID = before.LastAbortedTurnID
    /\ after.LastExternalTurnID = before.LastExternalTurnID

\* A handler that hears nothing of a turn, and one that drops no retry either.
Keeps(before, after) == SameTurns(before, after) /\ (Clean(before) => Clean(after))
Carries(before, after) == Keeps(before, after) /\ (Retried(before) => Retried(after))

LEMMA SameCarries ==
    ASSUME NEW th
    PROVE  Carries(th, th)
BY DEF Carries, Keeps, SameTurns

LEMMA BusyCarries ==
    ASSUME NEW before, NEW after, SameTurns(before, after), Retried(before), Retried(after)
    PROVE  Carries(before, after)
BY DEF Carries, Keeps, Retried, Clean

LEMMA TurnsThrough ==
    ASSUME NEW a, NEW b, NEW c, SameTurns(a, b), SameTurns(b, c)
    PROVE  SameTurns(a, c)
BY DEF SameTurns

\* A retry is given up, or goes back to the queue.
LEMMA StopsTurns ==
    ASSUME NEW th \in ThreadState
    PROVE  /\ SameTurns(th, resetRetryState(th)) /\ Clean(resetRetryState(th))
           /\ SameTurns(th, dropHeldRetry(th))
           /\ \A fault, budget, reason, historical, blocked, time :
                 /\ SameTurns(th, stopRetry(th, fault, budget, reason, historical, blocked))
                 /\ SameTurns(th, exhaustRetry(th, fault, budget, reason, historical, time))
<1>1. SameTurns(th, resetRetryState(th)) BY DEF resetRetryState, SameTurns, ThreadState
<1>2. SameTurns(th, dropHeldRetry(th)) BY DEF dropHeldRetry, SameTurns, ThreadState
<1>3. ASSUME NEW fault, NEW budget, NEW reason, NEW historical, NEW blocked, NEW time
      PROVE  /\ SameTurns(th, stopRetry(th, fault, budget, reason, historical, blocked))
             /\ SameTurns(th, exhaustRetry(th, fault, budget, reason, historical, time))
  <2>1. SameTurns(th, stopRetry(th, fault, budget, reason, historical, blocked))
    BY DEF stopRetry, SameTurns, ThreadState
  <2>2. SameTurns(th, exhaustRetry(th, fault, budget, reason, historical, time))
    BY DEF exhaustRetry, stopRetry, SameTurns, ThreadState
  <2> QED BY <2>1, <2>2
<1> QED BY <1>1, <1>2, <1>3, ResetFacts

LEMMA ExhaustCarries ==
    ASSUME NEW before, Retried(before), NEW th \in ThreadState, SameTurns(before, th),
           NEW fault \in Fault, NEW budget \in Budget, NEW reason \in StopReasons,
           NEW historical \in BOOLEAN, NEW time
    PROVE  Carries(before, exhaustRetry(th, fault, budget, reason, historical, time))
<1> DEFINE unset == "unset"
           limit == "goal_empty_response_limit"
           s(r) == stopRetry(th, fault, budget, r, historical, unset)
           after == exhaustRetry(th, fault, budget, reason, historical, time)
<1>1. unset \in {"unset", "yes", "no"} /\ limit \in StopReasons BY DEF StopReasons
<1>2. \/ after = s(reason)
      \/ \E g : after = [s(limit) EXCEPT !.GoalStop = g]
  BY DEF exhaustRetry
<1> HIDE DEF unset, limit
<1>3. \A r \in StopReasons : s(r) \in ThreadState /\ s(r).Stopped # Nil BY <1>1, StopRetryType
<1> HIDE DEF s
<1>4. \A g : [s(limit) EXCEPT !.GoalStop = g].Stopped = s(limit).Stopped
  BY <1>1, <1>3 DEF ThreadState
<1>5. after.Stopped # Nil BY <1>1, <1>2, <1>3, <1>4
<1>6. SameTurns(th, after) BY StopsTurns
<1> HIDE DEF after
<1>7. SameTurns(before, after) BY <1>6, TurnsThrough
<1>8. Carries(before, after) BY <1>5, <1>7, BusyCarries DEF Retried
<1> QED BY <1>8 DEF after

LEMMA ControllerCarries ==
    ASSUME NEW before, Retried(before), NEW th \in ThreadState, SameTurns(before, th),
           NEW reason \in StopReasons
    PROVE  /\ th.Awaiting \in AwaitingRetry => Carries(before, stopAwaitingForController(th, reason))
           /\ th.Pending \in PendingRetry => Carries(before, stopPendingForController(th, reason))
<1> DEFINE unset == "unset"
           no == FALSE
           s(fault, budget, blocked) == stopRetry(th, fault, budget, reason, no, blocked)
<1>0. no \in BOOLEAN OBVIOUS
<1> HIDE DEF no
<1>1. ASSUME NEW fault \in Fault, NEW budget \in Budget, NEW blocked \in {"unset", "yes", "no"}
      PROVE  /\ Carries(before, [s(fault, budget, blocked) EXCEPT !.GoalStop = Nil])
             /\ Carries(before, [s(fault, budget, blocked) EXCEPT !.GoalStop = Nil,
                                                        !.CurrentTurnProgress = FALSE])
  <2> DEFINE x == s(fault, budget, blocked)
             x1 == [x EXCEPT !.GoalStop = Nil]
             x2 == [x EXCEPT !.GoalStop = Nil, !.CurrentTurnProgress = FALSE]
  <2>1. x \in ThreadState /\ x.Stopped # Nil BY <1>0, <1>1, StopRetryType
  <2>2. SameTurns(th, x) BY StopsTurns
  <2> HIDE DEF x
  <2>3. x1.Stopped = x.Stopped /\ x2.Stopped = x.Stopped /\ SameTurns(x, x1) /\ SameTurns(x, x2)
    BY <2>1 DEF ThreadState, SameTurns
  <2> HIDE DEF x1, x2
  <2>4. SameTurns(before, x1) /\ SameTurns(before, x2) BY <2>2, <2>3, TurnsThrough
  <2>5. Carries(before, x1) /\ Carries(before, x2) BY <2>1, <2>3, <2>4, BusyCarries DEF Retried
  <2> QED BY <2>5 DEF x1, x2, x
<1>2. ASSUME th.Awaiting \in AwaitingRetry
      PROVE  Carries(before, stopAwaitingForController(th, reason))
  <2>1. th.Awaiting.fault \in Fault /\ th.Awaiting.budget \in Budget
    BY <1>2 DEF AwaitingRetry
  <2>2. stopAwaitingForController(th, reason)
          = [s(th.Awaiting.fault, th.Awaiting.budget, unset) EXCEPT !.GoalStop = Nil]
    BY DEF stopAwaitingForController, no
  <2>3. unset \in {"unset", "yes", "no"} OBVIOUS
  <2> HIDE DEF s, unset
  <2>4. Carries(before, [s(th.Awaiting.fault, th.Awaiting.budget, unset) EXCEPT !.GoalStop = Nil])
    BY <1>1, <2>1, <2>3
  <2> QED BY <2>2, <2>4
<1>3. ASSUME th.Pending \in PendingRetry
      PROVE  Carries(before, stopPendingForController(th, reason))
  <2> DEFINE blocked == transportBlocked(th, reason)
  <2>1. th.Pending.fault \in Fault /\ th.Pending.budget \in Budget
    BY <1>3 DEF PendingRetry
  <2>2. stopPendingForController(th, reason)
          = [s(th.Pending.fault, th.Pending.budget, blocked)
                EXCEPT !.GoalStop = Nil, !.CurrentTurnProgress = FALSE]
    BY DEF stopPendingForController, no
  <2>3. blocked \in {"unset", "yes", "no"} BY DEF transportBlocked
  <2> HIDE DEF s, blocked
  <2>4. Carries(before, [s(th.Pending.fault, th.Pending.budget, blocked)
                            EXCEPT !.GoalStop = Nil, !.CurrentTurnProgress = FALSE])
    BY <1>1, <2>1, <2>3
  <2> QED BY <2>2, <2>4
<1> QED BY <1>2, <1>3

LEMMA RequeueCarries ==
    ASSUME NEW before, Retried(before), NEW th \in ThreadState, SameTurns(before, th),
           th.Awaiting \in AwaitingRetry,
           NEW budget \in Budget, NEW due \in Nat, NEW tries \in Nat
    PROVE  /\ Carries(before, requeue(th, budget, due, tries))
           /\ requeue(th, budget, due, tries) \in ThreadState
           /\ requeue(th, budget, due, tries).Pending # Nil
<1> DEFINE told == th.Awaiting.ParentNotified
           p == queuedRetry(th.Awaiting, budget, due, tries, told)
           s == requeue(th, budget, due, tries)
<1>1. told \in BOOLEAN BY DEF AwaitingRetry
<1>2. p \in PendingRetry /\ p # Nil BY <1>1, QueuedRetryType
<1>3. s = [th EXCEPT !.Awaiting = Nil, !.Pending = p] BY DEF requeue
<1> HIDE DEF p, s
<1>4. s \in ThreadState BY <1>2, <1>3 DEF ThreadState
<1>5. s.Pending = p /\ SameTurns(th, s) BY <1>3 DEF ThreadState, SameTurns
<1>6. SameTurns(before, s) BY <1>5, TurnsThrough
<1>7. Carries(before, s) BY <1>2, <1>5, <1>6, BusyCarries DEF Retried
<1> QED BY <1>2, <1>4, <1>5, <1>7 DEF s

LEMMA RescheduleCarries ==
    ASSUME NEW before, Retried(before), NEW th \in ThreadState, SameTurns(before, th),
           th.Awaiting \in AwaitingRetry, NEW time \in Nat, NEW reason \in ControllerReasons,
           NEW counted \in BOOLEAN, NEW cfg \in Config
    PROVE  Carries(before, rescheduleAwaitingWithPolicy(th, time, reason, counted, cfg))
<1> DEFINE more == IF counted THEN 1 ELSE 0
           tries == th.Awaiting.DispatchFailures + more
           n == IF tries = 0 THEN 1 ELSE tries
           due == time + retryDelay(n, cfg)
           back == requeue(th, th.Awaiting.budget, due, tries)
           stop == stopAwaitingForController(th, reason)
<1>1. tries \in Nat /\ n \in Nat /\ th.Awaiting.budget \in Budget BY DEF AwaitingRetry
<1>2. rescheduleAwaitingWithPolicy(th, time, reason, counted, cfg) \in {stop, back}
  BY DEF rescheduleAwaitingWithPolicy
<1>3. reason \in StopReasons BY DEF StopReasons
<1> HIDE DEF tries, n
<1>4. due \in Nat BY <1>1, DelayBounded
<1> HIDE DEF due
<1>5. Carries(before, back) BY <1>1, <1>4, RequeueCarries
<1>6. Carries(before, stop) BY <1>3, ControllerCarries
<1> HIDE DEF back, stop
<1> QED BY <1>2, <1>5, <1>6

\* The retry is marked, where it is.
LEMMA MarkCarries ==
    ASSUME NEW th, Sound(th), th.Awaiting # Nil, NEW a \in AwaitingRetry
    PROVE  /\ Carries(th, [th EXCEPT !.Awaiting = a])
           /\ [th EXCEPT !.Awaiting = a] \in ThreadState
           /\ [th EXCEPT !.Awaiting = a].Awaiting = a
           /\ SameTurns(th, [th EXCEPT !.Awaiting = a])
<1> DEFINE s == [th EXCEPT !.Awaiting = a]
<1>1. th \in ThreadState BY DEF Sound
<1>2. s \in ThreadState BY <1>1 DEF ThreadState
<1>3. s.Awaiting = a /\ SameTurns(th, s) BY <1>1 DEF ThreadState, SameTurns
<1> HIDE DEF s
<1>4. a # Nil BY NilAssumption
<1>5. Carries(th, s) BY <1>3, <1>4, BusyCarries DEF Retried
<1> QED BY <1>2, <1>3, <1>5 DEF s

LEMMA QueueCarries ==
    ASSUME NEW th \in ThreadState, Retried(th), NEW p \in PendingRetry, NEW after,
           after.Pending = p, SameTurns(th, after)
    PROVE  Carries(th, after)
BY NilAssumption, BusyCarries DEF Retried

LEMMA ReloadCarries ==
    ASSUME NEW th, Sound(th), NEW cfg \in Config, NEW at \in Nat
    PROVE  Carries(th, reloadLimits(th, cfg, at))
<1> DEFINE relimit(retry) ==
             IF retry = Nil THEN Nil
             ELSE [retry EXCEPT !.budget = withLimits(retry.budget, retry.fault.Class, cfg)]
           a == relimit(th.Awaiting)
           p == relimit(th.Pending)
           t == [th EXCEPT !.Awaiting = a, !.Pending = p]
           reason == budgetStopReason(p.fault, p.budget, cfg)
           no == FALSE
           stopped == exhaustRetry(t, p.fault, p.budget, reason, no, at)
           after == reloadLimits(th, cfg, at)
           given(q) == IF q # Nil /\ overBudget(q.budget)
                       THEN exhaustRetry(t, q.fault, q.budget,
                                         budgetStopReason(q.fault, q.budget, cfg), no, at)
                       ELSE t
<1> SUFFICES Carries(th, after) OBVIOUS
<1>1. th \in ThreadState BY DEF Sound
<1>2. after = given(t.Pending) BY DEF reloadLimits
<1>3. p \in PendingRetry \cup {Nil} /\ (p = Nil <=> th.Pending = Nil)
  <2>1. CASE th.Pending = Nil BY <2>1
  <2>2. CASE th.Pending # Nil
    <3> DEFINE b == withLimits(th.Pending.budget, th.Pending.fault.Class, cfg)
    <3>1. th.Pending \in PendingRetry BY <2>2, PendingFacts
    <3>2. b \in Budget BY <3>1, WithLimitsType DEF PendingRetry, Fault
    <3>3. p = [th.Pending EXCEPT !.budget = b] BY <2>2
    <3> HIDE DEF b, p
    <3>4. p \in PendingRetry BY <3>1, <3>2, <3>3 DEF PendingRetry
    <3> QED BY <2>2, <3>4, NilAssumption
  <2> QED BY <2>1, <2>2
<1>4. a \in AwaitingRetry \cup {Nil} /\ (a = Nil <=> th.Awaiting = Nil)
  <2>1. CASE th.Awaiting = Nil BY <2>1
  <2>2. CASE th.Awaiting # Nil
    <3> DEFINE b == withLimits(th.Awaiting.budget, th.Awaiting.fault.Class, cfg)
    <3>1. th.Awaiting \in AwaitingRetry BY <2>2, AwaitingFacts
    <3>2. b \in Budget BY <3>1, WithLimitsType DEF AwaitingRetry, Fault
    <3>3. a = [th.Awaiting EXCEPT !.budget = b] BY <2>2
    <3> HIDE DEF b, a
    <3>4. a \in AwaitingRetry BY <3>1, <3>2, <3>3 DEF AwaitingRetry
    <3> QED BY <2>2, <3>4, NilAssumption
  <2> QED BY <2>1, <2>2
<1> HIDE DEF a, p
<1>5. /\ t.Pending = p /\ t.Awaiting = a /\ t.Stopped = th.Stopped
      /\ SameTurns(th, t) /\ SameCounters(th, t)
  BY <1>1 DEF ThreadState, SameTurns, SameCounters
<1>6. t \in ThreadState BY <1>1, <1>3, <1>4 DEF ThreadState
<1> HIDE DEF t
<1>7. no \in BOOLEAN OBVIOUS
<1> HIDE DEF no
<1>8. after = t \/ (p # Nil /\ after = stopped)
  <2>1. (p # Nil => given(p) \in {stopped, t}) /\ (p = Nil => given(p) = t) OBVIOUS
  <2> HIDE DEF given, stopped, after
  <2>2. after = given(p) BY <1>2, <1>5
  <2> QED BY <2>1, <2>2
<1>9. reason \in StopReasons BY StopReasonType
<1> HIDE DEF reason, given
<1>10. CASE after = t
  <2> HIDE DEF after
  <2> QED BY <1>3, <1>4, <1>5, <1>10 DEF Carries, Keeps, Retried, Clean, SameCounters
<1>11. CASE p # Nil /\ after = stopped
  <2>1. Retried(th) BY <1>3, <1>11 DEF Retried
  <2>2. p.fault \in Fault /\ p.budget \in Budget BY <1>3, <1>11 DEF PendingRetry
  <2>3. Carries(th, stopped) BY <1>5, <1>6, <1>7, <1>9, <2>1, <2>2, ExhaustCarries
  <2> HIDE DEF stopped, after
  <2> QED BY <1>11, <2>3
<1> QED BY <1>8, <1>10, <1>11

LEMMA ReopenCarries ==
    ASSUME NEW th, Sound(th), NEW time \in Nat, NEW cfg \in Config
    PROVE  Carries(th, reopenRestartRequired(th, time, cfg))
<1> DEFINE s == th.Stopped
           b == [Attempt |-> s.budget.Attempt + 1,
                 MaxAttempts |-> MinOf(recoveryLimit(s.fault.Class, cfg), s.budget.MaxAttempts),
                 ConsecutiveRetry |-> s.budget.ConsecutiveRetry + 1,
                 MaxConsecutive |-> MinOf(consecutiveLimit(s.fault.Class, cfg),
                                          s.budget.MaxConsecutive)]
           p == [fault |-> s.fault, budget |-> b, DueAt |-> time, DispatchFailures |-> 0,
                 ParentNotified |-> FALSE, GoalLimitRestart |-> FALSE]
           clock == IF th.RecoveryStartedAt = 0 THEN s.fault.FailedAt ELSE th.RecoveryStartedAt
           t == [th EXCEPT !.Stopped = Nil, !.RecoveryStartedAt = clock,
                           !.RecoveryAttempts = b.Attempt,
                           !.ConsecutiveRetries = b.ConsecutiveRetry, !.Pending = p]
<1>1. th \in ThreadState BY DEF Sound
<1>2. CASE ~canReopenTransportRetry(th, time) \/ overBudget(b)
  BY <1>2, SameCarries DEF reopenRestartRequired
<1>3. CASE canReopenTransportRetry(th, time) /\ ~overBudget(b)
  <2>1. reopenRestartRequired(th, time, cfg) = t BY <1>1, <1>3 DEF reopenRestartRequired, ThreadState
  <2>2. s \in StoppedRetry /\ s # Nil
    BY <1>1, <1>3 DEF canReopenTransportRetry, ThreadState
  <2>3. /\ s.budget.Attempt \in Nat /\ s.budget.ConsecutiveRetry \in Nat
        /\ s.budget.MaxAttempts \in Nat /\ s.budget.MaxConsecutive \in Nat
        /\ s.fault \in Fault /\ s.fault.Class \in FailureClasses
    BY <2>2 DEF StoppedRetry, Budget, Fault
  <2>4. recoveryLimit(s.fault.Class, cfg) \in Nat /\ consecutiveLimit(s.fault.Class, cfg) \in Nat
    BY <2>3, LimitsPositive
  <2>5. b \in Budget BY <2>3, <2>4 DEF Budget, MinOf
  <2> HIDE DEF b
  <2>6. p \in PendingRetry BY <2>3, <2>5 DEF PendingRetry
  <2> HIDE DEF p, clock
  <2>7. t.Pending = p /\ SameTurns(th, t) BY <1>1 DEF ThreadState, SameTurns
  <2> HIDE DEF t
  <2>8. Retried(th) BY <2>2 DEF Retried
  <2>9. Carries(th, t) BY <1>1, <2>6, <2>7, <2>8, QueueCarries
  <2> QED BY <2>1, <2>9
<1> QED BY <1>2, <1>3

\* Only the cancellation by the user drops a retry.
LEMMA CommandKeeps ==
    ASSUME NEW th, Sound(th), NEW action, NEW time \in Nat, NEW cfg \in Config
    PROVE  /\ Keeps(th, applyControlCommand(th, action, time, cfg))
           /\ action # "cancel_retry" => Carries(th, applyControlCommand(th, action, time, cfg))
<1>1. th \in ThreadState BY DEF Sound
<1>2. Carries(th, commandRetryNow(th, time))
  <2>1. CASE th.Pending = Nil BY <2>1, SameCarries DEF commandRetryNow
  <2>2. CASE th.Pending # Nil
    <3> DEFINE p == [th.Pending EXCEPT !.DueAt = time]
               s == [th EXCEPT !.Pending = p]
    <3>1. p \in PendingRetry BY <2>2, PendingFacts DEF PendingRetry
    <3>2. commandRetryNow(th, time) = s
      BY <1>1, <2>2 DEF commandRetryNow, ThreadState
    <3> HIDE DEF p
    <3>3. s.Pending = p /\ SameTurns(th, s) BY <1>1 DEF ThreadState, SameTurns
    <3> HIDE DEF s
    <3>4. Carries(th, s) BY <1>1, <2>2, <3>1, <3>3, QueueCarries DEF Retried
    <3> QED BY <3>2, <3>4
  <2> QED BY <2>1, <2>2
<1>3. Keeps(th, commandCancelRetry(th))
  <2>1. SameTurns(th, commandCancelRetry(th))
    BY <1>1 DEF commandCancelRetry, ThreadState, SameTurns
  <2>2. Clean(th) => commandCancelRetry(th) = th BY DEF commandCancelRetry, Clean
  <2> QED BY <2>1, <2>2 DEF Keeps
<1>4. Carries(th, commandRestartRetry(th, time, cfg))
  <2>1. CASE th.Stopped = Nil BY <2>1, SameCarries DEF commandRestartRetry
  <2>2. CASE th.Stopped # Nil
    <3> DEFINE s == th.Stopped
               one == [s.budget EXCEPT !.Attempt = 1, !.ConsecutiveRetry = 1]
               b == withLimits(one, s.fault.Class, cfg)
               p == [fault |-> s.fault, budget |-> b, DueAt |-> time, DispatchFailures |-> 0,
                     ParentNotified |-> FALSE,
                     GoalLimitRestart |-> isGoalEmptyResponseStopReason(s.Reason)]
               after == commandRestartRetry(th, time, cfg)
    <3>1. s \in StoppedRetry BY <1>1, <2>2 DEF ThreadState
    <3>2. s.fault \in Fault /\ s.fault.Class \in FailureClasses /\ s.budget \in Budget
      BY <3>1 DEF StoppedRetry, Fault
    <3>3. one \in Budget BY <3>2 DEF Budget
    <3> HIDE DEF one
    <3>4. b \in Budget BY <3>2, <3>3, WithLimitsType
    <3>5. after.Pending = p /\ SameTurns(th, after)
      BY <1>1, <2>2 DEF commandRestartRetry, ThreadState, SameTurns, one
    <3>6. isGoalEmptyResponseStopReason(s.Reason) \in BOOLEAN
      BY DEF isGoalEmptyResponseStopReason
    <3> HIDE DEF b, after, s
    <3>7. p \in PendingRetry BY <3>2, <3>4, <3>6 DEF PendingRetry
    <3> HIDE DEF p
    <3>8. Carries(th, after) BY <1>1, <2>2, <3>5, <3>7, QueueCarries DEF Retried
    <3> QED BY <3>8 DEF after
  <2> QED BY <2>1, <2>2
<1> QED BY <1>2, <1>3, <1>4, SameCarries DEF applyControlCommand, Carries

LEMMA ExpireCarries ==
    ASSUME NEW th, Sound(th), NEW time \in Nat, NEW cfg \in Config
    PROVE  Carries(th, expireUnacknowledged(th, time, cfg))
<1> DEFINE reason == "start_not_acknowledged"
           counted == TRUE
           after == expireUnacknowledged(th, time, cfg)
<1> SUFFICES Carries(th, after) OBVIOUS
<1>1. after = th \/ (th.Awaiting # Nil
                     /\ after = rescheduleAwaitingWithPolicy(th, time, reason, counted, cfg))
  BY DEF expireUnacknowledged, startOverdue
<1>2. reason \in ControllerReasons /\ counted \in BOOLEAN BY DEF ControllerReasons
<1> HIDE DEF reason, counted, after
<1>3. th \in ThreadState /\ SameTurns(th, th) BY DEF Sound, SameTurns
<1>4. CASE after = th BY <1>4, SameCarries
<1>5. CASE th.Awaiting # Nil /\ after = rescheduleAwaitingWithPolicy(th, time, reason, counted, cfg)
  <2>1. Retried(th) /\ th.Awaiting \in AwaitingRetry BY <1>5, AwaitingFacts DEF Retried
  <2>2. Carries(th, rescheduleAwaitingWithPolicy(th, time, reason, counted, cfg))
    BY <1>2, <1>3, <2>1, RescheduleCarries
  <2> QED BY <1>5, <2>2
<1> QED BY <1>1, <1>4, <1>5

LEMMA ProbeCarries ==
    ASSUME NEW th, Sound(th), th.Awaiting # Nil,
           NEW time \in Nat, NEW cfg \in Config, NEW reason \in ControllerReasons
    PROVE  /\ Carries(th, probeFailed(th, reason, cfg))
           /\ Carries(th, probeFoundActive(th))
           /\ Carries(th, probeFoundIdle(th, time, cfg))
<1>1. th \in ThreadState /\ th.Awaiting \in AwaitingRetry /\ Retried(th) /\ SameTurns(th, th)
  BY AwaitingFacts DEF Sound, Retried, SameTurns
<1>2. Carries(th, probeFailed(th, reason, cfg))
  <2> DEFINE stop == stopAwaitingForController(th, reason)
             n == th.Awaiting.DispatchFailures + 1
             a == [th.Awaiting EXCEPT !.DispatchFailures = n]
  <2>1. probeFailed(th, reason, cfg) \in {stop, [th EXCEPT !.Awaiting = a]}
    BY <1>1 DEF probeFailed, ThreadState
  <2>2. a \in AwaitingRetry BY <1>1 DEF AwaitingRetry
  <2>3. reason \in StopReasons BY DEF StopReasons
  <2>4. Carries(th, stop) BY <1>1, <2>3, ControllerCarries
  <2> HIDE DEF stop, a
  <2>5. Carries(th, [th EXCEPT !.Awaiting = a]) BY <2>2, MarkCarries
  <2> QED BY <2>1, <2>4, <2>5
<1>3. Carries(th, probeFoundActive(th))
  <2> DEFINE a == [th.Awaiting EXCEPT !.DispatchFailures = 0, !.LifecycleChecks = 0]
  <2>1. a \in AwaitingRetry BY <1>1 DEF AwaitingRetry
  <2>2. probeFoundActive(th) = [th EXCEPT !.Awaiting = a]
    BY <1>1 DEF probeFoundActive, ThreadState
  <2> HIDE DEF a
  <2> QED BY <2>1, <2>2, MarkCarries
<1>4. Carries(th, probeFoundIdle(th, time, cfg))
  <2> DEFINE m == th.Awaiting.LifecycleChecks + 1
             a == [th.Awaiting EXCEPT !.DispatchFailures = 0, !.LifecycleChecks = m]
             t == [th EXCEPT !.Awaiting = a]
  <2>2. [th EXCEPT !.Awaiting = foundIdleOnce(@)] = t
    BY <1>1 DEF foundIdleOnce, AwaitingRetry, ThreadState
  <2>0. m \in Nat BY <1>1 DEF AwaitingRetry
  <2> HIDE DEF m
  <2>1. a \in AwaitingRetry BY <1>1, <2>0 DEF AwaitingRetry
  <2>3. probeFoundIdle(th, time, cfg) \in {t, advanceInactiveAwaiting(t, time, cfg)}
    BY <2>2 DEF probeFoundIdle
  <2> HIDE DEF a
  <2>4. /\ Carries(th, t) /\ t \in ThreadState /\ t.Awaiting = a /\ SameTurns(th, t)
    BY <2>1, MarkCarries
  <2> HIDE DEF t
  <2> DEFINE once == IF t.CurrentTurnProgress THEN 1 ELSE a.budget.ConsecutiveRetry + 1
             more == a.budget.Attempt + 1
             next == [a.budget EXCEPT !.Attempt = more, !.ConsecutiveRetry = once]
             u == [t EXCEPT !.CurrentTurnProgress = FALSE]
             reason2 == budgetStopReason(a.fault, next, cfg)
             stopped(historical) == exhaustRetry(u, a.fault, next, reason2, historical, time)
             due == time + retryDelay(next.ConsecutiveRetry, cfg)
             back == requeue(u, next, due, a.DispatchFailures)
             queued == [back EXCEPT !.RecoveryAttempts = next.Attempt,
                                    !.ConsecutiveRetries = next.ConsecutiveRetry,
                                    !.Stopped = Nil, !.GoalStop = Nil]
  <2>5. \/ \E historical \in BOOLEAN : advanceInactiveAwaiting(t, time, cfg) = stopped(historical)
        \/ advanceInactiveAwaiting(t, time, cfg) = queued
    BY <2>1, <2>4 DEF advanceInactiveAwaiting, AwaitingRetry, Budget
  <2>6. u \in ThreadState /\ u.Awaiting = a /\ SameTurns(t, u)
    <3>1. u \in ThreadState BY <2>4 DEF ThreadState
    <3>2. u.Awaiting = a /\ SameTurns(t, u) BY <2>4 DEF ThreadState, SameTurns
    <3> QED BY <3>1, <3>2
  <2>7. next \in Budget /\ a.fault \in Fault /\ a.DispatchFailures \in Nat
    <3>1. a.budget \in Budget BY <2>1 DEF AwaitingRetry
    <3>2. once \in Nat /\ more \in Nat BY <3>1 DEF Budget
    <3> HIDE DEF once, more
    <3>3. next \in Budget BY <3>1, <3>2 DEF Budget
    <3> QED BY <2>1, <3>3 DEF AwaitingRetry
  <2>8. SameTurns(th, u) BY <2>4, <2>6, TurnsThrough
  <2> HIDE DEF u, next
  <2>9. reason2 \in StopReasons BY StopReasonType
  <2>10. due \in Nat /\ next.ConsecutiveRetry \in Nat BY <2>7, DelayBounded DEF Budget
  <2> HIDE DEF reason2, due
  <2>11. \A historical \in BOOLEAN : Carries(th, stopped(historical))
    BY <1>1, <2>6, <2>7, <2>8, <2>9, ExhaustCarries
  <2>12. Carries(th, back) /\ back \in ThreadState /\ back.Pending # Nil
    BY <1>1, <2>1, <2>6, <2>7, <2>8, <2>10, RequeueCarries
  <2> HIDE DEF back
  <2>13. queued.Pending = back.Pending /\ SameTurns(back, queued)
    BY <2>12 DEF ThreadState, SameTurns
  <2> HIDE DEF queued, stopped
  <2>14. SameTurns(th, queued) BY <2>12, <2>13, TurnsThrough DEF Carries, Keeps
  <2>15. Carries(th, queued) BY <1>1, <2>12, <2>13, <2>14, BusyCarries DEF Retried
  <2> QED BY <2>3, <2>4, <2>5, <2>11, <2>15
<1> QED BY <1>2, <1>3, <1>4

\* The result of a dispatch; one that does not apply ends the chain.
LEMMA ResultCarries ==
    ASSUME NEW th, Sound(th), th.Awaiting # Nil, NEW notified,
           NEW time \in Nat, NEW reason \in ControllerReasons, NEW cfg \in Config,
           NEW skip, NEW action \in RetryActions
    PROVE  LET told == notifyParent(th, notified)
           IN  /\ Carries(th, rescheduleAwaitingWithPolicy(told, time, reason, TRUE, cfg))
               /\ Carries(th, dispatchUserActive(told, reason, time, cfg))
               /\ Carries(th, dispatchAccepted(told, action, time, cfg))
               /\ Keeps(th, dispatchNotApplicable(th, skip))
<1> DEFINE told == notifyParent(th, notified)
           heard == [th.Awaiting EXCEPT !.ParentNotified = TRUE]
           b == told.Awaiting
<1>1. th \in ThreadState /\ th.Awaiting \in AwaitingRetry /\ Retried(th) /\ SameTurns(th, th)
  BY AwaitingFacts DEF Sound, Retried, SameTurns
<1>2. told = th \/ told = [th EXCEPT !.Awaiting = heard]
  BY <1>1 DEF notifyParent, ThreadState
<1>3. heard \in AwaitingRetry BY <1>1 DEF AwaitingRetry
<1> HIDE DEF heard
<1>4. told \in ThreadState /\ b \in AwaitingRetry /\ SameTurns(th, told)
  BY <1>1, <1>2, <1>3, MarkCarries
<1>5. Sound(told) /\ b # Nil BY NotifySound
<1> HIDE DEF told
<1>6. Carries(th, rescheduleAwaitingWithPolicy(told, time, reason, TRUE, cfg))
  <2> DEFINE counted == TRUE
  <2>1. counted \in BOOLEAN OBVIOUS
  <2> HIDE DEF counted
  <2>2. Carries(th, rescheduleAwaitingWithPolicy(told, time, reason, counted, cfg))
    BY <1>1, <1>4, <2>1, RescheduleCarries
  <2> QED BY <2>2 DEF counted
<1>7. Carries(th, dispatchUserActive(told, reason, time, cfg))
  <2> DEFINE a == [b EXCEPT !.DispatchFailures = 0]
             s == [told EXCEPT !.Awaiting = a]
             counted == FALSE
  <2>1. a \in AwaitingRetry BY <1>4 DEF AwaitingRetry
  <2>2. dispatchUserActive(told, reason, time, cfg)
          = rescheduleAwaitingWithPolicy(s, time, reason, counted, cfg)
    BY <1>4 DEF dispatchUserActive, ThreadState
  <2>3. counted \in BOOLEAN OBVIOUS
  <2> HIDE DEF a, counted
  <2>4. s \in ThreadState /\ s.Awaiting = a /\ SameTurns(told, s)
    BY <1>5, <2>1, MarkCarries
  <2> HIDE DEF s
  <2>5. SameTurns(th, s) BY <1>4, <2>4, TurnsThrough
  <2> QED BY <1>1, <2>1, <2>2, <2>3, <2>4, <2>5, RescheduleCarries
<1>8. Carries(th, dispatchAccepted(told, action, time, cfg))
  <2> DEFINE late == time + cfg.StartAckTimeout
             a == [b EXCEPT !.Action = action, !.DispatchFailures = 0, !.StartDeadline = late]
             s == [told EXCEPT !.Awaiting = a]
  <2>1. late \in Nat BY DEF Config, Positive
  <2>2. dispatchAccepted(told, action, time, cfg) = s
    BY <1>4 DEF dispatchAccepted, ThreadState
  <2> HIDE DEF late
  <2>3. a \in AwaitingRetry BY <1>4, <2>1 DEF AwaitingRetry
  <2> HIDE DEF a
  <2>4. s.Awaiting = a /\ SameTurns(told, s) BY <1>5, <2>3, MarkCarries
  <2> HIDE DEF s
  <2>5. SameTurns(th, s) /\ a # Nil BY <1>4, <2>3, <2>4, TurnsThrough, NilAssumption
  <2>6. Carries(th, s) BY <1>1, <2>4, <2>5, BusyCarries DEF Retried
  <2> QED BY <2>2, <2>6
<1>9. Keeps(th, dispatchNotApplicable(th, skip))
  <2> DEFINE s == dispatchNotApplicable(th, skip)
             t == resetRetryState(th)
  <2>1. SameTurns(th, t) /\ Clean(t) /\ t \in ThreadState
    BY <1>1, StopsTurns, ResetSound DEF Sound
  <2>2. s = t \/ \E g, h : s = [t EXCEPT !.GoalHeld = g, !.GoalStatus = h]
    BY DEF dispatchNotApplicable
  <2> HIDE DEF s, t
  <2>3. Clean(s) /\ SameTurns(t, s) BY <2>1, <2>2 DEF ThreadState, Clean, SameTurns
  <2>4. SameTurns(th, s) BY <2>1, <2>3, TurnsThrough
  <2> QED BY <2>3, <2>4 DEF Keeps, s
<1> QED BY <1>6, <1>7, <1>8, <1>9 DEF told

LEMMA GoalBlockCarries ==
    ASSUME NEW th, Sound(th), th.GoalStop # Nil, NEW time, NEW cfg, NEW reason, NEW status
    PROVE  /\ Carries(th, rescheduleGoalBlock(th, time, reason, cfg))
           /\ Carries(th, goalBlocked(th, status, time))
<1>1. th \in ThreadState /\ th.Stopped # Nil /\ th.Stopped \in StoppedRetry /\ Retried(th)
  BY DEF Sound, goalStopBacked, automaticGoalLimitStopped, ThreadState, Retried
<1> DEFINE named(r) == [th.Stopped EXCEPT !.Reason = r]
<1>2. \A r \in StopReasons : named(r) \in StoppedRetry /\ named(r) # Nil
  BY <1>1, NilAssumption DEF StoppedRetry
<1> HIDE DEF named
<1>3. Carries(th, rescheduleGoalBlock(th, time, reason, cfg))
  <2> DEFINE s == rescheduleGoalBlock(th, time, reason, cfg)
             why == IF controllerFailureNeedsAction(reason) THEN reason
                    ELSE "goal_empty_response_limit_block_failed"
  <2>1. why \in StopReasons
    BY DEF controllerFailureNeedsAction, StopReasons, ControllerReasons
  <2>2. /\ s.Stopped = th.Stopped \/ s.Stopped = named(why)
        /\ SameTurns(th, s)
    BY <1>1 DEF rescheduleGoalBlock, ThreadState, named, SameTurns
  <2> HIDE DEF s, why
  <2>3. Carries(th, s) BY <1>1, <1>2, <2>1, <2>2, BusyCarries DEF Retried
  <2> QED BY <2>3 DEF s
<1>4. Carries(th, goalBlocked(th, status, time))
  <2> DEFINE s == goalBlocked(th, status, time)
             why == "goal_empty_response_limit"
  <2>1. why \in StopReasons BY DEF StopReasons
  <2>2. s.Stopped = named(why) /\ SameTurns(th, s)
    BY <1>1 DEF goalBlocked, ThreadState, named, SameTurns
  <2> HIDE DEF s, why
  <2>3. Carries(th, s) BY <1>1, <1>2, <2>1, <2>2, BusyCarries DEF Retried
  <2> QED BY <2>3 DEF s
<1> QED BY <1>3, <1>4

LEMMA StartsAwaiting ==
    ASSUME NEW th \in ThreadState, th.Pending \in PendingRetry, NEW time \in Nat, NEW cfg \in Config
    PROVE  startDispatch(th, time, cfg).Awaiting # Nil
<1> DEFINE p == th.Pending
           late == time + cfg.StartAckTimeout
           a == [fault |-> p.fault, budget |-> p.budget, RetryTurnID |-> 0, Action |-> "dispatching",
                 DispatchFailures |-> p.DispatchFailures, ParentNotified |-> p.ParentNotified,
                 GoalLimitRestart |-> p.GoalLimitRestart, DispatchStartedAt |-> time,
                 StartDeadline |-> late, StartedAt |-> 0, LifecycleChecks |-> 0,
                 LastLifecycleCheckAt |-> 0]
<1>1. late \in Nat BY DEF Config, Positive
<1>2. startDispatch(th, time, cfg).Awaiting = a BY DEF startDispatch, ThreadState
<1> HIDE DEF late
<1>3. a \in AwaitingRetry BY <1>1 DEF AwaitingRetry, PendingRetry, RetryActions
<1> HIDE DEF a
<1> QED BY <1>2, <1>3, NilAssumption

\* The dispatcher: a held thread has no retry that could be dropped.
LEMMA DispatchCarries ==
    ASSUME NEW th, Sound(th), ~HoldsRetry(th), NEW time \in Nat, NEW cfg \in Config,
           NEW reason \in StopReasons
    PROVE  /\ heldFromDispatch(th) => Carries(th, clearHeldRetry(th))
           /\ th.Pending # Nil => /\ Carries(th, stopPendingForController(th, reason))
                                  /\ Carries(th, startDispatch(th, time, cfg))
<1>1. th \in ThreadState /\ SameTurns(th, th) BY DEF Sound, SameTurns
<1>2. ASSUME heldFromDispatch(th) PROVE Carries(th, clearHeldRetry(th))
  <2>1. th.Pending = Nil /\ th.Awaiting = Nil
    BY <1>2 DEF heldFromDispatch, HoldsRetry, liveRetry, goalLimitRestartPending,
       heldConversationStillAllowed, retryOrigin, Sound, onePhase
  <2> QED BY <2>1, SameCarries DEF clearHeldRetry
<1>3. ASSUME th.Pending # Nil PROVE Carries(th, stopPendingForController(th, reason))
  <2>1. Retried(th) /\ th.Pending \in PendingRetry BY <1>3, PendingFacts DEF Retried
  <2> QED BY <1>1, <2>1, ControllerCarries
<1>4. ASSUME th.Pending # Nil PROVE Carries(th, startDispatch(th, time, cfg))
  <2> DEFINE s == startDispatch(th, time, cfg)
  <2>2. SameTurns(th, s) BY <1>1 DEF startDispatch, ThreadState, SameTurns
  <2>4. s.Awaiting # Nil
    BY <1>1, <1>4, PendingFacts, StartsAwaiting
  <2> HIDE DEF s
  <2>5. Carries(th, s) BY <1>4, <2>2, <2>4, BusyCarries DEF Retried
  <2> QED BY <2>5 DEF s
<1> QED BY <1>2, <1>3, <1>4

\* A restart.
LEMMA RestartCarries ==
    ASSUME NEW th, Sound(th), NEW time \in Nat
    PROVE  /\ Carries(th, reconcileStartupState(loadThread(th), time))
           /\ Retried(reconcileStartupState(loadThread(th), time)) => Retried(th)
<1> DEFINE t == loadThread(th)
           after == reconcileStartupState(t, time)
<1> SUFFICES Carries(th, after) /\ (Retried(after) => Retried(th)) OBVIOUS
<1>1. th \in ThreadState BY DEF Sound
<1>2. Sound(t) /\ t \in ThreadState BY LoadSound DEF Sound
<1>3. /\ t.Pending = th.Pending /\ t.Awaiting = th.Awaiting /\ SameTurns(th, t)
      /\ SameCounters(th, t) /\ (th.Stopped = Nil => t.Stopped = Nil)
  BY <1>1 DEF loadThread, ThreadState, SameTurns, SameCounters
<1>4. th.Stopped # Nil => t.Stopped # Nil
  <2> SUFFICES ASSUME th.Stopped # Nil PROVE t.Stopped # Nil OBVIOUS
  <2> DEFINE s == th.Stopped
             n == s.budget.Attempt
             b == [s.budget EXCEPT !.ConsecutiveRetry = n]
             x == [s EXCEPT !.budget = b]
  <2>1. s \in StoppedRetry BY <1>1 DEF ThreadState
  <2>2. t.Stopped \in {s, x} BY <1>1 DEF loadThread, ThreadState
  <2>3. b \in Budget BY <2>1 DEF StoppedRetry, Budget
  <2> HIDE DEF b
  <2>4. x \in StoppedRetry BY <2>1, <2>3 DEF StoppedRetry
  <2> HIDE DEF x
  <2> QED BY <2>2, <2>4, NilAssumption
<1> HIDE DEF t
<1>5. CASE after = t
  <2> HIDE DEF after
  <2> QED BY <1>3, <1>4, <1>5 DEF Carries, Keeps, Retried, Clean, SameCounters
<1>6. CASE after # t
  <2>1. t.Awaiting # Nil /\ after = requeue(t, t.Awaiting.budget, time, t.Awaiting.DispatchFailures)
    BY <1>6 DEF reconcileStartupState
  <2>2. t.Awaiting \in AwaitingRetry /\ Retried(th)
    BY <1>2, <1>3, <2>1, AwaitingFacts DEF Retried
  <2>3. t.Awaiting.budget \in Budget /\ t.Awaiting.DispatchFailures \in Nat
    BY <2>2 DEF AwaitingRetry
  <2> HIDE DEF after
  <2>4. Carries(th, after) BY <1>2, <1>3, <2>1, <2>2, <2>3, RequeueCarries
  <2> QED BY <2>2, <2>4
<1> QED BY <1>5, <1>6

----------------------------------------------------------------------------
(* Every step that handles no record, and what it leaves of a retry.       *)

\* The user cancels the retry of a thread, or the controller finds that it does not
\* apply.
Dropped(t) ==
    \/ ControlCommand /\ Head(commands) = [thread |-> t, action |-> "cancel_retry"]
    \/ \E j \in jobs : j.thread = t /\ RecoveryNotApplicable(j)

Leaves(before, after, t) ==
    Keeps(before, after) /\ (Retried(before) => Retried(after) \/ Dropped(t))

LEMMA CarriesLeaves ==
    ASSUME NEW before, NEW after, NEW t, Carries(before, after)
    PROVE  Leaves(before, after, t)
BY DEF Carries, Leaves

LEMMA PromotedCarries ==
    ASSUME Inv, NothingHeld, NEW blocks \in firstDue(stopDue, slots),
           NEW chosen \in firstDue(pendingDueAt(active \cup blocks), slots - Cardinality(blocks)),
           Chosen(blocks, chosen), NEW t \in Threads
    PROVE  Carries(threads[t], threads'[t])
<1> DEFINE busy == active \cup blocks
           th == threads[t]
           reason == "recovery_time_limit"
<1>0. chosen \subseteq candidates(busy) BY ChosenDue
<1>1. t \in chosen => th.Pending # Nil
  BY <1>0 DEF candidates, dispatchable, pendingDue
<1>2. dispatchable(t, busy) => th.Pending # Nil BY DEF dispatchable, pendingDue
<1>3. \/ heldFromDispatch(th) /\ threads'[t] = clearHeldRetry(th)
      \/ th.Pending # Nil /\ threads'[t] = stopPendingForController(th, reason)
      \/ th.Pending # Nil /\ threads'[t] = startDispatch(th, tickNow, config)
      \/ threads'[t] = th
  BY <1>1, <1>2 DEF Chosen, promoted
<1>4. Sound(th) /\ ~HoldsRetry(th) /\ tickNow \in Nat /\ config \in Config
  BY InvFacts DEF NothingHeld
<1>5. reason \in StopReasons BY DEF StopReasons
<1> HIDE DEF busy, th, reason
<1>6. /\ heldFromDispatch(th) => Carries(th, clearHeldRetry(th))
      /\ th.Pending # Nil => /\ Carries(th, stopPendingForController(th, reason))
                             /\ Carries(th, startDispatch(th, tickNow, config))
  BY <1>4, <1>5, DispatchCarries
<1>7. Carries(th, th) BY SameCarries
<1>8. Carries(th, threads'[t]) BY <1>3, <1>6, <1>7
<1> QED BY <1>8 DEF th

LEMMA DispatchStepCarries ==
    ASSUME Inv, NothingHeld, Dispatch, NEW t \in Threads
    PROVE  Carries(threads[t], threads'[t])
<1>1. Sound(threads[t]) /\ ~HoldsRetry(threads[t]) /\ tickNow \in Nat /\ config \in Config
  BY InvFacts DEF NothingHeld
<1>2. CASE UNCHANGED threads BY <1>2, SameCarries
<1>3. CASE threads' = stoppedForTransport
  <2> DEFINE th == threads[t]
             after == threads'[t]
             reason == noTransportReason
  <2>1. \/ after = th
        \/ th.Pending # Nil /\ after = stopPendingForController(th, reason)
    BY <1>3 DEF stoppedForTransport, pendingDue
  <2>2. reason \in StopReasons
    BY DEF noTransportReason, StopReasons, ControllerReasons, controllerFailureNeedsFailOpen
  <2> HIDE DEF after, reason
  <2>3. th.Pending # Nil => Carries(th, stopPendingForController(th, reason))
    BY <1>1, <2>2, DispatchCarries
  <2>4. Carries(th, after) BY <2>1, <2>3, SameCarries
  <2> QED BY <2>4 DEF after
<1>4. CASE \E blocks \in firstDue(stopDue, slots) :
              \E chosen \in firstDue(pendingDueAt(active \cup blocks), slots - Cardinality(blocks)) :
                 Chosen(blocks, chosen)
  BY <1>4, PromotedCarries
<1> QED BY <1>2, <1>3, <1>4, DispatchForms

LEMMA TickLeaves ==
    ASSUME Inv, NothingHeld, Tick, NEW t \in Threads, ~HandleEvent(t)
    PROVE  Leaves(threads[t], threads'[t], t)
<1> DEFINE th == threads[t]
<1>1. /\ Sound(th) /\ th \in ThreadState /\ DOMAIN threads = Threads
      /\ config \in Config /\ configFile \in Config /\ now \in Nat /\ tickNow \in Nat
  BY InvFacts
<1>2. ASSUME threads'[t] = th PROVE Leaves(threads[t], threads'[t], t)
  BY <1>2, SameCarries, CarriesLeaves
<1>3. ASSUME NEW after, Carries(th, after), threads'[t] = after
      PROVE  Leaves(threads[t], threads'[t], t)
  BY <1>3, CarriesLeaves
<1>4. CASE TickBegin \/ LatchedFailure \/ ControllerProbe \/ MemoryLimitExceeded
  BY <1>2, <1>4 DEF TickBegin, LatchedFailure, ControllerProbe, MemoryLimitExceeded, memoryVars
<1>5. CASE TickScan
  <2>1. threads'[t] = reloadLimits(th, configFile, now) BY <1>5 DEF TickScan
  <2> HIDE DEF th
  <2> QED BY <1>1, <1>3, <2>1, ReloadCarries
<1>6. CASE \E u \in Threads : HandleEvent(u)
  <2>1. threads'[t] = threads[t] BY <1>1, <1>6 DEF HandleEvent
  <2> QED BY <1>2, <2>1
<1>7. CASE Reopen
  <2>1. \/ threads'[t] = th
        \/ threads'[t] = reopenRestartRequired(th, tickNow, config)
    BY <1>7 DEF Reopen
  <2> HIDE DEF th
  <2> QED BY <1>1, <1>2, <1>3, <2>1, ReopenCarries
<1>8. CASE ControlCommand
  <2> DEFINE c == Head(commands)
             after == applyControlCommand(th, c.action, tickNow, config)
  <2>1. threads'[t] = IF t = c.thread THEN after ELSE th BY <1>1, <1>8 DEF ControlCommand
  <2>2. c \in Command BY <1>8, HeadTailProperties DEF ControlCommand, Inv, FileInv
  <2>3. c.thread = t /\ c.action = "cancel_retry" => Dropped(t)
    BY <1>8, <2>2 DEF Command, Dropped
  <2> HIDE DEF c
  <2>4. Keeps(th, after) /\ (c.action # "cancel_retry" => Carries(th, after))
    BY <1>1, CommandKeeps
  <2> HIDE DEF after, th
  <2>5. Leaves(th, th, t) BY SameCarries, CarriesLeaves
  <2>6. CASE t # c.thread BY <2>1, <2>5, <2>6 DEF th
  <2>7. CASE t = c.thread
    <3>1. Leaves(th, after, t) BY <2>3, <2>4, <2>7 DEF Leaves, Carries
    <3> QED BY <2>1, <2>7, <3>1 DEF th
  <2> QED BY <2>6, <2>7
<1>9. CASE EndControls
  <2>1. \/ threads'[t] = th
        \/ threads'[t] = expireUnacknowledged(th, tickNow, config)
    BY <1>9 DEF EndControls
  <2> HIDE DEF th
  <2> QED BY <1>1, <1>2, <1>3, <2>1, ExpireCarries
<1>10. CASE CollectProbes
  <2> DEFINE a == [th.Awaiting EXCEPT !.LastLifecycleCheckAt = tickNow]
  <2>1. \/ threads'[t] = th
        \/ th.Awaiting # Nil /\ threads'[t] = [th EXCEPT !.Awaiting = a]
    BY <1>1, <1>10 DEF CollectProbes, lifecycleDue, ThreadState
  <2>2. th.Awaiting # Nil => a \in AwaitingRetry BY <1>1, AwaitingFacts DEF AwaitingRetry
  <2> HIDE DEF a
  <2>3. th.Awaiting # Nil => Carries(th, [th EXCEPT !.Awaiting = a]) BY <1>1, <2>2, MarkCarries
  <2> QED BY <1>2, <1>3, <2>1, <2>3
<1>11. CASE \E p \in probes : ProbeLifecycle(p)
  <2>1. PICK p \in probes : ProbeLifecycle(p) BY <1>11
  <2>2. \/ threads'[t] = th
        \/ /\ th.Awaiting # Nil
           /\ \/ \E reason \in ErrorReasons : threads'[t] = probeFailed(th, reason, config)
              \/ threads'[t] = probeFoundActive(th)
              \/ threads'[t] = probeFoundIdle(th, tickNow, config)
    BY <1>1, <2>1 DEF ProbeLifecycle, probeMatches
  <2> HIDE DEF th
  <2>3. ASSUME th.Awaiting # Nil, NEW reason \in ControllerReasons
        PROVE  /\ Carries(th, probeFailed(th, reason, config))
               /\ Carries(th, probeFoundActive(th))
               /\ Carries(th, probeFoundIdle(th, tickNow, config))
    BY <1>1, <2>3, ProbeCarries
  <2> DEFINE some == "codex_not_running"
  <2>4. some \in ControllerReasons /\ ErrorReasons \subseteq ControllerReasons
    BY DaemonAssumption DEF ControllerReasons
  <2> HIDE DEF some
  <2> QED BY <1>2, <1>3, <2>2, <2>3, <2>4
<1>12. CASE Dispatch BY <1>3, <1>12, DispatchStepCarries
<1> QED BY <1>4, <1>5, <1>6, <1>7, <1>8, <1>9, <1>10, <1>11, <1>12 DEF Tick

LEMMA JobLeaves ==
    ASSUME Inv, NEW j \in jobs, JobStep(j), NEW u \in Threads
    PROVE  Leaves(threads[u], threads'[u], u)
<1> DEFINE t == j.thread
           th == threads[t]
           Goal == Leaves(threads[u], threads'[u], u)
<1> SUFFICES Goal OBVIOUS
<1>1. /\ t \in Threads /\ Sound(th) /\ DOMAIN threads = Threads
      /\ config \in Config /\ now \in Nat
  BY JobFacts, InvFacts
<1>2. CASE StartJob(j) \/ SendRequest(j) \/ StaleResult(j)
  BY <1>2, SameCarries, CarriesLeaves DEF StartJob, SendRequest, StaleResult
<1>3. ASSUME NEW after, setThread(t, after), Leaves(th, after, t)
      PROVE  Goal
  <2>1. threads'[u] = IF u = t THEN after ELSE threads[u] BY <1>1, <1>3 DEF setThread
  <2> HIDE DEF t, th
  <2>2. CASE u = t BY <1>3, <2>1, <2>2 DEF t, th
  <2>3. CASE u # t BY <2>1, <2>3, SameCarries, CarriesLeaves
  <2> QED BY <2>2, <2>3
<1>0. ASSUME NEW after, setThread(t, after), Carries(th, after) PROVE Goal
  BY <1>0, <1>3, CarriesLeaves
<1> HIDE DEF Goal
<1>4. ASSUME finishing(j, "recovery"), NEW notified, NEW reason \in ControllerReasons, NEW skip,
             NEW action \in RetryActions
      PROVE  LET told == notifyParent(th, notified)
             IN  /\ Carries(th, rescheduleAwaitingWithPolicy(told, now, reason, TRUE, config))
                 /\ Carries(th, dispatchUserActive(told, reason, now, config))
                 /\ Carries(th, dispatchAccepted(told, action, now, config))
                 /\ Keeps(th, dispatchNotApplicable(th, skip))
  <2>1. th.Awaiting # Nil BY <1>4, MatchFacts
  <2> HIDE DEF th
  <2> QED BY <1>1, <1>4, <2>1, ResultCarries
<1> HIDE DEF t, th
<1> DEFINE active2 == "thread_active"
           going == "conversation_continue"
<1>a. active2 \in ControllerReasons /\ going \in RetryActions BY DEF ControllerReasons, RetryActions
<1>5. CASE RecoveryFailed(j)
  <2>1. PICK reason \in failures(j), notified \in notices(j) :
          setThread(t, rescheduleAwaitingWithPolicy(notifyParent(th, notified),
                                                    now, reason, TRUE, config))
    BY <1>5 DEF RecoveryFailed, t, th
  <2>2. finishing(j, "recovery") BY <1>5 DEF RecoveryFailed
  <2>3. reason \in ControllerReasons BY FailureReasons
  <2> HIDE DEF going
  <2>4. Carries(th, rescheduleAwaitingWithPolicy(notifyParent(th, notified),
                                                 now, reason, TRUE, config))
    BY <1>4, <1>a, <2>2, <2>3
  <2> QED BY <1>0, <2>1, <2>4
<1>6. CASE RecoveryUserActive(j)
  <2>1. PICK notified \in notices(j) :
          setThread(t, dispatchUserActive(notifyParent(th, notified), active2, now, config))
    BY <1>6 DEF RecoveryUserActive, t, th
  <2>2. finishing(j, "recovery") BY <1>6 DEF RecoveryUserActive
  <2> HIDE DEF active2, going
  <2>3. Carries(th, dispatchUserActive(notifyParent(th, notified), active2, now, config))
    BY <1>4, <1>a, <2>2
  <2> QED BY <1>0, <2>1, <2>3
<1>7. CASE RecoveryNotApplicable(j)
  <2>1. PICK reason \in SkipReasons : setThread(t, dispatchNotApplicable(th, reason))
    BY <1>7 DEF RecoveryNotApplicable, t, th
  <2>2. finishing(j, "recovery") BY <1>7 DEF RecoveryNotApplicable
  <2>3. Dropped(t) BY <1>7 DEF Dropped, t
  <2> HIDE DEF active2, going
  <2>4. Keeps(th, dispatchNotApplicable(th, reason)) BY <1>4, <1>a, <2>2
  <2>5. Leaves(th, dispatchNotApplicable(th, reason), t) BY <2>3, <2>4 DEF Leaves
  <2> QED BY <1>3, <2>1, <2>5
<1>8. CASE RecoveryAccepted(j)
  <2>1. PICK notified \in notices(j) :
          setThread(t, dispatchAccepted(notifyParent(th, notified), acceptedAction(j, notified),
                                        now, config))
    BY <1>8 DEF RecoveryAccepted, t, th
  <2>2. finishing(j, "recovery") BY <1>8 DEF RecoveryAccepted
  <2>3. acceptedAction(j, notified) \in RetryActions BY DEF acceptedAction, RetryActions
  <2> HIDE DEF active2, going
  <2>4. Carries(th, dispatchAccepted(notifyParent(th, notified), acceptedAction(j, notified),
                                     now, config))
    BY <1>4, <1>a, <2>2, <2>3
  <2> QED BY <1>0, <2>1, <2>4
<1>9. CASE GoalBlockFailed(j)
  <2>1. PICK reason \in failures(j) : setThread(t, rescheduleGoalBlock(th, now, reason, config))
    BY <1>9 DEF GoalBlockFailed, t, th
  <2>2. finishing(j, "goal_block") BY <1>9 DEF GoalBlockFailed
  <2>3. th.GoalStop # Nil BY <2>2, MatchFacts DEF t, th
  <2>4. Carries(th, rescheduleGoalBlock(th, now, reason, config))
    BY <1>1, <2>3, GoalBlockCarries
  <2> QED BY <1>0, <2>1, <2>4
<1>10. CASE GoalBlockDone(j)
  <2>1. setThread(t, goalBlocked(th, j.sent, now)) BY <1>10 DEF GoalBlockDone, t, th
  <2>2. finishing(j, "goal_block") BY <1>10 DEF GoalBlockDone
  <2>3. th.GoalStop # Nil BY <2>2, MatchFacts DEF t, th
  <2>4. Carries(th, goalBlocked(th, j.sent, now)) BY <1>1, <2>3, GoalBlockCarries
  <2> QED BY <1>0, <2>1, <2>4
<1>11. Goal BY <1>2, <1>5, <1>6, <1>7, <1>8, <1>9, <1>10 DEF JobStep
<1> QED BY <1>11 DEF Goal, t, th

LEMMA NextLeaves ==
    ASSUME Inv, NothingHeld, [Next]_vars, ~Crash, NEW t \in Threads, ~HandleEvent(t)
    PROVE  /\ Leaves(threads[t], threads'[t], t)
           /\ Retried(threads'[t]) => Retried(threads[t])
<1>1. Leaves(threads[t], threads'[t], t)
  <2>1. CASE Tick BY <2>1, TickLeaves
  <2>2. CASE \E j \in jobs : JobStep(j) BY <2>2, JobLeaves
  <2>3. CASE \/ \E u \in Threads : QueueCommand(u)
             \/ TogglePause \/ EditConfig \/ Advance \/ CodexMoves \/ UNCHANGED vars
    BY <2>3, SameCarries, CarriesLeaves DEF QueueCommand, TogglePause, EditConfig, Advance,
       CodexMoves, vars, daemonVars, memoryVars
  <2> QED BY <2>1, <2>2, <2>3 DEF Next
<1>2. Retried(threads'[t]) => Retried(threads[t])
  <2>1. KeysKept(threads[t], threads'[t]) BY NextRemembers DEF Remembers
  <2>2. threads'[t] \in ThreadState
    <3>1. Inv' BY NextInv
    <3> QED BY <3>1 DEF Inv, MemoryInv, SoundThread
  <2> DEFINE after == threads'[t]
  <2>3. /\ after.Pending # Nil => after.Pending.fault.EventKey \in Nat
        /\ after.Awaiting # Nil => after.Awaiting.fault.EventKey \in Nat
        /\ after.Stopped # Nil => after.Stopped.fault.EventKey \in Nat
    BY <2>2 DEF ThreadState, PendingRetry, AwaitingRetry, StoppedRetry, Fault
  <2> HIDE DEF after
  <2>4. Retried(after) => \E k \in Nat : HasKey(after, k) BY <2>3 DEF Retried, HasKey
  <2>5. \A k \in Nat : HasKey(threads[t], k) => Retried(threads[t]) BY DEF HasKey, Retried
  <2> QED BY <2>1, <2>4, <2>5 DEF KeysKept, after
<1> QED BY <1>1, <1>2

----------------------------------------------------------------------------
(* What a record tells a thread of its turns.                              *)

Hears(before, after, ev) ==
    CASE ev.kind = "task_started" ->
            /\ after.LastAbortedTurnID = before.LastAbortedTurnID
            /\ after.LastStartedTurnID \in {before.LastStartedTurnID, ev.turn}
            /\ after.LastExternalTurnID \in {before.LastExternalTurnID, ev.turn}
      [] ev.kind = "turn_aborted" ->
            /\ after.LastAbortedTurnID = IF ev.turn = 0 THEN before.LastStartedTurnID ELSE ev.turn
            /\ after.LastStartedTurnID = before.LastStartedTurnID
            /\ after.LastExternalTurnID = before.LastExternalTurnID
      [] OTHER -> SameTurns(before, after)

LEMMA StartedHears ==
    ASSUME NEW th, Sound(th), NEW ev \in Event
    PROVE  LET s == handleTaskStarted(th, ev)
           IN  /\ s.LastAbortedTurnID = th.LastAbortedTurnID
               /\ s.LastStartedTurnID \in {th.LastStartedTurnID, ev.turn}
               /\ s.LastExternalTurnID \in {th.LastExternalTurnID, ev.turn}
<1>1. th \in ThreadState BY DEF Sound
<1> DEFINE s == [th EXCEPT !.LastStartedTurnID = ev.turn, !.LastStartedAt = ev.at,
                           !.CurrentTurnProgress = FALSE]
           u == [s EXCEPT !.LastExternalTurnID = ev.turn, !.LastExternalTurnAt = ev.at]
           after == handleTaskStarted(th, ev)
<1>2. /\ s.LastAbortedTurnID = th.LastAbortedTurnID /\ s.LastStartedTurnID = ev.turn
      /\ s.LastExternalTurnID = th.LastExternalTurnID /\ DOMAIN s = DOMAIN th
  BY <1>1 DEF ThreadState
<1>3. \/ after \in {th, s}
      \/ \E a : after = [s EXCEPT !.Awaiting = a]
      \/ \E a, r : after = [s EXCEPT !.Pending = Nil, !.LastAutoRetryAt = r, !.Awaiting = a]
      \/ after = resetRetryState(u)
  BY DEF handleTaskStarted, adoptTurn
<1>4. /\ resetRetryState(u).LastAbortedTurnID = u.LastAbortedTurnID
      /\ resetRetryState(u).LastStartedTurnID = u.LastStartedTurnID
      /\ resetRetryState(u).LastExternalTurnID = u.LastExternalTurnID
      /\ u.LastAbortedTurnID = s.LastAbortedTurnID /\ u.LastStartedTurnID = s.LastStartedTurnID
      /\ u.LastExternalTurnID = ev.turn
  BY <1>1 DEF resetRetryState, ThreadState
<1> HIDE DEF s, after, u
<1>5. CASE after \in {th, s} BY <1>2, <1>5 DEF after
<1>6. CASE after = resetRetryState(u) BY <1>2, <1>4, <1>6 DEF after
<1>7. CASE \/ \E a : after = [s EXCEPT !.Awaiting = a]
           \/ \E a, r : after = [s EXCEPT !.Pending = Nil, !.LastAutoRetryAt = r, !.Awaiting = a]
  <2>1. SameTurns(s, after) BY <1>1, <1>2, <1>7 DEF ThreadState, SameTurns
  <2> QED BY <1>2, <2>1 DEF SameTurns, after
<1> QED BY <1>3, <1>5, <1>6, <1>7

LEMMA AbortedHears ==
    ASSUME NEW th, Sound(th), NEW ev \in Event
    PROVE  LET s == handleTurnAborted(th, ev)
           IN  /\ s.LastAbortedTurnID = IF ev.turn = 0 THEN th.LastStartedTurnID ELSE ev.turn
               /\ s.LastStartedTurnID = th.LastStartedTurnID
               /\ s.LastExternalTurnID = th.LastExternalTurnID
<1> DEFINE id == IF ev.turn = 0 THEN th.LastStartedTurnID ELSE ev.turn
           s == [th EXCEPT !.LastAbortedTurnID = id, !.LastAbortedAt = ev.at]
           after == handleTurnAborted(th, ev)
<1>1. th \in ThreadState /\ id \in Nat /\ ev.at \in Nat BY DEF Sound, Event, ThreadState
<1>2. after \in {s, resetRetryState(s)} BY DEF handleTurnAborted
<1> HIDE DEF id
<1>3. s \in ThreadState BY <1>1 DEF ThreadState
<1>4. /\ s.LastAbortedTurnID = id /\ s.LastStartedTurnID = th.LastStartedTurnID
      /\ s.LastExternalTurnID = th.LastExternalTurnID
  BY <1>1 DEF ThreadState
<1> HIDE DEF s
<1>5. SameTurns(s, resetRetryState(s)) BY <1>3, StopsTurns
<1> QED BY <1>2, <1>4, <1>5 DEF SameTurns, id, after

LEMMA ExhaustStops ==
    ASSUME NEW th \in ThreadState, NEW fault \in Fault, NEW budget \in Budget,
           NEW reason \in StopReasons, NEW historical \in BOOLEAN, NEW time
    PROVE  exhaustRetry(th, fault, budget, reason, historical, time).Stopped # Nil
<1> DEFINE unset == "unset"
           limit == "goal_empty_response_limit"
           s(r) == stopRetry(th, fault, budget, r, historical, unset)
           after == exhaustRetry(th, fault, budget, reason, historical, time)
<1>1. unset \in {"unset", "yes", "no"} /\ limit \in StopReasons BY DEF StopReasons
<1>2. after = s(reason) \/ \E g : after = [s(limit) EXCEPT !.GoalStop = g] BY DEF exhaustRetry
<1> HIDE DEF unset, limit
<1>3. \A r \in StopReasons : s(r) \in ThreadState /\ s(r).Stopped # Nil BY <1>1, StopRetryType
<1> HIDE DEF s
<1>4. \A g : [s(limit) EXCEPT !.GoalStop = g].Stopped = s(limit).Stopped
  BY <1>1, <1>3 DEF ThreadState
<1> QED BY <1>1, <1>2, <1>3, <1>4

\* scheduleFailureLocked: a failure of a known class is queued, stopped, or held.
LEMMA ScheduleKeepsTurns ==
    ASSUME NEW th \in ThreadState, NEW ev \in Event, ev.class # "success", NEW time \in Nat,
           NEW cfg \in Config, NEW attempt \in Nat, NEW consecutive \in Nat, NEW origin \in Nat,
           NEW notified \in BOOLEAN
    PROVE  LET s == scheduleFailure(th, ev, time, cfg, attempt, consecutive, origin, notified)
           IN  /\ SameTurns(th, s)
               /\ th.Pending = Nil /\ th.Awaiting = Nil /\ ev.class \in FailureClasses
                     => Retried(s) \/ heldFromDispatch(s)
<1> DEFINE clocked == startClock(th, time)
           blockedNow == /\ th.GoalStatus = "blocked"
                         /\ goalBlockedByFailure(th.GoalUpdatedAt, ev.at)
           held == clocked.GoalHeld /\ ~blockedNow
           t == [clocked EXCEPT !.GoalHeld = held]
           fault == [EventKey |-> ev.turn, FailedAt |-> ev.at,
                     OriginTurnStartedAt |-> origin, Class |-> ev.class]
           budget == [Attempt |-> attempt, MaxAttempts |-> recoveryLimit(ev.class, cfg),
                      ConsecutiveRetry |-> consecutive,
                      MaxConsecutive |-> consecutiveLimit(ev.class, cfg)]
           failedNow == [t EXCEPT !.CurrentTurnProgress = FALSE, !.LastFailureAt = ev.at]
           tooLong == time > t.RecoveryStartedAt + MaxAutomaticRecoveryDuration
           reason == IF tooLong THEN "recovery_time_limit" ELSE budgetStopReason(fault, budget, cfg)
           no == FALSE
           due == time + retryDelay(consecutive, cfg)
           p == [fault |-> fault, budget |-> budget, DueAt |-> due,
                 DispatchFailures |-> 0, ParentNotified |-> notified, GoalLimitRestart |-> FALSE]
           queued == [failedNow EXCEPT
                        !.RecoveryAttempts = attempt, !.ConsecutiveRetries = consecutive,
                        !.Awaiting = Nil, !.Stopped = Nil, !.GoalStop = Nil, !.Pending = p]
           s == scheduleFailure(th, ev, time, cfg, attempt, consecutive, origin, notified)
           stopped == exhaustRetry(failedNow, fault, budget, reason, no, time)
<1> SUFFICES /\ SameTurns(th, s)
             /\ th.Pending = Nil /\ th.Awaiting = Nil /\ ev.class \in FailureClasses
                   => Retried(s) \/ heldFromDispatch(s)
  OBVIOUS
<1>1. s = IF t.GoalHeld /\ ~heldConversationAllowed(t.GoalStatus, t.GoalUpdatedAt, origin)
          THEN dropHeldRetry(failedNow)
          ELSE IF ev.class = "none" THEN resetRetryState(t)
          ELSE IF tooLong \/ overBudget(budget) THEN stopped
          ELSE queued
  BY DEF scheduleFailure
<1> HIDE DEF s
<1>2. clocked \in ThreadState /\ SameTurns(th, clocked)
      /\ (th.Pending = Nil => clocked.Pending = Nil)
      /\ (th.Awaiting = Nil => clocked.Awaiting = Nil)
  BY DEF startClock, ThreadState, SameTurns
<1> HIDE DEF clocked, blockedNow
<1>3. t \in ThreadState /\ SameTurns(clocked, t)
  <2>1. t = [clocked EXCEPT !.GoalHeld = held] BY <1>2 DEF ThreadState
  <2>2. held \in BOOLEAN OBVIOUS
  <2> HIDE DEF held, t
  <2>3. t \in ThreadState BY <1>2, <2>1, <2>2 DEF ThreadState
  <2>4. SameTurns(clocked, t) BY <1>2, <2>1 DEF ThreadState, SameTurns
  <2> QED BY <2>3, <2>4
<1> HIDE DEF t, held
<1>4. failedNow \in ThreadState /\ SameTurns(t, failedNow) /\ failedNow.GoalHeld = t.GoalHeld
  <2>1. ev.at \in Nat BY DEF Event
  <2>2. failedNow \in ThreadState BY <1>3, <2>1 DEF ThreadState
  <2>3. SameTurns(t, failedNow) /\ failedNow.GoalHeld = t.GoalHeld
    BY <1>3 DEF ThreadState, SameTurns
  <2> QED BY <2>2, <2>3
<1> HIDE DEF failedNow
<1>5. SameTurns(th, t) /\ SameTurns(th, failedNow) BY <1>2, <1>3, <1>4, TurnsThrough
<1>6. CASE s = dropHeldRetry(failedNow) /\ t.GoalHeld
  <2>1. SameTurns(th, s) BY <1>4, <1>5, <1>6, StopsTurns, TurnsThrough
  <2>2. s.Pending = Nil /\ s.Awaiting = Nil /\ s.GoalHeld
    BY <1>4, <1>6 DEF dropHeldRetry, ThreadState
  <2>3. heldFromDispatch(s)
    BY <2>2 DEF heldFromDispatch, goalLimitRestartPending, heldConversationStillAllowed,
       retryOrigin, heldConversationAllowed
  <2> QED BY <2>1, <2>3
<1>7. CASE s = resetRetryState(t) /\ ev.class = "none"
  <2>1. SameTurns(th, s) BY <1>3, <1>5, <1>7, StopsTurns, TurnsThrough
  <2>2. "none" \notin FailureClasses BY DEF FailureClasses
  <2> QED BY <1>7, <2>1, <2>2
<1>8. CASE s \in {stopped, queued} /\ ev.class # "none"
  <2>1. ev.class \in FailureClasses BY <1>8 DEF Event
  <2>2. fault \in Fault BY <2>1 DEF Fault, Event
  <2>3. budget \in Budget
    <3>1. cfg.MaxRecoveryAttempts \in Nat /\ cfg.MaxConsecutiveRetries \in Nat
      BY DEF Config, Positive
    <3>2. recoveryLimit(ev.class, cfg) \in Nat /\ consecutiveLimit(ev.class, cfg) \in Nat
      BY <2>1, <3>1, ClassLimits
    <3> QED BY <3>2 DEF Budget
  <2>4. reason \in StopReasons
    BY DEF StopReasons, budgetStopReason, retryStopReasonForClass, retryStopReason
  <2>5. due \in Nat BY DelayBounded
  <2>6. no \in BOOLEAN OBVIOUS
  <2> HIDE DEF fault, budget, reason, due, no, tooLong
  <2>7. stopped.Stopped # Nil BY <1>4, <2>2, <2>3, <2>4, <2>6, ExhaustStops
  <2>8. SameTurns(failedNow, stopped) BY <1>4, StopsTurns
  <2>9. p \in PendingRetry BY <2>2, <2>3, <2>5 DEF PendingRetry, no
  <2> HIDE DEF p, stopped
  <2>10. queued.Pending = p /\ SameTurns(failedNow, queued) BY <1>4 DEF ThreadState, SameTurns
  <2> HIDE DEF queued
  <2>11. SameTurns(th, s) BY <1>5, <1>8, <2>8, <2>10, TurnsThrough
  <2>12. Retried(s) BY <1>8, <2>7, <2>9, <2>10, NilAssumption DEF Retried
  <2> QED BY <2>11, <2>12
<1> HIDE DEF stopped, queued, budget, tooLong
<1> QED BY <1>1, <1>6, <1>7, <1>8

\* handleTaskCompleteLocked: the failure of a turn that was not interrupted is taken up.
LEMMA CompleteHears ==
    ASSUME NEW th, Sound(th), NEW ev \in Event, NEW time \in Nat, NEW cfg \in Config
    PROVE  LET s == handleTaskComplete(th, ev, time, cfg)
           IN  /\ SameTurns(th, s)
               /\ ev.class \in FailureClasses /\ ev.turn # th.LastAbortedTurnID
                     => Retried(s) \/ heldFromDispatch(s)
<1> DEFINE a == th.Awaiting
           running == [th EXCEPT !.CurrentTurnProgress = FALSE, !.Awaiting = Nil]
           idle == [th EXCEPT !.CurrentTurnProgress = FALSE]
           n == a.budget.Attempt + 1
           m == IF th.CurrentTurnProgress THEN 1 ELSE a.budget.ConsecutiveRetry + 1
           from == externalTurnOrigin(th, ev)
           no == FALSE
           again == scheduleFailure(running, ev, time, cfg, n, m, a.fault.OriginTurnStartedAt,
                                    a.ParentNotified)
           first == scheduleFailure(idle, ev, time, cfg, 1, 1, from, no)
           s == handleTaskComplete(th, ev, time, cfg)
           Goal == /\ SameTurns(th, s)
                   /\ ev.class \in FailureClasses /\ ev.turn # th.LastAbortedTurnID
                         => Retried(s) \/ heldFromDispatch(s)
<1> SUFFICES Goal OBVIOUS
<1>1. th \in ThreadState /\ (th.Pending # Nil => th.Awaiting = Nil) BY DEF Sound, onePhase
<1>2. \/ s = th /\ Retried(th)
      \/ s = resetRetryState(th) /\ (ev.class = "success" \/ ev.turn = th.LastAbortedTurnID)
      \/ a # Nil /\ ev.class # "success" /\ s = again
      \/ a = Nil /\ th.Pending = Nil /\ ev.class # "success" /\ s = first
  BY DEF handleTaskComplete, automaticGoalLimitStopped, Retried
<1>3. /\ running \in ThreadState /\ SameTurns(th, running)
      /\ running.Pending = th.Pending /\ running.Awaiting = Nil
  <2>1. running \in ThreadState BY <1>1 DEF ThreadState
  <2> QED BY <1>1, <2>1 DEF ThreadState, SameTurns
<1>4. /\ idle \in ThreadState /\ SameTurns(th, idle)
      /\ idle.Pending = th.Pending /\ idle.Awaiting = th.Awaiting
  <2>1. idle \in ThreadState BY <1>1 DEF ThreadState
  <2> QED BY <1>1, <2>1 DEF ThreadState, SameTurns
<1>5. from \in Nat BY <1>1 DEF externalTurnOrigin, ThreadState
<1>6. no \in BOOLEAN /\ "success" \notin FailureClasses BY DEF FailureClasses
<1>7. a # Nil => /\ n \in Nat /\ m \in Nat /\ a.fault.OriginTurnStartedAt \in Nat
                 /\ a.ParentNotified \in BOOLEAN
  <2> SUFFICES ASSUME a # Nil PROVE /\ n \in Nat /\ m \in Nat /\ a.fault.OriginTurnStartedAt \in Nat
                                    /\ a.ParentNotified \in BOOLEAN
    OBVIOUS
  <2>1. a \in AwaitingRetry BY AwaitingFacts
  <2>2. a.budget \in Budget /\ a.fault \in Fault /\ a.ParentNotified \in BOOLEAN
    BY <2>1 DEF AwaitingRetry
  <2> HIDE DEF a
  <2> QED BY <2>2 DEF Budget, Fault
<1> HIDE DEF running, idle, n, m, from, no, s
<1>8. CASE s = th /\ Retried(th) BY <1>8 DEF SameTurns
<1>9. CASE s = resetRetryState(th) /\ (ev.class = "success" \/ ev.turn = th.LastAbortedTurnID)
  BY <1>1, <1>6, <1>9, StopsTurns
<1>10. CASE a # Nil /\ ev.class # "success" /\ s = again
  <2>1. /\ SameTurns(running, s)
        /\ running.Pending = Nil /\ running.Awaiting = Nil /\ ev.class \in FailureClasses
              => Retried(s) \/ heldFromDispatch(s)
    BY <1>3, <1>7, <1>10, ScheduleKeepsTurns
  <2>2. th.Pending = Nil BY <1>1, <1>10
  <2> QED BY <1>3, <2>1, <2>2, TurnsThrough
<1>11. CASE a = Nil /\ th.Pending = Nil /\ ev.class # "success" /\ s = first
  <2>1. /\ SameTurns(idle, s)
        /\ idle.Pending = Nil /\ idle.Awaiting = Nil /\ ev.class \in FailureClasses
              => Retried(s) \/ heldFromDispatch(s)
    BY <1>4, <1>5, <1>6, <1>11, ScheduleKeepsTurns
  <2> QED BY <1>4, <1>11, <2>1, TurnsThrough
<1> QED BY <1>2, <1>8, <1>9, <1>10, <1>11

\* Let go by a record that belongs to no turn: the goal holds the chain, or goes on after
\* the goal limit had stopped it.
LetGoBy(before, after) ==
    heldFromDispatch(after) \/ (automaticGoalLimitStopped(before) /\ after.Stopped = Nil)

LEMMA GoalHears ==
    ASSUME NEW th, Sound(th), NEW ev \in Event
    PROVE  LET s == handleGoalUpdated(th, ev)
           IN  /\ SameTurns(th, s)
               /\ Retried(th) => Retried(s) \/ LetGoBy(th, s)
<1> DEFINE t == [th EXCEPT !.GoalStatus = ev.status, !.GoalUpdatedAt = ev.updatedAt,
                           !.GoalObservedAt = ev.at]
           held == goalRequiresHold(ev.status, ev.updatedAt, th.LastFailureAt)
           on == [t EXCEPT !.GoalHeld = TRUE]
           off == [t EXCEPT !.GoalHeld = FALSE]
           open == [t EXCEPT !.Stopped = Nil, !.RecoveryAttempts = 0, !.ConsecutiveRetries = 0,
                             !.CurrentTurnProgress = FALSE, !.GoalHeld = FALSE]
           named == [t.Stopped EXCEPT !.Reason = "goal_empty_response_limit"]
           blocked == [t EXCEPT !.GoalStop = Nil, !.GoalHeld = TRUE, !.Stopped = named]
           reset == resetRetryState(on)
           s == handleGoalUpdated(th, ev)
<1> SUFFICES SameTurns(th, s) /\ (Retried(th) => Retried(s) \/ LetGoBy(th, s)) OBVIOUS
<1>1. th \in ThreadState BY DEF Sound
<1>2. t \in ThreadState /\ held \in BOOLEAN
  <2>1. t \in ThreadState BY <1>1 DEF ThreadState, Event
  <2> QED BY <2>1 DEF goalRequiresHold
<1>3. /\ SameTurns(th, t) /\ t.Pending = th.Pending /\ t.Awaiting = th.Awaiting
      /\ t.Stopped = th.Stopped
  BY <1>1 DEF ThreadState, SameTurns
<1>4. \/ s = th
      \/ \E g \in BOOLEAN : s = [t EXCEPT !.GoalHeld = g]
      \/ automaticGoalLimitStopped(th) /\ s = open
      \/ automaticGoalLimitStopped(th) /\ s = [t EXCEPT !.GoalStop = Nil, !.GoalHeld = TRUE,
                              !.Stopped = [@ EXCEPT !.Reason = "goal_empty_response_limit"]]
      \/ s = reset
  BY <1>2 DEF handleGoalUpdated, goalUpdatedAfterLimit
<1>5. [t EXCEPT !.GoalStop = Nil, !.GoalHeld = TRUE,
                !.Stopped = [@ EXCEPT !.Reason = "goal_empty_response_limit"]] = blocked
  BY <1>2 DEF ThreadState
<1> HIDE DEF t, held, s
<1>6. CASE s = th BY <1>6 DEF SameTurns
<1>7. CASE \E g \in BOOLEAN : s = [t EXCEPT !.GoalHeld = g]
  <2>1. /\ SameTurns(t, s) /\ s.Pending = t.Pending /\ s.Awaiting = t.Awaiting
        /\ s.Stopped = t.Stopped
    BY <1>2, <1>7 DEF ThreadState, SameTurns
  <2> QED BY <1>3, <2>1, TurnsThrough DEF Retried
<1>8. CASE automaticGoalLimitStopped(th) /\ s = open
  <2>1. SameTurns(t, s) /\ s.Stopped = Nil BY <1>2, <1>8 DEF ThreadState, SameTurns
  <2> QED BY <1>3, <1>8, <2>1, TurnsThrough DEF LetGoBy
<1>9. CASE automaticGoalLimitStopped(th) /\ s = blocked
  <2>1. t.Stopped \in StoppedRetry
    BY <1>1, <1>3, <1>9 DEF automaticGoalLimitStopped, ThreadState
  <2>2. named \in StoppedRetry
    <3>1. "goal_empty_response_limit" \in StopReasons BY DEF StopReasons
    <3> QED BY <2>1, <3>1 DEF StoppedRetry
  <2> HIDE DEF named
  <2>3. SameTurns(t, s) /\ s.Stopped = named BY <1>2, <1>9 DEF ThreadState, SameTurns
  <2> QED BY <1>3, <2>2, <2>3, TurnsThrough, NilAssumption DEF Retried
<1>10. CASE s = reset
  <2>1. on \in ThreadState /\ on.GoalHeld /\ SameTurns(t, on)
    <3>1. on \in ThreadState BY <1>2 DEF ThreadState
    <3> QED BY <1>2, <3>1 DEF ThreadState, SameTurns
  <2> HIDE DEF on
  <2>2. s.Pending = Nil /\ s.Awaiting = Nil /\ s.GoalHeld /\ SameTurns(on, s)
    BY <1>10, <2>1 DEF resetRetryState, ThreadState, SameTurns
  <2>3. heldFromDispatch(s)
    BY <2>2 DEF heldFromDispatch, goalLimitRestartPending, heldConversationStillAllowed,
       retryOrigin, heldConversationAllowed
  <2>4. SameTurns(th, s) BY <1>3, <2>1, <2>2, TurnsThrough
  <2> QED BY <2>3, <2>4 DEF LetGoBy
<1> HIDE DEF open, blocked, reset
<1> QED BY <1>4, <1>5, <1>6, <1>7, <1>8, <1>9, <1>10

LEMMA NoticeHears ==
    ASSUME NEW th, Sound(th), NEW ev \in Event
    PROVE  LET s == handleSubagentRecoveryNotice(th, ev)
           IN  SameTurns(th, s) /\ (Retried(th) => Retried(s))
<1> DEFINE mark(retry) == IF retry # Nil /\ retry.fault.EventKey = ev.key
                          THEN [retry EXCEPT !.ParentNotified = TRUE] ELSE retry
           p == mark(th.Pending)
           a == mark(th.Awaiting)
           s == handleSubagentRecoveryNotice(th, ev)
<1>1. th \in ThreadState BY DEF Sound
<1>2. th.Pending # Nil => p # Nil
  <2> DEFINE told == [th.Pending EXCEPT !.ParentNotified = TRUE]
  <2>1. th.Pending # Nil => told \in PendingRetry BY PendingFacts DEF PendingRetry
  <2> HIDE DEF told
  <2>2. p \in {th.Pending, told} BY DEF told
  <2> QED BY <2>1, <2>2, NilAssumption
<1>3. th.Awaiting # Nil => a # Nil
  <2> DEFINE told == [th.Awaiting EXCEPT !.ParentNotified = TRUE]
  <2>1. th.Awaiting # Nil => told \in AwaitingRetry BY AwaitingFacts DEF AwaitingRetry
  <2> HIDE DEF told
  <2>2. a \in {th.Awaiting, told} BY DEF told
  <2> QED BY <2>1, <2>2, NilAssumption
<1>4. s = [th EXCEPT !.Pending = p, !.Awaiting = a] BY DEF handleSubagentRecoveryNotice
<1> HIDE DEF p, a, mark, s
<1>5. s.Pending = p /\ s.Awaiting = a /\ s.Stopped = th.Stopped /\ SameTurns(th, s)
  BY <1>1, <1>4 DEF ThreadState, SameTurns
<1>6. SameTurns(th, s) /\ (Retried(th) => Retried(s)) BY <1>2, <1>3, <1>5 DEF Retried
<1> QED BY <1>6 DEF s

\* What every record tells; a failure is taken up, and a record that belongs to no turn
\* drops no retry unless it lets it go.
LEMMA EventHears ==
    ASSUME NEW th, Sound(th), NEW ev \in Event, NEW time \in Nat, NEW cfg \in Config
    PROVE  LET s == handleEvent(th, ev, time, cfg)
           IN  /\ Hears(th, s, ev)
               /\ ev.kind = "task_complete" /\ ev.class \in FailureClasses /\ ev.turn # th.LastAbortedTurnID
                     => Retried(s) \/ heldFromDispatch(s)
               /\ Aside(ev) => (Retried(th) => Retried(s) \/ LetGoBy(th, s))
<1> DEFINE s == handleEvent(th, ev, time, cfg)
           Goal == /\ Hears(th, s, ev)
                   /\ ev.kind = "task_complete" /\ ev.class \in FailureClasses /\ ev.turn # th.LastAbortedTurnID
                         => Retried(s) \/ heldFromDispatch(s)
                   /\ Aside(ev) => (Retried(th) => Retried(s) \/ LetGoBy(th, s))
<1> SUFFICES Goal OBVIOUS
<1>1. th \in ThreadState /\ ev.kind \in EventKinds BY DEF Sound, Event
<1>0. SameTurns(th, s) /\ ev.kind \notin {"task_started", "turn_aborted"} => Hears(th, s, ev)
  BY DEF Hears
<1> HIDE DEF s
<1>2. CASE ev.kind = "task_started"
  <2>1. s = handleTaskStarted(th, ev) BY <1>2 DEF handleEvent, s
  <2>2. /\ s.LastAbortedTurnID = th.LastAbortedTurnID
        /\ s.LastStartedTurnID \in {th.LastStartedTurnID, ev.turn}
        /\ s.LastExternalTurnID \in {th.LastExternalTurnID, ev.turn}
    BY <2>1, StartedHears
  <2>3. Hears(th, s, ev) BY <1>2, <2>2 DEF Hears
  <2> QED BY <1>2, <2>3 DEF Aside
<1>3. CASE ev.kind = "turn_aborted"
  <2>1. s = handleTurnAborted(th, ev) BY <1>3 DEF handleEvent, s
  <2>2. /\ s.LastAbortedTurnID = IF ev.turn = 0 THEN th.LastStartedTurnID ELSE ev.turn
        /\ s.LastStartedTurnID = th.LastStartedTurnID
        /\ s.LastExternalTurnID = th.LastExternalTurnID
    BY <2>1, AbortedHears
  <2>3. Hears(th, s, ev) BY <1>3, <2>2 DEF Hears
  <2> QED BY <1>3, <2>3 DEF Aside
<1>4. CASE ev.kind = "task_complete"
  <2>1. s = handleTaskComplete(th, ev, time, cfg) BY <1>4 DEF handleEvent, s
  <2>2. /\ SameTurns(th, s)
        /\ ev.class \in FailureClasses /\ ev.turn # th.LastAbortedTurnID
              => Retried(s) \/ heldFromDispatch(s)
    BY <2>1, CompleteHears
  <2>3. Hears(th, s, ev) /\ ~Aside(ev) BY <1>0, <1>4, <2>2 DEF Aside
  <2> QED BY <2>2, <2>3
<1>5. CASE ev.kind = "thread_goal_updated"
  <2>1. s = handleGoalUpdated(th, ev) BY <1>5 DEF handleEvent, s
  <2>2. SameTurns(th, s) /\ (Retried(th) => Retried(s) \/ LetGoBy(th, s)) BY <2>1, GoalHears
  <2> QED BY <1>0, <1>5, <2>2
<1>6. CASE ev.kind = "subagent_recovery_notice"
  <2>1. s = handleSubagentRecoveryNotice(th, ev) BY <1>6 DEF handleEvent, s
  <2>2. SameTurns(th, s) /\ (Retried(th) => Retried(s)) BY <2>1, NoticeHears
  <2> QED BY <1>0, <1>6, <2>2
<1>7. CASE ev.kind \in {"task_user_input", "task_progress"}
  <2>1. s \in {th, resetRetryState(th), [th EXCEPT !.CurrentTurnProgress = TRUE]}
    BY <1>7 DEF handleEvent, handleTaskUserInput, handleTaskProgress, s
  <2>2. SameTurns(th, [th EXCEPT !.CurrentTurnProgress = TRUE])
    BY <1>1 DEF ThreadState, SameTurns
  <2>3. SameTurns(th, th) BY DEF SameTurns
  <2>4. SameTurns(th, s) BY <1>1, <2>1, <2>2, <2>3, StopsTurns
  <2> QED BY <1>0, <1>7, <2>4 DEF Aside
<1> QED BY <1>1, <1>2, <1>3, <1>4, <1>5, <1>6, <1>7 DEF EventKinds

\* The records that are to come, before and after a step.
ShapedBehind(queued, queued2, t) ==
    Shape(queued[t] \o rollout[t], turn[t], nextTurn, queued2[t] \o rollout'[t], turn'[t], nextTurn')

LEMMA SameShaped ==
    ASSUME Inv, NEW queued, NEW queued2, NEW t, UNCHANGED <<turn, nextTurn>>,
           queued2[t] \o rollout'[t] = queued[t] \o rollout[t]
    PROVE  ShapedBehind(queued, queued2, t)
<1> DEFINE r == queued[t] \o rollout[t]
           r2 == queued2[t] \o rollout'[t]
           run == turn[t]
           run2 == turn'[t]
<1>1. r2 = r /\ run2 = run /\ nextTurn' = nextTurn /\ nextTurn \in Nat BY SeqFacts
<1> HIDE DEF r, r2, run, run2
<1>2. Shape(r, run, nextTurn, r2, run2, nextTurn') BY <1>1 DEF Shape
<1> QED BY <1>2 DEF ShapedBehind, r, r2, run, run2

LEMMA StillShapedBehind ==
    ASSUME Inv, [Next]_vars, ~TickScan, ~Crash, NEW q \in [Threads -> Seq(Event)], NEW t \in Threads
    PROVE  ShapedBehind(q, q, t)
<1>1. Shape(rollout[t], turn[t], nextTurn, rollout'[t], turn'[t], nextTurn')
  BY NextShaped DEF Shaped
<1>2. rollout[t] \in Seq(Event) /\ q[t] \in Seq(Event) BY SeqFacts
<1> DEFINE r == rollout[t]
           r2 == rollout'[t]
           run == turn[t]
           run2 == turn'[t]
           head == q[t]
<1> HIDE DEF r, r2, run, run2, head
<1>3. Shape(head \o r, run, nextTurn, head \o r2, run2, nextTurn')
  BY <1>1, <1>2, ShapeBehind DEF r, r2, run, run2, head
<1> QED BY <1>3 DEF r, r2, run, run2, head, ShapedBehind

\* Of a thread in memory that handles no record.
LEMMA BatchShaped ==
    ASSUME Inv, Queued, [Next]_vars, ~Crash, NEW t \in Threads, ~HandleEvent(t)
    PROVE  ShapedBehind(batch, batch', t)
<1>1. CASE TickScan
  <2>1. /\ batch = emptyQueues /\ batch' = rollout /\ rollout' = emptyQueues
        /\ UNCHANGED <<turn, nextTurn>>
    BY <1>1 DEF TickScan, Queued
  <2>2. batch'[t] \o rollout'[t] = batch[t] \o rollout[t] BY <2>1, SeqFacts, QueueFacts
  <2> QED BY <2>1, <2>2, SameShaped
<1>2. ASSUME NEW u \in Threads, HandleEvent(u) PROVE ShapedBehind(batch, batch', t)
  <2>1. /\ batch' = [batch EXCEPT ![u] = Tail(@)] /\ UNCHANGED <<rollout, turn, nextTurn>>
        /\ u # t
    BY <1>2 DEF HandleEvent, codexVars
  <2>2. batch'[t] \o rollout'[t] = batch[t] \o rollout[t] BY <2>1, SeqFacts
  <2> QED BY <2>1, <2>2, SameShaped
<1>3. CASE ~TickScan /\ \A u \in Threads : ~HandleEvent(u)
  <2>1. batch' = batch BY <1>3, QueueForms DEF Still, Running
  <2> QED BY <1>3, <2>1, SeqFacts, StillShapedBehind
<1> QED BY <1>1, <1>2, <1>3

\* Of the threads in state.json, unless it is written.
LEMMA UnsavedShaped ==
    ASSUME Inv, "crash" \in Features, [Next]_vars
    PROVE  \/ (\A t \in Threads : ShapedBehind(unsaved, unsaved', t)) /\ UNCHANGED disk
           \/ Saved /\ UNCHANGED batch
<1>1. CASE TickScan \/ Crash
  <2>1. /\ \/ /\ unsaved' = [t \in Threads |-> unsaved[t] \o rollout[t]]
              /\ rollout' = emptyQueues
           \/ /\ unsaved' = emptyQueues
              /\ rollout' = [t \in Threads |-> unsaved[t] \o rollout[t]]
        /\ UNCHANGED <<turn, nextTurn, disk>>
    BY <1>1 DEF TickScan, Crash, diskRead
  <2>2. ASSUME NEW t \in Threads PROVE unsaved'[t] \o rollout'[t] = unsaved[t] \o rollout[t]
    <3> DEFINE s == unsaved[t] \o rollout[t]
    <3>1. s \in Seq(Event) BY SeqFacts, QueueFacts
    <3>2. <<>> \o s = s /\ s \o <<>> = s BY <3>1, SeqFacts, QueueFacts
    <3>3. \/ unsaved'[t] = s /\ rollout'[t] = <<>>
          \/ unsaved'[t] = <<>> /\ rollout'[t] = s
      BY <2>1, SeqFacts
    <3> HIDE DEF s
    <3>4. unsaved'[t] \o rollout'[t] = s BY <3>2, <3>3
    <3> QED BY <3>4 DEF s
  <2> QED BY <2>1, <2>2, SameShaped
<1>2. ASSUME NEW u \in Threads, HandleEvent(u)
      PROVE  (\A t \in Threads : ShapedBehind(unsaved, unsaved', t)) /\ UNCHANGED disk
  <2>1. UNCHANGED <<rollout, turn, nextTurn, disk, unsaved>>
    BY <1>2 DEF HandleEvent, codexVars, fileVars
  <2> QED BY <2>1, SameShaped
<1>3. CASE ~TickScan /\ ~Crash /\ \A u \in Threads : ~HandleEvent(u)
  <2>1. /\ UNCHANGED <<disk, unsaved>> \/ Saved
        /\ UNCHANGED batch
    BY <1>3, QueueForms DEF Still, Running
  <2>2. \A t \in Threads : ShapedBehind(unsaved, unsaved, t)
    BY <1>3, SeqFacts, StillShapedBehind
  <2> QED BY <2>1, <2>2
<1> QED BY <1>1, <1>2, <1>3

----------------------------------------------------------------------------
(* The turns of a thread run one after the other.                          *)

\* When turn k ends, after the first n records, no turn from k on has been heard to end,
\* and none after k to start.
Awaited(k, th, seq, n) ==
    /\ th.LastAbortedTurnID < k /\ th.LastStartedTurnID <= k /\ th.LastExternalTurnID <= k
    /\ \A i \in DOMAIN seq : i <= n =>
          /\ seq[i].kind = "task_started" => seq[i].turn <= k
          /\ seq[i].kind = "task_complete" => seq[i].turn < k
          /\ seq[i].kind = "turn_aborted" =>
                /\ seq[i].turn < k /\ th.LastStartedTurnID < k
                /\ \A h \in DOMAIN seq : h < i /\ seq[h].kind = "task_started" => seq[h].turn < k

TurnKinds == {"task_started", "task_complete", "turn_aborted"}

\* A thread and the records that are to come know of no turn that Codex has not started.
Below(th, seq, next) ==
    /\ th.LastAbortedTurnID < next /\ th.LastStartedTurnID < next /\ th.LastExternalTurnID < next
    /\ \A i \in DOMAIN seq : seq[i].kind \in TurnKinds => seq[i].turn < next

Rising(th, seq, run, next) ==
    /\ Below(th, seq, next)
    /\ run # Nil => run.id < next /\ Awaited(run.id, th, seq, Len(seq))
    /\ \A j \in DOMAIN seq : seq[j].kind = "task_complete" => Awaited(seq[j].turn, th, seq, j - 1)

RisingInv ==
    \A t \in Threads :
       /\ Rising(threads[t], batch[t] \o rollout[t], turn[t], nextTurn)
       /\ "crash" \in Features => Rising(disk[t], unsaved[t] \o rollout[t], turn[t], nextTurn)

LEMMA RisingSame ==
    ASSUME NEW before, NEW after, SameTurns(before, after), NEW seq, NEW run, NEW next,
           Rising(before, seq, run, next)
    PROVE  Rising(after, seq, run, next)
BY DEF SameTurns, Rising, Below, Awaited

LEMMA AwaitedPrefix ==
    ASSUME NEW k, NEW th, NEW seq \in Seq(Event), NEW ev \in Event, NEW n \in 0..Len(seq),
           Awaited(k, th, seq, n)
    PROVE  Awaited(k, th, Append(seq, ev), n)
<1> DEFINE s == Append(seq, ev)
<1>1. /\ Len(seq) \in Nat /\ DOMAIN seq = 1..Len(seq) /\ DOMAIN s = 1..(Len(seq) + 1)
      /\ \A i \in 1..Len(seq) : s[i] = seq[i]
  OBVIOUS
<1> HIDE DEF s
<1>2. \A i \in DOMAIN s : i <= n => /\ i \in DOMAIN seq /\ s[i] = seq[i]
                                    /\ \A h \in DOMAIN s : h < i => h \in DOMAIN seq /\ s[h] = seq[h]
  BY <1>1
<1>3. Awaited(k, th, s, n) BY <1>2 DEF Awaited
<1> QED BY <1>3 DEF s

LEMMA RisingShape ==
    ASSUME NEW th \in ThreadState, NEW seq \in Seq(Event), NEW next \in Nat, NEW next2 \in Nat,
           NEW run \in Turn \cup {Nil}, NEW run2, NEW seq2,
           Rising(th, seq, run, next), Shape(seq, run, next, seq2, run2, next2)
    PROVE  Rising(th, seq2, run2, next2)
<1>1. /\ th.LastAbortedTurnID \in Nat /\ th.LastStartedTurnID \in Nat /\ th.LastExternalTurnID \in Nat
      /\ run # Nil => run.id \in Nat
      /\ Len(seq) \in Nat /\ DOMAIN seq = 1..Len(seq)
      /\ \A i \in DOMAIN seq : seq[i] \in Event /\ seq[i].turn \in Nat
  <2>1. Len(seq) \in Nat /\ DOMAIN seq = 1..Len(seq) /\ \A i \in DOMAIN seq : seq[i] \in Event OBVIOUS
  <2>2. \A ev \in Event : ev.turn \in Nat BY DEF Event
  <2>3. run # Nil => run.id \in Nat BY DEF Turn
  <2> QED BY <2>1, <2>2, <2>3 DEF ThreadState
<1>2. CASE seq2 = seq /\ run2 \in {run, Nil} /\ next2 >= next
  <2>1. Below(th, seq, next2) /\ (run2 # Nil => run2.id < next2) BY <1>1, <1>2 DEF Rising, Below
  <2> QED BY <1>2, <2>1 DEF Rising
<1>3. ASSUME NEW ev \in Event, seq2 = Append(seq, ev), Adds(ev, run, next, run2, next2)
      PROVE  Rising(th, seq2, run2, next2)
  <2> DEFINE n == Len(seq)
             l == n + 1
  <2>1. /\ n \in Nat /\ l \in Nat /\ DOMAIN seq = 1..n /\ DOMAIN seq2 = 1..l /\ Len(seq2) = l
        /\ \A i \in 1..n : seq2[i] = seq[i]
        /\ seq2[l] = ev /\ ev.turn \in Nat
    BY <1>1, <1>3 DEF Event
  <2> HIDE DEF n
  <2>2. \A k, m : m \in 0..n /\ Awaited(k, th, seq, m) => Awaited(k, th, seq2, m)
    BY <1>3, AwaitedPrefix DEF n
  <2>3. ASSUME NEW j \in DOMAIN seq, seq[j].kind = "task_complete"
        PROVE  Awaited(seq2[j].turn, th, seq2, j - 1)
    <3>1. Awaited(seq[j].turn, th, seq, j - 1) BY <2>3 DEF Rising
    <3> QED BY <2>1, <2>2, <3>1
  <2>4. CASE Starts(ev, run, next, run2, next2)
    <3>1. ev.kind = "task_started" /\ ev.turn = next /\ next2 = next + 1 /\ run2.id = next
      BY <2>4 DEF Starts
    <3>2. Below(th, seq2, next2) BY <1>1, <2>1, <3>1 DEF Rising, Below
    <3>3. Awaited(next, th, seq2, l) BY <1>1, <2>1, <3>1 DEF Rising, Below, Awaited, TurnKinds
    <3> QED BY <2>1, <2>3, <3>1, <3>2, <3>3 DEF Rising
  <2>5. CASE Ends(ev, run, next, run2, next2)
    <3>1. /\ run2 = Nil /\ next2 = next /\ run # Nil
          /\ ev.kind \in {"task_complete", "turn_aborted"} /\ ev.turn \in {0, run.id}
          /\ ev.kind = "task_complete" => ev.turn = run.id
      BY <2>5 DEF Ends
    <3>2. run.id < next /\ Awaited(run.id, th, seq, n) BY <3>1 DEF Rising, n
    <3>3. Below(th, seq2, next2) BY <1>1, <2>1, <3>1, <3>2 DEF Rising, Below, TurnKinds
    <3>4. ev.kind = "task_complete" => Awaited(ev.turn, th, seq2, l - 1)
      BY <2>1, <2>2, <3>1, <3>2
    <3> QED BY <2>1, <2>3, <3>1, <3>3, <3>4 DEF Rising
  <2>6. CASE Notes(ev, run, next, run2, next2)
    <3>1. /\ run2 = run /\ next2 = next
          /\ ev.kind \notin {"task_started", "task_complete", "turn_aborted"}
      BY <2>6 DEF Notes
    <3>2. Below(th, seq2, next2) BY <1>1, <2>1, <3>1 DEF Rising, Below, TurnKinds
    <3>3. run # Nil => Awaited(run.id, th, seq2, l)
      <4> SUFFICES ASSUME run # Nil PROVE Awaited(run.id, th, seq2, l) OBVIOUS
      <4>1. Awaited(run.id, th, seq2, n) BY <2>1, <2>2 DEF Rising, n
      <4> QED BY <2>1, <3>1, <4>1 DEF Awaited
    <3> QED BY <2>1, <2>3, <3>1, <3>2, <3>3 DEF Rising
  <2> QED BY <1>3, <2>4, <2>5, <2>6 DEF Adds
<1> QED BY <1>2, <1>3 DEF Shape

\* A record is heard.
LEMMA TailIndices ==
    ASSUME NEW seq \in Seq(Event), seq # <<>>
    PROVE  /\ Len(seq) \in Nat /\ Len(seq) >= 1 /\ Len(Tail(seq)) = Len(seq) - 1
           /\ DOMAIN seq = 1..Len(seq) /\ DOMAIN Tail(seq) = 1..(Len(seq) - 1)
           /\ \A i \in DOMAIN Tail(seq) : i + 1 \in DOMAIN seq /\ Tail(seq)[i] = seq[i + 1]
           /\ seq[1] = Head(seq) /\ Head(seq) \in Event /\ Head(seq).turn \in Nat
           /\ \A i \in DOMAIN seq : seq[i] \in Event /\ seq[i].turn \in Nat
<1>1. /\ Len(seq) \in Nat /\ Len(seq) >= 1 /\ Len(Tail(seq)) = Len(seq) - 1
      /\ DOMAIN seq = 1..Len(seq) /\ DOMAIN Tail(seq) = 1..(Len(seq) - 1)
      /\ \A i \in DOMAIN Tail(seq) : Tail(seq)[i] = seq[i + 1]
      /\ seq[1] = Head(seq) /\ \A i \in DOMAIN seq : seq[i] \in Event
  OBVIOUS
<1>2. \A i \in 1..(Len(seq) - 1) : i + 1 \in 1..Len(seq) BY <1>1
<1>3. 1 \in DOMAIN seq BY <1>1
<1>4. \A ev \in Event : ev.turn \in Nat BY DEF Event
<1> QED BY <1>1, <1>2, <1>3, <1>4

LEMMA AwaitedTail ==
    ASSUME NEW before \in ThreadState, NEW after, NEW seq \in Seq(Event), seq # <<>>,
           Hears(before, after, Head(seq)), NEW k \in Nat, NEW n \in 1..Len(seq),
           Awaited(k, before, seq, n)
    PROVE  Awaited(k, after, Tail(seq), n - 1)
<1> DEFINE s == Tail(seq)
           ev == Head(seq)
<1>1. /\ Len(seq) \in Nat /\ Len(seq) >= 1 /\ DOMAIN seq = 1..Len(seq) /\ DOMAIN s = 1..(Len(seq) - 1)
      /\ \A i \in DOMAIN s : s[i] = seq[i + 1]
      /\ seq[1] = ev /\ ev \in Event /\ ev.turn \in Nat
  BY TailIndices
<1>2. \A i \in DOMAIN s : i + 1 \in DOMAIN seq /\ s[i] = seq[i + 1] /\ (i <= n - 1 => i + 1 <= n)
  BY <1>1
<1> HIDE DEF s, ev
<1>3. before.LastStartedTurnID \in Nat /\ before.LastAbortedTurnID \in Nat
      /\ before.LastExternalTurnID \in Nat
  BY DEF ThreadState
<1>4. /\ ev.kind = "task_started" => ev.turn <= k
      /\ ev.kind = "turn_aborted" => ev.turn < k /\ before.LastStartedTurnID < k
  BY <1>1 DEF Awaited
<1>5. \A i \in DOMAIN s : i <= n - 1 =>
          /\ s[i].kind = "task_started" => s[i].turn <= k
          /\ s[i].kind = "task_complete" => s[i].turn < k
          /\ s[i].kind = "turn_aborted" =>
                /\ s[i].turn < k /\ before.LastStartedTurnID < k
                /\ ev.kind = "task_started" => ev.turn < k
                /\ \A h \in DOMAIN s : h < i /\ s[h].kind = "task_started" => s[h].turn < k
  <2> SUFFICES ASSUME NEW i \in DOMAIN s, i <= n - 1
               PROVE  /\ s[i].kind = "task_started" => s[i].turn <= k
                      /\ s[i].kind = "task_complete" => s[i].turn < k
                      /\ s[i].kind = "turn_aborted" =>
                            /\ s[i].turn < k /\ before.LastStartedTurnID < k
                            /\ ev.kind = "task_started" => ev.turn < k
                            /\ \A h \in DOMAIN s : h < i /\ s[h].kind = "task_started" => s[h].turn < k
    OBVIOUS
  <2>1. i + 1 \in DOMAIN seq /\ i + 1 <= n /\ s[i] = seq[i + 1] BY <1>2
  <2>2. \A h \in DOMAIN s : h < i => h + 1 < i + 1 /\ h + 1 \in DOMAIN seq /\ s[h] = seq[h + 1]
    BY <1>1, <1>2
  <2>3. 1 \in DOMAIN seq /\ 1 < i + 1 /\ seq[1] = ev BY <1>1
  <2> QED BY <2>1, <2>2, <2>3 DEF Awaited
<1>6. Hears(before, after, ev) BY DEF ev
<1>7. /\ after.LastAbortedTurnID < k /\ after.LastStartedTurnID <= k /\ after.LastExternalTurnID <= k
      /\ (before.LastStartedTurnID < k /\ (ev.kind = "task_started" => ev.turn < k)
            => after.LastStartedTurnID < k)
  BY <1>1, <1>3, <1>4, <1>6 DEF Hears, SameTurns, Awaited
<1>8. Awaited(k, after, s, n - 1) BY <1>5, <1>7 DEF Awaited
<1> QED BY <1>8 DEF s

LEMMA RisingTail ==
    ASSUME NEW before \in ThreadState, NEW after, NEW seq \in Seq(Event), seq # <<>>,
           Hears(before, after, Head(seq)), NEW run \in Turn \cup {Nil}, NEW next \in Nat,
           Rising(before, seq, run, next)
    PROVE  Rising(after, Tail(seq), run, next)
<1> DEFINE s == Tail(seq)
           ev == Head(seq)
<1>1. /\ Len(seq) \in Nat /\ Len(seq) >= 1 /\ DOMAIN seq = 1..Len(seq) /\ DOMAIN s = 1..(Len(seq) - 1)
      /\ Len(s) = Len(seq) - 1
      /\ \A i \in DOMAIN s : i + 1 \in DOMAIN seq /\ s[i] = seq[i + 1]
      /\ seq[1] = ev /\ ev \in Event /\ ev.turn \in Nat
      /\ \A i \in DOMAIN seq : seq[i].turn \in Nat
      /\ run # Nil => run.id \in Nat
  <2>1. run # Nil => run.id \in Nat BY DEF Turn
  <2> QED BY <2>1, TailIndices
<1>2. \A k \in Nat, n \in 1..Len(seq) : Awaited(k, before, seq, n) => Awaited(k, after, s, n - 1)
  BY AwaitedTail
<1>3. Hears(before, after, ev) OBVIOUS
<1> HIDE DEF s, ev
<1>4. before.LastStartedTurnID \in Nat /\ before.LastAbortedTurnID \in Nat
      /\ before.LastExternalTurnID \in Nat
  BY DEF ThreadState
<1>5. Below(after, s, next)
  <2>1. ev.kind \in TurnKinds => ev.turn < next BY <1>1 DEF Rising, Below
  <2>2. /\ after.LastAbortedTurnID < next /\ after.LastStartedTurnID < next
        /\ after.LastExternalTurnID < next
    BY <1>1, <1>3, <1>4, <2>1 DEF Hears, SameTurns, Rising, Below, TurnKinds
  <2> QED BY <1>1, <2>2 DEF Rising, Below
<1>6. run # Nil => run.id < next /\ Awaited(run.id, after, s, Len(s))
  <2> SUFFICES ASSUME run # Nil PROVE run.id < next /\ Awaited(run.id, after, s, Len(s)) OBVIOUS
  <2>1. run.id < next /\ Awaited(run.id, before, seq, Len(seq)) BY DEF Rising
  <2>2. Len(seq) \in 1..Len(seq) /\ run.id \in Nat BY <1>1
  <2>3. Awaited(run.id, after, s, Len(seq) - 1) BY <1>2, <2>1, <2>2
  <2> QED BY <1>1, <2>1, <2>3
<1>7. ASSUME NEW j \in DOMAIN s, s[j].kind = "task_complete"
      PROVE  Awaited(s[j].turn, after, s, j - 1)
  <2> DEFINE h == j + 1
             k == seq[h].turn
  <2>1. h \in DOMAIN seq /\ s[j] = seq[h] /\ h - 1 = j /\ j \in 1..Len(seq) /\ k \in Nat BY <1>1, <1>7
  <2> HIDE DEF h, k
  <2>2. Awaited(k, before, seq, h - 1) BY <1>7, <2>1 DEF Rising, k
  <2>3. Awaited(k, before, seq, j) BY <2>1, <2>2
  <2> QED BY <1>2, <2>1, <2>3 DEF k
<1>8. Rising(after, s, run, next) BY <1>5, <1>6, <1>7 DEF Rising
<1> QED BY <1>8 DEF s

\* Of a thread that handles no record.
LEMMA ShapedRises ==
    ASSUME Inv, nextTurn' \in Nat, NEW t \in Threads, NEW th \in ThreadState, NEW after,
           SameTurns(th, after), NEW queued, NEW queued2, queued[t] \in Seq(Event),
           Rising(th, queued[t] \o rollout[t], turn[t], nextTurn),
           ShapedBehind(queued, queued2, t)
    PROVE  Rising(after, queued2[t] \o rollout'[t], turn'[t], nextTurn')
<1> DEFINE s == queued[t] \o rollout[t]
           s2 == queued2[t] \o rollout'[t]
           run == turn[t]
           run2 == turn'[t]
<1>1. s \in Seq(Event) BY SeqFacts, QueueFacts
<1>2. run \in Turn \cup {Nil} /\ nextTurn \in Nat BY DEF Inv, CodexInv, CodexTypeOK
<1>3. Shape(s, run, nextTurn, s2, run2, nextTurn') BY DEF ShapedBehind
<1>4. Rising(th, s, run, nextTurn) OBVIOUS
<1> HIDE DEF s, s2, run, run2
<1>5. Rising(th, s2, run2, nextTurn') BY <1>1, <1>2, <1>3, <1>4, RisingShape
<1>6. Rising(after, s2, run2, nextTurn') BY <1>5, RisingSame
<1> QED BY <1>6 DEF s2, run2

LEMMA RestartRises ==
    ASSUME Inv, RisingInv, Crash, NEW t \in Threads
    PROVE  Rising(threads'[t], batch'[t] \o rollout'[t], turn'[t], nextTurn')
<1> DEFINE th == disk[t]
           after == reconcileStartupState(loadThread(th), now)
           s == unsaved[t] \o rollout[t]
           run == turn[t]
<1>1. Sound(th) BY SoundMember DEF Inv, FileInv
<1>2. Rising(th, s, run, nextTurn) BY DEF RisingInv, Crash
<1>3. /\ threads'[t] = after /\ batch' = emptyQueues /\ rollout'[t] = s
      /\ UNCHANGED <<turn, nextTurn>>
  BY DEF Crash
<1>4. s \in Seq(Event) /\ batch'[t] = <<>> BY <1>3, SeqFacts, QueueFacts
<1>5. batch'[t] \o rollout'[t] = s BY <1>3, <1>4, QueueFacts
<1>6. now \in Nat BY InvFacts
<1> HIDE DEF th, s
<1>7. SameTurns(th, after) BY <1>1, <1>6, RestartCarries DEF Carries, Keeps
<1> HIDE DEF after, run
<1>8. Rising(after, s, run, nextTurn) BY <1>2, <1>7, RisingSame
<1> QED BY <1>3, <1>5, <1>8 DEF run

\* The record that a thread handles, and what it is after it.
HandledBy(t, ev, after) ==
    /\ batch[t] # <<>> /\ ev = Head(batch[t]) /\ ev \in Event
    /\ batch'[t] = Tail(batch[t]) /\ UNCHANGED <<rollout, turn, nextTurn>>
    /\ threads'[t] = after /\ after = handleEvent(threads[t], ev, tickNow, config)

LEMMA HandlesHead ==
    ASSUME Inv, NEW t \in Threads, HandleEvent(t)
    PROVE  /\ \E ev, after : HandledBy(t, ev, after)
           /\ \A q \in Threads : q # t => threads'[q] = threads[q]
<1> DEFINE ev == Head(batch[t])
           after == handleEvent(threads[t], ev, tickNow, config)
<1>1. /\ batch[t] # <<>> /\ batch' = [batch EXCEPT ![t] = Tail(@)]
      /\ threads' = [threads EXCEPT ![t] = after]
      /\ UNCHANGED <<rollout, turn, nextTurn>>
  BY DEF HandleEvent, codexVars
<1>2. ev \in Event BY <1>1, SeqFacts, HeadTailProperties
<1>3. DOMAIN batch = Threads /\ DOMAIN threads = Threads BY SeqFacts, InvFacts
<1> HIDE DEF ev, after
<1>4. HandledBy(t, ev, after) BY <1>1, <1>2, <1>3 DEF HandledBy, ev, after
<1> QED BY <1>1, <1>3, <1>4

LEMMA MemoryRises ==
    ASSUME Inv, Inv', NothingHeld, Queued, RisingInv, [Next]_vars, NEW t \in Threads
    PROVE  Rising(threads'[t], batch'[t] \o rollout'[t], turn'[t], nextTurn')
<1> DEFINE s == batch[t] \o rollout[t]
           s2 == batch'[t] \o rollout'[t]
           th == threads[t]
           run == turn[t]
<1>1. Rising(th, s, run, nextTurn) BY DEF RisingInv
<1>2. s \in Seq(Event) BY SeqFacts, QueueFacts
<1>3. Sound(th) /\ th \in ThreadState /\ config \in Config /\ tickNow \in Nat BY InvFacts
<1>4. run \in Turn \cup {Nil} /\ nextTurn \in Nat /\ nextTurn' \in Nat
  BY DEF Inv, CodexInv, CodexTypeOK
<1>5. CASE Crash BY <1>5, RestartRises
<1>6. CASE HandleEvent(t)
  <2>1. PICK ev, after : HandledBy(t, ev, after) BY <1>6, HandlesHead
  <2>2. s # <<>> /\ Head(s) = ev /\ s2 = Tail(s)
    <3>1. batch[t] # <<>> /\ ev = Head(batch[t]) /\ batch'[t] = Tail(batch[t]) /\ rollout' = rollout
      BY <2>1 DEF HandledBy
    <3> DEFINE q == batch[t]
               r == rollout[t]
    <3>2. q \in Seq(Event) /\ r \in Seq(Event) BY SeqFacts
    <3>3. s = q \o r /\ s2 = Tail(q) \o r /\ q # <<>> /\ ev = Head(q) BY <3>1
    <3> HIDE DEF q, r, s, s2
    <3>4. q \o r # <<>> /\ Head(q \o r) = Head(q) /\ Tail(q \o r) = Tail(q) \o r
      BY <3>2, <3>3, QueueFacts
    <3> QED BY <3>3, <3>4
  <2>3. Hears(th, after, ev) BY <1>3, <2>1, EventHears DEF HandledBy
  <2> HIDE DEF s, s2, th, run
  <2>4. Rising(after, Tail(s), run, nextTurn) BY <1>1, <1>2, <1>3, <1>4, <2>2, <2>3, RisingTail
  <2>5. threads'[t] = after /\ turn'[t] = run /\ nextTurn' = nextTurn
    BY <2>1 DEF HandledBy, run
  <2> QED BY <2>2, <2>4, <2>5 DEF s2
<1>7. CASE ~Crash /\ ~HandleEvent(t)
  <2>1. ShapedBehind(batch, batch', t) BY <1>7, BatchShaped
  <2>2. SameTurns(th, threads'[t]) BY <1>7, NextLeaves DEF Leaves, Keeps
  <2> QED BY <1>1, <1>3, <1>4, <2>1, <2>2, SeqFacts, ShapedRises
<1> QED BY <1>5, <1>6, <1>7

LEMMA NextRising ==
    ASSUME Inv, Inv', NothingHeld, Queued, RisingInv, [Next]_vars
    PROVE  RisingInv'
<1> SUFFICES ASSUME NEW t \in Threads
             PROVE  /\ Rising(threads'[t], batch'[t] \o rollout'[t], turn'[t], nextTurn')
                    /\ "crash" \in Features
                          => Rising(disk'[t], unsaved'[t] \o rollout'[t], turn'[t], nextTurn')
  BY DEF RisingInv
<1>1. Rising(threads'[t], batch'[t] \o rollout'[t], turn'[t], nextTurn') BY MemoryRises
<1>2. ASSUME "crash" \in Features
      PROVE  Rising(disk'[t], unsaved'[t] \o rollout'[t], turn'[t], nextTurn')
  <2>1. CASE ShapedBehind(unsaved, unsaved', t) /\ UNCHANGED disk
    <3>1. Rising(disk[t], unsaved[t] \o rollout[t], turn[t], nextTurn) BY <1>2 DEF RisingInv
    <3>2. nextTurn' \in Nat /\ disk[t] \in ThreadState /\ SameTurns(disk[t], disk'[t])
      BY <2>1, InvFacts DEF Inv, CodexInv, CodexTypeOK, SameTurns
    <3> QED BY <2>1, <3>1, <3>2, SeqFacts, ShapedRises
  <2>2. CASE Saved /\ UNCHANGED batch
    <3>1. disk' = threads' /\ unsaved' = batch' BY <2>2 DEF Saved, Queued
    <3> QED BY <1>1, <3>1
  <2> QED BY <1>2, <2>1, <2>2, UnsavedShaped
<1> QED BY <1>1, <1>2

LEMMA InitRising == Init => RisingInv
<1> SUFFICES ASSUME Init PROVE RisingInv OBVIOUS
<1>1. ASSUME NEW t \in Threads
      PROVE  Rising(NewThread, emptyQueues[t] \o emptyQueues[t], Nil, 1)
  <2> DEFINE s == emptyQueues[t] \o emptyQueues[t]
  <2>1. emptyQueues[t] = <<>> /\ <<>> \in Seq(Event) BY DEF emptyQueues
  <2>2. s = <<>> BY <2>1, QueueFacts
  <2>3. DOMAIN s = {} BY <2>2
  <2> HIDE DEF s
  <2>4. /\ NewThread.LastAbortedTurnID = 0 /\ NewThread.LastStartedTurnID = 0
        /\ NewThread.LastExternalTurnID = 0
    BY DEF NewThread
  <2> QED BY <2>3, <2>4 DEF Rising, Below, s
<1>2. /\ threads = [t \in Threads |-> NewThread] /\ disk = threads
      /\ batch = emptyQueues /\ unsaved = emptyQueues /\ rollout = emptyQueues
      /\ turn = [t \in Threads |-> Nil] /\ nextTurn = 1
  BY DEF Init, CodexInit, emptyQueues
<1> QED BY <1>1, <1>2 DEF RisingInv

\* The records of a thread that are still to be handled, those that a crash would hand
\* out again included, tell of its turns in their order: the end of a turn that the
\* watchdog has not heard of follows everything it knows (scanner.go, daemon.go).
THEOREM RisingHolds == Spec => []RisingInv
<1>1. Init => RisingInv BY InitRising
<1>2. Inv /\ Inv' /\ NothingHeld /\ JobHistory /\ RisingInv /\ [Next]_vars => RisingInv'
  BY NextRising DEF JobHistory
<1> QED BY InvHolds, NothingHeldHolds, JobHistoryHolds, <1>1, <1>2, PTL DEF Spec

----------------------------------------------------------------------------
(* The failure that ended the last turn of a thread.                       *)

Has(seq, rec) == \E h \in DOMAIN seq : seq[h] = rec

\* The thread's retry is about the failure, or its record is still to come.
Covered(th, seq, rec) == Retried(th) \/ Has(seq, rec)

\* Only records that belong to no turn come after it.
LastIs(seq, rec) ==
    \A j \in DOMAIN seq : Aside(seq[j]) \/ \E h \in DOMAIN seq : h >= j /\ seq[h] = rec

LEMMA HasBehind ==
    ASSUME NEW q \in Seq(Event), NEW r \in Seq(Event), NEW rec
    PROVE  Has(q \o r, rec) <=> holdsRecord(q, rec) \/ holdsRecord(r, rec)
<1> DEFINE s == q \o r
           n == Len(q)
           m == Len(r)
<1>1. /\ n \in Nat /\ m \in Nat /\ DOMAIN s = 1..(n + m)
      /\ \A i \in 1..n : s[i] = q[i]
      /\ \A i \in 1..m : s[n + i] = r[i]
  OBVIOUS
<1> HIDE DEF s, n, m
<1>2. \A i \in 1..n : i \in 1..(n + m) BY <1>1
<1>3. \A i \in 1..m : n + i \in 1..(n + m) BY <1>1
<1>4. \A h \in 1..(n + m) : h \in 1..n \/ (h - n \in 1..m /\ n + (h - n) = h) BY <1>1
<1>5. (\E h \in 1..(n + m) : s[h] = rec)
        <=> (\E i \in 1..n : q[i] = rec) \/ (\E i \in 1..m : r[i] = rec)
  <2>1. ASSUME NEW h \in 1..(n + m), s[h] = rec
        PROVE  (\E i \in 1..n : q[i] = rec) \/ (\E i \in 1..m : r[i] = rec)
    <3>1. CASE h \in 1..n BY <1>1, <2>1, <3>1
    <3>2. CASE h - n \in 1..m /\ n + (h - n) = h
      <4>1. r[h - n] = rec BY <1>1, <2>1, <3>2
      <4> QED BY <3>2, <4>1
    <3> QED BY <1>4, <3>1, <3>2
  <2>2. ASSUME NEW i \in 1..n, q[i] = rec PROVE \E h \in 1..(n + m) : s[h] = rec
    BY <1>1, <1>2, <2>2
  <2>3. ASSUME NEW i \in 1..m, r[i] = rec PROVE \E h \in 1..(n + m) : s[h] = rec
    <3>1. s[n + i] = rec BY <1>1, <2>3
    <3> QED BY <1>3, <3>1
  <2> QED BY <2>1, <2>2, <2>3
<1> QED BY <1>1, <1>5 DEF Has, holdsRecord, s, n, m

\* The record of the failure is written.
LEMMA LastAdded ==
    ASSUME NEW q \in Seq(Event), NEW r \in Seq(Event), NEW ev \in Event
    PROVE  LastIs(q \o Append(r, ev), ev) /\ Has(q \o Append(r, ev), ev)
<1> DEFINE s == q \o r
           s2 == Append(s, ev)
           l == Len(s) + 1
<1>1. s \in Seq(Event) /\ q \o Append(r, ev) = s2 BY QueueFacts
<1> HIDE DEF s
<1>2. DOMAIN s2 = 1..l /\ l \in Nat /\ l >= 1 /\ s2[l] = ev BY <1>1
<1> HIDE DEF s2, l
<1>3. l \in DOMAIN s2 /\ \A j \in DOMAIN s2 : l >= j BY <1>2
<1>4. LastIs(s2, ev) /\ Has(s2, ev) BY <1>2, <1>3 DEF LastIs, Has
<1> QED BY <1>1, <1>4

\* No turn runs: what is written is beside the failure.
LEMMA LastStays ==
    ASSUME NEW seq \in Seq(Event), NEW next, NEW seq2, NEW next2, NEW rec \in Event,
           rec.kind = "task_complete", Shape(seq, Nil, next, seq2, Nil, next2), LastIs(seq, rec)
    PROVE  LastIs(seq2, rec) /\ (Has(seq2, rec) <=> Has(seq, rec))
<1>1. CASE seq2 = seq BY <1>1
<1>2. CASE seq2 # seq
  <2>1. PICK ev \in Event : seq2 = Append(seq, ev) /\ Aside(ev)
    BY <1>2 DEF Shape, Adds, Starts, Ends, Notes
  <2> DEFINE n == Len(seq)
  <2>2. /\ n \in Nat /\ DOMAIN seq = 1..n /\ DOMAIN seq2 = 1..(n + 1)
        /\ \A i \in 1..n : seq2[i] = seq[i]
        /\ seq2[n + 1] = ev
    BY <2>1
  <2>3. ev # rec BY <2>1 DEF Aside
  <2> HIDE DEF n
  <2>4. \A i \in 1..(n + 1) : i \in 1..n \/ i = n + 1 BY <2>2
  <2>5. \A i \in 1..n : i \in 1..(n + 1) BY <2>2
  <2>6. LastIs(seq2, rec)
    <3> SUFFICES ASSUME NEW j \in DOMAIN seq2
                 PROVE  Aside(seq2[j]) \/ \E h \in DOMAIN seq2 : h >= j /\ seq2[h] = rec
      BY DEF LastIs
    <3>1. CASE j = n + 1 BY <2>1, <2>2, <3>1
    <3>2. CASE j \in 1..n
      <4>1. Aside(seq[j]) \/ \E h \in 1..n : h >= j /\ seq[h] = rec BY <2>2, <3>2 DEF LastIs
      <4> QED BY <2>2, <2>5, <3>2, <4>1
    <3> QED BY <2>2, <2>4, <3>1, <3>2
  <2>7. Has(seq2, rec) <=> Has(seq, rec) BY <2>2, <2>3, <2>4, <2>5 DEF Has
  <2> QED BY <2>6, <2>7
<1> QED BY <1>1, <1>2

\* The next record is handled.
LEMMA LastTail ==
    ASSUME NEW seq \in Seq(Event), seq # <<>>, NEW rec, LastIs(seq, rec)
    PROVE  /\ LastIs(Tail(seq), rec)
           /\ Has(Tail(seq), rec) => Has(seq, rec)
           /\ Has(seq, rec) => Has(Tail(seq), rec) \/ Head(seq) = rec
           /\ ~Has(seq, rec) => Aside(Head(seq))
<1> DEFINE s == Tail(seq)
           ev == Head(seq)
           n == Len(seq)
<1>1. /\ n \in Nat /\ n >= 1 /\ DOMAIN seq = 1..n /\ DOMAIN s = 1..(n - 1)
      /\ \A i \in DOMAIN s : i + 1 \in DOMAIN seq /\ s[i] = seq[i + 1]
      /\ seq[1] = ev
  BY TailIndices
<1> HIDE DEF s, ev, n
<1>2. \A i \in 1..n : i = 1 \/ (i - 1 \in 1..(n - 1) /\ (i - 1) + 1 = i) BY <1>1
<1>3. \A i \in 1..n : i = 1 \/ (i - 1 \in DOMAIN s /\ s[i - 1] = seq[i]) BY <1>1, <1>2
<1>4. LastIs(s, rec)
  <2> SUFFICES ASSUME NEW j \in DOMAIN s
               PROVE  Aside(s[j]) \/ \E h \in DOMAIN s : h >= j /\ s[h] = rec
    BY DEF LastIs
  <2>1. j + 1 \in DOMAIN seq /\ s[j] = seq[j + 1] BY <1>1
  <2>2. Aside(seq[j + 1]) \/ \E h \in DOMAIN seq : h >= j + 1 /\ seq[h] = rec
    BY <2>1 DEF LastIs
  <2>3. ASSUME NEW h \in DOMAIN seq, h >= j + 1, seq[h] = rec
        PROVE  \E i \in DOMAIN s : i >= j /\ s[i] = rec
    <3>1. h # 1 /\ h - 1 >= j BY <1>1, <2>3
    <3> QED BY <1>1, <1>3, <2>3, <3>1
  <2> QED BY <2>1, <2>2, <2>3
<1>5. Has(s, rec) => Has(seq, rec) BY <1>1 DEF Has
<1>6. Has(seq, rec) => Has(s, rec) \/ ev = rec
  <2> SUFFICES ASSUME NEW h \in DOMAIN seq, seq[h] = rec PROVE Has(s, rec) \/ ev = rec
    BY DEF Has
  <2> QED BY <1>1, <1>3 DEF Has
<1>7. ~Has(seq, rec) => Aside(ev)
  <2>1. 1 \in DOMAIN seq BY <1>1
  <2> QED BY <1>1, <2>1 DEF LastIs, Has
<1> QED BY <1>4, <1>5, <1>6, <1>7 DEF s, ev

\* A retry is about a failure that the thread knew.
LEMMA KeysRetried ==
    ASSUME NEW before, NEW after \in ThreadState, KeysKept(before, after), Retried(after)
    PROVE  Retried(before)
<1>1. /\ after.Pending # Nil => after.Pending.fault.EventKey \in Nat
      /\ after.Awaiting # Nil => after.Awaiting.fault.EventKey \in Nat
      /\ after.Stopped # Nil => after.Stopped.fault.EventKey \in Nat
  BY DEF ThreadState, PendingRetry, AwaitingRetry, StoppedRetry, Fault
<1>2. \E k \in Nat : HasKey(after, k) BY <1>1 DEF Retried, HasKey
<1> QED BY <1>2 DEF KeysKept, HasKey, Retried

\* A record that belongs to no turn queues no retry.
LEMMA AsideQueuesNothing ==
    ASSUME NEW th, Sound(th), NEW ev \in Event, Aside(ev), NEW time \in Nat, NEW cfg \in Config,
           handleEvent(th, ev, time, cfg) \in ThreadState,
           Retried(handleEvent(th, ev, time, cfg))
    PROVE  Retried(th)
<1> DEFINE after == handleEvent(th, ev, time, cfg)
<1>1. Observes(th, after, ev, time) BY EventHandled
<1> HIDE DEF after
<1>2. KeysKept(th, after) BY <1>1 DEF Observes, Aside, Updates, Handles
<1> QED BY <1>2, KeysRetried DEF after

\* Of a thread whose last turn ended with the failure rec: what is in memory and what
\* would be left after a crash.
Ended(th, seq, saved, unread, rec, gone) ==
    /\ LastIs(seq, rec) /\ (Covered(th, seq, rec) \/ gone)
    /\ "crash" \in Features =>
          LastIs(unread, rec) /\ (Covered(th, seq, rec) => Covered(saved, unread, rec))

EndedInv ==
    \A t \in Threads : turnFailed(t) =>
       /\ turn[t] = Nil /\ lastEnd[t] \in Event /\ lastEnd[t].kind = "task_complete"
       /\ Ended(threads[t], batch[t] \o rollout[t], disk[t], unsaved[t] \o rollout[t],
                lastEnd[t], letGo[t])

\* A turn ends with a failure.
LEMMA EndWritten ==
    ASSUME Inv, Inv', [Next]_vars, NEW t \in Threads, turnEnded(t), NEW rec, rec = endRecord(t),
           rec # Nil, rec.class \in FailureClasses, NEW gone
    PROVE  /\ turn'[t] = Nil /\ rec \in Event /\ rec.kind = "task_complete"
           /\ Ended(threads'[t], batch'[t] \o rollout'[t], disk'[t], unsaved'[t] \o rollout'[t],
                    rec, gone)
<1>1. turn[t] # Nil /\ turn'[t] = Nil BY DEF turnEnded
<1>2. ~TickScan /\ ~Crash BY <1>1 DEF TickScan, Crash
<1>3. Shape(rollout[t], turn[t], nextTurn, rollout'[t], turn'[t], nextTurn')
  BY <1>2, NextShaped DEF Shaped
<1>4. rollout'[t] # rollout[t] BY DEF endRecord
<1>5. PICK ev \in Event : /\ rollout'[t] = Append(rollout[t], ev)
                          /\ Adds(ev, turn[t], nextTurn, turn'[t], nextTurn')
  BY <1>3, <1>4 DEF Shape
<1>6. rollout[t] \in Seq(Event) /\ batch'[t] \in Seq(Event) /\ unsaved'[t] \in Seq(Event)
  <2>1. rollout[t] \in Seq(Event) BY SeqFacts
  <2>2. batch' \in [Threads -> Seq(Event)] /\ unsaved' \in [Threads -> Seq(Event)]
    BY DEF Inv, TickInv, FileInv
  <2> QED BY <2>1, <2>2
<1>7. rec = ev BY <1>5, <1>6 DEF endRecord
<1>8. Ends(ev, turn[t], nextTurn, turn'[t], nextTurn')
  BY <1>1, <1>5 DEF Adds, Starts, Notes
<1>9. rec.kind = "task_complete"
  <2>1. "none" \notin FailureClasses BY DEF FailureClasses
  <2> QED BY <1>7, <1>8, <2>1 DEF Ends
<1>10. /\ LastIs(batch'[t] \o rollout'[t], rec) /\ Has(batch'[t] \o rollout'[t], rec)
       /\ LastIs(unsaved'[t] \o rollout'[t], rec) /\ Has(unsaved'[t] \o rollout'[t], rec)
  BY <1>5, <1>6, <1>7, LastAdded
<1> QED BY <1>1, <1>7, <1>9, <1>10 DEF Ended, Covered

\* The handler of the next record.
LEMMA FailureHandled ==
    ASSUME Inv, Inv', RisingInv, NEW t \in Threads, HandleEvent(t),
           NEW ev, NEW after, HandledBy(t, ev, after),
           NEW rec \in Event, rec.kind = "task_complete", rec.class \in FailureClasses,
           LastIs(batch[t] \o rollout[t], rec)
    PROVE  /\ LastIs(batch'[t] \o rollout'[t], rec)
           /\ Covered(threads[t], batch[t] \o rollout[t], rec)
                 => Covered(threads'[t], batch'[t] \o rollout'[t], rec) \/ dismissed(t)
           /\ Covered(threads'[t], batch'[t] \o rollout'[t], rec)
                 => Covered(threads[t], batch[t] \o rollout[t], rec)
<1> DEFINE s == batch[t] \o rollout[t]
           s2 == batch'[t] \o rollout'[t]
           th == threads[t]
           run == turn[t]
<1>1. HandledBy(t, ev, after) OBVIOUS
<1>2. s # <<>> /\ Head(s) = ev /\ s2 = Tail(s)
  <2>1. batch[t] # <<>> /\ ev = Head(batch[t]) /\ batch'[t] = Tail(batch[t]) /\ rollout' = rollout
    BY <1>1 DEF HandledBy
  <2> DEFINE q == batch[t]
             r == rollout[t]
  <2>2. q \in Seq(Event) /\ r \in Seq(Event) BY SeqFacts
  <2>3. s = q \o r /\ s2 = Tail(q) \o r /\ q # <<>> /\ ev = Head(q) BY <2>1
  <2> HIDE DEF q, r, s, s2
  <2>4. q \o r # <<>> /\ Head(q \o r) = Head(q) /\ Tail(q \o r) = Tail(q) \o r
    BY <2>2, <2>3, QueueFacts
  <2> QED BY <2>3, <2>4
<1>3. s \in Seq(Event) BY SeqFacts, QueueFacts
<1>4. Sound(th) /\ th \in ThreadState /\ config \in Config /\ tickNow \in Nat BY InvFacts
<1>5. threads'[t] = after /\ after = handleEvent(th, ev, tickNow, config) /\ ev \in Event
  BY <1>1 DEF HandledBy
<1>6. after \in ThreadState BY <1>5 DEF Inv, MemoryInv, SoundThread
<1>7. /\ ev.kind = "task_complete" /\ ev.class \in FailureClasses /\ ev.turn # th.LastAbortedTurnID
            => Retried(after) \/ heldFromDispatch(after)
      /\ Aside(ev) => (Retried(th) => Retried(after) \/ LetGoBy(th, after))
  BY <1>4, <1>5, EventHears
<1>8. Aside(ev) /\ Retried(after) => Retried(th)
  BY <1>4, <1>5, <1>6, AsideQueuesNothing
<1>9. ev = rec => ev.turn # th.LastAbortedTurnID
  <2>1. Rising(th, s, run, nextTurn) BY DEF RisingInv
  <2> HIDE DEF s, s2, run
  <2>2. 1 \in DOMAIN s /\ s[1] = ev BY <1>2, <1>3, TailIndices
  <2>3. ev = rec => Awaited(s[1].turn, th, s, 1 - 1) BY <2>1, <2>2 DEF Rising
  <2>4. th.LastAbortedTurnID \in Nat /\ ev.turn \in Nat BY <1>4, <1>5 DEF ThreadState, Event
  <2> QED BY <2>2, <2>3, <2>4 DEF Awaited
<1>10. LetGoBy(th, after) => dismissed(t) BY <1>5 DEF LetGoBy, dismissed
<1>11. LastIs(s, rec) OBVIOUS
<1> HIDE DEF s, s2, th
<1>12. /\ LastIs(s2, rec)
       /\ Has(s2, rec) => Has(s, rec)
       /\ Has(s, rec) => Has(s2, rec) \/ ev = rec
       /\ ~Has(s, rec) => Aside(ev)
  BY <1>2, <1>3, <1>11, LastTail
<1>13. Covered(th, s, rec) => Covered(after, s2, rec) \/ dismissed(t)
  BY <1>7, <1>9, <1>10, <1>12 DEF Covered, LetGoBy
<1>14. Covered(after, s2, rec) => Covered(th, s, rec) BY <1>8, <1>12 DEF Covered
<1>15. threads'[t] = after BY <1>5
<1>16. /\ Covered(th, s, rec) => Covered(threads'[t], s2, rec) \/ dismissed(t)
       /\ Covered(threads'[t], s2, rec) => Covered(th, s, rec)
  BY <1>13, <1>14, <1>15
<1>17. LastIs(s2, rec) BY <1>12
<1> QED BY <1>16, <1>17 DEF s, s2, th

\* Every other step but a restart.
LEMMA EndKept ==
    ASSUME Inv, NothingHeld, Queued, [Next]_vars, ~Crash, NEW t \in Threads, ~HandleEvent(t),
           turn[t] = Nil, turn'[t] = Nil,
           NEW rec \in Event, rec.kind = "task_complete", LastIs(batch[t] \o rollout[t], rec)
    PROVE  /\ LastIs(batch'[t] \o rollout'[t], rec)
           /\ Covered(threads[t], batch[t] \o rollout[t], rec)
                 => Covered(threads'[t], batch'[t] \o rollout'[t], rec) \/ dismissed(t)
           /\ Covered(threads'[t], batch'[t] \o rollout'[t], rec)
                 => Covered(threads[t], batch[t] \o rollout[t], rec)
<1> DEFINE s == batch[t] \o rollout[t]
           s2 == batch'[t] \o rollout'[t]
<1>1. Shape(s, Nil, nextTurn, s2, Nil, nextTurn') BY BatchShaped DEF ShapedBehind
<1>2. s \in Seq(Event) /\ LastIs(s, rec) BY SeqFacts, QueueFacts
<1> HIDE DEF s, s2
<1>3. LastIs(s2, rec) /\ (Has(s2, rec) <=> Has(s, rec)) BY <1>1, <1>2, LastStays
<1>4. /\ Retried(threads[t]) => Retried(threads'[t]) \/ Dropped(t)
      /\ Retried(threads'[t]) => Retried(threads[t])
  BY NextLeaves DEF Leaves
<1>5. Dropped(t) => dismissed(t) BY DEF Dropped, dismissed
<1> QED BY <1>3, <1>4, <1>5 DEF Covered, s, s2

\* What would be left after a crash.
LEMMA EndSaved ==
    ASSUME Inv, Queued, [Next]_vars, "crash" \in Features, NEW t \in Threads,
           turn[t] = Nil, turn'[t] = Nil,
           NEW rec \in Event, rec.kind = "task_complete",
           LastIs(unsaved[t] \o rollout[t], rec),
           LastIs(batch'[t] \o rollout'[t], rec),
           Covered(threads'[t], batch'[t] \o rollout'[t], rec)
              => Covered(disk[t], unsaved[t] \o rollout[t], rec)
    PROVE  /\ LastIs(unsaved'[t] \o rollout'[t], rec)
           /\ Covered(threads'[t], batch'[t] \o rollout'[t], rec)
                 => Covered(disk'[t], unsaved'[t] \o rollout'[t], rec)
<1>1. CASE ShapedBehind(unsaved, unsaved', t) /\ UNCHANGED disk
  <2> DEFINE s == unsaved[t] \o rollout[t]
             s2 == unsaved'[t] \o rollout'[t]
  <2>1. Shape(s, Nil, nextTurn, s2, Nil, nextTurn') BY <1>1 DEF ShapedBehind
  <2>2. s \in Seq(Event) /\ LastIs(s, rec) BY SeqFacts, QueueFacts
  <2> HIDE DEF s, s2
  <2>3. LastIs(s2, rec) /\ (Has(s2, rec) <=> Has(s, rec)) BY <2>1, <2>2, LastStays
  <2> QED BY <1>1, <2>3 DEF Covered, s, s2
<1>2. CASE Saved /\ UNCHANGED batch
  <2>1. disk' = threads' /\ unsaved' = batch' BY <1>2 DEF Saved, Queued
  <2> QED BY <2>1
<1> QED BY <1>1, <1>2, UnsavedShaped

LEMMA EndRestarted ==
    ASSUME Inv, Crash, NEW t \in Threads, NEW rec,
           LastIs(unsaved[t] \o rollout[t], rec)
    PROVE  /\ LastIs(batch'[t] \o rollout'[t], rec) /\ LastIs(unsaved'[t] \o rollout'[t], rec)
           /\ Covered(threads'[t], batch'[t] \o rollout'[t], rec)
                 <=> Covered(disk[t], unsaved[t] \o rollout[t], rec)
           /\ Covered(disk'[t], unsaved'[t] \o rollout'[t], rec)
                 <=> Covered(disk[t], unsaved[t] \o rollout[t], rec)
<1> DEFINE th == disk[t]
           after == reconcileStartupState(loadThread(th), now)
           s == unsaved[t] \o rollout[t]
<1>1. Sound(th) /\ now \in Nat BY SoundMember, InvFacts DEF Inv, FileInv
<1>2. /\ threads'[t] = after /\ batch' = emptyQueues /\ rollout'[t] = s
      /\ unsaved' = emptyQueues /\ disk' = disk
  BY DEF Crash
<1>3. s \in Seq(Event) /\ batch'[t] = <<>> /\ unsaved'[t] = <<>> BY <1>2, SeqFacts, QueueFacts
<1>4. batch'[t] \o rollout'[t] = s /\ unsaved'[t] \o rollout'[t] = s BY <1>2, <1>3, QueueFacts
<1>5. LastIs(s, rec) OBVIOUS
<1> HIDE DEF s
<1>6. Retried(after) <=> Retried(th)
  <2> HIDE DEF th
  <2> QED BY <1>1, RestartCarries DEF Carries
<1> HIDE DEF after
<1>7. /\ Covered(threads'[t], batch'[t] \o rollout'[t], rec) <=> Covered(th, s, rec)
      /\ Covered(disk'[t], unsaved'[t] \o rollout'[t], rec) <=> Covered(th, s, rec)
  BY <1>2, <1>4, <1>6 DEF Covered
<1> QED BY <1>4, <1>5, <1>7 DEF s, th

\* What a failure is accounted for by.
CoveredOnes ==
    \A t \in Threads : turnFailed(t) =>
       (accountedFor(t) <=> Covered(threads[t], batch[t] \o rollout[t], lastEnd[t]))

LEMMA AccountedCovered == Inv => CoveredOnes
<1> SUFFICES ASSUME Inv, NEW t \in Threads, turnFailed(t)
             PROVE  accountedFor(t) <=> Covered(threads[t], batch[t] \o rollout[t], lastEnd[t])
  BY DEF CoveredOnes
<1> DEFINE q == batch[t]
           r == rollout[t]
           rec == lastEnd[t]
<1>1. q \in Seq(Event) /\ r \in Seq(Event) BY SeqFacts
<1> HIDE DEF q, r, rec
<1>2. Has(q \o r, rec) <=> holdsRecord(q, rec) \/ holdsRecord(r, rec) BY <1>1, HasBehind
<1>3. Retried(threads[t]) <=> liveRetry(threads[t]) # Nil \/ threads[t].Stopped # Nil
  BY DEF Retried, liveRetry
<1> QED BY <1>2, <1>3 DEF accountedFor, Covered, q, r, rec

\* The next failure of a thread is accounted for as this one is, or was let go.
LEMMA EndCarried ==
    ASSUME NEW th, NEW seq, NEW saved, NEW unread, NEW th2, NEW seq2, NEW saved2, NEW unread2,
           NEW rec, NEW gone, NEW gone2, NEW gives,
           Ended(th, seq, saved, unread, rec, gone),
           LastIs(seq2, rec),
           Covered(th, seq, rec) => Covered(th2, seq2, rec) \/ gives,
           (gone \/ gives) => Covered(th2, seq2, rec) \/ gone2,
           "crash" \in Features =>
              LastIs(unread2, rec) /\ (Covered(th2, seq2, rec) => Covered(saved2, unread2, rec))
    PROVE  Ended(th2, seq2, saved2, unread2, rec, gone2)
BY Zenon DEF Ended

LEMMA StepEnded ==
    ASSUME Inv, Inv', NothingHeld, Queued, RisingInv, EndedInv, [HistoryNext]_historyVars,
           NEW t \in Threads, turnFailed(t)'
    PROVE  /\ turn'[t] = Nil /\ lastEnd'[t] \in Event /\ lastEnd'[t].kind = "task_complete"
           /\ Ended(threads'[t], batch'[t] \o rollout'[t], disk'[t], unsaved'[t] \o rollout'[t],
                    lastEnd'[t], letGo'[t])
<1> DEFINE rec == lastEnd'[t]
           seq == batch[t] \o rollout[t]
           seq2 == batch'[t] \o rollout'[t]
           unread == unsaved[t] \o rollout[t]
           unread2 == unsaved'[t] \o rollout'[t]
           goes == Covered(threads'[t], seq2, rec)
<1>1. [Next]_vars BY DEF HistoryNext, historyVars
<1>2. rec # Nil /\ rec.class \in FailureClasses BY DEF turnFailed
<1>3. CASE UNCHANGED historyVars
  <2>1. UNCHANGED <<turn, threads, batch, rollout, disk, unsaved, lastEnd, letGo>>
    <3>1. UNCHANGED vars /\ UNCHANGED <<lastEnd, letGo>> BY <1>3 DEF historyVars
    <3>2. UNCHANGED <<turn, threads, batch, rollout, disk, unsaved>>
      BY <3>1 DEF vars, codexVars, daemonVars, memoryVars, tickVars, fileVars
    <3> QED BY <3>1, <3>2
  <2>2. turnFailed(t) BY <2>1 DEF turnFailed
  <2> QED BY <2>1, <2>2 DEF EndedInv
<1>4. CASE HistoryNext
  <2>1. /\ lastEnd'[t] = IF turnStarted(t) THEN Nil ELSE IF turnEnded(t) THEN endRecord(t) ELSE lastEnd[t]
        /\ letGo'[t] = (~accountedFor(t)' /\ (letGo[t] \/ dismissed(t)))
    BY <1>4 DEF HistoryNext
  <2>2. ~turnStarted(t) BY <1>2, <2>1
  <2>3. accountedFor(t)' <=> goes
    <3>1. Inv' => CoveredOnes' BY AccountedCovered, PTL
    <3> QED BY <3>1 DEF CoveredOnes
  <2>4. CASE turnEnded(t)
    <3>1. rec = endRecord(t) BY <2>1, <2>2, <2>4
    <3> QED BY <1>1, <1>2, <2>4, <3>1, EndWritten
  <2>5. CASE ~turnEnded(t)
    <3>1. lastEnd'[t] = lastEnd[t] /\ turnFailed(t) BY <1>2, <2>1, <2>2, <2>5 DEF turnFailed
    <3>2. /\ turn[t] = Nil /\ rec \in Event /\ rec.kind = "task_complete"
          /\ Ended(threads[t], seq, disk[t], unread, rec, letGo[t])
      BY <3>1 DEF EndedInv
    <3>3. turn'[t] = Nil BY <2>2, <3>2 DEF turnStarted
    <3>4. letGo[t] \/ dismissed(t) => goes \/ letGo'[t] BY <2>1, <2>3
    <3>5. LastIs(seq, rec) /\ ("crash" \in Features => LastIs(unread, rec)) BY <3>2 DEF Ended
    <3>6. "crash" \in Features => (Covered(threads[t], seq, rec) => Covered(disk[t], unread, rec))
      BY <3>2 DEF Ended
    <3>7. CASE ~Crash
      <4>1. /\ LastIs(seq2, rec)
            /\ Covered(threads[t], seq, rec) => goes \/ dismissed(t)
            /\ goes => Covered(threads[t], seq, rec)
        <5>1. CASE HandleEvent(t)
          <6>1. PICK ev, after : HandledBy(t, ev, after) BY <5>1, HandlesHead
          <6> QED BY <1>2, <3>2, <3>5, <5>1, <6>1, FailureHandled
        <5>2. CASE ~HandleEvent(t) BY <1>1, <3>2, <3>3, <3>5, <3>7, <5>2, EndKept
        <5> QED BY <5>1, <5>2
      <4>2. ASSUME "crash" \in Features
            PROVE  LastIs(unread2, rec) /\ (goes => Covered(disk'[t], unread2, rec))
        <5>1. goes => Covered(disk[t], unread, rec) BY <3>6, <4>1, <4>2
        <5> QED BY <1>1, <3>2, <3>3, <3>5, <4>1, <4>2, <5>1, EndSaved
      <4> HIDE DEF rec, seq, seq2, unread, unread2
      <4>3. Ended(threads'[t], seq2, disk'[t], unread2, rec, letGo'[t])
        BY <3>2, <3>4, <4>1, <4>2, EndCarried
      <4> QED BY <3>2, <3>3, <4>3 DEF rec, seq2, unread2
    <3>8. CASE Crash
      <4>1. "crash" \in Features BY <3>8 DEF Crash
      <4>2. /\ LastIs(seq2, rec) /\ LastIs(unread2, rec)
            /\ goes <=> Covered(disk[t], unread, rec)
            /\ Covered(disk'[t], unread2, rec) <=> Covered(disk[t], unread, rec)
        BY <3>5, <3>8, <4>1, EndRestarted
      <4>3. Covered(threads[t], seq, rec) => goes BY <3>6, <4>1, <4>2
      <4> HIDE DEF rec, seq, seq2, unread, unread2
      <4>4. Ended(threads'[t], seq2, disk'[t], unread2, rec, letGo'[t])
        BY <3>2, <3>4, <4>2, <4>3, EndCarried
      <4> QED BY <3>2, <3>3, <4>4 DEF rec, seq2, unread2
    <3> QED BY <3>7, <3>8
  <2> QED BY <2>4, <2>5
<1> QED BY <1>3, <1>4

LEMMA NextEnded ==
    Inv /\ Inv' /\ NothingHeld /\ Queued /\ RisingInv /\ EndedInv /\ [HistoryNext]_historyVars
    => EndedInv'
BY StepEnded DEF EndedInv

LEMMA HistorySpecRefines == HistorySpec => Spec
<1>1. HistoryInit => Init BY DEF HistoryInit
<1>2. [HistoryNext]_historyVars => [Next]_vars BY DEF HistoryNext, historyVars
<1> QED BY <1>1, <1>2, PTL DEF HistorySpec, Spec

\* A provider failure stays accounted for until the thread moves on or the chain is
\* ended on purpose: scan, handleTaskComplete, every handler of the tick and of the
\* results, persist and the restart from state.json lose none (daemon.go, state.go).
THEOREM NoFailureForgottenHolds == HistorySpec => []NoFailureForgotten
<1>1. HistoryInit => EndedInv BY DEF HistoryInit, EndedInv, turnFailed
<1>2. Inv /\ EndedInv => NoFailureForgotten
  <2> SUFFICES ASSUME Inv, EndedInv, NEW t \in Threads PROVE accountedFor(t) \/ letGo[t]
    BY DEF NoFailureForgotten
  <2>1. CASE turnFailed(t)
    <3>1. Covered(threads[t], batch[t] \o rollout[t], lastEnd[t]) \/ letGo[t]
      BY <2>1 DEF EndedInv, Ended
    <3> QED BY <2>1, <3>1, AccountedCovered DEF CoveredOnes
  <2>2. CASE ~turnFailed(t) BY <2>2 DEF accountedFor
  <2> QED BY <2>1, <2>2
<1>3. JobHistory => Queued BY DEF JobHistory
<1> QED
  BY <1>1, <1>2, <1>3, NextEnded, HistorySpecRefines, InvHolds, NothingHeldHolds,
     JobHistoryHolds, RisingHolds, PTL DEF HistorySpec

----------------------------------------------------------------------------
(* A goal hold against the jobs that are under way.                        *)

BlockFailed(th) ==
    th.Stopped # Nil /\ th.Stopped.Reason = "goal_empty_response_limit_block_failed"

\* The chain of a job goes on from the conversation that the job was launched for, or
\* from none; and it was restarted after a goal limit only if the job was.
Traces(j, th) ==
    LET r == liveRetry(th)
    IN  r # Nil /\ ~Since(j.at, th.RecoveryStartedAt) =>
          /\ r.fault.OriginTurnStartedAt \in {0, j.origin}
          /\ r.GoalLimitRestart => j.restart

\* A job that may still send does so for a conversation that the goal does not hold.
Heeds(j, th) ==
    j.pc = "running" /\ ~j.cancelled /\ th.GoalHeld /\ ~j.restart =>
        \/ heldConversationAllowed(th.GoalStatus, th.GoalUpdatedAt, j.origin)
        \/ Since(j.at, th.RecoveryStartedAt)

\* No goal block of the thread has failed since: that takes a job of its own.
Unheld(j, th) == j.kind = "recovery" => Traces(j, th) /\ Heeds(j, th) /\ ~BlockFailed(th)

UnheldInv == \A j \in jobs : Unheld(j, threads[j.thread])

\* The last turn of the user's own has completed, unless nothing is left of a chain.
Outer(th, seq, run, next) ==
    th.LastExternalTurnID # 0 /\ ~Clean(th) => Past(th.LastExternalTurnID, seq, run, next)

OuterInv ==
    \A t \in Threads :
       /\ Outer(threads[t], batch[t] \o rollout[t], turn[t], nextTurn)
       /\ "crash" \in Features => Outer(disk[t], unsaved[t] \o rollout[t], turn[t], nextTurn)

\* From the retry before to the one after a handler: the same conversation, or none.
Descends(before, after) ==
    LET x == liveRetry(before)
        y == liveRetry(after)
    IN  y # Nil =>
          \/ y.fault.OriginTurnStartedAt = 0 /\ ~y.GoalLimitRestart
          \/ /\ x # Nil
             /\ y.fault.OriginTurnStartedAt = x.fault.OriginTurnStartedAt
             /\ y.GoalLimitRestart => x.GoalLimitRestart

\* A hold is lifted, or stays as it is.
Eases(before, after) ==
    after.GoalHeld => /\ before.GoalHeld
                      /\ after.GoalStatus = before.GoalStatus
                      /\ after.GoalUpdatedAt = before.GoalUpdatedAt

\* The handler hears nothing of the goal; it runs at the given time and may begin a chain
\* then.
Follows(before, after, time) ==
    /\ BlockFailed(after) => BlockFailed(before)
    /\ Eases(before, after)
    /\ \/ after.RecoveryStartedAt = time
       \/ after.RecoveryStartedAt = before.RecoveryStartedAt /\ Descends(before, after)

SameGoal(before, after) ==
    /\ after.GoalHeld = before.GoalHeld
    /\ after.GoalStatus = before.GoalStatus
    /\ after.GoalUpdatedAt = before.GoalUpdatedAt
    /\ after.RecoveryStartedAt = before.RecoveryStartedAt

\* The same retry, with other marks.
Twin(x, y) ==
    /\ x = Nil <=> y = Nil
    /\ x # Nil => y.fault = x.fault /\ y.GoalLimitRestart = x.GoalLimitRestart

LEMMA GoalThrough ==
    ASSUME NEW a, NEW b, NEW c, SameGoal(a, b), SameGoal(b, c)
    PROVE  SameGoal(a, c)
BY DEF SameGoal

LEMMA TwinFollows ==
    ASSUME NEW before, NEW after, SameGoal(before, after), after.Stopped = before.Stopped,
           Twin(before.Pending, after.Pending), Twin(before.Awaiting, after.Awaiting), NEW time
    PROVE  Follows(before, after, time)
<1>1. BlockFailed(after) => BlockFailed(before) BY DEF BlockFailed
<1>2. Eases(before, after) BY DEF SameGoal, Eases
<1>3. Descends(before, after) BY DEF Descends, liveRetry, Twin
<1> QED BY <1>1, <1>2, <1>3 DEF Follows, SameGoal

LEMMA SameFollows ==
    ASSUME NEW th, NEW time
    PROVE  Follows(th, th, time)
<1>1. SameGoal(th, th) /\ Twin(th.Pending, th.Pending) /\ Twin(th.Awaiting, th.Awaiting)
  BY DEF SameGoal, Twin
<1> QED BY <1>1, TwinFollows

\* The chain ends.
Over(after) == after.Pending = Nil /\ after.Awaiting = Nil /\ ~BlockFailed(after)

LEMMA EndFollows ==
    ASSUME NEW before, NEW after, SameGoal(before, after),
           after.Pending = Nil, after.Awaiting = Nil, BlockFailed(after) => BlockFailed(before),
           NEW time
    PROVE  Follows(before, after, time)
<1>1. Eases(before, after) BY DEF SameGoal, Eases
<1>2. Descends(before, after) BY DEF Descends, liveRetry
<1> QED BY <1>1, <1>2 DEF Follows, SameGoal

LEMMA OverFollows ==
    ASSUME NEW before, NEW after, SameGoal(before, after), Over(after), NEW time
    PROVE  Follows(before, after, time)
BY EndFollows DEF Over

LEMMA ResetGoal ==
    ASSUME NEW th \in ThreadState
    PROVE  SameGoal(th, resetRetryState(th)) /\ Over(resetRetryState(th))
BY DEF resetRetryState, ThreadState, SameGoal, Over, BlockFailed

LEMMA StopGoal ==
    ASSUME NEW th \in ThreadState, NEW fault, NEW budget, NEW reason,
           reason # "goal_empty_response_limit_block_failed"
    PROVE  /\ \A historical, blocked :
                 LET s == stopRetry(th, fault, budget, reason, historical, blocked)
                 IN  SameGoal(th, s) /\ Over(s)
           /\ \A historical, time :
                 LET s == exhaustRetry(th, fault, budget, reason, historical, time)
                 IN  SameGoal(th, s) /\ Over(s)
<1>1. ASSUME NEW why, why # "goal_empty_response_limit_block_failed", NEW historical, NEW blocked
      PROVE  LET s == stopRetry(th, fault, budget, why, historical, blocked)
             IN  SameGoal(th, s) /\ Over(s) /\ DOMAIN s = DOMAIN th
  BY <1>1 DEF stopRetry, ThreadState, SameGoal, Over, BlockFailed
<1>2. ASSUME NEW historical, NEW time
      PROVE  LET s == exhaustRetry(th, fault, budget, reason, historical, time)
             IN  SameGoal(th, s) /\ Over(s)
  <2> DEFINE limit == "goal_empty_response_limit"
             s == stopRetry(th, fault, budget, limit, historical, "unset")
             plain == stopRetry(th, fault, budget, reason, historical, "unset")
             request == [EventKey |-> fault.EventKey, DueAt |-> time, DispatchFailures |-> 0]
             asked == [s EXCEPT !.GoalStop = request]
  <2>1. exhaustRetry(th, fault, budget, reason, historical, time) \in {asked, plain}
    BY DEF exhaustRetry
  <2>2. limit # "goal_empty_response_limit_block_failed" OBVIOUS
  <2> HIDE DEF limit
  <2>3. SameGoal(th, s) /\ Over(s) /\ DOMAIN s = DOMAIN th BY <1>1, <2>2
  <2>4. SameGoal(th, plain) /\ Over(plain) BY <1>1
  <2> HIDE DEF s, plain, request
  <2>5. SameGoal(th, asked) /\ Over(asked)
    BY <2>3 DEF ThreadState, SameGoal, Over, BlockFailed
  <2> QED BY <2>1, <2>4, <2>5
<1> QED BY <1>1, <1>2

----------------------------------------------------------------------------
(* The handlers, and the conversation that the retry goes on with.         *)

LEMMA StartedFollows ==
    ASSUME NEW th, Sound(th), NEW ev \in Event, NEW time
    PROVE  Follows(th, handleTaskStarted(th, ev), time)
<1> DEFINE s == [th EXCEPT !.LastStartedTurnID = ev.turn, !.LastStartedAt = ev.at,
                           !.CurrentTurnProgress = FALSE]
           external == [s EXCEPT !.LastExternalTurnID = ev.turn, !.LastExternalTurnAt = ev.at]
           a == [th.Awaiting EXCEPT !.RetryTurnID = ev.turn, !.StartedAt = ev.at]
           acked == [s EXCEPT !.Awaiting = a]
           after == handleTaskStarted(th, ev)
<1> SUFFICES Follows(th, after, time) OBVIOUS
<1>1. th \in ThreadState BY DEF Sound
<1>2. /\ s \in ThreadState /\ external \in ThreadState
      /\ s.Pending = th.Pending /\ s.Awaiting = th.Awaiting /\ s.Stopped = th.Stopped
      /\ SameGoal(th, s) /\ SameGoal(th, external)
  BY <1>1 DEF ThreadState, Event, SameGoal
<1>3. \/ after = s
      \/ after = th
      \/ after = resetRetryState(external)
      \/ th.Awaiting # Nil /\ after = acked
      \/ th.Pending # Nil /\ \E action : after = adoptTurn(s, ev, action)
  <2>1. s.Awaiting = th.Awaiting BY <1>2
  <2> QED BY <2>1 DEF handleTaskStarted, acknowledges, canAdoptNativeGoalTurn, canAdoptSubagentTurn
<1> HIDE DEF s, external
<1>4. CASE after = s
  <2>1. Twin(th.Pending, s.Pending) /\ Twin(th.Awaiting, s.Awaiting) BY <1>2 DEF Twin
  <2> QED BY <1>2, <1>4, <2>1, TwinFollows
<1>5. CASE after = th BY <1>5, SameFollows
<1>6. CASE after = resetRetryState(external)
  <2>1. SameGoal(external, after) /\ Over(after) BY <1>2, <1>6, ResetGoal
  <2> HIDE DEF after
  <2>2. SameGoal(th, after) BY <1>2, <2>1, GoalThrough
  <2> QED BY <2>1, <2>2, OverFollows
<1>7. CASE th.Awaiting # Nil /\ after = acked
  <2>1. th.Awaiting \in AwaitingRetry BY <1>7, AwaitingFacts
  <2>2. /\ a \in AwaitingRetry /\ a.fault = th.Awaiting.fault
        /\ a.GoalLimitRestart = th.Awaiting.GoalLimitRestart
    BY <2>1 DEF AwaitingRetry, Event
  <2> HIDE DEF a
  <2>3. Twin(th.Awaiting, a) BY <1>7, <2>2, NilAssumption DEF Twin
  <2>4. /\ acked.Pending = th.Pending /\ acked.Awaiting = a /\ acked.Stopped = th.Stopped
        /\ SameGoal(s, acked)
    BY <1>2 DEF ThreadState, SameGoal
  <2> HIDE DEF acked
  <2>5. Twin(th.Pending, acked.Pending) BY <2>4 DEF Twin
  <2>6. SameGoal(th, acked) BY <1>2, <2>4, GoalThrough
  <2> QED BY <1>7, <2>3, <2>4, <2>5, <2>6, TwinFollows
<1>8. CASE th.Pending # Nil /\ \E action : after = adoptTurn(s, ev, action)
  <2>1. PICK action : after = adoptTurn(s, ev, action) BY <1>8
  <2>2. /\ after.Pending = Nil /\ after.Stopped = th.Stopped
        /\ SameGoal(s, after)
    BY <1>2, <2>1 DEF adoptTurn, ThreadState, SameGoal
  <2>3. /\ after.Awaiting.fault = th.Pending.fault
        /\ after.Awaiting.GoalLimitRestart = th.Pending.GoalLimitRestart
    BY <1>2, <2>1 DEF adoptTurn, ThreadState
  <2> HIDE DEF after
  <2>4. SameGoal(th, after) BY <1>2, <2>2, GoalThrough
  <2>5. liveRetry(th) = th.Pending BY <1>8, PendingFacts DEF liveRetry
  <2>6. liveRetry(after) = after.Awaiting BY <2>2 DEF liveRetry
  <2>7. Descends(th, after) BY <1>8, <2>3, <2>5, <2>6 DEF Descends
  <2>8. BlockFailed(after) => BlockFailed(th) BY <2>2 DEF BlockFailed
  <2>9. Eases(th, after) BY <2>4 DEF SameGoal, Eases
  <2> QED BY <2>4, <2>7, <2>8, <2>9 DEF Follows, SameGoal
<1> QED BY <1>3, <1>4, <1>5, <1>6, <1>7, <1>8

LEMMA UserInputFollows ==
    ASSUME NEW th, Sound(th), NEW ev \in Event, NEW time
    PROVE  Follows(th, handleTaskUserInput(th, ev), time)
<1>1. handleTaskUserInput(th, ev) \in {th, resetRetryState(th)} BY DEF handleTaskUserInput
<1>2. th \in ThreadState BY DEF Sound
<1>3. Follows(th, resetRetryState(th), time) BY <1>2, ResetGoal, OverFollows
<1> QED BY <1>1, <1>3, SameFollows

LEMMA ProgressFollows ==
    ASSUME NEW th, Sound(th), NEW ev \in Event, NEW time
    PROVE  Follows(th, handleTaskProgress(th, ev), time)
<1>1. LET s == handleTaskProgress(th, ev)
      IN  /\ s.Pending = th.Pending /\ s.Awaiting = th.Awaiting /\ s.Stopped = th.Stopped
          /\ SameGoal(th, s)
  BY DEF handleTaskProgress, Sound, ThreadState, SameGoal
<1>2. Twin(th.Pending, th.Pending) /\ Twin(th.Awaiting, th.Awaiting) BY DEF Twin
<1> QED BY <1>1, <1>2, TwinFollows

LEMMA NoticeFollows ==
    ASSUME NEW th, Sound(th), NEW ev \in Event, NEW time
    PROVE  Follows(th, handleSubagentRecoveryNotice(th, ev), time)
<1> DEFINE mark(retry) == IF retry # Nil /\ retry.fault.EventKey = ev.key
                          THEN [retry EXCEPT !.ParentNotified = TRUE] ELSE retry
           p == mark(th.Pending)
           a == mark(th.Awaiting)
           after == handleSubagentRecoveryNotice(th, ev)
<1> SUFFICES Follows(th, after, time) OBVIOUS
<1>1. th \in ThreadState BY DEF Sound
<1>2. Twin(th.Pending, p)
  <2>1. CASE th.Pending = Nil BY <2>1 DEF Twin
  <2>2. CASE th.Pending # Nil
    <3>1. th.Pending \in PendingRetry BY <2>2, PendingFacts
    <3>2. /\ p \in PendingRetry /\ p.fault = th.Pending.fault
          /\ p.GoalLimitRestart = th.Pending.GoalLimitRestart
      BY <3>1 DEF PendingRetry
    <3> HIDE DEF p
    <3> QED BY <2>2, <3>2, NilAssumption DEF Twin
  <2> QED BY <2>1, <2>2
<1>3. Twin(th.Awaiting, a)
  <2>1. CASE th.Awaiting = Nil BY <2>1 DEF Twin
  <2>2. CASE th.Awaiting # Nil
    <3>1. th.Awaiting \in AwaitingRetry BY <2>2, AwaitingFacts
    <3>2. /\ a \in AwaitingRetry /\ a.fault = th.Awaiting.fault
          /\ a.GoalLimitRestart = th.Awaiting.GoalLimitRestart
      BY <3>1 DEF AwaitingRetry
    <3> HIDE DEF a
    <3> QED BY <2>2, <3>2, NilAssumption DEF Twin
  <2> QED BY <2>1, <2>2
<1>4. after = [th EXCEPT !.Pending = p, !.Awaiting = a] BY DEF handleSubagentRecoveryNotice
<1> HIDE DEF p, a, after
<1>5. /\ after.Pending = p /\ after.Awaiting = a /\ after.Stopped = th.Stopped
      /\ SameGoal(th, after)
  BY <1>1, <1>4 DEF ThreadState, SameGoal
<1> QED BY <1>2, <1>3, <1>5, TwinFollows

LEMMA AbortedFollows ==
    ASSUME NEW th, Sound(th), NEW ev \in Event, NEW time
    PROVE  Follows(th, handleTurnAborted(th, ev), time)
<1> DEFINE turned == IF ev.turn = 0 THEN th.LastStartedTurnID ELSE ev.turn
           s == [th EXCEPT !.LastAbortedTurnID = turned, !.LastAbortedAt = ev.at]
           reset == resetRetryState(s)
<1>1. /\ s \in ThreadState /\ SameGoal(th, s)
      /\ s.Pending = th.Pending /\ s.Awaiting = th.Awaiting /\ s.Stopped = th.Stopped
  BY DEF Sound, ThreadState, Event, SameGoal
<1>2. handleTurnAborted(th, ev) \in {s, reset} BY DEF handleTurnAborted
<1>3. SameGoal(s, reset) /\ Over(reset) BY <1>1, ResetGoal
<1> HIDE DEF s, reset
<1>4. SameGoal(th, reset) BY <1>1, <1>3, GoalThrough
<1>5. Follows(th, reset, time) BY <1>3, <1>4, OverFollows
<1>6. Twin(th.Pending, s.Pending) /\ Twin(th.Awaiting, s.Awaiting) BY <1>1 DEF Twin
<1>7. Follows(th, s, time) BY <1>1, <1>6, TwinFollows
<1> QED BY <1>2, <1>5, <1>7

\* No retry limit fails a goal block.
LEMMA LimitReason ==
    ASSUME NEW fault, NEW budget, NEW cfg
    PROVE  budgetStopReason(fault, budget, cfg) # "goal_empty_response_limit_block_failed"
BY DEF budgetStopReason, retryStopReasonForClass, retryStopReason

\* A failure is queued for the conversation that is given.
LEMMA ScheduleFollows ==
    ASSUME NEW th \in ThreadState, th.Pending = Nil, th.Awaiting = Nil,
           NEW ev \in Event, NEW time \in Nat, NEW cfg \in Config,
           NEW attempt, NEW consecutive, NEW origin, NEW notified
    PROVE  LET s == scheduleFailure(th, ev, time, cfg, attempt, consecutive, origin, notified)
           IN  /\ Eases(th, s)
               /\ BlockFailed(s) => BlockFailed(th)
               /\ \/ s.RecoveryStartedAt = time
                  \/ /\ s.RecoveryStartedAt = th.RecoveryStartedAt
                     /\ ~Clean(th)
                     /\ liveRetry(s) # Nil =>
                           /\ liveRetry(s).fault.OriginTurnStartedAt = origin
                           /\ ~liveRetry(s).GoalLimitRestart
<1> DEFINE clocked == startClock(th, time)
           blockedNow == /\ th.GoalStatus = "blocked"
                         /\ goalBlockedByFailure(th.GoalUpdatedAt, ev.at)
           t == [clocked EXCEPT !.GoalHeld = @ /\ ~blockedNow]
           fault == [EventKey |-> ev.turn, FailedAt |-> ev.at,
                     OriginTurnStartedAt |-> origin, Class |-> ev.class]
           budget == [Attempt |-> attempt, MaxAttempts |-> recoveryLimit(ev.class, cfg),
                      ConsecutiveRetry |-> consecutive,
                      MaxConsecutive |-> consecutiveLimit(ev.class, cfg)]
           failed == [t EXCEPT !.CurrentTurnProgress = FALSE, !.LastFailureAt = ev.at]
           tooLong == time > t.RecoveryStartedAt + MaxAutomaticRecoveryDuration
           reason == IF tooLong THEN "recovery_time_limit"
                     ELSE budgetStopReason(fault, budget, cfg)
           p == [fault |-> fault, budget |-> budget,
                 DueAt |-> time + retryDelay(consecutive, cfg),
                 DispatchFailures |-> 0, ParentNotified |-> notified,
                 GoalLimitRestart |-> FALSE]
           queued == [failed EXCEPT
                !.RecoveryAttempts = attempt, !.ConsecutiveRetries = consecutive,
                !.Awaiting = Nil, !.Stopped = Nil, !.GoalStop = Nil, !.Pending = p]
           dropped == dropHeldRetry(failed)
           reset == resetRetryState(t)
           no == FALSE
           stopped == exhaustRetry(failed, fault, budget, reason, no, time)
           s == scheduleFailure(th, ev, time, cfg, attempt, consecutive, origin, notified)
<1>1. s \in {dropped, reset, stopped, queued} BY DEF scheduleFailure
<1>2. /\ clocked \in ThreadState /\ clocked.Stopped = th.Stopped
      /\ clocked.GoalHeld = th.GoalHeld /\ clocked.GoalStatus = th.GoalStatus
      /\ clocked.GoalUpdatedAt = th.GoalUpdatedAt
      /\ \/ clocked.RecoveryStartedAt = time
         \/ clocked.RecoveryStartedAt = th.RecoveryStartedAt /\ ~Clean(th)
  BY DEF startClock, ThreadState, Clean
<1>3. reason # "goal_empty_response_limit_block_failed" BY LimitReason
<1> HIDE DEF clocked, blockedNow
<1>4. /\ t \in ThreadState /\ t.Stopped = th.Stopped /\ Eases(th, t)
      /\ t.RecoveryStartedAt = clocked.RecoveryStartedAt
  <2> DEFINE held == clocked.GoalHeld /\ ~blockedNow
  <2>1. t = [clocked EXCEPT !.GoalHeld = held] BY <1>2 DEF ThreadState
  <2>2. held \in BOOLEAN /\ (held => th.GoalHeld) BY <1>2
  <2> HIDE DEF held, t
  <2>3. t \in ThreadState BY <1>2, <2>1, <2>2 DEF ThreadState
  <2>4. /\ t.GoalHeld = held /\ t.GoalStatus = clocked.GoalStatus
        /\ t.GoalUpdatedAt = clocked.GoalUpdatedAt /\ t.Stopped = clocked.Stopped
        /\ t.RecoveryStartedAt = clocked.RecoveryStartedAt
    BY <1>2, <2>1 DEF ThreadState
  <2> QED BY <1>2, <2>2, <2>3, <2>4 DEF Eases
<1> HIDE DEF t
<1>5. SameGoal(t, failed) /\ failed \in ThreadState /\ failed.Stopped = t.Stopped
  <2>1. failed \in ThreadState BY <1>4 DEF ThreadState, Event
  <2>2. SameGoal(t, failed) /\ failed.Stopped = t.Stopped BY <1>4 DEF ThreadState, SameGoal
  <2> QED BY <2>1, <2>2
<1>6. p.fault.OriginTurnStartedAt = origin /\ ~p.GoalLimitRestart OBVIOUS
<1> HIDE DEF failed, p, fault, budget, tooLong, reason, no
<1>7. /\ queued.Pending = p /\ queued.Awaiting = Nil /\ queued.Stopped = Nil
      /\ SameGoal(failed, queued)
  BY <1>5 DEF ThreadState, SameGoal
<1>8. /\ dropped.Pending = Nil /\ dropped.Awaiting = Nil /\ SameGoal(failed, dropped)
      /\ dropped.Stopped = failed.Stopped
  BY <1>5 DEF dropHeldRetry, ThreadState, SameGoal
<1>9. SameGoal(t, reset) /\ Over(reset) BY <1>4, ResetGoal
<1>10. SameGoal(failed, stopped) /\ Over(stopped) BY <1>3, <1>5, StopGoal
<1> HIDE DEF queued, dropped, reset, stopped, s
<1>11. SameGoal(t, s) BY <1>1, <1>5, <1>7, <1>8, <1>9, <1>10 DEF SameGoal
<1>12. Eases(th, s) BY <1>4, <1>11 DEF SameGoal, Eases
<1>13. BlockFailed(s) => BlockFailed(th)
  BY <1>1, <1>4, <1>5, <1>7, <1>8, <1>9, <1>10 DEF BlockFailed, Over
<1>14. liveRetry(s) # Nil => liveRetry(s).fault.OriginTurnStartedAt = origin
                             /\ ~liveRetry(s).GoalLimitRestart
  BY <1>1, <1>6, <1>7, <1>8, <1>9, <1>10 DEF liveRetry, Over
<1> QED BY <1>2, <1>4, <1>11, <1>12, <1>13, <1>14 DEF SameGoal, s

LEMMA CompleteFollows ==
    ASSUME NEW th, Sound(th), NEW ev \in Event, NEW time \in Nat, NEW cfg \in Config,
           ~Clean(th) => externalTurnOrigin(th, ev) = 0
    PROVE  Follows(th, handleTaskComplete(th, ev, time, cfg), time)
<1> DEFINE a == th.Awaiting
           after == handleTaskComplete(th, ev, time, cfg)
           free == [th EXCEPT !.CurrentTurnProgress = FALSE, !.Awaiting = Nil]
           idle == [th EXCEPT !.CurrentTurnProgress = FALSE]
           once == IF th.CurrentTurnProgress THEN 1 ELSE a.budget.ConsecutiveRetry + 1
           next == scheduleFailure(free, ev, time, cfg, a.budget.Attempt + 1, once,
                                   a.fault.OriginTurnStartedAt, a.ParentNotified)
           first == scheduleFailure(idle, ev, time, cfg, 1, 1, externalTurnOrigin(th, ev), FALSE)
<1> SUFFICES Follows(th, after, time) OBVIOUS
<1>1. th \in ThreadState BY DEF Sound
<1>2. \/ after = th
      \/ after = resetRetryState(th)
      \/ a # Nil /\ after = next
      \/ a = Nil /\ th.Pending = Nil /\ after = first
  BY DEF handleTaskComplete
<1>3. CASE after = th BY <1>3, SameFollows
<1>4. CASE after = resetRetryState(th) BY <1>1, <1>4, ResetGoal, OverFollows
<1>5. ASSUME NEW s \in ThreadState, SameGoal(th, s), s.Stopped = th.Stopped,
             Clean(th) => Clean(s), s.Pending = Nil, s.Awaiting = Nil,
             NEW attempt, NEW consecutive, NEW origin, NEW notified,
             after = scheduleFailure(s, ev, time, cfg, attempt, consecutive, origin, notified),
             ~Clean(th) => \/ origin = 0
                           \/ /\ liveRetry(th) # Nil
                              /\ origin = liveRetry(th).fault.OriginTurnStartedAt
      PROVE  Follows(th, after, time)
  <2> HIDE DEF after
  <2>1. /\ Eases(s, after)
        /\ BlockFailed(after) => BlockFailed(s)
        /\ \/ after.RecoveryStartedAt = time
           \/ /\ after.RecoveryStartedAt = s.RecoveryStartedAt
              /\ ~Clean(s)
              /\ liveRetry(after) # Nil =>
                    /\ liveRetry(after).fault.OriginTurnStartedAt = origin
                    /\ ~liveRetry(after).GoalLimitRestart
    BY <1>5, ScheduleFollows
  <2>2. Eases(th, after) BY <1>5, <2>1 DEF SameGoal, Eases
  <2>3. BlockFailed(after) => BlockFailed(th) BY <1>5, <2>1 DEF BlockFailed
  <2>4. \/ after.RecoveryStartedAt = time
        \/ after.RecoveryStartedAt = th.RecoveryStartedAt /\ Descends(th, after)
    BY <1>5, <2>1 DEF SameGoal, Descends
  <2> QED BY <2>2, <2>3, <2>4 DEF Follows
<1>6. CASE a # Nil /\ after = next
  <2>1. th.Pending = Nil BY <1>6, AwaitingFacts
  <2>2. free \in ThreadState BY <1>1 DEF ThreadState
  <2>3. /\ free.Pending = Nil /\ free.Awaiting = Nil /\ free.Stopped = th.Stopped
        /\ SameGoal(th, free)
    BY <1>1, <2>1 DEF ThreadState, SameGoal
  <2> DEFINE attempt == a.budget.Attempt + 1
             origin == a.fault.OriginTurnStartedAt
             notified == a.ParentNotified
  <2>4. after = scheduleFailure(free, ev, time, cfg, attempt, once, origin, notified) BY <1>6
  <2>5. ~Clean(th) BY <1>6 DEF Clean
  <2>6. liveRetry(th) # Nil /\ origin = liveRetry(th).fault.OriginTurnStartedAt
    BY <1>6, <2>1 DEF liveRetry
  <2> HIDE DEF free, next, attempt, once, origin, notified, after
  <2> QED BY <1>5, <2>2, <2>3, <2>4, <2>5, <2>6
<1>7. CASE a = Nil /\ th.Pending = Nil /\ after = first
  <2>1. idle \in ThreadState BY <1>1 DEF ThreadState
  <2>2. /\ idle.Pending = Nil /\ idle.Awaiting = Nil /\ idle.Stopped = th.Stopped
        /\ SameGoal(th, idle) /\ SameCounters(th, idle)
    BY <1>1, <1>7 DEF ThreadState, SameGoal, SameCounters
  <2> DEFINE one == 1
             origin == externalTurnOrigin(th, ev)
             notified == FALSE
  <2>3. after = scheduleFailure(idle, ev, time, cfg, one, one, origin, notified) BY <1>7
  <2>4. ~Clean(th) => origin = 0 OBVIOUS
  <2> HIDE DEF idle, first, one, origin, notified, after
  <2>5. Clean(th) => Clean(idle) BY <2>2 DEF Clean, SameCounters
  <2> QED BY <1>5, <2>1, <2>2, <2>3, <2>4, <2>5
<1> QED BY <1>2, <1>3, <1>4, <1>6, <1>7

LEMMA ReloadFollows ==
    ASSUME NEW th, Sound(th), NEW cfg \in Config, NEW at, NEW time
    PROVE  Follows(th, reloadLimits(th, cfg, at), time)
<1> DEFINE relimit(retry) ==
             IF retry = Nil THEN Nil
             ELSE [retry EXCEPT !.budget = withLimits(retry.budget, retry.fault.Class, cfg)]
           a == relimit(th.Awaiting)
           p == relimit(th.Pending)
           t == [th EXCEPT !.Awaiting = a, !.Pending = p]
           reason == budgetStopReason(p.fault, p.budget, cfg)
           no == FALSE
           stopped == exhaustRetry(t, p.fault, p.budget, reason, no, at)
           after == reloadLimits(th, cfg, at)
           given(q) == IF q # Nil /\ overBudget(q.budget)
                       THEN exhaustRetry(t, q.fault, q.budget,
                                         budgetStopReason(q.fault, q.budget, cfg), no, at)
                       ELSE t
<1> SUFFICES Follows(th, after, time) OBVIOUS
<1>1. th \in ThreadState BY DEF Sound
<1>2. after = given(t.Pending) BY DEF reloadLimits
<1>3. p \in PendingRetry \cup {Nil} /\ Twin(th.Pending, p)
  <2>1. CASE th.Pending = Nil BY <2>1 DEF Twin
  <2>2. CASE th.Pending # Nil
    <3> DEFINE b == withLimits(th.Pending.budget, th.Pending.fault.Class, cfg)
    <3>1. th.Pending \in PendingRetry BY <2>2, PendingFacts
    <3>2. b \in Budget BY <3>1, WithLimitsType DEF PendingRetry, Fault
    <3>3. p = [th.Pending EXCEPT !.budget = b] BY <2>2
    <3> HIDE DEF b, p
    <3>4. /\ p \in PendingRetry /\ p.fault = th.Pending.fault
          /\ p.GoalLimitRestart = th.Pending.GoalLimitRestart
      BY <3>1, <3>2, <3>3 DEF PendingRetry
    <3> QED BY <2>2, <3>4, NilAssumption DEF Twin
  <2> QED BY <2>1, <2>2
<1>4. a \in AwaitingRetry \cup {Nil} /\ Twin(th.Awaiting, a)
  <2>1. CASE th.Awaiting = Nil BY <2>1 DEF Twin
  <2>2. CASE th.Awaiting # Nil
    <3> DEFINE b == withLimits(th.Awaiting.budget, th.Awaiting.fault.Class, cfg)
    <3>1. th.Awaiting \in AwaitingRetry BY <2>2, AwaitingFacts
    <3>2. b \in Budget BY <3>1, WithLimitsType DEF AwaitingRetry, Fault
    <3>3. a = [th.Awaiting EXCEPT !.budget = b] BY <2>2
    <3> HIDE DEF b, a
    <3>4. /\ a \in AwaitingRetry /\ a.fault = th.Awaiting.fault
          /\ a.GoalLimitRestart = th.Awaiting.GoalLimitRestart
      BY <3>1, <3>2, <3>3 DEF AwaitingRetry
    <3> QED BY <2>2, <3>4, NilAssumption DEF Twin
  <2> QED BY <2>1, <2>2
<1> HIDE DEF a, p
<1>5. /\ t.Pending = p /\ t.Awaiting = a /\ t.Stopped = th.Stopped /\ SameGoal(th, t)
  BY <1>1 DEF ThreadState, SameGoal
<1>6. t \in ThreadState BY <1>1, <1>3, <1>4 DEF ThreadState
<1> HIDE DEF t, no
<1>7. after = t \/ after = stopped
  <2>1. given(p) \in {stopped, t} OBVIOUS
  <2> HIDE DEF given, stopped, after
  <2>2. after = given(p) BY <1>2, <1>5
  <2> QED BY <2>1, <2>2
<1>8. reason # "goal_empty_response_limit_block_failed" BY LimitReason
<1> HIDE DEF reason, given
<1>9. SameGoal(t, stopped) /\ Over(stopped) BY <1>6, <1>8, StopGoal
<1> HIDE DEF stopped, after
<1>10. Follows(th, t, time) BY <1>3, <1>4, <1>5, TwinFollows
<1>11. SameGoal(th, stopped) BY <1>5, <1>9, GoalThrough
<1>12. Follows(th, stopped, time) BY <1>9, <1>11, OverFollows
<1> QED BY <1>7, <1>10, <1>12

\* A retry with another deadline or mark is the same retry.
LEMMA MarkedFollows ==
    ASSUME NEW th, Sound(th), th.Awaiting # Nil, NEW a \in AwaitingRetry,
           a.fault = th.Awaiting.fault, a.GoalLimitRestart = th.Awaiting.GoalLimitRestart,
           NEW time
    PROVE  Follows(th, [th EXCEPT !.Awaiting = a], time)
<1> DEFINE s == [th EXCEPT !.Awaiting = a]
<1>1. th \in ThreadState /\ a # Nil BY NilAssumption DEF Sound
<1>2. /\ s.Pending = th.Pending /\ s.Awaiting = a /\ s.Stopped = th.Stopped
      /\ SameGoal(th, s)
  BY <1>1 DEF ThreadState, SameGoal
<1> HIDE DEF s
<1>3. Twin(th.Pending, s.Pending) /\ Twin(th.Awaiting, s.Awaiting) BY <1>1, <1>2 DEF Twin
<1>4. Follows(th, s, time) BY <1>2, <1>3, TwinFollows
<1> QED BY <1>4 DEF s

LEMMA CommandFollows ==
    ASSUME NEW th, Sound(th), NEW action, NEW time \in Nat, NEW cfg \in Config
    PROVE  Follows(th, applyControlCommand(th, action, time, cfg), time)
<1>1. th \in ThreadState BY DEF Sound
<1>2. Follows(th, th, time) BY SameFollows
<1>3. Follows(th, commandRetryNow(th, time), time)
  <2>1. CASE th.Pending = Nil BY <1>2, <2>1 DEF commandRetryNow
  <2>2. CASE th.Pending # Nil
    <3> DEFINE p == [th.Pending EXCEPT !.DueAt = time]
               s == commandRetryNow(th, time)
    <3>1. /\ p \in PendingRetry /\ p.fault = th.Pending.fault
          /\ p.GoalLimitRestart = th.Pending.GoalLimitRestart
      BY <2>2, PendingFacts DEF PendingRetry
    <3>2. s = [th EXCEPT !.Pending = p]
      BY <1>1, <2>2 DEF commandRetryNow, ThreadState
    <3> HIDE DEF p, s
    <3>3. s.Pending = p /\ s.Awaiting = th.Awaiting /\ s.Stopped = th.Stopped /\ SameGoal(th, s)
      BY <1>1, <3>2 DEF ThreadState, SameGoal
    <3>4. Twin(th.Pending, s.Pending) /\ Twin(th.Awaiting, s.Awaiting)
      BY <2>2, <3>1, <3>3, NilAssumption DEF Twin
    <3>5. Follows(th, s, time) BY <3>3, <3>4, TwinFollows
    <3> QED BY <3>5 DEF s
  <2> QED BY <2>1, <2>2
<1>4. Follows(th, commandCancelRetry(th), time)
  <2>1. CASE th.Pending = Nil BY <1>2, <2>1 DEF commandCancelRetry
  <2>2. CASE th.Pending # Nil
    <3> DEFINE s == commandCancelRetry(th)
    <3>1. s.Pending = Nil /\ s.Awaiting = Nil /\ s.Stopped = Nil /\ SameGoal(th, s)
      BY <1>1, <2>2, PendingFacts DEF commandCancelRetry, ThreadState, SameGoal
    <3> HIDE DEF s
    <3>2. Over(s) BY <3>1 DEF Over, BlockFailed
    <3>3. Follows(th, s, time) BY <3>1, <3>2, OverFollows
    <3> QED BY <3>3 DEF s
  <2> QED BY <2>1, <2>2
<1>5. Follows(th, commandRestartRetry(th, time, cfg), time)
  <2>1. CASE th.Stopped = Nil BY <1>2, <2>1 DEF commandRestartRetry
  <2>2. CASE th.Stopped # Nil
    <3> DEFINE after == commandRestartRetry(th, time, cfg)
    <3>1. after.Stopped = Nil /\ ~after.GoalHeld /\ after.RecoveryStartedAt = time
      BY <1>1, <2>2 DEF commandRestartRetry, ThreadState
    <3> HIDE DEF after
    <3>2. Follows(th, after, time) BY <3>1 DEF Follows, BlockFailed, Eases
    <3> QED BY <3>2 DEF after
  <2> QED BY <2>1, <2>2
<1> QED BY <1>2, <1>3, <1>4, <1>5 DEF applyControlCommand

LEMMA CheckFollows ==
    ASSUME NEW th, Sound(th), th.Awaiting # Nil, NEW asked \in Nat, NEW time
    PROVE  Follows(th, [th EXCEPT !.Awaiting = [@ EXCEPT !.LastLifecycleCheckAt = asked]], time)
<1> DEFINE a == [th.Awaiting EXCEPT !.LastLifecycleCheckAt = asked]
<1>1. th \in ThreadState BY DEF Sound
<1>2. /\ a \in AwaitingRetry /\ a.fault = th.Awaiting.fault
      /\ a.GoalLimitRestart = th.Awaiting.GoalLimitRestart
  BY AwaitingFacts DEF AwaitingRetry
<1>3. [th EXCEPT !.Awaiting = [@ EXCEPT !.LastLifecycleCheckAt = asked]] = [th EXCEPT !.Awaiting = a]
  BY <1>1 DEF ThreadState
<1> HIDE DEF a
<1>4. Follows(th, [th EXCEPT !.Awaiting = a], time) BY <1>2, MarkedFollows
<1> QED BY <1>3, <1>4

\* What stops a chain for want of a controller is no failed goal block.
LEMMA ControllerGoal ==
    ASSUME NEW th \in ThreadState, NEW reason, reason # "goal_empty_response_limit_block_failed"
    PROVE  /\ LET s == stopAwaitingForController(th, reason)
              IN  SameGoal(th, s) /\ Over(s)
           /\ LET s == stopPendingForController(th, reason)
              IN  SameGoal(th, s) /\ Over(s)
BY DEF stopAwaitingForController, stopPendingForController, stopRetry, ThreadState, SameGoal, Over,
   BlockFailed

LEMMA ProbeFollows ==
    ASSUME NEW th, Sound(th), th.Awaiting # Nil,
           NEW time \in Nat, NEW cfg \in Config,
           NEW why, why # "goal_empty_response_limit_block_failed"
    PROVE  /\ Follows(th, probeFailed(th, why, cfg), time)
           /\ Follows(th, probeFoundActive(th), time)
           /\ Follows(th, probeFoundIdle(th, time, cfg), time)
<1>1. th \in ThreadState /\ th.Pending = Nil /\ th.Awaiting \in AwaitingRetry
  BY AwaitingFacts DEF Sound
<1>4. Follows(th, probeFailed(th, why, cfg), time)
  <2> DEFINE stop == stopAwaitingForController(th, why)
             n == th.Awaiting.DispatchFailures + 1
             a == [th.Awaiting EXCEPT !.DispatchFailures = n]
  <2>1. probeFailed(th, why, cfg) \in {stop, [th EXCEPT !.Awaiting = a]}
    BY <1>1 DEF probeFailed, ThreadState
  <2>2. n \in Nat BY <1>1 DEF AwaitingRetry
  <2>3. SameGoal(th, stop) /\ Over(stop) BY <1>1, ControllerGoal
  <2> HIDE DEF stop, n
  <2>4. /\ a \in AwaitingRetry /\ a.fault = th.Awaiting.fault
        /\ a.GoalLimitRestart = th.Awaiting.GoalLimitRestart
    BY <1>1, <2>2 DEF AwaitingRetry
  <2> HIDE DEF a
  <2>5. Follows(th, stop, time) BY <2>3, OverFollows
  <2>6. Follows(th, [th EXCEPT !.Awaiting = a], time) BY <2>4, MarkedFollows
  <2> QED BY <2>1, <2>5, <2>6
<1>5. Follows(th, probeFoundActive(th), time)
  <2> DEFINE a == [th.Awaiting EXCEPT !.DispatchFailures = 0, !.LifecycleChecks = 0]
  <2>1. /\ a \in AwaitingRetry /\ a.fault = th.Awaiting.fault
        /\ a.GoalLimitRestart = th.Awaiting.GoalLimitRestart
    BY <1>1 DEF AwaitingRetry
  <2>2. probeFoundActive(th) = [th EXCEPT !.Awaiting = a]
    BY <1>1 DEF probeFoundActive, ThreadState
  <2> HIDE DEF a
  <2>3. Follows(th, [th EXCEPT !.Awaiting = a], time) BY <2>1, MarkedFollows
  <2> QED BY <2>2, <2>3
<1>6. Follows(th, probeFoundIdle(th, time, cfg), time)
  <2> DEFINE a == foundIdleOnce(th.Awaiting)
             t == [th EXCEPT !.Awaiting = a]
  <2>1. probeFoundIdle(th, time, cfg) \in {t, advanceInactiveAwaiting(t, time, cfg)}
    BY <1>1 DEF probeFoundIdle, ThreadState
  <2>2. /\ a \in AwaitingRetry /\ a.fault = th.Awaiting.fault
        /\ a.GoalLimitRestart = th.Awaiting.GoalLimitRestart
    <3> DEFINE n == th.Awaiting.LifecycleChecks + 1
    <3>1. n \in Nat BY <1>1 DEF AwaitingRetry
    <3>2. a = [th.Awaiting EXCEPT !.DispatchFailures = 0, !.LifecycleChecks = n]
      BY <1>1 DEF foundIdleOnce, AwaitingRetry
    <3> HIDE DEF n, a
    <3> QED BY <1>1, <3>1, <3>2 DEF AwaitingRetry
  <2> HIDE DEF a
  <2>3. Follows(th, t, time) BY <2>2, MarkedFollows
  <2>4. t \in ThreadState /\ t.Pending = Nil /\ t.Awaiting = a /\ SameGoal(th, t)
    <3>1. t \in ThreadState BY <1>1, <2>2 DEF ThreadState
    <3>2. t.Awaiting = a /\ t.Pending = Nil /\ SameGoal(th, t)
      BY <1>1 DEF ThreadState, SameGoal
    <3> QED BY <3>1, <3>2
  <2> HIDE DEF t
  <2> DEFINE once == IF t.CurrentTurnProgress THEN 1 ELSE a.budget.ConsecutiveRetry + 1
             next == [a.budget EXCEPT !.Attempt = @ + 1, !.ConsecutiveRetry = once]
             u == [t EXCEPT !.CurrentTurnProgress = FALSE]
             reason == budgetStopReason(a.fault, next, cfg)
             stopped(historical) == exhaustRetry(u, a.fault, next, reason, historical, time)
             due == time + retryDelay(next.ConsecutiveRetry, cfg)
             q == queuedRetry(a, next, due, a.DispatchFailures, a.ParentNotified)
             n == next.Attempt
             m == next.ConsecutiveRetry
             queued == [u EXCEPT !.Awaiting = Nil, !.Pending = q, !.RecoveryAttempts = n,
                                 !.ConsecutiveRetries = m, !.Stopped = Nil, !.GoalStop = Nil]
  <2>5. u \in ThreadState /\ u.Awaiting = a /\ SameGoal(t, u)
    <3>1. u \in ThreadState BY <2>4 DEF ThreadState
    <3>2. u.Awaiting = a /\ SameGoal(t, u) BY <2>4 DEF ThreadState, SameGoal
    <3> QED BY <3>1, <3>2
  <2>6. \/ \E historical : advanceInactiveAwaiting(t, time, cfg) = stopped(historical)
        \/ advanceInactiveAwaiting(t, time, cfg) = queued
    <3> DEFINE back == requeue(u, next, due, a.DispatchFailures)
               marked == [back EXCEPT !.RecoveryAttempts = n, !.ConsecutiveRetries = m,
                                      !.Stopped = Nil, !.GoalStop = Nil]
    <3>1. \/ \E historical : advanceInactiveAwaiting(t, time, cfg) = stopped(historical)
          \/ advanceInactiveAwaiting(t, time, cfg) = marked
      BY <2>2, <2>4 DEF advanceInactiveAwaiting, AwaitingRetry, Budget
    <3>2. back = [u EXCEPT !.Awaiting = Nil, !.Pending = q] BY <2>5 DEF requeue
    <3> HIDE DEF stopped, u, q, n, m, back
    <3>3. marked = queued BY <2>5, <3>2 DEF ThreadState
    <3> QED BY <3>1, <3>3
  <2>7. reason # "goal_empty_response_limit_block_failed" BY LimitReason
  <2>8. q.fault = a.fault /\ q.GoalLimitRestart = a.GoalLimitRestart BY DEF queuedRetry
  <2> HIDE DEF u, next, reason, due, q, n, m
  <2>9. \A historical : SameGoal(u, stopped(historical)) /\ Over(stopped(historical))
    BY <2>5, <2>7, StopGoal
  <2>10. /\ queued.Pending = q /\ queued.Awaiting = Nil /\ queued.Stopped = Nil
         /\ SameGoal(u, queued)
    BY <2>5 DEF ThreadState, SameGoal
  <2> HIDE DEF stopped, queued
  <2>11. SameGoal(th, u) BY <2>4, <2>5, GoalThrough
  <2>12. ASSUME NEW historical PROVE Follows(th, stopped(historical), time)
    <3>1. SameGoal(th, stopped(historical)) BY <2>9, <2>11, GoalThrough
    <3> QED BY <2>9, <3>1, OverFollows
  <2>13. Follows(th, queued, time)
    <3>1. SameGoal(th, queued) BY <2>10, <2>11, GoalThrough
    <3>2. liveRetry(th) = th.Awaiting /\ (liveRetry(queued) # Nil => liveRetry(queued) = q)
      BY <1>1, <2>10 DEF liveRetry
    <3>3. Descends(th, queued) BY <2>2, <2>8, <3>2 DEF Descends
    <3>4. ~BlockFailed(queued) /\ Eases(th, queued)
      BY <2>10, <3>1 DEF BlockFailed, SameGoal, Eases
    <3> QED BY <3>1, <3>3, <3>4 DEF Follows, SameGoal
  <2> QED BY <2>1, <2>3, <2>6, <2>12, <2>13
<1> QED BY <1>4, <1>5, <1>6

LEMMA DispatchFollows ==
    ASSUME NEW th, Sound(th), NEW time, NEW why, why # "goal_empty_response_limit_block_failed"
    PROVE  /\ Follows(th, clearHeldRetry(th), time)
           /\ Follows(th, stopPendingForController(th, why), time)
<1>1. th \in ThreadState BY DEF Sound
<1>2. Follows(th, clearHeldRetry(th), time)
  <2>1. CASE th.Pending # Nil \/ th.Awaiting # Nil
    <3> DEFINE s == clearHeldRetry(th)
    <3>1. /\ s.Pending = Nil /\ s.Awaiting = Nil /\ s.Stopped = Nil /\ SameGoal(th, s)
      BY <1>1, <2>1 DEF clearHeldRetry, dropHeldRetry, ThreadState, SameGoal
    <3> HIDE DEF s
    <3>2. Over(s) BY <3>1 DEF Over, BlockFailed
    <3>3. Follows(th, s, time) BY <3>1, <3>2, OverFollows
    <3> QED BY <3>3 DEF s
  <2>2. CASE ~(th.Pending # Nil \/ th.Awaiting # Nil)
    BY <1>1, <2>2, SameFollows DEF clearHeldRetry
  <2> QED BY <2>1, <2>2
<1>3. Follows(th, stopPendingForController(th, why), time) BY <1>1, ControllerGoal, OverFollows
<1> QED BY <1>2, <1>3

----------------------------------------------------------------------------
(* A job against the chain of its thread.                                  *)

LEMMA FollowsUnheld ==
    ASSUME NEW j, NEW before, NEW after, NEW time, Since(j.at, time),
           Follows(before, after, time), Unheld(j, before)
    PROVE  Unheld(j, after)
<1> SUFFICES ASSUME j.kind = "recovery" PROVE Traces(j, after) /\ Heeds(j, after) /\ ~BlockFailed(after)
  BY DEF Unheld
<1>1. Traces(j, before) /\ Heeds(j, before) /\ ~BlockFailed(before) BY DEF Unheld
<1>2. ~BlockFailed(after) BY <1>1 DEF Follows
<1>3. CASE after.RecoveryStartedAt = time
  <2>1. Since(j.at, after.RecoveryStartedAt) BY <1>3
  <2> QED BY <1>2, <2>1 DEF Traces, Heeds
<1>4. CASE after.RecoveryStartedAt = before.RecoveryStartedAt /\ Descends(before, after)
  <2>1. Traces(j, after) BY <1>1, <1>4 DEF Traces, Descends
  <2>2. Heeds(j, after) BY <1>1, <1>4 DEF Heeds, Follows, Eases
  <2> QED BY <1>2, <2>1, <2>2
<1> QED BY <1>3, <1>4 DEF Follows

\* A held goal allows no conversation that is not known.
LEMMA AllowedOrigin ==
    ASSUME NEW status, NEW updated, NEW origin, heldConversationAllowed(status, updated, origin)
    PROVE  origin # 0
BY DEF heldConversationAllowed

\* The conversation that a goal hold leaves alone is the one of the job.
LEMMA TracedAllowed ==
    ASSUME NEW j, NEW th, Traces(j, th), NEW status, NEW updated,
           heldConversationAllowed(status, updated, retryOrigin(th))
    PROVE  \/ heldConversationAllowed(status, updated, j.origin)
           \/ Since(j.at, th.RecoveryStartedAt)
<1>1. retryOrigin(th) # 0 BY AllowedOrigin
<1>2. liveRetry(th) # Nil /\ retryOrigin(th) = liveRetry(th).fault.OriginTurnStartedAt
  BY <1>1 DEF retryOrigin, liveRetry
<1> QED BY <1>1, <1>2 DEF Traces

\* runJob lets the job begin.
Admitted(j) ==
    LET th == threads[j.thread]
    IN  /\ jobMatches(j)
        /\ j.kind = "recovery" /\ th.GoalHeld /\ ~j.restart => heldConversationStillAllowed(th)

\* What stays of a job, whatever becomes of it.
Stays(j, i) ==
    /\ SameJob(j, i) /\ i.at = j.at /\ i.origin = j.origin
    /\ j.cancelled => i.cancelled
    /\ i.pc = "running" => j.pc = "running" \/ Admitted(j)

LEMMA StaysUnheld ==
    ASSUME NEW j, NEW i, Stays(j, i), Unheld(j, threads[j.thread])
    PROVE  Unheld(i, threads[j.thread])
<1> DEFINE th == threads[j.thread]
<1> SUFFICES ASSUME i.kind = "recovery" PROVE Traces(i, th) /\ Heeds(i, th) /\ ~BlockFailed(th)
  BY DEF Unheld
<1>1. /\ j.kind = "recovery" /\ i.at = j.at /\ i.origin = j.origin /\ i.restart = j.restart
      /\ j.cancelled => i.cancelled
  BY DEF Stays, SameJob
<1>2. Traces(j, th) /\ Heeds(j, th) /\ ~BlockFailed(th) BY <1>1 DEF Unheld
<1>3. Traces(i, th) BY <1>1, <1>2 DEF Traces
<1>4. CASE j.pc = "running" BY <1>1, <1>2, <1>3, <1>4 DEF Heeds
<1>5. CASE Admitted(j)
  <2>1. th.GoalHeld /\ ~j.restart =>
           heldConversationAllowed(th.GoalStatus, th.GoalUpdatedAt, retryOrigin(th))
    BY <1>1, <1>5 DEF Admitted, heldConversationStillAllowed
  <2> HIDE DEF th
  <2>2. Heeds(i, th) BY <1>1, <1>2, <2>1, TracedAllowed DEF Heeds
  <2> QED BY <1>2, <1>3, <2>2
<1>6. CASE i.pc # "running"
  <2>1. Heeds(i, th) BY <1>6 DEF Heeds
  <2> QED BY <1>2, <1>3, <2>1
<1> QED BY <1>4, <1>5, <1>6 DEF Stays

LEMMA CancelledStays ==
    ASSUME jobs \subseteq Job, NEW t, NEW i \in cancelJobs(jobs, t)
    PROVE  /\ \E j \in jobs : Stays(j, i)
           /\ i.thread = t => i.cancelled \/ i.pc = "launched"
<1>1. PICK j \in jobs : i = IF j.thread = t /\ j.pc = "running"
                            THEN [j EXCEPT !.cancelled = TRUE] ELSE j
  BY DEF cancelJobs
<1>2. Stays(j, i) BY <1>1 DEF Job, SameJob, Stays
<1>3. i.thread = t => i.cancelled \/ i.pc = "launched" BY <1>1 DEF Job
<1> QED BY <1>2, <1>3

LEMMA JobsStay ==
    ASSUME Inv, [Next]_vars, ~Dispatch, NEW i \in jobs'
    PROVE  \E j \in jobs : Stays(j, i)
<1> DEFINE Goal == \E j \in jobs : Stays(j, i)
<1> SUFFICES Goal OBVIOUS
<1>1. jobs \subseteq Job BY DEF Inv, MemoryInv, SoundJob
<1>2. \A j : Stays(j, j) BY DEF SameJob, Stays
<1>3. CASE UNCHANGED jobs BY <1>2, <1>3
<1>4. ASSUME NEW t, jobs' = cancelJobs(jobs, t) PROVE Goal
  BY <1>1, <1>4, CancelledStays
<1>5. CASE Tick
  <2>1. UNCHANGED jobs \/ \E t : jobs' = cancelJobs(jobs, t)
    BY <1>5 DEF Tick, TickBegin, LatchedFailure, ControllerProbe, TickScan, HandleEvent, Reopen,
       ControlCommand, EndControls, MemoryLimitExceeded, CollectProbes, ProbeLifecycle, memoryVars
  <2> QED BY <1>3, <1>4, <2>1
<1>6. CASE \E j \in jobs : JobStep(j)
  <2>1. PICK j \in jobs : JobStep(j) BY <1>6
  <2>2. CASE removeJob(j) BY <1>2, <2>2 DEF removeJob
  <2>3. ASSUME NEW new, Stays(j, new), jobs' = (jobs \ {j}) \cup {new} PROVE Goal
    BY <1>2, <2>3
  <2>4. CASE StartJob(j)
    <3>1. Admitted(j) => Stays(j, [j EXCEPT !.pc = "running"]) BY <1>1 DEF Job, SameJob, Stays
    <3>2. \/ removeJob(j)
          \/ Admitted(j) /\ jobs' = (jobs \ {j}) \cup {[j EXCEPT !.pc = "running"]}
      BY <2>4 DEF StartJob, Admitted
    <3> QED BY <2>2, <2>3, <3>1, <3>2
  <2>5. CASE SendRequest(j)
    <3>1. \A what : Stays(j, [j EXCEPT !.sent = what]) BY <1>1 DEF Job, SameJob, Stays
    <3>2. \E what : jobs' = (jobs \ {j}) \cup {[j EXCEPT !.sent = what]}
      BY <2>5 DEF SendRequest
    <3> QED BY <2>3, <3>1, <3>2
  <2>6. CASE \/ StaleResult(j) \/ RecoveryFailed(j) \/ RecoveryUserActive(j)
             \/ RecoveryNotApplicable(j) \/ RecoveryAccepted(j) \/ GoalBlockFailed(j)
             \/ GoalBlockDone(j)
    BY <2>2, <2>6 DEF StaleResult, RecoveryFailed, RecoveryUserActive, RecoveryNotApplicable,
       RecoveryAccepted, GoalBlockFailed, GoalBlockDone, finishing
  <2> QED BY <2>1, <2>4, <2>5, <2>6 DEF JobStep
<1>7. CASE Crash BY <1>7 DEF Crash
<1>8. CASE \/ \E t \in Threads : QueueCommand(t)
           \/ TogglePause \/ EditConfig \/ Advance \/ CodexMoves \/ UNCHANGED vars
  BY <1>3, <1>8 DEF QueueCommand, TogglePause, EditConfig, Advance, CodexMoves, vars, daemonVars,
     memoryVars
<1> QED BY <1>5, <1>6, <1>7, <1>8 DEF Next

----------------------------------------------------------------------------
(* A goal update against the jobs of the thread.                           *)

LEMMA GoalUpdatedUnheld ==
    ASSUME NEW th, Sound(th), NEW ev \in Event, ev.kind = "thread_goal_updated",
           NEW i, Unheld(i, th),
           cancelsJob(th, ev) => i.cancelled \/ i.pc # "running"
    PROVE  Unheld(i, handleGoalUpdated(th, ev))
<1> DEFINE t == [th EXCEPT !.GoalStatus = ev.status, !.GoalUpdatedAt = ev.updatedAt,
                           !.GoalObservedAt = ev.at]
           after == handleGoalUpdated(th, ev)
           held == goalRequiresHold(ev.status, ev.updatedAt, th.LastFailureAt)
           allowed == heldConversationAllowed(ev.status, ev.updatedAt, retryOrigin(th))
           limit == goalUpdatedAfterLimit(th, t)
           yes == TRUE
           waits == [t EXCEPT !.GoalHeld = yes]
           kept == [t EXCEPT !.GoalHeld = held]
           ended == resetRetryState(waits)
<1> SUFFICES ASSUME i.kind = "recovery"
             PROVE  Traces(i, after) /\ Heeds(i, after) /\ ~BlockFailed(after)
  BY DEF Unheld
<1>1. th \in ThreadState /\ Traces(i, th) /\ Heeds(i, th) /\ ~BlockFailed(th)
  BY DEF Sound, Unheld
<1>2. /\ t \in ThreadState /\ t.Pending = th.Pending /\ t.Awaiting = th.Awaiting
      /\ t.Stopped = th.Stopped /\ t.RecoveryStartedAt = th.RecoveryStartedAt
      /\ t.GoalStatus = ev.status /\ t.GoalUpdatedAt = ev.updatedAt
  BY <1>1 DEF ThreadState, Event
<1>3. retryOrigin(t) = retryOrigin(th) BY <1>2 DEF retryOrigin
<1>4. held \in BOOLEAN /\ yes \in BOOLEAN BY DEF goalRequiresHold
<1>5. heldConversationStillAllowed(t) <=> allowed BY <1>2, <1>3 DEF heldConversationStillAllowed
<1>6. \/ after = th
      \/ goalLimitRestartPending(th) /\ after = waits
      \/ /\ automaticGoalLimitStopped(th) /\ after = limit
         /\ ev.status # "active" => cancelsJob(th, ev)
      \/ (~held \/ allowed) /\ after = kept
      \/ after = ended /\ cancelsJob(th, ev)
  <2> HIDE DEF t, held, allowed, limit, waits, kept, ended, yes
  <2> DEFINE stale == staleGoalUpdate(th, ev)
             again == goalLimitRestartPending(th) /\ ev.status = "blocked"
             capped == automaticGoalLimitStopped(th) /\ ev.status \in limitGoalStatuses
  <2>1. after = IF stale THEN th ELSE IF again THEN waits ELSE IF capped THEN limit
                ELSE IF ~held \/ heldConversationStillAllowed(t) THEN kept ELSE ended
    BY DEF handleGoalUpdated, t, held, limit, waits, kept, ended, yes
  <2>2. cancelsJob(th, ev) = /\ ~stale /\ ~again
                             /\ IF capped THEN ev.status # "active" ELSE held /\ ~allowed
    BY DEF cancelsJob, held, allowed
  <2>3. again => goalLimitRestartPending(th) OBVIOUS
  <2>4. capped => automaticGoalLimitStopped(th) OBVIOUS
  <2> HIDE DEF stale, again, capped, after
  <2> QED BY <1>5, <2>1, <2>2, <2>3, <2>4
<1>7. ASSUME NEW h \in BOOLEAN
      PROVE  LET s == [t EXCEPT !.GoalHeld = h]
             IN  /\ s \in ThreadState /\ s.GoalHeld = h
                 /\ s.Pending = th.Pending /\ s.Awaiting = th.Awaiting /\ s.Stopped = th.Stopped
                 /\ s.RecoveryStartedAt = th.RecoveryStartedAt
                 /\ s.GoalStatus = ev.status /\ s.GoalUpdatedAt = ev.updatedAt
  <2>1. [t EXCEPT !.GoalHeld = h] \in ThreadState BY <1>2 DEF ThreadState
  <2> HIDE DEF t
  <2>2. LET s == [t EXCEPT !.GoalHeld = h]
        IN  /\ s.GoalHeld = h
            /\ s.Pending = th.Pending /\ s.Awaiting = th.Awaiting /\ s.Stopped = th.Stopped
            /\ s.RecoveryStartedAt = th.RecoveryStartedAt
            /\ s.GoalStatus = ev.status /\ s.GoalUpdatedAt = ev.updatedAt
    BY <1>2 DEF ThreadState
  <2> QED BY <2>1, <2>2
<1>8. ASSUME NEW s, s.Pending = th.Pending, s.Awaiting = th.Awaiting, s.Stopped = th.Stopped,
             s.RecoveryStartedAt = th.RecoveryStartedAt
      PROVE  Traces(i, s) /\ ~BlockFailed(s)
  BY <1>1, <1>8 DEF Traces, liveRetry, BlockFailed
<1>9. CASE after = th BY <1>1, <1>9
<1>10. CASE goalLimitRestartPending(th) /\ after = waits
  <2>1. /\ after.Pending = th.Pending /\ after.Awaiting = th.Awaiting /\ after.Stopped = th.Stopped
        /\ after.RecoveryStartedAt = th.RecoveryStartedAt
    BY <1>4, <1>7, <1>10
  <2> HIDE DEF after, t, waits
  <2>2. liveRetry(th) # Nil /\ liveRetry(th).GoalLimitRestart
    BY <1>10, PendingFacts DEF goalLimitRestartPending, liveRetry
  <2>3. i.restart \/ Since(i.at, th.RecoveryStartedAt) BY <1>1, <2>2 DEF Traces
  <2>4. Heeds(i, after) BY <2>1, <2>3 DEF Heeds
  <2> QED BY <1>8, <2>1, <2>4
<1>11. CASE /\ automaticGoalLimitStopped(th) /\ after = limit
            /\ ev.status # "active" => cancelsJob(th, ev)
  <2>1. th.Pending = Nil /\ th.Awaiting = Nil
    BY <1>11, PendingFacts, AwaitingFacts DEF automaticGoalLimitStopped
  <2>2. th.Stopped \in StoppedRetry BY <1>1, <1>11 DEF automaticGoalLimitStopped, ThreadState
  <2> DEFINE named == [th.Stopped EXCEPT !.Reason = "goal_empty_response_limit"]
  <2>3. named.Reason = "goal_empty_response_limit" BY <2>2 DEF StoppedRetry
  <2> HIDE DEF named
  <2>4. /\ after.Pending = Nil /\ after.Awaiting = Nil
        /\ after.Stopped \in {th.Stopped, Nil, named}
        /\ ev.status = "active" => ~after.GoalHeld
    <3>1. ev.status = "active" => th.Stopped.Reason # "goal_empty_response_limit_block_failed"
      BY <1>1, <1>11 DEF BlockFailed, automaticGoalLimitStopped
    <3> HIDE DEF t
    <3>2. after \in {[t EXCEPT !.GoalHeld = FALSE],
                     [t EXCEPT !.Stopped = Nil, !.RecoveryAttempts = 0, !.ConsecutiveRetries = 0,
                               !.CurrentTurnProgress = FALSE, !.GoalHeld = FALSE]}
          \/ /\ ev.status # "active"
             /\ after = [t EXCEPT !.GoalStop = Nil, !.GoalHeld = TRUE, !.Stopped = named]
      BY <1>2, <1>11, <3>1 DEF goalUpdatedAfterLimit, ThreadState, named
    <3> HIDE DEF after, limit
    <3> QED BY <1>2, <2>1, <3>2 DEF ThreadState
  <2> HIDE DEF after, limit
  <2>5. Traces(i, after) BY <2>4 DEF Traces, liveRetry
  <2>6. ~BlockFailed(after) BY <1>1, <2>3, <2>4 DEF BlockFailed
  <2>7. Heeds(i, after) BY <1>11, <2>4 DEF Heeds
  <2> QED BY <2>5, <2>6, <2>7
<1>12. CASE (~held \/ allowed) /\ after = kept
  <2>1. /\ after.Pending = th.Pending /\ after.Awaiting = th.Awaiting /\ after.Stopped = th.Stopped
        /\ after.RecoveryStartedAt = th.RecoveryStartedAt /\ after.GoalHeld = held
        /\ after.GoalStatus = ev.status /\ after.GoalUpdatedAt = ev.updatedAt
    BY <1>4, <1>7, <1>12
  <2>2. allowed => \/ heldConversationAllowed(ev.status, ev.updatedAt, i.origin)
                   \/ Since(i.at, th.RecoveryStartedAt)
    BY <1>1, TracedAllowed
  <2> HIDE DEF after, t, kept, held, allowed
  <2>3. Heeds(i, after) BY <1>12, <2>1, <2>2 DEF Heeds
  <2> QED BY <1>8, <2>1, <2>3
<1>13. CASE after = ended /\ cancelsJob(th, ev)
  <2>1. Over(ended) BY <1>4, <1>7, ResetGoal
  <2> HIDE DEF ended, after
  <2>2. Traces(i, after) /\ ~BlockFailed(after) BY <1>13, <2>1 DEF Over, Traces, liveRetry
  <2>3. Heeds(i, after) BY <1>13 DEF Heeds
  <2> QED BY <2>2, <2>3
<1> QED BY <1>6, <1>9, <1>10, <1>11, <1>12, <1>13

----------------------------------------------------------------------------
(* The steps of the tick, for a thread that has a job.                     *)

LEMMA PromotedFollows ==
    ASSUME Inv, NEW blocks \in firstDue(stopDue, slots),
           NEW chosen \in firstDue(pendingDueAt(active \cup blocks), slots - Cardinality(blocks)),
           Chosen(blocks, chosen), NEW t \in Threads, t \in active, NEW time
    PROVE  Follows(threads[t], threads'[t], time)
<1> DEFINE busy == active \cup blocks
           th == threads[t]
           limit == "recovery_time_limit"
<1>1. chosen \subseteq candidates(busy) BY ChosenDue
<1>2. t \notin chosen BY <1>1 DEF candidates, dispatchable
<1>3. threads'[t] \in {clearHeldRetry(th), stopPendingForController(th, limit), th}
  BY <1>2 DEF Chosen, promoted
<1>4. Sound(th) BY InvFacts
<1>5. limit # "goal_empty_response_limit_block_failed" OBVIOUS
<1> HIDE DEF limit, th
<1>6. /\ Follows(th, clearHeldRetry(th), time)
      /\ Follows(th, stopPendingForController(th, limit), time)
      /\ Follows(th, th, time)
  BY <1>4, <1>5, DispatchFollows, SameFollows
<1> QED BY <1>3, <1>6 DEF th

LEMMA DispatchStepFollows ==
    ASSUME Inv, Dispatch, NEW t \in Threads, t \in active, NEW time
    PROVE  Follows(threads[t], threads'[t], time)
<1>1. CASE UNCHANGED threads BY <1>1, SameFollows
<1>2. CASE threads' = stoppedForTransport
  <2> DEFINE th == threads[t]
             reason == noTransportReason
             stopped == stopPendingForController(th, reason)
  <2>1. threads'[t] \in {th, stopped} BY <1>2 DEF stoppedForTransport
  <2>2. reason # "goal_empty_response_limit_block_failed"
    BY DEF noTransportReason, controllerFailureNeedsFailOpen
  <2>3. Sound(th) BY InvFacts
  <2> HIDE DEF reason, th
  <2>4. Follows(th, stopped, time) /\ Follows(th, th, time)
    BY <2>2, <2>3, DispatchFollows, SameFollows
  <2> QED BY <2>1, <2>4 DEF th
<1>3. CASE \E blocks \in firstDue(stopDue, slots) :
              \E chosen \in firstDue(pendingDueAt(active \cup blocks), slots - Cardinality(blocks)) :
                 Chosen(blocks, chosen)
  BY <1>3, PromotedFollows
<1> QED BY <1>1, <1>2, <1>3, DispatchForms

LEMMA TickFollows ==
    ASSUME Inv, Tick, NEW t \in Threads, t \in active, ~HandleEvent(t)
    PROVE  Follows(threads[t], threads'[t], tickNow')
<1> DEFINE th == threads[t]
           time == tickNow'
<1> HIDE DEF time
<1>1. /\ Sound(th) /\ DOMAIN threads = Threads
      /\ config \in Config /\ configFile \in Config /\ now \in Nat /\ tickNow \in Nat
  BY InvFacts
<1>2. Follows(th, th, time) BY SameFollows
<1>3. CASE threads'[t] = th BY <1>2, <1>3 DEF time
<1>4. CASE TickBegin \/ LatchedFailure \/ ControllerProbe \/ MemoryLimitExceeded
  BY <1>3, <1>4 DEF TickBegin, LatchedFailure, ControllerProbe, MemoryLimitExceeded, memoryVars
<1>5. CASE TickScan
  <2>1. threads'[t] = reloadLimits(th, configFile, now) BY <1>5 DEF TickScan
  <2> HIDE DEF th
  <2>2. Follows(th, reloadLimits(th, configFile, now), time) BY <1>1, ReloadFollows
  <2> QED BY <2>1, <2>2 DEF th, time
<1>6. CASE \E u \in Threads : HandleEvent(u)
  BY <1>1, <1>3, <1>6 DEF HandleEvent
<1>7. CASE Reopen \/ EndControls BY <1>3, <1>7 DEF Reopen, EndControls
<1>8. CASE ControlCommand
  <2> DEFINE c == Head(commands)
             after == applyControlCommand(th, c.action, tickNow, config)
  <2>1. threads'[t] = IF t = c.thread THEN after ELSE th BY <1>1, <1>8 DEF ControlCommand
  <2>2. time = tickNow BY <1>8 DEF ControlCommand, tickVars, time
  <2> HIDE DEF c
  <2>3. Follows(th, after, tickNow) BY <1>1, CommandFollows
  <2> QED BY <1>3, <2>1, <2>2, <2>3 DEF time
<1>9. CASE CollectProbes
  <2> DEFINE after == [th EXCEPT !.Awaiting = [@ EXCEPT !.LastLifecycleCheckAt = tickNow]]
  <2>1. \/ threads'[t] = th
        \/ th.Awaiting # Nil /\ threads'[t] = after
    BY <1>9 DEF CollectProbes, lifecycleDue
  <2>2. th.Awaiting # Nil => Follows(th, after, time) BY <1>1, CheckFollows
  <2> QED BY <1>3, <2>1, <2>2 DEF time
<1>10. CASE \E p \in probes : ProbeLifecycle(p)
  <2>1. PICK p \in probes : ProbeLifecycle(p) BY <1>10
  <2>2. time = tickNow BY <2>1 DEF ProbeLifecycle, time
  <2>3. \/ threads'[t] = th
        \/ /\ th.Awaiting # Nil
           /\ \/ \E reason \in ErrorReasons : threads'[t] = probeFailed(th, reason, config)
              \/ threads'[t] = probeFoundActive(th)
              \/ threads'[t] = probeFoundIdle(th, tickNow, config)
    BY <1>1, <2>1 DEF ProbeLifecycle, probeMatches
  <2> HIDE DEF th
  <2>4. ASSUME th.Awaiting # Nil, NEW reason \in ControllerReasons
        PROVE  /\ Follows(th, probeFailed(th, reason, config), tickNow)
               /\ Follows(th, probeFoundActive(th), tickNow)
               /\ Follows(th, probeFoundIdle(th, tickNow, config), tickNow)
    <3>1. reason # "goal_empty_response_limit_block_failed" BY DEF ControllerReasons
    <3> QED BY <1>1, <2>4, <3>1, ProbeFollows
  <2>5. ErrorReasons \subseteq ControllerReasons /\ "codex_not_running" \in ControllerReasons
    BY DaemonAssumption DEF ControllerReasons
  <2>6. CASE threads'[t] = th BY <1>3, <2>6 DEF th
  <2>7. ASSUME th.Awaiting # Nil,
               \/ \E reason \in ErrorReasons : threads'[t] = probeFailed(th, reason, config)
               \/ threads'[t] = probeFoundActive(th)
               \/ threads'[t] = probeFoundIdle(th, tickNow, config)
        PROVE  Follows(th, threads'[t], tickNow)
    BY <2>4, <2>5, <2>7
  <2> QED BY <2>2, <2>3, <2>6, <2>7 DEF th, time
<1>11. CASE Dispatch BY <1>11, DispatchStepFollows
<1> QED BY <1>4, <1>5, <1>6, <1>7, <1>8, <1>9, <1>10, <1>11 DEF Tick

\* No record but a goal update takes up the goal, and the completion of a turn goes on
\* with the conversation of the chain if that has one of its own.
LEMMA EventFollows ==
    ASSUME NEW th, Sound(th), NEW ev \in Event, ev.kind # "thread_goal_updated",
           ev.kind = "task_complete" /\ ~Clean(th) => externalTurnOrigin(th, ev) = 0,
           NEW time \in Nat, NEW cfg \in Config
    PROVE  Follows(th, handleEvent(th, ev, time, cfg), time)
<1>1. /\ Follows(th, handleTaskStarted(th, ev), time)
      /\ Follows(th, handleTaskUserInput(th, ev), time)
      /\ Follows(th, handleTaskProgress(th, ev), time)
      /\ Follows(th, handleSubagentRecoveryNotice(th, ev), time)
      /\ Follows(th, handleTurnAborted(th, ev), time)
  BY StartedFollows, UserInputFollows, ProgressFollows, NoticeFollows, AbortedFollows
<1>2. ev.kind = "task_complete" => Follows(th, handleTaskComplete(th, ev, time, cfg), time)
  BY CompleteFollows
<1> QED BY <1>1, <1>2 DEF handleEvent, Event, EventKinds

----------------------------------------------------------------------------
(* No step lets a job send for a conversation that the goal has come to    *)
(* hold.                                                                   *)

LEMMA HandleEventUnheld ==
    ASSUME Inv, Timely, OuterInv, UnheldInv, NEW t \in Threads, HandleEvent(t), NEW i \in jobs'
    PROVE  Unheld(i, threads'[i.thread])
<1> DEFINE ev == Head(batch[t])
           before == threads[t]
           after == handleEvent(before, ev, tickNow, config)
           s == batch[t] \o rollout[t]
<1>1. jobs \subseteq Job BY DEF Inv, MemoryInv, SoundJob
<1>2. /\ phase = "events" /\ batch[t] # <<>>
      /\ threads' = [threads EXCEPT ![t] = after]
      /\ jobs' = IF cancelsJob(before, ev) THEN cancelJobs(jobs, t) ELSE jobs
  BY DEF HandleEvent
<1>3. PICK j \in jobs : /\ Stays(j, i)
                        /\ cancelsJob(before, ev) /\ i.thread = t => i.cancelled \/ i.pc = "launched"
  <2>1. \A j : Stays(j, j) BY DEF SameJob, Stays
  <2>2. CASE cancelsJob(before, ev) BY <1>1, <1>2, <2>2, CancelledStays
  <2>3. CASE ~cancelsJob(before, ev) BY <1>2, <2>1, <2>3
  <2> QED BY <2>2, <2>3
<1>4. Unheld(j, threads[j.thread]) BY DEF UnheldInv
<1>5. i.thread = j.thread /\ j.thread \in Threads /\ i.at = j.at
  BY <1>3, JobFacts DEF Stays, SameJob
<1>6. Unheld(i, threads[j.thread]) BY <1>3, <1>4, StaysUnheld
<1>7. CASE j.thread # t
  <2>1. threads'[j.thread] = threads[j.thread] BY <1>2, <1>5, <1>7, InvFacts
  <2> QED BY <1>5, <1>6, <2>1
<1>8. CASE j.thread = t
  <2>1. Sound(before) /\ threads'[t] = after /\ tickNow \in Nat /\ config \in Config
    BY <1>2, InvFacts
  <2>2. ev \in Event BY <1>2, SeqFacts, HeadTailProperties
  <2>3. s # <<>> /\ Head(s) = ev /\ s \in Seq(Event) BY <1>2, SeqFacts, QueueFacts
  <2>4. 1 \in DOMAIN s /\ s[1] = ev BY <2>3, FirstRecord
  <2>5. ev.kind = "task_complete" /\ ~Clean(before) => externalTurnOrigin(before, ev) = 0
    <3>1. Outer(before, s, turn[t], nextTurn) BY DEF OuterInv
    <3>2. ASSUME ev.kind = "task_complete", ~Clean(before), before.LastExternalTurnID # 0
          PROVE  ev.turn # before.LastExternalTurnID
      BY <2>4, <3>1, <3>2 DEF Outer, Past
    <3> QED BY <3>2 DEF externalTurnOrigin
  <2>6. Since(i.at, tickNow) BY <1>2, <1>5 DEF Timely
  <2>7. Unheld(i, before) BY <1>6, <1>8
  <2>8. cancelsJob(before, ev) => i.cancelled \/ i.pc # "running" BY <1>3, <1>5, <1>8
  <2> HIDE DEF ev, before, s
  <2>9. CASE ev.kind = "thread_goal_updated"
    <3>1. after = handleGoalUpdated(before, ev) BY <2>9 DEF handleEvent
    <3>2. Unheld(i, handleGoalUpdated(before, ev))
      BY <2>1, <2>2, <2>7, <2>8, <2>9, GoalUpdatedUnheld
    <3> QED BY <1>5, <1>8, <2>1, <3>1, <3>2
  <2>10. CASE ev.kind # "thread_goal_updated"
    <3>1. Follows(before, after, tickNow) BY <2>1, <2>2, <2>5, <2>10, EventFollows
    <3> HIDE DEF after
    <3>2. Unheld(i, after) BY <2>6, <2>7, <3>1, FollowsUnheld
    <3> QED BY <1>5, <1>8, <2>1, <3>2
  <2> QED BY <2>9, <2>10
<1> QED BY <1>7, <1>8

\* Any other step of the tick, for a job that it does not launch.
LEMMA TickUnheld ==
    ASSUME Inv, Slots, Timely, Timely', UnheldInv, Tick, \A t \in Threads : ~HandleEvent(t),
           NEW j \in jobs, NEW i \in jobs', Stays(j, i)
    PROVE  Unheld(i, threads'[i.thread])
<1> DEFINE t == j.thread
           before == threads[t]
           after == threads'[t]
           time == tickNow'
<1>1. t \in Threads /\ t \in active BY JobFacts DEF Slots
<1>2. i.thread = t /\ i.at = j.at BY DEF Stays, SameJob
<1>3. Follows(before, after, time) BY <1>1, TickFollows
<1>4. Since(i.at, time) BY <1>2, TickSince
<1>5. Unheld(i, before) BY StaysUnheld DEF UnheldInv
<1> HIDE DEF before, after, time
<1>6. Unheld(i, after) BY <1>3, <1>4, <1>5, FollowsUnheld
<1> QED BY <1>2, <1>6 DEF after

\* The job of a new dispatch.
LEMMA LaunchedUnheld ==
    ASSUME Inv, NEW t \in Threads, threads[t].Pending # Nil,
           threads'[t] = startDispatch(threads[t], tickNow, config)
    PROVE  Unheld(recoveryJob(t), threads'[t])
<1> DEFINE th == threads[t]
           after == threads'[t]
           j == recoveryJob(t)
<1>1. Sound(th) /\ th \in ThreadState /\ th.Stopped = Nil BY InvFacts, PendingFacts
<1>2. /\ j.origin = th.Pending.fault.OriginTurnStartedAt
      /\ j.restart = th.Pending.GoalLimitRestart /\ j.pc = "launched"
  BY DEF recoveryJob
<1>3. /\ after.Pending = Nil /\ after.Stopped = Nil
      /\ after.Awaiting.fault = th.Pending.fault
      /\ after.Awaiting.GoalLimitRestart = th.Pending.GoalLimitRestart
  BY <1>1 DEF startDispatch, ThreadState
<1> HIDE DEF th, after, j
<1>4. liveRetry(after) = after.Awaiting BY <1>3 DEF liveRetry
<1>5. Traces(j, after) BY <1>2, <1>3, <1>4 DEF Traces
<1>6. Heeds(j, after) BY <1>2 DEF Heeds
<1>7. ~BlockFailed(after) BY <1>3 DEF BlockFailed
<1> QED BY <1>5, <1>6, <1>7 DEF Unheld, after, j

LEMMA DispatchUnheld ==
    ASSUME Inv, Slots, Timely, Timely', UnheldInv, Dispatch, NEW i \in jobs'
    PROVE  Unheld(i, threads'[i.thread])
<1>1. \A j : Stays(j, j) BY DEF SameJob, Stays
<1>2. Tick /\ \A t \in Threads : ~HandleEvent(t) BY DEF Tick, Dispatch, HandleEvent
<1>3. CASE i \in jobs BY <1>1, <1>2, <1>3, TickUnheld
<1>4. \A t : Unheld(goalBlockJob(t), threads'[t]) /\ goalBlockJob(t).thread = t
             /\ recoveryJob(t).thread = t
  BY DEF Unheld, goalBlockJob, recoveryJob
<1>5. CASE i \notin jobs /\ UNCHANGED <<threads, active, jobs>> BY <1>5
<1>6. ASSUME NEW blocks, launch(blocks, {}), i \notin jobs PROVE Unheld(i, threads'[i.thread])
  BY <1>4, <1>6 DEF launch
<1>7. ASSUME NEW blocks \in firstDue(stopDue, slots),
             NEW chosen \in firstDue(pendingDueAt(active \cup blocks), slots - Cardinality(blocks)),
             Chosen(blocks, chosen), i \notin jobs
      PROVE  Unheld(i, threads'[i.thread])
  <2> DEFINE busy == active \cup blocks
  <2>1. chosen \subseteq candidates(busy) BY ChosenDue
  <2>2. ASSUME NEW t \in chosen PROVE Unheld(recoveryJob(t), threads'[t])
    <3>1. t \in Threads /\ threads[t].Pending # Nil /\ ~heldFromDispatch(threads[t])
          /\ ~recoveryTimeExceeded(threads[t], tickNow)
      BY <2>1 DEF candidates, dispatchable, pendingDue
    <3>2. threads'[t] = startDispatch(threads[t], tickNow, config)
      BY <1>7, <3>1 DEF Chosen, promoted
    <3> QED BY <3>1, <3>2, LaunchedUnheld
  <2>3. \/ \E t : i = goalBlockJob(t)
        \/ \E t \in chosen : i = recoveryJob(t)
    BY <1>7 DEF Chosen, launch
  <2> QED BY <1>4, <2>2, <2>3
<1> QED BY <1>3, <1>5, <1>6, <1>7, DispatchForms

LEMMA NextUnheld ==
    ASSUME Inv, Slots, Timely, Timely', OuterInv, UnheldInv, [Next]_vars
    PROVE  UnheldInv'
<1> SUFFICES ASSUME NEW i \in jobs' PROVE Unheld(i, threads'[i.thread])
  BY DEF UnheldInv, Unheld, Traces, Heeds, BlockFailed
<1>1. CASE Crash BY <1>1 DEF Crash
<1>2. CASE Dispatch BY <1>2, DispatchUnheld
<1>3. CASE \E t \in Threads : HandleEvent(t) BY <1>3, HandleEventUnheld
<1>4. ASSUME NEW j \in jobs, Stays(j, i), threads'[j.thread] = threads[j.thread]
      PROVE  Unheld(i, threads'[i.thread])
  <2>1. Unheld(i, threads[j.thread]) BY <1>4, StaysUnheld DEF UnheldInv
  <2>2. i.thread = j.thread BY <1>4 DEF Stays, SameJob
  <2> QED BY <1>4, <2>1, <2>2
<1>5. CASE ~Crash /\ ~Dispatch /\ ~\E t \in Threads : HandleEvent(t)
  <2>1. PICK j \in jobs : Stays(j, i) BY <1>5, JobsStay
  <2>2. CASE Tick BY <1>5, <2>1, <2>2, TickUnheld
  <2>3. CASE \E k \in jobs : JobStep(k)
    <3>1. PICK k \in jobs : JobStep(k) BY <2>3
    <3>2. i.thread = j.thread /\ j.thread \in Threads BY <2>1, JobFacts DEF Stays, SameJob
    <3>3. \/ threads'[j.thread] = threads[j.thread]
          \/ j.thread = k.thread /\ removeJob(k)
      BY <3>1, <3>2, JobTreats
    <3>4. ~(j.thread = k.thread /\ removeJob(k)) BY <3>2 DEF removeJob, Slots
    <3> QED BY <1>4, <2>1, <3>3, <3>4
  <2>4. CASE \/ \E t \in Threads : QueueCommand(t)
             \/ TogglePause \/ EditConfig \/ Advance \/ CodexMoves \/ UNCHANGED vars
    BY <1>4, <2>1, <2>4 DEF QueueCommand, TogglePause, EditConfig, Advance, CodexMoves, vars,
       daemonVars, memoryVars
  <2> QED BY <1>5, <2>2, <2>3, <2>4 DEF Next
<1> QED BY <1>1, <1>2, <1>3, <1>5

----------------------------------------------------------------------------
(* The last turn of the user's own, against the records to come.           *)

\* A turn of the user's own ends the chain that it interrupts.
LEMMA StartedOuter ==
    ASSUME NEW th, Sound(th), NEW ev \in Event
    PROVE  LET s == handleTaskStarted(th, ev)
           IN  Clean(s) \/ (~Clean(th) /\ s.LastExternalTurnID = th.LastExternalTurnID)
<1> DEFINE s == [th EXCEPT !.LastStartedTurnID = ev.turn, !.LastStartedAt = ev.at,
                           !.CurrentTurnProgress = FALSE]
           u == [s EXCEPT !.LastExternalTurnID = ev.turn, !.LastExternalTurnAt = ev.at]
           after == handleTaskStarted(th, ev)
<1>1. th \in ThreadState BY DEF Sound
<1>2. s.LastExternalTurnID = th.LastExternalTurnID /\ DOMAIN s = DOMAIN th
      /\ u \in ThreadState
  BY <1>1 DEF ThreadState, Event
<1>3. \/ /\ th.Stopped # Nil \/ th.Awaiting # Nil \/ th.Pending # Nil
         /\ \/ after \in {th, s}
            \/ \E a : after = [s EXCEPT !.Awaiting = a]
            \/ \E a, r : after = [s EXCEPT !.Pending = Nil, !.LastAutoRetryAt = r, !.Awaiting = a]
      \/ after = resetRetryState(u)
  BY DEF handleTaskStarted, adoptTurn, automaticGoalLimitStopped, acknowledges, isRetryTurn,
     canAdoptNativeGoalTurn, canAdoptSubagentTurn
<1> HIDE DEF s, u, after
<1>4. CASE after = resetRetryState(u) BY <1>2, <1>4, ResetFacts DEF after
<1>5. ASSUME \/ after \in {th, s}
             \/ \E a : after = [s EXCEPT !.Awaiting = a]
             \/ \E a, r : after = [s EXCEPT !.Pending = Nil, !.LastAutoRetryAt = r, !.Awaiting = a]
      PROVE  after.LastExternalTurnID = th.LastExternalTurnID
  BY <1>1, <1>2, <1>5 DEF ThreadState
<1>6. th.Stopped # Nil \/ th.Awaiting # Nil \/ th.Pending # Nil => ~Clean(th) BY DEF Clean
<1> QED BY <1>3, <1>4, <1>5, <1>6 DEF after

\* No record but the completion of a turn begins a chain.
LEMMA EventClean ==
    ASSUME NEW th, Sound(th), Clean(th), NEW ev \in Event, ev.kind # "task_complete",
           NEW time \in Nat, NEW cfg \in Config
    PROVE  Clean(handleEvent(th, ev, time, cfg))
<1>1. th \in ThreadState BY DEF Sound
<1>2. Clean(handleTaskStarted(th, ev)) BY StartedOuter
<1>3. Clean(handleTaskUserInput(th, ev))
  <2>1. handleTaskUserInput(th, ev) \in {th, resetRetryState(th)} BY DEF handleTaskUserInput
  <2> QED BY <1>1, <2>1, ResetFacts
<1>4. Clean(handleTaskProgress(th, ev)) BY DEF handleTaskProgress, Clean
<1>5. Clean(handleSubagentRecoveryNotice(th, ev))
  BY <1>1 DEF handleSubagentRecoveryNotice, ThreadState, Clean
<1>6. Clean(handleTurnAborted(th, ev))
  BY AbortedHandled DEF Aborts, automaticGoalLimitStopped, Clean
<1>7. Clean(handleGoalUpdated(th, ev)) BY GoalUpdatedHandled DEF Updates
<1> QED BY <1>2, <1>3, <1>4, <1>5, <1>6, <1>7 DEF handleEvent, Event, EventKinds

\* When a turn completes, so has the last one of the user's own: it is this one or one
\* before.
LEMMA CompletedOuter ==
    ASSUME NEW th \in ThreadState, NEW seq \in Seq(Event), seq # <<>>,
           Head(seq).kind = "task_complete",
           NEW run \in Turn \cup {Nil}, NEW next \in Nat, Rising(th, seq, run, next)
    PROVE  Past(th.LastExternalTurnID, Tail(seq), run, next)
<1> DEFINE s == Tail(seq)
           ev == Head(seq)
           k == th.LastExternalTurnID
<1>1. /\ Len(seq) \in Nat /\ Len(seq) >= 1 /\ DOMAIN seq = 1..Len(seq) /\ DOMAIN s = 1..(Len(seq) - 1)
      /\ \A i \in DOMAIN s : i + 1 \in DOMAIN seq /\ s[i] = seq[i + 1]
      /\ seq[1] = ev /\ ev.turn \in Nat
      /\ \A i \in DOMAIN seq : seq[i].turn \in Nat
      /\ k \in Nat
      /\ run # Nil => run.id \in Nat
  <2>1. run # Nil => run.id \in Nat BY DEF Turn
  <2>2. k \in Nat BY DEF ThreadState
  <2> QED BY <2>1, <2>2, TailIndices
<1>2. ev.kind = "task_complete" OBVIOUS
<1> HIDE DEF s, ev, k
<1>3. 1 \in DOMAIN seq /\ 1 <= Len(seq) BY <1>1
<1>4. k <= ev.turn BY <1>1, <1>2, <1>3 DEF Rising, Awaited, k
<1>5. k < next BY DEF Rising, Below, k
<1>6. run # Nil => ev.turn < run.id BY <1>1, <1>2, <1>3 DEF Rising, Awaited
<1>7. ASSUME NEW i \in DOMAIN s, s[i].kind = "task_complete" PROVE ev.turn < s[i].turn
  <2>1. i + 1 \in DOMAIN seq /\ s[i] = seq[i + 1] /\ 1 <= (i + 1) - 1 BY <1>1
  <2>2. Awaited(seq[i + 1].turn, th, seq, (i + 1) - 1) BY <1>7, <2>1 DEF Rising
  <2> QED BY <1>1, <1>2, <1>3, <2>1, <2>2 DEF Awaited
<1>8. Past(k, s, run, next)
  <2>1. run # Nil => run.id # k BY <1>1, <1>4, <1>6
  <2>2. \A i \in DOMAIN s : s[i].kind = "task_complete" => s[i].turn # k
    BY <1>1, <1>4, <1>7
  <2> QED BY <1>5, <2>1, <2>2 DEF Past
<1> QED BY <1>8 DEF k, s

LEMMA EventOuter ==
    ASSUME NEW th, Sound(th), NEW ev \in Event, NEW time \in Nat, NEW cfg \in Config,
           NEW seq \in Seq(Event), seq # <<>>, Head(seq) = ev,
           NEW run \in Turn \cup {Nil}, NEW next \in Nat,
           Rising(th, seq, run, next), Outer(th, seq, run, next)
    PROVE  Outer(handleEvent(th, ev, time, cfg), Tail(seq), run, next)
<1> DEFINE after == handleEvent(th, ev, time, cfg)
           rest == Tail(seq)
<1>1. th \in ThreadState BY DEF Sound
<1>2. Hears(th, after, ev) BY EventHears
<1>3. ev.kind # "task_complete" /\ Clean(th) => Clean(after) BY EventClean
<1>4. ev.kind = "task_started" =>
        Clean(after) \/ (~Clean(th) /\ after.LastExternalTurnID = th.LastExternalTurnID)
  BY StartedOuter DEF handleEvent
<1>5. ev.kind = "task_complete" => Past(th.LastExternalTurnID, rest, run, next)
  BY <1>1, CompletedOuter
<1>6. Past(th.LastExternalTurnID, seq, run, next) => Past(th.LastExternalTurnID, rest, run, next)
  <2>1. \A i \in DOMAIN rest : i + 1 \in DOMAIN seq /\ rest[i] = seq[i + 1] BY TailIndices
  <2> HIDE DEF rest
  <2> QED BY <2>1 DEF Past
<1> HIDE DEF after, rest
<1>7. CASE ev.kind = "task_started" BY <1>4, <1>6, <1>7 DEF Outer, after, rest
<1>8. CASE ev.kind = "task_complete"
  <2>1. after.LastExternalTurnID = th.LastExternalTurnID BY <1>2, <1>8 DEF Hears, SameTurns
  <2> QED BY <1>5, <1>8, <2>1 DEF Outer, after, rest
<1>9. CASE ev.kind \notin {"task_started", "task_complete"}
  <2>1. after.LastExternalTurnID = th.LastExternalTurnID BY <1>2, <1>9 DEF Hears, SameTurns
  <2> QED BY <1>3, <1>6, <1>9, <2>1 DEF Outer, after, rest
<1> QED BY <1>7, <1>8, <1>9

\* A handler that hears nothing of a turn.
LEMMA KeepsOuter ==
    ASSUME NEW th \in ThreadState, NEW after, Keeps(th, after),
           NEW seq, NEW run, NEW next, NEW clock, NEW seq2, NEW run2, NEW next2, NEW clock2,
           Ordered(seq, run, next, clock), Outer(th, seq, run, next),
           Grows(seq, run, next, clock, seq2, run2, next2, clock2)
    PROVE  Outer(after, seq2, run2, next2)
<1>1. th.LastExternalTurnID \in Nat BY DEF ThreadState
<1>2. /\ after.LastExternalTurnID = th.LastExternalTurnID
      /\ Clean(th) => Clean(after)
  BY DEF Keeps, SameTurns
<1>3. Past(th.LastExternalTurnID, seq, run, next) => Past(th.LastExternalTurnID, seq2, run2, next2)
  BY <1>1 DEF Grows
<1> QED BY <1>2, <1>3 DEF Outer

LEMMA RestartOuter ==
    ASSUME Inv, OuterInv, Crash, NEW t \in Threads
    PROVE  Outer(threads'[t], batch'[t] \o rollout'[t], turn'[t], nextTurn')
<1> DEFINE th == disk[t]
           after == reconcileStartupState(loadThread(th), now)
           s == unsaved[t] \o rollout[t]
<1>1. Sound(th) BY SoundMember DEF Inv, FileInv
<1>2. Outer(th, s, turn[t], nextTurn) BY DEF OuterInv, Crash
<1>3. /\ threads'[t] = after /\ batch' = emptyQueues /\ rollout'[t] = s
      /\ UNCHANGED <<turn, nextTurn>>
  BY DEF Crash
<1>4. s \in Seq(Event) /\ batch'[t] = <<>> BY <1>3, SeqFacts, QueueFacts
<1>5. batch'[t] \o rollout'[t] = s BY <1>3, <1>4, QueueFacts
<1>6. now \in Nat BY InvFacts
<1> HIDE DEF th, s
<1>7. Keeps(th, after) BY <1>1, <1>6, RestartCarries DEF Carries
<1> HIDE DEF after
<1>8. Outer(after, s, turn[t], nextTurn) BY <1>2, <1>7 DEF Keeps, SameTurns, Outer
<1> QED BY <1>3, <1>5, <1>8

LEMMA MemoryOuter ==
    ASSUME Inv, NothingHeld, Queued, HistoryInv, RisingInv, OuterInv, [Next]_vars, NEW t \in Threads
    PROVE  Outer(threads'[t], batch'[t] \o rollout'[t], turn'[t], nextTurn')
<1> DEFINE s == batch[t] \o rollout[t]
           s2 == batch'[t] \o rollout'[t]
           th == threads[t]
           run == turn[t]
<1>1. Outer(th, s, run, nextTurn) /\ Rising(th, s, run, nextTurn) BY DEF OuterInv, RisingInv
<1>2. s \in Seq(Event) BY SeqFacts, QueueFacts
<1>3. Sound(th) /\ th \in ThreadState /\ config \in Config /\ tickNow \in Nat BY InvFacts
<1>4. run \in Turn \cup {Nil} /\ nextTurn \in Nat BY DEF Inv, CodexInv, CodexTypeOK
<1>5. CASE Crash BY <1>5, RestartOuter
<1>6. CASE HandleEvent(t)
  <2>1. PICK ev, after : HandledBy(t, ev, after) BY <1>6, HandlesHead
  <2>2. s # <<>> /\ Head(s) = ev /\ s2 = Tail(s)
    <3>1. batch[t] # <<>> /\ ev = Head(batch[t]) /\ batch'[t] = Tail(batch[t]) /\ rollout' = rollout
      BY <2>1 DEF HandledBy
    <3> DEFINE q == batch[t]
               r == rollout[t]
    <3>2. q \in Seq(Event) /\ r \in Seq(Event) BY SeqFacts
    <3>3. s = q \o r /\ s2 = Tail(q) \o r /\ q # <<>> /\ ev = Head(q) BY <3>1
    <3> HIDE DEF q, r, s, s2
    <3>4. q \o r # <<>> /\ Head(q \o r) = Head(q) /\ Tail(q \o r) = Tail(q) \o r
      BY <3>2, <3>3, QueueFacts
    <3> QED BY <3>3, <3>4
  <2>3. /\ ev \in Event /\ after = handleEvent(th, ev, tickNow, config)
        /\ threads'[t] = after /\ turn'[t] = run /\ nextTurn' = nextTurn
    BY <2>1 DEF HandledBy
  <2> HIDE DEF s, s2, th, run
  <2>4. Outer(after, Tail(s), run, nextTurn)
    BY <1>1, <1>2, <1>3, <1>4, <2>2, <2>3, EventOuter
  <2> QED BY <2>2, <2>3, <2>4 DEF s2
<1>7. CASE ~Crash /\ ~HandleEvent(t)
  <2>1. Grows(s, run, nextTurn, now, s2, turn'[t], nextTurn', now')
    BY <1>7, BatchGrows DEF AllGrow
  <2>2. Ordered(s, run, nextTurn, now) BY DEF HistoryInv, History, Tells
  <2>3. Keeps(th, threads'[t]) BY <1>7, NextLeaves DEF Leaves
  <2> HIDE DEF s, s2, th, run
  <2>4. Outer(threads'[t], s2, turn'[t], nextTurn')
    BY <1>1, <1>3, <2>1, <2>2, <2>3, KeepsOuter
  <2> QED BY <2>4 DEF s2
<1> QED BY <1>5, <1>6, <1>7

LEMMA NextOuter ==
    ASSUME Inv, NothingHeld, Queued, HistoryInv, RisingInv, OuterInv, [Next]_vars
    PROVE  OuterInv'
<1> SUFFICES ASSUME NEW t \in Threads
             PROVE  /\ Outer(threads'[t], batch'[t] \o rollout'[t], turn'[t], nextTurn')
                    /\ "crash" \in Features
                          => Outer(disk'[t], unsaved'[t] \o rollout'[t], turn'[t], nextTurn')
  BY DEF OuterInv
<1>1. Outer(threads'[t], batch'[t] \o rollout'[t], turn'[t], nextTurn') BY MemoryOuter
<1>2. ASSUME "crash" \in Features
      PROVE  Outer(disk'[t], unsaved'[t] \o rollout'[t], turn'[t], nextTurn')
  <2>1. CASE AllGrow(unsaved, unsaved') /\ UNCHANGED disk
    <3> DEFINE s == unsaved[t] \o rollout[t]
               s2 == unsaved'[t] \o rollout'[t]
               th == disk[t]
    <3>1. Outer(th, s, turn[t], nextTurn) /\ Ordered(s, turn[t], nextTurn, now)
      BY <1>2 DEF OuterInv, HistoryInv, History, Tells
    <3>2. Grows(s, turn[t], nextTurn, now, s2, turn'[t], nextTurn', now') BY <2>1 DEF AllGrow
    <3>3. th \in ThreadState /\ disk'[t] = th BY <2>1, InvFacts
    <3> HIDE DEF s, s2, th
    <3>4. Keeps(th, th) BY DEF Keeps, SameTurns
    <3>5. Outer(th, s2, turn'[t], nextTurn') BY <3>1, <3>2, <3>3, <3>4, KeepsOuter
    <3> QED BY <3>3, <3>5 DEF s2
  <2>2. CASE Saved /\ UNCHANGED batch
    <3>1. disk' = threads' /\ unsaved' = batch' BY <2>2 DEF Saved, Queued
    <3> QED BY <1>1, <3>1
  <2> QED BY <1>2, <2>1, <2>2, UnsavedGrows
<1> QED BY <1>1, <1>2

LEMMA InitOuter == Init => OuterInv /\ UnheldInv
<1> SUFFICES ASSUME Init PROVE OuterInv /\ UnheldInv OBVIOUS
<1>1. threads = [t \in Threads |-> NewThread] /\ disk = threads /\ jobs = {}
  BY DEF Init, CodexInit
<1>2. NewThread.LastExternalTurnID = 0 BY DEF NewThread
<1> QED BY <1>1, <1>2 DEF OuterInv, Outer, UnheldInv

\* When the watchdog takes the failure of a turn for one of the user's own, it is one:
\* of a chain that is under way the last such turn has completed before, in memory and,
\* where a crash may come, in state.json (handleTaskStartedLocked, externalTurnOrigin).
LEMMA OuterHolds == Spec => []OuterInv
<1>1. Init => OuterInv BY InitOuter
<1>2. Inv /\ NothingHeld /\ JobHistory /\ RisingInv /\ OuterInv /\ [Next]_vars => OuterInv'
  BY NextOuter DEF JobHistory
<1> QED BY InvHolds, NothingHeldHolds, JobHistoryHolds, RisingHolds, <1>1, <1>2, PTL DEF Spec

LEMMA UnheldHolds == Spec => []UnheldInv
<1>1. Init => UnheldInv BY InitOuter
<1>2. Inv /\ JobHistory /\ JobHistory' /\ OuterInv /\ UnheldInv /\ [Next]_vars => UnheldInv'
  BY NextUnheld DEF JobHistory
<1> QED BY InvHolds, JobHistoryHolds, OuterHolds, <1>1, <1>2, PTL DEF Spec

\* While the goal holds a thread, no job can still send its request, but for the restart
\* of a chain that a goal limit had stopped, for a conversation of the user's own that the
\* hold leaves alone, and for a late job of a chain that the thread has replaced
\* (handleGoalUpdatedLocked, runJob).
THEOREM HeldGoalStopsJobsHolds == Spec => []HeldGoalStopsJobs
<1>1. UnheldInv => HeldGoalStopsJobs
  <2> SUFFICES ASSUME UnheldInv, NEW j \in jobs,
                      j.kind = "recovery", j.pc = "running", ~j.cancelled, ~j.restart,
                      threads[j.thread].GoalHeld
               PROVE  \/ heldConversationAllowed(threads[j.thread].GoalStatus,
                                                 threads[j.thread].GoalUpdatedAt, j.origin)
                      \/ newChainSince(j)
    BY DEF HeldGoalStopsJobs
  <2>1. Heeds(j, threads[j.thread]) BY DEF UnheldInv, Unheld
  <2> QED BY <2>1 DEF Heeds, newChainSince, Since
<1> QED BY UnheldHolds, <1>1, PTL
=============================================================================
