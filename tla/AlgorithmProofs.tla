-------------------------- MODULE AlgorithmProofs --------------------------
(***************************************************************************)
(* The algorithms that run alone, for every input: the loop that computes  *)
(* the wait before a retry, and the merge of an older state.json.          *)
(*                                                                         *)
(* The loop is a recursive function, so its proof goes by induction (see   *)
(* Lemmas).                                                                *)
(***************************************************************************)
EXTENDS MCAlgorithms, Lemmas

----------------------------------------------------------------------------
(* The wait before a retry.                                                *)

\* The equations of PowerOfTwo, which is what the wait grows by.
LEMMA PowerOfTwoFacts ==
    /\ PowerOfTwo[0] = 1
    /\ \A n \in Nat : PowerOfTwo[n] \in Nat \ {0} /\ PowerOfTwo[n + 1] = 2 * PowerOfTwo[n]
<1> DEFINE first == 1
           step == [p \in Nat \X Nat |-> 2 * p[2]]
<1>0. first \in Nat OBVIOUS
<1>1. step \in [Nat \X Nat -> Nat] /\ \A n, x \in Nat : step[<<n, x>>] = 2 * x OBVIOUS
<1> HIDE DEF first, step
<1>2. PICK g : Iterates(g, Nat, first, step) BY <1>0, <1>1, Recursion
<1>3. g \in [Nat -> Nat] /\ g[0] = 1 /\ \A n \in Nat : g[n + 1] = 2 * g[n] BY <1>1, <1>2 DEF Iterates, first
<1>4. g = [n \in Nat |-> IF n = 0 THEN 1 ELSE 2 * g[n - 1]]
  <2>1. ASSUME NEW n \in Nat, n # 0 PROVE g[n] = 2 * g[n - 1]
    <3>1. n - 1 \in Nat /\ n = (n - 1) + 1 BY <2>1
    <3> QED BY <1>3, <3>1
  <2> QED BY <1>3, <2>1
<1>5. PowerOfTwo = [n \in Nat |-> IF n = 0 THEN 1 ELSE 2 * PowerOfTwo[n - 1]]
  BY <1>4 DEF PowerOfTwo
<1>6. PowerOfTwo[0] = 1 BY <1>5
<1>7. ASSUME NEW n \in Nat PROVE PowerOfTwo[n + 1] = 2 * PowerOfTwo[n]
  <2>1. n + 1 \in Nat /\ n + 1 # 0 /\ (n + 1) - 1 = n OBVIOUS
  <2>2. PowerOfTwo[n + 1] = 2 * PowerOfTwo[(n + 1) - 1] BY <1>5, <2>1
  <2> QED BY <2>1, <2>2
<1>8. \A n \in Nat : PowerOfTwo[n] \in Nat \ {0}
  <2> DEFINE S == {n \in Nat : PowerOfTwo[n] \in Nat \ {0}}
  <2>1. 0 \in S BY <1>6
  <2>2. \A n \in Nat : n \in S => n + 1 \in S BY <1>7
  <2> HIDE DEF S
  <2>3. Nat \subseteq S BY <2>1, <2>2, Induction
  <2> QED BY <2>3 DEF S
<1> QED BY <1>6, <1>7, <1>8

\* What an iteration of the loop of retryDelay does to the wait.
grow(c, d) ==
    IF c.DelayStrategy = "linear"
    THEN IF d >= c.MaxDelay THEN d
         ELSE IF d + c.DelayIncrement >= c.MaxDelay THEN c.MaxDelay
         ELSE d + c.DelayIncrement
    ELSE IF 2 * d >= c.MaxDelay THEN c.MaxDelay ELSE 2 * d

\* What validate() of config.go guarantees about the delays.
LEMMA ConfigFacts ==
    ASSUME NEW c \in Config
    PROVE  /\ c.InitialDelay \in Nat \ {0} /\ c.MaxDelay \in Nat /\ c.DelayIncrement \in Nat \ {0}
           /\ c.DelayStrategy \in {"exponential", "linear", "fixed"}
           /\ c.DelayStrategy # "fixed" => c.MaxDelay >= c.InitialDelay
BY DEF Config, Positive, DelayStrategies

\* The loop of retryDelay, one iteration at a time.
LEMMA LoopFacts ==
    ASSUME NEW c \in Config, c.DelayStrategy # "fixed"
    PROVE  /\ retryDelayLoop(0, c) = c.InitialDelay /\ retryDelayLoop(1, c) = c.InitialDelay
           /\ \A n \in Nat : retryDelayLoop(n + 2, c) = grow(c, retryDelayLoop(n + 1, c))
<1> DEFINE first == c.InitialDelay
           delay == CHOOSE f : f = [i \in Nat |-> IF i <= 1 THEN first ELSE grow(c, f[i - 1])]
           step == [p \in Nat \X Nat |-> grow(c, p[2])]
<1>1. \A n : retryDelayLoop(n, c) = delay[n] BY DEF retryDelayLoop, grow
<1>2. first \in Nat /\ \A d \in Nat : grow(c, d) \in Nat BY ConfigFacts DEF grow
<1>3. step \in [Nat \X Nat -> Nat] /\ \A n, x \in Nat : step[<<n, x>>] = grow(c, x) BY <1>2
<1> HIDE DEF step, first
<1>4. PICK g : Iterates(g, Nat, first, step) BY <1>2, <1>3, Recursion
<1>5. g[0] = first /\ \A n \in Nat : g[n + 1] = grow(c, g[n]) BY <1>3, <1>4 DEF Iterates
<1> DEFINE f == [i \in Nat |-> IF i <= 1 THEN first ELSE g[i - 1]]
<1>6. f = [i \in Nat |-> IF i <= 1 THEN first ELSE grow(c, f[i - 1])]
  <2>1. ASSUME NEW i \in Nat, ~(i <= 1) PROVE f[i] = grow(c, f[i - 1])
    <3>1. i - 1 \in Nat /\ i - 2 \in Nat /\ i - 1 = (i - 2) + 1 BY <2>1
    <3>2. f[i] = grow(c, g[i - 2]) BY <1>5, <2>1, <3>1
    <3>3. f[i - 1] = g[i - 2]
      <4>1. CASE i = 2
        <5>1. i - 1 <= 1 /\ i - 2 = 0 BY <4>1
        <5> QED BY <1>5, <3>1, <5>1
      <4>2. CASE i # 2
        <5>1. ~(i - 1 <= 1) /\ (i - 1) - 1 = i - 2 BY <2>1, <4>2
        <5> QED BY <3>1, <5>1
      <4> QED BY <4>1, <4>2
    <3> QED BY <3>2, <3>3
  <2>2. \A i \in Nat : i <= 1 => f[i] = first OBVIOUS
  <2>3. f = [i \in Nat |-> f[i]] OBVIOUS
  <2> HIDE DEF f
  <2> QED BY <2>1, <2>2, <2>3
<1> HIDE DEF f
<1>7. delay = [i \in Nat |-> IF i <= 1 THEN first ELSE grow(c, delay[i - 1])] BY <1>6
<1> HIDE DEF delay
<1>8. delay[0] = first /\ delay[1] = first BY <1>7
<1>9. ASSUME NEW n \in Nat PROVE delay[n + 2] = grow(c, delay[n + 1])
  <2>1. n + 2 \in Nat /\ ~(n + 2 <= 1) /\ (n + 2) - 1 = n + 1 OBVIOUS
  <2>2. delay[n + 2] = grow(c, delay[(n + 2) - 1]) BY <1>7, <2>1
  <2> QED BY <2>1, <2>2
<1> QED BY <1>1, <1>8, <1>9 DEF first

\* The wait before any limit is put to it, after a number of steps.
grown(c, steps) ==
    IF c.DelayStrategy = "linear" THEN c.InitialDelay + steps * c.DelayIncrement
    ELSE c.InitialDelay * PowerOfTwo[steps]

\* The growth never shrinks the wait, and goes on by adding or by doubling.
LEMMA GrownFacts ==
    ASSUME NEW c \in Config, c.DelayStrategy # "fixed"
    PROVE  /\ grown(c, 0) = c.InitialDelay
           /\ \A n \in Nat :
                 /\ grown(c, n) \in Nat /\ grown(c, n) >= c.InitialDelay
                 /\ grown(c, n + 1) = IF c.DelayStrategy = "linear"
                                      THEN grown(c, n) + c.DelayIncrement ELSE 2 * grown(c, n)
<1> DEFINE d == c.InitialDelay
           e == c.DelayIncrement
<1>1. d \in Nat \ {0} /\ e \in Nat \ {0} BY ConfigFacts
<1> HIDE DEF d, e
<1>2. d + 0 * e = d /\ d * 1 = d BY <1>1
<1>3. ASSUME NEW n \in Nat
      PROVE  n * e \in Nat /\ d + n * e >= d /\ d + (n + 1) * e = (d + n * e) + e
  <2>1. n * e \in Nat /\ (n + 1) * e = n * e + e BY <1>1
  <2> QED BY <1>1, <2>1
<1>4. ASSUME NEW p \in Nat \ {0}
      PROVE  d * p \in Nat /\ d * p >= d /\ d * (2 * p) = 2 * (d * p)
  <2>1. d * p \in Nat /\ d * (2 * p) = 2 * (d * p) BY <1>1
  <2>2. p - 1 \in Nat /\ d * (p - 1) \in Nat /\ d * p = d * (p - 1) + d BY <1>1
  <2> QED BY <1>1, <2>1, <2>2
<1>5. CASE c.DelayStrategy = "linear"
  <2>1. \A n \in Nat : grown(c, n) = d + n * e BY <1>5 DEF grown, d, e
  <2>2. grown(c, 0) = d BY <1>2, <2>1
  <2>3. ASSUME NEW n \in Nat
        PROVE  grown(c, n) \in Nat /\ grown(c, n) >= d /\ grown(c, n + 1) = grown(c, n) + e
    <3>1. grown(c, n) = d + n * e /\ grown(c, n + 1) = d + (n + 1) * e BY <2>1
    <3> QED BY <1>1, <1>3, <3>1
  <2> QED BY <1>5, <2>2, <2>3 DEF d, e
<1>6. CASE c.DelayStrategy # "linear"
  <2>1. \A n \in Nat : grown(c, n) = d * PowerOfTwo[n] BY <1>6 DEF grown, d
  <2>2. grown(c, 0) = d BY <1>2, <2>1, PowerOfTwoFacts
  <2>3. ASSUME NEW n \in Nat
        PROVE  grown(c, n) \in Nat /\ grown(c, n) >= d /\ grown(c, n + 1) = 2 * grown(c, n)
    <3>1. PowerOfTwo[n] \in Nat \ {0} /\ PowerOfTwo[n + 1] = 2 * PowerOfTwo[n]
      BY PowerOfTwoFacts
    <3>2. grown(c, n + 1) = d * (2 * PowerOfTwo[n]) BY <2>1, <3>1
    <3> QED BY <1>4, <2>1, <3>1, <3>2
  <2> QED BY <1>6, <2>2, <2>3 DEF d
<1> QED BY <1>5, <1>6

\* A wait that grows, and is cut off where it passes the maximum.
capped(c, steps) == IF grown(c, steps) <= c.MaxDelay THEN grown(c, steps) ELSE c.MaxDelay

\* Cutting off in every iteration, as the loop does, is cutting off once.
LEMMA LoopIsCapped ==
    ASSUME NEW c \in Config, c.DelayStrategy # "fixed"
    PROVE  \A n \in Nat : retryDelayLoop(n + 1, c) = capped(c, n)
<1> DEFINE S == {n \in Nat : retryDelayLoop(n + 1, c) = capped(c, n)}
<1>1. c.MaxDelay \in Nat /\ c.MaxDelay >= c.InitialDelay /\ c.InitialDelay \in Nat \ {0}
      /\ c.DelayIncrement \in Nat \ {0}
  BY ConfigFacts
<1>2. 0 \in S BY <1>1, LoopFacts, GrownFacts DEF capped
<1>3. ASSUME NEW n \in Nat, n \in S PROVE n + 1 \in S
  <2>1. retryDelayLoop(n + 2, c) = grow(c, capped(c, n)) BY <1>3, LoopFacts
  <2>2. /\ grown(c, n) \in Nat /\ grown(c, n) >= c.InitialDelay
        /\ grown(c, n + 1) = IF c.DelayStrategy = "linear"
                             THEN grown(c, n) + c.DelayIncrement ELSE 2 * grown(c, n)
    BY GrownFacts
  <2>3. grow(c, capped(c, n)) = capped(c, n + 1) BY <1>1, <2>2 DEF grow, capped
  <2>4. (n + 1) + 1 = n + 2 OBVIOUS
  <2> QED BY <2>1, <2>3, <2>4
<1> HIDE DEF S
<1>4. Nat \subseteq S BY <1>2, <1>3, Induction
<1> QED BY <1>4 DEF S

\* What the daemon's model computes is the capped wait, too.
LEMMA DelayIsCapped ==
    ASSUME NEW c \in Config, c.DelayStrategy # "fixed", NEW n \in Nat
    PROVE  retryDelay(n, c) = capped(c, completedRetryCount(n))
<1> DEFINE k == completedRetryCount(n)
           S == {d \in c.InitialDelay..c.MaxDelay : d = grown(c, k)}
<1>1. k \in Nat BY DEF completedRetryCount
<1>2. retryDelay(n, c) = IF S = {} THEN c.MaxDelay ELSE CHOOSE d \in S : TRUE
  BY DEF retryDelay, grown
<1> HIDE DEF k
<1>3. c.MaxDelay \in Nat /\ c.InitialDelay \in Nat /\ grown(c, k) \in Nat
      /\ grown(c, k) >= c.InitialDelay
  BY <1>1, ConfigFacts, GrownFacts
<1>4. CASE grown(c, k) <= c.MaxDelay
  <2>1. S = {grown(c, k)} BY <1>3, <1>4
  <2>2. (CHOOSE d \in {grown(c, k)} : TRUE) = grown(c, k) OBVIOUS
  <2> HIDE DEF S
  <2> QED BY <1>2, <1>4, <2>1, <2>2 DEF capped, k
<1>5. CASE ~(grown(c, k) <= c.MaxDelay)
  <2>1. S = {} BY <1>3, <1>5
  <2> HIDE DEF S
  <2> QED BY <1>2, <1>5, <2>1 DEF capped, k
<1> QED BY <1>4, <1>5

\* For every configuration that validate() lets through and every number of retries,
\* the loop of retryDelay (runner.go:345) ends with the wait that the rest of the
\* models takes: the linear or doubling growth, cut off at the maximum.
THEOREM DelayMatchesLoopHolds ==
    ASSUME cfg \in Config, retry \in Nat
    PROVE  DelayMatchesLoop
<1>1. CASE cfg.DelayStrategy = "fixed"
  BY <1>1 DEF DelayMatchesLoop, retryDelay, retryDelayLoop
<1>2. CASE cfg.DelayStrategy # "fixed"
  <2>1. CASE retry = 0
    <3>1. completedRetryCount(0) = 0 BY DEF completedRetryCount
    <3>2. capped(cfg, 0) = cfg.InitialDelay BY <1>2, GrownFacts, ConfigFacts DEF capped
    <3> QED BY <1>2, <2>1, <3>1, <3>2, DelayIsCapped, LoopFacts DEF DelayMatchesLoop
  <2>2. CASE retry # 0
    <3>1. retry - 1 \in Nat /\ retry = (retry - 1) + 1 /\ completedRetryCount(retry) = retry - 1
      BY <2>2 DEF completedRetryCount
    <3>2. retryDelayLoop((retry - 1) + 1, cfg) = capped(cfg, retry - 1)
      BY <1>2, <3>1, LoopIsCapped
    <3> QED BY <1>2, <3>1, <3>2, DelayIsCapped DEF DelayMatchesLoop
  <2> QED BY <2>1, <2>2
<1> QED BY <1>1, <1>2

----------------------------------------------------------------------------
(* The merge of an older state.json.                                       *)

\* The ids that are merged, and what was merged of each thread: an entry that none of
\* those merged with it exceeds.
Seen == DOMAIN saved \ left

MergedOK ==
    /\ \A id \in DOMAIN saved : saved[id] \in Entry
    /\ left \subseteq DOMAIN saved
    /\ DOMAIN merged = {target(id) : id \in Seen}
    /\ \A t \in DOMAIN merged :
          \E id \in Seen :
              /\ target(id) = t /\ merged[t] = saved[id]
              /\ \A other \in Seen : target(other) = t => ~Stronger(saved[other], saved[id])

\* An event is where it was, or where it belongs, no younger than it was.
KeptAt(k, key) == key \in DOMAIN processed /\ processed[key] >= loaded[k]

EventsOK ==
    /\ DOMAIN saved \subseteq Ids
    /\ loaded \in [DOMAIN loaded -> Nat] /\ processed \in [DOMAIN processed -> Nat]
    /\ DOMAIN loaded \subseteq Ids \X Events
    /\ \A k \in DOMAIN loaded : KeptAt(k, k) \/ KeptAt(k, <<target(k[1]), k[2]>>)

MigrationInv == MergedOK /\ EventsOK

\* mergeMigratedThreadState keeps the strongest of the entries merged so far.
LEMMA MergeKeeps ==
    ASSUME MigrationInv, NEW id \in left, MergeEntry(id)
    PROVE  MigrationInv'
<1> DEFINE t0 == target(id)
<1>1. /\ UNCHANGED <<saved, loaded, processed>>
      /\ left' = left \ {id}
      /\ DOMAIN merged' = DOMAIN merged \cup {t0}
      /\ \A t \in DOMAIN merged : t # t0 => merged'[t] = merged[t]
      /\ t0 \in DOMAIN merged => merged'[t0] = mergeThreadState(merged[t0], saved[id])
      /\ t0 \notin DOMAIN merged => merged'[t0] = saved[id]
  BY DEF MergeEntry
<1>2. /\ \A x : target(x)' = target(x)
      /\ Seen' = Seen \cup {id} /\ id \in DOMAIN saved
  BY <1>1 DEF target, Aliases, Seen, MigrationInv, MergedOK
<1> HIDE DEF t0
<1>3. EventsOK' BY <1>1, <1>2 DEF MigrationInv, EventsOK, KeptAt
<1>4. \A x \in DOMAIN saved : saved[x].rank \in Nat /\ saved[x].at \in Nat
  BY MigrationAssumption DEF MigrationInv, MergedOK, Entry
<1>5. DOMAIN merged' = {target(x) : x \in Seen'}
  BY <1>1, <1>2 DEF MigrationInv, MergedOK, t0
<1>6. ASSUME NEW t \in DOMAIN merged'
      PROVE  \E x \in Seen' :
                /\ target(x) = t /\ merged'[t] = saved[x]
                /\ \A y \in Seen' : target(y) = t => ~Stronger(saved[y], saved[x])
  <2>1. CASE t # t0
    <3>1. t \in DOMAIN merged BY <1>1, <1>6, <2>1
    <3>2. PICK x \in Seen :
             /\ target(x) = t /\ merged[t] = saved[x]
             /\ \A y \in Seen : target(y) = t => ~Stronger(saved[y], saved[x])
      BY <3>1 DEF MigrationInv, MergedOK
    <3> QED BY <1>1, <1>2, <2>1, <3>1, <3>2 DEF t0
  <2>2. CASE t = t0 /\ t0 \notin DOMAIN merged
    <3>1. \A y \in Seen : target(y) # t0 BY <2>2 DEF MigrationInv, MergedOK
    <3>2. ~Stronger(saved[id], saved[id]) BY <1>2, <1>4 DEF Stronger
    <3> QED BY <1>1, <1>2, <2>2, <3>1, <3>2 DEF t0
  <2>3. CASE t = t0 /\ t0 \in DOMAIN merged
    <3>1. PICK x \in Seen :
             /\ target(x) = t0 /\ merged[t0] = saved[x]
             /\ \A y \in Seen : target(y) = t0 => ~Stronger(saved[y], saved[x])
      BY <2>3 DEF MigrationInv, MergedOK
    <3>2. x \in DOMAIN saved /\ \A y \in Seen : y \in DOMAIN saved BY DEF Seen
    <3>3. merged'[t0] = mergeThreadState(saved[x], saved[id]) BY <1>1, <2>3, <3>1
    <3>4. CASE Stronger(saved[id], saved[x])
      <4>1. merged'[t0] = saved[id]
        BY <1>2, <1>4, <3>2, <3>3, <3>4 DEF mergeThreadState, Stronger
      <4>2. ASSUME NEW y \in Seen, target(y) = t0 PROVE ~Stronger(saved[y], saved[id])
        BY <1>2, <1>4, <3>1, <3>2, <3>4, <4>2 DEF Stronger
      <4>3. ~Stronger(saved[id], saved[id]) BY <1>2, <1>4 DEF Stronger
      <4> QED BY <1>2, <2>3, <4>1, <4>2, <4>3 DEF t0
    <3>5. CASE ~Stronger(saved[id], saved[x])
      <4>1. merged'[t0] = saved[x]
        BY <1>2, <1>4, <3>2, <3>3, <3>5 DEF mergeThreadState, Stronger
      <4> QED BY <1>2, <2>3, <3>1, <3>5, <4>1
    <3> QED BY <3>4, <3>5
  <2> QED BY <2>1, <2>2, <2>3
<1>7. MergedOK'
  <2>2. \A t \in DOMAIN merged' :
          \E x \in Seen' :
              /\ target(x)' = t /\ merged'[t] = saved'[x]
              /\ \A y \in Seen' : target(y)' = t => ~Stronger(saved'[y], saved'[x])
    BY <1>1, <1>2, <1>6
  <2>3. DOMAIN merged' = {target(x)' : x \in Seen'} BY <1>2, <1>5
  <2>4. left' \subseteq DOMAIN saved' /\ \A x \in DOMAIN saved' : saved'[x] \in Entry
    BY <1>1 DEF MigrationInv, MergedOK
  <2> QED BY <2>2, <2>3, <2>4 DEF MergedOK
<1> QED BY <1>3, <1>7 DEF MigrationInv

\* An event that moves to its thread keeps the later of the two times.
LEMMA MoveKeeps ==
    ASSUME MigrationInv, NEW id \in Aliases, NEW event \in Events, MoveEvent(id, event)
    PROVE  MigrationInv'
<1> DEFINE old == <<id, event>>
           new == <<target(id), event>>
<1>1. /\ UNCHANGED <<saved, loaded, left, merged>>
      /\ old \in DOMAIN processed
      /\ processed' = [k \in (DOMAIN processed \cup {new}) \ {old} |->
                          IF k = new THEN laterOf(processed, old, new) ELSE processed[k]]
  BY DEF MoveEvent
<1>2. \A x : target(x)' = target(x) BY <1>1 DEF target, Aliases
<1>3. id \in Turns /\ target(id) \in Threads /\ target(id) # id
  BY MigrationAssumption DEF Aliases, target
<1>4. MergedOK' BY <1>1, <1>2 DEF MigrationInv, MergedOK, Seen
<1>5. processed \in [DOMAIN processed -> Nat] BY DEF MigrationInv, EventsOK
<1>6. /\ laterOf(processed, old, new) \in Nat
      /\ laterOf(processed, old, new) >= processed[old]
      /\ new \in DOMAIN processed => laterOf(processed, old, new) >= processed[new]
  <2> HIDE DEF old, new
  <2> QED BY <1>1, <1>5 DEF laterOf
<1>7. old # new BY <1>3
<1>8. \A k : k = <<id, event>> <=> k = old OBVIOUS
<1>9. ASSUME NEW k \in Ids \X Events, <<target(k[1]), k[2]>> = old PROVE FALSE
  <2>1. target(k[1]) = id BY <1>9
  <2>2. k[1] \notin Aliases => target(k[1]) = k[1] BY DEF target
  <2>3. k[1] \in Aliases => target(k[1]) \in Threads BY MigrationAssumption DEF target, Aliases
  <2> QED BY <1>3, <2>1, <2>2, <2>3, MigrationAssumption
<1>10. \A k \in Ids \X Events : k = old => <<target(k[1]), k[2]>> = new OBVIOUS
<1>11. new' = new BY <1>2
<1> HIDE DEF old, new
<1>12. /\ new \in DOMAIN processed' /\ processed'[new] = laterOf(processed, old, new)
       /\ \A k \in DOMAIN processed : k # old =>
             k \in DOMAIN processed' /\ processed'[k] >= processed[k]
       /\ processed' \in [DOMAIN processed' -> Nat]
  BY <1>1, <1>5, <1>6, <1>7
<1>13. ASSUME NEW k \in DOMAIN loaded
       PROVE  KeptAt(k, k)' \/ KeptAt(k, <<target(k[1]), k[2]>>)'
  <2>1. k \in Ids \X Events /\ loaded[k] \in Nat BY DEF MigrationInv, EventsOK
  <2>2. \A key \in DOMAIN processed : processed[key] \in Nat BY <1>5
  <2>3. \A key \in DOMAIN processed' : processed'[key] \in Nat BY <1>12
  <2> DEFINE home == <<target(k[1]), k[2]>>
  <2>4. home' = home BY <1>2
  <2>5. home # old BY <1>9, <2>1
  <2>6. k = old => home = new BY <1>10, <2>1
  <2> HIDE DEF home
  <2>7. KeptAt(k, k) \/ KeptAt(k, home) BY DEF MigrationInv, EventsOK, home
  <2>8. ASSUME NEW key, key # old, KeptAt(k, key) PROVE KeptAt(k, key)'
    BY <1>1, <1>12, <2>1, <2>2, <2>3, <2>8 DEF KeptAt
  <2>9. CASE k = old /\ KeptAt(k, k)
    <3>1. processed'[new] >= processed[old] /\ processed[old] >= loaded[k]
      BY <1>6, <1>12, <2>9 DEF KeptAt
    <3>2. KeptAt(k, new)' BY <1>1, <1>12, <1>11, <2>1, <2>2, <2>3, <3>1 DEF KeptAt
    <3>3. KeptAt(k, home)' BY <1>11, <2>4, <2>6, <2>9, <3>2 DEF KeptAt
    <3> QED BY <2>4, <3>3 DEF home
  <2>10. CASE KeptAt(k, home)
    <3>1. KeptAt(k, home)' BY <2>5, <2>8, <2>10, <2>4
    <3> QED BY <3>1 DEF home
  <2> QED BY <2>7, <2>8, <2>9, <2>10
<1>14. EventsOK' BY <1>1, <1>12, <1>13 DEF MigrationInv, EventsOK
<1> QED BY <1>4, <1>14 DEF MigrationInv

\* The inductive invariant holds in every order of Go's maps.
LEMMA MigrationInvHolds == Spec => []MigrationInv
<1>1. Init => MigrationInv
  <2> SUFFICES ASSUME Init PROVE MigrationInv OBVIOUS
  <2>1. PICK ids \in SUBSET Ids : saved \in [ids -> Entry] BY DEF Init
  <2>2. PICK keys \in SUBSET (Ids \X Events) : loaded \in [keys -> 0..MaxAt] BY DEF Init
  <2>3. MergedOK BY <2>1 DEF Init, MergedOK, Seen
  <2>4. EventsOK BY <2>1, <2>2, MigrationAssumption DEF Init, EventsOK, KeptAt
  <2> QED BY <2>3, <2>4 DEF MigrationInv
<1>2. MigrationInv /\ [Next]_vars => MigrationInv'
  <2> SUFFICES ASSUME MigrationInv, [Next]_vars PROVE MigrationInv' OBVIOUS
  <2>1. CASE UNCHANGED vars
    BY <2>1 DEF vars, MigrationInv, MergedOK, EventsOK, Seen, KeptAt, target, Aliases
  <2> QED BY <2>1, MergeKeeps, MoveKeeps DEF Next
<1> QED BY <1>1, <1>2, PTL DEF Spec

\* For any threads, turns and saved entries, and any order in which Go's maps hand
\* them out, the migrated entry of a thread is one that no entry of it exceeds: no live
\* retry is lost to a stopped one (state.go mergeMigratedThreadState).
THEOREM StrongestEntryKeptHolds == Spec => []StrongestEntryKept
<1>1. MigrationInv => StrongestEntryKept
  BY DEF MigrationInv, MergedOK, Seen, StrongestEntryKept, Done
<1> QED BY <1>1, MigrationInvHolds, PTL

\* An event that was handled before the migration is handled after it, at the thread it
\* belongs to and with a time no earlier than before, so nothing is retried again and
\* nothing pruned sooner.
THEOREM EventsStayHandledHolds == Spec => []EventsStayHandled
<1>1. MigrationInv => EventsStayHandled
  <2> SUFFICES ASSUME MigrationInv, Done, NEW k \in DOMAIN loaded
               PROVE  KeptAt(k, <<target(k[1]), k[2]>>)
    BY DEF EventsStayHandled, KeptAt
  <2>1. /\ k \in Ids \X Events
        /\ KeptAt(k, k) \/ KeptAt(k, <<target(k[1]), k[2]>>)
    BY DEF MigrationInv, EventsOK
  <2>2. CASE k[1] \in Aliases
    <3>1. k = <<k[1], k[2]>> /\ k[2] \in Events BY DEF MigrationInv, EventsOK
    <3>2. k \notin DOMAIN processed BY <2>2, <3>1 DEF Done
    <3> QED BY <2>1, <3>2 DEF KeptAt
  <2>3. CASE k[1] \notin Aliases
    <3>1. k = <<k[1], k[2]>> /\ target(k[1]) = k[1]
      BY <2>3 DEF target, MigrationInv, EventsOK
    <3> QED BY <2>1, <3>1
  <2> QED BY <2>2, <2>3
<1> QED BY <1>1, MigrationInvHolds, PTL
=============================================================================
