------------------------------- MODULE Lemmas -------------------------------
(***************************************************************************)
(* Facts that the proofs of several components need.                       *)
(*                                                                         *)
(* Induction is stated over sets of numbers: a set that holds 0 and, with  *)
(* a number, the next one holds every number, because a set of numbers     *)
(* that is not empty has a least one.  A set can be cited where an         *)
(* operator as a parameter cannot.                                         *)
(***************************************************************************)
EXTENDS Integers, WellFoundedInduction, FiniteSetTheorems, TLAPS

----------------------------------------------------------------------------
(* Induction and definitions by recursion.                                 *)

\* A set of numbers that is not empty has a least one.
LEMMA Least ==
    ASSUME NEW T \in SUBSET Nat, T # {}
    PROVE  \E x \in T : \A y \in T : x <= y
<1>1. PICK x \in T : \A y \in T : <<y, x>> \notin OpToRel(<, Nat)
  BY WFMin, NatLessThanWellFounded
<1>2. \A y \in T : ~(y < x) BY <1>1 DEF OpToRel
<1> QED BY <1>2

\* A set that holds 0 and, with a number, the next one holds every number.
LEMMA Induction ==
    ASSUME NEW S, 0 \in S, \A n \in Nat : n \in S => n + 1 \in S
    PROVE  Nat \subseteq S
<1> SUFFICES ASSUME Nat \ S # {} PROVE FALSE OBVIOUS
<1>1. PICK x \in Nat \ S : \A y \in Nat \ S : x <= y BY Least
<1>2. x - 1 \in Nat /\ x = (x - 1) + 1 /\ ~(x <= x - 1) BY <1>1
<1>3. x - 1 \in S BY <1>1, <1>2
<1> QED BY <1>1, <1>2, <1>3

\* g starts with first and goes on by step.
Iterates(g, X, first, step) ==
    /\ g \in [Nat -> X] /\ g[0] = first
    /\ \A n \in Nat : g[n + 1] = step[<<n, g[n]>>]

\* A start and a step define a function on the numbers.
LEMMA Recursion ==
    ASSUME NEW X, NEW first \in X, NEW step \in [Nat \X X -> X]
    PROVE  \E g : Iterates(g, X, first, step)
<1> DEFINE follows(h, n) == h[0] = first /\ \A i \in Nat : i < n => h[i + 1] = step[<<i, h[i]>>]
           upTo(n) == {h \in [0..n -> X] : follows(h, n)}
<1>1. \A n \in Nat : upTo(n) # {}
  <2> DEFINE S == {n \in Nat : upTo(n) # {}}
  <2>1. 0 \in S
    <3>1. [i \in 0..0 |-> first] \in upTo(0) OBVIOUS
    <3> QED BY <3>1
  <2>2. ASSUME NEW n \in Nat, n \in S PROVE n + 1 \in S
    <3>1. PICK h \in [0..n -> X] : follows(h, n) BY <2>2
    <3> DEFINE k == [i \in 0..(n + 1) |-> IF i <= n THEN h[i] ELSE step[<<n, h[n]>>]]
    <3>2. h[n] \in X /\ step[<<n, h[n]>>] \in X BY <3>1
    <3>3. k \in [0..(n + 1) -> X] BY <3>2
    <3>4. k[0] = first BY <3>1
    <3>5. ASSUME NEW i \in Nat, i < n + 1 PROVE k[i + 1] = step[<<i, k[i]>>]
      <4>1. CASE i < n
        <5>1. i \in 0..(n + 1) /\ i + 1 \in 0..(n + 1) /\ i <= n /\ i + 1 <= n BY <4>1
        <5>2. k[i] = h[i] /\ k[i + 1] = h[i + 1] BY <5>1
        <5> QED BY <3>1, <4>1, <5>2
      <4>2. CASE i = n
        <5>1. n \in 0..(n + 1) /\ n + 1 \in 0..(n + 1) /\ n <= n /\ ~(n + 1 <= n) OBVIOUS
        <5>2. k[n] = h[n] /\ k[n + 1] = step[<<n, h[n]>>] BY <5>1
        <5> QED BY <4>2, <5>2
      <4> QED BY <3>5, <4>1, <4>2
    <3> HIDE DEF k
    <3> QED BY <3>3, <3>4, <3>5
  <2> HIDE DEF S
  <2>3. Nat \subseteq S BY <2>1, <2>2, Induction
  <2> QED BY <2>3 DEF S
<1>2. ASSUME NEW n \in Nat, NEW h, NEW k, follows(h, n), follows(k, n)
      PROVE  h[n] = k[n]
  <2> DEFINE S == {i \in Nat : i <= n => h[i] = k[i]}
  <2>1. 0 \in S BY <1>2
  <2>2. ASSUME NEW i \in Nat, i \in S PROVE i + 1 \in S
    <3> SUFFICES ASSUME i + 1 <= n PROVE h[i + 1] = k[i + 1] OBVIOUS
    <3>1. i < n /\ i <= n OBVIOUS
    <3> QED BY <1>2, <2>2, <3>1
  <2> HIDE DEF S
  <2>3. Nat \subseteq S BY <2>1, <2>2, Induction
  <2>4. n <= n OBVIOUS
  <2> QED BY <2>3, <2>4 DEF S
<1> DEFINE pick(n) == CHOOSE h \in [0..n -> X] : follows(h, n)
           g == [n \in Nat |-> pick(n)[n]]
<1>3. \A n \in Nat : pick(n) \in [0..n -> X] /\ follows(pick(n), n) BY <1>1
<1> HIDE DEF pick
<1>4. g \in [Nat -> X]
  <2>1. \A n \in Nat : n \in 0..n OBVIOUS
  <2>2. \A n \in Nat : pick(n)[n] \in X BY <1>3, <2>1
  <2> QED BY <2>2
<1>5. g[0] = first BY <1>3
<1>6. ASSUME NEW n \in Nat PROVE g[n + 1] = step[<<n, g[n]>>]
  <2>0. n + 1 \in Nat OBVIOUS
  <2> HIDE DEF follows
  <2>1. follows(pick(n), n) /\ follows(pick(n + 1), n + 1) BY <1>3, <2>0
  <2> USE DEF follows
  <2>2. follows(pick(n + 1), n) BY <2>1
  <2>3. pick(n)[n] = pick(n + 1)[n] BY <1>2, <2>1, <2>2
  <2>4. n < n + 1 OBVIOUS
  <2>5. pick(n + 1)[n + 1] = step[<<n, pick(n + 1)[n]>>] BY <2>1, <2>4
  <2> QED BY <2>3, <2>5
<1> QED BY <1>4, <1>5, <1>6 DEF Iterates

----------------------------------------------------------------------------
(* Counting by rank.                                                       *)

\* If every element of a finite set has a rank of its own, and the ranks are smaller than
\* the number of elements, then as many elements as n have a rank below n.
LEMMA RankCount ==
    ASSUME NEW S, IsFiniteSet(S), NEW r \in [S -> 0..(Cardinality(S) - 1)],
           \A x, y \in S : r[x] = r[y] => x = y,
           NEW n \in 0..Cardinality(S)
    PROVE  Cardinality({x \in S : r[x] < n}) = n
<1> DEFINE c == Cardinality(S)
           K == {x \in S : r[x] < n}
           q == [x \in K |-> r[x]]
<1>1. c \in Nat BY FS_CardinalityType
<1> HIDE DEF c
<1>2. IsFiniteSet(0..(c - 1)) /\ Cardinality(0..(c - 1)) = c BY <1>1, FS_Interval
<1>3. r \in Injection(S, 0..(c - 1)) BY DEF Injection, IsInjective, c
<1>4. r \in Surjection(S, 0..(c - 1)) BY <1>2, <1>3, FS_Injection DEF c
<1>5. \A m \in 0..(c - 1) : \E x \in S : r[x] = m BY <1>4 DEF Surjection
<1>6. n \in Nat /\ n <= c BY <1>1 DEF c
<1>7. q \in [K -> 0..(n - 1)]
  <2>1. \A x \in K : r[x] \in 0..(n - 1) BY <1>1, <1>6 DEF c
  <2> QED BY <2>1
<1>8. \A m \in 0..(n - 1) : \E x \in K : q[x] = m
  <2> SUFFICES ASSUME NEW m \in 0..(n - 1) PROVE \E x \in K : q[x] = m OBVIOUS
  <2>1. m \in 0..(c - 1) /\ m < n BY <1>1, <1>6
  <2>2. PICK x \in S : r[x] = m BY <1>5, <2>1
  <2>3. x \in K /\ q[x] = m BY <2>1, <2>2
  <2> QED BY <2>3
<1>9. \A x, y \in K : q[x] = q[y] => x = y OBVIOUS
<1>10. K \subseteq S OBVIOUS
<1> HIDE DEF K, q
<1>11. q \in Bijection(K, 0..(n - 1))
  BY <1>7, <1>8, <1>9 DEF Bijection, Injection, IsInjective, Surjection
<1>12. IsFiniteSet(K) BY <1>10, FS_Subset
<1>13. Cardinality(0..(n - 1)) = Cardinality(K) BY <1>11, <1>12, FS_Bijection DEF ExistsBijection
<1>14. Cardinality(0..(n - 1)) = n BY <1>6, FS_Interval
<1> QED BY <1>13, <1>14 DEF K
=============================================================================
