----------------------------- MODULE Recursion -----------------------------
(***************************************************************************)
(* Induction and recursion over the naturals, stated with sets and         *)
(* functions so that every use is first-order: the lemmas the proofs about *)
(* the operators of Args, Target and Bench share.                          *)
(***************************************************************************)
EXTENDS Integers, NaturalsInduction, WellFoundedInduction, TLAPS

(* A set of numbers that is not empty has a least one.                     *)
LEMMA LeastNumber ==
    ASSUME NEW T, T \subseteq Nat, T # {}
    PROVE  \E m \in T : \A y \in T : m <= y
  <1> DEFINE R == {ss \in Nat \X Nat : ss[1] < ss[2]}
  <1>1. IsWellFoundedOn(R, Nat)
    BY NatLessThanWellFounded DEF OpToRel
  <1> HIDE DEF R
  <1>2. PICK m \in T : \A y \in T : ~(<<y, m>> \in R)
    BY <1>1, WFMin
  <1>3. \A y \in T : ~(y < m)
    BY <1>2 DEF R
  <1> QED
    BY <1>3

(* Induction: a set with 0 that is closed under the successor, up to n.    *)
LEMMA UpTo ==
    ASSUME NEW n \in Nat, NEW T, 0 \in T,
           \A i \in 0..(n - 1) : i \in T => i + 1 \in T
    PROVE  \A i \in 0..n : i \in T
  <1> DEFINE Bad == {i \in 0..n : i \notin T}
  <1>1. SUFFICES ASSUME Bad # {} PROVE FALSE
    OBVIOUS
  <1>2. Bad \subseteq Nat
    OBVIOUS
  <1> HIDE DEF Bad
  <1>3. PICK m \in Bad : \A y \in Bad : m <= y
    BY <1>1, <1>2, LeastNumber
  <1>4. m \in 0..n /\ m \notin T /\ m # 0
    BY <1>3 DEF Bad
  <1>5. m - 1 \in 0..(n - 1) /\ m - 1 \notin Bad
    BY <1>3, <1>4, <1>2
  <1>6. m - 1 \in T
    BY <1>4, <1>5 DEF Bad
  <1>7. (m - 1) + 1 \in T
    BY <1>5, <1>6
  <1> QED
    BY <1>4, <1>7

(* A function that starts at c and goes on by the steps of g ...           *)
Stepwise(f, n, c, g) == f[0] = c /\ \A i \in 1..n : f[i] = g[i][f[i - 1]]

(* ... exists.                                                             *)
LEMMA StepwiseExists ==
    ASSUME NEW S, NEW c \in S, NEW n \in Nat, NEW g \in [1..n -> [S -> S]]
    PROVE  \E f \in [0..n -> S] : Stepwise(f, n, c, g)
  <1> DEFINE Good(k) == \E f \in [0..k -> S] : f[0] = c /\ \A i \in 1..k : f[i] = g[i][f[i - 1]]
             T == {k \in 0..n : Good(k)}
  <1>1. Good(0)
    <2> DEFINE f == [i \in 0..0 |-> c]
    <2>1. f \in [0..0 -> S] /\ f[0] = c
      OBVIOUS
    <2>2. \A i \in 1..0 : f[i] = g[i][f[i - 1]]
      OBVIOUS
    <2> HIDE DEF f
    <2> QED
      BY <2>1, <2>2
  <1>2. ASSUME NEW k \in 0..(n - 1), Good(k)
        PROVE  Good(k + 1)
    <2>1. PICK f \in [0..k -> S] : f[0] = c /\ \A i \in 1..k : f[i] = g[i][f[i - 1]]
      BY <1>2
    <2> DEFINE h == [i \in 0..(k + 1) |-> IF i = k + 1 THEN g[k + 1][f[k]] ELSE f[i]]
    <2>2. g[k + 1][f[k]] \in S
      OBVIOUS
    <2>3. h \in [0..(k + 1) -> S]
      BY <2>2
    <2>4. h[0] = c
      BY <2>1
    <2>5. ASSUME NEW i \in 1..(k + 1)
          PROVE  h[i] = g[i][h[i - 1]]
      <3>1. CASE i = k + 1
        <4>1. h[i - 1] = f[k] /\ h[i] = g[k + 1][f[k]]
          BY <3>1
        <4> QED
          BY <4>1, <3>1
      <3>2. CASE i \in 1..k
        <4>1. h[i - 1] = f[i - 1] /\ h[i] = f[i]
          BY <3>2
        <4> QED
          BY <4>1, <3>2, <2>1
      <3> QED
        BY <3>1, <3>2
    <2> HIDE DEF h
    <2> QED
      BY <2>3, <2>4, <2>5
  <1> HIDE DEF Good
  <1>3. 0 \in T /\ \A i \in 0..(n - 1) : i \in T => i + 1 \in T
    BY <1>1, <1>2
  <1> HIDE DEF T
  <1>4. \A i \in 0..n : i \in T
    BY <1>3, UpTo, ZenonT(60)
  <1>5. n \in T
    BY <1>4
  <1> QED
    BY <1>5 DEF T, Good, Stepwise
=============================================================================
