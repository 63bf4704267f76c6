--------------------------- MODULE InductionLemmas ---------------------------
(***************************************************************************)
(* Induction over the natural numbers, said of sets: the loops of the      *)
(* model are functions that are defined by recursion over a count, and     *)
(* what they compute is proved from here.                                  *)
(***************************************************************************)
EXTENDS Integers, WellFoundedInduction, TLAPS

(* What is not empty has a least element.                                  *)
LEMMA Least ==
    ASSUME NEW T, T \subseteq Nat, T # {}
    PROVE  \E m \in T : \A k \in T : m <= k
<1> DEFINE R == OpToRel(<, Nat)
<1>1. IsWellFoundedOn(R, Nat)
    BY NatLessThanWellFounded
<1>2. \A a, b \in Nat : <<a, b>> \in R <=> a < b
    BY DEF OpToRel
<1> HIDE DEF R
<1>3. PICK m \in T : \A k \in T : ~(<<k, m>> \in R)
    BY <1>1, WFMin
<1>4. \A k \in T : ~(k < m)
    BY <1>2, <1>3
<1>5. QED
    BY <1>4

(* A set that has 0, and with every number the next, has all of them.      *)
LEMMA Induction ==
    ASSUME NEW T, 0 \in T, \A n \in Nat : n \in T => n + 1 \in T
    PROVE  \A n \in Nat : n \in T
<1> DEFINE U == {n \in Nat : n \notin T}
<1>1. SUFFICES ASSUME U # {}
               PROVE  FALSE
    OBVIOUS
<1>2. PICK m \in U : \A k \in U : m <= k
    <2> HIDE DEF U
    <2> QED
        BY <1>1, U \subseteq Nat, Least DEF U
<1>3. m # 0 /\ m - 1 \in Nat /\ m - 1 \notin U
    BY <1>2
<1>4. m - 1 \in T /\ (m - 1) + 1 = m
    BY <1>2, <1>3
<1>5. QED
    BY <1>2, <1>3, <1>4

(* The same up to a bound.                                                 *)
LEMMA InductionUpTo ==
    ASSUME NEW n \in Nat, NEW T, 0 \in T, \A i \in 1 .. n : i - 1 \in T => i \in T
    PROVE  \A i \in 0 .. n : i \in T
<1> DEFINE U == {i \in Nat : i <= n => i \in T}
<1>1. 0 \in U
    OBVIOUS
<1>2. \A i \in Nat : i \in U => i + 1 \in U
    <2> SUFFICES ASSUME NEW i \in Nat, i \in U, i + 1 <= n
                 PROVE  i + 1 \in T
        OBVIOUS
    <2>1. i + 1 \in 1 .. n /\ (i + 1) - 1 = i /\ i \in T
        OBVIOUS
    <2> QED
        BY <2>1
<1> HIDE DEF U
<1>3. \A i \in Nat : i \in U
    BY <1>1, <1>2, Induction
<1> QED
    BY <1>3 DEF U

(* What a loop of n turns computes that begins with a and whose turn i     *)
(* does g[i].                                                              *)
Loops(S, a, n, g) ==
    {f \in [0 .. n -> S] : f[0] = a /\ \A i \in 1 .. n : f[i] = g[i][f[i - 1]]}

LEMMA LoopsCompute ==
    ASSUME NEW S, NEW a \in S, NEW n \in Nat, NEW g \in [1 .. n -> [S -> S]]
    PROVE  Loops(S, a, n, g) # {}
<1> DEFINE T == {k \in Nat : \E f \in [0 .. k -> S] :
                    f[0] = a /\ \A i \in 1 .. k : i <= n => f[i] = g[i][f[i - 1]]}
<1>1. 0 \in T
    <2> DEFINE f == [i \in 0 .. 0 |-> a]
    <2>1. f \in [0 .. 0 -> S] /\ f[0] = a
        OBVIOUS
    <2> HIDE DEF f
    <2> QED
        BY <2>1
<1>2. ASSUME NEW k \in Nat, k \in T
      PROVE  k + 1 \in T
    <2>1. PICK f \in [0 .. k -> S] :
              f[0] = a /\ \A i \in 1 .. k : i <= n => f[i] = g[i][f[i - 1]]
        BY <1>2
    <2> DEFINE h == [i \in 0 .. k + 1 |-> IF i <= k THEN f[i]
                                         ELSE IF i <= n THEN g[i][f[k]] ELSE a]
    <2>2. h \in [0 .. k + 1 -> S]
        <3> SUFFICES ASSUME NEW i \in 0 .. k + 1, ~(i <= k), i <= n
                     PROVE  g[i][f[k]] \in S
            OBVIOUS
        <3>1. i \in 1 .. n /\ f[k] \in S
            OBVIOUS
        <3> QED
            BY <3>1
    <2>3. h[0] = a
        BY <2>1
    <2>4. ASSUME NEW i \in 1 .. k + 1, i <= n
          PROVE  h[i] = g[i][h[i - 1]]
        <3>1. CASE i <= k
            BY <2>1, <2>4, <3>1
        <3>2. CASE i = k + 1
            BY <2>4, <3>2
        <3> QED
            BY <3>1, <3>2
    <2> HIDE DEF h
    <2>5. \E f1 \in [0 .. k + 1 -> S] :
              f1[0] = a /\ \A i \in 1 .. k + 1 : i <= n => f1[i] = g[i][f1[i - 1]]
        BY <2>2, <2>3, <2>4
    <2> QED
        BY <2>5
<1>3. n \in T
    <2> HIDE DEF T
    <2> QED
        BY <1>1, <1>2, Induction
<1> QED
    BY <1>3 DEF Loops
=============================================================================
