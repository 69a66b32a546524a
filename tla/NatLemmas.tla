------------------------------ MODULE NatLemmas ------------------------------
(***************************************************************************)
(* Facts about natural numbers that several proofs need: a set of them has *)
(* a least element, a statement that fails fails somewhere first, and a    *)
(* function defined by recursion over 0 .. n has the values its equations  *)
(* say.  They replace the library's induction theorems, whose parameter is *)
(* an operator.                                                            *)
(***************************************************************************)
EXTENDS Integers, WellFoundedInduction, TLAPS

(* Every nonempty set of natural numbers has a least element.              *)
LEMMA LeastNatural ==
  ASSUME NEW S \in SUBSET Nat, S # {}
  PROVE  \E m \in S : \A q \in S : m <= q
<1> DEFINE R == OpToRel(<, Nat)
<1>1. PICK m \in S : \A y \in S : ~(<<y, m>> \in R)
  BY NatLessThanWellFounded, WFMin
<1>2. ASSUME NEW q \in S PROVE m <= q
  <2>1. <<q, m>> \notin R
    BY <1>1
  <2>2. ~(q < m)
    BY <2>1 DEF OpToRel
  <2> QED BY <2>2
<1> QED BY <1>2

(* Induction over the natural numbers, for a set: one that holds 0, and    *)
(* with a number also the next, holds all.                                 *)
LEMMA NaturalsByStep ==
  ASSUME NEW S, 0 \in S, \A n \in Nat : n \in S => n + 1 \in S
  PROVE  Nat \subseteq S
<1> DEFINE T == {n \in Nat : n \notin S}
<1>1. SUFFICES ASSUME T # {} PROVE FALSE
  OBVIOUS
<1>2. PICK m \in T : \A q \in T : m <= q
  <2> T \in SUBSET Nat
    OBVIOUS
  <2> QED BY <1>1, LeastNatural
<1>3. m \in Nat /\ m # 0 /\ m - 1 \in Nat
  BY <1>2
<1>4. m - 1 \notin T
  BY <1>2, <1>3
<1>5. (m - 1) + 1 \in S
  BY <1>3, <1>4
<1> QED BY <1>2, <1>3, <1>5

(* A function that is given at 0, and at every further number by its value *)
(* one below, exists.                                                      *)
LEMMA RecursionOverPrefix ==
  ASSUME NEW S, NEW a \in S, NEW k \in Nat, NEW g \in [1 .. k -> [S -> S]]
  PROVE  \E f \in [0 .. k -> S] : /\ f[0] = a
                                  /\ \A i \in 1 .. k : f[i] = g[i][f[i - 1]]
<1> DEFINE Defines(f, n) == /\ f \in [0 .. n -> S]
                            /\ f[0] = a
                            /\ \A i \in 1 .. n : f[i] = g[i][f[i - 1]]
           T == {n \in Nat : n <= k => \E f : Defines(f, n)}
<1>1. 0 \in T
  <2>1. Defines([i \in 0 .. 0 |-> a], 0)
    OBVIOUS
  <2> QED BY <2>1
<1>2. ASSUME NEW n \in Nat, n \in T PROVE n + 1 \in T
  <2>1. SUFFICES ASSUME n + 1 <= k PROVE \E f : Defines(f, n + 1)
    OBVIOUS
  <2>2. PICK f : Defines(f, n)
    BY <1>2, <2>1
  <2> DEFINE h == [i \in 0 .. n + 1 |-> IF i <= n THEN f[i] ELSE g[n + 1][f[n]]]
  <2>3. g[n + 1][f[n]] \in S
    BY <2>1, <2>2
  <2>4. h \in [0 .. n + 1 -> S]
    BY <2>2, <2>3
  <2>5. h[0] = a
    BY <2>2
  <2>6. ASSUME NEW i \in 1 .. n + 1 PROVE h[i] = g[i][h[i - 1]]
    <3>1. CASE i <= n
      BY <2>2, <3>1
    <3>2. CASE i = n + 1
      BY <2>2, <3>2
    <3> QED BY <3>1, <3>2
  <2>7. Defines(h, n + 1)
    BY <2>4, <2>5, <2>6
  <2> QED BY <2>7
<1>3. k \in T
  <2> HIDE DEF T
  <2> QED BY <1>1, <1>2, NaturalsByStep
<1> QED BY <1>3
=============================================================================
