--------------------------- MODULE RecursionLemmas ---------------------------
(***************************************************************************)
(* Induction along an interval, and recursive functions on one, for the    *)
(* loops that the models write as recursive functions.  Both rest on the   *)
(* least member of a set of naturals.                                      *)
(***************************************************************************)
EXTENDS Integers, NaturalsInduction, WellFoundedInduction, TLAPS

\* A set of naturals that is not empty has a least member.
LEMMA LeastNat ==
    ASSUME NEW T, T \subseteq Nat, T # {}
    PROVE  \E x \in T : \A y \in T : x <= y
<1> DEFINE R == OpToRel(<, Nat)
<1>1. IsWellFoundedOn(R, Nat)
  BY NatLessThanWellFounded
<1>2. PICK x \in T : \A y \in T : ~(<<y, x>> \in R)
  <2> HIDE DEF R
  <2> QED
    BY <1>1, WFMin
<1>3. \A y \in T : ~(y < x)
  BY <1>2 DEF OpToRel
<1> QED
  BY <1>3

\* Induction along 0 .. n: what holds at 0 and is kept by every step holds at
\* every position.
LEMMA AlongInduction ==
    ASSUME NEW n \in Nat, NEW f, NEW S, f[0] \in S[0],
           \A i \in 1 .. n : f[i - 1] \in S[i - 1] => f[i] \in S[i]
    PROVE  \A i \in 0 .. n : f[i] \in S[i]
<1> DEFINE B == {i \in 0 .. n : f[i] \notin S[i]}
<1> SUFFICES ASSUME B # {} PROVE FALSE
  OBVIOUS
<1>1. B \subseteq Nat
  OBVIOUS
<1>2. PICK m \in B : \A j \in B : m <= j
  BY <1>1, LeastNat
<1>3. m \in 1 .. n
  BY <1>2
<1>4. m - 1 \in 0 .. n /\ m - 1 \notin B
  BY <1>2, <1>3
<1> QED
  BY <1>2, <1>3, <1>4

\* A recursion along 0 .. n from b by the step function g; S[i] holds the
\* values it may have at i.
Recursion(n, S, b, g) ==
    b \in S[0] /\ \A i \in 1 .. n : \A s \in S[i - 1] : g[<<i, s>>] \in S[i]
Solves(f, n, S, b, g) ==
    /\ f[0] = b
    /\ \A i \in 1 .. n : f[i] = g[<<i, f[i - 1]>>]
    /\ \A i \in 0 .. n : f[i] \in S[i]

\* It has a solution.
LEMMA RecursiveExists ==
    ASSUME NEW n \in Nat, NEW S, NEW b, NEW g, Recursion(n, S, b, g)
    PROVE  \E f : Solves(f, n, S, b, g)
<1> USE DEF Recursion
<1> DEFINE P(m, f) == /\ f[0] = b
                      /\ \A i \in 1 .. m : f[i] = g[<<i, f[i - 1]>>]
                      /\ \A i \in 0 .. m : f[i] \in S[i]
           Q(m) == \E f : P(m, f)
           B == {m \in 0 .. n : ~Q(m)}
<1> SUFFICES Q(n)
  BY DEF Solves
<1> HIDE DEF Q
<1> SUFFICES ASSUME B # {} PROVE FALSE
  OBVIOUS
<1>1. B \subseteq Nat
  OBVIOUS
<1>2. PICK m \in B : \A j \in B : m <= j
  BY <1>1, LeastNat
<1>3. m # 0
  <2>1. P(0, [i \in 0 .. 0 |-> b])
    OBVIOUS
  <2> QED
    BY <1>2, <2>1 DEF Q
<1>4. m \in 1 .. n /\ m - 1 \in 0 .. n /\ m - 1 \notin B
  BY <1>2, <1>3
<1>5. PICK f : P(m - 1, f)
  BY <1>4 DEF Q
<1> DEFINE h == [i \in 0 .. m |-> IF i = m THEN g[<<m, f[m - 1]>>] ELSE f[i]]
<1>6. P(m, h)
  <2>1. \A i \in 0 .. m - 1 : h[i] = f[i]
    BY <1>4
  <2>2. h[m] = g[<<m, f[m - 1]>>] /\ h[m - 1] = f[m - 1] /\ f[m - 1] \in S[m - 1]
    BY <1>4, <1>5, <2>1
  <2>3. \A i \in 0 .. m : i # m => i \in 0 .. m - 1
    BY <1>4
  <2>4. h[0] = b
    BY <1>4, <1>5, <2>1
  <2> HIDE DEF h
  <2>5. \A i \in 1 .. m : h[i] = g[<<i, h[i - 1]>>]
    <3> SUFFICES ASSUME NEW i \in 1 .. m PROVE h[i] = g[<<i, h[i - 1]>>]
      OBVIOUS
    <3>1. CASE i = m
      BY <2>2, <3>1
    <3>2. CASE i # m
      <4>1. i \in 1 .. m - 1 /\ i \in 0 .. m - 1 /\ i - 1 \in 0 .. m - 1
        BY <1>4, <3>2
      <4> QED
        BY <1>5, <2>1, <4>1
    <3> QED
      BY <3>1, <3>2
  <2>6. \A i \in 0 .. m : h[i] \in S[i]
    <3>1. h[m] \in S[m]
      BY <1>4, <2>2
    <3> QED
      BY <1>5, <2>1, <2>3, <3>1
  <2> QED
    BY <2>4, <2>5, <2>6
<1> QED
  BY <1>2, <1>6 DEF Q

=============================================================================
