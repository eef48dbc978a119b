---------------------------- MODULE CiTimerProofs ----------------------------
(***************************************************************************)
(* The timer heap for every number of timers, every plan, every batch_step *)
(* and every capacity: no timer is lost or kept twice (NoneLost), only the *)
(* due fire (FiresTheDue), early by batch_step at most (FiresInTime), and  *)
(* the fields keep their types (TypeCorrect).                              *)
(*                                                                         *)
(* The invariant has two parts.  InSlots is about the array: float, cut,   *)
(* swap and reindex keep each timer with CI_TIMER_HEAP in the one slot its *)
(* heap_idx names (FloatedHolds to InsertIs).  Web is about next and prev: *)
(* a timer that is somewhere has a head hd[t], itself when it is in a slot *)
(* or fires as the root, and a rank rk[t], its distance to the end of the  *)
(* chain, so that next leads from rank k to rank k - 1 and the last timer  *)
(* closes the chain at its head.  insert gives the head one rank more and  *)
(* the new timer the head's old one; poll takes ranks from the top.        *)
(*                                                                         *)
(* Hypotheses: Careful everywhere, because stop and restart hand delete    *)
(* timers it cannot handle; Realloc = {TRUE} for TypeCorrect alone; no     *)
(* periodic timer that may be batched for NoneLost alone.                  *)
(***************************************************************************)
EXTENDS CiTimer, RecursionLemmas, FiniteSetTheorems

-----------------------------------------------------------------------------
(* The path from the last position of the heap to its root *)

\* What the float loop of ci_timerheap_insert relies on: the path holds both
\* ends, goes from each position to its parent, and does not fork.
IsPath(A, n) ==
  /\ A \subseteq 1..n /\ n \in A /\ 1 \in A
  /\ \A a \in A : a > 1 => a \div 2 \in A
  /\ \A a \in A : a # n => \E c \in A : c > a /\ c \div 2 = a
  /\ \A a, b \in A : a < b => a <= b \div 2

\* Ancestors(n) is such a path.
LEMMA AncestorsPath ==
  ASSUME NEW n \in Nat \ {0}
  PROVE  IsPath(Ancestors(n), n)
<1> DEFINE P(f) == f = [k \in 0..n |-> IF k = 0 THEN n ELSE f[k - 1] \div 2]
           Up == CHOOSE f : P(f)
           S == [k \in 0..n |-> {x \in Nat : x <= n - k}]
           g == [s \in (1..n) \X Nat |-> s[2] \div 2]
<1>1. P(Up)
  <2>1. Recursion(n, S, n, g)
    BY DEF Recursion
  <2>2. PICK f : Solves(f, n, S, n, g)
    BY <2>1, RecursiveExists
  <2> DEFINE h == [k \in 0..n |-> f[k]]
  <2>3. P(h)
    <3>1. \A k \in 0..n : f[k] \in Nat
      BY <2>2 DEF Solves
    <3>2. ASSUME NEW k \in 1..n PROVE f[k] = f[k - 1] \div 2
      <4>1. k - 1 \in 0..n
        OBVIOUS
      <4>2. f[k - 1] \in Nat /\ f[k] = g[<<k, f[k - 1]>>]
        BY <2>2, <3>1, <4>1 DEF Solves
      <4> QED
        BY <4>2
    <3> QED
      BY <2>2, <3>2 DEF Solves
  <2> HIDE DEF P, h
  <2> QED
    BY <2>3, Zenon
<1>2. Ancestors(n) = {Up[k] : k \in 0..n} \ {0}
  BY DEF Ancestors
<1> HIDE DEF Up
<1>3. /\ Up[0] = n
      /\ \A k \in 1..n : Up[k] = Up[k - 1] \div 2
  BY <1>1
<1>4. \A k \in 0..n : Up[k] \in Nat /\ Up[k] <= n - k
  <2>1. Up[0] \in S[0]
    BY <1>3
  <2>2. \A k \in 1..n : Up[k - 1] \in S[k - 1] => Up[k] \in S[k]
    <3> SUFFICES ASSUME NEW k \in 1..n, Up[k - 1] \in S[k - 1] PROVE Up[k] \in S[k]
      OBVIOUS
    <3>1. k - 1 \in 0..n /\ k \in 0..n
      OBVIOUS
    <3>2. Up[k - 1] \in Nat /\ Up[k - 1] <= n - (k - 1)
      BY <3>1
    <3>3. Up[k] \in Nat /\ Up[k] <= n - k
      BY <1>3, <3>2
    <3> QED
      BY <3>1, <3>3
  <2>3. \A k \in 0..n : Up[k] \in S[k]
    <3> HIDE DEF S
    <3> QED
      BY <2>1, <2>2, AlongInduction
  <2> QED
    BY <2>3
<1>5. \A j \in 0..n : \A i \in 0..(j - 1) : Up[j] <= Up[i] \div 2
  <2> DEFINE T == [j \in 0..n |-> {x \in Nat : \A i \in 0..(j - 1) : x <= Up[i] \div 2}]
  <2>1. Up[0] \in T[0]
    BY <1>4
  <2>2. \A j \in 1..n : Up[j - 1] \in T[j - 1] => Up[j] \in T[j]
    <3> SUFFICES ASSUME NEW j \in 1..n, Up[j - 1] \in T[j - 1], NEW i \in 0..(j - 1)
                 PROVE  Up[j] <= Up[i] \div 2
      <4>1. \A j \in 1..n : j \in 0..n /\ Up[j] \in Nat
        BY <1>4
      <4> QED
        BY <4>1
    <3>1. Up[j] = Up[j - 1] \div 2 /\ Up[j - 1] \in Nat /\ Up[i] \in Nat
      BY <1>3, <1>4
    <3>2. CASE i = j - 1
      BY <3>1, <3>2
    <3>3. CASE i # j - 1
      <4>1. Up[j - 1] <= Up[i] \div 2
        BY <3>3
      <4> QED
        BY <3>1, <4>1
    <3> QED
      BY <3>2, <3>3
  <2>3. \A j \in 0..n : Up[j] \in T[j]
    <3> HIDE DEF T
    <3> QED
      BY <2>1, <2>2, AlongInduction
  <2> QED
    BY <2>3
<1> DEFINE A == {Up[k] : k \in 0..n} \ {0}
<1>6. A \subseteq 1..n /\ n \in A
  BY <1>3, <1>4
<1>7. 1 \in A
  <2> DEFINE Z == {k \in 0..n : Up[k] = 0}
  <2>1. Z \subseteq Nat /\ n \in Z
    BY <1>4
  <2>2. PICK k \in Z : \A j \in Z : k <= j
    BY <2>1, LeastNat
  <2>3. k \in 1..n /\ k - 1 \in 0..n /\ k - 1 \notin Z
    BY <1>3, <2>2
  <2>4. Up[k - 1] = 1
    BY <1>3, <1>4, <2>2, <2>3
  <2> QED
    BY <2>3, <2>4
<1>8. \A a \in A : a > 1 => a \div 2 \in A
  <2> SUFFICES ASSUME NEW k \in 0..n, Up[k] > 1 PROVE Up[k] \div 2 \in A
    OBVIOUS
  <2>1. k + 1 \in 1..n /\ Up[k + 1] = Up[k] \div 2
    BY <1>3, <1>4
  <2> QED
    BY <1>4, <2>1
<1>9. \A a \in A : a # n => \E c \in A : c > a /\ c \div 2 = a
  <2> SUFFICES ASSUME NEW k \in 0..n, Up[k] # 0, Up[k] # n
               PROVE  \E c \in A : c > Up[k] /\ c \div 2 = Up[k]
    OBVIOUS
  <2>1. k \in 1..n /\ k - 1 \in 0..n /\ Up[k] = Up[k - 1] \div 2
    BY <1>3
  <2>2. Up[k - 1] \in Nat /\ Up[k] \in Nat
    BY <1>4, <2>1
  <2>3. Up[k - 1] > Up[k] /\ Up[k - 1] # 0
    BY <2>1, <2>2
  <2> QED
    BY <2>1, <2>3
<1>10. \A a, b \in A : a < b => a <= b \div 2
  <2> SUFFICES ASSUME NEW i \in 0..n, NEW j \in 0..n, Up[i] < Up[j]
               PROVE  Up[i] <= Up[j] \div 2
    OBVIOUS
  <2>1. Up[i] \in Nat /\ Up[j] \in Nat
    BY <1>4
  <2>2. CASE j < i
    BY <1>5, <2>2
  <2>3. CASE i < j
    <3>1. Up[j] <= Up[i] \div 2
      BY <1>5, <2>3
    <3> QED
      BY <2>1, <3>1
  <2>4. CASE i = j
    BY <2>1, <2>4
  <2> QED
    BY <2>2, <2>3, <2>4
<1> QED
  BY <1>2, <1>6, <1>7, <1>8, <1>9, <1>10 DEF IsPath

-----------------------------------------------------------------------------
(* The array of timers as a set in some order *)

\* g holds the timers of T, each in one position.
Holds(g, T) ==
  /\ g \in Seq(Timers) /\ T \subseteq Timers
  /\ \A i, j \in 1..Len(g) : g[i] = g[j] => i = j
  /\ \A i \in 1..Len(g) : g[i] \in T
  /\ \A x \in T : \E i \in 1..Len(g) : g[i] = x

\* Floating up the path moves timers and loses none.
LEMMA FloatedHolds ==
  ASSUME NEW h, NEW T, Holds(h, T), NEW t \in Timers, t \notin T,
         NEW p \in Ancestors(Len(h) + 1)
  PROVE  /\ Holds(Floated(h, t, p), T \union {t})
         /\ Len(Floated(h, t, p)) = Len(h) + 1 /\ Floated(h, t, p)[p] = t
         /\ p \in 1..(Len(h) + 1)
<1> DEFINE n == Len(h) + 1
           A == Ancestors(n)
           from(i) == IF i \in A /\ i > p THEN i \div 2 ELSE i
           g == [i \in 1..n |-> IF i = p THEN t ELSE h[from(i)]]
<1>1. n \in Nat \ {0} /\ n - 1 = Len(h) /\ Len(h) \in Nat
  BY DEF Holds
<1>2. IsPath(A, n)
  BY <1>1, AncestorsPath
<1>3. Floated(h, t, p) = g
  BY DEF Floated
<1> HIDE DEF A
<1>4. p \in A /\ p \in 1..n
  BY <1>2 DEF IsPath, A
<1>5. ASSUME NEW i \in 1..n, i # p PROVE from(i) \in 1..Len(h)
  <2>1. CASE i \in A /\ i > p
    BY <1>1, <1>4, <2>1
  <2>2. CASE ~(i \in A /\ i > p)
    <3>1. i # n
      BY <1>1, <1>2, <1>4, <1>5, <2>2 DEF IsPath
    <3> QED
      BY <1>1, <2>2, <3>1
  <2> QED
    BY <2>1, <2>2
<1>6. ASSUME NEW x \in 1..n, x \in A, x > p PROVE x \div 2 \in A /\ x \div 2 >= p
  BY <1>2, <1>4, <1>6 DEF IsPath
<1>7. ASSUME NEW i \in 1..n, NEW j \in 1..n, i # p, j # p, from(i) = from(j), i < j PROVE FALSE
  <2>1. CASE i \in A /\ i > p /\ j \in A /\ j > p
    <3>1. i <= j \div 2 /\ i \div 2 = j \div 2
      BY <1>2, <1>7, <2>1 DEF IsPath
    <3> QED
      BY <3>1
  <2>2. CASE i \in A /\ i > p /\ ~(j \in A /\ j > p)
    <3>1. i \div 2 = j
      BY <1>7, <2>2
    <3> QED
      BY <1>7, <3>1
  <2>3. CASE ~(i \in A /\ i > p) /\ j \in A /\ j > p
    <3>1. j \div 2 = i
      BY <1>7, <2>3
    <3>2. i \in A /\ i >= p
      BY <1>6, <2>3, <3>1
    <3> QED
      BY <1>4, <1>7, <2>3, <3>2
  <2>4. CASE ~(i \in A /\ i > p) /\ ~(j \in A /\ j > p)
    BY <1>7, <2>4
  <2> QED
    BY <2>1, <2>2, <2>3, <2>4
<1>8. ASSUME NEW k \in 1..Len(h) PROVE \E i \in 1..n : i # p /\ from(i) = k
  <2>1. CASE k \in A /\ k >= p
    <3>1. PICK c \in A : c > k /\ c \div 2 = k
      BY <1>1, <1>2, <2>1 DEF IsPath
    <3>2. c \in 1..n /\ c > p
      BY <1>2, <1>4, <2>1, <3>1 DEF IsPath
    <3> QED
      BY <3>1, <3>2
  <2>2. CASE ~(k \in A /\ k >= p)
    <3>1. k \in 1..n /\ k # p /\ ~(k \in A /\ k > p)
      BY <1>1, <1>4, <2>2
    <3> QED
      BY <3>1
  <2> QED
    BY <2>1, <2>2
<1> HIDE DEF from
<1>9. g \in Seq(Timers) /\ Len(g) = n /\ g[p] = t
  <2>1. \A i \in 1..n : g[i] \in Timers
    BY <1>5 DEF Holds
  <2> QED
    BY <1>1, <1>4, <2>1
<1>10. \A i, j \in 1..n : g[i] = g[j] => i = j
  <2> SUFFICES ASSUME NEW i \in 1..n, NEW j \in 1..n, i < j, g[i] = g[j] PROVE FALSE
    OBVIOUS
  <2>1. CASE i # p /\ j # p
    <3>1. g[i] = h[from(i)] /\ g[j] = h[from(j)]
      BY <2>1
    <3>2. from(i) = from(j)
      BY <1>5, <2>1, <3>1 DEF Holds
    <3> QED
      BY <1>7, <2>1, <3>2
  <2>2. CASE i = p
    <3>1. g[j] = h[from(j)] /\ g[i] = t
      BY <2>2
    <3> QED
      BY <1>5, <2>2, <3>1 DEF Holds
  <2>3. CASE j = p
    <3>1. g[i] = h[from(i)] /\ g[j] = t
      BY <2>3
    <3> QED
      BY <1>5, <2>3, <3>1 DEF Holds
  <2> QED
    BY <2>1, <2>2, <2>3
<1>11. \A i \in 1..n : g[i] \in T \union {t}
  BY <1>5 DEF Holds
<1>12. ASSUME NEW x \in T \union {t} PROVE \E i \in 1..n : g[i] = x
  <2>1. CASE x = t
    BY <1>4, <1>9, <2>1
  <2>2. CASE x # t
    <3>1. PICK k \in 1..Len(h) : h[k] = x
      BY <2>2 DEF Holds
    <3>2. PICK i \in 1..n : i # p /\ from(i) = k
      BY <1>8
    <3> QED
      BY <3>1, <3>2
  <2> QED
    BY <2>1, <2>2
<1>13. T \union {t} \subseteq Timers
  BY DEF Holds
<1> HIDE DEF g
<1> QED
  BY <1>3, <1>4, <1>9, <1>10, <1>11, <1>12, <1>13 DEF Holds

\* ci_timerheap_delete: the last timer takes the place of the one that leaves.
LEMMA CutHolds ==
  ASSUME NEW h, NEW T, Holds(h, T), NEW p \in 1..Len(h)
  PROVE  /\ Holds(CutLast(h, p), T \ {h[p]})
         /\ Len(CutLast(h, p)) = Len(h) - 1
<1> DEFINE n == Len(h)
           from(i) == IF i = p THEN n ELSE i
           g == [i \in 1..(n - 1) |-> h[from(i)]]
<1>1. CutLast(h, p) = g
  BY DEF CutLast
<1>2. n \in Nat \ {0}
  BY DEF Holds
<1>3. \A i \in 1..(n - 1) : from(i) \in 1..n /\ from(i) # p
  BY <1>2
<1>4. \A i, j \in 1..(n - 1) : from(i) = from(j) => i = j
  BY <1>2
<1>5. \A k \in 1..n : k # p => \E i \in 1..(n - 1) : from(i) = k
  <2> SUFFICES ASSUME NEW k \in 1..n, k # p PROVE \E i \in 1..(n - 1) : from(i) = k
    OBVIOUS
  <2>1. CASE k = n
    BY <1>2, <2>1
  <2>2. CASE k # n
    BY <1>2, <2>2
  <2> QED
    BY <2>1, <2>2
<1> HIDE DEF from
<1>6. g \in Seq(Timers) /\ Len(g) = n - 1
  <2>1. \A i \in 1..(n - 1) : g[i] \in Timers
    BY <1>3 DEF Holds
  <2> QED
    BY <1>2, <2>1
<1>7. \A i \in 1..(n - 1) : g[i] = h[from(i)] /\ h[from(i)] # h[p] /\ h[from(i)] \in T
  BY <1>3 DEF Holds
<1>8. \A i, j \in 1..(n - 1) : g[i] = g[j] => i = j
  BY <1>3, <1>4, <1>7 DEF Holds
<1>9. ASSUME NEW x \in T \ {h[p]} PROVE \E i \in 1..(n - 1) : g[i] = x
  <2>1. PICK k \in 1..n : h[k] = x
    BY DEF Holds
  <2>2. k # p
    BY <2>1
  <2> QED
    BY <1>5, <1>7, <2>1, <2>2
<1> HIDE DEF g
<1>10. T \ {h[p]} \subseteq Timers /\ \A i \in 1..(n - 1) : g[i] \in T \ {h[p]}
  BY <1>7 DEF Holds
<1> HIDE DEF n
<1> QED
  BY <1>1, <1>6, <1>8, <1>9, <1>10 DEF Holds, n

\* _SWAP of two positions.
LEMMA SwapHolds ==
  ASSUME NEW h, NEW T, Holds(h, T), NEW p \in 1..Len(h), NEW q \in 1..Len(h)
  PROVE  Holds(Swapped(h, p, q), T) /\ Len(Swapped(h, p, q)) = Len(h)
<1> DEFINE n == Len(h)
           from(i) == IF i = p THEN q ELSE IF i = q THEN p ELSE i
           g == [i \in 1..n |-> h[from(i)]]
<1>1. n \in Nat /\ DOMAIN h = 1..n
  BY DEF Holds
<1>2. Swapped(h, p, q) = g
  BY <1>1 DEF Swapped
<1>3. \A i \in 1..n : from(i) \in 1..n /\ from(from(i)) = i
  OBVIOUS
<1> HIDE DEF from
<1>4. g \in Seq(Timers) /\ Len(g) = n
  <2>1. \A i \in 1..n : g[i] \in Timers
    BY <1>3 DEF Holds
  <2> QED
    BY <1>1, <2>1
<1>5. \A i \in 1..n : g[i] = h[from(i)] /\ g[i] \in T
  BY <1>3 DEF Holds
<1>6. \A i, j \in 1..n : g[i] = g[j] => i = j
  <2> SUFFICES ASSUME NEW i \in 1..n, NEW j \in 1..n, g[i] = g[j] PROVE i = j
    OBVIOUS
  <2>1. from(i) = from(j)
    BY <1>3, <1>5 DEF Holds
  <2> QED
    BY <1>3, <2>1
<1>7. \A x \in T : \E i \in 1..n : g[i] = x
  <2> SUFFICES ASSUME NEW x \in T PROVE \E i \in 1..n : g[i] = x
    OBVIOUS
  <2>1. PICK k \in 1..n : h[k] = x
    BY DEF Holds
  <2> QED
    BY <1>3, <1>5, <2>1
<1> HIDE DEF g, n
<1> QED
  BY <1>2, <1>4, <1>5, <1>6, <1>7 DEF Holds, n

-----------------------------------------------------------------------------
(* Timers in their slots *)

\* The fields of a timer.
Links == {Idx(p) : p \in Nat} \union {Prev(t) : t \in Timers \union {NULL}}
TimerRec == [active : BOOLEAN, inheap : BOOLEAN, expires : Nat,
             next : Timers \union {NULL}, link : Links]

\* The timers with CI_TIMER_HEAP are those of the array, and each has the index
\* of its one position.
InSlots(h, m) ==
  /\ h \in Seq(Timers) /\ m \in [Timers -> TimerRec]
  /\ \A i, j \in 1..Len(h) : h[i] = h[j] => i = j
  /\ \A i \in 1..Len(h) : m[h[i]].link = Idx(i) /\ m[h[i]].inheap
  /\ \A t \in Timers : m[t].inheap => \E i \in 1..Len(h) : h[i] = t

\* r differs from m in the index of timers in the heap, and in the flag and the
\* link of t.
Agree(m, r, t) ==
  /\ r \in [Timers -> TimerRec]
  /\ \A x \in Timers : /\ (r[x].active <=> m[x].active) /\ r[x].expires = m[x].expires
                       /\ r[x].next = m[x].next
  /\ \A x \in Timers : x # t => /\ (r[x].inheap <=> m[x].inheap)
                                /\ ~m[x].inheap => r[x].link = m[x].link

\* Every timer that an exchange moved is told its position, no other is touched.
LEMMA ReindexIs ==
  ASSUME NEW old \in Seq(Timers), NEW g, NEW T, Holds(g, T), NEW m \in [Timers -> TimerRec],
         \A i \in 1..Len(g) : i <= Len(old) /\ old[i] = g[i] => m[g[i]].link = Idx(i)
  PROVE  LET r == Reindex(old, g, m)
         IN  /\ r \in [Timers -> TimerRec]
             /\ \A x \in Timers : /\ (r[x].active <=> m[x].active) /\ r[x].expires = m[x].expires
                                  /\ r[x].next = m[x].next /\ (r[x].inheap <=> m[x].inheap)
                                  /\ x \notin T => r[x].link = m[x].link
             /\ \A i \in 1..Len(g) : r[g[i]].link = Idx(i)
<1> DEFINE Moved(t) == {i \in DOMAIN g : g[i] = t /\ (i > Len(old) \/ old[i] # t)}
           at(t) == Max(Moved(t))
           r == [t \in Timers |-> IF Moved(t) # {} THEN [m[t] EXCEPT !.link = Idx(at(t))] ELSE m[t]]
<1>1. Reindex(old, g, m) = r
  BY DEF Reindex
<1>2. DOMAIN g = 1..Len(g) /\ Len(g) \in Nat /\ Len(old) \in Nat
  BY DEF Holds
<1>3. ASSUME NEW t \in Timers, Moved(t) # {}
      PROVE  at(t) \in 1..Len(g) /\ g[at(t)] = t
  <2>1. PICK i \in 1..Len(g) : i \in Moved(t)
    BY <1>2, <1>3
  <2>2. Moved(t) = {i}
    BY <1>2, <2>1 DEF Holds
  <2>3. at(t) = i
    BY <1>2, <2>2 DEF Max
  <2> QED
    BY <2>1, <2>3
<1> HIDE DEF at
<1>4. ASSUME NEW t \in Timers
      PROVE  /\ r[t] \in TimerRec /\ r[t].active = m[t].active /\ r[t].expires = m[t].expires
             /\ r[t].next = m[t].next /\ r[t].inheap = m[t].inheap
             /\ Moved(t) # {} => r[t].link = Idx(at(t))
             /\ Moved(t) = {} => r[t].link = m[t].link
  <2>1. m[t] \in TimerRec
    OBVIOUS
  <2>2. CASE Moved(t) = {}
    BY <2>1, <2>2
  <2>3. CASE Moved(t) # {}
    <3>1. r[t] = [m[t] EXCEPT !.link = Idx(at(t))]
      BY <2>3
    <3>2. Idx(at(t)) \in Links
      BY <1>2, <1>3, <2>3 DEF Links
    <3> HIDE DEF r, Moved
    <3> QED
      BY <2>1, <2>3, <3>1, <3>2 DEF TimerRec
  <2> QED
    BY <2>2, <2>3
<1>5. \A t \in Timers : t \notin T => Moved(t) = {}
  BY <1>2 DEF Holds
<1>6. ASSUME NEW i \in 1..Len(g) PROVE r[g[i]].link = Idx(i)
  <2>1. g[i] \in Timers
    BY DEF Holds
  <2>2. CASE Moved(g[i]) = {}
    <3>1. i <= Len(old) /\ old[i] = g[i]
      BY <1>2, <2>2
    <3> HIDE DEF Moved, r
    <3> QED
      BY <1>4, <2>1, <2>2, <3>1
  <2>3. CASE Moved(g[i]) # {}
    <3>1. at(g[i]) = i
      BY <1>3, <2>1, <2>3 DEF Holds
    <3> HIDE DEF Moved, r
    <3> QED
      BY <1>4, <2>1, <2>3, <3>1
  <2> QED
    BY <2>2, <2>3
<1>7. r \in [Timers -> TimerRec]
  <2>1. \A t \in Timers : r[t] \in TimerRec
    BY <1>4
  <2> QED
    BY <2>1
<1>8. \A x \in Timers : /\ (r[x].active <=> m[x].active) /\ r[x].expires = m[x].expires
                        /\ r[x].next = m[x].next /\ (r[x].inheap <=> m[x].inheap)
                        /\ x \notin T => r[x].link = m[x].link
  BY <1>4, <1>5
<1> HIDE DEF r
<1> QED
  BY <1>1, <1>6, <1>7, <1>8

\* A set of numbers up to n has a greatest one.
LEMMA MaxIn ==
  ASSUME NEW n \in Nat, NEW S, S \subseteq 1..n, S # {}
  PROVE  Max(S) \in S
<1> DEFINE D == {n - x : x \in S}
<1>1. D \subseteq Nat /\ D # {}
  <2>1. \A x \in S : n - x \in Nat
    OBVIOUS
  <2> QED
    BY <2>1
<1>2. PICK d \in D : \A e \in D : d <= e
  BY <1>1, LeastNat
<1>3. PICK x \in S : d = n - x
  BY <1>2
<1>4. ASSUME NEW y \in S PROVE x >= y
  <2>1. n - y \in D /\ x \in Int /\ y \in Int
    OBVIOUS
  <2>2. n - x <= n - y
    BY <1>2, <1>3, <2>1
  <2> QED
    BY <2>1, <2>2
<1> QED
  BY <1>4 DEF Max

\* A set of positions has a least one.
LEMMA MinIn ==
  ASSUME NEW S, S \subseteq Nat, S # {}
  PROVE  Min(S) \in S
<1>1. \E x \in S : \A y \in S : x <= y
  BY LeastNat
<1> QED
  BY <1>1 DEF Min

\* What the slots of InSlots hold.
LEMMA SlotsHold ==
  ASSUME NEW h, NEW m, InSlots(h, m)
  PROVE  Holds(h, {x \in Timers : m[x].inheap})
BY DEF InSlots, Holds

\* The array and the timers are in step when each timer has its index.
LEMMA SlotsFrom ==
  ASSUME NEW h, NEW m \in [Timers -> TimerRec], Holds(h, {x \in Timers : m[x].inheap}),
         \A i \in 1..Len(h) : m[h[i]].link = Idx(i)
  PROVE  InSlots(h, m)
BY DEF InSlots, Holds

\* Where ci_timerheap_delete leaves the heap.
LEMMA DeleteIs ==
  ASSUME NEW h, NEW m, InSlots(h, m), NEW t \in Timers, m[t].inheap
  PROVE  LET q == ci_timerheap_delete(h, m, t)
         IN  /\ InSlots(q.h, q.m) /\ Agree(m, q.m, t) /\ ~q.m[t].inheap
             /\ Len(q.h) = Len(h) - 1
<1> DEFINE T == {x \in Timers : m[x].inheap}
           p == IF m[t].link.is = "idx" THEN m[t].link.v ELSE Len(h) + 1
           cut == CutLast(h, p)
           m1 == [m EXCEPT ![t].inheap = FALSE]
           r == Reindex(h, cut, m1)
           q == ci_timerheap_delete(h, m, t)
<1>1. q.h = cut /\ q.m = r
  BY DEF ci_timerheap_delete, Place
<1>2. Holds(h, T)
  BY SlotsHold
<1>3. p \in 1..Len(h) /\ h[p] = t
  <2>1. PICK i \in 1..Len(h) : h[i] = t
    BY DEF InSlots
  <2>2. m[t].link = Idx(i)
    BY <2>1 DEF InSlots
  <2>3. p = i
    BY <2>2 DEF Idx
  <2> QED
    BY <2>1, <2>3
<1> HIDE DEF p
<1>4. Holds(cut, T \ {t}) /\ Len(cut) = Len(h) - 1
  BY <1>2, <1>3, CutHolds
<1>5. h \in Seq(Timers) /\ m \in [Timers -> TimerRec] /\ Len(h) \in Nat
  BY DEF InSlots
<1>6. /\ m1 \in [Timers -> TimerRec]
      /\ \A x \in Timers : /\ m1[x].active = m[x].active /\ m1[x].expires = m[x].expires
                           /\ m1[x].next = m[x].next /\ m1[x].link = m[x].link
                           /\ m1[x].inheap = (m[x].inheap /\ x # t)
  BY <1>5 DEF TimerRec
<1>7. ASSUME NEW i \in 1..Len(cut), h[i] = cut[i] PROVE m1[cut[i]].link = Idx(i)
  <2>1. i \in 1..Len(h)
    BY <1>4, <1>5
  <2> QED
    BY <1>5, <1>6, <1>7, <2>1 DEF InSlots
<1> HIDE DEF cut, m1, T
<1>8. /\ r \in [Timers -> TimerRec]
      /\ \A x \in Timers : /\ (r[x].active <=> m1[x].active) /\ r[x].expires = m1[x].expires
                           /\ r[x].next = m1[x].next /\ (r[x].inheap <=> m1[x].inheap)
                           /\ x \notin T \ {t} => r[x].link = m1[x].link
      /\ \A i \in 1..Len(cut) : r[cut[i]].link = Idx(i)
  BY <1>4, <1>5, <1>6, <1>7, ReindexIs
<1> HIDE DEF r, q
<1>9. {x \in Timers : r[x].inheap} = T \ {t}
  BY <1>6, <1>8 DEF T
<1>10. InSlots(cut, r)
  BY <1>4, <1>8, <1>9, SlotsFrom
<1>11. Agree(m, r, t)
  BY <1>6, <1>8 DEF Agree, T
<1> QED
  BY <1>1, <1>4, <1>6, <1>8, <1>10, <1>11 DEF q

\* The timer that t may be chained to, and why.
Batches(h, m, t, head) ==
  /\ \E c \in 1..Len(h) : head = h[c]
  /\ ~kind[t].nobatch /\ Close(m[t].expires, m[head].expires, Batch)

\* Where ci_timerheap_insert leaves the heap: the timer is in a slot, or it is
\* in no slot and has been given to a chain.
LEMMA InsertIs ==
  ASSUME NEW h, NEW m0, InSlots(h, m0), NEW t \in Timers, ~m0[t].inheap
  PROVE  LET q == ci_timerheap_insert(h, m0, t)
         IN  \/ /\ InSlots(q.h, q.m) /\ Agree(m0, q.m, t) /\ q.m[t].inheap
                /\ Len(q.h) = Len(h) + 1
             \/ \E head \in Timers : \E r :
                  /\ InSlots(q.h, r) /\ Agree(m0, r, t) /\ ~r[t].inheap
                  /\ Batches(h, m0, t, head) /\ Len(q.h) = Len(h)
                  /\ q.m = ci_timer_chain(r, head, t)
<1> DEFINE T == {x \in Timers : m0[x].inheap}
           n == Len(h) + 1
           m == [m0 EXCEPT ![t].link = Idx(n), ![t].inheap = TRUE]
           R == {a \in Ancestors(n) : Rests(h, m, t, a)}
           p == Max(R)
           up == Floated(h, t, p)
           mates == Mates(h, m, t, p)
           cut == CutLast(up, p)
           rest == SwapLeft(up, m, p)
           m2 == [m EXCEPT ![t].inheap = FALSE]
           head == h[Candidates(p)[Min(mates)]]
           q == ci_timerheap_insert(h, m0, t)
<1>1. /\ mates # {} => q.h = cut /\ q.m = ci_timer_chain(Reindex(h, cut, m2), head, t)
      /\ mates = {} => q.h = rest /\ q.m = Reindex(h, rest, m)
  BY DEF ci_timerheap_insert, Place
<1>2. Holds(h, T) /\ t \notin T
  BY SlotsHold
<1>3. h \in Seq(Timers) /\ m0 \in [Timers -> TimerRec] /\ Len(h) \in Nat /\ n \in Nat \ {0}
  BY DEF InSlots
<1>4. p \in Ancestors(n)
  <2>1. IsPath(Ancestors(n), n)
    BY <1>3, AncestorsPath
  <2>2. 1 \in R
    BY <2>1 DEF IsPath, Rests
  <2>3. R \subseteq 1..n
    BY <2>1 DEF IsPath
  <2> HIDE DEF R
  <2>4. p \in R
    BY <1>3, <2>2, <2>3, MaxIn
  <2> QED
    BY <2>4 DEF R
<1> HIDE DEF p, q
<1>5. Holds(up, T \union {t}) /\ Len(up) = n /\ up[p] = t /\ p \in 1..n
  <2>1. p \in Ancestors(Len(h) + 1)
    BY <1>4
  <2> HIDE DEF T, m
  <2>2. /\ Holds(Floated(h, t, p), T \union {t})
        /\ Len(Floated(h, t, p)) = Len(h) + 1 /\ Floated(h, t, p)[p] = t
        /\ p \in 1..(Len(h) + 1)
    BY <1>2, <2>1, FloatedHolds
  <2> QED
    BY <2>2
<1>6. /\ m \in [Timers -> TimerRec] /\ m2 \in [Timers -> TimerRec]
      /\ \A x \in Timers : /\ m[x].active = m0[x].active /\ m[x].expires = m0[x].expires
                           /\ m[x].next = m0[x].next
                           /\ x # t => m[x].link = m0[x].link
                           /\ m[x].inheap = (m0[x].inheap \/ x = t)
      /\ \A x \in Timers : /\ m2[x].active = m0[x].active /\ m2[x].expires = m0[x].expires
                           /\ m2[x].next = m0[x].next
                           /\ x # t => m2[x].link = m0[x].link
                           /\ m2[x].inheap = m0[x].inheap
  <2>1. Idx(n) \in Links
    BY <1>3 DEF Links
  <2> QED
    BY <1>3, <2>1 DEF TimerRec
<1>7. \A x \in T : \E i \in 1..Len(h) : h[i] = x /\ m0[x].link = Idx(i)
  BY DEF InSlots
<1> HIDE DEF m, m2, up, T
<1>8. ASSUME NEW g, NEW mm, NEW U, Holds(g, U), U \subseteq T \union {t}, mm \in {m, m2}
      PROVE  \A i \in 1..Len(g) : i <= Len(h) /\ h[i] = g[i] => mm[g[i]].link = Idx(i)
  <2> SUFFICES ASSUME NEW i \in 1..Len(g), i <= Len(h), h[i] = g[i] PROVE mm[g[i]].link = Idx(i)
    OBVIOUS
  <2>1. i \in 1..Len(h) /\ Len(g) \in Nat
    BY <1>3, <1>8 DEF Holds
  <2>2. h[i] \in Timers /\ h[i] # t /\ m0[h[i]].link = Idx(i)
    BY <1>2, <2>1 DEF InSlots, Holds
  <2> QED
    BY <1>6, <1>8, <2>2
<1>9. CASE mates = {}
  <2> DEFINE r == Reindex(h, rest, m)
  <2>1. Holds(rest, T \union {t}) /\ Len(rest) = n
    <3>1. CASE rest = up
      BY <1>5, <3>1
    <3>2. CASE rest # up
      <4>1. p % 2 = 0 /\ rest = Swapped(up, p, p - 1)
        BY <3>2 DEF SwapLeft
      <4>2. p \in 1..Len(up) /\ p - 1 \in 1..Len(up)
        BY <1>5, <4>1
      <4> QED
        BY <1>5, <4>1, <4>2, SwapHolds
    <3> QED
      BY <3>1, <3>2
  <2> HIDE DEF rest
  <2>2. \A i \in 1..Len(rest) : i <= Len(h) /\ h[i] = rest[i] => m[rest[i]].link = Idx(i)
    BY <1>8, <2>1
  <2>3. /\ r \in [Timers -> TimerRec]
        /\ \A x \in Timers : /\ (r[x].active <=> m[x].active) /\ r[x].expires = m[x].expires
                             /\ r[x].next = m[x].next /\ (r[x].inheap <=> m[x].inheap)
                             /\ x \notin T \union {t} => r[x].link = m[x].link
        /\ \A i \in 1..Len(rest) : r[rest[i]].link = Idx(i)
    <3> DEFINE U == T \union {t}
    <3>1. Holds(rest, U)
      BY <2>1
    <3> HIDE DEF U
    <3> HIDE DEF n
    <3>2. /\ r \in [Timers -> TimerRec]
          /\ \A x \in Timers : /\ (r[x].active <=> m[x].active) /\ r[x].expires = m[x].expires
                               /\ r[x].next = m[x].next /\ (r[x].inheap <=> m[x].inheap)
                               /\ x \notin U => r[x].link = m[x].link
          /\ \A i \in 1..Len(rest) : r[rest[i]].link = Idx(i)
      BY <1>3, <1>6, <2>2, <3>1, ReindexIs
    <3> QED
      BY <3>2 DEF U
  <2> HIDE DEF r
  <2>4. {x \in Timers : r[x].inheap} = T \union {t}
    BY <1>6, <2>3 DEF T
  <2>5. InSlots(rest, r)
    BY <2>1, <2>3, <2>4, SlotsFrom
  <2>6. Agree(m0, r, t)
    <3>1. \A x \in Timers : /\ (r[x].active <=> m0[x].active) /\ r[x].expires = m0[x].expires
                            /\ r[x].next = m0[x].next
      BY <1>6, <2>3
    <3>2. \A x \in Timers : x # t => (r[x].inheap <=> m0[x].inheap)
      BY <1>6, <2>3
    <3>3. \A x \in Timers : x # t /\ ~m0[x].inheap => r[x].link = m0[x].link
      BY <1>6, <2>3 DEF T
    <3> QED
      BY <2>3, <3>1, <3>2, <3>3 DEF Agree
  <2>7. r[t].inheap
    BY <1>6, <2>3
  <2> QED
    BY <1>1, <1>9, <2>1, <2>5, <2>6, <2>7 DEF r, q
<1>10. CASE mates # {}
  <2> DEFINE r == Reindex(h, cut, m2)
  <2>1. Holds(cut, T) /\ Len(cut) = Len(h)
    <3>1. Holds(cut, (T \union {t}) \ {up[p]}) /\ Len(cut) = Len(up) - 1
      BY <1>5, CutHolds
    <3>2. (T \union {t}) \ {up[p]} = T
      BY <1>2, <1>5
    <3>3. Len(up) = Len(h) + 1
      BY <1>5
    <3> HIDE DEF cut, n
    <3>4. Len(cut) = Len(h)
      BY <1>3, <3>1, <3>3
    <3> QED
      BY <3>1, <3>2, <3>4
  <2> HIDE DEF cut
  <2>2. \A i \in 1..Len(cut) : i <= Len(h) /\ h[i] = cut[i] => m2[cut[i]].link = Idx(i)
    BY <1>8, <2>1
  <2>3. /\ r \in [Timers -> TimerRec]
        /\ \A x \in Timers : /\ (r[x].active <=> m2[x].active) /\ r[x].expires = m2[x].expires
                             /\ r[x].next = m2[x].next /\ (r[x].inheap <=> m2[x].inheap)
                             /\ x \notin T => r[x].link = m2[x].link
        /\ \A i \in 1..Len(cut) : r[cut[i]].link = Idx(i)
    BY <1>3, <1>6, <2>1, <2>2, ReindexIs
  <2> HIDE DEF r
  <2>4. {x \in Timers : r[x].inheap} = T
    BY <1>6, <2>3 DEF T
  <2>5. InSlots(cut, r)
    BY <2>1, <2>3, <2>4, SlotsFrom
  <2>6. Agree(m0, r, t)
    BY <1>6, <2>3 DEF Agree, T
  <2>7. ~r[t].inheap
    BY <1>6, <2>3
  <2>8. PICK k \in mates : k = Min(mates)
    <3>1. mates \subseteq Nat
      BY DEF Mates, Candidates
    <3> HIDE DEF mates
    <3> QED
      BY <1>10, <3>1, MinIn
  <2> DEFINE c == Candidates(p)[k]
  <2>9. c \in 1..Len(h)
    <3>1. p > 1 /\ k \in DOMAIN Candidates(p)
      BY <2>8 DEF Mates
    <3>2. CASE p > 5
      <4>1. Candidates(p) = <<p \div 2, p - 1, p - 2, p - 3>>
        BY <3>2 DEF Candidates
      <4>2. k \in 1..4
        BY <3>1, <4>1
      <4>3. c \in {p \div 2, p - 1, p - 2, p - 3}
        BY <4>1, <4>2
      <4> HIDE DEF c
      <4> QED
        BY <1>3, <1>5, <3>2, <4>3
    <3>3. CASE ~(p > 5)
      <4>1. Candidates(p) = <<p \div 2>>
        BY <3>3 DEF Candidates
      <4>2. k = 1
        BY <3>1, <4>1
      <4>3. c = p \div 2
        BY <4>1, <4>2
      <4> HIDE DEF c
      <4> QED
        BY <1>3, <1>5, <3>1, <4>3
    <3> QED
      BY <3>2, <3>3
  <2>10. head = h[c] /\ head \in Timers
    BY <1>3, <2>8, <2>9
  <2>11. Batches(h, m0, t, head)
    <3>1. BatchOf(t) > 0 /\ Close(m[t].expires, m[h[c]].expires, BatchOf(t))
      BY <2>8 DEF Mates
    <3>2. ~kind[t].nobatch /\ BatchOf(t) = Batch
      BY <3>1 DEF BatchOf
    <3>3. m[t].expires = m0[t].expires /\ m[head].expires = m0[head].expires
      BY <1>6, <2>10
    <3> HIDE DEF head, c
    <3> QED
      BY <2>9, <2>10, <3>1, <3>2, <3>3 DEF Batches
  <2> HIDE DEF head
  <2> QED
    BY <1>1, <1>10, <2>1, <2>5, <2>6, <2>7, <2>10, <2>11 DEF r, q
<1> QED
  BY <1>9, <1>10

-----------------------------------------------------------------------------
(* Chains.  hd[t] is the head of the chain that t is on, t itself when t is  *)
(* a head, and NULL for the timers that are nowhere.  rk[t] is the number    *)
(* of steps of next from t back to the head.                                 *)

OnChain(hd, t) == hd[t] # NULL /\ hd[t] # t

\* next of t is the timer one step nearer to the end, and points back at t.
Follows(m, hd, rk, t) ==
  LET n == m[t].next
  IN  /\ n \in Timers /\ OnChain(hd, n) /\ hd[n] = hd[t] /\ rk[n] + 1 = rk[t]
      /\ m[n].link = Prev(t)

\* A poll in a callback fires the chain of min, which has left the heap and had
\* expired.
Polling(m, po, hd) ==
  /\ po \in [pc : {"idle", "loop", "callback"}, now : Nat, min : Timers \union {NULL}, cur : Timers \union {NULL}]
  /\ po.pc = "callback" <=> po.min # NULL
  /\ po.min = NULL => po.cur = NULL
  /\ po.min # NULL => /\ ~m[po.min].inheap /\ po.cur # NULL /\ hd[po.cur] = po.min
                      /\ m[po.min].expires <= po.now

\* The heads are the timers in the heap and the one that fires; a timer that is
\* nowhere has no next.
Heads(m, po, hd) ==
  /\ hd \in [Timers -> Timers \union {NULL}]
  /\ \A t \in Timers : hd[t] = t <=> m[t].inheap \/ t = po.min
  /\ \A t \in Timers : hd[t] # NULL => hd[hd[t]] = hd[t] /\ m[t].active
  /\ \A t \in Timers : hd[t] = NULL => m[t].next = NULL

\* The timers due are those somewhere, but for the ones that fire already.
AreDue(d, po, hd) ==
  /\ d \subseteq Timers
  /\ \A t \in Timers : t \in d <=> hd[t] # NULL /\ t # po.min /\ t # po.cur

\* The timers of a chain: each leads to the next, the last to the head.
ChainsClose(m, hd, rk) ==
  \A t \in Timers : OnChain(hd, t) =>
    /\ rk[t] >= 1 /\ rk[t] < rk[hd[t]]
    /\ rk[t] = 1 => m[t].next = hd[t]
    /\ rk[t] # 1 => Follows(m, hd, rk, t)

\* The heads: each leads to the first of its chain, if it has one.
HeadsLead(m, po, hd, rk) ==
  \A t \in Timers : hd[t] = t /\ (t = po.min => po.cur = t) =>
    /\ rk[t] >= 1
    /\ rk[t] = 1 => m[t].next = NULL
    /\ rk[t] # 1 => Follows(m, hd, rk, t)

\* No two timers of a chain have the same rank, those before cur have left, and
\* the rank of a head in the heap counts its chain.
RanksDiffer(hd, rk) ==
  \A t, u \in Timers : OnChain(hd, t) /\ OnChain(hd, u) /\ hd[t] = hd[u] /\ rk[t] = rk[u] => t = u
CurLeads(po, hd, rk) ==
  po.cur # po.min => \A u \in Timers : OnChain(hd, u) /\ hd[u] = po.min => rk[u] <= rk[po.cur]
Counts(m, hd, rk) ==
  /\ rk \in [Timers -> 0..Cardinality(Timers)]
  /\ \A t \in Timers : m[t].inheap => rk[t] = Cardinality({u \in Timers : hd[u] = t})

\* What batching allows.
Batched(m, hd) ==
  \A t \in Timers : OnChain(hd, t) => ~kind[t].nobatch /\ m[t].expires <= m[hd[t]].expires + Batch

Web(m, d, po, hd, rk) ==
  /\ Polling(m, po, hd) /\ Heads(m, po, hd) /\ AreDue(d, po, hd)
  /\ ChainsClose(m, hd, rk) /\ HeadsLead(m, po, hd, rk)
  /\ RanksDiffer(hd, rk) /\ CurLeads(po, hd, rk) /\ Counts(m, hd, rk) /\ Batched(m, hd)

\* r differs from m in t and in the indices of timers in the heap.
Others(m, r, t) ==
  /\ r \in [Timers -> TimerRec]
  /\ \A x \in Timers : x # t => /\ (r[x].active <=> m[x].active) /\ r[x].expires = m[x].expires
                                /\ r[x].next = m[x].next /\ (r[x].inheap <=> m[x].inheap)
                                /\ ~m[x].inheap => r[x].link = m[x].link

\* NULL is no timer.
LEMMA NullIsNone == NULL \notin Timers /\ Cardinality(Timers) \in Nat
BY TimerAssumption, FS_CardinalityType DEF NULL

\* A timer that was nowhere comes to a slot, with no chain.
LEMMA WebRested ==
  ASSUME NEW m \in [Timers -> TimerRec], NEW r, NEW d, NEW po, NEW hd, NEW rk, Web(m, d, po, hd, rk),
         NEW t \in Timers, hd[t] = NULL, Others(m, r, t),
         r[t].inheap, r[t].active, r[t].next = NULL
  PROVE  Web(r, d \union {t}, po, [hd EXCEPT ![t] = t], [rk EXCEPT ![t] = 1])
<1> DEFINE H == [hd EXCEPT ![t] = t]
           K == [rk EXCEPT ![t] = 1]
<1>1. NULL \notin Timers /\ Cardinality(Timers) \in Nat /\ 1 \in 0..Cardinality(Timers)
  BY NullIsNone, TimerAssumption
<1>2. hd \in [Timers -> Timers \union {NULL}] /\ rk \in [Timers -> 0..Cardinality(Timers)]
  BY DEF Web, Heads, Counts
<1>3. /\ H \in [Timers -> Timers \union {NULL}] /\ K \in [Timers -> 0..Cardinality(Timers)]
      /\ H[t] = t /\ K[t] = 1
      /\ \A x \in Timers : x # t => H[x] = hd[x] /\ K[x] = rk[x]
  BY <1>1, <1>2
<1> HIDE DEF H, K
<1>4. t # po.min /\ t # po.cur /\ ~m[t].inheap
  BY <1>1 DEF Web, Heads, Polling
<1>5. \A x \in Timers : hd[x] # t
  BY <1>1 DEF Web, Heads
<1>6. \A x \in Timers : OnChain(H, x) <=> OnChain(hd, x) /\ x # t
  BY <1>1, <1>3 DEF OnChain
<1>7. ASSUME NEW x \in Timers, x # t, Follows(m, hd, rk, x) PROVE Follows(r, H, K, x)
  <2> DEFINE n == m[x].next
  <2>1. n \in Timers /\ OnChain(hd, n) /\ hd[n] = hd[x] /\ rk[n] + 1 = rk[x] /\ m[n].link = Prev(x)
    BY <1>7 DEF Follows
  <2>2. n # t /\ n # po.min /\ ~m[n].inheap
    BY <1>1, <2>1 DEF OnChain, Web, Heads
  <2>3. r[x].next = n /\ r[n].link = m[n].link
    BY <1>7, <2>1, <2>2 DEF Others
  <2> QED
    BY <1>3, <1>6, <1>7, <2>1, <2>2, <2>3 DEF Follows
<1>8. Polling(r, po, H)
  BY <1>3, <1>4 DEF Web, Polling, Others
<1>9. Heads(r, po, H)
  BY <1>1, <1>3, <1>4, <1>5 DEF Web, Heads, Others
<1>10. AreDue(d \union {t}, po, H)
  BY <1>1, <1>3, <1>4 DEF Web, AreDue
<1>11. ChainsClose(r, H, K)
  <2> SUFFICES ASSUME NEW x \in Timers, OnChain(H, x)
               PROVE  /\ K[x] >= 1 /\ K[x] < K[H[x]]
                      /\ K[x] = 1 => r[x].next = H[x]
                      /\ K[x] # 1 => Follows(r, H, K, x)
    BY DEF ChainsClose
  <2>1. OnChain(hd, x) /\ x # t /\ hd[x] # t /\ hd[x] \in Timers
    BY <1>2, <1>5, <1>6 DEF OnChain
  <2>2. /\ rk[x] >= 1 /\ rk[x] < rk[hd[x]]
        /\ rk[x] = 1 => m[x].next = hd[x]
        /\ rk[x] # 1 => Follows(m, hd, rk, x)
    BY <2>1 DEF Web, ChainsClose
  <2>3. r[x].next = m[x].next
    BY <2>1 DEF Others
  <2> QED
    BY <1>3, <1>7, <2>1, <2>2, <2>3
<1>12. HeadsLead(r, po, H, K)
  <2> SUFFICES ASSUME NEW x \in Timers, H[x] = x, x = po.min => po.cur = x
               PROVE  /\ K[x] >= 1
                      /\ K[x] = 1 => r[x].next = NULL
                      /\ K[x] # 1 => Follows(r, H, K, x)
    BY DEF HeadsLead
  <2>1. CASE x = t
    BY <1>3, <2>1
  <2>2. CASE x # t
    <3>1. /\ rk[x] >= 1
          /\ rk[x] = 1 => m[x].next = NULL
          /\ rk[x] # 1 => Follows(m, hd, rk, x)
      BY <1>3, <2>2 DEF Web, HeadsLead
    <3>2. r[x].next = m[x].next
      BY <2>2 DEF Others
    <3> QED
      BY <1>3, <1>7, <2>2, <3>1, <3>2
  <2> QED
    BY <2>1, <2>2
<1>13. RanksDiffer(H, K) /\ CurLeads(po, H, K)
  BY <1>3, <1>4, <1>6 DEF Web, RanksDiffer, CurLeads, Polling
<1>14. Counts(r, H, K)
  <2> SUFFICES ASSUME NEW x \in Timers, r[x].inheap
               PROVE  K[x] = Cardinality({u \in Timers : H[u] = x})
    BY <1>3 DEF Counts
  <2>1. CASE x = t
    <3>1. {u \in Timers : H[u] = x} = {t}
      BY <1>3, <1>5, <2>1
    <3>2. Cardinality({t}) = 1
      BY FS_Singleton
    <3>3. K[x] = 1
      BY <1>3, <2>1
    <3> QED
      BY <3>1, <3>2, <3>3
  <2>2. CASE x # t
    <3>1. {u \in Timers : H[u] = x} = {u \in Timers : hd[u] = x}
      BY <1>1, <1>3, <2>2
    <3>2. m[x].inheap
      BY <2>2 DEF Others
    <3> QED
      BY <1>3, <2>2, <3>1, <3>2 DEF Web, Counts
  <2> QED
    BY <2>1, <2>2
<1>15. Batched(r, H)
  BY <1>3, <1>5, <1>6, <1>2 DEF Web, Batched, Others, OnChain
<1> QED
  BY <1>8, <1>9, <1>10, <1>11, <1>12, <1>13, <1>14, <1>15 DEF Web, H, K

\* ci_timer_chain puts t between the head and what the head led to.
LEMMA ChainIs ==
  ASSUME NEW m \in [Timers -> TimerRec], NEW head \in Timers, NEW t \in Timers, head # t,
         NEW s, s = m[head].next, s # head, s # t
  PROVE  LET c == ci_timer_chain(m, head, t)
         IN  /\ c \in [Timers -> TimerRec]
             /\ \A x \in Timers : /\ (c[x].active <=> m[x].active) /\ c[x].expires = m[x].expires
                                  /\ (c[x].inheap <=> m[x].inheap)
             /\ c[head].next = t /\ c[t].link = Prev(head)
             /\ s = NULL => c[t].next = head
             /\ s # NULL => c[t].next = s /\ c[s].link = Prev(t)
             /\ \A x \in Timers : x # head /\ x # t => c[x].next = m[x].next
             /\ \A x \in Timers : x # s /\ x # t => c[x].link = m[x].link
<1> DEFINE c == ci_timer_chain(m, head, t)
           after == IF s = NULL THEN head ELSE s
           rh == [m[head] EXCEPT !.next = t]
           rt == [m[t] EXCEPT !.next = after, !.link = Prev(head)]
           rs == [m[s] EXCEPT !.link = Prev(t)]
           e == [x \in Timers |-> IF x = head THEN rh ELSE IF x = t THEN rt
                                  ELSE IF x = s THEN rs ELSE m[x]]
<1>1. /\ s \in Timers \union {NULL} /\ NULL \notin Timers
      /\ Prev(head) \in Links /\ Prev(t) \in Links
  BY NullIsNone DEF TimerRec, Links
<1>2. c = e
  <2>1. CASE s = NULL
    <3>1. c = [m EXCEPT ![head].next = t, ![t].next = head, ![t].link = Prev(head)]
      BY <2>1 DEF ci_timer_chain
    <3> HIDE DEF c
    <3> QED
      BY <1>1, <2>1, <3>1
  <2>2. CASE s # NULL
    <3>1. c = [m EXCEPT ![head].next = t, ![t].next = s, ![t].link = Prev(head), ![s].link = Prev(t)]
      BY <2>2 DEF ci_timer_chain
    <3> HIDE DEF c
    <3> QED
      BY <1>1, <2>2, <3>1
  <2> QED
    BY <2>1, <2>2
<1> HIDE DEF c
<1>3. /\ rh \in TimerRec /\ (rh.active <=> m[head].active) /\ rh.expires = m[head].expires
      /\ (rh.inheap <=> m[head].inheap) /\ rh.next = t /\ rh.link = m[head].link
  BY DEF TimerRec
<1>4. /\ rt \in TimerRec /\ (rt.active <=> m[t].active) /\ rt.expires = m[t].expires
      /\ (rt.inheap <=> m[t].inheap) /\ rt.next = after /\ rt.link = Prev(head)
  <2>1. after \in Timers
    BY <1>1
  <2> HIDE DEF after
  <2> QED
    BY <1>1, <2>1 DEF TimerRec
<1>5. s \in Timers =>
      /\ rs \in TimerRec /\ (rs.active <=> m[s].active) /\ rs.expires = m[s].expires
      /\ (rs.inheap <=> m[s].inheap) /\ rs.next = m[s].next /\ rs.link = Prev(t)
  BY <1>1 DEF TimerRec
<1> HIDE DEF rh, rt, rs
<1>6. /\ e[head] = rh /\ e[t] = rt /\ (s \in Timers => e[s] = rs)
      /\ \A x \in Timers : x # head /\ x # t /\ x # s => e[x] = m[x]
  OBVIOUS
<1>7. e \in [Timers -> TimerRec]
  BY <1>3, <1>4, <1>5
<1> HIDE DEF e
<1>8. \A x \in Timers : /\ (e[x].active <=> m[x].active) /\ e[x].expires = m[x].expires
                        /\ (e[x].inheap <=> m[x].inheap)
  BY <1>3, <1>4, <1>5, <1>6
<1>9. /\ \A x \in Timers : x # head /\ x # t => e[x].next = m[x].next
      /\ \A x \in Timers : x # s /\ x # t => e[x].link = m[x].link
  BY <1>3, <1>5, <1>6
<1>10. /\ e[head].next = t /\ e[t].link = Prev(head)
       /\ s = NULL => e[t].next = head
       /\ s # NULL => e[t].next = s /\ e[s].link = Prev(t)
  BY <1>1, <1>3, <1>4, <1>5, <1>6
<1> QED
  BY <1>2, <1>7, <1>8, <1>9, <1>10 DEF c

\* A timer that was nowhere comes to the front of a chain.
LEMMA WebChained ==
  ASSUME NEW m \in [Timers -> TimerRec], NEW r, NEW d, NEW po, NEW hd, NEW rk, Web(m, d, po, hd, rk),
         NEW t \in Timers, hd[t] = NULL, Others(m, r, t), ~r[t].inheap, r[t].active,
         NEW head \in Timers, m[head].inheap,
         ~kind[t].nobatch, r[t].expires <= m[head].expires + Batch
  PROVE  /\ Web(ci_timer_chain(r, head, t), d \union {t}, po, [hd EXCEPT ![t] = head],
                [rk EXCEPT ![head] = rk[head] + 1, ![t] = rk[head]])
         /\ ci_timer_chain(r, head, t) \in [Timers -> TimerRec]
         /\ \A x \in Timers : /\ ci_timer_chain(r, head, t)[x].inheap <=> r[x].inheap
                              /\ ci_timer_chain(r, head, t)[x].active <=> r[x].active
                              /\ r[x].inheap => ci_timer_chain(r, head, t)[x].link = r[x].link
<1> DEFINE H == [hd EXCEPT ![t] = head]
           K == [rk EXCEPT ![head] = rk[head] + 1, ![t] = rk[head]]
           s == m[head].next
           c == ci_timer_chain(r, head, t)
           N == Cardinality(Timers)
           M == {u \in Timers : hd[u] = head}
<1>1. NULL \notin Timers /\ N \in Nat
  BY NullIsNone
<1>2. hd \in [Timers -> Timers \union {NULL}] /\ rk \in [Timers -> 0..N]
  BY DEF Web, Heads, Counts
<1>3. t # po.min /\ t # po.cur /\ ~m[t].inheap /\ t # head /\ head # po.min /\ hd[head] = head
  BY <1>1 DEF Web, Heads, Polling
<1>4. \A x \in Timers : hd[x] # t
  BY <1>1 DEF Web, Heads
<1>5. rk[head] >= 1 /\ (rk[head] = 1 => s = NULL) /\ (rk[head] # 1 => Follows(m, hd, rk, head))
  BY <1>3 DEF Web, HeadsLead
<1>6. rk[head] # 1 => /\ s \in Timers /\ OnChain(hd, s) /\ hd[s] = head /\ rk[s] + 1 = rk[head]
                      /\ m[s].link = Prev(head) /\ s # head /\ s # t /\ ~m[s].inheap
  BY <1>3, <1>5 DEF Follows, OnChain, Web, Heads
<1>7. /\ r \in [Timers -> TimerRec] /\ r[head].next = s
      /\ \A x \in Timers : x # t => /\ (r[x].active <=> m[x].active) /\ r[x].expires = m[x].expires
                                    /\ r[x].next = m[x].next /\ (r[x].inheap <=> m[x].inheap)
                                    /\ ~m[x].inheap => r[x].link = m[x].link
  BY <1>3 DEF Others
<1>8. s # head /\ s # t /\ (s = NULL => rk[head] = 1)
  BY <1>1, <1>5, <1>6
<1> HIDE DEF s
<1>9. /\ c \in [Timers -> TimerRec]
      /\ \A x \in Timers : /\ (c[x].active <=> r[x].active) /\ c[x].expires = r[x].expires
                           /\ (c[x].inheap <=> r[x].inheap)
      /\ c[head].next = t /\ c[t].link = Prev(head)
      /\ s = NULL => c[t].next = head
      /\ s # NULL => c[t].next = s /\ c[s].link = Prev(t)
      /\ \A x \in Timers : x # head /\ x # t => c[x].next = r[x].next
      /\ \A x \in Timers : x # s /\ x # t => c[x].link = r[x].link
  BY <1>3, <1>7, <1>8, ChainIs
<1> HIDE DEF c
<1>10. /\ M \in SUBSET Timers /\ Cardinality(M) = rk[head] /\ t \notin M
       /\ Cardinality(M \union {t}) = rk[head] + 1 /\ rk[head] + 1 \in 0..N
  <2>1. t \notin M /\ Cardinality(M) = rk[head]
    BY <1>1, <1>4 DEF Web, Counts
  <2>2. IsFiniteSet(Timers) /\ M \in SUBSET Timers /\ M \union {t} \in SUBSET Timers
    BY TimerAssumption
  <2> HIDE DEF M, N
  <2>3. IsFiniteSet(M)
    BY <2>2, FS_Subset
  <2>4. Cardinality(M \union {t}) = rk[head] + 1
    BY <2>1, <2>3, FS_AddElement
  <2>5. Cardinality(M \union {t}) <= N
    BY <2>2, FS_Subset DEF N
  <2> QED
    BY <1>1, <1>2, <2>1, <2>2, <2>4, <2>5
<1> HIDE DEF M
<1>11. /\ H \in [Timers -> Timers \union {NULL}] /\ K \in [Timers -> 0..N]
       /\ H[t] = head /\ K[t] = rk[head] /\ K[head] = rk[head] + 1 /\ H[head] = head
       /\ \A x \in Timers : x # t => H[x] = hd[x]
       /\ \A x \in Timers : x # t /\ x # head => K[x] = rk[x]
  BY <1>1, <1>2, <1>3, <1>10
<1> HIDE DEF H, K
<1>12. \A x \in Timers : OnChain(H, x) <=> OnChain(hd, x) \/ x = t
  BY <1>1, <1>3, <1>11 DEF OnChain
<1>13. ASSUME NEW x \in Timers, x # t, x # head, Follows(m, hd, rk, x) PROVE Follows(c, H, K, x)
  <2> DEFINE n == m[x].next
  <2>1. n \in Timers /\ OnChain(hd, n) /\ hd[n] = hd[x] /\ rk[n] + 1 = rk[x] /\ m[n].link = Prev(x)
    BY <1>13 DEF Follows
  <2>2. n # t /\ n # head /\ ~m[n].inheap
    BY <1>1, <1>3, <2>1 DEF OnChain, Web, Heads
  <2>3. n # s
    <3>1. Prev(x) # Prev(head)
      BY <1>13 DEF Prev
    <3> QED
      BY <1>1, <1>6, <1>5, <2>1, <3>1 DEF s
  <2>4. c[x].next = n /\ c[n].link = m[n].link
    BY <1>7, <1>9, <1>13, <2>1, <2>2, <2>3
  <2> HIDE DEF n
  <2> QED
    BY <1>11, <1>12, <1>13, <2>1, <2>2, <2>4 DEF Follows
<1>14. Follows(c, H, K, head)
  BY <1>9, <1>11, <1>12 DEF Follows
<1>15. rk[head] # 1 => Follows(c, H, K, t)
  BY <1>1, <1>6, <1>9, <1>11, <1>12 DEF Follows
<1>16. Polling(c, po, H)
  BY <1>3, <1>7, <1>9, <1>11 DEF Web, Polling
<1>17. Heads(c, po, H)
  <2>1. \A x \in Timers : H[x] = x <=> c[x].inheap \/ x = po.min
    BY <1>3, <1>7, <1>9, <1>11 DEF Web, Heads
  <2>2. \A x \in Timers : H[x] # NULL => H[H[x]] = H[x] /\ c[x].active
    BY <1>1, <1>3, <1>4, <1>7, <1>9, <1>11 DEF Web, Heads
  <2>3. \A x \in Timers : H[x] = NULL => c[x].next = NULL
    BY <1>1, <1>3, <1>7, <1>9, <1>11 DEF Web, Heads
  <2> QED
    BY <1>11, <2>1, <2>2, <2>3 DEF Heads
<1>18. AreDue(d \union {t}, po, H)
  BY <1>1, <1>3, <1>11 DEF Web, AreDue
<1>19. ChainsClose(c, H, K)
  <2> SUFFICES ASSUME NEW x \in Timers, OnChain(H, x)
               PROVE  /\ K[x] >= 1 /\ K[x] < K[H[x]]
                      /\ K[x] = 1 => c[x].next = H[x]
                      /\ K[x] # 1 => Follows(c, H, K, x)
    BY DEF ChainsClose
  <2>1. CASE x = t
    <3>1. K[x] = rk[head] /\ H[x] = head /\ K[H[x]] = rk[head] + 1
      BY <1>11, <2>1
    <3>2. rk[head] = 1 => s = NULL
      BY <1>5 DEF s
    <3> QED
      BY <1>2, <1>5, <1>9, <1>15, <2>1, <3>1, <3>2
  <2>2. CASE x # t
    <3>1. OnChain(hd, x) /\ x # head /\ hd[x] # t /\ hd[x] \in Timers
      BY <1>2, <1>3, <1>4, <1>12, <2>2 DEF OnChain
    <3>2. /\ rk[x] >= 1 /\ rk[x] < rk[hd[x]]
          /\ rk[x] = 1 => m[x].next = hd[x]
          /\ rk[x] # 1 => Follows(m, hd, rk, x)
      BY <3>1 DEF Web, ChainsClose
    <3>3. c[x].next = m[x].next
      BY <1>7, <1>9, <2>2, <3>1
    <3>4. H[x] = hd[x] /\ K[x] = rk[x] /\ rk[hd[x]] <= K[hd[x]] /\ rk[hd[x]] \in Nat /\ K[hd[x]] \in Nat /\ rk[x] \in Nat
      BY <1>2, <1>11, <2>2, <3>1
    <3> QED
      BY <1>13, <2>2, <3>1, <3>2, <3>3, <3>4
  <2> QED
    BY <2>1, <2>2
<1>20. HeadsLead(c, po, H, K)
  <2> SUFFICES ASSUME NEW x \in Timers, H[x] = x, x = po.min => po.cur = x
               PROVE  /\ K[x] >= 1
                      /\ K[x] = 1 => c[x].next = NULL
                      /\ K[x] # 1 => Follows(c, H, K, x)
    BY DEF HeadsLead
  <2>1. x # t
    BY <1>3, <1>11
  <2>2. CASE x = head
    BY <1>2, <1>5, <1>11, <1>14, <2>2
  <2>3. CASE x # head
    <3>1. /\ rk[x] >= 1
          /\ rk[x] = 1 => m[x].next = NULL
          /\ rk[x] # 1 => Follows(m, hd, rk, x)
      BY <1>11, <2>1, <2>3 DEF Web, HeadsLead
    <3>2. c[x].next = m[x].next
      BY <1>7, <1>9, <2>1, <2>3
    <3> QED
      BY <1>11, <1>13, <2>1, <2>3, <3>1, <3>2
  <2> QED
    BY <2>2, <2>3
<1>21. RanksDiffer(H, K)
  <2>1. ASSUME NEW x \in Timers, OnChain(hd, x), hd[x] = head PROVE rk[x] < rk[head] /\ x # head /\ x # t
    BY <1>1, <1>3, <2>1 DEF Web, ChainsClose, OnChain
  <2>2. ASSUME NEW x \in Timers, x # t, OnChain(H, x) PROVE x # head /\ OnChain(hd, x) /\ K[x] = rk[x] /\ H[x] = hd[x]
    BY <1>3, <1>11, <1>12, <2>2 DEF OnChain
  <2> SUFFICES ASSUME NEW x \in Timers, NEW y \in Timers, OnChain(H, x), OnChain(H, y), H[x] = H[y], K[x] = K[y]
               PROVE  x = y
    BY DEF RanksDiffer
  <2>3. CASE x # t /\ y # t
    BY <2>2, <2>3 DEF Web, RanksDiffer
  <2>4. CASE x = t /\ y # t
    <3>1. H[y] = head /\ K[y] = rk[head]
      BY <1>11, <2>4
    <3>2. OnChain(hd, y) /\ K[y] = rk[y] /\ H[y] = hd[y]
      BY <2>2, <2>4
    <3>3. rk[y] < rk[head] /\ rk[y] = rk[head]
      BY <2>1, <3>1, <3>2
    <3> QED
      BY <1>2, <3>3
  <2>5. CASE x # t /\ y = t
    <3>1. H[x] = head /\ K[x] = rk[head]
      BY <1>11, <2>5
    <3>2. OnChain(hd, x) /\ K[x] = rk[x] /\ H[x] = hd[x]
      BY <2>2, <2>5
    <3>3. rk[x] < rk[head] /\ rk[x] = rk[head]
      BY <2>1, <3>1, <3>2
    <3> QED
      BY <1>2, <3>3
  <2> QED
    BY <2>3, <2>4, <2>5
<1>22. CurLeads(po, H, K)
  <2> SUFFICES ASSUME po.cur # po.min, NEW x \in Timers, OnChain(H, x), H[x] = po.min
               PROVE  K[x] <= K[po.cur]
    BY DEF CurLeads
  <2>1. x # t /\ x # head /\ OnChain(hd, x) /\ hd[x] = po.min
    BY <1>3, <1>11, <1>12 DEF OnChain
  <2>2. po.cur \in Timers /\ po.cur # t /\ po.cur # head
    BY <1>1, <1>3, <1>11, <2>1 DEF Web, Polling, OnChain
  <2> QED
    BY <1>11, <2>1, <2>2 DEF Web, CurLeads
<1>23. Counts(c, H, K)
  <2> SUFFICES ASSUME NEW x \in Timers, c[x].inheap
               PROVE  K[x] = Cardinality({u \in Timers : H[u] = x})
    BY <1>11 DEF Counts
  <2>1. x # t /\ m[x].inheap
    BY <1>7, <1>9
  <2>2. CASE x = head
    <3>1. {u \in Timers : H[u] = x} = M \union {t}
      BY <1>11, <2>2 DEF M
    <3> QED
      BY <1>10, <1>11, <2>2, <3>1
  <2>3. CASE x # head
    <3>1. {u \in Timers : H[u] = x} = {u \in Timers : hd[u] = x}
      BY <1>1, <1>11, <2>3
    <3> QED
      BY <1>11, <2>1, <2>3, <3>1 DEF Web, Counts
  <2> QED
    BY <2>2, <2>3
<1>24. Batched(c, H)
  <2> SUFFICES ASSUME NEW x \in Timers, OnChain(H, x)
               PROVE  ~kind[x].nobatch /\ c[x].expires <= c[H[x]].expires + Batch
    BY DEF Batched
  <2>1. CASE x = t
    BY <1>3, <1>7, <1>9, <1>11, <2>1
  <2>2. CASE x # t
    <3>1. OnChain(hd, x) /\ hd[x] # t /\ hd[x] \in Timers /\ H[x] = hd[x]
      BY <1>2, <1>4, <1>11, <1>12, <2>2 DEF OnChain
    <3>2. ~kind[x].nobatch /\ m[x].expires <= m[hd[x]].expires + Batch
      BY <3>1 DEF Web, Batched
    <3>3. c[x].expires = m[x].expires /\ c[hd[x]].expires = m[hd[x]].expires
      BY <1>7, <1>9, <2>2, <3>1
    <3> QED
      BY <3>1, <3>2, <3>3
  <2> QED
    BY <2>1, <2>2
<1>25. \A x \in Timers : r[x].inheap => c[x].link = r[x].link
  <2> SUFFICES ASSUME NEW x \in Timers, r[x].inheap PROVE c[x].link = r[x].link
    OBVIOUS
  <2>1. x # t /\ m[x].inheap
    BY <1>7
  <2>2. x # s
    BY <1>1, <1>5, <1>6, <2>1 DEF s
  <2> QED
    BY <1>9, <2>1, <2>2
<1>26. Web(c, d \union {t}, po, H, K)
  BY <1>16, <1>17, <1>18, <1>19, <1>20, <1>21, <1>22, <1>23, <1>24 DEF Web
<1> QED
  BY <1>9, <1>25, <1>26 DEF c, H, K

\* A timer that is nowhere may change.
LEMMA WebFree ==
  ASSUME NEW m \in [Timers -> TimerRec], NEW r, NEW d, NEW po, NEW hd, NEW rk, Web(m, d, po, hd, rk),
         NEW t \in Timers, hd[t] = NULL, Others(m, r, t), ~r[t].inheap, r[t].next = NULL
  PROVE  Web(r, d, po, hd, rk)
<1>1. NULL \notin Timers
  BY NullIsNone
<1>2. t # po.min /\ t # po.cur /\ hd \in [Timers -> Timers \union {NULL}]
  BY <1>1 DEF Web, Heads, Polling
<1>3. \A x \in Timers : hd[x] # t
  BY <1>1 DEF Web, Heads
<1>4. ASSUME NEW x \in Timers, x # t, Follows(m, hd, rk, x) PROVE Follows(r, hd, rk, x)
  <2> DEFINE n == m[x].next
  <2>1. n \in Timers /\ OnChain(hd, n) /\ hd[n] = hd[x] /\ rk[n] + 1 = rk[x] /\ m[n].link = Prev(x)
    BY <1>4 DEF Follows
  <2>2. n # t /\ ~m[n].inheap
    BY <2>1 DEF OnChain, Web, Heads
  <2>3. r[x].next = n /\ r[n].link = m[n].link
    BY <1>4, <2>1, <2>2 DEF Others
  <2> QED
    BY <1>4, <2>1, <2>2, <2>3 DEF Follows
<1>5. Polling(r, po, hd)
  BY <1>2 DEF Web, Polling, Others
<1>6. Heads(r, po, hd)
  BY <1>1, <1>2, <1>3 DEF Web, Heads, Others
<1>7. ChainsClose(r, hd, rk)
  <2> SUFFICES ASSUME NEW x \in Timers, OnChain(hd, x)
               PROVE  /\ rk[x] >= 1 /\ rk[x] < rk[hd[x]]
                      /\ rk[x] = 1 => r[x].next = hd[x]
                      /\ rk[x] # 1 => Follows(r, hd, rk, x)
    BY DEF ChainsClose
  <2>1. x # t
    BY DEF OnChain
  <2>2. /\ rk[x] >= 1 /\ rk[x] < rk[hd[x]]
        /\ rk[x] = 1 => m[x].next = hd[x]
        /\ rk[x] # 1 => Follows(m, hd, rk, x)
    BY DEF Web, ChainsClose
  <2>3. r[x].next = m[x].next
    BY <2>1 DEF Others
  <2> QED
    BY <1>4, <2>1, <2>2, <2>3
<1>8. HeadsLead(r, po, hd, rk)
  <2> SUFFICES ASSUME NEW x \in Timers, hd[x] = x, x = po.min => po.cur = x
               PROVE  /\ rk[x] >= 1
                      /\ rk[x] = 1 => r[x].next = NULL
                      /\ rk[x] # 1 => Follows(r, hd, rk, x)
    BY DEF HeadsLead
  <2>1. x # t
    BY <1>1
  <2>2. /\ rk[x] >= 1
        /\ rk[x] = 1 => m[x].next = NULL
        /\ rk[x] # 1 => Follows(m, hd, rk, x)
    BY DEF Web, HeadsLead
  <2>3. r[x].next = m[x].next
    BY <2>1 DEF Others
  <2> QED
    BY <1>4, <2>1, <2>2, <2>3
<1>9. Counts(r, hd, rk)
  <2>1. \A x \in Timers : r[x].inheap => m[x].inheap
    BY DEF Others
  <2> QED
    BY <2>1 DEF Web, Counts
<1>10. Batched(r, hd)
  <2> SUFFICES ASSUME NEW x \in Timers, OnChain(hd, x)
               PROVE  ~kind[x].nobatch /\ r[x].expires <= r[hd[x]].expires + Batch
    BY DEF Batched
  <2>1. x # t /\ hd[x] # t /\ hd[x] \in Timers
    BY <1>2, <1>3 DEF OnChain
  <2>2. r[x].expires = m[x].expires /\ r[hd[x]].expires = m[hd[x]].expires
    BY <2>1 DEF Others
  <2> QED
    BY <2>2 DEF Web, Batched
<1> QED
  BY <1>5, <1>6, <1>7, <1>8, <1>9, <1>10 DEF Web

\* A head without a chain leaves the heap.
LEMMA WebRemoved ==
  ASSUME NEW m \in [Timers -> TimerRec], NEW r, NEW d, NEW po, NEW hd, NEW rk, Web(m, d, po, hd, rk),
         NEW t \in Timers, m[t].inheap, m[t].next = NULL, Others(m, r, t), ~r[t].inheap, r[t].next = NULL
  PROVE  Web(r, d \ {t}, po, [hd EXCEPT ![t] = NULL], rk)
<1> DEFINE H == [hd EXCEPT ![t] = NULL]
<1>1. NULL \notin Timers
  BY NullIsNone
<1>2. hd \in [Timers -> Timers \union {NULL}] /\ hd[t] = t /\ t # po.min
  BY <1>1 DEF Web, Heads, Polling
<1>3. H \in [Timers -> Timers \union {NULL}] /\ H[t] = NULL /\ \A x \in Timers : x # t => H[x] = hd[x]
  BY <1>2
<1> HIDE DEF H
<1>4. rk[t] = 1 /\ rk \in [Timers -> 0..Cardinality(Timers)]
  BY <1>1, <1>2 DEF Web, HeadsLead, Follows, Counts
<1>5. \A x \in Timers : x # t => hd[x] # t
  <2> SUFFICES ASSUME NEW x \in Timers, x # t, hd[x] = t PROVE FALSE
    OBVIOUS
  <2>1. OnChain(hd, x)
    BY <1>1 DEF OnChain
  <2>2. rk[x] >= 1 /\ rk[x] < rk[t]
    BY <2>1 DEF Web, ChainsClose
  <2> QED
    BY <1>4, <2>2, NullIsNone
<1>6. \A x \in Timers : OnChain(H, x) <=> OnChain(hd, x)
  BY <1>2, <1>3 DEF OnChain
<1>7. ASSUME NEW x \in Timers, x # t, Follows(m, hd, rk, x) PROVE Follows(r, H, rk, x)
  <2> DEFINE n == m[x].next
  <2>1. n \in Timers /\ OnChain(hd, n) /\ hd[n] = hd[x] /\ rk[n] + 1 = rk[x] /\ m[n].link = Prev(x)
    BY <1>7 DEF Follows
  <2>2. n # t /\ ~m[n].inheap
    BY <1>2, <2>1 DEF OnChain, Web, Heads
  <2>3. r[x].next = n /\ r[n].link = m[n].link
    BY <1>7, <2>1, <2>2 DEF Others
  <2> QED
    BY <1>3, <1>6, <1>7, <2>1, <2>2, <2>3 DEF Follows
<1>8. po.min # NULL => po.cur \in Timers /\ po.cur # t
  BY <1>2 DEF Web, Polling
<1>9. Polling(r, po, H)
  <2>1. po.min # NULL => ~r[po.min].inheap /\ H[po.cur] = po.min /\ r[po.min].expires = m[po.min].expires
    BY <1>2, <1>3, <1>8 DEF Web, Polling, Others
  <2> QED
    BY <2>1 DEF Web, Polling
<1>10. Heads(r, po, H)
  <2>1. \A x \in Timers : H[x] = x <=> r[x].inheap \/ x = po.min
    BY <1>1, <1>2, <1>3 DEF Web, Heads, Others
  <2>2. \A x \in Timers : H[x] # NULL => H[H[x]] = H[x] /\ r[x].active
    BY <1>1, <1>2, <1>3, <1>5 DEF Web, Heads, Others
  <2>3. \A x \in Timers : H[x] = NULL => r[x].next = NULL
    BY <1>1, <1>2, <1>3 DEF Web, Heads, Others
  <2> QED
    BY <1>3, <2>1, <2>2, <2>3 DEF Heads
<1>11. AreDue(d \ {t}, po, H)
  BY <1>3 DEF Web, AreDue
<1>12. ChainsClose(r, H, rk)
  <2> SUFFICES ASSUME NEW x \in Timers, OnChain(H, x)
               PROVE  /\ rk[x] >= 1 /\ rk[x] < rk[H[x]]
                      /\ rk[x] = 1 => r[x].next = H[x]
                      /\ rk[x] # 1 => Follows(r, H, rk, x)
    BY DEF ChainsClose
  <2>1. x # t /\ OnChain(hd, x) /\ H[x] = hd[x]
    BY <1>3, <1>6 DEF OnChain
  <2>2. /\ rk[x] >= 1 /\ rk[x] < rk[hd[x]]
        /\ rk[x] = 1 => m[x].next = hd[x]
        /\ rk[x] # 1 => Follows(m, hd, rk, x)
    BY <2>1 DEF Web, ChainsClose
  <2>3. r[x].next = m[x].next
    BY <2>1 DEF Others
  <2> QED
    BY <1>7, <2>1, <2>2, <2>3
<1>13. HeadsLead(r, po, H, rk)
  <2> SUFFICES ASSUME NEW x \in Timers, H[x] = x, x = po.min => po.cur = x
               PROVE  /\ rk[x] >= 1
                      /\ rk[x] = 1 => r[x].next = NULL
                      /\ rk[x] # 1 => Follows(r, H, rk, x)
    BY DEF HeadsLead
  <2>1. x # t /\ hd[x] = x
    BY <1>1, <1>3
  <2>2. /\ rk[x] >= 1
        /\ rk[x] = 1 => m[x].next = NULL
        /\ rk[x] # 1 => Follows(m, hd, rk, x)
    BY <2>1 DEF Web, HeadsLead
  <2>3. r[x].next = m[x].next
    BY <2>1 DEF Others
  <2> QED
    BY <1>7, <2>1, <2>2, <2>3
<1>14. RanksDiffer(H, rk) /\ CurLeads(po, H, rk)
  <2>1. \A x \in Timers : OnChain(H, x) => OnChain(hd, x) /\ H[x] = hd[x]
    BY <1>3, <1>6 DEF OnChain
  <2> QED
    BY <2>1 DEF Web, RanksDiffer, CurLeads
<1>15. Counts(r, H, rk)
  <2> SUFFICES ASSUME NEW x \in Timers, r[x].inheap
               PROVE  rk[x] = Cardinality({u \in Timers : H[u] = x})
    BY <1>4 DEF Counts
  <2>1. x # t /\ m[x].inheap
    BY DEF Others
  <2>2. {u \in Timers : H[u] = x} = {u \in Timers : hd[u] = x}
    BY <1>1, <1>2, <1>3, <2>1
  <2> QED
    BY <2>1, <2>2 DEF Web, Counts
<1>16. Batched(r, H)
  <2> SUFFICES ASSUME NEW x \in Timers, OnChain(H, x)
               PROVE  ~kind[x].nobatch /\ r[x].expires <= r[H[x]].expires + Batch
    BY DEF Batched
  <2>1. x # t /\ OnChain(hd, x) /\ H[x] = hd[x] /\ hd[x] # t /\ hd[x] \in Timers
    BY <1>2, <1>3, <1>5, <1>6 DEF OnChain
  <2>2. r[x].expires = m[x].expires /\ r[hd[x]].expires = m[hd[x]].expires
    BY <2>1 DEF Others
  <2> QED
    BY <2>1, <2>2 DEF Web, Batched
<1> QED
  BY <1>9, <1>10, <1>11, <1>12, <1>13, <1>14, <1>15, <1>16 DEF Web, H

\* The root leaves the heap to fire, and its chain with it.
LEMMA WebFired ==
  ASSUME NEW m \in [Timers -> TimerRec], NEW r, NEW d, NEW po, NEW hd, NEW rk, Web(m, d, po, hd, rk),
         po.pc = "loop", NEW t \in Timers, m[t].inheap, m[t].expires <= po.now, Agree(m, r, t), ~r[t].inheap
  PROVE  Web(r, d \ {t}, [po EXCEPT !.pc = "callback", !.min = t, !.cur = t], hd, rk)
<1> DEFINE q == [po EXCEPT !.pc = "callback", !.min = t, !.cur = t]
<1>1. NULL \notin Timers
  BY NullIsNone
<1>2. po.min = NULL /\ po.cur = NULL /\ hd \in [Timers -> Timers \union {NULL}] /\ hd[t] = t
  BY DEF Web, Polling, Heads
<1>3. /\ q \in [pc : {"idle", "loop", "callback"}, now : Nat, min : Timers \union {NULL}, cur : Timers \union {NULL}]
      /\ q.pc = "callback" /\ q.now = po.now /\ q.min = t /\ q.cur = t
  BY DEF Web, Polling
<1> HIDE DEF q
<1>4. /\ \A x \in Timers : /\ (r[x].active <=> m[x].active) /\ r[x].expires = m[x].expires
                           /\ r[x].next = m[x].next
      /\ \A x \in Timers : x # t => /\ (r[x].inheap <=> m[x].inheap)
                                    /\ ~m[x].inheap => r[x].link = m[x].link
  BY DEF Agree
<1>5. ASSUME NEW x \in Timers, Follows(m, hd, rk, x) PROVE Follows(r, hd, rk, x)
  <2> DEFINE n == m[x].next
  <2>1. n \in Timers /\ OnChain(hd, n) /\ hd[n] = hd[x] /\ rk[n] + 1 = rk[x] /\ m[n].link = Prev(x)
    BY <1>5 DEF Follows
  <2>2. n # t /\ ~m[n].inheap
    BY <1>2, <2>1 DEF OnChain, Web, Heads
  <2>3. r[x].next = n /\ r[n].link = m[n].link
    BY <1>4, <1>5, <2>1, <2>2
  <2> QED
    BY <1>5, <2>1, <2>2, <2>3 DEF Follows
<1>6. Polling(r, q, hd)
  BY <1>1, <1>2, <1>3, <1>4 DEF Polling
<1>7. Heads(r, q, hd)
  BY <1>1, <1>2, <1>3, <1>4 DEF Web, Heads
<1>8. AreDue(d \ {t}, q, hd)
  BY <1>1, <1>2, <1>3 DEF Web, AreDue
<1>9. ChainsClose(r, hd, rk)
  BY <1>4, <1>5 DEF Web, ChainsClose
<1>10. HeadsLead(r, q, hd, rk)
  BY <1>1, <1>2, <1>4, <1>5 DEF Web, HeadsLead
<1>11. RanksDiffer(hd, rk) /\ CurLeads(q, hd, rk)
  BY <1>3 DEF Web, CurLeads
<1>12. Counts(r, hd, rk)
  BY <1>4 DEF Web, Counts
<1>13. Batched(r, hd)
  BY <1>1, <1>2, <1>4 DEF Web, Batched, OnChain
<1> QED
  BY <1>6, <1>7, <1>8, <1>9, <1>10, <1>11, <1>12, <1>13 DEF Web, q

\* poll goes on to the next timer of the chain: which one that is, and what is
\* left when the timer before it has let go of the chain.
LEMMA WebNext ==
  ASSUME NEW m \in [Timers -> TimerRec], NEW d, NEW po, NEW hd, NEW rk, Web(m, d, po, hd, rk),
         po.pc = "callback", m[po.cur].next # po.min, ~(po.cur = po.min /\ m[po.cur].next = NULL)
  PROVE  LET f == m[po.cur].next
             r == IF po.cur = po.min THEN m ELSE [m EXCEPT ![po.cur].next = NULL]
         IN  /\ f \in d /\ OnChain(hd, f) /\ hd[f] = po.min
             /\ po.cur # po.min => OnChain(hd, po.cur)
             /\ Web(r, d \ {f}, [po EXCEPT !.cur = f],
                    IF po.cur = po.min THEN hd ELSE [hd EXCEPT ![po.cur] = NULL], rk)
<1> DEFINE f == m[po.cur].next
           r == IF po.cur = po.min THEN m ELSE [m EXCEPT ![po.cur].next = NULL]
           H == IF po.cur = po.min THEN hd ELSE [hd EXCEPT ![po.cur] = NULL]
           q == [po EXCEPT !.cur = f]
           e == po.min
           c == po.cur
<1>1. NULL \notin Timers
  BY NullIsNone
<1>2. /\ e \in Timers /\ c \in Timers /\ hd[c] = e /\ hd[e] = e /\ ~m[e].inheap /\ m[e].expires <= po.now
      /\ hd \in [Timers -> Timers \union {NULL}] /\ rk \in [Timers -> 0..Cardinality(Timers)]
      /\ f # e /\ ~(c = e /\ f = NULL)
  BY <1>1 DEF Web, Polling, Heads, Counts
<1>3. c # e => OnChain(hd, c)
  BY <1>1, <1>2 DEF OnChain
<1>4. f \in Timers /\ OnChain(hd, f) /\ hd[f] = e /\ rk[f] + 1 = rk[c]
  <2>1. CASE c = e
    BY <1>2, <2>1 DEF Web, HeadsLead, Follows
  <2>2. CASE c # e
    BY <1>2, <1>3, <2>2 DEF Web, ChainsClose, Follows
  <2> QED
    BY <2>1, <2>2
<1>5. f # c /\ f # e
  BY <1>2, <1>4, NullIsNone
<1>6. f \in d
  BY <1>1, <1>2, <1>4, <1>5 DEF Web, AreDue
<1>7. /\ q \in [pc : {"idle", "loop", "callback"}, now : Nat, min : Timers \union {NULL}, cur : Timers \union {NULL}]
      /\ q.pc = "callback" /\ q.now = po.now /\ q.min = e /\ q.cur = f
  BY <1>4 DEF Web, Polling
<1>8. /\ r \in [Timers -> TimerRec] /\ (c # e => r[c].next = NULL)
      /\ \A x \in Timers : /\ (r[x].active <=> m[x].active) /\ r[x].expires = m[x].expires
                           /\ (r[x].inheap <=> m[x].inheap) /\ r[x].link = m[x].link
      /\ \A x \in Timers : x # c \/ c = e => r[x].next = m[x].next
  <2>1. CASE c = e
    BY <2>1
  <2>2. CASE c # e
    <3>1. r = [m EXCEPT ![c].next = NULL]
      BY <2>2
    <3>2. [m[c] EXCEPT !.next = NULL] \in TimerRec
      BY <1>2 DEF TimerRec
    <3> QED
      BY <1>2, <2>2, <3>1, <3>2 DEF TimerRec
  <2> QED
    BY <2>1, <2>2
<1>9. /\ H \in [Timers -> Timers \union {NULL}] /\ (c # e => H[c] = NULL)
      /\ \A x \in Timers : x # c \/ c = e => H[x] = hd[x]
  BY <1>2
<1> HIDE DEF q, r, H, f, c, e
<1>10. \A x \in Timers : OnChain(H, x) => OnChain(hd, x) /\ H[x] = hd[x] /\ (x # c \/ c = e)
  BY <1>9 DEF OnChain
<1>11. \A x \in Timers : OnChain(hd, x) /\ x # c => OnChain(H, x)
  BY <1>9 DEF OnChain
<1>12. \A x \in Timers : hd[x] = c => c = e
  BY <1>1, <1>2 DEF Web, Heads
<1>13. \A x \in Timers : OnChain(H, x) /\ hd[x] = e => rk[x] <= rk[f]
  <2> SUFFICES ASSUME NEW x \in Timers, OnChain(H, x), hd[x] = e PROVE rk[x] <= rk[f]
    OBVIOUS
  <2>1. OnChain(hd, x) /\ (x # c \/ c = e)
    BY <1>10
  <2>2. rk[x] < rk[c]
    <3>1. CASE c = e
      BY <2>1, <3>1 DEF Web, ChainsClose
    <3>2. CASE c # e
      <4>1. rk[x] <= rk[c]
        BY <2>1, <3>2 DEF Web, CurLeads, c, e
      <4>2. rk[x] # rk[c]
        BY <1>2, <1>3, <2>1, <3>2 DEF Web, RanksDiffer
      <4> QED
        BY <1>2, <4>1, <4>2, NullIsNone
    <3> QED
      BY <3>1, <3>2
  <2> QED
    BY <1>2, <1>4, <2>2, NullIsNone
<1>14. ASSUME NEW x \in Timers, x # c, x # e, OnChain(H, x) \/ hd[x] = x, Follows(m, hd, rk, x)
       PROVE  Follows(r, H, rk, x)
  <2> DEFINE n == m[x].next
  <2>1. n \in Timers /\ OnChain(hd, n) /\ hd[n] = hd[x] /\ rk[n] + 1 = rk[x] /\ m[n].link = Prev(x)
    BY <1>14 DEF Follows
  <2>2. n # c \/ c = e
    <3>1. ASSUME n = c, c # e PROVE FALSE
      <4>1. hd[x] = e
        BY <1>2, <2>1, <3>1
      <4>2. OnChain(hd, x) /\ rk[x] <= rk[c]
        BY <1>10, <1>14, <4>1, <3>1 DEF Web, CurLeads, c, e
      <4> QED
        BY <1>2, <2>1, <3>1, <4>2, NullIsNone
    <3> QED
      BY <3>1
  <2>3. r[x].next = n /\ r[n].link = m[n].link /\ H[n] = hd[n] /\ H[x] = hd[x]
    BY <1>8, <1>9, <1>14, <2>1, <2>2
  <2>4. OnChain(H, n)
    BY <2>1, <2>3 DEF OnChain
  <2> HIDE DEF n
  <2> QED
    BY <2>1, <2>3, <2>4 DEF Follows
<1>15. Polling(r, q, H)
  <2>1. H[f] = e
    BY <1>4, <1>5, <1>9
  <2> QED
    BY <1>1, <1>2, <1>4, <1>7, <1>8, <2>1 DEF Polling
<1>16. Heads(r, q, H)
  <2>1. \A x \in Timers : H[x] = x <=> r[x].inheap \/ x = e
    BY <1>1, <1>2, <1>8, <1>9 DEF Web, Heads, e
  <2>2. \A x \in Timers : H[x] # NULL => H[H[x]] = H[x] /\ r[x].active
    BY <1>1, <1>2, <1>8, <1>9, <1>12 DEF Web, Heads
  <2>3. \A x \in Timers : H[x] = NULL => r[x].next = NULL
    BY <1>1, <1>2, <1>8, <1>9 DEF Web, Heads
  <2> QED
    BY <1>7, <1>9, <2>1, <2>2, <2>3 DEF Heads
<1>17. AreDue(d \ {f}, q, H)
  <2> SUFFICES ASSUME NEW x \in Timers
               PROVE  x \in d \ {f} <=> H[x] # NULL /\ x # e /\ x # f
    BY <1>7 DEF Web, AreDue
  <2>1. x \in d <=> hd[x] # NULL /\ x # e /\ x # c
    BY DEF Web, AreDue, c, e
  <2> QED
    BY <1>1, <1>2, <1>9, <2>1
<1>18. ChainsClose(r, H, rk)
  <2> SUFFICES ASSUME NEW x \in Timers, OnChain(H, x)
               PROVE  /\ rk[x] >= 1 /\ rk[x] < rk[H[x]]
                      /\ rk[x] = 1 => r[x].next = H[x]
                      /\ rk[x] # 1 => Follows(r, H, rk, x)
    BY DEF ChainsClose
  <2>1. OnChain(hd, x) /\ H[x] = hd[x] /\ (x # c \/ c = e)
    BY <1>10
  <2>2. x # e /\ x # c
    BY <1>2, <2>1 DEF OnChain
  <2>3. /\ rk[x] >= 1 /\ rk[x] < rk[hd[x]]
        /\ rk[x] = 1 => m[x].next = hd[x]
        /\ rk[x] # 1 => Follows(m, hd, rk, x)
    BY <2>1 DEF Web, ChainsClose
  <2>4. r[x].next = m[x].next
    BY <1>8, <2>1
  <2> QED
    BY <1>14, <2>1, <2>2, <2>3, <2>4
<1>19. HeadsLead(r, q, H, rk)
  <2> SUFFICES ASSUME NEW x \in Timers, H[x] = x, x # e
               PROVE  /\ rk[x] >= 1
                      /\ rk[x] = 1 => r[x].next = NULL
                      /\ rk[x] # 1 => Follows(r, H, rk, x)
    BY <1>5, <1>7 DEF HeadsLead
  <2>1. x # c /\ hd[x] = x
    BY <1>1, <1>9
  <2>2. /\ rk[x] >= 1
        /\ rk[x] = 1 => m[x].next = NULL
        /\ rk[x] # 1 => Follows(m, hd, rk, x)
    BY <2>1 DEF Web, HeadsLead, e
  <2>3. r[x].next = m[x].next
    BY <1>8, <2>1
  <2> QED
    BY <1>14, <2>1, <2>2, <2>3
<1>20. RanksDiffer(H, rk)
  BY <1>10 DEF Web, RanksDiffer
<1>21. CurLeads(q, H, rk)
  BY <1>7, <1>10, <1>13 DEF CurLeads
<1>22. Counts(r, H, rk)
  <2> SUFFICES ASSUME NEW x \in Timers, r[x].inheap
               PROVE  rk[x] = Cardinality({u \in Timers : H[u] = x})
    BY <1>2 DEF Counts
  <2>1. m[x].inheap /\ x # e
    BY <1>2, <1>8
  <2>2. {u \in Timers : H[u] = x} = {u \in Timers : hd[u] = x}
    BY <1>1, <1>2, <1>9, <2>1
  <2> QED
    BY <2>1, <2>2 DEF Web, Counts
<1>23. Batched(r, H)
  <2> SUFFICES ASSUME NEW x \in Timers, OnChain(H, x)
               PROVE  ~kind[x].nobatch /\ r[x].expires <= r[H[x]].expires + Batch
    BY DEF Batched
  <2>1. OnChain(hd, x) /\ H[x] = hd[x] /\ hd[x] \in Timers
    BY <1>2, <1>10 DEF OnChain
  <2>2. r[x].expires = m[x].expires /\ r[hd[x]].expires = m[hd[x]].expires
    BY <1>8, <2>1
  <2> QED
    BY <2>1, <2>2 DEF Web, Batched
<1>24. Web(r, d \ {f}, q, H, rk)
  BY <1>15, <1>16, <1>17, <1>18, <1>19, <1>20, <1>21, <1>22, <1>23 DEF Web
<1> QED
  BY <1>3, <1>4, <1>6, <1>24 DEF f, r, q, H, c, e

\* The chain is at its end: nobody else is left on it.
LEMMA WebDone ==
  ASSUME NEW m \in [Timers -> TimerRec], NEW d, NEW po, NEW hd, NEW rk, Web(m, d, po, hd, rk),
         po.pc = "callback", m[po.cur].next = po.min \/ (po.cur = po.min /\ m[po.cur].next = NULL)
  PROVE  LET u == IF po.cur = po.min THEN m ELSE [m EXCEPT ![po.cur].next = NULL]
             r == [u EXCEPT ![po.min].next = NULL]
         IN  /\ Web(r, d, [po EXCEPT !.pc = "loop", !.min = NULL, !.cur = NULL],
                    [hd EXCEPT ![po.cur] = NULL, ![po.min] = NULL], rk)
             /\ po.min \in Timers /\ m[po.min].active
             /\ po.cur # po.min => OnChain(hd, po.cur)
             /\ r \in [Timers -> TimerRec]
             /\ \A x \in Timers : /\ (r[x].active <=> m[x].active) /\ r[x].expires = m[x].expires
                                  /\ (r[x].inheap <=> m[x].inheap) /\ r[x].link = m[x].link
<1> DEFINE u == IF po.cur = po.min THEN m ELSE [m EXCEPT ![po.cur].next = NULL]
           r == [u EXCEPT ![po.min].next = NULL]
           H == [hd EXCEPT ![po.cur] = NULL, ![po.min] = NULL]
           q == [po EXCEPT !.pc = "loop", !.min = NULL, !.cur = NULL]
           e == po.min
           c == po.cur
<1>1. NULL \notin Timers
  BY NullIsNone
<1>2. /\ e \in Timers /\ c \in Timers /\ hd[c] = e /\ hd[e] = e /\ ~m[e].inheap /\ ~m[c].inheap /\ m[e].active
      /\ hd \in [Timers -> Timers \union {NULL}] /\ rk \in [Timers -> 0..Cardinality(Timers)]
      /\ m[c].next = e \/ (c = e /\ m[c].next = NULL)
  BY <1>1 DEF Web, Polling, Heads, Counts
<1>3. c # e => OnChain(hd, c)
  BY <1>1, <1>2 DEF OnChain
<1>4. \A x \in Timers : hd[x] = e => x = e \/ x = c
  <2> SUFFICES ASSUME NEW x \in Timers, hd[x] = e, x # e, x # c PROVE FALSE
    OBVIOUS
  <2>1. OnChain(hd, x)
    BY <1>1, <1>2 DEF OnChain
  <2>2. rk[x] >= 1 /\ rk[x] < rk[e]
    BY <2>1 DEF Web, ChainsClose
  <2>3. CASE c = e
    <3>1. rk[e] = 1
      <4>1. rk[e] # 1 => Follows(m, hd, rk, e)
        BY <1>2, <2>3 DEF Web, HeadsLead
      <4> QED
        BY <1>1, <1>2, <2>3, <4>1 DEF Follows, OnChain, Web, HeadsLead
    <3> QED
      BY <1>2, <2>2, <3>1, NullIsNone
  <2>4. CASE c # e
    <3>1. rk[c] # 1 => Follows(m, hd, rk, c)
      BY <1>2, <1>3, <2>4 DEF Web, ChainsClose
    <3>2. rk[c] = 1
      BY <1>1, <1>2, <2>4, <3>1 DEF Follows, OnChain
    <3>3. rk[x] <= rk[c]
      BY <2>1, <2>4 DEF Web, CurLeads
    <3>4. rk[x] = rk[c]
      BY <1>2, <2>2, <3>2, <3>3, NullIsNone
    <3> QED
      BY <1>2, <1>3, <2>1, <2>4, <3>4 DEF Web, RanksDiffer
  <2> QED
    BY <2>3, <2>4
<1>5. /\ q \in [pc : {"idle", "loop", "callback"}, now : Nat, min : Timers \union {NULL}, cur : Timers \union {NULL}]
      /\ q.pc = "loop" /\ q.now = po.now /\ q.min = NULL /\ q.cur = NULL
  BY DEF Web, Polling
<1>6. /\ u \in [Timers -> TimerRec] /\ (c # e => u[c].next = NULL)
      /\ \A x \in Timers : /\ (u[x].active <=> m[x].active) /\ u[x].expires = m[x].expires
                           /\ (u[x].inheap <=> m[x].inheap) /\ u[x].link = m[x].link
      /\ \A x \in Timers : x # c => u[x].next = m[x].next
  <2>1. CASE c = e
    BY <2>1
  <2>2. CASE c # e
    <3>1. u = [m EXCEPT ![c].next = NULL]
      BY <2>2
    <3>2. [m[c] EXCEPT !.next = NULL] \in TimerRec
      BY <1>2 DEF TimerRec
    <3> QED
      BY <1>2, <2>2, <3>1, <3>2 DEF TimerRec
  <2> QED
    BY <2>1, <2>2
<1> HIDE DEF u
<1>7. /\ r \in [Timers -> TimerRec]
      /\ r[c].next = NULL /\ r[e].next = NULL
      /\ \A x \in Timers : /\ (r[x].active <=> m[x].active) /\ r[x].expires = m[x].expires
                           /\ (r[x].inheap <=> m[x].inheap) /\ r[x].link = m[x].link
      /\ \A x \in Timers : x # c /\ x # e => r[x].next = m[x].next
  <2>1. [u[e] EXCEPT !.next = NULL] \in TimerRec
    <3>1. u[e] \in TimerRec
      BY <1>2, <1>6
    <3> QED
      BY <3>1 DEF TimerRec
  <2>2. /\ r \in [Timers -> TimerRec] /\ r[e] = [u[e] EXCEPT !.next = NULL]
        /\ \A x \in Timers : x # e => r[x] = u[x]
    BY <1>2, <1>6, <2>1
  <2> QED
    BY <1>2, <1>6, <2>2 DEF TimerRec
<1>8. /\ H \in [Timers -> Timers \union {NULL}] /\ H[c] = NULL /\ H[e] = NULL
      /\ \A x \in Timers : x # c /\ x # e => H[x] = hd[x]
  BY <1>2
<1> HIDE DEF q, r, H, c, e
<1>9. \A x \in Timers : H[x] # NULL => x # c /\ x # e /\ hd[x] # c /\ hd[x] # e /\ H[x] = hd[x]
  BY <1>1, <1>2, <1>4, <1>8 DEF Web, Heads
<1>10. \A x \in Timers : OnChain(H, x) => OnChain(hd, x) /\ H[x] = hd[x] /\ x # c /\ x # e
  BY <1>9 DEF OnChain
<1>11. ASSUME NEW x \in Timers, H[x] # NULL, Follows(m, hd, rk, x)
       PROVE  Follows(r, H, rk, x)
  <2> DEFINE n == m[x].next
  <2>1. n \in Timers /\ OnChain(hd, n) /\ hd[n] = hd[x] /\ rk[n] + 1 = rk[x] /\ m[n].link = Prev(x)
    BY <1>11 DEF Follows
  <2>2. n # c /\ n # e
    BY <1>2, <1>9, <1>11, <2>1
  <2>3. r[x].next = n /\ r[n].link = m[n].link /\ H[n] = hd[n] /\ H[x] = hd[x]
    BY <1>7, <1>8, <1>9, <1>11, <2>1, <2>2
  <2>4. OnChain(H, n)
    BY <2>1, <2>3 DEF OnChain
  <2> HIDE DEF n
  <2> QED
    BY <2>1, <2>3, <2>4 DEF Follows
<1>12. Polling(r, q, H)
  BY <1>5 DEF Polling
<1>13. Heads(r, q, H)
  <2>1. \A x \in Timers : H[x] = x <=> r[x].inheap
    BY <1>1, <1>2, <1>7, <1>8 DEF Web, Heads, e
  <2>2. \A x \in Timers : H[x] # NULL => H[H[x]] = H[x] /\ r[x].active
    BY <1>1, <1>2, <1>7, <1>8, <1>9 DEF Web, Heads
  <2>3. \A x \in Timers : H[x] = NULL => r[x].next = NULL
    BY <1>1, <1>2, <1>7, <1>8 DEF Web, Heads
  <2> QED
    BY <1>1, <1>5, <1>8, <2>1, <2>2, <2>3 DEF Heads
<1>14. AreDue(d, q, H)
  <2> SUFFICES ASSUME NEW x \in Timers
               PROVE  x \in d <=> H[x] # NULL
    BY <1>1, <1>5 DEF Web, AreDue
  <2>1. x \in d <=> hd[x] # NULL /\ x # e /\ x # c
    BY DEF Web, AreDue, c, e
  <2> QED
    BY <1>8, <2>1
<1>15. ChainsClose(r, H, rk)
  <2> SUFFICES ASSUME NEW x \in Timers, OnChain(H, x)
               PROVE  /\ rk[x] >= 1 /\ rk[x] < rk[H[x]]
                      /\ rk[x] = 1 => r[x].next = H[x]
                      /\ rk[x] # 1 => Follows(r, H, rk, x)
    BY DEF ChainsClose
  <2>1. OnChain(hd, x) /\ H[x] = hd[x] /\ x # c /\ x # e /\ H[x] # NULL
    BY <1>10 DEF OnChain
  <2>2. /\ rk[x] >= 1 /\ rk[x] < rk[hd[x]]
        /\ rk[x] = 1 => m[x].next = hd[x]
        /\ rk[x] # 1 => Follows(m, hd, rk, x)
    BY <2>1 DEF Web, ChainsClose
  <2>3. r[x].next = m[x].next
    BY <1>7, <2>1
  <2> QED
    BY <1>11, <2>1, <2>2, <2>3
<1>16. HeadsLead(r, q, H, rk)
  <2> SUFFICES ASSUME NEW x \in Timers, H[x] = x
               PROVE  /\ rk[x] >= 1
                      /\ rk[x] = 1 => r[x].next = NULL
                      /\ rk[x] # 1 => Follows(r, H, rk, x)
    BY DEF HeadsLead
  <2>1. x # c /\ x # e /\ hd[x] = x /\ H[x] # NULL
    BY <1>1, <1>9
  <2>2. /\ rk[x] >= 1
        /\ rk[x] = 1 => m[x].next = NULL
        /\ rk[x] # 1 => Follows(m, hd, rk, x)
    BY <2>1 DEF Web, HeadsLead, e
  <2>3. r[x].next = m[x].next
    BY <1>7, <2>1
  <2> QED
    BY <1>11, <2>1, <2>2, <2>3
<1>17. RanksDiffer(H, rk) /\ CurLeads(q, H, rk)
  BY <1>5, <1>10 DEF Web, RanksDiffer, CurLeads
<1>18. Counts(r, H, rk)
  <2> SUFFICES ASSUME NEW x \in Timers, r[x].inheap
               PROVE  rk[x] = Cardinality({v \in Timers : H[v] = x})
    BY <1>2 DEF Counts
  <2>1. m[x].inheap /\ x # e /\ x # c
    BY <1>2, <1>7
  <2>2. {v \in Timers : H[v] = x} = {v \in Timers : hd[v] = x}
    BY <1>1, <1>2, <1>8, <2>1
  <2> QED
    BY <2>1, <2>2 DEF Web, Counts
<1>19. Batched(r, H)
  <2> SUFFICES ASSUME NEW x \in Timers, OnChain(H, x)
               PROVE  ~kind[x].nobatch /\ r[x].expires <= r[H[x]].expires + Batch
    BY DEF Batched
  <2>1. OnChain(hd, x) /\ H[x] = hd[x] /\ hd[x] \in Timers
    BY <1>2, <1>10 DEF OnChain
  <2>2. r[x].expires = m[x].expires /\ r[hd[x]].expires = m[hd[x]].expires
    BY <1>7, <2>1
  <2> QED
    BY <2>1, <2>2 DEF Web, Batched
<1>20. Web(r, d, q, H, rk)
  BY <1>12, <1>13, <1>14, <1>15, <1>16, <1>17, <1>18, <1>19 DEF Web
<1> QED
  BY <1>2, <1>3, <1>7, <1>20 DEF u, r, q, H, c, e

\* The heap does not see what else changes in the timers.
LEMMA SlotsKeep ==
  ASSUME NEW h, NEW m, InSlots(h, m), NEW r \in [Timers -> TimerRec],
         \A x \in Timers : (r[x].inheap <=> m[x].inheap) /\ r[x].link = m[x].link
  PROVE  InSlots(h, r)
<1>1. \A i \in 1..Len(h) : h[i] \in Timers
  BY DEF InSlots
<1> QED
  BY <1>1 DEF InSlots

\* What it means that t has been put into the heap: q is the heap and the timers
\* after it.
Inserted(h, m, d, po, hd, t, q) ==
  /\ InSlots(q.h, q.m) /\ Len(q.h) <= Len(h) + 1
  /\ \A x \in Timers : q.m[x].active <=> m[x].active
  /\ \E H, K : /\ Web(q.m, d \union {t}, po, H, K)
               /\ \A x \in Timers : hd[x] # NULL \/ x = t => H[x] # NULL

\* A timer that is nowhere is put into the heap.
LEMMA WebInsert ==
  ASSUME NEW h, NEW m, NEW d, NEW po, NEW hd, NEW rk, InSlots(h, m), Web(m, d, po, hd, rk),
         NEW t \in Timers, hd[t] = NULL, m[t].active
  PROVE  Inserted(h, m, d, po, hd, t, ci_timerheap_insert(h, m, t))
<1> DEFINE q == ci_timerheap_insert(h, m, t)
<1>1. NULL \notin Timers
  BY NullIsNone
<1>2. m \in [Timers -> TimerRec] /\ ~m[t].inheap /\ m[t].next = NULL /\ hd \in [Timers -> Timers \union {NULL}]
  BY <1>1 DEF InSlots, Web, Heads
<1>3. Len(h) \in Nat
  BY DEF InSlots
<1>4. \A r : Agree(m, r, t) => Others(m, r, t) /\ r[t].active /\ r[t].next = NULL /\ r[t].expires = m[t].expires
  BY <1>2 DEF Agree, Others
<1>5. \A x \in Timers : hd[x] # NULL \/ x = t => [hd EXCEPT ![t] = t][x] # NULL
  BY <1>1, <1>2
<1>6. \/ /\ InSlots(q.h, q.m) /\ Agree(m, q.m, t) /\ q.m[t].inheap
         /\ Len(q.h) = Len(h) + 1
      \/ \E head \in Timers : \E r :
           /\ InSlots(q.h, r) /\ Agree(m, r, t) /\ ~r[t].inheap
           /\ Batches(h, m, t, head) /\ Len(q.h) = Len(h)
           /\ q.m = ci_timer_chain(r, head, t)
  <2> HIDE DEF q
  <2> QED
    BY <1>2, InsertIs DEF q
<1> HIDE DEF q
<1>7. CASE /\ InSlots(q.h, q.m) /\ Agree(m, q.m, t) /\ q.m[t].inheap
           /\ Len(q.h) = Len(h) + 1
  <2>1. Web(q.m, d \union {t}, po, [hd EXCEPT ![t] = t], [rk EXCEPT ![t] = 1])
    BY <1>2, <1>4, <1>7, WebRested
  <2>2. \A x \in Timers : q.m[x].active <=> m[x].active
    BY <1>7 DEF Agree
  <2>3. \E H, K : /\ Web(q.m, d \union {t}, po, H, K)
                  /\ \A x \in Timers : hd[x] # NULL \/ x = t => H[x] # NULL
    BY <1>5, <2>1
  <2>4. Len(q.h) <= Len(h) + 1
    BY <1>3, <1>7
  <2> QED
    BY <1>7, <2>2, <2>3, <2>4 DEF q, Inserted
<1>8. ASSUME NEW head \in Timers, NEW r,
             InSlots(q.h, r), Agree(m, r, t), ~r[t].inheap,
             Batches(h, m, t, head), Len(q.h) = Len(h), q.m = ci_timer_chain(r, head, t)
      PROVE  /\ InSlots(q.h, q.m) /\ Len(q.h) <= Len(h) + 1
             /\ \A x \in Timers : q.m[x].active <=> m[x].active
             /\ \E H, K : /\ Web(q.m, d \union {t}, po, H, K)
                          /\ \A x \in Timers : hd[x] # NULL \/ x = t => H[x] # NULL
  <2> DEFINE H == [hd EXCEPT ![t] = head]
             K == [rk EXCEPT ![head] = rk[head] + 1, ![t] = rk[head]]
  <2>1. m[head].inheap
    BY <1>8 DEF Batches, InSlots
  <2>2. Others(m, r, t) /\ r[t].active /\ r[t].expires = m[t].expires
    BY <1>4, <1>8
  <2>3. ~kind[t].nobatch /\ r[t].expires <= m[head].expires + Batch
    <3>1. m[t].expires \in Nat /\ m[head].expires \in Nat /\ Batch \in Nat
      BY <1>2, TimerAssumption DEF TimerRec
    <3> QED
      BY <1>8, <2>2, <3>1 DEF Batches, Close
  <2>4. /\ Web(q.m, d \union {t}, po, H, K)
        /\ q.m \in [Timers -> TimerRec]
        /\ \A x \in Timers : /\ q.m[x].inheap <=> r[x].inheap
                             /\ q.m[x].active <=> r[x].active
                             /\ r[x].inheap => q.m[x].link = r[x].link
    <3> DEFINE c == ci_timer_chain(r, head, t)
    <3>1. /\ Web(c, d \union {t}, po, H, K)
          /\ c \in [Timers -> TimerRec]
          /\ \A x \in Timers : /\ c[x].inheap <=> r[x].inheap
                               /\ c[x].active <=> r[x].active
                               /\ r[x].inheap => c[x].link = r[x].link
      <4>1. m \in [Timers -> TimerRec] /\ Web(m, d, po, hd, rk) /\ hd[t] = NULL
        BY <1>2
      <4>2. Others(m, r, t) /\ ~r[t].inheap /\ r[t].active
        BY <1>8, <2>2
      <4>3. m[head].inheap /\ ~kind[t].nobatch /\ r[t].expires <= m[head].expires + Batch
        BY <2>1, <2>3
      <4>4. Web(ci_timer_chain(r, head, t), d \union {t}, po, [hd EXCEPT ![t] = head], [rk EXCEPT ![head] = rk[head] + 1, ![t] = rk[head]])
        BY <4>1, <4>2, <4>3, WebChained
      <4>5. ci_timer_chain(r, head, t) \in [Timers -> TimerRec]
        BY <4>1, <4>2, <4>3, <4>4, WebChained
      <4>6. \A x \in Timers : /\ ci_timer_chain(r, head, t)[x].inheap <=> r[x].inheap
                              /\ ci_timer_chain(r, head, t)[x].active <=> r[x].active
                              /\ r[x].inheap => ci_timer_chain(r, head, t)[x].link = r[x].link
        BY <4>1, <4>2, <4>3, <4>4, <4>5, WebChained
      <4> QED
        BY <4>4, <4>5, <4>6
    <3>2. q.m = c
      BY <1>8
    <3> HIDE DEF c, H, K
    <3> QED
      BY <3>1, <3>2
  <2>5. InSlots(q.h, q.m)
    <3>1. \A i \in 1..Len(q.h) : q.h[i] \in Timers
      BY <1>8 DEF InSlots
    <3> QED
      BY <1>8, <2>4, <3>1 DEF InSlots
  <2>6. \A x \in Timers : hd[x] # NULL \/ x = t => H[x] # NULL
    BY <1>1, <1>2
  <2>7. \A x \in Timers : q.m[x].active <=> m[x].active
    BY <1>8, <2>4 DEF Agree
  <2> HIDE DEF H, K
  <2> QED
    BY <1>3, <1>8, <2>4, <2>5, <2>6, <2>7
<1> QED
  BY <1>6, <1>7, <1>8 DEF q, Inserted

-----------------------------------------------------------------------------
(* The inductive invariant *)

\* There are heads and ranks that fit, and no active periodic timer is nowhere:
\* poll puts the head of a chain back before it loses sight of it, and a
\* periodic timer heads its chain.
Periodic(t) == kind[t].periodic => kind[t].nobatch
Woven(m, d, po) ==
  \E hd, rk : /\ Web(m, d, po, hd, rk)
              /\ \A t \in Timers : Periodic(t) /\ kind[t].periodic /\ m[t].active => hd[t] # NULL
IInv ==
  /\ now \in 0..MaxNow /\ kind \in {p.kinds : p \in Plans}
  /\ InSlots(heap, tm) /\ Woven(tm, due, poll)

\* A new heap.
LEMMA InitInv == Init => IInv
<1> SUFFICES ASSUME Init PROVE IInv
  OBVIOUS
<1> DEFINE hd == [t \in Timers |-> NULL]
           rk == [t \in Timers |-> 0]
<1>1. NULL \notin Timers /\ Cardinality(Timers) \in Nat
  BY NullIsNone
<1>2. ci_timer_new \in TimerRec /\ tm = [t \in Timers |-> ci_timer_new] /\ heap = << >> /\ due = {}
  BY DEF Init, TimerRec, Links, ci_timer_new, NULL
<1>3. InSlots(heap, tm)
  <2>1. \A t \in Timers : ~tm[t].inheap
    BY <1>2 DEF ci_timer_new
  <2> QED
    BY <1>2, <2>1 DEF InSlots
<1>4. \A t \in Timers : ~tm[t].active /\ ~tm[t].inheap /\ tm[t].next = NULL /\ hd[t] = NULL
  BY <1>2 DEF ci_timer_new
<1>5. /\ poll \in [pc : {"idle", "loop", "callback"}, now : Nat, min : Timers \union {NULL}, cur : Timers \union {NULL}]
      /\ poll.pc = "idle" /\ poll.min = NULL /\ poll.cur = NULL
  BY DEF Init, Idle
<1>6. hd \in [Timers -> Timers \union {NULL}] /\ rk \in [Timers -> 0..Cardinality(Timers)]
  BY <1>1
<1> HIDE DEF hd, rk
<1>7. Web(tm, due, poll, hd, rk)
  BY <1>1, <1>2, <1>4, <1>5, <1>6
     DEF Web, Polling, Heads, AreDue, ChainsClose, HeadsLead, RanksDiffer, CurLeads, Counts, Batched, OnChain
<1>8. now \in 0..MaxNow /\ kind \in {p.kinds : p \in Plans}
  BY TimerAssumption DEF Init
<1> QED
  BY <1>3, <1>4, <1>7, <1>8 DEF IInv, Woven

\* What a plan says of a timer.
LEMMA KindIs ==
  ASSUME kind \in {p.kinds : p \in Plans}, NEW t \in Timers
  PROVE  kind[t] \in Kinds
BY TimerAssumption

\* A step that leaves the kinds alone.
LEMMA Carried ==
  ASSUME IInv, kind' = kind, now' \in 0..MaxNow, InSlots(heap', tm'), Woven(tm', due', poll')
  PROVE  IInv'
<1>1. PICK hd, rk : /\ Web(tm', due', poll', hd, rk)
                    /\ \A t \in Timers : Periodic(t) /\ kind[t].periodic /\ tm'[t].active => hd[t] # NULL
  BY DEF Woven
<1>2. Web(tm, due, poll, hd, rk)'
  BY <1>1 DEF Web, Polling, Heads, AreDue, ChainsClose, HeadsLead, RanksDiffer, CurLeads, Counts, Batched,
              OnChain, Follows
<1>3. InSlots(heap, tm)'
  BY DEF InSlots
<1>4. (\A t \in Timers : Periodic(t) /\ kind[t].periodic /\ tm[t].active => hd[t] # NULL)'
  BY <1>1 DEF Periodic
<1>5. (now \in 0..MaxNow /\ kind \in {p.kinds : p \in Plans})'
  BY DEF IInv
<1> QED
  BY <1>2, <1>3, <1>4, <1>5 DEF IInv, Woven

\* start, and the second half of restart: a timer that is nowhere is given its
\* time and put into the heap.
LEMMA StartedWoven ==
  ASSUME now \in 0..MaxNow, kind \in {p.kinds : p \in Plans},
         NEW h, NEW m, NEW d, NEW po, NEW hd, NEW rk, InSlots(h, m), Web(m, d, po, hd, rk),
         NEW t \in Timers, hd[t] = NULL,
         \A x \in Timers : x # t /\ Periodic(x) /\ kind[x].periodic /\ m[x].active => hd[x] # NULL
  PROVE  LET q == ci_timerheap_insert(h, Started(m, t), t)
         IN  InSlots(q.h, q.m) /\ Woven(q.m, d \union {t}, po) /\ Len(q.h) <= Len(h) + 1
<1> DEFINE s == Started(m, t)
           q == ci_timerheap_insert(h, s, t)
           e == [m[t] EXCEPT !.expires = now + kind[t].interval, !.active = TRUE]
<1>1. NULL \notin Timers
  BY NullIsNone
<1>2. m \in [Timers -> TimerRec] /\ m[t] \in TimerRec /\ ~m[t].inheap /\ m[t].next = NULL
  BY <1>1 DEF InSlots, Web, Heads
<1>3. s = [m EXCEPT ![t] = e]
  <2>1. [m EXCEPT ![t].expires = now + kind[t].interval] \in [Timers -> [active : BOOLEAN, inheap : BOOLEAN, expires : Nat,
             next : Timers \union {NULL}, link : Links]]
    <3>1. now + kind[t].interval \in Nat
      BY KindIs, TimerAssumption DEF Kinds
    <3> QED
      BY <1>2, <3>1 DEF TimerRec
  <2> QED
    BY <1>2, <2>1 DEF Started
<1>4. e \in TimerRec /\ ~e.inheap /\ e.active /\ e.next = NULL /\ e.link = m[t].link
  <2>1. now + kind[t].interval \in Nat
    BY KindIs, TimerAssumption DEF Kinds
  <2> QED
    BY <1>2, <2>1 DEF TimerRec
<1>5. s \in [Timers -> TimerRec] /\ s[t] = e /\ \A x \in Timers : x # t => s[x] = m[x]
  BY <1>2, <1>3, <1>4
<1> HIDE DEF s, e
<1>6. Others(m, s, t) /\ ~s[t].inheap /\ s[t].active /\ s[t].next = NULL
  BY <1>4, <1>5 DEF Others
<1>7. Web(s, d, po, hd, rk)
  BY <1>2, <1>6, WebFree
<1>8. InSlots(h, s)
  <2>1. \A x \in Timers : (s[x].inheap <=> m[x].inheap) /\ s[x].link = m[x].link
    BY <1>2, <1>4, <1>5
  <2> QED
    BY <1>5, <2>1, SlotsKeep
<1>9. /\ InSlots(q.h, q.m) /\ Len(q.h) <= Len(h) + 1
      /\ \A x \in Timers : q.m[x].active <=> s[x].active
      /\ \E H, K : /\ Web(q.m, d \union {t}, po, H, K)
                   /\ \A x \in Timers : hd[x] # NULL \/ x = t => H[x] # NULL
  <2>1. Web(s, d, po, hd, rk) /\ InSlots(h, s) /\ hd[t] = NULL /\ s[t].active
    BY <1>6, <1>7, <1>8
  <2>2. Inserted(h, s, d, po, hd, t, q)
    BY <2>1, WebInsert
  <2> QED
    BY <2>2 DEF Inserted
<1> HIDE DEF q
<1>10. PICK H, K : /\ Web(q.m, d \union {t}, po, H, K)
                   /\ \A x \in Timers : hd[x] # NULL \/ x = t => H[x] # NULL
  BY <1>9
<1>11. \A x \in Timers : Periodic(x) /\ kind[x].periodic /\ q.m[x].active => H[x] # NULL
  BY <1>5, <1>9, <1>10
<1>12. Woven(q.m, d \union {t}, po)
  BY <1>10, <1>11 DEF Woven
<1> QED
  BY <1>9, <1>12 DEF q, s

\* ci_timer_start.
LEMMA StartInv ==
  ASSUME IInv, NEW t \in Timers, ci_timer_start(t)
  PROVE  IInv'
<1>1. PICK hd, rk : /\ Web(tm, due, poll, hd, rk)
                    /\ \A x \in Timers : Periodic(x) /\ kind[x].periodic /\ tm[x].active => hd[x] # NULL
  BY DEF IInv, Woven
<1>2. hd[t] = NULL
  BY <1>1 DEF ci_timer_start, Web, Heads
<1> DEFINE q == ci_timerheap_insert(heap, Started(tm, t), t)
<1>3. InSlots(q.h, q.m) /\ Woven(q.m, due \union {t}, poll)
  BY <1>1, <1>2, StartedWoven DEF IInv
<1> HIDE DEF q
<1>4. heap' = q.h /\ tm' = q.m /\ due' = due \union {t} /\ poll' = poll /\ now' = now /\ kind' = kind
  BY DEF ci_timer_start, Put, q
<1> QED
  BY <1>3, <1>4, Carried DEF IInv

\* The first half of stop and restart: a head without a chain leaves the heap.
LEMMA DeactivatedWeb ==
  ASSUME IInv, NEW hd, NEW rk, Web(tm, due, poll, hd, rk),
         NEW t \in Timers, tm[t].inheap, tm[t].next = NULL
  PROVE  LET q == ci_timerheap_delete(heap, Deactivated(t), t)
         IN  /\ InSlots(q.h, q.m) /\ Web(q.m, due \ {t}, poll, [hd EXCEPT ![t] = NULL], rk)
             /\ \A x \in Timers : q.m[x].active <=> x # t /\ tm[x].active
             /\ Len(q.h) = Len(heap) - 1
<1> DEFINE m == Deactivated(t)
           q == ci_timerheap_delete(heap, m, t)
           e == [tm[t] EXCEPT !.active = FALSE]
<1>1. tm \in [Timers -> TimerRec] /\ tm[t] \in TimerRec
  BY DEF IInv, InSlots
<1>2. e \in TimerRec /\ e.inheap /\ e.next = NULL /\ ~e.active /\ e.link = tm[t].link
  BY <1>1 DEF TimerRec
<1>3. m \in [Timers -> TimerRec] /\ m[t] = e /\ \A x \in Timers : x # t => m[x] = tm[x]
  BY <1>1, <1>2 DEF Deactivated
<1> HIDE DEF m, e
<1>4. InSlots(heap, m)
  <2>1. \A x \in Timers : (m[x].inheap <=> tm[x].inheap) /\ m[x].link = tm[x].link
    BY <1>2, <1>3
  <2> QED
    BY <1>3, <2>1, SlotsKeep DEF IInv
<1>5. InSlots(q.h, q.m) /\ Agree(m, q.m, t) /\ ~q.m[t].inheap /\ Len(q.h) = Len(heap) - 1
  BY <1>2, <1>3, <1>4, DeleteIs
<1> HIDE DEF q
<1>6. Others(tm, q.m, t) /\ q.m[t].next = NULL
  BY <1>2, <1>3, <1>5 DEF Others, Agree
<1>7. Web(q.m, due \ {t}, poll, [hd EXCEPT ![t] = NULL], rk)
  BY <1>1, <1>5, <1>6, WebRemoved
<1>8. \A x \in Timers : q.m[x].active <=> x # t /\ tm[x].active
  BY <1>2, <1>3, <1>5 DEF Agree
<1> QED
  BY <1>5, <1>7, <1>8 DEF q, m

\* ci_timer_stop.
LEMMA StopInv ==
  ASSUME Careful, IInv, NEW t \in Timers, ci_timer_stop(t)
  PROVE  IInv'
<1>1. PICK hd, rk : /\ Web(tm, due, poll, hd, rk)
                    /\ \A x \in Timers : Periodic(x) /\ kind[x].periodic /\ tm[x].active => hd[x] # NULL
  BY DEF IInv, Woven
<1>2. tm[t].inheap /\ tm[t].next = NULL
  BY DEF ci_timer_stop, Stoppable
<1> DEFINE q == ci_timerheap_delete(heap, Deactivated(t), t)
           H == [hd EXCEPT ![t] = NULL]
<1>3. /\ InSlots(q.h, q.m) /\ Web(q.m, due \ {t}, poll, H, rk)
      /\ \A x \in Timers : q.m[x].active <=> x # t /\ tm[x].active
  BY <1>1, <1>2, DeactivatedWeb
<1> HIDE DEF q
<1>4. heap' = q.h /\ tm' = q.m /\ due' = due \ {t} /\ poll' = poll /\ now' = now /\ kind' = kind
  BY DEF ci_timer_stop, q
<1>5. \A x \in Timers : x # t => H[x] = hd[x]
  BY <1>1 DEF Web, Heads
<1>6. \A x \in Timers : Periodic(x) /\ kind[x].periodic /\ q.m[x].active => H[x] # NULL
  BY <1>1, <1>3, <1>5
<1>7. Woven(q.m, due \ {t}, poll)
  BY <1>3, <1>6 DEF Woven
<1> QED
  BY <1>3, <1>4, <1>7, Carried DEF IInv

\* ci_timer_restart.
LEMMA RestartInv ==
  ASSUME Careful, IInv, NEW t \in Timers, ci_timer_restart(t)
  PROVE  IInv'
<1>1. PICK hd, rk : /\ Web(tm, due, poll, hd, rk)
                    /\ \A x \in Timers : Periodic(x) /\ kind[x].periodic /\ tm[x].active => hd[x] # NULL
  BY DEF IInv, Woven
<1>2. tm[t].inheap /\ tm[t].next = NULL
  BY DEF ci_timer_restart, Stoppable
<1> DEFINE q == ci_timerheap_delete(heap, Deactivated(t), t)
           H == [hd EXCEPT ![t] = NULL]
           p == ci_timerheap_insert(q.h, Started(q.m, t), t)
<1>3. /\ InSlots(q.h, q.m) /\ Web(q.m, due \ {t}, poll, H, rk)
      /\ \A x \in Timers : q.m[x].active <=> x # t /\ tm[x].active
  BY <1>1, <1>2, DeactivatedWeb
<1> HIDE DEF q
<1>4. H[t] = NULL /\ \A x \in Timers : x # t => H[x] = hd[x]
  BY <1>1 DEF Web, Heads
<1>5. \A x \in Timers : x # t /\ Periodic(x) /\ kind[x].periodic /\ q.m[x].active => H[x] # NULL
  BY <1>1, <1>3, <1>4
<1> HIDE DEF H
<1>6. InSlots(p.h, p.m) /\ Woven(p.m, (due \ {t}) \union {t}, poll)
  <2>1. /\ now \in 0..MaxNow /\ kind \in {v.kinds : v \in Plans}
        /\ InSlots(q.h, q.m) /\ Web(q.m, due \ {t}, poll, H, rk) /\ H[t] = NULL
        /\ \A x \in Timers : x # t /\ Periodic(x) /\ kind[x].periodic /\ q.m[x].active => H[x] # NULL
    BY <1>3, <1>4, <1>5 DEF IInv
  <2> QED
    BY <2>1, StartedWoven, Zenon
<1>7. heap' = p.h /\ tm' = p.m /\ due' = due \union {t} /\ poll' = poll /\ now' = now /\ kind' = kind
  BY DEF ci_timer_restart, Put, q
<1>8. (due \ {t}) \union {t} = due \union {t}
  OBVIOUS
<1> HIDE DEF p
<1>9. Woven(tm', due', poll')
  BY <1>6, <1>7, <1>8
<1> QED
  BY <1>6, <1>7, <1>9, Carried DEF IInv

\* What a poll that has no timer to fire turns into.
LEMMA WebTurn ==
  ASSUME NEW m, NEW d, NEW po, NEW hd, NEW rk, Web(m, d, po, hd, rk), po.min = NULL,
         NEW q \in [pc : {"idle", "loop"}, now : Nat, min : {NULL}, cur : {NULL}]
  PROVE  Web(m, d, q, hd, rk)
BY DEF Web, Polling, Heads, AreDue, HeadsLead, CurLeads

\* The poll begins and ends.
LEMMA PollTurnInv ==
  ASSUME IInv, PollBegin \/ PollEnd
  PROVE  IInv'
<1>1. PICK hd, rk : /\ Web(tm, due, poll, hd, rk)
                    /\ \A x \in Timers : Periodic(x) /\ kind[x].periodic /\ tm[x].active => hd[x] # NULL
  BY DEF IInv, Woven
<1>2. poll.min = NULL /\ now \in 0..MaxNow /\ now \in Nat
  BY <1>1, TimerAssumption DEF Web, Polling, PollBegin, PollEnd, IInv
<1>3. poll' \in [pc : {"idle", "loop"}, now : Nat, min : {NULL}, cur : {NULL}]
  <2>1. CASE PollBegin
    <3>1. poll' = [pc |-> "loop", now |-> now, min |-> NULL, cur |-> NULL]
      BY <2>1 DEF PollBegin, Idle
    <3> QED
      BY <1>2, <3>1
  <2>2. CASE PollEnd
    BY <2>2 DEF PollEnd, Idle
  <2> QED
    BY <2>1, <2>2
<1>4. heap' = heap /\ tm' = tm /\ due' = due /\ now' = now /\ kind' = kind
  BY DEF PollBegin, PollEnd
<1>5. Web(tm, due, poll', hd, rk)
  BY <1>1, <1>2, <1>3, WebTurn
<1>6. Woven(tm, due, poll')
  BY <1>1, <1>5 DEF Woven
<1>7. InSlots(heap', tm') /\ Woven(tm', due', poll') /\ now' \in 0..MaxNow
  BY <1>2, <1>4, <1>6 DEF IInv
<1> QED
  BY <1>4, <1>7, Carried

\* The root fires.
LEMMA PollHeadInv ==
  ASSUME IInv, PollHead
  PROVE  IInv'
<1>1. PICK hd, rk : /\ Web(tm, due, poll, hd, rk)
                    /\ \A x \in Timers : Periodic(x) /\ kind[x].periodic /\ tm[x].active => hd[x] # NULL
  BY DEF IInv, Woven
<1> DEFINE t == heap[1]
           q == ci_timerheap_delete(heap, tm, t)
           po == [poll EXCEPT !.pc = "callback", !.min = t, !.cur = t]
<1>2. t \in Timers /\ tm[t].inheap /\ tm[t].expires <= poll.now /\ poll.pc = "loop" /\ tm \in [Timers -> TimerRec]
  BY DEF PollHead, Expired, IInv, InSlots
<1>3. /\ heap' = q.h /\ tm' = q.m /\ due' = due \ {t} /\ poll' = po
      /\ now' = now /\ kind' = kind
  BY DEF PollHead
<1> HIDE DEF t, po
<1>4. InSlots(q.h, q.m) /\ Agree(tm, q.m, t) /\ ~q.m[t].inheap
  BY <1>2, DeleteIs DEF IInv
<1> HIDE DEF q
<1>5. Web(q.m, due \ {t}, po, hd, rk)
  BY <1>1, <1>2, <1>4, WebFired DEF po
<1>6. \A x \in Timers : Periodic(x) /\ kind[x].periodic /\ q.m[x].active => hd[x] # NULL
  BY <1>1, <1>4 DEF Agree
<1>7. Woven(q.m, due \ {t}, po)
  BY <1>5, <1>6 DEF Woven
<1>8. InSlots(heap', tm') /\ Woven(tm', due', poll') /\ now' \in 0..MaxNow
  BY <1>3, <1>4, <1>7 DEF IInv
<1> QED
  BY <1>3, <1>8, Carried

\* A timer that leaves its chain is not periodic, or it could not be in one.
LEMMA ChainedOnce ==
  ASSUME NEW m, NEW d, NEW po, NEW hd, NEW rk, Web(m, d, po, hd, rk), NEW t \in Timers, OnChain(hd, t)
  PROVE  ~(Periodic(t) /\ kind[t].periodic)
BY DEF Web, Batched, Periodic

\* The chain of the root fires.
LEMMA PollChainedInv ==
  ASSUME IInv, PollChained
  PROVE  IInv'
<1>1. PICK hd, rk : /\ Web(tm, due, poll, hd, rk)
                    /\ \A x \in Timers : Periodic(x) /\ kind[x].periodic /\ tm[x].active => hd[x] # NULL
  BY DEF IInv, Woven
<1> DEFINE f == Following
           r == IF poll.cur = poll.min THEN tm ELSE [tm EXCEPT ![poll.cur].next = NULL]
           H == IF poll.cur = poll.min THEN hd ELSE [hd EXCEPT ![poll.cur] = NULL]
           po == [poll EXCEPT !.cur = f]
<1>2. poll.pc = "callback" /\ f # poll.min /\ ~(poll.cur = poll.min /\ f = NULL) /\ tm \in [Timers -> TimerRec]
  BY DEF PollChained, ChainDone, IInv, InSlots
<1>3. /\ f \in due /\ OnChain(hd, f) /\ hd[f] = poll.min
      /\ poll.cur # poll.min => OnChain(hd, poll.cur)
      /\ Web(r, due \ {f}, po, H, rk)
  BY <1>1, <1>2, WebNext DEF Following
<1>4. f # NULL /\ poll.cur \in Timers /\ hd \in [Timers -> Timers \union {NULL}]
  BY <1>1, <1>2, <1>3, NullIsNone DEF Web, AreDue, Polling, Heads
<1>5. tm' = r /\ poll' = po /\ due' = due \ {f} /\ heap' = heap /\ now' = now /\ kind' = kind
  BY <1>4 DEF PollChained, Unlinked
<1>6. /\ r \in [Timers -> TimerRec]
      /\ \A x \in Timers : (r[x].active <=> tm[x].active) /\ (r[x].inheap <=> tm[x].inheap) /\ r[x].link = tm[x].link
  <2>1. CASE poll.cur = poll.min
    BY <1>2, <2>1
  <2>2. CASE poll.cur # poll.min
    <3>1. r = [tm EXCEPT ![poll.cur].next = NULL]
      BY <2>2
    <3>2. [tm[poll.cur] EXCEPT !.next = NULL] \in TimerRec
      <4>1. tm[poll.cur] \in TimerRec
        BY <1>2, <1>4
      <4> QED
        BY <4>1 DEF TimerRec
    <3> QED
      BY <1>2, <1>4, <3>1, <3>2 DEF TimerRec
  <2> QED
    BY <2>1, <2>2
<1> HIDE DEF f, r, po
<1>7. ASSUME NEW x \in Timers, Periodic(x), kind[x].periodic, r[x].active PROVE H[x] # NULL
  <2>1. hd[x] # NULL
    BY <1>1, <1>6, <1>7
  <2>2. CASE poll.cur = poll.min
    BY <2>1, <2>2
  <2>3. CASE poll.cur # poll.min
    <3>1. x # poll.cur
      BY <1>1, <1>3, <1>4, <1>7, <2>3, ChainedOnce
    <3> QED
      BY <1>4, <2>1, <2>3, <3>1
  <2> QED
    BY <2>2, <2>3
<1> HIDE DEF H
<1>8. Woven(r, due \ {f}, po)
  BY <1>3, <1>7 DEF Woven
<1>9. InSlots(heap, r)
  BY <1>6, SlotsKeep DEF IInv
<1>10. InSlots(heap', tm') /\ Woven(tm', due', poll') /\ now' \in 0..MaxNow
  BY <1>5, <1>8, <1>9 DEF IInv
<1> QED
  BY <1>5, <1>10, Carried

\* The chain ends, and a periodic head goes back into the heap.
LEMMA PollRearmInv ==
  ASSUME IInv, PollRearm
  PROVE  IInv'
<1>1. PICK hd, rk : /\ Web(tm, due, poll, hd, rk)
                    /\ \A x \in Timers : Periodic(x) /\ kind[x].periodic /\ tm[x].active => hd[x] # NULL
  BY DEF IInv, Woven
<1> DEFINE c == poll.cur
           e == poll.min
           u == IF c = e THEN tm ELSE [tm EXCEPT ![c].next = NULL]
           r == [u EXCEPT ![e].next = NULL]
           H == [hd EXCEPT ![c] = NULL, ![e] = NULL]
           po == [poll EXCEPT !.pc = "loop", !.min = NULL, !.cur = NULL]
           w == [r EXCEPT ![e].expires = @ + kind[e].interval]
           q == ci_timerheap_insert(heap, w, e)
<1>2. /\ poll.pc = "callback" /\ (tm[c].next = e \/ (c = e /\ tm[c].next = NULL))
      /\ tm \in [Timers -> TimerRec]
  BY DEF PollRearm, ChainDone, Following, IInv, InSlots
<1>3. /\ Web(r, due, po, H, rk)
      /\ e \in Timers /\ tm[e].active /\ (c # e => OnChain(hd, c)) /\ r \in [Timers -> TimerRec]
      /\ \A x \in Timers : /\ (r[x].active <=> tm[x].active) /\ r[x].expires = tm[x].expires
                           /\ (r[x].inheap <=> tm[x].inheap) /\ r[x].link = tm[x].link
  <2>1. poll.pc = "callback" /\ (tm[poll.cur].next = poll.min \/ (poll.cur = poll.min /\ tm[poll.cur].next = NULL))
    BY DEF PollRearm, ChainDone, Following
  <2> QED
    BY <1>1, <1>2, <2>1, WebDone
<1>4. /\ poll' = po /\ now' = now /\ kind' = kind
      /\ ~kind[e].periodic => heap' = heap /\ tm' = r /\ due' = due
      /\ kind[e].periodic => heap' = q.h /\ tm' = q.m /\ due' = due \union {e}
  BY DEF PollRearm, Put, Unlinked
<1>5. /\ H[c] = NULL /\ H[e] = NULL /\ c \in Timers
      /\ \A x \in Timers : x # c /\ x # e => H[x] = hd[x]
  <2>1. c \in Timers /\ e \in Timers /\ hd \in [Timers -> Timers \union {NULL}]
    BY <1>1, <1>2, <1>3, NullIsNone DEF Web, Polling, Heads
  <2> QED
    BY <2>1
<1> HIDE DEF r, H, po
<1>6. InSlots(heap, r)
  BY <1>3, SlotsKeep DEF IInv
<1>7. ASSUME NEW x \in Timers, Periodic(x), kind[x].periodic, r[x].active, x # e PROVE H[x] # NULL
  <2>1. hd[x] # NULL
    BY <1>1, <1>3, <1>7
  <2>2. x # c
    BY <1>1, <1>3, <1>5, <1>7, ChainedOnce
  <2> QED
    BY <1>5, <1>7, <2>1, <2>2
<1>8. CASE ~kind[e].periodic
  <2>1. \A x \in Timers : Periodic(x) /\ kind[x].periodic /\ r[x].active => H[x] # NULL
    BY <1>7, <1>8
  <2>2. Woven(r, due, po)
    BY <1>3, <2>1 DEF Woven
  <2>3. InSlots(heap', tm') /\ Woven(tm', due', poll') /\ now' \in 0..MaxNow
    BY <1>4, <1>6, <1>8, <2>2 DEF IInv
  <2> QED
    BY <1>4, <2>3, Carried
<1>9. CASE kind[e].periodic
  <2> DEFINE v == [r[e] EXCEPT !.expires = @ + kind[e].interval]
  <2>1. r[e] \in TimerRec /\ kind[e] \in Kinds
    BY <1>3, KindIs DEF IInv
  <2>2. v \in TimerRec /\ (v.active <=> r[e].active) /\ (v.inheap <=> r[e].inheap) /\ v.next = r[e].next /\ v.link = r[e].link
    BY <2>1 DEF TimerRec, Kinds
  <2>3. w = [r EXCEPT ![e] = v]
    OBVIOUS
  <2>4. w \in [Timers -> TimerRec] /\ w[e] = v /\ \A x \in Timers : x # e => w[x] = r[x]
    BY <1>3, <2>2, <2>3
  <2> HIDE DEF w, v
  <2>5. ~r[e].inheap /\ r[e].next = NULL
    BY <1>3, <1>5, NullIsNone DEF Web, Heads
  <2>6. Others(r, w, e) /\ ~w[e].inheap /\ w[e].next = NULL /\ w[e].active
    BY <1>3, <2>2, <2>4, <2>5 DEF Others
  <2>7. Web(w, due, po, H, rk)
    BY <1>3, <1>5, <2>6, WebFree
  <2>8. InSlots(heap, w)
    <3>1. \A x \in Timers : (w[x].inheap <=> r[x].inheap) /\ w[x].link = r[x].link
      BY <2>2, <2>4
    <3> QED
      BY <1>6, <2>4, <3>1, SlotsKeep
  <2>9. Inserted(heap, w, due, po, H, e, q)
    BY <1>3, <1>5, <2>6, <2>7, <2>8, WebInsert
  <2> HIDE DEF q
  <2>10. PICK G, K : /\ Web(q.m, due \union {e}, po, G, K)
                     /\ \A x \in Timers : H[x] # NULL \/ x = e => G[x] # NULL
    BY <2>9 DEF Inserted
  <2>11. \A x \in Timers : Periodic(x) /\ kind[x].periodic /\ q.m[x].active => G[x] # NULL
    BY <1>7, <2>2, <2>4, <2>9, <2>10 DEF Inserted
  <2>12. Woven(q.m, due \union {e}, po)
    BY <2>10, <2>11 DEF Woven
  <2>13. InSlots(heap', tm') /\ Woven(tm', due', poll') /\ now' \in 0..MaxNow
    BY <1>4, <1>9, <2>9, <2>12 DEF IInv, Inserted
  <2> QED
    BY <1>4, <2>13, Carried
<1> QED
  BY <1>8, <1>9

\* Every step keeps the invariant, as long as stop and restart are called for
\* what delete can handle.
LEMMA StepInv ==
  ASSUME Careful, IInv, [Next]_vars
  PROVE  IInv'
<1>1. CASE Program
  BY <1>1, StartInv, StopInv, RestartInv DEF Program
<1>2. CASE Poll
  BY <1>2, PollTurnInv, PollHeadInv, PollChainedInv, PollRearmInv DEF Poll
<1>3. CASE ci_now_update
  <2>1. heap' = heap /\ tm' = tm /\ due' = due /\ poll' = poll /\ kind' = kind /\ now' = now + 1 /\ now < MaxNow
    BY <1>3 DEF ci_now_update
  <2>2. now' \in 0..MaxNow
    BY <2>1, TimerAssumption DEF IInv
  <2>3. InSlots(heap', tm') /\ Woven(tm', due', poll')
    BY <2>1 DEF IInv
  <2> QED
    BY <2>1, <2>2, <2>3, Carried
<1>4. CASE UNCHANGED vars
  <2>1. heap' = heap /\ tm' = tm /\ due' = due /\ poll' = poll /\ kind' = kind /\ now' = now
    BY <1>4 DEF vars
  <2>2. InSlots(heap', tm') /\ Woven(tm', due', poll') /\ now' \in 0..MaxNow
    BY <2>1 DEF IInv
  <2> QED
    BY <2>1, <2>2, Carried
<1> QED
  BY <1>1, <1>2, <1>3, <1>4 DEF Next

\* The capacity follows the size where realloc succeeds.
Room == cap \in Nat /\ Len(heap) <= cap

\* An insertion makes room for one timer more, and never shrinks the array.
LEMMA EnsureIs ==
  ASSUME NEW c \in Nat, NEW k \in Nat, k <= c + 1
  PROVE  ci_timerheap_ensure(c, k) \in Nat /\ ci_timerheap_ensure(c, k) >= k
<1>1. FirstCap \in Nat /\ FirstCap >= 1
  BY TimerAssumption
<1>2. CASE k <= c
  BY <1>2 DEF ci_timerheap_ensure
<1>3. CASE k > c /\ c = 0
  BY <1>1, <1>3 DEF ci_timerheap_ensure
<1>4. CASE k > c /\ c # 0
  <2>1. ci_timerheap_ensure(c, k) = 2 * c
    BY <1>4 DEF ci_timerheap_ensure
  <2> QED
    BY <1>4, <2>1
<1> QED
  BY <1>2, <1>3, <1>4

\* An insertion adds one timer to the array at most, whatever the timers are.
LEMMA InsertLen ==
  ASSUME NEW h, Len(h) \in Nat, NEW m, NEW t
  PROVE  LET q == ci_timerheap_insert(h, m, t)
         IN  Len(q.h) \in Nat /\ Len(q.h) <= Len(h) + 1
<1> DEFINE n == Len(h) + 1
<1>1. n \in Nat /\ n - 1 \in Nat /\ n - 1 <= n
  OBVIOUS
<1>2. \A g : \A k \in Nat : DOMAIN g = 1..k => Len(g) = k
  OBVIOUS
<1> HIDE DEF n
<1>3. ASSUME NEW p PROVE DOMAIN Floated(h, t, p) = 1..n
  BY DEF Floated, n
<1>4. ASSUME NEW g, DOMAIN g = 1..n, NEW p PROVE Len(CutLast(g, p)) = n - 1
  <2>1. Len(g) = n
    BY <1>1, <1>2, <1>4
  <2>2. DOMAIN CutLast(g, p) = 1..(n - 1)
    BY <2>1 DEF CutLast
  <2> QED
    BY <1>1, <1>2, <2>2
<1>5. ASSUME NEW g, DOMAIN g = 1..n, NEW k, NEW p PROVE Len(SwapLeft(g, k, p)) = n
  <2>1. DOMAIN SwapLeft(g, k, p) = 1..n
    BY <1>5 DEF SwapLeft, Swapped
  <2> QED
    BY <1>1, <1>2, <2>1
<1> QED
  BY <1>3, <1>4, <1>5 DEF ci_timerheap_insert, Place, n

\* A deletion, of whatever position, makes the heap no longer.
LEMMA DeleteLen ==
  ASSUME NEW h, Len(h) \in Nat \ {0}, NEW m, NEW t
  PROVE  LET q == ci_timerheap_delete(h, m, t)
         IN  Len(q.h) \in Nat /\ Len(q.h) <= Len(h)
<1>1. ASSUME NEW p PROVE Len(CutLast(h, p)) = Len(h) - 1
  <2>1. DOMAIN CutLast(h, p) = 1..(Len(h) - 1) /\ Len(h) - 1 \in Nat
    BY DEF CutLast
  <2> QED
    BY <2>1
<1> QED
  BY <1>1 DEF ci_timerheap_delete, Place

\* Where the heap of h timers gets one more.
LEMMA PutRoom ==
  ASSUME Realloc = {TRUE}, cap \in Nat, NEW h, NEW m, NEW t, Len(h) \in Nat, Len(h) <= cap, Put(h, m, t)
  PROVE  Room'
<1> DEFINE q == ci_timerheap_insert(h, m, t)
<1>1. heap' = q.h /\ cap' = ci_timerheap_ensure(cap, Len(h) + 1)
  BY DEF Put
<1>2. Len(q.h) \in Nat /\ Len(q.h) <= Len(h) + 1
  BY InsertLen
<1> HIDE DEF q
<1>3. cap' \in Nat /\ cap' >= Len(h) + 1
  BY <1>1, EnsureIs
<1> QED
  BY <1>1, <1>2, <1>3 DEF Room

\* Every step that lengthens the heap has made room for it.
LEMMA StepRoom ==
  ASSUME Realloc = {TRUE}, IInv, Room, [Next]_vars
  PROVE  Room'
<1>1. Len(heap) \in Nat /\ cap \in Nat /\ Len(heap) <= cap /\ (heap # << >> => Len(heap) # 0)
  BY DEF Room, IInv, InSlots
<1>2. ASSUME NEW t \in Timers, ci_timer_start(t) PROVE Room'
  BY <1>1, <1>2, PutRoom DEF ci_timer_start
<1>3. ASSUME NEW t \in Timers, ci_timer_stop(t) PROVE Room'
  <2> DEFINE q == ci_timerheap_delete(heap, Deactivated(t), t)
  <2>1. Len(q.h) \in Nat /\ Len(q.h) <= Len(heap)
    BY <1>1, <1>3, DeleteLen DEF ci_timer_stop, Stoppable
  <2> HIDE DEF q
  <2>2. heap' = q.h /\ cap' = cap
    BY <1>3 DEF ci_timer_stop, q
  <2> QED
    BY <1>1, <2>1, <2>2 DEF Room
<1>4. ASSUME NEW t \in Timers, ci_timer_restart(t) PROVE Room'
  <2> DEFINE q == ci_timerheap_delete(heap, Deactivated(t), t)
  <2>1. Len(q.h) \in Nat /\ Len(q.h) <= Len(heap)
    BY <1>1, <1>4, DeleteLen DEF ci_timer_restart, Stoppable
  <2>2. Put(q.h, Started(q.m, t), t)
    BY <1>4 DEF ci_timer_restart
  <2> HIDE DEF q
  <2>3. Len(q.h) <= cap
    BY <1>1, <2>1
  <2> QED
    BY <1>1, <2>1, <2>2, <2>3, PutRoom
<1>5. CASE PollHead
  <2> DEFINE q == ci_timerheap_delete(heap, tm, heap[1])
  <2>1. Len(q.h) \in Nat /\ Len(q.h) <= Len(heap)
    BY <1>1, <1>5, DeleteLen DEF PollHead, Expired
  <2> HIDE DEF q
  <2>2. heap' = q.h /\ cap' = cap
    BY <1>5 DEF PollHead, q
  <2> QED
    BY <1>1, <2>1, <2>2 DEF Room
<1>6. CASE PollRearm
  <2>1. CASE kind[poll.min].periodic
    BY <1>1, <1>6, <2>1, PutRoom DEF PollRearm
  <2>2. CASE ~kind[poll.min].periodic
    BY <1>1, <1>6, <2>2 DEF PollRearm, Room
  <2> QED
    BY <2>1, <2>2
<1>7. CASE PollBegin \/ PollEnd \/ PollChained \/ ci_now_update \/ UNCHANGED vars
  BY <1>1, <1>7 DEF PollBegin, PollEnd, PollChained, ci_now_update, vars, Room
<1> QED
  BY <1>2, <1>3, <1>4, <1>5, <1>6, <1>7 DEF Next, Program, Poll

\* The invariant holds.
THEOREM Invariant ==
  ASSUME Careful
  PROVE  Spec => []IInv
<1>1. Init => IInv
  BY InitInv
<1>2. IInv /\ [Next]_vars => IInv'
  BY StepInv
<1> QED
  BY <1>1, <1>2, PTL DEF Spec

\* The timers keep their types, the array stays in its buffer and poll follows no
\* null pointer: TypeOK is an invariant, where delete gets what it can handle
\* and realloc succeeds.
THEOREM TypeCorrect ==
  ASSUME Careful, Realloc = {TRUE}
  PROVE  Spec => []TypeOK
<1>1. Init => Room
  BY DEF Init, Room
<1>2. IInv /\ Room /\ [Next]_vars => Room'
  BY StepRoom
<1>3. IInv /\ Room => TypeOK
  BY DEF IInv, Room, InSlots, Woven, Web, Polling, AreDue, TypeOK, TimerRec
<1> QED
  BY <1>1, <1>2, <1>3, Invariant, PTL DEF Spec

\* Who may fire: the root of the heap, which has expired, and a timer on its
\* chain, which batching put there.
LEMMA FiresIs ==
  ASSUME IInv, [Next]_vars, NEW t \in Timers, Fires(t)
  PROVE  /\ t \in due
         /\ tm[t].expires <= poll.now + (IF kind[t].nobatch THEN 0 ELSE Batch)
<1>1. PICK hd, rk : Web(tm, due, poll, hd, rk)
  BY DEF IInv, Woven
<1>2. /\ tm \in [Timers -> TimerRec] /\ poll.now \in Nat /\ NULL \notin Timers /\ Batch \in Nat
      /\ hd \in [Timers -> Timers \union {NULL}]
  BY <1>1, NullIsNone, TimerAssumption DEF IInv, InSlots, Web, Polling, Heads
<1>3. ~(PollBegin \/ PollEnd \/ PollRearm)
  <2>1. poll \in [pc : {"idle", "loop", "callback"}, now : Nat, min : Timers \union {NULL}, cur : Timers \union {NULL}]
    BY <1>1 DEF Web, Polling
  <2> QED
    <3>1. PollBegin => poll'.pc = "loop"
      BY DEF PollBegin, Idle
    <3>2. PollEnd => poll'.pc = "idle"
      BY DEF PollEnd, Idle
    <3>3. PollRearm => poll'.pc = "loop"
      BY <2>1 DEF PollRearm
    <3> QED
      BY <3>1, <3>2, <3>3 DEF Fires
<1>4. poll' # poll
  BY DEF Fires
<1>5. PollHead \/ PollChained
  BY <1>3, <1>4 DEF Next, Program, Poll, ci_timer_start, ci_timer_stop, ci_timer_restart, ci_now_update, vars
<1>6. CASE PollHead
  <2>1. t = heap[1] /\ poll.pc = "loop" /\ tm[heap[1]].expires <= poll.now
    BY <1>1, <1>6 DEF PollHead, Expired, Fires, Web, Polling
  <2>2. tm[t].inheap
    BY <1>6, <2>1 DEF PollHead, Expired, IInv, InSlots
  <2>3. hd[t] = t /\ poll.min = NULL /\ poll.cur = NULL
    BY <1>1, <2>1, <2>2 DEF Web, Heads, Polling
  <2>4. t \in due
    BY <1>1, <1>2, <2>3 DEF Web, AreDue
  <2>5. tm[t].expires \in Nat
    BY <1>2 DEF TimerRec
  <2> QED
    BY <1>2, <2>1, <2>4, <2>5
<1>7. CASE PollChained
  <2>1. poll.pc = "callback" /\ Following # poll.min /\ ~(poll.cur = poll.min /\ Following = NULL)
    BY <1>7 DEF PollChained, ChainDone
  <2>2. Following \in due /\ OnChain(hd, Following) /\ hd[Following] = poll.min
    <3>1. tm \in [Timers -> TimerRec]
      BY <1>2
    <3> QED
      BY <1>1, <2>1, <3>1, WebNext DEF Following
  <2>3. t = Following
    BY <1>1, <1>2, <1>7, <2>2 DEF PollChained, Fires, Web, AreDue, Polling
  <2>4. tm[poll.min].expires <= poll.now /\ poll.min \in Timers
    BY <1>1, <2>1 DEF Web, Polling
  <2>5. ~kind[t].nobatch /\ tm[t].expires <= tm[poll.min].expires + Batch
    BY <1>1, <2>2, <2>3 DEF Web, Batched
  <2>6. tm[t].expires \in Nat /\ tm[poll.min].expires \in Nat
    BY <1>2, <2>4 DEF TimerRec
  <2> QED
    BY <1>2, <2>2, <2>3, <2>4, <2>5, <2>6
<1> QED
  BY <1>5, <1>6, <1>7

\* A callback runs only for a timer that is due.
THEOREM FiresTheDue ==
  ASSUME Careful
  PROVE  Spec => FiresOnlyDue
<1>1. IInv /\ [Next]_vars => [\A t \in Timers : Fires(t) => t \in due]_vars
  BY FiresIs
<1> QED
  BY <1>1, Invariant, PTL DEF Spec, FiresOnlyDue

\* A timer fires before its time by batch_step at most, and a NOBATCH timer never.
THEOREM FiresInTime ==
  ASSUME Careful
  PROVE  Spec => NotEarly
<1>1. IInv /\ [Next]_vars => [\A t \in Timers : Fires(t) => tm[t].expires <= poll.now + (IF kind[t].nobatch THEN 0 ELSE Batch)]_vars
  BY FiresIs
<1> QED
  BY <1>1, Invariant, PTL DEF Spec, NotEarly

-----------------------------------------------------------------------------
(* Each due timer is in one place *)

\* Along is the walk of the loop over next.
LEMMA AlongStep ==
  ASSUME tm \in [Timers -> TimerRec], NEW f \in Timers, NEW head \in Timers
  PROVE  /\ Along(f, head)[0] = f
         /\ \A k \in 1..Cardinality(Timers) :
              LET u == Along(f, head)[k - 1]
                  n == IF u = NULL THEN NULL ELSE tm[u].next
              IN  Along(f, head)[k] = IF n = head THEN NULL ELSE n
<1> DEFINE N == Cardinality(Timers)
           R == Timers \union {NULL}
           on(u) == IF u = NULL THEN NULL ELSE tm[u].next
           step(u) == IF on(u) = head THEN NULL ELSE on(u)
           P(At) == At = [k \in 0..N |->
                      IF k = 0 THEN f
                      ELSE LET u == At[k - 1]
                               n == IF u = NULL THEN NULL ELSE tm[u].next
                           IN  IF n = head THEN NULL ELSE n]
           At0 == CHOOSE At : P(At)
           S == [k \in 0..N |-> R]
           g == [s \in (1..N) \X R |-> step(s[2])]
<1>1. N \in Nat
  BY NullIsNone
<1>2. \A u \in R : step(u) \in R
  BY DEF TimerRec
<1>3. P(At0)
  <2>1. Recursion(N, S, f, g)
    BY <1>1, <1>2 DEF Recursion
  <2>2. PICK h : Solves(h, N, S, f, g)
    BY <1>1, <2>1, RecursiveExists
  <2> DEFINE e == [k \in 0..N |-> h[k]]
  <2>3. P(e)
    <3>1. \A k \in 0..N : h[k] \in R
      BY <1>1, <2>2 DEF Solves
    <3>2. ASSUME NEW k \in 1..N PROVE h[k] = step(h[k - 1])
      <4>1. k - 1 \in 0..N
        BY <1>1
      <4>2. h[k - 1] \in R /\ h[k] = g[<<k, h[k - 1]>>]
        BY <2>2, <3>1, <4>1 DEF Solves
      <4> QED
        BY <4>2
    <3>3. \A k \in 0..N : k # 0 => k \in 1..N /\ k - 1 \in 0..N
      BY <1>1
    <3>4. h[0] = f
      BY <2>2 DEF Solves
    <3> HIDE DEF N, S, g
    <3> QED
      BY <3>2, <3>3, <3>4
  <2> HIDE DEF P, e
  <2> QED
    BY <2>3, Zenon
<1>4. Along(f, head) = At0
  BY DEF Along
<1> HIDE DEF At0
<1>5. \A k \in 1..N : k \in 0..N /\ k # 0
  BY <1>1
<1>6. 0 \in 0..N
  BY <1>1
<1> HIDE DEF N
<1> QED
  BY <1>3, <1>4, <1>5, <1>6 DEF N

\* The k-th timer of the walk has lost k ranks, and points back at the one before.
LEMMA AlongRanks ==
  ASSUME tm \in [Timers -> TimerRec], NEW d, NEW hd, NEW rk, Web(tm, d, poll, hd, rk),
         NEW f \in Timers, NEW head \in Timers, hd[f] = head, hd[head] = head,
         f = poll.min => poll.cur = f
  PROVE  \A k \in 0..Cardinality(Timers) :
           /\ k < rk[f] => /\ Along(f, head)[k] \in Timers /\ hd[Along(f, head)[k]] = head
                           /\ rk[Along(f, head)[k]] = rk[f] - k
                           /\ k # 0 => /\ OnChain(hd, Along(f, head)[k])
                                       /\ tm[Along(f, head)[k]].link = Prev(Along(f, head)[k - 1])
           /\ k >= rk[f] => Along(f, head)[k] = NULL
<1> DEFINE N == Cardinality(Timers)
           A == Along(f, head)
           Good(k, x) ==
             /\ k < rk[f] => /\ x \in Timers /\ hd[x] = head /\ rk[x] = rk[f] - k
                             /\ IF k = 0 THEN x = f ELSE OnChain(hd, x)
             /\ k >= rk[f] => x = NULL
           S == [k \in 0..N |-> {x \in Timers \union {NULL} : Good(k, x)}]
<1>1. N \in Nat /\ NULL \notin Timers
  BY NullIsNone
<1>2. rk \in [Timers -> 0..N] /\ hd \in [Timers -> Timers \union {NULL}]
  BY DEF Web, Counts, Heads
<1>3. A[0] = f /\ \A k \in 1..N : A[k] = IF (IF A[k - 1] = NULL THEN NULL ELSE tm[A[k - 1]].next) = head THEN NULL
                                       ELSE (IF A[k - 1] = NULL THEN NULL ELSE tm[A[k - 1]].next)
  BY AlongStep
<1> HIDE DEF A, N
<1>4. rk[f] >= 1
  <2>1. CASE f = head
    BY <2>1 DEF Web, HeadsLead
  <2>2. CASE f # head
    BY <1>1, <2>2 DEF Web, ChainsClose, OnChain
  <2> QED
    BY <2>1, <2>2
<1>5. ASSUME NEW x \in Timers, hd[x] = head, x = f \/ OnChain(hd, x)
      PROVE  /\ rk[x] = 1 => tm[x].next \in {head, NULL}
             /\ rk[x] # 1 => Follows(tm, hd, rk, x)
  <2>1. CASE OnChain(hd, x)
    BY <1>5, <2>1 DEF Web, ChainsClose
  <2>2. CASE ~OnChain(hd, x)
    BY <1>1, <1>5, <2>2 DEF Web, HeadsLead, OnChain
  <2> QED
    BY <2>1, <2>2
<1>6. ASSUME NEW k \in 1..N, Good(k - 1, A[k - 1])
      PROVE  /\ Good(k, A[k]) /\ A[k] \in Timers \union {NULL}
             /\ k < rk[f] => tm[A[k]].link = Prev(A[k - 1])
  <2> DEFINE u == A[k - 1]
  <2>1. k \in Nat /\ k >= 1 /\ k - 1 \in Nat /\ rk[f] \in Nat
    BY <1>1, <1>2
  <2>2. CASE k - 1 >= rk[f]
    <3>1. u = NULL /\ k > rk[f]
      BY <1>6, <2>1, <2>2
    <3>2. A[k] = NULL
      BY <1>3, <3>1
    <3> QED
      BY <2>1, <3>1, <3>2
  <2>3. CASE k - 1 < rk[f]
    <3>1. u \in Timers /\ hd[u] = head /\ rk[u] = rk[f] - (k - 1) /\ (u = f \/ OnChain(hd, u))
      BY <1>6, <2>3
    <3>2. A[k] = IF tm[u].next = head THEN NULL ELSE tm[u].next
      BY <1>1, <1>3, <3>1
    <3> HIDE DEF u
    <3>3. CASE k = rk[f]
      <4>1. rk[u] = 1
        BY <2>1, <3>1, <3>3
      <4>2. A[k] = NULL
        BY <1>5, <3>1, <3>2, <4>1
      <4> QED
        BY <2>1, <3>3, <4>2
    <3>4. CASE k < rk[f]
      <4>1. rk[u] # 1 /\ rk[u] \in Nat
        BY <2>1, <3>1, <3>4
      <4>2. Follows(tm, hd, rk, u)
        BY <1>5, <3>1, <4>1
      <4> DEFINE n == tm[u].next
      <4>3. n \in Timers /\ OnChain(hd, n) /\ hd[n] = head /\ rk[n] + 1 = rk[u] /\ tm[n].link = Prev(u)
        BY <3>1, <4>2 DEF Follows
      <4>4. n # head
        BY <4>3 DEF OnChain
      <4>5. A[k] = n
        BY <3>2, <4>4
      <4> HIDE DEF n
      <4>6. rk[n] \in Nat
        BY <1>1, <1>2, <4>3
      <4>7. rk[n] = rk[f] - k
        BY <2>1, <3>1, <4>1, <4>3, <4>6
      <4> QED
        BY <2>1, <3>4, <4>3, <4>5, <4>7 DEF u
    <3> QED
      BY <2>1, <2>3, <3>3, <3>4
  <2> QED
    BY <2>1, <2>2, <2>3
<1>7. \A k \in 0..N : A[k] \in S[k]
  <2>1. A[0] \in S[0]
    BY <1>1, <1>2, <1>3, <1>4
  <2>2. \A k \in 1..N : A[k - 1] \in S[k - 1] => A[k] \in S[k]
    <3> SUFFICES ASSUME NEW k \in 1..N, A[k - 1] \in S[k - 1] PROVE A[k] \in S[k]
      OBVIOUS
    <3>1. k \in 0..N /\ k - 1 \in 0..N
      BY <1>1
    <3> HIDE DEF Good
    <3>2. Good(k - 1, A[k - 1])
      BY <3>1
    <3> QED
      BY <1>6, <3>1, <3>2
  <2> HIDE DEF S
  <2> QED
    BY <1>1, <2>1, <2>2, AlongInduction
<1>8. \A k \in 0..N : Good(k, A[k])
  BY <1>7
<1>9. \A k \in 1..N : k < rk[f] => tm[A[k]].link = Prev(A[k - 1])
  <2> HIDE DEF Good
  <2>1. \A k \in 1..N : k - 1 \in 0..N
    BY <1>1
  <2> QED
    BY <1>6, <1>8, <2>1
<1>10. \A k \in 0..N : k # 0 => k \in 1..N
  BY <1>1
<1> QED
  BY <1>8, <1>9, <1>10 DEF A, N

\* So the walk meets each timer of the chain below f once.
LEMMA AlongMeets ==
  ASSUME tm \in [Timers -> TimerRec], NEW d, NEW hd, NEW rk, Web(tm, d, poll, hd, rk),
         NEW f \in Timers, NEW head \in Timers, hd[f] = head, hd[head] = head,
         f = poll.min => poll.cur = f,
         NEW x \in Timers, NEW k \in Steps
  PROVE  /\ Along(f, head)[k] = x <=> /\ OnChain(hd, x) /\ hd[x] = head /\ rk[x] < rk[f]
                                      /\ k = rk[f] - rk[x]
         /\ Along(f, head)[k] = x => tm[x].link = Prev(Along(f, head)[k - 1])
<1> DEFINE N == Cardinality(Timers)
           y == Along(f, head)[k]
<1>1. N \in Nat /\ NULL \notin Timers /\ k \in 0..N /\ k \in Nat /\ k # 0
  BY NullIsNone DEF Steps
<1>2. rk[x] \in Nat /\ rk[f] \in Nat
  BY <1>1 DEF Web, Counts
<1>3. /\ k < rk[f] => /\ y \in Timers /\ hd[y] = head
                      /\ rk[y] = rk[f] - k
                      /\ OnChain(hd, y) /\ tm[y].link = Prev(Along(f, head)[k - 1])
      /\ k >= rk[f] => y = NULL
  BY <1>1, AlongRanks
<1> HIDE DEF y
<1>4. CASE k >= rk[f]
  <2>1. y # x
    BY <1>1, <1>3, <1>4
  <2>2. OnChain(hd, x) => rk[x] >= 1
    BY DEF Web, ChainsClose
  <2> QED
    BY <1>1, <1>2, <1>4, <2>1, <2>2 DEF y
<1>5. CASE k < rk[f]
  <2>1. y = x => OnChain(hd, x) /\ hd[x] = head /\ rk[x] = rk[f] - k
    BY <1>3, <1>5
  <2>2. OnChain(hd, x) /\ hd[x] = head /\ rk[x] = rk[f] - k => y = x
    BY <1>3, <1>5 DEF Web, RanksDiffer
  <2>3. rk[x] = rk[f] - k <=> rk[x] < rk[f] /\ k = rk[f] - rk[x]
    BY <1>1, <1>2
  <2>4. y = x => tm[x].link = Prev(Along(f, head)[k - 1])
    BY <1>3, <1>5
  <2> QED
    BY <2>1, <2>2, <2>3, <2>4 DEF y
<1> QED
  BY <1>1, <1>2, <1>4, <1>5

\* The one place of each timer: a slot, a slot's chain, or the chain that fires.
LEMMA PlacesCount ==
  ASSUME IInv, NEW hd, NEW rk, Web(tm, due, poll, hd, rk), NEW t \in Timers
  PROVE  /\ Cardinality(InHeap(t)) + Cardinality(Chained(t)) + Cardinality(Firing(t)) = IF t \in due THEN 1 ELSE 0
         /\ tm[t].inheap <=> InHeap(t) # {}
         /\ \A i \in InHeap(t) : tm[t].link = Idx(i)
         /\ \A c \in Chained(t) : tm[t].link = Prev(Along(heap[c[1]], heap[c[1]])[c[2] - 1])
<1> DEFINE N == Cardinality(Timers)
           h == hd[t]
<1>1. NULL \notin Timers /\ N \in Nat
  BY NullIsNone
<1>2. /\ tm \in [Timers -> TimerRec] /\ heap \in Seq(Timers) /\ DOMAIN heap = 1..Len(heap) /\ Len(heap) \in Nat
      /\ \A i \in DOMAIN heap : heap[i] \in Timers /\ tm[heap[i]].inheap /\ tm[heap[i]].link = Idx(i)
      /\ \A i, j \in DOMAIN heap : heap[i] = heap[j] => i = j
      /\ \A x \in Timers : tm[x].inheap => \E i \in DOMAIN heap : heap[i] = x
  BY DEF IInv, InSlots
<1>3. /\ hd \in [Timers -> Timers \union {NULL}] /\ rk \in [Timers -> 0..N]
      /\ \A x \in Timers : hd[x] = x <=> tm[x].inheap \/ x = poll.min
      /\ \A x \in Timers : hd[x] # NULL => hd[hd[x]] = hd[x]
  BY DEF Web, Heads, Counts
<1>4. /\ poll.pc = "callback" <=> poll.min # NULL
      /\ poll.min = NULL => poll.cur = NULL
      /\ poll.min # NULL => /\ poll.min \in Timers /\ ~tm[poll.min].inheap /\ poll.cur \in Timers
                            /\ hd[poll.cur] = poll.min
  BY DEF Web, Polling
<1>5. t \in due <=> h # NULL /\ t # poll.min /\ t # poll.cur
  BY DEF Web, AreDue
<1>6. OnChain(hd, t) => rk[t] >= 1 /\ rk[t] < rk[h] /\ h \in Timers /\ hd[h] = h
  BY <1>1, <1>3 DEF Web, ChainsClose, OnChain
<1>7. ASSUME NEW c \in (DOMAIN heap) \X Steps
      PROVE  /\ Along(heap[c[1]], heap[c[1]])[c[2]] = t <=> OnChain(hd, t) /\ h = heap[c[1]] /\ c[2] = rk[h] - rk[t]
             /\ Along(heap[c[1]], heap[c[1]])[c[2]] = t => tm[t].link = Prev(Along(heap[c[1]], heap[c[1]])[c[2] - 1])
  <2> DEFINE x == heap[c[1]]
  <2>1. x \in Timers /\ c[2] \in Steps
    BY <1>2
  <2>2. hd[x] = x /\ x # poll.min
    BY <1>1, <1>2, <1>3, <1>4
  <2> HIDE DEF x
  <2>3. /\ Along(x, x)[c[2]] = t <=> OnChain(hd, t) /\ hd[t] = x /\ rk[t] < rk[x] /\ c[2] = rk[x] - rk[t]
        /\ Along(x, x)[c[2]] = t => tm[t].link = Prev(Along(x, x)[c[2] - 1])
    BY <1>2, <2>1, <2>2, AlongMeets
  <2> QED
    BY <1>6, <2>3 DEF x
<1>8. ASSUME NEW k \in Steps, poll.pc = "callback"
      PROVE  Along(poll.cur, poll.min)[k] = t <=> OnChain(hd, t) /\ h = poll.min /\ rk[t] < rk[poll.cur]
                                                  /\ k = rk[poll.cur] - rk[t]
  <2>1. poll.cur \in Timers /\ poll.min \in Timers /\ hd[poll.cur] = poll.min /\ hd[poll.min] = poll.min
    BY <1>3, <1>4, <1>8
  <2> QED
    BY <1>2, <2>1, AlongMeets
<1> HIDE DEF h
<1>9. InHeap(t) = {} \/ \E i : InHeap(t) = {i}
  <2> SUFFICES ASSUME NEW i \in DOMAIN heap, heap[i] = t PROVE InHeap(t) = {i}
    BY DEF InHeap
  <2> QED
    BY <1>2 DEF InHeap
<1>10. tm[t].inheap <=> InHeap(t) # {}
  BY <1>2 DEF InHeap
<1>11. \A i \in InHeap(t) : tm[t].link = Idx(i)
  BY <1>2 DEF InHeap
<1>12. \A c \in Chained(t) : tm[t].link = Prev(Along(heap[c[1]], heap[c[1]])[c[2] - 1])
  BY <1>7 DEF Chained
<1>13. OnChain(hd, t) => rk[h] - rk[t] \in Steps
  <2> SUFFICES ASSUME OnChain(hd, t) PROVE rk[h] - rk[t] \in Steps
    OBVIOUS
  <2>1. rk[h] \in 0..N /\ rk[t] \in 0..N /\ rk[t] < rk[h]
    BY <1>3, <1>6
  <2> QED
    BY <1>1, <2>1 DEF Steps
<1>14. CASE h = NULL
  <2>1. ~OnChain(hd, t) /\ ~tm[t].inheap
    BY <1>1, <1>3, <1>14 DEF OnChain, h
  <2>2. InHeap(t) = {} /\ Chained(t) = {} /\ Firing(t) = {}
    BY <1>7, <1>8, <1>10, <2>1 DEF Chained, Firing
  <2> QED
    BY <1>5, <1>10, <1>11, <1>12, <1>14, <2>2, FS_EmptySet
<1>15. CASE h = t
  <2>1. ~OnChain(hd, t)
    BY <1>15 DEF OnChain, h
  <2>2. Chained(t) = {} /\ Firing(t) = {}
    BY <1>7, <1>8, <2>1 DEF Chained, Firing
  <2>3. CASE tm[t].inheap
    <3>1. PICK i : InHeap(t) = {i}
      BY <1>9, <1>10, <2>3
    <3>2. t \in due
      BY <1>1, <1>4, <1>5, <1>15, <2>3 DEF h
    <3>3. Cardinality(InHeap(t)) = 1 /\ Cardinality({}) = 0
      BY <3>1, FS_Singleton, FS_EmptySet
    <3> QED
      BY <1>10, <1>11, <1>12, <2>2, <3>2, <3>3
  <2>4. CASE ~tm[t].inheap
    <3>1. t = poll.min
      BY <1>3, <1>15, <2>4 DEF h
    <3> QED
      BY <1>5, <1>10, <1>11, <1>12, <2>2, <2>4, <3>1, FS_EmptySet
  <2> QED
    BY <2>3, <2>4
<1>16. CASE h # NULL /\ h # t
  <2>1. OnChain(hd, t)
    BY <1>16 DEF OnChain, h
  <2>2. h \in Timers /\ hd[h] = h /\ (tm[h].inheap \/ h = poll.min) /\ ~tm[t].inheap /\ t # poll.min
    BY <1>3, <1>6, <1>16, <2>1 DEF h
  <2>3. InHeap(t) = {} /\ Cardinality({}) = 0
    BY <1>10, <2>2, FS_EmptySet
  <2>4. CASE tm[h].inheap
    <3>1. h # poll.min /\ t # poll.cur
      BY <1>1, <1>4, <2>2, <2>4 DEF h
    <3>2. t \in due
      BY <1>5, <1>16, <2>2, <3>1
    <3>3. Firing(t) = {}
      BY <1>8, <3>1 DEF Firing
    <3>4. PICK i \in DOMAIN heap : heap[i] = h
      BY <1>2, <2>2, <2>4
    <3>5. Chained(t) = {<<i, rk[h] - rk[t]>>}
      <4>1. <<i, rk[h] - rk[t]>> \in Chained(t)
        BY <1>7, <1>13, <2>1, <3>4 DEF Chained
      <4>2. ASSUME NEW c \in Chained(t) PROVE c = <<i, rk[h] - rk[t]>>
        <5>1. c \in (DOMAIN heap) \X Steps /\ heap[c[1]] = h /\ c[2] = rk[h] - rk[t]
          BY <1>7, <4>2 DEF Chained
        <5>2. c[1] = i
          BY <1>2, <3>4, <5>1
        <5> QED
          BY <5>1, <5>2
      <4> QED
        BY <4>1, <4>2
    <3>6. Cardinality(Chained(t)) = 1
      BY <3>5, FS_Singleton
    <3> QED
      BY <1>10, <1>11, <1>12, <2>3, <3>2, <3>3, <3>6
  <2>5. CASE ~tm[h].inheap
    <3>1. h = poll.min /\ poll.pc = "callback"
      BY <1>4, <1>16, <2>2, <2>5
    <3>2. Chained(t) = {}
      BY <1>2, <1>7, <2>5 DEF Chained
    <3>3. poll.cur \in Timers /\ hd[poll.cur] = h /\ rk[poll.cur] \in 0..N /\ rk[t] \in 0..N
      BY <1>1, <1>3, <1>4, <1>16, <3>1
    <3>4. CASE t = poll.cur
      <4>1. Firing(t) = {}
        BY <1>8, <3>1, <3>3, <3>4 DEF Firing
      <4> QED
        BY <1>5, <1>10, <1>11, <1>12, <2>3, <3>2, <3>4, <4>1
    <3>5. CASE t # poll.cur
      <4>1. rk[t] < rk[poll.cur]
        <5>1. CASE poll.cur = h
          BY <1>6, <2>1, <5>1
        <5>2. CASE poll.cur # h
          <6>1. OnChain(hd, poll.cur) /\ rk[t] <= rk[poll.cur]
            BY <1>16, <2>1, <3>1, <3>3, <5>2 DEF OnChain, Web, CurLeads, h
          <6>2. rk[t] # rk[poll.cur]
            BY <2>1, <3>3, <3>5, <6>1 DEF Web, RanksDiffer, h
          <6> QED
            BY <1>1, <3>3, <6>1, <6>2
        <5> QED
          BY <5>1, <5>2
      <4>2. rk[poll.cur] - rk[t] \in Steps
        BY <1>1, <3>3, <4>1 DEF Steps
      <4>3. Firing(t) = {rk[poll.cur] - rk[t]}
        BY <1>8, <2>1, <3>1, <4>1, <4>2 DEF Firing
      <4>4. Cardinality(Firing(t)) = 1
        BY <4>3, FS_Singleton
      <4>5. t \in due
        BY <1>5, <1>16, <2>2, <3>5
      <4> QED
        BY <1>10, <1>11, <1>12, <2>3, <3>2, <4>4, <4>5
    <3> QED
      BY <3>4, <3>5
  <2> QED
    BY <2>4, <2>5
<1> QED
  BY <1>14, <1>15, <1>16

\* No timer is lost and none is kept twice: InOnePlace is an invariant, where
\* stop and restart get what delete can handle and no plan has a periodic timer
\* that may be batched.
THEOREM NoneLost ==
  ASSUME Careful,
         \A p \in Plans, t \in Timers : p.kinds[t].periodic => p.kinds[t].nobatch
  PROVE  Spec => []InOnePlace
<1>1. IInv => InOnePlace
  <2> SUFFICES ASSUME IInv PROVE InOnePlace
    OBVIOUS
  <2>1. PICK hd, rk : /\ Web(tm, due, poll, hd, rk)
                      /\ \A x \in Timers : Periodic(x) /\ kind[x].periodic /\ tm[x].active => hd[x] # NULL
    BY DEF IInv, Woven
  <2>2. \A t \in Timers : Periodic(t)
    BY DEF IInv, Periodic
  <2>3. ASSUME NEW t \in Timers, kind[t].periodic, tm[t].active
        PROVE  t \in due \/ (poll.pc = "callback" /\ t = poll.min)
    <3>1. hd[t] # NULL /\ ~OnChain(hd, t)
      BY <2>1, <2>2, <2>3, ChainedOnce
    <3>2. hd[t] = t
      BY <3>1 DEF OnChain
    <3>3. t = poll.cur => t = poll.min
      BY <2>1, <3>2, NullIsNone DEF Web, Polling
    <3>4. t = poll.min => poll.pc = "callback"
      BY <2>1, NullIsNone DEF Web, Polling
    <3>5. t \in due <=> hd[t] # NULL /\ t # poll.min /\ t # poll.cur
      BY <2>1 DEF Web, AreDue
    <3> QED
      BY <3>1, <3>3, <3>4, <3>5
  <2>4. \A t \in Timers :
          /\ Cardinality(InHeap(t)) + Cardinality(Chained(t)) + Cardinality(Firing(t)) = IF t \in due THEN 1 ELSE 0
          /\ tm[t].inheap <=> InHeap(t) # {}
          /\ \A i \in InHeap(t) : tm[t].link = Idx(i)
          /\ \A c \in Chained(t) : tm[t].link = Prev(Along(heap[c[1]], heap[c[1]])[c[2] - 1])
    BY <2>1, PlacesCount
  <2> QED
    BY <2>3, <2>4 DEF InOnePlace
<1> QED
  BY <1>1, Invariant, PTL

=============================================================================
