---------------------------- MODULE CiMapProofs ----------------------------
(***************************************************************************)
(* Proofs about CiMap, for tables of any size and any hashes.              *)
(*                                                                         *)
(* IInv says of the table (Good) what keeps lookups right after any        *)
(* history: each used slot's route is known, its probe length is covered   *)
(* by the route's longest probe, and, Robin, every slot that a pair has    *)
(* gone past on the way from its home holds, from the fourth place on, an  *)
(* entry that is as far from its own home.  Before the first deletion the  *)
(* slots it has gone past in the first four places are in use as well;     *)
(* a deletion may leave a hole there, which is why the two lookups differ. *)
(*                                                                         *)
(* The loops of insertion and of resize are recursive functions: an        *)
(* invariant of the pair in hand (Carried) is kept by every probe (Probe-  *)
(* Empty, ProbePast, ProbeSwap), and ends with the pair in the table.  The *)
(* backward shift is a bijection of the slots (FromIs) that shortens       *)
(* probes by one (ShiftedIs) and keeps Robin (ShiftRobin).                 *)
(***************************************************************************)
EXTENDS CiMap, RecursionLemmas, FiniteSetTheorems

-----------------------------------------------------------------------------
(* The ring of slots *)

Entry == [key : Obj \union {NULL}, val : Val \union {NULL}]
Byte == [route : 0..7, max : 0..PslMax]

\* The tables of b buckets.
Tables(b) == [buckets : {b}, used_limit : Int, kvs : [0..b - 1 -> Entry], pre : [0..b - 1 -> Byte]]
IsTable(t) == t.buckets \in Sizes /\ t \in Tables(t.buckets)

\* What MapAssumption says of the setup in use.
LEMMA SetupIs ==
  ASSUME setup \in Setups
  PROVE  /\ Obj \subseteq Keys /\ NULL \notin Keys /\ NULL \notin Obj
         /\ PslMax \in Nat /\ PslMax >= 4
         /\ MinBuckets \in Nat /\ MinBuckets > 0 /\ MinBuckets \in Sizes
         /\ HashSpan \in Nat /\ HashSpan \in Sizes
         /\ \A n \in Sizes : n \in Nat /\ n > 0 /\ n >= MinBuckets /\ n <= HashSpan /\ HashSpan % n = 0
         /\ HashSpan > 65536 => 65536 \in Sizes
         /\ \A o \in Obj : Lo[o] \in 0..HashSpan - 1 /\ Hi[o] \in 0..HashSpan - 1
<1>1. /\ setup.obj \subseteq Keys /\ setup.psl \in Nat /\ setup.psl >= 4
      /\ setup.min \in Nat \ {0} /\ setup.span \in Nat /\ {setup.min, setup.span} \subseteq setup.sizes
      /\ \A n \in setup.sizes : n \in setup.min..setup.span /\ setup.span % n = 0
      /\ setup.span > 65536 => 65536 \in setup.sizes
      /\ \A o \in setup.obj : {setup.lo[o], setup.hi[o]} \subseteq 0..setup.span - 1
  BY MapAssumption
<1>2. NULL \notin Keys
  BY MapAssumption
<1> QED
  BY <1>1, <1>2 DEF Obj, PslMax, MinBuckets, Sizes, HashSpan, Lo, Hi

\* Objects of one content have one hash.
LEMMA SameHash ==
  ASSUME setup \in Setups, NEW a \in Obj, NEW b \in Obj, KeyCmp(a, b)
  PROVE  Lo[a] = Lo[b] /\ Hi[a] = Hi[b]
<1>1. CASE Ident
  <2>1. \A o \in setup.obj : Same[o] \in setup.obj /\ setup.lo[Same[o]] = setup.lo[o] /\ setup.hi[Same[o]] = setup.hi[o]
    BY <1>1, MapAssumption DEF Ident
  <2>2. Same[a] = Same[b]
    BY <1>1 DEF KeyCmp
  <2> QED
    BY <2>1, <2>2 DEF Obj, Lo, Hi
<1>2. CASE ~Ident
  BY <1>2 DEF KeyCmp
<1> QED
  BY <1>1, <1>2

\* hashcmp is an equivalence.
LEMMA KeyCmpIs ==
  /\ \A x : KeyCmp(x, x)
  /\ \A x, y : KeyCmp(x, y) => KeyCmp(y, x)
  /\ \A x, y, z : KeyCmp(x, y) /\ KeyCmp(y, z) => KeyCmp(x, z)
BY DEF KeyCmp

\* The remainder of what is less than two rounds.
LEMMA Wrapped ==
  ASSUME NEW b \in Nat, b > 0, NEW x \in Int, 0 <= x, x < 2 * b
  PROVE  x % b = IF x < b THEN x ELSE x - b
OBVIOUS

\* A remainder is below its divisor.
LEMMA Remainder ==
  ASSUME NEW b \in Nat, b > 0, NEW x \in Nat
  PROVE  x % b \in 0..b - 1
OBVIOUS

\* The quotient of a number below q * r.
LEMMA Quotient ==
  ASSUME NEW s \in Nat, NEW r \in Nat, r > 0, s % r = 0, NEW x \in 0..s - 1
  PROVE  x \div (s \div r) \in 0..r - 1
<1> DEFINE q == s \div r
           d == x \div q
<1>1. q \in Nat /\ s = q * r
  OBVIOUS
<1>2. q > 0
  BY <1>1
<1> HIDE DEF q
<1>3. d \in Nat /\ q * d <= x
  BY <1>2, <1>1
<1> HIDE DEF d
<1>4. d < r
  <2> SUFFICES ASSUME d >= r PROVE FALSE
    BY <1>3
  <2>1. q * d >= q * r
    BY <1>1, <1>2, <1>3
  <2> QED
    BY <1>1, <1>3, <2>1
<1> QED
  BY <1>3, <1>4 DEF d, q

\* A place less than a round further on, without the remainder.
LEMMA AheadIs ==
  ASSUME NEW t, t.buckets \in Nat, t.buckets > 0, NEW p \in 0..t.buckets - 1, NEW d \in 0..t.buckets
  PROVE  Ahead(t, p, d) = IF p + d < t.buckets THEN p + d ELSE p + d - t.buckets
BY Wrapped DEF Ahead

\* The places from p to q, without the remainder.
LEMMA DistanceIs ==
  ASSUME NEW t, t.buckets \in Nat, t.buckets > 0, NEW p \in 0..t.buckets - 1, NEW q \in 0..t.buckets - 1
  PROVE  Distance(t, p, q) = IF p <= q THEN q - p ELSE q - p + t.buckets
<1> DEFINE x == q + t.buckets - p
<1>1. x \in Int /\ 0 <= x /\ x < 2 * t.buckets
  OBVIOUS
<1>2. x % t.buckets = IF x < t.buckets THEN x ELSE x - t.buckets
  BY <1>1, Wrapped
<1>3. Distance(t, p, q) = x % t.buckets
  BY DEF Distance
<1>4. x < t.buckets <=> ~(p <= q)
  OBVIOUS
<1> QED
  BY <1>2, <1>3, <1>4

\* The preindex that is used is as large as some table, and not larger than this one.
LEMMA RoutesIs ==
  ASSUME setup \in Setups, NEW t, t.buckets \in Sizes
  PROVE  Routes(t) \in Sizes /\ Routes(t) <= t.buckets
BY SetupIs DEF Routes

\* The bucket, the route and the home of a key are in the table.
LEMMA HomeIs ==
  ASSUME setup \in Setups, NEW t, IsTable(t), NEW o \in Obj
  PROVE  /\ Idx(t, o) \in 0..t.buckets - 1 /\ PIdx(t, o) \in 0..t.buckets - 1
         /\ HomePos(t, o) \in 0..t.buckets - 1
<1>1. Routes(t) \in Sizes /\ Routes(t) <= t.buckets
  BY RoutesIs DEF IsTable
<1>2. PIdx(t, o) \in 0..Routes(t) - 1
  <2>1. HashSpan \in Nat /\ HashSpan % Routes(t) = 0 /\ Routes(t) \in Nat /\ Routes(t) > 0
    BY <1>1, SetupIs
  <2>2. Hi[o] \in 0..HashSpan - 1
    BY SetupIs
  <2> QED
    BY <2>1, <2>2, Quotient DEF PIdx
<1>3. t.buckets \in Nat /\ t.buckets > 0 /\ Routes(t) \in Nat
  BY <1>1, SetupIs DEF IsTable
<1>4. PIdx(t, o) \in 0..t.buckets - 1
  BY <1>1, <1>2, <1>3
<1>5. Idx(t, o) \in 0..t.buckets - 1
  BY <1>3, SetupIs, Remainder DEF Idx
<1>6. t.pre[PIdx(t, o)].route \in 0..7
  BY <1>4 DEF IsTable, Tables, Byte
<1> QED
  BY <1>3, <1>4, <1>5, <1>6, Remainder DEF HomePos

-----------------------------------------------------------------------------
(* The tables the code keeps *)

Route(t, o) == t.pre[PIdx(t, o)].route
Longest(t, o) == t.pre[PIdx(t, o)].max

\* What a pair of key o at distance d from its home has gone past: from the
\* fourth slot on, entries that are as far from their homes; from the g-th on,
\* no empty slot.
Passed(t, o, d, g) ==
  \A q \in 0..t.buckets - 1 :
    LET e == Distance(t, HomePos(t, o), q)
    IN  e < d => /\ e >= g => q \in Used(t)
                 /\ e >= 4 => q \in Used(t) /\ SlotPsl(t, q) >= e

RoutesKnown(t) == \A p \in Used(t) : Route(t, t.kvs[p].key) # 0
Within(t) == \A p \in Used(t) : Longest(t, t.kvs[p].key) \in {PslMax} \/ SlotPsl(t, p) <= Longest(t, t.kvs[p].key)
Robin(t, g) == \A p \in Used(t) : Passed(t, t.kvs[p].key, SlotPsl(t, p), g)
Once(t) == \A p, q \in Used(t) : KeyCmp(t.kvs[p].key, t.kvs[q].key) => p = q
Valued(t) == \A p \in Used(t) : t.kvs[p].val # NULL
Counted(t) == t.used_limit >= 0 /\ Cardinality(Used(t)) = Limit(t.buckets) - t.used_limit

\* A table without holes in the first g places of a probe.
Good(t, g) ==
  /\ IsTable(t) /\ RoutesKnown(t) /\ Within(t) /\ Robin(t, g)
  /\ Once(t) /\ Valued(t) /\ Counted(t)

\* The fields of a table.
LEMMA TableIs ==
  ASSUME setup \in Setups, NEW t, IsTable(t)
  PROVE  /\ t.buckets \in Nat /\ t.buckets > 0 /\ t.buckets \in Sizes /\ t.used_limit \in Int
         /\ t.kvs \in [0..t.buckets - 1 -> Entry] /\ t.pre \in [0..t.buckets - 1 -> Byte]
         /\ \A p \in Used(t) : /\ p \in 0..t.buckets - 1 /\ t.kvs[p].key \in Obj /\ t.kvs[p].val \in Val \union {NULL}
                               /\ HomePos(t, t.kvs[p].key) \in 0..t.buckets - 1
<1>1. /\ t.buckets \in Nat /\ t.buckets > 0 /\ t.buckets \in Sizes /\ t.used_limit \in Int
      /\ t.kvs \in [0..t.buckets - 1 -> Entry] /\ t.pre \in [0..t.buckets - 1 -> Byte]
  BY SetupIs DEF IsTable, Tables
<1>2. \A p \in Used(t) : p \in 0..t.buckets - 1 /\ t.kvs[p].key \in Obj /\ t.kvs[p].val \in Val \union {NULL}
  BY <1>1 DEF Used, Entry
<1>3. \A p \in Used(t) : HomePos(t, t.kvs[p].key) \in 0..t.buckets - 1
  BY <1>2, HomeIs
<1> QED
  BY <1>1, <1>2, <1>3

\* A pair is as far from its home as its probe length says.
LEMMA PslIs ==
  ASSUME setup \in Setups, NEW t, IsTable(t), NEW p \in Used(t)
  PROVE  /\ SlotPsl(t, p) \in 0..t.buckets - 1
         /\ Ahead(t, HomePos(t, t.kvs[p].key), SlotPsl(t, p)) = p
         /\ SlotPsl(t, p) = Distance(t, HomePos(t, t.kvs[p].key), p)
<1> DEFINE h == HomePos(t, t.kvs[p].key)
<1>1. /\ t.buckets \in Nat /\ t.buckets > 0
      /\ p \in 0..t.buckets - 1 /\ h \in 0..t.buckets - 1
  BY TableIs
<1>2. SlotPsl(t, p) = Distance(t, h, p)
  BY DEF SlotPsl
<1> HIDE DEF h
<1>3. SlotPsl(t, p) = IF h <= p THEN p - h ELSE p - h + t.buckets
  BY <1>1, <1>2, DistanceIs
<1>4. SlotPsl(t, p) \in 0..t.buckets - 1 /\ SlotPsl(t, p) \in 0..t.buckets
  BY <1>1, <1>3
<1>5. Ahead(t, h, SlotPsl(t, p)) = IF h + SlotPsl(t, p) < t.buckets THEN h + SlotPsl(t, p) ELSE h + SlotPsl(t, p) - t.buckets
  BY <1>1, <1>4, AheadIs
<1> QED
  BY <1>1, <1>2, <1>3, <1>4, <1>5 DEF h

\* The number of places from one slot to another, and back.
LEMMA AheadDistance ==
  ASSUME NEW t, t.buckets \in Nat, t.buckets > 0, NEW p \in 0..t.buckets - 1
  PROVE  /\ \A d \in 0..t.buckets - 1 : /\ Ahead(t, p, d) \in 0..t.buckets - 1
                                        /\ Distance(t, p, Ahead(t, p, d)) = d
         /\ \A q \in 0..t.buckets - 1 : /\ Distance(t, p, q) \in 0..t.buckets - 1
                                        /\ Ahead(t, p, Distance(t, p, q)) = q
<1>1. ASSUME NEW d \in 0..t.buckets - 1
      PROVE  Ahead(t, p, d) \in 0..t.buckets - 1 /\ Distance(t, p, Ahead(t, p, d)) = d
  <2>1. Ahead(t, p, d) = IF p + d < t.buckets THEN p + d ELSE p + d - t.buckets
    BY AheadIs
  <2>2. Ahead(t, p, d) \in 0..t.buckets - 1
    BY <2>1
  <2>3. Distance(t, p, Ahead(t, p, d)) = IF p <= Ahead(t, p, d) THEN Ahead(t, p, d) - p ELSE Ahead(t, p, d) - p + t.buckets
    BY <2>2, DistanceIs
  <2> QED
    BY <2>1, <2>2, <2>3
<1>2. ASSUME NEW q \in 0..t.buckets - 1
      PROVE  Distance(t, p, q) \in 0..t.buckets - 1 /\ Ahead(t, p, Distance(t, p, q)) = q
  <2>1. Distance(t, p, q) = IF p <= q THEN q - p ELSE q - p + t.buckets
    BY DistanceIs
  <2>2. Distance(t, p, q) \in 0..t.buckets - 1 /\ Distance(t, p, q) \in 0..t.buckets
    BY <2>1
  <2>3. Ahead(t, p, Distance(t, p, q)) = IF p + Distance(t, p, q) < t.buckets THEN p + Distance(t, p, q) ELSE p + Distance(t, p, q) - t.buckets
    BY <2>2, AheadIs
  <2> QED
    BY <2>1, <2>2, <2>3
<1> QED
  BY <1>1, <1>2

\* The route byte of a key.
LEMMA ByteIs ==
  ASSUME setup \in Setups, NEW t, IsTable(t), NEW o \in Obj
  PROVE  Route(t, o) \in 0..7 /\ Longest(t, o) \in 0..PslMax
<1>1. t.pre \in [0..t.buckets - 1 -> Byte] /\ PIdx(t, o) \in 0..t.buckets - 1
  BY TableIs, HomeIs
<1>2. t.pre[PIdx(t, o)] \in Byte
  BY <1>1
<1> QED
  BY <1>2 DEF Byte, Route, Longest

\* Tables of one size and the same routes have the same homes.
SameRoutes(t, u) == u.buckets = t.buckets /\ \A r \in 0..t.buckets - 1 : u.pre[r].route = t.pre[r].route

\* With the same routes every key has the same home.
LEMMA SameHomes ==
  ASSUME setup \in Setups, NEW t, NEW u, IsTable(t), SameRoutes(t, u)
  PROVE  /\ \A o \in Obj : PIdx(u, o) = PIdx(t, o) /\ HomePos(u, o) = HomePos(t, o) /\ Route(u, o) = Route(t, o)
         /\ \A p, q : Distance(u, p, q) = Distance(t, p, q) /\ Ahead(u, p, q) = Ahead(t, p, q)
<1>1. u.buckets = t.buckets
  BY DEF SameRoutes
<1>2. \A o \in Obj : PIdx(u, o) = PIdx(t, o) /\ Idx(u, o) = Idx(t, o)
  BY <1>1 DEF PIdx, Idx, Routes
<1>3. \A o \in Obj : PIdx(t, o) \in 0..t.buckets - 1
  BY HomeIs
<1>4. \A o \in Obj : Route(u, o) = Route(t, o)
  BY <1>2, <1>3 DEF SameRoutes, Route
<1>5. \A o \in Obj : HomePos(u, o) = HomePos(t, o)
  BY <1>1, <1>2, <1>4 DEF HomePos, Route
<1> QED
  BY <1>1, <1>2, <1>4, <1>5 DEF Distance, Ahead

\* A table that differs in the longest probes only, and those no shorter.
LEMMA RaisedGood ==
  ASSUME setup \in Setups, NEW t, NEW u, NEW g, Good(t, g), IsTable(u), SameRoutes(t, u),
         u.kvs = t.kvs, u.used_limit = t.used_limit,
         \A r \in 0..t.buckets - 1 : u.pre[r].max >= t.pre[r].max
  PROVE  Good(u, g) /\ Used(u) = Used(t) /\ \A p \in Used(t) : SlotPsl(u, p) = SlotPsl(t, p)
<1>1. Used(u) = Used(t) /\ u.buckets = t.buckets /\ u.kvs = t.kvs /\ u.used_limit = t.used_limit
  BY DEF Used, SameRoutes
<1>2. IsTable(t)
  BY DEF Good
<1>3. /\ \A o \in Obj : PIdx(u, o) = PIdx(t, o) /\ HomePos(u, o) = HomePos(t, o) /\ Route(u, o) = Route(t, o)
      /\ \A p, q : Distance(u, p, q) = Distance(t, p, q)
  BY <1>2, SameHomes
<1>4. \A p \in Used(t) : t.kvs[p].key \in Obj /\ PIdx(t, t.kvs[p].key) \in 0..t.buckets - 1
  BY <1>2, TableIs, HomeIs
<1>5. \A p \in Used(t) : SlotPsl(u, p) = SlotPsl(t, p)
  BY <1>1, <1>3, <1>4 DEF SlotPsl
<1>6. RoutesKnown(u)
  BY <1>1, <1>3, <1>4 DEF RoutesKnown, Good
<1>7. Within(u)
  <2> SUFFICES ASSUME NEW p \in Used(t), Longest(u, t.kvs[p].key) # PslMax
               PROVE  SlotPsl(t, p) <= Longest(u, t.kvs[p].key)
    BY <1>1, <1>5 DEF Within
  <2>1. Longest(u, t.kvs[p].key) >= Longest(t, t.kvs[p].key)
    BY <1>3, <1>4 DEF Longest
  <2>2. Longest(t, t.kvs[p].key) \in 0..PslMax /\ Longest(u, t.kvs[p].key) \in 0..PslMax
    BY <1>1, <1>2, <1>3, <1>4, TableIs DEF Longest, Byte
  <2>3. Longest(t, t.kvs[p].key) = PslMax \/ SlotPsl(t, p) <= Longest(t, t.kvs[p].key)
    BY DEF Good, Within
  <2>4. SlotPsl(t, p) \in Nat /\ PslMax \in Nat
    BY <1>2, PslIs, SetupIs
  <2> QED
    BY <2>1, <2>2, <2>3, <2>4
<1>8. Robin(u, g)
  <2> SUFFICES ASSUME NEW p \in Used(t) PROVE Passed(u, t.kvs[p].key, SlotPsl(t, p), g)
    BY <1>1, <1>5 DEF Robin
  <2>1. Passed(t, t.kvs[p].key, SlotPsl(t, p), g)
    BY DEF Good, Robin
  <2> QED
    BY <2>1, <1>1, <1>3, <1>4, <1>5 DEF Passed
<1>9. Once(u) /\ Valued(u) /\ Counted(u)
  BY <1>1 DEF Good, Once, Valued, Counted
<1> QED
  BY <1>1, <1>5, <1>6, <1>7, <1>8, <1>9 DEF Good

\* ci_map__choose_preindex returns a routing value, and never the 0 that means none.
LEMMA ChooseType ==
  ASSUME NEW t, NEW i
  PROVE  ChoosePreindex(t, i) \in 1..7
<1> DEFINE free(v) == Cardinality({j \in 0..3 : t.kvs[(i + 4 * v + j) % t.buckets].key = NULL})
           good == {v \in 1..7 : free(v) > 2}
           best == {v \in 1..7 : free(v) > 0 /\ \A w \in 1..7 : free(w) <= free(v)}
           first(S) == CHOOSE v \in S : \A w \in S : v <= w
<1>1. ASSUME NEW S, S \subseteq 1..7, S # {} PROVE first(S) \in 1..7
  <2>1. S \subseteq Nat
    BY <1>1
  <2>2. \E v \in S : \A w \in S : v <= w
    BY <1>1, <2>1, LeastNat
  <2> QED
    BY <1>1, <2>2
<1> HIDE DEF first
<1>2. good \subseteq 1..7 /\ best \subseteq 1..7
  OBVIOUS
<1>3. ChoosePreindex(t, i) = IF good # {} THEN first(good) ELSE IF best # {} THEN first(best) ELSE 1
  BY DEF ChoosePreindex, first
<1> HIDE DEF good, best
<1>4. good # {} => first(good) \in 1..7
  BY <1>1, <1>2
<1>5. best # {} => first(best) \in 1..7
  BY <1>1, <1>2
<1> QED
  BY <1>3, <1>4, <1>5

\* A key that is in a table has a route: a table is as good when another key
\* is given one.
LEMMA RoutedGood ==
  ASSUME setup \in Setups, NEW t, NEW g, Good(t, g), NEW o \in Obj
  PROVE  LET u == Routed(t, o)
         IN  /\ Good(u, g) /\ Route(u, o) # 0 /\ u.kvs = t.kvs /\ u.buckets = t.buckets
             /\ u.used_limit = t.used_limit /\ Used(u) = Used(t)
<1> DEFINE r == PIdx(t, o)
           c == ChoosePreindex(t, Idx(t, o))
           v == [t EXCEPT !.pre[r].route = c]
           u == Routed(t, o)
<1>1. CASE Route(t, o) # 0
  <2>1. u = t
    BY <1>1 DEF Route, Routed
  <2> QED
    BY <1>1, <2>1
<1>2. CASE Route(t, o) = 0
  <2>1. u = v
    BY <1>2 DEF Route, Routed
  <2>2. IsTable(t) /\ r \in 0..t.buckets - 1 /\ c \in 1..7
    BY HomeIs, ChooseType DEF Good
  <2> HIDE DEF c
  <2>3. /\ v.kvs = t.kvs /\ v.buckets = t.buckets /\ v.used_limit = t.used_limit
        /\ IsTable(v)
        /\ \A s \in 0..t.buckets - 1 : v.pre[s].max = t.pre[s].max /\ v.pre[s].route = IF s = r THEN c ELSE t.pre[s].route
    <3> DEFINE n == t.buckets
               f == [t.pre EXCEPT ![r].route = c]
    <3>1. /\ t \in [buckets : {n}, used_limit : Int, kvs : [0..n - 1 -> Entry], pre : [0..n - 1 -> Byte]]
          /\ n \in Sizes /\ r \in 0..n - 1
      BY <2>2 DEF IsTable, Tables
    <3>2. v = [t EXCEPT !.pre = f]
      OBVIOUS
    <3>3. t.pre \in [0..n - 1 -> Byte]
      BY <3>1
    <3>4. /\ f \in [0..n - 1 -> Byte]
          /\ \A s \in 0..n - 1 : f[s].max = t.pre[s].max /\ f[s].route = IF s = r THEN c ELSE t.pre[s].route
      <4> DEFINE x == [t.pre[r] EXCEPT !.route = c]
      <4>1. t.pre[r] \in Byte
        BY <3>1, <3>3
      <4>2. x \in Byte /\ x.max = t.pre[r].max /\ x.route = c
        BY <4>1, <2>2 DEF Byte
      <4>3. f = [t.pre EXCEPT ![r] = x]
        OBVIOUS
      <4> HIDE DEF x, f, n, r
      <4> QED
        BY <3>1, <3>3, <4>2, <4>3
    <3> HIDE DEF f, n, r
    <3>5. /\ v.kvs = t.kvs /\ v.buckets = t.buckets /\ v.used_limit = t.used_limit /\ v.pre = f
          /\ v \in [buckets : {n}, used_limit : Int, kvs : [0..n - 1 -> Entry], pre : [0..n - 1 -> Byte]]
      BY <3>1, <3>2, <3>4
    <3> QED
      BY <3>1, <3>4, <3>5 DEF IsTable, Tables, n
  <2> HIDE DEF v
  <2>4. Used(v) = Used(t)
    BY <2>3 DEF Used
  <2>5. \A x \in Obj : PIdx(v, x) = PIdx(t, x) /\ PIdx(t, x) \in 0..t.buckets - 1 /\ Idx(v, x) = Idx(t, x)
    BY <2>2, <2>3, HomeIs DEF PIdx, Idx, Routes
  <2>6. \A p \in Used(t) : t.kvs[p].key \in Obj /\ PIdx(t, t.kvs[p].key) # r
    <3>1. \A p \in Used(t) : t.kvs[p].key \in Obj
      BY <2>2, TableIs
    <3>2. \A p \in Used(t) : Route(t, t.kvs[p].key) # 0
      BY DEF Good, RoutesKnown
    <3> QED
      BY <1>2, <3>1, <3>2 DEF Route
  <2>7. \A p \in Used(t) : Route(v, t.kvs[p].key) = Route(t, t.kvs[p].key) /\ HomePos(v, t.kvs[p].key) = HomePos(t, t.kvs[p].key)
    BY <2>3, <2>5, <2>6 DEF Route, HomePos
  <2>8. \A p \in Used(t) : SlotPsl(v, p) = SlotPsl(t, p) /\ Longest(v, t.kvs[p].key) = Longest(t, t.kvs[p].key)
    BY <2>3, <2>5, <2>6, <2>7 DEF SlotPsl, Distance, Longest
  <2>9. Route(v, o) # 0
    BY <2>2, <2>3, <2>5 DEF Route
  <2>10. RoutesKnown(v) /\ Within(v) /\ Once(v) /\ Valued(v) /\ Counted(v)
    BY <2>3, <2>4, <2>7, <2>8 DEF Good, RoutesKnown, Within, Once, Valued, Counted
  <2>11. Robin(v, g)
    <3> SUFFICES ASSUME NEW p \in Used(t) PROVE Passed(v, t.kvs[p].key, SlotPsl(t, p), g)
      BY <2>3, <2>4, <2>8 DEF Robin
    <3>1. Passed(t, t.kvs[p].key, SlotPsl(t, p), g)
      BY DEF Good, Robin
    <3>2. \A x, y : Distance(v, x, y) = Distance(t, x, y)
      BY <2>3 DEF Distance
    <3> QED
      BY <3>1, <3>2, <2>3, <2>4, <2>7, <2>8 DEF Passed
  <2> QED
    BY <2>1, <2>3, <2>4, <2>9, <2>10, <2>11 DEF Good
<1> QED
  BY <1>1, <1>2

-----------------------------------------------------------------------------
(* Lookup *)

\* The slots that hold a key, and the pairs of a table.
Holds(t, o) == {p \in Used(t) : KeyCmp(t.kvs[p].key, o)}

\* The first slot of a set of probe distances is at one of them.
LEMMA FirstSlotIs ==
  ASSUME NEW t, NEW o, NEW D, D \subseteq Nat
  PROVE  IF D = {} THEN FirstSlot(t, o, D) = -1
         ELSE \E d \in D : FirstSlot(t, o, D) = Probed(t, o, d)
<1> DEFINE first == CHOOSE d \in D : \A e \in D : d <= e
<1>1. CASE D # {}
  <2>1. \E d \in D : \A e \in D : d <= e
    BY <1>1, LeastNat
  <2>2. first \in D
    BY <2>1
  <2>3. FirstSlot(t, o, D) = Probed(t, o, first)
    BY <1>1 DEF FirstSlot
  <2> HIDE DEF first
  <2> QED
    BY <1>1, <2>2, <2>3
<1>2. CASE D = {}
  BY <1>2 DEF FirstSlot
<1> QED
  BY <1>1, <1>2

\* Every place that a probe comes to is a slot.
LEMMA ProbedIs ==
  ASSUME setup \in Setups, NEW t, IsTable(t), NEW o \in Obj
  PROVE  /\ \A d \in Nat : Probed(t, o, d) \in 0..t.buckets - 1
         /\ \A d \in 0..t.buckets - 1 : Distance(t, HomePos(t, o), Probed(t, o, d)) = d
<1>1. t.buckets \in Nat /\ t.buckets > 0 /\ HomePos(t, o) \in 0..t.buckets - 1
  BY TableIs, HomeIs
<1>2. \A d \in Nat : Probed(t, o, d) \in 0..t.buckets - 1
  BY <1>1, Remainder DEF Probed, Ahead
<1> QED
  BY <1>1, <1>2, AheadDistance DEF Probed

\* What a slot that holds a key says of a probe for it.
LEMMA HeldIs ==
  ASSUME setup \in Setups, NEW t, NEW g, Good(t, g), NEW o \in Obj, NEW p \in Holds(t, o)
  PROVE  /\ p \in Used(t) /\ SlotPsl(t, p) \in 0..t.buckets - 1
         /\ Probed(t, o, SlotPsl(t, p)) = p
         /\ PIdx(t, t.kvs[p].key) = PIdx(t, o) /\ HomePos(t, t.kvs[p].key) = HomePos(t, o)
         /\ Route(t, o) # 0
         /\ Longest(t, o) = PslMax \/ SlotPsl(t, p) <= Longest(t, o)
         /\ Passed(t, o, SlotPsl(t, p), g)
<1> DEFINE k == t.kvs[p].key
<1>1. IsTable(t) /\ p \in Used(t) /\ k \in Obj /\ KeyCmp(k, o)
  BY TableIs DEF Holds, Good
<1>2. Lo[k] = Lo[o] /\ Hi[k] = Hi[o]
  BY <1>1, SameHash
<1>3. PIdx(t, k) = PIdx(t, o)
  BY <1>2 DEF PIdx
<1>4. HomePos(t, k) = HomePos(t, o)
  BY <1>2, <1>3 DEF HomePos, Idx
<1>5. /\ SlotPsl(t, p) \in 0..t.buckets - 1
      /\ Ahead(t, HomePos(t, k), SlotPsl(t, p)) = p
  BY <1>1, PslIs
<1>6. Passed(t, k, SlotPsl(t, p), g)
  BY <1>1 DEF Good, Robin
<1>7. Passed(t, o, SlotPsl(t, p), g)
  BY <1>4, <1>6 DEF Passed
<1>8. Route(t, k) # 0 /\ (Longest(t, k) = PslMax \/ SlotPsl(t, p) <= Longest(t, k))
  BY <1>1 DEF Good, RoutesKnown, Within
<1> QED
  BY <1>1, <1>3, <1>4, <1>5, <1>7, <1>8 DEF Route, Longest, Probed

\* ci_map_find_kv_inline finds a key that is there and no other, with or without
\* holes in its first four places.
LEMMA FindPtrIs ==
  ASSUME setup \in Setups, ~Ident, NEW t, NEW g \in {0, 4}, Good(t, g), NEW o \in Obj
  PROVE  /\ Holds(t, o) # {} => FindPtr(t, o) \in Holds(t, o)
         /\ Holds(t, o) = {} => FindPtr(t, o) = -1
<1> DEFINE max == t.pre[PIdx(t, o)].max
           span == IF max < 3 THEN 3 ELSE IF max = PslMax THEN t.buckets - 1 ELSE max
           stop(d) == max = PslMax /\ \E e \in 4..d - 1 : t.kvs[Probed(t, o, e)].key = NULL
           D == {d \in 0..span : t.kvs[Probed(t, o, d)].key = o /\ ~stop(d)}
<1>1. FindPtr(t, o) = IF t.pre[PIdx(t, o)].route = 0 THEN -1 ELSE FirstSlot(t, o, D)
  BY DEF FindPtr
<1>2. /\ IsTable(t) /\ t.buckets \in Nat /\ max \in 0..PslMax
      /\ PslMax \in Nat /\ PslMax >= 4 /\ NULL \notin Obj
  <2>1. IsTable(t)
    BY DEF Good
  <2>2. Longest(t, o) \in 0..PslMax /\ t.buckets \in Nat
    BY <2>1, ByteIs, TableIs
  <2> QED
    BY <2>1, <2>2, SetupIs DEF Longest
<1>3. span \in Int
  BY <1>2
<1>4. ASSUME NEW d \in D PROVE Probed(t, o, d) \in Holds(t, o)
  <2>1. d \in Nat /\ t.kvs[Probed(t, o, d)].key = o
    BY <1>3
  <2>2. Probed(t, o, d) \in 0..t.buckets - 1
    BY <1>2, <2>1, ProbedIs
  <2> QED
    BY <1>2, <2>1, <2>2, KeyCmpIs DEF Holds, Used
<1>5. ASSUME NEW p \in Holds(t, o) PROVE SlotPsl(t, p) \in D /\ Route(t, o) # 0
  <2> DEFINE d == SlotPsl(t, p)
  <2>1. /\ p \in Used(t) /\ d \in 0..t.buckets - 1 /\ Probed(t, o, d) = p /\ Route(t, o) # 0
        /\ max = PslMax \/ d <= max
        /\ Passed(t, o, d, g)
    BY HeldIs DEF Longest
  <2>2. t.kvs[p].key = o
    BY DEF Holds, KeyCmp
  <2>3. d \in 0..span
    BY <1>2, <2>1
  <2>4. ASSUME NEW e \in 4..d - 1 PROVE t.kvs[Probed(t, o, e)].key # NULL
    <3>1. e \in Nat /\ e \in 0..t.buckets - 1 /\ e < d /\ e >= 4
      BY <1>2, <2>1
    <3>2. Probed(t, o, e) \in 0..t.buckets - 1 /\ Distance(t, HomePos(t, o), Probed(t, o, e)) = e
      BY <1>2, <3>1, ProbedIs
    <3>3. Probed(t, o, e) \in Used(t)
      BY <2>1, <3>1, <3>2 DEF Passed
    <3> QED
      BY <3>3 DEF Used
  <2> HIDE DEF d
  <2>5. ~stop(d)
    BY <2>4
  <2> HIDE DEF stop, max, span
  <2> QED
    BY <2>1, <2>2, <2>3, <2>5 DEF d
<1>6. D \subseteq Nat
  BY <1>3
<1>7. Route(t, o) = t.pre[PIdx(t, o)].route
  BY DEF Route
<1> DEFINE H == Holds(t, o)
<1> HIDE DEF D, H
<1>8. /\ D = {} => FirstSlot(t, o, D) = -1
      /\ D # {} => \E d \in D : FirstSlot(t, o, D) = Probed(t, o, d)
  BY <1>6, FirstSlotIs
<1>9. CASE H = {}
  <2>1. D = {}
    BY <1>4, <1>9 DEF H
  <2> QED
    BY <1>1, <1>8, <1>9, <2>1 DEF H
<1>10. CASE H # {}
  <2>1. D # {} /\ Route(t, o) # 0
    BY <1>5, <1>10 DEF H
  <2> QED
    BY <1>1, <1>4, <1>7, <1>8, <1>10, <2>1 DEF H
<1> QED
  BY <1>9, <1>10 DEF H

\* ci_map_find_kv_hash finds a key that is there and no other, if there are no holes.
LEMMA FindIdentIs ==
  ASSUME setup \in Setups, NEW t, t.buckets <= 256, Good(t, 0), NEW o \in Obj
  PROVE  /\ Holds(t, o) # {} => FindIdent(t, o) \in Holds(t, o)
         /\ Holds(t, o) = {} => FindIdent(t, o) = -1
<1> DEFINE max == t.pre[PIdx(t, o)].max
           span == IF max < PslMax THEN max ELSE IF t.buckets > 256 THEN 255 ELSE t.buckets - 1
           stop(d) == \E e \in 0..d : t.kvs[Probed(t, o, e)].key = NULL
           D == {d \in 0..span : ~stop(d) /\ KeyCmp(o, t.kvs[Probed(t, o, d)].key)}
<1>1. FindIdent(t, o) = IF t.pre[PIdx(t, o)].route = 0 THEN -1 ELSE FirstSlot(t, o, D)
  BY DEF FindIdent
<1>2. /\ IsTable(t) /\ t.buckets \in Nat /\ max \in 0..PslMax
      /\ PslMax \in Nat /\ PslMax >= 4 /\ NULL \notin Obj
  <2>1. IsTable(t)
    BY DEF Good
  <2>2. Longest(t, o) \in 0..PslMax /\ t.buckets \in Nat
    BY <2>1, ByteIs, TableIs
  <2> QED
    BY <2>1, <2>2, SetupIs DEF Longest
<1>3. span \in Int
  BY <1>2
<1>4. ASSUME NEW d \in D PROVE Probed(t, o, d) \in Holds(t, o)
  <2>1. d \in Nat /\ d \in 0..d /\ ~stop(d) /\ KeyCmp(o, t.kvs[Probed(t, o, d)].key)
    BY <1>3
  <2>2. Probed(t, o, d) \in 0..t.buckets - 1
    BY <1>2, <2>1, ProbedIs
  <2>3. t.kvs[Probed(t, o, d)].key # NULL
    BY <2>1
  <2> QED
    BY <1>2, <2>1, <2>2, <2>3, KeyCmpIs DEF Holds, Used
<1>5. ASSUME NEW p \in Holds(t, o) PROVE SlotPsl(t, p) \in D /\ Route(t, o) # 0
  <2> DEFINE d == SlotPsl(t, p)
  <2>1. /\ p \in Used(t) /\ d \in 0..t.buckets - 1 /\ Probed(t, o, d) = p /\ Route(t, o) # 0
        /\ max = PslMax \/ d <= max
        /\ Passed(t, o, d, 0)
    BY HeldIs DEF Longest
  <2>2. KeyCmp(o, t.kvs[p].key)
    BY KeyCmpIs DEF Holds
  <2>3. d \in 0..span
    BY <1>2, <2>1
  <2>4. ASSUME NEW e \in 0..d PROVE t.kvs[Probed(t, o, e)].key # NULL
    <3>1. e \in Nat /\ e \in 0..t.buckets - 1 /\ e <= d
      BY <1>2, <2>1
    <3>2. Probed(t, o, e) \in 0..t.buckets - 1 /\ Distance(t, HomePos(t, o), Probed(t, o, e)) = e
      BY <1>2, <3>1, ProbedIs
    <3>3. Probed(t, o, e) \in Used(t)
      <4>1. CASE e = d
        BY <2>1, <4>1
      <4>2. CASE e < d
        BY <2>1, <3>1, <3>2, <4>2 DEF Passed
      <4> QED
        BY <3>1, <2>1, <4>1, <4>2
    <3> QED
      BY <3>3 DEF Used
  <2> HIDE DEF d
  <2>5. ~stop(d)
    BY <2>4
  <2> HIDE DEF stop, max, span
  <2> QED
    BY <2>1, <2>2, <2>3, <2>5 DEF d
<1>6. D \subseteq Nat
  BY <1>3
<1>7. Route(t, o) = t.pre[PIdx(t, o)].route
  BY DEF Route
<1> DEFINE H == Holds(t, o)
<1> HIDE DEF D, H
<1>8. /\ D = {} => FirstSlot(t, o, D) = -1
      /\ D # {} => \E d \in D : FirstSlot(t, o, D) = Probed(t, o, d)
  BY <1>6, FirstSlotIs
<1>9. CASE H = {}
  <2>1. D = {}
    BY <1>4, <1>9 DEF H
  <2> QED
    BY <1>1, <1>8, <1>9, <2>1 DEF H
<1>10. CASE H # {}
  <2>1. D # {} /\ Route(t, o) # 0
    BY <1>5, <1>10 DEF H
  <2> QED
    BY <1>1, <1>4, <1>7, <1>8, <1>10, <2>1 DEF H
<1> QED
  BY <1>9, <1>10 DEF H

\* Both lookups find a key if and only if it is in the table.
LEMMA FindIs ==
  ASSUME setup \in Setups, NEW t, NEW g \in {0, 4}, Good(t, g), NEW o \in Obj,
         Ident => g = 0 /\ t.buckets <= 256
  PROVE  /\ Holds(t, o) # {} => Find(t, o) \in Holds(t, o)
         /\ Holds(t, o) = {} => Find(t, o) = -1
<1>1. CASE Ident
  BY <1>1, FindIdentIs DEF Find
<1>2. CASE ~Ident
  BY <1>2, FindPtrIs DEF Find
<1> QED
  BY <1>1, <1>2

-----------------------------------------------------------------------------
(* Insertion *)

\* A table after a write to some of its fields.
Write(t, w, k, f) == [t EXCEPT !.used_limit = w, !.kvs = k, !.pre = f]

\* It is a table of the same size.
LEMMA WriteTable ==
  ASSUME setup \in Setups, NEW t, IsTable(t), NEW k \in [0..t.buckets - 1 -> Entry],
         NEW f \in [0..t.buckets - 1 -> Byte], NEW w \in Int
  PROVE  /\ IsTable(Write(t, w, k, f)) /\ Write(t, w, k, f).buckets = t.buckets
         /\ Write(t, w, k, f).used_limit = w /\ Write(t, w, k, f).kvs = k /\ Write(t, w, k, f).pre = f
<1> DEFINE n == t.buckets
           u == Write(t, w, k, f)
<1>1. t \in [buckets : {n}, used_limit : Int, kvs : [0..n - 1 -> Entry], pre : [0..n - 1 -> Byte]] /\ n \in Sizes
  BY DEF IsTable, Tables
<1>2. k \in [0..n - 1 -> Entry] /\ f \in [0..n - 1 -> Byte]
  OBVIOUS
<1> HIDE DEF n
<1>3. /\ u \in [buckets : {n}, used_limit : Int, kvs : [0..n - 1 -> Entry], pre : [0..n - 1 -> Byte]]
      /\ u.buckets = n /\ u.used_limit = w /\ u.kvs = k /\ u.pre = f
  BY <1>1, <1>2 DEF Write
<1> HIDE DEF u
<1>4. IsTable(u)
  BY <1>1, <1>3 DEF IsTable, Tables
<1> QED
  BY <1>3, <1>4 DEF u, n

\* The longest probe of a route covers the probe it was raised for.
Raised(t, g, o, d, u) ==
  /\ Good(u, g) /\ SameRoutes(t, u) /\ u.kvs = t.kvs /\ u.used_limit = t.used_limit
  /\ Longest(u, o) = PslMax \/ d <= Longest(u, o)
  /\ Used(u) = Used(t) /\ \A p \in Used(t) : SlotPsl(u, p) = SlotPsl(t, p)

\* Raising the longest probe of a route covers the probe and disturbs no entry.
LEMMA RaiseIs ==
  ASSUME setup \in Setups, NEW t, NEW g, Good(t, g), NEW o \in Obj, NEW d \in Nat
  PROVE  Raised(t, g, o, d, RaiseMax(t, PIdx(t, o), d))
<1> DEFINE r == PIdx(t, o)
           x == [t.pre[r] EXCEPT !.max = IF d > @ THEN (IF d > PslMax THEN PslMax ELSE d) ELSE @]
           f == [t.pre EXCEPT ![r] = x]
           u == RaiseMax(t, r, d)
<1>1. IsTable(t) /\ r \in 0..t.buckets - 1 /\ t.pre \in [0..t.buckets - 1 -> Byte] /\ t.used_limit \in Int
      /\ t.kvs \in [0..t.buckets - 1 -> Entry]
  BY HomeIs, TableIs DEF Good
<1>2. PslMax \in Nat
  BY SetupIs
<1>3. t.pre[r] \in Byte
  BY <1>1
<1>4. /\ x \in Byte /\ x.route = t.pre[r].route /\ x.max >= t.pre[r].max
      /\ x.max = PslMax \/ d <= x.max
  BY <1>2, <1>3 DEF Byte
<1> HIDE DEF x, r
<1>5. f \in [0..t.buckets - 1 -> Byte]
  BY <1>1, <1>4
<1>6. u = [t EXCEPT !.pre = f]
  BY DEF RaiseMax, x
<1>7. u = Write(t, t.used_limit, t.kvs, f)
  BY <1>1, <1>6 DEF IsTable, Tables, Write
<1>8. IsTable(u) /\ u.buckets = t.buckets /\ u.used_limit = t.used_limit /\ u.kvs = t.kvs /\ u.pre = f
  <2> HIDE DEF u, f
  <2> QED
    BY <1>1, <1>5, <1>7, WriteTable
<1> HIDE DEF u
<1>9. \A s \in 0..t.buckets - 1 : t.pre[s] \in Byte /\ u.pre[s].route = t.pre[s].route /\ u.pre[s].max >= t.pre[s].max
  <2> SUFFICES ASSUME NEW s \in 0..t.buckets - 1
               PROVE  t.pre[s] \in Byte /\ u.pre[s].route = t.pre[s].route /\ u.pre[s].max >= t.pre[s].max
    OBVIOUS
  <2>1. u.pre[s] = IF s = r THEN x ELSE t.pre[s]
    BY <1>1, <1>8
  <2>2. t.pre[s] \in Byte
    BY <1>1
  <2>3. t.pre[s].max \in Int
    BY <1>2, <2>2 DEF Byte
  <2> QED
    BY <1>4, <2>1, <2>2, <2>3
<1>10. SameRoutes(t, u)
  BY <1>8, <1>9 DEF SameRoutes
<1>11. Good(u, g) /\ Used(u) = Used(t) /\ \A p \in Used(t) : SlotPsl(u, p) = SlotPsl(t, p)
  BY <1>8, <1>9, <1>10, RaisedGood
<1>12. PIdx(u, o) = r
  BY <1>1, <1>10, SameHomes DEF r
<1>13. Longest(u, o) = x.max
  BY <1>1, <1>8, <1>12 DEF Longest
<1> QED
  BY <1>4, <1>8, <1>10, <1>11, <1>13 DEF u, r, Raised

\* Cardinalities of the slots in use.
LEMMA UsedFinite ==
  ASSUME setup \in Setups, NEW t, IsTable(t)
  PROVE  IsFiniteSet(Used(t)) /\ Cardinality(Used(t)) \in Nat
<1>1. t.buckets \in Nat
  BY TableIs
<1>2. IsFiniteSet(0..t.buckets - 1)
  BY <1>1, FS_Interval
<1>3. Used(t) \in SUBSET (0..t.buckets - 1)
  BY DEF Used
<1> QED
  BY <1>2, <1>3, FS_Subset, FS_CardinalityType

\* A table within its limit has an empty slot.
LEMMA HasEmpty ==
  ASSUME setup \in Setups, NEW t, IsTable(t), Counted(t)
  PROVE  \E p \in 0..t.buckets - 1 : p \notin Used(t)
<1> SUFFICES ASSUME \A p \in 0..t.buckets - 1 : p \in Used(t) PROVE FALSE
  OBVIOUS
<1>1. t.buckets \in Nat /\ t.buckets > 0 /\ t.used_limit \in Int
  BY TableIs
<1>2. Used(t) = 0..t.buckets - 1
  BY DEF Used
<1>3. Cardinality(0..t.buckets - 1) = t.buckets
  BY <1>1, FS_Interval
<1>4. Cardinality(Used(t)) = Limit(t.buckets) - t.used_limit /\ t.used_limit >= 0
  BY DEF Counted
<1>5. Limit(t.buckets) < t.buckets
  BY <1>1 DEF Limit
<1>6. Limit(t.buckets) \in Nat
  BY <1>1 DEF Limit
<1> QED
  BY <1>1, <1>2, <1>3, <1>4, <1>5, <1>6

\* The pair of o and v may be put into slot pos: it is not in the table, and
\* takes an empty slot or that of an entry closer to its home.
Fits(t, g, o, v, pos, w) ==
  LET d == Distance(t, HomePos(t, o), pos)
  IN  /\ o \in Obj /\ v \in Val \ {NULL} /\ pos \in 0..t.buckets - 1 /\ w \in Int
      /\ Route(t, o) # 0 /\ Holds(t, o) = {} /\ Passed(t, o, d, g)
      /\ Longest(t, o) = PslMax \/ d <= Longest(t, o)
      /\ IF pos \in Used(t) THEN w = t.used_limit /\ SlotPsl(t, pos) < d
         ELSE t.used_limit > 0 /\ w = t.used_limit - 1

Place(t, o, v, pos, w) == Write(t, w, [t.kvs EXCEPT ![pos] = [key |-> o, val |-> v]], t.pre)

\* What the table is after the pair is put there.
LEMMA PlaceIs ==
  ASSUME setup \in Setups, NEW t, NEW g \in {0, 4}, Good(t, g), NEW o, NEW v, NEW pos, NEW w, Fits(t, g, o, v, pos, w)
  PROVE  /\ IsTable(Place(t, o, v, pos, w)) /\ SameRoutes(t, Place(t, o, v, pos, w))
         /\ Place(t, o, v, pos, w).used_limit = w /\ Place(t, o, v, pos, w).pre = t.pre
         /\ \A q \in 0..t.buckets - 1 : Place(t, o, v, pos, w).kvs[q] = IF q = pos THEN [key |-> o, val |-> v] ELSE t.kvs[q]
         /\ Used(Place(t, o, v, pos, w)) = Used(t) \union {pos}
         /\ \A q \in Used(t) \union {pos} :
              SlotPsl(Place(t, o, v, pos, w), q) = IF q = pos THEN Distance(t, HomePos(t, o), pos) ELSE SlotPsl(t, q)
<1> DEFINE k == [t.kvs EXCEPT ![pos] = [key |-> o, val |-> v]]
           u == Place(t, o, v, pos, w)
<1>1. /\ o \in Obj /\ v \in Val \ {NULL} /\ pos \in 0..t.buckets - 1 /\ w \in Int
  BY DEF Fits
<1>2. IsTable(t) /\ t.kvs \in [0..t.buckets - 1 -> Entry] /\ t.pre \in [0..t.buckets - 1 -> Byte] /\ NULL \notin Obj
  BY TableIs, SetupIs DEF Good
<1>3. k \in [0..t.buckets - 1 -> Entry]
  BY <1>1, <1>2 DEF Entry
<1>4. IsTable(u) /\ u.buckets = t.buckets /\ u.used_limit = w /\ u.kvs = k /\ u.pre = t.pre
  <2> HIDE DEF k
  <2>1. u = Write(t, w, k, t.pre)
    BY DEF Place, k
  <2> HIDE DEF u
  <2> QED
    BY <1>1, <1>2, <1>3, <2>1, WriteTable
<1> HIDE DEF u
<1>5. \A q \in 0..t.buckets - 1 : u.kvs[q] = IF q = pos THEN [key |-> o, val |-> v] ELSE t.kvs[q]
  BY <1>1, <1>2, <1>4
<1>6. SameRoutes(t, u)
  BY <1>4 DEF SameRoutes
<1>7. Used(u) = Used(t) \union {pos}
  <2>1. \A q \in 0..t.buckets - 1 : u.kvs[q].key = IF q = pos THEN o ELSE t.kvs[q].key
    BY <1>5
  <2> HIDE DEF k
  <2> QED
    BY <1>1, <1>2, <1>4, <2>1 DEF Used
<1>8. ASSUME NEW q \in Used(t) \union {pos}
      PROVE  SlotPsl(u, q) = IF q = pos THEN Distance(t, HomePos(t, o), pos) ELSE SlotPsl(t, q)
  <2>1. q \in 0..t.buckets - 1 /\ (q # pos => t.kvs[q].key \in Obj)
    BY <1>1, <1>2, TableIs
  <2>2. /\ \A x \in Obj : HomePos(u, x) = HomePos(t, x)
        /\ \A x, y : Distance(u, x, y) = Distance(t, x, y)
    BY <1>2, <1>6, SameHomes
  <2>3. u.kvs[q].key = IF q = pos THEN o ELSE t.kvs[q].key
    BY <1>5, <2>1
  <2> QED
    BY <1>1, <2>1, <2>2, <2>3 DEF SlotPsl
<1> HIDE DEF k
<1> QED
  BY <1>4, <1>5, <1>6, <1>7, <1>8 DEF u

\* Putting a pair into a slot that it fits keeps the table good.
LEMMA PlaceGood ==
  ASSUME setup \in Setups, NEW t, NEW g \in {0, 4}, Good(t, g), NEW o, NEW v, NEW pos, NEW w, Fits(t, g, o, v, pos, w)
  PROVE  Good(Place(t, o, v, pos, w), g)
<1> DEFINE u == Place(t, o, v, pos, w)
           h == HomePos(t, o)
           d == Distance(t, h, pos)
<1>1. /\ o \in Obj /\ v \in Val \ {NULL} /\ pos \in 0..t.buckets - 1 /\ w \in Int
      /\ Route(t, o) # 0 /\ Holds(t, o) = {} /\ Passed(t, o, d, g)
      /\ Longest(t, o) = PslMax \/ d <= Longest(t, o)
      /\ IF pos \in Used(t) THEN w = t.used_limit /\ SlotPsl(t, pos) < d
         ELSE t.used_limit > 0 /\ w = t.used_limit - 1
  BY DEF Fits
<1>2. /\ IsTable(u) /\ SameRoutes(t, u) /\ u.used_limit = w /\ u.pre = t.pre /\ u.buckets = t.buckets
      /\ \A q \in 0..t.buckets - 1 : u.kvs[q] = IF q = pos THEN [key |-> o, val |-> v] ELSE t.kvs[q]
      /\ Used(u) = Used(t) \union {pos}
      /\ \A q \in Used(t) \union {pos} : SlotPsl(u, q) = IF q = pos THEN d ELSE SlotPsl(t, q)
  BY PlaceIs DEF SameRoutes
<1> HIDE DEF u
<1>3. IsTable(t) /\ t.buckets \in Nat /\ t.buckets > 0 /\ h \in 0..t.buckets - 1
  BY <1>1, TableIs, HomeIs DEF Good
<1>4. /\ \A x \in Obj : PIdx(u, x) = PIdx(t, x) /\ HomePos(u, x) = HomePos(t, x) /\ Route(u, x) = Route(t, x)
      /\ \A x, y : Distance(u, x, y) = Distance(t, x, y)
  BY <1>2, <1>3, SameHomes
<1>5. \A x \in Obj : Longest(u, x) = Longest(t, x)
  BY <1>2, <1>4 DEF Longest
<1>6. /\ u.kvs[pos].key = o /\ u.kvs[pos].val = v
      /\ \A q \in Used(t) : q \in 0..t.buckets - 1 /\ t.kvs[q].key \in Obj /\ (q # pos => u.kvs[q] = t.kvs[q])
  <2>1. u.kvs[pos] = [key |-> o, val |-> v]
    BY <1>1, <1>2
  <2>2. \A q \in Used(t) : q \in 0..t.buckets - 1 /\ t.kvs[q].key \in Obj
    BY <1>3, TableIs
  <2>3. \A q \in Used(t) : q # pos => u.kvs[q] = t.kvs[q]
    BY <1>2, <2>2
  <2> QED
    BY <2>1, <2>2, <2>3
<1>7. d \in 0..t.buckets - 1 /\ \A q \in Used(t) : SlotPsl(t, q) \in 0..t.buckets - 1
  BY <1>1, <1>3, AheadDistance, PslIs
<1>8. RoutesKnown(u)
  BY <1>1, <1>2, <1>4, <1>6 DEF RoutesKnown, Good
<1>9. Within(u)
  <2> SUFFICES ASSUME NEW p \in Used(t) \union {pos}, Longest(u, u.kvs[p].key) # PslMax
               PROVE  SlotPsl(u, p) <= Longest(u, u.kvs[p].key)
    BY <1>2 DEF Within
  <2>1. CASE p = pos
    BY <2>1, <1>1, <1>2, <1>5, <1>6
  <2>2. CASE p # pos
    BY <2>2, <1>2, <1>5, <1>6 DEF Good, Within
  <2> QED
    BY <2>1, <2>2
<1>10. \A x \in Obj : \A e \in Int : Passed(t, x, e, g) => Passed(u, x, e, g)
  <2> SUFFICES ASSUME NEW x \in Obj, NEW e \in Int, Passed(t, x, e, g), NEW q \in 0..t.buckets - 1,
                      Distance(t, HomePos(t, x), q) < e
               PROVE  /\ Distance(t, HomePos(t, x), q) >= g => q \in Used(u)
                      /\ Distance(t, HomePos(t, x), q) >= 4 => q \in Used(u) /\ SlotPsl(u, q) >= Distance(t, HomePos(t, x), q)
    BY <1>2, <1>4 DEF Passed
  <2> DEFINE f == Distance(t, HomePos(t, x), q)
  <2>1. /\ f >= g => q \in Used(t)
        /\ f >= 4 => q \in Used(t) /\ SlotPsl(t, q) >= f
    BY DEF Passed
  <2>2. f \in Int
    BY <1>3, HomeIs, AheadDistance
  <2>3. q \in Used(t) => SlotPsl(u, q) >= SlotPsl(t, q)
    BY <1>1, <1>2, <1>7
  <2>4. q \in Used(t) => SlotPsl(t, q) \in Int /\ SlotPsl(u, q) \in Int
    BY <1>1, <1>2, <1>7
  <2> HIDE DEF f
  <2> QED
    BY <1>2, <2>1, <2>2, <2>3, <2>4 DEF f
<1>11. Robin(u, g)
  <2> SUFFICES ASSUME NEW p \in Used(t) \union {pos} PROVE Passed(u, u.kvs[p].key, SlotPsl(u, p), g)
    BY <1>2 DEF Robin
  <2>1. CASE p = pos
    BY <2>1, <1>1, <1>2, <1>6, <1>7, <1>10
  <2>2. CASE p # pos
    BY <2>2, <1>2, <1>6, <1>7, <1>10 DEF Good, Robin
  <2> QED
    BY <2>1, <2>2
<1>12. Once(u)
  <2>1. \A q \in Used(t) : ~KeyCmp(t.kvs[q].key, o) /\ ~KeyCmp(o, t.kvs[q].key)
    BY <1>1, KeyCmpIs DEF Holds
  <2> QED
    BY <1>2, <1>6, <2>1 DEF Once, Good
<1>13. Valued(u)
  BY <1>1, <1>2, <1>6 DEF Valued, Good
<1>14. Counted(u)
  <2>1. IsFiniteSet(Used(t)) /\ Cardinality(Used(t)) \in Nat
    BY <1>3, UsedFinite
  <2>2. Cardinality(Used(u)) = IF pos \in Used(t) THEN Cardinality(Used(t)) ELSE Cardinality(Used(t)) + 1
    BY <1>2, <2>1, FS_AddElement
  <2>3. t.used_limit \in Int /\ Limit(t.buckets) \in Int
    BY <1>3, TableIs DEF Limit
  <2>4. t.used_limit >= 0 /\ Cardinality(Used(t)) = Limit(t.buckets) - t.used_limit
    BY DEF Good, Counted
  <2> QED
    BY <1>1, <1>2, <2>1, <2>2, <2>3, <2>4 DEF Counted
<1> QED
  BY <1>2, <1>8, <1>9, <1>11, <1>12, <1>13, <1>14 DEF Good, u

\* One place further on.
LEMMA NextPlace ==
  ASSUME NEW t, t.buckets \in Nat, t.buckets > 0, NEW h \in 0..t.buckets - 1, NEW p \in 0..t.buckets - 1
  PROVE  /\ \A i \in 1..t.buckets - 1 : Ahead(t, h, i) = Ahead(t, Ahead(t, h, i - 1), 1)
         /\ Distance(t, h, p) < t.buckets - 1 => Distance(t, h, Ahead(t, p, 1)) = Distance(t, h, p) + 1
         /\ Ahead(t, p, 1) \in 0..t.buckets - 1
<1> DEFINE b == t.buckets
<1>1. ASSUME NEW i \in 1..b - 1 PROVE Ahead(t, h, i) = Ahead(t, Ahead(t, h, i - 1), 1)
  <2>1. i \in 0..b /\ i - 1 \in 0..b /\ 1 \in 0..b
    OBVIOUS
  <2>2. Ahead(t, h, i) = IF h + i < b THEN h + i ELSE h + i - b
    BY <2>1, AheadIs
  <2>3. Ahead(t, h, i - 1) = IF h + (i - 1) < b THEN h + (i - 1) ELSE h + (i - 1) - b
    BY <2>1, AheadIs
  <2>4. Ahead(t, h, i - 1) \in 0..b - 1
    BY <2>3
  <2>5. Ahead(t, Ahead(t, h, i - 1), 1) = IF Ahead(t, h, i - 1) + 1 < b THEN Ahead(t, h, i - 1) + 1 ELSE Ahead(t, h, i - 1) + 1 - b
    BY <2>1, <2>4, AheadIs
  <2> QED
    BY <2>2, <2>3, <2>5
<1>2. Ahead(t, p, 1) = IF p + 1 < b THEN p + 1 ELSE p + 1 - b
  BY AheadIs
<1>3. Ahead(t, p, 1) \in 0..b - 1
  BY <1>2
<1>4. Distance(t, h, p) = IF h <= p THEN p - h ELSE p - h + b
  BY DistanceIs
<1>5. Distance(t, h, Ahead(t, p, 1)) = IF h <= Ahead(t, p, 1) THEN Ahead(t, p, 1) - h ELSE Ahead(t, p, 1) - h + b
  BY <1>3, DistanceIs
<1>6. Distance(t, h, p) < b - 1 => Distance(t, h, Ahead(t, p, 1)) = Distance(t, h, p) + 1
  BY <1>2, <1>4, <1>5
<1> QED
  BY <1>1, <1>3, <1>6

\* A pair that has gone past an entry at least as far from its home has gone one place further.
LEMMA PassedNext ==
  ASSUME setup \in Setups, NEW t, IsTable(t), NEW o \in Obj, NEW g \in {0, 4}, NEW q \in Used(t), NEW d,
         d = Distance(t, HomePos(t, o), q), Passed(t, o, d, g), d >= 4 => SlotPsl(t, q) >= d
  PROVE  Passed(t, o, d + 1, g)
<1> DEFINE h == HomePos(t, o)
<1>1. t.buckets \in Nat /\ t.buckets > 0 /\ h \in 0..t.buckets - 1 /\ q \in 0..t.buckets - 1
  BY TableIs, HomeIs
<1>2. SUFFICES ASSUME NEW x \in 0..t.buckets - 1, Distance(t, h, x) < d + 1
               PROVE  /\ Distance(t, h, x) >= g => x \in Used(t)
                      /\ Distance(t, h, x) >= 4 => x \in Used(t) /\ SlotPsl(t, x) >= Distance(t, h, x)
  BY DEF Passed
<1>3. d \in 0..t.buckets - 1 /\ Distance(t, h, x) \in 0..t.buckets - 1
  BY <1>1, AheadDistance
<1>4. CASE Distance(t, h, x) = d
  <2>1. x = q
    BY <1>1, <1>4, AheadDistance
  <2> QED
    BY <1>4, <2>1
<1>5. CASE Distance(t, h, x) < d
  BY <1>5 DEF Passed
<1> QED
  BY <1>2, <1>3, <1>4, <1>5

Has(t, k, x) == \E p \in Used(t) : t.kvs[p].key = k /\ t.kvs[p].val = x

Cursors(b) == [t : Tables(b), key : Obj, val : Val, psl : Nat, done : BOOLEAN]

\* The pair in hand before the i-th probe for the key o, value v, in a table t.
Carried(t, g, o, v, i, s) ==
  /\ ~s.done /\ Good(s.t, g) /\ SameRoutes(t, s.t) /\ Used(s.t) = Used(t) /\ s.t.used_limit = t.used_limit
  /\ s.key \in Obj /\ s.val \in Val \ {NULL} /\ Holds(s.t, s.key) = {} /\ Route(s.t, s.key) # 0
  /\ s.psl \in 0..i /\ i < t.buckets
  /\ s.psl = Distance(t, HomePos(s.t, s.key), Ahead(t, HomePos(t, o), i))
  /\ Passed(s.t, s.key, s.psl, g)
  /\ \A j \in 0..i - 1 : Ahead(t, HomePos(t, o), j) \in Used(t)
  /\ \A k, x : Has(s.t, k, x) \/ (k = s.key /\ x = s.val) <=> Has(t, k, x) \/ (k = o /\ x = v)

\* The table u is t with the pair.
Inserted(t, g, o, v, u) ==
  /\ Good(u, g) /\ u.buckets = t.buckets /\ u.used_limit = t.used_limit - 1
  /\ \A k, x : Has(u, k, x) <=> Has(t, k, x) \/ (k = o /\ x = v)

Settled(t, g, o, v, s) == s.done /\ Inserted(t, g, o, v, s.t)

\* The two ways to write a table in the loop.
LEMMA StoredIs ==
  ASSUME setup \in Setups, NEW s, NEW pos, NEW w, w = RaiseMax(s.t, PIdx(s.t, s.key), s.psl), IsTable(w)
  PROVE  /\ Stored(s, pos) = Place(w, s.key, s.val, pos, w.used_limit)
         /\ [Stored(s, pos) EXCEPT !.used_limit = @ - 1] = Place(w, s.key, s.val, pos, w.used_limit - 1)
<1> DEFINE n == w.buckets
           k == [w.kvs EXCEPT ![pos] = [key |-> s.key, val |-> s.val]]
<1>1. w \in [buckets : {n}, used_limit : Int, kvs : [0..n - 1 -> Entry], pre : [0..n - 1 -> Byte]]
  BY DEF IsTable, Tables
<1> HIDE DEF n
<1>2. Stored(s, pos) = [w EXCEPT !.kvs = k]
  BY <1>1 DEF Stored
<1> HIDE DEF k
<1>3. /\ [w EXCEPT !.kvs = k] = Write(w, w.used_limit, k, w.pre)
      /\ [[w EXCEPT !.kvs = k] EXCEPT !.used_limit = @ - 1] = Write(w, w.used_limit - 1, k, w.pre)
  BY <1>1 DEF Write
<1> QED
  BY <1>2, <1>3 DEF Place, k

\* The cases of a probe.
LEMMA ProbeForms ==
  ASSUME NEW s, NEW pos, NEW robin
  PROVE  /\ s.done => Probe(s, pos, robin) = s
         /\ ~s.done /\ s.t.kvs[pos].key = NULL =>
              Probe(s, pos, robin) = Cursor([Stored(s, pos) EXCEPT !.used_limit = @ - 1], s.key, s.val, s.psl, TRUE)
         /\ ~s.done /\ s.t.kvs[pos].key # NULL /\ s.t.kvs[pos].key = s.key =>
              Probe(s, pos, robin) = Cursor([s.t EXCEPT !.kvs[pos].val = s.val], s.key, s.val, s.psl, TRUE)
         /\ ~s.done /\ s.t.kvs[pos].key \notin {NULL, s.key} /\ robin /\ SlotPsl(s.t, pos) < s.psl =>
              Probe(s, pos, robin) = Cursor(Stored(s, pos), s.t.kvs[pos].key, s.t.kvs[pos].val, SlotPsl(s.t, pos) + 1, FALSE)
         /\ ~s.done /\ s.t.kvs[pos].key \notin {NULL, s.key} /\ ~(robin /\ SlotPsl(s.t, pos) < s.psl) =>
              Probe(s, pos, robin) = Cursor(s.t, s.key, s.val, s.psl + 1, FALSE)
BY DEF Probe

\* Where a probe is, and that it does not come to the end of the table.
At(t, o, i, s, pos) ==
  /\ IsTable(t) /\ IsTable(s.t) /\ s.t.buckets = t.buckets /\ pos \in 0..t.buckets - 1
  /\ s.psl \in Nat /\ s.psl <= i /\ s.psl = Distance(s.t, HomePos(s.t, s.key), pos)
  /\ pos \in Used(t) => /\ i + 1 < t.buckets
                        /\ \A j \in 0..i : Ahead(t, HomePos(t, o), j) \in Used(t)
                        /\ Ahead(t, HomePos(t, o), i + 1) = Ahead(t, pos, 1)

\* A probe of a pair that is carried is at such a place.
LEMMA CarriedAt ==
  ASSUME setup \in Setups, NEW t, NEW g \in {0, 4}, Good(t, g), NEW o \in Obj, NEW v, NEW i \in Nat, NEW s,
         Carried(t, g, o, v, i, s), NEW pos, pos = Ahead(t, HomePos(t, o), i)
  PROVE  At(t, o, i, s, pos)
<1> DEFINE h == HomePos(t, o)
<1>1. /\ IsTable(t) /\ IsTable(s.t) /\ SameRoutes(t, s.t)
  BY DEF Carried, Good
<1>2. t.buckets \in Nat /\ t.buckets > 0 /\ h \in 0..t.buckets - 1 /\ i < t.buckets /\ s.t.buckets = t.buckets
  BY <1>1, TableIs, HomeIs DEF Carried, SameRoutes
<1>3. i \in 0..t.buckets - 1
  BY <1>2
<1>4. pos \in 0..t.buckets - 1
  BY <1>2, <1>3, AheadDistance
<1>5. s.psl \in Nat /\ s.psl <= i
  BY DEF Carried
<1>6. s.psl = Distance(s.t, HomePos(s.t, s.key), pos)
  BY <1>1, SameHomes DEF Carried
<1>7. ASSUME pos \in Used(t)
      PROVE  /\ i + 1 < t.buckets
             /\ \A j \in 0..i : Ahead(t, h, j) \in Used(t)
             /\ Ahead(t, h, i + 1) = Ahead(t, pos, 1)
  <2>1. \A j \in 0..i : Ahead(t, h, j) \in Used(t)
    BY <1>7 DEF Carried
  <2>2. PICK q \in 0..t.buckets - 1 : q \notin Used(t)
    BY <1>1, HasEmpty DEF Good
  <2>3. Distance(t, h, q) \in 0..t.buckets - 1 /\ Ahead(t, h, Distance(t, h, q)) = q
    BY <1>2, AheadDistance
  <2>4. Distance(t, h, q) > i
    BY <2>1, <2>2, <2>3
  <2>5. i + 1 < t.buckets
    BY <1>2, <2>3, <2>4
  <2>6. i + 1 \in 1..t.buckets - 1 /\ (i + 1) - 1 = i
    BY <1>2, <2>5
  <2>7. Ahead(t, h, i + 1) = Ahead(t, Ahead(t, h, (i + 1) - 1), 1)
    BY <1>2, <2>6, NextPlace
  <2> QED
    BY <2>1, <2>5, <2>6, <2>7
<1> QED
  BY <1>1, <1>2, <1>4, <1>5, <1>6, <1>7 DEF At

\* The probe of an empty slot ends the loop with the pair in the table.
LEMMA ProbeEmpty ==
  ASSUME setup \in Setups, NEW t, NEW g \in {0, 4}, Good(t, g), t.used_limit > 0, NEW o \in Obj, NEW v, NEW i \in Nat,
         NEW s \in Cursors(t.buckets), Carried(t, g, o, v, i, s), NEW pos, pos = Ahead(t, HomePos(t, o), i),
         pos \notin Used(t), NEW robin
  PROVE  Settled(t, g, o, v, Probe(s, pos, robin)) /\ Probe(s, pos, robin) \in Cursors(t.buckets)
<1> DEFINE u == s.t
           d == s.psl
           w == RaiseMax(u, PIdx(u, s.key), d)
           y == Place(w, s.key, s.val, pos, w.used_limit - 1)
           z == Probe(s, pos, robin)
<1>1. /\ IsTable(t) /\ IsTable(u) /\ u.buckets = t.buckets /\ pos \in 0..t.buckets - 1
      /\ d \in Nat /\ d = Distance(u, HomePos(u, s.key), pos)
  <2>1. At(t, o, i, s, pos)
    BY CarriedAt
  <2> QED
    BY <2>1 DEF At
<1>2. /\ ~s.done /\ Good(u, g) /\ Used(u) = Used(t) /\ u.used_limit = t.used_limit
      /\ s.key \in Obj /\ s.val \in Val \ {NULL} /\ Holds(u, s.key) = {} /\ Route(u, s.key) # 0
      /\ Passed(u, s.key, d, g)
      /\ \A k, x : Has(u, k, x) \/ (k = s.key /\ x = s.val) <=> Has(t, k, x) \/ (k = o /\ x = v)
  BY DEF Carried
<1>3. /\ Good(w, g) /\ SameRoutes(u, w) /\ w.kvs = u.kvs /\ w.used_limit = u.used_limit
      /\ Longest(w, s.key) = PslMax \/ d <= Longest(w, s.key)
      /\ Used(w) = Used(u) /\ \A p \in Used(u) : SlotPsl(w, p) = SlotPsl(u, p)
  <2>1. Raised(u, g, s.key, d, w)
    <3> HIDE DEF u, d
    <3> QED
      BY <1>1, <1>2, RaiseIs
  <2> HIDE DEF u, w
  <2> QED
    BY <2>1 DEF Raised
<1>4. u.kvs[pos].key = NULL
  BY <1>1, <1>2 DEF Used
<1>5. z = Cursor(y, s.key, s.val, d, TRUE)
  <2>1. z = Cursor([Stored(s, pos) EXCEPT !.used_limit = @ - 1], s.key, s.val, s.psl, TRUE)
    BY <1>2, <1>4, ProbeForms
  <2>2. w = RaiseMax(s.t, PIdx(s.t, s.key), s.psl) /\ IsTable(w)
    BY <1>3 DEF Good
  <2> HIDE DEF w, z
  <2>3. [Stored(s, pos) EXCEPT !.used_limit = @ - 1] = Place(w, s.key, s.val, pos, w.used_limit - 1)
    BY <2>2, StoredIs
  <2> QED
    BY <2>1, <2>3
<1> HIDE DEF z, w, u, d
<1>7. /\ \A x \in Obj : HomePos(w, x) = HomePos(u, x) /\ Route(w, x) = Route(u, x)
      /\ \A x, q : Distance(w, x, q) = Distance(u, x, q)
      /\ w.buckets = u.buckets
  BY <1>1, <1>3, SameHomes DEF SameRoutes
<1>8. Fits(w, g, s.key, s.val, pos, w.used_limit - 1)
  <2>1. w.used_limit \in Int
    BY <1>3, TableIs DEF Good
  <2>2. Passed(w, s.key, d, g)
    BY <1>2, <1>3, <1>7 DEF Passed
  <2>3. Holds(w, s.key) = {}
    BY <1>2, <1>3 DEF Holds
  <2> QED
    BY <1>1, <1>2, <1>3, <1>7, <2>1, <2>2, <2>3 DEF Fits
<1>9. Good(y, g)
  BY <1>3, <1>8, PlaceGood
<1>10. /\ y.buckets = w.buckets /\ y.used_limit = w.used_limit - 1 /\ Used(y) = Used(w) \union {pos}
       /\ \A q \in 0..w.buckets - 1 : y.kvs[q] = IF q = pos THEN [key |-> s.key, val |-> s.val] ELSE w.kvs[q]
  BY <1>3, <1>8, PlaceIs DEF SameRoutes
<1> HIDE DEF y
<1>11. \A k, x : Has(y, k, x) <=> Has(t, k, x) \/ (k = o /\ x = v)
  <2>1. \A q \in Used(u) : q # pos /\ y.kvs[q] = u.kvs[q]
    <3>1. \A q \in Used(u) : q \in 0..u.buckets - 1
      BY DEF Used
    <3> QED
      BY <1>2, <1>3, <1>7, <1>10, <3>1
  <2>2. y.kvs[pos].key = s.key /\ y.kvs[pos].val = s.val
    BY <1>1, <1>7, <1>10
  <2>3. \A k, x : Has(y, k, x) <=> Has(u, k, x) \/ (k = s.key /\ x = s.val)
    BY <1>3, <1>10, <2>1, <2>2 DEF Has
  <2> QED
    BY <1>2, <2>3
<1>12. y \in Tables(t.buckets)
  BY <1>1, <1>7, <1>9, <1>10 DEF Good, IsTable
<1>13. z.done /\ z.t = y /\ z \in Cursors(t.buckets)
  BY <1>1, <1>2, <1>5, <1>12 DEF Cursors, Cursor
<1>14. y.buckets = t.buckets /\ y.used_limit = t.used_limit - 1
  BY <1>1, <1>2, <1>3, <1>7, <1>10
<1> QED
  BY <1>9, <1>11, <1>13, <1>14 DEF Settled, Inserted, z

\* The probe of a slot in use that is not displaced.
LEMMA ProbePast ==
  ASSUME setup \in Setups, NEW t, NEW g \in {0, 4}, Good(t, g), NEW o \in Obj, NEW v, NEW i \in Nat,
         NEW s \in Cursors(t.buckets), Carried(t, g, o, v, i, s), NEW pos, pos = Ahead(t, HomePos(t, o), i),
         pos \in Used(t), ~(i >= 4 /\ SlotPsl(s.t, pos) < s.psl)
  PROVE  Carried(t, g, o, v, i + 1, Probe(s, pos, i >= 4)) /\ Probe(s, pos, i >= 4) \in Cursors(t.buckets)
<1> DEFINE u == s.t
           d == s.psl
           h == HomePos(u, s.key)
           z == Probe(s, pos, i >= 4)
<1>1. /\ IsTable(t) /\ IsTable(u) /\ u.buckets = t.buckets /\ pos \in 0..t.buckets - 1
      /\ d \in Nat /\ d <= i /\ d = Distance(u, h, pos)
      /\ i + 1 < t.buckets
      /\ \A j \in 0..i : Ahead(t, HomePos(t, o), j) \in Used(t)
      /\ Ahead(t, HomePos(t, o), i + 1) = Ahead(t, pos, 1)
  <2>1. At(t, o, i, s, pos)
    BY CarriedAt
  <2> QED
    BY <2>1 DEF At
<1>2. /\ ~s.done /\ Good(u, g) /\ SameRoutes(t, u) /\ Used(u) = Used(t) /\ u.used_limit = t.used_limit
      /\ s.key \in Obj /\ s.val \in Val \ {NULL} /\ Holds(u, s.key) = {} /\ Route(u, s.key) # 0
      /\ Passed(u, s.key, d, g)
      /\ \A k, x : Has(u, k, x) \/ (k = s.key /\ x = s.val) <=> Has(t, k, x) \/ (k = o /\ x = v)
  BY DEF Carried
<1>3. u.kvs[pos].key \notin {NULL, s.key}
  BY <1>2, KeyCmpIs DEF Used, Holds
<1>4. z = Cursor(u, s.key, s.val, d + 1, FALSE)
  BY <1>2, <1>3, ProbeForms
<1> HIDE DEF z
<1>5. z.t = u /\ z.key = s.key /\ z.val = s.val /\ z.psl = d + 1 /\ z.done = FALSE
  BY <1>4 DEF Cursor
<1>6. z \in Cursors(t.buckets)
  BY <1>1, <1>2, <1>4 DEF Cursors, Cursor
<1> HIDE DEF u, d, h
<1>7. h \in 0..t.buckets - 1 /\ t.buckets \in Nat /\ t.buckets > 0
  BY <1>1, <1>2, HomeIs, TableIs DEF h
<1>8. Passed(u, s.key, d + 1, g)
  <2>1. SlotPsl(u, pos) \in Nat
    BY <1>1, <1>2, PslIs
  <2>2. d >= 4 => SlotPsl(u, pos) >= d
    BY <1>1, <2>1 DEF u, d
  <2> QED
    BY <1>1, <1>2, <2>2, PassedNext DEF h
<1>9. d + 1 = Distance(t, h, Ahead(t, pos, 1))
  <2>1. Distance(t, h, pos) = d
    BY <1>1, <1>2, SameHomes
  <2> QED
    BY <1>1, <1>7, <2>1, NextPlace
<1>10. z.psl \in 0..i + 1
  BY <1>1, <1>5
<1>11. \A j \in 0..(i + 1) - 1 : Ahead(t, HomePos(t, o), j) \in Used(t)
  BY <1>1
<1> QED
  BY <1>1, <1>2, <1>5, <1>6, <1>8, <1>9, <1>10, <1>11 DEF Carried, h, z

\* The probe of a slot whose entry is displaced.
LEMMA ProbeSwap ==
  ASSUME setup \in Setups, NEW t, NEW g \in {0, 4}, Good(t, g), NEW o \in Obj, NEW v, NEW i \in Nat,
         NEW s \in Cursors(t.buckets), Carried(t, g, o, v, i, s), NEW pos, pos = Ahead(t, HomePos(t, o), i),
         pos \in Used(t), i >= 4, SlotPsl(s.t, pos) < s.psl
  PROVE  Carried(t, g, o, v, i + 1, Probe(s, pos, i >= 4)) /\ Probe(s, pos, i >= 4) \in Cursors(t.buckets)
<1> DEFINE u == s.t
           d == s.psl
           k == u.kvs[pos].key
           c == u.kvs[pos].val
           e == SlotPsl(u, pos)
           w == RaiseMax(u, PIdx(u, s.key), d)
           y == Place(w, s.key, s.val, pos, w.used_limit)
           z == Probe(s, pos, i >= 4)
<1>1. /\ IsTable(t) /\ IsTable(u) /\ u.buckets = t.buckets /\ pos \in 0..t.buckets - 1
      /\ d \in Nat /\ d <= i /\ d = Distance(u, HomePos(u, s.key), pos)
      /\ i + 1 < t.buckets
      /\ \A j \in 0..i : Ahead(t, HomePos(t, o), j) \in Used(t)
      /\ Ahead(t, HomePos(t, o), i + 1) = Ahead(t, pos, 1)
  <2>1. At(t, o, i, s, pos)
    BY CarriedAt
  <2> QED
    BY <2>1 DEF At
<1>2. /\ ~s.done /\ Good(u, g) /\ SameRoutes(t, u) /\ Used(u) = Used(t) /\ u.used_limit = t.used_limit
      /\ s.key \in Obj /\ s.val \in Val \ {NULL} /\ Holds(u, s.key) = {} /\ Route(u, s.key) # 0
      /\ Passed(u, s.key, d, g)
      /\ \A a, x : Has(u, a, x) \/ (a = s.key /\ x = s.val) <=> Has(t, a, x) \/ (a = o /\ x = v)
  BY DEF Carried
<1>3. k \notin {NULL, s.key}
  BY <1>2, KeyCmpIs DEF Used, Holds
<1>4. /\ Good(w, g) /\ SameRoutes(u, w) /\ w.kvs = u.kvs /\ w.used_limit = u.used_limit
      /\ Longest(w, s.key) = PslMax \/ d <= Longest(w, s.key)
      /\ Used(w) = Used(u) /\ \A p \in Used(u) : SlotPsl(w, p) = SlotPsl(u, p)
  <2>1. Raised(u, g, s.key, d, w)
    <3> HIDE DEF u, d
    <3> QED
      BY <1>1, <1>2, RaiseIs
  <2> HIDE DEF u, w
  <2> QED
    BY <2>1 DEF Raised
<1>5. z = Cursor(y, k, c, e + 1, FALSE)
  <2>1. z = Cursor(Stored(s, pos), s.t.kvs[pos].key, s.t.kvs[pos].val, SlotPsl(s.t, pos) + 1, FALSE)
    BY <1>2, <1>3, ProbeForms
  <2>2. w = RaiseMax(s.t, PIdx(s.t, s.key), s.psl) /\ IsTable(w)
    BY <1>4 DEF Good
  <2>3. Stored(s, pos) = Place(w, s.key, s.val, pos, w.used_limit)
    <3> HIDE DEF w, z
    <3>1. /\ Stored(s, pos) = Place(w, s.key, s.val, pos, w.used_limit)
          /\ [Stored(s, pos) EXCEPT !.used_limit = @ - 1] = Place(w, s.key, s.val, pos, w.used_limit - 1)
      BY <2>2, StoredIs
    <3> QED
      BY <3>1
  <2> QED
    BY <2>1, <2>3
<1> HIDE DEF z, w, u, d
<1>6. /\ \A x \in Obj : HomePos(w, x) = HomePos(u, x) /\ Route(w, x) = Route(u, x)
      /\ \A x, q : Distance(w, x, q) = Distance(u, x, q)
      /\ w.buckets = u.buckets
  BY <1>1, <1>4, SameHomes DEF SameRoutes
<1>7. Fits(w, g, s.key, s.val, pos, w.used_limit)
  <2>1. w.used_limit \in Int
    BY <1>4, TableIs DEF Good
  <2>2. Passed(w, s.key, d, g)
    BY <1>2, <1>4, <1>6 DEF Passed
  <2>3. Holds(w, s.key) = {}
    BY <1>2, <1>4 DEF Holds
  <2>4. pos \in Used(w) /\ SlotPsl(w, pos) < d
    BY <1>2, <1>4 DEF u, d
  <2> QED
    BY <1>1, <1>2, <1>4, <1>6, <2>1, <2>2, <2>3, <2>4 DEF Fits
<1>8. Good(y, g)
  BY <1>4, <1>7, PlaceGood
<1>9. /\ y.buckets = w.buckets /\ y.used_limit = w.used_limit /\ Used(y) = Used(w) \union {pos}
      /\ SameRoutes(w, y)
      /\ \A q \in 0..w.buckets - 1 : y.kvs[q] = IF q = pos THEN [key |-> s.key, val |-> s.val] ELSE w.kvs[q]
      /\ \A q \in Used(w) \union {pos} : SlotPsl(y, q) = IF q = pos THEN Distance(w, HomePos(w, s.key), pos) ELSE SlotPsl(w, q)
  BY <1>4, <1>7, PlaceIs DEF SameRoutes
<1> HIDE DEF y
<1>10. /\ Used(y) = Used(t) /\ y.buckets = t.buckets /\ y.used_limit = t.used_limit /\ SameRoutes(t, y)
       /\ y.kvs[pos].key = s.key /\ y.kvs[pos].val = s.val
       /\ \A q \in Used(t) : q # pos => y.kvs[q] = u.kvs[q]
       /\ \A q \in Used(t) : SlotPsl(y, q) = IF q = pos THEN d ELSE SlotPsl(u, q)
  <2>1. \A q \in Used(t) : q \in 0..w.buckets - 1
    BY <1>1, <1>6 DEF Used
  <2>2. SameRoutes(t, y)
    BY <1>2, <1>4, <1>6, <1>9 DEF SameRoutes
  <2> QED
    BY <1>1, <1>2, <1>4, <1>6, <1>9, <2>1, <2>2
<1>11. /\ k \in Obj /\ c \in Val \ {NULL} /\ e \in 0..t.buckets - 1 /\ Route(u, k) # 0
       /\ e = Distance(u, HomePos(u, k), pos) /\ Passed(u, k, e, g)
  <2>1. pos \in Used(u)
    BY <1>2
  <2>2. k \in Obj /\ c \in Val \union {NULL}
    BY <1>1, <2>1, TableIs
  <2>3. c # NULL /\ Route(u, k) # 0 /\ Passed(u, k, e, g)
    BY <1>2, <2>1 DEF Good, Valued, RoutesKnown, Robin
  <2>4. e \in 0..t.buckets - 1 /\ e = Distance(u, HomePos(u, k), pos)
    BY <1>1, <2>1, PslIs
  <2> QED
    BY <2>2, <2>3, <2>4
<1>12. e < d
  BY DEF u, d
<1>13. /\ HomePos(y, k) = HomePos(u, k) /\ HomePos(y, k) = HomePos(t, k) /\ Route(y, k) # 0
       /\ \A x, q : Distance(y, x, q) = Distance(u, x, q) /\ Distance(y, x, q) = Distance(t, x, q)
  <2>1. \A x \in Obj : HomePos(y, x) = HomePos(t, x) /\ Route(y, x) = Route(t, x) /\ HomePos(u, x) = HomePos(t, x) /\ Route(u, x) = Route(t, x)
    BY <1>1, <1>2, <1>10, SameHomes
  <2>2. \A x, q : Distance(y, x, q) = Distance(t, x, q) /\ Distance(u, x, q) = Distance(t, x, q)
    BY <1>1, <1>2, <1>10, SameHomes
  <2> HIDE DEF k
  <2> QED
    BY <1>11, <2>1, <2>2
<1>14. Holds(y, k) = {}
  <2> SUFFICES ASSUME NEW q \in Used(t), KeyCmp(y.kvs[q].key, k) PROVE FALSE
    BY <1>10 DEF Holds
  <2>1. CASE q = pos
    <3>1. KeyCmp(k, s.key)
      BY <2>1, <1>10, KeyCmpIs
    <3>2. pos \in Used(u)
      BY <1>2
    <3> QED
      BY <1>2, <3>1, <3>2 DEF Holds
  <2>2. CASE q # pos
    <3>1. KeyCmp(u.kvs[q].key, u.kvs[pos].key) /\ q \in Used(u) /\ pos \in Used(u)
      BY <1>2, <1>10, <2>2
    <3> QED
      BY <1>2, <2>2, <3>1 DEF Good, Once
  <2> QED
    BY <2>1, <2>2
<1> HIDE DEF k, c, e
<1>15. Passed(y, k, e + 1, g)
  <2>1. IsTable(y) /\ pos \in Used(y)
    BY <1>8, <1>10 DEF Good
  <2>2. Passed(y, k, e, g)
    <3> SUFFICES ASSUME NEW q \in 0..t.buckets - 1, Distance(u, HomePos(u, k), q) < e
                 PROVE  /\ Distance(u, HomePos(u, k), q) >= g => q \in Used(y)
                        /\ Distance(u, HomePos(u, k), q) >= 4 => q \in Used(y) /\ SlotPsl(y, q) >= Distance(u, HomePos(u, k), q)
      BY <1>10, <1>13 DEF Passed
    <3>1. /\ Distance(u, HomePos(u, k), q) >= g => q \in Used(t)
          /\ Distance(u, HomePos(u, k), q) >= 4 => q \in Used(t) /\ SlotPsl(u, q) >= Distance(u, HomePos(u, k), q)
      BY <1>1, <1>2, <1>11 DEF Passed
    <3>2. q # pos
      BY <1>11
    <3> QED
      BY <1>10, <3>1, <3>2
  <2>3. e >= 4 => SlotPsl(y, pos) >= e
    BY <1>1, <1>10, <1>11, <1>12
  <2>4. e = Distance(y, HomePos(y, k), pos)
    BY <1>11, <1>13
  <2> QED
    BY <1>11, <2>1, <2>2, <2>3, <2>4, PassedNext
<1>16. e + 1 = Distance(t, HomePos(y, k), Ahead(t, pos, 1)) /\ e + 1 \in 0..i + 1
  <2>1. Distance(t, HomePos(y, k), pos) = e
    BY <1>11, <1>13
  <2>2. HomePos(y, k) \in 0..t.buckets - 1 /\ t.buckets \in Nat /\ t.buckets > 0
    BY <1>1, <1>11, <1>13, HomeIs, TableIs
  <2>3. e < t.buckets - 1 /\ e + 1 \in 0..i + 1
    BY <1>1, <1>11, <1>12, <2>2
  <2> QED
    BY <1>1, <2>1, <2>2, <2>3, NextPlace
<1>17. \A a, x : Has(y, a, x) \/ (a = k /\ x = c) <=> Has(t, a, x) \/ (a = o /\ x = v)
  <2>1. pos \in Used(u) /\ u.kvs[pos].key = k /\ u.kvs[pos].val = c
    BY <1>2 DEF k, c
  <2>2. \A a, x : Has(y, a, x) \/ (a = k /\ x = c) <=> Has(u, a, x) \/ (a = s.key /\ x = s.val)
    BY <1>2, <1>10, <2>1 DEF Has
  <2> QED
    BY <1>2, <2>2
<1>18. z.t = y /\ z.key = k /\ z.val = c /\ z.psl = e + 1 /\ z.done = FALSE
  BY <1>5 DEF Cursor
<1>19. z \in Cursors(t.buckets)
  <2>1. y \in Tables(t.buckets)
    BY <1>8, <1>10 DEF Good, IsTable
  <2> QED
    BY <1>5, <1>11, <2>1 DEF Cursors, Cursor
<1>20. \A j \in 0..(i + 1) - 1 : Ahead(t, HomePos(t, o), j) \in Used(t)
  BY <1>1
<1> QED
  BY <1>1, <1>8, <1>10, <1>11, <1>13, <1>14, <1>15, <1>16, <1>17, <1>18, <1>19, <1>20 DEF Carried, z

\* The loop of an insertion: what its start has and its probes keep, it has at its end.
Loop(t, o, v) ==
  CHOOSE f : f = [i \in 0..t.buckets |->
                    IF i = 0 THEN Cursor(t, o, v, 0, FALSE) ELSE Probe(f[i - 1], Ahead(t, HomePos(t, o), i - 1), i > 4)]

\* The recursive function has such values, and what its probes keep holds at its end.
LEMMA LoopIs ==
  ASSUME NEW t, t.buckets \in Nat, NEW o, NEW v, NEW S, Cursor(t, o, v, 0, FALSE) \in S[0],
         \A i \in 1..t.buckets : \A s \in S[i - 1] : Probe(s, Ahead(t, HomePos(t, o), i - 1), i > 4) \in S[i]
  PROVE  Loop(t, o, v)[t.buckets] \in S[t.buckets]
<1> DEFINE b == t.buckets
           X == UNION {S[i] : i \in 0..b}
           step(i, s) == Probe(s, Ahead(t, HomePos(t, o), i - 1), i > 4)
           start == Cursor(t, o, v, 0, FALSE)
           g == [p \in (1..b) \X X |-> step(p[1], p[2])]
           P(f) == f = [i \in 0..b |-> IF i = 0 THEN start ELSE step(i, f[i - 1])]
           L == CHOOSE f : P(f)
<1>1. start \in S[0] /\ \A i \in 1..b : \A s \in S[i - 1] : step(i, s) \in S[i]
  OBVIOUS
<1>2. L = Loop(t, o, v)
  BY DEF Loop
<1>3. b \in Nat
  OBVIOUS
<1> HIDE DEF step, start, b
<1>4. \A i \in 1..b : \A s \in S[i - 1] : s \in X /\ g[<<i, s>>] = step(i, s)
  BY <1>3
<1>5. P(L)
  <2>1. Recursion(b, S, start, g)
    BY <1>1, <1>4 DEF Recursion
  <2> HIDE DEF g
  <2>2. PICK f : Solves(f, b, S, start, g)
    BY <1>3, <2>1, RecursiveExists
  <2> DEFINE h == [i \in 0..b |-> f[i]]
  <2>3. P(h)
    <3>1. f[0] = start /\ \A i \in 0..b : f[i] \in S[i]
      BY <2>2 DEF Solves
    <3>2. ASSUME NEW i \in 1..b PROVE f[i] = step(i, f[i - 1])
      <4>1. i - 1 \in 0..b
        BY <1>3
      <4>2. f[i - 1] \in S[i - 1] /\ f[i] = g[<<i, f[i - 1]>>]
        BY <2>2, <4>1 DEF Solves
      <4> QED
        BY <1>4, <4>2
    <3>3. \A i \in 0..b : i # 0 => i \in 1..b /\ i - 1 \in 0..b
      BY <1>3
    <3> QED
      BY <3>1, <3>2, <3>3
  <2> HIDE DEF P, h
  <2> QED
    BY <2>3, Zenon
<1> HIDE DEF L
<1>6. L[0] \in S[0]
  BY <1>1, <1>3, <1>5
<1>7. \A i \in 1..b : L[i - 1] \in S[i - 1] => L[i] \in S[i]
  <2> SUFFICES ASSUME NEW i \in 1..b, L[i - 1] \in S[i - 1] PROVE L[i] \in S[i]
    OBVIOUS
  <2>1. L[i] = step(i, L[i - 1])
    BY <1>3, <1>5
  <2> QED
    BY <1>1, <2>1
<1>8. \A i \in 0..b : L[i] \in S[i]
  BY <1>3, <1>6, <1>7, AlongInduction
<1> QED
  BY <1>2, <1>3, <1>8 DEF b

\* ci_map__insert_noresize is this loop from the home of the key.
LEMMA InsertIs ==
  ASSUME NEW t0, NEW o, NEW v
  PROVE  InsertNoResize(t0, o, v) = Loop(Routed(t0, o), o, v)[Routed(t0, o).buckets].t
BY DEF InsertNoResize, Loop

\* The pair is on its way or in the table.
Going(t, g, o, v, i, s) == s \in Cursors(t.buckets) /\ (Carried(t, g, o, v, i, s) \/ Settled(t, g, o, v, s))

\* Every probe leaves the pair on its way or in the table.
LEMMA ProbeGoing ==
  ASSUME setup \in Setups, NEW t, NEW g \in {0, 4}, Good(t, g), t.used_limit > 0, NEW o \in Obj, NEW v, NEW i \in Nat,
         NEW s, Going(t, g, o, v, i, s)
  PROVE  Going(t, g, o, v, i + 1, Probe(s, Ahead(t, HomePos(t, o), i), i >= 4))
<1> DEFINE pos == Ahead(t, HomePos(t, o), i)
           robin == i >= 4
           z == Probe(s, pos, robin)
<1>1. s \in Cursors(t.buckets)
  BY DEF Going
<1>2. CASE Settled(t, g, o, v, s)
  <2>1. z = s
    BY <1>2, ProbeForms DEF Settled
  <2> QED
    BY <1>1, <1>2, <2>1 DEF Going
<1>3. CASE Carried(t, g, o, v, i, s)
  <2>1. CASE pos \notin Used(t)
    <3>1. Settled(t, g, o, v, z) /\ z \in Cursors(t.buckets)
      <4> HIDE DEF pos, robin
      <4>1. pos = Ahead(t, HomePos(t, o), i)
        BY DEF pos
      <4> QED
        BY <1>1, <1>3, <2>1, <4>1, ProbeEmpty
    <3> QED
      BY <3>1 DEF Going
  <2>2. CASE pos \in Used(t) /\ ~(i >= 4 /\ SlotPsl(s.t, pos) < s.psl)
    <3>1. Carried(t, g, o, v, i + 1, z) /\ z \in Cursors(t.buckets)
      BY <1>1, <1>3, <2>2, ProbePast
    <3> QED
      BY <3>1 DEF Going
  <2>3. CASE pos \in Used(t) /\ i >= 4 /\ SlotPsl(s.t, pos) < s.psl
    <3>1. Carried(t, g, o, v, i + 1, z) /\ z \in Cursors(t.buckets)
      BY <1>1, <1>3, <2>3, ProbeSwap
    <3> QED
      BY <3>1 DEF Going
  <2> QED
    BY <2>1, <2>2, <2>3
<1> QED
  BY <1>2, <1>3 DEF Going

\* A key that is not there is inserted.
LEMMA InsertNew ==
  ASSUME setup \in Setups, NEW t0, NEW g \in {0, 4}, Good(t0, g), t0.used_limit > 0, NEW o \in Obj, NEW v \in Val \ {NULL},
         Holds(t0, o) = {}
  PROVE  Inserted(t0, g, o, v, InsertNoResize(t0, o, v))
<1> DEFINE t == Routed(t0, o)
           b == t.buckets
           S == [i \in 0..b |-> {s \in Cursors(b) : Going(t, g, o, v, i, s)}]
           c == Cursor(t, o, v, 0, FALSE)
<1>1. /\ Good(t, g) /\ Route(t, o) # 0 /\ t.kvs = t0.kvs /\ t.buckets = t0.buckets
      /\ t.used_limit = t0.used_limit /\ Used(t) = Used(t0)
  BY RoutedGood
<1> HIDE DEF t
<1>2. IsTable(t) /\ b \in Nat /\ b > 0 /\ HomePos(t, o) \in 0..b - 1 /\ t \in Tables(b)
  BY <1>1, TableIs, HomeIs DEF Good, IsTable
<1>3. c.t = t /\ c.key = o /\ c.val = v /\ c.psl = 0 /\ c.done = FALSE /\ c \in Cursors(b)
  BY <1>2 DEF Cursor, Cursors
<1> HIDE DEF c
<1>4. Going(t, g, o, v, 0, c)
  <2>1. Ahead(t, HomePos(t, o), 0) = HomePos(t, o)
    BY <1>2, AheadIs
  <2>2. Distance(t, HomePos(t, o), HomePos(t, o)) = 0
    BY <1>2, DistanceIs
  <2>3. Passed(t, o, 0, g)
    <3>1. \A q \in 0..b - 1 : Distance(t, HomePos(t, o), q) \in 0..b - 1
      BY <1>2, AheadDistance
    <3> QED
      BY <1>2, <3>1 DEF Passed
  <2>4. Holds(t, o) = {}
    BY <1>1 DEF Holds
  <2>5. SameRoutes(t, t)
    BY DEF SameRoutes
  <2> QED
    BY <1>1, <1>2, <1>3, <2>1, <2>2, <2>3, <2>4, <2>5 DEF Carried, Going
<1>5. c \in S[0]
  BY <1>2, <1>3, <1>4
<1>6. ASSUME NEW i \in 1..b, NEW s \in S[i - 1]
      PROVE  Probe(s, Ahead(t, HomePos(t, o), i - 1), i > 4) \in S[i]
  <2>1. i - 1 \in Nat /\ i - 1 \in 0..b /\ i \in 0..b /\ (i - 1) + 1 = i
    BY <1>2
  <2>2. Going(t, g, o, v, i - 1, s)
    BY <2>1
  <2>3. Going(t, g, o, v, (i - 1) + 1, Probe(s, Ahead(t, HomePos(t, o), i - 1), i - 1 >= 4))
    BY <1>1, <2>1, <2>2, ProbeGoing
  <2>4. (i - 1 >= 4) = (i > 4)
    OBVIOUS
  <2>5. Going(t, g, o, v, i, Probe(s, Ahead(t, HomePos(t, o), i - 1), i > 4))
    BY <2>1, <2>3, <2>4
  <2> QED
    BY <2>1, <2>5 DEF Going
<1>7. Loop(t, o, v)[b] \in S[b]
  <2> HIDE DEF S
  <2> QED
    BY <1>2, <1>5, <1>6, LoopIs DEF c
<1>8. Going(t, g, o, v, b, Loop(t, o, v)[b])
  BY <1>2, <1>7
<1>9. Settled(t, g, o, v, Loop(t, o, v)[b])
  BY <1>2, <1>8 DEF Going, Carried
<1>10. InsertNoResize(t0, o, v) = Loop(t, o, v)[b].t
  BY InsertIs DEF t
<1>11. \A k, x : Has(t, k, x) <=> Has(t0, k, x)
  BY <1>1 DEF Has
<1> QED
  BY <1>1, <1>9, <1>10, <1>11 DEF Settled, Inserted

\* A key that is there gets another value.
Replaced(t, q, v) == [t EXCEPT !.kvs[q].val = v]

\* Only that value changes.
LEMMA ReplacedIs ==
  ASSUME setup \in Setups, NEW t, NEW g, Good(t, g), NEW q \in Used(t), NEW v \in Val \ {NULL}
  PROVE  LET u == Replaced(t, q, v)
         IN  /\ IsTable(u) /\ u.buckets = t.buckets /\ u.used_limit = t.used_limit /\ u.pre = t.pre /\ Used(u) = Used(t)
             /\ \A p \in 0..t.buckets - 1 : /\ u.kvs[p].key = t.kvs[p].key
                                            /\ u.kvs[p].val = IF p = q THEN v ELSE t.kvs[p].val
<1> DEFINE x == [t.kvs[q] EXCEPT !.val = v]
           k == [t.kvs EXCEPT ![q] = x]
           u == Replaced(t, q, v)
<1>1. IsTable(t) /\ t.kvs \in [0..t.buckets - 1 -> Entry] /\ t.pre \in [0..t.buckets - 1 -> Byte]
      /\ t.used_limit \in Int /\ q \in 0..t.buckets - 1
  BY TableIs DEF Good
<1>2. t.kvs[q] \in Entry
  BY <1>1
<1>3. x \in Entry /\ x.key = t.kvs[q].key /\ x.val = v
  BY <1>2 DEF Entry
<1>4. u = [t EXCEPT !.kvs = k]
  BY DEF Replaced
<1> HIDE DEF x
<1>5. k \in [0..t.buckets - 1 -> Entry] /\ \A p \in 0..t.buckets - 1 : k[p] = IF p = q THEN x ELSE t.kvs[p]
  BY <1>1, <1>3
<1> HIDE DEF k
<1>6. u = Write(t, t.used_limit, k, t.pre)
  BY <1>1, <1>4 DEF IsTable, Tables, Write
<1> HIDE DEF u
<1>7. IsTable(u) /\ u.buckets = t.buckets /\ u.used_limit = t.used_limit /\ u.kvs = k /\ u.pre = t.pre
  BY <1>1, <1>5, <1>6, WriteTable
<1>8. \A p \in 0..t.buckets - 1 : /\ u.kvs[p].key = t.kvs[p].key
                                  /\ u.kvs[p].val = IF p = q THEN v ELSE t.kvs[p].val
  BY <1>3, <1>5, <1>7
<1>9. Used(u) = Used(t)
  BY <1>7, <1>8 DEF Used
<1> QED
  BY <1>7, <1>8, <1>9 DEF u

\* The table stays good.
LEMMA ReplacedGood ==
  ASSUME setup \in Setups, NEW t, NEW g, Good(t, g), NEW q \in Used(t), NEW v \in Val \ {NULL}
  PROVE  Good(Replaced(t, q, v), g)
<1> DEFINE u == Replaced(t, q, v)
<1>1. /\ IsTable(u) /\ u.buckets = t.buckets /\ u.used_limit = t.used_limit /\ u.pre = t.pre /\ Used(u) = Used(t)
      /\ \A p \in 0..t.buckets - 1 : /\ u.kvs[p].key = t.kvs[p].key
                                     /\ u.kvs[p].val = IF p = q THEN v ELSE t.kvs[p].val
  BY ReplacedIs
<1> HIDE DEF u
<1>2. IsTable(t) /\ SameRoutes(t, u)
  BY <1>1 DEF Good, SameRoutes
<1>3. \A p \in Used(t) : p \in 0..t.buckets - 1 /\ t.kvs[p].key \in Obj
  BY <1>2, TableIs
<1>4. /\ \A x \in Obj : PIdx(u, x) = PIdx(t, x) /\ HomePos(u, x) = HomePos(t, x) /\ Route(u, x) = Route(t, x)
      /\ \A x, y : Distance(u, x, y) = Distance(t, x, y)
  BY <1>2, SameHomes
<1>5. \A p \in Used(t) : SlotPsl(u, p) = SlotPsl(t, p) /\ Longest(u, t.kvs[p].key) = Longest(t, t.kvs[p].key)
  BY <1>1, <1>3, <1>4 DEF SlotPsl, Longest
<1>6. RoutesKnown(u) /\ Within(u) /\ Once(u) /\ Counted(u)
  BY <1>1, <1>3, <1>4, <1>5 DEF Good, RoutesKnown, Within, Once, Counted
<1>7. Valued(u)
  BY <1>1, <1>3 DEF Good, Valued
<1>8. Robin(u, g)
  <2> SUFFICES ASSUME NEW p \in Used(t) PROVE Passed(u, t.kvs[p].key, SlotPsl(t, p), g)
    BY <1>1, <1>3, <1>5 DEF Robin
  <2>1. Passed(t, t.kvs[p].key, SlotPsl(t, p), g)
    BY DEF Good, Robin
  <2> QED
    BY <2>1, <1>1, <1>3, <1>4, <1>5 DEF Passed
<1> QED
  BY <1>1, <1>6, <1>7, <1>8 DEF Good, u

\* In pointer mode an insertion finds the key that is there.
LEMMA InsertPresent ==
  ASSUME setup \in Setups, ~Ident, NEW t, Good(t, 0), NEW o \in Obj, NEW v, NEW q \in Holds(t, o)
  PROVE  InsertNoResize(t, o, v) = Replaced(t, q, v)
<1> DEFINE b == t.buckets
           h == HomePos(t, o)
           d == SlotPsl(t, q)
           before(i) == Cursor(t, o, v, i, FALSE)
           after == Cursor(Replaced(t, q, v), o, v, d, TRUE)
           S == [i \in 0..b |-> {IF i <= d THEN before(i) ELSE after}]
<1>1. /\ q \in Used(t) /\ d \in 0..b - 1 /\ Probed(t, o, d) = q /\ Route(t, o) # 0 /\ Passed(t, o, d, 0)
  BY HeldIs
<1>2. IsTable(t) /\ b \in Nat /\ b > 0 /\ h \in 0..b - 1 /\ t.kvs[q].key = o
  BY <1>1, TableIs, HomeIs DEF Good, Holds, KeyCmp
<1>3. Routed(t, o) = t
  BY <1>1 DEF Route, Routed
<1>4. ASSUME NEW i \in 1..b, i - 1 < d
      PROVE  Probe(before(i - 1), Ahead(t, h, i - 1), i > 4) = before(i)
  <2> DEFINE pos == Ahead(t, h, i - 1)
             s == before(i - 1)
  <2>1. i - 1 \in 0..b - 1 /\ (i - 1) + 1 = i
    BY <1>1, <1>2
  <2>2. pos \in 0..b - 1 /\ Distance(t, h, pos) = i - 1
    BY <1>2, <2>1, AheadDistance
  <2>3. pos # q
    <3>1. Distance(t, h, q) = d
      BY <1>1, <1>2, PslIs
    <3> QED
      BY <2>2, <3>1, <1>4
  <2>4. pos \in Used(t) /\ (i - 1 >= 4 => SlotPsl(t, pos) >= i - 1)
    <3> HIDE DEF pos, d
    <3> QED
      BY <1>1, <1>4, <2>1, <2>2 DEF Passed
  <2>5. t.kvs[pos].key \notin {NULL, o}
    BY <1>1, <1>2, <2>3, <2>4 DEF Used, Good, Once, KeyCmp
  <2>6. s.t = t /\ s.key = o /\ s.val = v /\ s.psl = i - 1 /\ s.done = FALSE
    BY DEF Cursor
  <2>7. SlotPsl(t, pos) \in Nat
    BY <1>2, <2>4, PslIs
  <2>8. ~(i > 4 /\ SlotPsl(s.t, pos) < s.psl)
    <3> HIDE DEF s, pos
    <3> QED
      BY <2>1, <2>4, <2>6, <2>7
  <2> HIDE DEF s, pos
  <2>9. Probe(s, pos, i > 4) = Cursor(s.t, s.key, s.val, s.psl + 1, FALSE)
    <3>1. ~s.done /\ s.t.kvs[pos].key \notin {NULL, s.key}
      BY <2>5, <2>6
    <3> QED
      BY <2>8, <3>1, ProbeForms, Zenon
  <2>10. Probe(s, pos, i > 4) = Cursor(t, o, v, i, FALSE)
    BY <2>1, <2>6, <2>9
  <2> QED
    BY <2>10 DEF s, pos
<1>5. ASSUME NEW i \in 1..b, i - 1 = d
      PROVE  Probe(before(i - 1), Ahead(t, h, i - 1), i > 4) = after
  <2> DEFINE s == before(i - 1)
  <2>1. Ahead(t, h, i - 1) = q
    BY <1>1, <1>5 DEF Probed
  <2>2. s.t = t /\ s.key = o /\ s.val = v /\ s.psl = d /\ s.done = FALSE
    BY <1>5 DEF Cursor
  <2>3. t.kvs[q].key # NULL
    BY <1>1 DEF Used
  <2> HIDE DEF s
  <2>4. Probe(s, q, i > 4) = Cursor([s.t EXCEPT !.kvs[q].val = s.val], s.key, s.val, s.psl, TRUE)
    BY <1>2, <2>2, <2>3, ProbeForms
  <2> QED
    BY <2>1, <2>2, <2>4 DEF s, Replaced
<1>6. ASSUME NEW i \in 1..b, i - 1 > d
      PROVE  Probe(after, Ahead(t, h, i - 1), i > 4) = after
  <2>1. after.done
    BY DEF Cursor
  <2> HIDE DEF after
  <2> QED
    BY <2>1, ProbeForms
<1> HIDE DEF h, d, before, after
<1>7. before(0) \in S[0]
  BY <1>1, <1>2
<1>8. ASSUME NEW i \in 1..b, NEW s \in S[i - 1]
      PROVE  Probe(s, Ahead(t, h, i - 1), i > 4) \in S[i]
  <2>1. i - 1 \in 0..b /\ i \in 0..b /\ d \in Int
    BY <1>1, <1>2
  <2>2. s = IF i - 1 <= d THEN before(i - 1) ELSE after
    BY <2>1
  <2>3. S[i] = {IF i <= d THEN before(i) ELSE after}
    BY <2>1
  <2> HIDE DEF S
  <2>4. CASE i - 1 < d
    BY <1>4, <2>1, <2>2, <2>3, <2>4
  <2>5. CASE i - 1 = d
    BY <1>5, <2>1, <2>2, <2>3, <2>5
  <2>6. CASE i - 1 > d
    BY <1>6, <2>1, <2>2, <2>3, <2>6
  <2> QED
    BY <2>1, <2>4, <2>5, <2>6
<1>9. Loop(t, o, v)[b] \in S[b]
  <2> HIDE DEF S
  <2> QED
    BY <1>2, <1>7, <1>8, LoopIs DEF before, h
<1>10. Loop(t, o, v)[b] = after
  BY <1>1, <1>2, <1>9
<1>11. InsertNoResize(t, o, v) = after.t
  <2> HIDE DEF b
  <2> QED
    BY <1>3, <1>10, InsertIs DEF b
<1> QED
  BY <1>11 DEF after, Cursor

-----------------------------------------------------------------------------
(* Growing *)

\* ci_map__round_up2 has a size to return.
LEMMA RoundUpIs ==
  ASSUME setup \in Setups, NEW n \in Int, n <= HashSpan
  PROVE  RoundUp(n) \in Sizes /\ RoundUp(n) >= n
<1> DEFINE B == {c \in Sizes : c >= n}
<1>1. B \subseteq Nat /\ B # {}
  BY SetupIs
<1> HIDE DEF B
<1>2. \E x \in B : \A y \in B : x <= y
  BY <1>1, LeastNat
<1>3. \E b \in Sizes : b >= n /\ \A c \in Sizes : c >= n => b <= c
  BY <1>2 DEF B
<1> QED
  BY <1>3 DEF RoundUp

\* The table of ci_map_init.
LEMMA NewMapGood ==
  ASSUME setup \in Setups, NEW b \in Sizes
  PROVE  Good(NewMap(b), 0) /\ Used(NewMap(b)) = {} /\ NewMap(b).buckets = b /\ NewMap(b).used_limit = Limit(b)
<1> DEFINE k == [p \in 0..b - 1 |-> Empty]
           f == [r \in 0..b - 1 |-> NoRoute]
           u == NewMap(b)
<1>1. b \in Nat /\ Limit(b) \in Nat /\ PslMax \in Nat
  BY SetupIs DEF Limit
<1>2. Empty \in Entry /\ Empty.key = NULL /\ NoRoute \in Byte
  BY <1>1 DEF Empty, Entry, NoRoute, Byte
<1>3. k \in [0..b - 1 -> Entry] /\ f \in [0..b - 1 -> Byte]
  BY <1>2
<1>4. \A p \in 0..b - 1 : k[p].key = NULL
  BY <1>2
<1>5. u = [buckets |-> b, used_limit |-> Limit(b), kvs |-> k, pre |-> f]
  BY DEF NewMap
<1> HIDE DEF k, f, u
<1>6. u \in Tables(b) /\ u.buckets = b /\ u.used_limit = Limit(b) /\ u.kvs = k
  BY <1>1, <1>3, <1>5 DEF Tables
<1>7. Used(u) = {}
  BY <1>4, <1>6 DEF Used
<1>8. Cardinality(Used(u)) = 0
  BY <1>7, FS_EmptySet
<1>9. Good(u, 0)
  BY <1>1, <1>6, <1>7, <1>8 DEF Good, IsTable, RoutesKnown, Within, Robin, Once, Valued, Counted
<1> QED
  BY <1>6, <1>7, <1>9 DEF u

\* The loop over the old table.
Filling(t, old) ==
  CHOOSE f : f = [i \in 0..old.buckets |->
                    IF i = 0 THEN t
                    ELSE IF old.kvs[i - 1].key = NULL \/ i <= 0 THEN f[i - 1]
                         ELSE InsertNoResize(f[i - 1], old.kvs[i - 1].key, old.kvs[i - 1].val)]

\* What its insertions keep holds at the end of the loop.
LEMMA FillingIs ==
  ASSUME NEW t, NEW old, old.buckets \in Nat, NEW S, t \in S[0],
         \A i \in 1..old.buckets : \A u \in S[i - 1] :
            (IF old.kvs[i - 1].key = NULL \/ i <= 0 THEN u ELSE InsertNoResize(u, old.kvs[i - 1].key, old.kvs[i - 1].val)) \in S[i]
  PROVE  Filling(t, old)[old.buckets] \in S[old.buckets]
<1> DEFINE b == old.buckets
           X == UNION {S[i] : i \in 0..b}
           step(i, u) == IF old.kvs[i - 1].key = NULL \/ i <= 0 THEN u
                         ELSE InsertNoResize(u, old.kvs[i - 1].key, old.kvs[i - 1].val)
           g == [p \in (1..b) \X X |-> step(p[1], p[2])]
           P(f) == f = [i \in 0..b |-> IF i = 0 THEN t ELSE step(i, f[i - 1])]
           L == CHOOSE f : P(f)
<1>1. t \in S[0] /\ \A i \in 1..b : \A s \in S[i - 1] : step(i, s) \in S[i]
  OBVIOUS
<1>2. L = Filling(t, old)
  BY DEF Filling
<1>3. b \in Nat
  OBVIOUS
<1> HIDE DEF step, b
<1>4. \A i \in 1..b : \A s \in S[i - 1] : s \in X /\ g[<<i, s>>] = step(i, s)
  BY <1>3
<1>5. P(L)
  <2>1. Recursion(b, S, t, g)
    BY <1>1, <1>4 DEF Recursion
  <2> HIDE DEF g
  <2>2. PICK f : Solves(f, b, S, t, g)
    BY <1>3, <2>1, RecursiveExists
  <2> DEFINE h == [i \in 0..b |-> f[i]]
  <2>3. P(h)
    <3>1. f[0] = t /\ \A i \in 0..b : f[i] \in S[i]
      BY <2>2 DEF Solves
    <3>2. ASSUME NEW i \in 1..b PROVE f[i] = step(i, f[i - 1])
      <4>1. i - 1 \in 0..b
        BY <1>3
      <4>2. f[i - 1] \in S[i - 1] /\ f[i] = g[<<i, f[i - 1]>>]
        BY <2>2, <4>1 DEF Solves
      <4> QED
        BY <1>4, <4>2
    <3>3. \A i \in 0..b : i # 0 => i \in 1..b /\ i - 1 \in 0..b
      BY <1>3
    <3> QED
      BY <3>1, <3>2, <3>3
  <2> HIDE DEF P, h
  <2> QED
    BY <2>3, Zenon
<1> HIDE DEF L
<1>6. L[0] \in S[0]
  BY <1>1, <1>3, <1>5
<1>7. \A i \in 1..b : L[i - 1] \in S[i - 1] => L[i] \in S[i]
  <2> SUFFICES ASSUME NEW i \in 1..b, L[i - 1] \in S[i - 1] PROVE L[i] \in S[i]
    OBVIOUS
  <2>1. L[i] = step(i, L[i - 1])
    BY <1>3, <1>5
  <2> QED
    BY <1>1, <2>1
<1>8. \A i \in 0..b : L[i] \in S[i]
  BY <1>3, <1>6, <1>7, AlongInduction
<1> QED
  BY <1>2, <1>3, <1>8 DEF b

\* The table u of b slots has the pairs that t has in its first i slots.
Front(t, i) == {p \in Used(t) : p < i}
Filled(t, b, i, u) ==
  /\ Good(u, 0) /\ u.buckets = b /\ u.used_limit = Limit(b) - Cardinality(Front(t, i))
  /\ \A k, x : Has(u, k, x) <=> \E p \in Front(t, i) : t.kvs[p].key = k /\ t.kvs[p].val = x

\* One slot more has at most one pair more.
LEMMA FrontNext ==
  ASSUME setup \in Setups, NEW t, IsTable(t), NEW i \in 1..t.buckets
  PROVE  /\ Cardinality(Front(t, i - 1)) \in Nat /\ Cardinality(Front(t, i)) <= Cardinality(Used(t))
         /\ i - 1 \notin Used(t) => Front(t, i) = Front(t, i - 1)
         /\ i - 1 \in Used(t) => /\ Front(t, i) = Front(t, i - 1) \union {i - 1}
                                 /\ Cardinality(Front(t, i)) = Cardinality(Front(t, i - 1)) + 1
<1>1. IsFiniteSet(Used(t)) /\ Cardinality(Used(t)) \in Nat /\ t.buckets \in Nat
  BY UsedFinite, TableIs
<1>2. Used(t) \subseteq 0..t.buckets - 1
  BY DEF Used
<1>3. Front(t, i) \in SUBSET Used(t) /\ Front(t, i - 1) \in SUBSET Used(t)
  BY DEF Front
<1>4. /\ IsFiniteSet(Front(t, i - 1)) /\ Cardinality(Front(t, i)) <= Cardinality(Used(t))
      /\ Cardinality(Front(t, i - 1)) \in Nat
  BY <1>1, <1>3, FS_Subset, FS_CardinalityType
<1>5. i - 1 \notin Used(t) => Front(t, i) = Front(t, i - 1)
  BY <1>1, <1>2 DEF Front
<1>6. i - 1 \in Used(t) => Front(t, i) = Front(t, i - 1) \union {i - 1} /\ i - 1 \notin Front(t, i - 1)
  BY <1>1, <1>2 DEF Front
<1>7. i - 1 \in Used(t) => Cardinality(Front(t, i)) = Cardinality(Front(t, i - 1)) + 1
  BY <1>4, <1>6, FS_AddElement
<1> QED
  BY <1>4, <1>5, <1>6, <1>7

\* A larger table takes the pairs of a smaller one.
LEMMA ReinsertedIs ==
  ASSUME setup \in Setups, NEW t, NEW g, Good(t, g), NEW b \in Sizes, Cardinality(Used(t)) <= Limit(b)
  PROVE  Filled(t, b, t.buckets, Reinserted(NewMap(b), t, 0))
<1> DEFINE n == t.buckets
           S == [i \in 0..n |-> {u \in Tables(b) : Filled(t, b, i, u)}]
<1>1. IsTable(t) /\ n \in Nat /\ b \in Nat /\ Limit(b) \in Nat /\ Cardinality(Used(t)) \in Nat
  BY TableIs, SetupIs, UsedFinite DEF Good, Limit
<1>2. \A u, i : Filled(t, b, i, u) => u \in Tables(b)
  BY DEF Filled, Good, IsTable
<1>3. Filled(t, b, 0, NewMap(b))
  <2>1. Front(t, 0) = {}
    BY <1>1, TableIs DEF Front
  <2>2. Cardinality(Front(t, 0)) = 0
    BY <2>1, FS_EmptySet
  <2> QED
    BY <1>1, <2>1, <2>2, NewMapGood DEF Filled, Has
<1>4. ASSUME NEW i \in 1..n, NEW u, Filled(t, b, i - 1, u)
      PROVE  Filled(t, b, i, IF t.kvs[i - 1].key = NULL \/ i <= 0 THEN u ELSE InsertNoResize(u, t.kvs[i - 1].key, t.kvs[i - 1].val))
  <2> DEFINE p == i - 1
             k == t.kvs[p].key
             x == t.kvs[p].val
             w == InsertNoResize(u, k, x)
  <2>1. p \in 0..n - 1 /\ ~(i <= 0)
    BY <1>1
  <2>2. CASE k = NULL
    <3>1. Front(t, i) = Front(t, i - 1)
      BY <1>1, <2>2, FrontNext DEF Used
    <3> QED
      BY <2>2, <3>1, <1>4 DEF Filled
  <2>3. CASE k # NULL
    <3>1. p \in Used(t)
      BY <2>1, <2>3 DEF Used
    <3>2. /\ Front(t, i) = Front(t, p) \union {p} /\ Cardinality(Front(t, i)) = Cardinality(Front(t, p)) + 1
          /\ Cardinality(Front(t, p)) \in Nat /\ Cardinality(Front(t, i)) <= Cardinality(Used(t))
      BY <1>1, <3>1, FrontNext
    <3>3. k \in Obj /\ x \in Val \ {NULL}
      BY <1>1, <3>1, TableIs DEF Good, Valued
    <3> HIDE DEF p, k, x
    <3>4. /\ Good(u, 0) /\ u.buckets = b /\ u.used_limit = Limit(b) - Cardinality(Front(t, p))
          /\ \A l, y : Has(u, l, y) <=> \E q \in Front(t, p) : t.kvs[q].key = l /\ t.kvs[q].val = y
      BY <1>4 DEF Filled, p
    <3>5. u.used_limit > 0
      BY <1>1, <3>2, <3>4
    <3>6. Holds(u, k) = {}
      <4> SUFFICES ASSUME NEW q \in Used(u), KeyCmp(u.kvs[q].key, k) PROVE FALSE
        BY DEF Holds
      <4>0. Has(u, u.kvs[q].key, u.kvs[q].val)
        BY DEF Has
      <4>1. PICK r \in Front(t, p) : t.kvs[r].key = u.kvs[q].key
        BY <3>4, <4>0
      <4>2. r \in Used(t) /\ r # p /\ KeyCmp(t.kvs[r].key, t.kvs[p].key)
        BY <4>1, <2>1, <3>1, <1>1, TableIs DEF Front, k
      <4> QED
        BY <3>1, <4>2 DEF Good, Once
    <3>7. Inserted(u, 0, k, x, w)
      <4> HIDE DEF w
      <4> QED
        BY <3>3, <3>4, <3>5, <3>6, InsertNew DEF w
    <3> HIDE DEF w
    <3>8. Filled(t, b, i, w)
      <4>1. Good(w, 0) /\ w.buckets = b /\ w.used_limit = Limit(b) - Cardinality(Front(t, i))
        BY <1>1, <3>2, <3>4, <3>7 DEF Inserted
      <4>2. \A l, y : Has(w, l, y) <=> \E q \in Front(t, i) : t.kvs[q].key = l /\ t.kvs[q].val = y
        BY <3>2, <3>4, <3>7 DEF Inserted, k, x
      <4> QED
        BY <4>1, <4>2 DEF Filled
    <3> QED
      BY <2>1, <2>3, <3>8 DEF w, k, x, p
  <2> QED
    BY <2>2, <2>3
<1>5. NewMap(b) \in S[0]
  BY <1>1, <1>2, <1>3
<1>6. ASSUME NEW i \in 1..n, NEW u \in S[i - 1]
      PROVE  (IF t.kvs[i - 1].key = NULL \/ i <= 0 THEN u ELSE InsertNoResize(u, t.kvs[i - 1].key, t.kvs[i - 1].val)) \in S[i]
  <2>1. i - 1 \in 0..n /\ i \in 0..n
    BY <1>1
  <2>2. Filled(t, b, i - 1, u)
    BY <2>1
  <2> DEFINE w == IF t.kvs[i - 1].key = NULL \/ i <= 0 THEN u ELSE InsertNoResize(u, t.kvs[i - 1].key, t.kvs[i - 1].val)
  <2>3. Filled(t, b, i, w)
    BY <1>4, <2>2
  <2> HIDE DEF w
  <2>4. w \in S[i]
    BY <1>2, <2>1, <2>3
  <2> QED
    BY <2>4 DEF w
<1>7. Filling(NewMap(b), t)[n] \in S[n]
  <2> HIDE DEF S
  <2> QED
    BY <1>1, <1>5, <1>6, FillingIs
<1>8. Reinserted(NewMap(b), t, 0) = Filling(NewMap(b), t)[n]
  BY DEF Reinserted, Filling
<1> QED
  BY <1>1, <1>7, <1>8

\* More buckets, a higher limit.
LEMMA LimitIs ==
  /\ \A b \in Nat : Limit(b) \in Nat
  /\ \A b, c \in Nat : b <= c => Limit(b) <= Limit(c)
  /\ \A b \in Nat : b > 0 => Limit(b) < Limit(b * 2)
  /\ \A n \in Nat : n <= Limit((n * 5) \div 4 + 1)
BY DEF Limit

\* The table u has the pairs of t and more room.
Grown(t, n, u) ==
  /\ Good(u, 0) /\ u.buckets >= n /\ u.used_limit = Limit(u.buckets) - Cardinality(Used(t))
  /\ \A k, x : Has(u, k, x) <=> Has(t, k, x)

\* ci_map__resize keeps every pair, when the new limit takes them.
LEMMA ResizeIs ==
  ASSUME setup \in Setups, NEW t, NEW g, Good(t, g), NEW n \in Nat, n <= HashSpan, Cardinality(Used(t)) <= Limit(n)
  PROVE  Grown(t, n, Resize(t, n))
<1> DEFINE b == RoundUp(n)
           u == Reinserted(NewMap(b), t, 0)
<1>1. b \in Sizes /\ b \in Nat /\ n <= b
  BY RoundUpIs, SetupIs
<1>2. IsTable(t) /\ t.buckets \in Nat /\ Cardinality(Used(t)) \in Nat
  BY TableIs, UsedFinite DEF Good
<1>3. Cardinality(Used(t)) <= Limit(b)
  BY <1>1, <1>2, LimitIs
<1> HIDE DEF b
<1>4. Filled(t, b, t.buckets, u)
  BY <1>1, <1>3, ReinsertedIs
<1>5. Front(t, t.buckets) = Used(t)
  BY <1>2 DEF Front, Used
<1>6. u = Resize(t, n)
  BY DEF Resize, b
<1> HIDE DEF u
<1> QED
  BY <1>1, <1>4, <1>5, <1>6 DEF Filled, Grown, Has

-----------------------------------------------------------------------------
(* Deletion *)

\* The backward shift stops before the n-th slot behind the hole.
Stops(t, pos, n) == LET q == Ahead(t, pos, n + 1) IN t.kvs[q].key = NULL \/ SlotPsl(t, q) = 0
Moved(t, pos) == CHOOSE n \in 0..t.buckets - 1 : Stops(t, pos, n) /\ \A k \in 0..n - 1 : ~Stops(t, pos, k)
MovedTo(t, pos, n) == n \in 0..t.buckets - 2 /\ Stops(t, pos, n) /\ \A k \in 0..n - 1 : ~Stops(t, pos, k)

\* The shift stops, at an empty slot at the latest, before it comes round.
LEMMA MovedIs ==
  ASSUME setup \in Setups, NEW t, NEW g, Good(t, g), NEW pos \in Used(t)
  PROVE  MovedTo(t, pos, Moved(t, pos))
<1> DEFINE b == t.buckets
           B == {n \in 0..b - 1 : Stops(t, pos, n)}
           least(n) == Stops(t, pos, n) /\ \A k \in 0..n - 1 : ~Stops(t, pos, k)
<1>1. IsTable(t) /\ b \in Nat /\ b > 0 /\ pos \in 0..b - 1
  BY TableIs DEF Good
<1>2. PICK q \in 0..b - 1 : q \notin Used(t)
  BY <1>1, HasEmpty DEF Good
<1> DEFINE d == Distance(t, pos, q)
<1>3. d \in 0..b - 1 /\ Ahead(t, pos, d) = q
  BY <1>1, AheadDistance
<1>4. d # 0
  <2>1. Ahead(t, pos, 0) = pos
    BY <1>1, AheadIs
  <2> QED
    BY <1>2, <1>3, <2>1
<1>5. d - 1 \in B
  <2>1. d - 1 \in 0..b - 1 /\ (d - 1) + 1 = d
    BY <1>1, <1>3, <1>4
  <2>2. t.kvs[q].key = NULL
    BY <1>2 DEF Used
  <2> HIDE DEF d
  <2>3. Stops(t, pos, d - 1)
    BY <1>3, <2>1, <2>2 DEF Stops
  <2> QED
    BY <2>1, <2>3
<1>6. B \subseteq Nat /\ B # {}
  BY <1>1, <1>5
<1>7. PICK n \in B : \A k \in B : n <= k
  BY <1>6, LeastNat
<1>8. n \in 0..b - 1 /\ least(n) /\ n <= d - 1
  BY <1>1, <1>5, <1>7
<1>9. \A j \in 0..b - 1 : least(j) => j = n
  BY <1>1, <1>8
<1> HIDE DEF least
<1>10. Moved(t, pos) = n
  BY <1>8, <1>9 DEF Moved, least
<1> QED
  BY <1>1, <1>3, <1>8, <1>10 DEF MovedTo, least

\* Where the pair of a slot comes from.
From(t, pos, n, p) == IF Distance(t, pos, p) < n THEN Ahead(t, p, 1) ELSE p

\* The slots but the last one of the shift get the pairs of all but pos.
FromAll(t, pos, n) ==
  LET S == {p \in 0..t.buckets - 1 : Distance(t, pos, p) # n}
  IN  /\ \A p \in S : /\ From(t, pos, n, p) \in (0..t.buckets - 1) \ {pos}
                      /\ Distance(t, pos, p) < n => /\ From(t, pos, n, p) \in Used(t)
                                                    /\ SlotPsl(t, From(t, pos, n, p)) > 0
      /\ \A p, q \in S : From(t, pos, n, p) = From(t, pos, n, q) => p = q
      /\ \A r \in (0..t.buckets - 1) \ {pos} : \E p \in S : From(t, pos, n, p) = r

\* The pairs that stay are moved one to one.
LEMMA FromIs ==
  ASSUME setup \in Setups, NEW t, IsTable(t), NEW pos \in 0..t.buckets - 1, NEW n, MovedTo(t, pos, n)
  PROVE  FromAll(t, pos, n)
<1> DEFINE b == t.buckets
           D(p) == Distance(t, pos, p)
           F(p) == From(t, pos, n, p)
           S == {p \in 0..b - 1 : D(p) # n}
<1>1. b \in Nat /\ b > 0 /\ n \in 0..b - 2 /\ n \in Nat
  BY TableIs DEF MovedTo
<1>2. \A p \in 0..b - 1 : D(p) \in 0..b - 1 /\ Ahead(t, pos, D(p)) = p
  BY <1>1, AheadDistance
<1>3. \A p \in 0..b - 1 : D(p) < n => F(p) \in 0..b - 1 /\ D(F(p)) = D(p) + 1
  <2> SUFFICES ASSUME NEW p \in 0..b - 1, D(p) < n PROVE F(p) \in 0..b - 1 /\ D(F(p)) = D(p) + 1
    OBVIOUS
  <2>1. D(p) < b - 1
    BY <1>1, <1>2
  <2>2. F(p) = Ahead(t, p, 1)
    BY DEF From
  <2> HIDE DEF F
  <2> QED
    BY <1>1, <2>1, <2>2, NextPlace
<1>4. \A p \in S : D(p) > n => F(p) = p
  BY <1>1, <1>2 DEF From
<1>5. D(pos) = 0
  BY <1>1, DistanceIs
<1>6. \A p \in 0..b - 1 : D(p) < n => F(p) \in Used(t) /\ SlotPsl(t, F(p)) > 0
  <2> SUFFICES ASSUME NEW p \in 0..b - 1, D(p) < n PROVE F(p) \in Used(t) /\ SlotPsl(t, F(p)) > 0
    OBVIOUS
  <2>1. D(p) \in 0..n - 1 /\ D(F(p)) = D(p) + 1 /\ F(p) \in 0..b - 1
    BY <1>1, <1>2, <1>3
  <2>2. Ahead(t, pos, D(p) + 1) = F(p)
    BY <1>2, <2>1
  <2>3. ~Stops(t, pos, D(p))
    BY <2>1 DEF MovedTo
  <2>4. t.kvs[F(p)].key # NULL /\ SlotPsl(t, F(p)) # 0
    <3> HIDE DEF D, F
    <3> QED
      BY <2>2, <2>3 DEF Stops
  <2>5. F(p) \in Used(t)
    BY <2>1, <2>4 DEF Used
  <2>6. SlotPsl(t, F(p)) \in Nat
    BY <1>1, <2>5, PslIs
  <2> QED
    BY <2>4, <2>5, <2>6
<1> HIDE DEF D, F
<1>7. \A p \in S : /\ F(p) \in (0..b - 1) \ {pos}
                   /\ D(p) < n => F(p) \in Used(t) /\ SlotPsl(t, F(p)) > 0
  BY <1>1, <1>2, <1>3, <1>4, <1>5, <1>6
<1>8. \A p, q \in S : F(p) = F(q) => p = q
  <2> SUFFICES ASSUME NEW p \in S, NEW q \in S, F(p) = F(q) PROVE p = q
    OBVIOUS
  <2>1. D(p) \in Nat /\ D(q) \in Nat /\ D(p) # n /\ D(q) # n
    BY <1>1, <1>2
  <2>2. D(F(p)) = IF D(p) < n THEN D(p) + 1 ELSE D(p)
    BY <1>1, <1>3, <1>4, <2>1
  <2>3. D(F(q)) = IF D(q) < n THEN D(q) + 1 ELSE D(q)
    BY <1>1, <1>3, <1>4, <2>1
  <2>4. D(p) = D(q)
    BY <1>1, <2>1, <2>2, <2>3
  <2> QED
    BY <1>2, <2>4
<1>9. ASSUME NEW r \in (0..b - 1) \ {pos} PROVE \E p \in S : F(p) = r
  <2>1. D(r) # 0
    BY <1>2, <1>5
  <2>2. CASE D(r) > n
    BY <1>4, <2>2, <1>1, <1>2
  <2>3. CASE D(r) <= n
    <3> DEFINE p == Ahead(t, pos, D(r) - 1)
    <3>1. D(r) - 1 \in 0..b - 1 /\ D(r) - 1 < n
      BY <1>1, <1>2, <2>1, <2>3
    <3>2. p \in 0..b - 1 /\ D(p) = D(r) - 1
      BY <1>1, <3>1, AheadDistance DEF D
    <3> HIDE DEF p
    <3>3. F(p) \in 0..b - 1 /\ D(F(p)) = D(r)
      BY <1>2, <1>3, <3>1, <3>2
    <3>4. F(p) = r
      BY <1>2, <3>3
    <3> QED
      BY <1>1, <3>1, <3>2, <3>4
  <2> QED
    BY <1>1, <1>2, <2>2, <2>3
<1> QED
  BY <1>7, <1>8, <1>9 DEF D, F, FromAll

\* The table of a backward shift of n pairs.
ShiftTo(t, pos, n) ==
  [t EXCEPT !.used_limit = @ + 1,
            !.kvs = [p \in DOMAIN @ |-> IF Distance(t, pos, p) < n THEN @[Ahead(t, p, 1)]
                                        ELSE IF Distance(t, pos, p) = n THEN Empty
                                        ELSE @[p]]]

\* The deletion is this shift, up to where it stops.
LEMMA BackShiftIs ==
  ASSUME NEW t, NEW pos
  PROVE  BackShift(t, pos) = ShiftTo(t, pos, Moved(t, pos))
BY DEF BackShift, ShiftTo, Moved, Stops

\* A slot has the pair that comes to it, one place closer to its home.
Shifted(t, pos, n, u) ==
  LET S == {p \in 0..t.buckets - 1 : Distance(t, pos, p) # n}
  IN  /\ IsTable(u) /\ u.buckets = t.buckets /\ u.used_limit = t.used_limit + 1 /\ u.pre = t.pre
      /\ \A p \in S : u.kvs[p] = t.kvs[From(t, pos, n, p)]
      /\ Used(u) = {p \in S : From(t, pos, n, p) \in Used(t)}
      /\ \A p \in Used(u) : SlotPsl(u, p) = SlotPsl(t, From(t, pos, n, p)) - (IF Distance(t, pos, p) < n THEN 1 ELSE 0)

\* What the table is after the shift.
LEMMA ShiftedIs ==
  ASSUME setup \in Setups, NEW t, IsTable(t), NEW pos \in 0..t.buckets - 1, NEW n, MovedTo(t, pos, n)
  PROVE  Shifted(t, pos, n, ShiftTo(t, pos, n))
<1> DEFINE b == t.buckets
           S == {p \in 0..b - 1 : Distance(t, pos, p) # n}
           k == [p \in 0..b - 1 |-> IF Distance(t, pos, p) < n THEN t.kvs[Ahead(t, p, 1)]
                                    ELSE IF Distance(t, pos, p) = n THEN Empty
                                    ELSE t.kvs[p]]
           F(p) == From(t, pos, n, p)
           u == ShiftTo(t, pos, n)
<1>1. /\ b \in Nat /\ b > 0 /\ t.kvs \in [0..b - 1 -> Entry] /\ t.pre \in [0..b - 1 -> Byte] /\ t.used_limit \in Int
      /\ n \in 0..b - 2
  BY TableIs DEF MovedTo
<1>2. Empty \in Entry /\ Empty.key = NULL
  BY DEF Empty, Entry
<1>3. /\ \A p \in S : F(p) \in (0..b - 1) \ {pos} /\ (Distance(t, pos, p) < n => F(p) \in Used(t) /\ SlotPsl(t, F(p)) > 0)
  BY FromIs DEF FromAll
<1>4. \A p \in 0..b - 1 : Ahead(t, p, 1) \in 0..b - 1 /\ Distance(t, pos, p) \in 0..b - 1
  BY <1>1, NextPlace, AheadDistance
<1>5. k \in [0..b - 1 -> Entry]
  BY <1>1, <1>2, <1>4
<1>6. \A p \in 0..b - 1 : k[p] = IF Distance(t, pos, p) = n THEN Empty ELSE t.kvs[F(p)]
  <2> SUFFICES ASSUME NEW p \in 0..b - 1 PROVE k[p] = IF Distance(t, pos, p) = n THEN Empty ELSE t.kvs[F(p)]
    OBVIOUS
  <2>1. Distance(t, pos, p) \in Int /\ n \in Int
    BY <1>1, <1>4
  <2>2. k[p] = IF Distance(t, pos, p) < n THEN t.kvs[Ahead(t, p, 1)]
               ELSE IF Distance(t, pos, p) = n THEN Empty
               ELSE t.kvs[p]
    OBVIOUS
  <2>3. F(p) = IF Distance(t, pos, p) < n THEN Ahead(t, p, 1) ELSE p
    BY DEF From
  <2> HIDE DEF k, F
  <2>4. CASE Distance(t, pos, p) < n
    BY <2>1, <2>2, <2>3, <2>4
  <2>5. CASE ~(Distance(t, pos, p) < n)
    BY <2>1, <2>2, <2>3, <2>5
  <2> QED
    BY <2>4, <2>5
<1>7. u = Write(t, t.used_limit + 1, k, t.pre)
  <2>1. DOMAIN t.kvs = 0..b - 1
    BY <1>1
  <2>2. u = [t EXCEPT !.used_limit = @ + 1, !.kvs = k]
    BY <2>1 DEF ShiftTo
  <2> HIDE DEF k
  <2> QED
    BY <1>1, <2>2 DEF IsTable, Tables, Write
<1> HIDE DEF k, u
<1>8. IsTable(u) /\ u.buckets = b /\ u.used_limit = t.used_limit + 1 /\ u.kvs = k /\ u.pre = t.pre
  BY <1>1, <1>5, <1>7, WriteTable
<1> HIDE DEF F
<1>9. \A p \in S : u.kvs[p] = t.kvs[F(p)]
  BY <1>6, <1>8
<1>10. Used(u) = {p \in S : F(p) \in Used(t)}
  BY <1>2, <1>3, <1>6, <1>8 DEF Used
<1>11. ASSUME NEW p \in Used(u)
       PROVE  SlotPsl(u, p) = SlotPsl(t, F(p)) - (IF Distance(t, pos, p) < n THEN 1 ELSE 0)
  <2> DEFINE o == t.kvs[F(p)].key
             h == HomePos(t, o)
  <2>1. p \in S /\ F(p) \in Used(t) /\ u.kvs[p].key = o
    BY <1>9, <1>10
  <2>2. o \in Obj /\ h \in 0..b - 1 /\ F(p) \in 0..b - 1 /\ SlotPsl(t, F(p)) = Distance(t, h, F(p))
    BY <2>1, TableIs, PslIs
  <2>3. SameRoutes(t, u)
    BY <1>8 DEF SameRoutes
  <2> HIDE DEF o
  <2>4. SlotPsl(u, p) = Distance(t, h, p)
    BY <2>1, <2>2, <2>3, SameHomes DEF SlotPsl
  <2> HIDE DEF h
  <2>5. CASE Distance(t, pos, p) < n
    <3>1. F(p) = Ahead(t, p, 1) /\ SlotPsl(t, F(p)) > 0
      BY <1>3, <2>1, <2>5 DEF F, From
    <3>2. Distance(t, h, F(p)) > 0
      BY <2>2, <3>1
    <3>3. Ahead(t, p, 1) = IF p + 1 < b THEN p + 1 ELSE p + 1 - b
      BY <1>1, <2>1, AheadIs
    <3>4. Distance(t, h, p) = IF h <= p THEN p - h ELSE p - h + b
      BY <1>1, <2>1, <2>2, DistanceIs
    <3>5. Distance(t, h, F(p)) = IF h <= F(p) THEN F(p) - h ELSE F(p) - h + b
      BY <1>1, <2>2, DistanceIs
    <3>6. Distance(t, h, p) = Distance(t, h, F(p)) - 1
      <4> DEFINE f == F(p)
      <4>1. p \in 0..b - 1 /\ h \in 0..b - 1 /\ f \in 0..b - 1 /\ b \in Nat /\ b > 0
        BY <1>1, <2>1, <2>2
      <4>2. /\ f = IF p + 1 < b THEN p + 1 ELSE p + 1 - b
            /\ (IF h <= f THEN f - h ELSE f - h + b) > 0
        BY <3>1, <3>2, <3>3, <3>5
      <4> HIDE DEF f, b
      <4>3. (IF h <= p THEN p - h ELSE p - h + b) = (IF h <= f THEN f - h ELSE f - h + b) - 1
        BY <4>1, <4>2
      <4> QED
        BY <3>4, <3>5, <4>3 DEF f
    <3> QED
      BY <2>2, <2>4, <2>5, <3>6
  <2>6. CASE ~(Distance(t, pos, p) < n)
    <3>1. F(p) = p
      BY <2>6 DEF F, From
    <3>2. Distance(t, h, p) \in Int
      BY <1>1, <2>1, <2>2, AheadDistance
    <3> QED
      BY <2>2, <2>4, <2>6, <3>1, <3>2
  <2> QED
    BY <2>5, <2>6
<1> QED
  BY <1>8, <1>9, <1>10, <1>11 DEF Shifted, F, u

\* Holes only matter from the fourth place on once a pair has been deleted.
LEMMA GoodWeaker ==
  ASSUME NEW t, NEW g \in {0, 4}, Good(t, g)
  PROVE  Good(t, 4)
BY DEF Good, Robin, Passed

\* The table u is t without the pair of slot pos.
Removed(t, pos, u) ==
  /\ Good(u, 4) /\ u.buckets = t.buckets /\ u.used_limit = t.used_limit + 1
  /\ \A k, x : Has(u, k, x) <=> Has(t, k, x) /\ k # t.kvs[pos].key

\* The shift keeps the order of the probes: where it stops, no pair behind has gone
\* past the slot that becomes empty.
LEMMA ShiftRobin ==
  ASSUME setup \in Setups, NEW t, Good(t, 4), NEW pos \in Used(t), NEW n, MovedTo(t, pos, n), NEW u, Shifted(t, pos, n, u)
  PROVE  Robin(u, 4)
<1> DEFINE b == t.buckets
           S == {p \in 0..b - 1 : Distance(t, pos, p) # n}
           F(p) == From(t, pos, n, p)
<1>1. IsTable(t) /\ b \in Nat /\ b > 0 /\ pos \in 0..b - 1 /\ n \in 0..b - 2
  BY TableIs DEF Good, MovedTo
<1>2. /\ IsTable(u) /\ u.buckets = b /\ u.used_limit = t.used_limit + 1 /\ u.pre = t.pre
      /\ \A p \in S : u.kvs[p] = t.kvs[F(p)]
      /\ Used(u) = {p \in S : F(p) \in Used(t)}
      /\ \A p \in Used(u) : SlotPsl(u, p) = SlotPsl(t, F(p)) - (IF Distance(t, pos, p) < n THEN 1 ELSE 0)
  BY DEF Shifted
<1>3. \A p \in S : F(p) \in (0..b - 1) \ {pos} /\ (Distance(t, pos, p) < n => F(p) \in Used(t) /\ SlotPsl(t, F(p)) > 0)
  BY <1>1, FromIs DEF FromAll
<1>4. SameRoutes(t, u)
  BY <1>2 DEF SameRoutes
<1>5. SUFFICES ASSUME NEW p \in Used(u) PROVE Passed(u, u.kvs[p].key, SlotPsl(u, p), 4)
  BY DEF Robin
<1> DEFINE f == F(p)
           o == t.kvs[f].key
           h == HomePos(t, o)
           d == SlotPsl(t, f)
<1>6. /\ p \in S /\ f \in Used(t) /\ f \in 0..b - 1 /\ u.kvs[p].key = o
      /\ SlotPsl(u, p) = d - (IF Distance(t, pos, p) < n THEN 1 ELSE 0)
  BY <1>2, <1>3
<1>7. o \in Obj /\ h \in 0..b - 1 /\ d = Distance(t, h, f) /\ d \in 0..b - 1 /\ Ahead(t, h, d) = f
  BY <1>1, <1>6, TableIs, PslIs
<1>8. Passed(t, o, d, 4)
  BY <1>6 DEF Good, Robin
<1>9. HomePos(u, o) = h /\ \A x, y : Distance(u, x, y) = Distance(t, x, y)
  BY <1>1, <1>4, <1>7, SameHomes
<1> HIDE DEF f, o, h, d
<1>10. SUFFICES ASSUME NEW r \in 0..b - 1, Distance(t, h, r) < SlotPsl(u, p), Distance(t, h, r) >= 4
                PROVE  r \in Used(u) /\ SlotPsl(u, r) >= Distance(t, h, r)
  <2> SUFFICES Passed(u, o, SlotPsl(u, p), 4)
    BY <1>6
  <2> QED
    BY <1>2, <1>9, <1>10 DEF Passed
<1> DEFINE e == Distance(t, h, r)
           s == Ahead(t, r, 1)
<1>11. e \in 0..b - 1 /\ e < d /\ e >= 4
  BY <1>1, <1>6, <1>7, <1>10, AheadDistance
<1>12. r \in Used(t) /\ SlotPsl(t, r) >= e
  BY <1>8, <1>11 DEF Passed, h
<1>13. s \in 0..b - 1 /\ Distance(t, h, s) = e + 1
  BY <1>1, <1>7, <1>11, NextPlace
<1> HIDE DEF e, s
<1>14. s \in Used(t) /\ SlotPsl(t, s) >= e + 1
  <2>1. CASE e + 1 < d
    <3>1. e + 1 >= 4 /\ e + 1 < d
      BY <1>11, <2>1
    <3> QED
      BY <1>8, <1>13, <3>1 DEF Passed, h
  <2>2. CASE e + 1 = d
    <3>1. s = f
      BY <1>1, <1>7, <1>13, <2>2, AheadDistance
    <3> QED
      BY <1>6, <2>2, <3>1, <1>11 DEF d
  <2> QED
    BY <1>7, <1>11, <2>1, <2>2
<1>15. Distance(t, pos, r) # n
  <2> SUFFICES ASSUME Distance(t, pos, r) = n PROVE FALSE
    OBVIOUS
  <2>1. Distance(t, pos, s) = n + 1
    BY <1>1, NextPlace DEF s
  <2>2. Ahead(t, pos, n + 1) = s
    BY <1>1, <1>13, <2>1, AheadDistance
  <2>3. t.kvs[s].key = NULL \/ SlotPsl(t, s) = 0
    BY <2>2 DEF MovedTo, Stops
  <2>4. SlotPsl(t, s) > 0
    BY <1>1, <1>11, <1>14, PslIs
  <2> QED
    BY <1>14, <2>3, <2>4 DEF Used
<1>16. CASE Distance(t, pos, r) < n
  <2>1. r \in S /\ F(r) = s
    BY <1>15, <1>16 DEF From, s
  <2> HIDE DEF S, F
  <2>2. r \in Used(u) /\ SlotPsl(u, r) = SlotPsl(t, s) - 1
    BY <1>2, <1>14, <1>16, <2>1
  <2>3. SlotPsl(t, s) \in Int
    BY <1>1, <1>14, PslIs
  <2> QED
    BY <1>11, <1>14, <2>2, <2>3 DEF e
<1>17. CASE ~(Distance(t, pos, r) < n)
  <2>1. r \in S /\ F(r) = r
    BY <1>15, <1>17 DEF From
  <2> HIDE DEF S, F
  <2>2. r \in Used(u) /\ SlotPsl(u, r) = SlotPsl(t, r) - 0
    BY <1>2, <1>12, <1>17, <2>1
  <2>3. SlotPsl(t, r) \in Int
    BY <1>1, <1>12, PslIs
  <2> QED
    BY <1>12, <2>2, <2>3 DEF e
<1> QED
  BY <1>16, <1>17

\* The shift keeps the table good.
LEMMA ShiftGood ==
  ASSUME setup \in Setups, NEW t, Good(t, 4), NEW pos \in Used(t), NEW n, MovedTo(t, pos, n), NEW u, Shifted(t, pos, n, u)
  PROVE  Removed(t, pos, u)
<1> DEFINE b == t.buckets
           S == {p \in 0..b - 1 : Distance(t, pos, p) # n}
           F(p) == From(t, pos, n, p)
<1>1. IsTable(t) /\ b \in Nat /\ b > 0 /\ pos \in 0..b - 1 /\ n \in 0..b - 2 /\ t.used_limit \in Int
  BY TableIs DEF Good, MovedTo
<1>2. /\ IsTable(u) /\ u.buckets = b /\ u.used_limit = t.used_limit + 1 /\ u.pre = t.pre
      /\ \A p \in S : u.kvs[p] = t.kvs[F(p)]
      /\ Used(u) = {p \in S : F(p) \in Used(t)}
      /\ \A p \in Used(u) : SlotPsl(u, p) = SlotPsl(t, F(p)) - (IF Distance(t, pos, p) < n THEN 1 ELSE 0)
  BY DEF Shifted
<1>3. /\ \A p \in S : F(p) \in (0..b - 1) \ {pos}
      /\ \A p, q \in S : F(p) = F(q) => p = q
      /\ \A r \in (0..b - 1) \ {pos} : \E p \in S : F(p) = r
  BY <1>1, FromIs DEF FromAll
<1>4. SameRoutes(t, u)
  BY <1>2 DEF SameRoutes
<1> HIDE DEF F, S
<1>5. \A p \in Used(u) : p \in S /\ F(p) \in Used(t) /\ u.kvs[p] = t.kvs[F(p)] /\ t.kvs[F(p)].key \in Obj
  BY <1>1, <1>2, TableIs
<1>6. \A o \in Obj : Route(u, o) = Route(t, o) /\ Longest(u, o) = Longest(t, o)
  BY <1>1, <1>2, <1>4, SameHomes DEF Longest
<1>7. RoutesKnown(u)
  BY <1>5, <1>6 DEF RoutesKnown, Good
<1>8. Within(u)
  <2> SUFFICES ASSUME NEW p \in Used(u), Longest(u, u.kvs[p].key) # PslMax
               PROVE  SlotPsl(u, p) <= Longest(u, u.kvs[p].key)
    BY DEF Within
  <2> DEFINE o == t.kvs[F(p)].key
  <2>1. F(p) \in Used(t) /\ u.kvs[p].key = o /\ o \in Obj
    BY <1>5
  <2>2. SlotPsl(t, F(p)) <= Longest(t, o)
    BY <1>6, <2>1 DEF Good, Within
  <2>3. SlotPsl(t, F(p)) \in Nat
    <3>1. SlotPsl(t, F(p)) \in 0..b - 1
      BY <1>1, <2>1, PslIs
    <3> QED
      BY <3>1
  <2>4. Longest(t, o) \in Int
    BY <1>1, <2>1, ByteIs, SetupIs
  <2>5. SlotPsl(u, p) \in Int /\ SlotPsl(u, p) <= SlotPsl(t, F(p))
    BY <1>2, <2>3
  <2> HIDE DEF o
  <2> QED
    BY <1>6, <2>1, <2>2, <2>3, <2>4, <2>5
<1>9. Once(u)
  <2> SUFFICES ASSUME NEW p \in Used(u), NEW q \in Used(u), KeyCmp(u.kvs[p].key, u.kvs[q].key) PROVE p = q
    BY DEF Once
  <2>1. F(p) = F(q)
    BY <1>5 DEF Good, Once
  <2> QED
    BY <1>3, <1>5, <2>1
<1>10. Valued(u)
  BY <1>5 DEF Good, Valued
<1>11. Counted(u)
  <2> DEFINE f == [p \in Used(u) |-> F(p)]
             T == Used(t) \ {pos}
  <2>1. IsFiniteSet(Used(t)) /\ Cardinality(Used(t)) \in Nat /\ IsFiniteSet(Used(u))
    BY <1>1, <1>2, UsedFinite
  <2>2. IsFiniteSet(T) /\ Cardinality(T) = Cardinality(Used(t)) - 1
    BY <2>1, FS_RemoveElement
  <2>3. f \in Bijection(Used(u), T)
    <3>1. \A p \in Used(u) : F(p) \in T
      BY <1>3, <1>5
    <3>2. \A p, q \in Used(u) : F(p) = F(q) => p = q
      BY <1>3, <1>5
    <3>3. \A r \in T : \E p \in Used(u) : F(p) = r
      <4> SUFFICES ASSUME NEW r \in T PROVE \E p \in Used(u) : F(p) = r
        OBVIOUS
      <4>1. r \in (0..b - 1) \ {pos} /\ r \in Used(t)
        BY DEF Used
      <4>2. PICK p \in S : F(p) = r
        BY <1>3, <4>1
      <4> QED
        BY <1>2, <4>1, <4>2
    <3> QED
      BY <3>1, <3>2, <3>3 DEF Bijection, Injection, Surjection, IsInjective
  <2>4. ExistsBijection(Used(u), T)
    BY <2>3 DEF ExistsBijection
  <2>5. Cardinality(Used(u)) = Cardinality(T)
    <3> HIDE DEF T
    <3> QED
      BY <2>1, <2>2, <2>4, FS_Bijection
  <2>6. t.used_limit >= 0 /\ Cardinality(Used(t)) = Limit(b) - t.used_limit
    BY DEF Good, Counted
  <2>7. Limit(b) \in Int
    BY <1>1 DEF Limit
  <2> QED
    BY <1>1, <1>2, <2>1, <2>2, <2>5, <2>6, <2>7 DEF Counted
<1>12. Robin(u, 4)
  BY ShiftRobin
<1>13. Good(u, 4)
  BY <1>2, <1>7, <1>8, <1>9, <1>10, <1>11, <1>12 DEF Good
<1>14. ASSUME NEW k, NEW x
       PROVE  Has(u, k, x) <=> Has(t, k, x) /\ k # t.kvs[pos].key
  <2>1. ASSUME NEW p \in Used(u), u.kvs[p].key = k, u.kvs[p].val = x
        PROVE  Has(t, k, x) /\ k # t.kvs[pos].key
    <3>1. F(p) \in Used(t) /\ F(p) # pos /\ t.kvs[F(p)].key = k /\ t.kvs[F(p)].val = x
      BY <1>3, <1>5, <2>1
    <3>2. k # t.kvs[pos].key
      BY <3>1, KeyCmpIs DEF Good, Once
    <3> QED
      BY <3>1, <3>2 DEF Has
  <2>2. ASSUME NEW r \in Used(t), t.kvs[r].key = k, t.kvs[r].val = x, k # t.kvs[pos].key
        PROVE  Has(u, k, x)
    <3>1. r \in (0..b - 1) \ {pos}
      BY <2>2 DEF Used
    <3>2. PICK p \in S : F(p) = r
      BY <1>3, <3>1
    <3>3. p \in Used(u) /\ u.kvs[p] = t.kvs[r]
      BY <1>2, <3>2
    <3> QED
      BY <2>2, <3>3 DEF Has
  <2> QED
    BY <2>1, <2>2 DEF Has
<1> QED
  BY <1>2, <1>13, <1>14 DEF Removed

\* A deletion takes the pair of its slot.
LEMMA BackShiftGood ==
  ASSUME setup \in Setups, NEW t, NEW g \in {0, 4}, Good(t, g), NEW pos \in Used(t)
  PROVE  Removed(t, pos, BackShift(t, pos))
<1> DEFINE n == Moved(t, pos)
           u == ShiftTo(t, pos, n)
<1>1. Good(t, 4) /\ IsTable(t) /\ pos \in 0..t.buckets - 1
  BY GoodWeaker, TableIs DEF Good
<1>2. MovedTo(t, pos, n)
  BY MovedIs
<1> HIDE DEF n
<1>3. Shifted(t, pos, n, u)
  BY <1>1, <1>2, ShiftedIs
<1>4. u = BackShift(t, pos)
  BY BackShiftIs DEF n
<1> HIDE DEF u
<1>5. Removed(t, pos, u)
  BY <1>1, <1>2, <1>3, ShiftGood
<1> QED
  BY <1>4, <1>5

-----------------------------------------------------------------------------
(* What the calls do *)

\* The value that a table gives for a key.
Gives(t, k, x) == \E p \in Used(t) : KeyCmp(t.kvs[p].key, k) /\ t.kvs[p].val = x

\* A set, a delete and a resize, in these terms.
SetTo(t, o, v, u) == \A k, x : Gives(u, k, x) <=> IF KeyCmp(o, k) THEN x = v ELSE Gives(t, k, x)
TakenFrom(t, o, u) == \A k, x : Gives(u, k, x) <=> ~KeyCmp(o, k) /\ Gives(t, k, x)
Alike(t, u) == \A k, x : Gives(u, k, x) <=> Gives(t, k, x)

\* A key is given the value of a pair of its content.
LEMMA GivesIs ==
  ASSUME NEW t, NEW k, NEW x
  PROVE  Gives(t, k, x) <=> \E l : KeyCmp(l, k) /\ Has(t, l, x)
BY DEF Gives, Has

\* A key that is not there is given no value.
LEMMA NotHeld ==
  ASSUME NEW t, NEW o, Holds(t, o) = {}
  PROVE  \A k, x : KeyCmp(o, k) => ~Gives(t, k, x)
BY KeyCmpIs DEF Holds, Gives

\* To insert a pair is to set its key.
LEMMA InsertedSet ==
  ASSUME NEW t, NEW g, NEW o, NEW v, NEW u, Inserted(t, g, o, v, u), Holds(t, o) = {}
  PROVE  SetTo(t, o, v, u)
<1> SUFFICES ASSUME NEW k, NEW x PROVE Gives(u, k, x) <=> IF KeyCmp(o, k) THEN x = v ELSE Gives(t, k, x)
  BY DEF SetTo
<1>1. \A l : Has(u, l, x) <=> Has(t, l, x) \/ (l = o /\ x = v)
  BY DEF Inserted
<1>2. Gives(u, k, x) <=> Gives(t, k, x) \/ (KeyCmp(o, k) /\ x = v)
  BY <1>1, GivesIs
<1> QED
  BY <1>2, NotHeld

\* To replace a value is to set its key.
LEMMA ReplacedSet ==
  ASSUME setup \in Setups, NEW t, NEW g, Good(t, g), NEW o \in Obj, NEW q \in Holds(t, o), NEW v \in Val \ {NULL}
  PROVE  SetTo(t, o, v, Replaced(t, q, v))
<1> DEFINE u == Replaced(t, q, v)
<1>1. q \in Used(t) /\ KeyCmp(t.kvs[q].key, o)
  BY DEF Holds
<1>2. /\ Used(u) = Used(t)
      /\ \A p \in 0..t.buckets - 1 : u.kvs[p].key = t.kvs[p].key /\ u.kvs[p].val = IF p = q THEN v ELSE t.kvs[p].val
  BY <1>1, ReplacedIs
<1>3. \A p \in Used(t) : p \in 0..t.buckets - 1
  BY DEF Used
<1> HIDE DEF u
<1> SUFFICES ASSUME NEW k, NEW x PROVE Gives(u, k, x) <=> IF KeyCmp(o, k) THEN x = v ELSE Gives(t, k, x)
  BY DEF SetTo, u
<1>4. CASE KeyCmp(o, k)
  <2>1. KeyCmp(t.kvs[q].key, k)
    BY <1>1, <1>4, KeyCmpIs
  <2>2. ASSUME NEW p \in Used(t), KeyCmp(t.kvs[p].key, k) PROVE p = q
    <3>1. KeyCmp(t.kvs[p].key, t.kvs[q].key)
      BY <2>1, <2>2, KeyCmpIs
    <3> QED
      BY <1>1, <3>1 DEF Good, Once
  <2> QED
    BY <1>1, <1>2, <1>3, <1>4, <2>1, <2>2 DEF Gives
<1>5. CASE ~KeyCmp(o, k)
  <2>1. ~KeyCmp(t.kvs[q].key, k)
    BY <1>1, <1>5, KeyCmpIs
  <2> QED
    BY <1>2, <1>3, <1>5, <2>1 DEF Gives
<1> QED
  BY <1>4, <1>5

\* In pointer mode to remove a pair is to take its key only.
LEMMA RemovedTaken ==
  ASSUME setup \in Setups, ~Ident, NEW t, NEW o \in Obj, NEW pos \in Holds(t, o), NEW u, Removed(t, pos, u)
  PROVE  TakenFrom(t, o, u)
<1> SUFFICES ASSUME NEW k, NEW x PROVE Gives(u, k, x) <=> ~KeyCmp(o, k) /\ Gives(t, k, x)
  BY DEF TakenFrom
<1>1. t.kvs[pos].key = o
  BY DEF Holds, KeyCmp
<1>2. \A l : Has(u, l, x) <=> Has(t, l, x) /\ l # o
  BY <1>1 DEF Removed
<1>3. \A a, c : KeyCmp(a, c) <=> a = c
  BY DEF KeyCmp
<1> QED
  BY <1>2, <1>3, GivesIs

\* A larger table gives the same values.
LEMMA GrownAlike ==
  ASSUME NEW t, NEW n, NEW u, Grown(t, n, u)
  PROVE  Alike(t, u) /\ \A o : Holds(u, o) = {} <=> Holds(t, o) = {}
<1>1. \A k, x : Has(u, k, x) <=> Has(t, k, x)
  BY DEF Grown
<1>2. Alike(t, u)
  BY <1>1, GivesIs DEF Alike
<1>3. \A w, o : Holds(w, o) = {} <=> ~\E x : Gives(w, o, x)
  BY DEF Holds, Gives
<1> QED
  BY <1>2, <1>3 DEF Alike

\* What a lookup returns.
LEMMA GetIs ==
  ASSUME setup \in Setups, NEW t, NEW g \in {0, 4}, Good(t, g), NEW o \in Obj, Ident => g = 0 /\ t.buckets <= 256
  PROVE  /\ \A x : Gives(t, o, x) => x # NULL /\ Get(t, o) = x
         /\ (\A x : ~Gives(t, o, x)) => Get(t, o) = NULL
<1>1. CASE Holds(t, o) = {}
  <2>1. Find(t, o) = -1
    BY <1>1, FindIs
  <2>2. Get(t, o) = NULL
    BY <2>1 DEF Get
  <2> QED
    BY <1>1, <2>2 DEF Gives, Holds
<1>2. CASE Holds(t, o) # {}
  <2> DEFINE f == Find(t, o)
  <2>1. f \in Holds(t, o)
    BY <1>2, FindIs
  <2> HIDE DEF f
  <2>2. f \in Used(t) /\ KeyCmp(t.kvs[f].key, o) /\ f # -1
    <3>1. f \in Used(t) /\ KeyCmp(t.kvs[f].key, o)
      BY <2>1 DEF Holds
    <3>2. IsTable(t)
      BY DEF Good
    <3>3. t.buckets \in Nat
      BY <3>2, TableIs
    <3> QED
      BY <3>1, <3>3 DEF Used
  <2>3. Get(t, o) = t.kvs[f].val
    BY <2>2 DEF Get, f
  <2>4. ASSUME NEW p \in Used(t), KeyCmp(t.kvs[p].key, o) PROVE p = f
    <3>1. KeyCmp(t.kvs[p].key, t.kvs[f].key)
      BY <2>2, <2>4, KeyCmpIs
    <3> QED
      BY <2>2, <3>1 DEF Good, Once
  <2>5. t.kvs[f].val # NULL
    BY <2>2 DEF Good, Valued
  <2> QED
    BY <2>2, <2>3, <2>4, <2>5 DEF Gives
<1> QED
  BY <1>1, <1>2

\* ci_map__insert_noresize of a key, there or not.
LEMMA InsertSets ==
  ASSUME setup \in Setups, NEW t, NEW g \in {0, 4}, Good(t, g), t.used_limit > 0, NEW o \in Obj, NEW v \in Val \ {NULL},
         Holds(t, o) # {} => ~Ident /\ g = 0
  PROVE  Good(InsertNoResize(t, o, v), g) /\ SetTo(t, o, v, InsertNoResize(t, o, v))
<1>1. CASE Holds(t, o) = {}
  <2>1. Inserted(t, g, o, v, InsertNoResize(t, o, v))
    BY <1>1, InsertNew
  <2> QED
    BY <1>1, <2>1, InsertedSet DEF Inserted
<1>2. CASE Holds(t, o) # {}
  <2>1. PICK q : q \in Holds(t, o)
    BY <1>2
  <2>2. InsertNoResize(t, o, v) = Replaced(t, q, v)
    BY <1>2, <2>1, InsertPresent
  <2>3. q \in Used(t)
    BY <2>1 DEF Holds
  <2> QED
    BY <2>1, <2>2, <2>3, ReplacedGood, ReplacedSet
<1> QED
  BY <1>1, <1>2

-----------------------------------------------------------------------------
(* The specification *)

\* The clients and maps for which lookups are exact: an identity map is not
\* deleted from, no key is set again after a deletion left holes before it, and
\* an identity map is within the 256 probes of a saturated route.
Supported ==
  \A s \in Setups : (s.deletes => ~s.ident /\ ~s.replaces) /\ (s.ident => s.span <= 256)

\* Only deletions make holes in the first four places of a probe.
Holes == IF deleted THEN 4 ELSE 0

\* The keys whose lookups view holds, and what they answer.
Asked(k) == k \in Obj /\ (Ident => Same[k] = k)
Answers(t, w) ==
  /\ w = [k \in Keys |-> w[k]]
  /\ \A k \in Keys : ~Asked(k) => w[k] = NULL
  /\ \A k \in Keys : Asked(k) => /\ \A x : Gives(t, k, x) => x # NULL /\ w[k] = x
                                 /\ (\A x : ~Gives(t, k, x)) => w[k] = NULL

IInv ==
  /\ setup \in Setups /\ deleted \in BOOLEAN /\ (deleted => Deletes)
  /\ Good(m, Holes)
  /\ Answers(m, view)

\* A lookup of every key gives these answers.
LEMMA LookupsAnswer ==
  ASSUME setup \in Setups, NEW t, NEW g \in {0, 4}, Good(t, g), Ident => g = 0 /\ t.buckets <= 256
  PROVE  Answers(t, Lookups(t))
<1>1. \A k \in Keys : Lookups(t)[k] = IF Asked(k) THEN Get(t, k) ELSE NULL
  BY DEF Lookups, Asked
<1>2. Lookups(t) = [k \in Keys |-> Lookups(t)[k]]
  BY DEF Lookups
<1>3. \A k \in Keys : Asked(k) => /\ \A x : Gives(t, k, x) => x # NULL /\ Get(t, k) = x
                                  /\ (\A x : ~Gives(t, k, x)) => Get(t, k) = NULL
  BY GetIs DEF Asked
<1> QED
  BY <1>1, <1>2, <1>3 DEF Answers

\* What is supported, of the setup in use.
LEMMA SetupSupported ==
  ASSUME Supported, setup \in Setups
  PROVE  (Deletes => ~Ident /\ ~Replaces) /\ (Ident => HashSpan <= 256)
BY DEF Supported, Deletes, Ident, Replaces, HashSpan

\* What the invariant says of lookups in m.
LEMMA Lookup ==
  ASSUME Supported, IInv
  PROVE  /\ Holes \in {0, 4} /\ Good(m, Holes) /\ (Ident => Holes = 0 /\ m.buckets <= 256) /\ (Holes = 4 => ~Replaces /\ deleted)
         /\ m.buckets \in Sizes /\ m.buckets \in Nat /\ m.used_limit \in Nat
         /\ \A o \in Obj : /\ Holds(m, o) # {} => Find(m, o) \in Holds(m, o) /\ Find(m, o) # -1
                           /\ Holds(m, o) = {} => Find(m, o) = -1
<1>1. setup \in Setups /\ Holes \in {0, 4} /\ Good(m, Holes) /\ (deleted => Deletes) /\ (Holes = 4 <=> deleted)
  BY DEF IInv, Holes
<1>2. (Deletes => ~Ident /\ ~Replaces) /\ (Ident => HashSpan <= 256)
  BY <1>1, SetupSupported
<1>3. m.buckets \in Sizes /\ m.buckets \in Nat /\ m.used_limit \in Nat
  BY <1>1, TableIs DEF Good, Counted
<1>4. m.buckets <= HashSpan /\ HashSpan \in Nat
  BY <1>1, <1>3, SetupIs
<1>5. Ident => Holes = 0 /\ m.buckets <= 256
  BY <1>1, <1>2, <1>3, <1>4
<1>6. \A o \in Obj : /\ Holds(m, o) # {} => Find(m, o) \in Holds(m, o)
                     /\ Holds(m, o) = {} => Find(m, o) = -1
  BY <1>1, <1>5, FindIs
<1>7. \A o : -1 \notin Holds(m, o)
  BY <1>3 DEF Holds, Used
<1> QED
  BY <1>1, <1>2, <1>3, <1>5, <1>6, <1>7

\* A call leaves a good table.
LEMMA PutStep ==
  ASSUME Supported, IInv, NEW o \in Obj, NEW v \in Vals[o] \intersect Obj, Put(o, v)
  PROVE  /\ deleted' \in BOOLEAN /\ (deleted' => deleted) /\ Good(m', IF deleted' THEN 4 ELSE 0)
         /\ (ret' = 1 /\ SetTo(m, o, v, m')) \/ (ret' = 0 /\ m' = m)
<1> DEFINE full == m.used_limit = 0
           hit == FindIdent(m, o)
           t == IF full THEN Resize(m, m.buckets * 2) ELSE m
           g == IF full THEN 0 ELSE Holes
<1>1. /\ setup \in Setups /\ Good(m, Holes) /\ Holes \in {0, 4} /\ (Ident => Holes = 0 /\ m.buckets <= 256)
      /\ (Holes = 4 => ~Replaces /\ deleted) /\ m.buckets \in Sizes /\ m.buckets \in Nat /\ m.used_limit \in Nat
      /\ (Holds(m, o) # {} => Find(m, o) \in Holds(m, o) /\ Find(m, o) # -1)
      /\ (Holds(m, o) = {} => Find(m, o) = -1)
  BY Lookup DEF IInv
<1>2. deleted \in BOOLEAN /\ Holes = IF deleted THEN 4 ELSE 0
  BY DEF IInv, Holes
<1>3. v \in Val \ {NULL}
  BY <1>1, SetupIs DEF Val
<1>4. Ident => hit = Find(m, o)
  BY DEF Find
<1>5. deleted /\ ~Replaces => Find(m, o) = -1
  BY DEF Put
<1>6. CASE Ident /\ hit # -1
  <2>1. m' = Replaced(m, hit, v) /\ ret' = 1 /\ deleted' = deleted
    BY <1>6 DEF Put, Replaced
  <2>2. hit \in Holds(m, o)
    BY <1>1, <1>4, <1>6
  <2>3. hit \in Used(m)
    BY <2>2 DEF Holds
  <2> HIDE DEF hit
  <2>4. Good(Replaced(m, hit, v), Holes) /\ SetTo(m, o, v, Replaced(m, hit, v))
    BY <1>1, <1>3, <2>2, <2>3, ReplacedGood, ReplacedSet
  <2> QED
    BY <1>2, <2>1, <2>4
<1>7. CASE ~(Ident /\ hit # -1)
  <2>1. \/ /\ full => m.buckets * 2 <= HashSpan
           /\ m' = InsertNoResize(t, o, v) /\ ret' = 1 /\ deleted' = (deleted /\ ~full)
        \/ m' = m /\ ret' = 0 /\ deleted' = deleted
    BY <1>7 DEF Put
  <2>2. CASE m' = m /\ ret' = 0 /\ deleted' = deleted
    BY <1>1, <1>2, <2>2
  <2>3. CASE /\ full => m.buckets * 2 <= HashSpan
             /\ m' = InsertNoResize(t, o, v) /\ ret' = 1 /\ deleted' = (deleted /\ ~full)
    <3>1. Good(t, g) /\ g \in {0, 4} /\ t.used_limit > 0 /\ Alike(m, t) /\ (Holds(t, o) = {} <=> Holds(m, o) = {})
      <4>1. CASE full
        <5>1. m.buckets * 2 \in Nat /\ m.buckets * 2 <= HashSpan /\ m.buckets > 0
          BY <1>1, <2>3, <4>1, SetupIs
        <5>2. Cardinality(Used(m)) = Limit(m.buckets) /\ Limit(m.buckets) \in Nat
          <6>1. Limit(m.buckets) \in Nat
            BY <1>1, LimitIs
          <6> QED
            BY <1>1, <4>1, <6>1 DEF Good, Counted
        <5>3. Limit(m.buckets) < Limit(m.buckets * 2) /\ Limit(m.buckets * 2) \in Nat
          BY <1>1, <5>1, LimitIs
        <5>4. Grown(m, m.buckets * 2, t)
          <6>1. t = Resize(m, m.buckets * 2)
            BY <4>1
          <6> HIDE DEF t
          <6> QED
            BY <1>1, <5>1, <5>2, <5>3, <6>1, ResizeIs
        <5> HIDE DEF t
        <5>5. Good(t, 0) /\ t.buckets >= m.buckets * 2 /\ t.used_limit = Limit(t.buckets) - Limit(m.buckets)
          BY <5>2, <5>4 DEF Grown
        <5>6. t.buckets \in Nat
          BY <1>1, <5>5, TableIs DEF Good
        <5>7. Limit(m.buckets * 2) <= Limit(t.buckets) /\ Limit(t.buckets) \in Nat
          BY <5>1, <5>5, <5>6, LimitIs
        <5>8. t.used_limit > 0
          BY <5>2, <5>3, <5>5, <5>7
        <5> QED
          BY <4>1, <5>4, <5>5, <5>8, GrownAlike
      <4>2. CASE ~full
        <5>1. t = m /\ g = Holes
          BY <4>2
        <5> QED
          BY <1>1, <4>2, <5>1 DEF Alike
      <4> QED
        BY <4>1, <4>2
    <3>2. Holds(t, o) # {} => ~Ident /\ g = 0
      <4> SUFFICES ASSUME Holds(t, o) # {} PROVE ~Ident /\ g = 0
        OBVIOUS
      <4>1. Find(m, o) # -1
        BY <1>1, <3>1
      <4> QED
        BY <1>1, <1>4, <1>5, <1>7, <4>1
    <3>3. (IF deleted' THEN 4 ELSE 0) = g /\ deleted' \in BOOLEAN /\ (deleted' => deleted)
      BY <1>2, <2>3
    <3> HIDE DEF t, g
    <3>4. Good(InsertNoResize(t, o, v), g) /\ SetTo(t, o, v, InsertNoResize(t, o, v))
      BY <1>1, <1>3, <3>1, <3>2, InsertSets
    <3>5. SetTo(m, o, v, m')
      BY <2>3, <3>1, <3>4 DEF SetTo, Alike
    <3> QED
      BY <2>3, <3>3, <3>4, <3>5
  <2> QED
    BY <2>1, <2>2, <2>3
<1> QED
  BY <1>6, <1>7

\* A deletion.
LEMMA DeleteStep ==
  ASSUME Supported, IInv, NEW o \in Obj, Delete(o)
  PROVE  /\ ~Ident /\ deleted' \in BOOLEAN /\ Good(m', IF deleted' THEN 4 ELSE 0)
         /\ TakenFrom(m, o, m') /\ ret' = IF Holds(m, o) = {} THEN 0 ELSE 1
<1>1. /\ setup \in Setups /\ Good(m, Holes) /\ Holes \in {0, 4}
      /\ (Holds(m, o) # {} => Find(m, o) \in Holds(m, o) /\ Find(m, o) # -1)
      /\ (Holds(m, o) = {} => Find(m, o) = -1)
  BY Lookup DEF IInv
<1>2. deleted \in BOOLEAN /\ Holes = IF deleted THEN 4 ELSE 0
  BY DEF IInv, Holes
<1>3. ~Ident
  BY <1>1, SetupSupported DEF Delete
<1>4. CASE Holds(m, o) = {}
  <2>1. m' = m /\ ret' = 0 /\ deleted' = deleted
    BY <1>1, <1>4 DEF Delete
  <2>2. TakenFrom(m, o, m)
    BY <1>4, NotHeld DEF TakenFrom
  <2> QED
    BY <1>1, <1>2, <1>3, <1>4, <2>1, <2>2
<1>5. CASE Holds(m, o) # {}
  <2> DEFINE q == Find(m, o)
  <2>1. m' = BackShift(m, q) /\ ret' = 1 /\ deleted' = TRUE
    BY <1>1, <1>5 DEF Delete
  <2>2. q \in Holds(m, o) /\ q \in Used(m)
    BY <1>1, <1>5 DEF Holds
  <2> HIDE DEF q
  <2>3. Removed(m, q, m')
    BY <1>1, <2>1, <2>2, BackShiftGood
  <2>4. TakenFrom(m, o, m')
    BY <1>1, <1>3, <2>2, <2>3, RemovedTaken
  <2> QED
    BY <1>3, <1>5, <2>1, <2>3, <2>4 DEF Removed
<1> QED
  BY <1>4, <1>5

\* Clearing the map.
LEMMA ClearStep ==
  ASSUME Supported, IInv, Clear
  PROVE  deleted' = FALSE /\ Good(m', 0) /\ ret' = 1 /\ \A k, x : ~Gives(m', k, x)
<1>1. setup \in Setups /\ m.buckets \in Sizes
  BY Lookup DEF IInv
<1>2. Good(NewMap(m.buckets), 0) /\ Used(NewMap(m.buckets)) = {}
  BY <1>1, NewMapGood
<1> QED
  BY <1>2 DEF Clear, Gives

\* Making room.
LEMMA EnsureSpaceStep ==
  ASSUME Supported, IInv, EnsureSpace(Limit(MinBuckets))
  PROVE  /\ deleted' \in BOOLEAN /\ (deleted' => deleted) /\ Good(m', IF deleted' THEN 4 ELSE 0)
         /\ ret' = 1 /\ Alike(m, m')
<1> DEFINE cnt == Limit(MinBuckets)
           len == Limit(m.buckets) - m.used_limit
           want == ((len + cnt) * 5) \div 4 + 1
<1>1. setup \in Setups /\ Good(m, Holes) /\ m.buckets \in Nat /\ m.used_limit \in Nat /\ Holes \in {0, 4}
  BY Lookup DEF IInv
<1>2. deleted \in BOOLEAN /\ Holes = IF deleted THEN 4 ELSE 0
  BY DEF IInv, Holes
<1>3. len = Cardinality(Used(m)) /\ len \in Nat
  BY <1>1, UsedFinite DEF Good, Counted
<1>4. cnt \in Nat
  BY <1>1, SetupIs, LimitIs
<1> HIDE DEF cnt
<1>5. /\ ret' = 1
      /\ \/ m' = m /\ deleted' = deleted
         \/ want <= HashSpan /\ m' = Resize(m, want) /\ deleted' = FALSE
  BY DEF EnsureSpace, cnt
<1> HIDE DEF len
<1>6. CASE m' = m /\ deleted' = deleted
  BY <1>1, <1>2, <1>5, <1>6 DEF Alike
<1>7. CASE want <= HashSpan /\ m' = Resize(m, want) /\ deleted' = FALSE
  <2>1. len + cnt \in Nat /\ want \in Nat
    BY <1>3, <1>4
  <2>2. len + cnt <= Limit(want) /\ Limit(want) \in Nat
    BY <2>1, LimitIs
  <2>3. Cardinality(Used(m)) <= Limit(want)
    BY <1>3, <1>4, <2>2
  <2> HIDE DEF want
  <2>4. Grown(m, want, m')
    BY <1>1, <1>7, <2>1, <2>3, ResizeIs
  <2> QED
    BY <1>5, <1>7, <2>4, GrownAlike DEF Grown
<1> QED
  BY <1>5, <1>6, <1>7

\* Every call keeps the parts of the invariant.
LEMMA NextStep ==
  ASSUME Supported, IInv, Next
  PROVE  /\ setup' = setup /\ deleted' \in BOOLEAN /\ (deleted' => Deletes)
         /\ Good(m', IF deleted' THEN 4 ELSE 0) /\ Answers(m', view')
<1> SUFFICES /\ setup' = setup /\ deleted' \in BOOLEAN /\ (deleted' => Deletes)
             /\ Good(m', IF deleted' THEN 4 ELSE 0)
  <2> DEFINE g == IF deleted' THEN 4 ELSE 0
             t == m'
  <2>1. view' = Lookups(t)
    BY DEF Next
  <2>2. setup \in Setups
    BY DEF IInv
  <2>3. (Deletes => ~Ident /\ ~Replaces) /\ (Ident => HashSpan <= 256)
    BY <2>2, SetupSupported
  <2>4. Good(t, g) /\ g \in {0, 4} /\ (Ident => g = 0)
    BY <2>3
  <2>5. Ident => t.buckets <= 256
    <3>1. t.buckets \in Sizes
      BY <2>4 DEF Good, IsTable
    <3>2. t.buckets \in Nat /\ t.buckets <= HashSpan /\ HashSpan \in Nat
      BY <2>2, <3>1, SetupIs
    <3> QED
      BY <2>3, <3>2
  <2> HIDE DEF t, g
  <2>6. Answers(t, Lookups(t))
    BY <2>2, <2>4, <2>5, LookupsAnswer
  <2> QED
    BY <2>1, <2>6 DEF t
<1>1. setup' = setup /\ view' = Lookups(m') /\ (deleted => Deletes)
  BY DEF Next, IInv
<1>2. CASE \E o \in Obj : \E v \in Vals[o] \cap Obj : Put(o, v)
  BY <1>1, <1>2, PutStep
<1>3. CASE \E o \in Obj : Delete(o)
  BY <1>1, <1>3, DeleteStep DEF Delete
<1>4. CASE Clear
  BY <1>1, <1>4, ClearStep
<1>5. CASE EnsureSpace(Limit(MinBuckets))
  BY <1>1, <1>5, EnsureSpaceStep
<1> QED
  BY <1>2, <1>3, <1>4, <1>5 DEF Next

\* The setup does not change, so a table that is good for it stays so.
LEMMA GoodNext ==
  ASSUME setup' = setup, Good(m', IF deleted' THEN 4 ELSE 0)
  PROVE  Good(m, Holes)'
<1>1. Good(m', Holes')
  BY DEF Holes
<1>2. /\ Obj' = Obj /\ Lo' = Lo /\ Hi' = Hi /\ Ident' = Ident /\ Sizes' = Sizes
      /\ HashSpan' = HashSpan /\ PslMax' = PslMax
  BY DEF Obj, Lo, Hi, Ident, Sizes, HashSpan, PslMax
<1>3. /\ \A o : PIdx(m, o)' = PIdx(m', o) /\ Idx(m, o)' = Idx(m', o)
      /\ \A p, q : Distance(m, p, q)' = Distance(m', p, q)
      /\ Used(m)' = Used(m')
  BY <1>2 DEF PIdx, Idx, Routes, Distance, Used
<1>4. \A o : HomePos(m, o)' = HomePos(m', o) /\ Longest(m, o)' = Longest(m', o) /\ Route(m, o)' = Route(m', o)
  BY <1>3 DEF HomePos, Longest, Route
<1>5. \A p : SlotPsl(m, p)' = SlotPsl(m', p)
  BY <1>3, <1>4 DEF SlotPsl
<1>6. (IsTable(m))'
  BY <1>1, <1>2 DEF Good, IsTable, Tables, Entry, Byte
<1>7. (RoutesKnown(m))'
  BY <1>1, <1>3, <1>4 DEF Good, RoutesKnown
<1>8. (Within(m))'
  BY <1>1, <1>2, <1>3, <1>4, <1>5 DEF Good, Within
<1>9. (Robin(m, Holes))'
  BY <1>1, <1>3, <1>4, <1>5 DEF Good, Robin, Passed
<1>10. (Once(m))'
  BY <1>1, <1>2 DEF Good, Once, Used, KeyCmp
<1>11. (Valued(m) /\ Counted(m))'
  BY <1>1, <1>2 DEF Good, Valued, Counted, Used, Limit
<1> QED
  BY <1>6, <1>7, <1>8, <1>9, <1>10, <1>11 DEF Good

\* The same for what lookups answer.
LEMMA AnswersNext ==
  ASSUME setup' = setup, Answers(m', view')
  PROVE  Answers(m, view)'
<1>1. Obj' = Obj /\ Ident' = Ident
  BY DEF Obj, Ident
<1>2. /\ \A k : Asked(k)' = Asked(k)
      /\ \A x, y : KeyCmp(x, y)' = KeyCmp(x, y)
      /\ Used(m)' = Used(m')
  BY <1>1 DEF Asked, KeyCmp, Used
<1>3. \A k, x : Gives(m, k, x)' = Gives(m', k, x)
  BY <1>2 DEF Gives
<1> QED
  BY <1>2, <1>3 DEF Answers

\* The invariant holds in the new map.
LEMMA InitInv ==
  ASSUME Supported
  PROVE  Init => IInv
<1> SUFFICES ASSUME Init PROVE IInv
  OBVIOUS
<1>1. setup \in Setups /\ m = NewMap(MinBuckets) /\ view = Lookups(m) /\ deleted = FALSE
  BY DEF Init
<1>2. Good(m, 0) /\ m.buckets = MinBuckets
  BY <1>1, SetupIs, NewMapGood
<1>3. Ident => m.buckets <= 256
  <2>1. (Ident => HashSpan <= 256) /\ MinBuckets <= HashSpan /\ MinBuckets \in Nat /\ HashSpan \in Nat
    BY <1>1, SetupSupported, SetupIs
  <2> QED
    BY <1>2, <2>1
<1>4. Answers(m, view)
  BY <1>1, <1>2, <1>3, LookupsAnswer
<1> QED
  BY <1>1, <1>2, <1>4 DEF IInv, Holes

\* The invariant is inductive.
LEMMA NextInv ==
  ASSUME Supported
  PROVE  IInv /\ [Next]_vars => IInv'
<1> SUFFICES ASSUME IInv, [Next]_vars PROVE IInv'
  OBVIOUS
<1>1. CASE Next
  <2>1. /\ setup' = setup /\ deleted' \in BOOLEAN /\ (deleted' => Deletes)
        /\ Good(m', IF deleted' THEN 4 ELSE 0) /\ Answers(m', view')
    BY <1>1, NextStep
  <2>2. Good(m, Holes)' /\ Answers(m, view)'
    BY <2>1, GoodNext, AnswersNext
  <2> QED
    BY <2>1, <2>2 DEF IInv, Deletes
<1>2. CASE UNCHANGED vars
  <2>1. Good(m', IF deleted' THEN 4 ELSE 0) /\ setup' = setup /\ Answers(m', view')
    BY <1>2 DEF vars, IInv, Holes
  <2>2. Good(m, Holes)' /\ Answers(m, view)'
    BY <2>1, GoodNext, AnswersNext
  <2> QED
    BY <1>2, <2>2 DEF vars, IInv, Deletes
<1> QED
  BY <1>1, <1>2

\* The named parts of the invariant that the runs check.
LEMMA InvTypeOK ==
  ASSUME IInv
  PROVE  TypeOK
<1>1. setup \in Setups /\ Good(m, Holes) /\ IsTable(m)
  BY DEF IInv, Good
<1>2. /\ m.buckets \in Nat /\ m.buckets \in Sizes /\ m.used_limit \in Int
      /\ m.kvs \in [0..m.buckets - 1 -> Entry] /\ m.pre \in [0..m.buckets - 1 -> Byte]
  BY <1>1, TableIs
<1>3. m.used_limit >= 0 /\ Cardinality(Used(m)) = Limit(m.buckets) - m.used_limit
  BY <1>1 DEF Good, Counted
<1>4. Cardinality(Used(m)) \in Nat /\ Limit(m.buckets) \in Nat
  BY <1>1, <1>2, UsedFinite, LimitIs
<1>5. m.used_limit \in 0..Limit(m.buckets) /\ Limit(m.buckets) - m.used_limit = Cardinality(Used(m))
  BY <1>2, <1>3, <1>4
<1>6. \E p \in 0..m.buckets - 1 : m.kvs[p].key = NULL
  BY <1>1, HasEmpty DEF Good, Used
<1> QED
  BY <1>2, <1>5, <1>6 DEF TypeOK, Entry, Byte

\* The invariant has every entry found.
LEMMA InvFound ==
  ASSUME Supported, IInv
  PROVE  EveryEntryFound
<1> SUFFICES ASSUME NEW p \in Used(m) PROVE Find(m, m.kvs[p].key) # -1
  BY DEF EveryEntryFound
<1>1. m.kvs[p].key \in Obj
  BY TableIs DEF IInv, Good
<1>2. p \in Holds(m, m.kvs[p].key)
  BY KeyCmpIs DEF Holds
<1> QED
  BY <1>1, <1>2, Lookup

\* used_limit, the shape of the table and its empty slot are kept by every call.
THEOREM TypeCorrect ==
  ASSUME Supported
  PROVE  Spec => []TypeOK
<1>1. Init => IInv
  BY InitInv
<1>2. IInv /\ [Next]_vars => IInv'
  BY NextInv
<1>3. IInv => TypeOK
  BY InvTypeOK
<1> QED
  BY <1>1, <1>2, <1>3, PTL DEF Spec

\* No sequence of calls leaves two entries for one key.
THEOREM KeysOnce ==
  ASSUME Supported
  PROVE  Spec => []NoDuplicateKeys
<1>1. Init => IInv
  BY InitInv
<1>2. IInv /\ [Next]_vars => IInv'
  BY NextInv
<1>3. IInv => NoDuplicateKeys
  BY DEF IInv, Good, Once, NoDuplicateKeys
<1> QED
  BY <1>1, <1>2, <1>3, PTL DEF Spec

\* No sequence of calls puts an entry out of reach of the probe for its key.
THEOREM EntriesFound ==
  ASSUME Supported
  PROVE  Spec => []EveryEntryFound
<1>1. Init => IInv
  BY InitInv
<1>2. IInv /\ [Next]_vars => IInv'
  BY NextInv
<1>3. IInv => EveryEntryFound
  BY InvFound
<1> QED
  BY <1>1, <1>2, <1>3, PTL DEF Spec

-----------------------------------------------------------------------------
(* The map is a dictionary *)

\* What every lookup answers determines what is seen of a table.
LEMMA AnswersAlike ==
  ASSUME NEW t, NEW u, NEW w, NEW x, Answers(t, w), Answers(u, x), Alike(t, u)
  PROVE  x = w
<1>1. \A k \in Keys : x[k] = w[k]
  <2> SUFFICES ASSUME NEW k \in Keys PROVE x[k] = w[k]
    OBVIOUS
  <2>1. CASE Asked(k)
    BY <2>1 DEF Answers, Alike
  <2>2. CASE ~Asked(k)
    BY <2>2 DEF Answers
  <2> QED
    BY <2>1, <2>2
<1>2. x = [k \in Keys |-> x[k]] /\ w = [k \in Keys |-> w[k]]
  BY DEF Answers
<1> QED
  BY <1>1, <1>2

\* Rep(o) is the only object of its content that the content is looked up by.
LEMMA RepIs ==
  ASSUME setup \in Setups, NEW o \in Obj
  PROVE  Rep(o) \in Keys /\ Asked(Rep(o)) /\ \A k \in Keys : Asked(k) => (KeyCmp(o, k) <=> k = Rep(o))
<1>1. Obj \subseteq Keys
  BY SetupIs
<1>2. CASE Ident
  <2>1. Same[o] \in Obj
    BY <1>2, MapAssumption DEF Ident, Obj
  <2>2. Same[Same[o]] = Same[o]
    BY <1>1, MapAssumption
  <2> QED
    BY <1>1, <1>2, <2>1, <2>2 DEF Rep, Asked, KeyCmp
<1>3. CASE ~Ident
  BY <1>1, <1>3 DEF Rep, Asked, KeyCmp
<1> QED
  BY <1>2, <1>3

\* A set changes what is answered for its own key.
LEMMA AnswersSet ==
  ASSUME setup \in Setups, NEW t, NEW u, NEW w, NEW x, Answers(t, w), Answers(u, x), NEW o \in Obj, NEW v, SetTo(t, o, v, u)
  PROVE  x = [w EXCEPT ![Rep(o)] = v]
<1>1. Rep(o) \in Keys /\ Asked(Rep(o)) /\ \A k \in Keys : Asked(k) => (KeyCmp(o, k) <=> k = Rep(o))
  BY RepIs
<1>2. \A k \in Keys : x[k] = IF k = Rep(o) THEN v ELSE w[k]
  <2> SUFFICES ASSUME NEW k \in Keys PROVE x[k] = IF k = Rep(o) THEN v ELSE w[k]
    OBVIOUS
  <2>1. CASE k = Rep(o)
    <3>1. Gives(u, k, v)
      BY <1>1, <2>1 DEF SetTo
    <3> QED
      BY <1>1, <2>1, <3>1 DEF Answers
  <2>2. CASE k # Rep(o) /\ Asked(k)
    <3>1. \A y : Gives(u, k, y) <=> Gives(t, k, y)
      BY <1>1, <2>2 DEF SetTo
    <3> QED
      BY <2>2, <3>1 DEF Answers
  <2>3. CASE ~Asked(k)
    BY <1>1, <2>3 DEF Answers
  <2> QED
    BY <2>1, <2>2, <2>3
<1>3. x = [k \in Keys |-> x[k]] /\ w = [k \in Keys |-> w[k]]
  BY DEF Answers
<1>4. DOMAIN w = Keys
  BY <1>3
<1>5. [w EXCEPT ![Rep(o)] = v] = [k \in Keys |-> IF k = Rep(o) THEN v ELSE w[k]]
  BY <1>4
<1> QED
  BY <1>2, <1>3, <1>5

\* A deletion likewise, and it finds the key if it was answered.
LEMMA AnswersTaken ==
  ASSUME setup \in Setups, ~Ident, NEW t, NEW u, NEW w, NEW x, Answers(t, w), Answers(u, x), NEW o \in Obj, TakenFrom(t, o, u)
  PROVE  x = [w EXCEPT ![o] = NULL] /\ (w[o] = NULL <=> Holds(t, o) = {})
<1>1. o \in Keys /\ Asked(o) /\ \A k : KeyCmp(o, k) <=> k = o
  BY SetupIs DEF Asked, KeyCmp
<1>2. \A k \in Keys : x[k] = IF k = o THEN NULL ELSE w[k]
  <2> SUFFICES ASSUME NEW k \in Keys PROVE x[k] = IF k = o THEN NULL ELSE w[k]
    OBVIOUS
  <2>1. CASE k = o
    <3>1. \A y : ~Gives(u, k, y)
      BY <1>1, <2>1 DEF TakenFrom
    <3> QED
      BY <1>1, <2>1, <3>1 DEF Answers
  <2>2. CASE k # o /\ Asked(k)
    <3>1. \A y : Gives(u, k, y) <=> Gives(t, k, y)
      BY <1>1, <2>2 DEF TakenFrom
    <3> QED
      BY <2>2, <3>1 DEF Answers
  <2>3. CASE ~Asked(k)
    BY <1>1, <2>3 DEF Answers
  <2> QED
    BY <2>1, <2>2, <2>3
<1>3. x = [k \in Keys |-> x[k]] /\ w = [k \in Keys |-> w[k]]
  BY DEF Answers
<1>4. DOMAIN w = Keys
  BY <1>3
<1>5. [w EXCEPT ![o] = NULL] = [k \in Keys |-> IF k = o THEN NULL ELSE w[k]]
  BY <1>4
<1>6. w[o] = NULL <=> Holds(t, o) = {}
  <2>1. Holds(t, o) = {} <=> \A y : ~Gives(t, o, y)
    BY DEF Holds, Gives
  <2> QED
    BY <1>1, <2>1 DEF Answers
<1> QED
  BY <1>2, <1>3, <1>5, <1>6

\* An empty map answers nothing.
LEMMA AnswersNone ==
  ASSUME NEW u, NEW x, Answers(u, x), \A k, y : ~Gives(u, k, y)
  PROVE  x = [k \in Keys |-> NULL]
<1>1. \A k \in Keys : x[k] = NULL
  BY DEF Answers
<1>2. x = [k \in Keys |-> x[k]]
  BY DEF Answers
<1> QED
  BY <1>1, <1>2

\* The initial states of the map are initial states of the dictionary.
LEMMA InitRefines ==
  ASSUME Supported, Init
  PROVE  Abs!DInit
<1>1. IInv
  BY InitInv
<1>2. setup \in Setups /\ m = NewMap(MinBuckets) /\ ret = 1 /\ call = <<"other">>
  BY DEF Init
<1>3. Used(m) = {}
  BY <1>2, SetupIs, NewMapGood
<1>4. view = [k \in Keys |-> NULL]
  BY <1>1, <1>3, AnswersNone DEF IInv, Gives
<1> QED
  BY <1>2, <1>4 DEF Abs!DInit, Abs!Empty

\* Every call is the step of the dictionary with its key and value.
LEMMA StepRefines ==
  ASSUME Supported, IInv, Next
  PROVE  Abs!DNext
<1>1. setup \in Setups /\ Answers(m, view) /\ Answers(m', view')
  BY NextStep DEF IInv
<1>2. ASSUME NEW o \in Obj, NEW v \in Vals[o] \cap Obj, Put(o, v) PROVE Abs!DNext
  <2>1. (ret' = 1 /\ SetTo(m, o, v, m')) \/ (ret' = 0 /\ m' = m)
    BY <1>2, PutStep
  <2>2. Rep(o) \in Keys /\ v \in Val
    BY <1>1, RepIs, SetupIs DEF Val
  <2>5. call' = <<"set", Rep(o), v>>
    BY <1>2 DEF Put
  <2>3. CASE ret' = 1 /\ SetTo(m, o, v, m')
    <3>1. view' = [view EXCEPT ![Rep(o)] = v]
      BY <1>1, <2>3, AnswersSet
    <3> QED
      BY <2>5, <2>2, <2>3, <3>1 DEF Abs!DNext, Abs!DSet
  <2>4. CASE ret' = 0 /\ m' = m
    <3>1. Alike(m, m')
      BY <2>4 DEF Alike
    <3>2. view' = view
      BY <1>1, <3>1, AnswersAlike
    <3> QED
      BY <2>5, <2>2, <2>4, <3>2 DEF Abs!DNext, Abs!DSet
  <2> QED
    BY <2>1, <2>3, <2>4
<1>3. ASSUME NEW o \in Obj, Delete(o) PROVE Abs!DNext
  <2>1. ~Ident /\ TakenFrom(m, o, m') /\ ret' = IF Holds(m, o) = {} THEN 0 ELSE 1
    BY <1>3, DeleteStep
  <2>2. view' = [view EXCEPT ![o] = NULL] /\ (view[o] = NULL <=> Holds(m, o) = {}) /\ o \in Keys
    BY <1>1, <2>1, AnswersTaken, SetupIs
  <2>3. call' = <<"delete", o>>
    BY <1>3, <2>1 DEF Delete, Rep
  <2> QED
    BY <2>1, <2>2, <2>3 DEF Abs!DNext, Abs!DDelete
<1>4. CASE Clear
  <2>1. ret' = 1 /\ \A k, x : ~Gives(m', k, x)
    BY <1>4, ClearStep
  <2>2. view' = [k \in Keys |-> NULL]
    BY <1>1, <2>1, AnswersNone
  <2>3. call' = <<"clear">>
    BY <1>4 DEF Clear
  <2> QED
    BY <2>1, <2>2, <2>3 DEF Abs!DNext, Abs!DClear, Abs!Empty
<1>5. CASE EnsureSpace(Limit(MinBuckets))
  <2>1. ret' = 1 /\ Alike(m, m')
    BY <1>5, EnsureSpaceStep
  <2>2. view' = view
    BY <1>1, <2>1, AnswersAlike
  <2>3. call' = <<"other">>
    BY <1>5 DEF EnsureSpace
  <2> QED
    BY <2>1, <2>2, <2>3 DEF Abs!DNext, Abs!DOther
<1> QED
  BY <1>2, <1>3, <1>4, <1>5 DEF Next

\* The map implements the dictionary of ci_map.h: whatever is called, a set
\* that succeeds gives its key its value, a delete removes its key, and lookups
\* of other keys, or after a set that fails or a resize, answer as before.
THEOREM RefinesDictionary ==
  ASSUME Supported
  PROVE  Spec => RefinesMap
<1>1. Init => IInv /\ Abs!DInit
  BY InitInv, InitRefines
<1>2. IInv /\ [Next]_vars => IInv'
  BY NextInv
<1>3. IInv /\ [Next]_vars => [Abs!DNext]_(Abs!dvars)
  <2> SUFFICES ASSUME IInv, [Next]_vars PROVE [Abs!DNext]_(Abs!dvars)
    OBVIOUS
  <2>1. CASE Next
    BY <2>1, StepRefines
  <2>2. CASE UNCHANGED vars
    BY <2>2 DEF vars, Abs!dvars
  <2> QED
    BY <2>1, <2>2
<1> QED
  BY <1>1, <1>2, <1>3, PTL DEF Spec, RefinesMap, Abs!DSpec

=============================================================================
