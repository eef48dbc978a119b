---------------------------- MODULE TgMemProofs ----------------------------
(***************************************************************************)
(* Proofs about TgMem: for every arena size, number of stripes and nesting *)
(* of destructors, the allocator hands out no slot twice, loses none, and  *)
(* counts the live ones right, so tg_cleanup unmaps no arena in use.       *)
(*                                                                         *)
(* The argument: one arena with the blocks in it is Good when the three    *)
(* invariants hold of it.  TakeGood and GiveGood say when an arena stays   *)
(* Good after slots leave it for a client and after they come back; each   *)
(* action is an instance of one of them or changes no arena.               *)
(***************************************************************************)
EXTENDS TgMem, FiniteSetTheorems, TLAPS

Good(a, B) == Owned(a, B) /\ Complete(a, B) /\ Counted(a, B)
Mapped == \A b \in blocks : b.a \in Range(chain)
AllGood == \A s \in Range(chain) : Good(ar[s], In(s))
Injective(f) == \A i, j \in DOMAIN f : i # j => f[i] # f[j]

\* The parts of the inductive invariant, arena by arena.
LEMMA IInvParts ==
    IInv <=> TypeOK /\ ChainAndStack /\ Mapped /\ AllGood
BY DEF IInv, OneOwner, LiveCount, NoSlotLost, Mapped, AllGood, Good

-----------------------------------------------------------------------------
(* Slots and their number *)

\* A slot interval of n > 0 slots is finite and has n members.
LEMMA SlotsCount ==
    ASSUME NEW x \in Int, NEW n \in Nat
    PROVE  IsFiniteSet(x .. x + n - 1) /\ Cardinality(x .. x + n - 1) = n
<1>1. x + n - 1 \in Int
  OBVIOUS
<1> QED
  BY <1>1, FS_Interval

\* The freelist of an arena holds slots, which are numbers.
LEMMA FreelistType ==
    ASSUME NEW a \in Arena
    PROVE  /\ a.freelist \in Seq(Slot)
           /\ Range(a.freelist) \subseteq Int
<1>1. a.freelist \in Seq(Slot)
  BY DEF Arena
<1>2. \A i \in DOMAIN a.freelist : a.freelist[i] \in Slot
  BY <1>1
<1>3. Slot \subseteq Int
  BY DEF Slot
<1> QED
  BY <1>1, <1>2, <1>3 DEF Range

\* The fields of an arena.
LEMMA ArenaType ==
    ASSUME NEW a \in Arena
    PROVE  a.live \in Int /\ a.bump \in 0 .. Cap
BY DEF Arena

\* A block has at least one slot.
LEMMA BlockType ==
    ASSUME NEW b \in Block
    PROVE  b.a \in Stripe /\ b.slot \in Nat /\ b.n \in Nat \ {0}
BY SizeAssumption DEF Block, Slot

\* The last slot of a block.
LEMMA LastSlot ==
    ASSUME NEW b \in Block
    PROVE  /\ b.slot + b.n - 1 \in Slots(b) /\ b.slot + b.n \in Int
           /\ \A m \in Int : b.slot + b.n - 1 < m => b.slot + b.n <= m
BY BlockType DEF Slots

\* The clients of an arena hold finitely many slots, all below the bump.
LEMMA HeldFinite ==
    ASSUME NEW a \in Arena, NEW B \in SUBSET Block, Owned(a, B)
    PROVE  /\ HeldBy(B) \subseteq 0 .. a.bump - 1
           /\ IsFiniteSet(HeldBy(B))
           /\ Cardinality(HeldBy(B)) \in Nat
<1>1. HeldBy(B) \subseteq 0 .. a.bump - 1
  BY DEF HeldBy, Slots, Owned, Arena, Block, Slot, Stripe
<1>2. a.bump \in Nat
  BY SizeAssumption DEF Arena
<1>3. IsFiniteSet(0 .. a.bump - 1)
  BY <1>2, FS_Interval
<1> QED
  BY <1>1, <1>3, FS_Subset, FS_CardinalityType

\* The slots held by one block more.
LEMMA HeldAdd ==
    ASSUME NEW B, NEW b
    PROVE  HeldBy(B \cup {b}) = HeldBy(B) \cup Slots(b)
BY DEF HeldBy

\* The slots held by one block less, when blocks do not overlap.
LEMMA HeldRemove ==
    ASSUME NEW B, NEW b \in B, \A c \in B : b # c => Slots(b) \cap Slots(c) = {}
    PROVE  HeldBy(B \ {b}) = HeldBy(B) \ Slots(b)
BY DEF HeldBy

\* A client that holds no slot of an arena has no block in it.
LEMMA NoneHeld ==
    ASSUME NEW a \in Arena, NEW B \in SUBSET Block, Good(a, B), a.live = 0
    PROVE  B = {}
<1>1. HeldBy(B) = {}
  BY HeldFinite, FS_EmptySet DEF Good, Counted
<1>2. \A b \in B : b.slot \in Slots(b)
  BY DEF Slots, Block, Slot
<1> QED
  BY <1>1, <1>2 DEF HeldBy

-----------------------------------------------------------------------------
(* One arena *)

\* Slots leave an arena for a new block b: they come off the freelist or from
\* above the bump pointer, and the rest of both is still there.
LEMMA TakeGood ==
    ASSUME NEW a \in Arena, NEW a2 \in Arena, NEW B \in SUBSET Block, NEW b \in Block,
           Good(a, B),
           a2.live = a.live + b.n,
           a2.bump >= a.bump, b.slot + b.n <= a2.bump,
           Injective(a2.freelist),
           Range(a2.freelist) \cap Slots(b) = {},
           Range(a2.freelist) \cup Slots(b) = Range(a.freelist) \cup (a.bump .. a2.bump - 1)
    PROVE  Good(a2, B \cup {b})
<1>1. /\ HeldBy(B) \subseteq 0 .. a.bump - 1
      /\ IsFiniteSet(HeldBy(B))
      /\ Cardinality(HeldBy(B)) \in Nat
  BY HeldFinite DEF Good
<1>2. /\ a.bump \in Nat /\ a2.bump \in Nat /\ a.live \in Int
      /\ b.slot \in Nat /\ b.n \in Nat /\ b.n > 0
  BY SizeAssumption DEF Arena, Block, Slot
<1>3. Range(a.freelist) \cap HeldBy(B) = {}
  BY DEF Good, Owned, HeldBy, Range
<1>4. Slots(b) \cap HeldBy(B) = {}
  BY <1>1, <1>2, <1>3
<1>5. Owned(a2, B \cup {b})
  <2>1. \A c \in B \cup {b} : c.slot + c.n <= a2.bump
    BY <1>2 DEF Good, Owned, Block, Slot
  <2>2. Range(a2.freelist) \cap HeldBy(B \cup {b}) = {}
    BY <1>1, <1>2, <1>3, HeldAdd
  <2>3. \A c, d \in B \cup {b} : c # d => Slots(c) \cap Slots(d) = {}
    BY <1>4 DEF Good, Owned, HeldBy
  <2>4. \A i \in DOMAIN a2.freelist : a2.freelist[i] < a2.bump
    <3>1. \A x \in Range(a.freelist) : x < a.bump
      BY DEF Good, Owned, Range
    <3>2. \A x \in Range(a2.freelist) : x \in Range(a.freelist) \/ x \in a.bump .. a2.bump - 1
      OBVIOUS
    <3>3. \A x \in Range(a2.freelist) : x < a2.bump
      <4>1. SUFFICES ASSUME NEW x \in Range(a2.freelist) PROVE x < a2.bump
        OBVIOUS
      <4>2. x \in Int
        BY FreelistType
      <4>3. x < a.bump \/ x \in a.bump .. a2.bump - 1
        BY <3>1, <3>2
      <4> QED
        BY <4>2, <4>3, <1>2
    <3>4. \A i \in DOMAIN a2.freelist : a2.freelist[i] \in Range(a2.freelist)
      BY DEF Range
    <3> QED
      BY <3>3, <3>4
  <2>5. \A c \in B \cup {b} : \A i \in DOMAIN a2.freelist : a2.freelist[i] \notin Slots(c)
    BY <2>2 DEF HeldBy, Range
  <2> QED
    BY <2>1, <2>3, <2>4, <2>5 DEF Owned, Injective
<1>6. Complete(a2, B \cup {b})
  <2>1. SUFFICES ASSUME NEW x \in 0 .. a2.bump - 1
                 PROVE  x \in HeldBy(B \cup {b}) \/ x \in Range(a2.freelist)
    BY DEF Complete
  <2>2. CASE x < a.bump
    <3>1. x \in 0 .. a.bump - 1
      BY <2>2, <1>2
    <3>2. x \in HeldBy(B) \/ x \in Range(a.freelist)
      BY <3>1 DEF Good, Complete
    <3> QED
      BY <3>2, HeldAdd
  <2>3. CASE x >= a.bump
    <3>1. x \in a.bump .. a2.bump - 1
      BY <2>3, <1>2
    <3> QED
      BY <3>1, HeldAdd
  <2> QED
    BY <2>2, <2>3, <1>2
<1>7. Counted(a2, B \cup {b})
  <2>1. IsFiniteSet(Slots(b)) /\ Cardinality(Slots(b)) = b.n
    <3>1. b.slot \in Int /\ b.n \in Nat
      BY <1>2
    <3> QED
      BY <3>1, SlotsCount, Zenon DEF Slots
  <2>2. Cardinality(HeldBy(B) \cup Slots(b)) = Cardinality(HeldBy(B)) + b.n - Cardinality({})
    <3>1. HeldBy(B) \cap Slots(b) = {}
      BY <1>4
    <3> QED
      BY <1>1, <2>1, <3>1, FS_Union
  <2>3. Cardinality({}) = 0
    BY FS_EmptySet
  <2>4. Cardinality(HeldBy(B \cup {b})) = Cardinality(HeldBy(B) \cup Slots(b))
    BY HeldAdd
  <2>5. a.live = Cardinality(HeldBy(B))
    BY DEF Good, Counted
  <2> QED
    BY <1>1, <1>2, <2>2, <2>3, <2>4, <2>5 DEF Counted
<1> QED
  BY <1>5, <1>6, <1>7 DEF Good

\* The slots I come back to the freelist, and the blocks that remain, B2,
\* hold exactly the others.
LEMMA GiveGood ==
    ASSUME NEW a \in Arena, NEW a2 \in Arena,
           NEW B \in SUBSET Block, NEW B2 \in SUBSET Block,
           NEW I, IsFiniteSet(I),
           Good(a, B),
           a2.bump = a.bump, a2.live = a.live - Cardinality(I),
           I \subseteq HeldBy(B),
           HeldBy(B2) = HeldBy(B) \ I,
           \A c \in B2 : c.slot + c.n <= a.bump,
           \A c, d \in B2 : c # d => Slots(c) \cap Slots(d) = {},
           Injective(a2.freelist),
           Range(a2.freelist) = Range(a.freelist) \cup I
    PROVE  Good(a2, B2)
<1>1. /\ HeldBy(B) \subseteq 0 .. a.bump - 1
      /\ IsFiniteSet(HeldBy(B))
      /\ Cardinality(HeldBy(B)) \in Nat
  BY HeldFinite DEF Good
<1>2. a.bump \in Nat /\ a.live \in Int
  BY SizeAssumption DEF Arena
<1>3. Range(a.freelist) \cap HeldBy(B) = {}
  BY DEF Good, Owned, HeldBy, Range
<1>4. Range(a2.freelist) \cap HeldBy(B2) = {}
  BY <1>3
<1>5. Owned(a2, B2)
  <2>1. \A y \in Range(a2.freelist) : y < a.bump
    <3>1. \A y \in Range(a.freelist) : y < a.bump
      BY DEF Good, Owned, Range
    <3>2. \A y \in I : y < a.bump
      BY <1>1, <1>2
    <3> QED
      BY <3>1, <3>2
  <2>2. \A c \in B2 : \A i \in DOMAIN a2.freelist : a2.freelist[i] \notin Slots(c)
    BY <1>4 DEF HeldBy, Range
  <2> QED
    BY <2>1, <2>2 DEF Owned, Injective, Range
<1>6. Complete(a2, B2)
  BY DEF Good, Complete
<1>7. Counted(a2, B2)
  <2>1. HeldBy(B) \cap I = I
    OBVIOUS
  <2>2. Cardinality(HeldBy(B2)) = Cardinality(HeldBy(B)) - Cardinality(I)
    BY <1>1, <2>1, FS_Difference
  <2> QED
    BY <2>2 DEF Good, Counted
<1> QED
  BY <1>5, <1>6, <1>7 DEF Good

\* Taking n adjacent slots off a list of distinct slots leaves the others.
LEMMA RunRemoved ==
    ASSUME NEW f \in Seq(Slot), Injective(f), NEW k \in 1 .. Len(f), NEW n \in Nat \ {0},
           k + n - 1 <= Len(f), \A j \in 0 .. n - 1 : f[k + j] = f[k] + j
    PROVE  /\ RemoveRun(f, k, n) \in Seq(Slot)
           /\ Injective(RemoveRun(f, k, n))
           /\ Range(RemoveRun(f, k, n)) \cap (f[k] .. f[k] + n - 1) = {}
           /\ Range(RemoveRun(f, k, n)) \cup (f[k] .. f[k] + n - 1) = Range(f)
           /\ f[k] \in Slot /\ f[k] + n <= Cap
<1> DEFINE g == RemoveRun(f, k, n)
           I == f[k] .. f[k] + n - 1
<1>1. /\ DOMAIN g = 1 .. Len(f) - n
      /\ \A j \in 1 .. Len(f) - n : g[j] = IF j < k THEN f[j] ELSE f[j + n]
  BY DEF RemoveRun
<1>2. DOMAIN f = 1 .. Len(f) /\ Len(f) \in Nat
  OBVIOUS
<1>3. \A j \in 1 .. Len(f) : f[j] \in Slot /\ f[j] \in Int
  <2>1. \A j \in 1 .. Len(f) : f[j] \in Slot
    OBVIOUS
  <2>2. Slot \subseteq Int
    BY DEF Slot
  <2> QED
    BY <2>1, <2>2
<1>4. g \in Seq(Slot)
  BY <1>2, <1>3 DEF RemoveRun
<1>5. Injective(g)
  <2>1. SUFFICES ASSUME NEW i \in DOMAIN g, NEW j \in DOMAIN g, i # j
                 PROVE  g[i] # g[j]
    BY DEF Injective
  <2> DEFINE at(x) == IF x < k THEN x ELSE x + n
  <2>2. at(i) # at(j) /\ at(i) \in DOMAIN f /\ at(j) \in DOMAIN f
    BY <1>1, <1>2, <2>1
  <2>3. g[i] = f[at(i)] /\ g[j] = f[at(j)]
    BY <1>1
  <2> QED
    BY <2>2, <2>3 DEF Injective
<1>6. \A x \in I : x = f[k + (x - f[k])] /\ k + (x - f[k]) \in k .. k + n - 1
  <2>1. SUFFICES ASSUME NEW x \in I
                 PROVE  x = f[k + (x - f[k])] /\ k + (x - f[k]) \in k .. k + n - 1
    OBVIOUS
  <2>2. x \in Int /\ f[k] \in Int /\ x - f[k] \in 0 .. n - 1
    BY <1>3
  <2>3. f[k + (x - f[k])] = f[k] + (x - f[k])
    BY <2>2
  <2> QED
    BY <2>2, <2>3
<1>7. Range(g) \cap I = {}
  <2>1. SUFFICES ASSUME NEW j \in DOMAIN g, g[j] \in I PROVE FALSE
    BY DEF Range
  <2> DEFINE x == k + (g[j] - f[k])
             y == IF j < k THEN j ELSE j + n
  <2>2. g[j] = f[x] /\ x \in k .. k + n - 1
    BY <1>6, <2>1
  <2>3. g[j] = f[y] /\ y \in DOMAIN f /\ y \notin k .. k + n - 1
    BY <1>1, <1>2
  <2>4. x \in DOMAIN f /\ x # y
    BY <1>2, <2>2, <2>3
  <2> HIDE DEF x, y, g
  <2> QED
    BY <2>2, <2>3, <2>4 DEF Injective
<1>8. Range(g) \subseteq Range(f)
  <2>1. SUFFICES ASSUME NEW j \in DOMAIN g PROVE g[j] \in Range(f)
    BY DEF Range
  <2>2. CASE j < k
    BY <1>1, <1>2, <2>2 DEF Range
  <2>3. CASE ~(j < k)
    <3>1. g[j] = f[j + n] /\ j + n \in DOMAIN f
      BY <1>1, <1>2, <2>3
    <3> QED
      BY <3>1 DEF Range
  <2> QED
    BY <2>2, <2>3
<1>9. I \subseteq Range(f)
  <2>1. k .. k + n - 1 \subseteq DOMAIN f
    BY <1>2
  <2> QED
    BY <1>6, <2>1 DEF Range
<1>10. Range(f) \subseteq Range(g) \cup I
  <2>1. SUFFICES ASSUME NEW j \in 1 .. Len(f) PROVE f[j] \in Range(g) \cup I
    BY <1>2 DEF Range
  <2>2. CASE j < k
    <3>1. f[j] = g[j] /\ j \in DOMAIN g
      BY <1>1, <1>2, <2>2
    <3> QED
      BY <3>1 DEF Range
  <2>3. CASE j >= k + n
    <3>1. f[j] = g[j - n] /\ j - n \in DOMAIN g
      BY <1>1, <1>2, <2>3
    <3> QED
      BY <3>1 DEF Range
  <2>4. CASE j \in k .. k + n - 1
    <3>1. j - k \in 0 .. n - 1 /\ k + (j - k) = j
      BY <2>4
    <3>2. f[j] = f[k] + (j - k)
      BY <3>1
    <3> QED
      BY <3>1, <3>2, <1>3
  <2> QED
    BY <2>2, <2>3, <2>4
<1>11. f[k] \in Slot /\ f[k] + n <= Cap
  <2>1. n - 1 \in 0 .. n - 1 /\ k + (n - 1) \in 1 .. Len(f)
    OBVIOUS
  <2>2. f[k + (n - 1)] = f[k] + (n - 1) /\ f[k + (n - 1)] \in Slot
    BY <2>1, <1>3
  <2> DEFINE x == f[k]
             y == f[k + (n - 1)]
  <2>3. x \in Slot /\ y \in Slot /\ x \in Int /\ y = x + (n - 1)
    BY <1>3, <2>2
  <2> HIDE DEF x, y
  <2>4. x + n <= Cap
    BY <2>3, SizeAssumption DEF Slot
  <2> QED
    BY <2>3, <2>4 DEF x
<1> QED
  BY <1>4, <1>5, <1>7, <1>8, <1>9, <1>10, <1>11

\* A run of the freelist becomes a block.
LEMMA RunGood ==
    ASSUME NEW a \in Arena, NEW B \in SUBSET Block, NEW b \in Block, Good(a, B),
           NEW k \in 1 .. Len(a.freelist), k + b.n - 1 <= Len(a.freelist),
           \A j \in 0 .. b.n - 1 : a.freelist[k + j] = a.freelist[k] + j,
           b.slot = a.freelist[k]
    PROVE  TakeRun(a, k, b.n) \in Arena /\ Good(TakeRun(a, k, b.n), B \cup {b})
<1> DEFINE a2 == TakeRun(a, k, b.n)
<1>1. a.freelist \in Seq(Slot) /\ Injective(a.freelist) /\ b.n \in Nat \ {0}
  BY DEF Arena, Block, Good, Owned, Injective
<1>0. /\ a2 \in Arena /\ a2.freelist = RemoveRun(a.freelist, k, b.n)
      /\ a2.bump = a.bump /\ a2.live = a.live + b.n
  <2>1. RemoveRun(a.freelist, k, b.n) \in Seq(Slot)
    BY <1>1, RunRemoved
  <2>2. a.live + b.n \in Int
    BY <1>1, ArenaType
  <2> DEFINE g == RemoveRun(a.freelist, k, b.n)
             n == a.live + b.n
  <2>3. g \in Seq(Slot) /\ n \in Int /\ a2 = [a EXCEPT !.freelist = g, !.live = n]
    BY <2>1, <2>2 DEF TakeRun
  <2> HIDE DEF g, n, a2
  <2>4. a2 \in Arena /\ a2.bump = a.bump /\ a2.freelist = g /\ a2.live = n
    BY <2>3 DEF Arena
  <2> QED
    BY <2>4 DEF g, n
<1> HIDE DEF a2
<1>2. /\ Injective(a2.freelist)
      /\ Range(a2.freelist) \cap Slots(b) = {}
      /\ Range(a2.freelist) \cup Slots(b) = Range(a.freelist)
  <2> DEFINE f == a.freelist
             n == b.n
  <2>1. /\ Injective(RemoveRun(f, k, n))
        /\ Range(RemoveRun(f, k, n)) \cap (f[k] .. f[k] + n - 1) = {}
        /\ Range(RemoveRun(f, k, n)) \cup (f[k] .. f[k] + n - 1) = Range(f)
    <3>1. /\ f \in Seq(Slot) /\ Injective(f) /\ k \in 1 .. Len(f) /\ n \in Nat \ {0}
          /\ k + n - 1 <= Len(f) /\ \A j \in 0 .. n - 1 : f[k + j] = f[k] + j
      BY <1>1
    <3> HIDE DEF f, n
    <3> QED
      BY <3>1, RunRemoved
  <2>2. Slots(b) = f[k] .. f[k] + n - 1
    BY Zenon DEF Slots
  <2> QED
    BY <1>0, <2>1, <2>2
<1>3. a.bump .. a2.bump - 1 = {} /\ a2.bump >= a.bump /\ a.bump \in Int
  BY <1>0, SizeAssumption DEF Arena
<1>4. b.slot + b.n <= a2.bump
  <2>1. b.slot + b.n - 1 \in Slots(b) /\ b.slot + b.n \in Int
    BY LastSlot
  <2>2. b.slot + b.n - 1 \in Range(a.freelist)
    BY <1>2, <2>1
  <2>3. b.slot + b.n - 1 < a.bump
    BY <2>2 DEF Good, Owned, Range
  <2>5. b.slot + b.n <= a.bump
    BY <2>3, <1>3, LastSlot
  <2> QED
    BY <1>0, <2>5
<1>5. Good(a2, B \cup {b})
  BY <1>0, <1>2, <1>3, <1>4, TakeGood
<1> QED
  BY <1>0, <1>5 DEF a2

\* Slots above the bump pointer become a block.
LEMMA BumpGood ==
    ASSUME NEW a \in Arena, NEW B \in SUBSET Block, NEW b \in Block, Good(a, B),
           b.slot = a.bump, a.bump + b.n <= Cap
    PROVE  TakeBump(a, b.n) \in Arena /\ Good(TakeBump(a, b.n), B \cup {b})
<1> DEFINE a2 == TakeBump(a, b.n)
<1>1. a.bump \in Nat /\ b.n \in Nat
  BY SizeAssumption DEF Arena, Block
<1>0. /\ a2 \in Arena /\ a2.freelist = a.freelist
      /\ a2.bump = a.bump + b.n /\ a2.live = a.live + b.n
  <2>1. a.live + b.n \in Int /\ a.bump + b.n \in 0 .. Cap /\ a.freelist \in Seq(Slot)
    BY <1>1, ArenaType, FreelistType, SizeAssumption
  <2> DEFINE m == a.bump + b.n
             n == a.live + b.n
  <2>2. m \in 0 .. Cap /\ n \in Int /\ a2 = [a EXCEPT !.bump = m, !.live = n]
    BY <2>1 DEF TakeBump
  <2> HIDE DEF m, n, a2
  <2>3. a2 \in Arena /\ a2.bump = m /\ a2.freelist = a.freelist /\ a2.live = n
    BY <2>2 DEF Arena
  <2> QED
    BY <2>3 DEF m, n
<1> HIDE DEF a2
<1>2. Injective(a2.freelist)
  BY <1>0 DEF Good, Owned, Injective
<1>3. Slots(b) = a.bump .. a2.bump - 1
  <2>1. Slots(b) = a.bump .. a.bump + b.n - 1
    BY Zenon DEF Slots
  <2> QED
    BY <1>0, <2>1, <1>1
<1>4. \A x \in Range(a.freelist) : x < a.bump /\ x \in Int
  BY FreelistType DEF Good, Owned, Range
<1>5. Range(a2.freelist) \cap Slots(b) = {}
  BY <1>0, <1>1, <1>3, <1>4
<1>6. a2.bump >= a.bump /\ b.slot + b.n <= a2.bump
  BY <1>0, <1>1
<1>7. Good(a2, B \cup {b})
  BY <1>0, <1>2, <1>3, <1>5, <1>6, TakeGood
<1> QED
  BY <1>0, <1>7 DEF a2

\* A bubble-sort swap keeps the slots of a list.
LEMMA SwapGood ==
    ASSUME NEW a \in Arena, NEW B \in SUBSET Block, Good(a, B),
           NEW p \in 1 .. Len(a.freelist) - 1
    PROVE  Swap(a, p) \in Arena /\ Good(Swap(a, p), B)
<1> DEFINE a2 == Swap(a, p)
           f == a.freelist
           g == a2.freelist
           at(i) == IF i = p THEN p + 1 ELSE IF i = p + 1 THEN p ELSE i
<1>1. f \in Seq(Slot) /\ DOMAIN f = 1 .. Len(f) /\ Len(f) \in Nat
  BY FreelistType
<1>0. /\ a2 \in Arena /\ a2.bump = a.bump /\ a2.live = a.live
      /\ a2.freelist = [f EXCEPT ![p] = f[p + 1], ![p + 1] = f[p]]
  <2>1. [f EXCEPT ![p] = f[p + 1], ![p + 1] = f[p]] \in Seq(Slot)
    BY <1>1
  <2> QED
    BY <2>1, ArenaType DEF Swap, Arena
<1> HIDE DEF a2
<1>2. DOMAIN g = DOMAIN f /\ \A i \in DOMAIN f : g[i] = f[at(i)]
  BY <1>0, <1>1
<1>3. /\ \A i \in DOMAIN f : at(i) \in DOMAIN f /\ at(at(i)) = i
      /\ \A i, j \in DOMAIN f : i # j => at(i) # at(j)
  <2> DEFINE N == Len(f)
  <2>1. N \in Nat /\ DOMAIN f = 1 .. N /\ p \in 1 .. N - 1
    BY <1>1
  <2> HIDE DEF f, N
  <2>2. \A i \in 1 .. N : at(i) \in 1 .. N /\ at(at(i)) = i
    BY <2>1
  <2>3. \A i, j \in 1 .. N : i # j => at(i) # at(j)
    BY <2>2
  <2> QED
    BY <2>1, <2>2, <2>3
<1>4. \A i, j \in DOMAIN f : i # j => f[i] # f[j]
  BY DEF Good, Owned
<1> HIDE DEF f, g, at
<1>5. \A i, j \in DOMAIN g : i # j => g[i] # g[j]
  BY <1>2, <1>3, <1>4
<1>6. Range(g) = Range(f)
  BY <1>2, <1>3 DEF Range
<1>7. Owned(a2, B)
  <2>1. \A i \in DOMAIN g : g[i] < a.bump
    BY <1>2, <1>3 DEF Good, Owned, f
  <2>2. \A b \in B : \A i \in DOMAIN g : g[i] \notin Slots(b)
    BY <1>2, <1>3 DEF Good, Owned, f
  <2> QED
    BY <1>0, <1>5, <2>1, <2>2 DEF Good, Owned, g
<1>8. Complete(a2, B) /\ Counted(a2, B)
  BY <1>0, <1>6 DEF Good, Complete, Counted, f, g
<1> QED
  BY <1>0, <1>7, <1>8 DEF Good, a2

\* Putting distinct new slots in front of a list of distinct slots.
LEMMA Prepend ==
    ASSUME NEW s \in Seq(Slot), NEW t \in Seq(Slot), Injective(s), Injective(t),
           Range(s) \cap Range(t) = {}
    PROVE  /\ s \o t \in Seq(Slot)
           /\ Injective(s \o t)
           /\ Range(s \o t) = Range(s) \cup Range(t)
<1> DEFINE r == s \o t
<1>1. /\ r \in Seq(Slot) /\ DOMAIN r = 1 .. Len(s) + Len(t)
      /\ \A i \in 1 .. Len(s) + Len(t) : r[i] = IF i <= Len(s) THEN s[i] ELSE t[i - Len(s)]
  OBVIOUS
<1>2. /\ DOMAIN s = 1 .. Len(s) /\ Len(s) \in Nat
      /\ DOMAIN t = 1 .. Len(t) /\ Len(t) \in Nat
  OBVIOUS
<1>3. \A i \in DOMAIN s, j \in DOMAIN t : s[i] # t[j]
  BY DEF Range
<1> HIDE DEF r
<1>4. Injective(r)
  <2>1. SUFFICES ASSUME NEW i \in DOMAIN r, NEW j \in DOMAIN r, i < j
                 PROVE  r[i] # r[j]
    BY <1>1 DEF Injective
  <2>2. CASE j <= Len(s)
    <3>1. r[i] = s[i] /\ r[j] = s[j] /\ i \in DOMAIN s /\ j \in DOMAIN s /\ i # j
      BY <1>1, <1>2, <2>1, <2>2
    <3> QED
      BY <3>1 DEF Injective
  <2>3. CASE i <= Len(s) /\ j > Len(s)
    <3>1. r[i] = s[i] /\ r[j] = t[j - Len(s)] /\ i \in DOMAIN s /\ j - Len(s) \in DOMAIN t
      BY <1>1, <1>2, <2>1, <2>3
    <3> QED
      BY <3>1, <1>3
  <2>4. CASE i > Len(s)
    <3> DEFINE x == i - Len(s)
               y == j - Len(s)
    <3>1. r[i] = t[x] /\ r[j] = t[y] /\ x \in DOMAIN t /\ y \in DOMAIN t /\ x # y
      BY <1>1, <1>2, <2>1, <2>4
    <3> HIDE DEF x, y
    <3> QED
      BY <3>1 DEF Injective
  <2> QED
    BY <1>1, <1>2, <2>2, <2>3, <2>4
<1>5. \A i \in DOMAIN r : r[i] \in Range(s) \cup Range(t)
  <2>1. SUFFICES ASSUME NEW i \in DOMAIN r PROVE r[i] \in Range(s) \cup Range(t)
    OBVIOUS
  <2>2. CASE i <= Len(s)
    <3>1. r[i] = s[i] /\ i \in DOMAIN s
      BY <1>1, <1>2, <2>2
    <3> QED
      BY <3>1 DEF Range
  <2>3. CASE ~(i <= Len(s))
    <3>1. r[i] = t[i - Len(s)] /\ i - Len(s) \in DOMAIN t
      BY <1>1, <1>2, <2>3
    <3> QED
      BY <3>1 DEF Range
  <2> QED
    BY <2>2, <2>3
<1>6. \A i \in DOMAIN s : s[i] \in Range(r)
  <2>1. SUFFICES ASSUME NEW i \in DOMAIN s PROVE s[i] \in Range(r)
    OBVIOUS
  <2>2. s[i] = r[i] /\ i \in DOMAIN r
    BY <1>1, <1>2
  <2> QED
    BY <2>2 DEF Range
<1>7. \A i \in DOMAIN t : t[i] \in Range(r)
  <2>1. SUFFICES ASSUME NEW i \in DOMAIN t PROVE t[i] \in Range(r)
    OBVIOUS
  <2>2. t[i] = r[i + Len(s)] /\ i + Len(s) \in DOMAIN r
    BY <1>1, <1>2
  <2> QED
    BY <2>2 DEF Range
<1>8. Range(r) = Range(s) \cup Range(t)
  BY <1>5, <1>6, <1>7 DEF Range
<1> QED
  BY <1>1, <1>4, <1>8 DEF r

\* tg_free_linked gives back all slots of a block but the first.
LEMMA TailGood ==
    ASSUME NEW a \in Arena, NEW B \in SUBSET Block, Good(a, B), NEW b \in B, b.n > 1
    PROVE  /\ FirstSlot(b) \in Block /\ FirstSlot(b).a = b.a
           /\ GiveBack(a, TailSlots(b)) \in Arena
           /\ Good(GiveBack(a, TailSlots(b)), (B \ {b}) \cup {FirstSlot(b)})
<1> DEFINE one == FirstSlot(b)
           tail == TailSlots(b)
           a2 == GiveBack(a, tail)
           B2 == (B \ {b}) \cup {one}
           I == b.slot + 1 .. b.slot + 1 + (b.n - 1) - 1
<1>1. b.slot \in Nat /\ b.n \in Nat /\ b \in Block
  BY BlockType
<1>0. one \in Block /\ one.a = b.a /\ one.slot = b.slot /\ one.n = 1
  BY <1>1, SizeAssumption DEF FirstSlot, Block
<1>2. /\ tail \in Seq(Slot) /\ Len(tail) = b.n - 1 /\ DOMAIN tail = 1 .. b.n - 1
      /\ \A j \in 1 .. b.n - 1 : tail[j] = b.slot + b.n - j
  <2>1. b.slot + b.n <= a.bump /\ a.bump \in 0 .. Cap
    BY ArenaType DEF Good, Owned
  <2>2. \A j \in 1 .. b.n - 1 : b.slot + b.n - j \in Slot
    BY <1>1, <2>1, SizeAssumption DEF Slot
  <2>3. b.n - 1 \in Nat
    BY <1>1
  <2> QED
    BY <2>2, <2>3 DEF TailSlots
<1> HIDE DEF one, tail
<1>20. /\ a2 \in Arena /\ a2.freelist = tail \o a.freelist
       /\ a2.bump = a.bump /\ a2.live = a.live - (b.n - 1)
  <2>1. tail \o a.freelist \in Seq(Slot) /\ a.live - (b.n - 1) \in Int
    BY <1>1, <1>2, FreelistType, ArenaType
  <2> DEFINE g == tail \o a.freelist
             n == a.live - (b.n - 1)
  <2>2. g \in Seq(Slot) /\ n \in Int /\ a2 = [a EXCEPT !.freelist = g, !.live = n]
    BY <1>2, <2>1 DEF GiveBack
  <2> HIDE DEF g, n, a2
  <2>3. a2 \in Arena /\ a2.bump = a.bump /\ a2.freelist = g /\ a2.live = n
    BY <2>2 DEF Arena
  <2> QED
    BY <2>3 DEF g, n
<1> HIDE DEF a2
<1>3. Range(tail) = I
  <2>1. Range(tail) \subseteq I
    BY <1>1, <1>2 DEF Range
  <2>2. ASSUME NEW x \in I PROVE x \in Range(tail)
    <3>1. b.slot + b.n - x \in 1 .. b.n - 1 /\ b.slot + b.n - (b.slot + b.n - x) = x
      BY <1>1
    <3>2. tail[b.slot + b.n - x] = x
      BY <3>1, <1>2
    <3> QED
      BY <3>1, <3>2, <1>2 DEF Range
  <2> QED
    BY <2>1, <2>2
<1>4. Injective(tail)
  BY <1>1, <1>2 DEF Injective
<1>5. Slots(b) = I \cup {b.slot} /\ b.slot \notin I /\ Slots(one) = {b.slot}
  BY <1>0, <1>1 DEF Slots
<1> HIDE DEF I
<1>6. HeldBy(B \ {b}) = HeldBy(B) \ Slots(b)
  BY HeldRemove DEF Good, Owned
<1>7. HeldBy(B2) = (HeldBy(B) \ Slots(b)) \cup {b.slot}
  BY <1>5, <1>6, HeldAdd
<1>8. Slots(b) \subseteq HeldBy(B)
  BY DEF HeldBy
<1>9. HeldBy(B2) = HeldBy(B) \ I /\ I \subseteq HeldBy(B)
  BY <1>5, <1>7, <1>8
<1>10. \A c \in B2 : c.slot + c.n <= a.bump
  BY <1>0, <1>1, SizeAssumption DEF Good, Owned, Arena
<1>11. \A c, d \in B2 : c # d => Slots(c) \cap Slots(d) = {}
  <2>1. \A c \in B \ {b} : Slots(c) \cap Slots(one) = {}
    BY <1>5 DEF Good, Owned
  <2> QED
    BY <2>1 DEF Good, Owned
<1>12. Range(a.freelist) \cap I = {}
  BY <1>9 DEF Good, Owned, HeldBy, Range
<1>13. Injective(a2.freelist) /\ Range(a2.freelist) = Range(a.freelist) \cup I
  <2>1. Injective(a.freelist) /\ a.freelist \in Seq(Slot)
    BY FreelistType DEF Good, Owned, Injective
  <2> QED
    BY <2>1, <1>2, <1>3, <1>4, <1>12, <1>20, Prepend
<1>14. IsFiniteSet(I) /\ Cardinality(I) = b.n - 1
  <2>1. b.slot + 1 \in Int /\ b.n - 1 \in Nat
    BY <1>1
  <2> QED
    BY <2>1, SlotsCount, Zenon DEF I
<1>15. B2 \in SUBSET Block /\ a2.live = a.live - Cardinality(I)
  BY <1>0, <1>14, <1>20
<1> HIDE DEF B2
<1>16. Good(a2, B2)
  BY <1>9, <1>10, <1>11, <1>13, <1>14, <1>15, <1>20, GiveGood
<1> QED
  BY <1>0, <1>16, <1>20 DEF B2, a2, one, tail

\* tg_free gives back a block of one slot.
LEMMA OneGood ==
    ASSUME NEW a \in Arena, NEW B \in SUBSET Block, Good(a, B), NEW b \in B, b.n = 1
    PROVE  GiveBack(a, <<b.slot>>) \in Arena /\ Good(GiveBack(a, <<b.slot>>), B \ {b})
<1> DEFINE a2 == GiveBack(a, <<b.slot>>)
<1>1. b.slot \in Nat /\ b.slot \in Slot /\ b \in Block
  BY BlockType DEF Block
<1>0. /\ a2 \in Arena /\ a2.freelist = <<b.slot>> \o a.freelist
      /\ a2.bump = a.bump /\ a2.live = a.live - 1
  <2>1. /\ <<b.slot>> \o a.freelist \in Seq(Slot) /\ Len(<<b.slot>>) = 1
        /\ a.live - 1 \in Int /\ a.bump \in 0 .. Cap
    BY <1>1, FreelistType, ArenaType
  <2> DEFINE g == <<b.slot>> \o a.freelist
             n == a.live - 1
  <2>2. g \in Seq(Slot) /\ n \in Int /\ a2 = [a EXCEPT !.freelist = g, !.live = n]
    BY <2>1 DEF GiveBack
  <2> HIDE DEF g, n, a2
  <2>3. a2 \in Arena /\ a2.bump = a.bump /\ a2.freelist = g /\ a2.live = n
    BY <2>2 DEF Arena
  <2> QED
    BY <2>3 DEF g, n
<1> HIDE DEF a2
<1>2. Slots(b) = b.slot .. b.slot + 1 - 1 /\ Slots(b) = {b.slot}
  BY <1>1 DEF Slots
<1>3. HeldBy(B \ {b}) = HeldBy(B) \ Slots(b)
  BY HeldRemove DEF Good, Owned
<1>4. Slots(b) \subseteq HeldBy(B)
  BY DEF HeldBy
<1>5. Injective(a2.freelist) /\ Range(a2.freelist) = Range(a.freelist) \cup Slots(b)
  <2> DEFINE s == <<b.slot>>
  <2>1. Injective(a.freelist) /\ a.freelist \in Seq(Slot)
    BY FreelistType DEF Good, Owned, Injective
  <2>2. s \in Seq(Slot) /\ DOMAIN s = {1} /\ s[1] = b.slot
    BY <1>1
  <2> HIDE DEF s
  <2>3. Injective(s) /\ Range(s) = Slots(b)
    BY <2>2, <1>2 DEF Injective, Range
  <2>4. Range(s) \cap Range(a.freelist) = {}
    BY <2>3 DEF Good, Owned, Range
  <2>5. /\ Injective(s \o a.freelist)
        /\ Range(s \o a.freelist) = Range(s) \cup Range(a.freelist)
    BY <2>1, <2>2, <2>3, <2>4, Prepend
  <2>6. a2.freelist = s \o a.freelist
    BY <1>0 DEF s
  <2> QED
    BY <2>3, <2>5, <2>6
<1>6. /\ \A c \in B \ {b} : c.slot + c.n <= a.bump
      /\ \A c, d \in B \ {b} : c # d => Slots(c) \cap Slots(d) = {}
  BY DEF Good, Owned
<1>7. IsFiniteSet(Slots(b)) /\ Cardinality(Slots(b)) = 1
  BY <1>2, FS_Singleton
<1>8. a2.live = a.live - Cardinality(Slots(b)) /\ B \ {b} \in SUBSET Block
  BY <1>0, <1>7
<1>9. Good(a2, B \ {b})
  BY <1>0, <1>3, <1>4, <1>5, <1>6, <1>7, <1>8, GiveGood
<1> QED
  BY <1>0, <1>9 DEF a2

\* An arena just mapped, which no client knows.
LEMMA FreshGood == FreshArena \in Arena /\ Good(FreshArena, {})
<1>1. FreshArena \in Arena
  BY SizeAssumption DEF FreshArena, Arena
<1>2. HeldBy({}) = {} /\ Cardinality({}) = 0
  BY FS_EmptySet DEF HeldBy
<1>3. DOMAIN <<>> = {} /\ 0 .. 0 - 1 = {}
  OBVIOUS
<1>4. FreshArena.freelist = <<>> /\ FreshArena.bump = 0 /\ FreshArena.live = 0
  BY DEF FreshArena
<1>5. Owned(FreshArena, {}) /\ Complete(FreshArena, {}) /\ Counted(FreshArena, {})
  BY <1>2, <1>3, <1>4 DEF Owned, Complete, Counted
<1> QED
  BY <1>1, <1>5 DEF Good

-----------------------------------------------------------------------------
(* The state *)

\* The arenas of the chain and their blocks have their types.
LEMMA ChainType ==
    ASSUME TypeOK
    PROVE  /\ Range(chain) \subseteq Stripe
           /\ \A s \in Stripe : ar[s] \in Arena /\ In(s) \in SUBSET Block
           /\ chain[1] \in Range(chain)
           /\ Len(chain) \in Nat /\ Len(chain) > 0 /\ DOMAIN chain = 1 .. Len(chain)
<1>1. chain \in Seq(Stripe) /\ chain # <<>>
  BY DEF TypeOK
<1>2. \A i \in DOMAIN chain : chain[i] \in Stripe
  BY <1>1
<1>3. Len(chain) \in Nat /\ Len(chain) > 0 /\ DOMAIN chain = 1 .. Len(chain)
  BY <1>1
<1>4. 1 \in DOMAIN chain
  BY <1>3
<1>5. \A s \in Stripe : ar[s] \in Arena /\ In(s) \in SUBSET Block
  BY DEF TypeOK, In
<1> QED
  BY <1>2, <1>3, <1>4, <1>5 DEF Range

\* One arena of the chain changes and its blocks with it.
LEMMA OneArena ==
    ASSUME TypeOK, Mapped, AllGood, NEW h \in Range(chain), NEW a2 \in Arena,
           chain' = chain, ar' = [ar EXCEPT ![h] = a2],
           \A s \in Stripe : s # h => In(s)' = In(s),
           \A b \in blocks' : b \in blocks \/ b.a = h,
           Good(a2, In(h)')
    PROVE  Mapped' /\ AllGood' /\ ar' \in [Stripe -> Arena]
<1>1. ar' \in [Stripe -> Arena]
  BY DEF TypeOK
<1>2. h \in Stripe /\ ar'[h] = a2
  BY ChainType DEF TypeOK
<1>3. Mapped'
  BY DEF Mapped
<1>4. ASSUME NEW s \in Range(chain') PROVE Good(ar'[s], In(s)')
  <2>1. s \in Stripe /\ s \in Range(chain)
    BY ChainType
  <2>2. CASE s = h
    BY <1>2, <2>2
  <2>3. CASE s # h
    <3>1. ar'[s] = ar[s] /\ In(s)' = In(s)
      BY <2>1, <2>3 DEF TypeOK
    <3> QED
      BY <3>1, <2>1 DEF AllGood
  <2> QED
    BY <2>2, <2>3
<1> QED
  BY <1>1, <1>3, <1>4 DEF AllGood

\* A block is taken from an arena of the chain.
LEMMA BlockTaken ==
    ASSUME TypeOK, Mapped, AllGood, NEW h \in Range(chain), NEW a2 \in Arena, NEW b \in Block,
           b.a = h, blocks' = blocks \cup {b},
           chain' = chain, ar' = [ar EXCEPT ![h] = a2],
           Good(a2, In(h) \cup {b})
    PROVE  Mapped' /\ AllGood' /\ ar' \in [Stripe -> Arena]
<1>1. \A s \in Stripe : s # h => In(s)' = In(s)
  BY DEF In
<1>2. In(h)' = In(h) \cup {b}
  BY DEF In
<1>3. \A c \in blocks' : c \in blocks \/ c.a = h
  OBVIOUS
<1> QED
  BY <1>1, <1>2, <1>3, OneArena

\* An arena is mapped and put in front of the chain with the blocks N in it.
LEMMA ArenaMapped ==
    ASSUME TypeOK, ChainAndStack, Mapped, AllGood,
           NEW s \in Stripe, MapArena(s), NEW a2 \in Arena, NEW N \in SUBSET Block,
           ar' = [ar EXCEPT ![s] = a2], blocks' = blocks \cup N,
           \A b \in N : b.a = s, Good(a2, N)
    PROVE  /\ Mapped' /\ AllGood' /\ ar' \in [Stripe -> Arena]
           /\ chain' \in Seq(Stripe) /\ chain' # <<>>
           /\ stripe_next' \in 0 .. MaxStripes
           /\ \A i, j \in DOMAIN chain' : i # j => chain'[i] # chain'[j]
           /\ \A i \in DOMAIN chain' : chain'[i] < stripe_next'
<1>1. /\ s >= stripe_next /\ stripe_next' = s + 1 /\ chain' = <<s>> \o chain
      /\ s \in Nat /\ stripe_next \in Int /\ chain \in Seq(Stripe)
  BY DEF MapArena, TypeOK, Stripe
<1>2. /\ Len(chain) \in Nat /\ DOMAIN chain = 1 .. Len(chain)
      /\ \A i \in 1 .. Len(chain) : chain[i] \in Stripe /\ chain[i] \in Int
  <2>1. Stripe \subseteq Int
    BY DEF Stripe
  <2>2. \A i \in 1 .. Len(chain) : chain[i] \in Stripe
    BY <1>1
  <2>3. Len(chain) \in Nat /\ DOMAIN chain = 1 .. Len(chain)
    BY <1>1
  <2> QED
    BY <2>1, <2>2, <2>3
<1>3. /\ chain' \in Seq(Stripe) /\ chain' # <<>> /\ DOMAIN chain' = 1 .. Len(chain) + 1
      /\ chain'[1] = s /\ \A i \in 2 .. Len(chain) + 1 : chain'[i] = chain[i - 1]
  BY <1>1, <1>2
<1>4. s \notin Range(chain)
  BY <1>1, <1>2 DEF ChainAndStack, Range
<1>5. Range(chain') = {s} \cup Range(chain)
  <2>1. \A i \in DOMAIN chain' : chain'[i] \in {s} \cup Range(chain)
    <3>1. SUFFICES ASSUME NEW i \in DOMAIN chain' PROVE chain'[i] \in {s} \cup Range(chain)
      OBVIOUS
    <3>2. CASE i = 1
      BY <1>3, <3>2
    <3>3. CASE i # 1
      <4>1. chain'[i] = chain[i - 1] /\ i - 1 \in DOMAIN chain
        BY <1>2, <1>3, <3>3
      <4> QED
        BY <4>1 DEF Range
    <3> QED
      BY <3>2, <3>3
  <2>2. s \in Range(chain')
    BY <1>2, <1>3 DEF Range
  <2>3. ASSUME NEW i \in DOMAIN chain PROVE chain[i] \in Range(chain')
    <3>1. chain[i] = chain'[i + 1] /\ i + 1 \in DOMAIN chain'
      BY <1>2, <1>3
    <3> QED
      BY <3>1 DEF Range
  <2> QED
    BY <2>1, <2>2, <2>3 DEF Range
<1>6. ar' \in [Stripe -> Arena] /\ ar'[s] = a2
  BY DEF TypeOK
<1>7. Mapped'
  BY <1>5 DEF Mapped
<1>8. AllGood'
  <2>1. SUFFICES ASSUME NEW t \in Range(chain') PROVE Good(ar'[t], In(t)')
    BY DEF AllGood
  <2>2. CASE t = s
    <3>1. In(s)' = N
      BY <1>4 DEF In, Mapped
    <3> QED
      BY <2>2, <3>1, <1>6
  <2>3. CASE t # s
    <3>1. t \in Range(chain) /\ t \in Stripe
      BY <1>5, <2>3, ChainType
    <3>2. In(t)' = In(t) /\ ar'[t] = ar[t]
      BY <2>3, <3>1 DEF In, TypeOK
    <3> QED
      BY <3>1, <3>2 DEF AllGood
  <2> QED
    BY <2>2, <2>3
<1>9. stripe_next' \in 0 .. MaxStripes
  BY <1>1, SizeAssumption DEF Stripe
<1>10. \A i \in DOMAIN chain' : chain'[i] < stripe_next'
  <2>1. SUFFICES ASSUME NEW i \in DOMAIN chain' PROVE chain'[i] < stripe_next'
    OBVIOUS
  <2>2. CASE i = 1
    BY <1>1, <1>3, <2>2
  <2>3. CASE i # 1
    <3> DEFINE j == i - 1
    <3>1. chain'[i] = chain[j] /\ j \in DOMAIN chain
      BY <1>2, <1>3, <2>3
    <3> HIDE DEF j
    <3>2. chain[j] < stripe_next /\ chain[j] \in Int
      BY <1>2, <3>1 DEF ChainAndStack
    <3> QED
      BY <1>1, <3>1, <3>2
  <2> QED
    BY <2>2, <2>3
<1>11. \A i, j \in DOMAIN chain' : i # j => chain'[i] # chain'[j]
  <2>1. SUFFICES ASSUME NEW i \in DOMAIN chain', NEW j \in DOMAIN chain', i < j
                 PROVE  chain'[i] # chain'[j]
    BY <1>2, <1>3
  <2> DEFINE x == i - 1
             y == j - 1
  <2>2. chain'[j] = chain[y] /\ y \in DOMAIN chain
    BY <1>2, <1>3, <2>1
  <2>3. CASE i = 1
    BY <1>3, <1>4, <2>2, <2>3 DEF Range
  <2>4. CASE i # 1
    <3>1. chain'[i] = chain[x] /\ x \in DOMAIN chain /\ x # y
      BY <1>2, <1>3, <2>1, <2>4
    <3> HIDE DEF x, y
    <3> QED
      BY <2>2, <3>1 DEF ChainAndStack
  <2> QED
    BY <2>3, <2>4
<1> QED
  BY <1>3, <1>6, <1>7, <1>8, <1>9, <1>10, <1>11

\* The frees in progress are untouched while the blocks only grow.
LEMMA StackKept ==
    ASSUME ChainAndStack, freeing' = freeing, blocks \subseteq blocks',
           \A i, j \in DOMAIN chain' : i # j => chain'[i] # chain'[j],
           \A i \in DOMAIN chain' : chain'[i] < stripe_next'
    PROVE  ChainAndStack'
BY DEF ChainAndStack

\* tg_arena_alloc hands out one slot of a good arena and leaves it good.
LEMMA AllocGood ==
    ASSUME NEW a \in Arena, NEW B \in SUBSET Block, Good(a, B), CanAlloc(a), NEW h \in Stripe,
           NEW b, b = [a |-> h, slot |-> AllocSlot(a), n |-> 1]
    PROVE  AfterAlloc(a) \in Arena /\ b \in Block /\ b.a = h /\ Good(AfterAlloc(a), B \cup {b})
<1> DEFINE f == a.freelist
           a2 == AfterAlloc(a)
<1>1. /\ f \in Seq(Slot) /\ Injective(f) /\ a.bump \in 0 .. Cap /\ a.live \in Int
      /\ b.a = h /\ b.n = 1 /\ b.slot = AllocSlot(a)
  BY DEF Good, Owned, Injective, Arena
<1>2. 1 \in 1 .. Cap
  BY SizeAssumption
<1>3. CASE f # <<>>
  <2>1. 1 \in 1 .. Len(f) /\ f[1] \in Slot
    BY <1>1, <1>3
  <2>2. f[1] \in Int
    BY <2>1 DEF Slot
  <2>3. 1 + b.n - 1 <= Len(f) /\ \A j \in 0 .. b.n - 1 : f[1 + j] = f[1] + j
    BY <1>1, <2>1, <2>2
  <2>4. b.slot = f[1] /\ b \in Block
    BY <1>1, <1>2, <1>3, <2>1 DEF AllocSlot, Block
  <2>5. a2 = TakeRun(a, 1, b.n)
    BY <1>1, <1>3 DEF AfterAlloc
  <2>6. a2 \in Arena /\ Good(a2, B \cup {b})
    BY <2>1, <2>3, <2>4, <2>5, RunGood
  <2> QED
    BY <1>1, <2>4, <2>6
<1>4. CASE f = <<>>
  <2>1. a.bump < Cap /\ a.bump \in Slot
    BY <1>1, <1>4, SizeAssumption DEF CanAlloc, Slot
  <2>2. b.slot = a.bump /\ b \in Block /\ a.bump + b.n <= Cap
    BY <1>1, <1>2, <1>4, <2>1, SizeAssumption DEF AllocSlot, Block
  <2>3. a2 = TakeBump(a, b.n)
    BY <1>1, <1>4 DEF AfterAlloc
  <2>4. a2 \in Arena /\ Good(a2, B \cup {b})
    BY <2>2, <2>3, BumpGood
  <2> QED
    BY <1>1, <2>2, <2>4
<1> QED
  BY <1>3, <1>4

-----------------------------------------------------------------------------
(* The actions *)

\* tg_alloc serves the request from the head arena.
LEMMA AllocHeadStep ==
    ASSUME IInv, AllocHead
    PROVE  IInv'
<1> DEFINE h == chain[1]
           a == ar[h]
           a2 == AfterAlloc(a)
           b == [a |-> h, slot |-> AllocSlot(a), n |-> 1]
<1>1. TypeOK /\ ChainAndStack /\ Mapped /\ AllGood
  BY IInvParts
<1>2. h \in Range(chain) /\ h \in Stripe /\ a \in Arena /\ In(h) \in SUBSET Block
  BY <1>1, ChainType
<1>3. /\ CanAlloc(a) /\ blocks' = blocks \cup {b} /\ ar' = [ar EXCEPT ![h] = a2]
      /\ chain' = chain /\ stripe_next' = stripe_next /\ freeing' = freeing /\ op' = op /\ op = Idle
  BY DEF AllocHead, NewBlock
<1>4. Good(a, In(h))
  BY <1>1, <1>2 DEF AllGood
<1> HIDE DEF a, h
<1>5. a2 \in Arena /\ b \in Block /\ b.a = h /\ Good(a2, In(h) \cup {b})
  BY <1>2, <1>3, <1>4, AllocGood
<1> HIDE DEF a2, b
<1>6. Mapped' /\ AllGood' /\ ar' \in [Stripe -> Arena]
  BY <1>1, <1>2, <1>3, <1>5, BlockTaken
<1>7. TypeOK'
  BY <1>1, <1>3, <1>5, <1>6 DEF TypeOK, Idle
<1>8. ChainAndStack'
  BY <1>1, <1>3, StackKept DEF ChainAndStack
<1> QED
  BY <1>6, <1>7, <1>8 DEF IInv, OneOwner, LiveCount, NoSlotLost, Mapped, AllGood, Good

\* tg_alloc maps a new arena when the head is full.
LEMMA AllocNewArenaStep ==
    ASSUME IInv, AllocNewArena
    PROVE  IInv'
<1>1. TypeOK /\ ChainAndStack /\ Mapped /\ AllGood
  BY IInvParts
<1>2. PICK s \in Stripe : /\ MapArena(s)
                          /\ NewBlock(s, 0, 1)
                          /\ ar' = [ar EXCEPT ![s] = AfterAlloc(FreshArena)]
  BY DEF AllocNewArena
<1> DEFINE a == FreshArena
           a2 == AfterAlloc(a)
           b == [a |-> s, slot |-> AllocSlot(a), n |-> 1]
<1>3. CanAlloc(a) /\ AllocSlot(a) = 0
  BY SizeAssumption DEF CanAlloc, AllocSlot, FreshArena
<1>4. a2 \in Arena /\ b \in Block /\ b.a = s /\ Good(a2, {} \cup {b})
  <2>1. a \in Arena /\ Good(a, {}) /\ {} \in SUBSET Block
    BY FreshGood
  <2> HIDE DEF a
  <2> QED
    BY <1>3, <2>1, AllocGood
<1>5. {b} \in SUBSET Block /\ Good(a2, {b}) /\ blocks' = blocks \cup {b} /\ \A c \in {b} : c.a = s
  BY <1>2, <1>3, <1>4 DEF NewBlock
<1>6. freeing' = freeing /\ op' = op /\ op = Idle
  BY DEF AllocNewArena
<1> HIDE DEF a, a2, b
<1>7. /\ Mapped' /\ AllGood' /\ ar' \in [Stripe -> Arena]
      /\ chain' \in Seq(Stripe) /\ chain' # <<>>
      /\ stripe_next' \in 0 .. MaxStripes
      /\ \A i, j \in DOMAIN chain' : i # j => chain'[i] # chain'[j]
      /\ \A i \in DOMAIN chain' : chain'[i] < stripe_next'
  BY <1>1, <1>2, <1>4, <1>5, ArenaMapped DEF a2, a
<1>8. TypeOK'
  BY <1>1, <1>5, <1>6, <1>7 DEF TypeOK, Idle
<1>9. ChainAndStack'
  BY <1>1, <1>5, <1>6, <1>7, StackKept
<1> QED
  BY <1>7, <1>8, <1>9 DEF IInv, OneOwner, LiveCount, NoSlotLost, Mapped, AllGood, Good

\* No stripe is left: only the counter moves.
LEMMA MapFailsStep ==
    ASSUME IInv, MapFails, UNCHANGED <<chain, ar, blocks, freeing>>
    PROVE  Mapped' /\ AllGood' /\ ChainAndStack' /\ stripe_next' \in 0 .. MaxStripes
<1>1. TypeOK /\ ChainAndStack /\ Mapped /\ AllGood
  BY IInvParts
<1>2. Mapped' /\ AllGood'
  BY <1>1 DEF Mapped, AllGood, In
<1>3. stripe_next' = MaxStripes /\ MaxStripes \in Nat
  BY SizeAssumption DEF MapFails
<1>4. \A i \in DOMAIN chain : chain[i] < MaxStripes
  <2>1. \A s \in Stripe : s < MaxStripes
    BY <1>3 DEF Stripe
  <2> QED
    BY <1>1, <2>1, ChainType DEF Range
<1>5. ChainAndStack'
  BY <1>1, <1>3, <1>4 DEF ChainAndStack
<1> QED
  BY <1>2, <1>3, <1>5

\* tg_alloc returns NULL.
LEMMA AllocFailsStep ==
    ASSUME IInv, AllocFails
    PROVE  IInv'
<1>1. Mapped' /\ AllGood' /\ ChainAndStack' /\ stripe_next' \in 0 .. MaxStripes
  BY MapFailsStep DEF AllocFails
<1>2. TypeOK'
  BY <1>1 DEF IInv, TypeOK, AllocFails, Idle
<1> QED
  BY <1>1, <1>2 DEF IInv, OneOwner, LiveCount, NoSlotLost, Mapped, AllGood, Good

\* Steps that only move the call in progress along.
LEMMA OpStep ==
    ASSUME IInv, UNCHANGED <<chain, ar, stripe_next, blocks, freeing>>, TypeOK'
    PROVE  IInv'
<1>1. ChainAndStack' /\ Mapped' /\ AllGood'
  BY DEF IInv, ChainAndStack, OneOwner, LiveCount, NoSlotLost, Mapped, AllGood, Good, In
<1> QED
  BY <1>1 DEF IInv, OneOwner, LiveCount, NoSlotLost, Mapped, AllGood, Good

\* tg_alloc_linked begins with the head arena.
LEMMA LinkedBeginStep ==
    ASSUME IInv, NEW n \in 1 .. MaxCount, LinkedBegin(n)
    PROVE  IInv'
<1>1. TypeOK
  BY DEF IInv
<1>2. Len(chain) \in Nat /\ Len(chain) > 0
  BY <1>1, ChainType
<1>3. TypeOK'
  BY <1>1, <1>2 DEF TypeOK, LinkedBegin, Sorting
<1> QED
  BY <1>3, OpStep DEF LinkedBegin

\* What is known while a freelist is being sorted.
LEMMA SortFacts ==
    ASSUME IInv, op.kind = "sort"
    PROVE  /\ SortArena \in Range(chain) /\ SortArena \in Stripe
           /\ ar[SortArena] \in Arena /\ In(SortArena) \in SUBSET Block
           /\ Good(ar[SortArena], In(SortArena))
           /\ op.n \in 1 .. MaxCount /\ op.i \in Nat \ {0} /\ op.i <= Len(chain)
           /\ op.pos \in Nat \ {0} /\ op.swapped \in BOOLEAN
<1>1. TypeOK /\ AllGood
  BY IInvParts
<1>2. /\ op \in [kind : {"sort"}, n : 1 .. MaxCount, i : Nat \ {0}, pos : Nat \ {0},
                 swapped : BOOLEAN]
      /\ op.i <= Len(chain)
  BY <1>1 DEF TypeOK, Idle
<1>3. op.i \in DOMAIN chain
  BY <1>1, <1>2, ChainType
<1>4. SortArena \in Range(chain)
  BY <1>3 DEF SortArena, Range
<1> QED
  BY <1>1, <1>2, <1>4, ChainType DEF AllGood

\* The call in progress stays well typed as it moves on in the chain.
LEMMA SortOp ==
    ASSUME TypeOK, UNCHANGED <<chain, stripe_next, blocks, freeing>>,
           ar' \in [Stripe -> Arena],
           NEW n \in 1 .. MaxCount, NEW i \in Nat \ {0}, NEW pos \in Nat \ {0},
           NEW sw \in BOOLEAN, i <= Len(chain), op' = Sorting(n, i, pos, sw)
    PROVE  TypeOK'
<1>1. /\ op' \in [kind : {"sort"}, n : 1 .. MaxCount, i : Nat \ {0}, pos : Nat \ {0},
                  swapped : BOOLEAN]
      /\ op'.i = i
  BY DEF Sorting
<1> QED
  BY <1>1 DEF TypeOK

\* One comparison of the bubble sort.
LEMMA SortStepStep ==
    ASSUME IInv, SortStep
    PROVE  IInv'
<1>0. PICK s : s = SortArena
  OBVIOUS
<1> DEFINE a == ar[s]
           p == op.pos
<1>1. TypeOK /\ ChainAndStack /\ Mapped /\ AllGood
  BY IInvParts
<1>2. /\ s \in Range(chain) /\ s \in Stripe /\ a \in Arena /\ In(s) \in SUBSET Block
      /\ Good(a, In(s))
      /\ op.n \in 1 .. MaxCount /\ op.i \in Nat \ {0} /\ op.i <= Len(chain)
      /\ p \in Nat \ {0} /\ op.swapped \in BOOLEAN
  BY <1>0, SortFacts DEF SortStep
<1>3. UNCHANGED <<chain, stripe_next, blocks, freeing>>
  BY DEF SortStep
<1>4. \/ op' = Sorting(op.n, op.i, p + 1, TRUE)
      \/ op' = Sorting(op.n, op.i, p + 1, op.swapped)
  BY DEF SortStep
<1>5. CASE UNCHANGED ar
  <2>1. TypeOK'
    <3>1. p + 1 \in Nat \ {0} /\ TRUE \in BOOLEAN /\ ar' \in [Stripe -> Arena]
      BY <1>1, <1>2, <1>5 DEF TypeOK
    <3> QED
      BY <1>1, <1>2, <1>3, <1>4, <3>1, SortOp
  <2> QED
    BY <1>3, <1>5, <2>1, OpStep
<1>6. CASE ar' = [ar EXCEPT ![s] = Swap(a, p)]
  <2>1. p \in 1 .. Len(a.freelist) - 1
    <3>1. p < Len(a.freelist) /\ Len(a.freelist) \in Nat
      BY <1>2, FreelistType, <1>0 DEF SortStep, SortList
    <3> QED
      BY <1>2, <3>1
  <2> DEFINE a2 == Swap(a, p)
  <2>2. a2 \in Arena /\ Good(a2, In(s))
    <3> HIDE DEF a, p
    <3> QED
      BY <1>2, <2>1, SwapGood
  <2>3. In(s)' = In(s) /\ \A t \in Stripe : t # s => In(t)' = In(t)
    BY <1>3 DEF In
  <2>4. \A b \in blocks' : b \in blocks \/ b.a = s
    BY <1>3
  <2>40. Good(a2, In(s)')
    BY <2>2, <2>3
  <2> HIDE DEF a, a2, p
  <2>5. Mapped' /\ AllGood' /\ ar' \in [Stripe -> Arena]
    BY <1>1, <1>2, <1>3, <1>6, <2>2, <2>3, <2>4, <2>40, OneArena DEF a2, a
  <2>6. TypeOK'
    <3>1. p + 1 \in Nat \ {0} /\ TRUE \in BOOLEAN
      BY <1>2
    <3> QED
      BY <1>1, <1>2, <1>3, <1>4, <2>5, <3>1, SortOp DEF p
  <2>7. ChainAndStack'
    BY <1>1, <1>3 DEF ChainAndStack
  <2> QED
    BY <2>5, <2>6, <2>7 DEF IInv, OneOwner, LiveCount, NoSlotLost, Mapped, AllGood, Good
<1> QED
  BY <1>0, <1>5, <1>6 DEF SortStep

\* A run of the freelist is taken.
LEMMA LinkedFromListStep ==
    ASSUME IInv, LinkedFromList
    PROVE  IInv'
<1> DEFINE s == SortArena
           a == ar[s]
           f == a.freelist
           n == op.n
<1>1. TypeOK /\ ChainAndStack /\ Mapped /\ AllGood
  BY IInvParts
<1>2. /\ s \in Range(chain) /\ s \in Stripe /\ a \in Arena /\ In(s) \in SUBSET Block
      /\ Good(a, In(s)) /\ n \in 1 .. MaxCount
  BY SortFacts DEF LinkedFromList, PassDone
<1>3. PICK k \in RunStarts(f, n) : /\ NewBlock(s, f[k], n)
                                   /\ ar' = [ar EXCEPT ![s] = TakeRun(a, k, n)]
  BY DEF LinkedFromList, SortList
<1>4. op' = Idle /\ UNCHANGED <<chain, stripe_next, freeing>>
  BY DEF LinkedFromList
<1> HIDE DEF a, f, n, s
<1>5. /\ k \in 1 .. Len(f) /\ k + n - 1 <= Len(f) /\ n \in Nat \ {0}
      /\ \A j \in 0 .. n - 1 : f[k + j] = f[k] + j
  <2>1. Len(f) \in Nat
    BY <1>2, FreelistType DEF f
  <2>2. n \in Nat \ {0}
    BY <1>2
  <2> QED
    BY <1>3, <2>1, <2>2 DEF RunStarts
<1>6. f[k] \in Slot /\ f[k] + n <= Cap
  <2>1. f \in Seq(Slot) /\ Injective(f)
    BY <1>2, FreelistType DEF f, Good, Owned, Injective
  <2> QED
    BY <1>5, <2>1, RunRemoved
<1> DEFINE b == [a |-> s, slot |-> f[k], n |-> n]
           a2 == TakeRun(a, k, n)
<1>7. b \in Block /\ b.a = s /\ b.slot = f[k] /\ b.n = n /\ blocks' = blocks \cup {b}
  <2>1. n \in 1 .. Cap
    BY <1>5, <1>6, SizeAssumption DEF Slot
  <2> QED
    BY <1>2, <1>3, <1>6, <2>1 DEF Block, NewBlock
<1> HIDE DEF b, a2
<1>8. a2 \in Arena /\ Good(a2, In(s) \cup {b})
  BY <1>2, <1>5, <1>7, RunGood DEF a2, f
<1>9. Mapped' /\ AllGood' /\ ar' \in [Stripe -> Arena]
  BY <1>1, <1>2, <1>3, <1>4, <1>7, <1>8, BlockTaken DEF a2
<1>10. TypeOK'
  BY <1>1, <1>4, <1>7, <1>9 DEF TypeOK, Idle
<1>11. ChainAndStack'
  BY <1>1, <1>4, <1>7 DEF ChainAndStack
<1> QED
  BY <1>9, <1>10, <1>11 DEF IInv, OneOwner, LiveCount, NoSlotLost, Mapped, AllGood, Good

\* n slots are taken above the bump pointer.
LEMMA LinkedFromBumpStep ==
    ASSUME IInv, LinkedFromBump
    PROVE  IInv'
<1> DEFINE s == SortArena
           a == ar[s]
           n == op.n
           b == [a |-> s, slot |-> a.bump, n |-> n]
           a2 == TakeBump(a, n)
<1>1. TypeOK /\ ChainAndStack /\ Mapped /\ AllGood
  BY IInvParts
<1>2. /\ s \in Range(chain) /\ s \in Stripe /\ a \in Arena /\ In(s) \in SUBSET Block
      /\ Good(a, In(s)) /\ n \in 1 .. MaxCount
  BY SortFacts DEF LinkedFromBump, Sorted, PassDone
<1>3. /\ a.bump + n <= Cap /\ blocks' = blocks \cup {b} /\ ar' = [ar EXCEPT ![s] = a2]
      /\ op' = Idle /\ UNCHANGED <<chain, stripe_next, freeing>>
  BY DEF LinkedFromBump, NewBlock
<1> HIDE DEF a, n, s
<1>4. b \in Block /\ b.a = s /\ b.slot = a.bump /\ b.n = n
  <2>1. a.bump \in 0 .. Cap
    BY <1>2, ArenaType
  <2>2. n \in 1 .. Cap /\ a.bump \in Slot
    BY <1>2, <1>3, <2>1, SizeAssumption DEF Slot
  <2> QED
    BY <1>2, <2>2 DEF Block
<1> HIDE DEF b
<1>5. a2 \in Arena /\ Good(a2, In(s) \cup {b})
  BY <1>2, <1>3, <1>4, BumpGood
<1> HIDE DEF a2
<1>6. Mapped' /\ AllGood' /\ ar' \in [Stripe -> Arena]
  BY <1>1, <1>2, <1>3, <1>4, <1>5, BlockTaken
<1>7. TypeOK'
  BY <1>1, <1>3, <1>4, <1>6 DEF TypeOK, Idle
<1>8. ChainAndStack'
  BY <1>1, <1>3 DEF ChainAndStack
<1> QED
  BY <1>6, <1>7, <1>8 DEF IInv, OneOwner, LiveCount, NoSlotLost, Mapped, AllGood, Good

\* Another pass over the freelist, or the next arena.
LEMMA SortOnStep ==
    ASSUME IInv, SortAgain \/ LinkedNextArena
    PROVE  IInv'
<1>1. TypeOK /\ op.kind = "sort"
  BY DEF IInv, SortAgain, LinkedNextArena, Sorted, PassDone
<1>2. op.n \in 1 .. MaxCount /\ op.i \in Nat \ {0} /\ op.i <= Len(chain) /\ Len(chain) \in Nat
  BY <1>1, SortFacts, ChainType
<1>3. \/ op' = Sorting(op.n, op.i, 1, FALSE)
      \/ op' = Sorting(op.n, op.i + 1, 1, FALSE) /\ op.i < Len(chain)
  BY DEF SortAgain, LinkedNextArena
<1>4. UNCHANGED <<chain, ar, stripe_next, blocks, freeing>>
  BY DEF SortAgain, LinkedNextArena
<1>5. TypeOK'
  <2>1. 1 \in Nat \ {0} /\ FALSE \in BOOLEAN /\ ar' \in [Stripe -> Arena]
    BY <1>1, <1>4 DEF TypeOK
  <2>2. op.i + 1 \in Nat \ {0} /\ (op.i < Len(chain) => op.i + 1 <= Len(chain))
    BY <1>2
  <2> QED
    BY <1>1, <1>2, <1>3, <1>4, <2>1, <2>2, SortOp
<1> QED
  BY <1>4, <1>5, OpStep

\* A new arena serves the linked request, or is too small for it.
LEMMA LinkedNewArenaStep ==
    ASSUME IInv, LinkedNewArena
    PROVE  IInv'
<1> DEFINE n == op.n
           a == FreshArena
<1>1. TypeOK /\ ChainAndStack /\ Mapped /\ AllGood
  BY IInvParts
<1>2. n \in 1 .. MaxCount
  BY SortFacts DEF LinkedNewArena, Sorted, PassDone
<1>3. PICK s \in Stripe :
          /\ MapArena(s)
          /\ \/ /\ n <= Cap /\ NewBlock(s, 0, n)
                /\ ar' = [ar EXCEPT ![s] = TakeBump(a, n)]
             \/ ar' = [ar EXCEPT ![s] = a] /\ blocks' = blocks
  BY DEF LinkedNewArena
<1>4. op' = Idle /\ freeing' = freeing
  BY DEF LinkedNewArena
<1>5. a \in Arena /\ Good(a, {}) /\ {} \in SUBSET Block /\ a.bump = 0
  BY FreshGood DEF FreshArena
<1> HIDE DEF n, a
<1>6. \E a2 \in Arena, N \in SUBSET Block :
         /\ ar' = [ar EXCEPT ![s] = a2] /\ blocks' = blocks \cup N
         /\ Good(a2, N) /\ \A b \in N : b.a = s
  <2>1. CASE n <= Cap /\ NewBlock(s, 0, n) /\ ar' = [ar EXCEPT ![s] = TakeBump(a, n)]
    <3> DEFINE b == [a |-> s, slot |-> 0, n |-> n]
    <3>1. b \in Block /\ b.a = s /\ b.slot = a.bump /\ b.n = n /\ a.bump + n <= Cap
      BY <1>2, <1>5, <2>1, SizeAssumption DEF Block, Slot
    <3>2. blocks' = blocks \cup {b}
      BY <2>1 DEF NewBlock
    <3> HIDE DEF b
    <3>3. TakeBump(a, n) \in Arena /\ Good(TakeBump(a, n), {} \cup {b})
      BY <1>5, <3>1, BumpGood
    <3>4. {b} \in SUBSET Block /\ Good(TakeBump(a, n), {b}) /\ \A c \in {b} : c.a = s
      BY <3>1, <3>3
    <3> QED
      BY <2>1, <3>2, <3>3, <3>4, Zenon
  <2>2. CASE ar' = [ar EXCEPT ![s] = a] /\ blocks' = blocks
    <3>1. blocks' = blocks \cup {}
      BY <2>2
    <3> QED
      BY <1>5, <2>2, <3>1, Zenon
  <2> QED
    BY <1>3, <2>1, <2>2
<1>7. PICK a2 \in Arena, N \in SUBSET Block :
         /\ ar' = [ar EXCEPT ![s] = a2] /\ blocks' = blocks \cup N
         /\ Good(a2, N) /\ \A b \in N : b.a = s
  BY <1>6
<1>8. /\ Mapped' /\ AllGood' /\ ar' \in [Stripe -> Arena]
      /\ chain' \in Seq(Stripe) /\ chain' # <<>>
      /\ stripe_next' \in 0 .. MaxStripes
      /\ \A i, j \in DOMAIN chain' : i # j => chain'[i] # chain'[j]
      /\ \A i \in DOMAIN chain' : chain'[i] < stripe_next'
  BY <1>1, <1>3, <1>7, ArenaMapped
<1>9. TypeOK'
  BY <1>1, <1>4, <1>7, <1>8 DEF TypeOK, Idle
<1>10. ChainAndStack'
  BY <1>1, <1>4, <1>7, <1>8, StackKept
<1> QED
  BY <1>8, <1>9, <1>10 DEF IInv, OneOwner, LiveCount, NoSlotLost, Mapped, AllGood, Good

\* tg_alloc_linked returns NULL.
LEMMA LinkedFailsStep ==
    ASSUME IInv, LinkedFails
    PROVE  IInv'
<1>1. Mapped' /\ AllGood' /\ ChainAndStack' /\ stripe_next' \in 0 .. MaxStripes
  BY MapFailsStep DEF LinkedFails
<1>2. TypeOK'
  BY <1>1 DEF IInv, TypeOK, LinkedFails, Idle
<1> QED
  BY <1>1, <1>2 DEF IInv, OneOwner, LiveCount, NoSlotLost, Mapped, AllGood, Good

\* tg_free enters a destructor.
LEMMA FreeBeginStep ==
    ASSUME IInv, NEW b \in blocks, FreeBegin(b)
    PROVE  IInv'
<1>1. TypeOK /\ ChainAndStack /\ Mapped /\ AllGood
  BY IInvParts
<1>2. /\ freeing' = <<b>> \o freeing /\ b \notin Range(freeing)
      /\ UNCHANGED <<chain, ar, stripe_next, blocks, op>>
  BY DEF FreeBegin
<1>3. freeing \in Seq(Block) /\ b \in Block
  BY <1>1 DEF TypeOK
<1>4. /\ freeing' \in Seq(Block) /\ Len(freeing) \in Nat
      /\ DOMAIN freeing = 1 .. Len(freeing) /\ DOMAIN freeing' = 1 .. Len(freeing) + 1
      /\ freeing'[1] = b /\ \A i \in 2 .. Len(freeing) + 1 : freeing'[i] = freeing[i - 1]
  BY <1>2, <1>3
<1>5. TypeOK'
  BY <1>1, <1>2, <1>4 DEF TypeOK
<1>6. \A i \in DOMAIN freeing' : i # 1 =>
         freeing'[i] = freeing[i - 1] /\ i - 1 \in DOMAIN freeing
  BY <1>4
<1>7. \A i \in DOMAIN freeing' : freeing'[i] \in blocks'
  BY <1>1, <1>2, <1>4, <1>6 DEF ChainAndStack
<1>8. \A i, j \in DOMAIN freeing' : i # j => freeing'[i] # freeing'[j]
  <2>1. SUFFICES ASSUME NEW i \in DOMAIN freeing', NEW j \in DOMAIN freeing', i < j
                 PROVE  freeing'[i] # freeing'[j]
    BY <1>4
  <2> DEFINE x == i - 1
             y == j - 1
  <2>2. freeing'[j] = freeing[y] /\ y \in DOMAIN freeing
    BY <1>4, <1>6, <2>1
  <2>3. CASE i = 1
    BY <1>2, <1>4, <2>2, <2>3 DEF Range
  <2>4. CASE i # 1
    <3>1. freeing'[i] = freeing[x] /\ x \in DOMAIN freeing /\ x # y
      BY <1>4, <1>6, <2>1, <2>4
    <3> HIDE DEF x, y
    <3> QED
      BY <1>1, <2>2, <3>1 DEF ChainAndStack
  <2> QED
    BY <2>3, <2>4
<1>9. ChainAndStack'
  BY <1>1, <1>2, <1>7, <1>8 DEF ChainAndStack
<1>10. Mapped' /\ AllGood'
  BY <1>1, <1>2 DEF Mapped, AllGood, In
<1> QED
  BY <1>5, <1>9, <1>10 DEF IInv, OneOwner, LiveCount, NoSlotLost, Mapped, AllGood, Good

\* The free on top of the stack is about a block of an arena of the chain.
LEMMA TopFree ==
    ASSUME IInv, freeing # <<>>, NEW b, b = freeing[1]
    PROVE  /\ freeing \in Seq(Block) /\ Len(freeing) \in Nat /\ Len(freeing) > 0
           /\ DOMAIN freeing = 1 .. Len(freeing)
           /\ b \in blocks /\ b \in Block /\ b.a \in Range(chain) /\ b.a \in Stripe
           /\ b \in In(b.a) /\ ar[b.a] \in Arena /\ In(b.a) \in SUBSET Block
           /\ Good(ar[b.a], In(b.a))
<1>1. TypeOK /\ ChainAndStack /\ Mapped /\ AllGood
  BY IInvParts
<1>2. /\ freeing \in Seq(Block) /\ Len(freeing) \in Nat /\ Len(freeing) > 0
      /\ DOMAIN freeing = 1 .. Len(freeing)
  BY <1>1 DEF TypeOK
<1>3. b \in blocks
  BY <1>1, <1>2 DEF ChainAndStack
<1>4. b \in Block /\ b.a \in Range(chain) /\ b \in In(b.a)
  BY <1>1, <1>3 DEF TypeOK, Mapped, In
<1> QED
  BY <1>1, <1>2, <1>3, <1>4, ChainType DEF AllGood

\* The destructor returns the slots after the first.
LEMMA FreeLinkedStep ==
    ASSUME IInv, FreeLinked
    PROVE  IInv'
<1>0. PICK b : b = freeing[1]
  OBVIOUS
<1>1. TypeOK /\ ChainAndStack /\ Mapped /\ AllGood
  BY IInvParts
<1> DEFINE h == b.a
           a == ar[h]
           one == FirstSlot(b)
           a2 == GiveBack(a, TailSlots(b))
<1>2. /\ freeing \in Seq(Block) /\ Len(freeing) \in Nat /\ Len(freeing) > 0
      /\ DOMAIN freeing = 1 .. Len(freeing)
      /\ b \in blocks /\ b \in Block /\ h \in Range(chain) /\ h \in Stripe
      /\ b \in In(h) /\ a \in Arena /\ In(h) \in SUBSET Block /\ Good(a, In(h))
  BY <1>0, TopFree DEF FreeLinked
<1>3. /\ op = Idle /\ b.n > 1 /\ ar' = [ar EXCEPT ![h] = a2]
      /\ blocks' = (blocks \ {b}) \cup {one} /\ freeing' = [freeing EXCEPT ![1] = one]
      /\ UNCHANGED <<chain, stripe_next, op>>
  BY <1>0 DEF FreeLinked
<1>4. one \in Block /\ one.a = h /\ a2 \in Arena /\ Good(a2, (In(h) \ {b}) \cup {one})
  <2> HIDE DEF a
  <2> QED
    BY <1>2, <1>3, TailGood
<1>5. \A c \in blocks : c # b => c # one
  <2>1. b.slot \in Slots(b) /\ b.slot \in Slots(one)
    <3>1. b.slot \in Nat /\ b.n \in Nat /\ one.slot = b.slot /\ one.n = 1
      BY <1>2, BlockType DEF FirstSlot, Block
    <3> HIDE DEF one
    <3> QED
      BY <1>3, <3>1 DEF Slots
  <2>2. ASSUME NEW c \in blocks, c # b, c = one PROVE FALSE
    <3>1. c \in In(h)
      BY <1>4, <2>2 DEF In
    <3>2. Slots(b) \cap Slots(c) = {}
      BY <1>2, <2>2, <3>1 DEF Good, Owned
    <3> QED
      BY <2>1, <2>2, <3>2
  <2> QED
    BY <2>2
<1> HIDE DEF a, a2, one
<1>6. In(h)' = (In(h) \ {b}) \cup {one} /\ \A s \in Stripe : s # h => In(s)' = In(s)
  BY <1>2, <1>3, <1>4 DEF In
<1>7. \A c \in blocks' : c \in blocks \/ c.a = h
  BY <1>3, <1>4
<1>8. Mapped' /\ AllGood' /\ ar' \in [Stripe -> Arena]
  BY <1>1, <1>2, <1>3, <1>4, <1>6, <1>7, OneArena
<1>9. /\ freeing' \in Seq(Block) /\ DOMAIN freeing' = DOMAIN freeing /\ freeing'[1] = one
      /\ \A i \in DOMAIN freeing : i # 1 => freeing'[i] = freeing[i]
  BY <1>2, <1>3, <1>4
<1>10. TypeOK'
  BY <1>1, <1>3, <1>4, <1>8, <1>9 DEF TypeOK, Idle
<1>11. \A i \in DOMAIN freeing : i # 1 => freeing[i] \in blocks /\ freeing[i] # b
  BY <1>0, <1>1, <1>2 DEF ChainAndStack
<1>12. ChainAndStack'
  <2>1. \A i \in DOMAIN freeing' : freeing'[i] \in blocks'
    BY <1>3, <1>9, <1>11
  <2>2. \A i, j \in DOMAIN freeing' : i # j => freeing'[i] # freeing'[j]
    BY <1>1, <1>5, <1>9, <1>11 DEF ChainAndStack
  <2> QED
    BY <1>1, <1>3, <2>1, <2>2 DEF ChainAndStack
<1> QED
  BY <1>8, <1>10, <1>12 DEF IInv, OneOwner, LiveCount, NoSlotLost, Mapped, AllGood, Good

\* tg_free pushes the slot on the freelist.
LEMMA FreeEndStep ==
    ASSUME IInv, FreeEnd
    PROVE  IInv'
<1>0. PICK b : b = freeing[1]
  OBVIOUS
<1>1. TypeOK /\ ChainAndStack /\ Mapped /\ AllGood
  BY IInvParts
<1> DEFINE h == b.a
           a == ar[h]
           a2 == GiveBack(a, <<b.slot>>)
<1>2. /\ freeing \in Seq(Block) /\ Len(freeing) \in Nat /\ Len(freeing) > 0
      /\ DOMAIN freeing = 1 .. Len(freeing)
      /\ b \in blocks /\ b \in Block /\ h \in Range(chain) /\ h \in Stripe
      /\ b \in In(h) /\ a \in Arena /\ In(h) \in SUBSET Block /\ Good(a, In(h))
  BY <1>0, TopFree DEF FreeEnd
<1>3. /\ op = Idle /\ b.n = 1 /\ ar' = [ar EXCEPT ![h] = a2]
      /\ blocks' = blocks \ {b} /\ freeing' = RemoveRun(freeing, 1, 1)
      /\ UNCHANGED <<chain, stripe_next, op>>
  BY <1>0 DEF FreeEnd
<1>4. a2 \in Arena /\ Good(a2, In(h) \ {b})
  <2> HIDE DEF a
  <2> QED
    BY <1>2, <1>3, OneGood
<1> HIDE DEF a, a2
<1>5. In(h)' = In(h) \ {b} /\ \A s \in Stripe : s # h => In(s)' = In(s)
  BY <1>2, <1>3 DEF In
<1>6. \A c \in blocks' : c \in blocks \/ c.a = h
  BY <1>3
<1>7. Mapped' /\ AllGood' /\ ar' \in [Stripe -> Arena]
  BY <1>1, <1>2, <1>3, <1>4, <1>5, <1>6, OneArena
<1>8. /\ freeing' \in Seq(Block) /\ DOMAIN freeing' = 1 .. Len(freeing) - 1
      /\ \A i \in 1 .. Len(freeing) - 1 : freeing'[i] = freeing[i + 1]
  BY <1>2, <1>3 DEF RemoveRun
<1>9. TypeOK'
  BY <1>1, <1>3, <1>7, <1>8 DEF TypeOK, Idle
<1>10. ChainAndStack'
  <2>1. \A i \in DOMAIN freeing' : freeing'[i] \in blocks'
    <3>1. SUFFICES ASSUME NEW i \in DOMAIN freeing' PROVE freeing'[i] \in blocks'
      OBVIOUS
    <3> DEFINE x == i + 1
    <3>2. freeing'[i] = freeing[x] /\ x \in DOMAIN freeing /\ x # 1 /\ 1 \in DOMAIN freeing
      BY <1>2, <1>8
    <3> HIDE DEF x
    <3> QED
      BY <1>0, <1>1, <1>3, <3>2 DEF ChainAndStack
  <2>2. \A i, j \in DOMAIN freeing' : i # j => freeing'[i] # freeing'[j]
    <3>1. SUFFICES ASSUME NEW i \in DOMAIN freeing', NEW j \in DOMAIN freeing', i # j
                   PROVE  freeing'[i] # freeing'[j]
      OBVIOUS
    <3> DEFINE x == i + 1
               y == j + 1
    <3>2. /\ freeing'[i] = freeing[x] /\ x \in DOMAIN freeing
          /\ freeing'[j] = freeing[y] /\ y \in DOMAIN freeing /\ x # y
      BY <1>2, <1>8, <3>1
    <3> HIDE DEF x, y
    <3> QED
      BY <1>1, <3>2 DEF ChainAndStack
  <2> QED
    BY <1>1, <1>3, <2>1, <2>2 DEF ChainAndStack
<1> QED
  BY <1>7, <1>9, <1>10 DEF IInv, OneOwner, LiveCount, NoSlotLost, Mapped, AllGood, Good

\* tg_cleanup unmaps the k-th arena of the chain, which has no live slot.
LEMMA ArenaDropped ==
    ASSUME IInv, NEW k \in 1 .. Len(chain), ar[chain[k]].live = 0, Len(chain) > 1,
           chain' = RemoveRun(chain, k, 1), UNCHANGED <<ar, stripe_next, blocks, freeing>>
    PROVE  /\ chain' \in Seq(Stripe) /\ chain' # <<>>
           /\ ChainAndStack' /\ Mapped' /\ AllGood'
           /\ \A s \in Range(chain) : s \notin Range(chain') => In(s) = {}
<1>1. TypeOK /\ ChainAndStack /\ Mapped /\ AllGood
  BY IInvParts
<1>2. /\ Len(chain) \in Nat /\ DOMAIN chain = 1 .. Len(chain) /\ chain \in Seq(Stripe)
      /\ \A i \in DOMAIN chain : chain[i] \in Stripe
  BY <1>1, ChainType DEF TypeOK, Range
<1> DEFINE N == Len(chain)
           at(i) == IF i < k THEN i ELSE i + 1
<1>3. DOMAIN chain' = 1 .. N - 1 /\ \A i \in 1 .. N - 1 : chain'[i] = chain[at(i)]
  BY <1>2 DEF RemoveRun
<1>4. /\ \A i \in 1 .. N - 1 : at(i) \in 1 .. N /\ at(i) # k
      /\ \A i, j \in 1 .. N - 1 : i # j => at(i) # at(j)
  BY <1>2
<1>5. \A i \in 1 .. N : i # k => \E j \in 1 .. N - 1 : at(j) = i
  <2>1. SUFFICES ASSUME NEW i \in 1 .. N, i # k PROVE \E j \in 1 .. N - 1 : at(j) = i
    OBVIOUS
  <2>2. CASE i < k
    <3>1. i \in 1 .. N - 1 /\ at(i) = i
      BY <1>2, <2>2
    <3> QED
      BY <3>1
  <2>3. CASE i > k
    <3>1. i - 1 \in 1 .. N - 1 /\ at(i - 1) = i
      BY <1>2, <2>3
    <3> QED
      BY <3>1
  <2> QED
    BY <2>1, <2>2, <2>3
<1>6. chain' \in Seq(Stripe) /\ chain' # <<>>
  <2>1. chain' \in Seq(Stripe)
    BY <1>2 DEF RemoveRun
  <2>2. 1 \in DOMAIN chain'
    BY <1>2, <1>3
  <2> QED
    BY <2>1, <2>2
<1> HIDE DEF N, at
<1>7. Range(chain') \subseteq Range(chain)
  BY <1>2, <1>3, <1>4 DEF Range, N
<1>8. \A s \in Range(chain) : s # chain[k] => s \in Range(chain')
  <2>1. SUFFICES ASSUME NEW i \in 1 .. N, chain[i] # chain[k] PROVE chain[i] \in Range(chain')
    BY <1>2 DEF Range, N
  <2>2. PICK j \in 1 .. N - 1 : at(j) = i
    BY <1>5, <2>1
  <2> QED
    BY <1>3, <2>2 DEF Range
<1>9. chain[k] \in Range(chain) /\ chain[k] \in Stripe
  BY <1>2 DEF Range
<1>10. In(chain[k]) = {}
  <2>1. /\ ar[chain[k]] \in Arena /\ In(chain[k]) \in SUBSET Block
        /\ Good(ar[chain[k]], In(chain[k]))
    BY <1>1, <1>9, ChainType DEF AllGood
  <2> QED
    BY <2>1, NoneHeld
<1>11. Mapped'
  <2>1. \A b \in blocks : b.a # chain[k]
    BY <1>10 DEF In
  <2> QED
    BY <1>1, <1>8, <2>1 DEF Mapped
<1>12. AllGood'
  BY <1>1, <1>7 DEF AllGood, In
<1>13. ChainAndStack'
  <2>1. \A i, j \in DOMAIN chain' : i # j => chain'[i] # chain'[j]
    BY <1>1, <1>2, <1>3, <1>4 DEF ChainAndStack, N
  <2>2. \A i \in DOMAIN chain' : chain'[i] < stripe_next'
    BY <1>1, <1>2, <1>3, <1>4 DEF ChainAndStack, N
  <2> QED
    BY <1>1, <2>1, <2>2 DEF ChainAndStack
<1> QED
  BY <1>6, <1>8, <1>10, <1>11, <1>12, <1>13

\* tg_cleanup begins after the head.
LEMMA CleanupBeginStep ==
    ASSUME IInv, CleanupBegin
    PROVE  IInv'
<1>1. TypeOK'
  BY DEF IInv, TypeOK, CleanupBegin, Cleaning
<1> QED
  BY <1>1, OpStep DEF CleanupBegin

\* tg_cleanup looks at one arena.
LEMMA CleanupStepStep ==
    ASSUME IInv, CleanupStep
    PROVE  /\ IInv' /\ chain' # <<>>
           /\ \A s \in Range(chain) : s \notin Range(chain') => In(s) = {}
<1>1. TypeOK
  BY DEF IInv
<1>2. op \in [kind : {"clean"}, i : Nat \ {0, 1}] /\ op.i <= Len(chain)
  BY <1>1 DEF TypeOK, CleanupStep, Idle
<1>3. UNCHANGED <<ar, stripe_next, blocks, freeing>>
  BY DEF CleanupStep
<1>4. CASE /\ ar[chain[op.i]].live = 0
           /\ chain' = RemoveRun(chain, op.i, 1) /\ UNCHANGED op
  <2>1. op.i \in 1 .. Len(chain) /\ Len(chain) > 1
    BY <1>1, <1>2, ChainType
  <2>2. /\ chain' \in Seq(Stripe) /\ chain' # <<>>
        /\ ChainAndStack' /\ Mapped' /\ AllGood'
        /\ \A s \in Range(chain) : s \notin Range(chain') => In(s) = {}
    BY <1>3, <1>4, <2>1, ArenaDropped
  <2>3. TypeOK'
    BY <1>1, <1>2, <1>3, <1>4, <2>2 DEF TypeOK
  <2> QED
    BY <2>2, <2>3 DEF IInv, OneOwner, LiveCount, NoSlotLost, Mapped, AllGood, Good
<1>5. CASE op' = Cleaning(op.i + 1) /\ UNCHANGED chain
  <2>1. op' \in [kind : {"clean"}, i : Nat \ {0, 1}]
    BY <1>2, <1>5 DEF Cleaning
  <2>2. TypeOK'
    BY <1>1, <1>3, <1>5, <2>1 DEF TypeOK
  <2>3. IInv'
    BY <1>3, <1>5, <2>2, OpStep
  <2> QED
    BY <1>1, <1>5, <2>3 DEF TypeOK
<1> QED
  BY <1>4, <1>5 DEF CleanupStep

\* tg_cleanup ends with the head.
LEMMA CleanupEndStep ==
    ASSUME IInv, CleanupEnd
    PROVE  /\ IInv' /\ chain' # <<>>
           /\ \A s \in Range(chain) : s \notin Range(chain') => In(s) = {}
<1>1. TypeOK
  BY DEF IInv
<1>2. op' = Idle /\ UNCHANGED <<ar, stripe_next, blocks, freeing>>
  BY DEF CleanupEnd
<1>3. CASE /\ ar[chain[1]].live = 0 /\ Len(chain) > 1
           /\ chain' = RemoveRun(chain, 1, 1)
  <2>1. 1 \in 1 .. Len(chain)
    BY <1>1, ChainType
  <2>2. /\ chain' \in Seq(Stripe) /\ chain' # <<>>
        /\ ChainAndStack' /\ Mapped' /\ AllGood'
        /\ \A s \in Range(chain) : s \notin Range(chain') => In(s) = {}
    BY <1>2, <1>3, <2>1, ArenaDropped
  <2>3. TypeOK'
    BY <1>1, <1>2, <2>2 DEF TypeOK, Idle
  <2> QED
    BY <2>2, <2>3 DEF IInv, OneOwner, LiveCount, NoSlotLost, Mapped, AllGood, Good
<1>4. CASE UNCHANGED chain
  <2>1. TypeOK'
    BY <1>1, <1>2, <1>4 DEF TypeOK, Idle
  <2>2. IInv'
    BY <1>2, <1>4, <2>1, OpStep
  <2> QED
    BY <1>1, <1>4, <2>2 DEF TypeOK
<1> QED
  BY <1>3, <1>4 DEF CleanupEnd

-----------------------------------------------------------------------------
(* The theorems *)

\* A type just registered has one fresh arena.
LEMMA InitIInv == Init => IInv
<1>1. SUFFICES ASSUME Init PROVE IInv
  OBVIOUS
<1>2. PICK s \in Stripe : chain = <<s>> /\ stripe_next = s + 1
  BY <1>1 DEF Init
<1>3. /\ ar = [t \in Stripe |-> FreshArena] /\ blocks = {} /\ freeing = <<>> /\ op = Idle
  BY <1>1 DEF Init
<1>4. chain \in Seq(Stripe) /\ chain # <<>> /\ DOMAIN chain = {1} /\ chain[1] = s
  BY <1>2
<1>5. s \in Nat /\ s + 1 \in 0 .. MaxStripes
  BY SizeAssumption DEF Stripe
<1>6. FreshArena \in Arena /\ Good(FreshArena, {})
  BY FreshGood
<1>7. TypeOK
  <2>1. freeing \in Seq(Block) /\ blocks \subseteq Block /\ ar \in [Stripe -> Arena]
    BY <1>3, <1>6
  <2> QED
    BY <1>2, <1>3, <1>4, <1>5, <2>1 DEF TypeOK
<1>8. ChainAndStack
  BY <1>2, <1>3, <1>4, <1>5 DEF ChainAndStack
<1>9. Mapped /\ AllGood
  <2>1. \A t \in Range(chain) : ar[t] = FreshArena /\ In(t) = {}
    BY <1>3, <1>4 DEF Range, In
  <2> QED
    BY <1>3, <1>6, <2>1 DEF Mapped, AllGood
<1> QED
  BY <1>7, <1>8, <1>9, IInvParts

\* Every step of the allocator and of its clients keeps the invariant.
LEMMA NextIInv == IInv /\ [Next]_vars => IInv'
<1>1. SUFFICES ASSUME IInv, [Next]_vars PROVE IInv'
  OBVIOUS
<1>2. CASE AllocHead
  BY <1>1, <1>2, AllocHeadStep
<1>3. CASE AllocNewArena
  BY <1>1, <1>3, AllocNewArenaStep
<1>4. CASE AllocFails
  BY <1>1, <1>4, AllocFailsStep
<1>5. CASE \E n \in 1 .. MaxCount : LinkedBegin(n)
  BY <1>1, <1>5, LinkedBeginStep
<1>6. CASE \E b \in blocks : FreeBegin(b)
  BY <1>1, <1>6, FreeBeginStep
<1>7. CASE FreeLinked
  BY <1>1, <1>7, FreeLinkedStep
<1>8. CASE FreeEnd
  BY <1>1, <1>8, FreeEndStep
<1>9. CASE CleanupBegin
  BY <1>1, <1>9, CleanupBeginStep
<1>10. CASE SortStep
  BY <1>1, <1>10, SortStepStep
<1>11. CASE LinkedFromList
  BY <1>1, <1>11, LinkedFromListStep
<1>12. CASE SortAgain \/ LinkedNextArena
  BY <1>1, <1>12, SortOnStep
<1>13. CASE LinkedFromBump
  BY <1>1, <1>13, LinkedFromBumpStep
<1>14. CASE LinkedNewArena
  BY <1>1, <1>14, LinkedNewArenaStep
<1>15. CASE LinkedFails
  BY <1>1, <1>15, LinkedFailsStep
<1>16. CASE CleanupStep
  BY <1>1, <1>16, CleanupStepStep
<1>17. CASE CleanupEnd
  BY <1>1, <1>17, CleanupEndStep
<1>18. CASE UNCHANGED vars
  <2>1. UNCHANGED <<chain, ar, stripe_next, blocks, freeing>> /\ UNCHANGED op
    BY <1>18 DEF vars
  <2>2. TypeOK'
    BY <1>1, <2>1 DEF IInv, TypeOK
  <2> QED
    BY <1>1, <2>1, <2>2, OpStep
<1> QED
  BY <1>1, <1>2, <1>3, <1>4, <1>5, <1>6, <1>7, <1>8, <1>9, <1>10, <1>11, <1>12, <1>13,
     <1>14, <1>15, <1>16, <1>17, <1>18 DEF Next, InCall

\* The inductive invariant holds of every reachable state.
THEOREM Invariance == Spec => []IInv
BY InitIInv, NextIInv, PTL DEF Spec

\* The state keeps its shape, and a call in progress is at an arena of the chain.
THEOREM TypeCorrect == Spec => []TypeOK
<1>1. IInv => TypeOK
  BY DEF IInv
<1> QED
  BY <1>1, Invariance, PTL

\* tg_alloc and tg_alloc_linked never hand out a slot that somebody holds.
THEOREM AllocSafe == Spec => []OneOwner
<1>1. IInv => OneOwner
  BY DEF IInv
<1> QED
  BY <1>1, Invariance, PTL

\* live_count is the number of slots held in the arena.
THEOREM CountExact == Spec => []LiveCount
<1>1. IInv => LiveCount
  BY DEF IInv
<1> QED
  BY <1>1, Invariance, PTL

\* No slot is lost between the freelist and the clients.
THEOREM NothingLost == Spec => []NoSlotLost
<1>1. IInv => NoSlotLost
  BY DEF IInv
<1> QED
  BY <1>1, Invariance, PTL

\* The chain has no arena twice and the frees in progress are of distinct blocks.
THEOREM ChainSound == Spec => []ChainAndStack
<1>1. IInv => ChainAndStack
  BY DEF IInv
<1> QED
  BY <1>1, Invariance, PTL

\* tg_cleanup unmaps no arena with a live slot, and nothing else unmaps any.
THEOREM CleanupSafe == Spec => CleanupKeepsLive
<1> DEFINE Keeps == /\ chain' # <<>>
                    /\ \A s \in Range(chain) : s \notin Range(chain') => In(s) = {}
<1>1. IInv /\ [Next]_vars => [Keeps]_vars
  <2>1. SUFFICES ASSUME IInv, Next PROVE Keeps
    OBVIOUS
  <2>2. TypeOK
    BY <2>1 DEF IInv
  <2>3. CASE CleanupStep
    BY <2>1, <2>3, CleanupStepStep
  <2>4. CASE CleanupEnd
    BY <2>1, <2>4, CleanupEndStep
  <2>5. CASE chain' = chain
    BY <2>2, <2>5 DEF TypeOK
  <2>6. CASE \E s \in Stripe : MapArena(s)
    <3>1. PICK s \in Stripe : chain' = <<s>> \o chain
      BY <2>6 DEF MapArena
    <3>2. /\ chain' # <<>> /\ DOMAIN chain' = 1 .. Len(chain) + 1
          /\ \A i \in 1 .. Len(chain) : chain'[i + 1] = chain[i]
          /\ Len(chain) \in Nat /\ DOMAIN chain = 1 .. Len(chain)
      BY <2>2, <3>1 DEF TypeOK
    <3>3. ASSUME NEW i \in DOMAIN chain PROVE chain[i] \in Range(chain')
      <4>1. chain[i] = chain'[i + 1] /\ i + 1 \in DOMAIN chain'
        BY <3>2
      <4> QED
        BY <4>1 DEF Range
    <3> QED
      BY <3>2, <3>3 DEF Range
  <2> QED
    BY <2>1, <2>3, <2>4, <2>5, <2>6
       DEF Next, InCall, AllocHead, AllocNewArena, AllocFails, LinkedBegin, FreeBegin,
           FreeLinked, FreeEnd, CleanupBegin, SortStep, LinkedFromList, SortAgain,
           LinkedFromBump, LinkedNextArena, LinkedNewArena, LinkedFails
<1> QED
  BY <1>1, Invariance, PTL DEF Spec, CleanupKeepsLive

-----------------------------------------------------------------------------
(* Requests for several slots *)

\* A run of the freelist is a block the client did not have.
LEMMA RunIsNew ==
    ASSUME IInv, LinkedFromList
    PROVE  blocks' # blocks
<1> DEFINE s == SortArena
           a == ar[s]
           f == a.freelist
           n == op.n
<1>1. a \in Arena /\ Good(a, In(s)) /\ n \in 1 .. MaxCount
  BY SortFacts, IInvParts DEF LinkedFromList, PassDone
<1>2. PICK k \in RunStarts(f, n) : NewBlock(s, f[k], n)
  BY DEF LinkedFromList, SortList
<1> HIDE DEF s, a, f, n
<1>3. f \in Seq(Slot) /\ Len(f) \in Nat /\ DOMAIN f = 1 .. Len(f) /\ n \in Nat \ {0}
  BY <1>1, FreelistType DEF f
<1>4. k \in DOMAIN f /\ f[k] \in Int
  <2>1. k \in 1 .. Len(f)
    BY <1>2, <1>3 DEF RunStarts
  <2>2. f[k] \in Range(f)
    BY <1>3, <2>1 DEF Range
  <2>3. Range(f) \subseteq Int
    BY <1>1, FreelistType DEF f
  <2> QED
    BY <1>3, <2>1, <2>2, <2>3
<1> DEFINE b == [a |-> s, slot |-> f[k], n |-> n]
<1>5. blocks' = blocks \cup {b} /\ b.a = s
  BY <1>2 DEF NewBlock
<1>6. f[k] \in Slots(b)
  BY <1>3, <1>4 DEF Slots
<1> HIDE DEF b
<1>7. b \notin In(s)
  BY <1>1, <1>4, <1>6 DEF Good, Owned, f
<1> QED
  BY <1>5, <1>7 DEF In

\* So is one above the bump pointer.
LEMMA BumpIsNew ==
    ASSUME IInv, LinkedFromBump
    PROVE  blocks' # blocks
<1> DEFINE s == SortArena
           a == ar[s]
           n == op.n
           b == [a |-> s, slot |-> a.bump, n |-> n]
<1>1. a \in Arena /\ Good(a, In(s)) /\ n \in 1 .. MaxCount
  BY SortFacts, IInvParts DEF LinkedFromBump, Sorted, PassDone
<1>2. blocks' = blocks \cup {b}
  BY DEF LinkedFromBump, NewBlock
<1> HIDE DEF s, a, n
<1>3. b.a = s /\ b.slot = a.bump /\ b.n = n /\ a.bump \in Int /\ n \in Nat \ {0}
  BY <1>1, ArenaType
<1> HIDE DEF b
<1>4. b.slot + b.n > a.bump
  BY <1>3
<1>5. b \notin In(s)
  <2>1. ~(b.slot + b.n <= a.bump)
    BY <1>3, <1>4
  <2> QED
    BY <1>1, <2>1 DEF Good, Owned
<1> QED
  BY <1>2, <1>3, <1>5 DEF In

\* A new arena is unlike the mapped ones, so the block in it is new.
LEMMA ArenaIsNew ==
    ASSUME IInv, LinkedNewArena, op.n <= Cap
    PROVE  blocks' # blocks
<1>1. PICK s \in Stripe : MapArena(s) /\ NewBlock(s, 0, op.n)
  BY DEF LinkedNewArena
<1> DEFINE b == [a |-> s, slot |-> 0, n |-> op.n]
<1>2. blocks' = blocks \cup {b} /\ b.a = s
  BY <1>1 DEF NewBlock
<1> HIDE DEF b
<1>3. s \notin Range(chain)
  <2>1. TypeOK /\ ChainAndStack
    BY DEF IInv
  <2>2. s >= stripe_next /\ s \in Int /\ stripe_next \in Int
    BY <1>1, <2>1 DEF MapArena, Stripe, TypeOK
  <2>3. ASSUME NEW i \in DOMAIN chain PROVE chain[i] # s
    <3>1. chain[i] < stripe_next
      BY <2>1 DEF ChainAndStack
    <3> QED
      BY <2>2, <3>1
  <2> QED
    BY <2>3 DEF Range
<1>4. Mapped
  BY IInvParts
<1> QED
  BY <1>2, <1>3, <1>4 DEF Mapped

\* A tg_alloc_linked that fits in an arena fails only when no stripe is left.
THEOREM LinkedServed == Spec => LinkedServes
<1> DEFINE Served == op.kind = "sort" /\ op' = Idle /\ blocks' = blocks =>
                        op.n > Cap \/ stripe_next' = MaxStripes
<1>1. IInv /\ [Next]_vars => [Served]_vars
  <2>1. SUFFICES ASSUME IInv, Next, op.kind = "sort", op' = Idle, blocks' = blocks
                 PROVE  op.n > Cap \/ stripe_next' = MaxStripes
    OBVIOUS
  <2>2. op # Idle /\ op.kind # "clean"
    BY <2>1 DEF Idle
  <2>3. \A n, i, pos, swapped : op' # Sorting(n, i, pos, swapped)
    BY <2>1 DEF Idle, Sorting
  <2>4. InCall
    BY <2>1, <2>2
       DEF Next, AllocHead, AllocNewArena, AllocFails, LinkedBegin, FreeBegin, FreeLinked,
           FreeEnd, CleanupBegin
  <2>5. LinkedFromList \/ LinkedFromBump \/ LinkedNewArena \/ LinkedFails
    BY <2>2, <2>3, <2>4
       DEF InCall, SortStep, SortAgain, LinkedNextArena, CleanupStep, CleanupEnd
  <2>6. LinkedNewArena \/ LinkedFails
    BY <2>1, <2>5, RunIsNew, BumpIsNew
  <2>7. CASE LinkedNewArena
    <3>1. op.n \in Int /\ Cap \in Int
      BY <2>1, SortFacts, SizeAssumption, IInvParts
    <3> QED
      BY <2>1, <2>7, <3>1, ArenaIsNew
  <2>8. CASE LinkedFails
    BY <2>8 DEF LinkedFails, MapFails
  <2> QED
    BY <2>6, <2>7, <2>8
<1> QED
  BY <1>1, Invariance, PTL DEF Spec, LinkedServes

=============================================================================
