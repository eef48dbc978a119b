-------------------------- MODULE CiArrayOpsProofs --------------------------
(***************************************************************************)
(* What the operators of CiArrayOps do, for every capacity and every array.*)
(*                                                                         *)
(* Idx is one-to-one on the indices below size, so a write to one index    *)
(* disturbs no other; everything else about the seam of a wrapped buffer   *)
(* rests on this.  Each operation is described by the elements At(b, i) of *)
(* its result b in terms of At(a, i), then by how often an object occurs   *)
(* (Hits), then by its sequence of elements (Elements).                    *)
(***************************************************************************)
EXTENDS CiArrayOps, RecursionLemmas, FiniteSetTheorems, SequenceTheorems, TLAPS

-----------------------------------------------------------------------------
(* Records and indices *)

\* The record has the five fields of the struct and no other.
Shaped(a) == a = [size |-> a.size, length |-> a.length, offset |-> a.offset,
                  data |-> a.data, small |-> a.small]

\* An assignment to one field leaves a record of the same five fields.
LEMMA ShapeKept ==
    ASSUME NEW a, Shaped(a), NEW x
    PROVE  /\ Shaped([a EXCEPT !.size = x])
           /\ Shaped([a EXCEPT !.length = x])
           /\ Shaped([a EXCEPT !.offset = x])
           /\ Shaped([a EXCEPT !.data = x])
           /\ Shaped([a EXCEPT !.small = x])
BY DEF Shaped

\* IsArray, field by field.
LEMMA WellFormed ==
    ASSUME NEW a, Shaped(a),
           a.size \in Nat \ {0},
           a.length \in 0 .. a.size,
           a.offset \in 0 .. a.size - 1,
           a.data \in [0 .. a.size - 1 -> Word],
           a.small \in BOOLEAN
    PROVE  IsArray(a)
BY DEF Shaped, IsArray, ArrayRec

\* The fields of a well-formed array.
LEMMA ArrayType ==
    ASSUME NEW a, IsArray(a)
    PROVE  /\ Shaped(a)
           /\ a.size \in Nat \ {0}
           /\ a.length \in 0 .. a.size
           /\ a.offset \in 0 .. a.size - 1
           /\ a.data \in [0 .. a.size - 1 -> Word]
           /\ a.small \in BOOLEAN
BY DEF Shaped, IsArray, ArrayRec

\* The remainder of a sum that exceeds the divisor at most once.
LEMMA ModSum ==
    ASSUME NEW n \in Nat \ {0}, NEW o \in 0 .. n - 1, NEW i \in 0 .. n
    PROVE  (o + i) % n = IF o + i < n THEN o + i ELSE o + i - n
OBVIOUS

\* The slot before the first one is free when the buffer is not full.
LEMMA StepBack ==
    ASSUME NEW n \in Nat \ {0}, NEW o \in 0 .. n - 1, NEW q \in 0 .. n - 1,
           o = IF q + 1 < n THEN q + 1 ELSE 0,
           NEW i \in 0 .. n - 2
    PROVE  LET x == IF o + i < n THEN o + i ELSE o + i - n
           IN  x \in 0 .. n - 1 /\ x # q
OBVIOUS

\* ci_arr__idx wraps at the end of the buffer and stays inside it.
LEMMA IdxIs ==
    ASSUME NEW a, IsArray(a), NEW i \in 0 .. a.size
    PROVE  /\ Idx(a, i) = IF a.offset + i < a.size THEN a.offset + i ELSE a.offset + i - a.size
           /\ Idx(a, i) \in 0 .. a.size - 1
<1>1. /\ a.size \in Nat \ {0} /\ a.offset \in 0 .. a.size - 1
  BY ArrayType
<1>2. Idx(a, i) = IF a.offset + i < a.size THEN a.offset + i ELSE a.offset + i - a.size
  BY <1>1, ModSum DEF Idx
<1> QED
  BY <1>1, <1>2

\* Different logical indices are different buffer indices.
LEMMA IdxInjective ==
    ASSUME NEW a, IsArray(a), NEW i \in 0 .. a.size - 1, NEW j \in 0 .. a.size - 1,
           Idx(a, i) = Idx(a, j)
    PROVE  i = j
<1>1. /\ a.size \in Nat \ {0} /\ a.offset \in 0 .. a.size - 1
  BY ArrayType
<1> QED
  BY <1>1, IdxIs

\* ci_arr__idx and back.
LEMMA IdxInverse ==
    ASSUME NEW a, IsArray(a), NEW i \in 0 .. a.size - 1
    PROVE  (Idx(a, i) + a.size - a.offset) % a.size = i
<1> DEFINE p == Idx(a, i)
           k == a.size - a.offset
<1>1. /\ a.size \in Nat \ {0} /\ a.offset \in 0 .. a.size - 1
      /\ i \in 0 .. a.size /\ k \in 0 .. a.size
  BY ArrayType
<1>2. /\ p = IF a.offset + i < a.size THEN a.offset + i ELSE a.offset + i - a.size
      /\ p \in 0 .. a.size - 1
  BY <1>1, IdxIs
<1> HIDE DEF p
<1>3. p + a.size - a.offset = p + k
  BY <1>1, <1>2
<1>4. p + k = IF p + k < a.size THEN i ELSE i + a.size
  BY <1>1, <1>2
<1>5. (p + k) % a.size = IF p + k < a.size THEN p + k ELSE p + k - a.size
  BY <1>1, <1>2, ModSum
<1>6. (p + k) % a.size = i
  BY <1>1, <1>2, <1>4, <1>5
<1> QED
  BY <1>3, <1>6 DEF p

\* The element at an index is a machine word.
LEMMA AtType ==
    ASSUME NEW a, IsArray(a), NEW i \in 0 .. a.size
    PROVE  At(a, i) \in Word
BY ArrayType, IdxIs DEF At

-----------------------------------------------------------------------------
(* Rearrangements: the same elements in another buffer *)

\* b holds the elements of a, in the same order.
Same(a, b) ==
    /\ IsArray(b)
    /\ b.length = a.length
    /\ \A i \in 0 .. a.length - 1 : At(b, i) = At(a, i)

\* An array holds the same elements as itself.
LEMMA SameItself ==
    ASSUME NEW a, IsArray(a)
    PROVE  Same(a, a)
BY DEF Same

\* Two rearrangements in a row are one.
LEMMA SameTrans ==
    ASSUME NEW a, NEW b, NEW c, Same(a, b), Same(b, c)
    PROVE  Same(a, c)
BY DEF Same

\* ci_arr_rmoffset copies the elements in order, across the seam of a wrapped
\* buffer too.
LEMMA RmOffsetIsAt ==
    ASSUME NEW a, IsArray(a), NEW i \in 0 .. a.length - 1
    PROVE  RmOffset(a)[i] = At(a, i) /\ RmOffset(a)[i] \in Word
<1>1. /\ a.size \in Nat \ {0} /\ a.offset \in 0 .. a.size - 1 /\ a.length \in 0 .. a.size
  BY ArrayType
<1>2. RmOffset(a)[i] = IF ~IsWrapped(a) \/ i < a.size - a.offset THEN a.data[a.offset + i]
                                         ELSE a.data[i - (a.size - a.offset)]
  BY DEF RmOffset
<1>3. i \in 0 .. a.size
  BY <1>1
<1>4. Idx(a, i) = IF a.offset + i < a.size THEN a.offset + i ELSE a.offset + i - a.size
  BY <1>3, IdxIs
<1>5. i - (a.size - a.offset) = a.offset + i - a.size
  BY <1>1
<1>6. RmOffset(a)[i] = At(a, i)
  BY <1>1, <1>2, <1>4, <1>5 DEF At, IsWrapped
<1> QED
  BY <1>3, <1>6, AtType

\* A buffer that starts with what ci_arr_rmoffset copied holds the same
\* elements.
LEMMA CopySame ==
    ASSUME NEW a, IsArray(a), NEW b, Shaped(b),
           b.size \in Nat \ {0}, a.length <= b.size,
           b.length = a.length, b.offset = 0, b.small \in BOOLEAN,
           b.data \in [0 .. b.size - 1 -> Word],
           \A p \in 0 .. a.length - 1 : b.data[p] = RmOffset(a)[p]
    PROVE  Same(a, b)
<1>1. a.length \in 0 .. b.size
  BY ArrayType
<1>2. IsArray(b)
  BY <1>1, WellFormed
<1>3. \A i \in 0 .. a.length - 1 : At(b, i) = At(a, i)
  <2> SUFFICES ASSUME NEW i \in 0 .. a.length - 1 PROVE At(b, i) = At(a, i)
    OBVIOUS
  <2>1. Idx(b, i) = i
    BY <1>1, <1>2, IdxIs
  <2> QED
    BY <1>1, <2>1, RmOffsetIsAt DEF At
<1> QED
  BY <1>2, <1>3 DEF Same

\* ci_arr__linearize, to a buffer that is large enough.
LEMMA LinearizeSame ==
    ASSUME NEW a, IsArray(a), NEW n \in Nat \ {0}, a.length <= n
    PROVE  /\ Same(a, Linearize(a, n)) /\ Linearize(a, n).size = n
           /\ Linearize(a, n).offset = 0
<1> DEFINE d == [p \in 0 .. n - 1 |-> IF p < a.length THEN RmOffset(a)[p] ELSE NULL]
           b == [a EXCEPT !.size = n, !.offset = 0, !.data = d]
<1>1. Linearize(a, n) = b
  BY DEF Linearize
<1>2. a.length \in Nat /\ a.small \in BOOLEAN /\ Shaped(a)
  BY ArrayType
<1>3. d \in [0 .. n - 1 -> Word]
  BY <1>2, RmOffsetIsAt DEF Word, Ptr
<1>4. \A p \in 0 .. a.length - 1 : d[p] = RmOffset(a)[p]
  BY <1>2
<1> HIDE DEF d
<1>5. /\ b.size = n /\ b.length = a.length /\ b.offset = 0 /\ b.data = d /\ b.small = a.small
  BY DEF IsArray, ArrayRec
<1>6. Shaped(b)
  BY <1>2, ShapeKept
<1> HIDE DEF b
<1> QED
  BY <1>1, <1>2, <1>3, <1>4, <1>5, <1>6, CopySame

\* ci_arr_upgrade moves an inline array to a buffer of its own.
LEMMA UpgradeSame ==
    ASSUME NEW a, IsArray(a)
    PROVE  Same(a, Upgrade(a)) /\ Upgrade(a).size = a.size /\ Upgrade(a).offset = 0
<1> DEFINE d == [p \in 0 .. a.size - 1 |-> IF p < a.length THEN RmOffset(a)[p] ELSE Junk]
           b == [a EXCEPT !.small = FALSE, !.offset = 0, !.data = d]
<1>1. Upgrade(a) = b
  BY DEF Upgrade
<1>2. a.size \in Nat \ {0} /\ a.length \in Nat /\ a.length <= a.size /\ Shaped(a)
  BY ArrayType
<1>3. d \in [0 .. a.size - 1 -> Word]
  BY <1>2, RmOffsetIsAt DEF Word
<1>4. \A p \in 0 .. a.length - 1 : d[p] = RmOffset(a)[p]
  BY <1>2
<1> HIDE DEF d
<1>5. /\ b.size = a.size /\ b.length = a.length /\ b.offset = 0 /\ b.data = d /\ b.small = FALSE
  BY DEF IsArray, ArrayRec
<1>6. Shaped(b)
  BY <1>2, ShapeKept
<1> HIDE DEF b
<1> QED
  BY <1>1, <1>2, <1>3, <1>4, <1>5, <1>6, CopySame

\* ci_arr_ensure_space keeps the elements, whichever malloc fails, and makes
\* the room it was asked for when it reports success.
LEMMA EnsureSpaceSame ==
    ASSUME NEW a, IsArray(a), NEW n \in Nat, NEW r \in EnsureSpace(a, n)
    PROVE  /\ r[1] \in BOOLEAN
           /\ Same(a, r[2])
           /\ r[1] => a.length + n <= r[2].size
<1>1. a.size \in Nat \ {0} /\ a.length \in 0 .. a.size
  BY ArrayType
<1>2. CASE a.length + n <= a.size
  <2>1. r = <<TRUE, a>>
    BY <1>2 DEF EnsureSpace
  <2> QED
    BY <2>1, <1>2, SameItself
<1>3. CASE ~(a.length + n <= a.size)
  <2> DEFINE g == GrownSize(a, n)
             u == Upgrade(a)
  <2>1. g \in Nat \ {0} /\ a.length + n <= g /\ a.length <= g
    BY <1>1, <1>3 DEF GrownSize
  <2>2. IsArray(u) /\ u.length = a.length /\ Same(a, u)
    BY UpgradeSame DEF Same
  <2>3. Same(u, Linearize(u, g)) /\ Linearize(u, g).size = g
    BY <2>1, <2>2, LinearizeSame
  <2>4. Same(a, Linearize(a, g)) /\ Linearize(a, g).size = g
    BY <2>1, LinearizeSame
  <2>5. Same(a, Linearize(u, g))
    BY <2>2, <2>3, SameTrans
  <2>6. \/ r = <<FALSE, a>>
        \/ r = <<FALSE, u>>
        \/ r = <<TRUE, Linearize(u, g)>>
        \/ r = <<TRUE, Linearize(a, g)>>
    <3>1. CASE a.small
      BY <1>3, <3>1, Zenon DEF EnsureSpace
    <3>2. CASE ~a.small
      BY <1>3, <3>2, Zenon DEF EnsureSpace
    <3> QED
      BY <3>1, <3>2
  <2> HIDE DEF u, g
  <2>7. CASE r = <<FALSE, a>>
    BY <2>7, SameItself
  <2>8. CASE r = <<FALSE, u>>
    BY <2>8, <2>2
  <2>9. CASE r = <<TRUE, Linearize(u, g)>>
    BY <2>9, <2>3, <2>5, <2>1
  <2>10. CASE r = <<TRUE, Linearize(a, g)>>
    BY <2>10, <2>4, <2>1
  <2> QED
    BY <2>6, <2>7, <2>8, <2>9, <2>10
<1> QED
  BY <1>2, <1>3

\* ci_arr_ensure_continuous, whether its malloc succeeds or not.
LEMMA EnsureContinuousSame ==
    ASSUME NEW a, IsArray(a), NEW r \in EnsureContinuous(a)
    PROVE  Same(a, r[2])
<1> DEFINE u == Upgrade(a)
           l == Linearize(a, a.size)
<1>1. Same(a, a) /\ Same(a, u) /\ Same(a, l)
  <2>1. a.size \in Nat \ {0} /\ a.length <= a.size
    BY ArrayType
  <2> QED
    BY <2>1, SameItself, UpgradeSame, LinearizeSame
<1>2. r = <<FALSE, a>> \/ r = <<TRUE, u>> \/ r = <<TRUE, a>> \/ r = <<TRUE, l>>
  BY Zenon DEF EnsureContinuous
<1> HIDE DEF u, l
<1>3. <<FALSE, a>>[2] = a /\ <<TRUE, u>>[2] = u /\ <<TRUE, a>>[2] = a /\ <<TRUE, l>>[2] = l
  OBVIOUS
<1> QED
  BY <1>1, <1>2, <1>3, Zenon

-----------------------------------------------------------------------------
(* Writes *)

\* One write inside the buffer changes the element at one index.
LEMMA WriteOne ==
    ASSUME NEW a, IsArray(a), NEW b, Shaped(b), NEW v \in Word,
           NEW k \in 0 .. a.size - 1,
           b.size = a.size, b.offset = a.offset, b.small = a.small,
           b.length \in 0 .. a.size,
           b.data = [a.data EXCEPT ![Idx(a, k)] = v]
    PROVE  /\ IsArray(b)
           /\ \A i \in 0 .. a.size - 1 : At(b, i) = IF i = k THEN v ELSE At(a, i)
<1>1. /\ a.size \in Nat \ {0} /\ a.offset \in 0 .. a.size - 1 /\ a.small \in BOOLEAN
      /\ a.data \in [0 .. a.size - 1 -> Word]
      /\ Idx(a, k) \in 0 .. a.size - 1
  BY ArrayType, IdxIs
<1>2. IsArray(b)
  BY <1>1, WellFormed
<1>3. ASSUME NEW i \in 0 .. a.size - 1
      PROVE  At(b, i) = IF i = k THEN v ELSE At(a, i)
  <2>1. Idx(b, i) = Idx(a, i)
    BY DEF Idx
  <2>2. Idx(a, i) \in 0 .. a.size - 1
    BY <1>1, IdxIs
  <2>3. i # k => Idx(a, i) # Idx(a, k)
    BY IdxInjective
  <2> QED
    BY <1>1, <2>1, <2>2, <2>3 DEF At
<1> QED
  BY <1>2, <1>3

\* ci_arr_set replaces one element.
LEMMA SetAtIs ==
    ASSUME NEW a, IsArray(a), NEW k \in 0 .. a.length - 1, NEW v \in Word
    PROVE  LET b == SetAt(a, k, v)
           IN  /\ IsArray(b) /\ b.length = a.length
               /\ \A i \in 0 .. a.length - 1 : At(b, i) = IF i = k THEN v ELSE At(a, i)
<1> DEFINE p == Idx(a, k)
           b == [a EXCEPT !.data[p] = v]
<1>1. SetAt(a, k, v) = b
  BY DEF SetAt
<1>2. Shaped(a) /\ a.size \in Nat \ {0} /\ a.length \in 0 .. a.size
  BY ArrayType
<1> HIDE DEF p
<1>3. Shaped(b)
  BY <1>2, ShapeKept
<1>4. /\ b.size = a.size /\ b.offset = a.offset /\ b.small = a.small /\ b.length = a.length
      /\ b.data = [a.data EXCEPT ![p] = v]
  BY DEF IsArray, ArrayRec
<1> HIDE DEF b
<1>5. k \in 0 .. a.size - 1
  BY <1>2
<1>6. /\ IsArray(b)
      /\ \A i \in 0 .. a.size - 1 : At(b, i) = IF i = k THEN v ELSE At(a, i)
  BY <1>2, <1>3, <1>4, <1>5, WriteOne DEF p
<1> QED
  BY <1>1, <1>2, <1>4, <1>6

\* ci_arr_push adds an element behind the last one.
LEMMA PushTailIs ==
    ASSUME NEW a, IsArray(a), a.length < a.size, NEW v \in Word
    PROVE  LET b == PushTail(a, v)
           IN  /\ IsArray(b) /\ b.length = a.length + 1
               /\ At(b, a.length) = v
               /\ \A i \in 0 .. a.length - 1 : At(b, i) = At(a, i)
<1> DEFINE p == Idx(a, a.length)
           b == [a EXCEPT !.data[p] = v, !.length = @ + 1]
<1>1. PushTail(a, v) = b
  BY DEF PushTail
<1>2. Shaped(a) /\ a.size \in Nat \ {0} /\ a.length \in 0 .. a.size
  BY ArrayType
<1> HIDE DEF p
<1>3. Shaped(b)
  <2>1. b = [[a EXCEPT !.data = [a.data EXCEPT ![p] = v]] EXCEPT !.length = a.length + 1]
    OBVIOUS
  <2> QED
    BY <1>2, <2>1, ShapeKept
<1>4. /\ b.size = a.size /\ b.offset = a.offset /\ b.small = a.small /\ b.length = a.length + 1
      /\ b.data = [a.data EXCEPT ![p] = v]
  BY DEF IsArray, ArrayRec
<1> HIDE DEF b
<1>5. a.length \in 0 .. a.size - 1 /\ a.length + 1 \in 0 .. a.size
  BY <1>2
<1>6. /\ IsArray(b)
      /\ \A i \in 0 .. a.size - 1 : At(b, i) = IF i = a.length THEN v ELSE At(a, i)
  BY <1>2, <1>3, <1>4, <1>5, WriteOne DEF p
<1> QED
  BY <1>1, <1>2, <1>4, <1>5, <1>6

\* ci_arr_pop drops the last element and keeps the slot readable.
LEMMA PopTailIs ==
    ASSUME NEW a, IsArray(a), a.length > 0
    PROVE  LET b == PopTail(a)
           IN  /\ IsArray(b) /\ b.length = a.length - 1
               /\ \A i \in 0 .. a.length - 1 : At(b, i) = At(a, i)
<1> DEFINE b == [a EXCEPT !.length = @ - 1]
<1>1. /\ Shaped(a) /\ a.size \in Nat \ {0} /\ a.length \in 0 .. a.size
      /\ a.offset \in 0 .. a.size - 1 /\ a.small \in BOOLEAN
      /\ a.data \in [0 .. a.size - 1 -> Word]
  BY ArrayType
<1>2. Shaped(b)
  BY <1>1, ShapeKept
<1>3. /\ b.size = a.size /\ b.offset = a.offset /\ b.small = a.small /\ b.length = a.length - 1
      /\ b.data = a.data
  BY DEF IsArray, ArrayRec
<1>4. PopTail(a) = b
  BY DEF PopTail
<1> HIDE DEF b
<1>5. IsArray(b)
  BY <1>1, <1>2, <1>3, WellFormed
<1>6. \A i : At(b, i) = At(a, i)
  BY <1>3 DEF At, Idx
<1> QED
  BY <1>3, <1>4, <1>5, <1>6

\* ci_arr_unshift adds an element before the first one, wherever the offset is.
LEMMA PushHeadIs ==
    ASSUME NEW a, IsArray(a), a.length < a.size, NEW v \in Word
    PROVE  LET b == PushHead(a, v)
           IN  /\ IsArray(b) /\ b.length = a.length + 1
               /\ At(b, 0) = v
               /\ \A i \in 0 .. a.length - 1 : At(b, i + 1) = At(a, i)
<1> DEFINE q == IF a.offset = 0 THEN a.size - 1 ELSE a.offset - 1
           b == [a EXCEPT !.offset = q, !.data[q] = v, !.length = @ + 1]
<1>1. PushHead(a, v) = b
  BY DEF PushHead
<1>2. /\ Shaped(a) /\ a.size \in Nat \ {0} /\ a.length \in 0 .. a.size
      /\ a.offset \in 0 .. a.size - 1 /\ a.small \in BOOLEAN
      /\ a.data \in [0 .. a.size - 1 -> Word]
      /\ q \in 0 .. a.size - 1
  BY ArrayType
<1>3. a.offset = IF q + 1 < a.size THEN q + 1 ELSE 0
  BY <1>2
<1> HIDE DEF q
<1>4. Shaped(b)
  <2>1. b = [[[a EXCEPT !.offset = q] EXCEPT !.data = [a.data EXCEPT ![q] = v]] EXCEPT !.length = a.length + 1]
    OBVIOUS
  <2> QED
    BY <1>2, <2>1, ShapeKept
<1>5. /\ b.size = a.size /\ b.offset = q /\ b.small = a.small /\ b.length = a.length + 1
      /\ b.data = [a.data EXCEPT ![q] = v]
  BY DEF IsArray, ArrayRec
<1> HIDE DEF b
<1>6. IsArray(b)
  <2>1. b.size \in Nat \ {0} /\ b.offset \in 0 .. b.size - 1 /\ b.small \in BOOLEAN
    BY <1>2, <1>5
  <2>2. b.length \in 0 .. b.size
    BY <1>2, <1>5
  <2>3. b.data \in [0 .. b.size - 1 -> Word]
    BY <1>2, <1>5
  <2> QED
    BY <1>4, <2>1, <2>2, <2>3, WellFormed
<1>7. At(b, 0) = v
  <2>1. Idx(b, 0) = q
    BY <1>2, <1>5, <1>6, IdxIs
  <2> QED
    BY <1>2, <1>5, <2>1 DEF At
<1>8. ASSUME NEW i \in 0 .. a.length - 1
      PROVE  At(b, i + 1) = At(a, i)
  <2>1. i \in 0 .. a.size /\ i + 1 \in 0 .. b.size
    BY <1>2, <1>5
  <2>2. Idx(a, i) = IF a.offset + i < a.size THEN a.offset + i ELSE a.offset + i - a.size
    BY <2>1, IdxIs
  <2>3. Idx(b, i + 1) = IF q + (i + 1) < a.size THEN q + (i + 1) ELSE q + (i + 1) - a.size
    BY <2>1, <1>5, <1>6, IdxIs
  <2>4. Idx(b, i + 1) = Idx(a, i)
    <3>1. CASE q + 1 < a.size
      <4>1. a.offset = q + 1 /\ q \in Int /\ i \in Int /\ a.size \in Int
        BY <1>2, <1>3, <2>1, <3>1
      <4>2. CASE a.offset + i < a.size
        BY <2>2, <2>3, <4>1, <4>2
      <4>3. CASE ~(a.offset + i < a.size)
        BY <2>2, <2>3, <4>1, <4>3
      <4> QED
        BY <4>2, <4>3
    <3>2. CASE ~(q + 1 < a.size)
      <4>1. a.offset = 0 /\ q = a.size - 1 /\ i \in Nat /\ i < a.size
        BY <1>2, <1>3, <2>1, <3>2
      <4>2. Idx(a, i) = i /\ Idx(b, i + 1) = q + (i + 1) - a.size
        BY <1>2, <2>2, <2>3, <4>1
      <4> QED
        BY <1>2, <4>1, <4>2
    <3> QED
      BY <3>1, <3>2
  <2>5. Idx(a, i) \in 0 .. a.size - 1 /\ Idx(a, i) # q
    BY <1>2, <1>3, <2>1, <2>2, StepBack
  <2> QED
    BY <1>2, <1>5, <2>4, <2>5 DEF At
<1> QED
  BY <1>1, <1>5, <1>6, <1>7, <1>8

\* ci_arr_shift drops the first element.
LEMMA PopHeadIs ==
    ASSUME NEW a, IsArray(a), a.length > 0
    PROVE  LET b == PopHead(a)
           IN  /\ IsArray(b) /\ b.length = a.length - 1
               /\ At(a, 0) = a.data[a.offset]
               /\ \A i \in 0 .. b.length - 1 : At(b, i) = At(a, i + 1)
<1> DEFINE q == (a.offset + 1) % a.size
           b == [a EXCEPT !.offset = q, !.length = @ - 1]
<1>1. PopHead(a) = b
  BY DEF PopHead
<1>2. /\ Shaped(a) /\ a.size \in Nat \ {0} /\ a.length \in 0 .. a.size
      /\ a.offset \in 0 .. a.size - 1 /\ a.small \in BOOLEAN
      /\ a.data \in [0 .. a.size - 1 -> Word]
  BY ArrayType
<1>3. q = IF a.offset + 1 < a.size THEN a.offset + 1 ELSE a.offset + 1 - a.size
  <2>1. 1 \in 0 .. a.size
    BY <1>2
  <2> QED
    BY <1>2, <2>1, ModSum, Zenon
<1> HIDE DEF q
<1>4. Shaped(b)
  BY <1>2, ShapeKept
<1>5. /\ b.size = a.size /\ b.offset = q /\ b.small = a.small /\ b.length = a.length - 1
      /\ b.data = a.data
  BY DEF IsArray, ArrayRec
<1> HIDE DEF b
<1>6. IsArray(b)
  <2>1. b.size \in Nat \ {0} /\ b.offset \in 0 .. b.size - 1 /\ b.small \in BOOLEAN
    BY <1>2, <1>3, <1>5
  <2>2. b.length \in 0 .. b.size
    BY <1>2, <1>5
  <2>3. b.data \in [0 .. b.size - 1 -> Word]
    BY <1>2, <1>5
  <2> QED
    BY <1>4, <2>1, <2>2, <2>3, WellFormed
<1>7. At(a, 0) = a.data[a.offset]
  BY <1>2, IdxIs DEF At
<1>8. ASSUME NEW i \in 0 .. b.length - 1
      PROVE  At(b, i) = At(a, i + 1)
  <2>1. i + 1 \in 0 .. a.size /\ i \in 0 .. b.size /\ i \in 0 .. a.size - 1 /\ q \in Int
    BY <1>2, <1>3, <1>5
  <2>2. Idx(a, i + 1) = IF a.offset + (i + 1) < a.size THEN a.offset + (i + 1) ELSE a.offset + (i + 1) - a.size
    BY <2>1, IdxIs
  <2>3. Idx(b, i) = IF q + i < a.size THEN q + i ELSE q + i - a.size
    BY <2>1, <1>5, <1>6, IdxIs
  <2>4. Idx(b, i) = Idx(a, i + 1)
    <3>1. CASE a.offset + 1 < a.size
      <4>1. q = a.offset + 1 /\ a.offset \in Int /\ i \in Int /\ a.size \in Int
        BY <1>2, <1>3, <2>1, <3>1
      <4>2. CASE q + i < a.size
        BY <2>2, <2>3, <4>1, <4>2
      <4>3. CASE ~(q + i < a.size)
        BY <2>2, <2>3, <4>1, <4>3
      <4> QED
        BY <4>2, <4>3
    <3>2. CASE ~(a.offset + 1 < a.size)
      <4>1. q = 0 /\ a.offset = a.size - 1 /\ i \in Nat /\ i < a.size
        <5>1. a.offset \in Int /\ a.size \in Int /\ a.offset <= a.size - 1 /\ a.offset + 1 >= a.size
          BY <1>2, <3>2
        <5>2. a.offset = a.size - 1
          BY <5>1
        <5>3. q = a.offset + 1 - a.size
          BY <1>3, <3>2
        <5>4. q = 0
          BY <5>1, <5>2, <5>3
        <5>5. i \in Nat /\ i < a.size
          BY <1>2, <2>1
        <5> QED
          BY <5>2, <5>4, <5>5
      <4>2. Idx(b, i) = i /\ Idx(a, i + 1) = a.offset + (i + 1) - a.size
        BY <1>2, <2>2, <2>3, <4>1
      <4> QED
        BY <1>2, <4>1, <4>2
    <3> QED
      BY <3>1, <3>2
  <2> QED
    BY <1>5, <2>4 DEF At
<1> QED
  BY <1>1, <1>5, <1>6, <1>7, <1>8

\* ci_arr_clear
LEMMA ClearIs ==
    ASSUME NEW a, IsArray(a)
    PROVE  IsArray(Clear(a)) /\ Clear(a).length = 0
<1> DEFINE b == [a EXCEPT !.length = 0, !.offset = 0]
<1>1. /\ Shaped(a) /\ a.size \in Nat \ {0} /\ a.small \in BOOLEAN
      /\ a.data \in [0 .. a.size - 1 -> Word]
  BY ArrayType
<1>2. Shaped(b)
  BY <1>1, ShapeKept
<1>3. b.size = a.size /\ b.offset = 0 /\ b.small = a.small /\ b.length = 0 /\ b.data = a.data
  BY DEF IsArray, ArrayRec
<1>4. Clear(a) = b
  BY DEF Clear
<1> HIDE DEF b
<1> QED
  BY <1>1, <1>2, <1>3, <1>4, WellFormed

\* ci_arr_new, whatever its memory holds.
LEMMA NewArrayIs ==
    ASSUME NEW n \in Nat
    PROVE  IsArray(NewArray(n)) /\ NewArray(n).length = 0
<1>1. DefaultCap \in Nat \ {0}
  BY CapAssumption
<1> DEFINE c == IF n = 0 THEN DefaultCap ELSE n
           d == [p \in 0 .. c - 1 |-> Junk]
           b == [size |-> c, length |-> 0, offset |-> 0, data |-> d, small |-> FALSE]
<1>2. c \in Nat \ {0}
  BY <1>1
<1> HIDE DEF c
<1>3. d \in [0 .. c - 1 -> Word]
  BY DEF Word
<1> HIDE DEF d
<1>4. IsArray(b)
  BY <1>2, <1>3 DEF IsArray, ArrayRec
<1>5. NewArray(n) = b
  BY DEF NewArray, c, d
<1> QED
  BY <1>4, <1>5

\* ci_arr_new_inline
LEMMA NewInlineIs == IsArray(NewInline) /\ NewInline.length = 0
<1>1. SmallCap \in Nat \ {0}
  BY CapAssumption
<1> DEFINE d == [p \in 0 .. SmallCap - 1 |-> Junk]
           b == [size |-> SmallCap, length |-> 0, offset |-> 0, data |-> d, small |-> TRUE]
<1>2. d \in [0 .. SmallCap - 1 -> Word]
  BY DEF Word
<1>3. NewInline = b
  BY DEF NewInline
<1> HIDE DEF d
<1>4. IsArray(b)
  BY <1>1, <1>2 DEF IsArray, ArrayRec
<1> QED
  BY <1>3, <1>4

\* The new elements of a longer array are null, wrapped or not.
LEMMA ExtendToIs ==
    ASSUME NEW a, IsArray(a), NEW n \in Nat, a.length < n, n <= a.size
    PROVE  LET b == ExtendTo(a, n)
           IN  /\ IsArray(b) /\ b.length = n
               /\ \A i \in 0 .. n - 1 : At(b, i) = IF i < a.length THEN At(a, i) ELSE NULL
<1> DEFINE d == [p \in 0 .. a.size - 1 |->
                   IF a.offset = 0
                     THEN IF p \in a.length .. n - 1 THEN NULL ELSE a.data[p]
                     ELSE IF \E i \in a.length .. n - 1 : p = Idx(a, i) THEN NULL ELSE a.data[p]]
           z == [a EXCEPT !.data = d]
           b == [z EXCEPT !.length = n]
<1>1. ExtendTo(a, n) = b
  BY DEF ExtendTo, ZeroTail
<1>2. /\ Shaped(a) /\ a.size \in Nat \ {0} /\ a.length \in 0 .. a.size
      /\ a.offset \in 0 .. a.size - 1 /\ a.small \in BOOLEAN
      /\ a.data \in [0 .. a.size - 1 -> Word]
  BY ArrayType
<1>3. d \in [0 .. a.size - 1 -> Word]
  BY <1>2 DEF Word, Ptr
<1>4. ASSUME NEW i \in 0 .. n - 1
      PROVE  d[Idx(a, i)] = IF i < a.length THEN At(a, i) ELSE NULL
  <2>1. i \in 0 .. a.size - 1 /\ i \in 0 .. a.size
    BY <1>2
  <2>2. Idx(a, i) \in 0 .. a.size - 1
    BY <2>1, IdxIs
  <2>3. a.offset = 0 => Idx(a, i) = i
    BY <1>2, <2>1, IdxIs
  <2>4. (\E j \in a.length .. n - 1 : Idx(a, i) = Idx(a, j)) <=> i \in a.length .. n - 1
    <3>1. \A j \in a.length .. n - 1 : j \in 0 .. a.size - 1
      BY <1>2
    <3> QED
      BY <2>1, <3>1, IdxInjective
  <2>5. i \in a.length .. n - 1 <=> ~(i < a.length)
    BY <1>2
  <2> QED
    BY <2>2, <2>3, <2>4, <2>5 DEF At
<1> HIDE DEF d
<1>5. z.size = a.size /\ z.offset = a.offset /\ z.small = a.small /\ z.data = d /\ Shaped(z)
  <2>1. Shaped(z)
    BY <1>2, ShapeKept
  <2>2. z.size = a.size /\ z.offset = a.offset /\ z.small = a.small /\ z.data = d
    BY DEF IsArray, ArrayRec
  <2> QED
    BY <2>1, <2>2
<1> HIDE DEF z
<1>6. Shaped(b)
  BY <1>5, ShapeKept
<1>7. b.size = a.size /\ b.offset = a.offset /\ b.small = a.small /\ b.data = d /\ b.length = n
  BY <1>5 DEF Shaped
<1> HIDE DEF b
<1>8. IsArray(b)
  BY <1>2, <1>3, <1>6, <1>7, WellFormed
<1>9. \A i \in 0 .. n - 1 : At(b, i) = IF i < a.length THEN At(a, i) ELSE NULL
  BY <1>4, <1>7 DEF At, Idx
<1> QED
  BY <1>1, <1>7, <1>8, <1>9

\* The copy loop stays inside the buffer; when it copies one element it
\* appends it.
LEMMA AppendLoopIs ==
    ASSUME NEW a, IsArray(a), NEW s \in Seq(Word), Len(s) > 0,
           a.length + Len(s) <= a.size
    PROVE  LET b == AppendLoop(a, s)
           IN  /\ IsArray(b) /\ b.length = a.length + Len(s)
               /\ At(b, a.length) = s[Len(s)]
               /\ \A i \in 0 .. a.length - 1 : At(b, i) = At(a, i)
<1> DEFINE p == Idx(a, a.length)
           n == Len(s)
           v == s[n]
           b == [a EXCEPT !.data[p] = v, !.length = @ + n]
<1>1. AppendLoop(a, s) = b
  BY DEF AppendLoop
<1>2. /\ Shaped(a) /\ a.size \in Nat \ {0} /\ a.length \in 0 .. a.size
      /\ n \in Nat /\ v \in Word
  BY ArrayType
<1> HIDE DEF p, v, n
<1>3. Shaped(b)
  <2>1. b = [[a EXCEPT !.data = [a.data EXCEPT ![p] = v]] EXCEPT !.length = a.length + n]
    OBVIOUS
  <2> QED
    BY <1>2, <2>1, ShapeKept
<1>4. /\ b.size = a.size /\ b.offset = a.offset /\ b.small = a.small /\ b.length = a.length + n
      /\ b.data = [a.data EXCEPT ![p] = v]
  BY DEF IsArray, ArrayRec
<1> HIDE DEF b
<1>5. a.length \in 0 .. a.size - 1 /\ a.length + n \in 0 .. a.size
  BY <1>2 DEF n
<1>6. /\ IsArray(b)
      /\ \A i \in 0 .. a.size - 1 : At(b, i) = IF i = a.length THEN v ELSE At(a, i)
  BY <1>2, <1>3, <1>4, <1>5, WriteOne DEF p
<1> QED
  BY <1>1, <1>2, <1>4, <1>5, <1>6 DEF v, n

\* ci_arr_reverse, wherever the seam is.
LEMMA ReversedIs ==
    ASSUME NEW a, IsArray(a)
    PROVE  LET b == Reversed(a)
           IN  /\ IsArray(b) /\ b.length = a.length
               /\ \A i \in 0 .. a.length - 1 : At(b, i) = At(a, a.length - 1 - i)
<1> DEFINE R(p) == (p + a.size - a.offset) % a.size
           d == [p \in 0 .. a.size - 1 |->
                   IF R(p) < a.length THEN At(a, a.length - 1 - R(p)) ELSE a.data[p]]
           b == [a EXCEPT !.data = d]
<1>1. Reversed(a) = b
  BY DEF Reversed
<1>2. /\ Shaped(a) /\ a.size \in Nat \ {0} /\ a.length \in 0 .. a.size
      /\ a.offset \in 0 .. a.size - 1 /\ a.small \in BOOLEAN
      /\ a.data \in [0 .. a.size - 1 -> Word]
  BY ArrayType
<1>3. \A p \in 0 .. a.size - 1 : R(p) \in Nat
  BY <1>2
<1> HIDE DEF R
<1>4. d \in [0 .. a.size - 1 -> Word]
  <2>1. ASSUME NEW p \in 0 .. a.size - 1, R(p) < a.length
        PROVE  At(a, a.length - 1 - R(p)) \in Word
    <3>1. a.length - 1 - R(p) \in 0 .. a.size
      BY <1>2, <1>3, <2>1
    <3> QED
      BY <3>1, AtType
  <2> QED
    BY <1>2, <2>1
<1>5. ASSUME NEW i \in 0 .. a.length - 1
      PROVE  d[Idx(a, i)] = At(a, a.length - 1 - i)
  <2>1. i \in 0 .. a.size - 1 /\ i \in 0 .. a.size /\ i < a.length
    BY <1>2
  <2>2. Idx(a, i) \in 0 .. a.size - 1 /\ R(Idx(a, i)) = i
    BY <2>1, IdxIs, IdxInverse DEF R
  <2> QED
    BY <2>1, <2>2
<1> HIDE DEF d
<1>6. Shaped(b)
  BY <1>2, ShapeKept
<1>7. b.size = a.size /\ b.offset = a.offset /\ b.small = a.small /\ b.length = a.length /\ b.data = d
  BY DEF IsArray, ArrayRec
<1> HIDE DEF b
<1>8. IsArray(b)
  BY <1>2, <1>4, <1>6, <1>7, WellFormed
<1>9. \A i \in 0 .. a.length - 1 : At(b, i) = At(a, a.length - 1 - i)
  <2> SUFFICES ASSUME NEW i \in 0 .. a.length - 1
               PROVE  At(b, i) = At(a, a.length - 1 - i)
    OBVIOUS
  <2>1. At(b, i) = d[Idx(a, i)]
    BY <1>7 DEF At, Idx
  <2> QED
    BY <1>5, <2>1
<1> QED
  BY <1>1, <1>7, <1>8, <1>9

\* A slice bound is a position between the elements.
LEMMA SliceBoundType ==
    ASSUME NEW a, IsArray(a), NEW i \in Int
    PROVE  SliceBound(a, i) \in 0 .. a.length
BY ArrayType DEF SliceBound

\* ci_arr_slice, for any two bounds.
LEMMA SliceIs ==
    ASSUME NEW a, IsArray(a), NEW from \in Int, NEW to \in Int
    PROVE  LET b == Slice(a, from, to)
               f == SliceBound(a, from)
               t == SliceBound(a, to)
           IN  /\ IsArray(b)
               /\ b.length = IF t <= f THEN 0 ELSE t - f
               /\ \A i \in 0 .. b.length - 1 : At(b, i) = At(a, f + i)
<1> DEFINE f == SliceBound(a, from)
           t == SliceBound(a, to)
           d == [p \in 0 .. t - f - 1 |-> At(a, f + p)]
           b == [NewArray(t - f) EXCEPT !.length = t - f, !.data = d]
<1>1. /\ a.size \in Nat \ {0} /\ a.length \in 0 .. a.size
      /\ f \in 0 .. a.length /\ t \in 0 .. a.length
  BY ArrayType, SliceBoundType
<1>2. Slice(a, from, to) = IF t <= f THEN NewArray(DefaultCap) ELSE b
  BY DEF Slice
<1> HIDE DEF f, t
<1>3. CASE t <= f
  BY <1>1, <1>2, <1>3, NewArrayIs, CapAssumption DEF f, t
<1>4. CASE ~(t <= f)
  <2>1. t - f \in Nat \ {0}
    BY <1>1, <1>4
  <2>2. \A p \in 0 .. t - f - 1 : f + p \in 0 .. a.size
    BY <1>1
  <2>3. d \in [0 .. t - f - 1 -> Word]
    BY <2>2, AtType
  <2>4. /\ Shaped(NewArray(t - f)) /\ NewArray(t - f).size = t - f
        /\ NewArray(t - f).offset = 0 /\ NewArray(t - f).small = FALSE
        /\ IsArray(NewArray(t - f))
    BY <2>1, NewArrayIs, ArrayType DEF NewArray
  <2>5. \A p \in 0 .. t - f - 1 : d[p] = At(a, f + p)
    OBVIOUS
  <2> HIDE DEF d
  <2>6. Shaped(b)
    BY <2>4, ShapeKept
  <2>7. b.size = t - f /\ b.length = t - f /\ b.offset = 0 /\ b.data = d /\ b.small = FALSE
    BY <2>4 DEF IsArray, ArrayRec
  <2> HIDE DEF b
  <2>8. IsArray(b)
    <3>1. t - f \in 0 .. t - f /\ 0 \in 0 .. t - f - 1
      BY <2>1
    <3> QED
      BY <2>1, <2>3, <2>6, <2>7, <3>1, WellFormed
  <2>9. \A i \in 0 .. t - f - 1 : At(b, i) = At(a, f + i)
    <3> SUFFICES ASSUME NEW i \in 0 .. t - f - 1 PROVE At(b, i) = At(a, f + i)
      OBVIOUS
    <3>1. Idx(b, i) = i
      BY <2>1, <2>7, <2>8, IdxIs
    <3> QED
      BY <2>5, <2>7, <3>1 DEF At
  <2> QED
    BY <1>2, <1>4, <2>7, <2>8, <2>9 DEF f, t
<1> QED
  BY <1>3, <1>4

-----------------------------------------------------------------------------
(* Counting the occurrences of an object *)

\* The positions at which an object occurs.
Hits(a, e) == {i \in 0 .. a.length - 1 : At(a, i) = e}

\* 1 for true
One(b) == IF b THEN 1 ELSE 0

\* A one-to-one map onto a set of the same size.
LEMMA SameSize ==
    ASSUME NEW S, IsFiniteSet(S), NEW T, NEW f \in [S -> T],
           \A x, y \in S : f[x] = f[y] => x = y,
           \A t \in T : \E x \in S : f[x] = t
    PROVE  Cardinality(T) = Cardinality(S)
<1>1. f \in Bijection(S, T)
  BY DEF Bijection, Injection, Surjection, IsInjective
<1>2. ExistsBijection(S, T)
  BY <1>1 DEF ExistsBijection
<1> QED
  BY <1>2, FS_Bijection

\* An object occurs a finite number of times.
LEMMA HitsFinite ==
    ASSUME NEW a, IsArray(a), NEW e
    PROVE  IsFiniteSet(Hits(a, e)) /\ Cardinality(Hits(a, e)) \in Nat
<1>1. IsFiniteSet(0 .. a.length - 1)
  BY ArrayType, FS_Interval
<1>2. Hits(a, e) \in SUBSET (0 .. a.length - 1)
  BY DEF Hits
<1> QED
  BY <1>1, <1>2, FS_Subset, FS_CardinalityType

\* The same elements occur as often.
LEMMA SameHits ==
    ASSUME NEW a, IsArray(a), NEW b, Same(a, b), NEW e
    PROVE  Hits(b, e) = Hits(a, e)
BY DEF Same, Hits

\* One more element at the tail.
LEMMA HitsTail ==
    ASSUME NEW a, IsArray(a), NEW b, IsArray(b), b.length = a.length + 1,
           \A i \in 0 .. a.length - 1 : At(b, i) = At(a, i),
           NEW e
    PROVE  Cardinality(Hits(b, e)) = Cardinality(Hits(a, e)) + One(At(b, a.length) = e)
<1> DEFINE n == a.length
           A == Hits(a, e)
<1>1. n \in Nat
  BY ArrayType
<1>2. IsFiniteSet(A) /\ Cardinality(A) \in Nat
  BY HitsFinite
<1>3. n \notin A
  BY <1>1 DEF Hits
<1>4. CASE At(b, n) = e
  <2>1. Hits(b, e) = A \cup {n}
    BY <1>1, <1>4 DEF Hits
  <2>2. Cardinality(A \cup {n}) = Cardinality(A) + 1
    BY <1>2, <1>3, FS_AddElement
  <2> QED
    BY <1>4, <2>1, <2>2 DEF One
<1>5. CASE At(b, n) # e
  <2>1. Hits(b, e) = A
    BY <1>1, <1>5 DEF Hits
  <2> QED
    BY <1>2, <1>5, <2>1 DEF One
<1> QED
  BY <1>4, <1>5

\* One more element at the head.
LEMMA HitsHead ==
    ASSUME NEW a, IsArray(a), NEW b, IsArray(b), b.length = a.length + 1,
           \A i \in 0 .. a.length - 1 : At(b, i + 1) = At(a, i),
           NEW e
    PROVE  Cardinality(Hits(b, e)) = Cardinality(Hits(a, e)) + One(At(b, 0) = e)
<1> DEFINE n == a.length
           A == Hits(a, e)
           T == {j \in 1 .. n : At(b, j) = e}
           f == [i \in A |-> i + 1]
<1>1. n \in Nat
  BY ArrayType
<1>2. IsFiniteSet(A) /\ Cardinality(A) \in Nat
  BY HitsFinite
<1>3. IsFiniteSet(T)
  <2>1. IsFiniteSet(1 .. n)
    BY <1>1, FS_Interval
  <2>2. T \in SUBSET (1 .. n)
    OBVIOUS
  <2> QED
    BY <2>1, <2>2, FS_Subset
<1>4. Cardinality(T) = Cardinality(A)
  <2>1. f \in [A -> T]
    <3> SUFFICES ASSUME NEW i \in A PROVE i + 1 \in T
      OBVIOUS
    <3>1. i \in 0 .. n - 1 /\ At(a, i) = e
      BY DEF Hits
    <3>2. i + 1 \in 1 .. n
      BY <1>1, <3>1
    <3> QED
      BY <3>1, <3>2
  <2>2. \A x, y \in A : f[x] = f[y] => x = y
    BY <1>1 DEF Hits
  <2>3. ASSUME NEW t \in T PROVE \E x \in A : f[x] = t
    <3>1. t \in 1 .. n /\ At(b, t) = e
      OBVIOUS
    <3>2. t - 1 \in 0 .. n - 1 /\ (t - 1) + 1 = t
      BY <1>1, <3>1
    <3>3. t - 1 \in A
      <4>1. At(b, (t - 1) + 1) = At(a, t - 1)
        BY <3>2
      <4> QED
        BY <3>1, <3>2, <4>1 DEF Hits
    <3> QED
      BY <3>2, <3>3
  <2> HIDE DEF A, T, f
  <2> QED
    BY <1>2, <2>1, <2>2, <2>3, SameSize
<1>5. \A j : j \in 0 .. b.length - 1 <=> j = 0 \/ j \in 1 .. n
  BY <1>1
<1>6. CASE At(b, 0) = e
  <2>1. Hits(b, e) = T \cup {0}
    BY <1>5, <1>6 DEF Hits
  <2>2. 0 \notin T
    BY <1>1
  <2>3. Cardinality(T \cup {0}) = Cardinality(T) + 1
    BY <1>3, <2>2, FS_AddElement
  <2> QED
    BY <1>4, <1>6, <2>1, <2>3 DEF One
<1>7. CASE At(b, 0) # e
  <2>1. Hits(b, e) = T
    BY <1>5, <1>7 DEF Hits
  <2> QED
    BY <1>2, <1>4, <1>7, <2>1 DEF One
<1> QED
  BY <1>6, <1>7

\* One element replaced.
LEMMA HitsReplace ==
    ASSUME NEW a, IsArray(a), NEW b, IsArray(b), b.length = a.length,
           NEW k \in 0 .. a.length - 1,
           \A i \in 0 .. a.length - 1 : i # k => At(b, i) = At(a, i),
           NEW e
    PROVE  Cardinality(Hits(b, e)) = Cardinality(Hits(a, e)) + One(At(b, k) = e) - One(At(a, k) = e)
<1> DEFINE R == Hits(a, e) \ {k}
<1>1. IsFiniteSet(R) /\ k \notin R /\ Cardinality(R) \in Nat
  BY HitsFinite, FS_RemoveElement, FS_CardinalityType
<1>2. Cardinality(R \cup {k}) = Cardinality(R) + 1
  BY <1>1, FS_AddElement
<1>3. Hits(a, e) = IF At(a, k) = e THEN R \cup {k} ELSE R
  BY DEF Hits
<1>4. Hits(b, e) = IF At(b, k) = e THEN R \cup {k} ELSE R
  BY DEF Hits
<1> HIDE DEF R
<1> QED
  BY <1>1, <1>2, <1>3, <1>4 DEF One

\* The elements in reverse.
LEMMA HitsReversed ==
    ASSUME NEW a, IsArray(a), NEW b, IsArray(b), b.length = a.length,
           \A i \in 0 .. a.length - 1 : At(b, i) = At(a, a.length - 1 - i),
           NEW e
    PROVE  Cardinality(Hits(b, e)) = Cardinality(Hits(a, e))
<1> DEFINE n == a.length
           A == Hits(a, e)
           B == Hits(b, e)
           f == [i \in B |-> n - 1 - i]
<1>1. n \in Nat
  BY ArrayType
<1>2. IsFiniteSet(B)
  BY HitsFinite
<1>3. f \in [B -> A]
  <2> SUFFICES ASSUME NEW i \in B PROVE n - 1 - i \in A
    OBVIOUS
  <2>1. i \in 0 .. n - 1 /\ At(b, i) = e
    BY DEF Hits
  <2>2. n - 1 - i \in 0 .. n - 1
    BY <1>1, <2>1
  <2> QED
    BY <2>1, <2>2 DEF Hits
<1>4. \A x, y \in B : f[x] = f[y] => x = y
  BY <1>1 DEF Hits
<1>5. ASSUME NEW t \in A PROVE \E x \in B : f[x] = t
  <2>1. t \in 0 .. n - 1 /\ At(a, t) = e
    BY DEF Hits
  <2>2. n - 1 - t \in 0 .. n - 1 /\ n - 1 - (n - 1 - t) = t
    BY <1>1, <2>1
  <2>3. n - 1 - t \in B
    <3>1. At(b, n - 1 - t) = At(a, n - 1 - (n - 1 - t))
      BY <2>2
    <3> QED
      BY <2>1, <2>2, <3>1 DEF Hits
  <2> QED
    BY <2>2, <2>3
<1> HIDE DEF A, B, f
<1>6. Cardinality(A) = Cardinality(B)
  BY <1>2, <1>3, <1>4, <1>5, SameSize
<1> QED
  BY <1>6 DEF A, B

\* The slots that clear and the destructors release, in one segment or two,
\* are those of the elements, each once.
LEMMA DecsAreHits ==
    ASSUME NEW a, IsArray(a), NEW e
    PROVE  Cardinality({p \in DecSlots(a) : a.data[p] = e}) = Cardinality(Hits(a, e))
<1> DEFINE D == {p \in DecSlots(a) : a.data[p] = e}
           H == Hits(a, e)
           f == [i \in H |-> Idx(a, i)]
<1>1. /\ a.size \in Nat \ {0} /\ a.length \in 0 .. a.size /\ a.offset \in 0 .. a.size - 1
  BY ArrayType
<1>2. \A i \in H : i \in 0 .. a.length - 1 /\ i \in 0 .. a.size - 1 /\ i \in 0 .. a.size
  BY <1>1 DEF Hits
<1>3. f \in [H -> D]
  <2> SUFFICES ASSUME NEW i \in H PROVE Idx(a, i) \in D
    OBVIOUS
  <2>1. Idx(a, i) = IF a.offset + i < a.size THEN a.offset + i ELSE a.offset + i - a.size
    BY <1>2, IdxIs
  <2>2. i \in 0 .. a.length - 1
    BY <1>2
  <2>3. Idx(a, i) \in DecSlots(a)
    <3>1. CASE a.offset + a.length <= a.size
      <4>1. Idx(a, i) = a.offset + i /\ a.offset + i \in a.offset .. a.offset + a.length - 1
        BY <1>1, <2>1, <2>2, <3>1
      <4> QED
        BY <3>1, <4>1 DEF DecSlots
    <3>2. CASE ~(a.offset + a.length <= a.size)
      <4>1. DecSlots(a) = a.offset .. a.size - 1 \cup 0 .. a.length - (a.size - a.offset) - 1
        BY <3>2 DEF DecSlots
      <4>2. CASE a.offset + i < a.size
        <5>1. a.offset + i \in a.offset .. a.size - 1
          BY <1>1, <2>2, <4>2
        <5> QED
          BY <2>1, <4>1, <4>2, <5>1
      <4>3. CASE ~(a.offset + i < a.size)
        <5>1. a.offset + i - a.size \in 0 .. a.length - (a.size - a.offset) - 1
          BY <1>1, <2>2, <4>3
        <5> QED
          BY <2>1, <4>1, <4>3, <5>1
      <4> QED
        BY <4>2, <4>3
    <3> QED
      BY <3>1, <3>2
  <2>4. a.data[Idx(a, i)] = e
    BY DEF Hits, At
  <2> QED
    BY <2>3, <2>4
<1>4. \A x, y \in H : f[x] = f[y] => x = y
  BY <1>2, IdxInjective
<1>5. ASSUME NEW p \in D PROVE \E i \in H : f[i] = p
  <2> DEFINE i == IF p >= a.offset THEN p - a.offset ELSE p + a.size - a.offset
  <2>1. p \in DecSlots(a) /\ a.data[p] = e
    OBVIOUS
  <2>2. p \in Int /\ i \in 0 .. a.length - 1
    BY <1>1, <2>1 DEF DecSlots
  <2>3. p \in 0 .. a.size - 1
    BY <1>1, <2>1 DEF DecSlots
  <2>4. i \in 0 .. a.size
    BY <1>1, <2>2
  <2>5. Idx(a, i) = IF a.offset + i < a.size THEN a.offset + i ELSE a.offset + i - a.size
    BY <2>4, IdxIs
  <2>6. Idx(a, i) = p
    BY <1>1, <2>3, <2>5
  <2> HIDE DEF i
  <2>7. i \in H
    BY <2>1, <2>2, <2>6 DEF Hits, At
  <2> QED
    BY <2>6, <2>7
<1>6. IsFiniteSet(H)
  BY HitsFinite
<1>7. Cardinality(D) = Cardinality(H)
  <2> HIDE DEF D, H, f
  <2> QED
    BY <1>3, <1>4, <1>5, <1>6, SameSize
<1> QED
  BY <1>7 DEF D, H

\* How often e occurs in an array.
Count(a, e) == Cardinality(Hits(a, e))

\* A push and an unshift add one occurrence.
LEMMA CountPushed ==
    ASSUME NEW a, IsArray(a), a.length < a.size, NEW v \in Word, NEW e
    PROVE  /\ Count(PushTail(a, v), e) = Count(a, e) + One(v = e)
           /\ Count(PushHead(a, v), e) = Count(a, e) + One(v = e)
<1>1. Count(a, e) = Cardinality(Hits(a, e))
  BY DEF Count
<1>2. Count(PushTail(a, v), e) = Count(a, e) + One(v = e)
  <2> DEFINE b == PushTail(a, v)
  <2>1. /\ IsArray(b) /\ b.length = a.length + 1 /\ At(b, a.length) = v
        /\ \A i \in 0 .. a.length - 1 : At(b, i) = At(a, i)
    BY PushTailIs
  <2> HIDE DEF b
  <2>2. Cardinality(Hits(b, e)) = Cardinality(Hits(a, e)) + One(At(b, a.length) = e)
    BY <2>1, HitsTail
  <2>3. Count(b, e) = Count(a, e) + One(v = e)
    BY <1>1, <2>1, <2>2 DEF Count
  <2> QED
    BY <2>3 DEF b
<1>3. Count(PushHead(a, v), e) = Count(a, e) + One(v = e)
  <2> DEFINE b == PushHead(a, v)
  <2>1. /\ IsArray(b) /\ b.length = a.length + 1 /\ At(b, 0) = v
        /\ \A i \in 0 .. a.length - 1 : At(b, i + 1) = At(a, i)
    BY PushHeadIs
  <2> HIDE DEF b
  <2>2. Cardinality(Hits(b, e)) = Cardinality(Hits(a, e)) + One(At(b, 0) = e)
    BY <2>1, HitsHead
  <2>3. Count(b, e) = Count(a, e) + One(v = e)
    BY <1>1, <2>1, <2>2 DEF Count
  <2> QED
    BY <2>3 DEF b
<1> QED
  BY <1>2, <1>3

\* A pop and a shift take one away, of the pointer they return.
LEMMA CountPopped ==
    ASSUME NEW a, IsArray(a), a.length > 0, NEW e
    PROVE  /\ Count(a, e) = Count(PopTail(a), e) + One(At(PopTail(a), PopTail(a).length) = e)
           /\ Count(a, e) = Count(PopHead(a), e) + One(a.data[a.offset] = e)
<1>1. Count(a, e) = Cardinality(Hits(a, e)) /\ a.length \in Nat
  BY ArrayType DEF Count
<1>2. Count(a, e) = Count(PopTail(a), e) + One(At(PopTail(a), PopTail(a).length) = e)
  <2> DEFINE b == PopTail(a)
  <2>1. /\ IsArray(b) /\ b.length = a.length - 1
        /\ \A i \in 0 .. a.length - 1 : At(b, i) = At(a, i)
    BY PopTailIs
  <2> HIDE DEF b
  <2>2. /\ a.length = b.length + 1 /\ b.length \in 0 .. a.length - 1
        /\ \A i \in 0 .. b.length - 1 : At(a, i) = At(b, i)
    BY <1>1, <2>1
  <2>3. Cardinality(Hits(a, e)) = Cardinality(Hits(b, e)) + One(At(a, b.length) = e)
    <3>1. IsArray(b)
      BY <2>1
    <3>2. a.length = b.length + 1
      BY <2>2
    <3>3. \A i \in 0 .. b.length - 1 : At(a, i) = At(b, i)
      BY <2>2
    <3> QED
      BY <3>1, <3>2, <3>3, HitsTail
  <2>4. At(a, b.length) = At(b, b.length)
    BY <2>1, <2>2
  <2>5. Count(b, e) = Cardinality(Hits(b, e))
    BY <2>1 DEF Count
  <2> QED
    BY <1>1, <2>3, <2>4, <2>5 DEF b
<1>3. Count(a, e) = Count(PopHead(a), e) + One(a.data[a.offset] = e)
  <2> DEFINE b == PopHead(a)
  <2>1. /\ IsArray(b) /\ b.length = a.length - 1 /\ At(a, 0) = a.data[a.offset]
        /\ \A i \in 0 .. b.length - 1 : At(b, i) = At(a, i + 1)
    BY PopHeadIs
  <2> HIDE DEF b
  <2>2. a.length = b.length + 1 /\ \A i \in 0 .. b.length - 1 : At(a, i + 1) = At(b, i)
    BY <1>1, <2>1
  <2>3. Cardinality(Hits(a, e)) = Cardinality(Hits(b, e)) + One(At(a, 0) = e)
    <3>1. IsArray(b)
      BY <2>1
    <3>2. a.length = b.length + 1
      BY <2>2
    <3>3. \A i \in 0 .. b.length - 1 : At(a, i + 1) = At(b, i)
      BY <2>2
    <3> QED
      BY <3>1, <3>2, <3>3, HitsHead
  <2>4. Count(b, e) = Cardinality(Hits(b, e))
    BY <2>1 DEF Count
  <2> QED
    BY <1>1, <2>1, <2>3, <2>4 DEF b
<1> QED
  BY <1>2, <1>3

\* An extension adds null pointers, which are not counted.
LEMMA CountExtended ==
    ASSUME NEW a, IsArray(a), NEW n \in Nat, a.length < n, n <= a.size,
           NEW e \in Elem
    PROVE  Count(ExtendTo(a, n), e) = Count(a, e)
<1> DEFINE b == ExtendTo(a, n)
<1>1. /\ IsArray(b) /\ b.length = n
      /\ \A i \in 0 .. n - 1 : At(b, i) = IF i < a.length THEN At(a, i) ELSE NULL
  BY ExtendToIs
<1> HIDE DEF b
<1>2. NULL # e /\ a.length \in Nat
  BY ValAssumption, ArrayType
<1>3. Hits(b, e) = Hits(a, e)
  BY <1>1, <1>2 DEF Hits
<1>4. Count(b, e) = Count(a, e)
  BY <1>1, <1>3 DEF Count
<1> QED
  BY <1>4 DEF b

\* A set exchanges one occurrence for another.
LEMMA CountSet ==
    ASSUME NEW a, IsArray(a), NEW k \in 0 .. a.length - 1, NEW v \in Word, NEW e
    PROVE  Count(SetAt(a, k, v), e) = Count(a, e) + One(v = e) - One(At(a, k) = e)
<1> DEFINE b == SetAt(a, k, v)
<1>1. /\ IsArray(b) /\ b.length = a.length
      /\ \A i \in 0 .. a.length - 1 : At(b, i) = IF i = k THEN v ELSE At(a, i)
  BY SetAtIs
<1> HIDE DEF b
<1>2. At(b, k) = v /\ \A i \in 0 .. a.length - 1 : i # k => At(b, i) = At(a, i)
  BY <1>1
<1>3. Cardinality(Hits(b, e)) = Cardinality(Hits(a, e)) + One(At(b, k) = e) - One(At(a, k) = e)
  BY <1>1, <1>2, HitsReplace
<1>4. Count(b, e) = Count(a, e) + One(v = e) - One(At(a, k) = e)
  BY <1>1, <1>2, <1>3 DEF Count
<1> QED
  BY <1>4 DEF b

\* A reversal changes no count.
LEMMA CountReversed ==
    ASSUME NEW a, IsArray(a), NEW e
    PROVE  Count(Reversed(a), e) = Count(a, e)
<1> DEFINE b == Reversed(a)
<1>1. /\ IsArray(b) /\ b.length = a.length
      /\ \A i \in 0 .. a.length - 1 : At(b, i) = At(a, a.length - 1 - i)
  BY ReversedIs
<1> HIDE DEF b
<1>2. Cardinality(Hits(b, e)) = Cardinality(Hits(a, e))
  BY <1>1, HitsReversed
<1>3. Count(b, e) = Count(a, e)
  BY <1>1, <1>2 DEF Count
<1> QED
  BY <1>3 DEF b

-----------------------------------------------------------------------------
(* The elements after each operation, as a sequence *)

\* The elements of an array, as a sequence.
LEMMA ElementsType ==
    ASSUME NEW a, IsArray(a)
    PROVE  /\ Elements(a) \in Seq(Word)
           /\ Len(Elements(a)) = a.length
           /\ DOMAIN Elements(a) = 1 .. a.length
           /\ \A k \in 1 .. a.length : Elements(a)[k] = At(a, k - 1)
<1> DEFINE n == a.length
           f == [k \in 1 .. n |-> At(a, k - 1)]
<1>1. n \in Nat /\ n <= a.size /\ a.size \in Nat
  BY ArrayType
<1>2. ASSUME NEW k \in 1 .. n PROVE At(a, k - 1) \in Word
  <2>1. k - 1 \in 0 .. a.size
    BY <1>1
  <2> QED
    BY <2>1, AtType
<1>3. Elements(a) = f
  BY DEF Elements
<1>4. f \in Seq(Word) /\ DOMAIN f = 1 .. n
  BY <1>1, <1>2
<1>5. Len(f) = n
  <2> HIDE DEF f
  <2> QED
    BY <1>1, <1>4
<1>6. \A k \in 1 .. n : f[k] = At(a, k - 1)
  OBVIOUS
<1> HIDE DEF f
<1> QED
  BY <1>3, <1>4, <1>5, <1>6

\* A sequence with the elements of the array at its positions is Elements.
LEMMA ElementsAre ==
    ASSUME NEW a, IsArray(a), NEW q \in Seq(Word), Len(q) = a.length,
           \A k \in 1 .. a.length : q[k] = At(a, k - 1)
    PROVE  Elements(a) = q
<1>1. /\ Elements(a) \in Seq(Word) /\ Len(Elements(a)) = a.length
      /\ \A k \in 1 .. a.length : Elements(a)[k] = At(a, k - 1)
  BY ElementsType
<1> QED
  BY <1>1, SeqEqual

\* A rearrangement leaves the sequence as it is.
LEMMA ElementsSame ==
    ASSUME NEW a, IsArray(a), NEW b, Same(a, b)
    PROVE  Elements(b) = Elements(a)
<1>1. a.length \in Nat /\ \A k \in 1 .. a.length : k - 1 \in 0 .. a.length - 1
  BY ArrayType
<1>2. /\ Elements(a) \in Seq(Word) /\ Len(Elements(a)) = a.length
      /\ \A k \in 1 .. a.length : Elements(a)[k] = At(a, k - 1)
  BY ElementsType
<1>3. b.length = a.length /\ IsArray(b) /\ \A k \in 1 .. b.length : Elements(a)[k] = At(b, k - 1)
  BY <1>1, <1>2 DEF Same
<1> QED
  BY <1>2, <1>3, ElementsAre

\* The empty sequence is that of an array of length 0.
LEMMA ElementsNone ==
    ASSUME NEW a, IsArray(a)
    PROVE  Elements(a) = <<>> <=> a.length = 0
<1>1. Elements(a) \in Seq(Word) /\ Len(Elements(a)) = a.length
  BY ElementsType
<1> QED
  BY <1>1, EmptySeq, SeqEqual

\* ci_arr_push
LEMMA ElementsPushTail ==
    ASSUME NEW a, IsArray(a), a.length < a.size, NEW v \in Word
    PROVE  Elements(PushTail(a, v)) = Append(Elements(a), v)
<1> DEFINE b == PushTail(a, v)
           q == Append(Elements(a), v)
<1>1. /\ IsArray(b) /\ b.length = a.length + 1 /\ At(b, a.length) = v
      /\ \A i \in 0 .. a.length - 1 : At(b, i) = At(a, i)
  BY PushTailIs
<1>2. /\ Elements(a) \in Seq(Word) /\ Len(Elements(a)) = a.length /\ a.length \in Nat
      /\ \A k \in 1 .. a.length : Elements(a)[k] = At(a, k - 1)
  BY ElementsType, ArrayType
<1>3. /\ q \in Seq(Word) /\ Len(q) = a.length + 1 /\ q[a.length + 1] = v
      /\ \A k \in 1 .. a.length : q[k] = Elements(a)[k]
  BY <1>2, AppendProperties
<1> HIDE DEF b, q
<1>4. ASSUME NEW k \in 1 .. b.length PROVE q[k] = At(b, k - 1)
  <2>1. CASE k = a.length + 1
    BY <1>1, <1>2, <1>3, <2>1
  <2>2. CASE k # a.length + 1
    <3>1. k \in 1 .. a.length /\ k - 1 \in 0 .. a.length - 1
      BY <1>1, <1>2, <2>2
    <3> QED
      BY <1>1, <1>2, <1>3, <3>1
  <2> QED
    BY <2>1, <2>2
<1>5. Elements(b) = q
  BY <1>1, <1>3, <1>4, ElementsAre
<1> QED
  BY <1>5 DEF b, q

\* ci_arr_unshift
LEMMA ElementsPushHead ==
    ASSUME NEW a, IsArray(a), a.length < a.size, NEW v \in Word
    PROVE  Elements(PushHead(a, v)) = <<v>> \o Elements(a)
<1> DEFINE b == PushHead(a, v)
           q == <<v>> \o Elements(a)
<1>1. /\ IsArray(b) /\ b.length = a.length + 1 /\ At(b, 0) = v
      /\ \A i \in 0 .. a.length - 1 : At(b, i + 1) = At(a, i)
  BY PushHeadIs
<1>2. /\ Elements(a) \in Seq(Word) /\ Len(Elements(a)) = a.length /\ a.length \in Nat
      /\ \A k \in 1 .. a.length : Elements(a)[k] = At(a, k - 1)
  BY ElementsType, ArrayType
<1>3. <<v>> \in Seq(Word) /\ Len(<<v>>) = 1 /\ <<v>>[1] = v
  OBVIOUS
<1>4. /\ q \in Seq(Word) /\ Len(q) = 1 + a.length
      /\ \A k \in 1 .. 1 + a.length : q[k] = IF k <= 1 THEN <<v>>[k] ELSE Elements(a)[k - 1]
  BY <1>2, <1>3, ConcatProperties
<1> HIDE DEF b, q
<1>5. ASSUME NEW k \in 1 .. b.length PROVE q[k] = At(b, k - 1)
  <2>1. CASE k = 1
    BY <1>1, <1>2, <1>3, <1>4, <2>1
  <2>2. CASE k # 1
    <3>1. /\ k \in 1 .. 1 + a.length /\ ~(k <= 1) /\ k - 1 \in 1 .. a.length
          /\ (k - 1) - 1 \in 0 .. a.length - 1 /\ ((k - 1) - 1) + 1 = k - 1
      BY <1>1, <1>2, <2>2
    <3>2. q[k] = At(a, (k - 1) - 1)
      BY <1>2, <1>4, <3>1
    <3>3. At(b, ((k - 1) - 1) + 1) = At(a, (k - 1) - 1)
      BY <1>1, <3>1
    <3> QED
      BY <3>1, <3>2, <3>3
  <2> QED
    BY <2>1, <2>2
<1>6. Elements(b) = q
  BY <1>1, <1>2, <1>4, <1>5, ElementsAre
<1> QED
  BY <1>6 DEF b, q

\* A subsequence of the elements.
LEMMA ElementsSub ==
    ASSUME NEW a, IsArray(a), NEW b, IsArray(b), NEW f \in Int, NEW t \in Int,
           f \in 0 .. a.length, t \in 0 .. a.length,
           b.length = IF t <= f THEN 0 ELSE t - f,
           \A i \in 0 .. b.length - 1 : At(b, i) = At(a, f + i)
    PROVE  Elements(b) = SubSeq(Elements(a), f + 1, t)
<1> DEFINE s == Elements(a)
           q == SubSeq(s, f + 1, t)
<1>1. /\ s \in Seq(Word) /\ Len(s) = a.length /\ a.length \in Nat
      /\ \A k \in 1 .. a.length : s[k] = At(a, k - 1)
  BY ElementsType, ArrayType
<1> HIDE DEF s
<1>2. \A i \in f + 1 .. t : s[i] \in Word
  BY <1>1
<1>3. /\ q \in Seq(Word)
      /\ Len(q) = IF f + 1 <= t THEN t - (f + 1) + 1 ELSE 0
      /\ \A i \in 1 .. t - (f + 1) + 1 : q[i] = s[(f + 1) + i - 1]
  <2>1. f + 1 \in Int
    OBVIOUS
  <2> QED
    BY <1>2, <2>1, SubSeqProperties
<1> HIDE DEF q
<1>4. Len(q) = b.length
  BY <1>3
<1>5. ASSUME NEW k \in 1 .. b.length PROVE q[k] = At(b, k - 1)
  <2>1. /\ k \in 1 .. t - (f + 1) + 1 /\ k - 1 \in 0 .. b.length - 1
        /\ (f + 1) + k - 1 \in 1 .. a.length /\ ((f + 1) + k - 1) - 1 = f + (k - 1)
    BY <1>1
  <2>2. q[k] = At(a, ((f + 1) + k - 1) - 1)
    BY <1>1, <1>3, <2>1
  <2>3. At(b, k - 1) = At(a, f + (k - 1))
    BY <2>1
  <2> QED
    BY <2>1, <2>2, <2>3
<1>6. Elements(b) = q
  BY <1>3, <1>4, <1>5, ElementsAre
<1> QED
  BY <1>6 DEF q, s

\* ci_arr_pop and what it returns.
LEMMA ElementsPopTail ==
    ASSUME NEW a, IsArray(a), a.length > 0
    PROVE  /\ Elements(PopTail(a)) = SubSeq(Elements(a), 1, Len(Elements(a)) - 1)
           /\ Elements(a)[Len(Elements(a))] = At(PopTail(a), PopTail(a).length)
<1> DEFINE b == PopTail(a)
<1>1. /\ IsArray(b) /\ b.length = a.length - 1
      /\ \A i \in 0 .. a.length - 1 : At(b, i) = At(a, i)
  BY PopTailIs
<1>2. /\ Len(Elements(a)) = a.length /\ a.length \in Nat
      /\ \A k \in 1 .. a.length : Elements(a)[k] = At(a, k - 1)
  BY ElementsType, ArrayType
<1> HIDE DEF b
<1>3. /\ 0 \in 0 .. a.length /\ a.length - 1 \in 0 .. a.length
      /\ b.length = IF a.length - 1 <= 0 THEN 0 ELSE a.length - 1 - 0
      /\ \A i \in 0 .. b.length - 1 : At(b, i) = At(a, 0 + i)
  BY <1>1, <1>2
<1>4. Elements(b) = SubSeq(Elements(a), 0 + 1, a.length - 1)
  BY <1>1, <1>2, <1>3, ElementsSub
<1>5. Elements(a)[a.length] = At(b, b.length)
  <2>1. a.length \in 1 .. a.length /\ a.length - 1 \in 0 .. a.length - 1
    BY <1>2
  <2> QED
    BY <1>1, <1>2, <2>1
<1> QED
  BY <1>2, <1>4, <1>5 DEF b

\* ci_arr_shift and what it returns.
LEMMA ElementsPopHead ==
    ASSUME NEW a, IsArray(a), a.length > 0
    PROVE  /\ Elements(PopHead(a)) = SubSeq(Elements(a), 2, Len(Elements(a)))
           /\ Elements(a)[1] = a.data[a.offset]
<1> DEFINE b == PopHead(a)
<1>1. /\ IsArray(b) /\ b.length = a.length - 1 /\ At(a, 0) = a.data[a.offset]
      /\ \A i \in 0 .. b.length - 1 : At(b, i) = At(a, i + 1)
  BY PopHeadIs
<1>2. /\ Len(Elements(a)) = a.length /\ a.length \in Nat
      /\ \A k \in 1 .. a.length : Elements(a)[k] = At(a, k - 1)
  BY ElementsType, ArrayType
<1> HIDE DEF b
<1>3. /\ 1 \in 0 .. a.length /\ a.length \in 0 .. a.length
      /\ b.length = IF a.length <= 1 THEN 0 ELSE a.length - 1
      /\ \A i \in 0 .. b.length - 1 : At(b, i) = At(a, 1 + i)
  BY <1>1, <1>2
<1>4. Elements(b) = SubSeq(Elements(a), 1 + 1, a.length)
  BY <1>1, <1>2, <1>3, ElementsSub
<1>5. Elements(a)[1] = At(a, 0)
  <2>1. 1 \in 1 .. a.length /\ 1 - 1 = 0
    BY <1>2
  <2>2. Elements(a)[1] = At(a, 1 - 1)
    BY <1>2, <2>1
  <2> QED
    BY <2>1, <2>2
<1> QED
  BY <1>1, <1>2, <1>4, <1>5 DEF b

\* ci_arr_extend fills with null pointers.
LEMMA ElementsExtended ==
    ASSUME NEW a, IsArray(a), NEW n \in Nat, a.length < n, n <= a.size
    PROVE  Elements(ExtendTo(a, n))
              = [i \in 1 .. n |-> IF i <= Len(Elements(a)) THEN Elements(a)[i] ELSE NULL]
<1> DEFINE b == ExtendTo(a, n)
           s == Elements(a)
           q == [i \in 1 .. n |-> IF i <= Len(s) THEN s[i] ELSE NULL]
<1>1. /\ IsArray(b) /\ b.length = n
      /\ \A i \in 0 .. n - 1 : At(b, i) = IF i < a.length THEN At(a, i) ELSE NULL
  BY ExtendToIs
<1>2. /\ s \in Seq(Word) /\ Len(s) = a.length /\ a.length \in Nat
      /\ \A k \in 1 .. a.length : s[k] = At(a, k - 1)
  BY ElementsType, ArrayType
<1> HIDE DEF b, s
<1>3. q = Elements(b)
  <2>1. DOMAIN Elements(b) = 1 .. n /\ \A k \in 1 .. n : Elements(b)[k] = At(b, k - 1)
    BY <1>1, ElementsType
  <2>2. ASSUME NEW k \in 1 .. n
        PROVE  At(b, k - 1) = IF k <= Len(s) THEN s[k] ELSE NULL
    <3>1. k - 1 \in 0 .. n - 1 /\ (k - 1 < a.length <=> k <= Len(s))
      BY <1>2
    <3>2. k <= Len(s) => s[k] = At(a, k - 1)
      BY <1>2
    <3> QED
      BY <1>1, <3>1, <3>2
  <2>3. Elements(b) = [k \in 1 .. n |-> Elements(b)[k]]
    BY <1>1 DEF Elements
  <2> QED
    BY <2>1, <2>2, <2>3
<1> QED
  BY <1>3 DEF b, s

\* ci_arr_reverse, and the array of one element that it leaves alone.
LEMMA ElementsReversed ==
    ASSUME NEW a, IsArray(a), NEW b, IsArray(b), b.length = a.length,
           \A i \in 0 .. a.length - 1 : At(b, i) = At(a, a.length - 1 - i)
    PROVE  Elements(b) = [i \in 1 .. Len(Elements(a)) |-> Elements(a)[Len(Elements(a)) + 1 - i]]
<1> DEFINE s == Elements(a)
           n == a.length
<1>1. Len(s) = n /\ n \in Nat /\ \A k \in 1 .. n : s[k] = At(a, k - 1)
  BY ElementsType, ArrayType
<1> HIDE DEF s
<1>2. ASSUME NEW k \in 1 .. n PROVE At(b, k - 1) = s[n + 1 - k]
  <2>1. /\ k - 1 \in 0 .. n - 1 /\ n + 1 - k \in 1 .. n
        /\ n - 1 - (k - 1) = (n + 1 - k) - 1
    BY <1>1
  <2> QED
    BY <1>1, <2>1
<1>3. Elements(b) = [k \in 1 .. n |-> At(b, k - 1)]
  BY DEF Elements
<1>4. Elements(b) = [k \in 1 .. n |-> s[n + 1 - k]]
  BY <1>2, <1>3
<1> QED
  BY <1>1, <1>4 DEF s

\* ci_arr_set
LEMMA ElementsSet ==
    ASSUME NEW a, IsArray(a), NEW k \in 0 .. a.length - 1, NEW v \in Word
    PROVE  Elements(SetAt(a, k, v)) = [Elements(a) EXCEPT ![k + 1] = v]
<1> DEFINE b == SetAt(a, k, v)
           s == Elements(a)
           q == [s EXCEPT ![k + 1] = v]
<1>1. /\ IsArray(b) /\ b.length = a.length
      /\ \A i \in 0 .. a.length - 1 : At(b, i) = IF i = k THEN v ELSE At(a, i)
  BY SetAtIs
<1>2. /\ s \in Seq(Word) /\ Len(s) = a.length /\ a.length \in Nat
      /\ \A j \in 1 .. a.length : s[j] = At(a, j - 1)
  BY ElementsType, ArrayType
<1> HIDE DEF b, s
<1>3. k + 1 \in 1 .. Len(s)
  BY <1>2
<1>4. /\ q \in Seq(Word) /\ Len(q) = a.length
      /\ \A j \in 1 .. a.length : q[j] = IF j = k + 1 THEN v ELSE s[j]
  BY <1>2, <1>3, ExceptSeq
<1> HIDE DEF q
<1>5. ASSUME NEW j \in 1 .. b.length PROVE q[j] = At(b, j - 1)
  <2>1. j \in 1 .. a.length /\ j - 1 \in 0 .. a.length - 1 /\ (j = k + 1 <=> j - 1 = k)
    BY <1>1, <1>2
  <2> QED
    BY <1>1, <1>2, <1>4, <2>1
<1>6. Elements(b) = q
  BY <1>1, <1>4, <1>5, ElementsAre
<1> QED
  BY <1>6 DEF b, q, s

\* ci_arr_append of an array of one element.
LEMMA ElementsAppended ==
    ASSUME NEW a, IsArray(a), NEW c, IsArray(c), c.length = 1,
           a.length + 1 <= a.size
    PROVE  Elements(AppendLoop(a, Elements(c))) = Elements(a) \o Elements(c)
<1> DEFINE r == Elements(c)
           s == Elements(a)
           b == AppendLoop(a, r)
           q == s \o r
<1>1. /\ s \in Seq(Word) /\ Len(s) = a.length /\ a.length \in Nat
      /\ \A k \in 1 .. a.length : s[k] = At(a, k - 1)
  BY ElementsType, ArrayType
<1>2. r \in Seq(Word) /\ Len(r) = 1
  BY ElementsType
<1> HIDE DEF r, s
<1>3. /\ IsArray(b) /\ b.length = a.length + 1 /\ At(b, a.length) = r[1]
      /\ \A i \in 0 .. a.length - 1 : At(b, i) = At(a, i)
  <2>1. Len(r) > 0 /\ a.length + Len(r) <= a.size
    BY <1>2
  <2>2. /\ IsArray(b) /\ b.length = a.length + Len(r) /\ At(b, a.length) = r[Len(r)]
        /\ \A i \in 0 .. a.length - 1 : At(b, i) = At(a, i)
    BY <1>2, <2>1, AppendLoopIs, Zenon
  <2> QED
    BY <1>2, <2>2
<1>4. /\ q \in Seq(Word) /\ Len(q) = a.length + 1
      /\ \A k \in 1 .. a.length + 1 : q[k] = IF k <= a.length THEN s[k] ELSE r[k - a.length]
  <2>1. /\ q \in Seq(Word) /\ Len(q) = Len(s) + Len(r)
        /\ \A k \in 1 .. Len(s) + Len(r) : q[k] = IF k <= Len(s) THEN s[k] ELSE r[k - Len(s)]
    BY <1>1, <1>2, ConcatProperties, Zenon
  <2> HIDE DEF q
  <2> QED
    BY <1>1, <1>2, <2>1
<1> HIDE DEF b, q
<1>5. ASSUME NEW k \in 1 .. b.length PROVE q[k] = At(b, k - 1)
  <2>1. CASE k = a.length + 1
    <3>1. k - a.length = 1 /\ ~(k <= a.length) /\ k \in 1 .. a.length + 1 /\ k - 1 = a.length
      BY <1>1, <2>1
    <3> QED
      BY <1>3, <1>4, <3>1
  <2>2. CASE k # a.length + 1
    <3>1. k \in 1 .. a.length /\ k <= a.length /\ k \in 1 .. a.length + 1 /\ k - 1 \in 0 .. a.length - 1
      BY <1>1, <1>3, <2>2
    <3> QED
      BY <1>1, <1>3, <1>4, <3>1
  <2> QED
    BY <2>1, <2>2
<1>6. Elements(b) = q
  BY <1>3, <1>4, <1>5, ElementsAre
<1> QED
  BY <1>6 DEF b, q, r, s

-----------------------------------------------------------------------------
(* Searching and comparing *)

\* ci_arr_find finds the first position of the sequence, counted from 0.
LEMMA FindIs ==
    ASSUME NEW a, IsArray(a), NEW v, NEW start \in Nat
    PROVE  Find(a, v, start)
             = LET hits == {i \in start + 1 .. Len(Elements(a)) : Elements(a)[i] = v}
               IN  IF hits = {} THEN -1
                   ELSE (CHOOSE i \in hits : \A j \in hits : i <= j) - 1
<1> DEFINE H == {i \in start .. a.length - 1 : At(a, i) = v}
           K == {i \in start + 1 .. Len(Elements(a)) : Elements(a)[i] = v}
           h == CHOOSE i \in H : \A j \in H : i <= j
           k == CHOOSE i \in K : \A j \in K : i <= j
<1>1. /\ Len(Elements(a)) = a.length /\ a.length \in Nat
      /\ \A i \in 1 .. a.length : Elements(a)[i] = At(a, i - 1)
  BY ElementsType, ArrayType
<1>2. H \subseteq Nat /\ K \subseteq Nat
  BY <1>1
<1>3. ASSUME NEW i \in H PROVE i + 1 \in K
  <2>1. i \in start .. a.length - 1 /\ At(a, i) = v
    OBVIOUS
  <2>2. i + 1 \in start + 1 .. a.length /\ i + 1 \in 1 .. a.length /\ (i + 1) - 1 = i
    BY <1>1, <2>1
  <2> QED
    BY <1>1, <2>1, <2>2
<1>4. ASSUME NEW i \in K PROVE i - 1 \in H
  <2>1. i \in start + 1 .. a.length /\ Elements(a)[i] = v
    BY <1>1
  <2>2. i - 1 \in start .. a.length - 1 /\ i \in 1 .. a.length
    BY <1>1, <2>1
  <2> QED
    BY <1>1, <2>1, <2>2
<1>5. Find(a, v, start) = IF H = {} THEN -1 ELSE h
  BY DEF Find
<1> HIDE DEF H, K
<1>6. CASE H = {}
  <2>1. K = {}
    BY <1>4, <1>6
  <2> QED
    BY <1>5, <1>6, <2>1 DEF K
<1>7. CASE H # {}
  <2>1. K # {}
    BY <1>3, <1>7
  <2>2. h \in H /\ \A j \in H : h <= j
    BY <1>2, <1>7, LeastNat
  <2>3. k \in K /\ \A j \in K : k <= j
    BY <1>2, <2>1, LeastNat
  <2> HIDE DEF h, k
  <2>4. h + 1 \in K /\ k - 1 \in H
    BY <1>3, <1>4, <2>2, <2>3
  <2>5. h = k - 1
    BY <1>2, <2>2, <2>3, <2>4
  <2> QED
    BY <1>5, <1>7, <2>1, <2>5 DEF K, k
<1> QED
  BY <1>6, <1>7

\* ci_arr_eq compares the sequences.
LEMMA ArrEqIs ==
    ASSUME NEW a, IsArray(a), NEW b, IsArray(b)
    PROVE  ArrEq(a, b) <=> Elements(a) = Elements(b)
<1>1. /\ Elements(a) \in Seq(Word) /\ Len(Elements(a)) = a.length /\ a.length \in Nat
      /\ \A i \in 1 .. a.length : Elements(a)[i] = At(a, i - 1)
  BY ElementsType, ArrayType
<1>2. /\ Elements(b) \in Seq(Word) /\ Len(Elements(b)) = b.length
      /\ \A i \in 1 .. b.length : Elements(b)[i] = At(b, i - 1)
  BY ElementsType
<1>3. ASSUME ArrEq(a, b) PROVE Elements(a) = Elements(b)
  <2>1. Same(b, a)
    BY <1>3 DEF ArrEq, Same
  <2> QED
    BY <2>1, ElementsSame
<1>4. ASSUME Elements(a) = Elements(b) PROVE ArrEq(a, b)
  <2>1. a.length = b.length
    BY <1>1, <1>2, <1>4
  <2>2. ASSUME NEW i \in 0 .. a.length - 1 PROVE At(a, i) = At(b, i)
    <3>1. i + 1 \in 1 .. a.length /\ (i + 1) - 1 = i
      BY <1>1
    <3>2. Elements(a)[i + 1] = At(a, (i + 1) - 1) /\ Elements(b)[i + 1] = At(b, (i + 1) - 1)
      BY <1>1, <1>2, <2>1, <3>1
    <3> QED
      BY <1>4, <3>1, <3>2
  <2> QED
    BY <2>1, <2>2 DEF ArrEq
<1> QED
  BY <1>3, <1>4
=============================================================================
