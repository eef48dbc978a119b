--------------------------- MODULE CiArrayProofs ---------------------------
(***************************************************************************)
(* The array API keeps its arrays well formed (TypeCorrect), counts the    *)
(* references exactly (CountsExact) and is an array of the abstract        *)
(* specification (RefinesArray), for every set of objects, every capacity  *)
(* and every bound on the lengths.                                         *)
(*                                                                         *)
(* TypeOK is inductive.  RefBalance is inductive together with TypeOK.     *)
(* The step simulation needs TypeOK before and after the step.             *)
(***************************************************************************)
EXTENDS CiArray, CiArrayOpsProofs

-----------------------------------------------------------------------------
(* Type correctness *)

\* So does the room made for one element, which asks only when the buffer is
\* full.
LEMMA RoomSame ==
    ASSUME NEW a, IsArray(a), NEW r \in Room(a)
    PROVE  r[1] \in BOOLEAN /\ Same(a, r[2]) /\ (r[1] => r[2].length < r[2].size)
<1>1. a.size \in Nat \ {0} /\ a.length \in 0 .. a.size
  BY ArrayType
<1>2. CASE a.length = a.size
  <2>1. r \in EnsureSpace(a, 1)
    BY <1>2 DEF Room
  <2>2. r[1] \in BOOLEAN /\ Same(a, r[2]) /\ (r[1] => a.length + 1 <= r[2].size)
    BY <2>1, EnsureSpaceSame
  <2>3. r[2].length = a.length /\ r[2].size \in Nat
    BY <2>2, ArrayType DEF Same
  <2> QED
    BY <1>1, <2>2, <2>3
<1>3. CASE a.length # a.size
  <2>1. r = <<TRUE, a>>
    BY <1>3 DEF Room
  <2> QED
    BY <1>1, <1>3, <2>1, SameItself
<1> QED
  BY <1>2, <1>3

\* How often an object occurs is a number.
LEMMA OccursType ==
    ASSUME NEW a, Live(a) => IsArray(a), NEW e
    PROVE  Occurs(a, e) \in Nat
<1>1. CASE a = NoArr
  BY <1>1 DEF Occurs
<1>2. CASE a # NoArr
  BY <1>2, HitsFinite DEF Live, Occurs, Hits
<1> QED
  BY <1>1, <1>2

\* Every array stays well formed, whatever the capacities and bounds: the
\* offset is a buffer index and the length fits the buffer after every call.
THEOREM TypeCorrect == Spec => []TypeOK
<1>1. Init => TypeOK
  BY DEF Init, TypeOK, Live
<1>2. TypeOK /\ [Next]_vars => TypeOK'
  <2> SUFFICES ASSUME TypeOK, [Next]_vars
               PROVE  TypeOK'
    OBVIOUS
  <2> USE DEF Live
  <2>1. /\ arr # NoArr => IsArray(arr)
        /\ out # NoArr => IsArray(out)
        /\ cnt \in [Elem -> Int]
    BY DEF TypeOK
  <2>2. Ptr \subseteq Word
    BY DEF Word
  <2>3. \A a, e : IsArray(a) => Decs(a, e) \in Nat
    BY DecsAreHits, HitsFinite DEF Decs
  <2>4. /\ \A v : Give(v) => cnt' \in [Elem -> Int]
        /\ \A v : Take(v) => cnt' \in [Elem -> Int]
    BY <2>1 DEF Give, Take
  <2>5. \A b : IsArray(b) /\ DecAll(b) => cnt' \in [Elem -> Int]
    BY <2>1, <2>3 DEF DecAll
  <2>6. \A b : IsArray(b) /\ IncAll(b) => cnt' \in [Elem -> Int]
    BY <2>1, OccursType DEF IncAll
  <2>7. ASSUME NEW n \in 0 .. MaxLen, New(n) \/ CreateInline(n) PROVE TypeOK'
    <3>1. n \in Nat
      BY <2>7, BoundAssumption
    <3> QED
      BY <2>1, <2>7, <3>1, NewArrayIs, NewInlineIs DEF New, CreateInline, TypeOK
  <2>8. ASSUME NEW n \in 0 .. MaxLen, Extend(n) PROVE TypeOK'
    <3>1. arr # NoArr /\ IsArray(arr) /\ n \in Nat /\ out' = out /\ cnt' = cnt
      BY <2>1, <2>8, BoundAssumption DEF Extend
    <3>2. IsArray(arr')
      <4>1. CASE n <= arr.length
        BY <2>8, <3>1, <4>1 DEF Extend
      <4>2. CASE ~(n <= arr.length)
        <5>1. arr.length \in Nat /\ n - arr.length \in Nat
          BY <3>1, <4>2, ArrayType
        <5>2. PICK r \in EnsureSpace(arr, n - arr.length) :
                IF r[1] THEN arr' = ExtendTo(r[2], n) ELSE arr' = r[2]
          BY <2>8, <4>2, Zenon DEF Extend
        <5>3. /\ r[1] \in BOOLEAN /\ Same(arr, r[2])
              /\ r[1] => arr.length + (n - arr.length) <= r[2].size
          BY <3>1, <5>1, <5>2, EnsureSpaceSame
        <5>4. CASE r[1]
          BY <3>1, <4>2, <5>1, <5>2, <5>3, <5>4, ExtendToIs DEF Same
        <5> QED
          BY <5>2, <5>3, <5>4 DEF Same
      <4> QED
        BY <4>1, <4>2
    <3> QED
      BY <2>1, <3>1, <3>2 DEF TypeOK
  <2>9. ASSUME NEW n \in 0 .. MaxLen, Reserve(n) PROVE TypeOK'
    <3>1. IsArray(arr) /\ n \in Nat /\ out' = out /\ cnt' = cnt
      BY <2>1, <2>9, BoundAssumption DEF Reserve
    <3>2. PICK r \in EnsureSpace(arr, n) : arr' = r[2]
      BY <2>9 DEF Reserve
    <3> QED
      BY <2>1, <3>1, <3>2, EnsureSpaceSame DEF Same, TypeOK
  <2>10. ASSUME NEW v \in Ptr, Push(v) \/ Unshift(v) PROVE TypeOK'
    <3>1. IsArray(arr) /\ v \in Word /\ out' = out
      BY <2>1, <2>2, <2>10 DEF Push, Unshift
    <3>2. PICK r \in Room(arr) :
            IF r[1] THEN arr' \in {PushTail(r[2], v), PushHead(r[2], v)} /\ Give(v)
                    ELSE arr' = r[2] /\ UNCHANGED cnt
      BY <2>10 DEF Push, Unshift
    <3>3. r[1] \in BOOLEAN /\ Same(arr, r[2]) /\ (r[1] => r[2].length < r[2].size)
      BY <3>1, <3>2, RoomSame
    <3>4. CASE r[1]
      BY <2>1, <2>4, <3>1, <3>2, <3>3, <3>4, PushTailIs, PushHeadIs DEF Same, TypeOK
    <3>5. CASE ~r[1]
      BY <2>1, <3>1, <3>2, <3>3, <3>5 DEF Same, TypeOK
    <3> QED
      BY <3>4, <3>5
  <2>11. CASE Pop
    BY <2>1, <2>4, <2>11, PopTailIs DEF Pop, TypeOK
  <2>12. CASE Shift
    BY <2>1, <2>4, <2>12, PopHeadIs DEF Shift, TypeOK
  <2>13. ASSUME NEW src \in {arr, out}, AppendFrom(src) PROVE TypeOK'
    <3>1. IsArray(arr) /\ IsArray(src) /\ out' = out
      BY <2>1, <2>13 DEF AppendFrom
    <3>2. CASE src.length = 0
      BY <2>1, <2>13, <3>1, <3>2 DEF AppendFrom, TypeOK
    <3>3. CASE src.length # 0
      <4> DEFINE s == Elements(src)
      <4>1. PICK r \in EnsureSpace(arr, src.length) :
              IF r[1] THEN arr' = AppendLoop(r[2], s) /\ IncAll(src)
                      ELSE arr' = r[2] /\ UNCHANGED cnt
        BY <2>13, <3>3, Zenon DEF AppendFrom
      <4>2. s \in Seq(Word) /\ Len(s) = src.length /\ src.length \in Nat /\ Len(s) > 0
        BY <3>1, <3>3, ElementsType, ArrayType
      <4>3. r[1] \in BOOLEAN /\ Same(arr, r[2]) /\ (r[1] => arr.length + src.length <= r[2].size)
        BY <3>1, <4>1, <4>2, EnsureSpaceSame
      <4> HIDE DEF s
      <4>4. CASE r[1]
        <5>1. IsArray(AppendLoop(r[2], s))
          BY <4>2, <4>3, <4>4, AppendLoopIs DEF Same
        <5> QED
          BY <2>1, <2>6, <3>1, <4>1, <4>4, <5>1 DEF TypeOK
      <4>5. CASE ~r[1]
        BY <2>1, <3>1, <4>1, <4>3, <4>5 DEF Same, TypeOK
      <4> QED
        BY <4>4, <4>5
    <3> QED
      BY <3>2, <3>3
  <2>14. CASE ClearAll
    BY <2>1, <2>5, <2>14, ClearIs DEF ClearAll, TypeOK
  <2>15. CASE Reverse
    BY <2>1, <2>15, ReversedIs DEF Reverse, TypeOK
  <2>16. CASE Head1
    BY <2>1, <2>16, EnsureContinuousSame DEF Head1, Same, TypeOK
  <2>17. CASE Free
    BY <2>1, <2>5, <2>17 DEF Free, TypeOK
  <2>18. CASE FreeOut
    BY <2>1, <2>5, <2>18 DEF FreeOut, TypeOK
  <2>19. ASSUME NEW i \in 0 .. MaxLen, NEW v \in Ptr, Set(i, v) PROVE TypeOK'
    <3>1. IsArray(arr) /\ i \in 0 .. arr.length - 1 /\ v \in Word /\ out' = out
      BY <2>1, <2>2, <2>19 DEF Set
    <3>2. arr' = SetAt(arr, i, v) /\ cnt' \in [Elem -> Int]
      BY <2>1, <2>19 DEF Set
    <3> QED
      BY <2>1, <3>1, <3>2, SetAtIs DEF TypeOK
  <2>20. ASSUME NEW i \in Index, NEW j \in Index, TakeSlice(i, j) PROVE TypeOK'
    <3>1. IsArray(arr) /\ i \in Int /\ j \in Int /\ arr' = arr
      BY <2>1, <2>20, BoundAssumption DEF TakeSlice, Index
    <3>2. IsArray(Slice(arr, i, j))
      BY <3>1, SliceIs
    <3> QED
      BY <2>1, <2>6, <2>20, <3>1, <3>2 DEF TakeSlice, TypeOK
  <2>21. CASE UNCHANGED <<arr, out, cnt>>
    BY <2>1, <2>21 DEF TypeOK
  <2>22. ASSUME NEW i, NEW v, FindFrom(v, i) \/ IndexAt(i) \/ PopEmpty \/ CompareOut
         PROVE  UNCHANGED <<arr, out, cnt>>
    BY <2>22 DEF FindFrom, IndexAt, PopEmpty, CompareOut
  <2> QED
    BY <2>7, <2>8, <2>9, <2>10, <2>11, <2>12, <2>13, <2>14, <2>15, <2>16, <2>17, <2>18,
       <2>19, <2>20, <2>21, <2>22 DEF Next, vars
<1> QED
  BY <1>1, <1>2, PTL DEF Spec

-----------------------------------------------------------------------------
(* Reference counts *)

\* NoArr, the null pointer, is neither an array nor the contents of one.
NoArrIsNone == ~IsArray(NoArr) /\ NoArr \notin Seq(Word)

\* How often an object occurs in an array that is there.
LEMMA OccursIs ==
    ASSUME NoArrIsNone, NEW a, IsArray(a), NEW e
    PROVE  Occurs(a, e) = Count(a, e) /\ Occurs(a, e) \in Nat
<1>1. a # NoArr
  BY DEF NoArrIsNone
<1> QED
  BY <1>1, HitsFinite DEF Occurs, Count, Hits

\* A rearrangement changes no count.
LEMMA OccursSame ==
    ASSUME NoArrIsNone, NEW a, IsArray(a), NEW b, Same(a, b), NEW e
    PROVE  Occurs(b, e) = Occurs(a, e)
BY SameHits, OccursIs DEF Same, Count

\* An empty array owns nothing.
LEMMA OccursNone ==
    ASSUME NoArrIsNone, NEW a, IsArray(a), a.length = 0, NEW e
    PROVE  Occurs(a, e) = 0
<1>1. Hits(a, e) = {}
  BY DEF Hits
<1> QED
  BY <1>1, OccursIs, FS_EmptySet DEF Count

\* A push and an unshift add one occurrence.
LEMMA OccursPushed ==
    ASSUME NoArrIsNone, NEW a, IsArray(a), a.length < a.size, NEW v \in Word, NEW e
    PROVE  /\ Occurs(PushTail(a, v), e) = Occurs(a, e) + One(v = e)
           /\ Occurs(PushHead(a, v), e) = Occurs(a, e) + One(v = e)
BY CountPushed, OccursIs, PushTailIs, PushHeadIs

\* A pop and a shift take one away, of the pointer they return.
LEMMA OccursPopped ==
    ASSUME NoArrIsNone, NEW a, IsArray(a), a.length > 0, NEW e
    PROVE  /\ Occurs(a, e) = Occurs(PopTail(a), e) + One(At(PopTail(a), PopTail(a).length) = e)
           /\ Occurs(a, e) = Occurs(PopHead(a), e) + One(a.data[a.offset] = e)
BY CountPopped, OccursIs, PopTailIs, PopHeadIs

\* An extension adds null pointers, which are not counted.
LEMMA OccursExtended ==
    ASSUME NoArrIsNone, NEW a, IsArray(a), NEW n \in Nat, a.length < n, n <= a.size,
           NEW e \in Elem
    PROVE  Occurs(ExtendTo(a, n), e) = Occurs(a, e)
BY CountExtended, OccursIs, ExtendToIs

\* A set exchanges one occurrence for another.
LEMMA OccursSet ==
    ASSUME NoArrIsNone, NEW a, IsArray(a), NEW k \in 0 .. a.length - 1, NEW v \in Word, NEW e
    PROVE  Occurs(SetAt(a, k, v), e) = Occurs(a, e) + One(v = e) - One(At(a, k) = e)
BY CountSet, OccursIs, SetAtIs

\* A reversal changes no count.
LEMMA OccursReversed ==
    ASSUME NoArrIsNone, NEW a, IsArray(a), NEW e
    PROVE  Occurs(Reversed(a), e) = Occurs(a, e)
BY CountReversed, OccursIs, ReversedIs

\* An append of one element.
LEMMA OccursAppended ==
    ASSUME NoArrIsNone, NEW a, IsArray(a), NEW s, IsArray(s), s.length = 1,
           a.length + 1 <= a.size, NEW e
    PROVE  Occurs(AppendLoop(a, Elements(s)), e) = Occurs(a, e) + Occurs(s, e)
<1> DEFINE q == Elements(s)
           b == AppendLoop(a, q)
<1>1. q \in Seq(Word) /\ Len(q) = 1 /\ q[1] = At(s, 0)
  <2>1. /\ q \in Seq(Word) /\ Len(q) = s.length
        /\ \A k \in 1 .. s.length : q[k] = At(s, k - 1)
    BY ElementsType
  <2>2. 1 \in 1 .. s.length /\ 1 - 1 = 0
    OBVIOUS
  <2> HIDE DEF q
  <2>3. q[1] = At(s, 1 - 1)
    BY <2>1, <2>2
  <2> QED
    BY <2>1, <2>2, <2>3
<1> HIDE DEF q
<1>2. /\ IsArray(b) /\ b.length = a.length + 1 /\ At(b, a.length) = q[1]
      /\ \A i \in 0 .. a.length - 1 : At(b, i) = At(a, i)
  <2>1. Len(q) > 0 /\ a.length + Len(q) <= a.size
    BY <1>1
  <2>2. /\ IsArray(b) /\ b.length = a.length + Len(q) /\ At(b, a.length) = q[Len(q)]
        /\ \A i \in 0 .. a.length - 1 : At(b, i) = At(a, i)
    BY <1>1, <2>1, AppendLoopIs, Zenon
  <2> QED
    BY <1>1, <2>2
<1> HIDE DEF b
<1>3. Cardinality(Hits(b, e)) = Cardinality(Hits(a, e)) + One(At(s, 0) = e)
  BY <1>1, <1>2, HitsTail
<1>4. Cardinality(Hits(s, e)) = One(At(s, 0) = e)
  <2>1. Hits(s, e) = IF At(s, 0) = e THEN {0} ELSE {}
    BY DEF Hits
  <2> QED
    BY <2>1, FS_Singleton, FS_EmptySet DEF One
<1>5. Occurs(b, e) = Occurs(a, e) + Occurs(s, e)
  BY <1>2, <1>3, <1>4, OccursIs DEF Count
<1> QED
  BY <1>5 DEF b, q

\* What clear and the destructors give back.
LEMMA DecsAreOccurs ==
    ASSUME NoArrIsNone, NEW a, IsArray(a), NEW e
    PROVE  Decs(a, e) = Occurs(a, e)
BY DecsAreHits, OccursIs DEF Decs, Count

\* The arrays own one reference per occurrence, in every reachable state: every
\* path of every call, those on which a malloc fails and those on which the
\* buffer is wrapped included, increments and decrements each element exactly
\* as often as it gains or loses an occurrence.  Appends are of at most one
\* element: the loop of ci_arr_append is wrong for more.
THEOREM CountsExact ==
    ASSUME NoArrIsNone, AppendMax <= 1
    PROVE  Spec => []RefBalance
<1>1. Init => RefBalance
  BY DEF Init, RefBalance, Occurs
<1>2. TypeOK /\ TypeOK' /\ RefBalance /\ [Next]_vars => RefBalance'
  <2> SUFFICES ASSUME TypeOK, TypeOK', RefBalance, [Next]_vars, NEW e \in Elem
               PROVE  cnt'[e] = Occurs(arr', e) + Occurs(out', e)
    BY DEF RefBalance
  <2> USE DEF Live
  <2>1. /\ arr # NoArr => IsArray(arr)
        /\ out # NoArr => IsArray(out)
        /\ cnt[e] \in Int
        /\ cnt[e] = Occurs(arr, e) + Occurs(out, e)
    BY DEF TypeOK, RefBalance
  <2>2. Occurs(arr, e) \in Nat /\ Occurs(out, e) \in Nat
    BY <2>1, OccursType
  <2>3. Ptr \subseteq Word
    BY DEF Word
  <2>4. Occurs(NoArr, e) = 0
    BY DEF Occurs
  <2>5. /\ \A v : Give(v) => cnt'[e] = cnt[e] + One(v = e)
        /\ \A v : Take(v) => cnt'[e] = cnt[e] - One(v = e)
    BY <2>1 DEF Give, Take, One
  <2>6. \A b : IsArray(b) /\ DecAll(b) => cnt'[e] = cnt[e] - Occurs(b, e)
    BY DecsAreOccurs DEF DecAll
  <2>7. \A b : IncAll(b) => cnt'[e] = cnt[e] + Occurs(b, e)
    BY DEF IncAll
  <2> DEFINE Goal == cnt'[e] = Occurs(arr', e) + Occurs(out', e)
  <2>8. ASSUME NEW b, Same(arr, b), IsArray(arr), arr' = b, out' = out, cnt' = cnt
        PROVE  Goal
    BY <2>1, <2>8, OccursSame
  <2>9. ASSUME NEW n \in 0 .. MaxLen, New(n) \/ CreateInline(n) PROVE Goal
    <3>1. n \in Nat
      BY BoundAssumption
    <3>2. Occurs(NewArray(n), e) = 0 /\ Occurs(NewInline, e) = 0
      BY <3>1, NewArrayIs, NewInlineIs, OccursNone
    <3>3. Occurs(arr, e) = 0 /\ Occurs(arr', e) = 0 /\ out' = out /\ cnt' = cnt
      BY <2>9, <2>4, <3>2 DEF New, CreateInline
    <3> QED
      BY <2>1, <2>2, <3>3
  <2>10. ASSUME NEW n \in 0 .. MaxLen, Extend(n) PROVE Goal
    <3>1. arr # NoArr /\ IsArray(arr) /\ n \in Nat /\ out' = out /\ cnt' = cnt
      BY <2>1, <2>10, BoundAssumption DEF Extend
    <3>2. CASE n <= arr.length
      BY <2>8, <2>10, <3>1, <3>2, SameItself DEF Extend
    <3>3. CASE ~(n <= arr.length)
      <4>1. arr.length \in Nat /\ n - arr.length \in Nat
        BY <3>1, <3>3, ArrayType
      <4>2. PICK r \in EnsureSpace(arr, n - arr.length) :
              IF r[1] THEN arr' = ExtendTo(r[2], n) ELSE arr' = r[2]
        BY <2>10, <3>3, Zenon DEF Extend
      <4>3. /\ r[1] \in BOOLEAN /\ Same(arr, r[2])
            /\ r[1] => arr.length + (n - arr.length) <= r[2].size
        BY <3>1, <4>1, <4>2, EnsureSpaceSame
      <4>4. CASE r[1]
        <5>1. Occurs(ExtendTo(r[2], n), e) = Occurs(r[2], e)
          BY <3>1, <3>3, <4>1, <4>3, <4>4, OccursExtended DEF Same
        <5>2. Occurs(r[2], e) = Occurs(arr, e)
          BY <3>1, <4>3, OccursSame
        <5> QED
          BY <2>1, <3>1, <4>2, <4>4, <5>1, <5>2
      <4>5. CASE ~r[1]
        BY <2>8, <3>1, <4>2, <4>3, <4>5
      <4> QED
        BY <4>4, <4>5
    <3> QED
      BY <3>2, <3>3
  <2>11. ASSUME NEW n \in 0 .. MaxLen, Reserve(n) PROVE Goal
    <3>1. IsArray(arr) /\ n \in Nat /\ out' = out /\ cnt' = cnt
      BY <2>1, <2>11, BoundAssumption DEF Reserve
    <3>2. PICK r \in EnsureSpace(arr, n) : arr' = r[2]
      BY <2>11 DEF Reserve
    <3> QED
      BY <2>8, <3>1, <3>2, EnsureSpaceSame
  <2>12. ASSUME NEW v \in Ptr, Push(v) \/ Unshift(v) PROVE Goal
    <3>1. IsArray(arr) /\ v \in Word /\ out' = out
      BY <2>1, <2>3, <2>12 DEF Push, Unshift
    <3>2. PICK r \in Room(arr) :
            IF r[1] THEN arr' \in {PushTail(r[2], v), PushHead(r[2], v)} /\ Give(v)
                    ELSE arr' = r[2] /\ UNCHANGED cnt
      BY <2>12 DEF Push, Unshift
    <3>3. r[1] \in BOOLEAN /\ Same(arr, r[2]) /\ (r[1] => r[2].length < r[2].size)
      BY <3>1, <3>2, RoomSame
    <3>4. CASE r[1]
      <4>1. Occurs(arr', e) = Occurs(r[2], e) + One(v = e)
        BY <3>1, <3>2, <3>3, <3>4, OccursPushed DEF Same
      <4>2. Occurs(r[2], e) = Occurs(arr, e)
        BY <3>1, <3>3, OccursSame
      <4>3. cnt'[e] = cnt[e] + One(v = e)
        BY <2>5, <3>2, <3>4
      <4> QED
        BY <2>1, <2>2, <3>1, <4>1, <4>2, <4>3 DEF One
    <3>5. CASE ~r[1]
      BY <2>8, <3>1, <3>2, <3>3, <3>5
    <3> QED
      BY <3>4, <3>5
  <2>13. CASE Pop
    <3>1. IsArray(arr) /\ arr.length > 0 /\ out' = out /\ arr' = PopTail(arr)
      BY <2>1, <2>13 DEF Pop
    <3>2. cnt'[e] = cnt[e] - One(At(PopTail(arr), PopTail(arr).length) = e)
      BY <2>5, <2>13 DEF Pop
    <3>3. Occurs(arr, e) = Occurs(arr', e) + One(At(PopTail(arr), PopTail(arr).length) = e)
      BY <3>1, OccursPopped
    <3>4. Occurs(arr', e) \in Nat
      BY <3>1, PopTailIs, OccursIs
    <3> QED
      BY <2>1, <2>2, <3>1, <3>2, <3>3, <3>4 DEF One
  <2>14. CASE Shift
    <3>1. IsArray(arr) /\ arr.length > 0 /\ out' = out /\ arr' = PopHead(arr)
      BY <2>1, <2>14 DEF Shift
    <3>2. cnt'[e] = cnt[e] - One(arr.data[arr.offset] = e)
      BY <2>5, <2>14 DEF Shift
    <3>3. Occurs(arr, e) = Occurs(arr', e) + One(arr.data[arr.offset] = e)
      BY <3>1, OccursPopped
    <3>4. Occurs(arr', e) \in Nat
      BY <3>1, PopHeadIs, OccursIs
    <3> QED
      BY <2>1, <2>2, <3>1, <3>2, <3>3, <3>4 DEF One
  <2>15. ASSUME NEW src \in {arr, out}, AppendFrom(src) PROVE Goal
    <3>1. IsArray(arr) /\ IsArray(src) /\ out' = out
      BY <2>1, <2>15 DEF AppendFrom
    <3>2. CASE src.length = 0
      BY <2>1, <2>15, <3>1, <3>2 DEF AppendFrom
    <3>3. CASE src.length # 0
      <4>1. PICK r \in EnsureSpace(arr, src.length) :
              IF r[1] THEN arr' = AppendLoop(r[2], Elements(src)) /\ IncAll(src)
                      ELSE arr' = r[2] /\ UNCHANGED cnt
        BY <2>15, <3>3, Zenon DEF AppendFrom
      <4>2. src.length = 1
        <5>1. src.length \in Nat /\ src.length <= AppendMax
          BY <2>15, <3>1, ArrayType DEF AppendFrom
        <5> QED
          BY <3>3, <5>1, BoundAssumption
      <4>3. r[1] \in BOOLEAN /\ Same(arr, r[2]) /\ (r[1] => arr.length + 1 <= r[2].size)
        BY <3>1, <4>1, <4>2, EnsureSpaceSame
      <4>4. CASE r[1]
        <5>1. Occurs(arr', e) = Occurs(r[2], e) + Occurs(src, e)
          BY <3>1, <4>1, <4>2, <4>3, <4>4, OccursAppended DEF Same
        <5>2. Occurs(r[2], e) = Occurs(arr, e)
          BY <3>1, <4>3, OccursSame
        <5>3. cnt'[e] = cnt[e] + Occurs(src, e) /\ Occurs(src, e) \in Nat
          BY <2>7, <3>1, <4>1, <4>4, OccursIs
        <5> QED
          BY <2>1, <2>2, <3>1, <5>1, <5>2, <5>3
      <4>5. CASE ~r[1]
        BY <2>8, <3>1, <4>1, <4>3, <4>5
      <4> QED
        BY <4>3, <4>4, <4>5
    <3> QED
      BY <3>2, <3>3
  <2>16. CASE ClearAll
    <3>1. IsArray(arr) /\ out' = out /\ arr' = Clear(arr) /\ DecAll(arr)
      BY <2>1, <2>16 DEF ClearAll
    <3>2. Occurs(arr', e) = 0 /\ cnt'[e] = cnt[e] - Occurs(arr, e)
      BY <2>6, <3>1, ClearIs, OccursNone
    <3> QED
      BY <2>1, <2>2, <3>1, <3>2
  <2>17. CASE Reverse
    BY <2>1, <2>17, OccursReversed DEF Reverse
  <2>18. CASE Head1
    <3>1. IsArray(arr) /\ out' = out /\ cnt' = cnt
      BY <2>1, <2>18 DEF Head1
    <3>2. PICK r \in EnsureContinuous(arr) : arr' = r[2]
      BY <2>18 DEF Head1
    <3> QED
      BY <2>8, <3>1, <3>2, EnsureContinuousSame
  <2>19. CASE Free
    <3>1. IsArray(arr) /\ out' = out /\ arr' = NoArr /\ DecAll(arr)
      BY <2>1, <2>19 DEF Free
    <3> QED
      BY <2>1, <2>2, <2>4, <2>6, <3>1
  <2>20. CASE FreeOut
    <3>1. IsArray(out) /\ arr' = arr /\ out' = NoArr /\ DecAll(out)
      BY <2>1, <2>20 DEF FreeOut
    <3> QED
      BY <2>1, <2>2, <2>4, <2>6, <3>1
  <2>21. ASSUME NEW i \in 0 .. MaxLen, NEW v \in Ptr, Set(i, v) PROVE Goal
    <3>1. /\ IsArray(arr) /\ i \in 0 .. arr.length - 1 /\ v \in Word /\ out' = out
          /\ arr' = SetAt(arr, i, v)
      BY <2>1, <2>3, <2>21 DEF Set
    <3>2. cnt'[e] = cnt[e] + One(v = e) - One(At(arr, i) = e)
      BY <2>1, <2>21 DEF Set, One
    <3>3. Occurs(arr', e) = Occurs(arr, e) + One(v = e) - One(At(arr, i) = e)
      BY <3>1, OccursSet
    <3> QED
      BY <2>1, <2>2, <3>1, <3>2, <3>3 DEF One
  <2>22. ASSUME NEW i \in Index, NEW j \in Index, TakeSlice(i, j) PROVE Goal
    <3>1. /\ IsArray(arr) /\ out = NoArr /\ arr' = arr
          /\ \/ IncAll(out')
             \/ out' = NoArr /\ cnt' = cnt
      BY <2>1, <2>22 DEF TakeSlice
    <3>2. Occurs(out', e) \in Nat
      BY OccursType DEF TypeOK
    <3> QED
      BY <2>1, <2>2, <2>4, <2>7, <3>1, <3>2
  <2>23. CASE UNCHANGED <<arr, out, cnt>>
    BY <2>1, <2>23
  <2>24. ASSUME NEW i, NEW v, FindFrom(v, i) \/ IndexAt(i) \/ PopEmpty \/ CompareOut
         PROVE  UNCHANGED <<arr, out, cnt>>
    BY <2>24 DEF FindFrom, IndexAt, PopEmpty, CompareOut
  <2> QED
    BY <2>9, <2>10, <2>11, <2>12, <2>13, <2>14, <2>15, <2>16, <2>17, <2>18, <2>19,
       <2>20, <2>21, <2>22, <2>23, <2>24 DEF Next, vars
<1> QED
  BY <1>1, <1>2, TypeCorrect, PTL DEF Spec

-----------------------------------------------------------------------------
(* The array refines a sequence *)

\* An array that is there maps to its sequence of elements, never to NoArr.
LEMMA ContentsIs ==
    ASSUME NoArrIsNone, NEW a, IsArray(a)
    PROVE  Contents(a) = Elements(a) /\ Contents(a) # NoArr
BY ElementsType DEF NoArrIsNone, Contents

\* Every call behaves as the same call on a sequence: each step of the circular
\* buffer is, through Elements, the step of the abstract array that has the
\* call's name, a call that fails or only moves elements leaves the sequence
\* as it was, and what a call returns is what the sequence says.  Appends are
\* of at most one element: the loop of ci_arr_append is wrong for more.
THEOREM RefinesArray ==
    ASSUME NoArrIsNone, AppendMax <= 1
    PROVE  Spec => RefinesSequence
<1>1. Init => Abs!AInit
  BY DEF Init, Abs!AInit, Contents, Ok, Abs!Ok
<1>2. TypeOK /\ TypeOK' /\ [Next]_vars => [Abs!ANext]_(Abs!avars)
  <2> SUFFICES ASSUME TypeOK, TypeOK', Next
               PROVE  Abs!ANext
    BY DEF vars, Abs!avars
  <2> USE DEF Live
  <2>1. /\ arr # NoArr => IsArray(arr)
        /\ out # NoArr => IsArray(out)
        /\ arr' # NoArr => IsArray(arr')
        /\ out' # NoArr => IsArray(out')
    BY DEF TypeOK
  <2>2. Ptr \subseteq Word /\ Abs!APtr = Ptr
    BY DEF Word, Ptr, Abs!APtr
  <2>3. Contents(NoArr) = NoArr
    BY DEF Contents
  <2>4. /\ Ok = Abs!Ok /\ Failed = Abs!Failed
        /\ \A v : PtrRet(v) = Abs!PtrRet(v)
        /\ \A n : IntRet(n) = Abs!IntRet(n)
    BY DEF Ok, Failed, PtrRet, IntRet, Abs!Ok, Abs!Failed, Abs!PtrRet, Abs!IntRet
  <2>5. out' = out => Contents(out') = Contents(out)
    OBVIOUS
  <2>6. ASSUME NEW b, Same(arr, b), IsArray(arr), arr' = b, out' = out, ret' \in {Ok, Failed}
        PROVE  Abs!ARearrange \/ Abs!AFail
    <3>1. arr # NoArr /\ arr' # NoArr
      BY <2>6 DEF NoArrIsNone, Same
    <3>2. Contents(arr') = Contents(arr) /\ Contents(arr) # NoArr
      BY <2>6, <3>1, ElementsSame, ContentsIs DEF Contents
    <3> QED
      BY <2>4, <2>5, <2>6, <3>2 DEF Abs!ARearrange, Abs!AFail
  <2>7. ASSUME NEW n \in 0 .. MaxLen, New(n) \/ CreateInline(n) PROVE Abs!ACreate
    <3>1. n \in Nat
      BY BoundAssumption
    <3>2. /\ arr = NoArr /\ out' = out
          /\ \/ arr' \in {NewArray(n), NewInline} /\ ret' = Ok
             \/ arr' = NoArr /\ ret' = Failed
      BY <2>7 DEF New, CreateInline
    <3>3. arr' \in {NewArray(n), NewInline} => Contents(arr') = <<>>
      <4>1. /\ IsArray(NewArray(n)) /\ NewArray(n).length = 0
            /\ IsArray(NewInline) /\ NewInline.length = 0
        BY <3>1, NewArrayIs, NewInlineIs
      <4> QED
        BY <4>1, ElementsNone, ContentsIs
    <3> QED
      BY <2>3, <2>4, <2>5, <3>2, <3>3 DEF Abs!ACreate
  <2>8. ASSUME NEW n \in 0 .. MaxLen, Extend(n)
        PROVE  Abs!AExtend(n) \/ Abs!AFail
    <3>1. arr # NoArr /\ IsArray(arr) /\ n \in Nat /\ out' = out
      BY <2>1, <2>8, BoundAssumption DEF Extend
    <3>2. /\ Contents(arr) = Elements(arr) /\ Contents(arr) # NoArr
          /\ Len(Elements(arr)) = arr.length /\ arr.length \in Nat
      BY <3>1, ContentsIs, ElementsType, ArrayType
    <3>3. CASE n <= arr.length
      <4>1. arr' = arr /\ ret' = Ok
        BY <2>8, <3>3 DEF Extend
      <4>2. Contents(arr') = Contents(arr)
        BY <4>1
      <4> QED
        BY <2>4, <2>5, <3>1, <3>2, <3>3, <4>1, <4>2 DEF Abs!AExtend
    <3>4. CASE ~(n <= arr.length)
      <4>1. n - arr.length \in Nat /\ arr.length < n
        BY <3>1, <3>2, <3>4
      <4>2. PICK r \in EnsureSpace(arr, n - arr.length) :
              IF r[1] THEN arr' = ExtendTo(r[2], n) /\ ret' = Ok
                      ELSE arr' = r[2] /\ ret' = Failed
        BY <2>8, <3>4, Zenon DEF Extend
      <4>3. /\ r[1] \in BOOLEAN /\ Same(arr, r[2])
            /\ r[1] => arr.length + (n - arr.length) <= r[2].size
        BY <3>1, <4>1, <4>2, EnsureSpaceSame
      <4>4. CASE r[1]
        <5>1. /\ IsArray(r[2]) /\ r[2].length = arr.length
              /\ n <= r[2].size /\ Elements(r[2]) = Elements(arr)
          <6>1. r[2].size \in Nat
            BY <4>3, ArrayType DEF Same
          <6> QED
            BY <3>1, <3>2, <4>3, <4>4, <6>1, ElementsSame DEF Same
        <5>2. Elements(arr') = [i \in 1 .. n |-> IF i <= Len(Elements(arr))
                                                 THEN Elements(arr)[i] ELSE NULL]
          BY <3>1, <4>1, <4>2, <4>4, <5>1, ElementsExtended
        <5>3. arr' # NoArr
          BY <3>1, <4>1, <4>2, <4>4, <5>1, ExtendToIs DEF NoArrIsNone
        <5>4. Contents(arr') = Elements(arr')
          BY <5>3 DEF Contents
        <5> QED
          BY <2>4, <2>5, <3>1, <3>2, <3>4, <4>2, <4>4, <5>2, <5>4 DEF Abs!AExtend
      <4>5. CASE ~r[1]
        <5>1. arr' # NoArr /\ Contents(arr') = Contents(arr)
          BY <3>1, <4>2, <4>3, <4>5, ElementsSame, ContentsIs DEF Same, NoArrIsNone
        <5> QED
          BY <2>4, <2>5, <3>1, <3>2, <4>2, <4>5, <5>1 DEF Abs!AFail
      <4> QED
        BY <4>4, <4>5
    <3> QED
      BY <3>3, <3>4
  <2>9. ASSUME NEW n \in 0 .. MaxLen, Reserve(n) PROVE Abs!ARearrange \/ Abs!AFail
    <3>1. IsArray(arr) /\ n \in Nat /\ out' = out
      BY <2>1, <2>9, BoundAssumption DEF Reserve
    <3>2. PICK r \in EnsureSpace(arr, n) : arr' = r[2] /\ ret' \in {Ok, Failed}
      BY <2>9 DEF Reserve
    <3> QED
      BY <2>6, <3>1, <3>2, EnsureSpaceSame
  <2>10. ASSUME NEW v \in Ptr, Push(v) \/ Unshift(v)
         PROVE  Abs!APush(v) \/ Abs!AUnshift(v) \/ Abs!AFail
    <3>1. IsArray(arr) /\ v \in Word /\ out' = out /\ arr # NoArr
      BY <2>1, <2>2, <2>10 DEF Push, Unshift
    <3>2. PICK r \in Room(arr) :
            IF r[1] THEN arr' \in {PushTail(r[2], v), PushHead(r[2], v)} /\ ret' = Ok
                    ELSE arr' = r[2] /\ ret' = Failed
      BY <2>10 DEF Push, Unshift
    <3>3. r[1] \in BOOLEAN /\ Same(arr, r[2]) /\ (r[1] => r[2].length < r[2].size)
      BY <3>1, <3>2, RoomSame
    <3>4. /\ IsArray(r[2]) /\ Elements(r[2]) = Elements(arr)
          /\ Contents(arr) = Elements(arr) /\ Contents(arr) # NoArr
      BY <3>1, <3>3, ElementsSame, ContentsIs DEF Same
    <3>5. CASE r[1] /\ arr' = PushTail(r[2], v)
      <4>1. IsArray(arr') /\ Elements(arr') = Append(Elements(arr), v)
        BY <3>1, <3>3, <3>4, <3>5, PushTailIs, ElementsPushTail
      <4>2. Contents(arr') = Append(Contents(arr), v)
        BY <3>4, <4>1, ContentsIs
      <4> QED
        BY <2>4, <2>5, <3>1, <3>2, <3>4, <3>5, <4>2 DEF Abs!APush
    <3>6. CASE r[1] /\ arr' = PushHead(r[2], v)
      <4>1. IsArray(arr') /\ Elements(arr') = <<v>> \o Elements(arr)
        BY <3>1, <3>3, <3>4, <3>6, PushHeadIs, ElementsPushHead
      <4>2. Contents(arr') = <<v>> \o Contents(arr)
        BY <3>4, <4>1, ContentsIs
      <4> QED
        BY <2>4, <2>5, <3>1, <3>2, <3>4, <3>6, <4>2 DEF Abs!AUnshift
    <3>7. CASE ~r[1]
      <4>1. Contents(arr') = Contents(arr)
        BY <3>2, <3>4, <3>7, ContentsIs
      <4> QED
        BY <2>4, <2>5, <3>1, <3>2, <3>4, <3>7, <4>1 DEF Abs!AFail
    <3> QED
      BY <3>2, <3>3, <3>5, <3>6, <3>7
  <2>11. CASE PopEmpty
    <3>1. /\ IsArray(arr) /\ arr.length = 0 /\ out' = out /\ arr' = arr
          /\ ret' = PtrRet(NULL)
      BY <2>1, <2>11 DEF PopEmpty
    <3>2. Contents(arr) = <<>> /\ Contents(arr) # NoArr /\ Contents(arr') = Contents(arr)
      BY <3>1, ContentsIs, ElementsNone
    <3>3. Abs!APop
      BY <2>4, <2>5, <3>1, <3>2 DEF Abs!APop
    <3> QED
      BY <3>3 DEF Abs!ANext
  <2>12. CASE Pop
    <3>1. /\ IsArray(arr) /\ arr.length > 0 /\ out' = out /\ arr' = PopTail(arr)
          /\ ret' = PtrRet(At(PopTail(arr), PopTail(arr).length))
      BY <2>1, <2>12 DEF Pop
    <3>2. /\ Contents(arr) = Elements(arr) /\ Contents(arr) # NoArr
          /\ Contents(arr) # <<>>
      BY <3>1, ContentsIs, ElementsNone
    <3>3. IsArray(arr')
      BY <3>1, PopTailIs
    <3>4. /\ Contents(arr') = SubSeq(Contents(arr), 1, Len(Contents(arr)) - 1)
          /\ ret' = Abs!PtrRet(Contents(arr)[Len(Contents(arr))])
      BY <2>4, <3>1, <3>2, <3>3, ContentsIs, ElementsPopTail
    <3>5. Abs!APop
      BY <2>5, <3>1, <3>2, <3>4 DEF Abs!APop
    <3> QED
      BY <3>5 DEF Abs!ANext
  <2>13. CASE Shift
    <3>1. /\ IsArray(arr) /\ arr.length > 0 /\ out' = out /\ arr' = PopHead(arr)
          /\ ret' = PtrRet(arr.data[arr.offset])
      BY <2>1, <2>13 DEF Shift
    <3>2. /\ Contents(arr) = Elements(arr) /\ Contents(arr) # NoArr
          /\ Contents(arr) # <<>>
      BY <3>1, ContentsIs, ElementsNone
    <3>3. IsArray(arr')
      BY <3>1, PopHeadIs
    <3>4. /\ Contents(arr') = SubSeq(Contents(arr), 2, Len(Contents(arr)))
          /\ ret' = Abs!PtrRet(Contents(arr)[1])
      BY <2>4, <3>1, <3>2, <3>3, ContentsIs, ElementsPopHead
    <3>5. Abs!AShift
      BY <2>5, <3>1, <3>2, <3>4 DEF Abs!AShift
    <3> QED
      BY <3>5 DEF Abs!ANext
  <2>14. ASSUME NEW src \in {arr, out}, AppendFrom(src)
         PROVE  Contents(src) # NoArr /\ (Abs!AAppend(Contents(src)) \/ Abs!AFail)
    <3>1. IsArray(arr) /\ IsArray(src) /\ out' = out
      BY <2>1, <2>14 DEF AppendFrom
    <3>2. /\ Contents(arr) = Elements(arr) /\ Contents(arr) # NoArr
          /\ Contents(src) = Elements(src) /\ Contents(src) # NoArr
          /\ Elements(arr) \in Seq(Word)
      BY <3>1, ContentsIs, ElementsType
    <3>3. CASE src.length = 0
      <4>1. arr' = arr /\ ret' = Ok
        BY <2>14, <3>3 DEF AppendFrom
      <4>2. Contents(src) = <<>> /\ Contents(arr') = Contents(arr)
        BY <3>1, <3>2, <3>3, <4>1, ElementsNone
      <4>3. Contents(arr) \o Contents(src) = Contents(arr)
        BY <3>2, <4>2, ConcatEmptySeq
      <4> QED
        BY <2>4, <2>5, <3>1, <3>2, <4>1, <4>2, <4>3 DEF Abs!AAppend
    <3>4. CASE src.length # 0
      <4>1. PICK r \in EnsureSpace(arr, src.length) :
              IF r[1] THEN arr' = AppendLoop(r[2], Elements(src)) /\ ret' = Ok
                      ELSE arr' = r[2] /\ ret' = Failed
        BY <2>14, <3>4, Zenon DEF AppendFrom
      <4>2. src.length = 1
        <5>1. src.length \in Nat /\ src.length <= AppendMax
          BY <2>14, <3>1, ArrayType DEF AppendFrom
        <5> QED
          BY <3>4, <5>1, BoundAssumption
      <4>3. r[1] \in BOOLEAN /\ Same(arr, r[2]) /\ (r[1] => arr.length + 1 <= r[2].size)
        BY <3>1, <4>1, <4>2, EnsureSpaceSame
      <4>4. /\ IsArray(r[2]) /\ r[2].length = arr.length
            /\ Elements(r[2]) = Elements(arr)
        BY <3>1, <4>3, ElementsSame DEF Same
      <4>5. CASE r[1]
        <5>1. /\ Elements(src) \in Seq(Word) /\ Len(Elements(src)) = 1
              /\ r[2].length + 1 <= r[2].size
          BY <3>1, <4>2, <4>3, <4>4, <4>5, ElementsType
        <5>2. IsArray(arr')
          <6>1. /\ Len(Elements(src)) > 0
                /\ r[2].length + Len(Elements(src)) <= r[2].size
            BY <5>1
          <6>2. arr' = AppendLoop(r[2], Elements(src))
            BY <4>1, <4>5
          <6> QED
            BY <4>4, <5>1, <6>1, <6>2, AppendLoopIs
        <5>3. Elements(arr') = Elements(arr) \o Elements(src)
          BY <3>1, <4>1, <4>2, <4>4, <4>5, <5>1, ElementsAppended
        <5>4. Contents(arr') = Contents(arr) \o Contents(src)
          BY <3>2, <5>2, <5>3, ContentsIs
        <5> QED
          BY <2>4, <2>5, <3>1, <3>2, <4>1, <4>5, <5>4 DEF Abs!AAppend
      <4>6. CASE ~r[1]
        <5>1. Contents(arr') = Contents(arr)
          BY <3>2, <4>1, <4>4, <4>6, ContentsIs
        <5> QED
          BY <2>4, <2>5, <3>1, <3>2, <4>1, <4>6, <5>1 DEF Abs!AFail
      <4> QED
        BY <4>3, <4>5, <4>6
    <3> QED
      BY <3>3, <3>4
  <2>15. CASE ClearAll
    <3>1. IsArray(arr) /\ out' = out /\ arr' = Clear(arr) /\ ret' = Ok
      BY <2>1, <2>15 DEF ClearAll
    <3>2. Contents(arr) # NoArr /\ Contents(arr') = <<>>
      BY <3>1, ClearIs, ContentsIs, ElementsNone
    <3>3. Abs!AClear
      BY <2>4, <2>5, <3>1, <3>2 DEF Abs!AClear
    <3> QED
      BY <3>3 DEF Abs!ANext
  <2>16. CASE Reverse
    <3>1. /\ IsArray(arr) /\ out' = out /\ ret' = Ok
          /\ arr' = IF arr.length <= 1 THEN arr ELSE Reversed(arr)
      BY <2>1, <2>16 DEF Reverse
    <3>2. /\ IsArray(arr') /\ arr'.length = arr.length
          /\ \A i \in 0 .. arr.length - 1 : At(arr', i) = At(arr, arr.length - 1 - i)
      <4>1. CASE arr.length <= 1
        <5>1. arr.length \in Nat
          BY <3>1, ArrayType
        <5>2. \A i \in 0 .. arr.length - 1 : arr.length - 1 - i = i
          BY <4>1, <5>1
        <5> QED
          BY <3>1, <4>1, <5>2
      <4>2. CASE ~(arr.length <= 1)
        BY <3>1, <4>2, ReversedIs
      <4> QED
        BY <4>1, <4>2
    <3>3. Elements(arr') = [i \in 1 .. Len(Elements(arr)) |->
                              Elements(arr)[Len(Elements(arr)) + 1 - i]]
      BY <3>1, <3>2, ElementsReversed
    <3>4. /\ Contents(arr) = Elements(arr) /\ Contents(arr) # NoArr
          /\ Contents(arr') = Elements(arr')
      BY <3>1, <3>2, ContentsIs
    <3>5. Abs!AReverse
      BY <2>4, <2>5, <3>1, <3>3, <3>4 DEF Abs!AReverse
    <3> QED
      BY <3>5 DEF Abs!ANext
  <2>17. CASE CompareOut
    <3>1. /\ IsArray(arr) /\ IsArray(out) /\ arr' = arr /\ out' = out
          /\ ret' = IntRet(IF ArrEq(arr, out) THEN 1 ELSE 0)
      BY <2>1, <2>17 DEF CompareOut
    <3>2. /\ Contents(arr) = Elements(arr) /\ Contents(arr) # NoArr
          /\ Contents(out) = Elements(out) /\ Contents(out) # NoArr
          /\ Contents(arr') = Contents(arr)
      BY <3>1, ContentsIs
    <3>3. ret' = Abs!IntRet(IF Contents(arr) = Contents(out) THEN 1 ELSE 0)
      BY <2>4, <3>1, <3>2, ArrEqIs
    <3>4. Abs!AEq
      BY <2>5, <3>1, <3>2, <3>3 DEF Abs!AEq
    <3> QED
      BY <3>4 DEF Abs!ANext
  <2>18. CASE Head1
    <3>1. IsArray(arr) /\ out' = out
      BY <2>1, <2>18 DEF Head1
    <3>2. PICK r \in EnsureContinuous(arr) : arr' = r[2] /\ ret' \in {Ok, Failed}
      BY <2>18 DEF Head1
    <3>3. Abs!ARearrange \/ Abs!AFail
      BY <2>6, <3>1, <3>2, EnsureContinuousSame
    <3> QED
      BY <3>3 DEF Abs!ANext
  <2>19. CASE Free
    <3>1. IsArray(arr) /\ out' = out /\ arr' = NoArr /\ ret' = Ok
      BY <2>1, <2>19 DEF Free
    <3>2. Contents(arr) # NoArr /\ Contents(arr') = NoArr
      BY <2>3, <3>1, ContentsIs
    <3>3. Abs!AFree
      BY <2>4, <2>5, <3>1, <3>2 DEF Abs!AFree
    <3> QED
      BY <3>3 DEF Abs!ANext
  <2>20. CASE FreeOut
    <3>1. IsArray(out) /\ arr' = arr /\ out' = NoArr /\ ret' = Ok
      BY <2>1, <2>20 DEF FreeOut
    <3>2. /\ Contents(out) # NoArr /\ Contents(out') = NoArr
          /\ Contents(arr') = Contents(arr)
      BY <2>3, <3>1, ContentsIs
    <3>3. Abs!AFreeOut
      BY <2>4, <3>1, <3>2 DEF Abs!AFreeOut
    <3> QED
      BY <3>3 DEF Abs!ANext
  <2>21. ASSUME NEW i \in 0 .. MaxLen, NEW v \in Ptr, Set(i, v)
         PROVE  Abs!ASet(i + 1, v)
    <3>1. /\ IsArray(arr) /\ i \in 0 .. arr.length - 1 /\ v \in Word /\ out' = out
          /\ arr' = SetAt(arr, i, v) /\ ret' = Ok
      BY <2>1, <2>2, <2>21 DEF Set
    <3>2. /\ Contents(arr) = Elements(arr) /\ Contents(arr) # NoArr
          /\ Len(Elements(arr)) = arr.length /\ arr.length \in Nat
      BY <3>1, ContentsIs, ElementsType, ArrayType
    <3>3. i + 1 \in 1 .. Len(Contents(arr))
      BY <3>1, <3>2
    <3>4. IsArray(arr')
      BY <3>1, SetAtIs
    <3>5. Contents(arr') = [Contents(arr) EXCEPT ![i + 1] = v]
      BY <3>1, <3>2, <3>4, ContentsIs, ElementsSet
    <3> QED
      BY <2>4, <2>5, <3>1, <3>2, <3>3, <3>5 DEF Abs!ASet
  <2>22. ASSUME NEW i \in 0 .. MaxLen, NEW v \in Ptr, FindFrom(v, i)
         PROVE  Abs!AFind(v, i)
    <3>1. /\ IsArray(arr) /\ i \in Nat /\ arr' = arr /\ out' = out
          /\ ret' = IntRet(Find(arr, v, i))
      BY <2>1, <2>22, BoundAssumption DEF FindFrom
    <3>2. /\ Contents(arr) = Elements(arr) /\ Contents(arr) # NoArr
          /\ Contents(arr') = Contents(arr)
      BY <3>1, ContentsIs
    <3> DEFINE F(s) == LET hits == {k \in i + 1 .. Len(s) : s[k] = v}
                       IN  IF hits = {} THEN -1
                           ELSE (CHOOSE k \in hits : \A j \in hits : k <= j) - 1
    <3>3. Find(arr, v, i) = F(Elements(arr))
      BY <3>1, FindIs
    <3> HIDE DEF F
    <3>4. ret' = Abs!IntRet(F(Contents(arr)))
      BY <2>4, <3>1, <3>2, <3>3
    <3> USE DEF F
    <3> QED
      BY <2>5, <3>1, <3>2, <3>4 DEF Abs!AFind
  <2>23. ASSUME NEW i \in Index, IndexAt(i) PROVE Abs!AIndex(i)
    <3>1. /\ IsArray(arr) /\ i \in Int /\ arr' = arr /\ out' = out
          /\ WrapIndex(arr, i) < arr.length
          /\ ret' = PtrRet(At(arr, WrapIndex(arr, i)))
      BY <2>1, <2>23, BoundAssumption DEF IndexAt, Index
    <3>2. /\ Contents(arr) = Elements(arr) /\ Contents(arr) # NoArr
          /\ Contents(arr') = Contents(arr)
          /\ Len(Elements(arr)) = arr.length /\ arr.length \in Nat
          /\ \A k \in 1 .. arr.length : Elements(arr)[k] = At(arr, k - 1)
      BY <3>1, ContentsIs, ElementsType, ArrayType
    <3> DEFINE k == IF i < 0 THEN arr.length + i + 1 ELSE i + 1
    <3>3. /\ i \in -arr.length .. arr.length - 1
          /\ k \in 1 .. arr.length /\ k - 1 = WrapIndex(arr, i)
      BY <3>1, <3>2 DEF WrapIndex
    <3>4. Elements(arr)[k] = At(arr, WrapIndex(arr, i))
      BY <3>2, <3>3
    <3> QED
      BY <2>4, <2>5, <3>1, <3>2, <3>3, <3>4 DEF Abs!AIndex
  <2>24. ASSUME NEW i \in Index, NEW j \in Index, TakeSlice(i, j)
         PROVE  Abs!ASlice(i, j)
    <3>1. /\ IsArray(arr) /\ i \in Int /\ j \in Int /\ out = NoArr /\ arr' = arr
          /\ \/ out' = Slice(arr, i, j) /\ ret' = Ok
             \/ out' = NoArr /\ ret' = Failed
      BY <2>1, <2>24, BoundAssumption DEF TakeSlice, Index
    <3>2. /\ Contents(arr) = Elements(arr) /\ Contents(arr) # NoArr
          /\ Contents(arr') = Contents(arr)
          /\ Len(Elements(arr)) = arr.length /\ arr.length \in Nat
      BY <3>1, ContentsIs, ElementsType, ArrayType
    <3> DEFINE n == Len(Contents(arr))
               Bound(k) == IF k < 0 THEN (IF n + k < 0 THEN 0 ELSE n + k)
                           ELSE (IF k > n THEN n ELSE k)
               f == SliceBound(arr, i)
               t == SliceBound(arr, j)
    <3>3. f = Bound(i) /\ t = Bound(j)
      BY <3>1, <3>2 DEF SliceBound
    <3>4. f \in 0 .. arr.length /\ t \in 0 .. arr.length
      BY <3>1, SliceBoundType
    <3>5. ASSUME out' = Slice(arr, i, j)
          PROVE  Contents(out') = SubSeq(Contents(arr), f + 1, t)
      <4>1. /\ IsArray(out')
            /\ out'.length = IF t <= f THEN 0 ELSE t - f
            /\ \A k \in 0 .. out'.length - 1 : At(out', k) = At(arr, f + k)
        BY <3>1, <3>5, SliceIs
      <4> HIDE DEF f, t
      <4>2. f \in Int /\ t \in Int
        BY <3>2, <3>4
      <4> QED
        BY <3>1, <3>2, <3>4, <4>1, <4>2, ElementsSub, ContentsIs
    <3>6. /\ Contents(out) = NoArr
          /\ \/ Contents(out') = SubSeq(Contents(arr), Bound(i) + 1, Bound(j)) /\ ret' = Abs!Ok
             \/ Contents(out') = NoArr /\ ret' = Abs!Failed
      BY <2>3, <2>4, <3>1, <3>3, <3>5
    <3> QED
      BY <3>2, <3>6 DEF Abs!ASlice
  <2>25. /\ 0 .. MaxLen \subseteq Index \cap Nat
         /\ \A i \in 0 .. MaxLen : i + 1 \in Index \cap Nat
    BY BoundAssumption DEF Index
  <2> QED
    <3>1. CASE \E n \in 0 .. MaxLen : New(n) \/ CreateInline(n) \/ Extend(n) \/ Reserve(n)
      BY <2>7, <2>8, <2>9, <2>25, <3>1 DEF Abs!ANext
    <3>2. CASE \E v \in Ptr : Push(v) \/ Unshift(v)
      BY <2>2, <2>10, <3>2 DEF Abs!ANext
    <3>3. CASE AppendFrom(arr) \/ AppendFrom(out)
      BY <2>14, <3>3 DEF Abs!ANext
    <3>4. CASE \E i \in 0 .. MaxLen, v \in Ptr : Set(i, v) \/ FindFrom(v, i)
      BY <2>2, <2>21, <2>22, <2>25, <3>4 DEF Abs!ANext
    <3>5. CASE \E i \in Index : IndexAt(i)
      BY <2>23, <3>5 DEF Abs!ANext
    <3>6. CASE \E i, j \in Index : TakeSlice(i, j)
      BY <2>24, <3>6 DEF Abs!ANext
    <3> QED
      BY <2>11, <2>12, <2>13, <2>15, <2>16, <2>17, <2>18, <2>19, <2>20,
         <3>1, <3>2, <3>3, <3>4, <3>5, <3>6 DEF Next
<1> QED
  BY <1>1, <1>2, TypeCorrect, PTL DEF Spec, RefinesSequence, Abs!ASpec
=============================================================================
