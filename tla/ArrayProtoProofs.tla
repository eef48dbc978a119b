--------------------------- MODULE ArrayProtoProofs ---------------------------
(***************************************************************************)
(* Proofs about the script methods of arrays (ArrayProto).                 *)
(*                                                                         *)
(* merge is a recursion along its arguments: a recursive function has the  *)
(* values its equation says when every step has one (RecursiveExists), and *)
(* what each step keeps holds at its end (AlongInduction).  MergeIs and    *)
(* SpliceIs say what the methods compute for every array; the counts follow*)
(* from the lists of elements, because a spliced list is a head, the       *)
(* inserts and a tail, and the old list is the same head and tail with the *)
(* removed elements between them.                                          *)
(*                                                                         *)
(* Any malloc may fail; what the methods do then is part of every theorem. *)
(* All exclude a merge of an array with itself, which may never return.    *)
(* On an array whose first element is not in slot 0, those about counts    *)
(* and overruns also exclude a merge that need not grow it and a splice    *)
(* for which the room is in front of that element: merge counts, and       *)
(* splice writes, as if it were in slot 0.                                 *)
(***************************************************************************)
EXTENDS ArrayProto, CiArrayOpsProofs

-----------------------------------------------------------------------------
(* Recursion along the arguments of a call *)

\* The running total of pass 1 of merge, and that it never exceeds the total.
Totals(tot, a, n, args) ==
    /\ \A i \in 0 .. n : tot[i] \in Nat /\ tot[i] <= tot[n]
    /\ tot[0] = 0
    /\ \A i \in 1 .. n : tot[i] = tot[i - 1] + SrcOf(a, args[i]).length
    /\ MergeTotal(a, args) = tot[n]

\* It exists.
LEMMA TotalIs ==
    ASSUME NEW a, NEW n \in Nat, NEW args, Len(args) = n,
           \A i \in 1 .. n : SrcOf(a, args[i]).length \in Nat
    PROVE  \E tot : Totals(tot, a, n, args)
<1> DEFINE L(i) == SrcOf(a, args[i]).length
           P(f) == f = [i \in 0 .. n |-> IF i = 0 THEN 0 ELSE f[i - 1] + L(i)]
           tot == CHOOSE f : P(f)
<1>1. MergeTotal(a, args) = tot[n]
  BY DEF MergeTotal
<1> HIDE DEF L
<1>2. \E f : P(f)
  <2> DEFINE g == [q \in (1 .. n) \X Nat |-> q[2] + L(q[1])]
             S == [i \in 0 .. n |-> Nat]
  <2>1. \A i \in 1 .. n : \A s \in S[i - 1] : g[<<i, s>>] = s + L(i) /\ g[<<i, s>>] \in S[i]
    BY DEF L
  <2>2. 0 \in S[0]
    OBVIOUS
  <2> HIDE DEF g
  <2>3. \A i \in 1 .. n : i \in 0 .. n /\ i - 1 \in 0 .. n
    OBVIOUS
  <2> HIDE DEF S
  <2>4. PICK f : /\ f[0] = 0
                 /\ \A i \in 1 .. n : f[i] = g[<<i, f[i - 1]>>]
                 /\ \A i \in 0 .. n : f[i] \in S[i]
    <3>1. Recursion(n, S, 0, g)
      BY <2>1, <2>2 DEF Recursion
    <3>2. PICK f : Solves(f, n, S, 0, g)
      BY <3>1, RecursiveExists
    <3> QED
      BY <3>2 DEF Solves
  <2>5. \A i \in 1 .. n : f[i] = f[i - 1] + L(i)
    BY <2>1, <2>3, <2>4
  <2> DEFINE h == [i \in 0 .. n |-> f[i]]
  <2>6. P(h)
    BY <2>3, <2>4, <2>5
  <2> QED
    BY <2>6
<1>3. P(tot)
  BY <1>2, Zenon
<1> HIDE DEF tot
<1>4. \A i \in 0 .. n : tot[i] = IF i = 0 THEN 0 ELSE tot[i - 1] + L(i)
  BY <1>3
<1>5. tot[0] = 0 /\ \A i \in 1 .. n : tot[i] = tot[i - 1] + L(i)
  BY <1>4
<1>6. \A i \in 0 .. n : tot[i] \in Nat
  <2> DEFINE S == [i \in 0 .. n |-> Nat]
  <2>1. tot[0] \in S[0] /\ \A i \in 1 .. n : tot[i - 1] \in S[i - 1] => tot[i] \in S[i]
    BY <1>5 DEF L
  <2> HIDE DEF S
  <2>2. \A i \in 0 .. n : tot[i] \in S[i]
    BY <2>1, AlongInduction
  <2> QED
    BY <2>2 DEF S
<1>7. ASSUME NEW k \in 0 .. n PROVE tot[k] <= tot[n]
  <2> DEFINE f == [j \in 0 .. n - k |-> tot[k + j]]
             S == [j \in 0 .. n - k |-> {x \in Nat : tot[k] <= x}]
  <2>1. n - k \in Nat /\ tot[k] \in Nat
    BY <1>6
  <2>2. f[0] \in S[0]
    BY <1>6
  <2>3. \A j \in 1 .. n - k : f[j - 1] \in S[j - 1] => f[j] \in S[j]
    <3> SUFFICES ASSUME NEW j \in 1 .. n - k, f[j - 1] \in S[j - 1] PROVE f[j] \in S[j]
      OBVIOUS
    <3>1. k + j \in 1 .. n /\ (k + j) - 1 = k + (j - 1) /\ j - 1 \in 0 .. n - k /\ j \in 0 .. n - k
      OBVIOUS
    <3>2. tot[k + j] = tot[k + (j - 1)] + L(k + j) /\ L(k + j) \in Nat
      BY <1>5, <3>1 DEF L
    <3>3. tot[k + (j - 1)] \in Nat /\ tot[k] <= tot[k + (j - 1)]
      BY <3>1
    <3>4. tot[k + j] \in Nat /\ tot[k] <= tot[k + j]
      BY <2>1, <3>2, <3>3
    <3> QED
      BY <3>1, <3>4
  <2> HIDE DEF f, S
  <2>4. \A j \in 0 .. n - k : f[j] \in S[j]
    BY <2>1, <2>2, <2>3, AlongInduction
  <2>5. f[n - k] = tot[n] /\ S[n - k] = {x \in Nat : tot[k] <= x} /\ n - k \in 0 .. n - k
    <3>1. n - k \in 0 .. n - k /\ k + (n - k) = n
      BY <2>1
    <3> QED
      BY <3>1 DEF f, S
  <2> QED
    BY <2>4, <2>5
<1> QED
  BY <1>1, <1>5, <1>6, <1>7 DEF L, Totals

\* The sequences of a list, one after the other.
LEMMA FlattenIs ==
    ASSUME NEW n \in Nat \ {0}, NEW q, q \in [1 .. n -> Seq(Word)]
    PROVE  \E flat : /\ \A i \in 0 .. n : flat[i] \in Seq(Word)
                     /\ flat[0] = <<>>
                     /\ \A i \in 1 .. n : flat[i] = flat[i - 1] \o q[i]
                     /\ FlattenSeq(q) = flat[n]
<1> DEFINE P(f) == f = [i \in 1 .. n |-> IF i = 1 THEN q[i] ELSE f[i - 1] \o q[i]]
           flt == CHOOSE f : P(f)
<1>1. Len(q) = n /\ n # 0
  OBVIOUS
<1>2. FlattenSeq(q) = flt[n]
  BY <1>1 DEF FlattenSeq
<1>3. PICK h : /\ \A i \in 0 .. n : h[i] \in Seq(Word)
               /\ h[0] = <<>>
               /\ \A i \in 1 .. n : h[i] = h[i - 1] \o q[i]
  <2> DEFINE g == [x \in (1 .. n) \X Seq(Word) |-> x[2] \o q[x[1]]]
             S == [i \in 0 .. n |-> Seq(Word)]
  <2>1. \A i \in 1 .. n : \A s \in S[i - 1] : g[<<i, s>>] = s \o q[i] /\ g[<<i, s>>] \in S[i]
    <3>0. \A i \in 1 .. n : S[i - 1] = Seq(Word) /\ S[i] = Seq(Word)
      OBVIOUS
    <3> SUFFICES ASSUME NEW i \in 1 .. n, NEW s \in Seq(Word)
                 PROVE  g[<<i, s>>] = s \o q[i] /\ g[<<i, s>>] \in Seq(Word)
      <4> HIDE DEF g, S
      <4> QED
        BY <3>0
    <3>1. g[<<i, s>>] = s \o q[i]
      OBVIOUS
    <3>2. s \o q[i] \in Seq(Word)
      BY ConcatProperties
    <3> QED
      BY <3>1, <3>2
  <2>2. <<>> \in S[0]
    OBVIOUS
  <2>3. \A i \in 1 .. n : i \in 0 .. n /\ i - 1 \in 0 .. n
    OBVIOUS
  <2> HIDE DEF g, S
  <2>4. PICK f : /\ f[0] = <<>>
                 /\ \A i \in 1 .. n : f[i] = g[<<i, f[i - 1]>>]
                 /\ \A i \in 0 .. n : f[i] \in S[i]
    <3>1. Recursion(n, S, <<>>, g)
      BY <2>1, <2>2 DEF Recursion
    <3>2. PICK f : Solves(f, n, S, <<>>, g)
      BY <3>1, RecursiveExists
    <3> QED
      BY <3>2 DEF Solves
  <2>5. \A i \in 1 .. n : f[i] = f[i - 1] \o q[i]
    BY <2>1, <2>3, <2>4
  <2>6. \A i \in 0 .. n : f[i] \in Seq(Word)
    BY <2>4 DEF S
  <2> QED
    BY <2>4, <2>5, <2>6
<1> DEFINE r == [i \in 1 .. n |-> h[i]]
<1>4. P(r)
  <2>1. h[1] = q[1]
    <3>1. 1 \in 1 .. n /\ 1 - 1 = 0
      OBVIOUS
    <3>2. h[1] = h[0] \o q[1]
      BY <1>3, <3>1
    <3>3. q[1] \in Seq(Word)
      BY <3>1
    <3> QED
      BY <1>3, <3>2, <3>3, ConcatEmptySeq
  <2>2. \A i \in 1 .. n : h[i] = IF i = 1 THEN q[i] ELSE r[i - 1] \o q[i]
    <3> SUFFICES ASSUME NEW i \in 1 .. n, i # 1 PROVE h[i] = r[i - 1] \o q[i]
      BY <2>1
    <3>1. i - 1 \in 1 .. n
      OBVIOUS
    <3> QED
      BY <1>3, <3>1
  <2> QED
    BY <2>2
<1>5. P(flt)
  <2> HIDE DEF r
  <2> QED
    BY <1>4, Zenon
<1> HIDE DEF flt, r
<1>6. \A i \in 1 .. n : flt[i] = IF i = 1 THEN q[i] ELSE flt[i - 1] \o q[i]
  BY <1>5
<1> DEFINE flat == [i \in 0 .. n |-> IF i = 0 THEN <<>> ELSE flt[i]]
<1>7. flat[0] = <<>> /\ \A i \in 1 .. n : flat[i] = flt[i]
  OBVIOUS
<1>8. \A i \in 1 .. n : i - 1 \in 0 .. n /\ (i # 1 => i - 1 \in 1 .. n) /\ q[i] \in Seq(Word)
  OBVIOUS
<1> HIDE DEF flat
<1>9. \A i \in 1 .. n : flat[i] = flat[i - 1] \o q[i]
  <2> SUFFICES ASSUME NEW i \in 1 .. n PROVE flat[i] = flat[i - 1] \o q[i]
    OBVIOUS
  <2>1. CASE i = 1
    BY <1>6, <1>7, <1>8, <2>1, ConcatEmptySeq
  <2>2. CASE i # 1
    BY <1>6, <1>7, <1>8, <2>2
  <2> QED
    BY <2>1, <2>2
<1>10. \A i \in 0 .. n : flat[i] \in Seq(Word)
  <2> DEFINE S == [i \in 0 .. n |-> Seq(Word)]
  <2>1. flat[0] \in S[0] /\ \A i \in 1 .. n : flat[i - 1] \in S[i - 1] => flat[i] \in S[i]
    <3>1. flat[0] \in S[0]
      BY <1>7
    <3>2. ASSUME NEW i \in 1 .. n, flat[i - 1] \in S[i - 1] PROVE flat[i] \in S[i]
      <4>1. flat[i - 1] \in Seq(Word) /\ q[i] \in Seq(Word) /\ S[i] = Seq(Word)
        BY <1>8, <3>2
      <4>2. flat[i - 1] \o q[i] \in Seq(Word)
        BY <4>1, ConcatProperties
      <4> QED
        BY <1>9, <4>1, <4>2
    <3> QED
      BY <3>1, <3>2
  <2> HIDE DEF S
  <2>2. \A i \in 0 .. n : flat[i] \in S[i]
    BY <2>1, AlongInduction
  <2> QED
    BY <2>2 DEF S
<1>11. FlattenSeq(q) = flat[n] /\ n \in 1 .. n
  BY <1>2, <1>7
<1> QED
  BY <1>7, <1>9, <1>10, <1>11

-----------------------------------------------------------------------------
(* Making room *)

\* ci_arr_ensure_space: the same elements, whichever malloc fails; the array is
\* the old one or begins in slot 0; on success there is room for n more.
LEMMA SpaceMade ==
    ASSUME NEW a, IsArray(a), NEW n \in Int, NEW r \in EnsureSpace(a, n)
    PROVE  /\ r[1] \in BOOLEAN /\ Same(a, r[2]) /\ (r[2] = a \/ r[2].offset = 0)
           /\ r[1] => a.length + n <= r[2].size
<1>1. a.size \in Nat \ {0} /\ a.length \in 0 .. a.size
  BY ArrayType
<1>2. CASE a.length + n <= a.size
  <2>1. r = <<TRUE, a>>
    BY <1>2 DEF EnsureSpace
  <2> QED
    BY <1>2, <2>1, SameItself
<1>3. CASE ~(a.length + n <= a.size)
  <2> DEFINE u == Upgrade(a)
             l == Linearize(u, GrownSize(a, n))
             k == Linearize(a, GrownSize(a, n))
  <2>1. n \in Nat
    BY <1>1, <1>3
  <2>2. r[1] \in BOOLEAN /\ Same(a, r[2]) /\ (r[1] => a.length + n <= r[2].size)
    BY <2>1, EnsureSpaceSame
  <2>3. u.offset = 0 /\ l.offset = 0 /\ k.offset = 0
    <3>1. u.offset = 0
      BY UpgradeSame
    <3>2. \A b, s : IsArray(b) => Linearize(b, s).offset = 0
      BY DEF Linearize, IsArray, ArrayRec
    <3>3. IsArray(u)
      BY UpgradeSame DEF Same
    <3> QED
      BY <3>1, <3>2, <3>3
  <2>4. r = <<FALSE, a>> \/ r = <<FALSE, u>> \/ r = <<TRUE, l>> \/ r = <<TRUE, k>>
    BY <1>3, Zenon DEF EnsureSpace
  <2> HIDE DEF u, l, k
  <2>5. r[2] \in {a, u, l, k}
    <3>1. <<FALSE, a>>[2] = a /\ <<FALSE, u>>[2] = u /\ <<TRUE, l>>[2] = l /\ <<TRUE, k>>[2] = k
      OBVIOUS
    <3> QED
      BY <2>4, <3>1, Zenon
  <2> QED
    BY <2>2, <2>3, <2>5
<1> QED
  BY <1>2, <1>3

\* ci_arr_ensure_continuous, likewise: on success the elements are in one
\* segment.
LEMMA MadeContinuous ==
    ASSUME NEW a, IsArray(a), NEW r \in EnsureContinuous(a)
    PROVE  /\ r[1] \in BOOLEAN /\ Same(a, r[2]) /\ (r[2] = a \/ r[2].offset = 0)
           /\ r[2].size = a.size
           /\ r[1] => ~IsWrapped(r[2])
<1> DEFINE u == Upgrade(a)
           l == Linearize(a, a.size)
<1>1. /\ a.size \in Nat \ {0} /\ a.length \in 0 .. a.size /\ a.offset \in 0 .. a.size - 1
      /\ a.length <= a.size
  BY ArrayType
<1>2. /\ Same(a, u) /\ u.size = a.size /\ u.offset = 0
      /\ Same(a, l) /\ l.size = a.size /\ l.offset = 0
      /\ Same(a, a)
  BY <1>1, UpgradeSame, LinearizeSame, SameItself
<1>3. u.length = a.length /\ l.length = a.length
  BY <1>2 DEF Same
<1>4. ~IsWrapped(u) /\ ~IsWrapped(l)
  <2> HIDE DEF u, l
  <2> QED
    BY <1>1, <1>2, <1>3 DEF IsWrapped
<1>5. \/ r = <<FALSE, a>> \/ r = <<TRUE, u>> \/ r = <<TRUE, l>>
      \/ r = <<TRUE, a>> /\ ~IsWrapped(a)
  BY Zenon DEF EnsureContinuous
<1> HIDE DEF u, l
<1>6. CASE r = <<FALSE, a>>
  BY <1>2, <1>6
<1>7. CASE r = <<TRUE, u>>
  BY <1>2, <1>4, <1>7
<1>8. CASE r = <<TRUE, l>>
  BY <1>2, <1>4, <1>8
<1>9. CASE r = <<TRUE, a>> /\ ~IsWrapped(a)
  BY <1>2, <1>9
<1> QED
  BY <1>5, <1>6, <1>7, <1>8, <1>9

\* One after the other, as merge and splice call them.
LEMMA PreparedIs ==
    ASSUME NEW a, IsArray(a), NEW n \in Int, NEW p \in Prepared(a, n)
    PROVE  /\ p[1] \in BOOLEAN /\ Same(a, p[2]) /\ (p[2] = a \/ p[2].offset = 0)
           /\ p[1] => a.length + n <= p[2].size /\ ~IsWrapped(p[2])
<1>1. PICK r \in EnsureSpace(a, n) :
         p \in {<<r[1] /\ s[1], s[2]>> : s \in EnsureContinuous(r[2])}
  BY Zenon DEF Prepared
<1>2. PICK s \in EnsureContinuous(r[2]) : p = <<r[1] /\ s[1], s[2]>>
  BY <1>1
<1>3. /\ r[1] \in BOOLEAN /\ Same(a, r[2]) /\ (r[2] = a \/ r[2].offset = 0)
      /\ r[1] => a.length + n <= r[2].size
  BY SpaceMade
<1>4. IsArray(r[2])
  BY <1>3 DEF Same
<1>5. /\ s[1] \in BOOLEAN /\ Same(r[2], s[2]) /\ (s[2] = r[2] \/ s[2].offset = 0)
      /\ s[2].size = r[2].size
      /\ s[1] => ~IsWrapped(s[2])
  BY <1>4, MadeContinuous
<1>6. Same(a, s[2])
  BY <1>3, <1>5, SameTrans, Zenon
<1>7. p[1] = (r[1] /\ s[1]) /\ p[2] = s[2]
  BY <1>2
<1> QED
  BY <1>3, <1>5, <1>6, <1>7

-----------------------------------------------------------------------------
(* Merging *)

\* b is a with the elements of s behind its own, in the same buffer.
Joined(a, s, b) ==
    /\ IsArray(b) /\ b.size = a.size /\ b.offset = a.offset
    /\ b.length = a.length + Len(s)
    /\ \A i \in 0 .. a.length - 1 : At(b, i) = At(a, i)
    /\ \A i \in 1 .. Len(s) : At(b, a.length + i - 1) = s[i]

\* New contents of the buffer, and a new length: the elements are read from
\* the new contents at the old indices.
Buffers(a) == [0 .. a.size - 1 -> Word]
Rewrite(a, d, n) == [a EXCEPT !.data = d, !.length = n]

\* The fields and the elements of a rewritten array.
LEMMA Rewritten ==
    ASSUME NEW a, IsArray(a), NEW d \in Buffers(a), NEW n \in 0 .. a.size
    PROVE  /\ IsArray(Rewrite(a, d, n)) /\ Rewrite(a, d, n).size = a.size
           /\ Rewrite(a, d, n).offset = a.offset /\ Rewrite(a, d, n).length = n
           /\ \A i : At(Rewrite(a, d, n), i) = d[Idx(a, i)]
<1> DEFINE b == Rewrite(a, d, n)
<1>1. /\ Shaped(a) /\ a.size \in Nat \ {0} /\ a.offset \in 0 .. a.size - 1
      /\ a.small \in BOOLEAN
  BY ArrayType
<1>2. /\ b.size = a.size /\ b.offset = a.offset /\ b.small = a.small
      /\ b.length = n /\ b.data = d
  BY DEF IsArray, ArrayRec, Rewrite
<1>3. Shaped([a EXCEPT !.data = d, !.length = n])
  BY <1>1, ShapeKept
<1>4. Shaped(b)
  BY <1>3 DEF Rewrite
<1> HIDE DEF b
<1>5. IsArray(b)
  BY <1>1, <1>2, <1>4, WellFormed DEF Buffers
<1>6. \A i : At(b, i) = d[Idx(a, i)]
  BY <1>2 DEF At, Idx
<1> QED
  BY <1>2, <1>5, <1>6 DEF b

\* The slow path's loop on an array with room.
LEMMA PushAllIs ==
    ASSUME NEW a, IsArray(a), NEW s \in Seq(Word), a.length + Len(s) <= a.size
    PROVE  Joined(a, s, PushAll(a, s))
<1> DEFINE n == a.length
           k == Len(s)
           R(p) == (p + a.size - a.offset) % a.size
           d == [p \in 0 .. a.size - 1 |->
                   IF R(p) \in n .. n + k - 1 THEN s[R(p) - n + 1] ELSE a.data[p]]
           b == [a EXCEPT !.data = d, !.length = n + k]
<1>1. PushAll(a, s) = b
  BY DEF PushAll, IsArray, ArrayRec
<1>2. /\ a.size \in Nat \ {0} /\ n \in 0 .. a.size /\ a.offset \in 0 .. a.size - 1
      /\ a.data \in [0 .. a.size - 1 -> Word] /\ k \in Nat
  BY ArrayType
<1>3. \A p \in 0 .. a.size - 1 : R(p) \in Nat
  BY <1>2
<1>4. \A i \in 0 .. a.size - 1 : Idx(a, i) \in 0 .. a.size - 1 /\ R(Idx(a, i)) = i
  <2> SUFFICES ASSUME NEW i \in 0 .. a.size - 1
               PROVE  Idx(a, i) \in 0 .. a.size - 1 /\ R(Idx(a, i)) = i
    OBVIOUS
  <2>1. i \in 0 .. a.size
    BY <1>2
  <2> QED
    BY <2>1, IdxIs, IdxInverse
<1> HIDE DEF R
<1>5. \A j \in 1 .. k : s[j] \in Word
  BY ElementOfSeq
<1> HIDE DEF k
<1>6. d \in [0 .. a.size - 1 -> Word]
  <2> SUFFICES ASSUME NEW p \in 0 .. a.size - 1
               PROVE  (IF R(p) \in n .. n + k - 1 THEN s[R(p) - n + 1] ELSE a.data[p]) \in Word
    OBVIOUS
  <2>1. R(p) \in n .. n + k - 1 => R(p) - n + 1 \in 1 .. k
    BY <1>2, <1>3
  <2> QED
    BY <1>2, <1>5, <2>1
<1>7. \A i \in 0 .. n - 1 : d[Idx(a, i)] = At(a, i)
  <2> SUFFICES ASSUME NEW i \in 0 .. n - 1 PROVE d[Idx(a, i)] = a.data[Idx(a, i)]
    BY DEF At
  <2>1. i \in 0 .. a.size - 1 /\ i \notin n .. n + k - 1
    BY <1>2
  <2> QED
    BY <1>4, <2>1
<1>8. \A i \in 1 .. k : d[Idx(a, n + i - 1)] = s[i]
  <2> SUFFICES ASSUME NEW i \in 1 .. k PROVE d[Idx(a, n + i - 1)] = s[i]
    OBVIOUS
  <2>1. n + i - 1 \in 0 .. a.size - 1 /\ n + i - 1 \in n .. n + k - 1 /\ (n + i - 1) - n + 1 = i
    BY <1>2 DEF k
  <2> QED
    BY <1>4, <2>1
<1>9. n + k \in 0 .. a.size
  BY <1>2 DEF k
<1> HIDE DEF d
<1>10. /\ IsArray(b) /\ b.size = a.size /\ b.offset = a.offset /\ b.length = n + k
       /\ \A i : At(b, i) = d[Idx(a, i)]
  <2> DEFINE l == n + k
  <2>1. b = Rewrite(a, d, l) /\ d \in Buffers(a) /\ l \in 0 .. a.size
    BY <1>6, <1>9 DEF Rewrite, Buffers
  <2> HIDE DEF n, b, l
  <2>2. /\ IsArray(b) /\ b.size = a.size /\ b.offset = a.offset /\ b.length = l
        /\ \A i : At(b, i) = d[Idx(a, i)]
    BY <2>1, Rewritten
  <2> QED
    BY <2>2 DEF l
<1> HIDE DEF b
<1> QED
  BY <1>1, <1>7, <1>8, <1>10 DEF Joined, k

\* The elements, as a sequence.
LEMMA ElementsJoined ==
    ASSUME NEW a, IsArray(a), NEW s \in Seq(Word), NEW b, Joined(a, s, b)
    PROVE  Elements(b) = Elements(a) \o s
<1> DEFINE x == Elements(a)
           q == x \o s
           n == a.length
<1>1. /\ x \in Seq(Word) /\ Len(x) = n /\ n \in Nat
      /\ \A i \in 1 .. n : x[i] = At(a, i - 1)
  BY ElementsType, ArrayType
<1> HIDE DEF x
<1>2. /\ q \in Seq(Word) /\ Len(q) = n + Len(s)
      /\ \A i \in 1 .. n + Len(s) : q[i] = IF i <= n THEN x[i] ELSE s[i - n]
  BY <1>1, ConcatProperties
<1> HIDE DEF q
<1>3. ASSUME NEW i \in 1 .. b.length PROVE q[i] = At(b, i - 1)
  <2>1. b.length = n + Len(s) /\ Len(s) \in Nat
    BY DEF Joined
  <2>2. CASE i <= n
    <3>1. i \in 1 .. n /\ i - 1 \in 0 .. n - 1 /\ i \in 1 .. n + Len(s)
      BY <1>1, <2>1, <2>2
    <3> QED
      BY <1>1, <1>2, <2>2, <3>1 DEF Joined
  <2>3. CASE ~(i <= n)
    <3>1. i - n \in 1 .. Len(s) /\ n + (i - n) - 1 = i - 1 /\ i \in 1 .. n + Len(s)
      BY <1>1, <2>1, <2>3
    <3>2. At(b, n + (i - n) - 1) = s[i - n]
      BY <3>1 DEF Joined
    <3> QED
      BY <1>2, <2>3, <3>1, <3>2
  <2> QED
    BY <2>2, <2>3
<1>4. IsArray(b) /\ Len(q) = b.length
  BY <1>2 DEF Joined
<1>5. Elements(b) = q
  BY <1>2, <1>3, <1>4, ElementsAre
<1> QED
  BY <1>5 DEF q, x

\* The states of a merge that has not overrun its buffer of z elements.
Merging(z, k) == [d : ArrayRec(z), status : {"ok"}, start : {k}]

\* memcpy of a source in one segment behind the last element of an array that
\* starts at slot 0.
LEMMA CopyBehind ==
    ASSUME NEW a, IsArray(a), a.offset = 0, NEW s, IsArray(s), ~IsWrapped(s),
           a.length + s.length <= a.size, s.length # 0
    PROVE  LET d == [p \in 0 .. a.size - 1 |->
                       IF p \in a.length .. a.length + s.length - 1
                         THEN s.data[s.offset + p - a.length] ELSE a.data[p]]
           IN  Joined(a, Elements(s), [a EXCEPT !.data = d, !.length = a.length + s.length])
<1> DEFINE n == a.length
           k == s.length
           d == [p \in 0 .. a.size - 1 |->
                   IF p \in n .. n + k - 1 THEN s.data[s.offset + p - n] ELSE a.data[p]]
           b == [a EXCEPT !.data = d, !.length = n + k]
<1>1. /\ a.size \in Nat \ {0} /\ n \in 0 .. a.size
      /\ a.data \in [0 .. a.size - 1 -> Word]
      /\ s.size \in Nat \ {0} /\ k \in 0 .. s.size /\ s.offset \in 0 .. s.size - 1
      /\ s.data \in [0 .. s.size - 1 -> Word]
  BY ArrayType
<1>2. /\ n \in Nat /\ k \in Nat /\ s.offset \in Nat /\ s.size \in Nat /\ a.size \in Nat
      /\ s.offset + k <= s.size /\ n + k <= a.size
  BY <1>1 DEF IsWrapped
<1>3. d \in [0 .. a.size - 1 -> Word]
  <2> SUFFICES ASSUME NEW p \in 0 .. a.size - 1
               PROVE  (IF p \in n .. n + k - 1 THEN s.data[s.offset + p - n] ELSE a.data[p]) \in Word
    OBVIOUS
  <2>1. p \in n .. n + k - 1 => s.offset + p - n \in 0 .. s.size - 1
    <3> HIDE DEF n, k, d, b
    <3> QED
      BY <1>2
  <2> QED
    BY <1>1, <2>1
<1>4. \A i \in 0 .. a.size - 1 : Idx(a, i) = i
  <2> SUFFICES ASSUME NEW i \in 0 .. a.size - 1 PROVE Idx(a, i) = i
    OBVIOUS
  <2>1. i \in 0 .. a.size
    BY <1>1
  <2>2. Idx(a, i) = IF a.offset + i < a.size THEN a.offset + i ELSE a.offset + i - a.size
    BY <2>1, IdxIs
  <2> QED
    BY <1>1, <2>2
<1>5. \A i \in 0 .. n - 1 : d[Idx(a, i)] = At(a, i)
  <2> SUFFICES ASSUME NEW i \in 0 .. n - 1 PROVE d[Idx(a, i)] = At(a, i)
    OBVIOUS
  <2>1. i \in 0 .. a.size - 1 /\ i \notin n .. n + k - 1
    BY <1>1
  <2> QED
    BY <1>4, <2>1 DEF At
<1>6. /\ Elements(s) \in Seq(Word) /\ Len(Elements(s)) = k
      /\ \A i \in 1 .. k : Elements(s)[i] = At(s, i - 1)
  BY ElementsType
<1>7. \A i \in 1 .. k : d[Idx(a, n + i - 1)] = Elements(s)[i]
  <2> SUFFICES ASSUME NEW i \in 1 .. k PROVE d[Idx(a, n + i - 1)] = At(s, i - 1)
    BY <1>6
  <2>1. /\ n + i - 1 \in 0 .. a.size - 1 /\ n + i - 1 \in n .. n + k - 1
        /\ s.offset + (n + i - 1) - n = s.offset + (i - 1)
        /\ i - 1 \in 0 .. s.size /\ s.offset + (i - 1) < s.size
    <3> HIDE DEF n, k, d, b
    <3> QED
      BY <1>2
  <2>2. d[n + i - 1] = s.data[s.offset + (i - 1)]
    BY <2>1
  <2>3. Idx(s, i - 1) = s.offset + (i - 1)
    BY <2>1, IdxIs
  <2> QED
    BY <1>4, <2>1, <2>2, <2>3 DEF At
<1> HIDE DEF d
<1>8. /\ IsArray(b) /\ b.size = a.size /\ b.offset = a.offset /\ b.length = n + k
      /\ \A i : At(b, i) = d[Idx(a, i)]
  <2>1. n + k \in 0 .. a.size
    BY <1>2
  <2> DEFINE l == n + k
  <2>2. b = Rewrite(a, d, l) /\ d \in Buffers(a) /\ l \in 0 .. a.size
    BY <1>3, <2>1 DEF Rewrite, Buffers
  <2> HIDE DEF n, k, b, l
  <2>3. /\ IsArray(b) /\ b.size = a.size /\ b.offset = a.offset /\ b.length = l
        /\ \A i : At(b, i) = d[Idx(a, i)]
    BY <2>2, Rewritten
  <2> QED
    BY <2>3 DEF l
<1> HIDE DEF b
<1>9. Joined(a, Elements(s), b)
  BY <1>5, <1>6, <1>7, <1>8 DEF Joined
<1> QED
  BY <1>9 DEF b, d

\* r is m with the elements of s behind those of m.d.
Merged(m, s, z, k, r) ==
    /\ r \in Merging(z, k) /\ r.d.offset = m.d.offset
    /\ r.d.length = m.d.length + s.length
    /\ Elements(r.d) = Elements(m.d) \o Elements(s)

\* An empty argument changes nothing.
LEMMA MergedNone ==
    ASSUME NEW z \in Nat \ {0}, NEW k, NEW m \in Merging(z, k), NEW s, IsArray(s),
           s.length = 0
    PROVE  Merged(m, s, z, k, m)
<1>1. IsArray(m.d)
  BY DEF Merging, IsArray, ArrayRec
<1>2. Elements(s) = <<>> /\ Elements(m.d) \in Seq(Word) /\ m.d.length \in Nat
  BY <1>1, ElementsNone, ElementsType, ArrayType
<1>3. Elements(m.d) \o <<>> = Elements(m.d)
  BY <1>2, ConcatEmptySeq
<1> QED
  BY <1>2, <1>3 DEF Merged

\* An argument whose elements were joined to the array was merged.
LEMMA MergedJoined ==
    ASSUME NEW z \in Nat \ {0}, NEW k, NEW m \in Merging(z, k), NEW s, IsArray(s),
           NEW b, Joined(m.d, Elements(s), b)
    PROVE  Merged(m, s, z, k, [m EXCEPT !.d = b])
<1> DEFINE r == [m EXCEPT !.d = b]
<1>1. IsArray(m.d) /\ m.d.size = z
  BY DEF Merging, IsArray, ArrayRec
<1>2. Elements(s) \in Seq(Word) /\ Len(Elements(s)) = s.length
  BY ElementsType
<1>3. b.offset = m.d.offset /\ b.length = m.d.length + s.length /\ b \in ArrayRec(z)
  BY <1>1, <1>2 DEF Joined, IsArray
<1>4. r.d = b /\ r \in Merging(z, k)
  BY <1>3 DEF Merging
<1>5. Elements(b) = Elements(m.d) \o Elements(s)
  BY <1>1, <1>2, ElementsJoined
<1> QED
  BY <1>3, <1>4, <1>5 DEF Merged

\* One argument of the fast path, when there is room for it.
LEMMA MergeFastIs ==
    ASSUME NEW z \in Nat \ {0}, NEW k, NEW m \in Merging(z, k), NEW s \in Operands,
           m.d.length + s.length <= z, m.d.offset = 0, ~IsWrapped(s)
    PROVE  Merged(m, s, z, k, MergeFast(m, s))
<1> DEFINE a == m.d
<1>1. IsArray(s) /\ SrcOf(a, s) = s
  BY OperandAssumption DEF SrcOf
<1>2. IsArray(a) /\ a.size = z /\ m.status = "ok"
  BY DEF Merging, IsArray, ArrayRec
<1>3. CASE s.length = 0
  <2>1. MergeFast(m, s) = m
    BY <1>1, <1>3 DEF MergeFast
  <2> QED
    BY <1>1, <1>3, <2>1, MergedNone
<1>4. CASE s.length # 0
  <2> DEFINE d == [p \in 0 .. a.size - 1 |->
                     IF p \in a.length .. a.length + s.length - 1
                       THEN s.data[s.offset + p - a.length] ELSE a.data[p]]
             b == [a EXCEPT !.data = d, !.length = a.length + s.length]
  <2>1. Joined(a, Elements(s), b)
    BY <1>1, <1>2, <1>4, CopyBehind
  <2>2. ~(a.length + s.length > a.size)
    BY <1>1, <1>2, ArrayType
  <2>3. MergeFast(m, s) = [m EXCEPT !.d.data = d, !.d.length = @ + s.length]
    BY <1>1, <1>2, <1>4, <2>2 DEF MergeFast
  <2> HIDE DEF d
  <2>4. MergeFast(m, s) = [m EXCEPT !.d = b]
    BY <2>3 DEF Merging, ArrayRec
  <2> HIDE DEF b
  <2> QED
    BY <1>1, <2>1, <2>4, MergedJoined
<1> QED
  BY <1>3, <1>4

\* One argument of the slow path, when there is room for it.
LEMMA MergeSlowIs ==
    ASSUME NEW z \in Nat \ {0}, NEW k, NEW m \in Merging(z, k), NEW s \in Operands,
           m.d.length + s.length <= z
    PROVE  Merged(m, s, z, k, MergeSlow(m, s))
<1> DEFINE a == m.d
           b == PushAll(a, Elements(s))
<1>1. IsArray(s) /\ SrcOf(a, s) = s /\ s # Self
  BY OperandAssumption DEF SrcOf
<1>2. IsArray(a) /\ a.size = z /\ m.status = "ok"
  BY DEF Merging, IsArray, ArrayRec
<1>3. CASE s.length = 0
  <2>1. MergeSlow(m, s) = m
    BY <1>1, <1>3 DEF MergeSlow
  <2> QED
    BY <1>1, <1>3, <2>1, MergedNone
<1>4. CASE s.length # 0
  <2>1. Elements(s) \in Seq(Word) /\ Len(Elements(s)) = s.length
    BY <1>1, ElementsType
  <2>2. Joined(a, Elements(s), b)
    BY <1>2, <2>1, PushAllIs
  <2>3. MergeSlow(m, s) = [m EXCEPT !.d = b]
    <3>1. a.length \in Nat /\ s.length \in Nat
      BY <1>1, <1>2, ArrayType
    <3>2. ~(a.length + s.length > a.size)
      BY <1>2, <3>1
    <3> HIDE DEF b
    <3> QED
      BY <1>1, <1>2, <1>4, <3>2 DEF MergeSlow, b
  <2> HIDE DEF b
  <2> QED
    BY <1>1, <2>2, <2>3, MergedJoined
<1> QED
  BY <1>3, <1>4

\* Concatenation of sequences of words is associative.
LEMMA WordsAssociate ==
    \A u, v, w \in Seq(Word) : (u \o v) \o w = u \o (v \o w)
BY ConcatAssociative

\* The states of a merge that may have overrun its buffer.
Copying(z, k) == [d : ArrayRec(z), status : {"ok", "overrun"}, start : {k}]

\* An argument for which there is no room, on either path.
LEMMA MergePast ==
    ASSUME NEW z \in Nat \ {0}, NEW k, NEW m \in Merging(z, k), NEW s \in Operands,
           ~(m.d.length + s.length <= z)
    PROVE  /\ MergeFast(m, s) \in Copying(z, k) /\ MergeFast(m, s).status = "overrun"
           /\ MergeSlow(m, s) \in Copying(z, k) /\ MergeSlow(m, s).status = "overrun"
<1> DEFINE x == [m EXCEPT !.status = "overrun"]
<1>1. IsArray(s) /\ SrcOf(m.d, s) = s /\ s # Self /\ s.length \in Nat
  BY OperandAssumption, ArrayType DEF SrcOf
<1>2. m.d.size = z /\ m.status = "ok" /\ m.d.length \in 0 .. z
  BY DEF Merging, ArrayRec
<1>3. s.length # 0 /\ m.d.length + s.length > z
  BY <1>1, <1>2
<1>4. MergeFast(m, s) = x
  BY <1>1, <1>2, <1>3 DEF MergeFast
<1>5. MergeSlow(m, s) = x
  BY <1>1, <1>2, <1>3 DEF MergeSlow
<1>6. x \in Copying(z, k) /\ x.status = "overrun"
  BY DEF Merging, Copying
<1> QED
  BY <1>4, <1>5, <1>6

\* merge copies all elements of all its arguments, in order, on the path that
\* the arguments and the receiver's offset select, when the receiver as it was
\* prepared has room for them; otherwise it overruns the buffer.
LEMMA MergeIs ==
    ASSUME NEW a, IsArray(a), NEW d0, Same(a, d0),
           NEW n \in Nat \ {0}, NEW args \in [1 .. n -> Operands]
    PROVE  LET m == MergeResult(a, d0, args)
               T == MergeTotal(a, args)
           IN  /\ T \in Nat
               /\ m.status \in {"ok", "overrun"}
               /\ m.status = "ok" <=> a.length + T <= d0.size
               /\ m.status = "ok" =>
                    /\ m.start = a.length /\ IsArray(m.d)
                    /\ m.d.offset = d0.offset /\ m.d.length = a.length + T
                    /\ Elements(m.d) = Elements(a) \o
                                         FlattenSeq([i \in 1 .. n |-> Elements(args[i])])
<1> DEFINE q == [i \in 1 .. n |-> Elements(args[i])]
           T == MergeTotal(a, args)
           z == d0.size
           k == a.length
           fast == d0.offset = 0 /\ \A i \in DOMAIN args : ~IsWrapped(SrcOf(a, args[i]))
           begin == [d |-> d0, status |-> "ok", start |-> d0.length]
           Step(x, i) == IF fast THEN MergeFast(x, args[i]) ELSE MergeSlow(x, args[i])
           P(f) == f = [i \in 0 .. n |->
                          IF i = 0 THEN begin
                          ELSE IF fast THEN MergeFast(f[i - 1], args[i])
                          ELSE MergeSlow(f[i - 1], args[i])]
           after == CHOOSE f : P(f)
<1>1. /\ n \in Nat /\ Len(args) = n /\ DOMAIN args = 1 .. n
      /\ \A i \in 1 .. n : args[i] \in Operands
  OBVIOUS
<1>2. \A i \in 1 .. n : /\ SrcOf(a, args[i]) = args[i] /\ IsArray(args[i])
                        /\ args[i].length \in Nat
  BY <1>1, OperandAssumption, ArrayType DEF SrcOf
<1>3. PICK tot : /\ \A i \in 0 .. n : tot[i] \in Nat /\ tot[i] <= tot[n]
                 /\ tot[0] = 0
                 /\ \A i \in 1 .. n : tot[i] = tot[i - 1] + args[i].length
                 /\ T = tot[n]
  <2>1. \A i \in 1 .. n : SrcOf(a, args[i]).length \in Nat
    BY <1>2
  <2>2. PICK tot : Totals(tot, a, n, args)
    BY <1>1, <2>1, TotalIs
  <2>3. \A i \in 1 .. n : tot[i] = tot[i - 1] + args[i].length
    BY <1>2, <2>2 DEF Totals
  <2> QED
    BY <2>2, <2>3 DEF Totals
<1>4. PICK flat : /\ \A i \in 0 .. n : flat[i] \in Seq(Word)
                  /\ flat[0] = <<>>
                  /\ \A i \in 1 .. n : flat[i] = flat[i - 1] \o q[i]
                  /\ FlattenSeq(q) = flat[n]
  <2>1. q \in [1 .. n -> Seq(Word)]
    BY <1>2, ElementsType
  <2> HIDE DEF q
  <2> QED
    BY <2>1, FlattenIs
<1>5. \A i \in 1 .. n : flat[i] = flat[i - 1] \o Elements(args[i])
  BY <1>4
<1>6. T \in Nat /\ Elements(a) \in Seq(Word) /\ k \in Nat /\ Len(Elements(a)) = k
  BY <1>1, <1>3, ElementsType, ArrayType
<1> HIDE DEF q, T
<1>7. MergeResult(a, d0, args) = after[n]
  BY <1>1 DEF MergeResult
<1>8. /\ IsArray(d0) /\ d0.length = k /\ Elements(d0) = Elements(a) /\ z \in Nat \ {0}
  <2>1. Elements(d0) = Elements(a)
    BY ElementsSame
  <2> QED
    BY <2>1, ArrayType DEF Same
<1>9. after[n] \in Copying(z, k) /\ (after[n].status = "overrun" => z < k + T) /\
      (after[n].status = "ok" =>
         /\ after[n].d.offset = d0.offset /\ after[n].d.length = k + T
         /\ Elements(after[n].d) = Elements(a) \o flat[n])
  <2> HIDE DEF z
  <2> DEFINE Done(x, i) == /\ x.d.offset = d0.offset
                           /\ x.d.length = k + tot[i]
                           /\ Elements(x.d) = Elements(a) \o flat[i]
             S == [i \in 0 .. n |->
                     {x \in Copying(z, k) : /\ x.status = "overrun" => z < k + T
                                            /\ x.status = "ok" => Done(x, i)}]
  <2>5. begin \in S[0]
    <3>1. d0 \in ArrayRec(z)
      BY <1>8 DEF IsArray, z
    <3>2. begin \in Copying(z, k)
      BY <1>8, <3>1 DEF Copying
    <3>3. Elements(a) \o flat[0] = Elements(a) /\ k + tot[0] = k
      BY <1>3, <1>4, <1>6, ConcatEmptySeq
    <3> QED
      BY <1>1, <1>8, <3>2, <3>3
  <2>6. ASSUME NEW i \in 1 .. n, NEW x \in S[i - 1] PROVE Step(x, i) \in S[i]
    <3>1. /\ i \in 0 .. n /\ i - 1 \in 0 .. n
          /\ tot[i - 1] \in Nat /\ tot[i] = tot[i - 1] + args[i].length
          /\ tot[i] <= T /\ args[i].length \in Nat
      BY <1>2, <1>3
    <3>2. /\ x \in Copying(z, k) /\ (x.status = "overrun" => z < k + T)
          /\ x.status = "ok" => Done(x, i - 1)
      BY <2>6, <3>1
    <3>3. SUFFICES /\ Step(x, i) \in Copying(z, k)
                   /\ Step(x, i).status = "overrun" => z < k + T
                   /\ Step(x, i).status = "ok" => Done(Step(x, i), i)
      BY <3>1
    <3> HIDE DEF S
    <3>4. args[i] \in Operands
      BY <1>1
    <3>5. CASE x.status = "overrun"
      <4>1. MergeFast(x, args[i]) = x /\ MergeSlow(x, args[i]) = x
        BY <3>5 DEF MergeFast, MergeSlow
      <4>2. Step(x, i) = x
        BY <4>1
      <4> HIDE DEF Step, fast, Done
      <4> QED
        BY <3>2, <3>5, <4>2
    <3>6. ASSUME x.status = "ok", ~(x.d.length + args[i].length <= z)
          PROVE  /\ Step(x, i) \in Copying(z, k) /\ Step(x, i).status = "overrun"
                 /\ z < k + T
      <4>1. x \in Merging(z, k)
        BY <3>2, <3>6 DEF Copying, Merging
      <4>2. /\ MergeFast(x, args[i]) \in Copying(z, k)
            /\ MergeFast(x, args[i]).status = "overrun"
            /\ MergeSlow(x, args[i]) \in Copying(z, k)
            /\ MergeSlow(x, args[i]).status = "overrun"
        BY <1>8, <3>4, <3>6, <4>1, MergePast DEF z
      <4>3. z < k + T
        BY <1>6, <1>8, <3>1, <3>2, <3>6 DEF z
      <4> HIDE DEF fast
      <4> QED
        BY <4>2, <4>3
    <3>7. ASSUME x.status = "ok", x.d.length + args[i].length <= z
          PROVE  /\ Step(x, i) \in Copying(z, k) /\ Step(x, i).status = "ok"
                 /\ Done(Step(x, i), i)
      <4>1. x \in Merging(z, k) /\ Done(x, i - 1)
        BY <3>2, <3>7 DEF Copying, Merging
      <4>2. fast => x.d.offset = 0 /\ ~IsWrapped(args[i])
        BY <1>1, <1>2, <4>1
      <4> HIDE DEF fast
      <4>3. Merged(x, args[i], z, k, Step(x, i))
        <5>1. CASE fast
          <6>1. Merged(x, args[i], z, k, MergeFast(x, args[i]))
            BY <1>8, <3>4, <3>7, <4>1, <4>2, <5>1, MergeFastIs DEF z
          <6> QED
            BY <5>1, <6>1
        <5>2. CASE ~fast
          <6>1. Merged(x, args[i], z, k, MergeSlow(x, args[i]))
            BY <1>8, <3>4, <3>7, <4>1, MergeSlowIs DEF z
          <6> QED
            BY <5>2, <6>1
        <5> QED
          BY <5>1, <5>2
      <4> HIDE DEF Step
      <4>4. Elements(Step(x, i).d) = Elements(a) \o flat[i]
        <5> DEFINE u == Elements(a)
                   v == flat[i - 1]
                   w == Elements(args[i])
        <5>1. u \in Seq(Word) /\ v \in Seq(Word) /\ w \in Seq(Word)
          BY <1>2, <1>4, <1>6, <3>1, ElementsType
        <5>2. flat[i] = v \o w /\ Elements(Step(x, i).d) = (u \o v) \o w
          BY <1>5, <4>1, <4>3 DEF Merged
        <5> HIDE DEF u, v, w
        <5>3. (u \o v) \o w = u \o (v \o w)
          BY <5>1, WordsAssociate, Zenon
        <5> QED
          BY <5>2, <5>3 DEF u
      <4>5. Step(x, i).d.length = k + tot[i]
        BY <1>6, <3>1, <4>1, <4>3 DEF Merged
      <4>6. Step(x, i) \in Copying(z, k) /\ Step(x, i).status = "ok"
        BY <4>3 DEF Merged, Merging, Copying
      <4> QED
        BY <4>1, <4>3, <4>4, <4>5, <4>6 DEF Merged
    <3>8. x.status \in {"ok", "overrun"}
      BY <3>2 DEF Copying
    <3> HIDE DEF Step, Done
    <3> QED
      BY <3>5, <3>6, <3>7, <3>8
  <2> HIDE DEF S, begin, fast
  <2>7. P(after)
    <3> DEFINE D == UNION {S[i] : i \in 0 .. n}
               g == [w \in (1 .. n) \X D |-> Step(w[2], w[1])]
    <3>1. \A i \in 1 .. n : \A x \in S[i - 1] : g[<<i, x>>] = Step(x, i)
      <4> SUFFICES ASSUME NEW i \in 1 .. n, NEW x \in S[i - 1] PROVE g[<<i, x>>] = Step(x, i)
        OBVIOUS
      <4>1. x \in D
        OBVIOUS
      <4> HIDE DEF D, Step
      <4> QED
        BY <4>1
    <3> HIDE DEF g, D, Step
    <3>2. Recursion(n, S, begin, g)
      BY <2>5, <2>6, <3>1 DEF Recursion
    <3>3. PICK f : Solves(f, n, S, begin, g)
      BY <1>1, <3>2, RecursiveExists
    <3>4. /\ f[0] = begin
          /\ \A i \in 1 .. n : f[i] = g[<<i, f[i - 1]>>]
          /\ \A i \in 0 .. n : f[i] \in S[i]
      BY <3>3 DEF Solves
    <3>5. \A i \in 1 .. n : f[i] = Step(f[i - 1], i)
      <4> SUFFICES ASSUME NEW i \in 1 .. n PROVE f[i] = Step(f[i - 1], i)
        OBVIOUS
      <4>1. i - 1 \in 0 .. n
        BY <1>1
      <4> QED
        BY <3>1, <3>4, <4>1
    <3> DEFINE h == [i \in 0 .. n |-> f[i]]
    <3>6. P(h)
      <4>1. \A i \in 0 .. n : f[i] = IF i = 0 THEN begin
                                     ELSE IF fast THEN MergeFast(h[i - 1], args[i])
                                     ELSE MergeSlow(h[i - 1], args[i])
        <5> SUFFICES ASSUME NEW i \in 0 .. n, i # 0
                     PROVE  f[i] = IF fast THEN MergeFast(h[i - 1], args[i])
                                   ELSE MergeSlow(h[i - 1], args[i])
          BY <3>4
        <5>1. i \in 1 .. n /\ i - 1 \in 0 .. n
          BY <1>1
        <5>2. h[i - 1] = f[i - 1]
          BY <5>1
        <5> QED
          BY <3>5, <5>1, <5>2 DEF Step
      <4> QED
        BY <4>1
    <3> HIDE DEF h
    <3> QED
      BY <3>6, Zenon
  <2> HIDE DEF after
  <2>8. /\ after[0] = begin
        /\ \A i \in 1 .. n : after[i] = Step(after[i - 1], i)
    <3>1. after[0] = begin
      BY <1>1, <2>7
    <3>2. \A i \in 1 .. n : i \in 0 .. n /\ i # 0
      BY <1>1
    <3> QED
      BY <2>7, <3>1, <3>2
  <2>9. after[n] \in S[n]
    <3> HIDE DEF Step
    <3>1. after[0] \in S[0]
      BY <2>5, <2>8
    <3>2. \A i \in 1 .. n : after[i - 1] \in S[i - 1] => after[i] \in S[i]
      BY <2>6, <2>8
    <3>3. \A i \in 0 .. n : after[i] \in S[i]
      BY <1>1, <3>1, <3>2, AlongInduction
    <3> QED
      BY <1>1, <3>3
  <2> QED
    BY <1>1, <1>3, <2>9 DEF S
<1> DEFINE m == MergeResult(a, d0, args)
<1>10. m.status \in {"ok", "overrun"} /\ m.start = k /\ m.d \in ArrayRec(z)
  BY <1>7, <1>9 DEF Copying
<1>11. IsArray(m.d) /\ m.d.length <= z
  BY <1>8, <1>10 DEF IsArray, ArrayRec, z
<1>12. m.status = "ok" => /\ m.d.offset = d0.offset /\ m.d.length = k + T
                          /\ Elements(m.d) = Elements(a) \o FlattenSeq(q)
  BY <1>4, <1>7, <1>9
<1>13. m.status = "overrun" => z < k + T
  BY <1>7, <1>9
<1> HIDE DEF m
<1>14. m.status = "ok" <=> k + T <= z
  BY <1>6, <1>8, <1>10, <1>11, <1>12, <1>13
<1> QED
  BY <1>6, <1>10, <1>11, <1>12, <1>14 DEF m, q, T

-----------------------------------------------------------------------------
(* splice *)

\* The clamped bounds of a splice.
LEMMA SpliceBounds ==
    ASSUME NEW a, IsArray(a), NEW i \in Int, NEW c \in Int
    PROVE  /\ SpliceStart(a, i) \in Nat /\ SpliceTail(a, i, c) \in Nat
           /\ SpliceStart(a, i) <= SpliceTail(a, i, c)
           /\ SpliceTail(a, i, c) <= a.length /\ a.length \in Nat
           /\ SpliceStart(a, i) = Clamp(i, 0, a.length)
           /\ SpliceTail(a, i, c) = Clamp(SpliceStart(a, i) + (IF c < 0 THEN 0 ELSE c),
                                          SpliceStart(a, i), a.length)
BY ArrayType DEF SpliceStart, SpliceTail, Clamp

\* The list that splice is meant to leave.
Spliced(s, st, tl, ins) == SubSeq(s, 1, st) \o ins \o SubSeq(s, tl + 1, Len(s))

\* st and tl are the bounds of a part of s.
Cut(s, st, tl) == st \in Nat /\ tl \in Nat /\ st <= tl /\ tl <= Len(s)

\* One element of the spliced list: a kept head, the inserts, a kept tail.
LEMMA SpliceList ==
    ASSUME NEW s \in Seq(Word), NEW ins \in Seq(Word), NEW st, NEW tl, Cut(s, st, tl)
    PROVE  LET q == Spliced(s, st, tl, ins)
           IN  /\ q \in Seq(Word) /\ Len(q) = st + Len(ins) + (Len(s) - tl)
               /\ \A k \in 1 .. Len(q) :
                     q[k] = IF k <= st THEN s[k]
                            ELSE IF k <= st + Len(ins) THEN ins[k - st]
                            ELSE s[k - (st + Len(ins)) + tl]
<1> DEFINE x == SubSeq(s, 1, st)
           y == SubSeq(s, tl + 1, Len(s))
           xi == x \o ins
           q == xi \o y
           L == Len(s)
           li == Len(ins)
<1>1. L \in Nat /\ li \in Nat /\ st \in Nat /\ tl \in Nat /\ st <= tl /\ tl <= L
  BY LenProperties DEF Cut
<1>2. /\ x \in Seq(Word) /\ Len(x) = st /\ \A k \in 1 .. st : x[k] = s[k]
  <2>1. st <= L
    BY <1>1
  <2>2. \A k \in 1 .. st : s[k] \in Word
    BY <1>1, <2>1, ElementOfSeq
  <2> QED
    BY <1>1, <2>1, <2>2, SubSeqProperties
<1>3. /\ y \in Seq(Word) /\ Len(y) = L - tl /\ \A k \in 1 .. L - tl : y[k] = s[k + tl]
  <2>1. \A k \in tl + 1 .. L : s[k] \in Word
    BY <1>1, ElementOfSeq
  <2> QED
    BY <1>1, <2>1, SubSeqProperties
<1> HIDE DEF x, y
<1>4. /\ xi \in Seq(Word) /\ Len(xi) = st + li
      /\ \A k \in 1 .. st + li : xi[k] = IF k <= st THEN x[k] ELSE ins[k - st]
  BY <1>2, ConcatProperties
<1> HIDE DEF xi
<1>5. /\ q \in Seq(Word) /\ Len(q) = st + li + (L - tl)
      /\ \A k \in 1 .. Len(q) : q[k] = IF k <= st + li THEN xi[k] ELSE y[k - (st + li)]
  <2>1. /\ q \in Seq(Word) /\ Len(q) = Len(xi) + Len(y)
        /\ \A k \in 1 .. Len(xi) + Len(y) :
              q[k] = IF k <= Len(xi) THEN xi[k] ELSE y[k - Len(xi)]
    <3>1. xi \in Seq(Word)
      BY <1>4
    <3>2. y \in Seq(Word)
      BY <1>3
    <3> QED
      BY <3>1, <3>2, ConcatProperties
  <2> HIDE DEF q
  <2>2. Len(xi) = st + li /\ Len(q) = Len(xi) + Len(y)
    BY <1>4, <2>1
  <2>3. Len(q) = st + li + (L - tl)
    BY <1>1, <1>3, <2>2
  <2> QED
    BY <2>1, <2>2, <2>3
<1> HIDE DEF q
<1>6. ASSUME NEW k \in 1 .. Len(q)
      PROVE  q[k] = IF k <= st THEN s[k]
                    ELSE IF k <= st + li THEN ins[k - st] ELSE s[k - (st + li) + tl]
  <2>1. CASE k <= st
    <3>1. k \in 1 .. st + li /\ k <= st + li /\ k \in 1 .. st
      BY <1>1, <2>1
    <3> QED
      BY <1>2, <1>4, <1>5, <2>1, <3>1
  <2>2. CASE ~(k <= st) /\ k <= st + li
    <3>1. k \in 1 .. st + li
      BY <1>1, <2>2
    <3> QED
      BY <1>4, <1>5, <2>2, <3>1
  <2>3. CASE ~(k <= st + li)
    <3>1. k - (st + li) \in 1 .. L - tl /\ ~(k <= st)
      BY <1>1, <1>5, <2>3
    <3> QED
      BY <1>3, <1>5, <2>3, <3>1
  <2> QED
    BY <2>1, <2>2, <2>3
<1> QED
  BY <1>5, <1>6 DEF Spliced, q, xi, x, y

\* The index arithmetic of bb_arr__splice.
Fits(L, li, off, z, st, tl, nl, diff) ==
    /\ L \in Nat /\ li \in Nat /\ off \in Nat /\ z \in Nat /\ st \in Nat /\ tl \in Nat
    /\ nl \in Int /\ diff \in Int /\ st <= tl /\ tl <= L /\ off + L <= z /\ off + nl <= z
    /\ nl = L + li - (tl - st) /\ diff = nl - L

\* Every slot it reads or writes is in the buffer.
LEMMA SpliceArithmetic ==
    ASSUME NEW L, NEW li, NEW off, NEW z, NEW st, NEW tl, NEW nl, NEW diff,
           Fits(L, li, off, z, st, tl, nl, diff)
    PROVE  /\ nl \in 0 .. z /\ tl + diff = st + li /\ st + li <= nl
           /\ \A p \in 0 .. z - 1 :
                 p >= off /\ p - off \in tl + diff .. nl - 1 => off + (p - off) - diff \in 0 .. z - 1
           /\ \A k \in 1 .. nl :
                 ~(k <= st + li) =>
                   LET j == k - (st + li) + tl - 1
                   IN  /\ k - 1 \notin st .. st + li - 1 /\ k - 1 \in tl + diff .. nl - 1
                       /\ off + (k - 1) - diff = off + j /\ j \in 0 .. z /\ off + j < z
                       /\ ~(k <= st)
BY DEF Fits

\* What memmove, memcpy and memset of bb_arr__splice leave in the buffer.
Moved(a, ins, st, tl, nl, diff, d) ==
    /\ st \in Nat /\ tl \in Nat /\ st <= tl /\ tl <= a.length
    /\ nl = a.length + Len(ins) - (tl - st) /\ diff = nl - a.length
    /\ d = [p \in 0 .. a.size - 1 |->
              IF p >= a.offset
                THEN IF p - a.offset \in st .. st + Len(ins) - 1 THEN ins[p - a.offset - st + 1]
                     ELSE IF p - a.offset \in tl + diff .. nl - 1
                       THEN a.data[a.offset + (p - a.offset) - diff]
                     ELSE IF p - a.offset \in nl .. a.length - 1 THEN NULL
                     ELSE a.data[a.offset + (p - a.offset)]
                ELSE a.data[p]]

\* In a buffer in one segment with room for the new length.
Moves(a, ins, st, tl, nl, diff, d) ==
    /\ Moved(a, ins, st, tl, nl, diff, d)
    /\ a.offset + a.length <= a.size /\ a.offset + nl <= a.size

\* In a buffer that may be wrapped, with as many inserts as removed elements.
Stays(a, ins, st, tl, nl, diff, d) ==
    /\ Moved(a, ins, st, tl, nl, diff, d)
    /\ diff = 0 /\ (Len(ins) = 0 \/ a.offset + (st + Len(ins)) <= a.size)

\* Each copied element is at its new index.
Copied(a, ins, st, tl, nl, d) ==
    /\ d \in Buffers(a) /\ nl \in 0 .. a.size
    /\ \A k \in 1 .. nl :
          d[Idx(a, k - 1)] = IF k <= st THEN At(a, k - 1)
                             ELSE IF k <= st + Len(ins) THEN ins[k - st]
                             ELSE At(a, k - (st + Len(ins)) + tl - 1)

LEMMA SpliceStays ==
    ASSUME NEW a, IsArray(a), NEW ins \in Seq(Word), NEW st, NEW tl, NEW nl, NEW diff,
           NEW d, Stays(a, ins, st, tl, nl, diff, d)
    PROVE  Copied(a, ins, st, tl, nl, d)
<1> USE DEF Stays, Moved
<1> DEFINE L == a.length
           li == Len(ins)
           off == a.offset
           z == a.size
<1>1. /\ L \in Nat /\ li \in Nat /\ off \in 0 .. z - 1 /\ z \in Nat /\ L <= z
      /\ st \in Nat /\ tl \in Nat /\ nl = L /\ diff = 0 /\ tl = st + li /\ tl <= L
      /\ li = 0 \/ off + (st + li) <= z
  <2>1. /\ L \in Nat /\ li \in Nat /\ off \in 0 .. z - 1 /\ z \in Nat /\ L <= z
    <3>1. li \in Nat
      BY LenProperties
    <3>2. z \in Nat /\ off \in 0 .. z - 1 /\ L \in 0 .. z
      BY ArrayType
    <3> HIDE DEF L, li, off, z
    <3> QED
      BY <3>1, <3>2
  <2>2. /\ st \in Nat /\ tl \in Nat /\ st <= tl /\ tl <= L
        /\ nl = L + li - (tl - st) /\ diff = nl - L /\ diff = 0
        /\ li = 0 \/ off + (st + li) <= z
    OBVIOUS
  <2> HIDE DEF L, li, off, z, Stays, Moved
  <2>3. nl = L /\ tl = st + li
    BY <2>1, <2>2
  <2> QED
    BY <2>1, <2>2, <2>3
<1>2. a.data \in [0 .. z - 1 -> Word] /\ NULL \in Word
  BY ArrayType DEF Word, Ptr
<1>3. \A j \in 1 .. li : ins[j] \in Word
  BY ElementOfSeq
<1>4. ASSUME NEW p \in 0 .. z - 1
      PROVE  d[p] = IF p >= off /\ p - off \in st .. st + li - 1 THEN ins[p - off - st + 1]
                    ELSE a.data[p]
  <2>1. CASE ~(p >= off)
    BY <2>1
  <2>2. CASE p >= off
    <3>1. d[p] = IF p - off \in st .. st + li - 1 THEN ins[p - off - st + 1]
                 ELSE IF p - off \in tl + diff .. nl - 1 THEN a.data[off + (p - off) - diff]
                 ELSE IF p - off \in nl .. L - 1 THEN NULL
                 ELSE a.data[off + (p - off)]
      BY <2>2
    <3> HIDE DEF L, li, off, z, Stays, Moved
    <3>2. off + (p - off) - diff = p /\ off + (p - off) = p /\ p - off \notin nl .. L - 1
      BY <1>1
    <3> QED
      BY <2>2, <3>1, <3>2
  <2> QED
    BY <2>1, <2>2
<1>5. d \in Buffers(a)
  <2> SUFFICES ASSUME NEW p \in 0 .. z - 1 PROVE d[p] \in Word
    BY DEF Buffers
  <2>1. p - off \in st .. st + li - 1 => p - off - st + 1 \in 1 .. li
    <3> HIDE DEF L, li, off, z, Stays, Moved
    <3> QED
      BY <1>1
  <2> HIDE DEF L, li, off, z, Stays, Moved
  <2> QED
    BY <1>2, <1>3, <1>4, <2>1
<1>6. ASSUME NEW k \in 1 .. nl
      PROVE  d[Idx(a, k - 1)] = IF k <= st THEN At(a, k - 1)
                                ELSE IF k <= st + li THEN ins[k - st]
                                ELSE At(a, k - (st + li) + tl - 1)
  <2> DEFINE p == Idx(a, k - 1)
  <2>1. /\ k - 1 \in 0 .. z /\ p \in 0 .. z - 1
        /\ p = IF off + (k - 1) < z THEN off + (k - 1) ELSE off + (k - 1) - z
    <3>1. k - 1 \in 0 .. z
      BY <1>1
    <3> QED
      BY <1>1, <3>1, IdxIs
  <2>2. At(a, k - 1) = a.data[p]
    BY DEF At
  <2>3. k - (st + li) + tl - 1 = k - 1
    BY <1>1
  <2> HIDE DEF p, L, li, off, z, Stays, Moved
  <2>4. p >= off /\ p - off \in st .. st + li - 1 <=> ~(k <= st) /\ k <= st + li
    BY <1>1, <2>1
  <2>5. ~(k <= st) /\ k <= st + li => p - off - st + 1 = k - st
    BY <1>1, <2>1
  <2> QED
    BY <1>4, <2>1, <2>2, <2>3, <2>4, <2>5 DEF p
<1> QED
  BY <1>1, <1>5, <1>6 DEF Copied

LEMMA SpliceCopies ==
    ASSUME NEW a, IsArray(a), NEW ins \in Seq(Word), NEW st, NEW tl, NEW nl, NEW diff,
           NEW d, Moves(a, ins, st, tl, nl, diff, d)
    PROVE  Copied(a, ins, st, tl, nl, d)
<1> USE DEF Moves, Moved
<1> DEFINE L == a.length
           li == Len(ins)
           off == a.offset
           z == a.size
<1>1. /\ L \in Nat /\ li \in Nat /\ off \in Nat /\ z \in Nat /\ nl \in Int /\ diff \in Int
      /\ off + L <= z /\ nl = L + li - (tl - st) /\ diff = nl - L /\ off + nl <= z /\ tl <= L
  BY ArrayType, LenProperties
<1>2. a.data \in [0 .. z - 1 -> Word] /\ NULL \in Word
  BY ArrayType DEF Word, Ptr
<1>3. \A j \in 1 .. li : ins[j] \in Word
  BY ElementOfSeq
<1>4. /\ nl \in 0 .. z
      /\ \A p \in 0 .. z - 1 :
            p >= off /\ p - off \in tl + diff .. nl - 1 => off + (p - off) - diff \in 0 .. z - 1
      /\ \A k \in 1 .. nl :
            ~(k <= st + li) =>
              LET j == k - (st + li) + tl - 1
              IN  /\ k - 1 \notin st .. st + li - 1 /\ k - 1 \in tl + diff .. nl - 1
                  /\ off + (k - 1) - diff = off + j /\ j \in 0 .. z /\ off + j < z
                  /\ ~(k <= st)
  <2> HIDE DEF L, li, off, z
  <2>1. Fits(L, li, off, z, st, tl, nl, diff)
    BY <1>1 DEF Fits
  <2> QED
    BY <2>1, SpliceArithmetic
<1>5. d \in Buffers(a)
  <2> SUFFICES ASSUME NEW p \in 0 .. z - 1 PROVE d[p] \in Word
    BY DEF Buffers
  <2>1. CASE ~(p >= off)
    BY <1>2, <2>1
  <2>2. CASE p >= off
    <3>1. CASE p - off \in st .. st + li - 1
      <4>1. p - off - st + 1 \in 1 .. li
        <5> HIDE DEF L, li, off, z
        <5> QED
          BY <1>1, <3>1
      <4>2. d[p] = ins[p - off - st + 1]
        BY <2>2, <3>1
      <4> QED
        BY <1>3, <4>1, <4>2
    <3>2. CASE p - off \notin st .. st + li - 1 /\ p - off \in tl + diff .. nl - 1
      <4>1. off + (p - off) - diff \in 0 .. z - 1
        BY <1>4, <2>2, <3>2
      <4>2. d[p] = a.data[off + (p - off) - diff]
        BY <2>2, <3>2
      <4> QED
        BY <1>2, <4>1, <4>2
    <3>3. CASE p - off \notin st .. st + li - 1 /\ p - off \notin tl + diff .. nl - 1
      <4>1. d[p] = NULL \/ d[p] = a.data[off + (p - off)]
        BY <2>2, <3>3
      <4>2. off + (p - off) = p
        BY <1>1
      <4> QED
        BY <1>2, <4>1, <4>2
    <3> QED
      BY <3>1, <3>2, <3>3
  <2> QED
    BY <2>1, <2>2
<1>6. ASSUME NEW k \in 1 .. nl
      PROVE  d[Idx(a, k - 1)] = IF k <= st THEN At(a, k - 1)
                                ELSE IF k <= st + li THEN ins[k - st]
                                ELSE At(a, k - (st + li) + tl - 1)
  <2> DEFINE p == off + (k - 1)
  <2>1. /\ k - 1 \in 0 .. z /\ off + (k - 1) < z /\ p \in 0 .. z - 1 /\ p >= off
        /\ p - off = k - 1
    <3> HIDE DEF L, li, off, z
    <3> QED
      BY <1>1
  <2>2. Idx(a, k - 1) = p
    BY <2>1, IdxIs
  <2>3. CASE k <= st
    <3>1. /\ k - 1 \notin st .. st + li - 1 /\ k - 1 \notin tl + diff .. nl - 1
          /\ k - 1 \notin nl .. L - 1
      <4>1. st \in Nat /\ tl \in Nat
        OBVIOUS
      <4> HIDE DEF L, li, off, z, p, Moves, Moved
      <4>2. k \in Int /\ k <= nl
        BY <1>1
      <4>3. tl + diff = st + li /\ k - 1 < st /\ k - 1 < st + li /\ k - 1 < nl
        BY <1>1, <2>3, <4>1, <4>2
      <4> QED
        BY <1>1, <4>1, <4>2, <4>3
    <3> HIDE DEF p
    <3>2. d[p] = a.data[off + (k - 1)]
      BY <2>1, <3>1
    <3> QED
      BY <2>2, <2>3, <3>2 DEF At, p
  <2>4. CASE ~(k <= st) /\ k <= st + li
    <3>1. k - 1 \in st .. st + li - 1 /\ k - 1 - st + 1 = k - st
      <4> HIDE DEF L, li, off, z, p
      <4> QED
        BY <1>1, <2>4
    <3> HIDE DEF p
    <3>2. d[p] = ins[k - 1 - st + 1]
      BY <2>1, <3>1
    <3> QED
      BY <2>2, <2>4, <3>1, <3>2
  <2>5. CASE ~(k <= st + li)
    <3> DEFINE j == k - (st + li) + tl - 1
    <3>1. /\ k - 1 \notin st .. st + li - 1 /\ k - 1 \in tl + diff .. nl - 1
          /\ off + (k - 1) - diff = off + j /\ j \in 0 .. z /\ off + j < z /\ ~(k <= st)
      BY <1>4, <2>5
    <3> HIDE DEF p, j
    <3>2. d[p] = a.data[off + (k - 1) - diff]
      BY <2>1, <3>1
    <3>3. Idx(a, j) = off + j
      BY <3>1, IdxIs
    <3>4. d[p] = At(a, j)
      BY <3>1, <3>2, <3>3 DEF At
    <3> QED
      BY <2>2, <2>5, <3>1, <3>4 DEF j
  <2> QED
    BY <2>3, <2>4, <2>5
<1> QED
  BY <1>4, <1>5, <1>6 DEF Copied

\* splice of an array as it was prepared never corrupts it; in one segment
\* with room for the new length it does not run past the buffer; and when it
\* does not, it replaces the elements from start to tail by the inserts.
LEMMA SpliceIs ==
    ASSUME NEW a, IsArray(a), NEW i \in Int, NEW c \in Int, NEW ins \in Seq(Word)
    PROVE  LET m == SpliceResult(a, i, c, ins)
               nl == SpliceLen(a, i, c, ins)
           IN  /\ nl \in Nat /\ IsArray(m.d) /\ m.status \in {"ok", "overrun"}
               /\ ~IsWrapped(a) /\ a.offset + nl <= a.size => m.status = "ok"
               /\ m.status = "ok" =>
                    Elements(m.d) = Spliced(Elements(a), SpliceStart(a, i),
                                            SpliceTail(a, i, c), ins)
<1> DEFINE st == SpliceStart(a, i)
           tl == SpliceTail(a, i, c)
           nl == SpliceLen(a, i, c, ins)
           diff == nl - a.length
           reach == SpliceReach(a, st, nl, ins)
           d == [p \in 0 .. a.size - 1 |->
                  IF p >= a.offset
                    THEN IF p - a.offset \in st .. st + Len(ins) - 1 THEN ins[p - a.offset - st + 1]
                         ELSE IF p - a.offset \in tl + diff .. nl - 1
                           THEN a.data[a.offset + (p - a.offset) - diff]
                         ELSE IF p - a.offset \in nl .. a.length - 1 THEN NULL
                         ELSE a.data[a.offset + (p - a.offset)]
                    ELSE a.data[p]]
           b == Rewrite(a, d, nl)
           m == SpliceResult(a, i, c, ins)
           s == Elements(a)
<1>1. m = IF a.offset + reach > a.size THEN [d |-> a, status |-> "overrun"]
          ELSE [status |-> "ok", d |-> b]
  BY DEF SpliceResult, Rewrite
<1> HIDE DEF m
<1>2. /\ st \in Nat /\ tl \in Nat /\ st <= tl /\ tl <= a.length /\ a.length \in Nat
  BY SpliceBounds
<1>3. Len(ins) \in Nat /\ nl = a.length + Len(ins) - (tl - st)
  BY LenProperties DEF SpliceLen
<1> HIDE DEF st, tl, nl, d
<1>4. nl \in Nat /\ diff \in Int /\ diff = nl - a.length /\ st + Len(ins) <= nl
  BY <1>2, <1>3
<1>5. ins = <<>> <=> Len(ins) = 0
  BY EmptySeq
<1>6. /\ a.offset \in Nat /\ a.size \in Nat /\ a.offset < a.size /\ a.length <= a.size
  BY ArrayType
<1>7. /\ nl > a.length => reach = nl
      /\ nl < a.length => reach = a.length
      /\ nl = a.length => reach = IF Len(ins) = 0 THEN 0 ELSE st + Len(ins)
  BY <1>2, <1>4, <1>5 DEF SpliceReach
<1> HIDE DEF reach, diff
<1>8. ~IsWrapped(a) /\ a.offset + nl <= a.size => ~(a.offset + reach > a.size)
  <2>1. ~IsWrapped(a) => a.offset + a.length <= a.size
    BY <1>2, <1>6 DEF IsWrapped
  <2>2. SUFFICES ASSUME a.offset + a.length <= a.size, a.offset + nl <= a.size
                 PROVE  a.offset + reach <= a.size /\ reach \in Nat
    BY <1>6, <2>1
  <2>3. CASE nl > a.length
    BY <1>4, <1>7, <2>2, <2>3
  <2>4. CASE nl < a.length
    BY <1>2, <1>7, <2>2, <2>4
  <2>5. CASE nl = a.length
    <3>1. reach = 0 \/ reach = st + Len(ins)
      BY <1>7, <2>5
    <3> QED
      BY <1>2, <1>3, <1>4, <1>6, <2>2, <3>1
  <2> QED
    BY <1>2, <1>4, <2>3, <2>4, <2>5
<1>9. CASE a.offset + reach > a.size
  <2>1. m = [d |-> a, status |-> "overrun"]
    BY <1>1, <1>9
  <2>2. m.d = a /\ m.status = "overrun"
    BY <2>1
  <2> QED
    BY <1>4, <1>8, <1>9, <2>2 DEF m, nl
<1>10. CASE ~(a.offset + reach > a.size)
  <2>1. m = [status |-> "ok", d |-> b]
    BY <1>1, <1>10
  <2> HIDE DEF b
  <2>2. m.d = b /\ m.status = "ok"
    BY <2>1
  <2>3. Copied(a, ins, st, tl, nl, d)
    <3>1. Moved(a, ins, st, tl, nl, diff, d)
      <4>1. d = [p \in 0 .. a.size - 1 |->
                  IF p >= a.offset
                    THEN IF p - a.offset \in st .. st + Len(ins) - 1 THEN ins[p - a.offset - st + 1]
                         ELSE IF p - a.offset \in tl + diff .. nl - 1
                           THEN a.data[a.offset + (p - a.offset) - diff]
                         ELSE IF p - a.offset \in nl .. a.length - 1 THEN NULL
                         ELSE a.data[a.offset + (p - a.offset)]
                    ELSE a.data[p]]
        BY DEF d
      <4> QED
        BY <1>2, <1>3, <1>4, <4>1 DEF Moved
    <3>2. CASE nl # a.length
      <4>1. a.offset + a.length <= a.size /\ a.offset + nl <= a.size
        BY <1>2, <1>4, <1>6, <1>7, <1>10, <3>2
      <4>2. Moves(a, ins, st, tl, nl, diff, d)
        BY <3>1, <4>1 DEF Moves
      <4> QED
        BY <4>2, SpliceCopies
    <3>3. CASE nl = a.length
      <4>1. diff = 0
        BY <1>2, <1>4, <3>3
      <4>2. reach = IF Len(ins) = 0 THEN 0 ELSE st + Len(ins)
        BY <1>7, <3>3
      <4>3. Len(ins) = 0 \/ a.offset + (st + Len(ins)) <= a.size
        BY <1>2, <1>3, <1>6, <1>10, <4>2
      <4>4. Stays(a, ins, st, tl, nl, diff, d)
        BY <3>1, <4>1, <4>3 DEF Stays
      <4> QED
        BY <4>4, SpliceStays
    <3> QED
      BY <3>2, <3>3
  <2>4. /\ IsArray(b) /\ b.length = nl
        /\ \A k : At(b, k) = d[Idx(a, k)]
    BY <2>3, Rewritten DEF b, Copied
  <2> DEFINE q == Spliced(s, st, tl, ins)
  <2>5. /\ s \in Seq(Word) /\ Len(s) = a.length
        /\ \A k \in 1 .. a.length : s[k] = At(a, k - 1)
    BY ElementsType
  <2> HIDE DEF s
  <2>6. /\ q \in Seq(Word) /\ Len(q) = st + Len(ins) + (Len(s) - tl)
        /\ \A k \in 1 .. Len(q) : q[k] = IF k <= st THEN s[k]
                                         ELSE IF k <= st + Len(ins) THEN ins[k - st]
                                         ELSE s[k - (st + Len(ins)) + tl]
    <3>1. Cut(s, st, tl)
      BY <1>2, <2>5 DEF Cut
    <3>2. s \in Seq(Word)
      BY <2>5
    <3> QED
      BY <3>1, <3>2, SpliceList
  <2> HIDE DEF q
  <2>7. Len(q) = nl
    BY <1>2, <1>3, <2>5, <2>6
  <2>8. ASSUME NEW k \in 1 .. nl PROVE q[k] = At(b, k - 1)
    <3>1. At(b, k - 1) = IF k <= st THEN At(a, k - 1)
                         ELSE IF k <= st + Len(ins) THEN ins[k - st]
                         ELSE At(a, k - (st + Len(ins)) + tl - 1)
      BY <2>3, <2>4 DEF Copied
    <3>2. q[k] = IF k <= st THEN s[k]
                 ELSE IF k <= st + Len(ins) THEN ins[k - st]
                 ELSE s[k - (st + Len(ins)) + tl]
      BY <2>6, <2>7
    <3>3. CASE k <= st
      <4>1. k \in 1 .. a.length /\ k - 1 \in 0 .. a.length - 1
        BY <1>2, <1>4, <3>3
      <4> QED
        BY <2>5, <3>1, <3>2, <3>3, <4>1
    <3>4. CASE ~(k <= st) /\ k <= st + Len(ins)
      BY <3>1, <3>2, <3>4
    <3>5. CASE ~(k <= st + Len(ins))
      <4> DEFINE j == k - (st + Len(ins)) + tl
      <4>1. j \in 1 .. a.length /\ j - 1 \in 0 .. a.length - 1 /\ ~(k <= st)
        BY <1>2, <1>3, <1>4, <3>5
      <4>2. At(b, k - 1) = At(a, j - 1)
        <5>1. ~(k <= st)
          BY <4>1
        <5>2. At(b, k - 1) = At(a, k - (st + Len(ins)) + tl - 1)
          BY <3>1, <3>5, <5>1, Zenon
        <5>3. k - (st + Len(ins)) + tl - 1 = j - 1
          BY <1>2, <1>3, <1>4
        <5> HIDE DEF j
        <5> QED
          BY <5>2, <5>3
      <4>3. q[k] = s[j]
        BY <3>2, <3>5, <4>1
      <4> HIDE DEF j
      <4> QED
        BY <2>5, <4>1, <4>2, <4>3
    <3> QED
      BY <3>3, <3>4, <3>5
  <2>9. Elements(b) = q
    BY <2>4, <2>6, <2>7, <2>8, ElementsAre
  <2> QED
    BY <1>4, <2>2, <2>4, <2>9 DEF m, nl, q, s, st, tl
<1> QED
  BY <1>9, <1>10

-----------------------------------------------------------------------------
(* Counting references *)

\* The positions of e in a list.
Places(s, e) == {i \in DOMAIN s : s[i] = e}

\* A list holds e a finite number of times.
LEMMA InSeqType ==
    ASSUME NEW s \in Seq(Word), NEW e
    PROVE  /\ InSeq(s, e) = Cardinality(Places(s, e)) /\ InSeq(s, e) \in Nat
           /\ IsFiniteSet(Places(s, e)) /\ Places(s, e) \subseteq 1 .. Len(s)
<1>1. DOMAIN s = 1 .. Len(s) /\ Len(s) \in Nat
  BY LenProperties
<1>2. IsFiniteSet(1 .. Len(s))
  BY <1>1, FS_Interval
<1>3. Places(s, e) \in SUBSET (1 .. Len(s))
  BY <1>1 DEF Places
<1>4. IsFiniteSet(Places(s, e)) /\ Cardinality(Places(s, e)) \in Nat
  BY <1>2, <1>3, FS_Subset, FS_CardinalityType
<1> QED
  BY <1>3, <1>4 DEF InSeq, Places

\* The lists of ci_inc and ci_dec that have one entry or none.
LEMMA InSeqFew ==
    ASSUME NEW v, NEW e
    PROVE  InSeq(<<>>, e) = 0 /\ InSeq(<<v>>, e) = One(v = e)
<1>1. {i \in DOMAIN <<>> : <<>>[i] = e} = {}
  OBVIOUS
<1>2. {i \in DOMAIN <<v>> : <<v>>[i] = e} = IF v = e THEN {1} ELSE {}
  OBVIOUS
<1> QED
  BY <1>1, <1>2, FS_EmptySet, FS_Singleton DEF InSeq, One

\* What two lists hold, one after the other.
LEMMA InSeqConcat ==
    ASSUME NEW s \in Seq(Word), NEW t \in Seq(Word), NEW e
    PROVE  InSeq(s \o t, e) = InSeq(s, e) + InSeq(t, e)
<1> DEFINE q == s \o t
           n == Len(s)
           A == Places(s, e)
           B == Places(t, e)
           C == {n + j : j \in B}
           f == [j \in B |-> n + j]
<1>1. /\ q \in Seq(Word) /\ Len(q) = n + Len(t) /\ n \in Nat /\ Len(t) \in Nat
      /\ \A i \in 1 .. n + Len(t) : q[i] = IF i <= n THEN s[i] ELSE t[i - n]
  BY ConcatProperties, LenProperties
<1> HIDE DEF q
<1>2. /\ DOMAIN q = 1 .. n + Len(t) /\ DOMAIN s = 1 .. n /\ DOMAIN t = 1 .. Len(t)
  BY <1>1, LenProperties
<1>3. /\ InSeq(s, e) = Cardinality(A) /\ Cardinality(A) \in Nat /\ IsFiniteSet(A)
      /\ InSeq(t, e) = Cardinality(B) /\ Cardinality(B) \in Nat /\ IsFiniteSet(B)
      /\ A \subseteq 1 .. n /\ B \subseteq 1 .. Len(t)
      /\ InSeq(q, e) = Cardinality(Places(q, e))
  BY <1>1, InSeqType
<1>4. Places(q, e) = A \cup C
  <2>1. ASSUME NEW i \in A PROVE i \in Places(q, e)
    <3>1. i \in 1 .. n /\ s[i] = e /\ i \in 1 .. n + Len(t) /\ i <= n
      BY <1>1, <1>2 DEF Places
    <3> QED
      BY <1>1, <1>2, <3>1 DEF Places
  <2>2. ASSUME NEW j \in B PROVE n + j \in Places(q, e)
    <3>1. j \in 1 .. Len(t) /\ t[j] = e
      BY <1>2 DEF Places
    <3>2. n + j \in 1 .. n + Len(t) /\ ~(n + j <= n) /\ (n + j) - n = j
      BY <1>1, <3>1
    <3>3. q[n + j] = t[(n + j) - n]
      BY <1>1, <3>2
    <3> QED
      BY <1>2, <3>1, <3>2, <3>3 DEF Places
  <2>3. ASSUME NEW i \in Places(q, e) PROVE i \in A \cup C
    <3>1. i \in 1 .. n + Len(t) /\ q[i] = e
      BY <1>2 DEF Places
    <3>2. CASE i <= n
      BY <1>1, <1>2, <3>1, <3>2 DEF Places
    <3>3. CASE ~(i <= n)
      <4>1. i - n \in 1 .. Len(t) /\ n + (i - n) = i
        BY <1>1, <3>1, <3>3
      <4>2. i - n \in B
        BY <1>1, <1>2, <3>1, <3>3, <4>1 DEF Places
      <4> QED
        BY <4>1, <4>2
    <3> QED
      BY <3>2, <3>3
  <2> QED
    BY <2>1, <2>2, <2>3
<1> HIDE DEF A, B
<1>5. Cardinality(C) = Cardinality(B) /\ IsFiniteSet(C)
  <2>1. f \in [B -> C]
    OBVIOUS
  <2>2. \A x, y \in B : f[x] = f[y] => x = y
    BY <1>1, <1>3
  <2>3. \A c \in C : \E x \in B : f[x] = c
    OBVIOUS
  <2>4. IsFiniteSet(1 .. n + Len(t))
    BY <1>1, FS_Interval
  <2>5. C \in SUBSET (1 .. n + Len(t))
    BY <1>1, <1>3
  <2>6. IsFiniteSet(C)
    BY <2>4, <2>5, FS_Subset
  <2> HIDE DEF f, C
  <2> QED
    BY <1>3, <2>1, <2>2, <2>3, <2>6, SameSize
<1>6. A \cap C = {}
  BY <1>1, <1>3
<1> HIDE DEF C
<1>7. Cardinality(A \cup C) = Cardinality(A) + Cardinality(C) - Cardinality({})
  BY <1>3, <1>5, <1>6, FS_Union
<1> QED
  BY <1>3, <1>4, <1>5, <1>7, FS_EmptySet DEF q

\* An object occurs in an array as often as in the list of its elements.
LEMMA OccursInSeq ==
    ASSUME NEW a, IsArray(a), NEW e
    PROVE  /\ Occurs(a, e) = Count(a, e) /\ Occurs(a, e) \in Nat
           /\ Occurs(a, e) = InSeq(Elements(a), e)
<1> DEFINE s == Elements(a)
           n == a.length
           B == Places(s, e)
           A == Hits(a, e)
           f == [i \in A |-> i + 1]
<1>1. /\ s \in Seq(Word) /\ Len(s) = n /\ DOMAIN s = 1 .. n /\ n \in Nat
      /\ \A k \in 1 .. n : s[k] = At(a, k - 1)
  BY ElementsType, ArrayType
<1> HIDE DEF s
<1>2. InSeq(s, e) = Cardinality(B)
  BY <1>1, InSeqType
<1>3. IsFiniteSet(A) /\ Cardinality(A) \in Nat
  BY HitsFinite
<1>4. f \in [A -> B]
  <2> SUFFICES ASSUME NEW i \in A PROVE i + 1 \in B
    OBVIOUS
  <2>1. i \in 0 .. n - 1 /\ At(a, i) = e
    BY DEF Hits
  <2>2. i + 1 \in 1 .. n /\ (i + 1) - 1 = i
    BY <1>1, <2>1
  <2> QED
    BY <1>1, <2>1, <2>2 DEF Places
<1>5. \A x, y \in A : f[x] = f[y] => x = y
  BY <1>1 DEF Hits
<1>6. \A k \in B : \E x \in A : f[x] = k
  <2> SUFFICES ASSUME NEW k \in B PROVE \E x \in A : f[x] = k
    OBVIOUS
  <2>1. k \in 1 .. n /\ At(a, k - 1) = e
    BY <1>1 DEF Places
  <2>2. k - 1 \in 0 .. n - 1 /\ (k - 1) + 1 = k
    BY <1>1, <2>1
  <2>3. k - 1 \in A
    BY <2>1, <2>2 DEF Hits
  <2> QED
    BY <2>2, <2>3
<1> HIDE DEF A, B, f
<1>7. Cardinality(B) = Cardinality(A)
  BY <1>3, <1>4, <1>5, <1>6, SameSize
<1>8. Occurs(a, e) = Cardinality(A)
  BY DEF Occurs, A, Hits
<1> QED
  BY <1>2, <1>3, <1>7, <1>8 DEF s, A, Count

\* What a spliced list holds.
LEMMA InSpliced ==
    ASSUME NEW s \in Seq(Word), NEW ins \in Seq(Word), NEW st, NEW tl, Cut(s, st, tl), NEW e
    PROVE  InSeq(Spliced(s, st, tl, ins), e)
              = InSeq(SubSeq(s, 1, st), e) + InSeq(ins, e) + InSeq(SubSeq(s, tl + 1, Len(s)), e)
<1> DEFINE x == SubSeq(s, 1, st)
           y == SubSeq(s, tl + 1, Len(s))
           u == x \o ins
<1>1. Len(s) \in Nat /\ st \in Nat /\ tl \in Nat /\ st <= tl /\ tl <= Len(s)
  BY LenProperties DEF Cut
<1>2. x \in Seq(Word)
  <2>1. \A k \in 1 .. st : s[k] \in Word
    BY <1>1, ElementOfSeq
  <2> QED
    BY <1>1, <2>1, SubSeqProperties
<1>3. y \in Seq(Word)
  <2>1. \A k \in tl + 1 .. Len(s) : s[k] \in Word
    BY <1>1, ElementOfSeq
  <2> QED
    BY <1>1, <2>1, SubSeqProperties
<1> HIDE DEF x, y
<1>4. u \in Seq(Word) /\ InSeq(u, e) = InSeq(x, e) + InSeq(ins, e)
  BY <1>2, ConcatProperties, InSeqConcat
<1> HIDE DEF u
<1>5. InSeq(u \o y, e) = InSeq(u, e) + InSeq(y, e)
  BY <1>3, <1>4, InSeqConcat
<1> QED
  BY <1>4, <1>5 DEF Spliced, u, x, y

\* The elements of the part that is cut out, put back, give the list itself.
LEMMA SplicedBack ==
    ASSUME NEW s \in Seq(Word), NEW st, NEW tl, Cut(s, st, tl)
    PROVE  /\ SubSeq(s, st + 1, tl) \in Seq(Word)
           /\ Spliced(s, st, tl, SubSeq(s, st + 1, tl)) = s
<1> DEFINE r == SubSeq(s, st + 1, tl)
           q == Spliced(s, st, tl, r)
<1>1. Len(s) \in Nat /\ st \in Nat /\ tl \in Nat /\ st <= tl /\ tl <= Len(s)
  BY LenProperties DEF Cut
<1>2. r \in Seq(Word) /\ Len(r) = tl - st /\ \A k \in 1 .. tl - st : r[k] = s[st + k]
  <2>1. \A k \in st + 1 .. tl : s[k] \in Word
    BY <1>1, ElementOfSeq
  <2> QED
    BY <1>1, <2>1, SubSeqProperties
<1> HIDE DEF r
<1>3. /\ q \in Seq(Word) /\ Len(q) = st + Len(r) + (Len(s) - tl)
      /\ \A k \in 1 .. Len(q) : q[k] = IF k <= st THEN s[k]
                                       ELSE IF k <= st + Len(r) THEN r[k - st]
                                       ELSE s[k - (st + Len(r)) + tl]
  <2>1. r \in Seq(Word)
    BY <1>2
  <2> QED
    BY <2>1, SpliceList
<1> HIDE DEF q
<1>4. Len(q) = Len(s)
  BY <1>1, <1>2, <1>3
<1>5. ASSUME NEW k \in 1 .. Len(s) PROVE q[k] = s[k]
  <2>1. CASE k <= st
    BY <1>3, <1>4, <2>1
  <2>2. CASE ~(k <= st) /\ k <= tl
    <3>1. k - st \in 1 .. tl - st /\ st + (k - st) = k /\ k <= st + Len(r)
      BY <1>1, <1>2, <2>2
    <3> QED
      BY <1>2, <1>3, <1>4, <2>2, <3>1
  <2>3. CASE ~(k <= tl)
    <3>1. ~(k <= st) /\ ~(k <= st + Len(r)) /\ k - (st + Len(r)) + tl = k
      BY <1>1, <1>2, <2>3
    <3> QED
      BY <1>3, <1>4, <3>1
  <2> QED
    BY <2>1, <2>2, <2>3
<1>6. q = s
  BY <1>3, <1>4, <1>5, SeqEqual
<1> QED
  BY <1>2, <1>6 DEF q, r

-----------------------------------------------------------------------------
(* One lemma per method: the array stays well-formed and the counts exact *)

\* What a step keeps: the array is well-formed, and if the counts were exact
\* before the step they are after it.
Sound == IsArray(arr) /\ lost \in [Elem -> Nat]
Kept == Sound' /\ (RefBalance => RefBalance')

\* Only a step without memory leaves the buffer or fails an assertion.
Inside == status \in {"overrun", "aborted"} => oom

\* Counted, at one object.
LEMMA CountedIs ==
    ASSUME NEW incs, NEW decs, Counted(incs, decs), NEW e \in Elem
    PROVE  cnt'[e] = cnt[e] + InSeq(incs, e) - InSeq(decs, e)
BY DEF Counted

\* A rearranged array owns what it owned.
LEMMA OccursSame ==
    ASSUME NEW a, IsArray(a), NEW b, Same(a, b), NEW e
    PROVE  Occurs(b, e) = Occurs(a, e) /\ Count(b, e) = Count(a, e)
BY SameHits, OccursInSeq DEF Same, Count

\* A step that leaves array, counts and losses as they were, or rearranges.
LEMMA SameKept ==
    ASSUME Sound, Same(arr, arr'), cnt' = cnt, lost' = lost
    PROVE  Kept
<1>1. Sound'
  BY DEF Sound, Same
<1>2. ASSUME RefBalance, NEW e \in Elem PROVE cnt'[e] = Occurs(arr', e) + lost'[e]
  BY <1>2, OccursSame DEF RefBalance, Sound
<1> QED
  BY <1>1, <1>2 DEF Kept, RefBalance

\* push and unshift retain what they store; without memory they retain it and
\* store nothing.
LEMMA PushKept ==
    ASSUME Sound, NEW v \in Ptr, Push(v) \/ Unshift(v)
    PROVE  Kept /\ status' = "ok"
<1>1. PICK r \in EnsureSpace(arr, 1) :
         /\ arr' = IF r[1] THEN PushTail(r[2], v) ELSE r[2]
         /\ lost' = [e \in Elem |-> lost[e] + (IF ~r[1] /\ e = v THEN 1 ELSE 0)]
         /\ Counted(<<v>>, <<>>)
         /\ status' = "ok"
      \/ /\ arr' = IF r[1] THEN PushHead(r[2], v) ELSE r[2]
         /\ lost' = [e \in Elem |-> lost[e] + (IF ~r[1] /\ e = v THEN 1 ELSE 0)]
         /\ Counted(<<v>>, <<>>)
         /\ status' = "ok"
  BY DEF Push, Unshift, Adding, Running
<1> DEFINE a == r[2]
<1>2. /\ r[1] \in BOOLEAN /\ Same(arr, a) /\ (r[1] => arr.length + 1 <= a.size)
  BY SpaceMade DEF Sound
<1>3. /\ IsArray(a) /\ v \in Word /\ a.length = arr.length /\ arr.length \in Nat
  BY <1>2, ArrayType DEF Same, Word, Sound
<1>4. r[1] => a.length < a.size
  BY <1>2, <1>3, ArrayType
<1>5. /\ r[1] => arr' = PushTail(a, v) \/ arr' = PushHead(a, v)
      /\ ~r[1] => arr' = a
      /\ \A e \in Elem : lost'[e] = lost[e] + (IF ~r[1] /\ e = v THEN 1 ELSE 0)
      /\ Counted(<<v>>, <<>>) /\ status' = "ok"
  BY <1>1
<1>6. lost' \in [Elem -> Nat]
  BY <1>1 DEF Sound
<1> HIDE DEF a
<1>7. IsArray(arr')
  BY <1>2, <1>3, <1>4, <1>5, PushTailIs, PushHeadIs
<1>8. ASSUME RefBalance, NEW e \in Elem PROVE cnt'[e] = Occurs(arr', e) + lost'[e]
  <2>1. /\ cnt[e] = Occurs(arr, e) + lost[e] /\ Occurs(arr, e) \in Nat /\ lost[e] \in Nat
    BY <1>8, OccursInSeq DEF RefBalance, Sound
  <2>2. Count(a, e) = Occurs(arr, e)
    BY <1>2, OccursSame, OccursInSeq DEF Sound
  <2>3. r[1] => Count(arr', e) = Count(a, e) + One(v = e)
    BY <1>3, <1>4, <1>5, CountPushed
  <2>4. Occurs(arr', e) = Count(arr', e)
    BY <1>7, OccursInSeq
  <2>5. InSeq(<<>>, e) = 0 /\ InSeq(<<v>>, e) = One(v = e)
    BY InSeqFew
  <2>6. cnt'[e] = cnt[e] + InSeq(<<v>>, e) - InSeq(<<>>, e)
    BY <1>5, CountedIs
  <2>7. lost'[e] = lost[e] + (IF ~r[1] /\ e = v THEN 1 ELSE 0)
    BY <1>5
  <2>8. CASE r[1]
    BY <2>1, <2>2, <2>3, <2>4, <2>5, <2>6, <2>7, <2>8 DEF One
  <2>9. CASE ~r[1]
    <3>1. Count(arr', e) = Count(a, e)
      BY <1>5, <2>9
    <3> QED
      BY <2>1, <2>2, <2>4, <2>5, <2>6, <2>7, <2>9, <3>1 DEF One
  <2> QED
    BY <2>8, <2>9
<1> QED
  BY <1>5, <1>6, <1>7, <1>8 DEF Kept, RefBalance, Sound

\* pop and shift hand their reference over.
LEMMA PopKept ==
    ASSUME Sound, Pop \/ Shift
    PROVE  Kept /\ status' = "ok"
<1> DEFINE n == arr.length
<1>1. /\ n > 0 /\ status' = "ok" /\ lost' = lost /\ IsArray(arr)
      /\ \/ arr' = PopTail(arr) /\ Counted(<<>>, <<At(arr, n - 1)>>)
         \/ arr' = PopHead(arr) /\ Counted(<<>>, <<At(arr, 0)>>)
  BY DEF Pop, Shift, Plain, Running, Sound
<1>2. IsArray(arr') /\ n \in Nat
  BY <1>1, PopTailIs, PopHeadIs, ArrayType
<1>3. ASSUME NEW e PROVE /\ Count(arr, e) = Count(PopTail(arr), e) + One(At(arr, n - 1) = e)
                         /\ Count(arr, e) = Count(PopHead(arr), e) + One(At(arr, 0) = e)
  <2> DEFINE b == PopTail(arr)
  <2>1. /\ IsArray(b) /\ b.length = n - 1 /\ \A i \in 0 .. n - 1 : At(b, i) = At(arr, i)
    BY <1>1, PopTailIs
  <2>2. At(b, b.length) = At(arr, n - 1)
    <3> HIDE DEF b
    <3>1. n - 1 \in 0 .. n - 1
      BY <1>1, <1>2
    <3> QED
      BY <2>1, <3>1
  <2>3. At(arr, 0) = arr.data[arr.offset]
    BY <1>1, PopHeadIs
  <2> QED
    BY <1>1, <2>2, <2>3, CountPopped
<1>4. ASSUME RefBalance, NEW e \in Elem PROVE cnt'[e] = Occurs(arr', e) + lost'[e]
  <2>1. /\ cnt[e] = Occurs(arr, e) + lost[e] /\ lost[e] \in Nat /\ lost'[e] = lost[e]
        /\ Occurs(arr, e) \in Nat /\ Occurs(arr, e) = Count(arr, e)
        /\ Occurs(arr', e) \in Nat /\ Occurs(arr', e) = Count(arr', e)
    BY <1>1, <1>2, <1>4, OccursInSeq DEF RefBalance, Sound
  <2>2. ASSUME NEW v, Count(arr, e) = Count(arr', e) + One(v = e), Counted(<<>>, <<v>>)
        PROVE  cnt'[e] = Occurs(arr', e) + lost'[e]
    <3>1. InSeq(<<>>, e) = 0 /\ InSeq(<<v>>, e) = One(v = e)
      BY InSeqFew
    <3>2. cnt'[e] = cnt[e] + InSeq(<<>>, e) - InSeq(<<v>>, e)
      BY <2>2, CountedIs
    <3> QED
      BY <2>1, <2>2, <3>1, <3>2 DEF One
  <2> QED
    BY <1>1, <1>3, <2>2
<1> QED
  BY <1>1, <1>2, <1>4 DEF Kept, RefBalance, Sound

\* set and the ARRAYSTORE opcode retain the new value and release the old one,
\* beyond the end of the array too; without memory they end the process.
LEMMA SetKept ==
    ASSUME Sound, NEW idx \in Int, NEW v \in Ptr, SetMethod(idx, v)
    PROVE  Kept /\ Inside'
<1> DEFINE i == WrapIndex(arr, idx)
           n == arr.length
<1>1. PICK r \in EnsureSpace(arr, i + 1 - n) :
         LET a == IF i >= n THEN ExtendTo(r[2], i + 1) ELSE arr
         IN  /\ oom' = ~r[1]
             /\ IF r[1]
                  THEN /\ arr' = SetAt(a, i, v)
                       /\ Counted(<<v>>, <<At(a, i)>>)
                       /\ UNCHANGED <<lost, status>>
                  ELSE /\ status' = "aborted"
                       /\ arr' = r[2]
                       /\ UNCHANGED <<cnt, lost>>
  BY DEF SetMethod
<1> DEFINE a == IF i >= n THEN ExtendTo(r[2], i + 1) ELSE arr
<1>2. status = "ok" /\ n \in Nat /\ i \in Nat /\ v \in Word /\ IsArray(arr)
  BY ArrayType DEF WrapIndex, Word, SetMethod, Sound
<1> HIDE DEF i
<1> DEFINE k == i + 1 - n
           g == r[2]
<1>3. /\ r[1] \in BOOLEAN /\ Same(arr, g) /\ (r[1] => n + k <= g.size)
      /\ k \in Int /\ n + k = i + 1
  <2>1. k \in Int /\ n + k = i + 1
    BY <1>2
  <2> HIDE DEF k
  <2>2. r \in EnsureSpace(arr, k)
    BY DEF k
  <2> QED
    BY <1>2, <2>1, <2>2, SpaceMade
<1>4. ASSUME ~r[1] PROVE Kept /\ Inside'
  <2>1. arr' = g /\ cnt' = cnt /\ lost' = lost /\ oom'
    BY <1>1, <1>3, <1>4
  <2> HIDE DEF g
  <2> QED
    BY <1>3, <2>1, SameKept DEF Inside
<1>5. SUFFICES ASSUME r[1] PROVE Kept /\ Inside'
  BY <1>3, <1>4
<1>6. /\ arr' = SetAt(a, i, v) /\ Counted(<<v>>, <<At(a, i)>>)
      /\ lost' = lost /\ status' = "ok"
  BY <1>1, <1>2, <1>5
<1>7. /\ IsArray(a) /\ i \in 0 .. a.length - 1
      /\ \A e \in Elem : Count(a, e) = Count(arr, e)
  <2>1. CASE i >= n
    <3>1. a = ExtendTo(g, i + 1)
      BY <2>1
    <3> HIDE DEF k, g, a
    <3>2. Same(arr, g) /\ i + 1 <= g.size
      BY <1>3, <1>5
    <3>3. IsArray(g) /\ g.length < i + 1 /\ i + 1 <= g.size /\ i + 1 \in Nat
      BY <1>2, <2>1, <3>2 DEF Same
    <3>4. IsArray(a) /\ a.length = i + 1
      BY <3>1, <3>3, ExtendToIs
    <3>5. \A e \in Elem : Count(a, e) = Count(g, e)
      BY <3>1, <3>3, CountExtended
    <3>6. \A e \in Elem : Count(g, e) = Count(arr, e)
      BY <1>2, <3>2, OccursSame
    <3> QED
      BY <1>2, <3>4, <3>5, <3>6
  <2>2. CASE ~(i >= n)
    BY <1>2, <2>2
  <2> QED
    BY <2>1, <2>2
<1> HIDE DEF a
<1>8. IsArray(arr')
  BY <1>2, <1>6, <1>7, SetAtIs
<1>9. ASSUME RefBalance, NEW e \in Elem PROVE cnt'[e] = Occurs(arr', e) + lost'[e]
  <2>1. /\ cnt[e] = Occurs(arr, e) + lost[e] /\ lost[e] \in Nat /\ lost'[e] = lost[e]
        /\ Occurs(arr, e) \in Nat /\ Occurs(arr, e) = Count(arr, e)
        /\ Occurs(arr', e) = Count(arr', e)
    BY <1>2, <1>6, <1>8, <1>9, OccursInSeq DEF RefBalance, Sound
  <2>2. Count(arr', e) = Count(a, e) + One(v = e) - One(At(a, i) = e)
    BY <1>2, <1>6, <1>7, CountSet
  <2>3. InSeq(<<At(a, i)>>, e) = One(At(a, i) = e) /\ InSeq(<<v>>, e) = One(v = e)
    BY InSeqFew
  <2>4. cnt'[e] = cnt[e] + InSeq(<<v>>, e) - InSeq(<<At(a, i)>>, e)
    BY <1>6, CountedIs
  <2>5. Count(a, e) = Count(arr, e)
    BY <1>7
  <2> QED
    BY <2>1, <2>2, <2>3, <2>4, <2>5 DEF One
<1> QED
  BY <1>6, <1>8, <1>9 DEF Kept, RefBalance, Sound, Inside

\* size releases the elements it cuts off.
LEMMA SizeKept ==
    ASSUME Sound, NEW n \in Nat, SizeMethod(n)
    PROVE  Kept /\ status' = "ok"
<1> DEFINE L == arr.length
           s == Elements(arr)
           r == SubSeq(s, n + 1, L)
<1>1. L \in Nat /\ status' = "ok" /\ lost' = lost /\ IsArray(arr)
  BY ArrayType DEF SizeMethod, Reserve, Plain, Running, Sound
<1>2. CASE n > L
  <2>1. PICK p \in EnsureSpace(arr, n - L) : arr' = p[2]
    BY <1>1, <1>2 DEF SizeMethod, Reserve
  <2>2. n - L \in Int /\ cnt' = cnt
    BY <1>1, <1>2 DEF SizeMethod, Reserve
  <2>3. Same(arr, arr')
    BY <1>1, <2>1, <2>2, SpaceMade
  <2> QED
    BY <1>1, <2>2, <2>3, SameKept
<1>3. CASE ~(n > L)
  <2>1. arr' = [arr EXCEPT !.length = n] /\ Counted(<<>>, r)
    BY <1>1, <1>3 DEF SizeMethod
  <2>2. /\ Shaped(arr) /\ arr.size \in Nat \ {0} /\ L \in 0 .. arr.size
        /\ arr.offset \in 0 .. arr.size - 1
        /\ arr.data \in [0 .. arr.size - 1 -> Word] /\ arr.small \in BOOLEAN
    BY <1>1, ArrayType
  <2>3. /\ arr'.size = arr.size /\ arr'.offset = arr.offset /\ arr'.length = n
        /\ arr'.data = arr.data /\ arr'.small = arr.small
    BY <2>1 DEF IsArray, ArrayRec
  <2>4. Shaped(arr') /\ n \in 0 .. arr.size
    <3>1. Shaped([arr EXCEPT !.length = n])
      BY <2>2, ShapeKept
    <3>2. n \in 0 .. arr.size
      BY <1>1, <1>3, <2>2
    <3> QED
      BY <2>1, <3>1, <3>2
  <2>5. IsArray(arr')
    BY <2>2, <2>3, <2>4, WellFormed
  <2>6. \A i : At(arr', i) = At(arr, i)
    BY <2>3 DEF At, Idx
  <2>7. Elements(arr') = SubSeq(s, 1, n)
    <3>1. n \in 0 .. L /\ 0 \in 0 .. L /\ arr'.length = (IF n <= 0 THEN 0 ELSE n - 0)
      BY <1>1, <1>3, <2>3
    <3>2. \A i \in 0 .. arr'.length - 1 : At(arr', i) = At(arr, 0 + i)
      BY <2>3, <2>6
    <3>3. Elements(arr') = SubSeq(s, 0 + 1, n)
      BY <1>1, <2>5, <3>1, <3>2, ElementsSub
    <3> QED
      BY <3>3
  <2>8. s \in Seq(Word) /\ Len(s) = L
    BY <1>1, ElementsType
  <2> HIDE DEF s
  <2>9. Cut(s, n, L)
    BY <1>1, <1>3, <2>8 DEF Cut
  <2>10. r \in Seq(Word) /\ Spliced(s, n, L, r) = s
    BY <2>8, <2>9, SplicedBack
  <2> HIDE DEF r
  <2>11. SubSeq(s, L + 1, Len(s)) = <<>>
    <3>1. Len(SubSeq(s, L + 1, Len(s))) = 0 /\ SubSeq(s, L + 1, Len(s)) \in Seq(Word)
      <4>1. \A k \in L + 1 .. Len(s) : s[k] \in Word
        BY <1>1, <2>8
      <4> QED
        BY <1>1, <2>8, <4>1, SubSeqProperties
    <3> QED
      BY <3>1, EmptySeq
  <2>12. ASSUME RefBalance, NEW e \in Elem PROVE cnt'[e] = Occurs(arr', e) + lost'[e]
    <3>1. /\ cnt[e] = Occurs(arr, e) + lost[e] /\ lost[e] \in Nat /\ lost'[e] = lost[e]
          /\ Occurs(arr, e) = InSeq(s, e)
          /\ Occurs(arr', e) \in Nat /\ Occurs(arr', e) = InSeq(SubSeq(s, 1, n), e)
      BY <1>1, <2>5, <2>7, <2>12, OccursInSeq DEF RefBalance, Sound, s
    <3>2. InSeq(s, e) = InSeq(SubSeq(s, 1, n), e) + InSeq(r, e) + InSeq(SubSeq(s, L + 1, Len(s)), e)
      BY <2>8, <2>9, <2>10, InSpliced
    <3>3. InSeq(<<>>, e) = 0 /\ InSeq(r, e) \in Nat
      BY <2>10, InSeqFew, InSeqType
    <3>4. cnt'[e] = cnt[e] + InSeq(<<>>, e) - InSeq(r, e)
      BY <2>1, CountedIs
    <3>5. InSeq(SubSeq(s, L + 1, Len(s)), e) = 0
      BY <2>11, <3>3
    <3>6. cnt[e] = InSeq(s, e) + lost[e] /\ InSeq(s, e) = Occurs(arr', e) + InSeq(r, e) + 0
      BY <3>1, <3>2, <3>5
    <3>7. cnt'[e] = cnt[e] + 0 - InSeq(r, e)
      BY <3>3, <3>4
    <3> QED
      BY <3>1, <3>3, <3>6, <3>7
  <2> QED
    BY <1>1, <2>5, <2>12 DEF Kept, RefBalance, Sound
<1> QED
  BY <1>2, <1>3

\* clear releases everything, in both segments; reverse releases nothing.
LEMMA ClearKept ==
    ASSUME Sound, ClearMethod \/ ReverseMethod
    PROVE  Kept /\ status' = "ok"
<1>1. status' = "ok" /\ arr.length \in Nat /\ lost' = lost /\ IsArray(arr)
  BY ArrayType DEF ClearMethod, ReverseMethod, Plain, Running, Sound
<1>2. CASE ClearMethod
  <2>1. arr' = Clear(arr) /\ \A e \in Elem : cnt'[e] = cnt[e] - InSlots(arr, DecSlots(arr), e)
    BY <1>2 DEF ClearMethod
  <2>2. IsArray(arr') /\ arr'.length = 0
    BY <1>1, <2>1, ClearIs
  <2>3. ASSUME RefBalance, NEW e \in Elem PROVE cnt'[e] = Occurs(arr', e) + lost'[e]
    <3>1. /\ cnt[e] = Occurs(arr, e) + lost[e] /\ lost[e] \in Nat /\ lost'[e] = lost[e]
          /\ Occurs(arr, e) \in Nat /\ Occurs(arr, e) = Count(arr, e)
          /\ Occurs(arr', e) = Count(arr', e)
      BY <1>1, <2>2, <2>3, OccursInSeq DEF RefBalance, Sound
    <3>2. InSlots(arr, DecSlots(arr), e) = Count(arr, e)
      BY <1>1, DecsAreHits DEF InSlots, Count
    <3>3. Hits(arr', e) = {}
      BY <2>2 DEF Hits
    <3>4. Count(arr', e) = 0
      BY <3>3, FS_EmptySet DEF Count
    <3> QED
      BY <2>1, <3>1, <3>2, <3>4
  <2> QED
    BY <1>1, <2>2, <2>3 DEF Kept, RefBalance, Sound
<1>3. CASE ReverseMethod
  <2>1. arr' \in {arr, Reversed(arr)} /\ cnt' = cnt
    BY <1>3 DEF ReverseMethod
  <2>2. IsArray(arr')
    BY <1>1, <2>1, ReversedIs
  <2>3. ASSUME RefBalance, NEW e \in Elem PROVE cnt'[e] = Occurs(arr', e) + lost'[e]
    BY <1>1, <2>1, <2>2, <2>3, OccursInSeq, CountReversed DEF RefBalance
  <2> QED
    BY <1>1, <2>2, <2>3 DEF Kept, RefBalance, Sound
<1> QED
  BY <1>2, <1>3

\* Without self-merges, the arguments of a merge are arrays other than the
\* receiver.
LEMMA ArgsAre ==
    ASSUME ~SelfMerge, NEW args \in MergeArgs
    PROVE  \E n \in Nat \ {0} : args \in [1 .. n -> Operands]
<1>1. PICK n \in 1 .. MaxArgs : args \in [1 .. n -> Operands]
  BY DEF MergeArgs
<1> QED
  BY <1>1, BoundAssumption

\* The slots behind the elements that were there, in an array that starts at
\* slot 0.
LEMMA CountTail ==
    ASSUME NEW a, IsArray(a), NEW b, IsArray(b), b.offset = 0, a.length <= b.length,
           \A i \in 0 .. a.length - 1 : At(b, i) = At(a, i), NEW e
    PROVE  Count(b, e) = Count(a, e) + InSlots(b, a.length .. b.length - 1, e)
<1> DEFINE k == a.length
           n == b.length
           T == {p \in k .. n - 1 : b.data[p] = e}
<1>1. k \in Nat /\ n \in Nat /\ n <= b.size /\ b.size \in Nat \ {0} /\ k <= n
  BY ArrayType
<1>2. \A i \in 0 .. n - 1 : At(b, i) = b.data[i]
  <2> SUFFICES ASSUME NEW i \in 0 .. n - 1 PROVE Idx(b, i) = i
    BY DEF At
  <2>1. i \in 0 .. b.size /\ b.offset + i < b.size
    BY <1>1
  <2> QED
    BY <2>1, IdxIs
<1>3. Hits(b, e) = Hits(a, e) \cup T
  BY <1>1, <1>2 DEF Hits
<1>4. Hits(a, e) \cap T = {}
  BY <1>1 DEF Hits
<1>5. IsFiniteSet(Hits(a, e)) /\ Cardinality(Hits(a, e)) \in Nat
  BY HitsFinite
<1>6. IsFiniteSet(T) /\ Cardinality(T) \in Nat
  <2>1. IsFiniteSet(k .. n - 1)
    <3>1. k \in Int /\ n - 1 \in Int
      BY <1>1
    <3> HIDE DEF k, n
    <3> QED
      BY <3>1, FS_Interval
  <2>2. T \in SUBSET (k .. n - 1)
    OBVIOUS
  <2> QED
    BY <2>1, <2>2, FS_Subset, FS_CardinalityType
<1>7. InSlots(b, k .. n - 1, e) = Cardinality(T)
  BY DEF InSlots
<1> HIDE DEF T
<1>8. Cardinality(Hits(a, e) \cup T) = Cardinality(Hits(a, e)) + Cardinality(T) - Cardinality({})
  BY <1>4, <1>5, <1>6, FS_Union
<1> QED
  BY <1>3, <1>5, <1>6, <1>7, <1>8, FS_EmptySet DEF Count

\* The receiver of a merge, prepared: room was made, or a malloc failed.
LEMMA MergePreparedIs ==
    ASSUME NEW a, IsArray(a), NEW args, MergeTotal(a, args) \in Nat,
           NEW p \in MergePrepared(a, args)
    PROVE  /\ p[1] \in BOOLEAN /\ Same(a, p[2]) /\ (p[2] = a \/ p[2].offset = 0)
           /\ p[1] => a.length + MergeTotal(a, args) <= p[2].size
<1> DEFINE T == MergeTotal(a, args)
<1>1. CASE T = 0
  <2>1. p = <<TRUE, a>>
    BY <1>1 DEF MergePrepared
  <2>2. a.length + T <= a.size
    BY <1>1, ArrayType
  <2> QED
    BY <2>1, <2>2, SameItself
<1>2. CASE T # 0
  <2>1. p \in Prepared(a, T) /\ T \in Int
    BY <1>2 DEF MergePrepared
  <2> HIDE DEF T
  <2> QED
    BY <2>1, PreparedIs DEF T
<1> QED
  BY <1>1, <1>2

\* merge leaves the buffer only when a malloc failed.  It retains what it
\* copies when the array it copies into starts at slot 0: a receiver that did,
\* or one that had to grow.
LEMMA MergeKept ==
    ASSUME ~SelfMerge, Sound, NEW args \in MergeArgs, Merge(args)
    PROVE  Sound' /\ Inside' /\ (~ShiftedCalls => Kept)
<1>1. PICK n \in Nat \ {0} : args \in [1 .. n -> Operands]
  BY ArgsAre
<1>2. PICK p \in MergePrepared(arr, args) :
         LET m == MergeResult(arr, p[2], args)
         IN  /\ oom' = ~p[1]
             /\ status' = m.status
             /\ IF m.status = "ok"
                  THEN /\ arr' = m.d
                       /\ cnt' = [e \in Elem |->
                                    cnt[e] + InSlots(m.d, m.start .. m.d.length - 1, e)]
                  ELSE UNCHANGED <<arr, cnt>>
  BY DEF Merge
<1> DEFINE m == MergeResult(arr, p[2], args)
           T == MergeTotal(arr, args)
           q == [i \in 1 .. n |-> Elements(args[i])]
           x == FlattenSeq(q)
           s == Elements(arr)
           t == Elements(arr')
<1>3. /\ IsArray(arr) /\ lost' = lost /\ MergeCalled(args)
      /\ arr.length \in Nat /\ arr.size \in Nat
  BY ArrayType DEF Merge, Sound
<1>4. T \in Nat
  BY <1>1, <1>3, SameItself, MergeIs
<1>5. /\ p[1] \in BOOLEAN /\ Same(arr, p[2]) /\ (p[2] = arr \/ p[2].offset = 0)
      /\ p[1] => arr.length + T <= p[2].size
  BY <1>3, <1>4, MergePreparedIs
<1>6. /\ m.status \in {"ok", "overrun"}
      /\ m.status = "ok" <=> arr.length + T <= p[2].size
      /\ m.status = "ok" =>
           /\ m.start = arr.length /\ IsArray(m.d)
           /\ m.d.offset = p[2].offset /\ m.d.length = arr.length + T
           /\ Elements(m.d) = s \o x
  BY <1>1, <1>3, <1>5, MergeIs
<1>7. /\ oom' = ~p[1] /\ status' = m.status
      /\ m.status = "ok" =>
           /\ arr' = m.d
           /\ cnt' = [e \in Elem |-> cnt[e] + InSlots(m.d, m.start .. m.d.length - 1, e)]
      /\ m.status # "ok" => arr' = arr /\ cnt' = cnt
  BY <1>2
<1>8. x \in Seq(Word)
  <2>1. q \in [1 .. n -> Seq(Word)]
    BY <1>1, OperandAssumption, ElementsType
  <2> HIDE DEF q
  <2>2. PICK flat : /\ \A i \in 0 .. n : flat[i] \in Seq(Word)
                    /\ FlattenSeq(q) = flat[n]
    BY <2>1, FlattenIs
  <2> QED
    BY <2>2
<1>9. ~ShiftedCalls /\ arr.offset # 0 => ~(T + arr.length <= arr.size)
  BY <1>3 DEF MergeCalled
<1> HIDE DEF m, T, x, s, t
<1>10. Sound'
  BY <1>3, <1>6, <1>7 DEF Sound
<1>11. Inside'
  BY <1>5, <1>6, <1>7 DEF Inside
<1>12. ASSUME m.status # "ok" PROVE Kept
  BY <1>3, <1>7, <1>12, SameItself, SameKept
<1>13. ASSUME ~ShiftedCalls, m.status = "ok", RefBalance, NEW e \in Elem
       PROVE  cnt'[e] = Occurs(arr', e) + lost'[e]
  <2>1. /\ IsArray(arr') /\ arr'.offset = p[2].offset /\ arr'.length = arr.length + T
        /\ t = s \o x
        /\ cnt'[e] = cnt[e] + InSlots(arr', arr.length .. arr'.length - 1, e)
    BY <1>6, <1>7, <1>13 DEF t
  <2>2. arr'.offset = 0
    <3>1. CASE p[2].offset = 0
      BY <2>1, <3>1
    <3>2. CASE p[2] = arr
      <4>1. T + arr.length <= arr.size
        BY <1>3, <1>4, <1>6, <1>13, <3>2
      <4> QED
        BY <1>9, <1>13, <2>1, <3>2, <4>1
    <3> QED
      BY <1>5, <3>1, <3>2
  <2>3. /\ s \in Seq(Word) /\ Len(s) = arr.length
        /\ \A k \in 1 .. arr.length : s[k] = At(arr, k - 1)
    BY <1>3, ElementsType DEF s
  <2>4. /\ Len(t) = arr'.length
        /\ \A k \in 1 .. arr'.length : t[k] = At(arr', k - 1)
    BY <2>1, ElementsType DEF t
  <2>5. \A k \in 1 .. Len(s) : (s \o x)[k] = s[k]
    BY <1>8, <2>3, ConcatProperties, LenProperties
  <2>6. \A i \in 0 .. arr.length - 1 : At(arr', i) = At(arr, i)
    <3> SUFFICES ASSUME NEW i \in 0 .. arr.length - 1 PROVE At(arr', i) = At(arr, i)
      OBVIOUS
    <3>1. i + 1 \in 1 .. arr.length /\ i + 1 \in 1 .. arr'.length /\ (i + 1) - 1 = i
      BY <1>3, <1>4, <2>1
    <3>2. t[i + 1] = s[i + 1]
      BY <2>1, <2>3, <2>5, <3>1
    <3> QED
      BY <2>3, <2>4, <3>1, <3>2
  <2>7. arr.length <= arr'.length
    BY <1>3, <1>4, <2>1
  <2>8. Count(arr', e) = Count(arr, e) + InSlots(arr', arr.length .. arr'.length - 1, e)
    BY <1>3, <2>1, <2>2, <2>6, <2>7, CountTail
  <2>9. /\ cnt[e] = Occurs(arr, e) + lost[e] /\ lost[e] \in Nat /\ lost'[e] = lost[e]
        /\ Occurs(arr, e) \in Nat /\ Occurs(arr, e) = Count(arr, e)
        /\ Occurs(arr', e) \in Nat /\ Occurs(arr', e) = Count(arr', e)
    BY <1>3, <1>13, <2>1, OccursInSeq DEF RefBalance, Sound
  <2> DEFINE y == InSlots(arr', arr.length .. arr'.length - 1, e)
  <2>10. cnt'[e] = cnt[e] + y /\ Occurs(arr', e) = Occurs(arr, e) + y
    BY <2>1, <2>8, <2>9
  <2>11. y \in Int
    <3> DEFINE S == arr.length .. arr'.length - 1
               P == {j \in S : arr'.data[j] = e}
    <3>1. IsFiniteSet(S)
      <4>1. arr.length \in Int /\ arr'.length - 1 \in Int
        BY <1>3, <1>4, <2>1
      <4> QED
        BY <4>1, FS_Interval
    <3>2. P \in SUBSET S /\ y = Cardinality(P)
      BY DEF InSlots
    <3> HIDE DEF S, P, y
    <3>3. IsFiniteSet(P)
      BY <3>1, <3>2, FS_Subset
    <3> QED
      BY <3>2, <3>3, FS_CardinalityType
  <2> HIDE DEF y
  <2> QED
    BY <2>9, <2>10, <2>11
<1> QED
  BY <1>10, <1>11, <1>12, <1>13 DEF Kept, RefBalance

\* The inserts of a splice are the elements of an array.
LEMMA InsertsAre ==
    ASSUME NEW ins \in Inserts
    PROVE  ins \in Seq(Word)
BY OperandAssumption, ElementsType DEF Inserts

\* The indices of a splice depend on the length alone, which making room keeps.
LEMMA SpliceSame ==
    ASSUME NEW a, NEW b, b.length = a.length, NEW i, NEW c, NEW ins
    PROVE  /\ SpliceStart(b, i) = SpliceStart(a, i)
           /\ SpliceTail(b, i, c) = SpliceTail(a, i, c)
           /\ SpliceLen(b, i, c, ins) = SpliceLen(a, i, c, ins)
BY DEF SpliceStart, SpliceTail, SpliceLen

\* The receiver of a splice, prepared, and what the splice makes of it.
LEMMA SplicePreparedIs ==
    ASSUME NEW a, IsArray(a), NEW i \in Int, NEW c \in Int, NEW ins \in Seq(Word),
           NEW p \in SplicePrepared(a, i, c, ins)
    PROVE  LET m == SpliceResult(p[2], i, c, ins)
               nl == SpliceLen(a, i, c, ins)
           IN  /\ p[1] \in BOOLEAN /\ (p[2] = a \/ p[2].offset = 0)
               /\ p[1] => nl <= p[2].size /\ ~IsWrapped(p[2])
               /\ ~IsWrapped(p[2]) /\ p[2].offset + nl <= p[2].size => m.status = "ok"
               /\ nl \in Nat /\ IsArray(p[2])
               /\ IsArray(m.d) /\ m.status \in {"ok", "overrun"}
               /\ m.status = "ok" =>
                    Elements(m.d) = Spliced(Elements(a), SpliceStart(a, i),
                                            SpliceTail(a, i, c), ins)
<1> DEFINE m == SpliceResult(p[2], i, c, ins)
           nl == SpliceLen(a, i, c, ins)
<1>1. nl \in Nat /\ a.length \in Nat
  BY SpliceIs, ArrayType
<1>2. nl - a.length \in Int /\ p \in Prepared(a, nl - a.length)
  BY <1>1 DEF SplicePrepared
<1>3. /\ p[1] \in BOOLEAN /\ Same(a, p[2]) /\ (p[2] = a \/ p[2].offset = 0)
      /\ p[1] => a.length + (nl - a.length) <= p[2].size /\ ~IsWrapped(p[2])
  <2> HIDE DEF nl
  <2> DEFINE k == nl - a.length
  <2>1. k \in Int /\ p \in Prepared(a, k)
    BY <1>2
  <2> HIDE DEF k
  <2>2. /\ p[1] \in BOOLEAN /\ Same(a, p[2]) /\ (p[2] = a \/ p[2].offset = 0)
        /\ p[1] => a.length + k <= p[2].size /\ ~IsWrapped(p[2])
    BY <2>1, PreparedIs
  <2> QED
    BY <2>2 DEF k
<1>4. /\ IsArray(p[2]) /\ p[2].length = a.length /\ Elements(p[2]) = Elements(a)
  BY <1>3, ElementsSame DEF Same
<1>5. /\ SpliceStart(p[2], i) = SpliceStart(a, i)
      /\ SpliceTail(p[2], i, c) = SpliceTail(a, i, c)
      /\ SpliceLen(p[2], i, c, ins) = nl
  BY <1>4, SpliceSame
<1>6. /\ IsArray(m.d) /\ m.status \in {"ok", "overrun"}
      /\ ~IsWrapped(p[2]) /\ p[2].offset + SpliceLen(p[2], i, c, ins) <= p[2].size
           => m.status = "ok"
      /\ m.status = "ok" =>
           Elements(m.d) = Spliced(Elements(p[2]), SpliceStart(p[2], i),
                                   SpliceTail(p[2], i, c), ins)
  BY <1>4, SpliceIs
<1> HIDE DEF m, nl
<1>7. p[1] => nl <= p[2].size
  <2>1. a.length + (nl - a.length) = nl
    BY <1>1
  <2> QED
    BY <1>3, <2>1
<1> QED
  BY <1>1, <1>3, <1>4, <1>5, <1>6, <1>7 DEF m, nl

\* splice retains the inserts and releases the elements it replaces, whichever
\* malloc fails.  It leaves the buffer only when one fails, or when the room
\* is in front of the elements.
LEMMA SpliceKept ==
    ASSUME Sound, NEW i \in Int, NEW c \in Int, NEW ins \in Inserts, Splice(i, c, ins)
    PROVE  Kept /\ (~ShiftedCalls => Inside')
<1> DEFINE s == Elements(arr)
           st == SpliceStart(arr, i)
           tl == SpliceTail(arr, i, c)
           nl == SpliceLen(arr, i, c, ins)
           r == SubSeq(s, st + 1, tl)
<1>1. ins \in Seq(Word)
  BY InsertsAre
<1>2. PICK p \in SplicePrepared(arr, i, c, ins) :
         LET m == SpliceResult(p[2], i, c, ins)
         IN  /\ oom' = ~p[1]
             /\ status' = m.status
             /\ IF m.status = "ok" THEN arr' = m.d /\ Counted(ins, r) ELSE UNCHANGED <<arr, cnt>>
  BY DEF Splice
<1> DEFINE m == SpliceResult(p[2], i, c, ins)
<1>3. IsArray(arr) /\ lost' = lost /\ (Cramped(nl) => ShiftedCalls)
  BY DEF Sound, Splice, SpliceCalled
<1>4. /\ p[1] \in BOOLEAN /\ (p[2] = arr \/ p[2].offset = 0)
      /\ p[1] => nl <= p[2].size /\ ~IsWrapped(p[2])
      /\ ~IsWrapped(p[2]) /\ p[2].offset + nl <= p[2].size => m.status = "ok"
      /\ nl \in Nat /\ IsArray(p[2])
      /\ IsArray(m.d) /\ m.status \in {"ok", "overrun"}
      /\ m.status = "ok" => Elements(m.d) = Spliced(s, st, tl, ins)
  BY <1>1, <1>3, SplicePreparedIs
<1>5. /\ oom' = ~p[1] /\ status' = m.status
      /\ m.status = "ok" => arr' = m.d /\ Counted(ins, r)
      /\ m.status # "ok" => arr' = arr /\ cnt' = cnt
  BY <1>2
<1>6. s \in Seq(Word) /\ Len(s) = arr.length
  BY <1>3, ElementsType
<1>7. Cut(s, st, tl)
  BY <1>3, <1>6, SpliceBounds DEF Cut
<1> HIDE DEF m, s, st, tl, nl
<1>8. ASSUME ~ShiftedCalls, p[1] PROVE m.status = "ok"
  <2>1. CASE p[2].offset = 0
    <3>1. p[2].size \in Nat /\ p[2].offset + nl = nl
      <4>1. p[2].size \in Nat
        BY <1>4, ArrayType
      <4> QED
        BY <1>4, <2>1, <4>1
    <3> QED
      BY <1>4, <1>8, <3>1
  <2>2. CASE p[2] = arr
    <3>1. ~(arr.offset + nl > arr.size)
      BY <1>3, <1>4, <1>8, <2>2 DEF Cramped
    <3>2. arr.offset \in Nat /\ arr.size \in Nat
      BY <1>3, ArrayType
    <3>3. arr.offset + nl <= arr.size
      BY <1>4, <3>1, <3>2
    <3> QED
      BY <1>4, <1>8, <2>2, <3>3
  <2> QED
    BY <1>4, <2>1, <2>2
<1>9. ~ShiftedCalls => Inside'
  BY <1>4, <1>5, <1>8 DEF Inside
<1>10. ASSUME m.status # "ok" PROVE Kept
  BY <1>3, <1>5, <1>10, SameItself, SameKept
<1>11. ASSUME m.status = "ok", RefBalance, NEW e \in Elem
       PROVE  cnt'[e] = Occurs(arr', e) + lost'[e]
  <2>1. /\ IsArray(arr') /\ Elements(arr') = Spliced(s, st, tl, ins) /\ Counted(ins, r)
    BY <1>4, <1>5, <1>11
  <2>2. /\ cnt[e] = Occurs(arr, e) + lost[e] /\ lost[e] \in Nat /\ lost'[e] = lost[e]
        /\ Occurs(arr, e) = InSeq(s, e) /\ Occurs(arr', e) = InSeq(Elements(arr'), e)
    BY <1>3, <1>11, <2>1, OccursInSeq DEF RefBalance, Sound, s
  <2>3. r \in Seq(Word) /\ Spliced(s, st, tl, r) = s
    BY <1>6, <1>7, SplicedBack
  <2> HIDE DEF r
  <2> DEFINE x == InSeq(SubSeq(s, 1, st), e)
             y == InSeq(SubSeq(s, tl + 1, Len(s)), e)
  <2>4. InSeq(Spliced(s, st, tl, ins), e) = x + InSeq(ins, e) + y
    BY <1>1, <1>6, <1>7, InSpliced
  <2>5. InSeq(Spliced(s, st, tl, r), e) = x + InSeq(r, e) + y
    BY <1>6, <1>7, <2>3, InSpliced
  <2>6. x \in Nat /\ y \in Nat /\ InSeq(ins, e) \in Nat /\ InSeq(r, e) \in Nat
    <3>1. Len(s) \in Nat /\ st \in Nat /\ tl \in Nat /\ st <= tl /\ tl <= Len(s)
      BY <1>6, <1>7, LenProperties DEF Cut
    <3>2. SubSeq(s, 1, st) \in Seq(Word)
      <4>1. \A k \in 1 .. st : s[k] \in Word
        BY <1>6, <3>1, ElementOfSeq
      <4> QED
        BY <3>1, <4>1, SubSeqProperties
    <3>3. SubSeq(s, tl + 1, Len(s)) \in Seq(Word)
      <4>1. \A k \in tl + 1 .. Len(s) : s[k] \in Word
        BY <1>6, <3>1, ElementOfSeq
      <4> QED
        BY <3>1, <4>1, SubSeqProperties
    <3> QED
      BY <1>1, <2>3, <3>2, <3>3, InSeqType
  <2> HIDE DEF x, y
  <2>7. cnt'[e] = cnt[e] + InSeq(ins, e) - InSeq(r, e)
    BY <2>1, CountedIs
  <2>8. Occurs(arr, e) = x + InSeq(r, e) + y /\ Occurs(arr', e) = x + InSeq(ins, e) + y
    BY <2>1, <2>2, <2>3, <2>4, <2>5
  <2> QED
    BY <2>2, <2>6, <2>7, <2>8
<1>12. Sound'
  BY <1>3, <1>4, <1>5 DEF Sound
<1> QED
  BY <1>9, <1>10, <1>11, <1>12 DEF Kept, RefBalance

-----------------------------------------------------------------------------
(* The theorems *)

\* The indices and counts a script passes are integers.
LEMMA ScriptInts ==
    /\ Index \subseteq Int /\ -1 .. MaxLen \subseteq Int
    /\ 0 .. MaxLen \subseteq Nat /\ 1 .. MaxLen \subseteq Nat
BY BoundAssumption DEF Index

\* A new array is well-formed and owns nothing.
LEMMA InitKept == Init => Sound /\ RefBalance /\ Inside
<1> SUFFICES ASSUME Init PROVE Sound /\ RefBalance /\ Inside
  OBVIOUS
<1>1. PICK n \in 1 .. MaxLen : arr = NewArray(n)
  BY DEF Init
<1>2. n \in Nat
  BY ScriptInts
<1>3. IsArray(arr) /\ arr.length = 0
  BY <1>1, <1>2, NewArrayIs
<1>4. ASSUME NEW e \in Elem PROVE cnt[e] = Occurs(arr, e) + lost[e]
  <2>1. {i \in 0 .. arr.length - 1 : At(arr, i) = e} = {}
    BY <1>3
  <2>2. Occurs(arr, e) = 0
    BY <2>1, FS_EmptySet DEF Occurs
  <2> QED
    BY <2>2 DEF Init
<1> QED
  BY <1>3, <1>4 DEF Init, RefBalance, Sound, Inside

\* Every method leaves a well-formed array, whichever malloc fails.  Those that
\* ShiftedCalls does not exclude also keep the counts, and leave the buffer or
\* fail an assertion only when a malloc failed.
LEMMA StepKept ==
    ASSUME ~SelfMerge, Sound, [Next]_vars
    PROVE  Sound' /\ (~ShiftedCalls => Kept /\ (Inside => Inside'))
<1> DEFINE Goal == Sound' /\ (~ShiftedCalls => Kept /\ (Inside => Inside'))
<1>1. ASSUME Kept, ~ShiftedCalls => (Inside => Inside') PROVE Goal
  BY <1>1 DEF Kept
<1>2. ASSUME Kept, status' = "ok" PROVE Goal
  BY <1>1, <1>2 DEF Inside
<1>3. ASSUME NEW v \in Ptr, Push(v) \/ Unshift(v) PROVE Goal
  BY <1>2, <1>3, PushKept
<1>4. CASE Pop \/ Shift
  BY <1>2, <1>4, PopKept
<1>5. CASE ClearMethod \/ ReverseMethod
  BY <1>2, <1>5, ClearKept
<1>6. ASSUME NEW i \in Index, NEW v \in Ptr, SetMethod(i, v) PROVE Goal
  BY <1>1, <1>6, ScriptInts, SetKept
<1>7. ASSUME NEW n \in 0 .. MaxLen, SizeMethod(n) PROVE Goal
  BY <1>2, <1>7, ScriptInts, SizeKept
<1>8. ASSUME NEW args \in MergeArgs, Merge(args) PROVE Goal
  <2>1. Sound' /\ Inside' /\ (~ShiftedCalls => Kept)
    BY <1>8, MergeKept
  <2> QED
    BY <2>1
<1>9. ASSUME NEW i \in Index, NEW c \in -1 .. MaxLen, NEW ins \in Inserts, Splice(i, c, ins)
      PROVE  Goal
  <2>1. i \in Int /\ c \in Int
    BY ScriptInts
  <2> QED
    BY <1>1, <1>9, <2>1, SpliceKept
<1>10. CASE UNCHANGED vars
  <2>1. Sound'
    BY <1>10 DEF vars, Sound
  <2>2. RefBalance => RefBalance'
    BY <1>10 DEF vars, RefBalance, Occurs, At, Idx
  <2>3. Inside => Inside'
    BY <1>10 DEF vars, Inside
  <2> QED
    BY <2>1, <2>2, <2>3 DEF Kept
<1> QED
  BY <1>3, <1>4, <1>5, <1>6, <1>7, <1>8, <1>9, <1>10 DEF Next

\* The receiver stays a well-formed circular buffer through every sequence of
\* methods, those on a shifted array and those whose mallocs fail included, as
\* long as no array is merged into itself.
THEOREM ArrayStaysSound ==
    ASSUME ~SelfMerge
    PROVE  Spec => []IsArray(arr)
<1>1. Init => Sound
  BY InitKept
<1>2. Sound /\ [Next]_vars => Sound'
  BY StepKept
<1>3. Sound => IsArray(arr)
  BY DEF Sound
<1> QED
  BY <1>1, <1>2, <1>3, PTL DEF Spec

\* In every reachable state, whichever malloc fails, a merge that stays inside
\* the buffer appends all elements of all its arguments, in order: on the fast
\* path and on the slow one, on a wrapped, shifted, full or inline receiver,
\* and for any number of wrapped or empty arguments.
THEOREM MergeIsConcat ==
    ASSUME ~SelfMerge
    PROVE  Spec => []MergeConcatenates
<1>1. IsArray(arr) => MergeConcatenates
  <2> SUFFICES ASSUME IsArray(arr), NEW args \in MergeArgs, NEW p \in MergePrepared(arr, args),
                      MergeResult(arr, p[2], args).status = "ok"
               PROVE  Elements(MergeResult(arr, p[2], args).d) = Elements(arr) \o RefSeq(args)
    BY DEF MergeConcatenates
  <2>1. PICK n \in Nat \ {0} : args \in [1 .. n -> Operands]
    BY ArgsAre
  <2> DEFINE q == [i \in 1 .. n |-> Elements(args[i])]
  <2>2. MergeTotal(arr, args) \in Nat
    BY <2>1, SameItself, MergeIs
  <2>3. Same(arr, p[2])
    BY <2>2, MergePreparedIs
  <2>4. Elements(MergeResult(arr, p[2], args).d) = Elements(arr) \o FlattenSeq(q)
    BY <2>1, <2>3, MergeIs
  <2>5. [i \in DOMAIN args |->
            IF args[i] = Self THEN Elements(arr) ELSE Elements(args[i])] = q
    <3>1. DOMAIN args = 1 .. n /\ \A i \in 1 .. n : args[i] # Self
      BY <2>1, OperandAssumption
    <3> QED
      BY <3>1
  <2>6. RefSeq(args) = FlattenSeq(q)
    BY <2>5 DEF RefSeq
  <2> QED
    BY <2>4, <2>6
<1> QED
  BY <1>1, ArrayStaysSound, PTL

\* In every reachable state, whichever malloc fails, a splice that stays inside
\* the buffer replaces the selected elements by the inserts and keeps the others
\* in order.
THEOREM SpliceIsReplace ==
    ASSUME ~SelfMerge
    PROVE  Spec => []SpliceReplaces
<1>1. IsArray(arr) => SpliceReplaces
  <2> SUFFICES ASSUME IsArray(arr), NEW i \in Index, NEW k \in -1 .. MaxLen, NEW ins \in Inserts,
                      NEW p \in SplicePrepared(arr, i, k, ins),
                      SpliceResult(p[2], i, k, ins).status = "ok"
               PROVE  LET s    == Elements(arr)
                          from == Clamp(i, 0, Len(s))
                          upto == Clamp(from + (IF k < 0 THEN 0 ELSE k), from, Len(s))
                      IN  Elements(SpliceResult(p[2], i, k, ins).d)
                             = SubSeq(s, 1, from) \o ins \o SubSeq(s, upto + 1, Len(s))
    BY DEF SpliceReplaces
  <2> DEFINE s == Elements(arr)
  <2>1. i \in Int /\ k \in Int /\ ins \in Seq(Word)
    BY ScriptInts, InsertsAre
  <2>2. Elements(SpliceResult(p[2], i, k, ins).d)
          = Spliced(s, SpliceStart(arr, i), SpliceTail(arr, i, k), ins)
    BY <2>1, SplicePreparedIs
  <2>3. Len(s) = arr.length
    BY ElementsType
  <2>4. /\ SpliceStart(arr, i) = Clamp(i, 0, arr.length)
        /\ SpliceTail(arr, i, k) = Clamp(SpliceStart(arr, i) + (IF k < 0 THEN 0 ELSE k),
                                         SpliceStart(arr, i), arr.length)
    BY <2>1, SpliceBounds
  <2> HIDE DEF s
  <2> QED
    BY <2>2, <2>3, <2>4 DEF Spliced, s
<1> QED
  BY <1>1, ArrayStaysSound, PTL

\* The inductive invariant of the last two theorems.
Inv == Sound /\ RefBalance /\ Inside

\* Without the calls that ShiftedCalls and SelfMerge stand for, Inv is inductive.
LEMMA InvKept ==
    ASSUME ~SelfMerge, ~ShiftedCalls
    PROVE  Spec => []Inv
<1>1. Init => Inv
  BY InitKept DEF Inv
<1>2. Inv /\ [Next]_vars => Inv'
  BY StepKept DEF Inv, Kept
<1> QED
  BY <1>1, <1>2, PTL DEF Spec

\* As long as the script makes no merge on a shifted array that need not grow,
\* and no splice for which the room is in front of the elements, a method
\* writes past the buffer or fails an assertion only when a malloc failed.
THEOREM MethodsStayInside ==
    ASSUME ~SelfMerge, ~ShiftedCalls
    PROVE  Spec => []NoOverrun
<1>1. Inv => NoOverrun
  BY DEF Inv, NoOverrun, Sound, Inside
<1> QED
  BY <1>1, InvKept, PTL

\* Under the same condition the references the methods hold are, after every
\* method and whichever malloc fails, one per occurrence in the receiver and
\* those that a push or unshift without memory lost.
THEOREM MethodsCountExactly ==
    ASSUME ~SelfMerge, ~ShiftedCalls
    PROVE  Spec => []RefBalance
<1>1. Inv => RefBalance
  BY DEF Inv
<1> QED
  BY <1>1, InvKept, PTL
=============================================================================
