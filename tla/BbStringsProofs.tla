-------------------------- MODULE BbStringsProofs --------------------------
(***************************************************************************)
(* Proofs about BbStrings, for texts of any length, any number of strings, *)
(* any arguments and any saturation of the count.                          *)
(*                                                                         *)
(* StrInv says of the store (StoreInv) that every object is held: its      *)
(* buffer is there and reads as its text between start and end (Held);     *)
(* that owners have buffers to themselves and a slice points into the      *)
(* buffer of its parent, with no circle of parents (Shape); and that what  *)
(* refers to an object, the script, slices, captures and the work of a     *)
(* release under way, is no more than its count (Counted).  The last is    *)
(* what keeps the buffer of a string as long as a slice reads it.          *)
(*                                                                         *)
(* A method that changes s leaves a store that is the old one but for s    *)
(* and the buffer it alone points into (Own, Now); one that makes a string *)
(* leaves the old store and one object more (Made); a release goes on step *)
(* by step, each step leaving an invariant store and less work (Left).     *)
(* The loops of split, of replace and of its counting are compared round   *)
(* by round (Together).                                                    *)
(***************************************************************************)
EXTENDS BbStrings, RecursionLemmas, FiniteSetTheorems, SequenceTheorems

-----------------------------------------------------------------------------
(* Loops *)

\* A loop of n rounds: the values from b on by the rounds g.
Loop(n, b, g, f) == f = [i \in 0..n |-> IF i = 0 THEN b ELSE g[<<i, f[i - 1]>>]]

\* It has a solution, whose values are where the rounds keep them.
LEMMA LoopExists ==
  ASSUME NEW n \in Nat, NEW S, NEW b, NEW g, Recursion(n, S, b, g)
  PROVE  \E f : Loop(n, b, g, f) /\ \A i \in 0..n : f[i] \in S[i]
<1>1. PICK f : Solves(f, n, S, b, g)
  BY RecursiveExists
<1> DEFINE h == [i \in 0..n |-> f[i]]
<1>2. \A i \in 0..n : i # 0 => i \in 1..n /\ i - 1 \in 0..n
  OBVIOUS
<1>3. Loop(n, b, g, h) /\ \A i \in 0..n : h[i] \in S[i]
  BY <1>1, <1>2 DEF Solves, Loop
<1> QED
  BY <1>3

-----------------------------------------------------------------------------
(* Texts put one behind the other *)

Str == Seq(Int)

\* The loop of FlattenSeq.
Flatten(ss) == CHOOSE f : f = [i \in 1..Len(ss) |-> IF i = 1 THEN ss[i] ELSE f[i - 1] \o ss[i]]

Flattens(ss, f) ==
  /\ FlattenSeq(ss) = f[Len(ss)]
  /\ f[1] = ss[1]
  /\ \A i \in 1..Len(ss) : f[i] \in Str
  /\ \A i \in 2..Len(ss) : f[i] = f[i - 1] \o ss[i]

\* FlattenSeq goes through its list from the front.
LEMMA FlattenIs ==
  ASSUME NEW ss \in Seq(Str), Len(ss) > 0
  PROVE  Flattens(ss, Flatten(ss))
<1> DEFINE n == Len(ss) - 1
           S == [i \in 0..n |-> Str]
           g == [p \in (1..n) \X Str |-> p[2] \o ss[p[1] + 1]]
           P(f) == f = [i \in 1..Len(ss) |-> IF i = 1 THEN ss[i] ELSE f[i - 1] \o ss[i]]
<1>1. n \in Nat /\ Len(ss) \in Nat /\ \A i \in 1..Len(ss) : ss[i] \in Str
  BY LenProperties, ElementOfSeq
<1>2. \A x, y \in Str : x \o y \in Str
  BY ConcatProperties DEF Str
<1>3. Recursion(n, S, ss[1], g)
  <2>1. ss[1] \in S[0]
    BY <1>1
  <2>2. ASSUME NEW i \in 1..n, NEW s \in S[i - 1] PROVE g[<<i, s>>] \in S[i]
    <3>1. i + 1 \in 1..Len(ss) /\ i \in 0..n /\ i - 1 \in 0..n
      BY <1>1
    <3>2. s \in Str /\ ss[i + 1] \in Str
      BY <1>1, <3>1
    <3>3. g[<<i, s>>] = s \o ss[i + 1]
      BY <3>2
    <3> QED
      BY <1>2, <3>1, <3>2, <3>3
  <2> QED
    BY <2>1, <2>2 DEF Recursion
<1>4. PICK f : Loop(n, ss[1], g, f) /\ \A i \in 0..n : f[i] \in S[i]
  <2> HIDE DEF S, g, n
  <2> QED
    BY <1>1, <1>3, LoopExists
<1> DEFINE h == [i \in 1..Len(ss) |-> f[i - 1]]
<1>5. P(h)
  <2>1. f[0] = ss[1]
    BY <1>1, <1>4 DEF Loop
  <2>2. ASSUME NEW i \in 1..Len(ss), i # 1 PROVE h[i] = h[i - 1] \o ss[i]
    <3>1. i - 1 \in 1..n /\ i - 1 \in 0..n /\ i - 2 \in 0..n /\ i - 1 \in 1..Len(ss) /\ (i - 1) - 1 = i - 2 /\ (i - 1) + 1 = i /\ i - 1 # 0
      BY <1>1, <2>2
    <3>2. f[i - 1] = g[<<i - 1, f[i - 2]>>] /\ f[i - 2] \in Str
      <4> HIDE DEF g, n
      <4> QED
      BY <1>4, <3>1 DEF Loop
    <3>3. g[<<i - 1, f[i - 2]>>] = f[i - 2] \o ss[i]
      BY <3>1, <3>2
    <3> QED
      BY <3>1, <3>2, <3>3
  <2>3. h[1] = ss[1]
    BY <1>1, <2>1
  <2>4. h = [i \in 1..Len(ss) |-> h[i]]
    OBVIOUS
  <2> HIDE DEF h
  <2> QED
    BY <2>2, <2>3, <2>4
<1>6. P(Flatten(ss))
  <2> HIDE DEF h
  <2>1. \E x : P(x)
    BY <1>5
  <2>2. Flatten(ss) = CHOOSE x : P(x)
    BY DEF Flatten
  <2> HIDE DEF P
  <2> QED
    BY <2>1, <2>2, Zenon
<1>7. FlattenSeq(ss) = Flatten(ss)[Len(ss)]
  BY <1>1 DEF FlattenSeq, Flatten
<1> DEFINE F == Flatten(ss)
<1>8. /\ F[1] = ss[1]
      /\ \A i \in 2..Len(ss) : F[i] = F[i - 1] \o ss[i]
  <2> HIDE DEF F, h, g, S
  <2>1. \A i \in 1..Len(ss) : F[i] = IF i = 1 THEN ss[i] ELSE F[i - 1] \o ss[i]
    BY <1>6 DEF F
  <2>2. 1 \in 1..Len(ss) /\ \A i \in 2..Len(ss) : i \in 1..Len(ss) /\ i # 1
    BY <1>1
  <2> QED
    BY <2>1, <2>2
<1> HIDE DEF F
<1> DEFINE T == [i \in 0..n |-> Str]
           e == [i \in 0..n |-> F[i + 1]]
<1>9. \A i \in 0..n : e[i] \in T[i]
  <2>1. e[0] \in T[0]
    BY <1>1, <1>8
  <2>2. ASSUME NEW i \in 1..n, e[i - 1] \in T[i - 1] PROVE e[i] \in T[i]
    <3>1. i + 1 \in 2..Len(ss) /\ (i + 1) - 1 = i /\ i \in 0..n /\ i - 1 \in 0..n /\ (i - 1) + 1 = i /\ i + 1 \in 1..Len(ss)
      BY <1>1
    <3>2. F[i] \in Str
      BY <2>2, <3>1
    <3> QED
      BY <1>1, <1>2, <1>8, <3>1, <3>2
  <2> HIDE DEF e, T, n
  <2> QED
    BY <1>1, <2>1, <2>2, AlongInduction
<1>10. \A i \in 1..Len(ss) : F[i] \in Str
  <2> SUFFICES ASSUME NEW i \in 1..Len(ss) PROVE F[i] \in Str
    OBVIOUS
  <2>1. i - 1 \in 0..n /\ (i - 1) + 1 = i
    BY <1>1
  <2> QED
    BY <1>9, <2>1
<1> QED
  BY <1>7, <1>8, <1>10 DEF F, Flattens

\* What one needs of texts and their concatenation.
LEMMA StrIs ==
  /\ \A x \in Str : Len(x) \in Nat /\ DOMAIN x = 1..Len(x) /\ \A i \in 1..Len(x) : x[i] \in Int
  /\ \A x, y \in Str : x \o y \in Str /\ Len(x \o y) = Len(x) + Len(y)
  /\ \A x, y, z \in Str : (x \o y) \o z = x \o (y \o z)
  /\ \A x \in Str : x \o <<>> = x /\ <<>> \o x = x
  /\ <<>> \in Str /\ Len(<<>>) = 0
<1>1. \A x \in Str : Len(x) \in Nat /\ DOMAIN x = 1..Len(x) /\ \A i \in 1..Len(x) : x[i] \in Int
  BY LenProperties, ElementOfSeq DEF Str
<1>2. \A x, y \in Str : x \o y \in Str /\ Len(x \o y) = Len(x) + Len(y)
  BY ConcatProperties DEF Str
<1>3. \A x, y, z \in Str : (x \o y) \o z = x \o (y \o z)
  BY ConcatAssociative DEF Str
<1>4. \A x \in Str : x \o <<>> = x /\ <<>> \o x = x
  BY ConcatEmptySeq DEF Str
<1>5. <<>> \in Str /\ Len(<<>>) = 0
  BY EmptySeq DEF Str
<1> QED
  BY <1>1, <1>2, <1>3, <1>4, <1>5

\* One text more.
LEMMA FlattenSnoc ==
  ASSUME NEW ss \in Seq(Str), NEW x \in Str
  PROVE  FlattenSeq(ss) \in Str /\ FlattenSeq(Append(ss, x)) = FlattenSeq(ss) \o x
<1> DEFINE n == Len(ss)
           tt == Append(ss, x)
<1>1. /\ n \in Nat /\ tt \in Seq(Str) /\ Len(tt) = n + 1 /\ tt[n + 1] = x
      /\ \A i \in 1..n : tt[i] = ss[i] /\ ss[i] \in Str
  BY LenProperties, ElementOfSeq, AppendProperties
<1> HIDE DEF tt
<1>2. CASE n = 0
  <2>1. ss = <<>>
    BY <1>2, EmptySeq
  <2>2. FlattenSeq(ss) = <<>>
    BY <1>2, <2>1 DEF FlattenSeq
  <2>3. FlattenSeq(tt) = x
    <3>1. Len(tt) > 0
      BY <1>1
    <3>2. Flattens(tt, Flatten(tt))
      BY <1>1, <3>1, FlattenIs
    <3> QED
      BY <1>1, <1>2, <3>2 DEF Flattens
  <2> QED
    BY <2>2, <2>3, StrIs DEF tt
<1>3. CASE n # 0
  <2> DEFINE F == Flatten(ss)
             G == Flatten(tt)
             e == [i \in 0..n - 1 |-> G[i + 1]]
             S == [i \in 0..n - 1 |-> {F[i + 1]}]
  <2>0. Len(tt) > 0 /\ Len(ss) > 0 /\ Flattens(ss, F) /\ Flattens(tt, G)
    <3>1. Len(tt) > 0 /\ Len(ss) > 0
      BY <1>1, <1>3
    <3> QED
      BY <1>1, <3>1, FlattenIs
  <2> HIDE DEF F, G
  <2>1. /\ FlattenSeq(ss) = F[n] /\ F[1] = ss[1]
        /\ \A i \in 1..n : F[i] \in Str
        /\ \A i \in 2..n : F[i] = F[i - 1] \o ss[i]
    BY <2>0 DEF Flattens
  <2>2. /\ FlattenSeq(tt) = G[n + 1] /\ G[1] = tt[1]
        /\ \A i \in 2..n + 1 : G[i] = G[i - 1] \o tt[i]
    BY <2>0, <1>1 DEF Flattens
  <2>3. \A i \in 0..n - 1 : e[i] \in S[i]
    <3>1. e[0] \in S[0]
      BY <1>1, <1>3, <2>1, <2>2
    <3>2. ASSUME NEW i \in 1..n - 1, e[i - 1] \in S[i - 1] PROVE e[i] \in S[i]
      <4>1. i + 1 \in 2..n /\ i + 1 \in 2..n + 1 /\ (i + 1) - 1 = i /\ i \in 0..n - 1 /\ i - 1 \in 0..n - 1 /\ (i - 1) + 1 = i /\ i + 1 \in 1..n
        BY <1>1
      <4>2. G[i] = F[i]
        BY <3>2, <4>1
      <4>3. G[i + 1] = G[(i + 1) - 1] \o tt[i + 1]
        BY <2>2, <4>1
      <4>4. F[i + 1] = F[(i + 1) - 1] \o ss[i + 1]
        BY <2>1, <4>1
      <4>5. tt[i + 1] = ss[i + 1]
        BY <1>1, <4>1
      <4>6. G[i + 1] = F[i + 1]
        BY <4>1, <4>2, <4>3, <4>4, <4>5
      <4> QED
        BY <4>1, <4>6
    <3>3. n - 1 \in Nat
      BY <1>1, <1>3
    <3> HIDE DEF e, S, n
    <3> QED
      BY <3>1, <3>2, <3>3, AlongInduction
  <2>4. G[n] = F[n]
    <3>1. n - 1 \in 0..n - 1 /\ (n - 1) + 1 = n
      BY <1>1, <1>3
    <3> QED
      BY <2>3, <3>1
  <2>5. n + 1 \in 2..n + 1 /\ (n + 1) - 1 = n /\ n \in 1..n
    BY <1>1, <1>3
  <2>6. G[n + 1] = G[n] \o x
    BY <1>1, <2>2, <2>5
  <2> QED
    BY <2>1, <2>2, <2>4, <2>5, <2>6 DEF tt
<1> QED
  BY <1>2, <1>3 DEF tt

\* One piece more, and the first.
LEMMA JoinedSnoc ==
  ASSUME NEW ps \in Seq(Str), NEW p \in Str, NEW r \in Str
  PROVE  /\ Len(ps) = 0 => Joined(Append(ps, p), r) = p
         /\ Len(ps) > 0 => Joined(Append(ps, p), r) = Joined(ps, r) \o (r \o p)
         /\ Len(ps) > 0 => Joined(ps, r) \in Str
<1> DEFINE n == Len(ps)
           qs == Append(ps, p)
           B(s) == [i \in 1..Len(s) - 1 |-> r \o s[i + 1]]
<1>1. /\ n \in Nat /\ qs \in Seq(Str) /\ Len(qs) = n + 1 /\ qs[n + 1] = p /\ qs # <<>>
      /\ \A i \in 1..n : qs[i] = ps[i] /\ ps[i] \in Str
  BY LenProperties, ElementOfSeq, AppendProperties
<1> HIDE DEF qs
<1>2. CASE n = 0
  <2>1. B(qs) = <<>>
    BY <1>1, <1>2
  <2>2. Head(qs) = p
    BY <1>1, <1>2
  <2>9. Len(ps) = 0 /\ ~(Len(ps) > 0)
    BY <1>2
  <2>3. FlattenSeq(<<>>) = <<>>
    BY EmptySeq DEF FlattenSeq
  <2>4. Joined(qs, r) = p \o FlattenSeq(B(qs))
    BY <2>2 DEF Joined
  <2> HIDE DEF B
  <2> QED
    BY <2>9, <2>1, <2>3, <2>4, StrIs DEF qs
<1>3. CASE n # 0
  <2>1. B(ps) \in Seq(Str) /\ Len(B(ps)) = n - 1
    <3>1. \A i \in 1..n - 1 : r \o ps[i + 1] \in Str
      BY <1>1, StrIs
    <3> QED
      BY <1>1, <1>3, <3>1
  <2>2. B(qs) = Append(B(ps), r \o p)
    <3>1. r \o p \in Str
      BY StrIs
    <3>2. /\ Append(B(ps), r \o p) \in Seq(Str) /\ Len(Append(B(ps), r \o p)) = n
          /\ \A i \in 1..n - 1 : Append(B(ps), r \o p)[i] = B(ps)[i]
          /\ Append(B(ps), r \o p)[n] = r \o p
      <4> HIDE DEF B
      <4> QED
        BY <1>1, <2>1, <3>1, AppendProperties
    <3>3. \A i \in 1..n : r \o qs[i + 1] \in Str
      <4> SUFFICES ASSUME NEW i \in 1..n PROVE r \o qs[i + 1] \in Str
        OBVIOUS
      <4>1. i + 1 \in 1..Len(qs)
        BY <1>1
      <4> QED
        BY <1>1, <4>1, ElementOfSeq, StrIs
    <3>4. B(qs) \in Seq(Str) /\ Len(B(qs)) = n
      BY <1>1, <3>3
    <3>5. \A i \in 1..n : B(qs)[i] = Append(B(ps), r \o p)[i]
      <4> SUFFICES ASSUME NEW i \in 1..n PROVE B(qs)[i] = Append(B(ps), r \o p)[i]
        OBVIOUS
      <4>1. B(qs)[i] = r \o qs[i + 1]
        BY <1>1
      <4>2. CASE i = n
        <5>1. B(qs)[i] = r \o p
          BY <1>1, <4>1, <4>2
        <5> HIDE DEF B
        <5> QED
          BY <3>2, <4>2, <5>1
      <4>3. CASE i # n
        <5>1. i \in 1..n - 1 /\ i + 1 \in 1..n
          BY <1>1, <4>3
        <5>2. B(ps)[i] = r \o ps[i + 1]
          BY <5>1
        <5>3. qs[i + 1] = ps[i + 1]
          BY <1>1, <5>1
        <5> HIDE DEF B
        <5> QED
          BY <3>2, <4>1, <5>1, <5>2, <5>3
      <4> QED
        BY <4>2, <4>3
    <3> HIDE DEF B
    <3> QED
      BY <3>2, <3>4, <3>5, SeqEqual
  <2>3. Head(qs) = Head(ps) /\ Head(ps) \in Str
    BY <1>1, <1>3
  <2>4. Joined(qs, r) = Head(qs) \o FlattenSeq(B(qs)) /\ Joined(ps, r) = Head(ps) \o FlattenSeq(B(ps))
    BY DEF Joined
  <2> HIDE DEF B
  <2>5. r \o p \in Str
    BY StrIs
  <2>6. FlattenSeq(B(ps)) \in Str /\ FlattenSeq(B(qs)) = FlattenSeq(B(ps)) \o (r \o p)
    BY <2>1, <2>2, <2>5, FlattenSnoc
  <2>7. Joined(ps, r) \in Str /\ Joined(qs, r) = Joined(ps, r) \o (r \o p)
    <3> DEFINE a == Head(ps)
               b == FlattenSeq(B(ps))
               c == r \o p
    <3>1. a \in Str /\ b \in Str /\ c \in Str
      BY <2>3, <2>5, <2>6
    <3>2. Joined(ps, r) = a \o b /\ Joined(qs, r) = a \o (b \o c)
      BY <2>3, <2>4, <2>6
    <3> HIDE DEF a, b, c
    <3>3. a \o b \in Str /\ (a \o b) \o c = a \o (b \o c)
      BY <3>1, StrIs
    <3> QED
      BY <3>2, <3>3 DEF c
  <2> QED
    BY <1>3, <2>7 DEF qs
<1> QED
  BY <1>1, <1>2, <1>3 DEF qs

-----------------------------------------------------------------------------
(* The rounds of split and replace *)

\* A loop of n equal rounds, from b in X.
Rounds(n, X, b, g, f) ==
  /\ f = [i \in 0..n |-> IF i = 0 THEN b ELSE g[f[i - 1]]]
  /\ \A i \in 0..n : f[i] \in X

\* There is such a loop, and all it passes through is in X.
LEMMA RoundsExist ==
  ASSUME NEW n \in Nat, NEW X, NEW b \in X, NEW g, \A x \in X : g[x] \in X
  PROVE  \E f : Rounds(n, X, b, g, f)
<1> DEFINE S == [i \in 0..n |-> X]
           q == [p \in (1..n) \X X |-> g[p[2]]]
<1>1. Recursion(n, S, b, q)
  <2>1. ASSUME NEW i \in 1..n, NEW x \in S[i - 1] PROVE q[<<i, x>>] \in S[i]
    <3>1. i - 1 \in 0..n /\ i \in 0..n
      OBVIOUS
    <3> QED
      BY <3>1
  <2> QED
    BY <2>1 DEF Recursion
<1>2. PICK f : Loop(n, b, q, f) /\ \A i \in 0..n : f[i] \in S[i]
  <2> HIDE DEF S, q
  <2> QED
    BY <1>1, LoopExists
<1>3. \A i \in 0..n : f[i] \in X
  BY <1>2
<1>4. \A i \in 0..n : i # 0 => q[<<i, f[i - 1]>>] = g[f[i - 1]]
  <2> SUFFICES ASSUME NEW i \in 0..n, i # 0 PROVE q[<<i, f[i - 1]>>] = g[f[i - 1]]
    OBVIOUS
  <2>1. i \in 1..n /\ i - 1 \in 0..n
    OBVIOUS
  <2> QED
    BY <1>3, <2>1
<1>5. f = [i \in 0..n |-> IF i = 0 THEN b ELSE g[f[i - 1]]]
  <2> HIDE DEF S, q
  <2> QED
    BY <1>2, <1>4 DEF Loop
<1> QED
  BY <1>3, <1>5 DEF Rounds

Scans(O) == [at : Nat, prev : Nat, out : O]

Splits(h, d) ==
  CHOOSE f : f = [i \in 0..Len(h) |-> IF i = 0 THEN Scan(0, 0, <<>>) ELSE SplitRound(h, d, f[i - 1])]
CountLoop(h, n) ==
  CHOOSE f : f = [i \in 0..Len(h) |-> IF i = 0 THEN Scan(0, 0, 0) ELSE CountRound(h, n, f[i - 1])]
Fills(h, n, r) ==
  CHOOSE f : f = [i \in 0..Len(h) |-> IF i = 0 THEN Scan(0, 0, <<>>) ELSE FillRound(h, n, r, f[i - 1])]

\* A piece of a text is a text.
LEMMA PieceIs ==
  ASSUME NEW h \in Str, NEW i \in Nat, NEW j \in Int, j <= Len(h)
  PROVE  /\ SubSeq(h, i + 1, j) \in Str
         /\ i <= j => Len(SubSeq(h, i + 1, j)) = j - i
         /\ \A k \in 1..j - i : SubSeq(h, i + 1, j)[k] = h[i + k]
<1>1. \A k \in i + 1..j : h[k] \in Int
  BY StrIs
<1>2. /\ SubSeq(h, i + 1, j) \in Seq(Int)
      /\ Len(SubSeq(h, i + 1, j)) = IF i + 1 <= j THEN j - (i + 1) + 1 ELSE 0
      /\ \A k \in 1..j - (i + 1) + 1 : SubSeq(h, i + 1, j)[k] = h[(i + 1) + k - 1]
  BY <1>1, SubSeqProperties
<1> QED
  BY <1>2 DEF Str

Piece(h, i, j, p) ==
  p \in Str /\ (i <= j => Len(p) = j - i) /\ \A k \in 1..j - i : p[k] = h[i + k]

\* SubSeq cuts such a piece.
LEMMA PieceAt ==
  ASSUME NEW h \in Str, NEW i \in Nat, NEW j \in Int, j <= Len(h)
  PROVE  Piece(h, i, j, SubSeq(h, i + 1, j))
BY PieceIs DEF Piece

\* A round of split keeps to positions and pieces.
LEMMA SplitRoundIs ==
  ASSUME NEW h \in Str, NEW d \in Str, Len(d) > 0, NEW x \in Scans(Seq(Str))
  PROVE  SplitRound(h, d, x) \in Scans(Seq(Str))
<1>1. Len(h) \in Nat /\ Len(d) \in Nat
  BY StrIs
<1>2. x.at \in Nat /\ x.prev \in Nat /\ x.out \in Seq(Str)
  BY DEF Scans
<1>3. ASSUME x.at <= Len(h) - Len(d) PROVE Append(x.out, SubSeq(h, x.prev + 1, x.at)) \in Seq(Str)
  <2>1. SubSeq(h, x.prev + 1, x.at) \in Str
    BY <1>1, <1>2, <1>3, PieceIs
  <2> QED
    BY <1>2, <2>1, AppendProperties
<1> QED
  BY <1>1, <1>2, <1>3 DEF SplitRound, Scan, Scans

\* A round of the counting keeps to positions and counts.
LEMMA CountRoundIs ==
  ASSUME NEW h \in Str, NEW d \in Str, Len(d) > 0, NEW x \in Scans(Nat)
  PROVE  CountRound(h, d, x) \in Scans(Nat)
<1>1. Len(h) \in Nat /\ Len(d) \in Nat
  BY StrIs
<1> QED
  BY <1>1 DEF CountRound, Scan, Scans

\* A round of the filling keeps to positions and texts.
LEMMA FillRoundIs ==
  ASSUME NEW h \in Str, NEW d \in Str, Len(d) > 0, NEW r \in Str, NEW x \in Scans(Str)
  PROVE  FillRound(h, d, r, x) \in Scans(Str)
<1>1. Len(h) \in Nat /\ Len(d) \in Nat
  BY StrIs
<1>2. x.at \in Nat /\ x.prev \in Nat /\ x.out \in Str
  BY DEF Scans
<1>3. ASSUME x.at <= Len(h) - Len(d) PROVE x.out \o SubSeq(h, x.prev + 1, x.at) \o r \in Str
  <2>1. SubSeq(h, x.prev + 1, x.at) \in Str
    BY <1>1, <1>2, <1>3, PieceIs
  <2> QED
    BY <1>2, <2>1, StrIs
<1> QED
  BY <1>1, <1>2, <1>3 DEF FillRound, Scan, Scans

\* The three loops.
LEMMA SplitsAre ==
  ASSUME NEW h \in Str, NEW d \in Str, Len(d) > 0
  PROVE  /\ Splits(h, d)[0] = Scan(0, 0, <<>>)
         /\ \A i \in 1..Len(h) : Splits(h, d)[i] = SplitRound(h, d, Splits(h, d)[i - 1])
<1> DEFINE n == Len(h)
           X == Scans(Seq(Str))
           b == Scan(0, 0, <<>>)
           g == [x \in X |-> SplitRound(h, d, x)]
           P(f) == f = [i \in 0..n |-> IF i = 0 THEN b ELSE SplitRound(h, d, f[i - 1])]
<1>1. n \in Nat /\ b \in X /\ \A x \in X : g[x] \in X
  <2>1. b \in X
    BY EmptySeq DEF Scan, Scans
  <2>2. \A x \in X : SplitRound(h, d, x) \in X
    BY SplitRoundIs
  <2> QED
    BY <2>1, <2>2, StrIs
<1>2. PICK f : Rounds(n, X, b, g, f)
  <2> HIDE DEF n, X, b, g
  <2> QED
    BY <1>1, RoundsExist
<1> USE DEF Rounds
<1>3. P(f)
  <2>1. \A i \in 0..n : i # 0 => f[i - 1] \in X
    BY <1>1, <1>2
  <2> HIDE DEF n, X, b
  <2> QED
    BY <1>2, <2>1
<1>4. P(Splits(h, d))
  <2>1. Splits(h, d) = CHOOSE x : P(x)
    BY DEF Splits
  <2>2. \E x : P(x)
    BY <1>3
  <2> HIDE DEF P
  <2> QED
    BY <2>1, <2>2, Zenon
<1>5. 0 \in 0..n /\ \A i \in 1..n : i \in 0..n /\ i # 0
  BY <1>1
<1> HIDE DEF b
<1>6. \A L : P(L) => L[0] = b /\ \A i \in 1..n : L[i] = SplitRound(h, d, L[i - 1])
  BY <1>5
<1> HIDE DEF P
<1> QED
  BY <1>4, <1>6 DEF b

\* The counting goes round by round.
LEMMA CountLoopAre ==
  ASSUME NEW h \in Str, NEW d \in Str, Len(d) > 0
  PROVE  /\ CountLoop(h, d)[0] = Scan(0, 0, 0)
         /\ \A i \in 1..Len(h) : CountLoop(h, d)[i] = CountRound(h, d, CountLoop(h, d)[i - 1])
<1> DEFINE n == Len(h)
           X == Scans(Nat)
           b == Scan(0, 0, 0)
           g == [x \in X |-> CountRound(h, d, x)]
           P(f) == f = [i \in 0..n |-> IF i = 0 THEN b ELSE CountRound(h, d, f[i - 1])]
<1>1. n \in Nat /\ b \in X /\ \A x \in X : g[x] \in X
  <2>1. b \in X
    BY EmptySeq, StrIs DEF Scan, Scans
  <2>2. \A x \in X : CountRound(h, d, x) \in X
    BY CountRoundIs
  <2> QED
    BY <2>1, <2>2, StrIs
<1>2. PICK f : Rounds(n, X, b, g, f)
  <2> HIDE DEF n, X, b, g
  <2> QED
    BY <1>1, RoundsExist
<1> USE DEF Rounds
<1>3. P(f)
  <2>1. \A i \in 0..n : i # 0 => f[i - 1] \in X
    BY <1>1, <1>2
  <2> HIDE DEF n, X, b
  <2> QED
    BY <1>2, <2>1
<1>4. P(CountLoop(h, d))
  <2>1. CountLoop(h, d) = CHOOSE x : P(x)
    BY DEF CountLoop
  <2>2. \E x : P(x)
    BY <1>3
  <2> HIDE DEF P
  <2> QED
    BY <2>1, <2>2, Zenon
<1>5. 0 \in 0..n /\ \A i \in 1..n : i \in 0..n /\ i # 0
  BY <1>1
<1> HIDE DEF b
<1>6. \A L : P(L) => L[0] = b /\ \A i \in 1..n : L[i] = CountRound(h, d, L[i - 1])
  BY <1>5
<1> HIDE DEF P
<1> QED
  BY <1>4, <1>6 DEF b

\* The filling goes round by round.
LEMMA FillsAre ==
  ASSUME NEW h \in Str, NEW d \in Str, Len(d) > 0, NEW r \in Str
  PROVE  /\ Fills(h, d, r)[0] = Scan(0, 0, <<>>)
         /\ \A i \in 1..Len(h) : Fills(h, d, r)[i] = FillRound(h, d, r, Fills(h, d, r)[i - 1])
<1> DEFINE n == Len(h)
           X == Scans(Str)
           b == Scan(0, 0, <<>>)
           g == [x \in X |-> FillRound(h, d, r, x)]
           P(f) == f = [i \in 0..n |-> IF i = 0 THEN b ELSE FillRound(h, d, r, f[i - 1])]
<1>1. n \in Nat /\ b \in X /\ \A x \in X : g[x] \in X
  <2>1. b \in X
    BY EmptySeq, StrIs DEF Scan, Scans
  <2>2. \A x \in X : FillRound(h, d, r, x) \in X
    BY FillRoundIs
  <2> QED
    BY <2>1, <2>2, StrIs
<1>2. PICK f : Rounds(n, X, b, g, f)
  <2> HIDE DEF n, X, b, g
  <2> QED
    BY <1>1, RoundsExist
<1> USE DEF Rounds
<1>3. P(f)
  <2>1. \A i \in 0..n : i # 0 => f[i - 1] \in X
    BY <1>1, <1>2
  <2> HIDE DEF n, X, b
  <2> QED
    BY <1>2, <2>1
<1>4. P(Fills(h, d, r))
  <2>1. Fills(h, d, r) = CHOOSE x : P(x)
    BY DEF Fills
  <2>2. \E x : P(x)
    BY <1>3
  <2> HIDE DEF P
  <2> QED
    BY <2>1, <2>2, Zenon
<1>5. 0 \in 0..n /\ \A i \in 1..n : i \in 0..n /\ i # 0
  BY <1>1
<1> HIDE DEF b
<1>6. \A L : P(L) => L[0] = b /\ \A i \in 1..n : L[i] = FillRound(h, d, r, L[i - 1])
  BY <1>5
<1> HIDE DEF P
<1> QED
  BY <1>4, <1>6 DEF b

-----------------------------------------------------------------------------
(* Pieces of a text *)

LEMMA PieceOfPiece ==
  ASSUME NEW h \in Str, NEW i \in Nat, NEW j \in Nat, NEW k \in Nat, NEW l \in Nat,
         i <= j, j <= Len(h), k <= l, l <= j - i
  PROVE  SubSeq(SubSeq(h, i + 1, j), k + 1, l) = SubSeq(h, i + k + 1, i + l)
<1> DEFINE p == SubSeq(h, i + 1, j)
           x == SubSeq(p, k + 1, l)
           y == SubSeq(h, (i + k) + 1, i + l)
<1>1. Len(h) \in Nat /\ p \in Str /\ Len(p) = j - i /\ \A m \in 1..j - i : p[m] = h[i + m]
  BY StrIs, PieceIs
<1> HIDE DEF p
<1>2. x \in Str /\ Len(x) = l - k /\ \A m \in 1..l - k : x[m] = p[k + m]
  BY <1>1, PieceIs
<1>3. y \in Str /\ Len(y) = l - k /\ \A m \in 1..l - k : y[m] = h[(i + k) + m]
  <2>1. i + k \in Nat /\ i + l \in Int /\ i + l <= Len(h) /\ i + k <= i + l /\ (i + l) - (i + k) = l - k
    BY <1>1
  <2> HIDE DEF x
  <2> DEFINE a == i + k
             b == i + l
  <2>2. a \in Nat /\ b \in Int /\ b <= Len(h) /\ a <= b /\ b - a = l - k
    BY <2>1
  <2> HIDE DEF a, b
  <2>3. Piece(h, a, b, SubSeq(h, a + 1, b))
    BY <2>2, PieceAt
  <2>4. Piece(h, a, b, y)
    BY <2>3 DEF a, b
  <2> HIDE DEF y
  <2>5. y \in Str /\ Len(y) = l - k /\ \A m \in 1..l - k : y[m] = h[a + m]
    BY <2>2, <2>4 DEF Piece
  <2> QED
    BY <2>5 DEF a
<1> HIDE DEF x, y
<1>4. \A m \in 1..l - k : x[m] = y[m]
  <2> SUFFICES ASSUME NEW m \in 1..l - k PROVE x[m] = y[m]
    OBVIOUS
  <2>1. k + m \in 1..j - i /\ i + (k + m) = (i + k) + m
    OBVIOUS
  <2> QED
    BY <1>1, <1>2, <1>3, <2>1
<1>5. x = y
  BY <1>2, <1>3, <1>4, SeqEqual DEF Str
<1>6. (i + k) + 1 = i + k + 1
  OBVIOUS
<1> QED
  BY <1>5, <1>6 DEF x, y, p

\* Two pieces that meet make one.
LEMMA PiecesMeet ==
  ASSUME NEW h \in Str, NEW i \in Nat, NEW j \in Nat, i <= j, j <= Len(h)
  PROVE  SubSeq(h, 1, i) \o SubSeq(h, i + 1, j) = SubSeq(h, 1, j)
<1> DEFINE a == SubSeq(h, 0 + 1, i)
           b == SubSeq(h, i + 1, j)
           c == SubSeq(h, 0 + 1, j)
<1>0. Len(h) \in Nat
  BY StrIs
<1>1. a \in Str /\ Len(a) = i /\ \A m \in 1..i : a[m] = h[m]
  BY <1>0, PieceIs
<1>2. b \in Str /\ Len(b) = j - i /\ \A m \in 1..j - i : b[m] = h[i + m]
  BY <1>0, PieceIs
<1>3. c \in Str /\ Len(c) = j /\ \A m \in 1..j : c[m] = h[m]
  BY <1>0, PieceIs
<1> HIDE DEF a, b, c
<1>4. /\ a \o b \in Seq(Int) /\ Len(a \o b) = j
      /\ \A m \in 1..j : (m <= i => (a \o b)[m] = a[m]) /\ (~(m <= i) => (a \o b)[m] = b[m - i])
  <2>1. a \in Seq(Int) /\ b \in Seq(Int)
    BY <1>1, <1>2 DEF Str
  <2>2. /\ a \o b \in Seq(Int) /\ Len(a \o b) = Len(a) + Len(b)
        /\ \A m \in 1..Len(a) + Len(b) : (a \o b)[m] = IF m <= Len(a) THEN a[m] ELSE b[m - Len(a)]
    BY <2>1, ConcatProperties
  <2>3. Len(a) = i /\ Len(a) + Len(b) = j
    BY <1>1, <1>2
  <2> QED
    BY <2>2, <2>3
<1>5. \A m \in 1..j : (a \o b)[m] = c[m]
  <2> SUFFICES ASSUME NEW m \in 1..j PROVE (a \o b)[m] = c[m]
    OBVIOUS
  <2>1. CASE m <= i
    <3>1. m \in 1..i
      BY <2>1
    <3>2. (a \o b)[m] = a[m]
      BY <1>4, <2>1
    <3>3. a[m] = h[m]
      BY <1>1, <3>1
    <3>4. c[m] = h[m]
      BY <1>3
    <3> QED
      BY <3>2, <3>3, <3>4
  <2>2. CASE ~(m <= i)
    <3> DEFINE l == m - i
    <3>1. l \in 1..j - i /\ i + l = m
      BY <2>2
    <3>2. (a \o b)[m] = b[l]
      BY <1>4, <2>2
    <3> HIDE DEF l
    <3>3. b[l] = h[i + l]
      BY <1>2, <3>1
    <3>4. c[m] = h[m]
      BY <1>3
    <3> QED
      BY <3>1, <3>2, <3>3, <3>4
  <2> QED
    BY <2>1, <2>2
<1>6. a \o b = c
  BY <1>3, <1>4, <1>5, SeqEqual DEF Str
<1> QED
  BY <1>6 DEF a, b, c

\* The piece from end to end, and the empty one.
LEMMA WholePiece ==
  ASSUME NEW h \in Str
  PROVE  SubSeq(h, 1, Len(h)) = h /\ SubSeq(h, 1, 0) = <<>>
BY SubSeqFull, SubSeqEmpty DEF Str

\* Where a text does not occur before at, no piece up to there has it.
Lacks(p, d) == \A k \in Nat : ~OccursAt(p, d, k)

\* A piece in which no occurrence starts lacks the word.
LEMMA PieceLacks ==
  ASSUME NEW h \in Str, NEW d \in Str, Len(d) > 0, NEW i \in Nat, NEW j \in Nat,
         i <= j, j <= Len(h), \A m \in i..j - 1 : ~OccursAt(h, d, m)
  PROVE  Lacks(SubSeq(h, i + 1, j), d)
<1> SUFFICES ASSUME NEW k \in Nat, OccursAt(SubSeq(h, i + 1, j), d, k) PROVE FALSE
  BY DEF Lacks
<1>1. Len(d) \in Nat /\ Len(h) \in Nat /\ Len(SubSeq(h, i + 1, j)) = j - i
  BY StrIs, PieceIs
<1>2. k + Len(d) <= j - i /\ SubSeq(SubSeq(h, i + 1, j), k + 1, k + Len(d)) = d
  BY <1>1 DEF OccursAt
<1>3. k + Len(d) \in Nat /\ k <= k + Len(d)
  BY <1>1
<1>4. SubSeq(h, i + k + 1, i + (k + Len(d))) = d
  <2> DEFINE l == k + Len(d)
  <2>1. l \in Nat /\ k <= l /\ l <= j - i
    BY <1>2, <1>3
  <2>2. SubSeq(SubSeq(h, i + 1, j), k + 1, l) = d
    BY <1>2
  <2> HIDE DEF l
  <2>3. SubSeq(SubSeq(h, i + 1, j), k + 1, l) = SubSeq(h, i + k + 1, i + l)
    BY <2>1, PieceOfPiece
  <2> QED
    BY <2>2, <2>3 DEF l
<1>5. i + k \in i..j - 1 /\ i + (k + Len(d)) = (i + k) + Len(d) /\ (i + k) + Len(d) <= Len(h)
  BY <1>1, <1>2
<1>6. OccursAt(h, d, i + k)
  BY <1>4, <1>5 DEF OccursAt
<1> QED
  BY <1>5, <1>6

-----------------------------------------------------------------------------
(* split, the count and the filling go together *)

\* What the three loops have made of h after i rounds.
Together(h, d, r, i, x, y, z) ==
  /\ x \in Scans(Seq(Str)) /\ y \in Scans(Nat) /\ z \in Scans(Str)
  /\ y.at = x.at /\ z.at = x.at /\ z.prev = x.prev
  /\ x.prev <= x.at /\ x.at <= Len(h) /\ (x.at >= i \/ x.at > Len(h) - Len(d))
  /\ Len(x.out) = y.out
  /\ Len(z.out) = x.prev - y.out * Len(d) + y.out * Len(r)
  /\ y.out = 0 => x.prev = 0 /\ z.out = <<>>
  /\ y.out > 0 => z.out = Joined(x.out, r) \o r
  /\ r = d => z.out = SubSeq(h, 1, x.prev)
  /\ \A j \in 1..Len(x.out) : Lacks(x.out[j], d)
  /\ \A j \in x.prev..x.at - 1 : ~OccursAt(h, d, j)

\* Joining one more piece, before which the filling put its replacement.
Begun(ps, f, r) == (Len(ps) = 0 => f = <<>>) /\ (Len(ps) > 0 => f = Joined(ps, r) \o r)

\* What was joined so far, with the replacement behind it, and one more piece.
LEMMA JoinedOn ==
  ASSUME NEW ps \in Seq(Str), NEW f \in Str, NEW r \in Str, NEW p \in Str, Begun(ps, f, r)
  PROVE  Joined(Append(ps, p), r) = f \o p
<1> USE DEF Begun
<1>1. CASE Len(ps) = 0
  <2>1. Joined(Append(ps, p), r) = p
    BY <1>1, JoinedSnoc
  <2>2. f = <<>> /\ <<>> \o p = p
    BY <1>1, StrIs
  <2> QED
    BY <2>1, <2>2
<1>2. CASE Len(ps) > 0
  <2> DEFINE g == Joined(ps, r)
  <2>1. g \in Str /\ Joined(Append(ps, p), r) = g \o (r \o p) /\ f = g \o r
    BY <1>2, JoinedSnoc
  <2> HIDE DEF g
  <2>2. \A x, y, z \in Str : (x \o y) \o z = x \o (y \o z)
    BY Zenon, StrIs
  <2>3. (g \o r) \o p = g \o (r \o p)
    BY Zenon, <2>1, <2>2
  <2> QED
    BY <2>1, <2>3
<1>3. Len(ps) \in Nat
  BY LenProperties
<1> QED
  BY <1>1, <1>2, <1>3

\* The length after a piece and a replacement.
LEMMA LengthSum ==
  ASSUME NEW o, NEW p, NEW t \in Nat, NEW k \in Nat, NEW u \in Int, NEW v \in Int, NEW ld \in Nat, NEW lr \in Nat,
         o = k - u + v, p = t - k
  PROVE  (o + p) + lr = (t + ld) - (u + ld) + (v + lr)
OBVIOUS

\* One round of the three loops, from positions that agree to positions that agree.
LEMMA RoundStep ==
  ASSUME NEW h \in Str, NEW d \in Str, Len(d) > 0, NEW r \in Str, NEW i \in Nat \ {0},
         NEW x, NEW y, NEW z, Together(h, d, r, i - 1, x, y, z)
  PROVE  Together(h, d, r, i, SplitRound(h, d, x), CountRound(h, d, y), FillRound(h, d, r, z))
<1> DEFINE X == SplitRound(h, d, x)
           Y == CountRound(h, d, y)
           Z == FillRound(h, d, r, z)
<1>1. Len(h) \in Nat /\ Len(d) \in Nat /\ Len(r) \in Nat
  BY StrIs
<1>2. X \in Scans(Seq(Str)) /\ Y \in Scans(Nat) /\ Z \in Scans(Str)
  BY SplitRoundIs, CountRoundIs, FillRoundIs DEF Together
<1>3. /\ x.at \in Nat /\ x.prev \in Nat /\ x.out \in Seq(Str) /\ y.out \in Nat /\ z.out \in Str
      /\ y.at = x.at /\ z.at = x.at /\ z.prev = x.prev
      /\ x.prev <= x.at /\ x.at <= Len(h) /\ (x.at >= i - 1 \/ x.at > Len(h) - Len(d))
  BY DEF Together, Scans
<1>4. CASE x.at > Len(h) - Len(d)
  <2>1. X = x /\ Y = y /\ Z = z
    BY <1>3, <1>4 DEF SplitRound, CountRound, FillRound
  <2> HIDE DEF X, Y, Z
  <2>2. Together(h, d, r, i, x, y, z)
    BY <1>4 DEF Together
  <2> QED
    BY <2>1, <2>2 DEF X, Y, Z
<1>5. CASE ~(x.at > Len(h) - Len(d)) /\ ~OccursAt(h, d, x.at)
  <2>1. X = Scan(x.at + 1, x.prev, x.out) /\ Y = Scan(y.at + 1, 0, y.out) /\ Z = Scan(z.at + 1, z.prev, z.out)
    BY <1>3, <1>5 DEF SplitRound, CountRound, FillRound
  <2>2. /\ X.at = x.at + 1 /\ X.prev = x.prev /\ X.out = x.out
        /\ Y.at = x.at + 1 /\ Y.out = y.out
        /\ Z.at = x.at + 1 /\ Z.prev = x.prev /\ Z.out = z.out
    <3> HIDE DEF X, Y, Z
    <3> QED
      BY <1>3, <2>1 DEF Scan
  <2> HIDE DEF X, Y, Z
  <2>3. X.prev <= X.at /\ X.at <= Len(h) /\ (X.at >= i \/ X.at > Len(h) - Len(d))
    BY <1>1, <1>3, <1>5, <2>2
  <2>4. \A j \in X.prev..X.at - 1 : ~OccursAt(h, d, j)
    <3> SUFFICES ASSUME NEW j \in X.prev..X.at - 1 PROVE ~OccursAt(h, d, j)
      OBVIOUS
    <3>1. j = x.at \/ j \in x.prev..x.at - 1
      BY <1>3, <2>2
    <3> QED
      BY <1>5, <3>1 DEF Together
  <2>5. /\ Len(x.out) = y.out
        /\ Len(z.out) = x.prev - y.out * Len(d) + y.out * Len(r)
        /\ y.out = 0 => x.prev = 0 /\ z.out = <<>>
        /\ y.out > 0 => z.out = Joined(x.out, r) \o r
        /\ r = d => z.out = SubSeq(h, 1, x.prev)
        /\ \A j \in 1..Len(x.out) : Lacks(x.out[j], d)
    BY DEF Together
  <2>6. /\ Len(X.out) = Y.out
        /\ Len(Z.out) = X.prev - Y.out * Len(d) + Y.out * Len(r)
        /\ Y.out = 0 => X.prev = 0 /\ Z.out = <<>>
        /\ Y.out > 0 => Z.out = Joined(X.out, r) \o r
        /\ r = d => Z.out = SubSeq(h, 1, X.prev)
        /\ \A j \in 1..Len(X.out) : Lacks(X.out[j], d)
    BY <2>2, <2>5, Zenon
  <2>7. Y.at = X.at /\ Z.at = X.at /\ Z.prev = X.prev
    BY <2>2
  <2> QED
    BY <1>2, <2>3, <2>4, <2>6, <2>7, Zenon DEF Together, X, Y, Z
<1>6. CASE ~(x.at > Len(h) - Len(d)) /\ OccursAt(h, d, x.at)
  <2> DEFINE e == x.at + Len(d)
             p == SubSeq(h, x.prev + 1, x.at)
  <2>1. X = Scan(e, e, Append(x.out, p)) /\ Y = Scan(e, 0, y.out + 1) /\ Z = Scan(e, e, (z.out \o p) \o r)
    BY <1>3, <1>6 DEF SplitRound, CountRound, FillRound
  <2>2. /\ X.at = e /\ X.prev = e /\ X.out = Append(x.out, p)
        /\ Y.at = e /\ Y.out = y.out + 1
        /\ Z.at = e /\ Z.prev = e /\ Z.out = (z.out \o p) \o r
    <3> HIDE DEF X, Y, Z, e, p
    <3> QED
      BY <2>1 DEF Scan
  <2>3. /\ x.prev <= x.at /\ x.at <= Len(h) /\ x.at >= i - 1
        /\ e \in Nat /\ e <= Len(h) /\ e >= i
    BY <1>1, <1>3, <1>6
  <2>4. p \in Str /\ Len(p) = x.at - x.prev /\ Lacks(p, d)
    <3>1. p \in Str /\ Len(p) = x.at - x.prev
      BY <1>3, <2>3, PieceIs
    <3>2. \A j \in x.prev..x.at - 1 : ~OccursAt(h, d, j)
      BY DEF Together
    <3>3. Lacks(p, d)
      BY <1>3, <2>3, <3>2, PieceLacks
    <3> QED
      BY <3>1, <3>3
  <2>5. Len(x.out) = y.out /\ Len(x.out) \in Nat
    BY <1>3 DEF Together
  <2> DEFINE q == Append(x.out, p)
  <2>6. q \in Seq(Str) /\ Len(q) = y.out + 1 /\ \A j \in 1..Len(q) : Lacks(q[j], d)
    <3> HIDE DEF p
    <3>1. /\ q \in Seq(Str) /\ Len(q) = Len(x.out) + 1 /\ q[Len(x.out) + 1] = p
          /\ \A j \in 1..Len(x.out) : q[j] = x.out[j]
      BY <1>3, <2>4, AppendProperties
    <3> HIDE DEF q
    <3>2. \A j \in 1..Len(x.out) : Lacks(x.out[j], d)
      BY DEF Together
    <3>3. ASSUME NEW j \in 1..Len(q) PROVE Lacks(q[j], d)
      <4>1. CASE j = Len(x.out) + 1
        BY <2>4, <3>1, <4>1
      <4>2. CASE j # Len(x.out) + 1
        <5>1. j \in 1..Len(x.out)
          BY <2>5, <3>1, <4>2
        <5> QED
          BY <3>1, <3>2, <5>1
      <4> QED
        BY <4>1, <4>2
    <3> QED
      BY <2>5, <3>1, <3>3
  <2>7. Joined(q, r) = z.out \o p
    <3>1. Len(x.out) = 0 => z.out = <<>>
      BY <2>5 DEF Together
    <3>2. Len(x.out) > 0 => z.out = Joined(x.out, r) \o r
      BY <2>5 DEF Together
    <3>3. x.out \in Seq(Str) /\ z.out \in Str /\ p \in Str
      BY <1>3, <2>4
    <3>4. Joined(Append(x.out, p), r) = z.out \o p
      <4> DEFINE ps == x.out
                 f == z.out
      <4>1. ps \in Seq(Str) /\ f \in Str /\ p \in Str /\ (Len(ps) = 0 => f = <<>>) /\ (Len(ps) > 0 => f = Joined(ps, r) \o r)
        BY <3>1, <3>2, <3>3
      <4> HIDE DEF p, ps, f
      <4>2. Joined(Append(ps, p), r) = f \o p
        <5>1. Begun(ps, f, r)
          BY <4>1 DEF Begun
        <5> QED
          BY <4>1, <5>1, JoinedOn
      <4> QED
        BY <4>2 DEF ps, f
    <3> QED
      BY <3>4
  <2>8. Len((z.out \o p) \o r) = e - (y.out + 1) * Len(d) + (y.out + 1) * Len(r)
    <3>1. Len((z.out \o p) \o r) = (Len(z.out) + Len(p)) + Len(r)
      <4>1. z.out \in Str /\ p \in Str
        BY <1>3, <2>4
      <4> HIDE DEF p
      <4>2. z.out \o p \in Str /\ Len(z.out \o p) = Len(z.out) + Len(p)
        BY <4>1, StrIs
      <4>3. Len((z.out \o p) \o r) = Len(z.out \o p) + Len(r)
        BY <4>2, StrIs
      <4> QED
        BY <4>2, <4>3
    <3>2. Len(z.out) = x.prev - y.out * Len(d) + y.out * Len(r)
      BY DEF Together
    <3>3. (y.out + 1) * Len(d) = y.out * Len(d) + Len(d) /\ (y.out + 1) * Len(r) = y.out * Len(r) + Len(r)
      BY <1>1, <1>3
    <3>4. y.out * Len(d) \in Int /\ y.out * Len(r) \in Int
      BY <1>1, <1>3
    <3> DEFINE u == y.out * Len(d)
               v == y.out * Len(r)
    <3>5. (y.out + 1) * Len(d) = u + Len(d) /\ (y.out + 1) * Len(r) = v + Len(r) /\ Len(z.out) = x.prev - u + v /\ u \in Int /\ v \in Int
      BY <3>2, <3>3, <3>4
    <3>6. Len(p) = x.at - x.prev
      BY <2>4
    <3> DEFINE a == Len((z.out \o p) \o r)
               U == (y.out + 1) * Len(d)
               V == (y.out + 1) * Len(r)
    <3>7. a = (Len(z.out) + Len(p)) + Len(r) /\ U = u + Len(d) /\ V = v + Len(r) /\ Len(z.out) = x.prev - u + v /\ u \in Int /\ v \in Int
      BY <3>1, <3>5
    <3> HIDE DEF u, v, p, a, U, V
    <3>8. a = e - U + V
      <4>1. x.at \in Nat /\ x.prev \in Nat /\ e = x.at + Len(d) /\ Len(d) \in Nat /\ Len(r) \in Nat
        BY <1>1, <1>3
      <4> HIDE DEF e
      <4> QED
        <5> DEFINE lz == Len(z.out)
                   lp == Len(p)
                   ld == Len(d)
                   lr == Len(r)
                   t == x.at
                   k == x.prev
        <5>1. /\ t \in Nat /\ k \in Nat /\ ld \in Nat /\ lr \in Nat /\ u \in Int /\ v \in Int
              /\ lz = k - u + v /\ lp = t - k
          BY <3>6, <3>7, <4>1
        <5>2. a = (lz + lp) + lr /\ U = u + ld /\ V = v + lr /\ e = t + ld
          BY <3>7, <4>1
        <5> HIDE DEF lz, lp, ld, lr, t, k
        <5>3. (lz + lp) + lr = (t + ld) - (u + ld) + (v + lr)
          BY <5>1, LengthSum
        <5> QED
          BY <5>2, <5>3
    <3> QED
      BY <3>8 DEF a, U, V
  <2>9. r = d => (z.out \o p) \o r = SubSeq(h, 1, e)
    <3> SUFFICES ASSUME r = d PROVE (z.out \o p) \o r = SubSeq(h, 1, e)
      OBVIOUS
    <3>1. z.out = SubSeq(h, 1, x.prev)
      BY DEF Together
    <3>2. z.out \o p = SubSeq(h, 1, x.at)
      <4>1. SubSeq(h, 1, x.prev) \o SubSeq(h, x.prev + 1, x.at) = SubSeq(h, 1, x.at)
        BY <1>3, <2>3, PiecesMeet
      <4> QED
        BY <3>1, <4>1, Zenon
    <3>3. SubSeq(h, x.at + 1, e) = d
      BY <1>6 DEF OccursAt
    <3>4. SubSeq(h, 1, x.at) \o SubSeq(h, x.at + 1, e) = SubSeq(h, 1, e)
      <4>1. x.at <= e
        BY <1>1, <1>3
      <4> HIDE DEF e
      <4> QED
        BY <1>3, <2>3, <4>1, PiecesMeet
    <3> QED
      BY <3>2, <3>3, <3>4
  <2> HIDE DEF X, Y, Z, e, p, q
  <2>10. /\ Len(X.out) = Y.out
         /\ Len(Z.out) = X.prev - Y.out * Len(d) + Y.out * Len(r)
         /\ Y.out = 0 => X.prev = 0 /\ Z.out = <<>>
         /\ Y.out > 0 => Z.out = Joined(X.out, r) \o r
         /\ r = d => Z.out = SubSeq(h, 1, X.prev)
         /\ \A j \in 1..Len(X.out) : Lacks(X.out[j], d)
    <3>1. Y.out # 0
      BY <1>3, <2>2
    <3>2. X.out = q
      BY <2>2 DEF q
    <3>3. Len(X.out) = Y.out /\ Len(Z.out) = X.prev - Y.out * Len(d) + Y.out * Len(r)
      BY <2>2, <2>6, <2>8, <3>2, Zenon
    <3> QED
      BY <2>2, <2>6, <2>7, <2>9, <3>1, <3>2, <3>3, Zenon
  <2>11. /\ Y.at = X.at /\ Z.at = X.at /\ Z.prev = X.prev
         /\ X.prev <= X.at /\ X.at <= Len(h) /\ (X.at >= i \/ X.at > Len(h) - Len(d))
    BY <2>2, <2>3
  <2>12. \A j \in X.prev..X.at - 1 : ~OccursAt(h, d, j)
    BY <2>2, <2>3
  <2> QED
    BY <1>2, <2>10, <2>11, <2>12, Zenon DEF Together, X, Y, Z
<1> QED
  BY <1>4, <1>5, <1>6

\* The three loops agree after every round.
LEMMA LoopsTogether ==
  ASSUME NEW h \in Str, NEW d \in Str, Len(d) > 0, NEW r \in Str
  PROVE  \A i \in 0..Len(h) : Together(h, d, r, i, Splits(h, d)[i], CountLoop(h, d)[i], Fills(h, d, r)[i])
<1> DEFINE n == Len(h)
           e == [i \in 0..n |-> <<Splits(h, d)[i], CountLoop(h, d)[i], Fills(h, d, r)[i]>>]
           S == [i \in 0..n |-> {p \in Scans(Seq(Str)) \X Scans(Nat) \X Scans(Str) :
                                    Together(h, d, r, i, p[1], p[2], p[3])}]
<1>1. n \in Nat /\ Len(d) \in Nat /\ Len(r) \in Nat
  BY StrIs
<1>2. \A i \in 0..n : \A x, y, z : <<x, y, z>> \in S[i] <=> Together(h, d, r, i, x, y, z)
  <2> SUFFICES ASSUME NEW i \in 0..n, NEW x, NEW y, NEW z
               PROVE  <<x, y, z>> \in S[i] <=> Together(h, d, r, i, x, y, z)
    OBVIOUS
  <2>1. Together(h, d, r, i, x, y, z) => x \in Scans(Seq(Str)) /\ y \in Scans(Nat) /\ z \in Scans(Str)
    BY DEF Together
  <2> QED
    BY <2>1
<1>3. e[0] \in S[0]
  <2> DEFINE b == Scan(0, 0, <<>>)
             c == Scan(0, 0, 0)
  <2>1. b \in Scans(Seq(Str)) /\ c \in Scans(Nat) /\ b \in Scans(Str)
    BY EmptySeq, StrIs DEF Scan, Scans
  <2>2. b.at = 0 /\ b.prev = 0 /\ b.out = <<>> /\ c.at = 0 /\ c.out = 0
    BY DEF Scan
  <2> HIDE DEF b, c
  <2>3. Len(<<>>) = 0 /\ SubSeq(h, 1, 0) = <<>>
    BY WholePiece, StrIs
  <2>4. Len(b.out) = 0 /\ 0 = 0 - 0 * Len(d) + 0 * Len(r)
    BY <1>1, <2>2, <2>3
  <2>5. Together(h, d, r, 0, b, c, b)
    <3>1. b.prev <= b.at /\ b.at <= Len(h) /\ (b.at >= 0 \/ b.at > Len(h) - Len(d))
      BY <1>1, <2>2
    <3>2. Len(b.out) = c.out /\ Len(b.out) = b.prev - c.out * Len(d) + c.out * Len(r)
      BY <2>2, <2>4
    <3>3. (\A j \in 1..Len(b.out) : Lacks(b.out[j], d)) /\ (\A j \in b.prev..b.at - 1 : ~OccursAt(h, d, j)) /\ ~(c.out > 0)
      BY <2>2, <2>4
    <3> QED
      BY <2>1, <2>2, <2>3, <3>1, <3>2, <3>3, Zenon DEF Together
  <2>6. Splits(h, d)[0] = b /\ CountLoop(h, d)[0] = c /\ Fills(h, d, r)[0] = b
    BY SplitsAre, CountLoopAre, FillsAre DEF b, c
  <2>7. 0 \in 0..n
    BY <1>1
  <2>8. e[0] = <<b, c, b>>
    BY <2>6, <2>7
  <2> HIDE DEF S, e
  <2> QED
    BY <1>2, <2>5, <2>7, <2>8
<1>4. ASSUME NEW i \in 1..n, e[i - 1] \in S[i - 1] PROVE e[i] \in S[i]
  <2> DEFINE x == Splits(h, d)[i - 1]
             y == CountLoop(h, d)[i - 1]
             z == Fills(h, d, r)[i - 1]
             X == Splits(h, d)[i]
             Y == CountLoop(h, d)[i]
             Z == Fills(h, d, r)[i]
  <2>1. i \in 0..n /\ i - 1 \in 0..n /\ i \in Nat \ {0}
    BY <1>1
  <2>2. e[i - 1] = <<x, y, z>> /\ e[i] = <<X, Y, Z>>
    BY <2>1
  <2>3. X = SplitRound(h, d, x) /\ Y = CountRound(h, d, y) /\ Z = FillRound(h, d, r, z)
    BY SplitsAre, CountLoopAre, FillsAre
  <2> HIDE DEF S, e, x, y, z, X, Y, Z
  <2>4. Together(h, d, r, i - 1, x, y, z)
    BY <1>2, <1>4, <2>1, <2>2
  <2>5. Together(h, d, r, i, X, Y, Z)
    BY <2>1, <2>3, <2>4, RoundStep
  <2> QED
    BY <1>2, <2>1, <2>2, <2>5
<1>5. \A i \in 0..n : e[i] \in S[i]
  <2> HIDE DEF n, e, S
  <2> QED
    BY <1>1, <1>3, <1>4, AlongInduction
<1> SUFFICES ASSUME NEW i \in 0..n
             PROVE  Together(h, d, r, i, Splits(h, d)[i], CountLoop(h, d)[i], Fills(h, d, r)[i])
  OBVIOUS
<1>6. e[i] = <<Splits(h, d)[i], CountLoop(h, d)[i], Fills(h, d, r)[i]>>
  OBVIOUS
<1> HIDE DEF e, S
<1> QED
  BY <1>2, <1>5, <1>6

\* A text without an occurrence has none to find.
LEMMA LacksFinds ==
  ASSUME NEW p \in Str, NEW d \in Str, Len(d) > 0, Lacks(p, d)
  PROVE  bb_str_find(p, d, 0) = -1
<1>1. Len(p) \in Nat /\ Len(d) \in Nat
  BY StrIs
<1>2. Wrapped(0, Len(p)) = 0
  BY DEF Wrapped
<1>3. Max({0, 0}) = 0
  BY DEF Max
<1>4. {i \in 0..Len(p) - Len(d) : OccursAt(p, d, i)} = {}
  BY <1>1 DEF Lacks
<1> QED
  <2>1. Len(d) # 0
    BY <1>1
  <2> QED
    BY <1>2, <1>3, <1>4, <2>1, Zenon DEF bb_str_find

\* What split cuts, joins again, and replace puts its text where it cuts.
Cuts(h, d, r) ==
  /\ Joined(bb_str_split(h, d), d) = h
  /\ \A i \in DOMAIN bb_str_split(h, d) : bb_str_find(bb_str_split(h, d)[i], d, 0) = -1
  /\ Replaced(h, d, r) = Joined(bb_str_split(h, d), r)
  /\ Replaced(h, d, r) \in Str

\* It is so for every text, word and replacement.
LEMMA SplitCuts ==
  ASSUME NEW h \in Str, NEW d \in Str, Len(d) > 0, NEW r \in Str
  PROVE  Cuts(h, d, r)
<1>1. Len(h) \in Nat /\ Len(d) \in Nat /\ Len(r) \in Nat
  BY StrIs
<1>2. CASE Len(d) > Len(h)
  <2>1. bb_str_split(h, d) = <<h>>
    BY <1>1, <1>2 DEF bb_str_split
  <2>2. Replaced(h, d, r) = h
    BY <1>2 DEF Replaced
  <2>3. ASSUME NEW s \in Str PROVE Joined(<<h>>, s) = h
    <3>1. <<>> \in Seq(Str) /\ Len(<<>>) = 0 /\ Append(<<>>, h) = <<h>>
      BY EmptySeq
    <3> QED
      BY <3>1, JoinedSnoc
  <2>4. bb_str_find(h, d, 0) = -1
    <3>1. Lacks(h, d)
      BY <1>1, <1>2 DEF Lacks, OccursAt
    <3> QED
      BY <3>1, LacksFinds
  <2>5. DOMAIN <<h>> = {1} /\ <<h>>[1] = h
    OBVIOUS
  <2> QED
    BY <2>1, <2>2, <2>3, <2>4, <2>5 DEF Cuts
<1>3. CASE ~(Len(d) > Len(h))
  <2> DEFINE n == Len(h)
             x == Splits(h, d)[n]
             y == CountLoop(h, d)[n]
             z == Fills(h, d, r)[n]
             w == Fills(h, d, d)[n]
             p == SubSeq(h, x.prev + 1, n)
             q == Append(x.out, p)
  <2>1. bb_str_split(h, d) = q
    <3>1. ~(Len(d) = 0) /\ ~(Len(d) > Len(h))
      BY <1>1, <1>3
    <3> QED
      BY <3>1, Zenon DEF bb_str_split, Splits
  <2>2. CountOf(h, d) = y.out
    BY DEF CountOf, CountLoop
  <2>3. Filling(h, d, r) = z.out \o SubSeq(h, z.prev + 1, n)
    BY DEF Filling, Fills
  <2>4. Together(h, d, r, n, x, y, z) /\ Together(h, d, d, n, x, y, w)
    <3>1. n \in 0..n
      BY <1>1
    <3> QED
      BY <3>1, LoopsTogether
  <2> HIDE DEF x, y, z, w, n
  <2>5. /\ x.out \in Seq(Str) /\ x.prev \in Nat /\ x.at \in Nat /\ y.out \in Nat /\ z.out \in Str
        /\ w.out \in Str /\ z.prev = x.prev
    BY <2>4 DEF Together, Scans
  <2>6. /\ x.prev <= x.at /\ x.at <= n /\ x.at > n - Len(d)
        /\ \A j \in x.prev..x.at - 1 : ~OccursAt(h, d, j)
    <3>1. /\ x.prev <= x.at /\ x.at <= Len(h) /\ (x.at >= n \/ x.at > Len(h) - Len(d))
          /\ \A j \in x.prev..x.at - 1 : ~OccursAt(h, d, j)
      BY <2>4 DEF Together
    <3> QED
      BY <1>1, <2>5, <3>1 DEF n
  <2>7. n = Len(h) /\ n \in Nat
    BY <1>1 DEF n
  <2>8. p \in Str /\ Len(p) = n - x.prev /\ Lacks(p, d)
    <3>1. p \in Str /\ Len(p) = n - x.prev
      BY <2>5, <2>6, <2>7, PieceIs
    <3>2. \A j \in x.prev..n - 1 : ~OccursAt(h, d, j)
      <4> SUFFICES ASSUME NEW j \in x.prev..n - 1 PROVE ~OccursAt(h, d, j)
        OBVIOUS
      <4>1. CASE j <= x.at - 1
        BY <2>5, <2>6, <4>1
      <4>2. CASE ~(j <= x.at - 1)
        BY <1>1, <2>5, <2>6, <2>7, <4>2 DEF OccursAt
      <4> QED
        BY <4>1, <4>2
    <3>3. Lacks(p, d)
      <4>1. x.prev <= n /\ n <= Len(h) /\ n \in Nat /\ x.prev \in Nat
        BY <2>5, <2>6, <2>7
      <4> QED
        BY <3>2, <4>1, PieceLacks DEF p
    <3> QED
      BY <3>1, <3>3
  <2>9. Begun(x.out, z.out, r) /\ Begun(x.out, w.out, d) /\ Len(x.out) = y.out
    BY <2>4, <2>5 DEF Together, Begun
  <2> HIDE DEF p
  <2>10. Joined(q, r) = z.out \o p /\ Joined(q, d) = w.out \o p
    <3>1. Joined(Append(x.out, p), r) = z.out \o p
      <4> DEFINE ps == x.out
                 f == z.out
      <4>1. ps \in Seq(Str) /\ f \in Str /\ p \in Str /\ Begun(ps, f, r)
        BY <2>5, <2>8, <2>9
      <4> HIDE DEF ps, f
      <4>2. Joined(Append(ps, p), r) = f \o p
        BY <4>1, JoinedOn
      <4> QED
        BY <4>2 DEF ps, f
    <3>2. Joined(Append(x.out, p), d) = w.out \o p
      <4> DEFINE ps == x.out
                 f == w.out
      <4>1. ps \in Seq(Str) /\ f \in Str /\ p \in Str /\ Begun(ps, f, d)
        BY <2>5, <2>8, <2>9
      <4> HIDE DEF ps, f
      <4>2. Joined(Append(ps, p), d) = f \o p
        BY <4>1, JoinedOn
      <4> QED
        BY <4>2 DEF ps, f
    <3> QED
      BY <3>1, <3>2
  <2>11. w.out \o p = h
    <3>1. w.out = SubSeq(h, 1, x.prev)
      BY <2>4 DEF Together
    <3>2. SubSeq(h, 1, x.prev) \o SubSeq(h, x.prev + 1, n) = SubSeq(h, 1, n)
      <4>1. x.prev <= n /\ n <= Len(h) /\ n \in Nat /\ x.prev \in Nat
        BY <2>5, <2>6, <2>7
      <4> QED
        BY <4>1, PiecesMeet
    <3> QED
      BY <2>7, <3>1, <3>2, WholePiece DEF p
  <2>12. \A j \in DOMAIN q : bb_str_find(q[j], d, 0) = -1
    <3>1. /\ q \in Seq(Str) /\ Len(q) = Len(x.out) + 1 /\ q[Len(x.out) + 1] = p /\ DOMAIN q = 1..Len(q)
          /\ \A j \in 1..Len(x.out) : q[j] = x.out[j]
      BY <2>5, <2>8, AppendProperties, LenProperties
    <3>2. \A j \in 1..Len(x.out) : Lacks(x.out[j], d)
      BY <2>4 DEF Together
    <3> HIDE DEF q
    <3> SUFFICES ASSUME NEW j \in 1..Len(q) PROVE bb_str_find(q[j], d, 0) = -1
      BY <3>1
    <3>3. q[j] \in Str
      BY <3>1, ElementOfSeq
    <3>4. Lacks(q[j], d)
      <4>1. CASE j = Len(x.out) + 1
        BY <2>8, <3>1, <4>1
      <4>2. CASE j # Len(x.out) + 1
        <5>1. j \in 1..Len(x.out)
          BY <2>5, <2>9, <3>1, <4>2
        <5> QED
          BY <3>1, <3>2, <5>1
      <4> QED
        BY <4>1, <4>2
    <3> QED
      BY <3>3, <3>4, LacksFinds
  <2>13. Replaced(h, d, r) = z.out \o p
    <3>1. CASE y.out = 0
      <4>1. Replaced(h, d, r) = h
        BY <2>2, <3>1 DEF Replaced
      <4>2. x.prev = 0 /\ z.out = <<>>
        BY <2>4, <3>1 DEF Together
      <4>3. p = h
        BY <2>7, <4>2, WholePiece DEF p
      <4> QED
        BY <4>1, <4>2, <4>3, StrIs
    <3>2. CASE y.out # 0
      <4> DEFINE out == z.out \o p
                 size == n - y.out * Len(d) + y.out * Len(r)
      <4>1. Filling(h, d, r) = out
        BY <2>3, <2>5 DEF p
      <4>2. out \in Str /\ Len(out) = Len(z.out) + Len(p)
        BY <2>5, <2>8, StrIs
      <4>3. Len(out) = size
        <5>1. Len(z.out) = x.prev - y.out * Len(d) + y.out * Len(r)
          BY <2>4 DEF Together
        <5>2. y.out * Len(d) \in Int /\ y.out * Len(r) \in Int
          BY <1>1, <2>5
        <5> DEFINE lz == Len(z.out)
                   lp == Len(p)
                   u == y.out * Len(d)
                   v == y.out * Len(r)
                   lo == Len(out)
                   k == x.prev
        <5>3. lo = lz + lp /\ lz = k - u + v /\ lp = n - k /\ u \in Int /\ v \in Int /\ k \in Nat
          BY <2>5, <2>8, <4>2, <5>1, <5>2
        <5> HIDE DEF lz, lp, u, v, lo, k, out
        <5>4. lo = n - u + v
          BY <2>7, <5>3
        <5> QED
          BY <5>4 DEF lo, u, v
      <4>4. Replaced(h, d, r) = [i \in 1..size |-> IF i <= Len(out) THEN out[i] ELSE Junk]
        <5> HIDE DEF out
        <5>1. ~(Len(d) = 0 \/ Len(d) > Len(h) \/ CountOf(h, d) = 0)
          BY <1>1, <1>3, <2>2, <3>2
        <5> QED
          BY <2>2, <2>7, <4>1, <5>1, Zenon DEF Replaced
      <4> HIDE DEF size, out
      <4>5. out = [i \in 1..Len(out) |-> out[i]] /\ Len(out) \in Nat
        BY <4>2, StrIs, LenProperties DEF Str
      <4>6. Replaced(h, d, r) = out
        BY <4>3, <4>4, <4>5
      <4> QED
        BY <4>6 DEF out
    <3> QED
      BY <3>1, <3>2
  <2> HIDE DEF q
  <2>14. Replaced(h, d, r) \in Str
    BY <2>5, <2>8, <2>13, StrIs
  <2> QED
    BY <2>1, <2>10, <2>11, <2>12, <2>13, <2>14, Zenon DEF Cuts
<1> QED
  BY <1>2, <1>3

-----------------------------------------------------------------------------
(* The store *)

Kinds == {"str", "readonly", "slice"}
Objects == [kind : Kinds, refcnt : Nat, buf : Nat, start : Nat, end : Nat,
            hash : Seq(Str), parent : Nat \cup {Null}, ctx : Nat \cup {Null}]

Formed(m) ==
  /\ m = [strs |-> m.strs, bufs |-> m.bufs]
  /\ IsFiniteSet(DOMAIN m.strs) /\ DOMAIN m.strs \subseteq Nat \ {0}
  /\ m.strs \in [DOMAIN m.strs -> Objects]
  /\ IsFiniteSet(DOMAIN m.bufs) /\ DOMAIN m.bufs \subseteq Nat
  /\ m.bufs \in [DOMAIN m.bufs -> Str]

\* The buffers there are, and those that an object points to.
Used(m) == DOMAIN m.bufs \cup {m.strs[t].buf : t \in DOMAIN m.strs}

\* The fields of an object.
LEMMA ObjectIs ==
  ASSUME NEW m, Formed(m), NEW s \in DOMAIN m.strs
  PROVE  /\ m.strs[s] \in Objects
         /\ m.strs[s].kind \in Kinds /\ m.strs[s].refcnt \in Nat /\ m.strs[s].buf \in Nat
         /\ m.strs[s].start \in Nat /\ m.strs[s].end \in Nat /\ m.strs[s].hash \in Seq(Str)
         /\ m.strs[s].parent \in Nat \cup {Null} /\ m.strs[s].ctx \in Nat \cup {Null}
         /\ s \in Nat \ {0}
BY DEF Formed, Objects

\* The least of a set of naturals.
LEMMA MinIs ==
  ASSUME NEW T, T \subseteq Nat, T # {}
  PROVE  Min(T) \in T /\ \A x \in T : Min(T) <= x
<1>1. \E x \in T : \A y \in T : x <= y
  BY LeastNat
<1> QED
  BY <1>1 DEF Min

\* The greatest of a finite set of naturals.
LEMMA MaxIs ==
  ASSUME NEW n \in Nat, NEW T, T \subseteq 1..n, T # {}
  PROVE  Max(T) \in T /\ \A x \in T : x <= Max(T)
<1> DEFINE U == {n - x : x \in T}
<1>1. U \subseteq Nat /\ U # {}
  <2>1. PICK x \in T : TRUE
    OBVIOUS
  <2>2. n - x \in U
    OBVIOUS
  <2>3. \A y \in T : n - y \in Nat
    OBVIOUS
  <2> QED
    BY <2>2, <2>3
<1>2. PICK u \in U : \A y \in U : u <= y
  BY <1>1, LeastNat
<1>3. PICK x \in T : u = n - x
  BY <1>2
<1>4. \A y \in T : x >= y
  <2> SUFFICES ASSUME NEW y \in T PROVE x >= y
    OBVIOUS
  <2>1. n - y \in U
    OBVIOUS
  <2>2. u <= n - y /\ x \in 1..n /\ y \in 1..n
    BY <1>2, <2>1
  <2> QED
    BY <1>3, <2>2
<1>5. Max(T) \in T /\ \A y \in T : Max(T) >= y
  BY <1>3, <1>4 DEF Max
<1> QED
  BY <1>5

\* A finite set leaves a natural out, among the first ones.
LEMMA RoomLeft ==
  ASSUME NEW U, IsFiniteSet(U), NEW a \in Nat
  PROVE  (a..a + Cardinality(U)) \ U # {}
<1> DEFINE k == Cardinality(U)
           I == a..a + k
<1>1. k \in Nat
  BY FS_CardinalityType
<1>2. IsFiniteSet(I) /\ Cardinality(I) = k + 1
  <2>1. a \in Int /\ a + k \in Int /\ ~(a > a + k) /\ (a + k) - a + 1 = k + 1
    BY <1>1
  <2> QED
    BY <2>1, FS_Interval
<1> SUFFICES ASSUME I \subseteq U PROVE FALSE
  OBVIOUS
<1>3. Cardinality(I) <= k
  BY FS_Subset
<1> QED
  BY <1>1, <1>2, <1>3

\* The set of the buffers that objects point to is finite.
LEMMA UsedIs ==
  ASSUME NEW m, Formed(m)
  PROVE  IsFiniteSet(Used(m)) /\ Used(m) \subseteq Nat
<1> DEFINE D == DOMAIN m.strs
           P == {m.strs[t].buf : t \in D}
           f == [t \in D |-> m.strs[t].buf]
<1>1. f \in Surjection(D, P)
  BY DEF Surjection
<1>2. IsFiniteSet(P)
  <2>1. IsFiniteSet(D)
    BY DEF Formed
  <2> HIDE DEF f, P, D
  <2> QED
    BY <1>1, <2>1, FS_Surjection
<1>3. P \subseteq Nat
  BY ObjectIs
<1> QED
  BY <1>2, <1>3, FS_Union DEF Formed, Used

\* malloc finds an address that nothing points to.
LEMMA NewBufIs ==
  ASSUME NEW m, Formed(m)
  PROVE  NewBuf(m) \in Nat /\ NewBuf(m) \notin Used(m)
<1> DEFINE U == Used(m)
           T == 0..Cardinality(U) \ U
<1>1. IsFiniteSet(U) /\ U \subseteq Nat
  BY UsedIs
<1>2. (0..0 + Cardinality(U)) \ U # {}
  BY <1>1, RoomLeft
<1>3. Cardinality(U) \in Nat
  BY <1>1, FS_CardinalityType
<1>4. T \subseteq Nat /\ T # {}
  BY <1>2, <1>3
<1>5. NewBuf(m) = Min(T)
  BY DEF NewBuf, Used
<1> QED
  BY <1>4, <1>5, MinIs

\* A new object is none of those there are.
LEMMA NewStrIs ==
  ASSUME NEW m, Formed(m)
  PROVE  NewStr(m) \in Nat \ {0} /\ NewStr(m) \notin DOMAIN m.strs /\ NewStr(m) # Null
<1> DEFINE U == DOMAIN m.strs
           T == 1..Cardinality(U) + 1 \ U
<1>1. IsFiniteSet(U) /\ Cardinality(U) \in Nat
  BY FS_CardinalityType DEF Formed
<1>2. (1..1 + Cardinality(U)) \ U # {}
  BY <1>1, RoomLeft
<1>3. T \subseteq Nat /\ T # {} /\ \A x \in T : x \in Nat \ {0} /\ x \notin U
  BY <1>1, <1>2
<1>4. NewStr(m) = Min(T)
  BY DEF NewStr
<1>5. NewStr(m) \in T
  BY <1>3, <1>4, MinIs
<1> QED
  BY <1>3, <1>5, CiStringAssumption

-----------------------------------------------------------------------------
(* One string changed *)

At(o, b, i, j, h) == [kind |-> o.kind, refcnt |-> o.refcnt, buf |-> b, start |-> i, end |-> j,
                      hash |-> h, parent |-> o.parent, ctx |-> o.ctx]
Put(x, s, o) == [strs |-> [x.strs EXCEPT ![s] = o], bufs |-> x.bufs]

\* x is m but for the string s, which has the bytes data, in its own buffer or
\* in one nobody used, from st to en, and the cached hash h.
Own(m, s, x, data, st, en, h) ==
  /\ Formed(x) /\ DOMAIN x.strs = DOMAIN m.strs
  /\ \A t \in DOMAIN m.strs : t # s => x.strs[t] = m.strs[t]
  /\ x.strs[s] = At(m.strs[s], x.strs[s].buf, st, en, h)
  /\ \A b \in DOMAIN m.bufs : b # m.strs[s].buf => b \in DOMAIN x.bufs /\ x.bufs[b] = m.bufs[b]
  /\ x.strs[s].buf = m.strs[s].buf \/ x.strs[s].buf \notin Used(m)
  /\ x.strs[s].buf \in DOMAIN x.bufs /\ x.bufs[x.strs[s].buf] = data

Placed(o, p, b, i, j, h) ==
  /\ p \in Objects /\ p.buf = b /\ p.start = i /\ p.end = j /\ p.hash = h
  /\ p.kind = o.kind /\ p.refcnt = o.refcnt /\ p.parent = o.parent /\ p.ctx = o.ctx

\* It is an object, with the fields it was given.
LEMMA AtIs ==
  ASSUME NEW o \in Objects, NEW b \in Nat, NEW i \in Nat, NEW j \in Nat, NEW h \in Seq(Str)
  PROVE  Placed(o, At(o, b, i, j, h), b, i, j, h)
BY DEF Objects, At, Placed

\* Placing an object again.
LEMMA AtAt ==
  ASSUME NEW o, NEW b, NEW i, NEW j, NEW h, NEW b2, NEW i2, NEW j2, NEW h2
  PROVE  At(At(o, b, i, j, h), b2, i2, j2, h2) = At(o, b2, i2, j2, h2)
BY DEF At

\* The store with s replaced.
LEMMA PutIs ==
  ASSUME NEW x, Formed(x), NEW s \in DOMAIN x.strs, NEW o \in Objects
  PROVE  /\ Formed(Put(x, s, o)) /\ Put(x, s, o).strs[s] = o /\ Put(x, s, o).bufs = x.bufs
         /\ DOMAIN Put(x, s, o).strs = DOMAIN x.strs
         /\ \A t \in DOMAIN x.strs : t # s => Put(x, s, o).strs[t] = x.strs[t]
BY DEF Formed, Put

FieldPuts(x, s, v) ==
  /\ [x EXCEPT !.strs[s].start = v] = Put(x, s, [x.strs[s] EXCEPT !.start = v])
  /\ [x EXCEPT !.strs[s].end = v] = Put(x, s, [x.strs[s] EXCEPT !.end = v])
  /\ [x EXCEPT !.strs[s].hash = v] = Put(x, s, [x.strs[s] EXCEPT !.hash = v])

\* An update of one field is a replacement of the object.
LEMMA FieldIs ==
  ASSUME NEW x, Formed(x), NEW s \in DOMAIN x.strs, NEW v
  PROVE  FieldPuts(x, s, v)
<1>1. x = [strs |-> x.strs, bufs |-> x.bufs] /\ x.strs = [t \in DOMAIN x.strs |-> x.strs[t]]
  BY DEF Formed
<1>2. [x EXCEPT !.strs[s].start = v] = Put(x, s, [x.strs[s] EXCEPT !.start = v])
  BY <1>1 DEF Put
<1>3. [x EXCEPT !.strs[s].end = v] = Put(x, s, [x.strs[s] EXCEPT !.end = v])
  BY <1>1 DEF Put
<1>4. [x EXCEPT !.strs[s].hash = v] = Put(x, s, [x.strs[s] EXCEPT !.hash = v])
  BY <1>1 DEF Put
<1> QED
  BY <1>2, <1>3, <1>4 DEF FieldPuts

\* A field of an object set.
LEMMA ObjectFieldIs ==
  ASSUME NEW o \in Objects, NEW n \in Nat, NEW h \in Seq(Str)
  PROVE  /\ [o EXCEPT !.start = n] = At(o, o.buf, n, o.end, o.hash)
         /\ [o EXCEPT !.end = n] = At(o, o.buf, o.start, n, o.hash)
         /\ [o EXCEPT !.hash = h] = At(o, o.buf, o.start, o.end, h)
         /\ [o EXCEPT !.buf = n] = At(o, n, o.start, o.end, o.hash)
<1>1. [o EXCEPT !.start = n] = At(o, o.buf, n, o.end, o.hash)
  BY DEF Objects, At
<1>2. [o EXCEPT !.end = n] = At(o, o.buf, o.start, n, o.hash)
  BY DEF Objects, At
<1>3. [o EXCEPT !.hash = h] = At(o, o.buf, o.start, o.end, h)
  BY SMTT(30) DEF Objects, At
<1>4. [o EXCEPT !.buf = n] = At(o, n, o.start, o.end, o.hash)
  BY DEF Objects, At
<1> QED
  BY <1>1, <1>2, <1>3, <1>4

\* Nothing is changed yet.
LEMMA OwnSelf ==
  ASSUME NEW m, Formed(m), NEW s \in DOMAIN m.strs, m.strs[s].buf \in DOMAIN m.bufs
  PROVE  Own(m, s, m, m.bufs[m.strs[s].buf], m.strs[s].start, m.strs[s].end, m.strs[s].hash)
<1>1. m.strs[s] \in Objects
  BY ObjectIs
<1>2. m.strs[s] = At(m.strs[s], m.strs[s].buf, m.strs[s].start, m.strs[s].end, m.strs[s].hash)
  BY <1>1 DEF Objects, At
<1> QED
  BY <1>2, Zenon DEF Own

\* A change of the object and its buffer follows another.
LEMMA OwnPut ==
  ASSUME NEW m, Formed(m), NEW s \in DOMAIN m.strs, NEW x, NEW data, NEW st, NEW en, NEW h,
         Own(m, s, x, data, st, en, h),
         NEW i \in Nat, NEW j \in Nat, NEW g \in Seq(Str)
  PROVE  Own(m, s, Put(x, s, At(x.strs[s], x.strs[s].buf, i, j, g)), data, i, j, g)
<1> DEFINE o == At(x.strs[s], x.strs[s].buf, i, j, g)
           y == Put(x, s, o)
<1>1. Formed(x) /\ s \in DOMAIN x.strs /\ x.strs[s] \in Objects /\ x.strs[s].buf \in Nat
  <2>1. Formed(x) /\ s \in DOMAIN x.strs
    BY DEF Own
  <2> QED
    BY <2>1, ObjectIs
<1>2. o \in Objects /\ o.buf = x.strs[s].buf
  <2> DEFINE b == x.strs[s].buf
             a == x.strs[s]
  <2>1. a \in Objects /\ b \in Nat
    BY <1>1
  <2> HIDE DEF a, b
  <2>2. Placed(a, At(a, b, i, j, g), b, i, j, g)
    BY <2>1, AtIs
  <2> QED
    BY <2>2 DEF Placed, a, b
<1>3. x.strs[s] = At(m.strs[s], x.strs[s].buf, st, en, h)
  BY DEF Own
<1>4. o = At(m.strs[s], x.strs[s].buf, i, j, g)
  <2> DEFINE b == x.strs[s].buf
  <2> HIDE DEF b
  <2>1. x.strs[s] = At(m.strs[s], b, st, en, h)
    BY <1>3 DEF b
  <2>2. At(x.strs[s], b, i, j, g) = At(m.strs[s], b, i, j, g)
    BY <2>1, AtAt
  <2> QED
    BY <2>2 DEF b
<1> HIDE DEF o
<1>5. /\ Formed(y) /\ y.strs[s] = o /\ y.bufs = x.bufs /\ DOMAIN y.strs = DOMAIN x.strs
      /\ \A t \in DOMAIN x.strs : t # s => y.strs[t] = x.strs[t]
  BY <1>1, <1>2, PutIs
<1> HIDE DEF y
<1>6. /\ DOMAIN x.strs = DOMAIN m.strs
      /\ \A t \in DOMAIN m.strs : t # s => x.strs[t] = m.strs[t]
      /\ \A b \in DOMAIN m.bufs : b # m.strs[s].buf => b \in DOMAIN x.bufs /\ x.bufs[b] = m.bufs[b]
      /\ x.strs[s].buf = m.strs[s].buf \/ x.strs[s].buf \notin Used(m)
      /\ x.strs[s].buf \in DOMAIN x.bufs /\ x.bufs[x.strs[s].buf] = data
  BY DEF Own
<1>7. y.strs[s].buf = x.strs[s].buf
  BY <1>2, <1>5
<1>8. Own(m, s, y, data, i, j, g)
  <2>1. Formed(y) /\ DOMAIN y.strs = DOMAIN m.strs /\ \A t \in DOMAIN m.strs : t # s => y.strs[t] = m.strs[t]
    BY <1>5, <1>6
  <2>2. y.strs[s] = At(m.strs[s], y.strs[s].buf, i, j, g)
    BY <1>4, <1>5, <1>7
  <2>3. /\ \A b \in DOMAIN m.bufs : b # m.strs[s].buf => b \in DOMAIN y.bufs /\ y.bufs[b] = m.bufs[b]
        /\ y.strs[s].buf = m.strs[s].buf \/ y.strs[s].buf \notin Used(m)
        /\ y.strs[s].buf \in DOMAIN y.bufs /\ y.bufs[y.strs[s].buf] = data
    BY <1>5, <1>6, <1>7
  <2> QED
    BY <2>1, <2>2, <2>3, Zenon DEF Own
<1> QED
  BY <1>8 DEF o, y

\* Its fields, as the code sets them.
LEMMA OwnIs ==
  ASSUME NEW m, NEW s \in DOMAIN m.strs, NEW x, NEW data, NEW st \in Nat, NEW en \in Nat, NEW h \in Seq(Str),
         Formed(m), Own(m, s, x, data, st, en, h)
  PROVE  /\ Formed(x) /\ s \in DOMAIN x.strs /\ x.strs[s] \in Objects
         /\ x.strs[s].start = st /\ x.strs[s].end = en /\ x.strs[s].hash = h
         /\ x.strs[s].buf \in DOMAIN x.bufs /\ x.bufs[x.strs[s].buf] = data
         /\ x.strs[s].buf \in Nat
<1>1. Formed(x) /\ s \in DOMAIN x.strs
  BY DEF Own
<1>2. x.strs[s] \in Objects /\ x.strs[s].buf \in Nat /\ m.strs[s] \in Objects
  BY <1>1, ObjectIs
<1>3. x.strs[s] = At(m.strs[s], x.strs[s].buf, st, en, h)
  BY DEF Own
<1>4. x.strs[s].start = st /\ x.strs[s].end = en /\ x.strs[s].hash = h
  <2> DEFINE b == x.strs[s].buf
             a == At(m.strs[s], b, st, en, h)
  <2>1. a.start = st /\ a.end = en /\ a.hash = h
    BY DEF At
  <2> HIDE DEF a
  <2>2. x.strs[s] = a
    BY <1>3 DEF a
  <2> QED
    BY <2>1, <2>2
<1> QED
  BY <1>1, <1>2, <1>4 DEF Own

\* Start, end and hash of the changed object may be set.
LEMMA OwnFields ==
  ASSUME NEW m, NEW s \in DOMAIN m.strs, NEW x, NEW data, NEW st \in Nat, NEW en \in Nat, NEW h \in Seq(Str),
         Formed(m), Own(m, s, x, data, st, en, h), NEW n \in Nat, NEW g \in Seq(Str)
  PROVE  /\ Own(m, s, [x EXCEPT !.strs[s].start = n], data, n, en, h)
         /\ Own(m, s, [x EXCEPT !.strs[s].end = n], data, st, n, h)
         /\ Own(m, s, [x EXCEPT !.strs[s].hash = g], data, st, en, g)
         /\ Own(m, s, ci_str_reset_hash(x, s), data, st, en, <<>>)
<1> DEFINE o == x.strs[s]
<1>1. Formed(x) /\ s \in DOMAIN x.strs /\ o \in Objects /\ o.start = st /\ o.end = en /\ o.hash = h
  BY OwnIs
<1>2. <<>> \in Seq(Str)
  BY EmptySeq
<1>3. \A v \in Seq(Str) : Own(m, s, [x EXCEPT !.strs[s].hash = v], data, st, en, v)
  <2> SUFFICES ASSUME NEW v \in Seq(Str) PROVE Own(m, s, [x EXCEPT !.strs[s].hash = v], data, st, en, v)
    OBVIOUS
  <2>1. [x EXCEPT !.strs[s].hash = v] = Put(x, s, [o EXCEPT !.hash = v])
    <3>1. FieldPuts(x, s, v)
      BY <1>1, FieldIs
    <3> QED
      BY <3>1, Zenon DEF FieldPuts
  <2>2. [o EXCEPT !.hash = v] = At(o, o.buf, st, en, v)
    <3> HIDE DEF o
    <3>1. 0 \in Nat
      OBVIOUS
    <3> QED
      BY <1>1, <3>1, ObjectFieldIs
  <2>3. Own(m, s, Put(x, s, At(o, o.buf, st, en, v)), data, st, en, v)
    BY OwnPut
  <2> QED
    BY <2>1, <2>2, <2>3
<1>4. Own(m, s, [x EXCEPT !.strs[s].start = n], data, n, en, h)
  <2>1. [x EXCEPT !.strs[s].start = n] = Put(x, s, [o EXCEPT !.start = n])
    <3>1. FieldPuts(x, s, n)
      BY <1>1, FieldIs
    <3> QED
      BY <3>1, Zenon DEF FieldPuts
  <2>2. [o EXCEPT !.start = n] = At(o, o.buf, n, en, h)
    <3> HIDE DEF o
    <3> QED
      BY <1>1, <1>2, ObjectFieldIs
  <2>3. Own(m, s, Put(x, s, At(o, o.buf, n, en, h)), data, n, en, h)
    BY OwnPut
  <2> QED
    BY <2>1, <2>2, <2>3
<1>5. Own(m, s, [x EXCEPT !.strs[s].end = n], data, st, n, h)
  <2>1. [x EXCEPT !.strs[s].end = n] = Put(x, s, [o EXCEPT !.end = n])
    <3>1. FieldPuts(x, s, n)
      BY <1>1, FieldIs
    <3> QED
      BY <3>1, Zenon DEF FieldPuts
  <2>2. [o EXCEPT !.end = n] = At(o, o.buf, st, n, h)
    <3> HIDE DEF o
    <3> QED
      BY <1>1, <1>2, ObjectFieldIs
  <2>3. Own(m, s, Put(x, s, At(o, o.buf, st, n, h)), data, st, n, h)
    BY OwnPut
  <2> QED
    BY <2>1, <2>2, <2>3
<1>6. Own(m, s, ci_str_reset_hash(x, s), data, st, en, <<>>)
  BY <1>2, <1>3 DEF ci_str_reset_hash
<1> QED
  BY <1>3, <1>4, <1>5, <1>6

\* Bytes written over data.
Over(data, at, bytes) == [i \in DOMAIN data |-> IF i - at \in DOMAIN bytes THEN bytes[i - at] ELSE data[i]]

\* Bytes laid over a text keep its length.
LEMMA OverIs ==
  ASSUME NEW data \in Str, NEW at \in Nat, NEW bytes \in Str
  PROVE  Over(data, at, bytes) \in Str /\ Len(Over(data, at, bytes)) = Len(data)
<1>1. /\ Len(data) \in Nat /\ DOMAIN data = 1..Len(data) /\ DOMAIN bytes = 1..Len(bytes)
      /\ \A i \in 1..Len(data) : data[i] \in Int
      /\ \A i \in 1..Len(bytes) : bytes[i] \in Int
  BY StrIs
<1>2. Over(data, at, bytes) \in [1..Len(data) -> Int]
  BY <1>1 DEF Over
<1> HIDE DEF Over
<1> QED
  BY <1>1, <1>2 DEF Str

\* s points to the buffer b, which has the bytes new.
LEMMA OwnRefill ==
  ASSUME NEW m, NEW s \in DOMAIN m.strs, NEW x, NEW data, NEW st \in Nat, NEW en \in Nat, NEW h \in Seq(Str),
         Formed(m), Own(m, s, x, data, st, en, h),
         NEW b \in Nat, NEW new \in Str, NEW B, B \in [DOMAIN B -> Str], IsFiniteSet(DOMAIN B),
         DOMAIN B \subseteq Nat, b \in DOMAIN B, B[b] = new,
         \A c \in DOMAIN x.bufs : c # b /\ c # x.strs[s].buf => c \in DOMAIN B /\ B[c] = x.bufs[c],
         b = x.strs[s].buf \/ b \notin Used(x),
         NEW i \in Nat, NEW j \in Nat, NEW g \in Seq(Str),
         NEW y, y = [strs |-> [x.strs EXCEPT ![s] = At(x.strs[s], b, i, j, g)], bufs |-> B]
  PROVE  Own(m, s, y, new, i, j, g)
<1> DEFINE o == x.strs[s]
           p == At(m.strs[s], b, i, j, g)
<1>1. /\ Formed(x) /\ s \in DOMAIN x.strs /\ o \in Objects /\ o.buf \in Nat /\ m.strs[s] \in Objects
  BY OwnIs, ObjectIs
<1>2. /\ DOMAIN x.strs = DOMAIN m.strs
      /\ \A t \in DOMAIN m.strs : t # s => x.strs[t] = m.strs[t]
      /\ \A c \in DOMAIN m.bufs : c # m.strs[s].buf => c \in DOMAIN x.bufs /\ x.bufs[c] = m.bufs[c]
      /\ o.buf = m.strs[s].buf \/ o.buf \notin Used(m)
  BY DEF Own
<1>3. At(o, b, i, j, g) = p
  <2>1. o = At(m.strs[s], o.buf, st, en, h)
    BY DEF Own
  <2> DEFINE c == o.buf
  <2>2. o = At(m.strs[s], c, st, en, h)
    BY <2>1
  <2> HIDE DEF o, c
  <2>3. At(At(m.strs[s], c, st, en, h), b, i, j, g) = At(m.strs[s], b, i, j, g)
    BY AtAt
  <2> QED
    BY <2>2, <2>3
<1>4. p \in Objects /\ p.buf = b
  <2> DEFINE q == m.strs[s]
  <2>1. q \in Objects
    BY <1>1
  <2> HIDE DEF q
  <2>2. Placed(q, At(q, b, i, j, g), b, i, j, g)
    BY <2>1, AtIs
  <2> QED
    BY <2>2 DEF Placed, q
<1>5. y = [strs |-> [x.strs EXCEPT ![s] = p], bufs |-> B]
  BY <1>3
<1> HIDE DEF p
<1>6. /\ y.strs = [x.strs EXCEPT ![s] = p] /\ y.bufs = B /\ y = [strs |-> y.strs, bufs |-> y.bufs]
  BY <1>5
<1>7. /\ x.strs \in [DOMAIN x.strs -> Objects] /\ IsFiniteSet(DOMAIN x.strs) /\ DOMAIN x.strs \subseteq Nat \ {0}
  BY <1>1 DEF Formed
<1>8. /\ DOMAIN y.strs = DOMAIN x.strs /\ y.strs[s] = p /\ y.strs \in [DOMAIN y.strs -> Objects]
      /\ \A t \in DOMAIN x.strs : t # s => y.strs[t] = x.strs[t]
  BY <1>1, <1>4, <1>6, <1>7
<1>9. Formed(y)
  BY <1>6, <1>7, <1>8 DEF Formed
<1>10. b = m.strs[s].buf \/ b \notin Used(m)
  <2> SUFFICES ASSUME b \notin Used(x), b # m.strs[s].buf, b \in Used(m) PROVE FALSE
    BY <1>2
  <2>1. CASE b \in DOMAIN m.bufs
    BY <1>2, <2>1 DEF Used
  <2>2. CASE b \notin DOMAIN m.bufs
    <3>1. PICK t \in DOMAIN m.strs : b = m.strs[t].buf
      BY <2>2 DEF Used
    <3>2. t # s
      BY <3>1
    <3>3. x.strs[t].buf = b /\ t \in DOMAIN x.strs
      BY <1>2, <3>1, <3>2
    <3> QED
      BY <3>3 DEF Used
  <2> QED
    BY <2>1, <2>2
<1>11. \A c \in DOMAIN m.bufs : c # m.strs[s].buf => c \in DOMAIN B /\ B[c] = m.bufs[c]
  <2> SUFFICES ASSUME NEW c \in DOMAIN m.bufs, c # m.strs[s].buf PROVE c \in DOMAIN B /\ B[c] = m.bufs[c]
    OBVIOUS
  <2>1. c \in DOMAIN x.bufs /\ x.bufs[c] = m.bufs[c] /\ c \in Used(m) /\ c \in Used(x)
    BY <1>2 DEF Used
  <2>2. c # o.buf
    BY <1>2, <2>1
  <2>3. c # b
    BY <1>10, <2>1
  <2> QED
    BY <2>1, <2>2, <2>3
<1>12. y.strs[s].buf = b
  BY <1>4, <1>8
<1>13. DOMAIN y.strs = DOMAIN m.strs /\ \A t \in DOMAIN m.strs : t # s => y.strs[t] = m.strs[t]
  BY <1>2, <1>8
<1>14. y.strs[s] = At(m.strs[s], y.strs[s].buf, i, j, g)
  BY <1>8, <1>12 DEF p
<1>15. /\ \A c \in DOMAIN m.bufs : c # m.strs[s].buf => c \in DOMAIN y.bufs /\ y.bufs[c] = m.bufs[c]
       /\ y.strs[s].buf = m.strs[s].buf \/ y.strs[s].buf \notin Used(m)
       /\ y.strs[s].buf \in DOMAIN y.bufs /\ y.bufs[y.strs[s].buf] = new
  BY <1>6, <1>10, <1>11, <1>12
<1> QED
  BY <1>9, <1>13, <1>14, <1>15, Zenon DEF Own

\* A memcpy into its buffer changes the bytes it writes.
LEMMA OwnWrite ==
  ASSUME NEW m, NEW s \in DOMAIN m.strs, NEW x, NEW data \in Str, NEW st \in Nat, NEW en \in Nat, NEW h \in Seq(Str),
         Formed(m), Own(m, s, x, data, st, en, h), NEW at \in Nat, NEW bytes \in Str
  PROVE  Own(m, s, Write(x, s, at, bytes), Over(data, at, bytes), st, en, h)
<1> DEFINE o == x.strs[s]
           b == o.buf
           B == [x.bufs EXCEPT ![b] = Over(data, at, bytes)]
           y == Write(x, s, at, bytes)
<1>1. /\ Formed(x) /\ s \in DOMAIN x.strs /\ o \in Objects /\ o.start = st /\ o.end = en /\ o.hash = h
      /\ b \in DOMAIN x.bufs /\ x.bufs[b] = data /\ b \in Nat
  BY OwnIs
<1>2. Over(data, at, bytes) \in Str
  BY OverIs
<1>3. /\ x = [strs |-> x.strs, bufs |-> x.bufs] /\ x.strs \in [DOMAIN x.strs -> Objects]
      /\ x.bufs \in [DOMAIN x.bufs -> Str] /\ IsFiniteSet(DOMAIN x.bufs) /\ DOMAIN x.bufs \subseteq Nat
  BY <1>1 DEF Formed
<1>4. y = [strs |-> x.strs, bufs |-> B]
  <2>1. y = [x EXCEPT !.bufs[b] = Over(x.bufs[b], at, bytes)]
    BY DEF Write, Over
  <2>2. y = [x EXCEPT !.bufs[b] = Over(data, at, bytes)]
    BY <1>1, <2>1
  <2> HIDE DEF b, y
  <2> QED
    BY <1>3, <2>2
<1>5. o = At(o, b, st, en, h)
  BY <1>1 DEF Objects, At
<1>6. y = [strs |-> [x.strs EXCEPT ![s] = At(o, b, st, en, h)], bufs |-> B]
  <2>1. x.strs = [x.strs EXCEPT ![s] = x.strs[s]]
    BY <1>1, <1>3
  <2> HIDE DEF b, B, y
  <2> QED
    BY <1>4, <1>5, <2>1
<1>7. /\ B \in [DOMAIN B -> Str] /\ IsFiniteSet(DOMAIN B) /\ DOMAIN B \subseteq Nat /\ b \in DOMAIN B
      /\ B[b] = Over(data, at, bytes)
      /\ \A c \in DOMAIN x.bufs : c # b /\ c # x.strs[s].buf => c \in DOMAIN B /\ B[c] = x.bufs[c]
  <2> HIDE DEF b
  <2> QED
    BY <1>1, <1>2, <1>3
<1> HIDE DEF B, y
<1>8. b \in Nat /\ b = x.strs[s].buf
  BY <1>1
<1> HIDE DEF b
<1>9. Own(m, s, y, Over(data, at, bytes), st, en, h)
  BY <1>2, <1>6, <1>7, <1>8, OwnRefill
<1> QED
  BY <1>9 DEF y

\* The bytes data read from st to en as t.
Reads(data, st, en, t) ==
  /\ data \in Str /\ t \in Str /\ st \in Nat /\ en \in Nat
  /\ en = st + Len(t) /\ en <= Len(data)
  /\ \A i \in 1..Len(t) : data[st + i] = t[i]

\* A buffer nobody has written to.
LEMMA FreshIs ==
  ASSUME NEW k \in Nat
  PROVE  Fresh(k) \in Str /\ Len(Fresh(k)) = k
<1>1. Fresh(k) \in [1..k -> Int]
  BY DEF Fresh, Junk
<1> HIDE DEF Fresh
<1> QED
  BY <1>1 DEF Str

\* Room behind data.
LEMMA GrownIs ==
  ASSUME NEW data \in Str, NEW k \in Nat
  PROVE  /\ data \o Fresh(k) \in Str /\ Len(data \o Fresh(k)) = Len(data) + k
         /\ \A i \in 1..Len(data) : (data \o Fresh(k))[i] = data[i]
<1> DEFINE f == Fresh(k)
<1>1. f \in Str /\ Len(f) = k /\ Len(data) \in Nat
  BY FreshIs, StrIs
<1> HIDE DEF f
<1>2. /\ data \o f \in Seq(Int) /\ Len(data \o f) = Len(data) + Len(f)
      /\ \A i \in 1..Len(data) + Len(f) : (data \o f)[i] = IF i <= Len(data) THEN data[i] ELSE f[i - Len(data)]
  BY <1>1, ConcatProperties DEF Str
<1>3. \A i \in 1..Len(data) : (data \o f)[i] = data[i]
  BY <1>1, <1>2
<1> QED
  BY <1>1, <1>2, <1>3 DEF f, Str

\* A longer buffer with the same start reads as before.
LEMMA ReadsGrown ==
  ASSUME NEW data, NEW st, NEW en, NEW t, Reads(data, st, en, t), NEW k \in Nat
  PROVE  Reads(data \o Fresh(k), st, en, t)
<1>1. /\ data \in Str /\ t \in Str /\ st \in Nat /\ en \in Nat
      /\ en = st + Len(t) /\ en <= Len(data) /\ Len(t) \in Nat /\ Len(data) \in Nat
      /\ \A i \in 1..Len(t) : data[st + i] = t[i]
  BY StrIs DEF Reads
<1> DEFINE e == data \o Fresh(k)
<1>2. e \in Str /\ Len(e) = Len(data) + k /\ \A i \in 1..Len(data) : e[i] = data[i]
  BY <1>1, GrownIs
<1> HIDE DEF e
<1>3. \A i \in 1..Len(t) : e[st + i] = t[i]
  <2> SUFFICES ASSUME NEW i \in 1..Len(t) PROVE e[st + i] = t[i]
    OBVIOUS
  <2>1. st + i \in 1..Len(data)
    BY <1>1
  <2> QED
    BY <1>1, <1>2, <2>1
<1>4. en <= Len(e)
  BY <1>1, <1>2
<1>5. Reads(e, st, en, t)
  BY <1>1, <1>2, <1>3, <1>4, Zenon DEF Reads
<1> QED
  BY <1>5 DEF e

\* Bytes written from at on, within the text.
LEMMA ReadsOver ==
  ASSUME NEW data \in Str, NEW st \in Nat, NEW k \in Nat, NEW bytes \in Str, NEW t \in Str,
         k + Len(bytes) <= Len(t), st + Len(t) <= Len(data),
         \A i \in 1..Len(t) : ~(i \in k + 1..k + Len(bytes)) => data[st + i] = t[i],
         \A i \in 1..Len(bytes) : t[k + i] = bytes[i]
  PROVE  Reads(Over(data, st + k, bytes), st, st + Len(t), t)
<1> DEFINE at == st + k
           e == Over(data, at, bytes)
<1>1. e \in Str /\ Len(e) = Len(data) /\ Len(t) \in Nat /\ Len(bytes) \in Nat /\ Len(data) \in Nat
      /\ DOMAIN data = 1..Len(data) /\ DOMAIN bytes = 1..Len(bytes)
  <2>1. at \in Nat
    OBVIOUS
  <2> HIDE DEF at
  <2> QED
    BY <2>1, OverIs, StrIs
<1>2. \A i \in 1..Len(t) : e[st + i] = t[i]
  <2> SUFFICES ASSUME NEW i \in 1..Len(t) PROVE e[st + i] = t[i]
    OBVIOUS
  <2>1. st + i \in 1..Len(data)
    BY <1>1
  <2>2. e[st + i] = IF (st + i) - at \in 1..Len(bytes) THEN bytes[(st + i) - at] ELSE data[st + i]
    BY <1>1, <2>1 DEF Over
  <2> HIDE DEF e
  <2>3. (st + i) - at = i - k
    BY <1>1
  <2>4. CASE i - k \in 1..Len(bytes)
    <3>1. k + (i - k) = i
      BY <1>1
    <3> QED
      BY <2>2, <2>3, <2>4, <3>1
  <2>5. CASE ~(i - k \in 1..Len(bytes))
    <3>1. ~(i \in k + 1..k + Len(bytes))
      BY <1>1, <2>5
    <3> QED
      BY <2>2, <2>3, <2>5, <3>1
  <2> QED
    BY <2>4, <2>5
<1> HIDE DEF e
<1>3. st + Len(t) \in Nat /\ st + Len(t) <= Len(e)
  BY <1>1
<1>4. Reads(e, st, st + Len(t), t)
  BY <1>1, <1>2, <1>3 DEF Reads
<1> QED
  BY <1>4 DEF e, at

\* The greater of two numbers.
LEMMA MaxOfTwo ==
  ASSUME NEW a \in Int, NEW b \in Int
  PROVE  Max({a, b}) = IF a >= b THEN a ELSE b
BY DEF Max

\* The lesser of two numbers.
LEMMA MinOfTwo ==
  ASSUME NEW a \in Int, NEW b \in Int
  PROVE  Min({a, b}) = IF a <= b THEN a ELSE b
BY DEF Min

\* The buffer a given up for b.
Swapped(x, a, b, new, B) ==
  /\ b \in DOMAIN B /\ B[b] = new
  /\ B \in [DOMAIN B -> Str] /\ IsFiniteSet(DOMAIN B) /\ DOMAIN B \subseteq Nat
  /\ \A d \in DOMAIN x.bufs : d # b /\ d # a => d \in DOMAIN B /\ B[d] = x.bufs[d]

\* It is a store of buffers.
LEMMA SwapIs ==
  ASSUME NEW x, Formed(x), NEW a, NEW b \in Nat, NEW new \in Str
  PROVE  Swapped(x, a, b, new, With(Without(x.bufs, a), b, new))
<1> DEFINE B == With(Without(x.bufs, a), b, new)
<1>1. x.bufs \in [DOMAIN x.bufs -> Str] /\ IsFiniteSet(DOMAIN x.bufs) /\ DOMAIN x.bufs \subseteq Nat
  BY DEF Formed
<1>2. /\ DOMAIN B = (DOMAIN x.bufs \ {a}) \cup {b} /\ B[b] = new
      /\ \A d \in DOMAIN x.bufs : d # b /\ d # a => B[d] = x.bufs[d]
      /\ B = [d \in DOMAIN B |-> B[d]]
  BY DEF With, Without
<1> HIDE DEF B
<1>3. \A d \in DOMAIN B : B[d] \in Str
  BY <1>1, <1>2
<1>4. IsFiniteSet(DOMAIN B)
  <2>1. IsFiniteSet(DOMAIN x.bufs \ {a})
    BY <1>1, FS_RemoveElement
  <2>2. IsFiniteSet((DOMAIN x.bufs \ {a}) \cup {b})
    BY <2>1, FS_AddElement
  <2> QED
    BY <1>2, <2>2
<1>5. /\ B \in [DOMAIN B -> Str] /\ DOMAIN B \subseteq Nat /\ b \in DOMAIN B
      /\ \A d \in DOMAIN x.bufs : d # b /\ d # a => d \in DOMAIN B
  BY <1>1, <1>2, <1>3
<1>6. Swapped(x, a, b, new, B)
  BY <1>2, <1>4, <1>5 DEF Swapped
<1> QED
  BY <1>6 DEF B

\* Room behind the text, without or with another buffer.
LEMMA OwnTail ==
  ASSUME NEW m, NEW s \in DOMAIN m.strs, NEW x, NEW data \in Str, NEW st \in Nat, NEW en \in Nat, NEW h \in Seq(Str),
         Formed(m), Own(m, s, x, data, st, en, h), en <= Len(data), NEW n \in Nat, NEW moved \in BOOLEAN
  PROVE  \E k \in Nat : /\ Own(m, s, ci_str_ensure_tail(x, s, n, moved), data \o Fresh(k), st, en, h)
                        /\ en + n <= Len(data) + k
<1> DEFINE o == x.strs[s]
           y == ci_str_ensure_tail(x, s, n, moved)
           size == Max({Len(data) * 2, en + n})
           k == size - Len(data)
           new == data \o Fresh(k)
           b == NewBuf(x)
<1>1. /\ Formed(x) /\ s \in DOMAIN x.strs /\ o \in Objects /\ o.start = st /\ o.end = en /\ o.hash = h
      /\ o.buf \in DOMAIN x.bufs /\ x.bufs[o.buf] = data /\ o.buf \in Nat
  BY OwnIs
<1>2. Len(data) \in Nat
  BY StrIs
<1>3. ci_str_size(x, s) = Len(data) /\ ci_str_tail_space(x, s) = Len(data) - en
  BY <1>1 DEF ci_str_size, ci_str_tail_space
<1>4. CASE Len(data) - en >= n
  <2>1. y = x
    BY <1>3, <1>4 DEF ci_str_ensure_tail
  <2>2. data \o Fresh(0) = data
    <3>1. Fresh(0) = <<>>
      BY FreshIs, EmptySeq DEF Str
    <3> QED
      BY <3>1, StrIs
  <2>3. Own(m, s, y, data \o Fresh(0), st, en, h) /\ en + n <= Len(data) + 0 /\ 0 \in Nat
    <3>1. en + n <= Len(data) + 0
      BY <1>2, <1>4
    <3>2. Own(m, s, y, data \o Fresh(0), st, en, h)
      BY <2>1, <2>2, Zenon
    <3> QED
      BY <3>1, <3>2
  <2> QED
    BY <2>3, Zenon
<1>5. CASE ~(Len(data) - en >= n)
  <2>1. size >= Len(data) * 2 /\ size >= en + n /\ size \in Nat /\ k \in Nat /\ en + n <= Len(data) + k
    <3>1. Len(data) * 2 \in Int /\ en + n \in Int
      BY <1>2
    <3>2. size = IF Len(data) * 2 >= en + n THEN Len(data) * 2 ELSE en + n
      BY <3>1, MaxOfTwo
    <3> DEFINE ld == Len(data)
    <3>3. ld \in Nat /\ ld = Len(data) /\ size = IF ld * 2 >= en + n THEN ld * 2 ELSE en + n
      BY <1>2, <3>2
    <3> HIDE DEF ld, size
    <3>4. size >= ld * 2 /\ size >= en + n /\ size \in Nat /\ size - ld \in Nat /\ en + n <= ld + (size - ld)
      BY <3>3
    <3> QED
      BY <3>4 DEF ld
  <2>2. new \in Str
    BY <2>1, GrownIs
  <2>3. o = At(o, o.buf, st, en, h)
    BY <1>1 DEF Objects, At
  <2>4. /\ x = [strs |-> x.strs, bufs |-> x.bufs] /\ x.strs \in [DOMAIN x.strs -> Objects]
        /\ x.bufs \in [DOMAIN x.bufs -> Str] /\ IsFiniteSet(DOMAIN x.bufs) /\ DOMAIN x.bufs \subseteq Nat
    BY <1>1 DEF Formed
  <2>5. CASE ~moved
    <3> DEFINE B == [x.bufs EXCEPT ![o.buf] = new]
               c == o.buf
    <3>1. y = [x EXCEPT !.bufs[o.buf] = new]
      BY <1>1, <1>3, <1>5, <2>5, Zenon DEF ci_str_ensure_tail
    <3>2. y = [strs |-> x.strs, bufs |-> B]
      <4> HIDE DEF y, new
      <4> QED
        BY <2>4, <3>1
    <3>3. y = [strs |-> [x.strs EXCEPT ![s] = At(o, c, st, en, h)], bufs |-> B]
      <4>1. x.strs = [x.strs EXCEPT ![s] = x.strs[s]]
        BY <1>1, <2>4
      <4> HIDE DEF B, y
      <4> QED
        BY <3>2, <4>1, <2>3
    <3>4. /\ B \in [DOMAIN B -> Str] /\ IsFiniteSet(DOMAIN B) /\ DOMAIN B \subseteq Nat /\ c \in DOMAIN B
          /\ B[c] = new
          /\ \A d \in DOMAIN x.bufs : d # c /\ d # x.strs[s].buf => d \in DOMAIN B /\ B[d] = x.bufs[d]
      <4> HIDE DEF new
      <4> QED
        BY <1>1, <2>2, <2>4
    <3>5. c \in Nat /\ c = x.strs[s].buf
      BY <1>1
    <3> HIDE DEF B, c, y, new
    <3>6. Own(m, s, y, new, st, en, h)
      BY <2>2, <3>3, <3>4, <3>5, OwnRefill
    <3> QED
      BY <2>1, <3>6 DEF y, new
  <2>6. CASE moved
    <3> DEFINE B == With(Without(x.bufs, o.buf), b, new)
    <3>1. y = [strs |-> [x.strs EXCEPT ![s].buf = b], bufs |-> B]
      BY <1>1, <1>3, <1>5, <2>6, Zenon DEF ci_str_ensure_tail
    <3>2. b \in Nat /\ b \notin Used(x)
      BY <1>1, NewBufIs
    <3>3. [x.strs EXCEPT ![s].buf = b] = [x.strs EXCEPT ![s] = At(o, b, st, en, h)]
      <4> DEFINE q == x.strs[s]
                 c == b
      <4>1. q \in Objects /\ c \in Nat /\ q.start = st /\ q.end = en /\ q.hash = h
        BY <1>1, <3>2
      <4> HIDE DEF q, c
      <4>2. [q EXCEPT !.buf = c] = At(q, c, q.start, q.end, q.hash)
        BY <4>1, EmptySeq, ObjectFieldIs
      <4>3. [q EXCEPT !.buf = c] = At(q, c, st, en, h)
        BY <4>1, <4>2
      <4>4. [x.strs EXCEPT ![s].buf = c] = [x.strs EXCEPT ![s] = [x.strs[s] EXCEPT !.buf = c]]
        BY <1>1, <2>4
      <4> QED
        BY <4>3, <4>4 DEF q, c
    <3>4. Swapped(x, o.buf, b, new, B)
      <4> HIDE DEF new, b
      <4> QED
        BY <1>1, <2>2, <3>2, SwapIs
    <3>5. /\ B \in [DOMAIN B -> Str] /\ IsFiniteSet(DOMAIN B) /\ DOMAIN B \subseteq Nat
          /\ \A d \in DOMAIN x.bufs : d # b /\ d # x.strs[s].buf => d \in DOMAIN B /\ B[d] = x.bufs[d]
      <4> HIDE DEF B, b, new
      <4> QED
        BY <3>4 DEF Swapped
    <3>8. y = [strs |-> [x.strs EXCEPT ![s] = At(x.strs[s], b, st, en, h)], bufs |-> B] /\ b \in DOMAIN B
      <4> HIDE DEF B, b, y
      <4> QED
        BY <3>1, <3>3, <3>4 DEF Swapped
    <3> HIDE DEF B, b, y, new
    <3>9. B[b] = new
      BY <3>4 DEF Swapped
    <3>10. Own(m, s, y, new, st, en, h)
      BY <2>2, <3>2, <3>5, <3>8, <3>9, OwnRefill
    <3> QED
      BY <2>1, <3>10 DEF y, new
  <2> QED
    BY <2>5, <2>6
<1> QED
  BY <1>4, <1>5

\* What is read is the text.
LEMMA TextIs ==
  ASSUME NEW data, NEW st, NEW en, NEW t, Reads(data, st, en, t)
  PROVE  SubSeq(data, st + 1, en) = t
<1>1. /\ data \in Str /\ t \in Str /\ st \in Nat /\ en \in Nat
      /\ en = st + Len(t) /\ en <= Len(data) /\ Len(t) \in Nat /\ Len(data) \in Nat
      /\ \A i \in 1..Len(t) : data[st + i] = t[i]
  BY StrIs DEF Reads
<1> DEFINE p == SubSeq(data, st + 1, en)
<1>2. p \in Str /\ Len(p) = Len(t) /\ \A k \in 1..Len(t) : p[k] = data[st + k]
  <2>1. st <= en /\ en - st = Len(t) /\ en \in Int
    BY <1>1
  <2> QED
    BY <1>1, <2>1, PieceIs
<1> HIDE DEF p
<1>3. p = t
  BY <1>1, <1>2, SeqEqual DEF Str
<1> QED
  BY <1>3 DEF p

\* Room before the text.
LEMMA OwnHead ==
  ASSUME NEW m, NEW s \in DOMAIN m.strs, NEW x, NEW data \in Str, NEW st \in Nat, NEW en \in Nat, NEW h \in Seq(Str),
         NEW t, Formed(m), Own(m, s, x, data, st, en, h), Reads(data, st, en, t), NEW n \in Nat
  PROVE  \E d2 \in Str, st2 \in Nat, en2 \in Nat :
            /\ Own(m, s, ci_str_ensure_head(x, s, n), d2, st2, en2, <<>>)
            /\ Reads(d2, st2, en2, t) /\ n <= st2
<1> DEFINE o == x.strs[s]
           y == ci_str_ensure_head(x, s, n)
           b == NewBuf(x)
           k == Len(data) - en
           e == n + Len(t)
           new == (Fresh(n) \o t) \o Fresh(k)
           B == With(Without(x.bufs, o.buf), b, new)
           z == [strs |-> [x.strs EXCEPT ![s].buf = b, ![s].start = n, ![s].end = e], bufs |-> B]
<1>1. /\ Formed(x) /\ s \in DOMAIN x.strs /\ o \in Objects /\ o.start = st /\ o.end = en /\ o.hash = h
      /\ o.buf \in DOMAIN x.bufs /\ x.bufs[o.buf] = data /\ o.buf \in Nat
  BY OwnIs
<1>2. /\ t \in Str /\ Len(t) \in Nat /\ Len(data) \in Nat /\ en = st + Len(t) /\ en <= Len(data)
  BY StrIs DEF Reads
<1>3. CASE st >= n
  <2>1. y = ci_str_reset_hash(x, s)
    BY <1>1, <1>3 DEF ci_str_ensure_head, ci_str_head_space
  <2>2. Own(m, s, ci_str_reset_hash(x, s), data, st, en, <<>>)
    BY OwnFields
  <2>3. Own(m, s, y, data, st, en, <<>>)
    BY <2>1, <2>2
  <2> QED
    BY <1>3, <2>3
<1>4. CASE ~(st >= n)
  <2>1. y = ci_str_reset_hash(z, s)
    <3>1. ci_str_len(x, s) = Len(t)
      BY <1>1, <1>2 DEF ci_str_len
    <3>2. Text(x, s) = t
      <4>1. SubSeq(data, st + 1, en) = t
        BY TextIs
      <4> QED
        BY <1>1, <4>1 DEF Text
    <3>3. ci_str_tail_space(x, s) = k
      BY <1>1 DEF ci_str_size, ci_str_tail_space
    <3>4. ~(ci_str_head_space(x, s) >= n)
      BY <1>1, <1>4 DEF ci_str_head_space
    <3> QED
      BY <3>1, <3>2, <3>3, <3>4, Zenon DEF ci_str_ensure_head
  <2>2. k \in Nat /\ e \in Nat
    BY <1>2
  <2>3. Reads(new, n, e, t)
    <3>1. Fresh(n) \in Str /\ Len(Fresh(n)) = n
      BY FreshIs
    <3> DEFINE f == Fresh(n)
               g == f \o t
    <3> HIDE DEF f
    <3>2. /\ g \in Str /\ Len(g) = e
          /\ \A i \in 1..Len(f) + Len(t) : g[i] = IF i <= Len(f) THEN f[i] ELSE t[i - Len(f)]
      BY <1>2, <3>1, ConcatProperties DEF f, Str
    <3>3. Len(f) = n
      BY <3>1 DEF f
    <3>4. \A i \in 1..Len(t) : g[n + i] = t[i]
      <4> SUFFICES ASSUME NEW i \in 1..Len(t) PROVE g[n + i] = t[i]
        OBVIOUS
      <4>1. n + i \in 1..n + Len(t) /\ ~(n + i <= n) /\ (n + i) - n = i
        BY <1>2
      <4> HIDE DEF g
      <4> QED
        BY <3>2, <3>3, <4>1
    <3> HIDE DEF g
    <3>5. Reads(g, n, e, t)
      <4>1. n \in Nat /\ e \in Nat /\ e = n + Len(t) /\ e <= Len(g)
        BY <1>2, <3>2
      <4> QED
        BY <1>2, <3>2, <3>4, <4>1, Zenon DEF Reads
    <3>6. Reads(g \o Fresh(k), n, e, t)
      BY <2>2, <3>5, ReadsGrown
    <3> QED
      BY <3>6 DEF g, f
  <2>4. new \in Str
    BY <2>3 DEF Reads
  <2>5. b \in Nat /\ b \notin Used(x)
    BY <1>1, NewBufIs
  <2>6. Swapped(x, o.buf, b, new, B)
    <3> HIDE DEF new, b
    <3> QED
      BY <1>1, <2>4, <2>5, SwapIs
  <2>7. [x.strs EXCEPT ![s].buf = b, ![s].start = n, ![s].end = e] = [x.strs EXCEPT ![s] = At(o, b, n, e, h)]
    <3> DEFINE f == x.strs
               c == b
               u == e
               f1 == [f EXCEPT ![s] = At(o, c, st, en, h)]
               f2 == [f EXCEPT ![s] = At(o, c, n, en, h)]
               f3 == [f EXCEPT ![s] = At(o, c, n, u, h)]
    <3>1. f \in [DOMAIN f -> Objects] /\ s \in DOMAIN f /\ o = f[s] /\ c \in Nat /\ u \in Nat
      BY <1>1, <2>2, <2>5 DEF Formed
    <3>2. /\ At(o, c, st, en, h) \in Objects /\ At(o, c, n, en, h) \in Objects /\ At(o, c, n, u, h) \in Objects
      <4> HIDE DEF o, c, u
      <4> QED
        BY <1>1, <3>1, AtIs DEF Placed
    <3>3. /\ [o EXCEPT !.buf = c] = At(o, c, st, en, h)
          /\ [At(o, c, st, en, h) EXCEPT !.start = n] = At(o, c, n, en, h)
          /\ [At(o, c, n, en, h) EXCEPT !.end = u] = At(o, c, n, u, h)
      <4>1. o = At(o, o.buf, st, en, h)
        BY <1>1 DEF Objects, At
      <4> HIDE DEF o, c, u
      <4> QED
        BY <1>1, <4>1 DEF At, Objects
    <3> HIDE DEF f, c, u, o
    <3>4. [f EXCEPT ![s].buf = c] = f1
      BY <3>1, <3>3
    <3>5. [f1 EXCEPT ![s].start = n] = f2
      BY <3>1, <3>2, <3>3
    <3>6. [f2 EXCEPT ![s].end = u] = f3
      BY <3>1, <3>2, <3>3
    <3>7. [f EXCEPT ![s].buf = c, ![s].start = n, ![s].end = u]
            = [[[f EXCEPT ![s].buf = c] EXCEPT ![s].start = n] EXCEPT ![s].end = u]
      BY <3>1
    <3> HIDE DEF f1, f2, f3
    <3>8. [f EXCEPT ![s].buf = c, ![s].start = n, ![s].end = u] = f3
      BY <3>4, <3>5, <3>6, <3>7
    <3> QED
      BY <3>8 DEF f, c, u, f3
  <2>8. z = [strs |-> [x.strs EXCEPT ![s] = At(x.strs[s], b, n, e, h)], bufs |-> B]
    BY <2>7, Zenon
  <2>9. /\ B \in [DOMAIN B -> Str] /\ IsFiniteSet(DOMAIN B) /\ DOMAIN B \subseteq Nat /\ b \in DOMAIN B /\ B[b] = new
        /\ \A d \in DOMAIN x.bufs : d # b /\ d # x.strs[s].buf => d \in DOMAIN B /\ B[d] = x.bufs[d]
    <3> HIDE DEF B, b, new
    <3> QED
      BY <2>6 DEF Swapped
  <2> HIDE DEF B, b, z, new, e
  <2>10. Own(m, s, z, new, n, e, h)
    BY <2>2, <2>4, <2>5, <2>8, <2>9, OwnRefill
  <2>11. Own(m, s, ci_str_reset_hash(z, s), new, n, e, <<>>)
    BY <2>2, <2>10, OwnFields
  <2>12. Own(m, s, y, new, n, e, <<>>) /\ n <= n
    BY <2>1, <2>11
  <2> QED
    BY <2>2, <2>3, <2>4, <2>12
<1> QED
  BY <1>3, <1>4

-----------------------------------------------------------------------------
(* What the methods leave of one string *)

\* The object s reads as t.
HeldAs(m, s, t) ==
  /\ m.strs[s].buf \in DOMAIN m.bufs
  /\ Reads(m.bufs[m.strs[s].buf], m.strs[s].start, m.strs[s].end, t)
  /\ m.strs[s].hash \in {<<>>, HashOf(t)}

\* x is m but for s, which reads as t and has no hash.
Now(m, s, x, t) ==
  \E data \in Str, st \in Nat, en \in Nat :
      Own(m, s, x, data, st, en, <<>>) /\ Reads(data, st, en, t)

\* The lengths and bytes of what is read.
LEMMA ReadsIs ==
  ASSUME NEW data, NEW st, NEW en, NEW t, Reads(data, st, en, t)
  PROVE  /\ data \in Str /\ t \in Str /\ st \in Nat /\ en \in Nat /\ Len(t) \in Nat /\ Len(data) \in Nat
         /\ en = st + Len(t) /\ en <= Len(data) /\ en - st = Len(t)
         /\ \A i \in 1..Len(t) : data[st + i] = t[i]
<1>1. /\ data \in Str /\ t \in Str /\ st \in Nat /\ en \in Nat /\ Len(t) \in Nat /\ Len(data) \in Nat
      /\ en = st + Len(t) /\ en <= Len(data)
      /\ \A i \in 1..Len(t) : data[st + i] = t[i]
  BY StrIs DEF Reads
<1>2. en - st = Len(t)
  BY <1>1
<1> QED
  BY <1>1, <1>2

\* What Text and ci_str_len make of an object that is held.
LEMMA HeldText ==
  ASSUME NEW m, Formed(m), NEW s \in DOMAIN m.strs, NEW t, HeldAs(m, s, t)
  PROVE  /\ Text(m, s) = t /\ ci_str_len(m, s) = Len(t) /\ t \in Str /\ Len(t) \in Nat
         /\ m.strs[s].start \in Nat /\ m.strs[s].end \in Nat
<1> DEFINE data == m.bufs[m.strs[s].buf]
           st == m.strs[s].start
           en == m.strs[s].end
<1>1. Reads(data, st, en, t)
  BY DEF HeldAs
<1>2. Text(m, s) = SubSeq(data, st + 1, en) /\ ci_str_len(m, s) = en - st
  BY DEF Text, ci_str_len
<1> HIDE DEF data
<1>3. SubSeq(data, st + 1, en) = t
  BY <1>1, TextIs
<1>4. t \in Str /\ Len(t) \in Nat /\ en - st = Len(t) /\ st \in Nat /\ en \in Nat
  BY <1>1, ReadsIs
<1> QED
  BY <1>2, <1>3, <1>4

\* The writable check forgets the hash.
LEMMA CheckedNow ==
  ASSUME NEW m, Formed(m), NEW s \in DOMAIN m.strs, NEW t, HeldAs(m, s, t)
  PROVE  Now(m, s, Checked(m, s), t)
<1> DEFINE data == m.bufs[m.strs[s].buf]
           st == m.strs[s].start
           en == m.strs[s].end
           h == m.strs[s].hash
<1>1. Own(m, s, m, data, st, en, h)
  BY OwnSelf DEF HeldAs
<1>2. Reads(data, st, en, t) /\ h \in Seq(Str)
  BY ObjectIs DEF HeldAs
<1>3. data \in Str /\ st \in Nat /\ en \in Nat
  BY <1>2 DEF Reads
<1> HIDE DEF data, st, en, h
<1>4. Own(m, s, ci_str_reset_hash(m, s), data, st, en, <<>>)
  BY <1>1, <1>2, <1>3, EmptySeq, OwnFields
<1> QED
  BY <1>2, <1>3, <1>4 DEF Now, Checked

\* What one sees of s in x.
LEMMA NowIs ==
  ASSUME NEW m, Formed(m), NEW s \in DOMAIN m.strs, NEW x, NEW t, Now(m, s, x, t)
  PROVE  Formed(x) /\ DOMAIN x.strs = DOMAIN m.strs /\ s \in DOMAIN x.strs /\ HeldAs(x, s, t) /\ t \in Str
<1>1. PICK data \in Str, st \in Nat, en \in Nat : Own(m, s, x, data, st, en, <<>>) /\ Reads(data, st, en, t)
  BY DEF Now
<1>2. <<>> \in Seq(Str)
  BY EmptySeq
<1>3. /\ Formed(x) /\ s \in DOMAIN x.strs /\ x.strs[s].start = st /\ x.strs[s].end = en /\ x.strs[s].hash = <<>>
      /\ x.strs[s].buf \in DOMAIN x.bufs /\ x.bufs[x.strs[s].buf] = data
  BY <1>1, <1>2, OwnIs
<1>4. HeldAs(x, s, t)
  BY <1>1, <1>3 DEF HeldAs
<1>5. DOMAIN x.strs = DOMAIN m.strs
  BY <1>1 DEF Own
<1>6. t \in Str
  BY <1>1 DEF Reads
<1> QED
  BY <1>3, <1>4, <1>5, <1>6

\* Where it is.
NowAt(m, s, x, t, data, st, en) ==
  /\ Own(m, s, x, data, st, en, <<>>) /\ Reads(data, st, en, t)
  /\ x.strs[s].start = st /\ x.strs[s].end = en /\ x.strs[s].hash = <<>>
  /\ x.strs[s].buf \in DOMAIN x.bufs /\ x.bufs[x.strs[s].buf] = data
  /\ data \in Str /\ t \in Str /\ st \in Nat /\ en \in Nat /\ Len(t) \in Nat /\ Len(data) \in Nat
  /\ en = st + Len(t) /\ en <= Len(data) /\ en - st = Len(t)
  /\ \A i \in 1..Len(t) : data[st + i] = t[i]

\* There is such a place.
LEMMA NowPlace ==
  ASSUME NEW m, Formed(m), NEW s \in DOMAIN m.strs, NEW x, NEW t, Now(m, s, x, t)
  PROVE  \E data, st, en : NowAt(m, s, x, t, data, st, en)
<1>1. PICK data \in Str, st \in Nat, en \in Nat : Own(m, s, x, data, st, en, <<>>) /\ Reads(data, st, en, t)
  BY DEF Now
<1>2. <<>> \in Seq(Str)
  BY EmptySeq
<1>3. /\ Formed(x) /\ s \in DOMAIN x.strs /\ x.strs[s].start = st /\ x.strs[s].end = en /\ x.strs[s].hash = <<>>
      /\ x.strs[s].buf \in DOMAIN x.bufs /\ x.bufs[x.strs[s].buf] = data
  BY <1>1, <1>2, OwnIs
<1>4. /\ data \in Str /\ t \in Str /\ st \in Nat /\ en \in Nat /\ Len(t) \in Nat /\ Len(data) \in Nat
      /\ en = st + Len(t) /\ en <= Len(data) /\ en - st = Len(t)
      /\ \A i \in 1..Len(t) : data[st + i] = t[i]
  <2>1. Reads(data, st, en, t)
    BY <1>1
  <2>2. /\ data \in Str /\ t \in Str /\ st \in Nat /\ en \in Nat /\ Len(t) \in Nat /\ Len(data) \in Nat
        /\ en = st + Len(t) /\ en <= Len(data)
        /\ \A i \in 1..Len(t) : data[st + i] = t[i]
    BY <2>1, StrIs DEF Reads
  <2> QED
    BY <2>2
<1>5. NowAt(m, s, x, t, data, st, en)
  BY <1>1, <1>3, <1>4, Zenon DEF NowAt
<1> QED
  BY <1>5

\* A place where s reads as t.
LEMMA NowFrom ==
  ASSUME NEW m, NEW s, NEW x, NEW t, NEW data, NEW st, NEW en,
         Own(m, s, x, data, st, en, <<>>), Reads(data, st, en, t)
  PROVE  Now(m, s, x, t)
BY DEF Now, Reads

\* Bytes written within the text.
LEMMA WriteNow ==
  ASSUME NEW m, Formed(m), NEW s \in DOMAIN m.strs, NEW x, NEW t, Now(m, s, x, t),
         NEW k \in Nat, NEW bytes \in Str, NEW u \in Str, Len(u) = Len(t), k + Len(bytes) <= Len(t),
         \A i \in 1..Len(t) : ~(i \in k + 1..k + Len(bytes)) => t[i] = u[i],
         \A i \in 1..Len(bytes) : u[k + i] = bytes[i],
         NEW at, at = x.strs[s].start + k
  PROVE  Now(m, s, Write(x, s, at, bytes), u)
<1>1. PICK data, st, en : NowAt(m, s, x, t, data, st, en)
  BY NowPlace
<1>2. <<>> \in Seq(Str)
  BY EmptySeq
<1>3. x.strs[s].start = st /\ st \in Nat /\ en \in Nat /\ data \in Str /\ Own(m, s, x, data, st, en, <<>>)
  BY <1>1 DEF NowAt
<1>4. at = st + k /\ at \in Nat
  BY <1>3
<1>5. /\ en = st + Len(u) /\ st + Len(u) <= Len(data) /\ Len(u) \in Nat
      /\ \A i \in 1..Len(t) : data[st + i] = t[i]
  BY <1>1 DEF NowAt
<1>6. Reads(Over(data, st + k, bytes), st, st + Len(u), u)
  <2>1. \A i \in 1..Len(u) : ~(i \in k + 1..k + Len(bytes)) => data[st + i] = u[i]
    BY <1>5
  <2>2. k + Len(bytes) <= Len(u)
    OBVIOUS
  <2> QED
    BY <1>3, <1>5, <2>1, <2>2, ReadsOver
<1>7. Own(m, s, Write(x, s, at, bytes), Over(data, at, bytes), st, en, <<>>)
  BY <1>2, <1>3, <1>4, OwnWrite
<1> DEFINE e == Over(data, at, bytes)
           y == Write(x, s, at, bytes)
<1>8. Reads(e, st, en, u) /\ Own(m, s, y, e, st, en, <<>>)
  BY <1>4, <1>5, <1>6, <1>7
<1> HIDE DEF e, y
<1>9. Now(m, s, y, u)
  BY <1>8, NowFrom
<1> QED
  BY <1>9 DEF y

\* Forgetting the hash leaves the text where it is.
LEMMA CheckedSpot ==
  ASSUME NEW m, Formed(m), NEW s \in DOMAIN m.strs
  PROVE  Checked(m, s).strs[s].start = m.strs[s].start
<1> DEFINE x == Checked(m, s)
<1>1. m.strs[s] \in Objects
  BY ObjectIs
<1>2. FieldPuts(m, s, <<>>)
  BY FieldIs
<1>3. x = Put(m, s, [m.strs[s] EXCEPT !.hash = <<>>])
  BY <1>2, Zenon DEF FieldPuts, Checked, ci_str_reset_hash
<1>4. x.strs = [m.strs EXCEPT ![s] = [m.strs[s] EXCEPT !.hash = <<>>]]
  <2> HIDE DEF x
  <2> QED
    BY <1>3 DEF Put
<1>5. x.strs[s] = [m.strs[s] EXCEPT !.hash = <<>>]
  <2>1. m.strs \in [DOMAIN m.strs -> Objects]
    BY DEF Formed
  <2> HIDE DEF x
  <2> QED
    BY <1>4, <2>1
<1> HIDE DEF x
<1>6. x.strs[s].start = m.strs[s].start
  BY <1>1, <1>5 DEF Objects
<1> QED
  BY <1>6 DEF x

\* The bytes of the text rewritten in place.
LEMMA RewrittenNow ==
  ASSUME NEW m, Formed(m), NEW s \in DOMAIN m.strs, NEW t, HeldAs(m, s, t),
         NEW u \in Str, Len(u) = Len(t)
  PROVE  Now(m, s, Rewritten(m, s, u), u)
<1> DEFINE x == Checked(m, s)
           at == m.strs[s].start
<1>1. Now(m, s, x, t)
  BY CheckedNow
<1>2. Len(t) \in Nat /\ at \in Nat
  BY HeldText
<1>3. x.strs[s].start = at
  BY CheckedSpot
<1>4. at = x.strs[s].start + 0
  BY <1>2, <1>3
<1>5. /\ 0 + Len(u) <= Len(t) /\ \A i \in 1..Len(t) : ~(i \in 0 + 1..0 + Len(u)) => t[i] = u[i]
      /\ \A i \in 1..Len(u) : u[0 + i] = u[i]
  BY <1>2
<1> HIDE DEF x, at
<1>6. Now(m, s, Write(x, s, at, u), u)
  BY <1>1, <1>4, <1>5, WriteNow
<1> QED
  BY <1>6 DEF Rewritten, x, at

\* The bytes of one text behind another.
LEMMA ConcatIs ==
  ASSUME NEW t \in Str, NEW u \in Str
  PROVE  /\ t \o u \in Str /\ Len(t \o u) = Len(t) + Len(u)
         /\ \A i \in 1..Len(t) : (t \o u)[i] = t[i]
         /\ \A i \in 1..Len(u) : (t \o u)[Len(t) + i] = u[i]
<1>1. Len(t) \in Nat /\ Len(u) \in Nat
  BY StrIs
<1>2. /\ t \o u \in Seq(Int) /\ Len(t \o u) = Len(t) + Len(u)
      /\ \A i \in 1..Len(t) + Len(u) : (t \o u)[i] = IF i <= Len(t) THEN t[i] ELSE u[i - Len(t)]
  BY ConcatProperties DEF Str
<1> DEFINE c == t \o u
<1> HIDE DEF c
<1>3. \A i \in 1..Len(t) + Len(u) : c[i] = IF i <= Len(t) THEN t[i] ELSE u[i - Len(t)]
  BY <1>2 DEF c
<1>4. \A i \in 1..Len(t) : c[i] = t[i]
  BY <1>1, <1>3
<1>5. \A i \in 1..Len(u) : c[Len(t) + i] = u[i]
  <2> SUFFICES ASSUME NEW i \in 1..Len(u) PROVE c[Len(t) + i] = u[i]
    OBVIOUS
  <2>1. Len(t) + i \in 1..Len(t) + Len(u) /\ ~(Len(t) + i <= Len(t)) /\ (Len(t) + i) - Len(t) = i
    BY <1>1
  <2> QED
    BY <1>3, <2>1
<1> QED
  BY <1>2, <1>4, <1>5 DEF c, Str

\* ci_str_ensure_tail leaves the text and makes room behind it.
LEMMA TailNow ==
  ASSUME NEW m, Formed(m), NEW s \in DOMAIN m.strs, NEW x, NEW t, Now(m, s, x, t),
         NEW n \in Nat, NEW moved \in BOOLEAN
  PROVE  /\ Now(m, s, ci_str_ensure_tail(x, s, n, moved), t)
         /\ ci_str_ensure_tail(x, s, n, moved).strs[s].end + n <= ci_str_size(ci_str_ensure_tail(x, s, n, moved), s)
<1> DEFINE y == ci_str_ensure_tail(x, s, n, moved)
<1>1. PICK data, st, en : NowAt(m, s, x, t, data, st, en)
  BY NowPlace
<1>2. <<>> \in Seq(Str)
  BY EmptySeq
<1>3. /\ st \in Nat /\ en \in Nat /\ data \in Str /\ Own(m, s, x, data, st, en, <<>>) /\ en <= Len(data)
      /\ Reads(data, st, en, t) /\ Len(data) \in Nat
  BY <1>1 DEF NowAt
<1>4. PICK k \in Nat : Own(m, s, y, data \o Fresh(k), st, en, <<>>) /\ en + n <= Len(data) + k
  BY <1>2, <1>3, OwnTail
<1>5. Reads(data \o Fresh(k), st, en, t)
  BY <1>3, ReadsGrown
<1>6. Len(data \o Fresh(k)) = Len(data) + k
  BY <1>3, GrownIs
<1> DEFINE e == data \o Fresh(k)
<1> HIDE DEF y
<1>7. y.strs[s].end = en /\ y.bufs[y.strs[s].buf] = e
  <2> HIDE DEF e
  <2>1. Own(m, s, y, e, st, en, <<>>)
    BY <1>4 DEF e
  <2>2. /\ Formed(y) /\ s \in DOMAIN y.strs /\ y.strs[s] \in Objects
        /\ y.strs[s].start = st /\ y.strs[s].end = en /\ y.strs[s].hash = <<>>
        /\ y.strs[s].buf \in DOMAIN y.bufs /\ y.bufs[y.strs[s].buf] = e
        /\ y.strs[s].buf \in Nat
    BY <1>2, <1>3, <2>1, OwnIs
  <2> QED
    BY <2>2
<1>8. y.strs[s].end + n <= ci_str_size(y, s)
  BY <1>4, <1>6, <1>7 DEF ci_str_size
<1>9. Now(m, s, y, t)
  BY <1>4, <1>5, NowFrom
<1> QED
  BY <1>8, <1>9 DEF y

\* Where Own holds s.
LEMMA OwnSpots ==
  ASSUME NEW m, Formed(m), NEW s \in DOMAIN m.strs, NEW x, NEW data, NEW st \in Nat, NEW en \in Nat, NEW h \in Seq(Str),
         Own(m, s, x, data, st, en, h)
  PROVE  x.strs[s].start = st /\ x.strs[s].end = en
<1>1. /\ Formed(x) /\ s \in DOMAIN x.strs /\ x.strs[s] \in Objects
      /\ x.strs[s].start = st /\ x.strs[s].end = en /\ x.strs[s].hash = h
      /\ x.strs[s].buf \in DOMAIN x.bufs /\ x.bufs[x.strs[s].buf] = data
      /\ x.strs[s].buf \in Nat
  BY OwnIs
<1> QED
  BY <1>1

\* Bytes put behind the text, where there is room.
LEMMA PutNow ==
  ASSUME NEW m, Formed(m), NEW s \in DOMAIN m.strs, NEW x, NEW t, Now(m, s, x, t),
         NEW u \in Str, x.strs[s].end + Len(u) <= ci_str_size(x, s)
  PROVE  Now(m, s, ci_str_put_tail(Write(x, s, x.strs[s].end, u), s, Len(u)), t \o u)
<1> DEFINE w == Write(x, s, x.strs[s].end, u)
           y == ci_str_put_tail(w, s, Len(u))
           v == t \o u
<1>1. PICK data, st, en : NowAt(m, s, x, t, data, st, en)
  BY NowPlace
<1>2. <<>> \in Seq(Str)
  BY EmptySeq
<1>3. /\ st \in Nat /\ en \in Nat /\ data \in Str /\ Own(m, s, x, data, st, en, <<>>)
      /\ x.strs[s].end = en /\ x.bufs[x.strs[s].buf] = data /\ t \in Str
      /\ en = st + Len(t) /\ Len(t) \in Nat /\ Len(data) \in Nat
      /\ \A i \in 1..Len(t) : data[st + i] = t[i]
  BY <1>1 DEF NowAt
<1>4. en + Len(u) <= Len(data) /\ Len(u) \in Nat
  BY <1>3, StrIs DEF ci_str_size
<1>5. /\ v \in Str /\ Len(v) = Len(t) + Len(u) /\ \A i \in 1..Len(t) : v[i] = t[i]
      /\ \A i \in 1..Len(u) : v[Len(t) + i] = u[i]
  BY <1>3, ConcatIs
<1> HIDE DEF v
<1> DEFINE e == Over(data, en, u)
<1>6. Own(m, s, w, e, st, en, <<>>)
  BY <1>2, <1>3, OwnWrite
<1>7. w.strs[s].end = en
  <2> HIDE DEF w, e
  <2> QED
    BY <1>2, <1>3, <1>6, OwnSpots
<1>8. Reads(e, st, en + Len(u), v)
  <2> DEFINE k == Len(t)
  <2>1. /\ k \in Nat /\ k + Len(u) <= Len(v) /\ st + Len(v) <= Len(data)
    BY <1>3, <1>4, <1>5
  <2>2. \A i \in 1..Len(v) : ~(i \in k + 1..k + Len(u)) => data[st + i] = v[i]
    <3> SUFFICES ASSUME NEW i \in 1..Len(v), ~(i \in k + 1..k + Len(u)) PROVE data[st + i] = v[i]
      OBVIOUS
    <3>1. i \in 1..Len(t)
      BY <1>3, <1>4, <1>5
    <3> QED
      BY <1>3, <1>5, <3>1
  <2>3. \A i \in 1..Len(u) : v[k + i] = u[i]
    BY <1>5
  <2> HIDE DEF k
  <2>4. Reads(Over(data, st + k, u), st, st + Len(v), v)
    BY <1>3, <1>5, <2>1, <2>2, <2>3, ReadsOver
  <2>5. st + k = en /\ st + Len(v) = en + Len(u)
    BY <1>3, <1>4, <1>5 DEF k
  <2> QED
    BY <2>4, <2>5
<1> HIDE DEF e, w
<1>9. en + Len(u) \in Nat
  BY <1>3, <1>4
<1> DEFINE z == [w EXCEPT !.strs[s].end = en + Len(u)]
<1>10. Own(m, s, z, e, st, en + Len(u), <<>>)
  BY <1>2, <1>3, <1>6, <1>9, OwnFields
<1>11. y = ci_str_reset_hash(z, s)
  BY <1>7 DEF ci_str_put_tail
<1> HIDE DEF z, y
<1>12. Own(m, s, y, e, st, en + Len(u), <<>>)
  BY <1>2, <1>3, <1>9, <1>10, <1>11, OwnFields
<1>13. Now(m, s, y, v)
  BY <1>8, <1>12, NowFrom
<1> QED
  BY <1>13 DEF y, w, v

\* Bytes put before the text, where there is room.
LEMMA PushNow ==
  ASSUME NEW m, Formed(m), NEW s \in DOMAIN m.strs, NEW x, NEW t, Now(m, s, x, t),
         NEW u \in Str, Len(u) <= x.strs[s].start, NEW w, w = Write(x, s, x.strs[s].start - Len(u), u)
  PROVE  Now(m, s, ci_str_reset_hash([w EXCEPT !.strs[s].start = @ - Len(u)], s), u \o t)
<1> DEFINE v == u \o t
<1>1. PICK data, st, en : NowAt(m, s, x, t, data, st, en)
  BY NowPlace
<1>2. <<>> \in Seq(Str)
  BY EmptySeq
<1>3. /\ st \in Nat /\ en \in Nat /\ data \in Str /\ Own(m, s, x, data, st, en, <<>>)
      /\ x.strs[s].start = st /\ t \in Str
      /\ en = st + Len(t) /\ en <= Len(data) /\ Len(t) \in Nat /\ Len(data) \in Nat
      /\ \A i \in 1..Len(t) : data[st + i] = t[i]
  BY <1>1 DEF NowAt
<1>4. Len(u) \in Nat
  BY StrIs
<1>5. /\ v \in Str /\ Len(v) = Len(u) + Len(t) /\ \A i \in 1..Len(u) : v[i] = u[i]
      /\ \A i \in 1..Len(t) : v[Len(u) + i] = t[i]
  BY <1>3, ConcatIs
<1> HIDE DEF v
<1> DEFINE at == st - Len(u)
           e == Over(data, at, u)
<1>6. at \in Nat /\ st = at + Len(u)
  BY <1>3, <1>4
<1> HIDE DEF at
<1>7. w = Write(x, s, at, u)
  BY <1>3 DEF at
<1>8. Own(m, s, w, e, st, en, <<>>)
  <2>1. Own(m, s, Write(x, s, at, u), e, st, en, <<>>)
    BY <1>2, <1>3, <1>6, OwnWrite
  <2> QED
    BY <1>7, <2>1
<1>9. Reads(e, at, en, v)
  <2>1. /\ 0 + Len(u) <= Len(v) /\ at + Len(v) <= Len(data)
    BY <1>3, <1>4, <1>5, <1>6
  <2>2. \A i \in 1..Len(v) : ~(i \in 0 + 1..0 + Len(u)) => data[at + i] = v[i]
    <3> SUFFICES ASSUME NEW i \in 1..Len(v), ~(i \in 0 + 1..0 + Len(u)) PROVE data[at + i] = v[i]
      OBVIOUS
    <3>1. i - Len(u) \in 1..Len(t) /\ Len(u) + (i - Len(u)) = i /\ st + (i - Len(u)) = at + i
      BY <1>3, <1>4, <1>5, <1>6
    <3> QED
      BY <1>3, <1>5, <3>1
  <2>3. \A i \in 1..Len(u) : v[0 + i] = u[i]
    BY <1>4, <1>5
  <2>4. Reads(Over(data, at + 0, u), at, at + Len(v), v)
    BY <1>3, <1>5, <1>6, <2>1, <2>2, <2>3, ReadsOver
  <2>5. at + 0 = at /\ at + Len(v) = en
    BY <1>3, <1>4, <1>5, <1>6
  <2> QED
    BY <2>4, <2>5
<1> HIDE DEF e
<1>10. w.strs[s].start = st
  BY <1>2, <1>3, <1>8, OwnSpots
<1> DEFINE z == [w EXCEPT !.strs[s].start = at]
<1>11. Own(m, s, z, e, at, en, <<>>)
  BY <1>2, <1>3, <1>6, <1>8, OwnFields
<1>12. [w EXCEPT !.strs[s].start = @ - Len(u)] = z
  BY <1>10 DEF at
<1> HIDE DEF z
<1>13. Own(m, s, ci_str_reset_hash(z, s), e, at, en, <<>>)
  BY <1>2, <1>3, <1>6, <1>11, OwnFields
<1>14. Now(m, s, ci_str_reset_hash(z, s), v)
  BY <1>9, <1>13, NowFrom
<1> QED
  BY <1>12, <1>14 DEF v

\* Room made before the text.
LEMMA HeadNow ==
  ASSUME NEW m, Formed(m), NEW s \in DOMAIN m.strs, NEW x, NEW t, Now(m, s, x, t), NEW n \in Nat
  PROVE  /\ Now(m, s, ci_str_ensure_head(x, s, n), t)
         /\ n <= ci_str_ensure_head(x, s, n).strs[s].start
<1> DEFINE y == ci_str_ensure_head(x, s, n)
<1>1. PICK data, st, en : NowAt(m, s, x, t, data, st, en)
  BY NowPlace
<1>2. <<>> \in Seq(Str)
  BY EmptySeq
<1>3. /\ st \in Nat /\ en \in Nat /\ data \in Str /\ Own(m, s, x, data, st, en, <<>>)
      /\ Reads(data, st, en, t)
  BY <1>1 DEF NowAt
<1>4. PICK d2 \in Str, st2 \in Nat, en2 \in Nat :
         Own(m, s, y, d2, st2, en2, <<>>) /\ Reads(d2, st2, en2, t) /\ n <= st2
  BY <1>2, <1>3, OwnHead
<1> HIDE DEF y
<1>5. y.strs[s].start = st2
  BY <1>2, <1>4, OwnSpots
<1>6. Now(m, s, y, t)
  BY <1>4, NowFrom
<1> QED
  BY <1>4, <1>5, <1>6 DEF y

\* The string at the base of its buffer, when it is empty.
LEMMA RebasedNow ==
  ASSUME NEW m, Formed(m), NEW s \in DOMAIN m.strs, NEW x, NEW t, Now(m, s, x, t)
  PROVE  Now(m, s, Rebased(x, s), t)
<1>1. PICK data, st, en : NowAt(m, s, x, t, data, st, en)
  BY NowPlace
<1>2. <<>> \in Seq(Str)
  BY EmptySeq
<1>3. /\ st \in Nat /\ en \in Nat /\ data \in Str /\ Own(m, s, x, data, st, en, <<>>)
      /\ x.strs[s].start = st /\ x.strs[s].end = en /\ t \in Str /\ Reads(data, st, en, t)
      /\ en = st + Len(t) /\ en <= Len(data) /\ Len(t) \in Nat /\ Len(data) \in Nat
  BY <1>1 DEF NowAt
<1>4. ci_str_len(x, s) = Len(t)
  BY <1>3 DEF ci_str_len
<1>5. CASE Len(t) > 0
  <2>1. Rebased(x, s) = ci_str_reset_hash(x, s)
    BY <1>4, <1>5 DEF Rebased
  <2>2. Own(m, s, ci_str_reset_hash(x, s), data, st, en, <<>>)
    BY <1>2, <1>3, OwnFields
  <2>3. Own(m, s, Rebased(x, s), data, st, en, <<>>)
    BY <2>1, <2>2
  <2> QED
    BY <1>3, <2>3, NowFrom
<1>6. CASE ~(Len(t) > 0)
  <2> DEFINE a == [x EXCEPT !.strs[s].start = 0]
             b == [a EXCEPT !.strs[s].end = 0]
  <2>1. [x EXCEPT !.strs[s].start = 0, !.strs[s].end = 0] = b
    <3>1. Formed(x) /\ s \in DOMAIN x.strs
      BY <1>3 DEF Own
    <3> QED
      BY <3>1 DEF Formed
  <2>2. Rebased(x, s) = ci_str_reset_hash([x EXCEPT !.strs[s].start = 0, !.strs[s].end = 0], s)
    BY <1>4, <1>6 DEF Rebased
  <2>3. Own(m, s, a, data, 0, en, <<>>)
    BY <1>2, <1>3, OwnFields
  <2> HIDE DEF a
  <2>4. Own(m, s, b, data, 0, 0, <<>>)
    BY <1>2, <1>3, <2>3, OwnFields
  <2> HIDE DEF b
  <2>5. Own(m, s, ci_str_reset_hash(b, s), data, 0, 0, <<>>)
    BY <1>2, <1>3, <2>4, OwnFields
  <2>6. Reads(data, 0, 0, t)
    <3>1. 0 = 0 + Len(t) /\ 0 <= Len(data) /\ \A i \in 1..Len(t) : data[0 + i] = t[i]
      BY <1>3, <1>6
    <3> QED
      BY <1>3, <3>1 DEF Reads
  <2>7. Rebased(x, s) = ci_str_reset_hash(b, s)
    BY <2>1, <2>2
  <2> QED
    BY <2>5, <2>6, <2>7, NowFrom
<1> QED
  BY <1>5, <1>6

\* Bytes cut at the head and at the tail.
LEMMA CutNow ==
  ASSUME NEW m, Formed(m), NEW s \in DOMAIN m.strs, NEW x, NEW t, Now(m, s, x, t), NEW k \in 0..Len(t)
  PROVE  /\ Now(m, s, ci_str_rmhead(x, s, k), SubSeq(t, k + 1, Len(t)))
         /\ Now(m, s, ci_str_rmtail(x, s, k), SubSeq(t, 0 + 1, Len(t) - k))
<1>1. PICK data, st, en : NowAt(m, s, x, t, data, st, en)
  BY NowPlace
<1>2. <<>> \in Seq(Str)
  BY EmptySeq
<1>3. /\ st \in Nat /\ en \in Nat /\ data \in Str /\ Own(m, s, x, data, st, en, <<>>)
      /\ x.strs[s].start = st /\ x.strs[s].end = en /\ t \in Str
      /\ en = st + Len(t) /\ en <= Len(data) /\ Len(t) \in Nat /\ Len(data) \in Nat
      /\ \A i \in 1..Len(t) : data[st + i] = t[i]
  BY <1>1 DEF NowAt
<1>4. Min({k, ci_str_len(x, s)}) = k
  <2>1. ci_str_len(x, s) = Len(t)
    BY <1>3 DEF ci_str_len
  <2> QED
    BY <1>3, <2>1, MinOfTwo
<1>5. Now(m, s, ci_str_rmhead(x, s, k), SubSeq(t, k + 1, Len(t)))
  <2> DEFINE y == [x EXCEPT !.strs[s].start = st + k]
             p == SubSeq(t, k + 1, Len(t))
  <2>1. /\ p \in Str /\ Len(p) = Len(t) - k /\ \A i \in 1..Len(t) - k : p[i] = t[k + i]
    <3>1. k \in Nat /\ k <= Len(t)
      BY <1>3
    <3>2. Piece(t, k, Len(t), p)
      BY <1>3, <3>1, PieceAt
    <3> HIDE DEF p
    <3> QED
      BY <3>1, <3>2 DEF Piece
  <2> HIDE DEF p
  <2>2. st + k \in Nat
    BY <1>3
  <2>3. Own(m, s, y, data, st + k, en, <<>>)
    BY <1>2, <1>3, <2>2, OwnFields
  <2>4. ci_str_rmhead(x, s, k) = Rebased(y, s)
    BY <1>3, <1>4 DEF ci_str_rmhead
  <2> HIDE DEF y
  <2>5. Reads(data, st + k, en, p)
    <3>1. \A i \in 1..Len(p) : data[(st + k) + i] = p[i]
      <4> SUFFICES ASSUME NEW i \in 1..Len(p) PROVE data[(st + k) + i] = p[i]
        OBVIOUS
      <4>1. k + i \in 1..Len(t) /\ (st + k) + i = st + (k + i)
        BY <1>3, <2>1
      <4> QED
        BY <1>3, <2>1, <4>1
    <3>2. en = (st + k) + Len(p)
      BY <1>3, <2>1
    <3> QED
      BY <1>3, <2>1, <2>2, <3>1, <3>2, Zenon DEF Reads
  <2>6. Now(m, s, y, p)
    BY <2>3, <2>5, NowFrom
  <2> QED
    BY <2>4, <2>6, RebasedNow DEF p
<1>6. Now(m, s, ci_str_rmtail(x, s, k), SubSeq(t, 0 + 1, Len(t) - k))
  <2> DEFINE y == [x EXCEPT !.strs[s].end = en - k]
             p == SubSeq(t, 0 + 1, Len(t) - k)
  <2>1. /\ p \in Str /\ Len(p) = Len(t) - k /\ \A i \in 1..Len(t) - k : p[i] = t[i]
    <3>1. Len(t) - k \in Nat /\ Len(t) - k <= Len(t) /\ 0 <= Len(t) - k
      BY <1>3
    <3> DEFINE j == Len(t) - k
    <3> HIDE DEF j
    <3>2. j \in Nat /\ j <= Len(t)
      BY <3>1 DEF j
    <3>3. Piece(t, 0, j, SubSeq(t, 0 + 1, j))
      <4>1. t \in Str
        BY <1>3
      <4>2. 0 \in Nat /\ j \in Int /\ j <= Len(t)
        BY <3>2
      <4> QED
        BY <4>1, <4>2, PieceAt
    <3> DEFINE q == SubSeq(t, 0 + 1, j)
    <3> HIDE DEF q
    <3>4. Piece(t, 0, j, q)
      BY <3>3 DEF q
    <3>5. q \in Str /\ Len(q) = j /\ \A i \in 1..j : q[i] = t[i]
      BY <3>2, <3>4 DEF Piece
    <3> QED
      BY <3>5 DEF j, q
  <2> HIDE DEF p
  <2>2. en - k \in Nat
    BY <1>3
  <2>3. Own(m, s, y, data, st, en - k, <<>>)
    BY <1>2, <1>3, <2>2, OwnFields
  <2>4. ci_str_rmtail(x, s, k) = Rebased(y, s)
    BY <1>3, <1>4 DEF ci_str_rmtail
  <2> HIDE DEF y
  <2>5. Reads(data, st, en - k, p)
    <3>1. \A i \in 1..Len(p) : data[st + i] = p[i]
      BY <1>3, <2>1
    <3>2. en - k = st + Len(p) /\ en - k <= Len(data)
      BY <1>3, <2>1
    <3> QED
      BY <1>3, <2>1, <2>2, <3>1, <3>2, Zenon DEF Reads
  <2>6. Now(m, s, y, p)
    BY <2>3, <2>5, NowFrom
  <2> QED
    BY <2>4, <2>6, RebasedNow DEF p
<1> QED
  BY <1>5, <1>6

\* What an append reads from another string's buffer.
LEMMA FetchIs ==
  ASSUME NEW m, Formed(m), NEW s \in DOMAIN m.strs, NEW x, NEW t, Now(m, s, x, t),
         NEW o \in DOMAIN m.strs, NEW u, HeldAs(m, o, u), m.strs[o].buf # m.strs[s].buf
  PROVE  Fetch(x, m.strs[o].buf, m.strs[o].start, Len(u)) = u
<1> DEFINE b == m.strs[o].buf
           st == m.strs[o].start
           en == m.strs[o].end
           data == m.bufs[b]
<1>1. b \in DOMAIN m.bufs /\ Reads(data, st, en, u)
  BY DEF HeldAs
<1>2. PICK d2 \in Str, st2 \in Nat, en2 \in Nat : Own(m, s, x, d2, st2, en2, <<>>) /\ Reads(d2, st2, en2, t)
  BY DEF Now
<1>3. b \in DOMAIN x.bufs /\ x.bufs[b] = data
  BY <1>1, <1>2 DEF Own
<1>4. b # m.strs[s].buf
  OBVIOUS
<1> HIDE DEF b, st, en, data
<1>5. en = st + Len(u) /\ en <= Len(data)
  BY <1>1 DEF Reads
<1>6. SubSeq(data, st + 1, en) = u
  BY <1>1, TextIs
<1>7. Fetch(x, b, st, Len(u)) = u
  BY <1>3, <1>5, <1>6 DEF Fetch
<1> QED
  BY <1>7 DEF b, st

\* append.
LEMMA AppendNow ==
  ASSUME NEW m, Formed(m), NEW s \in DOMAIN m.strs, NEW t, HeldAs(m, s, t),
         NEW o \in DOMAIN m.strs, NEW u, HeldAs(m, o, u), m.strs[o].buf # m.strs[s].buf,
         NEW moved \in BOOLEAN
  PROVE  Now(m, s, bb_str_append(m, s, o, moved), t \o u)
<1> DEFINE x == Checked(m, s)
           n == Len(u)
           r == ci_str_ensure_tail(x, s, n, moved)
           w == Fetch(r, m.strs[o].buf, m.strs[o].start, n)
<1>1. /\ Now(m, s, x, t) /\ u \in Str /\ n \in Nat /\ ci_str_len(m, o) = n /\ t \in Str
  BY CheckedNow, HeldText
<1>2. CASE n = 0
  <2>1. bb_str_append(m, s, o, moved) = x
    BY <1>1, <1>2 DEF bb_str_append
  <2>2. t \o u = t
    <3>1. u = <<>>
      BY <1>1, <1>2, EmptySeq DEF Str
    <3> QED
      BY <1>1, <3>1, StrIs
  <2> QED
    BY <1>1, <2>1, <2>2
<1>3. CASE n # 0
  <2>1. bb_str_append(m, s, o, moved) = ci_str_put_tail(Write(r, s, r.strs[s].end, w), s, n)
    BY <1>1, <1>3 DEF bb_str_append, ci_str_append
  <2> HIDE DEF x
  <2>2. Now(m, s, r, t) /\ r.strs[s].end + n <= ci_str_size(r, s)
    BY <1>1, TailNow
  <2> HIDE DEF r
  <2>3. w = u
    BY <2>2, FetchIs
  <2>4. Now(m, s, ci_str_put_tail(Write(r, s, r.strs[s].end, u), s, Len(u)), t \o u)
    BY <1>1, <2>2, PutNow
  <2> QED
    BY <2>1, <2>3, <2>4
<1> QED
  BY <1>2, <1>3

\* prepend.
LEMMA PrependNow ==
  ASSUME NEW m, Formed(m), NEW s \in DOMAIN m.strs, NEW t, HeldAs(m, s, t),
         NEW o \in DOMAIN m.strs, NEW u, HeldAs(m, o, u), m.strs[o].buf # m.strs[s].buf
  PROVE  Now(m, s, bb_str_prepend(m, s, o), u \o t)
<1> DEFINE x == Checked(m, s)
           n == Len(u)
           r == ci_str_ensure_head(x, s, n)
           f == Fetch(r, m.strs[o].buf, m.strs[o].start, n)
           w == Write(r, s, r.strs[s].start - n, f)
<1>1. /\ Now(m, s, x, t) /\ u \in Str /\ n \in Nat /\ ci_str_len(m, o) = n /\ t \in Str
  BY CheckedNow, HeldText
<1>2. CASE n = 0
  <2>1. bb_str_prepend(m, s, o) = x
    BY <1>1, <1>2 DEF bb_str_prepend
  <2>2. u \o t = t
    <3>1. u = <<>>
      BY <1>1, <1>2, EmptySeq DEF Str
    <3> QED
      BY <1>1, <3>1, StrIs
  <2> QED
    BY <1>1, <2>1, <2>2
<1>3. CASE n # 0
  <2>1. bb_str_prepend(m, s, o) = ci_str_reset_hash([w EXCEPT !.strs[s].start = @ - n], s)
    BY <1>1, <1>3 DEF bb_str_prepend, ci_str_prepend
  <2> HIDE DEF x
  <2>2. Now(m, s, r, t) /\ n <= r.strs[s].start
    BY <1>1, HeadNow
  <2> HIDE DEF r
  <2>3. f = u
    BY <2>2, FetchIs
  <2>4. w = Write(r, s, r.strs[s].start - Len(u), u)
    BY <2>3
  <2> HIDE DEF w
  <2>5. Now(m, s, ci_str_reset_hash([w EXCEPT !.strs[s].start = @ - Len(u)], s), u \o t)
    BY <1>1, <2>2, <2>4, PushNow
  <2> QED
    BY <2>1, <2>5
<1> QED
  BY <1>2, <1>3

\* clear.
LEMMA ClearNow ==
  ASSUME NEW m, Formed(m), NEW s \in DOMAIN m.strs, NEW t, HeldAs(m, s, t)
  PROVE  Now(m, s, bb_str_clear(m, s), <<>>)
<1> DEFINE x == Checked(m, s)
           a == [x EXCEPT !.strs[s].start = 0]
           b == [a EXCEPT !.strs[s].end = 0]
           c == [b EXCEPT !.strs[s].hash = <<>>]
<1>1. Now(m, s, x, t)
  BY CheckedNow
<1>2. PICK data, st, en : NowAt(m, s, x, t, data, st, en)
  BY <1>1, NowPlace
<1>3. /\ st \in Nat /\ en \in Nat /\ data \in Str /\ Own(m, s, x, data, st, en, <<>>) /\ Len(data) \in Nat
  BY <1>2 DEF NowAt
<1>4. <<>> \in Str /\ <<0>> \in Str /\ Len(<<>>) = 0
  BY EmptySeq DEF Str
<1>12. <<>> \in Seq(Str)
  BY EmptySeq
<1>13. 0 \in Nat
  OBVIOUS
<1>5. bb_str_clear(m, s) = Write(c, s, 0, <<0>>)
  <2>1. bb_str_clear(m, s) = Write([x EXCEPT !.strs[s].start = 0, !.strs[s].end = 0, !.strs[s].hash = <<>>], s, 0, <<0>>)
    BY Zenon DEF bb_str_clear, ci_str_clear
  <2>2. Formed(x) /\ s \in DOMAIN x.strs
    BY <1>3 DEF Own
  <2> HIDE DEF x
  <2>3. [x EXCEPT !.strs[s].start = 0, !.strs[s].end = 0, !.strs[s].hash = <<>>] = c
    BY <2>2 DEF Formed
  <2> QED
    BY <2>1, <2>3
<1> HIDE DEF x
<1>6. Own(m, s, a, data, 0, en, <<>>)
  BY <1>3, <1>12, OwnFields
<1> HIDE DEF a
<1>7. Own(m, s, b, data, 0, 0, <<>>)
  BY <1>3, <1>12, <1>6, OwnFields
<1> HIDE DEF b
<1>8. Own(m, s, c, data, 0, 0, <<>>)
  BY <1>3, <1>12, <1>13, <1>7, OwnFields
<1> HIDE DEF c
<1> DEFINE e == Over(data, 0, <<0>>)
<1>9. Own(m, s, Write(c, s, 0, <<0>>), e, 0, 0, <<>>)
  BY <1>3, <1>4, <1>12, <1>13, <1>8, OwnWrite
<1>10. e \in Str /\ Len(e) = Len(data)
  BY <1>3, <1>4, OverIs
<1> HIDE DEF e
<1>11. Reads(e, 0, 0, <<>>)
  <2>1. 0 \in Nat /\ 0 = 0 + Len(<<>>) /\ 0 <= Len(e) /\ \A i \in 1..Len(<<>>) : e[0 + i] = <<>>[i]
    BY <1>3, <1>4, <1>10
  <2> QED
    BY <1>4, <1>10, <2>1, Zenon DEF Reads
<1> QED
  BY <1>5, <1>9, <1>11, NowFrom

\* upper and lower.
LEMMA UpperNow ==
  ASSUME NEW m, Formed(m), NEW s \in DOMAIN m.strs, NEW t, HeldAs(m, s, t)
  PROVE  /\ Now(m, s, bb_str_upper(m, s), Upper(t))
         /\ Now(m, s, bb_str_lower(m, s), Lower(t))
<1>1. Text(m, s) = t /\ t \in Str /\ Len(t) \in Nat
  BY HeldText
<1>2. DOMAIN t = 1..Len(t) /\ \A i \in 1..Len(t) : t[i] \in Int
  BY <1>1, StrIs
<1>3. \A c \in Int : toupper(c) \in Int /\ downcase(c) \in Int
  BY DEF toupper, downcase
<1> DEFINE p == Upper(t)
           q == Lower(t)
<1>4. p \in [1..Len(t) -> Int] /\ q \in [1..Len(t) -> Int]
  BY <1>2, <1>3 DEF Upper, Lower
<1> HIDE DEF p, q
<1>5. p \in Str /\ q \in Str /\ Len(p) = Len(t) /\ Len(q) = Len(t)
  <2>1. p \in Str /\ Len(p) = Len(t)
    BY <1>1, <1>4 DEF Str
  <2>2. q \in Str /\ Len(q) = Len(t)
    BY <1>1, <1>4 DEF Str
  <2> QED
    BY <2>1, <2>2
<1>6. Now(m, s, Rewritten(m, s, p), p) /\ Now(m, s, Rewritten(m, s, q), q)
  BY <1>5, RewrittenNow
<1> QED
  BY <1>1, <1>6 DEF bb_str_upper, bb_str_lower, p, q

\* rev: swapping pairs from both ends reverses the text.
LEMMA RevNow ==
  ASSUME NEW m, Formed(m), NEW s \in DOMAIN m.strs, NEW t, HeldAs(m, s, t)
  PROVE  Now(m, s, bb_str_rev(m, s), Reverse(t))
<1> DEFINE n == Len(t)
           p == [i \in 1..n |-> IF i <= n \div 2 \/ i > n - n \div 2 THEN t[n + 1 - i] ELSE t[i]]
<1>1. Text(m, s) = t /\ t \in Str /\ n \in Nat
  BY HeldText
<1>2. \A i \in 1..n : t[i] \in Int
  BY <1>1, StrIs
<1>3. p = Reverse(t)
  <2>1. ASSUME NEW i \in 1..n PROVE p[i] = t[(n - i) + 1]
    <3>1. CASE i <= n \div 2 \/ i > n - n \div 2
      <4>1. n + 1 - i = (n - i) + 1
        BY <1>1
      <4> QED
        BY <3>1, <4>1
    <3>2. CASE ~(i <= n \div 2 \/ i > n - n \div 2)
      <4>1. (n - i) + 1 = i
        <5> HIDE DEF n
        <5> QED
          BY <1>1, <3>2
      <4> QED
        BY <3>2, <4>1
    <3> QED
      BY <3>1, <3>2
  <2>2. p = [i \in 1..n |-> p[i]]
    OBVIOUS
  <2> HIDE DEF p
  <2> QED
    BY <2>1, <2>2 DEF Reverse
<1>4. p \in Str /\ Len(p) = n
  <2>1. \A i \in 1..n : n + 1 - i \in 1..n
    BY <1>1
  <2>2. p \in [1..n -> Int]
    BY <1>2, <2>1
  <2> HIDE DEF p
  <2> QED
    BY <1>1, <2>2 DEF Str
<1>5. bb_str_rev(m, s) = Rewritten(m, s, p)
  BY <1>1 DEF bb_str_rev
<1> HIDE DEF p
<1>6. Now(m, s, Rewritten(m, s, p), p)
  BY <1>4, RewrittenNow
<1> QED
  BY <1>3, <1>5, <1>6

\* set.
LEMMA SetNow ==
  ASSUME NEW m, Formed(m), NEW s \in DOMAIN m.strs, NEW t, HeldAs(m, s, t),
         NEW i \in Int, NEW c \in Int, Wrapped(i, Len(t)) \in 0..Len(t) - 1
  PROVE  Now(m, s, bb_str_set(m, s, i, c), [t EXCEPT ![Wrapped(i, Len(t)) + 1] = c % 256])
<1> DEFINE k == Wrapped(i, Len(t))
           u == [t EXCEPT ![k + 1] = c % 256]
           bytes == <<c % 256>>
           x == Checked(m, s)
           at == m.strs[s].start + k
<1>1. /\ ci_str_len(m, s) = Len(t) /\ t \in Str /\ Len(t) \in Nat /\ m.strs[s].start \in Nat
  BY HeldText
<1>2. Now(m, s, x, t) /\ x.strs[s].start = m.strs[s].start
  BY CheckedNow, CheckedSpot
<1>3. bb_str_set(m, s, i, c) = Write(x, s, at, bytes)
  BY <1>1 DEF bb_str_set
<1>4. k \in Nat /\ k + 1 \in 1..Len(t) /\ c % 256 \in Int
  BY <1>1
<1>5. DOMAIN t = 1..Len(t) /\ \A j \in 1..Len(t) : t[j] \in Int
  BY <1>1, StrIs
<1>6. t = [j \in 1..Len(t) |-> t[j]]
  BY <1>1, <1>5 DEF Str
<1>7. bytes \in Str /\ Len(bytes) = 1 /\ bytes[1] = c % 256
  BY <1>4 DEF Str
<1> DEFINE d == c % 256
<1> HIDE DEF k, d
<1>8. u = [j \in 1..Len(t) |-> IF j = k + 1 THEN d ELSE t[j]]
  BY <1>6 DEF d
<1>9. u \in Str /\ Len(u) = Len(t)
  <2>1. u \in [1..Len(t) -> Int]
    BY <1>4, <1>5, <1>8 DEF d
  <2> HIDE DEF u
  <2> QED
    BY <1>1, <2>1 DEF Str
<1>10. /\ \A j \in 1..Len(t) : ~(j \in k + 1..k + Len(bytes)) => t[j] = u[j]
       /\ \A j \in 1..Len(bytes) : u[k + j] = bytes[j]
  <2>1. \A j \in 1..Len(t) : u[j] = IF j = k + 1 THEN d ELSE t[j]
    BY <1>8
  <2> HIDE DEF u, bytes
  <2>2. \A j \in 1..Len(t) : ~(j \in k + 1..k + Len(bytes)) => t[j] = u[j]
    BY <1>4, <1>7, <2>1
  <2>3. u[k + 1] = d /\ bytes[1] = d
    BY <1>4, <1>7, <2>1 DEF d
  <2> QED
    BY <1>7, <2>2, <2>3
<1>11. k + Len(bytes) <= Len(t)
  BY <1>4, <1>7
<1> HIDE DEF u, bytes, x
<1>12. Now(m, s, Write(x, s, at, bytes), u)
  BY <1>2, <1>4, <1>7, <1>9, <1>10, <1>11, WriteNow
<1> QED
  BY <1>3, <1>12 DEF u, k

\* size: room is made, or nothing is done.
LEMMA SizeNow ==
  ASSUME NEW m, Formed(m), NEW s \in DOMAIN m.strs, NEW t, HeldAs(m, s, t),
         NEW n \in Int, NEW moved \in BOOLEAN
  PROVE  bb_str_size(m, s, n, moved) = m \/ Now(m, s, bb_str_size(m, s, n, moved), t)
<1>1. CASE n <= 0
  BY <1>1 DEF bb_str_size
<1>2. CASE ~(n <= 0)
  <2> DEFINE x == Checked(m, s)
  <2>1. Now(m, s, x, t)
    BY CheckedNow
  <2>2. n \in Nat
    BY <1>2
  <2>3. bb_str_size(m, s, n, moved) = ci_str_ensure_tail(x, s, n, moved)
    BY <1>2 DEF bb_str_size
  <2> HIDE DEF x
  <2>4. Now(m, s, ci_str_ensure_tail(x, s, n, moved), t)
    BY <2>1, <2>2, TailNow
  <2> QED
    BY <2>3, <2>4
<1> QED
  BY <1>1, <1>2

Kept(t) == {i \in DOMAIN t : ~Blank(t[i])}
Trimmed(t) == IF Kept(t) = {} THEN <<>> ELSE SubSeq(t, Min(Kept(t)), Max(Kept(t)))

\* The whole of a text, and nothing of it.
LEMMA WholeText ==
  ASSUME NEW t \in Str
  PROVE  SubSeq(t, 0 + 1, Len(t)) = t /\ SubSeq(t, Len(t) + 1, Len(t)) = <<>>
<1>1. Len(t) \in Nat /\ Len(t) <= Len(t) /\ 0 \in Nat /\ 0 <= Len(t)
  BY StrIs
<1>2. Piece(t, 0, Len(t), SubSeq(t, 0 + 1, Len(t))) /\ Piece(t, Len(t), Len(t), SubSeq(t, Len(t) + 1, Len(t)))
  BY <1>1, PieceAt
<1> DEFINE p == SubSeq(t, 0 + 1, Len(t))
           q == SubSeq(t, Len(t) + 1, Len(t))
<1> HIDE DEF p, q
<1>3. p \in Str /\ Len(p) = Len(t) /\ \A i \in 1..Len(t) : p[i] = t[i]
  BY <1>1, <1>2 DEF Piece, p
<1>4. p = t
  BY <1>1, <1>3, SeqEqual DEF Str
<1>5. q \in Str /\ Len(q) = 0
  BY <1>1, <1>2 DEF Piece, q
<1>6. q = <<>>
  BY <1>5, EmptySeq DEF Str
<1> QED
  BY <1>4, <1>6 DEF p, q

\* trim.
LEMMA TrimNow ==
  ASSUME NEW m, Formed(m), NEW s \in DOMAIN m.strs, NEW t, HeldAs(m, s, t)
  PROVE  Now(m, s, bb_str_trim(m, s), Trimmed(t))
<1> DEFINE x == Checked(m, s)
           kept == Kept(t)
           head == IF kept = {} THEN Len(t) ELSE Min(kept) - 1
           tail == IF kept = {} THEN 0 ELSE Len(t) - Max(kept)
           h == IF head > 0 THEN ci_str_rmhead(x, s, head) ELSE x
           p == SubSeq(t, head + 1, Len(t))
<1>1. Text(m, s) = t /\ t \in Str /\ Len(t) \in Nat /\ DOMAIN t = 1..Len(t)
  BY HeldText, StrIs
<1>2. Now(m, s, x, t)
  BY CheckedNow
<1>3. bb_str_trim(m, s) = IF tail > 0 THEN ci_str_rmtail(h, s, tail) ELSE h
  BY <1>1 DEF bb_str_trim, Kept
<1>4. kept \subseteq 1..Len(t)
  BY <1>1 DEF Kept
<1>5. kept # {} => Min(kept) \in 1..Len(t) /\ Max(kept) \in 1..Len(t) /\ Min(kept) <= Max(kept)
  <2> SUFFICES ASSUME kept # {} PROVE Min(kept) \in 1..Len(t) /\ Max(kept) \in 1..Len(t) /\ Min(kept) <= Max(kept)
    OBVIOUS
  <2> HIDE DEF kept
  <2>1. kept \subseteq Nat
    BY <1>4
  <2>2. Min(kept) \in kept /\ \A y \in kept : Min(kept) <= y
    BY <2>1, MinIs
  <2>3. Max(kept) \in kept
    BY <1>1, <1>4, MaxIs
  <2> QED
    BY <1>4, <2>2, <2>3
<1> HIDE DEF kept, x
<1>6. head \in 0..Len(t) /\ tail \in 0..Len(t) - head
  BY <1>1, <1>5
<1> HIDE DEF head, tail
<1>7. Now(m, s, h, p)
  <2>1. CASE head > 0
    BY <1>2, <1>6, <2>1, CutNow
  <2>2. CASE ~(head > 0)
    <3>1. head = 0
      BY <1>6, <2>2
    <3>2. p = t
      BY <1>1, <3>1, WholeText
    <3>3. h = x
      BY <2>2
    <3> QED
      BY <1>2, <3>2, <3>3
  <2> QED
    BY <2>1, <2>2
<1>8. p \in Str /\ Len(p) = Len(t) - head
  <2>1. Piece(t, head, Len(t), p)
    <3>1. Len(t) <= Len(t) /\ head \in Nat /\ Len(t) \in Int
      BY <1>1, <1>6
    <3> QED
      BY <1>1, <3>1, PieceAt
  <2> HIDE DEF p
  <2>2. head <= Len(t)
    BY <1>1, <1>6
  <2> QED
    BY <2>1, <2>2, Zenon DEF Piece
<1> DEFINE u == IF tail > 0 THEN SubSeq(p, 0 + 1, Len(p) - tail) ELSE p
<1>9. Now(m, s, bb_str_trim(m, s), u)
  <2>1. CASE tail > 0
    <3> HIDE DEF h, p
    <3>1. tail \in 0..Len(p)
      BY <1>6, <1>8
    <3>2. Now(m, s, ci_str_rmtail(h, s, tail), SubSeq(p, 0 + 1, Len(p) - tail))
      BY <1>7, <3>1, CutNow
    <3> QED
      BY <1>3, <2>1, <3>2
  <2>2. CASE ~(tail > 0)
    BY <1>3, <1>7, <2>2
  <2> QED
    BY <2>1, <2>2
<1>10. u = Trimmed(t)
  <2>1. CASE kept = {}
    <3>1. head = Len(t) /\ tail = 0
      BY <2>1 DEF head, tail
    <3>2. u = p
      BY <3>1
    <3>3. p = <<>>
      BY <1>1, <3>1, WholeText
    <3>4. Trimmed(t) = <<>>
      BY <2>1 DEF Trimmed, kept
    <3> QED
      BY <3>2, <3>3, <3>4
  <2>2. CASE kept # {}
    <3> DEFINE a == Min(kept)
               b == Max(kept)
    <3>1. Trimmed(t) = SubSeq(t, a, b)
      BY <2>2, Zenon DEF Trimmed, kept
    <3>2. a \in 1..Len(t) /\ b \in 1..Len(t) /\ a <= b /\ head = a - 1 /\ tail = Len(t) - b
      BY <1>5, <2>2 DEF head, tail
    <3> HIDE DEF a, b
    <3>3. head + 1 = a /\ head \in Nat /\ head + 0 + 1 = a
      BY <1>1, <3>2
    <3>4. CASE tail > 0
      <4> DEFINE l == Len(p) - tail
      <4>1. u = SubSeq(p, 0 + 1, l)
        BY <3>4
      <4>2. l \in Nat /\ 0 <= l /\ l <= Len(t) - head /\ head + l = b /\ 0 \in Nat /\ Len(t) \in Nat
            /\ head <= Len(t) /\ Len(t) <= Len(t)
        BY <1>1, <1>8, <3>2, <3>3
      <4> HIDE DEF l, u
      <4>3. SubSeq(SubSeq(t, head + 1, Len(t)), 0 + 1, l) = SubSeq(t, head + 0 + 1, head + l)
        BY <1>1, <3>3, <4>2, PieceOfPiece
      <4> QED
        BY <3>1, <3>3, <4>1, <4>2, <4>3
    <3>5. CASE ~(tail > 0)
      <4>1. u = p
        BY <3>5
      <4>3. tail \in Int /\ tail <= 0 /\ tail >= 0
        BY <1>6, <3>5
      <4>4. b \in Int
        BY <3>2
      <4>5. Len(t) \in Int
        BY <1>1
      <4>6. tail = Len(t) - b
        BY <3>2
      <4>2. b = Len(t)
        BY <4>3, <4>4, <4>5, <4>6
      <4> QED
        BY <3>1, <3>3, <4>1, <4>2
    <3> QED
      BY <3>4, <3>5
  <2> QED
    BY <2>1, <2>2
<1> QED
  BY <1>9, <1>10

-----------------------------------------------------------------------------
(* The references counted *)

\* A finite set with at most n members.
AtMost(R, n) == IsFiniteSet(R) /\ Cardinality(R) <= n

\* f names the members of A by different members of B.
Names(f, A, B) == f \in [A -> B] /\ \A x, y \in A : f[x] = f[y] => x = y

\* Then A has no more members than B.
LEMMA Fewer ==
  ASSUME NEW A, NEW B, NEW f, Names(f, A, B), NEW n \in Nat, AtMost(B, n)
  PROVE  AtMost(A, n)
<1>1. f \in Injection(A, B)
  BY DEF Names, Injection, IsInjective
<1>2. IsFiniteSet(A) /\ Cardinality(A) <= Cardinality(B)
  BY <1>1, FS_Injection DEF AtMost
<1>3. Cardinality(A) \in Nat /\ Cardinality(B) \in Nat /\ Cardinality(B) <= n
  BY <1>2, FS_CardinalityType DEF AtMost
<1> QED
  BY <1>2, <1>3 DEF AtMost

\* A part of a set has no more members.
LEMMA Within ==
  ASSUME NEW A, NEW B, A \subseteq B, NEW n \in Nat, AtMost(B, n)
  PROVE  AtMost(A, n)
<1> DEFINE f == [x \in A |-> x]
<1>1. Names(f, A, B)
  BY DEF Names
<1> HIDE DEF f
<1> QED
  BY <1>1, Fewer

\* A reference taken and one given back.
LEMMA OneMore ==
  ASSUME NEW A, NEW B, NEW e, A \subseteq B \cup {e}, NEW n \in Nat, AtMost(B, n)
  PROVE  AtMost(A, n + 1)
<1>1. IsFiniteSet(B) /\ Cardinality(B) <= n /\ Cardinality(B) \in Nat
  BY FS_CardinalityType DEF AtMost
<1>2. IsFiniteSet(B \cup {e}) /\ Cardinality(B \cup {e}) = IF e \in B THEN Cardinality(B) ELSE Cardinality(B) + 1
  BY <1>1, FS_AddElement
<1>3. AtMost(B \cup {e}, n + 1)
  BY <1>1, <1>2 DEF AtMost
<1> QED
  BY <1>3, Within

\* One member less.
LEMMA OneLess ==
  ASSUME NEW A, NEW B, NEW e \in B, A \subseteq B \ {e}, NEW n \in Nat, AtMost(B, n)
  PROVE  n >= 1 /\ AtMost(A, n - 1)
<1>1. IsFiniteSet(B) /\ Cardinality(B) <= n /\ Cardinality(B) \in Nat
  BY FS_CardinalityType DEF AtMost
<1>2. IsFiniteSet(B \ {e}) /\ Cardinality(B \ {e}) = Cardinality(B) - 1
  BY <1>1, FS_RemoveElement
<1>3. Cardinality(B \ {e}) \in Nat
  BY <1>2, FS_CardinalityType
<1>4. n >= 1 /\ n - 1 \in Nat /\ AtMost(B \ {e}, n - 1)
  BY <1>1, <1>2, <1>3 DEF AtMost
<1> QED
  BY <1>4, Within

\* One member at most.
LEMMA JustOne ==
  ASSUME NEW A, NEW e, A \subseteq {e}, NEW n \in Nat, n >= 1
  PROVE  AtMost(A, n)
<1>1. IsFiniteSet({e}) /\ Cardinality({e}) = 1
  BY FS_Singleton
<1>2. AtMost({e}, n)
  BY <1>1 DEF AtMost
<1> QED
  BY <1>2, Within

\* No object has more references, R, than it counts.
Covers(m, R) ==
  \A s \in DOMAIN m.strs : m.strs[s].refcnt = RefMax \/ AtMost(R[s], m.strs[s].refcnt)

\* What refers to s: the script, roots[s] times; the slices of s and the
\* captures named by it; and the work of a release that is under way, its items
\* numbered from the last.
Refs(f, roots, work, s) ==
  {r \in (0..3) \X Nat :
      \/ r[1] = 0 /\ r[2] \in 1..roots[s]
      \/ r[1] = 1 /\ r[2] \in DOMAIN f /\ f[r[2]].parent = s
      \/ r[1] = 2 /\ r[2] \in DOMAIN f /\ f[r[2]].ctx = s
      \/ r[1] = 3 /\ r[2] < Len(work) /\ work[Len(work) - r[2]] = s}

RefsTo(m, roots, work) == [s \in DOMAIN m.strs |-> Refs(m.strs, roots, work, s)]

Counted(m, roots, work) == Covers(m, RefsTo(m, roots, work))

\* An owner has a buffer to itself among the owners; a slice is one of the static
\* buffer, or points into the buffer its parent points into.
ShapeOf(m, s) ==
  IF m.strs[s].kind = "slice"
  THEN /\ \/ m.strs[s].parent = Null /\ m.strs[s].buf = Static
          \/ m.strs[s].parent \in DOMAIN m.strs /\ m.strs[m.strs[s].parent].buf = m.strs[s].buf
       /\ m.strs[s].ctx = Null \/ m.strs[s].ctx \in DOMAIN m.strs
  ELSE m.strs[s].parent = Null /\ m.strs[s].ctx = Null /\ m.strs[s].buf # Static

Apart(m) ==
  \A s, t \in DOMAIN m.strs :
      s # t /\ m.strs[s].kind # "slice" /\ m.strs[t].kind # "slice" => m.strs[s].buf # m.strs[t].buf

\* Parents do not go round in a circle.
Grounded(f) == \A T \in SUBSET DOMAIN f : T # {} => \E t \in T : f[t].parent \notin T

Shape(m) ==
  /\ Formed(m) /\ Static \in DOMAIN m.bufs
  /\ \A s \in DOMAIN m.strs : ShapeOf(m, s)
  /\ Apart(m) /\ Grounded(m.strs)

Held(m, v) == DOMAIN m.strs \subseteq DOMAIN v /\ \A s \in DOMAIN m.strs : HeldAs(m, s, v[s])

Rooted(m, roots, work) ==
  /\ DOMAIN m.strs \subseteq DOMAIN roots /\ \A s \in DOMAIN m.strs : roots[s] \in Nat
  /\ work \in Seq(DOMAIN m.strs \cup {Null})

\* Every object reads as its text, and is there as long as anything refers to it.
StoreInv(m, v, roots, work) ==
  Shape(m) /\ Held(m, v) /\ Rooted(m, roots, work) /\ Counted(m, roots, work)

\* The same objects but for where their bytes are.
Alike(m, x) ==
  /\ DOMAIN x.strs = DOMAIN m.strs
  /\ \A s \in DOMAIN m.strs :
        /\ x.strs[s].kind = m.strs[s].kind /\ x.strs[s].refcnt = m.strs[s].refcnt
        /\ x.strs[s].parent = m.strs[s].parent /\ x.strs[s].ctx = m.strs[s].ctx

\* What refers to an object does not depend on where the bytes are.
LEMMA AlikeRefs ==
  ASSUME NEW m, NEW x, Alike(m, x), NEW roots, NEW work
  PROVE  /\ RefsTo(x, roots, work) = RefsTo(m, roots, work)
         /\ Counted(m, roots, work) => Counted(x, roots, work)
         /\ Rooted(m, roots, work) => Rooted(x, roots, work)
         /\ Grounded(m.strs) => Grounded(x.strs)
<1>1. ASSUME NEW s \in DOMAIN m.strs PROVE Refs(x.strs, roots, work, s) = Refs(m.strs, roots, work, s)
  BY DEF Refs, Alike
<1>2. RefsTo(x, roots, work) = RefsTo(m, roots, work)
  BY <1>1 DEF RefsTo, Alike
<1>3. Counted(m, roots, work) => Counted(x, roots, work)
  BY <1>2 DEF Counted, Covers, Alike
<1>4. Rooted(m, roots, work) => Rooted(x, roots, work)
  BY DEF Rooted, Alike
<1>5. Grounded(m.strs) => Grounded(x.strs)
  BY DEF Grounded, Alike
<1> QED
  BY <1>2, <1>3, <1>4, <1>5

\* A change of one object and its buffer leaves the objects alike.
LEMMA OwnAlike ==
  ASSUME NEW m, NEW s, NEW x, NEW data, NEW st, NEW en, NEW h, Own(m, s, x, data, st, en, h)
  PROVE  Alike(m, x)
<1>1. x.strs[s] = At(m.strs[s], x.strs[s].buf, st, en, h)
  BY DEF Own
<1> DEFINE a == At(m.strs[s], x.strs[s].buf, st, en, h)
<1>2. /\ a.kind = m.strs[s].kind /\ a.refcnt = m.strs[s].refcnt
      /\ a.parent = m.strs[s].parent /\ a.ctx = m.strs[s].ctx
  BY DEF At
<1> HIDE DEF a
<1>3. x.strs[s] = a
  BY <1>1 DEF a
<1>4. DOMAIN x.strs = DOMAIN m.strs /\ \A t \in DOMAIN m.strs : t # s => x.strs[t] = m.strs[t]
  BY DEF Own
<1> QED
  BY <1>2, <1>3, <1>4 DEF Alike

\* No other object reads the buffer of s.
Alone(m, s) == \A t \in DOMAIN m.strs : t # s => m.strs[t].buf # m.strs[s].buf

\* An owner that is read by no slice may be changed.
LEMMA EditedGood ==
  ASSUME NEW m, NEW v, NEW roots, NEW work, StoreInv(m, v, roots, work),
         NEW s \in DOMAIN m.strs, m.strs[s].kind # "slice", Alone(m, s),
         NEW x, NEW t, Now(m, s, x, t)
  PROVE  StoreInv(x, [v EXCEPT ![s] = t], roots, work)
<1>1. PICK data \in Str, st \in Nat, en \in Nat : Own(m, s, x, data, st, en, <<>>) /\ Reads(data, st, en, t)
  BY DEF Now
<1>2. Shape(m) /\ Held(m, v) /\ Rooted(m, roots, work) /\ Counted(m, roots, work)
  BY DEF StoreInv
<1>3. Alike(m, x)
  BY <1>1, OwnAlike
<1>4. Counted(x, roots, work) /\ Rooted(x, roots, work) /\ Grounded(x.strs)
  <2>1. Grounded(m.strs)
    BY <1>2 DEF Shape
  <2> QED
    BY <1>2, <1>3, <2>1, AlikeRefs
<1>5. /\ Formed(m) /\ Static \in DOMAIN m.bufs /\ \A u \in DOMAIN m.strs : ShapeOf(m, u)
      /\ Apart(m)
  BY <1>2 DEF Shape
<1>6. /\ Formed(x) /\ DOMAIN x.strs = DOMAIN m.strs /\ s \in DOMAIN x.strs /\ HeldAs(x, s, t)
  BY <1>5, NowIs
<1> DEFINE b == x.strs[s].buf
<1>7. /\ \A u \in DOMAIN m.strs : u # s => x.strs[u] = m.strs[u]
      /\ \A c \in DOMAIN m.bufs : c # m.strs[s].buf => c \in DOMAIN x.bufs /\ x.bufs[c] = m.bufs[c]
      /\ b = m.strs[s].buf \/ b \notin Used(m)
  BY <1>1 DEF Own
<1>8. m.strs[s].parent = Null /\ m.strs[s].ctx = Null /\ m.strs[s].buf # Static
  BY <1>5 DEF ShapeOf
<1>9. Static \in DOMAIN x.bufs /\ b # Static
  BY <1>5, <1>7, <1>8 DEF Used
<1>10. \A u \in DOMAIN m.strs : u # s => m.strs[u].buf # b
  BY <1>7 DEF Alone, Used
<1>11. \A u \in DOMAIN x.strs : ShapeOf(x, u)
  <2> SUFFICES ASSUME NEW u \in DOMAIN m.strs PROVE ShapeOf(x, u)
    BY <1>6
  <2>1. CASE u = s
    <3>1. x.strs[s].kind # "slice" /\ x.strs[s].parent = Null /\ x.strs[s].ctx = Null
      BY <1>3, <1>8 DEF Alike
    <3> QED
      BY <1>9, <2>1, <3>1 DEF ShapeOf
  <2>2. CASE u # s
    <3>1. x.strs[u] = m.strs[u] /\ ShapeOf(m, u)
      BY <1>5, <1>7, <2>2
    <3>2. s # Null
      BY <1>5, ObjectIs, CiStringAssumption
    <3>3. m.strs[u].parent \in DOMAIN m.strs /\ m.strs[u].parent # s
             => x.strs[m.strs[u].parent] = m.strs[m.strs[u].parent]
      BY <1>7
    <3>4. CASE m.strs[u].kind = "slice"
      <4>1. m.strs[u].parent # s
        BY <2>2, <3>1, <3>2, <3>4 DEF ShapeOf, Alone
      <4> QED
        BY <1>6, <3>1, <3>3, <3>4, <4>1 DEF ShapeOf
    <3>5. CASE m.strs[u].kind # "slice"
      BY <3>1, <3>5 DEF ShapeOf
    <3> QED
      BY <3>4, <3>5
  <2> QED
    BY <2>1, <2>2
<1>12. Apart(x)
  <2> SUFFICES ASSUME NEW p \in DOMAIN m.strs, NEW q \in DOMAIN m.strs, p # q,
                      x.strs[p].kind # "slice", x.strs[q].kind # "slice"
               PROVE  x.strs[p].buf # x.strs[q].buf
    BY <1>6 DEF Apart
  <2>1. m.strs[p].kind # "slice" /\ m.strs[q].kind # "slice"
    BY <1>3 DEF Alike
  <2>2. m.strs[p].buf # m.strs[q].buf
    BY <1>5, <2>1 DEF Apart
  <2>3. CASE p # s /\ q # s
    BY <1>7, <2>2, <2>3
  <2>4. CASE p = s
    BY <1>7, <1>10, <2>4
  <2>5. CASE q = s
    BY <1>7, <1>10, <2>5
  <2> QED
    BY <2>3, <2>4, <2>5
<1>13. Shape(x)
  BY <1>4, <1>6, <1>9, <1>11, <1>12 DEF Shape
<1> DEFINE w == [v EXCEPT ![s] = t]
<1>14. Held(x, w)
  <2>1. DOMAIN x.strs \subseteq DOMAIN w /\ w[s] = t /\ \A u \in DOMAIN m.strs : u # s => w[u] = v[u]
    BY <1>2, <1>6 DEF Held
  <2> HIDE DEF w
  <2>2. ASSUME NEW u \in DOMAIN m.strs, u # s PROVE HeldAs(x, u, w[u])
    <3>1. HeldAs(m, u, v[u]) /\ x.strs[u] = m.strs[u]
      BY <1>2, <1>7, <2>2 DEF Held
    <3>2. m.strs[u].buf # m.strs[s].buf
      BY <2>2 DEF Alone
    <3>3. m.strs[u].buf \in DOMAIN m.bufs
      BY <3>1 DEF HeldAs
    <3>4. m.strs[u].buf \in DOMAIN x.bufs /\ x.bufs[m.strs[u].buf] = m.bufs[m.strs[u].buf]
      BY <1>7, <3>2, <3>3
    <3>5. HeldAs(x, u, v[u])
      BY <3>1, <3>4, Zenon DEF HeldAs
    <3> QED
      BY <2>1, <2>2, <3>5
  <2>3. \A u \in DOMAIN m.strs : HeldAs(x, u, w[u])
    BY <1>6, <2>1, <2>2
  <2> QED
    BY <1>6, <2>1, <2>3 DEF Held
<1> QED
  BY <1>4, <1>13, <1>14 DEF StoreInv

\* The hash of a text kept in the object.
LEMMA HashGood ==
  ASSUME NEW m, NEW v, NEW roots, NEW work, StoreInv(m, v, roots, work), NEW s \in DOMAIN m.strs
  PROVE  StoreInv(ci_str_hash(m, s), v, roots, work)
<1>1. Shape(m) /\ Held(m, v) /\ Rooted(m, roots, work) /\ Counted(m, roots, work)
  BY DEF StoreInv
<1>2. Formed(m) /\ HeldAs(m, s, v[s])
  BY <1>1 DEF Shape, Held
<1>3. CASE m.strs[s].hash # <<>>
  BY <1>3 DEF ci_str_hash
<1>4. CASE m.strs[s].hash = <<>>
  <2> DEFINE h == HashOf(v[s])
             x == [m EXCEPT !.strs[s].hash = h]
  <2>1. ci_str_hash(m, s) = x
    BY <1>2, <1>4, HeldText DEF ci_str_hash
  <2>2. h \in Seq(Str)
    BY <1>2, HeldText DEF HashOf
  <2>3. m.strs[s].buf \in DOMAIN m.bufs /\ m.strs[s] \in Objects
    BY <1>2, ObjectIs DEF HeldAs
  <2>4. Own(m, s, m, m.bufs[m.strs[s].buf], m.strs[s].start, m.strs[s].end, m.strs[s].hash)
    BY <1>2, <2>3, OwnSelf
  <2>5. /\ m.strs[s].start \in Nat /\ m.strs[s].end \in Nat /\ m.strs[s].hash \in Seq(Str)
    BY <2>3 DEF Objects
  <2> HIDE DEF h
  <2>6. x = Put(m, s, [m.strs[s] EXCEPT !.hash = h])
    <3>1. FieldPuts(m, s, h)
      BY <1>2, FieldIs
    <3> QED
      BY <3>1, Zenon DEF FieldPuts
  <2> DEFINE o == [m.strs[s] EXCEPT !.hash = h]
  <2>7. /\ o \in Objects /\ o.hash = h /\ o.kind = m.strs[s].kind /\ o.refcnt = m.strs[s].refcnt
        /\ o.buf = m.strs[s].buf /\ o.start = m.strs[s].start /\ o.end = m.strs[s].end
        /\ o.parent = m.strs[s].parent /\ o.ctx = m.strs[s].ctx
    BY <2>2, <2>3 DEF Objects
  <2> HIDE DEF o
  <2>8. x = Put(m, s, o)
    BY <2>6 DEF o
  <2> HIDE DEF x
  <2>9. /\ Formed(x) /\ x.strs[s] = o /\ x.bufs = m.bufs /\ DOMAIN x.strs = DOMAIN m.strs
        /\ \A t \in DOMAIN m.strs : t # s => x.strs[t] = m.strs[t]
    BY <1>2, <2>7, <2>8, PutIs
  <2>10. /\ Alike(m, x) /\ \A t \in DOMAIN m.strs : x.strs[t].buf = m.strs[t].buf
    BY <2>7, <2>9 DEF Alike
  <2>11. Counted(x, roots, work) /\ Rooted(x, roots, work) /\ Grounded(x.strs)
    <3>1. Grounded(m.strs)
      BY <1>1 DEF Shape
    <3> QED
      BY <1>1, <2>10, <3>1, AlikeRefs
  <2>12. Shape(x)
    <3>1. \A t \in DOMAIN x.strs : ShapeOf(x, t)
      <4> SUFFICES ASSUME NEW t \in DOMAIN m.strs PROVE ShapeOf(x, t)
        BY <2>9
      <4>1. ShapeOf(m, t)
        BY <1>1 DEF Shape
      <4> QED
        BY <2>9, <2>10, <4>1 DEF ShapeOf, Alike
    <3>2. Apart(x)
      <4>1. Apart(m)
        BY <1>1 DEF Shape
      <4> QED
        BY <2>10, <4>1 DEF Apart, Alike
    <3>3. Static \in DOMAIN x.bufs
      BY <1>1, <2>9 DEF Shape
    <3> QED
      BY <2>9, <2>11, <3>1, <3>2, <3>3 DEF Shape
  <2>13. Held(x, v)
    <3> SUFFICES ASSUME NEW t \in DOMAIN m.strs PROVE HeldAs(x, t, v[t])
      BY <1>1, <2>9 DEF Held
    <3>1. HeldAs(m, t, v[t])
      BY <1>1 DEF Held
    <3>2. CASE t # s
      <4>1. x.strs[t] = m.strs[t] /\ x.bufs = m.bufs
        BY <2>9, <3>2
      <4> QED
        BY <3>1, <4>1, Zenon DEF HeldAs
    <3>3. CASE t = s
      <4>1. /\ x.strs[s].buf = m.strs[s].buf /\ x.strs[s].start = m.strs[s].start
            /\ x.strs[s].end = m.strs[s].end /\ x.bufs = m.bufs /\ x.strs[s].hash = h
        BY <2>7, <2>9
      <4>2. HeldAs(x, s, v[s])
        BY <1>2, <4>1 DEF HeldAs, h
      <4> QED
        BY <3>3, <4>2
    <3> QED
      BY <3>2, <3>3
  <2>14. StoreInv(x, v, roots, work)
    BY <2>11, <2>12, <2>13 DEF StoreInv
  <2> QED
    BY <2>1, <2>14 DEF x
<1> QED
  BY <1>3, <1>4

\* The same store but for reference counts.
Like(m, x) ==
  /\ Formed(x) /\ x.bufs = m.bufs /\ DOMAIN x.strs = DOMAIN m.strs
  /\ \A s \in DOMAIN m.strs :
        /\ x.strs[s].kind = m.strs[s].kind /\ x.strs[s].buf = m.strs[s].buf
        /\ x.strs[s].start = m.strs[s].start /\ x.strs[s].end = m.strs[s].end
        /\ x.strs[s].hash = m.strs[s].hash
        /\ x.strs[s].parent = m.strs[s].parent /\ x.strs[s].ctx = m.strs[s].ctx

\* Counts do not matter to the shape and to the texts.
LEMMA LikeIs ==
  ASSUME NEW m, NEW x, Like(m, x), Shape(m), NEW v, Held(m, v)
  PROVE  Shape(x) /\ Held(x, v)
<1>1. Shape(x)
  <2>1. \A s \in DOMAIN x.strs : ShapeOf(x, s)
    <3> SUFFICES ASSUME NEW s \in DOMAIN m.strs PROVE ShapeOf(x, s)
      BY DEF Like
    <3>1. ShapeOf(m, s)
      BY DEF Shape
    <3> QED
      BY <3>1 DEF Like, ShapeOf
  <2>2. Apart(x)
    <3>1. Apart(m)
      BY DEF Shape
    <3> QED
      BY <3>1 DEF Like, Apart
  <2>3. Grounded(x.strs)
    <3>1. Grounded(m.strs)
      BY DEF Shape
    <3> QED
      BY <3>1 DEF Like, Grounded
  <2>4. Formed(x) /\ Static \in DOMAIN x.bufs
    BY DEF Like, Shape
  <2> QED
    BY <2>1, <2>2, <2>3, <2>4 DEF Shape
<1>2. Held(x, v)
  <2> SUFFICES ASSUME NEW s \in DOMAIN m.strs PROVE HeldAs(x, s, v[s])
    BY DEF Held, Like
  <2>1. HeldAs(m, s, v[s])
    BY DEF Held
  <2>2. /\ x.strs[s].buf = m.strs[s].buf /\ x.strs[s].start = m.strs[s].start
        /\ x.strs[s].end = m.strs[s].end /\ x.strs[s].hash = m.strs[s].hash /\ x.bufs = m.bufs
    BY DEF Like
  <2> QED
    BY <2>1, <2>2, Zenon DEF HeldAs
<1> QED
  BY <1>1, <1>2

\* The store with the count of s set to k.
Recounted(m, s, x, k) ==
  /\ Like(m, x) /\ x.strs[s].refcnt = k
  /\ \A t \in DOMAIN m.strs : t # s => x.strs[t] = m.strs[t]

\* Setting the count changes nothing else.
LEMMA RecountIs ==
  ASSUME NEW m, Formed(m), NEW s \in DOMAIN m.strs, NEW k \in Nat
  PROVE  Recounted(m, s, [m EXCEPT !.strs[s].refcnt = k], k)
<1> DEFINE x == [m EXCEPT !.strs[s].refcnt = k]
           o == [m.strs[s] EXCEPT !.refcnt = k]
<1>1. m = [strs |-> m.strs, bufs |-> m.bufs] /\ m.strs = [t \in DOMAIN m.strs |-> m.strs[t]]
  BY DEF Formed
<1>2. x = Put(m, s, o)
  BY <1>1 DEF Put
<1>3. m.strs[s] \in Objects
  BY ObjectIs
<1>4. /\ o \in Objects /\ o.refcnt = k /\ o.hash = m.strs[s].hash /\ o.kind = m.strs[s].kind
      /\ o.buf = m.strs[s].buf /\ o.start = m.strs[s].start /\ o.end = m.strs[s].end
      /\ o.parent = m.strs[s].parent /\ o.ctx = m.strs[s].ctx
  BY <1>3 DEF Objects
<1> HIDE DEF o, x
<1>5. /\ Formed(x) /\ x.strs[s] = o /\ x.bufs = m.bufs /\ DOMAIN x.strs = DOMAIN m.strs
      /\ \A t \in DOMAIN m.strs : t # s => x.strs[t] = m.strs[t]
  BY <1>2, <1>4, PutIs
<1>6. Recounted(m, s, x, k)
  BY <1>4, <1>5 DEF Recounted, Like
<1> QED
  BY <1>6 DEF x

\* ci_inc.
LEMMA IncIs ==
  ASSUME NEW m, Formed(m), NEW s \in DOMAIN m.strs, NEW R, Covers(m, R),
         NEW Q, NEW e, Q[s] \subseteq R[s] \cup {e},
         \A t \in DOMAIN m.strs : t # s => Q[t] \subseteq R[t]
  PROVE  Like(m, ci_str_inc(m, s)) /\ Covers(ci_str_inc(m, s), Q)
<1> DEFINE c == m.strs[s].refcnt
           k == IF c >= RefMax - 1 THEN RefMax ELSE c + 1
           x == [m EXCEPT !.strs[s].refcnt = k]
<1>1. c \in Nat /\ s # Null /\ k \in Nat /\ RefMax \in Nat
  BY ObjectIs, CiStringAssumption
<1>2. ci_str_inc(m, s) = x
  BY <1>1 DEF ci_str_inc
<1>3. k = RefMax \/ k = c + 1
  OBVIOUS
<1>4. c = RefMax => k = RefMax
  BY <1>1
<1> HIDE DEF k
<1>5. Recounted(m, s, x, k)
  BY <1>1, RecountIs
<1> HIDE DEF x
<1>6. ASSUME NEW t \in DOMAIN m.strs PROVE x.strs[t].refcnt = RefMax \/ AtMost(Q[t], x.strs[t].refcnt)
  <2>1. m.strs[t].refcnt = RefMax \/ AtMost(R[t], m.strs[t].refcnt)
    BY DEF Covers
  <2>2. CASE t = s
    <3>1. x.strs[t].refcnt = k
      BY <1>5, <2>2 DEF Recounted
    <3>2. AtMost(R[s], c) => AtMost(Q[s], c + 1)
      BY <1>1, OneMore
    <3> QED
      BY <1>3, <1>4, <2>1, <2>2, <3>1, <3>2
  <2>3. CASE t # s
    <3>1. x.strs[t] = m.strs[t] /\ Q[t] \subseteq R[t] /\ m.strs[t].refcnt \in Nat
      BY <1>5, <2>3, ObjectIs DEF Recounted
    <3>2. AtMost(R[t], m.strs[t].refcnt) => AtMost(Q[t], m.strs[t].refcnt)
      BY <3>1, Within
    <3> QED
      BY <2>1, <3>1, <3>2
  <2> QED
    BY <2>2, <2>3
<1>7. Like(m, x) /\ DOMAIN x.strs = DOMAIN m.strs
  BY <1>5 DEF Recounted, Like
<1> QED
  BY <1>2, <1>6, <1>7 DEF Covers

\* A new object.
Joins(m, n, o, B, x) ==
  /\ n \in Nat \ {0} /\ n \notin DOMAIN m.strs /\ n # Null /\ o \in Objects
  /\ x = [strs |-> With(m.strs, n, o), bufs |-> B]
  /\ B \in [DOMAIN B -> Str] /\ IsFiniteSet(DOMAIN B) /\ DOMAIN B \subseteq Nat
  /\ \A b \in DOMAIN m.bufs : b \in DOMAIN B /\ B[b] = m.bufs[b]
  /\ o.parent \in DOMAIN m.strs \cup {Null} /\ o.ctx \in DOMAIN m.strs \cup {Null}
  /\ o.refcnt >= 1

\* The store with the new object.
LEMMA JoinsIs ==
  ASSUME NEW m, Formed(m), NEW n, NEW o, NEW B, NEW x, Joins(m, n, o, B, x)
  PROVE  /\ Formed(x) /\ DOMAIN x.strs = DOMAIN m.strs \cup {n} /\ x.strs[n] = o /\ x.bufs = B
         /\ \A t \in DOMAIN m.strs : x.strs[t] = m.strs[t]
<1>1. /\ x = [strs |-> x.strs, bufs |-> x.bufs] /\ x.strs = With(m.strs, n, o) /\ x.bufs = B
      /\ n \in Nat \ {0} /\ n \notin DOMAIN m.strs /\ o \in Objects
      /\ B \in [DOMAIN B -> Str] /\ IsFiniteSet(DOMAIN B) /\ DOMAIN B \subseteq Nat
  BY DEF Joins
<1>2. /\ DOMAIN x.strs = DOMAIN m.strs \cup {n} /\ x.strs[n] = o
      /\ \A t \in DOMAIN m.strs : x.strs[t] = m.strs[t]
      /\ x.strs = [t \in DOMAIN x.strs |-> x.strs[t]]
  BY <1>1 DEF With
<1>3. /\ IsFiniteSet(DOMAIN m.strs) /\ DOMAIN m.strs \subseteq Nat \ {0}
      /\ m.strs \in [DOMAIN m.strs -> Objects]
  BY DEF Formed
<1>4. IsFiniteSet(DOMAIN x.strs)
  BY <1>2, <1>3, FS_AddElement
<1>5. x.strs \in [DOMAIN x.strs -> Objects]
  <2>1. \A t \in DOMAIN x.strs : x.strs[t] \in Objects
    BY <1>1, <1>2, <1>3
  <2> QED
    BY <1>2, <2>1
<1>6. DOMAIN x.strs \subseteq Nat \ {0}
  BY <1>1, <1>2, <1>3
<1>7. Formed(x)
  BY <1>1, <1>4, <1>5, <1>6 DEF Formed
<1> QED
  BY <1>1, <1>2, <1>7

\* It keeps the shape of the store.
LEMMA JoinsShape ==
  ASSUME NEW m, Shape(m), NEW n, NEW o, NEW B, NEW x, Joins(m, n, o, B, x),
         ShapeOf(x, n), o.kind # "slice" => o.buf \notin Used(m)
  PROVE  Shape(x)
<1>1. /\ Formed(m) /\ Static \in DOMAIN m.bufs /\ \A s \in DOMAIN m.strs : ShapeOf(m, s)
      /\ Apart(m) /\ Grounded(m.strs)
  BY DEF Shape
<1>2. /\ Formed(x) /\ DOMAIN x.strs = DOMAIN m.strs \cup {n} /\ x.strs[n] = o /\ x.bufs = B
      /\ \A t \in DOMAIN m.strs : x.strs[t] = m.strs[t]
  BY <1>1, JoinsIs
<1>3. /\ n \notin DOMAIN m.strs /\ n # Null /\ o.parent \in DOMAIN m.strs \cup {Null}
      /\ \A b \in DOMAIN m.bufs : b \in DOMAIN B
  BY DEF Joins
<1>4. \A s \in DOMAIN x.strs : ShapeOf(x, s)
  <2> SUFFICES ASSUME NEW s \in DOMAIN m.strs PROVE ShapeOf(x, s)
    BY <1>2
  <2>1. ShapeOf(m, s)
    BY <1>1
  <2> QED
    BY <1>2, <2>1 DEF ShapeOf
<1>5. Apart(x)
  <2> SUFFICES ASSUME NEW s \in DOMAIN x.strs, NEW t \in DOMAIN x.strs, s # t,
                      x.strs[s].kind # "slice", x.strs[t].kind # "slice"
               PROVE  x.strs[s].buf # x.strs[t].buf
    BY DEF Apart
  <2>1. CASE s = n
    BY <1>2, <2>1 DEF Used
  <2>2. CASE t = n
    BY <1>2, <2>2 DEF Used
  <2>3. CASE s # n /\ t # n
    BY <1>1, <1>2, <2>3 DEF Apart
  <2> QED
    BY <2>1, <2>2, <2>3
<1>6. Grounded(x.strs)
  <2> SUFFICES ASSUME NEW T \in SUBSET DOMAIN x.strs, T # {} PROVE \E t \in T : x.strs[t].parent \notin T
    BY DEF Grounded
  <2>1. CASE T \cap DOMAIN m.strs = {}
    <3>1. T = {n}
      BY <1>2, <2>1
    <3> QED
      BY <1>2, <1>3, <3>1
  <2>2. CASE T \cap DOMAIN m.strs # {}
    <3>1. PICK t \in T \cap DOMAIN m.strs : m.strs[t].parent \notin T \cap DOMAIN m.strs
      BY <1>1, <2>2 DEF Grounded
    <3>2. m.strs[t].parent \in DOMAIN m.strs \/ m.strs[t].parent = Null
      BY <1>1, <3>1 DEF ShapeOf
    <3>3. Null \notin DOMAIN x.strs
      BY <1>2, ObjectIs, CiStringAssumption
    <3> QED
      BY <1>2, <3>1, <3>2, <3>3
  <2> QED
    BY <2>1, <2>2
<1>7. Static \in DOMAIN x.bufs
  BY <1>1, <1>2, <1>3
<1> QED
  BY <1>2, <1>4, <1>5, <1>6, <1>7 DEF Shape

\* It keeps the texts of the others.
LEMMA JoinsHeld ==
  ASSUME NEW m, Formed(m), NEW n, NEW o, NEW B, NEW x, Joins(m, n, o, B, x),
         NEW v, Held(m, v), NEW t, HeldAs(x, n, t)
  PROVE  Held(x, With(v, n, t))
<1>1. /\ DOMAIN x.strs = DOMAIN m.strs \cup {n} /\ x.bufs = B
      /\ \A s \in DOMAIN m.strs : x.strs[s] = m.strs[s]
  <2>1. /\ Formed(x) /\ DOMAIN x.strs = DOMAIN m.strs \cup {n} /\ x.strs[n] = o /\ x.bufs = B
        /\ \A s \in DOMAIN m.strs : x.strs[s] = m.strs[s]
    BY JoinsIs
  <2> QED
    BY <2>1
<1>2. n \notin DOMAIN m.strs /\ \A b \in DOMAIN m.bufs : b \in DOMAIN B /\ B[b] = m.bufs[b]
  BY DEF Joins
<1> DEFINE w == With(v, n, t)
<1>3. DOMAIN m.strs \subseteq DOMAIN v /\ \A s \in DOMAIN m.strs : HeldAs(m, s, v[s])
  BY DEF Held
<1>4. DOMAIN w = DOMAIN v \cup {n} /\ w[n] = t /\ \A s \in DOMAIN m.strs : w[s] = v[s]
  BY <1>2, <1>3 DEF With
<1> HIDE DEF w
<1>5. ASSUME NEW s \in DOMAIN m.strs PROVE HeldAs(x, s, w[s])
  <2>1. HeldAs(m, s, v[s]) /\ x.strs[s] = m.strs[s] /\ w[s] = v[s]
    BY <1>1, <1>3, <1>4
  <2>2. m.strs[s].buf \in DOMAIN m.bufs
    BY <2>1 DEF HeldAs
  <2>3. m.strs[s].buf \in DOMAIN x.bufs /\ x.bufs[m.strs[s].buf] = m.bufs[m.strs[s].buf]
    BY <1>1, <1>2, <2>2
  <2>4. HeldAs(x, s, v[s])
    BY <2>1, <2>3, Zenon DEF HeldAs
  <2> QED
    BY <2>1, <2>4
<1>6. Held(x, w)
  BY <1>1, <1>3, <1>4, <1>5 DEF Held
<1> QED
  BY <1>6 DEF w

\* What refers to the objects there were, and to the new one.
LEMMA JoinsRefs ==
  ASSUME NEW m, Shape(m), NEW n, NEW o, NEW B, NEW x, Joins(m, n, o, B, x),
         NEW roots, Rooted(m, roots, <<>>)
  PROVE  /\ \A t \in DOMAIN m.strs : \A r \in Refs(x.strs, With(roots, n, 1), <<>>, t) :
               \/ r \in Refs(m.strs, roots, <<>>, t)
               \/ r = <<1, n>> /\ o.parent = t
               \/ r = <<2, n>> /\ o.ctx = t
         /\ Refs(x.strs, With(roots, n, 1), <<>>, n) \subseteq {<<0, 1>>}
         /\ Rooted(x, With(roots, n, 1), <<>>)
<1> DEFINE q == With(roots, n, 1)
           f == m.strs
           g == x.strs
<1>1. Formed(m) /\ \A s \in DOMAIN f : ShapeOf(m, s)
  BY DEF Shape
<1>2. DOMAIN g = DOMAIN f \cup {n} /\ g[n] = o /\ \A t \in DOMAIN f : g[t] = f[t]
  <2>1. /\ Formed(x) /\ DOMAIN x.strs = DOMAIN m.strs \cup {n} /\ x.strs[n] = o /\ x.bufs = B
        /\ \A t \in DOMAIN m.strs : x.strs[t] = m.strs[t]
    BY <1>1, JoinsIs
  <2> QED
    BY <2>1
<1>3. /\ n \notin DOMAIN f /\ n # Null /\ o.parent \in DOMAIN f \cup {Null} /\ o.ctx \in DOMAIN f \cup {Null}
  BY DEF Joins
<1>4. /\ DOMAIN q = DOMAIN roots \cup {n} /\ q[n] = 1 /\ \A t \in DOMAIN f : q[t] = roots[t]
      /\ DOMAIN f \subseteq DOMAIN roots /\ \A t \in DOMAIN f : roots[t] \in Nat
  BY <1>3 DEF With, Rooted
<1>5. \A t \in DOMAIN f : f[t].parent # n /\ f[t].ctx # n
  <2> SUFFICES ASSUME NEW t \in DOMAIN f PROVE f[t].parent # n /\ f[t].ctx # n
    OBVIOUS
  <2>1. ShapeOf(m, t)
    BY <1>1
  <2> QED
    BY <1>3, <2>1 DEF ShapeOf
<1>6. Rooted(x, q, <<>>)
  <2>1. <<>> \in Seq(DOMAIN g \cup {Null})
    BY EmptySeq
  <2>2. DOMAIN g \subseteq DOMAIN q /\ \A t \in DOMAIN g : q[t] \in Nat
    <3> HIDE DEF f, g, q
    <3> QED
      BY <1>2, <1>4
  <2> QED
    BY <2>1, <2>2 DEF Rooted
<1> HIDE DEF f, g, q
<1>7. ASSUME NEW t \in DOMAIN f, NEW r \in Refs(g, q, <<>>, t)
      PROVE  r \in Refs(f, roots, <<>>, t) \/ (r = <<1, n>> /\ o.parent = t) \/ (r = <<2, n>> /\ o.ctx = t)
  <2>1. r \in (0..3) \X Nat /\ Len(<<>>) = 0
    BY DEF Refs
  <2>2. r = <<r[1], r[2]>>
    BY <2>1
  <2>3. CASE r[1] = 0 /\ r[2] \in 1..q[t]
    BY <1>4, <2>1, <2>3 DEF Refs
  <2>4. CASE r[1] = 1 /\ r[2] \in DOMAIN g /\ g[r[2]].parent = t
    <3>1. CASE r[2] = n
      BY <1>2, <2>2, <2>4, <3>1
    <3>2. CASE r[2] # n
      BY <1>2, <2>1, <2>4, <3>2 DEF Refs
    <3> QED
      BY <3>1, <3>2
  <2>5. CASE r[1] = 2 /\ r[2] \in DOMAIN g /\ g[r[2]].ctx = t
    <3>1. CASE r[2] = n
      BY <1>2, <2>2, <2>5, <3>1
    <3>2. CASE r[2] # n
      BY <1>2, <2>1, <2>5, <3>2 DEF Refs
    <3> QED
      BY <3>1, <3>2
  <2>6. ~(r[2] < Len(<<>>))
    BY <2>1
  <2> QED
    BY <2>3, <2>4, <2>5, <2>6 DEF Refs
<1>8. ASSUME NEW r \in Refs(g, q, <<>>, n) PROVE r = <<0, 1>>
  <2>1. r \in (0..3) \X Nat /\ ~(r[2] < Len(<<>>))
    BY DEF Refs
  <2>2. r = <<r[1], r[2]>>
    BY <2>1
  <2>3. ~(r[1] = 1 /\ r[2] \in DOMAIN g /\ g[r[2]].parent = n)
    BY <1>2, <1>3, <1>5
  <2>4. ~(r[1] = 2 /\ r[2] \in DOMAIN g /\ g[r[2]].ctx = n)
    BY <1>2, <1>3, <1>5
  <2>5. r[1] = 0 /\ r[2] \in 1..q[n]
    BY <2>1, <2>3, <2>4 DEF Refs
  <2>6. r[2] = 1
    BY <1>4, <2>5
  <2> QED
    BY <2>2, <2>5, <2>6
<1> QED
  BY <1>6, <1>7, <1>8 DEF f, g, q

-----------------------------------------------------------------------------
(* New strings *)

Allocated(m, x, n, size, kind) ==
  /\ n \in DOMAIN x.strs /\ n \notin DOMAIN m.strs /\ Alone(x, n)
  /\ x.strs[n].kind = kind /\ x.strs[n].start = 0 /\ x.strs[n].end = 0 /\ x.strs[n].hash = <<>>
  /\ ci_str_size(x, n) >= size /\ DOMAIN x.strs = DOMAIN m.strs \cup {n}

\* An allocated object reads as the empty text, and has one reference.
LEMMA AllocGood ==
  ASSUME NEW m, NEW v, NEW roots, StoreInv(m, v, roots, <<>>),
         NEW size \in Nat, NEW kind \in {"str", "readonly"}
  PROVE  /\ StoreInv(ci_str_alloc(m, size, kind), With(v, NewStr(m), <<>>), With(roots, NewStr(m), 1), <<>>)
         /\ Allocated(m, ci_str_alloc(m, size, kind), NewStr(m), size, kind)
<1> DEFINE n == NewStr(m)
           b == NewBuf(m)
           k == IF size = 0 THEN 1 ELSE size
           o == [kind |-> kind, refcnt |-> 1, buf |-> b, start |-> 0, end |-> 0,
                 hash |-> <<>>, parent |-> Null, ctx |-> Null]
           data == Fresh(k)
           B == With(m.bufs, b, data)
           x == ci_str_alloc(m, size, kind)
<1>1. Shape(m) /\ Held(m, v) /\ Rooted(m, roots, <<>>) /\ Counted(m, roots, <<>>) /\ Formed(m)
  BY DEF StoreInv, Shape
<1>2. n \in Nat \ {0} /\ n \notin DOMAIN m.strs /\ n # Null
  BY <1>1, NewStrIs
<1>3. b \in Nat /\ b \notin Used(m)
  BY <1>1, NewBufIs
<1>4. k \in Nat /\ k >= size /\ data \in Str /\ Len(data) = k
  <2>1. k \in Nat /\ k >= size
    OBVIOUS
  <2> HIDE DEF k
  <2> QED
    BY <2>1, FreshIs
<1>5. x = [strs |-> With(m.strs, n, o), bufs |-> B]
  BY DEF ci_str_alloc
<1> HIDE DEF n, b, data, k, x
<1>6. <<>> \in Seq(Str) /\ <<>> \in Str
  BY EmptySeq DEF Str
<1>7. /\ o \in Objects /\ o.kind = kind /\ o.refcnt = 1 /\ o.buf = b /\ o.start = 0 /\ o.end = 0
      /\ o.hash = <<>> /\ o.parent = Null /\ o.ctx = Null
  BY <1>3, <1>6 DEF Objects, Kinds
<1> HIDE DEF o
<1>8. /\ DOMAIN B = DOMAIN m.bufs \cup {b} /\ B[b] = data
      /\ \A c \in DOMAIN m.bufs : B[c] = m.bufs[c]
      /\ B = [c \in DOMAIN B |-> B[c]]
  BY <1>3 DEF With, Used
<1> HIDE DEF B
<1>9. /\ B \in [DOMAIN B -> Str] /\ IsFiniteSet(DOMAIN B) /\ DOMAIN B \subseteq Nat
  <2>1. /\ m.bufs \in [DOMAIN m.bufs -> Str] /\ IsFiniteSet(DOMAIN m.bufs) /\ DOMAIN m.bufs \subseteq Nat
    BY <1>1 DEF Formed
  <2>2. \A c \in DOMAIN B : B[c] \in Str
    BY <1>4, <1>8, <2>1
  <2>3. IsFiniteSet(DOMAIN B)
    BY <1>8, <2>1, FS_AddElement
  <2> QED
    BY <1>3, <1>8, <2>1, <2>2, <2>3
<1>10. Joins(m, n, o, B, x)
  BY <1>2, <1>5, <1>7, <1>8, <1>9 DEF Joins
<1>11. /\ Formed(x) /\ DOMAIN x.strs = DOMAIN m.strs \cup {n} /\ x.strs[n] = o /\ x.bufs = B
       /\ \A t \in DOMAIN m.strs : x.strs[t] = m.strs[t]
  BY <1>1, <1>10, JoinsIs
<1>12. Shape(x)
  <2>1. ShapeOf(x, n)
    <3>1. b # Static /\ o.kind # "slice"
      BY <1>1, <1>3, <1>7 DEF Shape, Used
    <3> QED
      BY <1>7, <1>11, <3>1 DEF ShapeOf
  <2>2. o.buf \notin Used(m)
    BY <1>3, <1>7
  <2> QED
    BY <1>1, <1>10, <2>1, <2>2, JoinsShape
<1>13. Held(x, With(v, n, <<>>))
  <2>1. HeldAs(x, n, <<>>)
    <3>1. x.strs[n].buf = b /\ b \in DOMAIN x.bufs /\ x.bufs[b] = data /\ x.strs[n].start = 0
          /\ x.strs[n].end = 0 /\ x.strs[n].hash = <<>>
      BY <1>7, <1>8, <1>11
    <3>2. Reads(data, 0, 0, <<>>)
      <4>1. Len(<<>>) = 0 /\ 0 = 0 + Len(<<>>) /\ 0 <= Len(data) /\ 0 \in Nat
            /\ \A i \in 1..Len(<<>>) : data[0 + i] = <<>>[i]
        BY <1>4
      <4> QED
        BY <1>4, <1>6, <4>1, Zenon DEF Reads
    <3> QED
      BY <3>1, <3>2 DEF HeldAs
  <2> QED
    BY <1>1, <1>10, <2>1, JoinsHeld
<1> DEFINE q == With(roots, n, 1)
<1>14. /\ \A t \in DOMAIN m.strs : \A r \in Refs(x.strs, q, <<>>, t) :
               \/ r \in Refs(m.strs, roots, <<>>, t)
               \/ r = <<1, n>> /\ o.parent = t
               \/ r = <<2, n>> /\ o.ctx = t
       /\ Refs(x.strs, q, <<>>, n) \subseteq {<<0, 1>>}
       /\ Rooted(x, q, <<>>)
  BY <1>1, <1>10, JoinsRefs
<1> HIDE DEF q
<1>15. Counted(x, q, <<>>)
  <2> SUFFICES ASSUME NEW t \in DOMAIN x.strs
               PROVE  x.strs[t].refcnt = RefMax \/ AtMost(Refs(x.strs, q, <<>>, t), x.strs[t].refcnt)
    BY DEF Counted, Covers, RefsTo
  <2>1. CASE t = n
    <3>2. Refs(x.strs, q, <<>>, n) \subseteq {<<0, 1>>} /\ 1 \in Nat /\ 1 >= 1
      BY <1>14
    <3>1. AtMost(Refs(x.strs, q, <<>>, n), 1)
      BY <3>2, JustOne
    <3> QED
      BY <1>7, <1>11, <2>1, <3>1
  <2>2. CASE t # n
    <3>1. t \in DOMAIN m.strs /\ x.strs[t] = m.strs[t]
      BY <1>11, <2>2
    <3>2. Null \notin DOMAIN m.strs
      BY <1>1, ObjectIs, CiStringAssumption
    <3>3. Refs(x.strs, q, <<>>, t) \subseteq Refs(m.strs, roots, <<>>, t)
      BY <1>7, <1>14, <3>1, <3>2
    <3>4. m.strs[t].refcnt = RefMax \/ AtMost(Refs(m.strs, roots, <<>>, t), m.strs[t].refcnt)
      BY <1>1, <3>1 DEF Counted, Covers, RefsTo
    <3>5. m.strs[t].refcnt \in Nat
      BY <1>1, <3>1, ObjectIs
    <3>6. AtMost(Refs(m.strs, roots, <<>>, t), m.strs[t].refcnt) => AtMost(Refs(x.strs, q, <<>>, t), m.strs[t].refcnt)
      BY <3>3, <3>5, Within
    <3> QED
      BY <3>1, <3>4, <3>6
  <2> QED
    BY <2>1, <2>2
<1>16. StoreInv(x, With(v, n, <<>>), q, <<>>)
  BY <1>12, <1>13, <1>14, <1>15 DEF StoreInv
<1>17. Allocated(m, x, n, size, kind)
  <2>1. \A t \in DOMAIN x.strs : t # n => x.strs[t].buf # x.strs[n].buf
    BY <1>3, <1>7, <1>11 DEF Used
  <2>2. ci_str_size(x, n) >= size
    BY <1>4, <1>7, <1>8, <1>11 DEF ci_str_size
  <2> QED
    BY <1>2, <1>7, <1>11, <2>1, <2>2 DEF Allocated, Alone
<1> QED
  BY <1>16, <1>17 DEF x, n, q

\* Bytes put into a buffer that nothing was written to.
LEMMA FilledNow ==
  ASSUME NEW m, Formed(m), NEW n \in DOMAIN m.strs, HeldAs(m, n, <<>>), m.strs[n].hash = <<>>,
         m.strs[n].start = 0, m.strs[n].end = 0,
         NEW u \in Str, Len(u) <= ci_str_size(m, n)
  PROVE  /\ Now(m, n, [Write(m, n, 0, u) EXCEPT !.strs[n].end = Len(u)], u)
         /\ Now(m, n, ci_str_put_tail(Write(m, n, 0, u), n, Len(u)), u)
<1> DEFINE data == m.bufs[m.strs[n].buf]
           w == Write(m, n, 0, u)
           y == [w EXCEPT !.strs[n].end = Len(u)]
           e == Over(data, 0, u)
<1>1. m.strs[n].buf \in DOMAIN m.bufs /\ data \in Str
  BY DEF HeldAs, Reads
<1>2. Own(m, n, m, data, 0, 0, <<>>)
  BY <1>1, OwnSelf
<1>3. Len(u) <= Len(data) /\ Len(u) \in Nat /\ Len(data) \in Nat
  BY <1>1, StrIs DEF ci_str_size
<1>4. <<>> \in Seq(Str)
  BY EmptySeq
<1>5. 0 \in Nat
  OBVIOUS
<1> HIDE DEF data
<1>6. Own(m, n, w, e, 0, 0, <<>>)
  BY <1>1, <1>2, <1>4, <1>5, OwnWrite
<1>7. Reads(e, 0, Len(u), u)
  <2>1. 0 + Len(u) <= Len(u) /\ 0 + Len(u) <= Len(data) /\ 0 + 0 = 0 /\ 0 + Len(u) = Len(u)
    BY <1>3
  <2>2. /\ \A i \in 1..Len(u) : ~(i \in 0 + 1..0 + Len(u)) => data[0 + i] = u[i]
        /\ \A i \in 1..Len(u) : u[0 + i] = u[i]
    BY <1>3
  <2>3. Reads(Over(data, 0 + 0, u), 0, 0 + Len(u), u)
    BY <1>1, <1>3, <1>5, <2>1, <2>2, ReadsOver
  <2> QED
    BY <2>1, <2>3
<1> HIDE DEF w, e
<1>8. Own(m, n, y, e, 0, Len(u), <<>>)
  BY <1>3, <1>4, <1>5, <1>6, OwnFields
<1>9. w.strs[n].end = 0
  BY <1>4, <1>5, <1>6, OwnSpots
<1>10. ci_str_put_tail(w, n, Len(u)) = ci_str_reset_hash(y, n)
  BY <1>3, <1>9 DEF ci_str_put_tail
<1> HIDE DEF y
<1>11. Own(m, n, ci_str_reset_hash(y, n), e, 0, Len(u), <<>>)
  BY <1>3, <1>4, <1>5, <1>8, OwnFields
<1>12. Now(m, n, y, u) /\ Now(m, n, ci_str_reset_hash(y, n), u)
  BY <1>7, <1>8, <1>11, NowFrom
<1> QED
  BY <1>10, <1>12 DEF y, w

\* y is m with a new string that reads as t, which the script has.
Made(m, v, roots, y, t) ==
  /\ StoreInv(y, With(v, NewStr(m), t), With(roots, NewStr(m), 1), <<>>)
  /\ NewStr(m) \in DOMAIN y.strs /\ DOMAIN y.strs = DOMAIN m.strs \cup {NewStr(m)}

Filled(x, n, u) == [Write(x, n, 0, u) EXCEPT !.strs[n].end = Len(u)]
FilledTail(x, n, u) == ci_str_put_tail(Write(x, n, 0, u), n, Len(u))

\* Filled with a text, the new object reads as it.
LEMMA FilledGood ==
  ASSUME NEW m, NEW v, NEW roots, StoreInv(m, v, roots, <<>>),
         NEW size \in Nat, NEW kind \in {"str", "readonly"}, NEW u \in Str, Len(u) <= size
  PROVE  /\ Made(m, v, roots, Filled(ci_str_alloc(m, size, kind), NewStr(m), u), u)
         /\ Made(m, v, roots, FilledTail(ci_str_alloc(m, size, kind), NewStr(m), u), u)
<1> DEFINE x == ci_str_alloc(m, size, kind)
           n == NewStr(m)
           w == With(v, n, <<>>)
           q == With(roots, n, 1)
<1>1. StoreInv(x, w, q, <<>>) /\ Allocated(m, x, n, size, kind)
  BY AllocGood
<1>2. /\ n \in DOMAIN x.strs /\ Alone(x, n) /\ x.strs[n].kind # "slice" /\ x.strs[n].start = 0
      /\ x.strs[n].end = 0 /\ x.strs[n].hash = <<>> /\ ci_str_size(x, n) >= size
      /\ DOMAIN x.strs = DOMAIN m.strs \cup {n}
  BY <1>1 DEF Allocated
<1>3. w[n] = <<>> /\ [w EXCEPT ![n] = u] = With(v, n, u)
  <2>1. w[n] = <<>>
    BY DEF With
  <2>2. [w EXCEPT ![n] = u] = With(v, n, u)
    BY DEF With
  <2> QED
    BY <2>1, <2>2
<1> HIDE DEF q, w, x, n
<1>4. Formed(x) /\ HeldAs(x, n, <<>>)
  <2>1. HeldAs(x, n, w[n])
    BY <1>1, <1>2 DEF StoreInv, Held
  <2> QED
    BY <1>1, <1>3, <2>1 DEF StoreInv, Shape
<1>5. Len(u) <= ci_str_size(x, n)
  <2>1. ci_str_size(x, n) \in Nat
    <3>1. x.bufs[x.strs[n].buf] \in Str
      BY <1>4 DEF HeldAs, Reads
    <3> QED
      BY <3>1, StrIs DEF ci_str_size
  <2>2. Len(u) \in Nat
    BY StrIs
  <2> QED
    BY <1>2, <2>1, <2>2
<1>6. Now(x, n, Filled(x, n, u), u) /\ Now(x, n, FilledTail(x, n, u), u)
  <2>1. /\ Now(x, n, [Write(x, n, 0, u) EXCEPT !.strs[n].end = Len(u)], u)
        /\ Now(x, n, ci_str_put_tail(Write(x, n, 0, u), n, Len(u)), u)
    BY <1>2, <1>4, <1>5, FilledNow
  <2> QED
    BY <2>1 DEF Filled, FilledTail
<1>7. ASSUME NEW y, Now(x, n, y, u)
      PROVE  Made(m, v, roots, y, u)
  <2>1. StoreInv(y, [w EXCEPT ![n] = u], q, <<>>)
    BY <1>1, <1>2, <1>7, EditedGood
  <2>2. DOMAIN y.strs = DOMAIN x.strs
    BY <1>2, <1>4, <1>7, NowIs
  <2> QED
    BY <1>2, <1>3, <2>1, <2>2 DEF q, n, Made
<1> QED
  BY <1>6, <1>7 DEF x, n

\* A new string of given bytes.
LEMMA NewTextGood ==
  ASSUME NEW m, NEW v, NEW roots, StoreInv(m, v, roots, <<>>), NEW u \in Str
  PROVE  Made(m, v, roots, NewText(m, u), u)
<1> DEFINE k == Len(u)
<1>1. NewText(m, u) = FilledTail(ci_str_alloc(m, k, "str"), NewStr(m), u)
  BY DEF NewText, ci_str_new, FilledTail
<1>2. k \in Nat /\ Len(u) <= k
  BY StrIs
<1> HIDE DEF k
<1>3. Made(m, v, roots, FilledTail(ci_str_alloc(m, k, "str"), NewStr(m), u), u)
  BY <1>2, FilledGood
<1> QED
  BY <1>1, <1>3

\* A copy of a string.
LEMMA CopyGood ==
  ASSUME NEW m, NEW v, NEW roots, StoreInv(m, v, roots, <<>>), NEW s \in DOMAIN m.strs, NEW extra \in Nat
  PROVE  Made(m, v, roots, ci_str_copy(m, s, extra), v[s])
<1> DEFINE u == v[s]
           k == Len(u) + extra
           y == Filled(ci_str_alloc(m, k, "str"), NewStr(m), u)
<1>1. Text(m, s) = u /\ ci_str_len(m, s) = Len(u) /\ u \in Str /\ Len(u) \in Nat
  <2>1. Formed(m) /\ HeldAs(m, s, u)
    BY DEF StoreInv, Shape, Held
  <2> HIDE DEF u
  <2> QED
    BY <2>1, HeldText
<1>2. ci_str_copy(m, s, extra) = y
  BY <1>1 DEF ci_str_copy, ci_str_new, Filled
<1>3. k \in Nat /\ Len(u) <= k
  BY <1>1
<1> HIDE DEF k, u
<1>4. Made(m, v, roots, y, u)
  BY <1>1, <1>3, FilledGood
<1> QED
  BY <1>2, <1>4 DEF u

\* What refers to an object does not depend on counts.
LEMMA LikeRefs ==
  ASSUME NEW m, NEW x, Like(m, x), NEW roots, NEW work
  PROVE  /\ RefsTo(x, roots, work) = RefsTo(m, roots, work)
         /\ Rooted(m, roots, work) => Rooted(x, roots, work)
<1>1. ASSUME NEW s \in DOMAIN m.strs PROVE Refs(x.strs, roots, work, s) = Refs(m.strs, roots, work, s)
  BY DEF Refs, Like
<1>2. RefsTo(x, roots, work) = RefsTo(m, roots, work)
  BY <1>1 DEF RefsTo, Like
<1>3. Rooted(m, roots, work) => Rooted(x, roots, work)
  BY DEF Rooted, Like
<1> QED
  BY <1>2, <1>3

\* A slice of the bytes from i to j of the buffer that p points into.
LEMMA SliceGood ==
  ASSUME NEW m, NEW v, NEW roots, StoreInv(m, v, roots, <<>>),
         NEW p, NEW b \in DOMAIN m.bufs, NEW i \in Nat, NEW j \in Nat, NEW t,
         (p = Null /\ b = Static) \/ (p \in DOMAIN m.strs /\ m.strs[p].buf = b),
         Reads(m.bufs[b], i, j, t)
  PROVE  /\ Made(m, v, roots, ci_str_slice_new(m, b, i, j, p), t)
         /\ ci_str_slice_new(m, b, i, j, p).strs[NewStr(m)].kind = "slice"
         /\ ci_str_slice_new(m, b, i, j, p).strs[NewStr(m)].ctx = Null
<1> DEFINE n == NewStr(m)
           o == [kind |-> "slice", refcnt |-> 1, buf |-> b, start |-> i, end |-> j,
                 hash |-> <<>>, parent |-> p, ctx |-> Null]
           a == [m EXCEPT !.strs = With(@, n, o)]
           x == ci_str_slice_new(m, b, i, j, p)
           w == With(v, n, t)
           q == With(roots, n, 1)
           B == m.bufs
<1>1. Shape(m) /\ Held(m, v) /\ Rooted(m, roots, <<>>) /\ Counted(m, roots, <<>>) /\ Formed(m)
  BY DEF StoreInv, Shape
<1>2. n \in Nat \ {0} /\ n \notin DOMAIN m.strs /\ n # Null
  BY <1>1, NewStrIs
<1>3. x = ci_str_inc(a, p)
  BY DEF ci_str_slice_new
<1>4. a = [strs |-> With(m.strs, n, o), bufs |-> m.bufs]
  BY <1>1 DEF Formed
<1> HIDE DEF n, a, x
<1>5. /\ DOMAIN B \subseteq Nat /\ B \in [DOMAIN B -> Str] /\ IsFiniteSet(DOMAIN B)
      /\ DOMAIN m.strs \subseteq Nat \ {0}
  BY <1>1 DEF Formed
<1>6. <<>> \in Seq(Str)
  BY EmptySeq
<1>7. /\ o \in Objects /\ o.kind = "slice" /\ o.refcnt = 1 /\ o.buf = b /\ o.start = i /\ o.end = j
      /\ o.hash = <<>> /\ o.parent = p /\ o.ctx = Null
  BY <1>5, <1>6 DEF Objects, Kinds
<1> HIDE DEF o
<1>8. Joins(m, n, o, B, a)
  BY <1>2, <1>4, <1>5, <1>7 DEF Joins
<1>9. /\ Formed(a) /\ DOMAIN a.strs = DOMAIN m.strs \cup {n} /\ a.strs[n] = o /\ a.bufs = B
      /\ \A s \in DOMAIN m.strs : a.strs[s] = m.strs[s]
  BY <1>1, <1>8, JoinsIs
<1> HIDE DEF B
<1>10. Shape(a)
  <2>1. ShapeOf(a, n)
    BY <1>7, <1>9 DEF ShapeOf
  <2> QED
    BY <1>1, <1>7, <1>8, <2>1, JoinsShape
<1>11. Held(a, w)
  <2>1. HeldAs(a, n, t)
    <3>1. a.strs[n].buf = b /\ b \in DOMAIN a.bufs /\ a.bufs[b] = m.bufs[b] /\ a.strs[n].start = i
          /\ a.strs[n].end = j /\ a.strs[n].hash = <<>>
      BY <1>7, <1>9 DEF B
    <3> QED
      BY <3>1 DEF HeldAs
  <2> QED
    BY <1>1, <1>8, <2>1, JoinsHeld
<1>12. /\ \A s \in DOMAIN m.strs : \A r \in Refs(a.strs, q, <<>>, s) :
               \/ r \in Refs(m.strs, roots, <<>>, s)
               \/ r = <<1, n>> /\ o.parent = s
               \/ r = <<2, n>> /\ o.ctx = s
       /\ Refs(a.strs, q, <<>>, n) \subseteq {<<0, 1>>}
       /\ Rooted(a, q, <<>>)
  BY <1>1, <1>8, JoinsRefs
<1> HIDE DEF q, w
<1> DEFINE R == [s \in DOMAIN a.strs |-> IF s = n THEN {<<0, 1>>} ELSE Refs(m.strs, roots, <<>>, s)]
           Q == RefsTo(a, q, <<>>)
<1>13. Covers(a, R)
  <2> SUFFICES ASSUME NEW s \in DOMAIN a.strs
               PROVE  a.strs[s].refcnt = RefMax \/ AtMost(R[s], a.strs[s].refcnt)
    BY DEF Covers
  <2>1. CASE s = n
    <3>1. {<<0, 1>>} \subseteq {<<0, 1>>} /\ 1 \in Nat /\ 1 >= 1
      OBVIOUS
    <3>2. AtMost({<<0, 1>>}, 1)
      BY <3>1, JustOne
    <3> QED
      BY <1>7, <1>9, <2>1, <3>2
  <2>2. CASE s # n
    <3>1. s \in DOMAIN m.strs /\ a.strs[s] = m.strs[s]
      BY <1>9, <2>2
    <3>2. m.strs[s].refcnt = RefMax \/ AtMost(Refs(m.strs, roots, <<>>, s), m.strs[s].refcnt)
      BY <1>1, <3>1 DEF Counted, Covers, RefsTo
    <3> QED
      BY <2>2, <3>1, <3>2
  <2> QED
    BY <2>1, <2>2
<1>14. Null \notin DOMAIN m.strs
  BY <1>5, CiStringAssumption
<1>15. \A s \in DOMAIN a.strs : Q[s] \subseteq IF s = p THEN R[s] \cup {<<1, n>>} ELSE R[s]
  <2> SUFFICES ASSUME NEW s \in DOMAIN a.strs, NEW r \in Refs(a.strs, q, <<>>, s)
               PROVE  r \in IF s = p THEN R[s] \cup {<<1, n>>} ELSE R[s]
    BY DEF RefsTo
  <2>1. CASE s = n
    BY <1>12, <2>1
  <2>2. CASE s # n
    <3>1. s \in DOMAIN m.strs
      BY <1>9, <2>2
    <3>2. r \in Refs(m.strs, roots, <<>>, s) \/ (r = <<1, n>> /\ p = s)
      BY <1>7, <1>12, <1>14, <3>1
    <3>3. R[s] = Refs(m.strs, roots, <<>>, s)
      BY <2>2
    <3> QED
      BY <3>2, <3>3
  <2> QED
    BY <2>1, <2>2
<1> HIDE DEF R, Q
<1>16. Like(a, x) /\ Covers(x, Q)
  <2>1. CASE p = Null
    <3>1. x = a
      BY <1>3, <2>1 DEF ci_str_inc
    <3>2. p \notin DOMAIN a.strs
      BY <1>2, <1>9, <1>14, <2>1
    <3>3. Like(a, a)
      BY <1>9 DEF Like
    <3>4. Covers(a, Q)
      <4> SUFFICES ASSUME NEW s \in DOMAIN a.strs
                   PROVE  a.strs[s].refcnt = RefMax \/ AtMost(Q[s], a.strs[s].refcnt)
        BY DEF Covers
      <4>1. Q[s] \subseteq R[s] /\ a.strs[s].refcnt \in Nat
        BY <1>9, <1>15, <3>2, ObjectIs
      <4>2. AtMost(R[s], a.strs[s].refcnt) => AtMost(Q[s], a.strs[s].refcnt)
        BY <4>1, Within
      <4> QED
        BY <1>13, <4>2 DEF Covers
    <3> QED
      BY <3>1, <3>3, <3>4
  <2>2. CASE p # Null
    <3>1. p \in DOMAIN a.strs
      BY <1>9, <2>2
    <3>2. Q[p] \subseteq R[p] \cup {<<1, n>>} /\ \A s \in DOMAIN a.strs : s # p => Q[s] \subseteq R[s]
      BY <1>15, <3>1
    <3>3. Like(a, ci_str_inc(a, p)) /\ Covers(ci_str_inc(a, p), Q)
      BY <1>9, <1>13, <3>1, <3>2, IncIs
    <3> QED
      BY <1>3, <3>3
  <2> QED
    BY <2>1, <2>2
<1>17. Shape(x) /\ Held(x, w)
  BY <1>10, <1>11, <1>16, LikeIs
<1>18. RefsTo(x, q, <<>>) = Q /\ Rooted(x, q, <<>>)
  BY <1>12, <1>16, LikeRefs DEF Q
<1>19. StoreInv(x, w, q, <<>>)
  BY <1>16, <1>17, <1>18 DEF StoreInv, Counted
<1>20. /\ n \in DOMAIN x.strs /\ DOMAIN x.strs = DOMAIN m.strs \cup {n}
       /\ x.strs[n].kind = "slice" /\ x.strs[n].ctx = Null
  BY <1>7, <1>9, <1>16 DEF Like
<1> QED
  BY <1>19, <1>20 DEF x, n, w, q, Made

\* A slice that also holds the name it was captured under.
LEMMA ContextGood ==
  ASSUME NEW m, NEW v, NEW roots, StoreInv(m, v, roots, <<>>),
         NEW n \in DOMAIN m.strs, m.strs[n].kind = "slice", m.strs[n].ctx = Null, NEW c \in DOMAIN m.strs
  PROVE  /\ StoreInv([ci_str_inc(m, c) EXCEPT !.strs[n].ctx = c], v, roots, <<>>)
         /\ DOMAIN [ci_str_inc(m, c) EXCEPT !.strs[n].ctx = c].strs = DOMAIN m.strs
<1> DEFINE a == ci_str_inc(m, c)
           x == [a EXCEPT !.strs[n].ctx = c]
           o == [a.strs[n] EXCEPT !.ctx = c]
           R == RefsTo(m, roots, <<>>)
           Q == [R EXCEPT ![c] = @ \cup {<<2, n>>}]
<1>1. Shape(m) /\ Held(m, v) /\ Rooted(m, roots, <<>>) /\ Counted(m, roots, <<>>) /\ Formed(m)
  BY DEF StoreInv, Shape
<1>2. DOMAIN R = DOMAIN m.strs /\ Covers(m, R)
  BY <1>1 DEF Counted, RefsTo
<1> HIDE DEF R
<1>3. Q[c] = R[c] \cup {<<2, n>>} /\ \A s \in DOMAIN m.strs : s # c => Q[s] = R[s]
  BY <1>2
<1> HIDE DEF Q
<1>4. Like(m, a) /\ Covers(a, Q)
  BY <1>1, <1>2, <1>3, IncIs
<1> HIDE DEF a
<1>5. Shape(a) /\ Held(a, v) /\ Rooted(a, roots, <<>>)
  BY <1>1, <1>4, LikeIs, LikeRefs
<1>6. R = RefsTo(a, roots, <<>>)
  BY <1>4, LikeRefs DEF R
<1>7. /\ Formed(a) /\ DOMAIN a.strs = DOMAIN m.strs /\ n \in DOMAIN a.strs /\ c \in DOMAIN a.strs
      /\ a.strs[n].kind = "slice" /\ a.strs[n].ctx = Null
  BY <1>4 DEF Like
<1>8. a.strs[n] \in Objects /\ c \in Nat /\ c # Null /\ Null \notin DOMAIN a.strs
  BY <1>7, ObjectIs, CiStringAssumption
<1>9. /\ o \in Objects /\ o.ctx = c /\ o.kind = "slice" /\ o.refcnt = a.strs[n].refcnt
      /\ o.buf = a.strs[n].buf /\ o.start = a.strs[n].start /\ o.end = a.strs[n].end
      /\ o.hash = a.strs[n].hash /\ o.parent = a.strs[n].parent
  BY <1>7, <1>8 DEF Objects
<1>10. x = Put(a, n, o)
  <2>1. a = [strs |-> a.strs, bufs |-> a.bufs] /\ a.strs = [t \in DOMAIN a.strs |-> a.strs[t]]
    BY <1>7 DEF Formed
  <2> QED
    BY <2>1 DEF Put
<1> HIDE DEF o, x
<1>11. /\ Formed(x) /\ x.strs[n] = o /\ x.bufs = a.bufs /\ DOMAIN x.strs = DOMAIN a.strs
       /\ \A t \in DOMAIN a.strs : t # n => x.strs[t] = a.strs[t]
  BY <1>7, <1>9, <1>10, PutIs
<1>12. \A t \in DOMAIN a.strs :
          /\ x.strs[t].kind = a.strs[t].kind /\ x.strs[t].refcnt = a.strs[t].refcnt
          /\ x.strs[t].buf = a.strs[t].buf /\ x.strs[t].start = a.strs[t].start
          /\ x.strs[t].end = a.strs[t].end /\ x.strs[t].hash = a.strs[t].hash
          /\ x.strs[t].parent = a.strs[t].parent
          /\ t # n => x.strs[t].ctx = a.strs[t].ctx
  BY <1>7, <1>9, <1>11
<1>13. Shape(x)
  <2>1. \A t \in DOMAIN x.strs : ShapeOf(x, t)
    <3> SUFFICES ASSUME NEW t \in DOMAIN a.strs PROVE ShapeOf(x, t)
      BY <1>11
    <3>1. ShapeOf(a, t)
      BY <1>5 DEF Shape
    <3>2. t = n => x.strs[t].ctx = c /\ x.strs[t].kind = "slice"
      BY <1>9, <1>11
    <3> QED
      BY <1>7, <1>11, <1>12, <3>1, <3>2 DEF ShapeOf
  <2>2. Apart(x)
    <3>1. Apart(a)
      BY <1>5 DEF Shape
    <3> QED
      BY <1>11, <1>12, <3>1 DEF Apart
  <2>3. Grounded(x.strs)
    <3>1. Grounded(a.strs)
      BY <1>5 DEF Shape
    <3> QED
      BY <1>11, <1>12, <3>1 DEF Grounded
  <2>4. Static \in DOMAIN x.bufs
    BY <1>5, <1>11 DEF Shape
  <2> QED
    BY <1>11, <2>1, <2>2, <2>3, <2>4 DEF Shape
<1>14. Held(x, v)
  <2> SUFFICES ASSUME NEW t \in DOMAIN a.strs PROVE HeldAs(x, t, v[t])
    BY <1>5, <1>11 DEF Held
  <2>1. HeldAs(a, t, v[t])
    BY <1>5 DEF Held
  <2>2. /\ x.strs[t].buf = a.strs[t].buf /\ x.strs[t].start = a.strs[t].start
        /\ x.strs[t].end = a.strs[t].end /\ x.strs[t].hash = a.strs[t].hash /\ x.bufs = a.bufs
    BY <1>11, <1>12
  <2> QED
    BY <2>1, <2>2, Zenon DEF HeldAs
<1>15. \A t \in DOMAIN a.strs : Refs(x.strs, roots, <<>>, t) \subseteq Q[t]
  <2> SUFFICES ASSUME NEW t \in DOMAIN a.strs, NEW r \in Refs(x.strs, roots, <<>>, t) PROVE r \in Q[t]
    OBVIOUS
  <2>1. R[t] = Refs(a.strs, roots, <<>>, t)
    BY <1>6 DEF RefsTo
  <2>2. r \in (0..3) \X Nat /\ r = <<r[1], r[2]>>
    BY DEF Refs
  <2>3. CASE r[1] = 2 /\ r[2] = n /\ x.strs[n].ctx = t
    <3>1. t = c /\ r = <<2, n>>
      BY <1>9, <1>11, <2>2, <2>3
    <3> QED
      BY <1>3, <3>1
  <2>4. CASE ~(r[1] = 2 /\ r[2] = n /\ x.strs[n].ctx = t)
    <3>1. r \in Refs(a.strs, roots, <<>>, t)
      BY <1>11, <1>12, <2>2, <2>4 DEF Refs
    <3> QED
      BY <1>3, <1>7, <2>1, <3>1
  <2> QED
    BY <2>3, <2>4
<1>16. Counted(x, roots, <<>>)
  <2> SUFFICES ASSUME NEW t \in DOMAIN a.strs
               PROVE  x.strs[t].refcnt = RefMax \/ AtMost(Refs(x.strs, roots, <<>>, t), x.strs[t].refcnt)
    BY <1>11 DEF Counted, Covers, RefsTo
  <2>1. a.strs[t].refcnt = RefMax \/ AtMost(Q[t], a.strs[t].refcnt)
    BY <1>4 DEF Covers
  <2>2. a.strs[t].refcnt \in Nat /\ x.strs[t].refcnt = a.strs[t].refcnt
    BY <1>7, <1>12, ObjectIs
  <2>3. AtMost(Q[t], a.strs[t].refcnt) => AtMost(Refs(x.strs, roots, <<>>, t), a.strs[t].refcnt)
    BY <1>15, <2>2, Within
  <2> QED
    BY <2>1, <2>2, <2>3
<1>17. Rooted(x, roots, <<>>)
  BY <1>5, <1>11 DEF Rooted
<1>18. StoreInv(x, v, roots, <<>>)
  BY <1>13, <1>14, <1>16, <1>17 DEF StoreInv
<1> QED
  BY <1>7, <1>11, <1>18 DEF x, a

-----------------------------------------------------------------------------
(* Strings released *)

LEMMA NoneLeft ==
  ASSUME NEW A, AtMost(A, 0)
  PROVE  A = {}
<1>1. IsFiniteSet(A) /\ Cardinality(A) = 0
  BY FS_CardinalityType DEF AtMost
<1> QED
  BY <1>1, FS_EmptySet

\* The work without its first item.
LEMMA WorkIs ==
  ASSUME NEW D, NEW work \in Seq(D), work # <<>>
  PROVE  /\ Head(work) \in D /\ Tail(work) \in Seq(D) /\ Len(Tail(work)) \in Nat
         /\ Len(work) = Len(Tail(work)) + 1 /\ Head(work) = work[1]
         /\ \A i \in 1..Len(Tail(work)) : Tail(work)[i] = work[i + 1]
<1>1. Len(work) \in Nat /\ Len(work) # 0
  BY EmptySeq
<1>2. /\ Head(work) \in D /\ Tail(work) \in Seq(D) /\ Len(Tail(work)) = Len(work) - 1
      /\ \A i \in 1..Len(Tail(work)) : Tail(work)[i] = work[i + 1]
  BY HeadTailProperties
<1> QED
  BY <1>1, <1>2

\* Its references are the same but for that item.
LEMMA WorkRefs ==
  ASSUME NEW f, NEW roots, NEW D, NEW work \in Seq(D), work # <<>>, NEW t
  PROVE  /\ Refs(f, roots, Tail(work), t) \subseteq Refs(f, roots, work, t)
         /\ <<3, Len(Tail(work))>> \notin Refs(f, roots, Tail(work), t)
         /\ Head(work) = t => <<3, Len(Tail(work))>> \in Refs(f, roots, work, t)
<1> DEFINE rest == Tail(work)
           k == Len(rest)
<1>1. /\ k \in Nat /\ Len(work) = k + 1 /\ Head(work) = work[1]
      /\ \A i \in 1..k : rest[i] = work[i + 1]
  BY WorkIs
<1> HIDE DEF rest, k
<1>2. ASSUME NEW r \in Nat, r < k PROVE r < Len(work) /\ rest[k - r] = work[Len(work) - r]
  <2>1. k - r \in 1..k /\ (k - r) + 1 = Len(work) - r
    BY <1>1, <1>2
  <2> QED
    BY <1>1, <1>2, <2>1
<1>3. k = Len(rest)
  BY DEF k
<1>4. Refs(f, roots, rest, t) \subseteq Refs(f, roots, work, t)
  <2> SUFFICES ASSUME NEW r \in Refs(f, roots, rest, t) PROVE r \in Refs(f, roots, work, t)
    OBVIOUS
  <2>1. r \in (0..3) \X Nat /\ r[2] \in Nat
    BY DEF Refs
  <2>2. CASE r[1] = 3 /\ r[2] < k /\ rest[k - r[2]] = t
    <3>1. r[2] < Len(work) /\ work[Len(work) - r[2]] = t
      BY <1>2, <2>1, <2>2
    <3> QED
      BY <2>1, <2>2, <3>1 DEF Refs
  <2>3. CASE ~(r[1] = 3 /\ r[2] < k /\ rest[k - r[2]] = t)
    BY <1>3, <2>3 DEF Refs
  <2> QED
    BY <2>2, <2>3
<1>5. <<3, k>> \notin Refs(f, roots, rest, t)
  BY <1>1, <1>3 DEF Refs
<1>6. Head(work) = t => <<3, k>> \in Refs(f, roots, work, t)
  <2>1. <<3, k>>[1] = 3 /\ <<3, k>>[2] = k /\ <<3, k>> \in (0..3) \X Nat
    BY <1>1
  <2>2. Len(work) - k = 1 /\ k < Len(work)
    BY <1>1
  <2> QED
    BY <1>1, <2>1, <2>2 DEF Refs
<1> QED
  BY <1>4, <1>5, <1>6 DEF rest, k

\* The store without s.
Departs(m, s, B, x) ==
  /\ x = [strs |-> Without(m.strs, s), bufs |-> B]
  /\ B \in [DOMAIN B -> Str] /\ IsFiniteSet(DOMAIN B) /\ DOMAIN B \subseteq Nat
  /\ Static \in DOMAIN B
  /\ \A t \in DOMAIN m.strs : t # s => m.strs[t].buf \in DOMAIN B /\ B[m.strs[t].buf] = m.bufs[m.strs[t].buf]
  /\ \A t \in DOMAIN m.strs : m.strs[t].parent # s /\ m.strs[t].ctx # s

\* An object that nothing refers to may go.
LEMMA DepartsGood ==
  ASSUME NEW m, Shape(m), NEW v, Held(m, v), NEW s \in DOMAIN m.strs, NEW B, NEW x, Departs(m, s, B, x)
  PROVE  /\ Shape(x) /\ Held(x, v) /\ DOMAIN x.strs = DOMAIN m.strs \ {s}
         /\ \A t \in DOMAIN x.strs : x.strs[t] = m.strs[t]
<1>1. /\ Formed(m) /\ \A t \in DOMAIN m.strs : ShapeOf(m, t)
      /\ Apart(m) /\ Grounded(m.strs)
  BY DEF Shape
<1>2. /\ IsFiniteSet(DOMAIN m.strs) /\ DOMAIN m.strs \subseteq Nat \ {0}
      /\ m.strs \in [DOMAIN m.strs -> Objects]
  BY <1>1 DEF Formed
<1>3. /\ x = [strs |-> x.strs, bufs |-> x.bufs] /\ x.bufs = B /\ x.strs = Without(m.strs, s)
      /\ B \in [DOMAIN B -> Str] /\ IsFiniteSet(DOMAIN B) /\ DOMAIN B \subseteq Nat /\ Static \in DOMAIN B
      /\ \A t \in DOMAIN m.strs : m.strs[t].parent # s /\ m.strs[t].ctx # s
      /\ \A t \in DOMAIN m.strs : t # s => m.strs[t].buf \in DOMAIN B /\ B[m.strs[t].buf] = m.bufs[m.strs[t].buf]
  BY DEF Departs
<1>4. /\ DOMAIN x.strs = DOMAIN m.strs \ {s} /\ x.strs = [t \in DOMAIN x.strs |-> x.strs[t]]
      /\ \A t \in DOMAIN x.strs : x.strs[t] = m.strs[t]
  BY <1>3 DEF Without
<1>5. Formed(x)
  <2>1. IsFiniteSet(DOMAIN x.strs)
    BY <1>2, <1>4, FS_RemoveElement
  <2>2. x.strs \in [DOMAIN x.strs -> Objects]
    <3>1. \A t \in DOMAIN x.strs : x.strs[t] \in Objects
      BY <1>2, <1>4
    <3> QED
      BY <1>4, <3>1
  <2> QED
    BY <1>2, <1>3, <1>4, <2>1, <2>2 DEF Formed
<1>6. \A t \in DOMAIN x.strs : ShapeOf(x, t)
  <2> SUFFICES ASSUME NEW t \in DOMAIN x.strs PROVE ShapeOf(x, t)
    OBVIOUS
  <2>1. ShapeOf(m, t) /\ x.strs[t] = m.strs[t] /\ m.strs[t].parent # s /\ m.strs[t].ctx # s
    BY <1>1, <1>3, <1>4
  <2> QED
    BY <1>4, <2>1 DEF ShapeOf
<1>7. Apart(x)
  BY <1>1, <1>4 DEF Apart
<1>8. Grounded(x.strs)
  BY <1>1, <1>4 DEF Grounded
<1>9. Held(x, v)
  <2> SUFFICES ASSUME NEW t \in DOMAIN x.strs PROVE HeldAs(x, t, v[t])
    BY <1>4 DEF Held
  <2>1. HeldAs(m, t, v[t]) /\ x.strs[t] = m.strs[t] /\ t # s /\ t \in DOMAIN m.strs
    BY <1>4 DEF Held
  <2>2. m.strs[t].buf \in DOMAIN x.bufs /\ x.bufs[m.strs[t].buf] = m.bufs[m.strs[t].buf]
    BY <1>3, <2>1
  <2> QED
    BY <2>1, <2>2, Zenon DEF HeldAs
<1> QED
  BY <1>3, <1>4, <1>5, <1>6, <1>7, <1>8, <1>9 DEF Shape

\* What nothing refers to is no parent and no name of a capture, and as an owner
\* has its buffer to itself.
LEMMA FreeAlone ==
  ASSUME NEW m, Shape(m), NEW s \in DOMAIN m.strs, m.strs[s].kind # "slice",
         \A t \in DOMAIN m.strs : m.strs[t].parent # s
  PROVE  Alone(m, s)
<1> DEFINE T == {t \in DOMAIN m.strs : t # s /\ m.strs[t].buf = m.strs[s].buf}
<1> SUFFICES ASSUME T # {} PROVE FALSE
  BY DEF Alone
<1>1. PICK t \in T : m.strs[t].parent \notin T
  BY DEF Shape, Grounded
<1>2. ShapeOf(m, t) /\ ShapeOf(m, s) /\ m.strs[t].kind = "slice"
  BY DEF Shape, Apart
<1>3. m.strs[s].buf # Static
  BY <1>2 DEF ShapeOf
<1>4. m.strs[t].parent \in DOMAIN m.strs /\ m.strs[m.strs[t].parent].buf = m.strs[t].buf
  BY <1>2, <1>3 DEF ShapeOf
<1> QED
  BY <1>1, <1>4

\* A ticket of the object s that goes, as the work item that takes its place.
Moved(s, k) == [x \in (0..3) \X Nat |-> IF x = <<3, k>> THEN <<2, s>> ELSE IF x = <<3, k + 1>> THEN <<1, s>> ELSE x]

\* The objects g are f without s, and the work is rest behind what s held.
Follows(f, g, s, rest, work, D) ==
  /\ rest \in Seq(D) /\ s \in Nat /\ s \in DOMAIN f
  /\ DOMAIN g = DOMAIN f \ {s} /\ \A u \in DOMAIN g : g[u] = f[u]
  /\ work = <<f[s].parent, f[s].ctx>> \o rest

\* What a slice held becomes work: the references counted stay as many.
LEMMA SliceGoes ==
  ASSUME NEW f, NEW g, NEW roots, NEW rest, NEW D, NEW s, NEW t, NEW work,
         Follows(f, g, s, rest, work, D), NEW n \in Nat
  PROVE  AtMost(Refs(f, roots, rest, t), n) => AtMost(Refs(g, roots, work, t), n)
<1> SUFFICES ASSUME AtMost(Refs(f, roots, rest, t), n) PROVE AtMost(Refs(g, roots, work, t), n)
  OBVIOUS
<1>0. /\ rest \in Seq(D) /\ s \in Nat /\ s \in DOMAIN f
      /\ DOMAIN g = DOMAIN f \ {s} /\ \A u \in DOMAIN g : g[u] = f[u]
      /\ work = <<f[s].parent, f[s].ctx>> \o rest
  BY DEF Follows
<1> USE <1>0
<1> DEFINE k == Len(rest)
           pair == <<f[s].parent, f[s].ctx>>
           A == Refs(g, roots, work, t)
           B == Refs(f, roots, rest, t)
           F == [x \in A |-> Moved(s, k)[x]]
<1>1. k \in Nat /\ Len(pair) = 2 /\ pair[1] = f[s].parent /\ pair[2] = f[s].ctx
  OBVIOUS
<1>2. /\ Len(work) = k + 2 /\ work[1] = f[s].parent /\ work[2] = f[s].ctx
      /\ \A i \in 1..k : work[i + 2] = rest[i]
  <2> DEFINE E == D \cup {f[s].parent, f[s].ctx}
             l == k + 2
  <2>1. pair \in Seq(E) /\ rest \in Seq(E)
    OBVIOUS
  <2> HIDE DEF pair, E, k
  <2>2. /\ Len(pair \o rest) = Len(pair) + Len(rest)
        /\ \A i \in 1..Len(pair) + Len(rest) : (pair \o rest)[i] = IF i <= Len(pair) THEN pair[i] ELSE rest[i - Len(pair)]
    BY <2>1, ConcatProperties
  <2>3. work = pair \o rest /\ Len(rest) = k
    BY DEF pair, k
  <2>4. Len(work) = l /\ \A i \in 1..l : work[i] = IF i <= 2 THEN pair[i] ELSE rest[i - 2]
    BY <1>1, <2>2, <2>3
  <2>5. \A i \in 1..k : work[i + 2] = rest[i]
    <3> SUFFICES ASSUME NEW i \in 1..k PROVE work[i + 2] = rest[i]
      OBVIOUS
    <3>1. i + 2 \in 1..l /\ ~(i + 2 <= 2) /\ (i + 2) - 2 = i
      BY <1>1
    <3> HIDE DEF l
    <3> QED
      BY <2>4, <3>1
  <2>6. 1 \in 1..l /\ 2 \in 1..l
    BY <1>1
  <2> QED
    BY <1>1, <2>4, <2>5, <2>6
<1>3. A \subseteq (0..3) \X Nat /\ \A x \in A : x = <<x[1], x[2]>> /\ x[1] \in 0..3 /\ x[2] \in Nat
  BY DEF Refs
<1>4. <<2, s>> \notin A /\ <<1, s>> \notin A
  BY DEF Refs
<1>5. ASSUME NEW x \in A PROVE F[x] \in B
  <2>1. F[x] = IF x = <<3, k>> THEN <<2, s>> ELSE IF x = <<3, k + 1>> THEN <<1, s>> ELSE x
    BY <1>3 DEF Moved
  <2>2. CASE x = <<3, k>>
    <3>1. work[Len(work) - k] = t
      BY <1>1, <2>2 DEF Refs
    <3>2. f[s].ctx = t
      BY <1>1, <1>2, <3>1
    <3>3. <<2, s>> \in B
      BY <3>2 DEF Refs
    <3> QED
      BY <2>1, <2>2, <3>3
  <2>3. CASE x = <<3, k + 1>>
    <3>1. work[Len(work) - (k + 1)] = t
      BY <1>1, <2>3 DEF Refs
    <3>2. f[s].parent = t
      BY <1>1, <1>2, <3>1
    <3>3. <<1, s>> \in B
      BY <3>2 DEF Refs
    <3>4. x # <<3, k>>
      BY <1>1, <2>3
    <3> QED
      BY <2>1, <2>3, <3>3, <3>4
  <2>4. CASE x # <<3, k>> /\ x # <<3, k + 1>>
    <3>1. CASE x[1] = 3 /\ x[2] < Len(work) /\ work[Len(work) - x[2]] = t
      <4>1. x[2] # k /\ x[2] # k + 1 /\ x[2] \in Nat
        BY <1>3, <2>4, <3>1
      <4>2. x[2] < k /\ k - x[2] \in 1..k /\ Len(work) - x[2] = (k - x[2]) + 2
        BY <1>1, <1>2, <3>1, <4>1
      <4>3. rest[k - x[2]] = t
        BY <1>2, <3>1, <4>2
      <4> QED
        BY <1>3, <2>1, <2>4, <3>1, <4>2, <4>3 DEF Refs
    <3>2. CASE ~(x[1] = 3 /\ x[2] < Len(work) /\ work[Len(work) - x[2]] = t)
      <4>1. x \in B
        BY <1>3, <3>2 DEF Refs
      <4> QED
        BY <2>1, <2>4, <4>1
    <3> QED
      BY <3>1, <3>2
  <2> QED
    BY <2>2, <2>3, <2>4
<1>6. ASSUME NEW x \in A, NEW y \in A, F[x] = F[y] PROVE x = y
  <2>1. \A z \in A : F[z] = IF z = <<3, k>> THEN <<2, s>> ELSE IF z = <<3, k + 1>> THEN <<1, s>> ELSE z
    BY <1>3 DEF Moved
  <2>2. <<2, s>> # <<1, s>>
    OBVIOUS
  <2> DEFINE p == <<3, k>>
             q == <<3, k + 1>>
             a == <<2, s>>
             b == <<1, s>>
  <2>3. \A z \in A : F[z] = IF z = p THEN a ELSE IF z = q THEN b ELSE z
    BY <2>1
  <2>4. a # b /\ a \notin A /\ b \notin A
    BY <1>4, <2>2
  <2> HIDE DEF A, F, p, q, a, b
  <2>5. F[x] = IF x = p THEN a ELSE IF x = q THEN b ELSE x
    BY <2>3
  <2>6. F[y] = IF y = p THEN a ELSE IF y = q THEN b ELSE y
    BY <2>3
  <2>7. F[x] = F[y]
    BY <1>6
  <2>8. CASE x = p
    BY <2>4, <2>5, <2>6, <2>7, <2>8
  <2>9. CASE x # p /\ x = q
    BY <2>4, <2>5, <2>6, <2>7, <2>9
  <2>10. CASE x # p /\ x # q
    BY <2>4, <2>5, <2>6, <2>7, <2>10
  <2> QED
    BY <2>8, <2>9, <2>10
<1>7. Names(F, A, B)
  <2> HIDE DEF A, B
  <2> QED
    BY <1>5, <1>6 DEF Names
<1> HIDE DEF F
<1> QED
  BY <1>7, Fewer

\* What a step of a release leaves.
Left(m, v, roots, y) ==
  /\ y = Releasing(y.m, y.work) /\ StoreInv(y.m, v, roots, y.work)
  /\ DOMAIN y.m.strs \subseteq DOMAIN m.strs /\ DOMAIN y.m.bufs \subseteq DOMAIN m.bufs

\* The work may be dropped, or its first item.
LEMMA LessWork ==
  ASSUME NEW m, NEW v, NEW roots, NEW work, StoreInv(m, v, roots, work), work # <<>>
  PROVE  StoreInv(m, v, roots, Tail(work))
<1> DEFINE D == DOMAIN m.strs \cup {Null}
<1>1. Shape(m) /\ Held(m, v) /\ Rooted(m, roots, work) /\ Counted(m, roots, work) /\ Formed(m)
  BY DEF StoreInv, Shape
<1>2. work \in Seq(D)
  BY <1>1 DEF Rooted
<1>3. Tail(work) \in Seq(D)
  <2> HIDE DEF D
  <2> QED
    BY <1>2, WorkIs
<1>4. Rooted(m, roots, Tail(work))
  BY <1>1, <1>3 DEF Rooted
<1>5. Counted(m, roots, Tail(work))
  <2> SUFFICES ASSUME NEW t \in DOMAIN m.strs
               PROVE  m.strs[t].refcnt = RefMax \/ AtMost(Refs(m.strs, roots, Tail(work), t), m.strs[t].refcnt)
    BY DEF Counted, Covers, RefsTo
  <2>1. m.strs[t].refcnt = RefMax \/ AtMost(Refs(m.strs, roots, work, t), m.strs[t].refcnt)
    BY <1>1 DEF Counted, Covers, RefsTo
  <2>2. Refs(m.strs, roots, Tail(work), t) \subseteq Refs(m.strs, roots, work, t)
    <3> HIDE DEF D
    <3> QED
      BY <1>2, WorkRefs
  <2>3. m.strs[t].refcnt \in Nat
    BY <1>1, ObjectIs
  <2>4. AtMost(Refs(m.strs, roots, work, t), m.strs[t].refcnt)
           => AtMost(Refs(m.strs, roots, Tail(work), t), m.strs[t].refcnt)
    BY <2>2, <2>3, Within
  <2> QED
    BY <2>1, <2>4
<1> QED
  BY <1>1, <1>4, <1>5 DEF StoreInv

\* The count of the first object of the work goes down.
LEMMA CountDown ==
  ASSUME NEW m, NEW v, NEW roots, NEW work, StoreInv(m, v, roots, work), work # <<>>,
         NEW s \in DOMAIN m.strs, s = Head(work), m.strs[s].refcnt # RefMax
  PROVE  /\ m.strs[s].refcnt >= 1
         /\ StoreInv([m EXCEPT !.strs[s].refcnt = m.strs[s].refcnt - 1], v, roots, Tail(work))
<1> DEFINE D == DOMAIN m.strs \cup {Null}
           c == m.strs[s].refcnt
           rest == Tail(work)
           x == [m EXCEPT !.strs[s].refcnt = c - 1]
           A == Refs(m.strs, roots, rest, s)
           B == Refs(m.strs, roots, work, s)
           e == <<3, Len(rest)>>
<1>1. /\ Shape(m) /\ Held(m, v) /\ Rooted(m, roots, work) /\ Counted(m, roots, work) /\ Formed(m)
      /\ StoreInv(m, v, roots, rest)
  BY LessWork DEF StoreInv, Shape
<1>2. work \in Seq(D) /\ c \in Nat
  BY <1>1, ObjectIs DEF Rooted
<1>3. A \subseteq B /\ e \notin A /\ e \in B
  <2> HIDE DEF D
  <2> QED
    BY <1>2, WorkRefs
<1>4. AtMost(B, c)
  BY <1>1 DEF Counted, Covers, RefsTo
<1> HIDE DEF A, B, e
<1>5. A \subseteq B \ {e}
  BY <1>3
<1>6. c >= 1 /\ AtMost(A, c - 1)
  <2> HIDE DEF c
  <2> QED
    BY <1>2, <1>3, <1>4, <1>5, OneLess
<1>7. Recounted(m, s, x, c - 1)
  <2> DEFINE k == c - 1
  <2>1. k \in Nat
    BY <1>2, <1>6
  <2> HIDE DEF k
  <2>2. Recounted(m, s, [m EXCEPT !.strs[s].refcnt = k], k)
    BY <1>1, <2>1, RecountIs
  <2> QED
    BY <2>2 DEF k
<1> HIDE DEF x
<1>8. Like(m, x)
  BY <1>7 DEF Recounted
<1>9. Shape(x) /\ Held(x, v)
  BY <1>1, <1>8, LikeIs
<1>10. Rooted(m, roots, rest) /\ Counted(m, roots, rest)
  BY <1>1 DEF StoreInv
<1>11. RefsTo(x, roots, rest) = RefsTo(m, roots, rest) /\ Rooted(x, roots, rest)
  BY <1>8, <1>10, LikeRefs
<1>12. Counted(x, roots, rest)
  <2> SUFFICES ASSUME NEW t \in DOMAIN m.strs
               PROVE  x.strs[t].refcnt = RefMax \/ AtMost(Refs(m.strs, roots, rest, t), x.strs[t].refcnt)
    BY <1>8, <1>11 DEF Counted, Covers, RefsTo, Like
  <2>1. CASE t = s
    <3>1. x.strs[t].refcnt = c - 1
      BY <1>7, <2>1 DEF Recounted
    <3> QED
      BY <1>6, <2>1, <3>1 DEF A
  <2>2. CASE t # s
    <3>1. x.strs[t] = m.strs[t]
      BY <1>7, <2>2 DEF Recounted
    <3> QED
      BY <1>10, <3>1 DEF Counted, Covers, RefsTo
  <2> QED
    BY <2>1, <2>2
<1> QED
  BY <1>6, <1>9, <1>11, <1>12 DEF StoreInv, x

\* What is freed has nothing left that refers to it.
Unreferred(m, work, s) ==
  /\ \A t \in DOMAIN m.strs : m.strs[t].parent # s /\ m.strs[t].ctx # s
  /\ \A i \in 1..Len(work) : work[i] # s

\* With the last reference gone nothing refers to the object.
LEMMA LastGone ==
  ASSUME NEW m, NEW v, NEW roots, NEW work, StoreInv(m, v, roots, work), work # <<>>,
         NEW s \in DOMAIN m.strs, s = Head(work), m.strs[s].refcnt = 1, RefMax # 1
  PROVE  Unreferred(m, Tail(work), s)
<1> DEFINE rest == Tail(work)
           D == DOMAIN m.strs \cup {Null}
           A == Refs(m.strs, roots, rest, s)
           k == Len(rest)
           x == [m EXCEPT !.strs[s].refcnt = m.strs[s].refcnt - 1]
<1>1. Formed(m) /\ work \in Seq(D)
  BY DEF StoreInv, Shape, Rooted
<1>2. StoreInv(x, v, roots, rest)
  BY CountDown
<1>3. Recounted(m, s, x, 0)
  <2>1. Recounted(m, s, [m EXCEPT !.strs[s].refcnt = 0], 0)
    BY <1>1, RecountIs
  <2>2. m.strs[s].refcnt - 1 = 0
    OBVIOUS
  <2> QED
    BY <2>1, <2>2
<1> HIDE DEF x
<1>4. Like(m, x) /\ x.strs[s].refcnt = 0 /\ s \in DOMAIN x.strs
  BY <1>3 DEF Recounted, Like
<1>5. RefsTo(x, roots, rest) = RefsTo(m, roots, rest)
  BY <1>4, LikeRefs
<1>6. AtMost(A, 0)
  <2>1. x.strs[s].refcnt = RefMax \/ AtMost(RefsTo(x, roots, rest)[s], x.strs[s].refcnt)
    BY <1>2, <1>4 DEF StoreInv, Counted, Covers
  <2>2. RefsTo(m, roots, rest)[s] = A
    BY DEF RefsTo
  <2> QED
    BY <1>4, <1>5, <2>1, <2>2, CiStringAssumption
<1>7. A = {}
  BY <1>6, NoneLeft
<1>8. \A t \in DOMAIN m.strs : m.strs[t].parent # s /\ m.strs[t].ctx # s
  <2> SUFFICES ASSUME NEW t \in DOMAIN m.strs PROVE m.strs[t].parent # s /\ m.strs[t].ctx # s
    OBVIOUS
  <2>1. t \in Nat
    BY <1>1, ObjectIs
  <2>2. m.strs[t].parent = s => <<1, t>> \in A
    BY <2>1 DEF Refs
  <2>3. m.strs[t].ctx = s => <<2, t>> \in A
    BY <2>1 DEF Refs
  <2> QED
    BY <1>7, <2>2, <2>3
<1>9. \A i \in 1..Len(rest) : rest[i] # s
  <2> SUFFICES ASSUME NEW i \in 1..Len(rest), rest[i] = s PROVE FALSE
    OBVIOUS
  <2>1. k \in Nat
    <3> HIDE DEF D
    <3> QED
      BY <1>1, WorkIs
  <2> HIDE DEF rest
  <2>2. k - i \in Nat /\ k - i < Len(rest) /\ Len(rest) - (k - i) = i
    BY <2>1
  <2>3. <<3, k - i>> \in Refs(m.strs, roots, rest, s)
    <3> DEFINE l == k - i
    <3> HIDE DEF l
    <3>1. l \in Nat /\ l < Len(rest) /\ rest[Len(rest) - l] = s
      BY <2>2 DEF l
    <3>2. <<3, l>> \in Refs(m.strs, roots, rest, s)
      BY <3>1 DEF Refs
    <3> QED
      BY <3>2 DEF l
  <2> QED
    BY <1>7, <2>3 DEF rest
<1> QED
  BY <1>8, <1>9 DEF Unreferred

\* The destructor of an object that the last reference is gone from.
LEMMA DestructorGood ==
  ASSUME NEW m, NEW v, NEW roots, NEW work, StoreInv(m, v, roots, work), work # <<>>,
         NEW s \in DOMAIN m.strs, s = Head(work), m.strs[s].refcnt = 1, RefMax # 1
  PROVE  Left(m, v, roots, ci_str_destructor(m, s, Tail(work)))
<1> DEFINE o == m.strs[s]
           rest == Tail(work)
           D == DOMAIN m.strs \cup {Null}
           E == (DOMAIN m.strs \ {s}) \cup {Null}
<1>1. /\ Shape(m) /\ Held(m, v) /\ Formed(m) /\ StoreInv(m, v, roots, rest)
      /\ Rooted(m, roots, rest) /\ Counted(m, roots, rest) /\ Unreferred(m, rest, s)
  <2>1. Shape(m) /\ Held(m, v) /\ Formed(m)
    BY DEF StoreInv, Shape
  <2>2. StoreInv(m, v, roots, rest)
    BY LessWork
  <2>3. Unreferred(m, rest, s)
    BY LastGone
  <2> QED
    BY <2>1, <2>2, <2>3 DEF StoreInv
<1>2. /\ m.bufs \in [DOMAIN m.bufs -> Str] /\ IsFiniteSet(DOMAIN m.bufs) /\ DOMAIN m.bufs \subseteq Nat
      /\ Static \in DOMAIN m.bufs /\ m = [strs |-> m.strs, bufs |-> m.bufs] /\ s \in Nat /\ s # Null
  BY <1>1, ObjectIs, CiStringAssumption DEF Shape, Formed
<1>3. /\ \A t \in DOMAIN m.strs : m.strs[t].parent # s /\ m.strs[t].ctx # s
      /\ \A i \in 1..Len(rest) : rest[i] # s
  BY <1>1 DEF Unreferred
<1>4. rest \in Seq(E)
  <2>1. rest \in Seq(D)
    BY <1>1 DEF Rooted
  <2> HIDE DEF rest
  <2>2. \A i \in 1..Len(rest) : rest[i] \in E
    <3>1. \A i \in 1..Len(rest) : rest[i] \in D
      BY <2>1
    <3> QED
      BY <1>3, <3>1
  <2>3. Len(rest) \in Nat /\ rest = [i \in 1..Len(rest) |-> rest[i]]
    BY <2>1
  <2> HIDE DEF E
  <2> QED
    BY <2>2, <2>3
<1>5. \A t \in DOMAIN m.strs : m.strs[t].buf \in DOMAIN m.bufs
  BY <1>1 DEF Held, HeldAs
<1>6. \A t \in DOMAIN m.strs : m.strs[t].refcnt = RefMax \/ AtMost(Refs(m.strs, roots, rest, t), m.strs[t].refcnt)
  BY <1>1 DEF Counted, Covers, RefsTo
<1>7. \A t \in DOMAIN m.strs : m.strs[t].refcnt \in Nat
  BY <1>1, ObjectIs
<1>8. DOMAIN m.strs \subseteq DOMAIN roots /\ \A t \in DOMAIN m.strs : roots[t] \in Nat
  BY <1>1 DEF Rooted
<1>9. ShapeOf(m, s)
  BY <1>1 DEF Shape
<1>10. CASE o.kind = "slice"
  <2> DEFINE x == [strs |-> Without(m.strs, s), bufs |-> m.bufs]
             B == m.bufs
             w == <<o.parent, o.ctx>> \o rest
             y == Releasing(x, w)
  <2>1. ci_str_destructor(m, s, rest) = y
    <3>1. [m EXCEPT !.strs = Without(@, s)] = x
      BY <1>2
    <3> QED
      BY <1>10, <3>1 DEF ci_str_destructor
  <2>2. y.m = x /\ y.work = w /\ y = Releasing(y.m, y.work) /\ x.bufs = m.bufs
    BY DEF Releasing
  <2>3. Departs(m, s, B, x)
    BY <1>2, <1>3, <1>5 DEF Departs
  <2> HIDE DEF x, B, y
  <2>4. /\ Shape(x) /\ Held(x, v) /\ DOMAIN x.strs = DOMAIN m.strs \ {s}
        /\ \A t \in DOMAIN x.strs : x.strs[t] = m.strs[t]
    BY <1>1, <2>3, DepartsGood
  <2>5. o.parent \in E /\ o.ctx \in E
    BY <1>3, <1>9, <1>10 DEF ShapeOf
  <2>6. w \in Seq(E)
    <3> HIDE DEF E, rest
    <3>1. <<o.parent, o.ctx>> \in Seq(E)
      BY <2>5
    <3> QED
      BY <1>4, <3>1, ConcatProperties
  <2>7. Rooted(x, roots, w)
    BY <1>8, <2>4, <2>6 DEF Rooted
  <2>8. Counted(x, roots, w)
    <3> SUFFICES ASSUME NEW t \in DOMAIN x.strs
                 PROVE  x.strs[t].refcnt = RefMax \/ AtMost(Refs(x.strs, roots, w, t), x.strs[t].refcnt)
      BY DEF Counted, Covers, RefsTo
    <3>1. t \in DOMAIN m.strs /\ x.strs[t] = m.strs[t]
      BY <2>4
    <3>2. m.strs[t].refcnt = RefMax \/ AtMost(Refs(m.strs, roots, rest, t), m.strs[t].refcnt)
      BY <1>6, <3>1
    <3> DEFINE f == m.strs
               g == x.strs
               n == m.strs[t].refcnt
    <3>3. AtMost(Refs(f, roots, rest, t), n) => AtMost(Refs(g, roots, w, t), n)
      <4>1. Follows(f, g, s, rest, w, E) /\ n \in Nat
        BY <1>2, <1>4, <1>7, <2>4, <3>1 DEF Follows
      <4> HIDE DEF E, f, g, n, w, rest
      <4> QED
        BY <4>1, SliceGoes
    <3> QED
      BY <3>1, <3>2, <3>3
  <2>9. DOMAIN x.strs \subseteq DOMAIN m.strs /\ DOMAIN x.bufs \subseteq DOMAIN m.bufs
    BY <2>2, <2>4
  <2> HIDE DEF w
  <2>10. Left(m, v, roots, y)
    BY <2>2, <2>4, <2>7, <2>8, <2>9 DEF Left, StoreInv
  <2> QED
    BY <2>1, <2>10
<1>11. CASE o.kind # "slice"
  <2> DEFINE b == o.buf
             B == Without(m.bufs, b)
             x == [strs |-> Without(m.strs, s), bufs |-> B]
             y == Releasing(x, rest)
  <2>1. ci_str_destructor(m, s, rest) = y
    <3>1. [m EXCEPT !.strs = Without(@, s)] = [strs |-> Without(m.strs, s), bufs |-> m.bufs]
      BY <1>2
    <3>2. [[strs |-> Without(m.strs, s), bufs |-> m.bufs] EXCEPT !.bufs = Without(@, b)] = x
      OBVIOUS
    <3> QED
      BY <1>11, <3>1, <3>2 DEF ci_str_destructor
  <2>2. y.m = x /\ y.work = rest /\ y = Releasing(y.m, y.work) /\ x.bufs = B
    BY DEF Releasing
  <2>3. Alone(m, s)
    BY <1>1, <1>3, <1>11, FreeAlone
  <2>4. b # Static
    BY <1>9, <1>11 DEF ShapeOf
  <2> HIDE DEF b
  <2>5. DOMAIN B = DOMAIN m.bufs \ {b} /\ B = [c \in DOMAIN B |-> B[c]] /\ \A c \in DOMAIN B : B[c] = m.bufs[c]
    BY DEF Without
  <2>6. x = [strs |-> Without(m.strs, s), bufs |-> B]
    OBVIOUS
  <2> HIDE DEF B, x, y
  <2>7. B \in [DOMAIN B -> Str] /\ IsFiniteSet(DOMAIN B) /\ DOMAIN B \subseteq Nat /\ Static \in DOMAIN B
    <3>1. \A c \in DOMAIN B : B[c] \in Str
      BY <1>2, <2>5
    <3>2. IsFiniteSet(DOMAIN B)
      BY <1>2, <2>5, FS_RemoveElement
    <3> QED
      BY <1>2, <2>4, <2>5, <3>1, <3>2
  <2>8. \A t \in DOMAIN m.strs : t # s => m.strs[t].buf \in DOMAIN B /\ B[m.strs[t].buf] = m.bufs[m.strs[t].buf]
    BY <1>5, <2>3, <2>5 DEF Alone, b
  <2>9. Departs(m, s, B, x)
    BY <1>3, <2>6, <2>7, <2>8 DEF Departs
  <2>10. /\ Shape(x) /\ Held(x, v) /\ DOMAIN x.strs = DOMAIN m.strs \ {s}
         /\ \A t \in DOMAIN x.strs : x.strs[t] = m.strs[t]
    BY <1>1, <2>9, DepartsGood
  <2>11. Rooted(x, roots, rest)
    <3> HIDE DEF rest
    <3> QED
      BY <1>4, <1>8, <2>10 DEF Rooted
  <2>12. Counted(x, roots, rest)
    <3> SUFFICES ASSUME NEW t \in DOMAIN x.strs
                 PROVE  x.strs[t].refcnt = RefMax \/ AtMost(Refs(x.strs, roots, rest, t), x.strs[t].refcnt)
      BY DEF Counted, Covers, RefsTo
    <3>1. t \in DOMAIN m.strs /\ x.strs[t] = m.strs[t] /\ m.strs[t].refcnt \in Nat
      BY <1>7, <2>10
    <3>2. m.strs[t].refcnt = RefMax \/ AtMost(Refs(m.strs, roots, rest, t), m.strs[t].refcnt)
      BY <1>6, <3>1
    <3>3. Refs(x.strs, roots, rest, t) \subseteq Refs(m.strs, roots, rest, t)
      <4> HIDE DEF rest
      <4> QED
        BY <2>10 DEF Refs
    <3>4. AtMost(Refs(m.strs, roots, rest, t), m.strs[t].refcnt) => AtMost(Refs(x.strs, roots, rest, t), m.strs[t].refcnt)
      BY <3>1, <3>3, Within
    <3> QED
      BY <3>1, <3>2, <3>4
  <2>13. DOMAIN x.strs \subseteq DOMAIN m.strs /\ DOMAIN x.bufs \subseteq DOMAIN m.bufs
    BY <2>2, <2>5, <2>10
  <2>14. Left(m, v, roots, y)
    BY <2>2, <2>10, <2>11, <2>12, <2>13 DEF Left, StoreInv
  <2> QED
    BY <2>1, <2>14
<1> QED
  BY <1>10, <1>11

\* A step of a release.
LEMMA ReleaseGood ==
  ASSUME NEW m, NEW v, NEW roots, NEW work, StoreInv(m, v, roots, work)
  PROVE  Left(m, v, roots, Release(Releasing(m, work)))
<1> DEFINE x == Releasing(m, work)
           s == Head(work)
           rest == Tail(work)
           D == DOMAIN m.strs \cup {Null}
<1> SUFFICES Left(m, v, roots, Release(x))
  OBVIOUS
<1>1. x.m = m /\ x.work = work
  BY DEF Releasing
<1>2. \A w : StoreInv(m, v, roots, w) => Left(m, v, roots, Releasing(m, w))
  BY DEF Left, Releasing
<1>3. CASE work = <<>>
  <2>1. Release(x) = Releasing(m, work)
    BY <1>1, <1>3 DEF Release
  <2> QED
    BY <1>2, <2>1
<1>4. CASE work # <<>>
  <2>1. s \in D
    <3>1. work \in Seq(D)
      BY DEF StoreInv, Rooted
    <3> HIDE DEF D
    <3> QED
      BY <1>4, <3>1, WorkIs
  <2>2. StoreInv(m, v, roots, rest)
    BY <1>4, LessWork
  <2>3. Formed(m)
    BY DEF StoreInv, Shape
  <2>4. Release(x) =
          IF s = Null THEN Releasing(m, rest)
          ELSE IF m.strs[s].refcnt = RefMax THEN Releasing(m, rest)
          ELSE IF m.strs[s].refcnt = 1 THEN ci_str_destructor(m, s, rest)
          ELSE Releasing([m EXCEPT !.strs[s].refcnt = @ - 1], rest)
    BY <1>1, <1>4 DEF Release
  <2> HIDE DEF x
  <2>5. CASE s = Null
    BY <1>2, <2>2, <2>4, <2>5
  <2>6. CASE s # Null /\ m.strs[s].refcnt = RefMax
    BY <1>2, <2>2, <2>4, <2>6
  <2>7. CASE s # Null /\ m.strs[s].refcnt # RefMax /\ m.strs[s].refcnt = 1
    <3>1. s \in DOMAIN m.strs /\ RefMax # 1
      BY <2>1, <2>7
    <3>2. Left(m, v, roots, ci_str_destructor(m, s, rest))
      BY <1>4, <2>7, <3>1, DestructorGood
    <3> QED
      BY <2>4, <2>7, <3>2
  <2>8. CASE s # Null /\ m.strs[s].refcnt # RefMax /\ m.strs[s].refcnt # 1
    <3> DEFINE k == m.strs[s].refcnt - 1
               y == [m EXCEPT !.strs[s].refcnt = k]
    <3>1. s \in DOMAIN m.strs
      BY <2>1, <2>8
    <3>2. m.strs[s].refcnt >= 1 /\ StoreInv(y, v, roots, rest)
      BY <1>4, <2>8, <3>1, CountDown
    <3>3. Release(x) = Releasing(y, rest)
      BY <2>4, <2>8
    <3>4. Recounted(m, s, y, k)
      <4>1. k \in Nat
        <5>1. m.strs[s].refcnt \in Nat
          BY <2>3, <3>1, ObjectIs
        <5> QED
          BY <3>2, <5>1
      <4> HIDE DEF k
      <4> QED
        BY <2>3, <3>1, <4>1, RecountIs
    <3> HIDE DEF y
    <3>5. DOMAIN y.strs = DOMAIN m.strs /\ y.bufs = m.bufs
      BY <3>4 DEF Recounted, Like
    <3>6. Left(m, v, roots, Releasing(y, rest))
      BY <3>2, <3>5 DEF Left, Releasing
    <3> QED
      BY <3>3, <3>6
  <2> QED
    BY <2>5, <2>6, <2>7, <2>8
<1> QED
  BY <1>3, <1>4

\* The work may be dropped altogether.
LEMMA NoWork ==
  ASSUME NEW m, NEW v, NEW roots, NEW work, StoreInv(m, v, roots, work)
  PROVE  StoreInv(m, v, roots, <<>>)
<1>1. Shape(m) /\ Held(m, v) /\ Rooted(m, roots, work) /\ Counted(m, roots, work) /\ Formed(m)
  BY DEF StoreInv, Shape
<1>2. Rooted(m, roots, <<>>)
  BY <1>1, EmptySeq DEF Rooted
<1>3. Counted(m, roots, <<>>)
  <2> SUFFICES ASSUME NEW t \in DOMAIN m.strs
               PROVE  m.strs[t].refcnt = RefMax \/ AtMost(Refs(m.strs, roots, <<>>, t), m.strs[t].refcnt)
    BY DEF Counted, Covers, RefsTo
  <2>1. m.strs[t].refcnt = RefMax \/ AtMost(Refs(m.strs, roots, work, t), m.strs[t].refcnt)
    BY <1>1 DEF Counted, Covers, RefsTo
  <2>2. Refs(m.strs, roots, <<>>, t) \subseteq Refs(m.strs, roots, work, t)
    <3> SUFFICES ASSUME NEW r \in Refs(m.strs, roots, <<>>, t) PROVE r \in Refs(m.strs, roots, work, t)
      OBVIOUS
    <3>1. r[2] \in Nat /\ Len(<<>>) = 0
      BY DEF Refs
    <3>2. ~(r[2] < Len(<<>>))
      BY <3>1
    <3> QED
      BY <3>2 DEF Refs
  <2>3. m.strs[t].refcnt \in Nat
    BY <1>1, ObjectIs
  <2>4. AtMost(Refs(m.strs, roots, work, t), m.strs[t].refcnt)
           => AtMost(Refs(m.strs, roots, <<>>, t), m.strs[t].refcnt)
    BY <2>2, <2>3, Within
  <2> QED
    BY <2>1, <2>4
<1> QED
  BY <1>1, <1>2, <1>3 DEF StoreInv

\* What a release may come to.
Remnants(m) ==
  [m : [strs : UNION {[E -> Objects] : E \in SUBSET DOMAIN m.strs},
        bufs : UNION {[E -> Str] : E \in SUBSET DOMAIN m.bufs}],
   work : Seq(DOMAIN m.strs \cup {Null})]

\* What is left is one of them.
LEMMA LeftIn ==
  ASSUME NEW m, NEW v, NEW roots, NEW y, Left(m, v, roots, y)
  PROVE  y \in Remnants(m)
<1> DEFINE x == y.m
           U == UNION {[E -> Objects] : E \in SUBSET DOMAIN m.strs}
           V == UNION {[E -> Str] : E \in SUBSET DOMAIN m.bufs}
           D == DOMAIN m.strs \cup {Null}
<1>1. /\ y = [m |-> x, work |-> y.work] /\ Formed(x) /\ y.work \in Seq(DOMAIN x.strs \cup {Null})
      /\ DOMAIN x.strs \subseteq DOMAIN m.strs /\ DOMAIN x.bufs \subseteq DOMAIN m.bufs
  BY DEF Left, Releasing, StoreInv, Shape, Rooted
<1>2. y.work \in Seq(D)
  <2> DEFINE w == y.work
             C == DOMAIN x.strs \cup {Null}
  <2>1. w \in Seq(C) /\ C \subseteq D
    BY <1>1
  <2> HIDE DEF w, C, D
  <2>2. w \in Seq(D)
    BY <2>1
  <2> QED
    BY <2>2 DEF w
<1>3. x = [strs |-> x.strs, bufs |-> x.bufs] /\ x.strs \in [DOMAIN x.strs -> Objects] /\ x.bufs \in [DOMAIN x.bufs -> Str]
  BY <1>1 DEF Formed
<1>4. x.strs \in U /\ x.bufs \in V
  BY <1>1, <1>3
<1> HIDE DEF x, U, V, D
<1>5. x \in [strs : U, bufs : V]
  BY <1>3, <1>4
<1>6. y \in [m : [strs : U, bufs : V], work : Seq(D)]
  BY <1>1, <1>2, <1>5
<1> QED
  BY <1>6 DEF U, V, D, Remnants

\* A step of a release from what is left.
LEMMA LeftOn ==
  ASSUME NEW m, NEW v, NEW roots, NEW y, Left(m, v, roots, y)
  PROVE  Left(m, v, roots, Release(y))
<1> DEFINE z == Release(y)
<1>1. y = Releasing(y.m, y.work) /\ StoreInv(y.m, v, roots, y.work)
  BY DEF Left
<1>2. Left(y.m, v, roots, Release(Releasing(y.m, y.work)))
  BY <1>1, ReleaseGood
<1>3. Left(y.m, v, roots, z)
  BY <1>1, <1>2
<1> HIDE DEF z
<1>4. Left(m, v, roots, z)
  BY <1>3 DEF Left
<1> QED
  BY <1>4 DEF z

\* ci_str_dec: what is left holds the same texts, with one reference less.
LEMMA DecGood ==
  ASSUME NEW m, NEW v, NEW roots, NEW s, StoreInv(m, v, roots, <<s>>)
  PROVE  /\ StoreInv(ci_str_dec(m, s), v, roots, <<>>)
         /\ DOMAIN ci_str_dec(m, s).strs \subseteq DOMAIN m.strs
<1> DEFINE n == 2 * Cardinality(DOMAIN m.strs) + 1
           X == {y \in Remnants(m) : Left(m, v, roots, y)}
           b == Releasing(m, <<s>>)
           g == [x \in X |-> Release(x)]
           P(f) == f = [i \in 0..n |-> IF i = 0 THEN b ELSE Release(f[i - 1])]
           loop == CHOOSE f : P(f)
<1>1. n \in Nat
  <2>1. IsFiniteSet(DOMAIN m.strs)
    BY DEF StoreInv, Shape, Formed
  <2> QED
    BY <2>1, FS_CardinalityType
<1>2. \A y : y \in X <=> Left(m, v, roots, y)
  BY LeftIn
<1>3. b \in X
  <2>1. Left(m, v, roots, b)
    BY DEF Left, Releasing
  <2> QED
    BY <1>2, <2>1
<1>4. \A x \in X : g[x] \in X
  BY <1>2, LeftOn
<1>5. PICK f : Rounds(n, X, b, g, f)
  <2> HIDE DEF n, X, b, g
  <2> QED
    BY <1>1, <1>3, <1>4, RoundsExist
<1>6. P(f)
  <2>1. \A i \in 0..n : i # 0 => f[i - 1] \in X
    BY <1>1, <1>5 DEF Rounds
  <2> HIDE DEF n, X, b
  <2> QED
    BY <1>5, <2>1 DEF Rounds
<1>7. P(loop)
  <2> HIDE DEF P
  <2> QED
    BY <1>6, Zenon
<1>8. ci_str_dec(m, s) = loop[n].m
  BY DEF ci_str_dec
<1> HIDE DEF loop
<1>9. loop[n] \in X
  <2>1. n \in 0..n /\ 0 \in 0..n
    BY <1>1
  <2>2. loop[0] = b
    BY <1>7, <2>1
  <2>3. \A i \in 1..n : loop[i] = Release(loop[i - 1])
    <3>1. \A i \in 1..n : i \in 0..n /\ i # 0
      BY <1>1
    <3> HIDE DEF b, n
    <3> QED
      BY <1>7, <3>1
  <2>4. \A i \in 1..n : loop[i - 1] \in X => loop[i] \in X
    BY <1>2, <2>3, LeftOn
  <2> DEFINE S == [i \in 0..n |-> X]
  <2>5. \A i \in 0..n : S[i] = X
    OBVIOUS
  <2>6. \A i \in 1..n : i \in 0..n /\ i - 1 \in 0..n
    BY <1>1
  <2> HIDE DEF n, X, b, P, S
  <2>7. loop[0] \in S[0]
    BY <1>3, <2>1, <2>2, <2>5
  <2>8. \A i \in 1..n : loop[i - 1] \in S[i - 1] => loop[i] \in S[i]
    BY <2>4, <2>5, <2>6
  <2>9. \A i \in 0..n : loop[i] \in S[i]
    BY <1>1, <2>7, <2>8, AlongInduction
  <2> QED
    BY <2>1, <2>5, <2>9
<1> DEFINE y == loop[n]
           w == y.work
<1>10. StoreInv(y.m, v, roots, w) /\ DOMAIN y.m.strs \subseteq DOMAIN m.strs
  BY <1>2, <1>9 DEF Left
<1>11. StoreInv(y.m, v, roots, <<>>)
  BY <1>10, NoWork
<1> QED
  BY <1>8, <1>10, <1>11

-----------------------------------------------------------------------------
(* The invariant *)

\* Other histories of the same objects, with no more references.
LEMMA Weaker ==
  ASSUME NEW m, NEW v, NEW roots, NEW work, StoreInv(m, v, roots, work), NEW u, NEW q,
         DOMAIN m.strs \subseteq DOMAIN u, DOMAIN m.strs \subseteq DOMAIN q,
         \A t \in DOMAIN m.strs : u[t] = v[t] /\ q[t] \in Nat /\ q[t] <= roots[t]
  PROVE  StoreInv(m, u, q, work)
<1>1. Shape(m) /\ Held(m, v) /\ Rooted(m, roots, work) /\ Counted(m, roots, work) /\ Formed(m)
  BY DEF StoreInv, Shape
<1>2. Held(m, u)
  <2> SUFFICES ASSUME NEW t \in DOMAIN m.strs PROVE HeldAs(m, t, u[t])
    BY DEF Held
  <2>1. HeldAs(m, t, v[t]) /\ u[t] = v[t]
    BY <1>1 DEF Held
  <2> QED
    BY <2>1
<1>3. Rooted(m, q, work)
  BY <1>1 DEF Rooted
<1>4. Counted(m, q, work)
  <2> SUFFICES ASSUME NEW t \in DOMAIN m.strs
               PROVE  m.strs[t].refcnt = RefMax \/ AtMost(Refs(m.strs, q, work, t), m.strs[t].refcnt)
    BY DEF Counted, Covers, RefsTo
  <2>1. m.strs[t].refcnt = RefMax \/ AtMost(Refs(m.strs, roots, work, t), m.strs[t].refcnt)
    BY <1>1 DEF Counted, Covers, RefsTo
  <2>2. 1..q[t] \subseteq 1..roots[t]
    BY <1>1 DEF Rooted
  <2>3. Refs(m.strs, q, work, t) \subseteq Refs(m.strs, roots, work, t)
    BY <2>2 DEF Refs
  <2>4. m.strs[t].refcnt \in Nat
    BY <1>1, ObjectIs
  <2>5. AtMost(Refs(m.strs, roots, work, t), m.strs[t].refcnt)
           => AtMost(Refs(m.strs, q, work, t), m.strs[t].refcnt)
    BY <2>3, <2>4, Within
  <2> QED
    BY <2>1, <2>5
<1> QED
  BY <1>1, <1>2, <1>3, <1>4 DEF StoreInv

\* A reference that the script lets go of becomes the work of a release.
Given(s, k) == [x \in (0..3) \X Nat |-> IF x = <<3, 0>> THEN <<0, k>> ELSE x]

\* Dropping a reference begins a release.
LEMMA LetGo ==
  ASSUME NEW m, NEW v, NEW roots, StoreInv(m, v, roots, <<>>), NEW s \in DOMAIN m.strs, roots[s] > 0
  PROVE  StoreInv(m, v, [roots EXCEPT ![s] = @ - 1], <<s>>)
<1> DEFINE k == roots[s]
           q == [roots EXCEPT ![s] = @ - 1]
           w == <<s>>
<1>1. Shape(m) /\ Held(m, v) /\ Rooted(m, roots, <<>>) /\ Counted(m, roots, <<>>) /\ Formed(m)
  BY DEF StoreInv, Shape
<1>2. k \in Nat /\ s \in DOMAIN roots /\ k - 1 \in Nat
  BY <1>1 DEF Rooted
<1>3. /\ DOMAIN q = DOMAIN roots /\ q[s] = k - 1
      /\ \A t \in DOMAIN m.strs : t # s => q[t] = roots[t]
  BY <1>1, <1>2 DEF Rooted
<1>4. Len(w) = 1 /\ w[1] = s
  OBVIOUS
<1>5. w \in Seq(DOMAIN m.strs \cup {Null})
  OBVIOUS
<1> HIDE DEF k, q, w
<1>6. Rooted(m, q, w)
  BY <1>1, <1>2, <1>3, <1>5 DEF Rooted
<1>7. \A x : x \in (0..3) \X Nat => Given(s, k)[x] = IF x = <<3, 0>> THEN <<0, k>> ELSE x
  BY DEF Given
<1>8. Counted(m, q, w)
  <2> SUFFICES ASSUME NEW t \in DOMAIN m.strs
               PROVE  m.strs[t].refcnt = RefMax \/ AtMost(Refs(m.strs, q, w, t), m.strs[t].refcnt)
    BY DEF Counted, Covers, RefsTo
  <2> DEFINE A == Refs(m.strs, q, w, t)
             B == Refs(m.strs, roots, <<>>, t)
             F == [x \in A |-> Given(s, k)[x]]
  <2>1. m.strs[t].refcnt = RefMax \/ AtMost(B, m.strs[t].refcnt)
    BY <1>1 DEF Counted, Covers, RefsTo
  <2>2. m.strs[t].refcnt \in Nat
    BY <1>1, ObjectIs
  <2>3. A \subseteq (0..3) \X Nat /\ \A x \in A : x = <<x[1], x[2]>> /\ x[1] \in 0..3 /\ x[2] \in Nat
    BY DEF Refs
  <2>4. <<0, k>> \notin A \/ t # s
    BY <1>2, <1>3 DEF Refs
  <2>5. ASSUME NEW x \in A, x[1] = 3 PROVE x = <<3, 0>> /\ t = s
    <3>1. x[2] < Len(w) /\ w[Len(w) - x[2]] = t /\ x[2] \in Nat
      BY <2>5 DEF Refs
    <3>2. x[2] = 0
      BY <1>4, <3>1
    <3> QED
      BY <1>4, <2>3, <2>5, <3>1, <3>2
  <2>6. 1..q[t] \subseteq 1..roots[t]
    <3>1. q[t] \in Nat /\ roots[t] \in Nat /\ q[t] <= roots[t]
      BY <1>1, <1>2, <1>3 DEF Rooted, k
    <3> QED
      BY <3>1
  <2>7. ASSUME NEW x \in A, x[1] # 3 PROVE x \in B
    BY <2>6, <2>7 DEF Refs
  <2>8. t = s => <<0, k>> \in B
    <3>1. k \in 1..k
      BY <1>2, <1>3 DEF k
    <3> QED
      BY <1>2, <3>1 DEF Refs, k
  <2>9. ASSUME NEW x \in A PROVE F[x] \in B
    <3>1. F[x] = IF x = <<3, 0>> THEN <<0, k>> ELSE x
      BY <1>7, <2>3
    <3> HIDE DEF A, B, F
    <3>2. CASE x[1] = 3
      BY <2>5, <2>8, <3>1, <3>2
    <3>3. CASE x[1] # 3
      <4>1. x # <<3, 0>>
        BY <3>3
      <4> QED
        BY <2>7, <3>1, <3>3, <4>1
    <3> QED
      BY <3>2, <3>3
  <2>10. ASSUME NEW x \in A, NEW y \in A, F[x] = F[y] PROVE x = y
    <3>1. F[x] = IF x = <<3, 0>> THEN <<0, k>> ELSE x
      BY <1>7, <2>3
    <3>2. F[y] = IF y = <<3, 0>> THEN <<0, k>> ELSE y
      BY <1>7, <2>3
    <3>3. <<3, 0>> \in A => t = s
      <4> DEFINE e == <<3, 0>>
      <4>1. e[1] = 3
        OBVIOUS
      <4> HIDE DEF e, A
      <4>2. e \in A => t = s
        BY <2>5, <4>1
      <4> QED
        BY <4>2 DEF e
    <3> HIDE DEF A, B, F
    <3>4. CASE <<0, k>> \in A
      BY <2>4, <2>10, <3>1, <3>2, <3>3, <3>4
    <3>5. CASE <<0, k>> \notin A
      BY <2>10, <3>1, <3>2, <3>5
    <3> QED
      BY <3>4, <3>5
  <2>11. Names(F, A, B)
    <3>1. F \in [A -> B]
      BY <2>9
    <3> HIDE DEF A, B, F
    <3> QED
      BY <2>10, <3>1 DEF Names
  <2> HIDE DEF A, B, F
  <2>12. AtMost(B, m.strs[t].refcnt) => AtMost(A, m.strs[t].refcnt)
    BY <2>2, <2>11, Fewer
  <2> QED
    BY <2>1, <2>12 DEF A
<1> QED
  BY <1>1, <1>6, <1>8 DEF StoreInv, q, w

\* The store, the texts and the references of the script go together.
Sound(m, v, q) ==
  StoreInv(m, v, q, <<>>) /\ DOMAIN v = DOMAIN m.strs /\ DOMAIN q = DOMAIN m.strs

\* What is sound about one object.
LEMMA SoundIs ==
  ASSUME NEW m, NEW v, NEW q, Sound(m, v, q), NEW s \in DOMAIN m.strs
  PROVE  /\ Formed(m) /\ HeldAs(m, s, v[s]) /\ v[s] \in Str /\ Len(v[s]) \in Nat
         /\ Text(m, s) = v[s] /\ ci_str_len(m, s) = Len(v[s]) /\ q[s] \in Nat
         /\ s \in DOMAIN v /\ s \in DOMAIN q /\ StoreInv(m, v, q, <<>>)
<1>1. Formed(m) /\ HeldAs(m, s, v[s]) /\ s \in DOMAIN v /\ s \in DOMAIN q /\ StoreInv(m, v, q, <<>>) /\ q[s] \in Nat
  BY DEF Sound, StoreInv, Shape, Held, Rooted
<1> QED
  BY <1>1, HeldText

\* A change of a string that no slice reads.
LEMMA ChangeGood ==
  ASSUME NEW m, NEW v, NEW q, Sound(m, v, q), NEW s \in DOMAIN m.strs,
         m.strs[s].kind # "slice", Alone(m, s), NEW x, NEW t, Now(m, s, x, t)
  PROVE  Sound(x, [v EXCEPT ![s] = t], q)
<1>1. StoreInv(m, v, q, <<>>) /\ DOMAIN v = DOMAIN m.strs /\ DOMAIN q = DOMAIN m.strs /\ Formed(m)
  BY DEF Sound, StoreInv, Shape
<1>2. StoreInv(x, [v EXCEPT ![s] = t], q, <<>>)
  BY <1>1, EditedGood
<1>3. DOMAIN x.strs = DOMAIN m.strs
  BY <1>1, NowIs
<1>4. DOMAIN [v EXCEPT ![s] = t] = DOMAIN v
  OBVIOUS
<1> QED
  BY <1>1, <1>2, <1>3, <1>4 DEF Sound

\* A new string.
LEMMA MadeGood ==
  ASSUME NEW m, NEW v, NEW q, Sound(m, v, q), NEW y, NEW t, Made(m, v, q, y, t)
  PROVE  Sound(y, With(v, NewStr(m), t), With(q, NewStr(m), 1))
<1> DEFINE n == NewStr(m)
<1>1. DOMAIN With(v, n, t) = DOMAIN v \cup {n} /\ DOMAIN With(q, n, 1) = DOMAIN q \cup {n}
  BY DEF With
<1>2. StoreInv(y, With(v, n, t), With(q, n, 1), <<>>) /\ DOMAIN y.strs = DOMAIN m.strs \cup {n}
  BY DEF Made
<1>3. DOMAIN v = DOMAIN m.strs /\ DOMAIN q = DOMAIN m.strs
  BY DEF Sound
<1> HIDE DEF n
<1>4. Sound(y, With(v, n, t), With(q, n, 1))
  BY <1>1, <1>2, <1>3 DEF Sound
<1> QED
  BY <1>4 DEF n

\* A reference taken.
LEMMA KeepGood ==
  ASSUME NEW m, NEW v, NEW q, Sound(m, v, q), NEW s \in DOMAIN m.strs
  PROVE  Sound(ci_str_inc(m, s), v, [q EXCEPT ![s] = @ + 1])
<1> DEFINE x == ci_str_inc(m, s)
           k == q[s]
           p == [q EXCEPT ![s] = @ + 1]
           R == RefsTo(m, q, <<>>)
           Q == RefsTo(m, p, <<>>)
           e == <<0, k + 1>>
<1>1. /\ Shape(m) /\ Held(m, v) /\ Rooted(m, q, <<>>) /\ Counted(m, q, <<>>) /\ Formed(m)
      /\ DOMAIN v = DOMAIN m.strs /\ DOMAIN q = DOMAIN m.strs /\ k \in Nat
  BY DEF Sound, StoreInv, Shape, Rooted
<1>2. p[s] = k + 1 /\ DOMAIN p = DOMAIN q /\ \A t \in DOMAIN m.strs : t # s => p[t] = q[t]
  BY <1>1
<1>3. 1..k + 1 = (1..k) \cup {k + 1}
  BY <1>1
<1>4. Covers(m, R)
  BY <1>1 DEF Counted
<1> HIDE DEF p
<1>5. Q[s] \subseteq R[s] \cup {e}
  <2>1. Q[s] = Refs(m.strs, p, <<>>, s) /\ R[s] = Refs(m.strs, q, <<>>, s)
    BY DEF RefsTo
  <2>2. \A r \in Refs(m.strs, p, <<>>, s) : r = <<r[1], r[2]>>
    BY DEF Refs
  <2>3. \A r \in Refs(m.strs, p, <<>>, s) : r \in Refs(m.strs, q, <<>>, s) \/ (r[1] = 0 /\ r[2] = k + 1)
    <3> SUFFICES ASSUME NEW r \in Refs(m.strs, p, <<>>, s), ~(r[1] = 0 /\ r[2] = k + 1)
                 PROVE  r \in Refs(m.strs, q, <<>>, s)
      OBVIOUS
    <3>1. r[2] \in 1..p[s] => r[2] \in 1..q[s] \/ r[2] = k + 1
      BY <1>2, <1>3
    <3> QED
      BY <3>1 DEF Refs
  <2> HIDE DEF Q, R
  <2> QED
    BY <2>1, <2>2, <2>3
<1>6. \A t \in DOMAIN m.strs : t # s => Q[t] \subseteq R[t]
  <2> SUFFICES ASSUME NEW t \in DOMAIN m.strs, t # s PROVE Q[t] \subseteq R[t]
    OBVIOUS
  <2>1. Q[t] = Refs(m.strs, p, <<>>, t) /\ R[t] = Refs(m.strs, q, <<>>, t)
    BY DEF RefsTo
  <2>2. p[t] = q[t]
    BY <1>2
  <2>3. Refs(m.strs, p, <<>>, t) \subseteq Refs(m.strs, q, <<>>, t)
    BY <2>2 DEF Refs
  <2> HIDE DEF Q, R
  <2> QED
    BY <2>1, <2>3
<1> HIDE DEF Q, R, e
<1>7. Like(m, x) /\ Covers(x, Q)
  BY <1>1, <1>4, <1>5, <1>6, IncIs
<1> HIDE DEF x
<1>8. Shape(x) /\ Held(x, v) /\ DOMAIN x.strs = DOMAIN m.strs
  BY <1>1, <1>7, LikeIs DEF Like
<1>9. RefsTo(x, p, <<>>) = Q
  BY <1>7, LikeRefs DEF Q
<1>10. Rooted(x, p, <<>>)
  <2>1. Rooted(m, p, <<>>)
    <3>1. \A t \in DOMAIN m.strs : p[t] \in Nat
      BY <1>1, <1>2 DEF Rooted
    <3> QED
      BY <1>1, <1>2, <3>1 DEF Rooted
  <2> QED
    BY <1>7, <2>1, LikeRefs
<1>11. Sound(x, v, p)
  BY <1>1, <1>2, <1>7, <1>8, <1>9, <1>10 DEF Sound, StoreInv, Counted
<1> QED
  BY <1>11 DEF x, p

\* A reference dropped, with all that is freed on the way.
LEMMA DropGood ==
  ASSUME NEW m, NEW v, NEW q, Sound(m, v, q), NEW s \in DOMAIN m.strs, q[s] > 0,
         NEW x, x = ci_str_dec(m, s),
         NEW u, u = [t \in DOMAIN x.strs |-> v[t]],
         NEW p, p = [t \in DOMAIN x.strs |-> IF t = s THEN q[s] - 1 ELSE q[t]]
  PROVE  Sound(x, u, p)
<1> DEFINE r == [q EXCEPT ![s] = @ - 1]
<1>1. StoreInv(m, v, q, <<>>) /\ DOMAIN q = DOMAIN m.strs /\ \A t \in DOMAIN m.strs : q[t] \in Nat
  BY DEF Sound, StoreInv, Rooted
<1>2. StoreInv(m, v, r, <<s>>)
  BY <1>1, LetGo
<1>3. \A t \in DOMAIN m.strs : r[t] = IF t = s THEN q[s] - 1 ELSE q[t]
  BY <1>1
<1> HIDE DEF r
<1>4. StoreInv(x, v, r, <<>>) /\ DOMAIN x.strs \subseteq DOMAIN m.strs
  BY <1>2, DecGood
<1>5. DOMAIN u = DOMAIN x.strs /\ DOMAIN p = DOMAIN x.strs /\ \A t \in DOMAIN x.strs : u[t] = v[t]
  OBVIOUS
<1>6. \A t \in DOMAIN x.strs : p[t] = r[t] /\ p[t] \in Nat
  <2> SUFFICES ASSUME NEW t \in DOMAIN x.strs PROVE p[t] = r[t] /\ p[t] \in Nat
    OBVIOUS
  <2>1. t \in DOMAIN m.strs /\ q[t] \in Nat /\ q[s] \in Nat
    BY <1>1, <1>4
  <2> QED
    BY <1>3, <2>1
<1>7. \A t \in DOMAIN x.strs : u[t] = v[t] /\ p[t] \in Nat /\ p[t] <= r[t]
  BY <1>5, <1>6
<1>8. StoreInv(x, u, p, <<>>)
  BY <1>4, <1>5, <1>7, Weaker
<1> QED
  BY <1>5, <1>8 DEF Sound

-----------------------------------------------------------------------------
(* The initial state *)

\* A count that is saturated is never below the references.
LEMMA SaturatedGood ==
  ASSUME NEW m, NEW v, NEW q, Sound(m, v, q), NEW s \in DOMAIN m.strs
  PROVE  /\ Sound([m EXCEPT !.strs[s].refcnt = RefMax], v, q)
         /\ DOMAIN [m EXCEPT !.strs[s].refcnt = RefMax].strs = DOMAIN m.strs
<1> DEFINE x == [m EXCEPT !.strs[s].refcnt = RefMax]
<1>1. /\ Shape(m) /\ Held(m, v) /\ Rooted(m, q, <<>>) /\ Counted(m, q, <<>>) /\ Formed(m)
      /\ DOMAIN v = DOMAIN m.strs /\ DOMAIN q = DOMAIN m.strs
  BY DEF Sound, StoreInv, Shape
<1>2. Recounted(m, s, x, RefMax)
  BY <1>1, RecountIs, CiStringAssumption
<1> HIDE DEF x
<1>3. Like(m, x) /\ DOMAIN x.strs = DOMAIN m.strs
  BY <1>2 DEF Recounted, Like
<1>4. Shape(x) /\ Held(x, v)
  BY <1>1, <1>3, LikeIs
<1>5. RefsTo(x, q, <<>>) = RefsTo(m, q, <<>>) /\ Rooted(x, q, <<>>)
  BY <1>1, <1>3, LikeRefs
<1>6. Counted(x, q, <<>>)
  <2> DEFINE R == RefsTo(m, q, <<>>)
  <2>1. Covers(m, R)
    BY <1>1 DEF Counted
  <2> HIDE DEF R
  <2>2. ASSUME NEW t \in DOMAIN m.strs PROVE x.strs[t].refcnt = RefMax \/ AtMost(R[t], x.strs[t].refcnt)
    <3>1. m.strs[t].refcnt = RefMax \/ AtMost(R[t], m.strs[t].refcnt)
      BY <2>1 DEF Covers
    <3>2. t # s => x.strs[t] = m.strs[t]
      BY <1>2 DEF Recounted
    <3>3. x.strs[s].refcnt = RefMax
      BY <1>2 DEF Recounted
    <3> QED
      BY <3>1, <3>2, <3>3
  <2>3. Covers(x, R)
    BY <1>3, <2>2 DEF Covers
  <2> QED
    BY <1>5, <2>3 DEF Counted, R
<1>7. Sound(x, v, q)
  BY <1>1, <1>3, <1>4, <1>5, <1>6 DEF Sound, StoreInv
<1> QED
  BY <1>3, <1>7 DEF x

\* The store before the first string.
NoStrings == [strs |-> <<>>, bufs |-> With(<<>>, Static, <<>>)]

\* It is sound.
LEMMA NoStringsGood ==
  Sound(NoStrings, <<>>, <<>>) /\ DOMAIN NoStrings.strs = {}
<1> DEFINE m == NoStrings
           B == With(<<>>, Static, <<>>)
<1>1. DOMAIN <<>> = {}
  OBVIOUS
<1>2. m.strs = <<>> /\ m.bufs = B /\ m = [strs |-> m.strs, bufs |-> m.bufs]
  BY DEF NoStrings
<1>3. DOMAIN B = {Static} /\ B = [b \in DOMAIN B |-> B[b]] /\ \A b \in DOMAIN B : B[b] = <<>>
  BY <1>1 DEF With
<1>4. B \in [DOMAIN B -> Str] /\ DOMAIN B \subseteq Nat /\ Static \in DOMAIN B /\ IsFiniteSet(DOMAIN B)
  <2>1. <<>> \in Str
    BY EmptySeq DEF Str
  <2>2. IsFiniteSet({Static})
    BY FS_Singleton
  <2> HIDE DEF B
  <2> QED
    BY <1>3, <2>1, <2>2 DEF Static
<1> HIDE DEF B
<1>5. DOMAIN m.strs = {} /\ m.strs \in [{} -> Objects] /\ IsFiniteSet({})
  BY <1>1, <1>2, FS_EmptySet
<1> HIDE DEF m
<1>6. Formed(m)
  BY <1>2, <1>4, <1>5 DEF Formed
<1>7. Shape(m)
  BY <1>2, <1>4, <1>5, <1>6 DEF Shape, Apart, Grounded
<1>8. Held(m, <<>>)
  BY <1>5 DEF Held
<1>9. Rooted(m, <<>>, <<>>)
  BY <1>5, EmptySeq DEF Rooted
<1>10. Counted(m, <<>>, <<>>)
  BY <1>5 DEF Counted, Covers
<1> QED
  BY <1>1, <1>5, <1>7, <1>8, <1>9, <1>10 DEF Sound, StoreInv, m

\* The first two objects are 1 and 2.
LEMMA FirstIs ==
  ASSUME NEW m
  PROVE  /\ DOMAIN m.strs = {} => NewStr(m) = 1
         /\ DOMAIN m.strs = {1} => NewStr(m) = 2
<1>1. Cardinality({}) = 0 /\ Cardinality({1}) = 1
  BY FS_EmptySet, FS_Singleton
<1>2. 1..0 + 1 \ {} = {1} /\ 1..1 + 1 \ {1} = {2}
  OBVIOUS
<1>3. Min({1}) = 1
  <2> DEFINE T == {1}
  <2>1. T \subseteq Nat /\ T # {}
    OBVIOUS
  <2> HIDE DEF T
  <2>2. Min(T) \in T
    BY <2>1, MinIs
  <2> QED
    BY <2>2 DEF T
<1>4. Min({2}) = 2
  <2> DEFINE T == {2}
  <2>1. T \subseteq Nat /\ T # {}
    OBVIOUS
  <2> HIDE DEF T
  <2>2. Min(T) \in T
    BY <2>1, MinIs
  <2> QED
    BY <2>2 DEF T
<1> QED
  BY <1>1, <1>2, <1>3, <1>4 DEF NewStr

\* The string of the program text, which nothing counts.
LEMMA ReadonlyGood ==
  ASSUME NEW m, NEW v, NEW q, Sound(m, v, q), NEW t \in Str
  PROVE  Sound(ci_str_new_readonly(m, t), With(v, NewStr(m), t), With(q, NewStr(m), 0))
<1> DEFINE n == NewStr(m)
           k == Len(t)
           y == Filled(ci_str_alloc(m, k, "readonly"), n, t)
           z == [y EXCEPT !.strs[n].refcnt = RefMax]
           w == With(v, n, t)
           p == With(q, n, 1)
           r == With(q, n, 0)
<1>1. ci_str_new_readonly(m, t) = z
  BY DEF ci_str_new_readonly, Filled
<1>2. k \in Nat /\ Len(t) <= k
  BY StrIs
<1>3. Made(m, v, q, y, t)
  <2>1. StoreInv(m, v, q, <<>>) /\ "readonly" \in {"str", "readonly"}
    BY DEF Sound
  <2> HIDE DEF k
  <2> QED
    BY <1>2, <2>1, FilledGood
<1> HIDE DEF y
<1>4. Sound(y, w, p) /\ n \in DOMAIN y.strs
  BY <1>3, MadeGood DEF Made
<1> HIDE DEF w, p
<1>5. Sound(z, w, p) /\ DOMAIN z.strs = DOMAIN y.strs
  BY <1>4, SaturatedGood
<1> HIDE DEF z
<1>6. \A x \in DOMAIN p : r[x] = IF x = n THEN 0 ELSE p[x]
  BY DEF p, With
<1>7. DOMAIN r = DOMAIN p /\ p[n] = 1
  BY DEF p, With
<1> HIDE DEF r, n
<1>8. StoreInv(z, w, p, <<>>) /\ DOMAIN w = DOMAIN z.strs /\ DOMAIN p = DOMAIN z.strs /\ \A x \in DOMAIN z.strs : p[x] \in Nat
  BY <1>5 DEF Sound, StoreInv, Rooted
<1>9. \A x \in DOMAIN z.strs : w[x] = w[x] /\ r[x] \in Nat /\ r[x] <= p[x]
  BY <1>6, <1>7, <1>8
<1>10. StoreInv(z, w, r, <<>>)
  BY <1>7, <1>8, <1>9, Weaker
<1>11. Sound(z, w, r)
  BY <1>7, <1>8, <1>10 DEF Sound
<1> QED
  BY <1>1, <1>11 DEF w, r, n

StrInv == Sound(mem, val, strRefs)

\* The two strings at the start.
LEMMA StrInvInit ==
  StrInit => StrInv
<1> SUFFICES ASSUME StrInit PROVE StrInv
  OBVIOUS
<1> DEFINE m1 == ci_str_new_readonly(NoStrings, Texts[1])
           m2 == NewText(m1, Texts[2])
           v1 == With(<<>>, 1, Texts[1])
           q1 == With(<<>>, 1, 0)
           v2 == With(v1, 2, Texts[2])
           q2 == With(q1, 2, 1)
<1>1. mem = m2 /\ val = Texts /\ strRefs = <<0, 1>>
  BY DEF StrInit, NoStrings
<1>2. Texts[1] \in Str /\ Texts[2] \in Str /\ DOMAIN Texts = {1, 2} /\ Texts = [i \in {1, 2} |-> Texts[i]]
  <2>1. Texts \in Seq(Str) /\ Len(Texts) = 2
    BY BbStringsAssumption DEF Str
  <2>2. DOMAIN Texts = 1..2 /\ \A i \in 1..2 : Texts[i] \in Str
    BY <2>1, LenProperties, ElementOfSeq
  <2>3. Texts = [i \in 1..2 |-> Texts[i]]
    BY <2>1
  <2>4. 1..2 = {1, 2}
    OBVIOUS
  <2> QED
    BY <2>2, <2>3, <2>4
<1>3. DOMAIN <<>> = {}
  OBVIOUS
<1>4. DOMAIN v1 = {1} /\ DOMAIN v2 = {1, 2} /\ v2[1] = Texts[1] /\ v2[2] = Texts[2] /\ v2 = [i \in {1, 2} |-> v2[i]]
  BY <1>3 DEF With
<1>5. v2 = Texts
  <2> HIDE DEF v2
  <2> QED
    BY <1>2, <1>4
<1>6. q2 = <<0, 1>>
  <2>1. DOMAIN q2 = {1, 2} /\ q2[1] = 0 /\ q2[2] = 1 /\ q2 = [i \in {1, 2} |-> q2[i]]
    BY <1>3 DEF With
  <2> HIDE DEF q2
  <2>2. q2 = [i \in {1, 2} |-> IF i = 1 THEN 0 ELSE 1]
    BY <2>1
  <2>3. <<0, 1>> = [i \in 1..2 |-> IF i = 1 THEN 0 ELSE 1]
    OBVIOUS
  <2>4. 1..2 = {1, 2}
    OBVIOUS
  <2> QED
    BY <2>2, <2>3, <2>4
<1>7. Sound(m1, v1, q1)
  <2>1. NewStr(NoStrings) = 1
    BY NoStringsGood, FirstIs
  <2>2. Sound(m1, With(<<>>, NewStr(NoStrings), Texts[1]), With(<<>>, NewStr(NoStrings), 0))
    BY <1>2, NoStringsGood, ReadonlyGood
  <2> QED
    BY <2>1, <2>2
<1> HIDE DEF m1, m2, q1, q2, v2
<1>8. NewStr(m1) = 2
  <2>1. DOMAIN m1.strs = {1}
    BY <1>4, <1>7 DEF Sound
  <2> QED
    BY <2>1, FirstIs
<1> HIDE DEF v1
<1>9. Sound(m2, v2, q2)
  <2>1. StoreInv(m1, v1, q1, <<>>)
    BY <1>7 DEF Sound
  <2>2. Made(m1, v1, q1, m2, Texts[2])
    BY <1>2, <2>1, NewTextGood DEF m2
  <2>3. Sound(m2, With(v1, NewStr(m1), Texts[2]), With(q1, NewStr(m1), 1))
    BY <1>7, <2>2, MadeGood
  <2> QED
    BY <1>8, <2>3 DEF v2, q2
<1> QED
  BY <1>1, <1>5, <1>6, <1>9 DEF StrInv

-----------------------------------------------------------------------------
(* The methods *)

LEMMA ChangeKeeps ==
  ASSUME Careful, StrInv, NEW s \in DOMAIN mem.strs, NEW x, NEW t, Change(s, x, t),
         Now(mem, s, x, t) \/ (x = mem /\ t = val[s])
  PROVE  StrInv'
<1>1. Sound(mem, val, strRefs) /\ DOMAIN val = DOMAIN mem.strs
  BY DEF StrInv, Sound
<1>2. mem' = x /\ val' = [val EXCEPT ![s] = t] /\ strRefs' = strRefs /\ Changeable(s)
  BY DEF Change
<1>3. mem.strs[s].kind # "slice" /\ Alone(mem, s)
  <2>1. mem.strs[s].kind = "str" /\ ReadBy(s) = {}
    BY <1>2 DEF Changeable, Writable
  <2>2. Alone(mem, s)
    BY <2>1 DEF ReadBy, Alone
  <2> QED
    BY <2>1, <2>2
<1>4. CASE Now(mem, s, x, t)
  <2>1. Sound(x, [val EXCEPT ![s] = t], strRefs)
    BY <1>1, <1>3, <1>4, ChangeGood
  <2> QED
    BY <1>2, <2>1 DEF StrInv
<1>5. CASE x = mem /\ t = val[s]
  <2> DEFINE u == [val EXCEPT ![s] = val[s]]
  <2>1. DOMAIN u = DOMAIN val /\ \A y \in DOMAIN val : u[y] = val[y]
    OBVIOUS
  <2>2. val' = u
    BY <1>2, <1>5
  <2> HIDE DEF u
  <2>3. /\ StoreInv(mem, val, strRefs, <<>>) /\ DOMAIN strRefs = DOMAIN mem.strs
        /\ \A y \in DOMAIN mem.strs : strRefs[y] \in Nat
    BY <1>1 DEF Sound, StoreInv, Rooted
  <2>4. \A y \in DOMAIN mem.strs : u[y] = val[y] /\ strRefs[y] \in Nat /\ strRefs[y] <= strRefs[y]
    BY <1>1, <2>1, <2>3
  <2>5. DOMAIN mem.strs \subseteq DOMAIN u /\ DOMAIN mem.strs \subseteq DOMAIN strRefs
    BY <1>1, <2>1, <2>3
  <2>6. StoreInv(mem, u, strRefs, <<>>)
    BY <2>3, <2>4, <2>5, Weaker
  <2>7. Sound(mem, u, strRefs)
    BY <1>1, <2>1, <2>3, <2>6 DEF Sound
  <2> QED
    BY <1>2, <1>5, <2>2, <2>7 DEF StrInv
<1> QED
  BY <1>4, <1>5

\* A method that makes a string.
LEMMA MakeKeeps ==
  ASSUME StrInv, NEW x, NEW t, Make(x, t), Made(mem, val, strRefs, x, t)
  PROVE  StrInv'
<1>1. Sound(mem, val, strRefs)
  BY DEF StrInv
<1>2. Sound(x, With(val, NewStr(mem), t), With(strRefs, NewStr(mem), 1))
  BY <1>1, MadeGood
<1>3. mem' = x /\ val' = With(val, NewStr(mem), t) /\ strRefs' = With(strRefs, NewStr(mem), 1)
  BY DEF Make
<1> QED
  BY <1>2, <1>3 DEF StrInv

\* A piece that ends before it begins is empty.
LEMMA EmptyPiece ==
  ASSUME NEW t \in Str, NEW i \in Nat, NEW j \in Int, j <= i
  PROVE  SubSeq(t, i + 1, j) = <<>>
<1> DEFINE p == SubSeq(t, i + 1, j)
<1>1. p \in Str /\ Len(p) = 0
  <2>1. \A k \in i + 1..j : t[k] \in Int
    OBVIOUS
  <2>2. p \in Seq(Int) /\ Len(p) = IF i + 1 <= j THEN j - (i + 1) + 1 ELSE 0
    BY <2>1, SubSeqProperties
  <2> QED
    BY <2>2 DEF Str
<1> HIDE DEF p
<1>2. p = <<>>
  BY <1>1, EmptySeq DEF Str
<1> QED
  BY <1>2 DEF p

\* Where slice cuts.
Bounded(b, n) ==
  /\ b.from \in Nat /\ b.to \in Int /\ b.to <= n
  /\ ~(b.from >= b.to) => b.to \in Nat /\ b.from <= b.to

\* The bounds of slice are within the text.
LEMMA BoundsAre ==
  ASSUME NEW n \in Nat, NEW i \in Int, NEW j \in Int
  PROVE  Bounded(Bounds(n, i, j), n)
<1> DEFINE from == Max({0, Wrapped(i, n)})
           to == Min({n, Wrapped(j, n)})
<1>1. Wrapped(i, n) \in Int /\ Wrapped(j, n) \in Int
  BY DEF Wrapped
<1>2. from \in Int /\ from >= 0 /\ to \in Int /\ to <= n
  BY <1>1, MaxOfTwo, MinOfTwo
<1>3. Bounds(n, i, j).from = from /\ Bounds(n, i, j).to = to
  BY DEF Bounds
<1> HIDE DEF from, to
<1> QED
  BY <1>2, <1>3 DEF Bounded

\* A part of what is read is read where it is.
LEMMA ReadsPiece ==
  ASSUME NEW data, NEW st, NEW en, NEW t, Reads(data, st, en, t),
         NEW i \in Nat, NEW j \in Nat, i <= j, j <= Len(t)
  PROVE  /\ Reads(data, st + i, st + j, SubSeq(t, i + 1, j))
         /\ st + i \in Nat /\ st + j \in Nat
<1> DEFINE p == SubSeq(t, i + 1, j)
           l == Len(t)
<1>1. /\ data \in Str /\ t \in Str /\ st \in Nat /\ en \in Nat /\ l \in Nat /\ Len(data) \in Nat
      /\ en = st + l /\ en <= Len(data) /\ \A k \in 1..l : data[st + k] = t[k]
  BY ReadsIs
<1>2. p \in Str /\ Len(p) = j - i /\ \A k \in 1..j - i : p[k] = t[i + k]
  BY <1>1, PieceIs
<1> HIDE DEF p
<1>3. l = Len(t)
  OBVIOUS
<1> HIDE DEF l
<1>4. \A k \in 1..j - i : data[(st + i) + k] = p[k]
  <2> SUFFICES ASSUME NEW k \in 1..j - i PROVE data[(st + i) + k] = p[k]
    OBVIOUS
  <2>1. i + k \in 1..l /\ (st + i) + k = st + (i + k)
    BY <1>1, <1>3
  <2>2. data[st + (i + k)] = t[i + k]
    BY <1>1, <2>1
  <2> QED
    BY <1>2, <2>1, <2>2
<1>5. st + i \in Nat /\ st + j \in Nat /\ st + j = (st + i) + (j - i) /\ st + j <= Len(data)
  <2> DEFINE d == Len(data)
  <2>1. d \in Nat /\ st + l <= d /\ j <= l /\ st \in Nat /\ l \in Nat
    BY <1>1, <1>3
  <2> HIDE DEF d
  <2>2. st + j <= d
    BY <2>1
  <2> QED
    BY <2>1, <2>2 DEF d
<1>6. Reads(data, st + i, st + j, p)
  BY <1>1, <1>2, <1>4, <1>5 DEF Reads
<1> QED
  BY <1>5, <1>6 DEF p

\* The copies of repeat.
LEMMA TimesIs ==
  ASSUME NEW t \in Str, NEW n \in Int
  PROVE  Times(t, n) = FlattenSeq([i \in 1..n |-> t]) /\ Times(t, n) \in Str
<1> DEFINE P(f) == f = [i \in 0..n |-> IF i = 0 THEN <<>> ELSE f[i - 1] \o t]
           copies == CHOOSE f : P(f)
           F(k) == FlattenSeq([i \in 1..k |-> t])
<1>1. <<>> \in Str
  BY EmptySeq DEF Str
<1>2. F(0) = <<>>
  <2>1. [i \in 1..0 |-> t] = <<>>
    OBVIOUS
  <2> QED
    BY <2>1 DEF FlattenSeq
<1>3. CASE n <= 0
  <2>1. 1..n = 1..0 \/ 1..n = {}
    BY <1>3
  <2>2. [i \in 1..n |-> t] = <<>>
    BY <1>3
  <2>3. Times(t, n) = <<>>
    BY <1>3 DEF Times
  <2>4. FlattenSeq(<<>>) = <<>>
    BY DEF FlattenSeq
  <2> QED
    BY <1>1, <2>2, <2>3, <2>4
<1>4. CASE ~(n <= 0)
  <2>1. n \in Nat /\ n # 0 /\ n \in 0..n /\ 0 \in 0..n
    BY <1>4
  <2> DEFINE g == [x \in Str |-> x \o t]
  <2>2. \A x \in Str : g[x] \in Str
    BY ConcatProperties DEF Str
  <2>3. PICK f : Rounds(n, Str, <<>>, g, f)
    <3> HIDE DEF g
    <3> QED
      BY <1>1, <2>1, <2>2, RoundsExist
  <2>4. P(f)
    <3>1. \A i \in 0..n : f[i] \in Str
      BY <2>3 DEF Rounds
    <3>2. \A i \in 0..n : i # 0 => i - 1 \in 0..n
      BY <2>1
    <3> HIDE DEF F
    <3>3. \A i \in 0..n : i # 0 => f[i - 1] \in Str
      BY <3>1, <3>2
    <3> QED
      BY <2>3, <3>3 DEF Rounds
  <2>5. P(copies)
    <3> HIDE DEF P
    <3> QED
      BY <2>4, Zenon
  <2>6. Times(t, n) = copies[n]
    BY <1>4 DEF Times
  <2> HIDE DEF copies
  <2> DEFINE S == [i \in 0..n |-> {x \in Str : x = F(i)}]
  <2>7. copies[0] = <<>> /\ \A i \in 1..n : copies[i] = copies[i - 1] \o t
    <3>1. \A i \in 1..n : i \in 0..n /\ i # 0
      BY <2>1
    <3>2. \A L : P(L) => L[0] = <<>> /\ \A i \in 1..n : L[i] = L[i - 1] \o t
      BY <2>1, <3>1
    <3> HIDE DEF P
    <3> QED
      BY <2>5, <3>2
  <2>8. \A i \in 1..n : F(i - 1) \in Str /\ F(i) = F(i - 1) \o t
    <3> SUFFICES ASSUME NEW i \in 1..n PROVE F(i - 1) \in Str /\ F(i) = F(i - 1) \o t
      OBVIOUS
    <3> DEFINE ss == [k \in 1..i - 1 |-> t]
    <3>1. ss \in Seq(Str) /\ Len(ss) = i - 1
      BY <2>1
    <3>2. Append(ss, t) = [k \in 1..i |-> t]
      BY <2>1, <3>1, AppendProperties
    <3> HIDE DEF ss
    <3>3. FlattenSeq(ss) \in Str /\ FlattenSeq(Append(ss, t)) = FlattenSeq(ss) \o t
      BY <3>1, FlattenSnoc
    <3> QED
      BY <3>2, <3>3 DEF ss
  <2> HIDE DEF F, P, g
  <2>9. \A i \in 0..n : S[i] = {x \in Str : x = F(i)}
    OBVIOUS
  <2> HIDE DEF S
  <2>10. copies[0] \in S[0]
    BY <1>1, <1>2, <2>1, <2>7, <2>9
  <2>11. \A i \in 1..n : copies[i - 1] \in S[i - 1] => copies[i] \in S[i]
    <3> SUFFICES ASSUME NEW i \in 1..n, copies[i - 1] \in S[i - 1] PROVE copies[i] \in S[i]
      OBVIOUS
    <3>1. i \in 0..n /\ i - 1 \in 0..n
      BY <2>1
    <3>2. copies[i - 1] = F(i - 1) /\ copies[i] = copies[i - 1] \o t
      BY <2>7, <2>9, <3>1
    <3>3. copies[i] = F(i)
      BY <2>8, <3>2
    <3>4. copies[i] \in Str
      BY <2>8, <3>2, ConcatIs
    <3> QED
      BY <2>9, <3>1, <3>3, <3>4
  <2>12. \A i \in 0..n : copies[i] \in S[i]
    BY <2>1, <2>10, <2>11, AlongInduction
  <2>13. copies[n] \in Str /\ copies[n] = F(n)
    BY <2>1, <2>9, <2>12
  <2> QED
    BY <2>6, <2>13 DEF F
<1> QED
  BY <1>3, <1>4

\* What append, prepend and the methods that rewrite the text keep.
LEMMA AppendKeeps ==
  ASSUME Careful, StrInv, NEW s \in DOMAIN mem.strs, NEW o \in DOMAIN mem.strs, Append_(s, o) \/ Prepend(s, o)
  PROVE  StrInv'
<1>1. Sound(mem, val, strRefs) /\ Formed(mem) /\ HeldAs(mem, s, val[s]) /\ HeldAs(mem, o, val[o])
  BY SoundIs DEF StrInv
<1>2. o # s /\ Changeable(s)
  BY DEF Append_, Prepend, Change
<1>3. mem.strs[o].buf # mem.strs[s].buf
  BY <1>2 DEF Changeable, ReadBy
<1> DEFINE t == val[s]
           u == val[o]
<1>4. ASSUME NEW moved \in BOOLEAN, Change(s, bb_str_append(mem, s, o, moved), t \o u)
      PROVE  StrInv'
  <2> DEFINE x == bb_str_append(mem, s, o, moved)
             w == t \o u
  <2>1. Now(mem, s, x, w)
    <3> HIDE DEF t, u
    <3>1. HeldAs(mem, s, t) /\ HeldAs(mem, o, u)
      BY <1>1 DEF t, u
    <3> QED
      BY <1>1, <1>3, <3>1, AppendNow
  <2>2. Change(s, x, w)
    BY <1>4
  <2> HIDE DEF x, w
  <2> QED
    BY <2>1, <2>2, ChangeKeeps
<1>5. ASSUME Change(s, bb_str_prepend(mem, s, o), u \o t)
      PROVE  StrInv'
  <2> DEFINE x == bb_str_prepend(mem, s, o)
             w == u \o t
  <2>1. Now(mem, s, x, w)
    <3> HIDE DEF t, u
    <3>1. HeldAs(mem, s, t) /\ HeldAs(mem, o, u)
      BY <1>1 DEF t, u
    <3> QED
      BY <1>1, <1>3, <3>1, PrependNow
  <2>2. Change(s, x, w)
    BY <1>5
  <2> HIDE DEF x, w
  <2> QED
    BY <2>1, <2>2, ChangeKeeps
<1>6. Moves \subseteq BOOLEAN
  BY BbStringsAssumption
<1> QED
  BY <1>4, <1>5, <1>6 DEF Append_, Prepend

\* What the methods that rewrite the text keep.
LEMMA RewriteKeeps ==
  ASSUME Careful, StrInv, NEW s \in DOMAIN mem.strs,
         Clear(s) \/ ToUpper(s) \/ ToLower(s) \/ Rev(s) \/ Trim(s)
  PROVE  StrInv'
<1> DEFINE t == val[s]
<1>1. Formed(mem) /\ HeldAs(mem, s, t)
  BY SoundIs DEF StrInv
<1> HIDE DEF t
<1>2. /\ Now(mem, s, bb_str_clear(mem, s), <<>>) /\ Now(mem, s, bb_str_rev(mem, s), Reverse(t))
      /\ Now(mem, s, bb_str_trim(mem, s), Trimmed(t))
  BY <1>1, ClearNow, RevNow, TrimNow
<1>3. Now(mem, s, bb_str_upper(mem, s), Upper(t)) /\ Now(mem, s, bb_str_lower(mem, s), Lower(t))
  BY <1>1, UpperNow
<1>4. CASE Clear(s)
  BY <1>2, <1>4, ChangeKeeps DEF Clear
<1>5. CASE ToUpper(s)
  BY <1>3, <1>5, ChangeKeeps DEF ToUpper, t
<1>6. CASE ToLower(s)
  BY <1>3, <1>6, ChangeKeeps DEF ToLower, t
<1>7. CASE Rev(s)
  BY <1>2, <1>7, ChangeKeeps DEF Rev, t
<1>8. CASE Trim(s)
  <2>1. Change(s, bb_str_trim(mem, s), Trimmed(t))
    BY <1>8, Zenon DEF Trim, Trimmed, Kept, t
  <2> QED
    BY <1>2, <2>1, ChangeKeeps
<1> QED
  BY <1>4, <1>5, <1>6, <1>7, <1>8

\* What set keeps.
LEMMA SetKeeps ==
  ASSUME Careful, StrInv, NEW s \in DOMAIN mem.strs, NEW p \in Marks, SetByte(s, p[1], p[2])
  PROVE  StrInv'
<1> DEFINE t == val[s]
           i == p[1]
           c == p[2]
           x == bb_str_set(mem, s, i, c)
           u == [t EXCEPT ![Wrapped(i, Len(t)) + 1] = c % 256]
<1>1. Formed(mem) /\ HeldAs(mem, s, t)
  BY SoundIs DEF StrInv
<1>2. i \in Int /\ c \in Int
  BY BbStringsAssumption
<1>3. Wrapped(i, Len(t)) \in 0..Len(t) - 1 /\ Change(s, x, u)
  BY DEF SetByte
<1>4. Now(mem, s, x, u)
  <2> HIDE DEF t, i, c
  <2> QED
    BY <1>1, <1>2, <1>3, SetNow
<1> HIDE DEF x, u
<1> QED
  BY <1>3, <1>4, ChangeKeeps

\* What size keeps.
LEMMA ReserveKeeps ==
  ASSUME Careful, StrInv, NEW s \in DOMAIN mem.strs, NEW n \in Counts, Reserve(s, n)
  PROVE  StrInv'
<1> DEFINE t == val[s]
<1>1. Formed(mem) /\ HeldAs(mem, s, t)
  BY SoundIs DEF StrInv
<1>2. n \in Int /\ Moves \subseteq BOOLEAN
  BY BbStringsAssumption
<1>3. PICK moved \in Moves : Change(s, bb_str_size(mem, s, n, moved), t)
  BY DEF Reserve
<1> DEFINE x == bb_str_size(mem, s, n, moved)
<1> HIDE DEF t
<1>4. x = mem \/ Now(mem, s, x, t)
  <2>1. moved \in BOOLEAN
    BY <1>2, <1>3
  <2> QED
    BY <1>1, <1>2, <2>1, SizeNow
<1>5. Change(s, x, t)
  BY <1>3
<1> HIDE DEF x
<1>6. Now(mem, s, x, t) \/ (x = mem /\ t = val[s])
  BY <1>4 DEF t
<1> QED
  BY <1>5, <1>6, ChangeKeeps

\* What hash keeps.
LEMMA HashKeeps ==
  ASSUME StrInv, NEW s \in DOMAIN mem.strs, Hash(s)
  PROVE  StrInv'
<1> DEFINE x == ci_str_hash(mem, s)
<1>1. Sound(mem, val, strRefs) /\ StoreInv(mem, val, strRefs, <<>>)
  BY DEF StrInv, Sound
<1>2. mem' = x /\ val' = val /\ strRefs' = strRefs
  BY DEF Hash
<1>3. StoreInv(x, val, strRefs, <<>>)
  BY <1>1, HashGood
<1>4. DOMAIN x.strs = DOMAIN mem.strs
  BY <1>1 DEF ci_str_hash, StoreInv, Shape, Formed
<1>5. Sound(x, val, strRefs)
  BY <1>1, <1>3, <1>4 DEF Sound
<1> QED
  BY <1>2, <1>5 DEF StrInv

\* What the methods that make a string keep.
LEMMA CopyKeeps ==
  ASSUME StrInv, NEW s \in DOMAIN mem.strs, NEW n \in Rooms, NewString(n) \/ Copy(s, n)
  PROVE  StrInv'
<1>1. StoreInv(mem, val, strRefs, <<>>) /\ n \in Nat
  BY BbStringsAssumption DEF StrInv, Sound
<1>2. CASE NewString(n)
  <2> DEFINE x == ci_str_new(mem, n)
             t == <<>>
  <2>1. x = ci_str_alloc(mem, n, "str") /\ "str" \in {"str", "readonly"}
    BY DEF ci_str_new
  <2>2. /\ StoreInv(x, With(val, NewStr(mem), t), With(strRefs, NewStr(mem), 1), <<>>)
        /\ Allocated(mem, x, NewStr(mem), n, "str")
    BY <1>1, <2>1, AllocGood
  <2>3. Made(mem, val, strRefs, x, t)
    BY <2>2 DEF Made, Allocated
  <2>4. Make(x, t)
    BY <1>2 DEF NewString
  <2> HIDE DEF x, t
  <2> QED
    BY <2>3, <2>4, MakeKeeps
<1>3. CASE Copy(s, n)
  <2> DEFINE x == ci_str_copy(mem, s, n)
             t == val[s]
  <2>1. Made(mem, val, strRefs, x, t)
    BY <1>1, CopyGood
  <2>2. Make(x, t)
    BY <1>3 DEF Copy
  <2> HIDE DEF x, t
  <2> QED
    BY <2>1, <2>2, MakeKeeps
<1> QED
  BY <1>2, <1>3

\* What slice and __slice keep.
LEMMA SliceKeeps ==
  ASSUME StrInv, NEW s \in DOMAIN mem.strs, NEW p \in Ranges, Slice(s, p[1], p[2]) \/ View(s, p[1], p[2])
  PROVE  StrInv'
<1> DEFINE t == val[s]
           n == Len(t)
           i == p[1]
           j == p[2]
           b == Bounds(n, i, j)
           u == SubSeq(t, b.from + 1, b.to)
           o == mem.strs[s]
<1>1. /\ StoreInv(mem, val, strRefs, <<>>) /\ Formed(mem) /\ HeldAs(mem, s, t) /\ t \in Str /\ n \in Nat
      /\ Text(mem, s) = t /\ ci_str_len(mem, s) = n
  BY SoundIs DEF StrInv
<1>2. i \in Int /\ j \in Int
  BY BbStringsAssumption
<1>3. Bounded(b, n)
  BY <1>1, <1>2, BoundsAre
<1>4. b.from \in Nat /\ b.to \in Int /\ b.to <= n /\ (~(b.from >= b.to) => b.to \in Nat /\ b.from <= b.to)
  BY <1>3 DEF Bounded
<1> HIDE DEF b
<1>5. b.from >= b.to => u = <<>>
  <2> HIDE DEF n, t
  <2> QED
    BY <1>1, <1>4, EmptyPiece DEF u
<1>6. u \in Str
  <2> HIDE DEF t
  <2> QED
    BY <1>1, <1>4, PieceIs DEF u, n
<1> HIDE DEF u
<1>7. CASE Slice(s, i, j)
  <2> DEFINE x == bb_str_slice(mem, s, i, j)
  <2>1. x = NewText(mem, u)
    BY <1>1, <1>5 DEF bb_str_slice, u, b
  <2>2. Make(x, u)
    BY <1>7 DEF Slice, u, b
  <2>3. Made(mem, val, strRefs, x, u)
    BY <1>1, <1>6, <2>1, NewTextGood
  <2> HIDE DEF x
  <2> QED
    BY <2>2, <2>3, MakeKeeps
<1>8. CASE View(s, i, j)
  <2> DEFINE x == bb_str__slice(mem, s, i, j)
  <2>1. x = IF b.from >= b.to THEN ci_str_slice_new(mem, Static, 0, 0, Null)
            ELSE ci_str_slice_new(mem, o.buf, o.start + b.from, o.start + b.to, s)
    BY <1>1 DEF bb_str__slice, b
  <2>2. Make(x, u)
    BY <1>8 DEF View, u, b
  <2> HIDE DEF x
  <2>3. Made(mem, val, strRefs, x, u)
    <3>1. CASE b.from >= b.to
      <4>1. Static \in DOMAIN mem.bufs /\ mem.bufs[Static] \in Str
        BY <1>1 DEF StoreInv, Shape, Formed
      <4>2. Reads(mem.bufs[Static], 0, 0, <<>>)
        <5> DEFINE d == mem.bufs[Static]
        <5>1. d \in Str /\ Len(d) \in Nat /\ <<>> \in Str /\ Len(<<>>) = 0
          BY <4>1, StrIs, EmptySeq DEF Str
        <5> HIDE DEF d
        <5>2. Reads(d, 0, 0, <<>>)
          BY <5>1 DEF Reads
        <5> QED
          BY <5>2 DEF d
      <4>3. 0 \in Nat /\ ((Null = Null /\ Static = Static) \/ (Null \in DOMAIN mem.strs /\ mem.strs[Null].buf = Static))
        OBVIOUS
      <4>4. Made(mem, val, strRefs, ci_str_slice_new(mem, Static, 0, 0, Null), <<>>)
        BY <1>1, <4>1, <4>2, <4>3, SliceGood
      <4> QED
        BY <1>5, <2>1, <3>1, <4>4
    <3>2. CASE ~(b.from >= b.to)
      <4> DEFINE d == mem.bufs[o.buf]
                 k == o.start + b.from
                 l == o.start + b.to
                 c == o.buf
      <4>1. Reads(d, o.start, o.end, t) /\ c \in DOMAIN mem.bufs
        BY <1>1 DEF HeldAs
      <4>2. b.from \in Nat /\ b.to \in Nat /\ b.from <= b.to /\ b.to <= Len(t)
        BY <1>4, <3>2
      <4>3. Reads(d, k, l, u) /\ k \in Nat /\ l \in Nat
        <5> DEFINE st == o.start
                   en == o.end
                   f == b.from
                   g == b.to
        <5> HIDE DEF d, t, st, en, f, g
        <5>1. Reads(d, st, en, t) /\ f \in Nat /\ g \in Nat /\ f <= g /\ g <= Len(t)
          BY <4>1, <4>2 DEF st, en, f, g
        <5>2. Reads(d, st + f, st + g, SubSeq(t, f + 1, g)) /\ st + f \in Nat /\ st + g \in Nat
          BY <5>1, ReadsPiece
        <5> QED
          BY <5>2 DEF st, f, g, u
      <4>4. (s = Null /\ c = Static) \/ (s \in DOMAIN mem.strs /\ mem.strs[s].buf = c)
        OBVIOUS
      <4>5. x = ci_str_slice_new(mem, c, k, l, s)
        BY <2>1, <3>2
      <4>6. Reads(mem.bufs[c], k, l, u)
        BY <4>3
      <4> HIDE DEF c, k, l, o, d, t
      <4>7. Made(mem, val, strRefs, ci_str_slice_new(mem, c, k, l, s), u)
        BY <1>1, <4>1, <4>3, <4>4, <4>6, SliceGood
      <4> QED
        BY <4>5, <4>7
    <3> QED
      BY <3>1, <3>2
  <2> QED
    BY <2>2, <2>3, MakeKeeps
<1> QED
  BY <1>7, <1>8

\* What repeat keeps.
LEMMA RepeatKeeps ==
  ASSUME StrInv, NEW s \in DOMAIN mem.strs, NEW n \in Counts, Repeat(s, n)
  PROVE  StrInv'
<1> DEFINE t == val[s]
           x == bb_str_repeat(mem, s, n)
           u == FlattenSeq([i \in 1..n |-> t])
<1>1. StoreInv(mem, val, strRefs, <<>>) /\ t \in Str /\ Text(mem, s) = t /\ n \in Int
  BY SoundIs, BbStringsAssumption DEF StrInv
<1>2. Make(x, u)
  BY DEF Repeat
<1> HIDE DEF t
<1>3. Times(t, n) = u /\ u \in Str
  BY <1>1, TimesIs
<1>4. x = NewText(mem, u)
  BY <1>1, <1>3 DEF bb_str_repeat
<1> HIDE DEF x, u
<1>5. Made(mem, val, strRefs, x, u)
  BY <1>1, <1>3, <1>4, NewTextGood
<1> QED
  BY <1>2, <1>5, MakeKeeps

\* What replace keeps.
LEMMA ReplaceKeeps ==
  ASSUME StrInv, NEW s \in DOMAIN mem.strs, NEW d \in Words \ {<<>>}, Replace(s, d, Filler)
  PROVE  StrInv'
<1> DEFINE t == val[s]
           x == bb_str_replace(mem, s, d, Filler)
           u == Joined(bb_str_split(t, d), Filler)
<1>1. StoreInv(mem, val, strRefs, <<>>) /\ t \in Str /\ Text(mem, s) = t /\ d \in Str /\ d # <<>> /\ Filler \in Str
  BY SoundIs, BbStringsAssumption DEF StrInv, Str
<1>2. Make(x, u)
  BY DEF Replace
<1> HIDE DEF t
<1>3. Len(d) > 0
  BY <1>1, EmptySeq DEF Str
<1>4. Cuts(t, d, Filler)
  BY <1>1, <1>3, SplitCuts
<1>5. Replaced(t, d, Filler) = u /\ u \in Str
  BY <1>4 DEF Cuts
<1>6. x = NewText(mem, u)
  BY <1>1, <1>5 DEF bb_str_replace
<1> HIDE DEF x, u
<1>7. Made(mem, val, strRefs, x, u)
  BY <1>1, <1>5, <1>6, NewTextGood
<1> QED
  BY <1>2, <1>7, MakeKeeps

\* What a capture of match keeps.
LEMMA CaptureKeeps ==
  ASSUME StrInv, NEW s \in DOMAIN mem.strs, NEW p \in Ranges, NEW name \in DOMAIN mem.strs \cup {0},
         Capture(s, p[1], p[2], name)
  PROVE  StrInv'
<1> DEFINE t == val[s]
           i == p[1]
           j == p[2]
           u == SubSeq(t, i + 1, j)
           o == mem.strs[s]
           n == NewStr(mem)
           d == mem.bufs[o.buf]
           k == o.start + i
           l == o.start + j
           c == o.buf
           r == ci_str_slice_new(mem, c, k, l, s)
           v == With(val, n, u)
           q == With(strRefs, n, 1)
           x == AddSlice(mem, s, i, j, name)
<1>1. /\ StoreInv(mem, val, strRefs, <<>>) /\ Formed(mem) /\ HeldAs(mem, s, t) /\ t \in Str /\ Len(t) \in Nat
  BY SoundIs DEF StrInv
<1>2. i \in Int /\ j \in Int
  BY BbStringsAssumption
<1>3. 0 <= i /\ i <= j /\ j <= Len(t) /\ Make(x, u)
  BY DEF Capture
<1>4. i \in Nat /\ j \in Nat
  <2> HIDE DEF i, j
  <2> QED
    BY <1>2, <1>3
<1>5. Reads(d, o.start, o.end, t) /\ c \in DOMAIN mem.bufs
  BY <1>1 DEF HeldAs
<1>6. Reads(d, k, l, u) /\ k \in Nat /\ l \in Nat
  <2> DEFINE st == o.start
             en == o.end
  <2> HIDE DEF d, t, st, en, i, j
  <2>1. Reads(d, st, en, t) /\ i <= j /\ j <= Len(t)
    BY <1>3, <1>5 DEF st, en
  <2>2. Reads(d, st + i, st + j, SubSeq(t, i + 1, j)) /\ st + i \in Nat /\ st + j \in Nat
    BY <1>4, <2>1, ReadsPiece
  <2> QED
    BY <2>2 DEF st
<1>7. (s = Null /\ c = Static) \/ (s \in DOMAIN mem.strs /\ mem.strs[s].buf = c)
  OBVIOUS
<1>8. Reads(mem.bufs[c], k, l, u)
  BY <1>6
<1>9. x = IF name = 0 THEN r ELSE [ci_str_inc(r, name) EXCEPT !.strs[n].ctx = name]
  BY DEF AddSlice
<1>10. Made(mem, val, strRefs, r, u) /\ r.strs[n].kind = "slice" /\ r.strs[n].ctx = Null
  <2> HIDE DEF c, k, l, o, d, u
  <2> QED
    BY <1>1, <1>5, <1>6, <1>7, <1>8, SliceGood
<1> HIDE DEF r, u, x
<1>11. StoreInv(r, v, q, <<>>) /\ n \in DOMAIN r.strs /\ DOMAIN r.strs = DOMAIN mem.strs \cup {n}
  BY <1>10 DEF Made
<1> HIDE DEF v, q
<1>12. Made(mem, val, strRefs, x, u)
  <2>1. CASE name = 0
    BY <1>9, <1>10, <2>1
  <2>2. CASE name # 0
    <3> DEFINE y == [ci_str_inc(r, name) EXCEPT !.strs[n].ctx = name]
    <3>1. x = y /\ name \in DOMAIN r.strs
      BY <1>9, <1>11, <2>2
    <3>2. StoreInv(y, v, q, <<>>) /\ DOMAIN y.strs = DOMAIN r.strs
      <4> HIDE DEF n
      <4>1. StoreInv(r, v, q, <<>>) /\ n \in DOMAIN r.strs /\ name \in DOMAIN r.strs
        BY <1>11, <3>1
      <4>2. r.strs[n].kind = "slice" /\ r.strs[n].ctx = Null
        BY <1>10
      <4> QED
        BY <4>1, <4>2, ContextGood
    <3> HIDE DEF y
    <3> QED
      BY <1>11, <3>1, <3>2 DEF Made, v, q
  <2> QED
    BY <2>1, <2>2
<1> QED
  BY <1>3, <1>12, MakeKeeps

\* What taking and dropping a reference keep.
LEMMA RefKeeps ==
  ASSUME StrInv, NEW s \in DOMAIN mem.strs, Keep(s) \/ DropStr(s)
  PROVE  StrInv'
<1>1. Sound(mem, val, strRefs)
  BY DEF StrInv
<1>2. CASE Keep(s)
  <2>1. Sound(ci_str_inc(mem, s), val, [strRefs EXCEPT ![s] = @ + 1])
    BY <1>1, KeepGood
  <2>2. mem' = ci_str_inc(mem, s) /\ val' = val /\ strRefs' = [strRefs EXCEPT ![s] = @ + 1]
    BY <1>2 DEF Keep
  <2> QED
    BY <2>1, <2>2 DEF StrInv
<1>3. CASE DropStr(s)
  <2>1. /\ strRefs[s] > 0 /\ mem' = ci_str_dec(mem, s) /\ val' = [t \in DOMAIN mem'.strs |-> val[t]]
        /\ strRefs' = [t \in DOMAIN mem'.strs |-> IF t = s THEN strRefs[s] - 1 ELSE strRefs[t]]
    BY <1>3 DEF DropStr, Forgotten
  <2>2. Sound(mem', val', strRefs')
    BY <1>1, <2>1, DropGood
  <2> QED
    BY <2>2 DEF StrInv
<1> QED
  BY <1>2, <1>3

\* Every step keeps the invariant.
LEMMA StrInvStep ==
  ASSUME Careful, StrInv, [StrNext]_strVars
  PROVE  StrInv'
<1>1. CASE UNCHANGED strVars
  BY <1>1 DEF strVars, StrInv
<1>2. CASE StrNext
  <2>1. Strings \subseteq DOMAIN mem.strs
    BY DEF Strings
  <2>2. PICK s \in Strings :
          \/ \E o \in Strings : Append_(s, o) \/ Prepend(s, o)
          \/ Clear(s) \/ ToUpper(s) \/ ToLower(s) \/ Rev(s) \/ Trim(s) \/ Hash(s)
          \/ \E p \in Marks : SetByte(s, p[1], p[2])
          \/ \E n \in Counts : Reserve(s, n) \/ Repeat(s, n)
          \/ \E n \in Rooms : NewString(n) \/ Copy(s, n)
          \/ \E b \in Ranges : Slice(s, b[1], b[2]) \/ View(s, b[1], b[2])
          \/ \E b \in Ranges, name \in Strings \cup {0} : Capture(s, b[1], b[2], name)
          \/ \E n \in Words \ {<<>>} : Replace(s, n, Filler)
          \/ Keep(s) \/ DropStr(s)
    BY <1>2 DEF StrNext
  <2>3. s \in DOMAIN mem.strs
    BY <2>1
  <2>4. CASE \E o \in Strings : Append_(s, o) \/ Prepend(s, o)
    BY <2>1, <2>3, <2>4, AppendKeeps
  <2>5. CASE Clear(s) \/ ToUpper(s) \/ ToLower(s) \/ Rev(s) \/ Trim(s)
    BY <2>3, <2>5, RewriteKeeps
  <2>6. CASE Hash(s)
    BY <2>3, <2>6, HashKeeps
  <2>7. CASE \E p \in Marks : SetByte(s, p[1], p[2])
    BY <2>3, <2>7, SetKeeps
  <2>8. CASE \E n \in Counts : Reserve(s, n) \/ Repeat(s, n)
    BY <2>3, <2>8, ReserveKeeps, RepeatKeeps
  <2>9. CASE \E n \in Rooms : NewString(n) \/ Copy(s, n)
    BY <2>3, <2>9, CopyKeeps
  <2>10. CASE \E b \in Ranges : Slice(s, b[1], b[2]) \/ View(s, b[1], b[2])
    BY <2>3, <2>10, SliceKeeps
  <2>11. CASE \E b \in Ranges, name \in Strings \cup {0} : Capture(s, b[1], b[2], name)
    <3>1. PICK b \in Ranges, name \in Strings \cup {0} : Capture(s, b[1], b[2], name)
      BY <2>11
    <3>2. name \in DOMAIN mem.strs \cup {0}
      BY <2>1
    <3> QED
      BY <2>3, <3>1, <3>2, CaptureKeeps
  <2>12. CASE \E n \in Words \ {<<>>} : Replace(s, n, Filler)
    BY <2>3, <2>12, ReplaceKeeps
  <2>13. CASE Keep(s) \/ DropStr(s)
    BY <2>3, <2>13, RefKeeps
  <2> QED
    BY <2>2, <2>4, <2>5, <2>6, <2>7, <2>8, <2>9, <2>10, <2>11, <2>12, <2>13
<1> QED
  BY <1>1, <1>2

\* The invariant says what every string reads as.
LEMMA StrInvReads ==
  StrInv => StringsRead
<1> SUFFICES ASSUME StrInv, NEW s \in DOMAIN mem.strs
             PROVE  /\ Readable(mem, s) /\ Text(mem, s) = val[s]
                    /\ mem.strs[s].hash \in {<<>>, HashOf(val[s])}
  BY DEF StringsRead
<1>1. Formed(mem) /\ HeldAs(mem, s, val[s]) /\ Text(mem, s) = val[s]
  BY SoundIs DEF StrInv
<1> DEFINE data == mem.bufs[mem.strs[s].buf]
           en == mem.strs[s].end
<1>2. mem.strs[s].buf \in DOMAIN mem.bufs /\ Reads(data, mem.strs[s].start, en, val[s])
      /\ mem.strs[s].hash \in {<<>>, HashOf(val[s])}
  BY <1>1 DEF HeldAs
<1>3. en <= Len(data)
  BY <1>2 DEF Reads
<1>4. Readable(mem, s)
  BY <1>2, <1>3 DEF Readable, ci_str_size
<1> QED
  BY <1>1, <1>2, <1>4

\* Split and replace agree on every text there is.
LEMMA StrInvSplits ==
  StrInv => SplitJoins
<1> SUFFICES ASSUME StrInv, NEW s \in DOMAIN val, NEW d \in Words \ {<<>>}
             PROVE  /\ Joined(bb_str_split(val[s], d), d) = val[s]
                    /\ \A i \in DOMAIN bb_str_split(val[s], d) : bb_str_find(bb_str_split(val[s], d)[i], d, 0) = -1
                    /\ \A r \in Words : Replaced(val[s], d, r) = Joined(bb_str_split(val[s], d), r)
  BY DEF SplitJoins
<1> DEFINE t == val[s]
<1>1. t \in Str /\ d \in Str /\ Words \subseteq Str /\ d # <<>>
  <2>1. s \in DOMAIN mem.strs
    BY DEF StrInv, Sound
  <2> QED
    BY <2>1, SoundIs, BbStringsAssumption DEF StrInv, Str
<1>2. Len(d) > 0
  BY <1>1, EmptySeq DEF Str
<1> HIDE DEF t
<1>3. \A r \in Str : Cuts(t, d, r)
  BY <1>1, <1>2, SplitCuts
<1>4. Cuts(t, d, d) /\ \A r \in Words : Cuts(t, d, r)
  BY <1>1, <1>3
<1> QED
  BY <1>4 DEF Cuts, t

(* While no string is changed whose buffer a slice reads: every string     *)
(* object reads as the text it stands for, in a buffer that is there, and  *)
(* a cached hash is of that text.  The code behaviour: the string methods  *)
(* of proto/string.c, with the buffers that ci_string.c grows, moves,      *)
(* shares and frees, and the counts that ci_inc and ci_dec keep.           *)
THEOREM StringsStayRead ==
  ASSUME Careful
  PROVE  StrSpec => []StringsRead
<1>1. StrInv /\ [StrNext]_strVars => StrInv'
  BY StrInvStep
<1> QED
  BY <1>1, StrInvInit, StrInvReads, PTL DEF StrSpec

(* Split cuts at every occurrence and loses nothing, and the two passes of *)
(* replace agree and put the replacement where split cuts: bb_str_split    *)
(* and bb_str_replace of proto/string.c.                                   *)
THEOREM SplitAndReplaceAgree ==
  ASSUME Careful
  PROVE  StrSpec => []SplitJoins
<1>1. StrInv /\ [StrNext]_strVars => StrInv'
  BY StrInvStep
<1> QED
  BY <1>1, StrInvInit, StrInvSplits, PTL DEF StrSpec

=============================================================================
