----------------------------- MODULE ArrayProto -----------------------------
(***************************************************************************)
(* The script methods of arrays (blueberry_vm/proto/array.c) on top of the *)
(* circular buffer.  arr is the receiver; the arrays passed to merge and   *)
(* splice_arr are inputs, which these methods only read.                   *)
(*                                                                         *)
(* cnt[e] counts the references to e that the methods took with ci_inc     *)
(* and did not give back with ci_dec; pop and shift hand theirs to the     *)
(* caller.                                                                 *)
(*                                                                         *)
(* Every malloc may fail.  The methods ignore the result of the functions  *)
(* that allocate and go on: push and unshift have retained an element that *)
(* is then not stored (lost counts those references), set runs into an     *)
(* assertion, merge and splice copy into the buffer as it is.              *)
(*                                                                         *)
(* status is "ok" until a method writes past the buffer, or over elements  *)
(* that are in it ("overrun"), fails an assertion ("aborted") or never     *)
(* returns ("stuck").                                                      *)
(***************************************************************************)
EXTENDS CiArrayOps, SequencesExt

CONSTANTS
    MaxLen,        \* bound: the longest array the script builds
    Self,          \* the receiver, in an argument list
    Operands,      \* the arrays passed to merge and splice_arr
    MaxArgs,       \* bound: the number of arguments of a merge
    MaxLost,       \* bound: the references to an object that failed calls lose
    ShiftedCalls,  \* does the script, on an array whose first element is not in
                   \* slot 0 (after shift or unshift), call a merge that need
                   \* not grow it, or a splice for which the room is in front?
    SelfMerge      \* does the script pass an array to its own merge?

ASSUME FlagAssumption == ShiftedCalls \in BOOLEAN /\ SelfMerge \in BOOLEAN
ASSUME OperandAssumption == Self \notin Operands /\ \A o \in Operands : IsArray(o)
ASSUME BoundAssumption == {MaxLen, MaxArgs, MaxLost} \subseteq Nat

VARIABLES
    arr,     \* the receiver
    cnt,     \* the references the methods hold
    lost,    \* those among them that no slot holds
    oom,     \* did a malloc of the last call fail?
    status

vars == <<arr, cnt, lost, oom, status>>

Index == -(MaxLen + 1) .. MaxLen

\* ci_arr_ensure_space, then ci_arr_ensure_continuous, whatever the first
\* returned: the possible results, <<both succeeded, array>>.
Prepared(a, n) ==
    UNION {{<<r[1] /\ s[1], s[2]>> : s \in EnsureContinuous(r[2])} : r \in EnsureSpace(a, n)}

Occurs(a, e) == Cardinality({i \in 0 .. a.length - 1 : At(a, i) = e})

\* How often e is in a list of values, or in the buffer slots of a set.
InSeq(s, e) == Cardinality({i \in DOMAIN s : s[i] = e})
InSlots(a, ps, e) == Cardinality({p \in ps : a.data[p] = e})

\* ci_inc(v), ci_dec(w) as one update; NULL is never counted.
Counted(incs, decs) == cnt' = [e \in Elem |-> cnt[e] + InSeq(incs, e) - InSeq(decs, e)]

Init ==
    /\ \E n \in 1 .. MaxLen : arr = NewArray(n)   \* array.new(n)
    /\ cnt = [e \in Elem |-> 0]
    /\ lost = [e \in Elem |-> 0]
    /\ oom = FALSE
    /\ status = "ok"

Running == status = "ok" /\ UNCHANGED status

\* A call that allocates nothing.
Plain == Running /\ oom' = FALSE /\ UNCHANGED lost

-----------------------------------------------------------------------------
\* bb_arr_push, bb_arr_unshift: ci_inc comes before the call that may fail.
Adding(v, Put(_, _)) ==
    /\ Running /\ arr.length < MaxLen
    /\ \E r \in EnsureSpace(arr, 1) :
          /\ arr' = IF r[1] THEN Put(r[2], v) ELSE r[2]
          /\ lost' = [e \in Elem |-> lost[e] + (IF ~r[1] /\ e = v THEN 1 ELSE 0)]
          /\ oom' = ~r[1]
    /\ \A e \in Elem : lost'[e] <= MaxLost
    /\ Counted(<<v>>, <<>>)

Push(v) == Adding(v, PushTail)
Unshift(v) == Adding(v, PushHead)

Pop ==
    /\ Plain /\ arr.length > 0
    /\ arr' = PopTail(arr)
    /\ Counted(<<>>, <<At(arr, arr.length - 1)>>)

Shift ==
    /\ Plain /\ arr.length > 0
    /\ arr' = PopHead(arr)
    /\ Counted(<<>>, <<At(arr, 0)>>)

\* bb_arr_set and the ARRAYSTORE opcode.  An index that is still negative
\* after wrapping comes back as length, so it extends the array by one.  When
\* that fails, ci_arr_index asserts that the index is below length.
SetMethod(idx, v) ==
    LET i == WrapIndex(arr, idx)
    IN  /\ status = "ok" /\ i < MaxLen
        /\ \E r \in EnsureSpace(arr, i + 1 - arr.length) :
              LET a == IF i >= arr.length THEN ExtendTo(r[2], i + 1) ELSE arr
              IN  /\ oom' = ~r[1]
                  /\ IF r[1]
                       THEN /\ arr' = SetAt(a, i, v)
                            /\ Counted(<<v>>, <<At(a, i)>>)
                            /\ UNCHANGED <<lost, status>>
                       ELSE /\ status' = "aborted"
                            /\ arr' = r[2]
                            /\ UNCHANGED <<cnt, lost>>

\* bb_arr_size on a larger n
Reserve(n) ==
    /\ \E r \in EnsureSpace(arr, n - arr.length) : arr' = r[2] /\ oom' = ~r[1]
    /\ UNCHANGED <<cnt, lost>>

\* Mutant: the elements that are cut off are not released.
SizeMethodNoRelease(n) ==
    /\ Running
    /\ \/ n > arr.length /\ Reserve(n)
       \/ /\ n <= arr.length
          /\ arr' = [arr EXCEPT !.length = n]
          /\ oom' = FALSE
          /\ UNCHANGED <<cnt, lost>>

\* bb_arr_size: reserve, or pop and release down to n elements.
SizeMethod(n) ==
    \/ Running /\ n > arr.length /\ Reserve(n)
    \/ /\ Plain /\ n <= arr.length
       /\ arr' = [arr EXCEPT !.length = n]
       /\ Counted(<<>>, SubSeq(Elements(arr), n + 1, arr.length))

ClearMethod ==
    /\ Plain
    /\ arr' = Clear(arr)
    /\ cnt' = [e \in Elem |-> cnt[e] - InSlots(arr, DecSlots(arr), e)]

ReverseMethod ==
    /\ Plain
    /\ arr' = IF arr.length <= 1 THEN arr ELSE Reversed(arr)
    /\ UNCHANGED cnt

-----------------------------------------------------------------------------
\* bb_arr_merge

SrcOf(d, arg) == IF arg = Self THEN d ELSE arg

\* Mutant: the offset of the source is ignored.
MergeFastNoOffset(m, arg) ==
    LET s == SrcOf(m.d, arg)
        n == s.length
    IN  IF m.status # "ok" \/ n = 0 THEN m
        ELSE IF m.d.length + n > m.d.size THEN [m EXCEPT !.status = "overrun"]
        ELSE [m EXCEPT
                !.d.data   = [p \in 0 .. m.d.size - 1 |->
                                IF p \in m.d.length .. m.d.length + n - 1
                                  THEN s.data[p - m.d.length] ELSE m.d.data[p]],
                !.d.length = @ + n]

\* One argument of the fast path: memcpy behind the last element.  A write
\* past the buffer is recorded, not performed.
MergeFast(m, arg) ==
    LET s == SrcOf(m.d, arg)
        n == s.length
    IN  IF m.status # "ok" \/ n = 0 THEN m
        ELSE IF m.d.length + n > m.d.size THEN [m EXCEPT !.status = "overrun"]
        ELSE [m EXCEPT
                !.d.data   = [p \in 0 .. m.d.size - 1 |->
                                IF p \in m.d.length .. m.d.length + n - 1
                                  THEN s.data[s.offset + p - m.d.length]
                                  ELSE m.d.data[p]],
                !.d.length = @ + n]

\* Each element of s to the slot of the next index, on an array with room.
PushAll(a, s) ==
    [a EXCEPT !.data   = [p \in 0 .. a.size - 1 |->
                            LET i == (p + a.size - a.offset) % a.size
                            IN  IF i \in a.length .. a.length + Len(s) - 1
                                  THEN s[i - a.length + 1] ELSE a.data[p]],
              !.length = @ + Len(s)]

\* One argument of the slow path, element by element.  The loop bound is
\* src->length, which grows with the loop when src is the receiver.  Beyond
\* size the indices come round to the receiver's first elements.
MergeSlow(m, arg) ==
    LET n == SrcOf(m.d, arg).length
    IN  IF m.status # "ok" \/ n = 0 THEN m
        ELSE IF arg = Self THEN [m EXCEPT !.status = "stuck"]
        ELSE IF m.d.length + n > m.d.size THEN [m EXCEPT !.status = "overrun"]
        ELSE [m EXCEPT !.d = PushAll(m.d, Elements(arg))]

\* Mutant: room is made for the last argument only.
MergeTotalLast(a, args) == SrcOf(a, args[Len(args)]).length

MergeTotal(a, args) ==
    LET total[i \in 0 .. Len(args)] ==
            IF i = 0 THEN 0 ELSE total[i - 1] + SrcOf(a, args[i]).length
    IN  total[Len(args)]

\* The receiver a after pass 1 made room, or failed to.
MergePrepared(a, args) ==
    IF MergeTotal(a, args) = 0 THEN {<<TRUE, a>>} ELSE Prepared(a, MergeTotal(a, args))

\* What the method does to array a once it is prepared as d0: the merged array
\* d, the status, and start, the length at which the copying began.
MergeResult(a, d0, args) ==
    LET \* all_contiguous is computed before the receiver is linearised
        fast  == d0.offset = 0 /\ \A i \in DOMAIN args : ~IsWrapped(SrcOf(a, args[i]))
        after[i \in 0 .. Len(args)] ==
            IF i = 0 THEN [d |-> d0, status |-> "ok", start |-> d0.length]
            ELSE IF fast THEN MergeFast(after[i - 1], args[i])
            ELSE MergeSlow(after[i - 1], args[i])
    IN  after[Len(args)]

\* The call is one that this client makes.
MergeCalled(args) ==
    /\ MergeTotal(arr, args) + arr.length <= MaxLen
    /\ arr.offset # 0 /\ MergeTotal(arr, args) + arr.length <= arr.size => ShiftedCalls

\* The final ci_inc_multi takes data + start, not data + offset + start.
Merge(args) ==
    /\ status = "ok"
    /\ MergeCalled(args)
    /\ \E p \in MergePrepared(arr, args) :
          LET m == MergeResult(arr, p[2], args)
          IN  /\ oom' = ~p[1]
              /\ status' = m.status
              /\ IF m.status = "ok"
                   THEN /\ arr' = m.d
                        /\ cnt' = [e \in Elem |->
                                     cnt[e] + InSlots(m.d, m.start .. m.d.length - 1, e)]
                   ELSE UNCHANGED <<arr, cnt>>
    /\ UNCHANGED lost

-----------------------------------------------------------------------------
\* bb_arr__splice, for splice and splice_arr

Clamp(i, lo, hi) == IF i < lo THEN lo ELSE IF i > hi THEN hi ELSE i

SpliceStart(a, rawStart) == Clamp(rawStart, 0, a.length)
\* Mutant: the number of elements to delete is taken for the end of the range.
SpliceTailNoStart(a, rawStart, delCount) ==
    Clamp(IF delCount < 0 THEN 0 ELSE delCount, SpliceStart(a, rawStart), a.length)
SpliceTail(a, rawStart, delCount) ==
    Clamp(SpliceStart(a, rawStart) + (IF delCount < 0 THEN 0 ELSE delCount), 0, a.length)
SpliceLen(a, rawStart, delCount, ins) ==
    a.length + Len(ins) - (SpliceTail(a, rawStart, delCount) - SpliceStart(a, rawStart))

\* The end of the indices that are read or written at base = data + offset.
SpliceReach(a, start, newLen, ins) ==
    IF newLen > a.length THEN newLen
    ELSE IF newLen < a.length THEN a.length
    ELSE IF ins = <<>> THEN 0 ELSE start + Len(ins)

SplicePrepared(a, rawStart, delCount, ins) ==
    Prepared(a, SpliceLen(a, rawStart, delCount, ins) - a.length)

\* The array a, room made or not, after the tail moved, the inserts were copied
\* and the stale slots were cleared, all at base.
SpliceResult(a, rawStart, delCount, ins) ==
    LET start   == SpliceStart(a, rawStart)
        tailIdx == SpliceTail(a, rawStart, delCount)
        newLen  == SpliceLen(a, rawStart, delCount, ins)
        diff    == newLen - a.length
        Moved(i) ==
            IF i \in start .. start + Len(ins) - 1    THEN ins[i - start + 1]
            ELSE IF i \in tailIdx + diff .. newLen - 1 THEN a.data[a.offset + i - diff]
            ELSE IF i \in newLen .. a.length - 1       THEN NULL
            ELSE a.data[a.offset + i]
    IN  IF a.offset + SpliceReach(a, start, newLen, ins) > a.size
          THEN [d |-> a, status |-> "overrun"]
        ELSE [status |-> "ok",
              d |-> [a EXCEPT
                        !.data = [p \in 0 .. a.size - 1 |->
                                    IF p >= a.offset THEN Moved(p - a.offset) ELSE a.data[p]],
                        !.length = newLen]]

\* There is room for n elements, but not behind the first one.
Cramped(n) == ~IsWrapped(arr) /\ n <= arr.size /\ arr.offset + n > arr.size

SpliceCalled(rawStart, delCount, ins) ==
    LET newLen == SpliceLen(arr, rawStart, delCount, ins)
    IN  newLen <= MaxLen /\ (Cramped(newLen) => ShiftedCalls)

Splice(rawStart, delCount, ins) ==
    LET removed == SubSeq(Elements(arr), SpliceStart(arr, rawStart) + 1,
                                         SpliceTail(arr, rawStart, delCount))
    IN  /\ status = "ok"
        /\ SpliceCalled(rawStart, delCount, ins)
        /\ \E p \in SplicePrepared(arr, rawStart, delCount, ins) :
              LET m == SpliceResult(p[2], rawStart, delCount, ins)
              IN  /\ oom' = ~p[1]
                  /\ status' = m.status
                  /\ IF m.status = "ok" THEN arr' = m.d /\ Counted(ins, removed)
                                        ELSE UNCHANGED <<arr, cnt>>
        /\ UNCHANGED lost

MergeArgs ==
    LET A == Operands \cup (IF SelfMerge THEN {Self} ELSE {})
    IN  UNION {[1 .. n -> A] : n \in 1 .. MaxArgs}

Inserts == {Elements(o) : o \in Operands}

Next ==
    \/ \E v \in Ptr : Push(v) \/ Unshift(v)
    \/ Pop \/ Shift \/ ClearMethod \/ ReverseMethod
    \/ \E i \in Index, v \in Ptr : SetMethod(i, v)
    \/ \E n \in 0 .. MaxLen : SizeMethod(n)
    \/ \E args \in MergeArgs : Merge(args)
    \/ \E i \in Index, k \in -1 .. MaxLen, ins \in Inserts : Splice(i, k, ins)

Spec == Init /\ [][Next]_vars

-----------------------------------------------------------------------------
\* Properties

\* After every method the references held are one per occurrence of an object
\* in the receiver, and those that a push or unshift without memory took for an
\* element it did not store: what merge and splice copy is retained, what
\* splice, size, set and clear drop is released, also after a failed malloc.
RefBalance == \A e \in Elem : cnt[e] = Occurs(arr, e) + lost[e]

\* With memory no method writes past the end of the buffer or fails an
\* assertion, and offset, length and size stay in order for the next one, also
\* when a malloc failed and the method went on.
NoOverrun == IsArray(arr) /\ (status \in {"overrun", "aborted"} => oom)

\* Every method returns.
MethodsReturn == status # "stuck"

RefSeq(args) == FlattenSeq([i \in DOMAIN args |->
                               IF args[i] = Self THEN Elements(arr) ELSE Elements(args[i])])

\* .merge(a, b, ...) appends all elements of its arguments, in order, from
\* every state the methods can reach, whichever malloc fails: when it stays in
\* the buffer it is the concatenation.
MergeConcatenates ==
    \A args \in MergeArgs : \A p \in MergePrepared(arr, args) :
        LET m == MergeResult(arr, p[2], args)
        IN  MergeCalled(args) /\ m.status = "ok" =>
              Elements(m.d) = Elements(arr) \o RefSeq(args)

\* .splice(start, count, ...) replaces count elements at start by the inserts,
\* and keeps every other element in its order, whichever malloc fails, when it
\* stays in the buffer.
SpliceReplaces ==
    \A i \in Index, k \in -1 .. MaxLen, ins \in Inserts :
    \A p \in SplicePrepared(arr, i, k, ins) :
        LET m    == SpliceResult(p[2], i, k, ins)
            s    == Elements(arr)
            from == Clamp(i, 0, Len(s))
            upto == Clamp(from + (IF k < 0 THEN 0 ELSE k), from, Len(s))
        IN  SpliceCalled(i, k, ins) /\ m.status = "ok" =>
              Elements(m.d) = SubSeq(s, 1, from) \o ins \o SubSeq(s, upto + 1, Len(s))
=============================================================================
