------------------------------ MODULE CiArray ------------------------------
(***************************************************************************)
(* The array API of ci_array.c as a state machine: one client works on one *)
(* array arr, and on the array out that its last slice returned.           *)
(*                                                                         *)
(* cnt[e] counts the references to e that the arrays own: a push, unshift  *)
(* or set hands the client's reference to the array, a pop or shift hands  *)
(* it back, and the rest is the code's own ci_inc and ci_dec.              *)
(***************************************************************************)
EXTENDS CiArrayOps

CONSTANTS
    NoArr,      \* there is no array
    MaxLen,     \* bound: the longest array the client builds
    AppendMax   \* bound: the longest array the client passes to ci_arr_append

ASSUME BoundAssumption == MaxLen \in Nat /\ AppendMax \in Nat

VARIABLES arr, out, ret, cnt

vars == <<arr, out, ret, cnt>>

Ok == <<"ok">>
Failed == <<"failed">>
PtrRet(v) == <<"ptr", v>>
IntRet(n) == <<"int", n>>

Index == -(MaxLen + 1) .. MaxLen + 1

Occurs(a, e) == IF a = NoArr THEN 0
                ELSE Cardinality({i \in 0 .. a.length - 1 : At(a, i) = e})

\* How often ci_arr_clear and the destructors call ci_dec(e).
Decs(a, e) == Cardinality({p \in DecSlots(a) : a.data[p] = e})

\* The client hands over, or gets back, one reference to v.
Give(v) == cnt' = [e \in Elem |-> IF e = v THEN cnt[e] + 1 ELSE cnt[e]]
Take(v) == cnt' = [e \in Elem |-> IF e = v THEN cnt[e] - 1 ELSE cnt[e]]
\* The code increments every element it copies from array b.
IncAll(b) == cnt' = [e \in Elem |-> cnt[e] + Occurs(b, e)]
DecAll(b) == cnt' = [e \in Elem |-> cnt[e] - Decs(b, e)]

Init == arr = NoArr /\ out = NoArr /\ ret = Ok /\ cnt = [e \in Elem |-> 0]

-----------------------------------------------------------------------------
\* A failing ci_arr_new returns NULL; so does an inline array of more
\* elements than the largest slot holds.
New(n) ==
    /\ arr = NoArr
    /\ \/ arr' = NewArray(n) /\ ret' = Ok
       \/ arr' = NoArr /\ ret' = Failed
    /\ UNCHANGED <<out, cnt>>

CreateInline(n) ==
    /\ arr = NoArr
    /\ \/ n <= SmallCap /\ arr' = NewInline /\ ret' = Ok
       \/ arr' = NoArr /\ ret' = Failed
    /\ UNCHANGED <<out, cnt>>

\* ci_arr_push and ci_arr_unshift make room only when the buffer is full.
Room(a) == IF a.length = a.size THEN EnsureSpace(a, 1) ELSE {<<TRUE, a>>}

Push(v) ==
    /\ arr # NoArr /\ arr.length < MaxLen
    /\ \E r \in Room(arr) :
          IF r[1] THEN arr' = PushTail(r[2], v) /\ ret' = Ok /\ Give(v)
                  ELSE arr' = r[2] /\ ret' = Failed /\ UNCHANGED cnt
    /\ UNCHANGED out

Unshift(v) ==
    /\ arr # NoArr /\ arr.length < MaxLen
    /\ \E r \in Room(arr) :
          IF r[1] THEN arr' = PushHead(r[2], v) /\ ret' = Ok /\ Give(v)
                  ELSE arr' = r[2] /\ ret' = Failed /\ UNCHANGED cnt
    /\ UNCHANGED out

PopEmpty ==
    /\ arr # NoArr /\ arr.length = 0
    /\ ret' = PtrRet(NULL)
    /\ UNCHANGED <<arr, out, cnt>>

\* The popped slot is read after length is decremented.
Pop ==
    /\ arr # NoArr /\ arr.length > 0
    /\ LET a == PopTail(arr)
           v == At(a, a.length)
       IN  arr' = a /\ ret' = PtrRet(v) /\ Take(v)
    /\ UNCHANGED out

Shift ==
    /\ arr # NoArr /\ arr.length > 0
    /\ LET v == arr.data[arr.offset]
       IN  arr' = PopHead(arr) /\ ret' = PtrRet(v) /\ Take(v)
    /\ UNCHANGED out

Extend(n) ==
    /\ arr # NoArr /\ n <= MaxLen
    /\ IF n <= arr.length THEN arr' = arr /\ ret' = Ok
       ELSE \E r \in EnsureSpace(arr, n - arr.length) :
               IF r[1] THEN arr' = ExtendTo(r[2], n) /\ ret' = Ok
                       ELSE arr' = r[2] /\ ret' = Failed
    /\ UNCHANGED <<out, cnt>>

\* ci_arr_append(arr, src), where src is out or arr itself.
AppendFrom(src) ==
    /\ arr # NoArr /\ src # NoArr
    /\ src.length <= AppendMax /\ arr.length + src.length <= MaxLen
    /\ IF src.length = 0 THEN arr' = arr /\ ret' = Ok /\ UNCHANGED cnt
       ELSE \E r \in EnsureSpace(arr, src.length) :
               IF r[1] THEN arr' = AppendLoop(r[2], Elements(src)) /\ ret' = Ok /\ IncAll(src)
                       ELSE arr' = r[2] /\ ret' = Failed /\ UNCHANGED cnt
    /\ UNCHANGED out

ClearAll ==
    /\ arr # NoArr
    /\ arr' = Clear(arr) /\ ret' = Ok /\ DecAll(arr)
    /\ UNCHANGED out

Reverse ==
    /\ arr # NoArr
    /\ arr' = IF arr.length <= 1 THEN arr ELSE Reversed(arr)
    /\ ret' = Ok
    /\ UNCHANGED <<out, cnt>>

\* ci_arr_set; the callers release the old element and retain the new one.
Set(i, v) ==
    /\ arr # NoArr /\ i \in 0 .. arr.length - 1
    /\ arr' = SetAt(arr, i, v) /\ ret' = Ok
    /\ cnt' = [e \in Elem |-> cnt[e] + (IF e = v THEN 1 ELSE 0)
                                     - (IF e = At(arr, i) THEN 1 ELSE 0)]
    /\ UNCHANGED out

\* ci_arr_wrapindex then ci_arr_index, whose assertion is the guard.
IndexAt(i) ==
    /\ arr # NoArr /\ WrapIndex(arr, i) < arr.length
    /\ ret' = PtrRet(At(arr, WrapIndex(arr, i)))
    /\ UNCHANGED <<arr, out, cnt>>

FindFrom(v, start) ==
    /\ arr # NoArr
    /\ ret' = IntRet(Find(arr, v, start))
    /\ UNCHANGED <<arr, out, cnt>>

CompareOut ==
    /\ arr # NoArr /\ out # NoArr
    /\ ret' = IntRet(IF ArrEq(arr, out) THEN 1 ELSE 0)
    /\ UNCHANGED <<arr, out, cnt>>

\* ci_arr_slice; ci_arr_copy is the slice from 0 to INT32_MAX.
TakeSlice(from, to) ==
    /\ arr # NoArr /\ out = NoArr
    /\ LET s == Slice(arr, from, to)
       IN  \/ out' = s /\ ret' = Ok /\ IncAll(s)
           \/ out' = NoArr /\ ret' = Failed /\ UNCHANGED cnt
    /\ UNCHANGED arr

\* ci_arr_ensure_space called by a client that is about to write n elements.
Reserve(n) ==
    /\ arr # NoArr /\ arr.length + n <= MaxLen
    /\ \E r \in EnsureSpace(arr, n) :
          arr' = r[2] /\ ret' = IF r[1] THEN Ok ELSE Failed
    /\ UNCHANGED <<out, cnt>>

\* ci_arr_head does not tell its client that the array could not be laid out in
\* one piece.  The pointer that it returns is not modelled.
Head1 ==
    /\ arr # NoArr
    /\ \E r \in EnsureContinuous(arr) : arr' = r[2]
    /\ ret' = Ok
    /\ UNCHANGED <<out, cnt>>

\* The destructors: drop every element, then the buffer.
Free ==
    /\ arr # NoArr
    /\ DecAll(arr)
    /\ arr' = NoArr /\ ret' = Ok
    /\ UNCHANGED out

FreeOut ==
    /\ out # NoArr
    /\ DecAll(out)
    /\ out' = NoArr /\ ret' = Ok
    /\ UNCHANGED arr

Next ==
    \/ \E n \in 0 .. MaxLen : New(n) \/ CreateInline(n) \/ Extend(n) \/ Reserve(n)
    \/ \E v \in Ptr : Push(v) \/ Unshift(v)
    \/ PopEmpty \/ Pop \/ Shift
    \/ AppendFrom(arr) \/ AppendFrom(out)
    \/ ClearAll \/ Reverse \/ CompareOut \/ Head1 \/ Free \/ FreeOut
    \/ \E i \in 0 .. MaxLen, v \in Ptr : Set(i, v) \/ FindFrom(v, i)
    \/ \E i \in Index : IndexAt(i)
    \/ \E i, j \in Index : TakeSlice(i, j)

Spec == Init /\ [][Next]_vars

-----------------------------------------------------------------------------
\* Properties

Live(a) == a # NoArr

\* The struct is well formed: offset is a buffer index, length fits in size,
\* data is a buffer of size words.
TypeOK ==
    /\ Live(arr) => IsArray(arr)
    /\ Live(out) => IsArray(out)
    /\ cnt \in [Elem -> Int]

\* The arrays own exactly one reference per occurrence of an object: no
\* ci_dec of clear or of a destructor is missed or doubled at the seam of a
\* wrapped buffer, and slice and append retain what they copy.
RefBalance == \A e \in Elem : cnt[e] = Occurs(arr, e) + Occurs(out, e)

\* "append all elements of src to dst", also when src is dst: a successful
\* ci_arr_append makes the array the concatenation of the two.
AppendConcatenates ==
    [][\A src \in {arr, out} :
          AppendFrom(src) /\ ret' = Ok =>
             Elements(arr') = Elements(arr) \o Elements(src)]_vars

Contents(a) == IF a = NoArr THEN NoArr ELSE Elements(a)

Abs == INSTANCE CiArraySpec WITH seq <- Contents(arr), out <- Contents(out)

\* Every call behaves as the same call on a sequence, returned value
\* included; a call that fails for lack of memory changes nothing visible.
RefinesSequence == Abs!ASpec
=============================================================================
