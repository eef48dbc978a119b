----------------------------- MODULE CiArrayOps -----------------------------
(***************************************************************************)
(* The circular-buffer array of ci_array.c, as operators on array values.  *)
(*                                                                         *)
(* An array is a record with the fields of the C struct:                   *)
(*   size    capacity of the buffer, in elements                           *)
(*   length  number of valid elements                                      *)
(*   offset  index of the first element in the buffer                      *)
(*   data    the buffer, a function on 0 .. size - 1                       *)
(*   small   the CI_OBJ_SMALL flag (buffer inline in the arena slot)       *)
(*                                                                         *)
(* malloc does not initialise memory: a fresh buffer holds Junk, a value   *)
(* that no client ever stores.                                             *)
(***************************************************************************)
EXTENDS Integers, Sequences, FiniteSets

CONSTANTS
    Elem,        \* the objects (pointers) that clients store
    NULL,        \* the null pointer, a legal element
    Junk,        \* the content of memory nobody has written
    DefaultCap,  \* CI_ARR_DEFAULT_CAP
    SmallCap     \* capacity of an inline (arena slot) array

ASSUME CapAssumption == DefaultCap \in Nat \ {0} /\ SmallCap \in Nat \ {0}
ASSUME ValAssumption == NULL \notin Elem /\ Junk \notin Elem \cup {NULL}

Ptr == Elem \cup {NULL}
Word == Ptr \cup {Junk}

ArrayRec(n) == [size : {n}, length : 0 .. n, offset : 0 .. n - 1,
                data : [0 .. n - 1 -> Word], small : BOOLEAN]

\* A well-formed array.
IsArray(a) == a.size \in Nat \ {0} /\ a \in ArrayRec(a.size)

-----------------------------------------------------------------------------
\* Reading

\* ci_arr__idx: logical index to buffer index.
Idx(a, i) == (a.offset + i) % a.size

\* ci_arr(a, i), read.
At(a, i) == a.data[Idx(a, i)]

\* The elements a client can see, in order.
Elements(a) == [i \in 1 .. a.length |-> At(a, i - 1)]

\* CI_ARR_IS_WRAPPED
IsWrapped(a) == a.length > 0 /\ a.offset + a.length > a.size

\* ci_arr_rmoffset: what it writes to dst[0 .. length-1], one segment when the
\* array is not wrapped, two when it is.
RmOffset(a) ==
    LET seg1 == a.size - a.offset
    IN  [i \in 0 .. a.length - 1 |->
            IF ~IsWrapped(a) \/ i < seg1 THEN a.data[a.offset + i]
                                         ELSE a.data[i - seg1]]

\* ci_arr_wrapindex: negative indices count from the end; length means invalid.
WrapIndex(a, i) ==
    IF i >= 0 THEN i
    ELSE IF a.length + i < 0 THEN a.length ELSE a.length + i

\* ci_arr_find: first index at or after start that holds v, or -1.
Find(a, v, start) ==
    LET hits == {i \in start .. a.length - 1 : At(a, i) = v}
    IN  IF hits = {} THEN -1
        ELSE CHOOSE i \in hits : \A j \in hits : i <= j

\* ci_arr_eq
ArrEq(a, b) == a.length = b.length /\ \A i \in 0 .. a.length - 1 : At(a, i) = At(b, i)

-----------------------------------------------------------------------------
\* Buffers

\* ci_arr_new: 0 asks for the default capacity.
NewArray(n) ==
    LET cap == IF n = 0 THEN DefaultCap ELSE n
    IN  [size |-> cap, length |-> 0, offset |-> 0,
         data |-> [p \in 0 .. cap - 1 |-> Junk], small |-> FALSE]

\* ci_arr_new_inline: the buffer is the rest of the arena slot, whatever the
\* slot held before.
NewInline ==
    [size |-> SmallCap, length |-> 0, offset |-> 0,
     data |-> [p \in 0 .. SmallCap - 1 |-> Junk], small |-> TRUE]

\* Mutant: the offset is not reset.
LinearizeKeepsOffset(a, newsize) ==
    [a EXCEPT !.size = newsize,
              !.data = [p \in 0 .. newsize - 1 |->
                           IF p < a.length THEN RmOffset(a)[p] ELSE NULL]]

\* ci_arr__linearize: copy to a fresh buffer, zero the tail.
Linearize(a, newsize) ==
    [a EXCEPT !.size   = newsize,
              !.offset = 0,
              !.data   = [p \in 0 .. newsize - 1 |->
                             IF p < a.length THEN RmOffset(a)[p] ELSE NULL]]

\* ci_arr_upgrade on a small array: copy to a fresh buffer of the same
\* capacity; the tail is not zeroed.
Upgrade(a) ==
    [a EXCEPT !.small  = FALSE,
              !.offset = 0,
              !.data   = [p \in 0 .. a.size - 1 |->
                             IF p < a.length THEN RmOffset(a)[p] ELSE Junk]]

\* newsize in ci_arr_ensure_space.
GrownSize(a, n) == IF a.size * 2 < a.length + n THEN a.length + n ELSE a.size * 2

\* ci_arr_ensure_space: the possible results, <<success, array>>.  Each malloc
\* may fail; a small array can be left upgraded when the second one does.
EnsureSpace(a, n) ==
    IF a.length + n <= a.size THEN {<<TRUE, a>>}
    ELSE IF a.small
      THEN {<<FALSE, a>>, <<FALSE, Upgrade(a)>>,
            <<TRUE, Linearize(Upgrade(a), GrownSize(a, n))>>}
      ELSE {<<FALSE, a>>, <<TRUE, Linearize(a, GrownSize(a, n))>>}

\* ci_arr_ensure_continuous, with the same convention.
EnsureContinuous(a) ==
    IF a.small THEN {<<FALSE, a>>, <<TRUE, Upgrade(a)>>}
    ELSE IF IsWrapped(a) THEN {<<FALSE, a>>, <<TRUE, Linearize(a, a.size)>>}
    ELSE {<<TRUE, a>>}

-----------------------------------------------------------------------------
\* Writing.  The operators below assume there is room.

\* ci_arr_set
SetAt(a, i, v) == [a EXCEPT !.data[Idx(a, i)] = v]

\* ci_arr_push, after ci_arr_ensure_space.
PushTail(a, v) == [a EXCEPT !.data[Idx(a, a.length)] = v, !.length = @ + 1]

\* ci_arr_pop on a non-empty array.
PopTail(a) == [a EXCEPT !.length = @ - 1]

\* ci_arr_unshift, after ci_arr_ensure_space.
PushHead(a, v) ==
    LET off == IF a.offset = 0 THEN a.size - 1 ELSE a.offset - 1
    IN  [a EXCEPT !.offset = off, !.data[off] = v, !.length = @ + 1]

\* Mutant: the offset does not wrap around.
PopHeadNoWrap(a) == [a EXCEPT !.offset = @ + 1, !.length = @ - 1]

\* ci_arr_shift on a non-empty array.
PopHead(a) == [a EXCEPT !.offset = (@ + 1) % a.size, !.length = @ - 1]

\* ci_arr__zero_tail: one memset when offset is 0, otherwise slot by slot.
ZeroTail(a, from, to) ==
    [a EXCEPT !.data = [p \in 0 .. a.size - 1 |->
        IF a.offset = 0
          THEN IF p \in from .. to - 1 THEN NULL ELSE a.data[p]
          ELSE IF \E i \in from .. to - 1 : p = Idx(a, i) THEN NULL ELSE a.data[p]]]

\* ci_arr_extend, after ci_arr_ensure_space.
ExtendTo(a, newlen) == [ZeroTail(a, a.length, newlen) EXCEPT !.length = newlen]

\* The copy loop of ci_arr_append, after ci_arr_ensure_space: dst->length is
\* advanced after the loop, so all n = Len(els) > 0 writes go to the same slot
\* and the last one stays.  els is what the loop reads from src; that slot is
\* none of them, even when src is dst.
AppendLoop(a, els) ==
    [a EXCEPT !.data[Idx(a, a.length)] = els[Len(els)], !.length = @ + Len(els)]

\* ci_arr_clear
Clear(a) == [a EXCEPT !.length = 0, !.offset = 0]

\* Mutant: the segment at the start of a wrapped buffer is forgotten.
DecSlotsOneSegment(a) == {p \in a.offset .. a.size - 1 : p < a.offset + a.length}

\* The buffer slots that ci_arr_clear and the destructors ci_dec, one segment
\* or two.
DecSlots(a) ==
    LET seg1 == a.size - a.offset
    IN  IF a.offset + a.length <= a.size
          THEN a.offset .. a.offset + a.length - 1
          ELSE (a.offset .. a.size - 1) \cup (0 .. a.length - seg1 - 1)

\* ci_arr_reverse: swap from both ends to the middle.
Reversed(a) ==
    [a EXCEPT !.data = [p \in 0 .. a.size - 1 |->
        LET i == (p + a.size - a.offset) % a.size
        IN  IF i < a.length THEN At(a, a.length - 1 - i) ELSE a.data[p]]]

\* Resolution of a slice bound: negative counts from the end, both clamp.
SliceBound(a, i) ==
    LET k == IF i < 0 THEN a.length + i ELSE i
    IN  IF k < 0 THEN 0 ELSE IF k > a.length THEN a.length ELSE k

\* ci_arr_slice, when its malloc succeeds.
Slice(a, from, to) ==
    LET f == SliceBound(a, from)
        t == SliceBound(a, to)
    IN  IF t <= f THEN NewArray(DefaultCap)
        ELSE [NewArray(t - f) EXCEPT
                 !.length = t - f,
                 !.data   = [p \in 0 .. t - f - 1 |-> At(a, f + p)]]
=============================================================================
