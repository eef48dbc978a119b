---------------------------- MODULE CiArraySpec ----------------------------
(***************************************************************************)
(* What ci_array.c promises: an array is a finite sequence of pointers.    *)
(* seq is the array under test, out the array the last slice returned and  *)
(* ret what the last call returned.  An operation that allocates may fail, *)
(* and then it leaves the sequence as it was.                              *)
(***************************************************************************)
EXTENDS Integers, Sequences

CONSTANTS
    Elem, NULL,  \* the objects and the null pointer
    NoArr,       \* there is no array
    Index        \* the integers that calls are made with

VARIABLES seq, out, ret

avars == <<seq, out, ret>>

APtr == Elem \cup {NULL}

Ok == <<"ok">>
Failed == <<"failed">>
PtrRet(v) == <<"ptr", v>>
IntRet(n) == <<"int", n>>

AInit == seq = NoArr /\ out = NoArr /\ ret = Ok

AFail == seq # NoArr /\ ret' = Failed /\ UNCHANGED <<seq, out>>

ACreate ==
    /\ seq = NoArr
    /\ \/ seq' = <<>> /\ ret' = Ok
       \/ seq' = NoArr /\ ret' = Failed
    /\ UNCHANGED out

APush(v) == seq # NoArr /\ seq' = Append(seq, v) /\ ret' = Ok /\ UNCHANGED out

AUnshift(v) == seq # NoArr /\ seq' = <<v>> \o seq /\ ret' = Ok /\ UNCHANGED out

APop ==
    /\ seq # NoArr
    /\ IF seq = <<>> THEN ret' = PtrRet(NULL) /\ seq' = seq
       ELSE ret' = PtrRet(seq[Len(seq)]) /\ seq' = SubSeq(seq, 1, Len(seq) - 1)
    /\ UNCHANGED out

AShift ==
    /\ seq # NoArr
    /\ IF seq = <<>> THEN ret' = PtrRet(NULL) /\ seq' = seq
       ELSE ret' = PtrRet(seq[1]) /\ seq' = SubSeq(seq, 2, Len(seq))
    /\ UNCHANGED out

AExtend(n) ==
    /\ seq # NoArr
    /\ seq' = IF n <= Len(seq) THEN seq
              ELSE [i \in 1 .. n |-> IF i <= Len(seq) THEN seq[i] ELSE NULL]
    /\ ret' = Ok
    /\ UNCHANGED out

AAppend(s) == seq # NoArr /\ seq' = seq \o s /\ ret' = Ok /\ UNCHANGED out

AClear == seq # NoArr /\ seq' = <<>> /\ ret' = Ok /\ UNCHANGED out

AReverse ==
    /\ seq # NoArr
    /\ seq' = [i \in 1 .. Len(seq) |-> seq[Len(seq) + 1 - i]]
    /\ ret' = Ok
    /\ UNCHANGED out

ASet(i, v) ==
    /\ seq # NoArr
    /\ i \in 1 .. Len(seq)
    /\ seq' = [seq EXCEPT ![i] = v]
    /\ ret' = Ok
    /\ UNCHANGED out

\* Index counts from 0; -1 is the last element.
AIndex(i) ==
    /\ seq # NoArr
    /\ i \in -Len(seq) .. Len(seq) - 1
    /\ ret' = PtrRet(seq[IF i < 0 THEN Len(seq) + i + 1 ELSE i + 1])
    /\ UNCHANGED <<seq, out>>

AFind(v, start) ==
    /\ seq # NoArr
    /\ LET hits == {i \in start + 1 .. Len(seq) : seq[i] = v}
       IN  ret' = IntRet(IF hits = {} THEN -1
                         ELSE (CHOOSE i \in hits : \A j \in hits : i <= j) - 1)
    /\ UNCHANGED <<seq, out>>

AEq ==
    /\ seq # NoArr /\ out # NoArr
    /\ ret' = IntRet(IF seq = out THEN 1 ELSE 0)
    /\ UNCHANGED <<seq, out>>

\* Python-style slice [from, to).
ASlice(from, to) ==
    LET n == Len(seq)
        Bound(i) == IF i < 0 THEN (IF n + i < 0 THEN 0 ELSE n + i)
                    ELSE (IF i > n THEN n ELSE i)
    IN  /\ seq # NoArr /\ out = NoArr
        /\ \/ out' = SubSeq(seq, Bound(from) + 1, Bound(to)) /\ ret' = Ok
           \/ out' = NoArr /\ ret' = Failed
        /\ UNCHANGED seq

\* A call that only changes where the elements are stored.
ARearrange == seq # NoArr /\ ret' = Ok /\ UNCHANGED <<seq, out>>

AFree == seq # NoArr /\ seq' = NoArr /\ ret' = Ok /\ UNCHANGED out

AFreeOut == out # NoArr /\ out' = NoArr /\ ret' = Ok /\ UNCHANGED seq

ANext ==
    \/ ACreate \/ AFail \/ APop \/ AShift \/ AClear \/ AReverse
    \/ AEq \/ ARearrange \/ AFree \/ AFreeOut
    \/ \E v \in APtr : APush(v) \/ AUnshift(v)
    \/ \E n \in Index \cap Nat : AExtend(n)
    \/ AAppend(seq)
    \/ out # NoArr /\ AAppend(out)
    \/ \E i \in Index \cap Nat, v \in APtr : ASet(i, v) \/ AFind(v, i)
    \/ \E i \in Index : AIndex(i)
    \/ \E i, j \in Index : ASlice(i, j)

ASpec == AInit /\ [][ANext]_avars
=============================================================================
