----------------------------- MODULE CiString ------------------------------
(***************************************************************************)
(* Strings: ci_string.c and the methods of blueberry_vm/proto/string.c.    *)
(* The store m has the string objects m.strs and the malloc'd buffers      *)
(* m.bufs.  An object points into a buffer by offsets; a buffer that was   *)
(* freed is gone from m.bufs, so a pointer into it shows.  The four        *)
(* pointers memory, start, end, limit are 0, start, end and the length of  *)
(* the buffer.  A slice (zero-copy view) points into its parent's buffer.  *)
(*                                                                         *)
(* Small inline strings are left out: nothing in the program makes one     *)
(* (ci_str_small_new has no caller outside the tests).                     *)
(***************************************************************************)
EXTENDS Integers, Sequences, FiniteSets, FiniteSetsExt, SequencesExt

CONSTANTS Null,        \* no object
          RefMax       \* the saturated reference count (0xFFFF)

ASSUME CiStringAssumption == RefMax \in Nat \ {0} /\ Null \notin Nat

Junk   == -1           \* a byte nobody wrote
Static == 0            \* the buffer of the literal ""
Blank(c)   == c \in {9, 10, 13, 32}
toupper(c) == IF c \in 97 .. 122 THEN c - 32 ELSE c
downcase(c) == IF c \in 65 .. 90 THEN c + 32 ELSE c

Without(f, x) == [y \in DOMAIN f \ {x} |-> f[y]]
With(f, x, v) == [y \in DOMAIN f \cup {x} |-> IF y = x THEN v ELSE f[y]]

NewStr(m) == Min(1 .. Cardinality(DOMAIN m.strs) + 1 \ DOMAIN m.strs)
\* malloc: an address no object points to, so that a stale pointer stays visible.
NewBuf(m) == LET used == DOMAIN m.bufs \cup {m.strs[s].buf : s \in DOMAIN m.strs}
             IN  Min(0 .. Cardinality(used) \ used)
Fresh(n) == [i \in 1 .. n |-> Junk]

(***************************************************************************)
(* Accessors.                                                              *)
(***************************************************************************)
ci_str_len(m, s)        == m.strs[s].end - m.strs[s].start
ci_str_size(m, s)       == Len(m.bufs[m.strs[s].buf])
ci_str_head_space(m, s) == m.strs[s].start
ci_str_tail_space(m, s) == ci_str_size(m, s) - m.strs[s].end
Readable(m, s) == /\ m.strs[s].buf \in DOMAIN m.bufs
                  /\ m.strs[s].end <= ci_str_size(m, s)
Text(m, s) == SubSeq(m.bufs[m.strs[s].buf], m.strs[s].start + 1, m.strs[s].end)
ci_str_reset_hash(m, s) == [m EXCEPT !.strs[s].hash = <<>>]
Writable(m, s) == m.strs[s].kind = "str"

(***************************************************************************)
(* Lifecycle.                                                              *)
(***************************************************************************)
ci_str_inc(m, s) ==
    IF s = Null THEN m
    ELSE [m EXCEPT !.strs[s].refcnt = IF @ >= RefMax - 1 THEN RefMax ELSE @ + 1]

\* The store and the objects that are still to be released.
Releasing(m, work) == [m |-> m, work |-> work]

\* A slice goes on with its parent and its context, an owner frees its buffer.
ci_str_destructor(m, s, rest) ==
    LET o == m.strs[s]
        r == [m EXCEPT !.strs = Without(@, s)]
    IN  IF o.kind = "slice" THEN Releasing(r, <<o.parent, o.ctx>> \o rest)
        ELSE Releasing([r EXCEPT !.bufs = Without(@, o.buf)], rest)

\* ci_dec of the object at the head of the work.
Release(x) ==
    LET s    == Head(x.work)
        rest == Tail(x.work)
    IN  IF x.work = <<>> THEN x
        ELSE IF s = Null THEN Releasing(x.m, rest)
        ELSE IF x.m.strs[s].refcnt = RefMax THEN Releasing(x.m, rest)
        ELSE IF x.m.strs[s].refcnt = 1 THEN ci_str_destructor(x.m, s, rest)
        ELSE Releasing([x.m EXCEPT !.strs[s].refcnt = @ - 1], rest)

\* ci_dec, which destructors call in turn: an object that is freed leaves two at
\* most to be released.
ci_str_dec(m, s) ==
    LET steps == 2 * Cardinality(DOMAIN m.strs) + 1
        loop[i \in 0 .. steps] ==
            IF i = 0 THEN Releasing(m, <<s>>) ELSE Release(loop[i - 1])
    IN  loop[steps].m

ci_str_alloc(m, size, kind) ==
    LET b == NewBuf(m)
    IN  [strs |-> With(m.strs, NewStr(m),
                       [kind |-> kind, refcnt |-> 1, buf |-> b, start |-> 0, end |-> 0,
                        hash |-> <<>>, parent |-> Null, ctx |-> Null]),
         bufs |-> With(m.bufs, b, Fresh(IF size = 0 THEN 1 ELSE size))]

ci_str_new(m, size) == ci_str_alloc(m, size, "str")

\* memcpy into the buffer of s at offset `at'.
Write(m, s, at, bytes) ==
    [m EXCEPT !.bufs[m.strs[s].buf] =
        [i \in DOMAIN @ |-> IF i - at \in DOMAIN bytes THEN bytes[i - at] ELSE @[i]]]

\* A string interned by the VM: read-only and never counted.
ci_str_new_readonly(m, bytes) ==
    LET s == NewStr(m)
        r == Write(ci_str_alloc(m, Len(bytes), "readonly"), s, 0, bytes)
    IN  [r EXCEPT !.strs[s].end = Len(bytes), !.strs[s].refcnt = RefMax]

ci_str_copy(m, src, extra) ==
    LET s == NewStr(m)
        r == Write(ci_str_new(m, ci_str_len(m, src) + extra), s, 0, Text(m, src))
    IN  [r EXCEPT !.strs[s].end = ci_str_len(m, src)]

ci_str_slice_new_uncounted(m, buf, start, end, parent) ==   \* mutant
    [m EXCEPT !.strs = With(@, NewStr(m),
        [kind |-> "slice", refcnt |-> 1, buf |-> buf, start |-> start,
         end |-> end, hash |-> <<>>, parent |-> parent, ctx |-> Null])]
ci_str_slice_new(m, buf, start, end, parent) ==
    ci_str_inc([m EXCEPT !.strs = With(@, NewStr(m),
                   [kind |-> "slice", refcnt |-> 1, buf |-> buf, start |-> start,
                    end |-> end, hash |-> <<>>, parent |-> parent, ctx |-> Null])], parent)

(***************************************************************************)
(* Buffer management.  realloc moves the buffer or not (moved).            *)
(***************************************************************************)
ci_str_ensure_tail_doubles(m, s, n, moved) ==   \* mutant
    LET o    == m.strs[s]
        data == m.bufs[o.buf] \o Fresh(ci_str_size(m, s))
    IN  IF ci_str_tail_space(m, s) >= n THEN m ELSE [m EXCEPT !.bufs[o.buf] = data]
ci_str_ensure_tail(m, s, n, moved) ==
    LET o    == m.strs[s]
        size == Max({ci_str_size(m, s) * 2, o.end + n})
        data == m.bufs[o.buf] \o Fresh(size - ci_str_size(m, s))
        b    == NewBuf(m)
    IN  IF ci_str_tail_space(m, s) >= n THEN m
        ELSE IF moved THEN [strs |-> [m.strs EXCEPT ![s].buf = b],
                            bufs |-> With(Without(m.bufs, o.buf), b, data)]
        ELSE [m EXCEPT !.bufs[o.buf] = data]

ci_str_put_tail(m, s, n) == ci_str_reset_hash([m EXCEPT !.strs[s].end = @ + n], s)

ci_str_ensure_head(m, s, n) ==
    LET o    == m.strs[s]
        b    == NewBuf(m)
        data == Fresh(n) \o Text(m, s) \o Fresh(ci_str_tail_space(m, s))
    IN  IF ci_str_head_space(m, s) >= n THEN ci_str_reset_hash(m, s)
        ELSE ci_str_reset_hash(
                 [strs |-> [m.strs EXCEPT ![s].buf = b, ![s].start = n,
                                          ![s].end = n + ci_str_len(m, s)],
                  bufs |-> With(Without(m.bufs, o.buf), b, data)], s)

(***************************************************************************)
(* Data operations.  The source of append and prepend is a pointer: buffer *)
(* b, offset off.  It was taken before the destination is made larger, and *)
(* is read after.                                                          *)
(***************************************************************************)
Fetch(m, b, off, n) == IF b \in DOMAIN m.bufs /\ off + n <= Len(m.bufs[b])
                       THEN SubSeq(m.bufs[b], off + 1, off + n) ELSE Fresh(n)

ci_str_append(m, s, b, off, n, moved) ==
    LET r == ci_str_ensure_tail(m, s, n, moved)
    IN  ci_str_put_tail(Write(r, s, r.strs[s].end, Fetch(r, b, off, n)), s, n)

ci_str_prepend(m, s, b, off, n) ==
    LET r == ci_str_ensure_head(m, s, n)
        w == Write(r, s, r.strs[s].start - n, Fetch(r, b, off, n))
    IN  ci_str_reset_hash([w EXCEPT !.strs[s].start = @ - n], s)

\* An emptied string starts again at the base of its buffer.
Rebased(m, s) == ci_str_reset_hash(
    IF ci_str_len(m, s) > 0 THEN m ELSE [m EXCEPT !.strs[s].start = 0, !.strs[s].end = 0], s)

ci_str_rmhead(m, s, n) ==
    Rebased([m EXCEPT !.strs[s].start = @ + Min({n, ci_str_len(m, s)})], s)
ci_str_rmtail(m, s, n) ==
    Rebased([m EXCEPT !.strs[s].end = @ - Min({n, ci_str_len(m, s)})], s)

ci_str_clear(m, s) ==
    Write([m EXCEPT !.strs[s].start = 0, !.strs[s].end = 0, !.strs[s].hash = <<>>], s, 0, <<0>>)

\* The hash of a text is known by the text it was computed from.
HashOf(t) == <<t>>
ci_str_hash(m, s) == IF m.strs[s].hash # <<>> THEN m
                     ELSE [m EXCEPT !.strs[s].hash = HashOf(Text(m, s))]

(***************************************************************************)
(* Script methods.  BB_CHECK_STRING_WRITABLE refuses read-only strings and *)
(* slices, and forgets the hash of the others before they are written.     *)
(***************************************************************************)
Checked(m, s) == ci_str_reset_hash(m, s)

\* upper, lower, rev and set rewrite the bytes in place.
Rewritten(m, s, bytes) == Write(Checked(m, s), s, m.strs[s].start, bytes)
Upper(t) == [i \in DOMAIN t |-> toupper(t[i])]
Lower(t) == [i \in DOMAIN t |-> downcase(t[i])]

bb_str_upper(m, s) == Rewritten(m, s, Upper(Text(m, s)))
bb_str_lower(m, s) == Rewritten(m, s, Lower(Text(m, s)))

\* Pairs are swapped from both ends inwards, the middle byte staying.
bb_str_rev(m, s) ==
    LET t == Text(m, s)
        n == Len(t)
    IN  Rewritten(m, s, [i \in 1 .. n |-> IF i <= n \div 2 \/ i > n - n \div 2
                                          THEN t[n + 1 - i] ELSE t[i]])

\* A negative index counts from the end; outside the text the call fails.
Wrapped(i, n) == IF i < 0 THEN i + n ELSE i
bb_str_set(m, s, i, c) ==
    Write(Checked(m, s), s, m.strs[s].start + Wrapped(i, ci_str_len(m, s)), <<c % 256>>)

\* Both counts are taken before either end is cut.
bb_str_trim(m, s) ==
    LET t    == Text(m, s)
        kept == {i \in DOMAIN t : ~Blank(t[i])}
        head == IF kept = {} THEN Len(t) ELSE Min(kept) - 1
        tail == IF kept = {} THEN 0 ELSE Len(t) - Max(kept)
        h    == IF head > 0 THEN ci_str_rmhead(Checked(m, s), s, head) ELSE Checked(m, s)
    IN  IF tail > 0 THEN ci_str_rmtail(h, s, tail) ELSE h

bb_str_size(m, s, n, moved) ==
    IF n <= 0 THEN m ELSE ci_str_ensure_tail(Checked(m, s), s, n, moved)

bb_str_append(m, s, other, moved) ==
    LET o == m.strs[other]
        n == ci_str_len(m, other)
    IN  IF n = 0 THEN Checked(m, s)
        ELSE ci_str_append(Checked(m, s), s, o.buf, o.start, n, moved)

bb_str_prepend(m, s, other) ==
    LET o == m.strs[other]
        n == ci_str_len(m, other)
    IN  IF n = 0 THEN Checked(m, s) ELSE ci_str_prepend(Checked(m, s), s, o.buf, o.start, n)

bb_str_clear(m, s) == ci_str_clear(Checked(m, s), s)

\* The bounds of slice(from, to): wrapped, then clamped.
Bounds(n, from, to) == [from |-> Max({0, Wrapped(from, n)}), to |-> Min({n, Wrapped(to, n)})]

\* A new string of these bytes, with a buffer of exactly their size.
NewText(m, bytes) ==
    LET s == NewStr(m)
    IN  ci_str_put_tail(Write(ci_str_new(m, Len(bytes)), s, 0, bytes), s, Len(bytes))

bb_str_slice(m, s, from, to) ==
    LET b == Bounds(ci_str_len(m, s), from, to)
    IN  IF b.from >= b.to THEN NewText(m, <<>>)
        ELSE NewText(m, SubSeq(Text(m, s), b.from + 1, b.to))

\* __slice: a view of the parent's bytes, or of the static "".
bb_str__slice(m, s, from, to) ==
    LET b == Bounds(ci_str_len(m, s), from, to)
        o == m.strs[s]
    IN  IF b.from >= b.to THEN ci_str_slice_new(m, Static, 0, 0, Null)
        ELSE ci_str_slice_new(m, o.buf, o.start + b.from, o.start + b.to, s)

\* The text is copied n times, one behind the other.
Times(t, n) ==
    LET copies[i \in 0 .. n] == IF i = 0 THEN <<>> ELSE copies[i - 1] \o t
    IN  IF n <= 0 THEN <<>> ELSE copies[n]
bb_str_repeat(m, s, n) == NewText(m, Times(Text(m, s), n))

OccursAt(h, n, i) == i + Len(n) <= Len(h) /\ SubSeq(h, i + 1, i + Len(n)) = n

\* find(needle, from): the first occurrence at or after from, -1 for false.
bb_str_find(h, n, from) ==
    LET f    == Max({0, Wrapped(from, Len(h))})
        hits == {i \in f .. Len(h) - Len(n) : OccursAt(h, n, i)}
    IN  IF Len(n) = 0 THEN f ELSE IF hits = {} THEN -1 ELSE Min(hits)

(***************************************************************************)
(* split and replace go through the text in the same way: at an occurrence *)
(* they take the piece since the last one and go on behind it.  at is the  *)
(* index of the loop, prev the end of the last occurrence, out what has    *)
(* been made so far.  With an occurrence or a byte per round, as many      *)
(* rounds as there are bytes are enough.                                   *)
(***************************************************************************)
Scan(at, prev, out) == [at |-> at, prev |-> prev, out |-> out]

\* The pieces.
SplitRound_overlaps(h, d, x) ==   \* mutant
    IF x.at > Len(h) - Len(d) THEN x
    ELSE IF ~OccursAt(h, d, x.at) THEN Scan(x.at + 1, x.prev, x.out)
    ELSE Scan(x.at + 1, x.at + 1, Append(x.out, SubSeq(h, x.prev + 1, x.at)))
SplitRound(h, d, x) ==
    IF x.at > Len(h) - Len(d) THEN x
    ELSE IF ~OccursAt(h, d, x.at) THEN Scan(x.at + 1, x.prev, x.out)
    ELSE Scan(x.at + Len(d), x.at + Len(d), Append(x.out, SubSeq(h, x.prev + 1, x.at)))
bb_str_split(h, d) ==
    LET loop[i \in 0 .. Len(h)] ==
            IF i = 0 THEN Scan(0, 0, <<>>) ELSE SplitRound(h, d, loop[i - 1])
        last == loop[Len(h)]
    IN  IF Len(d) = 0 THEN [i \in DOMAIN h |-> <<h[i]>>]
        ELSE IF Len(d) > Len(h) THEN <<h>>
        ELSE Append(last.out, SubSeq(h, last.prev + 1, Len(h)))

\* The first pass of replace counts, and the result is as large as it says.
CountRound(h, n, x) ==
    IF x.at > Len(h) - Len(n) THEN x
    ELSE IF ~OccursAt(h, n, x.at) THEN Scan(x.at + 1, 0, x.out)
    ELSE Scan(x.at + Len(n), 0, x.out + 1)
CountOf(h, n) ==
    LET loop[i \in 0 .. Len(h)] ==
            IF i = 0 THEN Scan(0, 0, 0) ELSE CountRound(h, n, loop[i - 1])
    IN  loop[Len(h)].out

\* The second fills it.
FillRound(h, n, r, x) ==
    IF x.at > Len(h) - Len(n) THEN x
    ELSE IF ~OccursAt(h, n, x.at) THEN Scan(x.at + 1, x.prev, x.out)
    ELSE Scan(x.at + Len(n), x.at + Len(n), x.out \o SubSeq(h, x.prev + 1, x.at) \o r)
Filling(h, n, r) ==
    LET loop[i \in 0 .. Len(h)] ==
            IF i = 0 THEN Scan(0, 0, <<>>) ELSE FillRound(h, n, r, loop[i - 1])
        last == loop[Len(h)]
    IN  last.out \o SubSeq(h, last.prev + 1, Len(h))

\* What is written past the size is lost, what is not written is Junk.
Replaced(h, n, r) ==
    LET size == Len(h) - CountOf(h, n) * Len(n) + CountOf(h, n) * Len(r)
        out  == Filling(h, n, r)
    IN  IF Len(n) = 0 \/ Len(n) > Len(h) \/ CountOf(h, n) = 0 THEN h
        ELSE [i \in 1 .. size |-> IF i <= Len(out) THEN out[i] ELSE Junk]
bb_str_replace(m, s, n, r) == NewText(m, Replaced(Text(m, s), n, r))
=============================================================================
