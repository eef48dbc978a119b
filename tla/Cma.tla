-------------------------------- MODULE Cma --------------------------------
(***************************************************************************)
(* The pattern matcher of cma/cma.c.  A grammar is a heap of ops, each the *)
(* record its cma_init_* builds, pointers being keys of the heap.  A match *)
(* function takes the matcher's state and returns the state it leaves:     *)
(* `ok' is the value it returns, and a status other than "ok" stands for   *)
(* the longjmp out of the whole match.  Positions count bytes from the     *)
(* start of the input.                                                     *)
(*                                                                         *)
(* Peg gives the same ops their meaning without a state, a backtrack stack *)
(* or a capture array, as the reference of the matcher.                    *)
(***************************************************************************)
EXTENDS Integers, Sequences, FiniteSets, FiniteSetsExt, SequencesExt

CONSTANTS Chunk,       \* bytes one SIMD step looks at (16 in the code)
          CMA_INF      \* "no maximum" (0xFFFFFFFF), above every input length

ASSUME CmaAssumption == Chunk \in Nat \ {0} /\ CMA_INF \in Nat

NUL  == 0
Dash == 45
Bytes == 0 .. 255
tolower(c) == IF c \in 65 .. 90 THEN c + 32 ELSE c

(***************************************************************************)
(* Ops.  build_simd turns the bits into two tables by column (the low      *)
(* nibble), one for the rows 0-7 and one for the rows 8-15; a build        *)
(* without SIMD leaves them unused.                                        *)
(***************************************************************************)
cma_set_build_simd(bits) ==
    [lo |-> [col \in 0 .. 15 |-> {row \in 0 .. 7 : row * 16 + col \in bits}],
     hi |-> [col \in 0 .. 15 |-> {row \in 0 .. 7 : (row + 8) * 16 + col \in bits}]]

cma_init_set(bits) == [type |-> "SET", bits |-> bits, simd |-> cma_set_build_simd(bits)]

cma_set_fill_range(a, b) == IF a > b THEN b .. a ELSE a .. b

\* What a C string holds: the bytes before the first NUL.
CString(s) == LET n == {i \in DOMAIN s : s[i] = NUL}
              IN  IF n = {} THEN s ELSE SubSeq(s, 1, Min(n) - 1)

RECURSIVE FillFrom(_, _)
FillFrom(spec, p) ==
    IF p > Len(spec) THEN {}
    ELSE IF p + 2 <= Len(spec) /\ spec[p + 1] = Dash
         THEN cma_set_fill_range(spec[p], spec[p + 2]) \cup FillFrom(spec, p + 3)
         ELSE {spec[p]} \cup FillFrom(spec, p + 1)

cma_set_fill_str(spec) == FillFrom(CString(spec), 1)
cma_set_fill_chrs(chars) == ToSet(chars)
cma_set_invert(bits) == Bytes \ bits

cma_init_str(buf, fold) == [type |-> "STR", buf |-> buf, fold |-> fold]
\* Of a single op without a name no node is made: the caller gets the op itself.
cma_init_seq(type, ops) == [type |-> type, seq |-> ops]
cma_init_not(p)   == [type |-> "NOT", pattern |-> p]
cma_init_ahead(p) == [type |-> "AHEAD", pattern |-> p]
cma_init_ref(ptr) == [type |-> "REF", pattern |-> ptr]
cma_init_endl     == [type |-> "ENDL"]
cma_init_noop     == [type |-> "NOOP"]

\* The fast path is chosen by the type the inner op has at this moment.
cma_init_rep(heap, min, max, p) ==
    [type |-> "REP", min |-> min, max |-> max, pattern |-> p,
     fn |-> IF heap[p].type = "SET" THEN "rep_set" ELSE "rep"]

cma_init_cap(p, name) == [type |-> "CAP", pattern |-> p, name |-> name, rejects |-> {}]
\* A callback is known by the lengths of text it refuses.
cma_init_cap_cb(p, rejects) == [type |-> "CAP", pattern |-> p, name |-> 0, rejects |-> rejects]

(***************************************************************************)
(* The state and the helpers of cma.h.                                     *)
(***************************************************************************)
cma_init(str, oneShot, simd) ==
    [str |-> str, pos |-> 0, end |-> Len(str), stack |-> <<>>, caps |-> <<>>,
     farthest |-> 0, endIsMiss |-> oneShot, simd |-> simd, status |-> "ok", ok |-> FALSE]

ret_matched(s) == [s EXCEPT !.ok = TRUE]
ret_missed(s)  == [s EXCEPT !.ok = FALSE, !.farthest = IF s.pos > @ THEN s.pos ELSE @]
ret_end_reached(s) == IF s.endIsMiss THEN [s EXCEPT !.ok = FALSE]
                      ELSE [s EXCEPT !.ok = FALSE, !.status = "end"]
Jumped(s) == s.status # "ok"

cma_push(s) == [s EXCEPT !.stack = Append(@, [pos |-> s.pos, caps |-> Len(s.caps)])]
cma_backtrack_keeps_caps(s, sp) ==   \* mutant
    [s EXCEPT !.pos = s.stack[sp + 1].pos, !.stack = SubSeq(@, 1, sp)]
cma_backtrack(s, sp) == [s EXCEPT !.pos = s.stack[sp + 1].pos,
                                  !.caps = SubSeq(@, 1, s.stack[sp + 1].caps),
                                  !.stack = SubSeq(@, 1, sp)]
cma_commit(s, sp) == [s EXCEPT !.stack = SubSeq(@, 1, sp)]

\* A pushed capture holds whatever its memory held until the inner op matched.
Unset == [parent |-> 0, start |-> -1, end |-> -1, nested |-> -1]
cma_cap_push(s) == [s EXCEPT !.caps = Append(@, Unset)]

ByteAt(s, i) == s.str[s.pos + i]

(***************************************************************************)
(* Match functions.                                                        *)
(***************************************************************************)
match_endl(s) == IF s.pos >= s.end THEN ret_matched(s) ELSE ret_missed(s)

match_str(s, op) ==
    LET avail   == s.end - s.pos
        Same(n) == \A i \in 1 .. n : IF op.fold THEN tolower(ByteAt(s, i)) = tolower(op.buf[i])
                                     ELSE ByteAt(s, i) = op.buf[i]
    IN  IF Len(op.buf) > avail
        THEN IF Same(avail) THEN ret_end_reached(s) ELSE ret_missed(s)
        ELSE IF Same(Len(op.buf)) THEN ret_matched([s EXCEPT !.pos = @ + Len(op.buf)])
             ELSE ret_missed(s)

match_set(s, op) ==
    IF s.pos >= s.end THEN ret_end_reached(s)
    ELSE IF ByteAt(s, 1) \in op.bits THEN ret_matched([s EXCEPT !.pos = @ + 1])
         ELSE ret_missed(s)

\* One byte through the tables: the column by the low nibble, the row's bit by the high.
SimdTest(op, ch) ==
    LET col == ch % 16
        row == ch \div 16
    IN  row % 8 \in (IF row > 7 THEN op.simd.hi[col] ELSE op.simd.lo[col])

\* The scalar loop: bytes accepted from offset n on, at most max in all.
RECURSIVE ScanScalar(_, _, _, _)
ScanScalar(s, op, max, n) ==
    IF n < max /\ s.pos + n < s.end /\ ByteAt(s, n + 1) \in op.bits
    THEN ScanScalar(s, op, max, n + 1) ELSE n

\* The SIMD loop: whole chunks, ending inside the first one that holds another byte.
RECURSIVE ScanSimd(_, _, _, _)
ScanSimd(s, op, max, n) ==
    IF n + Chunk <= max /\ s.pos + n + Chunk <= s.end
    THEN LET others == {i \in 0 .. Chunk - 1 : ~SimdTest(op, ByteAt(s, n + i + 1))}
         IN  IF others # {} THEN n + Min(others) ELSE ScanSimd(s, op, max, n + Chunk)
    ELSE ScanScalar(s, op, max, n)

match_rep_set_no_trunc(heap, s0, op) ==   \* mutant
    LET s  == cma_push(s0)
        sp == Len(s0.stack)
        n  == ScanScalar(s, heap[op.pattern], op.max, 0)
    IN  IF n < op.min THEN ret_missed(cma_backtrack(s, sp))
        ELSE ret_matched(cma_commit([s EXCEPT !.pos = @ + n], sp))

match_rep_set(heap, s0, op) ==
    LET s     == cma_push(s0)
        sp    == Len(s0.stack)
        inner == heap[op.pattern]
        n     == IF s.simd THEN ScanSimd(s, inner, op.max, 0)
                 ELSE ScanScalar(s, inner, op.max, 0)
    IN  IF s.pos + n >= s.end /\ n < op.max /\ ~s.endIsMiss THEN ret_end_reached(s)
        ELSE IF n < op.min THEN ret_missed(cma_backtrack(s, sp))
        ELSE ret_matched(cma_commit([s EXCEPT !.pos = @ + n], sp))

RECURSIVE cma_call(_, _, _)

RECURSIVE AndFrom(_, _, _, _, _)
AndFrom(heap, s, ops, p, sp) ==
    IF p > Len(ops) THEN ret_matched(cma_commit(s, sp))
    ELSE LET r == cma_call(heap, s, ops[p])
         IN  IF Jumped(r) THEN r
             ELSE IF r.ok THEN AndFrom(heap, r, ops, p + 1, sp)
             ELSE ret_missed(cma_backtrack(r, sp))

match_and(heap, s, op) == AndFrom(heap, cma_push(s), op.seq, 1, Len(s.stack))

\* Every alternative restores the position itself: nothing is pushed here.
RECURSIVE OrFrom(_, _, _, _)
OrFrom(heap, s, ops, p) ==
    IF p > Len(ops) THEN ret_missed(s)
    ELSE LET r == cma_call(heap, s, ops[p])
         IN  IF Jumped(r) THEN r
             ELSE IF r.ok THEN ret_matched(r) ELSE OrFrom(heap, r, ops, p + 1)

match_or(heap, s, op) == OrFrom(heap, s, op.seq, 1)

match_not(heap, s, op) ==
    LET r == cma_call(heap, cma_push(s), op.pattern)
        b == cma_backtrack(r, Len(s.stack))
    IN  IF Jumped(r) THEN r ELSE IF r.ok THEN ret_missed(b) ELSE ret_matched(b)

match_ahead(heap, s, op) ==
    LET r == cma_call(heap, cma_push(s), op.pattern)
        b == cma_backtrack(r, Len(s.stack))
    IN  IF Jumped(r) THEN r ELSE IF r.ok THEN ret_matched(b) ELSE ret_missed(b)

match_cap(heap, s, op, id) ==
    LET sp  == Len(s.stack)
        idx == Len(s.caps) + 1
        r   == cma_call(heap, cma_cap_push(cma_push(s)), op.pattern)
        f   == [r EXCEPT !.caps[idx] = [parent |-> id, start |-> s.pos, end |-> r.pos,
                                        nested |-> Len(r.caps) - idx]]
    IN  IF Jumped(r) THEN r
        ELSE IF ~r.ok THEN ret_missed(cma_backtrack(r, sp))
        ELSE IF r.pos - s.pos \in op.rejects THEN ret_missed(cma_backtrack(f, sp))
        ELSE ret_matched(cma_commit(f, sp))

\* An iteration that consumes nothing ends the loop uncounted; its captures stay.
RECURSIVE RepFrom(_, _, _, _, _)
RepFrom(heap, s, op, count, sp) ==
    LET r == cma_call(heap, s, op.pattern)
        Done(t) == IF count < op.min THEN ret_missed(cma_backtrack(t, sp))
                   ELSE ret_matched(cma_commit(t, sp))
    IN  IF count >= op.max THEN Done(s)
        ELSE IF Jumped(r) THEN r
        ELSE IF ~r.ok \/ r.pos = s.pos THEN Done(r)
        ELSE RepFrom(heap, r, op, count + 1, sp)

match_rep(heap, s, op) == RepFrom(heap, cma_push(s), op, 0, Len(s.stack))

cma_call(heap, s, id) ==
    LET op == heap[id]
    IN  CASE op.type = "STR"   -> match_str(s, op)
          [] op.type = "SET"   -> match_set(s, op)
          [] op.type = "AND"   -> match_and(heap, s, op)
          [] op.type = "OR"    -> match_or(heap, s, op)
          [] op.type = "NOT"   -> match_not(heap, s, op)
          [] op.type = "AHEAD" -> match_ahead(heap, s, op)
          [] op.type = "REF"   -> cma_call(heap, s, op.pattern)
          [] op.type = "CAP"   -> match_cap(heap, s, op, id)
          [] op.type = "REP"   -> IF op.fn = "rep_set" THEN match_rep_set(heap, s, op)
                                  ELSE match_rep(heap, s, op)
          [] op.type = "ENDL"  -> match_endl(s)
          [] op.type = "NOOP"  -> ret_matched(s)

\* The result of a whole match: its length, or -1 for a miss and for a jump.
cma_match(heap, s, id) ==
    LET r == cma_call(heap, s, id)
    IN  [state |-> r, result |-> IF ~Jumped(r) /\ r.ok THEN r.pos ELSE -1]

(***************************************************************************)
(* The ops reachable from a set of ops.                                    *)
(***************************************************************************)
OpsOf(op) == CASE op.type \in {"AND", "OR"} -> ToSet(op.seq)
               [] op.type \in {"NOT", "AHEAD", "REF", "CAP", "REP"} -> {op.pattern}
               [] OTHER -> {}

RECURSIVE Reach(_, _)
Reach(heap, S) ==
    LET T == S \cup UNION {OpsOf(heap[id]) : id \in S \cap DOMAIN heap}
    IN  IF T = S THEN S ELSE Reach(heap, T)

(***************************************************************************)
(* The reference.  Peg(heap, w, id, i) is what the op denotes at position  *)
(* i of w: whether it matches, where the match ends, and the captures made *)
(* in the order in which they open, each with the number nested in it.     *)
(***************************************************************************)
Fails == [ok |-> FALSE, end |-> 0, caps |-> <<>>]
Matches(end, caps) == [ok |-> TRUE, end |-> end, caps |-> caps]

RECURSIVE Peg(_, _, _, _)

RECURSIVE PegSeq(_, _, _, _)
PegSeq(heap, w, ops, i) ==
    IF ops = <<>> THEN Matches(i, <<>>)
    ELSE LET x == Peg(heap, w, Head(ops), i)
             y == PegSeq(heap, w, Tail(ops), x.end)
         IN  IF x.ok /\ y.ok THEN Matches(y.end, x.caps \o y.caps) ELSE Fails

\* The iterations of a repetition: how many, where they end, what they captured.
RECURSIVE PegLoop(_, _, _, _, _)
PegLoop(heap, w, id, i, max) ==
    LET x    == Peg(heap, w, id, i)
        more == PegLoop(heap, w, id, x.end, max - 1)
    IN  IF max = 0 \/ ~x.ok THEN [n |-> 0, end |-> i, caps |-> <<>>]
        ELSE IF x.end = i THEN [n |-> 0, end |-> i, caps |-> x.caps]
        ELSE [n |-> more.n + 1, end |-> more.end, caps |-> x.caps \o more.caps]

Peg(heap, w, id, i) ==
    LET op == heap[id]
        Sub == Peg(heap, w, op.pattern, i)
    IN  CASE op.type = "NOOP" -> Matches(i, <<>>)
          [] op.type = "ENDL" -> IF i = Len(w) THEN Matches(i, <<>>) ELSE Fails
          [] op.type = "STR"  ->
               LET n == Len(op.buf)
                   t == SubSeq(w, i + 1, Min({i + n, Len(w)}))
               IN  IF t = op.buf \/ (op.fold /\ Len(t) = n
                                     /\ \A k \in 1 .. n : tolower(t[k]) = tolower(op.buf[k]))
                   THEN Matches(i + n, <<>>) ELSE Fails
          [] op.type = "SET"  -> IF i < Len(w) /\ w[i + 1] \in op.bits
                                 THEN Matches(i + 1, <<>>) ELSE Fails
          [] op.type = "AND"  -> PegSeq(heap, w, op.seq, i)
          [] op.type = "OR"   ->
               LET good == {k \in DOMAIN op.seq : Peg(heap, w, op.seq[k], i).ok}
               IN  IF good = {} THEN Fails ELSE Peg(heap, w, op.seq[Min(good)], i)
          [] op.type = "NOT"   -> IF Sub.ok THEN Fails ELSE Matches(i, <<>>)
          [] op.type = "AHEAD" -> IF Sub.ok THEN Matches(i, <<>>) ELSE Fails
          [] op.type = "REF"   -> Sub
          [] op.type = "CAP"   ->
               IF ~Sub.ok \/ Sub.end - i \in op.rejects THEN Fails
               ELSE Matches(Sub.end, <<[parent |-> id, start |-> i, end |-> Sub.end,
                                        nested |-> Len(Sub.caps)]>> \o Sub.caps)
          [] op.type = "REP"   ->
               LET l == PegLoop(heap, w, op.pattern, i, op.max)
               IN  IF l.n < op.min THEN Fails ELSE Matches(l.end, l.caps)
=============================================================================
