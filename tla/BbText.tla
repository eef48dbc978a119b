------------------------------ MODULE BbText -------------------------------
(***************************************************************************)
(* Strings and patterns as a script uses them: the string methods, the     *)
(* cma library (blueberry_vm/lib/cma.c) that builds patterns out of other  *)
(* patterns, and match, whose captures are slices of the string it read.   *)
(*                                                                         *)
(* A pattern object owns one op of the matcher's heap and, through its     *)
(* array of children, the pattern objects whose ops its own op points to.  *)
(* The script holds strings and patterns by counted references.            *)
(***************************************************************************)
EXTENDS Cma, BbStrings

CONSTANTS Plans,       \* bounds: [pats, calls], patterns made and string calls
          Literals,    \* texts given to patterns
          Specs,       \* arguments of R and S
          Reps,        \* <<min, max>> given to rep
          Inputs,      \* texts every new pattern is tried on
          Simds,       \* builds: with the SIMD loop, without
          Statics,     \* ops of a grammar written in C
          Root         \* its first op

VARIABLES pats,        \* live pattern objects
          ops,         \* the heap of ops
          patRefs,     \* references the script holds to patterns
          pinned,      \* references held by argument arrays that are never released
          made,        \* the op made last, Null when a call did something else
          left         \* what is left of the plan
vars == <<mem, val, strRefs, pats, ops, patRefs, pinned, made, left>>
patVars == <<pats, ops, patRefs, pinned>>

Init ==
    /\ StrInit
    /\ pats = <<>> /\ patRefs = <<>> /\ pinned = <<>>
    /\ ops = Statics
    /\ made = Root
    /\ left \in Plans

(***************************************************************************)
(* String calls.                                                           *)
(***************************************************************************)
\* A plan makes its patterns before its string calls; it may drop them at any time.
Call == left.pats = 0 /\ left.calls > 0 /\ left' = [left EXCEPT !.calls = @ - 1] /\ made' = Null

StringCall == Call /\ StrNext /\ UNCHANGED patVars

(***************************************************************************)
(* Patterns.  The children array is created with count 1, counted by the   *)
(* new object and released by the function: it is the object's own, and    *)
(* each child in it has been counted once.                                 *)
(***************************************************************************)
Pats   == {p \in DOMAIN pats : patRefs[p] > 0}
NewPat == Min(1 .. Cardinality(DOMAIN pats) + 1 \ DOMAIN pats)
\* malloc of an op: an address nothing points to.
UsedOps == DOMAIN ops \cup UNION {OpsOf(ops[i]) : i \in DOMAIN ops}
                      \cup {pats[p].op : p \in DOMAIN pats}
NewOp == Min(1 .. Cardinality(UsedOps) + 1 \ UsedOps)
NextOp == Min(1 .. Cardinality(UsedOps) + 2 \ (UsedOps \cup {NewOp}))

Occurs(list, p) == Cardinality({i \in DOMAIN list : list[i] = p})
Counted_not(list) == pats   \* mutant
Counted(list) == [p \in DOMAIN pats |-> [pats[p] EXCEPT !.refcnt = @ + Occurs(list, p)]]

\* `kept' are the elements of an argument array, if there was one: the array is
\* counted (BB_VARARG_OR_ARRAY), never released, and keeps them for ever.
bb_cma_new(op, children, name, kept) ==
    /\ left.pats > 0 /\ left' = [left EXCEPT !.pats = @ - 1]
    /\ ops' = With(ops, NewOp, op)
    /\ pats' = With(Counted(children \o kept), NewPat,
                    [type |-> op.type, op |-> NewOp, children |-> children, name |-> name,
                     refcnt |-> 1])
    /\ patRefs' = With(patRefs, NewPat, 1)
    /\ pinned' = With([p \in DOMAIN pinned |-> pinned[p] + Occurs(kept, p)], NewPat, 0)
    /\ made' = NewOp

bb_cma_leaf(op)   == bb_cma_new(op, <<>>, 0, <<>>) /\ UNCHANGED strVars
bb_cma_over(op, p) == bb_cma_new(op, <<p>>, 0, <<>>) /\ UNCHANGED strVars

bb_cma_P(t)  == bb_cma_leaf(cma_init_str(t, FALSE))
bb_cma_Pi(t) == bb_cma_leaf(cma_init_str(t, TRUE))
bb_cma_R(spec)  == bb_cma_leaf(cma_init_set(cma_set_fill_str(SubSeq(spec, 1, Min({Len(spec), 255})))))
bb_cma_S(chars) == bb_cma_leaf(cma_init_set(cma_set_fill_chrs(chars)))
bb_cma_endl  == bb_cma_leaf(cma_init_endl)

\* A count of a script as a uint32_t, of which CMA_INF is the largest.
uint32(n) == n % (CMA_INF + 1)

\* Two ops, of which the object owns the repetition: the set is never freed.
bb_cma_any(n) ==
    LET h == With(ops, NextOp, cma_init_set(cma_set_fill_range(0, 255)))
    IN  /\ left.pats > 0 /\ left' = [left EXCEPT !.pats = @ - 1]
        /\ ops' = With(h, NewOp, cma_init_rep(h, uint32(n), uint32(n), NextOp))
        /\ pats' = With(pats, NewPat, [type |-> "REP", op |-> NewOp, children |-> <<>>,
                                       name |-> 0, refcnt |-> 1])
        /\ patRefs' = With(patRefs, NewPat, 1)
        /\ pinned' = With(pinned, NewPat, 0)
        /\ made' = NewOp
        /\ UNCHANGED strVars

bb_cma_neg(p)   == bb_cma_over(cma_init_not(pats[p].op), p)
bb_cma_ahead(p) == bb_cma_over(cma_init_ahead(pats[p].op), p)
bb_cma_rep(min, max, p) ==
    bb_cma_over(cma_init_rep(ops, uint32(min), uint32(max), pats[p].op), p)

\* The name, any object, is counted by the pattern.
bb_cma_cap(p, name) ==
    /\ bb_cma_new(cma_init_cap(pats[p].op, name), <<p>>, name, <<>>)
    /\ mem' = IF name = 0 THEN mem ELSE ci_str_inc(mem, name)
    /\ UNCHANGED <<val, strRefs>>

bb_cma_build_seq(type, args, kept) ==
    /\ bb_cma_new(cma_init_seq(type, [i \in DOMAIN args |-> pats[args[i]].op]), args, 0, kept)
    /\ UNCHANGED strVars

\* A single pattern is returned as it is.
ReturnedAsIs(p, kept) ==
    /\ left.pats > 0 /\ left' = [left EXCEPT !.pats = @ - 1]
    /\ pats' = Counted(<<p>> \o kept)
    /\ patRefs' = [patRefs EXCEPT ![p] = @ + 1]
    /\ pinned' = [pinned EXCEPT ![p] = @ + Len(kept)]
    /\ made' = Null
    /\ UNCHANGED <<strVars, ops>>

\* cma.seq and cma.alt take patterns or one array of them.
bb_cma_seq(args, kept) == IF Len(args) = 1 THEN ReturnedAsIs(args[1], kept)
                          ELSE bb_cma_build_seq("AND", args, kept)
bb_cma_alt(args, kept) == IF Len(args) = 1 THEN ReturnedAsIs(args[1], kept)
                          ELSE bb_cma_build_seq("OR", args, kept)

(***************************************************************************)
(* The destructor releases the children before it frees the op and, of a   *)
(* named capture, the name.  x has the pattern objects, the ops and the    *)
(* strings.                                                                *)
(***************************************************************************)
RECURSIVE PatDec(_, _)
RECURSIVE PatDecAll(_, _)
PatDecAll(x, list) == IF list = <<>> THEN x ELSE PatDecAll(PatDec(x, Head(list)), Tail(list))
bb_cma_op_destructor(x, p) ==
    LET w == x.pats[p]
        y == PatDecAll(x, w.children)
    IN  [pats |-> Without(y.pats, p), ops |-> Without(y.ops, w.op),
         mem |-> IF w.name = 0 THEN y.mem ELSE ci_str_dec(y.mem, w.name)]
PatDec(x, p) == IF x.pats[p].refcnt = 1 THEN bb_cma_op_destructor(x, p)
                ELSE [x EXCEPT !.pats[p].refcnt = @ - 1]

DropPat(p) ==
    LET x == PatDec([pats |-> pats, ops |-> ops, mem |-> mem], p)
    IN  /\ pats' = x.pats /\ ops' = x.ops /\ mem' = x.mem
        /\ patRefs' = [q \in DOMAIN x.pats |-> IF q = p THEN patRefs[p] - 1 ELSE patRefs[q]]
        /\ pinned' = [q \in DOMAIN x.pats |-> pinned[q]]
        /\ val' = Forgotten(x.mem) /\ strRefs' = [s \in DOMAIN x.mem.strs |-> strRefs[s]]
        /\ made' = Null /\ UNCHANGED left

(***************************************************************************)
(* cma.match(pattern, string): false, true, or the captures as slices of   *)
(* the string, a named one with its name as context.  The array they come  *)
(* in is taken apart by the script, which then holds each of them.  Their  *)
(* texts are what the reference says was captured.                         *)
(***************************************************************************)
bb_cma_match(p, s) ==
    \E simd \in Simds :
      LET r    == cma_match(ops, cma_init(Text(mem, s), TRUE, simd), pats[p].op)
          caps == IF r.result < 0 THEN <<>> ELSE r.state.caps
          says == Peg(ops, val[s], pats[p].op, 0).caps
          m    == FoldLeft(LAMBDA a, c : AddSlice(a, s, c.start, c.end, ops[c.parent].name), mem, caps)
          new  == SetToSortSeq(DOMAIN m.strs \ DOMAIN mem.strs, <)
          At(t) == CHOOSE i \in DOMAIN new : new[i] = t
      IN  /\ Call /\ Cardinality(DOMAIN m.strs) <= MaxStrs
          /\ mem' = m
          /\ val' = [t \in DOMAIN m.strs |->
                        IF t \in DOMAIN val THEN val[t]
                        ELSE SubSeq(val[s], says[At(t)].start + 1, says[At(t)].end)]
          /\ strRefs' = [t \in DOMAIN m.strs |-> IF t \in DOMAIN val THEN strRefs[t] ELSE 1]
          /\ UNCHANGED patVars

MakePattern ==
    \/ \E t \in Literals : bb_cma_P(t)
    \/ \E t \in Literals : Len(t) > 1 /\ bb_cma_Pi(t)
    \/ \E t \in Specs : bb_cma_R(t)
    \/ \E t \in Specs : bb_cma_S(t)
    \/ \E n \in {0, 2} : bb_cma_any(n)
    \/ bb_cma_endl
    \/ \E p \in Pats :
        \/ bb_cma_neg(p) \/ bb_cma_ahead(p)
        \/ \E r \in Reps : bb_cma_rep(r[1], r[2], p)
        \/ \E name \in {0} \cup Strings : bb_cma_cap(p, name)
        \/ \E args \in {<<p>>} \cup {<<p, q>> : q \in Pats}, array \in BOOLEAN :
             LET kept == IF array THEN args ELSE <<>>
             IN  bb_cma_seq(args, kept) \/ bb_cma_alt(args, kept)

Next == \/ StringCall
        \/ MakePattern
        \/ \E p \in Pats : DropPat(p)
        \/ \E p \in Pats, s \in Strings : bb_cma_match(p, s)

Spec == Init /\ [][Next]_vars

(***************************************************************************)
(* Properties.                                                             *)
(***************************************************************************)
(* Objects, buffers and offsets are in order: 0 <= start <= end <= limit   *)
(* of a buffer an object owns, and the heads of everything the script      *)
(* holds exist.                                                            *)
TypeOK ==
    /\ \A s \in DOMAIN mem.strs :
         LET o == mem.strs[s]
         IN  /\ o.kind \in {"str", "readonly", "slice"} /\ o.refcnt \in 1 .. RefMax
             /\ 0 <= o.start /\ o.start <= o.end
             /\ o.kind # "slice" => o.buf \in DOMAIN mem.bufs /\ o.end <= Len(mem.bufs[o.buf])
             /\ o.parent \in DOMAIN mem.strs \cup {Null} /\ o.ctx \in DOMAIN mem.strs \cup {Null}
    /\ DOMAIN val = DOMAIN mem.strs /\ DOMAIN strRefs = DOMAIN mem.strs
    /\ \A p \in DOMAIN pats : pats[p].refcnt \in Nat \ {0} /\ ToSet(pats[p].children) \subseteq DOMAIN pats
    /\ DOMAIN patRefs = DOMAIN pats /\ DOMAIN pinned = DOMAIN pats

(* Reference counts are the number of owners, of patterns (the script, the *)
(* children arrays of other patterns, argument arrays never released) and  *)
(* of strings (the script, slices by parent and by context, named          *)
(* captures); and every op a live pattern can reach is allocated, though   *)
(* its raw pointer leads into the memory of another pattern object.        *)
OpsAlive ==
    /\ \A p \in DOMAIN pats :
         /\ Reach(ops, {pats[p].op}) \subseteq DOMAIN ops
         /\ \A q \in DOMAIN pats \ {p} : pats[q].op # pats[p].op
         /\ pats[p].refcnt = patRefs[p] + pinned[p]
                 + Cardinality({<<q, i>> \in (DOMAIN pats) \X (1 .. 2) :
                                  i \in DOMAIN pats[q].children /\ pats[q].children[i] = p})
    /\ \A s \in DOMAIN mem.strs :
         \/ mem.strs[s].refcnt = RefMax
         \/ mem.strs[s].refcnt = strRefs[s]
                 + Cardinality({t \in DOMAIN mem.strs : mem.strs[t].parent = s})
                 + Cardinality({t \in DOMAIN mem.strs : mem.strs[t].ctx = s})
                 + Cardinality({p \in DOMAIN pats : pats[p].name = s})

(* The matcher with its backtrack stack and capture array does what the    *)
(* grammar means: from any position, with other captures and saves below,  *)
(* the op made last matches exactly where Peg says, with the same end and  *)
(* the same captures and nesting; on a miss position and captures are what *)
(* they were (the contract of cma.c:13), and the stack is always as before.*)
MatchesPeg ==
    made # Null =>
    \A w \in Inputs, simd \in Simds : \A i \in 0 .. Min({Len(w), 2}) :
        LET below == <<[Unset EXCEPT !.start = 0]>>
            s0 == [cma_push(cma_init(w, TRUE, simd)) EXCEPT !.pos = i, !.caps = below]
            r  == cma_call(ops, s0, made)
            d  == Peg(ops, w, made, i)
        IN  /\ r.ok = d.ok
            /\ r.pos = IF d.ok THEN d.end ELSE i
            /\ r.caps = below \o (IF d.ok THEN d.caps ELSE <<>>)
            /\ r.stack = s0.stack

(* A matcher fed with part of the input (END_IS_MISS clear) stops with     *)
(* END_REACHED unless the rest cannot change the answer: whatever it       *)
(* decides on a prefix is what the whole input gives.  Patterns with endl, *)
(* which takes the end of the part for the end, are excepted.              *)
StreamSound ==
    made # Null /\ (\A i \in Reach(ops, {made}) : ops[i].type # "ENDL") =>
    \A w \in Inputs, simd \in Simds : \A n \in 0 .. Len(w) :
        LET part  == cma_match(ops, cma_init(SubSeq(w, 1, n), FALSE, simd), made)
            whole == cma_match(ops, cma_init(w, TRUE, simd), made)
        IN  ~Jumped(part.state) => /\ part.result = whole.result
                                   /\ part.state.caps = whole.state.caps

=============================================================================
