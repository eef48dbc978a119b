-------------------------------- MODULE BbVM --------------------------------
(***************************************************************************)
(* The virtual machine: blueberry.c, blueberry_vm/advanced_opcodes.c,      *)
(* opcodes.c and coro.c running the loaded unit on one coroutine, with     *)
(* the reference counts of ciobj.h.  One action per opcode handler.        *)
(*                                                                         *)
(* A value is a record [t, v, s]: null, int, bool, str (interned, so equal *)
(* by content) or obj, the index of an object in the heap.  Arrays and     *)
(* maps are sequences (their layout is the business of CiArray and CiMap); *)
(* where a new key goes in the iteration order of a map is left open.      *)
(***************************************************************************)
EXTENDS Integers, Sequences, SequencesExt, FiniteSets, TLC, Bitwise

CONSTANTS RefMax,       \* 0xFFFF: a count that is never touched again
          FrameCap,     \* bb_coro.fstack_cap (32)
          Bit17         \* values bit 17 of a malloc'ed function's address may have

VARIABLES unit,         \* bb_unit: [strs, fns]; a function is [args, regs, ops]
          heap,         \* the objects ever allocated
          frames,       \* bb_coro.fstack; the first frame receives the program's results
          out,          \* what print printed
          status        \* "idle", "run", "done" or the error that ended the process
vmvars == <<unit, heap, frames, out, status>>

Val(t, v, s) == [t |-> t, v |-> v, s |-> s]
Null == Val("null", 0, "")
CI_PACKINT(n) == Val("int", n, "")
Str(s) == Val("str", 0, s)
CI_BOOL(b) == Val("bool", IF b THEN 1 ELSE 0, "")
Ref(id) == Val("obj", id, "")
IsInt(v) == v.t = "int"
IsObj(v, h, t) == v.t = "obj" /\ h[v.v].t = t
(* CI_IS_FALSY: null, the packed 0 and false are the pointers up to 2.     *)
CI_IS_FALSY(v) == v \in {Null, CI_PACKINT(0), CI_BOOL(FALSE)}

(***************************************************************************)
(* Objects.  keys and vals are the counted references an object holds: a   *)
(* closure holds <<function, self>>.  A function is malloc'ed: n is its    *)
(* number, s the name of a native one.  The ci_inc of the default build    *)
(* (CI_ASM_REFCNT) looks at bit 17 of the address, which is set in every   *)
(* arena of counted objects and arbitrary for malloc; ci_dec does not look.*)
(***************************************************************************)
Object(t, keys, vals) == [t |-> t, rc |-> 1, keys |-> keys, vals |-> vals, n |-> 0, s |-> "", bit17 |-> TRUE]
FnObject(n, s, bit) == [Object("fn", << >>, << >>) EXCEPT !.n = n, !.s = s, !.bit17 = bit]
Closure(fn, self) == Object("closure", << >>, <<fn, self>>)
Globals == Ref(1)

ci_inc(h, v) ==
  IF v.t = "obj" /\ h[v.v].bit17 /\ h[v.v].rc # RefMax THEN [h EXCEPT ![v.v].rc = @ + 1] ELSE h
RECURSIVE ci_dec(_, _)
ci_free(h, id) == FoldLeft(ci_dec, [h EXCEPT ![id].t = "freed", ![id].rc = 0], h[id].keys \o h[id].vals)
ci_dec(h, v) ==
  IF v.t # "obj" \/ h[v.v].rc = RefMax \/ h[v.v].t = "freed" THEN h
  ELSE IF h[v.v].rc = 1 THEN ci_free(h, v.v)
  ELSE [h EXCEPT ![v.v].rc = @ - 1]
ci_inc_multi(h, vs) == FoldLeft(ci_inc, h, vs)

(***************************************************************************)
(* The running frame.  regs is as long as the function's register count;   *)
(* register 255 holds the globals.                                         *)
(***************************************************************************)
Depth == Len(frames)
Top == frames[Depth]
FnOf(frame, h) == h[h[frame.cl].vals[1].v]
Cur == unit.fns[FnOf(Top, heap).n].ops[Top.pc]
At(regs, r) == IF r = 255 THEN Globals ELSE regs[r]
R(r) == At(Top.regs, r)

Running(ops) == status = "run" /\ Cur.op \in ops
bb_coro_error(msg) == status' = msg /\ UNCHANGED <<unit, heap, frames, out>>
Jump(target) == [frames EXCEPT ![Depth].pc = target + 1]
Continue(h, regs) ==
  /\ heap' = h
  /\ frames' = [frames EXCEPT ![Depth].regs = regs, ![Depth].pc = @ + 1]
  /\ UNCHANGED <<unit, out, status>>

(* A pair of heap and registers; VM_OP_SET_STACK releases the old value.   *)
On(h, regs) == [h |-> h, r |-> regs]
SetStack(p, a, v) == On(ci_dec(p.h, p.r[a]), [p.r EXCEPT ![a] = v])
(* MOVETO and MOVEFROM: take a reference, unless it is the same register.  *)
Copy(p, dst, src) ==
  IF dst = src THEN p ELSE SetStack(On(ci_inc(p.h, At(p.r, src)), p.r), dst, At(p.r, src))
Finish(p) == Continue(p.h, p.r)
VM_OP_SET_STACK(h, a, v) == Finish(SetStack(On(h, Top.regs), a, v))
(* BB_RETURN into a register.                                              *)
SetShared(a, v) == VM_OP_SET_STACK(ci_inc(heap, v), a, v)
Alloc(h, o) == Append(h, o)
Newest(h) == Ref(Len(h))

(***************************************************************************)
(* opcodes.c: integers only; other operands go to the metamethods of       *)
(* strings and numbers, which are not modelled (a map or null has none).   *)
(***************************************************************************)
Abs(a) == IF a < 0 THEN -a ELSE a
bb_op_div(a, b) ==
  LET q == Abs(a) \div Abs(b) IN IF (a < 0) = (b < 0) THEN q ELSE -q
Floating(s) == Val("float", 0, s)
Compare(op, a, b) ==
  CASE op = "GT" -> a > b [] op = "LT" -> a < b [] op = "GT_EQ" -> a >= b [] op = "LT_EQ" -> a <= b
Arith(op, a, b) ==
  CASE op = "ADD" -> CI_PACKINT(a + b)
    [] op = "SUB" -> CI_PACKINT(a - b)
    [] op = "MUL" -> CI_PACKINT(a * b)
    [] op = "DIV" -> IF b # 0 THEN CI_PACKINT(bb_op_div(a, b)) ELSE Floating(IF a < 0 THEN "-inf" ELSE "inf")
    [] op = "MOD" -> IF b # 0 THEN CI_PACKINT(a - b * bb_op_div(a, b)) ELSE Floating("nan")
    [] op = "POW" -> CI_PACKINT(a ^ b)
    [] op = "BIN_OR"  -> CI_PACKINT(a | b)
    [] op = "BIN_AND" -> CI_PACKINT(a & b)
    [] op = "BIN_XOR" -> CI_PACKINT(a ^^ b)
    [] op = "BIN_LSHIFT" -> CI_PACKINT(a * 2 ^ b)
    [] op = "BIN_RSHIFT" -> CI_PACKINT(a \div 2 ^ b)
    [] OTHER -> CI_BOOL(Compare(op, a, b))
IntOps == {"ADD", "SUB", "MUL", "DIV", "MOD", "POW", "BIN_OR", "BIN_AND", "BIN_XOR",
           "BIN_LSHIFT", "BIN_RSHIFT", "GT", "LT", "GT_EQ", "LT_EQ"}
(* RRR and RRI differ in where the second operand comes from.              *)
Operand2 == IF Cur.sub = 1 THEN CI_PACKINT(Cur.c) ELSE R(Cur.c)
OpInfix ==
  /\ Running(IntOps)
  /\ IF IsInt(R(Cur.b)) /\ IsInt(Operand2)
     THEN VM_OP_SET_STACK(heap, Cur.a, Arith(Cur.op, R(Cur.b).v, Operand2.v))
     ELSE bb_coro_error("type error")
OpEqual ==
  /\ Running({"EQ", "NEQ"})
  /\ VM_OP_SET_STACK(heap, Cur.a, CI_BOOL((R(Cur.b) = Operand2) = (Cur.op = "EQ")))
OpNegate ==
  /\ Running({"NEG", "BIN_INV"})
  /\ IF IsInt(R(Cur.b))
     THEN VM_OP_SET_STACK(heap, Cur.a, CI_PACKINT(IF Cur.op = "NEG" THEN -R(Cur.b).v ELSE -R(Cur.b).v - 1))
     ELSE bb_coro_error("type error")
OpTest ==
  /\ Running({"NOT", "NOTNULL"})
  /\ VM_OP_SET_STACK(heap, Cur.a,
       CI_BOOL(IF Cur.op = "NOT" THEN CI_IS_FALSY(R(Cur.b)) ELSE R(Cur.b) # Null))

(***************************************************************************)
(* Loads, moves and jumps.                                                 *)
(***************************************************************************)
Constant(o) == CASE o.op = "LOADINT" -> CI_PACKINT(o.c)
                 [] o.op = "LOADSTR" -> Str(unit.strs[o.c + 1])
                 [] o.op = "LOADNULL" -> Null
                 [] o.op = "LOADTRUE" -> CI_BOOL(TRUE)
                 [] o.op = "LOADFALSE" -> CI_BOOL(FALSE)
OpLoad ==
  /\ Running({"LOADINT", "LOADSTR", "LOADNULL", "LOADTRUE", "LOADFALSE"}) /\ Cur.sub # 3
  /\ VM_OP_SET_STACK(heap, Cur.a, Constant(Cur))
OpLoadNullVar ==
  /\ Running({"LOADNULL"}) /\ Cur.sub = 3
  /\ Finish(FoldLeft(LAMBDA p, r : SetStack(p, r, Null), On(heap, Top.regs), SubSeq(Cur.list, 1, Cur.a)))
(* The functions of the unit follow the natives in the heap.               *)
FnRef(n) == Ref(CHOOSE id \in DOMAIN heap : heap[id].n = n /\ heap[id].t \in {"fn", "freed"})
OpLoadFnUncounted ==            \* mutant
  /\ Running({"LOADFN"})
  /\ LET h == Alloc(heap, Closure(FnRef(Cur.c + 1), Null)) IN VM_OP_SET_STACK(h, Cur.a, Newest(h))
OpLoadFn ==
  /\ Running({"LOADFN"})
  /\ LET h == Alloc(ci_inc(heap, FnRef(Cur.c + 1)), Closure(FnRef(Cur.c + 1), Null))
     IN  VM_OP_SET_STACK(h, Cur.a, Newest(h))
OpMove == Running({"MOVE"}) /\ SetShared(Cur.a, R(Cur.b))
JumpTaken == \/ Cur.op = "JMP"
             \/ Cur.op = "JMPF" /\ CI_IS_FALSY(R(Cur.a))
             \/ Cur.op = "JMPT" /\ ~CI_IS_FALSY(R(Cur.a))
OpJump ==
  /\ Running({"JMP", "JMPF", "JMPT"})
  /\ frames' = IF JumpTaken THEN Jump(Cur.c) ELSE Jump(Top.pc)
  /\ UNCHANGED <<unit, heap, out, status>>
OpMoveTo ==
  /\ Running({"MOVETO"})
  /\ Finish(FoldLeft(LAMBDA p, i : Copy(p, Cur.a + i - 1, Cur.list[i]), On(heap, Top.regs),
                     [i \in 1..Cur.b |-> i]))
OpMoveFrom ==
  /\ Running({"MOVEFROM"})
  /\ Finish(FoldLeft(LAMBDA p, i : Copy(p, Cur.list[i], Cur.a + i - 1), On(heap, Top.regs),
                     [i \in 1..Cur.b |-> i]))

(***************************************************************************)
(* Maps and arrays.                                                        *)
(***************************************************************************)
Index(o, key) == {i \in DOMAIN o.keys : o.keys[i] = key}
(* bb_proto_find: only maps have entries here; prototypes are not modelled.*)
bb_proto_find(obj, key) ==
  IF IsObj(obj, heap, "map") /\ Index(heap[obj.v], key) # {}
  THEN heap[obj.v].vals[CHOOSE i \in Index(heap[obj.v], key) : TRUE]
  ELSE Null
(* ci_map_put of an existing key forgets the old value without releasing   *)
(* it; a new key lands at position pos of the iteration order.             *)
ci_map_put(o, key, val, pos) ==
  IF Index(o, key) # {} THEN [o EXCEPT !.vals[CHOOSE i \in Index(o, key) : TRUE] = val]
  ELSE [o EXCEPT !.keys = InsertAt(@, pos, key), !.vals = InsertAt(@, pos, val)]
Positions(id) == IF id = Globals.v THEN {Len(heap[id].keys) + 1} ELSE 1..(Len(heap[id].keys) + 1)

Key(o) == IF o.sub = 2 THEN Str(unit.strs[o.c + 1]) ELSE R(o.c)
OpHashAccess == Running({"HASHACCESS"}) /\ SetShared(Cur.a, bb_proto_find(R(Cur.b), Key(Cur)))
OpMapAccess ==
  /\ Running({"MAPACCESS"})
  /\ IF IsObj(R(Cur.b), heap, "map") THEN SetShared(Cur.a, bb_proto_find(R(Cur.b), Key(Cur)))
     ELSE bb_coro_error("operand is not a map")
(* The bound closure takes over the function's pointer without a count.    *)
OpMethodBind ==
  /\ Running({"METHODBIND"})
  /\ LET method == bb_proto_find(R(Cur.b), Key(Cur))
         h == Alloc(ci_inc(heap, R(Cur.b)), Closure(heap[method.v].vals[1], R(Cur.b)))
     IN  IF IsObj(method, heap, "closure") THEN VM_OP_SET_STACK(h, Cur.a, Newest(h))
         ELSE bb_coro_error("method not found")
bb_op_hashstore(map, key, val) ==
  \E pos \in Positions(map.v) :
    Continue([ci_inc_multi(heap, <<key, val>>) EXCEPT ![map.v] = ci_map_put(@, key, val, pos)], Top.regs)
OpHashStore ==
  /\ Running({"HASHSTORE"})
  /\ IF IsObj(R(Cur.a), heap, "map") THEN bb_op_hashstore(R(Cur.a), R(Cur.b), R(Cur.c))
     ELSE bb_coro_error("operand is not a map")

(* ci_arr_wrapindex: a negative index counts from the end.                 *)
WrapIndex(len, i) == IF i >= 0 THEN i ELSE IF len + i < 0 THEN len ELSE len + i
Extended(vals, len) == vals \o [i \in 1..(len - Len(vals)) |-> Null]
ArrayGet(arr, idx) ==
  LET i == WrapIndex(Len(heap[arr.v].vals), idx.v)
  IN  IF i < Len(heap[arr.v].vals) THEN heap[arr.v].vals[i + 1] ELSE Null
OpArrAccess ==
  /\ Running({"ARRACCESS"})
  /\ \/ IsObj(R(Cur.b), heap, "map") /\ SetShared(Cur.a, bb_proto_find(R(Cur.b), R(Cur.c)))
     \/ /\ IsObj(R(Cur.b), heap, "array") /\ IsInt(R(Cur.c))
        /\ SetShared(Cur.a, ArrayGet(R(Cur.b), R(Cur.c)))
     \/ /\ ~IsObj(R(Cur.b), heap, "map") /\ ~(IsObj(R(Cur.b), heap, "array") /\ IsInt(R(Cur.c)))
        /\ bb_coro_error("bad array access")
ArraySet(arr, idx, val) ==
  LET i == WrapIndex(Len(heap[arr.v].vals), idx.v) + 1
      grown == IF i > Len(heap[arr.v].vals) THEN [heap EXCEPT ![arr.v].vals = Extended(@, i)] ELSE heap
      h == ci_inc(grown, val)
      released == ci_dec(h, grown[arr.v].vals[i])
  IN  Continue([released EXCEPT ![arr.v].vals[i] = val], Top.regs)
OpArrayStore ==
  /\ Running({"ARRAYSTORE"})
  /\ \/ IsObj(R(Cur.a), heap, "map") /\ bb_op_hashstore(R(Cur.a), R(Cur.b), R(Cur.c))
     \/ IsObj(R(Cur.a), heap, "array") /\ IsInt(R(Cur.b)) /\ ArraySet(R(Cur.a), R(Cur.b), R(Cur.c))
     \/ /\ ~IsObj(R(Cur.a), heap, "map") /\ ~(IsObj(R(Cur.a), heap, "array") /\ IsInt(R(Cur.b)))
        /\ bb_coro_error("bad array store")

(* The key of pair p of a map literal.                                     *)
PairKey(list, p) ==
  IF list[4 * p - 3] = 0 THEN Str(unit.strs[list[4 * p - 1] + 256 * list[4 * p] + 1]) ELSE R(list[4 * p - 1])
OpNewMap ==
  /\ Running({"NEWMAP"})
  /\ LET Pair(p) == [k |-> PairKey(Cur.list, p), v |-> R(Cur.list[4 * p - 2])]
         Put(o, pr) == ci_map_put(o, pr.k, pr.v, Len(o.keys) + 1)
         pairs == [p \in 1..Cur.b |-> Pair(p)]
         h == ci_inc_multi(heap, [p \in 1..Cur.b |-> pairs[p].v])
         made == FoldLeft(Put, Object("map", << >>, << >>), pairs)
         Reorder(perm) == [made EXCEPT !.keys = [i \in DOMAIN @ |-> @[perm[i]]], !.vals = [i \in DOMAIN @ |-> @[perm[i]]]]
     IN  \E perm \in Permutations(DOMAIN made.keys) :
           VM_OP_SET_STACK(Alloc(h, Reorder(perm)), Cur.a, Ref(Len(heap) + 1))
OpNewArray ==
  /\ Running({"NEWARRAY"})
  /\ LET vals == [i \in 1..Cur.b |-> R(Cur.list[i])]
     IN  VM_OP_SET_STACK(Alloc(ci_inc_multi(heap, vals), Object("array", << >>, vals)), Cur.a, Ref(Len(heap) + 1))

(* Iteration: registers a.. hold iterator, cursor and the loop variables.  *)
OpIterInit ==
  /\ Running({"ITERINIT"})
  /\ Finish(SetStack(Copy(On(heap, Top.regs), Cur.b, Cur.a), Cur.c, CI_PACKINT(0)))
Entry(o, i) == IF o.t = "array" THEN <<CI_PACKINT(i - 1), o.vals[i]>> ELSE <<o.keys[i], o.vals[i]>>
SetVarUncounted(p, a, v) == SetStack(p, a, v)        \* mutant
SetVar(p, a, v) == SetStack(On(ci_inc(p.h, v), p.r), a, v)
OpIterStep ==
  /\ Running({"ITERSTEP"})
  /\ LET it == R(Cur.a)
         i == R(Cur.a + 1).v + 1
         vars == [k \in 1..Cur.b |-> k]
         Bind(p, k) == IF k <= 2 THEN SetVar(p, Cur.a + 1 + k, Entry(heap[it.v], i)[k]) ELSE p
     IN  \/ /\ IsObj(it, heap, "array") \/ IsObj(it, heap, "map")
            /\ i <= Len(heap[it.v].vals)
            /\ Finish(SetStack(FoldLeft(Bind, On(heap, Top.regs), vars), Cur.a + 1, CI_PACKINT(i)))
         \/ /\ IsObj(it, heap, "array") \/ IsObj(it, heap, "map")
            /\ i > Len(heap[it.v].vals)
            /\ frames' = Jump(Cur.c) /\ UNCHANGED <<unit, heap, out, status>>
         \/ ~IsObj(it, heap, "array") /\ ~IsObj(it, heap, "map") /\ bb_coro_error("not iterable")

(***************************************************************************)
(* Calls.  The window at register a is [fn, self, args, rets].             *)
(***************************************************************************)
Window(k) == R(Cur.a + k)
Args == [i \in 1..Cur.b |-> Window(1 + i)]
RetBase(op) == op.a + 1 + op.b
RetSlots == [i \in 1..Cur.c |-> RetBase(Cur) + i]
ReleaseRets(p, n) == FoldLeft(LAMBDA q, r : SetStack(q, r, Null), p, SubSeq(RetSlots, n + 1, Cur.c))
OpCallNothing ==
  /\ Running({"CALL"}) /\ ~IsObj(Window(0), heap, "closure")
  /\ bb_coro_error(IF Window(0) = Null THEN "nil callee" ELSE "callee not closure")

(* Natives with variable results write them into the window without        *)
(* looking at what the slot held; the slots they leave are released.       *)
Callee == heap[Window(0).v]
CalleeFn == heap[Callee.vals[1].v]
NativeResults(name) ==
  CASE name = "print" -> << >>
    [] name = "varrets_example" -> <<CI_PACKINT(10), CI_PACKINT(20), CI_PACKINT(30)>>
    [] name = "varrets_return" ->
         LET a == IF Args # << >> THEN Args[1].v ELSE 0 IN <<CI_PACKINT(a), CI_PACKINT(a + 1), CI_PACKINT(a + 2)>>
OpCallNative ==
  /\ Running({"CALL"}) /\ IsObj(Window(0), heap, "closure") /\ CalleeFn.s # ""
  /\ LET rets == NativeResults(CalleeFn.s)
         n == IF Len(rets) < Cur.c THEN Len(rets) ELSE Cur.c
         regs == FoldLeft(LAMBDA r, i : [r EXCEPT ![RetSlots[i]] = rets[i]], Top.regs, [i \in 1..n |-> i])
         p == ReleaseRets(On(heap, regs), n)
     IN  /\ heap' = p.h
         /\ frames' = [frames EXCEPT ![Depth].regs = p.r, ![Depth].pc = @ + 1]
         /\ out' = IF CalleeFn.s = "print" THEN Append(out, Args) ELSE out
         /\ UNCHANGED <<unit, status>>

(* bb_coro_pushcall: registers start as null; self and the arguments the   *)
(* function declares are shared with the caller.                           *)
Frame(cl, regs) == [cl |-> cl, pc |-> 1, regs |-> regs]
OpCall ==
  /\ Running({"CALL"}) /\ IsObj(Window(0), heap, "closure") /\ CalleeFn.s = ""
  /\ LET fn == unit.fns[CalleeFn.n]
         self == IF Callee.vals[2] # Null THEN Callee.vals[2] ELSE Window(1)
         n == IF Cur.b < fn.args THEN Cur.b ELSE fn.args
         vals == <<self>> \o SubSeq(Args, 1, n)
         regs == [r \in 0..(fn.regs - 1) |-> IF r < Len(vals) THEN vals[r + 1] ELSE Null]
         p == ReleaseRets(On(ci_inc_multi(heap, vals), Top.regs), 0)
     IN  IF Depth >= FrameCap THEN bb_coro_error("frame stack overflow")
         ELSE /\ heap' = p.h
              /\ frames' = Append([frames EXCEPT ![Depth].regs = p.r, ![Depth].pc = @ + 1],
                                  Frame(Window(0).v, regs))
              /\ UNCHANGED <<unit, out, status>>

(* RETURN moves the results out of the frame, a register at a time, so a   *)
(* register named twice is null the second time; then every register is    *)
(* released and the frame popped.                                          *)
MoveOut(p, r) == [vals |-> Append(p.vals, p.regs[r]), regs |-> [p.regs EXCEPT ![r] = Null]]
Returned(n) == FoldLeft(MoveOut, [vals |-> << >>, regs |-> Top.regs], SubSeq(Cur.list, 1, n))
ReleaseFrame(regs) == FoldLeft(ci_dec, heap, [i \in 1..Cardinality(DOMAIN regs) |-> regs[i - 1]])
OpReturnDone ==
  /\ Running({"RETURN"}) /\ Depth = 2
  /\ LET p == Returned(Cur.a)
     IN  /\ heap' = ReleaseFrame(p.regs)
         /\ frames' = <<Frame(0, [i \in 0..Len(p.vals) |-> IF i = 0 THEN CI_PACKINT(Cur.a) ELSE p.vals[i]])>>
         /\ status' = "done"
         /\ UNCHANGED <<unit, out>>
OpReturn ==
  /\ Running({"RETURN"}) /\ Depth > 2
  /\ LET caller == frames[Depth - 1]
         call == unit.fns[FnOf(caller, heap).n].ops[caller.pc - 1]
         p == Returned(IF call.c < Cur.a THEN call.c ELSE Cur.a)
         regs == FoldLeft(LAMBDA r, i : [r EXCEPT ![RetBase(call) + i] = p.vals[i]], caller.regs, [i \in DOMAIN p.vals |-> i])
     IN  /\ heap' = ReleaseFrame(p.regs)
         /\ frames' = Append(SubSeq(frames, 1, Depth - 2), [caller EXCEPT !.regs = regs])
         /\ UNCHANGED <<unit, out, status>>

(***************************************************************************)
(* bb_vm_new with the natives, bb_vm_loadbytecode and the start of main: a *)
(* closure for function 0 that its own register 0 owns.                    *)
(***************************************************************************)
Natives == <<"print", "varrets_example", "varrets_return">>
NativeObjects(bit) == FlattenSeq([i \in DOMAIN Natives |->
                        <<FnObject(0, Natives[i], bit), Closure(Ref(2 * i), Null)>>])
GlobalMap == [Object("map", [i \in DOMAIN Natives |-> Str(Natives[i])],
                            [i \in DOMAIN Natives |-> Ref(2 * i + 1)]) EXCEPT !.rc = RefMax]
Loaded(u, bit) == <<GlobalMap>> \o NativeObjects(bit) \o [f \in DOMAIN u.fns |-> FnObject(f, "", bit)]
MainFn == 2 + 2 * Len(Natives)
Boot(u) ==
  \E bit \in Bit17 :
    LET h == Alloc(ci_inc(Loaded(u, bit), Ref(MainFn)), Closure(Ref(MainFn), Null))
    IN  /\ unit' = u /\ heap' = h
        /\ frames' = <<Frame(0, [i \in 0..0 |-> Null]),
                       Frame(Len(h), [r \in 0..(u.fns[1].regs - 1) |-> IF r = 0 THEN Newest(h) ELSE Null])>>
        /\ status' = "run" /\ out' = << >>

(* __vmop_opcode_error: what the decoder puts for an opcode it does not know. *)
OpError == Running({"error"}) /\ bb_coro_error("no opcode")

VMNext ==
  \/ OpError \/ OpInfix \/ OpEqual \/ OpNegate \/ OpTest \/ OpLoad \/ OpLoadNullVar \/ OpLoadFn \/ OpMove \/ OpJump
  \/ OpMoveTo \/ OpMoveFrom \/ OpHashAccess \/ OpMapAccess \/ OpMethodBind \/ OpHashStore \/ OpArrAccess
  \/ OpArrayStore \/ OpNewMap \/ OpNewArray \/ OpIterInit \/ OpIterStep
  \/ OpCallNothing \/ OpCallNative \/ OpCall \/ OpReturnDone \/ OpReturn

-----------------------------------------------------------------------------
(***************************************************************************)
(* Properties.                                                             *)
(***************************************************************************)
(* Who holds a counted reference to object id: registers and live objects. *)
InRegs(id) ==
  UNION {{<<f, r>> : r \in {r \in DOMAIN frames[f].regs : frames[f].regs[r] = Ref(id)}} : f \in DOMAIN frames}
Held(o) == IF o.t = "freed" THEN << >> ELSE o.keys \o o.vals
InHeap(id) ==
  UNION {{<<o, i>> : i \in {i \in DOMAIN Held(heap[o]) : Held(heap[o])[i] = Ref(id)}} : o \in DOMAIN heap}
Owners(id) == Cardinality(InRegs(id)) + Cardinality(InHeap(id))
IsFunction(o) == o.n > 0 \/ o.s # ""

(* Rules 2 to 5 of refcounter.md, over every opcode handler: no array, map *)
(* or closure is counted below the places that hold it, so none is freed   *)
(* while a register, a container or a frame still refers to it.            *)
RefSafe ==
  status = "run" =>
    /\ \A id \in DOMAIN heap : IsFunction(heap[id]) \/ heap[id].rc >= Owners(id)
    /\ \A f \in 2..Depth : heap[frames[f].cl].t = "closure"

(* The same for the functions of the unit, which the unit itself holds to  *)
(* the end: no closure's death takes the function with it.                 *)
FunctionsLive == status = "run" => \A id \in DOMAIN heap : IsFunction(heap[id]) => heap[id].t = "fn"
=============================================================================
