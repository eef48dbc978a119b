----------------------------- MODULE BbCompiler -----------------------------
(***************************************************************************)
(* The code generator of bytecode.c: it walks the AST and emits            *)
(* intermediate opcodes whose operands are boxed registers.  Boxes are     *)
(* shared: renaming a box, or materialising the deferred value it holds,   *)
(* changes opcodes that were emitted before.  Boxes are therefore kept in  *)
(* a table and named by their index (0 is NULL); an opcode holds indices.  *)
(*                                                                         *)
(* The whole compiler state is one record c.  An operator that returns a   *)
(* register as well returns [c |-> state, r |-> register]; Then feeds such *)
(* a pair to what comes next.  b_error ends the process: c.err keeps the    *)
(* first message.  Memory for registers, opcodes and scopes is never       *)
(* released, as in the code.                                               *)
(***************************************************************************)
EXTENDS Integers, Sequences, SequencesExt, TLC

CONSTANT RegLimit       \* 254: registers a function may number

INT32 == (-2147483647 - 1)..2147483647

P(c, r) == [c |-> c, r |-> r]
Then(p, F(_, _)) == F(p.c, p.r)

Error(c, msg) == IF c.err = "" THEN [c EXCEPT !.err = msg] ELSE c

(***************************************************************************)
(* Registers (b_register) and the function being compiled (b_function with *)
(* its root codeblock).                                                    *)
(***************************************************************************)
Box(num, type, val) ==
  [num |-> num, type |-> type, val |-> val, freed |-> FALSE, renamed |-> FALSE, label |-> <<"", 0>>]
b_reg_new(c, box) == P([c EXCEPT !.regs = Append(@, box)], Len(c.regs) + 1)

b_reg_is_tmp(c, r) == c.regs[r].type = "TMP"
b_reg_is_reg(c, r) == c.regs[r].type = "REG"
b_reg_is_i32(c, r) == c.regs[r].type = "INT" /\ c.regs[r].val \in INT32
b_reg_same(c, a, b) == b_reg_is_reg(c, a) /\ b_reg_is_reg(c, b) /\ c.regs[a].num = c.regs[b].num

Fn(c) == c.fns[c.fn]
NoNames == << >>
Scope(loop) == [names |-> NoNames, loop |-> loop]
Function(args) == [code |-> << >>, next |-> 0, free |-> << >>, sched |-> << >>,
                   locals |-> {}, labels |-> 0, args |-> args]

Overflow(c, n) == IF Fn(c).next + n > RegLimit THEN Error(c, "register overflow") ELSE c
Take(c, n) == [Overflow(c, n) EXCEPT !.fns[c.fn].next = @ + n]
NoLocal(c, nums) == IF nums \cap Fn(c).locals = {} THEN c ELSE Error(c, "FATAL: tmp alloc got local register")

b_reg_alloc(c) ==
  b_reg_new([Take(c, 1) EXCEPT !.fns[c.fn].locals = @ \union {Fn(c).next}], Box(Fn(c).next, "REG", 0))

(* The freelist is a stack: the highest number goes first.                 *)
b_reg_tmp__alloc_number(c) ==
  IF Fn(c).free # << >>
  THEN P(NoLocal([c EXCEPT !.fns[c.fn].free = Front(@)], {Last(Fn(c).free)}), Last(Fn(c).free))
  ELSE P(Take(c, 1), Fn(c).next)

b_reg_tmp(c) == Then(b_reg_tmp__alloc_number(c), LAMBDA d, num : b_reg_new(d, Box(num, "TMP", 0)))

(* n consecutive registers: the top of the sorted freelist when its n      *)
(* highest entries are consecutive, fresh numbers otherwise.               *)
Consecutive(nums) == \A i \in 2..Len(nums) : nums[i] = nums[i - 1] + 1
b_reg_tmp_continuous(c, n) ==
  LET free == SortSeq(Fn(c).free, <)
      keep == Len(free) - n
      top  == SubSeq(free, keep + 1, Len(free))
      reuse == keep >= 0 /\ Consecutive(top)
      sorted == [c EXCEPT !.fns[c.fn].free = IF reuse THEN SubSeq(free, 1, keep) ELSE free]
      nums == IF reuse THEN top ELSE [i \in 1..n |-> Fn(c).next + i - 1]
      d == IF reuse THEN NoLocal(sorted, ToSet(top)) ELSE Take(sorted, n)
  IN  P([d EXCEPT !.regs = @ \o [i \in 1..n |-> Box(nums[i], "TMP", 0)]],
        [i \in 1..n |-> Len(c.regs) + i])

(* A released number waits in sched_list until the next statement.         *)
b_reg_free_now(c, r) ==         \* mutant: free at once
  IF c.regs[r].freed THEN c
  ELSE [c EXCEPT !.fns[c.fn].free = Append(@, c.regs[r].num), !.regs[r].freed = TRUE]
b_reg_free(c, r) ==
  IF c.regs[r].freed THEN c
  ELSE [c EXCEPT !.fns[c.fn].sched = Append(@, c.regs[r].num), !.regs[r].freed = TRUE]
b_reg_release(c, r) == IF b_reg_is_tmp(c, r) THEN b_reg_free(c, r) ELSE c
ReleaseAll(c, rs) == FoldLeft(b_reg_release, c, rs)
b_commit_freelist(c) ==
  [c EXCEPT !.fns[c.fn].free = SortSeq(@ \o Fn(c).sched, <), !.fns[c.fn].sched = << >>]

b_reg_no_rename(c, rs) ==
  [c EXCEPT !.regs = [i \in DOMAIN @ |-> IF i \in ToSet(rs) THEN [@[i] EXCEPT !.renamed = TRUE] ELSE @[i]]]

b_reg_can_rename(c, src) == b_reg_is_tmp(c, src) /\ ~c.regs[src].renamed
b_reg_rename(c, src, dst) ==
  [b_reg_free(c, src) EXCEPT !.regs[src].num = c.regs[dst].num, !.regs[src].type = c.regs[dst].type,
                             !.regs[src].renamed = TRUE]

(***************************************************************************)
(* Scopes: the codeblocks from the function's root (first) to the current  *)
(* one (last).  Generated labels are kept out of the name tables: only      *)
(* their boxes are used.                                                   *)
(***************************************************************************)
b_codeblock_find(scope, name) == IF name \in DOMAIN scope.names THEN scope.names[name] ELSE 0
b_codeblock_get_ident(c, name) ==
  LET hits == {i \in DOMAIN c.scopes : name \in DOMAIN c.scopes[i].names}
  IN  IF hits = {} THEN 0 ELSE c.scopes[CHOOSE i \in hits : \A j \in hits : j <= i].names[name]
SetName(c, name, r) == [c EXCEPT !.scopes[Len(c.scopes)].names = (name :> r) @@ @]

b_codeblock_declare_reg(c, name, r) ==
  LET existing == b_codeblock_find(Last(c.scopes), name)
      d == [c EXCEPT !.regs[r].type = "REG", !.fns[c.fn].locals = @ \union {c.regs[r].num}]
  IN  IF existing # 0 THEN P(d, existing) ELSE P(SetName(d, name, r), r)
b_codeblock_declare(c, name) ==
  Then(b_reg_alloc(c), LAMBDA d, r : b_codeblock_declare_reg(d, name, r))

LabelBox(name, idx) == [Box(0, "LABEL", 0) EXCEPT !.label = <<name, idx>>]
(* mutant: a goto finds the box of an earlier one to the same label        *)
b_reg_label_shared(c, name) ==
  LET existing == b_codeblock_find(Last(c.scopes), name)
  IN  IF existing # 0 /\ c.regs[existing].type = "LABEL" THEN P(c, existing)
      ELSE Then(b_reg_new(c, LabelBox(name, -1)), LAMBDA d, r : P(SetName(d, name, r), r))
(* The code looks the name up first, to share the box of a label and to    *)
(* refuse a variable's name, but what it looks up is the rest of the       *)
(* source from the name on: it finds nothing.  Every label and goto gets a *)
(* box of its own, which takes the name over from any earlier one.         *)
b_reg_label(c, name) ==
  Then(b_reg_new(c, LabelBox(name, -1)), LAMBDA d, r : P(SetName(d, name, r), r))
b_ulabel_idx(c, prefix, idx) == b_reg_new(c, LabelBox(prefix, idx))
b_reg_ulabel(c, prefix) ==
  b_ulabel_idx([c EXCEPT !.fns[c.fn].labels = @ + 1], prefix, Fn(c).labels)

b_get_current_loop_id(c) ==
  LET loops == {i \in DOMAIN c.scopes : c.scopes[i].loop # 0}
  IN  IF loops = {} THEN 0 ELSE c.scopes[CHOOSE i \in loops : \A j \in loops : j <= i].loop

PushScope(c, loop) == [c EXCEPT !.scopes = Append(@, Scope(loop))]
PopScope(c) == [c EXCEPT !.scopes = Front(@)]

(* b_codeblock_new without a parent: self is register 0, _global is 255.   *)
RootScope(c) ==
  Then(b_codeblock_declare([c EXCEPT !.scopes = <<Scope(0)>>], "self"), LAMBDA d, r :
    Then(b_reg_new(d, Box(255, "REG", 0)), LAMBDA e, g : SetName(e, "_global", g)))

(* b_unit_intern_str; entry 0 of the pool is the empty string.             *)
b_unit_intern_str(c, s) ==
  IF s \in ToSet(c.strs) THEN P(c, (CHOOSE i \in DOMAIN c.strs : c.strs[i] = s) - 1)
  ELSE P([c EXCEPT !.strs = Append(@, s)], Len(c.strs))

(***************************************************************************)
(* Emit helpers.  enc is the opcode's encoding; unused fields are 0.       *)
(***************************************************************************)
Opcode(op, enc, dst, src1, src2, imm, regs) ==
  [op |-> op, enc |-> enc, dst |-> dst, src1 |-> src1, src2 |-> src2, imm |-> imm, regs |-> regs]
b_emit(c, o) == [c EXCEPT !.fns[c.fn].code = Append(@, o)]
b_emit_rrr(c, op, dst, src1, src2) == b_emit(c, Opcode(op, "RRR", dst, src1, src2, 0, << >>))
b_emit_ri64(c, op, dst, imm) == b_emit(c, Opcode(op, "RI", dst, 0, 0, imm, << >>))
b_emit_rrs(c, op, dst, src, strid) == b_emit(c, Opcode(op, "RRS", dst, src, 0, strid, << >>))
b_emit_rri32(c, op, dst, src1, imm) == b_emit(c, Opcode(op, "RRI", dst, src1, 0, imm, << >>))
b_emit_call_op(c, base, nargs, nrets) == b_emit(c, Opcode("CALL", "CALL", base, nargs, nrets, 0, << >>))
b_emit_r(c, op, dst, src) ==
  LET d == b_emit(c, Opcode(op, "R", dst, src, 0, 0, << >>))
  IN  IF src # dst THEN b_reg_release(d, src) ELSE d

(* Slot 0 of a variable opcode is taken for its destination and is not     *)
(* released; the VAR_STRID encoding releases nothing.                      *)
b_emit_var(c, op, enc, dst, regs) ==
  LET d == b_emit(c, Opcode(op, enc, dst, 0, 0, 0, regs))
  IN  IF enc = "VAR" /\ regs # << >> THEN ReleaseAll(d, Tail(regs)) ELSE d

b_emit_label(c, label) == b_emit(c, Opcode("LABEL", "R0", label, 0, 0, 0, << >>))
b_emit_jmp(c, label) == b_emit(c, Opcode("JMP", "R0", label, 0, 0, 0, << >>))
b_emit_jump_nr(c, op, cond, label) == b_emit(c, Opcode(op, "R", cond, label, 0, 0, << >>))
b_emit_jmpf(c, cond, label) == b_reg_release(b_emit_jump_nr(c, "JMPF", cond, label), cond)
b_emit_jmpt(c, cond, label) == b_reg_release(b_emit_jump_nr(c, "JMPT", cond, label), cond)

(* b_reg_reg: give a deferred value a register and load it there.          *)
BoolOps == <<"LOADNULL", "LOADTRUE", "LOADFALSE">>
Materialise(c, r, old) ==
  CASE old.type = "INT"    -> b_emit_ri64(c, "LOADINT", r, old.val)
    [] old.type = "STRING" -> b_emit_ri64(c, "LOADSTR", r, old.val)
    [] old.type = "BOOL"   -> b_emit(c, Opcode(BoolOps[old.val + 1], "R0", r, 0, 0, 0, << >>))
    [] OTHER               -> Error(c, "unknown register type")
b_reg_reg(c, r) ==
  IF c.regs[r].type \in {"TMP", "REG"} THEN c
  ELSE Then(b_reg_tmp__alloc_number(c), LAMBDA d, num :
         Materialise([d EXCEPT !.regs[r].type = "TMP", !.regs[r].num = num], r, c.regs[r]))

(* b_emit_decide: an immediate operand is folded into the opcode.          *)
b_emit_decide(c, op, dst, src1, src2) ==
  IF ~b_reg_is_i32(c, src2)
  THEN b_emit_rrr(b_reg_reg(c, src2), op, dst, src1, src2)
  ELSE IF b_reg_same(c, dst, src1) THEN b_emit_ri64(c, op, dst, c.regs[src2].val)
  ELSE b_emit_rri32(c, op, dst, src1, c.regs[src2].val)
b_emit_any(c, op, dst, src1, src2) == b_emit_decide(b_reg_reg(c, src1), op, dst, src1, src2)

(***************************************************************************)
(* Code generation, one operator per emit function of the dispatch table.  *)
(***************************************************************************)
InfixOp == [ADD |-> "ADD", SUB |-> "SUB", MUL |-> "MUL", DIV |-> "DIV", MOD |-> "MOD",
  POW |-> "POW", BIN_OR |-> "BIN_OR", BIN_AND |-> "BIN_AND", BIN_XOR |-> "BIN_XOR",
  BIN_LSHIFT |-> "BIN_LSHIFT", BIN_RSHIFT |-> "BIN_RSHIFT", EQ |-> "EQ", NEQ |-> "NEQ",
  GT |-> "GT", LT |-> "LT", GT_EQ |-> "GT_EQ", LT_EQ |-> "LT_EQ",
  METHOD_REF |-> "METHODBIND", MAPACCESS |-> "MAPACCESS"]
PrefixOp == [MINUS |-> "NEG", NOT |-> "NOT", BIN_INV |-> "BIN_INV"]
AssignOp == [ASSIGN_ADD |-> "ADD", ASSIGN_SUB |-> "SUB", ASSIGN_MUL |-> "MUL", ASSIGN_DIV |-> "DIV",
  ASSIGN_MOD |-> "MOD", ASSIGN_POW |-> "POW", ASSIGN_BIN_OR |-> "BIN_OR", ASSIGN_BIN_AND |-> "BIN_AND",
  ASSIGN_BIN_XOR |-> "BIN_XOR", ASSIGN_LSHIFT |-> "BIN_LSHIFT", ASSIGN_RSHIFT |-> "BIN_RSHIFT"]
ShortOp == [AND |-> "JMPF", OR |-> "JMPT", NOTNULL |-> "NOTNULL"]
AssignShortOp == [ASSIGN_AND |-> "JMPF", ASSIGN_OR |-> "JMPT", ASSIGN_NOTNULL |-> "NOTNULL"]
IncOp == [INC |-> "ADD", DEC |-> "SUB", POST_INC |-> "ADD", POST_DEC |-> "SUB"]
BoolCode == ("NULL_LIT" :> 0) @@ ("TRUE" :> 1) @@ ("FALSE" :> 2)

Ast(k, s, i, a) == [k |-> k, s |-> s, i |-> i, a |-> a, p |-> FALSE]
Items(n) == IF n.k = "EXPRLIST" THEN n.a ELSE <<n>>

RECURSIVE b_consume_ast(_, _), b_consume_codelist(_, _), b_emit_assign(_, _, _), b_emit_call(_, _, _)

(* Evaluate and materialise each node of a list, in order.                 *)
ConsumeEach(c, nodes) ==
  FoldLeft(LAMBDA acc, n : Then(b_consume_ast(acc.c, n), LAMBDA d, r : P(d, Append(acc.r, r))),
           P(c, << >>), nodes)
ConsumeRegs(c, nodes) ==
  FoldLeft(LAMBDA acc, n : Then(b_consume_ast(acc.c, n), LAMBDA d, r : P(b_reg_reg(d, r), Append(acc.r, r))),
           P(c, << >>), nodes)
ConsumeReg(c, n) == Then(b_consume_ast(c, n), LAMBDA d, r : P(b_reg_reg(d, r), r))

b_emit_value(c, type, val) == b_reg_new(c, Box(0, type, val))
b_emit_string_value(c, n) ==
  Then(b_unit_intern_str(c, n.s), LAMBDA d, id : b_emit_value(d, "STRING", id))

b_emit_simple_infix(c, n, op) ==
  Then(b_consume_ast(c, n.a[1]), LAMBDA c1, src1 :
  Then(b_consume_ast(c1, n.a[2]), LAMBDA c2, src2 :
  Then(b_reg_tmp(c2), LAMBDA c3, dst :
    P(ReleaseAll(b_emit_any(c3, op, dst, src1, src2), <<src1, src2>>), dst))))

b_emit_prefix(c, n, op) ==
  Then(b_consume_ast(c, n.a[1]), LAMBDA c1, src :
  Then(b_reg_tmp(c1), LAMBDA c2, dst : P(b_emit_r(b_reg_reg(c2, src), op, dst, src), dst)))

(* One step of a chain a.b.c: dst = map.key; the map is released.          *)
HashGet(c, map, key) ==
  Then(b_reg_tmp(c), LAMBDA d, dst :
    IF d.regs[key].type = "STRING"
    THEN P(b_reg_release(b_emit_rrs(b_reg_reg(d, map), "HASHACCESS", dst, map, d.regs[key].val), map), dst)
    ELSE P(ReleaseAll(b_emit_rrr(b_reg_reg(b_reg_reg(d, map), key), "HASHACCESS", dst, map, key),
                      <<key, map>>), dst))
b_emit_hashaccess(c, nodes) ==
  FoldLeft(LAMBDA acc, n : Then(b_consume_ast(acc.c, n), LAMBDA d, key : HashGet(d, acc.r, key)),
           b_consume_ast(c, Head(nodes)), Tail(nodes))

(* Returns the function and the object it was found in.                    *)
b_emit_method_hashaccess(c, nodes) ==
  Then(b_emit_hashaccess(c, Front(nodes)), LAMBDA c1, self :
  Then(b_consume_ast(b_reg_reg(c1, self), Last(nodes)), LAMBDA c2, key :
  Then(HashGet(c2, self, key), LAMBDA c3, fn : P(c3, <<fn, self>>))))

(* A map literal pushes [value, key] pairs; string keys stay deferred.     *)
b_emit_map_init(c, n) ==
  LET Pair(acc, i) ==
        Then(b_consume_ast(acc.c, n.a[2 * i - 1]), LAMBDA c1, key :
        Then(ConsumeReg(c1, n.a[2 * i]), LAMBDA c2, val : P(c2, acc.r \o <<val, key>>)))
  IN  Then(b_reg_tmp(IF Len(n.a) % 2 = 0 THEN c ELSE Error(c, "map init: need even number")), LAMBDA d, dst :
      Then(FoldLeft(Pair, P(d, <<dst>>), [i \in 1..(Len(n.a) \div 2) |-> i]), LAMBDA e, regs :
        P(b_emit_var(e, "NEWMAP", "VAR_STRID", dst, regs), dst)))

b_emit_array_init(c, n) ==
  Then(b_reg_tmp(c), LAMBDA d, dst :
  Then(ConsumeRegs(d, n.a), LAMBDA e, vals :
    P(b_emit_var(e, "NEWARRAY", "VAR", dst, <<dst>> \o vals), dst)))

b_emit_arraccess(c, n) ==
  Then(ConsumeRegs(c, n.a), LAMBDA d, r :
  Then(b_reg_tmp(d), LAMBDA e, dst :
    P(ReleaseAll(b_emit_rrr(e, "ARRACCESS", dst, r[1], r[2]), r), dst)))

(* Arguments first, then the window [fn, self, args, rets], then the       *)
(* function; MOVETO gathers them.  The return slots cannot be renamed and  *)
(* only the first is handed to the caller to release.                      *)
RegEach(c, rs) == FoldLeft(b_reg_reg, c, rs)
b_emit_moveto(c, base, rs) == b_emit_var(RegEach(c, rs), "MOVETO", "VAR", base, rs)
b_emit_movefrom(c, base, rs) == b_emit_var(RegEach(c, rs), "MOVEFROM", "VAR", base, rs)
Callee(c, n) ==
  IF n.k = "HASHACCESS" THEN b_emit_method_hashaccess(c, n.a)
  ELSE Then(b_consume_ast(c, n), LAMBDA d, fn : P(d, <<fn, fn>>))
b_emit_call(c, n, nrets) ==
  LET args == IF Len(n.a) = 2 THEN Items(n.a[2]) ELSE << >>
      nargs == Len(args)
  IN  Then(ConsumeEach(c, args), LAMBDA c1, regs :
      Then(b_reg_tmp_continuous(c1, 2 + nargs + nrets), LAMBDA c2, window :
      Then(Callee(c2, n.a[1]), LAMBDA c3, callee :
        P(b_reg_no_rename(
            ReleaseAll(b_emit_call_op(b_emit_moveto(c3, window[1], callee \o regs), window[1], nargs, nrets),
                       SubSeq(window, 1, 2 + nargs)),
            SubSeq(window, 3 + nargs, Len(window))),
          window[3 + nargs]))))

b_declare_one(c, id) ==
  IF id.k = "IDENTIFIER" THEN b_codeblock_declare(c, id.s) ELSE P(Error(c, "var expects identifier"), 1)
b_emit_declare(c, n) ==
  FoldLeft(LAMBDA acc, id : b_declare_one(acc.c, id), P(c, 0), Items(n.a[1]))

(* An undeclared name is a key of the globals map in register 255.         *)
b_lookup_global(id) ==
  Ast("HASHACCESS", "", 0, <<Ast("IDENTIFIER", "_global", 0, << >>), Ast("STRING", id.s, 0, << >>)>>)
b_emit_identifier(c, n) ==
  LET r == b_codeblock_get_ident(c, n.s)
  IN  IF r # 0 THEN P(c, r) ELSE b_consume_ast(c, b_lookup_global(n))

b_assign_one(c, dst, src) ==
  IF b_reg_can_rename(c, src) THEN b_reg_rename(c, src, dst) ELSE b_emit_r(c, "MOVE", dst, src)

b_emit_hashstore(c, nodes, src) ==
  LET Store(d, obj, key) ==
        ReleaseAll(b_emit_rrr(RegEach(d, <<obj, key, src>>), "HASHSTORE", obj, key, src), <<obj, key, src>>)
  IN  IF Len(nodes) = 2
      THEN Then(ConsumeReg(c, nodes[1]), LAMBDA c1, obj :
           Then(b_consume_ast(c1, nodes[2]), LAMBDA c2, key : Store(c2, obj, key)))
      ELSE Then(b_consume_ast(c, Last(nodes)), LAMBDA c1, key :
           Then(b_emit_hashaccess(c1, Front(nodes)), LAMBDA c2, obj : Store(c2, obj, key)))

b_emit_arraystore(c, n, src) ==
  Then(ConsumeRegs(c, n.a), LAMBDA d, r :
    ReleaseAll(b_emit_rrr(b_reg_reg(d, src), "ARRAYSTORE", r[1], r[2], src), r \o <<src>>))

(***************************************************************************)
(* Assignment.  Names are assigned as their value is computed; stores into *)
(* maps and arrays are deferred until every value is.                      *)
(***************************************************************************)
Resolve(c, lid) ==
  IF lid.k = "IDENTIFIER" /\ b_codeblock_get_ident(c, lid.s) = 0 THEN b_lookup_global(lid) ELSE lid
Assigning(c) == [c |-> c, dsts |-> << >>, last |-> 0, deferred |-> << >>]
Defer(acc, c, n, r) ==
  [acc EXCEPT !.c = c, !.dsts = Append(@, r), !.last = r, !.deferred = Append(@, [n |-> n, r |-> r])]
BadTarget(acc) == [acc EXCEPT !.c = Error(@, "assignment target must be identifier or access")]

(* The targets of the returned values of a call.                           *)
CallTarget(acc, lid, dst) ==
  CASE lid.k = "IDENTIFIER" -> [acc EXCEPT !.dsts = Append(@, dst), !.last = dst]
    [] lid.k \in {"HASHACCESS", "ARRACCESS"} ->
         Then(b_reg_tmp(acc.c), LAMBDA d, tmp : Defer(acc, d, lid, tmp))
    [] OTHER -> BadTarget(acc)
(* A call's deferred stores all go through b_emit_hashstore, which takes   *)
(* the children of an array access for a list.                             *)
CallStore(c, d) ==
  IF d.n.k = "HASHACCESS" THEN b_emit_hashstore(c, d.n.a, d.r) ELSE Error(c, "array access taken for a list")
CallStores(acc, base) ==
  P(FoldLeft(CallStore, b_emit_movefrom(acc.c, base, acc.dsts), acc.deferred), acc.last)
AssignCall(c, targets, call) ==
  Then(b_emit_call(c, call, Len(targets)), LAMBDA d, base :
    CallStores(FoldLeft(LAMBDA acc, lid :
                 CallTarget(acc, Resolve(acc.c, lid), b_codeblock_get_ident(acc.c, lid.s)),
                 Assigning(d), targets), base))

AssignTarget(acc, c, lid, dst, src) ==
  CASE lid.k = "IDENTIFIER" -> [acc EXCEPT !.c = b_assign_one(c, dst, src), !.last = dst]
    [] lid.k \in {"HASHACCESS", "ARRACCESS"} -> Defer(acc, c, lid, src)
    [] OTHER -> BadTarget(acc)
AssignEach(c, targets, values) ==
  FoldLeft(LAMBDA acc, i : Then(ConsumeReg(acc.c, values[i]), LAMBDA d, src :
             AssignTarget(acc, d, Resolve(d, targets[i]), b_codeblock_get_ident(d, targets[i].s), src)),
           Assigning(c), [i \in DOMAIN values |-> i])
(* Targets without a value: LOADNULL of locals; a global has no register.  *)
NullFill(c, targets) ==
  IF targets = << >> THEN c
  ELSE IF \A i \in DOMAIN targets : targets[i].k = "IDENTIFIER" /\ b_codeblock_get_ident(c, targets[i].s) # 0
  THEN b_emit_var(c, "LOADNULL", "VAR", 0, [i \in DOMAIN targets |-> b_codeblock_get_ident(c, targets[i].s)])
  ELSE Error(c, "null fill only for local identifiers")
Store(c, d) ==
  IF d.n.k = "HASHACCESS" THEN b_emit_hashstore(c, d.n.a, d.r) ELSE b_emit_arraystore(c, d.n, d.r)
AssignRest(acc, missing) == P(FoldLeft(Store, NullFill(acc.c, missing), acc.deferred), acc.last)
AssignValues(c, targets, values) ==
  IF Len(values) > Len(targets) THEN P(Error(c, "too many values on right side of assignment"), 1)
  ELSE AssignRest(AssignEach(c, targets, values), SubSeq(targets, Len(values) + 1, Len(targets)))

b_emit_assign(c, lhs, rhs) ==
  LET declared == IF lhs.k = "VAR" THEN b_emit_declare(c, lhs).c ELSE c
      targets == Items(IF lhs.k = "VAR" THEN lhs.a[1] ELSE lhs)
      values == Items(rhs)
  IN  IF Len(values) = 1 /\ values[1].k = "CALL" THEN AssignCall(declared, targets, values[1])
      ELSE AssignValues(declared, targets, values)

b_emit_return(c, n) ==
  Then(ConsumeRegs(c, IF n.a = << >> THEN << >> ELSE Items(n.a[1])), LAMBDA d, regs :
    P(b_emit_var(d, "RETURN", "VAR", 0, regs), 0))

(***************************************************************************)
(* Control flow.                                                           *)
(***************************************************************************)
Block(c, body, loop) == PopScope(b_consume_codelist(PushScope(c, loop), body))

ElseBody(c, n) == IF n.k = "IF" THEN b_consume_ast(c, n).c ELSE Block(c, n, 0)
b_emit_if_else(c, cond, n) ==
  Then(b_reg_ulabel(c, "_else"), LAMBDA c1, lbl_else :
  Then(b_reg_ulabel(c1, "_endif"), LAMBDA c2, lbl_end :
    P(b_emit_label(ElseBody(b_emit_label(b_emit_jmp(Block(b_emit_jmpf(c2, cond, lbl_else), n.a[2], 0), lbl_end),
                                         lbl_else), n.a[3]), lbl_end), 0)))
b_emit_if(c, n) ==
  Then(ConsumeReg(c, n.a[1]), LAMBDA d, cond :
    IF Len(n.a) = 3 THEN b_emit_if_else(d, cond, n)
    ELSE Then(b_reg_ulabel(d, "_endif"), LAMBDA e, lbl_end :
           P(b_emit_label(Block(b_emit_jmpf(e, cond, lbl_end), n.a[2], 0), lbl_end), 0)))

NewLoop(c) == P([c EXCEPT !.loops = @ + 1], c.loops + 1)
LoopLabels(c, id) ==
  Then(b_ulabel_idx(c, "wcond", id), LAMBDA c1, cond :
  Then(b_ulabel_idx(c1, "wbody", id), LAMBDA c2, body :
  Then(b_ulabel_idx(c2, "wend", id), LAMBDA c3, end :
    P(c3, [id |-> id, cond |-> cond, body |-> body, end |-> end]))))
b_emit_while(c, n) ==
  LET Body(d, l) == Block(b_emit_label(IF n.s = "do" THEN d ELSE b_emit_jmp(d, l.cond), l.body), n.a[2], l.id)
  IN  Then(NewLoop(c), LAMBDA c1, id :
      Then(LoopLabels(c1, id), LAMBDA c2, l :
      Then(ConsumeReg(b_emit_label(Body(c2, l), l.cond), n.a[1]), LAMBDA c3, cond :
        P(b_emit_label(b_emit_jmpt(c3, cond, l.body), l.end), 0))))

(* Registers: iterator, cursor and the loop variables, which become locals *)
(* of the body; the iterable is never released.                            *)
b_emit_for(c, n) ==
  LET vars == Items(n.a[1])
      Bind(d, tmps) == FoldLeft(LAMBDA e, i : b_codeblock_declare_reg(e, vars[i].s, tmps[2 + i]).c, d,
                                [i \in DOMAIN vars |-> i])
      Loop(d, l, tmps) ==
        PopScope(b_consume_codelist(
          Bind(PushScope(b_emit_label(b_emit_rri32(b_emit_label(d, l.cond), "ITERSTEP", tmps[1], l.end, Len(vars)),
                                      l.body), l.id), tmps), n.a[3]))
  IN  Then(NewLoop(c), LAMBDA c1, id :
      Then(LoopLabels(c1, id), LAMBDA c2, l :
      Then(ConsumeReg(c2, n.a[2]), LAMBDA c3, iterable :
      Then(b_reg_tmp_continuous(c3, Len(vars) + 2), LAMBDA c4, tmps :
        P(ReleaseAll(b_emit_label(b_emit_jmp(Loop(b_emit_rrr(c4, "ITERINIT", iterable, tmps[1], tmps[2]), l, tmps),
                                             l.cond), l.end), tmps), 0)))))

(* A function gets its number before its body is compiled; its name, if    *)
(* any, is then assigned like any other target.                            *)
b_emit_loadfn(c, id) == Then(b_reg_tmp(c), LAMBDA d, dst : P(b_emit_ri64(d, "LOADFN", dst, id), dst))
FunctionBody(c, n) ==
  LET params == Items(n.a[2])
      entered == RootScope([c EXCEPT !.fns = Append(@, Function(Len(params))), !.fn = Len(c.fns) + 1])
      body == b_consume_codelist(FoldLeft(LAMBDA d, id : b_declare_one(d, id).c, entered, params), n.a[3])
  IN  [body EXCEPT !.fn = c.fn, !.scopes = c.scopes]
b_emit_function(c, n) ==
  IF n.i # 0 THEN b_emit_loadfn(c, n.i)
  ELSE IF n.a[1].k = "none" THEN b_emit_loadfn(FunctionBody(c, n), Len(c.fns))
  ELSE b_emit_assign(FunctionBody(c, n), n.a[1], [n EXCEPT !.i = Len(c.fns)])

b_codegen_emit_label(c, n) == Then(b_reg_label(c, n.s), LAMBDA d, label : P(b_emit_label(d, label), label))
b_emit_goto(c, n) ==
  IF n.a[1].k # "IDENTIFIER" THEN P(Error(c, "GOTO label must be identifier"), 1)
  ELSE Then(b_reg_label(c, n.a[1].s), LAMBDA d, label : P(b_emit_jmp(d, label), label))
b_emit_leave_cond(c, prefix) == \* mutant: both go to the condition
  Then(b_ulabel_idx(c, "wcond", b_get_current_loop_id(c)), LAMBDA d, label : P(b_emit_jmp(d, label), 0))
(* break and next name the loop's label again in a box of their own.       *)
b_emit_leave(c, prefix) ==
  LET id == b_get_current_loop_id(c)
  IN  IF id = 0 THEN P(Error(c, "break outside loop"), 0)
      ELSE Then(b_ulabel_idx(c, prefix, id), LAMBDA d, label : P(b_emit_jmp(d, label), 0))

(***************************************************************************)
(* Compound assignment, increments and short circuits.                     *)
(***************************************************************************)
(* The syntax tree after a node was compiled: of a.b.f() the last name is   *)
(* popped for good.  Only the targets below are compiled again: the next    *)
(* time the call is a.b().  (A store pops its target the same way, as the   *)
(* last use of it.)                                                        *)
RECURSIVE Compiled(_)
Compiled(n) ==
  LET children == [i \in DOMAIN n.a |-> Compiled(n.a[i])]
      fn == children[1]
  IN  IF n.k = "CALL" /\ fn.k = "HASHACCESS" /\ Len(fn.a) > 2
      THEN [n EXCEPT !.a = [children EXCEPT ![1].a = Front(@)]]
      ELSE [n EXCEPT !.a = children]

LocalOf(c, n) == IF n.k = "IDENTIFIER" THEN b_codeblock_get_ident(c, n.s) ELSE 0
One == Ast("NUMBER", "", 1, << >>)
b_emit_assign_infix(c, lhs, op, rhs) ==
  LET local == LocalOf(c, lhs)
  IN  IF local = 0 THEN b_emit_assign(c, Compiled(lhs), Ast(op, "", 0, <<lhs, rhs>>))
      ELSE Then(b_consume_ast(c, rhs), LAMBDA d, src2 :
             P(b_reg_release(b_emit_any(d, op, local, local, src2), src2), local))
AddOne(c, local, op) == Then(b_emit_value(c, "INT", 1), LAMBDA d, one : b_emit_any(d, op, local, local, one))
b_emit_inc_dec(c, n, op) ==
  LET local == LocalOf(c, n.a[1])
  IN  IF local # 0 THEN P(AddOne(c, local, op), local) ELSE b_emit_assign_infix(c, n.a[1], op, One)
b_emit_post_inc_dec(c, n, op) ==
  LET local == LocalOf(c, n.a[1])
      Old(d, cur) == Then(b_reg_tmp(d), LAMBDA e, old : P(b_emit_r(e, "MOVE", old, cur), old))
  IN  IF local # 0 THEN Then(Old(c, local), LAMBDA d, old : P(AddOne(d, local, op), old))
      ELSE Then(b_consume_ast(c, n.a[1]), LAMBDA c1, cur :
           Then(Old(c1, cur), LAMBDA c2, old : P(b_emit_assign_infix(c2, Compiled(n.a[1]), op, One).c, old)))

(* Jump to the end when the left value decides.                            *)
JumpIfDecided(c, op, val, lbl_end) ==
  IF op # "NOTNULL" THEN b_emit_jump_nr(c, op, val, lbl_end)
  ELSE Then(b_reg_tmp(c), LAMBDA d, chk :
         b_emit_jmpt(b_emit_r(d, "NOTNULL", chk, val), chk, lbl_end))
b_emit_shortcircuit(c, n, op) ==
  LET Result(d, lhs) == IF b_reg_is_tmp(d, lhs) THEN P(d, lhs)
                        ELSE Then(b_reg_tmp(d), LAMBDA e, r : P(b_emit_r(e, "MOVE", r, lhs), r))
  IN  Then(b_reg_ulabel(c, "_sc"), LAMBDA c1, lbl_end :
      Then(ConsumeReg(c1, n.a[1]), LAMBDA c2, lhs :
      Then(Result(c2, lhs), LAMBDA c3, result :
      Then(ConsumeReg(JumpIfDecided(c3, op, result, lbl_end), n.a[2]), LAMBDA c4, rhs :
        P(b_reg_release(b_emit_label(b_emit_r(c4, "MOVE", result, rhs), lbl_end), rhs), result)))))
b_emit_assign_shortcircuit(c, n, op) ==
  Then(b_reg_ulabel(c, "_sc"), LAMBDA c1, lbl_end :
  Then(ConsumeReg(c1, n.a[1]), LAMBDA c2, val :
    P(b_emit_label(b_emit_assign(b_reg_release(JumpIfDecided(c2, op, val, lbl_end), val),
                                 Compiled(n.a[1]), n.a[2]).c, lbl_end), val)))

(***************************************************************************)
(* The dispatch table and the statement loop.                              *)
(***************************************************************************)
b_consume_ast(c, n) ==
  CASE n.k = "NUMBER"     -> b_emit_value(c, "INT", n.i)
    [] n.k = "STRING"     -> b_emit_string_value(c, n)
    [] n.k = "IDENTIFIER" -> b_emit_identifier(c, n)
    [] n.k \in DOMAIN BoolCode -> b_emit_value(c, "BOOL", BoolCode[n.k])
    [] n.k \in DOMAIN InfixOp  -> b_emit_simple_infix(c, n, InfixOp[n.k])
    [] n.k \in DOMAIN PrefixOp -> b_emit_prefix(c, n, PrefixOp[n.k])
    [] n.k \in DOMAIN ShortOp  -> b_emit_shortcircuit(c, n, ShortOp[n.k])
    [] n.k \in DOMAIN AssignOp -> b_emit_assign_infix(c, n.a[1], AssignOp[n.k], n.a[2])
    [] n.k \in DOMAIN AssignShortOp -> b_emit_assign_shortcircuit(c, n, AssignShortOp[n.k])
    [] n.k \in {"INC", "DEC"} -> b_emit_inc_dec(c, n, IncOp[n.k])
    [] n.k \in {"POST_INC", "POST_DEC"} -> b_emit_post_inc_dec(c, n, IncOp[n.k])
    [] n.k = "ASSIGN"     -> b_emit_assign(c, n.a[1], n.a[2])
    [] n.k = "VAR"        -> b_emit_declare(c, n)
    [] n.k = "HASHACCESS" -> b_emit_hashaccess(c, n.a)
    [] n.k = "ARRACCESS"  -> b_emit_arraccess(c, n)
    [] n.k = "MAP_INIT"   -> b_emit_map_init(c, n)
    [] n.k = "ARRAY_INIT" -> b_emit_array_init(c, n)
    [] n.k = "CALL"       -> b_emit_call(c, n, 1)
    [] n.k = "FUNCTION"   -> b_emit_function(c, n)
    [] n.k = "RETURN"     -> b_emit_return(c, n)
    [] n.k = "IF"         -> b_emit_if(c, n)
    [] n.k = "LOOP"       -> b_emit_while(c, n)
    [] n.k = "FOR_LOOP"   -> b_emit_for(c, n)
    [] n.k = "LABEL"      -> b_codegen_emit_label(c, n)
    [] n.k = "GOTO"       -> b_emit_goto(c, n)
    [] n.k = "BREAK"      -> b_emit_leave(c, "wend")
    [] n.k = "NEXT"       -> b_emit_leave(c, "wcond")
    [] OTHER              -> P(Error(c, "unhandled AST node type"), 1)

ReleasePrev(c, prev) == IF prev = 0 THEN c ELSE b_reg_release(c, prev)
Statement(acc, n) ==
  IF acc.c.err # "" THEN acc ELSE b_consume_ast(b_commit_freelist(ReleasePrev(acc.c, acc.r)), n)
b_consume_codelist(c, block) ==
  Then(FoldLeft(Statement, P(c, 0), block.a), ReleasePrev)

(* b_encode: deferred values left in operand lists are loaded ahead of     *)
(* the opcode; string keys of map literals stay.                           *)
EncodeOp(c, o) ==
  LET Arg(d, r) == IF o.enc = "VAR_STRID" /\ d.regs[r].type = "STRING" THEN d ELSE b_reg_reg(d, r)
  IN  IF c.err # "" THEN c
      ELSE b_emit(IF o.enc \in {"VAR", "VAR_STRID"} THEN FoldLeft(Arg, c, o.regs) ELSE c, o)
b_encode(c, fn) ==
  LET d == [c EXCEPT !.fn = fn]
  IN  FoldLeft(EncodeOp, [d EXCEPT !.fns[fn].code = << >>], d.fns[fn].code)

(* The codegen part of bb_compile_ci_file: function 0 is the main program. *)
EmptyUnit == [fns |-> <<Function(0)>>, fn |-> 1, scopes |-> << >>, regs |-> << >>,
              strs |-> <<"">>, loops |-> 0, err |-> ""]
bb_codegen(block) ==
  LET c == b_consume_codelist(RootScope(EmptyUnit), block)
  IN  FoldLeft(b_encode, c, [i \in DOMAIN c.fns |-> i])
=============================================================================
