----------------------------- MODULE BbEncoder ------------------------------
(***************************************************************************)
(* From intermediate opcodes to a byte image and back: the function        *)
(* encoder of encoder.c, the loader of bytecode_load.c and the decoder     *)
(* bb_build_cached of blueberry.c.  Code is a sequence of bytes, because   *)
(* jump targets are patched by byte offset and the decoder finds the next  *)
(* instruction by the sizes it reads.  The unit header is a record with    *)
(* the widths of the file's fields; the bytes of strings are left out.     *)
(***************************************************************************)
EXTENDS BbCompiler

B_OPCODES == <<"LOADINT", "LOADDOUBLE", "LOADSTR", "LOADNULL", "LOADTRUE", "LOADFALSE",
  "MOVE", "HASHACCESS", "MAPACCESS", "METHODBIND", "HASHSTORE", "ARRAYSTORE", "ARRACCESS",
  "NEWMAP", "NEWARRAY", "CALL", "ADD", "SUB", "MUL", "DIV", "MOD", "POW", "NEG", "NOT",
  "BIN_INV", "BIN_OR", "BIN_AND", "BIN_XOR", "BIN_LSHIFT", "BIN_RSHIFT", "EQ", "NEQ", "GT",
  "LT", "GT_EQ", "LT_EQ", "NOTNULL", "RETURN", "JMP", "JMPF", "JMPT", "LABEL", "LOADFN",
  "ITERINIT", "ITERSTEP", "MOVETO", "MOVEFROM">>
OpNum(op) == CHOOSE i \in DOMAIN B_OPCODES : B_OPCODES[i] = op

SUB_RRR == 0
SUB_RRI == 1
SUB_RRS == 2
SUB_VAR == 3

(* Little-endian fields; a negative immediate wraps.                       *)
U8(v) == v % 256
U16(v) == v % 65536
bc_buf_u32(v) == <<v % 256, (v \div 256) % 256, (v \div 65536) % 256, (v \div 16777216) % 256>>
bc_buf_patch_u32(out, off, v) ==
  [i \in DOMAIN out |-> IF i \in (off + 1)..(off + 4) THEN bc_buf_u32(v)[i - off] ELSE out[i]]
(* bc_buf_pad4: registers, one byte each, filled up to a word.             *)
Words(n) == (n + 3) \div 4
bc_buf_pad4(bytes) == bytes \o [i \in 1..(4 * Words(Len(bytes)) - Len(bytes)) |-> 0]

bc_emit_fixed(sub, op, r1, r2, r3, imm) ==
  <<64 * sub + OpNum(op), U8(r1), U8(r2), U8(r3)>> \o bc_buf_u32(imm)
bc_emit_var(op, r1, r2, payload) ==
  bc_emit_fixed(SUB_VAR, op, r1, r2, Len(payload) \div 4, 0) \o payload

(***************************************************************************)
(* be_encode_function: one pass emits every instruction and notes where    *)
(* labels stand, counted in instructions; the offset of a jump's           *)
(* immediate is kept in the box of the label it names.                     *)
(***************************************************************************)
Num(c, r) == c.regs[r].num
Nums(c, rs) == [i \in DOMAIN rs |-> U8(Num(c, rs[i]))]

(* A pair of a map literal: the key is a string index or a register.       *)
PairBytes(c, val, key) ==
  IF c.regs[key].type = "STRING"
  THEN <<0, Num(c, val), c.regs[key].val % 256, (c.regs[key].val \div 256) % 256>>
  ELSE <<1, Num(c, val), Num(c, key), 0>>
NewMapBytes(c, regs) ==
  LET npairs == (Len(regs) - 1) \div 2
  IN  bc_emit_var("NEWMAP", Num(c, regs[1]), npairs,
        FlattenSeq([p \in 1..npairs |-> PairBytes(c, regs[2 * p], regs[2 * p + 1])]))
VarBytes(c, o) ==
  CASE o.op \in {"RETURN", "LOADNULL"} -> bc_emit_var(o.op, Len(o.regs), 0, bc_buf_pad4(Nums(c, o.regs)))
    [] o.op \in {"MOVETO", "MOVEFROM"} ->
         bc_emit_var(o.op, Num(c, o.dst), Len(o.regs), bc_buf_pad4(Nums(c, o.regs)))
    [] o.op = "NEWARRAY" ->
         bc_emit_var(o.op, Num(c, o.regs[1]), Len(o.regs) - 1, bc_buf_pad4(Nums(c, Tail(o.regs))))
    [] o.op = "NEWMAP" -> NewMapBytes(c, o.regs)

JumpOps == {"JMP", "JMPF", "JMPT", "ITERSTEP"}
(* The label box a jump names.                                             *)
JumpLabel(o) == IF o.op = "JMP" THEN o.dst ELSE o.src1
OpBytes(c, o) ==
  CASE o.op = "JMP"      -> bc_emit_fixed(SUB_RRI, o.op, 0, 0, 0, 0)
    [] o.op \in {"JMPF", "JMPT"} -> bc_emit_fixed(SUB_RRI, o.op, Num(c, o.dst), 0, 0, 0)
    [] o.op = "ITERSTEP" -> bc_emit_fixed(SUB_RRI, o.op, Num(c, o.dst), o.imm, 0, 0)
    [] o.enc = "CALL"    -> bc_emit_fixed(SUB_RRR, o.op, Num(c, o.dst), o.src1, o.src2, 0)
    [] o.enc = "RRR"     -> bc_emit_fixed(SUB_RRR, o.op, Num(c, o.dst), Num(c, o.src1), Num(c, o.src2), 0)
    [] o.enc = "RRI" /\ o.op # "ITERSTEP" ->
         bc_emit_fixed(SUB_RRI, o.op, Num(c, o.dst), Num(c, o.src1), 0, o.imm)
    [] o.enc = "RRS"     -> bc_emit_fixed(SUB_RRS, o.op, Num(c, o.dst), Num(c, o.src1), 0, o.imm)
    [] o.enc = "RI"      -> bc_emit_fixed(SUB_RRI, o.op, Num(c, o.dst), Num(c, o.dst), 0, o.imm)
    [] o.enc = "R" /\ o.op \notin JumpOps -> bc_emit_fixed(SUB_RRR, o.op, Num(c, o.dst), Num(c, o.src1), 0, 0)
    [] o.enc = "R0" /\ o.op \notin JumpOps -> bc_emit_fixed(SUB_RRR, o.op, Num(c, o.dst), 0, 0, 0)
    [] o.enc \in {"VAR", "VAR_STRID"} -> VarBytes(c, o)

Pass0 == [out |-> << >>, ic |-> 0, labels |-> << >>, patch |-> << >>]
bc_label_set(acc, name) == [acc EXCEPT !.labels = (name :> acc.ic) @@ @]
EmitOp(c, acc, o) ==
  IF o.op = "LABEL" THEN bc_label_set(acc, c.regs[o.dst].label)
  ELSE [acc EXCEPT !.out = @ \o OpBytes(c, o), !.ic = @ + 1,
                   !.patch = IF o.op \in JumpOps THEN (JumpLabel(o) :> Len(acc.out) + 4) @@ @ ELSE @]

(* The second pass resolves each noted offset once.                        *)
Undefined(c, acc, o) == c.regs[JumpLabel(o)].label \notin DOMAIN acc.labels
BackPatch(c, acc, o) ==
  IF o.op \notin JumpOps \/ JumpLabel(o) \notin DOMAIN acc.patch THEN acc
  ELSE IF Undefined(c, acc, o) THEN [acc EXCEPT !.ic = -1]
  ELSE [acc EXCEPT !.out = bc_buf_patch_u32(@, acc.patch[JumpLabel(o)], acc.labels[c.regs[JumpLabel(o)].label]),
                   !.patch = [b \in DOMAIN @ \ {JumpLabel(o)} |-> @[b]]]
be_encode_function(c, code) ==
  FoldLeft(LAMBDA acc, o : BackPatch(c, acc, o),
           FoldLeft(LAMBDA acc, o : EmitOp(c, acc, o), Pass0, code), code)

(***************************************************************************)
(* be_encode_unit and bb_vm_loadbytecode.  The file holds the length of    *)
(* code in 32 bits; bb_function.code_length keeps 16 of them.              *)
(***************************************************************************)
be_encode_unit(c) ==
  LET bodies == [f \in DOMAIN c.fns |-> be_encode_function(c, c.fns[f].code)]
  IN  [ok |-> c.err = "" /\ \A f \in DOMAIN bodies : bodies[f].ic # -1,
       strs |-> c.strs,
       fns |-> [f \in DOMAIN c.fns |->
                  [args |-> U8(c.fns[f].args), regs |-> U8(c.fns[f].next), code |-> bodies[f].out]]]
bb_vm_loadbytecode(image) ==
  [strs |-> image.strs,
   fns |-> [f \in DOMAIN image.fns |->
              [args |-> image.fns[f].args, regs |-> image.fns[f].regs,
               code |-> image.fns[f].code, code_length |-> U16(Len(image.fns[f].code))]]]

(***************************************************************************)
(* bb_build_cached: one cached operation per instruction and a RETURN of   *)
(* nothing behind the last.  The dispatch table knows the operation and    *)
(* the subtype; a byte it has no entry for stops the decoder.              *)
(***************************************************************************)
ArithOps == {"ADD", "SUB", "MUL", "DIV", "MOD", "POW", "BIN_OR", "BIN_AND", "BIN_XOR", "BIN_LSHIFT",
             "BIN_RSHIFT", "EQ", "NEQ", "GT", "LT", "GT_EQ", "LT_EQ"}
bb_fast_table ==
  {<<SUB_RRR, op>> : op \in ArithOps \union {"NEG", "NOT", "BIN_INV", "NOTNULL", "MOVE", "HASHACCESS", "MAPACCESS",
     "ARRACCESS", "ITERINIT", "METHODBIND", "LOADNULL", "LOADTRUE", "LOADFALSE", "ARRAYSTORE", "HASHSTORE", "CALL"}}
  \union {<<SUB_RRI, op>> : op \in ArithOps \union {"NOTNULL", "ITERSTEP", "LOADINT", "LOADSTR", "LOADFN",
     "JMP", "JMPF", "JMPT", "ARRAYSTORE", "HASHSTORE"}}
  \union {<<SUB_RRS, op>> : op \in {"HASHACCESS", "HASHSTORE"}}
  \union {<<SUB_VAR, op>> : op \in {"RETURN", "MOVETO", "MOVEFROM", "NEWMAP", "NEWARRAY", "HASHACCESS", "LOADNULL",
     "LOADINT", "LOADDOUBLE"}}

CachedOp(op, sub, a, b, c, list) == [op |-> op, sub |-> sub, a |-> a, b |-> b, c |-> c, list |-> list]
ImplicitReturn == CachedOp("RETURN", SUB_VAR, 0, 0, 0, << >>)
OpcodeError == CachedOp("error", SUB_RRR, 0, 0, 0, << >>)

Imm(code, bi) ==
  LET top == IF code[bi + 7] >= 128 THEN code[bi + 7] - 256 ELSE code[bi + 7]
  IN  code[bi + 4] + 256 * code[bi + 5] + 65536 * code[bi + 6] + 16777216 * top
Decode(code, bi, sub, op) ==
  CASE sub = SUB_RRR -> CachedOp(op, sub, code[bi + 1], code[bi + 2], code[bi + 3], << >>)
    [] sub = SUB_VAR -> CachedOp(op, sub, code[bi + 1], code[bi + 2], 0,
                                 SubSeq(code, bi + 8, bi + 7 + 4 * code[bi + 3]))
    [] OTHER         -> CachedOp(op, sub, code[bi + 1], code[bi + 2], Imm(code, bi), << >>)
Size(code, bi, sub) == IF sub = SUB_VAR THEN 8 + 4 * code[bi + 3] ELSE 8

RECURSIVE Cached(_, _, _)
Cached(fn, bi, ops) ==
  IF bi > fn.code_length THEN Append(ops, ImplicitReturn)
  ELSE LET sub == fn.code[bi] \div 64
           num == fn.code[bi] % 64
       IN  IF num \in DOMAIN B_OPCODES /\ <<sub, B_OPCODES[num]>> \in bb_fast_table
           THEN Cached(fn, bi + Size(fn.code, bi, sub), Append(ops, Decode(fn.code, bi, sub, B_OPCODES[num])))
           ELSE ops \o <<OpcodeError, ImplicitReturn>>
bb_build_cached_open(fn) ==     \* mutant: no RETURN behind the code
  [args |-> fn.args, regs |-> fn.regs, ops |-> Front(Cached(fn, 1, << >>))]
bb_build_cached(fn) == [args |-> fn.args, regs |-> fn.regs, ops |-> Cached(fn, 1, << >>)]
=============================================================================
