----------------------------- MODULE BbPipeline -----------------------------
(***************************************************************************)
(* A script from its text to its results: bb_compile_ci_file of compile.c  *)
(* (parser, code generator, encoder), the loader and the virtual machine,  *)
(* compared with what the language promises (BbSemantics).                 *)
(***************************************************************************)
EXTENDS BbVM

CONSTANTS RegLimit,     \* 254: registers a function may number
          Sources       \* [text, prog, error]: the tokens of a script, the AST they were written
                        \* from, and the error that must stop it, if any

VARIABLES script,       \* the chosen script
          stage         \* "text", "ast", "code", "image" or "vm"
pvars == <<script, stage, unit, heap, frames, out, status>>

Prs  == INSTANCE BbParser
Gen  == INSTANCE BbEncoder
Lang == INSTANCE BbSemantics WITH MaxCalls <- FrameCap

(***************************************************************************)
(* The stages.  Each is a function of the one before, so a script carries  *)
(* its AST, its opcodes, its image and its decoded unit, and the outcome   *)
(* it must have: its meaning or its error.                                 *)
(***************************************************************************)
bb_load(image) ==
  LET u == Gen!bb_vm_loadbytecode(image)
  IN  [strs |-> u.strs, fns |-> [f \in DOMAIN u.fns |-> Gen!bb_build_cached(u.fns[f])]]
AfterEncode(s, ast, code, image) ==
  [prog |-> s.prog, ast |-> ast, code |-> code, image |-> image, unit |-> bb_load(image),
   want |-> IF s.error = "" THEN Lang!Meaning(s.prog) ELSE [end |-> s.error, out |-> << >>, rets |-> << >>]]
AfterCodegen(s, ast, code) == AfterEncode(s, ast, code, Gen!be_encode_unit(IF code.err = "" THEN code ELSE Gen!EmptyUnit))
AfterParse(s, ast) == AfterCodegen(s, ast, IF ast = Prs!None THEN Gen!EmptyUnit ELSE Gen!bb_codegen(ast))
Built(s) == AfterParse(s, Prs!bb_parse(s.text))
Scripts == {Built(s) : s \in Sources}

Init ==
  /\ script \in Scripts /\ stage = "text"
  /\ unit = << >> /\ heap = << >> /\ frames = << >> /\ out = << >> /\ status = "idle"

(* One stage of bb_compile_ci_file: it ends the process or hands on.       *)
Stage(from, to, ok, error) ==
  /\ status = "idle" /\ stage = from /\ stage' = to
  /\ status' = IF ok THEN status ELSE error
  /\ UNCHANGED <<script, unit, heap, frames, out>>
Parse == Stage("text", "ast", script.ast # Prs!None, "parse error")
Codegen == Stage("ast", "code", script.code.err = "", "compile error")
Encode == Stage("code", "image", script.image.ok, "compile error")
Load ==
  /\ status = "idle" /\ stage = "image" /\ stage' = "vm"
  /\ Boot(script.unit) /\ UNCHANGED script
Run == VMNext /\ UNCHANGED <<script, stage>>

Step == Parse \/ Codegen \/ Encode \/ Load \/ Run
Ended == status \notin {"idle", "run"}
Finished == Ended /\ UNCHANGED pvars
Next == Step \/ Finished
(* One thread runs the script: it takes steps until it has ended.  (This is  *)
(* the weak fairness of Step, spelled out: Step is enabled until Ended.)     *)
Fairness == <>Ended \/ []<><<Step>>_pvars
Spec == Init /\ [][Next]_pvars /\ Fairness

-----------------------------------------------------------------------------
(***************************************************************************)
(* Properties.                                                             *)
(***************************************************************************)
(* Frames, registers and values keep their shape: as many registers as the *)
(* function declares, a program counter inside its code, references to     *)
(* objects that exist.                                                     *)
Values == [t : {"null", "int", "bool", "str", "float", "obj"}, v : Int, s : STRING]
FrameOK(f) ==
  LET fn == unit.fns[FnOf(frames[f], heap).n]
  IN  /\ frames[f].pc \in 1..Len(fn.ops)
      /\ DOMAIN frames[f].regs = 0..(fn.regs - 1)
      /\ \A r \in DOMAIN frames[f].regs :
           LET v == frames[f].regs[r] IN v \in Values /\ (v.t = "obj" => v.v \in DOMAIN heap)
TypeOK ==
  /\ stage \in {"text", "ast", "code", "image", "vm"}
  /\ status = "run" => Depth \in 2..FrameCap /\ \A f \in 2..Depth : FrameOK(f)

(* parser.c, the priorities of as_ops_prio: the AST of a text is the one   *)
(* the text was written from with the fewest parentheses that the          *)
(* documented precedence requires.                                         *)
ParseInverts ==
  stage = "ast" /\ script.ast # Prs!None => Lang!Strip(script.ast) = script.prog

(* encoder.c with bb_build_cached: the decoder finds the instructions the  *)
(* code generator emitted, in order, and every jump lands on the           *)
(* instruction behind its label.                                           *)
IsLabel(o) == o.op = "LABEL"
Behind(c, code, label) ==
  LET at == CHOOSE i \in DOMAIN code : IsLabel(code[i]) /\ c.regs[code[i].dst].label = label
  IN  Len(SelectSeq(SubSeq(code, 1, at), LAMBDA o : ~IsLabel(o)))
SameInstruction(c, code, o, cached) ==
  /\ cached.op = o.op
  /\ o.op \in Gen!JumpOps => cached.c = Behind(c, code, c.regs[Gen!JumpLabel(o)].label)
JumpsLand ==
  stage = "image" /\ status = "idle" /\ script.want.end # "no opcode" =>
    \A f \in DOMAIN script.code.fns :
      LET code == script.code.fns[f].code
          emitted == SelectSeq(code, LAMBDA o : ~IsLabel(o))
          ops == script.unit.fns[f].ops
      IN  /\ Len(ops) = Len(emitted) + 1
          /\ \A i \in DOMAIN emitted : SameInstruction(script.code, code, emitted[i], ops[i])

(* The whole pipeline: a script ends, prints and returns as the language   *)
(* says, or is refused with the right error.                               *)
Outcome ==
  [end |-> status,
   out |-> [i \in DOMAIN out |-> Lang!ShownAll(out[i])],
   rets |-> IF status = "done" THEN [i \in 1..frames[1].regs[0].v |-> Lang!Shown(frames[1].regs[i])] ELSE << >>]
ResultCorrect == Ended => Outcome = script.want

(* Compiled loops, jumps, calls and returns come to their end: every       *)
(* script here, whose meaning is finite, stops.                            *)
Terminates == <>Ended
=============================================================================
