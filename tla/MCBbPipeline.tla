---------------------------- MODULE MCBbPipeline ----------------------------
(* Scripts for the pipeline: every pair of operators around three operands,  *)
(* every pair of statement templates, and scripts picked for one behaviour.  *)
EXTENDS BbPipeline

(* Writing ASTs.                                                             *)
Nd(k, a) == Prs!Node(k, "", 0, a)
N(i) == Prs!Node("NUMBER", "", i, << >>)
S(s) == Prs!Node("STRING", s, 0, << >>)
I(s) == Prs!Node("IDENTIFIER", s, 0, << >>)
Lab(s) == Prs!Node("LABEL", s, 0, << >>)
True == Nd("TRUE", << >>)
False == Nd("FALSE", << >>)
NullLit == Nd("NULL_LIT", << >>)
Break == Nd("BREAK", << >>)
NextIt == Nd("NEXT", << >>)
Blk(a) == Nd("CODEBLOCK", a)
List(a) == IF Len(a) = 1 THEN a[1] ELSE Nd("EXPRLIST", a)
B(k, l, r) == Nd(k, <<l, r>>)
Set(l, r) == Nd("ASSIGN", <<l, r>>)
Var(a, r) == Set(Nd("VAR", <<List(a)>>), r)
Ret(a) == Nd("RETURN", IF a = << >> THEN << >> ELSE <<List(a)>>)
If(c, a) == Nd("IF", <<c, Blk(a)>>)
IfElse(c, a, b) == Nd("IF", <<c, Blk(a), b>>)
While(c, a) == Prs!Node("LOOP", "while", 0, <<c, Blk(a)>>)
DoWhile(c, a) == Prs!Node("LOOP", "do", 0, <<c, Blk(a)>>)
For(v, it, a) == Nd("FOR_LOOP", <<List(v), it, Blk(a)>>)
Fun(name, ps, a) == Nd("FUNCTION", <<name, List(ps), Blk(a)>>)
Lambda(ps, a) == Fun(Prs!None, ps, a)
Call(f, as) == Nd("CALL", IF as = << >> THEN <<f>> ELSE <<f, List(as)>>)
Goto(s) == Nd("GOTO", <<I(s)>>)
Dot(a, ks) == Nd("HASHACCESS", <<a>> \o ks)
At1(a, i) == Nd("ARRACCESS", <<a, i>>)
Arr(a) == Nd("ARRAY_INIT", a)
Mp(a) == Nd("MAP_INIT", a)
X == I("x")
Y == I("y")
G == I("g")

Source(text, p, error) == [text |-> text, prog |-> p, error |-> error]
Good(p) == Source(Lang!ProgramText(p), p, "")
Bad(p, error) == Source(Lang!ProgramText(p), p, error)

(* Pairs of operators of every priority, both ways round.                    *)
Infix == {"SUB", "MUL", "DIV", "LT", "EQ", "AND", "OR", "NOTNULL"}
Operands == {<<X, G, N(2)>>, <<N(9), X, G>>, <<G, N(4), NullLit>>}
Trees == {B(p, t[1], B(q, t[2], t[3])) : p \in Infix, q \in Infix, t \in Operands}
         \union {B(p, B(q, t[1], t[2]), t[3]) : p \in Infix, q \in Infix, t \in Operands}
Expressions == {Blk(<<Var(<<X>>, N(3)), Set(G, N(7)), Ret(<<e>>)>>) : e \in Trees}

(* Pairs of statements over two locals and a global.                         *)
Templates == <<
  <<B("ASSIGN_ADD", X, N(2))>>,
  <<Set(List(<<X, Y>>), List(<<Y, N(5)>>))>>,
  <<Set(Y, B("AND", B("GT", X, N(1)), G))>>,
  <<IfElse(B("LT", X, Y), <<Set(X, Y)>>, Blk(<<B("ASSIGN_SUB", Y, N(1))>>))>>,
  <<While(B("GT", Y, N(0)), <<Nd("DEC", <<Y>>), If(B("EQ", Y, N(1)), <<NextIt>>), Nd("INC", <<X>>)>>)>>,
  <<DoWhile(G, <<Set(G, B("SUB", G, N(1))), If(B("LT", G, N(2)), <<Break>>)>>)>>,
  <<For(<<I("i"), I("v")>>, Arr(<<X, Y>>), <<B("ASSIGN_ADD", G, I("v")), B("ASSIGN_SUB", Y, I("i"))>>)>>,
  <<Fun(I("f"), <<I("a")>>, <<Ret(<<B("MUL", I("a"), N(2)), I("a")>>)>>),
    Set(List(<<X, Y>>), Call(I("f"), <<X>>))>>,
  <<Var(<<I("m")>>, Mp(<<S("a"), X, S("b"), Mp(<<S("c"), Y>>)>>)), Set(X, Dot(I("m"), <<S("b"), S("c")>>)),
    Set(Dot(I("m"), <<S("a")>>), N(9)), Set(Y, Dot(I("m"), <<S("a")>>))>>,
  <<B("ASSIGN_OR", G, N(3)), B("ASSIGN_NOTNULL", Y, N(1)), B("ASSIGN_AND", X, N(6))>>,
  <<Call(I("print"), <<X, Y>>)>>,
  <<Set(List(<<X, G>>), Call(I("varrets_return"), <<Y>>))>>,
  <<Var(<<I("l")>>, Arr(<<N(1)>>)), Set(At1(I("l"), N(2)), X), Set(Y, At1(I("l"), N(2))),
    Set(X, At1(I("l"), Nd("MINUS", <<N(3)>>)))>>,
  <<Set(Y, Nd("POST_INC", <<X>>)), Set(X, Nd("POST_DEC", <<G>>))>> >>
Statements == {Blk(<<Var(<<X>>, N(1)), Var(<<Y>>, N(2)), Set(G, N(4))>> \o Templates[i] \o Templates[j]
                   \o <<Ret(<<X, Y, G>>)>>) : i \in DOMAIN Templates, j \in DOMAIN Templates}

(* Scripts for one behaviour each.                                           *)
Fact == Fun(I("fact"), <<I("n")>>, <<If(B("LT", I("n"), N(2)), <<Ret(<<N(1)>>)>>),
          Ret(<<B("MUL", I("n"), Call(I("fact"), <<B("SUB", I("n"), N(1))>>))>>)>>)
Counter == Var(<<I("o")>>, Mp(<<S("n"), N(5), S("get"),
             Lambda(<<I("d")>>, <<Ret(<<B("ADD", Dot(I("self"), <<S("n")>>), I("d"))>>)>>)>>))
(* A method two names away that returns its object, and a target through it. *)
Nested == Var(<<I("o")>>, Mp(<<S("a"),
            Mp(<<S("n"), N(5), S("get"), Lambda(<<I("d")>>, <<Ret(<<I("self")>>)>>)>>)>>))
Found(p) == Dot(Call(Dot(I("o"), p), << >>), <<S("n")>>)
Picked == {
  \* Calls: recursion, methods, bound methods, missing and surplus arguments and results.
  Blk(<<Fact, Ret(<<Call(I("fact"), <<N(4)>>)>>)>>),
  Blk(<<Counter, Ret(<<Call(Dot(I("o"), <<S("get")>>), <<N(2)>>)>>)>>),
  Blk(<<Counter, Var(<<I("b")>>, B("METHOD_REF", I("o"), S("get"))), Set(Dot(I("o"), <<S("n")>>), N(8)),
        Ret(<<Call(I("b"), <<N(1)>>)>>)>>),
  Blk(<<Nested, Set(Found(<<S("a"), S("get")>>), N(9)), Set(I("o"), Dot(I("o"), <<S("a")>>)),
        B("ASSIGN_ADD", Found(<<S("get")>>), N(1)), Nd("POST_INC", <<Found(<<S("get")>>)>>),
        Ret(<<Dot(I("o"), <<S("n")>>)>>)>>),
  Blk(<<Fun(I("f"), <<I("a"), I("b")>>, <<Ret(<<I("b"), I("a")>>)>>), Var(<<X, Y, I("z")>>, Call(I("f"), <<N(1)>>)),
        Ret(<<X, Y, I("z")>>)>>),
  Blk(<<Fun(I("f"), <<I("a")>>, <<Ret(<<I("a"), N(6)>>)>>), Call(I("f"), <<N(1), N(2), N(3)>>),
        Var(<<X>>, Call(I("f"), <<Arr(<<N(4)>>)>>)), Ret(<<At1(X, N(0))>>)>>),
  Blk(<<Var(<<I("f")>>, Lambda(<<I("g")>>, <<Ret(<<Call(I("g"), <<Arr(<<N(3)>>)>>)>>)>>)),
        Ret(<<Call(I("f"), <<Lambda(<<I("a")>>, <<Ret(<<At1(I("a"), N(0))>>)>>)>>)>>)>>),
  Blk(<<Var(<<X>>, N(0)), Var(<<I("f")>>, NullLit),
        While(B("LT", X, N(3)), <<Nd("INC", <<X>>), Set(I("f"), Lambda(<<I("a")>>, <<Ret(<<I("a")>>)>>))>>),
        Ret(<<Call(I("f"), <<X>>)>>)>>),
  Blk(<<Var(<<X, Y, I("z"), I("w")>>, Call(I("varrets_example"), << >>)), Ret(<<I("z"), I("w")>>)>>),
  \* Containers in containers, shared and dropped.
  Blk(<<Var(<<I("a")>>, Arr(<<N(1)>>)), Var(<<I("m")>>, Mp(<<S("l"), I("a")>>)), Set(I("a"), NullLit),
        Var(<<I("l")>>, Dot(I("m"), <<S("l")>>)), Set(I("m"), NullLit), Set(At1(I("l"), N(0)), Arr(<<N(7)>>)),
        Ret(<<At1(At1(I("l"), N(0)), N(0)), At1(I("l"), N(5))>>)>>),
  Blk(<<Var(<<I("m")>>, Mp(<<S("a"), N(1), S("b"), N(2), S("c"), N(4)>>)), Var(<<X>>, N(0)),
        For(<<I("k"), I("v")>>, I("m"), <<If(B("EQ", I("k"), S("b")), <<NextIt>>), B("ASSIGN_ADD", X, I("v"))>>),
        Set(At1(I("m"), S("d")), X), Ret(<<At1(I("m"), S("d")), B("MAPACCESS", I("m"), S("a"))>>)>>),
  Blk(<<Var(<<X>>, N(0)), For(<<I("i")>>, Arr(<<N(5), N(6), N(7)>>),
          <<For(<<I("j"), I("v")>>, Arr(<<Arr(<<I("i")>>)>>), <<If(B("EQ", I("i"), N(1)), <<Break>>),
             B("ASSIGN_ADD", X, B("ADD", At1(I("v"), N(0)), N(1)))>>)>>), Ret(<<X>>)>>),
  \* Jumps: goto back, out of a nested loop and twice to one label of the block, a
  \* label named like a variable that is not read any more, else-if chains.
  Blk(<<Var(<<X>>, N(0)), Lab("again"), Nd("INC", <<X>>), If(B("LT", X, N(3)), <<Goto("again")>>), Ret(<<X>>)>>),
  Blk(<<Var(<<X>>, N(0)), While(True, <<While(True, <<Nd("INC", <<X>>), If(B("GT", X, N(2)), <<Goto("out")>>)>>)>>),
        Call(I("print"), <<X>>), Lab("out"), Ret(<<X>>)>>),
  Blk(<<Var(<<X>>, N(1)), Goto("b"), Lab("a"), Set(X, N(2)), Goto("end"), Lab("b"), Set(X, N(3)), Goto("end"),
        Lab("end"), Ret(<<X>>)>>),
  Blk(<<Var(<<X, Y>>, N(1)), Nd("INC", <<X>>), Set(Y, X), Lab("x"), Ret(<<Y>>)>>),
  Blk(<<Var(<<X>>, N(0)), While(True, <<Set(X, N(1)), Break>>), Ret(<<X>>)>>),
  Blk(<<Var(<<X>>, N(2)), IfElse(B("EQ", X, N(1)), <<Ret(<<N(10)>>)>>,
          IfElse(B("EQ", X, N(2)), <<Ret(<<N(20)>>)>>, Blk(<<Ret(<<N(30)>>)>>)))>>),
  \* Loads and the remaining operators.
  Blk(<<Var(<<X, Y>>, N(6)), Set(List(<<Y, X>>), N(6)), Ret(<<Y, X, Nd("MINUS", <<Y>>), Nd("BIN_INV", <<Y>>),
        Nd("NOT", <<Y>>)>>)>>),
  Blk(<<Var(<<X>>, N(6)), Ret(<<B("BIN_OR", X, N(9)), B("BIN_AND", X, N(3)), B("BIN_XOR", X, N(5)),
        B("BIN_LSHIFT", X, N(2)), B("BIN_RSHIFT", X, N(1)), B("MOD", X, N(4)), B("GT_EQ", X, N(6)),
        B("LT_EQ", X, N(5)), B("NEQ", X, N(6)), B("EQ", S("s"), S("s")), B("DIV", X, N(0)), True, False>>)>>),
  Blk(<<Var(<<X>>, N(3)), B("ASSIGN_POW", X, N(2)), B("ASSIGN_LSHIFT", X, N(1)), B("ASSIGN_BIN_OR", X, N(1)),
        Call(I("print"), <<S("x"), X>>), Ret(<<B("MAPACCESS", Mp(<<S("k"), X>>), S("k"))>>)>>),
  \* Errors, some in the middle of an expression or a call.
  Blk(<<Call(I("print"), <<N(1)>>), Call(I("nofn"), <<N(1)>>)>>),
  Blk(<<Var(<<X>>, N(1)), Call(X, << >>)>>),
  Blk(<<Ret(<<B("ADD", N(1), Arr(<< >>))>>)>>),
  Blk(<<Ret(<<Nd("MINUS", <<NullLit>>)>>)>>),
  Blk(<<For(<<X>>, N(4), <<Break>>)>>),
  Blk(<<Ret(<<At1(N(1), N(2))>>)>>),
  Blk(<<Var(<<X>>, N(1)), Set(At1(X, N(0)), N(2))>>),
  Blk(<<Var(<<X>>, N(1)), Set(Dot(X, <<S("a")>>), N(2))>>),
  Blk(<<Ret(<<B("MAPACCESS", N(1), S("a"))>>)>>),
  Blk(<<Ret(<<B("METHOD_REF", Mp(<< >>), S("a"))>>)>>),
  Blk(<<Fun(I("f"), <<I("n")>>, <<Ret(<<B("ADD", N(1), Call(I("f"), <<Arr(<<I("n")>>)>>))>>)>>),
        Call(I("f"), <<N(0)>>)>>) }

(* Scripts that must be refused.                                             *)
Refused == {
  Source(Lang!ProgramText(Blk(<<Call(I("print"), <<N(1)>>)>>)) \o <<Prs!Tok("PAREN_CLOSE", "", 0)>>,
         Prs!None, "parse error"),
  Bad(Blk(<<If(True, <<Break>>)>>), "compile error"),
  Bad(Blk(<<Var(<<X>>, N(1)), Lab("x"), Ret(<<X>>)>>), "compile error"),
  Bad(Blk(<<Set(List(<<X>>), List(<<N(1), N(2)>>))>>), "compile error"),
  Bad(Blk(<<Goto("nowhere"), Ret(<<N(1)>>)>>), "compile error"),
  Bad(Blk(<<Ret(<<B("MAPACCESS", Mp(<< >>), N(1))>>)>>), "no opcode") }

MCSources == {Good(p) : p \in Expressions \union Statements \union Picked} \union Refused

(* A compound assignment to a field of what a method two names away returns. *)
MCCallTarget == {Good(Blk(<<Nested, B("ASSIGN_ADD", Found(<<S("a"), S("get")>>), N(1)),
                            Ret(<<Dot(I("o"), <<S("a"), S("n")>>)>>)>>))}
(* A method bound twice, each time dropped, and then called.                 *)
Rebound == <<Set(I("b"), B("METHOD_REF", I("o"), S("get"))), Set(I("b"), NullLit)>>
MCRebound == {Good(Blk(<<Counter, Nd("VAR", <<I("b")>>)>> \o Rebound \o Rebound
                       \o <<Ret(<<Call(Dot(I("o"), <<S("get")>>), <<N(1)>>)>>)>>))}
=============================================================================
