---------------------------- MODULE BbSemantics -----------------------------
(***************************************************************************)
(* What the language promises (docs/syntax.md, docs/control-flow.md and    *)
(* the tests under tests/syntax, tests/calls and tests/controlflow): the   *)
(* text of a program and its meaning, each defined on the AST without      *)
(* registers, labels, bytes or reference counts.  Nothing here models      *)
(* code; the pipeline is compared with it.                                 *)
(***************************************************************************)
EXTENDS BbParser, FiniteSets, TLC, Bitwise

CONSTANT MaxCalls       \* nested calls a program may make

(***************************************************************************)
(* Text.  An operand is put in parentheses when it binds looser than its   *)
(* place allows.                                                           *)
(***************************************************************************)
Binding == <<{"MUL", "DIV", "MOD"}, {"ADD", "SUB"}, {"BIN_LSHIFT", "BIN_RSHIFT"}, {"GT", "LT", "GT_EQ", "LT_EQ"},
             {"BIN_AND"}, {"BIN_XOR"}, {"BIN_OR"}, {"EQ", "NEQ"}, {"AND"}, {"OR"}, {"NOTNULL"}>>
InfixKinds == UNION Range(Binding)
PrefixTok == [MINUS |-> "SUB", NOT |-> "NOT", BIN_INV |-> "BIN_INV", INC |-> "INCR", DEC |-> "DECR"]
PostTok == [POST_INC |-> "INCR", POST_DEC |-> "DECR"]
AssignTok == [k \in Range(AssignOps) |-> CHOOSE t \in DOMAIN AssignOps : AssignOps[t] = k]
Level(n) ==
  CASE n.k \in InfixKinds -> 2 + CHOOSE i \in DOMAIN Binding : n.k \in Binding[i]
    [] n.k \in {"HASHACCESS", "ARRACCESS", "CALL", "METHOD_REF", "MAPACCESS"} -> 1
    [] n.k \in DOMAIN PrefixTok \union DOMAIN PostTok -> 2
    [] n.k = "FUNCTION" -> 20
    [] n.k \in Range(AssignOps) -> 21
    [] n.k = "EXPRLIST" -> 22
    [] n.k = "ASSIGN" -> 23
    [] n.k \in {"IF", "LOOP", "FOR_LOOP", "RETURN", "VAR", "GOTO"} -> 24
    [] OTHER -> 0

T(t) == <<Tok(t, "", 0)>>
Paren(toks) == T("PAREN_OPEN") \o toks \o T("PAREN_CLOSE")
AtomTok == [k \in {"NUMBER", "STRING", "IDENTIFIER", "TRUE", "FALSE", "NULL_LIT", "BREAK", "NEXT", "LABEL"} |->
              IF k = "NUMBER" THEN "INT" ELSE IF k = "NULL_LIT" THEN "NULL" ELSE k]

RECURSIVE Text(_)
Operand(n, limit) == IF Level(n) > limit THEN Paren(Text(n)) ELSE Text(n)
Separated(items, sep) ==
  FlattenSeq([i \in DOMAIN items |-> (IF i = 1 THEN << >> ELSE T(sep[i - 1])) \o Operand(items[i], 21)])
Commas(items) == Separated(items, [i \in DOMAIN items |-> "COMMA"])
KeyText(n) == IF n.k = "STRING" THEN <<Tok("IDENTIFIER", n.s, 0)>> ELSE Paren(Text(n))
PairText(n, i) == KeyText(n.a[i]) \o T("COLON") \o Operand(n.a[i + 1], 21)
Code(n) == FlattenSeq([i \in DOMAIN n.a |-> Text(n.a[i]) \o T("SEMICOLON")])
Braces(n) == T("CURLY_OPEN") \o Code(n) \o T("CURLY_CLOSE")
ElseText(n) == T("ELSE") \o (IF n.k = "IF" THEN Text(n) ELSE Braces(n))
Params(n) == IF n.k = "EXPRLIST" THEN Commas(n.a) ELSE Text(n)
Text(n) ==
  CASE n.k \in DOMAIN AtomTok -> <<Tok(AtomTok[n.k], n.s, n.i)>>
    [] n.k \in InfixKinds -> Operand(n.a[1], Level(n)) \o T(n.k) \o Operand(n.a[2], Level(n) - 1)
    [] n.k \in DOMAIN PrefixTok -> T(PrefixTok[n.k])
         \o (IF n.a[1].k \in DOMAIN PostTok THEN Paren(Text(n.a[1])) ELSE Operand(n.a[1], 2))
    [] n.k \in DOMAIN PostTok -> Operand(n.a[1], 1) \o T(PostTok[n.k])
    [] n.k \in Range(AssignOps) -> Operand(n.a[1], 2) \o T(AssignTok[n.k]) \o Operand(n.a[2], 20)
    [] n.k = "ASSIGN" -> (IF n.a[1].k = "VAR" THEN Text(n.a[1]) ELSE Operand(n.a[1], 22))
         \o T("ASSIGNMENT") \o Operand(n.a[2], 22)
    [] n.k = "EXPRLIST" -> Commas(n.a)
    [] n.k = "HASHACCESS" -> (IF n.a[1].k = "HASHACCESS" THEN Paren(Text(n.a[1])) ELSE Operand(n.a[1], 1))
         \o FlattenSeq([i \in 1..(Len(n.a) - 1) |-> T("HASH_ACCESS") \o KeyText(n.a[i + 1])])
    [] n.k = "METHOD_REF" -> Operand(n.a[1], 1) \o T("METHOD_REFERENCE") \o KeyText(n.a[2])
    [] n.k = "MAPACCESS" -> Operand(n.a[1], 1) \o T("MAP_ACCESS") \o KeyText(n.a[2])
    [] n.k = "ARRACCESS" -> Operand(n.a[1], 1) \o T("BRACKET_OPEN") \o Text(n.a[2]) \o T("BRACKET_CLOSE")
    [] n.k = "CALL" -> Operand(n.a[1], 1) \o Paren(IF Len(n.a) = 2 THEN Text(n.a[2]) ELSE << >>)
    [] n.k = "ARRAY_INIT" -> T("BRACKET_OPEN") \o Commas(n.a) \o T("BRACKET_CLOSE")
    [] n.k = "MAP_INIT" -> T("CURLY_OPEN")
         \o FlattenSeq([i \in 1..(Len(n.a) \div 2) |->
              (IF i = 1 THEN << >> ELSE T("COMMA")) \o PairText(n, 2 * i - 1)]) \o T("CURLY_CLOSE")
    [] n.k = "FUNCTION" -> T("FUNCTION") \o (IF n.a[1].k = "none" THEN << >> ELSE Text(n.a[1]))
         \o Paren(Params(n.a[2])) \o Braces(n.a[3])
    [] n.k = "RETURN" -> T("RETURN") \o (IF n.a = << >> THEN << >> ELSE Operand(n.a[1], 22))
    [] n.k \in {"VAR", "GOTO"} -> T(n.k) \o Text(n.a[1])
    [] n.k = "IF" -> T("IF") \o Operand(n.a[1], 20) \o Braces(n.a[2])
         \o (IF Len(n.a) = 3 THEN ElseText(n.a[3]) ELSE << >>)
    [] n.k = "LOOP" -> IF n.s = "while" THEN T("WHILE") \o Operand(n.a[1], 20) \o Braces(n.a[2])
                       ELSE T("DO") \o Braces(n.a[2]) \o T("WHILE") \o Operand(n.a[1], 20)
    [] n.k = "FOR_LOOP" -> T("FOR") \o Text(n.a[1]) \o T("IN") \o Operand(n.a[2], 20) \o Braces(n.a[3])
ProgramText(n) == Code(n)

(* The AST without the note that a node was written in parentheses.        *)
RECURSIVE Strip(_)
Strip(n) == [n EXCEPT !.p = FALSE, !.a = [i \in DOMAIN @ |-> Strip(@[i])]]

(***************************************************************************)
(* Meaning.  s is the state: scopes of the running function (innermost     *)
(* last), globals, stored arrays and maps, function texts, output, call    *)
(* depth and flow: "go", "break", "next", "return", "goto" or an error.     *)
(* Ev returns [s, v].  Maps iterate in any order, so a program's output    *)
(* may not depend on it.                                                   *)
(***************************************************************************)
Val(t, v, s) == [t |-> t, v |-> v, s |-> s]
Null == Val("null", 0, "")
Num(n) == Val("int", n, "")
Bool(b) == Val("bool", IF b THEN 1 ELSE 0, "")
Falsy(v) == v \in {Null, Num(0), Bool(FALSE)}
NativeNames == {"print", "varrets_example", "varrets_return"}

Start == [scopes |-> << << >> >>, glob |-> [x \in NativeNames |-> Val("native", 0, x)], store |-> << >>,
          fns |-> << >>, out |-> << >>, depth |-> 2, flow |-> "go", target |-> "", rets |-> << >>]
E(s, v) == [s |-> s, v |-> v]
Go(s) == s.flow = "go"
Bind(p, F(_, _)) == IF Go(p.s) THEN F(p.s, p.v) ELSE p
Stop(s, why) == E([s EXCEPT !.flow = why], Null)

Declared(s, x) == {i \in DOMAIN s.scopes : x \in DOMAIN s.scopes[i]}
Inner(is) == CHOOSE i \in is : \A j \in is : j <= i
Declare(s, x, v) == [s EXCEPT !.scopes[Len(s.scopes)] = (x :> v) @@ @]
Lookup(s, x) == IF Declared(s, x) # {} THEN s.scopes[Inner(Declared(s, x))][x]
                ELSE IF x \in DOMAIN s.glob THEN s.glob[x] ELSE Null
SetVar(s, x, v) == IF Declared(s, x) # {} THEN [s EXCEPT !.scopes[Inner(Declared(s, x))][x] = v]
                   ELSE [s EXCEPT !.glob = (x :> v) @@ @]

Abs(a) == IF a < 0 THEN -a ELSE a
Quot(a, b) == IF (a < 0) = (b < 0) THEN Abs(a) \div Abs(b) ELSE -(Abs(a) \div Abs(b))
IntOp(k, a, b) ==
  CASE k = "ADD" -> Num(a + b) [] k = "SUB" -> Num(a - b) [] k = "MUL" -> Num(a * b)
    [] k = "DIV" -> IF b # 0 THEN Num(Quot(a, b)) ELSE Val("float", 0, IF a < 0 THEN "-inf" ELSE "inf")
    [] k = "MOD" -> IF b # 0 THEN Num(a - b * Quot(a, b)) ELSE Val("float", 0, "nan")
    [] k = "POW" -> Num(a ^ b)
    [] k = "BIN_OR" -> Num(a | b) [] k = "BIN_AND" -> Num(a & b) [] k = "BIN_XOR" -> Num(a ^^ b)
    [] k = "BIN_LSHIFT" -> Num(a * 2 ^ b) [] k = "BIN_RSHIFT" -> Num(a \div 2 ^ b)
    [] k = "GT" -> Bool(a > b) [] k = "LT" -> Bool(a < b) [] k = "GT_EQ" -> Bool(a >= b) [] k = "LT_EQ" -> Bool(a <= b)
Apply(s, k, a, b) ==
  CASE k = "EQ" -> E(s, Bool(a = b))
    [] k = "NEQ" -> E(s, Bool(a # b))
    [] a.t = "int" /\ b.t = "int" /\ k \notin {"EQ", "NEQ"} -> E(s, IntOp(k, a.v, b.v))
    [] OTHER -> Stop(s, "type error")

(* Arrays and maps: [t, keys, vals] in the store.                          *)
IsStored(s, v, t) == v.t = "obj" /\ s.store[v.v].t = t
Hits(o, key) == {i \in DOMAIN o.keys : o.keys[i] = key}
MapGet(s, m, key) ==
  IF IsStored(s, m, "map") /\ Hits(s.store[m.v], key) # {}
  THEN s.store[m.v].vals[CHOOSE i \in Hits(s.store[m.v], key) : TRUE] ELSE Null
Index(o, i) == IF i >= 0 THEN i + 1 ELSE Len(o.vals) + i + 1
ItemGet(s, o, key) ==
  CASE IsStored(s, o, "map") -> E(s, MapGet(s, o, key))
    [] IsStored(s, o, "array") /\ key.t = "int" ->
         LET i == Index(s.store[o.v], key.v)
         IN  E(s, IF i \in DOMAIN s.store[o.v].vals THEN s.store[o.v].vals[i] ELSE Null)
    [] OTHER -> Stop(s, "bad array access")
MapPut(o, key, v) == IF Hits(o, key) # {} THEN [o EXCEPT !.vals[CHOOSE i \in Hits(o, key) : TRUE] = v]
                     ELSE [o EXCEPT !.keys = Append(@, key), !.vals = Append(@, v)]
ArrPut(o, i, v) == [o EXCEPT !.vals = [j \in 1..(IF i > Len(@) THEN i ELSE Len(@)) |->
                                         IF j = i THEN v ELSE IF j <= Len(@) THEN @[j] ELSE Null]]
ItemSet(s, o, key, v) ==
  CASE IsStored(s, o, "map") -> [s EXCEPT !.store[o.v] = MapPut(@, key, v)]
    [] IsStored(s, o, "array") /\ key.t = "int" -> [s EXCEPT !.store[o.v] = ArrPut(@, Index(@, key.v), v)]
    [] OTHER -> [s EXCEPT !.flow = "bad array store"]
FieldSet(s, o, key, v) == IF IsStored(s, o, "map") THEN ItemSet(s, o, key, v)
                          ELSE [s EXCEPT !.flow = "operand is not a map"]
NewObj(s, t, keys, vals) ==
  E([s EXCEPT !.store = Append(@, [t |-> t, keys |-> keys, vals |-> vals])], Val("obj", Len(s.store) + 1, ""))

RECURSIVE Ev(_, _), Exec(_, _, _), Iterate(_, _, _, _), While(_, _)

Elements(n) == IF n.k = "EXPRLIST" THEN n.a ELSE <<n>>
EvAll(s, nodes) ==
  FoldLeft(LAMBDA acc, n : Bind(acc, LAMBDA s1, vs : Bind(Ev(s1, n), LAMBDA s2, v : E(s2, Append(vs, v)))),
           E(s, << >>), nodes)
Scoped(s, n) == LET r == Exec([s EXCEPT !.scopes = Append(@, << >>)], n.a, 1)
                IN  [r EXCEPT !.scopes = SubSeq(@, 1, Len(s.scopes))]

Chain(s, nodes) == FoldLeft(LAMBDA acc, n : Bind(acc, LAMBDA s1, m :
                     Bind(Ev(s1, n), LAMBDA s2, key : E(s2, MapGet(s2, m, key)))), Ev(s, Head(nodes)), Tail(nodes))
StoreTo(s, n, v) ==
  CASE n.k = "IDENTIFIER" -> SetVar(s, n.s, v)
    [] n.k = "HASHACCESS" -> Bind(Chain(s, SubSeq(n.a, 1, Len(n.a) - 1)), LAMBDA s1, m :
                               Bind(Ev(s1, n.a[Len(n.a)]), LAMBDA s2, key : E(FieldSet(s2, m, key, v), v))).s
    [] n.k = "ARRACCESS" -> Bind(EvAll(s, n.a), LAMBDA s1, ok : E(ItemSet(s1, ok[1], ok[2], v), v)).s
StoreAll(s, targets, vals) ==
  FoldLeft(LAMBDA s1, i : IF Go(s1) THEN StoreTo(s1, targets[i], IF i <= Len(vals) THEN vals[i] ELSE Null) ELSE s1,
           s, [i \in DOMAIN targets |-> i])

(* A call yields the list of returned values; a bound method has its self. *)
FnVal(i, self) == Val("fn", i, self)
Body(s, fn, self, args) ==
  LET params == Elements(fn.a[2])
      scope == [x \in {params[i].s : i \in DOMAIN params} |->
                  LET i == CHOOSE j \in DOMAIN params : params[j].s = x
                  IN  IF i <= Len(args) THEN args[i] ELSE Null]
      r == Exec([s EXCEPT !.scopes = <<scope @@ ("self" :> self)>>, !.depth = @ + 1], fn.a[3].a, 1)
  IN  IF r.flow \in {"go", "return"}
      THEN E([r EXCEPT !.scopes = s.scopes, !.depth = s.depth, !.flow = "go", !.rets = << >>], r.rets)
      ELSE E(r, << >>)
Native(s, name, args) ==
  CASE name = "print" -> E([s EXCEPT !.out = Append(@, args)], << >>)
    [] name = "varrets_example" -> E(s, <<Num(10), Num(20), Num(30)>>)
    [] name = "varrets_return" -> E(s, [i \in 1..3 |-> Num(args[1].v + i - 1)])
CallValue(s, f, self, args) ==
  CASE f.t = "native" -> Native(s, f.s, args)
    [] f.t = "fn" -> IF s.depth >= MaxCalls THEN Stop(s, "frame stack overflow")
                     ELSE Body(s, s.fns[f.v], self, args)
    [] f.t = "obj" /\ IsStored(s, f, "bound") ->
         IF s.depth >= MaxCalls THEN Stop(s, "frame stack overflow")
         ELSE Body(s, s.fns[s.store[f.v].vals[1].v], s.store[f.v].vals[2], args)
    [] OTHER -> Stop(s, IF f = Null THEN "nil callee" ELSE "callee not closure")
CallList(s, n) ==
  LET fn == n.a[1]
  IN  Bind(EvAll(s, IF Len(n.a) = 2 THEN Elements(n.a[2]) ELSE << >>), LAMBDA s1, args :
        IF fn.k = "HASHACCESS"
        THEN Bind(Chain(s1, SubSeq(fn.a, 1, Len(fn.a) - 1)), LAMBDA s2, self :
             Bind(Ev(s2, fn.a[Len(fn.a)]), LAMBDA s3, key : CallValue(s3, MapGet(s3, self, key), self, args)))
        ELSE Bind(Ev(s1, fn), LAMBDA s2, f : CallValue(s2, f, f, args)))

(* An assignment is worth what its last target received.                   *)
AssignVals(s, targets, rhs) ==
  IF rhs.k = "CALL" THEN CallList(s, rhs) ELSE EvAll(s, Elements(rhs))
EvAssign(s, lhs, rhs) ==
  LET targets == Elements(IF lhs.k = "VAR" THEN lhs.a[1] ELSE lhs)
      declared == IF lhs.k = "VAR" THEN Ev(s, lhs).s ELSE s
  IN  Bind(AssignVals(declared, targets, rhs), LAMBDA s1, vals :
        E(StoreAll(s1, targets, vals), IF Len(vals) >= Len(targets) THEN vals[Len(targets)] ELSE Null))
Update(s, n, k, v) == Bind(Ev(s, n), LAMBDA s1, old : Bind(Apply(s1, k, old, v), LAMBDA s2, new :
                        E(StoreTo(s2, n, new), new)))
Decides(k, v) == CASE k \in {"AND", "ASSIGN_AND"} -> Falsy(v)
                   [] k \in {"OR", "ASSIGN_OR"} -> ~Falsy(v)
                   [] k \in {"NOTNULL", "ASSIGN_NOTNULL"} -> v # Null
CompoundOp == [ASSIGN_ADD |-> "ADD", ASSIGN_SUB |-> "SUB", ASSIGN_MUL |-> "MUL", ASSIGN_DIV |-> "DIV",
  ASSIGN_MOD |-> "MOD", ASSIGN_POW |-> "POW", ASSIGN_BIN_OR |-> "BIN_OR", ASSIGN_BIN_AND |-> "BIN_AND",
  ASSIGN_BIN_XOR |-> "BIN_XOR", ASSIGN_LSHIFT |-> "BIN_LSHIFT", ASSIGN_RSHIFT |-> "BIN_RSHIFT"]

(* Loops: break and next end here, anything else goes on outwards.         *)
Looped(s) == IF s.flow = "next" THEN [s EXCEPT !.flow = "go"] ELSE s
Left(s) == IF s.flow = "break" THEN [s EXCEPT !.flow = "go"] ELSE s
While(s, n) ==
  Bind(Ev(s, n.a[1]), LAMBDA s1, cond :
    IF Falsy(cond) THEN E(s1, Null)
    ELSE LET s2 == Looped(Scoped(s1, n.a[2])) IN IF Go(s2) THEN While(s2, n) ELSE E(Left(s2), Null))
DoWhile(s, n) ==
  LET s1 == Looped(Scoped(s, n.a[2])) IN IF Go(s1) THEN While(s1, n) ELSE E(Left(s1), Null)
Iterate(s, n, it, i) ==
  LET o == s.store[it.v]
      vars == Elements(n.a[1])
      entry == <<IF o.t = "array" THEN Num(i - 1) ELSE o.keys[i], o.vals[i]>>
      scope == [x \in {vars[k].s : k \in DOMAIN vars} |-> entry[CHOOSE k \in DOMAIN vars : vars[k].s = x]]
      s1 == Exec([s EXCEPT !.scopes = Append(@, scope)], n.a[3].a, 1)
      s2 == Looped([s1 EXCEPT !.scopes = SubSeq(@, 1, Len(s.scopes))])
  IN  IF i > Len(o.vals) THEN E(s, Null)
      ELSE IF Go(s2) THEN Iterate(s2, n, it, i + 1) ELSE E(Left(s2), Null)

Ev(s, n) ==
  CASE n.k = "NUMBER" -> E(s, Num(n.i))
    [] n.k = "STRING" -> E(s, Val("str", 0, n.s))
    [] n.k = "TRUE" -> E(s, Bool(TRUE))
    [] n.k = "FALSE" -> E(s, Bool(FALSE))
    [] n.k = "NULL_LIT" -> E(s, Null)
    [] n.k = "IDENTIFIER" -> E(s, Lookup(s, n.s))
    [] n.k \in InfixKinds \ {"AND", "OR", "NOTNULL"} ->
         Bind(EvAll(s, n.a), LAMBDA s1, vs : Apply(s1, n.k, vs[1], vs[2]))
    [] n.k \in {"AND", "OR", "NOTNULL"} ->
         Bind(Ev(s, n.a[1]), LAMBDA s1, v : IF Decides(n.k, v) THEN E(s1, v) ELSE Ev(s1, n.a[2]))
    [] n.k = "NOT" -> Bind(Ev(s, n.a[1]), LAMBDA s1, v : E(s1, Bool(Falsy(v))))
    [] n.k \in {"MINUS", "BIN_INV"} -> Bind(Ev(s, n.a[1]), LAMBDA s1, v :
         IF v.t = "int" THEN E(s1, Num(IF n.k = "MINUS" THEN -v.v ELSE -v.v - 1)) ELSE Stop(s1, "type error"))
    [] n.k = "ASSIGN" -> EvAssign(s, n.a[1], n.a[2])
    [] n.k \in DOMAIN CompoundOp ->
         Bind(Ev(s, n.a[2]), LAMBDA s1, v : Update(s1, n.a[1], CompoundOp[n.k], v))
    [] n.k \in {"ASSIGN_AND", "ASSIGN_OR", "ASSIGN_NOTNULL"} ->
         Bind(Ev(s, n.a[1]), LAMBDA s1, v : IF Decides(n.k, v) THEN E(s1, v)
           ELSE Bind(Ev(s1, n.a[2]), LAMBDA s2, w : E(StoreTo(s2, n.a[1], w), w)))
    [] n.k \in {"INC", "DEC"} -> Update(s, n.a[1], IF n.k = "INC" THEN "ADD" ELSE "SUB", Num(1))
    [] n.k \in {"POST_INC", "POST_DEC"} -> Bind(Ev(s, n.a[1]), LAMBDA s1, old :
         Bind(Update(s1, n.a[1], IF n.k = "POST_INC" THEN "ADD" ELSE "SUB", Num(1)), LAMBDA s2, new : E(s2, old)))
    [] n.k = "VAR" -> E(FoldLeft(LAMBDA s1, x : Declare(s1, x.s, Null), s, Elements(n.a[1])), Null)
    [] n.k = "HASHACCESS" -> Chain(s, n.a)
    [] n.k = "MAPACCESS" -> Bind(EvAll(s, n.a), LAMBDA s1, vs :
         IF IsStored(s1, vs[1], "map") THEN E(s1, MapGet(s1, vs[1], vs[2])) ELSE Stop(s1, "operand is not a map"))
    [] n.k = "METHOD_REF" -> Bind(EvAll(s, n.a), LAMBDA s1, vs :
         IF MapGet(s1, vs[1], vs[2]).t = "fn" THEN NewObj(s1, "bound", << >>, <<MapGet(s1, vs[1], vs[2]), vs[1]>>)
         ELSE Stop(s1, "method not found"))
    [] n.k = "ARRACCESS" -> Bind(EvAll(s, n.a), LAMBDA s1, vs : ItemGet(s1, vs[1], vs[2]))
    [] n.k = "ARRAY_INIT" -> Bind(EvAll(s, n.a), LAMBDA s1, vs : NewObj(s1, "array", << >>, vs))
    [] n.k = "MAP_INIT" -> Bind(EvAll(s, n.a), LAMBDA s1, vs :
         NewObj(s1, "map", [i \in 1..(Len(vs) \div 2) |-> vs[2 * i - 1]], [i \in 1..(Len(vs) \div 2) |-> vs[2 * i]]))
    [] n.k = "CALL" -> Bind(CallList(s, n), LAMBDA s1, vs : E(s1, IF vs = << >> THEN Null ELSE vs[1]))
    [] n.k = "FUNCTION" ->
         LET s1 == [s EXCEPT !.fns = Append(@, n)]
             f == FnVal(Len(s1.fns), "")
         IN  E(IF n.a[1].k = "none" THEN s1 ELSE StoreTo(s1, n.a[1], f), f)
    [] n.k = "RETURN" -> Bind(EvAll(s, IF n.a = << >> THEN << >> ELSE Elements(n.a[1])), LAMBDA s1, vs :
         E([s1 EXCEPT !.flow = "return", !.rets = vs], Null))
    [] n.k = "IF" -> Bind(Ev(s, n.a[1]), LAMBDA s1, cond :
         IF ~Falsy(cond) THEN E(Scoped(s1, n.a[2]), Null)
         ELSE IF Len(n.a) < 3 THEN E(s1, Null)
         ELSE IF n.a[3].k = "IF" THEN Ev(s1, n.a[3]) ELSE E(Scoped(s1, n.a[3]), Null))
    [] n.k = "LOOP" -> IF n.s = "while" THEN While(s, n) ELSE DoWhile(s, n)
    [] n.k = "FOR_LOOP" -> Bind(Ev(s, n.a[2]), LAMBDA s1, it :
         IF IsStored(s1, it, "array") \/ IsStored(s1, it, "map") THEN Iterate(s1, n, it, 1)
         ELSE Stop(s1, "not iterable"))
    [] n.k = "BREAK" -> Stop(s, "break")
    [] n.k = "NEXT" -> Stop(s, "next")
    [] n.k = "GOTO" -> Stop([s EXCEPT !.target = n.a[1].s], "goto")
    [] n.k = "LABEL" -> E(s, Null)

(* Statements in order; a goto resumes at a label of this list or of one   *)
(* around it.                                                              *)
LabelAt(code, x) == {i \in DOMAIN code : code[i].k = "LABEL" /\ code[i].s = x}
Exec(s, code, i) ==
  IF i > Len(code) THEN s
  ELSE LET s1 == Ev(s, code[i]).s
       IN  IF Go(s1) THEN Exec(s1, code, i + 1)
           ELSE IF s1.flow = "goto" /\ LabelAt(code, s1.target) # {}
           THEN Exec([s1 EXCEPT !.flow = "go"], code, CHOOSE j \in LabelAt(code, s1.target) : TRUE)
           ELSE s1

(* What a run of a program shows: how it ended, what it printed and what   *)
(* it returned.  A function or container shows as such.                    *)
Shown(v) == IF v.t \in {"obj", "fn", "native"} THEN Val("obj", 0, "") ELSE v
ShownAll(vs) == [i \in DOMAIN vs |-> Shown(vs[i])]
Outcome(s) == [end |-> IF s.flow \in {"go", "return"} THEN "done" ELSE s.flow,
               out |-> [i \in DOMAIN s.out |-> ShownAll(s.out[i])],
               rets |-> IF s.flow \in {"go", "return"} THEN ShownAll(s.rets) ELSE << >>]
Meaning(program) == Outcome(Exec(Start, program.a, 1))
=============================================================================
