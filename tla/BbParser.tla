------------------------------ MODULE BbParser ------------------------------
(***************************************************************************)
(* The parser of parser.c: a priority ("binding power") parser that turns  *)
(* the token stream of the lexer into an AST.  Tokens and AST nodes are    *)
(* records; the text of a token is a string (s) or, for numbers, an        *)
(* integer (i).  A parse function returns [n |-> node, i |-> position];     *)
(* when it fails the node is None and the position keeps the tokens it had *)
(* consumed, which is what b_parser_try_next leaves behind.                *)
(***************************************************************************)
EXTENDS Integers, Sequences, SequencesExt

Tok(t, s, i) == [t |-> t, s |-> s, i |-> i]

(* ast_newnode: p is A_DONT_STRINGIFY, "was written in parentheses".       *)
Node(k, s, i, a) == [k |-> k, s |-> s, i |-> i, a |-> a, p |-> FALSE]
None == Node("none", "", 0, << >>)

Res(n, i) == [n |-> n, i |-> i]
Fail(i) == Res(None, i)
IsNode(r) == r.n.k # "none"

(* b_parser_peek.                                                          *)
Peek(toks, i) == IF i <= Len(toks) THEN toks[i].t ELSE "EOF"

(***************************************************************************)
(* as_ops_prio, split into its prefix and its infix entries: a smaller     *)
(* priority binds tighter.                                                 *)
(***************************************************************************)
UINT32_MAX == 10000
A_VALUE_FN_NAME == 106
A_EXPR_PRIO == 200
A_EXPR_LIST_PRIO == 301

Op(prio, fn, type, close) == [prio |-> prio, fn |-> fn, type |-> type, close |-> close]

Row(t, prio, fn, type, close) == [t |-> t, e |-> Op(prio, fn, type, close)]
OpTable(rows) == [t \in {r.t : r \in rows} |-> (CHOOSE r \in rows : r.t = t).e]
Same(prio, fn, names) == {Row(n, prio, fn, n, "") : n \in names}

PrefixOps == OpTable(
  {Row("INT", 10, "atom", "NUMBER", ""), Row("NULL", 10, "atom", "NULL_LIT", "")}
  \union Same(10, "atom", {"STRING", "IDENTIFIER", "TRUE", "FALSE", "BREAK", "NEXT", "LABEL"})
  \union {Row("CURLY_OPEN", 110, "wrap", "MAP_INIT", "CURLY_CLOSE"),
          Row("PAREN_OPEN", 110, "wrap", "", "PAREN_CLOSE"),
          Row("BRACKET_OPEN", 110, "wrap", "ARRAY_INIT", "BRACKET_CLOSE")}
  \union {Row("SUB", 112, "prefix", "MINUS", ""), Row("INCR", 112, "prefix", "INC", ""),
          Row("DECR", 112, "prefix", "DEC", "")}
  \union Same(112, "prefix", {"NOT", "BIN_INV"})
  \union {Row("FUNCTION", 200, "function", "", "")}
  \union {Row("IF", 500, "if", "", ""), Row("WHILE", 500, "while", "", ""),
          Row("DO", 500, "do", "", ""), Row("FOR", 500, "for", "", ""),
          Row("RETURN", 500, "return", "RETURN", "")}
  \union Same(500, "prefix", {"VAR", "GOTO"}))

AssignOps == [ADD_ASSIGN |-> "ASSIGN_ADD", SUB_ASSIGN |-> "ASSIGN_SUB",
  MUL_ASSIGN |-> "ASSIGN_MUL", DIV_ASSIGN |-> "ASSIGN_DIV", MOD_ASSIGN |-> "ASSIGN_MOD",
  POW_ASSIGN |-> "ASSIGN_POW", OR_ASSIGN |-> "ASSIGN_OR", AND_ASSIGN |-> "ASSIGN_AND",
  NOTNULL_ASSIGN |-> "ASSIGN_NOTNULL", BIN_OR_ASSIGN |-> "ASSIGN_BIN_OR",
  BIN_AND_ASSIGN |-> "ASSIGN_BIN_AND", BIN_XOR_ASSIGN |-> "ASSIGN_BIN_XOR",
  LSHIFT_ASSIGN |-> "ASSIGN_LSHIFT", RSHIFT_ASSIGN |-> "ASSIGN_RSHIFT"]

InfixOps == OpTable(
  {Row("HASH_ACCESS", 101, "hash", "HASHACCESS", ""),
   Row("MAP_ACCESS", 101, "strkey", "MAPACCESS", ""),
   Row("METHOD_REFERENCE", 101, "strkey", "METHOD_REF", ""),
   Row("PAREN_OPEN", 110, "wrap", "CALL", "PAREN_CLOSE"),
   Row("BRACKET_OPEN", 110, "wrap", "ARRACCESS", "BRACKET_CLOSE"),
   Row("INCR", 112, "postfix", "POST_INC", ""), Row("DECR", 112, "postfix", "POST_DEC", "")}
  \union Same(115, "infix", {"MUL", "DIV", "MOD"})
  \union Same(120, "infix", {"ADD", "SUB"})
  \union Same(125, "infix", {"BIN_LSHIFT", "BIN_RSHIFT"})
  \union Same(130, "infix", {"GT", "LT", "GT_EQ", "LT_EQ"})
  \union Same(140, "infix", {"BIN_AND"})
  \union Same(145, "infix", {"BIN_XOR"})
  \union Same(150, "infix", {"BIN_OR"})
  \union Same(155, "infix", {"EQ", "NEQ"})
  \union Same(160, "infix", {"AND"})
  \union Same(165, "infix", {"OR"})
  \union Same(170, "infix", {"NOTNULL"})
  \union {Row(t, 250, "infix", AssignOps[t], "") : t \in DOMAIN AssignOps}
  \union {Row(t, 300, "comma", "", "") : t \in {"COMMA", "HASHCOMMA", "COLON"}}
  \union {Row("ASSIGNMENT", 500, "infix", "ASSIGN", "")})

(* ast_find_prefix admits an equal priority, ast_find_infix does not: an   *)
(* operator of the same priority is left to the caller's loop.             *)
ast_find_prefix(t, max) == t \in DOMAIN PrefixOps /\ PrefixOps[t].prio <= max
ast_find_infix_le(t, max) == t \in DOMAIN InfixOps /\ InfixOps[t].prio <= max     \* mutant
ast_find_infix(t, max) == t \in DOMAIN InfixOps /\ InfixOps[t].prio < max

ast_ident2str(n) == IF n.k = "IDENTIFIER" /\ ~n.p THEN [n EXCEPT !.k = "STRING"] ELSE n

RECURSIVE ast_expr_bp(_, _, _), ast_prefix(_, _, _), ast_infix_loop(_, _, _),
          ast_infix(_, _, _, _), ast_hash_keys(_, _, _), ast_comma_list(_, _, _, _),
          ast_codelist(_, _, _), ast_statement_if(_, _)

ast_expr_bp(toks, i, max) ==
  IF ast_find_prefix(Peek(toks, i), max)
  THEN ast_infix_loop(toks, ast_prefix(toks, i, PrefixOps[Peek(toks, i)]), max)
  ELSE Fail(i)

(* A failed infix callback ends the loop: what is to its left stands.      *)
ast_infix_step(toks, left, r, max) ==
  IF IsNode(r) THEN ast_infix_loop(toks, r, max) ELSE Res(left.n, r.i)

ast_infix_loop(toks, left, max) ==
  IF IsNode(left) /\ ast_find_infix(Peek(toks, left.i), max)
  THEN ast_infix_step(toks, left,
         ast_infix(toks, left.n, left.i, InfixOps[Peek(toks, left.i)]), max)
  ELSE left

(* ast_expect_token after an already parsed part r: wrap what r holds.     *)
ExpectThen(toks, r, close, Wrap(_)) ==
  IF Peek(toks, r.i) = close THEN Res(Wrap(r.n), r.i + 1) ELSE Fail(r.i)

Children(n) == CASE n.k = "none" -> << >>
                 [] n.k = "EXPRLIST" -> n.a
                 [] OTHER -> << n >>

(* ( ), [ ] and { } as a prefix.                                           *)
ast_wrapping_expression(toks, i, e) ==
  LET Wrap(n) == IF e.type # "" THEN Node(e.type, "", 0, Children(n))
                 ELSE IF n.k = "none" THEN Node("EXPRLIST", "", 0, << >>)
                 ELSE [n EXCEPT !.p = TRUE]
  IN  ExpectThen(toks, ast_expr_bp(toks, i + 1, UINT32_MAX), e.close, Wrap)

ast_consume_single_expression(toks, i, prio) ==
  IF Peek(toks, i) = "PAREN_OPEN"
  THEN ast_wrapping_expression(toks, i, PrefixOps["PAREN_OPEN"])
  ELSE ast_expr_bp(toks, i, prio)

(* { code }                                                                *)
ast_codeblock(toks, i) ==
  LET Wrap(n) == n
  IN  IF Peek(toks, i) = "CURLY_OPEN"
      THEN ExpectThen(toks, ast_codelist(toks, i + 1, << >>), "CURLY_CLOSE", Wrap)
      ELSE Fail(i)

(* Sequencing of the parts of a statement: Then(r) continues after r.      *)
After(r, Then(_)) == IF IsNode(r) THEN Then(r) ELSE Fail(r.i)
Seq2(k, s, r1, r2) == After(r1, LAMBDA x : After(r2, LAMBDA y : Res(Node(k, s, 0, <<x.n, y.n>>), y.i)))

ast_else(toks, n, i) ==
  LET chained == ast_statement_if(toks, i)
      IfElse(r) == Res([n EXCEPT !.a = Append(@, r.n)], r.i)
  IN  IF IsNode(chained) THEN IfElse(chained)
      ELSE After(ast_codeblock(toks, chained.i), IfElse)

ast_statement_if(toks, i) ==
  LET cond == ast_expr_bp(toks, i + 1, A_EXPR_PRIO)
      then == Seq2("IF", "", cond, ast_codeblock(toks, cond.i))
  IN  IF Peek(toks, i) # "IF" THEN Fail(i)
      ELSE IF IsNode(then) /\ Peek(toks, then.i) = "ELSE"
      THEN ast_else(toks, then.n, then.i + 1)
      ELSE then

ast_statement_while(toks, i) ==
  LET cond == ast_expr_bp(toks, i + 1, A_EXPR_PRIO)
  IN  Seq2("LOOP", "while", cond, ast_codeblock(toks, cond.i))

ast_statement_do(toks, i) ==
  LET body == ast_codeblock(toks, i + 1)
      Cond(r) == IF Peek(toks, r.i) # "WHILE" THEN Fail(r.i)
                 ELSE After(ast_expr_bp(toks, r.i + 1, A_EXPR_PRIO),
                            LAMBDA c : Res(Node("LOOP", "do", 0, <<c.n, r.n>>), c.i))
  IN  After(body, Cond)

ast_statement_for(toks, i) ==
  LET vars == ast_expr_bp(toks, i + 1, A_EXPR_LIST_PRIO)
      Body(v, it) == After(ast_codeblock(toks, it.i),
                           LAMBDA b : Res(Node("FOR_LOOP", "", 0, <<v.n, it.n, b.n>>), b.i))
      Iterable(v) == IF Peek(toks, v.i) # "IN" THEN Fail(v.i)
                     ELSE After(ast_expr_bp(toks, v.i + 1, A_EXPR_LIST_PRIO),
                                LAMBDA it : Body(v, it))
  IN  After(vars, Iterable)

ast_statement_function(toks, i) ==
  LET name == ast_expr_bp(toks, i + 1, A_VALUE_FN_NAME)
      args == ast_expr_bp(toks, name.i, A_EXPR_LIST_PRIO)
  IN  After(args, LAMBDA x : After(ast_codeblock(toks, x.i),
        LAMBDA b : Res(Node("FUNCTION", "", 0, <<name.n, x.n, b.n>>), b.i)))

(* The prefix callbacks.                                                   *)
ast_prefix(toks, i, e) ==
  CASE e.fn = "atom"     -> Res(Node(e.type, toks[i].s, toks[i].i, << >>), i + 1)
    [] e.fn = "wrap"     -> ast_wrapping_expression(toks, i, e)
    [] e.fn = "prefix"   -> After(ast_expr_bp(toks, i + 1, e.prio),
                                  LAMBDA r : Res(Node(e.type, "", 0, <<r.n>>), r.i))
    [] e.fn = "return"   -> LET r == ast_expr_bp(toks, i + 1, e.prio)
                            IN  Res(Node(e.type, "", 0, IF IsNode(r) THEN <<r.n>> ELSE << >>), r.i)
    [] e.fn = "if"       -> ast_statement_if(toks, i)
    [] e.fn = "while"    -> ast_statement_while(toks, i)
    [] e.fn = "do"       -> ast_statement_do(toks, i)
    [] e.fn = "for"      -> ast_statement_for(toks, i)
    [] e.fn = "function" -> ast_statement_function(toks, i)

(* The infix callbacks; only a call accepts an empty pair of delimiters.   *)
ast_infix(toks, left, i, e) ==
  LET right == ast_expr_bp(toks, i + 1, e.prio)
      index == ast_expr_bp(toks, i + 1, UINT32_MAX)
      key   == ast_consume_single_expression(toks, i + 1, e.prio)
      Binary(n) == Node(e.type, "", 0, <<left, n>>)
      Subscript(n) == Node(e.type, "", 0, IF n.k = "none" THEN <<left>> ELSE <<left, n>>)
  IN  CASE e.fn = "infix"   -> After(right, LAMBDA r : Res(Binary(r.n), r.i))
        [] e.fn = "postfix" -> Res(Node(e.type, "", 0, <<left>>), i + 1)
        [] e.fn = "wrap"    -> IF e.type = "ARRACCESS" /\ ~IsNode(index) THEN Fail(index.i)
                               ELSE ExpectThen(toks, index, e.close, Subscript)
        [] e.fn = "strkey"  -> After(key, LAMBDA r : Res(Binary(ast_ident2str(r.n)), r.i))
        [] e.fn = "hash"    -> After(key, LAMBDA r : ast_hash_keys(toks, <<left>>, r))
        [] e.fn = "comma"   -> ast_comma_list(toks, << >>, left, i)

(* ast_hash_access: the chain a.b.c is one node.                           *)
ast_hash_keys(toks, keys, r) ==
  LET chain == Append(keys, ast_ident2str(r.n))
      next  == ast_consume_single_expression(toks, r.i + 1, 101)
      Chain(i) == Res(Node("HASHACCESS", "", 0, chain), i)
  IN  IF Peek(toks, r.i) # "HASH_ACCESS" THEN Chain(r.i)
      ELSE IF IsNode(next) THEN ast_hash_keys(toks, chain, next) ELSE Chain(next.i)

(* ast_comma_list: ":" and "=>" turn the name before them into a string;   *)
(* a trailing comma is ignored.                                            *)
ast_comma_list(toks, items, expr, i) ==
  LET t == Peek(toks, i)
      pushed == Append(items, IF t = "COMMA" THEN expr ELSE ast_ident2str(expr))
      next == ast_expr_bp(toks, i + 1, 300)
      List(a, pos) == Res(Node("EXPRLIST", "", 0, a), pos)
  IN  IF t \notin {"COMMA", "COLON", "HASHCOMMA"} THEN List(Append(items, expr), i)
      ELSE IF IsNode(next) THEN ast_comma_list(toks, pushed, next.n, next.i)
      ELSE List(pushed, next.i)

(* ast_codelist stops at the first token it cannot parse.                  *)
ast_codelist(toks, i, code) ==
  LET r == ast_expr_bp(toks, i, UINT32_MAX)
  IN  IF ~IsNode(r) THEN Res(Node("CODEBLOCK", "", 0, code), r.i)
      ELSE ast_codelist(toks, IF Peek(toks, r.i) = "SEMICOLON" THEN r.i + 1 ELSE r.i,
                        Append(code, r.n))

(* The parse step of bb_compile_ci_file: leftover input is a parse error.  *)
bb_parse(toks) ==
  LET r == ast_codelist(toks, 1, << >>)
  IN  IF r.i > Len(toks) THEN r.n ELSE None
=============================================================================
