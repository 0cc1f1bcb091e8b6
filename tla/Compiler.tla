------------------------------ MODULE Compiler -----------------------------
(***************************************************************************)
(* The compiler of src/kernel/cc.c as functions: a recursive descent over  *)
(* tokens that makes a tree, and a walk over the tree that makes x86 code. *)
(* CompilerRun compiles and runs programs with it.                         *)
(*                                                                         *)
(* A token is what the lexer delivers.  Code is a sequence of bytes: the   *)
(* first byte of an instruction holds its name and argument, a jump's      *)
(* distance stands in the byte where its four begin, and the other bytes   *)
(* are Filler.  So positions and distances are those of the real code.       *)
(***************************************************************************)
EXTENDS Integers, Sequences

CONSTANTS Names,        \* what a program's variables may be called
          MaxLocals,    \* CC_MAX_LOCALS
          MaxNodes,     \* how many nodes CC_ARENA_SIZE holds
          MaxDepth,     \* how deep the parser's calls nest before the stack is full
          CodeSize,     \* CC_CODE_SIZE
          Disp8         \* how many locals a displacement of one byte reaches: 32

ASSUME CompilerAssumption ==
  /\ MaxLocals \in Nat /\ MaxNodes \in Nat /\ MaxDepth \in Nat /\ CodeSize \in Nat
  /\ Disp8 \in Nat /\ MaxLocals <= Disp8 /\ MaxLocals <= MaxNodes

Relations == {"==", "!=", "<", ">", "<=", ">="}

Operators == Relations \cup {"+", "-", "*", "/"}

Idents == Names \cup {"main", ""}

\* A token has a value if it is a number, and a text if it is a name.
Tokens ==
  {t \in [type : {"eof", "ident", "num", "int", "if", "else", "while", "print", "return",
                  "{", "}", "(", ")", ";", "="} \cup Operators,
          val : Int, text : Idents] :
     (t.type # "num" => t.val = 0) /\ (t.type # "ident" => t.text = "")}

Tok(type) == [type |-> type, val |-> 0, text |-> ""]

Num(v) == [Tok("num") EXCEPT !.val = v]

Ident(x) == [Tok("ident") EXCEPT !.text = x]

-----------------------------------------------------------------------------
(* The trees that the parser makes. *)

Nothing == [kind |-> "none"]

\* A use of one of m locals: off bytes below ebp.
Vars(m) == [kind : {"var"}, name : Idents, off : {4 * k : k \in 1 .. m}]

Binop(op, a, b) == [kind |-> "binop", op |-> op, a |-> a, b |-> b]

Neg(a) == [kind |-> "neg", a |-> a]

\* The expressions over m locals, by how many nodes deep they are.
ExprTrees(m) ==
  LET trees[d \in 0 .. MaxNodes] ==
        LET sub == trees[d - 1]
        IN  IF d = 0 THEN {}
            ELSE [kind : {"num"}, val : Int] \cup Vars(m) \cup [kind : {"neg"}, a : sub]
                   \cup [kind : {"binop"}, op : Operators, a : sub, b : sub]
  IN  trees

\* The statements, likewise.
StmtTrees(m) ==
  LET expr == ExprTrees(m)[MaxNodes]
      trees[d \in 0 .. MaxNodes] ==
        LET sub == trees[d - 1]
        IN  IF d = 0 THEN {}
            ELSE [kind : {"block"}, body : Seq(sub)]
                   \cup [kind : {"decl"}, v : Vars(m), a : expr \cup {Nothing}]
                   \cup [kind : {"assign"}, v : Vars(m), a : expr]
                   \cup [kind : {"if"}, a : expr, b : sub, c : sub \cup {Nothing}]
                   \cup [kind : {"while"}, a : expr, b : sub]
                   \cup [kind : {"print", "return"}, a : expr]
  IN  trees

-----------------------------------------------------------------------------
(* The parser.  Its state: the tokens and the place of g_cur in them, the  *)
(* symbols, the number of nodes made so far, and the first error.  Its     *)
(* functions call each other: each is a function on the parser's states,   *)
(* made from those that it calls one call deeper.                          *)

Errors ==
  {"", "another token expected", "redeclared", "too many locals", "program too large",
   "undeclared", "expected an expression", "expected a name", "invalid command", "too deep",
   "expected main", "code too large"}

Parsers ==
  [toks : Seq(Tokens), pos : Nat \ {0},
   syms : Seq(Idents), nodes : Nat, err : Errors]

Fail(ps, msg) == IF ps.err = "" THEN [ps EXCEPT !.err = msg] ELSE ps

Cur(ps) == IF ps.pos > Len(ps.toks) THEN Tok("eof") ELSE ps.toks[ps.pos]

Sees(ps, types) == ps.err = "" /\ Cur(ps).type \in types

\* cc_advance
Advance(ps) == IF ps.err = "" THEN [ps EXCEPT !.pos = @ + 1] ELSE ps

Expect_Anything(ps, type) == IF ps.err # "" THEN ps ELSE Advance(ps)

\* cc_expect
Expect(ps, type) ==
  IF ps.err # "" THEN ps
  ELSE IF Cur(ps).type = type THEN Advance(ps) ELSE Fail(ps, "another token expected")

\* A parse that ends with the node n, if there is room for it.
Node(ps, n) ==
  IF ps.err # "" THEN [ps |-> ps, n |-> Nothing]
  ELSE IF ps.nodes >= MaxNodes THEN [ps |-> Fail(ps, "program too large"), n |-> Nothing]
  ELSE [ps |-> [ps EXCEPT !.nodes = @ + 1], n |-> n]

NoNode(ps, msg) == [ps |-> Fail(ps, msg), n |-> Nothing]

\* cc_sym_lookup: 0 for a name that is not declared.
Lookup(ps, x) ==
  LET at == {k \in DOMAIN ps.syms : ps.syms[k] = x}
  IN  IF at = {} THEN 0 ELSE 4 * (CHOOSE k \in at : \A j \in at : k <= j)

Declare_OneMore(ps, x) ==
  IF ps.err # "" THEN ps
  ELSE IF Lookup(ps, x) # 0 THEN Fail(ps, "redeclared")
  ELSE IF Len(ps.syms) > MaxLocals THEN Fail(ps, "too many locals")
  ELSE [ps EXCEPT !.syms = Append(@, x)]

\* cc_sym_declare
Declare(ps, x) ==
  IF ps.err # "" THEN ps
  ELSE IF Lookup(ps, x) # 0 THEN Fail(ps, "redeclared")
  ELSE IF Len(ps.syms) >= MaxLocals THEN Fail(ps, "too many locals")
  ELSE [ps EXCEPT !.syms = Append(@, x)]

Var(ps, x) == [kind |-> "var", name |-> x, off |-> Lookup(ps, x)]

\* What the parse of an expression over m locals gives.
Parsed(m) == [ps : Parsers, n : ExprTrees(m)[MaxNodes] \cup {Nothing}]

\* An operand, and as long as one of the operators follows, but no more than
\* rounds times, another one.
Chain(operand, operators, rounds, ps) ==
  LET chain[k \in 0 .. rounds] ==
        [r \in Parsed(MaxNodes) |->
           LET rhs == operand[Advance(r.ps)]
           IN  IF k = 0 \/ ~Sees(r.ps, operators) THEN r
               ELSE chain[k - 1][Node(rhs.ps, Binop(Cur(r.ps).type, r.n, rhs.n))]]
  IN  chain[rounds][operand[ps]]

\* cc_parse_term, cc_parse_additive and cc_parse_comparison; a loop takes a token
\* each round.
Term(unary) == [ps \in Parsers |-> Chain(unary, {"*", "/"}, Len(ps.toks), ps)]

Additive(unary) == [ps \in Parsers |-> Chain(Term(unary), {"+", "-"}, Len(ps.toks), ps)]

Comparison(unary) == [ps \in Parsers |-> Chain(Additive(unary), Relations, 1, ps)]

Primary(unary, ps) ==
  CASE Sees(ps, {"num"})   -> LET r == Node(ps, [kind |-> "num", val |-> Cur(ps).val])
                              IN  [r EXCEPT !.ps = Advance(@)]
    [] Sees(ps, {"ident"}) -> IF Lookup(ps, Cur(ps).text) = 0 THEN NoNode(ps, "undeclared")
                              ELSE Node(Advance(ps), Var(ps, Cur(ps).text))
    [] Sees(ps, {"("})     -> LET r == Comparison(unary)[Advance(ps)]
                              IN  [r EXCEPT !.ps = Expect(@, ")")]
    [] OTHER               -> NoNode(ps, "expected an expression")

Unary(unary, ps) ==
  IF Sees(ps, {"-"})
  THEN LET r == unary[Advance(ps)] IN Node(r.ps, Neg(r.n))
  ELSE Primary(unary, ps)

\* cc_parse_unary, for d calls of itself within each other.  The code does not look
\* how deep it is: "too deep" stands for the overrun of the stack, see CmdCc.
unaries[d \in 0 .. MaxDepth] ==
  [ps \in Parsers |-> IF d = 0 THEN NoNode(ps, "too deep") ELSE Unary(unaries[d - 1], ps)]

Expr(ps) == Comparison(unaries[MaxDepth])[ps]

\* An expression between parentheses.
Condition(ps) ==
  LET r == Expr(Expect(Advance(ps), "(")) IN [r EXCEPT !.ps = Expect(@, ")")]

\* The end of a statement that has the expression r in it.
Simple(r, n) == Node(Expect(r.ps, ";"), n)

DeclStmt(ps) ==
  LET at == Advance(ps)
      x == Cur(at).text
      declared == Declare(Advance(at), x)
      room == Node(declared, Nothing)
      init == IF Sees(room.ps, {"="}) THEN Expr(Advance(room.ps)) ELSE room
  IN  IF ~Sees(at, {"ident"}) THEN NoNode(at, "expected a name")
      ELSE [ps |-> Expect(init.ps, ";"),
            n  |-> [kind |-> "decl", v |-> Var(declared, x), a |-> init.n]]

IfStmt(stmt, ps) ==
  LET cond == Condition(ps)
      then == stmt[cond.ps]
      else == IF Sees(then.ps, {"else"}) THEN stmt[Advance(then.ps)]
              ELSE [ps |-> then.ps, n |-> Nothing]
  IN  Node(else.ps, [kind |-> "if", a |-> cond.n, b |-> then.n, c |-> else.n])

WhileStmt(stmt, ps) ==
  LET cond == Condition(ps)
      body == stmt[cond.ps]
  IN  Node(body.ps, [kind |-> "while", a |-> cond.n, b |-> body.n])

AssignStmt(ps) ==
  IF Lookup(ps, Cur(ps).text) = 0 THEN NoNode(Advance(ps), "undeclared")
  ELSE LET r == Expr(Expect(Advance(ps), "="))
       IN  Simple(r, [kind |-> "assign", v |-> Var(ps, Cur(ps).text), a |-> r.n])

\* The statements up to the end of a block; each takes a token.
Stmts(stmt, ps) ==
  LET stmts[k \in 0 .. Len(ps.toks)] ==
        [done \in [ps : Parsers, n : Seq(StmtTrees(MaxNodes)[MaxNodes])] |->
           LET s == stmt[done.ps]
           IN  IF k = 0 \/ done.ps.err # "" \/ Sees(done.ps, {"}", "eof"}) THEN done
               ELSE stmts[k - 1][[ps |-> s.ps, n |-> IF s.ps.err = "" THEN Append(done.n, s.n) ELSE done.n]]]
  IN  stmts[Len(ps.toks)][[ps |-> ps, n |-> <<>>]]

\* cc_parse_block
Block(stmt, ps) ==
  LET room == Node(Expect(ps, "{"), Nothing)
      body == Stmts(stmt, room.ps)
  IN  [ps |-> Expect(body.ps, "}"), n |-> [kind |-> "block", body |-> body.n]]

Stmt(stmt, ps) ==
  CASE Sees(ps, {"{"})      -> Block(stmt, ps)
    [] Sees(ps, {"int"})    -> DeclStmt(ps)
    [] Sees(ps, {"if"})     -> IfStmt(stmt, ps)
    [] Sees(ps, {"while"})  -> WhileStmt(stmt, ps)
    [] Sees(ps, {"print"})  -> LET r == Condition(ps) IN Simple(r, [kind |-> "print", a |-> r.n])
    [] Sees(ps, {"return"}) -> LET r == Expr(Advance(ps)) IN Simple(r, [kind |-> "return", a |-> r.n])
    [] Sees(ps, {"ident"})  -> AssignStmt(ps)
    [] OTHER                -> NoNode(ps, "invalid command")

\* cc_parse_stmt, for d calls of itself within each other.
statements[d \in 0 .. MaxDepth] ==
  [ps \in Parsers |-> IF d = 0 THEN NoNode(ps, "too deep") ELSE Stmt(statements[d - 1], ps)]

\* cc_parse_program: what follows the block is not looked at.
Parse(toks) ==
  LET ps == Expect([toks |-> toks, pos |-> 1, syms |-> <<>>, nodes |-> 0, err |-> ""], "int")
      name == IF Cur(ps).text = "main" THEN Advance(ps) ELSE Fail(ps, "expected main")
  IN  Block(statements[MaxDepth], Expect(Expect(name, "("), ")"))

-----------------------------------------------------------------------------
(* The code. *)

Filler == [op |-> "", arg |-> 0]

Size ==
  [push_eax |-> 1, pop_eax |-> 1, mov_ecx_eax |-> 2, mov_eax_imm |-> 5, add |-> 2, sub |-> 2,
   imul |-> 3, cdq |-> 1, idiv |-> 2, neg |-> 2, cmp |-> 2, setcc |-> 3, movzx |-> 3,
   test |-> 2, call_eax |-> 2, add_esp4 |-> 3, store |-> 3, load |-> 3, zero |-> 7,
   push_ebp |-> 1, mov_ebp_esp |-> 2, sub_esp |-> 6, mov_esp_ebp |-> 2, pop_ebp |-> 1,
   ret |-> 1, jz |-> 6, jmp |-> 5]

Bytes == [op : DOMAIN Size \cup {"", "rel"}, arg : Int]

\* The code so far, and the first error.
Buffers == [code : Seq(Bytes), err : Errors]

\* How many bytes of a jump come before its distance.
Opcode == [jz |-> 2, jmp |-> 1]

\* emit_byte, for the bytes of one instruction: those that fit are written.
EmitBytes(c, bytes) ==
  LET room == CodeSize - Len(c.code)
  IN  IF c.err # "" THEN c
      ELSE IF Len(bytes) <= room THEN [c EXCEPT !.code = @ \o bytes]
      ELSE [code |-> c.code \o SubSeq(bytes, 1, room), err |-> "code too large"]

Ins(c, op, arg) ==
  EmitBytes(c, [k \in 1 .. Size[op] |-> IF k = 1 THEN [op |-> op, arg |-> arg] ELSE Filler])

Emit(c, op) == Ins(c, op, 0)

\* The displacement of a local, as the signed byte that it is cut to.
Disp(off) == ((4 * Disp8 - off) % (8 * Disp8)) - 4 * Disp8

\* emit_jz_placeholder and emit_jmp_placeholder: the distance is 0 until it is
\* patched.  It stands at byte Hole, counted from 0.
Hole(c, op) == Len(c.code) + Opcode[op]

Patch_FromHole(c, at, target) ==
  IF c.err # "" THEN c
  ELSE [c EXCEPT !.code[at + 1] = [op |-> "rel", arg |-> target - at]]

\* cc_patch
Patch(c, at, target) ==
  IF c.err # "" THEN c
  ELSE [c EXCEPT !.code[at + 1] = [op |-> "rel", arg |-> target - (at + 4)]]

Placeholder(c, op) ==
  LET jump == Emit(c, op) IN Patch(jump, Hole(c, op), Hole(c, op) + 4)

JmpBack(c, target) ==
  LET jump == Emit(c, "jmp") IN Patch(jump, Hole(c, "jmp"), target)

Epilogue(c) == Emit(Emit(Emit(c, "mov_esp_ebp"), "pop_ebp"), "ret")

Prologue(c, n) ==
  LET frame == Emit(Emit(c, "push_ebp"), "mov_ebp_esp")
  IN  IF n > 0 THEN Ins(frame, "sub_esp", n) ELSE frame

\* The second byte of setcc.
Setcc(op) ==
  CASE op = "==" -> 148 [] op = "!=" -> 149
    [] op = "<"  -> 156 [] op = ">"  -> 159
    [] op = "<=" -> 158 [] op = ">=" -> 157

Arithmetic(c, op) ==
  CASE op = "+" -> Emit(c, "add")
    [] op = "-" -> Emit(c, "sub")
    [] op = "*" -> Emit(c, "imul")
    [] op = "/" -> Emit(Emit(c, "cdq"), "idiv")
    [] OTHER    -> Emit(Ins(Emit(c, "cmp"), "setcc", Setcc(op)), "movzx")

GenBinop_NoPush(gen, n, c) ==
  LET left == gen[n.a][c]
      right == gen[n.b][Emit(left, "mov_ecx_eax")]
  IN  Arithmetic(right, n.op)

\* Left to the stack, right to ecx, left back to eax.
GenBinop(gen, n, c) ==
  LET left == Emit(gen[n.a][c], "push_eax")
      right == Emit(gen[n.b][left], "mov_ecx_eax")
  IN  Arithmetic(Emit(right, "pop_eax"), n.op)

ExprCode(gen, n, c) ==
  CASE n.kind = "num"   -> Ins(c, "mov_eax_imm", n.val)
    [] n.kind = "var"   -> Ins(c, "load", Disp(n.off))
    [] n.kind = "neg"   -> Emit(gen[n.a][c], "neg")
    [] n.kind = "binop" -> GenBinop(gen, n, c)

\* cc_codegen_expr, for expressions d nodes deep.
genExpr[d \in 0 .. MaxNodes] ==
  [n \in ExprTrees(MaxNodes)[d] |-> [c \in Buffers |-> ExprCode(genExpr[d - 1], n, c)]]

GenExpr(n, c) == genExpr[MaxNodes][n][c]

\* What becomes of x through the statements s, one after the other.
Through(f, s, x) ==
  LET after[k \in 0 .. Len(s)] == IF k = 0 THEN x ELSE f[s[k]][after[k - 1]]
  IN  after[Len(s)]

GenBlock(gen, n, c) == Through(gen, n.body, c)

GenIf(gen, n, c) ==
  LET cond == Emit(GenExpr(n.a, c), "test")
      then == gen[n.b][Placeholder(cond, "jz")]
      over == Placeholder(then, "jmp")
      else == gen[n.c][Patch(over, Hole(cond, "jz"), Len(over.code))]
  IN  IF n.c = Nothing THEN Patch(then, Hole(cond, "jz"), Len(then.code))
      ELSE Patch(else, Hole(then, "jmp"), Len(else.code))

GenWhile(gen, n, c) ==
  LET cond == Emit(GenExpr(n.a, c), "test")
      body == JmpBack(gen[n.b][Placeholder(cond, "jz")], Len(c.code))
  IN  Patch(body, Hole(cond, "jz"), Len(body.code))

GenPrint(n, c) ==
  Emit(Emit(Ins(Emit(GenExpr(n.a, c), "push_eax"), "mov_eax_imm", 0), "call_eax"), "add_esp4")

StmtCode(gen, n, c) ==
  CASE n.kind = "block"  -> GenBlock(gen, n, c)
    [] n.kind = "decl"   -> IF n.a = Nothing THEN Ins(c, "zero", Disp(n.v.off))
                            ELSE Ins(GenExpr(n.a, c), "store", Disp(n.v.off))
    [] n.kind = "assign" -> Ins(GenExpr(n.a, c), "store", Disp(n.v.off))
    [] n.kind = "if"     -> GenIf(gen, n, c)
    [] n.kind = "while"  -> GenWhile(gen, n, c)
    [] n.kind = "print"  -> GenPrint(n, c)
    [] n.kind = "return" -> Epilogue(GenExpr(n.a, c))

\* cc_codegen_stmt, for statements d nodes deep.
genStmt[d \in 0 .. MaxNodes] ==
  [n \in StmtTrees(MaxNodes)[d] |-> [c \in Buffers |-> StmtCode(genStmt[d - 1], n, c)]]

\* cc_compile, after the parse p.
Generate(p) ==
  LET c == Prologue([code |-> <<>>, err |-> ""], Len(p.ps.syms))
  IN  IF p.ps.err # "" THEN [code |-> <<>>, err |-> p.ps.err]
      ELSE Epilogue(Ins(genStmt[MaxNodes][p.n][c], "mov_eax_imm", 0))

-----------------------------------------------------------------------------
(* A compiled program as a file. *)

\* cc_save_program
Save(code) == [magic |-> TRUE, len |-> Len(code), body |-> code]

\* cc_load_program
Loads(file) == file.magic /\ file.len <= CodeSize /\ file.len = Len(file.body)

=============================================================================
