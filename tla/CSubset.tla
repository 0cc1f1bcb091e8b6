------------------------------- MODULE CSubset -----------------------------
(***************************************************************************)
(* The C subset of include/cc.h, as its users understand it: a program is  *)
(* a tree, Source writes it down with the parentheses that it needs, and   *)
(* Meaning says what it prints and returns.  Nothing here knows of stacks, *)
(* jumps or parsing; a program's locals are one flat set of variables,     *)
(* which hold garbage until their declaration is executed.                 *)
(***************************************************************************)
EXTENDS CompilerRun

CONSTANT MaxRounds     \* bound on the rounds of a program's loops

-----------------------------------------------------------------------------
(* How a program is written. *)

T(s) == <<Tok(s)>>

RECURSIVE ExprSource(_, _), StmtSource(_)

\* The expression n where an operator of that level may stand.
ExprSource(n, level) ==
  CASE n.kind = "num" -> <<Num(n.val)>>
    [] n.kind = "var" -> <<Ident(n.name)>>
    [] n.kind = "neg" -> T("-") \o ExprSource(n.a, 4)
    [] n.kind = "binop" ->
         LET own == Level(n.op)
             text == ExprSource(n.a, IF own = 1 THEN 2 ELSE own) \o T(n.op) \o ExprSource(n.b, own + 1)
         IN  IF own < level THEN T("(") \o text \o T(")") ELSE text

Parenthesized(n) == T("(") \o ExprSource(n, 1) \o T(")")

StmtSource(n) ==
  CASE n.kind = "block"  -> T("{") \o FoldLeft(LAMBDA text, s : text \o StmtSource(s), <<>>, n.body) \o T("}")
    [] n.kind = "decl"   -> T("int") \o <<Ident(n.v.name)>>
                              \o (IF n.a = Nothing THEN <<>> ELSE T("=") \o ExprSource(n.a, 1)) \o T(";")
    [] n.kind = "assign" -> <<Ident(n.v.name)>> \o T("=") \o ExprSource(n.a, 1) \o T(";")
    [] n.kind = "if"     -> T("if") \o Parenthesized(n.a) \o StmtSource(n.b)
                              \o (IF n.c = Nothing THEN <<>> ELSE T("else") \o StmtSource(n.c))
    [] n.kind = "while"  -> T("while") \o Parenthesized(n.a) \o StmtSource(n.b)
    [] n.kind = "print"  -> T("print") \o Parenthesized(n.a) \o T(";")
    [] n.kind = "return" -> T("return") \o ExprSource(n.a, 1) \o T(";")

Source(n) == T("int") \o <<Ident("main")>> \o T("(") \o T(")") \o StmtSource(n)

-----------------------------------------------------------------------------
(* What a program means. *)

Value(x) == [fault |-> FALSE, val |-> Wrap(x)]

Compare(op, x, y) ==
  CASE op = "==" -> x = y
    [] op = "!=" -> x # y
    [] op = "<"  -> x < y
    [] op = ">"  -> x > y
    [] op = "<=" -> x <= y
    [] op = ">=" -> x >= y

Fault == [fault |-> TRUE, val |-> 0]

RECURSIVE Eval(_, _)

Eval(n, env) ==
  CASE n.kind = "num" -> Value(n.val)
    [] n.kind = "var" -> Value(env[n.name])
    [] n.kind = "neg" -> LET r == Eval(n.a, env) IN IF r.fault THEN r ELSE Value(-r.val)
    [] n.kind = "binop" ->
         LET x == Eval(n.a, env)
             y == Eval(n.b, env)
         IN  IF x.fault \/ y.fault THEN Fault
             ELSE CASE n.op = "+" -> Value(x.val + y.val)
                    [] n.op = "-" -> Value(x.val - y.val)
                    [] n.op = "*" -> Value(x.val * y.val)
                    [] n.op = "/" -> IF y.val = 0 \/ ~Fits(Quotient(x.val, y.val)) THEN Fault
                                     ELSE Value(Quotient(x.val, y.val))
                    [] OTHER      -> Value(Bool(Compare(n.op, x.val, y.val)))

\* A run of a program: its variables, what it has printed, how it stands, what
\* it has returned, and how many more rounds of its loops are looked at.
Going(s, r, next) ==
  IF s.how # "going" THEN s ELSE IF r.fault THEN [s EXCEPT !.how = "fault"] ELSE next

RECURSIVE Do(_, _)

Do(n, s) ==
  LET r == IF n.kind \in {"block", "none"} \/ s.how # "going" THEN Fault
           ELSE IF n.a = Nothing THEN Value(0) ELSE Eval(n.a, s.env)
  IN  CASE n.kind = "block" -> FoldLeft(LAMBDA done, stmt : Do(stmt, done), s, n.body)
        [] n.kind = "none" -> s
        [] n.kind \in {"decl", "assign"} -> Going(s, r, [s EXCEPT !.env[n.v.name] = r.val])
        [] n.kind = "if" -> Going(s, r, Do(IF r.val # 0 THEN n.b ELSE n.c, s))
        [] n.kind = "while" ->
             Going(s, r, IF r.val = 0 THEN s
                         ELSE IF s.rounds = 0 THEN [s EXCEPT !.how = "unknown"]
                         ELSE Do(n, Do(n.b, [s EXCEPT !.rounds = @ - 1])))
        [] n.kind = "print" -> Going(s, r, [s EXCEPT !.out = Append(@, r.val)])
        [] n.kind = "return" -> Going(s, r, [s EXCEPT !.how = "returned", !.val = r.val])

\* main() returns 0 if it ends without a return.
Meaning(n, env, rounds) ==
  LET s == Do(n, [env |-> env, out |-> <<>>, how |-> "going", val |-> 0, rounds |-> rounds])
  IN  [s EXCEPT !.how = IF @ = "going" THEN "returned" ELSE @]

-----------------------------------------------------------------------------
(* Properties of CompilerRun. *)

(* A program that returns has printed and returned what its source says,   *)
(* and one that stops the kernel has divided by zero or out of range:      *)
(* precedence, the stack of intermediate values, the jumps of if, else and *)
(* while and the fall off the end included, for every value that its       *)
(* locals may begin with.                                                  *)
RunsAsWritten ==
  stage \in {"returned", "panic"} /\ toks = Source(prog) =>
    LET m == Meaning(prog, [x \in Names |-> junk], MaxRounds)
    IN  /\ m.out = out
        /\ stage = "returned" => m.how = "returned" /\ m.val = cpu.eax
        /\ stage = "panic" => m.how = "fault"

=============================================================================
