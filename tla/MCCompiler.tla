----------------------------- MODULE MCCompiler ----------------------------
(* Small programs of every shape, and sources with one token wrong. *)
EXTENDS CSubset

N(v) == [kind |-> "num", val |-> v]
V(x) == [kind |-> "var", name |-> x]
Name(x) == [name |-> x]
Decl(x, e) == [kind |-> "decl", v |-> Name(x), a |-> e]
Let(x, e) == [kind |-> "assign", v |-> Name(x), a |-> e]
If(e, s, t) == [kind |-> "if", a |-> e, b |-> s, c |-> t]
While(e, s) == [kind |-> "while", a |-> e, b |-> s]
Out(e) == [kind |-> "print", a |-> e]
Ret(e) == [kind |-> "return", a |-> e]
Seqs(s) == [kind |-> "block", body |-> s]

Leaves == {N(3), V("a"), V("b")}
Pairs == {Binop(op, x, y) : op \in Operators, x \in Leaves, y \in Leaves}
Few == {Binop(op, V("a"), V("b")) : op \in {"<", "+", "-", "*", "/"}} \cup {Neg(V("a"))}
Nested ==
  {Binop(op, x, N(2)) : op \in {"<", "-", "*", "/"}, x \in Few} \cup
  {Binop(op, N(2), x) : op \in {"<", "-", "*", "/"}, x \in Few} \cup
  {Neg(x) : x \in Few}

\* Expressions, of a = -4 (the least int of Word = 3) or 2 and b = -1 or 0.
Expressions ==
  {Seqs(<<Decl("a", x), Decl("b", y), Ret(e)>>) :
     x \in {Neg(N(4)), N(2)}, y \in {Neg(N(1)), N(0)}, e \in Pairs \cup Nested}

Down == Let("a", Binop("-", V("a"), N(1)))
Inner ==
  {Down, Out(V("a")), Ret(V("b")), Decl("c", Nothing), Decl("c", V("c")),
   Seqs(<<Out(V("b")), Down>>), Seqs(<<>>)}
Conditions == {V("a"), Binop("<", V("b"), V("a"))}
Statements ==
  Inner \cup {If(e, s, t) : e \in Conditions, s \in Inner, t \in {Nothing, Down, Out(N(1))}}
        \cup {While(e, Seqs(<<s, Down>>)) : e \in Conditions, s \in Inner \cup {If(V("b"), Down, Nothing)}}

Bodies ==
  {Seqs(<<Decl("a", N(2)), Decl("b", N(w)), s, t>>) :
     w \in {0, 1}, s \in Statements, t \in {Out(V("a")), While(V("a"), Down), If(V("b"), Ret(V("a")), Out(V("b")))}}
\* One token left out, put in or put in another's place.
Spare == {Tok(t) : t \in {"(", ")", "{", "}", ";", "=", "-", "<", "int", "else"}} \cup {Ident("b"), Ident("c")}

Edited ==
  {Seqs(<<Decl("a", N(2)), While(V("a"), If(Binop("<", V("a"), N(1)), Down, Seqs(<<Out(Binop("*", Binop("-", V("a"), N(1)), V("a"))), Ret(N(1))>>)))>>)}

\* One local more than there may be.
ManyLocals == Seqs(<<Decl("a", N(1)), Decl("b", N(2)), Decl("c", N(3)), Decl("d", N(0)), Ret(V("d"))>>)

\* Nested as deep as the stack holds, and deeper.
Nest[d \in 0 .. 9] == IF d = 0 THEN N(1) ELSE Neg(Nest[d - 1])
Deep == {Seqs(<<Ret(Nest[d])>>) : d \in {7, 8, 9}}

MCPrograms == Expressions \cup Bodies \cup Edited \cup Deep \cup {ManyLocals}

MCGarbage == {1, -2}

MCTexts(p) ==
  LET text == Source(p)
  IN  {text} \cup
      IF p \notin Edited THEN {}
      ELSE UNION {{RemoveAt(text, k)} \cup {ReplaceAt(text, k, t) : t \in Spare}
                    \cup {InsertAt(text, k, t) : t \in Spare} : k \in 1 .. Len(text)}

=============================================================================
