---------------------------- MODULE CompilerRun ----------------------------
(***************************************************************************)
(* A program's way through the terminal: `cc` compiles its source and      *)
(* saves the code in a file (cmd_cc), the file may be changed, `run` loads *)
(* it into the code buffer and calls it (cmd_run), and the processor       *)
(* executes it, one instruction an action.                                 *)
(*                                                                         *)
(* The stack is a sequence that grows at its end, in units of four bytes;  *)
(* ebp is the place of the saved ebp in it.  A division that faults stops  *)
(* the kernel (isr_handler).                                               *)
(***************************************************************************)
EXTENDS Compiler, SequencesExt

CONSTANTS
  Programs,     \* the programs that are meant
  Texts(_),     \* what the source of a program may be: its text, or what that has become
  MaxFile,      \* FS_MAX_FILE_SIZE
  Word,         \* the width of an int in bits: 32
  Garbage,      \* what a local may hold before it is written
  MaxOutput     \* bound on what a program prints

ASSUME CompilerRunAssumption ==
  /\ \A p \in Programs : Texts(p) \subseteq Seq(Tokens)
  /\ Word \in Nat \ {0}

VARIABLES
  prog,     \* the program meant
  toks,     \* the source
  stage,    \* "source", "rejected", "overrun", "saved", "refused", "running",
            \* "astray", "returned", "panic"
  parsed,   \* the tree, and what the parser has kept: g_cc_syms, g_cur
  file,     \* the file that cmd_cc writes
  code,     \* g_cc_code
  junk,     \* what the stack holds where the locals will be
  cpu,      \* registers and stack
  out       \* what cc_builtin_print has put on the terminal

vars == <<prog, toks, stage, parsed, file, code, junk, cpu, out>>

CC_PROGRAM_HEADER_SIZE == 8

NoFile == [magic |-> FALSE, len |-> 0, body |-> <<>>]

\* The return address into cmd_run, and its ebp.
CmdRun == 1000

CmdRunEbp == 2000

AtEntry ==
  [ip |-> 0, eax |-> 0, ecx |-> 0, edx |-> 0, al |-> 0, cmp |-> <<0, 0>>,
   ebp |-> CmdRunEbp, stack |-> <<CmdRun>>]

Init ==
  /\ prog \in Programs
  /\ toks \in Texts(prog)
  /\ stage = "source" /\ parsed = Nothing /\ file = NoFile /\ code = <<>>
  /\ junk = 0 /\ cpu = AtEntry /\ out = <<>>

-----------------------------------------------------------------------------
(* The commands of the terminal. *)

\* A source that is nested too deep overruns the stack of the thread that parses
\* it: what becomes of the kernel then is not modelled.
CmdCc ==
  /\ stage = "source"
  /\ parsed' = Parse(toks)
  /\ LET c == Generate(parsed')
     IN  IF parsed'.ps.err = "too deep" THEN stage' = "overrun" /\ UNCHANGED <<code, file>>
         ELSE IF c.err # "" \/ CC_PROGRAM_HEADER_SIZE + Len(c.code) > MaxFile
         THEN stage' = "rejected" /\ code' = c.code /\ UNCHANGED file
         ELSE stage' = "saved" /\ code' = c.code /\ file' = Save(c.code)
  /\ UNCHANGED <<prog, toks, junk, cpu, out>>

\* A byte that cc has not put there.
Other == [op |-> "other", arg |-> 0]

\* Another application changes bytes of the file (which of them makes no difference
\* here), cuts it, or writes something else to it.
FileChanges ==
  /\ stage = "saved"
  /\ \/ file' = [file EXCEPT !.body = [k \in DOMAIN @ |-> Other]]
     \/ file.len > 0 /\ file.len = Len(file.body)
        /\ file' = [file EXCEPT !.body = SubSeq(@, 1, file.len - 1)]
     \/ file' = NoFile
  /\ UNCHANGED <<prog, toks, stage, parsed, code, junk, cpu, out>>

\* The buffer keeps what lies behind the code, unless the machine was booted since.
\* A file that is as long as its header says is run, whoever wrote it: what code
\* does that cc did not make is not modelled.
CmdRunFile ==
  /\ stage = "saved"
  /\ IF Loads(file)
     THEN /\ stage' = IF file.body = code THEN "running" ELSE "astray"
          /\ \E old \in {code, <<>>} :
               code' = file.body \o SubSeq(old, Len(file.body) + 1, Len(old))
          /\ junk' \in Garbage
     ELSE stage' = "refused" /\ UNCHANGED <<code, junk>>
  /\ UNCHANGED <<prog, toks, parsed, file, cpu, out>>

-----------------------------------------------------------------------------
(* The processor. *)

\* An int as the machine keeps it: the low bits, the highest for the sign.
Wrap(x) == ((x + 2^(Word - 1)) % 2^Word) - 2^(Word - 1)

Fits(x) == x = Wrap(x)

\* Division as C has it: towards zero.
Quotient(x, y) ==
  LET abs(z) == IF z < 0 THEN -z ELSE z
      q == abs(x) \div abs(y)
  IN  IF (x < 0) = (y < 0) THEN q ELSE -q

\* A condition of setcc, after cmp of x and y.
Holds(cc, x, y) ==
  CASE cc = 148 -> x = y [] cc = 149 -> x # y
    [] cc = 156 -> x < y [] cc = 159 -> x > y
    [] cc = 158 -> x <= y [] cc = 157 -> x >= y

Bool(b) == IF b THEN 1 ELSE 0

\* The instruction at ip, or none where no instruction begins.
Fetched == IF cpu.ip \in 0 .. Len(code) - 1 THEN code[cpu.ip + 1] ELSE Filler

\* An instruction that is not a jump, and the processor after it.
Step(op, new) ==
  /\ Fetched.op = op
  /\ cpu' = [new EXCEPT !.ip = @ + Size[op]]
  /\ UNCHANGED <<stage, out>>

Top == Last(cpu.stack)

Popped == Front(cpu.stack)

Moves ==
  \/ Step("push_eax", [cpu EXCEPT !.stack = Append(@, cpu.eax)])
  \/ Step("pop_eax", [cpu EXCEPT !.eax = Top, !.stack = Popped])
  \/ Step("mov_ecx_eax", [cpu EXCEPT !.ecx = cpu.eax])
  \/ Step("mov_eax_imm", [cpu EXCEPT !.eax = Wrap(Fetched.arg)])
  \/ Step("add_esp4", [cpu EXCEPT !.stack = Popped])

\* Where in the stack the local of a load or store lies.
Slot == cpu.ebp - Fetched.arg \div 4

Locals ==
  \/ Step("load", [cpu EXCEPT !.eax = cpu.stack[Slot]])
  \/ Step("store", [cpu EXCEPT !.stack[Slot] = cpu.eax])
  \/ Step("zero", [cpu EXCEPT !.stack[Slot] = 0])

Sums ==
  \/ Step("add", [cpu EXCEPT !.eax = Wrap(@ + cpu.ecx)])
  \/ Step("sub", [cpu EXCEPT !.eax = Wrap(@ - cpu.ecx)])
  \/ Step("imul", [cpu EXCEPT !.eax = Wrap(@ * cpu.ecx)])
  \/ Step("neg", [cpu EXCEPT !.eax = Wrap(-@)])
  \/ Step("cdq", [cpu EXCEPT !.edx = IF cpu.eax < 0 THEN -1 ELSE 0])

\* idiv: the dividend has two words.
Divide ==
  /\ Fetched.op = "idiv"
  /\ LET dividend == cpu.edx * 2^Word + (cpu.eax % 2^Word)
     IN  IF cpu.ecx = 0 \/ ~Fits(Quotient(dividend, cpu.ecx))
         THEN stage' = "panic" /\ UNCHANGED <<cpu, out>>
         ELSE Step("idiv", [cpu EXCEPT !.eax = Quotient(dividend, cpu.ecx)])

Comparisons ==
  \/ Step("cmp", [cpu EXCEPT !.cmp = <<cpu.eax, cpu.ecx>>])
  \/ Step("setcc", [cpu EXCEPT !.al = Bool(Holds(Fetched.arg, cpu.cmp[1], cpu.cmp[2]))])
  \/ Step("movzx", [cpu EXCEPT !.eax = cpu.al])
  \/ Step("test", [cpu EXCEPT !.cmp = <<cpu.eax, 0>>])

\* Where a jump leads: its distance counts from the byte after it.
Target(op) == cpu.ip + Size[op] + code[cpu.ip + Opcode[op] + 1].arg

Jumps ==
  \/ cpu.cmp[1] # 0 /\ Step("jz", cpu)
  \/ /\ Fetched.op = "jz" /\ cpu.cmp[1] = 0
     /\ cpu' = [cpu EXCEPT !.ip = Target("jz")] /\ UNCHANGED <<stage, out>>
  \/ /\ Fetched.op = "jmp"
     /\ cpu' = [cpu EXCEPT !.ip = Target("jmp")] /\ UNCHANGED <<stage, out>>

Frames ==
  \/ Step("push_ebp", [cpu EXCEPT !.stack = Append(@, cpu.ebp)])
  \/ Step("mov_ebp_esp", [cpu EXCEPT !.ebp = Len(cpu.stack)])
  \/ Step("sub_esp", [cpu EXCEPT !.stack = @ \o [k \in 1 .. Fetched.arg |-> junk]])
  \/ Step("mov_esp_ebp", [cpu EXCEPT !.stack = SubSeq(@, 1, cpu.ebp)])
  \/ Step("pop_ebp", [cpu EXCEPT !.ebp = Top, !.stack = Popped])

\* cc_builtin_print keeps the registers that the code relies on.
CallPrint ==
  /\ Fetched.op = "call_eax"
  /\ Len(out) < MaxOutput
  /\ out' = Append(out, Top)
  /\ cpu' = [cpu EXCEPT !.ip = @ + Size["call_eax"]]
  /\ UNCHANGED stage

Return ==
  /\ Fetched.op = "ret"
  /\ stage' = "returned"
  /\ cpu' = [cpu EXCEPT !.ip = Top, !.stack = Popped]
  /\ UNCHANGED out

Execute ==
  /\ stage = "running"
  /\ Moves \/ Locals \/ Sums \/ Divide \/ Comparisons \/ Jumps \/ Frames \/ CallPrint \/ Return
  /\ UNCHANGED <<prog, toks, parsed, file, code, junk>>

Next == CmdCc \/ FileChanges \/ CmdRunFile \/ Execute

Spec == Init /\ [][Next]_vars

-----------------------------------------------------------------------------
(* How a program may be written: what is left of a text behind a piece of   *)
(* it.  Each of these takes a tree off the front of some texts, in every   *)
(* way that it may be written, and gives the texts that are left.          *)

Behind(texts, token) == {Tail(w) : w \in {v \in texts : v # <<>> /\ Head(v) = token}}

\* How tight an operator binds.
Level(op) == IF op \in Relations THEN 1 ELSE IF op \in {"+", "-"} THEN 2 ELSE 3

Binds(n) == IF n.kind = "binop" THEN Level(n.op) ELSE 4

\* The expression n without parentheses around it: operators of one level group to
\* the left, except that comparisons do not follow each other.
TakeBare(behind, n, texts) ==
  CASE n.kind = "num"   -> Behind(texts, Num(n.val))
    [] n.kind = "var"   -> Behind(texts, Ident(n.name))
    [] n.kind = "neg"   -> behind[n.a][4][Behind(texts, Tok("-"))]
    [] n.kind = "binop" ->
         LET left == behind[n.a][IF Level(n.op) = 1 THEN 2 ELSE Level(n.op)][texts]
         IN  behind[n.b][Level(n.op) + 1][Behind(left, Tok(n.op))]

\* The expression where one must bind as tight as that: parentheses help, and may
\* always be there.
TakeExpr(behind, n, level, texts) ==
  (IF Binds(n) < level THEN {} ELSE TakeBare(behind, n, texts))
    \cup Behind(behind[n][1][Behind(texts, Tok("("))], Tok(")"))

\* The expressions of at most size tokens.
BehindExprs(size) ==
  LET behind[d \in 0 .. size] ==
        [n \in ExprTrees(MaxNodes)[MaxNodes] |->
           [level \in 1 .. 4 |->
              [texts \in SUBSET Seq(Tokens) |->
                 IF d = 0 \/ texts = {} THEN {} ELSE TakeExpr(behind[d - 1], n, level, texts)]]]
  IN  behind

BehindExpr(n, texts) == UNION {BehindExprs(Len(w))[Len(w)][n][1][{w}] : w \in texts}

BehindCondition(n, texts) == Behind(BehindExpr(n, Behind(texts, Tok("("))), Tok(")"))

\* What is left behind the expression and the end of a statement.
BehindSimple(n, texts) == Behind(BehindExpr(n.a, texts), Tok(";"))

\* What is left behind the name that the statement begins with.
BehindDecl(n, texts) == Behind(Behind(texts, Tok("int")), Ident(n.v.name))

TakeIf(behind, n, texts) ==
  LET then == behind[n.b][BehindCondition(n.a, Behind(texts, Tok("if")))]
  IN  IF n.c = Nothing THEN then ELSE behind[n.c][Behind(then, Tok("else"))]

TakeStmt(behind, n, texts) ==
  CASE n.kind = "block"  -> Behind(Through(behind, n.body, Behind(texts, Tok("{"))), Tok("}"))
    [] n.kind = "decl"   -> IF n.a = Nothing THEN Behind(BehindDecl(n, texts), Tok(";"))
                            ELSE BehindSimple(n, Behind(BehindDecl(n, texts), Tok("=")))
    [] n.kind = "assign" -> BehindSimple(n, Behind(Behind(texts, Ident(n.v.name)), Tok("=")))
    [] n.kind = "if"     -> TakeIf(behind, n, texts)
    [] n.kind = "while"  -> behind[n.b][BehindCondition(n.a, Behind(texts, Tok("while")))]
    [] n.kind = "print"  -> Behind(BehindCondition(n.a, Behind(texts, Tok("print"))), Tok(";"))
    [] n.kind = "return" -> BehindSimple(n, Behind(texts, Tok("return")))

behindStmt[d \in 0 .. MaxNodes] ==
  [n \in StmtTrees(MaxNodes)[d] |->
     [texts \in SUBSET Seq(Tokens) |-> TakeStmt(behindStmt[d - 1], n, texts)]]

BehindStmt(n, texts) == behindStmt[MaxNodes][n][texts]

BehindMain(texts) ==
  Behind(Behind(Behind(Behind(texts, Tok("int")), Ident("main")), Tok("(")), Tok(")"))

\* The names that main's declarations in the first k tokens introduce: main is
\* the second token.
Introduced(text, k) ==
  {text[j].text : j \in {i \in 5 .. k : text[i].type = "ident" /\ text[i - 1].type = "int"}}

-----------------------------------------------------------------------------
(* Properties. *)

(* While code that cc made runs it runs from instruction to instruction,   *)
(* never into the middle of one or past the end; its locals lie in its     *)
(* frame, and its intermediate values above them; and it returns to its    *)
(* caller with ebp and the stack as they were.                             *)
FrameKept ==
  /\ stage = "running" =>
       /\ Fetched.op \in DOMAIN Size
       /\ cpu.stack[1] = CmdRun
       /\ Fetched.op \in {"load", "store", "zero"} => Slot \in cpu.ebp + 1 .. Len(cpu.stack)
       /\ Fetched.op = "pop_eax" => Len(cpu.stack) > cpu.ebp + Len(parsed.ps.syms)
  /\ stage = "returned" =>
       cpu.ip = CmdRun /\ cpu.ebp = CmdRunEbp /\ cpu.stack = <<>>

\* Every name in the first k tokens is introduced before it is used, and once.
DeclaredOnce(text, k) ==
  \A i \in 5 .. k : text[i].type = "ident" =>
    (text[i - 1].type = "int") # (text[i].text \in Introduced(text, i - 1))

(* What cc accepts begins with a program, token for token: the tree that it *)
(* made is one way to read the text up to where the parser stopped, every  *)
(* parenthesis where it is needed and closed again, and its variables are  *)
(* declared once, before their use.  Whatever token was lost or mistyped,  *)
(* an error later on does not hide the first.                              *)
AcceptsOnlyPrograms ==
  stage = "saved" =>
    /\ SubSeq(toks, parsed.ps.pos, Len(toks)) \in BehindStmt(parsed.n, BehindMain({toks}))
    /\ DeclaredOnce(toks, parsed.ps.pos - 1)

(* A source is "exactly one function" (cc.h:14-15): nothing is left of it   *)
(* behind the program that cc accepts.                                     *)
ReadsWholeSource == stage = "saved" => parsed.ps.pos = Len(toks) + 1

=============================================================================
