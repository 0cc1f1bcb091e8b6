-------------------------- MODULE CompilerProofs ---------------------------
(***************************************************************************)
(* Compiled code keeps its frame, and only programs are compiled, for      *)
(* every source, every size of the compiler's tables and every stack that  *)
(* the program is started on.                                              *)
(*                                                                         *)
(* The argument: the positions of the code have heights (Heights), which   *)
(* say how high the stack is where an instruction begins.  The processor   *)
(* keeps to them (Runs); each part of the code generator makes code that   *)
(* has them (Makes), if what it is made of is a program over the declared  *)
(* locals (ExprTrees, StmtTrees); and the parser makes only those (Reads,  *)
(* StmtReads).  Such a tree is one way to read the tokens that the parser  *)
(* has taken meanwhile (Goes, Spells, StmtSpells).                         *)
(***************************************************************************)
EXTENDS CompilerRun, SequenceTheorems, WellFoundedInduction, TLAPS

\* A non-empty set of numbers has a least one.
LEMMA SomeLeast ==
  ASSUME NEW I, I \subseteq Nat, I # {}
  PROVE  \E m \in I : \A i \in I : m <= i
<1>1. \E m \in I : \A i \in I : ~(<<i, m>> \in OpToRel(<, Nat))
  BY NatLessThanWellFounded, WFMin, Zenon
<1>2. PICK m \in I : \A i \in I : ~(<<i, m>> \in OpToRel(<, Nat))
  BY <1>1
<1>3. \A i, j \in Nat : i < j => <<i, j>> \in OpToRel(<, Nat)
  BY Zenon DEF OpToRel
<1>4. \A i \in I : i \in Nat
  OBVIOUS
<1>5. \A i \in I : ~(i < m)
  BY <1>2, <1>3, <1>4, Zenon
<1>6. \A i \in I : m <= i
  BY <1>4, <1>5
<1> QED
  BY <1>2, <1>6

\* Induction up to N.
Inductive(N, I) == 0 \in I /\ \A d \in 1 .. N : d - 1 \in I => d \in I

LEMMA Induction ==
  ASSUME NEW N \in Nat, NEW I, Inductive(N, I)
  PROVE  \A d \in 0 .. N : d \in I
<1> DEFINE J == {d \in 0 .. N : d \notin I}
<1> SUFFICES ASSUME J # {} PROVE FALSE
  OBVIOUS
<1>1. J \subseteq Nat
  OBVIOUS
<1>2. PICK m \in J : \A i \in J : m <= i
  <2> HIDE DEF J
  <2> QED
    BY <1>1, SomeLeast
<1>3. m \in 1 .. N /\ m \notin I
  BY DEF Inductive
<1>4. m - 1 \in 0 .. N /\ ~(m <= m - 1)
  BY <1>3
<1>5. m - 1 \in I
  BY <1>2, <1>4
<1> QED
  BY <1>3, <1>5 DEF Inductive

-----------------------------------------------------------------------------
(* Heights.  A position of the code where an instruction begins has the    *)
(* height of the stack there: 1 in main's caller's frame, 0 with the       *)
(* caller's ebp pushed as well, and from 2 on that of main's own frame,    *)
(* whose n locals end at 2 + n.  Other positions have -1.                   *)

\* The instructions that only change registers.
Plain ==
  {"mov_ecx_eax", "mov_eax_imm", "add", "sub", "imul", "cdq", "idiv", "neg", "cmp", "setcc",
   "movzx", "test", "jz", "jmp"}

\* The instruction b may stand at height h and leads to height g.
Leads(b, n, h, g) ==
  /\ b.op = "push_ebp" => h = 1 /\ g = 0
  /\ b.op = "mov_ebp_esp" => h = 0 /\ g = 2
  /\ b.op = "sub_esp" => h = 2 /\ b.arg \in Nat /\ g = 2 + b.arg
  /\ b.op = "push_eax" => h >= 2 + n /\ g = h + 1
  /\ b.op \in {"pop_eax", "add_esp4"} => h > 2 + n /\ g = h - 1
  /\ b.op = "call_eax" => h > 2 + n /\ g = h
  /\ b.op \in {"load", "store", "zero"} => (\E k \in 1 .. n : b.arg = -(4 * k)) /\ h >= 2 + n /\ g = h
  /\ b.op = "mov_esp_ebp" => h >= 2 /\ g = 2
  /\ b.op = "pop_ebp" => h = 2 /\ g = 1
  /\ b.op = "ret" => h = 1
  /\ b.op \in Plain => h >= 2 /\ g = h

\* Where the jump at position p of the code s leads.
Leap(s, p) == p + Size[s[p + 1].op] + s[p + Opcode[s[p + 1].op] + 1].arg

\* What holds of position p of the code s with the heights a.
Placed(s, a, n, p) ==
  /\ s[p + 1].op \in DOMAIN Size
  /\ p + Size[s[p + 1].op] <= Len(s)
  /\ \A i \in 1 .. Size[s[p + 1].op] - 1 : a[p + i] = -1
  /\ Leads(s[p + 1], n, a[p], a[p + Size[s[p + 1].op]])
  /\ s[p + 1].op \in DOMAIN Opcode => Leap(s, p) \in 0 .. Len(s) /\ a[Leap(s, p)] = a[p]

\* a gives the heights of the code s.
Heights(s, a, n) ==
  /\ s \in Seq(Bytes) /\ a \in [0 .. Len(s) -> Int]
  /\ \A p \in 0 .. Len(s) - 1 : a[p] >= 0 => Placed(s, a, n, p)

\* The code s keeps its frame, of n locals.
Framed(s, n) == \E a : Heights(s, a, n) /\ a[0] = 1 /\ a[Len(s)] = -1

\* A stack of h words.
Stack(s, h) == h \in Nat /\ s = [k \in 1 .. h |-> s[k]]

Words(h) == IF h = 0 THEN 2 ELSE h

\* The processor c is where the height is h.
At(c, h) ==
  /\ DOMAIN c = DOMAIN AtEntry /\ c = [f \in DOMAIN c |-> c[f]]
  /\ h \in Nat /\ Stack(c.stack, Words(h))
  /\ c.stack[1] = CmdRun
  /\ h # 1 => c.stack[2] = CmdRunEbp
  /\ c.ebp = IF h < 2 THEN CmdRunEbp ELSE 2

-----------------------------------------------------------------------------
(* What instructions make of a stack. *)

LEMMA StackSeq ==
  ASSUME NEW s, NEW h, Stack(s, h)
  PROVE  s \in Seq({s[k] : k \in 1 .. h}) /\ Len(s) = h
<1> DEFINE W == {s[k] : k \in 1 .. h}
<1>1. s \in [1 .. h -> W] /\ h \in Nat
  BY DEF Stack
<1> HIDE DEF W
<1>2. s \in Seq(W) /\ Len(s) = h
  BY <1>1
<1> QED
  BY <1>2 DEF W

PushedOn(s, x) == Append(s, x)

LEMMA Pushed ==
  ASSUME NEW s, NEW h, NEW x, Stack(s, h)
  PROVE  /\ Stack(PushedOn(s, x), h + 1)
         /\ PushedOn(s, x)[h + 1] = x
         /\ \A k \in 1 .. h : PushedOn(s, x)[k] = s[k]
<1> DEFINE t == Append(s, x)
<1> DEFINE W == {s[k] : k \in 1 .. h} \cup {x}
<1>1. s \in Seq(W) /\ Len(s) = h /\ x \in W
  <2>1. s \in [1 .. h -> W]
    BY DEF Stack
  <2> QED
    BY <2>1 DEF Stack
<1> HIDE DEF W
<1>2. t \in Seq(W) /\ Len(t) = h + 1
  BY <1>1
<1>3. \A k \in 1 .. h : t[k] = s[k]
  BY <1>1
<1>4. h + 1 \in Nat
  BY DEF Stack
<1>6. t[h + 1] = x
  BY <1>1, <1>4
<1> HIDE DEF t
<1>5. Stack(t, h + 1)
  BY <1>2, <1>4 DEF Stack
<1> QED
  BY <1>3, <1>5, <1>6 DEF t, PushedOn

LEMMA Cut ==
  ASSUME NEW s, NEW h, Stack(s, h), NEW m \in 0 .. h
  PROVE  /\ Stack(SubSeq(s, 1, m), m)
         /\ \A k \in 1 .. m : SubSeq(s, 1, m)[k] = s[k]
<1> DEFINE W == {s[k] : k \in 1 .. h}
<1>1. s \in Seq(W) /\ Len(s) = h /\ h \in Nat
  BY StackSeq DEF Stack
<1> HIDE DEF W
<1>2. SubSeq(s, 1, m) \in Seq(W) /\ Len(SubSeq(s, 1, m)) = m
  BY <1>1
<1>3. \A k \in 1 .. m : SubSeq(s, 1, m)[k] = s[k]
  BY <1>1
<1>4. SubSeq(s, 1, m) = [k \in 1 .. m |-> SubSeq(s, 1, m)[k]]
  BY <1>2
<1> QED
  BY <1>3, <1>4 DEF Stack

LEMMA PoppedStack ==
  ASSUME NEW s, NEW h, Stack(s, h), h >= 1
  PROVE  /\ Last(s) = s[h]
         /\ Stack(Front(s), h - 1)
         /\ \A k \in 1 .. h - 1 : Front(s)[k] = s[k]
<1>1. Len(s) = h /\ h \in Nat
  BY StackSeq DEF Stack
<1>2. h - 1 \in 0 .. h
  BY <1>1
<1>3. Last(s) = s[h] /\ Front(s) = SubSeq(s, 1, h - 1)
  BY <1>1 DEF Last, Front
<1> QED
  BY <1>2, <1>3, Cut

Widened(s, m, x) == s \o [k \in 1 .. m |-> x]

LEMMA Lengthened ==
  ASSUME NEW s, NEW h, Stack(s, h), NEW m \in Nat, NEW x
  PROVE  /\ Stack(Widened(s, m, x), h + m)
         /\ \A k \in 1 .. h : Widened(s, m, x)[k] = s[k]
<1> DEFINE W == {s[k] : k \in 1 .. h} \cup {x}
           t == [k \in 1 .. m |-> x]
<1>1. s \in Seq(W) /\ Len(s) = h /\ h \in Nat
  <2>1. s \in [1 .. h -> W]
    BY DEF Stack
  <2> QED
    BY <2>1 DEF Stack
<1>2. t \in Seq(W) /\ Len(t) = m
  <2>1. t \in [1 .. m -> W]
    OBVIOUS
  <2> QED
    BY <2>1
<1> HIDE DEF W, t
<1>3. s \o t \in Seq(W) /\ Len(s \o t) = h + m
  BY <1>1, <1>2
<1>4. \A k \in 1 .. h : (s \o t)[k] = s[k]
  BY <1>1, <1>2
<1>5. h + m \in Nat
  BY <1>1
<1> DEFINE u == s \o t
<1>6. u \in Seq(W) /\ Len(u) = h + m
  BY <1>3
<1>7. u = Widened(s, m, x)
  BY DEF t, Widened
<1> HIDE DEF u
<1>8. Stack(u, h + m)
  BY <1>5, <1>6 DEF Stack
<1> QED
  BY <1>4, <1>7, <1>8 DEF u

LEMMA Stored ==
  ASSUME NEW s, NEW h, Stack(s, h), NEW i, NEW x
  PROVE  /\ Stack([s EXCEPT ![i] = x], h)
         /\ \A k \in 1 .. h : k # i => [s EXCEPT ![i] = x][k] = s[k]
  BY DEF Stack

-----------------------------------------------------------------------------
(* The processor. *)

\* The code runs from instruction to instruction: a gives the heights of it.
Runs(a, n) ==
  /\ n \in Nat /\ Heights(code, a, n) /\ a[Len(code)] = -1
  /\ cpu.ip \in 0 .. Len(code) /\ a[cpu.ip] >= 0
  /\ At(cpu, a[cpu.ip])

LEMMA FetchedPlaced ==
  ASSUME NEW a, NEW n, Runs(a, n)
  PROVE  /\ cpu.ip \in 0 .. Len(code) - 1 /\ Fetched = code[cpu.ip + 1]
         /\ Placed(code, a, n, cpu.ip) /\ a[cpu.ip] \in Nat
<1>1. Len(code) \in Nat /\ cpu.ip # Len(code) /\ a[cpu.ip] \in Int
  BY DEF Runs, Heights
<1>2. cpu.ip \in 0 .. Len(code) - 1
  BY <1>1 DEF Runs
<1>3. Placed(code, a, n, cpu.ip)
  BY <1>2 DEF Runs, Heights
<1> QED
  BY <1>1, <1>2, <1>3 DEF Runs, Fetched

\* The height after the instruction at ip.
Following(a) == a[cpu.ip + Size[Fetched.op]]

LEMMA FetchedLeads ==
  ASSUME NEW a, NEW n, Runs(a, n)
  PROVE  /\ Fetched.op \in DOMAIN Size
         /\ cpu.ip + Size[Fetched.op] \in 0 .. Len(code)
         /\ Leads(Fetched, n, a[cpu.ip], Following(a))
<1>1. /\ cpu.ip \in 0 .. Len(code) - 1 /\ Fetched = code[cpu.ip + 1]
      /\ Placed(code, a, n, cpu.ip)
  BY FetchedPlaced
<1>2. /\ Fetched.op \in DOMAIN Size /\ cpu.ip + Size[Fetched.op] <= Len(code)
      /\ Leads(Fetched, n, a[cpu.ip], a[cpu.ip + Size[Fetched.op]])
  BY <1>1 DEF Placed
<1>3. Size[Fetched.op] \in Nat
  BY <1>2 DEF Size
<1>4. Len(code) \in Nat
  BY DEF Runs, Heights
<1> QED
  BY <1>1, <1>2, <1>3, <1>4 DEF Following

\* A step to the next instruction keeps the heights, if the processor fits the
\* height that the instruction leads to.
LEMMA StepRuns ==
  ASSUME NEW a, NEW n, Runs(a, n), NEW op, NEW new, Step(op, new), code' = code,
         new.ip = cpu.ip, At(new, Following(a)), "ip" \in DOMAIN new
  PROVE  Runs(a, n)'
<1> DEFINE q == cpu.ip + Size[op]
<1>1. Fetched.op = op /\ cpu' = [new EXCEPT !.ip = @ + Size[op]]
  BY DEF Step
<1>2. q \in 0 .. Len(code) /\ Following(a) = a[q]
  BY <1>1, FetchedLeads DEF Following
<1>3. cpu'.ip = q
  BY <1>1
<1>4. At(cpu', a[q])
  <2>1. At(new, a[q])
    BY <1>2
  <2>2. /\ DOMAIN cpu' = DOMAIN new /\ cpu' = [f \in DOMAIN cpu' |-> cpu'[f]]
        /\ cpu'.stack = new.stack /\ cpu'.ebp = new.ebp
    BY <1>1, <2>1 DEF At
  <2> QED
    BY <2>1, <2>2 DEF At
<1>5. a[q] >= 0
  BY <1>4 DEF At
<1> QED
  BY <1>2, <1>3, <1>4, <1>5 DEF Runs

\* An instruction that leaves stack and ebp alone.
LEMMA PlainRuns ==
  ASSUME NEW a, NEW n, Runs(a, n), NEW op, NEW new, Step(op, new), code' = code,
         op \in Plain \cup {"load"},
         DOMAIN new = DOMAIN cpu, new = [f \in DOMAIN new |-> new[f]],
         new.stack = cpu.stack, new.ebp = cpu.ebp, new.ip = cpu.ip
  PROVE  Runs(a, n)'
<1>1. Fetched.op = op
  BY DEF Step
<1>2. Following(a) = a[cpu.ip]
  <2>1. Leads(Fetched, n, a[cpu.ip], Following(a))
    BY FetchedLeads
  <2> QED
    BY <1>1, <2>1 DEF Leads
<1>3. At(cpu, a[cpu.ip])
  BY DEF Runs
<1>4. At(new, Following(a))
  BY <1>2, <1>3 DEF At
<1>5. "ip" \in DOMAIN new
  BY <1>3 DEF At, AtEntry
<1> QED
  BY <1>4, <1>5, StepRuns

LEMMA RegisterRuns ==
  ASSUME NEW a, NEW n, Runs(a, n), code' = code, NEW op \in Plain \cup {"load"},
         NEW f \in {"eax", "ecx", "edx", "al", "cmp"}, NEW x, Step(op, [cpu EXCEPT ![f] = x])
  PROVE  Runs(a, n)'
<1> DEFINE new == [cpu EXCEPT ![f] = x]
<1>1. DOMAIN cpu = DOMAIN AtEntry /\ cpu = [r \in DOMAIN cpu |-> cpu[r]]
  BY DEF Runs, At
<1>2. /\ DOMAIN new = DOMAIN cpu /\ new = [r \in DOMAIN new |-> new[r]]
      /\ new.stack = cpu.stack /\ new.ebp = cpu.ebp /\ new.ip = cpu.ip
  BY <1>1 DEF AtEntry
<1>3. Step(op, new)
  OBVIOUS
<1> HIDE DEF new
<1> QED
  BY <1>2, <1>3, PlainRuns

\* An instruction that makes the stack s: h words high.
LEMMA StackRuns ==
  ASSUME NEW a, NEW n, Runs(a, n), NEW op, NEW new, Step(op, new), code' = code,
         DOMAIN new = DOMAIN cpu, new = [f \in DOMAIN new |-> new[f]], new.ip = cpu.ip,
         Following(a) \in Nat, Following(a) >= 2, a[cpu.ip] >= 2, new.ebp = cpu.ebp,
         Stack(new.stack, Following(a)), new.stack[1] = cpu.stack[1], new.stack[2] = cpu.stack[2]
  PROVE  Runs(a, n)'
<1>1. At(cpu, a[cpu.ip])
  BY DEF Runs
<1>2. /\ cpu.stack[1] = CmdRun /\ cpu.stack[2] = CmdRunEbp /\ cpu.ebp = 2
      /\ DOMAIN cpu = DOMAIN AtEntry
  BY <1>1 DEF At
<1>3. Words(Following(a)) = Following(a)
  BY DEF Words
<1>4. At(new, Following(a))
  BY <1>2, <1>3 DEF At
<1>5. "ip" \in DOMAIN new
  BY <1>2 DEF AtEntry
<1> QED
  BY <1>4, <1>5, StepRuns

\* What is known of the stack in main's own frame.
LEMMA OwnFrame ==
  ASSUME NEW a, NEW n, Runs(a, n), a[cpu.ip] >= 2
  PROVE  /\ a[cpu.ip] \in Nat /\ n \in Nat /\ Stack(cpu.stack, a[cpu.ip]) /\ cpu.ebp = 2
         /\ cpu.stack[1] = CmdRun /\ cpu.stack[2] = CmdRunEbp
         /\ Len(cpu.stack) = a[cpu.ip]
         /\ DOMAIN cpu = DOMAIN AtEntry /\ cpu = [f \in DOMAIN cpu |-> cpu[f]]
<1>1. At(cpu, a[cpu.ip])
  BY DEF Runs
<1>2. /\ a[cpu.ip] \in Nat /\ Stack(cpu.stack, a[cpu.ip]) /\ cpu.ebp = 2
      /\ cpu.stack[1] = CmdRun /\ cpu.stack[2] = CmdRunEbp
      /\ DOMAIN cpu = DOMAIN AtEntry /\ cpu = [f \in DOMAIN cpu |-> cpu[f]]
  BY <1>1 DEF At, Words
<1>3. n \in Nat
  BY DEF Runs
<1> QED
  BY <1>2, <1>3, StackSeq

LEMMA MovesRun ==
  ASSUME NEW a, NEW n, Runs(a, n), Moves, code' = code
  PROVE  Runs(a, n)'
<1>1. At(cpu, a[cpu.ip]) /\ n \in Nat
  BY DEF Runs
<1>2. DOMAIN cpu = DOMAIN AtEntry /\ cpu = [f \in DOMAIN cpu |-> cpu[f]] /\ a[cpu.ip] \in Nat
  BY <1>1 DEF At
<1>3. Leads(Fetched, n, a[cpu.ip], Following(a))
  BY FetchedLeads
<1>4. CASE Step("push_eax", [cpu EXCEPT !.stack = Append(@, cpu.eax)])
  <2> DEFINE new == [cpu EXCEPT !.stack = Append(@, cpu.eax)]
  <2>1. Fetched.op = "push_eax"
    BY <1>4 DEF Step
  <2>2. a[cpu.ip] >= 2 /\ Following(a) = a[cpu.ip] + 1
    BY <1>1, <1>2, <1>3, <2>1 DEF Leads
  <2>3. Stack(cpu.stack, a[cpu.ip])
    BY <2>2, OwnFrame
  <2>4. /\ new.stack = Append(cpu.stack, cpu.eax) /\ new.ebp = cpu.ebp /\ new.ip = cpu.ip
        /\ DOMAIN new = DOMAIN cpu /\ new = [f \in DOMAIN new |-> new[f]]
    BY <1>2 DEF AtEntry
  <2>5. /\ Stack(new.stack, Following(a)) /\ new.stack[1] = cpu.stack[1] /\ new.stack[2] = cpu.stack[2]
    <3>1. new.stack = PushedOn(cpu.stack, cpu.eax)
      BY <2>4 DEF PushedOn
    <3> HIDE DEF new
    <3> QED
      BY <1>2, <2>2, <2>3, <3>1, Pushed
  <2>6. Following(a) \in Nat /\ Following(a) >= 2
    BY <1>2, <2>2
  <2>7. Step("push_eax", new)
    BY <1>4
  <2> HIDE DEF new
  <2> QED
    BY <2>2, <2>4, <2>5, <2>6, <2>7, StackRuns
<1>5. CASE Step("pop_eax", [cpu EXCEPT !.eax = Top, !.stack = Popped])
  <2> DEFINE new == [cpu EXCEPT !.eax = Top, !.stack = Popped]
  <2>1. Fetched.op = "pop_eax"
    BY <1>5 DEF Step
  <2>2. a[cpu.ip] > 2 /\ Following(a) = a[cpu.ip] - 1
    BY <1>1, <1>2, <1>3, <2>1 DEF Leads
  <2>3. Stack(cpu.stack, a[cpu.ip])
    BY <1>2, <2>2, OwnFrame
  <2>4. /\ new.stack = Front(cpu.stack) /\ new.ebp = cpu.ebp /\ new.ip = cpu.ip
        /\ DOMAIN new = DOMAIN cpu /\ new = [f \in DOMAIN new |-> new[f]]
    BY <1>2 DEF AtEntry, Popped
  <2>5. /\ Stack(new.stack, Following(a)) /\ new.stack[1] = cpu.stack[1] /\ new.stack[2] = cpu.stack[2]
    BY <1>2, <2>2, <2>3, <2>4, PoppedStack
  <2>6. Following(a) \in Nat /\ Following(a) >= 2 /\ a[cpu.ip] >= 2
    BY <1>2, <2>2
  <2>7. Step("pop_eax", new)
    BY <1>5
  <2> HIDE DEF new
  <2> QED
    BY <2>4, <2>5, <2>6, <2>7, StackRuns
<1>6. CASE Step("mov_ecx_eax", [cpu EXCEPT !.ecx = cpu.eax])
  BY <1>6, RegisterRuns DEF Plain
<1>7. CASE Step("mov_eax_imm", [cpu EXCEPT !.eax = Wrap(Fetched.arg)])
  BY <1>7, RegisterRuns DEF Plain
<1>8. CASE Step("add_esp4", [cpu EXCEPT !.stack = Popped])
  <2> DEFINE new == [cpu EXCEPT !.stack = Popped]
  <2>1. Fetched.op = "add_esp4"
    BY <1>8 DEF Step
  <2>2. a[cpu.ip] > 2 /\ Following(a) = a[cpu.ip] - 1
    BY <1>1, <1>2, <1>3, <2>1 DEF Leads
  <2>3. Stack(cpu.stack, a[cpu.ip])
    BY <1>2, <2>2, OwnFrame
  <2>4. /\ new.stack = Front(cpu.stack) /\ new.ebp = cpu.ebp /\ new.ip = cpu.ip
        /\ DOMAIN new = DOMAIN cpu /\ new = [f \in DOMAIN new |-> new[f]]
    BY <1>2 DEF AtEntry, Popped
  <2>5. /\ Stack(new.stack, Following(a)) /\ new.stack[1] = cpu.stack[1] /\ new.stack[2] = cpu.stack[2]
    BY <1>2, <2>2, <2>3, <2>4, PoppedStack
  <2>6. Following(a) \in Nat /\ Following(a) >= 2 /\ a[cpu.ip] >= 2
    BY <1>2, <2>2
  <2>7. Step("add_esp4", new)
    BY <1>8
  <2> HIDE DEF new
  <2> QED
    BY <2>4, <2>5, <2>6, <2>7, StackRuns
<1> QED
  BY <1>4, <1>5, <1>6, <1>7, <1>8 DEF Moves

LEMMA SlotOf ==
  ASSUME NEW a, NEW n, Runs(a, n), Fetched.op \in {"load", "store", "zero"}
  PROVE  Slot \in 3 .. 2 + n /\ a[cpu.ip] >= 2 + n /\ a[cpu.ip] \in Nat /\ n \in Nat
         /\ Following(a) = a[cpu.ip]
<1>1. n \in Nat /\ a[cpu.ip] \in Nat
  BY FetchedPlaced DEF Runs
<1>2. Leads(Fetched, n, a[cpu.ip], Following(a))
  BY FetchedLeads
<1>3. /\ \E k \in 1 .. n : Fetched.arg = -(4 * k)
      /\ a[cpu.ip] >= 2 + n /\ Following(a) = a[cpu.ip]
  BY <1>2 DEF Leads
<1>4. cpu.ebp = 2
  BY <1>1, <1>3, OwnFrame
<1>5. PICK k \in 1 .. n : Fetched.arg = -(4 * k)
  BY <1>3
<1>6. (-(4 * k)) \div 4 = -k
  BY <1>5
<1>7. Slot = 2 + k
  BY <1>1, <1>4, <1>5, <1>6 DEF Slot
<1> QED
  BY <1>1, <1>3, <1>5, <1>7

\* A local is written.
LEMMA WriteRuns ==
  ASSUME NEW a, NEW n, Runs(a, n), code' = code, NEW op \in {"store", "zero"},
         NEW x, Step(op, [cpu EXCEPT !.stack[Slot] = x])
  PROVE  Runs(a, n)'
<1> DEFINE new == [cpu EXCEPT !.stack[Slot] = x]
<1>1. Fetched.op = op /\ Step(op, new)
  BY DEF Step
<1>2. Slot \in 3 .. 2 + n /\ a[cpu.ip] >= 2 + n /\ a[cpu.ip] \in Nat /\ n \in Nat
      /\ Following(a) = a[cpu.ip]
  BY <1>1, SlotOf
<1>3. /\ Stack(cpu.stack, a[cpu.ip]) /\ DOMAIN cpu = DOMAIN AtEntry
      /\ cpu = [f \in DOMAIN cpu |-> cpu[f]]
  BY <1>2, OwnFrame
<1>4. /\ new.stack = [cpu.stack EXCEPT ![Slot] = x] /\ new.ebp = cpu.ebp /\ new.ip = cpu.ip
      /\ DOMAIN new = DOMAIN cpu /\ new = [f \in DOMAIN new |-> new[f]]
  BY <1>3 DEF AtEntry
<1> HIDE DEF new
<1>5. /\ Stack(new.stack, Following(a)) /\ new.stack[1] = cpu.stack[1] /\ new.stack[2] = cpu.stack[2]
  <2>1. 1 \in 1 .. a[cpu.ip] /\ 2 \in 1 .. a[cpu.ip] /\ 1 # Slot /\ 2 # Slot
    BY <1>2
  <2>2. Stack([cpu.stack EXCEPT ![Slot] = x], a[cpu.ip])
    BY <1>3, Stored
  <2>3. \A j \in 1 .. a[cpu.ip] : j # Slot => [cpu.stack EXCEPT ![Slot] = x][j] = cpu.stack[j]
    BY <1>3, Stored
  <2>4. Following(a) = a[cpu.ip] /\ new.stack = [cpu.stack EXCEPT ![Slot] = x]
    BY <1>2, <1>4
  <2> QED
    BY <2>1, <2>2, <2>3, <2>4
<1>6. Following(a) \in Nat /\ Following(a) >= 2 /\ a[cpu.ip] >= 2
  BY <1>2
<1>7. Step(op, new)
  BY <1>1 DEF new
<1> QED
  BY <1>4, <1>5, <1>6, <1>7, StackRuns

LEMMA LocalsRun ==
  ASSUME NEW a, NEW n, Runs(a, n), Locals, code' = code
  PROVE  Runs(a, n)'
<1>1. CASE Step("load", [cpu EXCEPT !.eax = cpu.stack[Slot]])
  BY <1>1, RegisterRuns
<1>2. CASE Step("store", [cpu EXCEPT !.stack[Slot] = cpu.eax])
  BY <1>2, WriteRuns
<1>3. CASE Step("zero", [cpu EXCEPT !.stack[Slot] = 0])
  BY <1>3, WriteRuns
<1> QED
  BY <1>1, <1>2, <1>3 DEF Locals

LEMMA SumsRun ==
  ASSUME NEW a, NEW n, Runs(a, n), Sums, code' = code
  PROVE  Runs(a, n)'
<1>1. CASE Step("add", [cpu EXCEPT !.eax = Wrap(@ + cpu.ecx)])
  BY <1>1, RegisterRuns DEF Plain
<1>2. CASE Step("sub", [cpu EXCEPT !.eax = Wrap(@ - cpu.ecx)])
  BY <1>2, RegisterRuns DEF Plain
<1>3. CASE Step("imul", [cpu EXCEPT !.eax = Wrap(@ * cpu.ecx)])
  BY <1>3, RegisterRuns DEF Plain
<1>4. CASE Step("neg", [cpu EXCEPT !.eax = Wrap(-@)])
  BY <1>4, RegisterRuns DEF Plain
<1>5. CASE Step("cdq", [cpu EXCEPT !.edx = IF cpu.eax < 0 THEN -1 ELSE 0])
  BY <1>5, RegisterRuns DEF Plain
<1> QED
  BY <1>1, <1>2, <1>3, <1>4, <1>5 DEF Sums

LEMMA DivideRuns ==
  ASSUME NEW a, NEW n, Runs(a, n), Divide, code' = code, stage' # "panic"
  PROVE  Runs(a, n)'
<1>1. PICK x : Step("idiv", [cpu EXCEPT !.eax = x])
  BY DEF Divide
<1> QED
  BY <1>1, RegisterRuns DEF Plain

LEMMA ComparisonsRun ==
  ASSUME NEW a, NEW n, Runs(a, n), Comparisons, code' = code
  PROVE  Runs(a, n)'
<1>1. CASE Step("cmp", [cpu EXCEPT !.cmp = <<cpu.eax, cpu.ecx>>])
  BY <1>1, RegisterRuns DEF Plain
<1>2. CASE Step("setcc", [cpu EXCEPT !.al = Bool(Holds(Fetched.arg, cpu.cmp[1], cpu.cmp[2]))])
  BY <1>2, RegisterRuns DEF Plain
<1>3. CASE Step("movzx", [cpu EXCEPT !.eax = cpu.al])
  BY <1>3, RegisterRuns DEF Plain
<1>4. CASE Step("test", [cpu EXCEPT !.cmp = <<cpu.eax, 0>>])
  BY <1>4, RegisterRuns DEF Plain
<1> QED
  BY <1>1, <1>2, <1>3, <1>4 DEF Comparisons

\* A jump that is taken.
LEMMA LeapRuns ==
  ASSUME NEW a, NEW n, Runs(a, n), code' = code, NEW op \in DOMAIN Opcode, Fetched.op = op,
         cpu' = [cpu EXCEPT !.ip = Target(op)]
  PROVE  Runs(a, n)'
<1>1. /\ cpu.ip \in 0 .. Len(code) - 1 /\ Fetched = code[cpu.ip + 1]
      /\ Placed(code, a, n, cpu.ip) /\ a[cpu.ip] \in Nat
  BY FetchedPlaced
<1>2. Target(op) = Leap(code, cpu.ip)
  BY <1>1 DEF Target, Leap
<1>3. Target(op) \in 0 .. Len(code) /\ a[Target(op)] = a[cpu.ip]
  BY <1>1, <1>2 DEF Placed
<1>4. At(cpu, a[cpu.ip])
  BY DEF Runs
<1>5. cpu'.ip = Target(op) /\ At(cpu', a[cpu.ip])
  <2>1. DOMAIN cpu = DOMAIN AtEntry /\ cpu = [f \in DOMAIN cpu |-> cpu[f]]
    BY <1>4 DEF At
  <2>2. /\ DOMAIN cpu' = DOMAIN cpu /\ cpu' = [f \in DOMAIN cpu' |-> cpu'[f]]
        /\ cpu'.stack = cpu.stack /\ cpu'.ebp = cpu.ebp /\ cpu'.ip = Target(op)
    BY <2>1 DEF AtEntry
  <2> QED
    BY <1>4, <2>2 DEF At
<1> QED
  BY <1>1, <1>3, <1>5 DEF Runs

LEMMA JumpsRun ==
  ASSUME NEW a, NEW n, Runs(a, n), Jumps, code' = code
  PROVE  Runs(a, n)'
<1>1. CASE Step("jz", cpu)
  <2>1. At(cpu, a[cpu.ip])
    BY DEF Runs
  <2>2. cpu = [r \in DOMAIN cpu |-> cpu[r]]
    BY <2>1 DEF At
  <2> QED
    BY <1>1, <2>2, PlainRuns DEF Plain
<1>2. CASE Fetched.op = "jz" /\ cpu' = [cpu EXCEPT !.ip = Target("jz")]
  BY <1>2, LeapRuns DEF Opcode
<1>3. CASE Fetched.op = "jmp" /\ cpu' = [cpu EXCEPT !.ip = Target("jmp")]
  BY <1>3, LeapRuns DEF Opcode
<1> QED
  BY <1>1, <1>2, <1>3 DEF Jumps

LEMMA FramesRun ==
  ASSUME NEW a, NEW n, Runs(a, n), Frames, code' = code
  PROVE  Runs(a, n)'
<1> DEFINE h == a[cpu.ip]
<1>1. At(cpu, h) /\ n \in Nat
  BY DEF Runs
<1>2. /\ DOMAIN cpu = DOMAIN AtEntry /\ cpu = [f \in DOMAIN cpu |-> cpu[f]] /\ h \in Nat
      /\ Stack(cpu.stack, Words(h)) /\ cpu.stack[1] = CmdRun
      /\ h # 1 => cpu.stack[2] = CmdRunEbp
      /\ cpu.ebp = IF h < 2 THEN CmdRunEbp ELSE 2
  BY <1>1 DEF At
<1>3. Leads(Fetched, n, h, Following(a))
  BY FetchedLeads
<1> HIDE DEF h
<1>4. CASE Step("push_ebp", [cpu EXCEPT !.stack = Append(@, cpu.ebp)])
  <2> DEFINE new == [cpu EXCEPT !.stack = Append(@, cpu.ebp)]
  <2>1. Fetched.op = "push_ebp" /\ Step("push_ebp", new)
    BY <1>4 DEF Step
  <2>2. h = 1 /\ Following(a) = 0
    BY <1>3, <2>1 DEF Leads
  <2>3. /\ new.stack = PushedOn(cpu.stack, cpu.ebp) /\ new.ebp = cpu.ebp /\ new.ip = cpu.ip
        /\ DOMAIN new = DOMAIN cpu /\ new = [f \in DOMAIN new |-> new[f]]
    BY <1>2 DEF AtEntry, PushedOn
  <2>4. "ip" \in DOMAIN new
    BY <1>2, <2>3 DEF AtEntry
  <2> HIDE DEF new
  <2>5. Stack(cpu.stack, 1) /\ cpu.ebp = CmdRunEbp
    BY <1>2, <2>2 DEF Words
  <2>6. Stack(new.stack, 2) /\ new.stack[1] = CmdRun /\ new.stack[2] = CmdRunEbp
    BY <1>2, <2>2, <2>3, <2>5, Pushed
  <2>7. At(new, 0)
    BY <1>2, <2>3, <2>5, <2>6 DEF At, Words
  <2> QED
    BY <2>1, <2>2, <2>3, <2>4, <2>7, StepRuns
<1>5. CASE Step("mov_ebp_esp", [cpu EXCEPT !.ebp = Len(cpu.stack)])
  <2> DEFINE new == [cpu EXCEPT !.ebp = Len(cpu.stack)]
  <2>1. Fetched.op = "mov_ebp_esp" /\ Step("mov_ebp_esp", new)
    BY <1>5 DEF Step
  <2>2. h = 0 /\ Following(a) = 2
    BY <1>3, <2>1 DEF Leads
  <2>3. /\ new.stack = cpu.stack /\ new.ebp = Len(cpu.stack) /\ new.ip = cpu.ip
        /\ DOMAIN new = DOMAIN cpu /\ new = [f \in DOMAIN new |-> new[f]]
    BY <1>2 DEF AtEntry
  <2>4. "ip" \in DOMAIN new
    BY <1>2, <2>3 DEF AtEntry
  <2> HIDE DEF new
  <2>5. Stack(cpu.stack, 2) /\ Len(cpu.stack) = 2
    BY <1>2, <2>2, StackSeq DEF Words
  <2>6. At(new, 2)
    BY <1>2, <2>2, <2>3, <2>5 DEF At, Words
  <2> QED
    BY <2>1, <2>2, <2>3, <2>4, <2>6, StepRuns
<1>6. CASE Step("sub_esp", [cpu EXCEPT !.stack = @ \o [k \in 1 .. Fetched.arg |-> junk]])
  <2> DEFINE new == [cpu EXCEPT !.stack = @ \o [k \in 1 .. Fetched.arg |-> junk]]
  <2>1. Fetched.op = "sub_esp" /\ Step("sub_esp", new)
    BY <1>6 DEF Step
  <2>2. h = 2 /\ Fetched.arg \in Nat /\ Following(a) = 2 + Fetched.arg
    BY <1>3, <2>1 DEF Leads
  <2>3. /\ new.stack = Widened(cpu.stack, Fetched.arg, junk) /\ new.ebp = cpu.ebp
        /\ new.ip = cpu.ip
        /\ DOMAIN new = DOMAIN cpu /\ new = [f \in DOMAIN new |-> new[f]]
    BY <1>2 DEF AtEntry, Widened
  <2> HIDE DEF new
  <2>4. Stack(cpu.stack, 2)
    BY <1>2, <2>2 DEF Words
  <2>5. /\ Stack(new.stack, 2 + Fetched.arg)
        /\ new.stack[1] = cpu.stack[1] /\ new.stack[2] = cpu.stack[2]
    BY <2>2, <2>3, <2>4, Lengthened
  <2>6. a[cpu.ip] >= 2 /\ Following(a) \in Nat /\ Following(a) >= 2
    BY <2>2 DEF h
  <2> QED
    BY <2>1, <2>2, <2>3, <2>5, <2>6, StackRuns
<1>7. CASE Step("mov_esp_ebp", [cpu EXCEPT !.stack = SubSeq(@, 1, cpu.ebp)])
  <2> DEFINE new == [cpu EXCEPT !.stack = SubSeq(@, 1, cpu.ebp)]
  <2>1. Fetched.op = "mov_esp_ebp" /\ Step("mov_esp_ebp", new)
    BY <1>7 DEF Step
  <2>2. h >= 2 /\ Following(a) = 2
    BY <1>3, <2>1 DEF Leads
  <2>3. /\ new.stack = SubSeq(cpu.stack, 1, cpu.ebp) /\ new.ebp = cpu.ebp /\ new.ip = cpu.ip
        /\ DOMAIN new = DOMAIN cpu /\ new = [f \in DOMAIN new |-> new[f]]
    BY <1>2 DEF AtEntry
  <2> HIDE DEF new
  <2>4. Stack(cpu.stack, h) /\ cpu.ebp = 2
    BY <1>2, <2>2 DEF Words
  <2>5. /\ Stack(new.stack, 2)
        /\ new.stack[1] = cpu.stack[1] /\ new.stack[2] = cpu.stack[2]
    BY <1>2, <2>2, <2>3, <2>4, Cut
  <2>6. a[cpu.ip] >= 2 /\ Following(a) \in Nat /\ Following(a) >= 2
    BY <2>2 DEF h
  <2> QED
    BY <2>1, <2>2, <2>3, <2>5, <2>6, StackRuns
<1>8. CASE Step("pop_ebp", [cpu EXCEPT !.ebp = Top, !.stack = Popped])
  <2> DEFINE new == [cpu EXCEPT !.ebp = Top, !.stack = Popped]
  <2>1. Fetched.op = "pop_ebp" /\ Step("pop_ebp", new)
    BY <1>8 DEF Step
  <2>2. h = 2 /\ Following(a) = 1
    BY <1>3, <2>1 DEF Leads
  <2>3. /\ new.stack = Front(cpu.stack) /\ new.ebp = Last(cpu.stack) /\ new.ip = cpu.ip
        /\ DOMAIN new = DOMAIN cpu /\ new = [f \in DOMAIN new |-> new[f]]
    BY <1>2 DEF AtEntry, Top, Popped
  <2>4. "ip" \in DOMAIN new
    BY <1>2, <2>3 DEF AtEntry
  <2> HIDE DEF new
  <2>5. Stack(cpu.stack, 2) /\ cpu.stack[2] = CmdRunEbp
    BY <1>2, <2>2 DEF Words
  <2>6. Stack(new.stack, 1) /\ new.stack[1] = CmdRun /\ new.ebp = CmdRunEbp
    BY <1>2, <2>3, <2>5, PoppedStack
  <2>7. At(new, 1)
    BY <1>2, <2>3, <2>6 DEF At, Words
  <2> QED
    BY <2>1, <2>2, <2>3, <2>4, <2>7, StepRuns
<1> QED
  BY <1>4, <1>5, <1>6, <1>7, <1>8 DEF Frames

LEMMA CallRuns ==
  ASSUME NEW a, NEW n, Runs(a, n), CallPrint, code' = code
  PROVE  Runs(a, n)'
<1>1. At(cpu, a[cpu.ip])
  BY DEF Runs
<1>2. DOMAIN cpu = DOMAIN AtEntry /\ cpu = [f \in DOMAIN cpu |-> cpu[f]]
  BY <1>1 DEF At
<1>3. Fetched.op = "call_eax" /\ cpu' = [cpu EXCEPT !.ip = @ + Size["call_eax"]]
  BY DEF CallPrint
<1> DEFINE q == cpu.ip + Size["call_eax"]
<1>4. q \in 0 .. Len(code) /\ a[q] = a[cpu.ip]
  <2>1. Leads(Fetched, n, a[cpu.ip], Following(a)) /\ cpu.ip + Size[Fetched.op] \in 0 .. Len(code)
    BY FetchedLeads
  <2> QED
    BY <1>3, <2>1 DEF Leads, Following
<1>5. /\ DOMAIN cpu' = DOMAIN cpu /\ cpu' = [f \in DOMAIN cpu' |-> cpu'[f]]
      /\ cpu'.stack = cpu.stack /\ cpu'.ebp = cpu.ebp /\ cpu'.ip = q
  BY <1>2, <1>3 DEF AtEntry
<1>6. At(cpu', a[cpu.ip])
  BY <1>1, <1>5 DEF At
<1> HIDE DEF q
<1> QED
  BY <1>4, <1>5, <1>6 DEF Runs

\* main's end leaves its caller's frame.
LEMMA ReturnLeaves ==
  ASSUME NEW a, NEW n, Runs(a, n), Return
  PROVE  cpu'.ip = CmdRun /\ cpu'.ebp = CmdRunEbp /\ cpu'.stack = <<>>
<1> DEFINE h == a[cpu.ip]
<1>1. At(cpu, h)
  BY DEF Runs
<1>2. Leads(Fetched, n, h, Following(a))
  BY FetchedLeads
<1>3. h = 1
  BY <1>2 DEF Leads, Return
<1> HIDE DEF h
<1>4. /\ DOMAIN cpu = DOMAIN AtEntry /\ Stack(cpu.stack, 1) /\ cpu.stack[1] = CmdRun
      /\ cpu.ebp = CmdRunEbp
  BY <1>1, <1>3 DEF At, Words
<1>5. Last(cpu.stack) = CmdRun /\ Front(cpu.stack) = <<>>
  <2>1. Stack(Front(cpu.stack), 0) /\ Last(cpu.stack) = CmdRun
    BY <1>4, PoppedStack
  <2>2. Front(cpu.stack) = [k \in 1 .. 0 |-> Front(cpu.stack)[k]]
    BY <2>1 DEF Stack
  <2>3. Front(cpu.stack) \in Seq({}) /\ Len(Front(cpu.stack)) = 0
    BY <2>1, StackSeq
  <2> QED
    BY <2>1, <2>3
<1>6. cpu' = [cpu EXCEPT !.ip = Last(cpu.stack), !.stack = Front(cpu.stack)]
  BY DEF Return, Top, Popped
<1> QED
  BY <1>4, <1>5, <1>6 DEF AtEntry

\* What FrameKept says of a processor that runs.
LEMMA RunsFrame ==
  ASSUME NEW a, NEW n, Runs(a, n)
  PROVE  /\ Fetched.op \in DOMAIN Size
         /\ cpu.stack[1] = CmdRun
         /\ Fetched.op \in {"load", "store", "zero"} => Slot \in cpu.ebp + 1 .. Len(cpu.stack)
         /\ Fetched.op = "pop_eax" => Len(cpu.stack) > cpu.ebp + n
<1>1. Fetched.op \in DOMAIN Size /\ Leads(Fetched, n, a[cpu.ip], Following(a))
  BY FetchedLeads
<1>2. cpu.stack[1] = CmdRun
  BY DEF Runs, At
<1>3. ASSUME Fetched.op \in {"load", "store", "zero"}
      PROVE  Slot \in cpu.ebp + 1 .. Len(cpu.stack)
  <2>1. Slot \in 3 .. 2 + n /\ a[cpu.ip] >= 2 + n /\ a[cpu.ip] \in Nat /\ n \in Nat
    BY <1>3, SlotOf
  <2>2. cpu.ebp = 2 /\ Len(cpu.stack) = a[cpu.ip]
    BY <2>1, OwnFrame
  <2> QED
    BY <2>1, <2>2
<1>4. ASSUME Fetched.op = "pop_eax"
      PROVE  Len(cpu.stack) > cpu.ebp + n
  <2>1. a[cpu.ip] \in Nat /\ n \in Nat
    BY FetchedPlaced DEF Runs
  <2>2. a[cpu.ip] > 2 + n
    BY <1>1, <1>4 DEF Leads
  <2>3. cpu.ebp = 2 /\ Len(cpu.stack) = a[cpu.ip]
    BY <2>1, <2>2, OwnFrame
  <2> QED
    BY <2>1, <2>2, <2>3
<1> QED
  BY <1>1, <1>2, <1>3, <1>4

-----------------------------------------------------------------------------
(* Code that grows. *)

\* c makes code where the height is h, with a for the heights of what is there.
Tall(c, a, h, n) == c \in Buffers /\ Heights(c.code, a, n) /\ a[Len(c.code)] = h

\* The code s has become the code t, its heights a have become b.
Grown(s, a, t, b) ==
  /\ Len(s) <= Len(t)
  /\ \A p \in 1 .. Len(s) : t[p] = s[p]
  /\ \A p \in 0 .. Len(s) : b[p] = a[p]

NoError(c) == c.err = ""

\* From c to d code is added that starts at height h and ends at g.
Lift(c, h, d, g, n) ==
  NoError(d) => /\ NoError(c)
                /\ \A a : Tall(c, a, h, n) => \E b : Tall(d, b, g, n) /\ Grown(c.code, a, d.code, b)

LEMMA TallLen ==
  ASSUME NEW c, NEW a, NEW h, NEW n, Tall(c, a, h, n)
  PROVE  c.code \in Seq(Bytes) /\ Len(c.code) \in Nat /\ a \in [0 .. Len(c.code) -> Int]
  BY DEF Tall, Heights

LEMMA GrownOn ==
  ASSUME NEW s, NEW a, NEW t, NEW b, NEW u, NEW c,
         Len(s) \in Nat, Len(t) \in Nat, Len(u) \in Nat,
         Grown(s, a, t, b), Grown(t, b, u, c)
  PROVE  Grown(s, a, u, c)
  BY DEF Grown

LEMMA LiftOn ==
  ASSUME NEW c, NEW h, NEW d, NEW k, NEW e, NEW g, NEW n,
         Lift(c, h, d, k, n), Lift(d, k, e, g, n)
  PROVE  Lift(c, h, e, g, n)
<1> SUFFICES ASSUME NoError(e) PROVE
      NoError(c) /\ \A a : Tall(c, a, h, n) => \E b : Tall(e, b, g, n) /\ Grown(c.code, a, e.code, b)
  BY DEF Lift
<1>1. NoError(d) /\ NoError(c)
  BY DEF Lift
<1>2. ASSUME NEW a, Tall(c, a, h, n)
      PROVE  \E b : Tall(e, b, g, n) /\ Grown(c.code, a, e.code, b)
  <2>1. PICK b : Tall(d, b, k, n) /\ Grown(c.code, a, d.code, b)
    BY <1>1, <1>2 DEF Lift
  <2>2. PICK f : Tall(e, f, g, n) /\ Grown(d.code, b, e.code, f)
    BY <2>1 DEF Lift
  <2>3. Len(c.code) \in Nat /\ Len(d.code) \in Nat /\ Len(e.code) \in Nat
    BY <1>2, <2>1, <2>2, TallLen
  <2>4. Grown(c.code, a, e.code, f)
    BY <2>1, <2>2, <2>3, GrownOn
  <2> QED
    BY <2>2, <2>4
<1> QED
  BY <1>1, <1>2

\* An instruction op written behind the code s gives t.
Written(s, t, op, arg) ==
  /\ t \in Seq(Bytes) /\ Len(t) = Len(s) + Size[op]
  /\ \A p \in 1 .. Len(s) : t[p] = s[p]
  /\ t[Len(s) + 1] = [op |-> op, arg |-> arg]

LEMMA SizeIs ==
  ASSUME NEW op \in DOMAIN Size
  PROVE  Size[op] \in 1 .. 7
  BY DEF Size

LEMMA InsWrites ==
  ASSUME NEW c \in Buffers, NEW op \in DOMAIN Size, NEW arg \in Int
  PROVE  /\ Ins(c, op, arg) \in Buffers
         /\ NoError(Ins(c, op, arg)) => NoError(c) /\ Written(c.code, Ins(c, op, arg).code, op, arg)
<1> DEFINE bytes == [k \in 1 .. Size[op] |-> IF k = 1 THEN [op |-> op, arg |-> arg] ELSE Filler]
           room == CodeSize - Len(c.code)
           s == c.code
<1>1. Size[op] \in 1 .. 7
  BY SizeIs
<1>2. bytes \in Seq(Bytes) /\ Len(bytes) = Size[op] /\ bytes[1] = [op |-> op, arg |-> arg]
  <2>1. \A k \in 1 .. Size[op] : (IF k = 1 THEN [op |-> op, arg |-> arg] ELSE Filler) \in Bytes
    <3>1. [op |-> op, arg |-> arg] \in Bytes
      BY DEF Bytes
    <3>2. Filler \in Bytes
      BY DEF Bytes, Filler
    <3> QED
      BY <3>1, <3>2
  <2>2. bytes \in [1 .. Size[op] -> Bytes] /\ Size[op] \in Nat /\ 1 \in 1 .. Size[op]
    BY <1>1, <2>1
  <2>3. bytes[1] = [op |-> op, arg |-> arg]
    BY <2>2
  <2> HIDE DEF bytes
  <2> QED
    BY <2>2, <2>3
<1>3. Ins(c, op, arg) = EmitBytes(c, bytes)
  BY DEF Ins
<1>4. s \in Seq(Bytes) /\ Len(s) \in Nat /\ room \in Int /\ c.err \in Errors
  BY CompilerAssumption DEF Buffers
<1> HIDE DEF bytes, room, s
<1>5. CASE ~NoError(c)
  BY <1>3, <1>5 DEF EmitBytes, NoError
<1>6. CASE NoError(c) /\ Len(bytes) <= room
  <2> DEFINE t == s \o bytes
  <2>1. Ins(c, op, arg) = [c EXCEPT !.code = t]
    BY <1>3, <1>6 DEF EmitBytes, room, s, NoError
  <2>2. t \in Seq(Bytes) /\ Len(t) = Len(s) + Size[op]
    BY <1>2, <1>4
  <2>3. \A p \in 1 .. Len(s) : t[p] = s[p]
    BY <1>2, <1>4
  <2>4. t[Len(s) + 1] = bytes[1]
    BY <1>1, <1>2, <1>4
  <2> HIDE DEF t
  <2>5. /\ Ins(c, op, arg) \in Buffers /\ Ins(c, op, arg).code = t
    BY <2>1, <2>2 DEF Buffers
  <2>6. Written(s, t, op, arg)
    BY <1>2, <2>2, <2>3, <2>4 DEF Written
  <2> QED
    BY <1>6, <2>5, <2>6 DEF s
<1>7. CASE NoError(c) /\ ~(Len(bytes) <= room)
  <2> DEFINE rest == SubSeq(bytes, 1, room)
  <2>1. Ins(c, op, arg) = [code |-> s \o rest, err |-> "code too large"]
    BY <1>3, <1>7 DEF EmitBytes, room, s, NoError
  <2>2. \A i \in 1 .. room : bytes[i] \in Bytes
    <3>1. \A i \in 1 .. Len(bytes) : bytes[i] \in Bytes
      BY <1>2, ElementOfSeq
    <3>2. Len(bytes) \in Nat
      BY <1>2
    <3>3. ~(Len(bytes) <= room) /\ room \in Int
      BY <1>4, <1>7
    <3>4. room < Len(bytes)
      BY <3>2, <3>3
    <3> QED
      BY <3>1, <3>2, <3>3, <3>4
  <2>3. rest \in Seq(Bytes)
    BY <1>4, <2>2, SubSeqProperties
  <2> HIDE DEF rest
  <2>4. s \o rest \in Seq(Bytes)
    BY <1>4, <2>3
  <2>5. "code too large" \in Errors /\ "code too large" # ""
    BY DEF Errors
  <2> DEFINE t == s \o rest
  <2>6. Ins(c, op, arg) = [code |-> t, err |-> "code too large"] /\ t \in Seq(Bytes)
    BY <2>1, <2>4
  <2> HIDE DEF t
  <2> DEFINE d == Ins(c, op, arg)
  <2>7. d = [code |-> t, err |-> "code too large"]
    BY <2>6
  <2> HIDE DEF d
  <2>8. d \in Buffers
    BY <2>5, <2>6, <2>7 DEF Buffers
  <2>9. ~NoError(d)
    BY <2>7 DEF NoError
  <2> QED
    BY <2>8, <2>9 DEF d
<1> QED
  BY <1>5, <1>6, <1>7

\* The heights a of the code s with an instruction op behind it that leads to height g.
More(s, a, op, g) ==
  [p \in 0 .. Len(s) + Size[op] |->
     IF p <= Len(s) THEN a[p] ELSE IF p = Len(s) + Size[op] THEN g ELSE -1]

LEMMA MoreIs ==
  ASSUME NEW s \in Seq(Bytes), NEW a \in [0 .. Len(s) -> Int], NEW op \in DOMAIN Size, NEW g \in Int
  PROVE  /\ More(s, a, op, g) \in [0 .. Len(s) + Size[op] -> Int]
         /\ \A p \in 0 .. Len(s) : More(s, a, op, g)[p] = a[p]
         /\ More(s, a, op, g)[Len(s) + Size[op]] = g
         /\ \A i \in 1 .. Size[op] - 1 : More(s, a, op, g)[Len(s) + i] = -1
<1> DEFINE m == Len(s)
           z == Size[op]
           b == [p \in 0 .. m + z |-> IF p <= m THEN a[p] ELSE IF p = m + z THEN g ELSE -1]
<1>1. z \in 1 .. 7 /\ m \in Nat /\ a \in [0 .. m -> Int]
  BY SizeIs
<1>2. More(s, a, op, g) = b
  BY DEF More
<1> HIDE DEF m, z
<1>3. b \in [0 .. m + z -> Int]
  <2>1. \A p \in 0 .. m + z : p <= m => p \in 0 .. m
    BY <1>1
  <2>2. -1 \in Int
    OBVIOUS
  <2> QED
    BY <1>1, <2>1, <2>2
<1>4. \A p \in 0 .. m : b[p] = a[p]
  BY <1>1
<1>5. b[m + z] = g
  BY <1>1
<1>6. \A i \in 1 .. z - 1 : b[m + i] = -1
  BY <1>1
<1> HIDE DEF b
<1> QED
  BY <1>2, <1>3, <1>4, <1>5, <1>6 DEF m, z

\* What is placed stays placed where code is added.
LEMMA PlacedOn ==
  ASSUME NEW s \in Seq(Bytes), NEW t \in Seq(Bytes), NEW a \in [0 .. Len(s) -> Int], NEW b, NEW n,
         Grown(s, a, t, b), NEW p \in 0 .. Len(s) - 1, Placed(s, a, n, p)
  PROVE  Placed(t, b, n, p)
<1>1. Len(s) \in Nat /\ Len(t) \in Nat /\ Len(s) <= Len(t)
  BY DEF Grown
<1>2. t[p + 1] = s[p + 1] /\ b[p] = a[p]
  BY <1>1 DEF Grown
<1> DEFINE z == Size[s[p + 1].op]
<1>3. /\ s[p + 1].op \in DOMAIN Size /\ z \in 1 .. 7 /\ p + z <= Len(s)
      /\ \A i \in 1 .. z - 1 : a[p + i] = -1
      /\ Leads(s[p + 1], n, a[p], a[p + z])
  BY SizeIs DEF Placed
<1>4. Size[t[p + 1].op] = z
  BY <1>2
<1> HIDE DEF z
<1>5. \A i \in 1 .. z : b[p + i] = a[p + i]
  <2> SUFFICES ASSUME NEW i \in 1 .. z PROVE b[p + i] = a[p + i]
    OBVIOUS
  <2>1. p + i \in 0 .. Len(s)
    <3> DEFINE m == Len(s)
    <3>1. m \in Nat /\ p \in 0 .. m - 1 /\ z \in 1 .. 7 /\ p + z <= m
      BY <1>1, <1>3
    <3> HIDE DEF m
    <3>2. p + i \in 0 .. m
      BY <3>1
    <3> QED
      BY <3>2 DEF m
  <2> QED
    BY <2>1 DEF Grown
<1>6. \A i \in 1 .. z - 1 : b[p + i] = -1
  <2> SUFFICES ASSUME NEW i \in 1 .. z - 1 PROVE b[p + i] = -1
    OBVIOUS
  <2>1. i \in 1 .. z
    BY <1>3
  <2>2. a[p + i] = -1
    BY <1>3
  <2> QED
    BY <1>5, <2>1, <2>2
<1>7. Leads(t[p + 1], n, b[p], b[p + z])
  <2>1. z \in 1 .. z
    BY <1>3
  <2>2. b[p + z] = a[p + z]
    BY <1>5, <2>1
  <2> QED
    BY <1>2, <1>3, <2>2
<1>8. ASSUME t[p + 1].op \in DOMAIN Opcode
      PROVE  Leap(t, p) \in 0 .. Len(t) /\ b[Leap(t, p)] = b[p]
  <2>1. Leap(s, p) \in 0 .. Len(s) /\ a[Leap(s, p)] = a[p]
    BY <1>2, <1>8 DEF Placed
  <2> DEFINE o == Opcode[s[p + 1].op]
  <2>2. o \in 1 .. 2 /\ z > o
    BY <1>2, <1>8 DEF Opcode, Size, z
  <2> HIDE DEF o
  <2>3. p + o + 1 \in 1 .. Len(s)
    BY <1>1, <1>3, <2>2
  <2>4. t[p + o + 1] = s[p + o + 1]
    BY <2>3 DEF Grown
  <2>5. Leap(t, p) = Leap(s, p)
    BY <1>2, <2>4 DEF Leap, o
  <2> QED
    BY <1>1, <1>2, <2>1, <2>5 DEF Grown
<1> QED
  BY <1>1, <1>2, <1>3, <1>4, <1>6, <1>7, <1>8 DEF Placed

\* The code t has one instruction more than s, with the height h before and g after it.
LEMMA MoreHeights ==
  ASSUME NEW s, NEW a, NEW n, Heights(s, a, n), NEW t, NEW op \in DOMAIN Size, NEW arg,
         Written(s, t, op, arg), NEW h \in Int, a[Len(s)] = h, NEW g \in Int,
         Leads([op |-> op, arg |-> arg], n, h, g),
         op \in DOMAIN Opcode =>
           Leap(t, Len(s)) \in 0 .. Len(t) /\ More(s, a, op, g)[Leap(t, Len(s))] = h
  PROVE  /\ Heights(t, More(s, a, op, g), n) /\ More(s, a, op, g)[Len(t)] = g
         /\ Grown(s, a, t, More(s, a, op, g))
<1> DEFINE b == More(s, a, op, g)
           z == Size[op]
<1>1. s \in Seq(Bytes) /\ a \in [0 .. Len(s) -> Int] /\ Len(s) \in Nat
  BY DEF Heights
<1>2. z \in 1 .. 7
  BY SizeIs
<1>3. t \in Seq(Bytes) /\ Len(t) = Len(s) + z
  BY DEF Written
<1>4. /\ b \in [0 .. Len(t) -> Int] /\ \A p \in 0 .. Len(s) : b[p] = a[p]
      /\ b[Len(t)] = g /\ \A i \in 1 .. z - 1 : b[Len(s) + i] = -1
  <2> HIDE DEF b
  <2>1. /\ b \in [0 .. Len(s) + z -> Int] /\ \A p \in 0 .. Len(s) : b[p] = a[p]
        /\ b[Len(s) + z] = g /\ \A i \in 1 .. z - 1 : b[Len(s) + i] = -1
    BY <1>1, MoreIs DEF b
  <2> HIDE DEF z
  <2> QED
    BY <1>3, <2>1
<1>5. op \in DOMAIN Opcode => Leap(t, Len(s)) \in 0 .. Len(t) /\ b[Leap(t, Len(s))] = h
  OBVIOUS
<1> HIDE DEF b
<1>6. Grown(s, a, t, b)
  <2>1. \A p \in 1 .. Len(s) : t[p] = s[p]
    BY DEF Written
  <2>2. Len(s) <= Len(t)
    BY <1>1, <1>2, <1>3
  <2> QED
    BY <1>4, <2>1, <2>2 DEF Grown
<1>7. Placed(t, b, n, Len(s))
  <2>1. t[Len(s) + 1] = [op |-> op, arg |-> arg]
    BY DEF Written
  <2>2. t[Len(s) + 1].op = op
    BY <2>1
  <2>3. b[Len(s)] = h
    BY <1>1, <1>4
  <2>4. b[Len(s) + z] = g
    BY <1>3, <1>4
  <2>5. Len(s) + z <= Len(t)
    BY <1>1, <1>2, <1>3
  <2>6. Leads(t[Len(s) + 1], n, b[Len(s)], b[Len(s) + Size[t[Len(s) + 1].op]])
    BY <2>1, <2>2, <2>3, <2>4
  <2> QED
    BY <1>4, <1>5, <2>2, <2>3, <2>5, <2>6 DEF Placed
<1>8. ASSUME NEW p \in 0 .. Len(t) - 1, b[p] >= 0
      PROVE  Placed(t, b, n, p)
  <2>1. CASE p < Len(s)
    <3>1. p \in 0 .. Len(s) - 1 /\ p \in 0 .. Len(s)
      BY <1>1, <2>1
    <3>2. a[p] >= 0
      BY <1>4, <1>8, <3>1
    <3>3. Placed(s, a, n, p)
      BY <3>1, <3>2 DEF Heights
    <3> QED
      BY <1>1, <1>3, <1>6, <3>1, <3>3, PlacedOn
  <2>2. CASE p = Len(s)
    BY <1>7, <2>2
  <2>3. CASE p > Len(s)
    <3> DEFINE i == p - Len(s)
    <3>1. i \in 1 .. z - 1 /\ Len(s) + i = p
      <4> DEFINE m == Len(s)
      <4>1. m \in Nat /\ z \in 1 .. 7 /\ p \in 0 .. m + z - 1 /\ p > m
        BY <1>1, <1>2, <1>3, <2>3
      <4> HIDE DEF m, z, i
      <4>3. p - m \in Int /\ p - m >= 1 /\ p - m <= z - 1
        BY <4>1
      <4>4. z - 1 \in Int /\ m + (p - m) = p
        BY <4>1
      <4>2. p - m \in 1 .. z - 1 /\ m + (p - m) = p
        BY <4>3, <4>4
      <4> QED
        BY <4>2 DEF m, i
    <3>2. b[p] = -1
      BY <1>4, <3>1
    <3> QED
      BY <1>8, <3>2
  <2> QED
    BY <1>1, <2>1, <2>2, <2>3
<1>9. Heights(t, b, n)
  BY <1>3, <1>4, <1>8 DEF Heights
<1> QED
  BY <1>4, <1>6, <1>9 DEF b

\* Any instruction but a jump.
LEMMA InsLifts ==
  ASSUME NEW c \in Buffers, NEW op \in DOMAIN Size, op \notin DOMAIN Opcode, NEW arg \in Int,
         NEW h \in Int, NEW g \in Int, NEW n, Leads([op |-> op, arg |-> arg], n, h, g)
  PROVE  Ins(c, op, arg) \in Buffers /\ Lift(c, h, Ins(c, op, arg), g, n)
<1> DEFINE d == Ins(c, op, arg)
<1>1. d \in Buffers /\ (NoError(d) => NoError(c) /\ Written(c.code, d.code, op, arg))
  BY InsWrites
<1> HIDE DEF d
<1>2. ASSUME NoError(d), NEW a, Tall(c, a, h, n)
      PROVE  \E b : Tall(d, b, g, n) /\ Grown(c.code, a, d.code, b)
  <2> DEFINE b == More(c.code, a, op, g)
  <2>1. Heights(c.code, a, n) /\ a[Len(c.code)] = h /\ Written(c.code, d.code, op, arg)
    BY <1>1, <1>2 DEF Tall
  <2>2. /\ Heights(d.code, b, n) /\ b[Len(d.code)] = g
        /\ Grown(c.code, a, d.code, b)
    BY <2>1, MoreHeights
  <2> HIDE DEF b
  <2>3. Tall(d, b, g, n)
    BY <1>1, <2>2 DEF Tall
  <2> QED
    BY <2>2, <2>3
<1>3. Lift(c, h, d, g, n)
  BY <1>1, <1>2 DEF Lift
<1> QED
  BY <1>1, <1>3 DEF d

LEMMA EmitLifts ==
  ASSUME NEW c \in Buffers, NEW op \in DOMAIN Size, op \notin DOMAIN Opcode,
         NEW h \in Int, NEW g \in Int, NEW n, Leads([op |-> op, arg |-> 0], n, h, g)
  PROVE  Emit(c, op) \in Buffers /\ Lift(c, h, Emit(c, op), g, n)
<1>1. 0 \in Int
  OBVIOUS
<1> QED
  BY <1>1, InsLifts DEF Emit

-----------------------------------------------------------------------------
(* Jumps. *)

LEMMA OpcodeIs ==
  ASSUME NEW op \in DOMAIN Opcode
  PROVE  op \in DOMAIN Size /\ Opcode[op] \in 1 .. 2 /\ Size[op] = Opcode[op] + 4
<1>1. op = "jz" \/ op = "jmp"
  BY DEF Opcode
<1>2. op \in DOMAIN Size
  BY <1>1 DEF Size
<1>3. Opcode[op] \in 1 .. 2
  BY <1>1 DEF Opcode
<1>4. Size[op] = Opcode[op] + 4
  BY <1>1 DEF Size, Opcode
<1> QED
  BY <1>2, <1>3, <1>4

\* The byte that a jump's distance stands in.
Distance(at, target) == [op |-> "rel", arg |-> target - (at + 4)]

LEMMA PatchIs ==
  ASSUME NEW c \in Buffers, NEW at \in Nat, NEW target \in Int
  PROVE  /\ Patch(c, at, target) \in Buffers
         /\ NoError(Patch(c, at, target)) <=> NoError(c)
         /\ Len(Patch(c, at, target).code) = Len(c.code)
         /\ NoError(c) =>
              \A i \in 1 .. Len(c.code) :
                Patch(c, at, target).code[i] = IF i = at + 1 THEN Distance(at, target) ELSE c.code[i]
<1> DEFINE d == Patch(c, at, target)
           s == c.code
           e == Distance(at, target)
           t == [s EXCEPT ![at + 1] = e]
<1>1. CASE ~NoError(c)
  BY <1>1 DEF Patch, NoError
<1>2. CASE NoError(c)
  <2>1. s \in Seq(Bytes) /\ Len(s) \in Nat /\ s \in [1 .. Len(s) -> Bytes]
    BY LenProperties DEF Buffers
  <2>2. e \in Bytes
    <3>1. target - (at + 4) \in Int
      OBVIOUS
    <3> QED
      BY <3>1 DEF Bytes, Distance
  <2>3. d = [c EXCEPT !.code = t]
    BY <1>2 DEF Patch, Distance, NoError
  <2> HIDE DEF e
  <2>4. t \in [1 .. Len(s) -> Bytes]
    BY <2>1, <2>2
  <2>5. t \in Seq(Bytes) /\ Len(t) = Len(s)
    BY <2>1, <2>4
  <2>6. \A i \in 1 .. Len(s) : t[i] = IF i = at + 1 THEN e ELSE s[i]
    BY <2>1
  <2> HIDE DEF t
  <2>7. c \in [code : Seq(Bytes), err : Errors]
    BY DEF Buffers
  <2>8. d.code = t /\ d.err = c.err /\ d \in [code : Seq(Bytes), err : Errors]
    BY <2>3, <2>5, <2>7
  <2> HIDE DEF d
  <2>9. NoError(d) <=> NoError(c)
    BY <2>8 DEF NoError
  <2> QED
    BY <2>5, <2>6, <2>8, <2>9 DEF Buffers, e, d, s
<1> QED
  BY <1>1, <1>2

\* A jump to target, written and patched.
JumpTo(c, op, target) == Patch(Emit(c, op), Hole(c, op), target)

LEMMA JumpWrites ==
  ASSUME NEW c \in Buffers, NEW op \in DOMAIN Opcode, NEW target \in Int,
         NEW d, d = JumpTo(c, op, target)
  PROVE  /\ d \in Buffers
         /\ NoError(d) => /\ NoError(c) /\ Written(c.code, d.code, op, 0)
                          /\ Leap(d.code, Len(c.code)) = target
<1> DEFINE j == Emit(c, op)
           s == c.code
           o == Opcode[op]
           z == Size[op]
<1>1. op \in DOMAIN Size /\ o \in 1 .. 2 /\ z = o + 4
  BY OpcodeIs
<1>2. j \in Buffers /\ (NoError(j) => NoError(c) /\ Written(s, j.code, op, 0))
  BY <1>1, InsWrites DEF Emit
<1>3. Len(s) \in Nat /\ Hole(c, op) = Len(s) + o
  BY DEF Buffers, Hole
<1> DEFINE at == Len(s) + o
<1>4. at \in Nat /\ d = Patch(j, at, target)
  BY <1>1, <1>3 DEF JumpTo
<1> HIDE DEF j, o, z
<1>5. /\ Len(s) \in Nat /\ at + 1 \in 1 .. Len(s) + z
      /\ \A i \in 1 .. Len(s) + 1 : i \in 1 .. Len(s) + z /\ i # at + 1
      /\ Len(s) + z + (target - (at + 4)) = target
  <2> DEFINE l == Len(s)
  <2>1. l \in Nat /\ o \in 1 .. 2 /\ z = o + 4
    BY <1>1, <1>3
  <2> HIDE DEF l
  <2>2. l + o + 1 \in 1 .. l + z
    BY <2>1
  <2>3. \A i \in 1 .. l + 1 : i \in 1 .. l + z /\ i # l + o + 1
    BY <2>1
  <2>4. l + z + (target - (l + o + 4)) = target
    BY <2>1
  <2> QED
    BY <2>1, <2>2, <2>3, <2>4 DEF l
<1> HIDE DEF at, s
<1>6. /\ d \in Buffers /\ (NoError(d) <=> NoError(j)) /\ Len(d.code) = Len(j.code)
      /\ NoError(j) => \A i \in 1 .. Len(j.code) :
            d.code[i] = IF i = at + 1 THEN Distance(at, target) ELSE j.code[i]
  BY <1>2, <1>4, PatchIs
<1>7. ASSUME NoError(d)
      PROVE  Written(s, d.code, op, 0) /\ Leap(d.code, Len(s)) = target
  <2>1. /\ Len(j.code) = Len(s) + z
        /\ \A p \in 1 .. Len(s) : j.code[p] = s[p]
        /\ j.code[Len(s) + 1] = [op |-> op, arg |-> 0]
    BY <1>2, <1>6, <1>7 DEF Written, z
  <2>2. \A i \in 1 .. Len(s) + z :
          d.code[i] = IF i = at + 1 THEN Distance(at, target) ELSE j.code[i]
    BY <1>6, <1>7, <2>1
  <2>3. \A i \in 1 .. Len(s) + 1 : d.code[i] = j.code[i]
    BY <1>5, <2>2
  <2>4. d.code[Len(s) + 1] = [op |-> op, arg |-> 0]
    <3>1. Len(s) + 1 \in 1 .. Len(s) + 1
      BY <1>5
    <3> QED
      BY <2>1, <2>3, <3>1
  <2>5. \A p \in 1 .. Len(s) : d.code[p] = s[p]
    <3>1. \A p \in 1 .. Len(s) : p \in 1 .. Len(s) + 1
      BY <1>5
    <3> QED
      BY <2>1, <2>3, <3>1
  <2>6. d.code \in Seq(Bytes) /\ Len(d.code) = Len(s) + z
    BY <1>6, <2>1 DEF Buffers
  <2>7. Written(s, d.code, op, 0)
    BY <2>4, <2>5, <2>6 DEF Written, z
  <2>8. d.code[at + 1] = Distance(at, target)
    BY <1>5, <2>2
  <2>9. Leap(d.code, Len(s)) = target
    <3>1. d.code[Len(s) + 1].op = op
      BY <2>4
    <3>2. d.code[at + 1].arg = target - (at + 4)
      BY <2>8 DEF Distance
    <3>3. Leap(d.code, Len(s)) = Len(s) + z + (target - (at + 4))
      BY <3>1, <3>2 DEF Leap, at, o, z
    <3> QED
      BY <1>5, <3>3
  <2> QED
    BY <2>7, <2>9
<1> QED
  BY <1>2, <1>6, <1>7 DEF s

\* The jump op stands at p.
Jumping(s, a, p, op) ==
  p \in 0 .. Len(s) - 1 /\ s[p + 1].op = op /\ op \in DOMAIN Opcode /\ a[p] >= 0

LEMMA JumpingOn ==
  ASSUME NEW s \in Seq(Bytes), NEW t \in Seq(Bytes), NEW a, NEW b, NEW p, NEW op,
         Jumping(s, a, p, op), Grown(s, a, t, b)
  PROVE  Jumping(t, b, p, op)
<1>1. Len(s) \in Nat /\ Len(t) \in Nat /\ Len(s) <= Len(t) /\ p \in 0 .. Len(s) - 1
  BY DEF Grown, Jumping
<1>2. p \in 0 .. Len(s) /\ p + 1 \in 1 .. Len(s) /\ p \in 0 .. Len(t) - 1
  BY <1>1
<1>3. t[p + 1] = s[p + 1] /\ b[p] = a[p]
  BY <1>2 DEF Grown
<1> QED
  BY <1>2, <1>3 DEF Jumping

LEMMA HeightOn ==
  ASSUME NEW s, NEW t, NEW a, NEW b, Grown(s, a, t, b), NEW p \in 0 .. Len(s)
  PROVE  b[p] = a[p]
  BY DEF Grown

\* A jump, and where it leads the height is the same.
LEMMA JumpLifts ==
  ASSUME NEW c \in Buffers, NEW op \in DOMAIN Opcode, NEW target \in Int, NEW h \in Int, h >= 2,
         NEW n, NEW d, d = JumpTo(c, op, target), NoError(d),
         NEW a, Tall(c, a, h, n),
         \/ target = Len(c.code) + Size[op]
         \/ target \in 0 .. Len(c.code) /\ a[target] = h
  PROVE  \E b : /\ Tall(d, b, h, n) /\ Grown(c.code, a, d.code, b)
                /\ Jumping(d.code, b, Len(c.code), op)
<1> DEFINE b == More(c.code, a, op, h)
           s == c.code
<1>1. d \in Buffers /\ Written(s, d.code, op, 0) /\ Leap(d.code, Len(s)) = target
  BY JumpWrites
<1>2. op \in DOMAIN Size /\ Size[op] \in 1 .. 7
  BY OpcodeIs, SizeIs
<1>3. Heights(s, a, n) /\ a[Len(s)] = h /\ s \in Seq(Bytes) /\ a \in [0 .. Len(s) -> Int]
  BY DEF Tall, Heights
<1>4. Leads([op |-> op, arg |-> 0], n, h, h)
  <2>1. op = "jz" \/ op = "jmp"
    BY DEF Opcode
  <2> QED
    BY <2>1 DEF Leads, Plain
<1>5. Len(d.code) = Len(s) + Size[op] /\ Len(s) \in Nat
  BY <1>1, <1>3 DEF Written
<1>6. target \in 0 .. Len(d.code) /\ b[target] = h
  <2>1. \A p \in 0 .. Len(s) : b[p] = a[p]
    BY <1>2, <1>3, MoreIs
  <2>2. b[Len(s) + Size[op]] = h
    BY <1>2, <1>3, MoreIs
  <2> HIDE DEF b
  <2>3. CASE target = Len(s) + Size[op]
    BY <1>2, <1>5, <2>2, <2>3
  <2>4. CASE target \in 0 .. Len(s) /\ a[target] = h
    <3> DEFINE m == Len(s)
               k == Len(d.code)
    <3>0. target \in 0 .. m /\ k = m + Size[op] /\ m \in Nat /\ Size[op] \in 1 .. 7
      BY <1>2, <1>5, <2>4
    <3> HIDE DEF m, k
    <3>2. target \in 0 .. k
      BY <3>0
    <3>1. target \in 0 .. Len(d.code)
      BY <3>2 DEF k
    <3> QED
      BY <2>1, <2>4, <3>1
  <2> QED
    BY <2>3, <2>4
<1>7. Heights(d.code, b, n) /\ b[Len(d.code)] = h /\ Grown(s, a, d.code, b)
  <2>1. op \in DOMAIN Opcode => Leap(d.code, Len(s)) \in 0 .. Len(d.code) /\ b[Leap(d.code, Len(s))] = h
    BY <1>1, <1>6
  <2>2. ASSUME NEW t, Written(s, t, op, 0), op \in DOMAIN Opcode => Leap(t, Len(s)) \in 0 .. Len(t) /\ b[Leap(t, Len(s))] = h
        PROVE  Heights(t, b, n) /\ b[Len(t)] = h /\ Grown(s, a, t, b)
    <3>1. op \in DOMAIN Size /\ h \in Int /\ a[Len(s)] = h /\ Heights(s, a, n)
      BY <1>2, <1>3
    <3> HIDE DEF s
    <3> QED
      BY <1>4, <2>2, <3>1, MoreHeights DEF s
  <2> QED
    BY <1>1, <2>1, <2>2
<1> HIDE DEF b
<1>8. Tall(d, b, h, n)
  BY <1>1, <1>7 DEF Tall
<1>9. Jumping(d.code, b, Len(s), op)
  <2>1. Len(s) \in 0 .. Len(d.code) - 1
    <3> DEFINE m == Len(s)
               k == Len(d.code)
    <3>1. k = m + Size[op] /\ m \in Nat /\ Size[op] \in 1 .. 7
      BY <1>2, <1>5
    <3> HIDE DEF m, k
    <3>2. m \in 0 .. k - 1
      BY <3>1
    <3> QED
      BY <3>2 DEF m, k
  <2>2. d.code[Len(s) + 1].op = op
    BY <1>1 DEF Written
  <2>3. b[Len(s)] = h
    <3>1. Len(s) \in 0 .. Len(s)
      BY <1>5
    <3> QED
      BY <1>3, <1>7, <3>1 DEF Grown
  <2> QED
    BY <2>1, <2>2, <2>3 DEF Jumping
<1> QED
  BY <1>7, <1>8, <1>9

LEMMA PlaceholderIs ==
  ASSUME NEW c \in Buffers, NEW op \in DOMAIN Opcode
  PROVE  Placeholder(c, op) = JumpTo(c, op, Len(c.code) + Size[op])
<1>1. Len(c.code) \in Nat
  BY DEF Buffers
<1>2. Hole(c, op) + 4 = Len(c.code) + Size[op]
  BY <1>1, OpcodeIs DEF Hole
<1> QED
  BY <1>2 DEF Placeholder, JumpTo

LEMMA PlaceholderLifts ==
  ASSUME NEW c \in Buffers, NEW op \in DOMAIN Opcode, NEW h \in Int, h >= 2, NEW n
  PROVE  /\ Placeholder(c, op) \in Buffers
         /\ NoError(Placeholder(c, op)) => NoError(c)
         /\ \A a : NoError(Placeholder(c, op)) /\ Tall(c, a, h, n) =>
              \E b : /\ Tall(Placeholder(c, op), b, h, n) /\ Grown(c.code, a, Placeholder(c, op).code, b)
                     /\ Jumping(Placeholder(c, op).code, b, Len(c.code), op)
<1> DEFINE d == Placeholder(c, op)
           target == Len(c.code) + Size[op]
<1>1. target \in Int
  <2>1. Len(c.code) \in Nat /\ Size[op] \in 1 .. 7
    BY OpcodeIs, SizeIs DEF Buffers
  <2> QED
    BY <2>1
<1>2. d = JumpTo(c, op, target)
  BY PlaceholderIs
<1>3. target = Len(c.code) + Size[op]
  OBVIOUS
<1> HIDE DEF d, target
<1>4. d \in Buffers /\ (NoError(d) => NoError(c))
  BY <1>1, <1>2, JumpWrites
<1>5. ASSUME NEW a, NoError(d), Tall(c, a, h, n)
      PROVE  \E b : /\ Tall(d, b, h, n) /\ Grown(c.code, a, d.code, b)
                    /\ Jumping(d.code, b, Len(c.code), op)
  BY <1>1, <1>2, <1>3, <1>5, JumpLifts
<1> QED
  BY <1>4, <1>5 DEF d

\* The jumps of s are those of t.
SameJumps(s, t, a) == \A q, o : Jumping(s, a, q, o) => Jumping(t, a, q, o)

\* A jump is led to another place where the height is the same.
LEMMA PatchKeeps ==
  ASSUME NEW c \in Buffers, NoError(c), NEW a, NEW h, NEW n, Tall(c, a, h, n),
         NEW p, NEW op, Jumping(c.code, a, p, op),
         NEW target \in 0 .. Len(c.code), a[target] = a[p],
         NEW at, at = p + Opcode[op]
  PROVE  /\ Tall(Patch(c, at, target), a, h, n)
         /\ NoError(Patch(c, at, target))
         /\ Len(Patch(c, at, target).code) = Len(c.code)
         /\ \A i \in 1 .. p : Patch(c, at, target).code[i] = c.code[i]
         /\ SameJumps(c.code, Patch(c, at, target).code, a)
<1> DEFINE d == Patch(c, at, target)
           s == c.code
           t == d.code
           e == Distance(at, target)
<1>1. s \in Seq(Bytes) /\ Len(s) \in Nat /\ a \in [0 .. Len(s) -> Int] /\ Heights(s, a, n)
  BY TallLen DEF Tall
<1>2. p \in 0 .. Len(s) - 1 /\ s[p + 1].op = op /\ op \in DOMAIN Opcode /\ a[p] >= 0
  BY DEF Jumping
<1>3. Opcode[op] \in 1 .. 2 /\ Size[op] = Opcode[op] + 4
  BY <1>2, OpcodeIs
<1>4. Placed(s, a, n, p)
  BY <1>1, <1>2 DEF Heights
<1>5. p + Size[op] <= Len(s) /\ \A i \in 1 .. Size[op] - 1 : a[p + i] = -1
  BY <1>2, <1>4 DEF Placed
<1> HIDE DEF s
<1>6. at \in 1 .. Len(s) - 1 /\ at > p /\ at < p + Size[op]
  BY <1>1, <1>2, <1>3, <1>5
<1>7. a[at] = -1
  <2> DEFINE i == Opcode[op]
  <2>1. i \in 1 .. Size[op] - 1 /\ p + i = at
    BY <1>3
  <2> HIDE DEF i
  <2> QED
    BY <1>5, <2>1
<1>8. d \in Buffers /\ NoError(d) /\ Len(t) = Len(s)
      /\ \A i \in 1 .. Len(s) : t[i] = IF i = at + 1 THEN e ELSE s[i]
  <2>1. at \in Nat /\ target \in Int
    BY <1>1, <1>6 DEF s
  <2> QED
    BY <2>1, PatchIs DEF s
<1> HIDE DEF d, t
<1>9. \A i \in 1 .. p : t[i] = s[i]
  <2> SUFFICES ASSUME NEW i \in 1 .. p PROVE t[i] = s[i]
    OBVIOUS
  <2>1. i \in 1 .. Len(s) /\ i # at + 1
    BY <1>1, <1>2, <1>6
  <2> QED
    BY <1>8, <2>1
<1>10. \A q \in 0 .. Len(s) - 1 : a[q] >= 0 => t[q + 1] = s[q + 1]
  <2> SUFFICES ASSUME NEW q \in 0 .. Len(s) - 1, a[q] >= 0 PROVE t[q + 1] = s[q + 1]
    OBVIOUS
  <2>1. q # at
    BY <1>7
  <2>2. q + 1 \in 1 .. Len(s) /\ q + 1 # at + 1
    BY <1>1, <1>6, <2>1
  <2> QED
    BY <1>8, <2>2
<1>11. ASSUME NEW q \in 0 .. Len(s) - 1, a[q] >= 0
       PROVE  Placed(t, a, n, q)
  <2> DEFINE f == s[q + 1].op
             z == Size[f]
  <2>1. /\ f \in DOMAIN Size /\ q + z <= Len(s) /\ \A i \in 1 .. z - 1 : a[q + i] = -1
        /\ Leads(s[q + 1], n, a[q], a[q + z])
        /\ f \in DOMAIN Opcode => Leap(s, q) \in 0 .. Len(s) /\ a[Leap(s, q)] = a[q]
    BY <1>1, <1>11 DEF Heights, Placed
  <2>2. t[q + 1] = s[q + 1]
    BY <1>10, <1>11
  <2>3. ASSUME f \in DOMAIN Opcode
        PROVE  Leap(t, q) \in 0 .. Len(s) /\ a[Leap(t, q)] = a[q]
    <3> DEFINE o == Opcode[f]
    <3>1. o \in 1 .. 2 /\ z = o + 4
      BY <2>3, OpcodeIs
    <3>2. Leap(t, q) = q + z + t[q + o + 1].arg /\ Leap(s, q) = q + z + s[q + o + 1].arg
      BY <2>2 DEF Leap
    <3> HIDE DEF o, z, f
    <3>3. q + o + 1 \in 1 .. Len(s)
      BY <1>1, <2>1, <3>1
    <3>4. CASE q + o # at
      <4>1. q + o + 1 # at + 1
        BY <1>6, <3>1, <3>4
      <4>2. t[q + o + 1] = s[q + o + 1]
        BY <1>8, <3>3, <4>1
      <4> QED
        BY <2>1, <2>3, <3>2, <4>2
    <3>5. CASE q + o = at
      <4>1. ~(q < p)
        <5> SUFFICES ASSUME q < p PROVE FALSE
          OBVIOUS
        <5> DEFINE i == p - q
        <5>1. i \in 1 .. z - 1 /\ q + i = p
          BY <1>2, <1>6, <3>1, <3>5
        <5> HIDE DEF i
        <5>2. a[p] = -1
          BY <2>1, <5>1
        <5> QED
          BY <1>2, <5>2
      <4>2. ~(q > p)
        <5> SUFFICES ASSUME q > p PROVE FALSE
          OBVIOUS
        <5> DEFINE i == q - p
        <5>1. i \in 1 .. Size[op] - 1 /\ p + i = q
          BY <1>2, <1>3, <1>6, <3>1, <3>5
        <5> HIDE DEF i
        <5>2. a[q] = -1
          BY <1>5, <5>1
        <5> QED
          BY <1>11, <5>2
      <4>3. q = p
        BY <1>2, <4>1, <4>2
      <4>4. t[at + 1] = e
        <5>1. at + 1 \in 1 .. Len(s)
          BY <1>1, <1>6
        <5> QED
          BY <1>8, <5>1
      <4>5. t[q + o + 1].arg = target - (at + 4)
        BY <3>5, <4>4 DEF Distance
      <4>6. q + z + (target - (at + 4)) = target
        <5>1. target \in Int
          BY DEF s
        <5> QED
          BY <1>6, <3>1, <3>5, <5>1
      <4>7. Leap(t, q) = target
        BY <3>2, <4>5, <4>6
      <4> QED
        BY <4>3, <4>7 DEF s
    <3> QED
      BY <3>4, <3>5
  <2> QED
    BY <1>8, <2>1, <2>2, <2>3 DEF Placed
<1>12. Heights(t, a, n) /\ a[Len(t)] = h
  <2>1. t \in Seq(Bytes)
    BY <1>8 DEF Buffers, t
  <2>2. a[Len(s)] = h
    BY DEF Tall, s
  <2> QED
    BY <1>1, <1>8, <1>11, <2>1, <2>2 DEF Heights
<1>13. Tall(d, a, h, n)
  BY <1>8, <1>12 DEF Tall, t
<1>14. SameJumps(s, t, a)
  BY <1>8, <1>10 DEF Jumping, SameJumps
<1> QED
  BY <1>8, <1>9, <1>13, <1>14 DEF d, t, s

-----------------------------------------------------------------------------
(* Expressions. *)

\* d is c with more code, from height h to g.
Makes(c, h, d, g, n) == d \in Buffers /\ Lift(c, h, d, g, n)

LEMMA MakesOn ==
  ASSUME NEW c, NEW h, NEW d, NEW k, NEW e, NEW g, NEW n,
         Makes(c, h, d, k, n), Makes(d, k, e, g, n)
  PROVE  Makes(c, h, e, g, n)
  BY LiftOn DEF Makes

LEMMA MakesBuffers ==
  ASSUME NEW c, NEW h, NEW d, NEW g, NEW n, Makes(c, h, d, g, n)
  PROVE  d \in Buffers
  BY DEF Makes

LEMMA EmitPlain ==
  ASSUME NEW c \in Buffers, NEW op \in Plain, op \notin DOMAIN Opcode,
         NEW h \in Int, h >= 2, NEW n, NEW arg \in Int
  PROVE  Makes(c, h, Ins(c, op, arg), h, n)
<1>1. op \in DOMAIN Size
  BY DEF Plain, Size
<1>2. Leads([op |-> op, arg |-> arg], n, h, h)
  BY DEF Leads, Plain
<1> QED
  BY <1>1, <1>2, InsLifts DEF Makes

LEMMA EmitRegister ==
  ASSUME NEW c \in Buffers,
         NEW op \in {"mov_ecx_eax", "add", "sub", "imul", "cdq", "idiv", "neg", "cmp", "movzx", "test"},
         NEW h \in Int, h >= 2, NEW n
  PROVE  Makes(c, h, Emit(c, op), h, n)
<1>1. op \in Plain
  BY DEF Plain
<1>2. op \notin DOMAIN Opcode
  BY DEF Opcode
<1>3. 0 \in Int
  OBVIOUS
<1> QED
  BY <1>1, <1>2, <1>3, EmitPlain DEF Emit

LEMMA EmitPush ==
  ASSUME NEW c \in Buffers, NEW n \in Nat, NEW h \in Int, h >= 2 + n
  PROVE  Makes(c, h, Emit(c, "push_eax"), h + 1, n)
<1>1. "push_eax" \in DOMAIN Size
  BY DEF Size
<1>2. "push_eax" \notin DOMAIN Opcode
  BY DEF Opcode
<1>3. Leads([op |-> "push_eax", arg |-> 0], n, h, h + 1)
  BY DEF Leads, Plain
<1>4. h + 1 \in Int
  OBVIOUS
<1> QED
  BY <1>1, <1>2, <1>3, <1>4, EmitLifts DEF Makes

LEMMA EmitPop ==
  ASSUME NEW c \in Buffers, NEW n \in Nat, NEW h \in Int, h >= 2 + n,
         NEW op \in {"pop_eax", "add_esp4"}
  PROVE  Makes(c, h + 1, Emit(c, op), h, n)
<1>1. op \in DOMAIN Size
  BY DEF Size
<1>2. op \notin DOMAIN Opcode
  BY DEF Opcode
<1>3. h + 1 > 2 + n /\ h = (h + 1) - 1 /\ h + 1 \in Int
  OBVIOUS
<1>4. Leads([op |-> op, arg |-> 0], n, h + 1, h)
  BY <1>3 DEF Leads, Plain
<1> QED
  BY <1>1, <1>2, <1>3, <1>4, EmitLifts DEF Makes

LEMMA ModSmall == ASSUME NEW m \in Nat, NEW x \in 0 .. m - 1 PROVE x % m = x
  OBVIOUS

LEMMA DispIs ==
  ASSUME NEW m \in 0 .. MaxLocals, NEW off \in {4 * k : k \in 1 .. m}
  PROVE  \E k \in 1 .. m : Disp(off) = -(4 * k)
<1>1. PICK k \in 1 .. m : off = 4 * k
  OBVIOUS
<1>2. MaxLocals \in Nat /\ Disp8 \in Nat /\ MaxLocals <= Disp8
  BY CompilerAssumption
<1>3. 4 * Disp8 - 4 * k \in 0 .. 8 * Disp8 - 1 /\ 8 * Disp8 \in Nat
  BY <1>2
<1>4. (4 * Disp8 - 4 * k) % (8 * Disp8) = 4 * Disp8 - 4 * k
  BY <1>3, ModSmall
<1>5. (4 * Disp8 - 4 * k) - 4 * Disp8 = -(4 * k)
  BY <1>2
<1>6. Disp(off) = -(4 * k)
  BY <1>1, <1>4, <1>5 DEF Disp
<1> QED
  BY <1>6

\* The instructions that read or write a local.
LEMMA InsLocal ==
  ASSUME NEW c \in Buffers, NEW op \in {"load", "store", "zero"},
         NEW m \in 0 .. MaxLocals, NEW off \in {4 * k : k \in 1 .. m}, NEW h \in Int, h >= 2 + m
  PROVE  Makes(c, h, Ins(c, op, Disp(off)), h, m)
<1>1. op \in DOMAIN Size
  BY DEF Size
<1>2. op \notin DOMAIN Opcode
  BY DEF Opcode
<1>3. PICK k \in 1 .. m : Disp(off) = -(4 * k)
  BY DispIs
<1>4. Disp(off) \in Int
  BY <1>3
<1>5. Leads([op |-> op, arg |-> Disp(off)], m, h, h)
  BY <1>3 DEF Leads, Plain
<1> QED
  BY <1>1, <1>2, <1>4, <1>5, InsLifts DEF Makes

Made(gen, t, c) == gen[t][c]

\* gen makes code that leaves the height as it was, for the trees of T.
Gens(gen, T, m) ==
  \A t \in T, c \in Buffers, h \in Int : h >= 2 + m => Makes(c, h, Made(gen, t, c), h, m)

LEMMA GensOne ==
  ASSUME NEW gen, NEW T, NEW m, Gens(gen, T, m), NEW t \in T, NEW c \in Buffers,
         NEW h \in Int, h >= 2 + m
  PROVE  Makes(c, h, Made(gen, t, c), h, m)
  BY DEF Gens

LEMMA SetccIs ==
  ASSUME NEW op \in Relations
  PROVE  Setcc(op) \in Int
  BY DEF Relations, Setcc

LEMMA ArithmeticMakes ==
  ASSUME NEW c \in Buffers, NEW op \in Operators, NEW h \in Int, h >= 2, NEW n
  PROVE  Makes(c, h, Arithmetic(c, op), h, n)
<1>1. CASE op = "+"
  BY <1>1, EmitRegister DEF Arithmetic
<1>2. CASE op = "-"
  BY <1>2, EmitRegister DEF Arithmetic
<1>3. CASE op = "*"
  BY <1>3, EmitRegister DEF Arithmetic
<1>4. CASE op = "/"
  <2> DEFINE d == Emit(c, "cdq")
             e == Emit(d, "idiv")
  <2>1. Makes(c, h, d, h, n)
    BY EmitRegister
  <2> HIDE DEF d
  <2>2. Makes(d, h, e, h, n)
    BY <2>1, EmitRegister, MakesBuffers
  <2>3. Arithmetic(c, op) = e
    BY <1>4 DEF Arithmetic, d
  <2> HIDE DEF e
  <2> QED
    BY <2>1, <2>2, <2>3, MakesOn
<1>5. CASE op \in Relations
  <2> DEFINE d == Emit(c, "cmp")
             e == Ins(d, "setcc", Setcc(op))
             f == Emit(e, "movzx")
  <2>1. Makes(c, h, d, h, n)
    BY EmitRegister
  <2> HIDE DEF d
  <2>2. Makes(d, h, e, h, n)
    <3>1. "setcc" \in Plain
      BY DEF Plain
    <3>2. "setcc" \notin DOMAIN Opcode
      BY DEF Opcode
    <3>3. d \in Buffers /\ Setcc(op) \in Int
      BY <1>5, <2>1, MakesBuffers, SetccIs
    <3> QED
      BY <3>1, <3>2, <3>3, EmitPlain
  <2> HIDE DEF e
  <2>3. Makes(e, h, f, h, n)
    BY <2>2, EmitRegister, MakesBuffers
  <2>4. Arithmetic(c, op) = f
    <3>1. op \notin {"+", "-", "*", "/"}
      BY <1>5 DEF Relations
    <3> QED
      BY <3>1 DEF Arithmetic, d, e
  <2> HIDE DEF f
  <2> QED
    BY <2>1, <2>2, <2>3, <2>4, MakesOn
<1> QED
  BY <1>1, <1>2, <1>3, <1>4, <1>5 DEF Operators

LEMMA GenBinopMakes ==
  ASSUME NEW m \in Nat, NEW T, NEW gen, Gens(gen, T, m), NEW n, n.a \in T, n.b \in T, n.op \in Operators,
         NEW c \in Buffers, NEW h \in Int, h >= 2 + m
  PROVE  Makes(c, h, GenBinop(gen, n, c), h, m)
<1> DEFINE c1 == Made(gen, n.a, c)
           c2 == Emit(c1, "push_eax")
           c3 == Made(gen, n.b, c2)
           c4 == Emit(c3, "mov_ecx_eax")
           c5 == Emit(c4, "pop_eax")
           c6 == Arithmetic(c5, n.op)
<1>1. h + 1 \in Int /\ h + 1 >= 2 + m /\ h + 1 >= 2 /\ h >= 2
  OBVIOUS
<1>2. Makes(c, h, c1, h, m)
  BY GensOne
<1>3. GenBinop(gen, n, c) = c6
  BY DEF GenBinop, Made
<1> HIDE DEF c1
<1>4. Makes(c1, h, c2, h + 1, m)
  BY <1>2, MakesBuffers, EmitPush
<1> HIDE DEF c2
<1>5. Makes(c2, h + 1, c3, h + 1, m)
  BY <1>1, <1>4, MakesBuffers, GensOne
<1> HIDE DEF c3
<1>6. Makes(c3, h + 1, c4, h + 1, m)
  BY <1>1, <1>5, MakesBuffers, EmitRegister
<1> HIDE DEF c4
<1>7. Makes(c4, h + 1, c5, h, m)
  BY <1>6, MakesBuffers, EmitPop
<1> HIDE DEF c5
<1>8. Makes(c5, h, c6, h, m)
  BY <1>1, <1>7, MakesBuffers, ArithmeticMakes
<1> HIDE DEF c6
<1>9. Makes(c, h, c3, h + 1, m)
  BY <1>2, <1>4, <1>5, MakesOn
<1>10. Makes(c3, h + 1, c6, h, m)
  BY <1>6, <1>7, <1>8, MakesOn
<1> QED
  BY <1>3, <1>9, <1>10, MakesOn

-----------------------------------------------------------------------------
(* The trees. *)

\* The expressions j nodes deep, from those one less deep.
ExprStep(m, j, u) ==
  IF j = 0 THEN {}
  ELSE [kind : {"num"}, val : Int] \cup Vars(m) \cup [kind : {"neg"}, a : u]
         \cup [kind : {"binop"}, op : Operators, a : u, b : u]

ExprTables(m, n, u) == u = [j \in 0 .. n |-> ExprStep(m, j, u[j - 1])]

LEMMA ExprTableZero == ASSUME NEW m, NEW x, NEW y PROVE ExprStep(m, 0, x) = ExprStep(m, 0, y)
  BY DEF ExprStep

LEMMA ExprTableMore ==
  ASSUME NEW m, NEW n \in Nat, NEW q, ExprTables(m, n, q)
  PROVE  \E u : ExprTables(m, n + 1, u)
<1> DEFINE u == [j \in 0 .. n + 1 |-> IF j <= n THEN q[j] ELSE ExprStep(m, n + 1, q[n])]
<1>1. \A j \in 0 .. n : q[j] = ExprStep(m, j, q[j - 1])
  BY DEF ExprTables
<1>2. \A j \in 0 .. n : u[j] = q[j]
  OBVIOUS
<1>3. u[n + 1] = ExprStep(m, n + 1, q[n]) /\ u = [j \in 0 .. n + 1 |-> u[j]]
  OBVIOUS
<1> HIDE DEF u
<1>4. ASSUME NEW j \in 0 .. n + 1
      PROVE  u[j] = ExprStep(m, j, u[j - 1])
  <2>1. CASE j = 0
    <3>1. 0 \in 0 .. n
      OBVIOUS
    <3>2. u[0] = ExprStep(m, 0, q[0 - 1])
      BY <1>1, <1>2, <3>1
    <3> QED
      BY <2>1, <3>2, ExprTableZero
  <2>2. CASE j \in 1 .. n
    <3>1. j \in 0 .. n /\ j - 1 \in 0 .. n
      BY <2>2
    <3>2. u[j] = q[j] /\ u[j - 1] = q[j - 1]
      BY <1>2, <3>1
    <3> QED
      BY <1>1, <3>1, <3>2
  <2>3. CASE j = n + 1
    <3>1. n \in 0 .. n /\ (n + 1) - 1 = n
      OBVIOUS
    <3>2. u[n] = q[n]
      BY <1>2, <3>1
    <3> QED
      BY <1>3, <2>3, <3>1, <3>2
  <2> QED
    BY <2>1, <2>2, <2>3
<1>5. u = [j \in 0 .. n + 1 |-> ExprStep(m, j, u[j - 1])]
  BY <1>3, <1>4
<1> QED
  BY <1>5 DEF ExprTables

LEMMA ExprTableExists == ASSUME NEW m, NEW n \in Nat PROVE \E u : ExprTables(m, n, u)
<1> DEFINE I == {j \in Nat : \E u : ExprTables(m, j, u)}
<1>1. 0 \in I
  <2> DEFINE u == [j \in 0 .. 0 |-> ExprStep(m, 0, 0)]
  <2>1. \A j \in 0 .. 0 : j = 0
    OBVIOUS
  <2>2. \A j \in 0 .. 0 : ExprStep(m, j, u[j - 1]) = ExprStep(m, 0, 0)
    BY <2>1, ExprTableZero
  <2> DEFINE w == [j \in 0 .. 0 |-> ExprStep(m, j, u[j - 1])]
  <2>3. u = w
    BY <2>2
  <2> HIDE DEF u
  <2>4. ExprTables(m, 0, u)
    BY <2>3 DEF ExprTables
  <2> QED
    BY <2>4
<1>2. \A j \in 1 .. n : j - 1 \in I => j \in I
  <2> SUFFICES ASSUME NEW j \in 1 .. n, j - 1 \in I PROVE j \in I
    OBVIOUS
  <2>1. j - 1 \in Nat /\ (j - 1) + 1 = j /\ j \in Nat
    OBVIOUS
  <2>2. PICK q : ExprTables(m, j - 1, q)
    OBVIOUS
  <2> HIDE DEF I
  <2>3. \E u : ExprTables(m, (j - 1) + 1, u)
    BY <2>1, <2>2, ExprTableMore
  <2> QED
    BY <2>1, <2>3 DEF I
<1> HIDE DEF I
<1>3. Inductive(n, I)
  BY <1>1, <1>2 DEF Inductive
<1>4. n \in 0 .. n
  OBVIOUS
<1>5. n \in I
  BY <1>3, <1>4, Induction
<1> QED
  BY <1>5 DEF I

LEMMA ExprTableIs ==
  ASSUME NEW m, NEW d \in 0 .. MaxNodes
  PROVE  ExprTrees(m)[d] = ExprStep(m, d, ExprTrees(m)[d - 1])
<1>1. MaxNodes \in Nat
  BY CompilerAssumption
<1>2. \E u : ExprTables(m, MaxNodes, u)
  BY <1>1, ExprTableExists
<1>3. ExprTrees(m) = CHOOSE u : ExprTables(m, MaxNodes, u)
  BY DEF ExprTrees, ExprTables, ExprStep
<1>4. ExprTables(m, MaxNodes, ExprTrees(m))
  BY <1>2, <1>3
<1> QED
  BY <1>4 DEF ExprTables

-----------------------------------------------------------------------------
(* The code of expressions. *)

\* The code of expressions j nodes deep, from that of those one less deep.
GenExprStep(j, u) ==
  [n \in ExprTrees(MaxNodes)[j] |-> [c \in Buffers |-> ExprCode(u, n, c)]]

GenExprTables(n, u) == u = [j \in 0 .. n |-> GenExprStep(j, u[j - 1])]

LEMMA GenExprTableZero == ASSUME NEW x, NEW y PROVE GenExprStep(0, x) = GenExprStep(0, y)
<1>1. 0 \in 0 .. MaxNodes
  BY CompilerAssumption
<1>2. ExprTrees(MaxNodes)[0] = {}
  BY <1>1, ExprTableIs DEF ExprStep
<1>3. \A n \in ExprTrees(MaxNodes)[0], c \in Buffers : ExprCode(x, n, c) = ExprCode(y, n, c)
  BY <1>2
<1> QED
  BY <1>3 DEF GenExprStep

LEMMA GenExprTableMore ==
  ASSUME NEW n \in Nat, NEW q, GenExprTables(n, q)
  PROVE  \E u : GenExprTables(n + 1, u)
<1> DEFINE u == [j \in 0 .. n + 1 |-> IF j <= n THEN q[j] ELSE GenExprStep(n + 1, q[n])]
<1>1. \A j \in 0 .. n : q[j] = GenExprStep(j, q[j - 1])
  BY DEF GenExprTables
<1>2. \A j \in 0 .. n : u[j] = q[j]
  OBVIOUS
<1>3. u[n + 1] = GenExprStep(n + 1, q[n]) /\ u = [j \in 0 .. n + 1 |-> u[j]]
  OBVIOUS
<1> HIDE DEF u
<1>4. ASSUME NEW j \in 0 .. n + 1
      PROVE  u[j] = GenExprStep(j, u[j - 1])
  <2>1. CASE j = 0
    <3>1. 0 \in 0 .. n
      OBVIOUS
    <3>2. u[0] = GenExprStep(0, q[0 - 1])
      BY <1>1, <1>2, <3>1
    <3> QED
      BY <2>1, <3>2, GenExprTableZero
  <2>2. CASE j \in 1 .. n
    <3>1. j \in 0 .. n /\ j - 1 \in 0 .. n
      BY <2>2
    <3>2. u[j] = q[j] /\ u[j - 1] = q[j - 1]
      BY <1>2, <3>1
    <3> QED
      BY <1>1, <3>1, <3>2
  <2>3. CASE j = n + 1
    <3>1. n \in 0 .. n /\ (n + 1) - 1 = n
      OBVIOUS
    <3>2. u[n] = q[n]
      BY <1>2, <3>1
    <3> QED
      BY <1>3, <2>3, <3>1, <3>2
  <2> QED
    BY <2>1, <2>2, <2>3
<1>5. u = [j \in 0 .. n + 1 |-> GenExprStep(j, u[j - 1])]
  BY <1>3, <1>4
<1> QED
  BY <1>5 DEF GenExprTables

LEMMA GenExprTableExists == ASSUME NEW n \in Nat PROVE \E u : GenExprTables(n, u)
<1> DEFINE I == {j \in Nat : \E u : GenExprTables(j, u)}
<1>1. 0 \in I
  <2> DEFINE u == [j \in 0 .. 0 |-> GenExprStep(0, 0)]
  <2>1. \A j \in 0 .. 0 : j = 0
    OBVIOUS
  <2>2. \A j \in 0 .. 0 : GenExprStep(j, u[j - 1]) = GenExprStep(0, 0)
    BY <2>1, GenExprTableZero
  <2> DEFINE w == [j \in 0 .. 0 |-> GenExprStep(j, u[j - 1])]
  <2>3. u = w
    BY <2>2
  <2> HIDE DEF u
  <2>4. GenExprTables(0, u)
    BY <2>3 DEF GenExprTables
  <2> QED
    BY <2>4
<1>2. \A j \in 1 .. n : j - 1 \in I => j \in I
  <2> SUFFICES ASSUME NEW j \in 1 .. n, j - 1 \in I PROVE j \in I
    OBVIOUS
  <2>1. j - 1 \in Nat /\ (j - 1) + 1 = j /\ j \in Nat
    OBVIOUS
  <2>2. PICK q : GenExprTables(j - 1, q)
    OBVIOUS
  <2> HIDE DEF I
  <2>3. \E u : GenExprTables((j - 1) + 1, u)
    BY <2>1, <2>2, GenExprTableMore
  <2> QED
    BY <2>1, <2>3 DEF I
<1> HIDE DEF I
<1>3. Inductive(n, I)
  BY <1>1, <1>2 DEF Inductive
<1>4. n \in 0 .. n
  OBVIOUS
<1>5. n \in I
  BY <1>3, <1>4, Induction
<1> QED
  BY <1>5 DEF I

LEMMA GenExprTableIs ==
  ASSUME NEW d \in 0 .. MaxNodes
  PROVE  genExpr[d] = GenExprStep(d, genExpr[d - 1])
<1>1. MaxNodes \in Nat
  BY CompilerAssumption
<1>2. \E u : GenExprTables(MaxNodes, u)
  BY <1>1, GenExprTableExists
<1>3. genExpr = CHOOSE u : GenExprTables(MaxNodes, u)
  BY DEF genExpr, GenExprTables, GenExprStep
<1>4. GenExprTables(MaxNodes, genExpr)
  BY <1>2, <1>3
<1> QED
  BY <1>4 DEF GenExprTables

LEMMA ExprForms ==
  ASSUME NEW m, NEW d \in 1 .. MaxNodes, NEW n \in ExprTrees(m)[d]
  PROVE  \/ n.kind = "num" /\ n.val \in Int
         \/ n.kind = "var" /\ n.off \in {4 * k : k \in 1 .. m} /\ n.name \in Idents
         \/ n.kind = "neg" /\ n.a \in ExprTrees(m)[d - 1]
         \/ n.kind = "binop" /\ n.op \in Operators /\ n.a \in ExprTrees(m)[d - 1]
              /\ n.b \in ExprTrees(m)[d - 1]
<1> DEFINE T == ExprTrees(m)[d - 1]
<1>1. d \in 0 .. MaxNodes /\ d # 0
  OBVIOUS
<1>2. n \in ExprStep(m, d, T)
  BY <1>1, ExprTableIs
<1> HIDE DEF T
<1>3. \/ n \in [kind : {"num"}, val : Int]
      \/ n \in Vars(m)
      \/ n \in [kind : {"neg"}, a : T]
      \/ n \in [kind : {"binop"}, op : Operators, a : T, b : T]
  BY <1>1, <1>2 DEF ExprStep
<1>4. CASE n \in [kind : {"num"}, val : Int]
  BY <1>4
<1>5. CASE n \in Vars(m)
  BY <1>5 DEF Vars
<1>6. CASE n \in [kind : {"neg"}, a : T]
  BY <1>6 DEF T
<1>7. CASE n \in [kind : {"binop"}, op : Operators, a : T, b : T]
  BY <1>7 DEF T
<1> QED
  BY <1>3, <1>4, <1>5, <1>6, <1>7

LEMMA NoExprs == ASSUME NEW m PROVE ExprTrees(m)[0] = {} /\ 0 \in 0 .. MaxNodes
<1>1. 0 \in 0 .. MaxNodes
  BY CompilerAssumption
<1>2. ExprTrees(m)[0] = ExprStep(m, 0, ExprTrees(m)[0 - 1])
  BY <1>1, ExprTableIs
<1> QED
  BY <1>1, <1>2 DEF ExprStep

LEMMA VarsGrow ==
  ASSUME NEW m \in Nat, NEW k \in Nat, m <= k
  PROVE  Vars(m) \subseteq Vars(k)
<1>1. \A i \in 1 .. m : i \in 1 .. k
  OBVIOUS
<1>2. {4 * i : i \in 1 .. m} \subseteq {4 * i : i \in 1 .. k}
  BY <1>1
<1> QED
  BY <1>2 DEF Vars

LEMMA ExprStepGrows ==
  ASSUME NEW m \in Nat, NEW k \in Nat, m <= k, NEW d \in Nat, NEW e \in Nat, d = 0 \/ e # 0,
         NEW u, NEW v, u \subseteq v
  PROVE  ExprStep(m, d, u) \subseteq ExprStep(k, e, v)
<1>1. Vars(m) \subseteq Vars(k)
  BY VarsGrow
<1>2. [kind : {"neg"}, a : u] \subseteq [kind : {"neg"}, a : v]
  OBVIOUS
<1>3. [kind : {"binop"}, op : Operators, a : u, b : u]
        \subseteq [kind : {"binop"}, op : Operators, a : v, b : v]
  OBVIOUS
<1>4. CASE d = 0
  BY <1>4 DEF ExprStep
<1>5. CASE d # 0 /\ e # 0
  BY <1>1, <1>2, <1>3, <1>5 DEF ExprStep
<1> QED
  BY <1>4, <1>5

LEMMA ExprsGrow ==
  ASSUME NEW m \in Nat, NEW k \in Nat, m <= k, NEW d \in 0 .. MaxNodes
  PROVE  ExprTrees(m)[d] \subseteq ExprTrees(k)[d]
<1> DEFINE I == {j \in 0 .. MaxNodes : ExprTrees(m)[j] \subseteq ExprTrees(k)[j]}
<1>1. MaxNodes \in Nat
  BY CompilerAssumption
<1>2. 0 \in I
  BY NoExprs
<1>3. ASSUME NEW j \in 1 .. MaxNodes, j - 1 \in I
      PROVE  j \in I
  <2>1. j \in 0 .. MaxNodes /\ j \in Nat /\ j # 0
    OBVIOUS
  <2>2. ExprTrees(m)[j - 1] \subseteq ExprTrees(k)[j - 1]
    BY <1>3
  <2>3. ExprStep(m, j, ExprTrees(m)[j - 1]) \subseteq ExprStep(k, j, ExprTrees(k)[j - 1])
    BY <2>1, <2>2, ExprStepGrows
  <2> QED
    BY <2>1, <2>3, ExprTableIs
<1> HIDE DEF I
<1>4. d \in I
  BY <1>1, <1>2, <1>3, Induction DEF Inductive
<1> QED
  BY <1>4 DEF I

LEMMA ExprsDeepen ==
  ASSUME NEW m \in Nat, NEW d \in 1 .. MaxNodes
  PROVE  ExprTrees(m)[d - 1] \subseteq ExprTrees(m)[d]
<1> DEFINE I == {j \in 0 .. MaxNodes : j # 0 => ExprTrees(m)[j - 1] \subseteq ExprTrees(m)[j]}
<1>1. MaxNodes \in Nat
  BY CompilerAssumption
<1>2. 0 \in I
  BY <1>1
<1>3. ASSUME NEW j \in 1 .. MaxNodes, j - 1 \in I
      PROVE  j \in I
  <2>1. j \in 0 .. MaxNodes /\ j \in Nat /\ j - 1 \in 0 .. MaxNodes /\ j - 1 \in Nat /\ j # 0
    BY <1>1
  <2>2. ExprTrees(m)[j - 1] \subseteq ExprTrees(m)[j]
    <3>1. CASE j = 1
      <4>1. ExprTrees(m)[0] = {}
        BY NoExprs
      <4> QED
        BY <3>1, <4>1
    <3>2. CASE j # 1
      <4>1. ExprTrees(m)[(j - 1) - 1] \subseteq ExprTrees(m)[j - 1]
        BY <1>3, <2>1, <3>2
      <4>2. ExprStep(m, j - 1, ExprTrees(m)[(j - 1) - 1]) \subseteq ExprStep(m, j, ExprTrees(m)[j - 1])
        BY <2>1, <4>1, ExprStepGrows
      <4> QED
        BY <2>1, <4>2, ExprTableIs
    <3> QED
      BY <3>1, <3>2
  <2> QED
    BY <2>1, <2>2
<1> HIDE DEF I
<1>4. d \in I
  BY <1>1, <1>2, <1>3, Induction DEF Inductive
<1> QED
  BY <1>4 DEF I

LEMMA ExprCodeMakes ==
  ASSUME NEW m \in 0 .. MaxLocals, NEW d \in 1 .. MaxNodes, NEW n \in ExprTrees(m)[d],
         NEW gen, Gens(gen, ExprTrees(m)[d - 1], m), NEW c \in Buffers, NEW h \in Int, h >= 2 + m
  PROVE  Makes(c, h, ExprCode(gen, n, c), h, m)
<1> DEFINE T == ExprTrees(m)[d - 1]
<1>1. m \in Nat /\ h >= 2
  BY CompilerAssumption
<1>2. \/ n.kind = "num" /\ n.val \in Int
      \/ n.kind = "var" /\ n.off \in {4 * k : k \in 1 .. m}
      \/ n.kind = "neg" /\ n.a \in T
      \/ n.kind = "binop" /\ n.op \in Operators /\ n.a \in T /\ n.b \in T
  BY ExprForms
<1> HIDE DEF T
<1>3. CASE n.kind = "num" /\ n.val \in Int
  <2>1. "mov_eax_imm" \in Plain
    BY DEF Plain
  <2>2. "mov_eax_imm" \notin DOMAIN Opcode
    BY DEF Opcode
  <2>3. ExprCode(gen, n, c) = Ins(c, "mov_eax_imm", n.val)
    BY <1>3 DEF ExprCode
  <2> QED
    BY <1>1, <1>3, <2>1, <2>2, <2>3, EmitPlain
<1>4. CASE n.kind = "var" /\ n.off \in {4 * k : k \in 1 .. m}
  <2>1. ExprCode(gen, n, c) = Ins(c, "load", Disp(n.off))
    BY <1>4 DEF ExprCode
  <2> QED
    BY <1>4, <2>1, InsLocal
<1>5. CASE n.kind = "neg" /\ n.a \in T
  <2> DEFINE e == Made(gen, n.a, c)
  <2>1. ExprCode(gen, n, c) = Emit(e, "neg")
    BY <1>5 DEF ExprCode, Made
  <2>2. Makes(c, h, e, h, m)
    BY <1>5, GensOne DEF T
  <2> HIDE DEF e
  <2>3. Makes(e, h, Emit(e, "neg"), h, m)
    BY <1>1, <2>2, MakesBuffers, EmitRegister
  <2> QED
    BY <2>1, <2>2, <2>3, MakesOn
<1>6. CASE n.kind = "binop" /\ n.op \in Operators /\ n.a \in T /\ n.b \in T
  <2>1. ExprCode(gen, n, c) = GenBinop(gen, n, c)
    BY <1>6 DEF ExprCode
  <2> QED
    BY <1>1, <1>6, <2>1, GenBinopMakes DEF T
<1> QED
  BY <1>2, <1>3, <1>4, <1>5, <1>6

LEMMA GenExprIs ==
  ASSUME NEW d \in 0 .. MaxNodes, NEW n \in ExprTrees(MaxNodes)[d], NEW c \in Buffers
  PROVE  genExpr[d][n][c] = ExprCode(genExpr[d - 1], n, c)
<1>1. genExpr[d] = GenExprStep(d, genExpr[d - 1])
  BY GenExprTableIs
<1>2. GenExprStep(d, genExpr[d - 1])[n] = [b \in Buffers |-> ExprCode(genExpr[d - 1], n, b)]
  BY DEF GenExprStep
<1> QED
  BY <1>1, <1>2

LEMMA LocalsFit ==
  ASSUME NEW m \in 0 .. MaxLocals
  PROVE  m \in Nat /\ MaxNodes \in Nat /\ m <= MaxNodes
  BY CompilerAssumption

LEMMA GenExprMakes ==
  ASSUME NEW m \in 0 .. MaxLocals, NEW d \in 0 .. MaxNodes
  PROVE  Gens(genExpr[d], ExprTrees(m)[d], m)
<1> DEFINE I == {j \in 0 .. MaxNodes : Gens(genExpr[j], ExprTrees(m)[j], m)}
<1>1. m \in Nat /\ MaxNodes \in Nat /\ m <= MaxNodes
  BY LocalsFit
<1>2. 0 \in I
  <2>1. ExprTrees(m)[0] = {} /\ 0 \in 0 .. MaxNodes
    BY NoExprs
  <2> QED
    BY <2>1 DEF Gens
<1>3. ASSUME NEW j \in 1 .. MaxNodes, j - 1 \in I
      PROVE  j \in I
  <2>1. j \in 0 .. MaxNodes
    OBVIOUS
  <2>2. Gens(genExpr[j - 1], ExprTrees(m)[j - 1], m)
    BY <1>3
  <2>3. ASSUME NEW n \in ExprTrees(m)[j], NEW c \in Buffers, NEW h \in Int, h >= 2 + m
        PROVE  Makes(c, h, Made(genExpr[j], n, c), h, m)
    <3>1. n \in ExprTrees(MaxNodes)[j]
      BY <1>1, <2>1, ExprsGrow
    <3>2. Made(genExpr[j], n, c) = ExprCode(genExpr[j - 1], n, c)
      BY <2>1, <3>1, GenExprIs DEF Made
    <3> QED
      BY <2>2, <2>3, <3>2, ExprCodeMakes
  <2>4. Gens(genExpr[j], ExprTrees(m)[j], m)
    BY <2>3 DEF Gens
  <2> QED
    BY <2>1, <2>4
<1> HIDE DEF I
<1>4. d \in I
  BY <1>1, <1>2, <1>3, Induction DEF Inductive
<1> QED
  BY <1>4 DEF I

LEMMA ExprMakes ==
  ASSUME NEW m \in 0 .. MaxLocals, NEW n \in ExprTrees(m)[MaxNodes], NEW c \in Buffers,
         NEW h \in Int, h >= 2 + m
  PROVE  Makes(c, h, GenExpr(n, c), h, m)
<1>1. MaxNodes \in 0 .. MaxNodes
  BY CompilerAssumption
<1>2. Gens(genExpr[MaxNodes], ExprTrees(m)[MaxNodes], m)
  BY <1>1, GenExprMakes
<1>3. GenExpr(n, c) = Made(genExpr[MaxNodes], n, c)
  BY DEF GenExpr, Made
<1> QED
  BY <1>2, <1>3, GensOne

-----------------------------------------------------------------------------
(* The code of statements. *)

\* The instructions of main's frame.
LEMMA EmitFrame ==
  ASSUME NEW c \in Buffers, NEW op, NEW h \in Int, NEW g \in Int, NEW n,
         \/ op = "push_ebp" /\ h = 1 /\ g = 0
         \/ op = "mov_ebp_esp" /\ h = 0 /\ g = 2
         \/ op = "mov_esp_ebp" /\ h >= 2 /\ g = 2
         \/ op = "pop_ebp" /\ h = 2 /\ g = 1
         \/ op = "ret" /\ h = 1
  PROVE  Makes(c, h, Emit(c, op), g, n)
<1>1. op \in DOMAIN Size
  BY DEF Size
<1>2. op \notin DOMAIN Opcode
  BY DEF Opcode
<1>3. Leads([op |-> op, arg |-> 0], n, h, g)
  BY DEF Leads, Plain
<1> QED
  BY <1>1, <1>2, <1>3, EmitLifts DEF Makes

\* What follows a return is never reached, whatever its height.
LEMMA EpilogueMakes ==
  ASSUME NEW c \in Buffers, NEW h \in Int, h >= 2, NEW g \in Int, NEW n
  PROVE  Makes(c, h, Epilogue(c), g, n)
<1> DEFINE c1 == Emit(c, "mov_esp_ebp")
           c2 == Emit(c1, "pop_ebp")
           c3 == Emit(c2, "ret")
<1>1. Epilogue(c) = c3
  BY DEF Epilogue
<1>2. Makes(c, h, c1, 2, n)
  BY EmitFrame
<1> HIDE DEF c1
<1>3. Makes(c1, 2, c2, 1, n)
  BY <1>2, MakesBuffers, EmitFrame
<1> HIDE DEF c2
<1>4. Makes(c2, 1, c3, g, n)
  BY <1>3, MakesBuffers, EmitFrame
<1> HIDE DEF c3
<1>5. Makes(c, h, c2, 1, n)
  BY <1>2, <1>3, MakesOn
<1> QED
  BY <1>1, <1>4, <1>5, MakesOn

LEMMA GenPrintMakes ==
  ASSUME NEW m \in 0 .. MaxLocals, NEW n, n.a \in ExprTrees(m)[MaxNodes], NEW c \in Buffers,
         NEW h \in Int, h >= 2 + m
  PROVE  Makes(c, h, GenPrint(n, c), h, m)
<1> DEFINE c1 == GenExpr(n.a, c)
           c2 == Emit(c1, "push_eax")
           c3 == Ins(c2, "mov_eax_imm", 0)
           c4 == Emit(c3, "call_eax")
           c5 == Emit(c4, "add_esp4")
<1>1. m \in Nat /\ h + 1 \in Int /\ h + 1 > 2 + m /\ h + 1 >= 2
  BY LocalsFit
<1>2. GenPrint(n, c) = c5
  BY DEF GenPrint
<1>3. Makes(c, h, c1, h, m)
  BY ExprMakes
<1> HIDE DEF c1
<1>4. Makes(c1, h, c2, h + 1, m)
  BY <1>1, <1>3, MakesBuffers, EmitPush
<1> HIDE DEF c2
<1>5. Makes(c2, h + 1, c3, h + 1, m)
  <2>1. "mov_eax_imm" \in Plain
    BY DEF Plain
  <2>2. "mov_eax_imm" \notin DOMAIN Opcode
    BY DEF Opcode
  <2>3. c2 \in Buffers /\ 0 \in Int
    BY <1>4, MakesBuffers
  <2> QED
    BY <1>1, <2>1, <2>2, <2>3, EmitPlain
<1> HIDE DEF c3
<1>6. Makes(c3, h + 1, c4, h + 1, m)
  <2>1. "call_eax" \in DOMAIN Size
    BY DEF Size
  <2>2. "call_eax" \notin DOMAIN Opcode
    BY DEF Opcode
  <2>3. Leads([op |-> "call_eax", arg |-> 0], m, h + 1, h + 1)
    BY <1>1 DEF Leads, Plain
  <2>4. c3 \in Buffers
    BY <1>5, MakesBuffers
  <2> QED
    BY <1>1, <2>1, <2>2, <2>3, <2>4, EmitLifts DEF Makes
<1> HIDE DEF c4
<1>7. Makes(c4, h + 1, c5, h, m)
  BY <1>1, <1>6, MakesBuffers, EmitPop
<1> HIDE DEF c5
<1>8. Makes(c, h, c3, h + 1, m)
  BY <1>3, <1>4, <1>5, MakesOn
<1>9. Makes(c3, h + 1, c5, h, m)
  BY <1>6, <1>7, MakesOn
<1> QED
  BY <1>2, <1>8, <1>9, MakesOn

\* One way to use Makes: for code with given heights.
LEMMA MakesOne ==
  ASSUME NEW c, NEW h, NEW d, NEW g, NEW n, Makes(c, h, d, g, n), NoError(d), NEW a, Tall(c, a, h, n)
  PROVE  \E b : Tall(d, b, g, n) /\ Grown(c.code, a, d.code, b)
  BY DEF Makes, Lift

LEMMA MakesError ==
  ASSUME NEW c, NEW h, NEW d, NEW g, NEW n, Makes(c, h, d, g, n), NoError(d)
  PROVE  NoError(c)
  BY DEF Makes, Lift

LEMMA CodeLen ==
  ASSUME NEW c \in Buffers
  PROVE  c.code \in Seq(Bytes) /\ Len(c.code) \in Nat
  BY DEF Buffers

LEMMA GrownPatch ==
  ASSUME NEW s, NEW a, NEW t, NEW b, NEW u, NEW p \in Nat, Len(s) \in Nat, Len(s) <= p,
         Grown(s, a, t, b), Len(u) = Len(t), \A i \in 1 .. p : u[i] = t[i]
  PROVE  Grown(s, a, u, b)
<1>1. \A i \in 1 .. Len(s) : i \in 1 .. p
  OBVIOUS
<1>2. \A i \in 1 .. Len(s) : u[i] = s[i]
  BY <1>1 DEF Grown
<1> QED
  BY <1>2 DEF Grown

\* The distance of the jump op at p stands at at.
DistanceAt(p, op, at) == at = p + Opcode[op]

\* A jump of the height h is led past the code of d.
LEMMA PatchOn ==
  ASSUME NEW s, Len(s) \in Nat, NEW a, NEW d \in Buffers, NEW b, NEW h \in Int, h >= 0, NEW n,
         NoError(d), Tall(d, b, h, n), Grown(s, a, d.code, b),
         NEW p \in Nat, Len(s) <= p, NEW op, Jumping(d.code, b, p, op), b[p] = h,
         NEW at, DistanceAt(p, op, at), NEW e, e = Patch(d, at, Len(d.code))
  PROVE  Tall(e, b, h, n) /\ Grown(s, a, e.code, b) /\ SameJumps(d.code, e.code, b)
<1> DEFINE target == Len(d.code)
<1>1. target \in 0 .. Len(d.code) /\ b[target] = b[p]
  <2>1. Len(d.code) \in Nat
    BY CodeLen
  <2> QED
    BY <2>1 DEF Tall
<1>2. e = Patch(d, at, target) /\ at = p + Opcode[op]
  BY DEF DistanceAt
<1> HIDE DEF target
<1>3. Tall(e, b, h, n) /\ Len(e.code) = Len(d.code)
  BY <1>1, <1>2, PatchKeeps
<1>4. \A i \in 1 .. p : e.code[i] = d.code[i]
  BY <1>1, <1>2, PatchKeeps
<1>5. SameJumps(d.code, e.code, b)
  BY <1>1, <1>2, PatchKeeps
<1>6. Grown(s, a, e.code, b)
  BY <1>3, <1>4, GrownPatch
<1> QED
  BY <1>3, <1>5, <1>6

LEMMA SameJump ==
  ASSUME NEW s, NEW t, NEW a, SameJumps(s, t, a), NEW q, NEW o, Jumping(s, a, q, o)
  PROVE  Jumping(t, a, q, o)
  BY DEF SameJumps

LEMMA HoleIs ==
  ASSUME NEW c \in Buffers, NEW op \in DOMAIN Opcode
  PROVE  /\ DistanceAt(Len(c.code), op, Hole(c, op)) /\ Hole(c, op) \in Nat
         /\ \A d \in Buffers, t \in Nat : /\ Patch(d, Hole(c, op), t) \in Buffers
                                          /\ NoError(Patch(d, Hole(c, op), t)) <=> NoError(d)
<1>1. Len(c.code) \in Nat /\ Opcode[op] \in 1 .. 2
  BY CodeLen, OpcodeIs
<1>2. Hole(c, op) = Len(c.code) + Opcode[op] /\ Hole(c, op) \in Nat
  BY <1>1 DEF Hole
<1>3. \A t \in Nat : t \in Int
  OBVIOUS
<1> QED
  BY <1>2, <1>3, PatchIs DEF DistanceAt

-----------------------------------------------------------------------------
(* If and while. *)

\* Code from c to d that starts with a jump: the jump stands where c ended.
LEMMA BranchTo ==
  ASSUME NEW c \in Buffers, NEW op \in DOMAIN Opcode, NEW h \in Int, h >= 2, NEW n,
         NEW d, Makes(Placeholder(c, op), h, d, h, n), NoError(d), NEW a, Tall(c, a, h, n)
  PROVE  NoError(c) /\ \E b : /\ Tall(d, b, h, n) /\ Grown(c.code, a, d.code, b)
                              /\ Jumping(d.code, b, Len(c.code), op) /\ b[Len(c.code)] = h
<1> DEFINE j == Placeholder(c, op)
           p == Len(c.code)
<1>1. j \in Buffers /\ NoError(j) /\ NoError(c)
  BY MakesError, PlaceholderLifts
<1>2. PICK f : Tall(j, f, h, n) /\ Grown(c.code, a, j.code, f) /\ Jumping(j.code, f, p, op)
  BY <1>1, PlaceholderLifts
<1>3. Makes(j, h, d, h, n)
  OBVIOUS
<1> HIDE DEF j
<1>4. PICK b : Tall(d, b, h, n) /\ Grown(j.code, f, d.code, b)
  BY <1>1, <1>2, <1>3, MakesOne
<1>5. c.code \in Seq(Bytes) /\ j.code \in Seq(Bytes) /\ d.code \in Seq(Bytes)
      /\ p \in Nat /\ Len(j.code) \in Nat /\ Len(d.code) \in Nat
  BY <1>2, <1>4, TallLen
<1>6. Jumping(d.code, b, p, op)
  BY <1>2, <1>4, <1>5, JumpingOn
<1>7. Grown(c.code, a, d.code, b)
  BY <1>2, <1>4, <1>5, GrownOn
<1>8. b[p] = h
  <2>1. p \in 0 .. p
    BY <1>5
  <2>2. a[p] = h
    BY DEF Tall
  <2> QED
    BY <1>7, <2>1, <2>2 DEF Grown
<1> QED
  BY <1>1, <1>4, <1>6, <1>7, <1>8

\* The jump skips the code that follows it.
LEMMA SkipMakes ==
  ASSUME NEW c \in Buffers, NEW op \in DOMAIN Opcode, NEW h \in Int, h >= 2, NEW n,
         NEW d, Makes(Placeholder(c, op), h, d, h, n)
  PROVE  Makes(c, h, Patch(d, Hole(c, op), Len(d.code)), h, n)
<1> DEFINE e == Patch(d, Hole(c, op), Len(d.code))
           p == Len(c.code)
<1>1. d \in Buffers
  BY MakesBuffers
<1>2. Len(d.code) \in Nat /\ p \in Nat
  BY <1>1, CodeLen
<1> DEFINE at == Hole(c, op)
<1>3. DistanceAt(p, op, at)
  BY HoleIs
<1>4. e \in Buffers /\ (NoError(e) <=> NoError(d))
  BY <1>1, <1>2, HoleIs
<1>5. e = Patch(d, at, Len(d.code))
  OBVIOUS
<1> HIDE DEF e, at
<1>6. ASSUME NoError(e)
      PROVE  NoError(c)
  <2>1. NoError(Placeholder(c, op))
    BY <1>4, <1>6, MakesError
  <2> QED
    BY <2>1, PlaceholderLifts
<1>7. ASSUME NoError(e), NEW a, Tall(c, a, h, n)
      PROVE  \E b : Tall(e, b, h, n) /\ Grown(c.code, a, e.code, b)
  <2>1. NoError(d)
    BY <1>4, <1>7
  <2>2. PICK b : /\ Tall(d, b, h, n) /\ Grown(c.code, a, d.code, b)
                 /\ Jumping(d.code, b, p, op) /\ b[p] = h
    BY <1>7, <2>1, BranchTo
  <2>3. p <= p /\ h >= 0
    BY <1>2
  <2>4. Tall(e, b, h, n) /\ Grown(c.code, a, e.code, b)
    BY <1>1, <1>2, <1>3, <1>5, <2>1, <2>2, <2>3, PatchOn
  <2> QED
    BY <2>4
<1> QED
  BY <1>4, <1>6, <1>7 DEF Makes, Lift, e

LEMMA TestMakes ==
  ASSUME NEW m \in 0 .. MaxLocals, NEW n \in ExprTrees(m)[MaxNodes], NEW c \in Buffers,
         NEW h \in Int, h >= 2 + m
  PROVE  Makes(c, h, Emit(GenExpr(n, c), "test"), h, m)
<1> DEFINE d == GenExpr(n, c)
<1>1. h >= 2
  BY LocalsFit
<1>2. Makes(c, h, d, h, m)
  BY ExprMakes
<1> HIDE DEF d
<1>3. Makes(d, h, Emit(d, "test"), h, m)
  BY <1>1, <1>2, MakesBuffers, EmitRegister
<1>4. Makes(c, h, Emit(d, "test"), h, m)
  BY <1>2, <1>3, MakesOn
<1> QED
  BY <1>4 DEF d

LEMMA JumpOps == "jz" \in DOMAIN Opcode /\ "jmp" \in DOMAIN Opcode
  BY DEF Opcode

\* A jump over the else part, and a test that leads to that part.
LEMMA ElseMakes ==
  ASSUME NEW c \in Buffers, NEW h \in Int, h >= 2, NEW n,
         NEW d, Makes(Placeholder(c, "jz"), h, d, h, n),
         NEW o, o = Placeholder(d, "jmp"),
         NEW s, s = Patch(o, Hole(c, "jz"), Len(o.code)),
         NEW e, Makes(s, h, e, h, n),
         NEW f, f = Patch(e, Hole(d, "jmp"), Len(e.code))
  PROVE  Makes(c, h, f, h, n)
<1> DEFINE p == Len(c.code)
           q == Len(d.code)
<1>1. "jz" \in DOMAIN Opcode /\ "jmp" \in DOMAIN Opcode
  BY JumpOps
<1>2. d \in Buffers /\ e \in Buffers
  BY MakesBuffers
<1>3. o \in Buffers
  BY <1>1, <1>2, PlaceholderLifts
<1>4. p \in Nat /\ q \in Nat /\ Len(o.code) \in Nat /\ Len(e.code) \in Nat
  BY <1>2, <1>3, CodeLen
<1> DEFINE at == Hole(c, "jz")
           to == Hole(d, "jmp")
<1>5. DistanceAt(p, "jz", at) /\ DistanceAt(q, "jmp", to)
  BY <1>1, <1>2, HoleIs
<1>6. s = Patch(o, at, Len(o.code)) /\ f = Patch(e, to, Len(e.code))
  OBVIOUS
<1>7. s \in Buffers /\ (NoError(s) <=> NoError(o))
  BY <1>1, <1>3, <1>4, HoleIs
<1>8. f \in Buffers /\ (NoError(f) <=> NoError(e))
  BY <1>1, <1>2, <1>4, HoleIs
<1> HIDE DEF at, to
<1>9. ASSUME NoError(f)
      PROVE  NoError(e) /\ NoError(s) /\ NoError(o) /\ NoError(d) /\ NoError(c)
  <2>1. NoError(e) /\ NoError(s) /\ NoError(o)
    BY <1>7, <1>8, <1>9, MakesError
  <2>2. NoError(d)
    BY <1>1, <1>2, <2>1, PlaceholderLifts
  <2>3. NoError(c)
    BY <1>1, <2>2, MakesError, PlaceholderLifts
  <2> QED
    BY <2>1, <2>2, <2>3
<1>10. ASSUME NoError(f), NEW a, Tall(c, a, h, n)
       PROVE  \E b : Tall(f, b, h, n) /\ Grown(c.code, a, f.code, b)
  <2>1. NoError(e) /\ NoError(s) /\ NoError(o) /\ NoError(d) /\ NoError(c)
    BY <1>9, <1>10
  <2>2. h >= 0
    OBVIOUS
  <2>3. PICK a1 : /\ Tall(d, a1, h, n) /\ Grown(c.code, a, d.code, a1)
                  /\ Jumping(d.code, a1, p, "jz") /\ a1[p] = h
    BY <1>1, <1>10, <2>1, BranchTo
  <2>4. PICK a2 : /\ Tall(o, a2, h, n) /\ Grown(d.code, a1, o.code, a2)
                  /\ Jumping(o.code, a2, q, "jmp")
    BY <1>1, <1>2, <2>1, <2>3, PlaceholderLifts
  <2>5. Grown(c.code, a, o.code, a2)
    BY <1>4, <2>3, <2>4, GrownOn
  <2>6. d.code \in Seq(Bytes) /\ o.code \in Seq(Bytes)
    BY <2>3, <2>4, TallLen
  <2>7. Jumping(o.code, a2, p, "jz") /\ a2[p] = h
    <3>1. Jumping(o.code, a2, p, "jz")
      BY <2>3, <2>4, <2>6, JumpingOn
    <3>2. p \in 0 .. q
      BY <1>4, <2>3 DEF Jumping
    <3>3. a2[p] = a1[p]
      BY <2>4, <3>2, HeightOn
    <3> QED
      BY <2>3, <3>1, <3>3
  <2>8. p <= p
    BY <1>4
  <2>9. /\ Tall(s, a2, h, n) /\ Grown(c.code, a, s.code, a2)
        /\ Jumping(s.code, a2, q, "jmp")
    <3>1. Tall(s, a2, h, n) /\ Grown(c.code, a, s.code, a2) /\ SameJumps(o.code, s.code, a2)
      BY <1>3, <1>4, <1>5, <1>6, <2>1, <2>2, <2>4, <2>5, <2>7, <2>8, PatchOn
    <3> QED
      BY <2>4, <3>1, SameJump
  <2>10. PICK a3 : Tall(e, a3, h, n) /\ Grown(s.code, a2, e.code, a3)
    BY <2>1, <2>9, MakesOne
  <2>11. /\ s.code \in Seq(Bytes) /\ e.code \in Seq(Bytes)
         /\ Len(s.code) \in Nat
    BY <2>9, <2>10, TallLen
  <2>12. Grown(c.code, a, e.code, a3)
    BY <1>4, <2>9, <2>10, <2>11, GrownOn
  <2>13. Jumping(e.code, a3, q, "jmp")
    BY <2>9, <2>10, <2>11, JumpingOn
  <2>14. a3[q] = h
    <3>1. q \in 0 .. q /\ q \in 0 .. Len(s.code)
      BY <1>4, <2>9, <2>11 DEF Jumping
    <3>2. a1[q] = h
      BY <2>3 DEF Tall
    <3>3. a2[q] = a1[q]
      BY <2>4, <3>1, HeightOn
    <3>4. a3[q] = a2[q]
      BY <2>10, <3>1, HeightOn
    <3> QED
      BY <3>2, <3>3, <3>4
  <2>15. p <= q
    BY <2>3 DEF Grown
  <2>16. Tall(f, a3, h, n) /\ Grown(c.code, a, f.code, a3)
    BY <1>2, <1>4, <1>5, <1>6, <2>1, <2>2, <2>10, <2>12, <2>13, <2>14, <2>15, PatchOn
  <2> QED
    BY <2>16
<1> QED
  BY <1>8, <1>9, <1>10 DEF Makes, Lift

LEMMA GenIfMakes ==
  ASSUME NEW m \in 0 .. MaxLocals, NEW T, NEW gen, Gens(gen, T, m),
         NEW n, n.a \in ExprTrees(m)[MaxNodes], n.b \in T, n.c = Nothing \/ n.c \in T,
         NEW c \in Buffers, NEW h \in Int, h >= 2 + m
  PROVE  Makes(c, h, GenIf(gen, n, c), h, m)
<1> DEFINE cond == Emit(GenExpr(n.a, c), "test")
           j == Placeholder(cond, "jz")
           then == Made(gen, n.b, j)
           o == Placeholder(then, "jmp")
           s == Patch(o, Hole(cond, "jz"), Len(o.code))
           else == Made(gen, n.c, s)
           short == Patch(then, Hole(cond, "jz"), Len(then.code))
           long == Patch(else, Hole(then, "jmp"), Len(else.code))
<1>1. h >= 2
  BY LocalsFit
<1>2. "jz" \in DOMAIN Opcode /\ "jmp" \in DOMAIN Opcode
  BY JumpOps
<1>3. GenIf(gen, n, c) = IF n.c = Nothing THEN short ELSE long
  BY DEF GenIf, Made
<1>4. Makes(c, h, cond, h, m)
  BY TestMakes
<1> HIDE DEF cond
<1>5. cond \in Buffers
  BY <1>4, MakesBuffers
<1>6. j \in Buffers
  BY <1>1, <1>2, <1>5, PlaceholderLifts
<1>7. Makes(j, h, then, h, m)
  BY <1>6, GensOne
<1> HIDE DEF then
<1>8. CASE n.c = Nothing
  <2>1. Makes(cond, h, short, h, m)
    BY <1>1, <1>2, <1>5, <1>7, SkipMakes
  <2> HIDE DEF short
  <2>2. Makes(c, h, short, h, m)
    BY <1>4, <2>1, MakesOn
  <2> QED
    BY <1>3, <1>8, <2>2
<1>9. CASE n.c # Nothing /\ n.c \in T
  <2>1. then \in Buffers
    BY <1>7, MakesBuffers
  <2>2. o \in Buffers
    BY <1>1, <1>2, <2>1, PlaceholderLifts
  <2>3. Len(o.code) \in Nat
    BY <2>2, CodeLen
  <2>4. s \in Buffers
    BY <1>2, <1>5, <2>2, <2>3, HoleIs
  <2>5. o = Placeholder(then, "jmp") /\ s = Patch(o, Hole(cond, "jz"), Len(o.code))
        /\ long = Patch(else, Hole(then, "jmp"), Len(else.code))
    OBVIOUS
  <2> HIDE DEF s, o
  <2>6. Makes(s, h, else, h, m)
    BY <1>9, <2>4, GensOne
  <2> HIDE DEF else, long
  <2>7. Makes(cond, h, long, h, m)
    BY <1>1, <1>5, <1>7, <2>5, <2>6, ElseMakes
  <2>8. Makes(c, h, long, h, m)
    BY <1>4, <2>7, MakesOn
  <2> QED
    BY <1>3, <1>9, <2>8
<1> QED
  BY <1>8, <1>9

\* A jump back to where c ended, and a test that leads past it.
LEMMA LoopMakes ==
  ASSUME NEW c \in Buffers, NEW h \in Int, h >= 2, NEW n,
         NEW cond, Makes(c, h, cond, h, n),
         NEW d, Makes(Placeholder(cond, "jz"), h, d, h, n),
         NEW e, e = JumpTo(d, "jmp", Len(c.code)),
         NEW f, f = Patch(e, Hole(cond, "jz"), Len(e.code))
  PROVE  Makes(c, h, f, h, n)
<1> DEFINE p == Len(c.code)
           q == Len(cond.code)
<1>1. "jz" \in DOMAIN Opcode /\ "jmp" \in DOMAIN Opcode
  BY JumpOps
<1>2. cond \in Buffers /\ d \in Buffers
  BY MakesBuffers
<1>3. p \in Nat /\ q \in Nat /\ Len(d.code) \in Nat /\ p \in Int
  BY <1>2, CodeLen
<1>4. e \in Buffers /\ (NoError(e) => NoError(d))
  BY <1>1, <1>2, <1>3, JumpWrites
<1>5. Len(e.code) \in Nat
  BY <1>4, CodeLen
<1>6. f \in Buffers /\ (NoError(f) <=> NoError(e))
  BY <1>1, <1>2, <1>4, <1>5, HoleIs
<1> DEFINE at == Hole(cond, "jz")
<1>7. DistanceAt(q, "jz", at) /\ f = Patch(e, at, Len(e.code))
  BY <1>1, <1>2, HoleIs
<1> HIDE DEF at
<1>8. ASSUME NoError(f)
      PROVE  NoError(e) /\ NoError(d) /\ NoError(cond) /\ NoError(c)
  <2>1. NoError(e) /\ NoError(d)
    BY <1>4, <1>6, <1>8
  <2>2. NoError(cond)
    BY <1>1, <1>2, <2>1, MakesError, PlaceholderLifts
  <2>3. NoError(c)
    BY <2>2, MakesError
  <2> QED
    BY <2>1, <2>2, <2>3
<1>9. ASSUME NoError(f), NEW a, Tall(c, a, h, n)
      PROVE  \E b : Tall(f, b, h, n) /\ Grown(c.code, a, f.code, b)
  <2>1. NoError(e) /\ NoError(d) /\ NoError(cond) /\ NoError(c)
    BY <1>8, <1>9
  <2>2. PICK a1 : Tall(cond, a1, h, n) /\ Grown(c.code, a, cond.code, a1)
    BY <1>9, <2>1, MakesOne
  <2>3. PICK a2 : /\ Tall(d, a2, h, n) /\ Grown(cond.code, a1, d.code, a2)
                  /\ Jumping(d.code, a2, q, "jz") /\ a2[q] = h
    BY <1>1, <1>2, <2>1, <2>2, BranchTo
  <2>4. Grown(c.code, a, d.code, a2)
    BY <1>3, <2>2, <2>3, GrownOn
  <2>5. p \in 0 .. Len(d.code) /\ a2[p] = h
    <3>1. p \in 0 .. p
      BY <1>3
    <3>2. a[p] = h
      BY <1>9 DEF Tall
    <3>3. p <= Len(d.code)
      BY <2>4 DEF Grown
    <3>4. a2[p] = h
      BY <2>4, <3>1, <3>2 DEF Grown
    <3> QED
      BY <1>3, <3>3, <3>4
  <2>6. PICK a3 : Tall(e, a3, h, n) /\ Grown(d.code, a2, e.code, a3)
    BY <1>1, <1>2, <1>3, <2>1, <2>3, <2>5, JumpLifts
  <2>7. d.code \in Seq(Bytes) /\ e.code \in Seq(Bytes)
    BY <2>3, <2>6, TallLen
  <2>8. Jumping(e.code, a3, q, "jz") /\ a3[q] = h
    <3>1. Jumping(e.code, a3, q, "jz")
      BY <2>3, <2>6, <2>7, JumpingOn
    <3>2. q \in 0 .. Len(d.code)
      BY <1>3, <2>3 DEF Jumping
    <3>3. a3[q] = a2[q]
      BY <2>6, <3>2, HeightOn
    <3> QED
      BY <2>3, <3>1, <3>3
  <2>9. Grown(c.code, a, e.code, a3)
    BY <1>3, <1>5, <2>4, <2>6, GrownOn
  <2>10. p <= q
    BY <2>2 DEF Grown
  <2>11. h >= 0
    OBVIOUS
  <2>12. Tall(f, a3, h, n) /\ Grown(c.code, a, f.code, a3)
    BY <1>3, <1>4, <1>7, <2>1, <2>6, <2>8, <2>9, <2>10, <2>11, PatchOn
  <2> QED
    BY <2>12
<1> QED
  BY <1>6, <1>8, <1>9 DEF Makes, Lift

LEMMA GenWhileMakes ==
  ASSUME NEW m \in 0 .. MaxLocals, NEW T, NEW gen, Gens(gen, T, m),
         NEW n, n.a \in ExprTrees(m)[MaxNodes], n.b \in T,
         NEW c \in Buffers, NEW h \in Int, h >= 2 + m
  PROVE  Makes(c, h, GenWhile(gen, n, c), h, m)
<1> DEFINE cond == Emit(GenExpr(n.a, c), "test")
           d == Made(gen, n.b, Placeholder(cond, "jz"))
           e == JumpTo(d, "jmp", Len(c.code))
           f == Patch(e, Hole(cond, "jz"), Len(e.code))
<1>1. h >= 2
  BY LocalsFit
<1>2. GenWhile(gen, n, c) = f
  BY DEF GenWhile, JmpBack, JumpTo, Made
<1>3. Makes(c, h, cond, h, m)
  BY TestMakes
<1> HIDE DEF cond
<1>4. Placeholder(cond, "jz") \in Buffers
  BY <1>1, <1>3, JumpOps, MakesBuffers, PlaceholderLifts
<1>5. Makes(Placeholder(cond, "jz"), h, d, h, m)
  BY <1>4, GensOne
<1> HIDE DEF d
<1>6. e = JumpTo(d, "jmp", Len(c.code)) /\ f = Patch(e, Hole(cond, "jz"), Len(e.code))
  OBVIOUS
<1> HIDE DEF e, f
<1>7. Makes(c, h, f, h, m)
  BY <1>1, <1>3, <1>5, <1>6, LoopMakes
<1> QED
  BY <1>2, <1>7

-----------------------------------------------------------------------------
(* The trees of statements. *)

\* The statements j nodes deep, from those one less deep.
StmtStep(m, j, u) ==
  IF j = 0 THEN {}
  ELSE [kind : {"block"}, body : Seq(u)]
         \cup [kind : {"decl"}, v : Vars(m), a : ExprTrees(m)[MaxNodes] \cup {Nothing}]
         \cup [kind : {"assign"}, v : Vars(m), a : ExprTrees(m)[MaxNodes]]
         \cup [kind : {"if"}, a : ExprTrees(m)[MaxNodes], b : u, c : u \cup {Nothing}]
         \cup [kind : {"while"}, a : ExprTrees(m)[MaxNodes], b : u]
         \cup [kind : {"print", "return"}, a : ExprTrees(m)[MaxNodes]]

StmtTables(m, n, u) == u = [j \in 0 .. n |-> StmtStep(m, j, u[j - 1])]

LEMMA StmtTableZero == ASSUME NEW m, NEW x, NEW y PROVE StmtStep(m, 0, x) = StmtStep(m, 0, y)
  BY DEF StmtStep

LEMMA StmtTableMore ==
  ASSUME NEW m, NEW n \in Nat, NEW q, StmtTables(m, n, q)
  PROVE  \E u : StmtTables(m, n + 1, u)
<1> DEFINE u == [j \in 0 .. n + 1 |-> IF j <= n THEN q[j] ELSE StmtStep(m, n + 1, q[n])]
<1>1. \A j \in 0 .. n : q[j] = StmtStep(m, j, q[j - 1])
  BY DEF StmtTables
<1>2. \A j \in 0 .. n : u[j] = q[j]
  OBVIOUS
<1>3. u[n + 1] = StmtStep(m, n + 1, q[n]) /\ u = [j \in 0 .. n + 1 |-> u[j]]
  OBVIOUS
<1> HIDE DEF u
<1>4. ASSUME NEW j \in 0 .. n + 1
      PROVE  u[j] = StmtStep(m, j, u[j - 1])
  <2>1. CASE j = 0
    <3>1. 0 \in 0 .. n
      OBVIOUS
    <3>2. u[0] = StmtStep(m, 0, q[0 - 1])
      BY <1>1, <1>2, <3>1
    <3> QED
      BY <2>1, <3>2, StmtTableZero
  <2>2. CASE j \in 1 .. n
    <3>1. j \in 0 .. n /\ j - 1 \in 0 .. n
      BY <2>2
    <3>2. u[j] = q[j] /\ u[j - 1] = q[j - 1]
      BY <1>2, <3>1
    <3> QED
      BY <1>1, <3>1, <3>2
  <2>3. CASE j = n + 1
    <3>1. n \in 0 .. n /\ (n + 1) - 1 = n
      OBVIOUS
    <3>2. u[n] = q[n]
      BY <1>2, <3>1
    <3> QED
      BY <1>3, <2>3, <3>1, <3>2
  <2> QED
    BY <2>1, <2>2, <2>3
<1>5. u = [j \in 0 .. n + 1 |-> StmtStep(m, j, u[j - 1])]
  BY <1>3, <1>4
<1> QED
  BY <1>5 DEF StmtTables

LEMMA StmtTableExists == ASSUME NEW m, NEW n \in Nat PROVE \E u : StmtTables(m, n, u)
<1> DEFINE I == {j \in Nat : \E u : StmtTables(m, j, u)}
<1>1. 0 \in I
  <2> DEFINE u == [j \in 0 .. 0 |-> StmtStep(m, 0, 0)]
  <2>1. \A j \in 0 .. 0 : j = 0
    OBVIOUS
  <2>2. \A j \in 0 .. 0 : StmtStep(m, j, u[j - 1]) = StmtStep(m, 0, 0)
    BY <2>1, StmtTableZero
  <2> DEFINE w == [j \in 0 .. 0 |-> StmtStep(m, j, u[j - 1])]
  <2>3. u = w
    BY <2>2
  <2> HIDE DEF u
  <2>4. StmtTables(m, 0, u)
    BY <2>3 DEF StmtTables
  <2> QED
    BY <2>4
<1>2. \A j \in 1 .. n : j - 1 \in I => j \in I
  <2> SUFFICES ASSUME NEW j \in 1 .. n, j - 1 \in I PROVE j \in I
    OBVIOUS
  <2>1. j - 1 \in Nat /\ (j - 1) + 1 = j /\ j \in Nat
    OBVIOUS
  <2>2. PICK q : StmtTables(m, j - 1, q)
    OBVIOUS
  <2> HIDE DEF I
  <2>3. \E u : StmtTables(m, (j - 1) + 1, u)
    BY <2>1, <2>2, StmtTableMore
  <2> QED
    BY <2>1, <2>3 DEF I
<1> HIDE DEF I
<1>3. Inductive(n, I)
  BY <1>1, <1>2 DEF Inductive
<1>4. n \in 0 .. n
  OBVIOUS
<1>5. n \in I
  BY <1>3, <1>4, Induction
<1> QED
  BY <1>5 DEF I

LEMMA StmtTableIs ==
  ASSUME NEW m, NEW d \in 0 .. MaxNodes
  PROVE  StmtTrees(m)[d] = StmtStep(m, d, StmtTrees(m)[d - 1])
<1>1. MaxNodes \in Nat
  BY CompilerAssumption
<1>2. \E u : StmtTables(m, MaxNodes, u)
  BY <1>1, StmtTableExists
<1>3. StmtTrees(m) = CHOOSE u : StmtTables(m, MaxNodes, u)
  BY DEF StmtTrees, StmtTables, StmtStep
<1>4. StmtTables(m, MaxNodes, StmtTrees(m))
  BY <1>2, <1>3
<1> QED
  BY <1>4 DEF StmtTables

LEMMA NoStmts == ASSUME NEW m PROVE StmtTrees(m)[0] = {} /\ 0 \in 0 .. MaxNodes
<1>1. 0 \in 0 .. MaxNodes
  BY CompilerAssumption
<1>2. StmtTrees(m)[0] = StmtStep(m, 0, StmtTrees(m)[0 - 1])
  BY <1>1, StmtTableIs
<1> QED
  BY <1>1, <1>2 DEF StmtStep

LEMMA SeqGrows ==
  ASSUME NEW u, NEW v, u \subseteq v
  PROVE  Seq(u) \subseteq Seq(v)
<1> SUFFICES ASSUME NEW s \in Seq(u) PROVE s \in Seq(v)
  OBVIOUS
<1>1. Len(s) \in Nat /\ s \in [1 .. Len(s) -> u]
  BY LenProperties
<1>2. s \in [1 .. Len(s) -> v]
  BY <1>1
<1> QED
  BY <1>1, <1>2

LEMMA StmtStepGrows ==
  ASSUME NEW m \in Nat, NEW k \in Nat, m <= k, NEW d \in Nat, NEW e \in Nat, d = 0 \/ e # 0,
         NEW u, NEW v, u \subseteq v
  PROVE  StmtStep(m, d, u) \subseteq StmtStep(k, e, v)
<1> DEFINE x == ExprTrees(m)[MaxNodes]
           y == ExprTrees(k)[MaxNodes]
<1>1. Vars(m) \subseteq Vars(k)
  BY VarsGrow
<1>2. x \subseteq y
  <2>1. MaxNodes \in 0 .. MaxNodes
    BY CompilerAssumption
  <2> QED
    BY <2>1, ExprsGrow
<1> HIDE DEF x, y
<1>3. [kind : {"block"}, body : Seq(u)] \subseteq [kind : {"block"}, body : Seq(v)]
  <2>1. Seq(u) \subseteq Seq(v)
    BY SeqGrows
  <2> QED
    BY <2>1
<1>4. [kind : {"decl"}, v : Vars(m), a : x \cup {Nothing}]
        \subseteq [kind : {"decl"}, v : Vars(k), a : y \cup {Nothing}]
  BY <1>1, <1>2
<1>5. [kind : {"assign"}, v : Vars(m), a : x] \subseteq [kind : {"assign"}, v : Vars(k), a : y]
  BY <1>1, <1>2
<1>6. [kind : {"if"}, a : x, b : u, c : u \cup {Nothing}]
        \subseteq [kind : {"if"}, a : y, b : v, c : v \cup {Nothing}]
  BY <1>2
<1>7. [kind : {"while"}, a : x, b : u] \subseteq [kind : {"while"}, a : y, b : v]
  BY <1>2
<1>8. [kind : {"print", "return"}, a : x] \subseteq [kind : {"print", "return"}, a : y]
  BY <1>2
<1>9. CASE d = 0
  BY <1>9 DEF StmtStep
<1>10. CASE d # 0 /\ e # 0
  <2>1. StmtStep(m, d, u) =
          [kind : {"block"}, body : Seq(u)] \cup [kind : {"decl"}, v : Vars(m), a : x \cup {Nothing}]
            \cup [kind : {"assign"}, v : Vars(m), a : x]
            \cup [kind : {"if"}, a : x, b : u, c : u \cup {Nothing}]
            \cup [kind : {"while"}, a : x, b : u] \cup [kind : {"print", "return"}, a : x]
    BY <1>10 DEF StmtStep, x
  <2>2. StmtStep(k, e, v) =
          [kind : {"block"}, body : Seq(v)] \cup [kind : {"decl"}, v : Vars(k), a : y \cup {Nothing}]
            \cup [kind : {"assign"}, v : Vars(k), a : y]
            \cup [kind : {"if"}, a : y, b : v, c : v \cup {Nothing}]
            \cup [kind : {"while"}, a : y, b : v] \cup [kind : {"print", "return"}, a : y]
    BY <1>10 DEF StmtStep, y
  <2> QED
    BY <1>3, <1>4, <1>5, <1>6, <1>7, <1>8, <2>1, <2>2, Zenon
<1> QED
  BY <1>9, <1>10

LEMMA StmtsGrow ==
  ASSUME NEW m \in Nat, NEW k \in Nat, m <= k, NEW d \in 0 .. MaxNodes
  PROVE  StmtTrees(m)[d] \subseteq StmtTrees(k)[d]
<1> DEFINE I == {j \in 0 .. MaxNodes : StmtTrees(m)[j] \subseteq StmtTrees(k)[j]}
<1>1. MaxNodes \in Nat
  BY CompilerAssumption
<1>2. 0 \in I
  BY NoStmts
<1>3. ASSUME NEW j \in 1 .. MaxNodes, j - 1 \in I
      PROVE  j \in I
  <2>1. j \in 0 .. MaxNodes /\ j \in Nat /\ j # 0
    OBVIOUS
  <2>2. StmtTrees(m)[j - 1] \subseteq StmtTrees(k)[j - 1]
    BY <1>3
  <2>3. StmtStep(m, j, StmtTrees(m)[j - 1]) \subseteq StmtStep(k, j, StmtTrees(k)[j - 1])
    BY <2>1, <2>2, StmtStepGrows
  <2> QED
    BY <2>1, <2>3, StmtTableIs
<1> HIDE DEF I
<1>4. d \in I
  BY <1>1, <1>2, <1>3, Induction DEF Inductive
<1> QED
  BY <1>4 DEF I

LEMMA StmtsDeepen ==
  ASSUME NEW m \in Nat, NEW d \in 1 .. MaxNodes
  PROVE  StmtTrees(m)[d - 1] \subseteq StmtTrees(m)[d]
<1> DEFINE I == {j \in 0 .. MaxNodes : j # 0 => StmtTrees(m)[j - 1] \subseteq StmtTrees(m)[j]}
<1>1. MaxNodes \in Nat
  BY CompilerAssumption
<1>2. 0 \in I
  BY <1>1
<1>3. ASSUME NEW j \in 1 .. MaxNodes, j - 1 \in I
      PROVE  j \in I
  <2>1. j \in 0 .. MaxNodes /\ j \in Nat /\ j - 1 \in 0 .. MaxNodes /\ j - 1 \in Nat /\ j # 0
    BY <1>1
  <2>2. StmtTrees(m)[j - 1] \subseteq StmtTrees(m)[j]
    <3>1. CASE j = 1
      <4>1. StmtTrees(m)[0] = {}
        BY NoStmts
      <4> QED
        BY <3>1, <4>1
    <3>2. CASE j # 1
      <4>1. StmtTrees(m)[(j - 1) - 1] \subseteq StmtTrees(m)[j - 1]
        BY <1>3, <2>1, <3>2
      <4>2. StmtStep(m, j - 1, StmtTrees(m)[(j - 1) - 1]) \subseteq StmtStep(m, j, StmtTrees(m)[j - 1])
        BY <2>1, <4>1, StmtStepGrows
      <4> QED
        BY <2>1, <4>2, StmtTableIs
    <3> QED
      BY <3>1, <3>2
  <2> QED
    BY <2>1, <2>2
<1> HIDE DEF I
<1>4. d \in I
  BY <1>1, <1>2, <1>3, Induction DEF Inductive
<1> QED
  BY <1>4 DEF I

LEMMA StmtForms ==
  ASSUME NEW m, NEW d \in 1 .. MaxNodes, NEW n \in StmtTrees(m)[d]
  PROVE  \/ n.kind = "block" /\ n.body \in Seq(StmtTrees(m)[d - 1])
         \/ n.kind = "decl" /\ n.v \in Vars(m) /\ (n.a = Nothing \/ n.a \in ExprTrees(m)[MaxNodes])
         \/ n.kind = "assign" /\ n.v \in Vars(m) /\ n.a \in ExprTrees(m)[MaxNodes]
         \/ /\ n.kind = "if" /\ n.a \in ExprTrees(m)[MaxNodes]
            /\ n.b \in StmtTrees(m)[d - 1] /\ (n.c = Nothing \/ n.c \in StmtTrees(m)[d - 1])
         \/ n.kind = "while" /\ n.a \in ExprTrees(m)[MaxNodes] /\ n.b \in StmtTrees(m)[d - 1]
         \/ n.kind = "print" /\ n.a \in ExprTrees(m)[MaxNodes]
         \/ n.kind = "return" /\ n.a \in ExprTrees(m)[MaxNodes]
<1> DEFINE T == StmtTrees(m)[d - 1]
           x == ExprTrees(m)[MaxNodes]
<1>1. d \in 0 .. MaxNodes /\ d # 0
  OBVIOUS
<1>2. n \in StmtStep(m, d, T)
  BY <1>1, StmtTableIs
<1> HIDE DEF T
<1>3. \/ n \in [kind : {"block"}, body : Seq(T)]
      \/ n \in [kind : {"decl"}, v : Vars(m), a : x \cup {Nothing}]
      \/ n \in [kind : {"assign"}, v : Vars(m), a : x]
      \/ n \in [kind : {"if"}, a : x, b : T, c : T \cup {Nothing}]
      \/ n \in [kind : {"while"}, a : x, b : T]
      \/ n \in [kind : {"print", "return"}, a : x]
  BY <1>1, <1>2 DEF StmtStep
<1> HIDE DEF x
<1>4. CASE n \in [kind : {"block"}, body : Seq(T)]
  BY <1>4 DEF T
<1>5. CASE n \in [kind : {"decl"}, v : Vars(m), a : x \cup {Nothing}]
  BY <1>5 DEF x
<1>6. CASE n \in [kind : {"assign"}, v : Vars(m), a : x]
  BY <1>6 DEF x
<1>7. CASE n \in [kind : {"if"}, a : x, b : T, c : T \cup {Nothing}]
  BY <1>7 DEF T, x
<1>8. CASE n \in [kind : {"while"}, a : x, b : T]
  BY <1>8 DEF T, x
<1>9. CASE n \in [kind : {"print", "return"}, a : x]
  BY <1>9 DEF x
<1> QED
  BY <1>3, <1>4, <1>5, <1>6, <1>7, <1>8, <1>9

-----------------------------------------------------------------------------
(* The code of statements. *)

\* The code after j statements of the block b, from that after one less.
AfterStep(gen, b, c, j, u) ==
  IF j = 0 THEN c ELSE gen[b[j]][u]

AfterTables(gen, b, c, n, u) == u = [j \in 0 .. n |-> AfterStep(gen, b, c, j, u[j - 1])]

LEMMA AfterTableZero == ASSUME NEW gen, NEW b, NEW c, NEW x, NEW y PROVE AfterStep(gen, b, c, 0, x) = AfterStep(gen, b, c, 0, y)
  BY DEF AfterStep

LEMMA AfterTableMore ==
  ASSUME NEW gen, NEW b, NEW c, NEW n \in Nat, NEW q, AfterTables(gen, b, c, n, q)
  PROVE  \E u : AfterTables(gen, b, c, n + 1, u)
<1> DEFINE u == [j \in 0 .. n + 1 |-> IF j <= n THEN q[j] ELSE AfterStep(gen, b, c, n + 1, q[n])]
<1>1. \A j \in 0 .. n : q[j] = AfterStep(gen, b, c, j, q[j - 1])
  BY DEF AfterTables
<1>2. \A j \in 0 .. n : u[j] = q[j]
  OBVIOUS
<1>3. u[n + 1] = AfterStep(gen, b, c, n + 1, q[n]) /\ u = [j \in 0 .. n + 1 |-> u[j]]
  OBVIOUS
<1> HIDE DEF u
<1>4. ASSUME NEW j \in 0 .. n + 1
      PROVE  u[j] = AfterStep(gen, b, c, j, u[j - 1])
  <2>1. CASE j = 0
    <3>1. 0 \in 0 .. n
      OBVIOUS
    <3>2. u[0] = AfterStep(gen, b, c, 0, q[0 - 1])
      BY <1>1, <1>2, <3>1
    <3> QED
      BY <2>1, <3>2, AfterTableZero
  <2>2. CASE j \in 1 .. n
    <3>1. j \in 0 .. n /\ j - 1 \in 0 .. n
      BY <2>2
    <3>2. u[j] = q[j] /\ u[j - 1] = q[j - 1]
      BY <1>2, <3>1
    <3> QED
      BY <1>1, <3>1, <3>2
  <2>3. CASE j = n + 1
    <3>1. n \in 0 .. n /\ (n + 1) - 1 = n
      OBVIOUS
    <3>2. u[n] = q[n]
      BY <1>2, <3>1
    <3> QED
      BY <1>3, <2>3, <3>1, <3>2
  <2> QED
    BY <2>1, <2>2, <2>3
<1>5. u = [j \in 0 .. n + 1 |-> AfterStep(gen, b, c, j, u[j - 1])]
  BY <1>3, <1>4
<1> QED
  BY <1>5 DEF AfterTables

LEMMA AfterTableExists == ASSUME NEW gen, NEW b, NEW c, NEW n \in Nat PROVE \E u : AfterTables(gen, b, c, n, u)
<1> DEFINE I == {j \in Nat : \E u : AfterTables(gen, b, c, j, u)}
<1>1. 0 \in I
  <2> DEFINE u == [j \in 0 .. 0 |-> AfterStep(gen, b, c, 0, 0)]
  <2>1. \A j \in 0 .. 0 : j = 0
    OBVIOUS
  <2>2. \A j \in 0 .. 0 : AfterStep(gen, b, c, j, u[j - 1]) = AfterStep(gen, b, c, 0, 0)
    BY <2>1, AfterTableZero
  <2> DEFINE w == [j \in 0 .. 0 |-> AfterStep(gen, b, c, j, u[j - 1])]
  <2>3. u = w
    BY <2>2
  <2> HIDE DEF u
  <2>4. AfterTables(gen, b, c, 0, u)
    BY <2>3 DEF AfterTables
  <2> QED
    BY <2>4
<1>2. \A j \in 1 .. n : j - 1 \in I => j \in I
  <2> SUFFICES ASSUME NEW j \in 1 .. n, j - 1 \in I PROVE j \in I
    OBVIOUS
  <2>1. j - 1 \in Nat /\ (j - 1) + 1 = j /\ j \in Nat
    OBVIOUS
  <2>2. PICK q : AfterTables(gen, b, c, j - 1, q)
    OBVIOUS
  <2> HIDE DEF I
  <2>3. \E u : AfterTables(gen, b, c, (j - 1) + 1, u)
    BY <2>1, <2>2, AfterTableMore
  <2> QED
    BY <2>1, <2>3 DEF I
<1> HIDE DEF I
<1>3. Inductive(n, I)
  BY <1>1, <1>2 DEF Inductive
<1>4. n \in 0 .. n
  OBVIOUS
<1>5. n \in I
  BY <1>3, <1>4, Induction
<1> QED
  BY <1>5 DEF I

\* The code after each statement of a block.
Afters(gen, b, c) == CHOOSE u : AfterTables(gen, b, c, Len(b), u)

LEMMA ThroughIs ==
  ASSUME NEW f, NEW s, NEW x, Len(s) \in Nat
  PROVE  /\ Through(f, s, x) = Afters(f, s, x)[Len(s)]
         /\ \A j \in 0 .. Len(s) : Afters(f, s, x)[j] = AfterStep(f, s, x, j, Afters(f, s, x)[j - 1])
<1>1. Through(f, s, x) = Afters(f, s, x)[Len(s)]
  BY DEF Through, Afters, AfterTables, AfterStep
<1>2. \E u : AfterTables(f, s, x, Len(s), u)
  BY AfterTableExists
<1> DEFINE q == Afters(f, s, x)
<1>3. AfterTables(f, s, x, Len(s), q)
  BY <1>2 DEF Afters
<1> HIDE DEF q
<1>4. q = [j \in 0 .. Len(s) |-> AfterStep(f, s, x, j, q[j - 1])]
  BY <1>3 DEF AfterTables
<1>5. \A j \in 0 .. Len(s) : q[j] = AfterStep(f, s, x, j, q[j - 1])
  BY <1>4
<1> QED
  BY <1>1, <1>5 DEF q

LEMMA GenBlockIs ==
  ASSUME NEW gen, NEW n, NEW c, Len(n.body) \in Nat
  PROVE  /\ GenBlock(gen, n, c) = Afters(gen, n.body, c)[Len(n.body)]
         /\ \A j \in 0 .. Len(n.body) : Afters(gen, n.body, c)[j] =
              AfterStep(gen, n.body, c, j, Afters(gen, n.body, c)[j - 1])
<1> DEFINE b == n.body
<1>1. GenBlock(gen, n, c) = Through(gen, b, c)
  BY DEF GenBlock
<1>2. Len(b) \in Nat
  OBVIOUS
<1> HIDE DEF b
<1>3. /\ Through(gen, b, c) = Afters(gen, b, c)[Len(b)]
      /\ \A j \in 0 .. Len(b) : Afters(gen, b, c)[j] = AfterStep(gen, b, c, j, Afters(gen, b, c)[j - 1])
  BY <1>2, ThroughIs
<1> QED
  BY <1>1, <1>3 DEF b

LEMMA MakesSelf ==
  ASSUME NEW c \in Buffers, NEW h, NEW n
  PROVE  Makes(c, h, c, h, n)
<1>1. Len(c.code) \in Nat
  BY CodeLen
<1>2. \A a : Grown(c.code, a, c.code, a)
  BY <1>1 DEF Grown
<1> QED
  BY <1>2 DEF Makes, Lift

LEMMA GenBlockMakes ==
  ASSUME NEW m \in 0 .. MaxLocals, NEW T, NEW gen, Gens(gen, T, m), NEW n, n.body \in Seq(T),
         NEW c \in Buffers, NEW h \in Int, h >= 2 + m
  PROVE  Makes(c, h, GenBlock(gen, n, c), h, m)
<1> DEFINE b == n.body
           u == Afters(gen, b, c)
           N == Len(b)
           I == {j \in 0 .. N : Makes(c, h, u[j], h, m)}
<1>1. b \in Seq(T) /\ N \in Nat
  OBVIOUS
<1>2. GenBlock(gen, n, c) = u[N]
  BY <1>1, GenBlockIs
<1>3. \A j \in 0 .. N : u[j] = AfterStep(gen, b, c, j, u[j - 1])
  BY <1>1, GenBlockIs
<1> HIDE DEF b, u, N
<1>4. 0 \in I
  <2>1. 0 \in 0 .. N
    BY <1>1
  <2>2. u[0] = c
    BY <1>3, <2>1 DEF AfterStep
  <2> QED
    BY <2>1, <2>2, MakesSelf
<1>5. ASSUME NEW j \in 1 .. N, j - 1 \in I
      PROVE  j \in I
  <2>1. j \in 0 .. N /\ j # 0
    OBVIOUS
  <2>2. Makes(c, h, u[j - 1], h, m)
    BY <1>5
  <2>3. b[j] \in T
    BY <1>1, ElementOfSeq DEF N
  <2> DEFINE d == u[j - 1]
             t == b[j]
  <2>4. u[j] = Made(gen, t, d)
    BY <1>3, <2>1 DEF AfterStep, Made
  <2> HIDE DEF d, t
  <2>5. d \in Buffers /\ t \in T
    BY <2>2, <2>3, MakesBuffers DEF d, t
  <2>6. Makes(d, h, Made(gen, t, d), h, m)
    BY <2>5, GensOne
  <2>7. Makes(c, h, u[j], h, m)
    BY <2>2, <2>4, <2>6, MakesOn DEF d
  <2> QED
    BY <2>1, <2>7
<1> HIDE DEF I
<1>6. N \in 0 .. N
  BY <1>1
<1>7. N \in I
  BY <1>1, <1>4, <1>5, <1>6, Induction DEF Inductive
<1> QED
  BY <1>2, <1>7 DEF I

\* The code of statements j nodes deep, from that of those one less deep.
GenStmtStep(j, u) ==
  [n \in StmtTrees(MaxNodes)[j] |-> [c \in Buffers |-> StmtCode(u, n, c)]]

GenStmtTables(n, u) == u = [j \in 0 .. n |-> GenStmtStep(j, u[j - 1])]

LEMMA GenStmtTableZero == ASSUME NEW x, NEW y PROVE GenStmtStep(0, x) = GenStmtStep(0, y)
<1>1. StmtTrees(MaxNodes)[0] = {}
  BY NoStmts
<1>2. \A n \in StmtTrees(MaxNodes)[0], c \in Buffers : StmtCode(x, n, c) = StmtCode(y, n, c)
  BY <1>1
<1> QED
  BY <1>2 DEF GenStmtStep

LEMMA GenStmtTableMore ==
  ASSUME NEW n \in Nat, NEW q, GenStmtTables(n, q)
  PROVE  \E u : GenStmtTables(n + 1, u)
<1> DEFINE u == [j \in 0 .. n + 1 |-> IF j <= n THEN q[j] ELSE GenStmtStep(n + 1, q[n])]
<1>1. \A j \in 0 .. n : q[j] = GenStmtStep(j, q[j - 1])
  BY DEF GenStmtTables
<1>2. \A j \in 0 .. n : u[j] = q[j]
  OBVIOUS
<1>3. u[n + 1] = GenStmtStep(n + 1, q[n]) /\ u = [j \in 0 .. n + 1 |-> u[j]]
  OBVIOUS
<1> HIDE DEF u
<1>4. ASSUME NEW j \in 0 .. n + 1
      PROVE  u[j] = GenStmtStep(j, u[j - 1])
  <2>1. CASE j = 0
    <3>1. 0 \in 0 .. n
      OBVIOUS
    <3>2. u[0] = GenStmtStep(0, q[0 - 1])
      BY <1>1, <1>2, <3>1
    <3> QED
      BY <2>1, <3>2, GenStmtTableZero
  <2>2. CASE j \in 1 .. n
    <3>1. j \in 0 .. n /\ j - 1 \in 0 .. n
      BY <2>2
    <3>2. u[j] = q[j] /\ u[j - 1] = q[j - 1]
      BY <1>2, <3>1
    <3> QED
      BY <1>1, <3>1, <3>2
  <2>3. CASE j = n + 1
    <3>1. n \in 0 .. n /\ (n + 1) - 1 = n
      OBVIOUS
    <3>2. u[n] = q[n]
      BY <1>2, <3>1
    <3> QED
      BY <1>3, <2>3, <3>1, <3>2
  <2> QED
    BY <2>1, <2>2, <2>3
<1>5. u = [j \in 0 .. n + 1 |-> GenStmtStep(j, u[j - 1])]
  BY <1>3, <1>4
<1> QED
  BY <1>5 DEF GenStmtTables

LEMMA GenStmtTableExists == ASSUME NEW n \in Nat PROVE \E u : GenStmtTables(n, u)
<1> DEFINE I == {j \in Nat : \E u : GenStmtTables(j, u)}
<1>1. 0 \in I
  <2> DEFINE u == [j \in 0 .. 0 |-> GenStmtStep(0, 0)]
  <2>1. \A j \in 0 .. 0 : j = 0
    OBVIOUS
  <2>2. \A j \in 0 .. 0 : GenStmtStep(j, u[j - 1]) = GenStmtStep(0, 0)
    BY <2>1, GenStmtTableZero
  <2> DEFINE w == [j \in 0 .. 0 |-> GenStmtStep(j, u[j - 1])]
  <2>3. u = w
    BY <2>2
  <2> HIDE DEF u
  <2>4. GenStmtTables(0, u)
    BY <2>3 DEF GenStmtTables
  <2> QED
    BY <2>4
<1>2. \A j \in 1 .. n : j - 1 \in I => j \in I
  <2> SUFFICES ASSUME NEW j \in 1 .. n, j - 1 \in I PROVE j \in I
    OBVIOUS
  <2>1. j - 1 \in Nat /\ (j - 1) + 1 = j /\ j \in Nat
    OBVIOUS
  <2>2. PICK q : GenStmtTables(j - 1, q)
    OBVIOUS
  <2> HIDE DEF I
  <2>3. \E u : GenStmtTables((j - 1) + 1, u)
    BY <2>1, <2>2, GenStmtTableMore
  <2> QED
    BY <2>1, <2>3 DEF I
<1> HIDE DEF I
<1>3. Inductive(n, I)
  BY <1>1, <1>2 DEF Inductive
<1>4. n \in 0 .. n
  OBVIOUS
<1>5. n \in I
  BY <1>3, <1>4, Induction
<1> QED
  BY <1>5 DEF I

LEMMA GenStmtTableIs ==
  ASSUME NEW d \in 0 .. MaxNodes
  PROVE  genStmt[d] = GenStmtStep(d, genStmt[d - 1])
<1>1. MaxNodes \in Nat
  BY CompilerAssumption
<1>2. \E u : GenStmtTables(MaxNodes, u)
  BY <1>1, GenStmtTableExists
<1>3. genStmt = CHOOSE u : GenStmtTables(MaxNodes, u)
  BY DEF genStmt, GenStmtTables, GenStmtStep
<1>4. GenStmtTables(MaxNodes, genStmt)
  BY <1>2, <1>3
<1> QED
  BY <1>4 DEF GenStmtTables

LEMMA VarIs ==
  ASSUME NEW m, NEW v \in Vars(m)
  PROVE  v.off \in {4 * k : k \in 1 .. m}
  BY DEF Vars

\* A value is computed and stored.
LEMMA StoreMakes ==
  ASSUME NEW m \in 0 .. MaxLocals, NEW n \in ExprTrees(m)[MaxNodes], NEW v \in Vars(m),
         NEW c \in Buffers, NEW h \in Int, h >= 2 + m
  PROVE  Makes(c, h, Ins(GenExpr(n, c), "store", Disp(v.off)), h, m)
<1> DEFINE d == GenExpr(n, c)
           e == Ins(d, "store", Disp(v.off))
<1>1. Makes(c, h, d, h, m)
  BY ExprMakes
<1> HIDE DEF d
<1>2. Makes(d, h, e, h, m)
  BY <1>1, VarIs, MakesBuffers, InsLocal
<1> HIDE DEF e
<1>3. Makes(c, h, e, h, m)
  BY <1>1, <1>2, MakesOn
<1> QED
  BY <1>3 DEF d, e

LEMMA ReturnMakes ==
  ASSUME NEW m \in 0 .. MaxLocals, NEW n \in ExprTrees(m)[MaxNodes],
         NEW c \in Buffers, NEW h \in Int, h >= 2 + m
  PROVE  Makes(c, h, Epilogue(GenExpr(n, c)), h, m)
<1> DEFINE d == GenExpr(n, c)
<1>1. Makes(c, h, d, h, m)
  BY ExprMakes
<1>2. h >= 2
  BY LocalsFit
<1> HIDE DEF d
<1>3. Makes(d, h, Epilogue(d), h, m)
  BY <1>1, <1>2, MakesBuffers, EpilogueMakes
<1>4. Makes(c, h, Epilogue(d), h, m)
  BY <1>1, <1>3, MakesOn
<1> QED
  BY <1>4 DEF d

LEMMA StmtCodeMakes ==
  ASSUME NEW m \in 0 .. MaxLocals, NEW d \in 1 .. MaxNodes, NEW n \in StmtTrees(m)[d],
         NEW gen, Gens(gen, StmtTrees(m)[d - 1], m), NEW c \in Buffers, NEW h \in Int, h >= 2 + m
  PROVE  Makes(c, h, StmtCode(gen, n, c), h, m)
<1> DEFINE T == StmtTrees(m)[d - 1]
           X == ExprTrees(m)[MaxNodes]
<1>1. Gens(gen, T, m)
  OBVIOUS
<1>2. \/ n.kind = "block" /\ n.body \in Seq(T)
      \/ n.kind = "decl" /\ n.v \in Vars(m) /\ (n.a = Nothing \/ n.a \in X)
      \/ n.kind = "assign" /\ n.v \in Vars(m) /\ n.a \in X
      \/ n.kind = "if" /\ n.a \in X /\ n.b \in T /\ (n.c = Nothing \/ n.c \in T)
      \/ n.kind = "while" /\ n.a \in X /\ n.b \in T
      \/ n.kind = "print" /\ n.a \in X
      \/ n.kind = "return" /\ n.a \in X
  BY StmtForms
<1> HIDE DEF T
<1>3. CASE n.kind = "block" /\ n.body \in Seq(T)
  <2>1. StmtCode(gen, n, c) = GenBlock(gen, n, c)
    BY <1>3 DEF StmtCode
  <2> QED
    BY <1>1, <1>3, <2>1, GenBlockMakes
<1>4. CASE n.kind = "decl" /\ n.v \in Vars(m) /\ n.a = Nothing
  <2>1. StmtCode(gen, n, c) = Ins(c, "zero", Disp(n.v.off))
    BY <1>4 DEF StmtCode
  <2>2. n.v.off \in {4 * k : k \in 1 .. m}
    BY <1>4, VarIs
  <2> QED
    BY <2>1, <2>2, InsLocal
<1>5. CASE n.kind = "decl" /\ n.v \in Vars(m) /\ n.a # Nothing /\ n.a \in X
  <2>1. StmtCode(gen, n, c) = Ins(GenExpr(n.a, c), "store", Disp(n.v.off))
    BY <1>5 DEF StmtCode
  <2> QED
    BY <1>5, <2>1, StoreMakes
<1>6. CASE n.kind = "assign" /\ n.v \in Vars(m) /\ n.a \in X
  <2>1. StmtCode(gen, n, c) = Ins(GenExpr(n.a, c), "store", Disp(n.v.off))
    BY <1>6 DEF StmtCode
  <2> QED
    BY <1>6, <2>1, StoreMakes
<1>7. CASE n.kind = "if" /\ n.a \in X /\ n.b \in T /\ (n.c = Nothing \/ n.c \in T)
  <2>1. StmtCode(gen, n, c) = GenIf(gen, n, c)
    BY <1>7 DEF StmtCode
  <2> QED
    BY <1>1, <1>7, <2>1, GenIfMakes
<1>8. CASE n.kind = "while" /\ n.a \in X /\ n.b \in T
  <2>1. StmtCode(gen, n, c) = GenWhile(gen, n, c)
    BY <1>8 DEF StmtCode
  <2> QED
    BY <1>1, <1>8, <2>1, GenWhileMakes
<1>9. CASE n.kind = "print" /\ n.a \in X
  <2>1. StmtCode(gen, n, c) = GenPrint(n, c)
    BY <1>9 DEF StmtCode
  <2>2. h >= 2 + m
    OBVIOUS
  <2> QED
    BY <1>9, <2>1, <2>2, GenPrintMakes
<1>10. CASE n.kind = "return" /\ n.a \in X
  <2>1. StmtCode(gen, n, c) = Epilogue(GenExpr(n.a, c))
    BY <1>10 DEF StmtCode
  <2> QED
    BY <1>10, <2>1, ReturnMakes
<1> QED
  BY <1>2, <1>3, <1>4, <1>5, <1>6, <1>7, <1>8, <1>9, <1>10

LEMMA GenStmtIs ==
  ASSUME NEW d \in 0 .. MaxNodes, NEW n \in StmtTrees(MaxNodes)[d], NEW c \in Buffers
  PROVE  genStmt[d][n][c] = StmtCode(genStmt[d - 1], n, c)
<1>1. genStmt[d] = GenStmtStep(d, genStmt[d - 1])
  BY GenStmtTableIs
<1>2. GenStmtStep(d, genStmt[d - 1])[n] = [b \in Buffers |-> StmtCode(genStmt[d - 1], n, b)]
  BY DEF GenStmtStep
<1> QED
  BY <1>1, <1>2

LEMMA GenStmtMakes ==
  ASSUME NEW m \in 0 .. MaxLocals, NEW d \in 0 .. MaxNodes
  PROVE  Gens(genStmt[d], StmtTrees(m)[d], m)
<1> DEFINE I == {j \in 0 .. MaxNodes : Gens(genStmt[j], StmtTrees(m)[j], m)}
<1>1. m \in Nat /\ MaxNodes \in Nat /\ m <= MaxNodes
  BY LocalsFit
<1>2. 0 \in I
  <2>1. StmtTrees(m)[0] = {} /\ 0 \in 0 .. MaxNodes
    BY NoStmts
  <2> QED
    BY <2>1 DEF Gens
<1>3. ASSUME NEW j \in 1 .. MaxNodes, j - 1 \in I
      PROVE  j \in I
  <2>1. j \in 0 .. MaxNodes
    OBVIOUS
  <2>2. Gens(genStmt[j - 1], StmtTrees(m)[j - 1], m)
    BY <1>3
  <2>3. ASSUME NEW n \in StmtTrees(m)[j], NEW c \in Buffers, NEW h \in Int, h >= 2 + m
        PROVE  Makes(c, h, Made(genStmt[j], n, c), h, m)
    <3>1. n \in StmtTrees(MaxNodes)[j]
      BY <1>1, <2>1, StmtsGrow
    <3>2. Made(genStmt[j], n, c) = StmtCode(genStmt[j - 1], n, c)
      BY <2>1, <3>1, GenStmtIs DEF Made
    <3> QED
      BY <2>2, <2>3, <3>2, StmtCodeMakes
  <2>4. Gens(genStmt[j], StmtTrees(m)[j], m)
    BY <2>3 DEF Gens
  <2> QED
    BY <2>1, <2>4
<1> HIDE DEF I
<1>4. d \in I
  BY <1>1, <1>2, <1>3, Induction DEF Inductive
<1> QED
  BY <1>4 DEF I

LEMMA StmtMakes ==
  ASSUME NEW m \in 0 .. MaxLocals, NEW n \in StmtTrees(m)[MaxNodes], NEW c \in Buffers,
         NEW h \in Int, h >= 2 + m
  PROVE  Makes(c, h, genStmt[MaxNodes][n][c], h, m)
<1>1. MaxNodes \in 0 .. MaxNodes
  BY CompilerAssumption
<1>2. Gens(genStmt[MaxNodes], StmtTrees(m)[MaxNodes], m)
  BY <1>1, GenStmtMakes
<1>3. Makes(c, h, Made(genStmt[MaxNodes], n, c), h, m)
  BY <1>2, GensOne
<1> QED
  BY <1>3 DEF Made

-----------------------------------------------------------------------------
(* The code of programs. *)

LEMMA PrologueMakes ==
  ASSUME NEW c \in Buffers, NEW n \in Nat
  PROVE  Makes(c, 1, Prologue(c, n), 2 + n, n)
<1> DEFINE d == Emit(c, "push_ebp")
           e == Emit(d, "mov_ebp_esp")
           f == Ins(e, "sub_esp", n)
<1>1. Prologue(c, n) = IF n > 0 THEN f ELSE e
  BY DEF Prologue
<1>2. 1 \in Int /\ 0 \in Int /\ 2 \in Int /\ 2 + n \in Int
  OBVIOUS
<1>3. Makes(c, 1, d, 0, n)
  BY <1>2, EmitFrame
<1> HIDE DEF d
<1>4. Makes(d, 0, e, 2, n)
  BY <1>2, <1>3, MakesBuffers, EmitFrame
<1> HIDE DEF e
<1>5. Makes(c, 1, e, 2, n)
  BY <1>3, <1>4, MakesOn
<1>6. CASE n > 0
  <2>1. "sub_esp" \in DOMAIN Size
    BY DEF Size
  <2>2. "sub_esp" \notin DOMAIN Opcode
    BY DEF Opcode
  <2>3. Leads([op |-> "sub_esp", arg |-> n], n, 2, 2 + n)
    BY DEF Leads, Plain
  <2>4. e \in Buffers /\ n \in Int
    BY <1>5, MakesBuffers
  <2>5. Makes(e, 2, f, 2 + n, n)
    BY <1>2, <2>1, <2>2, <2>3, <2>4, InsLifts DEF Makes
  <2> HIDE DEF f
  <2>6. Makes(c, 1, f, 2 + n, n)
    BY <1>5, <2>5, MakesOn
  <2> QED
    BY <1>1, <1>6, <2>6
<1>7. CASE ~(n > 0)
  <2>1. 2 + n = 2
    BY <1>7
  <2> QED
    BY <1>1, <1>5, <1>7, <2>1
<1> QED
  BY <1>6, <1>7

NoCode == [code |-> <<>>, err |-> ""]

LEMMA NoCodeTall ==
  ASSUME NEW n
  PROVE  /\ NoCode \in Buffers /\ NoError(NoCode)
         /\ \E a : Tall(NoCode, a, 1, n) /\ a[0] = 1 /\ Len(NoCode.code) = 0
<1> DEFINE s == NoCode.code
           a == [i \in 0 .. 0 |-> 1]
<1>1. s = <<>> /\ NoCode.err = ""
  BY DEF NoCode
<1>2. s \in Seq(Bytes) /\ Len(s) = 0
  <2>1. <<>> \in Seq(Bytes) /\ Len(<<>>) = 0
    OBVIOUS
  <2>2. s = <<>>
    BY DEF NoCode
  <2> QED
    BY <2>1, <2>2
<1>3. NoCode \in Buffers
  BY <1>2 DEF NoCode, Buffers, Errors
<1>4. a \in [0 .. 0 -> Int] /\ a[0] = 1
  OBVIOUS
<1> HIDE DEF a, s
<1>5. a \in [0 .. Len(s) -> Int] /\ a[Len(s)] = 1
  BY <1>2, <1>4
<1>6. \A p \in 0 .. Len(s) - 1 : FALSE
  BY <1>2
<1>7. Heights(s, a, n)
  BY <1>2, <1>5, <1>6 DEF Heights
<1>8. Tall(NoCode, a, 1, n)
  BY <1>3, <1>5, <1>7 DEF Tall, s
<1> QED
  BY <1>1, <1>2, <1>3, <1>4, <1>8 DEF NoError, s

\* What the parser promises of a program without an error.
Compiled(p) ==
  /\ Len(p.ps.syms) \in 0 .. MaxLocals
  /\ p.n \in StmtTrees(Len(p.ps.syms))[MaxNodes]

\* The code that is made of a program without an error has a height at every position
\* that is reached: all branches meet at the same one, no intermediate value is lost
\* below the locals, and nothing runs past the end (cc_codegen_stmt, cc_patch).
THEOREM GenerateFramed ==
  ASSUME NEW p, Compiled(p), NoError(p.ps), NEW c, c = Generate(p), NoError(c)
  PROVE  c \in Buffers /\ Framed(c.code, Len(p.ps.syms))
<1> DEFINE n == Len(p.ps.syms)
           h == 2 + n
           c1 == Prologue(NoCode, n)
           c2 == Made(genStmt[MaxNodes], p.n, c1)
           c3 == Ins(c2, "mov_eax_imm", 0)
           c4 == Epilogue(c3)
<1>1. c = c4
  BY DEF Generate, NoCode, Made, NoError
<1>2. n \in 0 .. MaxLocals /\ n \in Nat /\ h \in Int /\ h >= 2 + n /\ h >= 2 /\ -1 \in Int /\ 0 \in Int
  <2>1. n \in 0 .. MaxLocals
    BY DEF Compiled
  <2> HIDE DEF n
  <2>2. n \in Nat
    BY <2>1, LocalsFit
  <2> QED
    BY <2>1, <2>2
<1>3. NoCode \in Buffers
  BY NoCodeTall
<1>4. p.n \in StmtTrees(n)[MaxNodes]
  BY DEF Compiled
<1> HIDE DEF n
<1>5. Makes(NoCode, 1, c1, h, n)
  BY <1>2, <1>3, PrologueMakes
<1> HIDE DEF h, c1
<1>6. Makes(c1, h, c2, h, n)
  BY <1>2, <1>4, <1>5, MakesBuffers, StmtMakes DEF Made
<1> HIDE DEF c2
<1>7. Makes(c2, h, c3, h, n)
  <2>1. "mov_eax_imm" \in Plain
    BY DEF Plain
  <2>2. "mov_eax_imm" \notin DOMAIN Opcode
    BY DEF Opcode
  <2> QED
    BY <1>2, <1>6, <2>1, <2>2, MakesBuffers, EmitPlain
<1> HIDE DEF c3
<1>8. Makes(c3, h, c4, -1, n)
  BY <1>2, <1>7, MakesBuffers, EpilogueMakes
<1> HIDE DEF c4
<1>9. Makes(NoCode, 1, c2, h, n)
  BY <1>5, <1>6, MakesOn
<1>10. Makes(c2, h, c4, -1, n)
  BY <1>7, <1>8, MakesOn
<1>11. Makes(NoCode, 1, c4, -1, n)
  BY <1>9, <1>10, MakesOn
<1>12. c4 \in Buffers /\ NoError(c4)
  BY <1>1, <1>11, MakesBuffers
<1>13. PICK a : Tall(NoCode, a, 1, n) /\ a[0] = 1 /\ Len(NoCode.code) = 0
  BY NoCodeTall
<1>14. PICK b : Tall(c4, b, -1, n) /\ Grown(NoCode.code, a, c4.code, b)
  BY <1>11, <1>12, <1>13, MakesOne
<1>15. b[0] = 1
  <2>1. 0 \in 0 .. Len(NoCode.code)
    BY <1>13
  <2>2. b[0] = a[0]
    BY <1>14, <2>1, HeightOn
  <2> QED
    BY <1>13, <2>2
<1>16. Framed(c4.code, n)
  BY <1>14, <1>15 DEF Framed, Tall
<1> QED
  BY <1>1, <1>12, <1>16 DEF n

-----------------------------------------------------------------------------
(* The states of the parser. *)

Tidy(ps) == ps \in Parsers /\ Len(ps.syms) <= MaxLocals /\ ps.nodes <= MaxNodes

\* The parser comes from ps to qs: an error stays, nodes and symbols stay.
Comes(ps, qs) ==
  /\ Tidy(qs)
  /\ NoError(qs) => NoError(ps)
  /\ ps.nodes <= qs.nodes /\ Len(ps.syms) <= Len(qs.syms)

\* The same, without a new node or symbol.
Keeps(ps, qs) ==
  /\ Tidy(qs)
  /\ NoError(qs) => NoError(ps)
  /\ qs.nodes = ps.nodes /\ qs.syms = ps.syms

LEMMA TidyIs ==
  ASSUME NEW ps, Tidy(ps)
  PROVE  /\ ps \in Parsers /\ ps.nodes \in 0 .. MaxNodes
         /\ Len(ps.syms) \in 0 .. MaxLocals /\ Len(ps.toks) \in Nat
<1>1. ps.nodes \in Nat /\ ps.syms \in Seq(Idents) /\ ps.toks \in Seq(Tokens)
  BY DEF Tidy, Parsers
<1>2. Len(ps.syms) \in Nat /\ Len(ps.toks) \in Nat
  BY <1>1
<1>3. MaxNodes \in Nat /\ MaxLocals \in Nat
  BY CompilerAssumption
<1> QED
  BY <1>1, <1>2, <1>3 DEF Tidy

LEMMA KeepsComes ==
  ASSUME NEW ps, Tidy(ps), NEW qs, Keeps(ps, qs)
  PROVE  Comes(ps, qs)
<1>1. ps.nodes \in Nat /\ Len(ps.syms) \in Nat
  BY TidyIs
<1>2. qs.nodes = ps.nodes /\ Len(qs.syms) = Len(ps.syms)
  BY DEF Keeps
<1>3. ps.nodes <= qs.nodes /\ Len(ps.syms) <= Len(qs.syms)
  BY <1>1, <1>2
<1> QED
  BY <1>3 DEF Keeps, Comes

LEMMA ComesSelf ==
  ASSUME NEW ps, Tidy(ps)
  PROVE  Comes(ps, ps)
<1>1. ps.nodes \in Nat /\ Len(ps.syms) \in Nat
  BY TidyIs
<1>2. ps.nodes <= ps.nodes /\ Len(ps.syms) <= Len(ps.syms)
  BY <1>1
<1> QED
  BY <1>2 DEF Comes

LEMMA ComesTidy ==
  ASSUME NEW ps, NEW qs, Comes(ps, qs)
  PROVE  Tidy(qs) /\ qs \in Parsers /\ (NoError(qs) => NoError(ps))
  BY DEF Comes, Tidy

LEMMA KeepsTidy ==
  ASSUME NEW ps, NEW qs, Keeps(ps, qs)
  PROVE  Tidy(qs) /\ qs \in Parsers /\ (NoError(qs) => NoError(ps))
  BY DEF Keeps, Tidy

LEMMA ComesOn ==
  ASSUME NEW ps, Tidy(ps), NEW qs, Comes(ps, qs), NEW rs, Comes(qs, rs)
  PROVE  Comes(ps, rs)
<1>1. /\ ps.nodes \in Int /\ Len(ps.syms) \in Int /\ qs.nodes \in Int /\ Len(qs.syms) \in Int
      /\ rs.nodes \in Int /\ Len(rs.syms) \in Int
  BY TidyIs, ComesTidy
<1>2. ps.nodes <= qs.nodes /\ Len(ps.syms) <= Len(qs.syms)
      /\ qs.nodes <= rs.nodes /\ Len(qs.syms) <= Len(rs.syms)
  BY DEF Comes
<1>3. ps.nodes <= rs.nodes /\ Len(ps.syms) <= Len(rs.syms)
  BY <1>1, <1>2
<1>4. Tidy(rs) /\ (NoError(rs) => NoError(ps))
  BY DEF Comes
<1> QED
  BY <1>3, <1>4 DEF Comes

LEMMA KeepsOn ==
  ASSUME NEW ps, NEW qs, Keeps(ps, qs), NEW rs, Keeps(qs, rs)
  PROVE  Keeps(ps, rs)
  BY DEF Keeps

LEMMA KeepsSelf ==
  ASSUME NEW ps, Tidy(ps)
  PROVE  Keeps(ps, ps)
  BY DEF Keeps

\* One field of the parser's state changes.
LEMMA SetPos ==
  ASSUME NEW ps \in Parsers, NEW pos \in Nat \ {0}, NEW qs, qs = [ps EXCEPT !.pos = pos]
  PROVE  /\ qs \in Parsers /\ qs.nodes = ps.nodes /\ qs.syms = ps.syms
         /\ qs.err = ps.err /\ qs.toks = ps.toks
  BY DEF Parsers

LEMMA SetErr ==
  ASSUME NEW ps \in Parsers, NEW err \in Errors, NEW qs, qs = [ps EXCEPT !.err = err]
  PROVE  /\ qs \in Parsers /\ qs.nodes = ps.nodes /\ qs.syms = ps.syms
         /\ qs.err = err /\ qs.toks = ps.toks
  BY DEF Parsers

LEMMA SetNodes ==
  ASSUME NEW ps \in Parsers, NEW nodes \in Nat, NEW qs, qs = [ps EXCEPT !.nodes = nodes]
  PROVE  /\ qs \in Parsers /\ qs.nodes = nodes /\ qs.syms = ps.syms
         /\ qs.err = ps.err /\ qs.toks = ps.toks
  BY DEF Parsers

LEMMA SetSyms ==
  ASSUME NEW ps \in Parsers, NEW syms \in Seq(Idents), NEW qs, qs = [ps EXCEPT !.syms = syms]
  PROVE  /\ qs \in Parsers /\ qs.nodes = ps.nodes /\ qs.syms = syms
         /\ qs.err = ps.err /\ qs.toks = ps.toks
  BY DEF Parsers

Messages == Errors \ {""}

LEMMA FailKeeps ==
  ASSUME NEW ps, Tidy(ps), NEW msg \in Messages
  PROVE  Keeps(ps, Fail(ps, msg)) /\ ~NoError(Fail(ps, msg))
<1> DEFINE qs == Fail(ps, msg)
<1>1. CASE NoError(ps)
  <2>1. qs = [ps EXCEPT !.err = msg]
    BY <1>1 DEF Fail, NoError
  <2>2. ps \in Parsers /\ msg \in Errors
    BY DEF Tidy, Messages
  <2> HIDE DEF qs
  <2>3. qs \in Parsers /\ qs.nodes = ps.nodes /\ qs.syms = ps.syms /\ qs.err = msg
    BY <2>1, <2>2, SetErr
  <2>4. Tidy(qs)
    BY <2>3 DEF Tidy
  <2>5. ~NoError(qs)
    BY <2>3 DEF NoError, Messages
  <2>6. Keeps(ps, qs)
    BY <2>3, <2>4, <2>5 DEF Keeps
  <2> QED
    BY <2>5, <2>6 DEF qs
<1>2. CASE ~NoError(ps)
  <2>1. qs = ps
    BY <1>2 DEF Fail, NoError
  <2> QED
    BY <1>2, <2>1, KeepsSelf
<1> QED
  BY <1>1, <1>2

LEMMA AdvanceKeeps ==
  ASSUME NEW ps, Tidy(ps)
  PROVE  Keeps(ps, Advance(ps)) /\ (NoError(Advance(ps)) <=> NoError(ps))
<1> DEFINE qs == Advance(ps)
<1>1. CASE NoError(ps)
  <2> DEFINE pos == ps.pos + 1
  <2>1. qs = [ps EXCEPT !.pos = pos]
    BY <1>1 DEF Advance, NoError
  <2>2. ps.pos \in Nat \ {0} /\ ps \in Parsers
    BY DEF Tidy, Parsers
  <2>3. pos \in Nat \ {0}
    BY <2>2
  <2> HIDE DEF qs, pos
  <2>4. qs \in Parsers /\ qs.nodes = ps.nodes /\ qs.syms = ps.syms /\ qs.err = ps.err
    BY <2>1, <2>2, <2>3, SetPos
  <2>5. Tidy(qs)
    BY <2>4 DEF Tidy
  <2>6. NoError(qs) <=> NoError(ps)
    BY <2>4 DEF NoError
  <2>7. Keeps(ps, qs)
    BY <2>4, <2>5, <2>6 DEF Keeps
  <2> QED
    BY <2>6, <2>7 DEF qs
<1>2. CASE ~NoError(ps)
  <2>1. qs = ps
    BY <1>2 DEF Advance, NoError
  <2> QED
    BY <1>2, <2>1, KeepsSelf
<1> QED
  BY <1>1, <1>2

LEMMA ExpectKeeps ==
  ASSUME NEW ps, Tidy(ps), NEW type
  PROVE  Keeps(ps, Expect(ps, type))
<1>1. CASE ~NoError(ps)
  <2>1. Expect(ps, type) = ps
    BY <1>1 DEF Expect, NoError
  <2> QED
    BY <2>1, KeepsSelf
<1>2. CASE NoError(ps) /\ Cur(ps).type = type
  <2>1. Expect(ps, type) = Advance(ps)
    BY <1>2 DEF Expect, NoError
  <2> QED
    BY <2>1, AdvanceKeeps
<1>3. CASE NoError(ps) /\ Cur(ps).type # type
  <2>1. Expect(ps, type) = Fail(ps, "another token expected")
    BY <1>3 DEF Expect, NoError
  <2>2. "another token expected" \in Messages
    BY DEF Messages, Errors
  <2> QED
    BY <2>1, <2>2, FailKeeps
<1> QED
  BY <1>1, <1>2, <1>3

LEMMA CurToken ==
  ASSUME NEW ps \in Parsers
  PROVE  Cur(ps) \in Tokens
<1>1. ps.toks \in Seq(Tokens) /\ ps.pos \in Nat \ {0} /\ Len(ps.toks) \in Nat
  BY DEF Parsers
<1>2. CASE ps.pos > Len(ps.toks)
  <2>1. Cur(ps) = Tok("eof")
    BY <1>2 DEF Cur
  <2>2. 0 \in Int /\ "" \in Idents
    BY DEF Idents
  <2>3. Tok("eof") \in Tokens
    BY <2>2 DEF Tok, Tokens
  <2> QED
    BY <2>1, <2>3
<1>3. CASE ~(ps.pos > Len(ps.toks))
  <2>1. ps.pos \in 1 .. Len(ps.toks)
    BY <1>1, <1>3
  <2>2. ps.toks[ps.pos] \in Tokens
    BY <1>1, <2>1, ElementOfSeq
  <2>3. Cur(ps) = ps.toks[ps.pos]
    BY <1>3 DEF Cur
  <2> QED
    BY <2>2, <2>3
<1> QED
  BY <1>2, <1>3

LEMMA CurIs ==
  ASSUME NEW ps \in Parsers
  PROVE  Cur(ps).val \in Int /\ Cur(ps).text \in Idents
  BY CurToken DEF Tokens

LEMMA SeesNoError ==
  ASSUME NEW ps, NEW types, Sees(ps, types)
  PROVE  NoError(ps) /\ Cur(ps).type \in types
  BY DEF Sees, NoError

LEMMA SeesOne ==
  ASSUME NEW ps, NEW a, Sees(ps, {a}), NEW b, a # b
  PROVE  ~Sees(ps, {b})
  BY DEF Sees

\* A name that is declared is one of the locals.
LEMMA LookupIs ==
  ASSUME NEW ps \in Parsers, NEW x, Lookup(ps, x) # 0
  PROVE  Lookup(ps, x) \in {4 * k : k \in 1 .. Len(ps.syms)}
<1> DEFINE at == {k \in DOMAIN ps.syms : ps.syms[k] = x}
<1>1. DOMAIN ps.syms = 1 .. Len(ps.syms) /\ Len(ps.syms) \in Nat
  BY DEF Parsers
<1>2. Lookup(ps, x) = IF at = {} THEN 0 ELSE 4 * (CHOOSE k \in at : \A j \in at : k <= j)
  BY DEF Lookup
<1>3. at # {}
  BY <1>2
<1>4. at \subseteq Nat
  BY <1>1
<1>5. \A k \in at : k \in 1 .. Len(ps.syms)
  BY <1>1
<1> HIDE DEF at
<1>6. \E k \in at : \A j \in at : k <= j
  BY <1>3, <1>4, SomeLeast
<1> DEFINE first == CHOOSE k \in at : \A j \in at : k <= j
<1>7. first \in at
  BY <1>6
<1>8. first \in 1 .. Len(ps.syms)
  BY <1>5, <1>7
<1>9. Lookup(ps, x) = 4 * first
  BY <1>2, <1>3
<1> QED
  BY <1>8, <1>9

LEMMA VarInVars ==
  ASSUME NEW ps \in Parsers, NEW x \in Idents, Lookup(ps, x) # 0
  PROVE  Var(ps, x) \in Vars(Len(ps.syms))
<1>1. Lookup(ps, x) \in {4 * k : k \in 1 .. Len(ps.syms)}
  BY LookupIs
<1> QED
  BY <1>1 DEF Var, Vars

\* What a node does to the parser's state.
LEMMA NodeIs ==
  ASSUME NEW ps, Tidy(ps), NEW n
  PROVE  /\ Node(ps, n) = [ps |-> Node(ps, n).ps, n |-> Node(ps, n).n]
         /\ Comes(ps, Node(ps, n).ps)
         /\ NoError(Node(ps, n).ps) =>
              /\ Node(ps, n).n = n /\ Node(ps, n).ps.nodes = ps.nodes + 1
              /\ Node(ps, n).ps.syms = ps.syms
         /\ ~NoError(Node(ps, n).ps) => Node(ps, n).n = Nothing
<1> DEFINE r == Node(ps, n)
<1>1. CASE ~NoError(ps)
  <2>1. r = [ps |-> ps, n |-> Nothing]
    BY <1>1 DEF Node, NoError
  <2> HIDE DEF r
  <2>2. r.ps = ps /\ r.n = Nothing /\ r = [ps |-> r.ps, n |-> r.n]
    BY <2>1
  <2>3. Comes(ps, r.ps)
    BY <2>2, ComesSelf
  <2> QED
    BY <1>1, <2>2, <2>3 DEF r
<1>2. CASE NoError(ps) /\ ps.nodes >= MaxNodes
  <2> DEFINE qs == Fail(ps, "program too large")
  <2>1. r = [ps |-> qs, n |-> Nothing]
    BY <1>2 DEF Node, NoError
  <2>2. "program too large" \in Messages
    BY DEF Messages, Errors
  <2>3. Comes(ps, qs) /\ ~NoError(qs)
    BY <2>2, FailKeeps, KeepsComes
  <2> HIDE DEF r, qs
  <2>4. r.ps = qs /\ r.n = Nothing /\ r = [ps |-> r.ps, n |-> r.n]
    BY <2>1
  <2> QED
    BY <2>3, <2>4 DEF r
<1>3. CASE NoError(ps) /\ ~(ps.nodes >= MaxNodes)
  <2> DEFINE nodes == ps.nodes + 1
             qs == [ps EXCEPT !.nodes = nodes]
  <2>1. r = [ps |-> qs, n |-> n]
    BY <1>3 DEF Node, NoError
  <2>2. ps.nodes \in 0 .. MaxNodes /\ MaxNodes \in Nat /\ ps \in Parsers
    BY TidyIs, CompilerAssumption
  <2>3. nodes \in Nat /\ nodes <= MaxNodes /\ ps.nodes <= nodes
    <3>1. ~(ps.nodes >= MaxNodes)
      BY <1>3
    <3> QED
      BY <2>2, <3>1
  <2>4. nodes = ps.nodes + 1
    OBVIOUS
  <2> HIDE DEF r, nodes
  <2>5. qs \in Parsers /\ qs.nodes = nodes /\ qs.syms = ps.syms /\ qs.err = ps.err
    BY <2>2, <2>3, SetNodes
  <2> HIDE DEF qs
  <2>6. r.ps = qs /\ r.n = n /\ r = [ps |-> r.ps, n |-> r.n]
    BY <2>1
  <2>7. Tidy(qs)
    BY <2>3, <2>5 DEF Tidy
  <2>8. NoError(qs)
    BY <1>3, <2>5 DEF NoError
  <2>9. Len(ps.syms) <= Len(qs.syms)
    <3>1. Len(ps.syms) \in Nat
      BY TidyIs
    <3> QED
      BY <2>5, <3>1
  <2>10. Comes(ps, qs)
    BY <1>3, <2>3, <2>5, <2>7, <2>9 DEF Comes
  <2> QED
    BY <2>4, <2>5, <2>6, <2>8, <2>10 DEF r
<1> QED
  BY <1>1, <1>2, <1>3

LEMMA NoNodeIs ==
  ASSUME NEW ps, Tidy(ps), NEW msg \in Messages
  PROVE  /\ NoNode(ps, msg) = [ps |-> NoNode(ps, msg).ps, n |-> Nothing]
         /\ Comes(ps, NoNode(ps, msg).ps) /\ ~NoError(NoNode(ps, msg).ps)
<1> DEFINE qs == Fail(ps, msg)
<1>1. Comes(ps, qs) /\ ~NoError(qs)
  BY FailKeeps, KeepsComes
<1>2. NoNode(ps, msg) = [ps |-> qs, n |-> Nothing]
  BY DEF NoNode
<1> HIDE DEF qs
<1> QED
  BY <1>1, <1>2

\* The types of Messages that the parser names.
LEMMA MessagesAre ==
  /\ "redeclared" \in Messages /\ "too many locals" \in Messages /\ "undeclared" \in Messages
  /\ "expected an expression" \in Messages /\ "expected a name" \in Messages
  /\ "invalid command" \in Messages /\ "too deep" \in Messages /\ "expected main" \in Messages
  BY DEF Messages, Errors

\* After a declaration without an error the name is one of the locals.
LEMMA DeclareIs ==
  ASSUME NEW ps, Tidy(ps), NEW x \in Idents
  PROVE  /\ Comes(ps, Declare(ps, x)) /\ Declare(ps, x).nodes = ps.nodes
         /\ NoError(Declare(ps, x)) => Lookup(Declare(ps, x), x) # 0
<1> DEFINE qs == Declare(ps, x)
<1>1. CASE ~NoError(ps)
  <2>1. qs = ps
    BY <1>1 DEF Declare, NoError
  <2> HIDE DEF qs
  <2> QED
    BY <1>1, <2>1, ComesSelf DEF qs
<1>2. CASE NoError(ps) /\ Lookup(ps, x) # 0
  <2>1. qs = Fail(ps, "redeclared")
    BY <1>2 DEF Declare, NoError
  <2>2. Keeps(ps, qs) /\ ~NoError(qs)
    BY <2>1, MessagesAre, FailKeeps
  <2> HIDE DEF qs
  <2>3. Comes(ps, qs) /\ qs.nodes = ps.nodes
    BY <2>2, KeepsComes DEF Keeps
  <2> QED
    BY <2>2, <2>3 DEF qs
<1>3. CASE NoError(ps) /\ Lookup(ps, x) = 0 /\ Len(ps.syms) >= MaxLocals
  <2>1. qs = Fail(ps, "too many locals")
    BY <1>3 DEF Declare, NoError
  <2>2. Keeps(ps, qs) /\ ~NoError(qs)
    BY <2>1, MessagesAre, FailKeeps
  <2> HIDE DEF qs
  <2>3. Comes(ps, qs) /\ qs.nodes = ps.nodes
    BY <2>2, KeepsComes DEF Keeps
  <2> QED
    BY <2>2, <2>3 DEF qs
<1>4. CASE NoError(ps) /\ Lookup(ps, x) = 0 /\ ~(Len(ps.syms) >= MaxLocals)
  <2> DEFINE s == ps.syms
             syms == Append(s, x)
  <2>1. qs = [ps EXCEPT !.syms = syms]
    BY <1>4 DEF Declare, NoError
  <2>2. s \in Seq(Idents) /\ Len(s) \in Nat /\ ps \in Parsers
    BY DEF Tidy, Parsers
  <2>3. syms \in Seq(Idents) /\ Len(syms) = Len(s) + 1 /\ syms[Len(s) + 1] = x
    BY <2>2
  <2> HIDE DEF syms, qs
  <2>4. qs \in Parsers /\ qs.nodes = ps.nodes /\ qs.syms = syms /\ qs.err = ps.err
    BY <2>1, <2>2, <2>3, SetSyms
  <2>5. Len(syms) <= MaxLocals /\ Len(s) <= Len(syms)
    <3>1. ~(Len(s) >= MaxLocals) /\ MaxLocals \in Nat
      BY <1>4, CompilerAssumption
    <3> QED
      BY <2>2, <2>3, <3>1
  <2>6. ps.nodes \in Nat /\ ps.nodes <= MaxNodes
    BY DEF Tidy, Parsers
  <2>7. ps.nodes <= qs.nodes
    BY <2>4, <2>6
  <2>8. Tidy(qs)
    BY <2>4, <2>5, <2>6 DEF Tidy
  <2>9. Comes(ps, qs)
    BY <1>4, <2>4, <2>5, <2>7, <2>8 DEF Comes
  <2>10. Lookup(qs, x) # 0
    <3> DEFINE at == {k \in DOMAIN qs.syms : qs.syms[k] = x}
    <3>1. DOMAIN syms = 1 .. Len(syms)
      BY <2>3
    <3>2. Len(s) + 1 \in at
      BY <2>2, <2>3, <2>4, <3>1
    <3>3. \A k \in at : k \in Nat /\ k # 0
      BY <2>4, <3>1
    <3>4. Lookup(qs, x) = IF at = {} THEN 0 ELSE 4 * (CHOOSE k \in at : \A j \in at : k <= j)
      BY DEF Lookup
    <3> HIDE DEF at
    <3>5. at # {} /\ at \subseteq Nat
      BY <3>2, <3>3
    <3>6. \E k \in at : \A j \in at : k <= j
      BY <3>5, SomeLeast
    <3> DEFINE first == CHOOSE k \in at : \A j \in at : k <= j
    <3>7. first \in at
      BY <3>6
    <3>8. Lookup(qs, x) = 4 * first
      BY <3>4, <3>5
    <3> HIDE DEF first
    <3>9. first \in Nat /\ first # 0
      BY <3>3, <3>7
    <3> QED
      BY <3>8, <3>9
  <2> QED
    BY <2>4, <2>9, <2>10 DEF qs
<1> QED
  BY <1>1, <1>2, <1>3, <1>4

-----------------------------------------------------------------------------
(* The parser of expressions. *)

LEMMA ExprsDeep ==
  ASSUME NEW m \in Nat, NEW d \in 0 .. MaxNodes, NEW e \in 0 .. MaxNodes, d <= e
  PROVE  ExprTrees(m)[d] \subseteq ExprTrees(m)[e]
<1> DEFINE I == {j \in 0 .. MaxNodes : d <= j => ExprTrees(m)[d] \subseteq ExprTrees(m)[j]}
<1>1. MaxNodes \in Nat
  BY CompilerAssumption
<1>2. 0 \in I
  <2>1. CASE d = 0
    BY <1>1, <2>1
  <2>2. CASE d # 0
    BY <1>1, <2>2
  <2> QED
    BY <2>1, <2>2
<1>3. ASSUME NEW j \in 1 .. MaxNodes, j - 1 \in I
      PROVE  j \in I
  <2>1. j \in 0 .. MaxNodes
    OBVIOUS
  <2>2. CASE d <= j - 1
    <3>1. ExprTrees(m)[d] \subseteq ExprTrees(m)[j - 1]
      BY <1>3, <2>2
    <3>2. ExprTrees(m)[j - 1] \subseteq ExprTrees(m)[j]
      BY ExprsDeepen
    <3> QED
      BY <2>1, <3>1, <3>2
  <2>3. CASE ~(d <= j - 1)
    <3>1. d <= j => d = j
      BY <2>3
    <3> QED
      BY <2>1, <3>1
  <2> QED
    BY <2>2, <2>3
<1> HIDE DEF I
<1>4. e \in I
  BY <1>1, <1>2, <1>3, Induction DEF Inductive
<1> QED
  BY <1>4 DEF I

\* The node over trees of u.
ExprOver(m, u) == ExprStep(m, 1, u)

LEMMA ExprsOver ==
  ASSUME NEW m, NEW d \in 0 .. MaxNodes, d + 1 <= MaxNodes
  PROVE  ExprTrees(m)[d + 1] = ExprOver(m, ExprTrees(m)[d])
<1> DEFINE e == d + 1
<1>1. e \in 0 .. MaxNodes /\ e - 1 = d /\ e # 0
  BY CompilerAssumption
<1> HIDE DEF e
<1>2. ExprTrees(m)[e] = ExprStep(m, e, ExprTrees(m)[d])
  BY <1>1, ExprTableIs
<1>3. ExprStep(m, e, ExprTrees(m)[d]) = ExprStep(m, 1, ExprTrees(m)[d])
  BY <1>1 DEF ExprStep
<1> QED
  BY <1>2, <1>3 DEF ExprOver, e

Whole == ExprTrees(MaxNodes)[MaxNodes]

\* r has an expression that was read from ps on.
IsExpr(ps, r) == r.n \in ExprTrees(Len(r.ps.syms))[r.ps.nodes - ps.nodes]

Reads(ps, r) ==
  /\ r \in Parsed(MaxNodes)
  /\ Comes(ps, r.ps)
  /\ NoError(r.ps) => IsExpr(ps, r)

LEMMA NodesBetween ==
  ASSUME NEW ps, Tidy(ps), NEW qs, Comes(ps, qs)
  PROVE  /\ qs.nodes - ps.nodes \in 0 .. MaxNodes
         /\ Len(qs.syms) \in 0 .. MaxLocals /\ Len(qs.syms) \in Nat /\ Len(qs.syms) <= MaxNodes
<1>1. ps.nodes \in 0 .. MaxNodes /\ qs.nodes \in 0 .. MaxNodes /\ Len(qs.syms) \in 0 .. MaxLocals
  BY TidyIs, ComesTidy
<1>2. ps.nodes <= qs.nodes
  BY DEF Comes
<1>3. MaxNodes \in Nat /\ MaxLocals \in Nat /\ MaxLocals <= MaxNodes
  BY CompilerAssumption
<1> QED
  BY <1>1, <1>2, <1>3

LEMMA IsExprWhole ==
  ASSUME NEW ps, Tidy(ps), NEW r, Comes(ps, r.ps), IsExpr(ps, r)
  PROVE  r.n \in Whole /\ r.n \in ExprTrees(Len(r.ps.syms))[MaxNodes]
<1> DEFINE m == Len(r.ps.syms)
           d == r.ps.nodes - ps.nodes
<1>1. d \in 0 .. MaxNodes /\ m \in Nat /\ m <= MaxNodes
  BY NodesBetween
<1>2. r.n \in ExprTrees(m)[d]
  BY DEF IsExpr
<1> HIDE DEF d
<1>3. MaxNodes \in Nat /\ MaxNodes \in 0 .. MaxNodes /\ d <= MaxNodes
  BY <1>1, CompilerAssumption
<1> HIDE DEF m
<1>4. ExprTrees(m)[d] \subseteq ExprTrees(m)[MaxNodes]
  BY <1>1, <1>3, ExprsDeep
<1>5. ExprTrees(m)[MaxNodes] \subseteq ExprTrees(MaxNodes)[MaxNodes]
  BY <1>1, <1>3, ExprsGrow
<1> QED
  BY <1>2, <1>4, <1>5 DEF Whole, m

LEMMA ReadsIs ==
  ASSUME NEW ps, Tidy(ps), NEW r, r = [ps |-> r.ps, n |-> r.n], Comes(ps, r.ps),
         NoError(r.ps) => IsExpr(ps, r), NoError(r.ps) \/ r.n \in Whole \cup {Nothing}
  PROVE  Reads(ps, r)
<1>1. r.n \in Whole \cup {Nothing}
  BY IsExprWhole
<1>2. r.ps \in Parsers
  BY ComesTidy
<1> DEFINE qs == r.ps
           n == r.n
<1>3. r = [ps |-> qs, n |-> n]
  OBVIOUS
<1>4. qs \in Parsers /\ n \in Whole \cup {Nothing}
  BY <1>1, <1>2
<1> HIDE DEF qs, n
<1>5. r \in [ps : Parsers, n : Whole \cup {Nothing}]
  BY <1>3, <1>4
<1>6. r \in Parsed(MaxNodes)
  BY <1>5 DEF Parsed, Whole
<1> QED
  BY <1>6 DEF Reads

LEMMA ReadsComes ==
  ASSUME NEW ps, NEW r, Reads(ps, r)
  PROVE  Comes(ps, r.ps) /\ Tidy(r.ps) /\ r \in Parsed(MaxNodes)
  BY ComesTidy DEF Reads

LEMMA ReadsNode ==
  ASSUME NEW ps, Tidy(ps), NEW qs, Comes(ps, qs), NEW n,
         NoError(qs) => n \in ExprOver(Len(qs.syms), ExprTrees(Len(qs.syms))[qs.nodes - ps.nodes])
  PROVE  Reads(ps, Node(qs, n))
<1> DEFINE r == Node(qs, n)
<1>1. Tidy(qs)
  BY ComesTidy
<1>2. /\ r = [ps |-> r.ps, n |-> r.n] /\ Comes(qs, r.ps)
      /\ NoError(r.ps) => r.n = n /\ r.ps.nodes = qs.nodes + 1 /\ r.ps.syms = qs.syms
      /\ ~NoError(r.ps) => r.n = Nothing
  BY <1>1, NodeIs
<1> HIDE DEF r
<1>3. Comes(ps, r.ps)
  BY <1>2, ComesOn
<1>4. ASSUME NoError(r.ps)
      PROVE  IsExpr(ps, r)
  <2> DEFINE m == Len(qs.syms)
             d == qs.nodes - ps.nodes
  <2>1. r.n = n /\ r.ps.nodes = qs.nodes + 1 /\ Len(r.ps.syms) = m
    BY <1>2, <1>4
  <2>2. NoError(qs)
    BY <1>2, <1>4, ComesTidy
  <2>3. n \in ExprOver(m, ExprTrees(m)[d])
    BY <2>2
  <2>4. d \in 0 .. MaxNodes /\ r.ps.nodes - ps.nodes \in 0 .. MaxNodes
    BY <1>3, NodesBetween
  <2>5. qs.nodes \in Nat /\ ps.nodes \in Nat
    BY <1>1, TidyIs
  <2>6. r.ps.nodes - ps.nodes = d + 1
    BY <2>1, <2>5
  <2> HIDE DEF d, m
  <2>7. d + 1 <= MaxNodes
    BY <2>4, <2>6, CompilerAssumption
  <2>8. n \in ExprTrees(m)[d + 1]
    BY <2>3, <2>4, <2>7, ExprsOver
  <2> QED
    BY <2>1, <2>6, <2>8 DEF IsExpr
<1>5. NoError(r.ps) \/ r.n \in Whole \cup {Nothing}
  BY <1>2
<1>6. Reads(ps, r)
  BY <1>2, <1>3, <1>4, <1>5, ReadsIs
<1> QED
  BY <1>6 DEF r

LEMMA ReadsNoNode ==
  ASSUME NEW ps, Tidy(ps), NEW msg \in Messages
  PROVE  Reads(ps, NoNode(ps, msg))
<1> DEFINE r == NoNode(ps, msg)
<1>1. r = [ps |-> r.ps, n |-> Nothing] /\ Comes(ps, r.ps) /\ ~NoError(r.ps)
  BY NoNodeIs
<1> HIDE DEF r
<1>2. r.n = Nothing /\ r = [ps |-> r.ps, n |-> r.n]
  BY <1>1
<1>3. Reads(ps, r)
  BY <1>1, <1>2, ReadsIs
<1> QED
  BY <1>3 DEF r

\* Tokens before an expression and after it.
LEMMA ReadsFrom ==
  ASSUME NEW ps, Tidy(ps), NEW qs, Keeps(ps, qs), NEW r, Reads(qs, r)
  PROVE  Reads(ps, r)
<1>1. Comes(ps, qs) /\ Comes(qs, r.ps)
  BY KeepsComes, ReadsComes
<1>2. Comes(ps, r.ps)
  BY <1>1, ComesOn
<1>3. qs.nodes = ps.nodes
  BY DEF Keeps
<1>4. IsExpr(qs, r) <=> IsExpr(ps, r)
  BY <1>3 DEF IsExpr
<1> QED
  BY <1>2, <1>4 DEF Reads

LEMMA ReadsThen ==
  ASSUME NEW ps, Tidy(ps), NEW r, Reads(ps, r), NEW qs, Keeps(r.ps, qs),
         NEW s, s = [r EXCEPT !.ps = qs]
  PROVE  Reads(ps, s)
<1>1. Tidy(r.ps) /\ r \in [ps : Parsers, n : Whole \cup {Nothing}]
  BY ReadsComes DEF Parsed, Whole
<1>2. s.ps = qs /\ s.n = r.n /\ s = [ps |-> s.ps, n |-> s.n] /\ r.n \in Whole \cup {Nothing}
  BY <1>1
<1>3. Comes(ps, r.ps) /\ Comes(r.ps, qs)
  BY <1>1, ReadsComes, KeepsComes
<1>4. Comes(ps, qs)
  BY <1>3, ComesOn
<1>5. ASSUME NoError(qs)
      PROVE  IsExpr(ps, s)
  <2>1. NoError(r.ps) /\ qs.nodes = r.ps.nodes /\ qs.syms = r.ps.syms
    BY <1>5 DEF Keeps
  <2>2. IsExpr(ps, r)
    BY <2>1 DEF Reads
  <2> QED
    BY <1>2, <2>1, <2>2 DEF IsExpr
<1> QED
  BY <1>2, <1>4, <1>5, ReadsIs

\* A function that reads expressions.
Reader(f) == \A ps \in Parsers : Tidy(ps) => Reads(ps, f[ps])

LEMMA ReaderOne ==
  ASSUME NEW f, Reader(f), NEW ps, Tidy(ps)
  PROVE  Reads(ps, f[ps])
  BY TidyIs DEF Reader

\* Up to j more operands, from what up to one less are.
ChainStep(operand, operators, j, u) ==
  [r \in Parsed(MaxNodes) |->
     IF j = 0 \/ ~Sees(r.ps, operators) THEN r
     ELSE u[Node(operand[Advance(r.ps)].ps,
                 Binop(Cur(r.ps).type, r.n, operand[Advance(r.ps)].n))]]

ChainTables(operand, operators, n, u) == u = [j \in 0 .. n |-> ChainStep(operand, operators, j, u[j - 1])]

LEMMA ChainTableZero == ASSUME NEW operand, NEW operators, NEW x, NEW y PROVE ChainStep(operand, operators, 0, x) = ChainStep(operand, operators, 0, y)
  BY DEF ChainStep

LEMMA ChainTableMore ==
  ASSUME NEW operand, NEW operators, NEW n \in Nat, NEW q, ChainTables(operand, operators, n, q)
  PROVE  \E u : ChainTables(operand, operators, n + 1, u)
<1> DEFINE u == [j \in 0 .. n + 1 |-> IF j <= n THEN q[j] ELSE ChainStep(operand, operators, n + 1, q[n])]
<1>1. \A j \in 0 .. n : q[j] = ChainStep(operand, operators, j, q[j - 1])
  BY DEF ChainTables
<1>2. \A j \in 0 .. n : u[j] = q[j]
  OBVIOUS
<1>3. u[n + 1] = ChainStep(operand, operators, n + 1, q[n]) /\ u = [j \in 0 .. n + 1 |-> u[j]]
  OBVIOUS
<1> HIDE DEF u
<1>4. ASSUME NEW j \in 0 .. n + 1
      PROVE  u[j] = ChainStep(operand, operators, j, u[j - 1])
  <2>1. CASE j = 0
    <3>1. 0 \in 0 .. n
      OBVIOUS
    <3>2. u[0] = ChainStep(operand, operators, 0, q[0 - 1])
      BY <1>1, <1>2, <3>1
    <3> QED
      BY <2>1, <3>2, ChainTableZero
  <2>2. CASE j \in 1 .. n
    <3>1. j \in 0 .. n /\ j - 1 \in 0 .. n
      BY <2>2
    <3>2. u[j] = q[j] /\ u[j - 1] = q[j - 1]
      BY <1>2, <3>1
    <3> QED
      BY <1>1, <3>1, <3>2
  <2>3. CASE j = n + 1
    <3>1. n \in 0 .. n /\ (n + 1) - 1 = n
      OBVIOUS
    <3>2. u[n] = q[n]
      BY <1>2, <3>1
    <3> QED
      BY <1>3, <2>3, <3>1, <3>2
  <2> QED
    BY <2>1, <2>2, <2>3
<1>5. u = [j \in 0 .. n + 1 |-> ChainStep(operand, operators, j, u[j - 1])]
  BY <1>3, <1>4
<1> QED
  BY <1>5 DEF ChainTables

LEMMA ChainTableExists == ASSUME NEW operand, NEW operators, NEW n \in Nat PROVE \E u : ChainTables(operand, operators, n, u)
<1> DEFINE I == {j \in Nat : \E u : ChainTables(operand, operators, j, u)}
<1>1. 0 \in I
  <2> DEFINE u == [j \in 0 .. 0 |-> ChainStep(operand, operators, 0, 0)]
  <2>1. \A j \in 0 .. 0 : j = 0
    OBVIOUS
  <2>2. \A j \in 0 .. 0 : ChainStep(operand, operators, j, u[j - 1]) = ChainStep(operand, operators, 0, 0)
    BY <2>1, ChainTableZero
  <2> DEFINE w == [j \in 0 .. 0 |-> ChainStep(operand, operators, j, u[j - 1])]
  <2>3. u = w
    BY <2>2
  <2> HIDE DEF u
  <2>4. ChainTables(operand, operators, 0, u)
    BY <2>3 DEF ChainTables
  <2> QED
    BY <2>4
<1>2. \A j \in 1 .. n : j - 1 \in I => j \in I
  <2> SUFFICES ASSUME NEW j \in 1 .. n, j - 1 \in I PROVE j \in I
    OBVIOUS
  <2>1. j - 1 \in Nat /\ (j - 1) + 1 = j /\ j \in Nat
    OBVIOUS
  <2>2. PICK q : ChainTables(operand, operators, j - 1, q)
    OBVIOUS
  <2> HIDE DEF I
  <2>3. \E u : ChainTables(operand, operators, (j - 1) + 1, u)
    BY <2>1, <2>2, ChainTableMore
  <2> QED
    BY <2>1, <2>3 DEF I
<1> HIDE DEF I
<1>3. Inductive(n, I)
  BY <1>1, <1>2 DEF Inductive
<1>4. n \in 0 .. n
  OBVIOUS
<1>5. n \in I
  BY <1>3, <1>4, Induction
<1> QED
  BY <1>5 DEF I

\* The operands that follow.
Links(operand, operators, n) == CHOOSE u : ChainTables(operand, operators, n, u)

LEMMA ChainIs ==
  ASSUME NEW operand, NEW operators, NEW n \in Nat, NEW ps
  PROVE  /\ Chain(operand, operators, n, ps) = Links(operand, operators, n)[n][operand[ps]]
         /\ \A j \in 0 .. n : Links(operand, operators, n)[j] =
              ChainStep(operand, operators, j, Links(operand, operators, n)[j - 1])
<1>1. Chain(operand, operators, n, ps) = Links(operand, operators, n)[n][operand[ps]]
  BY DEF Chain, Links, ChainTables, ChainStep
<1>2. \E u : ChainTables(operand, operators, n, u)
  BY ChainTableExists
<1> DEFINE f == Links(operand, operators, n)
<1>3. ChainTables(operand, operators, n, f)
  BY <1>2 DEF Links
<1> HIDE DEF f
<1>4. f = [j \in 0 .. n |-> ChainStep(operand, operators, j, f[j - 1])]
  BY <1>3 DEF ChainTables
<1>5. \A j \in 0 .. n : f[j] = ChainStep(operand, operators, j, f[j - 1])
  BY <1>4
<1> QED
  BY <1>1, <1>5 DEF f

LEMMA BinopReads ==
  ASSUME NEW operand, Reader(operand), NEW operators, operators \subseteq Operators,
         NEW ps, Tidy(ps), NEW r, Reads(ps, r), Sees(r.ps, operators),
         NEW rhs, rhs = operand[Advance(r.ps)]
  PROVE  Reads(ps, Node(rhs.ps, Binop(Cur(r.ps).type, r.n, rhs.n)))
<1> DEFINE op == Cur(r.ps).type
           n == Binop(op, r.n, rhs.n)
           next == Advance(r.ps)
<1>1. NoError(r.ps) /\ op \in Operators
  BY SeesNoError
<1>2. Comes(ps, r.ps) /\ Tidy(r.ps) /\ IsExpr(ps, r)
  BY <1>1, ReadsComes DEF Reads
<1>3. Keeps(r.ps, next) /\ Tidy(next)
  BY <1>2, AdvanceKeeps, KeepsTidy
<1>4. Reads(next, rhs)
  BY <1>3, ReaderOne
<1>5. Reads(r.ps, rhs)
  BY <1>2, <1>3, <1>4, ReadsFrom
<1>6. Comes(r.ps, rhs.ps) /\ Tidy(rhs.ps)
  BY <1>5, ReadsComes
<1>7. Comes(ps, rhs.ps)
  BY <1>2, <1>6, ComesOn
<1> HIDE DEF op, next
<1>8. ASSUME NoError(rhs.ps)
      PROVE  n \in ExprOver(Len(rhs.ps.syms), ExprTrees(Len(rhs.ps.syms))[rhs.ps.nodes - ps.nodes])
  <2> DEFINE m == Len(rhs.ps.syms)
             k == Len(r.ps.syms)
             d == rhs.ps.nodes - ps.nodes
             a == r.ps.nodes - ps.nodes
             b == rhs.ps.nodes - r.ps.nodes
  <2>1. IsExpr(r.ps, rhs)
    BY <1>5, <1>8 DEF Reads
  <2>2. r.n \in ExprTrees(k)[a] /\ rhs.n \in ExprTrees(m)[b]
    BY <1>2, <2>1 DEF IsExpr
  <2>3. /\ d \in 0 .. MaxNodes /\ a \in 0 .. MaxNodes /\ b \in 0 .. MaxNodes
        /\ m \in Nat /\ k \in Nat
    BY <1>2, <1>6, <1>7, NodesBetween
  <2>4. k <= m /\ ps.nodes <= r.ps.nodes /\ r.ps.nodes <= rhs.ps.nodes
    BY <1>2, <1>6 DEF Comes
  <2>5. ps.nodes \in Int /\ r.ps.nodes \in Int /\ rhs.ps.nodes \in Int
    BY <1>2, <1>6, TidyIs
  <2>6. a <= d /\ b <= d
    BY <2>4, <2>5
  <2> HIDE DEF m, k, d, a, b
  <2>7. ExprTrees(k)[a] \subseteq ExprTrees(m)[a]
    BY <2>3, <2>4, ExprsGrow
  <2>8. ExprTrees(m)[a] \subseteq ExprTrees(m)[d] /\ ExprTrees(m)[b] \subseteq ExprTrees(m)[d]
    BY <2>3, <2>6, ExprsDeep
  <2> DEFINE T == ExprTrees(m)[d]
  <2>9. r.n \in T /\ rhs.n \in T
    BY <2>2, <2>7, <2>8
  <2> HIDE DEF T
  <2>10. n \in [kind : {"binop"}, op : Operators, a : T, b : T]
    BY <1>1, <2>9 DEF Binop
  <2>11. n \in ExprOver(m, T)
    BY <2>10 DEF ExprOver, ExprStep
  <2> QED
    BY <2>11 DEF T, m, d
<1> HIDE DEF n
<1>9. Reads(ps, Node(rhs.ps, n))
  BY <1>7, <1>8, ReadsNode
<1> QED
  BY <1>9 DEF n, op

LEMMA ChainReads ==
  ASSUME NEW operand, Reader(operand), NEW operators, operators \subseteq Operators,
         NEW rounds \in Nat, NEW ps, Tidy(ps)
  PROVE  Reads(ps, Chain(operand, operators, rounds, ps))
<1> DEFINE f == Links(operand, operators, rounds)
           I == {j \in 0 .. rounds : \A r : Reads(ps, r) => Reads(ps, f[j][r])}
<1>1. Chain(operand, operators, rounds, ps) = f[rounds][operand[ps]]
  BY ChainIs
<1>2. \A j \in 0 .. rounds : f[j] = ChainStep(operand, operators, j, f[j - 1])
  BY ChainIs
<1> HIDE DEF f
<1>3. ASSUME NEW j \in 0 .. rounds, NEW r, Reads(ps, r), j = 0 \/ ~Sees(r.ps, operators)
      PROVE  Reads(ps, f[j][r])
  <2>1. r \in Parsed(MaxNodes)
    BY <1>3, ReadsComes
  <2>2. ChainStep(operand, operators, j, f[j - 1])[r] = r
    BY <1>3, <2>1 DEF ChainStep
  <2> QED
    BY <1>2, <1>3, <2>2
<1>4. 0 \in I
  BY <1>3
<1>5. ASSUME NEW j \in 1 .. rounds, j - 1 \in I
      PROVE  j \in I
  <2>1. j \in 0 .. rounds /\ j # 0
    OBVIOUS
  <2>2. ASSUME NEW r, Reads(ps, r)
        PROVE  Reads(ps, f[j][r])
    <3>1. CASE ~Sees(r.ps, operators)
      BY <1>3, <2>1, <2>2, <3>1
    <3>2. CASE Sees(r.ps, operators)
      <4> DEFINE rhs == operand[Advance(r.ps)]
                 next == Node(rhs.ps, Binop(Cur(r.ps).type, r.n, rhs.n))
      <4>1. Reads(ps, next)
        BY <2>2, <3>2, BinopReads
      <4>2. r \in Parsed(MaxNodes)
        BY <2>2, ReadsComes
      <4>3. ChainStep(operand, operators, j, f[j - 1])[r] = f[j - 1][next]
        BY <2>1, <3>2, <4>2 DEF ChainStep
      <4> HIDE DEF next
      <4>4. Reads(ps, f[j - 1][next])
        BY <1>5, <4>1
      <4> QED
        BY <1>2, <2>1, <4>3, <4>4
    <3> QED
      BY <3>1, <3>2
  <2> QED
    BY <2>1, <2>2
<1>6. Reads(ps, operand[ps])
  BY ReaderOne
<1> HIDE DEF I
<1>7. rounds \in 0 .. rounds
  OBVIOUS
<1>8. rounds \in I
  BY <1>4, <1>5, <1>7, Induction DEF Inductive
<1> QED
  BY <1>1, <1>6, <1>8 DEF I

LEMMA OperatorsAre ==
  {"*", "/"} \subseteq Operators /\ {"+", "-"} \subseteq Operators /\ Relations \subseteq Operators
  BY DEF Operators

LEMMA ComparisonReads ==
  ASSUME NEW unary, Reader(unary)
  PROVE  Reader(Comparison(unary))
<1>1. Reader(Term(unary))
  <2>1. ASSUME NEW ps \in Parsers, Tidy(ps)
        PROVE  Reads(ps, Term(unary)[ps])
    <3>1. Term(unary)[ps] = Chain(unary, {"*", "/"}, Len(ps.toks), ps)
      BY DEF Term
    <3> QED
      BY <2>1, <3>1, TidyIs, OperatorsAre, ChainReads
  <2> QED
    BY <2>1 DEF Reader
<1>2. Reader(Additive(unary))
  <2>1. ASSUME NEW ps \in Parsers, Tidy(ps)
        PROVE  Reads(ps, Additive(unary)[ps])
    <3>1. Additive(unary)[ps] = Chain(Term(unary), {"+", "-"}, Len(ps.toks), ps)
      BY DEF Additive
    <3> QED
      BY <1>1, <2>1, <3>1, TidyIs, OperatorsAre, ChainReads
  <2> QED
    BY <2>1 DEF Reader
<1>3. ASSUME NEW ps \in Parsers, Tidy(ps)
      PROVE  Reads(ps, Comparison(unary)[ps])
  <2>1. Comparison(unary)[ps] = Chain(Additive(unary), Relations, 1, ps)
    BY DEF Comparison
  <2>2. 1 \in Nat
    OBVIOUS
  <2> QED
    BY <1>2, <1>3, <2>1, <2>2, OperatorsAre, ChainReads
<1> QED
  BY <1>3 DEF Reader

\* The expressions that end with a leaf.
LEMMA LeafOver ==
  ASSUME NEW m, NEW u, NEW n, n \in [kind : {"num"}, val : Int] \/ n \in Vars(m) \/ n \in [kind : {"neg"}, a : u]
  PROVE  n \in ExprOver(m, u)
  BY DEF ExprOver, ExprStep

LEMMA PrimaryReads ==
  ASSUME NEW unary, Reader(unary), NEW ps, Tidy(ps)
  PROVE  Reads(ps, Primary(unary, ps))
<1>1. CASE Sees(ps, {"num"})
  <2> DEFINE n == [kind |-> "num", val |-> Cur(ps).val]
             r == Node(ps, n)
             s == [r EXCEPT !.ps = Advance(r.ps)]
  <2>0. ~Sees(ps, {"ident"}) /\ ~Sees(ps, {"("})
    BY <1>1, SeesOne
  <2>1. Primary(unary, ps) = s
    BY <1>1, <2>0 DEF Primary
  <2>2. Cur(ps).val \in Int
    BY TidyIs, CurIs
  <2>3. n \in [kind : {"num"}, val : Int]
    BY <2>2
  <2>4. n \in ExprOver(Len(ps.syms), ExprTrees(Len(ps.syms))[ps.nodes - ps.nodes])
    BY <2>3, LeafOver
  <2> HIDE DEF n
  <2>5. Reads(ps, r)
    BY <2>4, ComesSelf, ReadsNode
  <2> HIDE DEF r
  <2>6. Keeps(r.ps, Advance(r.ps))
    BY <2>5, ReadsComes, AdvanceKeeps
  <2>7. Reads(ps, s)
    BY <2>5, <2>6, ReadsThen
  <2> QED
    BY <2>1, <2>7
<1>2. CASE Sees(ps, {"ident"}) /\ ~Sees(ps, {"num"}) /\ Lookup(ps, Cur(ps).text) = 0
  <2>0. ~Sees(ps, {"("})
    BY <1>2, SeesOne
  <2>1. Primary(unary, ps) = NoNode(ps, "undeclared")
    BY <1>2, <2>0 DEF Primary
  <2> QED
    BY <2>1, MessagesAre, ReadsNoNode
<1>3. CASE Sees(ps, {"ident"}) /\ ~Sees(ps, {"num"}) /\ Lookup(ps, Cur(ps).text) # 0
  <2> DEFINE x == Cur(ps).text
             n == Var(ps, x)
             qs == Advance(ps)
  <2>0. ~Sees(ps, {"("})
    BY <1>3, SeesOne
  <2>1. Primary(unary, ps) = Node(qs, n)
    BY <1>3, <2>0 DEF Primary
  <2>2. ps \in Parsers /\ x \in Idents
    BY TidyIs, CurIs
  <2>3. n \in Vars(Len(ps.syms))
    BY <1>3, <2>2, VarInVars
  <2>4. Keeps(ps, qs) /\ Comes(ps, qs)
    BY AdvanceKeeps, KeepsComes
  <2> HIDE DEF n, qs
  <2>5. n \in Vars(Len(qs.syms))
    BY <2>3, <2>4 DEF Keeps
  <2>6. n \in ExprOver(Len(qs.syms), ExprTrees(Len(qs.syms))[qs.nodes - ps.nodes])
    BY <2>5, LeafOver
  <2> QED
    BY <2>1, <2>4, <2>6, ReadsNode
<1>4. CASE Sees(ps, {"("}) /\ ~Sees(ps, {"num"}) /\ ~Sees(ps, {"ident"})
  <2> DEFINE qs == Advance(ps)
             r == Comparison(unary)[qs]
             s == [r EXCEPT !.ps = Expect(r.ps, ")")]
  <2>1. Primary(unary, ps) = s
    BY <1>4 DEF Primary
  <2>2. Keeps(ps, qs) /\ Tidy(qs)
    BY AdvanceKeeps, KeepsTidy
  <2> HIDE DEF qs
  <2>3. Reads(qs, r)
    BY <2>2, ComparisonReads, ReaderOne
  <2> HIDE DEF r
  <2>4. Reads(ps, r)
    BY <2>2, <2>3, ReadsFrom
  <2>5. Keeps(r.ps, Expect(r.ps, ")"))
    BY <2>4, ReadsComes, ExpectKeeps
  <2>6. Reads(ps, s)
    BY <2>4, <2>5, ReadsThen
  <2> QED
    BY <2>1, <2>6
<1>5. CASE ~Sees(ps, {"num"}) /\ ~Sees(ps, {"ident"}) /\ ~Sees(ps, {"("})
  <2>1. Primary(unary, ps) = NoNode(ps, "expected an expression")
    BY <1>5 DEF Primary
  <2> QED
    BY <2>1, MessagesAre, ReadsNoNode
<1> QED
  BY <1>1, <1>2, <1>3, <1>4, <1>5

LEMMA UnaryReads ==
  ASSUME NEW unary, Reader(unary), NEW ps, Tidy(ps)
  PROVE  Reads(ps, Unary(unary, ps))
<1>1. CASE Sees(ps, {"-"})
  <2> DEFINE qs == Advance(ps)
             r == unary[qs]
             n == Neg(r.n)
  <2>1. Unary(unary, ps) = Node(r.ps, n)
    BY <1>1 DEF Unary
  <2>2. Keeps(ps, qs) /\ Tidy(qs)
    BY AdvanceKeeps, KeepsTidy
  <2> HIDE DEF qs
  <2>3. Reads(qs, r)
    BY <2>2, ReaderOne
  <2> HIDE DEF r
  <2>4. Reads(ps, r) /\ Comes(ps, r.ps)
    BY <2>2, <2>3, ReadsFrom, ReadsComes
  <2>5. ASSUME NoError(r.ps)
        PROVE  n \in ExprOver(Len(r.ps.syms), ExprTrees(Len(r.ps.syms))[r.ps.nodes - ps.nodes])
    <3>1. IsExpr(ps, r)
      BY <2>4, <2>5 DEF Reads
    <3> DEFINE T == ExprTrees(Len(r.ps.syms))[r.ps.nodes - ps.nodes]
    <3>2. r.n \in T
      BY <3>1 DEF IsExpr
    <3> HIDE DEF T
    <3>3. n \in [kind : {"neg"}, a : T]
      BY <3>2 DEF Neg
    <3>4. n \in ExprOver(Len(r.ps.syms), T)
      BY <3>3, LeafOver
    <3> QED
      BY <3>4 DEF T
  <2> HIDE DEF n
  <2>6. Reads(ps, Node(r.ps, n))
    BY <2>4, <2>5, ReadsNode
  <2> QED
    BY <2>1, <2>6
<1>2. CASE ~Sees(ps, {"-"})
  <2>1. Unary(unary, ps) = Primary(unary, ps)
    BY <1>2 DEF Unary
  <2> QED
    BY <2>1, PrimaryReads
<1> QED
  BY <1>1, <1>2

\* Expressions whose parse nests j calls, from those of one call less.
UnaryStep(j, u) ==
  [ps \in Parsers |-> IF j = 0 THEN NoNode(ps, "too deep") ELSE Unary(u, ps)]

UnaryTables(n, u) == u = [j \in 0 .. n |-> UnaryStep(j, u[j - 1])]

LEMMA UnaryTableZero == ASSUME NEW x, NEW y PROVE UnaryStep(0, x) = UnaryStep(0, y)
  BY DEF UnaryStep

LEMMA UnaryTableMore ==
  ASSUME NEW n \in Nat, NEW q, UnaryTables(n, q)
  PROVE  \E u : UnaryTables(n + 1, u)
<1> DEFINE u == [j \in 0 .. n + 1 |-> IF j <= n THEN q[j] ELSE UnaryStep(n + 1, q[n])]
<1>1. \A j \in 0 .. n : q[j] = UnaryStep(j, q[j - 1])
  BY DEF UnaryTables
<1>2. \A j \in 0 .. n : u[j] = q[j]
  OBVIOUS
<1>3. u[n + 1] = UnaryStep(n + 1, q[n]) /\ u = [j \in 0 .. n + 1 |-> u[j]]
  OBVIOUS
<1> HIDE DEF u
<1>4. ASSUME NEW j \in 0 .. n + 1
      PROVE  u[j] = UnaryStep(j, u[j - 1])
  <2>1. CASE j = 0
    <3>1. 0 \in 0 .. n
      OBVIOUS
    <3>2. u[0] = UnaryStep(0, q[0 - 1])
      BY <1>1, <1>2, <3>1
    <3> QED
      BY <2>1, <3>2, UnaryTableZero
  <2>2. CASE j \in 1 .. n
    <3>1. j \in 0 .. n /\ j - 1 \in 0 .. n
      BY <2>2
    <3>2. u[j] = q[j] /\ u[j - 1] = q[j - 1]
      BY <1>2, <3>1
    <3> QED
      BY <1>1, <3>1, <3>2
  <2>3. CASE j = n + 1
    <3>1. n \in 0 .. n /\ (n + 1) - 1 = n
      OBVIOUS
    <3>2. u[n] = q[n]
      BY <1>2, <3>1
    <3> QED
      BY <1>3, <2>3, <3>1, <3>2
  <2> QED
    BY <2>1, <2>2, <2>3
<1>5. u = [j \in 0 .. n + 1 |-> UnaryStep(j, u[j - 1])]
  BY <1>3, <1>4
<1> QED
  BY <1>5 DEF UnaryTables

LEMMA UnaryTableExists == ASSUME NEW n \in Nat PROVE \E u : UnaryTables(n, u)
<1> DEFINE I == {j \in Nat : \E u : UnaryTables(j, u)}
<1>1. 0 \in I
  <2> DEFINE u == [j \in 0 .. 0 |-> UnaryStep(0, 0)]
  <2>1. \A j \in 0 .. 0 : j = 0
    OBVIOUS
  <2>2. \A j \in 0 .. 0 : UnaryStep(j, u[j - 1]) = UnaryStep(0, 0)
    BY <2>1, UnaryTableZero
  <2> DEFINE w == [j \in 0 .. 0 |-> UnaryStep(j, u[j - 1])]
  <2>3. u = w
    BY <2>2
  <2> HIDE DEF u
  <2>4. UnaryTables(0, u)
    BY <2>3 DEF UnaryTables
  <2> QED
    BY <2>4
<1>2. \A j \in 1 .. n : j - 1 \in I => j \in I
  <2> SUFFICES ASSUME NEW j \in 1 .. n, j - 1 \in I PROVE j \in I
    OBVIOUS
  <2>1. j - 1 \in Nat /\ (j - 1) + 1 = j /\ j \in Nat
    OBVIOUS
  <2>2. PICK q : UnaryTables(j - 1, q)
    OBVIOUS
  <2> HIDE DEF I
  <2>3. \E u : UnaryTables((j - 1) + 1, u)
    BY <2>1, <2>2, UnaryTableMore
  <2> QED
    BY <2>1, <2>3 DEF I
<1> HIDE DEF I
<1>3. Inductive(n, I)
  BY <1>1, <1>2 DEF Inductive
<1>4. n \in 0 .. n
  OBVIOUS
<1>5. n \in I
  BY <1>3, <1>4, Induction
<1> QED
  BY <1>5 DEF I

LEMMA UnaryTableIs ==
  ASSUME NEW d \in 0 .. MaxDepth
  PROVE  unaries[d] = UnaryStep(d, unaries[d - 1])
<1>1. MaxDepth \in Nat
  BY CompilerAssumption
<1>2. \E u : UnaryTables(MaxDepth, u)
  BY <1>1, UnaryTableExists
<1>3. unaries = CHOOSE u : UnaryTables(MaxDepth, u)
  BY DEF unaries, UnaryTables, UnaryStep
<1>4. UnaryTables(MaxDepth, unaries)
  BY <1>2, <1>3
<1> QED
  BY <1>4 DEF UnaryTables

LEMMA UnariesRead ==
  ASSUME NEW d \in 0 .. MaxDepth
  PROVE  Reader(unaries[d])
<1> DEFINE I == {j \in 0 .. MaxDepth : Reader(unaries[j])}
<1>1. MaxDepth \in Nat /\ 0 \in 0 .. MaxDepth
  BY CompilerAssumption
<1>2. 0 \in I
  <2>1. ASSUME NEW ps \in Parsers, Tidy(ps)
        PROVE  Reads(ps, unaries[0][ps])
    <3>1. unaries[0] = UnaryStep(0, unaries[0 - 1])
      BY <1>1, UnaryTableIs
    <3>2. unaries[0][ps] = NoNode(ps, "too deep")
      BY <3>1 DEF UnaryStep
    <3> QED
      BY <2>1, <3>2, MessagesAre, ReadsNoNode
  <2> QED
    BY <1>1, <2>1 DEF Reader
<1>3. ASSUME NEW j \in 1 .. MaxDepth, j - 1 \in I
      PROVE  j \in I
  <2>1. j \in 0 .. MaxDepth /\ j # 0
    OBVIOUS
  <2>2. Reader(unaries[j - 1])
    BY <1>3
  <2>3. ASSUME NEW ps \in Parsers, Tidy(ps)
        PROVE  Reads(ps, unaries[j][ps])
    <3>1. unaries[j] = UnaryStep(j, unaries[j - 1])
      BY <2>1, UnaryTableIs
    <3>2. unaries[j][ps] = Unary(unaries[j - 1], ps)
      BY <2>1, <3>1 DEF UnaryStep
    <3> QED
      BY <2>2, <2>3, <3>2, UnaryReads
  <2>4. Reader(unaries[j])
    BY <2>3 DEF Reader
  <2> QED
    BY <2>1, <2>4
<1> HIDE DEF I
<1>4. d \in I
  BY <1>1, <1>2, <1>3, Induction DEF Inductive
<1> QED
  BY <1>4 DEF I

LEMMA ExprReads ==
  ASSUME NEW ps, Tidy(ps)
  PROVE  Reads(ps, Expr(ps))
<1>1. MaxDepth \in 0 .. MaxDepth
  BY CompilerAssumption
<1>2. Reader(Comparison(unaries[MaxDepth]))
  BY <1>1, UnariesRead, ComparisonReads
<1> QED
  BY <1>2, ReaderOne DEF Expr

LEMMA ConditionReads ==
  ASSUME NEW ps, Tidy(ps)
  PROVE  Reads(ps, Condition(ps))
<1> DEFINE at == Advance(ps)
           qs == Expect(at, "(")
           r == Expr(qs)
           s == [r EXCEPT !.ps = Expect(r.ps, ")")]
<1>1. Condition(ps) = s
  BY DEF Condition
<1>2. Keeps(ps, at) /\ Tidy(at)
  BY AdvanceKeeps, KeepsTidy
<1> HIDE DEF at
<1>3. Keeps(at, qs) /\ Tidy(qs)
  BY <1>2, ExpectKeeps, KeepsTidy
<1> HIDE DEF qs
<1>4. Keeps(ps, qs)
  BY <1>2, <1>3, KeepsOn
<1>5. Reads(qs, r)
  BY <1>3, ExprReads
<1> HIDE DEF r
<1>6. Reads(ps, r)
  BY <1>4, <1>5, ReadsFrom
<1>7. Keeps(r.ps, Expect(r.ps, ")"))
  BY <1>6, ReadsComes, ExpectKeeps
<1>8. Reads(ps, s)
  BY <1>6, <1>7, ReadsThen
<1> QED
  BY <1>1, <1>8

-----------------------------------------------------------------------------
(* The parser of statements. *)

LEMMA StmtsDeep ==
  ASSUME NEW m \in Nat, NEW d \in 0 .. MaxNodes, NEW e \in 0 .. MaxNodes, d <= e
  PROVE  StmtTrees(m)[d] \subseteq StmtTrees(m)[e]
<1> DEFINE I == {j \in 0 .. MaxNodes : d <= j => StmtTrees(m)[d] \subseteq StmtTrees(m)[j]}
<1>1. MaxNodes \in Nat
  BY CompilerAssumption
<1>2. 0 \in I
  <2>1. CASE d = 0
    BY <1>1, <2>1
  <2>2. CASE d # 0
    BY <1>1, <2>2
  <2> QED
    BY <2>1, <2>2
<1>3. ASSUME NEW j \in 1 .. MaxNodes, j - 1 \in I
      PROVE  j \in I
  <2>1. j \in 0 .. MaxNodes
    OBVIOUS
  <2>2. CASE d <= j - 1
    <3>1. StmtTrees(m)[d] \subseteq StmtTrees(m)[j - 1]
      BY <1>3, <2>2
    <3>2. StmtTrees(m)[j - 1] \subseteq StmtTrees(m)[j]
      BY StmtsDeepen
    <3> QED
      BY <2>1, <3>1, <3>2
  <2>3. CASE ~(d <= j - 1)
    <3>1. d <= j => d = j
      BY <2>3
    <3> QED
      BY <2>1, <3>1
  <2> QED
    BY <2>2, <2>3
<1> HIDE DEF I
<1>4. e \in I
  BY <1>1, <1>2, <1>3, Induction DEF Inductive
<1> QED
  BY <1>4 DEF I

\* The statement over statements of u.
StmtOver(m, u) == StmtStep(m, 1, u)

LEMMA StmtsOver ==
  ASSUME NEW m, NEW d \in 0 .. MaxNodes, d + 1 <= MaxNodes
  PROVE  StmtTrees(m)[d + 1] = StmtOver(m, StmtTrees(m)[d])
<1> DEFINE e == d + 1
<1>1. e \in 0 .. MaxNodes /\ e - 1 = d /\ e # 0
  BY CompilerAssumption
<1> HIDE DEF e
<1>2. StmtTrees(m)[e] = StmtStep(m, e, StmtTrees(m)[d])
  BY <1>1, StmtTableIs
<1>3. StmtStep(m, e, StmtTrees(m)[d]) = StmtStep(m, 1, StmtTrees(m)[d])
  BY <1>1 DEF StmtStep
<1> QED
  BY <1>2, <1>3 DEF StmtOver, e

\* A statement without others in it.
LEMMA StmtAlone ==
  ASSUME NEW m \in Nat, NEW n \in StmtOver(m, {}), NEW u
  PROVE  n \in StmtOver(m, u)
<1>1. 1 \in Nat /\ m <= m /\ 1 # 0 /\ {} \subseteq u
  OBVIOUS
<1>2. StmtStep(m, 1, {}) \subseteq StmtStep(m, 1, u)
  BY <1>1, StmtStepGrows
<1> QED
  BY <1>2 DEF StmtOver

\* r has a statement that was read from ps on.
IsStmt(ps, r) == r.n \in StmtTrees(Len(r.ps.syms))[r.ps.nodes - ps.nodes]

StmtReads(ps, r) ==
  /\ Comes(ps, r.ps)
  /\ NoError(r.ps) => IsStmt(ps, r)

LEMMA StmtReadsTidy ==
  ASSUME NEW ps, NEW r, StmtReads(ps, r)
  PROVE  Comes(ps, r.ps) /\ Tidy(r.ps) /\ (NoError(r.ps) => NoError(ps) /\ IsStmt(ps, r))
  BY ComesTidy DEF StmtReads

\* An expression and a statement that were read on the way from ps to qs.
LEMMA ExprWithin ==
  ASSUME NEW ps, Tidy(ps), NEW r, Reads(ps, r), NEW qs, Comes(r.ps, qs), NoError(qs)
  PROVE  r.n \in ExprTrees(Len(qs.syms))[MaxNodes]
<1>1. Comes(ps, r.ps) /\ Tidy(r.ps) /\ NoError(r.ps)
  BY ReadsComes, ComesTidy
<1>2. IsExpr(ps, r)
  BY <1>1 DEF Reads
<1>3. r.n \in ExprTrees(Len(r.ps.syms))[MaxNodes]
  BY <1>1, <1>2, IsExprWhole
<1>4. Len(r.ps.syms) \in Nat /\ Len(qs.syms) \in Nat /\ Len(r.ps.syms) <= Len(qs.syms)
  BY <1>1, NodesBetween DEF Comes
<1>5. MaxNodes \in 0 .. MaxNodes
  BY CompilerAssumption
<1>6. ExprTrees(Len(r.ps.syms))[MaxNodes] \subseteq ExprTrees(Len(qs.syms))[MaxNodes]
  BY <1>4, <1>5, ExprsGrow
<1> QED
  BY <1>3, <1>6

LEMMA StmtsBetween ==
  ASSUME NEW ps, Tidy(ps), NEW qs, Comes(ps, qs), NEW rs, Comes(qs, rs), NEW ts, Comes(rs, ts)
  PROVE  StmtTrees(Len(rs.syms))[rs.nodes - qs.nodes] \subseteq StmtTrees(Len(ts.syms))[ts.nodes - ps.nodes]
<1> DEFINE k == Len(rs.syms)
           m == Len(ts.syms)
           a == rs.nodes - qs.nodes
           d == ts.nodes - ps.nodes
<1>1. Tidy(qs) /\ Tidy(rs) /\ Tidy(ts)
  BY ComesTidy
<1>2. Comes(ps, ts)
  BY ComesOn
<1>3. a \in 0 .. MaxNodes /\ d \in 0 .. MaxNodes /\ k \in Nat /\ m \in Nat
  BY <1>1, <1>2, NodesBetween
<1>4. /\ ps.nodes \in Int /\ qs.nodes \in Int /\ rs.nodes \in Int /\ ts.nodes \in Int
      /\ ps.nodes <= qs.nodes /\ rs.nodes <= ts.nodes /\ k <= m
  BY <1>1, TidyIs DEF Comes
<1>5. a <= d
  BY <1>4
<1> HIDE DEF k, m, a, d
<1>6. StmtTrees(k)[a] \subseteq StmtTrees(m)[a]
  BY <1>3, <1>4, StmtsGrow
<1>7. StmtTrees(m)[a] \subseteq StmtTrees(m)[d]
  BY <1>3, <1>5, StmtsDeep
<1> QED
  BY <1>6, <1>7 DEF k, m, a, d

LEMMA StmtWithin ==
  ASSUME NEW ps, Tidy(ps), NEW qs, Comes(ps, qs), NEW r, StmtReads(qs, r),
         NEW ts, Comes(r.ps, ts), NoError(ts)
  PROVE  r.n \in StmtTrees(Len(ts.syms))[ts.nodes - ps.nodes]
<1>1. Comes(qs, r.ps) /\ NoError(r.ps)
  BY StmtReadsTidy, ComesTidy
<1>2. r.n \in StmtTrees(Len(r.ps.syms))[r.ps.nodes - qs.nodes]
  BY <1>1 DEF StmtReads, IsStmt
<1>3. StmtTrees(Len(r.ps.syms))[r.ps.nodes - qs.nodes] \subseteq StmtTrees(Len(ts.syms))[ts.nodes - ps.nodes]
  BY <1>1, StmtsBetween
<1> QED
  BY <1>2, <1>3

\* A statement whose node is made last.
LEMMA StmtReadsNode ==
  ASSUME NEW ps, Tidy(ps), NEW qs, Comes(ps, qs), NEW n,
         NoError(qs) => n \in StmtOver(Len(qs.syms), StmtTrees(Len(qs.syms))[qs.nodes - ps.nodes])
  PROVE  StmtReads(ps, Node(qs, n))
<1> DEFINE r == Node(qs, n)
<1>1. Tidy(qs)
  BY ComesTidy
<1>2. /\ Comes(qs, r.ps)
      /\ NoError(r.ps) => r.n = n /\ r.ps.nodes = qs.nodes + 1 /\ r.ps.syms = qs.syms
  BY <1>1, NodeIs
<1> HIDE DEF r
<1>3. Comes(ps, r.ps)
  BY <1>2, ComesOn
<1>4. ASSUME NoError(r.ps)
      PROVE  IsStmt(ps, r)
  <2> DEFINE m == Len(qs.syms)
             d == qs.nodes - ps.nodes
  <2>1. r.n = n /\ r.ps.nodes = qs.nodes + 1 /\ Len(r.ps.syms) = m
    BY <1>2, <1>4
  <2>2. NoError(qs)
    BY <1>2, <1>4, ComesTidy
  <2>3. n \in StmtOver(m, StmtTrees(m)[d])
    BY <2>2
  <2>4. d \in 0 .. MaxNodes /\ r.ps.nodes - ps.nodes \in 0 .. MaxNodes
    BY <1>3, NodesBetween
  <2>5. qs.nodes \in Nat /\ ps.nodes \in Nat
    BY <1>1, TidyIs
  <2>6. r.ps.nodes - ps.nodes = d + 1
    BY <2>1, <2>5
  <2> HIDE DEF d, m
  <2>7. d + 1 <= MaxNodes
    BY <2>4, <2>6, CompilerAssumption
  <2>8. n \in StmtTrees(m)[d + 1]
    BY <2>3, <2>4, <2>7, StmtsOver
  <2> QED
    BY <2>1, <2>6, <2>8 DEF IsStmt
<1>5. StmtReads(ps, r)
  BY <1>3, <1>4 DEF StmtReads
<1> QED
  BY <1>5 DEF r

LEMMA StmtReadsNoNode ==
  ASSUME NEW ps, Tidy(ps), NEW qs, Comes(ps, qs), NEW msg \in Messages
  PROVE  StmtReads(ps, NoNode(qs, msg))
<1> DEFINE r == NoNode(qs, msg)
<1>1. Comes(qs, r.ps) /\ ~NoError(r.ps)
  BY ComesTidy, NoNodeIs
<1> HIDE DEF r
<1>2. Comes(ps, r.ps)
  BY <1>1, ComesOn
<1>3. StmtReads(ps, r)
  BY <1>1, <1>2 DEF StmtReads
<1> QED
  BY <1>3 DEF r

\* A statement that ends with an expression and a semicolon.
LEMMA SimpleReads ==
  ASSUME NEW ps, Tidy(ps), NEW r, Reads(ps, r), NEW n,
         NoError(r.ps) => n \in StmtOver(Len(r.ps.syms), {})
  PROVE  StmtReads(ps, Simple(r, n))
<1> DEFINE qs == Expect(r.ps, ";")
<1>1. Comes(ps, r.ps) /\ Tidy(r.ps)
  BY ReadsComes
<1>2. Keeps(r.ps, qs) /\ Tidy(qs) /\ Comes(r.ps, qs)
  BY <1>1, ExpectKeeps, KeepsTidy, KeepsComes
<1>3. Simple(r, n) = Node(qs, n)
  BY DEF Simple
<1> HIDE DEF qs
<1>4. Comes(ps, qs)
  BY <1>1, <1>2, ComesOn
<1>5. ASSUME NoError(qs)
      PROVE  n \in StmtOver(Len(qs.syms), StmtTrees(Len(qs.syms))[qs.nodes - ps.nodes])
  <2>1. NoError(r.ps) /\ qs.syms = r.ps.syms
    BY <1>2, <1>5 DEF Keeps
  <2>2. n \in StmtOver(Len(qs.syms), {})
    BY <2>1
  <2>3. Len(qs.syms) \in Nat
    BY <1>2, TidyIs
  <2> QED
    BY <2>2, <2>3, StmtAlone
<1> QED
  BY <1>3, <1>4, <1>5, StmtReadsNode

\* The statements that SimpleReads is for.
LEMMA SimpleOver ==
  ASSUME NEW m, NEW n,
         \/ n \in [kind : {"decl"}, v : Vars(m), a : ExprTrees(m)[MaxNodes] \cup {Nothing}]
         \/ n \in [kind : {"assign"}, v : Vars(m), a : ExprTrees(m)[MaxNodes]]
         \/ n \in [kind : {"print", "return"}, a : ExprTrees(m)[MaxNodes]]
  PROVE  n \in StmtOver(m, {})
  BY DEF StmtOver, StmtStep

LEMMA ReadsExprTree ==
  ASSUME NEW ps, Tidy(ps), NEW r, Reads(ps, r), NoError(r.ps)
  PROVE  r.n \in ExprTrees(Len(r.ps.syms))[MaxNodes]
  BY ReadsComes, ComesSelf, ExprWithin

LEMMA PrintReads ==
  ASSUME NEW ps, Tidy(ps), NEW r, Reads(ps, r), NEW kind \in {"print", "return"}
  PROVE  StmtReads(ps, Simple(r, [kind |-> kind, a |-> r.n]))
<1> DEFINE n == [kind |-> kind, a |-> r.n]
<1>1. ASSUME NoError(r.ps)
      PROVE  n \in StmtOver(Len(r.ps.syms), {})
  <2> DEFINE X == ExprTrees(Len(r.ps.syms))[MaxNodes]
  <2>1. r.n \in X
    BY <1>1, ReadsExprTree
  <2> HIDE DEF X
  <2>2. n \in [kind : {"print", "return"}, a : X]
    BY <2>1
  <2> QED
    BY <2>2, SimpleOver DEF X
<1> HIDE DEF n
<1>2. StmtReads(ps, Simple(r, n))
  BY <1>1, SimpleReads
<1> QED
  BY <1>2 DEF n

LEMMA AssignReads ==
  ASSUME NEW ps, Tidy(ps)
  PROVE  StmtReads(ps, AssignStmt(ps))
<1> DEFINE x == Cur(ps).text
           at == Advance(ps)
           qs == Expect(at, "=")
           r == Expr(qs)
           n == [kind |-> "assign", v |-> Var(ps, x), a |-> r.n]
<1>1. AssignStmt(ps) = IF Lookup(ps, x) = 0 THEN NoNode(at, "undeclared") ELSE Simple(r, n)
  BY DEF AssignStmt
<1>2. Keeps(ps, at) /\ Tidy(at) /\ Comes(ps, at)
  BY AdvanceKeeps, KeepsTidy, KeepsComes
<1>3. ps \in Parsers /\ x \in Idents
  BY TidyIs, CurIs
<1> HIDE DEF at, x
<1>4. Keeps(ps, qs) /\ Tidy(qs)
  <2>1. Keeps(at, qs) /\ Tidy(qs)
    BY <1>2, ExpectKeeps, KeepsTidy
  <2> HIDE DEF qs
  <2> QED
    BY <1>2, <2>1, KeepsOn
<1> HIDE DEF qs
<1>5. Reads(ps, r)
  BY <1>4, ExprReads, ReadsFrom
<1> HIDE DEF r
<1>6. CASE Lookup(ps, x) = 0
  <2>1. StmtReads(ps, NoNode(at, "undeclared"))
    BY <1>2, MessagesAre, StmtReadsNoNode
  <2> QED
    BY <1>1, <1>6, <2>1
<1>7. CASE Lookup(ps, x) # 0
  <2>1. ASSUME NoError(r.ps)
        PROVE  n \in StmtOver(Len(r.ps.syms), {})
    <3> DEFINE m == Len(r.ps.syms)
               X == ExprTrees(m)[MaxNodes]
    <3>1. r.n \in X
      BY <1>5, <2>1, ReadsExprTree
    <3>2. Var(ps, x) \in Vars(Len(ps.syms))
      BY <1>3, <1>7, VarInVars
    <3>3. Comes(ps, r.ps)
      BY <1>5, ReadsComes
    <3>4. Len(ps.syms) \in Nat /\ m \in Nat /\ Len(ps.syms) <= m
      BY <3>3, TidyIs, NodesBetween DEF Comes
    <3> HIDE DEF m, X
    <3>5. Var(ps, x) \in Vars(m)
      BY <3>2, <3>4, VarsGrow
    <3>6. n \in [kind : {"assign"}, v : Vars(m), a : X]
      BY <3>1, <3>5
    <3> QED
      BY <3>6, SimpleOver DEF X, m
  <2> HIDE DEF n
  <2>2. StmtReads(ps, Simple(r, n))
    BY <1>5, <2>1, SimpleReads
  <2> QED
    BY <1>1, <1>7, <2>2
<1> QED
  BY <1>6, <1>7

\* The value that a declaration begins with, where room is left for its node.
LEMMA InitReads ==
  ASSUME NEW room, Tidy(room.ps), NoError(room.ps) => room.n = Nothing,
         NEW init, init = IF Sees(room.ps, {"="}) THEN Expr(Advance(room.ps)) ELSE room
  PROVE  /\ Comes(room.ps, init.ps)
         /\ NoError(init.ps) => init.n = Nothing \/ init.n \in ExprTrees(Len(init.ps.syms))[MaxNodes]
<1>1. CASE ~Sees(room.ps, {"="})
  BY <1>1, ComesSelf
<1>2. CASE Sees(room.ps, {"="})
  <2> DEFINE ps == room.ps
             qs == Advance(ps)
  <2>1. init = Expr(qs)
    BY <1>2
  <2>2. Tidy(ps) /\ Keeps(ps, qs) /\ Tidy(qs)
    BY AdvanceKeeps, KeepsTidy
  <2> HIDE DEF qs, ps
  <2>3. Reads(ps, init)
    BY <2>1, <2>2, ExprReads, ReadsFrom
  <2>4. Comes(ps, init.ps)
    BY <2>3, ReadsComes
  <2>5. NoError(init.ps) => init.n \in ExprTrees(Len(init.ps.syms))[MaxNodes]
    BY <2>2, <2>3, ReadsExprTree
  <2> QED
    BY <2>4, <2>5 DEF ps
<1> QED
  BY <1>1, <1>2

LEMMA DeclReads ==
  ASSUME NEW ps, Tidy(ps)
  PROVE  StmtReads(ps, DeclStmt(ps))
<1> DEFINE at == Advance(ps)
           x == Cur(at).text
           named == Advance(at)
           declared == Declare(named, x)
           room == Node(declared, Nothing)
           init == IF Sees(room.ps, {"="}) THEN Expr(Advance(room.ps)) ELSE room
           qs == Expect(init.ps, ";")
           n == [kind |-> "decl", v |-> Var(declared, x), a |-> init.n]
           r == [ps |-> qs, n |-> n]
<1>1. DeclStmt(ps) = IF ~Sees(at, {"ident"}) THEN NoNode(at, "expected a name") ELSE r
  BY DEF DeclStmt
<1>2. Keeps(ps, at) /\ Tidy(at) /\ Comes(ps, at)
  BY AdvanceKeeps, KeepsTidy, KeepsComes
<1>3. x \in Idents
  BY <1>2, TidyIs, CurIs
<1> HIDE DEF at, x
<1>4. Keeps(at, named) /\ Tidy(named)
  BY <1>2, AdvanceKeeps, KeepsTidy
<1> HIDE DEF named
<1>5. Keeps(ps, named) /\ Comes(ps, named)
  BY <1>2, <1>4, KeepsOn, KeepsComes
<1>6. /\ Comes(named, declared) /\ declared.nodes = named.nodes
      /\ NoError(declared) => Lookup(declared, x) # 0
  BY <1>3, <1>4, DeclareIs
<1> HIDE DEF declared
<1>7. Comes(ps, declared) /\ Tidy(declared) /\ declared \in Parsers
  BY <1>5, <1>6, ComesOn, ComesTidy
<1>8. /\ Comes(declared, room.ps)
      /\ NoError(room.ps) => room.n = Nothing /\ room.ps.nodes = declared.nodes + 1
  BY <1>7, NodeIs
<1> HIDE DEF room
<1>9. /\ Comes(room.ps, init.ps)
      /\ NoError(init.ps) => init.n = Nothing \/ init.n \in ExprTrees(Len(init.ps.syms))[MaxNodes]
  BY <1>8, ComesTidy, InitReads
<1> HIDE DEF init
<1>10. Keeps(init.ps, qs) /\ Comes(init.ps, qs)
  BY <1>9, ComesTidy, ExpectKeeps, KeepsComes
<1> HIDE DEF qs
<1>11. Comes(declared, init.ps) /\ Tidy(init.ps)
  BY <1>7, <1>8, <1>9, ComesOn, ComesTidy
<1>12. Comes(declared, qs) /\ Comes(room.ps, qs)
  BY <1>7, <1>8, <1>9, <1>10, <1>11, ComesOn, ComesTidy
<1>13. Comes(ps, qs)
  BY <1>7, <1>12, ComesOn
<1>14. ASSUME NoError(qs)
       PROVE  n \in StmtTrees(Len(qs.syms))[qs.nodes - ps.nodes]
  <2> DEFINE m == Len(qs.syms)
             X == ExprTrees(m)[MaxNodes]
             e == qs.nodes - ps.nodes
  <2>1. NoError(init.ps) /\ NoError(room.ps) /\ NoError(declared) /\ qs.syms = init.ps.syms
    BY <1>10, <1>12, <1>14, ComesTidy DEF Keeps
  <2>2. init.n \in X \cup {Nothing}
    BY <1>9, <2>1
  <2>3. Var(declared, x) \in Vars(Len(declared.syms))
    BY <1>3, <1>6, <1>7, <2>1, VarInVars
  <2>4. Len(declared.syms) \in Nat /\ m \in Nat /\ Len(declared.syms) <= m
    BY <1>7, <1>12, TidyIs, NodesBetween DEF Comes
  <2>5. /\ ps.nodes \in Nat /\ declared.nodes = ps.nodes /\ room.ps.nodes = declared.nodes + 1
        /\ room.ps.nodes <= qs.nodes /\ qs.nodes \in Nat
    BY <1>5, <1>6, <1>8, <1>12, <2>1, TidyIs, ComesTidy DEF Keeps, Comes
  <2>6. e \in 0 .. MaxNodes
    BY <1>13, NodesBetween
  <2>7. e >= 1
    BY <2>5
  <2> HIDE DEF m, X, e
  <2>8. Var(declared, x) \in Vars(m)
    BY <2>3, <2>4, VarsGrow
  <2>9. n \in [kind : {"decl"}, v : Vars(m), a : X \cup {Nothing}]
    BY <2>2, <2>8
  <2> HIDE DEF n
  <2>10. n \in StmtOver(m, {})
    BY <2>9, SimpleOver DEF X
  <2> DEFINE d == e - 1
  <2>11. d \in 0 .. MaxNodes /\ d + 1 <= MaxNodes /\ d + 1 = e
    BY <2>6, <2>7, CompilerAssumption
  <2> HIDE DEF d
  <2>12. n \in StmtOver(m, StmtTrees(m)[d])
    BY <2>4, <2>10, StmtAlone
  <2>13. n \in StmtTrees(m)[e]
    BY <2>11, <2>12, StmtsOver
  <2> QED
    BY <2>13 DEF m, e
<1> HIDE DEF n
<1>15. r.ps = qs /\ r.n = n
  OBVIOUS
<1> HIDE DEF r
<1>16. StmtReads(ps, r)
  BY <1>13, <1>14, <1>15 DEF StmtReads, IsStmt
<1>17. StmtReads(ps, NoNode(at, "expected a name"))
  BY <1>2, MessagesAre, StmtReadsNoNode
<1> QED
  BY <1>1, <1>16, <1>17

\* A function that reads statements.
StmtReader(f) == \A ps \in Parsers : Tidy(ps) => StmtReads(ps, f[ps])

LEMMA StmtReaderOne ==
  ASSUME NEW f, StmtReader(f), NEW ps, Tidy(ps)
  PROVE  StmtReads(ps, f[ps])
  BY TidyIs DEF StmtReader

LEMMA IfReads ==
  ASSUME NEW stmt, StmtReader(stmt), NEW ps, Tidy(ps)
  PROVE  StmtReads(ps, IfStmt(stmt, ps))
<1> DEFINE cond == Condition(ps)
           then == stmt[cond.ps]
           else == IF Sees(then.ps, {"else"}) THEN stmt[Advance(then.ps)]
                   ELSE [ps |-> then.ps, n |-> Nothing]
           n == [kind |-> "if", a |-> cond.n, b |-> then.n, c |-> else.n]
<1>1. IfStmt(stmt, ps) = Node(else.ps, n)
  BY DEF IfStmt
<1>2. Reads(ps, cond)
  BY ConditionReads
<1> HIDE DEF cond
<1>3. Comes(ps, cond.ps) /\ Tidy(cond.ps)
  BY <1>2, ReadsComes
<1>4. StmtReads(cond.ps, then)
  BY <1>3, StmtReaderOne
<1> HIDE DEF then
<1>5. Comes(cond.ps, then.ps) /\ Tidy(then.ps)
  BY <1>4, StmtReadsTidy
<1>6. Comes(ps, then.ps)
  BY <1>3, <1>5, ComesOn
<1>7. Comes(then.ps, else.ps) /\ (else.n = Nothing \/ StmtReads(then.ps, else))
  <2>1. CASE Sees(then.ps, {"else"})
    <3> DEFINE at == Advance(then.ps)
    <3>1. Keeps(then.ps, at) /\ Tidy(at)
      BY <1>5, AdvanceKeeps, KeepsTidy
    <3>2. else = stmt[at]
      BY <2>1
    <3> HIDE DEF at, else
    <3>3. StmtReads(at, else)
      BY <3>1, <3>2, StmtReaderOne
    <3>4. Comes(then.ps, at) /\ Comes(at, else.ps)
      BY <1>5, <3>1, <3>3, KeepsComes, StmtReadsTidy
    <3>5. Comes(then.ps, else.ps)
      BY <1>5, <3>4, ComesOn
    <3>6. at.nodes = then.ps.nodes
      BY <3>1 DEF Keeps
    <3>7. StmtReads(then.ps, else)
      BY <3>3, <3>5, <3>6 DEF StmtReads, IsStmt
    <3> QED
      BY <3>5, <3>7
  <2>2. CASE ~Sees(then.ps, {"else"})
    <3>1. else.ps = then.ps /\ else.n = Nothing
      BY <2>2
    <3> HIDE DEF else
    <3> QED
      BY <1>5, <3>1, ComesSelf
  <2> QED
    BY <2>1, <2>2
<1> HIDE DEF else
<1>8. Comes(ps, else.ps) /\ Tidy(else.ps) /\ Comes(else.ps, else.ps)
  BY <1>6, <1>7, ComesOn, ComesTidy, ComesSelf
<1>9. ASSUME NoError(else.ps)
      PROVE  n \in StmtOver(Len(else.ps.syms), StmtTrees(Len(else.ps.syms))[else.ps.nodes - ps.nodes])
  <2> DEFINE m == Len(else.ps.syms)
             X == ExprTrees(m)[MaxNodes]
             T == StmtTrees(m)[else.ps.nodes - ps.nodes]
  <2>1. cond.n \in X
    <3>1. Comes(cond.ps, else.ps)
      BY <1>3, <1>5, <1>7, ComesOn
    <3> QED
      BY <1>2, <1>9, <3>1, ExprWithin
  <2>2. then.n \in T
    BY <1>3, <1>4, <1>7, <1>9, StmtWithin
  <2>3. else.n = Nothing \/ else.n \in T
    BY <1>6, <1>7, <1>8, <1>9, StmtWithin
  <2> HIDE DEF X, T
  <2>4. n \in [kind : {"if"}, a : X, b : T, c : T \cup {Nothing}]
    BY <2>1, <2>2, <2>3
  <2>5. n \in StmtOver(m, T)
    BY <2>4 DEF StmtOver, StmtStep, X
  <2> QED
    BY <2>5 DEF T
<1> HIDE DEF n
<1>10. StmtReads(ps, Node(else.ps, n))
  BY <1>8, <1>9, StmtReadsNode
<1> QED
  BY <1>1, <1>10

LEMMA WhileReads ==
  ASSUME NEW stmt, StmtReader(stmt), NEW ps, Tidy(ps)
  PROVE  StmtReads(ps, WhileStmt(stmt, ps))
<1> DEFINE cond == Condition(ps)
           body == stmt[cond.ps]
           n == [kind |-> "while", a |-> cond.n, b |-> body.n]
<1>1. WhileStmt(stmt, ps) = Node(body.ps, n)
  BY DEF WhileStmt
<1>2. Reads(ps, cond)
  BY ConditionReads
<1> HIDE DEF cond
<1>3. Comes(ps, cond.ps) /\ Tidy(cond.ps)
  BY <1>2, ReadsComes
<1>4. StmtReads(cond.ps, body)
  BY <1>3, StmtReaderOne
<1> HIDE DEF body
<1>5. Comes(cond.ps, body.ps) /\ Tidy(body.ps) /\ Comes(body.ps, body.ps)
  BY <1>4, StmtReadsTidy, ComesSelf
<1>6. Comes(ps, body.ps)
  BY <1>3, <1>5, ComesOn
<1>7. ASSUME NoError(body.ps)
      PROVE  n \in StmtOver(Len(body.ps.syms), StmtTrees(Len(body.ps.syms))[body.ps.nodes - ps.nodes])
  <2> DEFINE m == Len(body.ps.syms)
             X == ExprTrees(m)[MaxNodes]
             T == StmtTrees(m)[body.ps.nodes - ps.nodes]
  <2>1. cond.n \in X
    BY <1>2, <1>5, <1>7, ExprWithin
  <2>2. body.n \in T
    BY <1>3, <1>4, <1>5, <1>7, StmtWithin
  <2> HIDE DEF X, T
  <2>3. n \in [kind : {"while"}, a : X, b : T]
    BY <2>1, <2>2
  <2>4. n \in StmtOver(m, T)
    BY <2>3 DEF StmtOver, StmtStep, X
  <2> QED
    BY <2>4 DEF T
<1> HIDE DEF n
<1>8. StmtReads(ps, Node(body.ps, n))
  BY <1>6, <1>7, StmtReadsNode
<1> QED
  BY <1>1, <1>8

Lists == [ps : Parsers, n : Seq(StmtTrees(MaxNodes)[MaxNodes])]

\* A statement more, if there was no error.
Joined(done, s) == [ps |-> s.ps, n |-> IF NoError(s.ps) THEN Append(done.n, s.n) ELSE done.n]

\* Where a block ends for the parser.
Ends(ps) == ~NoError(ps) \/ Sees(ps, {"}", "eof"})

\* Up to j more statements, from what up to one less are.
ListStep(stmt, j, u) ==
  [done \in Lists |->
     LET s == stmt[done.ps]
     IN  IF j = 0 \/ done.ps.err # "" \/ Sees(done.ps, {"}", "eof"}) THEN done
         ELSE u[[ps |-> s.ps, n |-> IF s.ps.err = "" THEN Append(done.n, s.n) ELSE done.n]]]

ListTables(stmt, n, u) == u = [j \in 0 .. n |-> ListStep(stmt, j, u[j - 1])]

LEMMA ListTableZero == ASSUME NEW stmt, NEW x, NEW y PROVE ListStep(stmt, 0, x) = ListStep(stmt, 0, y)
  BY DEF ListStep

LEMMA ListTableMore ==
  ASSUME NEW stmt, NEW n \in Nat, NEW q, ListTables(stmt, n, q)
  PROVE  \E u : ListTables(stmt, n + 1, u)
<1> DEFINE u == [j \in 0 .. n + 1 |-> IF j <= n THEN q[j] ELSE ListStep(stmt, n + 1, q[n])]
<1>1. \A j \in 0 .. n : q[j] = ListStep(stmt, j, q[j - 1])
  BY DEF ListTables
<1>2. \A j \in 0 .. n : u[j] = q[j]
  OBVIOUS
<1>3. u[n + 1] = ListStep(stmt, n + 1, q[n]) /\ u = [j \in 0 .. n + 1 |-> u[j]]
  OBVIOUS
<1> HIDE DEF u
<1>4. ASSUME NEW j \in 0 .. n + 1
      PROVE  u[j] = ListStep(stmt, j, u[j - 1])
  <2>1. CASE j = 0
    <3>1. 0 \in 0 .. n
      OBVIOUS
    <3>2. u[0] = ListStep(stmt, 0, q[0 - 1])
      BY <1>1, <1>2, <3>1
    <3> QED
      BY <2>1, <3>2, ListTableZero
  <2>2. CASE j \in 1 .. n
    <3>1. j \in 0 .. n /\ j - 1 \in 0 .. n
      BY <2>2
    <3>2. u[j] = q[j] /\ u[j - 1] = q[j - 1]
      BY <1>2, <3>1
    <3> QED
      BY <1>1, <3>1, <3>2
  <2>3. CASE j = n + 1
    <3>1. n \in 0 .. n /\ (n + 1) - 1 = n
      OBVIOUS
    <3>2. u[n] = q[n]
      BY <1>2, <3>1
    <3> QED
      BY <1>3, <2>3, <3>1, <3>2
  <2> QED
    BY <2>1, <2>2, <2>3
<1>5. u = [j \in 0 .. n + 1 |-> ListStep(stmt, j, u[j - 1])]
  BY <1>3, <1>4
<1> QED
  BY <1>5 DEF ListTables

LEMMA ListTableExists == ASSUME NEW stmt, NEW n \in Nat PROVE \E u : ListTables(stmt, n, u)
<1> DEFINE I == {j \in Nat : \E u : ListTables(stmt, j, u)}
<1>1. 0 \in I
  <2> DEFINE u == [j \in 0 .. 0 |-> ListStep(stmt, 0, 0)]
  <2>1. \A j \in 0 .. 0 : j = 0
    OBVIOUS
  <2>2. \A j \in 0 .. 0 : ListStep(stmt, j, u[j - 1]) = ListStep(stmt, 0, 0)
    BY <2>1, ListTableZero
  <2> DEFINE w == [j \in 0 .. 0 |-> ListStep(stmt, j, u[j - 1])]
  <2>3. u = w
    BY <2>2
  <2> HIDE DEF u
  <2>4. ListTables(stmt, 0, u)
    BY <2>3 DEF ListTables
  <2> QED
    BY <2>4
<1>2. \A j \in 1 .. n : j - 1 \in I => j \in I
  <2> SUFFICES ASSUME NEW j \in 1 .. n, j - 1 \in I PROVE j \in I
    OBVIOUS
  <2>1. j - 1 \in Nat /\ (j - 1) + 1 = j /\ j \in Nat
    OBVIOUS
  <2>2. PICK q : ListTables(stmt, j - 1, q)
    OBVIOUS
  <2> HIDE DEF I
  <2>3. \E u : ListTables(stmt, (j - 1) + 1, u)
    BY <2>1, <2>2, ListTableMore
  <2> QED
    BY <2>1, <2>3 DEF I
<1> HIDE DEF I
<1>3. Inductive(n, I)
  BY <1>1, <1>2 DEF Inductive
<1>4. n \in 0 .. n
  OBVIOUS
<1>5. n \in I
  BY <1>3, <1>4, Induction
<1> QED
  BY <1>5 DEF I

\* The statements of a block from the state ps on.
Lines(stmt, n) == CHOOSE u : ListTables(stmt, n, u)

LEMMA ListStepIs ==
  ASSUME NEW stmt, NEW j, NEW u, NEW done \in Lists
  PROVE  ListStep(stmt, j, u)[done] =
           IF j = 0 \/ Ends(done.ps) THEN done ELSE u[Joined(done, stmt[done.ps])]
  BY DEF ListStep, Ends, Joined, NoError

LEMMA StmtsIs ==
  ASSUME NEW stmt, NEW ps, NEW n \in Nat, n = Len(ps.toks)
  PROVE  /\ Stmts(stmt, ps) = Lines(stmt, n)[n][[ps |-> ps, n |-> <<>>]]
         /\ \A j \in 0 .. n : Lines(stmt, n)[j] = ListStep(stmt, j, Lines(stmt, n)[j - 1])
<1>1. Stmts(stmt, ps) = Lines(stmt, Len(ps.toks))[Len(ps.toks)][[ps |-> ps, n |-> <<>>]]
  BY DEF Stmts, Lines, ListTables, ListStep, Lists
<1>2. \E u : ListTables(stmt, n, u)
  BY ListTableExists
<1> DEFINE f == Lines(stmt, n)
<1>3. ListTables(stmt, n, f)
  BY <1>2 DEF Lines
<1> HIDE DEF f
<1>4. f = [j \in 0 .. n |-> ListStep(stmt, j, f[j - 1])]
  BY <1>3 DEF ListTables
<1>5. \A j \in 0 .. n : f[j] = ListStep(stmt, j, f[j - 1])
  BY <1>4
<1> QED
  BY <1>1, <1>5 DEF f

\* Statements that were read from ps on.
ListReads(ps, done) ==
  /\ done \in Lists
  /\ Comes(ps, done.ps)
  /\ NoError(done.ps) => done.n \in Seq(StmtTrees(Len(done.ps.syms))[done.ps.nodes - ps.nodes])

LEMMA ListReadsComes ==
  ASSUME NEW ps, NEW done, ListReads(ps, done)
  PROVE  Comes(ps, done.ps) /\ Tidy(done.ps) /\ done \in Lists
  BY ComesTidy DEF ListReads

LEMMA ListReadsIs ==
  ASSUME NEW ps, Tidy(ps), NEW done, done = [ps |-> done.ps, n |-> done.n], Comes(ps, done.ps),
         NoError(done.ps) => done.n \in Seq(StmtTrees(Len(done.ps.syms))[done.ps.nodes - ps.nodes]),
         NoError(done.ps) \/ done.n \in Seq(StmtTrees(MaxNodes)[MaxNodes])
  PROVE  ListReads(ps, done)
<1> DEFINE m == Len(done.ps.syms)
           d == done.ps.nodes - ps.nodes
           W == StmtTrees(MaxNodes)[MaxNodes]
           qs == done.ps
           n == done.n
<1>1. d \in 0 .. MaxNodes /\ m \in Nat /\ m <= MaxNodes
  BY NodesBetween
<1>2. MaxNodes \in Nat /\ MaxNodes \in 0 .. MaxNodes
  BY CompilerAssumption
<1>3. NoError(qs) => n \in Seq(StmtTrees(m)[d])
  OBVIOUS
<1>4. done = [ps |-> qs, n |-> n] /\ (NoError(qs) \/ n \in Seq(W)) /\ qs \in Parsers
  BY ComesTidy
<1> HIDE DEF m, d, qs, n
<1>5. d <= MaxNodes
  BY <1>1, <1>2
<1>6. StmtTrees(m)[d] \subseteq StmtTrees(MaxNodes)[d]
  BY <1>1, <1>2, StmtsGrow
<1>7. StmtTrees(MaxNodes)[d] \subseteq W
  BY <1>1, <1>2, <1>5, StmtsDeep
<1>8. Seq(StmtTrees(m)[d]) \subseteq Seq(W)
  BY <1>6, <1>7, SeqGrows
<1> HIDE DEF W
<1>9. n \in Seq(W)
  BY <1>3, <1>4, <1>8
<1>10. done \in [ps : Parsers, n : Seq(W)]
  BY <1>4, <1>9
<1> QED
  BY <1>10 DEF ListReads, Lists, W

LEMMA JoinedReads ==
  ASSUME NEW ps, Tidy(ps), NEW done, ListReads(ps, done), NEW s, StmtReads(done.ps, s)
  PROVE  ListReads(ps, Joined(done, s))
<1> DEFINE next == Joined(done, s)
           n == IF NoError(s.ps) THEN Append(done.n, s.n) ELSE done.n
<1>1. Comes(ps, done.ps) /\ Tidy(done.ps) /\ done \in Lists
  BY ListReadsComes
<1>2. Comes(done.ps, s.ps) /\ Tidy(s.ps) /\ Comes(s.ps, s.ps)
  BY StmtReadsTidy, ComesSelf
<1>3. Comes(ps, s.ps)
  BY <1>1, <1>2, ComesOn
<1>4. done.n \in Seq(StmtTrees(MaxNodes)[MaxNodes])
  BY <1>1 DEF Lists
<1>5. next = [ps |-> s.ps, n |-> n]
  BY DEF Joined
<1>6. ASSUME NoError(s.ps)
      PROVE  n \in Seq(StmtTrees(Len(s.ps.syms))[s.ps.nodes - ps.nodes])
  <2> DEFINE T == StmtTrees(Len(s.ps.syms))[s.ps.nodes - ps.nodes]
             U == StmtTrees(Len(done.ps.syms))[done.ps.nodes - ps.nodes]
  <2>1. s.n \in T
    BY <1>1, <1>2, <1>6, StmtWithin
  <2>2. done.n \in Seq(U)
    BY <1>2, <1>6, ComesTidy DEF ListReads
  <2>3. U \subseteq T
    BY <1>1, <1>2, ComesSelf, StmtsBetween
  <2> HIDE DEF T, U
  <2>4. done.n \in Seq(T)
    BY <2>2, <2>3, SeqGrows
  <2>5. Append(done.n, s.n) \in Seq(T)
    BY <2>1, <2>4
  <2>6. n \in Seq(T)
    BY <1>6, <2>5
  <2> QED
    BY <2>6 DEF T
<1>7. ~NoError(s.ps) => n = done.n
  OBVIOUS
<1> HIDE DEF next, n
<1>8. next.ps = s.ps /\ next.n = n /\ next = [ps |-> next.ps, n |-> next.n]
  BY <1>5
<1>9. NoError(next.ps) => next.n \in Seq(StmtTrees(Len(next.ps.syms))[next.ps.nodes - ps.nodes])
  BY <1>6, <1>8
<1>10. NoError(next.ps) \/ next.n \in Seq(StmtTrees(MaxNodes)[MaxNodes])
  BY <1>4, <1>7, <1>8
<1>11. Comes(ps, next.ps)
  BY <1>3, <1>8
<1>12. ListReads(ps, next)
  BY <1>8, <1>9, <1>10, <1>11, ListReadsIs
<1> QED
  BY <1>12 DEF next

LEMMA StmtsRead ==
  ASSUME NEW stmt, StmtReader(stmt), NEW ps, Tidy(ps)
  PROVE  ListReads(ps, Stmts(stmt, ps))
<1> DEFINE N == Len(ps.toks)
           f == Lines(stmt, N)
           I == {j \in 0 .. N : \A done : ListReads(ps, done) => ListReads(ps, f[j][done])}
           none == [ps |-> ps, n |-> <<>>]
<1>1. N \in Nat
  BY TidyIs
<1>2. Stmts(stmt, ps) = f[N][none]
  BY <1>1, StmtsIs
<1>3. \A j \in 0 .. N : f[j] = ListStep(stmt, j, f[j - 1])
  BY <1>1, StmtsIs
<1>4. ListReads(ps, none)
  <2>1. none = [ps |-> none.ps, n |-> none.n] /\ none.ps = ps /\ none.n = <<>>
    OBVIOUS
  <2> HIDE DEF none
  <2>2. \A T : <<>> \in Seq(T)
    OBVIOUS
  <2>3. Comes(ps, none.ps)
    BY <2>1, ComesSelf
  <2> QED
    BY <2>1, <2>2, <2>3, ListReadsIs
<1> HIDE DEF f, none, N
<1>5. ASSUME NEW j \in 0 .. N, NEW done, ListReads(ps, done), j = 0 \/ Ends(done.ps)
      PROVE  ListReads(ps, f[j][done])
  <2>1. done \in Lists
    BY <1>5, ListReadsComes
  <2>2. ListStep(stmt, j, f[j - 1])[done] = done
    BY <1>5, <2>1, ListStepIs
  <2> QED
    BY <1>3, <1>5, <2>2
<1>6. 0 \in I
  <2>1. 0 \in 0 .. N
    BY <1>1
  <2> QED
    BY <1>5, <2>1
<1>7. ASSUME NEW j \in 1 .. N, j - 1 \in I
      PROVE  j \in I
  <2>1. j \in 0 .. N /\ j # 0
    OBVIOUS
  <2>2. ASSUME NEW done, ListReads(ps, done)
        PROVE  ListReads(ps, f[j][done])
    <3>1. CASE Ends(done.ps)
      BY <1>5, <2>1, <2>2, <3>1
    <3>2. CASE ~Ends(done.ps)
      <4> DEFINE s == stmt[done.ps]
                 next == Joined(done, s)
      <4>1. done \in Lists /\ Tidy(done.ps)
        BY <2>2, ListReadsComes
      <4>2. StmtReads(done.ps, s)
        BY <4>1, StmtReaderOne
      <4>3. ListReads(ps, next)
        BY <2>2, <4>2, JoinedReads
      <4>4. ListStep(stmt, j, f[j - 1])[done] = f[j - 1][next]
        BY <2>1, <3>2, <4>1, ListStepIs
      <4> HIDE DEF next
      <4>5. ListReads(ps, f[j - 1][next])
        BY <1>7, <4>3
      <4> QED
        BY <1>3, <2>1, <4>4, <4>5
    <3> QED
      BY <3>1, <3>2
  <2> QED
    BY <2>1, <2>2
<1> HIDE DEF I
<1>8. N \in 0 .. N
  BY <1>1
<1>9. N \in I
  BY <1>1, <1>6, <1>7, <1>8, Induction DEF Inductive
<1> QED
  BY <1>2, <1>4, <1>9 DEF I

LEMMA BlockReads ==
  ASSUME NEW stmt, StmtReader(stmt), NEW ps, Tidy(ps)
  PROVE  StmtReads(ps, Block(stmt, ps))
<1> DEFINE at == Expect(ps, "{")
           room == Node(at, Nothing)
           body == Stmts(stmt, room.ps)
           qs == Expect(body.ps, "}")
           n == [kind |-> "block", body |-> body.n]
           r == [ps |-> qs, n |-> n]
<1>1. Block(stmt, ps) = r
  BY DEF Block
<1>2. Keeps(ps, at) /\ Tidy(at) /\ Comes(ps, at)
  BY ExpectKeeps, KeepsTidy, KeepsComes
<1> HIDE DEF at
<1>3. Comes(at, room.ps) /\ (NoError(room.ps) => room.ps.nodes = at.nodes + 1)
  BY <1>2, NodeIs
<1> HIDE DEF room
<1>4. Tidy(room.ps)
  BY <1>3, ComesTidy
<1>5. ListReads(room.ps, body)
  BY <1>4, StmtsRead
<1> HIDE DEF body
<1>6. Comes(room.ps, body.ps) /\ Tidy(body.ps)
  BY <1>5, ListReadsComes
<1>7. Keeps(body.ps, qs) /\ Comes(body.ps, qs)
  BY <1>6, ExpectKeeps, KeepsComes
<1> HIDE DEF qs
<1>8. Comes(room.ps, qs)
  BY <1>4, <1>6, <1>7, ComesOn
<1>9. Comes(ps, qs)
  BY <1>2, <1>3, <1>8, ComesOn
<1>10. ASSUME NoError(qs)
       PROVE  n \in StmtTrees(Len(qs.syms))[qs.nodes - ps.nodes]
  <2> DEFINE m == Len(qs.syms)
             d == qs.nodes - room.ps.nodes
             T == StmtTrees(m)[d]
  <2>1. NoError(room.ps) /\ NoError(body.ps) /\ qs.syms = body.ps.syms /\ qs.nodes = body.ps.nodes
    BY <1>7, <1>8, <1>10, ComesTidy DEF Keeps
  <2>2. body.n \in Seq(T)
    BY <1>5, <2>1 DEF ListReads
  <2>3. room.ps.nodes = at.nodes + 1 /\ at.nodes = ps.nodes
    BY <1>2, <1>3, <2>1 DEF Keeps
  <2>4. ps.nodes \in Nat /\ room.ps.nodes \in Nat /\ qs.nodes \in Nat
    BY <1>4, <1>9, TidyIs, ComesTidy
  <2>5. qs.nodes - ps.nodes = d + 1
    BY <2>3, <2>4
  <2>6. d \in 0 .. MaxNodes /\ qs.nodes - ps.nodes \in 0 .. MaxNodes
    BY <1>4, <1>8, <1>9, NodesBetween
  <2> HIDE DEF T, d, m
  <2>7. d + 1 <= MaxNodes
    BY <2>5, <2>6, CompilerAssumption
  <2>8. n \in [kind : {"block"}, body : Seq(T)]
    BY <2>2
  <2> HIDE DEF n
  <2>9. n \in StmtOver(m, T)
    BY <2>8 DEF StmtOver, StmtStep
  <2>10. n \in StmtTrees(m)[d + 1]
    BY <2>6, <2>7, <2>9, StmtsOver DEF T
  <2> QED
    BY <2>5, <2>10 DEF m
<1> HIDE DEF n
<1>11. r.ps = qs /\ r.n = n
  OBVIOUS
<1> HIDE DEF r
<1>12. StmtReads(ps, r)
  BY <1>9, <1>10, <1>11 DEF StmtReads, IsStmt
<1> QED
  BY <1>1, <1>12

\* The tokens that begin a statement.
Starts == {"{", "int", "if", "while", "print", "return", "ident"}

LEMMA SeesNone ==
  ASSUME NEW ps, \A type \in Starts : ~Sees(ps, {type}), NEW stmt
  PROVE  Stmt(stmt, ps) = NoNode(ps, "invalid command")
<1>1. /\ ~Sees(ps, {"{"}) /\ ~Sees(ps, {"int"}) /\ ~Sees(ps, {"if"}) /\ ~Sees(ps, {"while"})
      /\ ~Sees(ps, {"print"}) /\ ~Sees(ps, {"return"}) /\ ~Sees(ps, {"ident"})
  BY DEF Starts
<1> QED
  BY <1>1 DEF Stmt

LEMMA StmtIsBlock ==
  ASSUME NEW ps, Sees(ps, {"{"}), NEW stmt
  PROVE  Stmt(stmt, ps) = Block(stmt, ps)
<1>1. ~Sees(ps, {"int"}) /\ ~Sees(ps, {"if"}) /\ ~Sees(ps, {"while"})
  BY SeesOne
<1>2. ~Sees(ps, {"print"}) /\ ~Sees(ps, {"return"}) /\ ~Sees(ps, {"ident"})
  BY SeesOne
<1> QED
  BY <1>1, <1>2 DEF Stmt

LEMMA StmtIsDecl ==
  ASSUME NEW ps, Sees(ps, {"int"}), NEW stmt
  PROVE  Stmt(stmt, ps) = DeclStmt(ps)
<1>1. ~Sees(ps, {"{"}) /\ ~Sees(ps, {"if"}) /\ ~Sees(ps, {"while"})
  BY SeesOne
<1>2. ~Sees(ps, {"print"}) /\ ~Sees(ps, {"return"}) /\ ~Sees(ps, {"ident"})
  BY SeesOne
<1> QED
  BY <1>1, <1>2 DEF Stmt

LEMMA StmtIsIf ==
  ASSUME NEW ps, Sees(ps, {"if"}), NEW stmt
  PROVE  Stmt(stmt, ps) = IfStmt(stmt, ps)
<1>1. ~Sees(ps, {"{"}) /\ ~Sees(ps, {"int"}) /\ ~Sees(ps, {"while"})
  BY SeesOne
<1>2. ~Sees(ps, {"print"}) /\ ~Sees(ps, {"return"}) /\ ~Sees(ps, {"ident"})
  BY SeesOne
<1> QED
  BY <1>1, <1>2 DEF Stmt

LEMMA StmtIsWhile ==
  ASSUME NEW ps, Sees(ps, {"while"}), NEW stmt
  PROVE  Stmt(stmt, ps) = WhileStmt(stmt, ps)
<1>1. ~Sees(ps, {"{"}) /\ ~Sees(ps, {"int"}) /\ ~Sees(ps, {"if"})
  BY SeesOne
<1>2. ~Sees(ps, {"print"}) /\ ~Sees(ps, {"return"}) /\ ~Sees(ps, {"ident"})
  BY SeesOne
<1> QED
  BY <1>1, <1>2 DEF Stmt

LEMMA StmtIsPrint ==
  ASSUME NEW ps, Sees(ps, {"print"}), NEW stmt
  PROVE  Stmt(stmt, ps) = Simple(Condition(ps), [kind |-> "print", a |-> Condition(ps).n])
<1>1. ~Sees(ps, {"{"}) /\ ~Sees(ps, {"int"}) /\ ~Sees(ps, {"if"})
  BY SeesOne
<1>2. ~Sees(ps, {"while"}) /\ ~Sees(ps, {"return"}) /\ ~Sees(ps, {"ident"})
  BY SeesOne
<1> QED
  BY <1>1, <1>2 DEF Stmt

LEMMA StmtIsReturn ==
  ASSUME NEW ps, Sees(ps, {"return"}), NEW stmt
  PROVE  Stmt(stmt, ps) = Simple(Expr(Advance(ps)), [kind |-> "return", a |-> Expr(Advance(ps)).n])
<1>1. ~Sees(ps, {"{"}) /\ ~Sees(ps, {"int"}) /\ ~Sees(ps, {"if"})
  BY SeesOne
<1>2. ~Sees(ps, {"while"}) /\ ~Sees(ps, {"print"}) /\ ~Sees(ps, {"ident"})
  BY SeesOne
<1> QED
  BY <1>1, <1>2 DEF Stmt

LEMMA StmtIsAssign ==
  ASSUME NEW ps, Sees(ps, {"ident"}), NEW stmt
  PROVE  Stmt(stmt, ps) = AssignStmt(ps)
<1>1. ~Sees(ps, {"{"}) /\ ~Sees(ps, {"int"}) /\ ~Sees(ps, {"if"})
  BY SeesOne
<1>2. ~Sees(ps, {"while"}) /\ ~Sees(ps, {"print"}) /\ ~Sees(ps, {"return"})
  BY SeesOne
<1> QED
  BY <1>1, <1>2 DEF Stmt

LEMMA StmtReadsOne ==
  ASSUME NEW stmt, StmtReader(stmt), NEW ps, Tidy(ps)
  PROVE  StmtReads(ps, Stmt(stmt, ps))
<1>1. CASE \A type \in Starts : ~Sees(ps, {type})
  BY <1>1, SeesNone, MessagesAre, ComesSelf, StmtReadsNoNode
<1>2. CASE Sees(ps, {"{"})
  BY <1>2, StmtIsBlock, BlockReads
<1>3. CASE Sees(ps, {"int"})
  BY <1>3, StmtIsDecl, DeclReads
<1>4. CASE Sees(ps, {"if"})
  BY <1>4, StmtIsIf, IfReads
<1>5. CASE Sees(ps, {"while"})
  BY <1>5, StmtIsWhile, WhileReads
<1>6. CASE Sees(ps, {"print"})
  <2> DEFINE r == Condition(ps)
  <2>1. Stmt(stmt, ps) = Simple(r, [kind |-> "print", a |-> r.n])
    BY <1>6, StmtIsPrint
  <2>2. Reads(ps, r)
    BY ConditionReads
  <2> HIDE DEF r
  <2>3. StmtReads(ps, Simple(r, [kind |-> "print", a |-> r.n]))
    BY <2>2, PrintReads
  <2> QED
    BY <2>1, <2>3
<1>7. CASE Sees(ps, {"return"})
  <2> DEFINE qs == Advance(ps)
             r == Expr(qs)
  <2>1. Stmt(stmt, ps) = Simple(r, [kind |-> "return", a |-> r.n])
    BY <1>7, StmtIsReturn
  <2>2. Keeps(ps, qs) /\ Tidy(qs)
    BY AdvanceKeeps, KeepsTidy
  <2> HIDE DEF qs
  <2>3. Reads(ps, r)
    BY <2>2, ExprReads, ReadsFrom
  <2> HIDE DEF r
  <2>4. StmtReads(ps, Simple(r, [kind |-> "return", a |-> r.n]))
    BY <2>3, PrintReads
  <2> QED
    BY <2>1, <2>4
<1>8. CASE Sees(ps, {"ident"})
  BY <1>8, StmtIsAssign, AssignReads
<1> QED
  BY <1>1, <1>2, <1>3, <1>4, <1>5, <1>6, <1>7, <1>8 DEF Starts

\* Statements whose parse nests j calls, from those of one call less.
StatementStep(j, u) ==
  [ps \in Parsers |-> IF j = 0 THEN NoNode(ps, "too deep") ELSE Stmt(u, ps)]

StatementTables(n, u) == u = [j \in 0 .. n |-> StatementStep(j, u[j - 1])]

LEMMA StatementTableZero == ASSUME NEW x, NEW y PROVE StatementStep(0, x) = StatementStep(0, y)
  BY DEF StatementStep

LEMMA StatementTableMore ==
  ASSUME NEW n \in Nat, NEW q, StatementTables(n, q)
  PROVE  \E u : StatementTables(n + 1, u)
<1> DEFINE u == [j \in 0 .. n + 1 |-> IF j <= n THEN q[j] ELSE StatementStep(n + 1, q[n])]
<1>1. \A j \in 0 .. n : q[j] = StatementStep(j, q[j - 1])
  BY DEF StatementTables
<1>2. \A j \in 0 .. n : u[j] = q[j]
  OBVIOUS
<1>3. u[n + 1] = StatementStep(n + 1, q[n]) /\ u = [j \in 0 .. n + 1 |-> u[j]]
  OBVIOUS
<1> HIDE DEF u
<1>4. ASSUME NEW j \in 0 .. n + 1
      PROVE  u[j] = StatementStep(j, u[j - 1])
  <2>1. CASE j = 0
    <3>1. 0 \in 0 .. n
      OBVIOUS
    <3>2. u[0] = StatementStep(0, q[0 - 1])
      BY <1>1, <1>2, <3>1
    <3> QED
      BY <2>1, <3>2, StatementTableZero
  <2>2. CASE j \in 1 .. n
    <3>1. j \in 0 .. n /\ j - 1 \in 0 .. n
      BY <2>2
    <3>2. u[j] = q[j] /\ u[j - 1] = q[j - 1]
      BY <1>2, <3>1
    <3> QED
      BY <1>1, <3>1, <3>2
  <2>3. CASE j = n + 1
    <3>1. n \in 0 .. n /\ (n + 1) - 1 = n
      OBVIOUS
    <3>2. u[n] = q[n]
      BY <1>2, <3>1
    <3> QED
      BY <1>3, <2>3, <3>1, <3>2
  <2> QED
    BY <2>1, <2>2, <2>3
<1>5. u = [j \in 0 .. n + 1 |-> StatementStep(j, u[j - 1])]
  BY <1>3, <1>4
<1> QED
  BY <1>5 DEF StatementTables

LEMMA StatementTableExists == ASSUME NEW n \in Nat PROVE \E u : StatementTables(n, u)
<1> DEFINE I == {j \in Nat : \E u : StatementTables(j, u)}
<1>1. 0 \in I
  <2> DEFINE u == [j \in 0 .. 0 |-> StatementStep(0, 0)]
  <2>1. \A j \in 0 .. 0 : j = 0
    OBVIOUS
  <2>2. \A j \in 0 .. 0 : StatementStep(j, u[j - 1]) = StatementStep(0, 0)
    BY <2>1, StatementTableZero
  <2> DEFINE w == [j \in 0 .. 0 |-> StatementStep(j, u[j - 1])]
  <2>3. u = w
    BY <2>2
  <2> HIDE DEF u
  <2>4. StatementTables(0, u)
    BY <2>3 DEF StatementTables
  <2> QED
    BY <2>4
<1>2. \A j \in 1 .. n : j - 1 \in I => j \in I
  <2> SUFFICES ASSUME NEW j \in 1 .. n, j - 1 \in I PROVE j \in I
    OBVIOUS
  <2>1. j - 1 \in Nat /\ (j - 1) + 1 = j /\ j \in Nat
    OBVIOUS
  <2>2. PICK q : StatementTables(j - 1, q)
    OBVIOUS
  <2> HIDE DEF I
  <2>3. \E u : StatementTables((j - 1) + 1, u)
    BY <2>1, <2>2, StatementTableMore
  <2> QED
    BY <2>1, <2>3 DEF I
<1> HIDE DEF I
<1>3. Inductive(n, I)
  BY <1>1, <1>2 DEF Inductive
<1>4. n \in 0 .. n
  OBVIOUS
<1>5. n \in I
  BY <1>3, <1>4, Induction
<1> QED
  BY <1>5 DEF I

LEMMA StatementTableIs ==
  ASSUME NEW d \in 0 .. MaxDepth
  PROVE  statements[d] = StatementStep(d, statements[d - 1])
<1>1. MaxDepth \in Nat
  BY CompilerAssumption
<1>2. \E u : StatementTables(MaxDepth, u)
  BY <1>1, StatementTableExists
<1>3. statements = CHOOSE u : StatementTables(MaxDepth, u)
  BY DEF statements, StatementTables, StatementStep
<1>4. StatementTables(MaxDepth, statements)
  BY <1>2, <1>3
<1> QED
  BY <1>4 DEF StatementTables

LEMMA StatementsRead ==
  ASSUME NEW d \in 0 .. MaxDepth
  PROVE  StmtReader(statements[d])
<1> DEFINE I == {j \in 0 .. MaxDepth : StmtReader(statements[j])}
<1>1. MaxDepth \in Nat /\ 0 \in 0 .. MaxDepth
  BY CompilerAssumption
<1>2. 0 \in I
  <2>1. ASSUME NEW ps \in Parsers, Tidy(ps)
        PROVE  StmtReads(ps, statements[0][ps])
    <3>1. statements[0] = StatementStep(0, statements[0 - 1])
      BY <1>1, StatementTableIs
    <3>2. statements[0][ps] = NoNode(ps, "too deep")
      BY <3>1 DEF StatementStep
    <3> QED
      BY <2>1, <3>2, MessagesAre, ComesSelf, StmtReadsNoNode
  <2> QED
    BY <1>1, <2>1 DEF StmtReader
<1>3. ASSUME NEW j \in 1 .. MaxDepth, j - 1 \in I
      PROVE  j \in I
  <2>1. j \in 0 .. MaxDepth /\ j # 0
    OBVIOUS
  <2>2. StmtReader(statements[j - 1])
    BY <1>3
  <2>3. ASSUME NEW ps \in Parsers, Tidy(ps)
        PROVE  StmtReads(ps, statements[j][ps])
    <3>1. statements[j] = StatementStep(j, statements[j - 1])
      BY <2>1, StatementTableIs
    <3>2. statements[j][ps] = Stmt(statements[j - 1], ps)
      BY <2>1, <3>1 DEF StatementStep
    <3> QED
      BY <2>2, <2>3, <3>2, StmtReadsOne
  <2>4. StmtReader(statements[j])
    BY <2>3 DEF StmtReader
  <2> QED
    BY <2>1, <2>4
<1> HIDE DEF I
<1>4. d \in I
  BY <1>1, <1>2, <1>3, Induction DEF Inductive
<1> QED
  BY <1>4 DEF I

\* The parser before the first token.
Beginning(t) == [toks |-> t, pos |-> 1, syms |-> <<>>, nodes |-> 0, err |-> ""]

LEMMA BeginningIs ==
  ASSUME NEW t \in Seq(Tokens)
  PROVE  Tidy(Beginning(t)) /\ Beginning(t).nodes = 0
<1> DEFINE ps == Beginning(t)
<1>1. <<>> \in Seq(Idents) /\ Len(<<>>) = 0 /\ 1 \in Nat \ {0} /\ 0 \in Nat
  OBVIOUS
<1>2. "" \in Errors
  BY DEF Errors
<1>3. ps \in Parsers
  BY <1>1, <1>2 DEF Parsers, Beginning
<1>4. ps.nodes = 0 /\ ps.syms = <<>>
  BY DEF Beginning
<1> HIDE DEF ps
<1>5. MaxNodes \in Nat /\ MaxLocals \in Nat
  BY CompilerAssumption
<1>6. Len(ps.syms) = 0
  BY <1>1, <1>4
<1>7. Len(ps.syms) <= MaxLocals /\ ps.nodes <= MaxNodes
  BY <1>4, <1>5, <1>6
<1> QED
  BY <1>3, <1>4, <1>7 DEF Tidy, ps

\* What the parser accepts is a program: a complete tree, no deeper than the arena has
\* nodes, that uses declared locals alone and no more than CC_MAX_LOCALS of them,
\* whatever the tokens are (cc_parse_program, cc_sym_declare, cc_arena_alloc).
THEOREM ParseCompiles ==
  ASSUME NEW t \in Seq(Tokens), NEW p, p = Parse(t), NoError(p.ps)
  PROVE  Compiled(p)
<1> DEFINE p0 == Beginning(t)
           p1 == Expect(p0, "int")
           p2 == IF Cur(p1).text = "main" THEN Advance(p1) ELSE Fail(p1, "expected main")
           p3 == Expect(p2, "(")
           p4 == Expect(p3, ")")
<1>1. p = Block(statements[MaxDepth], p4)
  BY DEF Parse, Beginning
<1>2. Tidy(p0) /\ p0.nodes = 0
  BY BeginningIs
<1> HIDE DEF p0
<1>3. Keeps(p0, p1) /\ Tidy(p1)
  BY <1>2, ExpectKeeps, KeepsTidy
<1> HIDE DEF p1
<1>4. Keeps(p1, p2) /\ Tidy(p2)
  <2>1. Keeps(p1, p2)
    BY <1>3, AdvanceKeeps, FailKeeps, MessagesAre
  <2> QED
    BY <2>1, KeepsTidy
<1> HIDE DEF p2
<1>5. Keeps(p2, p3) /\ Tidy(p3)
  BY <1>4, ExpectKeeps, KeepsTidy
<1> HIDE DEF p3
<1>6. Keeps(p3, p4) /\ Tidy(p4)
  BY <1>5, ExpectKeeps, KeepsTidy
<1> HIDE DEF p4
<1>7. p4.nodes = 0
  BY <1>2, <1>3, <1>4, <1>5, <1>6 DEF Keeps
<1>8. StmtReads(p4, p)
  <2>1. MaxDepth \in 0 .. MaxDepth
    BY CompilerAssumption
  <2> QED
    BY <1>1, <1>6, <2>1, StatementsRead, BlockReads
<1>9. Comes(p4, p.ps) /\ Tidy(p.ps) /\ IsStmt(p4, p)
  BY <1>8, StmtReadsTidy
<1> DEFINE m == Len(p.ps.syms)
           d == p.ps.nodes - p4.nodes
<1>10. m \in 0 .. MaxLocals /\ m \in Nat /\ d \in 0 .. MaxNodes
  BY <1>6, <1>9, NodesBetween
<1>11. p.n \in StmtTrees(m)[d]
  BY <1>9 DEF IsStmt
<1> HIDE DEF m, d
<1>12. MaxNodes \in 0 .. MaxNodes /\ d <= MaxNodes
  BY <1>10, CompilerAssumption
<1>13. StmtTrees(m)[d] \subseteq StmtTrees(m)[MaxNodes]
  BY <1>10, <1>12, StmtsDeep
<1>14. p.n \in StmtTrees(m)[MaxNodes]
  BY <1>11, <1>13
<1> QED
  BY <1>10, <1>14 DEF Compiled, m

-----------------------------------------------------------------------------
(* What is left of a text. *)

Remains == SUBSET Seq(Tokens)

LEMMA BehindIs ==
  ASSUME NEW W \in Remains, NEW t
  PROVE  Behind(W, t) \in Remains
<1>1. ASSUME NEW x \in Behind(W, t)
      PROVE  x \in Seq(Tokens)
  <2>1. PICK v \in W : v # <<>> /\ x = Tail(v)
    BY DEF Behind
  <2>2. v \in Seq(Tokens)
    BY DEF Remains
  <2> QED
    BY <2>1, <2>2
<1> QED
  BY <1>1 DEF Remains

LEMMA BehindIn ==
  ASSUME NEW W, NEW v \in W, v # <<>>, NEW t, Head(v) = t
  PROVE  Tail(v) \in Behind(W, t)
  BY DEF Behind

\* The types of tokens.
Types ==
  {"eof", "ident", "num", "int", "if", "else", "while", "print", "return",
   "{", "}", "(", ")", ";", "="} \cup Operators

LEMMA NumIs ==
  ASSUME NEW v
  PROVE  Num(v) = [type |-> "num", val |-> v, text |-> ""]
<1> DEFINE r == Tok("num")
           s == [r EXCEPT !.val = v]
<1>1. r \in [type : {"num"}, val : {0, v}, text : {""}]
  BY DEF Tok
<1>2. Num(v) = s
  BY DEF Num
<1> HIDE DEF r
<1>3. s \in [type : {"num"}, val : {0, v}, text : {""}] /\ s.val = v
  BY <1>1
<1> HIDE DEF s
<1> QED
  BY <1>2, <1>3

LEMMA IdentIs ==
  ASSUME NEW x
  PROVE  Ident(x) = [type |-> "ident", val |-> 0, text |-> x]
<1> DEFINE r == Tok("ident")
           s == [r EXCEPT !.text = x]
<1>1. r \in [type : {"ident"}, val : {0}, text : {"", x}]
  BY DEF Tok
<1>2. Ident(x) = s
  BY DEF Ident
<1> HIDE DEF r
<1>3. s \in [type : {"ident"}, val : {0}, text : {"", x}] /\ s.text = x
  BY <1>1
<1> HIDE DEF s
<1> QED
  BY <1>2, <1>3

LEMMA TokensAre ==
  /\ \A type \in Types : Tok(type) \in Tokens
  /\ \A v \in Int : Num(v) \in Tokens
  /\ \A x \in Idents : Ident(x) \in Tokens
<1>1. 0 \in Int /\ "" \in Idents
  BY DEF Idents
<1>2. ASSUME NEW type \in Types
      PROVE  Tok(type) \in Tokens
  BY <1>1 DEF Tok, Tokens, Types
<1>3. ASSUME NEW v \in Int
      PROVE  Num(v) \in Tokens
  <2>1. Num(v) = [type |-> "num", val |-> v, text |-> ""]
    BY NumIs
  <2>2. [type |-> "num", val |-> v, text |-> ""] \in Tokens
    BY <1>1 DEF Tokens
  <2> QED
    BY <2>1, <2>2
<1>4. ASSUME NEW x \in Idents
      PROVE  Ident(x) \in Tokens
  <2>1. Ident(x) = [type |-> "ident", val |-> 0, text |-> x]
    BY IdentIs
  <2>2. [type |-> "ident", val |-> 0, text |-> x] \in Tokens
    BY <1>1 DEF Tokens
  <2> QED
    BY <2>1, <2>2
<1> QED
  BY <1>2, <1>3, <1>4

\* A token is known by its type, and a number by its value, a name by its text.
LEMMA TokenIs ==
  ASSUME NEW t \in Tokens
  PROVE  /\ t.type = "num" => t = Num(t.val)
         /\ t.type = "ident" => t = Ident(t.text)
         /\ t.type \notin {"num", "ident"} => t = Tok(t.type)
<1>1. t = [type |-> t.type, val |-> t.val, text |-> t.text]
      /\ (t.type # "num" => t.val = 0) /\ (t.type # "ident" => t.text = "")
  BY DEF Tokens
<1>2. Num(t.val) = [type |-> "num", val |-> t.val, text |-> ""]
  BY NumIs
<1>3. Ident(t.text) = [type |-> "ident", val |-> 0, text |-> t.text]
  BY IdentIs
<1>4. Tok(t.type) = [type |-> t.type, val |-> 0, text |-> ""]
  BY DEF Tok
<1>5. CASE t.type = "num"
  BY <1>1, <1>2, <1>5
<1>6. CASE t.type = "ident"
  BY <1>1, <1>3, <1>6
<1>7. CASE t.type \notin {"num", "ident"}
  BY <1>1, <1>4, <1>7
<1> QED
  BY <1>5, <1>6, <1>7

-----------------------------------------------------------------------------
(* What is left behind expressions. *)

\* What is left behind the expressions of at most j tokens, from those of one less.
BehindStep(j, u) ==
  [n \in ExprTrees(MaxNodes)[MaxNodes] |->
     [level \in 1 .. 4 |->
        [texts \in SUBSET Seq(Tokens) |->
           IF j = 0 \/ texts = {} THEN {} ELSE TakeExpr(u, n, level, texts)]]]

BehindTables(n, u) == u = [j \in 0 .. n |-> BehindStep(j, u[j - 1])]

LEMMA BehindTableZero == ASSUME NEW x, NEW y PROVE BehindStep(0, x) = BehindStep(0, y)
  BY DEF BehindStep

LEMMA BehindTableMore ==
  ASSUME NEW n \in Nat, NEW q, BehindTables(n, q)
  PROVE  \E u : BehindTables(n + 1, u)
<1> DEFINE u == [j \in 0 .. n + 1 |-> IF j <= n THEN q[j] ELSE BehindStep(n + 1, q[n])]
<1>1. \A j \in 0 .. n : q[j] = BehindStep(j, q[j - 1])
  BY DEF BehindTables
<1>2. \A j \in 0 .. n : u[j] = q[j]
  OBVIOUS
<1>3. u[n + 1] = BehindStep(n + 1, q[n]) /\ u = [j \in 0 .. n + 1 |-> u[j]]
  OBVIOUS
<1> HIDE DEF u
<1>4. ASSUME NEW j \in 0 .. n + 1
      PROVE  u[j] = BehindStep(j, u[j - 1])
  <2>1. CASE j = 0
    <3>1. 0 \in 0 .. n
      OBVIOUS
    <3>2. u[0] = BehindStep(0, q[0 - 1])
      BY <1>1, <1>2, <3>1
    <3> QED
      BY <2>1, <3>2, BehindTableZero
  <2>2. CASE j \in 1 .. n
    <3>1. j \in 0 .. n /\ j - 1 \in 0 .. n
      BY <2>2
    <3>2. u[j] = q[j] /\ u[j - 1] = q[j - 1]
      BY <1>2, <3>1
    <3> QED
      BY <1>1, <3>1, <3>2
  <2>3. CASE j = n + 1
    <3>1. n \in 0 .. n /\ (n + 1) - 1 = n
      OBVIOUS
    <3>2. u[n] = q[n]
      BY <1>2, <3>1
    <3> QED
      BY <1>3, <2>3, <3>1, <3>2
  <2> QED
    BY <2>1, <2>2, <2>3
<1>5. u = [j \in 0 .. n + 1 |-> BehindStep(j, u[j - 1])]
  BY <1>3, <1>4
<1> QED
  BY <1>5 DEF BehindTables

LEMMA BehindTableExists == ASSUME NEW n \in Nat PROVE \E u : BehindTables(n, u)
<1> DEFINE I == {j \in Nat : \E u : BehindTables(j, u)}
<1>1. 0 \in I
  <2> DEFINE u == [j \in 0 .. 0 |-> BehindStep(0, 0)]
  <2>1. \A j \in 0 .. 0 : j = 0
    OBVIOUS
  <2>2. \A j \in 0 .. 0 : BehindStep(j, u[j - 1]) = BehindStep(0, 0)
    BY <2>1, BehindTableZero
  <2> DEFINE w == [j \in 0 .. 0 |-> BehindStep(j, u[j - 1])]
  <2>3. u = w
    BY <2>2
  <2> HIDE DEF u
  <2>4. BehindTables(0, u)
    BY <2>3 DEF BehindTables
  <2> QED
    BY <2>4
<1>2. \A j \in 1 .. n : j - 1 \in I => j \in I
  <2> SUFFICES ASSUME NEW j \in 1 .. n, j - 1 \in I PROVE j \in I
    OBVIOUS
  <2>1. j - 1 \in Nat /\ (j - 1) + 1 = j /\ j \in Nat
    OBVIOUS
  <2>2. PICK q : BehindTables(j - 1, q)
    OBVIOUS
  <2> HIDE DEF I
  <2>3. \E u : BehindTables((j - 1) + 1, u)
    BY <2>1, <2>2, BehindTableMore
  <2> QED
    BY <2>1, <2>3 DEF I
<1> HIDE DEF I
<1>3. Inductive(n, I)
  BY <1>1, <1>2 DEF Inductive
<1>4. n \in 0 .. n
  OBVIOUS
<1>5. n \in I
  BY <1>3, <1>4, Induction
<1> QED
  BY <1>5 DEF I

LEMMA BehindExprsIs ==
  ASSUME NEW N \in Nat, NEW d \in 0 .. N
  PROVE  BehindExprs(N)[d] = BehindStep(d, BehindExprs(N)[d - 1])
<1>1. \E u : BehindTables(N, u)
  BY BehindTableExists
<1>2. BehindExprs(N) = CHOOSE u : BehindTables(N, u)
  BY DEF BehindExprs, BehindTables, BehindStep
<1>3. BehindTables(N, BehindExprs(N))
  BY <1>1, <1>2
<1> QED
  BY <1>3 DEF BehindTables

\* One expression, at one place.
LEMMA BehindExprsOne ==
  ASSUME NEW N \in Nat, NEW d \in 0 .. N, NEW n \in Whole, NEW l \in 1 .. 4, NEW W \in Remains
  PROVE  BehindExprs(N)[d][n][l][W] =
           IF d = 0 \/ W = {} THEN {} ELSE TakeExpr(BehindExprs(N)[d - 1], n, l, W)
<1>1. BehindExprs(N)[d] = BehindStep(d, BehindExprs(N)[d - 1])
  BY BehindExprsIs
<1>2. n \in ExprTrees(MaxNodes)[MaxNodes] /\ W \in SUBSET Seq(Tokens)
  BY DEF Whole, Remains
<1> DEFINE u == BehindExprs(N)[d - 1]
<1>3. BehindExprs(N)[d] = BehindStep(d, u)
  BY <1>1
<1> HIDE DEF u
<1>4. BehindStep(d, u)[n][l][W] = IF d = 0 \/ W = {} THEN {} ELSE TakeExpr(u, n, l, W)
  BY <1>2 DEF BehindStep
<1> QED
  BY <1>3, <1>4 DEF u

\* The parts of a whole expression are whole.
LEMMA WholeForms ==
  ASSUME NEW n \in Whole
  PROVE  \/ n.kind = "num" /\ n.val \in Int
         \/ n.kind = "var" /\ n.name \in Idents
         \/ n.kind = "neg" /\ n.a \in Whole
         \/ n.kind = "binop" /\ n.op \in Operators /\ n.a \in Whole /\ n.b \in Whole
<1> DEFINE M == MaxNodes
<1>1. M \in Nat /\ n \in ExprTrees(M)[M]
  BY CompilerAssumption DEF Whole
<1>2. M # 0
  BY <1>1, NoExprs
<1>3. M \in 1 .. M /\ M - 1 \in 0 .. M /\ M \in 0 .. M /\ M - 1 <= M
  BY <1>1, <1>2
<1>4. ExprTrees(M)[M - 1] \subseteq Whole
  BY <1>1, <1>3, ExprsDeep DEF Whole
<1>5. \/ n.kind = "num" /\ n.val \in Int
      \/ n.kind = "var" /\ n.name \in Idents
      \/ n.kind = "neg" /\ n.a \in ExprTrees(M)[M - 1]
      \/ n.kind = "binop" /\ n.op \in Operators /\ n.a \in ExprTrees(M)[M - 1]
           /\ n.b \in ExprTrees(M)[M - 1]
  BY <1>1, <1>3, ExprForms
<1> QED
  BY <1>4, <1>5

LEMMA Levels == ASSUME NEW op PROVE Level(op) \in 1 .. 3
  BY DEF Level

\* A table that gives remains.
Leaves(u) == \A n \in Whole, l \in 1 .. 4, W \in Remains : u[n][l][W] \in Remains

LEMMA TakeBareIs ==
  ASSUME NEW u, Leaves(u), NEW n \in Whole, NEW W \in Remains
  PROVE  TakeBare(u, n, W) \in Remains
<1>1. CASE n.kind = "num"
  BY <1>1, BehindIs DEF TakeBare
<1>2. CASE n.kind = "var"
  BY <1>2, BehindIs DEF TakeBare
<1>3. CASE n.kind = "neg" /\ n.a \in Whole
  <2> DEFINE V == Behind(W, Tok("-"))
  <2>1. TakeBare(u, n, W) = u[n.a][4][V]
    BY <1>3 DEF TakeBare
  <2>2. V \in Remains
    BY BehindIs
  <2> HIDE DEF V
  <2>3. 4 \in 1 .. 4
    OBVIOUS
  <2> QED
    BY <1>3, <2>1, <2>2, <2>3 DEF Leaves
<1>4. CASE n.kind = "binop" /\ n.a \in Whole /\ n.b \in Whole
  <2> DEFINE k == Level(n.op)
             i == IF k = 1 THEN 2 ELSE k
             X == u[n.a][i][W]
             V == Behind(X, Tok(n.op))
  <2>1. TakeBare(u, n, W) = u[n.b][k + 1][V]
    BY <1>4 DEF TakeBare
  <2>2. k \in 1 .. 3
    BY Levels
  <2> HIDE DEF k
  <2>3. i \in 1 .. 4 /\ k + 1 \in 1 .. 4
    BY <2>2
  <2> HIDE DEF i
  <2>4. X \in Remains
    BY <1>4, <2>3 DEF Leaves
  <2> HIDE DEF X
  <2>5. V \in Remains
    BY <2>4, BehindIs
  <2> HIDE DEF V
  <2> QED
    BY <1>4, <2>1, <2>3, <2>5 DEF Leaves
<1> QED
  BY <1>1, <1>2, <1>3, <1>4, WholeForms

LEMMA TakeExprIs ==
  ASSUME NEW u, Leaves(u), NEW n \in Whole, NEW l \in 1 .. 4, NEW W \in Remains
  PROVE  TakeExpr(u, n, l, W) \in Remains
<1> DEFINE V == Behind(W, Tok("("))
           X == u[n][1][V]
           Y == Behind(X, Tok(")"))
           B == IF Binds(n) < l THEN {} ELSE TakeBare(u, n, W)
<1>1. TakeExpr(u, n, l, W) = B \cup Y
  BY DEF TakeExpr
<1>2. V \in Remains
  BY BehindIs
<1> HIDE DEF V
<1>3. X \in Remains
  <2>1. 1 \in 1 .. 4
    OBVIOUS
  <2> QED
    BY <1>2, <2>1 DEF Leaves
<1> HIDE DEF X
<1>4. Y \in Remains
  BY <1>3, BehindIs
<1> HIDE DEF Y
<1>5. B \in Remains
  <2>1. TakeBare(u, n, W) \in Remains /\ {} \in Remains
    BY TakeBareIs DEF Remains
  <2> QED
    BY <2>1
<1> HIDE DEF B
<1> QED
  BY <1>1, <1>4, <1>5 DEF Remains

LEMMA BehindExprsLeave ==
  ASSUME NEW N \in Nat, NEW d \in 0 .. N
  PROVE  Leaves(BehindExprs(N)[d])
<1> DEFINE I == {j \in 0 .. N : Leaves(BehindExprs(N)[j])}
<1>1. {} \in Remains
  BY DEF Remains
<1>2. 0 \in I
  <2>1. 0 \in 0 .. N
    OBVIOUS
  <2>2. \A n \in Whole, l \in 1 .. 4, W \in Remains : BehindExprs(N)[0][n][l][W] = {}
    BY <2>1, BehindExprsOne
  <2> QED
    BY <1>1, <2>1, <2>2 DEF Leaves
<1>3. ASSUME NEW j \in 1 .. N, j - 1 \in I
      PROVE  j \in I
  <2>1. j \in 0 .. N /\ Leaves(BehindExprs(N)[j - 1])
    BY <1>3
  <2>2. ASSUME NEW n \in Whole, NEW l \in 1 .. 4, NEW W \in Remains
        PROVE  BehindExprs(N)[j][n][l][W] \in Remains
    <3>1. TakeExpr(BehindExprs(N)[j - 1], n, l, W) \in Remains
      BY <2>1, TakeExprIs
    <3>2. BehindExprs(N)[j][n][l][W] =
            IF j = 0 \/ W = {} THEN {} ELSE TakeExpr(BehindExprs(N)[j - 1], n, l, W)
      BY <2>1, BehindExprsOne
    <3> QED
      BY <1>1, <3>1, <3>2
  <2> QED
    BY <2>1, <2>2 DEF Leaves
<1> HIDE DEF I
<1>4. d \in I
  BY <1>2, <1>3, Induction DEF Inductive
<1> QED
  BY <1>4 DEF I

LEMMA BehindExprIs ==
  ASSUME NEW n \in Whole, NEW W \in Remains
  PROVE  BehindExpr(n, W) \in Remains
<1>1. ASSUME NEW w \in W
      PROVE  BehindExprs(Len(w))[Len(w)][n][1][{w}] \in Remains
  <2>1. w \in Seq(Tokens) /\ {w} \in Remains
    BY DEF Remains
  <2>2. Len(w) \in Nat /\ Len(w) \in 0 .. Len(w) /\ 1 \in 1 .. 4
    BY <2>1
  <2>3. Leaves(BehindExprs(Len(w))[Len(w)])
    BY <2>2, BehindExprsLeave
  <2> QED
    BY <2>1, <2>2, <2>3 DEF Leaves
<1> QED
  BY <1>1 DEF BehindExpr, Remains

\* Behind an expression without parentheses around it, and behind one with them.
LEMMA BareIn ==
  ASSUME NEW N \in Nat, NEW d \in 1 .. N, NEW n \in Whole, NEW l \in 1 .. 4, l <= Binds(n),
         NEW W \in Remains, W # {}, NEW x \in TakeBare(BehindExprs(N)[d - 1], n, W)
  PROVE  x \in BehindExprs(N)[d][n][l][W]
<1>1. d \in 0 .. N /\ d # 0
  OBVIOUS
<1>2. BehindExprs(N)[d][n][l][W] = TakeExpr(BehindExprs(N)[d - 1], n, l, W)
  BY <1>1, BehindExprsOne
<1>3. Binds(n) \in Int
  BY Levels DEF Binds
<1>4. ~(Binds(n) < l)
  BY <1>3
<1> QED
  BY <1>2, <1>4 DEF TakeExpr

LEMMA BracketIn ==
  ASSUME NEW N \in Nat, NEW d \in 1 .. N, NEW n \in Whole, NEW l \in 1 .. 4,
         NEW W \in Remains, W # {},
         NEW x \in Behind(BehindExprs(N)[d - 1][n][1][Behind(W, Tok("("))], Tok(")"))
  PROVE  x \in BehindExprs(N)[d][n][l][W]
<1>1. d \in 0 .. N /\ d # 0
  OBVIOUS
<1>2. BehindExprs(N)[d][n][l][W] = TakeExpr(BehindExprs(N)[d - 1], n, l, W)
  BY <1>1, BehindExprsOne
<1> QED
  BY <1>2 DEF TakeExpr

-----------------------------------------------------------------------------
(* What the parser has read. *)

\* The tokens from the parser's place on.
Rest(ps) == SubSeq(ps.toks, ps.pos, Len(ps.toks))

SymNames(ps) == {ps.syms[k] : k \in DOMAIN ps.syms}

\* X are the names that the first k tokens introduce, each before its use, and
\* no declaration is cut.
Sound(t, k, X) ==
  /\ k \in 4 .. Len(t) /\ t[k].type # "int"
  /\ X = Introduced(t, k)
  /\ DeclaredOnce(t, k)

Clean(ps) == Sound(ps.toks, ps.pos - 1, SymNames(ps))

LEMMA IntroducedIs ==
  ASSUME NEW t, NEW k, NEW x
  PROVE  x \in Introduced(t, k) <=>
           \E j \in 5 .. k : t[j].type = "ident" /\ t[j - 1].type = "int" /\ t[j].text = x
  BY DEF Introduced

LEMMA SoundNext ==
  ASSUME NEW t, NEW k, NEW X, Sound(t, k, X), Len(t) \in Nat, k + 1 <= Len(t),
         t[k + 1].type # "int", t[k + 1].type = "ident" => t[k + 1].text \in X
  PROVE  Sound(t, k + 1, X)
<1>1. k \in Nat /\ k >= 4 /\ k <= Len(t) /\ t[k].type # "int" /\ X = Introduced(t, k) /\ DeclaredOnce(t, k)
  BY DEF Sound
<1>2. k + 1 \in 4 .. Len(t)
  BY <1>1
<1>3. \A j \in 5 .. k + 1 : j \in 5 .. k \/ j = k + 1
  BY <1>1
<1>4. \A j \in 5 .. k : j \in 5 .. k + 1
  BY <1>1
<1>5. (k + 1) - 1 = k
  BY <1>1
<1>6. \A x : x \in Introduced(t, k + 1) <=> x \in Introduced(t, k)
  <2> SUFFICES ASSUME NEW x PROVE x \in Introduced(t, k + 1) <=> x \in Introduced(t, k)
    OBVIOUS
  <2>1. ASSUME x \in Introduced(t, k + 1)
        PROVE  x \in Introduced(t, k)
    <3>1. PICK j \in 5 .. k + 1 : t[j].type = "ident" /\ t[j - 1].type = "int" /\ t[j].text = x
      BY <2>1, IntroducedIs
    <3>2. j # k + 1
      BY <1>1, <1>5, <3>1
    <3>3. j \in 5 .. k
      BY <1>3, <3>2
    <3> QED
      BY <3>1, <3>3, IntroducedIs
  <2>2. ASSUME x \in Introduced(t, k)
        PROVE  x \in Introduced(t, k + 1)
    <3>1. PICK j \in 5 .. k : t[j].type = "ident" /\ t[j - 1].type = "int" /\ t[j].text = x
      BY <2>2, IntroducedIs
    <3>2. j \in 5 .. k + 1
      BY <1>4
    <3> QED
      BY <3>1, <3>2, IntroducedIs
  <2> QED
    BY <2>1, <2>2
<1>7. X = Introduced(t, k + 1)
  BY <1>1, <1>6 DEF Introduced
<1>8. ASSUME NEW i \in 5 .. k + 1, t[i].type = "ident"
      PROVE  (t[i - 1].type = "int") # (t[i].text \in Introduced(t, i - 1))
  <2>1. CASE i \in 5 .. k
    BY <1>1, <1>8, <2>1 DEF DeclaredOnce
  <2>2. CASE i = k + 1
    <3>1. i - 1 = k
      BY <1>5, <2>2
    <3>2. t[i - 1].type # "int" /\ t[i].text \in Introduced(t, i - 1)
      BY <1>1, <1>8, <2>2, <3>1
    <3> QED
      BY <3>2
  <2> QED
    BY <1>3, <2>1, <2>2
<1>9. DeclaredOnce(t, k + 1)
  BY <1>8 DEF DeclaredOnce
<1> QED
  BY <1>2, <1>7, <1>9 DEF Sound

LEMMA SoundDecl ==
  ASSUME NEW t, NEW k, NEW X, Sound(t, k, X), Len(t) \in Nat, k + 2 <= Len(t),
         t[k + 1].type = "int", t[k + 2].type = "ident", t[k + 2].text \notin X
  PROVE  Sound(t, k + 2, X \cup {t[k + 2].text})
<1> DEFINE y == t[k + 2].text
<1>1. k \in Nat /\ k >= 4 /\ k <= Len(t) /\ X = Introduced(t, k) /\ DeclaredOnce(t, k)
  BY DEF Sound
<1>2. k + 2 \in 4 .. Len(t) /\ k + 2 \in 5 .. k + 2 /\ (k + 2) - 1 = k + 1
  BY <1>1
<1>3. \A j \in 5 .. k + 2 : j \in 5 .. k \/ j = k + 1 \/ j = k + 2
  BY <1>1
<1>4. \A j \in 5 .. k : j \in 5 .. k + 1 /\ j \in 5 .. k + 2
  BY <1>1
<1>5. \A j \in 5 .. k + 1 : j \in 5 .. k \/ j = k + 1
  BY <1>1
<1>6. Introduced(t, k + 1) = X
  <2>1. ASSUME NEW x \in Introduced(t, k + 1)
        PROVE  x \in Introduced(t, k)
    <3>1. PICK j \in 5 .. k + 1 : t[j].type = "ident" /\ t[j - 1].type = "int" /\ t[j].text = x
      BY IntroducedIs
    <3>2. j \in 5 .. k
      BY <1>5, <3>1
    <3> QED
      BY <3>1, <3>2, IntroducedIs
  <2>2. ASSUME NEW x \in Introduced(t, k)
        PROVE  x \in Introduced(t, k + 1)
    <3>1. PICK j \in 5 .. k : t[j].type = "ident" /\ t[j - 1].type = "int" /\ t[j].text = x
      BY IntroducedIs
    <3> QED
      BY <1>4, <3>1, IntroducedIs
  <2> QED
    BY <1>1, <2>1, <2>2
<1>7. Introduced(t, k + 2) = X \cup {y}
  <2>1. ASSUME NEW x \in Introduced(t, k + 2)
        PROVE  x \in X \cup {y}
    <3>1. PICK j \in 5 .. k + 2 : t[j].type = "ident" /\ t[j - 1].type = "int" /\ t[j].text = x
      BY IntroducedIs
    <3>2. j \in 5 .. k \/ j = k + 2
      BY <1>3, <3>1
    <3>3. CASE j \in 5 .. k
      BY <1>1, <3>1, <3>3, IntroducedIs
    <3>4. CASE j = k + 2
      BY <3>1, <3>4
    <3> QED
      BY <3>2, <3>3, <3>4
  <2>2. ASSUME NEW x \in X
        PROVE  x \in Introduced(t, k + 2)
    <3>1. PICK j \in 5 .. k : t[j].type = "ident" /\ t[j - 1].type = "int" /\ t[j].text = x
      BY <1>1, IntroducedIs
    <3> QED
      BY <1>4, <3>1, IntroducedIs
  <2>3. y \in Introduced(t, k + 2)
    BY <1>2, IntroducedIs
  <2> HIDE DEF y
  <2> QED
    BY <2>1, <2>2, <2>3
<1>8. ASSUME NEW i \in 5 .. k + 2, t[i].type = "ident"
      PROVE  (t[i - 1].type = "int") # (t[i].text \in Introduced(t, i - 1))
  <2>1. CASE i \in 5 .. k
    BY <1>1, <1>8, <2>1 DEF DeclaredOnce
  <2>2. CASE i = k + 1
    BY <1>8, <2>2
  <2>3. CASE i = k + 2
    <3>1. i - 1 = k + 1
      BY <1>2, <2>3
    <3>2. t[i - 1].type = "int" /\ t[i].text \notin Introduced(t, i - 1)
      BY <1>6, <2>3, <3>1
    <3> QED
      BY <3>2
  <2> QED
    BY <1>3, <2>1, <2>2, <2>3
<1>9. DeclaredOnce(t, k + 2)
  BY <1>8 DEF DeclaredOnce
<1>10. t[k + 2].type # "int"
  OBVIOUS
<1> QED
  BY <1>2, <1>7, <1>9, <1>10 DEF Sound

\* The symbols are the names that the parser finds.
LEMMA LookupFinds ==
  ASSUME NEW ps \in Parsers, NEW x
  PROVE  Lookup(ps, x) # 0 <=> x \in SymNames(ps)
<1> DEFINE at == {k \in DOMAIN ps.syms : ps.syms[k] = x}
<1>1. DOMAIN ps.syms = 1 .. Len(ps.syms) /\ Len(ps.syms) \in Nat
  BY DEF Parsers
<1>2. x \in SymNames(ps) <=> at # {}
  BY DEF SymNames
<1>3. ASSUME Lookup(ps, x) # 0
      PROVE  at # {}
  BY <1>3 DEF Lookup
<1>4. ASSUME at # {}
      PROVE  Lookup(ps, x) # 0
  <2>1. \A k \in at : k \in Nat /\ k # 0
    BY <1>1
  <2>2. Lookup(ps, x) = IF at = {} THEN 0 ELSE 4 * (CHOOSE k \in at : \A j \in at : k <= j)
    BY DEF Lookup
  <2> HIDE DEF at
  <2>3. at \subseteq Nat
    BY <2>1
  <2>4. \E k \in at : \A j \in at : k <= j
    BY <1>4, <2>3, SomeLeast
  <2> DEFINE first == CHOOSE k \in at : \A j \in at : k <= j
  <2>5. first \in at
    BY <2>4
  <2>6. Lookup(ps, x) = 4 * first
    BY <1>4, <2>2
  <2> HIDE DEF first
  <2>7. first \in Nat /\ first # 0
    BY <2>1, <2>5
  <2> QED
    BY <2>6, <2>7
<1> QED
  BY <1>2, <1>3, <1>4

\* Two states at the same place with the same symbols.
SameText(ps, qs) == qs.toks = ps.toks /\ qs.pos = ps.pos /\ qs.syms = ps.syms

LEMMA SameTextIs ==
  ASSUME NEW ps, NEW qs, SameText(ps, qs)
  PROVE  (Clean(qs) <=> Clean(ps)) /\ Rest(qs) = Rest(ps) /\ Cur(qs) = Cur(ps)
<1>1. SymNames(qs) = SymNames(ps)
  BY DEF SameText, SymNames
<1>2. Rest(qs) = Rest(ps) /\ Cur(qs) = Cur(ps)
  BY DEF SameText, Rest, Cur
<1>3. Clean(qs) <=> Clean(ps)
  BY <1>1 DEF SameText, Clean
<1> QED
  BY <1>2, <1>3

\* Nothing changes the text.
LEMMA FailText ==
  ASSUME NEW ps \in Parsers, NEW msg
  PROVE  Fail(ps, msg).toks = ps.toks
  BY DEF Fail, Parsers

LEMMA AdvanceText ==
  ASSUME NEW ps \in Parsers
  PROVE  /\ Advance(ps).toks = ps.toks
         /\ NoError(ps) => Advance(ps).pos = ps.pos + 1 /\ Advance(ps).syms = ps.syms
<1>1. CASE NoError(ps)
  <2>1. Advance(ps) = [ps EXCEPT !.pos = ps.pos + 1]
    BY <1>1 DEF Advance, NoError
  <2> QED
    BY <2>1 DEF Parsers
<1>2. CASE ~NoError(ps)
  BY <1>2 DEF Advance, NoError
<1> QED
  BY <1>1, <1>2

LEMMA ExpectText ==
  ASSUME NEW ps \in Parsers, NEW type
  PROVE  /\ Expect(ps, type).toks = ps.toks
         /\ NoError(Expect(ps, type)) => Sees(ps, {type}) /\ Expect(ps, type) = Advance(ps)
<1>1. CASE ~NoError(ps)
  BY <1>1 DEF Expect, NoError
<1>2. CASE NoError(ps) /\ Cur(ps).type = type
  <2>1. Expect(ps, type) = Advance(ps)
    BY <1>2 DEF Expect, NoError
  <2> QED
    BY <1>2, <2>1, AdvanceText DEF Sees, NoError
<1>3. CASE NoError(ps) /\ Cur(ps).type # type
  <2> DEFINE msg == "another token expected"
             qs == Fail(ps, msg)
  <2>1. Expect(ps, type) = qs
    BY <1>3 DEF Expect, NoError
  <2>2. qs.toks = ps.toks
    BY FailText
  <2>3. ~NoError(qs)
    <3>1. qs = [ps EXCEPT !.err = msg]
      BY <1>3 DEF Fail, NoError
    <3>2. qs.err = msg
      BY <3>1 DEF Parsers
    <3> QED
      BY <3>2 DEF NoError
  <2> QED
    BY <2>1, <2>2, <2>3
<1> QED
  BY <1>1, <1>2, <1>3

LEMMA NodeText ==
  ASSUME NEW ps \in Parsers, NEW n
  PROVE  /\ Node(ps, n).ps.toks = ps.toks
         /\ NoError(Node(ps, n).ps) => SameText(ps, Node(ps, n).ps)
<1> DEFINE r == Node(ps, n)
<1>1. CASE ~NoError(ps)
  BY <1>1 DEF Node, NoError
<1>2. CASE NoError(ps) /\ ps.nodes >= MaxNodes
  <2> DEFINE msg == "program too large"
             qs == Fail(ps, msg)
  <2>1. r.ps = qs
    BY <1>2 DEF Node, NoError
  <2>2. qs.toks = ps.toks
    BY FailText
  <2>3. qs = [ps EXCEPT !.err = msg]
    BY <1>2 DEF Fail, NoError
  <2>4. qs.err = msg
    BY <2>3 DEF Parsers
  <2> HIDE DEF r, qs
  <2>5. ~NoError(r.ps)
    BY <2>1, <2>4 DEF NoError
  <2> QED
    BY <2>1, <2>2, <2>5 DEF r
<1>3. CASE NoError(ps) /\ ~(ps.nodes >= MaxNodes)
  <2> DEFINE nodes == ps.nodes + 1
  <2>1. r.ps = [ps EXCEPT !.nodes = nodes]
    BY <1>3 DEF Node, NoError
  <2> HIDE DEF r, nodes
  <2>2. r.ps.toks = ps.toks /\ r.ps.pos = ps.pos /\ r.ps.syms = ps.syms
    BY <2>1 DEF Parsers
  <2> QED
    BY <2>2 DEF SameText, r
<1> QED
  BY <1>1, <1>2, <1>3

LEMMA NoNodeText ==
  ASSUME NEW ps \in Parsers, NEW msg
  PROVE  NoNode(ps, msg).ps.toks = ps.toks
  BY FailText DEF NoNode

\* The rest, token by token.
LEMMA RestIs ==
  ASSUME NEW t \in Seq(Tokens), NEW k \in 1 .. Len(t), NEW w, w = SubSeq(t, k, Len(t))
  PROVE  /\ w \in Seq(Tokens) /\ w # <<>> /\ Head(w) = t[k]
         /\ Tail(w) = SubSeq(t, k + 1, Len(t))
<1> DEFINE N == Len(t)
           v == SubSeq(t, k + 1, N)
<1>1. N \in Nat /\ k \in Nat /\ k >= 1 /\ k <= N /\ \A i \in 1 .. N : t[i] \in Tokens
  BY ElementOfSeq
<1>2. w \in Seq(Tokens) /\ Len(w) = N - k + 1 /\ \A i \in 1 .. N - k + 1 : w[i] = t[k + i - 1]
  BY <1>1
<1>3. v \in Seq(Tokens) /\ Len(v) = N - k /\ \A i \in 1 .. N - k : v[i] = t[k + i]
  BY <1>1
<1> HIDE DEF v, N
<1>4. w # <<>> /\ Head(w) = t[k]
  <2>1. Len(w) # 0 /\ w[1] = t[k]
    <3>1. 1 \in 1 .. N - k + 1 /\ k + 1 - 1 = k
      BY <1>1
    <3> QED
      BY <1>1, <1>2, <3>1
  <2> QED
    BY <1>2, <2>1
<1>5. Tail(w) \in Seq(Tokens) /\ Len(Tail(w)) = N - k /\ \A i \in 1 .. N - k : Tail(w)[i] = w[i + 1]
  BY <1>1, <1>2, <1>4
<1>6. \A i \in 1 .. N - k : Tail(w)[i] = v[i]
  <2> SUFFICES ASSUME NEW i \in 1 .. N - k PROVE Tail(w)[i] = v[i]
    OBVIOUS
  <2>1. i + 1 \in 1 .. N - k + 1 /\ k + (i + 1) - 1 = k + i
    BY <1>1
  <2> QED
    BY <1>2, <1>3, <1>5, <2>1
<1>7. Tail(w) = v
  BY <1>3, <1>5, <1>6, SeqEqual
<1> QED
  BY <1>2, <1>4, <1>7 DEF v, N

\* One token is taken.
LEMMA Took ==
  ASSUME NEW ps, Tidy(ps), Clean(ps), NoError(ps), Cur(ps).type \notin {"eof", "int"},
         Cur(ps).type = "ident" => Lookup(ps, Cur(ps).text) # 0
  PROVE  /\ Clean(Advance(ps))
         /\ Rest(ps) # <<>> /\ Head(Rest(ps)) = Cur(ps) /\ Rest(Advance(ps)) = Tail(Rest(ps))
<1> DEFINE qs == Advance(ps)
           t == ps.toks
           k == ps.pos - 1
           X == SymNames(ps)
<1>1. ps \in Parsers /\ t \in Seq(Tokens) /\ Len(t) \in Nat /\ ps.pos \in Nat
  BY DEF Tidy, Parsers
<1>2. Sound(t, k, X)
  BY DEF Clean
<1>3. ps.pos <= Len(t)
  <2>1. CASE ps.pos > Len(t)
    BY <2>1 DEF Cur, Tok
  <2> QED
    BY <1>1, <2>1
<1>4. Cur(ps) = t[ps.pos]
  BY <1>1, <1>3 DEF Cur
<1>5. qs.toks = t /\ qs.pos = ps.pos + 1 /\ SymNames(qs) = X
  <2>1. qs.toks = t /\ qs.pos = ps.pos + 1 /\ qs.syms = ps.syms
    BY <1>1, AdvanceText
  <2> QED
    BY <2>1 DEF SymNames
<1>6. ps.pos = k + 1 /\ qs.pos - 1 = k + 1
  BY <1>1, <1>5
<1>7. Cur(ps).type = "ident" => Cur(ps).text \in X
  BY <1>1, LookupFinds
<1> HIDE DEF qs, X, k, t
<1>8. Sound(t, k + 1, X)
  BY <1>1, <1>2, <1>3, <1>4, <1>6, <1>7, SoundNext
<1>9. Clean(qs)
  BY <1>5, <1>6, <1>8 DEF Clean
<1>10. Rest(ps) # <<>> /\ Head(Rest(ps)) = Cur(ps) /\ Rest(qs) = Tail(Rest(ps))
  <2>1. ps.pos \in 1 .. Len(t)
    <3>1. k \in Nat
      BY <1>2 DEF Sound
    <3> QED
      BY <1>1, <1>3, <1>6, <3>1
  <2>2. Rest(ps) = SubSeq(t, ps.pos, Len(t))
    BY DEF Rest, t
  <2>3. Rest(qs) = SubSeq(t, ps.pos + 1, Len(t))
    BY <1>5, <1>6 DEF Rest
  <2> QED
    BY <1>1, <1>4, <2>1, <2>2, <2>3, RestIs
<1> QED
  BY <1>9, <1>10 DEF qs

\* The tokens that are known by their types.
Marks == Types \ {"eof", "int", "ident", "num"}

LEMMA TookMark ==
  ASSUME NEW ps, Tidy(ps), Clean(ps), NEW type \in Marks, Sees(ps, {type}),
         NEW W, Rest(ps) \in W
  PROVE  Clean(Advance(ps)) /\ Rest(Advance(ps)) \in Behind(W, Tok(type))
<1>1. NoError(ps) /\ Cur(ps).type = type
  BY SeesNoError
<1>2. type \notin {"eof", "int", "ident", "num"}
  BY DEF Marks
<1>3. Cur(ps) = Tok(type)
  BY <1>1, <1>2, TidyIs, CurToken, TokenIs
<1>4. Clean(Advance(ps)) /\ Rest(ps) # <<>> /\ Head(Rest(ps)) = Cur(ps)
      /\ Rest(Advance(ps)) = Tail(Rest(ps))
  BY <1>1, <1>2, Took
<1> QED
  BY <1>3, <1>4, BehindIn

LEMMA TookName ==
  ASSUME NEW ps, Tidy(ps), Clean(ps), Sees(ps, {"ident"}), Lookup(ps, Cur(ps).text) # 0,
         NEW W, Rest(ps) \in W
  PROVE  Clean(Advance(ps)) /\ Rest(Advance(ps)) \in Behind(W, Ident(Cur(ps).text))
<1>1. NoError(ps) /\ Cur(ps).type = "ident"
  BY SeesNoError
<1>2. Cur(ps) = Ident(Cur(ps).text)
  BY <1>1, TidyIs, CurToken, TokenIs
<1>3. Cur(ps).type \notin {"eof", "int"}
  BY <1>1
<1>4. Clean(Advance(ps)) /\ Rest(ps) # <<>> /\ Head(Rest(ps)) = Cur(ps)
      /\ Rest(Advance(ps)) = Tail(Rest(ps))
  BY <1>1, <1>3, Took
<1> QED
  BY <1>2, <1>4, BehindIn

-----------------------------------------------------------------------------
(* What expressions are read from. *)

\* The parser is where W has all that is left.
Before(ps, W) == Clean(ps) /\ W \in Remains /\ Rest(ps) \in W

Goes(ps, qs, W) == qs.toks = ps.toks /\ Before(qs, W)

LEMMA GoesOn ==
  ASSUME NEW ps, NEW qs, NEW V, Goes(ps, qs, V), NEW rs, NEW W, Goes(qs, rs, W)
  PROVE  Goes(ps, rs, W)
  BY DEF Goes

LEMMA GoesIs ==
  ASSUME NEW ps, NEW qs, NEW W, Goes(ps, qs, W)
  PROVE  Before(qs, W)
  BY DEF Goes

\* A token is passed.
LEMMA MarkPassed ==
  ASSUME NEW ps, Tidy(ps), Clean(ps), NEW type \in Marks, Sees(ps, {type}),
         NEW qs, qs = Advance(ps)
  PROVE  /\ qs.toks = ps.toks /\ Clean(qs) /\ qs.pos = ps.pos + 1
         /\ \A W : Rest(ps) \in W => Rest(qs) \in Behind(W, Tok(type))
<1>1. ps \in Parsers /\ NoError(ps)
  BY TidyIs, SeesNoError
<1>2. qs.toks = ps.toks /\ qs.pos = ps.pos + 1
  BY <1>1, AdvanceText
<1>3. \A W : Rest(ps) \in W => Clean(qs) /\ Rest(qs) \in Behind(W, Tok(type))
  BY TookMark
<1>4. Rest(ps) \in {Rest(ps)}
  OBVIOUS
<1> QED
  BY <1>2, <1>3, <1>4

LEMMA NamePassed ==
  ASSUME NEW ps, Tidy(ps), Clean(ps), Sees(ps, {"ident"}), Lookup(ps, Cur(ps).text) # 0,
         NEW qs, qs = Advance(ps)
  PROVE  /\ qs.toks = ps.toks /\ Clean(qs) /\ qs.pos = ps.pos + 1
         /\ \A W : Rest(ps) \in W => Rest(qs) \in Behind(W, Ident(Cur(ps).text))
<1>1. ps \in Parsers /\ NoError(ps)
  BY TidyIs, SeesNoError
<1>2. qs.toks = ps.toks /\ qs.pos = ps.pos + 1
  BY <1>1, AdvanceText
<1>3. \A W : Rest(ps) \in W => Clean(qs) /\ Rest(qs) \in Behind(W, Ident(Cur(ps).text))
  BY TookName
<1>4. Rest(ps) \in {Rest(ps)}
  OBVIOUS
<1> QED
  BY <1>2, <1>3, <1>4

LEMMA ExpectPassed ==
  ASSUME NEW ps, Tidy(ps), Clean(ps), NEW type \in Marks,
         NEW qs, qs = Expect(ps, type), NoError(qs)
  PROVE  /\ qs.toks = ps.toks /\ Clean(qs) /\ qs.pos = ps.pos + 1
         /\ \A W : Rest(ps) \in W => Rest(qs) \in Behind(W, Tok(type))
<1>1. Sees(ps, {type}) /\ qs = Advance(ps)
  BY TidyIs, ExpectText
<1> QED
  BY <1>1, MarkPassed

LEMMA NodePassed ==
  ASSUME NEW ps, Tidy(ps), NEW n, NEW s, s = Node(ps, n), NoError(s.ps)
  PROVE  /\ s.n = n /\ NoError(ps) /\ s.ps.toks = ps.toks /\ s.ps.pos = ps.pos
         /\ (Clean(s.ps) <=> Clean(ps)) /\ Rest(s.ps) = Rest(ps) /\ Cur(s.ps) = Cur(ps)
<1>1. SameText(ps, s.ps)
  BY TidyIs, NodeText
<1>2. s.n = n /\ Comes(ps, s.ps)
  BY NodeIs
<1>3. NoError(ps)
  BY <1>2, ComesTidy
<1> QED
  BY <1>1, <1>2, <1>3, SameTextIs DEF SameText

LEMMA MarkGoes ==
  ASSUME NEW ps, Tidy(ps), NEW W, Before(ps, W), NEW type \in Marks, Sees(ps, {type})
  PROVE  Goes(ps, Advance(ps), Behind(W, Tok(type)))
<1> DEFINE qs == Advance(ps)
<1>1. Clean(ps) /\ W \in Remains /\ Rest(ps) \in W
  BY DEF Before
<1>2. qs = Advance(ps)
  OBVIOUS
<1> HIDE DEF qs
<1>3. qs.toks = ps.toks /\ Clean(qs) /\ Rest(qs) \in Behind(W, Tok(type))
  BY <1>1, <1>2, MarkPassed
<1>4. Behind(W, Tok(type)) \in Remains
  BY <1>1, BehindIs
<1> QED
  BY <1>3, <1>4 DEF Goes, Before, qs

LEMMA ExpectMarkGoes ==
  ASSUME NEW ps, Tidy(ps), NEW W, Before(ps, W), NEW type \in Marks, NoError(Expect(ps, type))
  PROVE  Goes(ps, Expect(ps, type), Behind(W, Tok(type)))
<1>1. Sees(ps, {type}) /\ Expect(ps, type) = Advance(ps)
  BY TidyIs, ExpectText
<1> QED
  BY <1>1, MarkGoes

LEMMA NameGoes ==
  ASSUME NEW ps, Tidy(ps), NEW W, Before(ps, W), Sees(ps, {"ident"}), Lookup(ps, Cur(ps).text) # 0
  PROVE  Goes(ps, Advance(ps), Behind(W, Ident(Cur(ps).text)))
<1> DEFINE qs == Advance(ps)
           x == Cur(ps).text
<1>1. Clean(ps) /\ W \in Remains /\ Rest(ps) \in W
  BY DEF Before
<1>2. qs = Advance(ps)
  OBVIOUS
<1> HIDE DEF qs
<1>3. qs.toks = ps.toks /\ Clean(qs) /\ Rest(qs) \in Behind(W, Ident(x))
  BY <1>1, <1>2, NamePassed
<1> HIDE DEF x
<1>4. Behind(W, Ident(x)) \in Remains
  BY <1>1, BehindIs
<1> QED
  BY <1>3, <1>4 DEF Goes, Before, qs, x

LEMMA NodeGoes ==
  ASSUME NEW ps, Tidy(ps), NEW W, Before(ps, W), NEW n, NoError(Node(ps, n).ps)
  PROVE  Goes(ps, Node(ps, n).ps, W) /\ Node(ps, n).n = n /\ NoError(ps)
<1> DEFINE s == Node(ps, n)
<1>1. s = Node(ps, n) /\ NoError(s.ps)
  OBVIOUS
<1> HIDE DEF s
<1>2. s.n = n /\ NoError(ps) /\ s.ps.toks = ps.toks /\ (Clean(s.ps) <=> Clean(ps))
      /\ Rest(s.ps) = Rest(ps)
  BY <1>1, NodePassed
<1> QED
  BY <1>1, <1>2 DEF Goes, Before

\* What was read from ps on is the expression, where one must bind as tight as any
\* level up to k: it takes no more tokens than the parser did.
Spells(ps, r, k) ==
  NoError(r.ps) /\ Clean(ps) =>
    /\ r.ps.toks = ps.toks /\ Clean(r.ps) /\ ps.pos <= r.ps.pos
    /\ \A N \in Nat : \A d \in 0 .. N, l \in 1 .. k, W \in Remains :
         r.ps.pos - ps.pos <= d /\ Rest(ps) \in W => Rest(r.ps) \in BehindExprs(N)[d][r.n][l][W]

Renders(ps, r, k) == Reads(ps, r) /\ Spells(ps, r, k)

\* A function that reads expressions as they are written.
Renderer(f, k) == \A ps \in Parsers : Tidy(ps) => Renders(ps, f[ps], k)

LEMMA RendersLess ==
  ASSUME NEW ps, NEW r, NEW k \in Nat, Renders(ps, r, k), NEW j \in Nat, j <= k
  PROVE  Renders(ps, r, j)
<1>1. \A l \in 1 .. j : l \in 1 .. k
  OBVIOUS
<1>2. Spells(ps, r, j)
  BY <1>1 DEF Renders, Spells
<1> QED
  BY <1>2 DEF Renders

LEMMA RendererOne ==
  ASSUME NEW f, NEW k, Renderer(f, k), NEW ps, Tidy(ps)
  PROVE  Renders(ps, f[ps], k)
  BY TidyIs DEF Renderer

LEMMA RendererReads ==
  ASSUME NEW f, NEW k, Renderer(f, k)
  PROVE  Reader(f)
  BY DEF Renderer, Renders, Reader

LEMMA ReadsWhole ==
  ASSUME NEW ps, Tidy(ps), NEW r, Reads(ps, r), NoError(r.ps)
  PROVE  r.n \in Whole /\ NoError(ps)
<1>1. Comes(ps, r.ps) /\ IsExpr(ps, r)
  BY DEF Reads
<1> QED
  BY <1>1, IsExprWhole, ComesTidy

LEMMA OperatorMarks == Operators \subseteq Marks
  BY DEF Marks, Types, Operators, Relations

LEMMA PosIs ==
  ASSUME NEW ps, Tidy(ps)
  PROVE  ps.pos \in Nat
  BY DEF Tidy, Parsers

\* Where the left side of an operator of level k must bind.
LeftOf(k) == IF k = 1 THEN 2 ELSE k

LEMMA BinopSpells ==
  ASSUME NEW k \in 1 .. 3, NEW operand, Renderer(operand, k + 1),
         NEW operators, operators \subseteq Operators, \A op \in operators : Level(op) = k,
         NEW ps, Tidy(ps), NEW r, Renders(ps, r, LeftOf(k)), Sees(r.ps, operators),
         NEW rhs, rhs = operand[Advance(r.ps)]
  PROVE  Spells(ps, Node(rhs.ps, Binop(Cur(r.ps).type, r.n, rhs.n)), k)
<1> DEFINE op == Cur(r.ps).type
           n == Binop(op, r.n, rhs.n)
           next == Advance(r.ps)
           s == Node(rhs.ps, n)
           i == LeftOf(k)
<1>1. NoError(r.ps) /\ op \in Marks /\ Sees(r.ps, {op}) /\ Level(op) = k
  BY SeesNoError, OperatorMarks DEF Sees
<1>2. Reads(ps, r) /\ Tidy(r.ps)
  BY ReadsComes DEF Renders
<1>3. Reads(ps, s)
  BY <1>2, RendererReads, BinopReads
<1>4. Tidy(next)
  BY <1>2, AdvanceKeeps, KeepsTidy
<1>5. Renders(next, rhs, k + 1)
  BY <1>4, RendererOne
<1>6. Tidy(rhs.ps)
  BY <1>5, ReadsComes DEF Renders
<1>7. n.kind = "binop" /\ n.op = op /\ n.a = r.n /\ n.b = rhs.n
  BY DEF Binop
<1>8. i \in 1 .. 4 /\ i \in 1 .. i /\ k + 1 \in 1 .. 4 /\ k + 1 \in 1 .. k + 1
  BY DEF LeftOf
<1>9. next = Advance(r.ps) /\ s = Node(rhs.ps, n)
  OBVIOUS
<1> HIDE DEF i, n, s, next, op
<1> SUFFICES ASSUME NoError(s.ps), Clean(ps)
             PROVE  /\ s.ps.toks = ps.toks /\ Clean(s.ps) /\ ps.pos <= s.ps.pos
                    /\ \A N \in Nat : \A d \in 0 .. N, l \in 1 .. k, W \in Remains :
                         s.ps.pos - ps.pos <= d /\ Rest(ps) \in W =>
                           Rest(s.ps) \in BehindExprs(N)[d][s.n][l][W]
  BY DEF Spells, n, s, op
<1>10. Spells(ps, r, i)
  BY DEF Renders, i
<1>11. /\ r.ps.toks = ps.toks /\ Clean(r.ps) /\ ps.pos <= r.ps.pos
       /\ \A N \in Nat : \A d \in 0 .. N, l \in 1 .. i, W \in Remains :
            r.ps.pos - ps.pos <= d /\ Rest(ps) \in W => Rest(r.ps) \in BehindExprs(N)[d][r.n][l][W]
  BY <1>1, <1>10 DEF Spells
<1>12. /\ next.toks = r.ps.toks /\ Clean(next) /\ next.pos = r.ps.pos + 1
       /\ \A W : Rest(r.ps) \in W => Rest(next) \in Behind(W, Tok(op))
  BY <1>1, <1>2, <1>9, <1>11, MarkPassed
<1>13. /\ s.n = n /\ NoError(rhs.ps) /\ s.ps.toks = rhs.ps.toks /\ s.ps.pos = rhs.ps.pos
       /\ (Clean(s.ps) <=> Clean(rhs.ps)) /\ Rest(s.ps) = Rest(rhs.ps)
  BY <1>6, <1>9, NodePassed
<1>14. Spells(next, rhs, k + 1)
  BY <1>5 DEF Renders
<1>15. /\ rhs.ps.toks = next.toks /\ Clean(rhs.ps) /\ next.pos <= rhs.ps.pos
       /\ \A N \in Nat : \A d \in 0 .. N, l \in 1 .. k + 1, W \in Remains :
            rhs.ps.pos - next.pos <= d /\ Rest(next) \in W =>
              Rest(rhs.ps) \in BehindExprs(N)[d][rhs.n][l][W]
  BY <1>12, <1>13, <1>14 DEF Spells
<1>16. s.n \in Whole
  BY <1>3, ReadsWhole
<1>17. n \in Whole /\ r.n \in Whole
  BY <1>7, <1>13, <1>16, WholeForms
<1>18. ps.pos \in Nat /\ r.ps.pos \in Nat /\ rhs.ps.pos \in Nat
  BY <1>2, <1>6, PosIs
<1>19. ps.pos <= s.ps.pos
  BY <1>11, <1>12, <1>13, <1>15, <1>18
<1>20. ASSUME NEW N \in Nat, NEW d \in 0 .. N, NEW l \in 1 .. k, NEW W \in Remains,
              s.ps.pos - ps.pos <= d, Rest(ps) \in W
       PROVE  Rest(s.ps) \in BehindExprs(N)[d][s.n][l][W]
  <2> DEFINE u == BehindExprs(N)[d - 1]
             X == u[r.n][i][W]
             V == Behind(X, Tok(op))
  <2>1. d \in 1 .. N /\ d - 1 \in 0 .. N /\ r.ps.pos - ps.pos <= d - 1 /\ rhs.ps.pos - next.pos <= d - 1
    BY <1>11, <1>12, <1>13, <1>15, <1>18, <1>20
  <2>2. Rest(r.ps) \in X
    BY <1>8, <1>11, <1>20, <2>1
  <2>3. X \in Remains
    <3>1. Leaves(u)
      BY <2>1, BehindExprsLeave
    <3> HIDE DEF u
    <3> QED
      BY <1>8, <1>17, <3>1 DEF Leaves
  <2> HIDE DEF X
  <2>4. Rest(next) \in V /\ V \in Remains
    BY <1>12, <2>2, <2>3, BehindIs
  <2> HIDE DEF V
  <2>5. Rest(rhs.ps) \in u[rhs.n][k + 1][V]
    BY <1>8, <1>15, <2>1, <2>4
  <2> HIDE DEF u
  <2>6. TakeBare(u, n, W) = u[rhs.n][k + 1][V]
    BY <1>1, <1>7 DEF TakeBare, V, X, i, LeftOf
  <2>7. Rest(s.ps) \in TakeBare(u, n, W)
    BY <1>13, <2>5, <2>6
  <2>8. l <= Binds(n) /\ l \in 1 .. 4 /\ W # {}
    BY <1>1, <1>7, <1>20 DEF Binds
  <2> QED
    BY <1>13, <1>17, <2>1, <2>7, <2>8, BareIn DEF u
<1> QED
  BY <1>11, <1>12, <1>13, <1>15, <1>19, <1>20

LEMMA ChainRenders ==
  ASSUME NEW k \in 2 .. 3, NEW operand, Renderer(operand, k + 1),
         NEW operators, operators \subseteq Operators, \A op \in operators : Level(op) = k,
         NEW rounds \in Nat, NEW ps, Tidy(ps)
  PROVE  Renders(ps, Chain(operand, operators, rounds, ps), k)
<1> DEFINE f == Links(operand, operators, rounds)
           I == {j \in 0 .. rounds : \A r : Renders(ps, r, k) => Renders(ps, f[j][r], k)}
<1>1. Chain(operand, operators, rounds, ps) = f[rounds][operand[ps]]
  BY ChainIs
<1>2. \A j \in 0 .. rounds : f[j] = ChainStep(operand, operators, j, f[j - 1])
  BY ChainIs
<1> HIDE DEF f
<1>3. ASSUME NEW j \in 0 .. rounds, NEW r, Renders(ps, r, k), j = 0 \/ ~Sees(r.ps, operators)
      PROVE  Renders(ps, f[j][r], k)
  <2>1. r \in Parsed(MaxNodes)
    BY <1>3, ReadsComes DEF Renders
  <2>2. ChainStep(operand, operators, j, f[j - 1])[r] = r
    BY <1>3, <2>1 DEF ChainStep
  <2> QED
    BY <1>2, <1>3, <2>2
<1>4. 0 \in I
  BY <1>3
<1>5. ASSUME NEW j \in 1 .. rounds, j - 1 \in I
      PROVE  j \in I
  <2>1. j \in 0 .. rounds /\ j # 0
    OBVIOUS
  <2>2. ASSUME NEW r, Renders(ps, r, k)
        PROVE  Renders(ps, f[j][r], k)
    <3>1. CASE ~Sees(r.ps, operators)
      BY <1>3, <2>1, <2>2, <3>1
    <3>2. CASE Sees(r.ps, operators)
      <4> DEFINE rhs == operand[Advance(r.ps)]
                 next == Node(rhs.ps, Binop(Cur(r.ps).type, r.n, rhs.n))
      <4>1. Reads(ps, next)
        BY <2>2, <3>2, RendererReads, BinopReads DEF Renders
      <4>2. Spells(ps, next, k)
        <5>1. k \in 1 .. 3 /\ LeftOf(k) = k
          BY DEF LeftOf
        <5> QED
          BY <2>2, <3>2, <5>1, BinopSpells
      <4>3. r \in Parsed(MaxNodes)
        BY <2>2, ReadsComes DEF Renders
      <4>4. ChainStep(operand, operators, j, f[j - 1])[r] = f[j - 1][next]
        BY <2>1, <3>2, <4>3 DEF ChainStep
      <4> HIDE DEF next
      <4>5. Renders(ps, next, k)
        BY <4>1, <4>2 DEF Renders
      <4>6. Renders(ps, f[j - 1][next], k)
        BY <1>5, <4>5
      <4> QED
        BY <1>2, <2>1, <4>4, <4>6
    <3> QED
      BY <3>1, <3>2
  <2> QED
    BY <2>1, <2>2
<1>6. Renders(ps, operand[ps], k)
  BY RendererOne, RendersLess
<1> HIDE DEF I
<1>7. rounds \in 0 .. rounds
  OBVIOUS
<1>8. rounds \in I
  BY <1>4, <1>5, <1>7, Induction DEF Inductive
<1> QED
  BY <1>1, <1>6, <1>8 DEF I

\* A comparison is no side of another.
LEMMA OnceRenders ==
  ASSUME NEW operand, Renderer(operand, 2), NEW ps, Tidy(ps)
  PROVE  Renders(ps, Chain(operand, Relations, 1, ps), 1)
<1> DEFINE f == Links(operand, Relations, 1)
           r == operand[ps]
<1>1. 0 \in 0 .. 1 /\ 1 \in 0 .. 1 /\ 1 \in Nat /\ 1 \in 1 .. 3 /\ 1 - 1 = 0 /\ LeftOf(1) = 2 /\ 1 + 1 = 2
  BY DEF LeftOf
<1>2. Chain(operand, Relations, 1, ps) = f[1][r]
  BY <1>1, ChainIs
<1>3. f[1] = ChainStep(operand, Relations, 1, f[0]) /\ f[0] = ChainStep(operand, Relations, 0, f[0 - 1])
  <2>1. \A j \in 0 .. 1 : f[j] = ChainStep(operand, Relations, j, f[j - 1])
    BY <1>1, ChainIs
  <2> HIDE DEF f
  <2>2. f[1] = ChainStep(operand, Relations, 1, f[1 - 1])
    BY <1>1, <2>1
  <2>3. f[0] = ChainStep(operand, Relations, 0, f[0 - 1])
    BY <1>1, <2>1
  <2> QED
    BY <1>1, <2>2, <2>3
<1>4. Renders(ps, r, 2)
  BY RendererOne
<1> HIDE DEF f, r
<1>5. r \in Parsed(MaxNodes)
  BY <1>4, ReadsComes DEF Renders
<1>6. Relations \subseteq Operators /\ \A op \in Relations : Level(op) = 1
  BY DEF Operators, Level
<1>7. CASE ~Sees(r.ps, Relations)
  <2>1. f[1][r] = r
    BY <1>3, <1>5, <1>7 DEF ChainStep
  <2>2. Renders(ps, r, 1)
    BY <1>4, RendersLess
  <2> QED
    BY <1>2, <2>1, <2>2
<1>8. CASE Sees(r.ps, Relations)
  <2> DEFINE rhs == operand[Advance(r.ps)]
             next == Node(rhs.ps, Binop(Cur(r.ps).type, r.n, rhs.n))
  <2>1. Reads(ps, next)
    BY <1>4, <1>6, <1>8, RendererReads, BinopReads DEF Renders
  <2>2. Spells(ps, next, 1)
    BY <1>1, <1>4, <1>6, <1>8, BinopSpells
  <2>3. f[1][r] = f[0][next]
    BY <1>3, <1>5, <1>8 DEF ChainStep
  <2> HIDE DEF next
  <2>4. next \in Parsed(MaxNodes)
    BY <2>1, ReadsComes
  <2>5. f[0][next] = next
    BY <1>3, <2>4 DEF ChainStep
  <2>6. Renders(ps, next, 1)
    BY <2>1, <2>2 DEF Renders
  <2> QED
    BY <1>2, <2>3, <2>5, <2>6
<1> QED
  BY <1>7, <1>8

LEMMA LevelsAre ==
  /\ \A op \in {"*", "/"} : Level(op) = 3
  /\ \A op \in {"+", "-"} : Level(op) = 2
  BY DEF Level, Relations

LEMMA ComparisonRenders ==
  ASSUME NEW unary, Renderer(unary, 4)
  PROVE  Renderer(Comparison(unary), 1)
<1>1. Renderer(Term(unary), 3)
  <2>1. ASSUME NEW ps \in Parsers, Tidy(ps)
        PROVE  Renders(ps, Term(unary)[ps], 3)
    <3>1. Term(unary)[ps] = Chain(unary, {"*", "/"}, Len(ps.toks), ps)
      BY DEF Term
    <3>2. 3 \in 2 .. 3 /\ 3 + 1 = 4
      OBVIOUS
    <3> QED
      BY <2>1, <3>1, <3>2, TidyIs, OperatorsAre, LevelsAre, ChainRenders
  <2> QED
    BY <2>1 DEF Renderer
<1>2. Renderer(Additive(unary), 2)
  <2>1. ASSUME NEW ps \in Parsers, Tidy(ps)
        PROVE  Renders(ps, Additive(unary)[ps], 2)
    <3>1. Additive(unary)[ps] = Chain(Term(unary), {"+", "-"}, Len(ps.toks), ps)
      BY DEF Additive
    <3>2. 2 \in 2 .. 3 /\ 2 + 1 = 3
      OBVIOUS
    <3> QED
      BY <1>1, <2>1, <3>1, <3>2, TidyIs, OperatorsAre, LevelsAre, ChainRenders
  <2> QED
    BY <2>1 DEF Renderer
<1>3. ASSUME NEW ps \in Parsers, Tidy(ps)
      PROVE  Renders(ps, Comparison(unary)[ps], 1)
  <2>1. Comparison(unary)[ps] = Chain(Additive(unary), Relations, 1, ps)
    BY DEF Comparison
  <2> QED
    BY <1>2, <1>3, <2>1, OnceRenders
<1> QED
  BY <1>3 DEF Renderer

LEMMA ReadsWith ==
  ASSUME NEW ps, NEW r, Reads(ps, r), NEW qs, NEW s, s = [r EXCEPT !.ps = qs]
  PROVE  s.ps = qs /\ s.n = r.n
<1>1. r \in [ps : Parsers, n : Whole \cup {Nothing}]
  BY ReadsComes DEF Parsed, Whole
<1> QED
  BY <1>1

\* The texts that an expression of one token leaves.
LEMMA LeafSpells ==
  ASSUME NEW ps, Tidy(ps), NEW s, NEW t, s.n \in Whole, Binds(s.n) = 4,
         \A u, W : TakeBare(u, s.n, W) = Behind(W, t),
         s.ps.toks = ps.toks, Clean(s.ps), s.ps.pos = ps.pos + 1,
         \A W : Rest(ps) \in W => Rest(s.ps) \in Behind(W, t)
  PROVE  Spells(ps, s, 4)
<1>1. ps.pos \in Nat
  BY PosIs
<1>2. ps.pos <= s.ps.pos
  BY <1>1
<1>3. ASSUME NEW N \in Nat, NEW d \in 0 .. N, NEW l \in 1 .. 4, NEW W \in Remains,
             s.ps.pos - ps.pos <= d, Rest(ps) \in W
      PROVE  Rest(s.ps) \in BehindExprs(N)[d][s.n][l][W]
  <2>1. d \in 1 .. N
    BY <1>1, <1>3
  <2>2. Rest(s.ps) \in TakeBare(BehindExprs(N)[d - 1], s.n, W)
    BY <1>3
  <2>3. W # {} /\ l <= Binds(s.n)
    BY <1>3
  <2> QED
    BY <2>1, <2>2, <2>3, BareIn
<1> QED
  BY <1>2, <1>3 DEF Spells

LEMMA NumSpells ==
  ASSUME NEW ps, Tidy(ps), Sees(ps, {"num"}),
         NEW n, n = [kind |-> "num", val |-> Cur(ps).val],
         NEW r, r = Node(ps, n), NEW s, s = [r EXCEPT !.ps = Advance(r.ps)],
         Reads(ps, r), Reads(ps, s)
  PROVE  Spells(ps, s, 4)
<1> SUFFICES ASSUME NoError(s.ps), Clean(ps)
             PROVE  Spells(ps, s, 4)
  BY DEF Spells
<1> DEFINE qs == Advance(r.ps)
           t == Cur(ps)
<1>1. s.ps = qs /\ s.n = r.n
  BY ReadsWith
<1>2. Tidy(r.ps) /\ r.ps \in Parsers
  BY ReadsComes, TidyIs
<1>3. NoError(r.ps)
  BY <1>1, <1>2, AdvanceKeeps
<1>4. /\ r.n = n /\ r.ps.toks = ps.toks /\ r.ps.pos = ps.pos
      /\ Clean(r.ps) /\ Rest(r.ps) = Rest(ps) /\ Cur(r.ps) = Cur(ps)
  BY <1>3, NodePassed
<1>5. t.type = "num" /\ t = Num(t.val)
  BY SeesNoError, TidyIs, CurToken, TokenIs
<1>6. Clean(qs) /\ Rest(ps) # <<>> /\ Head(Rest(ps)) = t /\ Rest(qs) = Tail(Rest(ps))
  <2>1. Cur(r.ps).type \notin {"eof", "int"} /\ Cur(r.ps).type # "ident"
    BY <1>4, <1>5
  <2> QED
    BY <1>2, <1>3, <1>4, <2>1, Took
<1>7. qs.toks = ps.toks /\ qs.pos = ps.pos + 1
  <2>1. qs.toks = r.ps.toks /\ qs.pos = r.ps.pos + 1
    BY <1>2, <1>3, AdvanceText
  <2> HIDE DEF qs
  <2> QED
    BY <1>4, <2>1
<1>8. s.n \in Whole
  BY ReadsWhole
<1>9. n.kind = "num" /\ n.val = t.val
  OBVIOUS
<1> HIDE DEF qs, t
<1>10. Binds(s.n) = 4 /\ \A u, W : TakeBare(u, s.n, W) = Behind(W, t)
  BY <1>1, <1>4, <1>5, <1>9 DEF Binds, TakeBare
<1>11. \A W : Rest(ps) \in W => Rest(qs) \in Behind(W, t)
  BY <1>6, BehindIn
<1> QED
  BY <1>1, <1>6, <1>7, <1>8, <1>10, <1>11, LeafSpells

LEMMA VarSpells ==
  ASSUME NEW ps, Tidy(ps), Sees(ps, {"ident"}), Lookup(ps, Cur(ps).text) # 0,
         NEW s, s = Node(Advance(ps), Var(ps, Cur(ps).text)), Reads(ps, s)
  PROVE  Spells(ps, s, 4)
<1> SUFFICES ASSUME NoError(s.ps), Clean(ps)
             PROVE  Spells(ps, s, 4)
  BY DEF Spells
<1> DEFINE x == Cur(ps).text
           qs == Advance(ps)
           n == Var(ps, x)
           t == Ident(x)
<1>1. qs = Advance(ps) /\ s = Node(qs, n)
  OBVIOUS
<1>2. Tidy(qs)
  BY AdvanceKeeps, KeepsTidy
<1>3. n.kind = "var" /\ n.name = x
  BY DEF Var
<1> HIDE DEF n, qs
<1>4. /\ qs.toks = ps.toks /\ Clean(qs) /\ qs.pos = ps.pos + 1
      /\ \A W : Rest(ps) \in W => Rest(qs) \in Behind(W, t)
  BY <1>1, NamePassed
<1>5. /\ s.n = n /\ s.ps.toks = qs.toks /\ s.ps.pos = qs.pos
      /\ Clean(s.ps) /\ Rest(s.ps) = Rest(qs)
  BY <1>1, <1>2, <1>4, NodePassed
<1>6. s.n \in Whole
  BY ReadsWhole
<1>7. Binds(s.n) = 4 /\ \A u, W : TakeBare(u, s.n, W) = Behind(W, t)
  BY <1>3, <1>5 DEF Binds, TakeBare
<1> HIDE DEF t, x
<1> QED
  BY <1>4, <1>5, <1>6, <1>7, LeafSpells

LEMMA BracketSpells ==
  ASSUME NEW unary, Renderer(unary, 4), NEW ps, Tidy(ps), Sees(ps, {"("}),
         NEW r, r = Comparison(unary)[Advance(ps)],
         NEW s, s = [r EXCEPT !.ps = Expect(r.ps, ")")]
  PROVE  Spells(ps, s, 4)
<1> SUFFICES ASSUME NoError(s.ps), Clean(ps)
             PROVE  Spells(ps, s, 4)
  BY DEF Spells
<1> DEFINE at == Advance(ps)
           qs == Expect(r.ps, ")")
<1>1. at = Advance(ps) /\ qs = Expect(r.ps, ")")
  OBVIOUS
<1>2. Tidy(at)
  BY AdvanceKeeps, KeepsTidy
<1>3. Renders(at, r, 1)
  BY <1>2, ComparisonRenders, RendererOne
<1> HIDE DEF at
<1>4. Reads(at, r) /\ Spells(at, r, 1) /\ Tidy(r.ps)
  BY <1>3, ReadsComes DEF Renders
<1>5. s.ps = qs /\ s.n = r.n
  BY <1>4, ReadsWith
<1>6. NoError(r.ps)
  BY <1>4, <1>5, ExpectKeeps, KeepsTidy
<1> HIDE DEF qs
<1>7. "(" \in Marks /\ ")" \in Marks
  BY DEF Marks, Types
<1>8. /\ at.toks = ps.toks /\ Clean(at) /\ at.pos = ps.pos + 1
      /\ \A W : Rest(ps) \in W => Rest(at) \in Behind(W, Tok("("))
  BY <1>1, <1>7, MarkPassed
<1>9. /\ r.ps.toks = at.toks /\ Clean(r.ps) /\ at.pos <= r.ps.pos
      /\ \A N \in Nat : \A d \in 0 .. N, l \in 1 .. 1, W \in Remains :
           r.ps.pos - at.pos <= d /\ Rest(at) \in W => Rest(r.ps) \in BehindExprs(N)[d][r.n][l][W]
  BY <1>4, <1>6, <1>8 DEF Spells
<1>10. /\ qs.toks = r.ps.toks /\ Clean(qs) /\ qs.pos = r.ps.pos + 1
       /\ \A W : Rest(r.ps) \in W => Rest(qs) \in Behind(W, Tok(")"))
  BY <1>1, <1>4, <1>5, <1>7, <1>9, ExpectPassed
<1>11. r.n \in Whole
  BY <1>2, <1>4, <1>6, ReadsWhole
<1>12. ps.pos \in Nat /\ r.ps.pos \in Nat
  BY <1>4, PosIs
<1>13. ps.pos <= qs.pos
  BY <1>8, <1>9, <1>10, <1>12
<1>14. ASSUME NEW N \in Nat, NEW d \in 0 .. N, NEW l \in 1 .. 4, NEW W \in Remains,
              qs.pos - ps.pos <= d, Rest(ps) \in W
       PROVE  Rest(qs) \in BehindExprs(N)[d][r.n][l][W]
  <2> DEFINE V == Behind(W, Tok("("))
  <2>1. d \in 1 .. N /\ d - 1 \in 0 .. N /\ r.ps.pos - at.pos <= d - 1 /\ 1 \in 1 .. 1
    BY <1>8, <1>9, <1>10, <1>12, <1>14
  <2>2. Rest(at) \in V /\ V \in Remains
    BY <1>8, <1>14, BehindIs
  <2> HIDE DEF V
  <2>3. Rest(r.ps) \in BehindExprs(N)[d - 1][r.n][1][V]
    BY <1>9, <2>1, <2>2
  <2>4. Rest(qs) \in Behind(BehindExprs(N)[d - 1][r.n][1][V], Tok(")"))
    BY <1>10, <2>3
  <2>5. W # {}
    BY <1>14
  <2> QED
    BY <1>11, <2>1, <2>4, <2>5, BracketIn DEF V
<1> QED
  BY <1>5, <1>8, <1>9, <1>10, <1>13, <1>14 DEF Spells

\* A parse that fails spells nothing.
LEMMA NoNodeSpells ==
  ASSUME NEW ps, Tidy(ps), NEW msg \in Messages
  PROVE  Spells(ps, NoNode(ps, msg), 4)
  BY NoNodeIs DEF Spells

LEMMA PrimaryRenders ==
  ASSUME NEW unary, Renderer(unary, 4), NEW ps, Tidy(ps)
  PROVE  Renders(ps, Primary(unary, ps), 4)
<1> DEFINE p == Primary(unary, ps)
<1>1. Reads(ps, p)
  BY RendererReads, PrimaryReads
<1>2. CASE Sees(ps, {"num"})
  <2> DEFINE n == [kind |-> "num", val |-> Cur(ps).val]
             r == Node(ps, n)
             s == [r EXCEPT !.ps = Advance(r.ps)]
  <2>1. ~Sees(ps, {"ident"}) /\ ~Sees(ps, {"("})
    BY <1>2, SeesOne
  <2>2. p = s
    BY <1>2, <2>1 DEF Primary
  <2>3. Reads(ps, r)
    <3>1. n \in [kind : {"num"}, val : Int]
      BY TidyIs, CurIs
    <3>2. n \in ExprOver(Len(ps.syms), ExprTrees(Len(ps.syms))[ps.nodes - ps.nodes])
      BY <3>1, LeafOver
    <3> HIDE DEF n
    <3> QED
      BY <3>2, ComesSelf, ReadsNode
  <2> HIDE DEF p
  <2>4. Reads(ps, s)
    BY <1>1, <2>2
  <2>5. Spells(ps, s, 4)
    BY <1>2, <2>3, <2>4, NumSpells
  <2> QED
    BY <1>1, <2>2, <2>5 DEF Renders, p
<1>3. CASE Sees(ps, {"ident"}) /\ Lookup(ps, Cur(ps).text) = 0
  <2>1. ~Sees(ps, {"num"}) /\ ~Sees(ps, {"("})
    BY <1>3, SeesOne
  <2>2. p = NoNode(ps, "undeclared")
    BY <1>3, <2>1 DEF Primary
  <2>3. Spells(ps, p, 4)
    BY <2>2, MessagesAre, NoNodeSpells
  <2> HIDE DEF p
  <2> QED
    BY <1>1, <2>3 DEF Renders, p
<1>4. CASE Sees(ps, {"ident"}) /\ Lookup(ps, Cur(ps).text) # 0
  <2>1. ~Sees(ps, {"num"}) /\ ~Sees(ps, {"("})
    BY <1>4, SeesOne
  <2>2. p = Node(Advance(ps), Var(ps, Cur(ps).text))
    BY <1>4, <2>1 DEF Primary
  <2> HIDE DEF p
  <2>3. Spells(ps, p, 4)
    BY <1>1, <1>4, <2>2, VarSpells
  <2> QED
    BY <1>1, <2>3 DEF Renders, p
<1>5. CASE Sees(ps, {"("})
  <2> DEFINE r == Comparison(unary)[Advance(ps)]
             s == [r EXCEPT !.ps = Expect(r.ps, ")")]
  <2>1. ~Sees(ps, {"num"}) /\ ~Sees(ps, {"ident"})
    BY <1>5, SeesOne
  <2>2. p = s
    BY <1>5, <2>1 DEF Primary
  <2>3. Spells(ps, s, 4)
    BY <1>5, BracketSpells
  <2> HIDE DEF p
  <2> QED
    BY <1>1, <2>2, <2>3 DEF Renders, p
<1>6. CASE ~Sees(ps, {"num"}) /\ ~Sees(ps, {"ident"}) /\ ~Sees(ps, {"("})
  <2>1. p = NoNode(ps, "expected an expression")
    BY <1>6 DEF Primary
  <2>2. Spells(ps, p, 4)
    BY <2>1, MessagesAre, NoNodeSpells
  <2> HIDE DEF p
  <2> QED
    BY <1>1, <2>2 DEF Renders, p
<1> QED
  BY <1>2, <1>3, <1>4, <1>5, <1>6

LEMMA UnaryRenders ==
  ASSUME NEW unary, Renderer(unary, 4), NEW ps, Tidy(ps)
  PROVE  Renders(ps, Unary(unary, ps), 4)
<1> DEFINE s == Unary(unary, ps)
<1>1. Reads(ps, s)
  BY RendererReads, UnaryReads
<1>2. CASE ~Sees(ps, {"-"})
  <2>1. s = Primary(unary, ps)
    BY <1>2 DEF Unary
  <2> QED
    BY <2>1, PrimaryRenders
<1>3. CASE Sees(ps, {"-"})
  <2> DEFINE at == Advance(ps)
             r == unary[at]
             n == Neg(r.n)
  <2>1. s = Node(r.ps, n) /\ at = Advance(ps)
    BY <1>3 DEF Unary
  <2>2. Tidy(at)
    BY AdvanceKeeps, KeepsTidy
  <2>3. Renders(at, r, 4)
    BY <2>2, RendererOne
  <2>4. n.kind = "neg" /\ n.a = r.n
    BY DEF Neg
  <2> HIDE DEF n, r, at
  <2>5. Reads(at, r) /\ Spells(at, r, 4) /\ Tidy(r.ps)
    BY <2>3, ReadsComes DEF Renders
  <2> HIDE DEF s
  <2>6. ASSUME NoError(s.ps), Clean(ps)
        PROVE  Spells(ps, s, 4)
    <3>1. "-" \in Marks
      BY OperatorMarks DEF Operators
    <3>2. /\ at.toks = ps.toks /\ Clean(at) /\ at.pos = ps.pos + 1
          /\ \A W : Rest(ps) \in W => Rest(at) \in Behind(W, Tok("-"))
      BY <1>3, <2>1, <2>6, <3>1, MarkPassed
    <3>3. /\ s.n = n /\ NoError(r.ps) /\ s.ps.toks = r.ps.toks /\ s.ps.pos = r.ps.pos
          /\ (Clean(s.ps) <=> Clean(r.ps)) /\ Rest(s.ps) = Rest(r.ps)
      BY <2>1, <2>5, <2>6, NodePassed
    <3>4. /\ r.ps.toks = at.toks /\ Clean(r.ps) /\ at.pos <= r.ps.pos
          /\ \A N \in Nat : \A d \in 0 .. N, l \in 1 .. 4, W \in Remains :
               r.ps.pos - at.pos <= d /\ Rest(at) \in W => Rest(r.ps) \in BehindExprs(N)[d][r.n][l][W]
      BY <2>5, <3>2, <3>3 DEF Spells
    <3>5. n \in Whole /\ ps.pos \in Nat /\ r.ps.pos \in Nat
      <4>1. s.n \in Whole
        BY <1>1, <2>6, ReadsWhole DEF s
      <4> QED
        BY <2>5, <3>3, <4>1, PosIs
    <3>6. ps.pos <= s.ps.pos
      BY <3>2, <3>3, <3>4, <3>5
    <3>7. ASSUME NEW N \in Nat, NEW d \in 0 .. N, NEW l \in 1 .. 4, NEW W \in Remains,
                 s.ps.pos - ps.pos <= d, Rest(ps) \in W
          PROVE  Rest(s.ps) \in BehindExprs(N)[d][s.n][l][W]
      <4> DEFINE u == BehindExprs(N)[d - 1]
                 V == Behind(W, Tok("-"))
      <4>1. d \in 1 .. N /\ d - 1 \in 0 .. N /\ r.ps.pos - at.pos <= d - 1 /\ 4 \in 1 .. 4
        BY <3>2, <3>3, <3>4, <3>5, <3>7
      <4>2. Rest(at) \in V /\ V \in Remains
        BY <3>2, <3>7, BehindIs
      <4> HIDE DEF V
      <4>3. Rest(r.ps) \in u[r.n][4][V]
        BY <3>4, <4>1, <4>2
      <4> HIDE DEF u
      <4>4. TakeBare(u, n, W) = u[r.n][4][V]
        BY <2>4 DEF TakeBare, V
      <4>5. Binds(n) = 4
        BY <2>4 DEF Binds
      <4>6. l <= Binds(n) /\ W # {} /\ Rest(s.ps) \in TakeBare(u, n, W)
        BY <3>3, <3>7, <4>3, <4>4, <4>5
      <4> QED
        BY <3>3, <3>5, <4>1, <4>6, BareIn DEF u
    <3> QED
      BY <3>2, <3>3, <3>4, <3>6, <3>7 DEF Spells
  <2>7. Spells(ps, s, 4)
    BY <2>6 DEF Spells
  <2> QED
    BY <1>1, <2>7 DEF Renders, s
<1> QED
  BY <1>2, <1>3

LEMMA UnariesRender ==
  ASSUME NEW d \in 0 .. MaxDepth
  PROVE  Renderer(unaries[d], 4)
<1> DEFINE I == {j \in 0 .. MaxDepth : Renderer(unaries[j], 4)}
<1>1. MaxDepth \in Nat /\ 0 \in 0 .. MaxDepth
  BY CompilerAssumption
<1>2. 0 \in I
  <2>1. ASSUME NEW ps \in Parsers, Tidy(ps)
        PROVE  Renders(ps, unaries[0][ps], 4)
    <3>1. unaries[0] = UnaryStep(0, unaries[0 - 1])
      BY <1>1, UnaryTableIs
    <3>2. unaries[0][ps] = NoNode(ps, "too deep")
      BY <3>1 DEF UnaryStep
    <3> QED
      BY <2>1, <3>2, MessagesAre, ReadsNoNode, NoNodeSpells DEF Renders
  <2> QED
    BY <1>1, <2>1 DEF Renderer
<1>3. ASSUME NEW j \in 1 .. MaxDepth, j - 1 \in I
      PROVE  j \in I
  <2>1. j \in 0 .. MaxDepth /\ j # 0
    OBVIOUS
  <2>2. Renderer(unaries[j - 1], 4)
    BY <1>3
  <2>3. ASSUME NEW ps \in Parsers, Tidy(ps)
        PROVE  Renders(ps, unaries[j][ps], 4)
    <3>1. unaries[j] = UnaryStep(j, unaries[j - 1])
      BY <2>1, UnaryTableIs
    <3>2. unaries[j][ps] = Unary(unaries[j - 1], ps)
      BY <2>1, <3>1 DEF UnaryStep
    <3> QED
      BY <2>2, <2>3, <3>2, UnaryRenders
  <2>4. Renderer(unaries[j], 4)
    BY <2>3 DEF Renderer
  <2> QED
    BY <2>1, <2>4
<1> HIDE DEF I
<1>4. d \in I
  BY <1>1, <1>2, <1>3, Induction DEF Inductive
<1> QED
  BY <1>4 DEF I

LEMMA ExprRenders ==
  ASSUME NEW ps, Tidy(ps)
  PROVE  Renders(ps, Expr(ps), 1)
<1>1. MaxDepth \in 0 .. MaxDepth
  BY CompilerAssumption
<1>2. Renderer(Comparison(unaries[MaxDepth]), 1)
  BY <1>1, UnariesRender, ComparisonRenders
<1> QED
  BY <1>2, RendererOne DEF Expr

\* An expression stands where the parser finds it.
LEMMA ExprGoes ==
  ASSUME NEW ps, Tidy(ps), NEW W, Before(ps, W), NEW r, r = Expr(ps), NoError(r.ps)
  PROVE  Goes(ps, r.ps, BehindExpr(r.n, W)) /\ r.n \in Whole /\ Tidy(r.ps)
<1> DEFINE w == Rest(ps)
           N == Len(w)
           t == ps.toks
<1>1. Reads(ps, r) /\ Spells(ps, r, 1) /\ Tidy(r.ps)
  BY ExprRenders, ReadsComes DEF Renders
<1>2. r.n \in Whole
  BY <1>1, ReadsWhole
<1>3. Clean(ps) /\ W \in Remains /\ w \in W
  BY DEF Before
<1>4. w \in Seq(Tokens) /\ {w} \in Remains
  BY <1>3 DEF Remains
<1>5. /\ r.ps.toks = t /\ Clean(r.ps) /\ ps.pos <= r.ps.pos
      /\ \A M \in Nat : \A d \in 0 .. M, l \in 1 .. 1, V \in Remains :
           r.ps.pos - ps.pos <= d /\ w \in V => Rest(r.ps) \in BehindExprs(M)[d][r.n][l][V]
  BY <1>1, <1>3 DEF Spells
<1>6. r.ps.pos - ps.pos <= N
  <2>1. ps.pos \in Nat \ {0} /\ r.ps.pos \in Nat /\ t \in Seq(Tokens) /\ Len(t) \in Nat
    BY <1>1 DEF Tidy, Parsers
  <2>2. r.ps.pos - 1 <= Len(t)
    BY <1>5, <2>1 DEF Clean, Sound
  <2>3. ps.pos <= Len(t) + 1
    BY <1>5, <2>1, <2>2
  <2>4. N = Len(t) - ps.pos + 1
    BY <2>1, <2>3 DEF Rest
  <2> HIDE DEF N, t
  <2> QED
    BY <2>1, <2>2, <2>4
<1>7. N \in Nat /\ N \in 0 .. N /\ 1 \in 1 .. 1
  BY <1>4
<1> HIDE DEF w, N, t
<1>8. Rest(r.ps) \in BehindExprs(N)[N][r.n][1][{w}]
  BY <1>4, <1>5, <1>6, <1>7
<1>9. Rest(r.ps) \in BehindExpr(r.n, W)
  BY <1>3, <1>8 DEF BehindExpr, N
<1>10. BehindExpr(r.n, W) \in Remains
  BY <1>2, <1>3, BehindExprIs
<1> QED
  BY <1>1, <1>2, <1>5, <1>9, <1>10 DEF Goes, Before, t

\* A condition stands in parentheses.
LEMMA ConditionGoes ==
  ASSUME NEW ps, Tidy(ps), NEW W, Before(ps, W), NEW type \in Marks, Sees(ps, {type}),
         NEW s, s = Condition(ps), NoError(s.ps)
  PROVE  Goes(ps, s.ps, BehindCondition(s.n, Behind(W, Tok(type)))) /\ s.n \in Whole
<1> DEFINE at == Advance(ps)
           qs == Expect(at, "(")
           r == Expr(qs)
           V == Behind(W, Tok(type))
           X == Behind(V, Tok("("))
           Y == BehindExpr(r.n, X)
           Z == Behind(Y, Tok(")"))
<1>1. s = [r EXCEPT !.ps = Expect(r.ps, ")")]
  BY DEF Condition
<1>2. Tidy(at) /\ Goes(ps, at, V)
  BY AdvanceKeeps, KeepsTidy, MarkGoes
<1> HIDE DEF at
<1>3. Tidy(qs)
  BY <1>2, ExpectKeeps, KeepsTidy
<1>4. Reads(qs, r)
  BY <1>3, ExprReads
<1>5. r = Expr(qs)
  OBVIOUS
<1> HIDE DEF r
<1>6. s.ps = Expect(r.ps, ")") /\ s.n = r.n
  BY <1>1, <1>4, ReadsWith
<1>7. Tidy(r.ps) /\ Comes(qs, r.ps)
  BY <1>4, ReadsComes
<1>8. NoError(r.ps)
  BY <1>6, <1>7, ExpectKeeps, KeepsTidy
<1>9. NoError(qs)
  BY <1>7, <1>8, ComesTidy
<1>10. "(" \in Marks /\ ")" \in Marks
  BY DEF Marks, Types
<1> HIDE DEF V
<1>11. Goes(at, qs, X)
  BY <1>2, <1>9, <1>10, GoesIs, ExpectMarkGoes
<1> HIDE DEF X, qs
<1>12. Goes(qs, r.ps, Y) /\ r.n \in Whole
  BY <1>3, <1>5, <1>8, <1>11, GoesIs, ExprGoes
<1> HIDE DEF Y
<1>13. Goes(r.ps, s.ps, Z)
  BY <1>6, <1>7, <1>10, <1>12, GoesIs, ExpectMarkGoes
<1> HIDE DEF Z
<1>14. Goes(ps, s.ps, Z)
  BY <1>2, <1>11, <1>12, <1>13, GoesOn
<1>15. Z = BehindCondition(s.n, Behind(W, Tok(type)))
  BY <1>6 DEF Z, Y, X, V, BehindCondition
<1> QED
  BY <1>6, <1>12, <1>14, <1>15

-----------------------------------------------------------------------------
(* What is left behind statements. *)

\* What is left behind statements j nodes deep, from those of one less.
BehindStmtStep(j, u) ==
  [n \in StmtTrees(MaxNodes)[j] |-> [texts \in SUBSET Seq(Tokens) |-> TakeStmt(u, n, texts)]]

BehindStmtTables(n, u) == u = [j \in 0 .. n |-> BehindStmtStep(j, u[j - 1])]

LEMMA BehindStmtTableZero == ASSUME NEW x, NEW y PROVE BehindStmtStep(0, x) = BehindStmtStep(0, y)
<1>1. StmtTrees(MaxNodes)[0] = {}
  BY NoStmts
<1>2. \A n \in StmtTrees(MaxNodes)[0], w \in SUBSET Seq(Tokens) : TakeStmt(x, n, w) = TakeStmt(y, n, w)
  BY <1>1
<1> QED
  BY <1>2 DEF BehindStmtStep

LEMMA BehindStmtTableMore ==
  ASSUME NEW n \in Nat, NEW q, BehindStmtTables(n, q)
  PROVE  \E u : BehindStmtTables(n + 1, u)
<1> DEFINE u == [j \in 0 .. n + 1 |-> IF j <= n THEN q[j] ELSE BehindStmtStep(n + 1, q[n])]
<1>1. \A j \in 0 .. n : q[j] = BehindStmtStep(j, q[j - 1])
  BY DEF BehindStmtTables
<1>2. \A j \in 0 .. n : u[j] = q[j]
  OBVIOUS
<1>3. u[n + 1] = BehindStmtStep(n + 1, q[n]) /\ u = [j \in 0 .. n + 1 |-> u[j]]
  OBVIOUS
<1> HIDE DEF u
<1>4. ASSUME NEW j \in 0 .. n + 1
      PROVE  u[j] = BehindStmtStep(j, u[j - 1])
  <2>1. CASE j = 0
    <3>1. 0 \in 0 .. n
      OBVIOUS
    <3>2. u[0] = BehindStmtStep(0, q[0 - 1])
      BY <1>1, <1>2, <3>1
    <3> QED
      BY <2>1, <3>2, BehindStmtTableZero
  <2>2. CASE j \in 1 .. n
    <3>1. j \in 0 .. n /\ j - 1 \in 0 .. n
      BY <2>2
    <3>2. u[j] = q[j] /\ u[j - 1] = q[j - 1]
      BY <1>2, <3>1
    <3> QED
      BY <1>1, <3>1, <3>2
  <2>3. CASE j = n + 1
    <3>1. n \in 0 .. n /\ (n + 1) - 1 = n
      OBVIOUS
    <3>2. u[n] = q[n]
      BY <1>2, <3>1
    <3> QED
      BY <1>3, <2>3, <3>1, <3>2
  <2> QED
    BY <2>1, <2>2, <2>3
<1>5. u = [j \in 0 .. n + 1 |-> BehindStmtStep(j, u[j - 1])]
  BY <1>3, <1>4
<1> QED
  BY <1>5 DEF BehindStmtTables

LEMMA BehindStmtTableExists == ASSUME NEW n \in Nat PROVE \E u : BehindStmtTables(n, u)
<1> DEFINE I == {j \in Nat : \E u : BehindStmtTables(j, u)}
<1>1. 0 \in I
  <2> DEFINE u == [j \in 0 .. 0 |-> BehindStmtStep(0, 0)]
  <2>1. \A j \in 0 .. 0 : j = 0
    OBVIOUS
  <2>2. \A j \in 0 .. 0 : BehindStmtStep(j, u[j - 1]) = BehindStmtStep(0, 0)
    BY <2>1, BehindStmtTableZero
  <2> DEFINE w == [j \in 0 .. 0 |-> BehindStmtStep(j, u[j - 1])]
  <2>3. u = w
    BY <2>2
  <2> HIDE DEF u
  <2>4. BehindStmtTables(0, u)
    BY <2>3 DEF BehindStmtTables
  <2> QED
    BY <2>4
<1>2. \A j \in 1 .. n : j - 1 \in I => j \in I
  <2> SUFFICES ASSUME NEW j \in 1 .. n, j - 1 \in I PROVE j \in I
    OBVIOUS
  <2>1. j - 1 \in Nat /\ (j - 1) + 1 = j /\ j \in Nat
    OBVIOUS
  <2>2. PICK q : BehindStmtTables(j - 1, q)
    OBVIOUS
  <2> HIDE DEF I
  <2>3. \E u : BehindStmtTables((j - 1) + 1, u)
    BY <2>1, <2>2, BehindStmtTableMore
  <2> QED
    BY <2>1, <2>3 DEF I
<1> HIDE DEF I
<1>3. Inductive(n, I)
  BY <1>1, <1>2 DEF Inductive
<1>4. n \in 0 .. n
  OBVIOUS
<1>5. n \in I
  BY <1>3, <1>4, Induction
<1> QED
  BY <1>5 DEF I

LEMMA BehindStmtTableIs ==
  ASSUME NEW d \in 0 .. MaxNodes
  PROVE  behindStmt[d] = BehindStmtStep(d, behindStmt[d - 1])
<1>1. MaxNodes \in Nat
  BY CompilerAssumption
<1>2. \E u : BehindStmtTables(MaxNodes, u)
  BY <1>1, BehindStmtTableExists
<1>3. behindStmt = CHOOSE u : BehindStmtTables(MaxNodes, u)
  BY DEF behindStmt, BehindStmtTables, BehindStmtStep
<1>4. BehindStmtTables(MaxNodes, behindStmt)
  BY <1>2, <1>3
<1> QED
  BY <1>4 DEF BehindStmtTables

LEMMA ThroughStep ==
  ASSUME NEW f, NEW s, NEW x, Len(s) \in Nat, NEW j \in 1 .. Len(s)
  PROVE  Afters(f, s, x)[j] = f[s[j]][Afters(f, s, x)[j - 1]]
<1>1. j \in 0 .. Len(s) /\ j # 0
  OBVIOUS
<1>2. Afters(f, s, x)[j] = AfterStep(f, s, x, j, Afters(f, s, x)[j - 1])
  BY <1>1, ThroughIs
<1> QED
  BY <1>1, <1>2 DEF AfterStep

LEMMA ThroughStart ==
  ASSUME NEW f, NEW s, NEW x, Len(s) \in Nat
  PROVE  Afters(f, s, x)[0] = x
<1>1. 0 \in 0 .. Len(s)
  OBVIOUS
<1>2. Afters(f, s, x)[0] = AfterStep(f, s, x, 0, Afters(f, s, x)[0 - 1])
  BY <1>1, ThroughIs
<1> QED
  BY <1>2 DEF AfterStep

LEMMA ThroughNone ==
  ASSUME NEW f, NEW x
  PROVE  Through(f, <<>>, x) = x
<1>1. Len(<<>>) = 0 /\ Len(<<>>) \in Nat
  OBVIOUS
<1>2. Through(f, <<>>, x) = Afters(f, <<>>, x)[Len(<<>>)]
  BY <1>1, ThroughIs
<1> QED
  BY <1>1, <1>2, ThroughStart

\* One more at the end.
LEMMA ThroughMore ==
  ASSUME NEW f, NEW T, NEW s \in Seq(T), NEW a \in T, NEW x
  PROVE  Through(f, Append(s, a), x) = f[a][Through(f, s, x)]
<1> DEFINE t == Append(s, a)
           N == Len(s)
           u == Afters(f, s, x)
           v == Afters(f, t, x)
           I == {j \in 0 .. N : v[j] = u[j]}
<1>1. N \in Nat /\ Len(t) = N + 1 /\ t[N + 1] = a /\ \A j \in 1 .. N : t[j] = s[j]
  OBVIOUS
<1>2. Len(t) \in Nat /\ Len(s) \in Nat /\ N + 1 \in 1 .. Len(t) /\ (N + 1) - 1 = N
  BY <1>1
<1> HIDE DEF t
<1>3. Through(f, s, x) = u[N] /\ Through(f, t, x) = v[Len(t)]
  BY <1>2, ThroughIs
<1>4. u[0] = x /\ v[0] = x
  BY <1>2, ThroughStart
<1>5. \A j \in 1 .. N : u[j] = f[s[j]][u[j - 1]]
  BY <1>2, ThroughStep
<1>6. \A j \in 1 .. Len(t) : v[j] = f[t[j]][v[j - 1]]
  BY <1>2, ThroughStep
<1> HIDE DEF u, v, N
<1>7. 0 \in I
  BY <1>1, <1>4
<1>8. ASSUME NEW j \in 1 .. N, j - 1 \in I
      PROVE  j \in I
  <2>1. j \in 1 .. Len(t) /\ j \in 0 .. N
    BY <1>1
  <2>2. v[j - 1] = u[j - 1] /\ t[j] = s[j]
    BY <1>1, <1>8
  <2>3. v[j] = u[j]
    BY <1>5, <1>6, <2>1, <2>2
  <2> QED
    BY <2>1, <2>3
<1>9. N \in 0 .. N
  BY <1>1
<1> HIDE DEF I
<1>10. N \in I
  BY <1>1, <1>7, <1>8, <1>9, Induction DEF Inductive
<1>11. v[N] = u[N]
  BY <1>10 DEF I
<1>12. v[N + 1] = f[a][v[N]]
  BY <1>1, <1>2, <1>6
<1> QED
  BY <1>1, <1>3, <1>11, <1>12 DEF t

\* Both take the trees of T, and leave the same.
Alike(f, g, T) ==
  \A n \in T : \A w \in Remains : f[n][w] \in Remains /\ g[n][w] = f[n][w]

LEMMA AlikeOne ==
  ASSUME NEW f, NEW g, NEW T, Alike(f, g, T), NEW n \in T, NEW w \in Remains
  PROVE  f[n][w] \in Remains /\ g[n][w] = f[n][w]
  BY DEF Alike

LEMMA ThroughAlike ==
  ASSUME NEW T, NEW s \in Seq(T), NEW w \in Remains, NEW f, NEW g, Alike(f, g, T)
  PROVE  Through(f, s, w) \in Remains /\ Through(g, s, w) = Through(f, s, w)
<1> DEFINE N == Len(s)
           u == Afters(f, s, w)
           v == Afters(g, s, w)
           I == {j \in 0 .. N : u[j] \in Remains /\ v[j] = u[j]}
<1>1. N \in Nat /\ Len(s) \in Nat /\ \A j \in 1 .. N : s[j] \in T
  BY ElementOfSeq
<1>2. Through(f, s, w) = u[N] /\ Through(g, s, w) = v[N]
  BY <1>1, ThroughIs
<1>3. u[0] = w /\ v[0] = w
  BY <1>1, ThroughStart
<1>4. \A j \in 1 .. N : u[j] = f[s[j]][u[j - 1]] /\ v[j] = g[s[j]][v[j - 1]]
  BY <1>1, ThroughStep
<1> HIDE DEF u, v, N
<1>5. 0 \in I
  BY <1>1, <1>3
<1>6. ASSUME NEW j \in 1 .. N, j - 1 \in I
      PROVE  j \in I
  <2>1. j \in 0 .. N /\ s[j] \in T /\ u[j - 1] \in Remains /\ v[j - 1] = u[j - 1]
    BY <1>1, <1>6
  <2>2. f[s[j]][u[j - 1]] \in Remains /\ g[s[j]][u[j - 1]] = f[s[j]][u[j - 1]]
    BY <2>1, AlikeOne
  <2> QED
    BY <1>4, <2>1, <2>2
<1>7. N \in 0 .. N
  BY <1>1
<1> HIDE DEF I
<1>8. N \in I
  BY <1>1, <1>5, <1>6, <1>7, Induction DEF Inductive
<1> QED
  BY <1>2, <1>8 DEF I

\* The marks that statements are written with.
LEMMA StmtMarks ==
  /\ "{" \in Marks /\ "}" \in Marks /\ ";" \in Marks /\ "=" \in Marks /\ "if" \in Marks
  /\ "else" \in Marks /\ "while" \in Marks /\ "print" \in Marks /\ "return" \in Marks
  BY DEF Marks, Types

LEMMA ConditionIs ==
  ASSUME NEW n \in Whole, NEW w \in Remains
  PROVE  BehindCondition(n, w) \in Remains
<1> DEFINE v == Behind(w, Tok("("))
           x == BehindExpr(n, v)
<1>1. v \in Remains
  BY BehindIs
<1> HIDE DEF v
<1>2. x \in Remains
  BY <1>1, BehindExprIs
<1> HIDE DEF x
<1>3. Behind(x, Tok(")")) \in Remains
  BY <1>2, BehindIs
<1> QED
  BY <1>3 DEF BehindCondition, x, v

LEMMA SimpleRemains ==
  ASSUME NEW n, n.a \in Whole, NEW w \in Remains
  PROVE  BehindSimple(n, w) \in Remains
<1>1. BehindExpr(n.a, w) \in Remains
  BY BehindExprIs
<1> QED
  BY <1>1, BehindIs DEF BehindSimple

LEMMA DeclRemains ==
  ASSUME NEW n, NEW w \in Remains
  PROVE  BehindDecl(n, w) \in Remains
<1>1. Behind(w, Tok("int")) \in Remains
  BY BehindIs
<1> QED
  BY <1>1, BehindIs DEF BehindDecl

LEMMA TakeStmtAlike ==
  ASSUME NEW d \in 1 .. MaxNodes, NEW n \in StmtTrees(MaxNodes)[d], NEW w \in Remains,
         NEW f, NEW g, Alike(f, g, StmtTrees(MaxNodes)[d - 1])
  PROVE  TakeStmt(f, n, w) \in Remains /\ TakeStmt(g, n, w) = TakeStmt(f, n, w)
<1> DEFINE T == StmtTrees(MaxNodes)[d - 1]
<1>1. \/ n.kind = "block" /\ n.body \in Seq(T)
      \/ n.kind = "decl" /\ (n.a = Nothing \/ n.a \in Whole)
      \/ n.kind = "assign" /\ n.a \in Whole
      \/ n.kind = "if" /\ n.a \in Whole /\ n.b \in T /\ (n.c = Nothing \/ n.c \in T)
      \/ n.kind = "while" /\ n.a \in Whole /\ n.b \in T
      \/ n.kind = "print" /\ n.a \in Whole
      \/ n.kind = "return" /\ n.a \in Whole
  BY StmtForms DEF Whole
<1>2. Alike(f, g, T)
  OBVIOUS
<1> HIDE DEF T
<1>3. CASE n.kind = "block" /\ n.body \in Seq(T)
  <2> DEFINE v == Behind(w, Tok("{"))
             b == n.body
  <2>1. v \in Remains
    BY BehindIs
  <2>2. TakeStmt(f, n, w) = Behind(Through(f, b, v), Tok("}"))
        /\ TakeStmt(g, n, w) = Behind(Through(g, b, v), Tok("}"))
    BY <1>3 DEF TakeStmt
  <2>3. b \in Seq(T)
    BY <1>3
  <2> HIDE DEF v, b
  <2>4. Through(f, b, v) \in Remains /\ Through(g, b, v) = Through(f, b, v)
    BY <1>2, <2>1, <2>3, ThroughAlike
  <2> QED
    BY <2>2, <2>4, BehindIs
<1>4. CASE n.kind = "decl" /\ n.a = Nothing
  <2> DEFINE v == BehindDecl(n, w)
  <2>1. TakeStmt(f, n, w) = Behind(v, Tok(";")) /\ TakeStmt(g, n, w) = Behind(v, Tok(";"))
    BY <1>4 DEF TakeStmt
  <2>2. v \in Remains
    BY DeclRemains
  <2> HIDE DEF v
  <2> QED
    BY <2>1, <2>2, BehindIs
<1>5. CASE n.kind = "decl" /\ n.a # Nothing /\ n.a \in Whole
  <2> DEFINE v == BehindDecl(n, w)
             x == Behind(v, Tok("="))
  <2>1. TakeStmt(f, n, w) = BehindSimple(n, x) /\ TakeStmt(g, n, w) = BehindSimple(n, x)
    BY <1>5 DEF TakeStmt
  <2>2. v \in Remains
    BY DeclRemains
  <2> HIDE DEF v
  <2>3. x \in Remains
    BY <2>2, BehindIs
  <2> HIDE DEF x
  <2> QED
    BY <1>5, <2>1, <2>3, SimpleRemains
<1>6. CASE n.kind = "assign" /\ n.a \in Whole
  <2> DEFINE v == Behind(w, Ident(n.v.name))
             x == Behind(v, Tok("="))
  <2>1. TakeStmt(f, n, w) = BehindSimple(n, x) /\ TakeStmt(g, n, w) = BehindSimple(n, x)
    BY <1>6 DEF TakeStmt
  <2>2. v \in Remains
    BY BehindIs
  <2> HIDE DEF v
  <2>3. x \in Remains
    BY <2>2, BehindIs
  <2> HIDE DEF x
  <2> QED
    BY <1>6, <2>1, <2>3, SimpleRemains
<1>7. CASE n.kind = "if" /\ n.a \in Whole /\ n.b \in T /\ (n.c = Nothing \/ n.c \in T)
  <2> DEFINE i == Behind(w, Tok("if"))
             v == BehindCondition(n.a, i)
             t == f[n.b][v]
             e == Behind(t, Tok("else"))
  <2>0. i \in Remains
    BY BehindIs
  <2>2. TakeStmt(f, n, w) = TakeIf(f, n, w) /\ TakeStmt(g, n, w) = TakeIf(g, n, w)
    BY <1>7 DEF TakeStmt
  <2>3. TakeIf(f, n, w) = IF n.c = Nothing THEN t ELSE f[n.c][e]
    BY DEF TakeIf
  <2>4. TakeIf(g, n, w) = IF n.c = Nothing THEN g[n.b][v] ELSE g[n.c][Behind(g[n.b][v], Tok("else"))]
    BY DEF TakeIf
  <2> HIDE DEF i
  <2>1. v \in Remains
    BY <1>7, <2>0, ConditionIs
  <2> HIDE DEF v
  <2>5. t \in Remains /\ g[n.b][v] = t
    BY <1>2, <1>7, <2>1, AlikeOne
  <2> HIDE DEF t
  <2>6. e \in Remains
    BY <2>5, BehindIs
  <2>7. TakeIf(g, n, w) = IF n.c = Nothing THEN t ELSE g[n.c][e]
    BY <2>4, <2>5
  <2> HIDE DEF e
  <2>8. n.c \in T => f[n.c][e] \in Remains /\ g[n.c][e] = f[n.c][e]
    BY <1>2, <2>6, AlikeOne
  <2> QED
    BY <1>7, <2>2, <2>3, <2>5, <2>7, <2>8
<1>8. CASE n.kind = "while" /\ n.a \in Whole /\ n.b \in T
  <2> DEFINE i == Behind(w, Tok("while"))
             v == BehindCondition(n.a, i)
  <2>1. TakeStmt(f, n, w) = f[n.b][v] /\ TakeStmt(g, n, w) = g[n.b][v]
    BY <1>8 DEF TakeStmt
  <2>2. i \in Remains
    BY BehindIs
  <2> HIDE DEF i
  <2>3. v \in Remains
    BY <1>8, <2>2, ConditionIs
  <2> HIDE DEF v
  <2> QED
    BY <1>2, <1>8, <2>1, <2>3, AlikeOne
<1>9. CASE n.kind = "print" /\ n.a \in Whole
  <2> DEFINE i == Behind(w, Tok("print"))
             v == BehindCondition(n.a, i)
  <2>1. TakeStmt(f, n, w) = Behind(v, Tok(";")) /\ TakeStmt(g, n, w) = Behind(v, Tok(";"))
    BY <1>9 DEF TakeStmt
  <2>2. i \in Remains
    BY BehindIs
  <2> HIDE DEF i
  <2>3. v \in Remains
    BY <1>9, <2>2, ConditionIs
  <2> HIDE DEF v
  <2> QED
    BY <2>1, <2>3, BehindIs
<1>10. CASE n.kind = "return" /\ n.a \in Whole
  <2> DEFINE v == Behind(w, Tok("return"))
  <2>1. TakeStmt(f, n, w) = BehindSimple(n, v) /\ TakeStmt(g, n, w) = BehindSimple(n, v)
    BY <1>10 DEF TakeStmt
  <2>2. v \in Remains
    BY BehindIs
  <2> HIDE DEF v
  <2> QED
    BY <1>10, <2>1, <2>2, SimpleRemains
<1> QED
  BY <1>1, <1>3, <1>4, <1>5, <1>6, <1>7, <1>8, <1>9, <1>10

LEMMA BehindStmtOne ==
  ASSUME NEW d \in 0 .. MaxNodes, NEW n \in StmtTrees(MaxNodes)[d], NEW w \in Remains
  PROVE  behindStmt[d][n][w] = TakeStmt(behindStmt[d - 1], n, w)
<1>1. behindStmt[d] = BehindStmtStep(d, behindStmt[d - 1])
  BY BehindStmtTableIs
<1> QED
  BY <1>1 DEF BehindStmtStep, Remains

LEMMA BehindStmtAlike ==
  ASSUME NEW d \in 0 .. MaxNodes, NEW e \in 0 .. MaxNodes, d <= e
  PROVE  Alike(behindStmt[d], behindStmt[e], StmtTrees(MaxNodes)[d])
<1> DEFINE I == {j \in 0 .. MaxNodes : \A k \in 0 .. MaxNodes :
                   j <= k => Alike(behindStmt[j], behindStmt[k], StmtTrees(MaxNodes)[j])}
<1>1. MaxNodes \in Nat
  BY CompilerAssumption
<1>2. 0 \in I
  BY NoStmts DEF Alike
<1>3. ASSUME NEW j \in 1 .. MaxNodes, j - 1 \in I
      PROVE  j \in I
  <2>1. ASSUME NEW k \in 0 .. MaxNodes, j <= k
        PROVE  Alike(behindStmt[j], behindStmt[k], StmtTrees(MaxNodes)[j])
    <3> SUFFICES ASSUME NEW n \in StmtTrees(MaxNodes)[j], NEW w \in Remains
                 PROVE  behindStmt[j][n][w] \in Remains /\ behindStmt[k][n][w] = behindStmt[j][n][w]
      BY DEF Alike
    <3>1. j \in 0 .. MaxNodes /\ k - 1 \in 0 .. MaxNodes /\ j - 1 <= k - 1
      BY <1>1, <2>1
    <3>2. Alike(behindStmt[j - 1], behindStmt[k - 1], StmtTrees(MaxNodes)[j - 1])
      BY <1>3, <3>1
    <3>3. StmtTrees(MaxNodes)[j] \subseteq StmtTrees(MaxNodes)[k]
      BY <1>1, <2>1, <3>1, StmtsDeep
    <3>4. behindStmt[j][n][w] = TakeStmt(behindStmt[j - 1], n, w)
      BY <3>1, BehindStmtOne
    <3>5. behindStmt[k][n][w] = TakeStmt(behindStmt[k - 1], n, w)
      BY <3>3, BehindStmtOne
    <3> QED
      BY <3>2, <3>4, <3>5, TakeStmtAlike
  <2> QED
    BY <2>1
<1> HIDE DEF I
<1>4. d \in I
  BY <1>1, <1>2, <1>3, Induction DEF Inductive
<1> QED
  BY <1>4 DEF I

\* A whole statement is taken part by part.
WholeStmts == StmtTrees(MaxNodes)[MaxNodes]

StmtLeaver == behindStmt[MaxNodes]

LEMMA BehindStmtIs ==
  ASSUME NEW n \in WholeStmts, NEW w \in Remains
  PROVE  BehindStmt(n, w) \in Remains /\ BehindStmt(n, w) = TakeStmt(StmtLeaver, n, w)
<1> DEFINE M == MaxNodes
<1>1. M \in Nat /\ M \in 0 .. M /\ n \in StmtTrees(M)[M]
  BY CompilerAssumption DEF WholeStmts
<1>2. M # 0
  BY <1>1, NoStmts
<1>3. M \in 1 .. M /\ M - 1 \in 0 .. M /\ M - 1 <= M
  BY <1>1, <1>2
<1>4. Alike(behindStmt[M - 1], behindStmt[M], StmtTrees(M)[M - 1])
  BY <1>1, <1>3, BehindStmtAlike
<1>5. behindStmt[M][n][w] = TakeStmt(behindStmt[M - 1], n, w)
  BY <1>1, BehindStmtOne
<1>6. TakeStmt(behindStmt[M - 1], n, w) \in Remains
      /\ TakeStmt(behindStmt[M], n, w) = TakeStmt(behindStmt[M - 1], n, w)
  BY <1>1, <1>3, <1>4, TakeStmtAlike
<1> QED
  BY <1>5, <1>6 DEF BehindStmt, StmtLeaver

-----------------------------------------------------------------------------
(* What statements are read from. *)

StmtSpells(ps, r) ==
  NoError(r.ps) => \A w : Before(ps, w) => Goes(ps, r.ps, BehindStmt(r.n, w))

StmtRenders(ps, r) == StmtReads(ps, r) /\ StmtSpells(ps, r)

StmtRenderer(f) == \A ps \in Parsers : Tidy(ps) => StmtRenders(ps, f[ps])

LEMMA StmtRendererOne ==
  ASSUME NEW f, StmtRenderer(f), NEW ps, Tidy(ps)
  PROVE  StmtRenders(ps, f[ps])
  BY TidyIs DEF StmtRenderer

LEMMA StmtRendererReads ==
  ASSUME NEW f, StmtRenderer(f)
  PROVE  StmtReader(f)
  BY DEF StmtRenderer, StmtRenders, StmtReader

LEMMA StmtWhole ==
  ASSUME NEW ps, Tidy(ps), NEW r, StmtReads(ps, r), NoError(r.ps)
  PROVE  r.n \in WholeStmts /\ NoError(ps)
<1> DEFINE m == Len(r.ps.syms)
           d == r.ps.nodes - ps.nodes
<1>1. Comes(ps, r.ps) /\ NoError(ps) /\ IsStmt(ps, r)
  BY StmtReadsTidy
<1>2. m \in Nat /\ m <= MaxNodes /\ d \in 0 .. MaxNodes
  BY <1>1, NodesBetween
<1>3. r.n \in StmtTrees(m)[d]
  BY <1>1 DEF IsStmt
<1> HIDE DEF m, d
<1>4. MaxNodes \in 0 .. MaxNodes /\ MaxNodes \in Nat /\ d <= MaxNodes
  BY <1>2, CompilerAssumption
<1>5. StmtTrees(m)[d] \subseteq StmtTrees(MaxNodes)[d]
  BY <1>2, <1>4, StmtsGrow
<1>6. StmtTrees(MaxNodes)[d] \subseteq StmtTrees(MaxNodes)[MaxNodes]
  BY <1>2, <1>4, StmtsDeep
<1> QED
  BY <1>1, <1>3, <1>5, <1>6 DEF WholeStmts

\* A whole tree is a tree.
LEMMA WholeSome ==
  /\ \A n \in Whole : n # Nothing
  /\ \A n \in WholeStmts : n # Nothing
<1> DEFINE M == MaxNodes
<1>1. M \in Nat
  BY CompilerAssumption
<1>2. Nothing.kind = "none"
  BY DEF Nothing
<1>3. ASSUME NEW n \in Whole
      PROVE  n # Nothing
  <2>1. n \in ExprTrees(M)[M] /\ M # 0
    BY NoExprs DEF Whole
  <2>2. M \in 1 .. M
    BY <1>1, <2>1
  <2>3. n.kind \in {"num", "var", "neg", "binop"}
    BY <2>1, <2>2, ExprForms
  <2> QED
    BY <1>2, <2>3
<1>4. ASSUME NEW n \in WholeStmts
      PROVE  n # Nothing
  <2>1. n \in StmtTrees(M)[M] /\ M # 0
    BY NoStmts DEF WholeStmts
  <2>2. M \in 1 .. M
    BY <1>1, <2>1
  <2>3. n.kind \in {"block", "decl", "assign", "if", "while", "print", "return"}
    BY <2>1, <2>2, StmtForms
  <2> QED
    BY <1>2, <2>3
<1> QED
  BY <1>3, <1>4

LEMMA SimpleIs ==
  ASSUME NEW r, Tidy(r.ps), NEW n, NoError(Simple(r, n).ps)
  PROVE  NoError(r.ps) /\ Simple(r, n).n = n
<1> DEFINE qs == Expect(r.ps, ";")
<1>1. Simple(r, n) = Node(qs, n)
  BY DEF Simple
<1>2. Tidy(qs) /\ (NoError(qs) => NoError(r.ps))
  BY ExpectKeeps, KeepsTidy
<1> HIDE DEF qs
<1>3. NoError(qs) /\ Node(qs, n).n = n
  BY <1>1, <1>2, NodeIs, ComesTidy
<1> QED
  BY <1>1, <1>2, <1>3

LEMMA SimpleGoes ==
  ASSUME NEW ps, NEW r, Tidy(r.ps), NEW n, NoError(Simple(r, n).ps),
         NEW v, Goes(ps, r.ps, v)
  PROVE  Goes(ps, Simple(r, n).ps, Behind(v, Tok(";")))
<1> DEFINE qs == Expect(r.ps, ";")
           s == Node(qs, n)
           x == Behind(v, Tok(";"))
<1>1. Simple(r, n) = s
  BY DEF Simple
<1>2. Tidy(qs)
  BY ExpectKeeps, KeepsTidy
<1>3. NoError(qs)
  <2> HIDE DEF qs
  <2>1. Comes(qs, s.ps)
    BY <1>2, NodeIs
  <2>2. NoError(s.ps)
    BY <1>1
  <2> HIDE DEF s
  <2> QED
    BY <2>1, <2>2, ComesTidy
<1>4. Goes(r.ps, qs, x)
  BY <1>3, GoesIs, StmtMarks, ExpectMarkGoes
<1> HIDE DEF qs, x
<1>5. Goes(qs, s.ps, x)
  BY <1>1, <1>2, <1>4, GoesIs, NodeGoes
<1> HIDE DEF s
<1>6. Goes(ps, s.ps, x)
  BY <1>4, <1>5, GoesOn
<1> QED
  BY <1>1, <1>6 DEF x

LEMMA PrintSpells ==
  ASSUME NEW ps, Tidy(ps), Sees(ps, {"print"}),
         NEW r, r = Condition(ps), NEW n, n = [kind |-> "print", a |-> r.n],
         NEW s, s = Simple(r, n), StmtReads(ps, s)
  PROVE  StmtSpells(ps, s)
<1> SUFFICES ASSUME NoError(s.ps), NEW w, Before(ps, w)
             PROVE  Goes(ps, s.ps, BehindStmt(s.n, w))
  BY DEF StmtSpells
<1> DEFINE v == BehindCondition(n.a, Behind(w, Tok("print")))
<1>1. Tidy(r.ps)
  BY ConditionReads, ReadsComes
<1>2. NoError(r.ps) /\ s.n = n
  BY <1>1, SimpleIs
<1>3. n.a = r.n /\ n.kind = "print"
  OBVIOUS
<1>4. Goes(ps, r.ps, v)
  BY <1>2, <1>3, StmtMarks, ConditionGoes
<1>5. w \in Remains
  BY DEF Before
<1> HIDE DEF v
<1>6. Goes(ps, s.ps, Behind(v, Tok(";")))
  BY <1>1, <1>4, SimpleGoes
<1>7. n \in WholeStmts
  BY <1>2, StmtWhole
<1>8. BehindStmt(n, w) = Behind(v, Tok(";"))
  BY <1>3, <1>5, <1>7, BehindStmtIs DEF TakeStmt, v
<1> QED
  BY <1>2, <1>6, <1>8

LEMMA ReturnSpells ==
  ASSUME NEW ps, Tidy(ps), Sees(ps, {"return"}),
         NEW r, r = Expr(Advance(ps)), NEW n, n = [kind |-> "return", a |-> r.n],
         NEW s, s = Simple(r, n), StmtReads(ps, s)
  PROVE  StmtSpells(ps, s)
<1> SUFFICES ASSUME NoError(s.ps), NEW w, Before(ps, w)
             PROVE  Goes(ps, s.ps, BehindStmt(s.n, w))
  BY DEF StmtSpells
<1> DEFINE v == Behind(w, Tok("return"))
           x == BehindExpr(n.a, v)
           at == Advance(ps)
<1>1. Tidy(at) /\ Goes(ps, at, v) /\ r = Expr(at)
  BY AdvanceKeeps, KeepsTidy, StmtMarks, MarkGoes
<1> HIDE DEF at
<1>2. Tidy(r.ps)
  BY <1>1, ExprReads, ReadsComes
<1>3. NoError(r.ps) /\ s.n = n
  BY <1>2, SimpleIs
<1>4. w \in Remains
  BY DEF Before
<1>5. n.a = r.n /\ n.kind = "return"
  OBVIOUS
<1> HIDE DEF v
<1>6. Goes(at, r.ps, x)
  BY <1>1, <1>3, <1>5, GoesIs, ExprGoes
<1> HIDE DEF x
<1>7. Goes(ps, r.ps, x)
  BY <1>1, <1>6, GoesOn
<1>8. Goes(ps, s.ps, Behind(x, Tok(";")))
  BY <1>2, <1>7, SimpleGoes
<1>9. n \in WholeStmts
  BY <1>3, StmtWhole
<1>10. BehindStmt(n, w) = Behind(x, Tok(";"))
  BY <1>4, <1>5, <1>9, BehindStmtIs DEF TakeStmt, BehindSimple, v, x
<1> QED
  BY <1>3, <1>8, <1>10

LEMMA AssignSpells ==
  ASSUME NEW ps, Tidy(ps), Sees(ps, {"ident"}), NEW s, s = AssignStmt(ps), StmtReads(ps, s)
  PROVE  StmtSpells(ps, s)
<1> SUFFICES ASSUME NoError(s.ps), NEW w, Before(ps, w)
             PROVE  Goes(ps, s.ps, BehindStmt(s.n, w))
  BY DEF StmtSpells
<1> DEFINE x == Cur(ps).text
           u == Behind(w, Ident(x))
           v == Behind(u, Tok("="))
           at == Advance(ps)
           qs == Expect(at, "=")
           r == Expr(qs)
           n == [kind |-> "assign", v |-> Var(ps, x), a |-> r.n]
           z == BehindExpr(n.a, v)
<1>1. s = IF Lookup(ps, x) = 0 THEN NoNode(at, "undeclared") ELSE Simple(r, n)
  BY DEF AssignStmt
<1>2. Tidy(at)
  BY AdvanceKeeps, KeepsTidy
<1>3. Lookup(ps, x) # 0
  BY <1>1, <1>2, MessagesAre, NoNodeIs
<1>4. Goes(ps, at, u)
  BY <1>3, NameGoes
<1>5. s = Simple(r, n) /\ r = Expr(qs)
  BY <1>1, <1>3
<1> HIDE DEF at
<1>6. Tidy(qs)
  BY <1>2, ExpectKeeps, KeepsTidy
<1>7. Tidy(r.ps) /\ Comes(qs, r.ps)
  BY <1>6, ExprReads, ReadsComes
<1> HIDE DEF r
<1>8. n.a = r.n /\ n.kind = "assign" /\ n.v.name = x
  BY DEF Var
<1> HIDE DEF n
<1>9. NoError(r.ps) /\ s.n = n
  BY <1>5, <1>7, SimpleIs
<1>10. NoError(qs)
  BY <1>7, <1>9, ComesTidy
<1>11. w \in Remains
  BY DEF Before
<1> HIDE DEF x, u
<1>12. Goes(at, qs, v)
  BY <1>2, <1>4, <1>10, GoesIs, StmtMarks, ExpectMarkGoes
<1> HIDE DEF v, qs
<1>13. Goes(qs, r.ps, z)
  BY <1>5, <1>6, <1>8, <1>9, <1>12, GoesIs, ExprGoes
<1> HIDE DEF z
<1>14. Goes(ps, r.ps, z)
  BY <1>4, <1>12, <1>13, GoesOn
<1>15. Goes(ps, s.ps, Behind(z, Tok(";")))
  BY <1>5, <1>7, <1>14, SimpleGoes
<1>16. n \in WholeStmts
  BY <1>9, StmtWhole
<1>17. BehindStmt(n, w) = Behind(z, Tok(";"))
  BY <1>8, <1>11, <1>16, BehindStmtIs DEF TakeStmt, BehindSimple, u, v, z
<1> QED
  BY <1>9, <1>15, <1>17

\* A declaration that has no error adds its name to the symbols.
LEMMA DeclareText ==
  ASSUME NEW ps \in Parsers, NEW x \in Idents, NEW qs, qs = Declare(ps, x), NoError(qs)
  PROVE  /\ NoError(ps) /\ Lookup(ps, x) = 0
         /\ qs.toks = ps.toks /\ qs.pos = ps.pos
         /\ SymNames(qs) = SymNames(ps) \cup {x}
<1>1. NoError(ps)
  BY DEF Declare, NoError
<1>2. \A msg \in Messages : ~NoError(Fail(ps, msg))
  <2>1. ASSUME NEW msg \in Messages
        PROVE  ~NoError(Fail(ps, msg))
    <3>1. Fail(ps, msg) = [ps EXCEPT !.err = msg]
      BY <1>1 DEF Fail, NoError
    <3>2. Fail(ps, msg).err = msg
      BY <3>1 DEF Parsers
    <3> QED
      BY <3>2 DEF NoError, Messages
  <2> QED
    BY <2>1
<1>3. Lookup(ps, x) = 0
  <2>1. CASE Lookup(ps, x) # 0
    <3>1. qs = Fail(ps, "redeclared")
      BY <1>1, <2>1 DEF Declare, NoError
    <3> QED
      BY <1>2, <3>1, MessagesAre
  <2> QED
    BY <2>1
<1>4. ~(Len(ps.syms) >= MaxLocals)
  <2>1. CASE Len(ps.syms) >= MaxLocals
    <3>1. qs = Fail(ps, "too many locals")
      BY <1>1, <1>3, <2>1 DEF Declare, NoError
    <3> QED
      BY <1>2, <3>1, MessagesAre
  <2> QED
    BY <2>1
<1> DEFINE s == ps.syms
           syms == Append(s, x)
<1>5. qs = [ps EXCEPT !.syms = syms]
  BY <1>1, <1>3, <1>4 DEF Declare, NoError
<1>6. s \in Seq(Idents) /\ Len(s) \in Nat
  BY DEF Parsers
<1>7. Len(syms) = Len(s) + 1 /\ syms[Len(s) + 1] = x /\ \A k \in 1 .. Len(s) : syms[k] = s[k]
  BY <1>6
<1>8. DOMAIN syms = 1 .. Len(s) + 1 /\ DOMAIN s = 1 .. Len(s)
  BY <1>6
<1> HIDE DEF syms
<1>9. qs.toks = ps.toks /\ qs.pos = ps.pos /\ qs.syms = syms
  BY <1>5 DEF Parsers
<1>10. SymNames(qs) = {syms[k] : k \in 1 .. Len(s) + 1} /\ SymNames(ps) = {s[k] : k \in 1 .. Len(s)}
  BY <1>8, <1>9 DEF SymNames
<1>11. 1 .. Len(s) + 1 = (1 .. Len(s)) \cup {Len(s) + 1}
  BY <1>6
<1> HIDE DEF s
<1>12. {syms[k] : k \in 1 .. Len(s) + 1} = {s[k] : k \in 1 .. Len(s)} \cup {x}
  BY <1>7, <1>11
<1> QED
  BY <1>1, <1>3, <1>9, <1>10, <1>12

\* `int x` is taken, and x is a new symbol.
LEMMA DeclGoes ==
  ASSUME NEW ps, Tidy(ps), NEW w, Before(ps, w), Sees(ps, {"int"}), Sees(Advance(ps), {"ident"}),
         NEW x, x = Cur(Advance(ps)).text,
         NEW qs, qs = Declare(Advance(Advance(ps)), x), NoError(qs)
  PROVE  Goes(ps, qs, Behind(Behind(w, Tok("int")), Ident(x)))
<1> DEFINE at == Advance(ps)
           named == Advance(at)
           t == ps.toks
           k == ps.pos - 1
           X == SymNames(ps)
<1>1. NoError(ps) /\ Cur(ps).type = "int" /\ NoError(at) /\ Cur(at).type = "ident"
  BY SeesNoError
<1>2. Tidy(at) /\ at \in Parsers /\ ps \in Parsers
  BY AdvanceKeeps, KeepsTidy, TidyIs
<1>3. at.toks = t /\ at.pos = ps.pos + 1 /\ at.syms = ps.syms
  BY <1>1, <1>2, AdvanceText
<1>4. Cur(ps) = Tok("int") /\ Cur(at) = Ident(x) /\ x \in Idents
  BY <1>1, <1>2, CurToken, CurIs, TokenIs
<1>5. x = Cur(at).text
  OBVIOUS
<1> HIDE DEF at
<1>6. named \in Parsers /\ named.toks = at.toks /\ named.pos = at.pos + 1 /\ named.syms = at.syms
  BY <1>1, <1>2, AdvanceText, AdvanceKeeps, KeepsTidy
<1>7. qs = Declare(named, x)
  BY DEF at
<1> HIDE DEF named
<1>8. /\ Lookup(named, x) = 0 /\ qs.toks = named.toks /\ qs.pos = named.pos
      /\ SymNames(qs) = SymNames(named) \cup {x}
  BY <1>4, <1>6, <1>7, DeclareText
<1>9. SymNames(named) = X /\ x \notin X
  <2>1. SymNames(named) = X
    BY <1>3, <1>6 DEF SymNames
  <2> HIDE DEF X
  <2>2. x \notin SymNames(named)
    BY <1>6, <1>8, LookupFinds
  <2> QED
    BY <2>1, <2>2
<1>10. t \in Seq(Tokens) /\ Len(t) \in Nat /\ ps.pos \in Nat
  BY <1>2 DEF Parsers
<1>11. Sound(t, k, X) /\ w \in Remains /\ Rest(ps) \in w
  BY DEF Before, Clean
<1>12. ps.pos = k + 1 /\ at.pos = k + 2 /\ qs.pos - 1 = k + 2 /\ k \in Nat
  <2>1. k \in Nat
    BY <1>11 DEF Sound
  <2>2. ps.pos = k + 1
    BY <1>10
  <2> HIDE DEF k
  <2> QED
    BY <1>3, <1>6, <1>8, <2>1, <2>2
<1> HIDE DEF X, t, k
<1>13. k + 2 <= Len(t)
  <2>1. CASE at.pos > Len(at.toks)
    BY <1>1, <2>1 DEF Cur, Tok
  <2> QED
    BY <1>3, <1>10, <1>12, <2>1
<1>14. k + 1 <= Len(t)
  BY <1>10, <1>12, <1>13
<1>15. t[k + 1] = Cur(ps) /\ t[k + 2] = Cur(at)
  <2>1. ~(ps.pos > Len(ps.toks)) /\ ~(at.pos > Len(at.toks))
    BY <1>3, <1>10, <1>12, <1>13, <1>14 DEF t
  <2>2. Cur(ps) = ps.toks[ps.pos] /\ Cur(at) = at.toks[at.pos]
    BY <2>1 DEF Cur
  <2> QED
    BY <1>3, <1>12, <2>2 DEF t
<1>16. t[k + 2].text = x
  BY <1>5, <1>15
<1>17. Sound(t, k + 2, X \cup {x})
  <2>1. t[k + 1].type = "int" /\ t[k + 2].type = "ident" /\ t[k + 2].text \notin X
    BY <1>1, <1>9, <1>15, <1>16
  <2> QED
    BY <1>10, <1>11, <1>13, <1>16, <2>1, SoundDecl
<1>18. Clean(qs)
  BY <1>3, <1>6, <1>8, <1>9, <1>12, <1>17 DEF Clean
<1>19. Before(qs, Behind(Behind(w, Tok("int")), Ident(x)))
  <2> DEFINE N == Len(t)
             r == SubSeq(t, k + 1, N)
             rr == SubSeq(t, k + 2, N)
             rrr == SubSeq(t, k + 3, N)
             V == Behind(w, Tok("int"))
  <2>1. k + 1 \in 1 .. N /\ k + 2 \in 1 .. N /\ (k + 1) + 1 = k + 2 /\ (k + 2) + 1 = k + 3
    BY <1>10, <1>12, <1>13
  <2>2. r # <<>> /\ Head(r) = Tok("int") /\ Tail(r) = rr
    BY <1>4, <1>10, <1>15, <2>1, RestIs
  <2>3. rr # <<>> /\ Head(rr) = Ident(x) /\ Tail(rr) = rrr
    BY <1>4, <1>10, <1>15, <2>1, RestIs
  <2>4. Rest(ps) = r
    BY <1>12 DEF Rest, t
  <2>5. qs.pos = k + 3
    BY <1>3, <1>6, <1>8, <1>12
  <2>6. Rest(qs) = rrr
    BY <1>3, <1>6, <1>8, <2>5 DEF Rest
  <2> HIDE DEF r, rr, rrr, N, V
  <2>7. r \in w
    BY <1>11, <2>4
  <2>8. rr \in V
    BY <2>2, <2>7, BehindIn DEF V
  <2>9. Rest(qs) \in Behind(V, Ident(x))
    BY <2>3, <2>6, <2>8, BehindIn
  <2>10. Behind(V, Ident(x)) \in Remains
    BY <1>11, BehindIs DEF V
  <2> QED
    BY <1>18, <2>9, <2>10 DEF Before, V
<1> QED
  BY <1>3, <1>6, <1>8, <1>19 DEF Goes, t

\* The value that a declaration begins with, if it has one.
LEMMA InitGoes ==
  ASSUME NEW ps, NEW w, NEW room, Tidy(room.ps), Goes(ps, room.ps, w), room.n = Nothing,
         NEW init, init = IF Sees(room.ps, {"="}) THEN Expr(Advance(room.ps)) ELSE room,
         NoError(init.ps)
  PROVE  IF init.n = Nothing THEN Goes(ps, init.ps, w)
         ELSE Goes(ps, init.ps, BehindExpr(init.n, Behind(w, Tok("="))))
<1>1. Before(room.ps, w)
  BY GoesIs
<1>2. CASE ~Sees(room.ps, {"="})
  BY <1>2
<1>3. CASE Sees(room.ps, {"="})
  <2> DEFINE at == Advance(room.ps)
             v == Behind(w, Tok("="))
  <2>1. init = Expr(at)
    BY <1>3
  <2>2. Tidy(at) /\ Goes(room.ps, at, v)
    BY <1>1, <1>3, AdvanceKeeps, KeepsTidy, StmtMarks, MarkGoes
  <2> HIDE DEF at, v
  <2>3. Goes(at, init.ps, BehindExpr(init.n, v)) /\ init.n \in Whole
    BY <2>1, <2>2, GoesIs, ExprGoes
  <2>4. init.n # Nothing
    BY <2>3, WholeSome
  <2>6. Goes(ps, at, v)
    BY <2>2, GoesOn
  <2>7. Goes(ps, init.ps, BehindExpr(init.n, v))
    BY <2>3, <2>6, GoesOn
  <2> QED
    BY <2>4, <2>7 DEF v
<1> QED
  BY <1>2, <1>3

LEMMA DeclSpells ==
  ASSUME NEW ps, Tidy(ps), Sees(ps, {"int"}), NEW s, s = DeclStmt(ps), StmtReads(ps, s)
  PROVE  StmtSpells(ps, s)
<1> SUFFICES ASSUME NoError(s.ps), NEW w, Before(ps, w)
             PROVE  Goes(ps, s.ps, BehindStmt(s.n, w))
  BY DEF StmtSpells
<1> DEFINE at == Advance(ps)
           x == Cur(at).text
           v == Behind(Behind(w, Tok("int")), Ident(x))
           named == Advance(at)
           declared == Declare(named, x)
           room == Node(declared, Nothing)
           init == IF Sees(room.ps, {"="}) THEN Expr(Advance(room.ps)) ELSE room
           qs == Expect(init.ps, ";")
           n == [kind |-> "decl", v |-> Var(declared, x), a |-> init.n]
           r == [ps |-> qs, n |-> n]
<1>1. s = IF ~Sees(at, {"ident"}) THEN NoNode(at, "expected a name") ELSE r
  BY DEF DeclStmt
<1>2. Tidy(at)
  BY AdvanceKeeps, KeepsTidy
<1>3. Sees(at, {"ident"})
  BY <1>1, <1>2, MessagesAre, NoNodeIs
<1>4. s.ps = qs /\ s.n = n
  <2>1. s = r
    BY <1>1, <1>3
  <2> HIDE DEF qs, n
  <2>2. r.ps = qs /\ r.n = n
    OBVIOUS
  <2> HIDE DEF r
  <2> QED
    BY <2>1, <2>2
<1>5. n.kind = "decl" /\ n.v.name = x /\ n.a = init.n
  BY DEF Var
<1> HIDE DEF r, n
<1>6. x \in Idents
  BY <1>2, TidyIs, CurIs
<1>7. Tidy(declared)
  <2>1. Tidy(named)
    BY <1>2, AdvanceKeeps, KeepsTidy
  <2> HIDE DEF named, x
  <2> QED
    BY <1>6, <2>1, DeclareIs, ComesTidy
<1>8. NoError(declared) => Goes(ps, declared, v)
  BY <1>3, DeclGoes
<1> HIDE DEF declared, v
<1>9. Comes(declared, room.ps) /\ Tidy(room.ps)
  BY <1>7, NodeIs, ComesTidy
<1>10. NoError(room.ps) => Goes(ps, room.ps, v) /\ room.n = Nothing
  <2> SUFFICES ASSUME NoError(room.ps) PROVE Goes(ps, room.ps, v) /\ room.n = Nothing
    OBVIOUS
  <2>1. Goes(ps, declared, v)
    BY <1>8, <1>9, ComesTidy
  <2>2. Before(declared, v)
    BY <2>1, GoesIs
  <2>3. Goes(declared, room.ps, v) /\ room.n = Nothing
    BY <1>7, <2>2, NodeGoes
  <2> QED
    BY <2>1, <2>3, GoesOn
<1> HIDE DEF room
<1>11. Tidy(init.ps) /\ (NoError(init.ps) => NoError(room.ps))
  <2>1. CASE ~Sees(room.ps, {"="})
    <3>1. init = room
      BY <2>1
    <3> QED
      BY <1>9, <3>1
  <2>2. CASE Sees(room.ps, {"="})
    <3> DEFINE after == Advance(room.ps)
    <3>1. init = Expr(after)
      BY <2>2
    <3>2. Tidy(after)
      BY <1>9, AdvanceKeeps, KeepsTidy
    <3> HIDE DEF after, init
    <3>3. Tidy(init.ps)
      BY <3>1, <3>2, ExprReads, ReadsComes
    <3> QED
      BY <2>2, <3>3, SeesNoError
  <2> QED
    BY <2>1, <2>2
<1>12. NoError(init.ps)
  <2> HIDE DEF init
  <2> QED
    BY <1>4, <1>11, ExpectKeeps, KeepsTidy
<1>13. room.n = Nothing /\ Goes(ps, room.ps, v)
  BY <1>10, <1>11, <1>12
<1>14. IF init.n = Nothing THEN Goes(ps, init.ps, v)
       ELSE Goes(ps, init.ps, BehindExpr(init.n, Behind(v, Tok("="))))
  BY <1>9, <1>12, <1>13, InitGoes
<1> HIDE DEF init
<1>15. n \in WholeStmts
  BY <1>4, StmtWhole
<1>16. w \in Remains
  BY DEF Before
<1>17. NoError(qs)
  BY <1>4
<1> HIDE DEF x
<1>18. BehindStmt(n, w) = IF n.a = Nothing THEN Behind(v, Tok(";"))
                         ELSE BehindSimple(n, Behind(v, Tok("=")))
  BY <1>5, <1>15, <1>16, BehindStmtIs DEF TakeStmt, BehindDecl, v
<1> DEFINE u == IF n.a = Nothing THEN v ELSE BehindExpr(n.a, Behind(v, Tok("=")))
<1>19. Goes(ps, init.ps, u)
  BY <1>5, <1>14
<1>20. BehindStmt(n, w) = Behind(u, Tok(";"))
  BY <1>18 DEF BehindSimple
<1> HIDE DEF u
<1>21. Goes(init.ps, qs, Behind(u, Tok(";")))
  <2>1. Before(init.ps, u)
    BY <1>19, GoesIs
  <2> QED
    BY <1>11, <1>17, <2>1, StmtMarks, ExpectMarkGoes
<1> HIDE DEF qs
<1>22. Goes(ps, qs, Behind(u, Tok(";")))
  BY <1>19, <1>21, GoesOn
<1> QED
  BY <1>4, <1>20, <1>22

LEMMA WhileSpells ==
  ASSUME NEW stmt, StmtRenderer(stmt), NEW ps, Tidy(ps), Sees(ps, {"while"}),
         NEW s, s = WhileStmt(stmt, ps), StmtReads(ps, s)
  PROVE  StmtSpells(ps, s)
<1> SUFFICES ASSUME NoError(s.ps), NEW w, Before(ps, w)
             PROVE  Goes(ps, s.ps, BehindStmt(s.n, w))
  BY DEF StmtSpells
<1> DEFINE cond == Condition(ps)
           v == BehindCondition(cond.n, Behind(w, Tok("while")))
           body == stmt[cond.ps]
           n == [kind |-> "while", a |-> cond.n, b |-> body.n]
<1>1. s = Node(body.ps, n)
  BY DEF WhileStmt
<1>2. Tidy(cond.ps)
  BY ConditionReads, ReadsComes
<1>3. NoError(cond.ps) => Goes(ps, cond.ps, v)
  BY StmtMarks, ConditionGoes
<1> HIDE DEF cond, v
<1>4. StmtReads(cond.ps, body) /\ StmtSpells(cond.ps, body)
  BY <1>2, StmtRendererOne DEF StmtRenders
<1> HIDE DEF body
<1>5. Tidy(body.ps)
  BY <1>4, StmtReadsTidy
<1>6. n.kind = "while" /\ n.a = cond.n /\ n.b = body.n
  OBVIOUS
<1> HIDE DEF n
<1>7. NoError(body.ps)
  BY <1>1, <1>5, NodeIs, ComesTidy
<1>8. NoError(cond.ps)
  BY <1>4, <1>7, StmtReadsTidy
<1>9. Goes(cond.ps, body.ps, BehindStmt(n.b, v))
  BY <1>3, <1>4, <1>6, <1>7, <1>8, GoesIs DEF StmtSpells
<1>10. Goes(body.ps, s.ps, BehindStmt(n.b, v)) /\ s.n = n
  BY <1>1, <1>5, <1>9, GoesIs, NodeGoes
<1>11. Goes(ps, s.ps, BehindStmt(n.b, v))
  BY <1>3, <1>8, <1>9, <1>10, GoesOn
<1>12. n \in WholeStmts
  BY <1>10, StmtWhole
<1>13. w \in Remains
  BY DEF Before
<1>14. BehindStmt(n, w) = BehindStmt(n.b, v)
  <2>1. BehindStmt(n, w) = TakeStmt(StmtLeaver, n, w)
    BY <1>12, <1>13, BehindStmtIs
  <2>2. TakeStmt(StmtLeaver, n, w) = StmtLeaver[n.b][v]
    BY <1>6 DEF TakeStmt, v
  <2> QED
    BY <2>1, <2>2 DEF BehindStmt, StmtLeaver
<1> QED
  BY <1>10, <1>11, <1>14

\* The other branch, if there is one.
LEMMA ElseGoes ==
  ASSUME NEW stmt, StmtRenderer(stmt), NEW ps, NEW then, Tidy(then.ps), NEW t,
         NEW else, else = IF Sees(then.ps, {"else"}) THEN stmt[Advance(then.ps)]
                          ELSE [ps |-> then.ps, n |-> Nothing]
  PROVE  /\ Tidy(else.ps) /\ (NoError(else.ps) => NoError(then.ps))
         /\ NoError(else.ps) /\ Goes(ps, then.ps, t) =>
              Goes(ps, else.ps, IF else.n = Nothing THEN t ELSE BehindStmt(else.n, Behind(t, Tok("else"))))
<1>1. CASE ~Sees(then.ps, {"else"})
  <2>1. else.ps = then.ps /\ else.n = Nothing
    BY <1>1
  <2> QED
    BY <2>1
<1>2. CASE Sees(then.ps, {"else"})
  <2> DEFINE at == Advance(then.ps)
             e == Behind(t, Tok("else"))
  <2>1. else = stmt[at]
    BY <1>2
  <2>2. Tidy(at)
    BY AdvanceKeeps, KeepsTidy
  <2>3. StmtReads(at, else) /\ StmtSpells(at, else)
    BY <2>1, <2>2, StmtRendererOne DEF StmtRenders
  <2>4. Tidy(else.ps) /\ NoError(then.ps)
    BY <1>2, <2>3, StmtReadsTidy, SeesNoError
  <2>5. ASSUME NoError(else.ps), Goes(ps, then.ps, t)
        PROVE  else.n # Nothing /\ Goes(ps, else.ps, BehindStmt(else.n, e))
    <3>1. Before(then.ps, t)
      BY <2>5, GoesIs
    <3>2. Goes(then.ps, at, e)
      BY <1>2, <3>1, StmtMarks, MarkGoes
    <3> HIDE DEF at, e
    <3>3. else.n # Nothing
      BY <2>2, <2>3, <2>5, StmtWhole, WholeSome
    <3>4. Goes(at, else.ps, BehindStmt(else.n, e))
      BY <2>3, <2>5, <3>2, GoesIs DEF StmtSpells
    <3>5. Goes(ps, at, e)
      BY <2>5, <3>2, GoesOn
    <3> QED
      BY <3>3, <3>4, <3>5, GoesOn
  <2> QED
    BY <2>4, <2>5
<1> QED
  BY <1>1, <1>2

LEMMA IfSpells ==
  ASSUME NEW stmt, StmtRenderer(stmt), NEW ps, Tidy(ps), Sees(ps, {"if"}),
         NEW s, s = IfStmt(stmt, ps), StmtReads(ps, s)
  PROVE  StmtSpells(ps, s)
<1> SUFFICES ASSUME NoError(s.ps), NEW w, Before(ps, w)
             PROVE  Goes(ps, s.ps, BehindStmt(s.n, w))
  BY DEF StmtSpells
<1> DEFINE cond == Condition(ps)
           v == BehindCondition(cond.n, Behind(w, Tok("if")))
           then == stmt[cond.ps]
           else == IF Sees(then.ps, {"else"}) THEN stmt[Advance(then.ps)]
                   ELSE [ps |-> then.ps, n |-> Nothing]
           n == [kind |-> "if", a |-> cond.n, b |-> then.n, c |-> else.n]
           t == BehindStmt(then.n, v)
           u == IF else.n = Nothing THEN t ELSE BehindStmt(else.n, Behind(t, Tok("else")))
<1>1. s = Node(else.ps, n)
  BY DEF IfStmt
<1>2. Tidy(cond.ps)
  BY ConditionReads, ReadsComes
<1>3. NoError(cond.ps) => Goes(ps, cond.ps, v)
  BY StmtMarks, ConditionGoes
<1> HIDE DEF cond, v
<1>4. StmtReads(cond.ps, then) /\ StmtSpells(cond.ps, then)
  BY <1>2, StmtRendererOne DEF StmtRenders
<1> HIDE DEF then
<1>5. Tidy(then.ps)
  BY <1>4, StmtReadsTidy
<1>6. n.kind = "if" /\ n.a = cond.n /\ n.b = then.n /\ n.c = else.n
  OBVIOUS
<1> HIDE DEF n
<1>7. /\ Tidy(else.ps) /\ (NoError(else.ps) => NoError(then.ps))
      /\ NoError(else.ps) /\ Goes(ps, then.ps, t) => Goes(ps, else.ps, u)
  <2> HIDE DEF t
  <2>1. else = IF Sees(then.ps, {"else"}) THEN stmt[Advance(then.ps)]
               ELSE [ps |-> then.ps, n |-> Nothing]
    OBVIOUS
  <2> HIDE DEF else
  <2> QED
    BY <1>5, <2>1, ElseGoes
<1> HIDE DEF else
<1>8. NoError(else.ps)
  BY <1>1, <1>7, NodeIs, ComesTidy
<1>9. NoError(then.ps) /\ NoError(cond.ps)
  BY <1>4, <1>7, <1>8, StmtReadsTidy
<1>10. Goes(ps, then.ps, t)
  <2>1. Goes(cond.ps, then.ps, t)
    BY <1>3, <1>4, <1>9, GoesIs DEF StmtSpells
  <2> QED
    BY <1>3, <1>9, <2>1, GoesOn
<1>11. Goes(ps, else.ps, u)
  BY <1>7, <1>8, <1>10
<1> HIDE DEF u, t
<1>12. Goes(else.ps, s.ps, u) /\ s.n = n
  BY <1>1, <1>7, <1>11, GoesIs, NodeGoes
<1>13. Goes(ps, s.ps, u)
  BY <1>11, <1>12, GoesOn
<1>14. n \in WholeStmts
  BY <1>12, StmtWhole
<1>15. w \in Remains
  BY DEF Before
<1>16. BehindStmt(n, w) = u
  <2>1. BehindStmt(n, w) = TakeStmt(StmtLeaver, n, w)
    BY <1>14, <1>15, BehindStmtIs
  <2>2. TakeStmt(StmtLeaver, n, w) = TakeIf(StmtLeaver, n, w)
    BY <1>6 DEF TakeStmt
  <2>3. StmtLeaver[n.b][v] = t
    BY <1>6 DEF t, BehindStmt, StmtLeaver
  <2>4. TakeIf(StmtLeaver, n, w) = IF n.c = Nothing THEN t ELSE StmtLeaver[n.c][Behind(t, Tok("else"))]
    BY <1>6, <2>3 DEF TakeIf, v
  <2>5. TakeIf(StmtLeaver, n, w) = u
    BY <1>6, <2>4 DEF u, BehindStmt, StmtLeaver
  <2> QED
    BY <2>1, <2>2, <2>5
<1> QED
  BY <1>12, <1>13, <1>16

\* What a list of statements was read from.
ListSpells(ps, done) ==
  NoError(done.ps) =>
    \A w : Before(ps, w) => Goes(ps, done.ps, Through(StmtLeaver, done.n, w))

ListRenders(ps, done) == ListReads(ps, done) /\ ListSpells(ps, done)

LEMMA JoinedRenders ==
  ASSUME NEW ps, Tidy(ps), NEW done, ListRenders(ps, done), NEW s, StmtRenders(done.ps, s)
  PROVE  ListRenders(ps, Joined(done, s))
<1> DEFINE next == Joined(done, s)
<1>1. ListReads(ps, done) /\ StmtReads(done.ps, s) /\ StmtSpells(done.ps, s)
  BY DEF ListRenders, StmtRenders
<1>2. ListReads(ps, next)
  BY <1>1, JoinedReads
<1>3. ASSUME NoError(next.ps), NEW w, Before(ps, w)
      PROVE  Goes(ps, next.ps, Through(StmtLeaver, next.n, w))
  <2> DEFINE v == Through(StmtLeaver, done.n, w)
  <2>1. next.ps = s.ps
    BY DEF Joined
  <2>2. NoError(s.ps)
    BY <1>3, <2>1
  <2>3. next.n = Append(done.n, s.n)
    BY <2>2 DEF Joined
  <2> HIDE DEF next
  <2>4. Tidy(done.ps) /\ done.n \in Seq(WholeStmts)
    BY <1>1, ListReadsComes DEF Lists, WholeStmts
  <2>5. NoError(done.ps) /\ s.n \in WholeStmts
    BY <1>1, <2>2, <2>4, StmtWhole
  <2>6. Goes(ps, done.ps, v)
    BY <1>3, <2>5 DEF ListRenders, ListSpells
  <2>7. Before(done.ps, v)
    BY <2>6, GoesIs
  <2>8. Goes(done.ps, s.ps, BehindStmt(s.n, v))
    BY <1>1, <2>2, <2>7 DEF StmtSpells
  <2>9. Goes(ps, s.ps, BehindStmt(s.n, v))
    BY <2>6, <2>8, GoesOn
  <2>10. Through(StmtLeaver, Append(done.n, s.n), w) = StmtLeaver[s.n][v]
    BY <2>4, <2>5, ThroughMore
  <2> QED
    BY <2>1, <2>3, <2>9, <2>10 DEF BehindStmt, StmtLeaver
<1> QED
  BY <1>2, <1>3 DEF ListRenders, ListSpells

LEMMA StmtsRender ==
  ASSUME NEW stmt, StmtRenderer(stmt), NEW ps, Tidy(ps)
  PROVE  ListRenders(ps, Stmts(stmt, ps))
<1> DEFINE N == Len(ps.toks)
           f == Lines(stmt, N)
           I == {j \in 0 .. N : \A done : ListRenders(ps, done) => ListRenders(ps, f[j][done])}
           none == [ps |-> ps, n |-> <<>>]
<1>1. N \in Nat
  BY TidyIs
<1>2. Stmts(stmt, ps) = f[N][none]
  BY <1>1, StmtsIs
<1>3. \A j \in 0 .. N : f[j] = ListStep(stmt, j, f[j - 1])
  BY <1>1, StmtsIs
<1>4. ListRenders(ps, none)
  <2>1. none = [ps |-> none.ps, n |-> none.n] /\ none.ps = ps /\ none.n = <<>>
    OBVIOUS
  <2> HIDE DEF none
  <2>2. \A T : <<>> \in Seq(T)
    OBVIOUS
  <2>3. Comes(ps, none.ps)
    BY <2>1, ComesSelf
  <2>4. ListReads(ps, none)
    BY <2>1, <2>2, <2>3, ListReadsIs
  <2>5. \A w : Through(StmtLeaver, none.n, w) = w
    BY <2>1, ThroughNone
  <2>6. \A w : Before(ps, w) => Goes(ps, none.ps, w)
    BY <2>1 DEF Goes
  <2> QED
    BY <2>4, <2>5, <2>6 DEF ListRenders, ListSpells
<1> HIDE DEF f, none, N
<1>5. ASSUME NEW j \in 0 .. N, NEW done, ListRenders(ps, done), j = 0 \/ Ends(done.ps)
      PROVE  ListRenders(ps, f[j][done])
  <2>1. done \in Lists
    BY <1>5, ListReadsComes DEF ListRenders
  <2>2. ListStep(stmt, j, f[j - 1])[done] = done
    BY <1>5, <2>1, ListStepIs
  <2> QED
    BY <1>3, <1>5, <2>2
<1>6. 0 \in I
  <2>1. 0 \in 0 .. N
    BY <1>1
  <2> QED
    BY <1>5, <2>1
<1>7. ASSUME NEW j \in 1 .. N, j - 1 \in I
      PROVE  j \in I
  <2>1. j \in 0 .. N /\ j # 0
    OBVIOUS
  <2>2. ASSUME NEW done, ListRenders(ps, done)
        PROVE  ListRenders(ps, f[j][done])
    <3>1. CASE Ends(done.ps)
      BY <1>5, <2>1, <2>2, <3>1
    <3>2. CASE ~Ends(done.ps)
      <4> DEFINE s == stmt[done.ps]
                 next == Joined(done, s)
      <4>1. done \in Lists /\ Tidy(done.ps)
        BY <2>2, ListReadsComes DEF ListRenders
      <4>2. StmtRenders(done.ps, s)
        BY <4>1, StmtRendererOne
      <4>3. ListRenders(ps, next)
        BY <2>2, <4>2, JoinedRenders
      <4>4. ListStep(stmt, j, f[j - 1])[done] = f[j - 1][next]
        BY <2>1, <3>2, <4>1, ListStepIs
      <4> HIDE DEF next
      <4>5. ListRenders(ps, f[j - 1][next])
        BY <1>7, <4>3
      <4> QED
        BY <1>3, <2>1, <4>4, <4>5
    <3> QED
      BY <3>1, <3>2
  <2> QED
    BY <2>1, <2>2
<1> HIDE DEF I
<1>8. N \in 0 .. N
  BY <1>1
<1>9. N \in I
  BY <1>1, <1>6, <1>7, <1>8, Induction DEF Inductive
<1> QED
  BY <1>2, <1>4, <1>9 DEF I

LEMMA BlockSpells ==
  ASSUME NEW stmt, StmtRenderer(stmt), NEW ps, Tidy(ps),
         NEW s, s = Block(stmt, ps), StmtReads(ps, s), NoError(s.ps)
  PROVE  /\ Sees(ps, {"{"})
         /\ \A w : Before(ps, w) => Goes(ps, s.ps, BehindStmt(s.n, w))
<1> DEFINE at == Expect(ps, "{")
           room == Node(at, Nothing)
           body == Stmts(stmt, room.ps)
           qs == Expect(body.ps, "}")
           n == [kind |-> "block", body |-> body.n]
           r == [ps |-> qs, n |-> n]
<1>1. s = r
  BY DEF Block
<1>2. r.ps = qs /\ r.n = n
  <2> HIDE DEF qs, n
  <2> QED
    OBVIOUS
<1>3. n.kind = "block" /\ n.body = body.n
  <2> HIDE DEF body
  <2> QED
    OBVIOUS
<1> HIDE DEF r, n
<1>4. s.ps = qs /\ s.n = n /\ NoError(qs)
  <2> HIDE DEF qs
  <2> QED
    BY <1>1, <1>2
<1>5. Tidy(at)
  BY ExpectKeeps, KeepsTidy
<1>6. NoError(at) => Sees(ps, {"{"})
  BY TidyIs, ExpectText
<1>7. \A w : NoError(at) /\ Before(ps, w) => Goes(ps, at, Behind(w, Tok("{")))
  BY StmtMarks, ExpectMarkGoes
<1> HIDE DEF at
<1>8. Tidy(room.ps) /\ (NoError(room.ps) => NoError(at))
  BY <1>5, NodeIs, ComesTidy
<1>9. \A v : NoError(room.ps) /\ Before(at, v) => Goes(at, room.ps, v)
  BY <1>5, NodeGoes
<1> HIDE DEF room
<1>10. ListReads(room.ps, body) /\ ListSpells(room.ps, body)
  BY <1>8, StmtsRender DEF ListRenders
<1> HIDE DEF body
<1>11. Tidy(body.ps) /\ (NoError(body.ps) => NoError(room.ps))
  BY <1>10, ListReadsComes, ComesTidy
<1>12. NoError(body.ps)
  BY <1>4, <1>11, ExpectKeeps, KeepsTidy
<1>13. ASSUME NEW w, Before(ps, w)
       PROVE  Goes(ps, s.ps, BehindStmt(s.n, w))
  <2> DEFINE v == Behind(w, Tok("{"))
             u == Through(StmtLeaver, body.n, v)
  <2>1. Goes(ps, at, v) /\ Goes(at, room.ps, v)
    BY <1>7, <1>8, <1>9, <1>11, <1>12, <1>13, GoesIs
  <2> HIDE DEF v
  <2>2. Goes(ps, room.ps, v)
    BY <2>1, GoesOn
  <2>3. Before(room.ps, v)
    BY <2>2, GoesIs
  <2>4. Goes(room.ps, body.ps, u)
    BY <1>10, <1>12, <2>3 DEF ListSpells
  <2>5. Before(body.ps, u)
    BY <2>4, GoesIs
  <2>6. Goes(ps, body.ps, u)
    BY <2>2, <2>4, GoesOn
  <2> HIDE DEF u
  <2>7. Goes(body.ps, qs, Behind(u, Tok("}")))
    BY <1>4, <1>11, <2>5, StmtMarks, ExpectMarkGoes
  <2> HIDE DEF qs
  <2>8. Goes(ps, qs, Behind(u, Tok("}")))
    BY <2>6, <2>7, GoesOn
  <2>9. n \in WholeStmts
    BY <1>4, StmtWhole
  <2>10. w \in Remains
    BY <1>13 DEF Before
  <2>11. BehindStmt(n, w) = TakeStmt(StmtLeaver, n, w)
    BY <2>9, <2>10, BehindStmtIs
  <2>12. TakeStmt(StmtLeaver, n, w) = Behind(Through(StmtLeaver, n.body, Behind(w, Tok("{"))), Tok("}"))
    BY <1>3 DEF TakeStmt
  <2>13. BehindStmt(n, w) = Behind(u, Tok("}"))
    BY <1>3, <2>11, <2>12 DEF u, v
  <2> QED
    BY <1>4, <2>8, <2>13
<1> QED
  BY <1>6, <1>8, <1>11, <1>12, <1>13

LEMMA StmtRendersOne ==
  ASSUME NEW stmt, StmtRenderer(stmt), NEW ps, Tidy(ps)
  PROVE  StmtRenders(ps, Stmt(stmt, ps))
<1> DEFINE s == Stmt(stmt, ps)
<1>1. StmtReads(ps, s)
  BY StmtRendererReads, StmtReadsOne
<1>2. CASE \A type \in Starts : ~Sees(ps, {type})
  <2>1. s = NoNode(ps, "invalid command")
    BY <1>2, SeesNone
  <2>2. ~NoError(s.ps)
    BY <2>1, MessagesAre, NoNodeIs
  <2> QED
    BY <1>1, <2>2 DEF StmtRenders, StmtSpells
<1>3. CASE Sees(ps, {"{"})
  <2>1. s = Block(stmt, ps)
    BY <1>3, StmtIsBlock
  <2> HIDE DEF s
  <2>2. StmtSpells(ps, s)
    BY <1>1, <2>1, BlockSpells DEF StmtSpells
  <2> QED
    BY <1>1, <2>2 DEF StmtRenders, s
<1>4. CASE Sees(ps, {"int"})
  <2>1. s = DeclStmt(ps)
    BY <1>4, StmtIsDecl
  <2> HIDE DEF s
  <2>2. StmtSpells(ps, s)
    BY <1>1, <1>4, <2>1, DeclSpells
  <2> QED
    BY <1>1, <2>2 DEF StmtRenders, s
<1>5. CASE Sees(ps, {"if"})
  <2>1. s = IfStmt(stmt, ps)
    BY <1>5, StmtIsIf
  <2> HIDE DEF s
  <2>2. StmtSpells(ps, s)
    BY <1>1, <1>5, <2>1, IfSpells
  <2> QED
    BY <1>1, <2>2 DEF StmtRenders, s
<1>6. CASE Sees(ps, {"while"})
  <2>1. s = WhileStmt(stmt, ps)
    BY <1>6, StmtIsWhile
  <2> HIDE DEF s
  <2>2. StmtSpells(ps, s)
    BY <1>1, <1>6, <2>1, WhileSpells
  <2> QED
    BY <1>1, <2>2 DEF StmtRenders, s
<1>7. CASE Sees(ps, {"print"})
  <2> DEFINE r == Condition(ps)
             n == [kind |-> "print", a |-> r.n]
  <2>1. s = Simple(r, n)
    BY <1>7, StmtIsPrint
  <2> HIDE DEF s
  <2>2. r = Condition(ps)
    OBVIOUS
  <2> HIDE DEF r
  <2>3. n = [kind |-> "print", a |-> r.n]
    OBVIOUS
  <2> HIDE DEF n
  <2>4. StmtSpells(ps, s)
    BY <1>1, <1>7, <2>1, <2>2, <2>3, PrintSpells
  <2> QED
    BY <1>1, <2>4 DEF StmtRenders, s
<1>8. CASE Sees(ps, {"return"})
  <2> DEFINE r == Expr(Advance(ps))
             n == [kind |-> "return", a |-> r.n]
  <2>1. s = Simple(r, n)
    BY <1>8, StmtIsReturn
  <2> HIDE DEF s
  <2>2. r = Expr(Advance(ps))
    OBVIOUS
  <2> HIDE DEF r
  <2>3. n = [kind |-> "return", a |-> r.n]
    OBVIOUS
  <2> HIDE DEF n
  <2>4. StmtSpells(ps, s)
    BY <1>1, <1>8, <2>1, <2>2, <2>3, ReturnSpells
  <2> QED
    BY <1>1, <2>4 DEF StmtRenders, s
<1>9. CASE Sees(ps, {"ident"})
  <2>1. s = AssignStmt(ps)
    BY <1>9, StmtIsAssign
  <2> HIDE DEF s
  <2>2. StmtSpells(ps, s)
    BY <1>1, <1>9, <2>1, AssignSpells
  <2> QED
    BY <1>1, <2>2 DEF StmtRenders, s
<1> QED
  BY <1>2, <1>3, <1>4, <1>5, <1>6, <1>7, <1>8, <1>9 DEF Starts

LEMMA StatementsRender ==
  ASSUME NEW d \in 0 .. MaxDepth
  PROVE  StmtRenderer(statements[d])
<1> DEFINE I == {j \in 0 .. MaxDepth : StmtRenderer(statements[j])}
<1>1. MaxDepth \in Nat /\ 0 \in 0 .. MaxDepth
  BY CompilerAssumption
<1>2. 0 \in I
  <2>1. ASSUME NEW ps \in Parsers, Tidy(ps)
        PROVE  StmtRenders(ps, statements[0][ps])
    <3> DEFINE s == NoNode(ps, "too deep")
    <3>1. statements[0] = StatementStep(0, statements[0 - 1])
      BY <1>1, StatementTableIs
    <3>2. statements[0][ps] = s
      BY <3>1 DEF StatementStep
    <3>3. StmtReads(ps, s)
      BY <2>1, MessagesAre, ComesSelf, StmtReadsNoNode
    <3>4. ~NoError(s.ps)
      BY <2>1, MessagesAre, NoNodeIs
    <3> HIDE DEF s
    <3> QED
      BY <3>2, <3>3, <3>4 DEF StmtRenders, StmtSpells
  <2> QED
    BY <1>1, <2>1 DEF StmtRenderer
<1>3. ASSUME NEW j \in 1 .. MaxDepth, j - 1 \in I
      PROVE  j \in I
  <2>1. j \in 0 .. MaxDepth /\ j # 0
    OBVIOUS
  <2>2. StmtRenderer(statements[j - 1])
    BY <1>3
  <2>3. ASSUME NEW ps \in Parsers, Tidy(ps)
        PROVE  StmtRenders(ps, statements[j][ps])
    <3>1. statements[j] = StatementStep(j, statements[j - 1])
      BY <2>1, StatementTableIs
    <3>2. statements[j][ps] = Stmt(statements[j - 1], ps)
      BY <2>1, <3>1 DEF StatementStep
    <3> QED
      BY <2>2, <2>3, <3>2, StmtRendersOne
  <2>4. StmtRenderer(statements[j])
    BY <2>3 DEF StmtRenderer
  <2> QED
    BY <2>1, <2>4
<1> HIDE DEF I
<1>4. d \in I
  BY <1>1, <1>2, <1>3, Induction DEF Inductive
<1> QED
  BY <1>4 DEF I

\* The token that the parser is at.
LEMMA CurAt ==
  ASSUME NEW ps, Tidy(ps), Cur(ps) # Tok("eof")
  PROVE  ps.pos \in 1 .. Len(ps.toks) /\ ps.toks[ps.pos] = Cur(ps) /\ Cur(ps) \in Tokens
<1>1. ps.pos \in Nat \ {0} /\ Len(ps.toks) \in Nat
  BY DEF Tidy, Parsers
<1>2. ~(ps.pos > Len(ps.toks))
  BY DEF Cur
<1>3. Cur(ps) = ps.toks[ps.pos]
  BY <1>2 DEF Cur
<1>4. Cur(ps) \in Tokens
  BY TidyIs, CurToken
<1> QED
  BY <1>1, <1>2, <1>3, <1>4

\* A token that was expected.
LEMMA ExpectedAt ==
  ASSUME NEW ps, Tidy(ps), NEW type, type # "eof", NEW qs, qs = Expect(ps, type)
  PROVE  /\ Tidy(qs) /\ (NoError(qs) => NoError(ps))
         /\ NoError(qs) =>
              /\ ps.pos \in 1 .. Len(ps.toks) /\ ps.toks[ps.pos].type = type
              /\ qs.toks = ps.toks /\ qs.pos = ps.pos + 1 /\ qs.syms = ps.syms
<1>1. Tidy(qs) /\ (NoError(qs) => NoError(ps))
  BY ExpectKeeps, KeepsTidy
<1>2. ASSUME NoError(qs)
      PROVE  /\ ps.pos \in 1 .. Len(ps.toks) /\ ps.toks[ps.pos].type = type
             /\ qs.toks = ps.toks /\ qs.pos = ps.pos + 1 /\ qs.syms = ps.syms
  <2>1. Sees(ps, {type}) /\ qs = Advance(ps)
    BY <1>2, TidyIs, ExpectText
  <2>2. Cur(ps).type = type /\ NoError(ps)
    BY <2>1, SeesNoError
  <2>3. Tok("eof").type = "eof"
    BY DEF Tok
  <2>4. ps.pos \in 1 .. Len(ps.toks) /\ ps.toks[ps.pos] = Cur(ps)
    BY <2>2, <2>3, CurAt
  <2>5. qs.toks = ps.toks /\ qs.pos = ps.pos + 1 /\ qs.syms = ps.syms
    BY <2>1, <2>2, TidyIs, AdvanceText
  <2> QED
    BY <2>2, <2>4, <2>5
<1> QED
  BY <1>1, <1>2

\* The name that main must have.
LEMMA MainAt ==
  ASSUME NEW ps, Tidy(ps),
         NEW qs, qs = IF Cur(ps).text = "main" THEN Advance(ps) ELSE Fail(ps, "expected main")
  PROVE  /\ Tidy(qs) /\ (NoError(qs) => NoError(ps))
         /\ NoError(qs) =>
              /\ ps.pos \in 1 .. Len(ps.toks) /\ ps.toks[ps.pos] = Ident("main")
              /\ qs.toks = ps.toks /\ qs.pos = ps.pos + 1 /\ qs.syms = ps.syms
<1>1. CASE Cur(ps).text # "main"
  <2>1. Keeps(ps, qs) /\ ~NoError(qs)
    BY <1>1, MessagesAre, FailKeeps
  <2> QED
    BY <2>1, KeepsTidy
<1>2. CASE Cur(ps).text = "main"
  <2>1. qs = Advance(ps)
    BY <1>2
  <2>2. Tidy(qs) /\ (NoError(qs) => NoError(ps))
    BY <2>1, AdvanceKeeps, KeepsTidy
  <2>3. Tok("eof").text = ""
    BY DEF Tok
  <2>4. ps.pos \in 1 .. Len(ps.toks) /\ ps.toks[ps.pos] = Cur(ps) /\ Cur(ps) \in Tokens
    BY <1>2, <2>3, CurAt
  <2>5. Cur(ps).type = "ident"
    BY <1>2, <2>4 DEF Tokens
  <2>6. Cur(ps) = Ident("main")
    BY <1>2, <2>4, <2>5, TokenIs
  <2>7. NoError(ps) => qs.toks = ps.toks /\ qs.pos = ps.pos + 1 /\ qs.syms = ps.syms
    BY <2>1, TidyIs, AdvanceText
  <2> QED
    BY <2>2, <2>4, <2>6, <2>7
<1> QED
  BY <1>1, <1>2

\* int main ( )
LEMMA OpeningSound ==
  ASSUME NEW t \in Seq(Tokens), 4 <= Len(t), t[1].type = "int", t[2] = Ident("main"),
         t[3].type = "(", t[4].type = ")"
  PROVE  /\ Sound(t, 4, {})
         /\ BehindMain({t}) \in Remains /\ SubSeq(t, 5, Len(t)) \in BehindMain({t})
<1> DEFINE N == Len(t)
           r(i) == SubSeq(t, i, N)
           A == Behind({t}, Tok("int"))
           B == Behind(A, Ident("main"))
           C == Behind(B, Tok("("))
           D == Behind(C, Tok(")"))
<1>1. N \in Nat /\ N >= 4 /\ \A i \in 1 .. N : t[i] \in Tokens
  BY ElementOfSeq
<1>2. 1 \in 1 .. N /\ 2 \in 1 .. N /\ 3 \in 1 .. N /\ 4 \in 1 .. N /\ 4 \in 4 .. N
  BY <1>1
<1>3. t[1] = Tok("int") /\ t[3] = Tok("(") /\ t[4] = Tok(")")
  BY <1>1, <1>2, TokenIs
<1>4. r(1) = t
  OBVIOUS
<1>5. /\ r(1) # <<>> /\ Head(r(1)) = Tok("int") /\ Tail(r(1)) = r(2)
      /\ r(2) # <<>> /\ Head(r(2)) = Ident("main") /\ Tail(r(2)) = r(3)
      /\ r(3) # <<>> /\ Head(r(3)) = Tok("(") /\ Tail(r(3)) = r(4)
      /\ r(4) # <<>> /\ Head(r(4)) = Tok(")") /\ Tail(r(4)) = r(5)
  <2>1. 1 + 1 = 2 /\ 2 + 1 = 3 /\ 3 + 1 = 4 /\ 4 + 1 = 5
    OBVIOUS
  <2>2. \A i \in 1 .. N : r(i) # <<>> /\ Head(r(i)) = t[i] /\ Tail(r(i)) = r(i + 1)
    BY RestIs
  <2> HIDE DEF r, N
  <2> QED
    BY <1>2, <1>3, <2>1, <2>2
<1> HIDE DEF r, N
<1>6. r(2) \in A
  BY <1>4, <1>5, BehindIn
<1>7. A \in Remains
  <2>1. {t} \in Remains
    BY DEF Remains
  <2> QED
    BY <2>1, BehindIs
<1> HIDE DEF A
<1>8. r(3) \in B /\ B \in Remains
  BY <1>5, <1>6, <1>7, BehindIn, BehindIs
<1> HIDE DEF B
<1>9. r(4) \in C /\ C \in Remains
  BY <1>5, <1>8, BehindIn, BehindIs
<1> HIDE DEF C
<1>10. r(5) \in D /\ D \in Remains
  BY <1>5, <1>9, BehindIn, BehindIs
<1>11. D = BehindMain({t})
  BY DEF A, B, C, D, BehindMain
<1>12. 5 .. 4 = {}
  OBVIOUS
<1>13. Introduced(t, 4) = {}
  BY <1>12 DEF Introduced
<1>14. DeclaredOnce(t, 4)
  BY <1>12 DEF DeclaredOnce
<1>15. t[4].type # "int"
  OBVIOUS
<1>16. Sound(t, 4, {})
  BY <1>2, <1>13, <1>14, <1>15 DEF Sound, N
<1> QED
  BY <1>10, <1>11, <1>16 DEF r, N

\* What cc_parse_program takes is a program, token for token: the tree it makes is one
\* way to read the text up to where the parser stopped, every parenthesis where it is
\* needed and closed again, and the names are declared once, before their use
\* (cc_parse_stmt, cc_parse_comparison, cc_parse_primary, cc_expect, cc_sym_declare).
THEOREM ParseSpells ==
  ASSUME NEW t \in Seq(Tokens), NEW p, p = Parse(t), NoError(p.ps)
  PROVE  /\ SubSeq(t, p.ps.pos, Len(t)) \in BehindStmt(p.n, BehindMain({t}))
         /\ DeclaredOnce(t, p.ps.pos - 1)
<1> DEFINE p0 == Beginning(t)
           p1 == Expect(p0, "int")
           p2 == IF Cur(p1).text = "main" THEN Advance(p1) ELSE Fail(p1, "expected main")
           p3 == Expect(p2, "(")
           p4 == Expect(p3, ")")
<1>1. p = Block(statements[MaxDepth], p4)
  BY DEF Parse, Beginning
<1>2. Tidy(p0) /\ p0.toks = t /\ p0.pos = 1 /\ p0.syms = <<>>
  <2>1. p0.toks = t /\ p0.pos = 1 /\ p0.syms = <<>>
    BY DEF Beginning
  <2> QED
    BY <2>1, BeginningIs
<1> HIDE DEF p0
<1>3. /\ Tidy(p1) /\ (NoError(p1) => NoError(p0))
      /\ NoError(p1) => /\ p0.pos \in 1 .. Len(p0.toks) /\ p0.toks[p0.pos].type = "int"
                        /\ p1.toks = p0.toks /\ p1.pos = p0.pos + 1 /\ p1.syms = p0.syms
  BY <1>2, ExpectedAt
<1> HIDE DEF p1
<1>4. /\ Tidy(p2) /\ (NoError(p2) => NoError(p1))
      /\ NoError(p2) => /\ p1.pos \in 1 .. Len(p1.toks) /\ p1.toks[p1.pos] = Ident("main")
                        /\ p2.toks = p1.toks /\ p2.pos = p1.pos + 1 /\ p2.syms = p1.syms
  BY <1>3, MainAt
<1> HIDE DEF p2
<1>5. /\ Tidy(p3) /\ (NoError(p3) => NoError(p2))
      /\ NoError(p3) => /\ p2.pos \in 1 .. Len(p2.toks) /\ p2.toks[p2.pos].type = "("
                        /\ p3.toks = p2.toks /\ p3.pos = p2.pos + 1 /\ p3.syms = p2.syms
  BY <1>4, ExpectedAt
<1> HIDE DEF p3
<1>6. /\ Tidy(p4) /\ (NoError(p4) => NoError(p3))
      /\ NoError(p4) => /\ p3.pos \in 1 .. Len(p3.toks) /\ p3.toks[p3.pos].type = ")"
                        /\ p4.toks = p3.toks /\ p4.pos = p3.pos + 1 /\ p4.syms = p3.syms
  BY <1>5, ExpectedAt
<1> HIDE DEF p4
<1>7. MaxDepth \in 0 .. MaxDepth
  BY CompilerAssumption
<1>8. StmtRenderer(statements[MaxDepth])
  BY <1>7, StatementsRender
<1>9. StmtReads(p4, p)
  BY <1>1, <1>6, <1>8, StmtRendererReads, BlockReads
<1>10. NoError(p4) /\ NoError(p3) /\ NoError(p2) /\ NoError(p1)
  BY <1>4, <1>5, <1>6, <1>9, StmtReadsTidy
<1>11. p4.toks = t /\ p4.pos = 5 /\ p4.syms = <<>>
  BY <1>2, <1>3, <1>4, <1>5, <1>6, <1>10
<1>12. 4 <= Len(t) /\ t[1].type = "int" /\ t[2] = Ident("main") /\ t[3].type = "(" /\ t[4].type = ")"
  <2>1. p1.pos = 2 /\ p2.pos = 3 /\ p3.pos = 4 /\ p1.toks = t /\ p2.toks = t /\ p3.toks = t
    BY <1>2, <1>3, <1>4, <1>5, <1>10
  <2> QED
    BY <1>2, <1>3, <1>4, <1>5, <1>6, <1>10, <2>1
<1>13. /\ Sound(t, 4, {})
       /\ BehindMain({t}) \in Remains /\ SubSeq(t, 5, Len(t)) \in BehindMain({t})
  BY <1>12, OpeningSound
<1>14. Before(p4, BehindMain({t}))
  <2>1. p4.pos - 1 = 4
    BY <1>11
  <2>2. SymNames(p4) = {}
    BY <1>11 DEF SymNames
  <2>3. Clean(p4)
    BY <1>11, <1>13, <2>1, <2>2 DEF Clean
  <2>4. Rest(p4) = SubSeq(t, 5, Len(t))
    BY <1>11 DEF Rest
  <2> QED
    BY <1>13, <2>3, <2>4 DEF Before
<1>15. Goes(p4, p.ps, BehindStmt(p.n, BehindMain({t})))
  BY <1>1, <1>6, <1>8, <1>9, <1>14, BlockSpells
<1>16. p.ps.toks = t /\ Clean(p.ps) /\ Rest(p.ps) \in BehindStmt(p.n, BehindMain({t}))
  BY <1>11, <1>15 DEF Goes, Before
<1> QED
  BY <1>16 DEF Clean, Rest, Sound

\* The source is one that the lexer delivers, and what was accepted is a program.
AcceptInv == toks \in Seq(Tokens) /\ AcceptsOnlyPrograms

LEMMA AcceptsSame ==
  ASSUME AcceptInv, toks' = toks, parsed' = parsed,
         stage' = "saved" => stage = "saved"
  PROVE  AcceptInv'
  BY DEF AcceptInv, AcceptsOnlyPrograms

LEMMA CmdCcAccepts ==
  ASSUME AcceptInv, CmdCc
  PROVE  AcceptInv'
<1> DEFINE p == Parse(toks)
<1>1. parsed' = p /\ toks' = toks /\ toks \in Seq(Tokens)
  BY DEF CmdCc, AcceptInv
<1>2. CASE stage' \in {"rejected", "overrun"}
  BY <1>1, <1>2 DEF AcceptInv, AcceptsOnlyPrograms
<1>3. CASE stage' \notin {"rejected", "overrun"}
  <2>1. Generate(p).err = ""
    BY <1>1, <1>3 DEF CmdCc
  <2>2. p.ps.err = ""
    BY <2>1 DEF Generate
  <2> HIDE DEF p
  <2>3. NoError(p.ps)
    BY <2>2 DEF NoError
  <2>4. /\ SubSeq(toks, p.ps.pos, Len(toks)) \in BehindStmt(p.n, BehindMain({toks}))
        /\ DeclaredOnce(toks, p.ps.pos - 1)
    BY <1>1, <2>3, ParseSpells DEF p
  <2> QED
    BY <1>1, <2>4 DEF AcceptInv, AcceptsOnlyPrograms
<1> QED
  BY <1>2, <1>3

LEMMA AcceptInvNext == AcceptInv /\ [Next]_vars => AcceptInv'
<1> SUFFICES ASSUME AcceptInv, [Next]_vars PROVE AcceptInv'
  OBVIOUS
<1>1. CASE UNCHANGED vars
  BY <1>1, AcceptsSame DEF vars
<1>2. CASE FileChanges
  BY <1>2, AcceptsSame DEF FileChanges
<1>3. CASE CmdRunFile
  BY <1>3, AcceptsSame DEF CmdRunFile
<1>4. CASE Execute
  <2>1. stage' \in {stage, "panic", "returned"}
    BY <1>4 DEF Execute, Moves, Locals, Sums, Divide, Comparisons, Jumps, Frames, CallPrint,
                Return, Step
  <2> QED
    BY <1>4, <2>1, AcceptsSame DEF Execute
<1> QED
  BY <1>1, <1>2, <1>3, <1>4, CmdCcAccepts DEF Next

\* Whatever source cc is given, what it saves begins with a program: the tree that the
\* code is made of is one way to read the source up to where the parser stopped, every
\* token and parenthesis of it, and its names are declared once, before their use
\* (cmd_cc, cc_compile).  What follows main's block is not looked at.
THEOREM CompilerAccepts == Spec => []AcceptsOnlyPrograms
<1>1. Init => AcceptInv
  BY CompilerRunAssumption DEF Init, AcceptInv, AcceptsOnlyPrograms
<1>2. AcceptInv => AcceptsOnlyPrograms
  BY DEF AcceptInv
<1> QED
  BY <1>1, <1>2, AcceptInvNext, PTL DEF Spec

-----------------------------------------------------------------------------
(* A program's way through the terminal. *)

\* How many locals the compiled program has.
Declared == Len(parsed.ps.syms)

\* main is back in its caller's frame.
Left == cpu.ip = CmdRun /\ cpu.ebp = CmdRunEbp /\ cpu.stack = <<>>

\* The code in the buffer is framed.
Framing == Declared \in Nat /\ Framed(code, Declared)

FrameInv ==
  /\ toks \in Seq(Tokens)
  /\ stage \in {"source", "saved"} => cpu = AtEntry
  /\ stage = "saved" => Framing
  /\ stage = "running" => \E a : Runs(a, Declared)
  /\ stage = "returned" => Left

LEMMA FrameInvInit == Init => FrameInv
<1> SUFFICES ASSUME Init PROVE FrameInv
  OBVIOUS
<1>1. toks \in Seq(Tokens)
  BY CompilerRunAssumption DEF Init
<1>2. stage = "source" /\ cpu = AtEntry
  BY DEF Init
<1> QED
  BY <1>1, <1>2 DEF FrameInv

LEMMA FramedSeq ==
  ASSUME NEW s, NEW n, Framed(s, n)
  PROVE  s \in Seq(Bytes)
  BY DEF Framed, Heights

LEMMA CmdCcFrame ==
  ASSUME FrameInv, CmdCc
  PROVE  FrameInv'
<1> DEFINE p == Parse(toks)
           c == Generate(p)
<1>1. /\ stage = "source" /\ parsed' = p /\ toks' = toks /\ cpu' = cpu /\ cpu = AtEntry
      /\ toks \in Seq(Tokens)
  BY DEF CmdCc, FrameInv
<1>2. CASE stage' \in {"rejected", "overrun"}
  BY <1>1, <1>2 DEF FrameInv
<1>3. CASE stage' \notin {"rejected", "overrun"}
  <2>1. c.err = "" /\ stage' = "saved" /\ code' = c.code
    BY <1>1, <1>3 DEF CmdCc
  <2>2. p.ps.err = ""
    BY <2>1 DEF Generate
  <2>3. NoError(c) /\ NoError(p.ps)
    BY <2>1, <2>2 DEF NoError
  <2> DEFINE s == c.code
             n == Len(p.ps.syms)
  <2> HIDE DEF p, c
  <2>4. Compiled(p)
    BY <1>1, <2>3, ParseCompiles DEF p
  <2>5. Framed(s, n)
    BY <2>3, <2>4, GenerateFramed DEF c
  <2>6. n \in Nat
    BY <2>4, LocalsFit DEF Compiled
  <2>8. code' = s /\ parsed'.ps.syms = p.ps.syms
    BY <1>1, <2>1
  <2> HIDE DEF s
  <2>9. Declared' = n
    BY <2>8 DEF Declared
  <2> HIDE DEF n
  <2>10. Framing'
    BY <2>5, <2>6, <2>8, <2>9 DEF Framing
  <2> QED
    BY <1>1, <2>1, <2>10 DEF FrameInv
<1> QED
  BY <1>2, <1>3

LEMMA FileChangesFrame ==
  ASSUME FrameInv, FileChanges
  PROVE  FrameInv'
<1>1. /\ stage = "saved" /\ stage' = stage /\ parsed' = parsed /\ toks' = toks /\ cpu' = cpu
      /\ code' = code /\ cpu = AtEntry /\ toks \in Seq(Tokens) /\ Framing
  BY DEF FileChanges, FrameInv
<1>2. Declared' = Declared
  BY <1>1 DEF Declared
<1>3. Framing'
  BY <1>1, <1>2 DEF Framing
<1> QED
  BY <1>1, <1>3 DEF FrameInv

LEMMA Reloaded ==
  ASSUME NEW s \in Seq(Bytes), NEW old \in {s, <<>>}
  PROVE  s \o SubSeq(old, Len(s) + 1, Len(old)) = s
<1>1. SubSeq(old, Len(s) + 1, Len(old)) = <<>>
  OBVIOUS
<1> QED
  BY <1>1

LEMMA CmdRunFileFrame ==
  ASSUME FrameInv, CmdRunFile
  PROVE  FrameInv'
<1>1. /\ stage = "saved" /\ parsed' = parsed /\ toks' = toks /\ cpu' = cpu
      /\ cpu = AtEntry /\ toks \in Seq(Tokens) /\ Framing
  BY DEF CmdRunFile, FrameInv
<1>2. Declared' = Declared
  BY <1>1 DEF Declared
<1>3. CASE Loads(file) /\ file.body = code
  <2>1. code \in Seq(Bytes) /\ file.body = code /\ Declared \in Nat /\ Framed(code, Declared)
    BY <1>1, <1>3, FramedSeq DEF Framing
  <2>2. stage' = "running"
    BY <1>3 DEF CmdRunFile
  <2>3. PICK old \in {code, <<>>} : code' = code \o SubSeq(old, Len(code) + 1, Len(old))
    BY <1>3, <2>1 DEF CmdRunFile
  <2>4. code' = code
    BY <2>1, <2>3, Reloaded
  <2>5. PICK a : Heights(code, a, Declared) /\ a[0] = 1 /\ a[Len(code)] = -1
    BY <2>1 DEF Framed
  <2>6. cpu.ip = 0 /\ 0 \in 0 .. Len(code)
    BY <1>1, <2>1 DEF AtEntry
  <2>7. At(cpu, 1)
    <3> DEFINE s == <<CmdRun>>
    <3>1. s = [k \in 1 .. 1 |-> s[k]] /\ s[1] = CmdRun
      OBVIOUS
    <3>2. cpu.stack = s /\ cpu.ebp = CmdRunEbp /\ cpu = [f \in DOMAIN cpu |-> cpu[f]]
      BY <1>1 DEF AtEntry
    <3> HIDE DEF s
    <3>3. Stack(s, 1) /\ Words(1) = 1
      BY <3>1 DEF Stack, Words
    <3> QED
      BY <1>1, <3>1, <3>2, <3>3 DEF At
  <2>8. Runs(a, Declared)
    BY <2>1, <2>5, <2>6, <2>7 DEF Runs
  <2>9. Runs(a, Declared)'
    BY <1>1, <1>2, <2>4, <2>8 DEF Runs
  <2> QED
    BY <1>1, <2>2, <2>9 DEF FrameInv
<1>4. CASE ~(Loads(file) /\ file.body = code)
  <2>1. stage' \in {"refused", "astray"}
    BY <1>4 DEF CmdRunFile
  <2> QED
    BY <1>1, <2>1 DEF FrameInv
<1> QED
  BY <1>3, <1>4

LEMMA ExecuteFrame ==
  ASSUME FrameInv, Execute
  PROVE  FrameInv'
<1>1. /\ stage = "running" /\ parsed' = parsed /\ toks' = toks /\ code' = code
      /\ toks \in Seq(Tokens) /\ (\E a : Runs(a, Declared))
  BY DEF Execute, FrameInv
<1>2. Declared' = Declared
  BY <1>1 DEF Declared
<1>3. PICK a : Runs(a, Declared)
  BY <1>1
<1>4. CASE Return
  <2>1. Left'
    BY <1>3, <1>4, ReturnLeaves DEF Left
  <2>2. stage' = "returned"
    BY <1>4 DEF Return
  <2> QED
    BY <1>1, <2>1, <2>2 DEF FrameInv
<1>5. CASE stage' = "panic"
  BY <1>1, <1>5 DEF FrameInv
<1>6. CASE ~Return /\ stage' # "panic"
  <2>1. stage' = "running"
    BY <1>1, <1>6 DEF Execute, Moves, Locals, Sums, Divide, Comparisons, Jumps, Frames, CallPrint, Step
  <2>0. PICK n : n = Declared
    OBVIOUS
  <2>2. Runs(a, n)
    BY <1>3, <2>0
  <2>3. Runs(a, n)'
    <3>1. Moves \/ Locals \/ Sums \/ Divide \/ Comparisons \/ Jumps \/ Frames \/ CallPrint
      BY <1>6 DEF Execute
    <3>2. Moves \/ Locals => Runs(a, n)'
      BY <1>1, <2>2, MovesRun, LocalsRun
    <3>3. Sums \/ Comparisons => Runs(a, n)'
      BY <1>1, <2>2, SumsRun, ComparisonsRun
    <3>4. Divide => Runs(a, n)'
      BY <1>1, <1>6, <2>2, DivideRuns
    <3>5. Jumps \/ Frames => Runs(a, n)'
      BY <1>1, <2>2, JumpsRun, FramesRun
    <3>6. CallPrint => Runs(a, n)'
      BY <1>1, <2>2, CallRuns
    <3> QED
      BY <3>1, <3>2, <3>3, <3>4, <3>5, <3>6
  <2>4. Runs(a, Declared)'
    BY <1>2, <2>0, <2>3
  <2> QED
    BY <1>1, <2>1, <2>4 DEF FrameInv
<1> QED
  BY <1>4, <1>5, <1>6

LEMMA FrameInvNext == FrameInv /\ [Next]_vars => FrameInv'
<1> SUFFICES ASSUME FrameInv, [Next]_vars PROVE FrameInv'
  OBVIOUS
<1>1. CASE UNCHANGED vars
  <2>1. /\ stage' = stage /\ parsed' = parsed /\ toks' = toks /\ cpu' = cpu /\ code' = code
    BY <1>1 DEF vars
  <2>2. Declared' = Declared
    BY <2>1 DEF Declared
  <2>3. Framing' <=> Framing
    BY <2>1, <2>2 DEF Framing
  <2>4. \A a : Runs(a, Declared) => Runs(a, Declared)'
    BY <2>1, <2>2 DEF Runs
  <2>5. Left' <=> Left
    BY <2>1 DEF Left
  <2> QED
    BY <2>1, <2>3, <2>4, <2>5 DEF FrameInv
<1> QED
  BY <1>1, CmdCcFrame, FileChangesFrame, CmdRunFileFrame, ExecuteFrame DEF Next

LEMMA FrameInvImplies == FrameInv => FrameKept
<1> SUFFICES ASSUME FrameInv PROVE FrameKept
  OBVIOUS
<1>1. ASSUME stage = "running"
      PROVE  /\ Fetched.op \in DOMAIN Size
             /\ cpu.stack[1] = CmdRun
             /\ Fetched.op \in {"load", "store", "zero"} => Slot \in cpu.ebp + 1 .. Len(cpu.stack)
             /\ Fetched.op = "pop_eax" => Len(cpu.stack) > cpu.ebp + Declared
  <2>1. PICK a : Runs(a, Declared)
    BY <1>1 DEF FrameInv
  <2> QED
    BY <2>1, RunsFrame
<1>2. stage = "returned" => Left
  BY DEF FrameInv
<1> QED
  BY <1>1, <1>2 DEF FrameKept, Declared, Left

\* Compiled code keeps its frame: the code that cc makes of any source it accepts,
\* where run finds it in the file as cc left it, runs from instruction to
\* instruction with whatever the processor and the stack held, reads and writes its
\* own locals alone, and returns to cmd_run with ebp and the stack as they were
\* (cc_compile, cc_codegen_stmt, cc_patch).  Nothing is claimed of a file that was
\* changed to something else of the same length: run executes that too, "astray".
THEOREM CompilerFrame == Spec => []FrameKept
<1>1. Spec => []FrameInv
  BY FrameInvInit, FrameInvNext, PTL DEF Spec
<1> QED
  BY <1>1, FrameInvImplies, PTL

=============================================================================
