------------------------ MODULE WindowManagerProofs ------------------------
(***************************************************************************)
(* For every number of windows and every choice of applications: what      *)
(* handlers and callbacks leave of the window manager is sound again.      *)
(*                                                                         *)
(* Each operator of WindowManager maps a sound state to sound states; a    *)
(* handler is a chain of them.  The second half of each lemma says how the *)
(* focus is handed over, which composes along such a chain as long as the  *)
(* chain does not both open a window and close one.                        *)
(***************************************************************************)
EXTENDS WindowManager, WindowGeometry, FiniteSetTheorems, SequenceTheorems,
        WellFoundedInduction, TLAPS

Fields == {"stack", "win", "focused", "mode", "drag", "sysmenu", "start",
           "dirty", "drawn"}

(* The table: the stack names every window in memory exactly once. *)
Books(s) ==
  /\ DOMAIN s = Fields
  /\ s.stack \in Seq(Windows) /\ Len(s.stack) <= MAX_WINDOWS
  /\ \A i, j \in 1 .. Len(s.stack) : s.stack[i] = s.stack[j] => i = j
  /\ \A w : w \in DOMAIN s.win <=> \E i \in 1 .. Len(s.stack) : s.stack[i] = w
  /\ \A w \in DOMAIN s.win : s.win[w] \in WindowRecord
  /\ \A v, w \in DOMAIN s.win :
       s.win[v].app = s.win[w].app /\ v # w => s.win[v].app = "text_editor"

Pointers(s) ==
  /\ s.focused \in DOMAIN s.win \cup {NoWindow}
  /\ s.sysmenu \in DOMAIN s.win \cup {NoWindow}
  /\ s.drag \in Windows \cup {NoWindow}
  /\ s.mode \in Modes /\ s.start \in BOOLEAN /\ s.dirty \in BOOLEAN
  /\ s.mode \in Following => s.drag \in DOMAIN s.win
  /\ s.mode = "IDLE" <=> s.drag = NoWindow

(* What TopmostVisible looks for, without its CHOOSE. *)
OnTop(s, w) ==
  \E i \in 1 .. Len(s.stack) :
    /\ s.stack[i] = w /\ Visible(s, w)
    /\ \A j \in 1 .. Len(s.stack) : j > i => ~Visible(s, s.stack[j])

NoneVisible(s) == \A w \in DOMAIN s.win : ~Visible(s, w)

FocusTop(s) ==
  s.focused # NoWindow /\ Visible(s, s.focused) => OnTop(s, s.focused)

Sound(s) == Books(s) /\ Pointers(s) /\ FocusTop(s)

(* How the focus goes from s to t. *)
Settled(s) == OnTop(s, s.focused) \/ (s.focused = NoWindow /\ NoneVisible(s))

Shut(s, w) == s.focused # w => ~s.win[w].dropdown

HandedOn(s, t) ==
  /\ DOMAIN s.win \subseteq DOMAIN t.win /\ Settled(s) => Settled(t)
  /\ DOMAIN t.win \subseteq DOMAIN s.win =>
       \A w \in DOMAIN t.win : Shut(s, w) => Shut(t, w)

Current(s) == s.dirty \/ s.drawn = View(s)

-----------------------------------------------------------------------------
(* Sequences. *)

(* Of some numbers one is the least, and of some places in a sequence one  *)
(* is the last.                                                            *)
LEMMA SomeLeast ==
  ASSUME NEW I, I \subseteq Nat, I # {}
  PROVE  \E m \in I : \A i \in I : m <= i
<1>1. \E m \in I : \A i \in I : ~(<<i, m>> \in OpToRel(<, Nat))
  BY NatLessThanWellFounded, WFMin, Zenon
<1>2. PICK m \in I : \A i \in I : ~(<<i, m>> \in OpToRel(<, Nat))
  BY <1>1
<1>3. \A i, j \in Nat : i < j => <<i, j>> \in OpToRel(<, Nat)
  BY Zenon DEF OpToRel
<1>4. \A i \in I : i \in Nat
  OBVIOUS
<1>5. \A i \in I : ~(i < m)
  BY <1>2, <1>3, <1>4, Zenon
<1>6. \A i \in I : m <= i
  BY <1>4, <1>5
<1> QED BY <1>2, <1>6

LEMMA SomeLast ==
  ASSUME NEW n \in Nat, NEW I, I \subseteq 1 .. n, I # {}
  PROVE  \E m \in I : \A i \in I : i <= m
<1> DEFINE T == {k \in Nat : n - k \in I}
<1>1. T # {}
  <2>1. PICK i \in I : TRUE
    OBVIOUS
  <2>2. n - i \in T
    BY <2>1
  <2> QED BY <2>2
<1>2. T \subseteq Nat
  OBVIOUS
<1>3. PICK k \in T : \A j \in T : k <= j
  <2> HIDE DEF T
  <2> QED BY <1>1, <1>2, SomeLeast
<1>4. \A i \in I : i \in Nat /\ i <= n
  OBVIOUS
<1>5. \A i \in I : n - i \in T
  BY <1>4
<1>6. k \in Nat /\ n - k \in I
  BY <1>3
<1>7. \A i \in I : i <= n - k
  <2> HIDE DEF T
  <2> QED BY <1>3, <1>4, <1>5, <1>6
<1> QED BY <1>6, <1>7

(* What RemoveFirst leaves of a sequence that holds q[k] only at k. *)
LEMMA Removed ==
  ASSUME NEW S, NEW q \in Seq(S), NEW k \in 1 .. Len(q),
         \A j \in 1 .. Len(q) : q[j] = q[k] => j = k
  PROVE  LET r == RemoveFirst(q, q[k]) IN
         /\ r \in Seq(S)
         /\ Len(r) = Len(q) - 1
         /\ \A i \in 1 .. Len(q) - 1 : r[i] = IF i < k THEN q[i] ELSE q[i + 1]
<1> DEFINE n == Len(q)
           a == SubSeq(q, 1, k - 1)
           b == SubSeq(q, k + 1, n)
<1>1. {j \in 1 .. Len(q) : q[j] = q[k]} = {k}
  OBVIOUS
<1>2. SelectInSeq(q, LAMBDA v : v = q[k]) = k
  BY <1>1 DEF SelectInSeq, Min
<1>3. RemoveFirst(q, q[k]) = a \o b
  BY <1>2 DEF RemoveFirst, RemoveAt
<1>4. n \in Nat /\ k \in 1 .. n /\ q \in [1 .. n -> S]
  OBVIOUS
<1> HIDE DEF n
<1>5. /\ a \in Seq(S) /\ Len(a) = k - 1
      /\ \A i \in 1 .. k - 1 : a[i] = q[i]
  BY <1>4, SubSeqProperties
<1>6. /\ b \in Seq(S) /\ Len(b) = n - k
      /\ \A i \in 1 .. n - k : b[i] = q[i + k]
  <2>1. \A i \in k + 1 .. n : q[i] \in S
    BY <1>4
  <2>2. k + 1 \in Int
    BY <1>4
  <2>3. /\ b \in Seq(S) /\ Len(b) = IF k + 1 <= n THEN n - (k + 1) + 1 ELSE 0
        /\ \A i \in 1 .. n - (k + 1) + 1 : b[i] = q[(k + 1) + i - 1]
    BY <1>4, <2>1, <2>2, SubSeqProperties
  <2> HIDE DEF b
  <2> QED BY <1>4, <2>3
<1> HIDE DEF a, b
<1>7. a \o b \in Seq(S) /\ Len(a \o b) = n - 1
  <2>1. a \o b \in Seq(S) /\ Len(a \o b) = Len(a) + Len(b)
    BY <1>5, <1>6, ConcatProperties
  <2> QED BY <1>4, <1>5, <1>6, <2>1
<1>8. \A i \in 1 .. n - 1 : (a \o b)[i] = IF i < k THEN q[i] ELSE q[i + 1]
  <2> TAKE i \in 1 .. n - 1
  <2>1. (a \o b)[i] = IF i <= Len(a) THEN a[i] ELSE b[i - Len(a)]
    BY <1>4, <1>5, <1>6
  <2>2. CASE i < k
    BY <2>1, <2>2, <1>4, <1>5
  <2>3. CASE ~(i < k)
    <3>1. i - (k - 1) \in 1 .. n - k /\ (i - (k - 1)) + k = i + 1
      BY <2>3, <1>4
    <3>2. b[i - (k - 1)] = q[i + 1]
      BY <3>1, <1>6
    <3> QED BY <2>1, <2>3, <3>2, <1>4, <1>5
  <2> QED BY <2>2, <2>3
<1> QED BY <1>3, <1>7, <1>8 DEF n

-----------------------------------------------------------------------------
(* Tables that differ in what the windows show. *)

TableKept(s, t) ==
  /\ DOMAIN t = Fields /\ t.stack = s.stack /\ DOMAIN t.win = DOMAIN s.win
  /\ \A v \in DOMAIN s.win :
       t.win[v] \in WindowRecord /\ t.win[v].app = s.win[v].app

ViewsKept(s, t) == \A v \in DOMAIN s.win : Visible(t, v) <=> Visible(s, v)

GrabKept(s, t) ==
  /\ t.mode = s.mode /\ t.drag = s.drag /\ t.sysmenu = s.sysmenu
  /\ t.start \in BOOLEAN /\ t.dirty \in BOOLEAN

LEMMA KeptBooks ==
  ASSUME NEW s, NEW t, Books(s), TableKept(s, t)
  PROVE  Books(t)
BY DEF Books, TableKept

LEMMA KeptTop ==
  ASSUME NEW s, NEW t, Books(s), TableKept(s, t), ViewsKept(s, t)
  PROVE  /\ \A w : OnTop(s, w) => OnTop(t, w)
         /\ NoneVisible(s) => NoneVisible(t)
<1>1. \A w : OnTop(s, w) => OnTop(t, w)
  <2> SUFFICES ASSUME NEW w, OnTop(s, w) PROVE OnTop(t, w)
    OBVIOUS
  <2>1. \A i \in 1 .. Len(s.stack) : s.stack[i] \in DOMAIN s.win
    BY DEF Books
  <2> QED BY <2>1 DEF OnTop, TableKept, ViewsKept
<1> QED BY <1>1 DEF NoneVisible, TableKept, ViewsKept

LEMMA KeptPointers ==
  ASSUME NEW s, NEW t, Pointers(s), TableKept(s, t), GrabKept(s, t),
         t.focused \in DOMAIN s.win \cup {NoWindow}
  PROVE  Pointers(t)
BY DEF Pointers, TableKept, GrabKept

(* The window on top is in memory, and no other one is on top. *)
LEMMA TopIsWindow ==
  ASSUME NEW s, Books(s), NEW w, OnTop(s, w)
  PROVE  /\ w \in DOMAIN s.win /\ w # NoWindow
         /\ ~NoneVisible(s)
         /\ \A v : OnTop(s, v) => v = w
<1>1. w \in DOMAIN s.win
  BY DEF OnTop, Books
<1>2. w \in Windows
  BY DEF OnTop, Books
<1>3. \A v : OnTop(s, v) => v = w
  <2> SUFFICES ASSUME NEW v, OnTop(s, v) PROVE v = w
    OBVIOUS
  <2>1. PICK i \in 1 .. Len(s.stack) :
          /\ s.stack[i] = w /\ Visible(s, w)
          /\ \A k \in 1 .. Len(s.stack) : k > i => ~Visible(s, s.stack[k])
    BY DEF OnTop
  <2>2. PICK j \in 1 .. Len(s.stack) :
          /\ s.stack[j] = v /\ Visible(s, v)
          /\ \A k \in 1 .. Len(s.stack) : k > j => ~Visible(s, s.stack[k])
    BY DEF OnTop
  <2>3. ~(i < j) /\ ~(j < i)
    BY <2>1, <2>2
  <2> QED BY <2>1, <2>2, <2>3
<1> QED BY <1>1, <1>2, <1>3, WindowManagerAssumption DEF OnTop, NoneVisible

(* What TopmostVisible returns. *)
LEMMA Topmost ==
  ASSUME NEW s, Books(s)
  PROVE  \/ OnTop(s, TopmostVisible(s))
         \/ TopmostVisible(s) = NoWindow /\ NoneVisible(s)
<1> DEFINE q == s.stack
           n == Len(q)
           I == {i \in 1 .. n : Visible(s, q[i])}
<1>1. n \in Nat
  BY DEF Books
<1>2. CASE I = {}
  <2>1. SelectLastInSeq(q, LAMBDA w : Visible(s, w)) = 0
    BY <1>2 DEF SelectLastInSeq
  <2>2. NoneVisible(s)
    BY <1>2 DEF NoneVisible, Books
  <2> QED BY <2>1, <2>2 DEF TopmostVisible
<1>3. CASE I # {}
  <2>1. PICK m \in I : \A i \in I : i <= m
    <3> HIDE DEF n
    <3> QED BY <1>1, <1>3, SomeLast
  <2>2. m \in Nat \ {0} /\ I \subseteq Nat
    BY <1>1
  <2>3. \A k \in I : (\A i \in I : i <= k) => k = m
    BY <2>1, <2>2
  <2>4. Max(I) = m
    <3> HIDE DEF I
    <3> QED BY <2>1, <2>2, <2>3 DEF Max
  <2>5. SelectLastInSeq(q, LAMBDA w : Visible(s, w)) = m
    BY <1>3, <2>4 DEF SelectLastInSeq
  <2>6. TopmostVisible(s) = q[m]
    BY <2>2, <2>5 DEF TopmostVisible
  <2>7. \A j \in 1 .. n : j > m => ~Visible(s, q[j])
    BY <2>1, <2>2
  <2> QED BY <2>1, <2>6, <2>7 DEF OnTop
<1> QED BY <1>2, <1>3

LEMMA SettledFocus ==
  ASSUME NEW s, Books(s)
  PROVE  Settled(s) <=> s.focused = TopmostVisible(s)
<1>1. CASE OnTop(s, TopmostVisible(s))
  BY <1>1, TopIsWindow DEF Settled
<1>2. CASE TopmostVisible(s) = NoWindow /\ NoneVisible(s)
  BY <1>2, TopIsWindow DEF Settled
<1> QED BY <1>1, <1>2, Topmost

-----------------------------------------------------------------------------
(* Taking a window out of the stack, and putting it on top. *)

(* What is left of the stack without w: its places keep their order. *)
Cut(s, w) == RemoveFirst(s.stack, w)

WithoutPlace(r, q, n, k) ==
  /\ n \in Nat /\ r \in Seq(Windows) /\ Len(r) = n - 1
  /\ \A i \in 1 .. n - 1 : r[i] = IF i < k THEN q[i] ELSE q[i + 1]

LEMMA CutOut ==
  ASSUME NEW s, Books(s), NEW w \in DOMAIN s.win
  PROVE  \E k \in 1 .. Len(s.stack) :
           /\ s.stack[k] = w
           /\ WithoutPlace(Cut(s, w), s.stack, Len(s.stack), k)
<1>1. PICK k \in 1 .. Len(s.stack) : s.stack[k] = w
  BY DEF Books
<1>2. \A j \in 1 .. Len(s.stack) : s.stack[j] = s.stack[k] => j = k
  BY DEF Books
<1>3. s.stack \in Seq(Windows) /\ Len(s.stack) \in Nat
  BY DEF Books
<1>4. WithoutPlace(Cut(s, w), s.stack, Len(s.stack), k)
  BY <1>1, <1>2, <1>3, Removed DEF WithoutPlace, Cut
<1> QED BY <1>1, <1>4

(* w moved to the top of the stack. *)
Lifted(s, w) == Append(RemoveFirst(s.stack, w), w)

(* n places, each window of the table in one of them. *)
Lists(r, n, s) ==
  /\ n \in Nat \ {0} /\ r \in Seq(Windows) /\ Len(r) = n
  /\ \A i, j \in 1 .. n : r[i] = r[j] => i = j
  /\ \A v : v \in DOMAIN s.win <=> \E i \in 1 .. n : r[i] = v

LEMMA MovedUp ==
  ASSUME NEW s, Books(s), NEW w \in DOMAIN s.win
  PROVE  /\ Lists(Lifted(s, w), Len(s.stack), s)
         /\ Lifted(s, w)[Len(s.stack)] = w
<1> DEFINE q == s.stack
           n == Len(q)
           c == Cut(s, w)
           r == Append(c, w)
<1>1. PICK k \in 1 .. n :
        /\ n \in Nat /\ q[k] = w
        /\ c \in Seq(Windows) /\ Len(c) = n - 1
        /\ \A i \in 1 .. n - 1 : c[i] = IF i < k THEN q[i] ELSE q[i + 1]
  BY CutOut DEF WithoutPlace
<1>2. /\ \A i, j \in 1 .. n : q[i] = q[j] => i = j
      /\ \A v : v \in DOMAIN s.win <=> \E i \in 1 .. n : q[i] = v
      /\ w \in Windows
  BY DEF Books
<1> HIDE DEF n, c, q
<1>3. /\ r \in Seq(Windows) /\ Len(r) = n /\ r[n] = w
      /\ \A i \in 1 .. n - 1 : r[i] = c[i]
  <2>1. /\ r \in Seq(Windows) /\ Len(r) = Len(c) + 1
        /\ \A i \in 1 .. Len(c) : r[i] = c[i]
        /\ r[Len(c) + 1] = w
    BY <1>1, <1>2, AppendProperties
  <2> HIDE DEF r
  <2> QED BY <1>1, <2>1
<1> HIDE DEF r
<1>4. \A i \in 1 .. n : \E h \in 1 .. n :
        /\ r[i] = q[h]
        /\ h = IF i = n THEN k ELSE IF i < k THEN i ELSE i + 1
  <2> TAKE i \in 1 .. n
  <2>1. CASE i = n
    BY <2>1, <1>1, <1>3
  <2>2. CASE i # n
    <3>1. i \in 1 .. n - 1
      BY <2>2, <1>1
    <3>2. r[i] = IF i < k THEN q[i] ELSE q[i + 1]
      BY <3>1, <1>1, <1>3
    <3>3. CASE i < k
      BY <2>2, <3>2, <3>3, <1>1
    <3>4. CASE ~(i < k)
      <4>1. i + 1 \in 1 .. n
        BY <3>1, <1>1
      <4> QED BY <2>2, <3>2, <3>4, <4>1
    <3> QED BY <3>3, <3>4
  <2> QED BY <2>1, <2>2
<1>5. \A i, j \in 1 .. n : r[i] = r[j] => i = j
  <2> SUFFICES ASSUME NEW i \in 1 .. n, NEW j \in 1 .. n, r[i] = r[j]
      PROVE  i = j
    OBVIOUS
  <2>1. PICK h \in 1 .. n :
          r[i] = q[h] /\ h = IF i = n THEN k ELSE IF i < k THEN i ELSE i + 1
    BY <1>4
  <2>2. PICK g \in 1 .. n :
          r[j] = q[g] /\ g = IF j = n THEN k ELSE IF j < k THEN j ELSE j + 1
    BY <1>4
  <2>3. h = g
    BY <2>1, <2>2, <1>2
  <2> QED BY <2>1, <2>2, <2>3, <1>1
<1>6. \A h \in 1 .. n : \E i \in 1 .. n : r[i] = q[h]
  <2> TAKE h \in 1 .. n
  <2>1. CASE h = k
    BY <2>1, <1>1, <1>3
  <2>2. CASE h < k
    <3>1. h \in 1 .. n - 1
      BY <2>2, <1>1
    <3> QED BY <2>2, <3>1, <1>1, <1>3
  <2>3. CASE h > k
    <3>1. h - 1 \in 1 .. n - 1 /\ (h - 1) + 1 = h /\ ~(h - 1 < k)
      BY <2>3, <1>1
    <3>2. r[h - 1] = q[h]
      BY <3>1, <1>1, <1>3
    <3> QED BY <3>1, <3>2, <1>1
  <2> QED BY <2>1, <2>2, <2>3, <1>1
<1>7. \A v : v \in DOMAIN s.win <=> \E i \in 1 .. n : r[i] = v
  <2> TAKE v
  <2>1. ASSUME v \in DOMAIN s.win PROVE \E i \in 1 .. n : r[i] = v
    <3>1. PICK h \in 1 .. n : q[h] = v
      BY <2>1, <1>2
    <3> QED BY <3>1, <1>6
  <2>2. ASSUME NEW i \in 1 .. n, r[i] = v PROVE v \in DOMAIN s.win
    <3>1. PICK h \in 1 .. n : r[i] = q[h]
      BY <1>4
    <3> QED BY <2>2, <3>1, <1>2
  <2> QED BY <2>1, <2>2
<1>8. n \in Nat \ {0}
  BY <1>1
<1>9. Lists(r, n, s) /\ r[n] = w
  BY <1>3, <1>5, <1>7, <1>8 DEF Lists
<1> QED BY <1>9 DEF Lifted, Cut, n, c, q, r

-----------------------------------------------------------------------------
(* The operators, one by one. *)

LEMMA BlurFacts ==
  ASSUME NEW s, Books(s), NEW w \in DOMAIN s.win
  PROVE  LET t == Blur(s, w) IN
         /\ TableKept(s, t) /\ ViewsKept(s, t)
         /\ t.mode = s.mode /\ t.drag = s.drag /\ t.sysmenu = s.sysmenu
         /\ t.start = s.start /\ t.dirty = s.dirty /\ t.drawn = s.drawn
         /\ t.focused = s.focused
         /\ \A v \in DOMAIN s.win :
              /\ t.win[v].state = s.win[v].state
              /\ t.win[v].restore = s.win[v].restore
              /\ t.win[v].dropdown => v # w /\ s.win[v].dropdown
<1> DEFINE t == Blur(s, w)
<1>1. DOMAIN s = Fields /\ \A v \in DOMAIN s.win : s.win[v] \in WindowRecord
  BY DEF Books
<1>2. /\ DOMAIN t = Fields /\ t.stack = s.stack
      /\ t.mode = s.mode /\ t.drag = s.drag /\ t.sysmenu = s.sysmenu
      /\ t.start = s.start /\ t.dirty = s.dirty /\ t.drawn = s.drawn
      /\ t.focused = s.focused
      /\ t.win = [s.win EXCEPT ![w].dropdown = FALSE]
  BY <1>1 DEF Blur, Fields
<1> HIDE DEF t
<1>3. DOMAIN t.win = DOMAIN s.win
  BY <1>2
<1>4. \A v \in DOMAIN s.win :
        /\ t.win[v] \in WindowRecord
        /\ t.win[v].app = s.win[v].app
        /\ t.win[v].state = s.win[v].state
        /\ t.win[v].restore = s.win[v].restore
        /\ t.win[v].dropdown => v # w /\ s.win[v].dropdown
  <2>1. \A v \in DOMAIN s.win : v # w => t.win[v] = s.win[v]
    BY <1>2
  <2>2. t.win[w] = [s.win[w] EXCEPT !.dropdown = FALSE]
    BY <1>2
  <2>3. s.win[w] \in WindowRecord
    BY <1>1
  <2>4. /\ t.win[w] \in WindowRecord
        /\ t.win[w].app = s.win[w].app
        /\ t.win[w].state = s.win[w].state
        /\ t.win[w].restore = s.win[w].restore
        /\ t.win[w].dropdown = FALSE
    BY <2>2, <2>3 DEF WindowRecord
  <2> QED BY <1>1, <2>1, <2>4
<1> QED BY <1>2, <1>3, <1>4 DEF t, TableKept, ViewsKept, Visible

(* The blur with which Raise starts. *)
LEMMA RaiseBlurs ==
  ASSUME NEW s, Books(s), Pointers(s), NEW w \in DOMAIN s.win
  PROVE  LET t == IF s.focused \notin {w, NoWindow} THEN Blur(s, s.focused)
                  ELSE s
         IN  /\ TableKept(s, t) /\ ViewsKept(s, t)
             /\ t.mode = s.mode /\ t.drag = s.drag /\ t.sysmenu = s.sysmenu
             /\ t.start = s.start /\ t.dirty = s.dirty
             /\ \A v \in DOMAIN s.win :
                  /\ t.win[v].state = s.win[v].state
                  /\ t.win[v].restore = s.win[v].restore
                  /\ v # w /\ Shut(s, v) => ~t.win[v].dropdown
<1>1. CASE s.focused \notin {w, NoWindow}
  <2>1. s.focused \in DOMAIN s.win
    BY <1>1 DEF Pointers
  <2> QED BY <1>1, <2>1, BlurFacts DEF Shut
<1>2. CASE s.focused \in {w, NoWindow}
  BY <1>2, WindowManagerAssumption
     DEF Books, TableKept, ViewsKept, Shut
<1> QED BY <1>1, <1>2

(* Raise puts a visible window on top and gives it the focus, whoever had  *)
(* it before: RestoreWindow calls it with a window just made visible.      *)
LEMMA RaiseOk ==
  ASSUME NEW s, Books(s), Pointers(s), NEW w \in DOMAIN s.win, Visible(s, w)
  PROVE  LET t == Raise(s, w) IN
         /\ Sound(t) /\ HandedOn(s, t) /\ Settled(t)
         /\ DOMAIN t.win = DOMAIN s.win /\ t.focused = w
         /\ t.mode = s.mode /\ t.sysmenu = s.sysmenu
         /\ \A v \in DOMAIN s.win : t.win[v].state = s.win[v].state
<1> DEFINE u == IF s.focused \notin {w, NoWindow} THEN Blur(s, s.focused) ELSE s
           r == Lifted(s, w)
           n == Len(s.stack)
           t == Raise(s, w)
<1>1. Books(s) /\ Pointers(s)
  OBVIOUS
<1>2. /\ TableKept(s, u) /\ ViewsKept(s, u)
      /\ u.mode = s.mode /\ u.drag = s.drag /\ u.sysmenu = s.sysmenu
      /\ u.start = s.start /\ u.dirty = s.dirty
      /\ \A v \in DOMAIN s.win :
           /\ u.win[v].state = s.win[v].state
           /\ v # w /\ Shut(s, v) => ~u.win[v].dropdown
  BY RaiseBlurs
<1>3. w \in Range(s.stack)
  BY <1>1 DEF Books, Range
<1> HIDE DEF u
<1>4. t = [u EXCEPT !.stack = Append(RemoveFirst(@, w), w), !.focused = w]
  BY <1>3 DEF Raise, u
<1>5. DOMAIN u = Fields /\ u.stack = s.stack /\ DOMAIN u.win = DOMAIN s.win
  BY <1>2 DEF TableKept
<1>6. /\ DOMAIN t = Fields /\ t.stack = r /\ t.win = u.win /\ t.focused = w
      /\ t.mode = s.mode /\ t.drag = s.drag /\ t.sysmenu = s.sysmenu
      /\ t.start = s.start /\ t.dirty = s.dirty
  BY <1>2, <1>4, <1>5 DEF Fields, Lifted
<1>7. Lists(r, n, s) /\ r[n] = w
  BY MovedUp
<1> HIDE DEF t, r, n
<1>8. n <= MAX_WINDOWS
  BY <1>1 DEF Books, n
<1>9. Books(t)
  <2>1. \A v \in DOMAIN s.win :
          t.win[v] \in WindowRecord /\ t.win[v].app = s.win[v].app
    BY <1>2, <1>6 DEF TableKept
  <2>2. \A v, x \in DOMAIN t.win :
          t.win[v].app = t.win[x].app /\ v # x => t.win[v].app = "text_editor"
    BY <1>1, <1>5, <1>6, <2>1 DEF Books
  <2>3. t.stack \in Seq(Windows) /\ Len(t.stack) = n
    BY <1>6, <1>7 DEF Lists
  <2>4. \A v : v \in DOMAIN t.win <=> \E i \in 1 .. Len(t.stack) : t.stack[i] = v
    BY <1>5, <1>6, <1>7 DEF Lists
  <2>5. \A i, j \in 1 .. Len(t.stack) : t.stack[i] = t.stack[j] => i = j
    BY <1>6, <1>7 DEF Lists
  <2> QED BY <1>5, <1>6, <1>8, <2>1, <2>2, <2>3, <2>4, <2>5 DEF Books
<1>10. Pointers(t)
  BY <1>1, <1>5, <1>6 DEF Pointers
<1>11. OnTop(t, w)
  <2>1. Visible(t, w)
    BY <1>2, <1>6 DEF Visible
  <2> QED BY <2>1, <1>6, <1>7 DEF OnTop, Lists
<1>12. Settled(t) /\ FocusTop(t)
  BY <1>6, <1>11 DEF Settled, FocusTop
<1>13. HandedOn(s, t)
  <2>1. \A v \in DOMAIN s.win : Shut(s, v) => Shut(t, v)
    BY <1>2, <1>6 DEF Shut
  <2> QED BY <2>1, <1>12, <1>5, <1>6 DEF HandedOn
<1> QED
  BY <1>2, <1>5, <1>6, <1>9, <1>10, <1>12, <1>13 DEF Sound, t

(* Whatever leaves table, focus and pointers alone. *)
LEMMA SameFocus ==
  ASSUME NEW s, Sound(s), NEW t, DOMAIN t = Fields, t.stack = s.stack,
         t.win = s.win, t.focused = s.focused, Pointers(t)
  PROVE  /\ Sound(t)
         /\ \A u : HandedOn(u, s) => HandedOn(u, t)
<1>1. Books(t)
  BY DEF Sound, Books
<1>2. \A w : OnTop(s, w) <=> OnTop(t, w)
  BY DEF OnTop, Visible
<1>3. FocusTop(t)
  BY <1>2 DEF Sound, FocusTop, Visible
<1>4. Settled(s) => Settled(t)
  BY <1>2 DEF Settled, NoneVisible, Visible
<1>5. \A w : Shut(s, w) => Shut(t, w)
  BY DEF Shut
<1>6. \A u : HandedOn(u, s) => HandedOn(u, t)
  BY <1>4, <1>5 DEF HandedOn
<1> QED BY <1>1, <1>3, <1>6 DEF Sound

LEMMA DirtyOk ==
  ASSUME NEW s, Sound(s)
  PROVE  LET t == Dirty(s) IN
         /\ Sound(t) /\ Current(t) /\ t.mode = s.mode /\ t.win = s.win
         /\ \A u : HandedOn(u, s) => HandedOn(u, t)
<1> DEFINE t == Dirty(s)
<1>1. /\ DOMAIN t = Fields /\ t.stack = s.stack /\ t.win = s.win
      /\ t.focused = s.focused /\ t.mode = s.mode /\ t.drag = s.drag
      /\ t.sysmenu = s.sysmenu /\ t.start = s.start /\ t.dirty = TRUE
  BY DEF Sound, Books, Fields, Dirty
<1> HIDE DEF t
<1>2. Pointers(t)
  BY <1>1 DEF Sound, Pointers
<1>3. Current(t)
  BY <1>1 DEF Current
<1> QED BY <1>1, <1>2, <1>3, SameFocus DEF t

(* Whatever changes how windows look but not which ones are visible. *)
LEMMA RestyleOk ==
  ASSUME NEW s, Sound(s), NEW t, TableKept(s, t), ViewsKept(s, t),
         GrabKept(s, t), t.focused = s.focused,
         \A v \in DOMAIN s.win :
           t.win[v].dropdown => s.win[v].dropdown \/ v = s.focused
  PROVE  Sound(t) /\ HandedOn(s, t)
<1>1. Books(s) /\ Pointers(s) /\ FocusTop(s)
  BY DEF Sound
<1>2. Books(t)
  BY <1>1, KeptBooks
<1>3. Pointers(t)
  BY <1>1, KeptPointers DEF Pointers
<1>4. /\ \A w : OnTop(s, w) => OnTop(t, w)
      /\ NoneVisible(s) => NoneVisible(t)
  BY <1>1, KeptTop
<1>5. FocusTop(t)
  BY <1>1, <1>3, <1>4 DEF FocusTop, ViewsKept, Pointers, TableKept
<1>6. HandedOn(s, t)
  <2>1. Settled(s) => Settled(t)
    BY <1>4 DEF Settled
  <2>2. \A v \in DOMAIN s.win : Shut(s, v) => Shut(t, v)
    BY DEF Shut
  <2> QED BY <2>1, <2>2 DEF HandedOn, TableKept
<1> QED BY <1>2, <1>3, <1>5, <1>6 DEF Sound

LEMMA BlurOk ==
  ASSUME NEW s, Sound(s), NEW w \in DOMAIN s.win
  PROVE  LET t == Blur(s, w) IN
         /\ Sound(t) /\ HandedOn(s, t) /\ DOMAIN t.win = DOMAIN s.win
         /\ t.mode = s.mode /\ t.focused = s.focused
         /\ Current(s) => t.dirty = s.dirty
<1> DEFINE t == Blur(s, w)
<1>1. Books(s) /\ s.start \in BOOLEAN /\ s.dirty \in BOOLEAN
  BY DEF Sound, Pointers
<1>2. /\ TableKept(s, t) /\ ViewsKept(s, t)
      /\ t.mode = s.mode /\ t.drag = s.drag /\ t.sysmenu = s.sysmenu
      /\ t.start = s.start /\ t.dirty = s.dirty
      /\ t.focused = s.focused
      /\ \A v \in DOMAIN s.win :
           t.win[v].dropdown => v # w /\ s.win[v].dropdown
  BY <1>1, BlurFacts
<1> HIDE DEF t
<1>3. GrabKept(s, t)
  BY <1>1, <1>2 DEF GrabKept
<1>4. Sound(t) /\ HandedOn(s, t)
  BY <1>2, <1>3, RestyleOk
<1> QED BY <1>2, <1>4 DEF t, TableKept

LEMMA ArrangeOk ==
  ASSUME NEW s, Sound(s)
  PROVE  LET t == Arrange(s) IN
         /\ Sound(t) /\ HandedOn(s, t) /\ t.mode = s.mode
<1> DEFINE t == Arrange(s)
<1>1. /\ DOMAIN s = Fields /\ \A v \in DOMAIN s.win : s.win[v] \in WindowRecord
      /\ s.start \in BOOLEAN
  BY DEF Sound, Pointers, Books
<1>2. /\ DOMAIN t = Fields /\ t.stack = s.stack /\ t.focused = s.focused
      /\ t.mode = s.mode /\ t.drag = s.drag /\ t.sysmenu = s.sysmenu
      /\ t.start = s.start /\ t.dirty = TRUE
      /\ t.win = [v \in DOMAIN s.win |->
                    IF Visible(s, v) THEN [s.win[v] EXCEPT !.state = "NORMAL"]
                    ELSE s.win[v]]
  BY <1>1 DEF Arrange, Fields
<1> HIDE DEF t
<1>3. DOMAIN t.win = DOMAIN s.win
  BY <1>2
<1>4. \A v \in DOMAIN s.win :
        /\ t.win[v] \in WindowRecord
        /\ t.win[v].app = s.win[v].app
        /\ t.win[v].dropdown = s.win[v].dropdown
        /\ t.win[v].state = IF Visible(s, v) THEN "NORMAL" ELSE s.win[v].state
  <2> TAKE v \in DOMAIN s.win
  <2>1. s.win[v] \in WindowRecord
    BY <1>1
  <2>2. CASE Visible(s, v)
    <3>1. t.win[v] = [s.win[v] EXCEPT !.state = "NORMAL"]
      BY <1>2, <2>2
    <3> QED BY <2>1, <2>2, <3>1 DEF WindowRecord, States
  <2>3. CASE ~Visible(s, v)
    <3>1. t.win[v] = s.win[v]
      BY <1>2, <2>3
    <3> QED BY <2>1, <2>3, <3>1
  <2> QED BY <2>2, <2>3
<1>5. TableKept(s, t) /\ ViewsKept(s, t) /\ GrabKept(s, t)
  BY <1>1, <1>2, <1>3, <1>4 DEF TableKept, ViewsKept, GrabKept, Visible
<1> QED BY <1>2, <1>4, <1>5, RestyleOk DEF t

LEMMA ToggleMaximizeOk ==
  ASSUME NEW s, Sound(s), NEW w \in DOMAIN s.win, Visible(s, w)
  PROVE  LET t == ToggleMaximize(s, w) IN
         /\ Sound(t) /\ HandedOn(s, t) /\ t.mode = s.mode
<1> DEFINE t == ToggleMaximize(s, w)
           st == IF s.win[w].state = "MAXIMIZED" THEN "NORMAL" ELSE "MAXIMIZED"
<1>1. /\ DOMAIN s = Fields /\ \A v \in DOMAIN s.win : s.win[v] \in WindowRecord
      /\ s.start \in BOOLEAN /\ s.dirty \in BOOLEAN
  BY DEF Sound, Pointers, Books
<1>2. /\ DOMAIN t = Fields /\ t.stack = s.stack /\ t.focused = s.focused
      /\ t.mode = s.mode /\ t.drag = s.drag /\ t.sysmenu = s.sysmenu
      /\ t.start = s.start /\ t.dirty = s.dirty
      /\ t.win = [s.win EXCEPT ![w] = [s.win[w] EXCEPT !.state = st]]
  BY <1>1 DEF ToggleMaximize, Fields
<1> HIDE DEF t
<1>3. st \in {"NORMAL", "MAXIMIZED"}
  OBVIOUS
<1> HIDE DEF st
<1>4. /\ t.win[w] = [s.win[w] EXCEPT !.state = st] /\ DOMAIN t.win = DOMAIN s.win
      /\ \A v \in DOMAIN s.win : v # w => t.win[v] = s.win[v]
  BY <1>2
<1>5. /\ t.win[w] \in WindowRecord
      /\ t.win[w].app = s.win[w].app
      /\ t.win[w].dropdown = s.win[w].dropdown
      /\ t.win[w].state = st
  <2>1. s.win[w] \in WindowRecord
    BY <1>1
  <2> QED BY <2>1, <1>3, <1>4 DEF WindowRecord, States
<1>6. TableKept(s, t) /\ ViewsKept(s, t) /\ GrabKept(s, t)
  BY <1>1, <1>2, <1>3, <1>4, <1>5 DEF TableKept, ViewsKept, GrabKept, Visible
<1>7. \A v \in DOMAIN s.win :
        t.win[v].dropdown => s.win[v].dropdown \/ v = s.focused
  BY <1>4, <1>5
<1> QED BY <1>2, <1>6, <1>7, RestyleOk DEF t

(* wm_create_window.  Its callers have looked for a window of the          *)
(* application, unless it is the editor.                                   *)
MayOpen(s, a) ==
  a = "text_editor" \/ \A w \in DOMAIN s.win : s.win[w].app # a

LEMMA CreateOk ==
  ASSUME NEW s, Sound(s), NEW a \in Apps, MayOpen(s, a),
         NEW t \in CreateWindow(s, a)
  PROVE  /\ Sound(t) /\ HandedOn(s, t) /\ t.mode = s.mode
         /\ DOMAIN s.win \subseteq DOMAIN t.win
         /\ Current(s) => Current(t)
<1>1. CASE t = s
  BY <1>1 DEF HandedOn
<1>2. CASE t # s
  <2> DEFINE n == Len(s.stack)
             r == Append(s.stack, t.focused)
  <2>1. PICK w \in Windows \ DOMAIN s.win :
          /\ ~(n >= MAX_WINDOWS)
          /\ t = Composite([s EXCEPT
                   !.win = [v \in DOMAIN @ \cup {w} |->
                              IF v = w THEN NewWindow(a) ELSE @[v]],
                   !.stack = Append(@, w), !.focused = w])
    BY <1>2 DEF CreateWindow
  <2>2. Books(s) /\ Pointers(s)
    BY DEF Sound
  <2>3. /\ DOMAIN t = Fields /\ t.stack = Append(s.stack, w) /\ t.focused = w
        /\ t.mode = s.mode /\ t.drag = s.drag /\ t.sysmenu = s.sysmenu
        /\ t.start = s.start /\ t.dirty = s.dirty
        /\ t.win = [v \in DOMAIN s.win \cup {w} |->
                      IF v = w THEN NewWindow(a) ELSE s.win[v]]
        /\ t.drawn = View(t)
    BY <2>1, <2>2 DEF Books, Fields, Composite, View
  <2>4. n \in Nat /\ MAX_WINDOWS \in Nat /\ s.stack \in Seq(Windows)
    BY <2>2, WindowManagerAssumption DEF Books
  <2>5. /\ r \in Seq(Windows) /\ Len(r) = n + 1 /\ r[n + 1] = w
        /\ \A i \in 1 .. n : r[i] = s.stack[i]
    BY <2>3, <2>4, AppendProperties
  <2>6. t.stack = r
    BY <2>3
  <2> HIDE DEF r
  <2>7. /\ \A i, j \in 1 .. n : s.stack[i] = s.stack[j] => i = j
        /\ \A v : v \in DOMAIN s.win <=> \E i \in 1 .. n : s.stack[i] = v
    BY <2>2 DEF Books
  <2> HIDE DEF n
  <2>8. /\ \A i, j \in 1 .. n + 1 : r[i] = r[j] => i = j
        /\ \A v : v \in DOMAIN s.win \cup {w} <=> \E i \in 1 .. n + 1 : r[i] = v
    <3>1. \A i \in 1 .. n : s.stack[i] # w
      BY <2>1, <2>7
    <3>2. \A i \in 1 .. n + 1 : i \in 1 .. n \/ i = n + 1
      BY <2>4
    <3>3. \A i, j \in 1 .. n + 1 : r[i] = r[j] => i = j
      BY <2>5, <2>7, <3>1, <3>2
    <3>4. \A v : v \in DOMAIN s.win \cup {w} <=> \E i \in 1 .. n + 1 : r[i] = v
      <4> TAKE v
      <4>1. ASSUME v \in DOMAIN s.win PROVE \E i \in 1 .. n + 1 : r[i] = v
        <5>1. PICK i \in 1 .. n : s.stack[i] = v
          BY <4>1, <2>7
        <5>2. i \in 1 .. n + 1
          BY <2>4
        <5> QED BY <5>1, <5>2, <2>5
      <4>2. ASSUME v = w PROVE \E i \in 1 .. n + 1 : r[i] = v
        <5>1. n + 1 \in 1 .. n + 1
          BY <2>4
        <5> QED BY <4>2, <5>1, <2>5
      <4>3. ASSUME NEW i \in 1 .. n + 1, r[i] = v
            PROVE  v \in DOMAIN s.win \cup {w}
        BY <4>3, <3>2, <2>5, <2>7
      <4> QED BY <4>1, <4>2, <4>3
    <3> QED BY <3>3, <3>4
  <2>9. /\ DOMAIN t.win = DOMAIN s.win \cup {w} /\ w \notin DOMAIN s.win
        /\ t.win[w] = NewWindow(a)
        /\ \A v \in DOMAIN s.win : t.win[v] = s.win[v]
    BY <2>1, <2>3
  <2>10. t.win[w] \in WindowRecord /\ t.win[w].app = a /\ Visible(t, w)
    BY <2>9 DEF NewWindow, WindowRecord, States, Visible
  <2>11. Books(t)
    <3>1. \A v \in DOMAIN t.win : t.win[v] \in WindowRecord
      BY <2>2, <2>9, <2>10 DEF Books
    <3>2. \A v, x \in DOMAIN t.win :
            t.win[v].app = t.win[x].app /\ v # x => t.win[v].app = "text_editor"
      BY <2>2, <2>9, <2>10 DEF Books, MayOpen
    <3>3. Len(t.stack) = n + 1 /\ n + 1 <= MAX_WINDOWS
      BY <2>1, <2>4, <2>5, <2>6
    <3>4. \A i, j \in 1 .. Len(t.stack) : t.stack[i] = t.stack[j] => i = j
      BY <2>6, <2>8, <3>3
    <3>5. \A v : v \in DOMAIN t.win <=> \E i \in 1 .. Len(t.stack) : t.stack[i] = v
      BY <2>6, <2>8, <2>9, <3>3
    <3>6. t.stack \in Seq(Windows) /\ Len(t.stack) <= MAX_WINDOWS
      BY <2>5, <2>6, <3>3
    <3> QED BY <2>3, <3>1, <3>2, <3>4, <3>5, <3>6 DEF Books
  <2>12. Pointers(t)
    BY <2>2, <2>3, <2>9 DEF Pointers
  <2>13. OnTop(t, w)
    <3>1. n + 1 \in 1 .. n + 1 /\ \A j \in 1 .. n + 1 : ~(j > n + 1)
      BY <2>4
    <3> QED BY <3>1, <2>5, <2>6, <2>10 DEF OnTop
  <2>14. Settled(t) /\ FocusTop(t)
    BY <2>3, <2>13 DEF Settled, FocusTop
  <2>15. HandedOn(s, t)
    BY <2>9, <2>14 DEF HandedOn
  <2> QED BY <2>3, <2>9, <2>11, <2>12, <2>14, <2>15 DEF Sound, Current
<1> QED BY <1>1, <1>2

(* wm_close_window: the next window of the stack gets the focus, the       *)
(* pointers of wm.c to the window are cleared.                             *)
LEMMA CloseOk ==
  ASSUME NEW s, Sound(s), NEW w \in DOMAIN s.win
  PROVE  LET t == CloseWindow(s, w) IN
         /\ Sound(t) /\ HandedOn(s, t) /\ Current(t)
         /\ DOMAIN t.win = DOMAIN s.win \ {w}
         /\ t.mode \in {s.mode, "IDLE"}
<1> DEFINE t == CloseWindow(s, w)
           c == Cut(s, w)
           n == Len(s.stack)
<1>1. Books(s) /\ Pointers(s) /\ FocusTop(s)
  BY DEF Sound
<1>2. /\ DOMAIN t = Fields /\ t.stack = c
      /\ t.win = [v \in DOMAIN s.win \ {w} |-> s.win[v]]
      /\ t.focused = IF s.focused = w THEN LastOf(c) ELSE s.focused
      /\ t.sysmenu = IF s.sysmenu = w THEN NoWindow ELSE s.sysmenu
      /\ t.drag = IF s.drag = w THEN NoWindow ELSE s.drag
      /\ t.mode = IF s.drag = w THEN "IDLE" ELSE s.mode
      /\ t.start = s.start /\ t.dirty = s.dirty
      /\ t.drawn = View(t)
  <2> DEFINE a == Unlink(s, w)
             b == Refocus(a, w)
             d == ForgetSysmenu(b, w)
             e == ForgetDrag(d, w)
  <2>1. /\ DOMAIN a = Fields /\ a.stack = c
        /\ a.win = [v \in DOMAIN s.win \ {w} |-> s.win[v]]
        /\ a.focused = s.focused /\ a.sysmenu = s.sysmenu /\ a.drag = s.drag
        /\ a.mode = s.mode /\ a.start = s.start /\ a.dirty = s.dirty
    BY <1>1 DEF Books, Fields, Unlink, Cut
  <2> HIDE DEF a, c
  <2>2. /\ DOMAIN b = Fields /\ b.stack = c /\ b.win = a.win
        /\ b.focused = IF s.focused = w THEN LastOf(c) ELSE s.focused
        /\ b.sysmenu = s.sysmenu /\ b.drag = s.drag
        /\ b.mode = s.mode /\ b.start = s.start /\ b.dirty = s.dirty
    BY <2>1 DEF Fields, Refocus
  <2> HIDE DEF b
  <2>3. /\ DOMAIN d = Fields /\ d.stack = c /\ d.win = a.win
        /\ d.focused = b.focused
        /\ d.sysmenu = IF s.sysmenu = w THEN NoWindow ELSE s.sysmenu
        /\ d.drag = s.drag
        /\ d.mode = s.mode /\ d.start = s.start /\ d.dirty = s.dirty
    BY <2>2 DEF Fields, ForgetSysmenu
  <2> HIDE DEF d
  <2>4. /\ DOMAIN e = Fields /\ e.stack = c /\ e.win = a.win
        /\ e.focused = b.focused /\ e.sysmenu = d.sysmenu
        /\ e.drag = IF s.drag = w THEN NoWindow ELSE s.drag
        /\ e.mode = IF s.drag = w THEN "IDLE" ELSE s.mode
        /\ e.start = s.start /\ e.dirty = s.dirty
    BY <2>3 DEF Fields, ForgetDrag
  <2> HIDE DEF e
  <2>5. t = Composite(e)
    BY DEF CloseWindow, a, b, d, e
  <2> HIDE DEF t
  <2>6. /\ DOMAIN t = Fields /\ t.stack = e.stack /\ t.win = e.win
        /\ t.focused = e.focused /\ t.sysmenu = e.sysmenu
        /\ t.drag = e.drag /\ t.mode = e.mode
        /\ t.start = e.start /\ t.dirty = e.dirty
        /\ t.drawn = View(t)
    BY <2>4, <2>5 DEF Fields, Composite, View
  <2> QED BY <2>1, <2>2, <2>3, <2>4, <2>6
<1>3. PICK k \in 1 .. n :
        /\ n \in Nat /\ s.stack[k] = w
        /\ c \in Seq(Windows) /\ Len(c) = n - 1
        /\ \A i \in 1 .. n - 1 : c[i] = IF i < k THEN s.stack[i] ELSE s.stack[i + 1]
  BY <1>1, CutOut DEF WithoutPlace
<1>4. c = <<>> => Len(c) = 0
  OBVIOUS
<1>5. LastOf(c) = IF c = <<>> THEN NoWindow ELSE c[n - 1]
  BY <1>3 DEF LastOf, Last
<1> HIDE DEF t, c
<1>6. /\ \A i, j \in 1 .. n : s.stack[i] = s.stack[j] => i = j
      /\ \A v : v \in DOMAIN s.win <=> \E i \in 1 .. n : s.stack[i] = v
      /\ n <= MAX_WINDOWS
  BY <1>1 DEF Books
<1>7. c # <<>> => n - 1 \in 1 .. n - 1
  BY <1>3
<1> HIDE DEF n
<1>8. DOMAIN t.win = DOMAIN s.win \ {w} /\ \A v \in DOMAIN t.win : t.win[v] = s.win[v]
  BY <1>2
<1>9. \A i \in 1 .. n - 1 : \E h \in 1 .. n :
        c[i] = s.stack[h] /\ h = IF i < k THEN i ELSE i + 1
  <2> TAKE i \in 1 .. n - 1
  <2>1. CASE i < k
    BY <2>1, <1>3
  <2>2. CASE ~(i < k)
    <3>1. i + 1 \in 1 .. n
      BY <1>3
    <3> QED BY <2>2, <3>1, <1>3
  <2> QED BY <2>1, <2>2
<1>10. \A h \in 1 .. n : h # k => \E i \in 1 .. n - 1 :
         c[i] = s.stack[h] /\ h = IF i < k THEN i ELSE i + 1
  <2> SUFFICES ASSUME NEW h \in 1 .. n, h # k
      PROVE \E i \in 1 .. n - 1 :
              c[i] = s.stack[h] /\ h = IF i < k THEN i ELSE i + 1
    OBVIOUS
  <2>1. CASE h < k
    <3>1. h \in 1 .. n - 1
      BY <2>1, <1>3
    <3> QED BY <2>1, <3>1, <1>3
  <2>2. CASE h > k
    <3>1. h - 1 \in 1 .. n - 1 /\ (h - 1) + 1 = h /\ ~(h - 1 < k)
      BY <2>2, <1>3
    <3>2. c[h - 1] = s.stack[h]
      BY <3>1, <1>3
    <3> QED BY <3>1, <3>2
  <2> QED BY <2>1, <2>2, <1>3
<1>11. \A i, j \in 1 .. n - 1 : c[i] = c[j] => i = j
  <2> SUFFICES ASSUME NEW i \in 1 .. n - 1, NEW j \in 1 .. n - 1, c[i] = c[j]
      PROVE  i = j
    OBVIOUS
  <2>1. PICK h \in 1 .. n : c[i] = s.stack[h] /\ h = IF i < k THEN i ELSE i + 1
    BY <1>9
  <2>2. PICK g \in 1 .. n : c[j] = s.stack[g] /\ g = IF j < k THEN j ELSE j + 1
    BY <1>9
  <2>3. h = g
    BY <2>1, <2>2, <1>6
  <2> QED BY <2>1, <2>2, <2>3, <1>3
<1>12. \A v : v \in DOMAIN t.win <=> \E i \in 1 .. n - 1 : c[i] = v
  <2> TAKE v
  <2>1. ASSUME v \in DOMAIN t.win PROVE \E i \in 1 .. n - 1 : c[i] = v
    <3>1. PICK h \in 1 .. n : s.stack[h] = v
      BY <2>1, <1>6, <1>8
    <3>2. h # k
      BY <3>1, <2>1, <1>3, <1>8
    <3> QED BY <3>1, <3>2, <1>10
  <2>2. ASSUME NEW i \in 1 .. n - 1, c[i] = v PROVE v \in DOMAIN t.win
    <3>1. PICK h \in 1 .. n : c[i] = s.stack[h] /\ h = IF i < k THEN i ELSE i + 1
      BY <1>9
    <3>2. h # k
      BY <3>1, <1>3
    <3>3. s.stack[h] # w
      BY <3>2, <1>3, <1>6
    <3> QED BY <3>1, <3>3, <2>2, <1>6, <1>8
  <2> QED BY <2>1, <2>2
<1>13. Books(t)
  <2>1. Len(t.stack) = n - 1 /\ n - 1 <= MAX_WINDOWS /\ t.stack \in Seq(Windows)
    BY <1>2, <1>3, <1>6, WindowManagerAssumption
  <2>2. \A v \in DOMAIN t.win : t.win[v] \in WindowRecord
    BY <1>1, <1>8 DEF Books
  <2>3. \A v, x \in DOMAIN t.win :
          t.win[v].app = t.win[x].app /\ v # x => t.win[v].app = "text_editor"
    BY <1>1, <1>8 DEF Books
  <2> QED BY <1>2, <1>11, <1>12, <2>1, <2>2, <2>3 DEF Books
<1>14. t.focused \in DOMAIN t.win \cup {NoWindow}
  <2>1. CASE s.focused = w
    BY <2>1, <1>2, <1>5, <1>7, <1>12
  <2>2. CASE s.focused # w
    BY <2>2, <1>1, <1>2, <1>8 DEF Pointers
  <2> QED BY <2>1, <2>2
<1>15. w # NoWindow
  BY <1>1, <1>3, WindowManagerAssumption DEF Books
<1>16. Pointers(t)
  <2>1. t.sysmenu \in DOMAIN t.win \cup {NoWindow}
    BY <1>1, <1>2, <1>8 DEF Pointers
  <2>2. /\ t.drag \in Windows \cup {NoWindow} /\ t.mode \in Modes
        /\ t.start \in BOOLEAN /\ t.dirty \in BOOLEAN
    BY <1>1, <1>2 DEF Pointers, Modes, Following
  <2>3. t.mode \in Following => t.drag \in DOMAIN t.win
    BY <1>1, <1>2, <1>8 DEF Pointers, Following
  <2>4. t.mode = "IDLE" <=> t.drag = NoWindow
    BY <1>1, <1>2 DEF Pointers
  <2> QED BY <1>14, <2>1, <2>2, <2>3, <2>4 DEF Pointers
<1>17. FocusTop(t)
  <2> SUFFICES ASSUME t.focused # NoWindow, Visible(t, t.focused)
      PROVE  OnTop(t, t.focused)
    BY DEF FocusTop
  <2>1. CASE s.focused = w
    <3>1. c # <<>> /\ t.focused = c[n - 1] /\ n - 1 \in 1 .. n - 1
      BY <2>1, <1>2, <1>5, <1>7
    <3>2. Len(t.stack) = n - 1 /\ \A j \in 1 .. n - 1 : ~(j > n - 1)
      BY <1>2, <1>3
    <3> QED BY <3>1, <3>2, <1>2 DEF OnTop
  <2>2. CASE s.focused # w
    <3> DEFINE f == s.focused
    <3>1. t.focused = f /\ f \in DOMAIN t.win /\ Visible(s, f)
      BY <2>2, <1>2, <1>8, <1>14 DEF Visible
    <3>2. PICK h \in 1 .. n :
            /\ s.stack[h] = f
            /\ \A j \in 1 .. n : j > h => ~Visible(s, s.stack[j])
      BY <3>1, <1>1 DEF FocusTop, OnTop, n
    <3>3. h # k
      BY <3>2, <2>2, <1>3
    <3>4. PICK i \in 1 .. n - 1 :
            c[i] = s.stack[h] /\ h = IF i < k THEN i ELSE i + 1
      BY <3>3, <1>10
    <3>5. ASSUME NEW j \in 1 .. n - 1, j > i PROVE ~Visible(t, c[j])
      <4>1. PICK g \in 1 .. n : c[j] = s.stack[g] /\ g = IF j < k THEN j ELSE j + 1
        BY <1>9
      <4>2. g > h
        BY <3>4, <3>5, <4>1, <1>3
      <4>3. ~Visible(s, c[j]) /\ c[j] \in DOMAIN t.win
        BY <3>2, <4>1, <4>2, <1>12
      <4> QED BY <4>3, <1>8 DEF Visible
    <3>6. Len(t.stack) = n - 1
      BY <1>2, <1>3
    <3> QED BY <3>1, <3>2, <3>4, <3>5, <3>6, <1>2 DEF OnTop
  <2> QED BY <2>1, <2>2
<1>18. HandedOn(s, t)
  <2>1. \A v \in DOMAIN t.win : Shut(s, v) => Shut(t, v)
    BY <1>2, <1>8 DEF Shut
  <2> QED BY <2>1, <1>8 DEF HandedOn
<1> QED
  BY <1>2, <1>8, <1>13, <1>16, <1>17, <1>18 DEF Sound, Current, t

(* wm_minimize_window: the topmost window still visible gets the focus. *)
LEMMA MinimizeOk ==
  ASSUME NEW s, Sound(s), NEW w \in DOMAIN s.win
  PROVE  LET t == MinimizeWindow(s, w) IN
         /\ Sound(t) /\ HandedOn(s, t) /\ t.mode = s.mode
<1> DEFINE u == [s EXCEPT !.win[w].state = "MINIMIZED",
                          !.win[w].restore = s.win[w].state]
<1>1. CASE ~Visible(s, w)
  BY <1>1 DEF MinimizeWindow, HandedOn
<1>2. CASE Visible(s, w)
  <2>1. /\ Books(s) /\ Pointers(s) /\ FocusTop(s) /\ DOMAIN s = Fields
        /\ s.win[w] \in WindowRecord
    BY DEF Sound, Books
  <2>2. /\ DOMAIN u = Fields /\ u.stack = s.stack /\ u.focused = s.focused
        /\ u.mode = s.mode /\ u.drag = s.drag /\ u.sysmenu = s.sysmenu
        /\ u.start = s.start /\ u.dirty = s.dirty
        /\ DOMAIN u.win = DOMAIN s.win
        /\ \A v \in DOMAIN s.win : v # w => u.win[v] = s.win[v]
        /\ u.win[w] = [s.win[w] EXCEPT !.state = "MINIMIZED",
                                       !.restore = s.win[w].state]
    BY <2>1 DEF Fields
  <2>3. MinimizeWindow(s, w) = LoseFocus(u, w)
    BY <1>2 DEF MinimizeWindow
  <2> HIDE DEF u
  <2>4. /\ u.win[w] \in WindowRecord /\ u.win[w].app = s.win[w].app
        /\ u.win[w].dropdown = s.win[w].dropdown /\ ~Visible(u, w)
    BY <1>2, <2>1, <2>2 DEF WindowRecord, States, Visible
  <2>5. TableKept(s, u) /\ GrabKept(s, u)
    BY <2>1, <2>2, <2>4 DEF TableKept, GrabKept, Books, Pointers
  <2>6. Books(u) /\ Pointers(u)
    BY <2>1, <2>2, <2>5, KeptBooks, KeptPointers DEF Pointers
  <2>7. \A v : OnTop(s, v) /\ v # w => OnTop(u, v)
    <3> SUFFICES ASSUME NEW v, OnTop(s, v), v # w PROVE OnTop(u, v)
      OBVIOUS
    <3>1. \A x \in DOMAIN s.win : Visible(u, x) <=> Visible(s, x) /\ x # w
      BY <2>2, <2>4 DEF Visible
    <3>2. \A i \in 1 .. Len(s.stack) : s.stack[i] \in DOMAIN s.win
      BY <2>1 DEF Books
    <3> QED BY <3>1, <3>2, <2>2 DEF OnTop
  <2>8. FocusTop(u)
    <3> SUFFICES ASSUME u.focused # NoWindow, Visible(u, u.focused)
        PROVE  OnTop(u, u.focused)
      BY DEF FocusTop
    <3>1. s.focused # w /\ s.focused \in DOMAIN s.win
      BY <2>1, <2>2, <2>4 DEF Pointers
    <3>2. Visible(s, s.focused)
      BY <3>1, <2>2 DEF Visible
    <3> QED BY <3>1, <3>2, <2>1, <2>2, <2>7 DEF FocusTop
  <2>9. CASE s.focused # w
    <3>1. LoseFocus(u, w) = u
      BY <2>2, <2>9 DEF LoseFocus
    <3>2. Settled(s) => Settled(u)
      BY <1>2, <2>2, <2>7, <2>9 DEF Settled, NoneVisible
    <3>3. \A v \in DOMAIN s.win : Shut(s, v) => Shut(u, v)
      BY <2>2, <2>4 DEF Shut
    <3>4. HandedOn(s, u)
      BY <2>2, <3>2, <3>3 DEF HandedOn
    <3> QED BY <2>2, <2>3, <2>6, <2>8, <3>1, <3>4 DEF Sound
  <2>10. CASE s.focused = w
    <3> DEFINE b == Blur(u, w)
               t == LoseFocus(u, w)
    <3>1. /\ TableKept(u, b) /\ ViewsKept(u, b)
          /\ b.mode = u.mode /\ b.drag = u.drag /\ b.sysmenu = u.sysmenu
          /\ b.start = u.start /\ b.dirty = u.dirty
          /\ \A v \in DOMAIN u.win :
               b.win[v].dropdown => v # w /\ u.win[v].dropdown
      BY <2>2, <2>6, BlurFacts
    <3> HIDE DEF b
    <3>2. t = [b EXCEPT !.focused = TopmostVisible(u)]
      BY <2>2, <2>10 DEF LoseFocus, b
    <3>3. /\ DOMAIN t = Fields /\ t.stack = u.stack /\ t.win = b.win
          /\ t.mode = s.mode /\ t.drag = s.drag /\ t.sysmenu = s.sysmenu
          /\ t.start = s.start /\ t.dirty = s.dirty
          /\ t.focused = TopmostVisible(u)
      BY <2>2, <3>1, <3>2 DEF TableKept, Fields
    <3> HIDE DEF t
    <3>4. TableKept(u, t) /\ ViewsKept(u, t)
      BY <3>1, <3>3 DEF TableKept, ViewsKept, Visible
    <3>5. GrabKept(u, t)
      BY <2>2, <2>6, <3>3 DEF GrabKept, Pointers
    <3>6. \/ OnTop(u, t.focused)
          \/ t.focused = NoWindow /\ NoneVisible(u)
      BY <2>6, <3>3, Topmost
    <3>7. Settled(t)
      BY <2>6, <3>4, <3>6, KeptTop DEF Settled
    <3>8. t.focused \in DOMAIN u.win \cup {NoWindow}
      BY <2>6, <3>6, TopIsWindow
    <3>9. Books(t) /\ Pointers(t)
      BY <2>6, <3>4, <3>5, <3>8, KeptBooks, KeptPointers
    <3>10. FocusTop(t)
      BY <3>7 DEF Settled, FocusTop
    <3>11. DOMAIN t.win = DOMAIN s.win
      BY <2>2, <3>4 DEF TableKept
    <3>12. \A v \in DOMAIN s.win : Shut(s, v) => Shut(t, v)
      BY <2>2, <2>4, <2>10, <3>1, <3>3 DEF Shut
    <3>13. HandedOn(s, t)
      BY <3>7, <3>11, <3>12 DEF HandedOn
    <3> QED BY <2>3, <3>3, <3>9, <3>10, <3>13 DEF Sound, t
  <2> QED BY <2>9, <2>10
<1> QED BY <1>1, <1>2

(* wm_restore_window and the two ways to come to it: a window that is      *)
(* asked for is visible, on top and has the focus.                         *)
LEMMA RestoreOk ==
  ASSUME NEW s, Sound(s), NEW w \in DOMAIN s.win, ~Visible(s, w)
  PROVE  LET t == RestoreWindow(s, w) IN
         /\ Sound(t) /\ HandedOn(s, t) /\ t.mode = s.mode
<1> DEFINE u == [s EXCEPT !.win[w].state = s.win[w].restore,
                          !.win[w].restore = "NORMAL"]
<1>1. /\ Books(s) /\ Pointers(s) /\ DOMAIN s = Fields
      /\ s.win[w] \in WindowRecord
  BY DEF Sound, Books
<1>2. /\ DOMAIN u = Fields /\ u.stack = s.stack /\ u.focused = s.focused
      /\ u.mode = s.mode /\ u.drag = s.drag /\ u.sysmenu = s.sysmenu
      /\ u.start = s.start /\ u.dirty = s.dirty
      /\ DOMAIN u.win = DOMAIN s.win
      /\ \A v \in DOMAIN s.win : v # w => u.win[v] = s.win[v]
      /\ u.win[w] = [s.win[w] EXCEPT !.state = s.win[w].restore,
                                     !.restore = "NORMAL"]
  BY <1>1 DEF Fields
<1>3. RestoreWindow(s, w) = Raise(u, w)
  BY DEF RestoreWindow
<1> HIDE DEF u
<1>4. /\ u.win[w] \in WindowRecord /\ u.win[w].app = s.win[w].app
      /\ u.win[w].dropdown = s.win[w].dropdown /\ Visible(u, w)
  BY <1>1, <1>2 DEF WindowRecord, States, Visible
<1>5. TableKept(s, u) /\ GrabKept(s, u)
  BY <1>1, <1>2, <1>4 DEF TableKept, GrabKept, Books, Pointers
<1>6. Books(u) /\ Pointers(u)
  BY <1>1, <1>2, <1>5, KeptBooks, KeptPointers DEF Pointers
<1> DEFINE t == Raise(u, w)
<1>7. /\ Sound(t) /\ HandedOn(u, t) /\ Settled(t)
      /\ DOMAIN t.win = DOMAIN u.win /\ t.mode = u.mode
  BY <1>2, <1>4, <1>6, RaiseOk
<1> HIDE DEF t
<1>8. \A v \in DOMAIN s.win : Shut(s, v) => Shut(u, v)
  BY <1>2, <1>4 DEF Shut
<1>9. HandedOn(s, t)
  BY <1>2, <1>7, <1>8 DEF HandedOn
<1> QED BY <1>2, <1>3, <1>7, <1>9 DEF t

LEMMA FocusOk ==
  ASSUME NEW s, Sound(s), NEW w \in DOMAIN s.win
  PROVE  LET t == FocusWindow(s, w) IN
         /\ Sound(t) /\ HandedOn(s, t) /\ Current(t) /\ t.mode = s.mode
<1> DEFINE u == IF Visible(s, w) THEN Raise(s, w) ELSE RestoreWindow(s, w)
<1>1. Sound(u) /\ HandedOn(s, u) /\ u.mode = s.mode
  <2>1. CASE Visible(s, w)
    BY <2>1, RaiseOk DEF Sound
  <2>2. CASE ~Visible(s, w)
    BY <2>2, RestoreOk
  <2> QED BY <2>1, <2>2
<1>2. FocusWindow(s, w) = Dirty(u)
  BY DEF FocusWindow, Dirty
<1> HIDE DEF u
<1> QED BY <1>1, <1>2, DirtyOk

(* pm_launch and wm_start_menu_select. *)
LEMMA LaunchOk ==
  ASSUME NEW s, Sound(s), NEW a \in Apps, NEW t \in Launch(s, a)
  PROVE  Sound(t) /\ HandedOn(s, t) /\ t.mode = s.mode
<1> DEFINE n == Len(s.stack)
           I == {i \in 1 .. n : s.win[s.stack[i]].app = a}
           i == SelectInSeq(s.stack, LAMBDA w : s.win[w].app = a)
<1>1. /\ n \in Nat /\ I \subseteq Nat /\ 0 \notin I
      /\ \A w : w \in DOMAIN s.win <=> \E j \in 1 .. n : s.stack[j] = w
  BY DEF Sound, Books
<1>2. i = IF I # {} THEN Min(I) ELSE 0
  BY DEF SelectInSeq
<1>3. I # {} => Min(I) \in I
  <2> HIDE DEF I
  <2> SUFFICES ASSUME I # {} PROVE Min(I) \in I
    OBVIOUS
  <2>1. PICK m \in I : \A j \in I : m <= j
    BY <1>1, SomeLeast
  <2>2. \A k \in I : (\A j \in I : k <= j) => k = m
    BY <2>1, <1>1
  <2>3. Min(I) = m
    BY <2>1, <2>2 DEF Min
  <2> QED BY <2>1, <2>3
<1>4. t \in IF a # "text_editor" /\ i # 0 THEN {FocusWindow(s, s.stack[i])}
            ELSE CreateWindow(s, a)
  BY DEF Launch
<1>5. i # 0 => s.stack[i] \in DOMAIN s.win
  <2>1. i # 0 => i \in I
    BY <1>2, <1>3
  <2> QED BY <2>1, <1>1
<1>6. i = 0 => \A w \in DOMAIN s.win : s.win[w].app # a
  <2>1. i = 0 => I = {}
    <3> HIDE DEF i, I
    <3> QED BY <1>1, <1>2, <1>3
  <2> QED BY <2>1, <1>1
<1> HIDE DEF i, I, n
<1>7. CASE a # "text_editor" /\ i # 0
  <2>1. t = FocusWindow(s, s.stack[i])
    BY <1>4, <1>7
  <2> QED BY <2>1, <1>5, <1>7, FocusOk
<1>8. CASE ~(a # "text_editor" /\ i # 0)
  <2>1. t \in CreateWindow(s, a)
    BY <1>4, <1>8
  <2>2. MayOpen(s, a)
    BY <1>6, <1>8 DEF MayOpen
  <2> QED BY <2>1, <2>2, CreateOk
<1> QED BY <1>7, <1>8

-----------------------------------------------------------------------------
(* The callbacks and the regions of a window. *)

(* What a handler makes of s: everything that the invariants ask for. *)
Handled(s, t) == Sound(t) /\ HandedOn(s, t) /\ Current(t)

(* A step that keeps the windows may come before any other. *)
LEMMA Chain ==
  ASSUME NEW s, NEW r, NEW t, HandedOn(s, r), HandedOn(r, t),
         DOMAIN r.win = DOMAIN s.win
  PROVE  HandedOn(s, t)
<1>1. DOMAIN s.win \subseteq DOMAIN t.win /\ Settled(s) => Settled(t)
  BY DEF HandedOn
<1>2. ASSUME DOMAIN t.win \subseteq DOMAIN s.win
      PROVE  \A w \in DOMAIN t.win : Shut(s, w) => Shut(t, w)
  BY <1>2 DEF HandedOn
<1> QED BY <1>1, <1>2 DEF HandedOn

(* Opening the dropdown of the window that has the focus. *)
LEMMA DropdownOk ==
  ASSUME NEW s, Sound(s), NEW w \in DOMAIN s.win, s.focused = w
  PROVE  LET t == [s EXCEPT !.win[w].dropdown = TRUE] IN
         Sound(t) /\ HandedOn(s, t) /\ t.mode = s.mode
<1> DEFINE t == [s EXCEPT !.win[w].dropdown = TRUE]
<1>1. /\ DOMAIN s = Fields /\ \A v \in DOMAIN s.win : s.win[v] \in WindowRecord
      /\ s.start \in BOOLEAN /\ s.dirty \in BOOLEAN
  BY DEF Sound, Pointers, Books
<1>2. /\ DOMAIN t = Fields /\ t.stack = s.stack /\ t.focused = s.focused
      /\ t.mode = s.mode /\ t.drag = s.drag /\ t.sysmenu = s.sysmenu
      /\ t.start = s.start /\ t.dirty = s.dirty
      /\ DOMAIN t.win = DOMAIN s.win
      /\ \A v \in DOMAIN s.win : v # w => t.win[v] = s.win[v]
      /\ t.win[w] = [s.win[w] EXCEPT !.dropdown = TRUE]
  BY <1>1 DEF Fields
<1> HIDE DEF t
<1>3. /\ t.win[w] \in WindowRecord
      /\ t.win[w].app = s.win[w].app /\ t.win[w].state = s.win[w].state
  BY <1>1, <1>2 DEF WindowRecord
<1>4. TableKept(s, t) /\ ViewsKept(s, t) /\ GrabKept(s, t)
  BY <1>1, <1>2, <1>3 DEF TableKept, ViewsKept, GrabKept, Visible
<1>5. \A v \in DOMAIN s.win :
        t.win[v].dropdown => s.win[v].dropdown \/ v = s.focused
  BY <1>2
<1> QED BY <1>2, <1>4, <1>5, RestyleOk DEF t

LEMMA OnMouseDownOk ==
  ASSUME NEW s, Sound(s), NEW w \in DOMAIN s.win, s.focused = w,
         NEW t \in OnMouseDown(s, w)
  PROVE  Sound(t) /\ HandedOn(s, t)
<1>1. HandedOn(s, s)
  BY DEF HandedOn
<1>2. CASE s.win[w].app = "info"
  <2>1. t \in {s, CloseWindow(s, w)}
    BY <1>2 DEF OnMouseDown
  <2> QED BY <2>1, <1>1, CloseOk
<1>3. CASE s.win[w].app = "program_manager"
  <2>1. t = s \/ \E a \in Apps : t \in Launch(s, a)
    BY <1>3 DEF OnMouseDown
  <2> QED BY <2>1, <1>1, LaunchOk
<1>4. CASE s.win[w].app = "file_manager" /\ s.win[w].dropdown
  <2> DEFINE c == Blur(s, w)
  <2>1. t \in {s, c, CloseWindow(c, w), Arrange(c)}
    BY <1>4 DEF OnMouseDown
  <2>2. Sound(c) /\ HandedOn(s, c) /\ DOMAIN c.win = DOMAIN s.win
    BY BlurOk
  <2> HIDE DEF c
  <2>3. /\ Sound(CloseWindow(c, w)) /\ HandedOn(c, CloseWindow(c, w))
        /\ Sound(Arrange(c)) /\ HandedOn(c, Arrange(c))
    BY <2>2, CloseOk, ArrangeOk
  <2> QED BY <2>1, <2>2, <2>3, <1>1, Chain
<1>5. CASE s.win[w].app = "file_manager" /\ ~s.win[w].dropdown
  <2>1. \/ t = s
        \/ t = [s EXCEPT !.win[w].dropdown = TRUE]
        \/ "text_editor" \in Apps /\ t \in CreateWindow(s, "text_editor")
    BY <1>5 DEF OnMouseDown
  <2>2. MayOpen(s, "text_editor")
    BY DEF MayOpen
  <2> QED BY <2>1, <2>2, <1>1, DropdownOk, CreateOk
<1>6. CASE s.win[w].app \notin {"info", "program_manager", "file_manager"}
  <2>1. t = s
    BY <1>6 DEF OnMouseDown
  <2> QED BY <2>1, <1>1
<1> QED BY <1>2, <1>3, <1>4, <1>5, <1>6

(* A grab of a window that exists, or existed when it was clicked. *)
LEMMA GrabOk ==
  ASSUME NEW s, Sound(s), NEW w \in Windows, NEW m \in Modes \ {"IDLE"},
         m # "ORPHANED" => w \in DOMAIN s.win
  PROVE  LET t == Dirty([s EXCEPT !.mode = m, !.drag = w]) IN
         Sound(t) /\ Current(t) /\ \A u : HandedOn(u, s) => HandedOn(u, t)
<1> DEFINE t == Dirty([s EXCEPT !.mode = m, !.drag = w])
<1>1. /\ DOMAIN t = Fields /\ t.stack = s.stack /\ t.win = s.win
      /\ t.focused = s.focused /\ t.mode = m /\ t.drag = w
      /\ t.sysmenu = s.sysmenu /\ t.start = s.start /\ t.dirty = TRUE
  BY DEF Sound, Books, Fields, Dirty
<1> HIDE DEF t
<1>2. w # NoWindow
  BY WindowManagerAssumption
<1>3. Pointers(t)
  BY <1>1, <1>2 DEF Sound, Pointers, Modes, Following
<1> QED BY <1>1, <1>3, SameFocus DEF t, Current

LEMMA SysmenuOk ==
  ASSUME NEW s, Sound(s), NEW w \in DOMAIN s.win, NEW t \in HitSysmenu(s, w)
  PROVE  Handled(s, t)
<1> DEFINE a == Dirty([s EXCEPT !.sysmenu = w])
           b == [s EXCEPT !.sysmenu = NoWindow]
<1>1. DOMAIN s = Fields /\ Pointers(s)
  BY DEF Sound, Books
<1>2. HandedOn(s, s)
  BY DEF HandedOn
<1>3. t = a \/ t = CloseWindow(b, w)
  BY DEF HitSysmenu
<1>4. /\ DOMAIN a = Fields /\ a.stack = s.stack /\ a.win = s.win
      /\ a.focused = s.focused /\ a.mode = s.mode /\ a.drag = s.drag
      /\ a.sysmenu = w /\ a.start = s.start /\ a.dirty = TRUE
  BY <1>1 DEF Fields, Dirty
<1>5. /\ DOMAIN b = Fields /\ b.stack = s.stack /\ b.win = s.win
      /\ b.focused = s.focused /\ b.mode = s.mode /\ b.drag = s.drag
      /\ b.sysmenu = NoWindow /\ b.start = s.start /\ b.dirty = s.dirty
  BY <1>1 DEF Fields
<1> HIDE DEF a, b
<1>6. Pointers(a) /\ Pointers(b)
  BY <1>1, <1>4, <1>5 DEF Pointers
<1>7. Sound(a) /\ HandedOn(s, a) /\ Current(a)
  BY <1>2, <1>4, <1>6, SameFocus DEF Current
<1>8. Sound(b) /\ HandedOn(s, b)
  BY <1>2, <1>5, <1>6, SameFocus
<1>9. Handled(b, CloseWindow(b, w))
  BY <1>5, <1>8, CloseOk DEF Handled
<1>10. HandedOn(s, CloseWindow(b, w))
  BY <1>5, <1>8, <1>9, Chain DEF Handled
<1> QED BY <1>3, <1>7, <1>9, <1>10 DEF Handled

LEMMA HitWindowOk ==
  ASSUME NEW s, Sound(s), NEW w \in DOMAIN s.win, Visible(s, w),
         NEW t \in HitWindow(s, w)
  PROVE  Handled(s, t)
<1> DEFINE r == Raise(s, w)
<1>1. /\ Sound(r) /\ HandedOn(s, r) /\ DOMAIN r.win = DOMAIN s.win
      /\ r.focused = w /\ Visible(r, w)
  BY RaiseOk DEF Sound, Visible
<1>2. \/ t \in HitSysmenu(r, w)
      \/ t = Dirty(MinimizeWindow(r, w))
      \/ t = Dirty(ToggleMaximize(r, w))
      \/ t = Dirty([r EXCEPT !.mode = "DRAGGING_TITLE", !.drag = w])
      \/ t = Dirty([r EXCEPT !.mode = "RESIZING", !.drag = w])
      \/ \E x \in OnMouseDown(r, w) : t = Dirty(Captured(x, w))
  BY DEF HitWindow
<1> HIDE DEF r
<1> SUFFICES Handled(r, t)
  BY <1>1, Chain DEF Handled
<1>3. w \in Windows
  <2>1. PICK i \in 1 .. Len(s.stack) : s.stack[i] = w
    BY DEF Sound, Books
  <2> QED BY <2>1 DEF Sound, Books
<1>4. HandedOn(r, r)
  BY DEF HandedOn
<1>5. CASE t \in HitSysmenu(r, w)
  BY <1>1, <1>5, SysmenuOk
<1>6. CASE t = Dirty(MinimizeWindow(r, w))
  BY <1>1, <1>6, MinimizeOk, DirtyOk DEF Handled
<1>7. CASE t = Dirty(ToggleMaximize(r, w))
  BY <1>1, <1>7, ToggleMaximizeOk, DirtyOk DEF Handled
<1>8. CASE t = Dirty([r EXCEPT !.mode = "DRAGGING_TITLE", !.drag = w])
  BY <1>1, <1>3, <1>4, <1>8, GrabOk DEF Handled, Modes, Following
<1>9. CASE t = Dirty([r EXCEPT !.mode = "RESIZING", !.drag = w])
  BY <1>1, <1>3, <1>4, <1>9, GrabOk DEF Handled, Modes, Following
<1>10. CASE \E x \in OnMouseDown(r, w) : t = Dirty(Captured(x, w))
  <2>1. PICK x \in OnMouseDown(r, w) : t = Dirty(Captured(x, w))
    BY <1>10
  <2>2. Sound(x) /\ HandedOn(r, x)
    BY <1>1, OnMouseDownOk
  <2> DEFINE m == IF w \in DOMAIN x.win THEN "APP_CAPTURED" ELSE "ORPHANED"
  <2>3. t = Dirty([x EXCEPT !.mode = m, !.drag = w])
    BY <2>1 DEF Captured
  <2>4. m \in Modes \ {"IDLE"} /\ (m # "ORPHANED" => w \in DOMAIN x.win)
    BY DEF Modes, Following
  <2> HIDE DEF m
  <2> QED BY <2>2, <2>3, <2>4, <1>3, GrabOk DEF Handled
<1> QED BY <1>2, <1>5, <1>6, <1>7, <1>8, <1>9, <1>10

LEMMA HitDesktopOk ==
  ASSUME NEW s, Sound(s), Current(s), NEW t \in HitDesktop(s)
  PROVE  Handled(s, t)
<1>1. Range(s.stack) = DOMAIN s.win
  BY DEF Range, Sound, Books
<1>2. \/ t = s
      \/ \E w \in DOMAIN s.win : t = FocusWindow(s, w)
      \/ \E w \in DOMAIN s.win : Visible(s, w) /\ t \in HitWindow(s, w)
  BY <1>1 DEF HitDesktop
<1>3. CASE t = s
  BY <1>3 DEF Handled, HandedOn
<1>4. CASE \E w \in DOMAIN s.win : t = FocusWindow(s, w)
  BY <1>4, FocusOk DEF Handled
<1>5. CASE \E w \in DOMAIN s.win : Visible(s, w) /\ t \in HitWindow(s, w)
  BY <1>5, HitWindowOk
<1> QED BY <1>2, <1>3, <1>4, <1>5

(* Opening and closing the start menu. *)
LEMMA StartOk ==
  ASSUME NEW s, Sound(s), NEW b \in BOOLEAN
  PROVE  LET t == Dirty([s EXCEPT !.start = b]) IN
         /\ Sound(t) /\ Current(t) /\ DOMAIN t.win = DOMAIN s.win
         /\ \A u : HandedOn(u, s) => HandedOn(u, t)
<1> DEFINE t == Dirty([s EXCEPT !.start = b])
<1>1. /\ DOMAIN t = Fields /\ t.stack = s.stack /\ t.win = s.win
      /\ t.focused = s.focused /\ t.mode = s.mode /\ t.drag = s.drag
      /\ t.sysmenu = s.sysmenu /\ t.start = b /\ t.dirty = TRUE
  BY DEF Sound, Books, Fields, Dirty
<1> HIDE DEF t
<1>2. Pointers(t)
  BY <1>1 DEF Sound, Pointers
<1> QED BY <1>1, <1>2, SameFocus DEF t, Current

LEMMA MouseDownOk ==
  ASSUME NEW s, Sound(s), Current(s), NEW t \in MouseDownLeft(s)
  PROVE  Handled(s, t)
<1> DEFINE c == Dirty([s EXCEPT !.start = FALSE])
<1>1. s.start \in BOOLEAN
  BY DEF Sound, Pointers
<1>2. HandedOn(s, s)
  BY DEF HandedOn
<1>3. \/ t = Dirty([s EXCEPT !.start = ~s.start])
      \/ \E a \in Apps : \E x \in Launch(s, a) : t = Dirty([x EXCEPT !.start = FALSE])
      \/ t \in HitDesktop(c)
      \/ t \in HitDesktop(s)
  BY <1>1 DEF MouseDownLeft, HitStartMenu
<1>4. CASE t = Dirty([s EXCEPT !.start = ~s.start])
  BY <1>1, <1>2, <1>4, StartOk DEF Handled
<1>5. CASE \E a \in Apps : \E x \in Launch(s, a) : t = Dirty([x EXCEPT !.start = FALSE])
  BY <1>5, LaunchOk, StartOk DEF Handled
<1>6. CASE t \in HitDesktop(c)
  <2>1. Sound(c) /\ HandedOn(s, c) /\ DOMAIN c.win = DOMAIN s.win /\ Current(c)
    BY <1>2, StartOk
  <2> HIDE DEF c
  <2>2. Handled(c, t)
    BY <1>6, <2>1, HitDesktopOk
  <2> QED BY <2>1, <2>2, Chain DEF Handled
<1>7. CASE t \in HitDesktop(s)
  BY <1>7, HitDesktopOk
<1> QED BY <1>3, <1>4, <1>5, <1>6, <1>7

-----------------------------------------------------------------------------
(* The inductive invariant, and what every step makes of it. *)

Good(s) == Sound(s) /\ Current(s) /\ s.drawn \in {View(s), Stale}

IInv == Good(wm) /\ DragHeld /\ held \subseteq Buttons /\ lost \in BOOLEAN

LEMMA SettleOk ==
  ASSUME NEW s, Sound(s), Current(s)
  PROVE  LET t == Settle(s) IN
         Good(t) /\ t.mode = s.mode /\ \A u : HandedOn(u, s) => HandedOn(u, t)
<1> DEFINE t == Settle(s)
<1>1. /\ DOMAIN t = Fields /\ t.stack = s.stack /\ t.win = s.win
      /\ t.focused = s.focused /\ t.mode = s.mode /\ t.drag = s.drag
      /\ t.sysmenu = s.sysmenu /\ t.start = s.start /\ t.dirty = s.dirty
      /\ t.drawn = IF s.drawn = View(s) THEN s.drawn ELSE Stale
  BY DEF Sound, Books, Fields, Settle
<1> HIDE DEF t
<1>2. Pointers(t)
  BY <1>1 DEF Sound, Pointers
<1>3. View(t) = View(s)
  BY <1>1 DEF View
<1>4. Current(t) /\ t.drawn \in {View(t), Stale}
  BY <1>1, <1>3 DEF Current
<1> QED BY <1>1, <1>2, <1>4, SameFocus DEF t, Good

(* The handlers that change neither table nor focus. *)
LEMMA QuietOk ==
  ASSUME NEW s, Good(s), NEW t, DOMAIN t = Fields, t.stack = s.stack,
         t.win = s.win, t.focused = s.focused, t.sysmenu = s.sysmenu,
         t.start = s.start, t.dirty \in BOOLEAN,
         \/ t.mode = s.mode /\ t.drag = s.drag
         \/ t.mode = "IDLE" /\ t.drag = NoWindow,
         \/ t.drawn = s.drawn /\ t.dirty
         \/ t.drawn = View(t)
  PROVE  Good(t) /\ HandedOn(s, t)
<1>1. Sound(s) /\ s.drawn \in {View(s), Stale}
  BY DEF Good
<1>2. Pointers(t)
  BY <1>1 DEF Sound, Pointers, Modes, Following
<1>3. View(t) = View(s)
  BY DEF View
<1>4. Current(t) /\ t.drawn \in {View(t), Stale}
  BY <1>1, <1>3 DEF Current
<1>5. HandedOn(s, s)
  BY DEF HandedOn
<1> QED BY <1>1, <1>2, <1>4, <1>5, SameFocus DEF Good

LEMMA InitGood == Init => IInv
<1> SUFFICES ASSUME Init PROVE IInv
  OBVIOUS
<1>1. PICK w \in Windows :
       wm = Composite([stack |-> <<w>>, win |-> [v \in {w} |-> NewWindow("program_manager")],
             focused |-> w, mode |-> "IDLE", drag |-> NoWindow,
             sysmenu |-> NoWindow, start |-> FALSE, dirty |-> TRUE,
             drawn |-> Stale])
  BY DEF Init
<1>2. /\ DOMAIN wm = Fields /\ wm.stack = <<w>>
      /\ wm.win = [v \in {w} |-> NewWindow("program_manager")]
      /\ wm.focused = w /\ wm.mode = "IDLE" /\ wm.drag = NoWindow
      /\ wm.sysmenu = NoWindow /\ wm.start = FALSE /\ wm.dirty = TRUE
      /\ wm.drawn = View(wm)
  BY <1>1 DEF Composite, View, Fields
<1>3. /\ Len(wm.stack) = 1 /\ wm.stack[1] = w /\ wm.stack \in Seq(Windows)
      /\ DOMAIN wm.win = {w} /\ wm.win[w] = NewWindow("program_manager")
  BY <1>2
<1>4. wm.win[w] \in WindowRecord /\ Visible(wm, w)
  BY <1>3, WindowManagerAssumption DEF NewWindow, WindowRecord, States, Visible
<1>5. Books(wm)
  BY <1>2, <1>3, <1>4, WindowManagerAssumption DEF Books
<1>6. Pointers(wm)
  BY <1>2, <1>3 DEF Pointers, Modes, Following
<1>7. OnTop(wm, w)
  BY <1>3, <1>4 DEF OnTop
<1>8. FocusTop(wm)
  BY <1>2, <1>7 DEF FocusTop
<1>9. Good(wm)
  BY <1>2, <1>5, <1>6, <1>8 DEF Good, Sound, Current
<1> QED BY <1>2, <1>9 DEF Init, IInv, DragHeld

LEMMA EveryStep ==
  ASSUME IInv, Next
  PROVE  Good(wm') /\ HandedOn(wm, wm') /\ DragHeld' /\ held' \subseteq Buttons
           /\ lost' \in BOOLEAN
<1>1. /\ Good(wm) /\ Sound(wm) /\ Current(wm) /\ DOMAIN wm = Fields
      /\ held \subseteq Buttons /\ lost \in BOOLEAN
      /\ wm.mode # "IDLE" => "left" \in held \/ lost
      /\ HandedOn(wm, wm)
  BY DEF IInv, Good, Sound, Books, DragHeld, HandedOn
<1>2. CASE WmOnMouseDown
  <2>1. PICK b \in SUBSET (Buttons \ held) \ {{}} :
          /\ held' = held \cup b /\ lost' = lost
          /\ IF "left" \in b THEN \E s \in MouseDownLeft(wm) : wm' = Settle(s)
             ELSE UNCHANGED wm
    BY <1>2 DEF WmOnMouseDown
  <2>2. CASE "left" \in b
    <3>1. PICK s \in MouseDownLeft(wm) : wm' = Settle(s)
      BY <2>1, <2>2
    <3>2. Good(wm') /\ HandedOn(wm, wm')
      BY <1>1, <3>1, MouseDownOk, SettleOk DEF Handled
    <3> QED BY <1>1, <2>1, <2>2, <3>2 DEF DragHeld
  <2>3. CASE "left" \notin b
    <3>1. wm' = wm
      BY <2>1, <2>3
    <3> QED BY <1>1, <2>1, <3>1 DEF DragHeld
  <2> QED BY <2>2, <2>3
<1>3. CASE WmOnMouseMove
  <2>1. wm' = Dirty(wm) /\ held' = held /\ lost' = lost
    BY <1>3 DEF WmOnMouseMove
  <2>2. /\ DOMAIN wm' = Fields /\ wm'.stack = wm.stack /\ wm'.win = wm.win
        /\ wm'.focused = wm.focused /\ wm'.sysmenu = wm.sysmenu
        /\ wm'.start = wm.start /\ wm'.dirty = TRUE /\ wm'.mode = wm.mode
        /\ wm'.drag = wm.drag /\ wm'.drawn = wm.drawn
    BY <1>1, <2>1 DEF Dirty, Fields
  <2>3. Good(wm') /\ HandedOn(wm, wm')
    BY <1>1, <2>2, QuietOk
  <2> QED BY <1>1, <2>1, <2>2, <2>3 DEF DragHeld
<1>4. CASE WmOnMouseUp
  <2>1. /\ held' \subseteq held /\ lost' = FALSE
        /\ wm' = Dirty([wm EXCEPT !.mode = "IDLE", !.drag = NoWindow])
    BY <1>4 DEF WmOnMouseUp
  <2>2. /\ DOMAIN wm' = Fields /\ wm'.stack = wm.stack /\ wm'.win = wm.win
        /\ wm'.focused = wm.focused /\ wm'.sysmenu = wm.sysmenu
        /\ wm'.start = wm.start /\ wm'.dirty = TRUE /\ wm'.mode = "IDLE"
        /\ wm'.drag = NoWindow /\ wm'.drawn = wm.drawn
    BY <1>1, <2>1 DEF Dirty, Fields
  <2>3. Good(wm') /\ HandedOn(wm, wm')
    BY <1>1, <2>2, QuietOk
  <2> QED BY <1>1, <2>1, <2>2, <2>3 DEF DragHeld
<1>5. CASE LostButton
  <2>1. held' \subseteq Buttons /\ lost' = TRUE /\ wm' = wm
    BY <1>5 DEF LostButton
  <2> QED BY <1>1, <2>1 DEF DragHeld
<1>6. CASE WmOnKeyDown
  <2>1. PICK s \in OnKeyDown(wm, wm.focused) : wm' = Settle(Dirty(s))
    BY <1>6 DEF WmOnKeyDown
  <2>2. wm.focused # NoWindow /\ held' = held /\ lost' = lost
    BY <1>6 DEF WmOnKeyDown
  <2>3. wm.focused \in DOMAIN wm.win
    BY <1>1, <2>2 DEF Sound, Pointers
  <2>4. s = wm \/ s = CloseWindow(wm, wm.focused)
    BY <2>1 DEF OnKeyDown
  <2>5. Sound(s) /\ HandedOn(wm, s) /\ s.mode \in {wm.mode, "IDLE"}
    BY <1>1, <2>3, <2>4, CloseOk
  <2>6. Good(wm') /\ HandedOn(wm, wm') /\ wm'.mode = s.mode
    BY <2>1, <2>5, DirtyOk, SettleOk
  <2> QED BY <1>1, <2>2, <2>5, <2>6 DEF DragHeld
<1>7. CASE WmOnTick
  <2>1. wm' = Composite([wm EXCEPT !.dirty = FALSE]) /\ held' = held /\ lost' = lost
    BY <1>7 DEF WmOnTick
  <2>2. /\ DOMAIN wm' = Fields /\ wm'.stack = wm.stack /\ wm'.win = wm.win
        /\ wm'.focused = wm.focused /\ wm'.sysmenu = wm.sysmenu
        /\ wm'.start = wm.start /\ wm'.dirty = FALSE /\ wm'.mode = wm.mode
        /\ wm'.drag = wm.drag /\ wm'.drawn = View(wm')
    BY <1>1, <2>1 DEF Composite, View, Fields
  <2>3. Good(wm') /\ HandedOn(wm, wm')
    BY <1>1, <2>2, QuietOk
  <2> QED BY <1>1, <2>1, <2>2, <2>3 DEF DragHeld
<1> QED BY <1>2, <1>3, <1>4, <1>5, <1>6, <1>7 DEF Next

LEMMA Invariance == Spec => []IInv
<1>1. IInv /\ [Next]_vars => IInv'
  <2>1. ASSUME IInv, Next PROVE IInv'
    BY <2>1, EveryStep DEF IInv
  <2>2. ASSUME IInv, UNCHANGED vars PROVE IInv'
    BY <2>2 DEF IInv, DragHeld, vars
  <2> QED BY <2>1, <2>2
<1> QED BY <1>1, InitGood, PTL DEF Spec

-----------------------------------------------------------------------------
(* The invariants of the runs. *)

(* A stack without duplicates is as long as the table has windows. *)
LEMMA StackCounts ==
  ASSUME NEW s, Books(s)
  PROVE  Len(s.stack) = Cardinality(DOMAIN s.win)
<1> DEFINE n == Len(s.stack)
           D == DOMAIN s.win
           f == [i \in 1 .. n |-> s.stack[i]]
<1>1. /\ n \in Nat
      /\ \A i, j \in 1 .. n : s.stack[i] = s.stack[j] => i = j
      /\ \A w : w \in D <=> \E i \in 1 .. n : s.stack[i] = w
  BY DEF Books
<1> HIDE DEF n, D
<1>2. f \in Bijection(1 .. n, D)
  <2>1. f \in [1 .. n -> D]
    BY <1>1
  <2>2. \A i, j \in 1 .. n : f[i] = f[j] => i = j
    BY <1>1
  <2>3. \A w \in D : \E i \in 1 .. n : f[i] = w
    BY <1>1
  <2> HIDE DEF f
  <2> QED
    BY <2>1, <2>2, <2>3 DEF Bijection, Injection, Surjection, IsInjective
<1>3. ExistsBijection(1 .. n, D)
  BY <1>2 DEF ExistsBijection
<1>4. Cardinality(D) = n
  BY <1>1, <1>3, FS_CountingElements
<1> QED BY <1>4 DEF n, D

(* Whatever handlers and callbacks do, also a callback that closes its own *)
(* window: g_windows holds each window in memory once, at most             *)
(* MAX_WINDOWS of them, and one of each application but the editor.        *)
THEOREM TableStaysConsistent == Spec => []TableConsistent
<1>1. IInv => TableConsistent
  <2> SUFFICES ASSUME IInv PROVE TableConsistent
    OBVIOUS
  <2>1. Books(wm) /\ Pointers(wm) /\ wm.drawn \in {View(wm), Stale}
    BY DEF IInv, Good, Sound
  <2>2. \A w \in DOMAIN wm.win : w \in Windows
    BY <2>1 DEF Books
  <2>3. TypeOK
    BY <2>1, <2>2 DEF IInv, Books, Pointers, TypeOK
  <2>4. Range(wm.stack) = DOMAIN wm.win
    BY <2>1 DEF Range, Books
  <2>5. StackIsMemory
    BY <2>1, <2>4, StackCounts DEF StackIsMemory
  <2>6. Singletons
    BY <2>1 DEF Books, Singletons
  <2> QED BY <2>3, <2>5, <2>6 DEF TableConsistent
<1> QED BY <1>1, Invariance, PTL

(* wm_close_window clears whatever points to the window it frees, so that  *)
(* neither the focus nor the pending double click nor a drag nor a capture *)
(* survives it, not even for a new window at the same address; the one     *)
(* exception is a capture that begins after its window closed itself.      *)
THEOREM PointersStayValid == Spec => []NoDanglingPointer
<1>1. IInv => NoDanglingPointer
  BY DEF IInv, Good, Sound, Pointers, NoDanglingPointer
<1> QED BY <1>1, Invariance, PTL

(* A focused window that is visible is the one on top, however raising,    *)
(* minimising, restoring and closing were mixed.                           *)
THEOREM FocusStaysOnTop == Spec => []FocusOnTop
<1>1. IInv => FocusOnTop
  BY SettledFocus DEF IInv, Good, Sound, FocusTop, Settled, FocusOnTop
<1> QED BY <1>1, Invariance, PTL

(* What is to be seen is on the screen, or wm_on_tick is going to draw it. *)
THEOREM ScreenStaysCurrent == Spec => []ScreenCurrent
<1>1. IInv => ScreenCurrent
  BY DEF IInv, Good, Current, ScreenCurrent
<1> QED BY <1>1, Invariance, PTL

(* g_mode leaves IDLE only while the left button is down, or until the     *)
(* next release when the event queue has lost a change of a button.        *)
THEOREM DragsStayHeld == Spec => []DragHeld
<1>1. IInv => DragHeld
  BY DEF IInv
<1> QED BY <1>1, Invariance, PTL

(* Every handler but one that closes a window hands the focus of a visible *)
(* window to the topmost visible one, and every handler but one that opens *)
(* a window tells the window that loses the focus, which shuts its menu.   *)
THEOREM FocusIsHandedOver == Spec => FocusHandedOver
<1> DEFINE A == /\ DOMAIN wm.win \subseteq DOMAIN wm'.win /\ wm.focused # NoWindow
                     /\ Visible(wm, wm.focused)
                   => wm'.focused = TopmostVisible(wm')
                /\ \A w \in DOMAIN wm.win \cap DOMAIN wm'.win :
                     /\ wm.focused = w /\ wm'.focused # w
                     /\ DOMAIN wm'.win \subseteq DOMAIN wm.win
                     => ~wm'.win[w].dropdown
<1>1. IInv /\ [Next]_vars => [A]_vars
  <2> SUFFICES ASSUME IInv, Next PROVE A
    OBVIOUS
  <2>1. Books(wm') /\ HandedOn(wm, wm') /\ FocusTop(wm)
    BY EveryStep DEF IInv, Good, Sound
  <2>2. /\ DOMAIN wm.win \subseteq DOMAIN wm'.win /\ wm.focused # NoWindow
             /\ Visible(wm, wm.focused)
           => wm'.focused = TopmostVisible(wm')
    BY <2>1, SettledFocus DEF HandedOn, FocusTop, Settled
  <2>3. \A w \in DOMAIN wm.win \cap DOMAIN wm'.win :
          /\ wm.focused = w /\ wm'.focused # w
          /\ DOMAIN wm'.win \subseteq DOMAIN wm.win
          => ~wm'.win[w].dropdown
    BY <2>1 DEF HandedOn, Shut
  <2> QED BY <2>2, <2>3
<1> QED BY <1>1, Invariance, PTL DEF Spec, FocusHandedOver

-----------------------------------------------------------------------------
(***************************************************************************)
(* The rectangle of one window, for every screen, window and history of    *)
(* drags: it stays where it can be taken hold of.                          *)
(***************************************************************************)
(* What the assumptions say of the sizes, one by one. *)
LEMMA Sizes ==
  /\ SCREEN_W \in Int /\ AreaH \in Int /\ RESIZE_BORDER \in Int /\ KEEP \in Int
  /\ MIN_W \in Int /\ MIN_H \in Int /\ CASCADE \in Int /\ STEP \in Int
  /\ WINDOW_BORDER \in Int /\ WINDOW_TITLE_HEIGHT \in Int
  /\ KEEP > 0 /\ KEEP <= SCREEN_W /\ KEEP <= AreaH
  /\ CASCADE >= 0 /\ CASCADE + KEEP <= SCREEN_W /\ CASCADE + KEEP <= AreaH
  /\ STEP >= 0 /\ KEEP <= MIN_W /\ KEEP <= MIN_H
  /\ RESIZE_BORDER > 0 /\ RESIZE_BORDER <= MIN_W
  /\ RESIZE_BORDER <= WINDOW_BORDER + WINDOW_TITLE_HEIGHT
<1>1. {SCREEN_W, SCREEN_H, TASKBAR_HEIGHT, WINDOW_BORDER, WINDOW_TITLE_HEIGHT,
       RESIZE_BORDER, KEEP, CASCADE, STEP, MIN_W, MIN_H} \subseteq Nat
  BY GeometryAssumption
<1>2. /\ KEEP > 0 /\ CASCADE + KEEP <= SCREEN_W /\ CASCADE + KEEP <= AreaH
      /\ KEEP <= MIN_W /\ KEEP <= MIN_H
      /\ RESIZE_BORDER > 0 /\ RESIZE_BORDER <= MIN_W
      /\ RESIZE_BORDER <= WINDOW_BORDER + WINDOW_TITLE_HEIGHT
  BY GeometryAssumption
<1> QED BY <1>1, <1>2 DEF AreaH

(* GripOnDesktop of a rectangle.  That resizing leaves it so rests on the  *)
(* left edge being no further out than the border is wide.                 *)
Graspable(r) ==
  /\ r \in Rect
  /\ r.h > 0 /\ r.y >= 0 /\ r.y + KEEP <= AreaH
  /\ r.x < SCREEN_W /\ r.x + r.w > 0 /\ r.w > 0
  /\ r.x > -RESIZE_BORDER

(* The top edges never move, and the left one is held by a pixel of the    *)
(* border.                                                                 *)
GoodGrab(g) ==
  \/ g = NoGrab
  \/ g = [kind |-> "app"]
  \/ /\ g \in [kind : {"title"}, dx : Int, dy : Int]
  \/ /\ g \in [kind : {"resize"}, edge : Edges, start : Rect, mx : Int, my : Int]
     /\ Graspable(g.start)
     /\ g.edge \notin {"N", "NE", "NW"}
     /\ g.mx >= g.start.x
     /\ g.edge \in {"W", "SW"} => g.mx - g.start.x < RESIZE_BORDER

GripInv ==
  /\ state \in {"NORMAL", "MINIMIZED", "MAXIMIZED"}
  /\ restoreState \in {"NORMAL", "MAXIMIZED"}
  /\ Graspable(rect)
  /\ restoreRect \in Rect
  /\ state # "NORMAL" => Graspable(restoreRect)
  /\ lastNormal \in Rect
  /\ GoodGrab(grab)

-----------------------------------------------------------------------------
(* The region of a press decides the edge: none of the top ones. *)
LEMMA EdgeIsLow ==
  ASSUME NEW x \in MouseX, NEW y \in MouseY, rect \in Rect,
         HitTest(x, y) = "resize"
  PROVE  /\ ResizeEdgeAt(rect, x, y) \in {"S", "E", "W", "SE", "SW"}
         /\ x >= rect.x
         /\ ResizeEdgeAt(rect, x, y) \in {"W", "SW"} => x - rect.x < RESIZE_BORDER
<1>1. /\ ~InTitle(rect, y) /\ RectContains(rect, x, y)
      /\ ResizeEdgeAt(rect, x, y) # "none"
  BY DEF HitTest
<1>2. rect.x \in Int /\ rect.y \in Int /\ rect.w \in Int /\ rect.h \in Int
      /\ x \in Int /\ y \in Int
  BY DEF Rect, MouseX, MouseY
<1>3. ~(y - rect.y < RESIZE_BORDER)
  BY <1>1, <1>2, Sizes DEF InTitle
<1>4. x >= rect.x
  BY <1>1, <1>2 DEF RectContains
<1>5. ResizeEdgeAt(rect, x, y) \in {"S", "E", "W", "SE", "SW", "none"}
  BY <1>3, ZenonT(60) DEF ResizeEdgeAt
<1>6. ResizeEdgeAt(rect, x, y) \in {"W", "SW"} => x - rect.x < RESIZE_BORDER
  BY <1>3, SMTT(60) DEF ResizeEdgeAt
<1> QED BY <1>1, <1>4, <1>5, <1>6

(* A dragged window is left KEEP pixels of desktop. *)
LEMMA DraggedOk ==
  ASSUME NEW x \in MouseX, NEW y \in MouseY, Graspable(rect),
         grab \in [kind : {"title"}, dx : Int, dy : Int]
  PROVE  Graspable(Dragged(x, y))
<1> DEFINE nx == Lower(Upper(x - grab.dx, 0), SCREEN_W - KEEP)
           ny == Lower(Upper(y - grab.dy, 0), AreaH - KEEP)
<1>1. x - grab.dx \in Int /\ y - grab.dy \in Int
  BY Sizes DEF MouseX, MouseY
<1>2. nx \in Int /\ nx >= 0 /\ nx + KEEP <= SCREEN_W
  BY <1>1, Sizes DEF Lower, Upper
<1>3. ny \in Int /\ ny >= 0 /\ ny + KEEP <= AreaH
  BY <1>1, Sizes DEF Lower, Upper
<1>4. Dragged(x, y) = [x |-> nx, y |-> ny, w |-> rect.w, h |-> rect.h]
  BY DEF Dragged
<1> HIDE DEF nx, ny
<1> QED BY <1>2, <1>3, <1>4, Sizes DEF Graspable, Rect

(* So is a resized one, by one of the edges that EdgeIsLow leaves. *)
LEMMA ResizedOk ==
  ASSUME NEW x \in MouseX, NEW y \in MouseY, GoodGrab(grab),
         grab \in [kind : {"resize"}, edge : Edges, start : Rect, mx : Int,
                   my : Int]
  PROVE  Graspable(Resized(x, y))
<1> DEFINE r == grab.start
           s == Stretched(r, grab.edge, x - grab.mx, y - grab.my)
<1>1. /\ Graspable(r) /\ grab.edge \in {"S", "E", "W", "SE", "SW"}
      /\ grab.mx \in Int /\ grab.my \in Int /\ grab.mx >= r.x
      /\ grab.edge \in {"W", "SW"} => grab.mx - r.x < RESIZE_BORDER
  BY DEF GoodGrab, NoGrab, Edges
<1>2. x \in Int /\ y \in Int /\ x >= 0 /\ x < SCREEN_W
  BY Sizes DEF MouseX, MouseY
<1>4. /\ s.y = r.y /\ s.w \in Int /\ s.h \in Int /\ s.x \in Int
  BY <1>1, <1>2 DEF Stretched, Graspable, Rect
<1>5. s.x < SCREEN_W /\ s.x > -RESIZE_BORDER
  <2>1. CASE grab.edge \in {"W", "SW"}
    <3>1. s.x = r.x + (x - grab.mx)
      BY <2>1 DEF Stretched
    <3> QED BY <3>1, <2>1, <1>1, <1>2, Sizes DEF Graspable, Rect
  <2>2. CASE grab.edge \in {"S", "E", "SE"}
    <3>1. s.x = r.x
      BY <2>2 DEF Stretched
    <3> QED BY <3>1, <1>1 DEF Graspable
  <2> QED BY <2>1, <2>2, <1>1
<1>6. Resized(x, y) = [x |-> s.x, y |-> s.y,
                       w |-> Lower(Upper(s.w, MIN_W), SCREEN_W - s.x),
                       h |-> Lower(Upper(s.h, MIN_H), AreaH - s.y)]
  BY DEF Resized, Clamped
<1>7. s.y \in Int /\ s.y >= 0 /\ s.y + KEEP <= AreaH
  BY <1>1, <1>4 DEF Graspable, Rect
<1> HIDE DEF s
<1> QED BY <1>4, <1>5, <1>6, <1>7, Sizes, SMTT(60) DEF Graspable, Rect, Lower, Upper

(* Multiplication and division as wm_tile uses them. *)
LEMMA TimesMonotone ==
  ASSUME NEW a \in Nat, NEW b \in Nat, NEW c \in Nat, a <= b
  PROVE  a * c <= b * c
OBVIOUS

LEMMA DivBounds ==
  ASSUME NEW a \in Nat, NEW b \in Nat, b > 0
  PROVE  /\ a \div b \in Nat
         /\ (a \div b) * b <= a
         /\ a < (a \div b) * b + b
         /\ a % b \in Nat /\ a % b < b
<1>1. a \div b \in Int /\ a % b \in Int /\ a % b >= 0 /\ a % b < b
  OBVIOUS
<1>2. (a \div b) * b <= a
  OBVIOUS
<1>3. a < (a \div b) * b + b
  OBVIOUS
<1>4. a \div b >= 0
  OBVIOUS
<1> QED BY <1>1, <1>2, <1>3, <1>4

LEMMA RowsEnough ==
  ASSUME NEW count \in Nat, NEW cols \in Nat, cols > 0, count > 0
  PROVE  /\ Rows(count, cols) \in Nat /\ Rows(count, cols) > 0
         /\ count <= Rows(count, cols) * cols
<1> DEFINE n == count + cols - 1
           rows == n \div cols
<1>1. n \in Nat /\ n >= cols
  OBVIOUS
<1>2. rows \in Nat /\ rows * cols <= n /\ n < rows * cols + cols
  BY <1>1, DivBounds
<1>3. count <= rows * cols
  <2> HIDE DEF rows
  <2>1. rows * cols \in Nat
    BY <1>2
  <2> QED BY <1>2, <2>1
<1>4. rows # 0
  BY <1>3
<1> QED BY <1>2, <1>3, <1>4 DEF Rows

(* A cell of wm_tile starts on the desktop and leaves KEEP rows of it. *)
LEMMA TileOk ==
  ASSUME NEW count \in 1 .. MaxWindows, NEW cols \in 1 .. count,
         NEW idx \in 0 .. count - 1, AreColumns(cols, count)
  PROVE  LET c == TileCell(count, cols, idx) IN
         /\ c \in [x : Nat, y : Nat, w : Nat, h : Nat]
         /\ c.x + c.w <= SCREEN_W /\ c.y + c.h <= AreaH
         /\ c.x < SCREEN_W /\ c.h >= KEEP
<1> DEFINE rows == Rows(count, cols)
           col == idx % cols
           row == idx \div cols
           cw == SCREEN_W \div cols
           ch == AreaH \div rows
<1>0. /\ count \in Nat /\ count > 0 /\ cols \in Nat /\ cols > 0
      /\ idx \in Nat /\ idx < count
      /\ SCREEN_W \in Nat /\ AreaH \in Nat /\ MaxWindows \in Nat
  <2>1. MaxWindows \in Nat
    BY GeometryAssumption
  <2> QED BY <2>1, Sizes
<1>1. rows \in Nat /\ rows > 0 /\ count <= rows * cols
  BY <1>0, RowsEnough
<1>2. rows * KEEP <= AreaH
  BY GeometryAssumption
<1>3. col \in Nat /\ col + 1 <= cols /\ row \in Nat /\ row * cols <= idx
  BY <1>0, DivBounds
<1>4. cw \in Nat /\ cw * cols <= SCREEN_W
  BY <1>0, DivBounds
<1>5. ch \in Nat /\ ch * rows <= AreaH /\ AreaH < ch * rows + rows
  BY <1>0, <1>1, DivBounds
<1> HIDE DEF rows, col, row, cw, ch
<1>6. row + 1 <= rows
  <2>1. SUFFICES ASSUME rows <= row PROVE FALSE
    BY <1>1, <1>3
  <2>2. rows * cols <= row * cols
    BY <2>1, <1>0, <1>1, <1>3, TimesMonotone
  <2>3. rows * cols \in Nat /\ row * cols \in Nat
    BY <1>0, <1>1, <1>3
  <2> QED BY <2>2, <2>3, <1>0, <1>1, <1>3
<1>7. col * cw + cw <= SCREEN_W /\ col * cw \in Nat
  <2>1. (col + 1) * cw <= cols * cw
    BY <1>0, <1>3, <1>4, TimesMonotone
  <2>2. (col + 1) * cw = col * cw + cw /\ cols * cw = cw * cols
    BY <1>0, <1>3, <1>4
  <2>3. col * cw \in Nat /\ cw * cols \in Nat
    BY <1>0, <1>3, <1>4
  <2> QED BY <2>1, <2>2, <2>3, <1>4, <1>0
<1>8. row * ch + ch <= AreaH /\ row * ch \in Nat
  <2>1. (row + 1) * ch <= rows * ch
    BY <1>1, <1>3, <1>5, <1>6, TimesMonotone
  <2>2. (row + 1) * ch = row * ch + ch /\ rows * ch = ch * rows
    BY <1>1, <1>3, <1>5
  <2>3. row * ch \in Nat /\ ch * rows \in Nat
    BY <1>1, <1>3, <1>5
  <2> QED BY <2>1, <2>2, <2>3, <1>5, <1>0
<1>9. ch >= KEEP
  <2>1. SUFFICES ASSUME ch + 1 <= KEEP PROVE FALSE
    BY <1>5, Sizes
  <2>2. (ch + 1) * rows <= KEEP * rows
    BY <2>1, <1>1, <1>5, Sizes, TimesMonotone
  <2>3. (ch + 1) * rows = ch * rows + rows /\ KEEP * rows = rows * KEEP
    BY <1>1, <1>5, Sizes
  <2>4. ch * rows \in Nat /\ rows * KEEP \in Nat
    BY <1>1, <1>5, Sizes
  <2> QED BY <2>2, <2>3, <2>4, <1>1, <1>2, <1>5, <1>0
<1>10. col * cw < SCREEN_W
  BY <1>7, <1>4, <1>3, <1>0, Sizes
<1>11. TileCell(count, cols, idx)
         = [x |-> col * cw, y |-> row * ch, w |-> cw, h |-> ch]
  BY DEF TileCell, rows, col, row, cw, ch
<1> QED BY <1>4, <1>5, <1>7, <1>8, <1>9, <1>10, <1>11

(* What tells two cells apart: of two indices, the rows or the columns. *)
LEMMA CellsDiffer ==
  ASSUME NEW cols \in Nat, cols > 0, NEW i \in Nat, NEW j \in Nat, i # j
  PROVE  i % cols # j % cols \/ i \div cols # j \div cols
<1> DEFINE qi == i \div cols  ri == i % cols
           qj == j \div cols  rj == j % cols
<1>1. qi \in Int /\ qi = i \div cols /\ ri \in Int /\ ri = i % cols
  OBVIOUS
<1>2. qj \in Int /\ qj = j \div cols /\ rj \in Int /\ rj = j % cols
  OBVIOUS
<1> HIDE DEF qi, ri, qj, rj
<1>3. i = cols * qi + ri
  BY <1>1
<1>4. j = cols * qj + rj
  BY <1>2
<1>5. qi # qj \/ ri # rj
  BY <1>3, <1>4
<1> QED BY <1>5 DEF qi, ri, qj, rj

(* Two different multiples of a cell's size are at least that far apart. *)
LEMMA StepApart ==
  ASSUME NEW a \in Nat, NEW b \in Nat, NEW c \in Nat, a # b
  PROVE  a * c + c <= b * c \/ b * c + c <= a * c
<1>1. CASE a + 1 <= b
  <2>1. (a + 1) * c <= b * c
    BY <1>1, TimesMonotone
  <2> QED BY <2>1
<1>2. CASE b + 1 <= a
  <2>1. (b + 1) * c <= a * c
    BY <1>2, TimesMonotone
  <2> QED BY <2>1
<1> QED BY <1>1, <1>2

-----------------------------------------------------------------------------
LEMMA GripInvInit == GeometryInit => GripInv
<1> SUFFICES ASSUME GeometryInit PROVE GripInv
  OBVIOUS
<1>1. /\ Initial \in [x : Nat, y : Nat, w : Nat, h : Nat]
      /\ Initial.w > 0 /\ Initial.x < SCREEN_W
      /\ Initial.h > 0 /\ Initial.y + KEEP <= AreaH
  BY GeometryAssumption
<1>2. Graspable(Initial)
  BY <1>1, Sizes DEF Graspable, Rect
<1>3. rect = Initial /\ lastNormal = Initial /\ restoreRect = NoRect
      /\ state = "NORMAL" /\ restoreState = "NORMAL" /\ grab = NoGrab
  BY DEF GeometryInit
<1>4. NoRect \in Rect /\ Initial \in Rect
  BY <1>2 DEF NoRect, Rect, Graspable
<1> QED BY <1>2, <1>3, <1>4 DEF GripInv, GoodGrab

(* What a step does to lastNormal keeps it a rectangle. *)
LEMMA GripInvStep == GripInv /\ [GeometryNext]_geometryVars => GripInv'
<1> SUFFICES ASSUME GripInv, [GeometryNext]_geometryVars PROVE GripInv'
  OBVIOUS
<1>1. CASE UNCHANGED geometryVars
  BY <1>1 DEF GripInv, geometryVars
<1>2. CASE GeometryNext
  <2> DEFINE Rest == /\ state' \in {"NORMAL", "MINIMIZED", "MAXIMIZED"}
                     /\ restoreState' \in {"NORMAL", "MAXIMIZED"}
                     /\ Graspable(rect')
                     /\ restoreRect' \in Rect
                     /\ state' # "NORMAL" => Graspable(restoreRect')
                     /\ GoodGrab(grab')
  <2>0. NoRect \in Rect
    BY DEF NoRect, Rect
  <2>1. ASSUME NEW x \in MouseX, NEW y \in MouseY, PressTitle(x, y)
        PROVE  Rest
    <3>1. x - rect.x \in Int /\ y - rect.y \in Int
      BY Sizes DEF GripInv, Graspable, Rect, MouseX, MouseY
    <3>2. grab' \in [kind : {"title"}, dx : Int, dy : Int]
      BY <2>1, <3>1 DEF PressTitle
    <3> QED BY <2>1, <3>2 DEF PressTitle, GripInv, GoodGrab
  <2>2. ASSUME NEW x \in MouseX, NEW y \in MouseY, PressEdge(x, y)
        PROVE  Rest
    <3> DEFINE e == ResizeEdgeAt(rect, x, y)
    <3>1. /\ e \in {"S", "E", "W", "SE", "SW"} /\ x >= rect.x
          /\ e \in {"W", "SW"} => x - rect.x < RESIZE_BORDER
      BY <2>2, EdgeIsLow DEF PressEdge, GripInv, Graspable
    <3>2. x \in Int /\ y \in Int
      BY Sizes DEF MouseX, MouseY
    <3>3. grab' = [kind |-> "resize", edge |-> e, start |-> rect,
                   mx |-> x, my |-> y]
      BY <2>2 DEF PressEdge
    <3> HIDE DEF e
    <3>4. grab' \in [kind : {"resize"}, edge : Edges, start : Rect,
                     mx : Int, my : Int]
      BY <3>1, <3>2, <3>3 DEF Edges, GripInv, Graspable
    <3>5. GoodGrab(grab')
      BY <3>1, <3>3, <3>4 DEF GoodGrab, GripInv
    <3> QED BY <2>2, <3>5 DEF PressEdge, GripInv
  <2>3. ASSUME NEW x \in MouseX, NEW y \in MouseY, PressContent(x, y)
        PROVE  Rest
    BY <2>3 DEF PressContent, GripInv, GoodGrab
  <2>4. ASSUME NEW x \in MouseX, NEW y \in MouseY, PressMinimize(x, y)
        PROVE  Rest
    <3>1. state # "MINIMIZED"
      BY <2>4 DEF PressMinimize, HitTest
    <3> QED BY <2>4, <3>1 DEF PressMinimize, Minimize, GripInv, Graspable
  <2>5. ASSUME NEW x \in MouseX, NEW y \in MouseY, PressMaximize(x, y)
        PROVE  Rest
    <3>1. Graspable(WmMaximizedRect)
      BY Sizes DEF Graspable, WmMaximizedRect, Rect
    <3>2. state # "MINIMIZED"
      BY <2>5 DEF PressMaximize, HitTest
    <3> QED BY <2>5, <2>0, <3>1, <3>2
            DEF PressMaximize, WmToggleMaximize, GripInv, Graspable
  <2>6. ASSUME NEW x \in MouseX, NEW y \in MouseY, MouseMoved(x, y)
        PROVE  Rest
    <3>1. Graspable(rect')
      <4>1. CASE grab.kind = "title" /\ rect' = Dragged(x, y)
        <5>1. grab \in [kind : {"title"}, dx : Int, dy : Int]
          BY <4>1 DEF GripInv, GoodGrab, NoGrab
        <5> QED BY <4>1, <5>1, DraggedOk DEF GripInv
      <4>2. CASE grab.kind = "resize" /\ rect' = Resized(x, y)
        <5>1. grab \in [kind : {"resize"}, edge : Edges, start : Rect,
                        mx : Int, my : Int]
          BY <4>2 DEF GripInv, GoodGrab, NoGrab
        <5> QED BY <4>2, <5>1, ResizedOk DEF GripInv
      <4> QED BY <2>6, <4>1, <4>2 DEF MouseMoved
    <3> QED BY <2>6, <3>1 DEF MouseMoved, GripInv
  <2>7. ASSUME MouseReleased PROVE Rest
    BY <2>7 DEF MouseReleased, GripInv, GoodGrab
  <2>8. ASSUME WmRestoreWindow PROVE Rest
    <3>1. Graspable(WmMaximizedRect)
      BY Sizes DEF Graspable, WmMaximizedRect, Rect
    <3> QED BY <2>8, <2>0, <3>1 DEF WmRestoreWindow, GripInv
  <2>9. ASSUME WmCascade PROVE Rest
    <3>1. PICK x \in CascadeOffsets(SCREEN_W), y \in CascadeOffsets(AreaH) :
            rect' = CascadeAt(x, y)
      BY <2>9 DEF WmCascade
    <3>2. /\ x \in Int /\ x >= 0 /\ x + KEEP <= SCREEN_W
          /\ y \in Int /\ y >= 0 /\ y + KEEP <= AreaH
      BY Sizes DEF CascadeOffsets
    <3>3. Graspable(CascadeAt(x, y))
      BY <3>2, Sizes DEF GripInv, Graspable, Rect, CascadeAt, Upper
    <3>4. GoodGrab(grab')
      BY <2>9 DEF WmCascade, GoodGrab
    <3> QED BY <2>9, <2>0, <3>1, <3>3, <3>4 DEF WmCascade, GripInv
  <2>10. ASSUME WmTile PROVE Rest
    <3>1. PICK count \in 1 .. MaxWindows : \E cols \in 1 .. count,
               idx \in 0 .. count - 1 :
            AreColumns(cols, count) /\ rect' = Tiled(TileCell(count, cols, idx))
      BY <2>10 DEF WmTile
    <3>2. PICK cols \in 1 .. count, idx \in 0 .. count - 1 :
            AreColumns(cols, count) /\ rect' = Tiled(TileCell(count, cols, idx))
      BY <3>1
    <3> DEFINE c == TileCell(count, cols, idx)
    <3>3. /\ c \in [x : Nat, y : Nat, w : Nat, h : Nat]
          /\ c.y + c.h <= AreaH /\ c.x < SCREEN_W /\ c.h >= KEEP
      BY <3>2, TileOk
    <3> HIDE DEF c
    <3>4. Graspable(Tiled(c))
      BY <3>3, Sizes DEF Tiled, Graspable, Rect, Upper
    <3>5. GoodGrab(grab')
      BY <2>10 DEF WmTile, GoodGrab
    <3> QED BY <2>10, <2>0, <3>2, <3>4, <3>5 DEF WmTile, GripInv, c
  <2>11. Rest
    BY <1>2, <2>1, <2>2, <2>3, <2>4, <2>5, <2>6, <2>7, <2>8, <2>9, <2>10
       DEF GeometryNext, Press
  <2>12. lastNormal' \in Rect
    BY <1>2, <2>11 DEF GeometryNext, KeepNormal, GripInv, Graspable
  <2> QED BY <2>11, <2>12 DEF GripInv, Graspable, GoodGrab
<1> QED BY <1>1, <1>2

(* However it is dragged, resized, cascaded and tiled, on a screen of any  *)
(* size and with releases lost or not, a window keeps a pixel of its first *)
(* row on the desktop.                                                     *)
THEOREM AlwaysGraspable == GeometrySpec => []GripOnDesktop
<1>1. GripInv => GripOnDesktop
  BY DEF GripInv, Graspable, GripOnDesktop
<1> QED BY <1>1, GripInvInit, GripInvStep, PTL DEF GeometrySpec

(* Whatever the rectangle is, that is a matter of arithmetic. *)
LEMMA CellsApart == TilesApart
<1> SUFFICES ASSUME NEW count \in 1 .. MaxWindows, NEW cols \in 1 .. count,
                    AreColumns(cols, count),
                    NEW i \in 0 .. count - 1, NEW j \in 0 .. count - 1
             PROVE  LET c == TileCell(count, cols, i)
                        d == TileCell(count, cols, j)
                    IN /\ c.x >= 0 /\ c.x + c.w <= SCREEN_W
                       /\ c.y >= 0 /\ c.y + c.h <= AreaH
                       /\ i = j \/ c.x + c.w <= d.x \/ d.x + d.w <= c.x
                                \/ c.y + c.h <= d.y \/ d.y + d.h <= c.y
  BY DEF TilesApart
<1> DEFINE c == TileCell(count, cols, i)
           d == TileCell(count, cols, j)
           cw == SCREEN_W \div cols
           ch == AreaH \div Rows(count, cols)
<1>1. /\ c \in [x : Nat, y : Nat, w : Nat, h : Nat]
      /\ c.x + c.w <= SCREEN_W /\ c.y + c.h <= AreaH
  BY TileOk
<1>2. /\ c.w = cw /\ c.h = ch /\ c.x = (i % cols) * cw /\ c.y = (i \div cols) * ch
      /\ d.w = cw /\ d.h = ch /\ d.x = (j % cols) * cw /\ d.y = (j \div cols) * ch
  BY DEF TileCell
<1>3. /\ cols \in Nat /\ cols > 0 /\ i \in Nat /\ j \in Nat
  <2>1. MaxWindows \in Nat
    BY GeometryAssumption
  <2> QED BY <2>1
<1>4. /\ i % cols \in Nat /\ i \div cols \in Nat
      /\ j % cols \in Nat /\ j \div cols \in Nat
  BY <1>3, DivBounds
<1>5. cw \in Nat /\ ch \in Nat
  BY <1>1, <1>2
<1>6. i # j => \/ c.x + c.w <= d.x \/ d.x + d.w <= c.x
               \/ c.y + c.h <= d.y \/ d.y + d.h <= c.y
  <2> HIDE DEF c, d, cw, ch
  <2>1. CASE i % cols # j % cols
    BY <2>1, <1>2, <1>4, <1>5, StepApart
  <2>2. CASE i \div cols # j \div cols
    BY <2>2, <1>2, <1>4, <1>5, StepApart
  <2> QED BY <2>1, <2>2, <1>3, CellsDiffer
<1> QED BY <1>1, <1>6

(* The windows of a tiled desktop have cells of their own, all of them on  *)
(* the desktop, for every screen and number of windows that leave a cell   *)
(* KEEP rows.                                                              *)
THEOREM TilesAlwaysApart == GeometrySpec => []TilesApart
BY CellsApart, PTL

\* While a window is not in its normal state, restore_rect is where it was last.
Returning ==
  /\ state \in {"NORMAL", "MINIMIZED", "MAXIMIZED"}
  /\ restoreState \in {"NORMAL", "MAXIMIZED"}
  /\ IF state = "NORMAL" THEN lastNormal = rect ELSE restoreRect = lastNormal

\* What a step that is no arrangement of the desktop does to it.
LEMMA StepReturns ==
  ASSUME Returning, GeometryNext
  PROVE  /\ Returning'
         /\ state # "NORMAL" /\ state' = "NORMAL" /\ ~WmCascade /\ ~WmTile => rect' = lastNormal
<1> USE DEF Returning, KeepNormal
<1>0. KeepNormal
  BY DEF GeometryNext
<1>1. ASSUME NEW x \in MouseX, NEW y \in MouseY, PressTitle(x, y) \/ PressEdge(x, y) \/ PressContent(x, y)
      PROVE  Returning' /\ state' = state
  BY <1>0, <1>1 DEF PressTitle, PressEdge, PressContent
<1>2. ASSUME NEW x \in MouseX, NEW y \in MouseY, PressMinimize(x, y)
      PROVE  Returning' /\ state' # "NORMAL"
  <2>1. state # "MINIMIZED"
    BY <1>2 DEF PressMinimize, HitTest
  <2> QED
    BY <1>0, <1>2, <2>1 DEF PressMinimize, Minimize
<1>3. ASSUME NEW x \in MouseX, NEW y \in MouseY, PressMaximize(x, y)
      PROVE  Returning' /\ (state # "NORMAL" => rect' = lastNormal)
  <2>1. state # "MINIMIZED"
    BY <1>3 DEF PressMaximize, HitTest
  <2> QED
    BY <1>0, <1>3, <2>1 DEF PressMaximize, WmToggleMaximize
<1>4. ASSUME NEW x \in MouseX, NEW y \in MouseY, MouseMoved(x, y)
      PROVE  Returning' /\ state' = state
  BY <1>0, <1>4 DEF MouseMoved
<1>5. MouseReleased => Returning' /\ state' = state
  BY <1>0 DEF MouseReleased
<1>6. WmRestoreWindow => Returning' /\ (state' = "NORMAL" => rect' = lastNormal)
  BY <1>0 DEF WmRestoreWindow
<1>7. WmCascade \/ WmTile => Returning'
  BY <1>0 DEF WmCascade, WmTile
<1> QED
  BY <1>1, <1>2, <1>3, <1>4, <1>5, <1>6, <1>7 DEF GeometryNext, Press

(* wm.h's restore_rect: a window that leaves the normal state comes back   *)
(* where it was, however long it is minimised, maximised, dragged and      *)
(* resized in between, and with releases lost or not.                      *)
THEOREM WindowsComeBack == GeometrySpec => RestoreReturns
<1>1. GeometryInit => Returning
  BY DEF GeometryInit, Returning
<1>2. Returning /\ [GeometryNext]_geometryVars => Returning'
  <2>1. Returning /\ UNCHANGED geometryVars => Returning'
    BY DEF Returning, geometryVars
  <2> QED
    BY <2>1, StepReturns
<1>3. Returning /\ [GeometryNext]_geometryVars =>
        [state # "NORMAL" /\ state' = "NORMAL" /\ ~WmCascade /\ ~WmTile => rect' = lastNormal]_geometryVars
  BY StepReturns
<1> QED
  BY <1>1, <1>2, <1>3, PTL DEF GeometrySpec, RestoreReturns
=============================================================================
